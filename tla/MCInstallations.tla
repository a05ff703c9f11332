--------------------------- MODULE MCInstallations ---------------------------
(* Small instances of Installations for TLC. *)
EXTENDS Installations

(* The behaviours of Spec with at most MaxChanges changes on GitHub and at    *)
(* most MaxTroubles faults and reads for a user.                             *)
CONSTANTS MaxChanges, MaxTroubles
VARIABLES changes, troubles

(* To begin with, no installation exists, or all do and have no repository.  *)
FewInit ==
  /\ hosts = [r \in Repos |-> None]
  /\ \E l \in {"new", "installed"} : life = [i \in Installations |-> l]
  /\ messages = {}
  /\ rows = [r \in Repos |-> None]
  /\ states = [i \in Installations |->
                 [seen |-> Old, started |-> Old, completed |-> Old, failed |-> FALSE]]
  /\ workers = [w \in Workers |-> Idle]
  /\ changes = 0 /\ troubles = 0

FewNext ==
  \/ /\ Handle \/ Tick \/ \E w \in Workers : Sync(w)
     /\ UNCHANGED <<changes, troubles>>
  \/ /\ GitHub
     /\ changes < MaxChanges /\ changes' = changes + 1
     /\ UNCHANGED troubles
  \/ /\ Read \/ Fault
     /\ troubles < MaxTroubles /\ troubles' = troubles + 1
     /\ UNCHANGED changes

FewFairSpec == FewInit /\ [][FewNext]_<<vars, changes, troubles>> /\ Fairness
=============================================================================
