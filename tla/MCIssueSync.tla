---------------------------- MODULE MCIssueSync ----------------------------
(* Small instances of IssueSync for TLC. *)
EXTENDS IssueSync, TLC

CONSTANTS r1, r2, w1, w2

TwoRuns == {r1, r2}
OneWorker == {w1}
TwoWorkers == {w1, w2}

(* Each run changes the tree, or none does; the second has an error.         *)
ChangedTree == [r \in Runs |-> r]
SameTree == [r \in Runs |-> r1]
ErrorInSecond == [r \in Runs |-> IF r = r2 THEN 1 ELSE 0]

(* Workers are interchangeable in the safety properties.                     *)
Symmetry == Permutations(Workers)

(* The behaviours of Spec with at most MaxTroubles faults and steps of users, *)
(* but for the reopening of an issue that was closed.                        *)
CONSTANT MaxTroubles
VARIABLE troubles

FewInit == Init /\ troubles = 0

FewNext ==
  \/ /\ Import \/ \E w \in Workers : Work(w)
     /\ UNCHANGED troubles
  \/ /\ \E i \in DOMAIN issues : ReopenIssue(i)
     /\ UNCHANGED troubles
  \/ /\ Users \/ \E w \in Workers : Fault(w)
     /\ troubles < MaxTroubles
     /\ troubles' = troubles + 1

FewSpec == FewInit /\ [][FewNext]_<<vars, troubles>>
FewFairSpec == FewSpec /\ \A w \in Workers : WF_vars(Work(w))

(* The behaviours of SmoothSpec that are behaviours of FewSpec.              *)
FewSmoothNext ==
  \/ /\ Import \/ \E w \in Workers : Work(w)
     /\ UNCHANGED troubles
  \/ /\ \E i \in DOMAIN issues : ReopenIssue(i)
     /\ UNCHANGED troubles
  \/ /\ Users
     /\ troubles < MaxTroubles
     /\ troubles' = troubles + 1

FewSmoothSpec == FewInit /\ [][FewSmoothNext]_<<vars, troubles>>
=============================================================================
