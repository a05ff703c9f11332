----------------------------- MODULE RunLedger -----------------------------
(***************************************************************************)
(* What the API promises about the runs of a board project, without the    *)
(* queue, the workers and the buckets: a run takes at most one submission, *)
(* while it is active; the submission is published at most once, whole,    *)
(* and becomes the latest of the project; a run that is over stays over.   *)
(*                                                                         *)
(* Which ending a run shows is left open on purpose: the code lets a fail  *)
(* request or a late import replace one ending by another (see the         *)
(* findings in the README), so the ledger allows it.                       *)
(***************************************************************************)
CONSTANTS Runs, Digests, None

VARIABLES state,      \* what a reader sees: "absent", active or one of three endings
          accepted,   \* the submission of each run
          published,  \* the submission whose results are visible
          newest      \* the run published last

vars == <<state, accepted, published, newest>>

Live == {"created", "importing"}

TypeOK ==
  /\ state \in [Runs -> {"absent", "completed", "failed", "timed_out"} \cup Live]
  /\ accepted \in [Runs -> Digests \cup {None}]
  /\ published \in [Runs -> Digests \cup {None}]
  /\ newest \in Runs \cup {None}

Init ==
  /\ state = [r \in Runs |-> "absent"]
  /\ accepted = [r \in Runs |-> None]
  /\ published = [r \in Runs |-> None]
  /\ newest = None

Open(r) ==
  /\ state[r] = "absent"
  /\ state' = [state EXCEPT ![r] = "created"]
  /\ UNCHANGED <<accepted, published, newest>>

Take(r, d) ==
  /\ state[r] \in Live
  /\ accepted[r] = None
  /\ accepted' = [accepted EXCEPT ![r] = d]
  /\ state' = [state EXCEPT ![r] = "importing"]
  /\ UNCHANGED <<published, newest>>

Publish(r) ==
  /\ accepted[r] # None
  /\ published[r] = None
  /\ published' = [published EXCEPT ![r] = accepted[r]]
  /\ state' = [state EXCEPT ![r] = "completed"]
  /\ newest' = r

Fail(r) ==
  /\ state[r] # "absent"
  /\ state' = [state EXCEPT ![r] = "failed"]
  /\ UNCHANGED <<accepted, published, newest>>

TimeOut(overdue) ==
  /\ \A r \in overdue : state[r] \in Live
  /\ state' = [r \in Runs |-> IF r \in overdue THEN "timed_out" ELSE state[r]]
  /\ UNCHANGED <<accepted, published, newest>>

Next ==
  \/ \E r \in Runs : Open(r) \/ Publish(r) \/ Fail(r) \/ \E d \in Digests : Take(r, d)
  \/ \E overdue \in SUBSET Runs : TimeOut(overdue)

Spec == Init /\ [][Next]_vars
=============================================================================
