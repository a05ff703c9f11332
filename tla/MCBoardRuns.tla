---------------------------- MODULE MCBoardRuns ----------------------------
(* Small instances of BoardRuns for TLC. *)
EXTENDS BoardRuns, TLC

CONSTANTS r1, r2, c1, c2, w1, w2

OneRun == {r1}
TwoRuns == {r1, r2}
OneRunner == {c1}
TwoRunners == {c1, c2}
OneWorker == {w1}
TwoWorkers == {w1, w2}

(* The behaviours of Spec in which twelve hours never pass: the sweeps have  *)
(* nothing to do, and a tick only drops the handler, as Abandon does.        *)
ShortNext == Api \/ \E w \in Workers : Import(w) \/ Abandon(w)
ShortSpec == Init /\ [][ShortNext]_vars

(* Runs, runners and workers are interchangeable in the safety properties.   *)
Symmetry == Permutations(Runs) \cup Permutations(Runners) \cup Permutations(Workers)
=============================================================================
