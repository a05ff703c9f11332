-------------------------- MODULE BoardRunsRetention --------------------------
(***************************************************************************)
(* The staging object of a run survives as long as the run is active: why  *)
(* the lists that the sweep keeps between its statements are never wrong.  *)
(***************************************************************************)
EXTENDS BoardRunsSafety

(* How the lists of a worker change, and how it comes to clear a key. *)
ListsOf(v) ==
  \/ workers'[v] = workers[v]
  \/ /\ workers'[v].pc # "clear"
     /\ workers'[v].ids \subseteq workers[v].ids
     /\ workers'[v].todo \subseteq workers[v].todo
  \/ /\ SweepTick(v)
     /\ workers'[v].pc # "clear" /\ workers'[v].todo = {}
     /\ workers'[v].ids = {r \in Runs : run[r] \in Active /\ aged[r]}
  \/ /\ Collect(v)
     /\ workers'[v].pc # "clear" /\ workers'[v].ids = {}
     /\ \A x \in workers'[v].todo : bundles[x[1]][x[2]].del = "expired"
  \/ /\ DeleteObject(v)
     /\ workers'[v].ids = workers[v].ids /\ workers'[v].todo = workers[v].todo
     /\ <<workers'[v].run, workers'[v].slot>> \in workers[v].todo

Lists == \A v \in Workers : ListsOf(v)

LEMMA Shrink ==
  ASSUME Typed, NEW w \in Workers, NEW s, Become(w, s), s.pc # "clear",
         s.ids \subseteq workers[w].ids, s.todo \subseteq workers[w].todo
  PROVE  Lists
  BY BecomeIs DEF Lists, ListsOf

LEMMA Clears ==
  ASSUME Typed, NEW w \in Workers, NEW s, Become(w, s), s.pc # "clear", s.ids = {}, s.todo = {}
  PROVE  Lists
  BY Shrink

LEMMA IdleClears == ASSUME Typed, NEW w \in Workers, Finish(w) PROVE Lists
<1>1. Idle.pc # "clear" /\ Idle.ids = {} /\ Idle.todo = {}
  BY DEF Idle
<1>2. Become(w, Idle)
  BY DEF Finish
<1> QED
  BY <1>1, <1>2, Clears

LEMMA GiveUpClears == ASSUME Typed, NEW w \in Workers, GiveUp(w) PROVE Lists
<1> DEFINE s == [Idle EXCEPT !.pc = "failed", !.run = workers[w].run]
<1>1. s.pc # "clear" /\ s.ids = {} /\ s.todo = {}
  BY DEF Idle
<1> HIDE DEF s
<1>2. Become(w, s)
  BY DEF GiveUp, s
<1> QED
  BY <1>1, <1>2, Clears

LEMMA StepShrinks ==
  ASSUME Typed, NEW w \in Workers, NEW pc, pc # "clear", Step(w, pc)
  PROVE  Lists
<1> DEFINE s == [workers[w] EXCEPT !.pc = pc]
<1>1. workers[w] \in Worker
  BY DEF Typed, TypeOK
<1>2. s.pc = pc /\ s.ids = workers[w].ids /\ s.todo = workers[w].todo
  BY <1>1 DEF Worker
<1> HIDE DEF s
<1>3. Become(w, s)
  BY DEF Step, s
<1> QED
  BY <1>2, <1>3, Shrink

LEMMA NextDeleteShrinks ==
  ASSUME Typed, NEW w \in Workers, NEW r, NEW i, NextDelete(w, r, i)
  PROVE  Lists
<1> DEFINE left == workers[w].todo \ {<<r, i>>}
           s == [Idle EXCEPT !.pc = "delete", !.todo = left]
<1>1. s.pc # "clear" /\ s.ids = {} /\ s.todo = left
  BY DEF Idle
<1>2. Finish(w) \/ Become(w, s)
  BY DEF NextDelete, Finish
<1> HIDE DEF s
<1> QED
  BY <1>1, <1>2, IdleClears, Shrink

LEMMA ImportLists == ASSUME Typed, NEW w \in Workers, Import(w) PROVE Lists
<1> DEFINE me == workers[w]
<1>w. me \in Worker
  BY DEF Typed, TypeOK
<1>1. ASSUME NEW r \in Runs, Dequeue(w, r) PROVE Lists
  <2> DEFINE s == [Idle EXCEPT !.pc = "claimed", !.run = r]
  <2>1. s.pc # "clear" /\ s.ids = {} /\ s.todo = {}
    BY DEF Idle
  <2> HIDE DEF s
  <2>2. Become(w, s)
    BY <1>1 DEF Dequeue, s
  <2> QED
    BY <2>1, <2>2, Clears
<1>2. CASE MarkBundleImporting(w)
  <2> DEFINE s == [me EXCEPT !.pc = "download", !.slot = LatestSlot(me.run)]
  <2>1. s.pc # "clear" /\ s.ids = me.ids /\ s.todo = me.todo
    BY <1>w DEF Worker
  <2> HIDE DEF s
  <2>2. Become(w, s)
    BY <1>2 DEF MarkBundleImporting, s
  <2> QED
    BY <2>1, <2>2, Shrink
<1>3. CASE Download(w)
  <2> DEFINE s == [me EXCEPT !.pc = "extract", !.data = staging[me.run]]
  <2>1. s.pc # "clear" /\ s.ids = me.ids /\ s.todo = me.todo
    BY <1>w DEF Worker
  <2> HIDE DEF s
  <2>2. Become(w, s)
    BY <1>3 DEF Download, s
  <2> QED
    BY <2>1, <2>2, Shrink
<1>4. CASE Persist(w)
  <2> DEFINE s == [me EXCEPT !.pc = "commit", !.base = latest]
  <2>1. s.pc # "clear" /\ s.ids = me.ids /\ s.todo = me.todo
    BY <1>w DEF Worker
  <2> HIDE DEF s
  <2>2. Become(w, s)
    BY <1>4 DEF Persist, s
  <2> QED
    BY <2>1, <2>2, Shrink
<1>5. ASSUME NEW ack \in BOOLEAN, Commit(w, ack) PROVE Lists
  <2>1. Finish(w) \/ GiveUp(w)
    BY <1>5 DEF Commit
  <2> QED
    BY <2>1, IdleClears, GiveUpClears
<1>6. CASE ExtractAndUpload(w) \/ ImportError(w)
  BY <1>6, StepShrinks, GiveUpClears DEF ExtractAndUpload, ImportError
<1>7. CASE Reschedule(w) \/ FailJob(w)
  BY <1>7, IdleClears DEF Reschedule, FailJob
<1>8. CASE FailBundle(w) \/ FailRun(w) \/ FailureNotStored(w)
  BY <1>8, IdleClears, StepShrinks DEF FailBundle, FailRun, FailureNotStored
<1> QED
  BY <1>1, <1>2, <1>3, <1>4, <1>5, <1>6, <1>7, <1>8 DEF Import

LEMMA SweepLists == ASSUME Typed, NEW w \in Workers, Sweep(w) PROVE Lists
<1> DEFINE me == workers[w]
<1>w. me \in Worker
  BY DEF Typed, TypeOK
<1>r. ASSUME Become(w, [Idle EXCEPT !.pc = "repair"]) PROVE Lists
  <2> DEFINE s == [Idle EXCEPT !.pc = "repair"]
  <2>1. s.pc # "clear" /\ s.ids = {} /\ s.todo = {}
    BY DEF Idle
  <2>2. Become(w, s)
    BY <1>r
  <2> HIDE DEF s
  <2> QED
    BY <2>1, <2>2, Clears
<1>1. CASE SweepTick(w)
  <2> DEFINE ids == {r \in Runs : run[r] \in Active /\ aged[r]}
             s == [Idle EXCEPT !.pc = IF ids = {} THEN "repair" ELSE "arm", !.ids = ids]
  <2>1. s.pc # "clear" /\ s.ids = ids /\ s.todo = {}
    BY DEF Idle
  <2>2. Become(w, s)
    BY <1>1 DEF SweepTick, TimeOutRuns
  <2> HIDE DEF s
  <2> QED
    BY <1>1, <2>1, <2>2, BecomeIs DEF Lists, ListsOf
<1>2. CASE ArmTimedOut(w)
  BY <1>2, <1>r DEF ArmTimedOut
<1>3. CASE Repair(w)
  BY <1>3, StepShrinks DEF Repair
<1>4. CASE Collect(w)
  <2> DEFINE expired == {x \in Runs \X Slots :
                           bundles[x[1]][x[2]].key /\ bundles[x[1]][x[2]].del = "expired"}
             s == [Idle EXCEPT !.pc = "delete", !.todo = expired]
  <2>1. s.pc # "clear" /\ s.ids = {} /\ s.todo = expired
    BY DEF Idle
  <2>2. Finish(w) \/ Become(w, s)
    BY <1>4 DEF Collect, Finish
  <2>3. \A x \in s.todo : bundles[x[1]][x[2]].del = "expired"
    BY <2>1
  <2> HIDE DEF s
  <2>4. ASSUME Become(w, s) PROVE Lists
    BY <1>4, <2>1, <2>3, <2>4, BecomeIs DEF Lists, ListsOf
  <2> QED
    BY <2>2, <2>4, IdleClears
<1>5. CASE DeleteObject(w)
  <2>1. PICK x \in me.todo : Become(w, [me EXCEPT !.pc = "clear", !.run = x[1], !.slot = x[2]])
    BY <1>5 DEF DeleteObject
  <2> DEFINE s == [me EXCEPT !.pc = "clear", !.run = x[1], !.slot = x[2]]
  <2>2. s.ids = me.ids /\ s.todo = me.todo /\ s.run = x[1] /\ s.slot = x[2]
    BY <1>w DEF Worker
  <2>3. x = <<x[1], x[2]>>
    BY <1>w DEF Worker
  <2>4. Become(w, s)
    BY <2>1
  <2> HIDE DEF s
  <2> QED
    BY <1>5, <2>2, <2>3, <2>4, BecomeIs DEF Lists, ListsOf
<1>6. CASE ClearKey(w)
  BY <1>6, NextDeleteShrinks DEF ClearKey
<1>7. CASE SweepError(w)
  BY <1>7, <1>r, IdleClears, StepShrinks, NextDeleteShrinks DEF SweepError
<1> QED
  BY <1>1, <1>2, <1>3, <1>4, <1>5, <1>6, <1>7 DEF Sweep

LEMMA ListsMove == ASSUME Typed, [Next]_vars PROVE Lists
<1>1. workers' = workers => Lists
  BY DEF Lists, ListsOf
<1>2. CASE Api
  BY <1>1, <1>2 DEF Api, InsertBundle, CreateDropped, InsertRun, CreateAgain, Upload,
                   ImportArtifactBundle, FailRead, FailWrite, FailDropped
<1>3. CASE Time
  BY <1>1, <1>3 DEF Time, Age, Expire
<1>4. ASSUME NEW w \in Workers, Abandon(w) PROVE Lists
  BY <1>4, IdleClears DEF Abandon
<1>5. CASE UNCHANGED vars
  BY <1>1, <1>5 DEF vars
<1> QED
  BY <1>1, <1>2, <1>3, <1>4, <1>5, ImportLists, SweepLists DEF Next

-----------------------------------------------------------------------------
(* How the row of a bundle changes *)

RowStep(r, i) ==
  LET o == bundles[r][i]
      n == bundles'[r][i]
  IN  \/ n = o
      \/ ~Present(r, i) /\ n = NewBundle
      \/ \E c \in Runners :
           /\ ImportArtifactBundle(r, c)
           /\ n.status = "pending"
           /\ IF Present(r, i) THEN n.key = o.key /\ n.del = o.del
                               ELSE n.key /\ n.del = "none"
      \/ \E w \in Workers :
           /\ MarkBundleImporting(w) /\ workers[w].run = r
           /\ Present(r, i) /\ n.key = o.key /\ n.del = o.del
      \/ \E w \in Workers :
           /\ FailBundle(w) /\ workers[w].run = r
           /\ Present(r, i) /\ n.status = "failed" /\ n.key = o.key /\ n.del = "armed"
      \/ \E w \in Workers, ack \in BOOLEAN :
           /\ Commit(w, ack) /\ workers[w].run = r
           /\ Present(r, i) /\ n.key = o.key /\ n.del = "armed"
      \/ /\ n.status = o.status /\ n.key = o.key /\ o.key /\ n.del = "armed"
         /\ (\E w \in Workers : r \in workers[w].ids) \/ run[r] \in Terminal
      \/ /\ Expire(r, i)
         /\ n.status = o.status /\ n.key = o.key /\ o.del = "armed" /\ n.del = "expired"
      \/ \E w \in Workers :
           /\ ClearKey(w)
           /\ workers[w].pc = "clear" /\ workers[w].run = r /\ workers[w].slot = i
           /\ n.status = o.status /\ n.del = o.del

RowSteps == \A r \in Runs, i \in Slots : RowStep(r, i)

LEMMA SetRow ==
  ASSUME Typed, NEW r \in Runs, NEW i \in Slots, NEW b, BundleBecomes(r, i, b)
  PROVE  \A q \in Runs, j \in Slots :
           bundles'[q][j] = IF q = r /\ j = i THEN b ELSE bundles[q][j]
  BY DEF Typed, TypeOK, BundleBecomes

LEMMA ArmRows ==
  ASSUME Typed, NEW S, Arm(S),
         \A r \in S : (\E w \in Workers : r \in workers[w].ids) \/ run[r] \in Terminal
  PROVE  RowSteps
<1> SUFFICES ASSUME NEW r \in Runs, NEW i \in Slots PROVE RowStep(r, i)
  BY DEF RowSteps
<1> DEFINE b == [bundles[r][i] EXCEPT !.del = "armed"]
<1>1. b.status = bundles[r][i].status /\ b.key = bundles[r][i].key /\ b.del = "armed"
  BY RowTypes DEF Bundle
<1>2. bundles'[r][i] = bundles[r][i] \/ (bundles'[r][i] = b /\ r \in S /\ bundles[r][i].key)
  BY DEF Arm
<1> HIDE DEF b
<1> QED
  BY <1>1, <1>2 DEF RowStep

LEMMA ImportRows ==
  ASSUME Base, NEW w \in Workers, Import(w)
  PROVE  RowSteps
<1> USE DEF dbVars
<1>t. Typed
  BY DEF Base
<1>u. bundles' = bundles => RowSteps
  BY DEF RowSteps, RowStep
<1> DEFINE r == workers[w].run
           i == LatestSlot(r)
<1>s. i \in Slots
  BY DEF LatestSlot, Slots
<1>1. CASE MarkBundleImporting(w)
  <2> DEFINE b == [bundles[r][i] EXCEPT !.status = "importing"]
  <2>1. r \in Runs
    BY <1>1, <1>t DEF MarkBundleImporting, Typed, Locals, LocalsOf, Handling, Importing
  <2>2. b.key = bundles[r][i].key /\ b.del = bundles[r][i].del
    BY <1>s, <1>t, <2>1, RowTypes DEF Bundle
  <2>3. BundleBecomes(r, i, b) /\ Present(r, i)
    BY <1>1 DEF MarkBundleImporting
  <2> HIDE DEF b, i
  <2> QED
    BY <1>1, <1>s, <1>t, <2>1, <2>2, <2>3, SetRow DEF RowSteps, RowStep
<1>2. CASE FailBundle(w)
  <2> DEFINE b == [bundles[r][i] EXCEPT !.status = "failed", !.del = "armed"]
  <2>1. r \in Runs
    BY <1>2, <1>t DEF FailBundle, Typed, Locals, LocalsOf, Handling, GivingUp
  <2>2. b.status = "failed" /\ b.del = "armed" /\ b.key = bundles[r][i].key
    BY <1>s, <1>t, <2>1, RowTypes DEF Bundle
  <2>3. BundleBecomes(r, i, b) /\ Present(r, i)
    BY <1>2 DEF FailBundle
  <2> HIDE DEF b, i
  <2> QED
    BY <1>2, <1>s, <1>t, <2>1, <2>2, <2>3, SetRow DEF RowSteps, RowStep
<1>3. ASSUME NEW ack \in BOOLEAN, Commit(w, ack) PROVE RowSteps
  <2> DEFINE k == workers[w].slot
             b == [bundles[r][k] EXCEPT !.status = "completed", !.del = "armed"]
  <2>1. r \in Runs /\ k \in Slots /\ Present(r, k)
    BY <1>3, <1>t, CommitIs DEF Base, Slotted, Typed, TypeOK, Worker
  <2>2. b.del = "armed" /\ b.key = bundles[r][k].key
    BY <1>t, <2>1, RowTypes DEF Bundle
  <2>3. BundleBecomes(r, k, b)
    BY <1>3 DEF Commit
  <2> HIDE DEF b
  <2> QED
    BY <1>3, <1>t, <2>1, <2>2, <2>3, SetRow DEF RowSteps, RowStep
<1> QED
  BY <1>u, <1>1, <1>2, <1>3 DEF Import, Dequeue, Download, ExtractAndUpload, Persist,
     ImportError, Reschedule, FailRun, FailJob, FailureNotStored

LEMMA SweepRows ==
  ASSUME Base, NEW w \in Workers, Sweep(w)
  PROVE  RowSteps
<1> USE DEF dbVars
<1>t. Typed
  BY DEF Base
<1>u. bundles' = bundles => RowSteps
  BY DEF RowSteps, RowStep
<1>1. CASE ClearKey(w)
  <2> DEFINE r == workers[w].run
             i == workers[w].slot
             b == [bundles[r][i] EXCEPT !.key = FALSE]
  <2>1. r \in Runs /\ i \in Slots /\ workers[w].pc = "clear"
    BY <1>1, <1>t DEF ClearKey, Typed, TypeOK, Worker, Locals, LocalsOf
  <2>2. b.status = bundles[r][i].status /\ b.del = bundles[r][i].del
    BY <1>t, <2>1, RowTypes DEF Bundle
  <2>3. BundleBecomes(r, i, b)
    BY <1>1 DEF ClearKey
  <2> HIDE DEF b
  <2> QED
    BY <1>1, <1>t, <2>1, <2>2, <2>3, SetRow DEF RowSteps, RowStep
<1>2. CASE ArmTimedOut(w)
  BY <1>2, <1>t, ArmRows DEF ArmTimedOut
<1>3. CASE Repair(w)
  <2>1. \A r \in {q \in Runs : run[q] \in {"timed_out", "failed"}} : run[r] \in Terminal
    BY DEF Terminal
  <2> QED
    BY <1>3, <1>t, <2>1, ArmRows DEF Repair
<1> QED
  BY <1>u, <1>1, <1>2, <1>3 DEF Sweep, SweepTick, TimeOutRuns, Collect, DeleteObject, SweepError

LEMMA RowsStep == ASSUME Base, [Next]_vars PROVE RowSteps
<1> USE DEF dbVars
<1>t. Typed
  BY DEF Base
<1>u. bundles' = bundles => RowSteps
  BY DEF RowSteps, RowStep
<1>1. ASSUME NEW r \in Runs, InsertBundle(r) PROVE RowSteps
  <2> DEFINE k == IF Present(r, 1) THEN 2 ELSE 1
  <2>1. ~Present(r, k)
    BY <1>1, <1>t, InsertBundleIs DEF Base, Before
  <2> QED
    BY <1>1, <1>t, <2>1, InsertBundleIs DEF RowSteps, RowStep
<1>2. ASSUME NEW r \in Runs, NEW c \in Runners, ImportArtifactBundle(r, c) PROVE RowSteps
  <2> DEFINE i == LatestSlot(r)
             old == IF Present(r, i) THEN bundles[r][i] ELSE NewBundle
             b == [old EXCEPT !.sha = c, !.status = "pending"]
  <2>1. i \in Slots
    BY DEF LatestSlot, Slots
  <2>2. old \in Bundle
    BY <1>t, <2>1, RowTypes DEF NewBundle, Bundle
  <2>3. b.key = old.key /\ b.del = old.del /\ b.status = "pending"
    BY <2>2 DEF Bundle
  <2>4. ~Present(r, i) => old.key /\ old.del = "none"
    BY DEF NewBundle
  <2>5. BundleBecomes(r, i, b)
    BY <1>2 DEF ImportArtifactBundle, Accept
  <2> HIDE DEF b, i
  <2> QED
    BY <1>2, <1>t, <2>1, <2>3, <2>4, <2>5, SetRow DEF RowSteps, RowStep
<1>3. ASSUME NEW r \in Runs, NEW c \in Runners,
             \/ InsertRun(r, c) \/ CreateAgain(r, c) \/ Upload(r, c) \/ CreateDropped(r)
             \/ FailRead(r, c) \/ FailWrite(r, c) \/ FailDropped(r, c) \/ Age(r)
      PROVE  RowSteps
  BY <1>3, <1>u DEF InsertRun, CreateAgain, Upload, CreateDropped, FailRead, FailWrite,
                   FailDropped, Age
<1>4. ASSUME NEW r \in Runs, CreateDropped(r) \/ Age(r) PROVE RowSteps
  BY <1>4, <1>u DEF CreateDropped, Age
<1>5. ASSUME NEW r \in Runs, NEW i \in Slots, Expire(r, i) PROVE RowSteps
  <2> DEFINE b == [bundles[r][i] EXCEPT !.del = "expired"]
  <2>1. /\ b.status = bundles[r][i].status /\ b.key = bundles[r][i].key
        /\ b.del = "expired" /\ bundles[r][i].del = "armed"
    BY <1>5, <1>t, RowTypes DEF Bundle, Expire
  <2>2. BundleBecomes(r, i, b)
    BY <1>5 DEF Expire
  <2> HIDE DEF b
  <2> QED
    BY <1>5, <1>t, <2>1, <2>2, SetRow DEF RowSteps, RowStep
<1>6. ASSUME NEW w \in Workers, Abandon(w) PROVE RowSteps
  BY <1>6, <1>u DEF Abandon
<1>7. UNCHANGED vars => RowSteps
  BY <1>u DEF vars
<1> QED
  BY <1>1, <1>2, <1>3, <1>4, <1>5, <1>6, <1>7, ImportRows, SweepRows DEF Next, Api, Time

-----------------------------------------------------------------------------
(* Retention *)

Condemned(r, i) == Present(r, i) /\ (bundles[r][i].del # "none" \/ ~bundles[r][i].key)

(* What RetentionStartsAtTheEnd needs to be inductive: the runs a sweep has  *)
(* timed out are over, the bundles on its list had a date, nobody imports a  *)
(* bundle that is condemned while its run is active, and no attempts are     *)
(* counted before there is a job.                                            *)
Retained ==
  /\ \A r \in Runs, i \in Slots : ~Present(r, i) =>
       ~bundles[r][i].key /\ bundles[r][i].del = "none"
  /\ \A r \in Runs : jobs[r].status = "none" => jobs[r].attempts = 0
  /\ \A w \in Workers :
       /\ workers[w].pc \in Importing =>
            \/ run[workers[w].run] \in Terminal
            \/ \A i \in Slots : ~Condemned(workers[w].run, i)
       /\ \A r \in workers[w].ids : run[r] \in Terminal
       /\ \A x \in workers[w].todo : bundles[x[1]][x[2]].del # "none"
       /\ workers[w].pc = "clear" => bundles[workers[w].run][workers[w].slot].del # "none"

All == Invariant /\ AttemptsBounded /\ Retained /\ RetentionStartsAtTheEnd

LEMMA EndsStay ==
  ASSUME All, [Next]_vars, NEW r \in Runs, run[r] \in Terminal
  PROVE  run'[r] \in Terminal
  BY LedgerStep, TerminalStep DEF All, Invariant, Base

LEMMA AttemptsMove ==
  ASSUME All, [Next]_vars, NEW r \in Runs
  PROVE  \/ jobs'[r].attempts = jobs[r].attempts
         \/ jobs[r].status \in {"none", "pending"}
<1>t. Typed
  BY DEF All, Invariant, Base
<1>1. ASSUME NEW q \in Runs, NEW c \in Runners, ImportArtifactBundle(q, c)
      PROVE  jobs'[r].attempts = jobs[r].attempts \/ jobs[r].status \in {"none", "pending"}
  BY <1>1, <1>t, EnqueueIs DEF ImportArtifactBundle
<1>2. ASSUME NEW w \in Workers, NEW q \in Runs, Dequeue(w, q)
      PROVE  jobs'[r].attempts = jobs[r].attempts \/ jobs[r].status \in {"none", "pending"}
  <2>1. jobs[q].status = "pending"
    BY <1>2 DEF Dequeue
  <2> QED
    BY <1>2, <1>t, <2>1, DequeueIs
<1>3. ASSUME NEW w \in Workers, Reschedule(w) \/ FailJob(w)
      PROVE  jobs'[r].attempts = jobs[r].attempts
  <2>1. JobStatus(workers[w].run, "pending") \/ JobStatus(workers[w].run, "failed")
    BY <1>3 DEF Reschedule, FailJob
  <2> QED
    BY <1>3, <1>t, <2>1, Ends, JobStatusIs
<1>4. ASSUME NEW w \in Workers, NEW ack \in BOOLEAN, Commit(w, ack)
      PROVE  jobs'[r].attempts = jobs[r].attempts
  BY <1>4, <1>t, CommitIs, JobStatusIs
<1> QED
  BY <1>t, <1>1, <1>2, <1>3, <1>4, Shapes DEF Quiet

(* Used up attempts stay used up, and no job has used them up that can still *)
(* be taken.                                                                 *)
LEMMA UsedUp ==
  ASSUME All, [Next]_vars, NEW r \in Runs, jobs[r].attempts = MaxAttempts
  PROVE  /\ jobs[r].status \notin {"none", "pending"}
         /\ jobs'[r].attempts = MaxAttempts
<1>1. jobs[r].status # "none"
  BY MaxAttemptsAssumption DEF All, Retained
<1>2. jobs[r].status # "pending"
  BY MaxAttemptsAssumption DEF All, AttemptsBounded
<1> QED
  BY <1>1, <1>2, AttemptsMove

LEMMA DatesStay ==
  ASSUME All, [Next]_vars, NEW r \in Runs, NEW i \in Slots, bundles[r][i].del # "none"
  PROVE  bundles'[r][i].del # "none"
<1>1. Present(r, i)
  BY DEF All, Retained
<1>2. RowStep(r, i)
  BY RowsStep DEF All, Invariant, RowSteps
<1> QED
  BY <1>1, <1>2 DEF RowStep

(* A bundle is condemned by an ending of its run, or when it is given up. *)
LEMMA Condemning ==
  ASSUME All, [Next]_vars, NEW r \in Runs, NEW i \in Slots, Condemned(r, i)'
  PROVE  \/ run'[r] \in Terminal
         \/ /\ Condemned(r, i)
            /\ \/ bundles'[r][i].status = bundles[r][i].status
               \/ \E w \in Workers : MarkBundleImporting(w) /\ workers[w].run = r
         \/ \E w \in Workers :
              FailBundle(w) /\ workers[w].run = r /\ bundles'[r][i].status = "failed"
<1> DEFINE o == bundles[r][i]
           n == bundles'[r][i]
<1>t. Typed
  BY DEF All, Invariant, Base
<1>c. n.status # "absent" /\ (n.del # "none" \/ ~n.key)
  BY DEF Condemned, Present
<1>e. run[r] \in Terminal => run'[r] \in Terminal
  BY EndsStay
<1>p. Condemned(r, i) <=> o.status # "absent" /\ (o.del # "none" \/ ~o.key)
  BY DEF Condemned, Present
<1>1. CASE n = o
  BY <1>1, <1>c, <1>p
<1>2. CASE n = NewBundle
  BY <1>2, <1>c DEF NewBundle
<1>3. ASSUME NEW c \in Runners, ImportArtifactBundle(r, c),
             IF Present(r, i) THEN n.key = o.key /\ n.del = o.del ELSE n.key /\ n.del = "none"
      PROVE  FALSE
  <2>1. run[r] \in Active /\ jobs[r].status = "none"
    BY <1>3 DEF ImportArtifactBundle, All, Invariant, Base, OneSubmissionPerRun
  <2>2. Condemned(r, i)
    BY <1>3, <1>c, <1>p DEF Present
  <2>3. jobs[r].attempts = MaxAttempts
    BY <2>1, <2>2 DEF All, RetentionStartsAtTheEnd, Condemned, Active, Terminal
  <2> QED
    BY <2>1, <2>3, UsedUp
<1>4. ASSUME NEW w \in Workers, MarkBundleImporting(w), workers[w].run = r, Present(r, i),
             n.key = o.key, n.del = o.del
      PROVE  Condemned(r, i)
  BY <1>4, <1>c DEF Condemned
<1>5. ASSUME NEW w \in Workers, NEW ack \in BOOLEAN, Commit(w, ack), workers[w].run = r
      PROVE  run'[r] \in Terminal
  BY <1>5, <1>t DEF Commit, Typed, TypeOK, Terminal
<1>6. ASSUME NEW w \in Workers, r \in workers[w].ids PROVE run'[r] \in Terminal
  BY <1>6, <1>e DEF All, Retained
<1>7. ASSUME o.del # "none", n.status = o.status PROVE Condemned(r, i)
  BY <1>7, <1>c, <1>p
<1>8. ASSUME NEW w \in Workers, workers[w].pc = "clear", workers[w].run = r, workers[w].slot = i
      PROVE  o.del # "none"
  BY <1>8 DEF All, Retained
<1>r. RowStep(r, i)
  BY RowsStep DEF All, Invariant, RowSteps
<1> QED
  BY <1>r, <1>e, <1>1, <1>2, <1>3, <1>4, <1>5, <1>6, <1>7, <1>8 DEF RowStep

LEMMA RetentionStep == All /\ [Next]_vars => RetentionStartsAtTheEnd'
<1> SUFFICES ASSUME All, [Next]_vars, NEW r \in Runs, NEW i \in Slots, Condemned(r, i)'
             PROVE  \/ run'[r] \in Terminal
                    \/ bundles'[r][i].status = "failed" /\ jobs'[r].attempts = MaxAttempts
  BY DEF RetentionStartsAtTheEnd, Condemned
<1>t. Typed
  BY DEF All, Invariant, Base
<1>1. ASSUME Condemned(r, i), bundles'[r][i].status = bundles[r][i].status
      PROVE  \/ run'[r] \in Terminal
             \/ bundles'[r][i].status = "failed" /\ jobs'[r].attempts = MaxAttempts
  <2>1. \/ run[r] \in Terminal
        \/ bundles[r][i].status = "failed" /\ jobs[r].attempts = MaxAttempts
    BY <1>1 DEF All, RetentionStartsAtTheEnd, Condemned
  <2> QED
    BY <1>1, <2>1, EndsStay, UsedUp
<1>2. ASSUME Condemned(r, i), NEW w \in Workers, MarkBundleImporting(w), workers[w].run = r
      PROVE  run'[r] \in Terminal
  BY <1>2, EndsStay DEF All, Retained, MarkBundleImporting, Importing
<1>3. ASSUME NEW w \in Workers, FailBundle(w), workers[w].run = r
      PROVE  jobs'[r].attempts = MaxAttempts
  <2>1. jobs[r].attempts >= MaxAttempts /\ jobs' = jobs
    BY <1>3 DEF FailBundle
  <2>2. jobs[r].attempts <= MaxAttempts /\ jobs[r].attempts \in Nat
    BY <1>t, RowTypes DEF All, AttemptsBounded, Job
  <2> QED
    BY <2>1, <2>2, MaxAttemptsAssumption
<1> QED
  BY <1>1, <1>2, <1>3, Condemning

(* A worker that imports after a step was importing the run, or took the job. *)
LEMMA ImportsMove ==
  ASSUME Typed, [Next]_vars, NEW w \in Workers, workers'[w].pc \in Importing
  PROVE  \/ workers[w].pc \in Importing /\ workers'[w].run = workers[w].run
         \/ \E r \in Runs : Dequeue(w, r) /\ workers'[w].run = r
  BY WorkersMove DEF Moves, SameImport, Importing, MarkBundleImporting, Download,
                     ExtractAndUpload, Persist

LEMMA RetainedStep == All /\ [Next]_vars => Retained'
<1> SUFFICES ASSUME All, [Next]_vars PROVE Retained'
  OBVIOUS
<1>t. Base /\ Typed /\ Slotted /\ ClaimsAreExclusive
  BY DEF All, Invariant, Base
<1>1. ASSUME NEW r \in Runs, NEW i \in Slots, ~Present(r, i)'
      PROVE  ~bundles'[r][i].key /\ bundles'[r][i].del = "none"
  <2>1. ~Present(r, i)
    BY <1>1, <1>t, PresentStays
  <2>2. ~bundles[r][i].key /\ bundles[r][i].del = "none"
    BY <2>1 DEF All, Retained
  <2>3. RowStep(r, i)
    BY <1>t, RowsStep DEF RowSteps
  <2>4. bundles'[r][i].status = "absent"
    BY <1>1 DEF Present
  <2>5. \A w \in Workers : workers[w].pc = "clear" =>
          workers[w].run # r \/ workers[w].slot # i
    BY <2>2 DEF All, Retained
  <2> QED
    BY <2>1, <2>2, <2>3, <2>4, <2>5 DEF RowStep, NewBundle
<1>2. ASSUME NEW r \in Runs, jobs'[r].status = "none" PROVE jobs'[r].attempts = 0
  <2>1. jobs[r].status = "none" /\ jobs'[r].attempts = jobs[r].attempts
    <3>1. CASE SameJobs
      <4>1. jobs[r].status = "none"
        BY <1>2, <3>1 DEF SameJobs
      <4>2. jobs[r].sha = None /\ jobs'[r].sha = None
        BY <1>t, <3>1, <4>1 DEF Base, Before, SameJobs
      <4>3. ASSUME NEW q \in Runs, NEW c \in Runners, ImportArtifactBundle(q, c)
            PROVE  jobs'[r].attempts = jobs[r].attempts
        BY <1>2, <1>t, <4>3, EnqueueIs DEF ImportArtifactBundle
      <4>4. ASSUME NEW w \in Workers, NEW q \in Runs, Dequeue(w, q)
            PROVE  jobs'[r].attempts = jobs[r].attempts
        BY <1>2, <1>t, <4>4, DequeueIs
      <4>5. ASSUME NEW w \in Workers, Reschedule(w) \/ FailJob(w)
            PROVE  jobs'[r].attempts = jobs[r].attempts
        <5>1. JobStatus(workers[w].run, "pending") \/ JobStatus(workers[w].run, "failed")
          BY <4>5 DEF Reschedule, FailJob
        <5> QED
          BY <1>t, <4>5, <5>1, Ends, JobStatusIs
      <4>6. ASSUME NEW w \in Workers, NEW ack \in BOOLEAN, Commit(w, ack)
            PROVE  jobs'[r].attempts = jobs[r].attempts
        BY <1>t, <4>6, CommitIs, JobStatusIs
      <4> QED
        BY <1>t, <4>1, <4>3, <4>4, <4>5, <4>6, Shapes DEF Quiet
    <3>2. ASSUME NEW q \in Runs, NEW c \in Runners, ImportArtifactBundle(q, c)
          PROVE  jobs'[r] = jobs[r]
      BY <1>2, <1>t, <3>2, EnqueueIs DEF ImportArtifactBundle
    <3> QED
      BY <1>2, <1>t, <3>1, <3>2, JobsMove
  <2> QED
    BY <2>1 DEF All, Retained
<1>3. ASSUME NEW w \in Workers, NEW r \in Runs, workers'[w].pc \in Importing,
             workers'[w].run = r, run'[r] \notin Terminal, NEW i \in Slots, Condemned(r, i)'
      PROVE  FALSE
  <2>n. run[r] \notin Terminal
    BY <1>3, EndsStay
  <2>1. ASSUME Condemned(r, i) PROVE FALSE
    <3>1. bundles[r][i].status = "failed" /\ jobs[r].attempts = MaxAttempts
      BY <2>1, <2>n DEF All, RetentionStartsAtTheEnd, Condemned
    <3>2. jobs[r].status # "pending"
      BY <3>1, UsedUp
    <3>3. ~\E q \in Runs : Dequeue(w, q) /\ workers'[w].run = q
      BY <1>3, <3>2 DEF Dequeue
    <3>4. workers[w].pc \in Importing /\ r = workers[w].run
      BY <1>3, <1>t, <3>3, ImportsMove
    <3> QED
      BY <2>1, <2>n, <3>4 DEF All, Retained
  <2>2. ASSUME NEW v \in Workers, FailBundle(v), workers[v].run = r PROVE FALSE
    <3>1. workers[v].pc = "failed" /\ workers'[v].pc = "failRun" /\ jobs' = jobs
      BY <1>t, <2>2, StepIs DEF FailBundle
    <3>2. ~\E q \in Runs : Dequeue(w, q)
      <4> SUFFICES ASSUME NEW q \in Runs, Dequeue(w, q) PROVE FALSE
        OBVIOUS
      <4>1. jobs[q].status = "pending" /\ jobs'[q].status = "running"
        BY <1>t, DequeueIs DEF Dequeue
      <4> QED
        BY <3>1, <4>1
    <3>3. workers[w].pc \in Importing /\ workers[w].run = r
      BY <1>3, <1>t, <3>2, ImportsMove
    <3>4. v # w
      BY <1>3, <3>1 DEF Importing
    <3> QED
      BY <1>t, <2>2, <3>1, <3>3, <3>4 DEF ClaimsAreExclusive, GivingUp
  <2> QED
    BY <1>3, <2>1, <2>2, Condemning
<1>4. ASSUME NEW w \in Workers, NEW r \in workers'[w].ids PROVE run'[r] \in Terminal
  <2>1. ListsOf(w)
    BY <1>t, ListsMove DEF Lists
  <2>2. CASE r \in workers[w].ids
    <3>1. r \in Runs
      BY <1>t, <2>2 DEF Typed, TypeOK, Worker
    <3> QED
      BY <2>2, <3>1, EndsStay DEF All, Retained
  <2>3. CASE SweepTick(w) /\ r \in {q \in Runs : run[q] \in Active /\ aged[q]}
    BY <2>3 DEF SweepTick, TimeOutRuns, Terminal
  <2> QED
    BY <1>4, <2>1, <2>2, <2>3 DEF ListsOf
<1>5. ASSUME NEW w \in Workers, NEW x \in workers'[w].todo
      PROVE  bundles'[x[1]][x[2]].del # "none"
  <2>1. ListsOf(w)
    BY <1>t, ListsMove DEF Lists
  <2>2. bundles[x[1]][x[2]].del # "none"
    BY <1>5, <2>1 DEF ListsOf, All, Retained
  <2>3. x[1] \in Runs /\ x[2] \in Slots
    <3>1. Typed'
      BY <1>t, TypedStep
    <3> QED
      BY <1>5, <3>1 DEF Typed, TypeOK, Worker
  <2> QED
    BY <2>2, <2>3, DatesStay
<1>6. ASSUME NEW w \in Workers, workers'[w].pc = "clear"
      PROVE  bundles'[workers'[w].run][workers'[w].slot].del # "none"
  <2> DEFINE r == workers'[w].run
             i == workers'[w].slot
  <2>1. ListsOf(w)
    BY <1>t, ListsMove DEF Lists
  <2>2. bundles[r][i].del # "none"
    BY <1>6, <2>1 DEF ListsOf, All, Retained
  <2>3. Typed'
    BY <1>t, TypedStep
  <2>4. r \in Runs /\ i \in Slots
    BY <1>6, <2>3 DEF Typed, TypeOK, Worker, Locals, LocalsOf
  <2> QED
    BY <2>2, <2>4, DatesStay
<1>7. \A w \in Workers : workers'[w].pc \in Importing => workers'[w].run \in Runs
  <2>1. Typed'
    BY <1>t, TypedStep
  <2> QED
    BY <2>1 DEF Typed, Locals, LocalsOf, Handling
<1>8. ASSUME NEW w \in Workers, workers'[w].pc \in Importing, run'[workers'[w].run] \notin Terminal,
             NEW i \in Slots,
             bundles'[workers'[w].run][i].status # "absent",
             \/ bundles'[workers'[w].run][i].del # "none"
             \/ ~bundles'[workers'[w].run][i].key
      PROVE  FALSE
  <2>1. PICK r \in Runs : workers'[w].run = r
    BY <1>7, <1>8
  <2>2. Condemned(r, i)'
    BY <1>8, <2>1 DEF Condemned, Present
  <2> QED
    BY <1>3, <1>8, <2>1, <2>2
<1>9. ASSUME NEW w \in Workers, workers'[w].pc \in Importing
      PROVE  (\/ run[workers[w].run] \in Terminal
              \/ \A i \in Slots : ~Condemned(workers[w].run, i))'
  BY <1>8, <1>9 DEF Condemned, Present
<1> QED
  BY <1>1, <1>2, <1>4, <1>5, <1>6, <1>9 DEF Retained

LEMMA AllAlways == Spec => []All
<1>1. Init => Retained /\ RetentionStartsAtTheEnd
  <2> SUFFICES ASSUME Init PROVE Retained /\ RetentionStartsAtTheEnd
    OBVIOUS
  <2>1. \A r \in Runs, i \in Slots : ~Present(r, i) /\ bundles[r][i] = NoBundle
    BY DEF Init, Present, NoBundle
  <2>2. \A w \in Workers : workers[w] = Idle
    BY DEF Init
  <2> QED
    BY <2>1, <2>2 DEF Init, Retained, RetentionStartsAtTheEnd, NoBundle, NoJob, Idle, Importing
<1> QED
  BY <1>1, InvariantAlways, AttemptsAreBounded, RetainedStep, RetentionStep, PTL DEF Spec, All

(* No sweep condemns, deletes or forgets the staging object of a run that is *)
(* active, whatever list it kept from an earlier statement, unless all       *)
(* attempts of its import are used up.                                       *)
THEOREM RetentionIsSafe == Spec => []RetentionStartsAtTheEnd
  BY AllAlways, PTL DEF All

-----------------------------------------------------------------------------
(* The objects of the staging bucket have a name *)

(* Nothing is uploaded for the run any more. *)
Closed(r) ==
  /\ run[r] \notin {"absent", "created"}
  /\ creating[r] = None
  /\ \A c \in Runners : runners[r][c] # "ready"

(* Worker w has deleted the object of the bundle and not yet cleared its key. *)
Clearing(w, r, i) == workers[w].pc = "clear" /\ workers[w].run = r /\ workers[w].slot = i

(* What StagingIsNamed needs to be inductive: a run with a job is past its   *)
(* creation, uploads are over when the retention of a bundle is, when a      *)
(* sweep has the bundle on its list, and when its key is gone, and a key is  *)
(* cleared only for a bundle that is still on the list.                      *)
Swept ==
  /\ \A r \in Runs : jobs[r].status # "none" => run[r] \notin {"absent", "created"}
  /\ \A r \in Runs, i \in Slots :
       bundles[r][i].del = "expired" \/ (Present(r, i) /\ ~bundles[r][i].key) => Closed(r)
  /\ \A w \in Workers :
       /\ \A x \in workers[w].todo : Closed(x[1])
       /\ workers[w].pc = "clear" => <<workers[w].run, workers[w].slot>> \in workers[w].todo

LEMMA BegunStays ==
  ASSUME Typed, [Next]_vars, NEW r \in Runs, run[r] \notin {"absent", "created"}
  PROVE  run'[r] \notin {"absent", "created"}
<1> USE DEF Typed, TypeOK
<1>1. ASSUME NEW q \in Runs, NEW c \in Runners,
             InsertRun(q, c) \/ ImportArtifactBundle(q, c) \/ FailWrite(q, c)
      PROVE  run'[r] \notin {"absent", "created"}
  BY <1>1 DEF InsertRun, ImportArtifactBundle, FailWrite
<1>2. ASSUME NEW w \in Workers, FailRun(w) \/ SweepTick(w)
      PROVE  run'[r] \notin {"absent", "created"}
  BY <1>2 DEF FailRun, SweepTick, TimeOutRuns
<1>3. ASSUME NEW w \in Workers, NEW ack \in BOOLEAN, Commit(w, ack)
      PROVE  run'[r] \notin {"absent", "created"}
  BY <1>3 DEF Commit
<1>4. ASSUME NEW w \in Workers, Reschedule(w) \/ FailJob(w) \/ \E q \in Runs : Dequeue(w, q)
      PROVE  run' = run
  BY <1>4 DEF Reschedule, FailJob, Dequeue
<1> QED
  BY <1>1, <1>2, <1>3, <1>4, Visible

(* An upload URL is issued by a create request. *)
LEMMA Issuing ==
  ASSUME Typed, [Next]_vars, NEW r \in Runs, NEW c \in Runners, runners'[r][c] = "ready"
  PROVE  runners[r][c] = "ready" \/ creating[r] # None \/ run[r] = "created"
<1> DEFINE Goal == runners[r][c] = "ready" \/ creating[r] # None \/ run[r] = "created"
<1> USE DEF Typed, TypeOK
<1>s. runners' = runners => Goal
  OBVIOUS
<1>0. ASSUME NEW q \in Runs, InsertBundle(q) PROVE Goal
  <2>1. q # r => runners'[r] = runners[r]
    BY <1>0 DEF InsertBundle
  <2> QED
    BY <1>0, <2>1 DEF InsertBundle
<1>1. ASSUME NEW q \in Runs, NEW d \in Runners, CreateAgain(q, d) PROVE Goal
  <2>1. q # r => runners'[r] = runners[r]
    BY <1>1 DEF CreateAgain
  <2> QED
    BY <1>1, <2>1 DEF CreateAgain
<1>8. ASSUME NEW q \in Runs, NEW d \in Runners, Upload(q, d) PROVE Goal
  <2>1. runners'[r] = [runners[r] EXCEPT ![d] = IF q = r THEN "uploaded" ELSE runners[r][d]]
    BY <1>8 DEF Upload
  <2> QED
    BY <2>1
<1>2. ASSUME NEW q \in Runs, NEW i \in Slots, Expire(q, i) PROVE Goal
  BY <1>2 DEF Expire
<1>3. ASSUME NEW q \in Runs, NEW d \in Runners,
             \/ InsertRun(q, d) \/ ImportArtifactBundle(q, d)
             \/ FailRead(q, d) \/ FailWrite(q, d) \/ FailDropped(q, d)
      PROVE  runners' = runners
  BY <1>3 DEF InsertRun, ImportArtifactBundle, FailRead, FailWrite, FailDropped, apiVars
<1>4. ASSUME NEW q \in Runs, CreateDropped(q) \/ Age(q) PROVE runners' = runners
  BY <1>4 DEF CreateDropped, Age, apiVars
<1>5. ASSUME NEW w \in Workers, Import(w) PROVE runners' = runners
  BY <1>5 DEF Import, Dequeue, MarkBundleImporting, Download, ExtractAndUpload, Persist, Commit,
              ImportError, Reschedule, FailBundle, FailRun, FailJob, FailureNotStored, apiVars
<1>6. ASSUME NEW w \in Workers, Sweep(w) \/ Abandon(w) PROVE runners' = runners
  BY <1>6 DEF Sweep, SweepTick, TimeOutRuns, ArmTimedOut, Repair, Collect, DeleteObject,
              ClearKey, SweepError, Abandon, apiVars
<1>7. UNCHANGED vars => runners' = runners
  BY DEF vars, apiVars
<1> QED
  BY <1>s, <1>0, <1>1, <1>2, <1>3, <1>4, <1>5, <1>6, <1>7, <1>8 DEF Next, Api, Time

LEMMA ClosedStays ==
  ASSUME Typed, [Next]_vars, NEW r \in Runs, Closed(r)
  PROVE  Closed(r)'
<1>1. run'[r] \notin {"absent", "created"}
  BY BegunStays DEF Closed
<1>2. \A c \in Runners : runners'[r][c] # "ready"
  BY Issuing DEF Closed
<1>3. creating'[r] = None
  <2>1. ASSUME NEW q \in Runs, NEW c \in Runners, InsertRun(q, c) PROVE creating'[r] = None
    BY <2>1 DEF InsertRun, Closed, Typed, TypeOK
  <2> QED
    BY <2>1, Requests DEF Closed
<1> QED
  BY <1>1, <1>2, <1>3 DEF Closed

(* A bundle that is armed belongs to a run that is past its creation. *)
LEMMA ArmedHasBegun ==
  ASSUME All, Swept, NEW r \in Runs, NEW i \in Slots, bundles[r][i].del # "none"
  PROVE  run[r] \notin {"absent", "created"}
<1>1. Present(r, i)
  BY DEF All, Retained
<1>2. run[r] \in Terminal \/ jobs[r].attempts = MaxAttempts
  BY <1>1 DEF All, RetentionStartsAtTheEnd
<1>3. jobs[r].attempts = MaxAttempts => jobs[r].status # "none"
  BY MaxAttemptsAssumption DEF All, Retained
<1> QED
  BY <1>2, <1>3 DEF Swept, Terminal

LEMMA ExpireCloses ==
  ASSUME All, Swept, NEW r \in Runs, NEW i \in Slots, Expire(r, i)
  PROVE  Closed(r)'
<1>1. run[r] \notin {"absent", "created"} /\ run' = run
  BY ArmedHasBegun DEF Expire
<1> QED
  BY <1>1 DEF Expire, Closed, All, Invariant, Base, Typed, TypeOK

LEMMA DeleteObjectIs ==
  ASSUME Typed, NEW w \in Workers, DeleteObject(w)
  PROVE  /\ \A r \in Runs : staging'[r] = IF r = workers'[w].run THEN None ELSE staging[r]
         /\ \A v \in Workers \ {w} : workers'[v] = workers[v]
<1>1. PICK x \in workers[w].todo :
        /\ staging' = [staging EXCEPT ![x[1]] = None]
        /\ Become(w, [workers[w] EXCEPT !.pc = "clear", !.run = x[1], !.slot = x[2]])
  BY DEF DeleteObject
<1> DEFINE s == [workers[w] EXCEPT !.pc = "clear", !.run = x[1], !.slot = x[2]]
<1>2. workers[w] \in Worker
  BY DEF Typed, TypeOK
<1>3. s.run = x[1]
  BY <1>2 DEF Worker
<1>4. Become(w, s)
  BY <1>1
<1> HIDE DEF s
<1> QED
  BY <1>1, <1>3, <1>4, BecomeIs DEF Typed, TypeOK

(* How a worker comes to clear the key of a bundle. *)
LEMMA ClearingMoves ==
  ASSUME Typed, [Next]_vars, NEW w \in Workers, NEW r, NEW i, Clearing(w, r, i)'
  PROVE  \/ Clearing(w, r, i) /\ workers'[w] = workers[w]
         \/ DeleteObject(w) /\ <<r, i>> \in workers[w].todo /\ <<r, i>> \in workers'[w].todo
<1>1. ListsOf(w)
  BY ListsMove DEF Lists
<1> QED
  BY <1>1 DEF ListsOf, Clearing

LEMMA SweptStep == All /\ Swept /\ [Next]_vars => Swept'
<1> SUFFICES ASSUME All, Swept, [Next]_vars PROVE Swept'
  OBVIOUS
<1>t. Base /\ Typed /\ Typed'
  BY TypedStep DEF All, Invariant, Base
<1>1. ASSUME NEW r \in Runs, jobs'[r].status # "none" PROVE run'[r] \notin {"absent", "created"}
  <2>1. CASE jobs[r].status # "none"
    BY <1>t, <2>1, BegunStays DEF Swept
  <2>2. ASSUME jobs[r].status = "none", NEW q \in Runs, NEW c \in Runners,
               ImportArtifactBundle(q, c)
        PROVE  run'[r] \notin {"absent", "created"}
    <3>1. q = r
      BY <1>1, <1>t, <2>2, EnqueueIs DEF ImportArtifactBundle
    <3> QED
      BY <1>t, <2>2, <3>1 DEF ImportArtifactBundle, Typed, TypeOK
  <2>3. SameJobs \/ \E q \in Runs, c \in Runners : ImportArtifactBundle(q, c)
    BY <1>t, JobsMove DEF Base
  <2> QED
    BY <1>1, <2>1, <2>2, <2>3 DEF SameJobs
<1>2. ASSUME NEW r \in Runs, NEW i \in Slots,
             bundles'[r][i].del = "expired" \/ (Present(r, i)' /\ ~bundles'[r][i].key)
      PROVE  Closed(r)'
  <2> DEFINE o == bundles[r][i]
             n == bundles'[r][i]
  <2>r. RowStep(r, i)
    BY <1>t, RowsStep DEF RowSteps
  <2>1. CASE Expire(r, i)
    BY <2>1, ExpireCloses
  <2>2. ASSUME NEW w \in Workers, workers[w].pc = "clear", workers[w].run = r PROVE Closed(r)
    <3>1. <<r, workers[w].slot>> \in workers[w].todo
      BY <2>2 DEF Swept
    <3> QED
      BY <3>1 DEF Swept
  <2>3. ASSUME n = o PROVE Closed(r)
    BY <1>2, <2>3 DEF Swept, Present
  <2>4. ASSUME NEW c \in Runners, ImportArtifactBundle(r, c),
               IF Present(r, i) THEN n.key = o.key /\ n.del = o.del ELSE n.key /\ n.del = "none"
        PROVE  Closed(r)
    BY <1>2, <2>4 DEF Swept
  <2>5. ASSUME Present(r, i), n.key = o.key, n.del \in {o.del, "armed"} PROVE Closed(r)
    BY <1>2, <2>5 DEF Swept
  <2>6. ASSUME n.status = o.status, n.key = o.key, o.key, n.del = "armed" PROVE Closed(r)
    BY <1>2, <2>6 DEF Swept
  <2>7. n # NewBundle
    BY <1>2 DEF NewBundle
  <2>8. Closed(r) => Closed(r)'
    BY <1>t, ClosedStays
  <2> QED
    BY <2>r, <2>1, <2>2, <2>3, <2>4, <2>5, <2>6, <2>7, <2>8 DEF RowStep
<1>3. ASSUME NEW w \in Workers, NEW x \in workers'[w].todo PROVE Closed(x[1])'
  <2>1. ListsOf(w)
    BY <1>t, ListsMove DEF Lists
  <2>2. x[1] \in Runs /\ x[2] \in Slots
    BY <1>3, <1>t DEF Typed, TypeOK, Worker
  <2>3. Closed(x[1])
    BY <1>3, <2>1, <2>2 DEF ListsOf, Swept
  <2> QED
    BY <1>t, <2>2, <2>3, ClosedStays
<1>4. ASSUME NEW w \in Workers, workers'[w].pc = "clear"
      PROVE  <<workers'[w].run, workers'[w].slot>> \in workers'[w].todo
  <2>1. PICK r, i : r = workers'[w].run /\ i = workers'[w].slot
    OBVIOUS
  <2>2. Clearing(w, r, i)'
    BY <1>4, <2>1 DEF Clearing
  <2> QED
    BY <1>t, <2>1, <2>2, ClearingMoves DEF Swept, Clearing
<1> QED
  BY <1>1, <1>2, <1>3, <1>4 DEF Swept
(* How an object comes to be in the staging bucket. *)
LEMMA StagingMoves ==
  ASSUME Typed, [Next]_vars, NEW r \in Runs, staging'[r] # None
  PROVE  \/ staging[r] # None
         \/ \E c \in Runners : Upload(r, c)
<1> DEFINE Goal == staging[r] # None \/ \E c \in Runners : Upload(r, c)
<1>s. staging' = staging => Goal
  OBVIOUS
<1>1. ASSUME NEW q \in Runs, NEW c \in Runners, Upload(q, c) PROVE Goal
  BY <1>1 DEF Upload, Typed, TypeOK
<1>2. ASSUME NEW w \in Workers, DeleteObject(w) PROVE Goal
  BY <1>2, DeleteObjectIs
<1>3. ASSUME NEW q \in Runs, NEW c \in Runners,
             \/ InsertRun(q, c) \/ CreateAgain(q, c) \/ ImportArtifactBundle(q, c)
             \/ FailRead(q, c) \/ FailWrite(q, c) \/ FailDropped(q, c)
      PROVE  staging' = staging
  BY <1>3 DEF InsertRun, CreateAgain, ImportArtifactBundle, FailRead, FailWrite, FailDropped,
              s3Vars
<1>4. ASSUME NEW q \in Runs, InsertBundle(q) \/ CreateDropped(q) PROVE staging' = staging
  BY <1>4 DEF InsertBundle, CreateDropped, s3Vars
<1>5. ASSUME NEW q \in Runs, Age(q) \/ \E i \in Slots : Expire(q, i) PROVE staging' = staging
  BY <1>5 DEF Age, Expire, s3Vars
<1>6. ASSUME NEW w \in Workers, Import(w) PROVE staging' = staging
  BY <1>6 DEF Import, Dequeue, MarkBundleImporting, Download, ExtractAndUpload, Persist, Commit,
              ImportError, Reschedule, FailBundle, FailRun, FailJob, FailureNotStored, s3Vars
<1>7. ASSUME NEW w \in Workers, Sweep(w) \/ Abandon(w) PROVE staging' = staging \/ DeleteObject(w)
  BY <1>7 DEF Sweep, SweepTick, TimeOutRuns, ArmTimedOut, Repair, Collect, ClearKey, SweepError,
              Abandon, s3Vars
<1>8. UNCHANGED vars => staging' = staging
  BY DEF vars, s3Vars
<1> QED
  BY <1>s, <1>1, <1>2, <1>3, <1>4, <1>5, <1>6, <1>7, <1>8 DEF Next, Api, Time

(* A row keeps its key until a worker that clears it does so. *)
LEMMA KeyStays ==
  ASSUME Base, [Next]_vars, NEW r \in Runs, NEW i \in Slots, Present(r, i), bundles[r][i].key,
         \A w \in Workers : ~Clearing(w, r, i)
  PROVE  bundles'[r][i].key
<1>1. RowStep(r, i)
  BY RowsStep DEF RowSteps
<1>2. NewBundle.key
  BY DEF NewBundle
<1> QED
  BY <1>1, <1>2 DEF RowStep, Clearing

Named(r) ==
  \E i \in Slots : bundles[r][i].key /\ \A w \in Workers : ~Clearing(w, r, i)

LEMMA NamedStep == All /\ Swept /\ StagingIsNamed /\ [Next]_vars => StagingIsNamed'
<1> SUFFICES ASSUME All, Swept, StagingIsNamed, [Next]_vars,
                    NEW r \in Runs, staging'[r] # None, Present(r, 1)'
             PROVE  Named(r)'
  BY DEF StagingIsNamed, Named, Clearing
<1>t. Base /\ Typed /\ Slotted
  BY DEF All, Invariant, Base
<1>d. 1 \in Slots
  BY DEF Slots
(* An upload: the run is not closed, so no sweep has the bundle on its list. *)
<1>1. ASSUME NEW c \in Runners, Upload(r, c) PROVE Named(r)'
  <2>1. ~Closed(r) /\ UNCHANGED <<bundles, workers>>
    BY <1>1 DEF Upload, Closed, dbVars
  <2>2. Present(r, 1) /\ bundles[r][1].key
    BY <1>d, <2>1 DEF Swept, Present
  <2>3. \A w \in Workers : ~Clearing(w, r, 1)
    BY <2>1 DEF Swept, Clearing
  <2> QED
    BY <1>d, <2>1, <2>2, <2>3 DEF Named, Clearing
(* The first row of the run appears: it has its key, and no list names it. *)
<1>2. ASSUME ~Present(r, 1) PROVE Named(r)'
  <2>1. bundles[r][1].del = "none" /\ ~bundles[r][1].key
    BY <1>d, <1>2 DEF All, Retained
  <2>2. RowStep(r, 1)
    BY <1>d, <1>t, RowsStep DEF RowSteps
  <2>3. \A w \in Workers : ~Clearing(w, r, 1)
    BY <2>1 DEF All, Retained, Clearing
  <2>4. bundles'[r][1].key
    BY <1>2, <2>1, <2>2, <2>3 DEF RowStep, Present, NewBundle, Clearing
  <2>5. ASSUME NEW w \in Workers, Clearing(w, r, 1)' PROVE FALSE
    <3>1. <<r, 1>> \in workers[w].todo
      BY <1>t, <2>3, <2>5, ClearingMoves
    <3>2. bundles[<<r, 1>>[1]][<<r, 1>>[2]].del # "none"
      BY <3>1 DEF All, Retained
    <3> QED
      BY <2>1, <3>2
  <2> QED
    BY <1>d, <2>4, <2>5 DEF Named
(* The object was there: a worker that comes to clear a key has deleted it. *)
<1>3. ASSUME staging[r] # None, Present(r, 1) PROVE Named(r)'
  <2>1. PICK i \in Slots : bundles[r][i].key /\ \A w \in Workers : ~Clearing(w, r, i)
    BY <1>3 DEF StagingIsNamed, Clearing
  <2>2. Present(r, i)
    BY <2>1 DEF All, Retained
  <2>3. bundles'[r][i].key
    BY <1>t, <2>1, <2>2, KeyStays
  <2>4. ASSUME NEW w \in Workers, Clearing(w, r, i)' PROVE FALSE
    <3>1. DeleteObject(w) /\ workers'[w].run = r
      BY <1>t, <2>1, <2>4, ClearingMoves DEF Clearing
    <3> QED
      BY <1>t, <3>1, DeleteObjectIs
  <2> QED
    BY <2>3, <2>4 DEF Named
<1> QED
  BY <1>t, <1>1, <1>2, <1>3, StagingMoves

(* The sweep never loses an object: as long as there is one for a run with a *)
(* bundle row, a row has the key that leads to it, whatever workers sweep at *)
(* the same time, fail or stop between the deletion and the clearing.        *)
THEOREM NoObjectIsLost == Spec => []StagingIsNamed
<1>1. Init => Swept /\ StagingIsNamed
  BY DEF Init, Swept, StagingIsNamed, Present, NoBundle, NoJob, Idle
<1> QED
  BY <1>1, AllAlways, SweptStep, NamedStep, PTL DEF Spec
=============================================================================
