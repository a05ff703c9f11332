--------------------------- MODULE BoardRunsProofs ---------------------------
(***************************************************************************)
(* Type correctness of BoardRuns, and who may handle a job how often.      *)
(*                                                                         *)
(* Typed is the type invariant with what the program counter of a worker   *)
(* says of its locals. Above it, Shapes reduces every step to six cases:   *)
(* five actions that touch the job of a run, and all the others, which     *)
(* leave jobs and rows alone and let no worker take up a job.              *)
(***************************************************************************)
EXTENDS BoardRuns, TLAPS

Handling == Importing \cup GivingUp

(* A worker that handles a job, or clears a key, knows the run; one that has *)
(* downloaded the archive has it.                                            *)
LocalsOf(v) ==
  /\ v.pc \in Handling \cup {"clear"} => v.run \in Runs
  /\ v.pc \in {"extract", "persist", "commit"} => v.data \in Runners

Locals == \A w \in Workers : LocalsOf(workers[w])

Typed == TypeOK /\ Locals

LEMMA TypedInit == Init => Typed
  BY DEF Init, Typed, TypeOK, Locals, LocalsOf, Handling, Status, Bundle, Job, Worker, NoBundle, NoJob,
         Idle, Importing, GivingUp, Sweeping, Slots, Active, Terminal

LEMMA RowUpdates ==
  /\ \A j \in Job : /\ [j EXCEPT !.status = "running", !.attempts = j.attempts + 1] \in Job
                     /\ \A s \in {"pending", "running", "completed", "failed"} :
                          [j EXCEPT !.status = s] \in Job
  /\ \A b \in Bundle : /\ [b EXCEPT !.status = "importing"] \in Bundle
                        /\ [b EXCEPT !.status = "completed", !.del = "armed"] \in Bundle
                        /\ [b EXCEPT !.status = "failed", !.del = "armed"] \in Bundle
                        /\ [b EXCEPT !.del = "armed"] \in Bundle
                        /\ [b EXCEPT !.del = "expired"] \in Bundle
                        /\ [b EXCEPT !.key = FALSE] \in Bundle
<1>1. ASSUME NEW j \in Job
      PROVE  [j EXCEPT !.status = "running", !.attempts = j.attempts + 1] \in Job
  <2>1. j.attempts + 1 \in Nat
    BY DEF Job
  <2> QED
    BY <2>1 DEF Job
<1>2. ASSUME NEW j \in Job, NEW s \in {"pending", "running", "completed", "failed"}
      PROVE  [j EXCEPT !.status = s] \in Job
  BY DEF Job
<1>3. ASSUME NEW b \in Bundle, NEW s \in {"importing", "completed", "failed"}
      PROVE  [b EXCEPT !.status = s] \in Bundle
  BY DEF Bundle
<1>4. ASSUME NEW b \in Bundle, NEW d \in {"armed", "expired"}
      PROVE  [b EXCEPT !.del = d] \in Bundle
  BY DEF Bundle
<1>5. ASSUME NEW b \in Bundle PROVE [b EXCEPT !.key = FALSE] \in Bundle
  BY DEF Bundle
<1> QED
  BY <1>1, <1>2, <1>3, <1>4, <1>5

LEMMA RowTypes ==
  ASSUME Typed, NEW r \in Runs
  PROVE  /\ jobs[r] \in Job
         /\ \A i \in Slots : bundles[r][i] \in Bundle
  BY DEF Typed, TypeOK

LEMMA JobTyped ==
  ASSUME Typed, NEW r, NEW job \in Job, JobBecomes(r, job)
  PROVE  jobs' \in [Runs -> Job]
  BY DEF Typed, TypeOK, JobBecomes

LEMMA JobStatusTyped ==
  ASSUME Typed, NEW r \in Runs, NEW s \in {"pending", "running", "completed", "failed"},
         JobStatus(r, s)
  PROVE  jobs' \in [Runs -> Job]
<1>1. [jobs[r] EXCEPT !.status = s] \in Job
  BY RowTypes, RowUpdates
<1> QED
  BY <1>1, JobTyped DEF JobStatus

LEMMA BundleTyped ==
  ASSUME Typed, NEW r, NEW i \in Slots, NEW b \in Bundle, BundleBecomes(r, i, b)
  PROVE  bundles' \in [Runs -> [Slots -> Bundle]]
  BY DEF Typed, TypeOK, BundleBecomes

LEMMA TypedApi == Typed /\ Api => Typed'
<1> SUFFICES ASSUME Typed, NEW r \in Runs,
                    \/ InsertBundle(r)
                    \/ CreateDropped(r)
                    \/ \E c \in Runners : \/ InsertRun(r, c)
                                          \/ CreateAgain(r, c)
                                          \/ Upload(r, c)
                                          \/ ImportArtifactBundle(r, c)
                                          \/ FailRead(r, c)
                                          \/ FailWrite(r, c)
                                          \/ FailDropped(r, c)
             PROVE  Typed'
  BY DEF Api
<1> USE DEF Typed, dbVars, s3Vars, apiVars
<1>l. workers' = workers => Locals'
  BY DEF Locals
<1>1. CASE InsertBundle(r)
  <2>1. NewBundle \in Bundle
    BY DEF NewBundle, Bundle
  <2>2. bundles' \in [Runs -> [Slots -> Bundle]]
    BY <1>1, <2>1, BundleTyped DEF InsertBundle, Slots
  <2> QED
    BY <1>1, <1>l, <2>2 DEF InsertBundle, TypeOK
<1>2. CASE CreateDropped(r)
  BY <1>2, <1>l DEF CreateDropped, TypeOK
<1>3. ASSUME NEW c \in Runners, InsertRun(r, c) PROVE Typed'
  BY <1>3, <1>l DEF InsertRun, TypeOK, Status, Active
<1>4. ASSUME NEW c \in Runners, CreateAgain(r, c) PROVE Typed'
  BY <1>4, <1>l DEF CreateAgain, TypeOK
<1>5. ASSUME NEW c \in Runners, Upload(r, c) PROVE Typed'
  BY <1>5, <1>l DEF Upload, TypeOK
<1>6. ASSUME NEW c \in Runners, ImportArtifactBundle(r, c) PROVE Typed'
  <2> DEFINE i == LatestSlot(r)
             old == IF Present(r, i) THEN bundles[r][i] ELSE NewBundle
  <2>1. i \in Slots
    BY DEF LatestSlot, Slots
  <2>2. old \in Bundle
    BY <2>1 DEF TypeOK, NewBundle, Bundle
  <2>3. [old EXCEPT !.sha = c, !.status = "pending"] \in Bundle
    BY <2>2 DEF Bundle
  <2>4. bundles' \in [Runs -> [Slots -> Bundle]]
    BY <1>6, <2>1, <2>3, BundleTyped DEF ImportArtifactBundle, Accept
  <2>5. [NoJob EXCEPT !.status = "pending", !.sha = c] \in Job
    BY DEF NoJob, Job
  <2>6. jobs' \in [Runs -> Job]
    BY <1>6, <2>5, JobTyped DEF ImportArtifactBundle, EnqueueImport, TypeOK
  <2> QED
    BY <1>6, <1>l, <2>4, <2>6 DEF ImportArtifactBundle, TypeOK, Status, Active
<1>7. ASSUME NEW c \in Runners, FailRead(r, c) PROVE Typed'
  BY <1>7, <1>l DEF FailRead, TypeOK
<1>8. ASSUME NEW c \in Runners, FailWrite(r, c) PROVE Typed'
  BY <1>8, <1>l DEF FailWrite, TypeOK, Status, Terminal
<1>9. ASSUME NEW c \in Runners, FailDropped(r, c) PROVE Typed'
  BY <1>9, <1>l DEF FailDropped, TypeOK
<1> QED BY <1>1, <1>2, <1>3, <1>4, <1>5, <1>6, <1>7, <1>8, <1>9

LEMMA IdleIsWorker ==
  /\ Idle \in Worker
  /\ Idle.pc = "idle"
  /\ Idle.run = None
  /\ Idle.todo = {}
  BY DEF Idle, Worker, Slots

LEMMA BecomeTyped ==
  ASSUME Typed, NEW w \in Workers, NEW v \in Worker, LocalsOf(v), Become(w, v)
  PROVE  workers' \in [Workers -> Worker] /\ Locals'
  BY DEF Typed, TypeOK, Locals, Become

LEMMA IdleTyped ==
  ASSUME Typed, NEW w \in Workers, Become(w, Idle)
  PROVE  workers' \in [Workers -> Worker] /\ Locals'
<1>1. LocalsOf(Idle)
  BY IdleIsWorker DEF LocalsOf, Handling, Importing, GivingUp
<1> QED
  BY <1>1, IdleIsWorker, BecomeTyped

LEMMA StepTyped ==
  ASSUME Typed, NEW w \in Workers, NEW pc \in GivingUp \cup {"persist", "collect"}, Step(w, pc),
         pc \in GivingUp => workers[w].pc \in Handling,
         pc = "persist" => workers[w].pc = "extract"
  PROVE  workers' \in [Workers -> Worker] /\ Locals'
<1> DEFINE v == [workers[w] EXCEPT !.pc = pc]
<1>1. workers[w] \in Worker /\ LocalsOf(workers[w])
  BY DEF Typed, TypeOK, Locals
<1>2. v \in Worker
  BY <1>1 DEF Worker, GivingUp, Importing, Sweeping
<1>3. LocalsOf(v)
  BY <1>1 DEF LocalsOf, Handling, GivingUp, Importing, Worker
<1> QED
  BY <1>2, <1>3, BecomeTyped DEF Step

LEMMA GiveUpTyped ==
  ASSUME Typed, NEW w \in Workers, workers[w].pc \in Handling, GiveUp(w)
  PROVE  workers' \in [Workers -> Worker] /\ Locals'
<1> DEFINE v == [Idle EXCEPT !.pc = "failed", !.run = workers[w].run]
<1>1. workers[w].run \in Runs
  BY DEF Typed, Locals, LocalsOf
<1>2. v \in Worker /\ v.pc = "failed" /\ v.run = workers[w].run
  BY <1>1 DEF Worker, Idle, Slots, GivingUp
<1>3. LocalsOf(v)
  BY <1>1, <1>2 DEF LocalsOf, Handling, GivingUp, Importing
<1> QED
  BY <1>2, <1>3, BecomeTyped DEF GiveUp

LEMMA TypedImport == ASSUME Typed, NEW w \in Workers, Import(w) PROVE Typed'
<1> USE DEF Typed, dbVars, s3Vars, apiVars
<1> DEFINE me == workers[w]
<1>w. me \in Worker /\ LocalsOf(me)
  BY DEF TypeOK, Locals
<1>s. LatestSlot(me.run) \in Slots
  BY DEF LatestSlot, Slots
<1>1. ASSUME NEW r \in Runs, Dequeue(w, r) PROVE Typed'
  <2> DEFINE v == [Idle EXCEPT !.pc = "claimed", !.run = r]
  <2>1. v \in Worker /\ LocalsOf(v)
    BY DEF Idle, Worker, Slots, Importing, LocalsOf
  <2>2. workers' \in [Workers -> Worker] /\ Locals'
    BY <1>1, <2>1, BecomeTyped DEF Dequeue
  <2>3. [jobs[r] EXCEPT !.status = "running", !.attempts = jobs[r].attempts + 1] \in Job
    BY RowTypes, RowUpdates
  <2>4. jobs' \in [Runs -> Job]
    BY <1>1, <2>3, JobTyped DEF Dequeue
  <2> QED
    BY <1>1, <2>2, <2>4 DEF Dequeue, TypeOK
<1>2. CASE MarkBundleImporting(w)
  <2> DEFINE v == [me EXCEPT !.pc = "download", !.slot = LatestSlot(me.run)]
  <2>1. v \in Worker /\ LocalsOf(v)
    BY <1>2, <1>w, <1>s DEF MarkBundleImporting, Worker, Importing, LocalsOf, Handling
  <2>2. workers' \in [Workers -> Worker] /\ Locals'
    BY <1>2, <2>1, BecomeTyped DEF MarkBundleImporting
  <2>3. me.run \in Runs
    BY <1>2, <1>w DEF MarkBundleImporting, LocalsOf, Handling, Importing
  <2>4. [bundles[me.run][LatestSlot(me.run)] EXCEPT !.status = "importing"] \in Bundle
    BY <1>s, <2>3, RowTypes, RowUpdates
  <2>5. bundles' \in [Runs -> [Slots -> Bundle]]
    BY <1>2, <1>s, <2>4, BundleTyped DEF MarkBundleImporting
  <2> QED
    BY <1>2, <2>2, <2>5 DEF MarkBundleImporting, TypeOK
<1>3. CASE Download(w)
  <2> DEFINE v == [me EXCEPT !.pc = "extract", !.data = staging[me.run]]
  <2>1. me.run \in Runs /\ staging[me.run] \in Runners
    BY <1>3, <1>w DEF Download, TypeOK, LocalsOf, Handling, Importing
  <2>2. v \in Worker /\ LocalsOf(v)
    BY <1>w, <2>1 DEF Worker, Importing, LocalsOf
  <2>3. workers' \in [Workers -> Worker] /\ Locals'
    BY <1>3, <2>2, BecomeTyped DEF Download
  <2> QED
    BY <1>3, <2>3 DEF Download, TypeOK
<1>4. CASE ExtractAndUpload(w)
  <2>1. me.run \in Runs /\ me.data \in Runners
    BY <1>4, <1>w DEF ExtractAndUpload, LocalsOf, Handling, Importing
  <2>2. workers' \in [Workers -> Worker] /\ Locals'
    BY <1>4, StepTyped, GiveUpTyped DEF ExtractAndUpload, Handling, Importing, GivingUp
  <2> QED
    BY <1>4, <2>1, <2>2 DEF ExtractAndUpload, TypeOK
<1>5. CASE Persist(w)
  <2> DEFINE v == [me EXCEPT !.pc = "commit", !.base = latest]
  <2>1. v \in Worker /\ LocalsOf(v)
    BY <1>5, <1>w DEF Persist, TypeOK, Worker, Importing, LocalsOf, Handling
  <2>2. workers' \in [Workers -> Worker] /\ Locals'
    BY <1>5, <2>1, BecomeTyped DEF Persist
  <2> QED
    BY <1>5, <2>2 DEF Persist, TypeOK
<1>6. ASSUME NEW ack \in BOOLEAN, Commit(w, ack) PROVE Typed'
  <2>1. /\ me.run \in Runs
        /\ me.data \in Runners
        /\ me.slot \in Slots
        /\ me.base \in Runs \cup {None}
    BY <1>6, <1>w DEF Commit, LocalsOf, Handling, Importing, Worker
  <2>2. workers' \in [Workers -> Worker] /\ Locals'
    BY <1>6, IdleTyped, GiveUpTyped DEF Commit, Finish, Handling, Importing
  <2>6. [bundles[me.run][me.slot] EXCEPT !.status = "completed", !.del = "armed"] \in Bundle
    BY <2>1, RowTypes, RowUpdates
  <2>3. bundles' \in [Runs -> [Slots -> Bundle]]
    BY <1>6, <2>1, <2>6, BundleTyped DEF Commit
  <2>4. jobs' \in [Runs -> Job]
    BY <1>6, <2>1, JobStatusTyped DEF Commit
  <2>5. run' \in [Runs -> Status]
    BY <1>6 DEF Commit, TypeOK, Status, Terminal
  <2> QED
    BY <1>6, <2>1, <2>2, <2>3, <2>4, <2>5 DEF Commit, TypeOK
<1>7. CASE ImportError(w)
  BY <1>7, GiveUpTyped DEF ImportError, Handling, TypeOK
<1>8. CASE Reschedule(w)
  <2>1. jobs' \in [Runs -> Job]
    BY <1>8, <1>w, JobStatusTyped DEF Reschedule, LocalsOf, Handling, GivingUp
  <2> QED
    BY <1>8, <2>1, IdleTyped DEF Reschedule, Finish, TypeOK
<1>9. CASE FailBundle(w)
  <2> DEFINE i == LatestSlot(me.run)
  <2>1. me.run \in Runs
    BY <1>9, <1>w DEF FailBundle, LocalsOf, Handling, GivingUp
  <2>2. [bundles[me.run][i] EXCEPT !.status = "failed", !.del = "armed"] \in Bundle
    BY <1>s, <2>1, RowTypes, RowUpdates
  <2>3. bundles' \in [Runs -> [Slots -> Bundle]]
    BY <1>9, <1>s, <2>2, BundleTyped DEF FailBundle
  <2> QED
    BY <1>9, <2>3, StepTyped DEF FailBundle, Handling, GivingUp, TypeOK
<1>10. CASE FailRun(w)
  <2>1. run' \in [Runs -> Status]
    BY <1>10 DEF FailRun, TypeOK, Status, Terminal
  <2> QED
    BY <1>10, <2>1, StepTyped DEF FailRun, Handling, GivingUp, TypeOK
<1>11. CASE FailJob(w)
  <2>1. jobs' \in [Runs -> Job]
    BY <1>11, <1>w, JobStatusTyped DEF FailJob, LocalsOf, Handling, GivingUp
  <2> QED
    BY <1>11, <2>1, IdleTyped DEF FailJob, Finish, TypeOK
<1>12. CASE FailureNotStored(w)
  BY <1>12, IdleTyped, StepTyped DEF FailureNotStored, Finish, Handling, GivingUp, TypeOK
<1> QED
  BY <1>1, <1>2, <1>3, <1>4, <1>5, <1>6, <1>7, <1>8, <1>9, <1>10, <1>11, <1>12 DEF Import

LEMMA TypedSweep == ASSUME Typed, NEW w \in Workers, Sweep(w) PROVE Typed'
<1> USE DEF Typed, dbVars, s3Vars, apiVars
<1> DEFINE me == workers[w]
<1>w. me \in Worker /\ LocalsOf(me)
  BY DEF TypeOK, Locals
<1>a. ASSUME NEW S, Arm(S) PROVE bundles' \in [Runs -> [Slots -> Bundle]]
  <2> DEFINE armed(r, i) == [bundles[r][i] EXCEPT !.del = "armed"]
  <2>1. \A r \in Runs, i \in Slots : bundles[r][i] \in Bundle
    BY DEF TypeOK
  <2>2. \A r \in Runs, i \in Slots : armed(r, i) \in Bundle
    BY <2>1, RowUpdates
  <2> QED
    BY <1>a, <2>1, <2>2 DEF Arm
<1>r. ASSUME Become(w, [Idle EXCEPT !.pc = "repair"])
      PROVE  workers' \in [Workers -> Worker] /\ Locals'
  <2> DEFINE v == [Idle EXCEPT !.pc = "repair"]
  <2>1. v \in Worker /\ LocalsOf(v)
    BY DEF Idle, Worker, Slots, Sweeping, LocalsOf, Handling, Importing, GivingUp
  <2> QED
    BY <1>r, <2>1, BecomeTyped
<1>n. ASSUME NEW r \in Runs, NEW i \in Slots, NextDelete(w, r, i)
      PROVE  workers' \in [Workers -> Worker] /\ Locals'
  <2> DEFINE left == me.todo \ {<<r, i>>}
             v == [Idle EXCEPT !.pc = "delete", !.todo = left]
  <2>1. left \in SUBSET (Runs \X Slots)
    BY <1>w DEF Worker
  <2>2. v \in Worker /\ LocalsOf(v)
    BY <2>1 DEF Idle, Worker, Slots, Sweeping, LocalsOf, Handling, Importing, GivingUp
  <2> QED
    BY <1>n, <2>2, BecomeTyped, IdleTyped DEF NextDelete
<1>1. CASE SweepTick(w)
  <2> DEFINE ids == {r \in Runs : run[r] \in Active /\ aged[r]}
             v == [Idle EXCEPT !.pc = IF ids = {} THEN "repair" ELSE "arm", !.ids = ids]
  <2>1. v \in Worker /\ LocalsOf(v)
    BY DEF Idle, Worker, Slots, Sweeping, LocalsOf, Handling, Importing, GivingUp
  <2>2. workers' \in [Workers -> Worker] /\ Locals'
    BY <1>1, <2>1, BecomeTyped DEF SweepTick, TimeOutRuns
  <2>3. run' \in [Runs -> Status]
    BY <1>1 DEF SweepTick, TimeOutRuns, TypeOK, Status, Terminal
  <2> QED
    BY <1>1, <2>2, <2>3 DEF SweepTick, TimeOutRuns, TypeOK
<1>2. CASE ArmTimedOut(w)
  BY <1>2, <1>a, <1>r DEF ArmTimedOut, TypeOK
<1>3. CASE Repair(w)
  BY <1>3, <1>a, StepTyped DEF Repair, TypeOK, GivingUp
<1>4. CASE Collect(w)
  <2> DEFINE expired == {x \in Runs \X Slots :
                           bundles[x[1]][x[2]].key /\ bundles[x[1]][x[2]].del = "expired"}
             v == [Idle EXCEPT !.pc = "delete", !.todo = expired]
  <2>1. v \in Worker /\ LocalsOf(v)
    BY DEF Idle, Worker, Slots, Sweeping, LocalsOf, Handling, Importing, GivingUp
  <2>2. workers' \in [Workers -> Worker] /\ Locals'
    BY <1>4, <2>1, BecomeTyped, IdleTyped DEF Collect
  <2> QED
    BY <1>4, <2>2 DEF Collect, TypeOK
<1>5. CASE DeleteObject(w)
  <2>1. PICK x \in me.todo :
          /\ staging' = [staging EXCEPT ![x[1]] = None]
          /\ Become(w, [me EXCEPT !.pc = "clear", !.run = x[1], !.slot = x[2]])
    BY <1>5 DEF DeleteObject
  <2> DEFINE v == [me EXCEPT !.pc = "clear", !.run = x[1], !.slot = x[2]]
  <2>2. x[1] \in Runs /\ x[2] \in Slots
    BY <1>w DEF Worker
  <2>3. v \in Worker /\ LocalsOf(v)
    BY <1>w, <2>2 DEF Worker, Sweeping, LocalsOf, Handling, Importing, GivingUp
  <2>4. workers' \in [Workers -> Worker] /\ Locals'
    BY <2>1, <2>3, BecomeTyped
  <2> QED
    BY <1>5, <2>1, <2>2, <2>4 DEF DeleteObject, TypeOK
<1>6. CASE ClearKey(w)
  <2>1. me.run \in Runs /\ me.slot \in Slots
    BY <1>6, <1>w DEF ClearKey, LocalsOf, Worker
  <2>2. [bundles[me.run][me.slot] EXCEPT !.key = FALSE] \in Bundle
    BY <2>1, RowTypes, RowUpdates
  <2>3. bundles' \in [Runs -> [Slots -> Bundle]]
    BY <1>6, <2>1, <2>2, BundleTyped DEF ClearKey
  <2> QED
    BY <1>6, <1>n, <2>1, <2>3 DEF ClearKey, TypeOK
<1>7. CASE SweepError(w)
  <2>1. ASSUME NEW x \in me.todo, NextDelete(w, x[1], x[2])
        PROVE  workers' \in [Workers -> Worker] /\ Locals'
    <3>1. x[1] \in Runs /\ x[2] \in Slots
      BY <1>w DEF Worker
    <3> QED
      BY <1>n, <2>1, <3>1
  <2>2. ASSUME me.pc = "clear", NextDelete(w, me.run, me.slot)
        PROVE  workers' \in [Workers -> Worker] /\ Locals'
    <3>1. me.run \in Runs /\ me.slot \in Slots
      BY <1>w, <2>2 DEF LocalsOf, Worker
    <3> QED
      BY <1>n, <2>2, <3>1
  <2>3. workers' \in [Workers -> Worker] /\ Locals'
    BY <1>7, <1>r, <2>1, <2>2, IdleTyped, StepTyped DEF SweepError, Finish, GivingUp
  <2> QED
    BY <1>7, <2>3 DEF SweepError, TypeOK
<1> QED
  BY <1>1, <1>2, <1>3, <1>4, <1>5, <1>6, <1>7 DEF Sweep

LEMMA TypedStep == Typed /\ [Next]_vars => Typed'
<1> SUFFICES ASSUME Typed, [Next]_vars PROVE Typed'
  OBVIOUS
<1> USE DEF Typed, dbVars, s3Vars, apiVars
<1>1. CASE Api
  BY <1>1, TypedApi
<1>2. CASE Time
  <2>1. ASSUME NEW r \in Runs, Age(r) PROVE Typed'
    BY <2>1 DEF Age, TypeOK, Locals
  <2>2. ASSUME NEW r \in Runs, NEW i \in Slots, Expire(r, i) PROVE Typed'
    <3>1. [bundles[r][i] EXCEPT !.del = "expired"] \in Bundle
      BY RowTypes, RowUpdates
    <3>2. bundles' \in [Runs -> [Slots -> Bundle]]
      BY <2>2, <3>1, BundleTyped DEF Expire
    <3> QED
      BY <2>2, <3>2 DEF Expire, TypeOK, Locals
  <2> QED
    BY <1>2, <2>1, <2>2 DEF Time
<1>3. ASSUME NEW w \in Workers, Import(w) PROVE Typed'
  BY <1>3, TypedImport
<1>4. ASSUME NEW w \in Workers, Sweep(w) PROVE Typed'
  BY <1>4, TypedSweep
<1>5. ASSUME NEW w \in Workers, Abandon(w) PROVE Typed'
  BY <1>5, IdleTyped DEF Abandon, Finish, TypeOK
<1>6. CASE UNCHANGED vars
  BY <1>6 DEF vars, TypeOK, Locals
<1> QED
  BY <1>1, <1>2, <1>3, <1>4, <1>5, <1>6 DEF Next

LEMMA TypedAlways == Spec => []Typed
  BY TypedInit, TypedStep, PTL DEF Spec

(* Every variable of the model keeps its type, for any number of runs,       *)
(* runners and workers.                                                      *)
THEOREM TypeCorrect == Spec => []TypeOK
  BY TypedAlways, PTL DEF Typed
-----------------------------------------------------------------------------
(* Claims and attempts: the jobs seen by the workers that handle them        *)

(* No worker takes a job, and none gives one up while it has attempts left.  *)
NoNewClaim ==
  \A w \in Workers :
    /\ workers'[w].pc \in Handling =>
         workers[w].pc \in Handling /\ workers'[w].run = workers[w].run
    /\ workers'[w].pc \in {"failRun", "failJob"} =>
         \/ workers[w].pc \in {"failRun", "failJob"}
         \/ jobs[workers[w].run].attempts >= MaxAttempts

LEMMA BecomeIs ==
  ASSUME Typed, NEW w \in Workers, NEW state, Become(w, state)
  PROVE  \A v \in Workers : workers'[v] = IF v = w THEN state ELSE workers[v]
  BY DEF Typed, TypeOK, Become

LEMMA Leaves ==
  ASSUME Typed, NEW w \in Workers, NEW state, Become(w, state), state.pc \notin Handling
  PROVE  NoNewClaim
  BY BecomeIs DEF NoNewClaim, Handling, GivingUp

LEMMA Stays ==
  ASSUME Typed, NEW w \in Workers, NEW state, Become(w, state),
         workers[w].pc \in Handling, state.run = workers[w].run,
         state.pc \in {"failRun", "failJob"} =>
           \/ workers[w].pc \in {"failRun", "failJob"}
           \/ jobs[workers[w].run].attempts >= MaxAttempts
  PROVE  NoNewClaim
  BY BecomeIs DEF NoNewClaim, Handling, GivingUp

LEMMA StepsMove ==
  ASSUME Typed, NEW w \in Workers, NEW pc, Step(w, pc), workers[w].pc \in Handling,
         pc \in {"failRun", "failJob"} =>
           \/ workers[w].pc \in {"failRun", "failJob"}
           \/ jobs[workers[w].run].attempts >= MaxAttempts
  PROVE  NoNewClaim
<1> DEFINE v == [workers[w] EXCEPT !.pc = pc]
<1>1. workers[w] \in Worker
  BY DEF Typed, TypeOK
<1>2. v.pc = pc /\ v.run = workers[w].run
  BY <1>1 DEF Worker
<1> QED
  BY <1>2, Stays DEF Step

LEMMA GiveUpMoves ==
  ASSUME Typed, NEW w \in Workers, workers[w].pc \in Handling, GiveUp(w)
  PROVE  NoNewClaim
<1> DEFINE v == [Idle EXCEPT !.pc = "failed", !.run = workers[w].run]
<1>1. v.pc = "failed" /\ v.run = workers[w].run
  BY DEF Idle
<1> QED
  BY <1>1, Stays DEF GiveUp

Quiet == UNCHANGED <<jobs, rows>> /\ NoNewClaim

LEMMA QuietImport ==
  ASSUME Typed, NEW w \in Workers, Import(w)
  PROVE  \/ Quiet
         \/ \E r \in Runs : Dequeue(w, r)
         \/ \E ack \in BOOLEAN : Commit(w, ack)
         \/ Reschedule(w) \/ FailJob(w)
<1> USE DEF dbVars, Quiet
<1> DEFINE me == workers[w]
<1>w. me \in Worker
  BY DEF Typed, TypeOK
<1>2. CASE MarkBundleImporting(w)
  <2> DEFINE v == [me EXCEPT !.pc = "download", !.slot = LatestSlot(me.run)]
  <2>1. v.pc = "download" /\ v.run = me.run
    BY <1>w DEF Worker
  <2> QED
    BY <1>2, <2>1, Stays DEF MarkBundleImporting, Handling, Importing
<1>3. CASE Download(w)
  <2> DEFINE v == [me EXCEPT !.pc = "extract", !.data = staging[me.run]]
  <2>1. v.pc = "extract" /\ v.run = me.run
    BY <1>w DEF Worker
  <2> QED
    BY <1>3, <2>1, Stays DEF Download, Handling, Importing
<1>4. CASE ExtractAndUpload(w)
  BY <1>4, StepsMove, GiveUpMoves DEF ExtractAndUpload, Handling, Importing
<1>5. CASE Persist(w)
  <2> DEFINE v == [me EXCEPT !.pc = "commit", !.base = latest]
  <2>1. v.pc = "commit" /\ v.run = me.run
    BY <1>w DEF Worker
  <2> QED
    BY <1>5, <2>1, Stays DEF Persist, Handling, Importing
<1>7. CASE ImportError(w)
  BY <1>7, GiveUpMoves DEF ImportError, Handling
<1>9. CASE FailBundle(w)
  BY <1>9, StepsMove DEF FailBundle, Handling, GivingUp
<1>10. CASE FailRun(w)
  BY <1>10, StepsMove DEF FailRun, Handling, GivingUp
<1>i. Idle.pc \notin Handling
  BY IdleIsWorker DEF Handling, Importing, GivingUp
<1>12. CASE FailureNotStored(w)
  <2>1. jobs[me.run].attempts < MaxAttempts \/ jobs[me.run].attempts >= MaxAttempts \/ me.run \notin Runs
    BY RowTypes, MaxAttemptsAssumption DEF Job
  <2>2. me.pc \in Handling /\ me.run \in Runs
    BY <1>12 DEF FailureNotStored, Handling, GivingUp, Typed, Locals, LocalsOf
  <2> QED
    BY <1>12, <1>i, <2>1, <2>2, Leaves, StepsMove DEF FailureNotStored, Finish
<1> QED
  BY <1>2, <1>3, <1>4, <1>5, <1>7, <1>9, <1>10, <1>12 DEF Import

(* A worker that sweeps is not handling a job, and was interrupted if it did. *)
LEMMA SweepBecomes ==
  ASSUME Typed, NEW w \in Workers, Sweep(w)
  PROVE  \E state : Become(w, state) /\ state.pc \notin Handling
<1> DEFINE me == workers[w]
<1> DEFINE Goal == \E state : Become(w, state) /\ state.pc \notin Handling
<1>w. me \in Worker
  BY DEF Typed, TypeOK
<1>i. Idle.pc \notin Handling
  BY IdleIsWorker DEF Handling, Importing, GivingUp
<1>r. ASSUME Become(w, [Idle EXCEPT !.pc = "repair"]) PROVE Goal
  <2>1. [Idle EXCEPT !.pc = "repair"].pc \notin Handling
    BY DEF Idle, Handling, Importing, GivingUp
  <2> QED
    BY <1>r, <2>1
<1>c. ASSUME Step(w, "collect") PROVE Goal
  <2>1. [me EXCEPT !.pc = "collect"].pc \notin Handling
    BY <1>w DEF Worker, Handling, Importing, GivingUp
  <2> QED
    BY <1>c, <2>1 DEF Step
<1>n. ASSUME NEW r, NEW i, NextDelete(w, r, i) PROVE Goal
  <2> DEFINE v == [Idle EXCEPT !.pc = "delete", !.todo = me.todo \ {<<r, i>>}]
  <2>1. v.pc \notin Handling
    BY DEF Idle, Handling, Importing, GivingUp
  <2> QED
    BY <1>n, <1>i, <2>1 DEF NextDelete
<1>1. CASE SweepTick(w)
  <2> DEFINE ids == {r \in Runs : run[r] \in Active /\ aged[r]}
             v == [Idle EXCEPT !.pc = IF ids = {} THEN "repair" ELSE "arm", !.ids = ids]
  <2>1. v.pc \notin Handling
    BY DEF Idle, Handling, Importing, GivingUp
  <2> QED
    BY <1>1, <2>1 DEF SweepTick, TimeOutRuns
<1>2. CASE ArmTimedOut(w)
  BY <1>2, <1>r DEF ArmTimedOut
<1>3. CASE Repair(w)
  BY <1>3, <1>c DEF Repair
<1>4. CASE Collect(w)
  <2> DEFINE expired == {x \in Runs \X Slots :
                           bundles[x[1]][x[2]].key /\ bundles[x[1]][x[2]].del = "expired"}
             v == [Idle EXCEPT !.pc = "delete", !.todo = expired]
  <2>1. v.pc \notin Handling
    BY DEF Idle, Handling, Importing, GivingUp
  <2> QED
    BY <1>4, <1>i, <2>1 DEF Collect
<1>5. CASE DeleteObject(w)
  <2>1. PICK x : Become(w, [me EXCEPT !.pc = "clear", !.run = x[1], !.slot = x[2]])
    BY <1>5 DEF DeleteObject
  <2>2. [me EXCEPT !.pc = "clear", !.run = x[1], !.slot = x[2]].pc \notin Handling
    BY <1>w DEF Worker, Handling, Importing, GivingUp
  <2> QED
    BY <2>1, <2>2
<1>6. CASE ClearKey(w)
  BY <1>6, <1>n DEF ClearKey
<1>7. CASE SweepError(w)
  BY <1>7, <1>i, <1>r, <1>c, <1>n DEF SweepError, Finish
<1> QED
  BY <1>1, <1>2, <1>3, <1>4, <1>5, <1>6, <1>7 DEF Sweep

LEMMA QuietSweep == ASSUME Typed, NEW w \in Workers, Sweep(w) PROVE Quiet
<1>1. UNCHANGED <<jobs, rows>>
  BY DEF Sweep, SweepTick, TimeOutRuns, ArmTimedOut, Repair, Collect, DeleteObject,
         ClearKey, SweepError, dbVars
<1> QED
  BY <1>1, SweepBecomes, Leaves DEF Quiet

(* Only five actions change what the claims depend on. *)
LEMMA Shapes ==
  ASSUME Typed, [Next]_vars
  PROVE  \/ Quiet
         \/ \E r \in Runs, c \in Runners : ImportArtifactBundle(r, c)
         \/ \E w \in Workers, r \in Runs : Dequeue(w, r)
         \/ \E w \in Workers, ack \in BOOLEAN : Commit(w, ack)
         \/ \E w \in Workers : Reschedule(w) \/ FailJob(w)
<1> USE DEF dbVars, Quiet
<1>i. Idle.pc \notin Handling
  BY IdleIsWorker DEF Handling, Importing, GivingUp
<1>u. UNCHANGED <<jobs, rows, workers>> => Quiet
  BY DEF NoNewClaim
<1>1. ASSUME NEW r \in Runs, InsertBundle(r) \/ CreateDropped(r) PROVE Quiet
  BY <1>1, <1>u DEF InsertBundle, CreateDropped
<1>2. ASSUME NEW r \in Runs, NEW c \in Runners,
             \/ InsertRun(r, c) \/ CreateAgain(r, c) \/ Upload(r, c)
             \/ FailRead(r, c) \/ FailWrite(r, c) \/ FailDropped(r, c)
      PROVE  Quiet
  BY <1>2, <1>u DEF InsertRun, CreateAgain, Upload, FailRead, FailWrite, FailDropped
<1>3. CASE Time
  BY <1>3, <1>u DEF Time, Age, Expire
<1>4. ASSUME NEW w \in Workers, Abandon(w) PROVE Quiet
  BY <1>4, <1>i, Leaves DEF Abandon, Finish
<1>5. CASE UNCHANGED vars
  BY <1>5, <1>u DEF vars
<1> QED
  BY <1>1, <1>2, <1>3, <1>4, <1>5, QuietImport, QuietSweep DEF Next, Api

LEMMA JobStatusIs ==
  ASSUME Typed, NEW r \in Runs, NEW s, JobStatus(r, s)
  PROVE  \A q \in Runs : /\ jobs'[q].status = IF q = r THEN s ELSE jobs[q].status
                         /\ jobs'[q].attempts = jobs[q].attempts
                         /\ jobs'[q].sha = jobs[q].sha
<1>1. jobs[r] \in Job
  BY RowTypes
<1> QED
  BY <1>1 DEF JobStatus, JobBecomes, Typed, TypeOK, Job

LEMMA DequeueIs ==
  ASSUME Typed, NEW w \in Workers, NEW r \in Runs, Dequeue(w, r)
  PROVE  /\ \A q \in Runs :
              /\ jobs'[q].status = IF q = r THEN "running" ELSE jobs[q].status
              /\ jobs'[q].attempts = IF q = r THEN jobs[r].attempts + 1 ELSE jobs[q].attempts
              /\ jobs'[q].sha = jobs[q].sha
         /\ \A v \in Workers \ {w} : workers'[v] = workers[v]
         /\ workers'[w].pc = "claimed" /\ workers'[w].run = r
<1>1. jobs[r] \in Job
  BY RowTypes
<1>2. JobBecomes(r, [jobs[r] EXCEPT !.status = "running", !.attempts = jobs[r].attempts + 1])
  BY DEF Dequeue
<1>3. Become(w, [Idle EXCEPT !.pc = "claimed", !.run = r])
  BY DEF Dequeue
<1>4. \A q \in Runs :
        /\ jobs'[q].status = IF q = r THEN "running" ELSE jobs[q].status
        /\ jobs'[q].attempts = IF q = r THEN jobs[r].attempts + 1 ELSE jobs[q].attempts
        /\ jobs'[q].sha = jobs[q].sha
  BY <1>1, <1>2 DEF JobBecomes, Typed, TypeOK, Job
<1>5. [Idle EXCEPT !.pc = "claimed", !.run = r].pc = "claimed"
      /\ [Idle EXCEPT !.pc = "claimed", !.run = r].run = r
  BY DEF Idle
<1> QED
  BY <1>3, <1>4, <1>5, BecomeIs

LEMMA EnqueueIs ==
  ASSUME Typed, NEW r \in Runs, NEW c \in Runners, EnqueueImport(r, c)
  PROVE  \A q \in Runs :
           \/ /\ jobs'[q] = jobs[q]
              /\ q = r => jobs[q].status # "none"
           \/ /\ q = r
              /\ jobs[q].status = "none"
              /\ jobs'[q].status = "pending"
              /\ jobs'[q].attempts = 0
              /\ jobs'[q].sha = c
<1>1. CASE jobs[r].status = "none"
  <2> DEFINE j == [NoJob EXCEPT !.status = "pending", !.sha = c]
  <2>1. JobBecomes(r, j)
    BY <1>1 DEF EnqueueImport
  <2>2. j.status = "pending" /\ j.attempts = 0 /\ j.sha = c
    BY DEF NoJob
  <2> HIDE DEF j
  <2> QED
    BY <1>1, <2>1, <2>2 DEF JobBecomes, Typed, TypeOK
<1>2. CASE jobs[r].status # "none"
  BY <1>2 DEF EnqueueImport
<1> QED
  BY <1>1, <1>2

(* The worker that commits or ends an attempt is the only one that moves. *)
LEMMA Ends ==
  ASSUME Typed, NEW w \in Workers, Reschedule(w) \/ FailJob(w)
  PROVE  /\ workers[w].run \in Runs /\ workers[w].pc \in Handling
         /\ \A v \in Workers \ {w} : workers'[v] = workers[v]
         /\ workers'[w].pc = "idle"
         /\ rows' = rows
<1>1. workers[w].pc \in Handling
  BY DEF Reschedule, FailJob, Handling, GivingUp
<1> QED
  BY <1>1, BecomeIs, IdleIsWorker DEF Reschedule, FailJob, Finish, dbVars, Typed, Locals, LocalsOf

LEMMA CommitIs ==
  ASSUME Typed, NEW w \in Workers, NEW ack \in BOOLEAN, Commit(w, ack)
  PROVE  LET r == workers[w].run
         IN  /\ r \in Runs /\ workers[w].data \in Runners /\ workers[w].pc = "commit"
             /\ JobStatus(r, "completed")
             /\ rows' = [rows EXCEPT ![r] = workers[w].data]
             /\ \A v \in Workers \ {w} : workers'[v] = workers[v]
             /\ workers'[w].pc \in {"idle", "failed"}
             /\ workers'[w].pc = "failed" => workers'[w].run = r
<1>1. workers[w].run \in Runs /\ workers[w].data \in Runners
  BY DEF Commit, Typed, Locals, LocalsOf, Handling, Importing
<1>2. PICK state : /\ Become(w, state)
                   /\ state.pc \in {"idle", "failed"}
                   /\ state.pc = "failed" => state.run = workers[w].run
  <2>1. CASE ack
    BY <2>1, IdleIsWorker DEF Commit, Finish
  <2>2. CASE ~ack
    <3> DEFINE v == [Idle EXCEPT !.pc = "failed", !.run = workers[w].run]
    <3>1. v.pc = "failed" /\ v.run = workers[w].run
      BY DEF Idle
    <3>2. Become(w, v)
      BY <2>2 DEF Commit, GiveUp
    <3> HIDE DEF v
    <3> QED
      BY <3>1, <3>2
  <2> QED
    BY <2>1, <2>2
<1> QED
  BY <1>1, <1>2, BecomeIs DEF Commit

LEMMA ClaimsStep == Typed /\ ClaimsAreExclusive /\ [Next]_vars => ClaimsAreExclusive'
<1> SUFFICES ASSUME Typed, ClaimsAreExclusive, [Next]_vars PROVE ClaimsAreExclusive'
  OBVIOUS
<1> USE DEF ClaimsAreExclusive
<1>h. Handling = Importing \cup GivingUp
  BY DEF Handling
<1>r. \A w \in Workers : workers[w].pc \in Handling => workers[w].run \in Runs
  BY DEF Typed, Locals, LocalsOf
<1>1. CASE Quiet
  BY <1>1, <1>h DEF Quiet, NoNewClaim
<1>2. ASSUME NEW r \in Runs, NEW c \in Runners, ImportArtifactBundle(r, c)
      PROVE  ClaimsAreExclusive'
  <2>1. \A q \in Runs : jobs[q].status \in {"running", "completed"} => jobs'[q] = jobs[q]
    BY <1>2, EnqueueIs DEF ImportArtifactBundle
  <2>2. rows' = rows /\ workers' = workers
    BY <1>2 DEF ImportArtifactBundle
  <2> QED
    BY <1>h, <1>r, <2>1, <2>2
<1>3. ASSUME NEW w \in Workers, NEW r \in Runs, Dequeue(w, r) PROVE ClaimsAreExclusive'
  <2>1. rows' = rows /\ jobs[r].status = "pending"
    BY <1>3 DEF Dequeue, dbVars
  <2>2. \A v \in Workers : workers[v].pc \in Handling => workers[v].run # r
    BY <1>h, <2>1
  <2> QED
    BY <1>3, <1>h, <1>r, <2>1, <2>2, DequeueIs
<1>4. ASSUME NEW w \in Workers, NEW ack \in BOOLEAN, Commit(w, ack) PROVE ClaimsAreExclusive'
  <2> DEFINE r == workers[w].run
  <2>1. /\ r \in Runs
        /\ \A q \in Runs : jobs'[q].status = IF q = r THEN "completed" ELSE jobs[q].status
        /\ \A q \in Runs : rows'[q] = IF q = r THEN workers[w].data ELSE rows[q]
        /\ workers[w].data # None
        /\ workers[w].pc \in Handling
    BY <1>4, CommitIs, JobStatusIs, NoneAssumption DEF Handling, Importing, Typed, TypeOK
  <2>2. \A v \in Workers \ {w} : workers[v].pc \in Handling => workers[v].run # r
    BY <1>h, <2>1
  <2>3. \A v \in Workers : workers'[v].pc \in Handling =>
          workers[v].pc \in Handling /\ workers'[v].run = workers[v].run
    BY <1>4, <2>1, CommitIs DEF Handling, Importing, GivingUp
  <2> QED
    BY <1>h, <1>r, <2>1, <2>2, <2>3
<1>5. ASSUME NEW w \in Workers, Reschedule(w) \/ FailJob(w) PROVE ClaimsAreExclusive'
  <2> DEFINE r == workers[w].run
  <2>1. /\ r \in Runs
        /\ \A q \in Runs \ {r} : jobs'[q].status = jobs[q].status
    BY <1>5, Ends, JobStatusIs DEF Reschedule, FailJob
  <2>2. \A v \in Workers : workers'[v].pc \in Handling =>
          workers'[v] = workers[v] /\ workers[v].run # r
    BY <1>5, <1>h, Ends DEF Handling, Importing, GivingUp
  <2>3. rows' = rows
    BY <1>5, Ends
  <2> QED
    BY <1>h, <1>r, <2>1, <2>2, <2>3
<1> QED
  BY <1>1, <1>2, <1>3, <1>4, <1>5, Shapes

(* At most one worker handles the job of a run at any time, and only a job   *)
(* that is marked running, or one whose import was committed.                *)
THEOREM ClaimsExclusive == Spec => []ClaimsAreExclusive
<1>1. Init => ClaimsAreExclusive
  BY IdleIsWorker DEF Init, ClaimsAreExclusive, Importing, GivingUp
<1> QED
  BY <1>1, TypedAlways, ClaimsStep, PTL DEF Spec

(* What AttemptsBounded needs to be inductive: a worker that is past         *)
(* FailBundle gives up a job that has no attempt left.                       *)
LastAttempt ==
  \A w \in Workers : workers[w].pc \in {"failRun", "failJob"} =>
    jobs[workers[w].run].attempts >= MaxAttempts

LEMMA AttemptsStep ==
  Typed /\ ClaimsAreExclusive /\ AttemptsBounded /\ LastAttempt /\ [Next]_vars
    => AttemptsBounded' /\ LastAttempt'
<1> SUFFICES ASSUME Typed, ClaimsAreExclusive, AttemptsBounded, LastAttempt, [Next]_vars
             PROVE  AttemptsBounded' /\ LastAttempt'
  OBVIOUS
<1> USE DEF AttemptsBounded, LastAttempt
<1>h. \A w \in Workers : workers[w].pc \in {"failRun", "failJob"} =>
        /\ workers[w].pc \in Importing \cup GivingUp
        /\ workers[w].run \in Runs
  BY DEF Typed, Locals, LocalsOf, Handling, GivingUp
<1>n. \A r \in Runs : jobs[r].attempts \in Nat
  BY RowTypes DEF Job
<1>1. CASE Quiet
  BY <1>1, <1>h DEF Quiet, NoNewClaim, Handling, GivingUp
<1>2. ASSUME NEW r \in Runs, NEW c \in Runners, ImportArtifactBundle(r, c)
      PROVE  AttemptsBounded' /\ LastAttempt'
  <2>1. \A w \in Workers : workers[w].pc \in {"failRun", "failJob"} =>
          jobs[workers[w].run].status # "none"
    BY <1>h DEF ClaimsAreExclusive
  <2>2. workers' = workers /\ EnqueueImport(r, c)
    BY <1>2 DEF ImportArtifactBundle
  <2>3. ASSUME NEW q \in Runs
        PROVE  /\ jobs'[q].attempts <= MaxAttempts
               /\ jobs'[q].status = "failed" => jobs'[q].attempts = MaxAttempts
               /\ jobs'[q].status = "pending" => jobs'[q].attempts < MaxAttempts
    <3>1. CASE jobs'[q] = jobs[q]
      BY <3>1
    <3>2. CASE jobs'[q].status = "pending" /\ jobs'[q].attempts = 0
      BY <3>2, MaxAttemptsAssumption
    <3> QED
      BY <2>2, <3>1, <3>2, EnqueueIs
  <2>4. AttemptsBounded'
    BY <2>3
  <2>5. LastAttempt'
    BY <1>h, <2>1, <2>2, EnqueueIs
  <2> QED
    BY <2>4, <2>5
<1>3. ASSUME NEW w \in Workers, NEW r \in Runs, Dequeue(w, r)
      PROVE  AttemptsBounded' /\ LastAttempt'
  <2>1. jobs[r].status = "pending" /\ jobs[r].attempts < MaxAttempts
    BY <1>3 DEF Dequeue
  <2>2. \A v \in Workers : workers[v].pc \in {"failRun", "failJob"} => workers[v].run # r
    BY <1>h, <2>1 DEF ClaimsAreExclusive
  <2>3. jobs[r].attempts + 1 <= MaxAttempts
    BY <1>n, <2>1, MaxAttemptsAssumption
  <2>4. AttemptsBounded'
    BY <1>3, <2>3, DequeueIs
  <2>5. LastAttempt'
    BY <1>3, <1>h, <2>2, DequeueIs
  <2> QED
    BY <2>4, <2>5
<1>4. ASSUME NEW w \in Workers, NEW ack \in BOOLEAN, Commit(w, ack)
      PROVE  AttemptsBounded' /\ LastAttempt'
  BY <1>4, <1>h, CommitIs, JobStatusIs
<1>5. ASSUME NEW w \in Workers, Reschedule(w) \/ FailJob(w)
      PROVE  AttemptsBounded' /\ LastAttempt'
  <2> DEFINE r == workers[w].run
  <2>1. r \in Runs /\ LastAttempt'
    BY <1>5, <1>h, Ends, JobStatusIs DEF Reschedule, FailJob
  <2>2. \/ JobStatus(r, "pending") /\ jobs[r].attempts < MaxAttempts
        \/ JobStatus(r, "failed") /\ jobs[r].attempts >= MaxAttempts
    BY <1>5 DEF Reschedule, FailJob
  <2>3. AttemptsBounded'
    BY <1>n, <2>1, <2>2, JobStatusIs, MaxAttemptsAssumption
  <2> QED
    BY <2>1, <2>3
<1> QED
  BY <1>1, <1>2, <1>3, <1>4, <1>5, Shapes

(* An import is attempted at most MaxAttempts times, and is given up only    *)
(* after the last of them, whatever the crashes and the lost commits.        *)
THEOREM AttemptsAreBounded == Spec => []AttemptsBounded
<1>1. Init => AttemptsBounded /\ LastAttempt
  BY IdleIsWorker, MaxAttemptsAssumption DEF Init, AttemptsBounded, LastAttempt, NoJob
<1> QED
  BY <1>1, TypedAlways, ClaimsExclusive, AttemptsStep, PTL DEF Spec
=============================================================================
