--------------------------- MODULE BoardRunsSafety ---------------------------
(***************************************************************************)
(* What is submitted for a run, what is published of it, and that the      *)
(* model implements RunLedger.                                             *)
(*                                                                         *)
(* The lemmas of the first section say, for each group of variables, which *)
(* actions change it, and how a worker reaches each step of an import. The *)
(* invariants are then proved from these and not from Next.                *)
(***************************************************************************)
EXTENDS BoardRunsProofs

-----------------------------------------------------------------------------
(* Frames *)

LEMMA StepIs ==
  ASSUME Typed, NEW w \in Workers, NEW pc, Step(w, pc)
  PROVE  /\ workers'[w].pc = pc
         /\ workers'[w].run = workers[w].run
         /\ workers'[w].slot = workers[w].slot
         /\ workers'[w].data = workers[w].data
         /\ workers'[w].base = workers[w].base
         /\ \A v \in Workers \ {w} : workers'[v] = workers[v]
<1> DEFINE s == [workers[w] EXCEPT !.pc = pc]
<1>1. workers[w] \in Worker
  BY DEF Typed, TypeOK
<1>2. /\ s.pc = pc
      /\ s.run = workers[w].run
      /\ s.slot = workers[w].slot
      /\ s.data = workers[w].data
      /\ s.base = workers[w].base
  BY <1>1 DEF Worker
<1> HIDE DEF s
<1>3. Become(w, s)
  BY DEF Step, s
<1> QED
  BY <1>2, <1>3, BecomeIs

LEMMA GiveUpIs ==
  ASSUME Typed, NEW w \in Workers, GiveUp(w)
  PROVE  /\ workers'[w].pc = "failed"
         /\ workers'[w].run = workers[w].run
         /\ \A v \in Workers \ {w} : workers'[v] = workers[v]
<1> DEFINE s == [Idle EXCEPT !.pc = "failed", !.run = workers[w].run]
<1>1. s.pc = "failed" /\ s.run = workers[w].run
  BY DEF Idle
<1> HIDE DEF s
<1>2. Become(w, s)
  BY DEF GiveUp, s
<1> QED
  BY <1>1, <1>2, BecomeIs

LEMMA FinishIs ==
  ASSUME Typed, NEW w \in Workers, Finish(w)
  PROVE  /\ workers'[w].pc = "idle"
         /\ \A v \in Workers \ {w} : workers'[v] = workers[v]
  BY BecomeIs, IdleIsWorker DEF Finish

SameImport(v) ==
  /\ workers'[v].run = workers[v].run
  /\ workers'[v].slot = workers[v].slot

(* How a worker comes to be at each step of an import. *)
Moves ==
  \A v \in Workers :
    /\ workers'[v].pc = "claimed" =>
         workers'[v] = workers[v] \/ \E r \in Runs : Dequeue(v, r) /\ workers'[v].run = r
    /\ workers'[v].pc = "download" =>
         \/ workers'[v] = workers[v]
         \/ /\ MarkBundleImporting(v)
            /\ workers'[v].run = workers[v].run
            /\ workers'[v].slot = LatestSlot(workers[v].run)
    /\ workers'[v].pc = "extract" =>
         \/ workers'[v] = workers[v]
         \/ /\ Download(v)
            /\ SameImport(v)
            /\ workers'[v].data = staging[workers[v].run]
    /\ workers'[v].pc = "persist" =>
         \/ workers'[v] = workers[v]
         \/ /\ ExtractAndUpload(v)
            /\ SameImport(v)
            /\ workers'[v].data = workers[v].data
    /\ workers'[v].pc = "commit" =>
         \/ workers'[v] = workers[v]
         \/ /\ Persist(v)
            /\ SameImport(v)
            /\ workers'[v].data = workers[v].data
            /\ workers'[v].base = latest

(* The worker that moves, if any, is not between claim and commit afterwards. *)
LEMMA Elsewhere ==
  ASSUME Typed, NEW w \in Workers, workers'[w].pc \notin Importing,
         \A v \in Workers \ {w} : workers'[v] = workers[v]
  PROVE  Moves
  BY DEF Moves, Importing

LEMMA ImportMoves == ASSUME Typed, NEW w \in Workers, Import(w) PROVE Moves
<1> USE DEF Importing
<1> DEFINE me == workers[w]
<1>w. me \in Worker
  BY DEF Typed, TypeOK
<1>1. ASSUME NEW r \in Runs, Dequeue(w, r) PROVE Moves
  BY <1>1, DequeueIs DEF Moves
<1>2. CASE MarkBundleImporting(w)
  <2> DEFINE s == [me EXCEPT !.pc = "download", !.slot = LatestSlot(me.run)]
  <2>1. s.pc = "download" /\ s.run = me.run /\ s.slot = LatestSlot(me.run)
    BY <1>w DEF Worker
  <2> HIDE DEF s
  <2>2. Become(w, s)
    BY <1>2 DEF MarkBundleImporting, s
  <2> QED
    BY <1>2, <2>1, <2>2, BecomeIs DEF Moves
<1>3. CASE Download(w)
  <2> DEFINE s == [me EXCEPT !.pc = "extract", !.data = staging[me.run]]
  <2>1. /\ s.pc = "extract" /\ s.run = me.run /\ s.slot = me.slot
        /\ s.data = staging[me.run]
    BY <1>w DEF Worker
  <2> HIDE DEF s
  <2>2. Become(w, s)
    BY <1>3 DEF Download, s
  <2> QED
    BY <1>3, <2>1, <2>2, BecomeIs DEF Moves, SameImport
<1>4. CASE ExtractAndUpload(w)
  <2>1. CASE Step(w, "persist")
    BY <1>4, <2>1, StepIs DEF Moves, SameImport
  <2>2. CASE GiveUp(w)
    BY <2>2, GiveUpIs, Elsewhere
  <2> QED
    BY <1>4, <2>1, <2>2 DEF ExtractAndUpload
<1>5. CASE Persist(w)
  <2> DEFINE s == [me EXCEPT !.pc = "commit", !.base = latest]
  <2>1. /\ s.pc = "commit" /\ s.run = me.run /\ s.slot = me.slot
        /\ s.data = me.data /\ s.base = latest
    BY <1>w DEF Worker
  <2> HIDE DEF s
  <2>2. Become(w, s)
    BY <1>5 DEF Persist, s
  <2> QED
    BY <1>5, <2>1, <2>2, BecomeIs DEF Moves, SameImport
<1>6. ASSUME NEW ack \in BOOLEAN, Commit(w, ack) PROVE Moves
  BY <1>6, CommitIs, Elsewhere
<1>7. CASE ImportError(w)
  BY <1>7, GiveUpIs, Elsewhere DEF ImportError
<1>8. CASE Reschedule(w) \/ FailJob(w)
  BY <1>8, Ends, Elsewhere
<1>9. CASE FailBundle(w) \/ FailRun(w) \/ FailureNotStored(w)
  BY <1>9, StepIs, FinishIs, Elsewhere DEF FailBundle, FailRun, FailureNotStored
<1> QED
  BY <1>1, <1>2, <1>3, <1>4, <1>5, <1>6, <1>7, <1>8, <1>9 DEF Import

LEMMA WorkersMove == ASSUME Typed, [Next]_vars PROVE Moves
<1>1. workers' = workers => Moves
  BY DEF Moves
<1>2. CASE Api
  BY <1>1, <1>2 DEF Api, InsertBundle, CreateDropped, InsertRun, CreateAgain, Upload,
                   ImportArtifactBundle, FailRead, FailWrite, FailDropped
<1>3. CASE Time
  BY <1>1, <1>3 DEF Time, Age, Expire
<1>4. ASSUME NEW w \in Workers, Sweep(w) PROVE Moves
  <2>1. PICK state : Become(w, state) /\ state.pc \notin Handling
    BY <1>4, SweepBecomes
  <2>2. workers'[w].pc \notin Importing /\ \A v \in Workers \ {w} : workers'[v] = workers[v]
    BY <2>1, BecomeIs DEF Handling
  <2> QED
    BY <2>2, Elsewhere
<1>5. ASSUME NEW w \in Workers, Abandon(w) PROVE Moves
  BY <1>5, FinishIs, Elsewhere DEF Abandon, Importing
<1>6. CASE UNCHANGED vars
  BY <1>1, <1>6 DEF vars
<1> QED
  BY <1>1, <1>2, <1>3, <1>4, <1>5, <1>6, ImportMoves DEF Next

(* The actions that change what a reader of the database sees of a run. *)
LEMMA Visible ==
  ASSUME [Next]_vars
  PROVE  \/ UNCHANGED <<run, jobs, rows, base, latest, followUps>>
         \/ \E r \in Runs, c \in Runners :
              InsertRun(r, c) \/ ImportArtifactBundle(r, c) \/ FailWrite(r, c)
         \/ \E w \in Workers, r \in Runs : Dequeue(w, r)
         \/ \E w \in Workers : Reschedule(w) \/ FailJob(w) \/ FailRun(w) \/ SweepTick(w)
         \/ \E w \in Workers, ack \in BOOLEAN : Commit(w, ack)
<1> DEFINE Same == UNCHANGED <<run, jobs, rows, base, latest, followUps>>
<1> USE DEF dbVars
<1>1. ASSUME NEW r \in Runs, NEW c \in Runners,
             \/ InsertBundle(r) \/ CreateDropped(r) \/ CreateAgain(r, c) \/ Upload(r, c)
             \/ FailRead(r, c) \/ FailDropped(r, c)
      PROVE  Same
  BY <1>1 DEF InsertBundle, CreateDropped, CreateAgain, Upload, FailRead, FailDropped
<1>2. ASSUME NEW r \in Runs, InsertBundle(r) \/ CreateDropped(r) PROVE Same
  BY <1>2 DEF InsertBundle, CreateDropped
<1>3. Time => Same
  BY DEF Time, Age, Expire
<1>4. ASSUME NEW w \in Workers,
             \/ MarkBundleImporting(w) \/ Download(w) \/ ExtractAndUpload(w) \/ Persist(w)
             \/ ImportError(w) \/ FailBundle(w) \/ FailureNotStored(w)
      PROVE  Same
  BY <1>4 DEF MarkBundleImporting, Download, ExtractAndUpload, Persist, ImportError, FailBundle,
              FailureNotStored
<1>5. ASSUME NEW w \in Workers,
             \/ ArmTimedOut(w) \/ Repair(w) \/ Collect(w) \/ DeleteObject(w) \/ ClearKey(w)
             \/ SweepError(w) \/ Abandon(w)
      PROVE  Same
  BY <1>5 DEF ArmTimedOut, Repair, Collect, DeleteObject, ClearKey, SweepError, Abandon
<1>6. UNCHANGED vars => Same
  BY DEF vars
<1> QED
  BY <1>1, <1>2, <1>3, <1>4, <1>5, <1>6 DEF Next, Api, Import, Sweep

(* What requests in flight and the final bucket may become. *)
LEMMA Requests ==
  ASSUME Typed, [Next]_vars
  PROVE  /\ \/ \A r \in Runs : creating'[r] \in {creating[r], None}
            \/ \E r \in Runs, c \in Runners : InsertRun(r, c)
         /\ \A r \in Runs, c \in Runners :
              <<r, c>> \in failing' => <<r, c>> \in failing \/ run[r] \in Active
         /\ \/ final' = final
            \/ \E w \in Workers : ExtractAndUpload(w)
<1> DEFINE Goal == /\ \/ \A r \in Runs : creating'[r] \in {creating[r], None}
                      \/ \E r \in Runs, c \in Runners : InsertRun(r, c)
                   /\ \A r \in Runs, c \in Runners :
                        <<r, c>> \in failing' => <<r, c>> \in failing \/ run[r] \in Active
                   /\ \/ final' = final
                      \/ \E w \in Workers : ExtractAndUpload(w)
<1> USE DEF apiVars, s3Vars
<1>1. ASSUME NEW r \in Runs, InsertBundle(r) \/ CreateDropped(r) PROVE Goal
  BY <1>1 DEF InsertBundle, CreateDropped, Typed, TypeOK
<1>2. ASSUME NEW r \in Runs, NEW c \in Runners, InsertRun(r, c) PROVE Goal
  BY <1>2 DEF InsertRun
<1>3. ASSUME NEW r \in Runs, NEW c \in Runners,
             FailRead(r, c) \/ FailWrite(r, c) \/ FailDropped(r, c)
      PROVE  Goal
  BY <1>3 DEF FailRead, FailWrite, FailDropped
<1>4. ASSUME NEW r \in Runs, NEW c \in Runners,
             CreateAgain(r, c) \/ Upload(r, c) \/ ImportArtifactBundle(r, c)
      PROVE  Goal
  BY <1>4 DEF CreateAgain, Upload, ImportArtifactBundle
<1>5. Time => Goal
  BY DEF Time, Age, Expire, Typed, TypeOK
<1>6. ASSUME NEW w \in Workers, Import(w) PROVE Goal
  BY <1>6 DEF Import, Dequeue, MarkBundleImporting, Download, ExtractAndUpload, Persist, Commit,
              ImportError, Reschedule, FailBundle, FailRun, FailJob, FailureNotStored
<1>7. ASSUME NEW w \in Workers, Sweep(w) \/ Abandon(w) PROVE Goal
  BY <1>7 DEF Sweep, SweepTick, TimeOutRuns, ArmTimedOut, Repair, Collect, DeleteObject,
              ClearKey, SweepError, Abandon
<1>8. UNCHANGED vars => Goal
  BY DEF vars
<1> QED
  BY <1>1, <1>2, <1>3, <1>4, <1>5, <1>6, <1>7, <1>8 DEF Next, Api

(* A worker that has marked a bundle as importing knows its row. *)
Slotted ==
  \A w \in Workers : workers[w].pc \in {"download", "extract", "persist", "commit"} =>
    Present(workers[w].run, workers[w].slot)

(* The bundle rows stay, with their digests. *)
Calm ==
  \A r \in Runs, i \in Slots :
    /\ bundles'[r][i].sha = bundles[r][i].sha
    /\ Present(r, i)' <=> Present(r, i)

LEMMA BecomesCalm ==
  ASSUME Typed, NEW r \in Runs, NEW i \in Slots, NEW b, BundleBecomes(r, i, b),
         b.sha = bundles[r][i].sha, b.status # "absent", Present(r, i)
  PROVE  Calm
  BY DEF Typed, TypeOK, BundleBecomes, Calm, Present

LEMMA ArmCalm == ASSUME Typed, NEW S, Arm(S) PROVE Calm
<1> SUFFICES ASSUME NEW r \in Runs, NEW i \in Slots
             PROVE  /\ bundles'[r][i].sha = bundles[r][i].sha
                    /\ bundles'[r][i].status = bundles[r][i].status
  BY DEF Calm, Present
<1> DEFINE b == [bundles[r][i] EXCEPT !.del = "armed"]
<1>1. b.sha = bundles[r][i].sha /\ b.status = bundles[r][i].status
  BY RowTypes DEF Bundle
<1>2. bundles'[r][i] \in {bundles[r][i], b}
  BY DEF Arm
<1> QED
  BY <1>1, <1>2

LEMMA BundlesMove ==
  ASSUME Typed, Slotted, [Next]_vars
  PROVE  \/ Calm
         \/ \E r \in Runs : InsertBundle(r)
         \/ \E r \in Runs, c \in Runners : ImportArtifactBundle(r, c)
<1> USE DEF dbVars
<1>u. bundles' = bundles => Calm
  BY DEF Calm, Present
<1>1. ASSUME NEW r \in Runs, CreateDropped(r) \/ Age(r) PROVE Calm
  BY <1>1, <1>u DEF CreateDropped, Age
<1>2. ASSUME NEW r \in Runs, NEW c \in Runners,
             \/ InsertRun(r, c) \/ CreateAgain(r, c) \/ Upload(r, c)
             \/ FailRead(r, c) \/ FailWrite(r, c) \/ FailDropped(r, c)
      PROVE  Calm
  BY <1>2, <1>u DEF InsertRun, CreateAgain, Upload, FailRead, FailWrite, FailDropped
<1>3. ASSUME NEW r \in Runs, NEW i \in Slots, Expire(r, i) PROVE Calm
  <2> DEFINE b == [bundles[r][i] EXCEPT !.del = "expired"]
  <2>1. b.sha = bundles[r][i].sha /\ b.status = bundles[r][i].status
    BY RowTypes DEF Bundle
  <2> HIDE DEF b
  <2>2. BundleBecomes(r, i, b)
    BY <1>3 DEF Expire, b
  <2> QED
    BY <2>1, <2>2 DEF Typed, TypeOK, BundleBecomes, Calm, Present
<1>4. ASSUME NEW w \in Workers, Import(w) PROVE Calm
  <2> DEFINE r == workers[w].run
             i == LatestSlot(r)
  <2>s. i \in Slots
    BY DEF LatestSlot, Slots
  <2>1. CASE MarkBundleImporting(w)
    <3> DEFINE b == [bundles[r][i] EXCEPT !.status = "importing"]
    <3>1. r \in Runs
      BY <2>1 DEF MarkBundleImporting, Typed, Locals, LocalsOf, Handling, Importing
    <3>2. b.sha = bundles[r][i].sha /\ b.status # "absent"
      BY <2>s, <3>1, RowTypes DEF Bundle
    <3>3. BundleBecomes(r, i, b) /\ Present(r, i)
      BY <2>1 DEF MarkBundleImporting
    <3> QED
      BY <2>s, <3>1, <3>2, <3>3, BecomesCalm
  <2>2. CASE FailBundle(w)
    <3> DEFINE b == [bundles[r][i] EXCEPT !.status = "failed", !.del = "armed"]
    <3>1. r \in Runs
      BY <2>2 DEF FailBundle, Typed, Locals, LocalsOf, Handling, GivingUp
    <3>2. b.sha = bundles[r][i].sha /\ b.status # "absent"
      BY <2>s, <3>1, RowTypes DEF Bundle
    <3>3. BundleBecomes(r, i, b) /\ Present(r, i)
      BY <2>2 DEF FailBundle
    <3> QED
      BY <2>s, <3>1, <3>2, <3>3, BecomesCalm
  <2>3. ASSUME NEW ack \in BOOLEAN, Commit(w, ack) PROVE Calm
    <3> DEFINE k == workers[w].slot
               b == [bundles[r][k] EXCEPT !.status = "completed", !.del = "armed"]
    <3>1. r \in Runs /\ k \in Slots /\ Present(r, k)
      BY <2>3, CommitIs DEF Slotted, Typed, TypeOK, Worker
    <3>2. b.sha = bundles[r][k].sha /\ b.status # "absent"
      BY <3>1, RowTypes DEF Bundle
    <3>3. BundleBecomes(r, k, b)
      BY <2>3 DEF Commit
    <3> QED
      BY <3>1, <3>2, <3>3, BecomesCalm
  <2> QED
    BY <1>4, <1>u, <2>1, <2>2, <2>3 DEF Import, Dequeue, Download, ExtractAndUpload, Persist,
       ImportError, Reschedule, FailRun, FailJob, FailureNotStored
<1>5. ASSUME NEW w \in Workers, Sweep(w) PROVE Calm
  <2>1. CASE ClearKey(w)
    <3> DEFINE r == workers[w].run
               i == workers[w].slot
               b == [bundles[r][i] EXCEPT !.key = FALSE]
    <3>1. r \in Runs /\ i \in Slots
      BY <2>1 DEF ClearKey, Typed, TypeOK, Worker, Locals, LocalsOf
    <3>2. b.sha = bundles[r][i].sha /\ b.status = bundles[r][i].status
      BY <3>1, RowTypes DEF Bundle
    <3>3. BundleBecomes(r, i, b)
      BY <2>1 DEF ClearKey
    <3> HIDE DEF b
    <3> QED
      BY <3>1, <3>2, <3>3 DEF Typed, TypeOK, BundleBecomes, Calm, Present
  <2>2. CASE ArmTimedOut(w) \/ Repair(w)
    BY <2>2, ArmCalm DEF ArmTimedOut, Repair
  <2> QED
    BY <1>5, <1>u, <2>1, <2>2 DEF Sweep, SweepTick, TimeOutRuns, Collect, DeleteObject, SweepError
<1>6. ASSUME NEW w \in Workers, Abandon(w) PROVE Calm
  BY <1>6, <1>u DEF Abandon
<1>7. UNCHANGED vars => Calm
  BY <1>u DEF vars
<1> QED
  BY <1>1, <1>2, <1>3, <1>4, <1>5, <1>6, <1>7 DEF Next, Api, Time

-----------------------------------------------------------------------------
(* One submission *)

LEMMA InsertBundleIs ==
  ASSUME Typed, NEW r \in Runs, InsertBundle(r)
  PROVE  /\ creating[r] # None /\ creating'[r] = None
         /\ \A q \in Runs, i \in Slots :
              bundles'[q][i] = IF q = r /\ i = (IF Present(r, 1) THEN 2 ELSE 1)
                                 THEN NewBundle ELSE bundles[q][i]
         /\ UNCHANGED <<run, jobs, failing>>
         /\ \A q \in Runs : creating'[q] \in {creating[q], None}
  BY DEF InsertBundle, BundleBecomes, Typed, TypeOK, Slots

LEMMA AcceptIs ==
  ASSUME Typed, NEW r \in Runs, NEW i \in Slots, NEW c \in Runners, Accept(r, i, c)
  PROVE  /\ bundles[r][i].sha = None
         /\ bundles'[r][i].sha = c /\ bundles'[r][i].status = "pending"
         /\ \A q \in Runs, j \in Slots :
              q # r \/ j # i => bundles'[q][j] = bundles[q][j]
<1> DEFINE old == IF Present(r, i) THEN bundles[r][i] ELSE NewBundle
           b == [old EXCEPT !.sha = c, !.status = "pending"]
<1>1. old \in Bundle
  BY RowTypes DEF NewBundle, Bundle
<1>2. b.sha = c /\ b.status = "pending"
  BY <1>1 DEF Bundle
<1> HIDE DEF b
<1>3. bundles[r][i].sha = None /\ BundleBecomes(r, i, b)
  BY DEF Accept, b
<1> QED
  BY <1>2, <1>3 DEF BundleBecomes, Typed, TypeOK

LEMMA PresentStays ==
  ASSUME Typed, Slotted, [Next]_vars, NEW r \in Runs, NEW i \in Slots, Present(r, i)
  PROVE  Present(r, i)'
<1>1. CASE Calm
  BY <1>1 DEF Calm
<1>2. ASSUME NEW q \in Runs, InsertBundle(q) PROVE Present(r, i)'
  BY <1>2, InsertBundleIs DEF Present, NewBundle
<1>3. ASSUME NEW q \in Runs, NEW c \in Runners, ImportArtifactBundle(q, c) PROVE Present(r, i)'
  <2>1. LatestSlot(q) \in Slots /\ Accept(q, LatestSlot(q), c)
    BY <1>3 DEF ImportArtifactBundle, LatestSlot, Slots
  <2> QED
    BY <2>1, AcceptIs DEF Present
<1> QED
  BY <1>1, <1>2, <1>3, BundlesMove

LEMMA SlottedStep == Typed /\ Slotted /\ [Next]_vars => Slotted'
<1> SUFFICES ASSUME Typed, Slotted, [Next]_vars,
                    NEW w \in Workers,
                    workers'[w].pc \in {"download", "extract", "persist", "commit"}
             PROVE  Present(workers[w].run, workers[w].slot)'
  BY DEF Slotted
<1>t. Typed'
  BY TypedStep
<1>r. workers'[w].run \in Runs /\ workers'[w].slot \in Slots
  BY <1>t DEF Typed, TypeOK, Worker, Locals, LocalsOf, Handling, Importing
<1>1. CASE workers'[w].pc = "download" /\ workers'[w] # workers[w]
  <2>1. /\ MarkBundleImporting(w)
        /\ workers'[w].run = workers[w].run
        /\ workers'[w].slot = LatestSlot(workers[w].run)
    BY <1>1, WorkersMove DEF Moves
  <2>2. Present(workers'[w].run, workers'[w].slot)
    BY <2>1 DEF MarkBundleImporting
  <2>3. bundles'[workers'[w].run][workers'[w].slot].status # "absent"
    BY <1>r, <2>2, PresentStays DEF Present
  <2> QED
    BY <2>3 DEF Present
<1>2. CASE ~(workers'[w].pc = "download" /\ workers'[w] # workers[w])
  <2>1. /\ workers[w].pc \in {"download", "extract", "persist", "commit"}
        /\ workers'[w].run = workers[w].run /\ workers'[w].slot = workers[w].slot
    BY <1>2, WorkersMove DEF Moves, SameImport, Download, ExtractAndUpload, Persist
  <2>2. Present(workers'[w].run, workers'[w].slot)
    BY <2>1 DEF Slotted
  <2>3. bundles'[workers'[w].run][workers'[w].slot].status # "absent"
    BY <1>r, <2>2, PresentStays DEF Present
  <2> QED
    BY <2>3 DEF Present
<1> QED
  BY <1>1, <1>2

(* Only an import request gives a run a job, or changes its digest. *)
SameJobs ==
  \A r \in Runs : /\ jobs'[r].sha = jobs[r].sha
                  /\ jobs'[r].status = "none" <=> jobs[r].status = "none"

LEMMA JobsMove ==
  ASSUME Typed, ClaimsAreExclusive, [Next]_vars
  PROVE  \/ SameJobs
         \/ \E r \in Runs, c \in Runners : ImportArtifactBundle(r, c)
<1>1. jobs' = jobs => SameJobs
  BY DEF SameJobs
<1>2. ASSUME NEW w \in Workers, NEW r \in Runs, Dequeue(w, r) PROVE SameJobs
  BY <1>2, DequeueIs DEF SameJobs, Dequeue
<1>3. ASSUME NEW w \in Workers, workers[w].pc \in Importing \cup GivingUp,
             NEW s \in {"pending", "failed", "completed"}, JobStatus(workers[w].run, s)
      PROVE  SameJobs
  <2>1. workers[w].run \in Runs /\ jobs[workers[w].run].status # "none"
    BY <1>3 DEF ClaimsAreExclusive, Typed, Locals, LocalsOf, Handling
  <2> QED
    BY <1>3, <2>1, JobStatusIs DEF SameJobs
<1>4. ASSUME NEW w \in Workers, Reschedule(w) \/ FailJob(w) PROVE SameJobs
  BY <1>3, <1>4 DEF Reschedule, FailJob, GivingUp
<1>5. ASSUME NEW w \in Workers, NEW ack \in BOOLEAN, Commit(w, ack) PROVE SameJobs
  BY <1>3, <1>5 DEF Commit, Importing
<1>6. ASSUME NEW r \in Runs, NEW c \in Runners, InsertRun(r, c) \/ FailWrite(r, c)
      PROVE  SameJobs
  BY <1>1, <1>6 DEF InsertRun, FailWrite
<1>7. ASSUME NEW w \in Workers, FailRun(w) \/ SweepTick(w) PROVE SameJobs
  BY <1>1, <1>7 DEF FailRun, SweepTick, TimeOutRuns
<1> QED
  BY <1>1, <1>2, <1>4, <1>5, <1>6, <1>7, Visible

(* What OneSubmissionPerRun needs to be inductive: nothing exists of a run   *)
(* before its row does, a create request between its two inserts will not    *)
(* overwrite a bundle, and a digest belongs to a row.                        *)
Before ==
  \A r \in Runs :
    /\ run[r] = "absent" =>
         /\ creating[r] = None
         /\ \A i \in Slots : ~Present(r, i)
         /\ \A c \in Runners : <<r, c>> \notin failing
    /\ creating[r] # None => ~Present(r, 2)
    /\ \A i \in Slots : bundles[r][i].sha # None => Present(r, i)
    /\ jobs[r].status = "none" <=> jobs[r].sha = None

LEMMA RunStays ==
  ASSUME Typed, [Next]_vars, NEW q \in Runs, run'[q] = "absent"
  PROVE  run[q] = "absent"
<1>1. ASSUME NEW r \in Runs, NEW c \in Runners,
             InsertRun(r, c) \/ ImportArtifactBundle(r, c) \/ FailWrite(r, c)
      PROVE  run[q] = "absent"
  BY <1>1 DEF InsertRun, ImportArtifactBundle, FailWrite, Typed, TypeOK
<1>2. ASSUME NEW w \in Workers, FailRun(w) \/ SweepTick(w) PROVE run[q] = "absent"
  BY <1>2 DEF FailRun, SweepTick, TimeOutRuns, Typed, TypeOK
<1>3. ASSUME NEW w \in Workers, NEW ack \in BOOLEAN, Commit(w, ack) PROVE run[q] = "absent"
  BY <1>3 DEF Commit, Typed, TypeOK
<1>4. ASSUME NEW w \in Workers, Reschedule(w) \/ FailJob(w) \/ \E r \in Runs : Dequeue(w, r)
      PROVE  run[q] = "absent"
  BY <1>4 DEF Reschedule, FailJob, Dequeue
<1> QED
  BY <1>1, <1>2, <1>3, <1>4, Visible

LEMMA SubmittedIs ==
  ASSUME NEW r
  PROVE  Submitted(r) <=> bundles[r][1].sha # None \/ bundles[r][2].sha # None
  BY DEF Submitted, Slots

(* The steps that leave the digests alone. *)
LEMMA NoSubmission ==
  ASSUME Typed, Before, OneSubmissionPerRun, SameJobs,
         \A r \in Runs, i \in Slots : bundles'[r][i].sha = bundles[r][i].sha
  PROVE  OneSubmissionPerRun'
<1>1. \A r \in Runs : Submitted(r)' <=> Submitted(r)
  BY DEF Submitted
<1> QED
  BY <1>1 DEF OneSubmissionPerRun, SameJobs

LEMMA SubmissionStep ==
  Typed /\ Slotted /\ ClaimsAreExclusive /\ Before /\ OneSubmissionPerRun /\ [Next]_vars
    => Before' /\ OneSubmissionPerRun'
<1> SUFFICES ASSUME Typed, Slotted, ClaimsAreExclusive, Before, OneSubmissionPerRun, [Next]_vars
             PROVE  Before' /\ OneSubmissionPerRun'
  OBVIOUS
<1>f. ASSUME NEW r \in Runs, run'[r] = "absent", NEW c \in Runners
      PROVE  <<r, c>> \notin failing'
  BY <1>f, RunStays, Requests DEF Before, Active
<1>1. ASSUME NEW r \in Runs, InsertBundle(r) PROVE Before' /\ OneSubmissionPerRun'
  <2> DEFINE k == IF Present(r, 1) THEN 2 ELSE 1
  <2>1. ~Present(r, k) /\ k \in Slots /\ bundles[r][k].sha = None /\ run[r] # "absent"
    BY <1>1, InsertBundleIs DEF Before, Slots
  <2>2. \A q \in Runs, i \in Slots : bundles'[q][i].sha = bundles[q][i].sha
    BY <1>1, <2>1, InsertBundleIs DEF NewBundle
  <2>3. jobs' = jobs /\ run' = run
    BY <1>1, InsertBundleIs
  <2>4. OneSubmissionPerRun'
    BY <2>2, <2>3, NoSubmission DEF SameJobs
  <2>5. \A q \in Runs, i \in Slots : ~Present(q, i) => ~Present(q, i)' \/ q = r
    BY <1>1, InsertBundleIs DEF Present
  <2>6. \A q \in Runs, i \in Slots : Present(q, i) => Present(q, i)'
    BY PresentStays
  <2>7. 2 \in Slots
    BY DEF Slots
  <2>8. ASSUME NEW q \in Runs
        PROVE  /\ run'[q] = "absent" =>
                    /\ creating'[q] = None
                    /\ \A i \in Slots : ~Present(q, i)'
               /\ creating'[q] # None => ~Present(q, 2)'
    BY <1>1, <2>1, <2>3, <2>5, <2>7, InsertBundleIs DEF Before
  <2>9. Before'
    BY <1>f, <2>2, <2>3, <2>6, <2>8 DEF Before
  <2> QED
    BY <2>4, <2>9
<1>2. ASSUME NEW r \in Runs, NEW c \in Runners, ImportArtifactBundle(r, c)
      PROVE  Before' /\ OneSubmissionPerRun'
  <2> DEFINE k == LatestSlot(r)
  <2>1. /\ k \in Slots /\ Accept(r, k, c) /\ ~Submitted(r) /\ EnqueueImport(r, c)
        /\ run[r] # "absent" /\ creating' = creating
    BY <1>2 DEF ImportArtifactBundle, LatestSlot, Slots, Active, apiVars
  <2>2. /\ bundles'[r][k].sha = c /\ bundles'[r][k].status = "pending"
        /\ \A q \in Runs, j \in Slots : q # r \/ j # k => bundles'[q][j] = bundles[q][j]
    BY <2>1, AcceptIs
  <2>3. \A i \in Slots : bundles[r][i].sha = None
    BY <2>1 DEF Submitted
  <2>4. jobs[r].status = "none"
    BY <2>1 DEF OneSubmissionPerRun
  <2>5. /\ jobs'[r].sha = c /\ jobs'[r].status = "pending"
        /\ \A q \in Runs \ {r} : jobs'[q] = jobs[q]
    BY <2>1, <2>4, EnqueueIs
  <2>6. c # None
    BY NoneAssumption
  <2>7. creating[r] # None => k = 1
    BY DEF Before, LatestSlot
  <2>8. ASSUME NEW q \in Runs
        PROVE  /\ \A i, j \in Slots :
                    bundles'[q][i].sha # None /\ bundles'[q][j].sha # None => i = j
               /\ jobs'[q].status # "none" <=> Submitted(q)'
               /\ \A i \in Slots : bundles'[q][i].sha \in {None, jobs'[q].sha}
    <3>1. CASE q = r
      BY <2>1, <2>2, <2>3, <2>5, <2>6, <3>1 DEF Submitted
    <3>2. CASE q # r
      BY <2>2, <2>5, <3>2 DEF OneSubmissionPerRun, Submitted
    <3> QED
      BY <3>1, <3>2
  <2>9. OneSubmissionPerRun'
    BY <2>8 DEF OneSubmissionPerRun
  <2>10. ASSUME NEW q \in Runs
         PROVE  /\ run'[q] = "absent" =>
                     /\ creating'[q] = None
                     /\ \A i \in Slots : ~Present(q, i)'
                /\ creating'[q] # None => ~Present(q, 2)'
                /\ \A i \in Slots : bundles'[q][i].sha # None => Present(q, i)'
                /\ jobs'[q].status = "none" <=> jobs'[q].sha = None
    <3>1. CASE q = r
      <4>1. run'[q] # "absent"
        BY <2>1, <3>1, RunStays
      <4>2. creating'[q] # None => ~Present(q, 2)'
        BY <2>1, <2>2, <2>7, <3>1 DEF Before, Present, Slots
      <4>3. \A i \in Slots : bundles'[q][i].sha # None => Present(q, i)'
        BY <2>2, <2>3, <3>1 DEF Present
      <4> QED
        BY <2>5, <2>6, <3>1, <4>1, <4>2, <4>3
    <3>2. CASE q # r
      <4>1. \A i \in Slots : bundles'[q][i] = bundles[q][i]
        BY <2>2, <3>2
      <4>2. run'[q] = "absent" => run[q] = "absent"
        BY RunStays
      <4> QED
        BY <2>1, <2>5, <3>2, <4>1, <4>2 DEF Before, Present, Slots
    <3> QED
      BY <3>1, <3>2
  <2>11. Before'
    BY <1>f, <2>10 DEF Before
  <2> QED
    BY <2>9, <2>11
<1>3. CASE Calm /\ SameJobs
  <2>1. OneSubmissionPerRun'
    BY <1>3, NoSubmission DEF Calm
  <2>2. ASSUME NEW q \in Runs
        PROVE  /\ run'[q] = "absent" => creating'[q] = None
               /\ creating'[q] # None => ~Present(q, 2)'
    <3>1. CASE \E r \in Runs, c \in Runners : InsertRun(r, c)
      <4>1. PICK r \in Runs, c \in Runners : InsertRun(r, c)
        BY <3>1
      <4>2. run'[r] = "created" /\ run[r] = "absent" /\ bundles' = bundles
            /\ \A p \in Runs \ {r} : creating'[p] = creating[p] /\ run'[p] = run[p]
        BY <4>1 DEF InsertRun, Typed, TypeOK
      <4> QED
        BY <4>2 DEF Before, Present, Slots
    <3>2. CASE \A r \in Runs : creating'[r] \in {creating[r], None}
      BY <1>3, <3>2, RunStays DEF Before, Calm, Slots
    <3> QED
      BY <3>1, <3>2, Requests
  <2>3. ASSUME NEW q \in Runs
        PROVE  /\ run'[q] = "absent" => \A i \in Slots : ~Present(q, i)'
               /\ \A i \in Slots : bundles'[q][i].sha # None => Present(q, i)'
               /\ jobs'[q].status = "none" <=> jobs'[q].sha = None
    BY <1>3, RunStays DEF Before, Calm, SameJobs
  <2>4. Before'
    BY <1>f, <2>2, <2>3 DEF Before
  <2> QED
    BY <2>1, <2>4
<1> QED
  BY <1>1, <1>2, <1>3, BundlesMove, JobsMove

(* The facts about runs, jobs and claims on which the rest stands. *)
Base == Typed /\ ClaimsAreExclusive /\ Slotted /\ Before /\ OneSubmissionPerRun

LEMMA BaseInit == Init => Base
<1> SUFFICES ASSUME Init PROVE Base
  OBVIOUS
<1>1. Typed
  BY TypedInit
<1>2. ClaimsAreExclusive /\ Slotted
  BY IdleIsWorker DEF Init, ClaimsAreExclusive, Importing, GivingUp, Slotted
<1>3. Before /\ OneSubmissionPerRun
  BY DEF Init, Before, OneSubmissionPerRun, Present, NoBundle, NoJob, Submitted, Slots
<1> QED
  BY <1>1, <1>2, <1>3 DEF Base

LEMMA BaseStep == Base /\ [Next]_vars => Base'
  BY TypedStep, ClaimsStep, SlottedStep, SubmissionStep DEF Base

(* Whatever the order in which the create and import requests of any number  *)
(* of runners arrive, one digest is accepted for a run, and its job asks for *)
(* that one.                                                                 *)
THEOREM OneSubmission == Spec => []OneSubmissionPerRun
<1>1. Spec => []Base
  BY BaseInit, BaseStep, PTL DEF Spec
<1> QED
  BY <1>1, PTL DEF Base

-----------------------------------------------------------------------------
(* Publication *)

(* What PublishedIsAccepted needs to be inductive: the archive a worker has  *)
(* verified is the accepted one, its artifacts are there when it persists,   *)
(* and nobody else has stored rows when it commits.                          *)
Verified ==
  \A w \in Workers :
    /\ workers[w].pc \in {"extract", "persist", "commit"} =>
         workers[w].data = jobs[workers[w].run].sha
    /\ workers[w].pc \in {"persist", "commit"} => final[workers[w].run] = {workers[w].data}
    /\ workers[w].pc = "commit" => rows[workers[w].run] = None

LEMMA ShaStays ==
  ASSUME Base, [Next]_vars, NEW r \in Runs, jobs[r].sha # None
  PROVE  jobs'[r].sha = jobs[r].sha
<1>1. CASE SameJobs
  BY <1>1 DEF SameJobs
<1>2. ASSUME NEW q \in Runs, NEW c \in Runners, ImportArtifactBundle(q, c)
      PROVE  jobs'[r].sha = jobs[r].sha
  <2>1. jobs[r].status # "none"
    BY DEF Base, Before
  <2> QED
    BY <1>2, <2>1, EnqueueIs DEF Base, ImportArtifactBundle
<1> QED
  BY <1>1, <1>2, JobsMove DEF Base

LEMMA RowsMove ==
  ASSUME Base, [Next]_vars
  PROVE  \/ rows' = rows
         \/ \E w \in Workers, ack \in BOOLEAN : Commit(w, ack)
<1>1. ASSUME NEW r \in Runs, NEW c \in Runners,
             InsertRun(r, c) \/ ImportArtifactBundle(r, c) \/ FailWrite(r, c)
      PROVE  rows' = rows
  BY <1>1 DEF InsertRun, ImportArtifactBundle, FailWrite
<1>2. ASSUME NEW w \in Workers, NEW r \in Runs, Dequeue(w, r) PROVE rows' = rows
  BY <1>2 DEF Dequeue
<1>3. ASSUME NEW w \in Workers, Reschedule(w) \/ FailJob(w) \/ FailRun(w) \/ SweepTick(w)
      PROVE  rows' = rows
  BY <1>3 DEF Reschedule, FailJob, FailRun, SweepTick, TimeOutRuns
<1> QED
  BY <1>1, <1>2, <1>3, Visible

LEMMA PublishedStep ==
  Base /\ Verified /\ PublishedIsAccepted /\ [Next]_vars => Verified' /\ PublishedIsAccepted'
<1> SUFFICES ASSUME Base, Verified, PublishedIsAccepted, [Next]_vars
             PROVE  Verified' /\ PublishedIsAccepted'
  OBVIOUS
<1>t. Typed
  BY DEF Base
<1>l. \A w \in Workers : workers[w].pc \in {"extract", "persist", "commit"} =>
        /\ workers[w].run \in Runs /\ workers[w].data \in Runners
        /\ workers[w].data # None /\ jobs[workers[w].run].sha # None
        /\ workers[w].data = jobs[workers[w].run].sha
  BY <1>t, NoneAssumption DEF Typed, Locals, LocalsOf, Handling, Importing, Verified
<1>f. ASSUME NEW w \in Workers, ExtractAndUpload(w)
      PROVE  /\ workers[w].pc = "extract"
             /\ \A q \in Runs :
                  final'[q] = IF q = workers[w].run THEN {workers[w].data} ELSE final[q]
  <2>1. workers[w].pc = "extract"
    BY <1>f DEF ExtractAndUpload
  <2>2. final[workers[w].run] \subseteq {workers[w].data}
    BY <1>l, <2>1 DEF PublishedIsAccepted
  <2>3. final' = [final EXCEPT ![workers[w].run] = final[workers[w].run] \cup {workers[w].data}]
    BY <1>f DEF ExtractAndUpload
  <2> QED
    BY <1>t, <2>1, <2>2, <2>3 DEF Typed, TypeOK
<1>g. ASSUME NEW q \in Runs
      PROVE  \/ final'[q] = final[q]
             \/ jobs[q].sha # None /\ final'[q] = {jobs[q].sha}
  <2>1. ASSUME NEW w \in Workers, ExtractAndUpload(w)
        PROVE  \/ final'[q] = final[q]
               \/ jobs[q].sha # None /\ final'[q] = {jobs[q].sha}
    BY <1>f, <1>l, <2>1
  <2> QED
    BY <1>t, <2>1, Requests
<1>r. ASSUME NEW w \in Workers, NEW ack \in BOOLEAN, Commit(w, ack)
      PROVE  /\ workers[w].pc = "commit"
             /\ \A q \in Runs : rows'[q] = IF q = workers[w].run THEN workers[w].data ELSE rows[q]
  BY <1>r, <1>t, CommitIs DEF Typed, TypeOK
<1>p. ASSUME NEW q \in Runs
      PROVE  \/ rows'[q] = rows[q]
             \/ jobs[q].sha # None /\ rows'[q] = jobs[q].sha /\ final[q] = {jobs[q].sha}
  <2>1. ASSUME NEW w \in Workers, NEW ack \in BOOLEAN, Commit(w, ack)
        PROVE  \/ rows'[q] = rows[q]
               \/ jobs[q].sha # None /\ rows'[q] = jobs[q].sha /\ final[q] = {jobs[q].sha}
    BY <1>l, <1>r, <2>1 DEF Verified
  <2> QED
    BY <2>1, RowsMove
<1>1. PublishedIsAccepted'
  <2> SUFFICES ASSUME NEW q \in Runs
               PROVE  /\ final'[q] \subseteq {jobs'[q].sha} \ {None}
                      /\ rows'[q] # None => rows'[q] = jobs'[q].sha /\ final'[q] = {rows'[q]}
    BY DEF PublishedIsAccepted
  <2>1. /\ final[q] \subseteq {jobs[q].sha} \ {None}
        /\ rows[q] # None => rows[q] = jobs[q].sha /\ final[q] = {rows[q]}
    BY DEF PublishedIsAccepted
  <2>2. jobs[q].sha # None => jobs'[q].sha = jobs[q].sha
    BY ShaStays
  <2> QED
    BY <1>g, <1>p, <2>1, <2>2
<1>2. ASSUME NEW w \in Workers, workers'[w] = workers[w]
      PROVE  /\ workers'[w].pc \in {"extract", "persist", "commit"} =>
                  workers'[w].data = jobs'[workers'[w].run].sha
             /\ workers'[w].pc \in {"persist", "commit"} =>
                  final'[workers'[w].run] = {workers'[w].data}
             /\ workers'[w].pc = "commit" => rows'[workers'[w].run] = None
  <2>1. workers[w].pc \in {"extract", "persist", "commit"} =>
          workers[w].data = jobs'[workers[w].run].sha
    BY <1>l, ShaStays
  <2>2. workers[w].pc \in {"persist", "commit"} => final'[workers[w].run] = {workers[w].data}
    BY <1>g, <1>l DEF Verified
  <2>3. ASSUME workers[w].pc = "commit" PROVE rows'[workers[w].run] = None
    <3>1. rows[workers[w].run] = None /\ workers[w].run \in Runs
      BY <1>l, <2>3 DEF Verified
    <3>2. ASSUME NEW v \in Workers, NEW ack \in BOOLEAN, Commit(v, ack)
          PROVE  rows'[workers[w].run] = None
      <4>1. v # w
        BY <1>2, <1>t, <2>3, <3>2, CommitIs
      <4>2. workers[v].run # workers[w].run
        BY <1>r, <2>3, <3>2, <4>1 DEF Base, ClaimsAreExclusive, Importing
      <4> QED
        BY <1>r, <3>1, <3>2, <4>2
    <3> QED
      BY <3>1, <3>2, RowsMove
  <2> QED
    BY <1>2, <2>1, <2>2, <2>3
<1>3. ASSUME NEW w \in Workers, workers'[w] # workers[w]
      PROVE  /\ workers'[w].pc \in {"extract", "persist", "commit"} =>
                  workers'[w].data = jobs'[workers'[w].run].sha
             /\ workers'[w].pc \in {"persist", "commit"} =>
                  final'[workers'[w].run] = {workers'[w].data}
             /\ workers'[w].pc = "commit" => rows'[workers'[w].run] = None
  <2> DEFINE r == workers[w].run
  <2>m. Moves
    BY <1>t, WorkersMove
  <2>1. ASSUME workers'[w].pc = "extract" PROVE workers'[w].data = jobs'[workers'[w].run].sha
    <3>1. Download(w) /\ workers'[w].run = r /\ workers'[w].data = staging[r]
      BY <1>3, <2>1, <2>m DEF Moves, SameImport
    <3>2. staging[r] = jobs[r].sha /\ jobs' = jobs
      BY <3>1 DEF Download, dbVars
    <3> QED
      BY <3>1, <3>2
  <2>2. ASSUME workers'[w].pc = "persist"
        PROVE  /\ workers'[w].data = jobs'[workers'[w].run].sha
               /\ final'[workers'[w].run] = {workers'[w].data}
    <3>1. ExtractAndUpload(w) /\ workers'[w].run = r /\ workers'[w].data = workers[w].data
      BY <1>3, <2>2, <2>m DEF Moves, SameImport
    <3>2. workers[w].pc = "extract" /\ jobs' = jobs
      BY <3>1 DEF ExtractAndUpload, dbVars
    <3> QED
      BY <1>f, <1>l, <3>1, <3>2
  <2>3. ASSUME workers'[w].pc = "commit"
        PROVE  /\ workers'[w].data = jobs'[workers'[w].run].sha
               /\ final'[workers'[w].run] = {workers'[w].data}
               /\ rows'[workers'[w].run] = None
    <3>1. Persist(w) /\ workers'[w].run = r /\ workers'[w].data = workers[w].data
      BY <1>3, <2>3, <2>m DEF Moves, SameImport
    <3>2. workers[w].pc = "persist" /\ jobs' = jobs /\ final' = final /\ rows' = rows
          /\ rows[r] = None
      BY <3>1 DEF Persist, dbVars, s3Vars
    <3> QED
      BY <1>l, <3>1, <3>2 DEF Verified
  <2> QED
    BY <2>1, <2>2, <2>3
<1>4. Verified'
  BY <1>2, <1>3 DEF Verified
<1> QED
  BY <1>1, <1>4

Invariant == Base /\ Verified /\ PublishedIsAccepted

LEMMA InvariantAlways == Spec => []Invariant
<1>1. Init => Verified /\ PublishedIsAccepted
  BY IdleIsWorker DEF Init, Verified, PublishedIsAccepted
<1> QED
  BY <1>1, BaseInit, BaseStep, PublishedStep, PTL DEF Spec, Invariant

(* Only the submission that was accepted for a run, verified against its     *)
(* digest, is ever published or reaches the final bucket under its prefix,   *)
(* however often the staging object is overwritten.                          *)
THEOREM OnlyAcceptedIsPublished == Spec => []PublishedIsAccepted
  BY InvariantAlways, PTL DEF Invariant

-----------------------------------------------------------------------------
(* Atomicity of the import *)

(* A run with a job exists. *)
LEMMA Existing ==
  ASSUME Base, NEW r \in Runs, jobs[r].status # "none"
  PROVE  run[r] # "absent"
  BY DEF Base, Before, OneSubmissionPerRun, Submitted

(* The job of a worker that handles one is there. *)
LEMMA Claimed ==
  ASSUME Base, NEW w \in Workers, workers[w].pc \in Handling
  PROVE  workers[w].run \in Runs /\ jobs[workers[w].run].status # "none"
  BY DEF Base, ClaimsAreExclusive, Handling, Typed, Locals, LocalsOf

LEMMA AtomicStep == Invariant /\ ImportIsAtomic /\ [Next]_vars => ImportIsAtomic'
<1> SUFFICES ASSUME Invariant, ImportIsAtomic, [Next]_vars, NEW q \in Runs
             PROVE  /\ run'[q] = "completed" \/ jobs'[q].status = "completed" => rows'[q] # None
                    /\ q \in followUps' <=> rows'[q] # None
                    /\ run'[q] = "importing" => Submitted(q)'
  BY DEF ImportIsAtomic
<1> DEFINE Whole == /\ run'[q] = "completed" \/ jobs'[q].status = "completed" => rows'[q] # None
                    /\ q \in followUps' <=> rows'[q] # None
           Job1 == run'[q] = "importing" => jobs'[q].status # "none"
<1>b. Base /\ Typed /\ Base'
  BY BaseStep DEF Invariant, Base
<1>o. OneSubmissionPerRun /\ OneSubmissionPerRun'
  BY <1>b DEF Base
<1>s. Job1 => (run'[q] = "importing" => Submitted(q)')
  BY <1>o DEF OneSubmissionPerRun
<1>i. /\ run[q] = "completed" \/ jobs[q].status = "completed" => rows[q] # None
      /\ q \in followUps <=> rows[q] # None
      /\ run[q] = "importing" => jobs[q].status # "none"
  BY <1>o DEF ImportIsAtomic, OneSubmissionPerRun
<1>1. CASE UNCHANGED <<run, jobs, rows, base, latest, followUps>>
  BY <1>1, <1>i, <1>s
<1>2. ASSUME NEW r \in Runs, NEW c \in Runners, InsertRun(r, c) \/ FailWrite(r, c)
      PROVE  Whole /\ Job1
  BY <1>2, <1>b, <1>i DEF InsertRun, FailWrite, Typed, TypeOK
<1>3. ASSUME NEW r \in Runs, NEW c \in Runners, ImportArtifactBundle(r, c)
      PROVE  Whole /\ Job1
  <2>1. jobs'[q] = jobs[q] \/ jobs'[q].status = "pending"
    BY <1>3, <1>b, EnqueueIs DEF ImportArtifactBundle
  <2>2. q = r => jobs'[q].status # "none"
    BY <1>3, <1>b, EnqueueIs DEF ImportArtifactBundle
  <2>3. /\ q # r => run'[q] = run[q]
        /\ q = r => run'[q] = "importing"
        /\ rows' = rows /\ followUps' = followUps
    BY <1>3, <1>b DEF ImportArtifactBundle, Typed, TypeOK
  <2> QED
    BY <1>i, <2>1, <2>2, <2>3
<1>4. ASSUME NEW w \in Workers, NEW r \in Runs, Dequeue(w, r) PROVE Whole /\ Job1
  <2>1. UNCHANGED <<run, rows, followUps>>
    BY <1>4 DEF Dequeue
  <2> QED
    BY <1>4, <1>b, <1>i, <2>1, DequeueIs
<1>5. ASSUME NEW w \in Workers, Reschedule(w) \/ FailJob(w) PROVE Whole /\ Job1
  <2>1. UNCHANGED <<run, rows, followUps>>
    BY <1>5 DEF Reschedule, FailJob
  <2>2. workers[w].run \in Runs
    BY <1>5, <1>b, Ends
  <2>3. JobStatus(workers[w].run, "pending") \/ JobStatus(workers[w].run, "failed")
    BY <1>5 DEF Reschedule, FailJob
  <2> QED
    BY <1>b, <1>i, <2>1, <2>2, <2>3, JobStatusIs
<1>6. ASSUME NEW w \in Workers, FailRun(w) \/ SweepTick(w) PROVE Whole /\ Job1
  BY <1>6, <1>b, <1>i DEF FailRun, SweepTick, TimeOutRuns, Typed, TypeOK
<1>7. ASSUME NEW w \in Workers, NEW ack \in BOOLEAN, Commit(w, ack) PROVE Whole /\ Job1
  <2> DEFINE r == workers[w].run
  <2>1. /\ r \in Runs /\ workers[w].data # None
        /\ rows'[q] = IF q = r THEN workers[w].data ELSE rows[q]
        /\ jobs'[q].status = IF q = r THEN "completed" ELSE jobs[q].status
    BY <1>7, <1>b, CommitIs, JobStatusIs, NoneAssumption DEF Typed, TypeOK
  <2>2. /\ run'[q] = IF q = r THEN "completed" ELSE run[q]
        /\ followUps' = followUps \cup {r}
    BY <1>7, <1>b, <2>1 DEF Commit, Typed, TypeOK
  <2> QED
    BY <1>i, <2>1, <2>2
<1> QED
  BY <1>1, <1>2, <1>3, <1>4, <1>5, <1>6, <1>7, <1>s, Visible

(* A run is completed, and its GitHub jobs exist, only together with the     *)
(* rows of its import, and an importing run has a job, whatever statement    *)
(* fails and wherever a worker stops.                                        *)
THEOREM ImportsAreAtomic == Spec => []ImportIsAtomic
<1>1. Init => ImportIsAtomic
  BY DEF Init, ImportIsAtomic, NoJob
<1> QED
  BY <1>1, InvariantAlways, AtomicStep, PTL DEF Spec

-----------------------------------------------------------------------------
(* Refinement *)

LEMMA LedgerInit == Init => Ledger!Init
  BY DEF Init, Ledger!Init, NoJob

LEMMA LedgerStep == Invariant /\ [Next]_vars => [Ledger!Next]_(Ledger!vars)
<1> SUFFICES ASSUME Invariant, [Next]_vars PROVE [Ledger!Next]_(Ledger!vars)
  OBVIOUS
<1> DEFINE accepted == [r \in Runs |-> jobs[r].sha]
<1>b. Base /\ Typed
  BY DEF Invariant, Base
<1>1. CASE UNCHANGED <<run, jobs, rows, base, latest, followUps>>
  BY <1>1 DEF Ledger!vars
<1>2. ASSUME NEW r \in Runs, NEW c \in Runners, InsertRun(r, c) PROVE Ledger!Open(r)
  BY <1>2 DEF InsertRun, Ledger!Open
<1>3. ASSUME NEW r \in Runs, NEW c \in Runners, ImportArtifactBundle(r, c)
      PROVE  Ledger!Take(r, c)
  <2>1. jobs[r].status = "none" /\ jobs[r].sha = None
    BY <1>3, <1>b DEF ImportArtifactBundle, Base, Before, OneSubmissionPerRun
  <2>2. \A q \in Runs : jobs'[q].sha = IF q = r THEN c ELSE jobs[q].sha
    BY <1>3, <1>b, <2>1, EnqueueIs DEF ImportArtifactBundle
  <2>3. accepted' = [accepted EXCEPT ![r] = c]
    BY <2>2
  <2> QED
    BY <1>3, <2>1, <2>3 DEF ImportArtifactBundle, Ledger!Take, Ledger!Live, Active
<1>4. ASSUME NEW r \in Runs, NEW c \in Runners, FailWrite(r, c) PROVE Ledger!Fail(r)
  BY <1>4, <1>b DEF FailWrite, Ledger!Fail, Base, Before
<1>5. ASSUME SameJobs, UNCHANGED <<run, rows, latest>> PROVE UNCHANGED Ledger!vars
  BY <1>5 DEF SameJobs, Ledger!vars
<1>6. ASSUME NEW w \in Workers, Reschedule(w) \/ FailJob(w) \/ \E r \in Runs : Dequeue(w, r)
      PROVE  UNCHANGED Ledger!vars
  <2>1. UNCHANGED <<run, rows, latest>>
    BY <1>6 DEF Reschedule, FailJob, Dequeue
  <2>2. \A r \in Runs, c \in Runners : ImportArtifactBundle(r, c) => run'[r] = "importing"
    BY <1>b DEF ImportArtifactBundle, Typed, TypeOK
  <2>3. \A r \in Runs, c \in Runners : ImportArtifactBundle(r, c) => workers' = workers
    BY DEF ImportArtifactBundle
  <2>4. workers' # workers
    <3>1. CASE Reschedule(w) \/ FailJob(w)
      BY <1>b, <3>1, Ends DEF Handling, Importing, GivingUp
    <3>2. ASSUME NEW r \in Runs, Dequeue(w, r) PROVE workers' # workers
      <4>1. workers'[w].pc = "claimed"
        BY <1>b, <3>2, DequeueIs
      <4>2. workers[w].pc = "idle"
        BY <3>2 DEF Dequeue
      <4> QED
        BY <4>1, <4>2
    <3> QED
      BY <1>6, <3>1, <3>2
  <2>5. SameJobs
    BY <1>b, <2>3, <2>4, JobsMove DEF Base
  <2> QED
    BY <1>5, <2>1, <2>5
<1>7. ASSUME NEW w \in Workers, FailRun(w) PROVE Ledger!Fail(workers[w].run)
  <2>1. run[workers[w].run] # "absent"
    BY <1>7, <1>b, Claimed, Existing DEF FailRun, Handling, GivingUp
  <2> QED
    BY <1>7, <2>1 DEF FailRun, Ledger!Fail
<1>8. ASSUME NEW w \in Workers, SweepTick(w)
      PROVE  Ledger!TimeOut({r \in Runs : run[r] \in Active /\ aged[r]})
  BY <1>8 DEF SweepTick, TimeOutRuns, Ledger!TimeOut, Ledger!Live, Active
<1>9. ASSUME NEW w \in Workers, NEW ack \in BOOLEAN, Commit(w, ack)
      PROVE  Ledger!Publish(workers[w].run)
  <2> DEFINE r == workers[w].run
  <2>1. /\ r \in Runs /\ workers[w].data \in Runners /\ workers[w].pc = "commit"
        /\ JobStatus(r, "completed")
        /\ rows' = [rows EXCEPT ![r] = workers[w].data]
    BY <1>9, <1>b, CommitIs
  <2>2. workers[w].data = jobs[r].sha /\ jobs[r].sha # None /\ rows[r] = None
    BY <2>1, NoneAssumption DEF Invariant, Verified
  <2>3. accepted' = accepted
    BY <1>b, <2>1, JobStatusIs
  <2>4. run' = [run EXCEPT ![r] = "completed"] /\ latest' = r
    BY <1>9 DEF Commit
  <2> QED
    BY <2>1, <2>2, <2>3, <2>4 DEF Ledger!Publish
<1>10. \A w \in Workers : workers[w].pc \in Handling => workers[w].run \in Runs
  BY <1>b, Claimed
<1>r. \A w \in Workers : /\ FailRun(w) => workers[w].run \in Runs
                         /\ \A ack \in BOOLEAN : Commit(w, ack) => workers[w].run \in Runs
  BY <1>10 DEF FailRun, Commit, Handling, Importing, GivingUp
<1> QED
  BY <1>1, <1>2, <1>3, <1>4, <1>6, <1>7, <1>8, <1>9, <1>r, Visible DEF Ledger!Next

(* The API, the queue, the workers and the sweeps together keep the promise  *)
(* of RunLedger: one submission, accepted while the run is active, published *)
(* once and whole, and no way back from an ending.                           *)
THEOREM RefinesLedger == Spec => ImplementsLedger
<1>1. Spec => Ledger!Init /\ [][Ledger!Next]_(Ledger!vars)
  BY LedgerInit, LedgerStep, InvariantAlways, PTL DEF Spec
<1> QED
  BY <1>1, PTL DEF ImplementsLedger, Ledger!Spec

-----------------------------------------------------------------------------
(* Action properties *)

(* An ending is replaced by an ending only.                                  *)
LEMMA TerminalStep ==
  ASSUME Typed, [Ledger!Next]_(Ledger!vars), NEW r \in Runs, run[r] \in Terminal
  PROVE  run'[r] \in Terminal
<1> USE DEF Terminal, Typed, TypeOK
<1>1. ASSUME NEW q \in Runs, Ledger!Open(q) \/ Ledger!Publish(q) \/ Ledger!Fail(q)
      PROVE  run'[r] \in Terminal
  BY <1>1 DEF Ledger!Open, Ledger!Publish, Ledger!Fail
<1>2. ASSUME NEW q \in Runs, NEW d \in Runners, Ledger!Take(q, d)
      PROVE  run'[r] \in Terminal
  BY <1>2 DEF Ledger!Take, Ledger!Live
<1>3. ASSUME NEW overdue \in SUBSET Runs, Ledger!TimeOut(overdue)
      PROVE  run'[r] \in Terminal
  BY <1>3 DEF Ledger!TimeOut
<1>4. CASE UNCHANGED Ledger!vars
  BY <1>4 DEF Ledger!vars
<1> QED
  BY <1>1, <1>2, <1>3, <1>4 DEF Ledger!Next

(* No late request, worker or sweep makes a run that is over active again.   *)
THEOREM EndingsAreFinal == Spec => TerminalIsFinal
<1>1. Invariant /\ [Next]_vars =>
        [\A r \in Runs : run[r] \in Terminal => run'[r] \in Terminal]_vars
  BY LedgerStep, TerminalStep DEF Invariant, Base
<1> QED
  BY <1>1, InvariantAlways, PTL DEF Spec, TerminalIsFinal

LEMMA BaseMoves ==
  ASSUME [Next]_vars
  PROVE  \/ UNCHANGED <<base, latest, rows>>
         \/ \E w \in Workers, ack \in BOOLEAN : Commit(w, ack)
<1>1. ASSUME NEW r \in Runs, NEW c \in Runners,
             InsertRun(r, c) \/ ImportArtifactBundle(r, c) \/ FailWrite(r, c)
      PROVE  UNCHANGED <<base, latest, rows>>
  BY <1>1 DEF InsertRun, ImportArtifactBundle, FailWrite
<1>2. ASSUME NEW w \in Workers, NEW r \in Runs, Dequeue(w, r)
      PROVE  UNCHANGED <<base, latest, rows>>
  BY <1>2 DEF Dequeue
<1>3. ASSUME NEW w \in Workers, Reschedule(w) \/ FailJob(w) \/ FailRun(w) \/ SweepTick(w)
      PROVE  UNCHANGED <<base, latest, rows>>
  BY <1>3 DEF Reschedule, FailJob, FailRun, SweepTick, TimeOutRuns
<1> QED
  BY <1>1, <1>2, <1>3, Visible

(* A commit in terms of the rows and the baseline it stores. *)
LEMMA CommitStores ==
  ASSUME Invariant, NEW w \in Workers, NEW ack \in BOOLEAN, Commit(w, ack)
  PROVE  LET r == workers[w].run
         IN  /\ r \in Runs /\ rows[r] = None /\ workers[w].data # None /\ latest' = r
             /\ workers[w].pc = "commit"
             /\ \A q \in Runs : /\ rows'[q] = IF q = r THEN workers[w].data ELSE rows[q]
                                /\ base'[q] = IF q = r THEN workers[w].base ELSE base[q]
<1>b. Typed
  BY DEF Invariant, Base
<1>1. /\ workers[w].run \in Runs /\ workers[w].data \in Runners /\ workers[w].pc = "commit"
      /\ rows' = [rows EXCEPT ![workers[w].run] = workers[w].data]
  BY <1>b, CommitIs
<1>2. /\ base' = [base EXCEPT ![workers[w].run] = workers[w].base]
      /\ latest' = workers[w].run
  BY DEF Commit
<1>3. rows[workers[w].run] = None
  BY <1>1 DEF Invariant, Verified
<1> QED
  BY <1>b, <1>1, <1>2, <1>3, NoneAssumption DEF Typed, TypeOK

LEMMA SubmissionStays ==
  ASSUME Invariant, [Next]_vars, NEW r \in Runs
  PROVE  /\ jobs[r].sha # None => jobs'[r].sha = jobs[r].sha
         /\ rows[r] # None => rows'[r] = rows[r] /\ base'[r] = base[r]
         /\ jobs[r].sha # jobs'[r].sha => run[r] \in Active /\ run'[r] = "importing"
<1>b. Base /\ Typed
  BY DEF Invariant, Base
<1>1. jobs[r].sha # None => jobs'[r].sha = jobs[r].sha
  BY <1>b, ShaStays
<1>2. rows[r] # None => rows'[r] = rows[r] /\ base'[r] = base[r]
  BY BaseMoves, CommitStores
<1>3. ASSUME NEW q \in Runs, NEW c \in Runners, ImportArtifactBundle(q, c),
             jobs[r].sha # jobs'[r].sha
      PROVE  run[r] \in Active /\ run'[r] = "importing"
  <2>1. q = r
    BY <1>b, <1>3, EnqueueIs DEF ImportArtifactBundle
  <2> QED
    BY <1>b, <1>3, <2>1 DEF ImportArtifactBundle, Typed, TypeOK
<1> QED
  BY <1>b, <1>1, <1>2, <1>3, JobsMove DEF SameJobs, Base

(* What was accepted and what was published for a run never changes, and a   *)
(* submission is accepted only by a run that is active.                      *)
THEOREM SubmissionsAreFinal == Spec => SubmissionIsFinal
<1>1. Invariant /\ [Next]_vars =>
        [\A r \in Runs :
           /\ jobs[r].sha # None => jobs'[r].sha = jobs[r].sha
           /\ rows[r] # None => rows'[r] = rows[r] /\ base'[r] = base[r]
           /\ jobs[r].sha # jobs'[r].sha => run[r] \in Active /\ run'[r] = "importing"]_vars
  BY SubmissionStays
<1> QED
  BY <1>1, InvariantAlways, PTL DEF Spec, SubmissionIsFinal

(* What BaselineWasImported needs: latest, and the baseline that a worker    *)
(* has looked up, were imported, and a run without rows has no baseline.     *)
Imported ==
  /\ latest # None => rows[latest] # None
  /\ \A w \in Workers : workers[w].pc = "commit" /\ workers[w].base # None =>
       rows[workers[w].base] # None
  /\ \A r \in Runs : rows[r] = None => base[r] = None

LEMMA ImportedStep == Invariant /\ Imported /\ [Next]_vars => Imported'
<1> SUFFICES ASSUME Invariant, Imported, [Next]_vars PROVE Imported'
  OBVIOUS
<1>b. Base /\ Typed
  BY DEF Invariant, Base
<1>t. latest \in Runs \cup {None} /\ \A w \in Workers : workers[w].base \in Runs \cup {None}
  BY <1>b DEF Typed, TypeOK, Worker
<1>k. \A r \in Runs : rows[r] # None => rows'[r] # None
  BY SubmissionStays
<1>1. latest' # None => rows'[latest'] # None
  BY <1>k, <1>t, BaseMoves, CommitStores DEF Imported
<1>2. ASSUME NEW w \in Workers, workers'[w].pc = "commit", workers'[w].base # None
      PROVE  rows'[workers'[w].base] # None
  <2>1. CASE workers'[w] = workers[w]
    BY <1>2, <1>k, <1>t, <2>1 DEF Imported
  <2>2. CASE workers'[w] # workers[w]
    <3>1. workers'[w].base = latest
      BY <1>2, <1>b, <2>2, WorkersMove DEF Moves
    <3> QED
      BY <1>2, <1>k, <1>t, <3>1 DEF Imported
  <2> QED
    BY <2>1, <2>2
<1>3. ASSUME NEW r \in Runs, rows'[r] = None PROVE base'[r] = None
  <2>1. rows[r] = None
    BY <1>3, <1>k
  <2> QED
    BY <1>3, <2>1, BaseMoves, CommitStores DEF Imported
<1> QED
  BY <1>1, <1>2, <1>3 DEF Imported

(* The baseline of a run is another run, imported before it.                 *)
THEOREM BaselinesWereImported == Spec => BaselineWasImported
<1>1. Init => Imported
  BY IdleIsWorker DEF Init, Imported
<1>2. Invariant /\ Imported /\ [Next]_vars =>
        [\A r \in Runs : base'[r] # base[r] =>
           rows[r] = None /\ base'[r] # r /\ rows[base'[r]] # None]_vars
  <2> SUFFICES ASSUME Invariant, Imported, [Next]_vars, NEW r \in Runs, base'[r] # base[r]
               PROVE  rows[r] = None /\ base'[r] # r /\ rows[base'[r]] # None
    OBVIOUS
  <2>1. PICK w \in Workers, ack \in BOOLEAN : Commit(w, ack)
    BY BaseMoves
  <2>2. /\ r = workers[w].run /\ rows[r] = None /\ base'[r] = workers[w].base
        /\ workers[w].pc = "commit"
    BY <2>1, CommitStores
  <2>3. base[r] = None
    BY <2>2 DEF Imported
  <2>4. rows[base'[r]] # None
    BY <2>2, <2>3 DEF Imported
  <2> QED
    BY <2>2, <2>4
<1>3. Spec => []Imported
  BY <1>1, InvariantAlways, ImportedStep, PTL DEF Spec
<1> QED
  BY <1>2, <1>3, InvariantAlways, PTL DEF Spec, BaselineWasImported
=============================================================================
