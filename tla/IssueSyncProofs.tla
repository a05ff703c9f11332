--------------------------- MODULE IssueSyncProofs ---------------------------
(***************************************************************************)
(* Theorems about IssueSync, for every set of runs and workers and every   *)
(* number of attempts.                                                     *)
(***************************************************************************)
EXTENDS IssueSync, TLAPS

(* A job that may be taken has an attempt left, and jobs and handlers are    *)
(* those of completed runs.                                                  *)
Typed ==
  /\ TypeOK
  /\ \A r \in Runs, t \in Types :
       /\ jobs[r][t].status = "pending" => jobs[r][t].attempts < MaxAttempts
       /\ jobs[r][t].status # "absent" => Completed(r)
  /\ \A w \in Workers :
       ~ At(w, "idle") => workers[w].run \in Runs /\ Completed(workers[w].run)

LEMMA TypedInit == Init => Typed
  BY MaxAttemptsAssumption
  DEF Init, Typed, TypeOK, Project, Job, NoJob, Idle, Worker, Null, Types, At, Calling, Ignoring

(* Worker records                                                            *)
LEMMA IdleIsWorker == Idle \in Worker /\ Idle.pc = "idle"
  BY DEF Idle, Worker, Null, Types

LEMMA WorkerFields ==
  ASSUME NEW v \in Worker
  PROVE  /\ \A pc \in {"idle", "settle", "mark"} \cup Calling \cup Ignoring :
              [v EXCEPT !.pc = pc] \in Worker
         /\ \A pc \in {"record", "store"}, n \in Nat : [v EXCEPT !.pc = pc, !.made = n] \in Worker
         /\ \A b \in BOOLEAN :
              [Idle EXCEPT !.pc = "settle", !.run = v.run, !.type = v.type, !.completed = b] \in Worker
  BY DEF Worker, Idle, Calling, Ignoring, Null

(* What is left alone by the steps that only move a worker                   *)
Moves(w) ==
  \E v \in Worker :
    /\ Become(w, v)
    /\ v.pc # "idle" => workers[w].pc # "idle" /\ v.run = workers[w].run

LEMMA Moved ==
  ASSUME Typed, NEW w \in Workers, ~ At(w, "idle")
  PROVE  /\ \A pc \in {"idle", "settle", "mark"} \cup Calling \cup Ignoring : Step(w, pc) => Moves(w)
         /\ \A pc \in {"record", "store"}, n \in Nat :
              Become(w, [workers[w] EXCEPT !.pc = pc, !.made = n]) => Moves(w)
         /\ \A b \in BOOLEAN : Conclude(w, b) => Moves(w)
         /\ Become(w, Idle) => Moves(w)
<1> DEFINE me == workers[w]
<1>1. me \in Worker /\ me.pc # "idle"
  BY DEF Typed, TypeOK, At
<1>2. ASSUME NEW pc \in {"idle", "settle", "mark"} \cup Calling \cup Ignoring, Step(w, pc)
      PROVE  Moves(w)
  <2>1. [me EXCEPT !.pc = pc] \in Worker /\ [me EXCEPT !.pc = pc].run = me.run
    BY <1>1, WorkerFields DEF Worker
  <2> QED
    BY <1>1, <1>2, <2>1 DEF Moves, Step
<1>3. ASSUME NEW pc \in {"record", "store"}, NEW n \in Nat,
             Become(w, [me EXCEPT !.pc = pc, !.made = n])
      PROVE  Moves(w)
  <2>1. [me EXCEPT !.pc = pc, !.made = n] \in Worker
        /\ [me EXCEPT !.pc = pc, !.made = n].run = me.run
    BY <1>1, WorkerFields DEF Worker
  <2> QED
    BY <1>1, <1>3, <2>1 DEF Moves
<1>4. ASSUME NEW b \in BOOLEAN, Conclude(w, b) PROVE Moves(w)
  <2> DEFINE v == [Idle EXCEPT !.pc = "settle", !.run = me.run, !.type = me.type, !.completed = b]
  <2>1. v \in Worker
    BY <1>1, WorkerFields
  <2>2. v.run = me.run
    BY DEF Idle
  <2>3. Become(w, v)
    BY <1>4 DEF Conclude
  <2> HIDE DEF v
  <2> QED
    BY <1>1, <2>1, <2>2, <2>3 DEF Moves
<1>5. Become(w, Idle) => Moves(w)
  BY IdleIsWorker DEF Moves
<1> QED
  BY <1>2, <1>3, <1>4, <1>5

(* Once the other variables are seen to be typed, a move keeps Typed.        *)
LEMMA MoveKeepsWorkers ==
  ASSUME Typed, NEW w \in Workers, Moves(w), \A r \in Runs : Completed(r) => Completed(r)'
  PROVE  /\ workers' \in [Workers -> Worker]
         /\ \A v \in Workers :
              (~ At(v, "idle") => workers[v].run \in Runs /\ Completed(workers[v].run))'
<1>1. PICK s \in Worker : /\ Become(w, s)
                          /\ s.pc # "idle" => workers[w].pc # "idle" /\ s.run = workers[w].run
  BY DEF Moves
<1>2. workers' = [workers EXCEPT ![w] = s] /\ workers \in [Workers -> Worker]
  BY <1>1 DEF Become, Typed, TypeOK
<1>3. ASSUME NEW v \in Workers, ~ At(v, "idle")'
      PROVE  (workers[v].run \in Runs /\ Completed(workers[v].run))'
  <2>1. ~ At(v, "idle") /\ workers'[v].run = workers[v].run
    BY <1>1, <1>2, <1>3 DEF At
  <2>2. workers[v].run \in Runs /\ Completed(workers[v].run)
    BY <2>1 DEF Typed
  <2>3. Completed(workers[v].run) => Completed(workers[v].run)'
    BY <2>1, <2>2 DEF Completed
  <2> QED
    BY <2>1, <2>2, <2>3
<1> QED
  BY <1>2, <1>3

LEMMA MoveKeepsTyped ==
  ASSUME Typed, NEW w \in Workers, Moves(w), UNCHANGED done, project' \in Project,
         history' \subseteq Nat, issues' \in Seq(IssueState), comments' \in Seq(Comment),
         results' \subseteq Runs, jobs' \in [Runs -> [Types -> Job]],
         \A r \in Runs, t \in Types :
           /\ jobs'[r][t].status = "pending" => jobs'[r][t].attempts < MaxAttempts
           /\ jobs'[r][t].status # "absent" => Completed(r)
  PROVE  Typed'
<1>1. \A r \in Runs : Completed(r) <=> Completed(r)'
  BY DEF Completed
<1>2. /\ workers' \in [Workers -> Worker]
      /\ \A v \in Workers :
           (~ At(v, "idle") => workers[v].run \in Runs /\ Completed(workers[v].run))'
  BY <1>1, MoveKeepsWorkers
<1>3. TypeOK'
  BY <1>2 DEF Typed, TypeOK
<1> QED
  BY <1>1, <1>2, <1>3 DEF Typed

(* Steps that move a worker and change at most one thing more                *)
LEMMA MoveOnly ==
  ASSUME Typed, NEW w \in Workers, Moves(w), UNCHANGED <<done, project, history, jobs, github>>
  PROVE  Typed'
<1>1. /\ project' \in Project /\ history' \subseteq Nat /\ results' \subseteq Runs
      /\ issues' \in Seq(IssueState) /\ comments' \in Seq(Comment)
      /\ jobs' \in [Runs -> [Types -> Job]]
  BY DEF Typed, TypeOK, github
<1>2. \A r \in Runs, t \in Types :
        /\ jobs'[r][t].status = "pending" => jobs'[r][t].attempts < MaxAttempts
        /\ jobs'[r][t].status # "absent" => Completed(r)
  BY DEF Typed
<1> QED
  BY <1>1, <1>2, MoveKeepsTyped

LEMMA MoveAndRow ==
  ASSUME Typed, NEW w \in Workers, Moves(w), project' \in Project,
         UNCHANGED <<done, history, jobs, github>>
  PROVE  Typed'
<1>1. /\ history' \subseteq Nat /\ results' \subseteq Runs
      /\ issues' \in Seq(IssueState) /\ comments' \in Seq(Comment)
      /\ jobs' \in [Runs -> [Types -> Job]]
  BY DEF Typed, TypeOK, github
<1>2. \A r \in Runs, t \in Types :
        /\ jobs'[r][t].status = "pending" => jobs'[r][t].attempts < MaxAttempts
        /\ jobs'[r][t].status # "absent" => Completed(r)
  BY DEF Typed
<1> QED
  BY <1>1, <1>2, MoveKeepsTyped

LEMMA MoveAndGitHub ==
  ASSUME Typed, NEW w \in Workers, Moves(w), UNCHANGED <<done, project, history, jobs>>,
         issues' \in Seq(IssueState), comments' \in Seq(Comment), results' \subseteq Runs
  PROVE  Typed'
<1>1. /\ project' \in Project /\ history' \subseteq Nat
      /\ jobs' \in [Runs -> [Types -> Job]]
  BY DEF Typed, TypeOK
<1>2. \A r \in Runs, t \in Types :
        /\ jobs'[r][t].status = "pending" => jobs'[r][t].attempts < MaxAttempts
        /\ jobs'[r][t].status # "absent" => Completed(r)
  BY DEF Typed
<1> QED
  BY <1>1, <1>2, MoveKeepsTyped

LEMMA MoveAndJobs ==
  ASSUME Typed, NEW w \in Workers, Moves(w), UNCHANGED <<done, history, github>>,
         project' \in Project, NEW r \in Runs, NEW t \in Types, NEW j \in Job, Completed(r),
         jobs' = [jobs EXCEPT ![r][t] = j], j.status = "pending" => j.attempts < MaxAttempts
  PROVE  Typed'
<1>1. /\ history' \subseteq Nat /\ results' \subseteq Runs
      /\ issues' \in Seq(IssueState) /\ comments' \in Seq(Comment)
      /\ jobs \in [Runs -> [Types -> Job]]
  BY DEF Typed, TypeOK, github
<1>2. jobs' \in [Runs -> [Types -> Job]]
  BY <1>1
<1>3. \A q \in Runs, u \in Types :
        jobs'[q][u] = IF q = r /\ u = t THEN j ELSE jobs[q][u]
  BY <1>1
<1>4. \A q \in Runs, u \in Types :
        /\ jobs'[q][u].status = "pending" => jobs'[q][u].attempts < MaxAttempts
        /\ jobs'[q][u].status # "absent" => Completed(q)
  BY <1>3 DEF Typed
<1> QED
  BY <1>1, <1>2, <1>4, MoveKeepsTyped

(* A worker that handles a job knows the run and has read a completed one.   *)
LEMMA Busy ==
  ASSUME Typed, NEW w \in Workers, ~ At(w, "idle")
  PROVE  /\ workers[w] \in Worker
         /\ workers[w].run \in Runs /\ Completed(workers[w].run)
         /\ workers[w].type \in Types
         /\ workers[w].issue \in Nat /\ workers[w].comment \in Nat /\ workers[w].made \in Nat
         /\ workers[w].latest \in Runs \cup {None}
         /\ done \in Seq(Runs) /\ Len(done) \in Nat /\ done[Len(done)] \in Runs
<1>1. workers[w] \in Worker /\ workers[w].run \in Runs /\ Completed(workers[w].run)
      /\ done \in Seq(Runs)
  BY DEF Typed, TypeOK
<1>2. PICK i \in DOMAIN done : TRUE
  BY <1>1 DEF Completed
<1>3. Len(done) \in Nat /\ Len(done) >= 1
  BY <1>1, <1>2
<1> QED
  BY <1>1, <1>3 DEF Worker

LEMMA ReadMoves == ASSUME Typed, NEW w \in Workers, Read(w) PROVE Moves(w)
<1>b. ~ At(w, "idle")
  BY DEF Read, At
<1> DEFINE me == workers[w]
           shot(pc) == [Snapshot(w) EXCEPT !.pc = pc]
<1>1. ASSUME NEW pc \in {"create", "check"}, Become(w, shot(pc)) PROVE Moves(w)
  <2>1. me \in Worker /\ project \in Project /\ done[Len(done)] \in Runs
    BY <1>b, Busy DEF Typed, TypeOK
  <2>2. shot(pc) \in Worker /\ shot(pc).run = me.run
    BY <2>1 DEF Snapshot, Worker, Project, Calling
  <2> HIDE DEF shot
  <2> QED
    BY <1>1, <1>b, <2>2 DEF Moves, At
<1>2. \A b \in BOOLEAN : Conclude(w, b) => Moves(w)
  BY <1>b, Moved
<1> QED
  BY <1>1, <1>2 DEF Read

LEMMA CommentsEdited ==
  ASSUME comments \in Seq(Comment)
  PROVE  /\ \A c, x : x \in Runs \cup {None} =>
              [comments EXCEPT ![c].shows = x] \in Seq(Comment)
         /\ \A i : [c \in DOMAIN comments |->
                      IF comments[c].on = i THEN [comments[c] EXCEPT !.shows = None]
                      ELSE comments[c]] \in Seq(Comment)
<1>1. /\ Len(comments) \in Nat /\ DOMAIN comments = 1..Len(comments)
      /\ \A c \in 1..Len(comments) : comments[c] \in Comment
      /\ comments = [c \in 1..Len(comments) |-> comments[c]]
  OBVIOUS
<1>2. \A k \in Comment, x \in Runs \cup {None} : [k EXCEPT !.shows = x] \in Comment
  BY DEF Comment
<1>3. \A f : f \in [1..Len(comments) -> Comment] => f \in Seq(Comment)
  BY <1>1
<1>4. ASSUME NEW c, NEW x \in Runs \cup {None}
      PROVE  [comments EXCEPT ![c].shows = x] \in [1..Len(comments) -> Comment]
  BY <1>1, <1>2
<1>5. ASSUME NEW i
      PROVE  [c \in DOMAIN comments |->
                IF comments[c].on = i THEN [comments[c] EXCEPT !.shows = None]
                ELSE comments[c]] \in [1..Len(comments) -> Comment]
  BY <1>1, <1>2
<1> QED
  BY <1>3, <1>4, <1>5

LEMMA TypedUsers == ASSUME Typed, Users PROVE Typed'
<1>1. /\ issues \in Seq(IssueState) /\ comments \in Seq(Comment)
  BY DEF Typed, TypeOK
<1>2. UNCHANGED ours
  BY DEF Users, CloseIssue, ReopenIssue, DeleteIssue, DeleteComment
<1>3. \A i \in DOMAIN issues, s \in IssueState :
        IssueBecomes(i, s) => issues' \in Seq(IssueState)
  BY <1>1 DEF IssueBecomes
<1>4. issues' \in Seq(IssueState) /\ comments' \in Seq(Comment)
  <2>1. ASSUME NEW i \in DOMAIN issues, CloseIssue(i) \/ ReopenIssue(i)
        PROVE  issues' \in Seq(IssueState) /\ comments' \in Seq(Comment)
    BY <1>1, <1>3, <2>1 DEF CloseIssue, ReopenIssue, IssueState
  <2>2. ASSUME NEW i \in DOMAIN issues, DeleteIssue(i)
        PROVE  issues' \in Seq(IssueState) /\ comments' \in Seq(Comment)
    <3>1. issues' \in Seq(IssueState)
      BY <1>3, <2>2 DEF DeleteIssue, IssueState
    <3>2. comments' \in Seq(Comment)
      BY <1>1, <2>2, CommentsEdited, Zenon DEF DeleteIssue
    <3> QED
      BY <3>1, <3>2
  <2>3. ASSUME NEW c \in DOMAIN comments, DeleteComment(c)
        PROVE  issues' \in Seq(IssueState) /\ comments' \in Seq(Comment)
    <3>1. comments' = [comments EXCEPT ![c].shows = None] /\ issues' = issues
      BY <2>3 DEF DeleteComment
    <3> QED
      BY <1>1, <3>1, CommentsEdited
  <2> QED
    BY <2>1, <2>2, <2>3 DEF Users
<1>6. TypeOK'
  BY <1>2, <1>4 DEF Typed, TypeOK, ours
<1> QED
  BY <1>2, <1>6 DEF Typed, ours, Completed, At

LEMMA CompletedAppend ==
  ASSUME done \in Seq(Runs), NEW r \in Runs, done' = Append(done, r)
  PROVE  /\ done' \in Seq(Runs)
         /\ \A q : Completed(q)' <=> Completed(q) \/ q = r
<1>1. /\ Len(done) \in Nat /\ DOMAIN done = 1..Len(done)
      /\ done' \in Seq(Runs) /\ DOMAIN done' = 1..(Len(done) + 1)
      /\ \A i \in 1..(Len(done) + 1) : done'[i] = IF i <= Len(done) THEN done[i] ELSE r
  OBVIOUS
<1>2. ASSUME NEW q, Completed(q) PROVE Completed(q)'
  <2>1. PICK i \in 1..Len(done) : done[i] = q
    BY <1>1, <1>2 DEF Completed
  <2>2. i \in 1..(Len(done) + 1) /\ done'[i] = q
    BY <1>1, <2>1
  <2> QED
    BY <1>1, <2>2 DEF Completed
<1>3. Completed(r)'
  <2>1. Len(done) + 1 \in 1..(Len(done) + 1) /\ done'[Len(done) + 1] = r
    BY <1>1
  <2> QED
    BY <1>1, <2>1 DEF Completed
<1>4. ASSUME NEW q, Completed(q)' PROVE Completed(q) \/ q = r
  <2>1. PICK i \in 1..(Len(done) + 1) : done'[i] = q
    BY <1>1, <1>4 DEF Completed
  <2>2. CASE i <= Len(done)
    <3>1. i \in 1..Len(done) /\ done[i] = q
      BY <1>1, <2>1, <2>2
    <3> QED
      BY <1>1, <3>1 DEF Completed
  <2>3. CASE ~ (i <= Len(done))
    BY <1>1, <2>1, <2>3
  <2> QED
    BY <2>2, <2>3
<1> QED
  BY <1>1, <1>2, <1>3, <1>4

LEMMA TypedComplete == ASSUME Typed, NEW w \in Workers, NEW r \in Runs, Complete(w, r) PROVE Typed'
<1> DEFINE fresh == [t \in Types |-> IF t \in FollowUps THEN Queued ELSE NoJob]
<1>1. fresh \in [Types -> Job]
      /\ \A t \in Types : fresh[t].status = "pending" => fresh[t].attempts < MaxAttempts
  BY MaxAttemptsAssumption DEF Job, Queued, NoJob
<1> HIDE DEF fresh
<1>2. jobs' = [jobs EXCEPT ![r] = fresh] /\ jobs \in [Runs -> [Types -> Job]]
      /\ done' = Append(done, r) /\ done \in Seq(Runs)
  BY DEF Complete, Typed, TypeOK, fresh
<1>3. done' \in Seq(Runs) /\ \A q \in Runs : Completed(q)' <=> Completed(q) \/ q = r
  BY <1>2, CompletedAppend
<1>4. jobs' \in [Runs -> [Types -> Job]]
  BY <1>1, <1>2
<1>5. \A q \in Runs, t \in Types :
        /\ jobs'[q][t].status = "pending" => jobs'[q][t].attempts < MaxAttempts
        /\ jobs'[q][t].status # "absent" => Completed(q)'
  BY <1>1, <1>2, <1>3 DEF Typed
<1>6. UNCHANGED <<project, history, issues, comments, results, workers>>
  BY DEF Complete, github
<1>7. TypeOK'
  BY <1>3, <1>4, <1>6 DEF Typed, TypeOK
<1>8. ASSUME NEW v \in Workers, ~ At(v, "idle")
      PROVE  workers[v].run \in Runs /\ Completed(workers[v].run)'
  <2>1. workers[v].run \in Runs /\ Completed(workers[v].run)
    BY <1>8 DEF Typed
  <2> QED
    BY <1>3, <1>6, <2>1 DEF Completed
<1>9. \A v \in Workers : (~ At(v, "idle") => workers[v].run \in Runs /\ Completed(workers[v].run))'
  BY <1>6, <1>8 DEF At
<1> QED
  BY <1>5, <1>7, <1>9 DEF Typed

LEMMA TypedDequeue ==
  ASSUME Typed, NEW w \in Workers, NEW r \in Runs, NEW t \in Types, Dequeue(w, r, t) PROVE Typed'
<1> DEFINE v == [Idle EXCEPT !.pc = "read", !.run = r, !.type = t]
           j == [status |-> "running", attempts |-> jobs[r][t].attempts + 1]
<1>1. v \in Worker /\ v.run = r
  BY IdleIsWorker DEF Worker, Idle, Calling
<1>2. j \in Job /\ j.status = "running"
  BY MaxAttemptsAssumption DEF Dequeue, Typed, TypeOK, Job
<1>3. Completed(r)
  BY DEF Dequeue, Typed
<1>4. /\ workers' = [workers EXCEPT ![w] = v] /\ jobs' = [jobs EXCEPT ![r][t] = j]
      /\ workers \in [Workers -> Worker] /\ jobs \in [Runs -> [Types -> Job]]
  BY DEF Dequeue, Become, Typed, TypeOK
<1> HIDE DEF v, j
<1>5. workers' \in [Workers -> Worker] /\ jobs' \in [Runs -> [Types -> Job]]
  BY <1>1, <1>2, <1>4
<1>6. \A q \in Runs, u \in Types :
        jobs'[q][u] = IF q = r /\ u = t THEN j ELSE jobs[q][u]
  BY <1>4
<1>7. UNCHANGED <<done, project, history, issues, comments, results>>
  BY DEF Dequeue, github
<1>8. TypeOK'
  BY <1>5, <1>7 DEF Typed, TypeOK
<1>9. \A q \in Runs, u \in Types :
        /\ jobs'[q][u].status = "pending" => jobs'[q][u].attempts < MaxAttempts
        /\ jobs'[q][u].status # "absent" => Completed(q)'
  BY <1>2, <1>3, <1>6, <1>7 DEF Typed, Completed
<1>10. \A x \in Workers : (~ At(x, "idle") => workers[x].run \in Runs /\ Completed(workers[x].run))'
  BY <1>1, <1>3, <1>4, <1>7 DEF Typed, Completed, At
<1> QED
  BY <1>8, <1>9, <1>10 DEF Typed

(* The handler, action by action                                             *)

LEMMA RowUpdates ==
  ASSUME Typed
  PROVE  /\ \A n \in Nat : [project EXCEPT !.issue = n, !.sync = "synced"] \in Project
         /\ \A n \in Nat : [project EXCEPT !.comment = n] \in Project
         /\ [project EXCEPT !.issue = Null, !.comment = Null, !.sync = "pending"] \in Project
         /\ [project EXCEPT !.sync = "failed"] \in Project
         /\ Null \in Nat
  BY DEF Typed, TypeOK, Project, Null

LEMMA EnqueueKeepsTyped ==
  ASSUME Typed, NEW w \in Workers, Moves(w), UNCHANGED <<done, history, github>>,
         project' \in Project, NEW r \in Runs, NEW t \in Types, Completed(r), Enqueue(r, t)
  PROVE  Typed'
<1>1. Queued \in Job /\ Queued.attempts < MaxAttempts /\ jobs \in [Runs -> [Types -> Job]]
  BY MaxAttemptsAssumption DEF Queued, Job, Typed, TypeOK
<1>2. CASE jobs[r][t].status = "absent"
  BY <1>1, <1>2, MoveAndJobs DEF Enqueue
<1>3. CASE jobs[r][t].status # "absent"
  <2>1. jobs' = jobs
    BY <1>3 DEF Enqueue
  <2> QED
    BY <2>1, MoveAndRow
<1> QED
  BY <1>2, <1>3

LEMMA TypedCreateIssue ==
  ASSUME Typed, NEW w \in Workers, NEW ack \in BOOLEAN, CreateIssue(w, ack) \/ RecordIssue(w, ack)
  PROVE  Typed'
<1>b. ~ At(w, "idle")
  BY DEF CreateIssue, RecordIssue, At
<1>1. CASE CreateIssue(w, ack)
  <2>1. issues' = Append(issues, "open") /\ issues \in Seq(IssueState) /\ "open" \in IssueState
    BY <1>1 DEF CreateIssue, Typed, TypeOK, IssueState
  <2>2. issues' \in Seq(IssueState) /\ Len(issues') \in Nat
    BY <2>1
  <2>3. Moves(w)
    BY <1>b, <1>1, <2>2, Moved DEF CreateIssue
  <2>4. comments' \in Seq(Comment) /\ results' \subseteq Runs
        /\ UNCHANGED <<done, project, history, jobs>>
    BY <1>1 DEF CreateIssue, Typed, TypeOK
  <2> QED
    BY <2>2, <2>3, <2>4, MoveAndGitHub
<1>2. CASE RecordIssue(w, ack)
  <2>1. Moves(w)
    BY <1>b, <1>2, Moved DEF RecordIssue
  <2>2. UNCHANGED <<done, history, github>> /\ project \in Project
    BY <1>2 DEF RecordIssue, Typed, TypeOK
  <2>3. CASE project.issue # Null
    <3>1. UNCHANGED <<project, jobs>>
      BY <1>2, <2>3 DEF RecordIssue
    <3> QED
      BY <2>1, <2>2, <3>1, MoveOnly
  <2>4. CASE project.issue = Null
    <3>1. project' \in Project
      BY <1>b, <1>2, <2>4, Busy, RowUpdates DEF RecordIssue
    <3>2. Enqueue(workers[w].run, "create_dashboard_comment")
      BY <1>2, <2>4 DEF RecordIssue
    <3>3. "create_dashboard_comment" \in Types
      BY DEF Types
    <3> QED
      BY <1>b, <2>1, <2>2, <3>1, <3>2, <3>3, Busy, EnqueueKeepsTyped
  <2> QED
    BY <2>3, <2>4
<1> QED
  BY <1>1, <1>2

LEMMA CheckMoves ==
  ASSUME Typed, NEW w \in Workers, CheckIssue(w) \/ JudgeTree(w) \/ WeighResult(w)
  PROVE  Moves(w) /\ UNCHANGED <<done, project, history, jobs, github>>
<1>b. ~ At(w, "idle")
  BY DEF CheckIssue, JudgeTree, WeighResult, At
<1>1. \A pc \in {"weigh", "post", "edit", "judge", "archive"} : Step(w, pc) => Moves(w)
  BY <1>b, Moved DEF Calling, Ignoring
<1>2. \A b \in BOOLEAN : Conclude(w, b) => Moves(w)
  BY <1>b, Moved
<1>3. CASE CheckIssue(w)
  BY <1>1, <1>2, <1>3 DEF CheckIssue
<1>4. CASE JudgeTree(w)
  BY <1>1, <1>2, <1>4 DEF JudgeTree
<1>5. CASE WeighResult(w)
  BY <1>1, <1>2, <1>5 DEF WeighResult
<1> QED
  BY <1>3, <1>4, <1>5

LEMMA TypedGivingUpIssue ==
  ASSUME Typed, NEW w \in Workers,
         InsertIssueHistory(w) \/ ClearIssueInfo(w) \/ EnqueueCreateIssue(w)
  PROVE  Typed'
<1>b. ~ At(w, "idle")
  BY DEF InsertIssueHistory, ClearIssueInfo, EnqueueCreateIssue, At
<1>m. Moves(w)
  <2>1. \A pc \in {"clear", "again"} : Step(w, pc) => Moves(w)
    BY <1>b, Moved DEF Ignoring
  <2>2. Conclude(w, FALSE) => Moves(w)
    BY <1>b, Moved
  <2> QED
    BY <2>1, <2>2 DEF InsertIssueHistory, ClearIssueInfo, EnqueueCreateIssue
<1>1. CASE InsertIssueHistory(w)
  <2>1. history' \subseteq Nat /\ UNCHANGED <<done, project, jobs, issues, comments, results>>
    BY <1>b, <1>1, Busy DEF InsertIssueHistory, Typed, TypeOK, github
  <2>2. project' \in Project /\ issues' \in Seq(IssueState) /\ comments' \in Seq(Comment)
        /\ results' \subseteq Runs /\ jobs' \in [Runs -> [Types -> Job]]
    BY <2>1 DEF Typed, TypeOK
  <2>3. \A r \in Runs, t \in Types :
          /\ jobs'[r][t].status = "pending" => jobs'[r][t].attempts < MaxAttempts
          /\ jobs'[r][t].status # "absent" => Completed(r)
    BY <2>1 DEF Typed
  <2> QED
    BY <1>m, <2>1, <2>2, <2>3, MoveKeepsTyped
<1>2. CASE ClearIssueInfo(w)
  <2>1. project' \in Project /\ UNCHANGED <<done, history, jobs, github>>
    BY <1>2, RowUpdates DEF ClearIssueInfo
  <2> QED
    BY <1>m, <2>1, MoveAndRow
<1>3. CASE EnqueueCreateIssue(w)
  <2>1. /\ Enqueue(workers[w].run, "create_issue")
        /\ UNCHANGED <<done, project, history, github>>
    BY <1>3 DEF EnqueueCreateIssue
  <2>2. project' \in Project /\ "create_issue" \in Types
    BY <2>1 DEF Typed, TypeOK, Types
  <2> QED
    BY <1>b, <1>m, <2>1, <2>2, Busy, EnqueueKeepsTyped
<1> QED
  BY <1>1, <1>2, <1>3

LEMMA TypedComment ==
  ASSUME Typed, NEW w \in Workers, NEW ack \in BOOLEAN,
         \/ CreateComment(w, ack) \/ StoreCommentId(w)
         \/ UpdateComment(w, ack) \/ ClearCommentId(w)
  PROVE  Typed'
<1>b. ~ At(w, "idle")
  BY DEF CreateComment, StoreCommentId, UpdateComment, ClearCommentId, At
<1> DEFINE me == workers[w]
<1>c. \A b \in BOOLEAN : Conclude(w, b) => Moves(w)
  BY <1>b, Moved
<1>p. \A pc \in {"forget", "post"} : Step(w, pc) => Moves(w)
  BY <1>b, Moved DEF Calling, Ignoring
<1>t. /\ issues \in Seq(IssueState) /\ comments \in Seq(Comment) /\ results \subseteq Runs
  BY DEF Typed, TypeOK
<1>1. CASE CreateComment(w, ack)
  <2>0. UNCHANGED <<done, project, history, jobs>>
    BY <1>1 DEF CreateComment
  <2>1. CASE issues[me.issue] = "deleted"
    <3>1. Conclude(w, FALSE) /\ UNCHANGED <<issues, comments, results>>
      BY <1>1, <2>1 DEF CreateComment, github
    <3> QED
      BY <1>c, <1>t, <2>0, <3>1, MoveAndGitHub
  <2>2. CASE issues[me.issue] # "deleted" /\ me.type = "create_run_result_comment"
    <3>1. Conclude(w, ack) /\ results' = results \cup {me.run} /\ UNCHANGED <<issues, comments>>
      BY <1>1, <2>2 DEF CreateComment
    <3>2. results' \subseteq Runs
      BY <1>b, <1>t, <3>1, Busy
    <3> QED
      BY <1>c, <1>t, <2>0, <3>1, <3>2, MoveAndGitHub
  <2>3. CASE issues[me.issue] # "deleted" /\ me.type # "create_run_result_comment"
    <3> DEFINE new == [on |-> me.issue, shows |-> me.latest]
    <3>1. /\ comments' = Append(comments, new) /\ UNCHANGED <<issues, results>>
          /\ IF ack THEN Become(w, [me EXCEPT !.pc = "store", !.made = Len(comments')])
                    ELSE Conclude(w, FALSE)
      BY <1>1, <2>3 DEF CreateComment
    <3>2. new \in Comment
      BY <1>b, Busy DEF Comment
    <3> HIDE DEF new
    <3>3. comments' \in Seq(Comment) /\ Len(comments') \in Nat
      BY <1>t, <3>1, <3>2
    <3>4. Moves(w)
      BY <1>b, <1>c, <3>1, <3>3, Moved
    <3> QED
      BY <1>t, <2>0, <3>1, <3>3, <3>4, MoveAndGitHub
  <2> QED
    BY <2>1, <2>2, <2>3
<1>2. CASE StoreCommentId(w)
  <2>1. project' \in Project /\ Conclude(w, TRUE) /\ UNCHANGED <<done, history, jobs, github>>
    BY <1>b, <1>2, Busy, RowUpdates DEF StoreCommentId
  <2> QED
    BY <1>c, <2>1, MoveAndRow
<1>3. CASE UpdateComment(w, ack)
  <2>0. UNCHANGED <<done, project, history, jobs, issues, results>>
    BY <1>3 DEF UpdateComment
  <2>1. CASE comments[me.comment].shows = None
    BY <1>p, <1>t, <1>3, <2>0, <2>1, MoveAndGitHub DEF UpdateComment
  <2>2. CASE comments[me.comment].shows # None
    <3>1. comments' = [comments EXCEPT ![me.comment].shows = me.latest] /\ Conclude(w, ack)
      BY <1>3, <2>2 DEF UpdateComment
    <3>2. comments' \in Seq(Comment)
      BY <1>b, <1>t, <3>1, Busy, CommentsEdited
    <3> QED
      BY <1>c, <1>t, <2>0, <3>1, <3>2, MoveAndGitHub
  <2> QED
    BY <2>1, <2>2
<1>4. CASE ClearCommentId(w)
  <2>1. project' \in Project /\ Step(w, "post") /\ UNCHANGED <<done, history, jobs, github>>
    BY <1>4, RowUpdates DEF ClearCommentId
  <2> QED
    BY <1>p, <2>1, MoveAndRow
<1> QED
  BY <1>1, <1>2, <1>3, <1>4

LEMMA AfterSettleMoves ==
  ASSUME Typed, NEW w \in Workers, ~ At(w, "idle"), AfterSettle(w) PROVE Moves(w)
<1>1. Step(w, "mark") \/ Become(w, Idle)
  BY DEF AfterSettle
<1> QED
  BY <1>1, Moved

LEMMA TypedDispatcher ==
  ASSUME Typed, NEW w \in Workers, Settle(w) \/ MarkSyncFailed(w) PROVE Typed'
<1>b. ~ At(w, "idle")
  BY DEF Settle, MarkSyncFailed, At
<1> DEFINE r == workers[w].run
           t == workers[w].type
<1>r. r \in Runs /\ t \in Types /\ Completed(r)
  BY <1>b, Busy
<1>1. CASE Settle(w)
  <2> DEFINE status == IF workers[w].completed THEN "completed"
                       ELSE IF GivesUp(w) THEN "failed" ELSE "pending"
             j == [jobs[r][t] EXCEPT !.status = status]
  <2>1. jobs[r][t] \in Job /\ jobs \in [Runs -> [Types -> Job]] /\ project \in Project
    BY <1>r DEF Typed, TypeOK
  <2>2. jobs' = [jobs EXCEPT ![r][t] = j]
    BY <1>1, <1>r, <2>1 DEF Settle, JobStatus
  <2>3. j \in Job /\ (j.status = "pending" => j.attempts < MaxAttempts)
    BY <2>1, MaxAttemptsAssumption DEF Job, GivesUp
  <2>4. Moves(w) /\ UNCHANGED <<done, project, history, github>>
    BY <1>1, <1>b, AfterSettleMoves DEF Settle
  <2> HIDE DEF j, status
  <2> QED
    BY <1>r, <2>1, <2>2, <2>3, <2>4, MoveAndJobs
<1>2. CASE MarkSyncFailed(w)
  <2>1. project' \in Project /\ Become(w, Idle) /\ UNCHANGED <<done, history, jobs, github>>
    BY <1>2, RowUpdates DEF MarkSyncFailed
  <2> QED
    BY <1>b, <2>1, Moved, MoveAndRow
<1> QED
  BY <1>1, <1>2

LEMMA TypedTrouble ==
  ASSUME Typed, NEW w \in Workers, Fails(w) \/ Ignored(w) \/ Abandon(w) PROVE Typed'
<1>b. ~ At(w, "idle")
  BY DEF Fails, Ignored, Abandon, At, Calling
<1>1. Moves(w)
  <2>1. \A pc \in {"clear", "again", "post"} : Step(w, pc) => Moves(w)
    BY <1>b, Moved DEF Ignoring, Calling
  <2>2. (Conclude(w, FALSE) => Moves(w)) /\ (Become(w, Idle) => Moves(w))
    BY <1>b, Moved
  <2>3. AfterSettle(w) => Moves(w)
    BY <1>b, AfterSettleMoves
  <2> QED
    BY <2>1, <2>2, <2>3 DEF Fails, Ignored, Abandon
<1>2. UNCHANGED <<done, project, history, jobs, github>>
  BY DEF Fails, Ignored, Abandon
<1> QED
  BY <1>1, <1>2, MoveOnly

LEMMA TypedStep == Typed /\ [Next]_vars => Typed'
<1> SUFFICES ASSUME Typed, [Next]_vars PROVE Typed'
  OBVIOUS
<1>1. CASE Import
  BY <1>1, TypedComplete DEF Import
<1>2. CASE Users
  BY <1>2, TypedUsers
<1>3. ASSUME NEW w \in Workers, Work(w) PROVE Typed'
  <2>1. CASE Read(w)
    BY <2>1, ReadMoves, MoveOnly DEF Read
  <2>2. CASE CheckIssue(w) \/ JudgeTree(w) \/ WeighResult(w)
    BY <2>2, CheckMoves, MoveOnly
  <2>3. CASE CreateIssue(w, TRUE) \/ RecordIssue(w, TRUE)
    BY <2>3, TypedCreateIssue
  <2>4. CASE InsertIssueHistory(w) \/ ClearIssueInfo(w) \/ EnqueueCreateIssue(w)
    BY <2>4, TypedGivingUpIssue
  <2>5. CASE \/ CreateComment(w, TRUE) \/ StoreCommentId(w)
             \/ UpdateComment(w, TRUE) \/ ClearCommentId(w)
    BY <2>5, TypedComment
  <2>6. CASE Settle(w) \/ MarkSyncFailed(w)
    BY <2>6, TypedDispatcher
  <2>7. CASE \E r \in Runs, t \in Types : Dequeue(w, r, t)
    BY <2>7, TypedDequeue
  <2> QED
    BY <1>3, <2>1, <2>2, <2>3, <2>4, <2>5, <2>6, <2>7 DEF Work, Handle
<1>4. ASSUME NEW w \in Workers, Fault(w) PROVE Typed'
  BY <1>4, TypedCreateIssue, TypedComment, TypedTrouble DEF Fault
<1>5. CASE UNCHANGED vars
  BY <1>5 DEF Typed, TypeOK, vars, github, At, Completed
<1> QED
  BY <1>1, <1>2, <1>3, <1>4, <1>5 DEF Next

LEMMA TypedAlways == Spec => []Typed
  BY TypedInit, TypedStep, PTL DEF Spec

(* Every variable keeps its type: the rows, the jobs, what GitHub holds, and *)
(* what the workers remember of it.                                          *)
THEOREM TypeCorrect == Spec => []TypeOK
  BY TypedAlways, PTL DEF Typed

-----------------------------------------------------------------------------
(* Claims and attempts: a worker that handles a job finds it running; one    *)
(* that is to mark the project holds a create_issue job that is used up.     *)
JobOf(w) == jobs[workers[w].run][workers[w].type]

Claim(s, j) ==
  /\ s.pc \notin {"idle", "mark"} => j.status = "running"
  /\ s.pc = "mark" => /\ j.status \in {"running", "failed"}
                     /\ s.type = "create_issue"
                     /\ j.attempts = MaxAttempts
  /\ s.pc = "record" => s.made # Null
  /\ s.pc = "idle" => s.run = None

Claims ==
  /\ JobsAreBounded
  /\ \A w \in Workers : Claim(workers[w], JobOf(w))

(* A step of a handler, as the jobs see it: it goes on with the same job or  *)
(* lets go of it, and may queue one that did not exist.                      *)
GoesOn(w) ==
  \E v \in Worker :
    /\ Become(w, v)
    /\ v # Idle =>
         /\ workers[w].pc \notin {"idle", "mark"}
         /\ v.pc \notin {"idle", "mark"}
         /\ v.run = workers[w].run /\ v.type = workers[w].type
         /\ v.pc = "record" => v.made # Null

JobsGrow ==
  \A r \in Runs, t \in Types :
    jobs'[r][t] = jobs[r][t] \/ (jobs[r][t].status = "absent" /\ jobs'[r][t] = Queued)

LEMMA GoesOnBy ==
  ASSUME Typed, NEW w \in Workers, ~ At(w, "idle"), ~ At(w, "mark")
  PROVE  /\ \A pc \in (Calling \cup Ignoring) \ {"record"} : Step(w, pc) => GoesOn(w)
         /\ \A pc \in {"record", "store"}, n \in Nat \ {Null} :
              Become(w, [workers[w] EXCEPT !.pc = pc, !.made = n]) => GoesOn(w)
         /\ \A b \in BOOLEAN : Conclude(w, b) => GoesOn(w)
<1> DEFINE me == workers[w]
<1>1. me \in Worker /\ me.pc \notin {"idle", "mark"}
  BY DEF Typed, TypeOK, At
<1>2. ASSUME NEW pc \in (Calling \cup Ignoring) \ {"record"}, Step(w, pc)
      PROVE  GoesOn(w)
  <2> DEFINE v == [me EXCEPT !.pc = pc]
  <2>1. v \in Worker
    BY <1>1, WorkerFields
  <2>2. v.run = me.run /\ v.type = me.type /\ v.pc \notin {"idle", "mark", "record"} /\ Become(w, v)
    BY <1>1, <1>2 DEF Worker, Calling, Ignoring, Step
  <2> HIDE DEF v
  <2> QED
    BY <1>1, <2>1, <2>2 DEF GoesOn
<1>3. ASSUME NEW pc \in {"record", "store"}, NEW n \in Nat \ {Null},
             Become(w, [me EXCEPT !.pc = pc, !.made = n])
      PROVE  GoesOn(w)
  <2> DEFINE v == [me EXCEPT !.pc = pc, !.made = n]
  <2>1. v \in Worker
    BY <1>1, WorkerFields
  <2>2. v.run = me.run /\ v.type = me.type /\ v.pc = pc /\ v.made # Null /\ Become(w, v)
    BY <1>1, <1>3 DEF Worker
  <2> HIDE DEF v
  <2> QED
    BY <1>1, <2>1, <2>2 DEF GoesOn
<1>4. ASSUME NEW b \in BOOLEAN, Conclude(w, b) PROVE GoesOn(w)
  <2> DEFINE v == [Idle EXCEPT !.pc = "settle", !.run = me.run, !.type = me.type, !.completed = b]
  <2>1. v \in Worker
    BY <1>1, WorkerFields
  <2>2. v.run = me.run /\ v.type = me.type /\ v.pc = "settle" /\ Become(w, v)
    BY <1>4 DEF Idle, Conclude
  <2> HIDE DEF v
  <2> QED
    BY <1>1, <2>1, <2>2 DEF GoesOn
<1> QED
  BY <1>2, <1>3, <1>4

LEMMA EnqueueGrows ==
  ASSUME Typed, NEW r \in Runs, NEW t \in Types, Enqueue(r, t) PROVE JobsGrow
<1>1. jobs \in [Runs -> [Types -> Job]]
  BY DEF Typed, TypeOK
<1> QED
  BY <1>1 DEF Enqueue, JobsGrow

(* The steps of a handler and the faults, but for those of the dispatcher    *)
Calls(w) ==
  \/ Read(w) \/ CheckIssue(w) \/ JudgeTree(w) \/ WeighResult(w)
  \/ \E ack \in BOOLEAN : CreateIssue(w, ack) \/ RecordIssue(w, ack)
  \/ InsertIssueHistory(w) \/ ClearIssueInfo(w) \/ EnqueueCreateIssue(w)
  \/ \E ack \in BOOLEAN : CreateComment(w, ack) \/ UpdateComment(w, ack)
  \/ StoreCommentId(w) \/ ClearCommentId(w)
  \/ Fails(w) \/ Abandon(w)
  \/ ~ At(w, "settle") /\ ~ At(w, "mark") /\ Ignored(w)

LEMMA CallsGoOn == ASSUME Typed, NEW w \in Workers, Calls(w) PROVE GoesOn(w)
<1>b. CASE Abandon(w)
  BY <1>b, IdleIsWorker DEF Abandon, GoesOn
<1>n. CASE ~ Abandon(w)
  <2> DEFINE me == workers[w]
  <2>b. ~ At(w, "idle") /\ ~ At(w, "mark") /\ me \in Worker
    BY <1>n DEF Calls, Read, CheckIssue, JudgeTree, WeighResult, CreateIssue, RecordIssue,
       InsertIssueHistory, ClearIssueInfo, EnqueueCreateIssue, CreateComment, UpdateComment,
       StoreCommentId, ClearCommentId, Fails, Ignored, At, Calling, Typed, TypeOK
  <2>s. \A pc \in {"weigh", "post", "edit", "judge", "archive", "clear", "again", "forget"} :
          Step(w, pc) => GoesOn(w)
    BY <2>b, GoesOnBy DEF Calling, Ignoring
  <2>c. \A b \in BOOLEAN : Conclude(w, b) => GoesOn(w)
    BY <2>b, GoesOnBy
  <2>1. CASE Read(w)
    <3> DEFINE shot(pc) == [Snapshot(w) EXCEPT !.pc = pc]
    <3>1. ASSUME NEW pc \in {"create", "check"}, Become(w, shot(pc)) PROVE GoesOn(w)
      <4>1. project \in Project /\ done[Len(done)] \in Runs
        BY <2>b, Busy DEF Typed, TypeOK
      <4>2. shot(pc) \in Worker /\ shot(pc).run = me.run /\ shot(pc).type = me.type
            /\ shot(pc).pc = pc
        BY <2>b, <4>1 DEF Snapshot, Worker, Project, Calling
      <4> HIDE DEF shot
      <4> QED
        BY <3>1, <2>b, <4>2 DEF GoesOn, At
    <3> QED
      BY <2>1, <2>c, <3>1 DEF Read
  <2>2. CASE CheckIssue(w) \/ JudgeTree(w) \/ WeighResult(w)
    <3>1. CASE CheckIssue(w)
      BY <2>s, <2>c, <3>1 DEF CheckIssue
    <3>2. CASE JudgeTree(w) \/ WeighResult(w)
      BY <2>s, <2>c, <3>2 DEF JudgeTree, WeighResult
    <3> QED
      BY <2>2, <3>1, <3>2
  <2>3. ASSUME NEW ack \in BOOLEAN, CreateIssue(w, ack) \/ RecordIssue(w, ack) PROVE GoesOn(w)
    <3>1. CASE CreateIssue(w, ack)
      <4>1. issues' = Append(issues, "open") /\ issues \in Seq(IssueState) /\ "open" \in IssueState
        BY <3>1 DEF CreateIssue, Typed, TypeOK, IssueState
      <4>2. Len(issues') \in Nat \ {Null}
        BY <4>1 DEF Null
      <4> QED
        BY <2>b, <2>c, <3>1, <4>2, GoesOnBy DEF CreateIssue
    <3>2. CASE RecordIssue(w, ack)
      BY <2>c, <3>2 DEF RecordIssue
    <3> QED
      BY <2>3, <3>1, <3>2
  <2>4. CASE InsertIssueHistory(w) \/ ClearIssueInfo(w) \/ EnqueueCreateIssue(w)
    BY <2>4, <2>s, <2>c DEF InsertIssueHistory, ClearIssueInfo, EnqueueCreateIssue
  <2>5. ASSUME NEW ack \in BOOLEAN, CreateComment(w, ack) PROVE GoesOn(w)
    <3> DEFINE new == [on |-> me.issue, shows |-> me.latest]
    <3>1. CASE Conclude(w, ack) \/ Conclude(w, FALSE)
      BY <2>c, <3>1
    <3>2. CASE /\ comments' = Append(comments, new)
               /\ Become(w, [me EXCEPT !.pc = "store", !.made = Len(comments')])
      <4>1. new \in Comment /\ comments \in Seq(Comment)
        BY <2>b, Busy DEF Comment, Typed, TypeOK
      <4> HIDE DEF new
      <4>2. Len(comments') \in Nat \ {Null}
        BY <3>2, <4>1 DEF Null
      <4> QED
        BY <2>b, <3>2, <4>2, GoesOnBy
    <3> QED
      BY <2>5, <3>1, <3>2 DEF CreateComment
  <2>6. ASSUME NEW ack \in BOOLEAN, UpdateComment(w, ack) PROVE GoesOn(w)
    BY <2>6, <2>s, <2>c DEF UpdateComment
  <2>7. CASE StoreCommentId(w) \/ ClearCommentId(w) \/ Fails(w)
    BY <2>7, <2>s, <2>c DEF StoreCommentId, ClearCommentId, Fails
  <2>8. CASE ~ At(w, "settle") /\ ~ At(w, "mark") /\ Ignored(w)
    BY <2>8, <2>s, <2>c DEF Ignored
  <2> QED
    BY <1>n, <2>1, <2>2, <2>3, <2>4, <2>5, <2>6, <2>7, <2>8 DEF Calls
<1> QED
  BY <1>b, <1>n

LEMMA CallsGrow == ASSUME Typed, NEW w \in Workers, Calls(w) PROVE JobsGrow
<1>1. CASE UNCHANGED jobs
  BY <1>1 DEF JobsGrow
<1>2. ASSUME NEW ack \in BOOLEAN, RecordIssue(w, ack) PROVE JobsGrow
  <2>1. ~ At(w, "idle") /\ "create_dashboard_comment" \in Types
    BY <1>2 DEF RecordIssue, At, Types
  <2> QED
    BY <1>2, <2>1, Busy, EnqueueGrows DEF RecordIssue, JobsGrow
<1>3. CASE EnqueueCreateIssue(w)
  <2>1. ~ At(w, "idle") /\ "create_issue" \in Types
    BY <1>3 DEF EnqueueCreateIssue, At, Types
  <2> QED
    BY <1>3, <2>1, Busy, EnqueueGrows DEF EnqueueCreateIssue
<1> QED
  BY <1>1, <1>2, <1>3 DEF Calls, Read, CheckIssue, JudgeTree, WeighResult, CreateIssue,
     InsertIssueHistory, ClearIssueInfo, CreateComment, UpdateComment, StoreCommentId,
     ClearCommentId, Fails, Abandon, Ignored

(* One worker moves, to a job that no other worker handles, and the jobs of  *)
(* the others stay as they are.                                              *)
LEMMA OneMoves ==
  ASSUME Typed, Claims, NEW w \in Workers, NEW s \in Worker, Become(w, s),
         s # Idle => /\ s.pc # "idle" /\ s.run \in Runs
                     /\ \A v \in Workers \ {w} :
                          ~ (workers[v].run = s.run /\ workers[v].type = s.type),
         s.pc # "idle" => Claim(s, jobs'[s.run][s.type]),
         \A v \in Workers \ {w} :
           ~ At(v, "idle") => jobs'[workers[v].run][workers[v].type] = JobOf(v),
         \A r \in Runs, t \in Types :
           /\ jobs'[r][t].attempts <= MaxAttempts
           /\ jobs'[r][t].status = "failed" => jobs'[r][t].attempts = MaxAttempts
  PROVE  Claims'
<1>1. \A v \in Workers : workers'[v] = IF v = w THEN s ELSE workers[v]
  BY DEF Become, Typed, TypeOK
<1>2. Idle.pc = "idle" /\ Idle.run = None
  BY DEF Idle
<1>3. ASSUME NEW v \in Workers, NEW u \in Workers, ~ At(v, "idle")',
             workers'[v].run = workers'[u].run, workers'[v].type = workers'[u].type
      PROVE  v = u
  <2>1. workers'[v].pc # "idle"
    BY <1>3 DEF At
  <2>2. workers'[v].run \in Runs /\ workers'[v].run # None
    <3>1. CASE v = w
      BY <1>1, <1>2, <2>1, <3>1, NoneAssumption
    <3>2. CASE v # w
      BY <1>1, <2>1, <3>2, NoneAssumption DEF Typed, At
    <3> QED
      BY <3>1, <3>2
  <2>3. CASE v = w /\ u # w
    <3>1. s # Idle /\ workers[u].run = s.run /\ workers[u].type = s.type
      BY <1>1, <1>2, <1>3, <2>1, <2>3
    <3> QED
      BY <2>3, <3>1
  <2>4. CASE v # w /\ u = w
    <3>1. workers[v].run = s.run /\ workers[v].type = s.type /\ s.run # None
      BY <1>1, <1>3, <2>2, <2>4
    <3> QED
      BY <1>2, <2>4, <3>1
  <2>5. CASE v # w /\ u # w
    <3>1. ~ At(v, "idle") /\ workers[v].run = workers[u].run /\ workers[v].type = workers[u].type
      BY <1>1, <1>3, <2>1, <2>5 DEF At
    <3> QED
      BY <3>1 DEF Claims, JobsAreBounded
  <2> QED
    BY <2>3, <2>4, <2>5
<1>4. ASSUME NEW v \in Workers PROVE Claim(workers'[v], jobs'[workers'[v].run][workers'[v].type])
  <2>1. CASE v = w /\ s.pc # "idle"
    BY <1>1, <2>1
  <2>2. CASE v = w /\ s.pc = "idle"
    BY <1>1, <1>2, <2>2 DEF Claim
  <2>3. CASE v # w
    <3>1. Claim(workers[v], JobOf(v)) /\ workers'[v] = workers[v]
      BY <1>1, <2>3 DEF Claims
    <3>2. CASE At(v, "idle")
      BY <3>1, <3>2 DEF Claim, At
    <3>3. CASE ~ At(v, "idle")
      BY <2>3, <3>1, <3>3
    <3> QED
      BY <3>2, <3>3
  <2> QED
    BY <2>1, <2>2, <2>3
<1>5. \A v \in Workers : Claim(workers[v], JobOf(v))'
  BY <1>4 DEF Claim, JobOf
<1>6. JobsAreBounded'
  BY <1>3 DEF JobsAreBounded
<1> QED
  BY <1>5, <1>6 DEF Claims

LEMMA HeldByOne ==
  ASSUME Claims, NEW w \in Workers, ~ At(w, "idle")
  PROVE  \A v \in Workers \ {w} :
           ~ (workers[v].run = workers[w].run /\ workers[v].type = workers[w].type)
  BY DEF Claims, JobsAreBounded

LEMMA ClaimsCalls == ASSUME Typed, Claims, NEW w \in Workers, Calls(w) PROVE Claims'
<1>1. JobsGrow /\ GoesOn(w)
  BY CallsGrow, CallsGoOn
<1>2. PICK s \in Worker :
        /\ Become(w, s)
        /\ s # Idle => /\ workers[w].pc \notin {"idle", "mark"} /\ s.pc \notin {"idle", "mark"}
                       /\ s.run = workers[w].run /\ s.type = workers[w].type
                       /\ s.pc = "record" => s.made # Null
  BY <1>1 DEF GoesOn
<1>3. \A r \in Runs, t \in Types :
        /\ jobs'[r][t].attempts <= MaxAttempts
        /\ jobs'[r][t].status = "failed" => jobs'[r][t].attempts = MaxAttempts
  BY <1>1, MaxAttemptsAssumption DEF JobsGrow, Claims, JobsAreBounded, Queued
<1>4. \A v \in Workers :
        ~ At(v, "idle") => /\ JobOf(v).status # "absent"
                           /\ jobs'[workers[v].run][workers[v].type] = JobOf(v)
  <2> SUFFICES ASSUME NEW v \in Workers, ~ At(v, "idle")
               PROVE  /\ JobOf(v).status # "absent"
                      /\ jobs'[workers[v].run][workers[v].type] = JobOf(v)
    OBVIOUS
  <2>1. JobOf(v).status # "absent"
    BY DEF Claims, Claim, At
  <2>2. workers[v].run \in Runs /\ workers[v].type \in Types
    BY Busy
  <2> QED
    BY <1>1, <2>1, <2>2 DEF JobsGrow, JobOf
<1>5. s # Idle => /\ s.pc # "idle" /\ s.run \in Runs
                  /\ \A v \in Workers \ {w} :
                       ~ (workers[v].run = s.run /\ workers[v].type = s.type)
  BY <1>2, Busy, HeldByOne DEF At
<1>6. s.pc # "idle" => Claim(s, jobs'[s.run][s.type])
  <2> SUFFICES ASSUME s.pc # "idle" PROVE Claim(s, jobs'[s.run][s.type])
    OBVIOUS
  <2>1. s # Idle /\ ~ At(w, "idle") /\ ~ At(w, "mark")
    BY <1>2, IdleIsWorker DEF At
  <2>2. jobs'[s.run][s.type] = JobOf(w)
    BY <1>2, <1>4, <2>1
  <2>3. JobOf(w).status = "running"
    BY <2>1 DEF Claims, Claim, At
  <2> QED
    BY <1>2, <2>1, <2>2, <2>3 DEF Claim
<1> QED
  BY <1>2, <1>3, <1>4, <1>5, <1>6, OneMoves

(* The jobs after a step that changes only the one of worker w               *)
LEMMA OwnJobOnly ==
  ASSUME Typed, Claims, NEW w \in Workers, ~ At(w, "idle"), NEW j,
         jobs' = [jobs EXCEPT ![workers[w].run][workers[w].type] = j],
         j.attempts <= MaxAttempts, j.status = "failed" => j.attempts = MaxAttempts
  PROVE  /\ jobs'[workers[w].run][workers[w].type] = j
         /\ \A v \in Workers \ {w} :
              ~ At(v, "idle") => jobs'[workers[v].run][workers[v].type] = JobOf(v)
         /\ \A r \in Runs, t \in Types :
              /\ jobs'[r][t].attempts <= MaxAttempts
              /\ jobs'[r][t].status = "failed" => jobs'[r][t].attempts = MaxAttempts
<1>1. workers[w].run \in Runs /\ workers[w].type \in Types /\ jobs \in [Runs -> [Types -> Job]]
  BY Busy DEF Typed, TypeOK
<1>2. \A r \in Runs, t \in Types :
        jobs'[r][t] = IF r = workers[w].run /\ t = workers[w].type THEN j ELSE jobs[r][t]
  BY <1>1
<1>3. ASSUME NEW v \in Workers \ {w}, ~ At(v, "idle")
      PROVE  jobs'[workers[v].run][workers[v].type] = JobOf(v)
  <2>1. workers[v].run \in Runs /\ workers[v].type \in Types
    BY <1>3, Busy
  <2> QED
    BY <1>2, <2>1, HeldByOne DEF JobOf
<1> QED
  BY <1>1, <1>2, <1>3 DEF Claims, JobsAreBounded

LEMMA ClaimsSettle ==
  ASSUME Typed, Claims, NEW w \in Workers, At(w, "settle"), AfterSettle(w),
         UNCHANGED jobs \/ JobStatus(w, IF workers[w].completed THEN "completed"
                                        ELSE IF GivesUp(w) THEN "failed" ELSE "pending")
  PROVE  Claims'
<1> DEFINE me == workers[w]
           s == [me EXCEPT !.pc = "mark"]
           status == IF me.completed THEN "completed" ELSE IF GivesUp(w) THEN "failed" ELSE "pending"
<1>1. ~ At(w, "idle") /\ me \in Worker /\ me.run \in Runs /\ me.type \in Types
      /\ JobOf(w) \in Job /\ jobs \in [Runs -> [Types -> Job]]
  BY Busy DEF At, Typed, TypeOK, JobOf
<1>2. JobOf(w).status = "running" /\ JobOf(w).attempts <= MaxAttempts /\ JobOf(w).attempts \in Nat
  BY <1>1 DEF Claims, Claim, At, JobsAreBounded, JobOf, Job
<1>3. GivesUp(w) => JobOf(w).attempts = MaxAttempts /\ ~ me.completed
  BY <1>2, MaxAttemptsAssumption DEF GivesUp, JobOf
<1>4. PICK j : /\ jobs' = [jobs EXCEPT ![me.run][me.type] = j]
               /\ j.attempts = JobOf(w).attempts
               /\ j.status \in {"running", "completed", "failed", "pending"}
               /\ j.status = "failed" => GivesUp(w)
               /\ GivesUp(w) => j.status \in {"running", "failed"}
  <2>1. CASE UNCHANGED jobs
    <3>1. jobs' = [jobs EXCEPT ![me.run][me.type] = JobOf(w)]
      BY <1>1, <2>1 DEF JobOf
    <3> QED
      BY <1>2, <3>1
  <2>2. CASE JobStatus(w, status)
    <3> DEFINE k == [JobOf(w) EXCEPT !.status = status]
    <3>1. jobs' = [jobs EXCEPT ![me.run][me.type] = k]
      BY <2>2 DEF JobStatus, JobOf
    <3>2. k.attempts = JobOf(w).attempts /\ k.status = status
      BY <1>1 DEF Job
    <3>3. /\ status \in {"running", "completed", "failed", "pending"}
          /\ status = "failed" => GivesUp(w)
          /\ GivesUp(w) => status \in {"running", "failed"}
      BY <1>3
    <3> HIDE DEF k, status
    <3> QED
      BY <3>1, <3>2, <3>3
  <2> QED
    BY <2>1, <2>2
<1>5. /\ jobs'[me.run][me.type] = j
      /\ \A v \in Workers \ {w} :
           ~ At(v, "idle") => jobs'[workers[v].run][workers[v].type] = JobOf(v)
      /\ \A r \in Runs, t \in Types :
           /\ jobs'[r][t].attempts <= MaxAttempts
           /\ jobs'[r][t].status = "failed" => jobs'[r][t].attempts = MaxAttempts
  <2>1. j.attempts <= MaxAttempts /\ (j.status = "failed" => j.attempts = MaxAttempts)
    BY <1>2, <1>3, <1>4
  <2>2. jobs' = [jobs EXCEPT ![workers[w].run][workers[w].type] = j]
    BY <1>4
  <2> HIDE DEF me, s, status
  <2>3. /\ jobs'[workers[w].run][workers[w].type] = j
        /\ \A v \in Workers \ {w} :
             ~ At(v, "idle") => jobs'[workers[v].run][workers[v].type] = JobOf(v)
        /\ \A r \in Runs, t \in Types :
             /\ jobs'[r][t].attempts <= MaxAttempts
             /\ jobs'[r][t].status = "failed" => jobs'[r][t].attempts = MaxAttempts
    BY <1>1, <2>1, <2>2, OwnJobOnly
  <2> QED
    BY <2>3 DEF me
<1>6. CASE Become(w, Idle)
  BY <1>5, <1>6, IdleIsWorker, OneMoves
<1>7. CASE GivesUp(w) /\ me.type = "create_issue" /\ Step(w, "mark")
  <2>1. s \in Worker /\ s.pc = "mark" /\ s.run = me.run /\ s.type = me.type /\ Become(w, s)
    BY <1>1, <1>7, WorkerFields DEF Worker, Step
  <2> HIDE DEF s
  <2>2. Claim(s, j)
    BY <1>3, <1>4, <1>7, <2>1 DEF Claim
  <2> QED
    BY <1>1, <1>5, <2>1, <2>2, HeldByOne, OneMoves
<1> QED
  BY <1>6, <1>7 DEF AfterSettle

LEMMA ClaimsDispatcher ==
  ASSUME Typed, Claims, NEW w \in Workers,
         \/ Settle(w) \/ MarkSyncFailed(w)
         \/ (At(w, "settle") \/ At(w, "mark")) /\ Ignored(w)
  PROVE  Claims'
<1>1. CASE Settle(w)
  BY <1>1, ClaimsSettle DEF Settle
<1>2. CASE At(w, "settle") /\ Ignored(w)
  BY <1>2, ClaimsSettle DEF Ignored, At
<1>3. CASE Become(w, Idle) /\ UNCHANGED jobs
  <2>1. \A v \in Workers \ {w} : jobs'[workers[v].run][workers[v].type] = JobOf(v)
    BY <1>3 DEF JobOf
  <2>2. \A r \in Runs, t \in Types :
          /\ jobs'[r][t].attempts <= MaxAttempts
          /\ jobs'[r][t].status = "failed" => jobs'[r][t].attempts = MaxAttempts
    BY <1>3 DEF Claims, JobsAreBounded
  <2> QED
    BY <1>3, <2>1, <2>2, IdleIsWorker, OneMoves
<1>4. MarkSyncFailed(w) => Become(w, Idle) /\ UNCHANGED jobs
  BY DEF MarkSyncFailed
<1>5. At(w, "mark") /\ Ignored(w) => Become(w, Idle) /\ UNCHANGED jobs
  BY DEF Ignored, At
<1> QED
  BY <1>1, <1>2, <1>3, <1>4, <1>5

LEMMA ClaimsDequeue ==
  ASSUME Typed, Claims, NEW w \in Workers, NEW r \in Runs, NEW t \in Types, Dequeue(w, r, t)
  PROVE  Claims'
<1> DEFINE s == [Idle EXCEPT !.pc = "read", !.run = r, !.type = t]
           j == [status |-> "running", attempts |-> jobs[r][t].attempts + 1]
<1>1. s \in Worker /\ s.pc = "read" /\ s.run = r /\ s.type = t
  BY DEF Worker, Idle, Calling, Null
<1>2. jobs[r][t] \in Job /\ jobs \in [Runs -> [Types -> Job]] /\ jobs[r][t].status = "pending"
      /\ jobs[r][t].attempts < MaxAttempts
  BY DEF Dequeue, Typed, TypeOK
<1>3. j.attempts <= MaxAttempts /\ j.status = "running"
  BY <1>2, MaxAttemptsAssumption DEF Job
<1>4. Become(w, s) /\ jobs' = [jobs EXCEPT ![r][t] = j]
  BY DEF Dequeue
<1> HIDE DEF s, j
<1>5. \A q \in Runs, u \in Types : jobs'[q][u] = IF q = r /\ u = t THEN j ELSE jobs[q][u]
  BY <1>2, <1>4
<1>6. ASSUME NEW v \in Workers \ {w}
      PROVE  /\ ~ (workers[v].run = r /\ workers[v].type = t)
             /\ ~ At(v, "idle") => jobs'[workers[v].run][workers[v].type] = JobOf(v)
  <2>1. CASE At(v, "idle")
    BY <2>1, NoneAssumption DEF Claims, Claim, At
  <2>2. CASE ~ At(v, "idle")
    <3>1. workers[v].run \in Runs /\ workers[v].type \in Types
      BY <2>2, Busy
    <3>2. JobOf(v).status # "pending"
      BY <2>2 DEF Claims, Claim, At
    <3> QED
      BY <1>2, <1>5, <3>1, <3>2 DEF JobOf
  <2> QED
    BY <2>1, <2>2
<1>7. Claim(s, j)
  BY <1>1, <1>3 DEF Claim
<1>8. \A q \in Runs, u \in Types :
        /\ jobs'[q][u].attempts <= MaxAttempts
        /\ jobs'[q][u].status = "failed" => jobs'[q][u].attempts = MaxAttempts
  BY <1>3, <1>5 DEF Claims, JobsAreBounded
<1> QED
  BY <1>1, <1>4, <1>5, <1>6, <1>7, <1>8, OneMoves

(* The jobs of a run exist only once it is completed.                        *)
LEMMA CompleteGrows ==
  ASSUME Typed, NEW w \in Workers, NEW r \in Runs, Complete(w, r)
  PROVE  \A q \in Runs, t \in Types :
           \/ jobs'[q][t] = jobs[q][t]
           \/ jobs[q][t].status = "absent" /\ jobs'[q][t] \in {Queued, NoJob}
<1> DEFINE fresh == [t \in Types |-> IF t \in FollowUps THEN Queued ELSE NoJob]
<1>1. \A t \in Types : fresh[t] \in {Queued, NoJob}
  OBVIOUS
<1>2. jobs' = [jobs EXCEPT ![r] = fresh] /\ jobs \in [Runs -> [Types -> Job]]
  BY DEF Complete, Typed, TypeOK
<1> HIDE DEF fresh
<1>3. \A t \in Types : jobs[r][t].status = "absent"
  BY DEF Complete, Typed
<1> QED
  BY <1>1, <1>2, <1>3

(* Steps that move no worker                                                 *)
LEMMA ClaimsStill ==
  ASSUME Typed, Claims, UNCHANGED workers,
         \A q \in Runs, t \in Types :
           \/ jobs'[q][t] = jobs[q][t]
           \/ jobs[q][t].status = "absent" /\ jobs'[q][t] \in {Queued, NoJob}
  PROVE  Claims'
<1>1. ASSUME NEW v \in Workers PROVE Claim(workers[v], jobs'[workers[v].run][workers[v].type])
  <2>1. Claim(workers[v], JobOf(v))
    BY DEF Claims
  <2>2. CASE At(v, "idle")
    BY <2>1, <2>2 DEF Claim, At
  <2>3. CASE ~ At(v, "idle")
    <3>1. workers[v].run \in Runs /\ workers[v].type \in Types
      BY <2>3, Busy
    <3>2. JobOf(v).status # "absent"
      BY <2>1, <2>3 DEF Claim, At
    <3> QED
      BY <2>1, <3>1, <3>2 DEF JobOf
  <2> QED
    BY <2>2, <2>3
<1>2. \A v \in Workers : Claim(workers[v], JobOf(v))'
  BY <1>1 DEF Claim, JobOf
<1>3. \A q \in Runs, t \in Types :
        /\ jobs'[q][t].attempts <= MaxAttempts
        /\ jobs'[q][t].status = "failed" => jobs'[q][t].attempts = MaxAttempts
  BY MaxAttemptsAssumption DEF Claims, JobsAreBounded, Queued, NoJob
<1>4. JobsAreBounded'
  BY <1>3 DEF Claims, JobsAreBounded, At
<1> QED
  BY <1>2, <1>4 DEF Claims

LEMMA ClaimsInit == Init => Claims
  BY MaxAttemptsAssumption, NoneAssumption
  DEF Init, Claims, Claim, JobsAreBounded, NoJob, Idle, At, JobOf, Types

(* Every step of a worker is one of these.                                   *)
LEMMA WorkerSteps ==
  ASSUME NEW w \in Workers, Work(w) \/ Fault(w)
  PROVE  \/ Calls(w)
         \/ \/ Settle(w) \/ MarkSyncFailed(w)
            \/ (At(w, "settle") \/ At(w, "mark")) /\ Ignored(w)
         \/ \E r \in Runs, t \in Types : Dequeue(w, r, t)
  BY DEF Work, Handle, Fault, Calls

LEMMA ClaimsStep == Typed /\ Claims /\ [Next]_vars => Claims'
<1> SUFFICES ASSUME Typed, Claims, [Next]_vars PROVE Claims'
  OBVIOUS
<1>1. ASSUME NEW w \in Workers, NEW r \in Runs, Complete(w, r) PROVE Claims'
  <2>1. UNCHANGED workers
    BY <1>1 DEF Complete
  <2> QED
    BY <1>1, <2>1, CompleteGrows, ClaimsStill
<1>2. CASE Users \/ UNCHANGED vars
  <2>1. UNCHANGED <<jobs, workers>>
    BY <1>2 DEF Users, CloseIssue, ReopenIssue, DeleteIssue, DeleteComment, ours, vars
  <2> QED
    BY <2>1, ClaimsStill
<1>3. ASSUME NEW w \in Workers, Work(w) \/ Fault(w) PROVE Claims'
  BY <1>3, WorkerSteps, ClaimsCalls, ClaimsDispatcher, ClaimsDequeue
<1> QED
  BY <1>1, <1>2, <1>3 DEF Next, Import

LEMMA ClaimsAlways == Spec => [](Typed /\ Claims)
<1>1. Init => Typed /\ Claims
  BY TypedInit, ClaimsInit
<1>2. Typed /\ Claims /\ [Next]_vars => (Typed /\ Claims)'
  BY TypedStep, ClaimsStep
<1> QED
  BY <1>1, <1>2, PTL DEF Spec

(* No job is taken more often than MAX_ATTEMPTS nor given up before, and no  *)
(* two workers handle the same one: the claim in dequeue, the count of the   *)
(* attempts and the dispatcher's outcome agree, whatever fails between them. *)
THEOREM JobsBounded == Spec => []JobsAreBounded
  BY ClaimsAlways, PTL DEF Claims

-----------------------------------------------------------------------------
(* The issue and the sync status                                             *)

(* What a step may do to the row's issue and sync status                     *)
RowStep ==
  \/ project'.issue = project.issue /\ project'.sync = project.sync
  \/ \E w \in Workers :
       /\ At(w, "record") /\ project.issue = Null
       /\ project'.issue = workers[w].made /\ project'.sync = "synced"
  \/ project'.issue = Null /\ project'.sync = "pending"
  \/ \E w \in Workers :
       /\ At(w, "mark") /\ project'.issue = project.issue /\ project'.sync = "failed"

LEMMA RowSteps == Typed /\ [Next]_vars => RowStep
<1> SUFFICES ASSUME Typed, [Next]_vars PROVE RowStep
  OBVIOUS
<1>p. project \in Project
  BY DEF Typed, TypeOK
<1>0. CASE UNCHANGED project
  BY <1>0 DEF RowStep
<1>1. ASSUME NEW w \in Workers, NEW ack \in BOOLEAN, RecordIssue(w, ack) PROVE RowStep
  BY <1>p, <1>1 DEF RecordIssue, RowStep, Project
<1>2. ASSUME NEW w \in Workers, ClearIssueInfo(w) PROVE RowStep
  BY <1>p, <1>2 DEF ClearIssueInfo, RowStep, Project
<1>3. ASSUME NEW w \in Workers, StoreCommentId(w) \/ ClearCommentId(w) PROVE RowStep
  BY <1>p, <1>3 DEF StoreCommentId, ClearCommentId, RowStep, Project
<1>4. ASSUME NEW w \in Workers, MarkSyncFailed(w) PROVE RowStep
  BY <1>p, <1>4 DEF MarkSyncFailed, RowStep, Project
<1>5. ASSUME NEW w \in Workers, Work(w) \/ Fault(w) PROVE RowStep
  <2>1. CASE \/ \E ack \in BOOLEAN : RecordIssue(w, ack)
             \/ ClearIssueInfo(w) \/ StoreCommentId(w) \/ ClearCommentId(w) \/ MarkSyncFailed(w)
    BY <1>1, <1>2, <1>3, <1>4, <2>1
  <2>2. \/ UNCHANGED project
        \/ \E ack \in BOOLEAN : RecordIssue(w, ack)
        \/ ClearIssueInfo(w) \/ StoreCommentId(w) \/ ClearCommentId(w) \/ MarkSyncFailed(w)
    BY <1>5 DEF Work, Handle, Fault, Read, CheckIssue, JudgeTree, WeighResult, CreateIssue,
       InsertIssueHistory, EnqueueCreateIssue, CreateComment, UpdateComment, Settle, Dequeue,
       Fails, Ignored, Abandon
  <2> QED
    BY <1>0, <2>1, <2>2
<1>6. Import \/ Users \/ UNCHANGED vars => UNCHANGED project
  BY DEF Import, Complete, Users, CloseIssue, ReopenIssue, DeleteIssue, DeleteComment, ours, vars
<1> QED
  BY <1>0, <1>5, <1>6 DEF Next

(* The issue of the project is never replaced by another: the second look    *)
(* under the lock (create_issue.rs, phase 3) suffices, whatever the number   *)
(* of workers, lost answers and cleared issues.                              *)
THEOREM IssueNotReplaced == Spec => IssueIsKept
<1>1. Typed /\ [Next]_vars
        => [project.issue # Null => project'.issue \in {project.issue, Null}]_vars
  BY RowSteps DEF RowStep
<1> QED
  BY <1>1, TypedAlways, PTL DEF Spec, IssueIsKept

(* A create_issue job that has used up its attempts stays as it is.          *)
UsedUp ==
  \E r \in Runs : /\ jobs[r]["create_issue"].attempts = MaxAttempts
                  /\ jobs[r]["create_issue"].status # "absent"

LEMMA UsedUpStays == Typed /\ Claims /\ UsedUp /\ [Next]_vars => UsedUp'
<1> SUFFICES ASSUME Typed, Claims, UsedUp, [Next]_vars PROVE UsedUp'
  OBVIOUS
<1> DEFINE c == "create_issue"
<1>1. PICK r \in Runs : jobs[r][c].attempts = MaxAttempts /\ jobs[r][c].status # "absent"
  BY DEF UsedUp
<1>2. c \in Types /\ jobs \in [Runs -> [Types -> Job]]
  BY DEF Types, Typed, TypeOK
<1>3. CASE jobs'[r][c] = jobs[r][c]
  BY <1>1, <1>3 DEF UsedUp
<1>4. ASSUME NEW w \in Workers, NEW q \in Runs, Complete(w, q) PROVE jobs'[r][c] = jobs[r][c]
  BY <1>1, <1>2, <1>4, CompleteGrows
<1>5. ASSUME NEW w \in Workers, Calls(w) PROVE jobs'[r][c] = jobs[r][c]
  BY <1>1, <1>2, <1>5, CallsGrow DEF JobsGrow
<1>6. ASSUME NEW w \in Workers, NEW q \in Runs, NEW t \in Types, Dequeue(w, q, t)
      PROVE  jobs'[r][c] = jobs[r][c]
  <2>1. jobs[r][c].status # "pending"
    BY <1>1, <1>2, MaxAttemptsAssumption DEF Typed
  <2> QED
    BY <1>2, <1>6, <2>1 DEF Dequeue
<1>7. ASSUME NEW w \in Workers, Settle(w) PROVE UsedUp'
  <2>1. PICK s \in {"completed", "failed", "pending"} : JobStatus(w, s)
    BY <1>7 DEF Settle
  <2>2. /\ jobs'[r][c].attempts = jobs[r][c].attempts
        /\ jobs'[r][c].status \in {jobs[r][c].status, s}
    <3>1. jobs[r][c] \in Job /\ workers[w].run \in Runs /\ workers[w].type \in Types
      BY <1>2, <1>7, Busy DEF Settle, At
    <3> QED
      BY <1>2, <2>1, <3>1 DEF JobStatus, Job
  <2> QED
    BY <1>1, <2>2 DEF UsedUp
<1>8. ASSUME NEW w \in Workers, MarkSyncFailed(w) \/ Ignored(w)
      PROVE  jobs'[r][c] = jobs[r][c]
  BY <1>8 DEF MarkSyncFailed, Ignored
<1>9. Users \/ UNCHANGED vars => jobs'[r][c] = jobs[r][c]
  BY DEF Users, CloseIssue, ReopenIssue, DeleteIssue, DeleteComment, ours, vars
<1>10. ASSUME NEW w \in Workers, Work(w) \/ Fault(w) PROVE UsedUp'
  BY <1>3, <1>5, <1>6, <1>7, <1>8, <1>10, WorkerSteps
<1> QED
  BY <1>3, <1>4, <1>9, <1>10 DEF Next, Import

SyncIsTrue ==
  /\ project.sync = "synced" => project.issue # Null
  /\ project.sync = "pending" => project.issue = Null
  /\ project.sync = "failed" => UsedUp

LEMMA SyncStep == Typed /\ Claims /\ SyncIsTrue /\ [Next]_vars => SyncIsTrue'
<1> SUFFICES ASSUME Typed, Claims, SyncIsTrue, [Next]_vars PROVE SyncIsTrue'
  OBVIOUS
<1>1. RowStep
  BY RowSteps
<1>2. UsedUp => UsedUp'
  BY UsedUpStays
<1>3. CASE project'.issue = project.issue /\ project'.sync = project.sync
  BY <1>2, <1>3 DEF SyncIsTrue
<1>4. ASSUME NEW w \in Workers, At(w, "record"), project.issue = Null,
             project'.issue = workers[w].made, project'.sync = "synced"
      PROVE  SyncIsTrue'
  BY <1>4 DEF SyncIsTrue, Claims, Claim, At
<1>5. CASE project'.issue = Null /\ project'.sync = "pending"
  BY <1>5 DEF SyncIsTrue
<1>6. ASSUME NEW w \in Workers, At(w, "mark"), project'.sync = "failed"
      PROVE  SyncIsTrue'
  <2>1. /\ JobOf(w).status \in {"running", "failed"} /\ JobOf(w).attempts = MaxAttempts
        /\ workers[w].type = "create_issue"
    BY <1>6 DEF Claims, Claim, At
  <2>2. workers[w].run \in Runs
    BY <1>6, Busy DEF At
  <2>3. UsedUp
    BY <2>1, <2>2 DEF UsedUp, JobOf
  <2> QED
    BY <1>2, <1>6, <2>3 DEF SyncIsTrue
<1> QED
  BY <1>1, <1>3, <1>4, <1>5, <1>6 DEF RowStep

(* The sync status that the web UI shows agrees with the issue of the row,   *)
(* and "failed" is only ever set once a create_issue job is given up: the    *)
(* claims of the workers tie the mark to the job it is about.                *)
THEOREM SyncStatusTrue == Spec => []SyncStatusIsTrue
<1>1. Init => SyncIsTrue
  BY DEF Init, SyncIsTrue, Null
<1>2. SyncIsTrue => SyncStatusIsTrue
  BY DEF SyncIsTrue, UsedUp, SyncStatusIsTrue
<1> QED
  BY <1>1, <1>2, SyncStep, ClaimsAlways, PTL DEF Spec

-----------------------------------------------------------------------------
(* The dashboard with one worker                                             *)

\* No comment moves to another issue.
CommentsStay ==
  \A c \in DOMAIN comments : c \in DOMAIN comments' /\ comments'[c].on = comments[c].on

LEMMA EditsStay ==
  ASSUME comments \in Seq(Comment)
  PROVE  /\ \A c, x : comments' = [comments EXCEPT ![c].shows = x] => CommentsStay
         /\ \A i : comments' = [c \in DOMAIN comments |->
                                  IF comments[c].on = i THEN [comments[c] EXCEPT !.shows = None]
                                  ELSE comments[c]] => CommentsStay
         /\ \A k \in Comment : comments' = Append(comments, k) =>
              /\ CommentsStay
              /\ Len(comments') \in DOMAIN comments' /\ comments'[Len(comments')] = k
<1>1. /\ Len(comments) \in Nat /\ DOMAIN comments = 1..Len(comments)
      /\ \A c \in 1..Len(comments) : comments[c] \in Comment
      /\ comments = [c \in 1..Len(comments) |-> comments[c]]
  OBVIOUS
<1>2. \A x : \A k \in Comment : [k EXCEPT !.shows = x].on = k.on
  BY DEF Comment
<1>3. ASSUME NEW c, NEW x, comments' = [comments EXCEPT ![c].shows = x] PROVE CommentsStay
  BY <1>1, <1>2, <1>3 DEF CommentsStay
<1>4. ASSUME NEW i, comments' = [c \in DOMAIN comments |->
                                  IF comments[c].on = i THEN [comments[c] EXCEPT !.shows = None]
                                  ELSE comments[c]]
      PROVE  CommentsStay
  BY <1>1, <1>2, <1>4 DEF CommentsStay
<1>5. ASSUME NEW k \in Comment, comments' = Append(comments, k)
      PROVE  /\ CommentsStay
             /\ Len(comments') \in DOMAIN comments' /\ comments'[Len(comments')] = k
  BY <1>1, <1>5 DEF CommentsStay
<1> QED
  BY <1>3, <1>4, <1>5

LEMMA CommentsAreNotMoved == Typed /\ [Next]_vars => CommentsStay
<1> SUFFICES ASSUME Typed, [Next]_vars PROVE CommentsStay
  OBVIOUS
<1>t. comments \in Seq(Comment)
  BY DEF Typed, TypeOK
<1>0. CASE UNCHANGED comments
  BY <1>0 DEF CommentsStay
<1>1. ASSUME NEW w \in Workers, NEW ack \in BOOLEAN, CreateComment(w, ack) PROVE CommentsStay
  <2> DEFINE new == [on |-> workers[w].issue, shows |-> workers[w].latest]
  <2>1. new \in Comment
    BY <1>1, Busy DEF Comment, CreateComment, At
  <2>2. UNCHANGED comments \/ comments' = Append(comments, new)
    BY <1>1 DEF CreateComment, github
  <2> HIDE DEF new
  <2> QED
    BY <1>0, <1>t, <2>1, <2>2, EditsStay
<1>2. ASSUME NEW w \in Workers, NEW ack \in BOOLEAN, UpdateComment(w, ack) PROVE CommentsStay
  <2>1. \/ UNCHANGED comments
        \/ comments' = [comments EXCEPT ![workers[w].comment].shows = workers[w].latest]
    BY <1>2 DEF UpdateComment
  <2> QED
    BY <1>0, <1>t, <2>1, EditsStay
<1>3. ASSUME NEW i \in DOMAIN issues, DeleteIssue(i) PROVE CommentsStay
  BY <1>t, <1>3, EditsStay, Zenon DEF DeleteIssue
<1>4. ASSUME NEW c \in DOMAIN comments, DeleteComment(c) PROVE CommentsStay
  BY <1>t, <1>4, EditsStay DEF DeleteComment
<1>5. CASE Users
  <2>1. ASSUME NEW i \in DOMAIN issues, CloseIssue(i) \/ ReopenIssue(i) PROVE UNCHANGED comments
    BY <2>1 DEF CloseIssue, ReopenIssue
  <2> QED
    BY <1>0, <1>3, <1>4, <1>5, <2>1 DEF Users
<1>6. ASSUME NEW w \in Workers, Work(w) \/ Fault(w) PROVE CommentsStay
  <2>1. \/ UNCHANGED comments
        \/ \E ack \in BOOLEAN : CreateComment(w, ack) \/ UpdateComment(w, ack)
    BY <1>6 DEF Work, Handle, Fault, Read, CheckIssue, JudgeTree, WeighResult, CreateIssue,
       RecordIssue, InsertIssueHistory, ClearIssueInfo, EnqueueCreateIssue, StoreCommentId,
       ClearCommentId, Settle, MarkSyncFailed, Dequeue, Fails, Ignored, Abandon, github
  <2> QED
    BY <1>0, <1>1, <1>2, <2>1
<1>7. Import \/ UNCHANGED vars => UNCHANGED comments
  BY DEF Import, Complete, vars, github
<1> QED
  BY <1>0, <1>5, <1>6, <1>7 DEF Next

(* What a comment handler knows once it has read the row: it works on the    *)
(* issue of the row, and the comment it is to store is on that issue.        *)
Looking == {"check", "weigh", "edit", "forget", "post", "store"}

Looks(s, p, k) ==
  /\ s.pc \in Looking => s.issue = p.issue /\ p.issue # Null
  /\ s.pc = "store" => s.made \in DOMAIN k /\ k[s.made].on = p.issue

OnIssue(p, k) ==
  p.comment # Null => p.issue # Null /\ p.comment \in DOMAIN k /\ k[p.comment].on = p.issue

InPlace ==
  /\ OnIssue(project, comments)
  /\ \A w \in Workers : Looks(workers[w], project, comments)

LEMMA Alone ==
  ASSUME Typed, \A v, w \in Workers : v = w, NEW w \in Workers, NEW s, Become(w, s),
         Looks(s, project', comments'), OnIssue(project', comments')
  PROVE  InPlace'
<1>1. \A v \in Workers : workers'[v] = s
  BY DEF Become, Typed, TypeOK
<1>2. \A v \in Workers : Looks(workers'[v], project', comments')
  BY <1>1
<1> QED
  BY <1>2 DEF InPlace, Looks, OnIssue

\* The row names the same issue and comment as before.
SameRow == project'.issue = project.issue /\ project'.comment = project.comment

LEMMA StillInPlace ==
  ASSUME Typed, InPlace, CommentsStay, SameRow
  PROVE  /\ OnIssue(project', comments')
         /\ UNCHANGED workers => InPlace'
<1>1. OnIssue(project', comments')
  BY DEF InPlace, OnIssue, CommentsStay, SameRow
<1>2. \A w \in Workers : Looks(workers[w], project', comments')
  BY DEF InPlace, Looks, CommentsStay, SameRow
<1>3. UNCHANGED workers => InPlace'
  BY <1>1, <1>2 DEF InPlace, Looks, OnIssue
<1> QED
  BY <1>1, <1>3

(* A worker that lets go of the row, or goes on with what it knows           *)
LEMMA LetsGo ==
  ASSUME Typed, InPlace, CommentsStay, \A v, w \in Workers : v = w, NEW w \in Workers,
         SameRow
  PROVE  /\ Become(w, Idle) => InPlace'
         /\ \A b : Conclude(w, b) => InPlace'
         /\ \A pc \in (Ignoring \ {"forget"}) \cup {"judge", "mark"} : Step(w, pc) => InPlace'
         /\ workers[w].pc \in Looking =>
              \A pc \in Looking \ {"store"} : Step(w, pc) => InPlace'
<1>0. workers[w] \in Worker /\ OnIssue(project', comments')
  BY StillInPlace DEF Typed, TypeOK
<1>1. Become(w, Idle) => InPlace'
  BY <1>0, Alone DEF Looks, Looking, Idle
<1>2. ASSUME NEW b, Conclude(w, b) PROVE InPlace'
  <2> DEFINE s == [Idle EXCEPT !.pc = "settle", !.run = workers[w].run,
                               !.type = workers[w].type, !.completed = b]
  <2>1. s.pc = "settle" /\ Become(w, s)
    BY <1>2 DEF Conclude, Idle
  <2> HIDE DEF s
  <2> QED
    BY <1>0, <2>1, Alone DEF Looks, Looking
<1>3. ASSUME NEW pc \in (Ignoring \ {"forget"}) \cup {"judge", "mark"}, Step(w, pc)
      PROVE  InPlace'
  <2> DEFINE s == [workers[w] EXCEPT !.pc = pc]
  <2>1. s.pc = pc /\ Become(w, s)
    BY <1>0, <1>3 DEF Worker, Step
  <2>2. pc \notin Looking
    BY DEF Ignoring, Looking
  <2> HIDE DEF s
  <2> QED
    BY <1>0, <2>1, <2>2, Alone DEF Looks, Looking
<1>4. ASSUME workers[w].pc \in Looking, NEW pc \in Looking \ {"store"}, Step(w, pc)
      PROVE  InPlace'
  <2> DEFINE s == [workers[w] EXCEPT !.pc = pc]
  <2>1. s.pc = pc /\ s.issue = workers[w].issue /\ Become(w, s)
    BY <1>0, <1>4 DEF Worker, Step
  <2>2. workers[w].issue = project'.issue /\ project'.issue # Null
    BY <1>4 DEF InPlace, Looks, SameRow
  <2> HIDE DEF s
  <2> QED
    BY <1>0, <2>1, <2>2, Alone DEF Looks
<1> QED
  BY <1>1, <1>2, <1>3, <1>4

(* The steps that change the issue or the comment of the row                 *)
LEMMA InPlaceRow ==
  ASSUME Typed, InPlace, CommentsStay, \A v, w \in Workers : v = w, NEW w \in Workers,
         \/ \E ack \in BOOLEAN : RecordIssue(w, ack)
         \/ ClearIssueInfo(w) \/ StoreCommentId(w) \/ ClearCommentId(w)
  PROVE  InPlace'
<1>p. project \in Project /\ workers[w] \in Worker
  BY DEF Typed, TypeOK
<1>s. \A pc : [workers[w] EXCEPT !.pc = pc].pc = pc
              /\ [workers[w] EXCEPT !.pc = pc].issue = workers[w].issue
  BY <1>p DEF Worker
<1>c. \A b : [Idle EXCEPT !.pc = "settle", !.run = workers[w].run,
                          !.type = workers[w].type, !.completed = b].pc = "settle"
  BY DEF Idle
<1>1. ASSUME NEW ack \in BOOLEAN, RecordIssue(w, ack) PROVE InPlace'
  <2>1. CASE SameRow
    BY <1>1, <2>1, LetsGo DEF RecordIssue
  <2>2. CASE project'.issue = workers[w].made /\ project'.comment = project.comment
             /\ project.issue = Null
    <3>1. OnIssue(project', comments')
      BY <2>2 DEF InPlace, OnIssue
    <3> DEFINE s == [Idle EXCEPT !.pc = "settle", !.run = workers[w].run,
                                 !.type = workers[w].type, !.completed = ack]
    <3>2. Become(w, s) /\ s.pc = "settle"
      BY <1>1, <1>c DEF RecordIssue, Conclude
    <3> HIDE DEF s
    <3> QED
      BY <3>1, <3>2, Alone DEF Looks, Looking
  <2> QED
    BY <1>p, <1>1, <2>1, <2>2 DEF RecordIssue, SameRow, Project
<1>2. CASE ClearIssueInfo(w)
  <2>1. project'.comment = Null /\ Step(w, "again")
    BY <1>p, <1>2 DEF ClearIssueInfo, Project
  <2>2. OnIssue(project', comments')
    BY <2>1 DEF OnIssue
  <2> DEFINE s == [workers[w] EXCEPT !.pc = "again"]
  <2>3. Become(w, s) /\ s.pc = "again"
    BY <1>s, <2>1 DEF Step
  <2> HIDE DEF s
  <2> QED
    BY <2>2, <2>3, Alone DEF Looks, Looking
<1>3. CASE StoreCommentId(w)
  <2>1. /\ project'.comment = workers[w].made /\ project'.issue = project.issue
        /\ comments' = comments /\ Conclude(w, TRUE) /\ At(w, "store")
    BY <1>p, <1>3 DEF StoreCommentId, Project, github
  <2>2. OnIssue(project', comments')
    BY <2>1 DEF InPlace, Looks, Looking, OnIssue, At
  <2> DEFINE s == [Idle EXCEPT !.pc = "settle", !.run = workers[w].run,
                               !.type = workers[w].type, !.completed = TRUE]
  <2>3. Become(w, s) /\ s.pc = "settle"
    BY <1>c, <2>1 DEF Conclude
  <2> HIDE DEF s
  <2> QED
    BY <2>2, <2>3, Alone DEF Looks, Looking
<1>4. CASE ClearCommentId(w)
  <2>1. /\ project'.comment = Null /\ project'.issue = project.issue
        /\ comments' = comments /\ Step(w, "post") /\ At(w, "forget")
    BY <1>p, <1>4 DEF ClearCommentId, Project, github
  <2> DEFINE s == [workers[w] EXCEPT !.pc = "post"]
  <2>2. Become(w, s) /\ s.pc = "post" /\ s.issue = workers[w].issue
    BY <1>s, <2>1 DEF Step
  <2> HIDE DEF s
  <2>3. Looks(s, project', comments') /\ OnIssue(project', comments')
    BY <2>1, <2>2 DEF InPlace, Looks, Looking, OnIssue, At
  <2> QED
    BY <2>2, <2>3, Alone
<1> QED
  BY <1>1, <1>2, <1>3, <1>4

LEMMA InPlaceRead ==
  ASSUME Typed, InPlace, CommentsStay, \A v, w \in Workers : v = w, NEW w \in Workers, Read(w)
  PROVE  InPlace'
<1> DEFINE shot(pc) == [Snapshot(w) EXCEPT !.pc = pc]
<1>1. SameRow /\ OnIssue(project', comments')
  BY StillInPlace DEF Read, SameRow
<1>2. ASSUME NEW pc \in {"create", "check"}, Become(w, shot(pc)),
             pc = "check" => project.issue # Null
      PROVE  InPlace'
  <2>1. shot(pc).pc = pc /\ shot(pc).issue = project.issue
    BY DEF Snapshot, Typed, TypeOK, Worker
  <2> HIDE DEF shot
  <2> QED
    BY <1>1, <1>2, <2>1, Alone DEF Looks, SameRow, Looking
<1>3. \A b : Conclude(w, b) => InPlace'
  BY <1>1, LetsGo
<1> QED
  BY <1>2, <1>3 DEF Read

LEMMA InPlacePost ==
  ASSUME Typed, InPlace, CommentsStay, \A v, w \in Workers : v = w, NEW w \in Workers,
         NEW ack \in BOOLEAN, CreateComment(w, ack)
  PROVE  InPlace'
<1> DEFINE new == [on |-> workers[w].issue, shows |-> workers[w].latest]
           s == [workers[w] EXCEPT !.pc = "store", !.made = Len(comments')]
<1>1. SameRow /\ OnIssue(project', comments')
  BY StillInPlace DEF CreateComment, SameRow
<1>2. \A b : Conclude(w, b) => InPlace'
  BY <1>1, LetsGo
<1>3. CASE comments' = Append(comments, new) /\ Become(w, s)
  <2>1. new \in Comment /\ new.on = workers[w].issue /\ comments \in Seq(Comment)
    BY Busy DEF Comment, CreateComment, At, Typed, TypeOK
  <2>2. s.pc = "store" /\ s.issue = workers[w].issue /\ s.made = Len(comments')
    BY DEF Typed, TypeOK, Worker
  <2>3. workers[w].issue = project'.issue /\ project'.issue # Null
    BY <1>1 DEF InPlace, Looks, Looking, SameRow, CreateComment, At
  <2> HIDE DEF new, s
  <2>4. Len(comments') \in DOMAIN comments' /\ comments'[Len(comments')].on = project'.issue
    BY <1>3, <2>1, <2>3, EditsStay
  <2>5. Looks(s, project', comments')
    BY <2>2, <2>3, <2>4 DEF Looks
  <2> QED
    BY <1>1, <1>3, <2>5, Alone
<1> QED
  BY <1>2, <1>3 DEF CreateComment

LEMMA InPlaceStep ==
  ASSUME \A v, w \in Workers : v = w
  PROVE  Typed /\ InPlace /\ [Next]_vars => InPlace'
<1> SUFFICES ASSUME Typed, InPlace, [Next]_vars PROVE InPlace'
  OBVIOUS
<1>k. CommentsStay
  BY CommentsAreNotMoved
<1>1. CASE Import \/ Users \/ UNCHANGED vars
  <2>1. UNCHANGED <<project, workers>>
    BY <1>1 DEF Import, Complete, Users, CloseIssue, ReopenIssue, DeleteIssue, DeleteComment,
       ours, vars
  <2> QED
    BY <1>k, <2>1, StillInPlace DEF SameRow
<1>2. ASSUME NEW w \in Workers, Work(w) \/ Fault(w) PROVE InPlace'
  <2>1. CASE \/ \E ack \in BOOLEAN : RecordIssue(w, ack)
             \/ ClearIssueInfo(w) \/ StoreCommentId(w) \/ ClearCommentId(w)
    BY <1>k, <2>1, InPlaceRow
  <2>2. CASE Read(w) \/ \E ack \in BOOLEAN : CreateComment(w, ack)
    BY <1>k, <2>2, InPlaceRead, InPlacePost
  <2>3. CASE SameRow
    <3>1. /\ Become(w, Idle) => InPlace'
          /\ \A b : Conclude(w, b) => InPlace'
          /\ \A pc \in {"archive", "clear", "again", "judge", "mark"} : Step(w, pc) => InPlace'
          /\ workers[w].pc \in Looking =>
               \A pc \in {"weigh", "edit", "forget", "post"} : Step(w, pc) => InPlace'
      BY <1>k, <2>3, LetsGo DEF Ignoring, Looking
    <3>2. CASE CheckIssue(w) \/ JudgeTree(w) \/ WeighResult(w)
      BY <3>1, <3>2 DEF CheckIssue, JudgeTree, WeighResult, At, Looking
    <3>3. CASE \E ack \in BOOLEAN : UpdateComment(w, ack)
      BY <3>1, <3>3 DEF UpdateComment, At, Looking
    <3>4. CASE InsertIssueHistory(w) \/ EnqueueCreateIssue(w) \/ Settle(w) \/ MarkSyncFailed(w)
      BY <3>1, <3>4 DEF InsertIssueHistory, EnqueueCreateIssue, Settle, AfterSettle, MarkSyncFailed
    <3>5. CASE Fails(w) \/ Ignored(w) \/ Abandon(w)
      BY <3>1, <3>5 DEF Fails, Ignored, Abandon, AfterSettle, At, Looking
    <3>6. ASSUME NEW ack \in BOOLEAN, CreateIssue(w, ack) PROVE InPlace'
      <4> DEFINE s == [workers[w] EXCEPT !.pc = "record", !.made = Len(issues')]
      <4>1. CASE Become(w, s)
        <5>1. s.pc = "record"
          BY DEF Typed, TypeOK, Worker
        <5> HIDE DEF s
        <5> QED
          BY <1>k, <2>3, <4>1, <5>1, StillInPlace, Alone DEF Looks, Looking
      <4> QED
        BY <3>1, <3>6, <4>1 DEF CreateIssue
    <3>7. ASSUME NEW r \in Runs, NEW t \in Types, Dequeue(w, r, t) PROVE InPlace'
      <4> DEFINE s == [Idle EXCEPT !.pc = "read", !.run = r, !.type = t]
      <4>1. s.pc = "read" /\ Become(w, s)
        BY <3>7 DEF Dequeue, Idle
      <4> HIDE DEF s
      <4> QED
        BY <1>k, <2>3, <4>1, StillInPlace, Alone DEF Looks, Looking
    <3>8. CASE \/ \E ack \in BOOLEAN : RecordIssue(w, ack)
               \/ ClearIssueInfo(w) \/ StoreCommentId(w) \/ ClearCommentId(w)
               \/ Read(w) \/ \E ack \in BOOLEAN : CreateComment(w, ack)
      BY <2>1, <2>2, <3>8
    <3> QED
      BY <1>2, <3>2, <3>3, <3>4, <3>5, <3>6, <3>7, <3>8 DEF Work, Handle, Fault
  <2>4. \/ SameRow
        \/ \E ack \in BOOLEAN : RecordIssue(w, ack)
        \/ ClearIssueInfo(w) \/ StoreCommentId(w) \/ ClearCommentId(w)
    <3>1. CASE MarkSyncFailed(w)
      BY <3>1 DEF MarkSyncFailed, SameRow, Typed, TypeOK, Project
    <3>2. UNCHANGED project => SameRow
      BY DEF SameRow
    <3> QED
      BY <1>2, <3>1, <3>2 DEF Work, Handle, Fault, Read, CheckIssue, JudgeTree, WeighResult,
         CreateIssue, InsertIssueHistory, EnqueueCreateIssue, CreateComment, UpdateComment,
         Settle, Dequeue, Fails, Ignored, Abandon
  <2> QED
    BY <2>1, <2>3, <2>4
<1> QED
  BY <1>1, <1>2 DEF Next

(* With one worker the dashboard comment that the row names is on the issue  *)
(* that it names, whatever users close or delete, whatever fails and however *)
(* often jobs are retried: the row does not change between the read of a     *)
(* comment handler and its store.                                            *)
THEOREM CommentOnIssue ==
  ASSUME \A v, w \in Workers : v = w
  PROVE  Spec => []CommentIsOnIssue
<1>1. Init => InPlace
  BY DEF Init, InPlace, OnIssue, Looks, Looking, Idle, Null
<1>2. InPlace => CommentIsOnIssue
  BY DEF InPlace, OnIssue, CommentIsOnIssue
<1>3. Typed /\ InPlace /\ [Next]_vars => InPlace'
  BY InPlaceStep
<1> QED
  BY <1>1, <1>2, <1>3, TypedAlways, PTL DEF Spec

-----------------------------------------------------------------------------
(* The dashboard is current with one worker                                  *)

\* Issues and comments stay; no issue is open again once it was closed (it is
\* reopened), and only an edit makes a comment show another run.
IssuesAge ==
  \A i \in DOMAIN issues : i \in DOMAIN issues' /\ (issues'[i] = "open" => issues[i] = "open")

Edits(w, c) ==
  /\ At(w, "edit") /\ workers[w].comment = c
  /\ comments[c].shows # None /\ comments'[c].shows = workers[w].latest

CommentsAge ==
  \A c \in DOMAIN comments :
    \/ comments'[c].shows \in {comments[c].shows, None}
    \/ \E w \in Workers : Edits(w, c)

LEMMA IssuesOnlyAge == Typed /\ [Next]_vars => IssuesAge
<1> SUFFICES ASSUME Typed, [Next]_vars PROVE IssuesAge
  OBVIOUS
<1>t. issues \in Seq(IssueState)
  BY DEF Typed, TypeOK
<1>0. CASE UNCHANGED issues
  BY <1>0 DEF IssuesAge
<1>1. ASSUME NEW w \in Workers, NEW ack \in BOOLEAN, CreateIssue(w, ack) PROVE IssuesAge
  BY <1>t, <1>1 DEF CreateIssue, IssuesAge, IssueState
<1>2. CASE Users
  <2>1. ASSUME NEW i \in DOMAIN issues, NEW x \in {"closed", "reopened", "deleted"},
               IssueBecomes(i, x)
        PROVE  IssuesAge
    BY <1>t, <2>1 DEF IssueBecomes, IssuesAge
  <2>2. ASSUME NEW i \in DOMAIN issues, CloseIssue(i) \/ ReopenIssue(i) \/ DeleteIssue(i)
        PROVE  IssuesAge
    BY <2>1, <2>2 DEF CloseIssue, ReopenIssue, DeleteIssue
  <2>3. ASSUME NEW c \in DOMAIN comments, DeleteComment(c) PROVE UNCHANGED issues
    BY <2>3 DEF DeleteComment
  <2> QED
    BY <1>0, <1>2, <2>2, <2>3 DEF Users
<1>3. ASSUME NEW w \in Workers, Work(w) \/ Fault(w) PROVE IssuesAge
  <2>1. \/ UNCHANGED issues
        \/ \E ack \in BOOLEAN : CreateIssue(w, ack)
    BY <1>3 DEF Work, Handle, Fault, Read, CheckIssue, JudgeTree, WeighResult, CreateComment,
       UpdateComment, RecordIssue, InsertIssueHistory, ClearIssueInfo, EnqueueCreateIssue,
       StoreCommentId, ClearCommentId, Settle, MarkSyncFailed, Dequeue, Fails, Ignored, Abandon,
       github
  <2> QED
    BY <1>0, <1>1, <2>1
<1>4. Import \/ UNCHANGED vars => UNCHANGED issues
  BY DEF Import, Complete, vars, github
<1> QED
  BY <1>0, <1>2, <1>3, <1>4 DEF Next

LEMMA CommentsOnlyAge == Typed /\ [Next]_vars => CommentsAge
<1> SUFFICES ASSUME Typed, [Next]_vars PROVE CommentsAge
  OBVIOUS
<1>t. comments \in Seq(Comment)
  BY DEF Typed, TypeOK
<1>s. /\ Len(comments) \in Nat /\ DOMAIN comments = 1..Len(comments)
      /\ \A c \in 1..Len(comments) : comments[c] \in Comment
      /\ comments = [c \in 1..Len(comments) |-> comments[c]]
  BY <1>t
<1>e. \A x : \A k \in Comment : [k EXCEPT !.shows = x].shows = x
  BY DEF Comment
<1>0. CASE UNCHANGED comments
  BY <1>0 DEF CommentsAge
<1>1. ASSUME NEW w \in Workers, NEW ack \in BOOLEAN, CreateComment(w, ack) PROVE CommentsAge
  <2>1. \/ UNCHANGED comments
        \/ \E k : comments' = Append(comments, k)
    BY <1>1 DEF CreateComment, github
  <2>2. ASSUME NEW k, comments' = Append(comments, k) PROVE CommentsAge
    <3>1. \A c \in 1..Len(comments) : comments'[c] = comments[c]
      BY <1>s, <2>2
    <3> QED
      BY <1>s, <3>1 DEF CommentsAge
  <2> QED
    BY <1>0, <2>1, <2>2
<1>2. ASSUME NEW w \in Workers, NEW ack \in BOOLEAN, UpdateComment(w, ack) PROVE CommentsAge
  <2>1. CASE UNCHANGED comments
    BY <1>0, <2>1
  <2>2. CASE /\ comments[workers[w].comment].shows # None
             /\ comments' = [comments EXCEPT ![workers[w].comment].shows = workers[w].latest]
    <3>1. ASSUME NEW c \in DOMAIN comments, c # workers[w].comment PROVE comments'[c] = comments[c]
      BY <1>s, <2>2, <3>1
    <3>2. ASSUME NEW c \in DOMAIN comments, c = workers[w].comment PROVE Edits(w, c)
      <4>1. comments'[c] = [comments[c] EXCEPT !.shows = workers[w].latest]
        BY <1>s, <2>2, <3>2
      <4> QED
        BY <1>s, <1>e, <1>2, <2>2, <3>2, <4>1 DEF Edits, UpdateComment
    <3> QED
      BY <3>1, <3>2 DEF CommentsAge
  <2> QED
    BY <1>2, <2>1, <2>2 DEF UpdateComment
<1>3. ASSUME NEW i \in DOMAIN issues, DeleteIssue(i) PROVE CommentsAge
  <2>1. \A c \in 1..Len(comments) :
          comments'[c] = IF comments[c].on = i THEN [comments[c] EXCEPT !.shows = None]
                         ELSE comments[c]
    BY <1>s, <1>3 DEF DeleteIssue
  <2> QED
    BY <1>s, <1>e, <2>1 DEF CommentsAge
<1>4. ASSUME NEW d \in DOMAIN comments, DeleteComment(d) PROVE CommentsAge
  <2>1. \A c \in 1..Len(comments) :
          comments'[c] = IF c = d THEN [comments[c] EXCEPT !.shows = None] ELSE comments[c]
    BY <1>s, <1>4 DEF DeleteComment
  <2> QED
    BY <1>s, <1>e, <2>1 DEF CommentsAge
<1>5. CASE Users
  <2>1. ASSUME NEW i \in DOMAIN issues, CloseIssue(i) \/ ReopenIssue(i) PROVE UNCHANGED comments
    BY <2>1 DEF CloseIssue, ReopenIssue
  <2> QED
    BY <1>0, <1>3, <1>4, <1>5, <2>1 DEF Users
<1>6. ASSUME NEW w \in Workers, Work(w) \/ Fault(w) PROVE CommentsAge
  <2>1. \/ UNCHANGED comments
        \/ \E ack \in BOOLEAN : CreateComment(w, ack) \/ UpdateComment(w, ack)
    BY <1>6 DEF Work, Handle, Fault, Read, CheckIssue, JudgeTree, WeighResult, CreateIssue,
       RecordIssue, InsertIssueHistory, ClearIssueInfo, EnqueueCreateIssue, StoreCommentId,
       ClearCommentId, Settle, MarkSyncFailed, Dequeue, Fails, Ignored, Abandon, github
  <2> QED
    BY <1>0, <1>1, <1>2, <2>1
<1>7. Import \/ UNCHANGED vars => UNCHANGED comments
  BY DEF Import, Complete, vars, github
<1> QED
  BY <1>0, <1>5, <1>6, <1>7 DEF Next

LEMMA UntouchedBefore == Typed /\ [Next]_vars /\ Untouched' => Untouched
<1> SUFFICES ASSUME Typed, [Next]_vars, Untouched' PROVE Untouched
  OBVIOUS
<1>1. IssuesAge /\ CommentsStay /\ CommentsAge
  BY IssuesOnlyAge, CommentsAreNotMoved, CommentsOnlyAge
<1>2. \A i \in DOMAIN issues : issues[i] = "open"
  BY <1>1 DEF Untouched, IssuesAge
<1>3. \A c \in DOMAIN comments : comments[c].shows # None
  BY <1>1 DEF Untouched, CommentsStay, CommentsAge, Edits
<1> QED
  BY <1>2, <1>3 DEF Untouched

(* What a worker that goes on from a reading of the row knows: the run it    *)
(* read is the latest, the issue it judges or gives up is not open, the      *)
(* comment it edits is that of the row, one it forgets was deleted, and one  *)
(* it is to store shows the latest run unless it was deleted since.          *)
Informed == (Calling \cup Ignoring) \ {"read"}

Knows(s, d, p, i, k) ==
  /\ s.pc \in Informed => d # <<>> /\ s.latest = d[Len(d)]
  /\ s.pc \in {"judge", "archive", "clear", "again"} =>
       s.issue \in DOMAIN i /\ i[s.issue] # "open"
  /\ s.pc = "record" => s.made \in DOMAIN i
  /\ s.pc \in {"create", "record"} => s.type = "create_issue"
  /\ s.pc = "weigh" => s.type = "create_run_result_comment"
  /\ s.pc = "judge" => s.issue = p.issue
  /\ s.pc \in {"check", "edit", "forget"} => s.comment = p.comment
  /\ s.pc \in {"edit", "forget"} => p.comment # Null
  /\ s.pc = "forget" => k[s.comment].shows = None
  /\ s.pc = "store" => k[s.made].shows \in {d[Len(d)], None}

Found == project.issue # Null => project.issue \in DOMAIN issues

Aware ==
  /\ Found
  /\ \A w \in Workers : Knows(workers[w], done, project, issues, comments)

\* With one worker a step is made in its knowledge.
Sole == \A v, w \in Workers : v = w

LEMMA FoundStep == Typed /\ Aware /\ [Next]_vars => Found'
<1> SUFFICES ASSUME Typed, Aware, [Next]_vars PROVE Found'
  OBVIOUS
<1>1. RowStep /\ IssuesAge
  BY RowSteps, IssuesOnlyAge
<1>2. ASSUME NEW w \in Workers, At(w, "record"), project'.issue = workers[w].made PROVE Found'
  BY <1>1, <1>2 DEF Aware, Knows, At, IssuesAge, Found
<1> QED
  BY <1>1, <1>2 DEF RowStep, Aware, Found, IssuesAge

LEMMA AwareBy ==
  ASSUME Typed, Aware, [Next]_vars, Sole, NEW w \in Workers, NEW s, Become(w, s),
         Knows(s, done', project', issues', comments')
  PROVE  Aware'
<1>1. \A v \in Workers : workers'[v] = s
  BY DEF Become, Typed, TypeOK, Sole
<1>2. \A v \in Workers : Knows(workers'[v], done', project', issues', comments')
  BY <1>1
<1> QED
  BY <1>2, FoundStep DEF Aware, Knows

LEMMA AwareStill ==
  ASSUME Typed, Aware, InPlace, [Next]_vars, Sole, UNCHANGED <<done, project, workers>>
  PROVE  Aware'
<1>1. IssuesAge /\ CommentsStay /\ CommentsAge
  BY IssuesOnlyAge, CommentsAreNotMoved, CommentsOnlyAge
<1>2. ASSUME NEW w \in Workers
      PROVE  Knows(workers[w], done, project, issues', comments')
  <2> DEFINE s == workers[w]
  <2>1. Knows(s, done, project, issues, comments)
    BY DEF Aware
  <2>2. s.pc \in {"judge", "archive", "clear", "again"} =>
          s.issue \in DOMAIN issues' /\ issues'[s.issue] # "open"
    BY <1>1, <2>1 DEF Knows, IssuesAge
  <2>3. s.pc = "record" => s.made \in DOMAIN issues'
    BY <1>1, <2>1 DEF Knows, IssuesAge
  <2>4. ASSUME s.pc = "forget" PROVE comments'[s.comment].shows = None
    <3>1. s.comment \in DOMAIN comments /\ comments[s.comment].shows = None
      BY <2>1, <2>4 DEF Knows, InPlace, OnIssue
    <3> QED
      BY <1>1, <3>1 DEF CommentsAge, Edits
  <2>5. ASSUME s.pc = "store" PROVE comments'[s.made].shows \in {done[Len(done)], None}
    <3>1. s.made \in DOMAIN comments /\ comments[s.made].shows \in {done[Len(done)], None}
      BY <2>1, <2>5 DEF Knows, InPlace, Looks
    <3>2. \A v \in Workers : ~ Edits(v, s.made)
      BY <2>5 DEF Edits, At, Sole
    <3> QED
      BY <1>1, <3>1, <3>2 DEF CommentsAge
  <2> QED
    BY <2>1, <2>2, <2>3, <2>4, <2>5 DEF Knows
<1>3. \A w \in Workers : Knows(workers'[w], done', project', issues', comments')
  BY <1>2
<1> QED
  BY <1>3, FoundStep DEF Aware, Knows

\* A worker that lets go of the row
LEMMA AwareOfNothing ==
  ASSUME Typed, Aware, [Next]_vars, Sole, NEW w \in Workers
  PROVE  /\ Become(w, Idle) => Aware'
         /\ \A b : Conclude(w, b) => Aware'
         /\ Step(w, "mark") => Aware'
         /\ \A r, t : Become(w, [Idle EXCEPT !.pc = "read", !.run = r, !.type = t]) => Aware'
<1>1. ASSUME NEW s, Become(w, s), s.pc \in {"idle", "settle", "mark", "read"} PROVE Aware'
  <2>1. Knows(s, done', project', issues', comments')
    BY <1>1 DEF Knows, Informed, Calling, Ignoring
  <2> QED
    BY <1>1, <2>1, AwareBy
<1>2. Become(w, Idle) => Aware'
  BY <1>1, IdleIsWorker
<1>3. ASSUME NEW b, Conclude(w, b) PROVE Aware'
  <2> DEFINE s == [Idle EXCEPT !.pc = "settle", !.run = workers[w].run,
                               !.type = workers[w].type, !.completed = b]
  <2>1. s.pc = "settle" /\ Become(w, s)
    BY <1>3 DEF Conclude, Idle
  <2> HIDE DEF s
  <2> QED
    BY <1>1, <2>1
<1>4. ASSUME Step(w, "mark") PROVE Aware'
  <2> DEFINE s == [workers[w] EXCEPT !.pc = "mark"]
  <2>1. s.pc = "mark" /\ Become(w, s)
    BY <1>4 DEF Step, Typed, TypeOK, Worker
  <2> HIDE DEF s
  <2> QED
    BY <1>1, <2>1
<1>5. ASSUME NEW r, NEW t, Become(w, [Idle EXCEPT !.pc = "read", !.run = r, !.type = t])
      PROVE  Aware'
  <2> DEFINE s == [Idle EXCEPT !.pc = "read", !.run = r, !.type = t]
  <2>1. s.pc = "read" /\ Become(w, s)
    BY <1>5 DEF Idle
  <2> HIDE DEF s
  <2> QED
    BY <1>1, <2>1
<1> QED
  BY <1>2, <1>3, <1>4, <1>5

LEMMA SamePerson ==
  ASSUME NEW v \in Worker, NEW pc
  PROVE  LET s == [v EXCEPT !.pc = pc]
         IN  /\ s.pc = pc /\ s.run = v.run /\ s.type = v.type /\ s.issue = v.issue
             /\ s.comment = v.comment /\ s.latest = v.latest /\ s.made = v.made
  BY DEF Worker

LEMMA AwareRead ==
  ASSUME Typed, Aware, InPlace, [Next]_vars, Sole, NEW w \in Workers, Read(w)
  PROVE  Aware'
<1>0. workers[w] \in Worker /\ done # <<>> /\ ~ At(w, "idle")
  BY Busy DEF Read, At, Completed, Typed, TypeOK
<1>1. ASSUME NEW pc \in {"create", "check"}, Become(w, [Snapshot(w) EXCEPT !.pc = pc]),
             pc = "create" => workers[w].type = "create_issue"
      PROVE  Aware'
  <2> DEFINE s == [Snapshot(w) EXCEPT !.pc = pc]
  <2>1. /\ s.pc = pc /\ s.type = workers[w].type /\ s.comment = project.comment
        /\ s.latest = done[Len(done)]
    BY <1>0 DEF Snapshot, Worker
  <2>2. Become(w, s)
    BY <1>1
  <2> HIDE DEF s
  <2>3. Knows(s, done', project', issues', comments')
    BY <1>0, <1>1, <2>1 DEF Knows, Read
  <2> QED
    BY <2>2, <2>3, AwareBy
<1> QED
  BY <1>1, AwareOfNothing DEF Read

LEMMA AwareLooks ==
  ASSUME Typed, Aware, InPlace, [Next]_vars, Sole, NEW w \in Workers,
         CheckIssue(w) \/ JudgeTree(w) \/ WeighResult(w)
  PROVE  Aware'
<1> DEFINE s(pc) == [workers[w] EXCEPT !.pc = pc]
<1>0. workers[w] \in Worker /\ Knows(workers[w], done, project, issues, comments)
  BY DEF Aware, Typed, TypeOK
<1>1. \A pc : /\ s(pc).pc = pc /\ s(pc).type = workers[w].type /\ s(pc).issue = workers[w].issue
              /\ s(pc).comment = workers[w].comment /\ s(pc).latest = workers[w].latest
  BY <1>0, SamePerson
<1>2. UNCHANGED <<done, project, issues, comments>>
  BY DEF CheckIssue, JudgeTree, WeighResult, github
<1>3. \A pc : Step(w, pc) => Become(w, s(pc))
  BY DEF Step
<1> HIDE DEF s
<1>4. \A pc : Knows(s(pc), done', project', issues', comments') /\ Step(w, pc) => Aware'
  BY <1>3, AwareBy
<1>5. \A b : Conclude(w, b) => Aware'
  BY AwareOfNothing
<1>6. CASE CheckIssue(w)
  <2>1. /\ workers[w].pc = "check" /\ done # <<>> /\ workers[w].latest = done[Len(done)]
        /\ workers[w].comment = project.comment /\ workers[w].issue = project.issue
        /\ workers[w].issue \in DOMAIN issues
    BY <1>0, <1>6 DEF Knows, CheckIssue, At, Informed, Calling, InPlace, Looks, Looking, Aware, Found
  <2>2. Knows(s("post"), done, project, issues, comments)
    BY <1>1, <2>1 DEF Knows
  <2>3. workers[w].type = "create_run_result_comment" =>
          Knows(s("weigh"), done, project, issues, comments)
    BY <1>1, <2>1 DEF Knows
  <2>4. workers[w].comment # Null => Knows(s("edit"), done, project, issues, comments)
    BY <1>1, <2>1 DEF Knows
  <2>5. issues[workers[w].issue] \in {"closed", "deleted"} =>
          \A pc \in {"judge", "archive"} : Knows(s(pc), done, project, issues, comments)
    BY <1>1, <2>1 DEF Knows
  <2> QED
    BY <1>2, <1>4, <1>5, <1>6, <2>2, <2>3, <2>4, <2>5 DEF CheckIssue
<1>7. CASE JudgeTree(w)
  <2>1. Knows(s("archive"), done, project, issues, comments)
    BY <1>0, <1>1, <1>7 DEF Knows, JudgeTree, At, Informed, Calling, Ignoring
  <2> QED
    BY <1>2, <1>4, <1>5, <1>7, <2>1 DEF JudgeTree
<1>8. CASE WeighResult(w)
  <2>1. Knows(s("post"), done, project, issues, comments)
    BY <1>0, <1>1, <1>8 DEF Knows, WeighResult, At, Informed, Calling, Ignoring
  <2> QED
    BY <1>2, <1>4, <1>5, <1>8, <2>1 DEF WeighResult
<1> QED
  BY <1>6, <1>7, <1>8

LEMMA AwareGivesUp ==
  ASSUME Typed, Aware, InPlace, [Next]_vars, Sole, NEW w \in Workers,
         InsertIssueHistory(w) \/ ClearIssueInfo(w) \/ ClearCommentId(w) \/ Ignored(w)
  PROVE  Aware'
<1> DEFINE s(pc) == [workers[w] EXCEPT !.pc = pc]
<1>0. workers[w] \in Worker /\ Knows(workers[w], done, project, issues, comments)
  BY DEF Aware, Typed, TypeOK
<1>1. \A pc : /\ s(pc).pc = pc /\ s(pc).issue = workers[w].issue
              /\ s(pc).latest = workers[w].latest
  BY <1>0, SamePerson
<1>2. UNCHANGED <<done, issues, comments>>
  BY DEF InsertIssueHistory, ClearIssueInfo, ClearCommentId, Ignored, github
<1>3. \A pc : Step(w, pc) => Become(w, s(pc))
  BY DEF Step
<1> HIDE DEF s
<1>4. \A pc : Knows(s(pc), done', project', issues', comments') /\ Step(w, pc) => Aware'
  BY <1>3, AwareBy
<1>5. workers[w].pc \in {"archive", "clear"} =>
        \A pc \in {"clear", "again"} : Knows(s(pc), done', project', issues', comments')
  BY <1>0, <1>1, <1>2 DEF Knows, Informed, Calling, Ignoring
<1>6. workers[w].pc = "forget" => Knows(s("post"), done', project', issues', comments')
  BY <1>0, <1>1, <1>2 DEF Knows, Informed, Calling, Ignoring
<1>7. \A b : (Conclude(w, b) => Aware') /\ (Become(w, Idle) => Aware') /\ (Step(w, "mark") => Aware')
  BY AwareOfNothing
<1> QED
  BY <1>4, <1>5, <1>6, <1>7
  DEF InsertIssueHistory, ClearIssueInfo, ClearCommentId, Ignored, AfterSettle, At

LEMMA AwareCreates ==
  ASSUME Typed, Aware, InPlace, [Next]_vars, Sole, NEW w \in Workers, NEW ack \in BOOLEAN,
         CreateIssue(w, ack) \/ CreateComment(w, ack) \/ UpdateComment(w, ack)
  PROVE  Aware'
<1>0. workers[w] \in Worker /\ Knows(workers[w], done, project, issues, comments)
  BY DEF Aware, Typed, TypeOK
<1>l. done # <<>> /\ workers[w].latest = done[Len(done)]
  BY <1>0 DEF Knows, Informed, Calling, Ignoring, CreateIssue, CreateComment, UpdateComment, At
<1>5. \A b : Conclude(w, b) => Aware'
  BY AwareOfNothing
<1>6. CASE CreateIssue(w, ack)
  <2> DEFINE s == [workers[w] EXCEPT !.pc = "record", !.made = Len(issues')]
  <2>1. /\ s.pc = "record" /\ s.type = workers[w].type /\ s.latest = workers[w].latest
        /\ s.made = Len(issues')
    BY <1>0 DEF Worker
  <2> HIDE DEF s
  <2>2. Len(issues') \in DOMAIN issues'
    BY <1>6 DEF CreateIssue, Typed, TypeOK
  <2>3. Knows(s, done', project', issues', comments')
    BY <1>0, <1>l, <1>6, <2>1, <2>2 DEF Knows, CreateIssue, At
  <2>4. Become(w, s) \/ Conclude(w, FALSE)
    BY <1>6 DEF CreateIssue, s
  <2> QED
    BY <1>5, <2>3, <2>4, AwareBy
<1>7. CASE CreateComment(w, ack)
  <2> DEFINE s == [workers[w] EXCEPT !.pc = "store", !.made = Len(comments')]
             new == [on |-> workers[w].issue, shows |-> workers[w].latest]
  <2>1. s.pc = "store" /\ s.latest = workers[w].latest /\ s.made = Len(comments')
    BY <1>0 DEF Worker
  <2>2. new \in Comment /\ new.shows = workers[w].latest /\ comments \in Seq(Comment)
    BY <1>7, Busy DEF Comment, CreateComment, At, Typed, TypeOK
  <2>3. \/ Become(w, s) /\ comments' = Append(comments, new)
        \/ \E b : Conclude(w, b)
    BY <1>7 DEF CreateComment
  <2> HIDE DEF s, new
  <2>4. ASSUME Become(w, s), comments' = Append(comments, new) PROVE Aware'
    <3>1. comments'[s.made].shows = done[Len(done)]
      BY <1>l, <2>1, <2>2, <2>4, EditsStay
    <3>2. Knows(s, done', project', issues', comments')
      BY <1>l, <1>7, <2>1, <3>1 DEF Knows, CreateComment
    <3> QED
      BY <2>4, <3>2, AwareBy
  <2> QED
    BY <1>5, <2>3, <2>4
<1>8. CASE UpdateComment(w, ack)
  <2> DEFINE s == [workers[w] EXCEPT !.pc = "forget"]
  <2>1. s.pc = "forget" /\ s.latest = workers[w].latest /\ s.comment = workers[w].comment
    BY <1>0 DEF Worker
  <2>2. \/ /\ comments[workers[w].comment].shows = None /\ Step(w, "forget")
           /\ UNCHANGED comments
        \/ \E b : Conclude(w, b)
    BY <1>8 DEF UpdateComment
  <2>3. Step(w, "forget") => Become(w, s)
    BY DEF Step
  <2> HIDE DEF s
  <2>4. ASSUME comments[workers[w].comment].shows = None, UNCHANGED comments
        PROVE  Knows(s, done', project', issues', comments')
    BY <1>0, <1>l, <1>8, <2>1, <2>4 DEF Knows, UpdateComment, At
  <2> QED
    BY <1>5, <2>2, <2>3, <2>4, AwareBy
<1> QED
  BY <1>6, <1>7, <1>8

LEMMA AwareStep == Sole => (Typed /\ Aware /\ InPlace /\ [Next]_vars => Aware')
<1> SUFFICES ASSUME Sole, Typed, Aware, InPlace, [Next]_vars PROVE Aware'
  OBVIOUS
<1>1. ASSUME NEW w \in Workers, NEW r \in Runs, Complete(w, r) PROVE Aware'
  <2>1. \A v \in Workers : workers'[v].pc = "idle"
    BY <1>1 DEF Complete, At, Sole
  <2>2. \A v \in Workers : Knows(workers'[v], done', project', issues', comments')
    BY <2>1 DEF Knows, Informed, Calling, Ignoring
  <2> QED
    BY <2>2, FoundStep DEF Aware, Knows
<1>2. CASE Users \/ UNCHANGED vars
  <2>1. UNCHANGED <<done, project, workers>>
    BY <1>2 DEF Users, CloseIssue, ReopenIssue, DeleteIssue, DeleteComment, ours, vars
  <2> QED
    BY <2>1, AwareStill
<1>3. ASSUME NEW w \in Workers, Work(w) \/ Fault(w) PROVE Aware'
  <2>1. ASSUME NEW ack \in BOOLEAN, RecordIssue(w, ack) PROVE Aware'
    BY <2>1, AwareOfNothing DEF RecordIssue
  <2>2. CASE \/ EnqueueCreateIssue(w) \/ StoreCommentId(w) \/ Settle(w) \/ MarkSyncFailed(w)
             \/ Fails(w) \/ Abandon(w) \/ \E r \in Runs, t \in Types : Dequeue(w, r, t)
    BY <2>2, AwareOfNothing DEF EnqueueCreateIssue, StoreCommentId, Settle, AfterSettle,
       MarkSyncFailed, Fails, Abandon, Dequeue
  <2> QED
    BY <1>3, <2>1, <2>2, AwareRead, AwareLooks, AwareGivesUp, AwareCreates DEF Work, Handle, Fault
<1> QED
  BY <1>1, <1>2, <1>3 DEF Next, Import

(* The dashboard is missing although users left everything alone, or it      *)
(* shows an older run on an issue that is open: a job is to do that.         *)
Missing == project.comment = Null /\ Untouched

Stale ==
  /\ done # <<>> /\ project.comment # Null
  /\ comments[project.comment].shows \notin {done[Len(done)], None}
  /\ issues[project.issue] = "open"

Finishing(s, r, t) == s.pc = "settle" /\ s.run = r /\ s.type = t /\ s.completed

Unfinished(r, t) ==
  /\ jobs[r][t].status # "completed"
  /\ \A w \in Workers : ~ Finishing(workers[w], r, t)

Dashboards == {"create_dashboard_comment", "update_dashboard_comment"}

Asked ==
  /\ Missing =>
       \A r \in Runs :
         /\ Completed(r) => jobs[r]["create_dashboard_comment"].status # "absent"
         /\ \A t \in Dashboards : Unfinished(r, t)
  /\ Stale =>
       /\ jobs[done[Len(done)]]["update_dashboard_comment"].status # "absent"
       /\ Unfinished(done[Len(done)], "update_dashboard_comment")

\* The comment of the row changes by these steps only.
CommentRow ==
  \/ project'.comment = project.comment
  \/ \E w \in Workers :
       \/ /\ At(w, "store") /\ project'.comment = workers[w].made
          /\ project'.issue = project.issue /\ UNCHANGED github
       \/ At(w, "clear") /\ project'.comment = Null
       \/ At(w, "forget") /\ project'.comment = Null

LEMMA CommentRows == Typed /\ [Next]_vars => CommentRow
<1> SUFFICES ASSUME Typed, [Next]_vars PROVE CommentRow
  OBVIOUS
<1>p. project \in Project
  BY DEF Typed, TypeOK
<1>0. CASE UNCHANGED project
  BY <1>0 DEF CommentRow
<1>1. ASSUME NEW w \in Workers, Work(w) \/ Fault(w) PROVE CommentRow
  <2>1. CASE StoreCommentId(w) \/ ClearIssueInfo(w) \/ ClearCommentId(w)
    BY <1>p, <2>1 DEF StoreCommentId, ClearIssueInfo, ClearCommentId, CommentRow, Project, At
  <2>2. CASE (\E ack \in BOOLEAN : RecordIssue(w, ack)) \/ MarkSyncFailed(w)
    BY <1>p, <2>2 DEF RecordIssue, MarkSyncFailed, CommentRow, Project
  <2> QED
    BY <1>0, <1>1, <2>1, <2>2 DEF Work, Handle, Fault, Read, CheckIssue, JudgeTree, WeighResult,
       CreateIssue, InsertIssueHistory, EnqueueCreateIssue, CreateComment, UpdateComment,
       Settle, Dequeue, Fails, Ignored, Abandon
<1>2. Import \/ Users \/ UNCHANGED vars => UNCHANGED project
  BY DEF Import, Complete, Users, CloseIssue, ReopenIssue, DeleteIssue, DeleteComment, ours, vars
<1> QED
  BY <1>0, <1>1, <1>2 DEF Next

LEMMA MissingBefore == Typed /\ InPlace /\ Aware /\ [Next]_vars /\ Missing' => Missing
<1> SUFFICES ASSUME Typed, InPlace, Aware, [Next]_vars, Missing' PROVE Missing
  OBVIOUS
<1>1. Untouched /\ CommentRow
  BY UntouchedBefore, CommentRows DEF Missing
<1>2. project'.comment = Null
  BY DEF Missing
<1>3. ASSUME NEW w \in Workers, At(w, "store"), project'.comment = workers[w].made PROVE FALSE
  <2>1. workers[w].made \in DOMAIN comments /\ comments \in Seq(Comment)
    BY <1>3 DEF InPlace, Looks, At, Typed, TypeOK
  <2> QED
    BY <1>2, <1>3, <2>1 DEF Null
<1>4. ASSUME NEW w \in Workers, At(w, "clear") PROVE FALSE
  BY <1>1, <1>4 DEF Aware, Knows, At, Untouched
<1>5. ASSUME NEW w \in Workers, At(w, "forget") PROVE FALSE
  <2>1. project.comment \in DOMAIN comments /\ comments[project.comment].shows = None
    BY <1>5 DEF Aware, Knows, At, InPlace, OnIssue
  <2> QED
    BY <1>1, <2>1 DEF Untouched
<1> QED
  BY <1>1, <1>2, <1>3, <1>4, <1>5 DEF CommentRow, Missing

LEMMA StaleBefore ==
  Typed /\ InPlace /\ InPlace' /\ Aware /\ [Next]_vars /\ UNCHANGED done /\ Stale' => Stale
<1> SUFFICES ASSUME Typed, InPlace, InPlace', Aware, [Next]_vars, UNCHANGED done, Stale'
             PROVE  Stale
  OBVIOUS
<1> DEFINE l == done[Len(done)]
<1>1. IssuesAge /\ CommentsStay /\ CommentsAge /\ RowStep /\ CommentRow
  BY IssuesOnlyAge, CommentsAreNotMoved, CommentsOnlyAge, RowSteps, CommentRows
<1>2. /\ done # <<>> /\ project'.comment # Null /\ project'.issue # Null
      /\ comments'[project'.comment].shows \notin {l, None}
      /\ issues'[project'.issue] = "open"
  BY DEF Stale, InPlace, OnIssue
<1>3. ASSUME NEW w \in Workers, At(w, "store"), project'.comment = workers[w].made,
             UNCHANGED github
      PROVE  FALSE
  BY <1>2, <1>3 DEF Aware, Knows, At, github
<1>4. project'.comment = project.comment
  BY <1>1, <1>2, <1>3 DEF CommentRow
<1>5. project.issue # Null /\ project.comment \in DOMAIN comments /\ project.issue \in DOMAIN issues
  BY <1>2, <1>4 DEF InPlace, OnIssue, Aware, Found
<1>6. project'.issue = project.issue
  BY <1>1, <1>2, <1>5 DEF RowStep
<1>7. comments[project.comment].shows \notin {l, None}
  <2>1. \A w \in Workers : At(w, "edit") => workers[w].latest = l
    BY DEF Aware, Knows, At, Informed, Calling
  <2> QED
    BY <1>1, <1>2, <1>4, <1>5, <2>1 DEF CommentsAge, Edits
<1> QED
  BY <1>1, <1>2, <1>4, <1>5, <1>6, <1>7 DEF Stale, IssuesAge

(* The steps with which a handler of a dashboard job concludes that it is    *)
(* completed                                                                 *)
Concludes(w) ==
  \/ /\ workers[w].type = "create_dashboard_comment" /\ project.comment # Null
     /\ UNCHANGED project
  \/ /\ workers[w].pc \in {"check", "judge"} /\ workers[w].issue = project.issue
     /\ project.issue \in DOMAIN issues /\ issues[project.issue] # "open"
     /\ UNCHANGED <<project, github>>
  \/ At(w, "store") /\ project'.comment = workers[w].made /\ UNCHANGED github
  \/ At(w, "edit") /\ Edits(w, project.comment) /\ UNCHANGED project

LEMMA Conclusions ==
  ASSUME Typed, InPlace, Aware, NEW w \in Workers, Calls(w), NEW r \in Runs, NEW t \in Dashboards,
         Finishing(workers'[w], r, t)
  PROVE  Concludes(w) /\ workers[w].run = r /\ workers[w].type = t
<1> DEFINE me == workers[w]
<1>0. /\ me \in Worker /\ Knows(me, done, project, issues, comments)
      /\ Looks(me, project, comments) /\ OnIssue(project, comments) /\ Found
      /\ project \in Project /\ comments \in Seq(Comment)
  BY DEF Aware, Typed, TypeOK, InPlace
<1>1. workers'[w].pc = "settle" /\ workers'[w].completed /\ workers'[w].run = r
      /\ workers'[w].type = t /\ t \notin {"create_issue", "create_run_result_comment"}
  BY DEF Finishing, Dashboards
<1>w. \A s : Become(w, s) => workers'[w] = s
  BY DEF Become, Typed, TypeOK
<1>2. ASSUME NEW b, Conclude(w, b) PROVE b /\ me.run = r /\ me.type = t
  <2> DEFINE s == [Idle EXCEPT !.pc = "settle", !.run = workers[w].run,
                               !.type = workers[w].type, !.completed = b]
  <2>1. s.run = me.run /\ s.type = me.type /\ s.completed = b
    BY DEF Idle
  <2>2. workers'[w] = s
    BY <1>w, <1>2 DEF Conclude
  <2> HIDE DEF s
  <2> QED
    BY <1>1, <2>1, <2>2
<1>3. ASSUME NEW pc, Step(w, pc) PROVE pc = "settle"
  <2> DEFINE s == [me EXCEPT !.pc = pc]
  <2>1. s.pc = pc /\ workers'[w] = s
    BY <1>0, <1>w, <1>3 DEF Step, Worker
  <2> HIDE DEF s
  <2> QED
    BY <1>1, <2>1
<1>4. ~ Become(w, Idle)
  BY <1>1, <1>w DEF Idle
<1>5. CASE Read(w)
  <2>1. ASSUME NEW pc \in {"create", "check"}, Become(w, [Snapshot(w) EXCEPT !.pc = pc])
        PROVE  FALSE
    BY <1>0, <1>1, <1>w, <2>1 DEF Snapshot, Worker
  <2> QED
    BY <1>1, <1>2, <1>5, <2>1 DEF Read, Concludes
<1>6. CASE CheckIssue(w)
  <2>1. me.issue = project.issue /\ project.issue \in DOMAIN issues /\ me.pc = "check"
    BY <1>0, <1>6 DEF CheckIssue, At, Looks, Looking, Found
  <2>2. issues[me.issue] = "closed" /\ \E b : Conclude(w, b)
    BY <1>3, <1>6 DEF CheckIssue
  <2> QED
    BY <1>2, <1>6, <2>1, <2>2 DEF CheckIssue, Concludes
<1>7. CASE JudgeTree(w)
  <2>1. \E b : Conclude(w, b)
    BY <1>3, <1>7 DEF JudgeTree
  <2>2. me.issue = project.issue /\ project.issue \in DOMAIN issues /\ issues[project.issue] # "open"
    BY <1>0, <1>7 DEF JudgeTree, At, Knows
  <2> QED
    BY <1>2, <1>7, <2>1, <2>2 DEF JudgeTree, Concludes, At
<1>8. CASE StoreCommentId(w)
  BY <1>0, <1>2, <1>8 DEF StoreCommentId, Concludes, Project
<1>9. ASSUME NEW ack \in BOOLEAN, UpdateComment(w, ack) PROVE Concludes(w) /\ me.run = r /\ me.type = t
  <2>1. /\ comments[me.comment].shows # None
        /\ comments' = [comments EXCEPT ![me.comment].shows = me.latest]
        /\ Conclude(w, ack) /\ UNCHANGED project /\ me.pc = "edit"
    BY <1>3, <1>9 DEF UpdateComment, At
  <2>2. me.comment = project.comment /\ me.comment \in DOMAIN comments
    BY <1>0, <2>1 DEF Knows, OnIssue
  <2>3. comments[me.comment] \in Comment /\ comments'[me.comment] = [comments[me.comment] EXCEPT !.shows = me.latest]
    BY <1>0, <2>1, <2>2
  <2>4. comments'[me.comment].shows = me.latest
    BY <2>3 DEF Comment
  <2> QED
    BY <1>2, <2>1, <2>2, <2>4 DEF Concludes, Edits, At
<1>10. ASSUME NEW ack \in BOOLEAN,
              RecordIssue(w, ack) \/ CreateIssue(w, ack) \/ CreateComment(w, ack)
       PROVE  FALSE
  <2>1. CASE RecordIssue(w, ack)
    BY <1>0, <1>1, <1>2, <2>1 DEF RecordIssue, Knows, At
  <2>2. CASE CreateIssue(w, ack)
    <3> DEFINE s == [workers[w] EXCEPT !.pc = "record", !.made = Len(issues')]
    <3>1. s.pc = "record"
      BY <1>0 DEF Worker
    <3>2. Become(w, s) \/ Conclude(w, FALSE)
      BY <2>2 DEF CreateIssue
    <3> HIDE DEF s
    <3> QED
      BY <1>1, <1>2, <1>w, <3>1, <3>2
  <2>3. CASE CreateComment(w, ack)
    <3> DEFINE s == [workers[w] EXCEPT !.pc = "store", !.made = Len(comments')]
    <3>1. s.pc = "store"
      BY <1>0 DEF Worker
    <3>2. \/ Become(w, s) \/ Conclude(w, FALSE)
          \/ workers[w].type = "create_run_result_comment" /\ Conclude(w, ack)
      BY <2>3 DEF CreateComment
    <3> HIDE DEF s
    <3> QED
      BY <1>1, <1>2, <1>w, <3>1, <3>2
  <2> QED
    BY <1>10, <2>1, <2>2, <2>3
<1>11. ~ WeighResult(w)
  BY <1>0, <1>1, <1>2, <1>3 DEF WeighResult, Knows, At
<1>12. ~ (InsertIssueHistory(w) \/ ClearIssueInfo(w) \/ EnqueueCreateIssue(w) \/ ClearCommentId(w))
  BY <1>2, <1>3 DEF InsertIssueHistory, ClearIssueInfo, EnqueueCreateIssue, ClearCommentId
<1>13. ~ (Fails(w) \/ Abandon(w))
       /\ ~ (~ At(w, "settle") /\ ~ At(w, "mark") /\ Ignored(w))
  BY <1>2, <1>3, <1>4 DEF Fails, Abandon, Ignored
<1> QED
  BY <1>5, <1>6, <1>7, <1>8, <1>9, <1>10, <1>11, <1>12, <1>13 DEF Calls

(* ... and then the dashboard is neither missing nor stale.                  *)
LEMMA NotInVain ==
  ASSUME Typed, InPlace, InPlace', Aware, [Next]_vars, NEW w \in Workers, Concludes(w),
         UNCHANGED done
  PROVE  ~ Missing' /\ (workers[w].type = "update_dashboard_comment" => ~ Stale')
<1>0. /\ Missing' => Missing
      /\ Stale' => Stale
  BY MissingBefore, StaleBefore
<1>k. /\ Knows(workers[w], done, project, issues, comments)
      /\ Looks(workers[w], project, comments) /\ OnIssue(project, comments)
      /\ comments \in Seq(Comment)
  BY DEF Aware, InPlace, Typed, TypeOK
<1>1. CASE workers[w].type = "create_dashboard_comment" /\ project.comment # Null
  BY <1>0, <1>1 DEF Missing
<1>2. CASE project.issue \in DOMAIN issues /\ issues[project.issue] # "open"
  BY <1>0, <1>2 DEF Missing, Stale, Untouched
<1>3. CASE At(w, "store") /\ project'.comment = workers[w].made /\ UNCHANGED github
  <2>1. workers[w].made # Null /\ comments'[workers[w].made].shows \in {done[Len(done)], None}
    BY <1>k, <1>3 DEF Knows, Looks, At, github, Null
  <2> QED
    BY <1>3, <2>1 DEF Missing, Stale
<1>4. CASE At(w, "edit") /\ Edits(w, project.comment) /\ UNCHANGED project
  <2>1. project.comment # Null /\ comments'[project.comment].shows = done[Len(done)]
    BY <1>k, <1>4 DEF Knows, At, Edits, Informed, Calling
  <2> QED
    BY <1>4, <2>1 DEF Missing, Stale
<1> QED
  BY <1>1, <1>2, <1>3, <1>4 DEF Concludes

LEMMA StaysUnfinished ==
  ASSUME Typed, InPlace, InPlace', Aware, Sole, [Next]_vars, ~ Import, UNCHANGED done,
         NEW r \in Runs, NEW t \in Dashboards, Unfinished(r, t),
         Missing' \/ (t = "update_dashboard_comment" /\ Stale')
  PROVE  /\ Unfinished(r, t)'
         /\ jobs[r][t].status # "absent" => jobs'[r][t].status # "absent"
<1>t. t \in Types /\ jobs \in [Runs -> [Types -> Job]] /\ jobs[r][t] \in Job
  BY DEF Dashboards, Types, Typed, TypeOK
<1>0. CASE UNCHANGED <<jobs, workers>>
  BY <1>0 DEF Unfinished
<1>1. ASSUME \A v \in Workers : workers'[v].pc # "settle", jobs'[r][t].status # "completed"
      PROVE  Unfinished(r, t)'
  <2>1. \A v \in Workers : ~ Finishing(workers'[v], r, t)
    BY <1>1 DEF Finishing
  <2> QED
    BY <1>1, <2>1 DEF Unfinished, Finishing
<1>2. ASSUME NEW w \in Workers, Calls(w)
      PROVE  /\ Unfinished(r, t)'
             /\ jobs[r][t].status # "absent" => jobs'[r][t].status # "absent"
  <2>1. jobs'[r][t] = jobs[r][t] \/ (jobs[r][t].status = "absent" /\ jobs'[r][t] = Queued)
    BY <1>t, <1>2, CallsGrow DEF JobsGrow
  <2>2. jobs'[r][t].status # "completed" /\ (jobs[r][t].status # "absent" => jobs'[r][t].status # "absent")
    BY <2>1 DEF Unfinished, Queued
  <2>3. ~ Finishing(workers'[w], r, t)
    BY <1>2, Conclusions, NotInVain
  <2>4. \A v \in Workers : ~ Finishing(workers'[v], r, t)
    BY <2>3 DEF Sole
  <2> QED
    BY <2>2, <2>4 DEF Unfinished, Finishing
<1>3. ASSUME NEW w \in Workers, NEW s, Become(w, s), s.pc # "settle"
      PROVE  \A v \in Workers : workers'[v].pc # "settle"
  BY <1>3 DEF Become, Typed, TypeOK, Sole
<1>4. ASSUME NEW w \in Workers, Become(w, Idle) \/ Step(w, "mark")
      PROVE  \A v \in Workers : workers'[v].pc # "settle"
  <2> DEFINE s == [workers[w] EXCEPT !.pc = "mark"]
  <2>1. s.pc = "mark"
    BY DEF Typed, TypeOK, Worker
  <2>2. Step(w, "mark") => Become(w, s)
    BY DEF Step
  <2> HIDE DEF s
  <2> QED
    BY <1>3, <1>4, <2>1, <2>2, IdleIsWorker
<1>5. ASSUME NEW w \in Workers, Settle(w)
      PROVE  /\ Unfinished(r, t)'
             /\ jobs[r][t].status # "absent" => jobs'[r][t].status # "absent"
  <2>1. PICK x \in {"completed", "failed", "pending"} :
          JobStatus(w, x) /\ (x = "completed" => workers[w].completed)
    BY <1>5 DEF Settle
  <2>2. \A v \in Workers : workers'[v].pc # "settle"
    BY <1>4, <1>5 DEF Settle, AfterSettle
  <2>3. CASE workers[w].run = r /\ workers[w].type = t
    <3>1. jobs'[r][t].status = x
      BY <1>t, <2>1, <2>3 DEF JobStatus, Job
    <3>2. x # "completed"
      BY <1>5, <2>1, <2>3 DEF Unfinished, Finishing, Settle, At
    <3> QED
      BY <1>1, <2>2, <3>1, <3>2
  <2>4. CASE ~ (workers[w].run = r /\ workers[w].type = t)
    <3>1. workers[w].run \in Runs /\ workers[w].type \in Types
      BY <1>5, Busy DEF Settle, At
    <3>2. jobs'[r][t] = jobs[r][t]
      BY <1>t, <2>1, <2>4, <3>1 DEF JobStatus
    <3> QED
      BY <1>1, <2>2, <3>2 DEF Unfinished
  <2> QED
    BY <2>3, <2>4
<1>6. ASSUME NEW w \in Workers,
             MarkSyncFailed(w) \/ ((At(w, "settle") \/ At(w, "mark")) /\ Ignored(w))
      PROVE  /\ Unfinished(r, t)'
             /\ jobs[r][t].status # "absent" => jobs'[r][t].status # "absent"
  <2>1. UNCHANGED jobs /\ (Become(w, Idle) \/ Step(w, "mark"))
    BY <1>6 DEF MarkSyncFailed, Ignored, AfterSettle, At
  <2> QED
    BY <1>1, <1>4, <2>1 DEF Unfinished
<1>7. ASSUME NEW w \in Workers, NEW q \in Runs, NEW u \in Types, Dequeue(w, q, u)
      PROVE  /\ Unfinished(r, t)'
             /\ jobs[r][t].status # "absent" => jobs'[r][t].status # "absent"
  <2> DEFINE s == [Idle EXCEPT !.pc = "read", !.run = q, !.type = u]
  <2>1. s.pc = "read" /\ Become(w, s)
    BY <1>7 DEF Dequeue, Idle
  <2> HIDE DEF s
  <2>2. jobs'[r][t] = jobs[r][t] \/ jobs'[r][t].status = "running"
    BY <1>t, <1>7 DEF Dequeue
  <2> QED
    BY <1>1, <1>3, <2>1, <2>2 DEF Unfinished
<1>8. Users \/ UNCHANGED vars => UNCHANGED <<jobs, workers>>
  BY DEF Users, CloseIssue, ReopenIssue, DeleteIssue, DeleteComment, ours, vars
<1> QED
  BY <1>0, <1>2, <1>5, <1>6, <1>7, <1>8, WorkerSteps DEF Next

LEMMA AskedAtImport ==
  ASSUME Typed, Asked, Sole, Missing' => Missing, NEW w \in Workers, NEW r \in Runs, Complete(w, r)
  PROVE  Asked'
<1> DEFINE fresh == [t \in Types |-> IF t \in FollowUps THEN Queued ELSE NoJob]
           create == "create_dashboard_comment"
           update == "update_dashboard_comment"
<1>t. create \in Types /\ update \in Types /\ Dashboards = {create, update}
  BY DEF Types, Dashboards
<1>1. jobs' = [jobs EXCEPT ![r] = fresh] /\ jobs \in [Runs -> [Types -> Job]]
      /\ done' = Append(done, r) /\ done \in Seq(Runs)
      /\ UNCHANGED <<project, workers, issues, comments>>
  BY DEF Complete, Typed, TypeOK, github
<1>2. \A v \in Workers : workers'[v].pc = "idle"
  BY <1>1 DEF Complete, At, Sole
<1>3. /\ project.comment = Null => fresh[create] = Queued
      /\ project.comment # Null => fresh[update] = Queued
      /\ \A t \in Types : fresh[t].status # "completed"
  BY <1>t DEF FollowUps, Queued, NoJob
<1> HIDE DEF fresh
<1>4. jobs'[r] = fresh /\ \A q \in Runs : q # r => jobs'[q] = jobs[q]
  BY <1>1
<1>5. done'[Len(done')] = r /\ \A q : Completed(q)' <=> Completed(q) \/ q = r
  BY <1>1, CompletedAppend
<1>6. ASSUME NEW q \in Runs, NEW t \in Types, jobs'[q][t].status # "completed"
      PROVE  Unfinished(q, t)'
  BY <1>2, <1>6 DEF Unfinished, Finishing
<1>7. ASSUME Missing', NEW q \in Runs
      PROVE  /\ Completed(q)' => jobs'[q][create].status # "absent"
             /\ \A t \in Dashboards : Unfinished(q, t)'
  <2>1. CASE q = r
    <3>1. jobs'[q][create] = Queued /\ \A t \in Types : jobs'[q][t].status # "completed"
      BY <1>3, <1>4, <1>7, <2>1 DEF Missing
    <3> QED
      BY <1>6, <1>t, <3>1 DEF Queued
  <2>2. CASE q # r
    BY <1>4, <1>5, <1>6, <1>7, <1>t, <2>2 DEF Asked, Unfinished
  <2> QED
    BY <2>1, <2>2
<1>8. ASSUME Stale' PROVE jobs'[r][update].status # "absent" /\ Unfinished(r, update)'
  <2>1. jobs'[r][update] = Queued
    BY <1>1, <1>3, <1>4, <1>8 DEF Stale
  <2> QED
    BY <1>6, <1>t, <2>1 DEF Queued
<1>9. Stale' => /\ jobs'[done'[Len(done')]][update].status # "absent"
                /\ Unfinished(done[Len(done)], update)'
  BY <1>5, <1>8 DEF Unfinished, Finishing
<1> QED
  BY <1>7, <1>9 DEF Asked

LEMMA AskedStep ==
  Sole => (Typed /\ InPlace /\ InPlace' /\ Aware /\ Asked /\ [Next]_vars => Asked')
<1> SUFFICES ASSUME Sole, Typed, InPlace, InPlace', Aware, Asked, [Next]_vars PROVE Asked'
  OBVIOUS
<1>0. Missing' => Missing
  BY MissingBefore
<1>1. ASSUME NEW w \in Workers, NEW r \in Runs, Complete(w, r) PROVE Asked'
  BY <1>0, <1>1, AskedAtImport
<1>2. CASE ~ Import
  <2>1. UNCHANGED done
    BY <1>2 DEF Next, Users, CloseIssue, ReopenIssue, DeleteIssue, DeleteComment, ours, vars,
       Work, Handle, Fault, Read, CheckIssue, JudgeTree, WeighResult, CreateIssue, RecordIssue,
       InsertIssueHistory, ClearIssueInfo, EnqueueCreateIssue, CreateComment, UpdateComment,
       StoreCommentId, ClearCommentId, Settle, MarkSyncFailed, Dequeue, Fails, Ignored, Abandon
  <2>2. Stale' => Stale
    BY <2>1, StaleBefore
  <2>3. ASSUME Missing', NEW r \in Runs
        PROVE  /\ Completed(r)' => jobs'[r]["create_dashboard_comment"].status # "absent"
               /\ \A t \in Dashboards : Unfinished(r, t)'
    <3>1. /\ Completed(r) => jobs[r]["create_dashboard_comment"].status # "absent"
          /\ \A t \in Dashboards : Unfinished(r, t)
      BY <1>0, <2>3 DEF Asked
    <3>2. Completed(r)' <=> Completed(r)
      BY <2>1 DEF Completed
    <3> QED
      BY <1>2, <2>1, <2>3, <3>1, <3>2, StaysUnfinished DEF Dashboards
  <2>4. ASSUME Stale'
        PROVE  /\ jobs'[done'[Len(done')]]["update_dashboard_comment"].status # "absent"
               /\ Unfinished(done[Len(done)], "update_dashboard_comment")'
    <3>1. PICK l \in Runs : l = done[Len(done)]
      BY <2>2, <2>4 DEF Stale, Typed, TypeOK
    <3>2. /\ jobs[l]["update_dashboard_comment"].status # "absent"
          /\ Unfinished(l, "update_dashboard_comment")
      BY <2>2, <2>4, <3>1 DEF Asked
    <3>3. /\ jobs'[l]["update_dashboard_comment"].status # "absent"
          /\ Unfinished(l, "update_dashboard_comment")'
      BY <1>2, <2>1, <2>4, <3>2, StaysUnfinished DEF Dashboards
    <3>4. l = done'[Len(done')]
      BY <2>1, <3>1
    <3> QED
      BY <3>3, <3>4 DEF Unfinished, Finishing
  <2> QED
    BY <2>3, <2>4 DEF Asked
<1> QED
  BY <1>1, <1>2 DEF Import

(* With one worker the dashboard is never left behind: once the dashboard    *)
(* jobs of the latest run are completed it exists, unless users closed or    *)
(* deleted something, and shows that run, whatever failed, was retried or    *)
(* arrived late in between.  A dashboard that is missing or shows an older   *)
(* run always has a job of the latest run that is not completed.             *)
THEOREM DashboardCurrent ==
  ASSUME \A v, w \in Workers : v = w
  PROVE  Spec => []DashboardIsCurrent
<1>0. Sole
  BY DEF Sole
<1>1. Init => InPlace /\ Aware /\ Asked
  BY DEF Init, InPlace, OnIssue, Looks, Looking, Idle, Null, Aware, Found, Knows, Informed,
     Calling, Ignoring, Asked, Missing, Stale, Untouched, Unfinished, Finishing, Completed, NoJob,
     Dashboards, Types
<1>2. Typed /\ InPlace /\ Asked => DashboardIsCurrent
  <2> SUFFICES ASSUME Typed, InPlace, Asked, DashboardIsSettled PROVE DashboardIsCurrent
    BY DEF DashboardIsCurrent
  <2> DEFINE l == done[Len(done)]
  <2>1. /\ done # <<>> /\ issues[project.issue] = "open"
        /\ \A t \in Dashboards : jobs[l][t].status # "absent" => jobs[l][t].status = "completed"
    BY DEF DashboardIsSettled, Dashboards
  <2>2. l \in Runs /\ Completed(l)
    BY <2>1 DEF Typed, TypeOK, Completed
  <2>3. ~ Missing
    BY <2>1, <2>2 DEF Asked, Unfinished, Dashboards
  <2>4. ~ Stale
    BY <2>1, <2>2 DEF Asked, Unfinished, Dashboards
  <2> QED
    BY <2>1, <2>3, <2>4 DEF DashboardIsCurrent, Missing, Stale, InPlace, OnIssue
<1>3. Typed /\ InPlace /\ Aware /\ Asked /\ [Next]_vars => (InPlace /\ Aware /\ Asked)'
  BY <1>0, InPlaceStep, AwareStep, AskedStep
<1> QED
  BY <1>1, <1>2, <1>3, TypedAlways, PTL DEF Spec
=============================================================================
