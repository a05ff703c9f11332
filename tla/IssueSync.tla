------------------------------ MODULE IssueSync ------------------------------
(***************************************************************************)
(* The GitHub issue of one board project and its dashboard comment, as the *)
(* GitHub jobs of the runs of that project keep them up to date.           *)
(*                                                                         *)
(* A worker takes a job, reads the project row without a lock, calls       *)
(* GitHub, and stores the answer: each of these is a step, and between two *)
(* of them another worker, or a user on GitHub, may act.  The dispatcher   *)
(* completes, reschedules or gives up the job afterwards, in a statement   *)
(* whose error it ignores.                                                 *)
(*                                                                         *)
(* The import that ends a run is one step here, its commit: BoardRuns has  *)
(* the rest of it.                                                         *)
(***************************************************************************)
EXTENDS Naturals, Sequences

CONSTANTS
  Runs,         \* the runs of the project that are imported
  Workers,      \* the worker processes
  MaxAttempts,  \* MAX_ATTEMPTS
  Tree,         \* the tree_hash of each run
  Errors,       \* the number of errors its checks found
  None          \* no run

ASSUME MaxAttemptsAssumption == MaxAttempts \in Nat \ {0}
ASSUME NoneAssumption == None \notin Runs
ASSUME ErrorsAssumption == Errors \in [Runs -> Nat]

VARIABLES
  done,      \* the completed runs of the project, by completed_at
  project,   \* the columns of the board_projects row that concern the issue
  history,   \* the issues in board_project_issue_history
  jobs,      \* the GitHub jobs of each run
  issues,    \* GitHub: the state of each issue created for the project
  comments,  \* GitHub: the dashboard comments, the issue they are on, the run they show
  results,   \* GitHub: the runs with a result comment
  workers    \* the program counter and the locals of each worker

github == <<issues, comments, results>>
vars == <<done, project, history, jobs, github, workers>>

-----------------------------------------------------------------------------
Types == {"create_issue", "create_dashboard_comment", "update_dashboard_comment",
          "create_run_result_comment"}

\* Issues and comments are numbered from 1; Null is the NULL of their columns.
Null == 0

Project == [issue : Nat, comment : Nat, sync : {"pending", "synced", "failed"},
            recreate : BOOLEAN]

Job == [status : {"absent", "pending", "running", "completed", "failed"},
        attempts : 0..MaxAttempts]

IssueState == {"open", "closed", "reopened", "deleted"}

Comment == [on : Nat, shows : Runs \cup {None}]

Calling == {"read", "create", "record", "check", "judge", "weigh", "post", "store", "edit"}
Ignoring == {"archive", "clear", "again", "forget"}

Worker == [pc : {"idle", "settle", "mark"} \cup Calling \cup Ignoring,
           run : Runs \cup {None}, type : Types,
           issue : Nat, comment : Nat, latest : Runs \cup {None},  \* the row as read
           made : Nat,            \* the issue or comment GitHub created
           completed : BOOLEAN]   \* HandlerResult: Completed, or else Reschedule

NoJob == [status |-> "absent", attempts |-> 0]
Queued == [status |-> "pending", attempts |-> 0]
Idle == [pc |-> "idle", run |-> None, type |-> "create_issue", issue |-> Null,
         comment |-> Null, latest |-> None, made |-> Null, completed |-> FALSE]

TypeOK ==
  /\ done \in Seq(Runs)
  /\ project \in Project
  /\ history \subseteq Nat
  /\ jobs \in [Runs -> [Types -> Job]]
  /\ issues \in Seq(IssueState)
  /\ comments \in Seq(Comment)
  /\ results \subseteq Runs
  /\ workers \in [Workers -> Worker]

Init ==
  /\ done = <<>>
  /\ \E recreate \in BOOLEAN :
       project = [issue |-> Null, comment |-> Null, sync |-> "pending", recreate |-> recreate]
  /\ history = {}
  /\ jobs = [r \in Runs |-> [t \in Types |-> NoJob]]
  /\ issues = <<>>
  /\ comments = <<>>
  /\ results = {}
  /\ workers = [w \in Workers |-> Idle]

-----------------------------------------------------------------------------
(* Reading the state                                                         *)

At(w, pc) == workers[w].pc = pc

Completed(r) == \E i \in DOMAIN done : done[i] = r

\* find_previous_completed: the run completed last, but for r.
Previous(r) ==
  LET others == {i \in DOMAIN done : done[i] # r}
  IN  IF others = {} THEN None
      ELSE done[CHOOSE i \in others : \A j \in others : j <= i]

\* tree_hash_changed
TreeHashChanged(r) == Previous(r) = None \/ Tree[Previous(r)] # Tree[r]

\* should_post_run_result: the checks went from pass to fail or back, or found more errors.
ShouldPostRunResult(r) ==
  LET p == Previous(r)
  IN  /\ p # None
      /\ \/ (Errors[p] = 0) # (Errors[r] = 0)
         \/ Errors[r] > Errors[p]

-----------------------------------------------------------------------------
(* Steps of a worker                                                         *)

Become(w, state) == workers' = [workers EXCEPT ![w] = state]
Step(w, pc) == Become(w, [workers[w] EXCEPT !.pc = pc])

\* The handler returns Completed, or Reschedule.
Conclude(w, completed) ==
  Become(w, [Idle EXCEPT !.pc = "settle", !.run = workers[w].run, !.type = workers[w].type,
                         !.completed = completed])

JobStatus(w, status) ==
  jobs' = [jobs EXCEPT ![workers[w].run][workers[w].type].status = status]

\* github_job::enqueue: ON CONFLICT DO NOTHING, whatever became of the job there is.
Enqueue(r, t) ==
  jobs' = IF jobs[r][t].status = "absent" THEN [jobs EXCEPT ![r][t] = Queued] ELSE jobs

\* enqueue_follow_up_jobs
FollowUps ==
  {"create_run_result_comment"}
  \cup (IF project.issue = Null THEN {"create_issue"} ELSE {})
  \cup (IF project.comment = Null
        THEN {"create_dashboard_comment"} ELSE {"update_dashboard_comment"})

(* The import of run r commits: the run is completed, it is the latest of    *)
(* the project, and its follow-up jobs are enqueued.  The transaction holds  *)
(* the lock of the project row from the update of latest_completed_run_id.   *)
Complete(w, r) ==
  /\ At(w, "idle")
  /\ ~ Completed(r)
  /\ done' = Append(done, r)
  /\ jobs' = [jobs EXCEPT ![r] = [t \in Types |-> IF t \in FollowUps THEN Queued ELSE NoJob]]
  /\ UNCHANGED <<project, history, github, workers>>

\* Mutants of Dequeue: it takes a job that is running, or does not count the attempt.
DequeueRunning(w, r, t) ==
  /\ At(w, "idle")
  /\ jobs[r][t].status \in {"pending", "running"}
  /\ jobs' = [jobs EXCEPT ![r][t] = [status |-> "running", attempts |-> jobs[r][t].attempts + 1]]
  /\ Become(w, [Idle EXCEPT !.pc = "read", !.run = r, !.type = t])
  /\ UNCHANGED <<done, project, history, github>>

DequeueUncounted(w, r, t) ==
  /\ At(w, "idle")
  /\ jobs[r][t].status = "pending"
  /\ jobs' = [jobs EXCEPT ![r][t] = [status |-> "running", attempts |-> jobs[r][t].attempts]]
  /\ Become(w, [Idle EXCEPT !.pc = "read", !.run = r, !.type = t])
  /\ UNCHANGED <<done, project, history, github>>

Dequeue(w, r, t) ==
  /\ At(w, "idle")
  /\ jobs[r][t].status = "pending"
  /\ jobs' = [jobs EXCEPT ![r][t] = [status |-> "running", attempts |-> jobs[r][t].attempts + 1]]
  /\ Become(w, [Idle EXCEPT !.pc = "read", !.run = r, !.type = t])
  /\ UNCHANGED <<done, project, history, github>>

\* Mutant of Snapshot: the dashboard is to show the run of the job.
SnapshotOfOwnRun(w) ==
  [workers[w] EXCEPT !.issue = project.issue, !.comment = project.comment,
                     !.latest = workers[w].run]

\* What a handler goes on with: latest_completed_run_id is set since the first import,
\* so that the handlers never fall back on the run of the job.
Snapshot(w) ==
  [workers[w] EXCEPT !.issue = project.issue, !.comment = project.comment,
                     !.latest = done[Len(done)]]

\* A handler reads the project, without a lock, and looks whether there is work to do.
Read(w) ==
  /\ At(w, "read")
  /\ \/ /\ workers[w].type = "create_issue"
        /\ IF project.issue = Null
           THEN Become(w, [Snapshot(w) EXCEPT !.pc = "create"])
           ELSE Conclude(w, TRUE)
     \/ /\ workers[w].type # "create_issue"
        /\ IF project.issue = Null THEN Conclude(w, FALSE)
           ELSE IF workers[w].type = "create_dashboard_comment" /\ project.comment # Null
           THEN Conclude(w, TRUE)
           ELSE Become(w, [Snapshot(w) EXCEPT !.pc = "check"])
  /\ UNCHANGED <<done, project, history, jobs, github>>

-----------------------------------------------------------------------------
(* create_issue                                                              *)

\* GitHub creates the issue; its answer may be lost.
CreateIssue(w, ack) ==
  /\ At(w, "create")
  /\ issues' = Append(issues, "open")
  /\ IF ack THEN Become(w, [workers[w] EXCEPT !.pc = "record", !.made = Len(issues')])
            ELSE Conclude(w, FALSE)
  /\ UNCHANGED <<done, project, history, jobs, comments, results>>

\* Mutant of RecordIssue: it does not look again under the lock.
RecordWithoutCheck(w, ack) ==
  /\ At(w, "record")
  /\ project' = [project EXCEPT !.issue = workers[w].made, !.sync = "synced"]
  /\ Enqueue(workers[w].run, "create_dashboard_comment")
  /\ Conclude(w, ack)
  /\ UNCHANGED <<done, history, github>>

(* One transaction under the lock of the project row: unless another handler *)
(* was faster, the issue becomes that of the project and the job of its      *)
(* dashboard is enqueued.  The acknowledgement of the commit may be lost.    *)
RecordIssue(w, ack) ==
  /\ At(w, "record")
  /\ IF project.issue # Null
     THEN UNCHANGED <<project, jobs>>
     ELSE /\ project' = [project EXCEPT !.issue = workers[w].made, !.sync = "synced"]
          /\ Enqueue(workers[w].run, "create_dashboard_comment")
  /\ Conclude(w, ack)
  /\ UNCHANGED <<done, history, github>>

-----------------------------------------------------------------------------
(* The comment handlers look at the issue first                              *)

\* get_issue: open, closed and not to be created again, closed, or not found.
CheckIssue(w) ==
  /\ At(w, "check")
  /\ LET state == issues[workers[w].issue]
     IN  \/ /\ state \in {"open", "reopened"}
            /\ \/ /\ workers[w].type = "create_run_result_comment"
                  /\ Step(w, "weigh")
               \/ /\ workers[w].type = "update_dashboard_comment"
                  /\ Step(w, IF workers[w].comment = Null THEN "post" ELSE "edit")
               \/ /\ workers[w].type = "create_dashboard_comment"
                  /\ Step(w, "post")
         \/ /\ state = "closed"
            /\ IF project.recreate THEN Step(w, "judge") ELSE Conclude(w, TRUE)
         \/ /\ state = "deleted"
            /\ Step(w, "archive")
  /\ UNCHANGED <<done, project, history, jobs, github>>

JudgeTree(w) ==
  /\ At(w, "judge")
  /\ IF TreeHashChanged(workers[w].latest) THEN Step(w, "archive") ELSE Conclude(w, TRUE)
  /\ UNCHANGED <<done, project, history, jobs, github>>

\* Three statements of their own, whose errors are ignored, give the issue up.
InsertIssueHistory(w) ==
  /\ At(w, "archive")
  /\ history' = history \cup {workers[w].issue}
  /\ Step(w, "clear")
  /\ UNCHANGED <<done, project, jobs, github>>

\* Mutants of ClearIssueInfo: it keeps the status, or the comment.
ClearKeepsStatus(w) ==
  /\ At(w, "clear")
  /\ project' = [project EXCEPT !.issue = Null, !.comment = Null]
  /\ Step(w, "again")
  /\ UNCHANGED <<done, history, jobs, github>>

ClearKeepsComment(w) ==
  /\ At(w, "clear")
  /\ project' = [project EXCEPT !.issue = Null, !.sync = "pending"]
  /\ Step(w, "again")
  /\ UNCHANGED <<done, history, jobs, github>>

ClearIssueInfo(w) ==
  /\ At(w, "clear")
  /\ project' = [project EXCEPT !.issue = Null, !.comment = Null, !.sync = "pending"]
  /\ Step(w, "again")
  /\ UNCHANGED <<done, history, jobs, github>>

EnqueueCreateIssue(w) ==
  /\ At(w, "again")
  /\ Enqueue(workers[w].run, "create_issue")
  /\ Conclude(w, FALSE)
  /\ UNCHANGED <<done, project, history, github>>

-----------------------------------------------------------------------------
(* Comments                                                                  *)

\* create_run_result_comment decides whether the run is worth a comment.
WeighResult(w) ==
  /\ At(w, "weigh")
  /\ IF ShouldPostRunResult(workers[w].run) THEN Step(w, "post") ELSE Conclude(w, TRUE)
  /\ UNCHANGED <<done, project, history, jobs, github>>

\* GitHub creates a comment, unless the issue was deleted; its answer may be lost.
CreateComment(w, ack) ==
  /\ At(w, "post")
  /\ IF issues[workers[w].issue] = "deleted"
     THEN Conclude(w, FALSE) /\ UNCHANGED github
     ELSE IF workers[w].type = "create_run_result_comment"
     THEN /\ results' = results \cup {workers[w].run}
          /\ Conclude(w, ack)
          /\ UNCHANGED <<issues, comments>>
     ELSE /\ comments' = Append(comments, [on |-> workers[w].issue, shows |-> workers[w].latest])
          /\ IF ack THEN Become(w, [workers[w] EXCEPT !.pc = "store", !.made = Len(comments')])
                    ELSE Conclude(w, FALSE)
          /\ UNCHANGED <<issues, results>>
  /\ UNCHANGED <<done, project, history, jobs>>

\* update_dashboard_comment_id, whatever the row holds by now.
StoreCommentId(w) ==
  /\ At(w, "store")
  /\ project' = [project EXCEPT !.comment = workers[w].made]
  /\ Conclude(w, TRUE)
  /\ UNCHANGED <<done, history, jobs, github>>

\* GitHub edits the dashboard comment, unless it was deleted; its answer may be lost.
UpdateComment(w, ack) ==
  /\ At(w, "edit")
  /\ IF comments[workers[w].comment].shows = None
     THEN Step(w, "forget") /\ UNCHANGED comments
     ELSE /\ comments' = [comments EXCEPT ![workers[w].comment].shows = workers[w].latest]
          /\ Conclude(w, ack)
  /\ UNCHANGED <<done, project, history, jobs, issues, results>>

ClearCommentId(w) ==
  /\ At(w, "forget")
  /\ project' = [project EXCEPT !.comment = Null]
  /\ Step(w, "post")
  /\ UNCHANGED <<done, history, jobs, github>>

-----------------------------------------------------------------------------
(* The dispatcher                                                            *)

\* Mutant of GivesUp: one attempt too many.
GivesUpLate(w) ==
  ~ workers[w].completed /\ jobs[workers[w].run][workers[w].type].attempts > MaxAttempts

GivesUp(w) ==
  ~ workers[w].completed /\ jobs[workers[w].run][workers[w].type].attempts >= MaxAttempts

\* A job of type create_issue that is given up leaves a mark on the project.
AfterSettle(w) ==
  IF GivesUp(w) /\ workers[w].type = "create_issue" THEN Step(w, "mark") ELSE Become(w, Idle)

Settle(w) ==
  /\ At(w, "settle")
  /\ JobStatus(w, IF workers[w].completed THEN "completed"
                  ELSE IF GivesUp(w) THEN "failed" ELSE "pending")
  /\ AfterSettle(w)
  /\ UNCHANGED <<done, project, history, github>>

MarkSyncFailed(w) ==
  /\ At(w, "mark")
  /\ project' = [project EXCEPT !.sync = "failed"]
  /\ Become(w, Idle)
  /\ UNCHANGED <<done, history, jobs, github>>

-----------------------------------------------------------------------------
(* What goes wrong                                                           *)

\* A statement fails, GitHub refuses a call or is not reached, or there is no client.
Fails(w) ==
  /\ workers[w].pc \in Calling
  /\ Conclude(w, FALSE)
  /\ UNCHANGED <<done, project, history, jobs, github>>

\* The statements whose error the code ignores.
Ignored(w) ==
  /\ \/ At(w, "archive") /\ Step(w, "clear")
     \/ At(w, "clear") /\ Step(w, "again")
     \/ At(w, "again") /\ Conclude(w, FALSE)
     \/ At(w, "forget") /\ Step(w, "post")
     \/ At(w, "settle") /\ AfterSettle(w)
     \/ At(w, "mark") /\ Become(w, Idle)
  /\ UNCHANGED <<done, project, history, jobs, github>>

\* The process stops, or select! drops the handler for a tick of an interval.
Abandon(w) ==
  /\ ~ At(w, "idle")
  /\ Become(w, Idle)
  /\ UNCHANGED <<done, project, history, jobs, github>>

-----------------------------------------------------------------------------
(* Users of GitHub                                                           *)

ours == <<done, project, history, jobs, results, workers>>

IssueBecomes(i, state) == issues' = [issues EXCEPT ![i] = state]

CloseIssue(i) ==
  /\ issues[i] \in {"open", "reopened"}
  /\ IssueBecomes(i, "closed")
  /\ UNCHANGED <<ours, comments>>

ReopenIssue(i) ==
  /\ issues[i] = "closed"
  /\ IssueBecomes(i, "reopened")
  /\ UNCHANGED <<ours, comments>>

\* The comments of an issue go with it.
DeleteIssue(i) ==
  /\ issues[i] # "deleted"
  /\ IssueBecomes(i, "deleted")
  /\ comments' = [c \in DOMAIN comments |->
                    IF comments[c].on = i THEN [comments[c] EXCEPT !.shows = None]
                    ELSE comments[c]]
  /\ UNCHANGED ours

DeleteComment(c) ==
  /\ comments[c].shows # None
  /\ comments' = [comments EXCEPT ![c].shows = None]
  /\ UNCHANGED <<ours, issues>>

-----------------------------------------------------------------------------
Import == \E w \in Workers, r \in Runs : Complete(w, r)

Handle(w) ==
  \/ Read(w)
  \/ CreateIssue(w, TRUE)
  \/ RecordIssue(w, TRUE)
  \/ CheckIssue(w)
  \/ JudgeTree(w)
  \/ InsertIssueHistory(w)
  \/ ClearIssueInfo(w)
  \/ EnqueueCreateIssue(w)
  \/ WeighResult(w)
  \/ CreateComment(w, TRUE)
  \/ StoreCommentId(w)
  \/ UpdateComment(w, TRUE)
  \/ ClearCommentId(w)
  \/ Settle(w)
  \/ MarkSyncFailed(w)

\* One round of poll_and_dispatch.
Work(w) == Handle(w) \/ \E r \in Runs, t \in Types : Dequeue(w, r, t)

Fault(w) ==
  \/ CreateIssue(w, FALSE)
  \/ RecordIssue(w, FALSE)
  \/ CreateComment(w, FALSE)
  \/ UpdateComment(w, FALSE)
  \/ Fails(w)
  \/ Ignored(w)
  \/ Abandon(w)

Users ==
  \/ \E i \in DOMAIN issues : CloseIssue(i) \/ ReopenIssue(i) \/ DeleteIssue(i)
  \/ \E c \in DOMAIN comments : DeleteComment(c)

Next == Import \/ Users \/ \E w \in Workers : Work(w) \/ Fault(w)

Spec == Init /\ [][Next]_vars

\* The workers go on polling, and the statements they await come to an end.
FairSpec == Spec /\ \A w \in Workers : WF_vars(Work(w))

\* The behaviours in which nothing fails and nothing is abandoned.
SmoothSpec == Init /\ [][Import \/ Users \/ \E w \in Workers : Work(w)]_vars

-----------------------------------------------------------------------------
(* Properties                                                                *)

\* The issue of the project is never replaced by another in one step: of two
\* handlers that both called GitHub, the second finds the issue of the first when
\* it looks again under the lock (create_issue.rs, phase 3).
IssueIsKept == [][project.issue # Null => project'.issue \in {project.issue, Null}]_vars

\* The sync status that the web UI shows agrees with the issue, whichever handlers
\* recorded and cleared issues in between; "failed" is the one status that says
\* nothing of it, but then a create_issue job did use up its attempts.
SyncStatusIsTrue ==
  /\ project.sync = "synced" => project.issue # Null
  /\ project.sync = "pending" => project.issue = Null
  /\ project.sync = "failed" => \E r \in Runs : jobs[r]["create_issue"].attempts = MaxAttempts

\* The dispatcher takes no job more often than MAX_ATTEMPTS, gives none up before,
\* and a job is handled by the worker that took it and no other.
JobsAreBounded ==
  /\ \A r \in Runs, t \in Types :
       /\ jobs[r][t].attempts <= MaxAttempts
       /\ jobs[r][t].status = "failed" => jobs[r][t].attempts = MaxAttempts
  /\ \A v, w \in Workers :
       ~ At(v, "idle") /\ workers[v].run = workers[w].run /\ workers[v].type = workers[w].type
         => v = w

\* With one worker the dashboard the project names is on the issue it names.
CommentIsOnIssue ==
  project.comment # Null =>
    /\ project.issue # Null
    /\ comments[project.comment].on = project.issue

\* The dashboard jobs of the latest run are completed, its issue was never closed,
\* and nobody handles a job of it.
DashboardIsSettled ==
  /\ done # <<>>
  /\ \A w \in Workers : At(w, "idle")
  /\ LET asked == {t \in {"create_dashboard_comment", "update_dashboard_comment"} :
                     jobs[done[Len(done)]][t].status # "absent"}
     IN  \A t \in asked : jobs[done[Len(done)]][t].status = "completed"
  /\ project.issue # Null
  /\ issues[project.issue] = "open"

\* No user closed an issue or deleted one or a comment.
Untouched ==
  /\ \A i \in DOMAIN issues : issues[i] = "open"
  /\ \A c \in DOMAIN comments : comments[c].shows # None

\* Once the dashboard jobs of the latest run are completed, the project has a dashboard
\* unless users closed or deleted something, and the dashboard shows that run ("always
\* produce the most up-to-date comment, even if this job was enqueued by an earlier
\* run") unless a user deleted it.
DashboardIsCurrent ==
  DashboardIsSettled =>
    /\ Untouched => project.comment # Null
    /\ project.comment # Null =>
         /\ comments[project.comment].on = project.issue
         /\ comments[project.comment].shows \in {done[Len(done)], None}

\* No job waits for ever: each is completed, given up, or lost with its worker.
EveryJobIsTaken == <>[](\A r \in Runs, t \in Types : jobs[r][t].status # "pending")
=============================================================================
