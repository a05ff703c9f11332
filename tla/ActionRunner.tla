---------------------------- MODULE ActionRunner ----------------------------
(***************************************************************************)
(* The jobs of the GitHub Action: discovery, the plan request, and for each *)
(* project to build the create request, the exports, the upload, the import *)
(* request and, after some failures, the fail request. The API and the      *)
(* worker are what the runner relies on: the ledger of RunLedger, that      *)
(* BoardRuns implements, and extract_bundle.                                *)
(*                                                                         *)
(* A request that the client has given up may still be executed, so the     *)
(* requests under way are kept apart from what their senders wait for.      *)
(***************************************************************************)
EXTENDS Bundle

CONSTANTS Jobs,       \* attempts of workflow runs, of one repository
          Keys,       \* values of github_run_id with github_run_attempt
          Projects,   \* board projects, by project_path
          Dirs,       \* what the directory of a project may look like
          Trees,      \* contents of a project directory: file |-> content
          Excludes,   \* the files that exclude patterns hide
          Builds,     \* ways the exports of one project may end
          Gates,      \* the reports with fail-on-erc, fail-on-drc
          MaxTries,   \* max_retries of the client
          None

ASSUME MaxTriesAssumption == MaxTries \in Nat \ {0}
ASSUME DirsAssumption == Dirs \subseteq Dir
ASSUME BuildsAssumption == Builds \subseteq Pipeline /\ \A b \in Builds : Plausible(b)
ASSUME NoneAssumption == None \notin Jobs \cup Keys \cup Projects \cup Dirs \cup Builds

VARIABLES
  jobs,       \* control state and locals of each job
  calls,      \* requests that the API may still execute
  writing,    \* fail requests between their read and their write
  state,      \* board_runs.status; "absent" before the insert
  staging,    \* whose archive is in staging/runs/{run}/bundle.zip
  accepted,   \* whose digest an import request has set
  published,  \* whose artifacts are stored
  queue,      \* the runs whose import job is not done
  newest      \* board_projects.latest_completed_run_id

apiVars == <<state, accepted, published, queue, newest>>
vars == <<jobs, calls, writing, staging, apiVars>>

Runs == Keys \X Projects
Requests == {"plan", "create", "import", "fail"}
Status == {"absent", "created", "importing", "completed", "failed", "timed_out"}
Live == {"created", "importing"}

Call == [job : Jobs, kind : Requests, project : Projects \cup {None}, try : 1..MaxTries]
Job == [pc : {"start", "next", "build", "upload", "done"} \cup Requests,
        event : {"push", "pull_request"}, mode : {"auto", "all"},
        key : Keys,
        dirs : [Projects -> Dirs \cup {None}],    \* None: no .boardflow.yml
        trees : [Projects -> Trees],
        decisions : [Projects -> {"none", "build", "skip", "error"}],
        todo : SUBSET Projects,                   \* valid_projects not yet processed
        project : Projects \cup {None},
        builds : [Projects -> Builds \cup {None}],
        results : [Projects -> {"none", "skipped", "success", "error"}],
        try : 0..MaxTries, waiting : BOOLEAN,     \* of the request under way
        failed : BOOLEAN,                         \* exit_code = 1
        exit : {"none", "0", "1", "killed"}]

(* A job that has not started, with its inputs. *)
NewJob(event, mode, key, dirs, trees) ==
  [pc |-> "start", event |-> event, mode |-> mode, key |-> key, dirs |-> dirs,
   trees |-> trees, decisions |-> [p \in Projects |-> "none"], todo |-> {},
   project |-> None, builds |-> [p \in Projects |-> None],
   results |-> [p \in Projects |-> "none"], try |-> 0, waiting |-> FALSE,
   failed |-> FALSE, exit |-> "none"]

TypeOK ==
  /\ jobs \in [Jobs -> Job]
  /\ calls \in SUBSET Call
  /\ writing \in SUBSET Call
  /\ state \in [Runs -> Status]
  /\ staging \in [Runs -> Jobs \cup {None}]
  /\ accepted \in [Runs -> Jobs \cup {None}]
  /\ published \in [Runs -> Jobs \cup {None}]
  /\ queue \in SUBSET Runs
  /\ newest \in [Projects -> Keys \cup {None}]

NoRuns ==
  /\ calls = {} /\ writing = {}
  /\ state = [r \in Runs |-> "absent"]
  /\ staging = [r \in Runs |-> None]
  /\ accepted = [r \in Runs |-> None]
  /\ published = [r \in Runs |-> None]
  /\ queue = {}
  /\ newest = [p \in Projects |-> None]

Init ==
  /\ jobs \in {f \in [Jobs -> Job] :
       \A j \in Jobs :
         f[j] = NewJob(f[j].event, f[j].mode, f[j].key, f[j].dirs, f[j].trees)}
  /\ NoRuns

RunOf(j) == <<jobs[j].key, jobs[j].project>>
Become(j, job) == jobs' = [jobs EXCEPT ![j] = job]

-----------------------------------------------------------------------------
(* A job, from checkout to exit code *)

Usables(j) == {p \in Projects : jobs[j].dirs[p] # None /\ Usable(jobs[j].dirs[p])}
Present(j) == {p \in Projects : jobs[j].dirs[p] # None}

(* build_plan_request leaves out a project whose tree cannot be hashed. *)
Planned(j) == {p \in Usables(j) : jobs[j].dirs[p].readable}

Ended(job, code) ==
  [job EXCEPT !.pc = "done", !.exit = code, !.try = 0, !.waiting = FALSE]
Exit(j, code) == Become(j, Ended(jobs[j], code))
Request(job, kind) == [job EXCEPT !.pc = kind, !.try = 0, !.waiting = FALSE]

(* The result of the project under way; checks says that a gate is closed. *)
ProjectEnds(job, result, checks) ==
  [job EXCEPT !.pc = "next", !.try = 0, !.waiting = FALSE, !.project = None,
              !.results = [job.results EXCEPT ![job.project] = result],
              !.failed = job.failed \/ result = "error" \/ checks]

(* A pull_request is not supported, and no failure. *)
SkipEvent(j) ==
  /\ jobs[j].pc = "start"
  /\ jobs[j].event = "pull_request"
  /\ Exit(j, "0")
  /\ UNCHANGED <<calls, writing, staging, apiVars>>

NothingFound(j) ==
  /\ jobs[j].pc = "start"
  /\ jobs[j].event # "pull_request"
  /\ Usables(j) = {}
  /\ Exit(j, "1")
  /\ UNCHANGED <<calls, writing, staging, apiVars>>

(* discover_and_validate; a directory that is no project fails the job in    *)
(* the end, not the other projects.                                          *)
Discover(j) ==
  /\ jobs[j].pc = "start"
  /\ jobs[j].event # "pull_request"
  /\ Usables(j) # {}
  /\ Become(j, [Request(jobs[j], "plan") EXCEPT
                  !.todo = Usables(j), !.failed = Usables(j) # Present(j)])
  /\ UNCHANGED <<calls, writing, staging, apiVars>>

(* The loop over the projects. A decision other than "build", or none at     *)
(* all, skips the project.                                                   *)
SkipProject(j, p) ==
  /\ jobs[j].pc = "next"
  /\ p \in jobs[j].todo
  /\ jobs[j].decisions[p] # "build"
  /\ Become(j, [jobs[j] EXCEPT !.todo = jobs[j].todo \ {p},
                               !.results = [jobs[j].results EXCEPT ![p] = "skipped"]])
  /\ UNCHANGED <<calls, writing, staging, apiVars>>

StartProject(j, p) ==
  /\ jobs[j].pc = "next"
  /\ p \in jobs[j].todo
  /\ jobs[j].decisions[p] = "build"
  /\ Become(j, [Request(jobs[j], "create") EXCEPT
                  !.todo = jobs[j].todo \ {p}, !.project = p])
  /\ UNCHANGED <<calls, writing, staging, apiVars>>

Finish(j) ==
  /\ jobs[j].pc = "next"
  /\ jobs[j].todo = {}
  /\ Exit(j, IF jobs[j].failed THEN "1" ELSE "0")
  /\ UNCHANGED <<calls, writing, staging, apiVars>>

(* run_artifact_pipeline, the manifest, the staging directory, the archive *)
Build(j) ==
  /\ jobs[j].pc = "build"
  /\ \E b \in Builds :
       Become(j, [jobs[j] EXCEPT !.pc = "upload",
                    !.builds = [jobs[j].builds EXCEPT ![jobs[j].project] = b]])
  /\ UNCHANGED <<calls, writing, staging, apiVars>>

(* An I/O error before the archive is written (a directory, the tree hash,   *)
(* the manifest): the project ends, and the API is not told.                 *)
BuildBreaks(j) ==
  /\ jobs[j].pc = "build"
  /\ Become(j, ProjectEnds(jobs[j], "error", FALSE))
  /\ UNCHANGED <<calls, writing, staging, apiVars>>

ZipFails(j) ==
  /\ jobs[j].pc = "build"
  /\ Become(j, Request(jobs[j], "fail"))
  /\ UNCHANGED <<calls, writing, staging, apiVars>>

(* The PUT to the presigned URL, in one attempt. *)
Stored(j) == staging' = [staging EXCEPT ![RunOf(j)] = j]

Upload(j) ==
  /\ jobs[j].pc = "upload"
  /\ Stored(j)
  /\ Become(j, Request(jobs[j], "import"))
  /\ UNCHANGED <<calls, writing, apiVars>>

(* The client sees an error, whether the object was stored or not. *)
UploadFails(j) ==
  /\ jobs[j].pc = "upload"
  /\ Stored(j) \/ UNCHANGED staging
  /\ Become(j, Request(jobs[j], "fail"))
  /\ UNCHANGED <<calls, writing, apiVars>>

(* The archive cannot be read back for its digest or its size: no fail call. *)
SubmitBreaks(j) ==
  /\ jobs[j].pc = "upload"
  /\ Stored(j) \/ UNCHANGED staging
  /\ Become(j, ProjectEnds(jobs[j], "error", FALSE))
  /\ UNCHANGED <<calls, writing, apiVars>>

(* GitHub ends the job: cancelled by hand, or after its time limit. *)
Kill(j) ==
  /\ jobs[j].pc # "done"
  /\ Exit(j, "killed")
  /\ UNCHANGED <<calls, writing, staging, apiVars>>

-----------------------------------------------------------------------------
(* ApiClient::request *)

(* Mutant: the attempts are counted from 0. *)
SendFromZero(j) ==
  LET job == jobs[j]
  IN  /\ job.pc \in Requests
      /\ ~job.waiting
      /\ job.try < MaxTries
      /\ calls' = calls \cup {[job |-> j, kind |-> job.pc, project |-> job.project,
                               try |-> job.try]}
      /\ Become(j, [job EXCEPT !.try = job.try + 1, !.waiting = TRUE])
      /\ UNCHANGED <<writing, staging, apiVars>>

Send(j) ==
  LET job == jobs[j]
  IN  /\ job.pc \in Requests
      /\ ~job.waiting
      /\ job.try < MaxTries
      /\ calls' = calls \cup {[job |-> j, kind |-> job.pc, project |-> job.project,
                               try |-> job.try + 1]}
      /\ Become(j, [job EXCEPT !.try = job.try + 1, !.waiting = TRUE])
      /\ UNCHANGED <<writing, staging, apiVars>>

(* A 5xx answer, a failed connection or 60 seconds without an answer: the    *)
(* request that was given up may be executed later.                          *)
Retry(j) ==
  /\ jobs[j].waiting
  /\ jobs[j].try < MaxTries
  /\ Become(j, [jobs[j] EXCEPT !.waiting = FALSE])
  /\ UNCHANGED <<calls, writing, staging, apiVars>>

(* Mutant: an import request without an answer is taken for accepted. *)
OnErrorOptimistic(job) ==
  CASE job.pc = "plan" -> Ended(job, "1")
    [] job.pc = "create" -> ProjectEnds(job, "error", FALSE)
    [] job.pc = "import" -> ProjectEnds(job, "success", FALSE)
    [] job.pc = "fail" -> ProjectEnds(job, "error", FALSE)

(* Mutant: the fail request is repeated until it succeeds. *)
OnErrorInsisting(job) ==
  CASE job.pc = "plan" -> Ended(job, "1")
    [] job.pc = "create" -> ProjectEnds(job, "error", FALSE)
    [] job.pc \in {"import", "fail"} -> Request(job, "fail")

(* What an error of a request does to its job. Only an error of the import   *)
(* request makes the runner fail the run; the error of that call is ignored. *)
OnError(job) ==
  CASE job.pc = "plan" -> Ended(job, "1")
    [] job.pc = "create" -> ProjectEnds(job, "error", FALSE)
    [] job.pc = "import" -> Request(job, "fail")
    [] job.pc = "fail" -> ProjectEnds(job, "error", FALSE)

(* The last attempt has no answer, or an error that is not retried: a reset  *)
(* connection, a body that does not parse, 401 for a revoked token. The      *)
(* request may have been executed.                                           *)
RequestFails(j) ==
  /\ jobs[j].waiting
  /\ Become(j, OnError(jobs[j]))
  /\ UNCHANGED <<calls, writing, staging, apiVars>>

(* A request gets lost, or its handler is dropped before it changes anything. *)
Drop(c) ==
  /\ c \in calls
  /\ calls' = calls \ {c}
  /\ UNCHANGED <<jobs, writing, staging, apiVars>>

Awaits(c) ==
  /\ jobs[c.job].waiting
  /\ jobs[c.job].pc = c.kind
  /\ jobs[c.job].project = c.project
  /\ jobs[c.job].try = c.try

(* The answer to a request, which nobody may be waiting for any more. *)
Answer(c, job) == jobs' = [jobs EXCEPT ![c.job] = IF Awaits(c) THEN job ELSE jobs[c.job]]

-----------------------------------------------------------------------------
(* The API *)

(* The tree of the run that completed last. *)
LatestTree(p) == TreeHash(jobs[published[<<newest[p], p>>]].trees[p], Excludes)

(* Mutant: the tree is compared with that of any run that was created. *)
DecideByCreatedRun(j, p) ==
  CASE p \notin Planned(j) -> "none"
    [] p \in Planned(j) /\ jobs[j].dirs[p].dotted -> "error"
    [] OTHER ->
         IF \/ jobs[j].mode = "all"
            \/ ~\E i \in Jobs : /\ state[<<jobs[i].key, p>>] # "absent"
                                /\ jobs[i].trees[p] = jobs[j].trees[p]
           THEN "build" ELSE "skip"

(* The decision of execute_plan_run for one project of the request. *)
Decide(j, p) ==
  CASE p \notin Planned(j) -> "none"
    [] p \in Planned(j) /\ jobs[j].dirs[p].dotted -> "error"
    [] OTHER ->
         IF \/ jobs[j].mode = "all"
            \/ newest[p] = None
            \/ LatestTree(p) # TreeHash(jobs[j].trees[p], Excludes)
           THEN "build" ELSE "skip"

(* POST /api/v1/runs/plan *)
PlanRun(c) ==
  /\ c \in calls /\ c.kind = "plan"
  /\ calls' = calls \ {c}
  /\ Answer(c, [jobs[c.job] EXCEPT !.pc = "next", !.try = 0, !.waiting = FALSE,
                  !.decisions = [p \in Projects |-> Decide(c.job, p)]])
  /\ UNCHANGED <<writing, staging, apiVars>>

CallRun(c) == <<jobs[c.job].key, c.project>>

(* POST /api/v1/board-runs; the first answer with an upload URL. *)
CreateBoardRun(c) ==
  /\ c \in calls /\ c.kind = "create"
  /\ state[CallRun(c)] \in {"absent", "created"}
  /\ state' = [state EXCEPT ![CallRun(c)] = "created"]
  /\ calls' = calls \ {c}
  /\ Answer(c, [jobs[c.job] EXCEPT !.pc = "build", !.try = 0, !.waiting = FALSE])
  /\ UNCHANGED <<writing, staging, accepted, published, queue, newest>>

(* The run is importing or over: no URL, and the runner has nothing to do. *)
CreateSettled(c) ==
  /\ c \in calls /\ c.kind = "create"
  /\ state[CallRun(c)] \notin {"absent", "created"}
  /\ calls' = calls \ {c}
  /\ Answer(c, ProjectEnds(jobs[c.job], "success", FALSE))
  /\ UNCHANGED <<writing, staging, apiVars>>

(* The answer to an import request that succeeds. *)
Submitted(job) ==
  ProjectEnds(job, "success", ChecksFailed(job.builds[job.project], Gates))

(* Mutant: a second digest replaces the first. *)
ImportOverwriting(c) ==
  LET r == CallRun(c)
  IN  /\ c \in calls /\ c.kind = "import"
      /\ state[r] \in Live
      /\ accepted' = [accepted EXCEPT ![r] = c.job]
      /\ state' = [state EXCEPT ![r] = "importing"]
      /\ queue' = queue \cup {r}
      /\ calls' = calls \ {c}
      /\ Answer(c, Submitted(jobs[c.job]))
      /\ UNCHANGED <<writing, staging, published, newest>>

(* POST /api/v1/board-runs/{id}/artifact-bundles/import *)
ImportArtifactBundle(c) ==
  LET r == CallRun(c)
  IN  /\ c \in calls /\ c.kind = "import"
      /\ state[r] \in Live
      /\ accepted[r] = None
      /\ accepted' = [accepted EXCEPT ![r] = c.job]
      /\ state' = [state EXCEPT ![r] = "importing"]
      /\ queue' = queue \cup {r}
      /\ calls' = calls \ {c}
      /\ Answer(c, Submitted(jobs[c.job]))
      /\ UNCHANGED <<writing, staging, published, newest>>

(* The same digest once more, or any digest for a completed run. *)
ImportAgain(c) ==
  LET r == CallRun(c)
  IN  /\ c \in calls /\ c.kind = "import"
      /\ \/ state[r] \in Live /\ accepted[r] = c.job
         \/ state[r] = "completed"
      /\ calls' = calls \ {c}
      /\ Answer(c, Submitted(jobs[c.job]))
      /\ UNCHANGED <<writing, staging, apiVars>>

(* 410 for a run that failed or timed out, 409 for another digest. *)
ImportRefused(c) ==
  LET r == CallRun(c)
  IN  /\ c \in calls /\ c.kind = "import"
      /\ \/ state[r] \in {"failed", "timed_out"}
         \/ state[r] \in Live /\ accepted[r] \notin {None, c.job}
      /\ calls' = calls \ {c}
      /\ Answer(c, OnError(jobs[c.job]))
      /\ UNCHANGED <<writing, staging, apiVars>>

(* POST /api/v1/board-runs/{id}/fail: a read, then an unconditional write. *)
FailRead(c) ==
  /\ c \in calls /\ c.kind = "fail"
  /\ state[CallRun(c)] \in Live
  /\ calls' = calls \ {c}
  /\ writing' = writing \cup {c}
  /\ UNCHANGED <<jobs, staging, apiVars>>

FailWrite(c) ==
  /\ c \in writing
  /\ state' = [state EXCEPT ![CallRun(c)] = "failed"]
  /\ writing' = writing \ {c}
  /\ Answer(c, ProjectEnds(jobs[c.job], "error", FALSE))
  /\ UNCHANGED <<calls, staging, accepted, published, queue, newest>>

FailDropped(c) ==
  /\ c \in writing
  /\ writing' = writing \ {c}
  /\ UNCHANGED <<jobs, calls, staging, apiVars>>

(* The run is over: 200, 409 or 410, which are the same to the runner. *)
FailSettled(c) ==
  /\ c \in calls /\ c.kind = "fail"
  /\ state[CallRun(c)] \notin Live
  /\ calls' = calls \ {c}
  /\ Answer(c, ProjectEnds(jobs[c.job], "error", FALSE))
  /\ UNCHANGED <<writing, staging, apiVars>>

-----------------------------------------------------------------------------
(* The worker *)

(* The import job: the object has the digest that was accepted, and the      *)
(* archive is as its manifest says.                                          *)
Publish(r) ==
  /\ r \in queue
  /\ staging[r] = accepted[r]
  /\ Importable(jobs[accepted[r]].builds[r[2]])
  /\ published' = [published EXCEPT ![r] = accepted[r]]
  /\ state' = [state EXCEPT ![r] = "completed"]
  /\ newest' = [newest EXCEPT ![r[2]] = r[1]]
  /\ queue' = queue \ {r}
  /\ UNCHANGED <<jobs, calls, writing, staging, accepted>>

(* Its attempts are used up: a bad archive, or errors of S3 and the database. *)
GiveUp(r) ==
  /\ r \in queue
  /\ state' = [state EXCEPT ![r] = "failed"]
  /\ queue' = queue \ {r}
  /\ UNCHANGED <<jobs, calls, writing, staging, accepted, published, newest>>

(* The sweep, after twelve hours. *)
TimeOut(r) ==
  /\ state[r] \in Live
  /\ state' = [state EXCEPT ![r] = "timed_out"]
  /\ UNCHANGED <<jobs, calls, writing, staging, accepted, published, queue, newest>>

Step(j) ==
  \/ SkipEvent(j) \/ NothingFound(j) \/ Discover(j)
  \/ \E p \in Projects : SkipProject(j, p) \/ StartProject(j, p)
  \/ Finish(j)
  \/ Build(j) \/ BuildBreaks(j) \/ ZipFails(j)
  \/ Upload(j) \/ UploadFails(j) \/ SubmitBreaks(j)
  \/ Send(j) \/ Retry(j) \/ RequestFails(j)

Serve(c) ==
  \/ PlanRun(c)
  \/ CreateBoardRun(c) \/ CreateSettled(c)
  \/ ImportArtifactBundle(c) \/ ImportAgain(c) \/ ImportRefused(c)
  \/ FailRead(c) \/ FailSettled(c)

Work(r) == Publish(r) \/ GiveUp(r) \/ TimeOut(r)

Next ==
  \/ \E j \in Jobs : Step(j) \/ Kill(j)
  \/ \E c \in calls : Serve(c) \/ Drop(c)
  \/ \E c \in writing : FailWrite(c) \/ FailDropped(c)
  \/ \E r \in Runs : Work(r)

Spec == Init /\ [][Next]_vars

(* The runner keeps going, and every request, command and upload has a time  *)
(* limit, the iBOM generator excepted, that GitHub's limit on jobs ends.     *)
Fairness == \A j \in Jobs : WF_vars(Step(j))
FairSpec == Spec /\ Fairness

-----------------------------------------------------------------------------
(* Properties *)

HandedOver(r) == accepted[r] # None

(* The run was failed without a submission, by another job of the attempt    *)
(* that was to build the project and does not end with 0.                    *)
FailedByAnother(j, p) ==
  /\ state[<<jobs[j].key, p>>] = "failed"
  /\ \E i \in Jobs \ {j} : /\ jobs[i].key = jobs[j].key
                          /\ jobs[i].decisions[p] = "build"
                          /\ jobs[i].exit # "0"

(* When a job ends, each of its projects that was to be built and is no      *)
(* error has been handed over, by this job or by another of the attempt. The *)
(* one exception is a project that the job did not build because its run was *)
(* over: it timed out, or another job has reported that it failed and is not *)
(* green itself. Code 0 means besides that no project is an error and that   *)
(* no gate of a project the job has built is closed; so a job that ends with *)
(* 1 on account of its gates alone has handed over what it built (the exit   *)
(* code of run, process_project and submit_bundle, with requests retried,    *)
(* lost and executed late).                                                  *)
GreenMeansSaved ==
  \A j \in Jobs :
    /\ jobs[j].exit \in {"0", "1"} =>
         \A p \in Projects :
           jobs[j].decisions[p] = "build" /\ jobs[j].results[p] # "error" =>
             \/ HandedOver(<<jobs[j].key, p>>)
             \/ /\ jobs[j].builds[p] = None
                /\ state[<<jobs[j].key, p>>] = "timed_out" \/ FailedByAnother(j, p)
    /\ jobs[j].exit = "0" =>
         \A p \in Projects :
           /\ jobs[j].results[p] # "error"
           /\ jobs[j].builds[p] # None => ~ChecksFailed(jobs[j].builds[p], Gates)

(* A project is skipped only if the artifacts of the very same tree are      *)
(* stored, whatever runs were created, given up or overtaken since           *)
(* (execute_plan_run against the imports of other jobs).                     *)
SkipIsSaved ==
  \A j \in Jobs, p \in Projects :
    jobs[j].decisions[p] = "skip" =>
      \E k \in Keys :
        /\ published[<<k, p>>] # None
        /\ TreeHash(jobs[published[<<k, p>>]].trees[p], Excludes)
             = TreeHash(jobs[j].trees[p], Excludes)

(* An export that failed does not cost the run: once a bundle is accepted    *)
(* and still in staging, its archive is one that extract_bundle takes, and   *)
(* the run can be completed (docs/spec.md:300). It needs that a command that *)
(* failed left no file behind, see the run "leftover".                       *)
FailedArtifactIsHarmless ==
  \A r \in queue :
    staging[r] = accepted[r] => Importable(jobs[accepted[r]].builds[r[2]])

(* The API and the worker as modelled here keep the promises of the ledger,  *)
(* for each project, that BoardRuns implements in detail.                    *)
Ledger(p) ==
  INSTANCE RunLedger WITH
    Runs <- Keys, Digests <- Jobs,
    state <- [k \in Keys |-> state[<<k, p>>]],
    accepted <- [k \in Keys |-> accepted[<<k, p>>]],
    published <- [k \in Keys |-> published[<<k, p>>]],
    newest <- newest[p]

LedgerIsKept ==
  /\ \A p \in Projects : Ledger(p)!Init
  /\ [][\A p \in Projects : [Ledger(p)!Next]_(Ledger(p)!vars)]_vars

(* Every job ends, whatever the API does with its requests. *)
EveryJobEnds == \A j \in Jobs : <>(jobs[j].pc = "done")
=============================================================================
