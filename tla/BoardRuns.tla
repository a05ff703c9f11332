------------------------------ MODULE BoardRuns ------------------------------
(***************************************************************************)
(* The life of the BoardRuns of one BoardProject: the create, fail and     *)
(* import endpoints of the API, the artifact_bundle_import job and the     *)
(* worker that runs it, the staging bucket, and the two sweeps.            *)
(*                                                                         *)
(* A step of this module is what the program does between two awaits: one  *)
(* SQL statement outside a transaction, one transaction, or one S3 call.   *)
(* An HTTP request that is rejected or answered from existing rows changes *)
(* nothing and is a stuttering step.                                       *)
(*                                                                         *)
(* A bundle is identified with the runner that built it: two runners share *)
(* a run when two jobs of one workflow run submit the same project, and    *)
(* their archives have different digests.                                  *)
(***************************************************************************)
EXTENDS Naturals, FiniteSets

CONSTANTS Runs,         \* the runs of the project (idempotency keys)
          Runners,      \* the action runners, and the digests of their bundles
          Workers,      \* the worker processes
          MaxAttempts,  \* MAX_ATTEMPTS of the jobs crate
          None          \* SQL NULL, or an object that is not there

ASSUME MaxAttemptsAssumption == MaxAttempts \in Nat \ {0}
ASSUME NoneAssumption == None \notin Runs \cup Runners

VARIABLES
  run,       \* board_runs.status; "absent" before the insert
  older,     \* the runs whose created_at is before that of the run
  aged,      \* created_at is more than 12 hours ago
  bundles,   \* artifact_bundles rows of a run, slot 2 received after slot 1
  jobs,      \* the import row of github_jobs
  rows,      \* the digest whose artifacts, checks, snapshot and diff are stored
  base,      \* board_run_diffs.base_board_run_id
  latest,    \* board_projects.latest_completed_run_id
  followUps, \* runs whose GitHub jobs have been enqueued
  staging,   \* content of staging/runs/{run}/bundle.zip
  final,     \* digests whose artifacts were put under artifacts/{run}/
  creating,  \* the runner whose create request is between its two inserts
  failing,   \* fail requests between their read and their write
  runners,   \* what each runner has done for each run
  workers    \* control state and locals of each worker

dbVars == <<run, older, aged, bundles, jobs, rows, base, latest, followUps>>
s3Vars == <<staging, final>>
apiVars == <<creating, failing, runners>>
vars == <<dbVars, s3Vars, apiVars, workers>>

Slots == {1, 2}
Active == {"created", "importing"}
Terminal == {"completed", "failed", "timed_out"}
Status == {"absent"} \cup Active \cup Terminal
Importing == {"claimed", "download", "extract", "persist", "commit"}
GivingUp == {"failed", "failRun", "failJob"}
Sweeping == {"arm", "repair", "collect", "delete", "clear"}

Bundle == [status : {"absent", "pending", "importing", "completed", "failed"},
           sha : Runners \cup {None},  \* sha256, set by the import request
           key : BOOLEAN,              \* staging_object_key IS NOT NULL
           del : {"none", "armed", "expired"}]  \* delete_after
Job == [status : {"none", "pending", "running", "completed", "failed"},
        attempts : Nat,
        sha : Runners \cup {None}]
Worker == [pc : {"idle"} \cup Importing \cup GivingUp \cup Sweeping,
           run : Runs \cup {None},
           slot : Slots,                   \* the bundle that was looked up
           data : Runners \cup {None},     \* the archive that was downloaded
           base : Runs \cup {None},        \* the baseline that was looked up
           ids : SUBSET Runs,              \* runs the sweep has timed out
           todo : SUBSET (Runs \X Slots)]  \* expired bundles still to delete

NoBundle == [status |-> "absent", sha |-> None, key |-> FALSE, del |-> "none"]
NewBundle == [status |-> "pending", sha |-> None, key |-> TRUE, del |-> "none"]
NoJob == [status |-> "none", attempts |-> 0, sha |-> None]
Idle == [pc |-> "idle", run |-> None, slot |-> 1, data |-> None, base |-> None,
         ids |-> {}, todo |-> {}]

TypeOK ==
  /\ run \in [Runs -> Status]
  /\ older \in [Runs -> SUBSET Runs]
  /\ aged \in [Runs -> BOOLEAN]
  /\ bundles \in [Runs -> [Slots -> Bundle]]
  /\ jobs \in [Runs -> Job]
  /\ rows \in [Runs -> Runners \cup {None}]
  /\ base \in [Runs -> Runs \cup {None}]
  /\ latest \in Runs \cup {None}
  /\ followUps \in SUBSET Runs
  /\ staging \in [Runs -> Runners \cup {None}]
  /\ final \in [Runs -> SUBSET Runners]
  /\ creating \in [Runs -> Runners \cup {None}]
  /\ failing \in SUBSET (Runs \X Runners)
  /\ runners \in [Runs -> [Runners -> {"new", "ready", "late", "uploaded"}]]
  /\ workers \in [Workers -> Worker]

Init ==
  /\ run = [r \in Runs |-> "absent"]
  /\ older = [r \in Runs |-> {}]
  /\ aged = [r \in Runs |-> FALSE]
  /\ bundles = [r \in Runs |-> [i \in Slots |-> NoBundle]]
  /\ jobs = [r \in Runs |-> NoJob]
  /\ rows = [r \in Runs |-> None]
  /\ base = [r \in Runs |-> None]
  /\ latest = None
  /\ followUps = {}
  /\ staging = [r \in Runs |-> None]
  /\ final = [r \in Runs |-> {}]
  /\ creating = [r \in Runs |-> None]
  /\ failing = {}
  /\ runners = [r \in Runs |-> [c \in Runners |-> "new"]]
  /\ workers = [w \in Workers |-> Idle]

Present(r, i) == bundles[r][i].status # "absent"

(* find_by_board_run_id: the bundle received last *)
LatestSlot(r) == IF Present(r, 2) THEN 2 ELSE 1

BundleBecomes(r, i, bundle) == bundles' = [bundles EXCEPT ![r][i] = bundle]
JobBecomes(r, job) == jobs' = [jobs EXCEPT ![r] = job]
JobStatus(r, status) == JobBecomes(r, [jobs[r] EXCEPT !.status = status])

(* find_existing_for_run: some bundle of the run already has a digest *)
Submitted(r) == \E i \in Slots : bundles[r][i].sha # None

-----------------------------------------------------------------------------
(* POST /api/v1/board-runs *)

(* The first statement of a create request that found no run under its key. *)
InsertRun(r, c) ==
  /\ run[r] = "absent"
  /\ run' = [run EXCEPT ![r] = "created"]
  /\ older' = [older EXCEPT ![r] = {s \in Runs : run[s] # "absent"}]
  /\ creating' = [creating EXCEPT ![r] = c]
  /\ UNCHANGED <<aged, bundles, jobs, rows, base, latest, followUps, s3Vars,
                 failing, runners, workers>>

(* The second statement, in no transaction with the first; an import request *)
(* may have inserted a bundle in between.                                    *)
InsertBundle(r) ==
  /\ creating[r] # None
  /\ BundleBecomes(r, IF Present(r, 1) THEN 2 ELSE 1, NewBundle)
  /\ runners' = [runners EXCEPT ![r][creating[r]] =
                   IF @ = "new" THEN "ready" ELSE @]
  /\ creating' = [creating EXCEPT ![r] = None]
  /\ UNCHANGED <<run, older, aged, jobs, rows, base, latest, followUps, s3Vars,
                 failing, workers>>

(* The handler is dropped or the insert fails: the run stays without bundle. *)
CreateDropped(r) ==
  /\ creating[r] # None
  /\ creating' = [creating EXCEPT ![r] = None]
  /\ UNCHANGED <<dbVars, s3Vars, failing, runners, workers>>

(* A create request under an existing key gets a new upload URL only while   *)
(* nothing has been submitted for the run.                                   *)
CreateAgain(r, c) ==
  /\ run[r] = "created"
  /\ runners[r][c] = "new"
  /\ runners' = [runners EXCEPT ![r][c] = "ready"]
  /\ UNCHANGED <<dbVars, s3Vars, creating, failing, workers>>

(* The runner's PUT to the presigned URL, until the URL is worth nothing. *)
Upload(r, c) ==
  /\ runners[r][c] = "ready"
  /\ staging' = [staging EXCEPT ![r] = c]
  /\ runners' = [runners EXCEPT ![r][c] = "uploaded"]
  /\ UNCHANGED <<dbVars, final, creating, failing, workers>>

-----------------------------------------------------------------------------
(* POST /api/v1/board-runs/{id}/artifact-bundles/import *)

(* update_for_import: only a bundle that has no digest takes one. *)
Accept(r, i, c) ==
  /\ bundles[r][i].sha = None
  /\ BundleBecomes(r, i, [(IF Present(r, i) THEN bundles[r][i] ELSE NewBundle)
                            EXCEPT !.sha = c, !.status = "pending"])

(* Mutant: the row is inserted with the status that the API reports. *)
EnqueueQueued(r, c) ==
  JobBecomes(r, [NoJob EXCEPT !.status = "queued", !.sha = c])

(* enqueue_import: ON CONFLICT leaves an existing job as it is. *)
EnqueueImport(r, c) ==
  IF jobs[r].status = "none"
    THEN JobBecomes(r, [NoJob EXCEPT !.status = "pending", !.sha = c])
    ELSE UNCHANGED jobs

(* Mutant: a bundle with another digest is not looked for. *)
ImportWithoutConflictCheck(r, c) ==
  /\ runners[r][c] = "uploaded"
  /\ run[r] \in Active
  /\ Accept(r, LatestSlot(r), c)
  /\ run' = [run EXCEPT ![r] = "importing"]
  /\ EnqueueImport(r, c)
  /\ UNCHANGED <<older, aged, rows, base, latest, followUps, s3Vars, apiVars, workers>>

(* Mutant: the status of the run is not looked at. *)
ImportWithoutStatusCheck(r, c) ==
  /\ runners[r][c] = "uploaded"
  /\ ~Submitted(r)
  /\ Accept(r, LatestSlot(r), c)
  /\ run' = [run EXCEPT ![r] = "importing"]
  /\ EnqueueImport(r, c)
  /\ UNCHANGED <<older, aged, rows, base, latest, followUps, s3Vars, apiVars, workers>>

(* One transaction under the row lock of the run. Requests for a terminal    *)
(* run, resent ones and ones with another digest change nothing.             *)
ImportArtifactBundle(r, c) ==
  /\ runners[r][c] = "uploaded"
  /\ run[r] \in Active
  /\ ~Submitted(r)
  /\ Present(r, 1) => bundles[r][LatestSlot(r)].key
  /\ Accept(r, LatestSlot(r), c)
  /\ run' = [run EXCEPT ![r] = "importing"]
  /\ EnqueueImport(r, c)
  /\ UNCHANGED <<older, aged, rows, base, latest, followUps, s3Vars, apiVars, workers>>

-----------------------------------------------------------------------------
(* POST /api/v1/board-runs/{id}/fail: a read, then an unconditional write *)

FailRead(r, c) ==
  /\ runners[r][c] # "new"
  /\ run[r] \in Active
  /\ failing' = failing \cup {<<r, c>>}
  /\ UNCHANGED <<dbVars, s3Vars, creating, runners, workers>>

FailWrite(r, c) ==
  /\ <<r, c>> \in failing
  /\ run' = [run EXCEPT ![r] = "failed"]
  /\ failing' = failing \ {<<r, c>>}
  /\ UNCHANGED <<older, aged, bundles, jobs, rows, base, latest, followUps, s3Vars,
                 creating, runners, workers>>

FailDropped(r, c) ==
  /\ <<r, c>> \in failing
  /\ failing' = failing \ {<<r, c>>}
  /\ UNCHANGED <<dbVars, s3Vars, creating, runners, workers>>

-----------------------------------------------------------------------------
(* The artifact_bundle_import job *)

Become(w, state) == workers' = [workers EXCEPT ![w] = state]
Step(w, pc) == Become(w, [workers[w] EXCEPT !.pc = pc])
Finish(w) == Become(w, Idle)

(* process_import_job returns an error, and its locals are gone. *)
GiveUp(w) == Become(w, [Idle EXCEPT !.pc = "failed", !.run = workers[w].run])

(* Mutant: a job that is running is taken again. *)
DequeueRunning(w, r) ==
  /\ workers[w].pc = "idle"
  /\ jobs[r].status \in {"pending", "running"}
  /\ JobBecomes(r, [jobs[r] EXCEPT !.status = "running", !.attempts = jobs[r].attempts + 1])
  /\ Become(w, [Idle EXCEPT !.pc = "claimed", !.run = r])
  /\ UNCHANGED <<run, older, aged, bundles, rows, base, latest, followUps, s3Vars, apiVars>>

(* The row lock and SKIP LOCKED let one worker take a pending job. *)
Dequeue(w, r) ==
  /\ workers[w].pc = "idle"
  /\ jobs[r].status = "pending"
  /\ JobBecomes(r, [jobs[r] EXCEPT !.status = "running", !.attempts = jobs[r].attempts + 1])
  /\ Become(w, [Idle EXCEPT !.pc = "claimed", !.run = r])
  /\ UNCHANGED <<run, older, aged, bundles, rows, base, latest, followUps, s3Vars, apiVars>>

(* validate_payload; the status of the run is not looked at. *)
MarkBundleImporting(w) ==
  LET r == workers[w].run
      i == LatestSlot(r)
  IN  /\ workers[w].pc = "claimed"
      /\ Present(r, i)
      /\ BundleBecomes(r, i, [bundles[r][i] EXCEPT !.status = "importing"])
      /\ Become(w, [workers[w] EXCEPT !.pc = "download", !.slot = i])
      /\ UNCHANGED <<run, older, aged, jobs, rows, base, latest, followUps, s3Vars, apiVars>>

(* Mutant: the digest is not verified. *)
DownloadUnverified(w) ==
  LET r == workers[w].run
  IN  /\ workers[w].pc = "download"
      /\ staging[r] # None
      /\ Become(w, [workers[w] EXCEPT !.pc = "extract", !.data = staging[r]])
      /\ UNCHANGED <<dbVars, s3Vars, apiVars>>

(* download_and_verify: the object must have the digest of the job. *)
Download(w) ==
  LET r == workers[w].run
  IN  /\ workers[w].pc = "download"
      /\ staging[r] # None
      /\ staging[r] = jobs[r].sha
      /\ Become(w, [workers[w] EXCEPT !.pc = "extract", !.data = staging[r]])
      /\ UNCHANGED <<dbVars, s3Vars, apiVars>>

(* The loop that puts the artifacts, which may stop after any of them. *)
ExtractAndUpload(w) ==
  /\ workers[w].pc = "extract"
  /\ final' = [final EXCEPT ![workers[w].run] = @ \cup {workers[w].data}]
  /\ Step(w, "persist") \/ GiveUp(w)
  /\ UNCHANGED <<dbVars, staging, apiVars>>

(* Mutant: the inserts overwrite existing rows. *)
PersistOverwriting(w) ==
  /\ workers[w].pc = "persist"
  /\ Become(w, [workers[w] EXCEPT !.pc = "commit", !.base = latest])
  /\ UNCHANGED <<dbVars, s3Vars, apiVars>>

(* Mutant: the baseline is any run created before, whatever became of it. *)
PersistOlderRun(w) ==
  /\ workers[w].pc = "persist"
  /\ rows[workers[w].run] = None
  /\ \E b \in older[workers[w].run] :
       Become(w, [workers[w] EXCEPT !.pc = "commit", !.base = b])
  /\ UNCHANGED <<dbVars, s3Vars, apiVars>>

(* The transaction up to the lookup of the baseline, which locks nothing.    *)
(* Its inserts take unique keys: rows of an earlier import make them fail.   *)
Persist(w) ==
  /\ workers[w].pc = "persist"
  /\ rows[workers[w].run] = None
  /\ Become(w, [workers[w] EXCEPT !.pc = "commit", !.base = latest])
  /\ UNCHANGED <<dbVars, s3Vars, apiVars>>

(* Mutant: delete_after is not set with the completion. *)
CommitWithoutRetention(w, ack) ==
  LET r == workers[w].run
      i == workers[w].slot
  IN  /\ workers[w].pc = "commit"
      /\ rows' = [rows EXCEPT ![r] = workers[w].data]
      /\ base' = [base EXCEPT ![r] = workers[w].base]
      /\ run' = [run EXCEPT ![r] = "completed"]
      /\ latest' = r
      /\ BundleBecomes(r, i, [bundles[r][i] EXCEPT !.status = "completed"])
      /\ JobStatus(r, "completed")
      /\ followUps' = followUps \cup {r}
      /\ IF ack THEN Finish(w) ELSE GiveUp(w)
      /\ UNCHANGED <<older, aged, s3Vars, apiVars>>

(* complete_run and enqueue_follow_up_jobs, then the commit. An error from   *)
(* the commit (ack = FALSE) does not say that it was not applied.            *)
Commit(w, ack) ==
  LET r == workers[w].run
      i == workers[w].slot
  IN  /\ workers[w].pc = "commit"
      /\ rows' = [rows EXCEPT ![r] = workers[w].data]
      /\ base' = [base EXCEPT ![r] = workers[w].base]
      /\ run' = [run EXCEPT ![r] = "completed"]
      /\ latest' = r
      /\ BundleBecomes(r, i, [bundles[r][i] EXCEPT !.status = "completed", !.del = "armed"])
      /\ JobStatus(r, "completed")
      /\ followUps' = followUps \cup {r}
      /\ IF ack THEN Finish(w) ELSE GiveUp(w)
      /\ UNCHANGED <<older, aged, s3Vars, apiVars>>

(* Any step before the commit may fail: S3, the database, a bad archive, a   *)
(* wrong digest. A transaction that is under way is rolled back.             *)
ImportError(w) ==
  /\ workers[w].pc \in Importing
  /\ GiveUp(w)
  /\ UNCHANGED <<dbVars, s3Vars, apiVars>>

-----------------------------------------------------------------------------
(* handle_import_failure: statements whose errors are ignored *)

(* Mutant: the dispatcher completes the job after the handler rescheduled it. *)
RescheduleAndComplete(w) ==
  /\ workers[w].pc = "failed"
  /\ jobs[workers[w].run].attempts < MaxAttempts
  /\ JobStatus(workers[w].run, "completed")
  /\ Finish(w)
  /\ UNCHANGED <<run, older, aged, bundles, rows, base, latest, followUps, s3Vars, apiVars>>

(* Mutant: one attempt too many. *)
RescheduleOnceMore(w) ==
  /\ workers[w].pc = "failed"
  /\ jobs[workers[w].run].attempts <= MaxAttempts
  /\ JobStatus(workers[w].run, "pending")
  /\ Finish(w)
  /\ UNCHANGED <<run, older, aged, bundles, rows, base, latest, followUps, s3Vars, apiVars>>

(* The job goes back to the queue, even one whose commit was applied. *)
Reschedule(w) ==
  LET r == workers[w].run
  IN  /\ workers[w].pc = "failed"
      /\ jobs[r].attempts < MaxAttempts
      /\ JobStatus(r, "pending")
      /\ Finish(w)
      /\ UNCHANGED <<run, older, aged, bundles, rows, base, latest, followUps, s3Vars, apiVars>>

FailBundle(w) ==
  LET r == workers[w].run
      i == LatestSlot(r)
  IN  /\ workers[w].pc = "failed"
      /\ jobs[r].attempts >= MaxAttempts
      /\ Present(r, i)
      /\ BundleBecomes(r, i, [bundles[r][i] EXCEPT !.status = "failed", !.del = "armed"])
      /\ Step(w, "failRun")
      /\ UNCHANGED <<run, older, aged, jobs, rows, base, latest, followUps, s3Vars, apiVars>>

FailRun(w) ==
  /\ workers[w].pc = "failRun"
  /\ run' = [run EXCEPT ![workers[w].run] = "failed"]
  /\ Step(w, "failJob")
  /\ UNCHANGED <<older, aged, bundles, jobs, rows, base, latest, followUps, s3Vars, apiVars>>

FailJob(w) ==
  /\ workers[w].pc = "failJob"
  /\ JobStatus(workers[w].run, "failed")
  /\ Finish(w)
  /\ UNCHANGED <<run, older, aged, bundles, rows, base, latest, followUps, s3Vars, apiVars>>

(* A statement above fails: the next one is executed all the same. *)
FailureNotStored(w) ==
  /\ \/ /\ workers[w].pc = "failed"
        /\ IF jobs[workers[w].run].attempts < MaxAttempts
             THEN Finish(w) ELSE Step(w, "failRun")
     \/ /\ workers[w].pc = "failRun"
        /\ Step(w, "failJob")
     \/ /\ workers[w].pc = "failJob"
        /\ Finish(w)
  /\ UNCHANGED <<dbVars, s3Vars, apiVars>>

-----------------------------------------------------------------------------
(* The sweep branch of the worker's select! loop *)

(* The bundles of a set of runs that have a key and no delete_after get one. *)
Arm(doomed) ==
  bundles' = [r \in Runs |-> [i \in Slots |->
    IF r \in doomed /\ bundles[r][i].key /\ bundles[r][i].del = "none"
      THEN [bundles[r][i] EXCEPT !.del = "armed"]
      ELSE bundles[r][i]]]

(* The tick drops the handler in flight, then one statement times out the    *)
(* given runs.                                                               *)
TimeOutRuns(w, ids) ==
  /\ workers[w].pc \notin Sweeping
  /\ run' = [r \in Runs |-> IF r \in ids THEN "timed_out" ELSE run[r]]
  /\ Become(w, [Idle EXCEPT !.pc = IF ids = {} THEN "repair" ELSE "arm", !.ids = ids])
  /\ UNCHANGED <<older, aged, bundles, jobs, rows, base, latest, followUps, s3Vars, apiVars>>

(* Mutant: the status of the run is not looked at. *)
SweepEveryStatus(w) == TimeOutRuns(w, {r \in Runs : run[r] # "absent" /\ aged[r]})

(* Mutant: importing runs are left to their job. *)
SweepCreatedOnly(w) == TimeOutRuns(w, {r \in Runs : run[r] = "created" /\ aged[r]})

(* sweep_timed_out: every active run older than 12 hours. *)
SweepTick(w) == TimeOutRuns(w, {r \in Runs : run[r] \in Active /\ aged[r]})

(* set_delete_after_for_timed_out_runs *)
ArmTimedOut(w) ==
  /\ workers[w].pc = "arm"
  /\ Arm(workers[w].ids)
  /\ Become(w, [Idle EXCEPT !.pc = "repair"])
  /\ UNCHANGED <<run, older, aged, jobs, rows, base, latest, followUps, s3Vars, apiVars>>

(* Mutant: the status of the run is not looked at. *)
RepairEveryStatus(w) ==
  /\ workers[w].pc = "repair"
  /\ Arm(Runs)
  /\ Step(w, "collect")
  /\ UNCHANGED <<run, older, aged, jobs, rows, base, latest, followUps, s3Vars, apiVars>>

(* Mutant: failed runs are forgotten. *)
RepairTimedOut(w) ==
  /\ workers[w].pc = "repair"
  /\ Arm({r \in Runs : run[r] = "timed_out"})
  /\ Step(w, "collect")
  /\ UNCHANGED <<run, older, aged, jobs, rows, base, latest, followUps, s3Vars, apiVars>>

(* repair_orphaned_staging_bundles *)
Repair(w) ==
  /\ workers[w].pc = "repair"
  /\ Arm({r \in Runs : run[r] \in {"timed_out", "failed"}})
  /\ Step(w, "collect")
  /\ UNCHANGED <<run, older, aged, jobs, rows, base, latest, followUps, s3Vars, apiVars>>

(* find_expired_staging *)
Collect(w) ==
  LET expired == {x \in Runs \X Slots :
                    bundles[x[1]][x[2]].key /\ bundles[x[1]][x[2]].del = "expired"}
  IN  /\ workers[w].pc = "collect"
      /\ Become(w, IF expired = {} THEN Idle
                   ELSE [Idle EXCEPT !.pc = "delete", !.todo = expired])
      /\ UNCHANGED <<dbVars, s3Vars, apiVars>>

(* Mutant: the key is cleared although the deletion failed. *)
DeleteNothing(w) ==
  \E x \in workers[w].todo :
    /\ workers[w].pc = "delete"
    /\ Become(w, [workers[w] EXCEPT !.pc = "clear", !.run = x[1], !.slot = x[2]])
    /\ UNCHANGED <<dbVars, s3Vars, apiVars>>

(* delete_object on the key that Collect read, for one of the bundles *)
DeleteObject(w) ==
  \E x \in workers[w].todo :
    /\ workers[w].pc = "delete"
    /\ staging' = [staging EXCEPT ![x[1]] = None]
    /\ Become(w, [workers[w] EXCEPT !.pc = "clear", !.run = x[1], !.slot = x[2]])
    /\ UNCHANGED <<dbVars, final, apiVars>>

(* The sweep is done with bundle i of run r. *)
NextDelete(w, r, i) ==
  LET left == workers[w].todo \ {<<r, i>>}
  IN  Become(w, IF left = {} THEN Idle ELSE [Idle EXCEPT !.pc = "delete", !.todo = left])

(* clear_staging_object_key *)
ClearKey(w) ==
  LET r == workers[w].run
      i == workers[w].slot
  IN  /\ workers[w].pc = "clear"
      /\ BundleBecomes(r, i, [bundles[r][i] EXCEPT !.key = FALSE])
      /\ NextDelete(w, r, i)
      /\ UNCHANGED <<run, older, aged, jobs, rows, base, latest, followUps, s3Vars, apiVars>>

(* A statement or S3 call of the sweep fails: it is logged and skipped. *)
SweepError(w) ==
  /\ \/ /\ workers[w].pc \notin Sweeping
        /\ Become(w, [Idle EXCEPT !.pc = "repair"])
     \/ /\ workers[w].pc = "arm"
        /\ Become(w, [Idle EXCEPT !.pc = "repair"])
     \/ /\ workers[w].pc = "repair"
        /\ Step(w, "collect")
     \/ /\ workers[w].pc = "collect"
        /\ Finish(w)
     \/ /\ workers[w].pc = "delete"
        /\ \E x \in workers[w].todo : NextDelete(w, x[1], x[2])
     \/ /\ workers[w].pc = "clear"
        /\ NextDelete(w, workers[w].run, workers[w].slot)
  /\ UNCHANGED <<dbVars, s3Vars, apiVars>>

-----------------------------------------------------------------------------
(* The process stops, or another branch of select! drops the handler at an   *)
(* await. No code looks for the running job that is left behind.             *)
Abandon(w) ==
  /\ workers[w].pc # "idle"
  /\ Finish(w)
  /\ UNCHANGED <<dbVars, s3Vars, apiVars>>

(* Twelve hours pass, and the retention of a bundle, which is at least a     *)
(* day: an upload URL of that age has expired, as it lives an hour, and no   *)
(* create request is between its two statements for so long.                 *)
Age(r) ==
  /\ run[r] # "absent"
  /\ ~aged[r]
  /\ aged' = [aged EXCEPT ![r] = TRUE]
  /\ UNCHANGED <<run, older, bundles, jobs, rows, base, latest, followUps, s3Vars,
                 apiVars, workers>>

Expire(r, i) ==
  /\ bundles[r][i].del = "armed"
  /\ aged[r]
  /\ BundleBecomes(r, i, [bundles[r][i] EXCEPT !.del = "expired"])
  /\ creating' = [creating EXCEPT ![r] = None]
  /\ runners' = [runners EXCEPT ![r] = [c \in Runners |->
                   IF runners[r][c] = "ready" THEN "late" ELSE runners[r][c]]]
  /\ UNCHANGED <<run, older, aged, jobs, rows, base, latest, followUps, s3Vars,
                 failing, workers>>

Api ==
  \E r \in Runs :
    \/ InsertBundle(r)
    \/ CreateDropped(r)
    \/ \E c \in Runners : \/ InsertRun(r, c)
                          \/ CreateAgain(r, c)
                          \/ Upload(r, c)
                          \/ ImportArtifactBundle(r, c)
                          \/ FailRead(r, c)
                          \/ FailWrite(r, c)
                          \/ FailDropped(r, c)

Import(w) ==
  \/ \E r \in Runs : Dequeue(w, r)
  \/ MarkBundleImporting(w)
  \/ Download(w)
  \/ ExtractAndUpload(w)
  \/ Persist(w)
  \/ \E ack \in BOOLEAN : Commit(w, ack)
  \/ ImportError(w)
  \/ Reschedule(w)
  \/ FailBundle(w)
  \/ FailRun(w)
  \/ FailJob(w)
  \/ FailureNotStored(w)

Sweep(w) ==
  \/ SweepTick(w)
  \/ ArmTimedOut(w)
  \/ Repair(w)
  \/ Collect(w)
  \/ DeleteObject(w)
  \/ ClearKey(w)
  \/ SweepError(w)

Time == \E r \in Runs : Age(r) \/ \E i \in Slots : Expire(r, i)

Next == Api \/ Time \/ \E w \in Workers : Import(w) \/ Sweep(w) \/ Abandon(w)

Spec == Init /\ [][Next]_vars

-----------------------------------------------------------------------------
(* Safety *)

(* Every job that is handled is handled by one worker, and its row says      *)
(* "running" unless an import of the run was committed: the dequeue with     *)
(* SKIP LOCKED and the absence of a reaper together (github_job::dequeue).   *)
ClaimsAreExclusive ==
  \A w \in Workers :
    workers[w].pc \in Importing \cup GivingUp =>
      /\ \/ jobs[workers[w].run].status = "running"
         \/ jobs[workers[w].run].status = "completed" /\ rows[workers[w].run] # None
      /\ \A v \in Workers \ {w} :
           workers[v].pc \in Importing \cup GivingUp => workers[v].run # workers[w].run

(* A run has at most one bundle with a digest, it has an import job exactly  *)
(* when it has one, and the job asks for that digest, whatever the order of  *)
(* the create and import requests of several runners.                        *)
OneSubmissionPerRun ==
  \A r \in Runs :
    /\ \A i, j \in Slots : bundles[r][i].sha # None /\ bundles[r][j].sha # None => i = j
    /\ jobs[r].status # "none" <=> Submitted(r)
    /\ \A i \in Slots : bundles[r][i].sha \in {None, jobs[r].sha}

(* What is published for a run is the submission that was accepted for it,   *)
(* verified, and nothing else reached the final bucket under its prefix,     *)
(* although any runner may overwrite the staging object at any time.         *)
PublishedIsAccepted ==
  \A r \in Runs :
    /\ final[r] \subseteq {jobs[r].sha} \ {None}
    /\ rows[r] # None => rows[r] = jobs[r].sha /\ final[r] = {rows[r]}

(* The import is all or nothing: a run shown as completed, or whose job is   *)
(* completed, has its rows, and the GitHub jobs exist exactly for the runs   *)
(* that have rows. An importing run has the job that can end it.             *)
ImportIsAtomic ==
  \A r \in Runs :
    /\ run[r] = "completed" \/ jobs[r].status = "completed" => rows[r] # None
    /\ r \in followUps <=> rows[r] # None
    /\ run[r] = "importing" => Submitted(r)

(* MAX_ATTEMPTS bounds the imports of a run, an import job is given up only  *)
(* when they are used up, and a job that can still be taken has one left.    *)
AttemptsBounded ==
  \A r \in Runs :
    /\ jobs[r].attempts <= MaxAttempts
    /\ jobs[r].status = "failed" => jobs[r].attempts = MaxAttempts
    /\ jobs[r].status = "pending" => jobs[r].attempts < MaxAttempts

(* The staging object of a run is not condemned, deleted or forgotten while  *)
(* the run is active, unless the worker has given the bundle up and stopped  *)
(* before it failed the run.                                                 *)
RetentionStartsAtTheEnd ==
  \A r \in Runs, i \in Slots :
    Present(r, i) /\ (bundles[r][i].del # "none" \/ ~bundles[r][i].key) =>
      \/ run[r] \in Terminal
      \/ bundles[r][i].status = "failed" /\ jobs[r].attempts = MaxAttempts

(* The key of a bundle row is all that leads the sweep to an object in the   *)
(* staging bucket: as long as the object is there, some row of the run has   *)
(* its key and no worker is about to clear it, whatever uploads, sweeps of   *)
(* other workers and errors of the sweep come between delete and clear.      *)
StagingIsNamed ==
  \A r \in Runs :
    staging[r] # None /\ Present(r, 1) =>
      \E i \in Slots :
        /\ bundles[r][i].key
        /\ \A w \in Workers :
             workers[w].pc = "clear" => <<workers[w].run, workers[w].slot>> # <<r, i>>

-----------------------------------------------------------------------------
(* Action properties *)

(* No step makes a terminal run active again: a late import request, a late  *)
(* worker or a late fail request may only replace one ending by another.     *)
TerminalIsFinal ==
  [][\A r \in Runs : run[r] \in Terminal => run'[r] \in Terminal]_vars

(* What was accepted and what was published for a run never changes, and     *)
(* an acceptance happens only while the run is active.                       *)
SubmissionIsFinal ==
  [][\A r \in Runs :
       /\ jobs[r].sha # None => jobs'[r].sha = jobs[r].sha
       /\ rows[r] # None => rows'[r] = rows[r] /\ base'[r] = base[r]
       /\ jobs[r].sha # jobs'[r].sha => run[r] \in Active /\ run'[r] = "importing"]_vars

(* A run becomes a baseline only after its own import was committed: the     *)
(* baseline is looked up before latest_completed_run_id moves.               *)
BaselineWasImported ==
  [][\A r \in Runs : base'[r] # base[r] =>
       rows[r] = None /\ base'[r] # r /\ rows[base'[r]] # None]_vars

(* The detailed system implements the ledger that the API promises.          *)
Ledger == INSTANCE RunLedger WITH
  Digests <- Runners, state <- run, accepted <- [r \in Runs |-> jobs[r].sha],
  published <- rows, newest <- latest

ImplementsLedger == Ledger!Spec

-----------------------------------------------------------------------------
(* What the documents promise and the code does not keep (see the findings) *)

(* A fail request leaves a completed run completed and a timed out run       *)
(* timed out: it is answered with 409 or 410.                                *)
FailKeepsEnding ==
  [][\A r \in Runs : run[r] \in {"completed", "timed_out"} /\ failing' # failing
                      => run'[r] = run[r]]_vars

-----------------------------------------------------------------------------
(* Liveness. Time passes, every worker process keeps sweeping, and a         *)
(* statement or S3 call of the sweep that is tried again and again succeeds  *)
(* at last. Nothing is assumed of the runners, nor of the import handler,    *)
(* which any tick may cut short.                                             *)
Fairness ==
  /\ \A r \in Runs : WF_vars(Age(r)) /\ \A i \in Slots : WF_vars(Expire(r, i))
  /\ \A w \in Workers : /\ WF_vars(Sweep(w))
                        /\ SF_vars(SweepTick(w))
                        /\ SF_vars(Repair(w))
                        /\ SF_vars(Collect(w))
                        /\ SF_vars(DeleteObject(w))
                        /\ SF_vars(ClearKey(w))

FairSpec == Spec /\ Fairness

(* Every run ends, whatever the runner, the import job and the worker that   *)
(* took it did: the timeout sweep is the last resort.                        *)
EveryRunEnds == \A r \in Runs : run[r] \in Active ~> run[r] \in Terminal

(* The staging object of a run that is over and has a bundle row is deleted, *)
(* also when a process stopped between two statements of the sweep.          *)
StagingIsCleaned ==
  \A r \in Runs : run[r] \in Terminal /\ Present(r, 1) ~> staging[r] = None

(* No bundle row of a failed or timed out run keeps its key for ever.        *)
KeysAreCleared ==
  \A r \in Runs, i \in Slots :
    run[r] \in {"failed", "timed_out"} /\ bundles[r][i].key ~>
      run[r] = "completed" \/ ~bundles[r][i].key

=============================================================================
