# Boardflow: models, checks and proofs

Boardflow is a service that archives, checks and displays KiCad boards. A GitHub
action (`action-runner`) builds a bundle for each board project of a commit and
submits it to an API (`api`); a worker (`worker`) imports the bundle, compares it
with the previous run of the project and keeps a GitHub issue with a dashboard
comment up to date; a web frontend shows the results. PostgreSQL is the only
shared state of API and workers, an S3 store holds the bundles and artifacts.

This directory holds TLA+ modules that model the parts of the program whose
correctness depends on the order in which its processes act, the configurations
that check them with TLC, and proofs that TLAPS checks. Paths below are relative
to the repository root, which is the parent of `crates/`; `PROJECT.json` maps each
definition to its lines, under the prefix `src/`.

## 1. Inventory

| Component | State it keeps | Operations | Talks to |
|---|---|---|---|
| Board run API (`crates/api/src/services/board_run.rs`) | `board_runs`, `artifact_bundles`, the import rows of `github_jobs` | create, fail, import | runners (HTTP), job queue, staging bucket (presigned URL) |
| Plan API (`services/plan.rs`) | `board_projects` | decide run/skip per project, upsert projects | runners |
| Job queue (`crates/db/src/queries/github_job.rs`, `crates/jobs`) | `github_jobs` | enqueue (unique per run and type), dequeue (`FOR UPDATE SKIP LOCKED`), reschedule, complete, fail | API, workers |
| Import handler (`crates/worker/src/handlers/import/`) | artifacts, checks, snapshot, diff, `latest_completed_run_id` | validate, download, verify, upload, persist, commit, give up | both buckets, job queue |
| Sweeps (`crates/worker/src/dispatcher.rs`, `main.rs`) | `board_runs.status`, `delete_after`, `staging_object_key` | time out runs, repair, delete expired staging objects | staging bucket |
| GitHub jobs (`crates/worker/src/handlers/*.rs`) | issue and comment ids of `board_projects` | create issue, create and update dashboard comment, post run result | GitHub |
| Installation sync and webhooks (`crates/api/src/routes/webhook.rs`, `crates/worker/src/installation_sync.rs`, `crates/api/src/github_access/installation_sync.rs`) | `repositories.installation_id`, `github_installation_sync_state` | webhook deliveries, throttled sync of the worker, fallback sync of the read API | GitHub |
| GitHub access cache (`crates/api/src/github_access/cached.rs`) | `github_api_cache` | fresh, stale and refused answers, cleanup by the worker | GitHub, worker |
| Sessions, OAuth, API tokens (`crates/api/src/routes/auth.rs`, `extractors/`) | `users`, `sessions`, `boardflow_api_tokens` | login, logout, create, revoke, verify | browser, runners |
| Authorization, artifact proxy (`services/authz.rs`, `routes/proxy.rs`) | none; links are signed | check access, hand out links, serve artifacts | browser, GitHub |
| Read API (`crates/api/src/routes/read/`, `pagination.rs`) | none | queries, keyset pagination | browser |
| Action runner (`crates/action-runner`) | none that survives | discover, plan, build, submit, report failure; retries of its requests | API, staging bucket, `kicad-cli` |
| KiCad integration (`crates/kicad`) | files of one job | find project files, export, read reports, hash the tree | `kicad-cli` |
| Bundle archive (`crates/artifact`, `action-runner/src/bundle.rs`) | none | build, verify, extract | - |
| Comment text, configuration, GitHub client, frontend | none | - | - |

### What is hard, and what correctness means

* **Runs.** Two jobs of one workflow run may submit the same project. They share a
  run (the idempotency key is repository, project, workflow run and attempt), while
  their archives, and so the digests, differ. Create uses two statements and no
  transaction, fail uses a read and a later write, import uses one transaction under
  a row lock. Correct means: one submission wins and stays; a run that is over stays
  over; the published results are those of the accepted submission.
* **Imports.** The handler has five awaits where a statement or an S3 call may fail,
  where the process may stop, and where the other branch of `tokio::select!` may drop
  it (`crates/worker/src/main.rs:85-118`: a tick of the sweep interval abandons a
  handler in flight). A job left `running` is not looked for by any code, although
  `docs/external/postgresql-job-queue-polling.md:293-296` describes such a reaper.
  Correct means: all of an import is visible or none of it; attempts are bounded;
  the run ends even if nobody takes its job up again.
* **Commit acknowledgements.** `tx.commit()` may fail after the commit was applied.
  The handler then treats the import as failed, the next attempts fail on unique keys,
  and the run, whose results are published, ends as `failed`. The model contains this
  path; it is why the ledger (section 3) leaves open *which* ending a run shows.
* **Retention.** A staging object must survive while its run is active and must be
  gone in the end, across errors and restarts of each statement of the sweep.
* **Baselines.** `latest_completed_run_id` is read without a lock and in commit
  order, not in creation order.
* **GitHub jobs.** GitHub is called first and the result stored afterwards, so every
  stop in between duplicates an effect; jobs are unique per run, not per project.
* **Installations.** Webhook deliveries are lost, repeated or handled in another order,
  statement by statement, next to a sync that writes a list it read from GitHub before.
  Correct means: an event of one installation never unlinks a repository that belongs to
  another, and the table comes to agree with GitHub whatever went wrong.
* **Access.** A list of repositories is served for an hour, and up to a day longer after any
  error of GitHub, while requests that ask GitHub and store the answer overlap and the
  worker deletes old entries. Correct means: nobody sees a list older than that, an outage
  costs nobody a list that is not, links and tokens come only from users who had access.
* **Runner.** A request that has no answer within a minute is sent again, and the first one
  may be executed later, also after the runner has failed the run or gone. Correct means: a
  green job has handed over all it built, a project is skipped only if its tree is stored,
  and an export that fails costs its artifact and not the run.
* **Pages.** Rows come and move while a client walks through a list. Correct means: what
  stays in place is shown once, and the walk ends.

`PROJECT.json` lists each hazard with its line and the properties that cover it.

## 2. Modules and plan

Written:

| Module | Content |
|---|---|
| `BoardRuns` | the core: run API, import job, worker, sweeps, staging bucket, time |
| `RunLedger` | the abstract specification that `BoardRuns` implements |
| `MCBoardRuns` | instances for TLC |
| `IssueSync` | the GitHub jobs, the issue and the dashboard comment of a project |
| `MCIssueSync` | instances for TLC |
| `Installations` | which repository belongs to which installation: GitHub, webhooks, both syncs |
| `MCInstallations` | an instance for TLC |
| `BoardRunsProofs` | theorems about `BoardRuns`: types, claims, attempts |
| `BoardRunsSafety` | theorems: submissions, publication, atomicity, refinement of `RunLedger` |
| `BoardRunsRetention` | theorem: retention of staging objects |
| `IssueSyncProofs` | theorems about `IssueSync`: types, claims, issue and sync status, dashboard of one worker |
| `InstallationsProofs` | theorems about `Installations`: types, links, distance of syncs |
| `Bundle` | what the runner computes from a checkout: projects, exports, manifest, archive, and what the worker takes |
| `ActionRunner` | jobs of the GitHub Action, their requests, the plan API, the run API and the import as they see them |
| `MCActionRunner` | instances for TLC |
| `ActionRunnerProofs` | theorems about `Bundle` and `ActionRunner`: importable archives, exit codes, skips, refinement of `RunLedger` |
| `Access` | sessions, the access cache, checked requests, artifact links, API tokens |
| `MCAccess` | an instance for TLC |
| `AccessProofs` | theorems about `Access`: how old an answer may be, what a failure of GitHub costs |
| `Paging` | a client that walks through a paginated list |
| `MCPaging` | an instance for TLC |
| `PagingProofs` | theorems about `Paging`: types, nothing twice, nothing missed |

How they depend on each other: `ActionRunner` extends `Bundle`; `BoardRuns` and `ActionRunner`
both implement `RunLedger`, the first in the detail of the API and the worker, the second for
all projects of a repository at once and with the runners that call the API. What `ActionRunner`
takes from the API is therefore what `BoardRuns` was shown to give. The other modules stand
alone: they share with the rest the rows that this table names in their sections.

Left for later: a refinement of the API steps of `ActionRunner` by those of `BoardRuns`
for one run; so far both are shown to implement `RunLedger`.

## 3. `BoardRuns`

### State

| Variable | Code |
|---|---|
| `run`, `older`, `aged` | `board_runs.status`; which runs have an earlier `created_at`; `created_at` older than 12 hours |
| `bundles[r][i]` | the `artifact_bundles` rows of a run: status, `sha256`, whether `staging_object_key` is set, `delete_after` (unset, set, passed) |
| `jobs[r]` | the `artifact_bundle_import` row of `github_jobs`: status, attempts, the digest of its payload |
| `rows`, `base`, `latest`, `followUps` | what the import transaction writes: artifacts, checks and snapshot (as the digest they come from), the baseline of the diff, `latest_completed_run_id`, the GitHub jobs |
| `staging[r]`, `final[r]` | the object under `staging/runs/{run}/bundle.zip`; the digests whose artifacts were put under the prefix of the run |
| `creating`, `failing` | create and fail requests that are between their two statements |
| `runners` | what an action runner has received and done for a run |
| `workers` | program counter and locals of each worker process |

A run has at most two bundle rows: an import request that finds no row inserts one
(`update_for_import` or `insert_for_import`), and a create request in flight inserts the other.
`find_by_board_run_id` orders by `received_at`, hence `LatestSlot`.

### Actions

A step is what the program does between two awaits: a statement, a transaction, or
an S3 call. `Api` holds create (`InsertRun`, `InsertBundle`, `CreateDropped`,
`CreateAgain`), `Upload`, `ImportArtifactBundle`, and fail (`FailRead`, `FailWrite`,
`FailDropped`). `Import(w)` holds dequeue and the handler (`MarkBundleImporting`,
`Download`, `ExtractAndUpload`, `Persist`, `Commit`), the error of each step
(`ImportError`), and `handle_import_failure` statement by statement, each of whose
errors the code ignores. `Sweep(w)` holds the sweep: `SweepTick`, `ArmTimedOut`,
`Repair`, `Collect`, `DeleteObject`, `ClearKey`, `SweepError`. `Abandon(w)` is a process that
stops, or a handler that `select!` drops, at any await. `Time` lets twelve hours
and then the retention pass.

`Persist` and `Commit` are two steps of one transaction. What other processes can
see appears at `Commit`; the lookup of the baseline happens at `Persist` and
takes no lock, and that distance is what the two-run instance examines. The inserts
before the lookup wait for an uncommitted import of the same run and then fail;
`ClaimsAreExclusive` shows that no two imports of one run overlap.

### What is abstracted

* The artifacts, checks and findings of a run are one value, the digest of its bundle.
* Requests that are rejected, or answered from rows that exist, are stuttering steps.
* The limit of 100 bundles in one sweep; instances are far below it.
* The presigned URL lives an hour and the retention lasts at least a day, so `Expire`, the
  end of the retention, ends the URLs of the run as well, and a create request that would
  have stood between its two statements for that day.
* Backoff delays: a pending job may be taken at any time.
* Whether a runner is authorised.

### `RunLedger`

The promise of the API in four variables: the state of a run, the submission accepted,
the submission published, and the newest run. `Open`, `Take`, `Publish`, `Fail`,
`TimeOut` are its steps. The refinement maps `state` to `run`, `accepted` to the
digest of the import job, `published` to `rows` and `newest` to `latest`. The abstract
specification says what no unit test of a handler can say: a submission is accepted
once and while the run is active, published once, as accepted, and nothing brings a
run back to life.

## 4. `IssueSync`

### State

| Variable | Code |
|---|---|
| `done` | the completed runs of the project by `completed_at`; the last is `latest_completed_run_id` |
| `project` | `issue_number`, `dashboard_comment_id`, `issue_sync_status`, `recreate_issue_on_update` of the `board_projects` row |
| `history` | `board_project_issue_history`, as the set of issue numbers |
| `jobs[r][t]` | the row of `github_jobs` of run `r` and type `t`: status and attempts |
| `issues`, `comments`, `results` | GitHub: the state of each issue; each dashboard comment with its issue and the run it shows (none once deleted); the runs with a result comment |
| `workers` | program counter and locals of each worker; `issue`, `comment`, `latest` are the row as the handler read it |

### Actions

`Import` is the commit of an import, which completes a run and enqueues its jobs; the
rest of imports is in `BoardRuns`. `Work(w)` is one round of the dispatcher: `Dequeue`; the handler
of the job, one step for each statement, transaction and GitHub call; and what the
dispatcher does with the result (`Settle`, `MarkSyncFailed`). The preamble that the three
comment handlers repeat (read, `CheckIssue`, `JudgeTree`, and the three statements that
give an issue up) is modelled once. `Fault(w)` has calls and commits that take effect
without an answer (`ack` is FALSE), calls and statements that fail (`Fails`, also the worker
without a GitHub client), the errors the code ignores (`Ignored`), and `Abandon`. `Users`
close, reopen and delete issues and delete comments, at any time.

### What is abstracted

* The text of an issue or a comment is the run it is made from; check results are a
  number of errors.
* Delays of rescheduled jobs and the order in which the dispatcher tries the job types:
  a pending job may be taken at any time.
* Runs stay completed; that a fail request may change this is finding 1 of section 11.
* `HandlerResult::Failed`, which handlers return for rows that do not exist: rows of
  projects and runs are never deleted.
* `completed_at` orders runs as their commits do.

## 5. `Installations`

### State

| Variable | Code |
|---|---|
| `hosts`, `life` | GitHub: the installation each repository is in; whether an installation exists yet, is installed or was deleted |
| `messages` | webhook deliveries on their way or being handled, with the repositories still to be written; and lists that the fallback sync has fetched |
| `rows` | `repositories.installation_id`; `None` is the 0 of the code, and no row at all |
| `states[i]` | the row of `github_installation_sync_state`: the ages of `webhook_seen_at`, `last_sync_started_at` and `last_sync_completed_at`, and whether the last sync failed |
| `workers` | program counter and locals of `sync_stale_installations` in each worker process: the ids left of the list, how many were synced, the installation in hand, what GitHub listed for it and the rest of the running loop |

A time is an age in ticks, which `Tick` increases up to the larger of the two limits; beyond
it `needs_sync` makes no difference, nor between that age, NULL and no row. So time is
finite without a bound that cuts behaviours off.

### Actions

`GitHub`: `Install`, `Uninstall`, and `MoveRepo`, which adds, removes or transfers a repository and sends
the deliveries. `Handle` is the webhook handler: `Stamp`, then `WriteAdded` or `WriteRemoved` for
each repository, or the one statement of `WriteDeleted`. `Read` fetches the repositories of an
installation for a user, to be written like those of a delivery. `Sync(w)` is the sweep:
`ListInstallations`, `Look` (the state is read and `needs_sync` decides), `MarkSyncStarted`,
`ListRepositories`, `UpsertListed` for each, `ListLinked`, `Prune` for each, `MarkSyncCompleted`, `EndSweep`.
`Fault` repeats a delivery, loses one or the rest of it, drops a stamp, skips an installation
whose state cannot be read or marked, fails a sync, loses its completion, or stops a
process. `messages` is a set: deliveries have no order, and those of two transfers mix.

### What is abstracted

* The signature and the parsing of a delivery: one that is refused counts as lost.
* Owners and names of repositories, and the pages of a list from GitHub.
* When the fallback sync runs (a user has access to a repository without a row, at most
  once in its TTL): it may run at any time.
* How often a worker sweeps: at any time, as the throttle is to hold whatever the interval.
* Suspended installations: for the sync they fail, or have no repositories, like one whose
  removals were lost.
* Events with other actions, which only stamp an installation.

## 6. `Bundle` and `ActionRunner`

### State

| Variable | Code |
|---|---|
| `jobs` | a process of `action-runner`: its inputs and checkout, the decisions of the plan, the projects left, what was built, the request under way and its attempt, the exit code |
| `calls` | HTTP requests that the API may still execute, also those their sender gave up |
| `writing` | fail requests between their read and their write |
| `state`, `accepted`, `published`, `queue`, `newest` | `board_runs.status`; the digest of the import row; the stored rows; import jobs that are not done; `latest_completed_run_id` |
| `staging` | whose archive is under `staging/runs/{run}/bundle.zip` |

A digest is the job that made the archive: two jobs never make the same one, as it holds
timestamps.

### `Bundle`

Operators, no state. `Usable` is one turn of the loop of `discover_and_validate`. A value of
`Pipeline` says how each command of `kicad-cli` and each archive ended: by its exit code and by
the file it left. From it follow `Available` (phase by phase, as in `run_artifact_pipeline`),
`CheckStatus`, `Manifest`, `Staged` (what `build_staging_dir` copies, which is not the same as what
is available) and `Accepts`, which is `extract_bundle`. Staged name and path of the manifest are
equal in the code, so an artifact type stands for both.

### Actions

`Step(j)` is one step of a job: `Discover`, `SkipProject` and `StartProject` (the loop of `run`),
`Build`, `Upload`, `Send` and `Retry` (the loop of `ApiClient::request`), `RequestFails` with
`OnError` (what an error does, by the request it belongs to), and the places where `?` passes
an error on: `BuildBreaks`, `ZipFails`, `UploadFails`, `SubmitBreaks`. `Kill` is GitHub's.
`Serve(c)` executes a request, whoever waits for it: `PlanRun`, `CreateBoardRun`, `ImportArtifactBundle`, and
the answers that change nothing; fail takes two steps. An answer reaches its sender only if
that still waits for this very attempt (`Awaits`). `Work(r)` is the worker and the sweep, in the
steps of the ledger.

### What is abstracted

* An import is one step, as `ImportIsAtomic` and `OnlyAcceptedIsPublished` of `BoardRuns` allow.
* The hash of a tree is the tree without its excluded files: no two trees share a hash.
* The delays between attempts; the texts of the job summary.
* Copies into the staging directory succeed: their errors are ignored
  (`bundle.rs:117`, `197`, `205`, `535`), and what a copy that failed would cost the run is not examined.
* The status of an artifact in the rows is that of its manifest entry; checks and findings
  of the rows are those of the reports.
* Project, commit and token of a request are those of the job.

## 7. `Access`

### State

| Variable | Code |
|---|---|
| `access`, `until` | GitHub: the repositories of a user, and when each was lost (history) |
| `login` | `users.github_access_token`, as a number that grows with each login |
| `sessions` | the table `sessions`; expired rows stay in it |
| `cache`, `stored` | the entry `accessible_repo_ids` of `github_api_cache`; when it was written (history) |
| `throttle` | the entry `installation_repos_sync` |
| `known`, `statuses` | the table `repositories`; the statuses of the artifacts of a run |
| `links` | artifact URLs that were handed out |
| `apiTokens`, `used`, `touching` | `boardflow_api_tokens`, its `last_used_at`, and the tasks that are about to write it |
| `requests` | program counter and locals of each request of a session |

### Actions

A request reads its session and user first (`Starts`) and goes on with them, whatever happens
to both. `LookUp`, `Fetch`, `FetchFails`, `Store`, `FallBack`, `StartSync`, `SkipSync`, `Sync` are
`list_accessible_repo_ids` and the insert of installed repositories behind it; `CleanUp` is the
worker's. `CheckAccess` and `CheckFails` are the question to GitHub in front of everything
that concerns one repository; `ViewSources`, `CreateApiToken`, `RevokeApiToken` what follows it.
`Authenticate` and `UpdateLastUsedAt` are the extractor of API requests and its task. GitHub may
answer with an error at any time. `End` is also a client that hangs up.

### What is abstracted

* `MaxLag` bounds the time a request takes. The HTTP client for GitHub has no timeout of its
  own, so this is an assumption about GitHub and the proxy in front of the API.
* A signature cannot be made without the secret; a token cannot be guessed.
* The pages of a list from GitHub are one answer; its errors are one error.
* The `state` parameter of OAuth, cookies, the deletion of a GitHub account.

## 8. `Paging`

`time[r]` is the column a list is ordered by, for each row; `Lists` are the five paginated lists. Two of
them (board projects, repositories) are ordered by `updated_at`, which upserts change (`Touch`),
and that of repositories is filtered by what GitHub says for each page (`Hide`). `NextPage` and
`LastPage` are the handlers: `limit + 1` rows after the cursor, the first `limit` of them, and the
position of the last as the next cursor. A timestamp is the start of the transaction that wrote the
row, so `Insert` and `Touch` may put a row anywhere. `seen`, `again`, `initial` and `moved` are the
history of a walk. Findings ascend where the others descend; the model takes the order
reversed. A cursor that does not parse is refused, and left out; its text keeps the precision
of the column (microseconds; `pagination.rs:34`), so it is the position itself.

## 9. What the runs check

| Run | Instance | Question |
|---|---|---|
| `one_run` | 1 run, 2 runners, 2 workers, 2 attempts, all faults, symmetry | the safety properties of a run and the refinement of `RunLedger` |
| `two_runs` | 2 runs, 1 runner, 2 workers, 1 attempt, `ShortSpec`, symmetry | baselines and `latest` when imports of a project overlap |
| `live` | 1 run, 1 runner, 1 worker, 2 attempts, `FairSpec` | every run ends, staging objects and keys go away |
| `fail_race` | 1 run, 1 runner, 1 worker | finding 1 |
| `issue_sync` | 2 runs of one tree, 2 workers, 1 attempt, 1 fault or user, symmetry | the issue, its status and the jobs when handlers overlap |
| `dashboard` | 2 runs, 1 worker, 2 attempts, 1 fault or user, fairness | the dashboard when handlers do not overlap; every job is taken |
| `dashboard_stale` | 2 runs, 2 workers, 1 attempt, no fault | finding 2 |
| `installations` | 1 repository, 2 installations, 1 worker, 2 changes on GitHub, 1 fault or read, fairness | the table against GitHub, whose events clear a link, how often an installation is synced |
| `runner` | 2 jobs, 2 attempts of workflow runs, 2 projects, 3 trees, 2 attempts per request, 1 fault, fairness | exit codes, skips and archives when requests are retried, lost or executed late; every job ends |
| `leftover` | as `runner`, with an export that left half its output | finding 3 |
| `access` | 1 user, 1 repository, 2 requests, 2 sessions, 1 API token; lists, views and tokens in turn | how old an answer, a link and a token may be; what the fallback still serves |
| `paging` | 3 rows, 3 timestamps, pages of 1 or 2 rows, fairness | a walk through a list that changes |

Properties:

* `ClaimsAreExclusive`: a job is handled by one worker at a time; without a reaper a job
  once claimed is not claimed again before its handler has put it back.
* `OneSubmissionPerRun`, `SubmissionIsFinal`: one digest wins, whichever order the
  create and import requests of two runners take, and stays, also after lost commits.
* `PublishedIsAccepted`: what reached the final bucket and the rows is the accepted
  submission, although the staging object may be overwritten at any time.
* `ImportIsAtomic`: completed runs and jobs have rows, GitHub jobs exist exactly for runs
  with rows, an importing run has a job.
* `AttemptsBounded`: MAX_ATTEMPTS is reached and not exceeded.
* `RetentionStartsAtTheEnd`: no staging object of an active run is condemned, but for
  one case the code has: the worker gave the bundle up and stopped, or the statement
  failed, before the run was failed.
* `StagingIsNamed`: the key of a bundle row is all that leads a sweep to an object, and it is
  cleared in a statement after the deletion. Two rows of a run share one object, uploads and
  the sweeps of other workers come in between, each of the two steps may fail, and still no
  object stays behind that no key names. A run without a row is the exception (section 11).
* `TerminalIsFinal`: no step makes a terminal run active. One ending may still replace another; for
  the fail request that is the question of `fail_race`.
* `BaselineWasImported`: a baseline is another run that was imported before.
* `ImplementsLedger`: `BoardRuns` implements `RunLedger`.
* `EveryRunEnds`, `StagingIsCleaned`, `KeysAreCleared`: liveness.
* `IssueIsKept`: of two handlers that both created an issue, the second leaves the first's
  in place; the lock is taken after the call, and only the second look prevents it.
* `SyncStatusIsTrue`: the status shown to users agrees with the issue, over clears, failures
  of other runs' jobs and lost commits.
* `JobsAreBounded`: attempts and the exclusive claim, for the GitHub jobs.
* `CommentIsOnIssue`, `DashboardIsCurrent`: with one worker the recorded dashboard is on the
  recorded issue and, once the dashboard jobs of the latest run are completed, there is one, unless
  users closed or deleted something, and it shows that run. The
  pair `dashboard` and `dashboard_stale` says that this is a property of one worker, not of
  the handlers. A dashboard that is missing counts only while users have touched nothing,
  as an issue that was cleared may not be created again (section 11).
* `EveryJobIsTaken`: no job is pending for ever.
* `RemovalIsOwn`: a link is cleared by an event or a sync of the installation it names. It is
  the condition on `installation_id` in the two clear statements that a late removal from
  the old installation meets after a transfer.
* `SyncsAreSpaced`: a sync is not started within the interval after the last start, also
  after failures, restarts and lost completions.
* `RowsConverge`: once GitHub is left alone, the table comes to agree with it about the
  installations there are, for good: a sync that wrote an older list, or an event that
  came late, is followed by another sync, as the stamp and the throttle both age.
* `GreenMeansSaved`: when a job ends, each project it was to build and does not count as an error has
  a submission, its own or that of another job of the attempt. What it built itself always has;
  `OnError`, retries and late execution together could break that. What it did not build, as it
  found the run past its creation, may lack one if the run timed out, or if another job
  reported that it failed, and then that other job is not green (section 11). So if all jobs
  of an attempt end with 0 and no run timed out, everything was handed over. With 0 nothing is an error and
  no gate of what the job built is closed. In the instance both exceptions occur.
* `SkipIsSaved`: a project is skipped only if artifacts of the very same tree are stored,
  although runs are created, given up and overtaken while the decision is made.
* `FailedArtifactIsHarmless`: whatever exports failed, the archive is one that the worker takes.
  It holds as long as a failed command leaves no output; `leftover` shows the other case.
* `LedgerIsKept`: the API as `ActionRunner` has it keeps the promises of `RunLedger` for each
  project, so it gives the runner no more than `BoardRuns` was shown to keep.
* `EveryJobEnds`: no order of answers, retries and failures keeps a job going for ever.
* `ListIsRecent`: no list shows a repository that the user lost longer ago than cache, fallback
  and two requests allow; two, as a slow request may store an old list over a newer one.
* `OutageIsBridged`: an error of GitHub alone takes no list away that the fallback covers. The
  API and the worker's cleanup must have the same idea of a day for this.
* `LinksAreGood`: a link that still opens was made for someone who had access an hour and a
  request ago, and a viewer shown as complete has a link for each type it needs.
* `TokensAreGood`: tokens come from users with access, and a revoked token shows no use later
  than one detached update.
* `ShownOnce`, `NothingMissed`, `WalkEnds`: a walk through the pages of a list.

### Bounds and why they are enough

Runs of a project share only `latest`, so everything about one run is examined with one
run, and what concerns `latest` with two. Two runners make the conflicts of digest,
of create requests and of uploads possible; a third repeats what the second does.
Two workers give overlapping imports and a sweep beside an import. `MaxAttempts`
is 5 in the code; with 2 an import is retried and then given up, which are the two
branches of the failure handler. `two_runs` uses one attempt and `ShortSpec`, in which
twelve hours never pass: without time the sweeps find nothing to do and a tick only
drops a handler, which `Abandon` does as well, so no behaviour of imports is lost;
the interplay with sweeps is the question of `one_run`. Counters need no cap:
`attempts` is bounded by the code. Runs, runners and workers are symmetric; symmetry
is used for safety only.

`IssueSync` needs no cap either: each attempt creates at most one issue and one comment.
Its instances bound what goes wrong: `MaxTroubles` is the number of faults and of steps of
users (a closed issue may be reopened for free). With one, a second worker or a second
attempt already meets a changed world, and `dashboard_stale` needs none. `issue_sync`
runs with one attempt, where a reschedule gives the job up, and `dashboard` with two.
The runs differ in tree and errors, or share the tree, so that both answers of
`tree_hash_changed` and of `should_post_run_result` occur.

`Installations` is examined with one repository, as statements about different repositories
touch different rows, and two installations, which a transfer needs. Ages are exact up to
the larger limit; with both limits at one tick a sync may be due or not, for either
reason. `MaxChanges` is the number of changes on GitHub (2: a repository is added and
transferred, added and removed, or its installation deleted), `MaxTroubles` that of faults
and reads. The cap of a sweep is 2, no smaller than the list, since a smaller one starves
(section 11). The instance starts with no installation, or with two that have no repository.

`ActionRunner` starts with two jobs that build one project, in one attempt of a workflow run or in
two, with the same tree, one that differs in an excluded file or another, or with one job that
builds two projects of any kind beside a pull request or an empty checkout. A third job
would repeat the second. `MaxTries` is 3 in the code; with 2 there is a first and a last attempt. `MaxTroubles` (1)
bounds retries, lost requests, dropped handlers, failing commands, uploads and imports, killed jobs and
timeouts; an error of a request is free, so that with one retry a request may be executed
twice, late, or after its job is over. Exports end all well, or partly (violations, a drawing,
the gerbers and an archive failed, a report that is no text).

`Access` is examined scenario by scenario: lists, views and links, API tokens. They share
sessions, time and what GitHub says, and no other state. One hour is one tick (`CacheTtl`, `UrlTtl`,
`MaxLag` 1, the fallback 2), and each scenario has the ticks in which its limits can pass (6,
4, 3). Access is granted and lost at most once, and a user logs in again when the
session is over. Two requests are what a late write and an overlap need.

`Paging`: three rows with three timestamps have ties, rows on both sides of a cursor and a
page of two with a row left. The limits are one below 1, one above the largest, and the default.

Deadlock is checked except under `ShortSpec`, which rests once both runs are over, in
`IssueSync` and `ActionRunner`, which rest once their jobs are, and in `Access`, where time ends.

### Fairness

`FairSpec` assumes that time passes, that each worker process goes on sweeping
(`WF` on `Sweep(w)`: the interval of `main.rs` ticks for ever and every worker sweeps),
and that each statement or S3 call of the sweep that is tried again and again
succeeds at last (`SF`: the sweep starts over each interval, so a call may be
interrupted infinitely often without being continuously enabled). Nothing is
assumed of runners, of API requests or of the import handler: the properties say that
the sweeps alone end every run.

`FewFairSpec` of `MCIssueSync` assumes that a worker with something to do goes on (`WF` on
`Work(w)`): the loop of `main.rs` polls for ever, and each await returns. A handler may
still be abandoned, and a job lost with it.

`FewFairSpec` of `MCInstallations` assumes that time passes, that deliveries that arrived are handled
(`WF` on `Handle`), and that each worker goes on with its sweep and starts the next one (`WF` on
`Sync(w)`; a sync runs in a branch of `select!` that is not dropped, and its interval ticks for
ever). Deliveries may be lost all the same.

`Fairness` of `ActionRunner` lets a job that can take a step take one (`WF` on `Step(j)`): requests and
uploads have a timeout and a last attempt, commands of `kicad-cli` are killed after theirs. The
iBOM generator has none; GitHub's limit on jobs ends it, which is `Kill`. Nothing is assumed of the
API or the worker: a request may never be executed.

`FairSpec` of `Paging` lets a client that has a cursor ask for the next page (`WF` on `Page`).

## 10. What is proved

The proof modules show, for all sets of runs, runners and workers and all
bounds, each safety property the passing runs check of `BoardRuns`, `IssueSync`,
`Installations`, `ActionRunner`, `Access` and `Paging`, and of three of the liveness
properties the half that is about steps: what has been reached stays, and what is left shrinks.

| Module | Theorems |
|---|---|
| `BoardRunsProofs` | `TypeCorrect`, `ClaimsExclusive`, `AttemptsAreBounded` |
| `BoardRunsSafety` | `OneSubmission`, `OnlyAcceptedIsPublished`, `ImportsAreAtomic`, `RefinesLedger`, `EndingsAreFinal`, `SubmissionsAreFinal`, `BaselinesWereImported` |
| `BoardRunsRetention` | `RetentionIsSafe`, `NoObjectIsLost` |
| `IssueSyncProofs` | `TypeCorrect`, `JobsBounded`, `IssueNotReplaced`, `SyncStatusTrue`, `CommentOnIssue`, `DashboardCurrent` |
| `InstallationsProofs` | `TypeCorrect`, `ClearedByItsOwn`, `SyncsKeepTheirDistance`, `SyncsRepair`, `TruthLasts` |
| `ActionRunnerProofs` | `TypeCorrect`, `SkipsAreSaved`, `GreenIsSaved`, `CleanFailuresAreHarmless`, `ImportableExactly`, `LedgersAreKept`, `RequestsEnd`, `JobsAdvanceToTheirEnd` |
| `AccessProofs` | `TypeCorrect`, `ListsAreRecent`, `LinksHold`, `TokensHold`, `OutagesAreBridged` |
| `PagingProofs` | `TypeCorrect`, `NoRowTwice`, `NoRowMissed`, `WalkGoesOn`, `WalkHasBoundedPages` |

The assumptions are those of `BoardRuns`: `MaxAttempts \in Nat \ {0}`, and that `None` and
`Idle` differ from the values they stand beside; and those of `IssueSync`: the same of
`MaxAttempts` and `None`, and that the runs have numbers of errors. The theorems of
`IssueSync` are about `Spec`, with every fault and every step of a user; `CommentOnIssue` and
`DashboardCurrent` assume in addition that there is one worker, without which they are
false (finding 2). Those of
`Installations` are about `Spec` with every fault and any number of changes on GitHub; the times
and the cap are natural numbers and `None` is no installation. `SyncsKeepTheirDistance` is for
one worker; `SyncsRepair` and `TruthLasts` are for any number of them. Those of `ActionRunner` are about `Spec` with every retry, loss and late execution, for
any set of `Builds` whose finished archives exist (`Plausible`); `CleanFailuresAreHarmless` assumes in
addition what finding 3 shows to be needed, that a failed command leaves no file, and that names
and sizes are within what the worker takes. `JobsAdvanceToTheirEnd` is for finitely many projects, and
`WalkHasBoundedPages` for finitely many timestamps. Those of `Access` assume that a request takes no longer
than a link lives, an hour (`LagAssumption`, see section 7 on `MaxLag`), and nothing about how
the lifetimes of cache and fallback relate.

None of the properties is inductive by itself. For `BoardRuns` the argument goes in layers,
each of which assumes those before it:

1. `Typed`: `TypeOK`, and what each program counter of a worker says of its locals.
2. Claims. A step of one worker leaves the others alone, and only `Dequeue` makes a
   worker an importer, of a job that was pending and is running afterwards. As no step but
   those of its importer puts a running job back, two importers of a job cannot meet.
   `LastAttempt` (a worker that gives a job up has used the last attempt) gives
   `AttemptsAreBounded`.
3. `Before`: while a create request stands between its two inserts, the run exists, and
   before a run exists nothing else of it does. Thus the second insert never
   overwrites a bundle that already carries a digest, which gives `OneSubmission`.
4. `Verified`: a worker past the checksum holds the accepted digest, its artifacts are
   in the final bucket from the upload on, and the rows are still unset when a
   transaction commits. This is what makes `OnlyAcceptedIsPublished` hold although the
   staging object may be replaced at any time. `Invariant` collects the layers so far.
5. The ledger. Under `Invariant` each action is one of the five steps of `RunLedger` or a
   stutter (`LedgerStep`). `EndingsAreFinal` and `SubmissionsAreFinal` follow from the ledger step
   and not from a second look at the actions.
6. `Imported`: a baseline found by a transaction was `latest`, and `latest` has rows.
7. `Retained`: the runs a sweep has listed are over, the bundles it still has to delete
   have a date, and nobody imports a condemned bundle of an active run.
8. `Swept`: a run whose bundle is past its retention, on the list of a sweep, or without its key
   is closed for uploads (`Closed`, which stays so), and a worker clears only keys of its list.
   An upload therefore meets a key that nobody is about to clear, and a worker comes to clear
   a key only by deleting the object in the same step (`NoObjectIsLost`).

For `IssueSync`:

1. `Typed`: `TypeOK`, a pending job has an attempt left, and jobs and handlers are those of
   completed runs, so that the import of a run never overwrites a job.
2. `Claims`: `JobsAreBounded`, and for each worker `Claim`: the job it handles is running,
   and one that is about to mark the project holds a `create_issue` job that is used up.
   All steps of the four handlers look alike from here: a handler goes on with its job or
   lets go of it (`GoesOn`) and may queue a job that did not exist (`JobsGrow`). Only
   `Dequeue`, the dispatcher and the import are looked at one by one.
3. `RowStep` lists the four things a step may do to the issue and the status of the row;
   `IssueNotReplaced` is read off it, and with `Claims` and `UsedUpStays` (a used-up job
   stays so) `SyncStatusTrue`.
4. `InPlace`, for one worker: from the look at the issue to the store, what the handler has
   read is what the row holds, and the comment it is to store is on the issue of the row.
   `CommentsAreNotMoved`: whatever users and handlers do, a comment stays on its issue.
5. `Aware` says what a handler knows at each of its steps of the row and of GitHub, and `Asked`, for one
   worker, who will repair a dashboard: while it is missing although users touched nothing, each
   completed run has a create job and no dashboard job of any run is completed; while it shows
   an older run on an open issue, the latest run has an update job that is not. A handler that comes to
   the answer "completed" (`Concludes`) has found nothing to repair or repaired it, and a fault puts the job back or
   gives it up as failed, which is not completed either. The proof showed that an earlier form of the
   property, which asked for a dashboard as long as there was one issue, held only because
   the instance allows one fault.

For `Installations`:

1. `Typed`: `TypeOK`, and a worker that syncs an installation is below the cap, so that counting
   it stays within. Each step of a sync is shown to be a move of one worker (`SyncMoves`).
2. `OwnStep` looks at the three statements that can clear a row; an upsert cannot, since it
   writes an installation.
3. `Spaced`: a worker about to mark a start has found the last one long enough ago. Only another
   worker could spoil this before it does: stamps and completions leave the start alone,
   and time makes it older.
4. `UpToDate`: each delivery and each list under way says what GitHub would say now. While GitHub is
   left alone nothing else can be said (`StaysFresh`), a row then only comes to be right
   (`Heals`), and a sync keeps what it has upserted and still has to prune (`Repairs`) until
   its installation is true (`SyncsRepair`). That old news are over at some time and
   that a sync comes is what fairness adds for `RowsConverge`.

For `ActionRunner`:

1. `CleanArchiveIsImportable`, a fact about `Bundle` alone: what is listed as available was written,
   and without leftovers nothing else was, so the archive holds what the manifest declares.
2. `WellFormed` says of a job record what `run` and `process_project` know at each point, for instance
   that a project with the decision "build" has a result, is still to do or is under way. Each step
   is shown to be a move (`Moves`) that keeps this, the inputs and what was built, and names the projects
   it may newly count as saved or skipped. An answer moves the job that waits for it or nobody (`AnswerAdvances`),
   which is all that has to be known of a request executed late.
3. `GoodCall`: a request that may still be executed carries a project, an import request one that has
   been built, a fail request one that its job gave up (`GaveUp`, which stays so), and a fail request that
   has been read a run that exists. Only such a request ends a run without a submission as failed, so that a
   job that gave up can be named for each of them (`FailedIsReported`); it cannot end with 0 any more,
   which with `SuccessIsSaved` gives `GreenIsSaved`.
4. `ApiSteps`: all actions together change the rows in six ways only. `SettledApi` (a run in the queue has
   a submission and no results, results are those of the submission, the newest run of a project has
   results) is kept by each of the six, and each is a step of the ledger of its project or a stutter.
5. `ImportableExactly`, about `Bundle` alone: of what `export_project` can leave, the worker refuses exactly the
   archives with a file that nobody declared, a name with dots or too many bytes.
6. `StepsLeft` weighs the projects to visit, the stage of the one under way (`Rank`) and the
   attempts of its request. `Nearer` is shown for each step of a job, and for the answers, which other actions
   give; all other actions leave the job alone. `NeverStuck` says that a request has an attempt left
   or an answer to wait for; that the step is taken then is what fairness adds for `EveryJobEnds`.

For `Access`, everything a variable holds is dated by the moment it was asked for, and what has been true at
a moment stays so (`AccessStays`, since `until` only grows; `TimeMoves`, since no request is overtaken by more than
`MaxLag`). `GoodRequest` dates the list and the check of a request by its beginning, `GoodEntry` the cached list
by the moment it was stored, less the request that fetched it; adding these up gives the bound of
`ListIsRecent`, and `GoodEntry` also says that an entry is deleted only when the fallback does not need it, which
is `OutageIsBridged`. Links and tokens are dated by their creation; `LinksStay` says that a link is forgotten
only after it expired, and thus not before the request that returned it is over.

For `Paging`, with any finite set of rows, any timestamps and limits: `Split` says that of the rows
that did not move, those shown are there and not after the cursor, and those not shown yet are after it. A
page takes rows after the cursor and puts the cursor on the last of them, all of whose
others come before it (`LessIsStrict`: the order is irreflexive and transitive), so `Split` is kept and
no row is taken twice; the last page takes all that remain (`LastPageIsAll`), which with
`Split` is `NothingMissed`. `Ahead`, the positions after the cursor, shrinks with each page that has a
next one, as its cursor is a row after the old cursor, and nothing else moves the cursor.

Only model-checked: the liveness properties of `live`, `dashboard`, `installations`, `runner`
and `paging` (fairness and ENABLED are outside of what TLAPS handles; for `RowsConverge`, `EveryJobEnds`
and `WalkEnds` the step half is proved, as above), and the disagreements of section 11, which are counterexamples.

## 11. Findings

1. `fail_race` (`crates/api/src/services/board_run.rs:266`): the fail request reads the
   status, then writes `failed` without a condition and outside a transaction. A run
   completed or timed out in between becomes failed. `docs/spec.md:1261-1262` and
   `docs/backend/api.md:356-357` promise otherwise.
2. `dashboard_stale` (`crates/worker/src/handlers/update_dashboard_comment.rs:177`): the run to
   show is read before the GitHub calls, and stored or edited without a second look; two
   workers may write in the other order, against the comment at line 175.
3. `leftover` (`crates/action-runner/src/bundle.rs:532`): any output file is archived, also of a
   command that failed after it had begun to write. The manifest lists that artifact as failed
   and gives it no path, `extract_bundle` refuses entries that are not declared
   (`crates/artifact/src/lib.rs:297`), and the whole run is lost; `docs/spec.md:300` says that an
   artifact that could not be generated fails neither the run nor the job. `ImportableExactly` shows that,
   but for names and sizes, this is the only way a failed artifact costs the run.

Met while modelling, without a run, about runs and comments:

* The baseline of a diff is the run committed last, whatever its age
  (`crates/worker/src/handlers/import/persist.rs:287`); `docs/spec.md:548-550` says it is the latest completed run before
  the current one. It may also be a run that a later fail request or a lost commit left `failed`
  (`docs/spec.md:556`).
* If create stops between its two inserts, a repeated request still hands out an upload URL and
  no row names the object, so no sweep deletes it
  (`crates/api/src/services/board_run.rs:175`); `docs/spec.md:1234` says it is deleted after 7 days.
* A run whose commit was applied but not acknowledged ends as `failed` with its results published.
* The job that is to create a deleted issue again is that of the same run, which may exist and
  be over (`create_dashboard_comment.rs:163`); the comment at line 140 says that create_issue runs again. The
  dashboard job of a recreated issue suffers the same (`create_issue.rs:137`). The next run repairs
  both.
* An issue is cleared without a condition, also one that another worker recorded since
  (`create_dashboard_comment.rs:162`); it is then in no history row, against `docs/spec.md:1739`.
* An id stored late may name a comment on an issue that was replaced
  (`create_dashboard_comment.rs:229`), after which updates go to the old issue.
* The result job of a run compares it with the run completed last, also a later one
  (`create_run_result_comment.rs:195`), so that the first run may get a comment after all.

About the action runner:

* Errors between the create request and the archive, and those of reading the archive back, are
  passed on by `?` and not reported to the fail API (`runner/mod.rs:194-215`, `submission.rs:59` and
  `70`); the run ends by the timeout sweep. `docs/spec.md:1031` says they are recorded.
* The decision `error` and a project left out of the plan count as skipped
  (`runner/mod.rs:80-94`, `plan.rs:18-24`): a job that built nothing may end with 0, against `docs/spec.md:297`.
* A job that finds the run of a project over has nothing to do and counts it as a success
  (`runner/mod.rs:180-188`), also when the run failed or timed out before anything was submitted: if the first job of
  an attempt cannot upload and reports it, a second one ends with 0 although nothing was handed over by
  either, and without a look at the gates. `docs/backend/api.md:277` says that such a job does not build, upload or
  import; no document says what its exit code is. `GreenMeansSaved` states this case as its exception.
* The import of a completed run answers OK whatever the digest, so a second job of an attempt is
  green although the archive stored is the first one's.
* A gate (`fail-on-erc`) closes on any violation (exit code 5), while the check is shown as passed when all of them
  are warnings or excluded (`manifest_builder.rs:85`).
* A source file with `..` in its name is archived, and refused by `validate_path`; an archive above 500 MB is
  accepted by the import request and refused by the worker.
* With parallel jobs the tree a project is compared with is that of the run completed last,
  not that of the latest commit.

About access and lists:

* `sweep_expired_cache` is commented as deleting entries that expired more than an hour ago, while
  the query waits 24 hours, as the fallback needs; `CleanUpEarly` is what the comment describes.
* `cached.rs:20` speaks of a fallback on rate limits; it is used on any error, also when the token of
  the user was revoked.
* A request whose user has logged in again meanwhile finds no user for its token and asks
  GitHub past the cache.
* Links outlive the logout and the access of their user by up to an hour; `proxy.rs:86-91`
  states this as a decision.
* `updated_at` is the start of a transaction: a row may move below the cursor of a walk and be
  shown twice, or above it and be missed. `ShownOnce` and `NothingMissed` are about rows that do
  not move.

About installations, also without a run:

* The sync goes over the installations GitHub lists, so an installation that was deleted is
  never synced, although `reconcile_installation` has a branch for it
  (`crates/worker/src/installation_sync.rs:177`). If the event `deleted` is lost, the rows stay linked to it;
  the module comment calls the sync the safety net for missed webhooks. `RowsAreTrue`
  leaves these rows out.
* Two workers may both read the state before either marks its start, and then sync the same
  installation twice; this is why `SyncsAreSpaced` is for one worker.
* The cap of a sweep always counts from the head of the list; when more installations are due
  again by the next sweep than the cap allows, those at the end are never synced.
* Any event stamps the installation: one that gets events more often than `stale_after` is
  never synced, unless a sync failed, and a delivery it lost stays lost until the events pause.
* The second half of the branch at `installation_sync.rs:152` can never hold: the condition
  around it is its negation. `github_installation_sync_state.rs:76` says of the query beside it
  that failed syncs are eligible regardless of the throttle; the code that runs throttles
  them.

## 12. Not modelled

* The text of comments (`crates/worker/src/comment_body.rs`): formatting of rows that are read once.
  Whether a comment is posted is part of `IssueSync`.
* Read handlers other than the lists (a run, its artifacts, its diff): one query, or a few
  without a transaction, of rows that an import wrote at once, and the mapping of their columns.
* Sizes and digests that a manifest may give for an entry: the runner writes them from the same files.
* Configuration and identifiers: parsed once at start, or one value at a time.
* The GitHub client: its calls are steps of `IssueSync`, `Installations` and `Access`, its error
  classes the outcomes of these steps.
* The frontend: it renders what the read API returns and keeps no state.
* Arguments of `kicad-cli`, the fields of its reports, the layout of archives and manifests.
