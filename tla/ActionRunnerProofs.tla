------------------------- MODULE ActionRunnerProofs -------------------------
(***************************************************************************)
(* Theorems about ActionRunner, for any jobs, attempts, projects, trees,    *)
(* ways the exports may end and number of tries. WellFormed says what a job *)
(* record looks like at each point of the program, and SettledApi how the   *)
(* rows of the API belong together; both are needed to follow a request     *)
(* that is executed after its sender has given it up.                       *)
(***************************************************************************)
EXTENDS ActionRunner, FiniteSetTheorems, TLAPS

LEMMA NoneIsNew ==
  None \notin Jobs /\ None \notin Keys /\ None \notin Projects /\ None \notin Dirs
  /\ None \notin Builds
BY NoneAssumption

LEMMA ZeroTries == 0 \in 0..MaxTries
BY MaxTriesAssumption

-----------------------------------------------------------------------------
(* Archives *)

(* An archive whose artifacts were all exported, or left nothing behind, is  *)
(* taken: what is listed as available was written, and nothing else was.     *)
LEMMA CleanArchiveIsImportable ==
  ASSUME NEW b \in Pipeline, Plausible(b), Leftover(b) = {}, ~b.dotted, ~b.large
  PROVE  Importable(b)
<1>1. ASSUME NEW a \in Available(b) PROVE Written(b, a) /\ a \in Artifacts
  <2>1. CASE a \in MadeReports(b)
    BY <2>1 DEF MadeReports, ReportsBack, Written, Reports, Archives, Artifacts
  <2>2. CASE a \in MadeDrawings(b)
    BY <2>2 DEF MadeDrawings, Exports, Written, Drawings, Archives, Artifacts
  <2>3. CASE a \in MadeAssembly(b)
    BY <2>3 DEF MadeAssembly, Exports, Written, Assembly, Archives, Artifacts
  <2>4. CASE a \in MadeArchives(b)
    <3>1. a \in ZipsAttempted(b) /\ a \in Archives /\ b.zip[a].exit = "zero"
      BY <2>4 DEF MadeArchives, ZipsAttempted
    <3>2. b.zip[a].output = "full" BY <3>1 DEF Plausible
    <3> QED BY <3>1, <3>2 DEF Written, Artifacts
  <2>5. CASE a \in MadeIbom(b) BY <2>5 DEF MadeIbom, Written, Archives, Artifacts
  <2>6. CASE a = "kicad" BY <2>6 DEF Written, Archives, Artifacts
  <2> QED BY <1>1, <2>1, <2>2, <2>3, <2>4, <2>5, <2>6 DEF Available
<1>2. Manifest(b).available = Available(b) /\ Manifest(b).diff = Diff(b) BY DEF Manifest
<1>3. Available(b) \subseteq Staged(b) BY <1>1 DEF Staged
<1>4. Staged(b) \subseteq Declared(Manifest(b))
  <2>1. \A a \in Artifacts : Written(b, a) => a \in Available(b) BY DEF Leftover, Failed
  <2> QED BY <2>1, <1>2 DEF Staged, Declared
<1> QED BY <1>2, <1>3, <1>4 DEF Importable, Accepts, PathsAreSafe, Staged

(* Finding 3 is the only way to lose a submission to what the exports did:   *)
(* extract_bundle takes an archive exactly when no artifact listed as failed *)
(* left its file behind, no source has ".." in its name and the archive is   *)
(* not too large. Reports and files under diff/ that could not be made never *)
(* matter (create_manifest and build_staging_dir against extract_bundle).    *)
THEOREM ImportableExactly ==
  ASSUME NEW b \in Pipeline, Plausible(b)
  PROVE  Importable(b) <=> Leftover(b) = {} /\ ~b.dotted /\ ~b.large
<1>1. ASSUME Importable(b) PROVE ~b.dotted /\ ~b.large
  BY <1>1 DEF Importable, Accepts, PathsAreSafe
<1>2. ASSUME Importable(b), NEW a \in Leftover(b) PROVE FALSE
  <2>1. a \in Artifacts /\ a \notin Available(b) /\ Written(b, a)
    BY DEF Leftover, Failed
  <2>2. a \notin DiffFiles \cup {"manifest"}
    BY <2>1 DEF Artifacts, Reports, Drawings, Assembly, Archives, DiffFiles
  <2>3. Manifest(b).available = Available(b) /\ Manifest(b).diff = Diff(b) BY DEF Manifest
  <2>4. Diff(b) \subseteq DiffFiles BY DEF Diff
  <2>5. a \in Staged(b) BY <2>1 DEF Staged
  <2>6. a \in Declared(Manifest(b)) BY <1>2, <2>5 DEF Importable, Accepts
  <2> QED BY <2>1, <2>2, <2>3, <2>4, <2>6 DEF Declared
<1> QED BY <1>1, <1>2, CleanArchiveIsImportable

-----------------------------------------------------------------------------
(* The invariant *)

(* What a job knows at each point of run and process_project. *)
WellFormed(job) ==
  /\ job.waiting => job.pc \in Requests
  /\ job.pc \in {"create", "build", "upload", "import", "fail"} => job.project \in Projects
  /\ job.pc \in {"start", "plan", "next"} => job.project = None
  /\ job.exit # "none" => job.pc = "done"
  /\ job.pc \in {"start", "plan"} =>
       \A p \in Projects : /\ job.decisions[p] = "none" /\ job.results[p] = "none"
                           /\ job.builds[p] = None
  /\ job.pc = "start" => ~job.failed /\ job.todo = {}
  /\ job.pc = "plan" => job.todo = {p \in Projects : job.dirs[p] # None /\ Usable(job.dirs[p])}
  /\ job.project \notin job.todo /\ \A p \in job.todo : job.builds[p] = None
  /\ job.pc \in {"create", "build"} => job.builds[job.project] = None
  /\ job.pc \in {"upload", "import"} => job.builds[job.project] # None
  /\ job.pc # "done" =>
       \A p \in Projects : job.decisions[p] = "build" =>
         job.results[p] # "none" \/ p \in job.todo \/ p = job.project
  /\ job.exit \in {"0", "1"} =>
       \A p \in Projects : job.decisions[p] = "build" => job.results[p] # "none"
  /\ \A p \in Projects : job.results[p] = "skipped" => job.decisions[p] # "build"
  /\ job.pc \in {"create", "build", "upload", "import", "fail"} =>
       job.decisions[job.project] = "build"
  /\ \A p \in Projects : job.results[p] # "none" => p \notin job.todo /\ p # job.project
  /\ ~job.failed => \A p \in Projects : job.results[p] # "error"
  /\ ~job.failed => \A p \in Projects : job.builds[p] # None /\ p # job.project =>
                                          ~ChecksFailed(job.builds[p], Gates)
  /\ job.exit = "0" => ~job.failed /\ job.project = None

(* The job was to build the project, and it cannot end with 0 any more. *)
GaveUp(job, p) ==
  /\ job.decisions[p] = "build"
  /\ \/ job.results[p] = "error"
     \/ job.pc = "fail" /\ job.project = p
     \/ job.exit = "killed"

(* Inputs of a job do not change, what it has built stays built, and a       *)
(* project that has a result, or was given up, is done with.                 *)
Follows(d, job) ==
  /\ d.key = job.key /\ d.trees = job.trees /\ d.dirs = job.dirs
  /\ \A p \in Projects :
       /\ job.builds[p] # None => d.builds[p] # None
       /\ job.decisions[p] = "build" => d.decisions[p] = "build"
       /\ job.results[p] # "none" =>
            d.results[p] = job.results[p] /\ d.builds[p] = job.builds[p]
       /\ GaveUp(job, p) => GaveUp(d, p)

GoodCall(c) ==
  /\ c.kind # "plan" => c.project \in Projects
  /\ c.kind = "import" => jobs[c.job].builds[c.project] # None
  /\ c.kind = "fail" => GaveUp(jobs[c.job], c.project)
  /\ c \in writing => c.kind = "fail" /\ state[CallRun(c)] # "absent"

(* How the rows of one run, and of one project, belong together. *)
SettledApi ==
  /\ \A r \in Runs :
       /\ state[r] \in {"importing", "completed"} => accepted[r] # None
       /\ r \in queue => accepted[r] # None /\ published[r] = None
       /\ published[r] # None => published[r] = accepted[r]
       /\ accepted[r] # None => state[r] # "absent" /\ jobs[accepted[r]].builds[r[2]] # None
  /\ \A p \in Projects : newest[p] # None => published[<<newest[p], p>>] # None

(* A success is a submission, or a project that was not built as its run was *)
(* over.                                                                     *)
SuccessIsSaved ==
  \A j \in Jobs, p \in Projects :
    jobs[j].results[p] = "success" =>
      \/ HandedOver(<<jobs[j].key, p>>)
      \/ jobs[j].builds[p] = None /\ state[<<jobs[j].key, p>>] \in {"failed", "timed_out"}

(* A run that failed without a submission was given up by a job. *)
FailedIsReported ==
  \A r \in Runs :
    state[r] = "failed" /\ accepted[r] = None =>
      \E i \in Jobs : jobs[i].key = r[1] /\ GaveUp(jobs[i], r[2])

Invariant ==
  /\ TypeOK
  /\ \A j \in Jobs : WellFormed(jobs[j])
  /\ \A c \in calls \cup writing : GoodCall(c)
  /\ SettledApi
  /\ SuccessIsSaved
  /\ FailedIsReported
  /\ SkipIsSaved

LEMMA InvariantInit == Init => Invariant
<1> SUFFICES ASSUME Init PROVE Invariant OBVIOUS
<1>1. jobs \in [Jobs -> Job] /\ NoRuns BY DEF Init
<1>2. \A j \in Jobs :
        jobs[j] = NewJob(jobs[j].event, jobs[j].mode, jobs[j].key, jobs[j].dirs, jobs[j].trees)
  BY DEF Init
<1>3. ASSUME NEW j \in Jobs
      PROVE  /\ jobs[j].pc = "start" /\ jobs[j].todo = {} /\ jobs[j].project = None
             /\ jobs[j].waiting = FALSE /\ jobs[j].failed = FALSE /\ jobs[j].exit = "none"
             /\ \A p \in Projects : /\ jobs[j].decisions[p] = "none"
                                    /\ jobs[j].results[p] = "none"
                                    /\ jobs[j].builds[p] = None
  <2>1. PICK event, mode, key, dirs, trees : jobs[j] = NewJob(event, mode, key, dirs, trees)
    BY <1>2
  <2>2. /\ jobs[j].pc = "start" /\ jobs[j].todo = {} /\ jobs[j].project = None
        /\ jobs[j].waiting = FALSE /\ jobs[j].failed = FALSE /\ jobs[j].exit = "none"
    BY <2>1 DEF NewJob
  <2>3. jobs[j].decisions = [p \in Projects |-> "none"] BY <2>1 DEF NewJob
  <2>4. jobs[j].results = [p \in Projects |-> "none"] BY <2>1 DEF NewJob
  <2>5. jobs[j].builds = [p \in Projects |-> None] BY <2>1 DEF NewJob
  <2> QED BY <2>2, <2>3, <2>4, <2>5
<1>4. TypeOK BY <1>1 DEF TypeOK, NoRuns, Status
<1>5. \A j \in Jobs : WellFormed(jobs[j]) BY <1>3 DEF WellFormed, Requests
<1>6. SettledApi BY <1>1 DEF NoRuns, SettledApi
<1>7. SuccessIsSaved BY <1>3 DEF SuccessIsSaved
<1>8. SkipIsSaved BY <1>3 DEF SkipIsSaved
<1>9. calls \cup writing = {} BY <1>1 DEF NoRuns
<1>10. FailedIsReported BY <1>1 DEF NoRuns, FailedIsReported
<1> QED BY <1>4, <1>5, <1>6, <1>7, <1>8, <1>9, <1>10 DEF Invariant

-----------------------------------------------------------------------------
(* Moves of one job: it stays well-formed, keeps its inputs and what it has  *)
(* built; "saved" are the projects it may newly count as a success,          *)
(* "skipped" those it may newly have been told to skip.                      *)

Moves(d, job, saved, skipped) ==
  /\ d \in Job /\ WellFormed(d) /\ Follows(d, job)
  /\ \A p \in Projects : d.results[p] = "success" => job.results[p] = "success" \/ p \in saved
  /\ \A p \in Projects : d.decisions[p] = "skip" => job.decisions[p] = "skip" \/ p \in skipped

LEMMA StandsStill ==
  ASSUME NEW job \in Job, WellFormed(job), NEW saved, NEW skipped
  PROVE  Moves(job, job, saved, skipped)
BY DEF Moves, Follows

LEMMA EndedMoves ==
  ASSUME NEW job \in Job, WellFormed(job), job.pc # "done", NEW code,
         \/ code = "killed"
         \/ code = "1" /\ job.pc \in {"start", "plan"}
         \/ code = "0" /\ job.pc = "start"
         \/ code = (IF job.failed THEN "1" ELSE "0") /\ job.pc = "next" /\ job.todo = {}
  PROVE  Moves(Ended(job, code), job, {}, {})
<1> DEFINE d == Ended(job, code)
<1>1. code \in {"killed", "0", "1"} OBVIOUS
<1>2. /\ d \in Job
      /\ d.pc = "done" /\ d.exit = code /\ d.waiting = FALSE
      /\ d.key = job.key /\ d.trees = job.trees /\ d.dirs = job.dirs
      /\ d.decisions = job.decisions /\ d.todo = job.todo /\ d.project = job.project
      /\ d.builds = job.builds /\ d.results = job.results /\ d.failed = job.failed
  BY <1>1, ZeroTries DEF Ended, Job
<1> HIDE DEF d
<1>3. job.todo \in SUBSET Projects BY DEF Job
<1>4. WellFormed(d)
  BY <1>1, <1>2, <1>3, NoneIsNew DEF WellFormed
<1>5. Follows(d, job) BY <1>2 DEF Follows, GaveUp, WellFormed
<1> QED BY <1>2, <1>4, <1>5 DEF Moves, d

LEMMA ProjectEndsMoves ==
  ASSUME NEW job \in Job, WellFormed(job),
         job.pc \in {"create", "build", "upload", "import", "fail"},
         NEW result, NEW checks \in BOOLEAN, NEW saved,
         \/ result = "error"
         \/ /\ result = "success" /\ saved = {job.project}
            /\ \/ job.pc = "create"
               \/ job.pc = "import" /\ checks = ChecksFailed(job.builds[job.project], Gates)
  PROVE  Moves(ProjectEnds(job, result, checks), job, saved, {})
<1> DEFINE d == ProjectEnds(job, result, checks)
           q == job.project
<1>1. q \in Projects /\ result \in {"error", "success"} BY DEF WellFormed
<1>2. [job.results EXCEPT ![q] = result]
        \in [Projects -> {"none", "skipped", "success", "error"}]
  BY <1>1 DEF Job
<1>3. (job.failed \/ result = "error" \/ checks) \in BOOLEAN BY DEF Job
<1>4. /\ d.pc = "next" /\ d.exit = job.exit /\ d.waiting = FALSE /\ d.project = None
      /\ d.key = job.key /\ d.trees = job.trees /\ d.dirs = job.dirs
      /\ d.decisions = job.decisions /\ d.todo = job.todo
      /\ d.builds = job.builds /\ d.results = [job.results EXCEPT ![q] = result]
      /\ d.failed = (job.failed \/ result = "error" \/ checks)
  BY DEF ProjectEnds, Job
<1>5. d \in Job BY <1>2, <1>3, NoneIsNew, ZeroTries DEF ProjectEnds, Job
<1> HIDE DEF d
<1>6. d.results[q] = result /\ \A p \in Projects : p # q => d.results[p] = job.results[p]
  BY <1>1, <1>4 DEF Job
<1>7. job.exit = "none" BY DEF WellFormed
<1>8. job.todo \in SUBSET Projects BY DEF Job
<1>9. WellFormed(d)
  <2>1. \A p \in Projects : job.decisions[p] = "build" =>
          d.results[p] # "none" \/ p \in job.todo
    BY <1>1, <1>6 DEF WellFormed
  <2>2. \A p \in Projects : d.results[p] = "skipped" => job.decisions[p] # "build"
    BY <1>1, <1>6 DEF WellFormed
  <2>3. ~d.failed => \A p \in Projects : d.results[p] # "error"
    BY <1>1, <1>4, <1>6 DEF WellFormed
  <2>4. ~d.failed => \A p \in Projects : job.builds[p] # None => ~ChecksFailed(job.builds[p], Gates)
    <3> SUFFICES ASSUME ~d.failed, NEW p \in Projects, job.builds[p] # None
                 PROVE  ~ChecksFailed(job.builds[p], Gates)
      OBVIOUS
    <3>1. ~job.failed /\ result # "error" /\ ~checks BY <1>4
    <3>2. CASE p # q BY <3>1, <3>2 DEF WellFormed
    <3>3. CASE p = q BY <3>1, <3>3 DEF WellFormed
    <3> QED BY <3>2, <3>3
  <2>5. job.project \notin job.todo /\ \A p \in job.todo : job.builds[p] = None
    BY DEF WellFormed
  <2>6. None \notin job.todo BY <1>8, NoneIsNew
  <2>7. \A p \in Projects : d.results[p] # "none" => p \notin job.todo /\ p # None
    BY <1>1, <1>6, NoneIsNew DEF WellFormed
  <2> QED BY <1>4, <1>7, <2>1, <2>2, <2>3, <2>4, <2>5, <2>6, <2>7 DEF WellFormed
<1>10. Follows(d, job)
  <2>1. job.results[q] = "none" /\ (job.pc = "fail" => result = "error")
    BY <1>1 DEF WellFormed, Job
  <2> QED BY <1>1, <1>4, <1>6, <1>7, <2>1 DEF Follows, GaveUp
<1> QED BY <1>1, <1>4, <1>5, <1>6, <1>9, <1>10 DEF Moves, d

LEMMA RequestMoves ==
  ASSUME NEW job \in Job, WellFormed(job), NEW kind,
         \/ job.pc = "upload" /\ kind = "import"
         \/ job.pc \in {"build", "upload", "import"} /\ kind = "fail"
  PROVE  Moves(Request(job, kind), job, {}, {})
<1> DEFINE d == Request(job, kind)
<1>1. kind \in {"import", "fail"} OBVIOUS
<1>2. /\ d \in Job
      /\ d.pc = kind /\ d.exit = job.exit /\ d.waiting = FALSE
      /\ d.key = job.key /\ d.trees = job.trees /\ d.dirs = job.dirs
      /\ d.decisions = job.decisions /\ d.todo = job.todo /\ d.project = job.project
      /\ d.builds = job.builds /\ d.results = job.results /\ d.failed = job.failed
  BY <1>1, ZeroTries DEF Request, Job, Requests
<1> HIDE DEF d
<1>3. WellFormed(d) BY <1>1, <1>2 DEF WellFormed
<1>4. Follows(d, job) BY <1>2 DEF Follows, GaveUp, WellFormed
<1> QED BY <1>2, <1>3, <1>4 DEF Moves, d

LEMMA OnErrorMoves ==
  ASSUME NEW job \in Job, WellFormed(job), job.pc \in Requests
  PROVE  Moves(OnError(job), job, {}, {})
<1>1. CASE job.pc = "plan" BY <1>1, EndedMoves DEF OnError
<1>2. CASE job.pc = "create"
  <2>1. OnError(job) = ProjectEnds(job, "error", FALSE) BY <1>2 DEF OnError
  <2> QED BY <1>2, <2>1, ProjectEndsMoves
<1>3. CASE job.pc = "import"
  <2>1. OnError(job) = Request(job, "fail") BY <1>3 DEF OnError
  <2> QED BY <1>3, <2>1, RequestMoves
<1>4. CASE job.pc = "fail"
  <2>1. OnError(job) = ProjectEnds(job, "error", FALSE) BY <1>4 DEF OnError
  <2> QED BY <1>4, <2>1, ProjectEndsMoves
<1> QED BY <1>1, <1>2, <1>3, <1>4 DEF Requests

(* Each step of a job is a move that saves and skips nothing. *)
LEMMA DiscoverMoves ==
  ASSUME NEW job \in Job, WellFormed(job), job.pc = "start", NEW failed \in BOOLEAN,
         NEW todo, todo = {p \in Projects : job.dirs[p] # None /\ Usable(job.dirs[p])}
  PROVE  Moves([Request(job, "plan") EXCEPT !.todo = todo, !.failed = failed], job, {}, {})
<1> DEFINE d == [Request(job, "plan") EXCEPT !.todo = todo, !.failed = failed]
<1>1. todo \in SUBSET Projects OBVIOUS
<1>2. /\ d \in Job
      /\ d.pc = "plan" /\ d.exit = job.exit /\ d.waiting = FALSE
      /\ d.key = job.key /\ d.trees = job.trees /\ d.dirs = job.dirs
      /\ d.decisions = job.decisions /\ d.todo = todo /\ d.project = job.project
      /\ d.builds = job.builds /\ d.results = job.results /\ d.failed = failed
  BY <1>1, ZeroTries DEF Request, Job, Requests
<1> HIDE DEF d
<1>3. WellFormed(d) BY <1>1, <1>2, NoneIsNew DEF WellFormed
<1>4. Follows(d, job) BY <1>2 DEF Follows, GaveUp, WellFormed
<1> QED BY <1>2, <1>3, <1>4 DEF Moves, d

LEMMA SkipProjectMoves ==
  ASSUME NEW job \in Job, WellFormed(job), job.pc = "next", NEW p \in job.todo,
         job.decisions[p] # "build"
  PROVE  Moves([job EXCEPT !.todo = job.todo \ {p},
                           !.results = [job.results EXCEPT ![p] = "skipped"]], job, {}, {})
<1> DEFINE results == [job.results EXCEPT ![p] = "skipped"]
           d == [job EXCEPT !.todo = job.todo \ {p}, !.results = results]
<1>1. p \in Projects /\ job.todo \ {p} \in SUBSET Projects BY DEF Job
<1>2. results \in [Projects -> {"none", "skipped", "success", "error"}] BY DEF Job
<1>3. results[p] = "skipped" /\ \A q \in Projects : q # p => results[q] = job.results[q]
  BY <1>1 DEF Job
<1> HIDE DEF results
<1>4. /\ d \in Job
      /\ d.pc = "next" /\ d.exit = job.exit /\ d.waiting = job.waiting
      /\ d.key = job.key /\ d.trees = job.trees /\ d.dirs = job.dirs
      /\ d.decisions = job.decisions /\ d.todo = job.todo \ {p} /\ d.project = job.project
      /\ d.builds = job.builds /\ d.results = results /\ d.failed = job.failed
  BY <1>1, <1>2 DEF Job
<1> HIDE DEF d
<1>5. WellFormed(d)
  <2>1. \A q \in Projects : job.decisions[q] = "build" =>
          results[q] # "none" \/ q \in job.todo \ {p} \/ q = job.project
    BY <1>3 DEF WellFormed
  <2>2. \A q \in Projects : results[q] = "skipped" => job.decisions[q] # "build"
    BY <1>3 DEF WellFormed
  <2>3. ~job.failed => \A q \in Projects : results[q] # "error" BY <1>3 DEF WellFormed
  <2>4. \A q \in Projects : results[q] # "none" => q \notin job.todo \ {p} /\ q # job.project
    BY <1>3, NoneIsNew DEF WellFormed
  <2> QED BY <1>4, <2>1, <2>2, <2>3, <2>4 DEF WellFormed
<1>6. Follows(d, job) BY <1>1, <1>3, <1>4 DEF Follows, GaveUp, WellFormed
<1> QED BY <1>3, <1>4, <1>5, <1>6 DEF Moves, d, results

LEMMA StartProjectMoves ==
  ASSUME NEW job \in Job, WellFormed(job), job.pc = "next", NEW p \in job.todo,
         job.decisions[p] = "build"
  PROVE  Moves([Request(job, "create") EXCEPT !.todo = job.todo \ {p}, !.project = p],
               job, {}, {})
<1> DEFINE d == [Request(job, "create") EXCEPT !.todo = job.todo \ {p}, !.project = p]
<1>1. p \in Projects /\ job.todo \ {p} \in SUBSET Projects BY DEF Job
<1>2. /\ d \in Job
      /\ d.pc = "create" /\ d.exit = job.exit /\ d.waiting = FALSE
      /\ d.key = job.key /\ d.trees = job.trees /\ d.dirs = job.dirs
      /\ d.decisions = job.decisions /\ d.todo = job.todo \ {p} /\ d.project = p
      /\ d.builds = job.builds /\ d.results = job.results /\ d.failed = job.failed
  BY <1>1, ZeroTries DEF Request, Job, Requests
<1> HIDE DEF d
<1>3. job.project = None /\ job.exit = "none" BY DEF WellFormed
<1>4. \A q \in Projects : job.decisions[q] = "build" =>
        job.results[q] # "none" \/ q \in job.todo \ {p} \/ q = p
  BY <1>3, NoneIsNew DEF WellFormed
<1>5. ~job.failed => \A q \in Projects : job.builds[q] # None => ~ChecksFailed(job.builds[q], Gates)
  BY <1>3, NoneIsNew DEF WellFormed
<1>6. WellFormed(d) BY <1>1, <1>2, <1>3, <1>4, <1>5 DEF WellFormed
<1>7. Follows(d, job) BY <1>2 DEF Follows, GaveUp, WellFormed
<1> QED BY <1>2, <1>6, <1>7 DEF Moves, d

LEMMA BuildMoves ==
  ASSUME NEW job \in Job, WellFormed(job), job.pc = "build", NEW b \in Builds
  PROVE  Moves([job EXCEPT !.pc = "upload", !.builds = [job.builds EXCEPT ![job.project] = b]],
               job, {}, {})
<1> DEFINE builds == [job.builds EXCEPT ![job.project] = b]
           d == [job EXCEPT !.pc = "upload", !.builds = builds]
<1>1. job.project \in Projects BY DEF WellFormed
<1>2. builds \in [Projects -> Builds \cup {None}] BY DEF Job
<1>3. builds[job.project] = b /\ b # None
      /\ \A q \in Projects : q # job.project => builds[q] = job.builds[q]
  BY <1>1, NoneIsNew DEF Job
<1> HIDE DEF builds
<1>4. /\ d \in Job
      /\ d.pc = "upload" /\ d.exit = job.exit /\ d.waiting = job.waiting
      /\ d.key = job.key /\ d.trees = job.trees /\ d.dirs = job.dirs
      /\ d.decisions = job.decisions /\ d.todo = job.todo /\ d.project = job.project
      /\ d.builds = builds /\ d.results = job.results /\ d.failed = job.failed
  BY <1>2 DEF Job
<1> HIDE DEF d
<1>5. WellFormed(d)
  <2>1. ~job.waiting BY DEF WellFormed, Requests
  <2>2. \A q \in job.todo : builds[q] = None BY <1>3 DEF WellFormed, Job
  <2>3. ~job.failed => \A q \in Projects : builds[q] # None /\ q # job.project =>
                                             ~ChecksFailed(builds[q], Gates)
    BY <1>3 DEF WellFormed
  <2>4. job.exit = "none" BY DEF WellFormed
  <2> QED BY <1>1, <1>3, <1>4, <2>1, <2>2, <2>3, <2>4 DEF WellFormed
<1>6. Follows(d, job) BY <1>1, <1>3, <1>4 DEF Follows, GaveUp, WellFormed
<1> QED BY <1>4, <1>5, <1>6 DEF Moves, d, builds

LEMMA SendMoves ==
  ASSUME NEW job \in Job, WellFormed(job), NEW waiting \in BOOLEAN, NEW try \in 0..MaxTries,
         job.pc \in Requests
  PROVE  Moves([job EXCEPT !.try = try, !.waiting = waiting], job, {}, {})
<1> DEFINE d == [job EXCEPT !.try = try, !.waiting = waiting]
<1>1. /\ d \in Job
      /\ d.pc = job.pc /\ d.exit = job.exit /\ d.waiting = waiting
      /\ d.key = job.key /\ d.trees = job.trees /\ d.dirs = job.dirs
      /\ d.decisions = job.decisions /\ d.todo = job.todo /\ d.project = job.project
      /\ d.builds = job.builds /\ d.results = job.results /\ d.failed = job.failed
  BY DEF Job
<1> HIDE DEF d
<1>2. WellFormed(d) BY <1>1 DEF WellFormed
<1>3. Follows(d, job) BY <1>1 DEF Follows, GaveUp, WellFormed
<1> QED BY <1>1, <1>2, <1>3 DEF Moves, d

LEMMA JobSteps ==
  ASSUME Invariant, NEW j \in Jobs, Step(j) \/ Kill(j)
  PROVE  \E d : jobs' = [jobs EXCEPT ![j] = d] /\ Moves(d, jobs[j], {}, {})
<1>1. PICK job \in Job : job = jobs[j] /\ WellFormed(job) BY DEF Invariant, TypeOK
<1>2. CASE SkipEvent(j) \/ NothingFound(j) \/ Finish(j) \/ Kill(j)
  <2>1. PICK code :
          /\ jobs' = [jobs EXCEPT ![j] = Ended(job, code)]
          /\ job.pc # "done"
          /\ \/ code = "killed"
             \/ code = "1" /\ job.pc \in {"start", "plan"}
             \/ code = "0" /\ job.pc = "start"
             \/ code = (IF job.failed THEN "1" ELSE "0") /\ job.pc = "next" /\ job.todo = {}
    BY <1>1, <1>2 DEF SkipEvent, NothingFound, Finish, Kill, Exit, Become
  <2> QED BY <1>1, <2>1, EndedMoves
<1>3. CASE Discover(j)
  <2>1. jobs' = [jobs EXCEPT ![j] =
          [Request(job, "plan") EXCEPT !.todo = Usables(j), !.failed = Usables(j) # Present(j)]]
    BY <1>1, <1>3 DEF Discover, Become
  <2>2. PICK todo : todo = Usables(j) OBVIOUS
  <2>3. PICK failed \in BOOLEAN : failed = (Usables(j) # Present(j)) OBVIOUS
  <2>4. todo = {p \in Projects : job.dirs[p] # None /\ Usable(job.dirs[p])}
    BY <1>1, <2>2 DEF Usables
  <2>5. Moves([Request(job, "plan") EXCEPT !.todo = todo, !.failed = failed], job, {}, {})
    BY <1>1, <1>3, <2>4, DiscoverMoves DEF Discover
  <2> QED BY <1>1, <2>1, <2>2, <2>3, <2>5
<1>4. CASE \E p \in Projects : SkipProject(j, p)
  <2>1. PICK p \in job.todo :
          /\ job.pc = "next" /\ job.decisions[p] # "build"
          /\ jobs' = [jobs EXCEPT ![j] =
               [job EXCEPT !.todo = job.todo \ {p},
                           !.results = [job.results EXCEPT ![p] = "skipped"]]]
    BY <1>1, <1>4 DEF SkipProject, Become
  <2> QED BY <1>1, <2>1, SkipProjectMoves
<1>5. CASE \E p \in Projects : StartProject(j, p)
  <2>1. PICK p \in job.todo :
          /\ job.pc = "next" /\ job.decisions[p] = "build"
          /\ jobs' = [jobs EXCEPT ![j] =
               [Request(job, "create") EXCEPT !.todo = job.todo \ {p}, !.project = p]]
    BY <1>1, <1>5 DEF StartProject, Become
  <2> QED BY <1>1, <2>1, StartProjectMoves
<1>6. CASE Build(j)
  <2>1. PICK b \in Builds :
          jobs' = [jobs EXCEPT ![j] =
            [job EXCEPT !.pc = "upload", !.builds = [job.builds EXCEPT ![job.project] = b]]]
    BY <1>1, <1>6 DEF Build, Become
  <2>2. job.pc = "build" BY <1>1, <1>6 DEF Build
  <2> QED BY <1>1, <2>1, <2>2, BuildMoves
<1>7. CASE BuildBreaks(j) \/ SubmitBreaks(j)
  <2>1. job.pc \in {"build", "upload"}
        /\ jobs' = [jobs EXCEPT ![j] = ProjectEnds(job, "error", FALSE)]
    BY <1>1, <1>7 DEF BuildBreaks, SubmitBreaks, Become
  <2> QED BY <1>1, <2>1, ProjectEndsMoves
<1>8. CASE ZipFails(j) \/ Upload(j) \/ UploadFails(j)
  <2>1. PICK kind :
          /\ jobs' = [jobs EXCEPT ![j] = Request(job, kind)]
          /\ \/ job.pc = "upload" /\ kind = "import"
             \/ job.pc \in {"build", "upload", "import"} /\ kind = "fail"
    BY <1>1, <1>8 DEF ZipFails, Upload, UploadFails, Become
  <2> QED BY <1>1, <2>1, RequestMoves
<1>9. CASE Send(j)
  <2>1. /\ job.pc \in Requests
        /\ jobs' = [jobs EXCEPT ![j] = [job EXCEPT !.try = job.try + 1, !.waiting = TRUE]]
    BY <1>1, <1>9 DEF Send, Become
  <2>2. job.try + 1 \in 0..MaxTries BY <1>1, <1>9, MaxTriesAssumption DEF Send, Job
  <2> QED BY <1>1, <2>1, <2>2, SendMoves
<1>10. CASE Retry(j)
  <2>1. job.waiting /\ jobs' = [jobs EXCEPT ![j] = [job EXCEPT !.waiting = FALSE]]
    BY <1>1, <1>10 DEF Retry, Become
  <2>2. job.pc \in Requests BY <1>1, <2>1 DEF WellFormed
  <2>3. [job EXCEPT !.waiting = FALSE] = [job EXCEPT !.try = job.try, !.waiting = FALSE]
    BY DEF Job
  <2>4. job.try \in 0..MaxTries BY DEF Job
  <2> QED BY <1>1, <2>1, <2>2, <2>3, <2>4, SendMoves
<1>11. CASE RequestFails(j)
  <2>1. job.waiting /\ jobs' = [jobs EXCEPT ![j] = OnError(job)]
    BY <1>1, <1>11 DEF RequestFails, Become
  <2>2. job.pc \in Requests BY <1>1, <2>1 DEF WellFormed
  <2> QED BY <1>1, <2>1, <2>2, OnErrorMoves
<1> QED
  BY <1>2, <1>3, <1>4, <1>5, <1>6, <1>7, <1>8, <1>9, <1>10, <1>11 DEF Step

-----------------------------------------------------------------------------
(* All jobs in one step *)

HandedOverNow(r) == accepted'[r] # None
OverNow(r) == state'[r] \in {"failed", "timed_out"}

(* Why a project of job d may count as a success from this step on. *)
SavedNow(d, p) ==
  \/ HandedOverNow(<<d.key, p>>)
  \/ d.builds[p] = None /\ OverNow(<<d.key, p>>)

MaySkip(j, p) ==
  newest[p] # None /\ LatestTree(p) = TreeHash(jobs[j].trees[p], Excludes)

JobsAdvance ==
  /\ jobs' \in [Jobs -> Job]
  /\ \A j \in Jobs :
       /\ WellFormed(jobs'[j]) /\ Follows(jobs'[j], jobs[j])
       /\ \A p \in Projects :
            /\ jobs'[j].results[p] = "success" =>
                 jobs[j].results[p] = "success" \/ SavedNow(jobs'[j], p)
            /\ jobs'[j].decisions[p] = "skip" =>
                 jobs[j].decisions[p] = "skip" \/ MaySkip(j, p)

LEMMA OneMoves ==
  ASSUME Invariant, NEW j \in Jobs, NEW d, NEW saved, NEW skipped,
         jobs' = [jobs EXCEPT ![j] = d], Moves(d, jobs[j], saved, skipped),
         \A p \in saved : SavedNow(d, p),
         \A p \in skipped : MaySkip(j, p)
  PROVE  JobsAdvance
<1>1. jobs \in [Jobs -> Job] /\ \A i \in Jobs : WellFormed(jobs[i]) BY DEF Invariant, TypeOK
<1>2. d \in Job /\ WellFormed(d) /\ Follows(d, jobs[j]) BY DEF Moves
<1>3. jobs' \in [Jobs -> Job] BY <1>1, <1>2
<1>4. jobs'[j] = d BY <1>1
<1>5. ASSUME NEW i \in Jobs
      PROVE  /\ WellFormed(jobs'[i]) /\ Follows(jobs'[i], jobs[i])
             /\ \A p \in Projects :
                  /\ jobs'[i].results[p] = "success" =>
                       jobs[i].results[p] = "success" \/ SavedNow(jobs'[i], p)
                  /\ jobs'[i].decisions[p] = "skip" =>
                       jobs[i].decisions[p] = "skip" \/ MaySkip(i, p)
  <2>1. CASE i = j BY <2>1, <1>2, <1>4 DEF Moves
  <2>2. CASE i # j
    <3>1. jobs'[i] = jobs[i] BY <1>1, <2>2
    <3> QED BY <3>1, <1>1 DEF Follows
  <2> QED BY <2>1, <2>2
<1> QED BY <1>3, <1>5 DEF JobsAdvance

LEMMA NoneMoves ==
  ASSUME Invariant, UNCHANGED jobs
  PROVE  JobsAdvance
BY DEF JobsAdvance, Invariant, TypeOK, Follows

(* An answer moves the job that waits for it, or nobody. *)
LEMMA AnswerAdvances ==
  ASSUME Invariant, NEW c \in Call, NEW d, NEW saved, NEW skipped, Answer(c, d),
         Awaits(c) => /\ Moves(d, jobs[c.job], saved, skipped)
                      /\ \A p \in saved : SavedNow(d, p)
                      /\ \A p \in skipped : MaySkip(c.job, p)
  PROVE  JobsAdvance
<1>1. c.job \in Jobs BY DEF Call
<1>2. CASE Awaits(c)
  <2>1. jobs' = [jobs EXCEPT ![c.job] = d] BY <1>2 DEF Answer
  <2> QED BY <1>1, <1>2, <2>1, OneMoves
<1>3. CASE ~Awaits(c)
  <2>1. jobs' = [jobs EXCEPT ![c.job] = jobs[c.job]] BY <1>3 DEF Answer
  <2>2. jobs' = jobs BY <2>1 DEF Invariant, TypeOK
  <2> QED BY <2>2, NoneMoves
<1> QED BY <1>2, <1>3

LEMMA CallTyped ==
  ASSUME Invariant, NEW c \in calls \cup writing
  PROVE  /\ c \in Call /\ c.job \in Jobs /\ GoodCall(c)
         /\ jobs[c.job] \in Job /\ WellFormed(jobs[c.job])
         /\ c.kind # "plan" => CallRun(c) \in Runs /\ CallRun(c) = <<jobs[c.job].key, c.project>>
<1>1. c \in Call /\ c.job \in Jobs BY DEF Invariant, TypeOK, Call
<1>2. jobs[c.job] \in Job /\ WellFormed(jobs[c.job]) /\ GoodCall(c)
  BY <1>1 DEF Invariant, TypeOK
<1>3. c.kind # "plan" => CallRun(c) \in Runs /\ CallRun(c) = <<jobs[c.job].key, c.project>>
  BY <1>1, <1>2 DEF GoodCall, CallRun, Runs, Job
<1> QED BY <1>1, <1>2, <1>3

(* The same for an answer that reports nothing of the kind. *)
LEMMA QuietAnswerAdvances ==
  ASSUME Invariant, NEW c \in Call, NEW d, Answer(c, d),
         Awaits(c) => Moves(d, jobs[c.job], {}, {})
  PROVE  JobsAdvance
<1>1. \A p \in {} : SavedNow(d, p) /\ MaySkip(c.job, p) OBVIOUS
<1> QED BY <1>1, AnswerAdvances

(* A plan that says "skip" rests on the run that completed last. *)
LEMMA PlanMoves ==
  ASSUME NEW job \in Job, WellFormed(job), job.pc = "plan",
         NEW decisions \in [Projects -> {"none", "build", "skip", "error"}],
         \A p \in Projects : decisions[p] = "build" => p \in job.todo
  PROVE  Moves([job EXCEPT !.pc = "next", !.try = 0, !.waiting = FALSE, !.decisions = decisions],
               job, {}, {p \in Projects : decisions[p] = "skip"})
<1> DEFINE d == [job EXCEPT !.pc = "next", !.try = 0, !.waiting = FALSE, !.decisions = decisions]
<1>1. /\ d \in Job
      /\ d.pc = "next" /\ d.exit = job.exit /\ d.waiting = FALSE
      /\ d.key = job.key /\ d.trees = job.trees /\ d.dirs = job.dirs
      /\ d.decisions = decisions /\ d.todo = job.todo /\ d.project = job.project
      /\ d.builds = job.builds /\ d.results = job.results /\ d.failed = job.failed
  BY ZeroTries DEF Job
<1> HIDE DEF d
<1>2. WellFormed(d) BY <1>1 DEF WellFormed
<1>3. Follows(d, job) BY <1>1 DEF Follows, GaveUp, WellFormed
<1> QED BY <1>1, <1>2, <1>3 DEF Moves, d

LEMMA PlanAdvances ==
  ASSUME Invariant, NEW c \in calls, PlanRun(c)
  PROVE  JobsAdvance
<1>1. PICK job \in Job : job = jobs[c.job] /\ WellFormed(job) BY CallTyped
<1>2. c \in Call /\ c.job \in Jobs /\ c.kind = "plan" BY CallTyped DEF PlanRun
<1>3. PICK decisions : decisions = [p \in Projects |-> Decide(c.job, p)] OBVIOUS
<1>4. decisions \in [Projects -> {"none", "build", "skip", "error"}]
  <2>1. \A p \in Projects : Decide(c.job, p) \in {"none", "build", "skip", "error"}
    BY DEF Decide
  <2> QED BY <1>3, <2>1
<1>5. \A p \in Projects : decisions[p] = "skip" => MaySkip(c.job, p)
  BY <1>3 DEF Decide, MaySkip
<1>6. \A p \in Projects : decisions[p] = "build" => p \in Planned(c.job)
  BY <1>3 DEF Decide
<1>7. Answer(c, [job EXCEPT !.pc = "next", !.try = 0, !.waiting = FALSE,
                            !.decisions = decisions])
  BY <1>1, <1>3 DEF PlanRun
<1>8. ASSUME Awaits(c)
      PROVE  Moves([job EXCEPT !.pc = "next", !.try = 0, !.waiting = FALSE,
                               !.decisions = decisions],
                   job, {}, {p \in Projects : decisions[p] = "skip"})
  <2>1. job.pc = "plan" BY <1>1, <1>2, <1>8 DEF Awaits
  <2>2. job.todo = {p \in Projects : job.dirs[p] # None /\ Usable(job.dirs[p])}
    BY <1>1, <2>1 DEF WellFormed
  <2>3. \A p \in Projects : decisions[p] = "build" => p \in job.todo
    BY <1>1, <1>6, <2>2 DEF Planned, Usables
  <2> QED BY <1>1, <1>4, <2>1, <2>3, PlanMoves
<1> QED BY <1>1, <1>2, <1>5, <1>7, <1>8, AnswerAdvances

LEMMA CreateMoves ==
  ASSUME NEW job \in Job, WellFormed(job), job.pc = "create"
  PROVE  Moves([job EXCEPT !.pc = "build", !.try = 0, !.waiting = FALSE], job, {}, {})
<1> DEFINE d == [job EXCEPT !.pc = "build", !.try = 0, !.waiting = FALSE]
<1>1. /\ d \in Job
      /\ d.pc = "build" /\ d.exit = job.exit /\ d.waiting = FALSE
      /\ d.key = job.key /\ d.trees = job.trees /\ d.dirs = job.dirs
      /\ d.decisions = job.decisions /\ d.todo = job.todo /\ d.project = job.project
      /\ d.builds = job.builds /\ d.results = job.results /\ d.failed = job.failed
  BY ZeroTries DEF Job
<1> HIDE DEF d
<1>2. WellFormed(d) BY <1>1 DEF WellFormed
<1>3. Follows(d, job) BY <1>1 DEF Follows, GaveUp, WellFormed
<1> QED BY <1>1, <1>2, <1>3 DEF Moves, d

(* Success is reported of a run that has a submission, or is over. *)
LEMMA SuccessAdvances ==
  ASSUME Invariant, NEW c \in calls,
         \/ CreateSettled(c) \/ ImportArtifactBundle(c) \/ ImportAgain(c)
  PROVE  JobsAdvance
<1>1. PICK job \in Job : job = jobs[c.job] /\ WellFormed(job) BY CallTyped
<1>2. c.kind \in {"create", "import"} BY DEF CreateSettled, ImportArtifactBundle, ImportAgain
<1>3. /\ c \in Call /\ CallRun(c) \in Runs /\ CallRun(c) = <<job.key, c.project>>
      /\ c.job \in Jobs
  BY <1>1, <1>2, CallTyped
<1>4. HandedOverNow(CallRun(c)) \/ (c.kind = "create" /\ OverNow(CallRun(c)))
  <2>1. None \notin Jobs /\ state \in [Runs -> Status] /\ accepted \in [Runs -> Jobs \cup {None}]
    BY NoneIsNew DEF Invariant, TypeOK
  <2>2. state[CallRun(c)] \in {"importing", "completed"} => accepted[CallRun(c)] # None
    BY <1>3 DEF Invariant, SettledApi
  <2>3. CASE CreateSettled(c)
    <3>1. state' = state /\ accepted' = accepted /\ c.kind = "create"
          /\ state[CallRun(c)] \in {"importing", "completed", "failed", "timed_out"}
      BY <1>3, <2>1, <2>3 DEF CreateSettled, apiVars, Status
    <3> QED BY <2>2, <3>1 DEF HandedOverNow, OverNow
  <2>4. CASE ImportArtifactBundle(c)
    <3>1. accepted'[CallRun(c)] = c.job BY <1>3, <2>1, <2>4 DEF ImportArtifactBundle
    <3> QED BY <1>3, <2>1, <3>1 DEF HandedOverNow
  <2>5. CASE ImportAgain(c)
    <3>1. state' = state /\ accepted' = accepted
          /\ (accepted[CallRun(c)] = c.job \/ state[CallRun(c)] = "completed")
      BY <2>5 DEF ImportAgain, apiVars
    <3> QED BY <1>3, <2>1, <2>2, <3>1 DEF HandedOverNow
  <2> QED BY <2>3, <2>4, <2>5
<1>5. PICK checks \in BOOLEAN :
        /\ Answer(c, ProjectEnds(job, "success", checks))
        /\ c.kind = "create" \/ checks = ChecksFailed(job.builds[job.project], Gates)
  <2>1. CASE CreateSettled(c) BY <1>1, <2>1 DEF CreateSettled
  <2>2. CASE ImportArtifactBundle(c) \/ ImportAgain(c)
    <3>1. ChecksFailed(job.builds[job.project], Gates) \in BOOLEAN BY DEF ChecksFailed
    <3> QED BY <1>1, <2>2, <3>1 DEF ImportArtifactBundle, ImportAgain, Submitted
  <2> QED BY <2>1, <2>2
<1>6. ASSUME Awaits(c)
      PROVE  Moves(ProjectEnds(job, "success", checks), job, {job.project}, {})
  <2>1. job.pc = c.kind BY <1>1, <1>6 DEF Awaits
  <2> QED BY <1>1, <1>2, <1>5, <2>1, ProjectEndsMoves
<1>7. Awaits(c) => job.project = c.project /\ (c.kind = "create" => job.pc = "create")
  BY <1>1 DEF Awaits
<1>8. PICK d : d = ProjectEnds(job, "success", checks) OBVIOUS
<1>9. d.builds = job.builds /\ d.key = job.key BY <1>8 DEF ProjectEnds, Job
<1>10. job.pc = "create" => job.builds[job.project] = None BY <1>1 DEF WellFormed
<1>11. Awaits(c) => \A p \in {job.project} : SavedNow(d, p)
  BY <1>3, <1>4, <1>7, <1>9, <1>10 DEF SavedNow
<1>12. Answer(c, d) /\ (Awaits(c) => Moves(d, job, {job.project}, {})) BY <1>5, <1>6, <1>8
<1> QED BY <1>1, <1>3, <1>11, <1>12, AnswerAdvances

LEMMA OtherAnswersAdvance ==
  ASSUME Invariant,
         \/ \E c \in calls : CreateBoardRun(c) \/ ImportRefused(c) \/ FailSettled(c)
         \/ \E c \in writing : FailWrite(c)
  PROVE  JobsAdvance
<1>1. PICK c \in calls \cup writing :
        CreateBoardRun(c) \/ ImportRefused(c) \/ FailSettled(c) \/ (c \in writing /\ FailWrite(c))
  OBVIOUS
<1>2. PICK job \in Job : job = jobs[c.job] /\ WellFormed(job) BY CallTyped
<1>3. c \in Call BY CallTyped
<1>4. CASE CreateBoardRun(c)
  <2>1. c.kind = "create" /\ Answer(c, [job EXCEPT !.pc = "build", !.try = 0, !.waiting = FALSE])
    BY <1>2, <1>4 DEF CreateBoardRun
  <2>2. Awaits(c) => job.pc = "create" BY <1>2, <2>1 DEF Awaits
  <2> QED BY <1>2, <1>3, <2>1, <2>2, CreateMoves, QuietAnswerAdvances
<1>5. CASE ImportRefused(c)
  <2>1. c.kind = "import" /\ Answer(c, OnError(job)) BY <1>2, <1>5 DEF ImportRefused
  <2>2. Awaits(c) => job.pc \in Requests BY <1>2, <2>1 DEF Awaits, Requests
  <2> QED BY <1>2, <1>3, <2>1, <2>2, OnErrorMoves, QuietAnswerAdvances
<1>6. CASE FailSettled(c) \/ (c \in writing /\ FailWrite(c))
  <2>1. Answer(c, ProjectEnds(job, "error", FALSE))
    BY <1>2, <1>6 DEF FailSettled, FailWrite
  <2>2. c.kind = "fail"
    BY <1>6 DEF FailSettled, FailWrite, Invariant, GoodCall
  <2>3. Awaits(c) => job.pc = "fail" BY <1>2, <2>2 DEF Awaits
  <2>4. Awaits(c) => Moves(ProjectEnds(job, "error", FALSE), job, {}, {})
    BY <1>2, <2>3, ProjectEndsMoves
  <2> QED BY <1>2, <1>3, <2>1, <2>4, QuietAnswerAdvances
<1> QED BY <1>1, <1>4, <1>5, <1>6

LEMMA JobsNext == Invariant /\ [Next]_vars => JobsAdvance
<1> SUFFICES ASSUME Invariant, [Next]_vars PROVE JobsAdvance OBVIOUS
<1>1. ASSUME NEW j \in Jobs, Step(j) \/ Kill(j) PROVE JobsAdvance
  <2>1. PICK d : jobs' = [jobs EXCEPT ![j] = d] /\ Moves(d, jobs[j], {}, {})
    BY <1>1, JobSteps
  <2>2. PICK nothing : nothing = {} OBVIOUS
  <2>3. Moves(d, jobs[j], nothing, nothing) BY <2>1, <2>2
  <2>4. \A p \in nothing : SavedNow(d, p) /\ MaySkip(j, p) BY <2>2
  <2> QED BY <2>1, <2>3, <2>4, OneMoves
<1>2. ASSUME NEW c \in calls, Serve(c) PROVE JobsAdvance
  <2>1. CASE FailRead(c) BY <2>1, NoneMoves DEF FailRead
  <2> QED BY <1>2, <2>1, PlanAdvances, SuccessAdvances, OtherAnswersAdvance DEF Serve
<1>3. CASE \E c \in writing : FailWrite(c) BY <1>3, OtherAnswersAdvance
<1>4. CASE UNCHANGED jobs BY <1>4, NoneMoves
<1> QED
  BY <1>1, <1>2, <1>3, <1>4 DEF Next, vars, Drop, FailDropped, Work, Publish, GiveUp, TimeOut

-----------------------------------------------------------------------------
(* The rows of the API in one step: six ways to change them *)

Keeps == UNCHANGED <<accepted, published, newest>>

Opens(r) ==
  /\ state[r] \in {"absent", "created"}
  /\ state' = [state EXCEPT ![r] = "created"]
  /\ Keeps /\ UNCHANGED queue

Takes(r, j) ==
  /\ state[r] \in Live /\ accepted[r] = None
  /\ jobs[j].builds[r[2]] # None
  /\ accepted' = [accepted EXCEPT ![r] = j]
  /\ state' = [state EXCEPT ![r] = "importing"]
  /\ queue' = queue \cup {r}
  /\ UNCHANGED <<published, newest>>

EndsAs(r, ending) ==
  /\ state[r] # "absent"
  /\ ending \in {"failed", "timed_out"}
  /\ ending = "timed_out" => state[r] \in Live
  /\ ending = "failed" => \/ accepted[r] # None
                          \/ \E i \in Jobs : jobs[i].key = r[1] /\ GaveUp(jobs[i], r[2])
  /\ state' = [state EXCEPT ![r] = ending]
  /\ queue' \subseteq queue
  /\ Keeps

Publishes(r) ==
  /\ accepted[r] # None /\ published[r] = None
  /\ published' = [published EXCEPT ![r] = accepted[r]]
  /\ state' = [state EXCEPT ![r] = "completed"]
  /\ newest' = [newest EXCEPT ![r[2]] = r[1]]
  /\ queue' = queue \ {r}
  /\ UNCHANGED accepted

ApiStep ==
  \/ UNCHANGED apiVars
  \/ \E r \in Runs :
       \/ Opens(r)
       \/ \E j \in Jobs : Takes(r, j)
       \/ \E ending \in {"failed", "timed_out"} : EndsAs(r, ending)
       \/ Publishes(r)

LEMMA ApiSteps == Invariant /\ [Next]_vars => ApiStep
<1> SUFFICES ASSUME Invariant, [Next]_vars PROVE ApiStep OBVIOUS
<1>0. SettledApi BY DEF Invariant
<1>1. CASE \E c \in calls : CreateBoardRun(c)
  <2>1. PICK c \in calls : CreateBoardRun(c) BY <1>1
  <2>2. CallRun(c) \in Runs BY <2>1, CallTyped DEF CreateBoardRun
  <2>3. Opens(CallRun(c)) BY <2>1 DEF CreateBoardRun, Opens, Keeps
  <2> QED BY <2>2, <2>3 DEF ApiStep
<1>2. CASE \E c \in calls : ImportArtifactBundle(c)
  <2>1. PICK c \in calls : ImportArtifactBundle(c) BY <1>2
  <2>2. /\ CallRun(c) \in Runs /\ CallRun(c) = <<jobs[c.job].key, c.project>>
        /\ c.job \in Jobs /\ jobs[c.job].builds[c.project] # None
    BY <2>1, CallTyped DEF ImportArtifactBundle, GoodCall
  <2>3. CallRun(c)[2] = c.project BY <2>2
  <2>4. Takes(CallRun(c), c.job) BY <2>1, <2>2, <2>3 DEF ImportArtifactBundle, Takes
  <2> QED BY <2>2, <2>4 DEF ApiStep
<1>3. CASE \E c \in writing : FailWrite(c)
  <2>1. PICK c \in writing : FailWrite(c) BY <1>3
  <2>2. /\ CallRun(c) \in Runs /\ CallRun(c) = <<jobs[c.job].key, c.project>>
        /\ c.job \in Jobs /\ state[CallRun(c)] # "absent"
        /\ GaveUp(jobs[c.job], c.project)
    BY <2>1, CallTyped DEF FailWrite, GoodCall
  <2>3. CallRun(c)[1] = jobs[c.job].key /\ CallRun(c)[2] = c.project BY <2>2
  <2>4. EndsAs(CallRun(c), "failed") BY <2>1, <2>2, <2>3 DEF FailWrite, EndsAs, Keeps
  <2> QED BY <2>2, <2>4 DEF ApiStep
<1>4. CASE \E r \in Runs : Publish(r)
  <2>1. PICK r \in Runs : Publish(r) BY <1>4
  <2>2. Publishes(r) BY <2>1, <1>0 DEF Publish, Publishes, SettledApi
  <2> QED BY <2>2 DEF ApiStep
<1>5. CASE \E r \in Runs : GiveUp(r)
  <2>1. PICK r \in Runs : GiveUp(r) BY <1>5
  <2>2. EndsAs(r, "failed") BY <2>1, <1>0 DEF GiveUp, EndsAs, Keeps, SettledApi
  <2> QED BY <2>2 DEF ApiStep
<1>6. CASE \E r \in Runs : TimeOut(r)
  <2>1. PICK r \in Runs : TimeOut(r) BY <1>6
  <2>2. EndsAs(r, "timed_out") BY <2>1 DEF TimeOut, EndsAs, Keeps, Live
  <2> QED BY <2>2 DEF ApiStep
<1>7. CASE UNCHANGED apiVars BY <1>7 DEF ApiStep
<1>8. CASE \E j \in Jobs : Step(j) \/ Kill(j)
  BY <1>7, <1>8 DEF Step, SkipEvent, NothingFound, Discover, SkipProject, StartProject, Finish,
     Build, BuildBreaks, ZipFails, Upload, UploadFails, SubmitBreaks, Send, Retry, RequestFails,
     Kill
<1>9. CASE \E c \in calls : Serve(c) \/ Drop(c)
  BY <1>1, <1>2, <1>7, <1>9 DEF Serve, PlanRun, CreateSettled, ImportAgain, ImportRefused,
     FailRead, FailSettled, Drop
<1>10. CASE \E c \in writing : FailDropped(c) BY <1>7, <1>10 DEF FailDropped
<1>11. CASE UNCHANGED vars BY <1>7, <1>11 DEF vars
<1> QED
  BY <1>3, <1>4, <1>5, <1>6, <1>8, <1>9, <1>10, <1>11 DEF Next, Work

ApiTypes ==
  /\ state \in [Runs -> Status]
  /\ accepted \in [Runs -> Jobs \cup {None}]
  /\ published \in [Runs -> Jobs \cup {None}]
  /\ queue \in SUBSET Runs
  /\ newest \in [Projects -> Keys \cup {None}]

LEMMA RunParts == ASSUME NEW r \in Runs
                  PROVE  r[1] \in Keys /\ r[2] \in Projects /\ r = <<r[1], r[2]>>
BY DEF Runs

(* No row comes apart; a run that exists stays, a submission and what was    *)
(* published are not replaced, and a run that is over can only be completed  *)
(* from a submission.                                                        *)
LEMMA ApiNext ==
  ASSUME Invariant, [Next]_vars
  PROVE  /\ ApiTypes' /\ SettledApi'
         /\ \A r \in Runs :
              /\ state[r] # "absent" => state'[r] # "absent"
              /\ HandedOver(r) => HandedOverNow(r)
              /\ state[r] \in {"failed", "timed_out"} => HandedOverNow(r) \/ OverNow(r)
              /\ published[r] # None => published'[r] = published[r]
<1> DEFINE Kept ==
      \A r \in Runs :
        /\ state[r] # "absent" => state'[r] # "absent"
        /\ HandedOver(r) => HandedOverNow(r)
        /\ state[r] \in {"failed", "timed_out"} => HandedOverNow(r) \/ OverNow(r)
        /\ published[r] # None => published'[r] = published[r]
<1>0. ApiTypes /\ SettledApi /\ JobsAdvance /\ ApiStep
  BY JobsNext, ApiSteps DEF Invariant, TypeOK, ApiTypes
<1>1. ASSUME NEW r \in Runs, accepted[r] # None
      PROVE  jobs'[accepted[r]].builds[r[2]] # None
  <2>1. accepted[r] \in Jobs BY <1>0, <1>1 DEF ApiTypes
  <2>2. jobs[accepted[r]].builds[r[2]] # None BY <1>0, <1>1 DEF SettledApi
  <2> QED BY <1>0, <2>1, <2>2, RunParts DEF JobsAdvance, Follows
<1>2. CASE UNCHANGED apiVars
  <2>1. ApiTypes' BY <1>0, <1>2 DEF ApiTypes, apiVars
  <2>2. SettledApi' BY <1>0, <1>1, <1>2 DEF SettledApi, apiVars
  <2>3. Kept BY <1>2 DEF apiVars, HandedOver, HandedOverNow, OverNow
  <2> QED BY <2>1, <2>2, <2>3
<1>3. ASSUME NEW r \in Runs, Opens(r) PROVE ApiTypes' /\ SettledApi' /\ Kept
  <2>1. ApiTypes' BY <1>0, <1>3 DEF ApiTypes, Opens, Keeps, Status
  <2>2. \A s \in Runs : state'[s] = IF s = r THEN "created" ELSE state[s]
    BY <1>0, <1>3 DEF ApiTypes, Opens
  <2>3. accepted' = accepted /\ published' = published /\ newest' = newest /\ queue' = queue
    BY <1>3 DEF Opens, Keeps
  <2>4. SettledApi' BY <1>0, <1>1, <2>2, <2>3 DEF SettledApi
  <2>5. Kept BY <1>3, <2>2, <2>3 DEF Opens, HandedOver, HandedOverNow, OverNow
  <2> QED BY <2>1, <2>4, <2>5
<1>4. ASSUME NEW r \in Runs, NEW j \in Jobs, Takes(r, j) PROVE ApiTypes' /\ SettledApi' /\ Kept
  <2>1. ApiTypes' BY <1>0, <1>4 DEF ApiTypes, Takes, Status
  <2>2. \A s \in Runs : state'[s] = IF s = r THEN "importing" ELSE state[s]
    BY <1>0, <1>4 DEF ApiTypes, Takes
  <2>3. \A s \in Runs : accepted'[s] = IF s = r THEN j ELSE accepted[s]
    BY <1>0, <1>4 DEF ApiTypes, Takes
  <2>4. published' = published /\ newest' = newest /\ queue' = queue \cup {r}
        /\ accepted[r] = None /\ state[r] \in Live /\ j # None
    BY <1>4, NoneIsNew DEF Takes
  <2>5. jobs'[j].builds[r[2]] # None
    BY <1>0, <1>4, RunParts DEF Takes, JobsAdvance, Follows
  <2>6. published[r] = None BY <1>0, <2>4 DEF SettledApi
  <2>7. SettledApi'
    <3>1. ASSUME NEW s \in Runs
          PROVE  /\ state'[s] \in {"importing", "completed"} => accepted'[s] # None
                 /\ s \in queue' => accepted'[s] # None /\ published'[s] = None
                 /\ published'[s] # None => published'[s] = accepted'[s]
                 /\ accepted'[s] # None =>
                      state'[s] # "absent" /\ jobs'[accepted'[s]].builds[s[2]] # None
      <4>1. CASE s = r BY <4>1, <2>2, <2>3, <2>4, <2>5, <2>6
      <4>2. CASE s # r BY <4>2, <1>0, <1>1, <2>2, <2>3, <2>4 DEF SettledApi
      <4> QED BY <4>1, <4>2
    <3>2. \A p \in Projects : newest'[p] # None => published'[<<newest'[p], p>>] # None
      BY <1>0, <2>4 DEF SettledApi
    <3> QED BY <3>1, <3>2 DEF SettledApi
  <2>8. Kept BY <1>0, <1>4, <2>2, <2>3, <2>4 DEF HandedOver, HandedOverNow, OverNow
  <2> QED BY <2>1, <2>7, <2>8
<1>5. ASSUME NEW r \in Runs, NEW ending \in {"failed", "timed_out"}, EndsAs(r, ending)
      PROVE  ApiTypes' /\ SettledApi' /\ Kept
  <2>1. ApiTypes' BY <1>0, <1>5 DEF ApiTypes, EndsAs, Keeps, Status
  <2>2. \A s \in Runs : state'[s] = IF s = r THEN ending ELSE state[s]
    BY <1>0, <1>5 DEF ApiTypes, EndsAs
  <2>3. accepted' = accepted /\ published' = published /\ newest' = newest
        /\ queue' \subseteq queue
    BY <1>5 DEF EndsAs, Keeps
  <2>4. SettledApi' BY <1>0, <1>1, <1>5, <2>2, <2>3 DEF SettledApi
  <2>5. Kept BY <1>5, <2>2, <2>3 DEF HandedOver, HandedOverNow, OverNow
  <2> QED BY <2>1, <2>4, <2>5
<1>6. ASSUME NEW r \in Runs, Publishes(r) PROVE ApiTypes' /\ SettledApi' /\ Kept
  <2>0. r[1] \in Keys /\ r[2] \in Projects /\ r = <<r[1], r[2]>> BY RunParts
  <2>1. ApiTypes'
    <3>1. accepted[r] \in Jobs BY <1>0, <1>6 DEF Publishes, ApiTypes
    <3> QED BY <1>0, <1>6, <2>0, <3>1 DEF ApiTypes, Publishes, Status
  <2>2. \A s \in Runs : state'[s] = IF s = r THEN "completed" ELSE state[s]
    BY <1>0, <1>6 DEF ApiTypes, Publishes
  <2>3. \A s \in Runs : published'[s] = IF s = r THEN accepted[s] ELSE published[s]
    BY <1>0, <1>6 DEF ApiTypes, Publishes
  <2>4. accepted' = accepted /\ queue' = queue \ {r}
        /\ accepted[r] # None /\ published[r] = None
    BY <1>6 DEF Publishes
  <2>5. \A p \in Projects : newest'[p] = IF p = r[2] THEN r[1] ELSE newest[p]
    BY <1>0, <1>6 DEF ApiTypes, Publishes
  <2>6. SettledApi'
    <3>1. ASSUME NEW s \in Runs
          PROVE  /\ state'[s] \in {"importing", "completed"} => accepted'[s] # None
                 /\ s \in queue' => accepted'[s] # None /\ published'[s] = None
                 /\ published'[s] # None => published'[s] = accepted'[s]
                 /\ accepted'[s] # None =>
                      state'[s] # "absent" /\ jobs'[accepted'[s]].builds[s[2]] # None
      BY <1>0, <1>1, <2>2, <2>3, <2>4 DEF SettledApi
    <3>2. ASSUME NEW p \in Projects, newest'[p] # None
          PROVE  published'[<<newest'[p], p>>] # None
      <4>1. CASE p = r[2] BY <4>1, <2>0, <2>3, <2>4, <2>5
      <4>2. CASE p # r[2]
        <5>1. newest'[p] = newest[p] /\ newest[p] \in Keys
          BY <4>2, <3>2, <2>5, <1>0 DEF ApiTypes
        <5>2. <<newest[p], p>> \in Runs BY <5>1 DEF Runs
        <5>3. published[<<newest[p], p>>] # None BY <5>1, <3>2, <1>0 DEF SettledApi
        <5> QED BY <5>1, <5>2, <5>3, <2>3, <2>4
      <4> QED BY <4>1, <4>2
    <3> QED BY <3>1, <3>2 DEF SettledApi
  <2>7. Kept BY <2>2, <2>3, <2>4 DEF HandedOver, HandedOverNow, OverNow
  <2> QED BY <2>1, <2>6, <2>7
<1> QED BY <1>0, <1>2, <1>3, <1>4, <1>5, <1>6 DEF ApiStep

-----------------------------------------------------------------------------
(* Requests, answers and the invariant *)

(* A request stays good for as long as it may be executed. *)
LEMMA GoodCallStays ==
  ASSUME Invariant, [Next]_vars, NEW c \in calls \cup writing,
         c \in writing' => c \in writing \/ (c.kind = "fail" /\ state[CallRun(c)] # "absent")
  PROVE  c \in Call /\ GoodCall(c)'
<1>1. /\ c \in Call /\ c.job \in Jobs /\ GoodCall(c)
      /\ c.kind # "plan" => CallRun(c) \in Runs /\ CallRun(c) = <<jobs[c.job].key, c.project>>
  BY CallTyped
<1>2. Follows(jobs'[c.job], jobs[c.job]) BY <1>1, JobsNext DEF JobsAdvance
<1>3. c.kind = "import" => jobs'[c.job].builds[c.project] # None
  BY <1>1, <1>2 DEF GoodCall, Follows
<1>4. c \in writing' => c.kind = "fail" /\ state'[CallRun(c)] # "absent"
  BY <1>1, ApiNext DEF GoodCall
<1>5. CallRun(c)' = CallRun(c) BY <1>2 DEF CallRun, Follows
<1>6. c.kind = "fail" => GaveUp(jobs'[c.job], c.project)
  BY <1>1, <1>2 DEF GoodCall, Follows
<1>7. c.kind = "fail" => GaveUp(jobs[c.job], c.project)' BY <1>6 DEF GaveUp
<1> QED BY <1>1, <1>3, <1>4, <1>5, <1>7 DEF GoodCall, CallRun

LEMMA CallsNext ==
  Invariant /\ [Next]_vars =>
    calls' \cup writing' \subseteq Call /\ \A c \in calls' \cup writing' : GoodCall(c)'
<1> SUFFICES ASSUME Invariant, [Next]_vars, NEW c \in calls' \cup writing'
             PROVE  c \in Call /\ GoodCall(c)'
  OBVIOUS
<1>1. CASE \E j \in Jobs : Send(j)
  <2>1. PICK j \in Jobs : Send(j) BY <1>1
  <2>2. PICK job \in Job : job = jobs[j] /\ WellFormed(job) BY DEF Invariant, TypeOK
  <2>3. writing' = writing
        /\ calls' = calls \cup {[job |-> j, kind |-> job.pc, project |-> job.project,
                                 try |-> job.try + 1]}
        /\ job.pc \in Requests /\ job.try < MaxTries
    BY <2>1, <2>2 DEF Send
  <2>4. CASE c \in calls \cup writing BY <2>3, <2>4, GoodCallStays
  <2>5. CASE c \notin calls \cup writing
    <3>1. c = [job |-> j, kind |-> job.pc, project |-> job.project, try |-> job.try + 1]
      BY <2>3, <2>5
    <3>2. c.job = j /\ c.kind = job.pc /\ c.project = job.project BY <3>1
    <3>3. job.try + 1 \in 1..MaxTries BY <2>3, MaxTriesAssumption DEF Job
    <3>4. c \in Call BY <2>3, <3>1, <3>3 DEF Call, Job
    <3>5. c.kind # "plan" => c.project \in Projects
      BY <2>2, <2>3, <3>2 DEF WellFormed, Requests
    <3>6. c.kind = "import" => jobs'[c.job].builds[c.project] # None
      <4>1. Follows(jobs'[j], job) BY <2>2, JobsNext DEF JobsAdvance
      <4> QED BY <2>2, <3>2, <3>5, <4>1 DEF WellFormed, Follows
    <3>7. c \notin writing' BY <2>3, <2>5
    <3>8. c.kind = "fail" => GaveUp(jobs[c.job], c.project)'
      <4>1. c.kind = "fail" => GaveUp(job, c.project)
        BY <2>2, <3>2 DEF WellFormed, GaveUp
      <4>2. Follows(jobs'[j], job) BY <2>2, JobsNext DEF JobsAdvance
      <4>3. c.kind = "fail" => GaveUp(jobs'[j], c.project)
        BY <3>2, <3>5, <4>1, <4>2 DEF Follows
      <4> QED BY <3>2, <4>3 DEF GaveUp
    <3> QED BY <3>4, <3>5, <3>6, <3>7, <3>8 DEF GoodCall
  <2> QED BY <2>4, <2>5
<1>2. CASE \E d \in calls : FailRead(d)
  <2>1. PICK d \in calls : FailRead(d) BY <1>2
  <2>2. c \in calls \cup writing BY <2>1 DEF FailRead
  <2>3. c \in writing' => c \in writing \/ (c.kind = "fail" /\ state[CallRun(c)] # "absent")
    BY <2>1 DEF FailRead, Live
  <2> QED BY <2>2, <2>3, GoodCallStays
<1>3. CASE calls' \subseteq calls /\ writing' \subseteq writing BY <1>3, GoodCallStays
<1>4. CASE \E j \in Jobs : Step(j) \/ Kill(j)
  BY <1>1, <1>3, <1>4 DEF Step, SkipEvent, NothingFound, Discover, SkipProject, StartProject,
     Finish, Build, BuildBreaks, ZipFails, Upload, UploadFails, SubmitBreaks, Retry,
     RequestFails, Kill
<1>5. CASE \E d \in calls : Serve(d) \/ Drop(d)
  BY <1>2, <1>3, <1>5 DEF Serve, PlanRun, CreateBoardRun, CreateSettled, ImportArtifactBundle,
     ImportAgain, ImportRefused, FailSettled, Drop
<1>6. CASE \E d \in writing : FailWrite(d) \/ FailDropped(d)
  BY <1>3, <1>6 DEF FailWrite, FailDropped
<1>7. CASE \E r \in Runs : Work(r) BY <1>3, <1>7 DEF Work, Publish, GiveUp, TimeOut
<1>8. CASE UNCHANGED vars BY <1>3, <1>8 DEF vars
<1> QED BY <1>4, <1>5, <1>6, <1>7, <1>8 DEF Next

LEMMA StagingNext == Invariant /\ [Next]_vars => staging' \in [Runs -> Jobs \cup {None}]
<1> SUFFICES ASSUME Invariant, [Next]_vars PROVE staging' \in [Runs -> Jobs \cup {None}]
  OBVIOUS
<1>0. staging \in [Runs -> Jobs \cup {None}] BY DEF Invariant, TypeOK
<1>1. CASE \E j \in Jobs : Stored(j) BY <1>0, <1>1 DEF Stored
<1>2. CASE UNCHANGED staging BY <1>0, <1>2
<1>3. CASE \E j \in Jobs : Step(j) \/ Kill(j)
  BY <1>1, <1>2, <1>3 DEF Step, SkipEvent, NothingFound, Discover, SkipProject, StartProject,
     Finish, Build, BuildBreaks, ZipFails, Upload, UploadFails, SubmitBreaks, Send, Retry,
     RequestFails, Kill
<1>4. CASE \E d \in calls : Serve(d) \/ Drop(d)
  BY <1>2, <1>4 DEF Serve, PlanRun, CreateBoardRun, CreateSettled, ImportArtifactBundle,
     ImportAgain, ImportRefused, FailRead, FailSettled, Drop
<1> QED
  BY <1>2, <1>3, <1>4 DEF Next, vars, FailWrite, FailDropped, Work, Publish, GiveUp, TimeOut

LEMMA SuccessNext == Invariant /\ [Next]_vars => SuccessIsSaved'
<1> SUFFICES ASSUME Invariant, [Next]_vars, NEW j \in Jobs, NEW p \in Projects,
                    jobs'[j].results[p] = "success"
             PROVE  \/ accepted'[<<jobs'[j].key, p>>] # None
                    \/ /\ jobs'[j].builds[p] = None
                       /\ state'[<<jobs'[j].key, p>>] \in {"failed", "timed_out"}
  BY DEF SuccessIsSaved, HandedOver
<1>1. Follows(jobs'[j], jobs[j]) BY JobsNext DEF JobsAdvance
<1>2. jobs'[j].key = jobs[j].key BY <1>1 DEF Follows
<1>3. PICK r \in Runs : r = <<jobs[j].key, p>> BY DEF Invariant, TypeOK, Runs, Job
<1>4. HandedOverNow(r) \/ (jobs'[j].builds[p] = None /\ OverNow(r))
  <2>1. CASE jobs[j].results[p] = "success"
    <3>1. \/ HandedOver(r)
          \/ jobs[j].builds[p] = None /\ state[r] \in {"failed", "timed_out"}
      BY <1>3, <2>1 DEF Invariant, SuccessIsSaved
    <3>2. jobs'[j].builds[p] = jobs[j].builds[p] BY <1>1, <2>1 DEF Follows
    <3> QED BY <3>1, <3>2, ApiNext
  <2>2. CASE jobs[j].results[p] # "success" BY <1>2, <1>3, <2>2, JobsNext DEF JobsAdvance, SavedNow
  <2> QED BY <2>1, <2>2
<1> QED BY <1>2, <1>3, <1>4 DEF HandedOverNow, OverNow

(* Who has given up a project stays the witness; only a fail request ends a  *)
(* run that has no submission as failed.                                     *)
LEMMA FailedNext == Invariant /\ [Next]_vars => FailedIsReported'
<1> SUFFICES ASSUME Invariant, [Next]_vars, NEW r \in Runs,
                    state'[r] = "failed", accepted'[r] = None
             PROVE  \E i \in Jobs : jobs'[i].key = r[1] /\ GaveUp(jobs'[i], r[2])
  BY DEF FailedIsReported, GaveUp
<1>1. ApiStep /\ ApiTypes BY ApiSteps DEF Invariant, TypeOK, ApiTypes
<1>2. accepted[r] = None BY ApiNext DEF HandedOver, HandedOverNow
<1>3. \E i \in Jobs : jobs[i].key = r[1] /\ GaveUp(jobs[i], r[2])
  <2>1. CASE state[r] = "failed" BY <1>2, <2>1 DEF Invariant, FailedIsReported
  <2>2. CASE state[r] # "failed"
    <3>1. state'[r] # state[r] BY <2>2
    <3>2. EndsAs(r, "failed")
      BY <1>1, <3>1 DEF ApiStep, ApiTypes, apiVars, Opens, Takes, EndsAs, Publishes
    <3> QED BY <1>2, <3>2 DEF EndsAs
  <2> QED BY <2>1, <2>2
<1>4. PICK i \in Jobs : jobs[i].key = r[1] /\ GaveUp(jobs[i], r[2]) BY <1>3
<1>5. Follows(jobs'[i], jobs[i]) BY JobsNext DEF JobsAdvance
<1> QED BY <1>4, <1>5, RunParts DEF Follows

LEMMA SkipNext == Invariant /\ [Next]_vars => SkipIsSaved'
<1> SUFFICES ASSUME Invariant, [Next]_vars, NEW j \in Jobs, NEW p \in Projects,
                    jobs'[j].decisions[p] = "skip"
             PROVE  \E k \in Keys :
                      /\ published'[<<k, p>>] # None
                      /\ TreeHash(jobs'[published'[<<k, p>>]].trees[p], Excludes)
                           = TreeHash(jobs'[j].trees[p], Excludes)
  BY DEF SkipIsSaved, TreeHash
<1>1. \E k \in Keys :
        /\ published[<<k, p>>] # None
        /\ TreeHash(jobs[published[<<k, p>>]].trees[p], Excludes)
             = TreeHash(jobs[j].trees[p], Excludes)
  <2>1. CASE jobs[j].decisions[p] = "skip" BY <2>1 DEF Invariant, SkipIsSaved
  <2>2. CASE jobs[j].decisions[p] # "skip"
    <3>1. MaySkip(j, p) BY <2>2, JobsNext DEF JobsAdvance
    <3>2. newest[p] \in Keys BY <3>1 DEF MaySkip, Invariant, TypeOK
    <3>3. published[<<newest[p], p>>] # None BY <3>1 DEF MaySkip, Invariant, SettledApi
    <3> QED BY <3>1, <3>2, <3>3 DEF MaySkip, LatestTree
  <2> QED BY <2>1, <2>2
<1>2. PICK k \in Keys :
        /\ published[<<k, p>>] # None
        /\ TreeHash(jobs[published[<<k, p>>]].trees[p], Excludes)
             = TreeHash(jobs[j].trees[p], Excludes)
  BY <1>1
<1>3. <<k, p>> \in Runs BY DEF Runs
<1>4. PICK i \in Jobs : i = published[<<k, p>>] BY <1>2, <1>3 DEF Invariant, TypeOK
<1>5. published'[<<k, p>>] = i BY <1>2, <1>3, <1>4, ApiNext
<1>6. jobs'[i].trees = jobs[i].trees /\ jobs'[j].trees = jobs[j].trees
  BY JobsNext DEF JobsAdvance, Follows
<1> QED BY <1>2, <1>4, <1>5, <1>6

LEMMA InvariantNext == Invariant /\ [Next]_vars => Invariant'
<1> SUFFICES ASSUME Invariant, [Next]_vars PROVE Invariant' OBVIOUS
<1>1. jobs' \in [Jobs -> Job] /\ \A j \in Jobs : WellFormed(jobs'[j])
  BY JobsNext DEF JobsAdvance
<1>2. \A j \in Jobs : WellFormed(jobs[j])' BY <1>1 DEF WellFormed
<1>3. ApiTypes' /\ SettledApi' BY ApiNext
<1>4. calls' \cup writing' \subseteq Call /\ \A c \in calls' \cup writing' : GoodCall(c)'
  BY CallsNext
<1>5. staging' \in [Runs -> Jobs \cup {None}] BY StagingNext
<1>6. TypeOK' BY <1>1, <1>3, <1>4, <1>5 DEF TypeOK, ApiTypes
<1>7. SuccessIsSaved' /\ FailedIsReported' /\ SkipIsSaved'
  BY SuccessNext, FailedNext, SkipNext
<1> QED BY <1>2, <1>3, <1>4, <1>6, <1>7 DEF Invariant

LEMMA InvariantHolds == Spec => []Invariant
BY InvariantInit, InvariantNext, PTL DEF Spec

-----------------------------------------------------------------------------
(* Theorems *)

(* No retry, answer, lost request or stop writes a job, a request or a row   *)
(* in a way the code has no name for; the client never counts more than      *)
(* max_retries attempts (ApiClient::request).                                *)
THEOREM TypeCorrect == Spec => []TypeOK
<1>1. Invariant => TypeOK BY DEF Invariant
<1> QED BY <1>1, InvariantHolds, PTL

(* For any number of jobs, of one attempt or of several, the decision to     *)
(* skip a project rests on stored artifacts of the same tree, and they are   *)
(* there for good (execute_plan_run, and the import that sets                *)
(* latest_completed_run_id in the transaction of its artifacts).             *)
THEOREM SkipsAreSaved == Spec => []SkipIsSaved
<1>1. Invariant => SkipIsSaved BY DEF Invariant
<1> QED BY <1>1, InvariantHolds, PTL

(* A project that was to be built and is no error when its job ends has a    *)
(* submission. The job may have been spared it only as the run was over: it  *)
(* timed out, or was failed by another job, which is not green; so if every  *)
(* job of an attempt ends with 0 and no run timed out, all is handed over.   *)
(* With code 0 nothing is an error and no gate of what was built is closed   *)
(* (run and process_project, for any retries, lost answers and requests      *)
(* executed late).                                                           *)
THEOREM GreenIsSaved == Spec => []GreenMeansSaved
<1>1. Invariant => GreenMeansSaved
  <2> SUFFICES ASSUME Invariant, NEW j \in Jobs
               PROVE  /\ jobs[j].exit \in {"0", "1"} =>
                           \A p \in Projects :
                             jobs[j].decisions[p] = "build" /\ jobs[j].results[p] # "error" =>
                               \/ HandedOver(<<jobs[j].key, p>>)
                               \/ /\ jobs[j].builds[p] = None
                                  /\ \/ state[<<jobs[j].key, p>>] = "timed_out"
                                     \/ FailedByAnother(j, p)
                      /\ jobs[j].exit = "0" =>
                           \A p \in Projects :
                             /\ jobs[j].results[p] # "error"
                             /\ jobs[j].builds[p] # None =>
                                  ~ChecksFailed(jobs[j].builds[p], Gates)
    BY DEF GreenMeansSaved
  <2>1. PICK job \in Job : job = jobs[j] /\ WellFormed(job) BY DEF Invariant, TypeOK
  <2>2. ASSUME job.exit \in {"0", "1"}, NEW p \in Projects, job.decisions[p] = "build",
               job.results[p] # "error"
        PROVE  \/ HandedOver(<<job.key, p>>)
               \/ /\ job.builds[p] = None
                  /\ state[<<job.key, p>>] = "timed_out" \/ FailedByAnother(j, p)
    <3>1. job.results[p] # "none" /\ job.results[p] # "skipped" BY <2>1, <2>2 DEF WellFormed
    <3>2. job.results[p] = "success" BY <2>2, <3>1 DEF Job
    <3>3. PICK r \in Runs : r = <<job.key, p>> BY DEF Runs, Job
    <3>4. \/ HandedOver(r)
          \/ job.builds[p] = None /\ state[r] \in {"failed", "timed_out"}
      BY <2>1, <3>2, <3>3 DEF Invariant, SuccessIsSaved
    <3>5. ASSUME state[r] = "failed", ~HandedOver(r) PROVE FailedByAnother(j, p)
      <4>1. PICK i \in Jobs : jobs[i].key = job.key /\ GaveUp(jobs[i], p)
        BY <3>3, <3>5 DEF Invariant, FailedIsReported, HandedOver
      <4>2. WellFormed(jobs[i]) BY DEF Invariant
      <4>3. jobs[i].exit # "0" BY <4>1, <4>2 DEF GaveUp, WellFormed
      <4>4. i # j BY <2>1, <2>2, <4>1 DEF GaveUp, WellFormed
      <4>5. jobs[i].decisions[p] = "build" BY <4>1 DEF GaveUp
      <4> QED BY <2>1, <3>3, <3>5, <4>1, <4>3, <4>4, <4>5 DEF FailedByAnother
    <3> QED BY <3>3, <3>4, <3>5
  <2>3. ASSUME job.exit = "0", NEW p \in Projects
        PROVE  job.results[p] # "error"
               /\ (job.builds[p] # None => ~ChecksFailed(job.builds[p], Gates))
    BY <2>1, <2>3, NoneIsNew DEF WellFormed
  <2> QED BY <2>1, <2>2, <2>3
<1> QED BY <1>1, InvariantHolds, PTL

(* What finding 3 leaves: if no command that failed leaves its output file,  *)
(* no source file has ".." in its name and no archive is too large, then     *)
(* every submission that is still in staging can be imported, however many   *)
(* of its artifacts failed (create_manifest, build_staging_dir and           *)
(* extract_bundle against each other).                                       *)
CleanBuilds == \A b \in Builds : Leftover(b) = {} /\ ~b.dotted /\ ~b.large

THEOREM CleanFailuresAreHarmless ==
  ASSUME CleanBuilds
  PROVE  Spec => []FailedArtifactIsHarmless
<1>1. Invariant => FailedArtifactIsHarmless
  <2> SUFFICES ASSUME Invariant, NEW r \in queue
               PROVE  Importable(jobs[accepted[r]].builds[r[2]])
    BY DEF FailedArtifactIsHarmless
  <2>1. r \in Runs /\ r[2] \in Projects BY RunParts DEF Invariant, TypeOK
  <2>2. accepted[r] # None BY <2>1 DEF Invariant, SettledApi
  <2>3. PICK b : b = jobs[accepted[r]].builds[r[2]] OBVIOUS
  <2>4. accepted[r] \in Jobs BY <2>1, <2>2 DEF Invariant, TypeOK
  <2>5. b \in Builds \cup {None} BY <2>1, <2>3, <2>4 DEF Invariant, TypeOK, Job
  <2>6. b # None BY <2>1, <2>2, <2>3 DEF Invariant, SettledApi
  <2>7. b \in Builds /\ b \in Pipeline /\ Plausible(b) BY <2>5, <2>6, BuildsAssumption
  <2>8. Leftover(b) = {} /\ ~b.dotted /\ ~b.large BY <2>7 DEF CleanBuilds
  <2> QED BY <2>3, <2>7, <2>8, CleanArchiveIsImportable
<1> QED BY <1>1, InvariantHolds, PTL

LEMMA LedgerInits == Init => \A p \in Projects : Ledger(p)!Init
<1> SUFFICES ASSUME Init, NEW p \in Projects PROVE Ledger(p)!Init OBVIOUS
<1>1. NoRuns BY DEF Init
<1>2. \A k \in Keys : <<k, p>> \in Runs BY DEF Runs
<1> QED BY <1>1, <1>2 DEF NoRuns, Ledger!Init

(* Seen from one project, a step is one of the ledger or changes nothing. *)
LEMMA LedgerSteps ==
  ASSUME Invariant, [Next]_vars, NEW p \in Projects
  PROVE  [Ledger(p)!Next]_(Ledger(p)!vars)
<1>0. ApiStep /\ ApiTypes BY ApiSteps DEF Invariant, TypeOK, ApiTypes
<1>1. \A k \in Keys : <<k, p>> \in Runs BY DEF Runs
<1>2. ASSUME \A k \in Keys : /\ state'[<<k, p>>] = state[<<k, p>>]
                             /\ accepted'[<<k, p>>] = accepted[<<k, p>>]
                             /\ published'[<<k, p>>] = published[<<k, p>>],
             newest'[p] = newest[p]
      PROVE  [Ledger(p)!Next]_(Ledger(p)!vars)
  BY <1>2 DEF Ledger!vars
<1>3. CASE UNCHANGED apiVars BY <1>2, <1>3 DEF apiVars
<1>4. ASSUME NEW r \in Runs, r[2] # p,
             \/ Opens(r) \/ Publishes(r) \/ \E j \in Jobs : Takes(r, j)
             \/ \E ending \in {"failed", "timed_out"} : EndsAs(r, ending)
      PROVE  [Ledger(p)!Next]_(Ledger(p)!vars)
  <2>1. \A k \in Keys : <<k, p>> # r BY <1>4
  <2>2. \A k \in Keys : /\ state'[<<k, p>>] = state[<<k, p>>]
                        /\ accepted'[<<k, p>>] = accepted[<<k, p>>]
                        /\ published'[<<k, p>>] = published[<<k, p>>]
    BY <1>0, <1>1, <1>4, <2>1 DEF ApiTypes, Opens, Keeps, Takes, EndsAs, Publishes
  <2>3. newest'[p] = newest[p]
    BY <1>0, <1>4, RunParts DEF ApiTypes, Opens, Keeps, Takes, EndsAs, Publishes
  <2> QED BY <1>2, <2>2, <2>3
<1>5. ASSUME NEW k \in Keys, Opens(<<k, p>>) PROVE [Ledger(p)!Next]_(Ledger(p)!vars)
  <2>1. accepted' = accepted /\ published' = published /\ newest' = newest
    BY <1>5 DEF Opens, Keeps
  <2>2. \A i \in Keys : state'[<<i, p>>] = IF i = k THEN "created" ELSE state[<<i, p>>]
    BY <1>0, <1>1, <1>5 DEF ApiTypes, Opens
  <2>3. CASE state[<<k, p>>] = "created" BY <1>2, <2>1, <2>2, <2>3
  <2>4. CASE state[<<k, p>>] = "absent"
    <3>1. Ledger(p)!Open(k) BY <2>1, <2>2, <2>4 DEF Ledger!Open
    <3> QED BY <3>1 DEF Ledger!Next
  <2> QED BY <1>5, <2>3, <2>4 DEF Opens
<1>6. ASSUME NEW k \in Keys, NEW j \in Jobs, Takes(<<k, p>>, j)
      PROVE  [Ledger(p)!Next]_(Ledger(p)!vars)
  <2>1. published' = published /\ newest' = newest /\ state[<<k, p>>] \in Live
        /\ accepted[<<k, p>>] = None
    BY <1>6 DEF Takes
  <2>2. \A i \in Keys :
          /\ state'[<<i, p>>] = IF i = k THEN "importing" ELSE state[<<i, p>>]
          /\ accepted'[<<i, p>>] = IF i = k THEN j ELSE accepted[<<i, p>>]
    BY <1>0, <1>1, <1>6 DEF ApiTypes, Takes
  <2>3. Ledger(p)!Take(k, j) BY <2>1, <2>2 DEF Ledger!Take, Ledger!Live, Live
  <2> QED BY <2>3 DEF Ledger!Next
<1>7. ASSUME NEW k \in Keys, NEW ending \in {"failed", "timed_out"}, EndsAs(<<k, p>>, ending)
      PROVE  [Ledger(p)!Next]_(Ledger(p)!vars)
  <2>1. accepted' = accepted /\ published' = published /\ newest' = newest
        /\ state[<<k, p>>] # "absent"
    BY <1>7 DEF EndsAs, Keeps
  <2>2. \A i \in Keys : state'[<<i, p>>] = IF i = k THEN ending ELSE state[<<i, p>>]
    BY <1>0, <1>1, <1>7 DEF ApiTypes, EndsAs
  <2>3. CASE ending = "failed"
    <3>1. Ledger(p)!Fail(k) BY <2>1, <2>2, <2>3 DEF Ledger!Fail
    <3> QED BY <3>1 DEF Ledger!Next
  <2>4. CASE ending = "timed_out"
    <3>1. state[<<k, p>>] \in Live BY <1>7, <2>4 DEF EndsAs
    <3>2. Ledger(p)!TimeOut({k})
      BY <2>1, <2>2, <2>4, <3>1 DEF Ledger!TimeOut, Ledger!Live, Live
    <3>3. {k} \in SUBSET Keys OBVIOUS
    <3> QED BY <3>2, <3>3 DEF Ledger!Next
  <2> QED BY <2>3, <2>4
<1>8. ASSUME NEW k \in Keys, Publishes(<<k, p>>) PROVE [Ledger(p)!Next]_(Ledger(p)!vars)
  <2>1. accepted' = accepted /\ accepted[<<k, p>>] # None /\ published[<<k, p>>] = None
    BY <1>8 DEF Publishes
  <2>2. \A i \in Keys :
          /\ state'[<<i, p>>] = IF i = k THEN "completed" ELSE state[<<i, p>>]
          /\ published'[<<i, p>>] = IF i = k THEN accepted[<<i, p>>] ELSE published[<<i, p>>]
    BY <1>0, <1>1, <1>8 DEF ApiTypes, Publishes
  <2>3. newest'[p] = k BY <1>0, <1>8 DEF ApiTypes, Publishes
  <2>4. Ledger(p)!Publish(k) BY <2>1, <2>2, <2>3 DEF Ledger!Publish
  <2> QED BY <2>4 DEF Ledger!Next
<1>9. ASSUME NEW r \in Runs, r[2] = p,
             \/ Opens(r) \/ Publishes(r) \/ \E j \in Jobs : Takes(r, j)
             \/ \E ending \in {"failed", "timed_out"} : EndsAs(r, ending)
      PROVE  [Ledger(p)!Next]_(Ledger(p)!vars)
  <2>1. PICK k \in Keys : r = <<k, p>> BY <1>9, RunParts
  <2> QED BY <1>5, <1>6, <1>7, <1>8, <1>9, <2>1
<1> QED BY <1>0, <1>3, <1>4, <1>9 DEF ApiStep

(* For each project of the repository, the API as the runners see it keeps   *)
(* the promises of RunLedger, which BoardRuns was shown to implement: what   *)
(* retried and late requests do to the rows is at most a step of the ledger. *)
THEOREM LedgersAreKept == Spec => LedgerIsKept
<1>1. Init => \A p \in Projects : Ledger(p)!Init BY LedgerInits
<1>2. Invariant /\ [Next]_vars => [\A p \in Projects : [Ledger(p)!Next]_(Ledger(p)!vars)]_vars
  BY LedgerSteps
<1> QED BY <1>1, <1>2, InvariantHolds, PTL DEF Spec, LedgerIsKept

-----------------------------------------------------------------------------
(* How far a job is from its end *)

(* The stages of a project, and of the job, that are still to come. *)
Rank(pc) ==
  CASE pc = "done" -> 0 [] pc = "next" -> 1
    [] pc = "fail" -> 2 [] pc = "import" -> 3 [] pc = "upload" -> 4
    [] pc = "build" -> 5 [] pc = "create" -> 6
    [] pc = "plan" -> 2 [] pc = "start" -> 3

ToVisit(job) == IF job.pc = "start" THEN Projects ELSE job.todo
Stages(job) == Rank(job.pc) + 6 * Cardinality(ToVisit(job))

(* The attempts that the request under way has left, each a send and an end. *)
Attempts(job) == 2 * (MaxTries - job.try) + (IF job.waiting THEN 1 ELSE 0)

(* A bound on the steps that the job still takes. *)
StepsLeft(job) == (2 * MaxTries + 2) * Stages(job) + Attempts(job)

(* What a step does to the job that takes it. *)
GoesForward(d, job) ==
  \/ Rank(d.pc) < Rank(job.pc) /\ ToVisit(d) \subseteq ToVisit(job)
  \/ \E p \in job.todo : /\ job.pc = "next" /\ d.pc \in {"next", "create"}
                         /\ d.todo = job.todo \ {p}
  \/ d.pc = job.pc /\ d.todo = job.todo /\ Attempts(d) < Attempts(job)

(* A request that is not under way has an attempt left. *)
HasTries(job) == job.pc \in Requests => job.waiting \/ job.try < MaxTries

LEMMA RankType ==
  ASSUME NEW job \in Job
  PROVE  Rank(job.pc) \in Nat
BY DEF Rank, Job, Requests

LEMMA AttemptsType ==
  ASSUME NEW job \in Job
  PROVE  Attempts(job) \in 0..(2 * MaxTries + 1)
<1>1. job.try \in 0..MaxTries /\ job.waiting \in BOOLEAN BY DEF Job
<1> QED BY <1>1, MaxTriesAssumption DEF Attempts

LEMMA StagesType ==
  ASSUME IsFiniteSet(Projects), NEW job \in Job
  PROVE  /\ IsFiniteSet(ToVisit(job)) /\ Cardinality(ToVisit(job)) \in Nat
         /\ Stages(job) \in Nat
<1>1. ToVisit(job) \in SUBSET Projects BY DEF ToVisit, Job
<1>2. IsFiniteSet(ToVisit(job)) /\ Cardinality(ToVisit(job)) \in Nat
  BY <1>1, FS_Subset, FS_CardinalityType
<1> QED BY <1>2, RankType DEF Stages

(* One stage weighs more than all attempts of a request. *)
LEMMA StageOutweighs ==
  ASSUME NEW w \in Nat, NEW m \in Nat, NEW n \in Nat, m < n,
         NEW x \in Nat, NEW y \in Nat, x < w
  PROVE  w * m + x < w * n + y
<1>1. PICK k \in Nat : n = m + 1 + k
  <2>1. n - m - 1 \in Nat /\ n = m + 1 + (n - m - 1) OBVIOUS
  <2> QED BY <2>1
<1>2. w * n = w * m + w + w * k BY <1>1
<1>3. w * k \in Nat /\ w * m \in Nat OBVIOUS
<1> QED BY <1>2, <1>3

LEMMA ForwardIsNearer ==
  ASSUME IsFiniteSet(Projects), NEW job \in Job, NEW d \in Job, GoesForward(d, job)
  PROVE  StepsLeft(d) \in Nat /\ StepsLeft(job) \in Nat /\ StepsLeft(d) < StepsLeft(job)
<1> DEFINE w == 2 * MaxTries + 2
<1>1. /\ w \in Nat
      /\ Attempts(d) \in Nat /\ Attempts(d) < w /\ Attempts(job) \in Nat
  BY AttemptsType, MaxTriesAssumption
<1>2. /\ Stages(d) \in Nat /\ Stages(job) \in Nat
      /\ Cardinality(ToVisit(d)) \in Nat /\ Cardinality(ToVisit(job)) \in Nat
      /\ IsFiniteSet(ToVisit(job))
      /\ Rank(d.pc) \in Nat /\ Rank(job.pc) \in Nat
  BY StagesType, RankType
<1>3. /\ StepsLeft(d) = w * Stages(d) + Attempts(d)
      /\ StepsLeft(job) = w * Stages(job) + Attempts(job)
  BY DEF StepsLeft
<1>4. CASE Rank(d.pc) < Rank(job.pc) /\ ToVisit(d) \subseteq ToVisit(job)
  <2>1. Cardinality(ToVisit(d)) <= Cardinality(ToVisit(job)) BY <1>2, <1>4, FS_Subset
  <2>2. Stages(d) < Stages(job) BY <1>2, <1>4, <2>1 DEF Stages
  <2> QED BY <1>1, <1>2, <1>3, <2>2, StageOutweighs
<1>5. CASE \E p \in job.todo : /\ job.pc = "next" /\ d.pc \in {"next", "create"}
                               /\ d.todo = job.todo \ {p}
  <2>1. PICK p \in job.todo : /\ job.pc = "next" /\ d.pc \in {"next", "create"}
                              /\ d.todo = job.todo \ {p}
    BY <1>5
  <2>2. ToVisit(job) = job.todo /\ ToVisit(d) = job.todo \ {p} BY <2>1 DEF ToVisit
  <2>3. Cardinality(ToVisit(d)) = Cardinality(ToVisit(job)) - 1
    <3>1. IsFiniteSet(job.todo) BY <1>2, <2>2
    <3>2. Cardinality(job.todo \ {p}) = Cardinality(job.todo) - 1
      BY <2>1, <3>1, FS_RemoveElement
    <3> QED BY <2>2, <3>2
  <2>4. Rank(job.pc) = 1 /\ Rank(d.pc) \in {1, 6} BY <2>1 DEF Rank
  <2>5. Stages(d) < Stages(job) BY <1>2, <2>3, <2>4 DEF Stages
  <2> QED BY <1>1, <1>2, <1>3, <2>5, StageOutweighs
<1>6. CASE d.pc = job.pc /\ d.todo = job.todo /\ Attempts(d) < Attempts(job)
  <2>1. Stages(d) = Stages(job) BY <1>6 DEF Stages, ToVisit
  <2>2. w * Stages(job) \in Nat BY <1>1, <1>2
  <2> QED BY <1>1, <1>3, <1>6, <2>1, <2>2
<1>7. w * Stages(d) \in Nat /\ w * Stages(job) \in Nat BY <1>1, <1>2
<1>8. StepsLeft(d) \in Nat /\ StepsLeft(job) \in Nat BY <1>1, <1>3, <1>7
<1> QED BY <1>4, <1>5, <1>6, <1>8 DEF GoesForward

Nearer(d, job) == d \in Job /\ GoesForward(d, job) /\ HasTries(d)

LEMMA EndedIsNearer ==
  ASSUME NEW job \in Job, job.pc # "done", NEW code \in {"0", "1", "killed"}
  PROVE  Nearer(Ended(job, code), job)
<1> DEFINE d == Ended(job, code)
<1>1. d \in Job /\ d.pc = "done" /\ d.todo = job.todo BY ZeroTries DEF Ended, Job
<1> HIDE DEF d
<1>2. job.todo \subseteq Projects BY DEF Job
<1>3. Rank(d.pc) < Rank(job.pc) BY <1>1 DEF Rank, Job, Requests
<1>4. ToVisit(d) \subseteq ToVisit(job) BY <1>1, <1>2 DEF ToVisit
<1>5. HasTries(d) BY <1>1 DEF HasTries, Requests
<1> QED BY <1>1, <1>3, <1>4, <1>5 DEF Nearer, GoesForward, d

LEMMA ProjectEndsNearer ==
  ASSUME NEW job \in Job, job.pc \in {"create", "build", "upload", "import", "fail"},
         NEW result \in {"success", "error"}, NEW checks \in BOOLEAN
  PROVE  Nearer(ProjectEnds(job, result, checks), job)
<1> DEFINE d == ProjectEnds(job, result, checks)
<1>1. /\ [job.results EXCEPT ![job.project] = result]
           \in [Projects -> {"none", "skipped", "success", "error"}]
      /\ (job.failed \/ result = "error" \/ checks) \in BOOLEAN
  BY DEF Job
<1>2. d \in Job BY <1>1, NoneIsNew, ZeroTries DEF ProjectEnds, Job
<1>3. d.pc = "next" /\ d.todo = job.todo BY DEF ProjectEnds, Job
<1> HIDE DEF d
<1>4. Rank(d.pc) < Rank(job.pc) BY <1>3 DEF Rank
<1>5. ToVisit(d) \subseteq ToVisit(job) BY <1>3 DEF ToVisit
<1>6. HasTries(d) BY <1>3 DEF HasTries, Requests
<1> QED BY <1>2, <1>4, <1>5, <1>6 DEF Nearer, GoesForward, d

LEMMA RequestIsNearer ==
  ASSUME NEW job \in Job, NEW kind,
         \/ job.pc = "upload" /\ kind = "import"
         \/ job.pc \in {"build", "upload", "import"} /\ kind = "fail"
  PROVE  Nearer(Request(job, kind), job)
<1> DEFINE d == Request(job, kind)
<1>1. kind \in {"import", "fail"} OBVIOUS
<1>2. /\ d \in Job /\ d.pc = kind /\ d.todo = job.todo
      /\ d.try = 0 /\ d.waiting = FALSE
  BY <1>1, ZeroTries DEF Request, Job, Requests
<1> HIDE DEF d
<1>3. Rank(d.pc) < Rank(job.pc) BY <1>2 DEF Rank
<1>4. ToVisit(d) \subseteq ToVisit(job) BY <1>2 DEF ToVisit
<1>5. HasTries(d) BY <1>2, MaxTriesAssumption DEF HasTries
<1> QED BY <1>2, <1>3, <1>4, <1>5 DEF Nearer, GoesForward, d

LEMMA OnErrorIsNearer ==
  ASSUME NEW job \in Job, job.pc \in Requests
  PROVE  Nearer(OnError(job), job)
<1>1. CASE job.pc = "plan" BY <1>1, EndedIsNearer DEF OnError
<1>2. CASE job.pc \in {"create", "fail"}
  <2>1. OnError(job) = ProjectEnds(job, "error", FALSE) BY <1>2 DEF OnError
  <2> QED BY <1>2, <2>1, ProjectEndsNearer
<1>3. CASE job.pc = "import"
  <2>1. OnError(job) = Request(job, "fail") BY <1>3 DEF OnError
  <2> QED BY <1>3, <2>1, RequestIsNearer
<1> QED BY <1>1, <1>2, <1>3 DEF Requests

LEMMA DiscoverIsNearer ==
  ASSUME NEW job \in Job, job.pc = "start", NEW todo \in SUBSET Projects,
         NEW failed \in BOOLEAN
  PROVE  Nearer([Request(job, "plan") EXCEPT !.todo = todo, !.failed = failed], job)
<1> DEFINE d == [Request(job, "plan") EXCEPT !.todo = todo, !.failed = failed]
<1>1. d \in Job /\ d.pc = "plan" /\ d.todo = todo /\ d.try = 0 /\ d.waiting = FALSE
  BY ZeroTries DEF Request, Job, Requests
<1> HIDE DEF d
<1>2. Rank(d.pc) < Rank(job.pc) BY <1>1 DEF Rank
<1>3. ToVisit(d) \subseteq ToVisit(job) BY <1>1 DEF ToVisit
<1>4. HasTries(d) BY <1>1, MaxTriesAssumption DEF HasTries
<1> QED BY <1>1, <1>2, <1>3, <1>4 DEF Nearer, GoesForward, d

LEMMA LoopIsNearer ==
  ASSUME NEW job \in Job, job.pc = "next", NEW p \in job.todo
  PROVE  /\ Nearer([job EXCEPT !.todo = job.todo \ {p},
                               !.results = [job.results EXCEPT ![p] = "skipped"]], job)
         /\ Nearer([Request(job, "create") EXCEPT !.todo = job.todo \ {p}, !.project = p],
                   job)
<1> DEFINE results == [job.results EXCEPT ![p] = "skipped"]
           d == [job EXCEPT !.todo = job.todo \ {p}, !.results = results]
           e == [Request(job, "create") EXCEPT !.todo = job.todo \ {p}, !.project = p]
<1>1. p \in Projects /\ job.todo \ {p} \in SUBSET Projects BY DEF Job
<1>2. results \in [Projects -> {"none", "skipped", "success", "error"}] BY DEF Job
<1> HIDE DEF results
<1>3. d \in Job /\ d.pc = "next" /\ d.todo = job.todo \ {p} BY <1>1, <1>2 DEF Job
<1>4. /\ e \in Job /\ e.pc = "create" /\ e.todo = job.todo \ {p}
      /\ e.try = 0 /\ e.waiting = FALSE
  BY <1>1, ZeroTries DEF Request, Job, Requests
<1> HIDE DEF d, e
<1>5. Nearer(d, job) BY <1>3 DEF Nearer, GoesForward, HasTries, Requests
<1>6. HasTries(e) BY <1>4, MaxTriesAssumption DEF HasTries
<1>7. Nearer(e, job) BY <1>4, <1>6 DEF Nearer, GoesForward
<1> QED BY <1>5, <1>7 DEF d, e, results

LEMMA BuildIsNearer ==
  ASSUME NEW job \in Job, job.pc = "build", NEW b \in Builds
  PROVE  Nearer([job EXCEPT !.pc = "upload", !.builds = [job.builds EXCEPT ![job.project] = b]],
                job)
<1> DEFINE builds == [job.builds EXCEPT ![job.project] = b]
           d == [job EXCEPT !.pc = "upload", !.builds = builds]
<1>1. builds \in [Projects -> Builds \cup {None}] BY DEF Job
<1> HIDE DEF builds
<1>2. d \in Job /\ d.pc = "upload" /\ d.todo = job.todo BY <1>1 DEF Job
<1> HIDE DEF d
<1>3. Rank(d.pc) < Rank(job.pc) BY <1>2 DEF Rank
<1>4. ToVisit(d) \subseteq ToVisit(job) BY <1>2 DEF ToVisit
<1>5. HasTries(d) BY <1>2 DEF HasTries, Requests
<1> QED BY <1>2, <1>3, <1>4, <1>5 DEF Nearer, GoesForward, d, builds

(* An attempt is begun, or given up with another one left. *)
LEMMA AttemptIsNearer ==
  ASSUME NEW job \in Job, job.pc \in Requests, job.try < MaxTries
  PROVE  /\ ~job.waiting => Nearer([job EXCEPT !.try = job.try + 1, !.waiting = TRUE], job)
         /\ job.waiting => Nearer([job EXCEPT !.waiting = FALSE], job)
<1> DEFINE d == [job EXCEPT !.try = job.try + 1, !.waiting = TRUE]
           e == [job EXCEPT !.waiting = FALSE]
<1>1. job.try \in 0..MaxTries /\ job.waiting \in BOOLEAN BY DEF Job
<1>2. job.try + 1 \in 0..MaxTries BY <1>1, MaxTriesAssumption
<1>3. /\ d \in Job /\ d.pc = job.pc /\ d.todo = job.todo
      /\ d.try = job.try + 1 /\ d.waiting = TRUE
  BY <1>2 DEF Job
<1>4. /\ e \in Job /\ e.pc = job.pc /\ e.todo = job.todo
      /\ e.try = job.try /\ e.waiting = FALSE
  BY DEF Job
<1> HIDE DEF d, e
<1>5. ~job.waiting => Attempts(d) < Attempts(job)
  BY <1>1, <1>3, MaxTriesAssumption DEF Attempts
<1>6. job.waiting => Attempts(e) < Attempts(job)
  BY <1>1, <1>4, MaxTriesAssumption DEF Attempts
<1> QED BY <1>3, <1>4, <1>5, <1>6 DEF Nearer, GoesForward, HasTries, d, e

LEMMA AnsweredIsNearer ==
  ASSUME NEW job \in Job
  PROVE  /\ job.pc = "create" =>
              Nearer([job EXCEPT !.pc = "build", !.try = 0, !.waiting = FALSE], job)
         /\ \A decisions \in [Projects -> {"none", "build", "skip", "error"}] :
              job.pc = "plan" =>
                Nearer([job EXCEPT !.pc = "next", !.try = 0, !.waiting = FALSE,
                                   !.decisions = decisions], job)
<1>1. ASSUME job.pc = "create"
      PROVE  Nearer([job EXCEPT !.pc = "build", !.try = 0, !.waiting = FALSE], job)
  <2> DEFINE d == [job EXCEPT !.pc = "build", !.try = 0, !.waiting = FALSE]
  <2>1. d \in Job /\ d.pc = "build" /\ d.todo = job.todo BY ZeroTries DEF Job
  <2> HIDE DEF d
  <2>2. Rank(d.pc) < Rank(job.pc) BY <1>1, <2>1 DEF Rank
  <2>3. ToVisit(d) \subseteq ToVisit(job) BY <1>1, <2>1 DEF ToVisit
  <2>4. HasTries(d) BY <2>1 DEF HasTries, Requests
  <2> QED BY <2>1, <2>2, <2>3, <2>4 DEF Nearer, GoesForward, d
<1>2. ASSUME NEW decisions \in [Projects -> {"none", "build", "skip", "error"}],
             job.pc = "plan"
      PROVE  Nearer([job EXCEPT !.pc = "next", !.try = 0, !.waiting = FALSE,
                                !.decisions = decisions], job)
  <2> DEFINE d == [job EXCEPT !.pc = "next", !.try = 0, !.waiting = FALSE,
                              !.decisions = decisions]
  <2>1. d \in Job /\ d.pc = "next" /\ d.todo = job.todo BY ZeroTries DEF Job
  <2> HIDE DEF d
  <2>2. Rank(d.pc) < Rank(job.pc) BY <1>2, <2>1 DEF Rank
  <2>3. ToVisit(d) \subseteq ToVisit(job) BY <1>2, <2>1 DEF ToVisit
  <2>4. HasTries(d) BY <2>1 DEF HasTries, Requests
  <2> QED BY <2>1, <2>2, <2>3, <2>4 DEF Nearer, GoesForward, d
<1> QED BY <1>1, <1>2

(* The jobs in one step: at most one changes, and it comes nearer its end. *)
JobsNearer == \A j \in Jobs : jobs'[j] = jobs[j] \/ Nearer(jobs'[j], jobs[j])

LEMMA StepIsNearer ==
  ASSUME Invariant, NEW j \in Jobs, Step(j) \/ Kill(j)
  PROVE  \E d : jobs' = [jobs EXCEPT ![j] = d] /\ Nearer(d, jobs[j])
<1>1. PICK job \in Job : job = jobs[j] /\ WellFormed(job) BY DEF Invariant, TypeOK
<1>2. CASE SkipEvent(j) \/ NothingFound(j) \/ Finish(j) \/ Kill(j)
  <2>1. PICK code \in {"0", "1", "killed"} :
          jobs' = [jobs EXCEPT ![j] = Ended(job, code)] /\ job.pc # "done"
    BY <1>1, <1>2 DEF SkipEvent, NothingFound, Finish, Kill, Exit, Become
  <2> QED BY <1>1, <2>1, EndedIsNearer
<1>3. CASE Discover(j)
  <2>1. PICK todo \in SUBSET Projects : todo = Usables(j) BY DEF Usables
  <2>2. PICK failed \in BOOLEAN : failed = (Usables(j) # Present(j)) OBVIOUS
  <2>3. /\ jobs' = [jobs EXCEPT ![j] =
             [Request(job, "plan") EXCEPT !.todo = todo, !.failed = failed]]
        /\ job.pc = "start"
    BY <1>1, <1>3, <2>1, <2>2 DEF Discover, Become
  <2> QED BY <1>1, <2>3, DiscoverIsNearer
<1>4. CASE \E p \in Projects : SkipProject(j, p)
  <2>1. PICK p \in job.todo :
          /\ job.pc = "next"
          /\ jobs' = [jobs EXCEPT ![j] =
               [job EXCEPT !.todo = job.todo \ {p},
                           !.results = [job.results EXCEPT ![p] = "skipped"]]]
    BY <1>1, <1>4 DEF SkipProject, Become
  <2> QED BY <1>1, <2>1, LoopIsNearer
<1>5. CASE \E p \in Projects : StartProject(j, p)
  <2>1. PICK p \in job.todo :
          /\ job.pc = "next"
          /\ jobs' = [jobs EXCEPT ![j] =
               [Request(job, "create") EXCEPT !.todo = job.todo \ {p}, !.project = p]]
    BY <1>1, <1>5 DEF StartProject, Become
  <2> QED BY <1>1, <2>1, LoopIsNearer
<1>6. CASE Build(j)
  <2>1. PICK b \in Builds :
          jobs' = [jobs EXCEPT ![j] =
            [job EXCEPT !.pc = "upload", !.builds = [job.builds EXCEPT ![job.project] = b]]]
    BY <1>1, <1>6 DEF Build, Become
  <2>2. job.pc = "build" BY <1>1, <1>6 DEF Build
  <2> QED BY <1>1, <2>1, <2>2, BuildIsNearer
<1>7. CASE BuildBreaks(j) \/ SubmitBreaks(j)
  <2>1. job.pc \in {"build", "upload"}
        /\ jobs' = [jobs EXCEPT ![j] = ProjectEnds(job, "error", FALSE)]
    BY <1>1, <1>7 DEF BuildBreaks, SubmitBreaks, Become
  <2> QED BY <1>1, <2>1, ProjectEndsNearer
<1>8. CASE ZipFails(j) \/ Upload(j) \/ UploadFails(j)
  <2>1. PICK kind :
          /\ jobs' = [jobs EXCEPT ![j] = Request(job, kind)]
          /\ \/ job.pc = "upload" /\ kind = "import"
             \/ job.pc \in {"build", "upload", "import"} /\ kind = "fail"
    BY <1>1, <1>8 DEF ZipFails, Upload, UploadFails, Become
  <2> QED BY <1>1, <2>1, RequestIsNearer
<1>9. CASE Send(j)
  <2>1. /\ job.pc \in Requests /\ job.try < MaxTries /\ ~job.waiting
        /\ jobs' = [jobs EXCEPT ![j] = [job EXCEPT !.try = job.try + 1, !.waiting = TRUE]]
    BY <1>1, <1>9 DEF Send, Become
  <2> QED BY <1>1, <2>1, AttemptIsNearer
<1>10. CASE Retry(j)
  <2>1. /\ job.waiting /\ job.try < MaxTries
        /\ jobs' = [jobs EXCEPT ![j] = [job EXCEPT !.waiting = FALSE]]
    BY <1>1, <1>10 DEF Retry, Become
  <2>2. job.pc \in Requests BY <1>1, <2>1 DEF WellFormed
  <2> QED BY <1>1, <2>1, <2>2, AttemptIsNearer
<1>11. CASE RequestFails(j)
  <2>1. job.waiting /\ jobs' = [jobs EXCEPT ![j] = OnError(job)]
    BY <1>1, <1>11 DEF RequestFails, Become
  <2>2. job.pc \in Requests BY <1>1, <2>1 DEF WellFormed
  <2> QED BY <1>1, <2>1, <2>2, OnErrorIsNearer
<1> QED
  BY <1>2, <1>3, <1>4, <1>5, <1>6, <1>7, <1>8, <1>9, <1>10, <1>11 DEF Step

LEMMA OneIsNearer ==
  ASSUME Invariant, NEW j \in Jobs, NEW d, jobs' = [jobs EXCEPT ![j] = d],
         d = jobs[j] \/ Nearer(d, jobs[j])
  PROVE  JobsNearer
<1>1. jobs \in [Jobs -> Job] BY DEF Invariant, TypeOK
<1>2. jobs'[j] = d /\ \A i \in Jobs : i # j => jobs'[i] = jobs[i] BY <1>1
<1> QED BY <1>2 DEF JobsNearer

LEMMA AnswerIsNearer ==
  ASSUME Invariant, NEW c \in calls \cup writing, NEW d, Answer(c, d),
         Awaits(c) => Nearer(d, jobs[c.job])
  PROVE  JobsNearer
<1>1. c.job \in Jobs BY CallTyped
<1>2. CASE Awaits(c)
  <2>1. jobs' = [jobs EXCEPT ![c.job] = d] BY <1>2 DEF Answer
  <2> QED BY <1>1, <1>2, <2>1, OneIsNearer
<1>3. CASE ~Awaits(c)
  <2>1. jobs' = [jobs EXCEPT ![c.job] = jobs[c.job]] BY <1>3 DEF Answer
  <2> QED BY <1>1, <2>1, OneIsNearer
<1> QED BY <1>2, <1>3

LEMMA ServeIsNearer ==
  ASSUME Invariant, NEW c \in calls \cup writing,
         Serve(c) \/ (c \in writing /\ FailWrite(c))
  PROVE  JobsNearer
<1>1. PICK job \in Job : job = jobs[c.job] /\ WellFormed(job) BY CallTyped
<1>2. Awaits(c) => job.pc = c.kind BY <1>1 DEF Awaits
<1>3. c \in writing => c.kind = "fail" BY DEF Invariant, GoodCall
<1>4. CASE PlanRun(c)
  <2>1. PICK decisions : decisions = [p \in Projects |-> Decide(c.job, p)] OBVIOUS
  <2>2. decisions \in [Projects -> {"none", "build", "skip", "error"}]
    <3>1. \A p \in Projects : Decide(c.job, p) \in {"none", "build", "skip", "error"}
      BY DEF Decide
    <3> QED BY <2>1, <3>1
  <2>3. c.kind = "plan" /\ Answer(c, [job EXCEPT !.pc = "next", !.try = 0, !.waiting = FALSE,
                                                 !.decisions = decisions])
    BY <1>1, <1>4, <2>1 DEF PlanRun
  <2> QED BY <1>1, <1>2, <2>2, <2>3, AnsweredIsNearer, AnswerIsNearer
<1>5. CASE CreateBoardRun(c)
  <2>1. c.kind = "create"
        /\ Answer(c, [job EXCEPT !.pc = "build", !.try = 0, !.waiting = FALSE])
    BY <1>1, <1>5 DEF CreateBoardRun
  <2> QED BY <1>1, <1>2, <2>1, AnsweredIsNearer, AnswerIsNearer
<1>6. CASE CreateSettled(c) \/ ImportArtifactBundle(c) \/ ImportAgain(c)
           \/ FailSettled(c) \/ (c \in writing /\ FailWrite(c))
  <2>1. PICK result \in {"success", "error"}, checks \in BOOLEAN :
          Answer(c, ProjectEnds(job, result, checks))
    <3>1. ChecksFailed(job.builds[job.project], Gates) \in BOOLEAN BY DEF ChecksFailed
    <3> QED
      BY <1>1, <1>6, <3>1
      DEF CreateSettled, ImportArtifactBundle, ImportAgain, FailSettled, FailWrite, Submitted
  <2>2. c.kind \in {"create", "import", "fail"}
    BY <1>3, <1>6 DEF CreateSettled, ImportArtifactBundle, ImportAgain, FailSettled
  <2> QED BY <1>1, <1>2, <2>1, <2>2, ProjectEndsNearer, AnswerIsNearer
<1>7. CASE ImportRefused(c)
  <2>1. c.kind = "import" /\ Answer(c, OnError(job)) BY <1>1, <1>7 DEF ImportRefused
  <2> QED BY <1>1, <1>2, <2>1, OnErrorIsNearer, AnswerIsNearer DEF Requests
<1>8. CASE FailRead(c) BY <1>8 DEF FailRead, JobsNearer
<1> QED BY <1>4, <1>5, <1>6, <1>7, <1>8 DEF Serve

LEMMA NextIsNearer ==
  Invariant /\ [Next]_vars => JobsNearer
<1> SUFFICES ASSUME Invariant, [Next]_vars PROVE JobsNearer OBVIOUS
<1>1. CASE \E j \in Jobs : Step(j) \/ Kill(j)
  <2>1. PICK j \in Jobs : Step(j) \/ Kill(j) BY <1>1
  <2>2. PICK d : jobs' = [jobs EXCEPT ![j] = d] /\ Nearer(d, jobs[j])
    BY <2>1, StepIsNearer
  <2> QED BY <2>2, OneIsNearer
<1>2. CASE \E c \in calls : Serve(c) BY <1>2, ServeIsNearer
<1>3. CASE \E c \in writing : FailWrite(c) BY <1>3, ServeIsNearer
<1>4. CASE UNCHANGED jobs BY <1>4 DEF JobsNearer
<1> QED
  BY <1>1, <1>2, <1>3, <1>4
  DEF Next, vars, Drop, FailDropped, Work, Publish, GiveUp, TimeOut

(* A job cannot get stuck in a request: one that it does not wait for has an *)
(* attempt left, and one that it waits for can fail (ApiClient::request).    *)
NeverStuck == \A j \in Jobs : HasTries(jobs[j])

THEOREM RequestsEnd == Spec => []NeverStuck
<1>1. Init => NeverStuck
  <2> SUFFICES ASSUME Init, NEW j \in Jobs PROVE jobs[j].pc \notin Requests
    BY DEF NeverStuck, HasTries
  <2>1. PICK event, mode, key, dirs, trees : jobs[j] = NewJob(event, mode, key, dirs, trees)
    BY DEF Init
  <2> QED BY <2>1 DEF NewJob, Requests
<1>2. Invariant /\ NeverStuck /\ [Next]_vars => NeverStuck'
  BY NextIsNearer DEF NeverStuck, JobsNearer, Nearer, HasTries
<1> QED BY <1>1, <1>2, InvariantHolds, PTL DEF Spec

ComesNearer(j) ==
  /\ StepsLeft(jobs[j]) \in Nat
  /\ jobs'[j] = jobs[j] \/ StepsLeft(jobs'[j]) < StepsLeft(jobs[j])
  /\ Step(j) => StepsLeft(jobs'[j]) < StepsLeft(jobs[j])

(* Whatever the API answers, and however often: with each of its own steps,  *)
(* and with each answer it gets, a job comes nearer its end, and no step of  *)
(* another job, of the API or of the worker takes it back. StepsLeft is a    *)
(* natural number, so that a job takes boundedly many steps: run visits each *)
(* project once, process_project and submit_bundle have no loop, and         *)
(* ApiClient::request makes at most max_retries attempts.                    *)
THEOREM JobsAdvanceToTheirEnd ==
  ASSUME IsFiniteSet(Projects)
  PROVE  Spec => [][\A j \in Jobs : ComesNearer(j)]_vars
<1>1. ASSUME Invariant, Next, NEW j \in Jobs PROVE ComesNearer(j)
  <2>1. jobs \in [Jobs -> Job] /\ jobs[j] \in Job BY <1>1 DEF Invariant, TypeOK
  <2>2. StepsLeft(jobs[j]) \in Nat
    <3>1. (2 * MaxTries + 2) * Stages(jobs[j]) \in Nat
      BY <2>1, StagesType, MaxTriesAssumption
    <3> QED BY <2>1, <3>1, AttemptsType, MaxTriesAssumption DEF StepsLeft
  <2>3. Nearer(jobs'[j], jobs[j]) => StepsLeft(jobs'[j]) < StepsLeft(jobs[j])
    BY <2>1, ForwardIsNearer DEF Nearer
  <2>4. jobs'[j] = jobs[j] \/ Nearer(jobs'[j], jobs[j])
    BY <1>1, NextIsNearer DEF JobsNearer
  <2>5. ASSUME Step(j) PROVE Nearer(jobs'[j], jobs[j])
    <3>1. PICK d : jobs' = [jobs EXCEPT ![j] = d] /\ Nearer(d, jobs[j])
      BY <1>1, <2>5, StepIsNearer
    <3> QED BY <2>1, <3>1
  <2> QED BY <2>2, <2>3, <2>4, <2>5 DEF ComesNearer
<1>2. Invariant /\ [Next]_vars => [\A j \in Jobs : ComesNearer(j)]_vars
  BY <1>1
<1> QED BY <1>2, InvariantHolds, PTL DEF Spec
=============================================================================
