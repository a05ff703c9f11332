--------------------------- MODULE MCActionRunner ---------------------------
(* Small instances of ActionRunner for TLC. *)
EXTENDS ActionRunner

CONSTANTS j1, j2, p1, p2, k1, k2

(* The files of a project directory: the board, and one that is excluded. *)
Tree(board, lock) == [f \in {"board", "lock"} |-> IF f = "board" THEN board ELSE lock]
MCTrees == {Tree(1, 1), Tree(1, 2), Tree(2, 1)}
MCExcludes == {"lock"}

Named == [named |-> TRUE, count |-> 1]
Good == [config |-> "good", pro |-> 1, pcb |-> Named, sch |-> Named,
         excluded |-> FALSE, dotted |-> FALSE, readable |-> TRUE]

Unreadable == [Good EXCEPT !.readable = FALSE]

(* A directory that is fine, one that is not, one whose tree cannot be       *)
(* hashed and one whose path the API refuses.                                *)
MCDirs == {Good,
           [Good EXCEPT !.sch = [named |-> FALSE, count |-> 2]],
           Unreadable,
           [Good EXCEPT !.dotted = TRUE]}

Done == [exit |-> "zero", output |-> "full"]
Crash == [exit |-> "other", output |-> "none"]
AllGood == [cmd |-> [c \in Commands |-> Done], zip |-> [z \in Archives |-> Done],
            garbled |-> {}, errors |-> {}, hashable |-> TRUE, dotted |-> FALSE,
            large |-> FALSE]

(* Nothing failed; the checks found something, and a drawing, the gerbers    *)
(* and the fabrication archive failed.                                       *)
Partial == [AllGood EXCEPT
              !.cmd = [c \in Commands |->
                         CASE c = "erc" -> [exit |-> "violations", output |-> "full"]
                           [] c \in {"pcb_pdf", "gerbers"} -> Crash
                           [] OTHER -> Done],
              !.zip = [z \in Archives |-> IF z = "fabrication_zip" THEN Crash ELSE Done],
              !.garbled = {"drc"}]
MCBuilds == {AllGood, Partial}
MCGates == {"erc"}

(* The command for a drawing was killed after it had begun to write. *)
HalfWritten == [AllGood EXCEPT
                  !.cmd = [@ EXCEPT !["pcb_pdf"] = [exit |-> "other", output |-> "full"]]]
LeftoverBuilds == {AllGood, HalfWritten}

(* Two jobs build one project, of one attempt or of two, or one job builds   *)
(* two projects.                                                             *)
None2 == [p \in Projects |-> None]
One(dir) == [p \in Projects |-> IF p = p1 THEN dir ELSE None]
Same(tree) == [p \in Projects |-> tree]

SharedInit ==
  /\ \E job \in {NewJob("push", "auto", k1, One(Good), Same(Tree(1, 1))),
                 NewJob("push", "auto", k2, One(Good), Same(Tree(1, 2))),
                 NewJob("push", "all", k2, One(Good), Same(Tree(2, 1)))} :
       jobs = [j \in Jobs |->
                 IF j = j1 THEN NewJob("push", "auto", k1, One(Good), Same(Tree(1, 1)))
                           ELSE job]
  /\ NoRuns

AloneInit ==
  /\ \E dir \in Dirs, other \in {Good, Unreadable} :
       jobs = [j \in Jobs |->
                 IF j = j1 THEN NewJob("push", "auto", k1, [One(dir) EXCEPT ![p2] = other],
                                       Same(Tree(1, 1)))
                           ELSE NewJob(IF other = Good THEN "push" ELSE "pull_request", "auto",
                                       k2, None2, Same(Tree(1, 1)))]
  /\ NoRuns

(* At most MaxTroubles of: a request sent again or lost, a handler dropped, a *)
(* command, an upload, an import or a job that fails. An error of a request  *)
(* is always possible, so that a job never waits for good.                   *)
CONSTANT MaxTroubles
VARIABLE troubles

Trouble ==
  \/ \E c \in calls : Drop(c)
  \/ \E c \in writing : FailDropped(c)
  \/ \E j \in Jobs : \/ Retry(j) \/ Kill(j)
                     \/ BuildBreaks(j) \/ ZipFails(j) \/ UploadFails(j) \/ SubmitBreaks(j)
  \/ \E r \in Runs : GiveUp(r) \/ TimeOut(r)

Works ==
  \/ \E j \in Jobs :
       \/ SkipEvent(j) \/ NothingFound(j) \/ Discover(j)
       \/ \E p \in Projects : SkipProject(j, p) \/ StartProject(j, p)
       \/ Finish(j) \/ Build(j) \/ Upload(j)
       \/ Send(j) \/ RequestFails(j)
  \/ \E c \in calls : Serve(c)
  \/ \E c \in writing : FailWrite(c)
  \/ \E r \in Runs : Publish(r)

FewInit == (SharedInit \/ AloneInit) /\ troubles = 0
FewNext ==
  \/ Works /\ UNCHANGED troubles
  \/ troubles < MaxTroubles /\ Trouble /\ troubles' = troubles + 1
FewSpec == FewInit /\ [][FewNext]_<<vars, troubles>> /\ Fairness
=============================================================================
