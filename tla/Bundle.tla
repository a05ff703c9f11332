------------------------------- MODULE Bundle -------------------------------
(***************************************************************************)
(* The data that the action runner computes from a checkout and the worker *)
(* reads again: which directories are projects, what the exports of one    *)
(* project leave behind, which of it the manifest declares, what goes into *)
(* bundle.zip, and when extract_bundle takes that archive.                 *)
(*                                                                         *)
(* The staged name of an artifact and the path its manifest entry names    *)
(* are the same in the code, so an artifact type stands for both.          *)
(***************************************************************************)
EXTENDS Naturals, FiniteSets

-----------------------------------------------------------------------------
(* Discovery *)

(* What one directory with a .boardflow.yml looks like. "named" says that    *)
(* the file with the stem of the .kicad_pro exists, "count" how many files   *)
(* have the extension, "excluded" that an exclude pattern hides a required   *)
(* file, "dotted" that the path contains "..", "readable" that every file of *)
(* the tree can be hashed.                                                   *)
Candidates == [named : BOOLEAN, count : Nat]
Dir == [config : {"good", "unparsable", "unsupported"},
        pro : Nat, pcb : Candidates, sch : Candidates,
        excluded : BOOLEAN, dotted : BOOLEAN, readable : BOOLEAN]

(* resolve_pcb_file, resolve_root_schematic: the named file, or the only one. *)
Resolves(candidates) == candidates.named \/ candidates.count = 1

(* resolve_kicad_pro finds exactly one project file. *)
ResolvesPro(d) == d.pro = 1

(* parse_boardflow_yml and validate_schema_v1 *)
ConfigIsValid(d) == d.config = "good"

(* One turn of the loop of discover_and_validate; every other directory is   *)
(* counted as a detection error.                                             *)
Usable(d) ==
  /\ ConfigIsValid(d)
  /\ ResolvesPro(d)
  /\ Resolves(d.pcb) /\ Resolves(d.sch)
  /\ ~d.excluded

(* compute_tree_hash: two trees have one hash exactly when the files that no *)
(* pattern excludes have the same names and contents.                        *)
TreeHash(files, excludes) == [f \in DOMAIN files \ excludes |-> files[f]]

-----------------------------------------------------------------------------
(* One run of the exports *)

Reports == {"erc", "drc"}
Drawings == {"pcb_pdf", "schematic_pdf", "pcb_top_svg", "pcb_bottom_svg"}
Assembly == {"bom_csv", "position_csv", "render_top_png", "render_bottom_png"}
Archives == {"gerber_zip", "drill_zip", "fabrication_zip"}
Artifacts == Reports \cup Drawings \cup Assembly \cup Archives \cup {"ibom", "kicad"}
DiffFiles == {"file_hashes", "bom_summary", "checks_summary", "artifacts_summary", "previews"}

(* How a command or the writing of an archive may end: its exit code (5 is   *)
(* "violations"; "other" stands for every other code, a failed start and the *)
(* kill after the timeout) and the output file found afterwards.             *)
Ending == [exit : {"zero", "violations", "other"}, output : {"none", "empty", "full"}]
Commands == Reports \cup Drawings \cup Assembly \cup {"gerbers", "drill", "ibom"}

(* "garbled": the reports and the BOM that cannot be read back; "errors": the *)
(* reports with an actionable error; "hashable": the files can be hashed when *)
(* the diff is written; "dotted": a source file has ".." in its name;         *)
(* "large": the archive is larger than MAX_BUNDLE_SIZE.                       *)
Pipeline == [cmd : [Commands -> Ending], zip : [Archives -> Ending],
             garbled : SUBSET {"erc", "drc", "bom_csv"}, errors : SUBSET Reports,
             hashable : BOOLEAN, dotted : BOOLEAN, large : BOOLEAN]

(* KicadCli::exec with an output path, and without one. *)
Exports(e) == e.exit = "zero" /\ e.output = "full"
ExportsDirectory(e) == e.exit = "zero"

(* exec_erc_drc takes exit code 5 for success. *)
ReportsBack(e) == e.exit \in {"zero", "violations"} /\ e.output = "full"

(* The phases of run_artifact_pipeline: the artifacts each makes available. *)
MadeReports(b) == {a \in Reports : ReportsBack(b.cmd[a])}
MadeDrawings(b) == {a \in Drawings : Exports(b.cmd[a])}
MadeAssembly(b) == {a \in Assembly : Exports(b.cmd[a])}

(* An archive is written only after its export succeeded, the fabrication    *)
(* archive after one of the two did.                                         *)
ZipsAttempted(b) ==
  LET gerbers == ExportsDirectory(b.cmd["gerbers"])
      drill == ExportsDirectory(b.cmd["drill"])
  IN  {z \in Archives : \/ z = "gerber_zip" /\ gerbers
                        \/ z = "drill_zip" /\ drill
                        \/ z = "fabrication_zip" /\ (gerbers \/ drill)}

MadeArchives(b) == {z \in ZipsAttempted(b) : b.zip[z].exit = "zero"}

(* run_ibom fails without an .html file, empty or not. *)
MadeIbom(b) ==
  {a \in {"ibom"} : b.cmd["ibom"].exit = "zero" /\ b.cmd["ibom"].output # "none"}

(* Mutant: the fabrication archive counts as made when it was attempted. *)
AvailableUnwritten(b) ==
  MadeReports(b) \cup MadeDrawings(b) \cup ZipsAttempted(b) \cup MadeAssembly(b)
    \cup MadeIbom(b) \cup {"kicad"}

(* The artifacts that run_artifact_pipeline lists as available; the others   *)
(* are listed as failed. The sources are always there.                       *)
Available(b) ==
  MadeReports(b) \cup MadeDrawings(b) \cup MadeArchives(b) \cup MadeAssembly(b)
    \cup MadeIbom(b) \cup {"kicad"}

Failed(b) == Artifacts \ Available(b)

(* checks_failed: a gate is closed by exit code 5. *)
ChecksFailed(b, gates) == \E a \in gates \cap MadeReports(b) : b.cmd[a].exit = "violations"

-----------------------------------------------------------------------------
(* Manifest and archive *)

(* Whether a file of an artifact is in the output directory. File::create    *)
(* comes first when an archive is written.                                   *)
Written(b, a) ==
  CASE a \in Archives -> a \in ZipsAttempted(b) /\ b.zip[a].output # "none"
    [] a = "kicad" -> TRUE
    [] OTHER -> b.cmd[a].output # "none"

WritesFileHashes(b) == b.hashable
WritesBomSummary(b) == Written(b, "bom_csv") => "bom_csv" \notin b.garbled

(* Unlike a report that does not parse, one that is no text is an error; the *)
(* model takes "garbled" for the latter.                                     *)
WritesChecksSummary(b) == \A a \in Reports : Written(b, a) => a \notin b.garbled

(* The files under diff/ after build_diff_and_manifest, which ignores the    *)
(* errors of the generators; two of them have none.                          *)
Diff(b) ==
  {f \in DiffFiles : /\ f = "file_hashes" => WritesFileHashes(b)
                     /\ f = "bom_summary" => WritesBomSummary(b)
                     /\ f = "checks_summary" => WritesChecksSummary(b)}

(* build_manifest_checks: what the run page shows for a check. It looks at   *)
(* the report, not at how the command ended.                                 *)
CheckStatus(b, a) ==
  CASE ~Written(b, a) \/ a \in b.garbled \/ b.cmd[a].output = "empty" -> "skipped"
    [] OTHER -> IF a \in b.errors THEN "failed" ELSE "passed"

(* create_manifest: an entry has a source_path exactly when it is available. *)
Manifest(b) ==
  [available |-> Available(b), failed |-> Failed(b), diff |-> Diff(b),
   checks |-> [a \in Reports |-> CheckStatus(b, a)]]

(* build_staging_dir: whatever is in the output directory is copied, whether *)
(* its export succeeded or not.                                              *)
Staged(b) == {a \in Artifacts : Written(b, a)} \cup Diff(b) \cup {"manifest"}

(* extract_bundle *)
Declared(m) == m.available \cup m.diff \cup {"manifest"}
PathsAreSafe(b) == ~b.dotted

Accepts(b, manifest, entries) ==
  /\ ~b.large
  /\ "manifest" \in entries
  /\ PathsAreSafe(b)
  /\ manifest.available \subseteq entries
  /\ entries \subseteq Declared(manifest)

Importable(b) == Accepts(b, Manifest(b), Staged(b))

(* An artifact listed as failed whose file was copied all the same. *)
Leftover(b) == {a \in Failed(b) : Written(b, a)}

(* What the model assumes of the file system: a command that made its output *)
(* left it there, and an archive that was finished exists.                   *)
Plausible(b) == \A z \in Archives : b.zip[z].exit = "zero" => b.zip[z].output = "full"
=============================================================================
