------------------------------ MODULE Analysis ------------------------------
(***************************************************************************)
(* The offline analysis, from its input to a workspace that other commands *)
(* open (Service.Analyze, openWorkspace).  Lines are taken, rejected or    *)
(* skipped; the aggregates go to the database (Aggregation); reports,      *)
(* database and at last the manifest are published.  Any step may fail,    *)
(* which is recorded in the database, and the process may die at any time. *)
(* A reader opens the workspace meanwhile, or afterwards.                  *)
(*                                                                         *)
(* The output directory is created by the analysis and used by nobody else;*)
(* SQLite is taken to commit a transaction or to leave everything as it    *)
(* was, and to have side files while the database is open.                 *)
(***************************************************************************)
EXTENDS Aggregation, FiniteSetsExt

CONSTANTS
  NoData,
  Sources,      \* number of input sources
  MaxRejected,  \* rejected lines that are tolerated
  MaxLines,     \* bound: lines of a source
  ClientKeyOf,  \* the client key of a subject, without its user agent
  Suspect,      \* subjects without a claim whose behaviour reaches the score
  AutomationMinRequests

ASSUME AnalysisAssumption ==
  /\ Sources \in Nat \ {0} /\ {MaxRejected, MaxLines} \subseteq Nat
  /\ DOMAIN ClientKeyOf = Client /\ Suspect \subseteq Client
  /\ AutomationMinRequests \in Nat \ {0}

VARIABLES
  pc,           \* where Analyze is
  lines,        \* counters of the current source
  total,        \* counters of the analysis
  sourceFiles,  \* rows of source_files: the counters of the sources completed
  status,       \* analyses.status, "none" before there is a row
  findings,     \* whether the findings are in the database
  sideFiles,    \* whether SQLite has a WAL or shared memory file
  data,         \* the report data, which report.json and report.html show
  hashes,       \* what the manifest says of the database and the reports
  temporary,    \* files whose temporary name exists
  entries,      \* files whose name exists
  reader,       \* where openWorkspace is
  residue,      \* temporary names the reader has found and not looked at
  late          \* history: the reader began after the analysis was done

publication ==
  <<pc, lines, total, sourceFiles, status, findings, sideFiles, data, hashes, temporary, entries>>
reading == <<reader, residue, late>>
vars == <<aggregation, publication, reading>>

File == {"report.json", "report.html", "manifest.json"}

(* Fault: the report data are read before the last batch is flushed. *)
OrderLoadingEarly ==
  <<"load", "finish", "findings", "report.json", "report.html", "complete", "optimize",
    "checkpoint", "close", "inspect", "manifest.json", "done">>

(* What Analyze does after the last source, in this order. *)
Order ==
  <<"finish", "load", "findings", "report.json", "report.html", "complete", "optimize",
    "checkpoint", "close", "inspect", "manifest.json", "done">>

Steps == {Order[i] : i \in 1 .. Len(Order)}
After(step) == Order[1 + CHOOSE i \in 1 .. Len(Order) - 1 : Order[i] = step]

Counters == [accepted : Nat, rejected : Nat, skipped : Nat]
Zero == [accepted |-> 0, rejected |-> 0, skipped |-> 0]
Lines(counters) == counters.accepted + counters.rejected + counters.skipped

(* What a reader of a file finds at its name.                               *)
Readable(file) == file \in entries

(* The content of the database, and of the reports. *)
Database == <<status, sourceFiles, findings, stored, storedSketches>>
ReportData == [tables |-> stored, sketches |-> storedSketches, overflow |-> overflow, total |-> total]
Digests == [database |-> Database, reports |-> data]

AnalysisTypeOK ==
  /\ TypeOK
  /\ pc \in Steps \cup {"open", "create", "lines", "failed", "crashed"}
  /\ {lines, total} \subseteq Counters
  /\ sourceFiles \in Seq(Counters) /\ Len(sourceFiles) <= Sources
  /\ status \in {"none", "running", "completed", "failed", "canceled"}
  /\ {findings, sideFiles, late} \subseteq BOOLEAN
  /\ temporary \subseteq File /\ entries \subseteq File
  /\ reader \in {"idle", "residue", "hash", "verify", "side files", "opened", "refused"}
  /\ residue \subseteq File
  /\ total.rejected <= MaxRejected

Init ==
  /\ AggregationInit
  /\ pc = "open" /\ lines = Zero /\ total = Zero /\ sourceFiles = << >>
  /\ status = "none" /\ findings = FALSE /\ sideFiles = FALSE
  /\ data = NoData /\ hashes = NoData
  /\ temporary = {} /\ entries = {}
  /\ reader = "idle" /\ residue = {} /\ late = FALSE

-----------------------------------------------------------------------------
(* The analysis up to its last line *)

(* sqlite.Open and Migrate *)
Open ==
  /\ pc = "open"
  /\ sideFiles' = TRUE
  /\ pc' = "create"
  /\ UNCHANGED <<aggregation, lines, total, sourceFiles, status, findings, data, hashes,
                 temporary, entries, reading>>

CreateAnalysis ==
  /\ pc = "create"
  /\ status' = "running"
  /\ pc' = "lines"
  /\ UNCHANGED <<aggregation, lines, total, sourceFiles, findings, sideFiles, data, hashes,
                 temporary, entries, reading>>

Line(kind) ==
  /\ pc = "lines"
  /\ Lines(lines) < MaxLines
  /\ lines' = [lines EXCEPT ![kind] = @ + 1]
  /\ total' = [total EXCEPT ![kind] = @ + 1]
  /\ UNCHANGED <<pc, sourceFiles, status, findings, sideFiles, data, hashes, temporary, entries,
                 reading>>

Accept(event) == Line("accepted") /\ Add(event)

(* parseLimitExceeded: with one more, the analysis fails. *)
Reject == total.rejected < MaxRejected /\ Line("rejected") /\ UNCHANGED aggregation

Skip == Line("skipped") /\ UNCHANGED aggregation

(* Store.CompleteSource: the row of the source gets its counters.           *)
SourcesAfter == Append(sourceFiles, lines)

CompleteSource ==
  /\ pc = "lines"
  /\ sourceFiles' = SourcesAfter
  /\ lines' = Zero
  /\ pc' = IF Len(sourceFiles') = Sources THEN Order[1] ELSE "lines"
  /\ UNCHANGED <<aggregation, total, status, findings, sideFiles, data, hashes, temporary,
                 entries, reading>>

-----------------------------------------------------------------------------
(* The steps after it *)

Step(step) == pc = step /\ pc' = After(step)

FinishAggregates ==
  /\ Step("finish")
  /\ Finish
  /\ UNCHANGED <<lines, total, sourceFiles, status, findings, sideFiles, data, hashes, temporary,
                 entries, reading>>

LoadReportData ==
  /\ Step("load")
  /\ data' = ReportData
  /\ UNCHANGED <<aggregation, lines, total, sourceFiles, status, findings, sideFiles, hashes,
                 temporary, entries, reading>>

(* loadSubjects *)
Subjects == {client \in Client : stored[<<"subject_stats", client>>] > 0}

(* automationFindings *)
Automation ==
  {client \in Subjects \cap Suspect :
     stored[<<"subject_stats", client>>] >= AutomationMinRequests}

(* FindingID of an automation finding *)
FindingID(client) == <<"automation_candidate", ClientKeyOf[client]>>

(* Detect: with two findings of one ID the analysis fails.  Findings of     *)
(* another kind are left out.                                               *)
Distinct ==
  \A one, other \in Automation : FindingID(one) = FindingID(other) => one = other

SaveFindings ==
  /\ Step("findings")
  /\ Distinct
  /\ findings' = TRUE
  /\ UNCHANGED <<aggregation, lines, total, sourceFiles, status, sideFiles, data, hashes,
                 temporary, entries, reading>>

StoredCells ==
  MapThenSumSet(LAMBDA key : stored[key], {key \in Key : key[1] = "traffic_cells"})

CompleteAnalysis ==
  /\ Step("complete")
  /\ status = "running"
  /\ StoredCells = total.accepted
  /\ status' = "completed"
  /\ UNCHANGED <<aggregation, lines, total, sourceFiles, findings, sideFiles, data, hashes,
                 temporary, entries, reading>>

(* Optimize, and the checkpoint that empties the WAL *)
Maintain ==
  /\ Step("optimize") \/ Step("checkpoint")
  /\ UNCHANGED <<aggregation, lines, total, sourceFiles, status, findings, sideFiles, data,
                 hashes, temporary, entries, reading>>

Close ==
  /\ Step("close")
  /\ sideFiles' = FALSE
  /\ UNCHANGED <<aggregation, lines, total, sourceFiles, status, findings, data, hashes,
                 temporary, entries, reading>>

InspectArtifacts ==
  /\ Step("inspect")
  /\ hashes' = Digests
  /\ UNCHANGED <<aggregation, lines, total, sourceFiles, status, findings, sideFiles, data,
                 temporary, entries, reading>>

(* WriteNew: a temporary file is written, linked to its name, and removed,  *)
(* which may fail and does not matter.                                      *)
WriteTemporary(file) ==
  /\ pc = file /\ file \notin temporary \cup entries
  /\ temporary' = temporary \cup {file}
  /\ UNCHANGED <<aggregation, pc, lines, total, sourceFiles, status, findings, sideFiles, data,
                 hashes, entries, reading>>

Link(file) ==
  /\ pc = file /\ file \in temporary \ entries
  /\ entries' = entries \cup {file}
  /\ UNCHANGED <<aggregation, pc, lines, total, sourceFiles, status, findings, sideFiles, data,
                 hashes, temporary, reading>>

RemoveTemporary(file) ==
  /\ Step(file) /\ file \in entries
  /\ temporary' \in {temporary, temporary \ {file}}
  /\ UNCHANGED <<aggregation, lines, total, sourceFiles, status, findings, sideFiles, data,
                 hashes, entries, reading>>

Working == pc \notin {"done", "failed", "crashed"}

(* A step fails or is canceled.  The temporary file it has is removed, the  *)
(* failure is recorded in a row that is still running, and the database is  *)
(* closed; each of these may fail, too.                                     *)
Fail ==
  /\ Working /\ pc \notin entries
  /\ pc' = "failed"
  /\ temporary' \in {temporary, temporary \ {pc}}
  /\ status' \in {status} \cup (IF status = "running" THEN {"failed", "canceled"} ELSE {})
  /\ sideFiles' \in {sideFiles, FALSE}
  /\ UNCHANGED <<aggregation, lines, total, sourceFiles, findings, data, hashes, entries, reading>>

Crash ==
  /\ Working
  /\ pc' = "crashed"
  /\ UNCHANGED <<aggregation, lines, total, sourceFiles, status, findings, sideFiles, data,
                 hashes, temporary, entries, reading>>

-----------------------------------------------------------------------------
(* openWorkspace, by any command and at any time *)

(* The manifest is read, the artifacts are there, the names are listed.     *)
List ==
  /\ reader = "idle"
  /\ Readable("manifest.json")
  /\ reader' = IF sideFiles THEN "refused" ELSE "residue"
  /\ residue' = temporary
  /\ late' = (pc = "done")
  /\ UNCHANGED <<aggregation, publication>>

(* Fault: no temporary name is expected in a workspace. *)
NeverRecognized(file) == FALSE

(* A temporary name is the link of a file that was published. *)
Recognized(file) == file \in temporary /\ file \in entries

LookAtResidue ==
  /\ reader = "residue"
  /\ IF residue = {}
     THEN reader' = "hash" /\ UNCHANGED residue
     ELSE \E file \in residue :
            /\ residue' = residue \ {file}
            /\ reader' = IF Recognized(file) THEN "residue" ELSE "refused"
  /\ UNCHANGED <<aggregation, publication, late>>

VerifyHashes ==
  /\ reader = "hash"
  /\ reader' = IF hashes = Digests THEN "verify" ELSE "refused"
  /\ UNCHANGED <<aggregation, publication, residue, late>>

VerifyCompleted ==
  /\ reader = "verify"
  /\ reader' = IF status = "completed" THEN "side files" ELSE "refused"
  /\ UNCHANGED <<aggregation, publication, residue, late>>

NoSideFiles ==
  /\ reader = "side files"
  /\ reader' = IF sideFiles THEN "refused" ELSE "opened"
  /\ UNCHANGED <<aggregation, publication, residue, late>>

CloseWorkspace ==
  /\ reader \in {"opened", "refused"}
  /\ reader' = "idle" /\ residue' = {} /\ late' = FALSE
  /\ UNCHANGED <<aggregation, publication>>

-----------------------------------------------------------------------------
Analyze ==
  \/ Open \/ CreateAnalysis
  \/ (\E event \in Event : Accept(event)) \/ Reject \/ Skip
  \/ CompleteSource
  \/ FinishAggregates \/ LoadReportData \/ SaveFindings \/ CompleteAnalysis
  \/ Maintain \/ Close \/ InspectArtifacts
  \/ \E file \in File : WriteTemporary(file) \/ Link(file) \/ RemoveTemporary(file)

OpenWorkspace ==
  \/ List \/ LookAtResidue \/ VerifyHashes \/ VerifyCompleted \/ NoSideFiles
  \/ CloseWorkspace

Next == Analyze \/ Fail \/ Crash \/ OpenWorkspace

Spec == Init /\ [][Next]_vars

-----------------------------------------------------------------------------
(* All there is to publish: the sources are taken, every event is in the    *)
(* tables of the database, and the reports show exactly these tables.       *)
Complete ==
  /\ status = "completed" /\ findings
  /\ Len(sourceFiles) = Sources
  /\ total.accepted = Len(taken)
  /\ memory = NoRows
  /\ data = ReportData

(* Every line of a completed source was counted once and in its source.     *)
SourcesAddUp ==
  \A kind \in DOMAIN total :
    total[kind] = MapThenSumSet(LAMBDA i : sourceFiles[i][kind], DOMAIN sourceFiles)

(* A workspace that a reader has opened is that of an analysis that took    *)
(* all its sources and published all of it, whatever failed or died         *)
(* (Analyze, openWorkspace).                                                *)
OpenedIsComplete == reader = "opened" => Complete /\ SourcesAddUp

(* Two findings never have the same ID, so that calculating them does not   *)
(* fail on any input (Detect, automationFindings).                          *)
FindingIDsDistinct == pc = "findings" => Distinct

(* Once the analysis has reported success its workspace can be opened, even *)
(* when temporary names could not be removed (openWorkspace).  A reader that *)
(* begins before may be refused: a name it has listed can be gone.          *)
PublishedOpens == reader = "refused" => ~late
=============================================================================
