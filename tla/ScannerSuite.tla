---------------------------- MODULE ScannerSuite ----------------------------
(***************************************************************************)
(* real-scan: run_real_scanner_suite and the adapters it calls.  One       *)
(* process takes a static snapshot, runs the requested scanners one after  *)
(* the other on it, bounds what they found, and removes the snapshot.  A   *)
(* scanner is an external program: it may be missing, hang until its       *)
(* timeout, exit with any code and write any report, and it or another     *)
(* process may change the snapshot directory meanwhile.  An adapter called *)
(* directly (args.direct) takes a snapshot of its own.                     *)
(***************************************************************************)
EXTENDS ScannerAdapters

CONSTANTS
    ArgSets,       \* the argument records real-scan or an adapter is called with
    Preflights,    \* answers of "<scanner> version"
    Scans,         \* [scanner -> answers of the scan command, with the report it wrote]
    EntryBytes,    \* bytes of an entry without findings and warnings
    FindingBytes,  \* bytes a finding adds to the compact report
    TextBytes,     \* bytes a warning or a limitation adds
    Stamps         \* lengths of generated_at: the placeholder's and those isoformat() gives

\* cli.py selects every scanner where none is named; an adapter is called for one scanner
ASSUME SuiteArguments ==
    \A a \in ArgSets :
        /\ a.scanners \in Seq(STRING) /\ a.scanners # <<>>
        /\ {a.direct, a.offline, a.fail_on_degraded} \subseteq BOOLEAN
        /\ {a.per_scanner, a.suite, a.bytes} \subseteq Int
        /\ a.direct => Len(a.scanners) = 1 /\ a.scanners[1] \in RealScanners

AnswerKinds == {"exit", "absent", "timeout", "raises"}

\* A version command that exits has a version class; a report that parses is a list of records; a Trivy record is of
\* the kind of the list it stands in
ASSUME ScannerAnswers ==
    /\ \A p \in Preflights : p.kind \in AnswerKinds /\ (p.kind = "exit" => p.version \in VersionStatuses)
    /\ \A s \in RealScanners : \A a \in Scans[s] :
        /\ a.kind \in AnswerKinds
        /\ a.kind = "exit" => a.code \in Int /\ a.report.file \in BOOLEAN
        /\ a.kind = "exit" /\ a.report.file /\ parse_report(s, a.report) # NULL =>
            LET records == parse_report(s, a.report)
            IN /\ records \in Seq(Range(records))
               /\ \A i \in DOMAIN records : {records[i].id, records[i].path} \subseteq Texts
               /\ s = "trivy" => \A i \in DOMAIN records : records[i].kind \in TrivyKinds

\* None is no exit code and not what a refused preflight returns
ASSUME NoneIsNoAnswer ==
    /\ NULL \notin {0, 1, 2}
    /\ \A s \in RealScanners, k \in {"git_commit", "filesystem"},
          e, r \in {"scanner_unavailable", "scanner_timeout", "timeout"} :
        Stopped(s, repo_commit_and_dirty_state(k), e, r) # NULL

VARIABLES
    args,          \* the call
    pc,
    snapshot,      \* "none", "refused", "git_commit" or "filesystem"
    changed,       \* history: NULL while the snapshot directory is what intake wrote, else when it was changed:
                   \* [turn, verified], the scanner whose turn it was and whether its adapter had verified it
    workspace,     \* "none", "present", "removed" or "left"
    version,       \* the current adapter's scanner version
    entries,       \* the report's entries so far
    limitations,
    status,        \* suite_status once it is decided
    stamp,         \* the length of the report's generated_at
    exit,          \* the exit code, or Raised for an adapter's caller
    ran            \* history: per entry what the scanner really did

vars == <<args, pc, snapshot, changed, workspace, version, entries, limitations, status, stamp, exit, ran>>

Raised == -1             \* no exit code: an exception
PlaceholderStamp == 25   \* len("2000-01-01T00:00:00+00:00")

Init ==
    /\ args \in ArgSets
    /\ pc = "arguments"
    /\ snapshot = "none"
    /\ changed = NULL
    /\ workspace = "none"
    /\ version = "unparseable"
    /\ entries = <<>>
    /\ limitations = {}
    /\ status = "none"
    /\ stamp = 0
    /\ exit = NULL
    /\ ran = <<>>

Current == args.scanners[Len(entries) + 1]
Scope == repo_commit_and_dirty_state(snapshot)
\* The findings the report keeps, each by its place, and suite_findings_used
Kept == UNION {{i} \X (1..entries[i].finding_count) : i \in DOMAIN entries}
Used == Cardinality(Kept)

(***************************************************************************)
(* Entries                                                                 *)
(***************************************************************************)
MinOf(a, b) == IF a < b THEN a ELSE b

truncate_normalized_result(result, keep) ==
    WithFindings(result, SubSeq(result.findings, 1, MinOf(keep, Len(result.findings))))

\* The summary of an entry is taken from the result: its outcome outlives the findings cut from it
entry_from_run_result(scanner, result, allowed) ==
    LET original == Len(result.normalized_result.findings)
        kept == MinOf(original, allowed)
        family == /\ scanner # "trivy"
                  /\ assess_scanner_version(result.normalized_result.version).status
                        = "compatible_family_unverified"
    IN [scanner |-> scanner, executed |-> result.scanner_executed, valid |-> result.valid,
        status |-> IF result.valid THEN "completed" ELSE "unknown",
        blocking_errors |-> result.blocking_errors,
        warnings |-> When(family, "scanner_version_compatible_family_unverified")
                     \cup When(kept < original, "finding_budget_exceeded"),
        outcome |-> result.normalized_result.outcome,
        normalized_result |-> truncate_normalized_result(result.normalized_result, kept),
        finding_count |-> kept, omitted |-> original - kept, truncated |-> kept < original]

suite_unknown_result(scanner, reason) ==
    Unknown(Result(scanner, "unparseable", NoScope, "unknown", FALSE, FALSE), reason)

UnscannedEntry(scanner, status_, reason, errors, warnings) ==
    [scanner |-> scanner, executed |-> FALSE, valid |-> FALSE, status |-> status_,
     blocking_errors |-> errors, warnings |-> warnings, outcome |-> "unknown",
     normalized_result |-> suite_unknown_result(scanner, reason),
     finding_count |-> 0, omitted |-> 0, truncated |-> FALSE]

skipped_offline_entry(scanner) ==
    UnscannedEntry(scanner, "skipped_offline", "skipped_offline", {}, {"scanner_skipped_offline"})

runner_error_entry(scanner) ==
    UnscannedEntry(scanner, "unknown", "runner_error", {"suite_runner_error"}, {})

entry_completed_without_degradation(e) ==
    /\ e.valid
    /\ e.status = "completed"
    /\ "scanner_version_compatible_family_unverified" \notin e.warnings

subject_from_entries == IF entries = <<>> THEN NoScope ELSE entries[1].normalized_result.scope

\* The next scanner, or the end of the loop; an adapter's own call has neither
Continue(next) ==
    IF Len(next) < Len(args.scanners) THEN "scanner" ELSE IF args.direct THEN "cleanup" ELSE "budget"

Append1(entry, did) ==
    /\ entries' = Append(entries, entry)
    /\ ran' = Append(ran, did)
    /\ pc' = Continue(entries')
    /\ version' = "unparseable"

Nothing == [started |-> FALSE, code |-> NULL, report |-> NULL,
            version |-> "unparseable", records |-> <<>>]

\* Mutant: the suite budget is checked against each scanner alone
Finished_NoSuiteBudget(result, did) ==
    /\ Append1(entry_from_run_result(Current, result, args.per_scanner), did)
    /\ UNCHANGED limitations

\* An adapter has returned: its findings are bounded by what the suite has left
Finished(result, did) ==
    LET original == Len(result.normalized_result.findings)
        remaining == IF args.suite > Used THEN args.suite - Used ELSE 0
        allowed == IF args.direct THEN original ELSE MinOf(args.per_scanner, remaining)
    IN /\ Append1(entry_from_run_result(Current, result, allowed), did)
       /\ limitations' = limitations
            \cup When(~args.direct /\ original > args.per_scanner, "per_scanner_finding_budget_exceeded")
            \cup When(~args.direct /\ original > remaining, "suite_finding_budget_exceeded")

\* An exception left the adapter: the suite records it and goes on, a direct caller gets it
Escaped(did) ==
    IF args.direct
    THEN /\ pc' = "cleanup" /\ exit' = Raised
         /\ UNCHANGED <<version, entries, ran, limitations>>
    ELSE /\ Append1(runner_error_entry(Current), did)
         /\ UNCHANGED <<limitations, exit>>

(***************************************************************************)
(* Steps                                                                   *)
(***************************************************************************)
\* cli.py refuses a budget that is not positive before anything is created
RejectArguments ==
    /\ pc = "arguments"
    /\ ~args.direct
    /\ \E n \in {args.per_scanner, args.suite, args.bytes} : n <= 0
    /\ pc' = "done"
    /\ exit' = 2
    /\ UNCHANGED <<args, snapshot, changed, workspace, version, entries, limitations, status, stamp, ran>>

\* create_static_scan_snapshot: a clean commit, a dirty or plain tree, or a refusal
Intake ==
    /\ pc = "arguments"
    /\ args.direct \/ \A n \in {args.per_scanner, args.suite, args.bytes} : n > 0
    /\ snapshot' \in {"git_commit", "filesystem", "refused"}
    /\ workspace' = "present"
    /\ pc' = "snapshot"
    /\ UNCHANGED <<args, changed, version, entries, limitations, status, stamp, exit, ran>>

\* A refused target is a usage error of the suite and an unknown result of an adapter
Refused ==
    /\ pc = "snapshot"
    /\ snapshot = "refused"
    /\ pc' = "cleanup"
    /\ IF args.direct
       THEN /\ entries' = <<entry_from_run_result(Current, snapshot_intake_refused(Current), 0)>>
            /\ ran' = <<Nothing>>
            /\ UNCHANGED exit
       ELSE exit' = 2 /\ UNCHANGED <<entries, ran>>
    /\ UNCHANGED <<args, snapshot, changed, workspace, version, limitations, status, stamp>>

\* The suite refuses a name it does not know; the snapshot exists by then
CheckScanners ==
    /\ pc = "snapshot"
    /\ snapshot # "refused"
    /\ IF Range(args.scanners) \subseteq RealScanners
       THEN pc' = Continue(<<>>) /\ UNCHANGED exit
       ELSE pc' = "cleanup" /\ exit' = 2
    /\ UNCHANGED <<args, snapshot, changed, workspace, version, entries, limitations, status, stamp, ran>>

SkipOffline ==
    /\ pc = "scanner"
    /\ args.offline
    /\ Current \in NetworkScanners
    /\ Append1(skipped_offline_entry(Current), Nothing)
    /\ UNCHANGED <<args, snapshot, changed, workspace, limitations, status, stamp, exit>>

\* Mutant: only the first adapter verifies the snapshot
VerifySnapshot_Once ==
    /\ pc = "scanner"
    /\ ~(args.offline /\ Current \in NetworkScanners)
    /\ IF changed = NULL \/ entries # <<>>
       THEN pc' = "preflight" /\ UNCHANGED <<version, entries, limitations, ran>>
       ELSE Finished(snapshot_intake_refused(Current), Nothing)
    /\ UNCHANGED <<args, snapshot, changed, workspace, status, stamp, exit>>

\* Each adapter verifies the snapshot again before it runs its scanner
VerifySnapshot ==
    /\ pc = "scanner"
    /\ ~(args.offline /\ Current \in NetworkScanners)
    /\ IF changed = NULL THEN pc' = "preflight" /\ UNCHANGED <<version, entries, limitations, ran>>
       ELSE Finished(snapshot_intake_refused(Current), Nothing)
    /\ UNCHANGED <<args, snapshot, changed, workspace, status, stamp, exit>>

RunPreflight(answer) ==
    /\ pc = "preflight"
    /\ IF answer.kind = "raises"
       THEN Escaped(Nothing)
       ELSE LET stopped == preflight(Current, Scope, answer)
            IN IF stopped = NULL
               THEN /\ pc' = "scan" /\ version' = answer.version
                    /\ UNCHANGED <<entries, limitations, exit, ran>>
               ELSE Finished(stopped, Nothing) /\ UNCHANGED exit
    /\ UNCHANGED <<args, snapshot, changed, workspace, status, stamp>>

\* What the scan did, kept beside the entry made of it
Did(answer) ==
    LET records == IF answer.kind = "exit" /\ answer.report.file
                   THEN parse_report(Current, answer.report) ELSE NULL
    IN [started |-> answer.kind # "absent", version |-> version,
        code |-> IF answer.kind = "exit" THEN answer.code ELSE NULL,
        report |-> IF answer.kind = "exit" THEN answer.report ELSE NULL,
        records |-> IF records = NULL THEN <<>>
                    ELSE [i \in DOMAIN records |-> normalized_finding(Current, records[i])]]

RunScan(answer) ==
    /\ pc = "scan"
    /\ LET result == scan_pipeline(Current, version, Scope, answer)
       IN IF result = NULL THEN Escaped(Did(answer))
          ELSE Finished(result, Did(answer)) /\ UNCHANGED exit
    /\ UNCHANGED <<args, snapshot, changed, workspace, status, stamp>>

(***************************************************************************)
(* The byte budget                                                         *)
(***************************************************************************)
\* _report_json_size, by the parts of the report that vary
ReportSize(stamp_, extra) ==
    stamp_ + EntryBytes * Len(entries) + FindingBytes * Used
    + TextBytes * (Cardinality(UNION {{i} \X entries[i].warnings : i \in DOMAIN entries})
                   + Cardinality(limitations) + extra)

SuiteStatus == IF \A i \in DOMAIN entries : entry_completed_without_degradation(entries[i])
               THEN "completed" ELSE "degraded"

\* The status and the limitations the loop left; a report that fits is kept as it is
MeasureReport ==
    /\ pc = "budget"
    /\ status' = SuiteStatus
    /\ limitations' = limitations
        \cup When(status' = "degraded", "suite_degraded_requires_review")
        \cup When(\E i \in DOMAIN entries : entries[i].status = "skipped_offline",
                  "offline_network_scanners_skipped")
    /\ pc' = "measure"
    /\ UNCHANGED <<args, snapshot, changed, workspace, version, entries, stamp, exit, ran>>

FitsBudget ==
    /\ pc = "measure"
    /\ pc' = IF ReportSize(PlaceholderStamp, 0) <= args.bytes THEN "emit" ELSE "shrink"
    /\ UNCHANGED <<args, snapshot, changed, workspace, version, entries, limitations, status, stamp, exit, ran>>

\* Mutant: one step of the loop changes nothing
truncate_entry_Stuck(e) == [e EXCEPT !.warnings = @ \cup {"report_byte_budget_exceeded"}, !.truncated = TRUE]

truncate_entry(e) ==
    [e EXCEPT !.warnings = @ \cup {"report_byte_budget_exceeded"}, !.finding_count = @ - 1,
              !.normalized_result = truncate_normalized_result(@, e.finding_count - 1),
              !.omitted = @ + 1, !.truncated = TRUE]

\* _apply_report_byte_budget drops the last finding of the last entry that has one
ShrinkReport ==
    /\ pc = "shrink"
    /\ IF ReportSize(PlaceholderStamp, 2) <= args.bytes
       THEN pc' = "over" /\ UNCHANGED entries
       ELSE LET candidates == {i \in DOMAIN entries : entries[i].finding_count > 0}
            IN IF candidates # {}
               THEN LET last == CHOOSE i \in candidates : \A j \in candidates : j <= i
                    IN entries' = [entries EXCEPT ![last] = truncate_entry(@)] /\ UNCHANGED pc
               ELSE /\ entries' = IF entries = <<>> THEN entries
                                  ELSE [entries EXCEPT ![1].truncated = TRUE,
                                          ![1].warnings = @ \cup {"report_byte_budget_exceeded"}]
                    /\ pc' = "over"
    /\ UNCHANGED <<args, snapshot, changed, workspace, version, limitations, status, stamp, exit, ran>>

OverBudget ==
    /\ pc = "over"
    /\ limitations' = limitations \cup {"report_byte_budget_exceeded", "report_truncated"}
    /\ status' = "degraded"
    /\ pc' = "emit"
    /\ UNCHANGED <<args, snapshot, changed, workspace, version, entries, stamp, exit, ran>>

\* The report is stamped, and its status is the exit code under --fail-on-degraded
EmitReport ==
    /\ pc = "emit"
    /\ stamp' \in Stamps
    /\ status' = IF \E i \in DOMAIN entries : entries[i].truncated THEN "degraded" ELSE status
    /\ exit' = IF args.fail_on_degraded /\ status' = "degraded" THEN 1 ELSE 0
    /\ pc' = "cleanup"
    /\ UNCHANGED <<args, snapshot, changed, workspace, version, entries, limitations, ran>>

\* The finally clause of whoever took the snapshot: an OSError of the removal is swallowed
Cleanup ==
    /\ pc = "cleanup"
    /\ workspace' \in {"removed", "left"}
    /\ pc' = "done"
    /\ UNCHANGED <<args, snapshot, changed, version, entries, limitations, status, stamp, exit, ran>>

\* A scanner, or another process of the same user, changes the snapshot directory
ChangeSnapshot ==
    /\ workspace = "present"
    /\ changed = NULL
    /\ changed' = [turn |-> Len(entries) + 1, verified |-> pc \in {"preflight", "scan"}]
    /\ UNCHANGED <<args, pc, snapshot, workspace, version, entries, limitations, status, stamp, exit, ran>>

Finish == pc = "done" /\ UNCHANGED vars

Program ==
    \/ RejectArguments
    \/ Intake
    \/ Refused
    \/ CheckScanners
    \/ SkipOffline
    \/ VerifySnapshot
    \/ \E answer \in Preflights : RunPreflight(answer)
    \/ pc = "scan" /\ \E answer \in Scans[Current] : RunScan(answer)
    \/ MeasureReport
    \/ FitsBudget
    \/ ShrinkReport
    \/ OverBudget
    \/ EmitReport
    \/ Cleanup

Next == Program \/ ChangeSnapshot \/ Finish

\* Every step is the program's own: a scanner that hangs is ended by its timeout
Spec == Init /\ [][Next]_vars /\ WF_vars(Program)

(***************************************************************************)
(* Properties                                                              *)
(***************************************************************************)
TypeOK ==
    /\ args \in ArgSets
    /\ pc \in {"arguments", "snapshot", "scanner", "preflight", "scan", "budget", "measure",
               "shrink", "over", "emit", "cleanup", "done"}
    /\ snapshot \in {"none", "refused", "git_commit", "filesystem"}
    /\ changed # NULL => changed.turn \in Nat /\ changed.verified \in BOOLEAN
    /\ workspace \in {"none", "present", "removed", "left"}
    /\ version \in VersionStatuses
    /\ status \in {"none", "completed", "degraded"}
    /\ stamp \in Stamps \cup {0}
    /\ exit \in {NULL, 0, 1, 2, Raised}
    /\ Len(ran) = Len(entries)
    /\ \A i \in DOMAIN entries : entries[i].finding_count \in Nat /\ entries[i].omitted \in Nat

Reported == pc = "done" /\ status # "none"

\* run_real_scanner_suite: whatever fails, a report has one entry for every
\* requested scanner, in the order they were asked for.
OneEntryEach == Reported => [i \in DOMAIN entries |-> entries[i].scanner] = args.scanners

\* _entry_from_run_result and _truncate_entry: through both finding budgets and
\* the byte budget, the findings an entry keeps and those it says were omitted
\* are together the findings of its scanner, and no budget is exceeded.
FindingsAccounted ==
    /\ \A i \in DOMAIN entries :
        /\ entries[i].finding_count = Len(entries[i].normalized_result.findings)
        /\ entries[i].finding_count + entries[i].omitted
            = IF entries[i].outcome = "findings_present" THEN Len(ran[i].records) ELSE 0
        /\ ~args.direct => entries[i].finding_count <= args.per_scanner
    /\ ~args.direct /\ entries # <<>> => Used <= args.suite

\* The adapters: a valid entry without findings comes from a scanner that was started on the snapshot of a clean
\* commit, exited with 0 and wrote an empty, readable report.
QuietMeansScanned ==
    \A i \in DOMAIN entries :
        entries[i].valid /\ entries[i].outcome = NoFindings =>
            /\ entries[i].executed /\ ran[i].started
            /\ ran[i].code = 0
            /\ ran[i].records = <<>>
            /\ snapshot = "git_commit"

\* real-scan --fail-on-degraded: exit code 0 means that every requested scanner ran
\* and that the report carries all they found: the risk categories the gate will
\* map are those of the scanners' own reports, and the subject is the snapshot's.
ExitZeroIsWhole ==
    exit = 0 /\ args.fail_on_degraded =>
        /\ \A i \in DOMAIN entries :
            /\ ran[i].started
            /\ entries[i].omitted = 0
            /\ entries[i].normalized_result.secondary
                = {ran[i].records[k].secondary : k \in DOMAIN ran[i].records}
        /\ subject_from_entries = Scope

\* normalize_*: the stored-report entry points give for the report of every scan that
\* was accepted, or refused for its scope only, the result the live adapter gave.
NormalizeAgrees ==
    \A i \in DOMAIN entries :
        LET result == entries[i].normalized_result
        IN ran[i].report # NULL /\ ~entries[i].truncated
           /\ (result.outcome # "unknown" \/ "dirty_worktree_scope_ambiguous" \in entries[i].blocking_errors)
           => result = normalize_report(entries[i].scanner, ran[i].report, ran[i].version, Scope)

\* What the rule ids and paths of a valid entry never meet.  No scanner's carries the home directories the validator
\* knows.  The other tests are the adapters' own: Gitleaks rule ids pass them all, so other host paths, URLs and secret
\* markers stay in them; a URL inside a Trivy text stays, and a local address or one of Trivy's markers in OSV's.
NeverIn(scanner) ==
    {"home_path"} \cup CASE scanner = "osv-scanner" -> {"host_path", "url", "secret"}
                         [] scanner = "trivy" -> {"host_path", "url_start", "local_ip", "secret", "trivy_secret"}
                         [] OTHER -> {}

\* The adapters and validate_external_scanner_result: whatever a scanner wrote, and through every truncation, the
\* findings of an entry that counts as valid carry no text its adapter or the validator refuses (NeverIn).
ValidIsRedacted ==
    \A i \in DOMAIN entries : entries[i].valid =>
        \A k \in DOMAIN entries[i].normalized_result.findings :
            \A t \in entries[i].normalized_result.findings[k].texts : t \cap NeverIn(entries[i].scanner) = {}

\* verify_verified_snapshot in every adapter: a scanner is run only on a snapshot that is as intake wrote it, unless
\* the change fell into that scanner's own turn after its adapter had verified the snapshot, where no code looks again.
ChangeStopsScanners ==
    \A i \in DOMAIN entries : entries[i].executed =>
        changed = NULL \/ changed.turn > i \/ (changed.turn = i /\ changed.verified)

\* The report is whole or says what is missing: every scanner has its entry, every finding is kept or counted, and
\* exit 0 under --fail-on-degraded means that nothing was lost (_run_real_scanner_suite_on_snapshot).
ReportIsWhole == TypeOK /\ OneEntryEach /\ FindingsAccounted /\ ExitZeroIsWhole

\* A scanner's silence counts only if it ran to its end on the snapshot of a clean commit, unchanged up to the
\* adapter's verification; what changes it from there to the end of the scan goes unseen (the adapters).
SilenceIsEvidence == QuietMeansScanned /\ ChangeStopsScanners

\* What an entry carries is safe to show and is what the stored-report entry points would make of the same report
\* (normalize_*, validate_external_scanner_result).
EvidenceIsSafe == NormalizeAgrees /\ ValidIsRedacted

\* run_real_scanner_suite and its finally clause: whatever the scanners do, the command ends, byte-budget loop
\* included, and not without having tried to remove its snapshot directory (a removal that fails is not reported).
SuiteEnds == <>[](pc = "done" /\ workspace # "present")
=============================================================================
