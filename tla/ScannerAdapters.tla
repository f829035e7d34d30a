-------------------------- MODULE ScannerAdapters --------------------------
(***************************************************************************)
(* The Gitleaks, OSV-Scanner and Trivy adapters: how an adapter reads the  *)
(* exit code and the JSON report of a scanner and what it normalises them  *)
(* to.  ScannerSuite gives the steps of a scan their order.                *)
(*                                                                         *)
(* A report is abstracted to what the adapters tell apart:                 *)
(*   json      the file decodes to a document of the expected top type     *)
(*   Gitleaks  findings: a sequence of [minimal, id, path]                 *)
(*   OSV       results: packages, in them [minimal, id, path, database,    *)
(*             severity], a severity being a sequence of scores            *)
(*   Trivy     results: four sequences of [minimal, id, path, kind,        *)
(*             severity]                                                   *)
(* A text is the set of the tests it meets (Texts); {} is a harmless one,  *)
(* the placeholders and defaults of the code among them.  Of the texts of  *)
(* a finding the model keeps its rule id and its path.                     *)
(* A normalised result is a record of RiskMapper with the findings in      *)
(* order, the tier of its summary and its input scope beside it.           *)
(***************************************************************************)
EXTENDS RiskMapper, Sequences, SequencesExt

RealScanners == {"gitleaks", "osv-scanner", "trivy"}
NetworkScanners == {"osv-scanner", "trivy"}

(***************************************************************************)
(* interpret_*_exit_code                                                   *)
(***************************************************************************)
Quiet == [status |-> "completed_no_findings", outcome |-> NoFindings, consume |-> TRUE,
          reason |-> NULL, error |-> NULL]
Loud == [Quiet EXCEPT !.status = "completed_with_findings", !.outcome = "findings_present"]
Broken(reason, error) == [status |-> error, outcome |-> "unknown", consume |-> FALSE,
                          reason |-> reason, error |-> error]

interpret_gitleaks_exit_code(code) ==
    CASE code = 0 -> Quiet
      [] code = 2 -> Loud
      [] code = 1 -> Broken("unknown", "scan_error")
      [] code = 126 -> Broken("unknown", "tool_interface_error")
      [] OTHER -> Broken("unknown", "tool_unknown_error")

interpret_osv_exit_code(code) ==
    CASE code = 0 -> Quiet
      [] code = 1 -> Loud
      [] code = 127 -> Broken("unknown", "tool_error")
      [] code = 128 -> Broken("scope_ambiguous", "no_packages_found")
      [] OTHER -> Broken("unknown", "tool_unknown_error")

interpret_trivy_exit_code(code) ==
    CASE code = 0 -> Quiet
      [] code = 1 -> Loud
      [] code = 127 -> Broken("scanner_unavailable", "scanner_unavailable")
      [] code \in 2..126 -> Broken("unknown", "tool_error")
      [] OTHER -> Broken("unknown", "tool_unknown_error")

interpret_exit_code(scanner, code) ==
    CASE scanner = "gitleaks" -> interpret_gitleaks_exit_code(code)
      [] scanner = "osv-scanner" -> interpret_osv_exit_code(code)
      [] scanner = "trivy" -> interpret_trivy_exit_code(code)

(***************************************************************************)
(* Versions, as the class the policy puts the parsed text in.  Only the    *)
(* Trivy adapter refuses to scan; the suite asks assess_scanner_version    *)
(* about the other two afterwards.                                         *)
(***************************************************************************)
VersionStatuses == {"tested", "compatible_family_unverified", "unsupported", "denylisted", "unparseable"}

assess_trivy_version(version) ==
    [supported_for_live_scan |-> version \notin {"unparseable", "denylisted"}]

assess_scanner_version(version) ==
    LET supported == version \in {"tested", "compatible_family_unverified"}
    IN [status |-> version, supported_for_live_scan |-> supported,
        suite_degraded |-> version # "tested"]

(***************************************************************************)
(* Parsing: every element must have its required fields                    *)
(***************************************************************************)
is_minimal_gitleaks_finding(f) == f.minimal

parse_gitleaks_report(report) ==
    IF report.json /\ \A i \in DOMAIN report.findings : is_minimal_gitleaks_finding(report.findings[i])
    THEN report.findings ELSE NULL

is_minimal_osv_report(report) ==
    \A i \in DOMAIN report.results : \A j \in DOMAIN report.results[i] :
        LET package == report.results[i][j]
        IN package.minimal /\ \A k \in DOMAIN package.vulnerabilities : package.vulnerabilities[k].minimal

vulnerability_records(report) ==
    FlattenSeq([i \in DOMAIN report.results |->
        FlattenSeq([j \in DOMAIN report.results[i] |-> report.results[i][j].vulnerabilities])])

parse_osv_report(report) ==
    IF report.json /\ is_minimal_osv_report(report) THEN vulnerability_records(report) ELSE NULL

TrivyLists(result) ==
    <<result.vulnerabilities, result.misconfigurations, result.secrets, result.licenses>>

is_minimal_trivy_report(report) ==
    \A i \in DOMAIN report.results : \A list \in Range(TrivyLists(report.results[i])) :
        \A k \in DOMAIN list : list[k].minimal

TrivyKinds == {"vulnerability", "misconfiguration", "secret", "license"}

\* _issue_records: result by result, and in a result kind by kind
issue_records(report) ==
    FlattenSeq([i \in DOMAIN report.results |-> FlattenSeq(TrivyLists(report.results[i]))])

parse_trivy_report(report) ==
    IF report.json /\ is_minimal_trivy_report(report) THEN issue_records(report) ELSE NULL

parse_report(scanner, report) ==
    CASE scanner = "gitleaks" -> parse_gitleaks_report(report)
      [] scanner = "osv-scanner" -> parse_osv_report(report)
      [] scanner = "trivy" -> parse_trivy_report(report)

exit_code_report_mismatch(status, records) ==
    \/ status = "completed_no_findings" /\ records # <<>>
    \/ status = "completed_with_findings" /\ records = <<>>

(***************************************************************************)
(* Findings                                                                *)
(***************************************************************************)
(***************************************************************************)
(*   host_path    _looks_like_host_path: absolute, or with a home in it    *)
(*   home_path    RAW_HOST_PATH of the validator: homes only, at the start *)
(*                of the text or after a blank, a quote or "="             *)
(*   url          "://" anywhere;  url_start: the text is a URL            *)
(*   secret       a marker of OSV-Scanner's list, which Trivy's contains;  *)
(*   trivy_secret a marker of Trivy's list only                            *)
(*   local_ip, odd (a character outside the token alphabet)                *)
(***************************************************************************)
TextTests == {"host_path", "home_path", "url", "url_start", "secret", "trivy_secret", "local_ip", "odd"}
Texts == {t \in SUBSET TextTests :
            /\ "home_path" \in t => "host_path" \in t
            /\ "url_start" \in t => "url" \in t}

Redact(text, tests) == IF text \cap tests = {} THEN text ELSE {}

\* Mutant: the token alphabet alone decides
osv_safe_token_Alphabet(text) == Redact(text, {"odd"})

osv_safe_token(text) == Redact(text, {"host_path", "url", "secret", "odd"})

\* URL_PATTERN is anchored, so a URL further on in a token or a path is carried over
trivy_looks_sensitive_value == {"url_start", "local_ip", "secret", "trivy_secret"}
trivy_safe_token(text) == Redact(text, {"host_path", "odd"} \cup trivy_looks_sensitive_value)

gitleaks_relative_repo_path(text) == Redact(text, {"host_path"})
osv_relative_repo_path(text) == Redact(text, {"host_path", "url", "secret"})
trivy_relative_repo_path(text) == Redact(text, {"host_path"} \cup trivy_looks_sensitive_value)

Finding(primary, secondary, tier, gate, texts) ==
    [primary |-> primary, secondary |-> secondary, tier |-> tier, gate |-> gate, texts |-> texts]

\* The rule id is carried over as it is: a home in it is the validator's to find, any other host path stays
gitleaks_normalized_finding(record) ==
    Finding("secret", "secret_like_value", "raise_to_T5", "blocks_live_execution",
            {record.id, gitleaks_relative_repo_path(record.path)})

Critical == "known_critical_vulnerability"

VulnerabilityFinding(critical, texts) ==
    IF critical THEN Finding("vulnerability", Critical, "raise_to_T3", "raises_risk", texts)
    ELSE Finding("vulnerability", "unknown", "T5_candidate", "requires_human_review", texts)

\* Only the first score of the list is read: a CVSS 3 vector, a number, or neither.
\* The value is the base score in tenths
cvss_score(severity) ==
    IF severity # <<>> /\ severity[1].form \in {"cvss3", "number"} THEN severity[1].score ELSE NULL

severity_profile(record) ==
    record.database = "CRITICAL" \/ (cvss_score(record.severity) # NULL /\ cvss_score(record.severity) >= 90)

osv_normalized_finding(record) ==
    VulnerabilityFinding(severity_profile(record),
                         {osv_safe_token(record.id), osv_relative_repo_path(record.path)})

trivy_vulnerability_profile(record, texts) == VulnerabilityFinding(record.severity = "CRITICAL", texts)

trivy_normalized_finding(record) ==
    LET texts == {trivy_safe_token(record.id), trivy_relative_repo_path(record.path)}
    IN CASE record.kind = "vulnerability" -> trivy_vulnerability_profile(record, texts)
         [] record.kind = "secret" ->
                Finding("secret", "verified_secret", "raise_to_T5", "blocks_live_execution", texts)
         [] record.kind \in {"misconfiguration", "license"} ->
                Finding("repo_posture", "low_security_posture", "raise_to_T2",
                        "requires_human_review", texts)

normalized_finding(scanner, record) ==
    CASE scanner = "gitleaks" -> gitleaks_normalized_finding(record)
      [] scanner = "osv-scanner" -> osv_normalized_finding(record)
      [] scanner = "trivy" -> trivy_normalized_finding(record)

(***************************************************************************)
(* Results                                                                 *)
(***************************************************************************)
ScannerMode(scanner) ==
    IF scanner = "gitleaks" THEN "local_static_no_network" ELSE "local_static_network"

\* The input scope a snapshot gives the evidence
repo_commit_and_dirty_state(snapshot) ==
    IF snapshot = "git_commit" THEN [commit |-> "commit", dirty |-> "clean"]
    ELSE [commit |-> NULL, dirty |-> "unknown"]

NoScope == [commit |-> NULL, dirty |-> "unknown"]

\* Fields of the result that follow from the findings kept in it
WithFindings(result, findings) ==
    [result EXCEPT !.findings = findings,
                   !.primary = {findings[i].primary : i \in DOMAIN findings},
                   !.secondary = {findings[i].secondary : i \in DOMAIN findings},
                   !.redaction = When(\E i \in DOMAIN findings : \E t \in findings[i].texts : "home_path" \in t,
                                      "raw_host_path_pattern_present")]

Result(scanner, version, scope, outcome, completed, network) ==
    [scanner |-> scanner, version |-> version, scope |-> scope, outcome |-> outcome,
     completed |-> completed, network |-> network, mode |-> ScannerMode(scanner),
     reason |-> NULL, tier |-> "none", findings |-> <<>>, shape |-> TRUE, executed |-> FALSE,
     retained |-> FALSE, unsupported |-> FALSE, authorized |-> FALSE, limits |-> "listed",
     low_trust |-> FALSE, safe_mapping |-> FALSE, redaction |-> {}, primary |-> {},
     secondary |-> {}, tokens |-> {}, relations |-> {}, unknown_names |-> FALSE,
     binary |-> "unverified"]

Unknown(result, reason) == [result EXCEPT !.outcome = "unknown", !.reason = reason, !.tier = "T5_candidate"]

gitleaks_unknown_result(version, scope, reason, completed) ==
    Unknown(Result("gitleaks", version, scope, "unknown", completed, FALSE), reason)

osv_unknown_result(version, scope, reason, completed, network) ==
    Unknown(Result("osv-scanner", version, scope, "unknown", completed, network), reason)

trivy_unknown_result(version, scope, reason, completed, network) ==
    [Unknown(Result("trivy", version, scope, "unknown", completed, network), reason)
        EXCEPT !.unsupported = (reason = "unsupported_version")]

unknown_result(scanner, version, scope, reason, completed, network) ==
    CASE scanner = "gitleaks" -> gitleaks_unknown_result(version, scope, reason, completed)
      [] scanner = "osv-scanner" -> osv_unknown_result(version, scope, reason, completed, network)
      [] scanner = "trivy" -> trivy_unknown_result(version, scope, reason, completed, network)

gitleaks_normalized_result(records, version, scope, outcome) ==
    [WithFindings(Result("gitleaks", version, scope, outcome, TRUE, FALSE),
                  [i \in DOMAIN records |-> gitleaks_normalized_finding(records[i])])
        EXCEPT !.tier = IF records = <<>> THEN "none" ELSE "T5_candidate"]

osv_normalized_result(records, version, scope, outcome) ==
    LET result == WithFindings(Result("osv-scanner", version, scope, outcome, TRUE, TRUE),
                               [i \in DOMAIN records |-> osv_normalized_finding(records[i])])
    IN [result EXCEPT !.tier = CASE records = <<>> -> "none"
                                 [] Critical \in result.secondary -> "raise_to_T3"
                                 [] OTHER -> "T5_candidate"]

trivy_summary_mapping(secondary) ==
    IF secondary = {} THEN "none"
    ELSE IF "verified_secret" \in secondary THEN "raise_to_T5"
    ELSE IF "known_critical_vulnerability" \in secondary THEN "raise_to_T3"
    ELSE IF "low_security_posture" \in secondary THEN "raise_to_T2"
    ELSE "T5_candidate"

trivy_normalized_result(records, version, scope, outcome) ==
    LET result == WithFindings(Result("trivy", version, scope, outcome, TRUE, TRUE),
                               [i \in DOMAIN records |-> trivy_normalized_finding(records[i])])
    IN [result EXCEPT !.tier = trivy_summary_mapping(result.secondary)]

normalized_result(scanner, records, version, scope, outcome) ==
    CASE scanner = "gitleaks" -> gitleaks_normalized_result(records, version, scope, outcome)
      [] scanner = "osv-scanner" -> osv_normalized_result(records, version, scope, outcome)
      [] scanner = "trivy" -> trivy_normalized_result(records, version, scope, outcome)

(***************************************************************************)
(* What an adapter returns to its caller                                   *)
(***************************************************************************)
run_result(valid, executed, errors, result) ==
    [valid |-> valid, scanner_executed |-> executed, blocking_errors |-> errors,
     normalized_result |-> result]

\* A refused or changed snapshot is not scanned, and the version is not asked for
snapshot_intake_refused(scanner) ==
    run_result(FALSE, FALSE, {"snapshot_intake_refused"},
               unknown_result(scanner, "unparseable", NoScope, "snapshot_intake_refused", FALSE, FALSE))

(***************************************************************************)
(* A command answers with [kind |-> "exit", code, ...], or is of the kind  *)
(* "absent" (it cannot be started), "timeout" or "raises" (an exception    *)
(* the adapter's runner does not catch).  A preflight gives NULL when the  *)
(* scan goes on.                                                           *)
(***************************************************************************)
Stopped(scanner, scope, error, reason) ==
    run_result(FALSE, FALSE, {error}, unknown_result(scanner, "unparseable", scope, reason, FALSE, FALSE))

Answered(answer) == answer.kind = "exit" /\ answer.code = 0

gitleaks_preflight(scope, answer) ==
    IF Answered(answer) THEN NULL
    ELSE Stopped("gitleaks", scope, "scanner_unavailable", "scanner_unavailable")

osv_preflight(scope, answer) ==
    IF Answered(answer) THEN NULL
    ELSE IF answer.kind = "timeout" THEN Stopped("osv-scanner", scope, "scanner_timeout", "timeout")
    ELSE Stopped("osv-scanner", scope, "scanner_unavailable", "scanner_unavailable")

trivy_preflight(scope, answer) ==
    IF answer.kind = "timeout" THEN Stopped("trivy", scope, "scanner_timeout", "timeout")
    ELSE IF ~Answered(answer) THEN Stopped("trivy", scope, "scanner_unavailable", "scanner_unavailable")
    ELSE IF assess_trivy_version(answer.version).supported_for_live_scan THEN NULL
    ELSE run_result(FALSE, FALSE, {"tool_unsafe_or_untrusted"},
                    trivy_unknown_result(answer.version, scope, "unsupported_version", FALSE, FALSE))

preflight(scanner, scope, answer) ==
    CASE scanner = "gitleaks" -> gitleaks_preflight(scope, answer)
      [] scanner = "osv-scanner" -> osv_preflight(scope, answer)
      [] scanner = "trivy" -> trivy_preflight(scope, answer)

\* The end of every pipeline, from the exit code on.  report.file is FALSE when the scanner wrote none
consume_report(scanner, version, scope, code, report) ==
    LET interpretation == interpret_exit_code(scanner, code)
        records == parse_report(scanner, report)
        unknown(error, reason, completed) ==
            run_result(FALSE, TRUE, {error}, unknown_result(scanner, version, scope, reason, completed, TRUE))
    IN IF ~interpretation.consume
       THEN unknown(interpretation.error, interpretation.reason, FALSE)
       ELSE IF ~report.file THEN unknown("missing_report", "parse_failure", FALSE)
       ELSE IF records = NULL THEN unknown("parse_failure", "parse_failure", FALSE)
       ELSE IF exit_code_report_mismatch(interpretation.status, records)
       THEN unknown("report_exit_code_mismatch", "parse_failure", FALSE)
       ELSE IF interpretation.outcome = NoFindings /\ (scope.commit = NULL \/ scope.dirty # "clean")
       THEN unknown("dirty_worktree_scope_ambiguous", "scope_ambiguous", TRUE)
       ELSE LET result == normalized_result(scanner, records, version, scope, interpretation.outcome)
            IN run_result(validate_external_scanner_result(result), TRUE, BlockingErrors(result), result)

Failed(scanner, version, scope, error, reason, network) ==
    run_result(FALSE, TRUE, {error}, unknown_result(scanner, version, scope, reason, FALSE, network))

\* The Gitleaks adapter turns its own exceptions into a result; the others let them out (NULL)
gitleaks_scan_pipeline(version, scope, answer) ==
    CASE answer.kind = "absent" ->
            Failed("gitleaks", version, scope, "scanner_unavailable", "scanner_unavailable", FALSE)
      [] answer.kind = "timeout" -> Failed("gitleaks", version, scope, "scanner_timeout", "timeout", FALSE)
      [] answer.kind = "raises" -> Failed("gitleaks", version, scope, "adapter_internal_error", "adapter_error", FALSE)
      [] answer.kind = "exit" -> consume_report("gitleaks", version, scope, answer.code, answer.report)

osv_scan_pipeline(version, scope, answer) ==
    CASE answer.kind = "absent" ->
            Failed("osv-scanner", version, scope, "scanner_unavailable", "scanner_unavailable", FALSE)
      [] answer.kind = "timeout" -> Failed("osv-scanner", version, scope, "scanner_timeout", "timeout", TRUE)
      [] answer.kind = "raises" -> NULL
      [] answer.kind = "exit" -> consume_report("osv-scanner", version, scope, answer.code, answer.report)

trivy_scan_pipeline(version, scope, answer) ==
    CASE answer.kind = "absent" ->
            Failed("trivy", version, scope, "scanner_unavailable", "scanner_unavailable", FALSE)
      [] answer.kind = "timeout" -> Failed("trivy", version, scope, "scanner_timeout", "timeout", TRUE)
      [] answer.kind = "raises" -> NULL
      [] answer.kind = "exit" -> consume_report("trivy", version, scope, answer.code, answer.report)

scan_pipeline(scanner, version, scope, answer) ==
    CASE scanner = "gitleaks" -> gitleaks_scan_pipeline(version, scope, answer)
      [] scanner = "osv-scanner" -> osv_scan_pipeline(version, scope, answer)
      [] scanner = "trivy" -> trivy_scan_pipeline(version, scope, answer)

(***************************************************************************)
(* normalize_*: the same report without an exit code, for stored reports.  *)
(* The guards of the pipelines are written out a second time there.        *)
(***************************************************************************)

Normalized(scanner, report, version, scope) ==
    LET records == parse_report(scanner, report)
        outcome == IF records = <<>> THEN NoFindings ELSE "findings_present"
    IN IF records = NULL THEN unknown_result(scanner, version, scope, "parse_failure", FALSE, TRUE)
       ELSE IF outcome = NoFindings /\ (scope.commit = NULL \/ scope.dirty # "clean")
       THEN unknown_result(scanner, version, scope, "scope_ambiguous", TRUE, TRUE)
       ELSE normalized_result(scanner, records, version, scope, outcome)

normalize_gitleaks_json_array(report, version, scope) == Normalized("gitleaks", report, version, scope)
normalize_osv_json_object(report, version, scope) == Normalized("osv-scanner", report, version, scope)
normalize_trivy_json_object(report, version, scope) == Normalized("trivy", report, version, scope)

normalize_report(scanner, report, version, scope) ==
    CASE scanner = "gitleaks" -> normalize_gitleaks_json_array(report, version, scope)
      [] scanner = "osv-scanner" -> normalize_osv_json_object(report, version, scope)
      [] scanner = "trivy" -> normalize_trivy_json_object(report, version, scope)
=============================================================================
