--------------------------- MODULE ArtifactRescan ---------------------------
(***************************************************************************)
(* run_phase1_rescan: the static scan of what the dependency fetch left in *)
(* the workspace and the package caches, before any command of the         *)
(* repository runs.                                                        *)
(*                                                                         *)
(* An artifact is [root, place, form, readable, contents].  root is        *)
(* "workspace", "pip_cache" or "npm_cache"; place is "node_modules",       *)
(* "dist_info" or "other"; form is "package_json", "zip", "tgz", "tar_gz", *)
(* "text" or "binary"; contents are its texts.  A text is [name, readable, *)
(* shape, lifecycle, has, install]: name tells METADATA, setup.py, test    *)
(* support, package.json and other code apart; has is the set of patterns  *)
(* that occur in it, of lifecycle the patterns of each lifecycle script.   *)
(***************************************************************************)
EXTENDS FiniteSets

Finding(classification, severity) == [classification |-> classification, severity |-> severity]
Unknown == Finding("unknown_requires_review", "warn")
InstallRisk == Finding("install_time_execution_risk", "block")

should_scan_file(a) ==
    \/ a.form \in {"zip", "tgz", "tar_gz"}
    \/ a.place \in {"node_modules", "dist_info"} /\ a.form \in {"package_json", "text"}
    \/ a.root \in {"pip_cache", "npm_cache"} /\ a.form \in {"package_json", "text"}

(***************************************************************************)
(* The findings of one text                                                *)
(***************************************************************************)
record_build_metadata_reference(text, source_archive) ==
    {IF source_archive THEN InstallRisk ELSE Unknown :
        trace \in {t \in {"setup.py", "backend"} : t = text.name \/ t \in text.has}}

ExecutionFindings(text, has, install) ==
    IF "exec" \notin has THEN {}
    ELSE IF "obfuscation" \in has THEN {Finding("suspicious_code_pattern", "block")}
    ELSE IF text.name = "test_support" /\ ~ install /\ has \cap {"env", "secret", "network"} # {} THEN {Unknown}
    ELSE IF has \cap {"env", "secret"} # {} THEN {Finding("suspicious_code_pattern", "block")}
    ELSE IF install THEN {InstallRisk}
    ELSE {}

ReferenceFindings(has) ==
    {Finding("ordinary_library_capability", "warn") : r \in has \cap {"network", "env"}}
    \cup {Finding("benign_expected_reference", "info") : r \in has \cap {"secret", "ip"}}

record_code_pattern_findings(text, has, install) ==
    ExecutionFindings(text, has, install)
    \cup (IF text.name = "metadata"
          THEN {Finding("metadata_or_string_reference", "info") : r \in has \cap {"network", "env", "secret", "ip"}}
          ELSE IF install THEN {}
          ELSE ReferenceFindings(has))

scan_python_archive_member(text, source_archive) ==
    (IF source_archive THEN {Finding("dependency_source_risk", "block")} ELSE {})
    \cup record_build_metadata_reference(text, source_archive)
    \cup record_code_pattern_findings(text, text.has, FALSE)

scan_package_json_text(text) ==
    IF text.shape = "not_json" THEN {Unknown}
    ELSE {InstallRisk : has \in text.lifecycle}
         \cup UNION {record_code_pattern_findings(text, has, TRUE) : has \in text.lifecycle}

\* A member that cannot be read is left out
ReadableMembers(a) == {text \in a.contents : text.readable}
scan_zip_archive(a) ==
    IF ~ a.readable THEN {Unknown}
    ELSE UNION {IF text.name = "package_json" THEN scan_package_json_text(text)
                ELSE scan_python_archive_member(text, FALSE) : text \in ReadableMembers(a)}

\* Of an npm archive only the package.json is looked at
scan_tar_archive(a) ==
    IF ~ a.readable THEN {Unknown}
    ELSE UNION {IF text.name = "package_json" THEN scan_package_json_text(text)
                ELSE IF a.form = "tgz" THEN {}
                ELSE scan_python_archive_member(text, TRUE) : text \in ReadableMembers(a)}
scan_package_json(a) == IF ~ a.readable THEN {Unknown} ELSE UNION {scan_package_json_text(t) : t \in a.contents}
scan_plain_text_artifact(a) ==
    IF ~ a.readable THEN {Unknown}
    ELSE UNION {record_build_metadata_reference(t, FALSE) \cup record_code_pattern_findings(t, t.has, FALSE) :
                    t \in a.contents}

FindingsOf(a) ==
    CASE a.form = "package_json" -> scan_package_json(a)
      [] a.form = "zip" -> scan_zip_archive(a)
      [] a.form \in {"tgz", "tar_gz"} -> scan_tar_archive(a)
      [] OTHER -> scan_plain_text_artifact(a)

\* What no except clause catches: a package.json whose document is not an object (payload.get is an
\* AttributeError) and an encrypted member of a zip archive (a RuntimeError)
Raises(a) ==
    /\ should_scan_file(a)
    /\ a.readable
    /\ \E t \in a.contents :
         \/ t.name = "package_json" /\ t.readable /\ t.shape = "not_object"
         \/ a.form = "zip" /\ t.shape = "encrypted"

(***************************************************************************)
(* run_phase1_rescan(files)                                                *)
(***************************************************************************)
RescanStatus(candidates, findings) ==
    IF candidates = {} THEN "skipped"
    ELSE IF \E f \in findings : f.severity = "block" THEN "blocked"
    ELSE IF \E f \in findings : f.severity = "warn" THEN "warn"
    ELSE "passed"

run_phase1_rescan(files) ==
    LET candidates == {a \in files : should_scan_file(a)}
        findings == UNION {FindingsOf(a) : a \in candidates}
    IN [status |-> RescanStatus(candidates, findings), performed |-> candidates # {}, findings |-> findings]

\* The safe bypass of run_sandbox: no fetch was required and there is nothing to rescan
WithBypass(rescan, phase1) ==
    IF phase1.status = "not_required" /\ ~ rescan.performed THEN [rescan EXCEPT !.status = "not_required"] ELSE rescan
=============================================================================
