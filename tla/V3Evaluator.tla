---------------------------- MODULE V3Evaluator ----------------------------
(***************************************************************************)
(* gate/v3_evaluator.py and evidence/v3_adapter.py: from the static scan   *)
(* of a verified snapshot to a gate decision.  A scanned tree is abstracted*)
(* to its report, a set of checks                                          *)
(*   [name, status, findings]   findings records [severity, allowed, words]*)
(* and to the supply-chain shapes of the files the gate reads itself:      *)
(* hooks, build_hook, texts (one set of shapes per scanned file) and       *)
(* workflow (the words of the workflows with a write risk).                *)
(***************************************************************************)
EXTENDS GateEvaluator

V3Severity(status) ==
    CASE status = "block" -> "block" [] status = "warn" -> "warn"
      [] status = "pass" -> "info"   [] OTHER -> "unknown"

CategoryForCheck(name) ==
    CASE name = "ci" -> "ci_cd" [] name = "secrets_scan" -> "secret"
      [] name = "policy" -> "approval" [] OTHER -> "repo_posture"

\* The base limitations: "missing_evidence_must_not_become_confidence" is of medium severity
BaseLimitations == {[listed |-> NULL, text |-> "low"], [listed |-> NULL, text |-> "medium"]}

BaseCandidate(id, category, severity, present, words) ==
    [id |-> id, shape |-> TRUE, mode |-> "native_static", binding |-> "path_bound",
     snapshot |-> <<>>, trust |-> "schema_validated", category |-> category,
     effect |-> IF severity = "block" THEN "block" ELSE "requires_human_review",
     present |-> present, lowers |-> FALSE, authorizes |-> FALSE, raw |-> FALSE,
     redaction_failed |-> FALSE, host_path |-> FALSE, tokens |-> words,
     limitations |-> BaseLimitations]

CandidateForCheck(check) ==
    BaseCandidate(check.name, CategoryForCheck(check.name), V3Severity(check.status), FALSE, {})

CandidateForFinding(check, f) ==
    BaseCandidate(<<check.name, f>>, CategoryForCheck(check.name),
                  IF f.allowed THEN "warn" ELSE V3Severity(f.severity), TRUE, f.words)

\* A check without findings is itself evidence that nothing was found
extract_evidence_candidates(checks) ==
    UNION {IF c.findings = {} THEN {CandidateForCheck(c)}
           ELSE {CandidateForFinding(c, f) : f \in c.findings} : c \in checks}

(***************************************************************************)
(* _demo_context_from_v3_report and _supply_chain_shape_evidence           *)
(***************************************************************************)
DemoEvidence(id, trust, effect, present, words, limitations) ==
    [BaseCandidate(id, "runtime_behavior", "warn", present, words)
        EXCEPT !.trust = trust, !.effect = effect, !.limitations = limitations]

DemoNoFinding ==
    DemoEvidence("demo-context", "schema_validated", "warn", FALSE, {"runtime_observer_missing"},
                 {[listed |-> NULL, text |-> "medium"]})

\* _iter_shape_texts: execution-relevant paths, and of these at most MaxFiles texts of
\* bounded size that decode; shape groups are counted once however many files show them
ShapeGroups(tree) ==
    When(tree.hooks, "install_script_execution") \cup When(tree.build_hook, "python_build_hook")
    \cup (UNION tree.texts) \cup When(tree.workflow # {}, "workflow_modification")

ShapeWords(tree) ==
    LET groups == ShapeGroups(tree)
    IN groups \cup tree.workflow
       \cup (IF "obfuscated_eval" \in groups THEN {"obfuscation", "dynamic_eval"} ELSE {})

SupplyChainShape(tree) ==
    IF ShapeGroups(tree) = {} THEN {}
    ELSE {DemoEvidence("static-supply-chain-shape", "redaction_validated",
            IF Cardinality(ShapeGroups(tree)) >= 2 THEN "quarantine" ELSE "warn", TRUE,
            ShapeWords(tree), {[listed |-> NULL, text |-> "low"]})}

(***************************************************************************)
(* scan_verified_snapshot and evaluate_gate_decision_from_scan_envelope    *)
(***************************************************************************)
\* _snapshot_gate_subject: only a Git commit binds the snapshot
SnapshotGateSubject(snap) ==
    [repo |-> snap.repo, commit |-> snap.commit, tree_hash |-> snap.tree,
     snapshot_id |-> snap.id, manifest_fingerprint |-> snap.manifest,
     binding_kind |-> IF snap.kind = "git_commit" THEN "snapshot_bound" ELSE "path_bound"]

Bind(e, subject) ==
    [e EXCEPT !.binding = subject.binding_kind,
              !.snapshot = [snapshot_id |-> subject.snapshot_id,
                            manifest_fingerprint |-> subject.manifest_fingerprint]]

V3Missing == {"v3_report_lacks_commit_binding", "v3_report_lacks_tree_hash",
    "v3_report_lacks_formal_confidence_model", "v3_report_lacks_structured_raw_handling",
    "v3_report_is_check_oriented_not_gate_evaluator"}

\* The command line passes no policy: the policy file is never read, and the limitation
\* severities come from the words of the limitations
EffectivePolicy(tree) ==
    [version |-> "0.1", mandatory |-> {}, accepted |-> {},
     missing |-> V3Missing \cup When(tree.demo, "runtime-observer"),
     dynamic |-> FALSE, severities |-> FALSE]

EnvelopeEvidence(tree, snap) ==
    {Bind(e, SnapshotGateSubject(snap)) :
        e \in extract_evidence_candidates(tree.checks) \cup SupplyChainShape(tree)
              \cup (IF tree.demo THEN {DemoNoFinding} ELSE {})}

evaluate_from_scan_envelope(tree, snap, suites, sandbox) ==
    evaluate_gate_decision(EnvelopeEvidence(tree, snap), SnapshotGateSubject(snap),
                           EffectivePolicy(tree), suites, sandbox)
=============================================================================
