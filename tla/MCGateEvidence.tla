--------------------------- MODULE MCGateEvidence ---------------------------
EXTENDS GateEvidence

MCSubject == [repo |-> "f1", commit |-> "c1", tree_hash |-> "t1", snapshot_id |-> "f2",
              manifest_fingerprint |-> "f3", binding_kind |-> "snapshot_bound"]

\* A policy that asks for nothing
MCPolicy == [version |-> "0.1", mandatory |-> {}, accepted |-> {"all_evidence"}, missing |-> {},
             dynamic |-> FALSE, severities |-> TRUE]

Low == [listed |-> "low", text |-> "medium"]
Item == [id |-> "item", shape |-> TRUE, mode |-> "native_static", binding |-> "snapshot_bound",
         snapshot |-> [snapshot_id |-> "f2", manifest_fingerprint |-> "f3"],
         trust |-> "redaction_validated", category |-> "repo_posture",
         effect |-> "requires_human_review", present |-> TRUE, lowers |-> FALSE,
         authorizes |-> FALSE, raw |-> FALSE, redaction_failed |-> FALSE, host_path |-> FALSE,
         tokens |-> {}, limitations |-> {Low}]

MCItems == {
    Item,
    [Item EXCEPT !.id = "low_trust", !.trust = "schema_validated"],
    [Item EXCEPT !.id = "no_finding", !.present = FALSE,
                 !.limitations = {Low, [listed |-> NULL, text |-> "medium"]}],
    [Item EXCEPT !.id = "unbound", !.binding = "unbound"],
    [Item EXCEPT !.id = "lowers", !.present = FALSE, !.lowers = TRUE],
    [Item EXCEPT !.id = "chain", !.tokens = {"obfuscation", "dynamic_eval", "network_request"}]}

Ref(f) == [report_fingerprint |-> f, gate_decision_fingerprint |-> "f1", snapshot_id |-> "f2",
           manifest_fingerprint |-> "f3"]
Evidence(p, signals) == [path |-> p, normalized |-> TRUE, signals |-> signals, ref |-> Ref("f1")]

MCSandbox == {Evidence("s_clean", {}), Evidence("s_stale", {"stale"}),
    Evidence("s_two", {"timeout", "cleanup_failed"}),
    [Evidence("s_raw", {}) EXCEPT !.normalized = FALSE, !.ref = NULL],
    [Evidence("s_unresolved", {"not_real"}) EXCEPT !.ref.snapshot_id = NULL]}

Result == [shape |-> TRUE, outcome |-> NoFindings, completed |-> TRUE,
    mode |-> "local_static_no_network", network |-> FALSE, executed |-> FALSE, retained |-> FALSE,
    unsupported |-> FALSE, authorized |-> FALSE, limits |-> "listed", low_trust |-> FALSE,
    safe_mapping |-> TRUE, redaction |-> {}, primary |-> {}, secondary |-> {}, tokens |-> {},
    relations |-> {}, unknown_names |-> FALSE, binary |-> "verified"]

Entry(r) == [valid |-> TRUE, status |-> "completed", result |-> r, finding_count |-> 0]
Suite(p, entries) == [path |-> p, valid |-> TRUE, entries |-> entries, ref |-> Ref("f2")]

MCSuites == {
    Suite("quiet", {Entry(Result)}),
    Suite("failed", {Entry(Result), [Entry(Result) EXCEPT !.status = "unknown", !.valid = FALSE]}),
    Suite("unverified", {Entry([Result EXCEPT !.binary = "unverified"])}),
    [Suite("stale", {}) EXCEPT !.valid = FALSE]}
Fact(p, s, t, e) == [primary |-> {p}, secondary |-> {s}, tokens |-> t, relations |-> e]
Posture == Fact("repo_posture", "low_security_posture", {}, {})
MCFindings == {Posture, Fact("secret", "secret_like_value", {}, {}),
    Fact("vulnerability", "known_critical_vulnerability", {}, {}),
    Fact("credential_access", "host_home_reference", {}, {}),
    Fact("malicious_behavior", "network_request", {}, {"credential_to_network"}),
    Fact("vulnerability", "unknown", {}, {}),
    Fact("sandbox_escape_risk", "docker_socket_reference", {}, {}),
    Fact("sandbox_escape_risk", "docker_socket_reference", {"subprocess_indicator"}, {})}

\* Much evidence beside quiet and posture suites, or many findings beside little evidence
Facts(s) == UNION {e.result.secondary \cup e.result.tokens : e \in s.entries}
WideOrDeep ==
    \/ /\ UNION {Facts(s) : s \in scans} \subseteq {"low_security_posture"}
       /\ \A s \in scans : s.path # "unverified"
       /\ Cardinality(items) <= 2 /\ Cardinality(reports) <= 2 /\ Cardinality(scans) <= 2
    \/ /\ items \subseteq {Item} /\ reports = {} /\ Cardinality(scans) = 1
       /\ \A s \in scans : s.path # "failed"
=============================================================================
