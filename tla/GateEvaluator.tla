---------------------------- MODULE GateEvaluator ----------------------------
(***************************************************************************)
(* The gate evaluator (gate/evaluator.py, verdict.py, limitation_policy.py,*)
(* validation.py and evidence/validation.py) as operators: from evidence   *)
(* to a verdict.  Reasons, explanations and required actions are text and  *)
(* left out; whatever can add a verdict candidate is kept.                 *)
(*                                                                         *)
(* An evidence item carries                                                *)
(*   shape        field sets, enumerations and types are as required       *)
(*   mode, binding, trust, category, effect    the enumerated fields       *)
(*   snapshot     the [snapshot_id, manifest_fingerprint] it is bound to   *)
(*   present, lowers, authorizes, raw, redaction_failed, host_path  flags  *)
(*   tokens       the markers its text contains and its chain words        *)
(*   limitations  records [listed, text]: the severity the policy's        *)
(*                patterns give (NULL when none matches) and the one the   *)
(*                limitation's own words give                              *)
(* A policy carries mandatory, accepted, missing (names), dynamic, and     *)
(* severities (whether it holds a limitation_severity map).                *)
(***************************************************************************)
EXTENDS RiskMapper, Authorization

CONSTANT MaxRefs    \* 16: the evidence references one decision may carry

ASSUME MaxRefsPositive == MaxRefs \in Nat \ {0}

(***************************************************************************)
(* verdict.py and limitation_policy.py                                     *)
(***************************************************************************)
Verdicts == {"allow_limited", "warn", "unknown", "quarantine", "block"}

VerdictOrder == [allow_limited |-> 0, warn |-> 1, unknown |-> 2, quarantine |-> 3, block |-> 4]
VerdictRank(v) == VerdictOrder[v]

\* The greatest candidate, allow_limited when there is none
strongest_verdict(c) ==
    IF "block" \in c THEN "block" ELSE IF "quarantine" \in c THEN "quarantine"
    ELSE IF "unknown" \in c THEN "unknown" ELSE IF "warn" \in c THEN "warn" ELSE "allow_limited"

\* A pattern of the policy decides before the words of the limitation itself
limitation_severity(l, policy) ==
    IF policy.severities /\ l.listed # NULL THEN l.listed ELSE l.text

LimitationVerdict(l, policy) ==
    LET severity == limitation_severity(l, policy)
    IN CASE severity = "critical" -> "block" [] severity = "high" -> "quarantine"
         [] severity = "medium" -> "warn"    [] severity = "low" -> "allow_limited"

(***************************************************************************)
(* evidence/validation.py                                                  *)
(***************************************************************************)
EvidenceLowTrust == {"untrusted_import", "schema_validated"}
AcceptableBinding == {"path_bound", "commit_bound", "tree_bound", "snapshot_bound", "synthetic"}

validate_evidence(e) ==
    /\ e.shape
    /\ e.binding = "snapshot_bound" => \A k \in DOMAIN e.snapshot : e.snapshot[k] \in Fingerprint
    /\ ~e.raw /\ ~e.redaction_failed /\ ~e.authorizes /\ ~e.host_path
    /\ e.limitations # {}
    /\ e.lowers => e.present /\ e.trust \notin EvidenceLowTrust

(***************************************************************************)
(* evaluate_gate_decision: the candidates of one evidence item             *)
(***************************************************************************)
BlockingMarkers == {"raw_secret_leakage", "raw_host_path_leak", "expected_commit_mismatch",
    "approval_mismatch", "policy_violation_that_attempted_execution_without_approval",
    "network_allowed_during_target_scan", "docker_socket_mount", "host_home_mount",
    "credential_mount", "raw_secret_leak"}

QuarantineMarkers == {"verified_secret", "credential_access_network", "install_download_exec",
    "obfuscation_eval_network", "ci_token_abuse_chain", "pull_request_target_untrusted_checkout",
    "docker_socket_subprocess", "critical_vulnerability_runtime",
    "observer_degraded_risky_execution"}

WarnMarkers == {"tool_unavailable", "tool_output_parse_failed", "known_vulnerability",
    "low_repo_posture", "unsupported_scanner_version", "dirty_workspace_binding",
    "content_digest_binding_without_commit"}

\* The chains of _has_quarantine_signal: all words of one chain occur
QuarantineChains == {
    {"credential_path_reference", "network_request"}, {"credential_path_reference", "network_attempt"},
    {"install_script_execution", "download_exec_chain"},
    {"obfuscation", "dynamic_eval", "network_request"},
    {"pull_request_target_misuse", "untrusted_checkout"},
    {"broad_token_permission", "unpinned_action"},
    {"docker_socket_reference", "subprocess_indicator"},
    {"known_critical_vulnerability", "suspicious_runtime_behavior"}}

HasQuarantineSignal(e) ==
    \/ e.tokens \cap QuarantineMarkers # {}
    \/ \E chain \in QuarantineChains : chain \subseteq e.tokens

HasWarnSignal(e) == e.tokens \cap WarnMarkers # {} \/ e.category = "known_vulnerability"

ItemCandidates(e, policy) ==
    When(\/ ~validate_evidence(e) \/ e.authorizes \/ e.raw \/ e.redaction_failed
         \/ e.effect = "block" \/ e.tokens \cap BlockingMarkers # {}, "block")
    \cup When(e.effect = "quarantine" \/ HasQuarantineSignal(e), "quarantine")
    \cup When(e.effect = "warn" \/ HasWarnSignal(e) \/ ~e.present, "warn")
    \cup When(e.binding = "unbound", "unknown")
    \cup ({LimitationVerdict(l, policy) : l \in e.limitations} \ {"allow_limited"})

(***************************************************************************)
(* _sandbox_gate_signals: only problems speak                              *)
(***************************************************************************)
SandboxSignals == {"policy_blocked", "binding_mismatch", "cleanup_failed", "timeout",
    "observer_degraded", "not_real", "invalid", "stale", "truncated", "over_budget"}

SignalVerdict(signal) ==
    CASE signal \in {"policy_blocked", "binding_mismatch"} -> "block"
      [] signal = "cleanup_failed" -> "quarantine"
      [] OTHER -> "unknown"

\* Mutant: a stale or truncated report is merely a warning
SandboxCandidates_Soft(sandbox) ==
    UNION {{IF s \in {"stale", "truncated"} THEN "warn" ELSE SignalVerdict(s) : s \in e.signals}
           : e \in sandbox}

\* Evidence of another kind or with a signal nobody knows is invalid evidence
SandboxCandidates(sandbox) ==
    UNION {{SignalVerdict(s) : s \in IF e.normalized /\ e.signals \subseteq SandboxSignals
                                      THEN e.signals ELSE {"invalid"}} : e \in sandbox}

(***************************************************************************)
(* _external_suite_gate_signals: validated suites through the risk mapper  *)
(***************************************************************************)
ExternalMappingVerdict(m) ==
    IF m.quarantine \/ m.requires_dedicated_vm THEN {"quarantine"}
    ELSE IF m.blocks_live_execution THEN {"block"}
    ELSE IF m.requires_human_review THEN {"quarantine"}
    ELSE When(m.tier # "none" \/ "raises_risk" \in m.gates, "warn")

EntryCompleted(entry) == entry.valid /\ entry.status = "completed" /\ entry.result # NULL

\* Mutant: an entry that did not complete is passed over
EntryCandidates_Skipped(entry) ==
    IF ~EntryCompleted(entry) THEN {}
    ELSE ExternalMappingVerdict(map_external_scanner_risk(entry.result, RiskRuleIds))

EntryCandidates(entry) ==
    IF ~EntryCompleted(entry) THEN {"unknown"}
    ELSE LET verdict == ExternalMappingVerdict(map_external_scanner_risk(entry.result, RiskRuleIds))
         IN When(entry.result.binary = "unverified", "unknown")
            \cup (IF verdict = {} THEN When(entry.finding_count # 0, "warn") ELSE verdict)

\* Mutant: one valid suite is enough
SuiteCandidates_OneValid(suites) ==
    IF \A suite \in suites : ~suite.valid THEN When(suites # {}, "unknown")
    ELSE UNION {UNION {EntryCandidates(e) : e \in suite.entries} : suite \in {s \in suites : s.valid}}

SuiteCandidates(suites) ==
    UNION {IF suite.valid THEN UNION {EntryCandidates(e) : e \in suite.entries} ELSE {"unknown"}
           : suite \in suites}

(***************************************************************************)
(* The whole evaluation                                                    *)
(***************************************************************************)
RuntimeNames == {"runtime-observer", "runtime_observer"}

\* The evidence the evaluation itself found missing, accepted or not
MissingEvidence(items, policy) ==
    policy.missing \cup When(items = {}, "all_evidence")
    \cup When(\E e \in items : e.binding = "unbound", "commit_or_tree_binding")
    \cup (policy.mandatory \ policy.accepted)

PolicyCandidates(items, policy) ==
    LET unaccepted == MissingEvidence(items, policy) \ policy.accepted
    IN When(items = {} \/ ~(policy.mandatory \subseteq policy.accepted), "unknown")
       \cup When(items # {} /\ \A e \in items : e.binding \notin AcceptableBinding, "unknown")
       \cup (IF unaccepted = {} THEN {}
             ELSE IF policy.dynamic /\ unaccepted \cap RuntimeNames # {} THEN {"quarantine"}
             ELSE {"warn"})

EvidenceCandidates(items, policy, suites, sandbox) ==
    (UNION {ItemCandidates(e, policy) : e \in items})
    \cup When(items = {}, "unknown") \cup SuiteCandidates(suites) \cup SandboxCandidates(sandbox)

\* Low trust alone is no verdict: asked only while nothing else spoke
LowTrustCandidates(items, spoken) ==
    When(/\ items # {} /\ spoken = {}
         /\ \A e \in items : e.trust \in EvidenceLowTrust
         /\ \A e \in items : e.mode \notin {"sandbox_observer", "docker_isolated"}, "unknown")

CandidateVerdict(items, policy, suites, sandbox) ==
    LET spoken == EvidenceCandidates(items, policy, suites, sandbox)
    IN strongest_verdict(spoken \cup LowTrustCandidates(items, spoken)
                                \cup PolicyCandidates(items, policy))

(***************************************************************************)
(* gate/validation.py: what makes the assembled decision invalid           *)
(***************************************************************************)
SandboxRefValid(ref) ==
    /\ \A k \in {"report_fingerprint", "gate_decision_fingerprint"} :
          ref[k] = NULL \/ ref[k] \in Fingerprint
    /\ \A k \in {"snapshot_id", "manifest_fingerprint"} : ref[k] \in Fingerprint

EvidenceRefsValid(suites, sandbox) ==
    /\ Cardinality(suites) + Cardinality(sandbox) <= MaxRefs
    /\ \A e \in sandbox : e.ref # NULL => SandboxRefValid(e.ref)

SubjectValid(subject) ==
    subject.binding_kind = "snapshot_bound" =>
        subject.snapshot_id \in Fingerprint /\ subject.manifest_fingerprint \in Fingerprint

validate_gate_decision(subject, suites, sandbox) ==
    SubjectValid(subject) /\ EvidenceRefsValid(suites, sandbox)

\* An invalid decision blocks, whatever the evidence said
Verdict(items, policy, suites, sandbox, subject) ==
    IF validate_gate_decision(subject, suites, sandbox)
    THEN CandidateVerdict(items, policy, suites, sandbox) ELSE "block"

EvidenceRefs(suites, sandbox) ==
    {s.ref : s \in suites} \cup {e.ref : e \in {x \in sandbox : x.ref # NULL}}

\* A decision as the authorization validator reads it
evaluate_gate_decision(items, subject, policy, suites, sandbox) ==
    [subject |-> subject, policy_version |-> policy.version,
     verdict |-> Verdict(items, policy, suites, sandbox, subject),
     refs |-> EvidenceRefs(suites, sandbox)]
=============================================================================
