----------------------------- MODULE RiskMapper -----------------------------
(***************************************************************************)
(* external_scanner/result_validator.py and risk_mapper.py as operators.   *)
(*                                                                         *)
(* A scanner result is abstracted to what the two modules tell apart:      *)
(*   shape         the document's own form: field sets, types, versions    *)
(*   outcome, completed, mode, network, executed, retained, unsupported,   *)
(*   authorized, low_trust, binary     fields of the same meaning          *)
(*   limits        "absent" (no list), "empty", "malformed" or "listed"    *)
(*   safe_mapping  the summary and the mapping claim no effect at all      *)
(*   redaction     the raised redaction flags ("redaction_not_validated"   *)
(*                 and "raw_host_path_pattern_present" among them)         *)
(*   primary, secondary, tokens    collected from findings and nodes       *)
(*   relations     collected from the evidence edges                       *)
(*   unknown_names a finding names an unknown gate effect, tier or rule    *)
(***************************************************************************)
EXTENDS Integers, FiniteSets, PythonValues

When(holds, value) == IF holds THEN {value} ELSE {}

NoFindings == "no_findings_in_scope"

KnownPrimary == {"secret", "credential_access", "vulnerability", "malicious_behavior", "ci_cd_risk",
    "repo_posture", "dependency_risk", "sandbox_escape_risk", "scanner_failure", "redaction_failure"}

KnownSecondary == {"verified_secret", "secret_like_value", "credential_path_reference",
    "host_home_reference", "known_critical_vulnerability", "install_script_execution",
    "download_exec_chain", "obfuscation", "dynamic_eval", "network_request",
    "network_exfiltration_indicator", "docker_socket_reference", "pull_request_target_misuse",
    "broad_token_permission", "unpinned_action", "dependency_confusion_signal",
    "low_security_posture", "unsupported_scanner_version", "scanner_timeout",
    "raw_secret_leak", "raw_host_path_leak"}

SupportedRelations == {"same_execution_path", "credential_to_network",
    "ci_token_to_untrusted_code", "docker_to_host_access", "lifecycle_to_runtime"}

SuspiciousRuntime == {"download_exec_chain", "dynamic_eval", "network_request",
    "network_exfiltration_indicator", "docker_socket_reference"}

RiskRuleIds == {"RISK001", "RISK002", "RISK003", "RISK004", "RISK005", "RISK006", "RISK007",
    "RISK008", "RISK009", "RISK010", "RISK011", "RISK012", "RISK013", "RISK014", "RISK015",
    "RISK016", "RISK017", "RISK018", "RISK019", "RISK020"}

(***************************************************************************)
(* validate_external_scanner_result: the blocking errors                   *)
(***************************************************************************)
ShapeBlocks(r) ==
    When(~r.shape, "schema_required_or_unknown_field")
    \cup When(r.authorized, "execution_authorized_must_be_false")
    \cup When(r.limits = "absent", "limitations_must_be_array")

SemanticBlocks(r) ==
    When(~r.completed /\ r.outcome = NoFindings, "scanner_incomplete_claims_no_findings")
    \cup When("scanner_failure" \in r.primary /\ r.outcome = NoFindings,
              "scanner_failure_claims_no_findings")
    \cup When(r.mode = "local_static_no_network" /\ r.network,
              "local_static_no_network_used_network")
    \cup When(r.mode = "local_static_no_network" /\ r.executed,
              "local_static_no_network_executed_target_code")
    \cup When(r.mode = "imported_report" /\ r.retained, "imported_report_raw_output_retained")
    \cup When(r.unsupported /\ r.outcome = NoFindings, "unsupported_version_claims_no_findings")
    \cup When(r.limits = "empty", "limitations_empty")
    \cup When(r.low_trust /\ r.outcome = NoFindings /\ ~r.safe_mapping,
              "low_trust_no_finding_attempts_to_lower_or_clear_risk")

\* Every raised flag, an unvalidated redaction and a host path in any string block
RedactionBlocks(r) == r.redaction

BlockingErrors(r) == ShapeBlocks(r) \cup SemanticBlocks(r) \cup RedactionBlocks(r)

validate_external_scanner_result(r) == BlockingErrors(r) = {}

(***************************************************************************)
(* The rules of policies/external-scanner-risk-policy.v0.1.json            *)
(***************************************************************************)
RuleTier(rule) ==
    CASE rule \in {"RISK001", "RISK002", "RISK013", "RISK017", "RISK019"} -> "raise_to_T5"
      [] rule \in {"RISK004", "RISK007", "RISK009", "RISK018"} -> "T5_candidate"
      [] rule = "RISK014" -> "raise_to_T3"
      [] rule = "RISK016" -> "raise_to_T2"
      [] rule = "RISK020" -> "none"
      [] OTHER -> "raise_to_T4"

RuleGate(rule) ==
    CASE rule \in {"RISK002", "RISK017", "RISK018", "RISK019"} -> "quarantine"
      [] rule \in {"RISK004", "RISK007", "RISK009"} -> "requires_dedicated_vm"
      [] rule \in {"RISK001", "RISK008", "RISK010", "RISK013"} -> "blocks_live_execution"
      [] rule = "RISK014" -> "raises_risk"
      [] rule \in {"RISK016", "RISK020"} -> "evidence_only"
      [] OTHER -> "requires_human_review"

RuleBlocks(rule) ==
    RuleGate(rule) \in {"blocks_live_execution", "requires_dedicated_vm", "quarantine"}
RuleReview(rule) == RuleGate(rule) \notin {"evidence_only", "raises_risk"}

(***************************************************************************)
(* map_external_scanner_risk                                               *)
(***************************************************************************)
HasNetworkSignal(r) ==
    r.secondary \cap {"network_request", "network_exfiltration_indicator"} # {}
    \/ "credential_to_network" \in r.relations

HasCredentialNetworkChain(r) ==
    r.secondary \cap {"credential_path_reference", "host_home_reference"} # {} /\ HasNetworkSignal(r)

FiredRules(r) ==
    LET s == r.secondary  t == r.tokens  e == r.relations
    IN When(s \cap {"verified_secret", "secret_like_value"} # {}, "RISK001")
       \cup When("raw_secret_present" \in r.redaction \/ "raw_secret_leak" \in s, "RISK002")
       \cup When("credential_path_reference" \in s, "RISK003")
       \cup When(HasCredentialNetworkChain(r), "RISK004")
       \cup When({"install_script_execution", "download_exec_chain"} \subseteq s, "RISK005")
       \cup When({"obfuscation", "dynamic_eval"} \subseteq s, "RISK006")
       \cup When({"obfuscation", "dynamic_eval"} \subseteq s /\ HasNetworkSignal(r), "RISK007")
       \cup When("docker_socket_reference" \in s, "RISK008")
       \cup When("docker_socket_reference" \in s
                 /\ ("docker_to_host_access" \in e \/ "subprocess_indicator" \in t), "RISK009")
       \cup When(s \cap {"host_home_reference", "raw_host_path_leak"} # {}
                 \/ "raw_host_path_present" \in r.redaction, "RISK010")
       \cup When("pull_request_target_misuse" \in s
                 /\ ("untrusted_checkout" \in t \/ "ci_token_to_untrusted_code" \in e), "RISK011")
       \cup When({"broad_token_permission", "unpinned_action"} \subseteq s, "RISK012")
       \cup When("verified_secret" \in s
                 /\ ("ci_exposure" \in t \/ "ci_token_to_untrusted_code" \in e), "RISK013")
       \cup When("known_critical_vulnerability" \in s, "RISK014")
       \cup When("known_critical_vulnerability" \in s
                 /\ (s \cap SuspiciousRuntime # {} \/ "lifecycle_to_runtime" \in e), "RISK015")
       \cup When("low_security_posture" \in s, "RISK016")
       \cup When("scanner_failure" \in r.primary /\ r.outcome = NoFindings, "RISK017")
       \cup When(r.unsupported, "RISK018")
       \cup When(r.limits # "listed", "RISK019")
       \cup When(r.low_trust /\ r.outcome = NoFindings, "RISK020")

\* _check_interpretability: the listed name "unknown" counts as unknown too; what the mapper cannot interpret raises the risk
UnknownCategory(r) == ~(r.primary \subseteq KnownPrimary /\ r.secondary \subseteq KnownSecondary)
UnknownRelation(r) == ~(r.relations \subseteq SupportedRelations)

\* Rules absent from the loaded policy, unknown names and invalid results quarantine
FailClosed(r, policy) ==
    ~(RiskRuleIds \subseteq policy) \/ r.unknown_names \/ ~validate_external_scanner_result(r)

MappedGates(r, policy) ==
    LET effects == {RuleGate(rule) : rule \in FiredRules(r) \cap policy}
                   \cup When(UnknownCategory(r) \/ UnknownRelation(r), "requires_human_review")
                   \cup When(FailClosed(r, policy), "quarantine")
    IN IF effects = {} THEN {"evidence_only"} ELSE effects

MappedTiers(r, policy) ==
    {RuleTier(rule) : rule \in FiredRules(r) \cap policy}
    \cup When(UnknownCategory(r) \/ FailClosed(r, policy), "T5_candidate")

TierOrder == <<"none", "raise_to_T2", "raise_to_T3", "raise_to_T4", "T5_candidate", "raise_to_T5">>
TierRank(tier) == CHOOSE i \in DOMAIN TierOrder : TierOrder[i] = tier

HighestTier(tiers) ==
    IF tiers = {} THEN "none"
    ELSE CHOOSE t \in tiers : \A u \in tiers : TierRank(u) <= TierRank(t)

map_external_scanner_risk(r, policy) ==
    LET gates == MappedGates(r, policy)
        fired == FiredRules(r) \cap policy
    IN [tier |-> HighestTier(MappedTiers(r, policy)), gates |-> gates,
        requires_human_review |-> (\E rule \in fired : RuleReview(rule))
                                  \/ "requires_human_review" \in gates,
        blocks_live_execution |-> (\E rule \in fired : RuleBlocks(rule))
                                  \/ gates \cap {"blocks_live_execution", "quarantine"} # {},
        requires_dedicated_vm |-> "requires_dedicated_vm" \in gates,
        quarantine |-> "quarantine" \in gates]
=============================================================================
