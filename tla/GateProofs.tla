----------------------------- MODULE GateProofs -----------------------------
(***************************************************************************)
(* What the gate's verdict says about the evidence, for every policy,      *)
(* subject, budget of references and set of evidence, and what gate-check  *)
(* authorizes, for every target, evidence file, approval and interleaving  *)
(* with their owners.                                                      *)
(***************************************************************************)
EXTENDS GateEvidence, GateCheck, FiniteSetTheorems, TLAPS

(***************************************************************************)
(* The strongest candidate                                                 *)
(***************************************************************************)
\* A verdict an authorization may unlock has no stronger candidate beside it.
LEMMA UnlockableCandidates ==
    ASSUME NEW c, strongest_verdict(c) \in Unlockable
    PROVE  "block" \notin c /\ "quarantine" \notin c /\ "unknown" \notin c
BY DEF strongest_verdict, Unlockable

\* strongest_verdict is monotone: where every strong candidate of c has one at least as strong in d, so has the verdict.
LEMMA StrongestMonotone ==
    ASSUME NEW c, NEW d,
           "block" \in c => "block" \in d,
           "quarantine" \in c => "quarantine" \in d \/ "block" \in d,
           "unknown" \in c => "unknown" \in d \/ "quarantine" \in d \/ "block" \in d,
           "warn" \in c => "warn" \in d
    PROVE  VerdictRank(strongest_verdict(d)) >= VerdictRank(strongest_verdict(c))
BY DEF VerdictRank, VerdictOrder, strongest_verdict

\* Nothing is stronger than the block of an invalid decision.
LEMMA BlockIsStrongest ==
    ASSUME NEW c
    PROVE  VerdictRank("block") >= VerdictRank(strongest_verdict(c))
BY DEF VerdictRank, VerdictOrder, strongest_verdict

(***************************************************************************)
(* UnlockableIsClean: a state predicate, from the candidates alone         *)
(***************************************************************************)
\* The mapping of a result warns at most only if the result is valid and no rule asked for more.
LEMMA QuietMappingIsClean ==
    ASSUME NEW r,
           LET m == map_external_scanner_risk(r, RiskRuleIds)
           IN ~m.quarantine /\ ~m.blocks_live_execution /\ ~m.requires_human_review
    PROVE  /\ validate_external_scanner_result(r)
           /\ \A rule \in FiredRules(r) : ~RuleBlocks(rule) /\ ~RuleReview(rule)
<1>1. /\ "quarantine" \notin MappedGates(r, RiskRuleIds)
      /\ \A rule \in FiredRules(r) \cap RiskRuleIds : ~RuleBlocks(rule) /\ ~RuleReview(rule)
    BY DEF map_external_scanner_risk
<1>2. ~FailClosed(r, RiskRuleIds)
    BY <1>1 DEF MappedGates, When
<1>3. validate_external_scanner_result(r)
    BY <1>2 DEF FailClosed
<1>4. FiredRules(r) \subseteq RiskRuleIds
    BY DEF FiredRules, RiskRuleIds, When
<1> QED
    BY <1>1, <1>3, <1>4

\* An entry whose candidates leave the verdict unlockable completed, is verified and maps to nothing worse than a warning.
LEMMA CleanEntry ==
    ASSUME NEW e, "block" \notin EntryCandidates(e), "quarantine" \notin EntryCandidates(e),
           "unknown" \notin EntryCandidates(e)
    PROVE  /\ EntryCompleted(e) /\ e.result.binary # "unverified"
           /\ validate_external_scanner_result(e.result)
           /\ \A rule \in FiredRules(e.result) : ~RuleBlocks(rule) /\ ~RuleReview(rule)
<1> DEFINE m == map_external_scanner_risk(e.result, RiskRuleIds)
<1>1. EntryCompleted(e)
    BY DEF EntryCandidates
<1>2. e.result.binary # "unverified"
    BY <1>1 DEF EntryCandidates, When
<1>3. "block" \notin ExternalMappingVerdict(m) /\ "quarantine" \notin ExternalMappingVerdict(m)
    BY <1>1 DEF EntryCandidates, When
<1>4. ~m.quarantine /\ ~m.blocks_live_execution /\ ~m.requires_human_review
    <2> HIDE DEF m
    <2> QED
        BY <1>3 DEF ExternalMappingVerdict
<1> QED
    BY <1>1, <1>2, <1>4, QuietMappingIsClean

\* In every state a verdict that may be unlocked was reached over clean evidence only.
LEMMA UnlockableState == UnlockableIsClean
<1> SUFFICES ASSUME verdict \in Unlockable
             PROVE  UnlockableIsClean
    BY DEF UnlockableIsClean
<1> DEFINE spoken == EvidenceCandidates(items, Policy, scans, reports)
           all == spoken \cup LowTrustCandidates(items, spoken) \cup PolicyCandidates(items, Policy)
<1>1. strongest_verdict(all) \in Unlockable
    BY DEF verdict, Verdict, CandidateVerdict, Unlockable
<1>2. "block" \notin spoken /\ "quarantine" \notin spoken /\ "unknown" \notin spoken
    <2> HIDE DEF spoken
    <2> QED
        BY <1>1, UnlockableCandidates
<1>3. ASSUME NEW e \in items
      PROVE  validate_evidence(e) /\ e.binding # "unbound" /\ e.effect # "block"
    <2>1. "block" \notin ItemCandidates(e, Policy) /\ "unknown" \notin ItemCandidates(e, Policy)
        BY <1>2, <1>3 DEF EvidenceCandidates
    <2> QED
        BY <2>1 DEF ItemCandidates, When
<1>4. ASSUME NEW e \in reports
      PROVE  e.normalized /\ e.signals = {}
    <2> DEFINE heard == IF e.normalized /\ e.signals \subseteq SandboxSignals
                        THEN e.signals ELSE {"invalid"}
    <2>1. \A s \in heard : SignalVerdict(s) \in spoken
        BY <1>4 DEF EvidenceCandidates, SandboxCandidates
    <2>2. \A s \in heard : FALSE
        <3> HIDE DEF heard
        <3> QED
            BY <2>1, <1>2 DEF SignalVerdict
    <2> QED
        BY <2>2
<1>5. ASSUME NEW s \in scans
      PROVE  s.valid /\ \A e \in s.entries :
                /\ EntryCompleted(e) /\ e.result.binary # "unverified"
                /\ validate_external_scanner_result(e.result)
                /\ \A rule \in FiredRules(e.result) : ~RuleBlocks(rule) /\ ~RuleReview(rule)
    <2>1. s.valid
        BY <1>2, <1>5 DEF EvidenceCandidates, SuiteCandidates
    <2>2. ASSUME NEW e \in s.entries
          PROVE  /\ "block" \notin EntryCandidates(e) /\ "quarantine" \notin EntryCandidates(e)
                 /\ "unknown" \notin EntryCandidates(e)
        BY <1>2, <1>5, <2>1, <2>2 DEF EvidenceCandidates, SuiteCandidates
    <2> QED
        BY <2>1, <2>2, CleanEntry
<1> QED
    BY <1>3, <1>4, <1>5 DEF UnlockableIsClean

\* evaluate_gate_decision says warn or allow_limited only when nothing supplied was invalid, incomplete,
\* unbound, unverified or blocking, whatever the policy and however much was supplied.
THEOREM UnlockableMeansClean == EvidenceSpec => []UnlockableIsClean
BY UnlockableState, PTL

(***************************************************************************)
(* Steps: evidence is only added, and finitely much of it                  *)
(***************************************************************************)
Finite == IsFiniteSet(scans) /\ IsFiniteSet(reports)

\* No step of the caller makes the evidence infinite, so references can be counted.
LEMMA FiniteInvariant == EvidenceSpec => []Finite
<1>1. InitEvidence => Finite
    BY FS_EmptySet DEF InitEvidence, Finite
<1>2. Finite /\ [AddEvidence]_evidence => Finite'
    <2> SUFFICES ASSUME Finite, [AddEvidence]_evidence PROVE Finite'
        OBVIOUS
    <2>1. CASE AddItem
        BY <2>1 DEF AddItem, Finite
    <2>2. CASE AddSandbox
        BY <2>2, FS_AddElement DEF AddSandbox, Finite
    <2>3. CASE AddSuite
        BY <2>3, FS_AddElement DEF AddSuite, Finite
    <2>4. CASE AddFinding
        <3>1. PICK s, new :
                s \in scans /\ scans' = (scans \ {s}) \cup {new} /\ reports' = reports
            BY <2>4 DEF AddFinding
        <3>2. IsFiniteSet(scans \ {s})
            BY FS_RemoveElement DEF Finite
        <3> QED
            BY <3>1, <3>2, FS_AddElement DEF Finite
    <2>5. CASE UNCHANGED evidence
        BY <2>5 DEF evidence, Finite
    <2> QED
        BY <2>1, <2>2, <2>3, <2>4, <2>5 DEF AddEvidence
<1> QED
    BY <1>1, <1>2, PTL DEF EvidenceSpec

\* References of fewer pieces of evidence fit where those of more did.
LEMMA FewerRefsFit ==
    ASSUME NEW s1, NEW s2, NEW b1, NEW b2, s1 \subseteq s2, b1 \subseteq b2,
           IsFiniteSet(s2), IsFiniteSet(b2), EvidenceRefsValid(s2, b2)
    PROVE  EvidenceRefsValid(s1, b1)
<1>1. /\ Cardinality(s1) \in Nat /\ Cardinality(s2) \in Nat /\ Cardinality(s1) <= Cardinality(s2)
      /\ Cardinality(b1) \in Nat /\ Cardinality(b2) \in Nat /\ Cardinality(b1) <= Cardinality(b2)
    BY FS_Subset, FS_CardinalityType
<1>2. MaxRefs \in Nat
    BY MaxRefsPositive
<1> QED
    BY <1>1, <1>2 DEF EvidenceRefsValid

(***************************************************************************)
(* SandboxNeverImproves                                                    *)
(***************************************************************************)
\* A signal of the sandbox is unknown or worse.
LEMMA SignalsAreStrong ==
    ASSUME NEW b
    PROVE  SandboxCandidates(b) \subseteq {"unknown", "quarantine", "block"}
<1>1. \A s : SignalVerdict(s) \in {"unknown", "quarantine", "block"}
    BY DEF SignalVerdict
<1> QED
    BY <1>1 DEF SandboxCandidates

\* More sandbox evidence has all the candidates of less.
LEMMA SandboxAccumulates ==
    ASSUME NEW b1, NEW b2, b1 \subseteq b2
    PROVE  SandboxCandidates(b1) \subseteq SandboxCandidates(b2)
BY DEF SandboxCandidates

\* More sandbox evidence beside the same items and suites never weakens the candidates' verdict: where it silences the
\* low-trust rule, its own signals are at least as strong.
LEMMA SandboxWeighs ==
    ASSUME NEW i, NEW p, NEW s, NEW b1, NEW b2, b1 \subseteq b2
    PROVE  VerdictRank(CandidateVerdict(i, p, s, b2)) >= VerdictRank(CandidateVerdict(i, p, s, b1))
<1> DEFINE rest == (UNION {ItemCandidates(e, p) : e \in i})
                   \cup When(i = {}, "unknown") \cup SuiteCandidates(s)
           old == SandboxCandidates(b1)
           new == SandboxCandidates(b2)
           P == PolicyCandidates(i, p)
           L(spoken) == LowTrustCandidates(i, spoken)
<1>1. old \subseteq new /\ new \subseteq {"unknown", "quarantine", "block"}
    BY SandboxAccumulates, SignalsAreStrong
<1>2. /\ EvidenceCandidates(i, p, s, b1) = rest \cup old
      /\ EvidenceCandidates(i, p, s, b2) = rest \cup new
    BY DEF EvidenceCandidates
<1>3. \A c : /\ L(c) \subseteq {"unknown"}
             /\ "unknown" \in L(c) => c = {}
    BY DEF LowTrustCandidates, When
<1>4. /\ CandidateVerdict(i, p, s, b1) = strongest_verdict(rest \cup old \cup L(rest \cup old) \cup P)
      /\ CandidateVerdict(i, p, s, b2) = strongest_verdict(rest \cup new \cup L(rest \cup new) \cup P)
    BY <1>2 DEF CandidateVerdict
<1>5. "unknown" \in L(rest \cup old)
        => "unknown" \in L(rest \cup new) \/ new \cap {"unknown", "quarantine", "block"} # {}
    <2>1. CASE rest \cup new = rest \cup old
        BY <2>1
    <2>2. CASE rest \cup new # rest \cup old
        <3> HIDE DEF rest, old, new, L
        <3> QED
            BY <2>2, <1>1, <1>3
    <2> QED
        BY <2>1, <2>2
<1> HIDE DEF rest, old, new, L, P
<1> QED
    BY <1>1, <1>3, <1>4, <1>5, StrongestMonotone

\* A step that adds a report of the sandbox.
LEMMA SandboxReportWeighs ==
    ASSUME Finite, Finite', [AddEvidence]_evidence, reports' # reports
    PROVE  VerdictRank(verdict') >= VerdictRank(verdict)
<1>1. items' = items /\ scans' = scans /\ reports \subseteq reports'
    BY DEF AddEvidence, AddItem, AddSandbox, AddSuite, AddFinding, evidence
<1>2. CASE ~validate_gate_decision(Subject, scans', reports')
    <2>1. verdict' = "block"
        BY <1>2 DEF verdict, Verdict
    <2>2. verdict = "block" \/ \E c : verdict = strongest_verdict(c)
        BY DEF verdict, Verdict, CandidateVerdict
    <2>3. VerdictRank("block") >= VerdictRank("block")
        BY DEF VerdictRank, VerdictOrder
    <2> QED
        BY <2>1, <2>2, <2>3, BlockIsStrongest
<1>3. CASE validate_gate_decision(Subject, scans', reports')
    <2>1. validate_gate_decision(Subject, scans, reports)
        BY <1>1, <1>3, FewerRefsFit DEF validate_gate_decision, Finite
    <2>2. /\ verdict = CandidateVerdict(items, Policy, scans, reports)
          /\ verdict' = CandidateVerdict(items, Policy, scans, reports')
        BY <1>1, <1>3, <2>1 DEF verdict, Verdict
    <2> QED
        BY <1>1, <2>2, SandboxWeighs
<1> QED
    BY <1>2, <1>3

\* A report of the sandbox never moves the verdict towards allow_limited, whatever else was supplied (design 12.6).
THEOREM SandboxOnlyWeighs == EvidenceSpec => SandboxNeverImproves
<1>1. /\ Finite /\ Finite' /\ [AddEvidence]_evidence
      => [reports' # reports => VerdictRank(verdict') >= VerdictRank(verdict)]_evidence
    BY SandboxReportWeighs
<1> QED
    BY <1>1, FiniteInvariant, PTL DEF EvidenceSpec, SandboxNeverImproves

(***************************************************************************)
(* SuccessChangesNothing                                                   *)
(***************************************************************************)
\* A sandbox run without signals has no candidate.
LEMMA QuietSandboxIsSilent ==
    ASSUME NEW b1, NEW b2, b1 \subseteq b2,
           \A e \in b2 \ b1 : e.normalized /\ e.signals = {}
    PROVE  SandboxCandidates(b2) = SandboxCandidates(b1)
<1> DEFINE heard(e) == {SignalVerdict(s) : s \in IF e.normalized /\ e.signals \subseteq SandboxSignals
                                                  THEN e.signals ELSE {"invalid"}}
<1>1. \A e \in b2 \ b1 : heard(e) = {}
    OBVIOUS
<1>2. SandboxCandidates(b1) = UNION {heard(e) : e \in b1}
    BY DEF SandboxCandidates
<1>3. SandboxCandidates(b2) = UNION {heard(e) : e \in b2}
    BY DEF SandboxCandidates
<1> HIDE DEF heard
<1> QED
    BY <1>1, <1>2, <1>3

\* A completed scan without findings has no candidate.
LEMMA QuietSuiteIsSilent ==
    ASSUME NEW s1, NEW s2, s1 \subseteq s2, \A s \in s2 \ s1 : QuietSuite(s)
    PROVE  SuiteCandidates(s2) = SuiteCandidates(s1)
<1> DEFINE said(s) == IF s.valid THEN UNION {EntryCandidates(e) : e \in s.entries} ELSE {"unknown"}
<1>1. ASSUME NEW s \in s2 \ s1
      PROVE  said(s) = {}
    <2>1. s.valid /\ \A e \in s.entries : EntryCandidates(e) = {}
        BY <1>1 DEF QuietSuite, EntryCandidates, When
    <2> QED
        BY <2>1
<1>2. SuiteCandidates(s1) = UNION {said(s) : s \in s1}
    BY DEF SuiteCandidates
<1>3. SuiteCandidates(s2) = UNION {said(s) : s \in s2}
    BY DEF SuiteCandidates
<1> HIDE DEF said
<1> QED
    BY <1>1, <1>2, <1>3

\* Evidence of success leaves the verdict exactly as it was: no clean sandbox run and no clean scan is ever worth
\* anything to the gate (the budget of references apart).
THEOREM SuccessIsWorthNothing == EvidenceSpec => SuccessChangesNothing
<1> DEFINE Quiet == /\ items' = items /\ EvidenceRefsValid(scans', reports')
                    /\ \A e \in reports' \ reports : e.normalized /\ e.signals = {}
                    /\ scans \subseteq scans' /\ \A s \in scans' \ scans : QuietSuite(s)
<1>1. ASSUME Finite, Finite', [AddEvidence]_evidence, Quiet
      PROVE  verdict' = verdict
    <2>1. reports \subseteq reports'
        BY <1>1 DEF AddEvidence, AddItem, AddSandbox, AddSuite, AddFinding, evidence
    <2>2. /\ SandboxCandidates(reports') = SandboxCandidates(reports)
          /\ SuiteCandidates(scans') = SuiteCandidates(scans)
        BY <1>1, <2>1, QuietSandboxIsSilent, QuietSuiteIsSilent
    <2>3. EvidenceRefsValid(scans, reports)
        BY <1>1, <2>1, FewerRefsFit DEF Finite
    <2>4. CandidateVerdict(items', Policy, scans', reports')
            = CandidateVerdict(items, Policy, scans, reports)
        BY <1>1, <2>2 DEF CandidateVerdict, EvidenceCandidates
    <2> QED
        BY <1>1, <2>3, <2>4 DEF verdict, Verdict, validate_gate_decision
<1>2. Finite /\ Finite' /\ [AddEvidence]_evidence => [Quiet => verdict' = verdict]_evidence
    BY <1>1
<1> QED
    BY <1>2, FiniteInvariant, PTL DEF EvidenceSpec, SuccessChangesNothing

(***************************************************************************)
(* EvidenceIsOneWay: one more finding in a result that was validated       *)
(***************************************************************************)
\* ALLOWED_OUTCOMES of result_validator.py
Outcomes == {NoFindings, "findings_present", "block", "unknown", "not_applicable"}
ScannerResult ==
    [shape : BOOLEAN, outcome : Outcomes, completed : BOOLEAN, mode : STRING, network : BOOLEAN, executed : BOOLEAN,
     retained : BOOLEAN, unsupported : BOOLEAN, authorized : BOOLEAN, limits : STRING, low_trust : BOOLEAN,
     safe_mapping : BOOLEAN, redaction : SUBSET STRING, primary : SUBSET STRING, secondary : SUBSET STRING,
     tokens : SUBSET STRING, relations : SUBSET STRING, unknown_names : BOOLEAN, binary : STRING]
FindingFacts == [primary : SUBSET STRING, secondary : SUBSET STRING, tokens : SUBSET STRING, relations : SUBSET STRING]
SuiteEntry == [valid : BOOLEAN, status : STRING, result : ScannerResult \cup {NULL}, finding_count : Nat]

\* A suite whose completed entries carry results that the validator accepts
SuiteOK(s) ==
    /\ s = [path |-> s.path, valid |-> s.valid, entries |-> s.entries, ref |-> s.ref]
    /\ s.entries \subseteq SuiteEntry
    /\ \A e \in s.entries : EntryCompleted(e) => validate_external_scanner_result(e.result)

\* The suites are the tool's own: trivy_adapter, gitleaks_adapter and osv_scanner_adapter mark an entry valid only with
\* a result that the validator accepts.  Without this a result refused for claiming silence, which the mapper
\* quarantines, would be accepted once it reports a finding.
SuitesAreValidated ==
    NULL \notin ScannerResult /\ Findings \subseteq FindingFacts /\ \A s \in Suites : SuiteOK(s)

\* A result with one more finding, field by field
LEMMA FindingFields ==
    ASSUME NEW r \in ScannerResult, NEW f \in FindingFacts
    PROVE  LET q == WithFinding(r, f)
           IN /\ q \in ScannerResult /\ q.outcome = "findings_present"
              /\ q.primary = r.primary \cup f.primary /\ q.secondary = r.secondary \cup f.secondary
              /\ q.tokens = r.tokens \cup f.tokens /\ q.relations = r.relations \cup f.relations
              /\ q.shape = r.shape /\ q.mode = r.mode /\ q.network = r.network /\ q.executed = r.executed
              /\ q.retained = r.retained /\ q.unsupported = r.unsupported /\ q.authorized = r.authorized
              /\ q.limits = r.limits /\ q.redaction = r.redaction /\ q.unknown_names = r.unknown_names
              /\ q.binary = r.binary
<1> DEFINE q == WithFinding(r, f)
<1>1. q = [k \in DOMAIN r |-> q[k]]
    BY DEF WithFinding
<1>2. DOMAIN q = DOMAIN r
    BY DEF WithFinding
<1>3. /\ DOMAIN r = {"shape", "outcome", "completed", "mode", "network", "executed", "retained", "unsupported",
                     "authorized", "limits", "low_trust", "safe_mapping", "redaction", "primary", "secondary",
                     "tokens", "relations", "unknown_names", "binary"}
    BY DEF ScannerResult
<1>4. /\ q.outcome = "findings_present"
      /\ q.primary = r.primary \cup f.primary /\ q.secondary = r.secondary \cup f.secondary
      /\ q.tokens = r.tokens \cup f.tokens /\ q.relations = r.relations \cup f.relations
    BY <1>3 DEF WithFinding
<1>5. /\ q.shape = r.shape /\ q.mode = r.mode /\ q.network = r.network /\ q.executed = r.executed
      /\ q.retained = r.retained /\ q.unsupported = r.unsupported /\ q.authorized = r.authorized
      /\ q.limits = r.limits /\ q.redaction = r.redaction /\ q.unknown_names = r.unknown_names
      /\ q.binary = r.binary /\ q.completed = r.completed /\ q.low_trust = r.low_trust
      /\ q.safe_mapping = r.safe_mapping
    BY <1>3 DEF WithFinding
<1>6. /\ r.shape \in BOOLEAN /\ r.completed \in BOOLEAN /\ r.mode \in STRING
      /\ r.network \in BOOLEAN /\ r.executed \in BOOLEAN /\ r.retained \in BOOLEAN
      /\ r.unsupported \in BOOLEAN /\ r.authorized \in BOOLEAN /\ r.limits \in STRING
      /\ r.low_trust \in BOOLEAN /\ r.safe_mapping \in BOOLEAN /\ r.redaction \in SUBSET STRING
      /\ r.primary \in SUBSET STRING /\ r.secondary \in SUBSET STRING /\ r.tokens \in SUBSET STRING
      /\ r.relations \in SUBSET STRING /\ r.unknown_names \in BOOLEAN /\ r.binary \in STRING
    BY DEF ScannerResult
<1>8. /\ f.primary \subseteq STRING /\ f.secondary \subseteq STRING /\ f.tokens \subseteq STRING
      /\ f.relations \subseteq STRING
    BY DEF FindingFacts
<1>9. /\ q.primary \subseteq STRING /\ q.secondary \subseteq STRING /\ q.tokens \subseteq STRING
      /\ q.relations \subseteq STRING
    <2> HIDE DEF q
    <2> QED
        BY <1>4, <1>6, <1>8
<1>7. q \in ScannerResult
    <2> HIDE DEF q
    <2>1. /\ q.shape \in BOOLEAN /\ q.completed \in BOOLEAN /\ q.network \in BOOLEAN /\ q.executed \in BOOLEAN
          /\ q.retained \in BOOLEAN /\ q.unsupported \in BOOLEAN /\ q.authorized \in BOOLEAN
          /\ q.low_trust \in BOOLEAN /\ q.safe_mapping \in BOOLEAN /\ q.unknown_names \in BOOLEAN
        BY <1>5, <1>6, Zenon
    <2>2. /\ q.mode \in STRING /\ q.limits \in STRING /\ q.binary \in STRING /\ q.redaction \in SUBSET STRING
        BY <1>5, <1>6, Zenon
    <2>3. q.outcome \in Outcomes
        BY <1>4 DEF Outcomes
    <2> QED
        BY <1>1, <1>2, <1>3, <1>9, <2>1, <2>2, <2>3 DEF ScannerResult
<1> QED
    BY <1>4, <1>5, <1>7

\* It stays valid: what the validator refuses beside findings it refused before
LEMMA FindingStaysValid ==
    ASSUME NEW r \in ScannerResult, NEW f \in FindingFacts, validate_external_scanner_result(r)
    PROVE  validate_external_scanner_result(WithFinding(r, f))
<1> DEFINE q == WithFinding(r, f)
<1>1. /\ q.outcome = "findings_present" /\ q.shape = r.shape /\ q.mode = r.mode /\ q.network = r.network
      /\ q.executed = r.executed /\ q.retained = r.retained /\ q.authorized = r.authorized
      /\ q.limits = r.limits /\ q.redaction = r.redaction
    BY FindingFields
<1> HIDE DEF q
<1>2. ShapeBlocks(r) = {} /\ SemanticBlocks(r) = {} /\ RedactionBlocks(r) = {}
    BY DEF validate_external_scanner_result, BlockingErrors
<1>3. ShapeBlocks(q) = {} /\ RedactionBlocks(q) = {}
    BY <1>1, <1>2 DEF ShapeBlocks, RedactionBlocks, When
<1>4. SemanticBlocks(q) = {}
    BY <1>1, <1>2 DEF SemanticBlocks, When, NoFindings
<1> QED
    BY <1>3, <1>4 DEF validate_external_scanner_result, BlockingErrors, q

\* Every rule but the one about silence that fired fires again
LEMMA RulesAccumulate ==
    ASSUME NEW r \in ScannerResult, NEW f \in FindingFacts, validate_external_scanner_result(r)
    PROVE  FiredRules(r) \ {"RISK020"} \subseteq FiredRules(WithFinding(r, f))
<1> DEFINE q == WithFinding(r, f)
<1>1. /\ r.secondary \subseteq q.secondary /\ r.tokens \subseteq q.tokens /\ r.relations \subseteq q.relations
      /\ q.unsupported = r.unsupported /\ q.limits = r.limits /\ q.redaction = r.redaction
    BY FindingFields
<1>2. ~("scanner_failure" \in r.primary /\ r.outcome = NoFindings)
    <2>1. SemanticBlocks(r) = {}
        BY DEF validate_external_scanner_result, BlockingErrors
    <2> QED
        BY <2>1 DEF SemanticBlocks, When
<1> HIDE DEF q
<1>3. HasNetworkSignal(r) => HasNetworkSignal(q)
    BY <1>1 DEF HasNetworkSignal
<1>4. HasCredentialNetworkChain(r) => HasCredentialNetworkChain(q)
    BY <1>1, <1>3 DEF HasCredentialNetworkChain
<1> SUFFICES ASSUME NEW rule \in FiredRules(r), rule # "RISK020" PROVE rule \in FiredRules(q)
    BY DEF q
<1>5. CASE rule \in {"RISK001", "RISK002", "RISK003", "RISK004", "RISK005", "RISK006", "RISK007"}
    BY <1>1, <1>3, <1>4, <1>5 DEF FiredRules, When
<1>6. CASE rule \in {"RISK008", "RISK009", "RISK010", "RISK011", "RISK012", "RISK013"}
    BY <1>1, <1>6 DEF FiredRules, When
<1>7. CASE rule \in {"RISK014", "RISK015", "RISK016", "RISK017", "RISK018", "RISK019"}
    BY <1>1, <1>2, <1>7 DEF FiredRules, When
<1>8. FiredRules(r) \subseteq RiskRuleIds
    BY DEF FiredRules, RiskRuleIds, When
<1> QED
    BY <1>5, <1>6, <1>7, <1>8 DEF RiskRuleIds

\* The order of the tiers
LEMMA TierRanks ==
    /\ TierRank("none") = 1 /\ TierRank("raise_to_T2") = 2 /\ TierRank("raise_to_T3") = 3
    /\ TierRank("raise_to_T4") = 4 /\ TierRank("T5_candidate") = 5 /\ TierRank("raise_to_T5") = 6
<1>1. /\ DOMAIN TierOrder = 1..6
      /\ TierOrder[1] = "none" /\ TierOrder[2] = "raise_to_T2" /\ TierOrder[3] = "raise_to_T3"
      /\ TierOrder[4] = "raise_to_T4" /\ TierOrder[5] = "T5_candidate" /\ TierOrder[6] = "raise_to_T5"
    BY DEF TierOrder
<1>2. \A i \in 1..6 : i \in {1, 2, 3, 4, 5, 6}
    OBVIOUS
<1>3. ASSUME NEW i \in 1..6 PROVE TierRank(TierOrder[i]) = i
    <2>1. \A j \in 1..6 : TierOrder[j] = TierOrder[i] => j = i
        BY <1>1, <1>2
    <2> QED
        BY <1>1, <2>1 DEF TierRank
<1>4. /\ TierRank(TierOrder[1]) = 1 /\ TierRank(TierOrder[2]) = 2 /\ TierRank(TierOrder[3]) = 3
      /\ TierRank(TierOrder[4]) = 4 /\ TierRank(TierOrder[5]) = 5 /\ TierRank(TierOrder[6]) = 6
    BY <1>3
<1> QED
    BY <1>1, <1>4

Tiers == {"none", "raise_to_T2", "raise_to_T3", "raise_to_T4", "T5_candidate", "raise_to_T5"}

\* Of several tiers the highest is one of them and ranks above the others
LEMMA HighestIsTop ==
    ASSUME NEW T, T \subseteq Tiers, T # {}
    PROVE  HighestTier(T) \in T /\ \A u \in T : TierRank(u) <= TierRank(HighestTier(T))
<1> DEFINE top(t) == \A u \in T : TierRank(u) <= TierRank(t)
<1>1. \E t \in T : top(t)
    <2>1. CASE "raise_to_T5" \in T
        BY <2>1, TierRanks DEF Tiers
    <2>2. CASE "raise_to_T5" \notin T /\ "T5_candidate" \in T
        BY <2>2, TierRanks DEF Tiers
    <2>3. CASE "raise_to_T5" \notin T /\ "T5_candidate" \notin T /\ "raise_to_T4" \in T
        BY <2>3, TierRanks DEF Tiers
    <2>4. CASE T \cap {"raise_to_T5", "T5_candidate", "raise_to_T4"} = {} /\ "raise_to_T3" \in T
        BY <2>4, TierRanks DEF Tiers
    <2>5. CASE T \subseteq {"none", "raise_to_T2"} /\ "raise_to_T2" \in T
        BY <2>5, TierRanks
    <2>6. CASE T = {"none"}
        BY <2>6, TierRanks
    <2> QED
        BY <2>1, <2>2, <2>3, <2>4, <2>5, <2>6 DEF Tiers
<1>2. HighestTier(T) = CHOOSE t \in T : top(t)
    BY DEF HighestTier
<1> HIDE DEF top
<1>3. HighestTier(T) \in T /\ top(HighestTier(T))
    BY <1>1, <1>2
<1> QED
    BY <1>3 DEF top

\* More tiers never make a lower one; a tier that says nothing does not count
LEMMA TiersAccumulate ==
    ASSUME NEW T, NEW U, T \subseteq Tiers, U \subseteq Tiers, T \ {"none"} \subseteq U
    PROVE  /\ TierRank(HighestTier(T)) <= TierRank(HighestTier(U))
           /\ HighestTier(T) # "none" => HighestTier(U) # "none"
<1>1. \A t \in Tiers : TierRank(t) \in 1..6 /\ (TierRank(t) = 1 => t = "none")
    BY TierRanks DEF Tiers
<1>2. HighestTier({}) = "none" /\ "none" \in Tiers /\ TierRank("none") = 1
    BY TierRanks DEF HighestTier, Tiers
<1>3. HighestTier(T) \in Tiers /\ HighestTier(U) \in Tiers
    BY <1>2, HighestIsTop
<1>4. CASE HighestTier(T) = "none"
    BY <1>1, <1>2, <1>3, <1>4
<1>5. CASE HighestTier(T) # "none"
    <2>1. HighestTier(T) \in T
        BY <1>2, <1>5, HighestIsTop
    <2>2. HighestTier(T) \in U /\ TierRank(HighestTier(T)) <= TierRank(HighestTier(U))
        BY <1>5, <2>1, HighestIsTop
    <2>3. TierRank(HighestTier(T)) # 1
        BY <1>1, <1>3, <1>5
    <2> QED
        BY <1>1, <1>2, <1>3, <2>2, <2>3
<1> QED
    BY <1>4, <1>5

\* A rule asks for a known tier, and the rule about silence for nothing
LEMMA RuleTiers ==
    /\ \A rule : RuleTier(rule) \in Tiers
    /\ RuleTier("RISK020") = "none" /\ RuleGate("RISK020") = "evidence_only"
    /\ ~RuleBlocks("RISK020") /\ ~RuleReview("RISK020")
BY DEF RuleTier, RuleGate, RuleBlocks, RuleReview, Tiers

\* The mapper's tiers are known ones
LEMMA MappedTiersKnown ==
    ASSUME NEW r
    PROVE  MappedTiers(r, RiskRuleIds) \subseteq Tiers
<1>1. "T5_candidate" \in Tiers
    BY DEF Tiers
<1> QED
    BY <1>1, RuleTiers DEF MappedTiers, When

\* Nor does a mapping rank below itself
LEMMA MappingRanks ==
    ASSUME NEW r
    PROVE  LET m == map_external_scanner_risk(r, RiskRuleIds)
           IN m.tier \in Tiers /\ TierRank(m.tier) \in 1..6
<1>1. HighestTier(MappedTiers(r, RiskRuleIds)) \in Tiers
    <2>1. CASE MappedTiers(r, RiskRuleIds) = {}
        BY <2>1 DEF HighestTier, Tiers
    <2>2. CASE MappedTiers(r, RiskRuleIds) # {}
        BY <2>2, MappedTiersKnown, HighestIsTop
    <2> QED
        BY <2>1, <2>2
<1>2. \A t \in Tiers : TierRank(t) \in 1..6
    BY TierRanks DEF Tiers
<1> QED
    BY <1>1, <1>2 DEF map_external_scanner_risk

\* What could not be interpreted stays so: names only accumulate
LEMMA UnknownsAccumulate ==
    ASSUME NEW r \in ScannerResult, NEW f \in FindingFacts, validate_external_scanner_result(r)
    PROVE  LET q == WithFinding(r, f)
           IN /\ UnknownCategory(r) => UnknownCategory(q)
              /\ UnknownRelation(r) => UnknownRelation(q)
              /\ FailClosed(r, RiskRuleIds) => FailClosed(q, RiskRuleIds)
<1> DEFINE q == WithFinding(r, f)
<1>1. /\ r.primary \subseteq q.primary /\ r.secondary \subseteq q.secondary /\ r.relations \subseteq q.relations
      /\ q.unknown_names = r.unknown_names
    BY FindingFields
<1> HIDE DEF q
<1>2. (UnknownCategory(r) => UnknownCategory(q)) /\ (UnknownRelation(r) => UnknownRelation(q))
    BY <1>1 DEF UnknownCategory, UnknownRelation
<1>3. FailClosed(r, RiskRuleIds) => FailClosed(q, RiskRuleIds)
    BY <1>1 DEF FailClosed
<1> QED
    BY <1>2, <1>3 DEF q

\* map_external_scanner_risk accumulates: one more finding takes back nothing that the mapping of a valid result
\* asked for
LEMMA MappingAccumulates ==
    ASSUME NEW r \in ScannerResult, NEW f \in FindingFacts, validate_external_scanner_result(r)
    PROVE  LET m == map_external_scanner_risk(r, RiskRuleIds)
               n == map_external_scanner_risk(WithFinding(r, f), RiskRuleIds)
           IN /\ TierRank(m.tier) <= TierRank(n.tier) /\ (m.tier # "none" => n.tier # "none")
              /\ m.gates \ {"evidence_only"} \subseteq n.gates
              /\ m.requires_human_review => n.requires_human_review
              /\ m.blocks_live_execution => n.blocks_live_execution
              /\ m.requires_dedicated_vm => n.requires_dedicated_vm
              /\ m.quarantine => n.quarantine
<1> DEFINE q == WithFinding(r, f)
           m == map_external_scanner_risk(r, RiskRuleIds)
           n == map_external_scanner_risk(q, RiskRuleIds)
<1>1. /\ FiredRules(r) \ {"RISK020"} \subseteq FiredRules(q)
      /\ UnknownCategory(r) => UnknownCategory(q)
      /\ UnknownRelation(r) => UnknownRelation(q)
      /\ FailClosed(r, RiskRuleIds) => FailClosed(q, RiskRuleIds)
    BY RulesAccumulate, UnknownsAccumulate
<1> HIDE DEF q
<1>2. MappedGates(r, RiskRuleIds) \ {"evidence_only"} \subseteq MappedGates(q, RiskRuleIds)
    BY <1>1, RuleTiers DEF MappedGates, When
<1>3. MappedTiers(r, RiskRuleIds) \ {"none"} \subseteq MappedTiers(q, RiskRuleIds)
    BY <1>1, RuleTiers DEF MappedTiers, When
<1>4. /\ m.tier = HighestTier(MappedTiers(r, RiskRuleIds)) /\ n.tier = HighestTier(MappedTiers(q, RiskRuleIds))
      /\ m.gates = MappedGates(r, RiskRuleIds) /\ n.gates = MappedGates(q, RiskRuleIds)
    BY DEF map_external_scanner_risk
<1>5. /\ m.requires_human_review => n.requires_human_review
      /\ m.blocks_live_execution => n.blocks_live_execution
      /\ m.requires_dedicated_vm => n.requires_dedicated_vm
      /\ m.quarantine => n.quarantine
    BY <1>1, <1>2, RuleTiers DEF map_external_scanner_risk
<1>6. TierRank(m.tier) <= TierRank(n.tier) /\ (m.tier # "none" => n.tier # "none")
    BY <1>3, <1>4, MappedTiersKnown, TiersAccumulate
<1> QED
    BY <1>2, <1>4, <1>5, <1>6 DEF q

\* The candidates an entry can have
LEMMA EntryVerdicts ==
    ASSUME NEW e
    PROVE  EntryCandidates(e) \subseteq {"warn", "unknown", "quarantine", "block"}
BY DEF EntryCandidates, ExternalMappingVerdict, When

\* An entry whose scanner found one thing more
Found(e, f) == [e EXCEPT !.result = WithFinding(@, f), !.finding_count = 1]

\* An entry with one more finding still says what it said, or something stronger; only a block may become quarantine
LEMMA EntryWeighs ==
    ASSUME NEW e \in SuiteEntry, NEW f \in FindingFacts, EntryCompleted(e), NULL \notin ScannerResult,
           validate_external_scanner_result(e.result)
    PROVE  /\ Found(e, f) \in SuiteEntry /\ EntryCompleted(Found(e, f))
           /\ Found(e, f).result = WithFinding(e.result, f)
           /\ validate_external_scanner_result(Found(e, f).result)
           /\ "unknown" \in EntryCandidates(e) => "unknown" \in EntryCandidates(Found(e, f))
           /\ "block" \in EntryCandidates(e) \/ "quarantine" \in EntryCandidates(e)
                 => "block" \in EntryCandidates(Found(e, f)) \/ "quarantine" \in EntryCandidates(Found(e, f))
           /\ EntryCandidates(Found(e, f)) \cap {"warn", "quarantine", "block"} # {}
<1> DEFINE new == Found(e, f)
           r == e.result
           q == WithFinding(r, f)
           m == map_external_scanner_risk(r, RiskRuleIds)
           n == map_external_scanner_risk(q, RiskRuleIds)
<1>1. r \in ScannerResult
    BY DEF EntryCompleted, SuiteEntry
<1>2. q \in ScannerResult /\ q.binary = r.binary /\ validate_external_scanner_result(q)
    BY <1>1, FindingFields, FindingStaysValid
<1>3. /\ m.requires_human_review => n.requires_human_review
      /\ m.blocks_live_execution => n.blocks_live_execution
      /\ m.requires_dedicated_vm => n.requires_dedicated_vm
      /\ m.quarantine => n.quarantine
    BY <1>1, MappingAccumulates
<1>4. new.result = q /\ new.finding_count = 1 /\ new.valid = e.valid /\ new.status = e.status
    BY DEF SuiteEntry, Found
<1>5. new \in SuiteEntry
    BY <1>2 DEF SuiteEntry, Found
<1> HIDE DEF r, q, m, n, new
<1>6. EntryCompleted(new)
    BY <1>2, <1>4 DEF EntryCompleted
<1>7. /\ EntryCandidates(e) = When(r.binary = "unverified", "unknown")
            \cup (IF ExternalMappingVerdict(m) = {} THEN When(e.finding_count # 0, "warn")
                  ELSE ExternalMappingVerdict(m))
      /\ EntryCandidates(new) = When(q.binary = "unverified", "unknown")
            \cup (IF ExternalMappingVerdict(n) = {} THEN {"warn"} ELSE ExternalMappingVerdict(n))
    BY <1>4, <1>6 DEF EntryCandidates, When, r, m, n
<1>8. /\ ExternalMappingVerdict(m) \in {{}, {"warn"}, {"quarantine"}, {"block"}}
      /\ ExternalMappingVerdict(n) \in {{}, {"warn"}, {"quarantine"}, {"block"}}
      /\ ExternalMappingVerdict(m) \in {{"quarantine"}, {"block"}}
            => ExternalMappingVerdict(n) \in {{"quarantine"}, {"block"}}
    BY <1>3 DEF ExternalMappingVerdict, When
<1>9. /\ "unknown" \in EntryCandidates(e) => "unknown" \in EntryCandidates(new)
      /\ "block" \in EntryCandidates(e) \/ "quarantine" \in EntryCandidates(e)
            => "block" \in EntryCandidates(new) \/ "quarantine" \in EntryCandidates(new)
      /\ EntryCandidates(new) \cap {"warn", "quarantine", "block"} # {}
    BY <1>2, <1>7, <1>8 DEF When
<1> QED
    BY <1>2, <1>4, <1>5, <1>6, <1>9 DEF new, q, r

(***************************************************************************)
(* EvidenceIsOneWay: the suites supplied so far and the steps over them    *)
(***************************************************************************)
\* One suite for each path, and what a later scan adds leaves it one of the tool's own
SuitesSupplied ==
    /\ \A s, t \in scans : s.path = t.path => s = t
    /\ \A s \in scans : SuiteOK(s)

\* The suite with one more finding in one entry
Rescanned(s, e, f) == [s EXCEPT !.entries = (@ \ {e}) \cup {Found(e, f)}]

\* It is filed where the first was, stays validated and has the other entries as they were
LEMMA RescannedSuite ==
    ASSUME SuitesAreValidated, NEW s, SuiteOK(s), NEW e \in s.entries, EntryCompleted(e), NEW f \in Findings
    PROVE  /\ SuiteOK(Rescanned(s, e, f))
           /\ Rescanned(s, e, f).path = s.path /\ Rescanned(s, e, f).valid = s.valid
           /\ Rescanned(s, e, f).entries = (s.entries \ {e}) \cup {Found(e, f)}
<1> DEFINE t == Rescanned(s, e, f)
           new == Found(e, f)
<1>1. /\ e \in SuiteEntry /\ f \in FindingFacts /\ NULL \notin ScannerResult
      /\ validate_external_scanner_result(e.result)
    BY DEF SuitesAreValidated, SuiteOK
<1>2. new \in SuiteEntry /\ validate_external_scanner_result(new.result)
    BY <1>1, EntryWeighs
<1> HIDE DEF new
<1>3. s = [path |-> s.path, valid |-> s.valid, entries |-> s.entries, ref |-> s.ref]
    BY DEF SuiteOK
<1>4. t = [path |-> s.path, valid |-> s.valid, entries |-> (s.entries \ {e}) \cup {new}, ref |-> s.ref]
    BY <1>3 DEF Rescanned, new
<1>5. t.path = s.path /\ t.valid = s.valid /\ t.entries = (s.entries \ {e}) \cup {new} /\ t.ref = s.ref
    BY <1>4
<1> HIDE DEF t
<1>6. SuiteOK(t)
    BY <1>2, <1>4, <1>5 DEF SuiteOK
<1> QED
    BY <1>5, <1>6 DEF t, new

\* AddFinding, with the suite it replaces
LEMMA FindingStep ==
    ASSUME SuitesAreValidated, SuitesSupplied, AddFinding
    PROVE  \E s \in scans : \E e \in s.entries : \E f \in Findings :
              /\ EntryCompleted(e) /\ SuiteOK(s)
              /\ scans' = (scans \ {s}) \cup {Rescanned(s, e, f)}
              /\ items' = items /\ reports' = reports
BY Zenon DEF AddFinding, Rescanned, Found, SuitesSupplied

\* The caller keeps one validated suite for each path
LEMMA SuitesStaySupplied ==
    ASSUME SuitesAreValidated
    PROVE  EvidenceSpec => []SuitesSupplied
<1>1. InitEvidence => SuitesSupplied
    BY DEF InitEvidence, SuitesSupplied
<1>2. ASSUME SuitesSupplied, [AddEvidence]_evidence
      PROVE  SuitesSupplied'
    <2>1. CASE scans' = scans
        BY <1>2, <2>1 DEF SuitesSupplied
    <2>2. CASE AddSuite
        <3>1. PICK s \in Suites : (\A t \in scans : t.path # s.path) /\ scans' = scans \cup {s}
            BY <2>2 DEF AddSuite
        <3>2. SuiteOK(s)
            BY DEF SuitesAreValidated
        <3> QED
            BY <1>2, <3>1, <3>2 DEF SuitesSupplied
    <2>3. CASE AddFinding
        <3>1. PICK s, e, f :
                /\ s \in scans /\ e \in s.entries /\ f \in Findings /\ EntryCompleted(e) /\ SuiteOK(s)
                /\ scans' = (scans \ {s}) \cup {Rescanned(s, e, f)}
            BY <1>2, <2>3, FindingStep
        <3>2. SuiteOK(Rescanned(s, e, f)) /\ Rescanned(s, e, f).path = s.path
            BY <3>1, RescannedSuite
        <3> QED
            BY <1>2, <3>1, <3>2 DEF SuitesSupplied
    <2> QED
        BY <1>2, <2>1, <2>2, <2>3 DEF AddEvidence, AddItem, AddSandbox, evidence
<1>3. SuitesSupplied /\ [AddEvidence]_evidence => SuitesSupplied'
    BY <1>2
<1> QED
    BY <1>1, <1>3, PTL DEF EvidenceSpec

\* What MappingNeverLowers says of one step
MappingKept ==
    \A s \in scans : \A t \in scans' :
        s.path = t.path /\ s # t =>
            \A r \in EntryResults({s}) : \E q \in EntryResults({t}) :
                LET old == map_external_scanner_risk(r, RiskRuleIds)
                    new == map_external_scanner_risk(q, RiskRuleIds)
                IN /\ TierRank(old.tier) <= TierRank(new.tier)
                   /\ old.gates \ {"evidence_only"} \subseteq new.gates
                   /\ old.blocks_live_execution => new.blocks_live_execution

\* A suite changes by one finding in one entry, and the mapping of that entry only rises
LEMMA MappingStep ==
    ASSUME SuitesAreValidated, SuitesSupplied, [AddEvidence]_evidence
    PROVE  MappingKept
<1> SUFFICES ASSUME NEW s \in scans, NEW t \in scans', s.path = t.path, s # t, NEW r \in EntryResults({s})
             PROVE  \E q \in EntryResults({t}) :
                        LET old == map_external_scanner_risk(r, RiskRuleIds)
                            new == map_external_scanner_risk(q, RiskRuleIds)
                        IN /\ TierRank(old.tier) <= TierRank(new.tier)
                           /\ old.gates \ {"evidence_only"} \subseteq new.gates
                           /\ old.blocks_live_execution => new.blocks_live_execution
    BY DEF MappingKept
<1>1. scans' # scans
    BY DEF SuitesSupplied
<1>2. ~AddSuite
    BY DEF AddSuite, SuitesSupplied
<1>3. AddFinding
    BY <1>1, <1>2 DEF AddEvidence, AddItem, AddSandbox, evidence
<1>4. PICK z, e, f :
        /\ z \in scans /\ e \in z.entries /\ f \in Findings /\ EntryCompleted(e) /\ SuiteOK(z)
        /\ scans' = (scans \ {z}) \cup {Rescanned(z, e, f)}
    BY <1>3, FindingStep
<1> DEFINE new == Found(e, f)
<1>5. Rescanned(z, e, f).path = z.path /\ Rescanned(z, e, f).entries = (z.entries \ {e}) \cup {new}
    BY <1>4, RescannedSuite
<1>6. t = Rescanned(z, e, f) /\ s = z
    BY <1>4, <1>5 DEF SuitesSupplied
<1>7. /\ e \in SuiteEntry /\ f \in FindingFacts /\ NULL \notin ScannerResult
      /\ validate_external_scanner_result(e.result)
    BY <1>4 DEF SuitesAreValidated, SuiteOK
<1>8. e.result \in ScannerResult
    BY <1>4, <1>7 DEF EntryCompleted, SuiteEntry
<1>9. EntryCompleted(new) /\ new.result = WithFinding(e.result, f)
    BY <1>4, <1>7, EntryWeighs
<1> HIDE DEF new
<1>10. PICK x \in s.entries : EntryCompleted(x) /\ r = x.result
    BY DEF EntryResults
<1>11. CASE x = e
    <2>1. WithFinding(r, f) \in EntryResults({t})
        BY <1>5, <1>6, <1>9, <1>10, <1>11 DEF EntryResults
    <2> QED
        BY <1>7, <1>8, <1>10, <1>11, <2>1, MappingAccumulates
<1>12. CASE x # e
    <2>1. r \in EntryResults({t})
        BY <1>5, <1>6, <1>10, <1>12 DEF EntryResults
    <2>2. TierRank(map_external_scanner_risk(r, RiskRuleIds).tier)
            <= TierRank(map_external_scanner_risk(r, RiskRuleIds).tier)
        BY MappingRanks
    <2> QED
        BY <2>1, <2>2
<1> QED
    BY <1>11, <1>12

(***************************************************************************)
(* EvidenceIsOneWay: the verdict over more suites and more findings        *)
(***************************************************************************)
\* Where the candidates of d answer those of c, and only a block may be answered by quarantine, no other verdict yields
LEMMA OnlyBlockYields ==
    ASSUME NEW c, NEW d,
           "block" \in c \/ "quarantine" \in c => "block" \in d \/ "quarantine" \in d,
           "unknown" \in c => "unknown" \in d,
           "warn" \in c => d \cap {"warn", "unknown", "quarantine", "block"} # {},
           VerdictRank(strongest_verdict(d)) < VerdictRank(strongest_verdict(c))
    PROVE  /\ strongest_verdict(c) = "block" /\ strongest_verdict(d) = "quarantine"
           /\ "block" \in c /\ "block" \notin d
BY DEF VerdictRank, VerdictOrder, strongest_verdict

\* Where c was the low-trust rule's unknown beside p, and d holds p and some candidate of its own, only that
\* unknown yields
LEMMA OnlySilenceYields ==
    ASSUME NEW p, NEW d, p \subseteq d, d \cap {"warn", "unknown", "quarantine", "block"} # {},
           VerdictRank(strongest_verdict(d)) < VerdictRank(strongest_verdict({"unknown"} \cup p))
    PROVE  strongest_verdict({"unknown"} \cup p) = "unknown" /\ strongest_verdict(d) = "warn"
BY DEF VerdictRank, VerdictOrder, strongest_verdict

\* A verdict does not rank below itself
LEMMA RankIrreflexive ==
    ASSUME NEW c
    PROVE  ~(VerdictRank(strongest_verdict(c)) < VerdictRank(strongest_verdict(c)))
BY DEF VerdictRank, VerdictOrder, strongest_verdict

\* Suites whose candidates answer those of other suites lower the verdict in two ways only: they silence the low-trust
\* rule with a warning, or they turn a block of the mapping into quarantine
LEMMA SuitesWeigh ==
    ASSUME NEW i, NEW p, NEW b, NEW S, NEW T,
           "block" \in SuiteCandidates(S) \/ "quarantine" \in SuiteCandidates(S)
                => "block" \in SuiteCandidates(T) \/ "quarantine" \in SuiteCandidates(T),
           "unknown" \in SuiteCandidates(S) => "unknown" \in SuiteCandidates(T),
           SuiteCandidates(S) # {} => SuiteCandidates(T) # {},
           SuiteCandidates(T) \subseteq {"warn", "unknown", "quarantine", "block"},
           VerdictRank(CandidateVerdict(i, p, T, b)) < VerdictRank(CandidateVerdict(i, p, S, b))
    PROVE  \/ /\ CandidateVerdict(i, p, S, b) = "unknown" /\ CandidateVerdict(i, p, T, b) = "warn"
              /\ LowTrustCandidates(i, EvidenceCandidates(i, p, S, b)) # {} /\ S # T
           \/ /\ CandidateVerdict(i, p, S, b) = "block" /\ CandidateVerdict(i, p, T, b) = "quarantine"
              /\ "block" \in SuiteCandidates(S) /\ "block" \notin SuiteCandidates(T)
<1> DEFINE rest == (UNION {ItemCandidates(e, p) : e \in i})
                   \cup When(i = {}, "unknown") \cup SandboxCandidates(b)
           old == SuiteCandidates(S)
           new == SuiteCandidates(T)
           P == PolicyCandidates(i, p)
           L(spoken) == LowTrustCandidates(i, spoken)
           c == rest \cup old \cup L(rest \cup old) \cup P
           d == rest \cup new \cup L(rest \cup new) \cup P
<1>1. EvidenceCandidates(i, p, S, b) = rest \cup old /\ EvidenceCandidates(i, p, T, b) = rest \cup new
    BY DEF EvidenceCandidates
<1>2. CandidateVerdict(i, p, S, b) = strongest_verdict(c) /\ CandidateVerdict(i, p, T, b) = strongest_verdict(d)
    BY <1>1 DEF CandidateVerdict
<1>3. \A x : L(x) = {} \/ (L(x) = {"unknown"} /\ x = {})
    BY DEF LowTrustCandidates, When
<1>4. CASE L(rest \cup old) = {}
    <2>1. c = rest \cup old \cup P /\ rest \cup new \cup P \subseteq d
        BY <1>4
    <2> HIDE DEF rest, old, new, P, L, c, d
    <2>2. /\ "block" \in c \/ "quarantine" \in c => "block" \in d \/ "quarantine" \in d
          /\ "unknown" \in c => "unknown" \in d
          /\ "warn" \in c => d \cap {"warn", "unknown", "quarantine", "block"} # {}
        BY <2>1 DEF old, new
    <2>3. /\ strongest_verdict(c) = "block" /\ strongest_verdict(d) = "quarantine"
          /\ "block" \in c /\ "block" \notin d
        BY <1>2, <2>2, OnlyBlockYields
    <2> QED
        BY <1>2, <2>1, <2>3 DEF old, new
<1>5. CASE L(rest \cup old) # {}
    <2>1. rest = {} /\ old = {} /\ L(rest \cup old) = {"unknown"}
        BY <1>3, <1>5
    <2>2. new # {}
        <3> SUFFICES ASSUME new = {} PROVE FALSE
            OBVIOUS
        <3>1. c = d
            BY <2>1
        <3> QED
            BY <1>2, <3>1, RankIrreflexive
    <2>3. c = {"unknown"} \cup P /\ P \subseteq d /\ d \cap {"warn", "unknown", "quarantine", "block"} # {}
        <3> HIDE DEF rest, P, L, old
        <3>1. new \subseteq d /\ new \subseteq {"warn", "unknown", "quarantine", "block"}
            OBVIOUS
        <3> QED
            BY <2>1, <2>2, <3>1
    <2> HIDE DEF P, c, d
    <2>4. strongest_verdict(c) = "unknown" /\ strongest_verdict(d) = "warn"
        BY <1>2, <2>3, OnlySilenceYields
    <2> QED
        BY <1>1, <1>2, <1>5, <2>1, <2>2, <2>4
<1> QED
    BY <1>4, <1>5

\* The candidates suites can have
LEMMA SuiteVerdicts ==
    ASSUME NEW S
    PROVE  SuiteCandidates(S) \subseteq {"warn", "unknown", "quarantine", "block"}
BY EntryVerdicts DEF SuiteCandidates

\* With one more finding in one entry the suites still say what they said, or something stronger; only a block may
\* become quarantine
LEMMA RescannedSuitesWeigh ==
    ASSUME SuitesAreValidated, NEW S, NEW s \in S, SuiteOK(s), NEW e \in s.entries, EntryCompleted(e),
           NEW f \in Findings
    PROVE  LET old == SuiteCandidates(S)
               new == SuiteCandidates((S \ {s}) \cup {Rescanned(s, e, f)})
           IN /\ "block" \in old \/ "quarantine" \in old => "block" \in new \/ "quarantine" \in new
              /\ "unknown" \in old => "unknown" \in new
              /\ new # {}
<1> DEFINE said(x) == IF x.valid THEN UNION {EntryCandidates(y) : y \in x.entries} ELSE {"unknown"}
           t == Rescanned(s, e, f)
           T == (S \ {s}) \cup {t}
<1>1. t.valid = s.valid /\ t.entries = (s.entries \ {e}) \cup {Found(e, f)}
    BY RescannedSuite
<1>2. /\ "unknown" \in EntryCandidates(e) => "unknown" \in EntryCandidates(Found(e, f))
      /\ "block" \in EntryCandidates(e) \/ "quarantine" \in EntryCandidates(e)
            => "block" \in EntryCandidates(Found(e, f)) \/ "quarantine" \in EntryCandidates(Found(e, f))
      /\ EntryCandidates(Found(e, f)) \cap {"warn", "quarantine", "block"} # {}
    BY EntryWeighs DEF SuitesAreValidated, SuiteOK
<1> HIDE DEF t
<1>3. /\ "block" \in said(s) \/ "quarantine" \in said(s) => "block" \in said(t) \/ "quarantine" \in said(t)
      /\ "unknown" \in said(s) => "unknown" \in said(t)
      /\ said(t) # {}
    <2>1. CASE ~s.valid
        BY <1>1, <2>1
    <2>2. CASE s.valid
        <3>1. said(s) = UNION {EntryCandidates(y) : y \in s.entries}
            BY <2>2
        <3>2. said(t) = UNION {EntryCandidates(y) : y \in (s.entries \ {e}) \cup {Found(e, f)}}
            BY <1>1, <2>2
        <3>3. said(s) \subseteq EntryCandidates(e) \cup UNION {EntryCandidates(y) : y \in s.entries \ {e}}
            BY <3>1
        <3>4. said(t) = EntryCandidates(Found(e, f)) \cup UNION {EntryCandidates(y) : y \in s.entries \ {e}}
            BY <3>2
        <3> HIDE DEF said
        <3> QED
            BY <1>2, <3>3, <3>4
    <2> QED
        BY <2>1, <2>2
<1>4. SuiteCandidates(S) = UNION {said(x) : x \in S} /\ SuiteCandidates(T) = UNION {said(x) : x \in T}
    BY DEF SuiteCandidates
<1> HIDE DEF said
<1>5. /\ SuiteCandidates(S) \subseteq said(s) \cup UNION {said(x) : x \in S \ {s}}
      /\ SuiteCandidates(T) = said(t) \cup UNION {said(x) : x \in S \ {s}}
    BY <1>4
<1> QED
    BY <1>3, <1>5 DEF t

\* What EvidenceNeverReopens says of one step
DecisionKept ==
    items' = items /\ VerdictRank(verdict') < VerdictRank(verdict) =>
        \/ /\ verdict = "unknown" /\ verdict' = "warn" /\ scans' # scans
           /\ LowTrustCandidates(items, EvidenceCandidates(items, Policy, scans, reports)) # {}
        \/ /\ verdict = "block" /\ verdict' = "quarantine"
           /\ Cardinality(scans') = Cardinality(scans)

\* Every rank is that of a verdict, and none is above a block
LEMMA NothingAboveBlock == ~(VerdictRank("block") < VerdictRank(verdict))
<1>1. verdict = "block" \/ \E c : verdict = strongest_verdict(c)
    BY DEF verdict, Verdict, CandidateVerdict
<1> QED
    BY <1>1 DEF VerdictRank, VerdictOrder, strongest_verdict

\* One more suite beside the others never reopens a decision, save the low-trust rule's
LEMMA SuiteStep ==
    ASSUME Finite, Finite', AddSuite
    PROVE  DecisionKept
<1> SUFFICES ASSUME VerdictRank(verdict') < VerdictRank(verdict)
             PROVE  /\ verdict = "unknown" /\ verdict' = "warn" /\ scans' # scans
                    /\ LowTrustCandidates(items, EvidenceCandidates(items, Policy, scans, reports)) # {}
    BY DEF DecisionKept
<1>1. items' = items /\ reports' = reports /\ scans \subseteq scans'
    BY DEF AddSuite
<1>2. validate_gate_decision(Subject, scans', reports')
    <2> SUFFICES ASSUME ~validate_gate_decision(Subject, scans', reports') PROVE FALSE
        OBVIOUS
    <2>1. verdict' = "block"
        BY DEF verdict, Verdict
    <2> QED
        BY <2>1, NothingAboveBlock
<1>3. validate_gate_decision(Subject, scans, reports)
    BY <1>1, <1>2, FewerRefsFit DEF validate_gate_decision, Finite
<1>4. /\ verdict = CandidateVerdict(items, Policy, scans, reports)
      /\ verdict' = CandidateVerdict(items, Policy, scans', reports)
    BY <1>1, <1>2, <1>3 DEF verdict, Verdict
<1>5. SuiteCandidates(scans) \subseteq SuiteCandidates(scans')
    BY <1>1 DEF SuiteCandidates
<1>6. SuiteCandidates(scans') \subseteq {"warn", "unknown", "quarantine", "block"}
    BY SuiteVerdicts
<1> QED
    BY <1>4, <1>5, <1>6, SuitesWeigh

\* One more finding never reopens a decision, save the low-trust rule's and a block of the mapping
LEMMA FindingStepKeeps ==
    ASSUME SuitesAreValidated, SuitesSupplied, Finite, AddFinding
    PROVE  DecisionKept
<1> SUFFICES ASSUME VerdictRank(verdict') < VerdictRank(verdict)
             PROVE  \/ /\ verdict = "unknown" /\ verdict' = "warn" /\ scans' # scans
                       /\ LowTrustCandidates(items, EvidenceCandidates(items, Policy, scans, reports)) # {}
                    \/ /\ verdict = "block" /\ verdict' = "quarantine"
                       /\ Cardinality(scans') = Cardinality(scans)
    BY DEF DecisionKept
<1>1. PICK s, e, f :
        /\ s \in scans /\ e \in s.entries /\ f \in Findings /\ EntryCompleted(e) /\ SuiteOK(s)
        /\ scans' = (scans \ {s}) \cup {Rescanned(s, e, f)}
        /\ items' = items /\ reports' = reports
    BY FindingStep
<1>2. Cardinality(scans') = Cardinality(scans)
    <2>1. Rescanned(s, e, f) \notin scans \ {s}
        <3>1. Rescanned(s, e, f).path = s.path
            BY <1>1, RescannedSuite
        <3> QED
            BY <1>1, <3>1 DEF SuitesSupplied
    <2>2. IsFiniteSet(scans \ {s}) /\ Cardinality(scans \ {s}) = Cardinality(scans) - 1
        BY <1>1, FS_RemoveElement DEF Finite
    <2>3. Cardinality(scans') = Cardinality(scans \ {s}) + 1
        BY <1>1, <2>1, <2>2, FS_AddElement
    <2> QED
        BY <2>2, <2>3, FS_CardinalityType DEF Finite
<1>3. validate_gate_decision(Subject, scans', reports') = validate_gate_decision(Subject, scans, reports)
    BY <1>1, <1>2 DEF validate_gate_decision, EvidenceRefsValid
<1>4. validate_gate_decision(Subject, scans', reports')
    <2> SUFFICES ASSUME ~validate_gate_decision(Subject, scans', reports') PROVE FALSE
        OBVIOUS
    <2>1. verdict' = "block"
        BY DEF verdict, Verdict
    <2> QED
        BY <2>1, NothingAboveBlock
<1>5. /\ verdict = CandidateVerdict(items, Policy, scans, reports)
      /\ verdict' = CandidateVerdict(items, Policy, scans', reports)
    BY <1>1, <1>3, <1>4 DEF verdict, Verdict
<1>6. /\ "block" \in SuiteCandidates(scans) \/ "quarantine" \in SuiteCandidates(scans)
            => "block" \in SuiteCandidates(scans') \/ "quarantine" \in SuiteCandidates(scans')
      /\ "unknown" \in SuiteCandidates(scans) => "unknown" \in SuiteCandidates(scans')
      /\ SuiteCandidates(scans') # {}
    BY <1>1, RescannedSuitesWeigh
<1>7. SuiteCandidates(scans') \subseteq {"warn", "unknown", "quarantine", "block"}
    BY SuiteVerdicts
<1> QED
    BY <1>2, <1>5, <1>6, <1>7, SuitesWeigh

\* Evidence from outside works in one direction, for every policy and for all the evidence supplied: success changes
\* nothing, a finding never lowers the mapping, and no addition beside the same items reopens a decision.  The suites
\* are the tool's own: an adapter marks an entry valid only with a result that its validator accepts.
THEOREM EvidenceIsOneWayHolds ==
    ASSUME SuitesAreValidated
    PROVE  EvidenceSpec => EvidenceIsOneWay
<1>1. ASSUME SuitesSupplied, Finite, Finite', [AddEvidence]_evidence, ~UNCHANGED evidence
      PROVE  DecisionKept
    <2>1. CASE AddItem
        BY <2>1 DEF AddItem, DecisionKept
    <2>2. CASE AddSandbox
        <3>1. VerdictRank(verdict') >= VerdictRank(verdict)
            <4>1. reports' # reports
                BY <2>2 DEF AddSandbox
            <4> QED
                BY <1>1, <4>1, SandboxReportWeighs
        <3>2. VerdictRank(verdict') \in Int /\ VerdictRank(verdict) \in Int
            <4>1. /\ verdict = "block" \/ \E c : verdict = strongest_verdict(c)
                  /\ verdict' = "block" \/ \E c : verdict' = strongest_verdict(c)
                BY DEF verdict, Verdict, CandidateVerdict
            <4> QED
                BY <4>1 DEF VerdictRank, VerdictOrder, strongest_verdict
        <3> QED
            BY <3>1, <3>2 DEF DecisionKept
    <2>3. CASE AddSuite
        BY <1>1, <2>3, SuiteStep
    <2>4. CASE AddFinding
        BY <1>1, <2>4, FindingStepKeeps
    <2> QED
        BY <1>1, <2>1, <2>2, <2>3, <2>4 DEF AddEvidence
<1>2. SuitesSupplied /\ Finite /\ Finite' /\ [AddEvidence]_evidence => [MappingKept]_evidence /\ [DecisionKept]_evidence
    BY <1>1, MappingStep
<1>3. EvidenceSpec => [][MappingKept]_evidence /\ [][DecisionKept]_evidence
    BY <1>2, FiniteInvariant, SuitesStaySupplied, PTL DEF EvidenceSpec
<1>4. EvidenceSpec => MappingNeverLowers /\ EvidenceNeverReopens
    BY <1>3 DEF MappingNeverLowers, EvidenceNeverReopens, MappingKept, DecisionKept
<1> QED
    BY <1>4, SuccessIsWorthNothing DEF EvidenceIsOneWay

(***************************************************************************)
(* gate-check: the inductive invariant                                     *)
(***************************************************************************)
\* How far a run is; a report leaves the run's own state as it was
AtLeast(steps) == pc \in steps \/ Reported
Snapped == AtLeast({"scan", "external", "baseline", "sandbox", "decide", "authorize", "report"})
Loading == AtLeast({"external", "baseline", "sandbox", "decide", "authorize", "report"})
Loaded == AtLeast({"baseline", "sandbox", "decide", "authorize", "report"})
Based == AtLeast({"sandbox", "decide", "authorize", "report"})
Gathered == AtLeast({"decide", "authorize", "report"})
Decided == AtLeast({"authorize", "report"})
Answered == AtLeast({"report"})

\* The world: targets, files at their own paths, and an approval made of the approved decision
WorldOK ==
    /\ tree \in Trees /\ clock \in Nat
    /\ files \in [EvidencePaths -> Files \cup {NULL}]
    /\ \A p \in EvidencePaths : files[p] # NULL => files[p].path = p

ApprovalOK ==
    artifact # NULL => /\ artifact.approved /\ artifact.expires \in Nat /\ artifact.version = Current
                       /\ artifact.based_on = GateReference(approved)

\* The copy of the current run is on disk from the snapshot to the end, which tries to remove it
CopyOK ==
    /\ workspace \in {"none", "present", "removed", "left"}
    /\ pc = "snapshot" \/ (pc = "idle" /\ exit # "raised") => workspace # "present"

PhaseOK ==
    /\ pc \in {"idle", "snapshot", "scan", "external", "baseline", "sandbox", "decide", "authorize", "report"}
    /\ exit \in {NULL, "authorized", "blocked", "usage", "raised"}
    /\ pc # "idle" \/ Reported => args \in Args
    /\ Snapped => \E t \in Trees : snap = Snapshot(t)
    /\ pc \in {"snapshot", "scan"} => suites = {} /\ seen = {}
    /\ pc \in {"snapshot", "scan", "external", "baseline"} => sandbox = {}
    /\ pc = "baseline" => seen = {}
    /\ pc \notin {"idle", "authorize", "report"} => decision = NULL
    /\ total \in Nat

\* Evidence is loaded in the order of the command line, path by path
PathsOf(loaded) == {e.path : e \in loaded}
LoadedInOrder(loaded, paths) ==
    /\ IsFiniteSet(loaded) /\ Cardinality(loaded) <= Len(paths)
    /\ PathsOf(loaded) = {paths[i] : i \in 1..Cardinality(loaded)}

\* seen holds the fingerprints of what was loaded before
Fingerprints(loaded) == {e.ref.report_fingerprint : e \in loaded} \ {NULL}

\* The second of two copies is invalid
NoTwoValid(loaded) ==
    \A x, y \in loaded : /\ x # y /\ x.ref.report_fingerprint = y.ref.report_fingerprint
                         /\ x.ref.report_fingerprint # NULL
                         => ~x.valid \/ ~y.valid

\* A valid piece of evidence is the report of a file about this snapshot
SuiteIsFiled(s, sn) ==
    s.valid => \E f \in Files : /\ f.report # NULL /\ f.report.shape
                                /\ s.ref.report_fingerprint = f.report.fp
                                /\ f.report.subject = SuiteSubject(sn)
ReportIsFiled(e, sn) ==
    /\ e.normalized = TRUE /\ e.signals = {} => e.valid
    /\ e.valid => \E f \in Files : /\ f.report # NULL /\ f.report.shape
                                   /\ e.ref.report_fingerprint = f.report.fp
                                   /\ SubjectMatches(f.report, SnapshotGateSubject(sn))

SuitesOK ==
    /\ IsFiniteSet(suites) /\ NoTwoValid(suites)
    /\ Loading => /\ LoadedInOrder(suites, args.external)
                  /\ \A s \in suites : SuiteIsFiled(s, snap)
    /\ pc = "external" => seen = Fingerprints(suites)
    /\ Loaded => Cardinality(suites) = Len(args.external)

SandboxOK ==
    /\ IsFiniteSet(sandbox) /\ NoTwoValid(sandbox)
    /\ \A e \in sandbox : e.normalized = TRUE
    /\ Based => /\ LoadedInOrder(sandbox, args.sandbox)
                /\ \A e \in sandbox : ReportIsFiled(e, snap)
    /\ pc = "sandbox" => seen = Fingerprints(sandbox)
    /\ Gathered => Cardinality(sandbox) = Len(args.sandbox)

\* The two decisions are evaluations of what was gathered
DecisionsOK ==
    /\ Based => baseline = evaluate_from_scan_envelope(scanned, snap, suites, {})
    /\ Decided => decision = evaluate_from_scan_envelope(scanned, snap, suites, sandbox)
    /\ \A g \in {baseline, decision, emitted, approved} \ {NULL} : g.verdict \in Verdicts

\* A valid answer of the validator was given for this decision, command and snapshot
AnswerOK ==
    Answered /\ auth # NULL =>
        /\ artifact # NULL /\ auth.artifact = artifact
        /\ auth.source = "discovered" => ~scanned.tracks_authorization
        /\ auth.valid => /\ artifact.based_on = GateReference(decision) /\ artifact.argv = args.argv
                         /\ auth.at < artifact.expires
                         /\ decision.subject.binding_kind = "snapshot_bound"
                         /\ decision.verdict \in Unlockable

ExitOK == Reported /\ exit = "authorized" => auth # NULL /\ auth.valid

CheckInv ==
    /\ WorldOK /\ ApprovalOK /\ CopyOK /\ PhaseOK /\ SuitesOK /\ SandboxOK /\ DecisionsOK /\ AnswerOK /\ ExitOK
    /\ ReturnNeverImproves

(***************************************************************************)
(* gate-check: what the validators of evidence files establish             *)
(***************************************************************************)
\* A suite that counts as valid is the report of its file, about the snapshot and not seen before
\* (validate_external_suite_evidence).
LEMMA SuiteValidated ==
    ASSUME NEW f \in Files, NEW sn, NEW past, NEW now
    PROVE  LET s == validate_external_suite_evidence(f, sn, past, now)
           IN /\ s.path = f.path /\ SuiteIsFiled(s, sn)
              /\ s.ref.report_fingerprint \in past /\ s.ref.report_fingerprint # NULL => ~s.valid
<1> DEFINE s == validate_external_suite_evidence(f, sn, past, now)
           r == Payload(f)
           reasons == SuiteReasons(f, sn, past, now)
           quiet == reasons = {}
<1>1. /\ s.path = f.path /\ s.valid = quiet
      /\ s.ref.report_fingerprint = IF r = NULL THEN NULL ELSE r.fp
    <2> HIDE DEF r, reasons, quiet
    <2>1. s = [path |-> f.path, valid |-> quiet, entries |-> IF r = NULL THEN {} ELSE r.entries,
               ref |-> [report_fingerprint |-> IF r = NULL THEN NULL ELSE r.fp,
                        generated_at |-> IF r = NULL THEN NULL ELSE r.born, reasons |-> reasons]]
        BY DEF validate_external_suite_evidence, r, reasons, quiet
    <2> HIDE DEF s
    <2> QED
        BY <2>1, Zenon
<1>2. quiet => /\ r # NULL /\ r.shape /\ r.subject = SuiteSubject(sn) /\ r.fp \notin past
    BY DEF SuiteReasons, When
<1>3. r # NULL => r = f.report
    BY DEF Payload
<1> HIDE DEF s, r, reasons, quiet
<1>4. s.valid => quiet
    BY <1>1
<1>5. SuiteIsFiled(s, sn)
    BY <1>1, <1>2, <1>3, <1>4 DEF SuiteIsFiled
<1>6. s.ref.report_fingerprint \in past => ~s.valid
    BY <1>1, <1>2, <1>4
<1> QED
    BY <1>1, <1>5, <1>6 DEF s

\* Sandbox evidence without a signal is valid, and valid evidence is the report of its file, about the snapshot of
\* the first decision and not seen before (validate_sandbox_run_evidence).
LEMMA ReportValidated ==
    ASSUME NEW f \in Files, NEW g, NEW sn, NEW past, NEW sum, NEW now, g.subject = SnapshotGateSubject(sn)
    PROVE  LET e == validate_sandbox_run_evidence(f, g, past, sum, now)
           IN /\ e.path = f.path /\ e.normalized = TRUE /\ ReportIsFiled(e, sn)
              /\ e.ref.report_fingerprint \in past /\ e.ref.report_fingerprint # NULL => ~e.valid
<1> DEFINE e == validate_sandbox_run_evidence(f, g, past, sum, now)
           r == Payload(f)
           reasons == SandboxReasons(f, g, past, sum, now)
           quiet == reasons = {}
           signals == NormalizedSignals(r) \cup ReasonSignals(reasons)
<1>1. /\ e.path = f.path /\ e.normalized = TRUE /\ e.valid = quiet /\ e.signals = signals
      /\ e.ref.report_fingerprint = IF r = NULL THEN NULL ELSE r.fp
    <2> HIDE DEF r, reasons, quiet, signals
    <2>1. e = [path |-> f.path, valid |-> quiet, normalized |-> TRUE, signals |-> signals,
               ref |-> [report_fingerprint |-> IF r = NULL THEN NULL ELSE r.fp,
                        gate_decision_fingerprint |-> IF r = NULL THEN NULL ELSE r.gate,
                        snapshot_id |-> Get(NormalizedSubject(r), "snapshot_id"),
                        manifest_fingerprint |-> Get(NormalizedSubject(r), "manifest_fingerprint"),
                        reasons |-> reasons]]
        BY DEF validate_sandbox_run_evidence, r, reasons, quiet, signals
    <2> HIDE DEF e
    <2> QED
        BY <2>1, Zenon
<1>2. quiet => /\ r # NULL /\ r.shape /\ SubjectMatches(r, g.subject) /\ r.fp \notin past
    BY DEF SandboxReasons, SandboxInvalid, When
<1>3. r # NULL => r = f.report
    BY DEF Payload
<1>4. reasons \subseteq {"sandbox_evidence_invalid", "sandbox_evidence_stale", "sandbox_evidence_subject_mismatch",
                         "sandbox_evidence_policy_mismatch", "sandbox_evidence_over_budget",
                         "sandbox_evidence_duplicate", "sandbox_evidence_truncated"}
    BY DEF SandboxReasons, When
<1>5. "sandbox_evidence_truncated" \in reasons => "truncated" \in signals
    <2>1. "sandbox_evidence_truncated" \in reasons => r # NULL /\ r.truncated
        BY DEF SandboxReasons, When
    <2> HIDE DEF r, reasons
    <2> QED
        BY <2>1 DEF NormalizedSignals, When
<1>6. ReasonSignals(reasons) = {} => reasons \subseteq {"sandbox_evidence_truncated"}
    <2> HIDE DEF reasons
    <2> QED
        BY <1>4 DEF ReasonSignals, When
<1>7. signals = {} => quiet
    <2> HIDE DEF reasons
    <2> QED
        BY <1>5, <1>6
<1> HIDE DEF e, r, reasons, quiet, signals
<1>8. e.valid <=> quiet
    BY <1>1
<1>9. ReportIsFiled(e, sn)
    BY <1>1, <1>2, <1>3, <1>7, <1>8 DEF ReportIsFiled
<1>10. e.ref.report_fingerprint \in past => ~e.valid
    BY <1>1, <1>2, <1>8
<1> QED
    BY <1>1, <1>9, <1>10 DEF e

(***************************************************************************)
(* gate-check: what the evaluation of a scanned snapshot establishes       *)
(***************************************************************************)
\* The strongest candidate is a verdict.
LEMMA StrongestIsVerdict == ASSUME NEW c PROVE strongest_verdict(c) \in Verdicts
BY DEF strongest_verdict, Verdicts

\* A decision is a record of the subject, the policy version, the verdict and the references.
LEMMA DecisionFields ==
    ASSUME NEW t, NEW sn, NEW s, NEW b
    PROVE  LET g == evaluate_from_scan_envelope(t, sn, s, b)
           IN /\ g.subject = SnapshotGateSubject(sn) /\ g.refs = EvidenceRefs(s, b)
              /\ g.verdict = Verdict(EnvelopeEvidence(t, sn), EffectivePolicy(t), s, b, SnapshotGateSubject(sn))
              /\ g.verdict \in Verdicts
<1> DEFINE v == Verdict(EnvelopeEvidence(t, sn), EffectivePolicy(t), s, b, SnapshotGateSubject(sn))
<1>1. v \in Verdicts
    BY StrongestIsVerdict DEF Verdict, CandidateVerdict, Verdicts
<1> QED
    BY <1>1 DEF evaluate_from_scan_envelope, evaluate_gate_decision

\* An unlockable decision has valid suites with nothing above a warning and sandbox evidence without signals.
LEMMA UnlockableDecision ==
    ASSUME NEW t, NEW sn, NEW s, NEW b,
           evaluate_from_scan_envelope(t, sn, s, b).verdict \in Unlockable
    PROVE  /\ \A x \in s : x.valid /\ \A e \in x.entries : EntryCandidates(e) \subseteq {"warn"}
           /\ \A e \in b : e.signals = {}
<1> DEFINE i == EnvelopeEvidence(t, sn)
           p == EffectivePolicy(t)
           spoken == EvidenceCandidates(i, p, s, b)
           all == spoken \cup LowTrustCandidates(i, spoken) \cup PolicyCandidates(i, p)
<1>1. strongest_verdict(all) \in Unlockable
    BY DecisionFields DEF Verdict, CandidateVerdict, Unlockable
<1>2. "block" \notin spoken /\ "quarantine" \notin spoken /\ "unknown" \notin spoken
    <2> HIDE DEF spoken
    <2> QED
        BY <1>1, UnlockableCandidates
<1>3. ASSUME NEW x \in s
      PROVE  x.valid /\ \A e \in x.entries : EntryCandidates(e) \subseteq {"warn"}
    <2>1. x.valid
        BY <1>2, <1>3 DEF EvidenceCandidates, SuiteCandidates
    <2>2. ASSUME NEW e \in x.entries
          PROVE  EntryCandidates(e) \subseteq {"warn"}
        <3>1. EntryCandidates(e) \subseteq {"unknown", "quarantine", "block", "warn"}
            BY DEF EntryCandidates, ExternalMappingVerdict, When
        <3>2. EntryCandidates(e) \subseteq spoken
            BY <1>3, <2>1, <2>2 DEF EvidenceCandidates, SuiteCandidates
        <3> QED
            BY <1>2, <3>1, <3>2
    <2> QED
        BY <2>1, <2>2
<1>4. ASSUME NEW e \in b
      PROVE  e.signals = {}
    <2> DEFINE heard == IF e.normalized /\ e.signals \subseteq SandboxSignals
                        THEN e.signals ELSE {"invalid"}
    <2>1. \A x \in heard : SignalVerdict(x) \in spoken
        BY <1>4 DEF EvidenceCandidates, SandboxCandidates
    <2>2. \A x \in heard : FALSE
        <3> HIDE DEF heard
        <3> QED
            BY <2>1, <1>2 DEF SignalVerdict
    <2> QED
        BY <2>2
<1> QED
    BY <1>3, <1>4

\* Evaluating again with sandbox evidence keeps every reference and never yields a weaker verdict.
LEMMA SecondEvaluation ==
    ASSUME NEW t, NEW sn, NEW s, NEW b, IsFiniteSet(s), IsFiniteSet(b)
    PROVE  LET first == evaluate_from_scan_envelope(t, sn, s, {})
               second == evaluate_from_scan_envelope(t, sn, s, b)
           IN VerdictRank(second.verdict) >= VerdictRank(first.verdict) /\ first.refs \subseteq second.refs
<1> DEFINE i == EnvelopeEvidence(t, sn)
           p == EffectivePolicy(t)
           u == SnapshotGateSubject(sn)
           first == Verdict(i, p, s, {}, u)
           second == Verdict(i, p, s, b, u)
<1>1. VerdictRank(second) >= VerdictRank(first)
    <2>1. CASE ~validate_gate_decision(u, s, b)
        <3>1. second = "block"
            BY <2>1 DEF Verdict
        <3>2. first = "block" \/ \E c : first = strongest_verdict(c)
            BY DEF Verdict, CandidateVerdict
        <3>3. VerdictRank("block") >= VerdictRank("block")
            BY DEF VerdictRank, VerdictOrder
        <3> QED
            BY <3>1, <3>2, <3>3, BlockIsStrongest
    <2>2. CASE validate_gate_decision(u, s, b)
        <3>1. validate_gate_decision(u, s, {})
            BY <2>2, FewerRefsFit DEF validate_gate_decision
        <3>2. first = CandidateVerdict(i, p, s, {}) /\ second = CandidateVerdict(i, p, s, b)
            BY <2>2, <3>1 DEF Verdict
        <3> QED
            BY <3>2, SandboxWeighs
    <2> QED
        BY <2>1, <2>2
<1>2. EvidenceRefs(s, {}) \subseteq EvidenceRefs(s, b)
    BY DEF EvidenceRefs
<1> QED
    BY <1>1, <1>2, DecisionFields

\* A valid answer was given for this very decision and command, in time, over a bound snapshot.
LEMMA ValidAnswer ==
    ASSUME NEW a, NEW g, NEW argv, NEW r, NEW now \in Nat, a.expires \in Nat, a.version = Current,
           execution_authorized(a, g, argv, r, now)
    PROVE  /\ a.based_on = GateReference(g) /\ a.argv = argv /\ now < a.expires
           /\ GateSubject(g)["binding_kind"] = "snapshot_bound" /\ g.verdict \in Unlockable
<1>1. /\ BindingErrors(a, g, argv) = {} /\ SnapshotErrors(a, g, r.observed) = {}
      /\ ExpiryErrors(a, now) = {} /\ VerdictErrors(g) = {}
    BY DEF execution_authorized, AuthorizationErrors
<1>2. a.based_on = GateReference(g) /\ a.argv = argv
    BY <1>1 DEF BindingErrors, Err
<1>3. a.expires # NULL /\ ~(a.expires <= now)
    BY <1>1 DEF ExpiryErrors, Err
<1>4. g.verdict \in Unlockable
    BY <1>1 DEF VerdictErrors, Err, Unlockable
<1>5. GateSubject(g)["binding_kind"] = "snapshot_bound"
    BY <1>1 DEF SnapshotErrors
<1> QED
    BY <1>2, <1>3, <1>4, <1>5

\* The binding kind the validator reads is that of the decision's own subject.
LEMMA BindingKindOf ==
    ASSUME NEW g, NEW sn, g.subject = SnapshotGateSubject(sn),
           GateSubject(g)["binding_kind"] = "snapshot_bound"
    PROVE  g.subject.binding_kind = "snapshot_bound"
<1>1. "binding_kind" \in DOMAIN g.subject
    BY DEF SnapshotGateSubject
<1>2. GateSubject(g)["binding_kind"] = IF Get(g.subject, "binding_kind") = NULL THEN "unbound" ELSE Get(g.subject, "binding_kind")
    BY DEF GateSubject
<1> QED
    BY <1>1, <1>2 DEF Get

(***************************************************************************)
(* gate-check: loading evidence path by path                               *)
(***************************************************************************)
\* One more file in its turn keeps the order, whether or not its evidence is new.
LEMMA LoadOne ==
    ASSUME NEW paths \in Seq(EvidencePaths), NEW loaded, LoadedInOrder(loaded, paths),
           NEW p \in Pending(paths, loaded), NEW e, e.path = p
    PROVE  p \in EvidencePaths /\ LoadedInOrder(loaded \cup {e}, paths)
<1> DEFINE n == Cardinality(loaded)
<1>1. n \in Nat /\ IsFiniteSet(loaded) /\ n <= Len(paths) /\ PathsOf(loaded) = {paths[i] : i \in 1..n}
    BY FS_CardinalityType DEF LoadedInOrder
<1>2. n + 1 \in DOMAIN paths /\ p = paths[n + 1]
    BY DEF Pending
<1>3. n + 1 <= Len(paths) /\ p \in EvidencePaths
    BY <1>1, <1>2
<1>4. IsFiniteSet(loaded \cup {e}) /\ (e \notin loaded => Cardinality(loaded \cup {e}) = n + 1)
    BY <1>1, FS_AddElement
<1>5. CASE e \in loaded
    <2>1. loaded \cup {e} = loaded
        BY <1>5
    <2> QED
        BY <2>1, <1>3
<1>6. CASE e \notin loaded
    <2>1. PathsOf(loaded \cup {e}) = PathsOf(loaded) \cup {p}
        BY DEF PathsOf
    <2>2. 1..(n + 1) = (1..n) \cup {n + 1}
        BY <1>1
    <2>3. PathsOf(loaded \cup {e}) = {paths[i] : i \in 1..(n + 1)}
        BY <1>1, <1>2, <2>1, <2>2
    <2> QED
        BY <1>3, <1>4, <1>6, <2>3 DEF LoadedInOrder
<1> QED
    BY <1>5, <1>6

\* No path is pending any more when all have been loaded.
LEMMA AllLoaded ==
    ASSUME NEW paths \in Seq(EvidencePaths), NEW loaded, LoadedInOrder(loaded, paths), Pending(paths, loaded) = {}
    PROVE  Cardinality(loaded) = Len(paths)
<1>1. Cardinality(loaded) \in Nat /\ Cardinality(loaded) <= Len(paths)
    BY FS_CardinalityType DEF LoadedInOrder
<1>2. Cardinality(loaded) + 1 \notin DOMAIN paths
    BY DEF Pending
<1> QED
    BY <1>1, <1>2

\* The fingerprint of one more piece of evidence is remembered.
LEMMA SeenGrows ==
    ASSUME NEW loaded, NEW e
    PROVE  Fingerprints(loaded \cup {e}) = Fingerprints(loaded) \cup ({e.ref.report_fingerprint} \ {NULL})
BY DEF Fingerprints

\* A piece of evidence whose fingerprint was seen is not valid, so no two valid ones share one.
LEMMA CopyRefused ==
    ASSUME NEW loaded, NEW e, NoTwoValid(loaded),
           e.ref.report_fingerprint \in Fingerprints(loaded) /\ e.ref.report_fingerprint # NULL => ~e.valid
    PROVE  NoTwoValid(loaded \cup {e})
BY DEF NoTwoValid, Fingerprints

(***************************************************************************)
(* gate-check: the steps                                                   *)
(***************************************************************************)
USE DEF AtLeast, Snapped, Loading, Loaded, Based, Gathered, Decided, Answered, Reported

\* The invariant of the run's own state: what neither the world nor the emitted decision touches
RunOK == PhaseOK /\ SuitesOK /\ SandboxOK /\ ReturnNeverImproves

\* What the world does while a run goes on leaves the run's own state alone.
LEMMA RunUndisturbed ==
    ASSUME RunOK, UNCHANGED <<pc, local, exit>>
    PROVE  RunOK'
<1>1. UNCHANGED <<pc, exit, args, snap, scanned, suites, sandbox, seen, total, baseline, decision, auth>>
    BY DEF local
<1> QED
    BY <1>1 DEF RunOK, PhaseOK, SuitesOK, SandboxOK, ReturnNeverImproves

\* Leaving early resets the run; only an exception leaves without an attempt to remove the copy.
LEMMA LeavingPreserves ==
    ASSUME CheckInv, NEW code \in {"usage", "raised"}, Leave(code),
           workspace' \in {"none", "present", "removed", "left"}, code # "raised" => workspace' # "present",
           UNCHANGED <<world, runs, baseline, decision>>, emitted' \in {emitted, decision}
    PROVE  CheckInv'
<1>1. UNCHANGED <<tree, files, artifact, approved, clock, replaced>>
    BY DEF world
<1>2. WorldOK' /\ ApprovalOK'
    BY <1>1 DEF CheckInv, WorldOK, ApprovalOK
<1>3. ~Reported' /\ pc' = "idle"
    BY GateCheckConstants DEF Leave
<1>4. CopyOK'
    BY <1>3 DEF CopyOK, Leave
<1>5. IsFiniteSet({}) /\ NoTwoValid({})
    BY FS_EmptySet DEF NoTwoValid
<1>6. PhaseOK' /\ SuitesOK' /\ SandboxOK'
    BY <1>3, <1>5 DEF CheckInv, PhaseOK, SuitesOK, SandboxOK, Leave
<1>7. DecisionsOK' /\ ReturnNeverImproves'
    BY <1>1, <1>3 DEF CheckInv, DecisionsOK, ReturnNeverImproves
<1>8. AnswerOK' /\ ExitOK'
    BY <1>3 DEF AnswerOK, ExitOK
<1> QED
    BY <1>2, <1>4, <1>6, <1>7, <1>8 DEF CheckInv

\* A use error removes the copy, as far as the removal succeeds.
LEMMA UsageErrorPreserves ==
    ASSUME CheckInv, UsageError, UNCHANGED <<world, emitted, runs, baseline, decision>>
    PROVE  CheckInv'
BY LeavingPreserves DEF UsageError, cleanup

\* An exception leaves the copy where it is.
LEMMA RaisePreserves ==
    ASSUME CheckInv, Raise
    PROVE  CheckInv'
BY LeavingPreserves DEF Raise, CheckInv, CopyOK

\* A report that cannot be written ends the run after the removal was tried.
LEMMA OutputFailsPreserves ==
    ASSUME CheckInv, OutputFails
    PROVE  CheckInv'
BY LeavingPreserves DEF OutputFails, cleanup

\* Start opens a run with nothing gathered.
LEMMA StartPreserves ==
    ASSUME CheckInv, Start
    PROVE  CheckInv'
<1>1. UNCHANGED <<tree, files, artifact, approved, clock, replaced, emitted>> /\ args' \in Args
    BY DEF Start, world
<1>2. WorldOK' /\ ApprovalOK'
    BY <1>1 DEF CheckInv, WorldOK, ApprovalOK
<1>3. pc' = "snapshot" /\ ~Reported'
    BY DEF Start
<1>4. CopyOK'
    BY DEF CopyOK, Start
<1>5. IsFiniteSet({}) /\ NoTwoValid({})
    BY FS_EmptySet DEF NoTwoValid
<1>6. PhaseOK' /\ SuitesOK' /\ SandboxOK'
    BY <1>1, <1>3, <1>5 DEF PhaseOK, SuitesOK, SandboxOK, Start
<1>7. DecisionsOK' /\ ReturnNeverImproves'
    BY <1>1, <1>3 DEF CheckInv, DecisionsOK, ReturnNeverImproves, Start
<1>8. AnswerOK' /\ ExitOK'
    BY <1>3 DEF AnswerOK, ExitOK
<1> QED
    BY <1>2, <1>4, <1>6, <1>7, <1>8 DEF CheckInv

\* TakeSnapshot binds the run to the target as it stands and puts the copy on disk.
LEMMA TakeSnapshotPreserves ==
    ASSUME CheckInv, TakeSnapshot
    PROVE  CheckInv'
<1>1. CASE UsageError
    BY <1>1, UsageErrorPreserves DEF TakeSnapshot
<1>2. CASE /\ snap' = Snapshot(tree) /\ scanned' = tree /\ pc' = "scan"
           /\ workspace' = "present"
           /\ UNCHANGED <<args, suites, sandbox, seen, total, exit>>
    <2>1. UNCHANGED <<tree, files, artifact, approved, clock, replaced, emitted, runs, baseline, decision, auth>>
        BY DEF TakeSnapshot, world
    <2>2. WorldOK' /\ ApprovalOK'
        BY <2>1 DEF CheckInv, WorldOK, ApprovalOK
    <2>3. pc = "snapshot" /\ pc' = "scan" /\ ~Reported'
        BY <1>2 DEF TakeSnapshot
    <2>4. CopyOK'
        BY <1>2, <2>3 DEF CopyOK
    <2>5. PhaseOK' /\ SuitesOK' /\ SandboxOK'
        BY <1>2, <2>1, <2>3 DEF CheckInv, WorldOK, PhaseOK, SuitesOK, SandboxOK
    <2>6. DecisionsOK' /\ ReturnNeverImproves'
        BY <2>1, <2>3 DEF CheckInv, DecisionsOK, ReturnNeverImproves
    <2>7. AnswerOK' /\ ExitOK'
        BY <2>3 DEF AnswerOK, ExitOK
    <2> QED
        BY <2>2, <2>4, <2>5, <2>6, <2>7 DEF CheckInv
<1> QED
    BY <1>1, <1>2 DEF TakeSnapshot

\* The scan reads the copy and changes nothing.
LEMMA ScanPreserves ==
    ASSUME CheckInv, Scan
    PROVE  CheckInv'
<1>1. UNCHANGED <<tree, files, artifact, approved, clock, replaced, emitted, args, snap, scanned, suites, sandbox,
                  seen, total, baseline, decision, auth, exit, workspace>>
    BY DEF Scan, world, local
<1>2. WorldOK' /\ ApprovalOK'
    BY <1>1 DEF CheckInv, WorldOK, ApprovalOK
<1>3. pc = "scan" /\ pc' = "external" /\ ~Reported'
    BY DEF Scan
<1>4. CopyOK'
    BY <1>1, <1>3 DEF CheckInv, CopyOK
<1>5. args \in Args /\ args.external \in Seq(EvidencePaths) /\ suites = {} /\ seen = {}
    BY <1>3, GateCheckConstants DEF CheckInv, PhaseOK
<1>6. LoadedInOrder({}, args.external) /\ Fingerprints({}) = {}
    BY <1>5, FS_EmptySet DEF LoadedInOrder, PathsOf, Fingerprints
<1>7. PhaseOK' /\ SuitesOK' /\ SandboxOK'
    BY <1>1, <1>3, <1>5, <1>6 DEF CheckInv, PhaseOK, SuitesOK, SandboxOK
<1>8. DecisionsOK' /\ ReturnNeverImproves'
    BY <1>1, <1>3 DEF CheckInv, DecisionsOK, ReturnNeverImproves
<1>9. AnswerOK' /\ ExitOK'
    BY <1>3 DEF AnswerOK, ExitOK
<1> QED
    BY <1>2, <1>4, <1>7, <1>8, <1>9 DEF CheckInv

\* An external suite is read in its turn; the last one leads to the first evaluation.
LEMMA ExternalStepPreserves ==
    ASSUME CheckInv, ExternalStep
    PROVE  CheckInv'
<1>1. UNCHANGED <<tree, files, artifact, approved, clock, replaced, emitted, runs, baseline, decision, auth>>
    BY DEF ExternalStep, world
<1>2. WorldOK' /\ ApprovalOK'
    BY <1>1 DEF CheckInv, WorldOK, ApprovalOK
<1>3. pc = "external" /\ args \in Args /\ args.external \in Seq(EvidencePaths)
    BY GateCheckConstants DEF CheckInv, PhaseOK, ExternalStep
<1>4. LoadedInOrder(suites, args.external) /\ seen = Fingerprints(suites) /\ NoTwoValid(suites)
    BY <1>3 DEF CheckInv, SuitesOK
<1>5. CASE \E p \in Pending(args.external, suites) : files[p] = NULL /\ UsageError
    BY <1>5, UsageErrorPreserves DEF ExternalStep
<1>6. CASE /\ Pending(args.external, suites) = {}
           /\ pc' = "baseline" /\ seen' = {}
           /\ UNCHANGED <<args, snap, scanned, suites, sandbox, total, exit, workspace>>
    <2>1. Cardinality(suites) = Len(args.external)
        BY <1>3, <1>4, <1>6, AllLoaded
    <2>2. PhaseOK' /\ SuitesOK' /\ SandboxOK'
        BY <1>1, <1>3, <1>6, <2>1 DEF CheckInv, PhaseOK, SuitesOK, SandboxOK
    <2>3. CopyOK'
        BY <1>1, <1>3, <1>6 DEF CheckInv, CopyOK
    <2>4. DecisionsOK' /\ ReturnNeverImproves' /\ AnswerOK' /\ ExitOK'
        BY <1>1, <1>6 DEF CheckInv, DecisionsOK, ReturnNeverImproves, AnswerOK, ExitOK
    <2> QED
        BY <1>2, <2>2, <2>3, <2>4 DEF CheckInv
<1>7. CASE \E p \in Pending(args.external, suites) :
              /\ files[p] # NULL /\ LoadExternal(p)
              /\ UNCHANGED <<pc, args, snap, scanned, sandbox, total, exit, workspace>>
    <2>1. PICK p \in Pending(args.external, suites) :
              /\ files[p] # NULL /\ LoadExternal(p)
              /\ UNCHANGED <<pc, args, snap, scanned, sandbox, total, exit, workspace>>
        BY <1>7
    <2>2. PICK s : /\ s = validate_external_suite_evidence(files[p], snap, seen, clock)
                   /\ suites' = suites \cup {s}
                   /\ seen' = seen \cup ({s.ref.report_fingerprint} \ {NULL})
        BY <2>1 DEF LoadExternal
    <2>3. p \in EvidencePaths
        BY <1>3 DEF Pending
    <2>4. files[p] \in Files /\ files[p].path = p
        BY <2>1, <2>3 DEF CheckInv, WorldOK
    <2>5. /\ s.path = p /\ SuiteIsFiled(s, snap)
          /\ s.ref.report_fingerprint \in seen /\ s.ref.report_fingerprint # NULL => ~s.valid
        BY <2>2, <2>4, SuiteValidated
    <2>6. LoadedInOrder(suites', args.external)
        BY <1>3, <1>4, <2>1, <2>2, <2>5, LoadOne
    <2>7. seen' = Fingerprints(suites')
        BY <1>4, <2>2, SeenGrows
    <2>8. NoTwoValid(suites')
        BY <1>4, <2>2, <2>5, CopyRefused
    <2>9. SuitesOK'
        <3>1. \A x \in suites' : SuiteIsFiled(x, snap)
            BY <1>3, <2>2, <2>5 DEF CheckInv, SuitesOK
        <3>2. IsFiniteSet(suites')
            BY <2>6 DEF LoadedInOrder
        <3> QED
            BY <1>3, <2>1, <2>6, <2>7, <2>8, <3>1, <3>2 DEF SuitesOK
    <2>10. PhaseOK' /\ SandboxOK'
        BY <1>1, <1>3, <2>1 DEF CheckInv, PhaseOK, SandboxOK
    <2>11. CopyOK'
        BY <1>1, <1>3, <2>1 DEF CheckInv, CopyOK
    <2>12. DecisionsOK' /\ ReturnNeverImproves' /\ AnswerOK' /\ ExitOK'
        BY <1>1, <1>3, <2>1 DEF CheckInv, DecisionsOK, ReturnNeverImproves, AnswerOK, ExitOK
    <2> QED
        BY <1>2, <2>9, <2>10, <2>11, <2>12 DEF CheckInv
<1> QED
    BY <1>5, <1>6, <1>7 DEF ExternalStep

\* The first evaluation has the external suites only.
LEMMA BaselinePreserves ==
    ASSUME CheckInv, Baseline
    PROVE  CheckInv'
<1>1. UNCHANGED <<tree, files, artifact, approved, clock, replaced, emitted, runs, args, snap, scanned, suites,
                  sandbox, seen, total, decision, auth, exit, workspace>>
    BY DEF Baseline, world
<1>2. WorldOK' /\ ApprovalOK' /\ CopyOK'
    BY <1>1 DEF CheckInv, WorldOK, ApprovalOK, CopyOK, Baseline
<1>3. pc = "baseline" /\ pc' = "sandbox" /\ args \in Args /\ sandbox = {} /\ seen = {} /\ decision = NULL
    BY DEF CheckInv, PhaseOK, Baseline
<1>4. args.sandbox \in Seq(EvidencePaths)
    BY <1>3, GateCheckConstants
<1>5. LoadedInOrder({}, args.sandbox) /\ Fingerprints({}) = {}
    BY <1>4, FS_EmptySet DEF LoadedInOrder, PathsOf, Fingerprints
<1>6. PhaseOK' /\ SuitesOK' /\ SandboxOK'
    BY <1>1, <1>3, <1>5 DEF CheckInv, PhaseOK, SuitesOK, SandboxOK
<1>7. baseline' = evaluate_from_scan_envelope(scanned, snap, suites, {}) /\ baseline'.verdict \in Verdicts
    BY DecisionFields DEF Baseline
<1>8. DecisionsOK'
    BY <1>1, <1>3, <1>7 DEF CheckInv, DecisionsOK
<1>9. ReturnNeverImproves' /\ AnswerOK' /\ ExitOK'
    BY <1>1, <1>3 DEF ReturnNeverImproves, AnswerOK, ExitOK
<1> QED
    BY <1>2, <1>6, <1>8, <1>9 DEF CheckInv

\* A sandbox report is read in its turn and held against the first decision.
LEMMA SandboxStepPreserves ==
    ASSUME CheckInv, SandboxStep
    PROVE  CheckInv'
<1>1. UNCHANGED <<tree, files, artifact, approved, clock, replaced, emitted, runs, baseline, decision, auth>>
    BY DEF SandboxStep, world
<1>2. WorldOK' /\ ApprovalOK'
    BY <1>1 DEF CheckInv, WorldOK, ApprovalOK
<1>3. pc = "sandbox" /\ args \in Args /\ args.sandbox \in Seq(EvidencePaths)
    BY GateCheckConstants DEF CheckInv, PhaseOK, SandboxStep
<1>4. LoadedInOrder(sandbox, args.sandbox) /\ seen = Fingerprints(sandbox) /\ NoTwoValid(sandbox)
    BY <1>3 DEF CheckInv, SandboxOK
<1>5. CASE \E p \in Pending(args.sandbox, sandbox) : files[p] = NULL /\ UsageError
    BY <1>5, UsageErrorPreserves DEF SandboxStep
<1>6. CASE /\ Pending(args.sandbox, sandbox) = {}
           /\ pc' = "decide"
           /\ UNCHANGED <<args, snap, scanned, suites, sandbox, seen, total, exit, workspace>>
    <2>1. Cardinality(sandbox) = Len(args.sandbox)
        BY <1>3, <1>4, <1>6, AllLoaded
    <2>2. PhaseOK' /\ SuitesOK' /\ SandboxOK'
        BY <1>1, <1>3, <1>6, <2>1 DEF CheckInv, PhaseOK, SuitesOK, SandboxOK
    <2>3. CopyOK'
        BY <1>1, <1>3, <1>6 DEF CheckInv, CopyOK
    <2>4. DecisionsOK' /\ ReturnNeverImproves' /\ AnswerOK' /\ ExitOK'
        BY <1>1, <1>3, <1>6 DEF CheckInv, DecisionsOK, ReturnNeverImproves, AnswerOK, ExitOK
    <2> QED
        BY <1>2, <2>2, <2>3, <2>4 DEF CheckInv
<1>7. CASE \E p \in Pending(args.sandbox, sandbox) :
              /\ files[p] # NULL /\ LoadSandbox(p)
              /\ UNCHANGED <<pc, args, snap, scanned, suites, exit, workspace>>
    <2>1. PICK p \in Pending(args.sandbox, sandbox) :
              /\ files[p] # NULL /\ LoadSandbox(p)
              /\ UNCHANGED <<pc, args, snap, scanned, suites, exit, workspace>>
        BY <1>7
    <2>2. PICK e : /\ e = validate_sandbox_run_evidence(files[p], baseline, seen, total + files[p].size, clock)
                   /\ sandbox' = sandbox \cup {e}
                   /\ seen' = seen \cup ({e.ref.report_fingerprint} \ {NULL})
                   /\ total' = total + files[p].size
        BY <2>1 DEF LoadSandbox
    <2>3. p \in EvidencePaths
        BY <1>3 DEF Pending
    <2>4. files[p] \in Files /\ files[p].path = p
        BY <2>1, <2>3 DEF CheckInv, WorldOK
    <2>5. total' \in Nat
        BY <2>2, <2>4, EvidenceFilesAreFiles DEF CheckInv, PhaseOK
    <2>6. baseline.subject = SnapshotGateSubject(snap)
        BY <1>3, DecisionFields DEF CheckInv, DecisionsOK
    <2>7. /\ e.path = p /\ e.normalized = TRUE /\ ReportIsFiled(e, snap)
          /\ e.ref.report_fingerprint \in seen /\ e.ref.report_fingerprint # NULL => ~e.valid
        <3> DEFINE sum == total + files[p].size
                   v == validate_sandbox_run_evidence(files[p], baseline, seen, sum, clock)
        <3>1. e = v
            BY <2>2
        <3>2. /\ v.path = files[p].path /\ v.normalized = TRUE /\ ReportIsFiled(v, snap)
              /\ v.ref.report_fingerprint \in seen /\ v.ref.report_fingerprint # NULL => ~v.valid
            <4> HIDE DEF sum
            <4> QED
                BY <2>4, <2>6, ReportValidated
        <3> HIDE DEF v
        <3> QED
            BY <2>4, <3>1, <3>2
    <2>8. LoadedInOrder(sandbox', args.sandbox)
        BY <1>3, <1>4, <2>1, <2>2, <2>7, LoadOne
    <2>9. seen' = Fingerprints(sandbox')
        BY <1>4, <2>2, SeenGrows
    <2>10. NoTwoValid(sandbox')
        BY <1>4, <2>2, <2>7, CopyRefused
    <2>11. SandboxOK'
        <3>1. \A x \in sandbox' : x.normalized = TRUE /\ ReportIsFiled(x, snap)
            BY <1>3, <2>2, <2>7 DEF CheckInv, SandboxOK
        <3>2. IsFiniteSet(sandbox')
            BY <2>8 DEF LoadedInOrder
        <3> QED
            BY <1>3, <2>1, <2>8, <2>9, <2>10, <3>1, <3>2 DEF SandboxOK
    <2>12. PhaseOK' /\ SuitesOK'
        BY <1>1, <1>3, <2>1, <2>5 DEF CheckInv, PhaseOK, SuitesOK
    <2>13. CopyOK'
        BY <1>1, <1>3, <2>1 DEF CheckInv, CopyOK
    <2>14. DecisionsOK' /\ ReturnNeverImproves' /\ AnswerOK' /\ ExitOK'
        BY <1>1, <1>3, <2>1 DEF CheckInv, DecisionsOK, ReturnNeverImproves, AnswerOK, ExitOK
    <2> QED
        BY <1>2, <2>11, <2>12, <2>13, <2>14 DEF CheckInv
<1> QED
    BY <1>5, <1>6, <1>7 DEF SandboxStep

\* The second evaluation has everything the first had, and the sandbox evidence.
LEMMA DecidePreserves ==
    ASSUME CheckInv, Decide
    PROVE  CheckInv'
<1>1. UNCHANGED <<tree, files, artifact, approved, clock, replaced, emitted, runs, args, snap, scanned, suites,
                  sandbox, seen, total, baseline, auth, exit, workspace>>
    BY DEF Decide, world
<1>2. WorldOK' /\ ApprovalOK' /\ CopyOK'
    BY <1>1 DEF CheckInv, WorldOK, ApprovalOK, CopyOK, Decide
<1>3. pc = "decide" /\ pc' = "authorize"
    BY DEF Decide
<1>4. PhaseOK' /\ SuitesOK' /\ SandboxOK'
    BY <1>1, <1>3 DEF CheckInv, PhaseOK, SuitesOK, SandboxOK
<1>5. decision' = evaluate_from_scan_envelope(scanned, snap, suites, sandbox) /\ decision'.verdict \in Verdicts
    BY DecisionFields DEF Decide, Decision
<1>6. baseline = evaluate_from_scan_envelope(scanned, snap, suites, {})
    BY <1>3 DEF CheckInv, DecisionsOK
<1>7. DecisionsOK'
    BY <1>1, <1>3, <1>5 DEF CheckInv, DecisionsOK
<1>8. ReturnNeverImproves'
    <2>1. IsFiniteSet(suites) /\ IsFiniteSet(sandbox)
        BY DEF CheckInv, SuitesOK, SandboxOK
    <2> QED
        BY <1>1, <1>5, <1>6, <2>1, SecondEvaluation DEF ReturnNeverImproves
<1>9. AnswerOK' /\ ExitOK'
    BY <1>3 DEF AnswerOK, ExitOK
<1> QED
    BY <1>2, <1>4, <1>7, <1>8, <1>9 DEF CheckInv

\* An answer of the validator is about the artifact, the decision, the command and the snapshot of this moment.
LEMMA AnswerIsBound ==
    ASSUME CheckInv, pc = "authorize", artifact # NULL, NEW source, NEW a, a = Validated(source)
    PROVE  /\ a.artifact = artifact /\ a.source = source
           /\ a.valid => /\ artifact.based_on = GateReference(decision) /\ artifact.argv = args.argv
                         /\ a.at < artifact.expires
                         /\ decision.subject.binding_kind = "snapshot_bound" /\ decision.verdict \in Unlockable
<1> DEFINE r == [observed |-> Observed(snap), ref |-> NULL, id |-> NULL]
           ok == execution_authorized(artifact, decision, args.argv, r, clock)
<1>1. a = [artifact |-> artifact, source |-> source, at |-> clock, valid |-> ok]
    BY DEF Validated
<1>2. a.artifact = artifact /\ a.source = source /\ a.at = clock /\ a.valid = ok
    <2> HIDE DEF ok
    <2> QED
        BY <1>1
<1>3. clock \in Nat /\ artifact.expires \in Nat /\ artifact.version = Current
    BY DEF CheckInv, WorldOK, ApprovalOK
<1>4. decision.subject = SnapshotGateSubject(snap)
    BY DecisionFields DEF CheckInv, DecisionsOK
<1>5. ok => /\ artifact.based_on = GateReference(decision) /\ artifact.argv = args.argv
            /\ clock < artifact.expires /\ decision.verdict \in Unlockable
            /\ decision.subject.binding_kind = "snapshot_bound"
    <2> HIDE DEF r
    <2> SUFFICES ASSUME ok PROVE ok => /\ artifact.based_on = GateReference(decision) /\ artifact.argv = args.argv
            /\ clock < artifact.expires /\ decision.verdict \in Unlockable
            /\ decision.subject.binding_kind = "snapshot_bound"
        OBVIOUS
    <2>1. /\ artifact.based_on = GateReference(decision) /\ artifact.argv = args.argv
          /\ clock < artifact.expires /\ decision.verdict \in Unlockable
          /\ GateSubject(decision)["binding_kind"] = "snapshot_bound"
        BY <1>3, ValidAnswer
    <2> QED
        BY <1>4, <2>1, BindingKindOf
<1> HIDE DEF ok
<1> QED
    BY <1>2, <1>5

\* Authorize asks for an explicit authorization, or discovers one the snapshot does not track.
LEMMA AuthorizePreserves ==
    ASSUME CheckInv, Authorize
    PROVE  CheckInv'
<1>1. UNCHANGED <<tree, files, artifact, approved, clock, replaced, emitted, runs, baseline, decision>>
    BY DEF Authorize, world
<1>2. WorldOK' /\ ApprovalOK'
    BY <1>1 DEF CheckInv, WorldOK, ApprovalOK
<1>3. pc = "authorize"
    BY DEF Authorize
<1>4. CASE args.explicit /\ artifact = NULL /\ UsageError
    BY <1>4, UsageErrorPreserves DEF Authorize
<1>5. CASE /\ pc' = "report" /\ UNCHANGED <<args, snap, scanned, suites, sandbox, seen, total, exit, workspace>>
           /\ \/ auth' = NULL
              \/ artifact # NULL /\ auth' = Validated("explicit")
              \/ /\ artifact # NULL /\ ~scanned.tracks_authorization /\ auth' = Validated("discovered")
    <2>1. PhaseOK' /\ SuitesOK' /\ SandboxOK'
        BY <1>1, <1>3, <1>5 DEF CheckInv, PhaseOK, SuitesOK, SandboxOK
    <2>2. CopyOK'
        BY <1>1, <1>3, <1>5 DEF CheckInv, CopyOK
    <2>3. DecisionsOK' /\ ReturnNeverImproves' /\ ExitOK'
        BY <1>1, <1>3, <1>5 DEF CheckInv, DecisionsOK, ReturnNeverImproves, ExitOK
    <2>4. AnswerOK'
        <3>1. CASE auth' = NULL
            BY <3>1 DEF AnswerOK
        <3>2. ASSUME artifact # NULL, NEW source, auth' = Validated(source),
                     source = "discovered" => ~scanned.tracks_authorization
              PROVE  AnswerOK'
            <4>1. /\ auth'.artifact = artifact /\ auth'.source = source
                  /\ auth'.valid => /\ artifact.based_on = GateReference(decision) /\ artifact.argv = args.argv
                                    /\ auth'.at < artifact.expires
                                    /\ decision.subject.binding_kind = "snapshot_bound"
                                    /\ decision.verdict \in Unlockable
                BY <1>3, <3>2, AnswerIsBound
            <4> QED
                BY <1>1, <1>5, <3>2, <4>1 DEF AnswerOK
        <3> QED
            BY <1>5, <3>1, <3>2
    <2> QED
        BY <1>2, <2>1, <2>2, <2>3, <2>4 DEF CheckInv
<1> QED
    BY <1>4, <1>5 DEF Authorize, discover

\* Report gives the verdict out and tries to remove the copy.
LEMMA ReportPreserves ==
    ASSUME CheckInv, Report
    PROVE  CheckInv'
<1>1. /\ UNCHANGED <<tree, files, artifact, approved, clock, replaced, runs, args, snap, scanned, suites, sandbox, seen,
                     total, baseline, decision, auth>>
      /\ pc = "report" /\ pc' = "idle" /\ workspace' \in {"removed", "left"}
      /\ emitted' = decision
      /\ exit' = IF Authorized THEN "authorized" ELSE "blocked"
    BY DEF Report, world, local, cleanup
<1>2. Reported' /\ (exit' = "authorized" => Authorized)
    BY <1>1
<1>3. WorldOK' /\ ApprovalOK'
    BY <1>1 DEF CheckInv, WorldOK, ApprovalOK
<1>4. CopyOK'
    BY <1>1 DEF CheckInv, CopyOK
<1>5. PhaseOK' /\ SuitesOK' /\ SandboxOK'
    BY <1>1, <1>2 DEF CheckInv, PhaseOK, SuitesOK, SandboxOK
<1>6. DecisionsOK' /\ ReturnNeverImproves'
    BY <1>1, <1>2 DEF CheckInv, DecisionsOK, ReturnNeverImproves
<1>7. AnswerOK' /\ ExitOK'
    BY <1>1, <1>2 DEF CheckInv, AnswerOK, ExitOK, Authorized
<1> QED
    BY <1>3, <1>4, <1>5, <1>6, <1>7 DEF CheckInv

\* Whatever the world does beside a run: commits, files, time, an approval of the decision emitted last.
LEMMA WorldPreserves ==
    ASSUME CheckInv, World
    PROVE  CheckInv'
<1>1. UNCHANGED <<pc, local, exit, emitted, runs, workspace>>
    BY DEF World, Commit, WriteEvidence, Tick, Approve
<1>2. RunOK' /\ CopyOK'
    BY <1>1, RunUndisturbed DEF CheckInv, RunOK, CopyOK
<1>3. UNCHANGED <<args, snap, scanned, suites, sandbox, seen, total, baseline, decision, auth>>
    BY <1>1 DEF local
<1>4. ExitOK'
    BY <1>1, <1>3 DEF CheckInv, ExitOK
<1>5. WorldOK'
    <2>1. CASE Commit
        BY <2>1 DEF Commit, CheckInv, WorldOK
    <2>2. CASE WriteEvidence
        <3>1. PICK f \in Files : files' = [files EXCEPT ![f.path] = f]
            BY <2>2 DEF WriteEvidence
        <3>2. UNCHANGED <<tree, clock>>
            BY <2>2 DEF WriteEvidence
        <3> QED
            BY <3>1, <3>2, EvidenceFilesAreFiles DEF CheckInv, WorldOK
    <2>3. CASE Tick
        BY <2>3 DEF Tick, CheckInv, WorldOK
    <2>4. CASE Approve
        BY <2>4 DEF Approve, CheckInv, WorldOK
    <2> QED
        BY <2>1, <2>2, <2>3, <2>4 DEF World
<1>6. CASE UNCHANGED <<artifact, approved>>
    <2>1. ApprovalOK' /\ AnswerOK' /\ DecisionsOK'
        BY <1>1, <1>3, <1>6 DEF CheckInv, ApprovalOK, AnswerOK, DecisionsOK
    <2> QED
        BY <1>2, <1>4, <1>5, <2>1 DEF CheckInv, RunOK
<1>7. CASE Approve
    <2>1. PICK argv, image : artifact' = [AuthorizationDraft(emitted, argv, clock + 1, image)
                                             EXCEPT !.approved = TRUE, !.signed = TRUE]
        BY <1>7 DEF Approve
    <2>2. approved' = emitted /\ artifact = NULL /\ emitted # NULL
        BY <1>7 DEF Approve
    <2>3. ApprovalOK'
        BY <2>1, <2>2 DEF CheckInv, WorldOK, ApprovalOK, AuthorizationDraft
    <2>4. AnswerOK'
        BY <1>1, <1>3, <2>2 DEF CheckInv, AnswerOK
    <2>5. DecisionsOK'
        BY <1>1, <1>3, <2>2 DEF CheckInv, DecisionsOK
    <2> QED
        BY <1>2, <1>4, <1>5, <2>3, <2>4, <2>5 DEF CheckInv, RunOK
<1> QED
    BY <1>6, <1>7 DEF World, Commit, WriteEvidence, Tick

\* CheckInv holds in every reachable state.
LEMMA CheckInvariant == Spec => []CheckInv
<1>1. Init => CheckInv
    <2> SUFFICES ASSUME Init PROVE CheckInv
        OBVIOUS
    <2>1. IsFiniteSet({}) /\ NoTwoValid({})
        BY FS_EmptySet DEF NoTwoValid
    <2>2. ~Reported /\ pc = "idle"
        BY GateCheckConstants DEF Init
    <2>3. WorldOK /\ ApprovalOK
        BY EvidenceFilesAreFiles DEF Init, WorldOK, ApprovalOK
    <2>4. CopyOK
        BY GateCheckConstants DEF Init, CopyOK
    <2>5. PhaseOK /\ SuitesOK /\ SandboxOK
        BY <2>1, <2>2 DEF Init, PhaseOK, SuitesOK, SandboxOK
    <2>6. DecisionsOK /\ AnswerOK /\ ExitOK /\ ReturnNeverImproves
        BY <2>2 DEF Init, DecisionsOK, AnswerOK, ExitOK, ReturnNeverImproves
    <2> QED
        BY <2>3, <2>4, <2>5, <2>6 DEF CheckInv
<1>2. CheckInv /\ [Next]_vars => CheckInv'
    <2> SUFFICES ASSUME CheckInv, [Next]_vars PROVE CheckInv'
        OBVIOUS
    <2>1. CASE Run
        BY <2>1, StartPreserves, TakeSnapshotPreserves, ScanPreserves, ExternalStepPreserves, BaselinePreserves,
           SandboxStepPreserves, DecidePreserves, AuthorizePreserves, ReportPreserves, RaisePreserves,
           OutputFailsPreserves DEF Run
    <2>2. CASE World
        BY <2>2, WorldPreserves
    <2>3. CASE UNCHANGED vars
        <3>1. UNCHANGED <<tree, files, artifact, approved, clock, replaced, emitted, runs, pc, local, exit, workspace>>
            BY <2>3 DEF vars, world
        <3>2. RunOK' /\ CopyOK'
            BY <3>1, RunUndisturbed DEF CheckInv, RunOK, CopyOK
        <3>3. UNCHANGED <<args, snap, scanned, suites, sandbox, baseline, decision, auth>>
            BY <3>1 DEF local
        <3>4. WorldOK' /\ ApprovalOK' /\ DecisionsOK' /\ AnswerOK' /\ ExitOK'
            BY <3>1, <3>3 DEF CheckInv, WorldOK, ApprovalOK, DecisionsOK, AnswerOK, ExitOK
        <3> QED
            BY <3>2, <3>4 DEF CheckInv, RunOK
    <2> QED
        BY <2>1, <2>2, <2>3 DEF Next
<1> QED
    BY <1>1, <1>2, PTL DEF Spec

(***************************************************************************)
(* gate-check: the theorems                                                *)
(***************************************************************************)
\* Whatever way a run of gate-check ends, except by an exception, it has tried to remove its disposable copy; a
\* removal that fails is swallowed and may leave the copy (main, DisposableWorkspace.cleanup).
THEOREM CopyAccountedHolds == Spec => []CopyAccounted
<1>1. CheckInv => CopyAccounted
    BY DEF CheckInv, CopyOK, CopyAccounted
<1> QED
    BY <1>1, CheckInvariant, PTL

\* A decision whose evidence holds two copies of one report is beyond what an authorization unlocks.
LEMMA CopiesAreRefused ==
    ASSUME CheckInv
    PROVE  RepeatedEvidenceRefused
<1> SUFFICES ASSUME pc = "authorize", NEW x \in suites \cup sandbox, NEW y \in suites \cup sandbox,
                    x.path # y.path, {x, y} \in (SUBSET suites) \cup (SUBSET sandbox),
                    x.ref.report_fingerprint = y.ref.report_fingerprint, x.ref.report_fingerprint # NULL,
                    decision.verdict \in Unlockable
             PROVE  FALSE
    BY DEF RepeatedEvidenceRefused, Unlockable
<1>1. decision = evaluate_from_scan_envelope(scanned, snap, suites, sandbox)
    BY DEF CheckInv, DecisionsOK
<1>2. (\A s \in suites : s.valid) /\ \A e \in sandbox : e.signals = {}
    BY <1>1, UnlockableDecision
<1>3. \A e \in sandbox : e.valid
    BY <1>2 DEF CheckInv, SandboxOK, ReportIsFiled
<1>4. NoTwoValid(suites) /\ NoTwoValid(sandbox) /\ x # y
    BY DEF CheckInv, SuitesOK, SandboxOK
<1>5. CASE x \in suites /\ y \in suites
    BY <1>2, <1>4, <1>5 DEF NoTwoValid
<1>6. CASE x \in sandbox /\ y \in sandbox
    BY <1>3, <1>4, <1>6 DEF NoTwoValid
<1> QED
    BY <1>5, <1>6

\* Evidence that returns to the gate only adds to the decision, and counts against it when it is handed in twice.
THEOREM ReturnIsSoundHolds == Spec => []ReturnIsSound
<1>1. CheckInv => ReturnIsSound
    BY CopiesAreRefused DEF CheckInv, ReturnIsSound
<1> QED
    BY <1>1, CheckInvariant, PTL

\* The fingerprints of an authorization's references determine the decision.
LEMMA SameReference ==
    ASSUME NEW g, NEW h, GateReference(g) = GateReference(h)
    PROVE  g = h
<1>1. gate_decision_fingerprint(g) = gate_decision_fingerprint(h)
    BY DEF GateReference
<1> QED
    BY <1>1 DEF gate_decision_fingerprint

\* Exit 0 was approved: for this decision, this command and this snapshot, and in time.
LEMMA ExitZeroApproved ==
    ASSUME CheckInv
    PROVE  ExitZeroIsApproved
<1> SUFFICES ASSUME Reported, exit = "authorized"
             PROVE  /\ approved = decision /\ auth.artifact.based_on = GateReference(decision)
                    /\ auth.artifact.argv = args.argv /\ auth.at < auth.artifact.expires
                    /\ \A k \in SubjectFields : decision.subject[k] = Observed(snap)[k]
                    /\ decision.subject.binding_kind = "snapshot_bound"
                    /\ decision.verdict \in {"warn", "allow_limited"}
    BY DEF ExitZeroIsApproved
<1>1. auth # NULL /\ auth.valid
    BY DEF CheckInv, ExitOK
<1>2. /\ artifact # NULL /\ auth.artifact = artifact
      /\ artifact.based_on = GateReference(decision) /\ artifact.argv = args.argv
      /\ auth.at < artifact.expires /\ decision.subject.binding_kind = "snapshot_bound"
      /\ decision.verdict \in Unlockable
    BY <1>1 DEF CheckInv, AnswerOK
<1>3. artifact.based_on = GateReference(approved)
    BY <1>2 DEF CheckInv, ApprovalOK
<1>4. approved = decision
    BY <1>2, <1>3, SameReference
<1>5. decision.subject = SnapshotGateSubject(snap)
    BY DecisionFields DEF CheckInv, DecisionsOK
<1>6. \A k \in SubjectFields : decision.subject[k] = Observed(snap)[k]
    BY <1>5 DEF SnapshotGateSubject, Observed, SubjectFields
<1> QED
    BY <1>2, <1>4, <1>6 DEF Unlockable

\* A report that a decision for a commit refers to names that commit, whichever schema it has.
LEMMA ReferredIsAboutSnapshot ==
    ASSUME NEW t \in Trees, NEW sn, sn = Snapshot(t), sn.kind = "git_commit",
           NEW f \in Files, NEW g \in Files, f.report # NULL, g.report # NULL, g.report.shape, f.report.fp = g.report.fp,
           \/ g.report.subject = SuiteSubject(sn)
           \/ SubjectMatches(g.report, SnapshotGateSubject(sn))
    PROVE  /\ Get(f.report.subject, "repo_commit") \in {NULL, sn.commit}
           /\ Get(f.report.subject, "commit") \in {NULL, sn.commit}
<1>1. f.report.subject = g.report.subject
    BY EvidenceFilesAreFiles
<1>2. CASE g.report.subject = SuiteSubject(sn)
    <2>1. "repo_commit" \in DOMAIN SuiteSubject(sn) /\ "commit" \notin DOMAIN SuiteSubject(sn)
        BY DEF SuiteSubject
    <2>2. SuiteSubject(sn).repo_commit = sn.commit
        BY DEF SuiteSubject
    <2> QED
        BY <1>1, <1>2, <2>1, <2>2 DEF Get
<1>3. CASE SubjectMatches(g.report, SnapshotGateSubject(sn))
    <2>1. NormalizedSubject(g.report) = g.report.subject
        BY DEF NormalizedSubject
    <2>2. "commit" \in DOMAIN SnapshotGateSubject(sn) /\ SnapshotGateSubject(sn)["commit"] = sn.commit
        BY DEF SnapshotGateSubject
    <2>3. Get(g.report.subject, "commit") = sn.commit
        BY <1>3, <2>1, <2>2 DEF SubjectMatches
    <2>4. sn.commit # NULL
        BY GateCheckConstants DEF Snapshot
    <2>5. "commit" \in DOMAIN g.report.subject
        BY <2>3, <2>4 DEF Get
    <2>6. "repo_commit" \notin DOMAIN g.report.subject
        BY <2>5, EvidenceFilesAreFiles
    <2> QED
        BY <1>1, <2>3, <2>6 DEF Get
<1> QED
    BY <1>2, <1>3

\* Exit 0 had clean evidence: all of it read, valid, about this snapshot, and quiet.
LEMMA ExitZeroClean ==
    ASSUME CheckInv
    PROVE  ExitZeroHasCleanEvidence
<1> SUFFICES ASSUME Reported, exit = "authorized"
             PROVE  /\ {s.path : s \in suites} = Range(args.external) /\ {e.path : e \in sandbox} = Range(args.sandbox)
                    /\ \A s \in suites : s.valid /\ \A e \in s.entries : EntryCandidates(e) \subseteq {"warn"}
                    /\ \A e \in sandbox : e.valid /\ e.signals = {}
                    /\ \A f \in {x \in Files : x.report # NULL} :
                          f.report.fp \in {r.report_fingerprint : r \in decision.refs} =>
                             /\ Get(f.report.subject, "repo_commit") \in {NULL, snap.commit}
                             /\ Get(f.report.subject, "commit") \in {NULL, snap.commit}
    BY DEF ExitZeroHasCleanEvidence
<1>1. auth # NULL /\ auth.valid /\ args \in Args
    BY DEF CheckInv, ExitOK, PhaseOK
<1>2. decision.verdict \in Unlockable /\ decision.subject.binding_kind = "snapshot_bound"
    BY <1>1 DEF CheckInv, AnswerOK
<1>3. decision = evaluate_from_scan_envelope(scanned, snap, suites, sandbox)
    BY DEF CheckInv, DecisionsOK
<1>4. /\ \A s \in suites : s.valid /\ \A e \in s.entries : EntryCandidates(e) \subseteq {"warn"}
      /\ \A e \in sandbox : e.signals = {}
    BY <1>2, <1>3, UnlockableDecision
<1>5. \A e \in sandbox : e.valid
    BY <1>4 DEF CheckInv, SandboxOK, ReportIsFiled
<1>6. ASSUME NEW loaded, NEW paths \in Seq(EvidencePaths), LoadedInOrder(loaded, paths), Cardinality(loaded) = Len(paths)
      PROVE  {e.path : e \in loaded} = Range(paths)
    <2>1. PathsOf(loaded) = {paths[i] : i \in 1..Len(paths)}
        BY <1>6 DEF LoadedInOrder
    <2>2. DOMAIN paths = 1..Len(paths)
        BY <1>6
    <2> QED
        BY <2>1, <2>2 DEF PathsOf, Range
<1>7. {s.path : s \in suites} = Range(args.external) /\ {e.path : e \in sandbox} = Range(args.sandbox)
    <2>1. args.external \in Seq(EvidencePaths) /\ args.sandbox \in Seq(EvidencePaths)
        BY <1>1, GateCheckConstants
    <2>2. /\ LoadedInOrder(suites, args.external) /\ Cardinality(suites) = Len(args.external)
          /\ LoadedInOrder(sandbox, args.sandbox) /\ Cardinality(sandbox) = Len(args.sandbox)
        BY DEF CheckInv, SuitesOK, SandboxOK
    <2> QED
        BY <1>6, <2>1, <2>2
<1>8. ASSUME NEW f \in Files, f.report # NULL, f.report.fp \in {r.report_fingerprint : r \in decision.refs}
      PROVE  /\ Get(f.report.subject, "repo_commit") \in {NULL, snap.commit}
             /\ Get(f.report.subject, "commit") \in {NULL, snap.commit}
    <2>1. PICK r \in decision.refs : r.report_fingerprint = f.report.fp
        BY <1>8
    <2>2. decision.refs = EvidenceRefs(suites, sandbox) /\ decision.subject = SnapshotGateSubject(snap)
        BY <1>3, DecisionFields
    <2>3. (\E s \in suites : r = s.ref) \/ (\E e \in sandbox : r = e.ref)
        BY <2>2 DEF EvidenceRefs
    <2>4. PICK t \in Trees : snap = Snapshot(t)
        BY DEF CheckInv, PhaseOK
    <2>5. snap.kind = "git_commit"
        BY <1>2, <2>2 DEF SnapshotGateSubject
    <2>6. PICK g \in Files : /\ g.report # NULL /\ g.report.shape /\ f.report.fp = g.report.fp
                             /\ \/ g.report.subject = SuiteSubject(snap)
                                \/ SubjectMatches(g.report, SnapshotGateSubject(snap))
        <3>1. CASE \E s \in suites : r = s.ref
            BY <1>4, <2>1, <3>1 DEF CheckInv, SuitesOK, SuiteIsFiled
        <3>2. CASE \E e \in sandbox : r = e.ref
            BY <1>5, <2>1, <3>2 DEF CheckInv, SandboxOK, ReportIsFiled
        <3> QED
            BY <2>3, <3>1, <3>2
    <2> QED
        BY <1>8, <2>4, <2>5, <2>6, ReferredIsAboutSnapshot
<1> QED
    BY <1>4, <1>5, <1>7, <1>8

\* Exit 0 is earned: approved, over clean evidence about this snapshot, and not by what the target itself carries.
THEOREM AuthorizedIsEarnedHolds == Spec => []AuthorizedIsEarned
<1>1. CheckInv => TypeOK
    <2> SUFFICES ASSUME CheckInv PROVE TypeOK
        OBVIOUS
    <2> QED
        BY DEF CheckInv, WorldOK, ApprovalOK, CopyOK, PhaseOK, DecisionsOK, TypeOK
<1>2. CheckInv => TrackedNeverDiscovered
    BY DEF CheckInv, AnswerOK, TrackedNeverDiscovered
<1>3. CheckInv => AuthorizedIsEarned
    BY <1>1, <1>2, ExitZeroApproved, ExitZeroClean DEF AuthorizedIsEarned
<1> QED
    BY <1>3, CheckInvariant, PTL

=============================================================================
