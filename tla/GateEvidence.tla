---------------------------- MODULE GateEvidence ----------------------------
(***************************************************************************)
(* A caller of evaluate_gate_decision who collects evidence about one      *)
(* subject and evaluates after every addition: native evidence items,      *)
(* external scanner suites, normalized sandbox evidence, and one more      *)
(* finding in a suite already supplied (the scanner was run again).  The   *)
(* documents promise that evidence never moves a verdict to the left.      *)
(***************************************************************************)
EXTENDS GateEvaluator

CONSTANTS
    Subject,        \* the snapshot the caller asks about
    Policy,         \* the gate policy in force
    Items,          \* native evidence items
    Suites,         \* suites as first supplied
    Sandbox,        \* sandbox evidence
    Findings        \* findings a later scan may add, records of the four fact sets

VARIABLES items, scans, reports
evidence == <<items, scans, reports>>

verdict == Verdict(items, Policy, scans, reports, Subject)

\* _collect_facts over one more finding: facts only accumulate, silence is no longer claimed
WithFinding(r, f) ==
    [r EXCEPT !.outcome = "findings_present", !.primary = @ \cup f.primary,
              !.secondary = @ \cup f.secondary, !.tokens = @ \cup f.tokens,
              !.relations = @ \cup f.relations]

InitEvidence == items = {} /\ scans = {} /\ reports = {}

AddItem == \E e \in Items \ items : items' = items \cup {e} /\ UNCHANGED <<scans, reports>>

AddSandbox == \E e \in Sandbox \ reports : reports' = reports \cup {e} /\ UNCHANGED <<items, scans>>

AddSuite ==
    \E s \in Suites :
        /\ \A t \in scans : t.path # s.path
        /\ scans' = scans \cup {s}
        /\ UNCHANGED <<items, reports>>

AddFinding ==
    \E s \in scans : \E e \in s.entries : \E f \in Findings :
        /\ EntryCompleted(e)
        /\ f.secondary \cup f.tokens \cup f.relations # {}
        /\ ~(f.secondary \subseteq e.result.secondary /\ f.tokens \subseteq e.result.tokens
             /\ f.relations \subseteq e.result.relations)
        /\ LET new == [e EXCEPT !.result = WithFinding(@, f), !.finding_count = 1]
           IN scans' = (scans \ {s}) \cup {[s EXCEPT !.entries = (@ \ {e}) \cup {new}]}
        /\ UNCHANGED <<items, reports>>

AddEvidence == AddItem \/ AddSandbox \/ AddSuite \/ AddFinding

EvidenceSpec == InitEvidence /\ [][AddEvidence]_evidence

(***************************************************************************)
(* Properties                                                              *)
(***************************************************************************)
\* Sandbox evidence never moves the verdict towards allow_limited, whatever else
\* was supplied (design 12.6): it can only add candidates, and where it silences
\* the low-trust rule its own candidate is at least as strong.
SandboxNeverImproves ==
    [][reports' # reports => VerdictRank(verdict') >= VerdictRank(verdict)]_evidence

\* Evidence of success changes nothing at all: a sandbox run without signals and a
\* completed scan without findings leave the verdict as it was (the budget of
\* references apart).
QuietSuite(s) ==
    /\ s.valid
    /\ \A e \in s.entries :
          /\ EntryCompleted(e) /\ e.finding_count = 0 /\ e.result.binary # "unverified"
          /\ ExternalMappingVerdict(map_external_scanner_risk(e.result, RiskRuleIds)) = {}
SuccessChangesNothing ==
    [][(/\ items' = items /\ EvidenceRefsValid(scans', reports')
        /\ \A e \in reports' \ reports : e.normalized /\ e.signals = {}
        /\ scans \subseteq scans' /\ \A s \in scans' \ scans : QuietSuite(s))
       => verdict' = verdict]_evidence

\* A verdict that an authorization may unlock (warn, allow_limited) means that nothing
\* supplied was invalid, incomplete, unbound, unverified or blocking, however many
\* harmless pieces were supplied beside it.
Unlockable == {"warn", "allow_limited"}
UnlockableIsClean ==
    verdict \in Unlockable =>
        /\ \A e \in items : validate_evidence(e) /\ e.binding # "unbound" /\ e.effect # "block"
        /\ \A e \in reports : e.normalized /\ e.signals = {}
        /\ \A s \in scans : s.valid /\ \A e \in s.entries :
              /\ EntryCompleted(e) /\ e.result.binary # "unverified"
              /\ validate_external_scanner_result(e.result)
              /\ \A rule \in FiredRules(e.result) : ~RuleBlocks(rule) /\ ~RuleReview(rule)

\* The mapper accumulates: one more finding never lowers a risk tier and never takes
\* back a gate effect already raised.
EntryResults(all) == UNION {{e.result : e \in {x \in s.entries : EntryCompleted(x)}} : s \in all}
MappingNeverLowers ==
    [][\A s \in scans : \A t \in scans' :
        s.path = t.path /\ s # t =>
            \A r \in EntryResults({s}) : \E q \in EntryResults({t}) :
                LET old == map_external_scanner_risk(r, RiskRuleIds)
                    new == map_external_scanner_risk(q, RiskRuleIds)
                IN /\ TierRank(old.tier) <= TierRank(new.tier)
                   /\ old.gates \ {"evidence_only"} \subseteq new.gates
                   /\ old.blocks_live_execution => new.blocks_live_execution]_evidence

\* External evidence never reopens a decision: with the native items unchanged the verdict moves to
\* the left in two ways only.  A suite whose finding warns silences the low-trust rule, which had
\* said unknown for want of any other candidate; and a finding that asks for a dedicated VM turns a
\* block of the mapping into quarantine, because _external_mapping_verdict tests it first.
EvidenceNeverReopens ==
    [][items' = items /\ VerdictRank(verdict') < VerdictRank(verdict) =>
        \/ /\ verdict = "unknown" /\ verdict' = "warn" /\ scans' # scans
           /\ LowTrustCandidates(items, EvidenceCandidates(items, Policy, scans, reports)) # {}
        \/ /\ verdict = "block" /\ verdict' = "quarantine"
           /\ Cardinality(scans') = Cardinality(scans)]_evidence

\* Evidence from outside works in one direction: success changes nothing, findings only raise the mapping, and no
\* addition reopens a decision (_external_suite_candidates, map_external_scanner_risk, strongest_verdict).
EvidenceIsOneWay == SuccessChangesNothing /\ MappingNeverLowers /\ EvidenceNeverReopens
=============================================================================
