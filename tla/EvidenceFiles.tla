---------------------------- MODULE EvidenceFiles ----------------------------
(***************************************************************************)
(* The validators of evidence a caller hands to gate-check:                *)
(* gate/external_evidence.py, gate/sandbox_evidence.py and the normalizer  *)
(* evidence/sandbox_run.py.                                                *)
(*                                                                         *)
(* A file is [path, size, report]; report is NULL when the bytes are no    *)
(* JSON object, else a record with                                         *)
(*   shape, fp, honest      the closed schema; the canonical fingerprint;  *)
(*                          whether a claimed fingerprint equals it        *)
(*   born, subject, truncated                                              *)
(* and, for a suite, entries; for a sandbox-run report, policy, gate and   *)
(* what the run recorded: blocked, timed_out, cleanup_failed, observer,    *)
(* bound (the recorded binding check), real.                               *)
(***************************************************************************)
EXTENDS V3Evaluator

CONSTANTS MaxBytes,         \* 256 KiB for one file
          MaxTotalBytes,    \* 1 MiB for all sandbox evidence
          MaxAge,           \* 24 hours
          MaxSkew           \* 5 minutes into the future

ASSUME EvidenceBounds == {MaxBytes, MaxTotalBytes, MaxAge, MaxSkew} \subseteq Nat

Payload(f) == IF f.size <= MaxBytes THEN f.report ELSE NULL
Stale(r, now) == r # NULL /\ r.born # NULL /\ now - r.born > MaxAge
FromFuture(r, now) == r # NULL /\ r.born # NULL /\ r.born - now > MaxSkew

(***************************************************************************)
(* validate_external_suite_evidence                                        *)
(***************************************************************************)
SuiteSubject(snap) ==
    [repo_commit |-> snap.commit,
     dirty_state |-> IF snap.kind = "git_commit" THEN "clean" ELSE "not_applicable"]

SuiteTruncated(r) == r # NULL /\ (r.truncated \/ \E e \in r.entries : e.truncated)

SuiteReasons(f, snap, seen, now) ==
    LET r == Payload(f)
    IN When(r = NULL \/ FromFuture(r, now), "external_evidence_invalid")
       \cup When(r # NULL /\ (~r.shape \/ r.born = NULL \/ ~r.honest), "external_evidence_invalid")
       \cup When(Stale(r, now), "external_evidence_stale")
       \cup When(r = NULL \/ (r # NULL /\ r.subject # SuiteSubject(snap)),
                 "external_evidence_subject_mismatch")
       \cup When(f.size > MaxBytes, "external_evidence_over_budget")
       \cup When(r # NULL /\ r.fp \in seen, "external_evidence_duplicate")
       \cup When(SuiteTruncated(r), "external_evidence_truncated")

validate_external_suite_evidence(f, snap, seen, now) ==
    LET r == Payload(f)
        reasons == SuiteReasons(f, snap, seen, now)
    IN [path |-> f.path, valid |-> reasons = {},
        entries |-> IF r = NULL THEN {} ELSE r.entries,
        ref |-> [report_fingerprint |-> IF r = NULL THEN NULL ELSE r.fp,
                 generated_at |-> IF r = NULL THEN NULL ELSE r.born, reasons |-> reasons]]

(***************************************************************************)
(* normalize_sandbox_run_evidence: the signals a report itself gives       *)
(***************************************************************************)
NormalizedSubject(r) ==
    IF r = NULL THEN [k \in SubjectFields \cup {"binding_kind"} |-> NULL] ELSE r.subject

NormalizedSignals(r) ==
    IF r = NULL THEN {"invalid"}
    ELSE When(r.blocked, "policy_blocked") \cup When(r.bound = "mismatch", "binding_mismatch")
         \cup When(r.timed_out, "timeout") \cup When(r.cleanup_failed, "cleanup_failed")
         \cup When(r.observer = "degraded", "observer_degraded") \cup When(~r.real, "not_real")
         \cup When(~r.honest \/ r.born = NULL, "invalid") \cup When(r.truncated, "truncated")

(***************************************************************************)
(* validate_sandbox_run_evidence                                           *)
(***************************************************************************)
SandboxInvalid(r, now) ==
    \/ r = NULL \/ FromFuture(r, now) \/ "invalid" \in NormalizedSignals(r)
    \/ (r # NULL /\ (~r.shape \/ r.gate \notin Fingerprint))

SubjectMatches(r, subject) == \A k \in DOMAIN subject : Get(NormalizedSubject(r), k) = subject[k]

\* total: the bytes of this file and of all files before it
SandboxReasons(f, g, seen, total, now) ==
    LET r == Payload(f)
    IN When(SandboxInvalid(r, now), "sandbox_evidence_invalid")
       \cup When(Stale(r, now), "sandbox_evidence_stale")
       \cup When(~SubjectMatches(r, g.subject), "sandbox_evidence_subject_mismatch")
       \cup When(r = NULL \/ (r # NULL /\ r.policy # g.policy_version),
                 "sandbox_evidence_policy_mismatch")
       \cup When(f.size > MaxBytes \/ total > MaxTotalBytes, "sandbox_evidence_over_budget")
       \cup When(r # NULL /\ r.fp \in seen, "sandbox_evidence_duplicate")
       \cup When(r # NULL /\ r.truncated, "sandbox_evidence_truncated")

ReasonSignals(reasons) ==
    When(reasons \cap {"sandbox_evidence_invalid", "sandbox_evidence_duplicate",
                       "sandbox_evidence_policy_mismatch"} # {}, "invalid")
    \cup When("sandbox_evidence_stale" \in reasons, "stale")
    \cup When("sandbox_evidence_subject_mismatch" \in reasons, "binding_mismatch")
    \cup When("sandbox_evidence_over_budget" \in reasons, "over_budget")

validate_sandbox_run_evidence(f, g, seen, total, now) ==
    LET r == Payload(f)
        reasons == SandboxReasons(f, g, seen, total, now)
    IN [path |-> f.path, valid |-> reasons = {}, normalized |-> TRUE,
        signals |-> NormalizedSignals(r) \cup ReasonSignals(reasons),
        ref |-> [report_fingerprint |-> IF r = NULL THEN NULL ELSE r.fp,
                 gate_decision_fingerprint |-> IF r = NULL THEN NULL ELSE r.gate,
                 snapshot_id |-> Get(NormalizedSubject(r), "snapshot_id"),
                 manifest_fingerprint |-> Get(NormalizedSubject(r), "manifest_fingerprint"),
                 reasons |-> reasons]]
=============================================================================
