---------------------------- MODULE Authorization ----------------------------
(***************************************************************************)
(* The execution-authorization validator of gate/authorization.py, as pure *)
(* operators on records.  An artifact is the parsed JSON document a Human  *)
(* controls; a gate decision is what the evaluator produced for a verified *)
(* snapshot; the runtime record carries what sandbox-run observed itself.  *)
(* Hashes are injective: a fingerprint is a tagged copy of what it digests.*)
(***************************************************************************)
EXTENDS Integers, FiniteSets, PythonValues

CONSTANTS
    Fingerprint,    \* the well-formed "sha256:<64 hex>" values
    PinnedRef,      \* the image references pinned by a registry digest
    LocalImageId    \* the full local image IDs

ASSUME AuthorizationConstants ==
    NULL \notin (Fingerprint \cup PinnedRef \cup LocalImageId)

Current == "0.3-draft"
ImageBoundVersions == {"0.2-draft", Current}
Versions == {"0.1-draft"} \cup ImageBoundVersions

Err(holds, reason) == IF holds THEN {reason} ELSE {}

(***************************************************************************)
(* Gate decisions and what an artifact repeats of them                     *)
(***************************************************************************)
SubjectFields == {"repo", "commit", "tree_hash", "snapshot_id", "manifest_fingerprint"}
LegacySubjectFields == {"repo", "commit", "tree_hash"}

Restricted(m, keys) == [k \in keys |-> Get(m, k)]

gate_decision_fingerprint(g) == <<"sha256", g>>

GateReference(g) == [verdict |-> g.verdict, fingerprint |-> gate_decision_fingerprint(g)]

\* _gate_subject: every field present, absent ones None, no binding "unbound"
GateSubject(g) ==
    [k \in SubjectFields \cup {"binding_kind"} |->
        IF k = "binding_kind" /\ Get(g.subject, k) = NULL THEN "unbound" ELSE Get(g.subject, k)]

\* What sandbox-run hands to the validator when it has no gate decision ({})
NoGate == [subject |-> [repo |-> "<repo>"], policy_version |-> NULL, verdict |-> NULL]

\* The scope and the subject an artifact of the given schema version must carry
ExpectedScope(version, g) ==
    IF version = Current THEN GateSubject(g)
                         ELSE Restricted(GateSubject(g), LegacySubjectFields \cup {"binding_kind"})

ExpectedSubject(version, g) ==
    Restricted(GateSubject(g), IF version = Current THEN SubjectFields ELSE LegacySubjectFields)

\* build_execution_authorization_draft: never approved
AuthorizationDraft(g, argv, expires, image) ==
    [wellformed |-> TRUE, version |-> Current, approved |-> FALSE, signed |-> FALSE,
     scope |-> ExpectedScope(Current, g), subject |-> ExpectedSubject(Current, g),
     argv |-> argv, policy_version |-> g.policy_version, based_on |-> GateReference(g),
     expires |-> expires, image |-> image]

(***************************************************************************)
(* validate_execution_authorization                                        *)
(*                                                                         *)
(* An artifact's "wellformed" stands for the checks of its own text: kind, *)
(* field set, non-empty limitations and residual risks, no raw pattern or  *)
(* host path.  "signed" stands for approved_by and a parseable approved_at.*)
(***************************************************************************)
ShapeErrors(a) ==
    Err(~a.wellformed \/ (a.image # NULL /\ a.version \notin ImageBoundVersions),
        "authorization_top_level_required_or_unknown_field")
    \cup Err(a.version \notin Versions, "authorization_schema_version_unsupported")
    \cup Err(a.approved # TRUE, "approval_missing")
    \cup Err(a.approved = TRUE /\ ~a.signed, "approved_by_required")

BindingErrors(a, g, argv) ==
    Err(a.scope # ExpectedScope(a.version, g), "approved_scope_mismatch")
    \cup Err(a.argv # argv, "approved_argv_mismatch")
    \cup Err(a.policy_version # g.policy_version, "approved_policy_version_mismatch")
    \cup Err(a.based_on # GateReference(g), "based_on_gate_decision_mismatch")
    \cup Err(a.subject # ExpectedSubject(a.version, g), "authorization_subject_mismatch")

SnapshotBindingPresent(a) ==
    /\ a.version = Current
    /\ \A k \in {"snapshot_id", "manifest_fingerprint"} :
          Get(a.subject, k) \in Fingerprint /\ Get(a.scope, k) \in Fingerprint

\* One runtime field: unconstrained when the caller supplies None
RuntimeFieldMatches(a, g, observed, k) ==
    \/ observed[k] = NULL
    \/ \A v \in {Get(a.subject, k), Get(a.scope, k), GateSubject(g)[k]} : v = observed[k]

SnapshotErrors(a, g, observed) ==
    IF a.version # Current THEN {}
    ELSE IF ~SnapshotBindingPresent(a) \/ GateSubject(g)["binding_kind"] # "snapshot_bound"
    THEN {"authorization_snapshot_binding_unresolved"}
    ELSE Err(\E k \in SubjectFields :
                \/ ~RuntimeFieldMatches(a, g, observed, k)
                \/ /\ k \in {"snapshot_id", "manifest_fingerprint"}
                   /\ \/ a.subject[k] # GateSubject(g)[k]
                      \/ a.scope[k] # GateSubject(g)[k],
             "authorization_snapshot_binding_mismatch")

\* Mutant: the instant of expiry still counts as valid
ExpiryErrors_Inclusive(a, now) == Err(a.expires = NULL \/ a.expires < now, "authorization_expired")

ExpiryErrors(a, now) ==
    Err(a.expires = NULL, "expires_at_required")
    \cup Err(a.expires # NULL /\ a.expires <= now, "authorization_expired")

ImageReferenceMatches(a, ref) == a.image # NULL /\ a.image.ref = ref
ImageIdMatches(a, id) ==
    a.image # NULL /\ id \in LocalImageId /\ a.image.id = id

ImageErrors(a, ref, id) ==
    IF a.image = NULL \/ a.version \notin ImageBoundVersions THEN {}
    ELSE Err(a.image.ref \notin PinnedRef, "approved_image_digest_unpinned")
         \cup Err(~ImageReferenceMatches(a, ref), "approved_image_reference_mismatch")
         \cup Err(id \notin LocalImageId, "runtime_image_id_unresolved")
         \cup Err(id \in LocalImageId /\ ~ImageIdMatches(a, id), "approved_image_id_mismatch")

VerdictErrors(g) ==
    Err(g.verdict \in {"block", "quarantine", "unknown"}, "gate_verdict_cannot_be_authorized")
    \cup Err(g.verdict \notin {"block", "quarantine", "unknown", "warn", "allow_limited"},
             "gate_verdict_invalid_for_authorization")

\* r = [observed |-> the five snapshot fields, ref, id], now the validator's clock
AuthorizationErrors(a, g, argv, r, now) ==
    UNION {ShapeErrors(a), BindingErrors(a, g, argv), SnapshotErrors(a, g, r.observed),
           ExpiryErrors(a, now), ImageErrors(a, r.ref, r.id), VerdictErrors(g)}

execution_authorized(a, g, argv, r, now) == AuthorizationErrors(a, g, argv, r, now) = {}

\* What a real Docker run demands on top of execution_authorized
ImageBound(a, r) ==
    /\ a.version \in ImageBoundVersions
    /\ ImageReferenceMatches(a, r.ref)
    /\ ImageIdMatches(a, r.id)

(***************************************************************************)
(* validate_execution_authorization_snapshot_binding: one exact subject    *)
(* across gate, approval and runtime, with no field left open              *)
(***************************************************************************)
RuntimeResolved(observed) ==
    /\ \A k \in {"repo", "snapshot_id", "manifest_fingerprint"} : observed[k] \in Fingerprint
    /\ \A k \in {"commit", "tree_hash"} : observed[k] # NULL

SnapshotBinding(a, g, observed) ==
    IF ~RuntimeResolved(observed) THEN "unresolved"
    ELSE IF /\ GateSubject(g)["binding_kind"] = "snapshot_bound"
            /\ \A k \in SubjectFields :
                  /\ GateSubject(g)[k] = observed[k]
                  /\ Get(a.subject, k) = observed[k]
                  /\ Get(a.scope, k) = observed[k]
    THEN "matched"
    ELSE "mismatch"

(***************************************************************************)
(* _subject_consistency_report of sandbox/run.py                           *)
(***************************************************************************)
GateMatches(g, observed) ==
    /\ Get(g.subject, "binding_kind") = "snapshot_bound"
    /\ \A k \in SubjectFields : Get(g.subject, k) = observed[k]

AuthorizationMatches(a, observed) ==
    \A k \in SubjectFields : Get(a.subject, k) = observed[k]
=============================================================================
