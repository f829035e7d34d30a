-------------------------- MODULE SandboxRunProofs --------------------------
(***************************************************************************)
(* Theorems about SandboxRun for any number of invocations, artifact paths,*)
(* command lines, documents, snapshots and exit codes: what a validated    *)
(* authorization establishes, the single use of an artifact, and what the  *)
(* report and the exit code say of it.                                     *)
(***************************************************************************)
EXTENDS SandboxRun, TLAPS

(***************************************************************************)
(* What a validated execution authorization establishes, for every         *)
(* document, gate decision, command and runtime                            *)
(***************************************************************************)
\* A reason is absent exactly when its condition is.
LEMMA ErrEmpty ==
    ASSUME NEW holds \in BOOLEAN, NEW reason
    PROVE  Err(holds, reason) = {} <=> ~holds
BY DEF Err

\* execution_authorized is the conjunction of the validator's groups of checks.
LEMMA NoErrors ==
    ASSUME NEW a, NEW g, NEW argv, NEW r, NEW now, execution_authorized(a, g, argv, r, now)
    PROVE  /\ ShapeErrors(a) = {} /\ BindingErrors(a, g, argv) = {}
           /\ SnapshotErrors(a, g, r.observed) = {} /\ ExpiryErrors(a, now) = {}
           /\ ImageErrors(a, r.ref, r.id) = {} /\ VerdictErrors(g) = {}
BY DEF execution_authorized, AuthorizationErrors

\* An authorized artifact is approved, signed, of a supported version and not expired.
LEMMA AuthorizedIsApproved ==
    ASSUME NEW a, NEW g, NEW argv, NEW r, NEW now, execution_authorized(a, g, argv, r, now)
    PROVE  /\ a.approved = TRUE /\ a.signed /\ a.version \in Versions
           /\ a.expires # NULL /\ ~(a.expires <= now)
           /\ g.verdict \in {"warn", "allow_limited"}
<1>1. /\ ShapeErrors(a) = {} /\ ExpiryErrors(a, now) = {} /\ VerdictErrors(g) = {}
    BY NoErrors
<1>2. a.approved = TRUE /\ a.signed /\ a.version \in Versions
    BY <1>1 DEF ShapeErrors, Err
<1>3. a.expires # NULL /\ ~(a.expires <= now)
    BY <1>1 DEF ExpiryErrors, Err
<1>4. g.verdict \in {"warn", "allow_limited"}
    BY <1>1 DEF VerdictErrors, Err
<1> QED
    BY <1>2, <1>3, <1>4

\* It repeats the command and the gate decision it was given for, exactly.
LEMMA AuthorizedIsBound ==
    ASSUME NEW a, NEW g, NEW argv, NEW r, NEW now, execution_authorized(a, g, argv, r, now)
    PROVE  /\ a.argv = argv /\ a.based_on = GateReference(g)
           /\ a.policy_version = g.policy_version
           /\ a.scope = ExpectedScope(a.version, g)
           /\ a.subject = ExpectedSubject(a.version, g)
<1>1. BindingErrors(a, g, argv) = {}
    BY NoErrors
<1> QED
    BY <1>1 DEF BindingErrors, Err

\* One artifact, one world: an artifact that authorizes two runs authorizes the same
\* command over the same gate decision in both, and with an image binding the same image.
THEOREM OneArtifactOneWorld ==
    ASSUME NEW a, NEW g1, NEW argv1, NEW r1, NEW now1, NEW g2, NEW argv2, NEW r2, NEW now2,
           execution_authorized(a, g1, argv1, r1, now1),
           execution_authorized(a, g2, argv2, r2, now2)
    PROVE  /\ argv1 = argv2 /\ g1 = g2
           /\ ImageBound(a, r1) /\ ImageBound(a, r2) => r1.ref = r2.ref /\ r1.id = r2.id
<1>1. argv1 = argv2 /\ GateReference(g1) = GateReference(g2)
    BY AuthorizedIsBound
<1>2. gate_decision_fingerprint(g1) = gate_decision_fingerprint(g2)
    BY <1>1 DEF GateReference
<1>3. g1 = g2
    BY <1>2 DEF gate_decision_fingerprint
<1>4. ImageBound(a, r1) /\ ImageBound(a, r2) => r1.ref = r2.ref /\ r1.id = r2.id
    BY DEF ImageBound, ImageReferenceMatches, ImageIdMatches
<1> QED
    BY <1>1, <1>3, <1>4

\* A matched snapshot binding leaves no field open and is out of reach of artifacts of
\* the earlier schema versions, which cannot name a snapshot.
THEOREM MatchedMeansCurrent ==
    ASSUME NEW a, NEW g, NEW argv, NEW r, NEW now, execution_authorized(a, g, argv, r, now),
           SnapshotBinding(a, g, r.observed) = "matched"
    PROVE  /\ a.version = Current
           /\ \A k \in SubjectFields : /\ r.observed[k] # NULL
                                       /\ a.subject[k] = r.observed[k]
                                       /\ a.scope[k] = r.observed[k]
<1>1. /\ RuntimeResolved(r.observed)
      /\ \A k \in SubjectFields : /\ Get(a.subject, k) = r.observed[k]
                                  /\ Get(a.scope, k) = r.observed[k]
    BY DEF SnapshotBinding
<1>2. \A k \in SubjectFields : r.observed[k] # NULL
    BY <1>1, AuthorizationConstants DEF RuntimeResolved, SubjectFields
<1>3. \A k \in SubjectFields : /\ k \in DOMAIN a.subject /\ a.subject[k] = r.observed[k]
                               /\ k \in DOMAIN a.scope /\ a.scope[k] = r.observed[k]
    BY <1>1, <1>2 DEF Get
<1>4. a.version = Current
    <2>1. a.version # Current => DOMAIN a.subject = LegacySubjectFields
        BY AuthorizedIsBound DEF ExpectedSubject, Restricted
    <2>2. "snapshot_id" \in DOMAIN a.subject
        BY <1>3 DEF SubjectFields
    <2>3. "snapshot_id" \notin LegacySubjectFields
        BY DEF LegacySubjectFields
    <2> QED
        BY <2>1, <2>2, <2>3
<1> QED
    BY <1>2, <1>3, <1>4

(***************************************************************************)
(* Type correctness                                                        *)
(***************************************************************************)
\* Every report the pipeline builds before a run is well-typed (_policy_blocked_report,
\* _infrastructure_error_report, the dry run and the exception handler).
LEMMA ReportTyped ==
    ASSUME NEW tracked \in BOOLEAN
    PROVE  /\ BlockedReport \in ReportRecord
           /\ ErrorReport(tracked) \in ReportRecord
           /\ DryRunReport \in ReportRecord
BY DEF BlockedReport, ErrorReport, DryRunReport, Report, ReportRecord

\* The report of a run that came back is well-typed, whatever the runner returned.
LEMMA ResultReportTyped ==
    ASSUME NEW p \in Proc, result[p] \in RunnerResult, NEW intact \in BOOLEAN
    PROVE  ResultReport(p, intact) \in ReportRecord
<1>1. result[p].exit_code # NULL => result[p].exit_code \in Int
    BY DEF RunnerResult
<1>2. IsReal(req[p]) \in BOOLEAN
    BY DEF IsReal
<1> DEFINE infra == req[p].runner = "docker" /\ result[p].outcome # "timed_out"
                    /\ result[p].exit_code \in {125, NULL}
           code == IF result[p].outcome = "output_budget_exceeded" THEN 2
                   ELSE IF infra \/ result[p].exit_code = NULL THEN 1 ELSE result[p].exit_code
<1>3. code \in Int
    BY <1>1
<1> QED
    BY <1>1, <1>2, <1>3 DEF ResultReport, ReportRecord, RunnerResult, CleanupStatus

\* _finalize_report keeps a report well-typed.
LEMMA FinalizedTyped ==
    ASSUME NEW r \in ReportRecord, NEW c
    PROVE  Finalized(r, c) \in ReportRecord
<1>1. 1 \in Int
    OBVIOUS
<1>2. CleanupUncertain(r) \in ReportRecord
    BY <1>1, Zenon DEF CleanupUncertain, ReportRecord
<1> QED
    BY <1>2 DEF Finalized

\* _sandbox_run_exit_code returns a number.
LEMMA CliExitTyped ==
    ASSUME NEW r \in ReportRecord
    PROVE  CliExit(r) \in Int
BY DEF CliExit, ReportRecord

\* The refusals collected before Docker is probed are known refusals.
LEMMA ReasonsTyped ==
    ASSUME NEW p \in Proc, NEW ok
    PROVE  PolicyReasons(p, ok) \subseteq Reason /\ InfrastructureReasons(p) \subseteq Reason
BY DEF PolicyReasons, InfrastructureReasons, Reason, Err

\* load_bounded_json_document yields a version of the file or nothing.
LEMMA LoadTyped ==
    ASSUME TypeOK, NEW f \in Path
    PROVE  /\ Load(f) \in FileState \cup {NULL}
           /\ Load(f) # NULL => Load(f) = file[f]
BY DEF TypeOK, Load

\* Initially everything is well-typed.
LEMMA TypeInit == Init => TypeOK
BY SandboxRunConstants DEF Init, TypeOK, FileState, Pc, Terminal

\* What an invocation has at hand where the pipeline uses it: a path, a runner result and
\* a report.  TypeOK alone is not inductive: each of them may be NULL elsewhere.
AtHand ==
    \A p \in Proc :
        /\ pc[p] \in {"load_cli", "recheck", "reserve", "recheck_reserved"} => req[p].path \in Path
        /\ pc[p] = "verify_after" => result[p] \in RunnerResult
        /\ pc[p] \in {"finalize", "done"} => report[p] \in ReportRecord

\* The ends of the pipeline: a refusal, an exception, any other report.
LEMMA ConcludeTyped ==
    ASSUME TypeOK, NEW p \in Proc, NEW r \in ReportRecord, NEW why \in SUBSET Reason,
           Conclude(p, r, why)
    PROVE  /\ pc' \in [Proc -> Pc]
           /\ report' \in [Proc -> ReportRecord \cup {NULL}]
           /\ cause' \in [Proc -> SUBSET Reason]
           /\ pc'[p] = "finalize" /\ report'[p] \in ReportRecord
BY DEF TypeOK, Conclude, Goto, Pc

\* A policy refusal leaves a well-typed report (_policy_blocked_report).
LEMMA RefuseTyped ==
    ASSUME TypeOK, NEW p \in Proc, NEW why \in SUBSET Reason, Refuse(p, why)
    PROVE  /\ pc' \in [Proc -> Pc]
           /\ report' \in [Proc -> ReportRecord \cup {NULL}]
           /\ cause' \in [Proc -> SUBSET Reason]
           /\ pc'[p] = "finalize" /\ report'[p] \in ReportRecord
<1>1. BlockedReport \in ReportRecord
    BY ReportTyped
<1> QED
    BY <1>1, ConcludeTyped DEF Refuse

\* So does an exception caught by run_sandbox_run.
LEMMA RaiseTyped ==
    ASSUME TypeOK, NEW p \in Proc, NEW why \in SUBSET Reason, NEW tracked \in BOOLEAN,
           Raise(p, tracked, why)
    PROVE  /\ pc' \in [Proc -> Pc]
           /\ report' \in [Proc -> ReportRecord \cup {NULL}]
           /\ cause' \in [Proc -> SUBSET Reason]
           /\ pc'[p] = "finalize" /\ report'[p] \in ReportRecord
<1>1. ErrorReport(tracked) \in ReportRecord
    BY ReportTyped
<1> QED
    BY <1>1, ConcludeTyped DEF Raise

\* verify_verified_snapshot ends the pipeline or lets it go on.
LEMMA VerifyTyped ==
    ASSUME TypeOK, NEW p \in Proc, NEW tracked \in BOOLEAN, Verify(p, tracked)
    PROVE  /\ pc' \in [Proc -> Pc]
           /\ report' \in [Proc -> ReportRecord \cup {NULL}]
           /\ cause' \in [Proc -> SUBSET Reason]
           /\ pc'[p] = "finalize" /\ report'[p] \in ReportRecord
<1>1. /\ {"snapshot_integrity_verification_failed"} \in SUBSET Reason
      /\ {"snapshot_unreadable"} \in SUBSET Reason
    BY DEF Reason
<1>2. CASE Refuse(p, {"snapshot_integrity_verification_failed"})
    BY <1>1, <1>2, RefuseTyped
<1>3. CASE Raise(p, tracked, {"snapshot_unreadable"})
    BY <1>1, <1>3, RaiseTyped
<1> QED
    BY <1>2, <1>3 DEF Verify

\* Steps of one invocation keep everything well-typed.
LEMMA TypeStep ==
    ASSUME TypeOK, AtHand, NEW p \in Proc, Step(p)
    PROVE  TypeOK'
<1> USE SandboxRunConstants DEF At, Goto, Terminal, Pc
<1>0. req[p] \in Request /\ IsReal(req[p]) \in BOOLEAN
    BY DEF TypeOK, IsReal
<1>1. CASE Intake(p)
    BY <1>1 DEF Intake, TypeOK
<1>2. CASE LoadCli(p)
    <2>1. req[p].path \in Path
        BY <1>2 DEF LoadCli, AtHand
    <2>2. Load(req[p].path) \in FileState \cup {NULL}
        BY <2>1, LoadTyped
    <2>3. CASE Load(req[p].path) = NULL
        <3>1. \E left \in {"removed", "left"} : ws' = [ws EXCEPT ![p] = left]
            BY <1>2, <2>3 DEF LoadCli
        <3>2. exit' = [exit EXCEPT ![p] = 2] /\ pc' = [pc EXCEPT ![p] = "usage"] /\ UNCHANGED cli
            BY <1>2, <2>3 DEF LoadCli
        <3> QED
            BY <1>2, <3>1, <3>2 DEF LoadCli, TypeOK
    <2>4. CASE Load(req[p].path) # NULL
        BY <1>2, <2>2, <2>4 DEF LoadCli, TypeOK
    <2> QED
        BY <2>3, <2>4
<1>3. CASE ValidateCli(p)
    BY <1>3 DEF ValidateCli, TypeOK
<1>4. CASE LoadRuntime(p)
    <2>1. CASE pc' = [pc EXCEPT ![p] = "interrupted"] /\ UNCHANGED ctl
        <3>1. ws' = ws \/ \E left \in {"removed", "left"} : ws' = [ws EXCEPT ![p] = left]
            BY <1>4 DEF LoadRuntime
        <3> QED
            <4>1. UNCHANGED <<file, marker, clock, req, snap, cli, cliOk, rid, reservation, result, report,
                              exit, inflight, started, cause, validated, sealed>>
                BY <1>4 DEF LoadRuntime
            <4> QED
                BY <2>1, <3>1, <4>1 DEF TypeOK
    <2>2. CASE /\ ctl' = [ctl EXCEPT ![p] = IF req[p].path = NULL THEN NULL ELSE Load(req[p].path)]
               /\ pc' = [pc EXCEPT ![p] = "image"] /\ UNCHANGED ws
        BY <1>4, <2>2, LoadTyped, <1>0 DEF LoadRuntime, TypeOK
    <2> QED
        BY <1>4, <2>1, <2>2 DEF LoadRuntime
<1>5. CASE ResolveImage(p)
    BY <1>5 DEF ResolveImage, TypeOK
<1>6. CASE Validate(p)
    <2>1. /\ pc' \in [Proc -> Pc]
          /\ report' \in [Proc -> ReportRecord \cup {NULL}]
          /\ cause' \in [Proc -> SUBSET Reason]
        <3> DEFINE refusals == PolicyReasons(p, Authorized(p))
        <3>1. CASE Refuse(p, refusals)
            BY <3>1, RefuseTyped, ReasonsTyped
        <3>2. CASE Conclude(p, ErrorReport(FALSE), InfrastructureReasons(p))
            BY <3>2, ConcludeTyped, ReportTyped, ReasonsTyped
        <3>3. CASE Goto(p, "docker") /\ UNCHANGED <<report, cause>>
            BY <3>3 DEF TypeOK
        <3> QED
            BY <1>6, <3>1, <3>2, <3>3 DEF Validate
    <2> QED
        BY <1>6, <2>1 DEF Validate, TypeOK
<1>7. CASE ProbeDocker(p)
    <2>1. /\ pc' \in [Proc -> Pc]
          /\ report' \in [Proc -> ReportRecord \cup {NULL}]
          /\ cause' \in [Proc -> SUBSET Reason]
        <3>1. {"docker_unavailable"} \in SUBSET Reason
            BY DEF Reason
        <3>2. CASE Conclude(p, ErrorReport(FALSE), {"docker_unavailable"})
            BY <3>1, <3>2, ConcludeTyped, ReportTyped
        <3>3. CASE Goto(p, "verify_plan") /\ UNCHANGED <<report, cause>>
            BY <3>3 DEF TypeOK
        <3> QED
            BY <1>7, <3>2, <3>3 DEF ProbeDocker
    <2> QED
        BY <1>7, <2>1 DEF ProbeDocker, TypeOK
<1>8. CASE VerifyPlan(p)
    <2>1. /\ pc' \in [Proc -> Pc]
          /\ report' \in [Proc -> ReportRecord \cup {NULL}]
          /\ cause' \in [Proc -> SUBSET Reason]
        <3>1. CASE Verify(p, FALSE)
            BY <3>1, VerifyTyped
        <3>2. CASE Conclude(p, DryRunReport, {})
            BY <3>2, ConcludeTyped, ReportTyped
        <3>3. CASE /\ Goto(p, IF req[p].path = NULL THEN "verify_launch" ELSE "recheck")
                   /\ UNCHANGED <<report, cause>>
            <4>1. (IF req[p].path = NULL THEN "verify_launch" ELSE "recheck") \in Pc
                OBVIOUS
            <4> QED
                BY <3>3, <4>1 DEF TypeOK
        <3>4. {"docker_planning_failed"} \in SUBSET Reason
            BY DEF Reason
        <3>5. CASE Raise(p, FALSE, {"docker_planning_failed"})
            BY <3>4, <3>5, RaiseTyped
        <3> QED
            BY <1>8, <3>1, <3>2, <3>3, <3>5 DEF VerifyPlan
    <2>2. reservation' = reservation \/ reservation' = [reservation EXCEPT ![p] = "not_consumed"]
        BY <1>8 DEF VerifyPlan
    <2>3. UNCHANGED <<file, marker, clock, req, snap, ws, cli, cliOk, ctl, rid, result, exit, inflight, started,
                      validated, sealed>>
        BY <1>8 DEF VerifyPlan
    <2> QED
        BY <2>1, <2>2, <2>3 DEF TypeOK
<1>9. ASSUME NEW step, NEW next \in {"reserve", "verify_launch"}, RecheckControl(p, step, next)
      PROVE  TypeOK'
    <2>1. /\ pc' \in [Proc -> Pc]
          /\ report' \in [Proc -> ReportRecord \cup {NULL}]
          /\ cause' \in [Proc -> SUBSET Reason]
        <3>1. {"authorization_control_file_changed"} \in SUBSET Reason
            BY DEF Reason
        <3>2. CASE Raise(p, IsReal(req[p]), {"authorization_control_file_changed"})
            BY <1>0, <3>1, <3>2, RaiseTyped
        <3>4. {"control_file_io_error"} \in SUBSET Reason
            BY DEF Reason
        <3>5. CASE Raise(p, IsReal(req[p]), {"control_file_io_error"})
            BY <1>0, <3>4, <3>5, RaiseTyped
        <3>3. CASE Goto(p, next) /\ UNCHANGED <<report, cause>>
            BY <3>3 DEF TypeOK
        <3> QED
            BY <1>9, <3>2, <3>3, <3>5 DEF RecheckControl
    <2> QED
        BY <1>9, <2>1 DEF RecheckControl, TypeOK
<1>10. CASE ReserveCreate(p)
    <2>1. /\ pc' \in [Proc -> Pc]
          /\ report' \in [Proc -> ReportRecord \cup {NULL}]
          /\ cause' \in [Proc -> SUBSET Reason]
        <3>1. {"authorization_single_use_reservation_write_failed"} \in SUBSET Reason
            BY DEF Reason
        <3>2. CASE Refuse(p, {"authorization_single_use_reservation_write_failed"})
            BY <3>1, <3>2, RefuseTyped
        <3>3. CASE Goto(p, "recheck_reserved") /\ UNCHANGED <<report, cause>>
            BY <3>3 DEF TypeOK
        <3> QED
            BY <1>10, <3>2, <3>3 DEF ReserveCreate
    <2>2. req[p].path \in Path
        BY <1>10 DEF ReserveCreate, AtHand
    <2> QED
        BY <1>10, <2>1, <2>2 DEF ReserveCreate, Reserved, TypeOK
<1>11. CASE ReserveRefused(p)
    <2>1. /\ pc' \in [Proc -> Pc]
          /\ report' \in [Proc -> ReportRecord \cup {NULL}]
          /\ cause' \in [Proc -> SUBSET Reason]
        <3>1. /\ {"authorization_single_use_reservation_write_failed"} \in SUBSET Reason
              /\ {"authorization_single_use_reservation_exists"} \in SUBSET Reason
            BY DEF Reason
        <3> QED
            BY <1>11, <3>1, RefuseTyped DEF ReserveRefused
    <2> QED
        BY <1>11, <2>1 DEF ReserveRefused, Reserved, TypeOK
<1>12. CASE VerifyLaunch(p)
    <2>1. /\ pc' \in [Proc -> Pc]
          /\ report' \in [Proc -> ReportRecord \cup {NULL}]
          /\ cause' \in [Proc -> SUBSET Reason]
        <3>1. CASE Verify(p, IsReal(req[p]))
            BY <1>0, <3>1, VerifyTyped
        <3>2. CASE Goto(p, "launch") /\ UNCHANGED <<report, cause>>
            BY <3>2 DEF TypeOK
        <3> QED
            BY <1>12, <3>1, <3>2 DEF VerifyLaunch
    <2> QED
        BY <1>12, <2>1 DEF VerifyLaunch, TypeOK
<1>13. CASE Launch(p)
    <2>1. result' \in [Proc -> RunnerResult \cup {NULL}]
        BY <1>13 DEF Launch, Returned, NormalResult, FailedResult, CleanupStatus, RunnerResult, TypeOK
    <2> QED
        BY <1>13, <2>1 DEF Launch, Returned, TypeOK
<1>14. CASE RunnerReturns(p)
    <2>1. result' \in [Proc -> RunnerResult \cup {NULL}]
        BY <1>14, RunnerConstants DEF RunnerReturns, PossibleResult, Returned, NormalResult, FailedResult,
                     CleanupStatus, DockerExit, ClientKilled, RunnerResult, TypeOK
    <2> QED
        BY <1>14, <2>1 DEF RunnerReturns, Returned, TypeOK
<1>15. CASE VerifyAfter(p)
    <2>1. /\ pc' \in [Proc -> Pc]
          /\ report' \in [Proc -> ReportRecord \cup {NULL}]
          /\ cause' \in [Proc -> SUBSET Reason]
        <3>1. {"snapshot_unreadable"} \in SUBSET Reason
            BY DEF Reason
        <3>2. CASE Raise(p, IsReal(req[p]), {"snapshot_unreadable"})
            BY <1>0, <3>1, <3>2, RaiseTyped
        <3>3. CASE Conclude(p, ResultReport(p, ws[p] = "intact"), {})
            <4>1. ResultReport(p, ws[p] = "intact") \in ReportRecord
                BY <1>15, ResultReportTyped DEF VerifyAfter, AtHand
            <4> QED
                BY <3>3, <4>1, ConcludeTyped
        <3> QED
            BY <1>15, <3>2, <3>3 DEF VerifyAfter
    <2> QED
        BY <1>15, <2>1 DEF VerifyAfter, TypeOK
<1>16. CASE Finalize(p)
    <2>1. PICK c : /\ c \in {"preserved"} \cup CleanupStatus
                   /\ report' = [report EXCEPT ![p] = Finalized(report[p], c)]
                   /\ exit' = [exit EXCEPT ![p] = CliExit(Finalized(report[p], c))]
                   /\ ws' = [ws EXCEPT ![p] = CASE c = "preserved" -> "kept"
                                                [] c = "ok" -> "removed"
                                                [] c = "failed" -> "left"]
        BY <1>16 DEF Finalize
    <2>2. Finalized(report[p], c) \in ReportRecord
        BY <1>16, FinalizedTyped DEF Finalize, AtHand
    <2>3. CliExit(Finalized(report[p], c)) \in Int
        BY <2>2, CliExitTyped
    <2>4. /\ report' \in [Proc -> ReportRecord \cup {NULL}]
          /\ exit' \in [Proc -> Int \cup {NULL}]
        BY <2>1, <2>2, <2>3 DEF TypeOK
    <2>5. ws' \in [Proc -> {"none", "intact", "tampered", "gone", "removed", "kept", "left", "leaked"}]
        BY <2>1 DEF TypeOK, CleanupStatus
    <2> QED
        BY <1>16, <2>4, <2>5 DEF Finalize, TypeOK
<1> QED
    BY <1>1, <1>2, <1>3, <1>4, <1>5, <1>6, <1>7, <1>8, <1>9, <1>10, <1>11, <1>12, <1>13, <1>14,
       <1>15, <1>16 DEF Step, RecheckBeforeReserve, RecheckAfterReserve

\* The environment keeps everything well-typed.
LEMMA TypeEnvironment ==
    ASSUME TypeOK, Environment
    PROVE  TypeOK'
<1> USE DEF Terminal, Pc
<1>1. ASSUME NEW p \in Proc, ContainerStarts(p) PROVE TypeOK'
    BY <1>1 DEF ContainerStarts, TypeOK
<1>2. ASSUME NEW p \in Proc, Interrupt(p) PROVE TypeOK'
    BY <1>2 DEF Interrupt, At, Goto, CleanupStatus, TypeOK
<1>3. ASSUME NEW p \in Proc, Kill(p) PROVE TypeOK'
    BY <1>3 DEF Kill, Goto, TypeOK
<1>4. ASSUME NEW p \in Proc, Tamper(p) PROVE TypeOK'
    BY <1>4 DEF Tamper, TypeOK
<1>5. ASSUME NEW f \in Path, Rewrite(f) PROVE TypeOK'
    <2>1. file' \in [Path -> FileState]
        BY <1>5, SandboxRunConstants DEF Rewrite, TypeOK, FileState
    <2> QED
        BY <1>5, <2>1 DEF Rewrite, TypeOK
<1>6. CASE Tick
    BY <1>6, SandboxRunConstants DEF Tick, TypeOK
<1> QED
    BY <1>1, <1>2, <1>3, <1>4, <1>5, <1>6 DEF Environment

(***************************************************************************)
(* The inductive invariant behind the single use                           *)
(***************************************************************************)
BeforeReserve == {"intake", "load_cli", "validate_cli", "load", "image", "validate", "docker",
                  "verify_plan", "recheck", "reserve"}
Validated == {"docker", "verify_plan", "recheck", "reserve", "recheck_reserved", "verify_launch",
              "launch", "running", "verify_after"}
Launching == {"verify_launch", "launch", "running"}

\* The artifact passed validation: in a real run by the second reading, else by the CLI's
Passed(p) == IF IsReal(req[p]) THEN WhatWasApproved(p) ELSE cliOk[p]

\* Past "validate" an artifact was given to every real run, and passed.
Approval ==
    \A p \in Proc : pc[p] \in Validated =>
        /\ IsReal(req[p]) => req[p].path # NULL
        /\ req[p].path # NULL => Passed(p)

\* Dry runs leave the pipeline before the first re-read.
WetPast ==
    \A p \in Proc : pc[p] \in {"recheck", "reserve", "recheck_reserved"} \cup Launching =>
        ~req[p].dry_run

\* A marker belongs to an invocation past its reservation whose artifact passed.
Ownership ==
    \A f \in Path : \A p \in Proc : marker[f] = p =>
        /\ req[p].path = f /\ ~req[p].dry_run /\ pc[p] \notin BeforeReserve
        /\ Passed(p)

\* Invocations that are about to launch with an artifact, or did launch
Launched(p) == (pc[p] \in Launching /\ req[p].path # NULL) \/ p \in inflight \cup started

\* Invocations whose artifact is spent
Holding(p) == pc[p] = "recheck_reserved" \/ Launched(p)

\* Such an invocation created its artifact's marker.
Custody ==
    \A p \in Proc : Holding(p) => req[p].path \in Path /\ marker[req[p].path] = p

\* Only real runs reach the daemon.
RealOnly == \A p \in inflight \cup started : IsReal(req[p])

\* d is a current or an earlier state of a file whose state is e.
VersionOf(d, e) == d.stamp <= e.stamp /\ (d.stamp = e.stamp => d = e)

\* Documents read, and the state at reservation, are versions of the file; the document
\* that was validated is not younger than the state at reservation, and is that state
\* once the second re-read has agreed.
Seal ==
    /\ \A p \in Proc : ctl[p] # NULL =>
          /\ req[p].path \in Path /\ VersionOf(ctl[p], file[req[p].path])
          /\ pc[p] = "recheck_reserved" => VersionOf(ctl[p], sealed[req[p].path])
    /\ \A f \in Path : marker[f] # NULL => sealed[f] \in FileState /\ VersionOf(sealed[f], file[f])
    /\ \A p \in Proc : Launched(p) => sealed[req[p].path] = ctl[p]

Protocol == Approval /\ WetPast /\ Ownership /\ Custody /\ RealOnly /\ Seal

IInv == TypeOK /\ AtHand /\ Protocol

\* Whether q's artifact passed depends on q's own data only.
LEMMA PassedFrame ==
    ASSUME NEW q \in Proc, UNCHANGED req,
           ctl'[q] = ctl[q], snap'[q] = snap[q], rid'[q] = rid[q], validated'[q] = validated[q],
           cliOk'[q] = cliOk[q]
    PROVE  Passed(q)' = Passed(q)
BY DEF Passed, WhatWasApproved

\* An invocation that has not reserved holds nothing.
LEMMA NotHolding ==
    ASSUME TypeOK, Protocol, NEW p \in Proc, pc[p] \in BeforeReserve
    PROVE  /\ ~Holding(p)
           /\ \A f \in Path : marker[f] # p
<1>1. \A f \in Path : marker[f] # p
    BY DEF Protocol, Ownership
<1> QED
    BY <1>1 DEF Protocol, Custody

\* A step before the reservation changes p's own data and no one else's.
LEMMA StepBefore ==
    ASSUME TypeOK, Protocol, NEW p \in Proc, pc[p] \in BeforeReserve, NEW s,
           pc' = [pc EXCEPT ![p] = s],
           UNCHANGED <<file, marker, req, inflight, started, sealed>>,
           \A q \in Proc \ {p} : /\ ctl'[q] = ctl[q] /\ snap'[q] = snap[q] /\ rid'[q] = rid[q]
                                 /\ validated'[q] = validated[q] /\ cliOk'[q] = cliOk[q],
           ctl'[p] # NULL => req[p].path \in Path /\ VersionOf(ctl'[p], file[req[p].path]),
           s \in Validated => /\ IsReal(req[p]) => req[p].path # NULL
                              /\ req[p].path # NULL => Passed(p)',
           s \in {"recheck", "reserve"} \cup Launching => ~req[p].dry_run,
           s # "recheck_reserved", s \in Launching => req[p].path = NULL
    PROVE  Protocol'
<1> USE DEF Protocol
<1>1. /\ ~Holding(p) /\ \A f \in Path : marker[f] # p
    BY NotHolding
<1>2. /\ pc'[p] = s
      /\ \A q \in Proc \ {p} : pc'[q] = pc[q]
    BY DEF TypeOK
<1>3. \A q \in Proc \ {p} : /\ Passed(q)' = Passed(q) /\ Holding(q)' = Holding(q)
                            /\ Launched(q)' = Launched(q)
    BY <1>2, PassedFrame DEF Holding, Launched
<1>4. ~Holding(p)'
    BY <1>1, <1>2 DEF Holding, Launched, Launching
<1>5. Approval'
    BY <1>2, <1>3 DEF Approval
<1>6. WetPast'
    BY <1>2 DEF WetPast
<1>7. Ownership'
    BY <1>1, <1>2, <1>3 DEF Ownership
<1>8. Custody'
    BY <1>3, <1>4 DEF Custody
<1>9. RealOnly'
    BY DEF RealOnly
<1>10. Seal'
    BY <1>2, <1>3, <1>4 DEF Seal, VersionOf, Holding
<1> QED
    BY <1>5, <1>6, <1>7, <1>8, <1>9, <1>10

\* A step that has not validated anything has less to show.
LEMMA StepEarly ==
    ASSUME TypeOK, Protocol, NEW p \in Proc, pc[p] \in BeforeReserve, NEW s, s \notin Validated,
           pc' = [pc EXCEPT ![p] = s],
           UNCHANGED <<file, marker, req, inflight, started, sealed>>,
           \A q \in Proc \ {p} : /\ ctl'[q] = ctl[q] /\ snap'[q] = snap[q] /\ rid'[q] = rid[q]
                                 /\ validated'[q] = validated[q] /\ cliOk'[q] = cliOk[q],
           ctl'[p] # NULL => req[p].path \in Path /\ VersionOf(ctl'[p], file[req[p].path])
    PROVE  Protocol'
<1>1. s \notin {"recheck", "reserve"} \cup Launching /\ s # "recheck_reserved"
    BY DEF Validated, Launching
<1> QED
    BY <1>1, StepBefore

\* A step after the reservation changes p's place in the pipeline and what the daemon
\* does for p.
LEMMA StepAfter ==
    ASSUME TypeOK, Protocol, NEW p \in Proc, NEW s, s \notin BeforeReserve,
           pc' = [pc EXCEPT ![p] = s],
           UNCHANGED <<file, marker, req, sealed, ctl, snap, rid, validated, cliOk>>,
           inflight' \subseteq inflight \cup {p}, started' \subseteq started \cup {p},
           p \in inflight' \cup started' => IsReal(req[p]),
           s \in Validated => pc[p] \in Validated,
           s # "recheck_reserved",
           s \in Launching => ~req[p].dry_run,
           Holding(p)' => /\ req[p].path \in Path /\ marker[req[p].path] = p
                          /\ sealed[req[p].path] = ctl[p]
    PROVE  Protocol'
<1> USE DEF Protocol
<1>2. /\ pc'[p] = s
      /\ \A q \in Proc \ {p} : pc'[q] = pc[q]
    BY DEF TypeOK
<1>3. \A q \in Proc : Passed(q)' = Passed(q)
    BY PassedFrame
<1>4. \A q \in Proc \ {p} : (Holding(q)' => Holding(q)) /\ (Launched(q)' => Launched(q))
    BY <1>2 DEF Holding, Launched
<1>5. Approval'
    BY <1>2, <1>3 DEF Approval
<1>6. WetPast'
    BY <1>2 DEF WetPast, BeforeReserve
<1>7. Ownership'
    BY <1>2, <1>3 DEF Ownership
<1>8. Custody'
    BY <1>4 DEF Custody
<1>9. RealOnly'
    BY DEF RealOnly
<1>10. Seal'
    BY <1>2, <1>4 DEF Seal, VersionOf, Holding
<1> QED
    BY <1>5, <1>6, <1>7, <1>8, <1>9, <1>10

\* What it means that no policy refusal was collected.
LEMMA NoRefusal ==
    ASSUME NEW p \in Proc, NEW ok \in BOOLEAN, PolicyReasons(p, ok) = {}
    PROVE  /\ snap[p] # NULL
           /\ IsReal(req[p]) => /\ req[p].image \in PinnedRef /\ HasGate(p)
                                /\ req[p].fail_on_gate # NULL /\ req[p].path # NULL
                                /\ snap[p].kind = "git_commit"
           /\ req[p].path # NULL =>
                 /\ ok /\ Document(ctl[p]) # NULL
                 /\ SnapshotBinding(Document(ctl[p]), Gate(p), Observed(snap[p])) = "matched"
           /\ ~GateBlocks(p)
BY DEF PolicyReasons, Err

\* A real run that leaves "validate" without a refusal was approved as it is.
LEMMA ValidatedMeansApproved ==
    ASSUME TypeOK, NEW p \in Proc, IsReal(req[p]), PolicyReasons(p, Authorized(p)) = {},
           UNCHANGED <<req, ctl, rid, snap>>, validated' = [validated EXCEPT ![p] = clock]
    PROVE  req[p].path # NULL /\ WhatWasApproved(p)'
<1> DEFINE a == ctl[p].doc
           g == Gate(p)
<1>1. Authorized(p) \in BOOLEAN
    BY DEF Authorized, execution_authorized, ImageBound, ControlMatchesCli, ControlFileMatches, TypeOK
<1>2. /\ snap[p] # NULL /\ req[p].image \in PinnedRef /\ HasGate(p)
      /\ req[p].fail_on_gate # NULL /\ req[p].path # NULL /\ snap[p].kind = "git_commit"
      /\ Authorized(p) /\ Document(ctl[p]) # NULL
      /\ SnapshotBinding(Document(ctl[p]), g, Observed(snap[p])) = "matched"
      /\ ~GateBlocks(p)
    BY <1>1, NoRefusal
<1>3. /\ ctl[p] # NULL /\ a # NULL /\ Document(ctl[p]) = a
      /\ execution_authorized(a, g, req[p].argv, Runtime(p), clock)
      /\ ImageBound(a, Runtime(p))
    BY <1>2 DEF Authorized, Document
<1>4. g = GateDecision(snap[p]) /\ g.verdict = GateVerdict[snap[p]]
    BY <1>2 DEF Gate, GateDecision
<1>5. /\ Runtime(p).observed = Observed(snap[p]) /\ Runtime(p).ref = req[p].image
      /\ Runtime(p).id = rid[p]
    BY DEF Runtime
<1>6. /\ a.version = Current
      /\ \A k \in SubjectFields : /\ Observed(snap[p])[k] # NULL
                                  /\ a.subject[k] = Observed(snap[p])[k]
                                  /\ a.scope[k] = Observed(snap[p])[k]
    BY <1>2, <1>3, <1>5, MatchedMeansCurrent
<1>7. \A k \in SubjectFields : Observed(snap[p])[k] = snap[p][k]
    BY <1>2, <1>6 DEF Observed, Restricted, Get
<1>8. /\ a.approved = TRUE /\ a.signed /\ a.expires # NULL /\ ~(a.expires <= clock)
      /\ GateVerdict[snap[p]] \in {"warn", "allow_limited"}
    BY <1>3, <1>4, AuthorizedIsApproved
<1>9. a.argv = req[p].argv /\ a.based_on = GateReference(GateDecision(snap[p]))
    BY <1>3, <1>4, AuthorizedIsBound
<1>10. /\ a.image # NULL /\ a.image.ref = req[p].image /\ a.image.id = rid[p]
       /\ rid[p] \in LocalImageId
    BY <1>3, <1>5 DEF ImageBound, ImageReferenceMatches, ImageIdMatches
<1>11. GateVerdict[snap[p]] \notin FailModes[req[p].fail_on_gate]
    BY <1>2, <1>4 DEF GateBlocks
<1>12. validated'[p] = clock
    BY DEF TypeOK
<1> QED
    BY <1>2, <1>3, <1>6, <1>7, <1>8, <1>9, <1>10, <1>11, <1>12 DEF WhatWasApproved

\* The steps up to the reservation keep the protocol.
LEMMA ProtocolBefore ==
    ASSUME TypeOK, AtHand, Protocol, NEW p \in Proc,
           \/ Intake(p) \/ LoadCli(p) \/ ValidateCli(p) \/ LoadRuntime(p) \/ ResolveImage(p)
           \/ Validate(p) \/ ProbeDocker(p) \/ VerifyPlan(p) \/ RecheckBeforeReserve(p)
           \/ ReserveRefused(p)
    PROVE  Protocol'
<1> USE SandboxRunConstants DEF At, Goto, BeforeReserve, Validated, Launching
<1>0. /\ ctl[p] # NULL => req[p].path \in Path /\ VersionOf(ctl[p], file[req[p].path])
      /\ pc[p] \in Validated => (IsReal(req[p]) => req[p].path # NULL)
      /\ pc[p] \in Validated => (req[p].path # NULL => Passed(p))
      /\ req[p] \in Request
      /\ pc[p] \in {"recheck", "reserve"} => ~req[p].dry_run
    BY DEF Protocol, Seal, Approval, WetPast, TypeOK
<1>1. CASE Intake(p)
    <2>1. \E s \in {"load", "load_cli"} : pc' = [pc EXCEPT ![p] = s]
        BY <1>1 DEF Intake
    <2>2. \A q \in Proc \ {p} : snap'[q] = snap[q]
        BY <1>1 DEF Intake, TypeOK
    <2>3. UNCHANGED <<file, marker, req, cliOk, ctl, rid, inflight, started, validated, sealed>>
        BY <1>1 DEF Intake
    <2>4. pc[p] \in BeforeReserve
        BY <1>1 DEF Intake
    <2> QED
        BY <1>0, <2>1, <2>2, <2>3, <2>4, StepEarly, ZenonT(30)
<1>2. CASE LoadCli(p)
    <2>1. \E s \in {"usage", "validate_cli"} : pc' = [pc EXCEPT ![p] = s]
        BY <1>2 DEF LoadCli
    <2>2. UNCHANGED <<file, marker, req, snap, cliOk, ctl, rid, inflight, started, validated, sealed>>
        BY <1>2 DEF LoadCli
    <2>3. pc[p] \in BeforeReserve
        BY <1>2 DEF LoadCli
    <2> QED
        BY <1>0, <2>1, <2>2, <2>3, StepEarly
<1>3. CASE ValidateCli(p)
    <2>1. /\ pc[p] \in BeforeReserve /\ pc' = [pc EXCEPT ![p] = "load"]
          /\ UNCHANGED <<file, marker, req, snap, ctl, rid, inflight, started, validated, sealed>>
        BY <1>3 DEF ValidateCli
    <2>2. \A q \in Proc \ {p} : cliOk'[q] = cliOk[q]
        BY <1>3 DEF ValidateCli, TypeOK
    <2> QED
        BY <1>0, <2>1, <2>2, StepEarly
<1>4. CASE LoadRuntime(p)
    <2>3. UNCHANGED <<file, marker, req, snap, cliOk, rid, inflight, started, validated, sealed>>
        BY <1>4 DEF LoadRuntime
    <2>4. pc[p] \in BeforeReserve
        BY <1>4 DEF LoadRuntime
    <2>0. CASE pc' = [pc EXCEPT ![p] = "interrupted"] /\ UNCHANGED ctl
        BY <1>0, <2>0, <2>3, <2>4, StepEarly
    <2>1. CASE /\ ctl' = [ctl EXCEPT ![p] = IF req[p].path = NULL THEN NULL ELSE Load(req[p].path)]
               /\ pc' = [pc EXCEPT ![p] = "image"]
        <3>1. req[p].path # NULL => req[p].path \in Path
            BY <1>0
        <3>2. ctl'[p] # NULL => req[p].path \in Path /\ ctl'[p] = file[req[p].path]
            BY <2>1, <3>1, LoadTyped DEF TypeOK
        <3>3. req[p].path \in Path => file[req[p].path].stamp \in Int
            BY DEF TypeOK, FileState
        <3>4. ctl'[p] # NULL => req[p].path \in Path /\ VersionOf(ctl'[p], file[req[p].path])
            BY <3>2, <3>3 DEF VersionOf
        <3>5. \A q \in Proc \ {p} : ctl'[q] = ctl[q]
            BY <2>1 DEF TypeOK
        <3> QED
            BY <2>1, <2>3, <2>4, <3>4, <3>5, StepEarly
    <2> QED
        BY <1>4, <2>0, <2>1 DEF LoadRuntime
<1>5. CASE ResolveImage(p)
    <2>1. /\ pc[p] \in BeforeReserve /\ pc' = [pc EXCEPT ![p] = "validate"]
          /\ UNCHANGED <<file, marker, req, snap, cliOk, ctl, inflight, started, validated, sealed>>
        BY <1>5 DEF ResolveImage
    <2>2. \A q \in Proc \ {p} : rid'[q] = rid[q]
        BY <1>5 DEF ResolveImage, TypeOK
    <2> QED
        BY <1>0, <2>1, <2>2, StepEarly
<1>6. CASE Validate(p)
    <2>3. /\ pc[p] \in BeforeReserve
          /\ UNCHANGED <<file, marker, req, snap, cliOk, ctl, rid, inflight, started, sealed>>
        BY <1>6 DEF Validate
    <2>4. \A q \in Proc \ {p} : validated'[q] = validated[q]
        BY <1>6 DEF Validate, TypeOK
    <2>1. CASE Goto(p, "docker") /\ PolicyReasons(p, Authorized(p)) = {}
        <3>1. Authorized(p) \in BOOLEAN
            BY DEF Authorized, execution_authorized, ImageBound, ControlMatchesCli, ControlFileMatches,
                   TypeOK
        <3>2. /\ IsReal(req[p]) => req[p].path # NULL
              /\ req[p].path # NULL => Authorized(p)
            BY <2>1, <3>1, NoRefusal
        <3>3. req[p].path # NULL => Passed(p)'
            <4>1. CASE IsReal(req[p])
                BY <1>6, <2>1, <4>1, ValidatedMeansApproved DEF Validate, Passed
            <4>2. CASE ~IsReal(req[p])
                BY <1>6, <3>2, <4>2 DEF Validate, Passed, Authorized
            <4> QED
                BY <4>1, <4>2
        <3> QED
            BY <1>0, <2>1, <2>3, <2>4, <3>2, <3>3, StepBefore
    <2>2. CASE pc' = [pc EXCEPT ![p] = "finalize"]
        BY <1>0, <2>2, <2>3, <2>4, StepEarly
    <2> QED
        BY <1>6, <2>1, <2>2 DEF Validate, Refuse, Conclude
<1>7. CASE ProbeDocker(p)
    <2>1. \E s \in {"verify_plan", "finalize"} : pc' = [pc EXCEPT ![p] = s]
        BY <1>7 DEF ProbeDocker, Conclude
    <2>2. Passed(p)' = Passed(p)
        BY <1>7, PassedFrame DEF ProbeDocker
    <2>3. /\ pc[p] \in BeforeReserve /\ pc[p] \in Validated
          /\ UNCHANGED <<file, marker, req, snap, cliOk, ctl, rid, inflight, started, validated, sealed>>
        BY <1>7 DEF ProbeDocker
    <2> QED
        BY <1>0, <2>1, <2>2, <2>3, StepBefore, ZenonT(30)
<1>8. CASE VerifyPlan(p)
    <2>1. \/ pc' = [pc EXCEPT ![p] = "finalize"]
          \/ pc' = [pc EXCEPT ![p] = "recheck"] /\ ~req[p].dry_run
          \/ pc' = [pc EXCEPT ![p] = "verify_launch"] /\ ~req[p].dry_run /\ req[p].path = NULL
        BY <1>8 DEF VerifyPlan, Verify, Refuse, Raise, Conclude
    <2>2. Passed(p)' = Passed(p)
        BY <1>8, PassedFrame DEF VerifyPlan
    <2> QED
        BY <1>0, <1>8, <2>1, <2>2, StepBefore DEF VerifyPlan
<1>9. CASE RecheckBeforeReserve(p)
    <2>1. \E s \in {"reserve", "finalize"} : pc' = [pc EXCEPT ![p] = s]
        BY <1>9 DEF RecheckBeforeReserve, RecheckControl, Raise, Conclude
    <2>2. Passed(p)' = Passed(p)
        BY <1>9, PassedFrame DEF RecheckBeforeReserve, RecheckControl
    <2> QED
        BY <1>0, <1>9, <2>1, <2>2, StepBefore DEF RecheckBeforeReserve, RecheckControl
<1>10. CASE ReserveRefused(p)
    BY <1>0, <1>10, StepBefore DEF ReserveRefused, Refuse, Conclude
<1> QED
    BY <1>1, <1>2, <1>3, <1>4, <1>5, <1>6, <1>7, <1>8, <1>9, <1>10

\* Creating the marker keeps the protocol: nobody else holds this artifact.
LEMMA ProtocolReserve ==
    ASSUME TypeOK, AtHand, Protocol, NEW p \in Proc, ReserveCreate(p)
    PROVE  Protocol'
<1> DEFINE f == req[p].path
<1> USE SandboxRunConstants DEF Protocol
<1>1. /\ pc[p] = "reserve" /\ f \in Path /\ marker[f] = NULL
      /\ marker' = [marker EXCEPT ![f] = p] /\ sealed' = [sealed EXCEPT ![f] = file[f]]
      /\ UNCHANGED <<file, req, ctl, snap, rid, validated, cliOk, inflight, started>>
    BY DEF ReserveCreate, At, AtHand
<1>2. \E s \in {"recheck_reserved", "finalize"} : pc' = [pc EXCEPT ![p] = s]
    BY DEF ReserveCreate, Goto, Refuse, Conclude
<1>3. /\ pc'[p] \in {"recheck_reserved", "finalize"}
      /\ \A q \in Proc \ {p} : pc'[q] = pc[q]
    BY <1>2 DEF TypeOK
<1>4. ~Holding(p) /\ \A h \in Path : marker[h] # p
    BY <1>1, NotHolding DEF BeforeReserve
<1>5. \A q \in Proc : Passed(q)' = Passed(q)
    BY <1>1, PassedFrame
<1>6. \A q \in Proc \ {p} : Holding(q)' => Holding(q) /\ req[q].path # f
    BY <1>1, <1>3 DEF Holding, Launched, Custody
<1>7. ~req[p].dry_run /\ Passed(p) /\ (IsReal(req[p]) => f # NULL)
    BY <1>1 DEF WetPast, Approval, Validated
<1>8. /\ marker'[f] = p /\ sealed'[f] = file[f]
      /\ \A h \in Path \ {f} : marker'[h] = marker[h] /\ sealed'[h] = sealed[h]
    BY <1>1 DEF TypeOK
<1>9. Approval'
    BY <1>1, <1>3, <1>5, <1>7 DEF Approval, Validated
<1>10. WetPast'
    BY <1>1, <1>3, <1>7 DEF WetPast
<1>11. Ownership'
    BY <1>1, <1>3, <1>4, <1>5, <1>7, <1>8 DEF Ownership, BeforeReserve
<1>12. Custody'
    BY <1>1, <1>6, <1>8 DEF Custody
<1>13. RealOnly'
    BY <1>1 DEF RealOnly
<1>14. Seal'
    <2>1. \A q \in Proc : ctl'[q] # NULL =>
            /\ req'[q].path \in Path /\ VersionOf(ctl'[q], file'[req'[q].path])
            /\ pc'[q] = "recheck_reserved" => VersionOf(ctl'[q], sealed'[req'[q].path])
        <3>1. \A q \in Proc \ {p} : pc[q] = "recheck_reserved" => sealed'[req[q].path] = sealed[req[q].path]
            BY <1>6, <1>3, <1>8 DEF Holding, Custody
        <3> QED
            BY <1>1, <1>3, <1>8, <3>1 DEF Seal
    <2>2. \A h \in Path : marker'[h] # NULL => sealed'[h] \in FileState /\ VersionOf(sealed'[h], file'[h])
        <3>1. file[f] \in FileState /\ file[f].stamp \in Int
            BY <1>1 DEF TypeOK, FileState
        <3> QED
            BY <1>1, <1>8, <3>1 DEF Seal, VersionOf
    <2>3. \A q \in Proc : Launched(q)' => sealed'[req'[q].path] = ctl'[q]
        <3>1. ~Launched(p)'
            BY <1>1, <1>3, <1>4 DEF Holding, Launched, Launching
        <3>2. \A q \in Proc \ {p} : Launched(q)' =>
                 /\ Launched(q) /\ req[q].path \in Path
                 /\ sealed'[req[q].path] = sealed[req[q].path]
            BY <1>1, <1>3, <1>6, <1>8 DEF Custody, Holding, Launched
        <3> QED
            BY <1>1, <3>1, <3>2 DEF Seal
    <2> QED
        BY <2>1, <2>2, <2>3 DEF Seal
<1> QED
    BY <1>9, <1>10, <1>11, <1>12, <1>13, <1>14

\* The steps after the reservation keep the protocol.  The second re-read closes the
\* window: the file read now, the one sealed and the one validated are one version.
LEMMA ProtocolAfter ==
    ASSUME TypeOK, AtHand, Protocol, NEW p \in Proc,
           \/ RecheckAfterReserve(p) \/ VerifyLaunch(p) \/ Launch(p) \/ RunnerReturns(p)
           \/ VerifyAfter(p) \/ Finalize(p)
    PROVE  Protocol'
<1> USE SandboxRunConstants DEF At, Goto, BeforeReserve, Validated, Launching
<1>0. /\ Holding(p) => req[p].path \in Path /\ marker[req[p].path] = p
      /\ Launched(p) => Holding(p) /\ sealed[req[p].path] = ctl[p]
      /\ p \in inflight \cup started => IsReal(req[p]) /\ Launched(p)
      /\ pc[p] \in {"recheck_reserved"} \cup Launching => ~req[p].dry_run
      /\ pc[p] \in Validated /\ IsReal(req[p]) => req[p].path # NULL
    BY DEF Protocol, Custody, Seal, RealOnly, WetPast, Approval, Holding, Launched
<1>1. CASE RecheckAfterReserve(p)
    <2>1. \/ pc' = [pc EXCEPT ![p] = "finalize"]
          \/ pc' = [pc EXCEPT ![p] = "verify_launch"] /\ ControlFileMatches(ctl[p], Load(req[p].path))
        BY <1>1 DEF RecheckAfterReserve, RecheckControl, Raise, Conclude
    <2>2. /\ pc[p] = "recheck_reserved" /\ req[p].path \in Path /\ marker[req[p].path] = p
          /\ UNCHANGED <<file, marker, req, sealed, ctl, snap, rid, validated, cliOk, inflight, started>>
        BY <1>0, <1>1 DEF RecheckAfterReserve, RecheckControl, Holding
    <2>3. ControlFileMatches(ctl[p], Load(req[p].path)) => sealed[req[p].path] = ctl[p]
        <3> SUFFICES ASSUME ControlFileMatches(ctl[p], Load(req[p].path))
                     PROVE  sealed[req[p].path] = ctl[p]
            OBVIOUS
        <3>1. ctl[p] # NULL /\ ctl[p] = file[req[p].path]
            BY <2>2, LoadTyped DEF ControlFileMatches
        <3>2. /\ VersionOf(ctl[p], sealed[req[p].path])
              /\ sealed[req[p].path] \in FileState
              /\ VersionOf(sealed[req[p].path], file[req[p].path])
            BY <2>2, <3>1 DEF Protocol, Seal
        <3>3. ctl[p].stamp \in Int /\ sealed[req[p].path].stamp \in Int
            BY <2>2, <3>1, <3>2 DEF TypeOK, FileState
        <3> QED
            BY <3>1, <3>2, <3>3 DEF VersionOf
    <2>4. \E s \in {"verify_launch", "finalize"} : pc' = [pc EXCEPT ![p] = s]
        BY <2>1
    <2>5. Launched(p)' => sealed[req[p].path] = ctl[p]
        BY <1>0, <2>1, <2>2, <2>3 DEF Launched, TypeOK
    <2>6. Holding(p)' => Launched(p)'
        BY <2>1 DEF Holding, TypeOK
    <2> QED
        BY <1>0, <2>2, <2>4, <2>5, <2>6, StepAfter
<1>2. CASE VerifyLaunch(p)
    <2>1. \E s \in {"launch", "finalize"} : pc' = [pc EXCEPT ![p] = s]
        BY <1>2 DEF VerifyLaunch, Verify, Refuse, Raise, Conclude
    <2>2. Holding(p)' => Launched(p)
        BY <1>2, <2>1 DEF VerifyLaunch, Holding, Launched, TypeOK
    <2> QED
        BY <1>0, <1>2, <2>1, <2>2, StepAfter, ZenonT(30) DEF VerifyLaunch
<1>3. CASE Launch(p)
    <2>1. /\ \E s \in {"running", "verify_after"} : pc' = [pc EXCEPT ![p] = s]
          /\ inflight' # inflight => IsReal(req[p])
          /\ inflight' \subseteq inflight \cup {p}
        BY <1>0, <1>3 DEF Launch, Returned, IsReal
    <2>2. Holding(p)' => Launched(p)
        BY <1>0, <1>3, <2>1 DEF Launch, Holding, Launched, TypeOK
    <2> QED
        <3>1. /\ UNCHANGED <<file, marker, req, sealed, ctl, snap, rid, validated, cliOk>>
              /\ pc[p] = "launch" /\ started' = started
            BY <1>3 DEF Launch
        <3> QED
            BY <1>0, <2>1, <2>2, <3>1, StepAfter, ZenonT(30)
<1>4. CASE RunnerReturns(p)
    <2>1. pc' = [pc EXCEPT ![p] = "verify_after"] /\ inflight' \subseteq inflight
        BY <1>4 DEF RunnerReturns, Returned
    <2>2. Holding(p)' => Launched(p)
        BY <1>4, <2>1 DEF RunnerReturns, Holding, Launched, TypeOK
    <2> QED
        BY <1>0, <1>4, <2>1, <2>2, StepAfter DEF RunnerReturns
<1>5. CASE VerifyAfter(p)
    <2>1. pc' = [pc EXCEPT ![p] = "finalize"]
        BY <1>5 DEF VerifyAfter, Raise, Conclude
    <2>2. Holding(p)' => Launched(p)
        BY <1>5, <2>1 DEF VerifyAfter, Holding, Launched, TypeOK
    <2> QED
        BY <1>0, <1>5, <2>1, <2>2, StepAfter DEF VerifyAfter
<1>6. CASE Finalize(p)
    <2>1. pc' = [pc EXCEPT ![p] = "done"]
        BY <1>6 DEF Finalize
    <2>2. Holding(p)' => Launched(p)
        BY <1>6, <2>1 DEF Finalize, Holding, Launched, TypeOK
    <2> QED
        BY <1>0, <1>6, <2>1, <2>2, StepAfter DEF Finalize
<1> QED
    BY <1>1, <1>2, <1>3, <1>4, <1>5, <1>6

\* A step that touches nothing the protocol speaks of keeps it.
LEMMA ProtocolFrame ==
    ASSUME Protocol,
           UNCHANGED <<file, marker, pc, req, snap, cliOk, ctl, rid, inflight \cup started, validated,
                       sealed>>
    PROVE  Protocol'
<1>1. \A q \in Proc : Passed(q)' = Passed(q)
    BY PassedFrame
<1>2. \A q \in Proc : Launched(q)' = Launched(q) /\ Holding(q)' = Holding(q)
    BY DEF Launched, Holding
<1>3. Approval' /\ WetPast' /\ Ownership'
    BY <1>1 DEF Protocol, Approval, WetPast, Ownership
<1>4. Custody' /\ RealOnly' /\ Seal'
    BY <1>2 DEF Protocol, Custody, RealOnly, Seal, VersionOf
<1> QED
    BY <1>3, <1>4 DEF Protocol

\* A rewritten file is a later version than everything read or sealed before.
LEMMA ProtocolRewrite ==
    ASSUME TypeOK, Protocol, NEW f \in Path, Rewrite(f)
    PROVE  Protocol'
<1>1. UNCHANGED <<marker, pc, req, snap, cliOk, ctl, rid, inflight, started, validated, sealed>>
    BY DEF Rewrite
<1>2. \A q \in Proc : Passed(q)' = Passed(q)
    BY <1>1, PassedFrame
<1>3. \A q \in Proc : Launched(q)' = Launched(q) /\ Holding(q)' = Holding(q)
    BY <1>1 DEF Launched, Holding
<1>4. Approval' /\ WetPast' /\ Ownership' /\ Custody' /\ RealOnly'
    BY <1>1, <1>2, <1>3 DEF Protocol, Approval, WetPast, Ownership, Custody, RealOnly
<1>5. \A d \in FileState : \A h \in Path : VersionOf(d, file[h]) => VersionOf(d, file'[h])
    BY SandboxRunConstants DEF Rewrite, TypeOK, FileState, VersionOf
<1>6. Seal'
    BY <1>1, <1>3, <1>5 DEF Protocol, Seal, TypeOK, VersionOf
<1> QED
    BY <1>4, <1>6 DEF Protocol

\* The environment keeps the protocol.
LEMMA ProtocolEnvironment ==
    ASSUME TypeOK, Protocol, Environment
    PROVE  Protocol'
<1>1. ASSUME NEW p \in Proc, ContainerStarts(p) PROVE Protocol'
    <2>1. inflight' \cup started' = inflight \cup started
        BY <1>1 DEF ContainerStarts
    <2> QED
        BY <1>1, <2>1, ProtocolFrame DEF ContainerStarts
<1>2. ASSUME NEW p \in Proc, Interrupt(p) \/ Kill(p) PROVE Protocol'
    <2>1. /\ \E s \in Terminal : pc' = [pc EXCEPT ![p] = s]
          /\ inflight' \subseteq inflight
          /\ UNCHANGED <<file, marker, req, sealed, ctl, snap, rid, validated, cliOk, started>>
        BY <1>2 DEF Interrupt, Kill, Goto, Terminal
    <2>2. Holding(p)' => p \in inflight \cup started
        BY <2>1 DEF Holding, Launched, Launching, Terminal, TypeOK
    <2>3. p \in inflight \cup started =>
            /\ IsReal(req[p]) /\ req[p].path \in Path /\ marker[req[p].path] = p
            /\ sealed[req[p].path] = ctl[p]
        BY DEF Protocol, Custody, Seal, RealOnly, Holding, Launched
    <2> QED
        BY <2>1, <2>2, <2>3, StepAfter DEF Terminal, BeforeReserve, Validated, Launching
<1>3. ASSUME NEW p \in Proc, Tamper(p) PROVE Protocol'
    BY <1>3, ProtocolFrame DEF Tamper
<1>4. CASE Tick
    BY <1>4, ProtocolFrame DEF Tick
<1> QED
    BY <1>1, <1>2, <1>3, <1>4, ProtocolRewrite DEF Environment

\* A step of p that provides what p's next step uses.
LEMMA AtHandOne ==
    ASSUME TypeOK, AtHand, NEW p \in Proc, NEW s, UNCHANGED req, pc' = [pc EXCEPT ![p] = s],
           \A q \in Proc \ {p} : result'[q] = result[q] /\ report'[q] = report[q],
           s \in {"load_cli", "recheck", "reserve", "recheck_reserved"} => req[p].path \in Path,
           s = "verify_after" => result'[p] \in RunnerResult,
           s \in {"finalize", "done"} => report'[p] \in ReportRecord
    PROVE  AtHand'
BY DEF AtHand, TypeOK

\* Every end of the pipeline leaves a report for _finalize_report.
LEMMA AtHandConclude ==
    ASSUME TypeOK, AtHand, NEW p \in Proc, NEW r \in ReportRecord, NEW why, Conclude(p, r, why),
           UNCHANGED <<req, result>>
    PROVE  AtHand'
<1>1. /\ pc' = [pc EXCEPT ![p] = "finalize"] /\ report'[p] = r
      /\ \A q \in Proc \ {p} : report'[q] = report[q]
    BY DEF Conclude, Goto, TypeOK
<1> QED
    BY <1>1, AtHandOne

\* So does a refused integrity check (verify_verified_snapshot).
LEMMA AtHandRefused ==
    ASSUME TypeOK, AtHand, NEW p \in Proc, NEW why, NEW tracked \in BOOLEAN,
           Refuse(p, why) \/ Raise(p, tracked, why), UNCHANGED <<req, result>>
    PROVE  AtHand'
<1>1. BlockedReport \in ReportRecord /\ ErrorReport(tracked) \in ReportRecord
    BY ReportTyped
<1> QED
    BY <1>1, AtHandConclude DEF Refuse, Raise

\* A step provides what the next one uses.
LEMMA AtHandStep ==
    ASSUME TypeOK, AtHand, NEW p \in Proc, Step(p)
    PROVE  AtHand'
<1> USE SandboxRunConstants DEF At, Goto
<1>0. /\ req[p] \in Request /\ IsReal(req[p]) \in BOOLEAN
      /\ req[p].path # NULL => req[p].path \in Path
    BY DEF TypeOK, IsReal
<1>1. CASE Intake(p)
    BY <1>0, <1>1, AtHandOne DEF Intake
<1>2. CASE LoadCli(p)
    <2>1. \E s \in {"usage", "validate_cli"} : pc' = [pc EXCEPT ![p] = s]
        BY <1>2 DEF LoadCli
    <2> QED
        BY <1>2, <2>1, AtHandOne DEF LoadCli
<1>3. CASE ValidateCli(p)
    BY <1>3, AtHandOne DEF ValidateCli
<1>4. CASE LoadRuntime(p)
    BY <1>4, AtHandOne DEF LoadRuntime
<1>5. CASE ResolveImage(p)
    BY <1>5, AtHandOne DEF ResolveImage
<1>6. CASE Validate(p)
    <2>1. CASE Goto(p, "docker") /\ UNCHANGED <<report, cause>>
        BY <1>6, <2>1, AtHandOne DEF Validate
    <2>2. ASSUME NEW why, Refuse(p, why) \/ Conclude(p, ErrorReport(FALSE), why) PROVE AtHand'
        BY <1>6, <2>2, AtHandRefused, AtHandConclude, ReportTyped DEF Validate
    <2> QED
        BY <1>6, <2>1, <2>2 DEF Validate
<1>7. CASE ProbeDocker(p)
    <2>1. CASE Goto(p, "verify_plan") /\ UNCHANGED <<report, cause>>
        BY <1>7, <2>1, AtHandOne DEF ProbeDocker
    <2>2. CASE Conclude(p, ErrorReport(FALSE), {"docker_unavailable"})
        BY <1>7, <2>2, AtHandConclude, ReportTyped DEF ProbeDocker
    <2> QED
        BY <1>7, <2>1, <2>2 DEF ProbeDocker
<1>8. CASE VerifyPlan(p)
    <2>1. CASE Verify(p, FALSE)
        BY <1>8, <2>1, AtHandRefused DEF VerifyPlan, Verify
    <2>2. CASE Conclude(p, DryRunReport, {})
        BY <1>8, <2>2, AtHandConclude, ReportTyped DEF VerifyPlan
    <2>3. CASE /\ Goto(p, IF req[p].path = NULL THEN "verify_launch" ELSE "recheck")
               /\ UNCHANGED <<report, cause>>
        BY <1>0, <1>8, <2>3, AtHandOne DEF VerifyPlan
    <2>4. CASE Raise(p, FALSE, {"docker_planning_failed"})
        BY <1>8, <2>4, AtHandRefused DEF VerifyPlan
    <2> QED
        BY <1>8, <2>1, <2>2, <2>3, <2>4 DEF VerifyPlan
<1>9. CASE RecheckBeforeReserve(p)
    <2>1. CASE Goto(p, "reserve") /\ UNCHANGED <<report, cause>>
        BY <1>9, <2>1, AtHandOne DEF RecheckBeforeReserve, RecheckControl, AtHand
    <2>2. CASE \E why : Raise(p, IsReal(req[p]), why)
        BY <1>0, <1>9, <2>2, AtHandRefused DEF RecheckBeforeReserve, RecheckControl
    <2> QED
        BY <1>9, <2>1, <2>2 DEF RecheckBeforeReserve, RecheckControl
<1>10. CASE ReserveCreate(p)
    <2>1. CASE Goto(p, "recheck_reserved") /\ UNCHANGED <<report, cause>>
        BY <1>10, <2>1, AtHandOne DEF ReserveCreate, AtHand
    <2>2. CASE Refuse(p, {"authorization_single_use_reservation_write_failed"})
        BY <1>10, <2>2, AtHandRefused DEF ReserveCreate
    <2> QED
        BY <1>10, <2>1, <2>2 DEF ReserveCreate
<1>11. CASE ReserveRefused(p)
    BY <1>11, AtHandRefused DEF ReserveRefused
<1>12. CASE RecheckAfterReserve(p)
    <2>1. CASE Goto(p, "verify_launch") /\ UNCHANGED <<report, cause>>
        BY <1>12, <2>1, AtHandOne DEF RecheckAfterReserve, RecheckControl
    <2>2. CASE \E why : Raise(p, IsReal(req[p]), why)
        BY <1>0, <1>12, <2>2, AtHandRefused DEF RecheckAfterReserve, RecheckControl
    <2> QED
        BY <1>12, <2>1, <2>2 DEF RecheckAfterReserve, RecheckControl
<1>13. CASE VerifyLaunch(p)
    <2>1. CASE Goto(p, "launch") /\ UNCHANGED <<report, cause>>
        BY <1>13, <2>1, AtHandOne DEF VerifyLaunch
    <2>2. CASE Verify(p, IsReal(req[p]))
        BY <1>0, <1>13, <2>2, AtHandRefused DEF VerifyLaunch, Verify
    <2> QED
        BY <1>13, <2>1, <2>2 DEF VerifyLaunch
<1>14. CASE Launch(p)
    <2>1. CASE Goto(p, "running") /\ UNCHANGED result
        BY <1>14, <2>1, AtHandOne DEF Launch
    <2>2. ASSUME NEW r \in RunnerResult, Returned(p, r) PROVE AtHand'
        BY <1>14, <2>2, AtHandOne, ZenonT(30) DEF Launch, Returned, TypeOK
    <2>3. \A k \in CleanupStatus : FailedResult("failed", "not_started", k) \in RunnerResult
        BY DEF CleanupStatus, FailedResult, RunnerResult
    <2>4. {NormalResult(0, "not_attempted"), NormalResult(1, "not_attempted"),
           FailedResult("timed_out", "unknown", "not_attempted")} \subseteq RunnerResult
        BY DEF NormalResult, FailedResult, RunnerResult, CleanupStatus
    <2>5. \/ Goto(p, "running") /\ UNCHANGED result
          \/ \E r \in RunnerResult : Returned(p, r)
        BY <1>14, <2>3, <2>4 DEF Launch
    <2> QED
        BY <2>1, <2>2, <2>5
<1>15. CASE RunnerReturns(p)
    <2>1. \A k \in CleanupStatus : PossibleResult(p \in started, k) \subseteq RunnerResult
        <3>1. \A k \in CleanupStatus : \A c \in Int : NormalResult(c, k) \in RunnerResult
            BY DEF CleanupStatus, NormalResult, RunnerResult
        <3>2. \A k \in CleanupStatus :
                /\ FailedResult("timed_out", "unknown", k) \in RunnerResult
                /\ FailedResult("failed", "unknown", k) \in RunnerResult
                /\ FailedResult("output_budget_exceeded", "confirmed", k) \in RunnerResult
            BY DEF CleanupStatus, FailedResult, RunnerResult
        <3>3. ExitCode \subseteq Int /\ DockerExit \subseteq Int /\ ClientKilled \in Int
            BY RunnerConstants DEF DockerExit, ClientKilled
        <3> QED
            BY <3>1, <3>2, <3>3 DEF PossibleResult
    <2>2. PICK r \in RunnerResult : Returned(p, r)
        BY <1>15, <2>1 DEF RunnerReturns
    <2> QED
        BY <1>15, <2>2, AtHandOne, ZenonT(30) DEF RunnerReturns, Returned, TypeOK
<1>16. CASE VerifyAfter(p)
    <2>1. CASE Raise(p, IsReal(req[p]), {"snapshot_unreadable"})
        BY <1>0, <1>16, <2>1, AtHandRefused DEF VerifyAfter
    <2>2. CASE Conclude(p, ResultReport(p, ws[p] = "intact"), {})
        <3>1. ResultReport(p, ws[p] = "intact") \in ReportRecord
            BY <1>16, ResultReportTyped DEF VerifyAfter, AtHand
        <3> QED
            BY <1>16, <2>2, <3>1, AtHandConclude DEF VerifyAfter
    <2> QED
        BY <1>16, <2>1, <2>2 DEF VerifyAfter
<1>17. CASE Finalize(p)
    <2>1. PICK c : report' = [report EXCEPT ![p] = Finalized(report[p], c)]
        BY <1>17 DEF Finalize
    <2>2. Finalized(report[p], c) \in ReportRecord
        BY <1>17, FinalizedTyped DEF Finalize, AtHand
    <2> QED
        BY <1>17, <2>1, <2>2, AtHandOne DEF Finalize, TypeOK
<1> QED
    BY <1>1, <1>2, <1>3, <1>4, <1>5, <1>6, <1>7, <1>8, <1>9, <1>10, <1>11, <1>12, <1>13, <1>14,
       <1>15, <1>16, <1>17 DEF Step

\* The environment takes nothing away from an invocation that goes on.
LEMMA AtHandEnvironment ==
    ASSUME TypeOK, AtHand, Environment
    PROVE  AtHand'
<1>1. ASSUME NEW p \in Proc, Interrupt(p) \/ Kill(p) PROVE AtHand'
    <2>1. \E s \in Terminal \ {"done"} : pc' = [pc EXCEPT ![p] = s]
        BY <1>1 DEF Interrupt, Kill, Goto, Terminal
    <2> QED
        BY <1>1, <2>1, AtHandOne DEF Interrupt, Kill, Terminal
<1>2. ASSUME UNCHANGED <<pc, req, result, report>> PROVE AtHand'
    BY <1>2 DEF AtHand
<1> QED
    BY <1>1, <1>2 DEF Environment, ContainerStarts, Tamper, Rewrite, Tick

(***************************************************************************)
(* Theorems                                                                *)
(***************************************************************************)
\* The invariant holds before any invocation has done anything.
LEMMA InvInit == Init => IInv
<1> SUFFICES ASSUME Init PROVE IInv
    OBVIOUS
<1>1. TypeOK
    BY TypeInit
<1>2. /\ \A p \in Proc : pc[p] = "intake" /\ ctl[p] = NULL /\ ~Launched(p) /\ ~Holding(p)
      /\ \A f \in Path : marker[f] = NULL /\ \A p \in Proc : marker[f] # p
      /\ inflight = {} /\ started = {}
    BY SandboxRunConstants DEF Init, Launched, Holding, Launching
<1>3. AtHand
    BY <1>2 DEF AtHand
<1>4. Approval /\ WetPast
    BY <1>2 DEF Approval, WetPast, Validated, Launching
<1>5. Ownership
    BY <1>2 DEF Ownership
<1>6. Custody /\ RealOnly
    BY <1>2 DEF Custody, RealOnly
<1>7. Seal
    BY <1>2 DEF Seal
<1> QED
    BY <1>1, <1>3, <1>4, <1>5, <1>6, <1>7 DEF IInv, Protocol

\* Every step of every invocation and of its environment keeps the invariant.
LEMMA InvNext == IInv /\ [Next]_vars => IInv'
<1> SUFFICES ASSUME TypeOK, AtHand, Protocol, [Next]_vars PROVE TypeOK' /\ AtHand' /\ Protocol'
    BY DEF IInv
<1>1. ASSUME NEW p \in Proc, Step(p) PROVE TypeOK' /\ AtHand' /\ Protocol'
    <2>1. TypeOK' /\ AtHand'
        BY <1>1, TypeStep, AtHandStep
    <2>2. Protocol'
        BY <1>1, ProtocolBefore, ProtocolReserve, ProtocolAfter DEF Step
    <2> QED
        BY <2>1, <2>2
<1>2. CASE Environment
    BY <1>2, TypeEnvironment, AtHandEnvironment, ProtocolEnvironment
<1>3. CASE UNCHANGED vars
    <2>1. TypeOK' /\ AtHand'
        BY <1>3 DEF vars, TypeOK, AtHand
    <2>2. Protocol'
        BY <1>3, ProtocolFrame DEF vars
    <2> QED
        BY <2>1, <2>2
<1> QED
    BY <1>1, <1>2, <1>3 DEF Next, Finished

\* The inductive invariant holds in every reachable state of sandbox-run.
THEOREM Invariance == Spec => []IInv
BY InvInit, InvNext, PTL DEF Spec

\* The variables keep their types: in particular every finished pipeline has a report and
\* _sandbox_run_exit_code a number.
THEOREM TypeCorrect == Spec => []TypeOK
<1>1. IInv => TypeOK
    BY DEF IInv
<1> QED
    BY <1>1, Invariance, PTL

\* reserve_execution_authorization makes an artifact single-use, for any number of
\* concurrent invocations and any interleaving with rewrites, kills and interrupts.
THEOREM SingleUseHolds == Spec => []SingleUse
<1>1. IInv => SingleUse
    BY DEF IInv, TypeOK, Protocol, Custody, Holding, Launched, SingleUse
<1> QED
    BY <1>1, Invariance, PTL

\* The two re-reads of the control file seal the artifact that was validated.
THEOREM SealHolds == Spec => []ReservationSealsArtifact
<1>1. IInv => ReservationSealsArtifact
    BY DEF IInv, TypeOK, Protocol, Seal, Launched, ReservationSealsArtifact
<1> QED
    BY <1>1, Invariance, PTL

\* A single use is only spent by an invocation whose artifact passed validation.
THEOREM OnlyAuthorizedConsumesHolds == Spec => []OnlyAuthorizedConsumes
<1>1. IInv => OnlyAuthorizedConsumes
    BY DEF IInv, Protocol, Ownership, Passed, OnlyAuthorizedConsumes
<1> QED
    BY <1>1, Invariance, PTL

\* Whatever really ran was approved by a Human exactly as it ran.
THEOREM LaunchWasAuthorizedHolds == Spec => []LaunchWasAuthorized
<1>1. IInv => LaunchWasAuthorized
    <2> SUFFICES ASSUME IInv, NEW p \in started PROVE WhatWasApproved(p)
        BY DEF LaunchWasAuthorized
    <2>1. p \in Proc /\ Holding(p) /\ IsReal(req[p])
        BY DEF IInv, TypeOK, Protocol, RealOnly, Holding, Launched
    <2>2. req[p].path \in Path /\ marker[req[p].path] = p
        BY <2>1 DEF IInv, Protocol, Custody
    <2> QED
        BY <2>1, <2>2 DEF IInv, Protocol, Ownership, Passed
<1> QED
    BY <1>1, Invariance, PTL

(***************************************************************************)
(* Refinement                                                              *)
(***************************************************************************)
\* sandbox-run implements the abstract single-use token.
THEOREM Refinement == Spec => ImplementsToken
<1>1. Init => Token!TokenInit
    BY SandboxRunConstants DEF Init, Token!TokenInit
<1>2. IInv /\ [Next]_vars => [Token!TokenNext]_Token!tokenVars
    <2> SUFFICES ASSUME IInv, [Next]_vars PROVE [Token!TokenNext]_Token!tokenVars
        OBVIOUS
    <2> USE DEF Token!tokenVars
    <2>1. ASSUME NEW p \in Proc, ReserveCreate(p) PROVE Token!TokenNext
        <3>1. req[p].path \in Path
            BY <2>1 DEF IInv, AtHand, ReserveCreate, At
        <3>2. Token!Consume(p)
            BY <2>1, <3>1 DEF ReserveCreate, Token!Consume
        <3> QED
            BY <3>2 DEF Token!TokenNext
    <2>2. ASSUME NEW p \in Proc, ContainerStarts(p) PROVE Token!TokenNext
        <3>1. req[p].path \in Path /\ marker[req[p].path] = p
            BY <2>2 DEF IInv, Protocol, Custody, Holding, Launched, ContainerStarts
        <3>2. Token!Execute(p)
            BY <2>2, <3>1 DEF ContainerStarts, Token!Execute
        <3> QED
            BY <3>2 DEF Token!TokenNext
    <2>3. ASSUME NEW p \in Proc, Step(p), ~ReserveCreate(p) PROVE UNCHANGED <<req, marker, started>>
        BY <2>3 DEF Step, Intake, LoadCli, ValidateCli, LoadRuntime, ResolveImage, Validate, ProbeDocker,
                 VerifyPlan, RecheckBeforeReserve, RecheckAfterReserve, RecheckControl, ReserveRefused,
                 VerifyLaunch, Launch, RunnerReturns, VerifyAfter, Finalize
    <2>4. ASSUME NEW p \in Proc, Interrupt(p) \/ Kill(p) \/ Tamper(p)
          PROVE  UNCHANGED <<req, marker, started>>
        BY <2>4 DEF Interrupt, Kill, Tamper
    <2>5. ASSUME NEW f \in Path, Rewrite(f) PROVE UNCHANGED <<req, marker, started>>
        BY <2>5 DEF Rewrite
    <2>6. Tick \/ UNCHANGED vars => UNCHANGED <<req, marker, started>>
        BY DEF Tick, vars
    <2>7. UNCHANGED <<req, marker, started>> => [Token!TokenNext]_Token!tokenVars
        OBVIOUS
    <2> QED
        BY <2>1, <2>2, <2>3, <2>4, <2>5, <2>6, <2>7 DEF Next, Environment, Finished
<1> QED
    BY <1>1, <1>2, Invariance, PTL DEF Spec, ImplementsToken, Token!TokenSpec

(***************************************************************************)
(* What the report says is true: the inductive invariant, one predicate of *)
(* each invocation                                                         *)
(***************************************************************************)
PreLaunch == {"intake", "load_cli", "validate_cli", "load", "image", "validate", "docker", "verify_plan",
              "recheck", "reserve", "recheck_reserved", "verify_launch", "launch"}

\* What a result says of the daemon: 0 is the command's own, and a start may be outstanding
\* only after a failed cleanup
Sound(q) ==
    /\ IsReal(req[q]) /\ result[q].exit_code = 0 => q \in started /\ q \notin inflight
    /\ q \in inflight => IsReal(req[q]) /\ result[q].cleanup = "failed"

\* A real command ran to exit 0 and nothing of it is outstanding
RanClean(q) == q \in started /\ q \notin inflight /\ result[q].exit_code = 0

\* A report that awaits _finalize_report
Pending(q) ==
    /\ report[q].policy_blocked => q \notin inflight \cup started
    /\ q \in inflight => report[q].tracked /\ report[q].cleanup # "ok" /\ report[q].status # "blocked"
    /\ IsReal(req[q]) /\ ~report[q].policy_blocked /\ report[q].sandbox_exit = 0 =>
          /\ RanClean(q) /\ report[q].cleanup = result[q].cleanup /\ report[q].tracked
          /\ report[q].status # "blocked" /\ report[q].integrity = "verified"

\* A report that is out
Accounted(q) ==
    /\ report[q].policy_blocked => q \notin inflight \cup started
    /\ q \in inflight => report[q].status = "cleanup_uncertain"
    /\ IsReal(req[q]) /\ exit[q] = 0 =>
          /\ RanClean(q) /\ result[q].cleanup = "ok" /\ report[q].integrity = "verified"
          /\ ws[q] \in {"removed", "kept"}
    /\ \/ ws[q] = "removed"
       \/ ws[q] = "kept" /\ req[q].preserve
       \/ ws[q] = "left" /\ report[q].status = "cleanup_uncertain"

Truth(q) ==
    /\ pc[q] \in PreLaunch => q \notin inflight \cup started
    /\ pc[q] = "verify_after" => Sound(q)
    /\ pc[q] = "finalize" => Pending(q)
    /\ pc[q] = "done" => Accounted(q)
    /\ ws[q] = "leaked" => pc[q] \in {"killed", "aborted"}

\* The reservation as reported, and the marker on disk
Spent(q) ==
    req[q].path \in Path =>
        /\ marker[req[q].path] = q => reservation[q] \in {"reserved", "write_failed"}
        /\ reservation[q] \in {"reserved", "already_reserved"} => marker[req[q].path] # NULL

RInv == IInv /\ \A q \in Proc : Truth(q) /\ Spent(q)

(***************************************************************************)
(* Frames                                                                  *)
(***************************************************************************)
\* What Truth says of q depends on q's own data and on what the daemon does for q.
LEMMA TruthFrame ==
    ASSUME NEW q \in Proc, Truth(q), UNCHANGED req,
           pc'[q] = pc[q], ws'[q] = ws[q], result'[q] = result[q], report'[q] = report[q], exit'[q] = exit[q],
           q \in inflight' <=> q \in inflight, q \in started' <=> q \in started
    PROVE  Truth(q)'
BY DEF Truth, Sound, Pending, Accounted, RanClean, PreLaunch

\* A step of p changes the data of no other invocation.
LEMMA StepIsOwn ==
    ASSUME TypeOK, NEW p \in Proc, Step(p), NEW q \in Proc, q # p
    PROVE  /\ UNCHANGED req
           /\ pc'[q] = pc[q] /\ ws'[q] = ws[q] /\ result'[q] = result[q] /\ report'[q] = report[q]
           /\ exit'[q] = exit[q] /\ reservation'[q] = reservation[q]
           /\ q \in inflight' <=> q \in inflight
           /\ q \in started' <=> q \in started
<1> USE DEF TypeOK, Goto, Conclude, Refuse, Raise, Reserved, Returned
<1>1. CASE Intake(p) \/ LoadCli(p) \/ ValidateCli(p) \/ LoadRuntime(p) \/ ResolveImage(p)
    BY <1>1 DEF Intake, LoadCli, ValidateCli, LoadRuntime, ResolveImage
<1>2. CASE Validate(p)
    BY <1>2, ZenonT(30) DEF Validate
<1>3. CASE ProbeDocker(p) \/ VerifyPlan(p) \/ VerifyLaunch(p)
    BY <1>3 DEF ProbeDocker, VerifyPlan, VerifyLaunch, Verify
<1>4. CASE RecheckBeforeReserve(p) \/ RecheckAfterReserve(p)
    BY <1>4 DEF RecheckBeforeReserve, RecheckAfterReserve, RecheckControl
<1>5. CASE ReserveCreate(p) \/ ReserveRefused(p)
    BY <1>5 DEF ReserveCreate, ReserveRefused
<1>6. CASE Launch(p) \/ RunnerReturns(p)
    BY <1>6 DEF Launch, RunnerReturns
<1>7. CASE VerifyAfter(p)
    BY <1>7 DEF VerifyAfter
<1>8. CASE Finalize(p)
    BY <1>8 DEF Finalize
<1> QED
    BY <1>1, <1>2, <1>3, <1>4, <1>5, <1>6, <1>7, <1>8 DEF Step

(***************************************************************************)
(* The steps of an invocation and its own report                           *)
(***************************************************************************)
\* Before the launch the pipeline goes on, or ends without a report.
LEMMA MovesOn ==
    ASSUME TypeOK, NEW p \in Proc, Truth(p), pc[p] \in PreLaunch,
           NEW s \in PreLaunch \cup {"usage", "interrupted"}, pc' = [pc EXCEPT ![p] = s],
           ws'[p] # "leaked", UNCHANGED <<inflight, started>>
    PROVE  Truth(p)'
<1>1. pc'[p] = s /\ p \notin inflight' \cup started'
    BY DEF TypeOK, Truth
<1> QED
    BY <1>1 DEF Truth, PreLaunch

\* A report made before the launch tells of a command that neither runs nor will: a policy block, an error, or a
\* dry run (_policy_blocked_report, _infrastructure_error_report, the handler's "except Exception").
LEMMA ConcludesUnlaunched ==
    ASSUME TypeOK, NEW p \in Proc, Truth(p), pc[p] \in PreLaunch, NEW why, NEW tracked, NEW r,
           r = BlockedReport \/ r = ErrorReport(tracked) \/ (r = DryRunReport /\ req[p].dry_run),
           Conclude(p, r, why), UNCHANGED <<req, ws, inflight, started>>
    PROVE  Truth(p)'
<1>1. pc'[p] = "finalize" /\ report'[p] = r /\ p \notin inflight' \cup started' /\ ws'[p] # "leaked"
    BY DEF TypeOK, Truth, Conclude, Goto, PreLaunch
<1>2. r.policy_blocked = TRUE \/ r.sandbox_exit = 1 \/ ~IsReal(req[p])
    <2>1. BlockedReport.policy_blocked = TRUE
        BY DEF BlockedReport, Report
    <2>2. ErrorReport(tracked).sandbox_exit = 1
        BY DEF ErrorReport, Report
    <2>3. req[p].dry_run => ~IsReal(req[p])
        BY DEF IsReal
    <2> QED
        BY <2>1, <2>2, <2>3
<1>3. Pending(p)'
    BY <1>1, <1>2 DEF Pending
<1> QED
    BY <1>1, <1>3 DEF Truth, PreLaunch

\* Everything sandbox-run does before it starts the runner.
LEMMA TruthBefore ==
    ASSUME TypeOK, NEW p \in Proc, Truth(p),
           \/ Intake(p) \/ LoadCli(p) \/ ValidateCli(p) \/ LoadRuntime(p) \/ ResolveImage(p) \/ Validate(p)
           \/ ProbeDocker(p) \/ VerifyPlan(p) \/ RecheckBeforeReserve(p) \/ ReserveCreate(p)
           \/ ReserveRefused(p) \/ RecheckAfterReserve(p) \/ VerifyLaunch(p)
    PROVE  Truth(p)'
<1>0. pc[p] \in PreLaunch => ws[p] # "leaked"
    BY DEF Truth, PreLaunch
<1>1. CASE Intake(p) \/ LoadCli(p) \/ ValidateCli(p) \/ LoadRuntime(p) \/ ResolveImage(p)
    <2>1. pc[p] \in PreLaunch /\ UNCHANGED <<inflight, started>>
        BY <1>1 DEF Intake, LoadCli, ValidateCli, LoadRuntime, ResolveImage, At, PreLaunch
    <2>2. \E s \in PreLaunch \cup {"usage", "interrupted"} : pc' = [pc EXCEPT ![p] = s]
        BY <1>1 DEF Intake, LoadCli, ValidateCli, LoadRuntime, ResolveImage, Goto, PreLaunch
    <2>3. ws'[p] # "leaked"
        BY <1>0, <1>1, <2>1 DEF Intake, LoadCli, ValidateCli, LoadRuntime, ResolveImage, TypeOK
    <2> QED
        BY <2>1, <2>2, <2>3, MovesOn
<1>2. CASE \/ Validate(p) \/ ProbeDocker(p) \/ VerifyPlan(p) \/ RecheckBeforeReserve(p) \/ ReserveCreate(p)
           \/ ReserveRefused(p) \/ RecheckAfterReserve(p) \/ VerifyLaunch(p)
    <2> USE DEF Validate, ProbeDocker, VerifyPlan, RecheckBeforeReserve, RecheckAfterReserve, RecheckControl,
                ReserveCreate, ReserveRefused, VerifyLaunch, Verify
    <2>1. pc[p] \in PreLaunch /\ UNCHANGED <<req, ws, inflight, started>>
        BY <1>2 DEF At, PreLaunch
    <2>2. \/ \E s \in PreLaunch : Goto(p, s)
          \/ \E why, tracked : Conclude(p, BlockedReport, why) \/ Conclude(p, ErrorReport(tracked), why)
          \/ req[p].dry_run /\ \E why : Conclude(p, DryRunReport, why)
        <3> USE DEF Refuse, Raise
        <3>1. CASE Validate(p)
            BY <3>1 DEF PreLaunch
        <3>2. CASE ProbeDocker(p)
            BY <3>2 DEF PreLaunch
        <3>3. CASE VerifyPlan(p)
            BY <3>3 DEF PreLaunch
        <3>4. CASE RecheckBeforeReserve(p) \/ RecheckAfterReserve(p)
            BY <3>4 DEF PreLaunch
        <3>5. CASE ReserveCreate(p) \/ ReserveRefused(p)
            BY <3>5 DEF PreLaunch
        <3>6. CASE VerifyLaunch(p)
            BY <3>6 DEF PreLaunch
        <3> QED
            BY <1>2, <3>1, <3>2, <3>3, <3>4, <3>5, <3>6
    <2>3. ASSUME NEW s \in PreLaunch, Goto(p, s) PROVE Truth(p)'
        BY <1>0, <2>1, <2>3, MovesOn DEF Goto
    <2>4. ASSUME NEW why, NEW tracked, Conclude(p, BlockedReport, why) \/ Conclude(p, ErrorReport(tracked), why)
          PROVE  Truth(p)'
        BY <2>1, <2>4, ConcludesUnlaunched
    <2>5. ASSUME NEW why, req[p].dry_run, Conclude(p, DryRunReport, why) PROVE Truth(p)'
        BY <2>1, <2>5, ConcludesUnlaunched
    <2> QED
        BY <2>2, <2>3, <2>4, <2>5
<1> QED
    BY <1>1, <1>2

\* The runner starts, or refuses at once.
LEMMA TruthLaunch ==
    ASSUME TypeOK, Protocol, NEW p \in Proc, Truth(p), Launch(p)
    PROVE  Truth(p)'
<1>1. pc[p] = "launch" /\ p \notin inflight \cup started /\ ws[p] # "leaked" /\ UNCHANGED <<req, ws, started>>
    BY DEF Launch, At, Truth, PreLaunch
<1>2. CASE Goto(p, "running")
    BY <1>1, <1>2 DEF Goto, TypeOK, Truth, PreLaunch
<1>3. ASSUME NEW r, Returned(p, r), UNCHANGED inflight, IsReal(req[p]) => r.exit_code # 0 PROVE Truth(p)'
    BY <1>1, <1>3 DEF Returned, Goto, TypeOK, Truth, Sound, PreLaunch
<1>4. \A k : FailedResult("failed", "not_started", k).exit_code # 0
    BY RunnerConstants DEF FailedResult
<1>5. req[p].runner = "fake" => ~IsReal(req[p])
    BY DEF IsReal
<1> QED
    BY <1>2, <1>3, <1>4, <1>5 DEF Launch

\* DockerRunner.run returns: 0 is the exit code of a command that ran, and where a start is outstanding cleanup failed.
LEMMA TruthReturns ==
    ASSUME TypeOK, Protocol, NEW p \in Proc, Truth(p), RunnerReturns(p)
    PROVE  Truth(p)'
<1>1. /\ pc[p] = "running" /\ ws[p] # "leaked" /\ UNCHANGED <<req, ws, started>>
    BY DEF RunnerReturns, At, Truth
<1>2. PICK k \in CleanupStatus : \E r \in PossibleResult(p \in started, k) :
          /\ Returned(p, r)
          /\ inflight' = IF MayStillStart(r) THEN inflight ELSE inflight \ {p}
    BY DEF RunnerReturns
<1>3. PICK r \in PossibleResult(p \in started, k) :
          /\ Returned(p, r)
          /\ inflight' = IF MayStillStart(r) THEN inflight ELSE inflight \ {p}
    BY <1>2
<1>4. r.exit_code = 0 => p \in started /\ ~MayStillStart(r)
    BY <1>3, RunnerConstants
       DEF PossibleResult, NormalResult, FailedResult, DockerExit, ClientKilled, MayStillStart
<1>5. MayStillStart(r) => r.cleanup = "failed"
    BY DEF MayStillStart
<1>6. pc'[p] = "verify_after" /\ result'[p] = r
    BY <1>3 DEF Returned, Goto, TypeOK
<1>7. p \in inflight => IsReal(req[p])
    BY DEF Protocol, RealOnly
<1>8. Sound(p)'
    BY <1>1, <1>3, <1>4, <1>5, <1>6, <1>7 DEF Sound
<1> QED
    BY <1>1, <1>6, <1>8 DEF Truth, PreLaunch

\* The integrity check after the run: a report with code 0 is about an intact snapshot and a command that ended with 0.
LEMMA TruthVerifyAfter ==
    ASSUME TypeOK, AtHand, NEW p \in Proc, Truth(p), VerifyAfter(p)
    PROVE  Truth(p)'
<1>1. /\ pc[p] = "verify_after" /\ Sound(p) /\ ws[p] # "leaked" /\ result[p] \in RunnerResult
      /\ UNCHANGED <<req, ws, started, inflight, result>>
    BY DEF VerifyAfter, At, Truth, AtHand
<1>2. PICK r, why : Conclude(p, r, why) /\ \/ r = ErrorReport(IsReal(req[p]))
                                           \/ r = ResultReport(p, ws[p] = "intact")
    BY DEF VerifyAfter, Raise
<1>3. pc'[p] = "finalize" /\ report'[p] = r
    BY <1>2 DEF Conclude, Goto, TypeOK
<1>4. CASE r = ErrorReport(IsReal(req[p]))
    <2>1. ~r.policy_blocked /\ r.tracked = IsReal(req[p]) /\ r.cleanup = "not_attempted" /\ r.status = "failed"
          /\ r.sandbox_exit = 1
        BY <1>4 DEF ErrorReport, Report
    <2>2. Pending(p)'
        BY <1>1, <1>3, <2>1 DEF Pending, Sound
    <2> QED
        BY <1>1, <1>3, <2>2 DEF Truth, PreLaunch
<1>5. CASE r = ResultReport(p, ws[p] = "intact")
    <2>1. /\ ~r.policy_blocked /\ r.tracked = IsReal(req[p]) /\ r.cleanup = result[p].cleanup
          /\ r.status = result[p].outcome \/ r.status = "failed"
        BY <1>5 DEF ResultReport
    <2>2. result[p].outcome # "blocked"
        BY <1>1 DEF RunnerResult
    <2>3. r.sandbox_exit = 0 => result[p].exit_code = 0 /\ r.integrity = "verified"
        BY <1>5 DEF ResultReport
    <2>4. Pending(p)'
        BY <1>1, <1>3, <2>1, <2>2, <2>3 DEF Pending, Sound, RanClean
    <2> QED
        BY <1>1, <1>3, <2>4 DEF Truth, PreLaunch
<1> QED
    BY <1>2, <1>4, <1>5

\* _finalize_report and _sandbox_run_exit_code: exit 0 leaves nothing uncertain, and what is uncertain is said.
LEMMA TruthFinalize ==
    ASSUME TypeOK, AtHand, NEW p \in Proc, Truth(p), Finalize(p)
    PROVE  Truth(p)'
<1>1. /\ pc[p] = "finalize" /\ Pending(p) /\ report[p] \in ReportRecord
      /\ UNCHANGED <<req, started, inflight, result>>
    BY DEF Finalize, At, Truth, AtHand
<1>2. PICK c : /\ c \in IF req[p].preserve THEN {"preserved"} ELSE CleanupStatus
               /\ report' = [report EXCEPT ![p] = Finalized(report[p], c)]
               /\ exit' = [exit EXCEPT ![p] = CliExit(Finalized(report[p], c))]
               /\ ws' = [ws EXCEPT ![p] = CASE c = "preserved" -> "kept"
                                            [] c = "ok" -> "removed"
                                            [] c = "failed" -> "left"]
    BY DEF Finalize
<1> DEFINE r == Finalized(report[p], c)
<1>3. pc'[p] = "done" /\ report'[p] = r /\ exit'[p] = CliExit(r)
    BY <1>2 DEF Finalize, Goto, TypeOK
<1>4. /\ ws'[p] \in {"kept", "removed", "left"}
      /\ ws'[p] = "kept" => req[p].preserve
      /\ ws'[p] = "left" <=> c = "failed"
    BY <1>2 DEF TypeOK, CleanupStatus
<1>5. /\ r.policy_blocked = report[p].policy_blocked
      /\ c = "failed" => r.status = "cleanup_uncertain"
      /\ report[p].tracked /\ report[p].cleanup # "ok" /\ report[p].status # "blocked" => r.status = "cleanup_uncertain"
      /\ r.sandbox_exit = 0 => /\ r = report[p] /\ c # "failed"
                               /\ report[p].tracked /\ report[p].status # "blocked" => report[p].cleanup = "ok"
    BY <1>1 DEF Finalized, CleanupUncertain, ReportRecord
<1>6. CliExit(r) = 0 => ~r.policy_blocked /\ r.sandbox_exit = 0
    BY DEF CliExit
<1>7. Accounted(p)'
    <2>1. report[p].policy_blocked => p \notin inflight \cup started
        BY <1>1 DEF Pending
    <2>2. p \in inflight => r.status = "cleanup_uncertain"
        BY <1>1, <1>5 DEF Pending
    <2>3. IsReal(req[p]) /\ CliExit(r) = 0 =>
              /\ RanClean(p) /\ result[p].cleanup = "ok" /\ r.integrity = "verified" /\ c # "failed"
        BY <1>1, <1>5, <1>6 DEF Pending
    <2> QED
        BY <1>1, <1>3, <1>4, <1>5, <2>1, <2>2, <2>3 DEF Accounted, RanClean
<1> QED
    BY <1>3, <1>4, <1>7 DEF Truth, PreLaunch

(***************************************************************************)
(* The marker and what is reported of it                                   *)
(***************************************************************************)
\* An invocation reports the single use as spent when it spent it, and only when it is spent.
LEMMA SpentStep ==
    ASSUME IInv, NEW p \in Proc, Step(p), \A q \in Proc : Spent(q)
    PROVE  \A q \in Proc : Spent(q)'
<1>0. TypeOK /\ AtHand /\ Protocol
    BY DEF IInv
<1>1. CASE ReserveCreate(p)
    <2>1. /\ req[p].path \in Path /\ UNCHANGED req
          /\ marker' = [marker EXCEPT ![req[p].path] = p]
          /\ \E s \in {"reserved", "write_failed"} : reservation' = [reservation EXCEPT ![p] = s]
        BY <1>0, <1>1 DEF ReserveCreate, Reserved, AtHand, At
    <2>2. p # NULL
        BY SandboxRunConstants
    <2> QED
        BY <1>0, <2>1, <2>2 DEF Spent, TypeOK
<1>2. CASE ReserveRefused(p)
    <2>1. \A f \in Path : marker[f] # p
        BY <1>0, <1>2, NotHolding DEF ReserveRefused, At, BeforeReserve
    <2>2. UNCHANGED <<req, marker>>
        BY <1>2 DEF ReserveRefused
    <2>3. \/ marker[req[p].path] # NULL /\ reservation' = [reservation EXCEPT ![p] = "already_reserved"]
          \/ reservation' = [reservation EXCEPT ![p] = "write_failed"]
        BY <1>2 DEF ReserveRefused, Reserved
    <2> QED
        BY <1>0, <2>1, <2>2, <2>3 DEF Spent, TypeOK
<1>3. CASE VerifyPlan(p)
    <2>1. \A f \in Path : marker[f] # p
        BY <1>0, <1>3, NotHolding DEF VerifyPlan, At, BeforeReserve
    <2>2. /\ UNCHANGED <<req, marker>>
          /\ reservation' = reservation \/ reservation' = [reservation EXCEPT ![p] = "not_consumed"]
        BY <1>3 DEF VerifyPlan
    <2> QED
        BY <1>0, <2>1, <2>2 DEF Spent, TypeOK
<1>4. CASE ~(ReserveCreate(p) \/ ReserveRefused(p) \/ VerifyPlan(p))
    <2>1. UNCHANGED <<req, marker, reservation>>
        BY <1>4 DEF Step, Intake, LoadCli, ValidateCli, LoadRuntime, ResolveImage, Validate, ProbeDocker,
                    RecheckBeforeReserve, RecheckAfterReserve, RecheckControl, VerifyLaunch, Launch, RunnerReturns,
                    VerifyAfter, Finalize
    <2> QED
        BY <2>1 DEF Spent
<1> QED
    BY <1>1, <1>2, <1>3, <1>4

(***************************************************************************)
(* The environment                                                         *)
(***************************************************************************)
\* Neither the daemon nor the host makes a report untrue.
LEMMA TruthEnvironment ==
    ASSUME IInv, Environment, NEW q \in Proc, Truth(q)
    PROVE  Truth(q)'
<1>0. TypeOK
    BY DEF IInv
<1>1. ASSUME NEW p \in Proc, ContainerStarts(p) PROVE Truth(q)'
    <2>1. CASE p # q
        BY <1>1, <2>1, TruthFrame DEF ContainerStarts
    <2>2. CASE p = q
        <3>1. q \in inflight /\ started' = started \cup {q} /\ UNCHANGED <<pc, req, ws, result, report, exit, inflight>>
            BY <1>1, <2>2 DEF ContainerStarts
        <3> QED
            BY <3>1 DEF Truth, Sound, Pending, Accounted, RanClean
    <2> QED
        BY <2>1, <2>2
<1>2. ASSUME NEW p \in Proc, Interrupt(p) \/ Kill(p) PROVE Truth(q)'
    <2>1. /\ UNCHANGED <<req, result, report, exit, started>>
          /\ inflight' = inflight \/ inflight' = inflight \ {p}
          /\ \E s \in Terminal \ {"done", "usage"} : \E w :
                /\ pc' = [pc EXCEPT ![p] = s] /\ ws' = [ws EXCEPT ![p] = w]
                /\ w = "leaked" => s \in {"killed", "aborted"}
        BY <1>2 DEF Interrupt, Kill, Goto, At, Terminal
    <2>2. CASE p # q
        BY <1>0, <2>1, <2>2, TruthFrame DEF TypeOK
    <2>3. CASE p = q
        BY <1>0, <2>1, <2>3 DEF Truth, TypeOK, PreLaunch, Terminal
    <2> QED
        BY <2>2, <2>3
<1>3. ASSUME NEW p \in Proc, Tamper(p) PROVE Truth(q)'
    <2>1. /\ UNCHANGED <<pc, req, result, report, exit, started, inflight>> /\ pc[p] \notin Terminal
          /\ \E w \in {"tampered", "gone"} : ws' = [ws EXCEPT ![p] = w]
        BY <1>3 DEF Tamper
    <2>2. CASE p # q
        BY <1>0, <2>1, <2>2, TruthFrame DEF TypeOK
    <2>3. CASE p = q
        BY <1>0, <2>1, <2>3 DEF Truth, TypeOK, Terminal, Sound, Pending, RanClean
    <2> QED
        BY <2>2, <2>3
<1>4. CASE (\E f \in Path : Rewrite(f)) \/ Tick
    BY <1>4, TruthFrame DEF Rewrite, Tick
<1> QED
    BY <1>1, <1>2, <1>3, <1>4 DEF Environment

(***************************************************************************)
(* The theorems                                                            *)
(***************************************************************************)
\* The invariant holds initially and every step of every invocation and of the environment preserves it.
THEOREM ReportInvariance == Spec => []RInv
<1>1. Init => RInv
    <2> SUFFICES ASSUME Init PROVE RInv
        OBVIOUS
    <2>1. \A q \in Proc : pc[q] = "intake" /\ ws[q] = "none" /\ reservation[q] = "not_attempted"
                          /\ q \notin inflight \cup started
        BY DEF Init
    <2>2. \A f \in Path : \A q \in Proc : marker[f] # q
        BY SandboxRunConstants DEF Init
    <2> QED
        BY <2>1, <2>2, InvInit DEF RInv, Truth, Spent
<1>2. RInv /\ [Next]_vars => RInv'
    <2> SUFFICES ASSUME RInv, [Next]_vars PROVE RInv'
        OBVIOUS
    <2>1. IInv /\ IInv' /\ TypeOK /\ AtHand /\ Protocol /\ \A q \in Proc : Truth(q) /\ Spent(q)
        BY InvNext DEF RInv, IInv
    <2>2. ASSUME NEW p \in Proc, Step(p) PROVE \A q \in Proc : Truth(q)' /\ Spent(q)'
        <3>1. Truth(p)'
            BY <2>1, <2>2, TruthBefore, TruthLaunch, TruthReturns, TruthVerifyAfter, TruthFinalize DEF Step
        <3>2. ASSUME NEW q \in Proc, q # p PROVE Truth(q)'
            BY <2>1, <2>2, <3>2, StepIsOwn, TruthFrame
        <3> QED
            BY <2>1, <2>2, <3>1, <3>2, SpentStep
    <2>3. CASE Environment
        <3>1. UNCHANGED <<req, marker, reservation>>
            BY <2>3 DEF Environment, ContainerStarts, Interrupt, Kill, Tamper, Rewrite, Tick
        <3>2. \A q \in Proc : Spent(q)'
            BY <2>1, <3>1 DEF Spent
        <3>3. \A q \in Proc : Truth(q)'
            BY <2>1, <2>3, TruthEnvironment
        <3> QED
            BY <2>1, <3>2, <3>3 DEF RInv
    <2>4. CASE UNCHANGED vars
        <3>1. \A q \in Proc : Truth(q)'
            BY <2>1, <2>4, TruthFrame DEF vars
        <3>2. \A q \in Proc : Spent(q)'
            BY <2>1, <2>4 DEF vars, Spent
        <3> QED
            BY <2>1, <3>1, <3>2 DEF RInv
    <2> QED
        BY <2>1, <2>2, <2>3, <2>4 DEF RInv, Next, Finished
<1> QED
    BY <1>1, <1>2, PTL DEF Spec

\* Exit 0, a policy block and the state of the workspace mean what the report of sandbox-run says, whatever the
\* daemon answers late and whoever interrupts, kills or tampers.
THEOREM ReportTrue == Spec => []ReportIsTrue
<1>1. RInv => ReportIsTrue
    <2> SUFFICES ASSUME RInv PROVE ReportIsTrue
        OBVIOUS
    <2>1. \A p \in Proc : Done(p) => Accounted(p)
        BY DEF RInv, Truth, Done, At
    <2>2. \A p \in Proc : ws[p] = "leaked" => pc[p] \in {"killed", "aborted"}
        BY DEF RInv, Truth
    <2> QED
        BY <2>1, <2>2 DEF ReportIsTrue, ExitZeroIsClean, BlockedNeverRuns, WorkspaceAccounted, Accounted, RanClean
<1> QED
    BY <1>1, ReportInvariance, PTL

\* The report tells whether the single use was spent (reserve_execution_authorization), for any number of invocations.
THEOREM ConsumptionTold == Spec => []ConsumptionReported
<1>1. RInv => ConsumptionReported
    <2> SUFFICES ASSUME RInv, NEW p \in Proc, req[p].path # NULL
                 PROVE  /\ marker[req[p].path] = p => reservation[p] \in {"reserved", "write_failed"}
                        /\ reservation[p] \in {"reserved", "already_reserved"} => marker[req[p].path] # NULL
        BY DEF ConsumptionReported
    <2>1. req[p].path \in Path
        BY SandboxRunConstants DEF RInv, IInv, TypeOK
    <2> QED
        BY <2>1 DEF RInv, Spent
<1> QED
    BY <1>1, ReportInvariance, PTL

\* Once a report that is not cleanup_uncertain is out, the daemon has nothing left to start.
THEOREM NoStartAfterReport == Spec => NoStartAfterCleanReport
<1>1. ASSUME RInv, [Next]_vars, NEW p \in started' \ started, Done(p)
      PROVE  report[p].status = "cleanup_uncertain"
    <2>1. p \in inflight /\ p \in Proc
        <3>1. ASSUME NEW q \in Proc, Step(q) PROVE started' = started
            BY <3>1 DEF Step, Intake, LoadCli, ValidateCli, LoadRuntime, ResolveImage, Validate, ProbeDocker,
                 VerifyPlan, RecheckBeforeReserve, RecheckAfterReserve, RecheckControl, ReserveCreate, ReserveRefused,
                 VerifyLaunch, Launch, RunnerReturns, VerifyAfter, Finalize
        <3>2. ASSUME NEW q \in Proc, ContainerStarts(q) PROVE p = q /\ q \in inflight
            BY <1>1, <3>2 DEF ContainerStarts
        <3>3. ASSUME NEW q \in Proc, Interrupt(q) \/ Kill(q) \/ Tamper(q) PROVE started' = started
            BY <3>3 DEF Interrupt, Kill, Tamper
        <3>4. (\E f \in Path : Rewrite(f)) \/ Tick \/ UNCHANGED vars => started' = started
            BY DEF Rewrite, Tick, vars
        <3> QED
            BY <1>1, <3>1, <3>2, <3>3, <3>4 DEF Next, Environment, Finished
    <2> QED
        BY <1>1, <2>1 DEF RInv, Truth, Accounted, Done, At
<1>2. RInv /\ [Next]_vars
        => [\A p \in started' \ started : Done(p) => report[p].status = "cleanup_uncertain"]_vars
    BY <1>1
<1> QED
    BY <1>2, ReportInvariance, PTL DEF Spec, NoStartAfterCleanReport
==============================================================================
