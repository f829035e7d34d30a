------------------------------ MODULE SandboxRun ------------------------------
(***************************************************************************)
(* sandbox-run, from the CLI handler to its exit code: concurrent          *)
(* invocations that share authorization artifacts and their single-use     *)
(* markers on one filesystem, one Docker daemon and one clock, while the   *)
(* artifact owner, the image store and the host may act between any two of *)
(* their steps.                                                            *)
(*                                                                         *)
(* A step of an invocation touches shared state at most once, so that      *)
(* every window the code leaves open is a point where others can act.      *)
(* Control-file reads are atomic here; module ControlFile shows that a read*)
(* which succeeds returns one version of the file.                         *)
(***************************************************************************)
EXTENDS Authorization, RunnerInterface

CONSTANTS
    Proc,          \* sandbox-run invocations
    Path,          \* authorization artifact paths given to --authorization
    Request,       \* command lines an invocation may be started with
    Snapshot,      \* subjects that bounded intake can produce
    Artifact,      \* documents the artifact owner may write
    GateVerdict,   \* GateVerdict[s]: the evaluator's verdict for a snapshot
    PolicyVersion,
    MaxStamp,      \* bound: rewrites of an artifact file
    MaxTime        \* bound: the clock

ASSUME SandboxRunConstants ==
    /\ NULL \notin (Proc \cup Path \cup Snapshot \cup Artifact)
    /\ \A r \in Request :
          r.path \in Path \cup {NULL} /\ r.runner \in {"docker", "fake"} /\ r.dry_run \in BOOLEAN
    /\ MaxStamp \in Nat /\ MaxTime \in Nat

(***************************************************************************)
(* A request: artifact path or NULL, runner, flags, argv and image         *)
(* reference.  "approval" is the outcome of matching the legacy --approval *)
(* file, which never authorizes a real run.                                *)
(***************************************************************************)
FailModes == [block      |-> {"block"},
              quarantine |-> {"quarantine", "block"},
              warn       |-> {"warn", "quarantine", "block"},
              unknown    |-> {"unknown", "warn", "quarantine", "block"}]

VARIABLES
    \* shared
    file,        \* file[f]: the artifact file, its stat identity and document
    marker,      \* marker[f]: the invocation that created "<f>.reserved", or NULL
    clock,       \* the time expiry is compared with
    \* per invocation
    pc,          \* the next step
    req,         \* the command line
    snap,        \* the verified snapshot, NULL when intake refused the target
    ws,          \* the disposable workspace that holds the snapshot
    cli,         \* the control file as the CLI read it
    cliOk,       \* the CLI's validation, used by fake and dry runs
    ctl,         \* the control file as run_sandbox_run read it
    rid,         \* the local image ID resolved for validation
    reservation, \* the single-use reservation as the report records it
    result,      \* what runner.run returned
    report,      \* the report under construction
    exit,        \* the exit code of the CLI
    inflight,    \* invocations whose "docker run" the daemon may still honour
    \* history
    started,     \* invocations whose command really ran
    cause,       \* cause[p]: the refusals that ended the pipeline
    validated,   \* validated[p]: when the artifact was validated
    sealed       \* sealed[f]: the file's state when its marker was created

vars == <<file, marker, clock, pc, req, snap, ws, cli, cliOk, ctl, rid, reservation, result,
          report, exit, inflight, started, cause, validated, sealed>>

(***************************************************************************)
(* Pure parts                                                              *)
(***************************************************************************)
Observed(s) == IF s = NULL THEN [k \in SubjectFields |-> NULL] ELSE Restricted(s, SubjectFields)

\* evaluate_gate_decision_from_scan_envelope for a prepared snapshot
GateDecision(s) ==
    [subject |-> [k \in SubjectFields \cup {"binding_kind"} |->
                    IF k = "binding_kind"
                    THEN (IF s.kind = "git_commit" THEN "snapshot_bound" ELSE "path_bound")
                    ELSE s[k]],
     policy_version |-> PolicyVersion,
     verdict |-> GateVerdict[s]]

\* The CLI evaluates a gate only for a verified snapshot and when asked to
HasGate(p) == snap[p] # NULL /\ (req[p].fail_on_gate # NULL \/ req[p].path # NULL)
Gate(p) == IF HasGate(p) THEN GateDecision(snap[p]) ELSE NoGate

IsReal(r) == r.runner = "docker" /\ ~r.dry_run

Document(c) == IF c = NULL THEN NULL ELSE c.doc

\* load_bounded_json_document: a readable JSON object, or a refusal
Load(f) == IF file[f].doc = NULL THEN NULL ELSE file[f]

\* control_file_matches: digest and stat identity
ControlFileMatches(c1, c2) == c1 # NULL /\ c2 # NULL /\ c1 = c2

Runtime(p) == [observed |-> Observed(snap[p]), ref |-> req[p].image, id |-> rid[p]]

\* Outside a real run the CLI passes no image identity to the validator
CliRuntime(p) == [observed |-> Observed(snap[p]), ref |-> NULL, id |-> NULL]

ControlMatchesCli(p) == cli[p] = NULL \/ ControlFileMatches(cli[p], ctl[p])

GateBlocks(p) ==
    /\ HasGate(p) /\ req[p].fail_on_gate # NULL
    /\ Gate(p).verdict \in FailModes[req[p].fail_on_gate]

\* The refusals collected before Docker is even probed, in the code's terms
PolicyReasons(p, ok) ==
    LET r == req[p]
        observed == Observed(snap[p])
        doc == Document(ctl[p])
        gateOk == ~HasGate(p) \/ GateMatches(Gate(p), observed)
        authOk == doc = NULL \/ AuthorizationMatches(doc, observed)
        resolved == snap[p] # NULL /\ snap[p].kind = "git_commit" /\ RuntimeResolved(observed)
    IN  Err(snap[p] = NULL, "workspace_copy_safety_check_failed")
        \cup Err(r.path # NULL /\ ~ControlMatchesCli(p), "authorization_control_file_changed")
        \cup Err(r.profile = "inspect-only" /\ ~r.dry_run, "inspect_only_profile_requires_dry_run")
        \cup Err(IsReal(r) /\ r.image \notin PinnedRef, "image_digest_pinned_required")
        \cup Err(IsReal(r) /\ ~HasGate(p), "gate_decision_required")
        \cup Err(IsReal(r) /\ r.fail_on_gate = NULL, "gate_threshold_required")
        \cup Err(IsReal(r) /\ r.path = NULL, "authorization_required")
        \cup Err(r.path # NULL /\ ~ok, "authorization_invalid")
        \cup Err(GateBlocks(p), "gate_verdict")
        \cup Err(~r.dry_run /\ (~gateOk \/ (r.path # NULL /\ ~authOk)), "snapshot_subject_mismatch")
        \cup Err(IsReal(r) /\ ~(resolved /\ gateOk /\ authOk), "snapshot_subject_mismatch")
        \cup Err(r.approval = "refused" /\ r.argv # <<>>, "approval_mismatch")
        \cup Err(r.path # NULL /\ ok
                 /\ (doc = NULL \/ SnapshotBinding(doc, Gate(p), observed) # "matched"),
                 "authorization_snapshot_binding")

InfrastructureReasons(p) == Err(req[p].argv = <<>>, "command_argv_missing")

(***************************************************************************)
(* Reports                                                                 *)
(***************************************************************************)
\* The reports of _policy_blocked_report, _infrastructure_error_report, a dry run and
\* the handler's "except Exception"; "tracked" and "cleanup" are the docker section's
\* container tracking.
Report(status, exitCode, tracked) ==
    [status |-> status, policy_blocked |-> status = "blocked", start |-> "not_started",
     command_exit |-> NULL, sandbox_exit |-> exitCode,
     integrity |-> "not_checked", tracked |-> tracked, cleanup |-> "not_attempted"]
BlockedReport == Report("blocked", 2, FALSE)
ErrorReport(tracked) == Report("failed", 1, tracked)
DryRunReport == Report("dry_run", 0, FALSE)

\* Mutant: the runner's exit code is taken over even when there is none
ResultReport_RawExit(p, intact) ==
    [Report(result[p].outcome, result[p].exit_code, IsReal(req[p])) EXCEPT
        !.start = result[p].start, !.cleanup = result[p].cleanup, !.integrity = "verified"]

\* The report of a run that came back, before finalisation
ResultReport(p, intact) ==
    LET r == result[p]
        infra == req[p].runner = "docker" /\ r.outcome # "timed_out" /\ r.exit_code \in {125, NULL}
        code == IF r.outcome = "output_budget_exceeded" THEN 2
                ELSE IF infra \/ r.exit_code = NULL THEN 1 ELSE r.exit_code
    IN  [status |-> IF intact THEN r.outcome ELSE "failed",
         policy_blocked |-> FALSE,
         start |-> r.start,
         command_exit |-> IF r.start = "confirmed" THEN r.exit_code ELSE NULL,
         sandbox_exit |-> IF intact THEN code ELSE 1,
         integrity |-> IF intact THEN "verified" ELSE "mismatch",
         tracked |-> IsReal(req[p]),
         cleanup |-> r.cleanup]

\* _finalize_report: the tracked container first, then the disposable workspace
CleanupUncertain(r) == [r EXCEPT !.status = "cleanup_uncertain", !.sandbox_exit = 1]

\* Mutant: a container that could not be removed goes unreported
Finalized_TrustsContainer(r, workspaceCleanup) ==
    IF workspaceCleanup = "failed" THEN CleanupUncertain(r) ELSE r

Finalized(r, workspaceCleanup) ==
    IF workspaceCleanup = "failed" \/ (r.tracked /\ r.cleanup # "ok" /\ r.status # "blocked")
    THEN CleanupUncertain(r)
    ELSE r

\* Mutant: a started command's exit code always wins, zero included
CliExit_CommandWins(r) ==
    IF r.policy_blocked THEN 2
    ELSE IF r.start = "confirmed" /\ r.command_exit # NULL THEN r.command_exit
    ELSE r.sandbox_exit

\* _sandbox_run_exit_code of cli.py
CliExit(r) ==
    IF r.policy_blocked THEN 2
    ELSE IF r.start # "confirmed" /\ r.sandbox_exit # 0 THEN 1
    ELSE IF r.start = "confirmed" /\ r.command_exit \notin {NULL, 0} THEN r.command_exit
    ELSE r.sandbox_exit

(***************************************************************************)
(* Steps of one invocation                                                 *)
(***************************************************************************)
Terminal == {"done", "usage", "interrupted", "aborted", "killed"}

At(p, step) == pc[p] = step
Goto(p, step) == pc' = [pc EXCEPT ![p] = step]

\* The pipeline is over: the report only awaits _finalize_report
Conclude(p, r, why) ==
    /\ Goto(p, "finalize")
    /\ report' = [report EXCEPT ![p] = r]
    /\ cause' = [cause EXCEPT ![p] = why]

Refuse(p, reasons) == Conclude(p, BlockedReport, reasons)

\* An exception that reaches the handler's "except Exception"
Raise(p, tracked, why) == Conclude(p, ErrorReport(tracked), why)

\* create_verified_snapshot; a refused target still leaves a workspace to clean up
Intake(p) ==
    /\ At(p, "intake")
    /\ \E s \in Snapshot \cup {NULL} : snap' = [snap EXCEPT ![p] = s]
    /\ ws' = [ws EXCEPT ![p] = "intact"]
    /\ Goto(p, IF req[p].path = NULL THEN "load" ELSE "load_cli")
    /\ UNCHANGED <<file, marker, clock, req, cli, cliOk, ctl, rid, reservation, result, report,
                   exit, inflight, started, cause, validated, sealed>>

\* The CLI reads --authorization; a refused read is a usage error (parser.error)
LoadCli(p) ==
    /\ At(p, "load_cli")
    /\ IF Load(req[p].path) = NULL
       THEN /\ Goto(p, "usage")
            /\ exit' = [exit EXCEPT ![p] = 2]
            /\ \E left \in {"removed", "left"} : ws' = [ws EXCEPT ![p] = left]
            /\ UNCHANGED cli
       ELSE /\ Goto(p, "validate_cli")
            /\ cli' = [cli EXCEPT ![p] = Load(req[p].path)]
            /\ UNCHANGED <<exit, ws>>
    /\ UNCHANGED <<file, marker, clock, req, snap, cliOk, ctl, rid, reservation, result, report,
                   inflight, started, cause, validated, sealed>>

\* In a real run this result is replaced by the one computed at "validate"
ValidateCli(p) ==
    /\ At(p, "validate_cli")
    /\ cliOk' = [cliOk EXCEPT ![p] =
                    /\ ~IsReal(req[p])
                    /\ execution_authorized(cli[p].doc, Gate(p), req[p].argv, CliRuntime(p), clock)]
    /\ Goto(p, "load")
    /\ UNCHANGED <<file, marker, clock, req, snap, ws, cli, ctl, rid, reservation, result, report,
                   exit, inflight, started, cause, validated, sealed>>

\* run_sandbox_run takes the inventory of the snapshot and reads the control file again.
\* The inventory of a vanished workspace raises outside the "except Exception": the
\* invocation ends with a traceback, no report, and an attempt to clean up.
LoadRuntime(p) ==
    /\ At(p, "load")
    /\ \/ /\ snap[p] # NULL /\ ws[p] = "gone"
          /\ Goto(p, "interrupted")
          /\ \E left \in {"removed", "left"} : ws' = [ws EXCEPT ![p] = left]
          /\ UNCHANGED ctl
       \/ /\ snap[p] = NULL \/ ws[p] # "gone"
          /\ ctl' = [ctl EXCEPT ![p] = IF req[p].path = NULL THEN NULL ELSE Load(req[p].path)]
          /\ Goto(p, "image")
          /\ UNCHANGED ws
    /\ UNCHANGED <<file, marker, clock, req, snap, cli, cliOk, rid, reservation, result, report,
                   exit, inflight, started, cause, validated, sealed>>

\* runner.image_id: only for a real run, a readable artifact and a pinned reference
ResolveImage(p) ==
    /\ At(p, "image")
    /\ \E id \in IF IsReal(req[p]) /\ ctl[p] # NULL /\ ControlMatchesCli(p)
                     /\ req[p].image \in PinnedRef
                  THEN LocalImageId \cup {NULL} ELSE {NULL} :
          rid' = [rid EXCEPT ![p] = id]
    /\ Goto(p, "validate")
    /\ UNCHANGED <<file, marker, clock, req, snap, ws, cli, cliOk, ctl, reservation, result, report,
                   exit, inflight, started, cause, validated, sealed>>

\* _authorization_execution_authorized for the validation that applies to this run
Authorized(p) ==
    IF IsReal(req[p])
    THEN /\ ctl[p] # NULL /\ ControlMatchesCli(p)
         /\ execution_authorized(ctl[p].doc, Gate(p), req[p].argv, Runtime(p), clock)
         /\ ImageBound(ctl[p].doc, Runtime(p))
    ELSE cliOk[p]

\* Mutant: the validation result is recorded and not consulted
Validate_IgnoresAuthorization(p) ==
    /\ At(p, "validate")
    /\ validated' = [validated EXCEPT ![p] = clock]
    /\ IF PolicyReasons(p, TRUE) # {} THEN Refuse(p, PolicyReasons(p, TRUE))
       ELSE Goto(p, "docker") /\ UNCHANGED <<report, cause>>
    /\ UNCHANGED <<file, marker, clock, req, snap, ws, cli, cliOk, ctl, rid, reservation, result,
                   exit, inflight, started, sealed>>

\* Every refusal is collected; a policy refusal takes precedence over infrastructure
Validate(p) ==
    /\ At(p, "validate")
    /\ validated' = [validated EXCEPT ![p] = clock]
    /\ LET refusals == PolicyReasons(p, Authorized(p)) IN
          IF refusals # {} THEN Refuse(p, refusals)
          ELSE IF InfrastructureReasons(p) # {}
          THEN Conclude(p, ErrorReport(FALSE), InfrastructureReasons(p))
          ELSE Goto(p, "docker") /\ UNCHANGED <<report, cause>>
    /\ UNCHANGED <<file, marker, clock, req, snap, ws, cli, cliOk, ctl, rid, reservation, result,
                   exit, inflight, started, sealed>>

\* docker_available and image_available_locally
ProbeDocker(p) ==
    /\ At(p, "docker")
    /\ \/ Goto(p, "verify_plan") /\ UNCHANGED <<report, cause>>
       \/ /\ ~req[p].dry_run
          /\ Conclude(p, ErrorReport(FALSE), {"docker_unavailable"})
    /\ UNCHANGED <<file, marker, clock, req, snap, ws, cli, cliOk, ctl, rid, reservation, result,
                   exit, inflight, started, validated, sealed>>

\* verify_verified_snapshot: a changed tree is refused, a vanished one raises OSError
Verify(p, tracked) ==
    \/ ws[p] = "tampered" /\ Refuse(p, {"snapshot_integrity_verification_failed"})
    \/ ws[p] = "gone" /\ Raise(p, tracked, {"snapshot_unreadable"})

\* First integrity check, Docker planning, and the end of a dry run.  Planning writes the
\* seccomp profile and builds the argv, either of which may raise.
VerifyPlan(p) ==
    /\ At(p, "verify_plan")
    /\ \/ Verify(p, FALSE) /\ UNCHANGED reservation
       \/ ws[p] = "intact" /\ Raise(p, FALSE, {"docker_planning_failed"}) /\ UNCHANGED reservation
       \/ /\ ws[p] = "intact" /\ req[p].dry_run
          /\ reservation' = [reservation EXCEPT ![p] = "not_consumed"]
          /\ Conclude(p, DryRunReport, {})
       \/ /\ ws[p] = "intact" /\ ~req[p].dry_run
          /\ Goto(p, IF req[p].path = NULL THEN "verify_launch" ELSE "recheck")
          /\ UNCHANGED <<reservation, report, cause>>
    /\ UNCHANGED <<file, marker, clock, req, snap, ws, cli, cliOk, ctl, rid, result, exit, inflight, started,
                   validated, sealed>>

\* Mutant: a changed control file is waited out instead of refused
RecheckControl_Waits(p, step, next) ==
    /\ At(p, step)
    /\ ControlFileMatches(ctl[p], Load(req[p].path))
    /\ Goto(p, next)
    /\ UNCHANGED <<file, marker, clock, req, snap, ws, cli, cliOk, ctl, rid, reservation, result,
                   report, cause, exit, inflight, started, validated, sealed>>

\* The two re-reads around the reservation.  On a mismatch _policy_blocked_report is
\* called with the authorization validation in place of an approval validation;
\* _approval_report then fails with AttributeError, which the handler catches.  So it
\* does with the OSError of a read that fails.
RecheckControl(p, step, next) ==
    /\ At(p, step)
    /\ \/ /\ ControlFileMatches(ctl[p], Load(req[p].path))
          /\ Goto(p, next) /\ UNCHANGED <<report, cause>>
       \/ /\ ~ControlFileMatches(ctl[p], Load(req[p].path))
          /\ Raise(p, IsReal(req[p]), {"authorization_control_file_changed"})
       \/ Raise(p, IsReal(req[p]), {"control_file_io_error"})
    /\ UNCHANGED <<file, marker, clock, req, snap, ws, cli, cliOk, ctl, rid, reservation, result,
                   exit, inflight, started, validated, sealed>>

\* Mutants: no reservation at all, and no second re-read
RecheckBeforeReserve_SkipsReservation(p) == RecheckControl(p, "recheck", "verify_launch")

RecheckAfterReserve_TrustsReservation(p) ==
    /\ At(p, "recheck_reserved")
    /\ Goto(p, "verify_launch")
    /\ UNCHANGED <<file, marker, clock, req, snap, ws, cli, cliOk, ctl, rid, reservation, result,
                   report, cause, exit, inflight, started, validated, sealed>>

RecheckBeforeReserve(p) == RecheckControl(p, "recheck", "reserve")
RecheckAfterReserve(p) == RecheckControl(p, "recheck_reserved", "verify_launch")

Reserved(p, status) == reservation' = [reservation EXCEPT ![p] = status]

\* Mutants: O_EXCL is forgotten; a marker whose content was not written counts as unspent
ReserveCreate_NotExclusive(p) ==
    /\ At(p, "reserve")
    /\ marker' = [marker EXCEPT ![req[p].path] = p]
    /\ sealed' = [sealed EXCEPT ![req[p].path] = file[req[p].path]]
    /\ Reserved(p, "reserved")
    /\ Goto(p, "recheck_reserved")
    /\ UNCHANGED <<file, clock, req, snap, ws, cli, cliOk, ctl, rid, result, report, cause, exit,
                   inflight, started, validated>>

ReserveCreate_FailureUnreported(p) ==
    /\ At(p, "reserve")
    /\ marker[req[p].path] = NULL
    /\ marker' = [marker EXCEPT ![req[p].path] = p]
    /\ sealed' = [sealed EXCEPT ![req[p].path] = file[req[p].path]]
    /\ Refuse(p, {"authorization_single_use_reservation_write_failed"})
    /\ UNCHANGED <<file, clock, req, snap, ws, cli, cliOk, ctl, rid, reservation, result, exit,
                   inflight, started, validated>>

\* reserve_execution_authorization: O_CREAT|O_EXCL succeeds; writing the content or
\* fsync may still fail and leaves the marker behind
ReserveCreate(p) ==
    /\ At(p, "reserve")
    /\ marker[req[p].path] = NULL
    /\ marker' = [marker EXCEPT ![req[p].path] = p]
    /\ sealed' = [sealed EXCEPT ![req[p].path] = file[req[p].path]]
    /\ \/ /\ Reserved(p, "reserved")
          /\ Goto(p, "recheck_reserved") /\ UNCHANGED <<report, cause>>
       \/ /\ Reserved(p, "write_failed")
          /\ Refuse(p, {"authorization_single_use_reservation_write_failed"})
    /\ UNCHANGED <<file, clock, req, snap, ws, cli, cliOk, ctl, rid, result, exit,
                   inflight, started, validated>>

\* os.open refuses: FileExistsError, or any other OSError before a marker exists
ReserveRefused(p) ==
    /\ At(p, "reserve")
    /\ \/ /\ marker[req[p].path] # NULL
          /\ Reserved(p, "already_reserved")
          /\ Refuse(p, {"authorization_single_use_reservation_exists"})
       \/ /\ marker[req[p].path] = NULL
          /\ Reserved(p, "write_failed")
          /\ Refuse(p, {"authorization_single_use_reservation_write_failed"})
    /\ UNCHANGED <<file, marker, clock, req, snap, ws, cli, cliOk, ctl, rid, result, exit, inflight, started,
                   validated, sealed>>

VerifyLaunch(p) ==
    /\ At(p, "verify_launch")
    /\ \/ Verify(p, IsReal(req[p]))
       \/ ws[p] = "intact" /\ Goto(p, "launch") /\ UNCHANGED <<report, cause>>
    /\ UNCHANGED <<file, marker, clock, req, snap, ws, cli, cliOk, ctl, rid, reservation, result,
                   exit, inflight, started, validated, sealed>>

(***************************************************************************)
(* The runner.  The daemon, the client and the command are external: what  *)
(* they may do is bounded only by what docker documents and by cleanup.    *)
(***************************************************************************)
Returned(p, r) ==
    /\ result' = [result EXCEPT ![p] = r]
    /\ Goto(p, "verify_after")

\* Popen of the docker client, or the fake runner's canned result
Launch(p) ==
    /\ At(p, "launch")
    /\ \/ /\ req[p].runner = "docker"
          /\ Goto(p, "running")
          /\ inflight' = inflight \cup {p}
          /\ UNCHANGED result
       \/ /\ req[p].runner = "docker"
          /\ \E k \in CleanupStatus : Returned(p, FailedResult("failed", "not_started", k))
          /\ UNCHANGED inflight
       \/ /\ req[p].runner = "fake"
          /\ \E r \in {NormalResult(0, "not_attempted"), NormalResult(1, "not_attempted"),
                       FailedResult("timed_out", "unknown", "not_attempted")} : Returned(p, r)
          /\ UNCHANGED inflight
    /\ UNCHANGED <<file, marker, clock, req, snap, ws, cli, cliOk, ctl, rid, reservation, report, exit,
                   started, cause, validated, sealed>>

\* The daemon starts the container, whether or not anyone still waits for it
ContainerStarts(p) ==
    /\ p \in inflight \ started
    /\ started' = started \cup {p}
    /\ UNCHANGED <<file, marker, clock, pc, req, snap, ws, cli, cliOk, ctl, rid, reservation, result,
                   report, exit, inflight, cause, validated, sealed>>

\* DockerRunner.run returns: the client is stopped and the tracked container was
\* removed, or cleanup failed and a requested start may still be honoured
RunnerReturns(p) ==
    /\ At(p, "running")
    /\ \E k \in CleanupStatus : \E r \in PossibleResult(p \in started, k) :
          /\ Returned(p, r)
          /\ inflight' = IF MayStillStart(r) THEN inflight ELSE inflight \ {p}
    /\ UNCHANGED <<file, marker, clock, req, snap, ws, cli, cliOk, ctl, rid, reservation, report, exit,
                   started, cause, validated, sealed>>

\* The integrity check after the run; a vanished workspace raises and the report falls
\* back to the one prepared before the command was launched
VerifyAfter(p) ==
    /\ At(p, "verify_after")
    /\ \/ ws[p] = "gone" /\ Raise(p, IsReal(req[p]), {"snapshot_unreadable"})
       \/ ws[p] # "gone" /\ Conclude(p, ResultReport(p, ws[p] = "intact"), {})
    /\ UNCHANGED <<file, marker, clock, req, snap, ws, cli, cliOk, ctl, rid, reservation, result, exit,
                   inflight, started, validated, sealed>>

\* _finalize_report, then the CLI's exit code.  rmtree of a vanished tree may fail too.
Finalize(p) ==
    /\ At(p, "finalize")
    /\ \E c \in IF req[p].preserve THEN {"preserved"} ELSE CleanupStatus :
          LET r == Finalized(report[p], c) IN
          /\ report' = [report EXCEPT ![p] = r]
          /\ exit' = [exit EXCEPT ![p] = CliExit(r)]
          /\ ws' = [ws EXCEPT ![p] = CASE c = "preserved" -> "kept"
                                       [] c = "ok" -> "removed"
                                       [] c = "failed" -> "left"]
    /\ Goto(p, "done")
    /\ UNCHANGED <<file, marker, clock, req, snap, cli, cliOk, ctl, rid, reservation, result, inflight,
                   started, cause, validated, sealed>>

\* KeyboardInterrupt, other BaseExceptions, and exceptions outside the handler's try (a
\* control file whose read fails): the container is cleaned up where one was launched,
\* then the workspace, and no report is written.  During intake nobody owns the
\* workspace yet, so nobody removes it.
Interrupt(p) ==
    /\ pc[p] \notin Terminal
    /\ Goto(p, IF At(p, "intake") THEN "aborted" ELSE "interrupted")
    /\ \E left \in IF At(p, "intake") THEN {"leaked"} ELSE {"removed", "left"} :
          ws' = [ws EXCEPT ![p] = left]
    /\ \E k \in CleanupStatus :
          inflight' = IF At(p, "running") /\ k = "ok" THEN inflight \ {p} ELSE inflight
    /\ UNCHANGED <<file, marker, clock, req, snap, cli, cliOk, ctl, rid, reservation, result, report,
                   exit, started, cause, validated, sealed>>

\* SIGKILL, SIGTERM or a host crash: nothing runs any more, the client may live on
Kill(p) ==
    /\ pc[p] \notin Terminal
    /\ Goto(p, "killed")
    /\ ws' = [ws EXCEPT ![p] = "leaked"]
    /\ UNCHANGED <<file, marker, clock, req, snap, cli, cliOk, ctl, rid, reservation, result, report,
                   exit, inflight, started, cause, validated, sealed>>

(***************************************************************************)
(* The environment                                                         *)
(***************************************************************************)
\* The artifact owner rewrites, replaces or deletes a file: its stat identity changes
Rewrite(f) ==
    /\ file[f].stamp < MaxStamp
    /\ \E d \in Artifact \cup {NULL} : file' = [file EXCEPT ![f] = [stamp |-> @.stamp + 1, doc |-> d]]
    /\ UNCHANGED <<marker, clock, pc, req, snap, ws, cli, cliOk, ctl, rid, reservation, result, report,
                   exit, inflight, started, cause, validated, sealed>>

Tick ==
    /\ clock < MaxTime
    /\ clock' = clock + 1
    /\ UNCHANGED <<file, marker, pc, req, snap, ws, cli, cliOk, ctl, rid, reservation, result, report,
                   exit, inflight, started, cause, validated, sealed>>

\* Another process of the host changes or removes the disposable workspace
Tamper(p) ==
    /\ pc[p] \notin Terminal /\ ws[p] \in {"intact", "tampered"}
    /\ \E w \in {"tampered", "gone"} \ {ws[p]} : ws' = [ws EXCEPT ![p] = w]
    /\ UNCHANGED <<file, marker, clock, pc, req, snap, cli, cliOk, ctl, rid, reservation, result, report,
                   exit, inflight, started, cause, validated, sealed>>

Step(p) ==
    \/ Intake(p) \/ LoadCli(p) \/ ValidateCli(p) \/ LoadRuntime(p) \/ ResolveImage(p) \/ Validate(p)
    \/ ProbeDocker(p) \/ VerifyPlan(p) \/ RecheckBeforeReserve(p) \/ ReserveCreate(p)
    \/ ReserveRefused(p) \/ RecheckAfterReserve(p) \/ VerifyLaunch(p) \/ Launch(p)
    \/ RunnerReturns(p) \/ VerifyAfter(p) \/ Finalize(p)

Environment ==
    \/ \E p \in Proc : ContainerStarts(p) \/ Interrupt(p) \/ Kill(p) \/ Tamper(p)
    \/ \E f \in Path : Rewrite(f)
    \/ Tick

\* Every invocation is over and nothing outside can change any more
Finished ==
    /\ \A p \in Proc : pc[p] \in Terminal
    /\ UNCHANGED vars

Init ==
    /\ file \in [Path -> {[stamp |-> 0, doc |-> d] : d \in Artifact \cup {NULL}}]
    /\ marker = [f \in Path |-> NULL]
    /\ clock = 0
    /\ pc = [p \in Proc |-> "intake"]
    /\ req \in [Proc -> Request]
    /\ snap = [p \in Proc |-> NULL]
    /\ ws = [p \in Proc |-> "none"]
    /\ cli = [p \in Proc |-> NULL]
    /\ cliOk = [p \in Proc |-> FALSE]
    /\ ctl = [p \in Proc |-> NULL]
    /\ rid = [p \in Proc |-> NULL]
    /\ reservation = [p \in Proc |-> "not_attempted"]
    /\ result = [p \in Proc |-> NULL]
    /\ report = [p \in Proc |-> NULL]
    /\ exit = [p \in Proc |-> NULL]
    /\ inflight = {}
    /\ started = {}
    /\ cause = [p \in Proc |-> {}]
    /\ validated = [p \in Proc |-> NULL]
    /\ sealed = [f \in Path |-> NULL]

Next == (\E p \in Proc : Step(p)) \/ Environment \/ Finished

Spec == Init /\ [][Next]_vars

\* No step of the pipeline waits for anything but its own bounded calls
FairSpec == Spec /\ \A p \in Proc : WF_vars(Step(p))

(***************************************************************************)
(* Properties                                                              *)
(***************************************************************************)
\* The refusals an invocation can end with; several codes of one check share a name
Reason ==
    {"workspace_copy_safety_check_failed", "authorization_control_file_changed",
     "inspect_only_profile_requires_dry_run", "image_digest_pinned_required",
     "gate_decision_required", "gate_threshold_required", "authorization_required",
     "authorization_invalid", "gate_verdict", "snapshot_subject_mismatch", "approval_mismatch",
     "authorization_snapshot_binding", "command_argv_missing", "docker_unavailable",
     "snapshot_integrity_verification_failed", "snapshot_unreadable", "control_file_io_error",
     "docker_planning_failed", "authorization_single_use_reservation_exists",
     "authorization_single_use_reservation_write_failed"}

ReportRecord ==
    [status : {"blocked", "failed", "dry_run", "completed", "timed_out", "output_budget_exceeded",
               "cleanup_uncertain"},
     policy_blocked : BOOLEAN,
     start : {"not_started", "unknown", "confirmed"},
     command_exit : Int \cup {NULL},
     sandbox_exit : Int,
     integrity : {"not_checked", "verified", "mismatch"},
     tracked : BOOLEAN,
     cleanup : {"ok", "failed", "not_attempted"}]

Pc == {"intake", "load_cli", "validate_cli", "load", "image", "validate", "docker", "verify_plan",
       "recheck", "reserve", "recheck_reserved", "verify_launch", "launch", "running",
       "verify_after", "finalize"} \cup Terminal

FileState == [stamp : 0 .. MaxStamp, doc : Artifact \cup {NULL}]

\* Every variable of the shared files and of each sandbox-run invocation has its type.
TypeOK ==
    /\ file \in [Path -> FileState]
    /\ marker \in [Path -> Proc \cup {NULL}]
    /\ clock \in 0 .. MaxTime
    /\ pc \in [Proc -> Pc]
    /\ req \in [Proc -> Request]
    /\ snap \in [Proc -> Snapshot \cup {NULL}]
    /\ ws \in [Proc -> {"none", "intact", "tampered", "gone", "removed", "kept", "left", "leaked"}]
    /\ cli \in [Proc -> FileState \cup {NULL}]
    /\ cliOk \in [Proc -> BOOLEAN]
    /\ ctl \in [Proc -> FileState \cup {NULL}]
    /\ rid \in [Proc -> LocalImageId \cup {NULL}]
    /\ reservation \in [Proc -> {"not_attempted", "not_consumed", "reserved", "write_failed",
                                 "already_reserved"}]
    /\ result \in [Proc -> RunnerResult \cup {NULL}]
    /\ report \in [Proc -> ReportRecord \cup {NULL}]
    /\ exit \in [Proc -> Int \cup {NULL}]
    /\ inflight \subseteq Proc
    /\ started \subseteq Proc
    /\ cause \in [Proc -> SUBSET Reason]
    /\ validated \in [Proc -> (0 .. MaxTime) \cup {NULL}]
    /\ sealed \in [Path -> FileState \cup {NULL}]

Done(p) == At(p, "done")

\* One artifact path authorizes at most one command that really runs, whatever other
\* invocations, rewrites of the artifact, crashes and retries happen (the O_EXCL marker).
SingleUse == \A p, q \in started : req[p].path = req[q].path => p = q

\* What the Human approved is what runs: an approved and signed current-schema artifact,
\* valid when it was checked, for this argv, this snapshot, this pinned image and a gate
\* verdict that may be authorized and is below the caller's threshold.
WhatWasApproved(p) ==
    LET a == ctl[p].doc IN
    /\ IsReal(req[p]) /\ ctl[p] # NULL /\ a # NULL
    /\ a.approved = TRUE /\ a.signed /\ a.version = Current
    /\ a.expires # NULL /\ ~(a.expires <= validated[p])
    /\ a.argv = req[p].argv
    /\ a.image # NULL /\ a.image.ref = req[p].image /\ a.image.ref \in PinnedRef
    /\ a.image.id = rid[p] /\ rid[p] \in LocalImageId
    /\ snap[p] # NULL /\ snap[p].kind = "git_commit"
    /\ \A k \in SubjectFields : a.subject[k] = snap[p][k] /\ a.scope[k] = snap[p][k]
    /\ a.based_on = GateReference(GateDecision(snap[p]))
    /\ GateVerdict[snap[p]] \in {"warn", "allow_limited"}
    /\ GateVerdict[snap[p]] \notin FailModes[req[p].fail_on_gate]

LaunchWasAuthorized == \A p \in started : WhatWasApproved(p)

\* The file that was on disk when the single use was consumed is the very version that
\* was validated: the two re-reads leave no window for a swapped artifact.
ReservationSealsArtifact ==
    \A p \in started : sealed[req[p].path] = ctl[p]

\* Only an invocation whose artifact passed validation spends the single use: a refused
\* or dry invocation never burns an artifact.
OnlyAuthorizedConsumes ==
    \A f \in Path : \A p \in Proc : marker[f] = p =>
        /\ req[p].path = f /\ ~req[p].dry_run
        /\ IF IsReal(req[p]) THEN WhatWasApproved(p) ELSE cliOk[p]

\* Exit 0 of a docker invocation is a dry run, or a command that ran to exit 0 in a
\* container whose removal was confirmed, over a snapshot found intact afterwards.
ExitZeroIsClean ==
    \A p \in Proc : Done(p) /\ exit[p] = 0 /\ IsReal(req[p]) =>
        /\ p \in started /\ p \notin inflight
        /\ result[p].exit_code = 0 /\ result[p].cleanup = "ok"
        /\ report[p].integrity = "verified" /\ ws[p] \in {"removed", "kept"}

\* A policy block is final: the command neither ran nor can the daemon still start it.
BlockedNeverRuns ==
    \A p \in Proc : Done(p) /\ report[p].policy_blocked => p \notin started \cup inflight

\* The report of a finished run says whether the single use was spent: it does exactly
\* when the marker is this invocation's, or the marker could not be created.
ConsumptionReported ==
    \A p \in Proc : Done(p) /\ req[p].path # NULL =>
        /\ marker[req[p].path] = p => reservation[p] \in {"reserved", "write_failed"}
        /\ reservation[p] \in {"reserved", "already_reserved"} => marker[req[p].path] # NULL

\* After intake every way out of an invocation but a kill tries to remove the workspace,
\* and a workspace left behind without --preserve-workspace is reported.
WorkspaceAccounted ==
    \A p \in Proc :
        /\ ws[p] = "leaked" => pc[p] \in {"killed", "aborted"}
        /\ Done(p) => \/ ws[p] = "removed"
                      \/ ws[p] = "kept" /\ req[p].preserve
                      \/ ws[p] = "left" /\ report[p].status = "cleanup_uncertain"

\* The report and the exit code of a finished invocation mean what they say: exit 0, a policy block and the state of
\* the workspace (_finalize_report, _sandbox_run_exit_code).
ReportIsTrue == ExitZeroIsClean /\ BlockedNeverRuns /\ WorkspaceAccounted

\* Once a report that is not cleanup_uncertain is out, its command cannot start any more.
NoStartAfterCleanReport ==
    [][\A p \in started' \ started : Done(p) => report[p].status = "cleanup_uncertain"]_vars

\* Every invocation comes to an end.
EveryInvocationEnds == \A p \in Proc : <>(pc[p] \in Terminal)

(***************************************************************************)
(* sandbox-run implements the single-use token                             *)
(***************************************************************************)
Token == INSTANCE SingleUseToken WITH
            wants <- [p \in Proc |-> req[p].path], owner <- marker, executed <- started

\* Behind every file, re-read, refusal and crash, an artifact is consumed once and only
\* its consumer executes.
ImplementsToken == Token!TokenSpec

(***************************************************************************)
(* Claims of the documentation that the code does not meet                 *)
(***************************************************************************)
\* "Policy, gate, authorization ... block: exit 2" also for an artifact that changed
\* around its reservation.
ChangedControlFileIsPolicyBlock ==
    \A p \in Proc : Done(p) /\ "authorization_control_file_changed" \in cause[p] =>
        report[p].policy_blocked /\ exit[p] = 2
=============================================================================
