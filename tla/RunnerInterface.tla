--------------------------- MODULE RunnerInterface ---------------------------
(***************************************************************************)
(* What DockerRunner.run may return to sandbox-run, given whether the      *)
(* command really ran.  SandboxRun relies on it, DockerRunner is checked   *)
(* against it.                                                             *)
(***************************************************************************)
EXTENDS Integers, PythonValues

CONSTANT ExitCode   \* exit codes of the sandboxed command

ASSUME RunnerConstants == ExitCode \subseteq Nat /\ NULL \notin Int

CleanupStatus == {"ok", "failed"}

\* Exit codes docker uses itself when the command could not be invoked
DockerExit == {125, 126, 127}

\* Popen.returncode of a docker client that someone else killed
ClientKilled == -9

RunnerResult ==
    [outcome : {"completed", "failed", "timed_out", "output_budget_exceeded"},
     exit_code : Int \cup {NULL},
     start : {"not_started", "unknown", "confirmed"},
     cleanup : CleanupStatus \cup {"not_attempted"}]

\* The client came back by itself: every exit code but 125 counts as a started command
NormalResult(code, cleanup) ==
    [outcome |-> IF code = 0 THEN "completed" ELSE "failed", exit_code |-> code,
     start |-> IF code = 125 THEN "not_started" ELSE "confirmed", cleanup |-> cleanup]

FailedResult(outcome, start, cleanup) ==
    [outcome |-> outcome, exit_code |-> NULL, start |-> start, cleanup |-> cleanup]

\* The results that can follow a successful Popen
PossibleResult(ran, cleanup) ==
    {FailedResult("timed_out", "unknown", cleanup), FailedResult("failed", "unknown", cleanup),
     NormalResult(ClientKilled, cleanup)}
    \cup (IF ran THEN {NormalResult(c, cleanup) : c \in ExitCode}
                      \cup {FailedResult("output_budget_exceeded", "confirmed", cleanup)}
                 ELSE {NormalResult(c, cleanup) : c \in DockerExit})

\* After such a result the daemon may still honour what it was asked for
MayStillStart(r) == r.cleanup = "failed" /\ (r.start = "unknown" \/ r.exit_code = ClientKilled)
=============================================================================
