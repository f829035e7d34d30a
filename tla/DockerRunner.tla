---------------------------- MODULE DockerRunner ----------------------------
(***************************************************************************)
(* DockerRunner.run: one "docker run" client under a timeout and an output *)
(* budget, the daemon that serves it, and the cleanup that finds the       *)
(* container again by its label and cidfile.  The client talks to the      *)
(* daemon in two calls, create and start, and may be stopped, or killed by *)
(* someone else, before either is answered; the daemon answers no matter   *)
(* who still listens.                                                      *)
(***************************************************************************)
EXTENDS RunnerInterface, FiniteSets

CONSTANTS
    own,          \* the container of this run
    OtherRun,     \* containers that carry the label of another run
    Unlabelled,   \* containers without a run label
    Delays        \* number of retries of the forced removal

ASSUME DockerRunnerConstants ==
    /\ NULL \notin {own} \cup OtherRun \cup Unlabelled
    /\ own \notin OtherRun \cup Unlabelled
    /\ OtherRun \cap Unlabelled = {}
    /\ Delays \in Nat

Container == {own} \cup OtherRun \cup Unlabelled
Listed == {"created", "running", "exited"}

VARIABLES
    pc,        \* the next step of run()
    client,    \* the docker CLI: what it does next, or how it ended
    call,      \* the daemon's unanswered API call
    state,     \* state[c]: the container as the daemon knows it
    cidfile,   \* content of the cidfile: NULL, a container, or "garbage"
    code,      \* the client's return code, NULL while it lives
    ending,    \* how _stream_process_output ended
    remaining, \* the containers cleanup still has to remove
    attempt,   \* the retry of the forced removal
    cleanup,   \* the outcome of cleanup
    result,    \* what run() returned
    ran        \* history: the command ran

vars == <<pc, client, call, state, cidfile, code, ending, remaining, attempt, cleanup, result, ran>>

Alive == client \in {"create", "await_create", "start", "await_start", "attached"}
Goto(step) == pc' = step

(***************************************************************************)
(* The docker client and the daemon (external)                             *)
(***************************************************************************)
ClientEnds(c) == client' = "exited" /\ code' = c

ClientCreates ==
    /\ client = "create"
    /\ client' = "await_create" /\ call' = "create"
    /\ UNCHANGED <<pc, state, cidfile, code, ending, remaining, attempt, cleanup, result, ran>>

\* A client that is gone gets no answer and writes no cidfile
DaemonCreates ==
    /\ call = "create" /\ call' = "none"
    /\ \/ /\ state' = [state EXCEPT ![own] = "created"]
          /\ IF Alive THEN client' = "start" /\ cidfile' = own
                      ELSE UNCHANGED <<client, cidfile>>
          /\ UNCHANGED code
       \/ /\ IF Alive THEN ClientEnds(125) ELSE UNCHANGED <<client, code>>
          /\ UNCHANGED <<state, cidfile>>
    /\ UNCHANGED <<pc, ending, remaining, attempt, cleanup, result, ran>>

ClientStarts ==
    /\ client = "start"
    /\ client' = "await_start" /\ call' = "start"
    /\ UNCHANGED <<pc, state, cidfile, code, ending, remaining, attempt, cleanup, result, ran>>

\* A start can fail, and cannot succeed once the container was removed
DaemonStarts ==
    /\ call = "start" /\ call' = "none"
    /\ \/ /\ state[own] = "created"
          /\ state' = [state EXCEPT ![own] = "running"]
          /\ ran' = TRUE
          /\ client' = IF Alive THEN "attached" ELSE client
          /\ UNCHANGED code
       \/ /\ \E c \in DockerExit : IF Alive THEN ClientEnds(c) ELSE UNCHANGED <<client, code>>
          /\ UNCHANGED <<state, ran>>
    /\ UNCHANGED <<pc, cidfile, ending, remaining, attempt, cleanup, result>>

\* --rm removes the container some time after it ended
CommandExits ==
    /\ state[own] = "running"
    /\ state' = [state EXCEPT ![own] = "exited"]
    /\ \E c \in ExitCode : IF client = "attached" THEN ClientEnds(c) ELSE UNCHANGED <<client, code>>
    /\ UNCHANGED <<pc, call, cidfile, ending, remaining, attempt, cleanup, result, ran>>

AutoRemove ==
    /\ state[own] = "exited"
    /\ state' = [state EXCEPT ![own] = "removed"]
    /\ UNCHANGED <<pc, client, call, cidfile, code, ending, remaining, attempt, cleanup, result, ran>>

\* The host kills the client
ClientDies ==
    /\ Alive
    /\ ClientEnds(ClientKilled)
    /\ UNCHANGED <<pc, call, state, cidfile, ending, remaining, attempt, cleanup, result, ran>>

\* Another process of the host overwrites or removes the cidfile
CidfileTampered ==
    /\ pc \in {"stream", "stop", "query", "cidfile"}
    /\ cidfile' \in {NULL, "garbage"} \cup Container
    /\ UNCHANGED <<pc, client, call, state, code, ending, remaining, attempt, cleanup, result, ran>>

Outside ==
    \/ ClientCreates \/ DaemonCreates \/ ClientStarts \/ DaemonStarts
    \/ CommandExits \/ AutoRemove \/ ClientDies \/ CidfileTampered

(***************************************************************************)
(* run()                                                                   *)
(***************************************************************************)
Popen ==
    /\ pc = "popen"
    /\ \/ client' = "create" /\ Goto("stream") /\ UNCHANGED ending
       \/ ending' = "popen_failed" /\ Goto("query") /\ UNCHANGED client
    /\ UNCHANGED <<call, state, cidfile, code, remaining, attempt, cleanup, result, ran>>

\* _stream_process_output leaves its loop: end of file once the client is gone, the
\* deadline, more output than the budget, an exception, or an interrupt
StreamEnds(how) ==
    /\ pc = "stream"
    /\ how = "eof" => ~Alive
    /\ how = "budget" => ran /\ (client = "attached" \/ code \in ExitCode)
    /\ ending' = how
    /\ Goto("stop")
    /\ UNCHANGED <<client, call, state, cidfile, code, remaining, attempt, cleanup, result, ran>>

\* Mutant: the client is left alone after a timeout
Stop_LeavesClient ==
    /\ pc = "stop"
    /\ Goto("query")
    /\ UNCHANGED <<client, call, state, cidfile, code, ending, remaining, attempt, cleanup, result, ran>>

\* The client is terminated, killed if need be, and waited for.  A client that cannot be
\* reaped raises TimeoutExpired, which replaces whatever was being raised; a further
\* interrupt leaves the client alive.
Stop ==
    /\ pc = "stop"
    /\ \/ /\ client' = IF Alive THEN "stopped" ELSE client
          /\ ending' \in {ending, "error"}
       \/ ending' = "interrupt" /\ UNCHANGED client
    /\ Goto("query")
    /\ UNCHANGED <<call, state, cidfile, code, remaining, attempt, cleanup, result, ran>>

(***************************************************************************)
(* _cleanup_tracked_container                                              *)
(***************************************************************************)
CleanedUp(status) == cleanup' = status /\ Goto("finish")

\* docker ps -aq --filter label: every container of this run, removed ones excepted
MatchingContainerIds == {c \in {own} : state[c] \in Listed}

QueryFails ==
    /\ pc \in {"query", "requery"}
    /\ CleanedUp("failed")
    /\ UNCHANGED <<client, call, state, cidfile, code, ending, remaining, attempt, result, ran>>

Query ==
    /\ pc = "query"
    /\ remaining' = MatchingContainerIds
    /\ Goto("cidfile")
    /\ UNCHANGED <<client, call, state, cidfile, code, ending, attempt, cleanup, result, ran>>

\* A container the query missed is inspected: our label adds it, another run's label is a
\* failure, a missing label or container is ignored; the inspection itself may fail
CheckCidfile ==
    /\ pc = "cidfile"
    /\ LET unknown == cidfile \in Container \ remaining
           present == unknown /\ state[cidfile] \in Listed IN
       \/ /\ ~present \/ cidfile \in Unlabelled \cup {own}
          /\ remaining' = IF present /\ cidfile = own THEN remaining \cup {own} ELSE remaining
          /\ Goto("remove") /\ UNCHANGED cleanup
       \/ present /\ cidfile \in OtherRun /\ CleanedUp("failed") /\ UNCHANGED remaining
       \/ unknown /\ Goto("remove") /\ UNCHANGED <<remaining, cleanup>>
       \/ unknown /\ CleanedUp("failed") /\ UNCHANGED remaining
    /\ UNCHANGED <<client, call, state, cidfile, code, ending, attempt, result, ran>>

\* docker container rm --force for each of them: the daemon may refuse without run()
\* noticing, and a call that cannot be made at all ends cleanup
Remove ==
    /\ pc = "remove"
    /\ \E gone \in SUBSET remaining :
          /\ state' = [c \in Container |-> IF c \in gone /\ state[c] \in Listed THEN "removed" ELSE state[c]]
          /\ \/ Goto("requery") /\ UNCHANGED cleanup
             \/ remaining # {} /\ CleanedUp("failed")
    /\ UNCHANGED <<client, call, cidfile, code, ending, remaining, attempt, result, ran>>

\* Mutants: removal is retried until it works; the first removal is taken for granted
Requery_Forever ==
    /\ pc = "requery"
    /\ remaining' = MatchingContainerIds
    /\ Goto(IF remaining' = {} THEN "unlink" ELSE "remove")
    /\ UNCHANGED <<client, call, state, cidfile, code, ending, attempt, cleanup, result, ran>>

Requery_Trusts ==
    /\ pc = "requery"
    /\ Goto("unlink")
    /\ UNCHANGED <<client, call, state, cidfile, code, ending, remaining, attempt, cleanup, result, ran>>

Requery ==
    /\ pc = "requery"
    /\ remaining' = MatchingContainerIds
    /\ \/ remaining' = {} /\ Goto("unlink") /\ UNCHANGED <<attempt, cleanup>>
       \/ remaining' # {} /\ attempt < Delays /\ attempt' = attempt + 1 /\ Goto("remove")
          /\ UNCHANGED cleanup
       \/ remaining' # {} /\ attempt = Delays /\ CleanedUp("failed") /\ UNCHANGED attempt
    /\ UNCHANGED <<client, call, state, cidfile, code, ending, result, ran>>

Unlink ==
    /\ pc = "unlink"
    /\ \/ cidfile' = NULL /\ CleanedUp("ok")
       \/ CleanedUp("failed") /\ UNCHANGED cidfile
    /\ UNCHANGED <<client, call, state, code, ending, remaining, attempt, result, ran>>

\* An interrupt during cleanup: nothing is returned
CleanupInterrupted ==
    /\ pc \in {"query", "cidfile", "remove", "requery", "unlink"}
    /\ Goto("raised")
    /\ UNCHANGED <<client, call, state, cidfile, code, ending, remaining, attempt, cleanup, result, ran>>

Result ==
    CASE ending = "popen_failed" -> FailedResult("failed", "not_started", cleanup)
      [] ending = "error"        -> FailedResult("failed", "unknown", cleanup)
      [] ending = "timed_out"    -> FailedResult("timed_out", "unknown", cleanup)
      [] ending = "budget"       -> FailedResult("output_budget_exceeded", "confirmed", cleanup)
      [] ending = "eof"          -> NormalResult(code, cleanup)

\* The result, or the interrupt raised again after cleanup
Finish ==
    /\ pc = "finish"
    /\ IF ending = "interrupt" THEN Goto("raised") /\ UNCHANGED result
       ELSE Goto("returned") /\ result' = Result
    /\ UNCHANGED <<client, call, state, cidfile, code, ending, remaining, attempt, cleanup, ran>>

Run ==
    \/ Popen \/ \E how \in {"eof", "timed_out", "budget", "error", "interrupt"} : StreamEnds(how)
    \/ Stop \/ QueryFails \/ Query \/ CheckCidfile \/ Remove \/ Requery \/ Unlink
    \/ CleanupInterrupted \/ Finish

Ended == pc \in {"returned", "raised"}

Init ==
    /\ pc = "popen" /\ client = "none" /\ call = "none"
    /\ state = [c \in Container |-> IF c = own THEN "absent" ELSE "running"]
    /\ cidfile = NULL /\ code = NULL /\ ending = NULL
    /\ remaining = {} /\ attempt = 0
    /\ cleanup = "not_attempted" /\ result = NULL /\ ran = FALSE

Next == Run \/ Outside \/ (Ended /\ UNCHANGED vars)

Spec == Init /\ [][Next]_vars

\* Every call run() makes has a timeout, so run() itself always proceeds
FairSpec == Spec /\ WF_vars(Run)

(***************************************************************************)
(* Properties                                                              *)
(***************************************************************************)
\* Every variable of run(), its client and its daemon has its type.
TypeOK ==
    /\ pc \in {"popen", "stream", "stop", "query", "cidfile", "remove", "requery", "unlink", "finish",
               "returned", "raised"}
    /\ client \in {"none", "create", "await_create", "start", "await_start", "attached", "exited",
                   "stopped"}
    /\ call \in {"none", "create", "start"}
    /\ state \in [Container -> {"absent", "removed"} \cup Listed]
    /\ cidfile \in Container \cup {NULL, "garbage"}
    /\ code \in ExitCode \cup DockerExit \cup {ClientKilled, NULL}
    /\ ending \in {NULL, "popen_failed", "eof", "timed_out", "budget", "error", "interrupt"}
    /\ remaining \subseteq Container
    /\ attempt \in 0 .. Delays
    /\ cleanup \in CleanupStatus \cup {"not_attempted"}
    /\ result \in RunnerResult \cup {NULL}
    /\ ran \in BOOLEAN

\* run() returns only results that sandbox-run expects for a command that ran, or did not.
ResultExpected ==
    result # NULL =>
        \/ ending = "popen_failed" /\ ~ran /\ result.start = "not_started"
        \/ result \in PossibleResult(ran, cleanup)

\* Whatever the cidfile says, cleanup touches no container of anybody else.
OthersUntouched == \A c \in Container \ {own} : state[c] = "running"

\* A confirmed cleanup leaves no container of this run running or exited.
CleanupConfirmsRemoval ==
    result # NULL /\ result.cleanup = "ok" => state[own] \notin {"running", "exited"}

\* What run() returns is one of the results sandbox-run expects and true of the containers: its own is gone when
\* cleanup says so, those of others were not touched (run, _cleanup_tracked_container).
ResultIsTrue == TypeOK /\ ResultExpected /\ OthersUntouched /\ CleanupConfirmsRemoval

\* Once a result is returned the command cannot start any more, unless the result itself
\* admits it: cleanup failed and the start was not observed.
NoStartAfterReturn == [][ran' # ran /\ pc = "returned" => MayStillStart(result)]_vars

\* run() returns or raises: streaming, stopping and retrying all come to an end.
RunEnds == <>Ended
=============================================================================
