------------------------- MODULE DockerRunnerProofs -------------------------
(***************************************************************************)
(* DockerRunner.run, for any other containers on the host, any exit codes  *)
(* and any number of retries.                                              *)
(***************************************************************************)
EXTENDS DockerRunner, TLAPS

Endings == {"popen_failed", "eof", "timed_out", "budget", "error", "interrupt"}

\* The container is not there, and no unanswered call can start it
Gone == state[own] \notin {"running", "exited"} /\ (state[own] = "created" => call # "start")

(***************************************************************************)
(* The inductive invariant                                                 *)
(***************************************************************************)
\* The daemon owes the client at most one answer, and the container is as far as the calls brought it
CallsMatchState ==
    /\ call = "create" => client \in {"await_create", "exited", "stopped"} /\ state[own] = "absent"
    /\ call = "start" => client \in {"await_start", "exited", "stopped"} /\ state[own] \in {"created", "removed"}
    /\ client \in {"none", "create"} => call = "none" /\ state[own] = "absent"
    /\ client = "start" => call = "none" /\ state[own] \in {"created", "removed"}
    /\ client = "await_create" => call = "create"
    /\ client = "await_start" => call = "start"
    /\ client = "attached" => ran

\* The command ran exactly when the container got past "created"
RanMatchesState ==
    /\ ran => call = "none" /\ client \in {"attached", "exited", "stopped"}
    /\ ran => state[own] \notin {"absent", "created"}
    /\ state[own] \in {"running", "exited"} => ran

\* The code of a client that ended by itself is the daemon's last word
CodeIsTrue ==
    client = "exited" =>
        \/ code = ClientKilled
        \/ ran /\ code \in ExitCode
        \/ ~ran /\ call = "none" /\ code \in DockerExit

\* How far run() got tells what became of the client
EndingMatchesClient ==
    /\ pc = "popen" => client = "none"
    /\ pc \in {"stream", "stop"} => client \notin {"none", "stopped"}
    /\ pc \notin {"popen", "stream"} =>
          /\ ending \in Endings
          /\ ending = "popen_failed" => client = "none"
          /\ ending = "eof" => client = "exited"
          /\ ending = "budget" => ran
    /\ pc \notin {"popen", "stream", "stop"} /\ ending # "interrupt" => ~Alive

\* Cleanup has in hand, and touches, this run's container only
OnlyOwn == remaining \subseteq {own} /\ OthersUntouched

\* Cleanup is confirmed only where nothing is left and nothing can come any more
ConfirmedIsGone ==
    /\ cleanup = "ok" => pc \in {"finish", "returned", "raised"}
    /\ ending # "interrupt" /\ (pc = "unlink" \/ cleanup = "ok") => Gone

\* The result is made from what is known at the end, and stays true
ResultIsFinal ==
    /\ pc # "returned" => result = NULL
    /\ pc = "returned" => ending # "interrupt" /\ result = Result
    /\ pc \in {"finish", "returned"} => cleanup \in CleanupStatus

IInv ==
    /\ TypeOK /\ CallsMatchState /\ RanMatchesState /\ CodeIsTrue /\ EndingMatchesClient /\ OnlyOwn
    /\ ConfirmedIsGone /\ ResultIsFinal

\* Names are no None
LEMMA OwnFacts ==
    /\ own \in Container /\ NULL \notin Container
    /\ \A c \in OtherRun \cup Unlabelled : c # own /\ c \in Container
BY DockerRunnerConstants DEF Container

USE DEF Alive, Goto, ClientEnds, CleanedUp, Gone, Listed, CleanupStatus, Endings

\* Client, daemon and host cannot disturb what run() knows.
LEMMA OutsidePreserves ==
    ASSUME IInv, Outside
    PROVE  IInv'
<1> USE OwnFacts
<1>1. CASE ClientCreates
    BY <1>1 DEF ClientCreates, IInv, TypeOK, CallsMatchState, RanMatchesState, CodeIsTrue, EndingMatchesClient,
                OnlyOwn, OthersUntouched, ConfirmedIsGone, ResultIsFinal, Result
<1>2. CASE DaemonCreates
    BY <1>2 DEF DaemonCreates, IInv, TypeOK, CallsMatchState, RanMatchesState, CodeIsTrue, EndingMatchesClient,
                OnlyOwn, OthersUntouched, ConfirmedIsGone, ResultIsFinal, Result, DockerExit
<1>3. CASE ClientStarts
    BY <1>3 DEF ClientStarts, IInv, TypeOK, CallsMatchState, RanMatchesState, CodeIsTrue, EndingMatchesClient,
                OnlyOwn, OthersUntouched, ConfirmedIsGone, ResultIsFinal, Result
<1>4. CASE DaemonStarts
    <2> USE DEF IInv, TypeOK, CallsMatchState, RanMatchesState, CodeIsTrue, EndingMatchesClient, OnlyOwn,
                OthersUntouched, ConfirmedIsGone, ResultIsFinal, Result
    <2>1. CASE /\ state[own] = "created" /\ state' = [state EXCEPT ![own] = "running"] /\ ran' = TRUE
               /\ client' = (IF Alive THEN "attached" ELSE client) /\ UNCHANGED code
        BY <1>4, <2>1 DEF DaemonStarts
    <2>2. CASE UNCHANGED <<state, ran>> /\ ~Alive /\ UNCHANGED <<client, code>>
        BY <1>4, <2>2 DEF DaemonStarts
    <2>3. CASE UNCHANGED <<state, ran>> /\ Alive /\ \E c \in DockerExit : ClientEnds(c)
        BY <1>4, <2>3 DEF DaemonStarts
    <2> QED
        BY <1>4, <2>1, <2>2, <2>3 DEF DaemonStarts
<1>5. CASE CommandExits
    BY <1>5 DEF CommandExits, IInv, TypeOK, CallsMatchState, RanMatchesState, CodeIsTrue, EndingMatchesClient,
                OnlyOwn, OthersUntouched, ConfirmedIsGone, ResultIsFinal, Result
<1>6. CASE AutoRemove
    BY <1>6 DEF AutoRemove, IInv, TypeOK, CallsMatchState, RanMatchesState, CodeIsTrue, EndingMatchesClient,
                OnlyOwn, OthersUntouched, ConfirmedIsGone, ResultIsFinal, Result
<1>7. CASE ClientDies
    BY <1>7 DEF ClientDies, IInv, TypeOK, CallsMatchState, RanMatchesState, CodeIsTrue, EndingMatchesClient,
                OnlyOwn, OthersUntouched, ConfirmedIsGone, ResultIsFinal, Result
<1>8. CASE CidfileTampered
    BY <1>8 DEF CidfileTampered, IInv, TypeOK, CallsMatchState, RanMatchesState, CodeIsTrue, EndingMatchesClient,
                OnlyOwn, OthersUntouched, ConfirmedIsGone, ResultIsFinal, Result
<1> QED
    BY <1>1, <1>2, <1>3, <1>4, <1>5, <1>6, <1>7, <1>8 DEF Outside

\* Nor can the steps of run() and of its cleanup.
LEMMA RunPreserves ==
    ASSUME IInv, Run
    PROVE  IInv'
<1> USE OwnFacts
<1>1. CASE Popen
    BY <1>1 DEF Popen, IInv, TypeOK, CallsMatchState, RanMatchesState, CodeIsTrue, EndingMatchesClient,
                OnlyOwn, OthersUntouched, ConfirmedIsGone, ResultIsFinal
<1>2. ASSUME NEW how \in {"eof", "timed_out", "budget", "error", "interrupt"}, StreamEnds(how)
      PROVE  IInv'
    BY <1>2 DEF StreamEnds, IInv, TypeOK, CallsMatchState, RanMatchesState, CodeIsTrue, EndingMatchesClient,
                OnlyOwn, OthersUntouched, ConfirmedIsGone, ResultIsFinal
<1>3. CASE Stop
    BY <1>3 DEF Stop, IInv, TypeOK, CallsMatchState, RanMatchesState, CodeIsTrue, EndingMatchesClient,
                OnlyOwn, OthersUntouched, ConfirmedIsGone, ResultIsFinal
<1>4. CASE QueryFails
    BY <1>4 DEF QueryFails, IInv, TypeOK, CallsMatchState, RanMatchesState, CodeIsTrue, EndingMatchesClient,
                OnlyOwn, OthersUntouched, ConfirmedIsGone, ResultIsFinal
<1>5. CASE Query
    BY <1>5 DEF Query, MatchingContainerIds, IInv, TypeOK, CallsMatchState, RanMatchesState, CodeIsTrue,
                EndingMatchesClient, OnlyOwn, OthersUntouched, ConfirmedIsGone, ResultIsFinal
<1>6. CASE CheckCidfile
    BY <1>6 DEF CheckCidfile, IInv, TypeOK, CallsMatchState, RanMatchesState, CodeIsTrue, EndingMatchesClient,
                OnlyOwn, OthersUntouched, ConfirmedIsGone, ResultIsFinal
<1>7. CASE Remove
    BY <1>7 DEF Remove, IInv, TypeOK, CallsMatchState, RanMatchesState, CodeIsTrue, EndingMatchesClient,
                OnlyOwn, OthersUntouched, ConfirmedIsGone, ResultIsFinal
<1>8. CASE Requery
    BY <1>8, DockerRunnerConstants
    DEF Requery, MatchingContainerIds, IInv, TypeOK, CallsMatchState, RanMatchesState, CodeIsTrue,
        EndingMatchesClient, OnlyOwn, OthersUntouched, ConfirmedIsGone, ResultIsFinal
<1>9. CASE Unlink
    BY <1>9 DEF Unlink, IInv, TypeOK, CallsMatchState, RanMatchesState, CodeIsTrue, EndingMatchesClient,
                OnlyOwn, OthersUntouched, ConfirmedIsGone, ResultIsFinal
<1>10. CASE CleanupInterrupted
    BY <1>10 DEF CleanupInterrupted, IInv, TypeOK, CallsMatchState, RanMatchesState, CodeIsTrue,
                 EndingMatchesClient, OnlyOwn, OthersUntouched, ConfirmedIsGone, ResultIsFinal
<1>11. CASE Finish
    <2>1. CASE ending = "interrupt"
        BY <1>11, <2>1
        DEF Finish, IInv, TypeOK, CallsMatchState, RanMatchesState, CodeIsTrue, EndingMatchesClient,
            OnlyOwn, OthersUntouched, ConfirmedIsGone, ResultIsFinal
    <2>2. CASE ending # "interrupt"
        <3>1. result' = Result /\ pc' = "returned" /\ Result' = Result
            BY <1>11, <2>2 DEF Finish, Result
        <3>2. ending = "eof" => code \in Int
            <4>1. ending = "eof" => client = "exited"
                BY <1>11 DEF Finish, IInv, EndingMatchesClient
            <4>2. ending = "eof" => code \in {ClientKilled} \cup ExitCode \cup DockerExit
                BY <4>1, Zenon DEF IInv, CodeIsTrue
            <4>3. ClientKilled \in Int
                BY DEF ClientKilled
            <4>4. ExitCode \subseteq Int
                BY RunnerConstants
            <4>5. DockerExit \subseteq Int
                BY DEF DockerExit
            <4> QED
                BY <4>2, <4>3, <4>4, <4>5
        <3>3. Result \in RunnerResult
            BY <1>11, <2>2, <3>2
            DEF Finish, IInv, TypeOK, EndingMatchesClient, Result, RunnerResult, FailedResult, NormalResult
        <3> QED
            BY <1>11, <2>2, <3>1, <3>3
            DEF Finish, IInv, TypeOK, CallsMatchState, RanMatchesState, CodeIsTrue, EndingMatchesClient,
                OnlyOwn, OthersUntouched, ConfirmedIsGone, ResultIsFinal
    <2> QED
        BY <2>1, <2>2
<1> QED
    BY <1>1, <1>2, <1>3, <1>4, <1>5, <1>6, <1>7, <1>8, <1>9, <1>10, <1>11 DEF Run

(***************************************************************************)
(* The theorems                                                            *)
(***************************************************************************)
\* The invariant holds initially and every step of run(), client and daemon preserves it.
THEOREM Invariance == Spec => []IInv
<1>1. Init => IInv
    <2> SUFFICES ASSUME Init PROVE IInv
        OBVIOUS
    <2>1. TypeOK
        <3>1. state \in [Container -> {"absent", "removed"} \cup Listed]
            BY DEF Init
        <3>2. attempt \in 0 .. Delays
            BY DockerRunnerConstants DEF Init
        <3>3. ran \in BOOLEAN
            BY DEF Init
        <3> QED
            BY <3>1, <3>2, <3>3 DEF Init, TypeOK
    <2>2. CallsMatchState /\ CodeIsTrue /\ EndingMatchesClient /\ ConfirmedIsGone /\ ResultIsFinal
        BY OwnFacts DEF Init, CallsMatchState, CodeIsTrue, EndingMatchesClient, ConfirmedIsGone, ResultIsFinal
    <2>3. RanMatchesState
        BY OwnFacts DEF Init, RanMatchesState
    <2>4. OnlyOwn
        BY DEF Init, OnlyOwn, OthersUntouched
    <2> QED
        BY <2>1, <2>2, <2>3, <2>4 DEF IInv
<1>2. IInv /\ [Next]_vars => IInv'
    <2> SUFFICES ASSUME IInv, [Next]_vars PROVE IInv'
        OBVIOUS
    <2>1. CASE UNCHANGED vars
        BY <2>1 DEF vars, IInv, TypeOK, CallsMatchState, RanMatchesState, CodeIsTrue, EndingMatchesClient, OnlyOwn,
                    OthersUntouched, ConfirmedIsGone, ResultIsFinal, Result
    <2> QED
        BY <2>1, OutsidePreserves, RunPreserves DEF Next
<1> QED
    BY <1>1, <1>2, PTL DEF Spec

\* What DockerRunner.run returns is one of the results sandbox-run expects and true of the containers, whatever
\* the cidfile says and however late the daemon answers.
THEOREM ResultTrue == Spec => []ResultIsTrue
<1>1. IInv => ResultIsTrue
    <2> SUFFICES ASSUME IInv PROVE ResultIsTrue
        OBVIOUS
    <2>1. TypeOK /\ OthersUntouched
        BY DEF IInv, OnlyOwn
    <2>2. CASE result = NULL
        BY <2>1, <2>2 DEF ResultIsTrue, ResultExpected, CleanupConfirmsRemoval
    <2>3. CASE result # NULL
        <3>1. pc = "returned" /\ ending \in Endings \ {"interrupt"} /\ result = Result
            BY <2>3 DEF IInv, ResultIsFinal, EndingMatchesClient
        <3>2. ending = "popen_failed" => ~ran
            BY <3>1 DEF IInv, EndingMatchesClient, RanMatchesState
        <3>3. ending = "budget" => ran
            BY <3>1 DEF IInv, EndingMatchesClient
        <3>4. ending = "eof" => \/ code = ClientKilled
                                \/ ran /\ code \in ExitCode
                                \/ ~ran /\ code \in DockerExit
            <4>1. ending = "eof" => client = "exited"
                BY <3>1 DEF IInv, EndingMatchesClient
            <4> QED
                BY <4>1, Zenon DEF IInv, CodeIsTrue
        <3>5. ResultExpected
            BY <3>1, <3>2, <3>3, <3>4 DEF ResultExpected, Result, PossibleResult, FailedResult
        <3>6. result.cleanup = cleanup
            BY <3>1 DEF Result, FailedResult, NormalResult
        <3>7. CleanupConfirmsRemoval
            BY <3>1, <3>6 DEF CleanupConfirmsRemoval, IInv, ConfirmedIsGone
        <3> QED
            BY <2>1, <3>5, <3>7 DEF ResultIsTrue
    <2> QED
        BY <2>2, <2>3
<1> QED
    BY <1>1, Invariance, PTL

\* After DockerRunner.run returned, the command cannot start any more unless the result admits it.
THEOREM NoLateStart == Spec => NoStartAfterReturn
<1>1. ASSUME IInv, [Next]_vars, ran' # ran, pc = "returned"
      PROVE  MayStillStart(result)
    <2>1. call = "start" /\ state[own] = "created"
        BY <1>1 DEF Next, Run, Popen, StreamEnds, Stop, QueryFails, Query, CheckCidfile, Remove, Requery, Unlink,
                    CleanupInterrupted, Finish, Outside, ClientCreates, DaemonCreates, ClientStarts, DaemonStarts,
                    CommandExits, AutoRemove, ClientDies, CidfileTampered, vars
    <2>2. ending \in Endings \ {"interrupt"} /\ result = Result /\ cleanup = "failed"
        BY <1>1, <2>1 DEF IInv, ResultIsFinal, EndingMatchesClient, ConfirmedIsGone
    <2>3. ending \notin {"popen_failed", "budget"}
        BY <1>1, <2>1 DEF IInv, EndingMatchesClient, CallsMatchState, RanMatchesState
    <2>4. ending = "eof" => code = ClientKilled
        BY <1>1, <2>1 DEF IInv, EndingMatchesClient, CodeIsTrue, RanMatchesState
    <2> QED
        BY <2>2, <2>3, <2>4 DEF MayStillStart, Result, FailedResult, NormalResult
<1>2. IInv /\ [Next]_vars => [ran' # ran /\ pc = "returned" => MayStillStart(result)]_vars
    BY <1>1
<1> QED
    BY <1>2, Invariance, PTL DEF Spec, NoStartAfterReturn
=============================================================================
