--------------------------- MODULE SandboxCommand ---------------------------
(***************************************************************************)
(* run_sandbox: the phases of "rhd sandbox".  One process plans, copies    *)
(* the repository to a disposable workspace, and then runs containers with *)
(* "docker run": the preflight probes, a tracing smoke test, the           *)
(* dependency fetch (with network), and, when every gate before them is    *)
(* open, the approved install and runtime commands of the repository.      *)
(*                                                                         *)
(* A container is a process of its own.  It writes the workspace and the   *)
(* observer's files, which it shares with the other containers, and it     *)
(* outlives a client that was killed at its timeout.  Somebody else may    *)
(* move the image's tag meanwhile.                                         *)
(***************************************************************************)
EXTENDS SandboxPlan, ArtifactRescan, Integers

CONSTANTS
    Inputs,             \* the calls: [repo, vendored, approval, image, preflight, smoke, phase1, phase2, phase3]
    Fetched,            \* artifacts a dependency fetch can write
    Written,            \* artifacts a command of the repository can write
    Events,             \* what a repository command can do that an observer looks for
    Materializations,   \* outcomes of materialize_disposable_workspace
    TimeoutOutput,      \* whether the output captured before a timeout was empty: a set of BOOLEAN
    Logs,               \* outcomes of reading the observers' files: "readable", "no_strace", "no_hooks", "neither",
                        \* or "garbled", which raises
    MaxRetags           \* bound: how often the tag is moved

VARIABLES
    inp,           \* the call
    pc,
    plan,          \* [commands, fetch, languages, approval], NULL before
    policy,        \* the image policy's decision
    tag,           \* the image the reference denotes in the daemon
    retags,
    materialized,  \* materialization_status
    dir,           \* the sandbox directory: "none", "present", "removed", "left"
    files,         \* the artifacts in the workspace and caches
    observer,      \* [hooks, syscall, pass_possible]
    phases,        \* the reports of the docker phases
    rescan,
    queue,         \* the commands the current phase still has to run, NULL before it begins
    client,        \* the container "docker run" waits for, 0 if none
    containers,    \* every container ever started
    sink,          \* the observer's files: [via, event], via a runtime hook or strace
    report,        \* the checks, NULL until the report is made
    exit,
    scanned,       \* history: the artifacts the rescan saw
    written,       \* history: the artifacts repository commands wrote
    timedOut       \* history: a client was killed at its timeout

vars == <<inp, pc, plan, policy, tag, retags, materialized, dir, files, observer, phases, rescan, queue, client,
          containers, sink, report, exit, scanned, written, timedOut>>
world == <<tag, retags>>
history == <<scanned, written, timedOut>>

DockerPhases == {"preflight", "smoke", "phase1", "phase2", "phase3"}
Dynamic == {"smoke", "phase2", "phase3"}
RepoPhases == {"phase2", "phase3"}
After == [preflight |-> "smoke", smoke |-> "phase1", phase1 |-> "rescan", phase2 |-> "phase3", phase3 |-> "cleanup"]

BlockEvents == {"network", "secret", "delete_outside"}
NoticeEvents == {"process", "env_sweep", "delete_inside"}
Outcomes == {"completed", "partial", "failed", "mkdtemp", "loop"}
DigestImage == "digest"   \* the image a digest-pinned reference denotes

Result(status) == [status |-> status, performed |-> FALSE, results |-> <<>>]
Outcome(status) ==
    [status |-> status, observed |-> 0, seen |-> {}, log |-> FALSE, error |-> FALSE, read_error |-> FALSE,
     pass_possible |-> FALSE]
PreflightCommands == <<Command("preflight", "required", "true"), Command("preflight", "required", "id"),
                       Command("preflight", "optional", "strace-version")>>
SmokeCommands == <<Command("smoke", "strace_target_wrap_smoke", "python-c")>>
Commands == Range(CommandOrder) \cup Range(PreflightCommands) \cup Range(SmokeCommands)

\* None is no number and no list of commands; a repository has finitely many files
ASSUME SandboxCommandConstants ==
    /\ NULL \notin Int
    /\ NULL \notin Seq(Commands)
    /\ Events \subseteq BlockEvents \cup NoticeEvents
    /\ Materializations \subseteq Outcomes
    /\ Logs \subseteq {"readable", "no_strace", "no_hooks", "neither", "garbled"}
    /\ MaxRetags \in Nat
    /\ \A x \in Inputs : IsFiniteSet(x.repo.requirements)
    /\ \A x \in Inputs : x.repo.pyproject # NULL =>
          x.repo.pyproject.fixture = NULL \/ x.repo.pyproject.fixture \in FixtureArgvs

Init ==
    /\ inp \in Inputs
    /\ pc = "plan"
    /\ plan = NULL
    /\ policy = NULL
    /\ tag \in ImageIds
    /\ retags = 0
    /\ materialized = "not_started"
    /\ dir = "none"
    /\ files = {}
    /\ observer = [hooks |-> FALSE, syscall |-> FALSE, pass_possible |-> FALSE]
    /\ phases = [p \in DockerPhases |-> Result("not_requested")]
    /\ rescan = [status |-> "skipped", performed |-> FALSE, findings |-> {}]
    /\ queue = NULL
    /\ client = 0
    /\ containers = <<>>
    /\ sink = {}
    /\ report = NULL
    /\ exit = NULL
    /\ scanned = {}
    /\ written = {}
    /\ timedOut = FALSE

(***************************************************************************)
(* Planning and the workspace                                              *)
(***************************************************************************)
\* docker image inspect may fail; it is asked only for a local image with a full expected ID
MakePlan ==
    /\ pc = "plan"
    /\ \E actual \in {tag, NULL} :
        LET decided == evaluate_image_policy(inp.image, actual)
            commands == detect_execution_plan(inp.repo)
            fetch == build_fetch_plan(inp.repo)
        IN /\ policy' = decided
           /\ plan' = [commands |-> commands, fetch |-> fetch,
                       approval |-> apply_approvals(commands, inp.approval, inp.image, decided)]
           /\ phases' = [phases EXCEPT !["phase1"] =
                             IF fetch.not_required THEN Result("not_required") ELSE @]
    /\ pc' = "materialize"
    /\ UNCHANGED <<inp, world, materialized, dir, files, observer, rescan, queue, client, containers, sink, report,
                   exit, history>>

\* materialize_disposable_workspace runs before the try block: what it raises is not followed by a cleanup.
\* "mkdtemp" is an OSError before there is a directory, "loop" a RuntimeError of Path.resolve.
Materialize ==
    /\ pc = "materialize"
    /\ \E outcome \in Materializations :
        /\ materialized' = IF outcome \in {"mkdtemp", "loop"} THEN "not_started" ELSE outcome
        /\ dir' = IF outcome = "mkdtemp" THEN "none" ELSE "present"
        /\ files' \in (IF outcome = "completed" THEN {inp.vendored} ELSE SUBSET inp.vendored)
        /\ observer' = [observer EXCEPT !.hooks = detected_languages(inp.repo) # {}]
        /\ pc' = IF outcome \in {"mkdtemp", "loop"} THEN "raised" ELSE "preflight"
        /\ exit' = IF outcome \in {"mkdtemp", "loop"} THEN 1 ELSE exit
    /\ UNCHANGED <<inp, plan, policy, world, phases, rescan, queue, client, containers, sink, report, history>>

(***************************************************************************)
(* The gates                                                               *)
(***************************************************************************)
path_resolution_completed == materialized \in {"completed", "partial"}
PreflightPassed == phases["preflight"].status = "passed"

\* Mutant: a fetch that failed clears the gate too
phase1_satisfies_dynamic_gate_Failed(phase1) == phase1.status \in {"passed", "not_required", "failed"}
phase1_satisfies_dynamic_gate(phase1) == phase1.status \in {"passed", "not_required"}

phase1_5_satisfies_dynamic_gate(phase1_5) == phase1_5.status \in {"passed", "warn", "not_required"}

CommandsOf(phase) ==
    CASE phase = "preflight" -> PreflightCommands
      [] phase = "smoke" -> SmokeCommands
      [] phase = "phase1" -> plan.fetch.commands
      [] phase \in RepoPhases ->
            LET approved == approved_commands_for_phase(plan.approval.commands, IF phase = "phase2" THEN Phase2 ELSE Phase3)
            IN [i \in DOMAIN approved |-> approved[i].command]

Gate(phase) ==
    /\ policy.allowed
    /\ path_resolution_completed
    /\ phase # "preflight" => PreflightPassed
    /\ phase = "smoke" => observer.syscall
    /\ phase = "phase1" => phases["phase1"].status # "not_required" /\ plan.fetch.commands # <<>>
    /\ phase \in RepoPhases =>
        /\ phase1_satisfies_dynamic_gate(phases["phase1"])
        /\ phase1_5_satisfies_dynamic_gate(rescan)
        /\ observer.hooks
        /\ CommandsOf(phase) # <<>>

\* A phase that was not asked for, or whose gate is closed, runs nothing
Begin ==
    /\ pc \in DockerPhases
    /\ queue = NULL
    /\ IF inp[pc] /\ Gate(pc)
       THEN /\ queue' = CommandsOf(pc)
            /\ UNCHANGED <<pc, phases>>
       ELSE /\ phases' = IF inp[pc] /\ phases[pc].status # "not_required"
                         THEN [phases EXCEPT ![pc] = Result("skipped")] ELSE phases
            /\ pc' = After[pc]
            /\ UNCHANGED queue
    /\ UNCHANGED <<inp, plan, policy, world, materialized, dir, files, observer, rescan, client, containers, sink,
                   report, exit, history>>

(***************************************************************************)
(* One "docker run"                                                        *)
(***************************************************************************)
Live(network) == {i \in DOMAIN containers : containers[i].live /\ containers[i].network \in network}
Ready == pc \in DockerPhases /\ client = 0 /\ queue # NULL /\ queue # <<>>

\* run_dynamic_phase clears the observer's files before a command; that they could not be is only a limitation
Cleared == IF pc \in Dynamic THEN {{}, sink} ELSE {sink}

Launch ==
    /\ Ready
    /\ sink' \in Cleared
    /\ containers' = Append(containers,
           [phase |-> pc, command |-> Head(queue), live |-> TRUE, acted |-> FALSE, did |-> {}, hooked |-> {},
            network |-> IF pc = "phase1" THEN "bridge" ELSE "none",
            image |-> IF inp.image.kind = "digest" THEN DigestImage ELSE tag,
            traced |-> pc \in Dynamic /\ observer.syscall,
            base |-> files, beside |-> Live({"bridge"}) # {}, clean |-> sink' = {} /\ Live({"bridge", "none"}) = {}])
    /\ client' = Len(containers')
    /\ UNCHANGED <<inp, pc, plan, policy, world, materialized, dir, files, observer, phases, rescan, queue, report, exit,
                   history>>

\* _activate_observer_from_preflight: the third probe's result decides
activate_observer_from_preflight(results) ==
    LET found == Len(results) = 3 /\ results[3].status = "passed"
    IN [observer EXCEPT !.syscall = found, !.pass_possible = found /\ observer.hooks]

End(status, performed, results) ==
    /\ phases' = [phases EXCEPT ![pc] = [status |-> status, performed |-> performed, results |-> results]]
    /\ observer' = IF pc = "preflight" THEN activate_observer_from_preflight(results) ELSE observer
    /\ queue' = NULL
    /\ pc' = After[pc]

Continue(result) ==
    /\ phases' = [phases EXCEPT ![pc].results = Append(@, result)]
    /\ queue' = Tail(queue)
    /\ UNCHANGED <<pc, observer>>

Results == phases[pc].results
Leave(i) == containers' = [containers EXCEPT ![i].live = FALSE]

\* No docker binary, or another OSError of the host: the phase counts as not performed
HostFails ==
    /\ Ready
    /\ sink' \in Cleared
    /\ End("failed", FALSE, Append(Results, Outcome("host_error")))
    /\ UNCHANGED <<inp, plan, policy, world, materialized, dir, files, rescan, client, containers, report, exit, history>>

\* _combined_observer_summary: an unreadable syscall log loses its events, not that there is a log.  An unreadable
\* event file of the hooks counts as one without events; its read_error is reported, and no status asks for it.
combined_observer_summary(reading) ==
    LET hooks == {r.event : r \in {x \in sink : x.via = "hook"}}
        strace == {r.event : r \in {x \in sink : x.via = "strace"}}
    IN [seen |-> (IF reading \in {"no_hooks", "neither"} THEN {} ELSE hooks)
                  \cup (IF reading \in {"no_strace", "neither"} THEN {} ELSE strace \ {"log"}),
        log |-> strace # {},
        error |-> reading \in {"no_strace", "neither"} /\ strace # {},
        read_error |-> reading \in {"no_hooks", "neither"} /\ hooks # {}]

\* Mutant: a missing or unreadable syscall log does not degrade the result
DynamicStatus_NoLogNeeded(summary, code) ==
    IF summary.seen \cap BlockEvents # {} THEN "observer_blocked"
    ELSE IF summary.seen \cap NoticeEvents # {} THEN "observer_warn"
    ELSE IF code # 0 THEN "non_zero_exit"
    ELSE IF ~ observer.pass_possible THEN "observer_degraded"
    ELSE "passed"
DynamicStatus(summary, code) ==
    IF summary.seen \cap BlockEvents # {} THEN "observer_blocked"
    ELSE IF summary.seen \cap NoticeEvents # {} THEN "observer_warn"
    ELSE IF observer.syscall /\ (summary.error \/ ~ summary.log) THEN "observer_degraded"
    ELSE IF code # 0 THEN "non_zero_exit"
    ELSE IF ~ observer.pass_possible THEN "observer_degraded"
    ELSE "passed"

DynamicResult(status, summary, pass_possible) ==
    [status |-> status, observed |-> client, seen |-> summary.seen, log |-> summary.log, error |-> summary.error,
     read_error |-> summary.read_error, pass_possible |-> pass_possible]

\* What an exception leaves to do is the finally clause
Unwind ==
    /\ pc' = "unwinding"
    /\ UNCHANGED <<phases, observer, queue>>

\* The container ended and the client answers its code
Return(code) ==
    /\ client # 0
    /\ Leave(client)
    /\ client' = 0
    /\ \/ /\ pc = "preflight"
          /\ IF code # 0 /\ Head(queue).kind = "required"
             THEN End("failed", TRUE, Append(Results, Outcome("non_zero_exit")))
             ELSE Continue(Outcome(IF code = 0 THEN "passed" ELSE "probe_unavailable"))
       \/ /\ pc = "phase1"
          /\ IF code # 0
             THEN End("failed", TRUE, Append(Results, Outcome("non_zero_exit")))
             ELSE Continue(Outcome("passed"))
       \/ /\ pc \in Dynamic
          /\ \E reading \in Logs :
               IF reading = "garbled" /\ sink # {} THEN Unwind
               ELSE LET summary == combined_observer_summary(reading)
                    IN Continue(DynamicResult(DynamicStatus(summary, code), summary, observer.pass_possible))
    /\ UNCHANGED <<inp, plan, policy, world, materialized, dir, files, rescan, sink, report, exit, history>>

\* subprocess.run kills the client; its container goes on.  What was captured until then are bytes, which
\* _summarize_output cannot redact: unless it is empty, a TypeError.
\* Mutant: a probe of the repository that timed out is one more failed command, the next one is tried
TimedOut_Continue(reading) ==
    IF pc \in RepoPhases THEN Continue(DynamicResult("observer_degraded", combined_observer_summary(reading), FALSE))
    ELSE IF pc = "preflight" /\ Head(queue).kind = "optional" THEN Continue(Outcome("timeout"))
    ELSE End("failed", TRUE, Append(Results, Outcome("timeout")))
TimedOut(reading) ==
    IF pc \in Dynamic
    THEN IF reading = "garbled" /\ sink # {} THEN Unwind
         ELSE End("failed", TRUE, Append(Results, DynamicResult("timeout", combined_observer_summary(reading), FALSE)))
    ELSE IF pc = "preflight" /\ Head(queue).kind = "optional" THEN Continue(Outcome("timeout"))
    ELSE End("failed", TRUE, Append(Results, Outcome("timeout")))

\* Mutant: docker run without a timeout
Timeout_None == client # 0 /\ FALSE /\ UNCHANGED vars
Timeout ==
    /\ client # 0
    /\ client' = 0
    /\ timedOut' = TRUE
    /\ \E empty \in TimeoutOutput, reading \in Logs : IF empty THEN TimedOut(reading) ELSE Unwind
    /\ UNCHANGED <<inp, plan, policy, world, materialized, dir, files, rescan, containers, sink, report, exit, scanned,
                   written>>

(***************************************************************************)
(* The containers, as long as the program runs                             *)
(***************************************************************************)
\* A fetch writes an artifact.  A command of the repository may too, and does something watched: strace records
\* everything but the reading of the environment, the hooks record what they happen to see.
ContainerActs(i) ==
    /\ pc \notin {"done", "raised"}
    /\ containers[i].live /\ ~ containers[i].acted /\ containers[i].phase # "preflight"
    /\ LET c == containers[i]
           repo == c.phase \in RepoPhases
       IN \E wrote \in {{}} \cup {{a} : a \in IF repo THEN Written ELSE IF c.phase = "phase1" THEN Fetched ELSE {}},
             done \in {{}} \cup {{e} : e \in IF repo THEN Events ELSE {}} :
             \E hooked \in SUBSET done :
               /\ files' = files \cup wrote
               /\ written' = IF repo THEN written \cup wrote ELSE written
               /\ containers' = [containers EXCEPT ![i] = [@ EXCEPT !.acted = TRUE, !.did = done, !.hooked = hooked]]
               /\ sink' = sink \cup [via : {"hook"}, event : hooked]
                              \cup [via : {"strace"}, event : IF c.traced THEN {"log"} \cup (done \ {"env_sweep"}) ELSE {}]
    /\ UNCHANGED <<inp, pc, plan, policy, world, materialized, dir, observer, phases, rescan, queue, client, report, exit,
                   scanned, timedOut>>

\* A container whose client was killed ends by itself
ContainerExits(i) ==
    /\ pc \notin {"done", "raised"}
    /\ containers[i].live /\ i # client
    /\ Leave(i)
    /\ UNCHANGED <<inp, pc, plan, policy, world, materialized, dir, files, observer, phases, rescan, queue, client, sink,
                   report, exit, history>>

(***************************************************************************)
(* The ends of the phases                                                  *)
(***************************************************************************)
DynamicOverall(results) ==
    LET statuses == {results[i].status : i \in DOMAIN results}
    IN IF "observer_blocked" \in statuses THEN "blocked"
       ELSE IF "non_zero_exit" \in statuses THEN "failed"
       ELSE IF "observer_warn" \in statuses THEN "findings"
       ELSE IF "observer_degraded" \in statuses THEN "degraded"
       ELSE "passed"

FinishPhase ==
    /\ pc \in DockerPhases
    /\ queue = <<>>
    /\ End(IF pc \in Dynamic THEN DynamicOverall(Results) ELSE "passed", TRUE, Results)
    /\ UNCHANGED <<inp, plan, policy, world, materialized, dir, files, rescan, client, containers, sink, report, exit,
                   history>>

Rescan ==
    /\ pc = "rescan"
    /\ IF \E a \in files : Raises(a)
       THEN pc' = "unwinding" /\ UNCHANGED <<rescan, scanned>>
       ELSE /\ rescan' = WithBypass(run_phase1_rescan(files), phases["phase1"])
            /\ scanned' = files
            /\ pc' = "phase2"
    /\ UNCHANGED <<inp, plan, policy, world, materialized, dir, files, observer, phases, queue, client, containers, sink,
                   report, exit, written, timedOut>>

\* MaterializedWorkspace.cleanup.  A container that still writes can make rmtree fail.
Cleanup ==
    /\ pc \in {"cleanup", "unwinding"}
    /\ dir' \in {"removed", "left"}
    /\ pc' = IF pc = "unwinding" THEN "raised" ELSE "report"
    /\ exit' = IF pc = "unwinding" THEN 1 ELSE exit
    /\ UNCHANGED <<inp, plan, policy, world, materialized, files, observer, phases, rescan, queue, client, containers, sink,
                   report, history>>

(***************************************************************************)
(* The report                                                              *)
(***************************************************************************)
PerformedResults == UNION {Range(phases[p].results) : p \in {q \in RepoPhases : phases[q].performed}}

\* _summarize_dynamic_observation: one result that could have passed makes the summary one that could
summarize_dynamic_observation ==
    [performed |-> \E p \in RepoPhases : phases[p].performed,
     seen |-> UNION {r.seen : r \in PerformedResults},
     pass_possible |-> \E r \in PerformedResults : r.pass_possible]

PhaseCheck(phase, passing, blocking) ==
    IF phases[phase].status \in passing THEN "pass"
    ELSE IF phases[phase].status \in blocking THEN "block" ELSE "warn"
fetch_checks == {PhaseCheck("phase1", {"not_required"}, {}), PhaseCheck("phase1", {"passed", "not_required"}, {"failed"})}
probe_checks == {PhaseCheck("preflight", {"passed"}, {"failed"}), PhaseCheck("smoke", {"passed"}, {"blocked", "failed"})}
execution_checks == {PhaseCheck(p, {"passed"}, {"blocked", "failed"}) : p \in RepoPhases}
rescan_check ==
    IF rescan.status = "blocked" THEN "block"
    ELSE IF rescan.status \in {"passed", "not_required"} THEN "pass" ELSE "warn"

\* One of the checks on observed behaviour: events that block, events that warn
ObservationCheck(blocking, warning) ==
    LET observed == summarize_dynamic_observation
    IN IF observed.seen \cap blocking # {} THEN "block"
       ELSE IF observed.seen \cap warning # {} \/ ~ (observed.performed /\ observed.pass_possible) THEN "warn"
       ELSE "pass"
dynamic_external_communication == ObservationCheck({"network"}, {})
dynamic_secret_access == ObservationCheck({"secret"}, {})
behaviour_checks ==
    {ObservationCheck({}, {"env_sweep"}), ObservationCheck({}, {"process"}),
     ObservationCheck({"delete_outside"}, {"delete_inside"})}

disposable_workspace ==
    IF dir = "left" \/ materialized = "failed" THEN "block"
    ELSE IF materialized = "partial" THEN "warn" ELSE "pass"

image_policy == IF policy.allowed THEN "pass" ELSE "warn"

\* _build_report and the command's exit code: sandbox.dynamic_execution is always a warning
MakeReport ==
    /\ pc = "report"
    /\ report' = fetch_checks \cup probe_checks \cup execution_checks \cup behaviour_checks
                  \cup {rescan_check, dynamic_external_communication, dynamic_secret_access, disposable_workspace,
                        image_policy, plan.approval.status, "warn"}
    /\ exit' = IF "block" \in report' THEN 1 ELSE 0
    /\ pc' = "done"
    /\ UNCHANGED <<inp, plan, policy, world, materialized, dir, files, observer, phases, rescan, queue, client, containers,
                   sink, history>>

(***************************************************************************)
(* The specification                                                       *)
(***************************************************************************)
\* Somebody moves the tag
Retag ==
    /\ retags < MaxRetags
    /\ tag' \in ImageIds \ {tag}
    /\ retags' = retags + 1
    /\ UNCHANGED <<inp, pc, plan, policy, materialized, dir, files, observer, phases, rescan, queue, client, containers,
                   sink, report, exit, history>>

Steps ==
    \/ MakePlan
    \/ Materialize
    \/ Begin
    \/ Launch
    \/ HostFails
    \/ Timeout
    \/ FinishPhase
    \/ Rescan
    \/ Cleanup
    \/ MakeReport

Next ==
    \/ Steps
    \/ \E code \in {0, 1} : Return(code)
    \/ \E i \in DOMAIN containers : ContainerActs(i) \/ ContainerExits(i)
    \/ Retag

\* The program's own steps are fair.  A container need not end: its client's timeout does.
Spec == Init /\ [][Next]_vars /\ WF_vars(Steps)

(***************************************************************************)
(* Properties                                                              *)
(***************************************************************************)
\* Every variable but the call, which no step changes, has its type.
TypeOK ==
    /\ pc \in DockerPhases \cup {"plan", "materialize", "rescan", "cleanup", "unwinding", "report", "done", "raised"}
    /\ tag \in ImageIds
    /\ retags \in 0 .. MaxRetags
    /\ materialized \in {"not_started", "completed", "partial", "failed"}
    /\ dir \in {"none", "present", "removed", "left"}
    /\ files \subseteq Fetched \cup Written \cup inp.vendored
    /\ observer \in [hooks : BOOLEAN, syscall : BOOLEAN, pass_possible : BOOLEAN]
    /\ \A p \in DockerPhases : phases[p].performed \in BOOLEAN
    /\ rescan.status \in {"skipped", "blocked", "warn", "passed", "not_required"}
    /\ client \in 0 .. Len(containers)
    /\ sink \subseteq [via : {"hook", "strace"}, event : Events \cup {"log"}]
    /\ report = NULL \/ report \subseteq {"pass", "warn", "block"}
    /\ exit \in {NULL, 0, 1}

RepoContainers == {containers[i] : i \in {j \in DOMAIN containers : containers[j].phase \in RepoPhases}}

\* An entry of the approval file names the command exactly, and the file's contract describes this invocation.
Approves(entry, command) ==
    /\ entry.object /\ ~ entry.legacy /\ entry.wellFormed /\ ~ entry.shell
    /\ entry.phase = command.phase /\ entry.kind = command.kind /\ entry.argv = command.argv
    /\ entry.env = command.env /\ entry.cwd \in {".", "./", "..."}
Describes(contract) ==
    /\ Get(contract, "docker_image") \in {NULL, inp.image.kind}
    /\ Get(contract, "expected_image_id") \in {NULL, inp.image.expected}
    /\ Get(contract, "network_policy") \in {NULL, "none"}
    /\ Get(contract, "approval_scope") \in {NULL, "this_repository"}

\* A command of the repository runs only when an approval file names exactly that command and its contract describes
\* this invocation (from load_approval_payload through apply_approvals and the gates to docker run).
RepoCodeApproved ==
    \A c \in RepoContainers :
        /\ inp.approval # NULL
        /\ inp.approval.readable
        /\ \E i \in DOMAIN inp.approval.entries : Approves(inp.approval.entries[i], c.command)
        /\ Describes(inp.approval.contract)

\* What the rescan exists to find: a lifecycle script of an installed Node.js package, obfuscated code that executes.
InstallHook(a) == a.form = "package_json" /\ \E t \in a.contents : t.shape = "object" /\ t.lifecycle # {}
Obfuscated(a) ==
    /\ a.form \in {"zip", "text"}
    /\ \E t \in a.contents : t.readable /\ t.name # "package_json" /\ {"exec", "obfuscation"} \subseteq t.has

\* When a command of the repository starts, every artifact in the workspace and the caches was there for the rescan
\* to see or was written by another such command, and none that the rescan saw has an install hook or obfuscated
\* code.  No fetch, finished or abandoned, adds an artifact behind the rescan's back.
RescannedBeforeRun ==
    \A c \in RepoContainers :
        /\ c.base \subseteq scanned \cup written
        /\ \A a \in scanned : a.readable /\ should_scan_file(a) => ~ InstallHook(a) /\ ~ Obfuscated(a)

\* No command of the repository starts while a container with network access, one that a timeout left behind
\* included, is running on the same directories (run_phase1_fetch's timeout, the gates of phase 2 and 3).
RepoCodeIsolated == \A c \in RepoContainers : ~ c.beside

\* A phase of repository commands that passed had every command's system calls traced, and none of them did anything
\* the trace records (run_dynamic_phase), unless the trace's files held what another command had left there.
PassedIsObserved ==
    \A p \in RepoPhases : phases[p].status = "passed" =>
        \A c \in RepoContainers : c.phase = p => c.did \ {"env_sweep"} = {} /\ (c.clean => c.acted)

\* A command of the repository runs without a dependency fetch before it only in a repository whose Python manifests
\* ask for nothing from outside: no requirements or lock file, an empty build-system.requires, and no dependency from a
\* repository, URL or path (build_fetch_plan's choice of manifest, the "not_required" bypass of both gates).
UnfetchedIsSelfContained ==
    phases["phase1"].status # "passed" /\ RepoContainers # {} =>
        /\ inp.repo.requirements = {} /\ inp.repo.poetry = NULL /\ inp.repo.uv = NULL
        /\ inp.repo.pyproject # NULL
        /\ inp.repo.pyproject.requires = {} /\ inp.repo.pyproject.dependencies \cap SourceRisks = {}

\* The result of the command that container i ran says that the hooks' event file, or a trace, could not be read.
HooksLost(i) ==
    LET results == phases[containers[i].phase].results
    IN \E k \in DOMAIN results : results[k].observed = i /\ results[k].read_error
TraceLost(i) ==
    LET results == phases[containers[i].phase].results
    IN \E k \in DOMAIN results : results[k].observed = i /\ results[k].error

\* No observer recorded that container i used the network, read a secret or deleted outside the workspace, in a file
\* that could be read after it.
Quiet(i) ==
    /\ containers[i].hooked \cap BlockEvents = {} \/ HooksLost(i)
    /\ containers[i].traced => containers[i].did \cap BlockEvents = {} \/ TraceLost(i)

\* The command succeeds only if no runtime hook and no trace recorded that a command of the repository used the
\* network, read a secret or deleted outside the workspace, only if no container of a fetch or of the repository was
\* left running, and only if its directory is gone.  The exception is a record whose file could not be read after the
\* command: of a trace that is a warning, of the hooks' event file it shows in the command's result only
\* (_parse_observer_events' read_error), and neither changes the exit code.
ExitZeroIsQuiet ==
    exit = 0 =>
        /\ \A i \in DOMAIN containers : containers[i].phase \in RepoPhases => Quiet(i)
        /\ \A i \in DOMAIN containers : containers[i].phase # "preflight" => ~ containers[i].live
        /\ dir = "removed"

\* Once the workspace was materialized, whole or in part, its directory was removed or rmtree failed on it, whether
\* run_sandbox returns or raises.
AlwaysCleaned == pc \in {"done", "raised"} /\ materialized # "not_started" => dir \in {"removed", "left"}

\* With a local image and an expected ID, every container runs the image with that ID unless somebody moved the tag.
\* evaluate_image_policy compares the ID once, docker run resolves the tag again for every container.
ExpectedImageRuns ==
    policy # NULL /\ policy.local_sanctioned /\ retags = 0 =>
        \A i \in DOMAIN containers : containers[i].image = inp.image.expected

\* What runs is what was approved: the commands of the repository and the image they run in.
RunsAsApproved == RepoCodeApproved /\ ExpectedImageRuns

\* Before code of the repository runs, its dependencies were fetched or none were needed, what was fetched was
\* rescanned, and nothing with network access runs beside it (the gates of phases 2 and 3).
RepoCodeIsPrepared == UnfetchedIsSelfContained /\ RescannedBeforeRun /\ RepoCodeIsolated

\* run_sandbox leaves no directory and exits with 0 only after quiet runs, in every well-typed end.
EndIsClean == TypeOK /\ ExitZeroIsQuiet /\ AlwaysCleaned

\* run_sandbox ends, whatever its containers do: every docker run has a timeout.
Ends == <>(pc \in {"done", "raised"})

(***************************************************************************)
(* What the documents say and the code does not keep                       *)
(***************************************************************************)
\* dynamic.py, preflight.py, fetch_plan.py: a command that times out is reported as such.
TimeoutIsReported == timedOut => pc # "raised"
=============================================================================
