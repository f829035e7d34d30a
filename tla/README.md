# repo-health-doctor: TLA+ models, model checking and proofs

repo-health-doctor decides whether a command of an unfamiliar repository may be run, and runs it,
if at all, in a disposable Docker sandbox. This project models the parts of it where a mistake has
consequences: what the evidence says, what must be true before a command starts, what is spent
when it does, and what the report and the exit code may say afterwards. Paths below are relative to
the repository; the package is `src/repo_health_doctor/`.

## 1. The system

### 1.1 Components, their state and their operations

| Component | State it keeps | Operations | Talks to | Modules |
|---|---|---|---|---|
| `sandbox/run.py` sandbox-run | the report under construction, the control documents, the reservation, the runner's result | intake, load, validate, probe, verify, re-read, reserve, launch, verify, finalise | authorization, control file, workspace, runner | `SandboxRun`, `SingleUseToken` |
| `cli.py` handlers | workspace and decision, handed on | refuse arguments, call in order, clean up (gate-check without a `finally`), exit code | everything | `SandboxRun`, `GateCheck`, `ScannerSuite`, `SandboxCommand` |
| `gate/authorization.py` | the `<artifact>.reserved` marker on disk | draft, validate, bind to a snapshot, reserve | control file, decision | `Authorization`, `SandboxRun` |
| `control_file.py` | none | bounded no-follow read, comparison of two reads | filesystem | `ControlFile` |
| `sandbox/docker_runner.py` | the client process, the tracked container | probe, run, stream, stop, clean up | docker client and daemon | `DockerRunner`, `RunnerInterface` |
| `sandbox/run_workspace.py` | the disposable copy, the snapshot, its manifest | copy within budgets, export from Git, verify, invalidate, clean up | source tree, git | `VerifiedSnapshot` |
| `gate/evaluator.py`, `verdict.py`, `limitation_policy.py` | none | evidence to verdict | scanners, evidence | `GateEvaluator`, `GateEvidence` |
| `external_scanner/risk_mapper.py`, `result_validator.py` | none | scanner result to effects | evaluator | `RiskMapper` |
| `gate/v3_evaluator.py`, `evidence/v3_adapter.py` | none | report of a scanned snapshot to evidence and decision | evaluator | `V3Evaluator` |
| `gate/external_evidence.py`, `gate/sandbox_evidence.py`, `evidence/sandbox_run.py` | fingerprints seen, bytes read | validate and normalise evidence files | gate-check | `EvidenceFiles`, `GateCheck` |
| `gate/authorization_discovery.py` | none | find the artifact in the target | gate-check | `GateCheck` |
| `external_scanner/real_scanner_suite.py` and the Gitleaks, OSV and Trivy adapters | the entries of the report, a snapshot | preflight, scan, normalise, bound, report | scanners, snapshot | `ScannerAdapters`, `ScannerSuite` |
| `sandbox/command.py`, `dynamic.py`, `fetch_plan.py`, `preflight.py`, `rescan.py` ... | the phases' reports, the workspace, the observer's files | detect, plan, approve, fetch, rescan, install, run, report | docker | `SandboxPlan`, `ArtifactRescan`, `SandboxCommand` |
| `scripts/goal_loop_runner.py`, `scripts/host_commit.py` | features, attempts, the index, the commit request | select, launch, time out, gate, commit, unstage | agent, git | `GoalLoop` |

Invocations are separate processes. They share files, the Docker daemon and the clock; there is no
lock but `O_CREAT|O_EXCL` on the marker. A decision of the gate leads to an approval by a Human, the
approval to a sandbox run, the report of the run back to the gate as evidence.

### 1.2 What is hard

* **Windows.** The artifact is read by the CLI, read again by sandbox-run, re-read before and
  after the reservation; snapshot, evidence and authorization are read one after another by
  gate-check; intake lists and copies a tree that its owner edits. Others act between any two steps.
* **One use.** The marker must outlive crashes, failed writes and retries.
* **Docker is asynchronous.** A client that is stopped leaves calls at the daemon that are answered
  later, and a container outlives the client that started it.
* **Evidence merges by rules that look at each other.** One rule of the evaluator speaks only while
  no other has; several effects of one mapping compete.
* **Budgets.** Three of them cut a scanner report in turn; files grow after their size was checked.
* **Timeouts.** Agents, scanners, docker clients and probes are ended from outside, and what they did
  before has to be judged.
* **Failures nobody reports.** A removal that fails, an event file that cannot be read and an exception
  without a clause leave something behind that no status asks for.
* **Fallback reports and exit codes.** `except Exception` rebuilds a report; cleanups and the CLI
  rewrite the code of the command.

### 1.3 What makes each component correct

* sandbox-run: what runs is what was approved; an artifact starts one command; exit 0 and a policy
  block mean what they say; the workspace is accounted for; every invocation ends.
* authorization: an artifact fixes argv, decision, snapshot and image.
* control file: a read returns one version of the file; two matching reads enclose no change.
* docker runner: a result never hides a command that may still start; cleanup removes its own
  container and no other.
* snapshot: what the manifest says existed; the copy keeps to its budget; changes to it are seen;
  a refused copy is gone.
* gate: an unlockable verdict has only clean evidence behind it; evidence works in one direction.
* gate-check: exit 0 means that this decision was approved, on evidence about this snapshot.
* scanner suite: silence counts only after a completed scan; what is cut stays counted; what an adapter
  refuses to show is not shown.
* sandbox command: repository code runs only approved, rescanned and isolated; a pass was observed.
* goal loop: only requested work of an agent that ended in time is committed; what is called
  complete is committed; exit code, metadata and signal agree; every run ends.

The hazards, each at its line and with the properties that cover it, are in `PROJECT.json`.

## 2. The modules

`PythonValues` holds `None` and `mapping.get` for all of them.

**Authorization** is the validator of `gate/authorization.py` and the subject comparison of
`sandbox/run.py`, as pure operators. Hashes are injective: a fingerprint is a tagged copy of what
it digests.

**SandboxRun** is sandbox-run from the CLI handler to the exit code, for any number of concurrent
invocations. One step of an invocation touches shared state at most once, and `pc[p]` names the
next step, so every window of the code is a point where others act. The variables follow the
locals of `_run_sandbox_run`: `cli` and `ctl` are `authorization_control_document` and
`runtime_authorization_control`, `rid` the resolved image ID, `result` the `RunnerResult`, `report`
the fields of the report that later code or the exit code depends on. `Validate` is the collection
of all refusals; `RecheckControl` the re-read around the reservation; `ReserveCreate` and
`ReserveRefused` the two outcomes of `os.open`; `VerifyAfter` the integrity check and the fallback
report; `Finalize` is `_finalize_report` and `_sandbox_run_exit_code`. The environment may rewrite
the artifact, let time pass, change or remove the workspace, start a requested container late,
interrupt or kill an invocation. `started`, `cause`, `validated` and `sealed` are history variables.
**SingleUseToken** is the abstract promise of the reservation: consume once, execute only as the
consumer. `ImplementsToken` states that `SandboxRun` refines it.

**DockerRunner** is `DockerRunner.run`, its stream, stop and cleanup, with the client and the daemon.
The client makes two calls, create and start; the daemon answers whether or not the client still
lives. `SandboxRun` does not contain this module: both use `PossibleResult` and `MayStillStart` of
**RunnerInterface**, and `ResultIsTrue` and `NoStartAfterReturn` show that `DockerRunner` keeps to
them.

**ControlFile** is `read_bounded_control_file` and `control_file_matches` against the owner of the
file. Bytes are chunks, the limit is a number of chunks. In `SandboxRun` a read is one step;
`ReadIsAtomic` and `ReadsAreSound` justify that.

**VerifiedSnapshot** is intake: the walk of `_copy_tree` entry by entry and of `_copy_regular_file`
chunk by chunk; the Git path with its separate `rev-parse`, `ls-files` and export commands; the
comparison of worktree and commit; refusal and invalidation; the fallback of the static scan; the
integrity check and the diff after use; cleanup. The owner writes, appends, replaces, links,
removes, adds, swaps directories and moves HEAD at any time. A digest is the content; with
`coarse` timestamps a second write may leave the stat unchanged.

**RiskMapper**, **GateEvaluator**, **V3Evaluator** and **EvidenceFiles** are pure operators: the
rules from scanner facts to effects, from evidence to verdict candidates, from a scanned snapshot
to a decision, and the validators of evidence files. Explanations and required actions are text and
left out; what can add a verdict candidate is kept. **GateEvidence** drives the evaluator: a caller
adds evidence in any order, so a step relates two verdicts. **GateCheck** is the command: snapshot,
scan, suites, first decision, sandbox evidence against it, second decision, authorization explicit
or discovered, report, cleanup. Every refusal removes the copy by itself, a removal may fail unseen
(`cleanup`), and an exception out of any call, the last write included, leaves the command without one
(`Raise`, `OutputFails`). Between two steps the owner commits, evidence files are replaced,
time passes, and the Human approves what a former run emitted. An image identity is never passed by
gate-check, so an image-bound artifact is always refused there; exit 0 needs `--fail-on-gate`
`quarantine` or `block`, since the v3 path never yields less than `warn`.

**ScannerAdapters** is how an adapter reads exit code and report of a scanner and what it makes of
them; **ScannerSuite** gives the steps their order, applies the budgets and emits the report. A
text is the set of the tests that redaction and validation make and it meets (`Texts`); each adapter
redacts by its own, and the validator's test for home directories is narrower than theirs. Byte sizes are a constant for each entry, finding and
text plus the length of the time stamp. The CVSS base score is an input, in tenths. An adapter called
directly takes its own snapshot (`args.direct`). `changed` remembers in whose turn the snapshot first
changed, and whether that adapter had verified it by then.

**SandboxPlan** is detection, fetch planning, image policy and the matching of approval entries;
**ArtifactRescan** the static scan of what was fetched; **SandboxCommand** runs the phases. A
container is a process of its own, shares workspace and observer files with the others and
outlives a client that was killed at its timeout. It acts once, with at most one artifact and one event.
The observer's files may be garbled or unreadable afterwards, the hooks' events, the trace or both;
what else it does to them, and what it does after the program ended, is
not followed.

**GoalLoop** is the runner's iterations, its timeout escalation, signals, outcome and receipt, and
the host commit broker from request to unstaging; the older loop and the kickoff call the same
broker. The agent edits and stages any file, asks for any commit, spoils the runner's files, ignores
signals and leaves descendants behind, which only write files.

**SandboxRunProofs** (with Authorization), **ControlFileProofs, DockerRunnerProofs, GateProofs**
(GateEvidence and GateCheck), **VerifiedSnapshotProofs, ScannerSuiteProofs, SandboxCommandProofs,
GoalLoopProofs** hold theorems; **MC...** modules are small instances for TLC.

## 3. The runs

Each run asks one question of one part of the system. Where several invariants answer it together,
the cfg names their conjunction and the module defines and explains each part.

| Run | Instance | Shows |
|---|---|---|
| `sandbox_race` | 2 invocations (real, fake or dry), 1 artifact, 1 rewrite; symmetry | `SingleUse`, `ConsumptionReported`, `ReservationSealsArtifact`, `NoStartAfterCleanReport`, refinement of `SingleUseToken` |
| `sandbox_report` | 1 invocation, 12 command lines, 5 artifacts (draft, approved, legacy, not image-bound, other argv), git and plain snapshots, 2 image IDs, 2 instants, 1 rewrite | `LaunchWasAuthorized`, `OnlyAuthorizedConsumes`, `ReportIsTrue` (`ExitZeroIsClean`, `BlockedNeverRuns`, `WorkspaceAccounted`), `EveryInvocationEnds` |
| `docker_runner` | 1 run, a container of another run, an unlabelled one, 2 retries | `ResultIsTrue` (`ResultExpected`, `OthersUntouched`, `CleanupConfirmsRemoval`), `NoStartAfterReturn`, `RunEnds` |
| `control_file` | 2 inodes, 2 chunk contents, limit 2, files up to 4 chunks, 2 changes; symmetry | `ReadIsAtomic`, `ReadsAreSound` (`MatchMeansUnchanged`) |
| `snapshot_intake` | 3 files and a control file in 2 directories, 3 commits; five situations (`MCCases`): a commit taken while HEAD moves three times, a plain directory under two edits of any kind, the same with coarse timestamps, the static scan in a direct and in a linked worktree | `SnapshotWasReal`, `CopyWasReal`, `NothingLeaks`, `TamperingIsSeen`, `IntakeEnds` |
| `gate_evidence` | 6 items, 4 suites, 8 findings, 5 sandbox reports, limit of 3 references | `UnlockableIsClean`, `SandboxNeverImproves`, `EvidenceIsOneWay` |
| `gate_check` | 2 runs, 5 targets, 7 command lines, up to 4 evidence files, 1 replacement, 3 instants | `AuthorizedIsEarned`, `ReturnIsSound`, `CopyAccounted` |
| `scanner_suite` | 14 calls of one to three scanners, 6 preflights, 7 to 10 answers of each scanner, byte budgets around the size of the report | `ReportIsWhole`, `SilenceIsEvidence`, `EvidenceIsSafe`, `SuiteEnds` |
| `sandbox_phases` | 9 repositories, every approval file that is almost right, 13 fetched artifacts, 2 images, 1 retag, 5 states of the observer's files | `RunsAsApproved`, `RepoCodeIsPrepared`, `PassedIsObserved`, `EndIsClean`, `Ends` |
| `goal_loop` | 2 features, 1 file, 2 iterations, 1 attempt, 2 edits, 2 runs, all three callers | `CommitsAreDue`, `FeaturesDecide`, `SignalReported`, `IndexRestored`, `RunEnds` |
| `control_change_exit`, `timeout_raises` | as `sandbox_report` and `sandbox_phases`, smaller | two disagreements, below |

**Bounds.** Two invocations suffice for a race on one marker, and the theorems remove the bound. One
rewrite swaps an artifact in each window; putting the old bytes back needs two changes, which
`control_file` has. Two retries reach the first, a middle and the last attempt of the removal loop.
Files twice the limit reach the byte past it. Time 0 and 1 with an expiry of 1 reach the instant of
expiry. Three moves of HEAD reach A, B, A, B between four Git commands. The file budgets of
`snapshot_intake` leave room for one entry and one chunk more than the tree has, so that edits go past
them. Two suites and two sandbox reports exceed three references. Two findings per scanner and three per suite make every budget of the suite
bind. The artificial bounds are the constants named `Max...` (but `MaxBytes`, `MaxTotalBytes`,
`MaxRefs`, `MaxAge`, `MaxSkew` and those of `VerifiedSnapshot`, which are limits of the code) and
`situation.edits` and `situation.moves`.

**Constraints.** Where the product of all inputs is out of reach, a CONSTRAINT keeps the combinations
apart that have nothing to do with each other; a behaviour that leaves it is not followed further.
`RewritesAreRaces`: the owner rewrites only while two real invocations race. `WideOrDeep`: much
evidence with posture findings, or many kinds of findings beside little evidence. `OneOrFour`: one
suite over every target, or two suites and two sandbox reports over one. `OneTrouble`: for each
kind of call one kind of trouble (retags, near approvals, fetched artifacts, acting containers).
`OneRunOrTwoShort`: one full run with two edits, or two runs of one iteration.

**Fairness.** Weak fairness of the program's own steps, and nothing else: nothing is assumed of
daemon, client, containers, scanners, agents, owners or the clock. `SandboxRun`: no step waits
for another invocation, and every call has a timeout. `DockerRunner`: the stream has a deadline, every
docker call a timeout of ten seconds or less. `VerifiedSnapshot`: one sequential process with bounded
walks. `ScannerSuite` and `SandboxCommand`: a scanner or a docker client that hangs is ended by
the timeout of `subprocess.run`; a container need not end. `GoalLoop`: the deadline and the
escalation to SIGKILL are the runner's; its git commands have no timeout and are assumed to
return. `RunEnds` is claimed for the runner only; the older loop and kickoff wait for their agent.

**Deadlock** is not checked where the system really stops: after the last run of `gate_check` and
`goal_loop`, and after the end of `sandbox_phases`.

### What the properties leave open on purpose

* `CleanupConfirmsRemoval` excludes a container created after the last label query: it stays behind,
  never started, although cleanup says ok.
* `EvidenceNeverReopens` names the two situations in which more evidence does improve a verdict:
  a suite silences the low-trust rule, and a second finding turns a block of the mapping into a
  quarantine.
* `ExpectedImageRuns` excepts a tag that moved after it was inspected.
* `AlwaysCleaned` applies once materialisation returned: a self-referring link or a failing
  `mkdtemp` raises before the `try`.
* `PassedIsObserved` excepts a trace that held what another command had left there.
* `ExitZeroIsQuiet` excepts what was recorded in a file that could not be read after the command: of a
  trace that is a warning, of the hooks' event file only the command's own `read_error` tells.
* `SnapshotWasReal` excepts a commit paired with another's tree when HEAD moved at least three times,
  back and forth, between the lookups.
* `ChangeStopsScanners`, a part of `SilenceIsEvidence`: what changes the snapshot after an adapter has
  verified it and before its scan has ended goes unseen.
* `ValidIsRedacted` asks of a valid entry what its own adapter and the validator ask (`NeverIn`). Gitleaks
  rule ids keep host paths other than homes, URLs and secret markers; Trivy texts keep a URL that does not
  begin them; OSV texts keep local addresses and the markers only Trivy knows.
* `CopyAccounted` and `SuiteEnds` promise the attempt to remove the copy: neither command reports a
  removal that failed, and an exception leaves gate-check's copy behind.
* `SignalReported` speaks of runs that an iteration ended. Returns out of the selection or a failed
  snapshot look for no signal: one that comes between two iterations may be lost there.

### Disagreements between the code and what is written about it

Two have a run that TLC refutes; `PROJECT.json` quotes the lines.

* `control_change_exit`: an artifact that changed around its reservation is refused, but as an
  infrastructure error with exit 1: `_policy_blocked_report` is given the authorization validation
  in place of an approval validation and raises `AttributeError`.
* `timeout_raises`: a command that printed something before its timeout ends `rhd sandbox` with a
  `TypeError`: the handler formats bytes as text.

Others that the models reproduce; the properties are worded around them:

* sandbox-run: after an uncertain cleanup the exit code of a failed command still wins
  (`cli.py:1371`); a workspace that vanishes during the run makes the report say "not started"
  (`sandbox/run.py:686`); a marker that could not be created is reported as consumed
  (`gate/authorization.py:486`); a command that exits 125 is reported as not started
  (`sandbox/docker_runner.py:406`).
* Snapshot: commit and tree of HEAD are resolved by two commands each time; HEAD moving back and
  forth pairs the commit of one with the tree of another (`sandbox/run_workspace.py:887`).
* Gate: the low-trust rule can be silenced (`gate/evaluator.py:287`), and a second finding can
  improve a verdict (`gate/evaluator.py:537`). Discovery skips its test of the source kind when tracked
  paths are passed (`gate/authorization_discovery.py:73`); the validator still refuses.
* gate-check: the copy stays behind an exception, since nothing catches one (`cli.py:862`), and behind a
  removal that fails, which nothing reports (`sandbox/run_workspace.py:226`).
* Scanner suite: a URL is redacted only where it begins a Trivy text (`trivy_adapter.py:44`); a report is measured with a time stamp shorter than the one it is emitted with
  (`real_scanner_suite.py:228`); a denylisted Gitleaks or OSV version completes
  (`real_scanner_suite.py:343`).
* Sandbox command: an event file of the hooks that cannot be read counts as one without events
  (`sandbox/dynamic.py:215`); checks pass without a syscall log although the phase is degraded
  (`sandbox/command.py:170`); an archive member that cannot be read leaves the rescan passed
  (`sandbox/rescan.py:474`); a fetch is skipped as not required when a Python manifest needs none
  although npm does (`sandbox/fetch_plan.py:575`); a link to itself leaves the directory behind
  (`sandbox/command.py:962`); a tag that moves runs another image (`sandbox/docker.py:363`).
* Goal loop: the receipt of a timeout promises that the feature stays selectable, also when the agent
  had blocked it (`scripts/goal_loop_runner.py:1003`); the attempt limit is not asked at selection
  (`scripts/goal_loop_runner.py:716`).

## 4. The proofs

All theorems hold for every value of the constants that satisfies the named assumptions:
`AuthorizationConstants`, `SandboxRunConstants`, `RunnerConstants`, `DockerRunnerConstants`,
`ControlFileConstants`, `MaxRefsPositive`, `GoalLoopAssumption`, `SnapshotConstants`, `SnapshotTypes`,
`PathsAreATree`, `TreesAreFinite`, `SandboxCommandConstants`, `GateCheckConstants`, `EvidenceBounds`, `EvidenceFilesAreFiles`, `SuiteArguments`,
`ScannerAnswers`, `NoneIsNoAnswer`. They say that `None` is none of the ids, no number, no snapshot and no list
of commands, that requests and exit codes have their types, that the run's own container is not
somebody else's, that directories form a tree, that a commit has finitely many blobs and a
repository finitely many requirements files, that a watched event is one the observer sorts, and that limits are numbers. Those of
`GateCheck` add that a Git snapshot has a commit, that a file stands at its own path, that a report's
fingerprint determines its subject, and that a subject has `repo_commit` or `commit`, as the two closed
schemas allow. Those of `ScannerSuite` say that the CLI selects at least one scanner and an adapter is
called for one, that a command which exits has a code, and that a report which parses is a list. TLC
evaluates all of them. Two theorems state a further hypothesis, explained where they are described:
`FewCoarseEdits` (`CopyWasRealHolds`) and `SuitesAreValidated` (`EvidenceIsOneWayHolds`). Each module's header and comments give the argument; in short:

**SandboxRunProofs** (any number of invocations, artifacts, snapshots, images): `TypeCorrect`,
`SingleUseHolds`, `SealHolds`, `OnlyAuthorizedConsumesHolds`, `LaunchWasAuthorizedHolds` and
`Refinement` (sandbox-run implements `SingleUseToken`). None of the invariants is inductive. `IInv`
adds what the program counter implies: past `"validate"` the refusals were empty for the values
still held; past `"reserve"` with an artifact the marker is the invocation's own; past the second
re-read the sealed state is the one that was validated; whoever is in flight or started went through
all of that and is a real run. `SingleUse` then follows because a marker has one owner.

Its second half is about the report: `ReportTrue`, `ConsumptionTold` and `NoStartAfterReport`. `RInv` adds one
predicate of each invocation: before the launch nothing runs or can (`PreLaunch`); a result with
code 0 is the command's own, and an outstanding start implies a failed cleanup (`Sound`); a report
that awaits finalisation (`Pending`), or is out (`Accounted`), keeps that knowledge; and the
reservation agrees with the marker (`Spent`). It needs that `None` is no integer.

It begins with the validator itself: `OneArtifactOneWorld` (one artifact cannot
authorize two argvs, decisions or images) and `MatchedMeansCurrent` (a matched snapshot binding
excludes the older schemas and leaves no field open).

**ControlFileProofs** (any file, limit and number of changes): `Atomicity` and `Soundness`. The
invariant dates things: the path's newest change is the largest ctime (`PathIsNewest`), what was
lstat'ed and fstat'ed existed at an instant of the read (`LstatWasReal`, `OpenedBetween`), and the
chunks read so far are a prefix of the file as long as its ctime is the one of the open
(`ContentIsPrefix`). A finished read carries the date of its open (`ResultsAreDated`), so equal
states mean equal dates. The assumption that every change gives a new ctime is the model's.

**DockerRunnerProofs** (any retries, any other containers): `ResultTrue` and `NoLateStart`. The
invariant ties the calls the client has outstanding, the state of the container and the result
together: the container is as far as the calls brought it (`CallsMatchState`, `RanMatchesState`), the
code of a client that ended by itself is the daemon's last word (`CodeIsTrue`), how far `run()` got
tells what became of the client (`EndingMatchesClient`), cleanup has only its own container in hand
(`OnlyOwn`), and confirms where nothing is left and nothing can come (`ConfirmedIsGone`).

**GateProofs** (any items, suites, findings, policy and limit): `UnlockableMeansClean`,
`SandboxOnlyWeighs` and `EvidenceIsOneWayHolds` (whose part `SuccessIsWorthNothing` holds for any suites
at all). The candidates of a decision are a union over its evidence, so adding evidence adds
candidates, except where the low-trust rule falls silent: what silences it weighs at least as much when
it comes from the sandbox, and may be a warning when it comes from a suite. One more finding replaces
an entry instead of adding one. For that case the lemmas show that every rule of the mapper except the
one about silence fires again (`RulesAccumulate`), that names nobody could interpret stay so
(`UnknownsAccumulate`), hence that tier, gates and flags only rise (`MappingAccumulates`), and that the
entry's candidates are answered by ones as strong, a block by quarantine at worst (`EntryWeighs`). The
invariant `SuitesSupplied` (one suite for each path, and every completed entry carries a result its
validator accepts) says that the suite a finding replaces is the one it was found in, which also keeps
the number of references. Its hypothesis `SuitesAreValidated` is about the suites as first supplied:
they are the tool's own, whose adapters mark an entry valid only after
`validate_external_scanner_result` (`trivy_adapter.py:393`, `gitleaks_adapter.py:335`,
`osv_scanner_adapter.py:355`); the instance that TLC checks satisfies it. It is needed: a result that
is refused for claiming silence after a failure is quarantined, and would be accepted once it reports
a finding.

Its second half is about gate-check (any targets, files, command lines, replacements and runs):
`AuthorizedIsEarnedHolds`, `ReturnIsSoundHolds` and `CopyAccountedHolds`. An exit code 0 looks
back over the whole run while the files it came from may since have changed, so `CheckInv` keeps what
was established when they were read: evidence is loaded path by path in the order of the command line
(`SuitesOK`, `SandboxOK`: one per path, no two valid ones with one fingerprint, and a valid one is the
report of some file about this snapshot); both decisions are evaluations of what was gathered
(`DecisionsOK`); the artifact on disk is an approval of the decision the Human approved last
(`ApprovalOK`); and a valid answer of the validator names this decision and this command
(`AnswerOK`). A clean decision then has clean evidence by the lemmas about the evaluator above, and
evidence given twice is invalid the second time, which no verdict that can be unlocked has behind it.

**VerifiedSnapshotProofs** (any tree, commits, budgets, edits and moves of HEAD):
`NothingLeaksHolds`, `TamperingIsSeenHolds`, `SnapshotWasRealHolds` and `CopyWasRealHolds`. The walk
keeps its types under every edit of the owner (`Walking`: a directory is listed before its entries
are, an entry being copied is one of the listing). `Released` and `Refused` tie the temporary
directory, the refusals and the snapshot to the program counter; `Untouched` says that the copy is
the manifest until a command gets it, and that the state recorded before its use is the manifest's.
For `SnapshotWasReal` the invariant counts (`Resolved`): if the commit and the tree that two commands
resolved differ, HEAD moved at least once; if the second pair of lookups confirmed both all the same,
at least three times, which is the exception the property states. That a changed file shows in the diff
is a counting argument: a name or a content that differs makes one of three finite sets non-empty.

`CopyWasRealHolds` rests on a second invariant, `KInv`, kept beside the first. A listing is one the
directory had; while the directory's timestamp is that of the listing its names are still those, and
every name visited has its entry, except the one in hand (`FrameOK`); so the entries of a directory
whose listing ended are names it held together (`EntriesOK`). The content read so far is a prefix of
what the descriptor reads as long as the timestamp is the first one (`ReadOK`), also when the name
was replaced and the descriptor detached. What is on disk is what the counters allow (`CountOK`),
where the size of a tree is the cardinality of the set of its chunks, which needs no induction over
the files. The theorem has one hypothesis, `FewCoarseEdits`: in a situation where two changes may
carry one timestamp (`coarse`) there are at most two of them and they write, append to or chmod a
file. In all other situations the number and kind of edits is free. The hypothesis is not an artefact
of the proof. With coarse timestamps a name removed and another added in one tick pass the check
after the listing, which knows the directory's timestamp only; and six writes to a file of two
chunks, in step with the two reads, let a torn copy pass (TLC finds both; up to five writes it finds
none). For two writes in place it is the second read that decides: one change during the first read
still leaves a content the file had (`Mend`), and after the second nothing changes the file any more.
The situations of `snapshot_intake` satisfy it.

**ScannerSuiteProofs** (any scanners, budgets, answers, reports and changes of the snapshot):
`ReportIsWholeHolds`, `SilenceIsEvidenceHolds` and `EvidenceIsSafeHolds`. Lemmas say of every way through an
adapter what its result owes to what the scanner did (`ResultOK`): findings only where a report was
accepted, and then all of its records; validity only after a completed run; silence only for an empty
report, code 0 and a clean commit; and agreement with the stored-report entry point. `SuiteInv`
keeps this of every entry while both finding budgets and the byte budget cut it (`EntriesOK`: the
summary of a result stays that of its findings, what is cut stays counted), gives entries and
scanners the same order (`ListsOK`), and says when a scanner may still run (`SnapshotOK`) and what
the status and the exit code rest on (`StatusOK`). `BudgetOK` counts the kept findings as the
cardinality of the set of their places, which grows by one interval per entry, so that no induction over
the list is needed.

**SandboxCommandProofs** (any repository, approval file, artifacts, image IDs and retags, any events):
`RunsAsApprovedHolds`, `RepoCodeIsPreparedHolds`, `PassedIsObservedHolds`, `EndIsCleanHolds`. Lemmas
about the pure operators carry half of it: sorting returns commands that the tool generates
(`SortedTyped`), a command marked as approved has an entry that names it (`MarkedIsApproved`), a fetch
is dispensed with only where the manifests ask for nothing (`FetchTyped`), and a rescan that clears the
gate saw nothing harmful (`ClearedIsHarmless`). The invariant then says what a container outlives:
one that is alive without a client failed its phase, unless the program is unwinding or it was a probe
(`LeftBehind`). So an open gate of phases 2 and 3 excludes a live fetch, which gives isolation
(`Prepared`) and that nothing was written behind the rescan's back (`Rescanned`). `Watched` keeps
what the current container did in the observer's files until its client returns, and `Judged` that
the results of a phase tell it afterwards, or that a file they rest on could not be read (`Quiet`); the
report's checks turn what they tell into the exit code. `PhaseSteps` shows once, for every way a phase can go on, end or be given up, that the rest of
the invariant holds.

**GoalLoopProofs** (any features, files, attempts, edits, runs and callers): `CommitsAreDueHolds`,
`FeaturesDecideHolds`, `SignalReportedHolds`, `IndexRestoredHolds`. The properties speak of what the
program's locals still mean some steps after they were set, while the agent and its descendants
write. `IInv` is therefore indexed by the program counter: what was checked before the commit
boundary, of the request and of the index, still holds there (`Control`); the document the runner
read is the one in the worktree, then in the index, then in the commit, as long as no process left
behind wrote (`Meaning`); and what was told is true (`Told`).

Only model-checked, and why:

* All liveness (`EveryInvocationEnds`, both `RunEnds`, `IntakeEnds`, `SuiteEnds`, `Ends`): out of the
  prover's reach.

## 5. What is left out

Not modelled, and why:

* The static scanner (`doctor.py`, `formatters.py`): one pass of text patterns over files, without
  state; the patterns are data.
* Approval drafts and promotion, dry runs and profiles, review and release scripts: they write
  documents for a Human or run fixed commands; what an approval may authorise is modelled where it
  is read.
* The zizmor adapter and the readiness and plan validators around it: no command of the CLI runs
  them; their shape repeats `ScannerAdapters` and `DockerRunner`.
* Behaviour policy, observer and image evidence: validators of evidence documents.
* The worktree binding of an authorization, used outside sandbox-run.

Abstracted inside the modules:

* Wording, previews and diffs in reports, and redaction but for that of the scanner adapters; text patterns are bits of the documents they
  occur in. The construction of the docker argv and the seccomp profile: data, not control.
* JSON parsing: whether a document is an object of the closed schema.
* `ControlFile` assumes each change gives a new ctime; `VerifiedSnapshot` does not when `coarse`.
* The gate policy file: unreadable or invalid, it falls back to the default policy; the v3 path
  never loads it.
* The rescan reads only the first bytes of a text; the model takes the patterns found there.
* Two goal-loop runners in one worktree: nothing in the code excludes them, and the model has one.
* Uncaught `OSError`s of `snapshot_workspace` before the `try` (`sandbox/run.py:205`) and of `os.read`
  (`control_file.py:180`).

## 6. Plan

The worktree binding of `gate/authorization.py`, and the behaviour-policy binding as pure
operators.
