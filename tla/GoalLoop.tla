------------------------------ MODULE GoalLoop ------------------------------
(***************************************************************************)
(* The goal loop of the repository: a runner (scripts/goal_loop_runner.py) *)
(* picks the first pending feature of docs/features.json, starts one agent *)
(* process for it under a deadline, and lets the host commit broker        *)
(* (scripts/host_commit.py) commit what the agent asked for.  The older    *)
(* loop and the kickoff of host_commit.py run the same broker without      *)
(* deadline, signal handlers or attempt limit.                             *)
(*                                                                         *)
(* The agent is untrusted: it edits any file, stages, asks for any commit, *)
(* spoils the runner's files, ignores signals, and may leave a process     *)
(* behind that goes on editing files.  The feature list itself is fixed    *)
(* (docs/PLAN.md freezes it); the agent changes the status of its entries. *)
(***************************************************************************)
EXTENDS Integers, FiniteSets, FiniteSetsExt, PythonValues

CONSTANTS
    NumFeatures,     \* entries of docs/features.json, in its order
    Files,           \* the other paths of the repository
    Forbidden,       \* the paths validate_path_text refuses
    FeaturesFile,    \* docs/features.json
    Modes,           \* which programs run: "runner", "legacy", "kickoff"
    MaxIterations, MaxAttempts,
    Orphans,         \* whether a process of the agent may outlive it
    MaxEdits, MaxRuns

ASSUME GoalLoopAssumption ==
    /\ NumFeatures \in Nat \ {0} /\ MaxIterations \in Nat \ {0} /\ MaxAttempts \in Nat \ {0}
    /\ Forbidden \subseteq Files /\ FeaturesFile \notin Files /\ Orphans \in BOOLEAN
    /\ MaxEdits \in Nat /\ MaxRuns \in Nat /\ Modes \subseteq {"runner", "legacy", "kickoff"}
    /\ NULL \notin Int

VARIABLES
    work, index, head,   \* the worktree, the index and the commit of every path
    request,             \* commit-request.json: absent, or the paths it names (none: refused as malformed)
    snapTouched,         \* whether pre-existing-dirty.json differs from what the runner wrote
    finalMd,             \* whether final.md is readable
    agent,               \* the agent process: none, running, or exited with 0 or 1
    orphan,              \* whether a process of an earlier agent is still alive
    sig,                 \* RECEIVED_SIGNAL
    r,                   \* the locals of the program that runs
    last,                \* the last host commit, with the circumstances it was made under
    late,                \* whether such a process wrote during this iteration
    edits, runs

repository == <<work, index, head>>
evidence == <<request, snapTouched, finalMd>>
processes == <<agent, orphan>>
history == <<last, late, edits, runs>>
vars == <<repository, evidence, processes, sig, r, history>>

Features == 1..NumFeatures
Paths == Files \cup {FeaturesFile}
Status == [passes : BOOLEAN, blocked : BOOLEAN]
Pending == [passes |-> FALSE, blocked |-> FALSE]

\* The global state of a features document; NULL is one that fails the schema
feature_completion_state(d) ==
    CASE d = NULL -> "invalid"
      [] d # NULL /\ \A f \in Features : d[f].passes -> "all_passed"
      [] d # NULL /\ (\E f \in Features : ~d[f].passes)
                  /\ (\A f \in Features : d[f].passes \/ d[f].blocked) -> "all_remaining_blocked"
      [] OTHER -> "continue"

Selectable(d) == {f \in Features : ~d[f].passes /\ ~d[f].blocked}
pending_feature(d) == IF Selectable(d) = {} THEN NULL ELSE Min(Selectable(d))

\* git status --porcelain and git diff --cached --name-only
Staged == {p \in Paths : index[p] # head[p]}
Dirty == {p \in Paths : work[p] # index[p]} \cup Staged

-----------------------------------------------------------------------------
(* What the runner decides at the end of an iteration *)

Outcome(state, exit) == [state |-> state, exit |-> exit]

determine_outcome ==
    LET done == feature_completion_state(r.doc)
        mine == r.doc[r.feature]
        final == r.iter = MaxIterations
    IN  IF sig THEN Outcome("interrupted", 130)
        ELSE IF r.res.timed THEN Outcome("timed_out", 4)
        ELSE IF r.artErr \/ r.res.code # 0 THEN Outcome("failed", 3)
        ELSE IF r.hce # NULL THEN Outcome("failed", r.hce)
        ELSE IF done = "all_passed" THEN Outcome("complete", 0)
        ELSE IF done = "all_remaining_blocked" THEN Outcome("blocked", 2)
        ELSE IF mine.passes \/ mine.blocked
             THEN IF final THEN Outcome("incomplete", 1)
                  ELSE Outcome(IF mine.passes THEN "feature_complete" ELSE "feature_blocked", NULL)
        ELSE IF r.attempts[r.feature] >= MaxAttempts THEN Outcome("manual_review", 2)
        ELSE Outcome("incomplete", IF final THEN 1 ELSE NULL)

Fresh(mode) ==
    [pc |-> IF mode = "kickoff" THEN "snapshot" ELSE "load", mode |-> mode, iter |-> 1,
     attempts |-> [f \in Features |-> 0], feature |-> NULL, doc |-> NULL, snap |-> NULL,
     res |-> NULL, artErr |-> FALSE, hce |-> NULL, out |-> NULL, seen |-> FALSE,
     index |-> "untouched", receipt |-> FALSE, meta |-> NULL, exit |-> NULL]

At(pc) == r.pc = pc
Go(pc) == [r EXCEPT !.pc = pc]
Return(code) == [r EXCEPT !.pc = "returned", !.exit = code]
Active == r.pc \notin {"idle", "returned", "dead"}
Only(v) == UNCHANGED <<v, processes, sig, history>>

\* HostCommitError: main of host_commit.py returns its code, the runner maps it
map_commit_error(code) == CASE code = 10 -> 5 [] code = 11 -> 6 [] OTHER -> 7

-----------------------------------------------------------------------------
(* The loop: selection, snapshot of what is already dirty, the agent process *)

Start(mode) ==
    /\ ~Active /\ runs < MaxRuns /\ mode \in Modes
    /\ r' = Fresh(mode) /\ runs' = runs + 1 /\ sig' = FALSE
    /\ UNCHANGED <<repository, evidence, processes, last, late, edits>>

StartRunner == Start("runner")
StartLegacyLoop == Start("legacy")
StartKickoff == Start("kickoff")

\* run_loop reads the document once before its first iteration and again in each
Select ==
    /\ r.pc \in {"load", "select"}
    /\ LET d == work[FeaturesFile]
           f == pending_feature(d)
       IN  r' = IF r.pc = "select" /\ r.iter > MaxIterations
                THEN Return(IF r.mode = "runner" THEN 0 ELSE 1)
                ELSE IF d = NULL THEN Return(IF r.mode = "runner" THEN 3 ELSE 10)
                ELSE IF f = NULL
                     THEN [Return(IF feature_completion_state(d) = "all_passed" THEN 0 ELSE 2)
                             EXCEPT !.doc = d]
                ELSE IF r.pc = "load" THEN Go("select")
                ELSE [r EXCEPT !.pc = "snapshot", !.doc = d, !.feature = f, !.attempts[f] = @ + 1,
                               !.res = NULL, !.artErr = FALSE, !.hce = NULL, !.receipt = FALSE,
                               !.index = "untouched"]
    /\ late' = FALSE
    /\ UNCHANGED <<repository, evidence, processes, sig, last, edits, runs>>

\* Written into a new directory, so neither a snapshot nor a request can be there before
write_snapshot ==
    /\ At("snapshot")
    /\ \/ r' = Return(IF r.mode = "runner" THEN 5 ELSE 10) /\ UNCHANGED evidence
       \/ /\ r' = [r EXCEPT !.pc = "launch", !.snap = [dirty |-> Dirty, staged |-> Staged]]
          /\ request' = NULL /\ snapTouched' = FALSE /\ finalMd' = TRUE
    /\ Only(repository)

\* Popen in a session of its own; the executable may be missing
Launch ==
    /\ At("launch")
    /\ \/ /\ r' = [r EXCEPT !.pc = "collect", !.res = [code |-> 127, timed |-> FALSE]]
          /\ UNCHANGED agent
       \/ agent' = "running" /\ r' = Go("wait")
    /\ UNCHANGED <<repository, evidence, orphan, sig, history>>

ExitCode == IF agent = "exit0" THEN 0 ELSE 1

WaitAgent ==
    /\ At("wait") /\ agent \in {"exit0", "exit1"}
    /\ r' = [r EXCEPT !.pc = "collect", !.res = [code |-> ExitCode, timed |-> FALSE]]
    /\ agent' = "none"
    /\ UNCHANGED <<repository, evidence, orphan, sig, history>>

\* The deadline passed before the agent exited; the older loop has none
Deadline ==
    /\ At("wait") /\ agent = "running" /\ r.mode = "runner"
    /\ r' = Go("interrupt")
    /\ UNCHANGED <<repository, evidence, processes, sig, history>>

\* Mutant: nothing stronger than the interrupt is sent
terminate_timed_out_process_Polite ==
    /\ r.pc \in {"interrupt", "terminate", "kill"} /\ agent \in {"exit0", "exit1"}
    /\ r' = [r EXCEPT !.pc = "collect", !.res = [code |-> ExitCode, timed |-> TRUE]]
    /\ agent' = "none"
    /\ UNCHANGED <<repository, evidence, orphan, sig, history>>

\* Interrupt, terminate, kill, with a bounded wait after each; the last wait may still end with
\* the process alive, and from then on nobody watches it
terminate_timed_out_process ==
    /\ r.pc \in {"interrupt", "terminate", "kill"}
    /\ \/ /\ agent \in {"exit0", "exit1"}
          /\ r' = [r EXCEPT !.pc = "collect", !.res = [code |-> ExitCode, timed |-> TRUE]]
          /\ agent' = "none" /\ UNCHANGED <<orphan, finalMd>>
       \/ /\ agent = "running" /\ r.pc # "kill"
          /\ r' = Go(IF r.pc = "interrupt" THEN "terminate" ELSE "kill")
          /\ UNCHANGED <<processes, finalMd>>
       \/ /\ agent = "running" /\ r.pc = "kill"
          /\ r' = [r EXCEPT !.pc = "collect", !.res = [code |-> NULL, timed |-> TRUE]]
          /\ agent' = "none" /\ orphan' \in {orphan, orphan \/ Orphans} /\ finalMd' \in BOOLEAN
    /\ UNCHANGED <<repository, request, snapTouched, sig, history>>

\* final.md and features.json are read back; either may be spoilt
ReadBack ==
    /\ At("collect") /\ r.mode = "runner"
    /\ LET d == work[FeaturesFile]
           bad == ~finalMd \/ d = NULL
       IN  r' = [r EXCEPT !.artErr = bad, !.doc = IF d = NULL THEN @ ELSE d,
                          !.pc = IF r.res.timed /\ ~bad THEN "pend" ELSE "gate"]
    /\ UNCHANGED <<repository, evidence, processes, sig, history>>

\* Mutant: the document is trusted
keep_timed_out_feature_pending_Trusts ==
    /\ At("pend") /\ r' = Go("gate")
    /\ UNCHANGED <<repository, evidence, processes, sig, history>>

\* The document as read is written back, with the feature not passed
keep_timed_out_feature_pending ==
    /\ At("pend")
    /\ LET kept == [r.doc EXCEPT ![r.feature].passes = FALSE]
       IN  /\ r' = [r EXCEPT !.pc = "gate", !.doc = kept]
           /\ IF r.doc[r.feature].passes
              THEN work' = [work EXCEPT ![FeaturesFile] = kept] /\ UNCHANGED <<index, head>>
              ELSE UNCHANGED repository
    /\ Only(evidence)

-----------------------------------------------------------------------------
(* The commit boundary of host_commit.py *)

CommitAllowed == r.res.code = 0 /\ ~r.res.timed /\ ~sig /\ ~r.artErr

Gate ==
    /\ At("gate")
    /\ r' = IF CommitAllowed THEN Go("request") ELSE [Go("final") EXCEPT !.receipt = r.res.timed]
    /\ Only(<<repository, evidence>>)

\* The older loop and the kickoff ask only for the exit code of the agent
StreamEnded ==
    /\ At("collect") /\ r.mode # "runner"
    /\ r' = IF r.res.code = 0 THEN Go("request") ELSE Return(3)
    /\ Only(<<repository, evidence>>)

\* The boundary ends with 0 or an error, and the caller goes on
BoundaryEnded(code) ==
    CASE r.mode = "runner" ->
           [Go("final") EXCEPT !.hce = IF code = 0 THEN NULL ELSE map_commit_error(code)]
      [] r.mode # "runner" /\ code # 0 -> Return(map_commit_error(code))
      [] r.mode = "kickoff" /\ code = 0 -> Return(0)
      [] OTHER -> Go("after")

BoundaryEnds(code) == r' = BoundaryEnded(code)

\* validate_path_text refuses secrets, logs, and every path that is not plain and relative
validate_path_text(p) == p \notin Forbidden
load_request == request # {} /\ \A p \in request : validate_path_text(p)
load_snapshot == \A p \in r.snap.dirty : validate_path_text(p)

run_commit_boundary ==
    /\ At("request")
    /\ IF request = NULL \/ snapTouched THEN BoundaryEnds(10)
       ELSE IF load_request /\ load_snapshot THEN r' = Go("state")
       ELSE BoundaryEnds(10)
    /\ Only(<<repository, evidence>>)

\* Mutant: files that were dirty before the agent started may be committed
validate_request_state_TakesDirty(paths) ==
    CASE r.snap.staged # {} \/ Staged # {} -> 11
      [] (Dirty \ r.snap.dirty) \ paths # {} \/ paths \ Dirty # {} -> 10
      [] OTHER -> 0

validate_request_state(paths) ==
    CASE paths \cap r.snap.dirty # {} -> 10
      [] paths \cap r.snap.dirty = {} /\ (r.snap.staged # {} \/ Staged # {}) -> 11
      [] paths \cap r.snap.dirty = {} /\ r.snap.staged = {} /\ Staged = {}
           /\ (\/ (Dirty \ r.snap.dirty) \ paths # {} \/ paths \ Dirty # {}
               \/ \E p \in paths : work[p] = NULL /\ p # FeaturesFile) -> 10
      [] OTHER -> 0

CheckState ==
    /\ At("state")
    /\ LET code == validate_request_state(request)
       IN  IF code = 0 THEN r' = Go("add") ELSE BoundaryEnds(code)
    /\ Only(<<repository, evidence>>)

\* git add: all of the paths or, when it fails, none
GitAdd ==
    /\ At("add")
    /\ \/ BoundaryEnds(11) /\ UNCHANGED index
       \/ /\ index' = [p \in Paths |-> IF p \in request THEN work[p] ELSE index[p]]
          /\ r' = [Go("staged") EXCEPT !.index = "added"]
    /\ UNCHANGED <<work, head>> /\ Only(evidence)

\* Mutant: a refusal after git add leaves the index as it is
Unstage_Forgets(code) ==
    r' = [BoundaryEnded(code) EXCEPT !.index = "restored"] /\ UNCHANGED index

\* The finally of commit_request: git restore --staged, whose own failure is not looked at
Unstage(code) ==
    /\ r' = [BoundaryEnded(code) EXCEPT !.index = "restored"]
    /\ index' = [p \in Paths |-> IF p \in request THEN head[p] ELSE index[p]]

UnstageFails(code) == r' = [BoundaryEnded(code) EXCEPT !.index = "unknown"] /\ UNCHANGED index

\* The staged paths are the requested ones, and git diff --cached --check finds nothing
CheckStaged ==
    /\ At("staged")
    /\ \/ /\ Staged = request /\ r' = Go("commit") /\ UNCHANGED <<index, last>>
       \/ Unstage(11) /\ UNCHANGED last
       \/ UnstageFails(11) /\ UNCHANGED last
    /\ UNCHANGED <<work, head, evidence, processes, sig, late, edits, runs>>

\* git commit takes the index, whatever the worktree holds by now; a hook may refuse it
GitCommit ==
    /\ At("commit")
    /\ \/ /\ head' = index /\ UNCHANGED index
          /\ r' = [BoundaryEnded(0) EXCEPT !.index = "committed"]
          /\ last' = [paths |-> {p \in Paths : index[p] # head[p]},
                      asked |-> request, dirty |-> r.snap.dirty, res |-> r.res,
                      artErr |-> r.artErr]
       \/ Unstage(12) /\ UNCHANGED <<head, last>>
       \/ UnstageFails(12) /\ UNCHANGED <<head, last>>
    /\ UNCHANGED <<work, evidence, processes, sig, late, edits, runs>>

\* After a commit the older loop reads the document again
AfterCommit ==
    /\ At("after")
    /\ LET done == feature_completion_state(work[FeaturesFile])
       IN  r' = CASE done = "invalid" -> Return(10)
                  [] done = "all_passed" -> Return(0)
                  [] done = "all_remaining_blocked" -> Return(2)
                  [] done = "continue" -> [Go("select") EXCEPT !.iter = @ + 1]
    /\ Only(<<repository, evidence>>)

-----------------------------------------------------------------------------
(* finalize_iteration: decide, write the metadata, look whether a signal came meanwhile *)

Decide ==
    /\ At("final")
    /\ LET out == determine_outcome
       IN  r' = [r EXCEPT !.pc = "confirm", !.out = out, !.seen = sig,
                          !.meta = IF out.exit = NULL THEN @ ELSE out]
    /\ Only(<<repository, evidence>>)

\* Mutant: a signal that came while the metadata were written is not looked for
Confirm_Once ==
    /\ At("confirm")
    /\ r' = IF r.out.exit = NULL THEN [Go("select") EXCEPT !.iter = @ + 1]
            ELSE [Return(r.out.exit) EXCEPT !.seen = sig]
    /\ Only(<<repository, evidence>>)

Confirm ==
    /\ At("confirm")
    /\ r' = CASE sig # r.seen -> Go("final")
              [] sig = r.seen /\ r.out.exit = NULL -> [Go("select") EXCEPT !.iter = @ + 1]
              [] OTHER -> Return(r.out.exit)
    /\ Only(<<repository, evidence>>)

-----------------------------------------------------------------------------
(* Signals, crashes, and the agent *)

\* The handler remembers the first signal and passes it on; whether the agent heeds it is its own
Signal ==
    /\ Active /\ r.mode = "runner" /\ ~sig
    /\ sig' = TRUE
    /\ UNCHANGED <<repository, evidence, processes, r, history>>

\* A kill, or a signal in a program without handlers: the agent, in its own session, lives on.
\* A KeyboardInterrupt unwinds through the finally that restores the index.
Killed ==
    /\ Active
    /\ r' = Go("dead")
    /\ orphan' \in {orphan, orphan \/ (Orphans /\ agent = "running")}
    /\ agent' = "none"
    /\ \/ UNCHANGED index
       \/ /\ r.mode # "runner" /\ r.pc \in {"staged", "commit"}
          /\ index' = [p \in Paths |-> IF p \in request THEN head[p] ELSE index[p]]
    /\ UNCHANGED <<work, head, evidence, sig, history>>

Edited(by) ==
    /\ edits < MaxEdits /\ edits' = edits + 1
    /\ late' = (late \/ by = "orphan")
    /\ \/ \E p \in Files, v \in {0, 1, NULL} : v # work[p] /\ work' = [work EXCEPT ![p] = v]
       \/ work' = [work EXCEPT ![FeaturesFile] = NULL]
       \/ \E f \in Features, s \in Status :
             /\ work[FeaturesFile] # NULL
             /\ work' = [work EXCEPT ![FeaturesFile][f] = s]

AgentEdit == agent = "running" /\ Edited("agent") /\ UNCHANGED <<index, head, evidence, processes, sig, r, last, runs>>
OrphanEdit == orphan /\ Edited("orphan") /\ UNCHANGED <<index, head, evidence, processes, sig, r, last, runs>>

AgentStage ==
    /\ agent = "running" /\ edits < MaxEdits /\ edits' = edits + 1
    /\ \E p \in Paths : work[p] # index[p] /\ index' = [index EXCEPT ![p] = work[p]]
    /\ UNCHANGED <<work, head, evidence, processes, sig, r, last, late, runs>>

\* The agent ends, and leaves its request and the runner's files as it likes: nobody looks at
\* them before.  A process it started may live on.
AgentExit ==
    /\ agent = "running" /\ agent' \in {"exit0", "exit1"}
    /\ request' \in IF agent' = "exit0" THEN {NULL} \cup SUBSET Paths ELSE {NULL}
    /\ \/ snapTouched' \in BOOLEAN /\ finalMd' = TRUE
       \/ snapTouched' = FALSE /\ finalMd' = FALSE
    /\ orphan' \in {orphan, orphan \/ Orphans}
    /\ UNCHANGED <<repository, sig, r, history>>

OrphanEnds == orphan /\ orphan' = FALSE /\ UNCHANGED <<repository, evidence, agent, sig, r, history>>

-----------------------------------------------------------------------------
\* The owner may have edited, and even staged, files of their own before the first run
Init ==
    /\ head = [p \in Paths |-> IF p = FeaturesFile THEN [f \in Features |-> Pending] ELSE 0]
    /\ work \in {[head EXCEPT ![p] = v] : p \in Files, v \in {0, 1}}
    /\ index \in {head, work}
    /\ request = NULL /\ snapTouched = FALSE /\ finalMd = TRUE
    /\ agent = "none" /\ orphan = FALSE /\ sig = FALSE
    /\ r = [Fresh("runner") EXCEPT !.pc = "idle"]
    /\ last = NULL /\ late = FALSE /\ edits = 0 /\ runs = 0

Program ==
    \/ Select \/ write_snapshot \/ Launch \/ WaitAgent \/ Deadline \/ terminate_timed_out_process
    \/ ReadBack \/ keep_timed_out_feature_pending \/ Gate \/ StreamEnded \/ run_commit_boundary \/ CheckState
    \/ GitAdd \/ CheckStaged \/ GitCommit \/ AfterCommit \/ Decide \/ Confirm

Environment ==
    \/ StartRunner \/ StartLegacyLoop \/ StartKickoff \/ Signal \/ Killed \/ AgentEdit \/ OrphanEdit \/ AgentStage \/ AgentExit \/ OrphanEnds

Next == Program \/ Environment

\* Every step of the program ends, the deadline included; nothing is assumed of the agent
Spec == Init /\ [][Next]_vars /\ WF_vars(Program)

-----------------------------------------------------------------------------
(* Properties *)

TypeOK ==
    /\ \A p \in Files : {work[p], index[p], head[p]} \subseteq {0, 1, NULL}
    /\ \A m \in {work, index, head} : m[FeaturesFile] = NULL \/ m[FeaturesFile] \in [Features -> Status]
    /\ agent \in {"none", "running", "exit0", "exit1"} /\ {orphan, sig, finalMd, snapTouched, late} \subseteq BOOLEAN
    /\ r.iter \in 1..(MaxIterations + 1) /\ r.feature \in Features \cup {NULL}
    /\ r.exit \in {NULL, 0, 1, 2, 3, 4, 5, 6, 7, 10, 130}

\* A host commit changes exactly the paths that were asked for, none of them forbidden, none of
\* them dirty before the agent started: the owner's own work is never committed (host_commit.py)
OwnerWorkNotCommitted ==
    last # NULL =>
      /\ last.paths = last.asked /\ last.asked \cap Forbidden = {}
      /\ last.paths \cap last.dirty = {}

\* The runner commits only for an agent that ended by itself with 0, in time and with its
\* evidence readable: not for one that answered the termination with exit code 0
NoCommitAfterTimeout ==
    last # NULL => (last.res.code = 0 /\ ~last.res.timed /\ ~last.artErr)

\* When the runner calls a feature complete that started from a clean tree, the commit holds the
\* document that says so, unless a process left behind wrote meanwhile
CompleteIsCommitted ==
    /\ At("confirm") /\ r.out.state \in {"complete", "feature_complete", "feature_blocked"}
    /\ r.snap.dirty = {} /\ ~late /\ sig = r.seen
    => head[FeaturesFile] = r.doc

\* A feature whose agent ran into the deadline does not count as passed when the runner returns,
\* unless the evidence was unreadable or a process left behind wrote meanwhile
TimedOutNotPassed ==
    At("returned") /\ r.exit = 4 /\ ~r.artErr /\ ~late => ~work[FeaturesFile][r.feature].passes

\* When an iteration has decided how the run ends, the runner returns the exit code its metadata record, and
\* a signal that came before the last look for one is in both (finalize_iteration).  The returns that no
\* iteration decides, out of the selection and out of a snapshot that fails, look for no signal and write no
\* metadata: a signal that comes between two iterations may get lost in them.
SignalReported ==
    At("returned") /\ r.mode = "runner" /\ r.out # NULL /\ r.out.exit # NULL
      => r.meta = r.out /\ r.exit = r.meta.exit /\ (r.seen => r.exit = 130)

\* Exit code 0 of the runner means that the document it read had every feature passed
ZeroMeansAllPassed ==
    At("returned") /\ r.mode = "runner" /\ r.exit = 0 => \A f \in Features : r.doc[f].passes

\* The runner starts another agent only when the one before it ended by itself and left its feature
\* decided, or undecided with attempts to spare
NextAgentIsDue ==
    At("select") /\ r.mode = "runner" /\ r.iter > 1 =>
      /\ r.res.code = 0 /\ ~r.res.timed /\ r.hce = NULL
      /\ ~r.doc[r.feature].passes /\ ~r.doc[r.feature].blocked => r.attempts[r.feature] < MaxAttempts

\* A program that asked git to add files returns with nothing staged, after a commit as after a
\* refusal, unless git could not restore the index
IndexRestored ==
    At("returned") /\ r.index \in {"added", "committed", "restored"} => Staged = {}

\* A commit holds the work that was asked for by an agent that ended in time, and nothing of the owner's
\* (host_commit.py, the commit step of goal_loop_runner.py)
CommitsAreDue == OwnerWorkNotCommitted /\ NoCommitAfterTimeout

\* What the runner says of features, and the agent it starts next, follow from features.json as it stands in
\* the commit (goal_loop_runner.py's outcome, timeout handling and selection)
FeaturesDecide ==
    TypeOK /\ CompleteIsCommitted /\ TimedOutNotPassed /\ ZeroMeansAllPassed /\ NextAgentIsDue

\* A run comes to an end, whatever the agent does, under the deadline of the runner
RunEnds == (Active /\ r.mode = "runner") ~> ~Active
=============================================================================
