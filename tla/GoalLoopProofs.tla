--------------------------- MODULE GoalLoopProofs ---------------------------
(***************************************************************************)
(* What the goal loop promises, for any number of features, files, edits   *)
(* and runs: a host commit holds what was asked for and nothing of the     *)
(* owner's (CommitsAreDue), the runner's verdicts follow from the document *)
(* that was committed (FeaturesDecide), an iteration that ends the run     *)
(* reports a signal it saw (SignalReported), and the index is left as it   *)
(* was found (IndexRestored).                                              *)
(*                                                                         *)
(* All four are about what the program's locals still mean some steps      *)
(* later, so the inductive invariant is indexed by the program counter.    *)
(***************************************************************************)
EXTENDS GoalLoop, WellFoundedInduction, TLAPS

Doc == [Features -> Status]
Res == [code : {0, 1, 127, NULL}, timed : BOOLEAN]
Exit == {NULL, 0, 1, 2, 3, 4, 5, 6, 7, 10, 130}
Out == [state : {"interrupted", "timed_out", "failed", "complete", "blocked", "incomplete",
                 "feature_complete", "feature_blocked", "manual_review"}, exit : Exit \ {10}]

Waiting == {"wait", "interrupt", "terminate", "kill"}
Boundary == {"request", "state", "add", "staged", "commit"}
Ended == {"idle", "returned", "dead"}
Pc == {"load", "select", "snapshot", "launch", "collect", "pend", "gate", "after", "final", "confirm"}
        \cup Waiting \cup Boundary \cup Ended

Run == [pc : Pc, mode : {"runner", "legacy", "kickoff"}, iter : 1..(MaxIterations + 1),
        attempts : [Features -> Nat], feature : Features \cup {NULL}, doc : Doc \cup {NULL},
        snap : [dirty : SUBSET Paths, staged : SUBSET Paths] \cup {NULL}, res : Res \cup {NULL},
        artErr : BOOLEAN, hce : {NULL, 5, 6, 7}, out : Out \cup {NULL}, seen : BOOLEAN,
        index : {"untouched", "added", "committed", "restored", "unknown"}, receipt : BOOLEAN,
        meta : Out \cup {NULL}, exit : Exit]

IsTree(m) ==
    /\ m = [p \in Paths |-> m[p]]
    /\ \A p \in Files : m[p] \in {0, 1, NULL}
    /\ m[FeaturesFile] = NULL \/ m[FeaturesFile] \in Doc

Types ==
    /\ IsTree(work) /\ IsTree(index) /\ IsTree(head)
    /\ agent \in {"none", "running", "exit0", "exit1"}
    /\ orphan \in BOOLEAN /\ sig \in BOOLEAN /\ finalMd \in BOOLEAN /\ snapTouched \in BOOLEAN /\ late \in BOOLEAN
    /\ r \in Run

\* What a program has in hand at its program counter
InHand ==
    /\ r.pc \in {"collect", "pend", "gate", "final", "confirm"} \cup Boundary => r.res \in Res
    /\ r.pc \in {"pend", "gate", "final", "confirm"} => r.feature \in Features /\ r.doc \in Doc
    /\ r.mode = "runner" /\ r.pc \in {"snapshot", "launch", "collect"} \cup Waiting \cup Boundary
         => r.feature \in Features /\ r.doc \in Doc
    /\ r.pc = "pend" => r.res.timed = TRUE
    /\ r.pc = "confirm" => r.out \in Out
    /\ r.pc \notin {"select", "returned", "dead"} => r.iter <= MaxIterations
    /\ r.pc = "load" => r.iter = 1
    /\ r.pc = "after" => r.mode # "runner"

\* The agent runs only while the program waits for it
AgentIsAwaited == agent # "none" => r.pc \in Waiting

\* The older loop and the kickoff have neither deadline nor evidence to read back
RunnerOnly ==
    r.mode # "runner" =>
      /\ r.artErr = FALSE
      /\ r.pc \notin {"interrupt", "terminate", "kill", "pend", "gate", "final", "confirm"}
      /\ r.pc = "collect" => r.res.timed = FALSE

\* The commit boundary is entered only for an agent that ended by itself with 0
Allowed == r.pc \in Boundary => r.res.code = 0 /\ r.res.timed = FALSE /\ r.artErr = FALSE

\* What validate_request_state established stays true up to the commit
Requested ==
    /\ r.pc \in {"state", "add", "staged", "commit"} => request \cap Forbidden = {}
    /\ r.pc \in {"add", "staged", "commit"} => request \cap r.snap.dirty = {}
    /\ r.pc = "commit" => Staged = request

\* What is staged, by what the program knows of the index
IndexKnown ==
    /\ r.pc = "add" => Staged = {}
    /\ r.pc \in {"staged", "commit"} => Staged \subseteq request
    /\ r.pc \in {"staged", "commit"} => r.index = "added"
    /\ r.index = "added" => r.pc \in {"staged", "commit", "dead"}
    /\ r.pc \in {"snapshot", "launch"} \cup Waiting => r.index = "untouched"
    /\ r.index \in {"committed", "restored"} => Staged = {}

\* As long as no process left behind wrote, the document the runner read is the one in the
\* worktree, then the one in the index, then the one in the commit
DocumentKept ==
    r.mode = "runner" /\ late = FALSE =>
      /\ r.pc = "pend" => work[FeaturesFile] = r.doc
      /\ r.pc = "gate" /\ r.artErr = FALSE /\ r.res.timed = FALSE => work[FeaturesFile] = r.doc
      /\ r.pc \in Boundary => work[FeaturesFile] = r.doc
      /\ r.pc = "add" /\ FeaturesFile \notin r.snap.dirty
           => FeaturesFile \in request \/ index[FeaturesFile] = work[FeaturesFile]
      /\ r.pc \in {"staged", "commit"} /\ FeaturesFile \notin r.snap.dirty => index[FeaturesFile] = r.doc
      /\ r.pc = "final" /\ r.res.code = 0 /\ r.res.timed = FALSE /\ r.artErr = FALSE
           /\ r.hce = NULL /\ sig = FALSE /\ FeaturesFile \notin r.snap.dirty => head[FeaturesFile] = r.doc
      /\ r.pc = "confirm" /\ r.out.state \in {"complete", "feature_complete", "feature_blocked"}
           /\ FeaturesFile \notin r.snap.dirty => head[FeaturesFile] = r.doc

\* A feature whose agent was terminated was put back to pending
PutBack ==
    r.artErr = FALSE /\ late = FALSE =>
      /\ r.pc \in {"gate", "final", "confirm"} /\ r.res.timed = TRUE
           => ~work[FeaturesFile][r.feature].passes
      /\ r.pc = "returned" /\ r.exit = 4 => ~work[FeaturesFile][r.feature].passes

\* The outcome that was decided, until it is confirmed and returned
Decided ==
    /\ r.pc \notin {"final", "confirm"} \cup Ended => r.out = NULL \/ r.out.exit = NULL
    /\ r.pc = "confirm" =>
         /\ r.seen = TRUE => sig = TRUE /\ r.out.exit = 130
         /\ r.out.exit # NULL => r.meta = r.out
         /\ r.out.exit = 4 => r.res.timed = TRUE
         /\ r.out.exit = 0 => \A f \in Features : r.doc[f].passes
         /\ r.out.exit = NULL =>
              /\ r.iter < MaxIterations /\ r.res.code = 0 /\ r.res.timed = FALSE /\ r.hce = NULL
              /\ r.doc[r.feature].passes \/ r.doc[r.feature].blocked \/ r.attempts[r.feature] < MaxAttempts
    /\ r.pc = "returned" => r.exit # NULL

Due ==
    r.pc = "select" /\ r.mode = "runner" =>
      /\ r.iter <= MaxIterations
      /\ r.iter > 1 =>
           /\ r.res.code = 0 /\ r.res.timed = FALSE /\ r.hce = NULL
           /\ r.doc[r.feature].passes \/ r.doc[r.feature].blocked \/ r.attempts[r.feature] < MaxAttempts

Control == InHand /\ AgentIsAwaited /\ RunnerOnly /\ Allowed /\ Requested /\ IndexKnown
Meaning == DocumentKept /\ PutBack /\ Decided /\ Due
Told == CommitsAreDue /\ SignalReported /\ ZeroMeansAllPassed

IInv == Types /\ Control /\ Meaning /\ Told

\* Besides the program counter and the receipt, a step changes at most the locals ks
Locals == {"mode", "iter", "attempts", "feature", "doc", "snap", "res", "artErr", "hce", "out", "seen",
           "index", "meta", "exit"}
Changes(ks) == \A k \in Locals : k \in ks \/ r'[k] = r[k]
Frozen == UNCHANGED <<repository, evidence, processes, sig, history>>

-----------------------------------------------------------------------------
\* A nonempty set of natural numbers, such as the open features, has a least element
LEMMA MinIsMember ==
    ASSUME NEW S \in SUBSET Nat, S # {}
    PROVE  Min(S) \in S
<1> DEFINE less == {ss \in Nat \X Nat : ss[1] < ss[2]}
<1>1. OpToRel(<, Nat) = less
  BY Zenon DEF OpToRel
<1>2. IsWellFoundedOn(less, Nat)
  BY <1>1, NatLessThanWellFounded, Zenon
<1> HIDE DEF less
<1>3. PICK x \in S : \A y \in S : ~(<<y, x>> \in less)
  BY <1>2, WFMin
<1>4. ASSUME NEW y \in S PROVE x =< y
  <2>1. y < x => <<y, x>> \in less
    BY DEF less
  <2> QED
    BY <1>3, <2>1
<1> QED
  BY <1>4 DEF Min


\* The values of the program counter
LEMMA PcMembers ==
    \A s \in {"load", "select", "snapshot", "launch", "collect", "pend", "gate", "after", "final",
              "confirm", "wait", "interrupt", "terminate", "kill", "request", "state", "add", "staged",
              "commit", "idle", "returned", "dead"} : s \in Pc
BY DEF Pc, Waiting, Boundary, Ended

\* Go changes the program counter only
LEMMA GoFields ==
    ASSUME r \in Run, NEW s \in Pc, r' = Go(s)
    PROVE  /\ r' \in Run /\ r'.pc = s
           /\ Changes({})
BY DEF Go, Run, Changes, Locals

\* Return sets the exit code as well
LEMMA ReturnFields ==
    ASSUME r \in Run, NEW code \in Exit, r' = Return(code)
    PROVE  /\ r' \in Run /\ r'.pc = "returned" /\ r'.exit = code
           /\ Changes({"exit"})
<1>1. "returned" \in Pc
  BY PcMembers
<1> QED
  BY <1>1 DEF Return, Run, Changes, Locals

\* The commit boundary leaves the runner at its decision and ends the other two programs, or
\* takes the older loop on
LEMMA BoundaryFields ==
    ASSUME r \in Run, NEW code \in {0, 10, 11, 12}, NEW b, b = BoundaryEnded(code)
    PROVE  /\ b \in Run
           /\ r.mode = "runner" => b.pc = "final" /\ (IF code = 0 THEN b.hce = NULL ELSE b.hce \in {5, 6, 7})
           /\ r.mode # "runner" => \/ b.pc = "after"
                                   \/ b.pc = "returned" /\ b.exit \in {0, 5, 6, 7}
           /\ \A k \in {"mode", "iter", "attempts", "feature", "doc", "snap", "res", "artErr", "out",
                        "seen", "index", "receipt", "meta"} : b[k] = r[k]
<1>1. "final" \in Pc /\ "after" \in Pc /\ "returned" \in Pc
  BY PcMembers
<1>2. map_commit_error(code) \in {5, 6, 7}
  BY DEF map_commit_error
<1>3. CASE r.mode = "runner"
  <2> DEFINE h == IF code = 0 THEN NULL ELSE map_commit_error(code)
  <2>1. b = [r EXCEPT !.pc = "final", !.hce = h]
    BY <1>3 DEF BoundaryEnded, Go
  <2>2. h \in {NULL, 5, 6, 7} /\ (IF code = 0 THEN h = NULL ELSE h \in {5, 6, 7})
    BY <1>2
  <2> HIDE DEF h
  <2>3. b \in Run
    BY <1>1, <2>1, <2>2, ZenonT(30) DEF Run
  <2>4. b.pc = "final" /\ b.hce = h
    BY <2>1 DEF Run
  <2>5. \A k \in {"mode", "iter", "attempts", "feature", "doc", "snap", "res", "artErr", "out",
                  "seen", "index", "receipt", "meta"} : b[k] = r[k]
    BY <2>1, ZenonT(30) DEF Run
  <2> QED
    BY <1>3, <2>2, <2>3, <2>4, <2>5
<1>4. ASSUME r.mode # "runner", NEW e \in {0, 5, 6, 7}, b = [r EXCEPT !.pc = "returned", !.exit = e]
      PROVE  /\ b \in Run /\ b.pc = "returned" /\ b.exit \in {0, 5, 6, 7}
             /\ \A k \in {"mode", "iter", "attempts", "feature", "doc", "snap", "res", "artErr", "out",
                          "seen", "index", "receipt", "meta"} : b[k] = r[k]
  <2>1. e \in Exit
    BY DEF Exit
  <2>2. b \in Run
    BY <1>1, <1>4, <2>1, ZenonT(30) DEF Run
  <2>3. b.pc = "returned" /\ b.exit = e
    BY <1>4 DEF Run
  <2>4. \A k \in {"mode", "iter", "attempts", "feature", "doc", "snap", "res", "artErr", "out",
                  "seen", "index", "receipt", "meta"} : b[k] = r[k]
    BY <1>4 DEF Run
  <2> QED
    BY <2>2, <2>3, <2>4
<1>5. CASE r.mode # "runner" /\ b = [r EXCEPT !.pc = "after"]
  BY <1>1, <1>5 DEF Run
<1>6. r.mode # "runner" => \/ b = [r EXCEPT !.pc = "after"]
                           \/ \E e \in {0, 5, 6, 7} : b = [r EXCEPT !.pc = "returned", !.exit = e]
  BY <1>2 DEF BoundaryEnded, Go, Return
<1> QED
  BY <1>3, <1>4, <1>5, <1>6

\* What pending_feature returns
LEMMA PendingFeature ==
    ASSUME NEW d, pending_feature(d) # NULL
    PROVE  pending_feature(d) \in Features
<1>1. Selectable(d) \subseteq Features /\ Features \subseteq Nat
  BY DEF Selectable, Features
<1> QED
  BY <1>1, MinIsMember DEF pending_feature

\* A document with nothing to select and the state all_passed has every feature passed
LEMMA AllPassed ==
    ASSUME NEW d, feature_completion_state(d) = "all_passed"
    PROVE  \A f \in Features : d[f].passes
BY DEF feature_completion_state

-----------------------------------------------------------------------------
\* The runner enters the commit boundary only when everything is in order
LEMMA GateKeeps ==
    ASSUME IInv, Gate
    PROVE  IInv'
<1>1. r \in Run /\ r.pc = "gate" /\ r.res \in Res
  BY DEF IInv, Types, Control, InHand, Gate, At
<1>2. Frozen
  BY DEF Gate, Only, Frozen
<1>3. UNCHANGED Staged
  BY <1>2 DEF Frozen, Staged, repository
<1>4. /\ r' \in Run /\ r'.pc = (IF CommitAllowed THEN "request" ELSE "final")
      /\ Changes({})
  <2>1. CASE CommitAllowed
    <3>1. r' = Go("request")
      BY <2>1 DEF Gate
    <3> QED
      BY <1>1, <2>1, <3>1, GoFields, PcMembers DEF Changes, Locals
  <2>2. CASE ~CommitAllowed
    <3>1. r' = [r EXCEPT !.pc = "final", !.receipt = r.res.timed]
      BY <2>2 DEF Gate, Go
    <3>2. r.res.timed \in BOOLEAN
      BY <1>1 DEF Res
    <3> QED
      BY <1>1, <2>2, <3>1, <3>2, PcMembers DEF Run, Changes, Locals
  <2> QED
    BY <2>1, <2>2
<1> USE DEF Waiting, Boundary, Ended
<1>5. Types'
  BY <1>2, <1>4 DEF IInv, Types, IsTree, Frozen, repository, evidence, processes, history
<1>6. Control'
  BY <1>1, <1>2, <1>3, <1>4 DEF IInv, Types, Control, InHand, AgentIsAwaited, RunnerOnly, Allowed,
     Requested, IndexKnown, CommitAllowed, Changes, Locals, Frozen, evidence, processes
<1>7. Meaning'
  BY <1>1, <1>2, <1>4 DEF IInv, Types, Control, InHand, Meaning, DocumentKept, PutBack, Decided, Due,
     CommitAllowed, Changes, Locals, Frozen, repository, history
<1>8. Told'
  BY <1>2, <1>4 DEF IInv, Told, CommitsAreDue, OwnerWorkNotCommitted, NoCommitAfterTimeout,
     SignalReported, ZeroMeansAllPassed, At, Changes, Locals, Frozen, history
<1> QED
  BY <1>5, <1>6, <1>7, <1>8 DEF IInv

\* Recording what became of the index changes nothing else
LEMMA IndexField ==
    ASSUME NEW b \in Run, NEW idx \in {"untouched", "added", "committed", "restored", "unknown"}
    PROVE  /\ [b EXCEPT !.index = idx] \in Run /\ [b EXCEPT !.index = idx].index = idx
           /\ \A k \in {"pc", "mode", "iter", "attempts", "feature", "doc", "snap", "res", "artErr", "hce",
                        "out", "seen", "receipt", "meta", "exit"} : [b EXCEPT !.index = idx][k] = b[k]
BY DEF Run

\* Leaving the commit boundary, with or without a commit
LEMMA LeaveBoundary ==
    ASSUME IInv, r.pc \in Boundary, NEW code \in {0, 10, 11, 12}, NEW idx,
           r' = [BoundaryEnded(code) EXCEPT !.index = idx],
           idx \in {"untouched", "committed", "restored", "unknown"},
           UNCHANGED <<work, evidence, processes, sig, late>>, IsTree(index'), IsTree(head'),
           idx \in {"committed", "restored"} => Staged' = {},
           r.mode = "runner" /\ code = 0 /\ late = FALSE /\ FeaturesFile \notin r.snap.dirty
             => head'[FeaturesFile] = r.doc,
           CommitsAreDue'
    PROVE  IInv'
<1>1. r \in Run
  BY DEF IInv, Types
<1> DEFINE b == BoundaryEnded(code)
<1>2. /\ b \in Run
      /\ r.mode = "runner" => b.pc = "final" /\ (IF code = 0 THEN b.hce = NULL ELSE b.hce \in {5, 6, 7})
      /\ r.mode # "runner" => \/ b.pc = "after"
                              \/ b.pc = "returned" /\ b.exit \in {0, 5, 6, 7}
      /\ \A k \in {"mode", "iter", "attempts", "feature", "doc", "snap", "res", "artErr", "out",
                   "seen", "index", "receipt", "meta"} : b[k] = r[k]
  BY <1>1, BoundaryFields
<1>3. r' = [b EXCEPT !.index = idx]
  OBVIOUS
<1> HIDE DEF b
<1>4. r' \in Run /\ r'.index = idx
  <2>1. idx \in {"untouched", "added", "committed", "restored", "unknown"}
    OBVIOUS
  <2>2. b \in Run
    BY <1>2
  <2>3. [b EXCEPT !.index = idx] \in Run /\ [b EXCEPT !.index = idx].index = idx
    BY <2>1, <2>2, IndexField, Zenon
  <2> QED
    BY <1>3, <2>3, Zenon
<1>5. /\ r'.pc = b.pc /\ r'.hce = b.hce /\ r'.exit = b.exit
      /\ Changes({"hce", "index", "exit"})
  BY <1>2, <1>3 DEF Run, Changes, Locals
<1>6. /\ r'.mode = "runner" => r'.pc = "final" /\ (code # 0 => r'.hce # NULL)
      /\ r'.mode # "runner" => r'.pc \in {"after", "returned"}
      /\ r'.pc = "returned" => r'.exit # NULL /\ r'.exit # 4
  BY <1>2, <1>5, GoalLoopAssumption DEF Changes, Locals
<1> USE DEF Waiting, Boundary, Ended
<1>7. Types'
  BY <1>4 DEF IInv, Types, IsTree, evidence, processes
<1>8. Control'
  BY <1>4, <1>5, <1>6 DEF IInv, Types, Control, InHand, AgentIsAwaited, RunnerOnly, Allowed,
     Requested, IndexKnown, Changes, Locals, evidence, processes
<1>9. Meaning'
  BY <1>5, <1>6 DEF IInv, Types, Control, InHand, Allowed, Meaning, DocumentKept, PutBack, Decided, Due,
     Changes, Locals
<1>10. Told'
  BY <1>5, <1>6 DEF IInv, Told, SignalReported, ZeroMeansAllPassed, At
<1> QED
  BY <1>7, <1>8, <1>9, <1>10 DEF IInv

\* The same, when git add was not reached
LEMMA LeaveEarly ==
    ASSUME IInv, r.pc \in {"request", "state", "add"}, NEW code \in {10, 11, 12}, BoundaryEnds(code), Frozen
    PROVE  IInv'
<1>1. r \in Run
  BY DEF IInv, Types
<1>2. r' = [BoundaryEnded(code) EXCEPT !.index = r.index]
  <2> DEFINE b == BoundaryEnded(code)
  <2>1. b \in Run /\ b.index = r.index
    BY <1>1, BoundaryFields
  <2>2. r' = b
    BY DEF BoundaryEnds
  <2> HIDE DEF b
  <2>3. b = [b EXCEPT !.index = r.index]
    BY <2>1 DEF Run
  <2> QED
    BY <2>2, <2>3 DEF b
<1>3. r.index \in {"untouched", "committed", "restored", "unknown"}
  BY <1>1 DEF IInv, Control, IndexKnown, Run
<1>4. Staged' = Staged
  BY DEF Frozen, Staged, repository
<1>5. IsTree(index') /\ IsTree(head')
  BY DEF Frozen, repository, IInv, Types, IsTree
<1>6. CommitsAreDue'
  BY DEF Frozen, history, IInv, Told, CommitsAreDue, OwnerWorkNotCommitted, NoCommitAfterTimeout
<1>7. r.pc \in Boundary
  BY DEF Boundary
<1>8. UNCHANGED <<work, evidence, processes, sig, late>>
  BY DEF Frozen, repository, history
<1>9. r.index \in {"committed", "restored"} => Staged' = {}
  BY <1>4 DEF IInv, Control, IndexKnown
<1>10. code \in {0, 10, 11, 12} /\ code # 0
  OBVIOUS
<1> QED
  BY <1>2, <1>3, <1>5, <1>6, <1>7, <1>8, <1>9, <1>10, LeaveBoundary

\* run_commit_boundary enters the boundary with a well-formed request or leaves it with 10
LEMMA RequestKeeps ==
    ASSUME IInv, run_commit_boundary
    PROVE  IInv'
<1>1. r \in Run /\ r.pc = "request"
  BY DEF IInv, Types, run_commit_boundary, At
<1>2. Frozen
  BY DEF run_commit_boundary, Only, Frozen
<1>3. CASE BoundaryEnds(10)
  BY <1>1, <1>2, <1>3, LeaveEarly
<1>4. CASE r' = Go("state") /\ load_request
  <2>1. UNCHANGED Staged
    BY <1>2 DEF Frozen, Staged, repository
  <2>2. /\ r' \in Run /\ r'.pc = "state"
        /\ Changes({})
    BY <1>1, <1>4, GoFields, PcMembers DEF Changes, Locals
  <2> USE DEF Waiting, Boundary, Ended
  <2>3. Types'
    BY <1>2, <2>2 DEF IInv, Types, IsTree, Frozen, repository, evidence, processes, history
  <2>4. request \cap Forbidden = {}
    BY <1>4 DEF load_request, validate_path_text
  <2>5. Control'
    BY <1>1, <1>2, <2>1, <2>2, <2>4 DEF IInv, Types, Control, InHand, AgentIsAwaited, RunnerOnly, Allowed,
       Requested, IndexKnown, Changes, Locals, Frozen, evidence, processes
  <2>6. Meaning'
    BY <1>1, <1>2, <2>2 DEF IInv, Types, Control, InHand, Meaning, DocumentKept, PutBack, Decided, Due,
       Changes, Locals, Frozen, repository, history
  <2>7. Told'
    BY <1>2, <2>2 DEF IInv, Told, CommitsAreDue, OwnerWorkNotCommitted, NoCommitAfterTimeout,
       SignalReported, ZeroMeansAllPassed, At, Changes, Locals, Frozen, history
  <2> QED
    BY <2>3, <2>5, <2>6, <2>7 DEF IInv
<1> QED
  BY <1>3, <1>4 DEF run_commit_boundary

\* validate_request_state: nothing of the owner's is asked for, nothing of the agent's is left out
LEMMA CheckStateKeeps ==
    ASSUME IInv, CheckState
    PROVE  IInv'
<1>1. r \in Run /\ r.pc = "state"
  BY DEF IInv, Types, CheckState, At
<1>2. Frozen
  BY DEF CheckState, Only, Frozen
<1>3. validate_request_state(request) \in {0, 10, 11}
  BY DEF validate_request_state
<1>4. CASE validate_request_state(request) # 0
  BY <1>1, <1>2, <1>3, <1>4, LeaveEarly DEF CheckState
<1>5. CASE validate_request_state(request) = 0
  <2>1. UNCHANGED Staged
    BY <1>2 DEF Frozen, Staged, repository
  <2>2. /\ r' \in Run /\ r'.pc = "add"
        /\ Changes({})
    BY <1>1, <1>5, GoFields, PcMembers DEF CheckState, Changes, Locals
  <2>3. request \cap r.snap.dirty = {} /\ Staged = {} /\ (Dirty \ r.snap.dirty) \ request = {}
    BY <1>5 DEF validate_request_state
  <2>4. FeaturesFile \notin r.snap.dirty
          => FeaturesFile \in request \/ index[FeaturesFile] = work[FeaturesFile]
    BY <2>3 DEF Dirty, Paths
  <2> USE DEF Waiting, Boundary, Ended
  <2>5. Types'
    BY <1>2, <2>2 DEF IInv, Types, IsTree, Frozen, repository, evidence, processes, history
  <2>6. Control'
    BY <1>1, <1>2, <2>1, <2>2, <2>3 DEF IInv, Types, Control, InHand, AgentIsAwaited, RunnerOnly, Allowed,
       Requested, IndexKnown, Changes, Locals, Frozen, evidence, processes
  <2>7. Meaning'
    BY <1>1, <1>2, <2>2, <2>4 DEF IInv, Types, Control, InHand, Meaning, DocumentKept, PutBack, Decided, Due,
       Changes, Locals, Frozen, repository, history, evidence
  <2>8. Told'
    BY <1>2, <2>2 DEF IInv, Told, CommitsAreDue, OwnerWorkNotCommitted, NoCommitAfterTimeout,
       SignalReported, ZeroMeansAllPassed, At, Changes, Locals, Frozen, history
  <2> QED
    BY <2>5, <2>6, <2>7, <2>8 DEF IInv
<1> QED
  BY <1>4, <1>5

\* git add stages the requested paths only
LEMMA GitAddKeeps ==
    ASSUME IInv, GitAdd
    PROVE  IInv'
<1>1. r \in Run /\ r.pc = "add" /\ Staged = {}
  BY DEF IInv, Types, Control, IndexKnown, GitAdd, At
<1>2. UNCHANGED <<work, head, evidence, processes, sig, history>>
  BY DEF GitAdd, Only
<1>3. CASE BoundaryEnds(11) /\ UNCHANGED index
  BY <1>1, <1>2, <1>3, LeaveEarly DEF Frozen, repository
<1>4. CASE /\ index' = [p \in Paths |-> IF p \in request THEN work[p] ELSE index[p]]
           /\ r' = [Go("staged") EXCEPT !.index = "added"]
  <2>1. Staged' \subseteq request
    BY <1>1, <1>2, <1>4 DEF Staged
  <2>2. /\ r' \in Run /\ r'.pc = "staged" /\ r'.index = "added"
        /\ Changes({"index"})
    <3>1. "staged" \in Pc
      BY PcMembers
    <3>2. r' = [r EXCEPT !.pc = "staged", !.index = "added"]
      BY <1>4 DEF Go
    <3> QED
      BY <1>1, <3>1, <3>2 DEF Run, Changes, Locals
  <2> USE DEF Waiting, Boundary, Ended
  <2>3. IsTree(index')
    BY <1>4 DEF IInv, Types, IsTree, Paths
  <2>4. Types'
    BY <1>2, <2>2, <2>3 DEF IInv, Types, IsTree, evidence, processes, history
  <2>5. Control'
    BY <1>1, <1>2, <2>1, <2>2 DEF IInv, Types, Control, InHand, AgentIsAwaited, RunnerOnly, Allowed,
       Requested, IndexKnown, Changes, Locals, evidence, processes
  <2>6. FeaturesFile \notin r.snap.dirty /\ r.mode = "runner" /\ late = FALSE
          => index'[FeaturesFile] = r.doc
    BY <1>1, <1>4 DEF IInv, Meaning, DocumentKept, Paths
  <2>7. Meaning'
    BY <1>1, <1>2, <2>2, <2>6 DEF IInv, Types, Control, InHand, Meaning, DocumentKept, PutBack, Decided, Due,
       Changes, Locals, history
  <2>8. Told'
    BY <1>2, <2>2 DEF IInv, Told, CommitsAreDue, OwnerWorkNotCommitted, NoCommitAfterTimeout,
       SignalReported, ZeroMeansAllPassed, At, history
  <2> QED
    BY <2>4, <2>5, <2>7, <2>8 DEF IInv
<1> QED
  BY <1>3, <1>4 DEF GitAdd

\* git restore --staged of the requested paths leaves nothing staged
LEMMA UnstageKeeps ==
    ASSUME IInv, r.pc \in {"staged", "commit"}, NEW code \in {11, 12}, Unstage(code) \/ UnstageFails(code),
           UNCHANGED <<work, head, evidence, processes, sig, history>>
    PROVE  IInv'
<1>1. r.pc \in Boundary /\ Staged \subseteq request
  BY DEF Boundary, IInv, Control, IndexKnown
<1>2. CommitsAreDue'
  BY DEF history, IInv, Told, CommitsAreDue, OwnerWorkNotCommitted, NoCommitAfterTimeout
<1>3. IsTree(head') /\ code \in {0, 10, 11, 12} /\ code # 0 /\ UNCHANGED late
  BY DEF IInv, Types, IsTree, history
<1>4. CASE Unstage(code)
  <2>1. Staged' = {}
    BY <1>1, <1>4 DEF Unstage, Staged
  <2>2. IsTree(index')
    BY <1>4 DEF Unstage, IInv, Types, IsTree, Paths
  <2> QED
    BY <1>1, <1>2, <1>3, <1>4, <2>1, <2>2, LeaveBoundary DEF Unstage
<1>5. CASE UnstageFails(code)
  <2>1. IsTree(index')
    BY <1>5 DEF UnstageFails, IInv, Types, IsTree
  <2> QED
    BY <1>1, <1>2, <1>3, <1>5, <2>1, LeaveBoundary DEF UnstageFails
<1> QED
  BY <1>4, <1>5

\* What is staged is compared with the request
LEMMA CheckStagedKeeps ==
    ASSUME IInv, CheckStaged
    PROVE  IInv'
<1>1. r \in Run /\ r.pc = "staged"
  BY DEF IInv, Types, CheckStaged, At
<1>2. UNCHANGED <<work, head, evidence, processes, sig, history>>
  BY DEF CheckStaged, history
<1>3. CASE Unstage(11) \/ UnstageFails(11)
  BY <1>1, <1>2, <1>3, UnstageKeeps
<1>4. CASE Staged = request /\ r' = Go("commit") /\ UNCHANGED index
  <2>1. UNCHANGED Staged
    BY <1>2, <1>4 DEF Staged
  <2>2. /\ r' \in Run /\ r'.pc = "commit"
        /\ Changes({})
    BY <1>1, <1>4, GoFields, PcMembers DEF Changes, Locals
  <2> USE DEF Waiting, Boundary, Ended
  <2>3. Types'
    BY <1>2, <1>4, <2>2 DEF IInv, Types, IsTree, evidence, processes, history
  <2>4. Control'
    BY <1>1, <1>2, <1>4, <2>1, <2>2 DEF IInv, Types, Control, InHand, AgentIsAwaited, RunnerOnly, Allowed,
       Requested, IndexKnown, Changes, Locals, evidence, processes
  <2>5. Meaning'
    BY <1>1, <1>2, <1>4, <2>2 DEF IInv, Types, Control, InHand, Meaning, DocumentKept, PutBack, Decided, Due,
       Changes, Locals, history
  <2>6. Told'
    BY <1>2, <2>2 DEF IInv, Told, CommitsAreDue, OwnerWorkNotCommitted, NoCommitAfterTimeout,
       SignalReported, ZeroMeansAllPassed, At, history
  <2> QED
    BY <2>3, <2>4, <2>5, <2>6 DEF IInv
<1> QED
  BY <1>3, <1>4 DEF CheckStaged

\* A commit takes the index: nothing stays staged, and the request was checked against it
LEMMA GitCommitKeeps ==
    ASSUME IInv, GitCommit
    PROVE  IInv'
<1>1. r \in Run /\ r.pc = "commit" /\ r.pc \in Boundary
  BY DEF IInv, Types, GitCommit, At, Boundary
<1>2. UNCHANGED <<work, evidence, processes, sig, late, edits, runs>>
  BY DEF GitCommit
<1>3. CASE (Unstage(12) \/ UnstageFails(12)) /\ UNCHANGED <<head, last>>
  BY <1>1, <1>2, <1>3, UnstageKeeps DEF history
<1>4. CASE /\ head' = index /\ UNCHANGED index
           /\ r' = [BoundaryEnded(0) EXCEPT !.index = "committed"]
           /\ last' = [paths |-> {p \in Paths : index[p] # head[p]},
                       asked |-> request, dirty |-> r.snap.dirty, res |-> r.res,
                       artErr |-> r.artErr]
  <2>1. Staged' = {}
    BY <1>4 DEF Staged
  <2>2. IsTree(index') /\ IsTree(head')
    BY <1>4 DEF IInv, Types, IsTree
  <2>3. last'.paths = request /\ last'.asked = request /\ last'.dirty = r.snap.dirty
        /\ last'.res = r.res /\ last'.artErr = r.artErr
    BY <1>1, <1>4 DEF IInv, Control, Requested, Staged
  <2>4. CommitsAreDue'
    BY <1>1, <2>3 DEF IInv, Control, Requested, Allowed, Boundary, CommitsAreDue, OwnerWorkNotCommitted,
       NoCommitAfterTimeout
  <2>5. r.mode = "runner" /\ late = FALSE /\ FeaturesFile \notin r.snap.dirty
          => head'[FeaturesFile] = r.doc
    BY <1>1, <1>4 DEF IInv, Meaning, DocumentKept
  <2> QED
    BY <1>1, <1>2, <1>4, <2>1, <2>2, <2>4, <2>5, LeaveBoundary
<1> QED
  BY <1>3, <1>4 DEF GitCommit

-----------------------------------------------------------------------------
\* What determine_outcome decides, and what it rests on
LEMMA OutcomeFacts ==
    ASSUME r \in Run, r.res \in Res, r.feature \in Features, r.doc \in Doc, r.iter <= MaxIterations,
           sig \in BOOLEAN, NEW o, o = determine_outcome
    PROVE  /\ o \in Out
           /\ sig = TRUE => o.exit = 130
           /\ o.exit = 4 => r.res.timed = TRUE
           /\ o.exit = 0 => \A f \in Features : r.doc[f].passes
           /\ o.exit = NULL =>
                /\ r.iter < MaxIterations /\ r.res.code = 0 /\ r.res.timed = FALSE /\ r.hce = NULL
                /\ r.doc[r.feature].passes \/ r.doc[r.feature].blocked \/ r.attempts[r.feature] < MaxAttempts
           /\ o.state \in {"complete", "feature_complete", "feature_blocked"} =>
                /\ sig = FALSE /\ r.res.code = 0 /\ r.res.timed = FALSE /\ r.artErr = FALSE /\ r.hce = NULL
<1>1. /\ r.res.timed \in BOOLEAN /\ r.artErr \in BOOLEAN /\ r.hce \in {NULL, 5, 6, 7}
      /\ r.iter \in Int /\ r.attempts[r.feature] \in Nat /\ MaxAttempts \in Nat /\ MaxIterations \in Nat
      /\ NULL \notin Int
  BY GoalLoopAssumption DEF Run, Res
<1>2. /\ Outcome("interrupted", 130) \in Out /\ Outcome("timed_out", 4) \in Out /\ Outcome("failed", 3) \in Out
      /\ Outcome("complete", 0) \in Out /\ Outcome("blocked", 2) \in Out /\ Outcome("manual_review", 2) \in Out
      /\ \A e \in {1, NULL} : Outcome("incomplete", e) \in Out
      /\ Outcome("feature_complete", NULL) \in Out /\ Outcome("feature_blocked", NULL) \in Out
  BY <1>1 DEF Outcome, Out, Exit
<1>3. \A e \in {5, 6, 7} : Outcome("failed", e) \in Out
  BY DEF Outcome, Out, Exit
<1>4. \A st, e : Outcome(st, e).state = st /\ Outcome(st, e).exit = e
  BY DEF Outcome
<1> DEFINE done == feature_completion_state(r.doc)
           mine == r.doc[r.feature]
<1>5. CASE sig
  <2>1. o = Outcome("interrupted", 130)
    BY <1>5 DEF determine_outcome
  <2>2. o \in Out /\ o.state = "interrupted" /\ o.exit = 130
    BY <1>2, <1>4, <2>1
  <2> QED
    BY <1>1, <2>2
<1>6. CASE ~sig /\ r.res.timed
  <2>1. o = Outcome("timed_out", 4)
    BY <1>6 DEF determine_outcome
  <2>2. o \in Out /\ o.state = "timed_out" /\ o.exit = 4
    BY <1>2, <1>4, <2>1
  <2> QED
    BY <1>1, <1>6, <2>2
<1>7. CASE ~sig /\ ~r.res.timed /\ (r.artErr \/ r.res.code # 0)
  <2>1. o = Outcome("failed", 3)
    BY <1>7 DEF determine_outcome
  <2>2. o \in Out /\ o.state = "failed" /\ o.exit = 3
    BY <1>2, <1>4, <2>1
  <2> QED
    BY <1>1, <1>7, <2>2
<1>8. CASE ~sig /\ ~r.res.timed /\ ~r.artErr /\ r.res.code = 0 /\ r.hce # NULL
  <2>1. o = Outcome("failed", r.hce)
    BY <1>8 DEF determine_outcome
  <2>2. o \in Out /\ o.state = "failed" /\ o.exit = r.hce
    BY <1>1, <1>3, <1>4, <1>8, <2>1
  <2> QED
    BY <1>1, <1>8, <2>2
<1>9. CASE ~sig /\ ~r.res.timed /\ ~r.artErr /\ r.res.code = 0 /\ r.hce = NULL
  <2>1. CASE done = "all_passed"
    <3>1. o = Outcome("complete", 0)
      BY <1>9, <2>1 DEF determine_outcome
    <3>2. o \in Out /\ o.state = "complete" /\ o.exit = 0
      BY <1>2, <1>4, <3>1
    <3>3. \A f \in Features : r.doc[f].passes
      BY <2>1, AllPassed
    <3> QED
      BY <1>1, <1>9, <3>2, <3>3
  <2>2. CASE done = "all_remaining_blocked"
    <3>1. o = Outcome("blocked", 2)
      BY <1>9, <2>2 DEF determine_outcome
    <3>2. o \in Out /\ o.state = "blocked" /\ o.exit = 2
      BY <1>2, <1>4, <3>1
    <3> QED
      BY <1>1, <1>9, <3>2
  <2>3. CASE done \notin {"all_passed", "all_remaining_blocked"} /\ (mine.passes \/ mine.blocked)
    <3>1. \/ o = Outcome("incomplete", 1)
          \/ /\ r.iter # MaxIterations
             /\ o = Outcome("feature_complete", NULL) \/ o = Outcome("feature_blocked", NULL)
      BY <1>9, <2>3 DEF determine_outcome
    <3>2. o \in Out /\ (o.exit = 1 \/ (o.exit = NULL /\ r.iter # MaxIterations))
      BY <1>2, <1>4, <3>1
    <3> QED
      BY <1>1, <1>9, <2>3, <3>2
  <2>4. CASE done \notin {"all_passed", "all_remaining_blocked"} /\ ~(mine.passes \/ mine.blocked)
    <3>1. \/ o = Outcome("manual_review", 2)
          \/ o = Outcome("incomplete", 1)
          \/ /\ r.iter # MaxIterations /\ ~(r.attempts[r.feature] >= MaxAttempts)
             /\ o = Outcome("incomplete", NULL)
      BY <1>9, <2>4 DEF determine_outcome
    <3>2. /\ o \in Out /\ o.state \in {"manual_review", "incomplete"}
          /\ \/ o.exit \in {1, 2}
             \/ o.exit = NULL /\ r.iter # MaxIterations /\ ~(r.attempts[r.feature] >= MaxAttempts)
      BY <1>2, <1>4, <3>1
    <3> QED
      BY <1>1, <1>9, <2>4, <3>2
  <2> QED
    BY <2>1, <2>2, <2>3, <2>4
<1> QED
  BY <1>5, <1>6, <1>7, <1>8, <1>9

\* The outcome is decided with the signal as it stands
LEMMA DecideKeeps ==
    ASSUME IInv, Decide
    PROVE  IInv'
<1>1. /\ r \in Run /\ r.pc = "final" /\ r.res \in Res /\ r.feature \in Features /\ r.doc \in Doc
      /\ r.iter <= MaxIterations /\ sig \in BOOLEAN
  BY DEF IInv, Types, Control, InHand, Decide, At
<1>2. Frozen
  BY DEF Decide, Only, Frozen
<1>3. UNCHANGED Staged
  BY <1>2 DEF Frozen, Staged, repository
<1> DEFINE o == determine_outcome
           m == IF o.exit = NULL THEN r.meta ELSE o
<1>4. /\ o \in Out
      /\ sig = TRUE => o.exit = 130
      /\ o.exit = 4 => r.res.timed = TRUE
      /\ o.exit = 0 => \A f \in Features : r.doc[f].passes
      /\ o.exit = NULL =>
           /\ r.iter < MaxIterations /\ r.res.code = 0 /\ r.res.timed = FALSE /\ r.hce = NULL
           /\ r.doc[r.feature].passes \/ r.doc[r.feature].blocked \/ r.attempts[r.feature] < MaxAttempts
      /\ o.state \in {"complete", "feature_complete", "feature_blocked"} =>
           /\ sig = FALSE /\ r.res.code = 0 /\ r.res.timed = FALSE /\ r.artErr = FALSE /\ r.hce = NULL
  BY <1>1, OutcomeFacts
<1>5. r' = [r EXCEPT !.pc = "confirm", !.out = o, !.seen = sig, !.meta = m]
  BY DEF Decide
<1>6. m \in Out \cup {NULL} /\ (o.exit # NULL => m = o)
  BY <1>1, <1>4 DEF Run
<1> HIDE DEF o, m
<1>7. /\ r' \in Run /\ r'.pc = "confirm" /\ r'.out = o /\ r'.seen = sig /\ r'.meta = m
      /\ Changes({"out", "seen", "meta"})
  <2>1. "confirm" \in Pc /\ o \in Out \cup {NULL}
    BY <1>4, PcMembers
  <2> QED
    BY <1>1, <1>5, <1>6, <2>1, ZenonT(30) DEF Run, Changes, Locals
<1> USE DEF Waiting, Boundary, Ended
<1>8. Types'
  BY <1>2, <1>7 DEF IInv, Types, IsTree, Frozen, repository, evidence, processes, history
<1>9. Control'
  BY <1>1, <1>2, <1>3, <1>4, <1>7 DEF IInv, Types, Control, InHand, AgentIsAwaited, RunnerOnly, Allowed,
     Requested, IndexKnown, Changes, Locals, Frozen, evidence, processes
<1>10. DocumentKept' /\ PutBack' /\ Due'
  BY <1>1, <1>2, <1>4, <1>7 DEF IInv, Meaning, DocumentKept, PutBack, Due, Changes, Locals, Frozen, repository,
     history
<1>11. Decided'
  BY <1>1, <1>2, <1>4, <1>6, <1>7 DEF Decided, Changes, Locals, Frozen
<1>12. Told'
  BY <1>2, <1>7 DEF IInv, Told, CommitsAreDue, OwnerWorkNotCommitted, NoCommitAfterTimeout,
     SignalReported, ZeroMeansAllPassed, At, Changes, Locals, Frozen, history
<1> QED
  BY <1>8, <1>9, <1>10, <1>11, <1>12 DEF IInv, Meaning

\* The outcome is confirmed, or decided again when a signal came meanwhile
LEMMA ConfirmKeeps ==
    ASSUME IInv, Confirm
    PROVE  IInv'
<1>1. /\ r \in Run /\ r.pc = "confirm" /\ r.out \in Out /\ r.mode = "runner" /\ r.iter <= MaxIterations
      /\ r.iter \in Nat /\ MaxIterations \in Nat /\ sig \in BOOLEAN /\ r.seen \in BOOLEAN
  BY GoalLoopAssumption DEF IInv, Types, Control, InHand, RunnerOnly, Confirm, At, Run
<1>2. Frozen
  BY DEF Confirm, Only, Frozen
<1>3. UNCHANGED Staged
  BY <1>2 DEF Frozen, Staged, repository
<1>4. CASE sig # r.seen
  <2>1. /\ r' \in Run /\ r'.pc = "final"
        /\ Changes({})
    BY <1>1, <1>4, GoFields, PcMembers DEF Confirm, Changes, Locals
  <2>2. sig = TRUE
    BY <1>1, <1>4 DEF IInv, Meaning, Decided
  <2> USE DEF Waiting, Boundary, Ended
  <2>3. Types'
    BY <1>2, <2>1 DEF IInv, Types, IsTree, Frozen, repository, evidence, processes, history
  <2>4. Control'
    BY <1>1, <1>2, <1>3, <2>1 DEF IInv, Types, Control, InHand, AgentIsAwaited, RunnerOnly, Allowed,
       Requested, IndexKnown, Changes, Locals, Frozen, evidence, processes
  <2>5. Meaning'
    BY <1>1, <1>2, <2>1, <2>2 DEF IInv, Meaning, DocumentKept, PutBack, Decided, Due,
       Changes, Locals, Frozen, repository, history
  <2>6. Told'
    BY <1>2, <2>1 DEF IInv, Told, CommitsAreDue, OwnerWorkNotCommitted, NoCommitAfterTimeout,
       SignalReported, ZeroMeansAllPassed, At, Changes, Locals, Frozen, history
  <2> QED
    BY <2>3, <2>4, <2>5, <2>6 DEF IInv
<1>5. CASE sig = r.seen /\ r.out.exit = NULL
  <2>1. r.iter + 1 \in 1..(MaxIterations + 1)
    BY <1>1
  <2>2. r' = [r EXCEPT !.pc = "select", !.iter = r.iter + 1]
    BY <1>5 DEF Confirm, Go
  <2>3. /\ r' \in Run /\ r'.pc = "select" /\ r'.iter = r.iter + 1
        /\ Changes({"iter"})
    BY <1>1, <2>1, <2>2, PcMembers DEF Run, Changes, Locals
  <2> USE DEF Waiting, Boundary, Ended
  <2>4. Types'
    BY <1>2, <2>3 DEF IInv, Types, IsTree, Frozen, repository, evidence, processes, history
  <2>5. Control'
    BY <1>1, <1>2, <1>3, <2>3 DEF IInv, Types, Control, InHand, AgentIsAwaited, RunnerOnly, Allowed,
       Requested, IndexKnown, Changes, Locals, Frozen, evidence, processes
  <2>6. Meaning'
    BY <1>1, <1>2, <1>5, <2>3 DEF IInv, Meaning, DocumentKept, PutBack, Decided, Due,
       Changes, Locals, Frozen, repository, history
  <2>7. Told'
    BY <1>2, <2>3 DEF IInv, Told, CommitsAreDue, OwnerWorkNotCommitted, NoCommitAfterTimeout,
       SignalReported, ZeroMeansAllPassed, At, Changes, Locals, Frozen, history
  <2> QED
    BY <2>4, <2>5, <2>6, <2>7 DEF IInv
<1>6. CASE sig = r.seen /\ r.out.exit # NULL
  <2>1. r' = Return(r.out.exit) /\ r.out.exit \in Exit
    BY <1>1, <1>6 DEF Confirm, Out
  <2>2. /\ r' \in Run /\ r'.pc = "returned" /\ r'.exit = r.out.exit
        /\ Changes({"exit"})
    BY <1>1, <2>1, ReturnFields DEF Changes, Locals
  <2> USE DEF Waiting, Boundary, Ended
  <2>3. Types'
    BY <1>2, <2>2 DEF IInv, Types, IsTree, Frozen, repository, evidence, processes, history
  <2>4. Control'
    BY <1>1, <1>2, <1>3, <2>2 DEF IInv, Types, Control, InHand, AgentIsAwaited, RunnerOnly, Allowed,
       Requested, IndexKnown, Changes, Locals, Frozen, evidence, processes
  <2>5. Meaning'
    BY <1>1, <1>2, <1>6, <2>2 DEF IInv, Meaning, DocumentKept, PutBack, Decided, Due,
       Changes, Locals, Frozen, repository, history
  <2>6. CommitsAreDue'
    BY <1>2 DEF IInv, Told, CommitsAreDue, OwnerWorkNotCommitted, NoCommitAfterTimeout, Frozen, history
  <2>7. SignalReported' /\ ZeroMeansAllPassed'
    BY <1>1, <1>6, <2>2 DEF IInv, Meaning, Decided, SignalReported, ZeroMeansAllPassed, At, Changes, Locals
  <2> QED
    BY <2>3, <2>4, <2>5, <2>6, <2>7 DEF IInv, Told
<1> QED
  BY <1>4, <1>5, <1>6

\* The older loop and the kickoff go on when the agent ended with 0
LEMMA StreamEndedKeeps ==
    ASSUME IInv, StreamEnded
    PROVE  IInv'
<1>1. r \in Run /\ r.pc = "collect" /\ r.mode # "runner" /\ r.res \in Res /\ 3 \in Exit /\ NULL # 3
  BY GoalLoopAssumption DEF IInv, Types, Control, InHand, StreamEnded, At, Exit
<1>2. Frozen
  BY DEF StreamEnded, Only, Frozen
<1>3. UNCHANGED Staged
  BY <1>2 DEF Frozen, Staged, repository
<1>4. CASE r.res.code = 0
  <2>1. r' = Go("request")
    BY <1>4 DEF StreamEnded
  <2>2. /\ r' \in Run /\ r'.pc = "request"
        /\ Changes({})
    BY <1>1, <2>1, GoFields, PcMembers DEF Changes, Locals
  <2> USE DEF Waiting, Boundary, Ended
  <2>3. Types'
    BY <1>1, <1>2, <1>3, <1>4, <2>2 DEF IInv, Types, IsTree, Frozen, repository, evidence, processes, history
  <2>4. Control'
    BY <1>1, <1>2, <1>3, <1>4, <2>2 DEF IInv, Types, Control, InHand, AgentIsAwaited, RunnerOnly, Allowed,
       Requested, IndexKnown, Changes, Locals, Frozen, evidence, processes
  <2>5. Meaning'
    BY <1>1, <1>2, <1>3, <1>4, <2>2 DEF IInv, Types, Control, InHand, Meaning, DocumentKept, PutBack, Decided,
       Due,
       Changes, Locals, Frozen, repository, history
  <2>6. Told'
    BY <1>1, <1>2, <1>3, <1>4, <2>2 DEF IInv, Told, CommitsAreDue, OwnerWorkNotCommitted, NoCommitAfterTimeout,
       SignalReported, ZeroMeansAllPassed, At, Changes, Locals, Frozen, history
  <2> QED
    BY <2>3, <2>4, <2>5, <2>6 DEF IInv
<1>5. CASE r.res.code # 0
  <2>1. r' = Return(3)
    BY <1>5 DEF StreamEnded
  <2>2. /\ r' \in Run /\ r'.pc = "returned" /\ r'.exit = 3
        /\ Changes({"exit"})
    BY <1>1, <2>1, ReturnFields DEF Changes, Locals
  <2> USE DEF Waiting, Boundary, Ended
  <2>3. Types'
    BY <1>1, <1>2, <1>3, <2>2 DEF IInv, Types, IsTree, Frozen, repository, evidence, processes, history
  <2>4. Control'
    BY <1>1, <1>2, <1>3, <2>2 DEF IInv, Types, Control, InHand, AgentIsAwaited, RunnerOnly, Allowed,
       Requested, IndexKnown, Changes, Locals, Frozen, evidence, processes
  <2>5. Meaning'
    BY <1>1, <1>2, <1>3, <2>2 DEF IInv, Types, Control, InHand, Meaning, DocumentKept, PutBack, Decided, Due,
       Changes, Locals, Frozen, repository, history
  <2>6. Told'
    BY <1>1, <1>2, <1>3, <2>2 DEF IInv, Told, CommitsAreDue, OwnerWorkNotCommitted, NoCommitAfterTimeout,
       SignalReported, ZeroMeansAllPassed, At, Changes, Locals, Frozen, history
  <2> QED
    BY <2>3, <2>4, <2>5, <2>6 DEF IInv
<1> QED
  BY <1>4, <1>5

\* final.md and the features document are read back
LEMMA ReadBackKeeps ==
    ASSUME IInv, ReadBack
    PROVE  IInv'
<1>1. /\ r \in Run /\ r.pc = "collect" /\ r.mode = "runner" /\ r.res \in Res /\ r.doc \in Doc
      /\ finalMd \in BOOLEAN /\ r.res.timed \in BOOLEAN
  BY DEF IInv, Types, Control, InHand, ReadBack, At, Res
<1>2. Frozen
  BY DEF ReadBack, Frozen
<1>3. UNCHANGED Staged
  BY <1>2 DEF Frozen, Staged, repository
<1> DEFINE d == work[FeaturesFile]
           bad == ~finalMd \/ d = NULL
           kept == IF d = NULL THEN r.doc ELSE d
           to == IF r.res.timed /\ ~bad THEN "pend" ELSE "gate"
<1>4. r' = [r EXCEPT !.artErr = bad, !.doc = kept, !.pc = to]
  BY DEF ReadBack
<1>5. kept \in Doc /\ bad \in BOOLEAN /\ to \in Pc /\ (bad = FALSE => kept = work[FeaturesFile])
  BY <1>1, PcMembers DEF IInv, Types, IsTree
<1>6. to \in {"pend", "gate"} /\ (to = "pend" <=> r.res.timed = TRUE /\ bad = FALSE)
  BY <1>1
<1> HIDE DEF d, bad, kept, to
<1>7. /\ r' \in Run /\ r'.artErr = bad /\ r'.doc = kept /\ r'.pc = to
      /\ Changes({"doc", "artErr"})
  BY <1>1, <1>4, <1>5, ZenonT(30) DEF Run, Changes, Locals
<1> USE DEF Waiting, Boundary, Ended
<1>8. Types'
  BY <1>1, <1>2, <1>3, <1>5, <1>6, <1>7 DEF IInv, Types, IsTree, Frozen, repository, evidence, processes,
     history
<1>9. Control'
  BY <1>1, <1>2, <1>3, <1>5, <1>6, <1>7 DEF IInv, Types, Control, InHand, AgentIsAwaited, RunnerOnly, Allowed,
       Requested, IndexKnown, Changes, Locals, Frozen, evidence, processes
<1>10. Meaning'
  BY <1>1, <1>2, <1>3, <1>5, <1>6, <1>7 DEF IInv, Types, Control, InHand, Meaning, DocumentKept, PutBack,
     Decided, Due,
       Changes, Locals, Frozen, repository, history
<1>11. Told'
  BY <1>1, <1>2, <1>3, <1>5, <1>6, <1>7 DEF IInv, Told, CommitsAreDue, OwnerWorkNotCommitted,
     NoCommitAfterTimeout,
       SignalReported, ZeroMeansAllPassed, At, Changes, Locals, Frozen, history
<1> QED
  BY <1>8, <1>9, <1>10, <1>11 DEF IInv

\* The feature of a terminated agent is written back as not passed
LEMMA PendKeeps ==
    ASSUME IInv, keep_timed_out_feature_pending
    PROVE  IInv'
<1>1. /\ r \in Run /\ r.pc = "pend" /\ r.mode = "runner" /\ r.res \in Res /\ r.doc \in Doc
      /\ r.feature \in Features /\ r.res.timed = TRUE
  BY DEF IInv, Types, Control, InHand, RunnerOnly, keep_timed_out_feature_pending, At
<1>2. UNCHANGED <<index, head, evidence, processes, sig, history>>
  BY DEF keep_timed_out_feature_pending, Only, repository
<1>3. UNCHANGED Staged
  BY <1>2 DEF Staged
<1> DEFINE kept == [r.doc EXCEPT ![r.feature].passes = FALSE]
<1>4. kept \in Doc /\ kept[r.feature].passes = FALSE
  BY <1>1 DEF Doc, Status
<1>5. /\ r' = [r EXCEPT !.pc = "gate", !.doc = kept]
      /\ IF r.doc[r.feature].passes THEN work' = [work EXCEPT ![FeaturesFile] = kept] ELSE work' = work
  BY DEF keep_timed_out_feature_pending, repository
<1> HIDE DEF kept
<1>6. /\ r' \in Run /\ r'.pc = "gate" /\ r'.doc = kept
      /\ Changes({"doc"})
  BY <1>1, <1>4, <1>5, PcMembers DEF Run, Changes, Locals
<1>7. IsTree(work')
  BY <1>4, <1>5, GoalLoopAssumption DEF IInv, Types, IsTree, Paths
<1>8. late = FALSE => ~work'[FeaturesFile][r.feature].passes
  <2>1. FeaturesFile \in Paths
    BY DEF Paths
  <2> QED
    BY <1>1, <1>4, <1>5, <2>1 DEF IInv, Types, IsTree, Meaning, DocumentKept
<1> USE DEF Waiting, Boundary, Ended
<1>9. Types'
  BY <1>2, <1>6, <1>7 DEF IInv, Types, IsTree, evidence, processes, history
<1>10. Control'
  BY <1>1, <1>2, <1>3, <1>4, <1>6 DEF IInv, Types, Control, InHand, AgentIsAwaited, RunnerOnly, Allowed,
       Requested, IndexKnown, Changes, Locals, evidence, processes
<1>11. Meaning'
  BY <1>1, <1>2, <1>6, <1>8 DEF IInv, Types, Control, InHand, Meaning, DocumentKept, PutBack, Decided, Due,
       Changes, Locals, history
<1>12. Told'
  BY <1>2, <1>6 DEF IInv, Told, CommitsAreDue, OwnerWorkNotCommitted, NoCommitAfterTimeout,
       SignalReported, ZeroMeansAllPassed, At, history
<1> QED
  BY <1>9, <1>10, <1>11, <1>12 DEF IInv

\* The older loop reads the document again after its commit
LEMMA AfterCommitKeeps ==
    ASSUME IInv, AfterCommit
    PROVE  IInv'
<1>1. /\ r \in Run /\ r.pc = "after" /\ r.iter <= MaxIterations /\ r.iter \in Nat /\ MaxIterations \in Nat
      /\ {0, 2, 10} \subseteq Exit /\ NULL \notin {0, 2, 10}
  BY GoalLoopAssumption DEF IInv, Types, Control, InHand, AfterCommit, At, Run, Exit
<1>2. Frozen
  BY DEF AfterCommit, Only, Frozen
<1>3. UNCHANGED Staged
  BY <1>2 DEF Frozen, Staged, repository
<1>4. r.mode # "runner"
  BY <1>1 DEF IInv, Control, InHand
<1>5. ASSUME NEW code \in {0, 2, 10}, r' = Return(code)
      PROVE  IInv'
  <2>1. code \in Exit /\ code # NULL /\ code # 4
    BY <1>1
  <2>2. /\ r' \in Run /\ r'.pc = "returned" /\ r'.exit = code
        /\ Changes({"exit"})
    BY <1>1, <1>5, <2>1, ReturnFields DEF Changes, Locals
  <2> USE DEF Waiting, Boundary, Ended
  <2>3. Types'
    BY <1>1, <1>2, <1>3, <1>4, <2>1, <2>2 DEF IInv, Types, IsTree, Frozen, repository, evidence, processes,
       history
  <2>4. Control'
    BY <1>1, <1>2, <1>3, <1>4, <2>1, <2>2 DEF IInv, Types, Control, InHand, AgentIsAwaited, RunnerOnly, Allowed,
       Requested, IndexKnown, Changes, Locals, Frozen, evidence, processes
  <2>5. Meaning'
    BY <1>1, <1>2, <1>3, <1>4, <2>1, <2>2 DEF IInv, Types, Control, InHand, Meaning, DocumentKept, PutBack,
       Decided, Due,
       Changes, Locals, Frozen, repository, history
  <2>6. Told'
    BY <1>1, <1>2, <1>3, <1>4, <2>1, <2>2 DEF IInv, Told, CommitsAreDue, OwnerWorkNotCommitted,
       NoCommitAfterTimeout,
       SignalReported, ZeroMeansAllPassed, At, Changes, Locals, Frozen, history
  <2> QED
    BY <2>3, <2>4, <2>5, <2>6 DEF IInv
<1>6. CASE r' = [Go("select") EXCEPT !.iter = @ + 1]
  <2>1. r.iter + 1 \in 1..(MaxIterations + 1) /\ r' = [r EXCEPT !.pc = "select", !.iter = r.iter + 1]
    BY <1>1, <1>6 DEF Go
  <2>2. /\ r' \in Run /\ r'.pc = "select" /\ r'.iter = r.iter + 1
        /\ Changes({"iter"})
    BY <1>1, <2>1, PcMembers DEF Run, Changes, Locals
  <2> USE DEF Waiting, Boundary, Ended
  <2>3. Types'
    BY <1>1, <1>2, <1>3, <1>4, <2>2 DEF IInv, Types, IsTree, Frozen, repository, evidence, processes, history
  <2>4. Control'
    BY <1>1, <1>2, <1>3, <1>4, <2>2 DEF IInv, Types, Control, InHand, AgentIsAwaited, RunnerOnly, Allowed,
       Requested, IndexKnown, Changes, Locals, Frozen, evidence, processes
  <2>5. Meaning'
    BY <1>1, <1>2, <1>3, <1>4, <2>2 DEF IInv, Types, Control, InHand, Meaning, DocumentKept, PutBack, Decided,
       Due,
       Changes, Locals, Frozen, repository, history
  <2>6. Told'
    BY <1>1, <1>2, <1>3, <1>4, <2>2 DEF IInv, Told, CommitsAreDue, OwnerWorkNotCommitted, NoCommitAfterTimeout,
       SignalReported, ZeroMeansAllPassed, At, Changes, Locals, Frozen, history
  <2> QED
    BY <2>3, <2>4, <2>5, <2>6 DEF IInv
<1>7. feature_completion_state(work[FeaturesFile])
        \in {"invalid", "all_passed", "all_remaining_blocked", "continue"}
  BY DEF feature_completion_state
<1> QED
  BY <1>5, <1>6, <1>7 DEF AfterCommit

-----------------------------------------------------------------------------
\* The steps around the agent process touch neither the repository nor what is known of it:
\* the agent ends by itself
LEMMA WaitAgentKeeps ==
    ASSUME IInv, WaitAgent
    PROVE  IInv'
<1>1. r \in Run /\ r.pc = "wait" /\ [code |-> ExitCode, timed |-> FALSE] \in Res
  BY DEF IInv, Types, WaitAgent, At, ExitCode, Res
<1>2. agent' = "none" /\ UNCHANGED <<repository, evidence, orphan, sig, history>>
  BY DEF WaitAgent
<1>3. UNCHANGED Staged
  BY <1>2 DEF Staged, repository
<1> DEFINE res == [code |-> ExitCode, timed |-> FALSE]
<1>4. r' = [r EXCEPT !.pc = "collect", !.res = res] /\ res.timed = FALSE
  BY DEF WaitAgent
<1> HIDE DEF res
<1>5. /\ r' \in Run /\ r'.pc = "collect" /\ r'.res = res
      /\ Changes({"res"})
  BY <1>1, <1>4, PcMembers DEF Run, Changes, Locals, res
<1> USE DEF Waiting, Boundary, Ended
<1>6. Types'
  BY <1>1, <1>2, <1>3, <1>4, <1>5 DEF IInv, Types, IsTree, repository, evidence, history, res
<1>7. Control'
  BY <1>1, <1>2, <1>3, <1>4, <1>5 DEF IInv, Types, Control, InHand, AgentIsAwaited, RunnerOnly, Allowed,
       Requested, IndexKnown, Changes, Locals, repository, evidence, history, res
<1>8. Meaning'
  BY <1>1, <1>2, <1>3, <1>4, <1>5 DEF IInv, Types, Control, InHand, Meaning, DocumentKept, PutBack, Decided,
     Due,
       Changes, Locals, repository, evidence, history, res
<1>9. Told'
  BY <1>1, <1>2, <1>3, <1>4, <1>5 DEF IInv, Told, CommitsAreDue, OwnerWorkNotCommitted, NoCommitAfterTimeout,
       SignalReported, ZeroMeansAllPassed, At, Changes, Locals, repository, evidence, history, res
<1> QED
  BY <1>6, <1>7, <1>8, <1>9 DEF IInv

\* The deadline passes
LEMMA DeadlineKeeps ==
    ASSUME IInv, Deadline
    PROVE  IInv'
<1>1. r \in Run /\ r.pc = "wait" /\ r.mode = "runner"
  BY DEF IInv, Types, Deadline, At
<1>2. Frozen
  BY DEF Deadline, Frozen
<1>3. UNCHANGED Staged
  BY <1>2 DEF Frozen, Staged, repository
<1>4. r' = Go("interrupt")
  BY DEF Deadline
<1>5. /\ r' \in Run /\ r'.pc = "interrupt"
      /\ Changes({})
  BY <1>1, <1>4, GoFields, PcMembers DEF Changes, Locals
<1> USE DEF Waiting, Boundary, Ended
<1>6. Types'
  BY <1>1, <1>2, <1>3, <1>5 DEF IInv, Types, IsTree, Frozen, repository, evidence, processes, history
<1>7. Control'
  BY <1>1, <1>2, <1>3, <1>5 DEF IInv, Types, Control, InHand, AgentIsAwaited, RunnerOnly, Allowed,
       Requested, IndexKnown, Changes, Locals, Frozen, repository, evidence, processes, history
<1>8. Meaning'
  BY <1>1, <1>2, <1>3, <1>5 DEF IInv, Types, Control, InHand, Meaning, DocumentKept, PutBack, Decided, Due,
       Changes, Locals, Frozen, repository, evidence, processes, history
<1>9. Told'
  BY <1>1, <1>2, <1>3, <1>5 DEF IInv, Told, CommitsAreDue, OwnerWorkNotCommitted, NoCommitAfterTimeout,
       SignalReported, ZeroMeansAllPassed, At, Changes, Locals, Frozen, repository, evidence, processes, history
<1> QED
  BY <1>6, <1>7, <1>8, <1>9 DEF IInv

\* The agent is interrupted, terminated, killed
LEMMA TerminateKeeps ==
    ASSUME IInv, terminate_timed_out_process
    PROVE  IInv'
<1>1. r \in Run /\ r.pc \in {"interrupt", "terminate", "kill"} /\ r.mode = "runner"
  BY DEF IInv, Types, Control, RunnerOnly, terminate_timed_out_process
<1>2. UNCHANGED <<repository, request, snapTouched, sig, history>>
  BY DEF terminate_timed_out_process
<1>3. UNCHANGED Staged
  BY <1>2 DEF Staged, repository
<1>4. agent' \in {"none", agent} /\ orphan' \in BOOLEAN /\ finalMd' \in BOOLEAN
  BY GoalLoopAssumption DEF IInv, Types, terminate_timed_out_process, processes
<1>5. ASSUME NEW res \in Res, res.timed = TRUE, agent' = "none",
             r' = [r EXCEPT !.pc = "collect", !.res = res]
      PROVE  IInv'
  <2>1. /\ r' \in Run /\ r'.pc = "collect" /\ r'.res = res
        /\ Changes({"res"})
    BY <1>1, <1>5, PcMembers DEF Run, Changes, Locals
  <2> USE DEF Waiting, Boundary, Ended
  <2>2. Types'
    BY <1>1, <1>2, <1>3, <1>4, <1>5, <2>1 DEF IInv, Types, IsTree, repository, evidence, history
  <2>3. Control'
    BY <1>1, <1>2, <1>3, <1>4, <1>5, <2>1 DEF IInv, Types, Control, InHand, AgentIsAwaited, RunnerOnly, Allowed,
       Requested, IndexKnown, Changes, Locals, repository, evidence, history
  <2>4. Meaning'
    BY <1>1, <1>2, <1>3, <1>4, <1>5, <2>1 DEF IInv, Types, Control, InHand, Meaning, DocumentKept, PutBack,
       Decided, Due,
       Changes, Locals, repository, evidence, history
  <2>5. Told'
    BY <1>1, <1>2, <1>3, <1>4, <1>5, <2>1 DEF IInv, Told, CommitsAreDue, OwnerWorkNotCommitted,
       NoCommitAfterTimeout,
       SignalReported, ZeroMeansAllPassed, At, Changes, Locals, repository, evidence, history
  <2> QED
    BY <2>2, <2>3, <2>4, <2>5 DEF IInv
<1>6. ASSUME NEW s \in {"terminate", "kill"}, r' = Go(s), UNCHANGED agent
      PROVE  IInv'
  <2>1. s \in Pc
    BY PcMembers
  <2>2. /\ r' \in Run /\ r'.pc = s
        /\ Changes({})
    BY <1>1, <1>6, <2>1, GoFields DEF Changes, Locals
  <2> USE DEF Waiting, Boundary, Ended
  <2>3. Types'
    BY <1>1, <1>2, <1>3, <1>4, <1>6, <2>2 DEF IInv, Types, IsTree, repository, evidence, history
  <2>4. Control'
    BY <1>1, <1>2, <1>3, <1>4, <1>6, <2>2 DEF IInv, Types, Control, InHand, AgentIsAwaited, RunnerOnly, Allowed,
       Requested, IndexKnown, Changes, Locals, repository, evidence, history
  <2>5. Meaning'
    BY <1>1, <1>2, <1>3, <1>4, <1>6, <2>2 DEF IInv, Types, Control, InHand, Meaning, DocumentKept, PutBack,
       Decided, Due,
       Changes, Locals, repository, evidence, history
  <2>6. Told'
    BY <1>1, <1>2, <1>3, <1>4, <1>6, <2>2 DEF IInv, Told, CommitsAreDue, OwnerWorkNotCommitted,
       NoCommitAfterTimeout,
       SignalReported, ZeroMeansAllPassed, At, Changes, Locals, repository, evidence, history
  <2> QED
    BY <2>3, <2>4, <2>5, <2>6 DEF IInv
<1>7. /\ [code |-> ExitCode, timed |-> TRUE] \in Res /\ [code |-> NULL, timed |-> TRUE] \in Res
      /\ [code |-> ExitCode, timed |-> TRUE].timed = TRUE /\ [code |-> NULL, timed |-> TRUE].timed = TRUE
  BY DEF Res, ExitCode
<1> QED
  BY <1>5, <1>6, <1>7 DEF terminate_timed_out_process, processes

\* The agent is started, or its executable is missing
LEMMA LaunchKeeps ==
    ASSUME IInv, Launch
    PROVE  IInv'
<1>1. r \in Run /\ r.pc = "launch" /\ [code |-> 127, timed |-> FALSE] \in Res /\ agent = "none"
  BY DEF IInv, Types, Control, AgentIsAwaited, Launch, At, Res, Waiting
<1>2. UNCHANGED <<repository, evidence, orphan, sig, history>>
  BY DEF Launch
<1>3. UNCHANGED Staged
  BY <1>2 DEF Staged, repository
<1>4. CASE agent' = "running" /\ r' = Go("wait")
  <2>1. /\ r' \in Run /\ r'.pc = "wait"
        /\ Changes({})
    BY <1>1, <1>4, GoFields, PcMembers DEF Changes, Locals
  <2> USE DEF Waiting, Boundary, Ended
  <2>2. Types'
    BY <1>1, <1>2, <1>3, <1>4, <2>1 DEF IInv, Types, IsTree, repository, evidence, history
  <2>3. Control'
    BY <1>1, <1>2, <1>3, <1>4, <2>1 DEF IInv, Types, Control, InHand, AgentIsAwaited, RunnerOnly, Allowed,
       Requested, IndexKnown, Changes, Locals, repository, evidence, history
  <2>4. Meaning'
    BY <1>1, <1>2, <1>3, <1>4, <2>1 DEF IInv, Types, Control, InHand, Meaning, DocumentKept, PutBack, Decided,
       Due,
       Changes, Locals, repository, evidence, history
  <2>5. Told'
    BY <1>1, <1>2, <1>3, <1>4, <2>1 DEF IInv, Told, CommitsAreDue, OwnerWorkNotCommitted, NoCommitAfterTimeout,
       SignalReported, ZeroMeansAllPassed, At, Changes, Locals, repository, evidence, history
  <2> QED
    BY <2>2, <2>3, <2>4, <2>5 DEF IInv
<1>5. CASE r' = [r EXCEPT !.pc = "collect", !.res = [code |-> 127, timed |-> FALSE]] /\ UNCHANGED agent
  <2> DEFINE res == [code |-> 127, timed |-> FALSE]
  <2>1. r' = [r EXCEPT !.pc = "collect", !.res = res] /\ res \in Res /\ res.timed = FALSE
    BY <1>1, <1>5
  <2> HIDE DEF res
  <2>2. /\ r' \in Run /\ r'.pc = "collect" /\ r'.res = res
        /\ Changes({"res"})
    BY <1>1, <2>1, PcMembers DEF Run, Changes, Locals
  <2> USE DEF Waiting, Boundary, Ended
  <2>3. Types'
    BY <1>1, <1>2, <1>3, <1>5, <2>1, <2>2 DEF IInv, Types, IsTree, repository, evidence, history
  <2>4. Control'
    BY <1>1, <1>2, <1>3, <1>5, <2>1, <2>2 DEF IInv, Types, Control, InHand, AgentIsAwaited, RunnerOnly, Allowed,
       Requested, IndexKnown, Changes, Locals, repository, evidence, history
  <2>5. Meaning'
    BY <1>1, <1>2, <1>3, <1>5, <2>1, <2>2 DEF IInv, Types, Control, InHand, Meaning, DocumentKept, PutBack,
       Decided, Due,
       Changes, Locals, repository, evidence, history
  <2>6. Told'
    BY <1>1, <1>2, <1>3, <1>5, <2>1, <2>2 DEF IInv, Told, CommitsAreDue, OwnerWorkNotCommitted,
       NoCommitAfterTimeout,
       SignalReported, ZeroMeansAllPassed, At, Changes, Locals, repository, evidence, history
  <2> QED
    BY <2>3, <2>4, <2>5, <2>6 DEF IInv
<1> QED
  BY <1>4, <1>5 DEF Launch

\* What is dirty before the agent starts is written down
LEMMA SnapshotKeeps ==
    ASSUME IInv, write_snapshot
    PROVE  IInv'
<1>1. /\ r \in Run /\ r.pc = "snapshot" /\ agent = "none"
      /\ {5, 10} \subseteq Exit /\ NULL \notin {5, 10}
  BY GoalLoopAssumption DEF IInv, Types, Control, AgentIsAwaited, write_snapshot, At, Waiting, Exit
<1>2. UNCHANGED <<repository, processes, sig, history>>
  BY DEF write_snapshot, Only
<1>3. UNCHANGED Staged
  BY <1>2 DEF Staged, repository
<1>4. CASE r' = Return(IF r.mode = "runner" THEN 5 ELSE 10) /\ UNCHANGED evidence
  <2> DEFINE code == IF r.mode = "runner" THEN 5 ELSE 10
  <2>1. code \in Exit /\ code # NULL /\ code \notin {0, 4}
    BY <1>1
  <2> HIDE DEF code
  <2>2. /\ r' \in Run /\ r'.pc = "returned" /\ r'.exit = code
        /\ Changes({"exit"})
    BY <1>1, <1>4, <2>1, ReturnFields DEF Changes, Locals, code
  <2> USE DEF Waiting, Boundary, Ended
  <2>3. Types'
    BY <1>1, <1>2, <1>3, <1>4, <2>1, <2>2 DEF IInv, Types, IsTree, repository, evidence, processes, history
  <2>4. Control'
    BY <1>1, <1>2, <1>3, <1>4, <2>1, <2>2 DEF IInv, Types, Control, InHand, AgentIsAwaited, RunnerOnly, Allowed,
       Requested, IndexKnown, Changes, Locals, repository, evidence, processes, history
  <2>5. Meaning'
    BY <1>1, <1>2, <1>3, <1>4, <2>1, <2>2 DEF IInv, Types, Control, InHand, Meaning, DocumentKept, PutBack,
       Decided, Due,
       Changes, Locals, repository, evidence, processes, history
  <2>6. Told'
    BY <1>1, <1>2, <1>3, <1>4, <2>1, <2>2 DEF IInv, Meaning, Decided, Told, CommitsAreDue,
       OwnerWorkNotCommitted, NoCommitAfterTimeout,
       SignalReported, ZeroMeansAllPassed, At, Changes, Locals, repository, evidence, processes, history
  <2> QED
    BY <2>3, <2>4, <2>5, <2>6 DEF IInv
<1>5. CASE /\ r' = [r EXCEPT !.pc = "launch", !.snap = [dirty |-> Dirty, staged |-> Staged]]
           /\ request' = NULL /\ snapTouched' = FALSE /\ finalMd' = TRUE
  <2> DEFINE snap == [dirty |-> Dirty, staged |-> Staged]
  <2>1. snap \in [dirty : SUBSET Paths, staged : SUBSET Paths] \cup {NULL}
    BY DEF Dirty, Staged
  <2>2. r' = [r EXCEPT !.pc = "launch", !.snap = snap]
    BY <1>5
  <2> HIDE DEF snap
  <2>3. /\ r' \in Run /\ r'.pc = "launch"
        /\ Changes({"snap"})
    BY <1>1, <2>1, <2>2, PcMembers DEF Run, Changes, Locals
  <2> USE DEF Waiting, Boundary, Ended
  <2>4. Types'
    BY <1>1, <1>2, <1>3, <1>5, <2>3 DEF IInv, Types, IsTree, repository, processes, history
  <2>5. Control'
    BY <1>1, <1>2, <1>3, <1>5, <2>3 DEF IInv, Types, Control, InHand, AgentIsAwaited, RunnerOnly, Allowed,
       Requested, IndexKnown, Changes, Locals, repository, processes, history
  <2>6. Meaning'
    BY <1>1, <1>2, <1>3, <1>5, <2>3 DEF IInv, Types, Control, InHand, Meaning, DocumentKept, PutBack, Decided,
       Due,
       Changes, Locals, repository, processes, history
  <2>7. Told'
    BY <1>1, <1>2, <1>3, <1>5, <2>3 DEF IInv, Told, CommitsAreDue, OwnerWorkNotCommitted, NoCommitAfterTimeout,
       SignalReported, ZeroMeansAllPassed, At, Changes, Locals, repository, processes, history
  <2> QED
    BY <2>4, <2>5, <2>6, <2>7 DEF IInv
<1> QED
  BY <1>4, <1>5 DEF write_snapshot

\* A new iteration, or the end of the loop
LEMMA SelectKeeps ==
    ASSUME IInv, Select
    PROVE  IInv'
<1> DEFINE d == work[FeaturesFile]
           f == pending_feature(d)
<1>1. /\ r \in Run /\ r.pc \in {"load", "select"} /\ agent = "none" /\ r.iter \in Nat /\ MaxIterations \in Nat
      /\ d = NULL \/ d \in Doc
      /\ {0, 1, 2, 3, 10} \subseteq Exit /\ NULL \notin {0, 1, 2, 3, 10}
  BY GoalLoopAssumption DEF IInv, Types, Control, AgentIsAwaited, IsTree, Select, Waiting, Exit, Run
<1>2. late' = FALSE /\ UNCHANGED <<repository, evidence, processes, sig, last, edits, runs>>
  BY DEF Select
<1>3. UNCHANGED Staged
  BY <1>2 DEF Staged, repository
<1>4. ASSUME NEW code \in {0, 1, 2, 3, 10}, r' = Return(code), r.mode # "runner" \/ code # 0
      PROVE  IInv'
  <2>1. code \in Exit /\ code # NULL /\ code # 4
    BY <1>1
  <2>2. /\ r' \in Run /\ r'.pc = "returned" /\ r'.exit = code
        /\ Changes({"exit"})
    BY <1>1, <1>4, <2>1, ReturnFields DEF Changes, Locals
  <2> USE DEF Waiting, Boundary, Ended
  <2>3. Types'
    BY <1>1, <1>2, <1>3, <1>4, <2>1, <2>2 DEF IInv, Types, IsTree, repository, evidence, processes
  <2>4. Control'
    BY <1>1, <1>2, <1>3, <1>4, <2>1, <2>2 DEF IInv, Types, Control, InHand, AgentIsAwaited, RunnerOnly, Allowed,
       Requested, IndexKnown, Changes, Locals, repository, evidence, processes
  <2>5. Meaning'
    BY <1>1, <1>2, <1>3, <1>4, <2>1, <2>2 DEF IInv, Types, Control, InHand, Meaning, DocumentKept, PutBack,
       Decided, Due,
       Changes, Locals, repository, evidence, processes
  <2>6. Told'
    BY <1>1, <1>2, <1>3, <1>4, <2>1, <2>2 DEF IInv, Meaning, Decided, Told, CommitsAreDue,
       OwnerWorkNotCommitted, NoCommitAfterTimeout,
       SignalReported, ZeroMeansAllPassed, At, Changes, Locals, repository, evidence, processes
  <2> QED
    BY <2>3, <2>4, <2>5, <2>6 DEF IInv
<1>5. ASSUME d \in Doc, NEW code \in {0, 2}, code = 0 => feature_completion_state(d) = "all_passed",
             r' = [Return(code) EXCEPT !.doc = d]
      PROVE  IInv'
  <2>1. code \in Exit /\ code # NULL /\ code # 4
    BY <1>1
  <2>2. r' = [r EXCEPT !.pc = "returned", !.exit = code, !.doc = d]
    BY <1>5 DEF Return
  <2>3. code = 0 => \A g \in Features : d[g].passes
    BY <1>5, AllPassed
  <2> HIDE DEF d, f
  <2>4. /\ r' \in Run /\ r'.pc = "returned" /\ r'.exit = code /\ r'.doc = d
        /\ Changes({"doc", "exit"})
    <3>1. r \in Run /\ d \in Doc \cup {NULL} /\ "returned" \in Pc
      BY <1>1, <1>5, PcMembers
    <3>2. r' \in Run
      BY <2>1, <2>2, <3>1 DEF Run
    <3>3. r'.pc = "returned" /\ r'.exit = code /\ r'.doc = d
      BY <2>2, <3>1 DEF Run
    <3> QED
      BY <2>2, <3>1, <3>2, <3>3 DEF Run, Changes, Locals
  <2> USE DEF Waiting, Boundary, Ended
  <2>5. Types'
    BY <1>1, <1>2, <1>3, <1>5, <2>1, <2>3, <2>4 DEF IInv, Types, IsTree, repository, evidence, processes
  <2>6. Control'
    BY <1>1, <1>2, <1>3, <1>5, <2>1, <2>3, <2>4 DEF IInv, Types, Control, InHand, AgentIsAwaited, RunnerOnly,
       Allowed,
       Requested, IndexKnown, Changes, Locals, repository, evidence, processes
  <2>7. Meaning'
    BY <1>1, <1>2, <1>3, <1>5, <2>1, <2>3, <2>4 DEF IInv, Types, Control, InHand, Meaning, DocumentKept,
       PutBack, Decided, Due,
       Changes, Locals, repository, evidence, processes
  <2>8. Told'
    BY <1>1, <1>2, <1>3, <1>5, <2>1, <2>3, <2>4 DEF IInv, Meaning, Decided, Told, CommitsAreDue,
       OwnerWorkNotCommitted, NoCommitAfterTimeout,
       SignalReported, ZeroMeansAllPassed, At, Changes, Locals, repository, evidence, processes
  <2> QED
    BY <2>5, <2>6, <2>7, <2>8 DEF IInv
<1>6. CASE r.pc = "load" /\ r' = Go("select")
  <2>1. r.iter = 1 /\ 1 <= MaxIterations
    BY <1>6, GoalLoopAssumption DEF IInv, Control, InHand
  <2>2. /\ r' \in Run /\ r'.pc = "select"
        /\ Changes({})
    BY <1>1, <1>6, GoFields, PcMembers DEF Changes, Locals
  <2> USE DEF Waiting, Boundary, Ended
  <2>3. Types'
    BY <1>1, <1>2, <1>3, <1>6, <2>1, <2>2 DEF IInv, Types, IsTree, repository, evidence, processes
  <2>4. Control'
    BY <1>1, <1>2, <1>3, <1>6, <2>1, <2>2 DEF IInv, Types, Control, InHand, AgentIsAwaited, RunnerOnly, Allowed,
       Requested, IndexKnown, Changes, Locals, repository, evidence, processes
  <2>5. Meaning'
    BY <1>1, <1>2, <1>3, <1>6, <2>1, <2>2 DEF IInv, Types, Control, InHand, Meaning, DocumentKept, PutBack,
       Decided, Due,
       Changes, Locals, repository, evidence, processes
  <2>6. Told'
    BY <1>1, <1>2, <1>3, <1>6, <2>1, <2>2 DEF IInv, Told, CommitsAreDue, OwnerWorkNotCommitted,
       NoCommitAfterTimeout,
       SignalReported, ZeroMeansAllPassed, At, Changes, Locals, repository, evidence, processes
  <2> QED
    BY <2>3, <2>4, <2>5, <2>6 DEF IInv
<1>7. CASE /\ r.pc = "select" /\ ~(r.iter > MaxIterations) /\ d # NULL /\ f # NULL
           /\ r' = [r EXCEPT !.pc = "snapshot", !.doc = d, !.feature = f, !.attempts[f] = @ + 1,
                             !.res = NULL, !.artErr = FALSE, !.hce = NULL, !.receipt = FALSE,
                             !.index = "untouched"]
  <2>1. f \in Features /\ d \in Doc
    BY <1>1, <1>7, PendingFeature
  <2> DEFINE a == [r.attempts EXCEPT ![f] = @ + 1]
  <2>2. a \in [Features -> Nat]
    BY <1>1, <2>1 DEF Run
  <2>3. r' = [r EXCEPT !.pc = "snapshot", !.doc = d, !.feature = f, !.attempts = a,
                       !.res = NULL, !.artErr = FALSE, !.hce = NULL, !.receipt = FALSE,
                       !.index = "untouched"]
    BY <1>7
  <2> HIDE DEF d, f, a
  <2>4. /\ r' \in Run /\ r'.pc = "snapshot" /\ r'.doc = d /\ r'.feature = f /\ r'.artErr = FALSE
        /\ r'.index = "untouched"
        /\ Changes({"attempts", "feature", "doc", "res", "artErr", "hce", "index"})
    BY <1>1, <2>1, <2>2, <2>3, PcMembers, ZenonT(30) DEF Run, Changes, Locals
  <2> USE DEF Waiting, Boundary, Ended
  <2>5. Types'
    BY <1>1, <1>2, <1>3, <1>7, <2>1, <2>4 DEF IInv, Types, IsTree, repository, evidence, processes
  <2>6. Control'
    BY <1>1, <1>2, <1>3, <1>7, <2>1, <2>4 DEF IInv, Types, Control, InHand, AgentIsAwaited, RunnerOnly, Allowed,
       Requested, IndexKnown, Changes, Locals, repository, evidence, processes
  <2>7. Meaning'
    BY <1>1, <1>2, <1>3, <1>7, <2>1, <2>4 DEF IInv, Types, Control, InHand, Meaning, DocumentKept, PutBack,
       Decided, Due,
       Changes, Locals, repository, evidence, processes
  <2>8. Told'
    BY <1>1, <1>2, <1>3, <1>7, <2>1, <2>4 DEF IInv, Told, CommitsAreDue, OwnerWorkNotCommitted,
       NoCommitAfterTimeout,
       SignalReported, ZeroMeansAllPassed, At, Changes, Locals, repository, evidence, processes
  <2> QED
    BY <2>5, <2>6, <2>7, <2>8 DEF IInv
<1>8. r.pc = "select" /\ r.iter > MaxIterations => r.mode # "runner"
  BY <1>1 DEF IInv, Meaning, Due
<1>9. CASE r.pc = "select" /\ r.iter > MaxIterations
  BY <1>1, <1>4, <1>8, <1>9 DEF Select
<1>10. CASE ~(r.pc = "select" /\ r.iter > MaxIterations) /\ d = NULL
  BY <1>1, <1>4, <1>10 DEF Select
<1>11. CASE ~(r.pc = "select" /\ r.iter > MaxIterations) /\ d # NULL /\ f = NULL
  BY <1>1, <1>5, <1>11 DEF Select
<1>12. CASE ~(r.pc = "select" /\ r.iter > MaxIterations) /\ d # NULL /\ f # NULL
  BY <1>1, <1>6, <1>7, <1>12 DEF Select
<1> QED
  BY <1>9, <1>10, <1>11, <1>12

-----------------------------------------------------------------------------
\* A new program starts from scratch, whatever the one before left
LEMMA StartKeeps ==
    ASSUME IInv, NEW mode, Start(mode)
    PROVE  IInv'
<1>1. agent = "none" /\ mode \in {"runner", "legacy", "kickoff"}
  BY GoalLoopAssumption DEF IInv, Control, AgentIsAwaited, Start, Active, Waiting
<1>2. sig' = FALSE /\ UNCHANGED <<repository, evidence, processes, last, late, edits>>
  BY DEF Start
<1>3. UNCHANGED Staged
  BY <1>2 DEF Staged, repository
<1>4. /\ r'.pc = (IF mode = "kickoff" THEN "snapshot" ELSE "load") /\ r'.mode = mode /\ r'.iter = 1
      /\ r'.artErr = FALSE /\ r'.out = NULL /\ r'.index = "untouched"
  BY DEF Start, Fresh
<1>5. r' \in Run
  <2>1. /\ NULL \in Exit /\ 1 \in 1..(MaxIterations + 1) /\ [g \in Features |-> 0] \in [Features -> Nat]
        /\ (IF mode = "kickoff" THEN "snapshot" ELSE "load") \in Pc
    BY PcMembers, GoalLoopAssumption DEF Exit
  <2> QED
    BY <1>1, <2>1 DEF Start, Fresh, Run
<1>6. 1 <= MaxIterations
  BY GoalLoopAssumption
<1> USE DEF Waiting, Boundary, Ended
<1>7. Types'
  BY <1>1, <1>2, <1>3, <1>4, <1>5, <1>6 DEF IInv, Types, IsTree, repository, evidence, processes
<1>8. Control'
  BY <1>1, <1>2, <1>3, <1>4, <1>5, <1>6 DEF IInv, Types, Control, InHand, AgentIsAwaited, RunnerOnly, Allowed,
       Requested, IndexKnown, Changes, Locals, repository, evidence, processes
<1>9. Meaning'
  BY <1>1, <1>2, <1>3, <1>4, <1>5, <1>6 DEF IInv, Types, Control, InHand, Meaning, DocumentKept, PutBack,
     Decided, Due,
       Changes, Locals, repository, evidence, processes
<1>10. Told'
  BY <1>1, <1>2, <1>3, <1>4, <1>5, <1>6 DEF IInv, Told, CommitsAreDue, OwnerWorkNotCommitted,
     NoCommitAfterTimeout,
       SignalReported, ZeroMeansAllPassed, At, Changes, Locals, repository, evidence, processes
<1> QED
  BY <1>7, <1>8, <1>9, <1>10 DEF IInv

\* A signal arrives
LEMMA SignalKeeps ==
    ASSUME IInv, Signal
    PROVE  IInv'
<1>1. sig' = TRUE /\ UNCHANGED <<repository, evidence, processes, r, history>>
  BY DEF Signal
<1>2. UNCHANGED Staged
  BY <1>1 DEF Staged, repository
<1> USE DEF Waiting, Boundary, Ended
<1>3. Types'
  BY <1>1, <1>2 DEF IInv, Types, IsTree, repository, evidence, processes, history
<1>4. Control'
  BY <1>1, <1>2 DEF IInv, Types, Control, InHand, AgentIsAwaited, RunnerOnly, Allowed,
       Requested, IndexKnown, Changes, Locals, repository, evidence, processes, history
<1>5. Meaning'
  BY <1>1, <1>2 DEF IInv, Types, Control, InHand, Meaning, DocumentKept, PutBack, Decided, Due,
       Changes, Locals, repository, evidence, processes, history
<1>6. Told'
  BY <1>1, <1>2 DEF IInv, Told, CommitsAreDue, OwnerWorkNotCommitted, NoCommitAfterTimeout,
       SignalReported, ZeroMeansAllPassed, At, Changes, Locals, repository, evidence, processes, history
<1> QED
  BY <1>3, <1>4, <1>5, <1>6 DEF IInv

\* The program dies, perhaps through the finally that restores the index
LEMMA KilledKeeps ==
    ASSUME IInv, Killed
    PROVE  IInv'
<1>1. r \in Run
  BY DEF IInv, Types
<1>2. agent' = "none" /\ orphan' \in BOOLEAN /\ UNCHANGED <<work, head, evidence, sig, history>>
  BY GoalLoopAssumption DEF IInv, Types, Killed
<1>3. /\ r' \in Run /\ r'.pc = "dead"
      /\ Changes({})
  BY <1>1, GoFields, PcMembers DEF Killed, Changes, Locals
<1>4. IsTree(index')
  BY DEF IInv, Types, Killed, IsTree, Paths
<1>5. r.index \in {"committed", "restored"} => Staged' = {}
  <2>1. r.index \in {"committed", "restored"} => r.pc \notin {"staged", "commit"} /\ Staged = {}
    BY DEF IInv, Control, IndexKnown
  <2>2. r.pc \notin {"staged", "commit"} => Staged' = Staged
    BY <1>2 DEF Killed, Staged
  <2> QED
    BY <2>1, <2>2
<1> USE DEF Waiting, Boundary, Ended
<1>6. Types'
  BY <1>1, <1>2, <1>3, <1>4, <1>5 DEF IInv, Types, IsTree, evidence, history
<1>7. Control'
  BY <1>1, <1>2, <1>3, <1>4, <1>5 DEF IInv, Types, Control, InHand, AgentIsAwaited, RunnerOnly, Allowed,
       Requested, IndexKnown, Changes, Locals, evidence, history
<1>8. Meaning'
  BY <1>1, <1>2, <1>3, <1>4, <1>5 DEF IInv, Types, Control, InHand, Meaning, DocumentKept, PutBack, Decided,
     Due,
       Changes, Locals, evidence, history
<1>9. Told'
  BY <1>1, <1>2, <1>3, <1>4, <1>5 DEF IInv, Told, CommitsAreDue, OwnerWorkNotCommitted, NoCommitAfterTimeout,
       SignalReported, ZeroMeansAllPassed, At, Changes, Locals, evidence, history
<1> QED
  BY <1>6, <1>7, <1>8, <1>9 DEF IInv

\* An edit of the worktree by the agent or by a process it left behind
LEMMA EditKeeps ==
    ASSUME IInv, AgentEdit \/ OrphanEdit
    PROVE  IInv'
<1>1. UNCHANGED <<index, head, evidence, processes, sig, r, last, runs>>
  BY DEF AgentEdit, OrphanEdit
<1>2. UNCHANGED Staged
  BY <1>1 DEF Staged
<1>3. late' \in BOOLEAN /\ (late' = FALSE => late = FALSE /\ agent = "running")
  BY DEF AgentEdit, OrphanEdit, Edited, IInv, Types
<1>4. late' = FALSE => r.pc \in Waiting
  BY <1>3 DEF IInv, Control, AgentIsAwaited
<1>5. IsTree(work')
  <2>1. IsTree(work) /\ FeaturesFile \notin Files /\ FeaturesFile \in Paths /\ Files \subseteq Paths
    BY GoalLoopAssumption DEF IInv, Types, Paths
  <2>2. ASSUME NEW p \in Files, NEW v \in {0, 1, NULL}, work' = [work EXCEPT ![p] = v] PROVE IsTree(work')
    BY <2>1, <2>2 DEF IsTree
  <2>3. ASSUME work' = [work EXCEPT ![FeaturesFile] = NULL] PROVE IsTree(work')
    BY <2>1, <2>3 DEF IsTree
  <2>4. ASSUME NEW g \in Features, NEW st \in Status, work[FeaturesFile] # NULL,
               work' = [work EXCEPT ![FeaturesFile][g] = st]
        PROVE  IsTree(work')
    <3>1. [work[FeaturesFile] EXCEPT ![g] = st] \in Doc
      BY <2>1, <2>4 DEF IsTree, Doc
    <3> QED
      BY <2>1, <2>4, <3>1 DEF IsTree
  <2> QED
    BY <2>2, <2>3, <2>4 DEF AgentEdit, OrphanEdit, Edited
<1> USE DEF Waiting, Boundary, Ended
<1>6. Types'
  BY <1>1, <1>2, <1>3, <1>4, <1>5 DEF IInv, Types, IsTree, evidence, processes
<1>7. Control'
  BY <1>1, <1>2, <1>3, <1>4, <1>5 DEF IInv, Types, Control, InHand, AgentIsAwaited, RunnerOnly, Allowed,
       Requested, IndexKnown, Changes, Locals, evidence, processes
<1>8. Meaning'
  BY <1>1, <1>2, <1>3, <1>4, <1>5 DEF IInv, Types, Control, InHand, Meaning, DocumentKept, PutBack, Decided,
     Due,
       Changes, Locals, evidence, processes
<1>9. Told'
  BY <1>1, <1>2, <1>3, <1>4, <1>5 DEF IInv, Told, CommitsAreDue, OwnerWorkNotCommitted, NoCommitAfterTimeout,
       SignalReported, ZeroMeansAllPassed, At, Changes, Locals, evidence, processes
<1> QED
  BY <1>6, <1>7, <1>8, <1>9 DEF IInv

\* The agent stages a file, which it can only while it is awaited
LEMMA AgentStageKeeps ==
    ASSUME IInv, AgentStage
    PROVE  IInv'
<1>1. UNCHANGED <<work, head, evidence, processes, sig, r, last, late, runs>>
  BY DEF AgentStage
<1>2. r.pc \in Waiting /\ r.index = "untouched"
  BY DEF AgentStage, IInv, Control, AgentIsAwaited, IndexKnown
<1>3. IsTree(index')
  BY GoalLoopAssumption DEF IInv, Types, AgentStage, IsTree, Paths
<1> USE DEF Waiting, Boundary, Ended
<1>4. Types'
  BY <1>1, <1>2, <1>3 DEF IInv, Types, IsTree, evidence, processes
<1>5. Control'
  BY <1>1, <1>2, <1>3 DEF IInv, Types, Control, InHand, AgentIsAwaited, RunnerOnly, Allowed,
       Requested, IndexKnown, Changes, Locals, evidence, processes
<1>6. Meaning'
  BY <1>1, <1>2, <1>3 DEF IInv, Types, Control, InHand, Meaning, DocumentKept, PutBack, Decided, Due,
       Changes, Locals, evidence, processes
<1>7. Told'
  BY <1>1, <1>2, <1>3 DEF IInv, Told, CommitsAreDue, OwnerWorkNotCommitted, NoCommitAfterTimeout,
       SignalReported, ZeroMeansAllPassed, At, Changes, Locals, evidence, processes
<1> QED
  BY <1>4, <1>5, <1>6, <1>7 DEF IInv

\* The agent ends and leaves its request; a process it left behind ends
LEMMA AgentExitKeeps ==
    ASSUME IInv, AgentExit \/ OrphanEnds
    PROVE  IInv'
<1>1. UNCHANGED <<repository, sig, r, history>>
  BY DEF AgentExit, OrphanEnds
<1>2. UNCHANGED Staged
  BY <1>1 DEF Staged, repository
<1>3. /\ agent' \in {"none", "running", "exit0", "exit1"} /\ orphan' \in BOOLEAN
      /\ snapTouched' \in BOOLEAN /\ finalMd' \in BOOLEAN
  BY GoalLoopAssumption DEF AgentExit, OrphanEnds, IInv, Types, evidence
<1>4. \/ r.pc \in Waiting
      \/ request' = request /\ agent' = agent
  BY DEF AgentExit, OrphanEnds, IInv, Control, AgentIsAwaited, evidence
<1> USE DEF Waiting, Boundary, Ended
<1>5. Types'
  BY <1>1, <1>2, <1>3, <1>4 DEF IInv, Types, IsTree, repository, history
<1>6. Control'
  BY <1>1, <1>2, <1>3, <1>4 DEF IInv, Types, Control, InHand, AgentIsAwaited, RunnerOnly, Allowed,
       Requested, IndexKnown, Changes, Locals, repository, history
<1>7. Meaning'
  BY <1>1, <1>2, <1>3, <1>4 DEF IInv, Types, Control, InHand, Meaning, DocumentKept, PutBack, Decided, Due,
       Changes, Locals, repository, history
<1>8. Told'
  BY <1>1, <1>2, <1>3, <1>4 DEF IInv, Told, CommitsAreDue, OwnerWorkNotCommitted, NoCommitAfterTimeout,
       SignalReported, ZeroMeansAllPassed, At, Changes, Locals, repository, history
<1> QED
  BY <1>5, <1>6, <1>7, <1>8 DEF IInv

-----------------------------------------------------------------------------
\* Before the first run nothing is decided
LEMMA InitIsGood == Init => IInv
<1> SUFFICES ASSUME Init PROVE IInv
  OBVIOUS
<1> USE DEF Waiting, Boundary, Ended
<1>1. /\ r.pc = "idle" /\ r.mode = "runner" /\ r.iter = 1 /\ r.artErr = FALSE /\ r.index = "untouched"
  BY DEF Init, Fresh
<1>2. r \in Run
  <2>1. /\ NULL \in Exit /\ 1 \in 1..(MaxIterations + 1) /\ [g \in Features |-> 0] \in [Features -> Nat]
        /\ "idle" \in Pc
    BY PcMembers, GoalLoopAssumption DEF Exit
  <2> QED
    BY <2>1 DEF Init, Fresh, Run
<1>3. IsTree(head)
  <2>1. [g \in Features |-> Pending] \in Doc
    BY DEF Pending, Doc, Status
  <2> QED
    BY <2>1, GoalLoopAssumption DEF Init, IsTree, Paths
<1>4. IsTree(work)
  <2>1. PICK p \in Files, v \in {0, 1} : work = [head EXCEPT ![p] = v]
    BY DEF Init
  <2>2. p \in Paths /\ p # FeaturesFile /\ v \in {0, 1, NULL}
    BY GoalLoopAssumption DEF Paths
  <2> QED
    BY <1>3, <2>1, <2>2 DEF IsTree
<1>5. Types
  <2>1. IsTree(index)
    BY <1>3, <1>4 DEF Init
  <2>2. /\ agent = "none" /\ orphan = FALSE /\ sig = FALSE /\ finalMd = TRUE /\ snapTouched = FALSE
        /\ late = FALSE
    BY DEF Init
  <2> QED
    BY <1>2, <1>3, <1>4, <2>1, <2>2 DEF Types
<1>6. Control
  BY <1>1, GoalLoopAssumption DEF Init, Control, InHand, AgentIsAwaited, RunnerOnly, Allowed, Requested,
     IndexKnown
<1>7. Meaning
  BY <1>1 DEF Meaning, DocumentKept, PutBack, Decided, Due
<1>8. Told
  BY <1>1 DEF Init, Told, CommitsAreDue, OwnerWorkNotCommitted, NoCommitAfterTimeout, SignalReported,
     ZeroMeansAllPassed, At
<1> QED
  BY <1>5, <1>6, <1>7, <1>8 DEF IInv

\* Steps that change nothing
LEMMA StutterKeeps ==
    ASSUME IInv, UNCHANGED vars
    PROVE  IInv'
<1>1. UNCHANGED Staged
  BY DEF Staged, vars, repository
<1>2. Types' /\ Control'
  BY <1>1 DEF IInv, Types, IsTree, Control, InHand, AgentIsAwaited, RunnerOnly, Allowed, Requested, IndexKnown,
     vars, repository, evidence, processes, history
<1>3. Meaning' /\ Told'
  BY DEF IInv, Meaning, DocumentKept, PutBack, Decided, Due, Told, CommitsAreDue, OwnerWorkNotCommitted,
     NoCommitAfterTimeout, SignalReported, ZeroMeansAllPassed, At, vars, repository, evidence, processes,
     history
<1> QED
  BY <1>2, <1>3 DEF IInv

\* The invariant holds of every behaviour, whatever the agent and the processes it leaves behind do
THEOREM Invariance == Spec => []IInv
<1>1. IInv /\ [Next]_vars => IInv'
  <2> SUFFICES ASSUME IInv, [Next]_vars PROVE IInv'
    OBVIOUS
  <2>1. CASE Program
    BY <2>1, SelectKeeps, SnapshotKeeps, LaunchKeeps, WaitAgentKeeps, DeadlineKeeps, TerminateKeeps,
       ReadBackKeeps, PendKeeps, GateKeeps, StreamEndedKeeps, RequestKeeps, CheckStateKeeps, GitAddKeeps,
       CheckStagedKeeps, GitCommitKeeps, AfterCommitKeeps, DecideKeeps, ConfirmKeeps DEF Program
  <2>2. CASE Environment
    BY <2>2, StartKeeps, SignalKeeps, KilledKeeps, EditKeeps, AgentStageKeeps, AgentExitKeeps
       DEF Environment, StartRunner, StartLegacyLoop, StartKickoff
  <2>3. CASE UNCHANGED vars
    BY <2>3, StutterKeeps
  <2> QED
    BY <2>1, <2>2, <2>3 DEF Next
<1> QED
  BY <1>1, InitIsGood, PTL DEF Spec

\* A host commit holds the work that was asked for by an agent that ended in time, and nothing
\* that was dirty before it started (host_commit.py)
THEOREM CommitsAreDueHolds == Spec => []CommitsAreDue
<1>1. IInv => CommitsAreDue
  BY DEF IInv, Told
<1> QED
  BY <1>1, Invariance, PTL

\* What the runner says of features follows from the document that was committed, and it starts
\* another agent only when one is due (goal_loop_runner.py)
THEOREM FeaturesDecideHolds == Spec => []FeaturesDecide
<1>1. IInv => FeaturesDecide
  <2> SUFFICES ASSUME IInv PROVE FeaturesDecide
    OBVIOUS
  <2>1. TypeOK
    BY ZenonT(30) DEF IInv, Types, TypeOK, IsTree, Run, Exit, Doc
  <2>2. CompleteIsCommitted
    BY DEF IInv, Types, Control, RunnerOnly, Meaning, DocumentKept, CompleteIsCommitted, At
  <2>3. TimedOutNotPassed
    BY DEF IInv, Types, Meaning, PutBack, TimedOutNotPassed, At, Run
  <2>4. NextAgentIsDue
    BY DEF IInv, Meaning, Due, NextAgentIsDue, At
  <2> QED
    BY <2>1, <2>2, <2>3, <2>4 DEF IInv, Told, FeaturesDecide
<1> QED
  BY <1>1, Invariance, PTL

\* Where an iteration decides how the run ends, the runner's exit code is the one in its metadata, which is what the
\* iteration decided, and a signal it saw is in both; returns out of the selection or a failed snapshot are excluded
THEOREM SignalReportedHolds == Spec => []SignalReported
<1>1. IInv => SignalReported
  BY DEF IInv, Told
<1> QED
  BY <1>1, Invariance, PTL

\* A program that asked git to add files returns with nothing staged, unless git failed to restore
THEOREM IndexRestoredHolds == Spec => []IndexRestored
<1>1. IInv => IndexRestored
  BY DEF IInv, Control, IndexKnown, IndexRestored, At
<1> QED
  BY <1>1, Invariance, PTL
=============================================================================
