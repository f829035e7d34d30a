----------------------- MODULE VerifiedSnapshotProofs -----------------------
(***************************************************************************)
(* Proofs about VerifiedSnapshot, for any tree, any history of edits and   *)
(* HEAD moves, and any budget: a workspace without a snapshot holds no     *)
(* usable copy and leaves no directory behind (NothingLeaks), a command    *)
(* that changed its copy is found out (TamperingIsSeen), commit, tree,     *)
(* manifest and tracked paths of a snapshot belong together                *)
(* (SnapshotWasReal), and names and contents of the copy were those of the *)
(* source (CopyWasReal, from a second invariant about the walk).           *)
(***************************************************************************)
EXTENDS VerifiedSnapshot, FiniteSetTheorems, SequenceTheorems, TLAPS

Kinds == {"file", "dir", "link", "special", "none"}
Node == [kind : Kinds, ino : Nat, mode : Modes, data : Seq(Chunk), stamp : Nat]
Stat == [kind : Kinds, ino : Nat, mode : Modes, size : Nat, stamp : Nat]
Listing == [dir : Paths, stat : Stat, present : SUBSET Paths, visited : SUBSET Paths]
Copying == [path : Paths, before : Stat, fd : Node, got : Seq(Chunk), again : Seq(Chunk),
            after : Stat \cup {NULL}]

\* w is a record with the fields of a DisposableWorkspace
Workspace(w) ==
    w = [copy |-> w.copy, comparison |-> w.comparison, snapshot |-> w.snapshot,
         refusals |-> w.refusals, exceeded |-> w.exceeded, commit |-> w.commit, tree |-> w.tree,
         tracked |-> w.tracked, exported |-> w.exported, cleanup |-> w.cleanup]

EntryPc == {"opendir", "open", "copy", "validate"}
WalkPc == {"walk", "list"} \cup EntryPc
AsidePc == {"compare", "recheck_commit", "recheck_tree"}
GitPc == {"commit", "resolve_tree", "tree", "export"} \cup AsidePc
WorkPc == GitPc \cup WalkPc \cup {"finish", "recheck_root"}
FreshPc == {"recheck_root", "returned", "linked", "handed"}
Pc == WorkPc \cup FreshPc \cup {"start", "in_use", "cleanup", "closed"}

----------------------------------------------------------------------------
(***************************************************************************)
(* The inductive invariant                                                 *)
(***************************************************************************)
Environment ==
    /\ live \in [Paths -> Node] /\ situation \in Case
    /\ clock \in Nat /\ edits \in Nat /\ moves \in Nat
    /\ head \in heads /\ (situation.layout # "none" => heads \subseteq Commits)

Walking ==
    /\ frames \in Seq(Listing) /\ entries \in Manifest /\ IsFiniteSet(DOMAIN entries)
    /\ cur = NULL \/ cur \in Copying
    /\ pc \in {"list"} \cup EntryPc => frames # <<>>
    /\ pc \in EntryPc => cur \in Copying

\* Which way the attempt goes
Attempted ==
    /\ pc \in Pc /\ kind \in {"git", "filesystem"}
    /\ Workspace(ws) /\ attempt = [n |-> attempt.n, tracked |-> attempt.tracked, tree |-> attempt.tree]
    /\ kind = "git" => situation.layout = "direct" /\ (pc # "start" => attempt.n = 1)
    /\ kind = "filesystem" => ws.commit = NULL /\ ws.tree = NULL
    /\ pc \in GitPc => kind = "git"

\* The temporary directory exists from the start of an attempt to its cleanup
Released ==
    /\ pc = "start" => roots = 0
    /\ pc \notin {"start", "closed"} => roots = 1 /\ ws.cleanup # "ok"
    /\ pc = "closed" => roots \in {0, 1} /\ (ws.cleanup = "ok" => roots = 0)

\* A refusal ends the attempt, and only a refusal leaves it without a snapshot
Refused ==
    /\ pc \in WorkPc => ws.refusals = {} /\ ws.exceeded = FALSE
    /\ pc \in {"recheck_root", "linked"} => ws.snapshot # NULL
    /\ pc \in FreshPc =>
         IF ws.snapshot = NULL
         THEN ws.refusals # {} /\ (ws.copy = <<>> \/ "partial_snapshot_cleanup_failed" \in ws.refusals)
         ELSE /\ ws.refusals = {} /\ ws.exceeded = FALSE
              /\ ws.snapshot.kind = kind /\ (kind = "filesystem" => ws.snapshot \in FilesystemSnapshot)

\* The copy is the manifest until the command gets it
Untouched ==
    /\ pc \in FreshPc /\ ws.snapshot # NULL => ws.copy = ws.snapshot.manifest
    /\ pc \in FreshPc \cup {"in_use"} /\ ws.snapshot # NULL =>
          InventoryExistingTree(ws.snapshot.manifest) # NULL /\ IsFiniteSet(DOMAIN ws.snapshot.manifest)
    /\ pc = "in_use" => /\ ws.snapshot # NULL /\ IsFiniteSet(DOMAIN ws.copy)
                        /\ used = [worktree |-> used.worktree, before |-> SnapshotWorkspace(ws.snapshot.manifest),
                                   verified |-> NULL, diff |-> NULL]

\* Commit and tree were resolved by two commands, HEAD may have moved in between
Resolved ==
    /\ pc = "resolve_tree" /\ ws.commit # NULL => ws.commit \in heads /\ (head # ws.commit => moves >= 1)
    /\ kind = "git" /\ pc \in {"tree", "export", "finish"} \cup WalkPc \cup AsidePc =>
         /\ ws.commit \in heads /\ ws.commit # NULL /\ ws.tree # NULL
         /\ \E c \in heads : ws.tree = Tree[c]
         /\ Tree[ws.commit] # ws.tree =>
              /\ moves >= 1 /\ (head = ws.commit => moves >= 2)
              /\ pc = "recheck_tree" => moves >= 2 /\ (head # ws.commit => moves >= 3)
              /\ pc = "finish" => moves >= 3
    /\ kind = "git" /\ pc \in {"export", "finish"} \cup WalkPc \cup AsidePc => ws.tracked = DOMAIN ws.tree
    /\ kind = "git" /\ pc \in {"finish"} \cup WalkPc \cup AsidePc => ws.exported = Exported(ws.tree)

\* The paths that a tree HEAD named tracks
TrackedByHead(paths) == \E c \in heads : paths = DOMAIN Tree[c]

Published ==
    /\ pc \in FreshPc /\ ws.snapshot # NULL =>
         /\ ws.snapshot.kind = "git" =>
              /\ ws.snapshot.manifest = Exported(ws.snapshot.tree) /\ ws.snapshot.commit \in heads
              /\ Tree[ws.snapshot.commit] # ws.snapshot.tree => moves >= 3
         /\ \/ ws.snapshot.tracked = {p \in DOMAIN ws.snapshot.manifest : ws.snapshot.manifest[p].type = "file"}
            \/ TrackedByHead(ws.snapshot.tracked)
    /\ pc = "returned" /\ "source_worktree_not_exact_commit" \in ws.refusals => TrackedByHead(ws.tracked)
    /\ attempt.tracked # {} => attempt.n = 2 /\ situation.layout = "direct" /\ TrackedByHead(attempt.tracked)
    /\ pc = "linked" => situation.layout = "linked" /\ \E c \in heads : attempt.tree = Tree[c]

USE DEF SilentDiff

IInv == /\ Environment /\ Walking /\ Attempted /\ Released /\ Refused /\ Untouched /\ Resolved /\ Published
        /\ TamperingIsSeen

----------------------------------------------------------------------------
(***************************************************************************)
(* The workspace record: what an update leaves alone                       *)
(***************************************************************************)
\* v is a workspace that differs from w at most in the fields fs
Differs(w, v, fs) ==
    /\ Workspace(v)
    /\ "copy" \in fs \/ v.copy = w.copy
    /\ "comparison" \in fs \/ v.comparison = w.comparison
    /\ "snapshot" \in fs \/ v.snapshot = w.snapshot
    /\ "refusals" \in fs \/ v.refusals = w.refusals
    /\ "exceeded" \in fs \/ v.exceeded = w.exceeded
    /\ "commit" \in fs \/ v.commit = w.commit
    /\ "tree" \in fs \/ v.tree = w.tree
    /\ "tracked" \in fs \/ v.tracked = w.tracked
    /\ "exported" \in fs \/ v.exported = w.exported
    /\ "cleanup" \in fs \/ v.cleanup = w.cleanup

\* Assigning the field commit
LEMMA AssignCommit ==
    ASSUME NEW w, NEW x, Workspace(w)
    PROVE  LET v == [w EXCEPT !.commit = x] IN Differs(w, v, {"commit"}) /\ v.commit = x
BY DEF Workspace, Differs

\* Assigning the field tree
LEMMA AssignTree ==
    ASSUME NEW w, NEW x, Workspace(w)
    PROVE  LET v == [w EXCEPT !.tree = x] IN Differs(w, v, {"tree"}) /\ v.tree = x
BY DEF Workspace, Differs

\* Assigning the field tracked
LEMMA AssignTracked ==
    ASSUME NEW w, NEW x, Workspace(w)
    PROVE  LET v == [w EXCEPT !.tracked = x] IN Differs(w, v, {"tracked"}) /\ v.tracked = x
BY DEF Workspace, Differs

\* Assigning the field copy
LEMMA AssignCopy ==
    ASSUME NEW w, NEW x, Workspace(w)
    PROVE  LET v == [w EXCEPT !.copy = x] IN Differs(w, v, {"copy"}) /\ v.copy = x
BY DEF Workspace, Differs

\* Assigning the field comparison
LEMMA AssignComparison ==
    ASSUME NEW w, NEW x, Workspace(w)
    PROVE  LET v == [w EXCEPT !.comparison = x] IN Differs(w, v, {"comparison"}) /\ v.comparison = x
BY DEF Workspace, Differs

\* Assigning the field snapshot
LEMMA AssignSnapshot ==
    ASSUME NEW w, NEW x, Workspace(w)
    PROVE  LET v == [w EXCEPT !.snapshot = x] IN Differs(w, v, {"snapshot"}) /\ v.snapshot = x
BY DEF Workspace, Differs

\* Assigning the field cleanup
LEMMA AssignCleanup ==
    ASSUME NEW w, NEW x, Workspace(w)
    PROVE  LET v == [w EXCEPT !.cleanup = x] IN Differs(w, v, {"cleanup"}) /\ v.cleanup = x
BY DEF Workspace, Differs

\* Assigning the field refusals
LEMMA AssignRefusals ==
    ASSUME NEW w, NEW x, Workspace(w)
    PROVE  LET v == [w EXCEPT !.refusals = x] IN Differs(w, v, {"refusals"}) /\ v.refusals = x
BY DEF Workspace, Differs

\* Assigning the field exceeded
LEMMA AssignExceeded ==
    ASSUME NEW w, NEW x, Workspace(w)
    PROVE  LET v == [w EXCEPT !.exceeded = x] IN Differs(w, v, {"exceeded"}) /\ v.exceeded = x
BY DEF Workspace, Differs

\* Assigning the field exported
LEMMA AssignExported ==
    ASSUME NEW w, NEW x, Workspace(w)
    PROVE  LET v == [w EXCEPT !.exported = x] IN Differs(w, v, {"exported"}) /\ v.exported = x
BY DEF Workspace, Differs

\* ExportGitBlobs fills the copy and remembers what it exported
LEMMA AssignExport ==
    ASSUME NEW w, NEW x, Workspace(w)
    PROVE  LET v == [w EXCEPT !.copy = x, !.exported = x]
           IN Differs(w, v, {"copy", "exported"}) /\ v.copy = x /\ v.exported = x
<1> DEFINE u == [w EXCEPT !.copy = x]
<1>1. [w EXCEPT !.copy = x, !.exported = x] = [u EXCEPT !.exported = x]
  OBVIOUS
<1>2. Differs(w, u, {"copy"}) /\ u.copy = x
  BY AssignCopy
<1> HIDE DEF u
<1>3. Differs(u, [u EXCEPT !.exported = x], {"exported"}) /\ [u EXCEPT !.exported = x].exported = x
  BY <1>2, AssignExported DEF Differs
<1>4. QED BY <1>1, <1>2, <1>3 DEF Differs

\* The empty workspace of a new attempt
LEMMA EmptyIsWorkspace == Workspace(EmptyWorkspace)
BY DEF Workspace, EmptyWorkspace

\* record_refusal and invalidate_partial_workspace: the snapshot is gone, the reason stays
LEMMA RefusalFields ==
    ASSUME NEW w, NEW reason, NEW own, Workspace(w), NEW emptied \in BOOLEAN
    PROVE  LET v == InvalidatePartialWorkspace(RecordRefusal(w, reason, own), emptied)
           IN /\ Differs(w, v, {"snapshot", "copy", "refusals", "exceeded"})
              /\ v.snapshot = NULL /\ reason \in v.refusals
              /\ v.refusals \subseteq w.refusals \cup {reason, "partial_snapshot_cleanup_failed"}
              /\ v.copy = <<>> \/ "partial_snapshot_cleanup_failed" \in v.refusals
              /\ v.copy \in {<<>>, w.copy}
<1> DEFINE x1 == w.refusals \cup {reason}
           x2 == w.exceeded \/ (own /\ reason \in BudgetReasons)
           w1 == [w EXCEPT !.refusals = x1]
           w2 == [w1 EXCEPT !.exceeded = x2]
           w3 == [w2 EXCEPT !.snapshot = NULL]
           x4 == IF emptied THEN <<>> ELSE w2.copy
           w4 == [w3 EXCEPT !.copy = x4]
           x5 == w2.refusals \cup IF emptied THEN {} ELSE {"partial_snapshot_cleanup_failed"}
           w5 == [w4 EXCEPT !.refusals = x5]
<1>1. RecordRefusal(w, reason, own) = w2
  BY DEF RecordRefusal
<1>2. InvalidatePartialWorkspace(w2, emptied) = w5
  <2> HIDE DEF w2
  <2> QED BY DEF InvalidatePartialWorkspace
<1>3. Differs(w, w1, {"refusals"}) /\ w1.refusals = x1
  <2> HIDE DEF x1
  <2> QED BY AssignRefusals
<1>4. Differs(w1, w2, {"exceeded"})
  <2> HIDE DEF w1, x2
  <2> QED BY <1>3, AssignExceeded DEF Differs
<1>5. Differs(w2, w3, {"snapshot"}) /\ w3.snapshot = NULL
  <2> HIDE DEF w2
  <2> QED BY <1>4, AssignSnapshot DEF Differs
<1>6. Differs(w3, w4, {"copy"}) /\ w4.copy = x4
  <2> HIDE DEF w3, x4
  <2> QED BY <1>5, AssignCopy DEF Differs
<1>7. Differs(w4, w5, {"refusals"}) /\ w5.refusals = x5
  <2> HIDE DEF w4, x5
  <2> QED BY <1>6, AssignRefusals DEF Differs
<1> HIDE DEF w1, w2, w3, w4, w5
<1>8. Differs(w, w5, {"snapshot", "copy", "refusals", "exceeded"})
  BY <1>3, <1>4, <1>5, <1>6, <1>7 DEF Differs
<1>9. w2.refusals = x1 /\ w5.copy = x4 /\ w5.snapshot = NULL /\ w2.copy = w.copy
  BY <1>3, <1>4, <1>5, <1>6, <1>7 DEF Differs
<1>10. QED BY <1>1, <1>2, <1>7, <1>8, <1>9

----------------------------------------------------------------------------
(***************************************************************************)
(* Manifests and nodes                                                     *)
(***************************************************************************)
\* Adding an entry to a manifest keeps it one
LEMMA AddEntry ==
    ASSUME NEW m \in Manifest, NEW p \in Paths, NEW e \in Entry
    PROVE  Put(m, p, e) \in Manifest
<1>1. PICK S \in SUBSET Paths : m \in [S -> Entry]
  BY DEF Manifest
<1>2. Put(m, p, e) \in [S \cup {p} -> Entry]
  BY <1>1 DEF Put
<1>3. QED BY <1>2 DEF Manifest

\* A manifest of finitely many paths stays one
LEMMA PutFinite ==
    ASSUME NEW m, NEW p, NEW e, IsFiniteSet(DOMAIN m)
    PROVE  IsFiniteSet(DOMAIN Put(m, p, e))
<1>1. DOMAIN Put(m, p, e) = DOMAIN m \cup {p}
  BY DEF Put
<1>2. QED BY <1>1, FS_AddElement

\* The walk begins with no entries
LEMMA NoEntries == <<>> \in Manifest
<1>1. <<>> \in [{} -> Entry]
  OBVIOUS
<1>2. QED BY <1>1 DEF Manifest

\* The domain of a manifest
LEMMA ManifestDomain == ASSUME NEW m \in Manifest PROVE DOMAIN m \subseteq Paths
BY DEF Manifest

\* lstat of a node
LEMMA MetaType == ASSUME NEW n \in Node PROVE Meta(n) \in Stat /\ Meta(n).mode = n.mode
BY DEF Node, Stat, Meta

\* _git_tree_entries never gives the reason that a worktree differs from its commit
LEMMA TreeRefusalsAreOther ==
    ASSUME NEW t PROVE "source_worktree_not_exact_commit" \notin GitTreeRefusals(t)
<1> DEFINE b1 == Cardinality(DOMAIN t) > MaxFiles
           b2 == Cardinality(TreeDirs(DOMAIN t)) + 1 > MaxDirs
           b3 == Cardinality(DOMAIN t) + Cardinality(TreeDirs(DOMAIN t)) > MaxPaths
           b4 == \E f \in DOMAIN t : Depth(f) - 1 > MaxDepth
           b5 == \E f \in Kept(t) : Len(t[f].data) > MaxFileSize
           b6 == Size([f \in Kept(t) |-> t[f]]) > MaxTotal
           b7 == \E f \in DOMAIN t : t[f].mode \notin Modes
           b8 == AuthFile \in DOMAIN t
           budget == {<<b1, "max_file_count">>, <<b2, "max_directory_count">>,
                      <<b3, "max_manifest_path_bytes">>, <<b4, "max_depth">>,
                      <<b5, "max_file_bytes">>, <<b6, "max_total_bytes">>}
           shape == {<<b7, "git_tree_unsupported_entry">>,
                     <<b8, "tracked_authorization_artifact_refused">>}
<1>1. GitTreeRefusals(t) = {r[2] : r \in {q \in budget \cup shape : q[1]}}
  BY DEF GitTreeRefusals
<1> HIDE DEF b1, b2, b3, b4, b5, b6, b7, b8
<1>2. \A q \in budget \cup shape : q[2] # "source_worktree_not_exact_commit"
  OBVIOUS
<1> HIDE DEF budget, shape
<1>3. QED BY <1>1, <1>2

----------------------------------------------------------------------------
(***************************************************************************)
(* Steps by kind: a refusal, a step of the walk, a git lookup              *)
(***************************************************************************)
\* Every refusal ends the attempt with the invariant kept
LEMMA RefuseKeeps ==
    ASSUME IInv, pc \in WorkPc, NEW w, NEW reason, NEW own, RefuseIn(w, reason, own),
           Differs(ws, w, {"tree", "tracked"}), kind = "git" \/ w = ws,
           reason # "source_worktree_not_exact_commit" \/ TrackedByHead(w.tracked)
    PROVE  IInv'
<1>1. PICK emptied \in BOOLEAN : ws' = InvalidatePartialWorkspace(RecordRefusal(w, reason, own), emptied)
  BY DEF RefuseIn
<1>2. /\ Differs(w, ws', {"snapshot", "copy", "refusals", "exceeded"})
      /\ ws'.snapshot = NULL /\ reason \in ws'.refusals
      /\ ws'.refusals \subseteq w.refusals \cup {reason, "partial_snapshot_cleanup_failed"}
      /\ ws'.copy = <<>> \/ "partial_snapshot_cleanup_failed" \in ws'.refusals
  BY <1>1, RefusalFields DEF Differs
<1>3. /\ Workspace(ws') /\ ws'.commit = ws.commit /\ ws'.tree = w.tree /\ ws'.tracked = w.tracked
      /\ ws'.cleanup = ws.cleanup /\ w.refusals = ws.refusals
  BY <1>2 DEF Differs
<1>4. /\ pc' = "returned" /\ frames' = <<>> /\ cur' = NULL
      /\ UNCHANGED <<kind, entries, rootStat, attempt, roots, used, situation, live, head, edits, moves, clock,
                     heads>>
  BY DEF RefuseIn, environment
<1>5. Environment'
  BY <1>4 DEF IInv, Environment
<1>6. Walking'
  BY <1>4 DEF IInv, Walking, EntryPc
<1>7. Attempted'
  BY <1>3, <1>4 DEF IInv, Attempted, GitPc, AsidePc, WorkPc, WalkPc, EntryPc, Pc, FreshPc
<1>8. Released'
  BY <1>3, <1>4 DEF IInv, Released, WorkPc, GitPc, AsidePc, WalkPc, EntryPc
<1>9. Refused'
  BY <1>2, <1>4 DEF Refused, WorkPc, GitPc, AsidePc, WalkPc, EntryPc, FreshPc
<1>10. Untouched'
  BY <1>2, <1>4 DEF Untouched
<1>11. Resolved'
  BY <1>4 DEF Resolved, WalkPc, EntryPc, AsidePc
<1>12. Published'
  BY <1>2, <1>3, <1>4 DEF IInv, Published, Refused, TrackedByHead
<1>13. TamperingIsSeen'
  BY <1>4 DEF TamperingIsSeen
<1>14. QED BY <1>5, <1>6, <1>7, <1>8, <1>9, <1>10, <1>11, <1>12, <1>13 DEF IInv

\* A step of the walk writes the copy or the comparison, the listings and the entries
LEMMA WalkKeeps ==
    ASSUME IInv, pc \in WalkPc, Walking', Differs(ws, ws', {"copy", "comparison"}),
           pc' \in WalkPc \cup IF kind = "git" THEN {"compare"} ELSE {"finish"},
           UNCHANGED <<environment, kind, attempt, roots, used>>
    PROVE  IInv'
<1>1. /\ Workspace(ws') /\ ws'.commit = ws.commit /\ ws'.tree = ws.tree /\ ws'.tracked = ws.tracked
      /\ ws'.exported = ws.exported /\ ws'.cleanup = ws.cleanup /\ ws'.refusals = ws.refusals
      /\ ws'.exceeded = ws.exceeded
  BY DEF Differs
<1>2. UNCHANGED <<situation, live, head, edits, moves, clock, heads>>
  BY DEF environment
<1>3. Environment'
  BY <1>2 DEF IInv, Environment
<1>4. Attempted'
  BY <1>1, <1>2 DEF IInv, Attempted, GitPc, AsidePc, WorkPc, WalkPc, EntryPc, Pc, FreshPc
<1>5. Released'
  BY <1>1, <1>2 DEF IInv, Released, WalkPc, EntryPc
<1>6. Refused'
  BY <1>1, <1>2 DEF IInv, Refused, WorkPc, GitPc, AsidePc, WalkPc, EntryPc, FreshPc
<1>7. Untouched'
  BY <1>1, <1>2 DEF IInv, Untouched, WalkPc, EntryPc, FreshPc
<1>8. Resolved'
  BY <1>1, <1>2 DEF IInv, Resolved, WalkPc, EntryPc, AsidePc
<1>9. Published'
  BY <1>1, <1>2 DEF IInv, Published, TrackedByHead, WalkPc, EntryPc, FreshPc
<1>10. TamperingIsSeen'
  BY DEF TamperingIsSeen, WalkPc, EntryPc
<1>11. QED BY <1>3, <1>4, <1>5, <1>6, <1>7, <1>8, <1>9, <1>10 DEF IInv

\* A git step changes what is known about the subject
LEMMA GitKeeps ==
    ASSUME IInv, pc \in GitPc, Resolved', pc' \in GitPc \cup {"walk", "finish"},
           Differs(ws, ws', {"commit", "tree", "tracked", "copy", "exported", "comparison"}),
           UNCHANGED <<environment, kind, walk, attempt, roots, used>>
    PROVE  IInv'
<1>1. /\ Workspace(ws') /\ ws'.cleanup = ws.cleanup /\ ws'.refusals = ws.refusals
      /\ ws'.exceeded = ws.exceeded
  BY DEF Differs
<1>2. UNCHANGED <<situation, live, head, edits, moves, clock, heads, frames, cur, entries>>
  BY DEF environment, walk
<1>3. Environment'
  BY <1>2 DEF IInv, Environment
<1>4. Walking'
  BY <1>2 DEF IInv, Walking, GitPc, AsidePc, EntryPc
<1>5. Attempted'
  BY <1>1, <1>2 DEF IInv, Attempted, GitPc, AsidePc, WorkPc, WalkPc, EntryPc, Pc, FreshPc
<1>6. Released'
  BY <1>1, <1>2 DEF IInv, Released, GitPc, AsidePc
<1>7. Refused'
  BY <1>1, <1>2 DEF IInv, Refused, WorkPc, GitPc, AsidePc, WalkPc, EntryPc, FreshPc
<1>8. Untouched'
  BY <1>1, <1>2 DEF IInv, Untouched, GitPc, AsidePc, FreshPc
<1>9. Published'
  BY <1>1, <1>2 DEF IInv, Published, TrackedByHead, GitPc, AsidePc, FreshPc
<1>10. TamperingIsSeen'
  BY DEF TamperingIsSeen, GitPc, AsidePc
<1>11. QED BY <1>3, <1>4, <1>5, <1>6, <1>7, <1>8, <1>9, <1>10 DEF IInv

\* A refusal of the workspace as it is
LEMMA RefuseHereKeeps ==
    ASSUME IInv, pc \in WorkPc, NEW reason, reason # "source_worktree_not_exact_commit", Refuse(reason)
    PROVE  IInv'
<1>1. Differs(ws, ws, {"tree", "tracked"})
  BY DEF IInv, Attempted, Differs
<1>2. RefuseIn(ws, reason, kind = "filesystem")
  BY DEF Refuse
<1>3. QED BY <1>1, <1>2, RefuseKeeps

----------------------------------------------------------------------------
(***************************************************************************)
(* The start of an attempt and the git steps                               *)
(***************************************************************************)
\* The initial state
LEMMA InitKeeps == Init => IInv
<1> SUFFICES ASSUME Init PROVE IInv
  OBVIOUS
<1>1. \A p \in Paths : Node0(p, Start[p]) \in Node
  <2> SUFFICES ASSUME NEW p \in Paths PROVE Node0(p, Start[p]) \in Node
    OBVIOUS
  <2> DEFINE d == Start[p]
             data == IF d = NULL THEN <<>> ELSE d
             k == IF d = NULL THEN "none" ELSE IF p \in Dirs THEN "dir" ELSE "file"
  <2>1. d \in Seq(Chunk) \cup {NULL}
    BY SnapshotTypes
  <2>2. data \in Seq(Chunk)
    BY <2>1
  <2>3. k \in Kinds
    BY DEF Kinds
  <2>4. Node0(p, Start[p]) = [kind |-> k, ino |-> 1, mode |-> "100644", data |-> data, stamp |-> 0]
    BY DEF Node0
  <2> HIDE DEF d, data, k
  <2>5. QED BY <2>2, <2>3, <2>4 DEF Node, Modes
<1>2. Environment
  <2>1. live \in [Paths -> Node]
    BY <1>1 DEF Init
  <2>2. situation \in Case
    BY SnapshotConstants DEF Init
  <2>3. situation.layout # "none" => heads \subseteq Commits
    BY DEF Init
  <2>4. QED BY <2>1, <2>2, <2>3 DEF Init, Environment
<1>3. Walking
  BY NoEntries, FS_EmptySet DEF Init, Walking, EntryPc
<1>4. Attempted
  BY EmptyIsWorkspace DEF Init, Attempted, EmptyWorkspace, Pc, GitPc, AsidePc
<1>5. Released
  BY DEF Init, Released
<1>6. Refused /\ Untouched /\ TamperingIsSeen
  BY DEF Init, Refused, Untouched, TamperingIsSeen, WorkPc, GitPc, AsidePc, WalkPc, EntryPc, FreshPc
<1>7. Resolved /\ Published
  BY DEF Init, Resolved, Published, AsidePc, WalkPc, EntryPc, FreshPc
<1>8. QED BY <1>2, <1>3, <1>4, <1>5, <1>6, <1>7 DEF IInv

\* A new attempt starts from an empty workspace in a directory of its own
LEMMA CreateVerifiedSnapshotKeeps == IInv /\ CreateVerifiedSnapshot => IInv'
<1> SUFFICES ASSUME IInv, CreateVerifiedSnapshot PROVE IInv'
  OBVIOUS
<1>1. /\ pc = "start" /\ roots' = roots + 1 /\ ws' = EmptyWorkspace
      /\ UNCHANGED <<frames, cur, entries, attempt, used, situation, live, head, edits, moves, clock, heads>>
  BY DEF CreateVerifiedSnapshot, environment, walk
<1>2. /\ kind' = IF situation.layout = "direct" /\ attempt.n = 1 THEN "git" ELSE "filesystem"
      /\ pc' = IF kind' = "git" THEN "commit" ELSE "walk"
  BY DEF CreateVerifiedSnapshot
<1>3. /\ ws'.cleanup = "not_started" /\ ws'.refusals = {} /\ ws'.exceeded = FALSE /\ ws'.commit = NULL
      /\ ws'.tree = NULL
  BY <1>1 DEF EmptyWorkspace
<1>4. Environment' /\ Walking'
  BY <1>1, <1>2 DEF IInv, Environment, Walking, EntryPc
<1>5. Attempted'
  BY <1>1, <1>2, <1>3, EmptyIsWorkspace
     DEF IInv, Attempted, Pc, WorkPc, GitPc, AsidePc, WalkPc, FreshPc
<1>6. Released'
  BY <1>1, <1>2, <1>3 DEF IInv, Released
<1>7. Refused' /\ Untouched' /\ TamperingIsSeen'
  BY <1>2, <1>3 DEF Refused, Untouched, TamperingIsSeen, FreshPc
<1>8. Resolved'
  BY <1>2 DEF Resolved, AsidePc, WalkPc, EntryPc
<1>9. Published'
  BY <1>1, <1>2 DEF IInv, Published, TrackedByHead, FreshPc
<1>10. QED BY <1>4, <1>5, <1>6, <1>7, <1>8, <1>9 DEF IInv

\* An error in any step
LEMMA OSErrorAnywhereKeeps == IInv /\ OSErrorAnywhere => IInv'
<1> SUFFICES ASSUME IInv, OSErrorAnywhere PROVE IInv'
  OBVIOUS
<1>1. pc \in WorkPc
  BY DEF OSErrorAnywhere, WorkPc, GitPc, AsidePc, WalkPc, EntryPc
<1>2. QED BY <1>1, RefuseHereKeeps DEF OSErrorAnywhere

\* The commit HEAD names
LEMMA ResolveCommitKeeps == IInv /\ ResolveCommit => IInv'
<1> SUFFICES ASSUME IInv, ResolveCommit PROVE IInv'
  OBVIOUS
<1>1. PICK c \in GitObjectId(head) : ws' = [ws EXCEPT !.commit = c]
  BY DEF ResolveCommit
<1>2. /\ pc = "commit" /\ pc' = "resolve_tree" /\ UNCHANGED <<environment, kind, walk, attempt, roots, used>>
      /\ UNCHANGED <<head, heads, moves>>
  BY DEF ResolveCommit, environment
<1>3. Differs(ws, ws', {"commit"}) /\ ws'.commit = c
  BY <1>1, AssignCommit DEF IInv, Attempted
<1>4. c \in {head, NULL}
  BY DEF GitObjectId
<1>5. Resolved'
  BY <1>2, <1>3, <1>4 DEF IInv, Environment, Resolved, AsidePc, WalkPc, EntryPc
<1>6. Differs(ws, ws', {"commit", "tree", "tracked", "copy", "exported", "comparison"})
  BY <1>3 DEF Differs
<1>7. QED BY <1>2, <1>5, <1>6, GitKeeps DEF GitPc

\* The tree HEAD names, maybe of another commit by now
LEMMA ResolveTreeKeeps == IInv /\ ResolveTree => IInv'
<1> SUFFICES ASSUME IInv, ResolveTree PROVE IInv'
  OBVIOUS
<1> DEFINE w(t) == [ws EXCEPT !.tree = t]
<1>1. PICK t \in GitObjectId(Tree[head]) :
        IF ws.commit = NULL \/ t = NULL
        THEN RefuseIn(w(t), "git_subject_unresolved", TRUE)
        ELSE /\ ws' = w(t) /\ pc' = "tree"
             /\ UNCHANGED <<kind, walk, rootStat, attempt, roots, used, environment>>
  BY DEF ResolveTree
<1>2. pc = "resolve_tree" /\ kind = "git" /\ Workspace(ws)
  BY DEF ResolveTree, IInv, Attempted, GitPc
<1>3. Differs(ws, w(t), {"tree"}) /\ w(t).tree = t
  BY <1>2, AssignTree
<1> HIDE DEF w
<1>4. CASE ws.commit = NULL \/ t = NULL
  <2>1. RefuseIn(w(t), "git_subject_unresolved", TRUE)
    BY <1>1, <1>4
  <2>2. Differs(ws, w(t), {"tree", "tracked"})
    BY <1>3 DEF Differs
  <2>3. pc \in WorkPc
    BY <1>2 DEF WorkPc, GitPc
  <2>4. QED BY <1>2, <2>1, <2>2, <2>3, RefuseKeeps
<1>5. CASE ws.commit # NULL /\ t # NULL
  <2>1. /\ ws' = w(t) /\ pc' = "tree" /\ UNCHANGED <<environment, kind, walk, attempt, roots, used>>
        /\ UNCHANGED <<head, heads, moves>>
    BY <1>1, <1>5 DEF environment
  <2>2. t = Tree[head]
    BY <1>5 DEF GitObjectId
  <2>3. ws'.tree = t /\ ws'.commit = ws.commit
    BY <1>3, <2>1 DEF Differs
  <2>4. Resolved'
    BY <1>2, <1>5, <2>1, <2>2, <2>3 DEF IInv, Environment, Resolved, AsidePc, WalkPc, EntryPc
  <2>5. Differs(ws, ws', {"commit", "tree", "tracked", "copy", "exported", "comparison"})
    BY <1>3, <2>1 DEF Differs
  <2>6. QED BY <1>2, <2>1, <2>4, <2>5, GitKeeps DEF GitPc
<1>6. QED BY <1>4, <1>5

\* ls-tree: the paths of the tree, or a refusal with some of them
LEMMA GitTreeEntriesKeeps == IInv /\ GitTreeEntries => IInv'
<1> SUFFICES ASSUME IInv, GitTreeEntries PROVE IInv'
  OBVIOUS
<1> DEFINE w(paths) == [ws EXCEPT !.tracked = paths]
           refused == GitTreeRefusals(ws.tree)
<1>1. pc = "tree" /\ kind = "git" /\ Workspace(ws)
  BY DEF GitTreeEntries, IInv, Attempted, GitPc
<1>2. \A paths : Differs(ws, w(paths), {"tracked"}) /\ w(paths).tracked = paths
  BY <1>1, AssignTracked
<1>3. IF refused # {}
      THEN \E r \in refused, paths \in SUBSET DOMAIN ws.tree : RefuseIn(w(paths), r, TRUE)
      ELSE /\ ws' = w(DOMAIN ws.tree) /\ pc' = "export"
           /\ UNCHANGED <<kind, walk, rootStat, attempt, roots, used, environment>>
  BY DEF GitTreeEntries
<1>4. "source_worktree_not_exact_commit" \notin refused
  BY TreeRefusalsAreOther
<1> HIDE DEF w, refused
<1>5. CASE refused # {}
  <2>1. PICK r \in refused, paths \in SUBSET DOMAIN ws.tree : RefuseIn(w(paths), r, TRUE)
    BY <1>3, <1>5
  <2>2. Differs(ws, w(paths), {"tree", "tracked"}) /\ pc \in WorkPc
    BY <1>1, <1>2 DEF Differs, WorkPc, GitPc
  <2>3. QED BY <1>1, <1>4, <2>1, <2>2, RefuseKeeps
<1>6. CASE refused = {}
  <2>1. /\ ws' = w(DOMAIN ws.tree) /\ pc' = "export"
        /\ UNCHANGED <<environment, kind, walk, attempt, roots, used>> /\ UNCHANGED <<head, heads, moves>>
    BY <1>3, <1>6 DEF environment
  <2>2. Differs(ws, ws', {"tracked"}) /\ ws'.tracked = DOMAIN ws.tree
    BY <1>2, <2>1
  <2>3. ws'.tree = ws.tree /\ ws'.commit = ws.commit
    BY <2>2 DEF Differs
  <2>4. Resolved'
    BY <1>1, <2>1, <2>2, <2>3 DEF IInv, Resolved, AsidePc, WalkPc, EntryPc
  <2>5. Differs(ws, ws', {"commit", "tree", "tracked", "copy", "exported", "comparison"})
    BY <2>2 DEF Differs
  <2>6. QED BY <1>1, <2>1, <2>4, <2>5, GitKeeps DEF GitPc
<1>7. QED BY <1>5, <1>6

\* The blobs of the tree become the copy
LEMMA ExportGitBlobsKeeps == IInv /\ ExportGitBlobs => IInv'
<1> SUFFICES ASSUME IInv, ExportGitBlobs PROVE IInv'
  OBVIOUS
<1>1. /\ pc = "export" /\ kind = "git" /\ Workspace(ws) /\ pc' = "walk"
      /\ ws' = [ws EXCEPT !.copy = Exported(ws.tree), !.exported = Exported(ws.tree)]
      /\ UNCHANGED <<environment, kind, walk, attempt, roots, used>> /\ UNCHANGED <<head, heads, moves>>
  BY DEF ExportGitBlobs, IInv, Attempted, GitPc, environment
<1>2. Differs(ws, ws', {"copy", "exported"}) /\ ws'.exported = Exported(ws.tree)
  BY <1>1, AssignExport
<1>3. ws'.tree = ws.tree /\ ws'.commit = ws.commit /\ ws'.tracked = ws.tracked
  BY <1>2 DEF Differs
<1>4. Resolved'
  BY <1>1, <1>2, <1>3 DEF IInv, Resolved, AsidePc, WalkPc, EntryPc
<1>5. Differs(ws, ws', {"commit", "tree", "tracked", "copy", "exported", "comparison"})
  BY <1>2 DEF Differs
<1>6. QED BY <1>1, <1>4, <1>5, GitKeeps DEF GitPc

\* The live files are compared with the export
LEMMA CompareWorktreeKeeps == IInv /\ CompareWorktree => IInv'
<1> SUFFICES ASSUME IInv, CompareWorktree PROVE IInv'
  OBVIOUS
<1>1. pc = "compare" /\ kind = "git" /\ Workspace(ws)
  BY DEF CompareWorktree, IInv, Attempted, GitPc, AsidePc
<1>2. \A fs : Differs(ws, ws, fs)
  BY <1>1 DEF Differs
<1>3. CASE entries = ws.exported
  <2>1. /\ pc' = "recheck_commit" /\ UNCHANGED <<environment, kind, walk, attempt, roots, used>>
        /\ UNCHANGED <<ws, head, heads, moves>>
    BY <1>3 DEF CompareWorktree, environment
  <2>2. Resolved'
    BY <1>1, <2>1 DEF IInv, Resolved, AsidePc, WalkPc, EntryPc
  <2>3. QED BY <1>1, <1>2, <2>1, <2>2, GitKeeps DEF GitPc, AsidePc
<1>4. CASE entries # ws.exported
  <2>1. RefuseIn(ws, "source_worktree_not_exact_commit", TRUE)
    BY <1>4 DEF CompareWorktree
  <2>2. TrackedByHead(ws.tracked)
    BY <1>1 DEF IInv, Resolved, TrackedByHead, AsidePc
  <2>3. QED BY <1>1, <1>2, <2>1, <2>2, RefuseKeeps DEF WorkPc, GitPc, AsidePc
<1>5. QED BY <1>3, <1>4

\* HEAD is resolved a second time: if it is back at the commit, it moved twice
LEMMA RecheckCommitKeeps == IInv /\ RecheckCommit => IInv'
<1> SUFFICES ASSUME IInv, RecheckCommit PROVE IInv'
  OBVIOUS
<1>1. pc = "recheck_commit" /\ kind = "git" /\ Workspace(ws)
  BY DEF RecheckCommit, IInv, Attempted, GitPc, AsidePc
<1>2. \A fs : Differs(ws, ws, fs)
  BY <1>1 DEF Differs
<1>3. PICK c \in {head, NULL} :
        IF c = ws.commit
        THEN /\ pc' = "recheck_tree"
             /\ UNCHANGED <<ws, kind, walk, rootStat, attempt, roots, used, environment>>
        ELSE RefuseIn(ws, "git_subject_changed_during_intake", TRUE)
  BY DEF RecheckCommit, GitObjectId
<1>4. CASE c = ws.commit
  <2>1. /\ pc' = "recheck_tree" /\ UNCHANGED <<environment, kind, walk, attempt, roots, used>>
        /\ UNCHANGED <<ws, head, heads, moves>>
    BY <1>3, <1>4 DEF environment
  <2>2. Resolved'
    BY <1>1, <1>4, <2>1 DEF IInv, Resolved, AsidePc, WalkPc, EntryPc
  <2>3. QED BY <1>1, <1>2, <2>1, <2>2, GitKeeps DEF GitPc, AsidePc
<1>5. CASE c # ws.commit
  BY <1>1, <1>2, <1>3, <1>5, RefuseKeeps DEF WorkPc, GitPc, AsidePc
<1>6. QED BY <1>4, <1>5

\* And the tree: if it is the listed tree but not the commit's, HEAD moved a third time
LEMMA RecheckTreeKeeps == IInv /\ RecheckTree => IInv'
<1> SUFFICES ASSUME IInv, RecheckTree PROVE IInv'
  OBVIOUS
<1> DEFINE w == [ws EXCEPT !.comparison = <<>>]
<1>1. pc = "recheck_tree" /\ kind = "git" /\ Workspace(ws)
  BY DEF RecheckTree, IInv, Attempted, GitPc, AsidePc
<1>2. Differs(ws, w, {"comparison"}) /\ \A fs : Differs(ws, ws, fs)
  BY <1>1, AssignComparison DEF Differs
<1>3. PICK t \in {Tree[head], NULL} :
        IF t = ws.tree
        THEN /\ pc' = "finish" /\ ws' = w
             /\ UNCHANGED <<kind, walk, rootStat, attempt, roots, used, environment>>
        ELSE RefuseIn(ws, "git_subject_changed_during_intake", TRUE)
  BY DEF RecheckTree, GitObjectId
<1> HIDE DEF w
<1>4. CASE t = ws.tree
  <2>1. /\ pc' = "finish" /\ UNCHANGED <<environment, kind, walk, attempt, roots, used>>
        /\ ws' = w /\ UNCHANGED <<head, heads, moves>>
    BY <1>3, <1>4 DEF environment
  <2>2. ws'.tree = ws.tree /\ ws'.commit = ws.commit /\ ws'.tracked = ws.tracked /\ ws'.exported = ws.exported
    BY <1>2, <2>1 DEF Differs
  <2>3. Resolved'
    BY <1>1, <1>4, <2>1, <2>2 DEF IInv, Resolved, AsidePc, WalkPc, EntryPc
  <2>4. Differs(ws, ws', {"commit", "tree", "tracked", "copy", "exported", "comparison"})
    BY <1>2, <2>1 DEF Differs
  <2>5. QED BY <1>1, <2>1, <2>3, <2>4, GitKeeps DEF GitPc, AsidePc
<1>5. CASE t # ws.tree
  BY <1>1, <1>2, <1>3, <1>5, RefuseKeeps DEF WorkPc, GitPc, AsidePc
<1>6. QED BY <1>4, <1>5

----------------------------------------------------------------------------
(***************************************************************************)
(* The walk                                                                *)
(***************************************************************************)
\* Write changes the copy or the comparison only
LEMMA WriteDiffers ==
    ASSUME NEW m, Workspace(ws) PROVE Differs(ws, Write(ws, m), {"copy", "comparison"})
<1>1. Differs(ws, [ws EXCEPT !.comparison = m], {"copy", "comparison"})
  BY AssignComparison DEF Differs
<1>2. Differs(ws, [ws EXCEPT !.copy = m], {"copy", "comparison"})
  BY AssignCopy DEF Differs
<1>3. QED BY <1>1, <1>2 DEF Write

\* The names in a directory are paths, and its listing starts with them
LEMMA FrameType == ASSUME Environment, NEW d \in Paths PROVE Frame(d) \in Listing
<1>1. Meta(live[d]) \in Stat
  BY MetaType DEF Environment
<1>2. Children(live, d) \in SUBSET Paths
  BY DEF Children
<1>3. QED BY <1>1, <1>2 DEF Frame, Listing

\* The walk begins at the root
LEMMA WalkBeginKeeps == IInv /\ WalkBegin => IInv'
<1> SUFFICES ASSUME IInv, WalkBegin PROVE IInv'
  OBVIOUS
<1>1. /\ pc = "walk" /\ frames' = <<Frame(Root)>> /\ cur' = NULL /\ entries' = <<>> /\ pc' = "list"
      /\ UNCHANGED <<ws, environment, kind, attempt, roots, used>>
  BY DEF WalkBegin
<1>2. Frame(Root) \in Listing
  BY FrameType, SnapshotConstants DEF IInv, Paths
<1>3. frames' \in Seq(Listing) /\ frames' # <<>>
  BY <1>1, <1>2
<1>4. Walking'
  BY <1>1, <1>3, NoEntries, FS_EmptySet DEF Walking, EntryPc
<1>5. Differs(ws, ws', {"copy", "comparison"})
  BY <1>1 DEF IInv, Attempted, Differs
<1>6. QED BY <1>1, <1>4, <1>5, WalkKeeps DEF WalkPc

\* The innermost listing, and marking a name in it
LEMMA TopType ==
    ASSUME Walking, frames # <<>>
    PROVE  /\ Top \in Listing
           /\ \A p \in Paths : Visit(p) \in Seq(Listing) /\ Visit(p) # <<>>
<1>1. frames \in Seq(Listing) /\ Len(frames) \in DOMAIN frames
  BY DEF Walking
<1>2. Top \in Listing
  BY <1>1 DEF Top
<1> SUFFICES ASSUME NEW p \in Paths PROVE Visit(p) \in Seq(Listing) /\ Visit(p) # <<>>
  BY <1>2
<1> DEFINE f == [frames[Len(frames)] EXCEPT !.visited = @ \cup {p}]
<1>3. f \in Listing
  BY <1>2 DEF Top, Listing
<1>4. Visit(p) = [frames EXCEPT ![Len(frames)] = f]
  BY DEF Visit
<1> HIDE DEF f
<1>5. Visit(p) \in Seq(Listing) /\ Len(Visit(p)) = Len(frames)
  BY <1>1, <1>3, <1>4
<1>6. QED BY <1>1, <1>5

\* The budgets never give the reason that a worktree differs from its commit
LEMMA BudgetRefusalsAreOther ==
    ASSUME NEW p
    PROVE  DirRefusal(p) # "source_worktree_not_exact_commit" \/ DirRefusal(p) = NULL
BY DEF DirRefusal

\* The same for a file
LEMMA FileRefusalsAreOther ==
    ASSUME NEW p
    PROVE  FileRefusal(p) # "source_worktree_not_exact_commit" \/ FileRefusal(p) = NULL
BY DEF FileRefusal

\* An entry is skipped, entered or refused
LEMMA ListNextKeeps == IInv /\ ListNext => IInv'
<1> SUFFICES ASSUME IInv, ListNext PROVE IInv'
  OBVIOUS
<1>1. PICK p \in (Children(live, Top.dir) \cup Top.present) \ Top.visited : ListEntry(p)
  BY DEF ListNext
<1>2. pc = "list" /\ Workspace(ws) /\ pc \in WorkPc /\ frames # <<>>
  BY DEF ListNext, IInv, Attempted, Walking, WorkPc, WalkPc
<1>3. p \in Paths /\ Visit(p) \in Seq(Listing) /\ Visit(p) # <<>>
  BY <1>1, <1>2, TopType DEF IInv, Listing, Children
<1>4. live[p] \in Node /\ Meta(live[p]) \in Stat
  BY <1>3, MetaType DEF IInv, Environment
<1> DEFINE entered == [path |-> p, before |-> Meta(live[p]), fd |-> live[p], got |-> <<>>, again |-> <<>>,
                       after |-> NULL]
<1>5. \/ \E reason : reason # "source_worktree_not_exact_commit" /\ Refuse(reason)
      \/ /\ frames' = Visit(p) /\ UNCHANGED <<pc, ws, cur, kind, entries, rootStat, attempt, roots, used,
                                               environment>>
      \/ /\ frames' = Visit(p) /\ pc' \in {"opendir", "open"} /\ cur' = entered
         /\ UNCHANGED <<ws, kind, entries, rootStat, attempt, roots, used, environment>>
  BY <1>1, BudgetRefusalsAreOther, FileRefusalsAreOther DEF ListEntry
<1>6. entered \in Copying
  BY <1>3, <1>4 DEF Copying
<1> HIDE DEF entered
<1>7. CASE \E reason : reason # "source_worktree_not_exact_commit" /\ Refuse(reason)
  BY <1>2, <1>7, RefuseHereKeeps
<1>8. CASE /\ frames' = Visit(p)
           /\ UNCHANGED <<pc, ws, cur, kind, entries, rootStat, attempt, roots, used, environment>>
  <2>1. Walking'
    BY <1>2, <1>3, <1>8 DEF IInv, Walking, EntryPc
  <2>2. Differs(ws, ws', {"copy", "comparison"})
    BY <1>2, <1>8 DEF Differs
  <2>3. QED BY <1>2, <1>8, <2>1, <2>2, WalkKeeps DEF WalkPc
<1>9. CASE /\ frames' = Visit(p) /\ pc' \in {"opendir", "open"} /\ cur' = entered
           /\ UNCHANGED <<ws, kind, entries, rootStat, attempt, roots, used, environment>>
  <2>1. Walking'
    BY <1>3, <1>6, <1>9 DEF IInv, Walking, EntryPc
  <2>2. Differs(ws, ws', {"copy", "comparison"})
    BY <1>2, <1>9 DEF Differs
  <2>3. QED BY <1>2, <1>9, <2>1, <2>2, WalkKeeps DEF WalkPc, EntryPc
<1>10. QED BY <1>5, <1>7, <1>8, <1>9

\* A listing that its directory outdated is refused, otherwise the walk returns to the one above
LEMMA ListEndKeeps == IInv /\ ListEnd => IInv'
<1> SUFFICES ASSUME IInv, ListEnd PROVE IInv'
  OBVIOUS
<1>1. pc = "list" /\ Workspace(ws) /\ pc \in WorkPc /\ frames \in Seq(Listing)
  BY DEF ListEnd, IInv, Attempted, Walking, WorkPc, WalkPc
<1>2. CASE Top.stat.stamp = live[Top.dir].stamp
  <2>1. /\ frames' = SubSeq(frames, 1, Len(frames) - 1)
        /\ pc' = IF Len(frames) > 1 THEN "list" ELSE IF kind = "git" THEN "compare" ELSE "finish"
        /\ UNCHANGED <<ws, kind, cur, entries, attempt, roots, used, environment>>
    BY <1>2 DEF ListEnd
  <2>2. frames' \in Seq(Listing) /\ (Len(frames) > 1 => frames' # <<>>)
    <3>1. frames # <<>> /\ Len(frames) \in Nat
      BY <1>1 DEF IInv, Walking
    <3>2. Len(frames) >= 1 /\ \A i \in 1 .. Len(frames) - 1 : frames[i] \in Listing
      BY <1>1, <3>1
    <3>3. frames' \in Seq(Listing) /\ Len(frames') = Len(frames) - 1
      <4> DEFINE n == Len(frames) - 1
      <4>1. 1 \in Int /\ n \in Int /\ \A i \in 1 .. n : frames[i] \in Listing
        BY <3>1, <3>2
      <4>2. frames' = SubSeq(frames, 1, n) /\ n = Len(frames) - 1 /\ n >= 0
        BY <2>1, <3>1, <3>2
      <4> HIDE DEF n
      <4>3. /\ SubSeq(frames, 1, n) \in Seq(Listing)
            /\ Len(SubSeq(frames, 1, n)) = IF 1 <= n THEN n - 1 + 1 ELSE 0
        BY <4>1, SubSeqProperties
      <4>4. Len(SubSeq(frames, 1, n)) = n
        BY <4>1, <4>2, <4>3
      <4>5. QED BY <4>2, <4>3, <4>4, Zenon
    <3>4. QED BY <3>1, <3>3
  <2>3. Walking'
    BY <2>1, <2>2 DEF IInv, Walking, EntryPc
  <2>4. Differs(ws, ws', {"copy", "comparison"})
    BY <1>1, <2>1 DEF Differs
  <2>5. QED BY <1>1, <2>1, <2>3, <2>4, WalkKeeps DEF WalkPc
<1>3. CASE Top.stat.stamp # live[Top.dir].stamp
  BY <1>1, <1>3, RefuseHereKeeps DEF ListEnd
<1>4. QED BY <1>2, <1>3

\* A directory is opened by descriptor and listed
LEMMA OpenDirectoryKeeps == IInv /\ OpenDirectory => IInv'
<1> SUFFICES ASSUME IInv, OpenDirectory PROVE IInv'
  OBVIOUS
<1> DEFINE p == cur.path
<1>1. pc = "opendir" /\ Workspace(ws) /\ pc \in WorkPc /\ cur \in Copying /\ frames \in Seq(Listing)
  BY DEF OpenDirectory, IInv, Attempted, Walking, WorkPc, WalkPc, EntryPc
<1>2. p \in Paths
  BY <1>1 DEF Copying
<1>3. \/ \E reason : reason # "source_worktree_not_exact_commit" /\ Refuse(reason)
      \/ /\ frames' = Append(frames, Frame(p)) /\ entries' = Put(entries, p, DirEntry)
         /\ ws' = Write(ws, Put(Written, p, DirEntry)) /\ cur' = NULL /\ pc' = "list"
         /\ UNCHANGED <<kind, attempt, roots, used, environment>>
  BY DEF OpenDirectory
<1> HIDE DEF p
<1>4. CASE \E reason : reason # "source_worktree_not_exact_commit" /\ Refuse(reason)
  BY <1>1, <1>4, RefuseHereKeeps
<1>5. CASE /\ frames' = Append(frames, Frame(p)) /\ entries' = Put(entries, p, DirEntry)
           /\ ws' = Write(ws, Put(Written, p, DirEntry)) /\ cur' = NULL /\ pc' = "list"
           /\ UNCHANGED <<kind, attempt, roots, used, environment>>
  <2>1. Frame(p) \in Listing
    BY <1>2, FrameType DEF IInv
  <2>2. frames' \in Seq(Listing) /\ frames' # <<>>
    BY <1>1, <1>5, <2>1
  <2>3. DirEntry \in Entry
    BY DEF DirEntry, Entry
  <2>4. entries' \in Manifest /\ IsFiniteSet(DOMAIN entries')
    BY <1>2, <1>5, <2>3, AddEntry, PutFinite DEF IInv, Walking
  <2>5. Walking'
    BY <1>5, <2>2, <2>4 DEF Walking, EntryPc
  <2>6. Differs(ws, ws', {"copy", "comparison"})
    BY <1>1, <1>5, WriteDiffers
  <2>7. QED BY <1>1, <1>5, <2>5, <2>6, WalkKeeps DEF WalkPc, EntryPc
<1>6. QED BY <1>3, <1>4, <1>5

\* What an open descriptor reads is a node
LEMMA OpenedType == ASSUME Environment, cur \in Copying PROVE Opened \in Node
BY DEF Environment, Copying, Opened

\* A file is opened without following links
LEMMA OpenFileKeeps == IInv /\ OpenFile => IInv'
<1> SUFFICES ASSUME IInv, OpenFile PROVE IInv'
  OBVIOUS
<1>1. pc = "open" /\ Workspace(ws) /\ pc \in WorkPc
  BY DEF OpenFile, IInv, Attempted, Walking, WorkPc, WalkPc, EntryPc
<1>2. \/ \E reason : reason # "source_worktree_not_exact_commit" /\ Refuse(reason)
      \/ /\ ws' = Write(ws, Put(Written, cur.path, FileEntry(<<>>, cur.before.mode))) /\ pc' = "copy"
         /\ UNCHANGED <<kind, walk, attempt, roots, used, environment>>
  BY DEF OpenFile
<1>3. CASE \E reason : reason # "source_worktree_not_exact_commit" /\ Refuse(reason)
  BY <1>1, <1>3, RefuseHereKeeps
<1>4. CASE /\ ws' = Write(ws, Put(Written, cur.path, FileEntry(<<>>, cur.before.mode))) /\ pc' = "copy"
           /\ UNCHANGED <<kind, walk, attempt, roots, used, environment>>
  <2>1. Walking'
    BY <1>1, <1>4 DEF IInv, Walking, EntryPc, walk
  <2>2. Differs(ws, ws', {"copy", "comparison"})
    BY <1>1, <1>4, WriteDiffers
  <2>3. QED BY <1>1, <1>4, <2>1, <2>2, WalkKeeps DEF WalkPc, EntryPc
<1>5. QED BY <1>2, <1>3, <1>4

\* A chunk is copied, or the end of the file is met
LEMMA CopyChunkKeeps == IInv /\ CopyChunk => IInv'
<1> SUFFICES ASSUME IInv, CopyChunk PROVE IInv'
  OBVIOUS
<1> DEFINE p == cur.path
           i == Len(cur.got) + 1
           more == Append(cur.got, Opened.data[i])
           done == [cur EXCEPT !.after = Meta(Opened)]
           longer == [cur EXCEPT !.got = Append(@, Opened.data[i])]
           written == [Written EXCEPT ![p].data = Append(@, Opened.data[i])]
<1>1. pc = "copy" /\ Workspace(ws) /\ pc \in WorkPc /\ cur \in Copying /\ frames # <<>>
  BY DEF CopyChunk, IInv, Attempted, Walking, WorkPc, WalkPc, EntryPc
<1>2. Opened \in Node /\ Meta(Opened) \in Stat
  BY <1>1, OpenedType, MetaType DEF IInv
<1>3. \/ \E reason : reason # "source_worktree_not_exact_commit" /\ Refuse(reason)
      \/ /\ cur' = done /\ pc' = "validate"
         /\ UNCHANGED <<ws, kind, frames, entries, attempt, roots, used, environment>>
      \/ /\ ~(i > Len(Opened.data)) /\ cur' = longer /\ ws' = Write(ws, written)
         /\ UNCHANGED <<pc, kind, frames, entries, attempt, roots, used, environment>>
  <2> HIDE DEF done, longer, written, i
  <2> QED BY DEF CopyChunk, done, longer, written, i
<1>4. done \in Copying
  <2> DEFINE m == Meta(Opened)
  <2>1. m \in Stat
    BY <1>2
  <2> HIDE DEF m
  <2>2. [cur EXCEPT !.after = m] \in Copying
    BY <1>1, <2>1 DEF Copying
  <2>3. QED BY <2>2 DEF m
<1>5. ASSUME ~(i > Len(Opened.data)) PROVE longer \in Copying
  <2>1. cur.got \in Seq(Chunk) /\ Opened.data \in Seq(Chunk)
    BY <1>1, <1>2 DEF Copying, Node
  <2>2. i \in 1 .. Len(Opened.data)
    BY <1>5, <2>1
  <2>3. more \in Seq(Chunk)
    <3>1. Opened.data[i] \in Chunk
      BY <2>1, <2>2
    <3>2. QED BY <2>1, <3>1
  <2> HIDE DEF more
  <2>4. [cur EXCEPT !.got = more] \in Copying
    BY <1>1, <2>3 DEF Copying
  <2>5. QED BY <2>4 DEF more
<1> HIDE DEF done, longer, written, i
<1>6. CASE \E reason : reason # "source_worktree_not_exact_commit" /\ Refuse(reason)
  BY <1>1, <1>6, RefuseHereKeeps
<1>7. CASE /\ cur' = done /\ pc' = "validate"
           /\ UNCHANGED <<ws, kind, frames, entries, attempt, roots, used, environment>>
  <2>1. Walking'
    BY <1>1, <1>4, <1>7 DEF IInv, Walking, EntryPc
  <2>2. Differs(ws, ws', {"copy", "comparison"})
    BY <1>1, <1>7 DEF Differs
  <2>3. QED BY <1>1, <1>7, <2>1, <2>2, WalkKeeps DEF WalkPc, EntryPc
<1>8. CASE /\ ~(i > Len(Opened.data)) /\ cur' = longer /\ ws' = Write(ws, written)
           /\ UNCHANGED <<pc, kind, frames, entries, attempt, roots, used, environment>>
  <2>1. Walking'
    BY <1>1, <1>5, <1>8 DEF IInv, Walking, EntryPc
  <2>2. Differs(ws, ws', {"copy", "comparison"})
    BY <1>1, <1>8, WriteDiffers
  <2>3. QED BY <1>1, <1>8, <2>1, <2>2, WalkKeeps DEF WalkPc, EntryPc
<1>9. QED BY <1>3, <1>6, <1>7, <1>8

\* The second read, and the entry once both reads agree
LEMMA ValidateChunkKeeps == IInv /\ ValidateChunk => IInv'
<1> SUFFICES ASSUME IInv, ValidateChunk PROVE IInv'
  OBVIOUS
<1> DEFINE i == Len(cur.again) + 1
           more == Append(cur.again, Opened.data[i])
           longer == [cur EXCEPT !.again = Append(@, Opened.data[Len(@) + 1])]
           entry == FileEntry(cur.got, cur.before.mode)
<1>1. pc = "validate" /\ Workspace(ws) /\ pc \in WorkPc /\ cur \in Copying /\ frames # <<>>
  BY DEF ValidateChunk, IInv, Attempted, Walking, WorkPc, WalkPc, EntryPc
<1>2. Opened \in Node
  BY <1>1, OpenedType DEF IInv
<1>3. \/ \E reason : reason # "source_worktree_not_exact_commit" /\ Refuse(reason)
      \/ /\ Len(cur.again) < Len(Opened.data) /\ cur' = longer
         /\ UNCHANGED <<pc, ws, kind, frames, entries, attempt, roots, used, environment>>
      \/ /\ entries' = Put(entries, cur.path, entry) /\ cur' = NULL /\ pc' = "list"
         /\ UNCHANGED <<ws, kind, frames, attempt, roots, used, environment>>
  <2> HIDE DEF longer, entry
  <2> QED BY DEF ValidateChunk, longer, entry
<1>4. ASSUME Len(cur.again) < Len(Opened.data) PROVE longer \in Copying
  <2>1. cur.again \in Seq(Chunk) /\ Opened.data \in Seq(Chunk)
    BY <1>1, <1>2 DEF Copying, Node
  <2>2. i \in 1 .. Len(Opened.data)
    BY <1>4, <2>1
  <2>3. more \in Seq(Chunk)
    <3>1. Opened.data[i] \in Chunk
      BY <2>1, <2>2
    <3>2. QED BY <2>1, <3>1
  <2>4. longer = [cur EXCEPT !.again = more]
    OBVIOUS
  <2> HIDE DEF more, longer
  <2>5. [cur EXCEPT !.again = more] \in Copying
    BY <1>1, <2>3 DEF Copying
  <2>6. QED BY <2>4, <2>5
<1>5. entry \in Entry /\ cur.path \in Paths
  BY <1>1 DEF FileEntry, Entry, Copying, Stat
<1> HIDE DEF longer, entry
<1>6. CASE \E reason : reason # "source_worktree_not_exact_commit" /\ Refuse(reason)
  BY <1>1, <1>6, RefuseHereKeeps
<1>7. CASE /\ Len(cur.again) < Len(Opened.data) /\ cur' = longer
           /\ UNCHANGED <<pc, ws, kind, frames, entries, attempt, roots, used, environment>>
  <2>1. Walking'
    BY <1>1, <1>4, <1>7 DEF IInv, Walking, EntryPc
  <2>2. Differs(ws, ws', {"copy", "comparison"})
    BY <1>1, <1>7 DEF Differs
  <2>3. QED BY <1>1, <1>7, <2>1, <2>2, WalkKeeps DEF WalkPc, EntryPc
<1>8. CASE /\ entries' = Put(entries, cur.path, entry) /\ cur' = NULL /\ pc' = "list"
           /\ UNCHANGED <<ws, kind, frames, attempt, roots, used, environment>>
  <2>1. entries' \in Manifest /\ IsFiniteSet(DOMAIN entries')
    BY <1>5, <1>8, AddEntry, PutFinite DEF IInv, Walking
  <2>2. Walking'
    BY <1>1, <1>8, <2>1 DEF IInv, Walking, EntryPc
  <2>3. Differs(ws, ws', {"copy", "comparison"})
    BY <1>1, <1>8 DEF Differs
  <2>4. QED BY <1>1, <1>8, <2>2, <2>3, WalkKeeps DEF WalkPc, EntryPc
<1>9. QED BY <1>3, <1>6, <1>7, <1>8

----------------------------------------------------------------------------
(***************************************************************************)
(* The finished snapshot, the second attempt and the use of the copy       *)
(***************************************************************************)
\* What _inventory_existing_tree accepts is the tree itself
LEMMA InventoryIsTree ==
    ASSUME NEW t, InventoryExistingTree(t) # NULL PROVE InventoryExistingTree(t) = t
<1> DEFINE files == {p \in DOMAIN t : t[p].type = "file"}
           dirs == {p \in DOMAIN t : t[p].type = "directory"}
           bad == \/ files \cup dirs # DOMAIN t
                  \/ Cardinality(DOMAIN t) > MaxPaths
                  \/ \E d \in dirs : Depth(d) > MaxDepth
                  \/ Cardinality(dirs) + 1 > MaxDirs \/ Cardinality(files) > MaxFiles
                  \/ \E f \in files : Len(t[f].data) > MaxFileSize
                  \/ Size([f \in files |-> t[f]]) > MaxTotal
<1>1. InventoryExistingTree(t) = IF bad THEN NULL ELSE t
  BY DEF InventoryExistingTree
<1> HIDE DEF bad
<1>2. QED BY <1>1

\* The directories above finitely many files, and so the paths of an exported tree, are finitely many
LEMMA DirsFinite ==
    ASSUME NEW ks \in SUBSET Files, IsFiniteSet(ks)
    PROVE  IsFiniteSet(TreeDirs(ks))
<1> DEFINE S == {Above[f] : f \in ks}
<1>1. \A f \in ks : IsFiniteSet(Above[f])
  BY PathsAreATree, SnapshotConstants DEF Paths
<1>2. IsFiniteSet(S)
  <2> DEFINE g == [f \in ks |-> Above[f]]
  <2>1. g \in [ks -> S] /\ \A T \in S : \E f \in ks : g[f] = T
    OBVIOUS
  <2> HIDE DEF g, S
  <2>2. g \in Surjection(ks, S)
    BY <2>1 DEF Surjection
  <2> QED BY <2>2, FS_Surjection
<1>3. IsFiniteSet(UNION S)
  <2>1. \A T \in S : IsFiniteSet(T)
    BY <1>1
  <2> HIDE DEF S
  <2> QED BY <1>2, <2>1, FS_UNION
<1>4. TreeDirs(ks) \subseteq UNION S
  BY DEF TreeDirs
<1> HIDE DEF S
<1> QED BY <1>3, <1>4, FS_Subset

LEMMA ExportFinite ==
    ASSUME NEW c \in Commits
    PROVE  IsFiniteSet(DOMAIN Exported(Tree[c]))
<1> DEFINE ks == Kept(Tree[c])
<1>1. ks \subseteq DOMAIN Tree[c] /\ DOMAIN Tree[c] \subseteq Files /\ IsFiniteSet(DOMAIN Tree[c])
  BY SnapshotTypes, TreesAreFinite DEF Kept
<1>2. DOMAIN Exported(Tree[c]) = ks \cup TreeDirs(ks)
  BY DEF Exported
<1> HIDE DEF ks
<1>3. IsFiniteSet(ks) /\ ks \in SUBSET Files
  BY <1>1, FS_Subset
<1>4. IsFiniteSet(TreeDirs(ks))
  BY <1>3, DirsFinite
<1> QED BY <1>2, <1>3, <1>4, FS_Union

\* A snapshot is published when the copy verifies against its manifest
LEMMA FinishSnapshotKeeps == IInv /\ FinishSnapshot => IInv'
<1> SUFFICES ASSUME IInv, FinishSnapshot PROVE IInv'
  OBVIOUS
<1> DEFINE m == IF kind = "git" THEN ws.exported ELSE entries
           files == {p \in DOMAIN m : m[p].type = "file"}
           paths == IF kind = "git" THEN ws.tracked ELSE files
           s == [manifest |-> m, kind |-> kind, commit |-> ws.commit, tree |-> ws.tree, tracked |-> paths]
           done == [ws EXCEPT !.snapshot = s]
<1>1. pc = "finish" /\ Workspace(ws) /\ pc \in WorkPc /\ kind \in {"git", "filesystem"}
  BY DEF FinishSnapshot, IInv, Attempted, WorkPc
<1>2. IF VerifyVerifiedSnapshot(done)
      THEN /\ ws' = done /\ pc' = "recheck_root"
           /\ UNCHANGED <<kind, walk, rootStat, attempt, roots, used, environment>>
      ELSE Refuse("snapshot_post_copy_verification_failed")
  BY DEF FinishSnapshot
<1>3. s.manifest = m /\ s.kind = kind /\ s.commit = ws.commit /\ s.tree = ws.tree /\ s.tracked = paths
  OBVIOUS
<1>4. kind = "filesystem" => s \in FilesystemSnapshot
  <2> SUFFICES ASSUME kind = "filesystem" PROVE s \in FilesystemSnapshot
    OBVIOUS
  <2>1. m \in Manifest /\ paths = files
    BY DEF IInv, Walking
  <2>2. files \subseteq Paths
    BY <2>1, ManifestDomain
  <2>3. ws.commit = NULL /\ ws.tree = NULL
    BY DEF IInv, Attempted
  <2> HIDE DEF m, files, paths
  <2>4. QED BY <2>1, <2>2, <2>3 DEF FilesystemSnapshot
<1>5. kind = "git" => /\ m = Exported(ws.tree) /\ ws.commit \in heads /\ TrackedByHead(paths)
                      /\ Tree[ws.commit] # ws.tree => moves >= 3
  BY <1>1 DEF IInv, Resolved, TrackedByHead
<1>6. kind # "git" => paths = files
  OBVIOUS
<1>11. IsFiniteSet(DOMAIN m)
  <2>1. CASE kind = "git"
    <3>1. situation.layout # "none"
      BY <2>1 DEF IInv, Attempted
    <3>2. PICK c \in Commits : ws.tree = Tree[c]
      BY <1>1, <2>1, <3>1 DEF IInv, Environment, Resolved
    <3> HIDE DEF m
    <3> QED BY <1>5, <2>1, <3>2, ExportFinite
  <2>2. CASE kind # "git"
    BY <2>2 DEF IInv, Walking
  <2> QED BY <2>1, <2>2
<1> HIDE DEF s
<1>7. Differs(ws, done, {"snapshot"}) /\ done.snapshot = s
  BY <1>1, AssignSnapshot
<1> HIDE DEF done, paths
<1>8. CASE ~VerifyVerifiedSnapshot(done)
  BY <1>1, <1>2, <1>8, RefuseHereKeeps
<1>9. CASE VerifyVerifiedSnapshot(done)
  <2>1. /\ ws' = done /\ pc' = "recheck_root"
        /\ UNCHANGED <<kind, attempt, roots, used, frames, cur, entries, situation, live, head, edits, moves,
                       clock, heads>>
    BY <1>2, <1>9 DEF environment, walk
  <2>2. /\ s # NULL /\ InventoryExistingTree(ws'.copy) # NULL /\ InventoryExistingTree(ws'.copy) = m
    BY <1>3, <1>7, <1>9, <2>1 DEF VerifyVerifiedSnapshot
  <2>3. ws'.copy = m
    BY <2>2, InventoryIsTree
  <2>4. InventoryExistingTree(m) # NULL
    BY <2>2, <2>3
  <2>5. /\ Workspace(ws') /\ ws'.snapshot = s /\ ws'.refusals = ws.refusals /\ ws'.exceeded = ws.exceeded
        /\ ws'.cleanup = ws.cleanup /\ ws'.commit = ws.commit /\ ws'.tree = ws.tree
    BY <1>7, <2>1 DEF Differs
  <2>6. Environment' /\ Walking'
    BY <2>1 DEF IInv, Environment, Walking, EntryPc
  <2>7. Attempted' /\ Released'
    BY <1>1, <2>1, <2>5 DEF IInv, Attempted, Released, Pc, FreshPc, GitPc, AsidePc
  <2>8. Refused'
    BY <1>1, <1>3, <1>4, <2>1, <2>2, <2>5 DEF IInv, Refused
  <2>9. Untouched' /\ TamperingIsSeen'
    BY <1>3, <1>11, <2>1, <2>3, <2>4, <2>5 DEF Untouched, TamperingIsSeen
  <2>10. Resolved'
    BY <2>1 DEF Resolved, AsidePc, WalkPc, EntryPc
  <2>11. Published'
    <3>1. ws'.snapshot.kind = "git" =>
            /\ ws'.snapshot.manifest = Exported(ws'.snapshot.tree) /\ ws'.snapshot.commit \in heads'
            /\ Tree[ws'.snapshot.commit] # ws'.snapshot.tree => moves' >= 3
      BY <1>3, <1>5, <2>1, <2>5
    <3>2. \/ ws'.snapshot.tracked = {p \in DOMAIN ws'.snapshot.manifest : ws'.snapshot.manifest[p].type = "file"}
          \/ TrackedByHead(ws.snapshot.tracked)'
      <4>1. CASE kind = "git"
        BY <1>3, <1>5, <2>1, <2>5, <4>1 DEF TrackedByHead
      <4>2. CASE kind # "git"
        BY <1>3, <1>6, <2>5, <4>2
      <4>3. QED BY <4>1, <4>2
    <3>3. QED BY <2>1, <3>1, <3>2 DEF IInv, Published, TrackedByHead
  <2>12. QED BY <2>6, <2>7, <2>8, <2>9, <2>10, <2>11 DEF IInv
<1>10. QED BY <1>8, <1>9

\* The root is the same directory as before, or the snapshot is withdrawn
LEMMA RecheckRootKeeps == IInv /\ RecheckRoot => IInv'
<1> SUFFICES ASSUME IInv, RecheckRoot PROVE IInv'
  OBVIOUS
<1>1. pc = "recheck_root" /\ pc \in WorkPc
  BY DEF RecheckRoot, WorkPc
<1>2. CASE ~SameDirectory(rootStat, Meta(live[Root]))
  BY <1>1, <1>2, RefuseHereKeeps DEF RecheckRoot
<1>3. CASE SameDirectory(rootStat, Meta(live[Root]))
  <2>1. /\ pc' = "returned"
        /\ UNCHANGED <<ws, kind, attempt, roots, used, frames, cur, entries, situation, live, head, edits, moves,
                       clock, heads>>
    BY <1>3 DEF RecheckRoot, environment, walk
  <2>2. Environment' /\ Walking'
    BY <2>1 DEF IInv, Environment, Walking, EntryPc
  <2>3. Attempted' /\ Released'
    BY <1>1, <2>1 DEF IInv, Attempted, Released, Pc, FreshPc, GitPc, AsidePc
  <2>4. Refused'
    BY <1>1, <2>1 DEF IInv, Refused, WorkPc, FreshPc, GitPc, AsidePc, WalkPc, EntryPc
  <2>5. Untouched' /\ TamperingIsSeen'
    BY <1>1, <2>1 DEF IInv, Untouched, TamperingIsSeen, FreshPc
  <2>6. Resolved'
    BY <2>1 DEF Resolved, AsidePc, WalkPc, EntryPc
  <2>7. Published'
    BY <1>1, <2>1 DEF IInv, Refused, Published, TrackedByHead, FreshPc
  <2>8. QED BY <2>2, <2>3, <2>4, <2>5, <2>6, <2>7 DEF IInv
<1>4. QED BY <1>2, <1>3

\* cleanup of a workspace
LEMMA CleanupFields ==
    ASSUME NEW w, Workspace(w), NEW removed \in BOOLEAN
    PROVE  /\ Differs(w, Cleanup(w, removed), {"cleanup"})
           /\ w.cleanup # "ok" => (Cleanup(w, removed).cleanup = "ok" <=> removed)
<1> DEFINE c == IF w.cleanup = "ok" \/ removed THEN "ok" ELSE "failed"
<1>1. Cleanup(w, removed) = [w EXCEPT !.cleanup = c]
  BY DEF Cleanup
<1>2. w.cleanup # "ok" => (c = "ok" <=> removed)
  OBVIOUS
<1> HIDE DEF c
<1>3. Differs(w, [w EXCEPT !.cleanup = c], {"cleanup"}) /\ [w EXCEPT !.cleanup = c].cleanup = c
  BY AssignCleanup
<1>4. QED BY <1>1, <1>2, <1>3

\* The static scan gives up the strict attempt: a second one, or nothing if the directory stays
LEMMA StaticFallbackKeeps == IInv /\ StaticFallback => IInv'
<1> SUFFICES ASSUME IInv, StaticFallback PROVE IInv'
  OBVIOUS
<1>1. /\ pc = "returned" /\ attempt.n = 1 /\ ws.snapshot = NULL /\ Workspace(ws) /\ ws.cleanup # "ok" /\ roots = 1
      /\ UNCHANGED <<kind, used, frames, cur, entries, situation, live, head, edits, moves, clock, heads>>
  BY DEF StaticFallback, IInv, Attempted, Released, environment, walk
<1>2. \/ /\ ws' = Cleanup(ws, TRUE) /\ roots' = roots - 1 /\ pc' = "start"
         /\ attempt' = [attempt EXCEPT !.n = 2, !.tracked = BoundedTrackedPaths(ws)]
      \/ /\ ws' = Cleanup(ws, FALSE) /\ pc' = "handed" /\ UNCHANGED <<roots, attempt>>
  BY DEF StaticFallback
<1>3. Environment' /\ Walking'
  BY <1>1, <1>2 DEF IInv, Environment, Walking, EntryPc
<1>4. CASE /\ ws' = Cleanup(ws, TRUE) /\ roots' = roots - 1 /\ pc' = "start"
           /\ attempt' = [attempt EXCEPT !.n = 2, !.tracked = BoundedTrackedPaths(ws)]
  <2>1. Differs(ws, ws', {"cleanup"})
    BY <1>1, <1>4, CleanupFields
  <2>2. Workspace(ws') /\ ws'.commit = ws.commit /\ ws'.tree = ws.tree
    BY <2>1 DEF Differs
  <2> DEFINE x == BoundedTrackedPaths(ws)
  <2>3. x # {} => situation.layout = "direct" /\ TrackedByHead(x)
    <3> SUFFICES ASSUME x # {} PROVE situation.layout = "direct" /\ TrackedByHead(x)
      OBVIOUS
    <3>1. x = ws.tracked /\ ws.refusals = {"source_worktree_not_exact_commit"} /\ ws.commit # NULL
      BY DEF BoundedTrackedPaths
    <3>2. QED BY <1>1, <3>1 DEF IInv, Attempted, Published
  <2> HIDE DEF x
  <2>4. attempt' = [attempt EXCEPT !.n = 2, !.tracked = x]
    BY <1>4 DEF x
  <2>5. /\ attempt' = [n |-> attempt'.n, tracked |-> attempt'.tracked, tree |-> attempt'.tree]
        /\ attempt'.n = 2 /\ attempt'.tracked = x
    <3>1. attempt = [n |-> attempt.n, tracked |-> attempt.tracked, tree |-> attempt.tree]
      BY DEF IInv, Attempted
    <3>2. attempt' = [n |-> 2, tracked |-> x, tree |-> attempt.tree]
      BY <2>4, <3>1
    <3>3. QED BY <3>2
  <2>6. Attempted'
    BY <1>1, <1>4, <2>2, <2>5 DEF IInv, Attempted, Pc, GitPc, AsidePc
  <2>7. Released'
    BY <1>1, <1>4 DEF Released
  <2>8. Refused' /\ Untouched' /\ TamperingIsSeen'
    BY <1>4 DEF Refused, Untouched, TamperingIsSeen, WorkPc, GitPc, AsidePc, WalkPc, EntryPc, FreshPc
  <2>9. Resolved'
    BY <1>4 DEF Resolved, AsidePc, WalkPc, EntryPc
  <2>10. Published'
    BY <1>1, <1>4, <2>3, <2>5 DEF Published, TrackedByHead, FreshPc
  <2>11. QED BY <1>3, <2>6, <2>7, <2>8, <2>9, <2>10 DEF IInv
<1>5. CASE ws' = Cleanup(ws, FALSE) /\ pc' = "handed" /\ UNCHANGED <<roots, attempt>>
  <2>1. Differs(ws, ws', {"cleanup"}) /\ ws'.cleanup # "ok"
    BY <1>1, <1>5, CleanupFields
  <2>2. /\ Workspace(ws') /\ ws'.commit = ws.commit /\ ws'.tree = ws.tree /\ ws'.snapshot = NULL
        /\ ws'.refusals = ws.refusals /\ ws'.copy = ws.copy
    BY <1>1, <2>1 DEF Differs
  <2>3. Attempted' /\ Released'
    BY <1>1, <1>5, <2>1, <2>2 DEF IInv, Attempted, Released, Pc, FreshPc, GitPc, AsidePc
  <2>4. Refused'
    BY <1>1, <1>5, <2>2 DEF IInv, Refused, WorkPc, GitPc, AsidePc, WalkPc, EntryPc, FreshPc
  <2>5. Untouched' /\ TamperingIsSeen'
    BY <1>5, <2>2 DEF Untouched, TamperingIsSeen
  <2>6. Resolved'
    BY <1>5 DEF Resolved, AsidePc, WalkPc, EntryPc
  <2>7. Published'
    BY <1>1, <1>5, <2>2 DEF IInv, Published, TrackedByHead
  <2>8. QED BY <1>3, <2>3, <2>4, <2>5, <2>6, <2>7 DEF IInv
<1>6. QED BY <1>2, <1>4, <1>5

\* The linked worktree's tree is listed between two lookups of HEAD
LEMMA LinkedBeginKeeps == IInv /\ LinkedBegin => IInv'
<1> SUFFICES ASSUME IInv, LinkedBegin PROVE IInv'
  OBVIOUS
<1>1. /\ pc = "returned" /\ situation.layout = "linked" /\ ws.snapshot # NULL
      /\ UNCHANGED <<ws, kind, roots, used, frames, cur, entries, situation, live, head, edits, moves, clock,
                     heads>>
  BY DEF LinkedBegin, environment, walk
<1>2. \/ pc' = "linked" /\ attempt' = [attempt EXCEPT !.tree = Tree[head]]
      \/ pc' = "handed" /\ UNCHANGED attempt
  BY DEF LinkedBegin
<1>3. /\ attempt' = [n |-> attempt'.n, tracked |-> attempt'.tracked, tree |-> attempt'.tree]
      /\ attempt'.n = attempt.n /\ attempt'.tracked = attempt.tracked
      /\ pc' = "linked" => attempt'.tree = Tree[head]
  <2>1. attempt = [n |-> attempt.n, tracked |-> attempt.tracked, tree |-> attempt.tree]
    BY DEF IInv, Attempted
  <2> DEFINE x == Tree[head]
  <2>2. CASE pc' = "linked" /\ attempt' = [attempt EXCEPT !.tree = x]
    <3> HIDE DEF x
    <3>1. attempt' = [n |-> attempt.n, tracked |-> attempt.tracked, tree |-> x]
      BY <2>1, <2>2
    <3>2. QED BY <3>1 DEF x
  <2>3. CASE pc' = "handed" /\ UNCHANGED attempt
    BY <2>1, <2>3
  <2>4. QED BY <1>2, <2>2, <2>3
<1>4. pc' \in {"linked", "handed"}
  BY <1>2
<1>5. Environment' /\ Walking'
  BY <1>1, <1>4 DEF IInv, Environment, Walking, EntryPc
<1>6. Attempted' /\ Released'
  BY <1>1, <1>3, <1>4 DEF IInv, Attempted, Released, Pc, FreshPc, GitPc, AsidePc
<1>7. Refused'
  BY <1>1, <1>4 DEF IInv, Refused, WorkPc, GitPc, AsidePc, WalkPc, EntryPc, FreshPc
<1>8. Untouched' /\ TamperingIsSeen'
  BY <1>1, <1>4 DEF IInv, Untouched, TamperingIsSeen, FreshPc
<1>9. Resolved'
  BY <1>4 DEF Resolved, AsidePc, WalkPc, EntryPc
<1>10. Published'
  BY <1>1, <1>3, <1>4 DEF IInv, Environment, Published, TrackedByHead, FreshPc
<1>11. QED BY <1>5, <1>6, <1>7, <1>8, <1>9, <1>10 DEF IInv

\* attach_source_tracked_paths: the snapshot with the paths of a tree that HEAD named
LEMMA AttachKeeps ==
    ASSUME IInv, pc \in {"returned", "linked"}, pc' = "handed", ws.snapshot # NULL, kind = "filesystem",
           NEW paths, paths \subseteq Paths, TrackedByHead(paths),
           ws' = [ws EXCEPT !.snapshot.tracked = paths],
           UNCHANGED <<kind, walk, rootStat, attempt, roots, used, environment>>
    PROVE  IInv'
<1> DEFINE s == [ws.snapshot EXCEPT !.tracked = paths]
<1>1. UNCHANGED <<frames, cur, entries, situation, live, head, edits, moves, clock, heads>>
  BY DEF environment, walk
<1>2. ws.snapshot \in FilesystemSnapshot
  BY DEF IInv, Refused, FreshPc
<1>3. s \in FilesystemSnapshot /\ s.manifest = ws.snapshot.manifest /\ s.tracked = paths
  BY <1>2 DEF FilesystemSnapshot
<1>4. s # NULL /\ s.kind = "filesystem"
  BY <1>3, SnapshotTypes DEF FilesystemSnapshot
<1>5. ws' = [ws EXCEPT !.snapshot = s]
  OBVIOUS
<1> HIDE DEF s
<1>6. Differs(ws, ws', {"snapshot"}) /\ ws'.snapshot = s
  <2> DEFINE v == [ws EXCEPT !.snapshot = s]
  <2>1. Workspace(ws)
    BY DEF IInv, Attempted
  <2>2. Differs(ws, v, {"snapshot"}) /\ v.snapshot = s
    BY <2>1, AssignSnapshot
  <2> HIDE DEF v
  <2>3. ws' = v
    BY <1>5 DEF v
  <2>4. QED BY <2>2, <2>3, Zenon
<1>7. /\ Workspace(ws') /\ ws'.commit = ws.commit /\ ws'.tree = ws.tree /\ ws'.copy = ws.copy
      /\ ws'.refusals = ws.refusals /\ ws'.exceeded = ws.exceeded /\ ws'.cleanup = ws.cleanup
  BY <1>6 DEF Differs
<1>8. Environment' /\ Walking'
  BY <1>1 DEF IInv, Environment, Walking, EntryPc
<1>9. Attempted' /\ Released'
  BY <1>1, <1>7 DEF IInv, Attempted, Released, Pc, FreshPc, GitPc, AsidePc
<1>10. Refused'
  BY <1>1, <1>3, <1>4, <1>6, <1>7 DEF IInv, Refused, WorkPc, GitPc, AsidePc, WalkPc, EntryPc, FreshPc
<1>11. Untouched' /\ TamperingIsSeen'
  BY <1>1, <1>3, <1>6, <1>7 DEF IInv, Untouched, TamperingIsSeen, FreshPc
<1>12. Resolved'
  BY <1>1 DEF Resolved, AsidePc, WalkPc, EntryPc
<1>13. Published'
  BY <1>1, <1>3, <1>4, <1>6, <1>7 DEF IInv, Published, TrackedByHead
<1>14. QED BY <1>8, <1>9, <1>10, <1>11, <1>12, <1>13 DEF IInv

\* A returned workspace is handed over as it is
LEMMA HandKeeps ==
    ASSUME IInv, pc \in {"returned", "linked"}, pc' = "handed",
           UNCHANGED <<ws, kind, walk, rootStat, attempt, roots, used, environment>>
    PROVE  IInv'
<1>1. UNCHANGED <<frames, cur, entries, situation, live, head, edits, moves, clock, heads>>
  BY DEF environment, walk
<1>2. Environment' /\ Walking'
  BY <1>1 DEF IInv, Environment, Walking, EntryPc
<1>3. Attempted' /\ Released'
  BY <1>1 DEF IInv, Attempted, Released, Pc, FreshPc, GitPc, AsidePc
<1>4. Refused'
  BY <1>1 DEF IInv, Refused, WorkPc, GitPc, AsidePc, WalkPc, EntryPc, FreshPc
<1>5. Untouched' /\ TamperingIsSeen'
  BY <1>1 DEF IInv, Untouched, TamperingIsSeen, FreshPc
<1>6. Resolved'
  BY <1>1 DEF Resolved, AsidePc, WalkPc, EntryPc
<1>7. Published'
  BY <1>1 DEF IInv, Published, TrackedByHead, FreshPc
<1>8. QED BY <1>2, <1>3, <1>4, <1>5, <1>6, <1>7 DEF IInv

\* The paths that HEAD tracks in a Git layout are paths of the model
LEMMA TrackedArePaths ==
    ASSUME Environment, situation.layout # "none", NEW paths, TrackedByHead(paths) PROVE paths \subseteq Paths
BY SnapshotTypes DEF Environment, TrackedByHead, Paths

\* The listing counts only if HEAD's tree is still the same
LEMMA LinkedEndKeeps == IInv /\ LinkedEnd => IInv'
<1> SUFFICES ASSUME IInv, LinkedEnd PROVE IInv'
  OBVIOUS
<1>1. /\ pc = "linked" /\ pc' = "handed"
      /\ UNCHANGED <<kind, walk, rootStat, attempt, roots, used, environment>>
  BY DEF LinkedEnd
<1>2. CASE UNCHANGED ws
  BY <1>1, <1>2, HandKeeps
<1>3. CASE ws' = [ws EXCEPT !.snapshot.tracked = DOMAIN attempt.tree]
  <2>1. situation.layout = "linked" /\ TrackedByHead(DOMAIN attempt.tree)
    BY <1>1 DEF IInv, Published, TrackedByHead
  <2>2. kind = "filesystem" /\ ws.snapshot # NULL
    BY <1>1, <2>1 DEF IInv, Attempted, Refused
  <2>3. DOMAIN attempt.tree \subseteq Paths
    BY <2>1, TrackedArePaths DEF IInv
  <2>4. QED BY <1>1, <1>3, <2>1, <2>2, <2>3, AttachKeeps
<1>4. QED BY <1>2, <1>3 DEF LinkedEnd

\* The tracked paths of the first attempt go with the second one's snapshot
LEMMA HandOverKeeps == IInv /\ HandOver => IInv'
<1> SUFFICES ASSUME IInv, HandOver PROVE IInv'
  OBVIOUS
<1>1. /\ pc = "returned" /\ pc' = "handed"
      /\ UNCHANGED <<kind, walk, rootStat, attempt, roots, used, environment>>
  BY DEF HandOver
<1>2. CASE ~(ws.snapshot # NULL /\ attempt.tracked # {})
  BY <1>1, <1>2, HandKeeps DEF HandOver
<1>3. CASE ws.snapshot # NULL /\ attempt.tracked # {}
  <2>1. ws' = [ws EXCEPT !.snapshot.tracked = attempt.tracked]
    BY <1>3 DEF HandOver
  <2>2. attempt.n = 2 /\ situation.layout = "direct" /\ TrackedByHead(attempt.tracked)
    BY <1>3 DEF IInv, Published
  <2>3. kind = "filesystem"
    BY <1>1, <2>2 DEF IInv, Attempted
  <2>4. attempt.tracked \subseteq Paths
    BY <2>2, TrackedArePaths DEF IInv
  <2>5. QED BY <1>1, <1>3, <2>1, <2>2, <2>3, <2>4, AttachKeeps
<1>4. QED BY <1>2, <1>3

\* The command gets the copy
LEMMA UseBeginKeeps == IInv /\ UseBegin => IInv'
<1> SUFFICES ASSUME IInv, UseBegin PROVE IInv'
  OBVIOUS
<1>1. /\ pc = "handed" /\ pc' = IF ws.snapshot = NULL THEN "cleanup" ELSE "in_use"
      /\ used' = [worktree |-> InspectGitWorktree(ws), before |-> SnapshotWorkspace(ws.copy),
                  verified |-> NULL, diff |-> NULL]
      /\ UNCHANGED <<ws, kind, attempt, roots, frames, cur, entries, situation, live, head, edits, moves, clock,
                     heads>>
  BY DEF UseBegin, environment, walk
<1>2. Environment' /\ Walking'
  BY <1>1 DEF IInv, Environment, Walking, EntryPc
<1>3. Attempted' /\ Released'
  BY <1>1 DEF IInv, Attempted, Released, Pc, GitPc, AsidePc
<1>4. Refused'
  BY <1>1 DEF Refused, WorkPc, GitPc, AsidePc, WalkPc, EntryPc, FreshPc
<1>5. Untouched'
  <2>1. ws.snapshot # NULL => /\ ws.copy = ws.snapshot.manifest
                              /\ InventoryExistingTree(ws.snapshot.manifest) # NULL
                              /\ IsFiniteSet(DOMAIN ws.snapshot.manifest)
    BY <1>1 DEF IInv, Untouched, FreshPc
  <2> DEFINE i == InspectGitWorktree(ws)
             b == SnapshotWorkspace(ws.copy)
  <2>2. used' = [worktree |-> i, before |-> b, verified |-> NULL, diff |-> NULL]
    BY <1>1
  <2> HIDE DEF i, b
  <2>3. used' = [worktree |-> used'.worktree, before |-> b, verified |-> NULL, diff |-> NULL]
    BY <2>2
  <2>4. QED BY <1>1, <2>1, <2>3 DEF Untouched, FreshPc, b
<1>6. TamperingIsSeen'
  BY <1>1 DEF TamperingIsSeen
<1>7. Resolved'
  BY <1>1 DEF Resolved, AsidePc, WalkPc, EntryPc
<1>8. Published'
  BY <1>1 DEF IInv, Published, TrackedByHead, FreshPc
<1>9. QED BY <1>2, <1>3, <1>4, <1>5, <1>6, <1>7, <1>8 DEF IInv

\* A workspace compared with itself shows no difference
LEMMA NoDiff ==
    ASSUME NEW m, InventoryExistingTree(m) # NULL
    PROVE  LET d == SummarizeWorkspaceDiff(SnapshotWorkspace(m), SnapshotWorkspace(m))
           IN d.available /\ d.created + d.deleted + d.modified = 0
<1> DEFINE x == SnapshotWorkspace(m)
           d == SummarizeWorkspaceDiff(x, x)
<1>1. x.errors = FALSE
  BY DEF SnapshotWorkspace
<1> HIDE DEF x
<1>2. Cardinality({}) = 0
  BY FS_EmptySet
<1>3. /\ DOMAIN x.files \ DOMAIN x.files = {}
      /\ {p \in DOMAIN x.files \cap DOMAIN x.files : x.files[p] # x.files[p]} = {}
  OBVIOUS
<1>4. d = [available |-> ~x.errors /\ ~x.errors, created |-> Cardinality({}), deleted |-> Cardinality({}),
           modified |-> Cardinality({})]
  BY <1>3 DEF SummarizeWorkspaceDiff
<1> HIDE DEF d
<1>5. d.available = TRUE /\ d.created = 0 /\ d.deleted = 0 /\ d.modified = 0
  BY <1>1, <1>2, <1>4
<1>6. QED BY <1>5 DEF d, x

\* A diff that shows nothing has compared two trees whose files hold the same
LEMMA DiffTells ==
    ASSUME NEW m, NEW c, InventoryExistingTree(m) # NULL, IsFiniteSet(DOMAIN m), IsFiniteSet(DOMAIN c),
           LET d == SummarizeWorkspaceDiff(SnapshotWorkspace(m), SnapshotWorkspace(c))
           IN d.available /\ d.created + d.deleted + d.modified = 0
    PROVE  Contents(c) = Contents(m)
<1> DEFINE x == SnapshotWorkspace(m)
           y == SnapshotWorkspace(c)
           b == DOMAIN x.files
           a == DOMAIN y.files
           mod == {p \in a \cap b : x.files[p] # y.files[p]}
           d == SummarizeWorkspaceDiff(x, y)
           av == ~x.errors /\ ~y.errors
           files(t) == {q \in DOMAIN t : t[q].type = "file"}
<1>1. x.errors = FALSE /\ x.files = [p \in files(m) |-> m[p].data]
  BY DEF SnapshotWorkspace
<1>2. /\ InventoryExistingTree(c) = NULL => y.errors = TRUE
      /\ InventoryExistingTree(c) # NULL => y.files = [p \in files(c) |-> c[p].data]
  BY DEF SnapshotWorkspace
<1>3. d = [available |-> av, created |-> Cardinality(a \ b), deleted |-> Cardinality(b \ a),
           modified |-> Cardinality(mod)]
  BY DEF SummarizeWorkspaceDiff
<1>4. d.available /\ d.created + d.deleted + d.modified = 0
  OBVIOUS
<1> HIDE DEF x, y, d
<1>5. d.available = av /\ d.created = Cardinality(a \ b) /\ d.deleted = Cardinality(b \ a)
      /\ d.modified = Cardinality(mod)
  <2> HIDE DEF av, a, b, mod
  <2> QED BY <1>3
<1>6. InventoryExistingTree(c) # NULL
  BY <1>2, <1>4, <1>5
<1>7. b = files(m) /\ a = files(c)
  BY <1>1, <1>2, <1>6
<1>8. IsFiniteSet(a) /\ IsFiniteSet(b)
  <2>1. files(m) \subseteq DOMAIN m /\ files(c) \subseteq DOMAIN c
    OBVIOUS
  <2> HIDE DEF files, a, b
  <2> QED BY <1>7, <2>1, FS_Subset
<1>9. IsFiniteSet(a \ b) /\ IsFiniteSet(b \ a) /\ IsFiniteSet(mod)
  <2>1. mod \subseteq a
    OBVIOUS
  <2> HIDE DEF a, b, mod
  <2> QED BY <1>8, <2>1, FS_Difference, FS_Subset
<1>10. a \ b = {} /\ b \ a = {} /\ mod = {}
  <2> HIDE DEF a, b, mod
  <2>1. Cardinality(a \ b) \in Nat /\ Cardinality(b \ a) \in Nat /\ Cardinality(mod) \in Nat
    BY <1>9, FS_CardinalityType
  <2>2. Cardinality(a \ b) = 0 /\ Cardinality(b \ a) = 0 /\ Cardinality(mod) = 0
    BY <1>4, <1>5, <2>1
  <2> QED BY <1>9, <2>2, FS_EmptySet
<1>11. files(c) = files(m) /\ \A p \in files(m) : c[p].data = m[p].data
  <2>1. files(c) = files(m)
    BY <1>7, <1>10
  <2>2. \A p \in files(m) : x.files[p] = y.files[p]
    BY <1>7, <1>10
  <2> HIDE DEF files
  <2> QED BY <1>1, <1>2, <1>6, <2>1, <2>2
<1> QED BY <1>11 DEF Contents

\* After the command the copy is verified and compared
LEMMA UseEndKeeps == IInv /\ UseEnd => IInv'
<1> SUFFICES ASSUME IInv, UseEnd PROVE IInv'
  OBVIOUS
<1> DEFINE v == VerifyVerifiedSnapshot(ws)
           d == SummarizeWorkspaceDiff(used.before, SnapshotWorkspace(ws.copy))
           m == ws.snapshot.manifest
<1>1. /\ pc = "in_use" /\ pc' = "cleanup" /\ used' = [used EXCEPT !.verified = v, !.diff = d]
      /\ UNCHANGED <<ws, kind, attempt, roots, frames, cur, entries, situation, live, head, edits, moves, clock,
                     heads>>
  BY DEF UseEnd, environment, walk
<1>2. /\ ws.snapshot # NULL /\ InventoryExistingTree(m) # NULL
      /\ used = [worktree |-> used.worktree, before |-> SnapshotWorkspace(m), verified |-> NULL, diff |-> NULL]
  BY <1>1 DEF IInv, Untouched
<1>3. used.before = SnapshotWorkspace(m) /\ used'.verified = v /\ used'.diff = d
  <2> DEFINE b == SnapshotWorkspace(m)
  <2> HIDE DEF v, d, b
  <2>1. used = [worktree |-> used.worktree, before |-> b, verified |-> NULL, diff |-> NULL]
    BY <1>2 DEF b
  <2>2. used' = [worktree |-> used.worktree, before |-> b, verified |-> v, diff |-> d]
    <3> DEFINE u == [used EXCEPT !.verified = v]
    <3>1. used' = [u EXCEPT !.diff = d]
      BY <1>1
    <3>2. u = [worktree |-> used.worktree, before |-> b, verified |-> v, diff |-> NULL]
      BY <2>1
    <3> HIDE DEF u
    <3>3. QED BY <3>1, <3>2
  <2>3. QED BY <2>1, <2>2 DEF b
<1>4. v <=> ws.copy = m
  BY <1>2, InventoryIsTree DEF VerifyVerifiedSnapshot
<1>5. v => d.available /\ d.created + d.deleted + d.modified = 0
  <2> SUFFICES ASSUME v PROVE d.available /\ d.created + d.deleted + d.modified = 0
    OBVIOUS
  <2>1. d = SummarizeWorkspaceDiff(SnapshotWorkspace(m), SnapshotWorkspace(m))
    BY <1>3, <1>4
  <2> HIDE DEF d, m, v
  <2>2. QED BY <1>2, <2>1, NoDiff
<1>13. (d.available /\ d.created + d.deleted + d.modified = 0) => Contents(ws.copy) = Contents(m)
  <2>1. IsFiniteSet(DOMAIN m) /\ IsFiniteSet(DOMAIN ws.copy)
    BY <1>1, <1>2 DEF IInv, Untouched
  <2>2. d = SummarizeWorkspaceDiff(SnapshotWorkspace(m), SnapshotWorkspace(ws.copy))
    BY <1>3
  <2> HIDE DEF d, m, v
  <2> QED BY <1>2, <2>1, <2>2, DiffTells
<1> HIDE DEF v, d
<1>6. TamperingIsSeen'
  BY <1>1, <1>3, <1>4, <1>5, <1>13 DEF TamperingIsSeen
<1>7. Environment' /\ Walking'
  BY <1>1 DEF IInv, Environment, Walking, EntryPc
<1>8. Attempted' /\ Released'
  BY <1>1 DEF IInv, Attempted, Released, Pc, GitPc, AsidePc
<1>9. Refused' /\ Untouched'
  BY <1>1 DEF Refused, Untouched, WorkPc, GitPc, AsidePc, WalkPc, EntryPc, FreshPc
<1>10. Resolved'
  BY <1>1 DEF Resolved, AsidePc, WalkPc, EntryPc
<1>11. Published'
  BY <1>1 DEF IInv, Published, TrackedByHead, FreshPc
<1>12. QED BY <1>6, <1>7, <1>8, <1>9, <1>10, <1>11 DEF IInv

\* The directory is removed, or reported as left behind
LEMMA CleanupWorkspaceKeeps == IInv /\ CleanupWorkspace => IInv'
<1> SUFFICES ASSUME IInv, CleanupWorkspace PROVE IInv'
  OBVIOUS
<1>1. /\ pc = "cleanup" /\ pc' = "closed" /\ Workspace(ws) /\ roots = 1 /\ ws.cleanup # "ok"
      /\ UNCHANGED <<kind, attempt, used, frames, cur, entries, situation, live, head, edits, moves, clock, heads>>
  BY DEF CleanupWorkspace, IInv, Attempted, Released, environment, walk
<1>2. PICK removed \in BOOLEAN : ws' = Cleanup(ws, removed) /\ roots' = IF removed THEN roots - 1 ELSE roots
  BY DEF CleanupWorkspace
<1>3. Differs(ws, ws', {"cleanup"}) /\ (ws'.cleanup = "ok" <=> removed)
  BY <1>1, <1>2, CleanupFields
<1>4. Workspace(ws') /\ ws'.commit = ws.commit /\ ws'.tree = ws.tree
  BY <1>3 DEF Differs
<1>5. Environment' /\ Walking'
  BY <1>1 DEF IInv, Environment, Walking, EntryPc
<1>6. Attempted'
  BY <1>1, <1>4 DEF IInv, Attempted, Pc, GitPc, AsidePc
<1>7. Released'
  BY <1>1, <1>2, <1>3 DEF Released
<1>8. Refused' /\ Untouched' /\ TamperingIsSeen'
  BY <1>1 DEF Refused, Untouched, TamperingIsSeen, WorkPc, GitPc, AsidePc, WalkPc, EntryPc, FreshPc
<1>9. Resolved'
  BY <1>1 DEF Resolved, AsidePc, WalkPc, EntryPc
<1>10. Published'
  BY <1>1 DEF IInv, Published, TrackedByHead, FreshPc
<1>11. QED BY <1>5, <1>6, <1>7, <1>8, <1>9, <1>10 DEF IInv

----------------------------------------------------------------------------
(***************************************************************************)
(* The environment                                                         *)
(***************************************************************************)
\* A new inode
LEMMA NewType ==
    ASSUME edits \in Nat, NEW k \in Kinds, NEW data \in Seq(Chunk) PROVE New(k, data) \in Node
BY DEF New, Node, Modes

\* Every edit leaves a node
LEMMA EditedType ==
    ASSUME Environment, NEW e, NEW p \in Paths, NEW n \in Edited(e, p) PROVE n \in Node
<1> DEFINE o == live[p]
<1>1. o \in Node /\ o.data \in Seq(Chunk) /\ edits \in Nat
  BY DEF Environment, Node
<1>2. \A i \in DOMAIN o.data, v \in Chunk : [o EXCEPT !.data[i] = v] \in Node
  <2> SUFFICES ASSUME NEW i \in DOMAIN o.data, NEW v \in Chunk PROVE [o EXCEPT !.data[i] = v] \in Node
    OBVIOUS
  <2> DEFINE d == [o.data EXCEPT ![i] = v]
  <2>1. d \in Seq(Chunk)
    BY <1>1
  <2>2. [o EXCEPT !.data[i] = v] = [o EXCEPT !.data = d]
    OBVIOUS
  <2> HIDE DEF d, o
  <2>3. QED BY <1>1, <2>1, <2>2 DEF Node
<1>3. [o EXCEPT !.data = Append(@, 1)] \in Node
  <2> DEFINE d == Append(o.data, 1)
  <2>1. d \in Seq(Chunk)
    BY <1>1 DEF Chunk
  <2>2. [o EXCEPT !.data = Append(@, 1)] = [o EXCEPT !.data = d]
    OBVIOUS
  <2> HIDE DEF d, o
  <2>3. QED BY <1>1, <2>1, <2>2 DEF Node
<1>4. [o EXCEPT !.mode = "100755"] \in Node
  <2> HIDE DEF o
  <2> QED BY <1>1 DEF Node, Modes
<1>5. New("file", [i \in DOMAIN o.data |-> 1]) \in Node
  <2>1. [i \in DOMAIN o.data |-> 1] \in Seq(Chunk)
    BY <1>1 DEF Chunk
  <2>2. QED BY <1>1, <2>1, NewType DEF Kinds
<1>6. \A k \in Kinds : New(k, <<>>) \in Node
  <2>1. <<>> \in Seq(Chunk)
    OBVIOUS
  <2>2. QED BY <1>1, <2>1, NewType
<1>7. New("file", <<1>>) \in Node
  <2>1. <<1>> \in Seq(Chunk) /\ "file" \in Kinds
    BY DEF Kinds, Chunk
  <2>2. QED BY <1>1, <2>1, NewType
<1> HIDE DEF o
<1>8. \/ \E i \in DOMAIN o.data, v \in Chunk : n = [o EXCEPT !.data[i] = v]
      \/ n \in {[o EXCEPT !.data = Append(@, 1)], [o EXCEPT !.mode = "100755"],
                New("file", [i \in DOMAIN o.data |-> 1]), New("file", <<1>>)}
      \/ \E k \in Kinds : n = New(k, <<>>)
  BY DEF Edited, o, Kinds
<1>9. QED BY <1>2, <1>3, <1>4, <1>5, <1>6, <1>7, <1>8, ZenonT(30)

\* Giving a node another timestamp
LEMMA StampType == ASSUME NEW n \in Node, NEW s \in Nat PROVE [n EXCEPT !.stamp = s] \in Node
BY DEF Node

\* The owner edits the source
LEMMA EditKeeps == IInv /\ Edit => IInv'
<1> SUFFICES ASSUME IInv, Edit PROVE IInv'
  OBVIOUS
<1>1. PICK e \in situation.kinds, p \in Paths, s \in Ticks : \E n \in Edited(e, p) : Becomes(p, n, s)
  BY DEF Edit
<1>2. PICK n \in Edited(e, p) : Becomes(p, n, s)
  BY <1>1
<1>3. /\ edits' = edits + 1
      /\ UNCHANGED <<situation, head, moves, heads, pc, kind, ws, frames, entries, rootStat, attempt, roots, used>>
  BY DEF Edit
<1>4. n \in Node /\ live \in [Paths -> Node] /\ clock \in Nat /\ edits \in Nat
  BY <1>2, EditedType DEF IInv, Environment
<1>5. s \in Nat
  BY <1>1, <1>4 DEF IInv, Environment, Case, Ticks
<1> DEFINE fresh == n.ino # live[p].ino
           node == [n EXCEPT !.stamp = s]
           q == Parent[p]
           one == [live EXCEPT ![p] = node]
           above == [one[q] EXCEPT !.stamp = s]
           fd == [live[p] EXCEPT !.stamp = s]
<1>6. /\ live' = IF fresh THEN [live EXCEPT ![p] = node, ![q].stamp = s] ELSE one
      /\ cur' = IF fresh /\ pc \in {"copy", "validate"} /\ cur.path = p /\ cur.before.ino = live[p].ino
                THEN [cur EXCEPT !.fd = fd] ELSE cur
      /\ clock' = s
  BY <1>2 DEF Becomes
<1>7. [live EXCEPT ![p] = node, ![q].stamp = s] = [one EXCEPT ![q] = above]
  OBVIOUS
<1>8. node \in Node /\ fd \in Node /\ q \in Paths
  BY <1>4, <1>5, StampType, SnapshotTypes DEF Paths
<1> HIDE DEF node, fd, q, fresh
<1>9. one \in [Paths -> Node]
  BY <1>4, <1>8
<1> HIDE DEF one
<1>10. above \in Node
  BY <1>5, <1>8, <1>9, StampType
<1> HIDE DEF above
<1>11. live' \in [Paths -> Node]
  <2>1. [one EXCEPT ![q] = above] \in [Paths -> Node]
    BY <1>8, <1>9, <1>10
  <2>2. live' = [one EXCEPT ![q] = above] \/ live' = one
    BY <1>6, <1>7
  <2>3. QED BY <1>9, <2>1, <2>2
<1>12. /\ cur' = NULL \/ cur' \in Copying
       /\ cur \in Copying => cur' \in Copying
  <2>1. cur = NULL \/ cur \in Copying
    BY DEF IInv, Walking
  <2>2. cur \in Copying => [cur EXCEPT !.fd = fd] \in Copying
    BY <1>8 DEF Copying
  <2>3. cur' = cur \/ (cur \in Copying /\ cur' = [cur EXCEPT !.fd = fd])
    BY <1>6 DEF IInv, Walking, EntryPc
  <2>4. QED BY <2>1, <2>2, <2>3
<1>13. clock' = s
  BY <1>6
<1>14. Environment'
  BY <1>3, <1>4, <1>5, <1>11, <1>13 DEF IInv, Environment
<1>15. Walking'
  BY <1>3, <1>12 DEF IInv, Walking
<1>16. Attempted' /\ Released'
  BY <1>3 DEF IInv, Attempted, Released
<1>17. Refused'
  BY <1>3 DEF IInv, Refused
<1>18. Untouched' /\ TamperingIsSeen'
  BY <1>3 DEF IInv, Untouched, TamperingIsSeen
<1>19. Resolved'
  BY <1>3 DEF IInv, Resolved
<1>20. Published'
  BY <1>3 DEF IInv, Published, TrackedByHead
<1>21. QED BY <1>14, <1>15, <1>16, <1>17, <1>18, <1>19, <1>20 DEF IInv

\* HEAD moves
LEMMA MoveHeadKeeps == IInv /\ MoveHead => IInv'
<1> SUFFICES ASSUME IInv, MoveHead PROVE IInv'
  OBVIOUS
<1>1. PICK c \in Commits \ {head} : head' = c /\ heads' = heads \cup {c}
  BY DEF MoveHead
<1>2. /\ moves' = moves + 1 /\ moves \in Nat
      /\ UNCHANGED <<situation, live, edits, clock, pc, kind, ws, frames, cur, entries, attempt, roots, used>>
  BY DEF MoveHead, walk, IInv, Environment
<1>3. Environment'
  BY <1>1, <1>2 DEF IInv, Environment
<1>4. Walking'
  BY <1>2 DEF IInv, Walking
<1>5. Attempted' /\ Released'
  BY <1>2 DEF IInv, Attempted, Released
<1>6. Refused'
  BY <1>2 DEF IInv, Refused
<1>7. Untouched' /\ TamperingIsSeen'
  BY <1>2 DEF IInv, Untouched, TamperingIsSeen
<1>8. Resolved'
  BY <1>1, <1>2 DEF IInv, Resolved
<1>9. Published'
  BY <1>1, <1>2 DEF IInv, Published, TrackedByHead
<1>10. QED BY <1>3, <1>4, <1>5, <1>6, <1>7, <1>8, <1>9 DEF IInv

\* The command changes its copy
LEMMA TamperKeeps == IInv /\ Tamper => IInv'
<1> SUFFICES ASSUME IInv, Tamper PROVE IInv'
  OBVIOUS
<1>1. /\ pc = "in_use" /\ edits' = edits + 1
      /\ UNCHANGED <<situation, live, head, moves, clock, heads, pc, kind, frames, cur, entries, attempt, roots,
                     used>>
  BY DEF Tamper, walk
<1>2. PICK p, t : ws' = [ws EXCEPT !.copy = IF t = NULL THEN [q \in DOMAIN @ \ {p} |-> @[q]]
                                            ELSE Put(@, p, t)]
  BY DEF Tamper
<1>3. Differs(ws, ws', {"copy"})
  <2> DEFINE x == IF t = NULL THEN [q \in DOMAIN ws.copy \ {p} |-> ws.copy[q]] ELSE Put(ws.copy, p, t)
  <2>1. ws' = [ws EXCEPT !.copy = x]
    BY <1>2
  <2> HIDE DEF x
  <2>2. Workspace(ws)
    BY DEF IInv, Attempted
  <2>3. QED BY <2>1, <2>2, AssignCopy
<1>4. /\ Workspace(ws') /\ ws'.snapshot = ws.snapshot /\ ws'.commit = ws.commit /\ ws'.tree = ws.tree
      /\ ws'.cleanup = ws.cleanup
  BY <1>3 DEF Differs
<1>5. IsFiniteSet(DOMAIN ws'.copy)
  <2>1. Workspace(ws) /\ IsFiniteSet(DOMAIN ws.copy)
    BY <1>1 DEF IInv, Attempted, Untouched
  <2> DEFINE x == IF t = NULL THEN [q \in DOMAIN ws.copy \ {p} |-> ws.copy[q]] ELSE Put(ws.copy, p, t)
  <2>2. ws' = [ws EXCEPT !.copy = x]
    BY <1>2
  <2>3. IsFiniteSet(DOMAIN x)
    BY <2>1, PutFinite, FS_Difference
  <2> HIDE DEF x
  <2>4. ws'.copy = x
    BY <2>1, <2>2, AssignCopy
  <2> QED BY <2>3, <2>4
<1>6. Environment' /\ Walking'
  BY <1>1 DEF IInv, Environment, Walking
<1>7. Attempted' /\ Released'
  BY <1>1, <1>4 DEF IInv, Attempted, Released
<1>8. Refused'
  BY <1>1 DEF Refused, WorkPc, GitPc, AsidePc, WalkPc, EntryPc, FreshPc
<1>9. Untouched' /\ TamperingIsSeen'
  BY <1>1, <1>4, <1>5 DEF IInv, Untouched, TamperingIsSeen, FreshPc
<1>10. Resolved'
  BY <1>1 DEF Resolved, AsidePc, WalkPc, EntryPc
<1>11. Published'
  BY <1>1 DEF IInv, Published, TrackedByHead, FreshPc
<1>12. QED BY <1>6, <1>7, <1>8, <1>9, <1>10, <1>11 DEF IInv

\* No step at all
LEMMA StutterKeeps == IInv /\ UNCHANGED vars => IInv'
<1> SUFFICES ASSUME IInv, UNCHANGED vars PROVE IInv'
  OBVIOUS
<1>1. UNCHANGED <<situation, live, head, edits, moves, clock, heads, pc, kind, ws, frames, cur, entries, attempt,
                  roots, used>>
  BY DEF vars, environment, walk
<1>2. Environment' /\ Walking' /\ Attempted' /\ Released'
  BY <1>1 DEF IInv, Environment, Walking, Attempted, Released
<1>3. Refused' /\ Untouched' /\ TamperingIsSeen'
  BY <1>1 DEF IInv, Refused, Untouched, TamperingIsSeen
<1>4. Resolved' /\ Published'
  BY <1>1 DEF IInv, Resolved, Published, TrackedByHead
<1>5. QED BY <1>2, <1>3, <1>4 DEF IInv

----------------------------------------------------------------------------
\* The invariant holds of every behaviour of intake, whatever its owner and HEAD do
THEOREM Invariance == Spec => []IInv
<1>1. Init => IInv
  BY InitKeeps
<1>2. IInv /\ [Next]_vars => IInv'
  <2> SUFFICES ASSUME IInv, [Next]_vars PROVE IInv'
    OBVIOUS
  <2>1. CASE CreateVerifiedSnapshot \/ OSErrorAnywhere
    BY <2>1, CreateVerifiedSnapshotKeeps, OSErrorAnywhereKeeps
  <2>2. CASE ResolveCommit \/ ResolveTree \/ GitTreeEntries \/ ExportGitBlobs
    BY <2>2, ResolveCommitKeeps, ResolveTreeKeeps, GitTreeEntriesKeeps, ExportGitBlobsKeeps
  <2>3. CASE WalkBegin \/ ListNext \/ ListEnd \/ OpenDirectory \/ OpenFile \/ CopyChunk \/ ValidateChunk
    BY <2>3, WalkBeginKeeps, ListNextKeeps, ListEndKeeps, OpenDirectoryKeeps, OpenFileKeeps, CopyChunkKeeps,
       ValidateChunkKeeps
  <2>4. CASE CompareWorktree \/ RecheckCommit \/ RecheckTree
    BY <2>4, CompareWorktreeKeeps, RecheckCommitKeeps, RecheckTreeKeeps
  <2>5. CASE FinishSnapshot \/ RecheckRoot
    BY <2>5, FinishSnapshotKeeps, RecheckRootKeeps
  <2>6. CASE StaticFallback \/ LinkedBegin \/ LinkedEnd \/ HandOver
    BY <2>6, StaticFallbackKeeps, LinkedBeginKeeps, LinkedEndKeeps, HandOverKeeps
  <2>7. CASE UseBegin \/ UseEnd \/ CleanupWorkspace
    BY <2>7, UseBeginKeeps, UseEndKeeps, CleanupWorkspaceKeeps
  <2>8. CASE Edit \/ MoveHead \/ Tamper
    BY <2>8, EditKeeps, MoveHeadKeeps, TamperKeeps
  <2>9. CASE Done \/ UNCHANGED vars
    BY <2>9, StutterKeeps DEF Done
  <2>10. QED BY <2>1, <2>2, <2>3, <2>4, <2>5, <2>6, <2>7, <2>8, <2>9 DEF Next, Step
<1>3. QED BY <1>1, <1>2, PTL DEF Spec

\* A refusal at any step, of the first attempt or of the static scan's second, leaves a reason and no
\* usable copy, at most one temporary directory exists, and none after a successful cleanup
\* (invalidate_partial_workspace, create_static_scan_snapshot)
THEOREM NothingLeaksHolds == Spec => []NothingLeaks
<1>1. IInv => RefusalLeavesNothing
  BY DEF IInv, Refused, RefusalLeavesNothing, CopySafetyOk, FreshPc
<1>2. IInv => OneDirectoryAtATime
  BY DEF IInv, Released, OneDirectoryAtATime
<1>3. IInv => NothingLeaks
  BY <1>1, <1>2 DEF NothingLeaks
<1>4. QED BY <1>3, Invariance, PTL

\* verify_verified_snapshot after the command succeeds exactly if the copy is still the manifest, and then
\* summarize_workspace_diff shows nothing; where the name or the content of a file has changed, it shows that
THEOREM TamperingIsSeenHolds == Spec => []TamperingIsSeen
<1>1. IInv => TamperingIsSeen
  BY DEF IInv
<1>2. QED BY <1>1, Invariance, PTL

\* Commit, tree, manifest and tracked paths of a verified snapshot belong together and existed: a commit
\* snapshot is its tree, its commit was HEAD, and the tree is the commit's unless HEAD moved three times
\* between the four lookups (_create_git_snapshot, attach_source_tracked_paths)
THEOREM SnapshotWasRealHolds == Spec => []SnapshotWasReal
<1>1. IInv => GitSnapshotIsCommit
  <2> SUFFICES ASSUME IInv, Fresh, ws.snapshot.kind = "git"
               PROVE  /\ ws.snapshot.manifest = Exported(ws.snapshot.tree)
                      /\ ws.snapshot.commit \in heads
                      /\ moves < 3 => Tree[ws.snapshot.commit] = ws.snapshot.tree
    BY DEF GitSnapshotIsCommit
  <2>1. pc \in FreshPc /\ ws.snapshot # NULL /\ moves \in Nat
    BY DEF IInv, Environment, Fresh, FreshPc
  <2>2. QED BY <2>1 DEF IInv, Published
<1>2. IInv => TrackedPathsWereReal
  BY DEF IInv, Published, TrackedPathsWereReal, TrackedByHead, Fresh, FreshPc
<1>3. IInv => SnapshotWasReal
  BY <1>1, <1>2 DEF SnapshotWasReal
<1>4. QED BY <1>3, Invariance, PTL

----------------------------------------------------------------------------
(***************************************************************************)
(* The copy was real: a second invariant, about what the walk has in hand  *)
(***************************************************************************)
ReadPc == {"open", "copy", "validate"}
ListPc == {"list"} \cup EntryPc
UsedPc == {"in_use", "cleanup", "closed"}

\* A tree on disk: finitely many paths below the root, with well-formed entries
DiskEntry == [type : {"file", "directory", "link"}, mode : Modes \cup {"040755"}, data : Seq(Chunk)]
Tidy(m) ==
    /\ IsFiniteSet(DOMAIN m) /\ DOMAIN m \subseteq Paths \ {Root}
    /\ \A p \in DOMAIN m : m[p] \in DiskEntry

\* The histories know the source as it stands, and every change is dated
SourceOK ==
    /\ situation \in Cases /\ edits <= situation.edits /\ moves <= situation.moves /\ head \in Commits
    /\ seen \in [Paths -> SUBSET Seq(Chunk)] /\ listed \in [Paths -> SUBSET SUBSET Paths]
    /\ \A p \in Paths : /\ live[p].stamp <= clock /\ live[p].ino < 2 + edits
                        /\ live[p].kind = "file" => p \in Files /\ live[p].data \in seen[p]
                        /\ live[p].kind = "dir" => p \in Dirs
    /\ \A d \in Dirs : Children(live, d) \in listed[d]

\* The entries of the walk in directory d, and the one that is not there yet
In(d) == {p \in DOMAIN entries : Parent[p] = d}
Pending(i) == IF pc \in EntryPc /\ i = Len(frames) THEN {cur.path} ELSE {}

\* A listing is one its directory had, and stays so while the directory's timestamp does; its names
\* that are not excluded have their entries
FrameOK(i) ==
    LET f == frames[i]
        d == f.dir
    IN /\ d \in Dirs /\ Depth(d) = i - 1 /\ i <= MaxDepth + 1
       /\ IF i = 1 THEN d = Root ELSE d # Root /\ d \in DOMAIN entries
       /\ f.present \in listed[d] /\ f.stat.stamp <= clock
       /\ \A p \in f.present \cup f.visited : Parent[p] = d /\ p # Root
       /\ live[d].stamp = f.stat.stamp => Children(live, d) = f.present /\ f.visited \subseteq f.present
       /\ In(d) = (f.visited \ Excluded) \ Pending(i)

FramesOK ==
    /\ pc \notin ListPc => frames = <<>>
    /\ \A i \in DOMAIN frames : FrameOK(i)
    /\ pc \in EntryPc => cur.path \in Top.visited \ Excluded
    /\ pc = "opendir" => cur.path \in Dirs /\ Depth(cur.path) <= MaxDepth
    /\ pc \in ReadPc => cur.path \in Files

\* Every directory of the manifest is being listed or has all its names
Open(d) == \E i \in DOMAIN frames : frames[i].dir = d
Settled(d) == \E names \in listed[d] : names \ Excluded = In(d)
Walked == pc \in ListPc \cup AsidePc \cup {"finish"} \/ (pc \in FreshPc /\ ws.snapshot # NULL)

EntriesOK ==
    Walked => /\ \A p \in DOMAIN entries : entries[p].type = "file" => entries[p].data \in seen[p]
              /\ \A p \in DOMAIN entries : Parent[p] = Root \/ Parent[p] \in DOMAIN entries
              /\ \A d \in Dirs : d = Root \/ d \in DOMAIN entries => Open(d) \/ Settled(d)

MatchOK ==
    /\ kind = "git" /\ pc \in {"recheck_commit", "recheck_tree", "finish"} => ws.exported = entries
    /\ pc \in FreshPc /\ ws.snapshot # NULL => ws.snapshot.manifest = entries

Prefix(s, t) == Len(s) <= Len(t) /\ \A k \in 1..Len(s) : s[k] = t[k]

\* What a read that has got s would end with if the content stayed t
Mend(s, t) == [k \in 1..(IF Len(s) < Len(t) THEN Len(t) ELSE Len(s)) |-> IF k <= Len(s) THEN s[k] ELSE t[k]]

\* With dated changes an unchanged timestamp means that the file is what was read.  Without them the
\* two reads have to tell: one change during the first leaves a content the file had, and after a
\* second one nothing changes the file any more
ReadOK ==
    /\ pc \in ReadPc => cur.before.stamp <= clock /\ cur.before.ino < 2 + edits
    /\ pc = "open" => cur.got = <<>>
    /\ pc \in {"open", "copy"} => cur.again = <<>>
    /\ pc \in {"copy", "validate"} =>
         /\ Opened.kind = "file" /\ Opened.data \in seen[cur.path]
         /\ ~situation.coarse /\ Opened.stamp = cur.before.stamp => Prefix(cur.got, Opened.data)
    /\ pc = "copy" /\ situation.coarse =>
         /\ edits = 0 => Prefix(cur.got, Opened.data)
         /\ edits = 1 => Mend(cur.got, Opened.data) \in seen[cur.path]
    /\ pc = "validate" /\ situation.coarse =>
         cur.got \in seen[cur.path] \/ (edits >= 2 /\ Prefix(cur.again, Opened.data))

CountOK ==
    /\ count \in [files : 0..MaxFiles, dirs : 0..MaxDirs, paths : 0..MaxPaths, total : Nat]
    /\ pc \in {"list", "opendir"} => Size(Written) <= count.total /\ count.total <= MaxTotal
    /\ pc \in ReadPc => /\ Size(Written) <= count.total + Len(cur.got) /\ Len(cur.got) <= cur.before.size
                        /\ count.total + cur.before.size <= MaxTotal

DiskOK ==
    /\ ws.cleanup \in {"not_started", "ok", "failed"}
    /\ Tidy(ws.copy) /\ Tidy(ws.comparison) /\ Tidy(ws.exported) /\ Tidy(entries)
    /\ DiskWithinBudget
    /\ pc \in {"commit", "resolve_tree", "tree", "export"} => ws.comparison = <<>>
    /\ pc = "walk" => Written = <<>>
    /\ pc = "export" => GitTreeRefusals(ws.tree) = {}

KInv == SourceOK /\ FramesOK /\ EntriesOK /\ MatchOK /\ ReadOK /\ CountOK /\ DiskOK

\* Where changes may share a timestamp there are few of them and they leave every name in its place
FewCoarseEdits == \A c \in Cases : c.coarse => c.edits <= 2 /\ c.kinds \subseteq {"write", "append", "chmod"}

----------------------------------------------------------------------------
(***************************************************************************)
(* The size of a tree                                                      *)
(***************************************************************************)
\* The chunks of a tree are finitely many
LEMMA ChunksFinite == ASSUME NEW m, Tidy(m) PROVE IsFiniteSet(Chunks(m)) /\ Size(m) \in Nat
<1> DEFINE S == {{p} \X DOMAIN m[p].data : p \in DOMAIN m}
<1>1. IsFiniteSet(DOMAIN m)
  BY DEF Tidy
<1>2. IsFiniteSet(S)
  <2> DEFINE g == [p \in DOMAIN m |-> {p} \X DOMAIN m[p].data]
  <2>1. g \in [DOMAIN m -> S]
    OBVIOUS
  <2>2. \A T \in S : \E p \in DOMAIN m : g[p] = T
    OBVIOUS
  <2> HIDE DEF g, S
  <2>3. g \in Surjection(DOMAIN m, S)
    BY <2>1, <2>2 DEF Surjection
  <2> QED BY <1>1, <2>3, FS_Surjection
<1>3. \A T \in S : IsFiniteSet(T)
  <2> TAKE T \in S
  <2>1. PICK p \in DOMAIN m : T = {p} \X DOMAIN m[p].data
    OBVIOUS
  <2>2. m[p].data \in Seq(Chunk)
    BY DEF Tidy, DiskEntry
  <2>3. IsFiniteSet(DOMAIN m[p].data)
    <3>1. Len(m[p].data) \in Nat /\ DOMAIN m[p].data = 1..Len(m[p].data)
      BY <2>2
    <3> QED BY <3>1, FS_Interval
  <2>4. IsFiniteSet({p})
    BY FS_Singleton
  <2> QED BY <2>1, <2>3, <2>4, FS_Product
<1>4. IsFiniteSet(Chunks(m))
  BY <1>2, <1>3, FS_UNION DEF Chunks
<1> QED BY <1>4, FS_CardinalityType DEF Size

\* A tree that holds no more chunks is no larger
LEMMA SmallerTree ==
    ASSUME NEW m, NEW n, Tidy(m), Tidy(n), Chunks(n) \subseteq Chunks(m)
    PROVE  Size(n) <= Size(m)
BY ChunksFinite, FS_Subset DEF Size

\* An empty tree
LEMMA EmptyTree == Tidy(<<>>) /\ Size(<<>>) = 0
<1>1. DOMAIN <<>> = {}
  OBVIOUS
<1>2. Tidy(<<>>)
  BY <1>1, FS_EmptySet DEF Tidy
<1>3. Chunks(<<>>) = {}
  BY <1>1 DEF Chunks
<1> QED BY <1>2, <1>3, FS_EmptySet DEF Size

\* Creating an empty file or a directory adds nothing to the size
LEMMA PutTree ==
    ASSUME NEW m, Tidy(m), NEW p \in Paths \ {Root}, NEW e \in DiskEntry
    PROVE  Tidy(Put(m, p, e)) /\ (e.data = <<>> => Size(Put(m, p, e)) <= Size(m))
<1> DEFINE n == Put(m, p, e)
<1>1. DOMAIN n = DOMAIN m \cup {p} /\ \A q \in DOMAIN n : n[q] = IF q = p THEN e ELSE m[q]
  BY DEF Put
<1> HIDE DEF n
<1>2. IsFiniteSet(DOMAIN n)
  BY <1>1, FS_AddElement DEF Tidy
<1>3. Tidy(n)
  BY <1>1, <1>2 DEF Tidy
<1>4. ASSUME e.data = <<>> PROVE Size(n) <= Size(m)
  <2>1. ASSUME NEW x \in Chunks(n) PROVE x \in Chunks(m)
    <3>1. PICK q \in DOMAIN n : x \in {q} \X DOMAIN n[q].data
      BY DEF Chunks
    <3>2. q # p
      BY <1>1, <1>4, <3>1
    <3> QED BY <1>1, <3>1, <3>2 DEF Chunks
  <2> QED BY <1>3, <2>1, SmallerTree
<1> QED BY <1>3, <1>4 DEF n

\* A chunk more
LEMMA GrowTree ==
    ASSUME NEW m, Tidy(m), NEW p, NEW x \in Chunk
    PROVE  LET n == [m EXCEPT ![p].data = Append(@, x)] IN Tidy(n) /\ Size(n) <= Size(m) + 1
<1> DEFINE n == [m EXCEPT ![p].data = Append(@, x)]
           c == <<p, Len(m[p].data) + 1>>
<1>1. DOMAIN n = DOMAIN m /\ \A q \in DOMAIN m : q # p => n[q] = m[q]
  OBVIOUS
<1>2. p \in DOMAIN m => n[p] = [m[p] EXCEPT !.data = Append(@, x)]
  OBVIOUS
<1> HIDE DEF n
<1>3. ASSUME p \in DOMAIN m
      PROVE /\ n[p] \in DiskEntry /\ DOMAIN n[p].data = DOMAIN m[p].data \cup {Len(m[p].data) + 1}
  <2> DEFINE e == m[p]
             d == Append(e.data, x)
  <2>1. e \in DiskEntry /\ e.data \in Seq(Chunk)
    BY <1>3 DEF Tidy, DiskEntry
  <2>2. d \in Seq(Chunk) /\ DOMAIN d = DOMAIN e.data \cup {Len(e.data) + 1}
    <3>1. d \in Seq(Chunk) /\ Len(d) = Len(e.data) + 1 /\ Len(e.data) \in Nat
      BY <2>1
    <3>2. DOMAIN d = 1..Len(d) /\ DOMAIN e.data = 1..Len(e.data)
      BY <2>1, <3>1
    <3> HIDE DEF d, e
    <3> QED BY <3>1, <3>2
  <2>3. n[p] = [e EXCEPT !.data = d]
    BY <1>2, <1>3
  <2> HIDE DEF d, e
  <2>4. n[p] \in DiskEntry /\ n[p].data = d
    BY <2>1, <2>2, <2>3 DEF DiskEntry
  <2> QED BY <2>2, <2>4 DEF e
<1>4. Tidy(n)
  <2>1. \A q \in DOMAIN n : n[q] \in DiskEntry
    BY <1>1, <1>3 DEF Tidy
  <2> QED BY <1>1, <2>1 DEF Tidy
<1>5. Chunks(n) \subseteq Chunks(m) \cup {c}
  <2> SUFFICES ASSUME NEW y \in Chunks(n), y # c PROVE y \in Chunks(m)
    OBVIOUS
  <2>1. PICK q \in DOMAIN n : y \in {q} \X DOMAIN n[q].data
    BY DEF Chunks
  <2>2. CASE q # p
    BY <1>1, <2>1, <2>2 DEF Chunks
  <2>3. CASE q = p
    <3>1. p \in DOMAIN m
      BY <1>1, <2>1, <2>3
    <3>2. y \in {p} \X (DOMAIN m[p].data \cup {Len(m[p].data) + 1})
      BY <1>3, <2>1, <2>3, <3>1
    <3>3. y \in {p} \X DOMAIN m[p].data
      BY <3>2
    <3> QED BY <3>1, <3>3 DEF Chunks
  <2> QED BY <2>2, <2>3
<1>6. Size(n) <= Size(m) + 1
  <2>1. IsFiniteSet(Chunks(m)) /\ Size(m) \in Nat /\ Size(n) \in Nat
    BY <1>4, ChunksFinite
  <2>2. IsFiniteSet(Chunks(m) \cup {c}) /\ Cardinality(Chunks(m) \cup {c}) <= Size(m) + 1
    <3> HIDE DEF c
    <3>1. IsFiniteSet(Chunks(m) \cup {c})
      BY <2>1, FS_AddElement
    <3>2. CASE c \in Chunks(m)
      <4>1. Chunks(m) \cup {c} = Chunks(m)
        BY <3>2
      <4>2. Cardinality(Chunks(m) \cup {c}) = Size(m)
        BY <4>1, Zenon DEF Size
      <4> QED BY <2>1, <3>1, <4>2
    <3>3. CASE c \notin Chunks(m)
      <4>1. Cardinality(Chunks(m) \cup {c}) = Cardinality(Chunks(m)) + 1
        BY <2>1, <3>3, FS_AddElement
      <4> QED BY <2>1, <3>1, <4>1 DEF Size
    <3> QED BY <3>2, <3>3
  <2>3. Cardinality(Chunks(n)) <= Cardinality(Chunks(m) \cup {c})
    BY <1>5, <2>2, FS_Subset
  <2>4. Cardinality(Chunks(m) \cup {c}) \in Nat
    BY <2>2, FS_CardinalityType
  <2> QED BY <2>1, <2>2, <2>3, <2>4 DEF Size
<1> QED BY <1>4, <1>6 DEF n

----------------------------------------------------------------------------
(***************************************************************************)
(* Steps outside the walk                                                  *)
(***************************************************************************)
\* Where the source does not change, what is known of it stays
LEMMA SourceStays == ASSUME SourceOK, UNCHANGED environment PROVE SourceOK'
BY DEF SourceOK, environment, Children

\* A step outside the walk touches the workspace only
LEMMA QuietKeeps ==
    ASSUME KInv, pc \notin ListPc, pc' \notin ListPc, UNCHANGED <<environment, walk>>,
           Walked' => Walked, MatchOK', DiskOK'
    PROVE  KInv'
<1>1. SourceOK'
  BY SourceStays DEF KInv
<1>2. frames = <<>> /\ frames' = <<>> /\ entries' = entries /\ listed' = listed /\ seen' = seen /\ count' = count
  BY DEF KInv, FramesOK, walk, environment
<1>3. FramesOK'
  BY <1>2 DEF FramesOK, ListPc, EntryPc, ReadPc
<1>4. EntriesOK'
  BY <1>2 DEF KInv, EntriesOK, Open, Settled, In
<1>5. ReadOK'
  BY DEF ReadOK, ListPc, EntryPc, ReadPc
<1>6. CountOK'
  BY <1>2 DEF KInv, CountOK, ListPc, EntryPc, ReadPc
<1> QED BY <1>1, <1>3, <1>4, <1>5, <1>6 DEF KInv

\* A refusal gives up the walk and at most empties the copy
LEMMA RefuseInWalk ==
    ASSUME IInv, KInv, pc \in WorkPc, NEW w, NEW reason, NEW own, RefuseIn(w, reason, own),
           Differs(ws, w, {"tree", "tracked"})
    PROVE  KInv'
<1>1. PICK emptied \in BOOLEAN : ws' = InvalidatePartialWorkspace(RecordRefusal(w, reason, own), emptied)
  BY DEF RefuseIn
<1>2. /\ Differs(w, ws', {"snapshot", "copy", "refusals", "exceeded"})
      /\ ws'.snapshot = NULL /\ ws'.copy \in {<<>>, w.copy}
  BY <1>1, RefusalFields DEF Differs
<1>3. /\ ws'.copy \in {<<>>, ws.copy} /\ ws'.comparison = ws.comparison /\ ws'.exported = ws.exported
      /\ ws'.cleanup = ws.cleanup
  BY <1>2 DEF Differs
<1>4. /\ pc' = "returned" /\ frames' = <<>> /\ cur' = NULL
      /\ UNCHANGED <<entries, count, environment>>
  BY DEF RefuseIn
<1>5. SourceOK'
  BY <1>4, SourceStays DEF KInv
<1>6. FramesOK'
  BY <1>4 DEF FramesOK, ListPc, EntryPc, ReadPc
<1>7. EntriesOK' /\ MatchOK'
  BY <1>2, <1>4 DEF EntriesOK, MatchOK, Walked, ListPc, EntryPc, AsidePc
<1>8. ReadOK'
  BY <1>4 DEF ReadOK, ReadPc
<1>9. CountOK'
  BY <1>4 DEF KInv, CountOK, ReadPc
<1>10. DiskOK'
  <2>1. /\ ws.cleanup \in {"not_started", "ok", "failed"} /\ Tidy(ws.copy) /\ Tidy(ws.comparison)
        /\ Tidy(ws.exported) /\ Tidy(entries)
    BY DEF KInv, DiskOK
  <2>2. Size(ws.copy) <= MaxTotal /\ Size(ws.comparison) <= MaxTotal
    BY DEF KInv, DiskOK, DiskWithinBudget, WorkPc, GitPc, AsidePc, WalkPc, EntryPc
  <2>3. Tidy(ws'.copy) /\ Size(ws'.copy) <= MaxTotal
    BY <1>3, <2>1, <2>2, EmptyTree, SnapshotConstants
  <2>4. Tidy(ws'.comparison) /\ Tidy(ws'.exported) /\ Tidy(entries') /\ Size(ws'.comparison) <= MaxTotal
    BY <1>3, <1>4, <2>1, <2>2
  <2>5. (Tidy(ws.copy) /\ Tidy(ws.comparison) /\ Tidy(ws.exported) /\ Tidy(entries))'
    BY <2>3, <2>4 DEF Tidy
  <2> QED BY <1>3, <1>4, <2>1, <2>3, <2>4, <2>5 DEF DiskOK, DiskWithinBudget
<1> QED BY <1>5, <1>6, <1>7, <1>8, <1>9, <1>10 DEF KInv

\* The same for a refusal of the workspace as it is
LEMMA RefuseHereInWalk ==
    ASSUME IInv, KInv, pc \in WorkPc, NEW reason, Refuse(reason) PROVE KInv'
<1>1. Differs(ws, ws, {"tree", "tracked"})
  BY DEF IInv, Attempted, Differs
<1>2. RefuseIn(ws, reason, kind = "filesystem")
  BY DEF Refuse
<1> QED BY <1>1, <1>2, RefuseInWalk

\* The entries of a manifest are entries of a tree on disk
LEMMA EntryFields ==
    /\ \A data \in Seq(Chunk), mode \in Modes :
          /\ FileEntry(data, mode) \in DiskEntry /\ FileEntry(data, mode).data = data
          /\ FileEntry(data, mode).type = "file"
    /\ DirEntry \in DiskEntry /\ DirEntry.data = <<>> /\ DirEntry.type = "directory"
BY DEF FileEntry, DirEntry, DiskEntry

\* The blobs of a tree that is not refused make a tidy tree within the budget
LEMMA ExportTidy ==
    ASSUME NEW c \in Commits, GitTreeRefusals(Tree[c]) = {}
    PROVE  Tidy(Exported(Tree[c])) /\ Size(Exported(Tree[c])) <= MaxTotal
<1> DEFINE t == Tree[c]
           b1 == Cardinality(DOMAIN t) > MaxFiles
           b2 == Cardinality(TreeDirs(DOMAIN t)) + 1 > MaxDirs
           b3 == Cardinality(DOMAIN t) + Cardinality(TreeDirs(DOMAIN t)) > MaxPaths
           b4 == \E f \in DOMAIN t : Depth(f) - 1 > MaxDepth
           b5 == \E f \in Kept(t) : Len(t[f].data) > MaxFileSize
           b6 == Size([f \in Kept(t) |-> t[f]]) > MaxTotal
           b7 == \E f \in DOMAIN t : t[f].mode \notin Modes
           b8 == AuthFile \in DOMAIN t
           budget == {<<b1, "max_file_count">>, <<b2, "max_directory_count">>,
                      <<b3, "max_manifest_path_bytes">>, <<b4, "max_depth">>,
                      <<b5, "max_file_bytes">>, <<b6, "max_total_bytes">>}
           shape == {<<b7, "git_tree_unsupported_entry">>,
                     <<b8, "tracked_authorization_artifact_refused">>}
<1>1. GitTreeRefusals(t) = {r[2] : r \in {q \in budget \cup shape : q[1]}}
  BY DEF GitTreeRefusals
<1>2. ~b6 /\ ~b7
  <2> HIDE DEF t, b1, b2, b3, b4, b5, b6, b7, b8
  <2>1. <<b6, "max_total_bytes">> \in budget \cup shape /\ <<b7, "git_tree_unsupported_entry">> \in budget \cup shape
    OBVIOUS
  <2>2. \A q \in budget \cup shape : ~q[1]
    <3> HIDE DEF budget, shape
    <3> QED BY <1>1 DEF t
  <2>3. ~<<b6, "max_total_bytes">>[1] /\ ~<<b7, "git_tree_unsupported_entry">>[1]
    BY <2>1, <2>2
  <2> QED BY <2>3
<1>3. /\ DOMAIN t \subseteq Files /\ IsFiniteSet(DOMAIN t)
      /\ \A f \in DOMAIN t : t[f].data \in Seq(Chunk) /\ t[f].mode \in Modes
  BY <1>2, SnapshotTypes, TreesAreFinite
<1> DEFINE ks == Kept(t)
           ds == TreeDirs(ks)
           e == Exported(t)
<1>4. ks \subseteq DOMAIN t /\ IsFiniteSet(ks)
  BY <1>3, FS_Subset DEF Kept
<1>5. ds \subseteq Dirs \ {Root} /\ IsFiniteSet(ds)
  <2>1. \A f \in ks : f \in Paths \ {Root} /\ Above[f] \subseteq Dirs
    BY <1>3, <1>4, PathsAreATree, SnapshotConstants DEF Paths
  <2>2. ds \subseteq Dirs \ {Root}
    BY <2>1 DEF TreeDirs
  <2> HIDE DEF ks
  <2> QED BY <1>3, <1>4, <2>2, DirsFinite
<1> HIDE DEF t, b1, b2, b3, b4, b5, b6, b7, b8
<1>6. /\ DOMAIN e = ks \cup ds
      /\ \A p \in DOMAIN e : e[p] = IF p \in ks THEN FileEntry(t[p].data, t[p].mode) ELSE DirEntry
  BY DEF Exported
<1> HIDE DEF ks, ds, e
<1>7. IsFiniteSet(DOMAIN e)
  BY <1>4, <1>5, <1>6, FS_Union
<1>8. \A p \in DOMAIN e : e[p] \in DiskEntry
  <2> TAKE p \in DOMAIN e
  <2>1. CASE p \in ks
    <3>1. t[p].data \in Seq(Chunk) /\ t[p].mode \in Modes
      BY <1>3, <1>4, <2>1
    <3> QED BY <1>6, <2>1, <3>1, EntryFields
  <2>2. CASE p \notin ks
    BY <1>6, <2>2, EntryFields
  <2> QED BY <2>1, <2>2
<1>9. Tidy(e)
  BY <1>3, <1>4, <1>5, <1>6, <1>7, <1>8, PathsAreATree, SnapshotConstants DEF Tidy, Paths
<1>10. Size(e) <= MaxTotal
  <2> DEFINE m == [f \in ks |-> t[f]]
  <2>1. Chunks(e) = Chunks(m)
    <3>1. ASSUME NEW x \in Chunks(e) PROVE x \in Chunks(m)
      <4>1. PICK p \in DOMAIN e : x \in {p} \X DOMAIN e[p].data
        BY DEF Chunks
      <4>2. p \in ks
        BY <1>6, <4>1 DEF DirEntry
      <4>3. e[p].data = t[p].data
        <5>1. t[p].data \in Seq(Chunk) /\ t[p].mode \in Modes
          BY <1>3, <1>4, <4>2
        <5> QED BY <1>6, <4>1, <4>2, <5>1, EntryFields
      <4> QED BY <4>1, <4>2, <4>3 DEF Chunks
    <3>2. ASSUME NEW x \in Chunks(m) PROVE x \in Chunks(e)
      <4>1. PICK p \in ks : x \in {p} \X DOMAIN t[p].data
        BY DEF Chunks
      <4>2. p \in DOMAIN e /\ e[p].data = t[p].data
        <5>1. t[p].data \in Seq(Chunk) /\ t[p].mode \in Modes
          BY <1>3, <1>4, <4>1
        <5> QED BY <1>6, <4>1, <5>1, EntryFields
      <4> QED BY <4>1, <4>2 DEF Chunks
    <3> QED BY <3>1, <3>2
  <2>2. ~(Size(m) > MaxTotal)
    BY <1>2 DEF b6, ks
  <2> HIDE DEF m
  <2>3. Size(e) = Size(m) /\ Size(e) \in Nat
    BY <1>9, <2>1, ChunksFinite DEF Size
  <2> QED BY <2>2, <2>3, SnapshotConstants
<1> QED BY <1>9, <1>10 DEF e, t

\* What a step outside the walk may do to the trees on disk
LEMMA DiskKeeps ==
    ASSUME KInv, pc \notin UsedPc \/ pc' \in UsedPc, entries' = entries,
           ws'.cleanup \in {"not_started", "ok", "failed"},
           ws'.copy = ws.copy \/ (Tidy(ws'.copy) /\ Size(ws'.copy) <= MaxTotal),
           ws'.comparison = ws.comparison \/ ws'.comparison = <<>>,
           ws'.exported = ws.exported \/ Tidy(ws'.exported),
           pc' \in {"commit", "resolve_tree", "tree", "export"} => ws'.comparison = <<>>,
           pc' = "walk" => Written' = <<>>,
           pc' = "export" => GitTreeRefusals(ws'.tree) = {}
    PROVE  DiskOK'
<1>1. /\ Tidy(ws.copy) /\ Tidy(ws.comparison) /\ Tidy(ws.exported) /\ Tidy(entries)
  BY DEF KInv, DiskOK
<1>2. pc \notin UsedPc => Size(ws.copy) <= MaxTotal /\ Size(ws.comparison) <= MaxTotal
  BY DEF KInv, DiskOK, DiskWithinBudget, UsedPc
<1>3. Tidy(ws'.copy) /\ Tidy(ws'.comparison) /\ Tidy(ws'.exported) /\ Tidy(entries')
  BY <1>1, EmptyTree
<1>4. pc' \notin UsedPc => Size(ws'.copy) <= MaxTotal /\ Size(ws'.comparison) <= MaxTotal
  BY <1>2, EmptyTree, SnapshotConstants
<1> QED BY <1>3, <1>4 DEF DiskOK, DiskWithinBudget, UsedPc

\* A step outside the walk that leaves the trees alone
LEMMA PassKeeps ==
    ASSUME KInv, pc \notin ListPc, pc' \notin ListPc \cup {"commit", "walk", "export"},
           UNCHANGED <<environment, walk>>, pc \notin UsedPc \/ pc' \in UsedPc,
           Differs(ws, ws', {"snapshot", "commit", "tree", "tracked", "refusals", "exceeded", "cleanup"}),
           ws'.cleanup \in {"not_started", "ok", "failed"},
           pc' \in {"resolve_tree", "tree"} => pc \in {"commit", "resolve_tree"},
           Walked' => Walked, MatchOK'
    PROVE  KInv'
<1>1. ws'.copy = ws.copy /\ ws'.comparison = ws.comparison /\ ws'.exported = ws.exported
  BY DEF Differs
<1>2. pc' \in {"commit", "resolve_tree", "tree", "export"} => ws'.comparison = <<>>
  BY <1>1 DEF KInv, DiskOK
<1>3. entries' = entries
  BY DEF walk
<1>4. DiskOK'
  BY <1>1, <1>2, <1>3, DiskKeeps
<1> QED BY <1>4, QuietKeeps

\* How far a cleanup has got
LEMMA CleanupKnown == ASSUME KInv PROVE ws.cleanup \in {"not_started", "ok", "failed"}
BY DEF KInv, DiskOK

\* A new attempt has an empty directory
LEMMA CreateVerifiedSnapshotCopies == IInv /\ KInv /\ CreateVerifiedSnapshot => KInv'
<1> SUFFICES ASSUME IInv, KInv, CreateVerifiedSnapshot PROVE KInv'
  OBVIOUS
<1>1. /\ pc = "start" /\ ws' = EmptyWorkspace /\ pc' \in {"commit", "walk"} /\ UNCHANGED <<environment, walk>>
  BY DEF CreateVerifiedSnapshot
<1>2. /\ ws'.copy = <<>> /\ ws'.comparison = <<>> /\ ws'.exported = <<>> /\ ws'.cleanup = "not_started"
  BY <1>1 DEF EmptyWorkspace
<1>3. Written' = <<>> /\ entries' = entries
  BY <1>1, <1>2 DEF Written, walk
<1>4. DiskOK'
  BY <1>1, <1>2, <1>3, EmptyTree, DiskKeeps, SnapshotConstants DEF UsedPc
<1>5. MatchOK' /\ ~Walked'
  BY <1>1 DEF MatchOK, Walked, FreshPc, ListPc, EntryPc, AsidePc
<1> QED BY <1>1, <1>4, <1>5, QuietKeeps DEF ListPc, EntryPc

\* An error gives up the walk
LEMMA OSErrorAnywhereCopies == IInv /\ KInv /\ OSErrorAnywhere => KInv'
<1> SUFFICES ASSUME IInv, KInv, OSErrorAnywhere PROVE KInv'
  OBVIOUS
<1>1. pc \in WorkPc
  BY DEF OSErrorAnywhere, WorkPc, GitPc, AsidePc, WalkPc, EntryPc
<1> QED BY <1>1, RefuseHereInWalk DEF OSErrorAnywhere

\* The commit is resolved
LEMMA ResolveCommitCopies == IInv /\ KInv /\ ResolveCommit => KInv'
<1> SUFFICES ASSUME IInv, KInv, ResolveCommit PROVE KInv'
  OBVIOUS
<1>1. PICK c \in GitObjectId(head) : ws' = [ws EXCEPT !.commit = c]
  BY DEF ResolveCommit
<1>2. pc = "commit" /\ pc' = "resolve_tree" /\ UNCHANGED <<environment, walk>>
  BY DEF ResolveCommit
<1>3. Differs(ws, ws', {"commit"})
  BY <1>1, AssignCommit DEF IInv, Attempted
<1>4. /\ Differs(ws, ws', {"snapshot", "commit", "tree", "tracked", "refusals", "exceeded", "cleanup"})
      /\ ws'.cleanup = ws.cleanup
  BY <1>3 DEF Differs
<1>5. MatchOK' /\ ~Walked'
  BY <1>2 DEF MatchOK, Walked, FreshPc, ListPc, EntryPc, AsidePc
<1> QED BY <1>2, <1>4, <1>5, CleanupKnown, PassKeeps DEF ListPc, EntryPc, UsedPc

\* The tree is resolved
LEMMA ResolveTreeCopies == IInv /\ KInv /\ ResolveTree => KInv'
<1> SUFFICES ASSUME IInv, KInv, ResolveTree PROVE KInv'
  OBVIOUS
<1> DEFINE w(t) == [ws EXCEPT !.tree = t]
<1>1. PICK t \in GitObjectId(Tree[head]) :
        \/ RefuseIn(w(t), "git_subject_unresolved", TRUE)
        \/ ws' = w(t) /\ pc' = "tree" /\ UNCHANGED <<environment, walk>>
  BY DEF ResolveTree
<1>2. pc = "resolve_tree" /\ pc \in WorkPc /\ Workspace(ws)
  BY DEF ResolveTree, IInv, Attempted, WorkPc, GitPc
<1>3. Differs(ws, w(t), {"tree"})
  BY <1>2, AssignTree
<1>4. /\ Differs(ws, w(t), {"snapshot", "commit", "tree", "tracked", "refusals", "exceeded", "cleanup"})
      /\ Differs(ws, w(t), {"tree", "tracked"}) /\ w(t).cleanup = ws.cleanup
  BY <1>3 DEF Differs
<1> HIDE DEF w
<1>5. CASE RefuseIn(w(t), "git_subject_unresolved", TRUE)
  BY <1>2, <1>4, <1>5, RefuseInWalk
<1>6. CASE ws' = w(t) /\ pc' = "tree" /\ UNCHANGED <<environment, walk>>
  <2>1. MatchOK' /\ ~Walked'
    BY <1>6 DEF MatchOK, Walked, FreshPc, ListPc, EntryPc, AsidePc
  <2> QED BY <1>2, <1>4, <1>6, <2>1, CleanupKnown, PassKeeps DEF ListPc, EntryPc, UsedPc
<1> QED BY <1>1, <1>5, <1>6

\* The tree is listed
LEMMA GitTreeEntriesCopies == IInv /\ KInv /\ GitTreeEntries => KInv'
<1> SUFFICES ASSUME IInv, KInv, GitTreeEntries PROVE KInv'
  OBVIOUS
<1> DEFINE w(paths) == [ws EXCEPT !.tracked = paths]
<1>1. PICK paths : \/ \E r : RefuseIn(w(paths), r, TRUE)
                   \/ /\ ws' = w(paths) /\ pc' = "export" /\ GitTreeRefusals(ws.tree) = {}
                      /\ UNCHANGED <<environment, walk>>
  BY DEF GitTreeEntries
<1>2. pc = "tree" /\ pc \in WorkPc /\ Workspace(ws)
  BY DEF GitTreeEntries, IInv, Attempted, WorkPc, GitPc
<1>3. Differs(ws, w(paths), {"tracked"})
  BY <1>2, AssignTracked
<1> HIDE DEF w
<1>4. CASE \E r : RefuseIn(w(paths), r, TRUE)
  <2>1. Differs(ws, w(paths), {"tree", "tracked"})
    BY <1>3 DEF Differs
  <2> QED BY <1>2, <1>4, <2>1, RefuseInWalk
<1>5. CASE /\ ws' = w(paths) /\ pc' = "export" /\ GitTreeRefusals(ws.tree) = {}
           /\ UNCHANGED <<environment, walk>>
  <2>1. /\ ws'.copy = ws.copy /\ ws'.comparison = ws.comparison /\ ws'.exported = ws.exported
        /\ ws'.cleanup = ws.cleanup /\ ws'.tree = ws.tree
    BY <1>3, <1>5 DEF Differs
  <2>2. ws'.comparison = <<>> /\ entries' = entries
    BY <1>2, <1>5, <2>1 DEF KInv, DiskOK, walk
  <2>3. DiskOK'
    BY <1>2, <1>5, <2>1, <2>2, CleanupKnown, DiskKeeps DEF UsedPc
  <2>4. MatchOK' /\ ~Walked'
    BY <1>5 DEF MatchOK, Walked, FreshPc, ListPc, EntryPc, AsidePc
  <2> QED BY <1>2, <1>5, <2>3, <2>4, QuietKeeps DEF ListPc, EntryPc
<1> QED BY <1>1, <1>4, <1>5

\* The blobs are exported
LEMMA ExportGitBlobsCopies == IInv /\ KInv /\ ExportGitBlobs => KInv'
<1> SUFFICES ASSUME IInv, KInv, ExportGitBlobs PROVE KInv'
  OBVIOUS
<1>1. /\ pc = "export" /\ kind = "git" /\ kind' = kind /\ Workspace(ws) /\ pc' = "walk"
      /\ ws' = [ws EXCEPT !.copy = Exported(ws.tree), !.exported = Exported(ws.tree)]
      /\ UNCHANGED <<environment, walk>>
  BY DEF ExportGitBlobs, IInv, Attempted, GitPc
<1>2. Differs(ws, ws', {"copy", "exported"}) /\ ws'.copy = Exported(ws.tree) /\ ws'.exported = Exported(ws.tree)
  BY <1>1, AssignExport
<1>3. ws'.comparison = <<>> /\ ws'.cleanup = ws.cleanup /\ entries' = entries
  BY <1>1, <1>2 DEF Differs, KInv, DiskOK, walk
<1>4. PICK c \in Commits : ws.tree = Tree[c]
  BY <1>1 DEF IInv, Resolved, Environment, Attempted
<1>5. Tidy(Exported(ws.tree)) /\ Size(Exported(ws.tree)) <= MaxTotal
  BY <1>1, <1>4, ExportTidy DEF KInv, DiskOK
<1>6. Written' = <<>>
  BY <1>1, <1>3 DEF Written
<1>7. DiskOK'
  BY <1>1, <1>2, <1>3, <1>5, <1>6, CleanupKnown, DiskKeeps DEF UsedPc
<1>8. MatchOK' /\ ~Walked'
  BY <1>1 DEF MatchOK, Walked, FreshPc, ListPc, EntryPc, AsidePc
<1> QED BY <1>1, <1>7, <1>8, QuietKeeps DEF ListPc, EntryPc

\* The copy of the live files equals the export
LEMMA CompareWorktreeCopies == IInv /\ KInv /\ CompareWorktree => KInv'
<1> SUFFICES ASSUME IInv, KInv, CompareWorktree PROVE KInv'
  OBVIOUS
<1>1. pc = "compare" /\ pc \in WorkPc /\ Workspace(ws)
  BY DEF CompareWorktree, IInv, Attempted, WorkPc, GitPc, AsidePc
<1>2. \A fs : Differs(ws, ws, fs)
  BY <1>1 DEF Differs
<1>3. CASE entries = ws.exported
  <2>1. pc' = "recheck_commit" /\ UNCHANGED <<environment, walk, ws>> /\ entries' = entries
    BY <1>3 DEF CompareWorktree, walk
  <2>2. MatchOK' /\ Walked
    BY <1>1, <1>3, <2>1 DEF MatchOK, Walked, FreshPc, AsidePc
  <2> QED BY <1>1, <1>2, <2>1, <2>2, CleanupKnown, PassKeeps DEF ListPc, EntryPc, UsedPc
<1>4. CASE entries # ws.exported
  BY <1>1, <1>2, <1>4, RefuseInWalk DEF CompareWorktree
<1> QED BY <1>3, <1>4

\* The commit is resolved again
LEMMA RecheckCommitCopies == IInv /\ KInv /\ RecheckCommit => KInv'
<1> SUFFICES ASSUME IInv, KInv, RecheckCommit PROVE KInv'
  OBVIOUS
<1>1. pc = "recheck_commit" /\ pc \in WorkPc /\ Workspace(ws)
  BY DEF RecheckCommit, IInv, Attempted, WorkPc, GitPc, AsidePc
<1>2. \A fs : Differs(ws, ws, fs)
  BY <1>1 DEF Differs
<1>3. \/ pc' = "recheck_tree" /\ UNCHANGED <<environment, walk, ws, kind>>
      \/ RefuseIn(ws, "git_subject_changed_during_intake", TRUE)
  BY DEF RecheckCommit
<1>4. CASE pc' = "recheck_tree" /\ UNCHANGED <<environment, walk, ws, kind>>
  <2>1. MatchOK' /\ Walked
    BY <1>1, <1>4 DEF KInv, MatchOK, Walked, FreshPc, AsidePc, walk
  <2> QED BY <1>1, <1>2, <1>4, <2>1, CleanupKnown, PassKeeps DEF ListPc, EntryPc, UsedPc
<1>5. CASE RefuseIn(ws, "git_subject_changed_during_intake", TRUE)
  BY <1>1, <1>2, <1>5, RefuseInWalk
<1> QED BY <1>3, <1>4, <1>5

\* The tree is resolved again and the comparison is thrown away
LEMMA RecheckTreeCopies == IInv /\ KInv /\ RecheckTree => KInv'
<1> SUFFICES ASSUME IInv, KInv, RecheckTree PROVE KInv'
  OBVIOUS
<1> DEFINE w == [ws EXCEPT !.comparison = <<>>]
<1>1. pc = "recheck_tree" /\ pc \in WorkPc /\ Workspace(ws)
  BY DEF RecheckTree, IInv, Attempted, WorkPc, GitPc, AsidePc
<1>2. Differs(ws, w, {"comparison"}) /\ w.comparison = <<>> /\ \A fs : Differs(ws, ws, fs)
  BY <1>1, AssignComparison DEF Differs
<1>3. \/ pc' = "finish" /\ ws' = w /\ UNCHANGED <<environment, walk, kind>>
      \/ RefuseIn(ws, "git_subject_changed_during_intake", TRUE)
  BY DEF RecheckTree
<1> HIDE DEF w
<1>4. CASE pc' = "finish" /\ ws' = w /\ UNCHANGED <<environment, walk, kind>>
  <2>1. /\ ws'.copy = ws.copy /\ ws'.comparison = <<>> /\ ws'.exported = ws.exported
        /\ ws'.cleanup = ws.cleanup /\ entries' = entries
    BY <1>2, <1>4 DEF Differs, walk
  <2>2. MatchOK' /\ Walked
    BY <1>1, <1>4, <2>1 DEF KInv, MatchOK, Walked, FreshPc, AsidePc
  <2>3. DiskOK'
    BY <1>1, <1>4, <2>1, CleanupKnown, DiskKeeps DEF UsedPc
  <2> QED BY <1>1, <1>4, <2>2, <2>3, QuietKeeps DEF ListPc, EntryPc
<1>5. CASE RefuseIn(ws, "git_subject_changed_during_intake", TRUE)
  BY <1>1, <1>2, <1>5, RefuseInWalk
<1> QED BY <1>3, <1>4, <1>5

\* The manifest published is what the walk found
LEMMA FinishSnapshotCopies == IInv /\ KInv /\ FinishSnapshot => KInv'
<1> SUFFICES ASSUME IInv, KInv, FinishSnapshot PROVE KInv'
  OBVIOUS
<1> DEFINE m == IF kind = "git" THEN ws.exported ELSE entries
           paths == IF kind = "git" THEN ws.tracked ELSE {p \in DOMAIN m : m[p].type = "file"}
           s == [manifest |-> m, kind |-> kind, commit |-> ws.commit, tree |-> ws.tree, tracked |-> paths]
           done == [ws EXCEPT !.snapshot = s]
<1>1. pc = "finish" /\ pc \in WorkPc /\ Workspace(ws)
  BY DEF FinishSnapshot, IInv, Attempted, WorkPc
<1>2. \/ ws' = done /\ pc' = "recheck_root" /\ UNCHANGED <<environment, walk>>
      \/ Refuse("snapshot_post_copy_verification_failed")
  BY DEF FinishSnapshot
<1>3. s.manifest = m /\ m = entries
  BY <1>1 DEF KInv, MatchOK
<1> HIDE DEF s
<1>4. Differs(ws, done, {"snapshot"}) /\ done.snapshot = s
  BY <1>1, AssignSnapshot
<1> HIDE DEF done, m
<1>5. CASE ws' = done /\ pc' = "recheck_root" /\ UNCHANGED <<environment, walk>>
  <2>1. /\ Differs(ws, ws', {"snapshot", "commit", "tree", "tracked", "refusals", "exceeded", "cleanup"})
        /\ ws'.cleanup = ws.cleanup
    BY <1>4, <1>5 DEF Differs
  <2>2. MatchOK' /\ Walked
    BY <1>1, <1>3, <1>4, <1>5 DEF MatchOK, Walked, walk
  <2> QED BY <1>1, <1>5, <2>1, <2>2, CleanupKnown, PassKeeps DEF ListPc, EntryPc, UsedPc
<1>6. CASE Refuse("snapshot_post_copy_verification_failed")
  BY <1>1, <1>6, RefuseHereInWalk
<1> QED BY <1>2, <1>5, <1>6

\* The root is compared with its first lstat
LEMMA RecheckRootCopies == IInv /\ KInv /\ RecheckRoot => KInv'
<1> SUFFICES ASSUME IInv, KInv, RecheckRoot PROVE KInv'
  OBVIOUS
<1>1. pc = "recheck_root" /\ pc \in WorkPc /\ Workspace(ws) /\ ws.snapshot # NULL
  BY DEF RecheckRoot, IInv, Attempted, Refused, WorkPc
<1>2. \A fs : Differs(ws, ws, fs)
  BY <1>1 DEF Differs
<1>3. \/ pc' = "returned" /\ UNCHANGED <<environment, walk, ws, kind>>
      \/ Refuse("source_root_swap_detected")
  BY DEF RecheckRoot
<1>4. CASE pc' = "returned" /\ UNCHANGED <<environment, walk, ws, kind>>
  <2>1. MatchOK' /\ Walked
    BY <1>1, <1>4 DEF KInv, MatchOK, Walked, FreshPc, walk
  <2> QED BY <1>1, <1>2, <1>4, <2>1, CleanupKnown, PassKeeps DEF ListPc, EntryPc, UsedPc
<1>5. CASE Refuse("source_root_swap_detected")
  BY <1>1, <1>5, RefuseHereInWalk
<1> QED BY <1>3, <1>4, <1>5

\* The value cleanup leaves
LEMMA CleanupValue ==
    ASSUME NEW w, Workspace(w), NEW removed \in BOOLEAN
    PROVE  Cleanup(w, removed).cleanup \in {"ok", "failed"}
<1> DEFINE c == IF w.cleanup = "ok" \/ removed THEN "ok" ELSE "failed"
<1>1. Cleanup(w, removed) = [w EXCEPT !.cleanup = c] /\ c \in {"ok", "failed"}
  BY DEF Cleanup
<1> HIDE DEF c
<1>2. [w EXCEPT !.cleanup = c].cleanup = c
  BY AssignCleanup
<1> QED BY <1>1, <1>2

\* The workspace of the first attempt is removed
LEMMA StaticFallbackCopies == IInv /\ KInv /\ StaticFallback => KInv'
<1> SUFFICES ASSUME IInv, KInv, StaticFallback PROVE KInv'
  OBVIOUS
<1>1. PICK removed \in BOOLEAN : ws' = Cleanup(ws, removed) /\ pc' \in {"start", "handed"}
  BY DEF StaticFallback
<1>2. pc = "returned" /\ ws.snapshot = NULL /\ Workspace(ws) /\ UNCHANGED <<environment, walk>>
  BY DEF StaticFallback, IInv, Attempted
<1>3. Differs(ws, ws', {"cleanup"}) /\ ws'.cleanup \in {"ok", "failed"}
  BY <1>1, <1>2, CleanupFields, CleanupValue
<1>4. /\ Differs(ws, ws', {"snapshot", "commit", "tree", "tracked", "refusals", "exceeded", "cleanup"})
      /\ ws'.snapshot = NULL
  BY <1>2, <1>3 DEF Differs
<1>5. MatchOK' /\ ~Walked'
  BY <1>1, <1>4 DEF MatchOK, Walked, ListPc, EntryPc, AsidePc
<1> QED BY <1>1, <1>2, <1>3, <1>4, <1>5, PassKeeps DEF ListPc, EntryPc, UsedPc

\* A step that only goes on with a returned workspace
LEMMA OnwardKeeps ==
    ASSUME IInv, KInv, pc \in {"returned", "linked", "handed"},
           pc' \in {"linked", "handed"} \cup UsedPc, UNCHANGED <<environment, walk, ws>>
    PROVE  KInv'
<1>1. Differs(ws, ws', {"snapshot", "commit", "tree", "tracked", "refusals", "exceeded", "cleanup"})
  BY DEF IInv, Attempted, Differs
<1>2. MatchOK' /\ (Walked' => Walked)
  BY DEF KInv, MatchOK, Walked, walk, FreshPc, ListPc, EntryPc, AsidePc, UsedPc
<1> QED BY <1>1, <1>2, CleanupKnown, PassKeeps DEF ListPc, EntryPc, UsedPc

\* Attaching tracked paths leaves the manifest alone
LEMMA AttachCopies ==
    ASSUME IInv, KInv, pc \in {"returned", "linked"}, pc' = "handed", ws.snapshot # NULL, kind = "filesystem",
           NEW paths, paths \subseteq Paths, ws' = [ws EXCEPT !.snapshot.tracked = paths],
           UNCHANGED <<environment, walk>>
    PROVE  KInv'
<1> DEFINE s == [ws.snapshot EXCEPT !.tracked = paths]
<1>1. ws.snapshot \in FilesystemSnapshot
  BY DEF IInv, Refused, FreshPc
<1>2. s.manifest = ws.snapshot.manifest
  BY <1>1 DEF FilesystemSnapshot
<1>3. ws' = [ws EXCEPT !.snapshot = s]
  OBVIOUS
<1> HIDE DEF s
<1>4. Differs(ws, ws', {"snapshot"}) /\ ws'.snapshot = s
  <2> DEFINE v == [ws EXCEPT !.snapshot = s]
  <2>1. Workspace(ws)
    BY DEF IInv, Attempted
  <2>2. Differs(ws, v, {"snapshot"}) /\ v.snapshot = s
    BY <2>1, AssignSnapshot
  <2> HIDE DEF v
  <2>3. ws' = v
    BY <1>3 DEF v
  <2> QED BY <2>2, <2>3, Zenon
<1>5. /\ Differs(ws, ws', {"snapshot", "commit", "tree", "tracked", "refusals", "exceeded", "cleanup"})
      /\ ws'.cleanup = ws.cleanup
  BY <1>4 DEF Differs
<1>6. MatchOK' /\ Walked
  BY <1>2, <1>4 DEF KInv, MatchOK, Walked, walk, FreshPc
<1> QED BY <1>5, <1>6, CleanupKnown, PassKeeps DEF ListPc, EntryPc, UsedPc

\* The linked worktree's tree is listed
LEMMA LinkedBeginCopies == IInv /\ KInv /\ LinkedBegin => KInv'
<1> SUFFICES ASSUME IInv, KInv, LinkedBegin PROVE KInv'
  OBVIOUS
<1>1. pc = "returned" /\ pc' \in {"linked", "handed"} /\ UNCHANGED <<environment, walk, ws>>
  BY DEF LinkedBegin
<1> QED BY <1>1, OnwardKeeps

\* Its paths are attached
LEMMA LinkedEndCopies == IInv /\ KInv /\ LinkedEnd => KInv'
<1> SUFFICES ASSUME IInv, KInv, LinkedEnd PROVE KInv'
  OBVIOUS
<1>1. pc = "linked" /\ pc' = "handed" /\ UNCHANGED <<environment, walk>>
  BY DEF LinkedEnd
<1>2. CASE UNCHANGED ws
  BY <1>1, <1>2, OnwardKeeps
<1>3. CASE ws' = [ws EXCEPT !.snapshot.tracked = DOMAIN attempt.tree]
  <2>1. situation.layout = "linked" /\ TrackedByHead(DOMAIN attempt.tree)
    BY <1>1 DEF IInv, Published, TrackedByHead
  <2>2. kind = "filesystem" /\ ws.snapshot # NULL
    BY <1>1, <2>1 DEF IInv, Attempted, Refused
  <2>3. DOMAIN attempt.tree \subseteq Paths
    BY <2>1, TrackedArePaths DEF IInv
  <2> QED BY <1>1, <1>3, <2>2, <2>3, AttachCopies
<1> QED BY <1>2, <1>3 DEF LinkedEnd

\* The paths of the first attempt are attached
LEMMA HandOverCopies == IInv /\ KInv /\ HandOver => KInv'
<1> SUFFICES ASSUME IInv, KInv, HandOver PROVE KInv'
  OBVIOUS
<1>1. pc = "returned" /\ pc' = "handed" /\ UNCHANGED <<environment, walk>>
  BY DEF HandOver
<1>2. CASE ~(ws.snapshot # NULL /\ attempt.tracked # {})
  BY <1>1, <1>2, OnwardKeeps DEF HandOver
<1>3. CASE ws.snapshot # NULL /\ attempt.tracked # {}
  <2>1. ws' = [ws EXCEPT !.snapshot.tracked = attempt.tracked]
    BY <1>3 DEF HandOver
  <2>2. attempt.n = 2 /\ situation.layout = "direct" /\ TrackedByHead(attempt.tracked)
    BY <1>3 DEF IInv, Published
  <2>3. kind = "filesystem"
    BY <1>1, <2>2 DEF IInv, Attempted
  <2>4. attempt.tracked \subseteq Paths
    BY <2>2, TrackedArePaths DEF IInv
  <2> QED BY <1>1, <1>3, <2>1, <2>3, <2>4, AttachCopies
<1> QED BY <1>2, <1>3

\* The command gets the copy, and gives it back
LEMMA UseCopies == IInv /\ KInv /\ (UseBegin \/ UseEnd) => KInv'
<1> SUFFICES ASSUME IInv, KInv, UseBegin \/ UseEnd PROVE KInv'
  OBVIOUS
<1>1. pc \in {"handed", "in_use"} /\ pc' \in UsedPc /\ UNCHANGED <<environment, walk, ws>>
  BY DEF UseBegin, UseEnd, UsedPc
<1>2. Differs(ws, ws', {"snapshot", "commit", "tree", "tracked", "refusals", "exceeded", "cleanup"})
  BY <1>1 DEF IInv, Attempted, Differs
<1>3. MatchOK' /\ ~Walked'
  BY <1>1 DEF MatchOK, Walked, FreshPc, ListPc, EntryPc, AsidePc, UsedPc
<1> QED BY <1>1, <1>2, <1>3, CleanupKnown, PassKeeps DEF ListPc, EntryPc, UsedPc

\* The directory is removed
LEMMA CleanupWorkspaceCopies == IInv /\ KInv /\ CleanupWorkspace => KInv'
<1> SUFFICES ASSUME IInv, KInv, CleanupWorkspace PROVE KInv'
  OBVIOUS
<1>1. PICK removed \in BOOLEAN : ws' = Cleanup(ws, removed)
  BY DEF CleanupWorkspace
<1>2. pc = "cleanup" /\ pc' = "closed" /\ Workspace(ws) /\ UNCHANGED <<environment, walk>>
  BY DEF CleanupWorkspace, IInv, Attempted
<1>3. Differs(ws, ws', {"cleanup"}) /\ ws'.cleanup \in {"ok", "failed"}
  BY <1>1, <1>2, CleanupFields, CleanupValue
<1>4. Differs(ws, ws', {"snapshot", "commit", "tree", "tracked", "refusals", "exceeded", "cleanup"})
  BY <1>3 DEF Differs
<1>5. MatchOK' /\ ~Walked'
  BY <1>2 DEF MatchOK, Walked, FreshPc, ListPc, EntryPc, AsidePc
<1> QED BY <1>2, <1>3, <1>4, <1>5, PassKeeps DEF ListPc, EntryPc, UsedPc

----------------------------------------------------------------------------
(***************************************************************************)
(* Steps of the walk                                                       *)
(***************************************************************************)
\* The listings as a sequence
LEMMA FramesAre ==
    ASSUME IInv, pc \in ListPc
    PROVE  /\ frames \in Seq(Listing) /\ Len(frames) \in Nat \ {0} /\ DOMAIN frames = 1..Len(frames)
           /\ Top = frames[Len(frames)] /\ \A i \in DOMAIN frames : frames[i] \in Listing
BY DEF IInv, Walking, ListPc, Top

\* A new listing of directory d
LEMMA FrameFields ==
    ASSUME NEW d
    PROVE  /\ Frame(d).dir = d /\ Frame(d).stat.stamp = live[d].stamp
           /\ Frame(d).present = Children(live, d) /\ Frame(d).visited = {}
BY DEF Frame, Meta

\* It starts right
LEMMA FrameStarts ==
    ASSUME KInv, UNCHANGED environment, pc' = "list", NEW d \in Dirs, NEW i \in Nat, frames'[i] = Frame(d),
           Depth(d) = i - 1, i <= MaxDepth + 1, IF i = 1 THEN d = Root ELSE d # Root /\ d \in DOMAIN entries',
           In(d)' = {}
    PROVE  FrameOK(i)'
<1>1. UNCHANGED <<live, listed, clock>>
  BY DEF environment
<1>2. Children(live, d) \in listed[d] /\ live[d].stamp <= clock
  BY DEF KInv, SourceOK, Paths
<1>3. \A p \in Children(live, d) : Parent[p] = d /\ p # Root
  BY DEF Children
<1> DEFINE f == Frame(d)
<1>4. f.dir = d /\ f.stat.stamp = live[d].stamp /\ f.present = Children(live, d) /\ f.visited = {}
  BY FrameFields
<1> HIDE DEF f
<1>5. frames'[i] = f
  BY DEF f
<1>6. Children(live', d) = Children(live, d)
  BY <1>1 DEF Children
<1> QED BY <1>1, <1>2, <1>3, <1>4, <1>5, <1>6 DEF FrameOK, Pending, EntryPc

\* A listing that the step does not touch
LEMMA FrameStays ==
    ASSUME UNCHANGED environment, NEW i, FrameOK(i), frames'[i] = frames[i],
           In(frames[i].dir)' = In(frames[i].dir), Pending(i)' = Pending(i),
           frames[i].dir \in DOMAIN entries => frames[i].dir \in DOMAIN entries'
    PROVE  FrameOK(i)'
<1>1. UNCHANGED <<live, listed, clock>>
  BY DEF environment
<1>2. \A d : Children(live', d) = Children(live, d)
  BY <1>1 DEF Children
<1> QED BY <1>1, <1>2 DEF FrameOK

\* Directories being listed are at different depths
LEMMA FramesDiffer ==
    ASSUME IInv, KInv, NEW i \in DOMAIN frames, NEW j \in DOMAIN frames, i # j
    PROVE  frames[i].dir # frames[j].dir
<1>1. i \in Int /\ j \in Int
  BY DEF IInv, Walking
<1>2. Depth(frames[i].dir) = i - 1 /\ Depth(frames[j].dir) = j - 1
  BY DEF KInv, FramesOK, FrameOK
<1> QED BY <1>1, <1>2

\* The trees on disk when the walk writes one
LEMMA WalkDisk ==
    ASSUME KInv, pc \notin UsedPc, pc' \in ListPc \cup {"compare", "finish"}, kind' = kind,
           kind = "git" => ws'.copy = ws.copy, kind # "git" => ws'.comparison = ws.comparison,
           ws'.exported = ws.exported, ws'.cleanup = ws.cleanup,
           Tidy(Written'), Size(Written') <= MaxTotal, Tidy(entries')
    PROVE  DiskOK'
<1>1. /\ Tidy(ws.copy) /\ Tidy(ws.comparison) /\ Tidy(ws.exported)
      /\ ws.cleanup \in {"not_started", "ok", "failed"}
  BY DEF KInv, DiskOK
<1>2. Size(ws.copy) <= MaxTotal /\ Size(ws.comparison) <= MaxTotal
  BY DEF KInv, DiskOK, DiskWithinBudget, UsedPc
<1>3. Written' = IF kind = "git" THEN ws'.comparison ELSE ws'.copy
  BY DEF Written
<1>4. Tidy(ws'.copy) /\ Tidy(ws'.comparison) /\ Tidy(ws'.exported)
  BY <1>1, <1>3
<1>5. Size(ws'.copy) <= MaxTotal /\ Size(ws'.comparison) <= MaxTotal
  BY <1>2, <1>3
<1> QED BY <1>1, <1>4, <1>5 DEF DiskOK, DiskWithinBudget, ListPc, EntryPc

\* Writing the tree the walk is at
LEMMA WriteFields ==
    ASSUME Workspace(ws), NEW m, ws' = Write(ws, m), kind' = kind
    PROVE  /\ Written' = m /\ (kind = "git" => ws'.copy = ws.copy) /\ (kind # "git" => ws'.comparison = ws.comparison)
           /\ ws'.exported = ws.exported /\ ws'.cleanup = ws.cleanup
<1>1. CASE kind = "git"
  <2>1. ws' = [ws EXCEPT !.comparison = m]
    BY <1>1 DEF Write
  <2>2. Differs(ws, ws', {"comparison"}) /\ ws'.comparison = m
    BY <2>1, AssignComparison
  <2> QED BY <1>1, <2>2 DEF Differs, Written
<1>2. CASE kind # "git"
  <2>1. ws' = [ws EXCEPT !.copy = m]
    BY <1>2 DEF Write
  <2>2. Differs(ws, ws', {"copy"}) /\ ws'.copy = m
    BY <2>1, AssignCopy
  <2> QED BY <1>2, <2>2 DEF Differs, Written
<1> QED BY <1>1, <1>2

\* What the walk has written so far
LEMMA WrittenIs ==
    ASSUME IInv, KInv, pc \in ListPc
    PROVE  Tidy(Written) /\ Tidy(entries) /\ Size(Written) \in Nat /\ Size(Written) <= MaxTotal
<1>1. Tidy(Written) /\ Tidy(entries)
  BY DEF KInv, DiskOK, Written
<1>2. Size(Written) <= MaxTotal
  BY DEF KInv, DiskOK, DiskWithinBudget, ListPc, EntryPc, Written
<1> QED BY <1>1, <1>2, ChunksFinite

\* During the walk nothing is published
LEMMA WalkMatches ==
    ASSUME pc' \in ListPc \cup {"compare"} \/ (pc' = "finish" /\ kind' # "git") PROVE MatchOK'
BY DEF MatchOK, ListPc, EntryPc, FreshPc

\* The walk begins
LEMMA WalkBeginCopies == IInv /\ KInv /\ WalkBegin => KInv'
<1> SUFFICES ASSUME IInv, KInv, WalkBegin PROVE KInv'
  OBVIOUS
<1>1. /\ pc = "walk" /\ frames' = <<Frame(Root)>> /\ entries' = <<>> /\ pc' = "list"
      /\ count' = [files |-> 0, dirs |-> 1, paths |-> 0, total |-> 0]
      /\ UNCHANGED <<ws, environment, kind>>
  BY DEF WalkBegin
<1>2. SourceOK' /\ MatchOK'
  BY <1>1, SourceStays, WalkMatches DEF KInv, ListPc
<1>3. DOMAIN frames' = {1} /\ frames'[1] = Frame(Root) /\ DOMAIN entries' = {}
  BY <1>1
<1>4. FramesOK'
  <2>1. Depth(Root) = 0
    BY PathsAreATree, FS_EmptySet DEF Depth
  <2>2. In(Root)' = {}
    BY <1>3 DEF In
  <2>3. FrameOK(1)'
    BY <1>1, <1>3, <2>1, <2>2, FrameStarts, SnapshotConstants
  <2> QED BY <1>1, <1>3, <2>3 DEF FramesOK, ListPc, EntryPc, ReadPc
<1>5. EntriesOK'
  <2>1. Frame(Root).dir = Root
    BY FrameFields
  <2> QED BY <1>3, <2>1 DEF EntriesOK, Open
<1>6. ReadOK'
  BY <1>1 DEF ReadOK, ReadPc
<1>7. Written' = <<>>
  BY <1>1 DEF KInv, DiskOK, Written
<1>8. CountOK'
  BY <1>1, <1>7, EmptyTree, SnapshotConstants DEF CountOK, ReadPc
<1>9. DiskOK'
  BY <1>1, <1>7, EmptyTree, WalkDisk, SnapshotConstants DEF UsedPc, ListPc
<1> QED BY <1>2, <1>4, <1>5, <1>6, <1>8, <1>9 DEF KInv

\* Marking a name in the innermost listing
LEMMA VisitFields ==
    ASSUME IInv, pc \in ListPc, NEW p, frames' = Visit(p)
    PROVE  /\ DOMAIN frames' = DOMAIN frames /\ Len(frames') = Len(frames)
           /\ \A i \in DOMAIN frames : i # Len(frames) => frames'[i] = frames[i]
           /\ frames'[Len(frames)].dir = Top.dir /\ frames'[Len(frames)].stat = Top.stat
           /\ frames'[Len(frames)].present = Top.present
           /\ frames'[Len(frames)].visited = Top.visited \cup {p}
<1> DEFINE n == Len(frames)
           f == [frames[n] EXCEPT !.visited = @ \cup {p}]
<1>1. /\ frames \in Seq(Listing) /\ n \in DOMAIN frames /\ frames[n] \in Listing /\ Top = frames[n]
      /\ DOMAIN frames = 1..n
  BY FramesAre
<1>2. /\ f.dir = Top.dir /\ f.stat = Top.stat /\ f.present = Top.present
      /\ f.visited = Top.visited \cup {p}
  BY <1>1 DEF Listing
<1>3. frames' = [frames EXCEPT ![n] = f]
  BY DEF Visit
<1> HIDE DEF f
<1>4. DOMAIN frames' = 1..n /\ frames'[n] = f /\ \A i \in DOMAIN frames : i # n => frames'[i] = frames[i]
  BY <1>1, <1>3
<1>5. Len(frames') = n
  BY <1>1, <1>3
<1> QED BY <1>1, <1>2, <1>4, <1>5

\* The budget of a directory, and of a file
LEMMA RefusalMeans ==
    ASSUME NEW p
    PROVE  /\ DirRefusal(p) = NULL => ~(Depth(p) > MaxDepth) /\ ~(count.dirs + 1 > MaxDirs)
           /\ FileRefusal(p) = NULL => ~(count.total + Len(live[p].data) > MaxTotal)
<1>1. NULL \notin {"max_depth", "max_directory_count", "max_file_bytes", "max_total_bytes"}
  BY TreesAreFinite DEF BudgetReasons
<1> QED BY <1>1 DEF DirRefusal, FileRefusal

\* What ListEntry does with a name: refuses it, skips it or enters it
LEMMA ListEntryCases ==
    ASSUME IInv, KInv, pc = "list", NEW p \in Paths, ListEntry(p)
    PROVE  \/ \E reason : Refuse(reason)
           \/ /\ frames' = Visit(p) /\ pc' = "list" /\ p \in Excluded
              /\ count' \in [files : 0..MaxFiles, dirs : 0..MaxDirs, paths : 0..MaxPaths, total : Nat]
              /\ count'.total = count.total /\ UNCHANGED <<ws, kind, entries, environment>>
           \/ /\ frames' = Visit(p) /\ p \notin Excluded
              /\ \/ pc' = "opendir" /\ live[p].kind = "dir" /\ ~(Depth(p) > MaxDepth)
                 \/ /\ pc' = "open" /\ live[p].kind = "file"
                    /\ ~(count.total + Len(live[p].data) > MaxTotal)
              /\ cur' = [path |-> p, before |-> Meta(live[p]), fd |-> live[p], got |-> <<>>, again |-> <<>>,
                         after |-> NULL]
              /\ count' \in [files : 0..MaxFiles, dirs : 0..MaxDirs, paths : 0..MaxPaths, total : Nat]
              /\ count'.total = count.total /\ UNCHANGED <<ws, kind, entries, environment>>
<1> DEFINE CountType == [files : 0..MaxFiles, dirs : 0..MaxDirs, paths : 0..MaxPaths, total : Nat]
           seenPath == [count EXCEPT !.paths = @ + 1]
           seenFile == [seenPath EXCEPT !.files = @ + 1]
           seenDir == [seenPath EXCEPT !.dirs = @ + 1]
           entered == [path |-> p, before |-> Meta(live[p]), fd |-> live[p], got |-> <<>>, again |-> <<>>,
                       after |-> NULL]
<1>1. count \in CountType /\ live[p].kind \in Kinds
  BY DEF KInv, CountOK, IInv, Environment, Node
<1>2. seenPath.paths = count.paths + 1 /\ seenFile.files = count.files + 1
  BY <1>1
<1>3. RegisterManifestPath(seenPath.paths) =>
        /\ seenPath \in CountType /\ seenPath.total = count.total /\ seenPath.dirs = count.dirs
        /\ RegisterFileExamined(seenFile.files) => seenFile \in CountType /\ seenFile.total = count.total
        /\ ~(count.dirs + 1 > MaxDirs) => seenDir \in CountType /\ seenDir.total = count.total
  <2> SUFFICES ASSUME RegisterManifestPath(seenPath.paths)
               PROVE  /\ seenPath \in CountType /\ seenPath.total = count.total /\ seenPath.dirs = count.dirs
                      /\ RegisterFileExamined(seenFile.files) =>
                            seenFile \in CountType /\ seenFile.total = count.total
                      /\ ~(count.dirs + 1 > MaxDirs) => seenDir \in CountType /\ seenDir.total = count.total
    OBVIOUS
  <2>1. count.paths + 1 \in 0..MaxPaths
    BY <1>1, <1>2, SnapshotConstants DEF RegisterManifestPath
  <2>2. /\ seenPath \in CountType /\ seenPath.total = count.total /\ seenPath.dirs = count.dirs
        /\ seenPath.files = count.files
    BY <1>1, <2>1
  <2>3. RegisterFileExamined(seenFile.files) => count.files + 1 \in 0..MaxFiles
    BY <1>1, <1>2, SnapshotConstants DEF RegisterFileExamined
  <2>4. ~(count.dirs + 1 > MaxDirs) => count.dirs + 1 \in 0..MaxDirs
    BY <1>1, SnapshotConstants
  <2> HIDE DEF seenPath
  <2>5. count.files + 1 \in 0..MaxFiles => seenFile \in CountType /\ seenFile.total = count.total
    BY <2>2
  <2>6. count.dirs + 1 \in 0..MaxDirs => seenDir \in CountType /\ seenDir.total = count.total
    BY <2>2
  <2> QED BY <2>2, <2>3, <2>4, <2>5, <2>6
<1> HIDE DEF CountType, seenPath, seenFile, seenDir, entered
<1>4. \/ \E reason : Refuse(reason)
      \/ /\ RegisterManifestPath(seenPath.paths) /\ p \in Excluded /\ frames' = Visit(p) /\ pc' = pc
         /\ count' = seenPath \/ (RegisterFileExamined(seenFile.files) /\ count' = seenFile)
         /\ UNCHANGED <<ws, kind, entries, environment>>
      \/ /\ RegisterManifestPath(seenPath.paths) /\ p \notin Excluded /\ frames' = Visit(p) /\ cur' = entered
         /\ \/ pc' = "opendir" /\ live[p].kind = "dir" /\ DirRefusal(p) = NULL /\ count' = seenDir
            \/ /\ pc' = "open" /\ live[p].kind = "file" /\ FileRefusal(p) = NULL
               /\ RegisterFileExamined(seenFile.files) /\ count' = seenFile
         /\ UNCHANGED <<ws, kind, entries, environment>>
  <2>1. CASE ~RegisterManifestPath(seenPath.paths) \/ live[p].kind \in {"none", "link", "special"}
    <3>1. CASE ~RegisterManifestPath(seenPath.paths)
      BY <3>1 DEF ListEntry, seenPath
    <3>2. CASE RegisterManifestPath(seenPath.paths) /\ live[p].kind = "none"
      BY <3>2 DEF ListEntry, seenPath
    <3>3. CASE RegisterManifestPath(seenPath.paths) /\ live[p].kind = "link"
      BY <3>3 DEF ListEntry, seenPath
    <3>4. CASE RegisterManifestPath(seenPath.paths) /\ live[p].kind = "special"
      BY <3>4 DEF ListEntry, seenPath
    <3> QED BY <2>1, <3>1, <3>2, <3>3, <3>4
  <2>2. CASE RegisterManifestPath(seenPath.paths) /\ live[p].kind = "dir"
    <3>1. CASE p \in Excluded
      BY <2>2, <3>1 DEF ListEntry, seenPath
    <3>2. CASE p \notin Excluded
      BY <2>2, <3>2 DEF ListEntry, seenPath, seenDir, entered
    <3> QED BY <3>1, <3>2
  <2>3. CASE RegisterManifestPath(seenPath.paths) /\ live[p].kind = "file"
    <3>1. CASE ~RegisterFileExamined(seenFile.files)
      BY <2>3, <3>1 DEF ListEntry, seenPath, seenFile
    <3>2. CASE RegisterFileExamined(seenFile.files) /\ p \in Excluded
      BY <2>3, <3>2 DEF ListEntry, seenPath, seenFile
    <3>3. CASE RegisterFileExamined(seenFile.files) /\ p \notin Excluded
      BY <2>3, <3>3 DEF ListEntry, seenPath, seenFile, entered
    <3> QED BY <3>1, <3>2, <3>3
  <2> QED BY <1>1, <2>1, <2>2, <2>3 DEF Kinds
<1>5. (DirRefusal(p) = NULL => ~(Depth(p) > MaxDepth) /\ ~(count.dirs + 1 > MaxDirs))
      /\ (FileRefusal(p) = NULL => ~(count.total + Len(live[p].data) > MaxTotal))
  BY RefusalMeans
<1> QED BY <1>3, <1>4, <1>5 DEF CountType, entered

\* A name is marked: the listing's entries are as before
LEMMA VisitKeeps ==
    ASSUME IInv, KInv, pc = "list", NEW p \in (Children(live, Top.dir) \cup Top.present) \ Top.visited,
           frames' = Visit(p), UNCHANGED <<entries, environment>>,
           \/ p \in Excluded /\ pc' = "list"
           \/ p \notin Excluded /\ pc' \in {"opendir", "open"} /\ cur'.path = p,
           pc' = "opendir" => p \in Dirs /\ Depth(p) <= MaxDepth,
           pc' = "open" => p \in Files
    PROVE  FramesOK' /\ EntriesOK'
<1>0. PICK n : n = Len(frames)
  OBVIOUS
<1> DEFINE g == frames'[n]
<1>1. n = Len(frames) /\ n \in Nat \ {0} /\ DOMAIN frames = 1..n /\ Top = frames[n] /\ n \in DOMAIN frames
  BY <1>0, FramesAre DEF ListPc
<1>2. /\ DOMAIN frames' = DOMAIN frames /\ Len(frames') = n
      /\ \A i \in DOMAIN frames : i # n => frames'[i] = frames[i]
      /\ g.dir = Top.dir /\ g.stat = Top.stat /\ g.present = Top.present /\ g.visited = Top.visited \cup {p}
  BY <1>0, VisitFields DEF ListPc
<1>3. UNCHANGED <<live, listed, clock, seen>> /\ \A d : In(d)' = In(d)
  BY DEF environment, In
<1>4. \A i \in DOMAIN frames : FrameOK(i) /\ Pending(i) = {}
  BY DEF KInv, FramesOK, Pending, EntryPc
<1>5. \A i \in DOMAIN frames : i # n => FrameOK(i)'
  <2> SUFFICES ASSUME NEW i \in DOMAIN frames, i # n PROVE FrameOK(i)'
    OBVIOUS
  <2>1. Pending(i)' = {}
    BY <1>2 DEF Pending
  <2> QED BY <1>2, <1>3, <1>4, <2>1, FrameStays
<1>6. FrameOK(n)'
  <2> DEFINE f == frames[n]
  <2>0. PICK d : d = f.dir
    OBVIOUS
  <2>1. FrameOK(n) /\ Pending(n) = {}
    BY <1>1, <1>4
  <2>2. Parent[p] = d /\ p # Root
    BY <1>1, <2>0, <2>1 DEF FrameOK, Children
  <2>3. live[d].stamp = f.stat.stamp => p \in f.present
    BY <1>1, <2>0, <2>1 DEF FrameOK
  <2>4. p \notin In(d)
    BY <1>1, <2>0, <2>1 DEF FrameOK
  <2>5. In(d) = ((f.visited \cup {p}) \ Excluded) \ Pending(n)'
    <3>1. In(d) = f.visited \ Excluded
      BY <2>0, <2>1 DEF FrameOK
    <3>2. CASE p \in Excluded /\ pc' = "list"
      BY <3>1, <3>2 DEF Pending, EntryPc
    <3>3. CASE p \notin Excluded /\ pc' \in {"opendir", "open"} /\ cur'.path = p
      <4>1. Pending(n)' = {p}
        BY <1>2, <3>3 DEF Pending, EntryPc
      <4> QED BY <2>4, <3>1, <3>3, <4>1
    <3> QED BY <3>2, <3>3
  <2>6. g.dir = d /\ g.stat = f.stat /\ g.present = f.present /\ g.visited = f.visited \cup {p}
    BY <1>1, <1>2, <2>0
  <2>7. Children(live', d) = Children(live, d)
    BY <1>3 DEF Children
  <2> HIDE DEF g, f
  <2>8. /\ d \in Dirs /\ Depth(d) = n - 1 /\ n <= MaxDepth + 1
        /\ IF n = 1 THEN d = Root ELSE d # Root /\ d \in DOMAIN entries
        /\ f.present \in listed[d] /\ f.stat.stamp <= clock
        /\ \A q \in f.present \cup f.visited : Parent[q] = d /\ q # Root
        /\ live[d].stamp = f.stat.stamp => Children(live, d) = f.present /\ f.visited \subseteq f.present
    BY <2>0, <2>1 DEF FrameOK, f
  <2>9. In(d)' = In(d)
    BY <1>3
  <2> QED BY <1>3, <2>2, <2>3, <2>5, <2>6, <2>7, <2>8, <2>9 DEF FrameOK, g
<1>7. FramesOK'
  <2>1. \A i \in DOMAIN frames' : FrameOK(i)'
    BY <1>2, <1>5, <1>6
  <2>2. (Top.visited)' = Top.visited \cup {p}
    BY <1>2 DEF Top
  <2> QED BY <2>1, <2>2 DEF FramesOK, ListPc, EntryPc, ReadPc
<1>8. EntriesOK'
  <2>1. \A d : Open(d) => Open(d)'
    BY <1>1, <1>2 DEF Open
  <2>2. \A d : Settled(d) => Settled(d)'
    BY <1>3 DEF Settled
  <2> QED BY <1>3, <2>1, <2>2 DEF KInv, EntriesOK, Walked, ListPc
<1> QED BY <1>7, <1>8

\* A name is skipped, entered or refused
LEMMA ListNextCopies == IInv /\ KInv /\ ListNext => KInv'
<1> SUFFICES ASSUME IInv, KInv, ListNext PROVE KInv'
  OBVIOUS
<1>1. PICK p \in (Children(live, Top.dir) \cup Top.present) \ Top.visited : ListEntry(p)
  BY DEF ListNext
<1>2. pc = "list" /\ pc \in WorkPc /\ pc \in ListPc /\ pc \notin UsedPc
  BY DEF ListNext, WorkPc, WalkPc, ListPc, UsedPc
<1>3. Top \in Listing
  BY <1>2, FramesAre
<1>4. p \in Paths
  BY <1>1, <1>3 DEF Listing, Children
<1> DEFINE entered == [path |-> p, before |-> Meta(live[p]), fd |-> live[p], got |-> <<>>, again |-> <<>>,
                       after |-> NULL]
           CountType == [files : 0..MaxFiles, dirs : 0..MaxDirs, paths : 0..MaxPaths, total : Nat]
<1>5. \/ \E reason : Refuse(reason)
      \/ /\ frames' = Visit(p) /\ pc' = "list" /\ p \in Excluded /\ count' \in CountType
         /\ count'.total = count.total /\ UNCHANGED <<ws, kind, entries, environment>>
      \/ /\ frames' = Visit(p) /\ p \notin Excluded
         /\ \/ pc' = "opendir" /\ live[p].kind = "dir" /\ ~(Depth(p) > MaxDepth)
            \/ /\ pc' = "open" /\ live[p].kind = "file"
               /\ ~(count.total + Len(live[p].data) > MaxTotal)
         /\ cur' = entered /\ count' \in CountType
         /\ count'.total = count.total /\ UNCHANGED <<ws, kind, entries, environment>>
  BY <1>1, <1>2, <1>4, ListEntryCases
<1>6. /\ entered.path = p /\ entered.got = <<>> /\ entered.again = <<>>
      /\ entered.before.stamp = live[p].stamp /\ entered.before.ino = live[p].ino
      /\ entered.before.size = Len(live[p].data)
  BY DEF Meta
<1>7. Tidy(Written) /\ Tidy(entries) /\ Size(Written) \in Nat /\ Size(Written) <= MaxTotal
  BY <1>2, WrittenIs
<1>8. /\ Size(Written) <= count.total /\ count.total <= MaxTotal /\ count.total \in Nat
      /\ Len(live[p].data) \in Nat
  BY <1>2, <1>4 DEF KInv, CountOK, IInv, Environment, Node
<1> HIDE DEF entered
<1>9. CASE \E reason : Refuse(reason)
  BY <1>2, <1>9, RefuseHereInWalk
<1>10. CASE /\ frames' = Visit(p) /\ pc' \in {"list", "opendir", "open"} /\ count' \in CountType
            /\ count'.total = count.total /\ UNCHANGED <<ws, kind, entries, environment>>
            /\ \/ p \in Excluded /\ pc' = "list"
               \/ p \notin Excluded /\ pc' \in {"opendir", "open"} /\ cur' = entered
            /\ pc' = "opendir" => live[p].kind = "dir" /\ ~(Depth(p) > MaxDepth)
            /\ pc' = "open" => live[p].kind = "file" /\ ~(count.total + Len(live[p].data) > MaxTotal)
  <2>1. SourceOK' /\ MatchOK'
    BY <1>10, SourceStays, WalkMatches DEF KInv, ListPc, EntryPc
  <2>2. pc' = "opendir" => p \in Dirs /\ Depth(p) <= MaxDepth
    <3>1. p # Root /\ IsFiniteSet(Above[p])
      <4>1. p # Root
        BY <1>1, <1>2, FramesAre DEF KInv, FramesOK, FrameOK, Children
      <4> QED BY <1>4, <4>1, PathsAreATree
    <3>2. Depth(p) \in Nat
      BY <3>1, FS_CardinalityType DEF Depth
    <3> QED BY <1>4, <1>10, <3>2, SnapshotConstants DEF KInv, SourceOK
  <2>3. pc' = "open" => p \in Files
    BY <1>4, <1>10 DEF KInv, SourceOK
  <2>4. FramesOK' /\ EntriesOK'
    BY <1>1, <1>2, <1>6, <1>10, <2>2, <2>3, VisitKeeps
  <2>5. ReadOK'
    <3>1. live[p].stamp <= clock /\ live[p].ino < 2 + edits /\ clock' = clock /\ edits' = edits
      BY <1>4, <1>10 DEF KInv, SourceOK, environment
    <3> QED BY <1>6, <1>10, <3>1 DEF ReadOK, ReadPc
  <2>6. Written' = Written
    BY <1>10 DEF Written
  <2>7. CountOK'
    <3>1. pc' \in {"list", "opendir", "open"} /\ count' \in CountType /\ count'.total = count.total
      BY <1>10
    <3>2. Size(Written)' = Size(Written)
      BY <2>6
    <3> HIDE DEF CountType
    <3>3. pc' \in {"list", "opendir"} => Size(Written)' <= count'.total /\ count'.total <= MaxTotal
      BY <1>8, <3>1, <3>2
    <3>4. ASSUME pc' = "open"
          PROVE  /\ Size(Written)' <= count'.total + Len(cur'.got) /\ Len(cur'.got) <= cur'.before.size
                 /\ count'.total + cur'.before.size <= MaxTotal
      <4>1. cur'.got = <<>> /\ cur'.before.size = Len(live[p].data)
        BY <1>6, <1>10, <3>4
      <4>2. Len(cur'.got) = 0
        BY <4>1
      <4>3. ~(count.total + Len(live[p].data) > MaxTotal) /\ MaxTotal \in Nat /\ Size(Written) \in Nat
        BY <1>7, <1>10, <3>4, SnapshotConstants
      <4> QED BY <1>8, <3>1, <3>2, <4>1, <4>2, <4>3
    <3>5. pc' \in ReadPc => pc' = "open"
      BY <3>1 DEF ReadPc
    <3> QED BY <3>1, <3>3, <3>4, <3>5 DEF CountOK, CountType
  <2>8. DiskOK'
    BY <1>2, <1>7, <1>10, <2>6, WalkDisk DEF ListPc, EntryPc
  <2> QED BY <2>1, <2>4, <2>5, <2>7, <2>8 DEF KInv
<1> QED BY <1>5, <1>9, <1>10

\* A listing ends: unless its directory changed, it has the names the directory had
LEMMA ListEndCopies == IInv /\ KInv /\ ListEnd => KInv'
<1> SUFFICES ASSUME IInv, KInv, ListEnd PROVE KInv'
  OBVIOUS
<1>1. pc = "list" /\ pc \in WorkPc /\ pc \in ListPc /\ pc \notin UsedPc
  BY DEF ListEnd, WorkPc, WalkPc, ListPc, UsedPc
<1>2. CASE Top.stat.stamp # live[Top.dir].stamp
  BY <1>1, <1>2, RefuseHereInWalk DEF ListEnd
<1>3. CASE Top.stat.stamp = live[Top.dir].stamp
  <2>0. PICK n, d : n = Len(frames) /\ d = Top.dir
    OBVIOUS
  <2>1. n \in Nat \ {0} /\ DOMAIN frames = 1..n /\ Top = frames[n] /\ frames \in Seq(Listing)
    BY <1>1, <2>0, FramesAre
  <2>2. /\ frames' = SubSeq(frames, 1, n - 1)
        /\ pc' = IF n > 1 THEN "list" ELSE IF kind = "git" THEN "compare" ELSE "finish"
        /\ UNCHANGED <<ws, kind, cur, entries, count, environment>>
        /\ Top.present \cap Children(live, Top.dir) \subseteq Top.visited
    BY <1>3, <2>0 DEF ListEnd
  <2>3. DOMAIN frames' = 1..(n - 1) /\ \A i \in 1..(n - 1) : frames'[i] = frames[i]
    BY <2>1, <2>2
  <2>4. FrameOK(n) /\ \A i \in 1..(n - 1) : FrameOK(i)
    BY <2>1 DEF KInv, FramesOK
  <2>5. UNCHANGED <<live, listed, clock, seen>> /\ \A e : In(e)' = In(e)
    BY <2>2 DEF environment, In
  <2>6. \E names \in listed[d] : names \ Excluded = In(d)
    <3>1. Top.visited = Top.present /\ Top.present \in listed[d] /\ In(d) = Top.visited \ Excluded
      <4>1. /\ Top.present \in listed[d] /\ In(d) = (Top.visited \ Excluded) \ Pending(n)
            /\ Children(live, d) = Top.present /\ Top.visited \subseteq Top.present
        BY <1>3, <2>0, <2>1, <2>4 DEF FrameOK
      <4>2. Pending(n) = {}
        BY <1>1 DEF Pending, EntryPc
      <4> QED BY <2>0, <2>2, <4>1, <4>2
    <3> QED BY <3>1
  <2>7. pc' \in {"list", "compare", "finish"} /\ (pc' = "finish" => kind' # "git")
    BY <2>2
  <2>8. SourceOK' /\ MatchOK'
    BY <2>2, <2>7, SourceStays, WalkMatches DEF KInv, ListPc
  <2>9. FramesOK'
    <3>1. ASSUME NEW i \in 1..(n - 1) PROVE FrameOK(i)'
      <4>1. Pending(i) = {} /\ Pending(i)' = {}
        BY <1>1, <2>7 DEF Pending, EntryPc
      <4> QED BY <2>2, <2>3, <2>4, <2>5, <4>1, FrameStays
    <3>2. pc' \notin ListPc => frames' = <<>>
      <4> SUFFICES ASSUME pc' \notin ListPc PROVE frames' = <<>>
        OBVIOUS
      <4>1. n = 1
        BY <2>1, <2>2 DEF ListPc
      <4> QED BY <2>1, <2>2, <4>1
    <3> QED BY <2>3, <2>7, <3>1, <3>2 DEF FramesOK, EntryPc, ReadPc
  <2>10. EntriesOK'
    <3>1. ASSUME NEW e, Open(e), e # d PROVE Open(e)'
      <4>1. PICK i \in DOMAIN frames : frames[i].dir = e
        BY <3>1 DEF Open
      <4>2. i \in 1..(n - 1)
        BY <2>0, <2>1, <3>1, <4>1
      <4> QED BY <2>3, <4>1, <4>2 DEF Open
    <3>2. Settled(d)' /\ \A e : Settled(e) => Settled(e)'
      BY <2>5, <2>6 DEF Settled
    <3>3. Walked /\ entries' = entries /\ seen' = seen
      BY <1>1, <2>2, <2>5 DEF Walked
    <3> QED BY <3>1, <3>2, <3>3 DEF KInv, EntriesOK
  <2>11. ReadOK'
    BY <2>7 DEF ReadOK, ReadPc
  <2>12. Tidy(Written) /\ Tidy(entries) /\ Size(Written) \in Nat /\ Size(Written) <= MaxTotal /\ Written' = Written
    BY <1>1, <2>2, WrittenIs DEF Written
  <2>13. CountOK'
    BY <1>1, <2>2, <2>7, <2>12 DEF KInv, CountOK, ReadPc
  <2>14. DiskOK'
    BY <1>1, <2>2, <2>7, <2>12, WalkDisk DEF ListPc, EntryPc
  <2> QED BY <2>8, <2>9, <2>10, <2>11, <2>13, <2>14 DEF KInv
<1> QED BY <1>2, <1>3

\* The entry in hand: where it is, and that it has no manifest entry yet
LEMMA InHand ==
    ASSUME IInv, KInv, pc \in EntryPc
    PROVE  /\ cur.path \in Paths \ {Root} /\ cur.path \notin DOMAIN entries /\ Parent[cur.path] = Top.dir
           /\ Top.dir \in Dirs /\ (Top.dir = Root \/ Top.dir \in DOMAIN entries)
           /\ Depth(cur.path) = Len(frames)
           /\ \A q \in DOMAIN entries : Parent[q] # cur.path
<1> DEFINE n == Len(frames)
           d == Top.dir
           p == cur.path
<1>1. n \in Nat \ {0} /\ n \in DOMAIN frames /\ Top = frames[n] /\ Top \in Listing
  BY FramesAre DEF ListPc
<1>2. FrameOK(n)
  BY <1>1 DEF KInv, FramesOK
<1>3. p \in Top.visited \ Excluded /\ p \in Paths
  BY <1>1 DEF KInv, FramesOK, Listing
<1>4. /\ d \in Dirs /\ Depth(d) = n - 1 /\ (d = Root \/ d \in DOMAIN entries) /\ Parent[p] = d /\ p # Root
      /\ In(d) = (Top.visited \ Excluded) \ Pending(n)
  BY <1>1, <1>2, <1>3 DEF FrameOK
<1>5. p \notin DOMAIN entries
  <2>1. Pending(n) = {p}
    BY DEF Pending
  <2>2. p \notin In(d)
    BY <1>4, <2>1
  <2> QED BY <1>4, <2>2 DEF In
<1>6. Depth(p) = n
  <2>1. Above[p] = {d} \cup Above[d] /\ d \notin Above[d] /\ IsFiniteSet(Above[p])
    BY <1>3, <1>4, PathsAreATree
  <2>2. IsFiniteSet(Above[d])
    BY <2>1, FS_Subset
  <2>3. Cardinality(Above[d] \cup {d}) = Cardinality(Above[d]) + 1
    BY <2>1, <2>2, FS_AddElement
  <2>4. Above[p] = Above[d] \cup {d}
    BY <2>1
  <2> QED BY <1>1, <1>4, <2>3, <2>4 DEF Depth
<1>7. \A q \in DOMAIN entries : Parent[q] # p
  BY <1>4, <1>5 DEF KInv, EntriesOK, Walked, ListPc
<1> QED BY <1>3, <1>4, <1>5, <1>6, <1>7

\* The entry in hand gets its place in the manifest: the listings that were open stay right, and the
\* names of the other directories are as before
LEMMA EntryArrives ==
    ASSUME IInv, KInv, pc \in EntryPc, pc' = "list", UNCHANGED environment, NEW e,
           entries' = Put(entries, cur.path, e),
           \A i \in DOMAIN frames : i \in DOMAIN frames' /\ frames'[i] = frames[i]
    PROVE  /\ \A i \in DOMAIN frames : FrameOK(i)'
           /\ DOMAIN entries' = DOMAIN entries \cup {cur.path}
           /\ \A q \in DOMAIN entries : entries'[q] = entries[q]
           /\ entries'[cur.path] = e
           /\ \A d : d # Top.dir => In(d)' = In(d)
           /\ \A d : Open(d) => Open(d)'
           /\ Open(Top.dir)
<1>0. PICK n, p, t : n = Len(frames) /\ p = cur.path /\ t = Top.dir
  OBVIOUS
<1>1. n \in Nat \ {0} /\ n \in DOMAIN frames /\ Top = frames[n] /\ DOMAIN frames = 1..n
  BY <1>0, FramesAre DEF ListPc
<1>2. p \in Paths \ {Root} /\ p \notin DOMAIN entries /\ Parent[p] = t
  BY <1>0, InHand
<1>3. /\ DOMAIN entries' = DOMAIN entries \cup {p} /\ entries'[p] = e
      /\ \A q \in DOMAIN entries : entries'[q] = entries[q]
  BY <1>0, <1>2 DEF Put
<1>4. In(t)' = In(t) \cup {p} /\ \A d : d # t => In(d)' = In(d)
  BY <1>2, <1>3 DEF In
<1>5. \A i \in DOMAIN frames : FrameOK(i)
  BY DEF KInv, FramesOK
<1>6. ASSUME NEW i \in DOMAIN frames, i # n PROVE FrameOK(i)'
  <2>1. frames[i].dir # t
    BY <1>0, <1>1, <1>6, FramesDiffer
  <2>2. Pending(i) = {} /\ Pending(i)' = {}
    BY <1>0, <1>6 DEF Pending, EntryPc
  <2>3. PICK d : d = frames[i].dir
    OBVIOUS
  <2>4. In(d)' = In(d)
    BY <1>4, <2>1, <2>3
  <2>5. In(frames[i].dir)' = In(frames[i].dir)
    BY <2>3, <2>4 DEF In
  <2> QED BY <1>3, <1>5, <2>2, <2>5, FrameStays
<1>7. FrameOK(n)'
  <2> DEFINE f == frames[n]
  <2>1. /\ f.dir = t /\ t \in Dirs /\ Depth(t) = n - 1 /\ n <= MaxDepth + 1
        /\ IF n = 1 THEN t = Root ELSE t # Root /\ t \in DOMAIN entries
        /\ f.present \in listed[t] /\ f.stat.stamp <= clock
        /\ \A q \in f.present \cup f.visited : Parent[q] = t /\ q # Root
        /\ live[t].stamp = f.stat.stamp => Children(live, t) = f.present /\ f.visited \subseteq f.present
        /\ In(t) = (f.visited \ Excluded) \ Pending(n)
    BY <1>0, <1>1, <1>5 DEF FrameOK
  <2>2. Pending(n) = {p} /\ Pending(n)' = {} /\ p \in f.visited \ Excluded
    BY <1>0, <1>1 DEF Pending, EntryPc, KInv, FramesOK
  <2>3. In(t)' = (f.visited \ Excluded) \ Pending(n)'
    BY <1>4, <2>1, <2>2
  <2>4. UNCHANGED <<live, listed, clock>>
    BY DEF environment
  <2>5. Children(live', t) = Children(live, t)
    BY <2>4 DEF Children
  <2>6. frames'[n] = f
    BY <1>1
  <2> HIDE DEF f
  <2> QED BY <1>3, <2>1, <2>3, <2>4, <2>5, <2>6 DEF FrameOK
<1>8. \A d : Open(d) => Open(d)'
  BY DEF Open
<1>9. Open(t)
  BY <1>0, <1>1 DEF Open
<1>10. \A i \in DOMAIN frames : FrameOK(i)'
  BY <1>6, <1>7
<1> QED BY <1>0, <1>3, <1>4, <1>8, <1>9, <1>10

\* A directory is entered
LEMMA OpenDirectoryCopies == IInv /\ KInv /\ OpenDirectory => KInv'
<1> SUFFICES ASSUME IInv, KInv, OpenDirectory PROVE KInv'
  OBVIOUS
<1>0. PICK n, p, t : n = Len(frames) /\ p = cur.path /\ t = Top.dir
  OBVIOUS
<1>1. pc = "opendir" /\ pc \in WorkPc /\ pc \in ListPc /\ pc \in EntryPc /\ pc \notin UsedPc /\ Workspace(ws)
  BY DEF OpenDirectory, WorkPc, WalkPc, ListPc, EntryPc, UsedPc, IInv, Attempted
<1>2. \/ \E reason : Refuse(reason)
      \/ /\ frames' = Append(frames, Frame(p)) /\ entries' = Put(entries, p, DirEntry)
         /\ ws' = Write(ws, Put(Written, p, DirEntry)) /\ pc' = "list"
         /\ UNCHANGED <<kind, count, environment>>
  BY <1>0 DEF OpenDirectory
<1>3. CASE \E reason : Refuse(reason)
  BY <1>1, <1>3, RefuseHereInWalk
<1>4. CASE /\ frames' = Append(frames, Frame(p)) /\ entries' = Put(entries, p, DirEntry)
           /\ ws' = Write(ws, Put(Written, p, DirEntry)) /\ pc' = "list"
           /\ UNCHANGED <<kind, count, environment>>
  <2>1. n \in Nat \ {0} /\ DOMAIN frames = 1..n /\ frames \in Seq(Listing)
    BY <1>0, <1>1, FramesAre
  <2>2. /\ DOMAIN frames' = 1..(n + 1) /\ frames'[n + 1] = Frame(p)
        /\ \A i \in 1..n : frames'[i] = frames[i]
    <3> DEFINE f == Frame(p)
    <3> HIDE DEF f
    <3>1. frames' = Append(frames, f)
      BY <1>4 DEF f
    <3>2. /\ DOMAIN frames' = 1..(n + 1) /\ frames'[n + 1] = f
          /\ \A i \in 1..n : frames'[i] = frames[i]
      BY <1>0, <2>1, <3>1
    <3> QED BY <3>2 DEF f
  <2>3. /\ p \in Paths \ {Root} /\ p \notin DOMAIN entries /\ Parent[p] = t /\ t \in Dirs
        /\ t = Root \/ t \in DOMAIN entries
        /\ Depth(p) = n /\ \A q \in DOMAIN entries : Parent[q] # p
    BY <1>0, <1>1, InHand
  <2>4. p \in Dirs /\ Depth(p) <= MaxDepth
    BY <1>0, <1>1 DEF KInv, FramesOK
  <2>5. /\ \A i \in DOMAIN frames : FrameOK(i)'
        /\ DOMAIN entries' = DOMAIN entries \cup {p}
        /\ \A q \in DOMAIN entries : entries'[q] = entries[q]
        /\ entries'[p] = DirEntry
        /\ \A d : d # t => In(d)' = In(d)
        /\ \A d : Open(d) => Open(d)'
        /\ Open(t)
    <3>1. \A i \in DOMAIN frames : i \in DOMAIN frames' /\ frames'[i] = frames[i]
      BY <2>1, <2>2
    <3>2. entries' = Put(entries, cur.path, DirEntry) /\ UNCHANGED environment
      BY <1>0, <1>4
    <3>3. /\ \A i \in DOMAIN frames : FrameOK(i)'
          /\ DOMAIN entries' = DOMAIN entries \cup {cur.path}
          /\ \A q \in DOMAIN entries : entries'[q] = entries[q]
          /\ entries'[cur.path] = DirEntry
          /\ \A d : d # Top.dir => In(d)' = In(d)
          /\ \A d : Open(d) => Open(d)'
          /\ Open(Top.dir)
      <4> HIDE DEF FrameOK, In, Open
      <4> QED BY <1>1, <1>4, <3>1, <3>2, EntryArrives
    <3> QED BY <1>0, <3>3, Zenon
  <2>6. SourceOK' /\ MatchOK' /\ UNCHANGED <<seen, listed>>
    BY <1>4, SourceStays, WalkMatches DEF KInv, ListPc, environment
  <2>7. FramesOK'
    <3>1. p # t
      <4>1. Depth(t) = n - 1
        BY <1>0, <1>1, <2>1, FramesAre DEF KInv, FramesOK, FrameOK
      <4> QED BY <2>1, <2>3, <4>1
    <3>2. In(p)' = {}
      BY <2>3, <2>5, <3>1 DEF In
    <3>3. FrameOK(n + 1)'
      BY <1>4, <2>1, <2>2, <2>3, <2>4, <2>5, <3>2, FrameStarts, SnapshotConstants
    <3>4. \A i \in DOMAIN frames' : FrameOK(i)'
      BY <2>1, <2>2, <2>5, <3>3
    <3> QED BY <1>4, <3>4 DEF FramesOK, ListPc, EntryPc, ReadPc
  <2>8. EntriesOK'
    <3>1. Walked
      BY <1>1 DEF Walked
    <3>2. \A q \in DOMAIN entries' : entries'[q].type = "file" => entries'[q].data \in seen'[q]
      BY <2>5, <2>6, <3>1, EntryFields DEF KInv, EntriesOK
    <3>3. \A q \in DOMAIN entries' : Parent[q] = Root \/ Parent[q] \in DOMAIN entries'
      BY <2>3, <2>5, <3>1 DEF KInv, EntriesOK
    <3>4. Open(p)'
      BY <2>1, <2>2, FrameFields DEF Open
    <3>5. ASSUME NEW d \in Dirs, d = Root \/ d \in DOMAIN entries' PROVE Open(d)' \/ Settled(d)'
      <4>1. CASE d = p \/ d = t
        BY <2>5, <3>4, <4>1
      <4>2. CASE d # p /\ d # t
        <5>1. Open(d) \/ Settled(d)
          BY <2>5, <3>1, <3>5, <4>2 DEF KInv, EntriesOK
        <5>2. Settled(d) => Settled(d)'
          BY <2>5, <2>6, <4>2 DEF Settled
        <5> QED BY <2>5, <5>1, <5>2
      <4> QED BY <4>1, <4>2
    <3> QED BY <3>2, <3>3, <3>5 DEF EntriesOK
  <2>9. ReadOK'
    BY <1>4 DEF ReadOK, ReadPc
  <2>10. Tidy(Written) /\ Tidy(entries) /\ Size(Written) \in Nat /\ Size(Written) <= MaxTotal
    BY <1>1, WrittenIs
  <2>11. /\ Tidy(Put(Written, p, DirEntry)) /\ Size(Put(Written, p, DirEntry)) <= Size(Written)
         /\ Tidy(entries')
    BY <1>4, <2>3, <2>10, PutTree, EntryFields
  <2>12. /\ Written' = Put(Written, p, DirEntry)
         /\ (kind = "git" => ws'.copy = ws.copy) /\ (kind # "git" => ws'.comparison = ws.comparison)
         /\ ws'.exported = ws.exported /\ ws'.cleanup = ws.cleanup
    BY <1>1, <1>4, WriteFields
  <2>13. Tidy(Written') /\ Size(Written') <= Size(Written) /\ Size(Written') \in Nat
    BY <2>11, <2>12, ChunksFinite
  <2>14. CountOK'
    BY <1>1, <1>4, <2>10, <2>13, SnapshotConstants DEF KInv, CountOK, ReadPc
  <2>15. DiskOK'
    <3>1. Size(Written') <= MaxTotal
      BY <2>10, <2>13, SnapshotConstants
    <3> QED BY <1>1, <1>4, <2>11, <2>12, <2>13, <3>1, WalkDisk DEF ListPc
  <2> QED BY <2>6, <2>7, <2>8, <2>9, <2>14, <2>15 DEF KInv
<1> QED BY <1>2, <1>3, <1>4

\* Reading: a prefix that is as long as the content is the content
LEMMA PrefixWhole ==
    ASSUME NEW s \in Seq(Chunk), NEW t \in Seq(Chunk), Prefix(s, t), ~(Len(s) < Len(t)) PROVE s = t
<1>1. Len(s) \in Nat /\ Len(t) \in Nat /\ Len(s) = Len(t)
  BY DEF Prefix
<1>2. \A k \in 1..Len(s) : s[k] = t[k]
  BY DEF Prefix
<1> QED BY <1>1, <1>2

\* A prefix grows by the next chunk, and nothing is a prefix of anything
LEMMA PrefixGrows ==
    ASSUME NEW s \in Seq(Chunk), NEW t \in Seq(Chunk)
    PROVE  /\ Prefix(<<>>, t)
           /\ Prefix(s, t) /\ Len(s) < Len(t) => Prefix(Append(s, t[Len(s) + 1]), t)
<1>1. Prefix(<<>>, t)
  BY DEF Prefix
<1>2. ASSUME Prefix(s, t), Len(s) < Len(t) PROVE Prefix(Append(s, t[Len(s) + 1]), t)
  <2> DEFINE x == t[Len(s) + 1]
             u == Append(s, x)
  <2>1. Len(s) \in Nat /\ Len(t) \in Nat
    OBVIOUS
  <2>2. Len(s) + 1 \in 1..Len(t)
    BY <1>2, <2>1
  <2>3. x \in Chunk
    BY <2>2
  <2>4. Len(u) = Len(s) + 1 /\ \A k \in 1..Len(u) : u[k] = IF k = Len(s) + 1 THEN x ELSE s[k]
    <3> HIDE DEF x
    <3> QED BY <2>1, <2>3
  <2> HIDE DEF u
  <2>5. \A k \in 1..Len(u) : u[k] = t[k]
    BY <1>2, <2>1, <2>4 DEF Prefix
  <2>6. Len(u) <= Len(t)
    BY <1>2, <2>1, <2>4
  <2>7. Prefix(u, t)
    BY <2>5, <2>6 DEF Prefix
  <2> QED BY <2>7 DEF u
<1> QED BY <1>1, <1>2

\* What a read would end with: at its start the content, at its end what it got, and no chunk that is
\* read changes it
LEMMA MendSteps ==
    ASSUME NEW s \in Seq(Chunk), NEW t \in Seq(Chunk)
    PROVE  /\ Mend(<<>>, t) = t
           /\ ~(Len(s) < Len(t)) => Mend(s, t) = s
           /\ Len(s) < Len(t) => Mend(Append(s, t[Len(s) + 1]), t) = Mend(s, t)
<1>1. Len(s) \in Nat /\ Len(t) \in Nat /\ DOMAIN s = 1..Len(s) /\ DOMAIN t = 1..Len(t)
      /\ s = [k \in 1..Len(s) |-> s[k]] /\ t = [k \in 1..Len(t) |-> t[k]]
  OBVIOUS
<1>2. Mend(<<>>, t) = t
  <2>1. Mend(<<>>, t) = [k \in 1..Len(t) |-> t[k]]
    BY <1>1 DEF Mend
  <2> QED BY <1>1, <2>1
<1>3. ASSUME ~(Len(s) < Len(t)) PROVE Mend(s, t) = s
  <2>1. Mend(s, t) = [k \in 1..Len(s) |-> s[k]]
    BY <1>1, <1>3 DEF Mend
  <2> QED BY <1>1, <2>1
<1>4. ASSUME Len(s) < Len(t) PROVE Mend(Append(s, t[Len(s) + 1]), t) = Mend(s, t)
  <2> DEFINE x == t[Len(s) + 1]
             u == Append(s, x)
  <2>1. Len(s) + 1 \in 1..Len(t)
    BY <1>1, <1>4
  <2>2. x \in Chunk
    BY <2>1
  <2>3. Len(u) = Len(s) + 1 /\ \A k \in 1..Len(u) : u[k] = IF k = Len(s) + 1 THEN x ELSE s[k]
    <3> HIDE DEF x
    <3> QED BY <1>1, <2>2
  <2> HIDE DEF u
  <2>4. Mend(u, t) = [k \in 1..Len(t) |-> IF k <= Len(u) THEN u[k] ELSE t[k]]
    <3>1. Len(u) \in Nat /\ Len(u) <= Len(t)
      BY <1>1, <1>4, <2>3
    <3>2. Len(u) < Len(t) \/ Len(u) = Len(t)
      BY <1>1, <3>1
    <3>3. (IF Len(u) < Len(t) THEN Len(t) ELSE Len(u)) = Len(t)
      BY <3>2
    <3> QED BY <3>3 DEF Mend
  <2>5. Mend(s, t) = [k \in 1..Len(t) |-> IF k <= Len(s) THEN s[k] ELSE t[k]]
    BY <1>4 DEF Mend
  <2>6. \A k \in 1..Len(t) : (IF k <= Len(u) THEN u[k] ELSE t[k]) = (IF k <= Len(s) THEN s[k] ELSE t[k])
    BY <1>1, <2>3
  <2>7. Mend(u, t) = Mend(s, t)
    BY <2>4, <2>5, <2>6
  <2> QED BY <2>7 DEF u
<1> QED BY <1>2, <1>3, <1>4

\* While a file is read the listings and the entries stay
LEMMA HandStays ==
    ASSUME IInv, KInv, pc \in ReadPc, pc' \in ReadPc, UNCHANGED <<environment, frames, entries>>,
           cur'.path = cur.path
    PROVE  SourceOK' /\ FramesOK' /\ EntriesOK' /\ MatchOK'
<1>1. SourceOK' /\ MatchOK'
  BY SourceStays, WalkMatches DEF KInv, ListPc, EntryPc, ReadPc
<1>2. \A i \in DOMAIN frames : FrameOK(i)'
  <2> SUFFICES ASSUME NEW i \in DOMAIN frames PROVE FrameOK(i)'
    OBVIOUS
  <2>1. Pending(i)' = Pending(i) /\ In(frames[i].dir)' = In(frames[i].dir)
    BY DEF Pending, In, EntryPc, ReadPc
  <2> QED BY <2>1, FrameStays DEF KInv, FramesOK
<1>3. FramesOK'
  BY <1>2 DEF KInv, FramesOK, ListPc, EntryPc, ReadPc, Top
<1>4. EntriesOK'
  BY DEF KInv, EntriesOK, Walked, Open, Settled, In, environment, ListPc, EntryPc, ReadPc
<1> QED BY <1>1, <1>3, <1>4

\* What the descriptor reads does not change while the source and the descriptor do not
LEMMA OpenedStays ==
    ASSUME UNCHANGED environment, cur'.path = cur.path, cur'.before = cur.before, cur'.fd = cur.fd
    PROVE  Opened' = Opened
BY DEF Opened, environment

\* A file is opened
LEMMA OpenFileCopies == IInv /\ KInv /\ OpenFile => KInv'
<1> SUFFICES ASSUME IInv, KInv, OpenFile PROVE KInv'
  OBVIOUS
<1> DEFINE p == cur.path
           e == FileEntry(<<>>, cur.before.mode)
<1>1. /\ pc = "open" /\ pc \in WorkPc /\ pc \in ListPc /\ pc \in EntryPc /\ pc \in ReadPc /\ pc \notin UsedPc
      /\ Workspace(ws) /\ cur \in Copying
  BY DEF OpenFile, WorkPc, WalkPc, ListPc, EntryPc, ReadPc, UsedPc, IInv, Attempted, Walking
<1>2. \/ \E reason : Refuse(reason)
      \/ /\ live[p].kind = "file" /\ SameFileMetadata(cur.before, Meta(live[p]))
         /\ ws' = Write(ws, Put(Written, p, e)) /\ pc' = "copy"
         /\ UNCHANGED <<kind, walk, environment>>
  BY DEF OpenFile
<1>3. CASE \E reason : Refuse(reason)
  BY <1>1, <1>3, RefuseHereInWalk
<1>4. CASE /\ live[p].kind = "file" /\ SameFileMetadata(cur.before, Meta(live[p]))
           /\ ws' = Write(ws, Put(Written, p, e)) /\ pc' = "copy"
           /\ UNCHANGED <<kind, walk, environment>>
  <2>1. UNCHANGED <<frames, cur, entries, count, seen, clock, edits, situation>>
    BY <1>4 DEF walk, environment
  <2>2. SourceOK' /\ FramesOK' /\ EntriesOK' /\ MatchOK'
    BY <1>1, <1>4, <2>1, HandStays DEF ReadPc
  <2>3. p \in Paths /\ live[p] \in Node /\ cur.got = <<>> /\ cur.again = <<>> /\ live[p].data \in seen[p]
    BY <1>1, <1>4 DEF Copying, IInv, Environment, KInv, ReadOK, SourceOK
  <2>4. Opened = live[p] /\ Opened' = Opened
    <3>1. live[p].ino = cur.before.ino
      BY <1>4 DEF SameFileMetadata, SameIdentity, Meta
    <3>2. Opened = live[p]
      BY <3>1 DEF Opened
    <3> QED BY <1>4, <2>1, <3>2, OpenedStays
  <2>5. live[p].data \in Seq(Chunk)
    BY <2>3 DEF Node
  <2>6. Prefix(<<>>, live[p].data) /\ Mend(<<>>, live[p].data) = live[p].data
    BY <2>5, PrefixGrows, MendSteps
  <2>7. ReadOK'
    <3>1. cur.before.stamp <= clock /\ cur.before.ino < 2 + edits
      BY <1>1 DEF KInv, ReadOK
    <3> QED BY <1>4, <2>1, <2>3, <2>4, <2>6, <3>1 DEF ReadOK
  <2>8. Tidy(Written) /\ Tidy(entries) /\ Size(Written) \in Nat /\ Size(Written) <= MaxTotal
    BY <1>1, WrittenIs
  <2>9. e \in DiskEntry /\ e.data = <<>> /\ p \in Paths \ {Root}
    <3>1. cur.before.mode \in Modes /\ <<>> \in Seq(Chunk)
      BY <1>4 , <2>3 DEF SameFileMetadata, Meta, Node
    <3> QED BY <1>1, <3>1, EntryFields, InHand
  <2> HIDE DEF e, p
  <2>10. Tidy(Put(Written, p, e)) /\ Size(Put(Written, p, e)) <= Size(Written)
    BY <2>8, <2>9, PutTree
  <2>11. /\ Written' = Put(Written, p, e)
         /\ (kind = "git" => ws'.copy = ws.copy) /\ (kind # "git" => ws'.comparison = ws.comparison)
         /\ ws'.exported = ws.exported /\ ws'.cleanup = ws.cleanup
    BY <1>1, <1>4, WriteFields
  <2>12. Tidy(Written') /\ Size(Written') <= Size(Written) /\ Size(Written') \in Nat
    BY <2>10, <2>11, ChunksFinite
  <2>13. CountOK'
    <3>1. /\ Size(Written) <= count.total + Len(cur.got) /\ Len(cur.got) <= cur.before.size
          /\ count.total + cur.before.size <= MaxTotal /\ count.total \in Nat /\ cur.got = <<>>
      BY <1>1, <2>3 DEF KInv, CountOK
    <3>2. Size(Written') <= count.total + Len(cur.got)
      BY <2>8, <2>12, <3>1
    <3> QED BY <1>4, <2>1, <3>1, <3>2 DEF KInv, CountOK, ReadPc
  <2>14. DiskOK'
    <3>1. Size(Written') <= MaxTotal
      BY <2>8, <2>12, SnapshotConstants
    <3> QED BY <1>1, <1>4, <2>1, <2>8, <2>11, <2>12, <3>1, WalkDisk DEF ListPc, EntryPc
  <2> QED BY <2>2, <2>7, <2>13, <2>14 DEF KInv
<1> QED BY <1>2, <1>3, <1>4

\* A chunk is read and written, or the end of the file is met
LEMMA CopyChunkCopies == IInv /\ KInv /\ CopyChunk => KInv'
<1> SUFFICES ASSUME IInv, KInv, CopyChunk PROVE KInv'
  OBVIOUS
<1>0. PICK p, o, got : p = cur.path /\ o = Opened /\ got = cur.got
  OBVIOUS
<1> DEFINE i == Len(got) + 1
           more == Append(got, o.data[i])
           written == [Written EXCEPT ![p].data = Append(@, o.data[i])]
<1>1. /\ pc = "copy" /\ pc \in WorkPc /\ pc \in ListPc /\ pc \in EntryPc /\ pc \in ReadPc /\ pc \notin UsedPc
      /\ Workspace(ws) /\ cur \in Copying
  BY DEF CopyChunk, WorkPc, WalkPc, ListPc, EntryPc, ReadPc, UsedPc, IInv, Attempted, Walking
<1>2. /\ o \in Node /\ o.data \in Seq(Chunk) /\ got \in Seq(Chunk) /\ Len(got) \in Nat /\ Len(o.data) \in Nat
      /\ cur.before.size \in Nat /\ p \in Paths
  <2>1. o \in Node
    BY <1>0, <1>1, OpenedType DEF IInv
  <2>2. o.data \in Seq(Chunk)
    BY <2>1 DEF Node
  <2>3. got \in Seq(Chunk) /\ cur.before.size \in Nat /\ p \in Paths
    BY <1>0, <1>1 DEF Copying, Stat
  <2> QED BY <2>1, <2>2, <2>3
<1>3. /\ cur.before.stamp <= clock /\ cur.before.ino < 2 + edits /\ cur.again = <<>>
      /\ o.kind = "file" /\ o.data \in seen[p]
      /\ ~situation.coarse /\ o.stamp = cur.before.stamp => Prefix(got, o.data)
      /\ situation.coarse /\ edits = 0 => Prefix(got, o.data)
      /\ situation.coarse /\ edits = 1 => Mend(got, o.data) \in seen[p]
  BY <1>0, <1>1 DEF KInv, ReadOK
<1>4. /\ Size(Written) <= count.total + Len(got) /\ Len(got) <= cur.before.size
      /\ count.total + cur.before.size <= MaxTotal /\ count.total \in Nat
  BY <1>0, <1>1 DEF KInv, CountOK
<1>5. Tidy(Written) /\ Tidy(entries) /\ Size(Written) \in Nat /\ Size(Written) <= MaxTotal
  BY <1>1, WrittenIs
<1>6. \/ \E reason : Refuse(reason)
      \/ /\ ~(Len(got) < Len(o.data)) /\ cur' = [cur EXCEPT !.after = Meta(Opened)] /\ pc' = "validate"
         /\ UNCHANGED <<ws, kind, frames, entries, count, environment>>
      \/ /\ Len(got) < Len(o.data) /\ Len(got) < cur.before.size
         /\ cur' = [cur EXCEPT !.got = Append(@, Opened.data[i])] /\ ws' = Write(ws, written)
         /\ UNCHANGED <<pc, kind, frames, entries, count, environment>>
  <2>1. i > Len(o.data) <=> ~(Len(got) < Len(o.data))
    BY <1>2
  <2>2. i > cur.before.size <=> ~(Len(got) < cur.before.size)
    BY <1>2
  <2>3. i <= Len(o.data) <=> Len(got) < Len(o.data)
    BY <1>2
  <2> QED BY <1>0, <2>1, <2>2, <2>3 DEF CopyChunk
<1>7. CASE \E reason : Refuse(reason)
  BY <1>1, <1>7, RefuseHereInWalk
<1>8. CASE /\ ~(Len(got) < Len(o.data)) /\ cur' = [cur EXCEPT !.after = Meta(Opened)] /\ pc' = "validate"
           /\ UNCHANGED <<ws, kind, frames, entries, count, environment>>
  <2>1. /\ cur'.path = cur.path /\ cur'.before = cur.before /\ cur'.fd = cur.fd
        /\ cur'.got = got /\ cur'.again = <<>>
    <3> DEFINE m == Meta(Opened)
    <3>1. cur' = [cur EXCEPT !.after = m]
      BY <1>8
    <3> HIDE DEF m
    <3> QED BY <1>0, <1>1, <1>3, <3>1 DEF Copying
  <2>2. Opened' = o /\ UNCHANGED <<seen, clock, edits, situation>>
    BY <1>0, <1>8, <2>1, OpenedStays DEF environment
  <2>3. SourceOK' /\ FramesOK' /\ EntriesOK' /\ MatchOK'
    BY <1>1, <1>8, <2>1, HandStays DEF ReadPc
  <2>4. situation.coarse => got \in seen[p] \/ edits >= 2
    <3>1. Prefix(got, o.data) => got = o.data
      BY <1>2, <1>8, PrefixWhole
    <3>2. Mend(got, o.data) = got
      BY <1>2, <1>8, MendSteps
    <3>3. edits \in Nat
      BY DEF IInv, Environment
    <3> QED BY <1>3, <3>1, <3>2, <3>3
  <2>5. Prefix(<<>>, o.data)
    BY <1>2, PrefixGrows
  <2>6. ReadOK'
    <3>1. cur'.path = p
      BY <1>0, <2>1
    <3> QED BY <1>3, <1>8, <2>1, <2>2, <2>4, <2>5, <3>1 DEF ReadOK
  <2>7. Written' = Written
    BY <1>8 DEF Written
  <2>8. CountOK'
    BY <1>4, <1>8, <2>1, <2>7 DEF KInv, CountOK, ReadPc
  <2>9. DiskOK'
    BY <1>1, <1>5, <1>8, <2>7, WalkDisk DEF ListPc, EntryPc
  <2> QED BY <2>3, <2>6, <2>8, <2>9 DEF KInv
<1>9. CASE /\ Len(got) < Len(o.data) /\ Len(got) < cur.before.size
           /\ cur' = [cur EXCEPT !.got = Append(@, Opened.data[i])] /\ ws' = Write(ws, written)
           /\ UNCHANGED <<pc, kind, frames, entries, count, environment>>
  <2>1. o.data[i] \in Chunk
    <3>1. i \in 1..Len(o.data)
      BY <1>2, <1>9
    <3> QED BY <1>2, <3>1
  <2>2. more \in Seq(Chunk) /\ Len(more) = Len(got) + 1
    <3> DEFINE x == o.data[i]
    <3> HIDE DEF x
    <3>1. Append(got, x) \in Seq(Chunk) /\ Len(Append(got, x)) = Len(got) + 1
      BY <1>2, <2>1 DEF x
    <3> QED BY <3>1 DEF x
  <2>3. /\ cur'.path = cur.path /\ cur'.before = cur.before /\ cur'.fd = cur.fd
        /\ cur'.got = more /\ cur'.again = <<>>
    <3>1. cur' = [cur EXCEPT !.got = more]
      BY <1>0, <1>9
    <3> HIDE DEF more
    <3> QED BY <1>1, <1>3, <3>1 DEF Copying
  <2>4. Opened' = o /\ UNCHANGED <<seen, clock, edits, situation>>
    BY <1>0, <1>9, <2>3, OpenedStays DEF environment
  <2>5. SourceOK' /\ FramesOK' /\ EntriesOK' /\ MatchOK'
    BY <1>1, <1>9, <2>3, HandStays DEF ReadPc
  <2>6. (Prefix(got, o.data) => Prefix(more, o.data)) /\ Mend(more, o.data) = Mend(got, o.data)
    BY <1>2, <1>9, PrefixGrows, MendSteps
  <2>7. /\ Tidy(written) /\ Size(written) <= Size(Written) + 1
    BY <1>5, <2>1, GrowTree
  <2> HIDE DEF more, written
  <2>8. ReadOK'
    <3>1. cur'.path = p /\ pc' = "copy"
      BY <1>0, <1>1, <1>9, <2>3
    <3> QED BY <1>3, <2>3, <2>4, <2>6, <3>1 DEF ReadOK
  <2>9. /\ Written' = written
        /\ (kind = "git" => ws'.copy = ws.copy) /\ (kind # "git" => ws'.comparison = ws.comparison)
        /\ ws'.exported = ws.exported /\ ws'.cleanup = ws.cleanup
    BY <1>1, <1>9, WriteFields
  <2>10. Tidy(Written') /\ Size(Written') <= Size(Written) + 1 /\ Size(Written') \in Nat
    BY <2>7, <2>9, ChunksFinite
  <2>11. Size(Written') <= count.total + Len(more) /\ Len(more) <= cur.before.size
    BY <1>2, <1>4, <1>5, <1>9, <2>2, <2>10
  <2>12. CountOK'
    BY <1>1, <1>4, <1>9, <2>3, <2>11 DEF KInv, CountOK, ReadPc
  <2>13. DiskOK'
    <3>1. Size(Written') <= MaxTotal
      BY <1>2, <1>4, <2>2, <2>10, <2>11, SnapshotConstants
    <3> QED BY <1>1, <1>5, <1>9, <2>9, <2>10, <3>1, WalkDisk DEF ListPc, EntryPc
  <2> QED BY <2>5, <2>8, <2>12, <2>13 DEF KInv
<1> QED BY <1>6, <1>7, <1>8, <1>9

\* The second read: a chunk more, or both reads agree and the file gets its entry
LEMMA ValidateChunkCopies == IInv /\ KInv /\ ValidateChunk => KInv'
<1> SUFFICES ASSUME IInv, KInv, ValidateChunk PROVE KInv'
  OBVIOUS
<1>0. PICK p, o, got, again, t : p = cur.path /\ o = Opened /\ got = cur.got /\ again = cur.again /\ t = Top.dir
  OBVIOUS
<1> DEFINE i == Len(again) + 1
           more == Append(again, o.data[i])
           e == FileEntry(got, cur.before.mode)
<1>1. /\ pc = "validate" /\ pc \in WorkPc /\ pc \in ListPc /\ pc \in EntryPc /\ pc \in ReadPc /\ pc \notin UsedPc
      /\ Workspace(ws) /\ cur \in Copying
  BY DEF ValidateChunk, WorkPc, WalkPc, ListPc, EntryPc, ReadPc, UsedPc, IInv, Attempted, Walking
<1>2. /\ o \in Node /\ o.data \in Seq(Chunk) /\ got \in Seq(Chunk) /\ again \in Seq(Chunk)
      /\ Len(got) \in Nat /\ Len(again) \in Nat /\ Len(o.data) \in Nat
      /\ cur.before.size \in Nat /\ cur.before.mode \in Modes /\ p \in Paths
  <2>1. o \in Node
    BY <1>0, <1>1, OpenedType DEF IInv
  <2>2. o.data \in Seq(Chunk)
    BY <2>1 DEF Node
  <2>3. got \in Seq(Chunk) /\ again \in Seq(Chunk) /\ cur.before \in Stat /\ p \in Paths
    BY <1>0, <1>1 DEF Copying
  <2>4. cur.before.size \in Nat /\ cur.before.mode \in Modes
    BY <2>3 DEF Stat
  <2> QED BY <2>1, <2>2, <2>3, <2>4
<1>3. /\ cur.before.stamp <= clock /\ cur.before.ino < 2 + edits
      /\ o.kind = "file" /\ o.data \in seen[p]
      /\ ~situation.coarse /\ o.stamp = cur.before.stamp => Prefix(got, o.data)
      /\ situation.coarse => got \in seen[p] \/ (edits >= 2 /\ Prefix(again, o.data))
  BY <1>0, <1>1 DEF KInv, ReadOK
<1>4. /\ Size(Written) <= count.total + Len(got) /\ Len(got) <= cur.before.size
      /\ count.total + cur.before.size <= MaxTotal /\ count.total \in Nat
  BY <1>0, <1>1 DEF KInv, CountOK
<1>5. Tidy(Written) /\ Tidy(entries) /\ Size(Written) \in Nat /\ Size(Written) <= MaxTotal
  BY <1>1, WrittenIs
<1>6. \/ \E reason : Refuse(reason)
      \/ /\ Len(again) < Len(o.data) /\ cur' = [cur EXCEPT !.again = Append(@, Opened.data[Len(@) + 1])]
         /\ UNCHANGED <<pc, ws, kind, frames, entries, count, environment>>
      \/ /\ CopyUnchanged /\ ~(Len(again) < Len(o.data))
         /\ entries' = Put(entries, p, e) /\ count' = [count EXCEPT !.total = @ + cur.before.size]
         /\ pc' = "list" /\ UNCHANGED <<ws, kind, frames, environment>>
  BY <1>0 DEF ValidateChunk
<1>7. CASE \E reason : Refuse(reason)
  BY <1>1, <1>7, RefuseHereInWalk
<1>8. CASE /\ Len(again) < Len(o.data) /\ cur' = [cur EXCEPT !.again = Append(@, Opened.data[Len(@) + 1])]
           /\ UNCHANGED <<pc, ws, kind, frames, entries, count, environment>>
  <2>1. /\ cur'.path = cur.path /\ cur'.before = cur.before /\ cur'.fd = cur.fd
        /\ cur'.got = got /\ cur'.again = more
    <3>1. cur' = [cur EXCEPT !.again = more]
      BY <1>0, <1>8
    <3> HIDE DEF more
    <3> QED BY <1>0, <1>1, <3>1 DEF Copying
  <2>2. Opened' = o /\ UNCHANGED <<seen, clock, edits, situation>>
    BY <1>0, <1>8, <2>1, OpenedStays DEF environment
  <2>3. SourceOK' /\ FramesOK' /\ EntriesOK' /\ MatchOK'
    BY <1>1, <1>8, <2>1, HandStays DEF ReadPc
  <2>4. Prefix(again, o.data) => Prefix(more, o.data)
    BY <1>2, <1>8, PrefixGrows
  <2> HIDE DEF more
  <2>5. ReadOK'
    <3>1. cur'.path = p /\ pc' = "validate"
      BY <1>0, <1>1, <1>8, <2>1
    <3> QED BY <1>3, <2>1, <2>2, <2>4, <3>1 DEF ReadOK
  <2>6. Written' = Written
    BY <1>8 DEF Written
  <2>7. CountOK'
    BY <1>1, <1>4, <1>8, <2>1, <2>6 DEF KInv, CountOK, ReadPc
  <2>8. DiskOK'
    BY <1>1, <1>5, <1>8, <2>6, WalkDisk DEF ListPc, EntryPc
  <2> QED BY <2>3, <2>5, <2>7, <2>8 DEF KInv
<1>9. CASE /\ CopyUnchanged /\ ~(Len(again) < Len(o.data))
           /\ entries' = Put(entries, p, e) /\ count' = [count EXCEPT !.total = @ + cur.before.size]
           /\ pc' = "list" /\ UNCHANGED <<ws, kind, frames, environment>>
  <2>1. /\ Len(got) = cur.before.size /\ again = got /\ o.stamp = cur.before.stamp
        /\ Len(o.data) = cur.before.size
    <3>1. /\ Len(cur.got) = cur.before.size /\ cur.again = cur.got
          /\ cur.before = cur.after /\ cur.after = Meta(Opened)
      BY <1>9 DEF CopyUnchanged, SameFileMetadata
    <3>2. Meta(o).stamp = o.stamp /\ Meta(o).size = Len(o.data)
      BY DEF Meta
    <3> QED BY <1>0, <3>1, <3>2
  <2>2. got \in seen[p]
    <3>1. Prefix(got, o.data) => got = o.data
      BY <1>2, <2>1, PrefixWhole
    <3> QED BY <1>3, <2>1, <3>1
  <2>3. e \in DiskEntry /\ e.data = got
    BY <1>2, EntryFields
  <2> HIDE DEF e
  <2>4. /\ p \in Paths \ {Root} /\ Parent[p] = t /\ (t = Root \/ t \in DOMAIN entries) /\ p \in Files
    BY <1>0, <1>1, InHand DEF KInv, FramesOK
  <2>5. /\ \A j \in DOMAIN frames : FrameOK(j)'
        /\ DOMAIN entries' = DOMAIN entries \cup {p}
        /\ \A q \in DOMAIN entries : entries'[q] = entries[q]
        /\ entries'[p] = e
        /\ \A d : d # t => In(d)' = In(d)
        /\ \A d : Open(d) => Open(d)'
        /\ Open(t)
    <3>1. \A j \in DOMAIN frames : j \in DOMAIN frames' /\ frames'[j] = frames[j]
      BY <1>9
    <3>2. entries' = Put(entries, cur.path, e) /\ UNCHANGED environment
      BY <1>0, <1>9
    <3>3. /\ \A j \in DOMAIN frames : FrameOK(j)'
          /\ DOMAIN entries' = DOMAIN entries \cup {cur.path}
          /\ \A q \in DOMAIN entries : entries'[q] = entries[q]
          /\ entries'[cur.path] = e
          /\ \A d : d # Top.dir => In(d)' = In(d)
          /\ \A d : Open(d) => Open(d)'
          /\ Open(Top.dir)
      BY <1>1, <1>9, <3>1, <3>2, EntryArrives
    <3> QED BY <1>0, <3>3, Zenon
  <2>6. SourceOK' /\ MatchOK' /\ UNCHANGED <<seen, listed>>
    BY <1>9, SourceStays, WalkMatches DEF KInv, ListPc, environment
  <2>7. FramesOK'
    BY <1>9, <2>5 DEF FramesOK, ListPc, EntryPc, ReadPc
  <2>8. EntriesOK'
    <3>1. Walked
      BY <1>1 DEF Walked
    <3>2. \A q \in DOMAIN entries' : entries'[q].type = "file" => entries'[q].data \in seen'[q]
      BY <2>2, <2>3, <2>5, <2>6, <3>1 DEF KInv, EntriesOK
    <3>3. \A q \in DOMAIN entries' : Parent[q] = Root \/ Parent[q] \in DOMAIN entries'
      BY <2>4, <2>5, <3>1 DEF KInv, EntriesOK
    <3>4. ASSUME NEW d \in Dirs, d = Root \/ d \in DOMAIN entries' PROVE Open(d)' \/ Settled(d)'
      <4>1. CASE d = t
        BY <2>5, <4>1
      <4>2. CASE d # t
        <5>1. d # p
          BY <2>4, PathsAreATree
        <5>2. Open(d) \/ Settled(d)
          BY <2>5, <3>1, <3>4, <5>1 DEF KInv, EntriesOK
        <5>3. Settled(d) => Settled(d)'
          BY <2>5, <2>6, <4>2 DEF Settled
        <5> QED BY <2>5, <5>2, <5>3
      <4> QED BY <4>1, <4>2
    <3> QED BY <3>2, <3>3, <3>4 DEF EntriesOK
  <2>9. ReadOK'
    BY <1>9 DEF ReadOK, ReadPc
  <2>10. Written' = Written
    BY <1>9 DEF Written
  <2>11. CountOK'
    <3> DEFINE CountType == [files : 0..MaxFiles, dirs : 0..MaxDirs, paths : 0..MaxPaths, total : Nat]
               x == count.total + cur.before.size
    <3>1. count \in CountType /\ x \in Nat /\ Size(Written) <= x /\ x <= MaxTotal
      BY <1>2, <1>4, <2>1 DEF KInv, CountOK
    <3>2. count' = [count EXCEPT !.total = x]
      BY <1>9
    <3> HIDE DEF x
    <3>3. count' \in CountType /\ count'.total = x
      BY <3>1, <3>2
    <3> QED BY <1>9, <2>10, <3>1, <3>3 DEF CountOK, ReadPc
  <2>12. Tidy(entries')
    BY <1>5, <1>9, <2>3, <2>4, PutTree
  <2>13. DiskOK'
    BY <1>1, <1>5, <1>9, <2>10, <2>12, WalkDisk DEF ListPc, EntryPc
  <2> QED BY <2>6, <2>7, <2>8, <2>9, <2>11, <2>13 DEF KInv
<1> QED BY <1>6, <1>7, <1>8, <1>9

----------------------------------------------------------------------------
(***************************************************************************)
(* The source changes under the walk                                       *)
(***************************************************************************)
\* An edit in place, which keeps inode, kind and name and changes one chunk, appends one or none
InPlace(p, n) ==
    /\ p \in Files /\ live[p].kind = "file" /\ n.kind = "file" /\ n.ino = live[p].ino
    /\ \/ n.data = live[p].data
       \/ \E i \in DOMAIN live[p].data, v \in Chunk : n.data = [live[p].data EXCEPT ![i] = v]
       \/ n.data = Append(live[p].data, 1)

\* An edit that puts a new inode under the name
Replacing(p, n) ==
    n.ino = 2 + edits /\ (n.kind = "file" => p \in Files) /\ (n.kind = "dir" => p \in Dirs)

\* Every edit is one or the other
LEMMA EditedIs ==
    ASSUME Environment, NEW e, NEW p \in Paths, NEW n \in Edited(e, p)
    PROVE  \/ InPlace(p, n)
           \/ e \notin {"write", "append", "chmod"} /\ Replacing(p, n)
<1> DEFINE o == live[p]
<1>1. o \in Node /\ o.data \in Seq(Chunk)
  BY DEF Environment, Node
<1>2. \A k, data : New(k, data).ino = 2 + edits /\ New(k, data).kind = k
  BY DEF New
<1> HIDE DEF o
<1>3. CASE e = "write"
  <2>1. p \in Files /\ o.kind = "file"
    BY <1>3 DEF Edited, o
  <2>2. n \in {[o EXCEPT !.data[i] = v] : i \in DOMAIN o.data, v \in Chunk}
    BY <1>3, <2>1 DEF Edited, o
  <2>3. PICK i \in DOMAIN o.data, v \in Chunk : n = [o EXCEPT !.data[i] = v]
    BY <2>2
  <2>4. n.kind = o.kind /\ n.ino = o.ino /\ n.data = [o.data EXCEPT ![i] = v]
    BY <1>1, <2>3 DEF Node
  <2> QED BY <2>1, <2>4 DEF InPlace, o
<1>4. CASE e = "append"
  <2>1. p \in Files /\ o.kind = "file" /\ n = [o EXCEPT !.data = Append(@, 1)]
    BY <1>4 DEF Edited, o
  <2>2. n.kind = o.kind /\ n.ino = o.ino /\ n.data = Append(o.data, 1)
    BY <1>1, <2>1 DEF Node
  <2> QED BY <2>1, <2>2 DEF InPlace, o
<1>5. CASE e = "chmod"
  <2>1. p \in Files /\ o.kind = "file" /\ n = [o EXCEPT !.mode = "100755"]
    BY <1>5 DEF Edited, o
  <2>2. n.kind = o.kind /\ n.ino = o.ino /\ n.data = o.data
    BY <1>1, <2>1 DEF Node
  <2> QED BY <2>1, <2>2 DEF InPlace, o
<1>6. CASE e = "replace"
  BY <1>2, <1>6 DEF Edited, Replacing
<1>7. CASE e = "link"
  BY <1>2, <1>7 DEF Edited, Replacing
<1>8. CASE e = "remove"
  BY <1>2, <1>8 DEF Edited, Replacing
<1>9. CASE e = "add"
  BY <1>2, <1>9 DEF Edited, Replacing
<1>10. CASE e = "swapdir"
  BY <1>2, <1>10 DEF Edited, Replacing
<1>11. CASE e \notin AllEdits
  BY <1>11 DEF Edited, AllEdits
<1> QED BY <1>3, <1>4, <1>5, <1>6, <1>7, <1>8, <1>9, <1>10, <1>11 DEF AllEdits

\* The tree after an edit, node by node
LEMMA BecomesNodes ==
    ASSUME Environment, NEW p \in Paths, NEW n \in Node, NEW s \in Nat, Becomes(p, n, s)
    PROVE  /\ live' \in [Paths -> Node]
           /\ live'[p].kind = n.kind /\ live'[p].ino = n.ino /\ live'[p].data = n.data /\ live'[p].stamp = s
           /\ \A q \in Paths \ {p} :
                 /\ live'[q].kind = live[q].kind /\ live'[q].ino = live[q].ino /\ live'[q].data = live[q].data
                 /\ \/ live'[q].stamp = live[q].stamp
                    \/ n.ino # live[p].ino /\ q = Parent[p] /\ live'[q].stamp = s
           /\ n.ino # live[p].ino => live'[Parent[p]].stamp = s
<1> DEFINE node == [n EXCEPT !.stamp = s]
           above == Parent[p]
           one == [live EXCEPT ![p] = node]
           upper == [one[above] EXCEPT !.stamp = s]
           two == [one EXCEPT ![above] = upper]
<1>1. live' = IF n.ino # live[p].ino THEN two ELSE one
  BY DEF Becomes
<1>2. live \in [Paths -> Node] /\ above \in Paths
  BY SnapshotTypes DEF Environment, Paths
<1>3. node \in Node /\ node.kind = n.kind /\ node.ino = n.ino /\ node.data = n.data /\ node.stamp = s
  BY DEF Node
<1> HIDE DEF node, above
<1>4. one \in [Paths -> Node] /\ one[p] = node /\ \A q \in Paths \ {p} : one[q] = live[q]
  BY <1>2, <1>3
<1> HIDE DEF one
<1>5. /\ upper \in Node /\ upper.stamp = s /\ upper.kind = one[above].kind /\ upper.ino = one[above].ino
      /\ upper.data = one[above].data
  <2>1. one[above] \in Node
    BY <1>2, <1>4
  <2> QED BY <2>1 DEF Node
<1> HIDE DEF upper
<1>6. two \in [Paths -> Node] /\ two[above] = upper /\ \A q \in Paths \ {above} : two[q] = one[q]
  BY <1>2, <1>4, <1>5
<1> HIDE DEF two
<1>7. CASE n.ino = live[p].ino
  BY <1>1, <1>3, <1>4, <1>7
<1>8. CASE n.ino # live[p].ino
  <2>1. live' = two /\ live'[above].stamp = s
    BY <1>1, <1>5, <1>6, <1>8
  <2>2. live'[p].kind = n.kind /\ live'[p].ino = n.ino /\ live'[p].data = n.data /\ live'[p].stamp = s
    <3>1. CASE p = above
      BY <1>3, <1>4, <1>5, <1>6, <2>1, <3>1
    <3>2. CASE p # above
      BY <1>3, <1>4, <1>6, <2>1, <3>2
    <3> QED BY <3>1, <3>2
  <2>3. ASSUME NEW q \in Paths \ {p}
        PROVE  /\ live'[q].kind = live[q].kind /\ live'[q].ino = live[q].ino /\ live'[q].data = live[q].data
               /\ live'[q].stamp = live[q].stamp \/ (q = above /\ live'[q].stamp = s)
    <3>1. CASE q = above
      BY <1>4, <1>5, <1>6, <2>1, <2>3, <3>1
    <3>2. CASE q # above
      BY <1>4, <1>6, <2>1, <2>3, <3>2
    <3> QED BY <3>1, <3>2
  <2> QED BY <1>6, <1>8, <2>1, <2>2, <2>3 DEF above
<1> QED BY <1>7, <1>8 DEF above

\* The names in a directory change only with a name of it
LEMMA ChildrenStay ==
    ASSUME NEW p \in Paths, NEW d, \A q \in Paths \ {p} : live'[q].kind = live[q].kind,
           d # Parent[p] \/ live'[p].kind = live[p].kind
    PROVE  Children(live', d) = Children(live, d)
BY DEF Children

\* What is known of the source after an edit
LEMMA SourceEdited ==
    ASSUME IInv, KInv, NEW p \in Paths, NEW n \in Node, NEW s \in Nat, Becomes(p, n, s),
           InPlace(p, n) \/ Replacing(p, n), s >= clock, edits < situation.edits, edits' = edits + 1,
           UNCHANGED <<situation, head, moves>>
    PROVE  /\ SourceOK' /\ clock' = s
           /\ \A q \in Paths : seen[q] \subseteq seen'[q] /\ listed[q] \subseteq listed'[q]
           /\ InPlace(p, n) => n.data \in seen'[p]
<1>1. /\ live' \in [Paths -> Node]
      /\ live'[p].kind = n.kind /\ live'[p].ino = n.ino /\ live'[p].data = n.data /\ live'[p].stamp = s
      /\ \A q \in Paths \ {p} :
            /\ live'[q].kind = live[q].kind /\ live'[q].ino = live[q].ino /\ live'[q].data = live[q].data
            /\ live'[q].stamp = live[q].stamp \/ live'[q].stamp = s
  BY BecomesNodes DEF IInv
<1>2. /\ situation \in Cases /\ moves <= situation.moves /\ head \in Commits
      /\ seen \in [Paths -> SUBSET Seq(Chunk)] /\ listed \in [Paths -> SUBSET SUBSET Paths]
      /\ \A q \in Paths : /\ live[q].stamp <= clock /\ live[q].ino < 2 + edits
                          /\ live[q].kind = "file" => q \in Files /\ live[q].data \in seen[q]
                          /\ live[q].kind = "dir" => q \in Dirs
      /\ \A d \in Dirs : Children(live, d) \in listed[d]
  BY DEF KInv, SourceOK
<1>3. /\ clock \in Nat /\ edits \in Nat /\ situation.edits \in Nat /\ n.data \in Seq(Chunk)
      /\ \A q \in Paths : live[q].stamp \in Nat /\ live[q].ino \in Nat
  BY DEF IInv, Environment, Case, Node
<1>4. clock' = s /\ Parent[p] \in Paths /\ Parent[p] \in Dirs
  BY SnapshotTypes DEF Becomes, Paths
<1>5. /\ seen' = IF n.kind = "file" THEN [seen EXCEPT ![p] = @ \cup {n.data}] ELSE seen
      /\ listed' = [listed EXCEPT ![Parent[p]] = @ \cup {Children(live', Parent[p])}]
  BY DEF Becomes
<1>6. /\ seen' \in [Paths -> SUBSET Seq(Chunk)] /\ \A q \in Paths : seen[q] \subseteq seen'[q]
      /\ n.kind = "file" => n.data \in seen'[p]
  BY <1>2, <1>3, <1>5
<1>7. /\ listed' \in [Paths -> SUBSET SUBSET Paths] /\ \A q \in Paths : listed[q] \subseteq listed'[q]
      /\ Children(live', Parent[p]) \in listed'[Parent[p]]
  <2> DEFINE c == Children(live', Parent[p])
  <2>1. c \in SUBSET Paths
    BY DEF Children
  <2> HIDE DEF c
  <2>2. listed' = [listed EXCEPT ![Parent[p]] = @ \cup {c}]
    BY <1>5 DEF c
  <2>3. /\ listed' \in [Paths -> SUBSET SUBSET Paths] /\ \A q \in Paths : listed[q] \subseteq listed'[q]
        /\ c \in listed'[Parent[p]]
    BY <1>2, <1>4, <2>1, <2>2
  <2> QED BY <2>3 DEF c
<1>8. \A q \in Paths : live'[q].stamp <= clock'
  <2> TAKE q \in Paths
  <2>1. live'[q].stamp = live[q].stamp \/ live'[q].stamp = s
    BY <1>1
  <2> QED BY <1>2, <1>3, <1>4, <2>1
<1>9. \A q \in Paths : live'[q].ino < 2 + edits'
  <2> TAKE q \in Paths
  <2>1. live'[q].ino = live[q].ino \/ live'[q].ino = 2 + edits
    BY <1>1 DEF InPlace, Replacing
  <2> QED BY <1>2, <1>3, <2>1
<1>10. \A q \in Paths : /\ live'[q].kind = "file" => q \in Files /\ live'[q].data \in seen'[q]
                        /\ live'[q].kind = "dir" => q \in Dirs
  <2> TAKE q \in Paths
  <2>1. CASE q = p
    BY <1>1, <1>6, <2>1 DEF InPlace, Replacing
  <2>2. CASE q # p
    BY <1>1, <1>2, <1>6, <2>2
  <2> QED BY <2>1, <2>2
<1>11. \A d \in Dirs : Children(live', d) \in listed'[d]
  <2> TAKE d \in Dirs
  <2>1. CASE d = Parent[p]
    BY <1>7, <2>1
  <2>2. CASE d # Parent[p]
    <3>1. Children(live', d) = Children(live, d)
      BY <1>1, <2>2, ChildrenStay
    <3> QED BY <1>2, <1>7, <3>1 DEF Paths
  <2> QED BY <2>1, <2>2
<1>12. SourceOK'
  <2>1. edits' <= situation'.edits
    BY <1>3
  <2> QED BY <1>2, <1>6, <1>7, <1>8, <1>9, <1>10, <1>11, <2>1 DEF SourceOK
<1> QED BY <1>4, <1>6, <1>7, <1>12 DEF InPlace

\* A read that has got a prefix ends, whichever chunk is written or appended, with the old content or the new
LEMMA MendAfter ==
    ASSUME NEW s \in Seq(Chunk), NEW t \in Seq(Chunk), Prefix(s, t), NEW u,
           \/ u = t
           \/ \E i \in DOMAIN t, v \in Chunk : u = [t EXCEPT ![i] = v]
           \/ u = Append(t, 1)
    PROVE  Mend(s, u) \in {t, u}
<1>1. PICK a, b : a = Len(s) /\ b = Len(t)
  OBVIOUS
<1>2. a \in Nat /\ b \in Nat /\ a <= b /\ DOMAIN t = 1..b /\ t = [k \in 1..b |-> t[k]]
  BY <1>1 DEF Prefix
<1>3. \A k \in 1..a : s[k] = t[k]
  BY <1>1 DEF Prefix
<1>4. ASSUME NEW c \in Nat, c >= b, Len(u) = c
      PROVE  Mend(s, u) = [k \in 1..c |-> IF k <= a THEN t[k] ELSE u[k]]
  <2>1. (IF a < c THEN c ELSE a) = c
    BY <1>2, <1>4
  <2>2. Mend(s, u) = [k \in 1..(IF a < c THEN c ELSE a) |-> IF k <= a THEN s[k] ELSE u[k]]
    BY <1>1, <1>4 DEF Mend
  <2>3. \A k \in 1..c : (IF k <= a THEN s[k] ELSE u[k]) = (IF k <= a THEN t[k] ELSE u[k])
    <3> TAKE k \in 1..c
    <3>1. k <= a => k \in 1..a
      BY <1>2, <1>4
    <3>2. k <= a => s[k] = t[k]
      BY <1>3, <3>1
    <3> QED BY <3>2
  <2> QED BY <2>1, <2>2, <2>3
<1>5. CASE u = t
  BY <1>1, <1>2, <1>4, <1>5
<1>6. CASE \E i \in DOMAIN t, v \in Chunk : u = [t EXCEPT ![i] = v]
  <2>1. PICK i \in DOMAIN t, v \in Chunk : u = [t EXCEPT ![i] = v]
    BY <1>6
  <2>2. u \in Seq(Chunk) /\ DOMAIN u = 1..b /\ \A k \in 1..b : k # i => u[k] = t[k]
    BY <1>2, <2>1
  <2>3. Len(u) = b /\ u = [k \in 1..b |-> u[k]]
    BY <1>2, <2>2
  <2>4. Mend(s, u) = [k \in 1..b |-> IF k <= a THEN t[k] ELSE u[k]]
    BY <1>2, <1>4, <2>3
  <2>5. CASE i <= a
    <3>1. \A k \in 1..b : (IF k <= a THEN t[k] ELSE u[k]) = t[k]
      BY <1>2, <2>2, <2>5
    <3> QED BY <1>2, <2>4, <3>1
  <2>6. CASE ~(i <= a)
    <3>1. \A k \in 1..b : (IF k <= a THEN t[k] ELSE u[k]) = u[k]
      BY <1>2, <2>2, <2>6
    <3> QED BY <2>3, <2>4, <3>1
  <2> QED BY <2>5, <2>6
<1>7. CASE u = Append(t, 1)
  <2>1. u \in Seq(Chunk) /\ Len(u) = b + 1 /\ \A k \in 1..b : u[k] = t[k]
    BY <1>1, <1>7 DEF Chunk
  <2>2. u = [k \in 1..(b + 1) |-> u[k]]
    BY <2>1
  <2>3. Mend(s, u) = [k \in 1..(b + 1) |-> IF k <= a THEN t[k] ELSE u[k]]
    BY <1>2, <1>4, <2>1
  <2>4. \A k \in 1..(b + 1) : (IF k <= a THEN t[k] ELSE u[k]) = u[k]
    BY <1>2, <2>1
  <2> QED BY <2>2, <2>3, <2>4
<1> QED BY <1>5, <1>6, <1>7

\* An edit leaves the entry in hand alone, but for the descriptor it detaches
LEMMA HandEdited ==
    ASSUME IInv, NEW p, NEW n, NEW s, Becomes(p, n, s), pc \in EntryPc
    PROVE  /\ cur'.path = cur.path /\ cur'.before = cur.before /\ cur'.got = cur.got /\ cur'.again = cur.again
           /\ cur' = cur \/ (/\ n.ino # live[p].ino /\ cur.path = p /\ cur.before.ino = live[p].ino
                             /\ cur'.fd = [live[p] EXCEPT !.stamp = s])
           /\ pc \in {"copy", "validate"} /\ n.ino # live[p].ino /\ cur.path = p /\ cur.before.ino = live[p].ino
                => cur'.fd = [live[p] EXCEPT !.stamp = s]
<1> DEFINE fd == [live[p] EXCEPT !.stamp = s]
<1>1. cur' = IF n.ino # live[p].ino /\ pc \in {"copy", "validate"} /\ cur.path = p /\ cur.before.ino = live[p].ino
             THEN [cur EXCEPT !.fd = fd] ELSE cur
  BY DEF Becomes
<1>0. cur \in Copying
  BY DEF IInv, Walking, EntryPc
<1> HIDE DEF fd
<1>2. /\ [cur EXCEPT !.fd = fd].fd = fd /\ [cur EXCEPT !.fd = fd].path = cur.path
      /\ [cur EXCEPT !.fd = fd].before = cur.before /\ [cur EXCEPT !.fd = fd].got = cur.got
      /\ [cur EXCEPT !.fd = fd].again = cur.again
  BY <1>0 DEF Copying
<1> QED BY <1>1, <1>2 DEF fd

\* What the descriptor reads after an edit: what it read before, the same with a later timestamp, or the
\* file as it was written in place
LEMMA OpenedEdited ==
    ASSUME IInv, KInv, NEW p \in Paths, NEW n \in Node, NEW s \in Nat, Becomes(p, n, s),
           InPlace(p, n) \/ Replacing(p, n), pc \in {"copy", "validate"}
    PROVE  \/ Opened'.kind = Opened.kind /\ Opened'.data = Opened.data /\ Opened'.stamp \in {Opened.stamp, s}
           \/ /\ p = cur.path /\ InPlace(p, n) /\ Opened.data = live[p].data
              /\ Opened'.kind = "file" /\ Opened'.data = n.data /\ Opened'.stamp = s
<1>0. PICK P, b : P = cur.path /\ b = cur.before.ino
  OBVIOUS
<1>1. cur \in Copying /\ P \in Paths /\ P \in Files /\ b \in Nat /\ b < 2 + edits /\ edits \in Nat
  <2>1. cur \in Copying /\ P \in Files /\ b < 2 + edits
    BY <1>0 DEF IInv, Walking, EntryPc, KInv, FramesOK, ReadOK, ReadPc
  <2>2. live[P].ino < 2 + edits /\ P \in Paths /\ b \in Nat /\ edits \in Nat
    BY <1>0, <2>1 DEF Paths, KInv, SourceOK, Copying, Stat, IInv, Environment
  <2> QED BY <2>1, <2>2
<1>2. /\ live'[p].kind = n.kind /\ live'[p].ino = n.ino /\ live'[p].data = n.data /\ live'[p].stamp = s
      /\ \A q \in Paths \ {p} :
            /\ live'[q].kind = live[q].kind /\ live'[q].ino = live[q].ino /\ live'[q].data = live[q].data
            /\ live'[q].stamp = live[q].stamp \/ (q = Parent[p] /\ live'[q].stamp = s)
  BY BecomesNodes DEF IInv
<1>3. /\ cur'.path = P /\ cur'.before.ino = b
      /\ cur' = cur \/ (/\ n.ino # live[p].ino /\ P = p /\ b = live[p].ino
                        /\ cur'.fd = [live[p] EXCEPT !.stamp = s])
      /\ n.ino # live[p].ino /\ P = p /\ b = live[p].ino => cur'.fd = [live[p] EXCEPT !.stamp = s]
  BY <1>0, <1>1, HandEdited DEF EntryPc
<1>4. /\ Opened = IF live[P].ino = b THEN live[P] ELSE cur.fd
      /\ Opened' = IF live'[P].ino = b THEN live'[P] ELSE cur'.fd
  BY <1>0, <1>3 DEF Opened
<1>5. CASE live[P].ino # b
  <2>1. cur' = cur
    BY <1>3, <1>5
  <2>2. live'[P].ino # b
    BY <1>1, <1>2, <1>5 DEF InPlace, Replacing
  <2> QED BY <1>4, <1>5, <2>1, <2>2
<1>6. CASE live[P].ino = b /\ P # p
  <2>1. Parent[p] \in Dirs /\ P # Parent[p]
    BY <1>1, SnapshotTypes, PathsAreATree
  <2> QED BY <1>1, <1>2, <1>4, <1>6, <2>1
<1>7. CASE live[P].ino = b /\ P = p /\ InPlace(p, n)
  <2>1. n.ino = b /\ n.kind = "file"
    BY <1>7 DEF InPlace
  <2> QED BY <1>0, <1>2, <1>4, <1>7, <2>1
<1>8. CASE live[P].ino = b /\ P = p /\ Replacing(p, n)
  <2>1. n.ino # b
    BY <1>1, <1>8 DEF Replacing
  <2>2. Opened = live[p] /\ Opened' = [live[p] EXCEPT !.stamp = s]
    BY <1>2, <1>3, <1>4, <1>8, <2>1
  <2>3. live[p] \in Node
    BY DEF IInv, Environment
  <2>4. [live[p] EXCEPT !.stamp = s].kind = live[p].kind /\ [live[p] EXCEPT !.stamp = s].data = live[p].data
        /\ [live[p] EXCEPT !.stamp = s].stamp = s
    BY <2>3 DEF Node
  <2> QED BY <2>2, <2>4
<1> QED BY <1>5, <1>6, <1>7, <1>8

\* A listing after an edit: what the edit did to a directory's names shows in its timestamp
LEMMA FrameEdited ==
    ASSUME IInv, KInv, NEW p \in Paths, NEW n \in Node, NEW s \in Nat, Becomes(p, n, s),
           InPlace(p, n) \/ Replacing(p, n), s >= clock, ~InPlace(p, n) => s > clock,
           UNCHANGED <<pc, frames, entries>>, pc \in EntryPc => cur'.path = cur.path,
           clock' = s, \A q \in Paths : listed[q] \subseteq listed'[q],
           NEW i \in DOMAIN frames
    PROVE  FrameOK(i)'
<1> DEFINE f == frames[i]
<1>0. PICK d : d = f.dir
  OBVIOUS
<1>1. FrameOK(i)
  BY DEF KInv, FramesOK
<1>2. /\ d \in Dirs /\ Depth(d) = i - 1 /\ i <= MaxDepth + 1
      /\ IF i = 1 THEN d = Root ELSE d # Root /\ d \in DOMAIN entries
      /\ f.present \in listed[d] /\ f.stat.stamp <= clock
      /\ \A q \in f.present \cup f.visited : Parent[q] = d /\ q # Root
      /\ live[d].stamp = f.stat.stamp => Children(live, d) = f.present /\ f.visited \subseteq f.present
      /\ In(d) = (f.visited \ Excluded) \ Pending(i)
  BY <1>0, <1>1 DEF FrameOK
<1>3. d \in Paths /\ clock \in Nat /\ f.stat.stamp \in Nat
  <2>1. frames \in Seq(Listing)
    BY DEF IInv, Walking
  <2>2. f \in Listing
    BY <2>1
  <2>3. f.stat.stamp \in Nat
    BY <2>2 DEF Listing, Stat
  <2> QED BY <1>2, <2>3 DEF Paths, IInv, Environment
<1>4. In(d)' = In(d) /\ Pending(i)' = Pending(i)
  BY DEF In, Pending
<1>5. /\ live'[p].kind = n.kind /\ live'[p].ino = n.ino /\ live'[p].stamp = s
      /\ \A q \in Paths \ {p} :
            /\ live'[q].kind = live[q].kind
            /\ \/ live'[q].stamp = live[q].stamp
               \/ n.ino # live[p].ino /\ q = Parent[p] /\ live'[q].stamp = s
      /\ n.ino # live[p].ino => live'[Parent[p]].stamp = s
  BY BecomesNodes DEF IInv
<1>6. live'[d].stamp = f.stat.stamp => live[d].stamp = f.stat.stamp /\ Children(live', d) = Children(live, d)
  <2>1. CASE InPlace(p, n)
    <3>1. p \in Files /\ n.ino = live[p].ino /\ n.kind = live[p].kind
      BY <2>1 DEF InPlace
    <3>2. d # p
      BY <1>2, <3>1, PathsAreATree
    <3>3. live'[d].stamp = live[d].stamp
      BY <1>3, <1>5, <3>1, <3>2
    <3>4. Children(live', d) = Children(live, d)
      BY <1>5, <3>1, ChildrenStay
    <3> QED BY <3>3, <3>4
  <2>2. CASE ~InPlace(p, n)
    <3>1. n.ino # live[p].ino
      <4>1. n.ino = 2 + edits /\ live[p].ino < 2 + edits
        BY <2>2 DEF Replacing, KInv, SourceOK
      <4>2. live[p].ino \in Nat /\ edits \in Nat
        BY DEF IInv, Environment, Node
      <4> QED BY <4>1, <4>2
    <3>2. s # f.stat.stamp
      BY <1>2, <1>3, <2>2
    <3>3. SUFFICES ASSUME live'[d].stamp = f.stat.stamp
                   PROVE live[d].stamp = f.stat.stamp /\ Children(live', d) = Children(live, d)
      OBVIOUS
    <3>4. d # p /\ d # Parent[p]
      BY <1>5, <3>1, <3>2, <3>3
    <3>5. live'[d].stamp = live[d].stamp
      BY <1>3, <1>5, <3>4
    <3>6. Children(live', d) = Children(live, d)
      BY <1>5, <3>4, ChildrenStay
    <3> QED BY <3>3, <3>5, <3>6
  <2> QED BY <2>1, <2>2
<1>7. f.present \in listed'[d] /\ f.stat.stamp <= clock' /\ frames'[i] = f
  BY <1>2, <1>3
<1> HIDE DEF f
<1>8. frames'[i].dir = d
  BY <1>0, <1>7
<1> QED BY <1>2, <1>4, <1>6, <1>7, <1>8 DEF FrameOK

\* What the read in progress has got after an edit
LEMMA ReadEdited ==
    ASSUME FewCoarseEdits, IInv, KInv, NEW p \in Paths, NEW n \in Node, NEW s \in Nat, Becomes(p, n, s),
           InPlace(p, n) \/ Replacing(p, n), s >= clock, ~situation.coarse => s > clock,
           edits < situation.edits, edits' = edits + 1, UNCHANGED <<pc, situation>>,
           pc \in ReadPc => /\ cur'.path = cur.path /\ cur'.before = cur.before /\ cur'.got = cur.got
                            /\ cur'.again = cur.again,
           clock' = s, \A q \in Paths : seen[q] \subseteq seen'[q], InPlace(p, n) => n.data \in seen'[p]
    PROVE  ReadOK'
<1>1. /\ clock \in Nat /\ edits \in Nat /\ situation \in Cases /\ situation.edits \in Nat
      /\ situation.coarse \in BOOLEAN /\ situation.coarse => situation.edits <= 2
  BY DEF IInv, Environment, KInv, SourceOK, Case, FewCoarseEdits
<1>2. SUFFICES ASSUME pc \in ReadPc PROVE ReadOK'
  BY DEF ReadOK, ReadPc
<1>3. /\ cur \in Copying /\ cur.path \in Paths /\ cur.got \in Seq(Chunk)
      /\ cur.before.stamp \in Nat /\ cur.before.ino \in Nat
      /\ cur.before.stamp <= clock /\ cur.before.ino < 2 + edits
  BY <1>2 DEF IInv, Walking, EntryPc, ReadPc, Copying, Stat, KInv, ReadOK
<1>4. cur'.before.stamp <= clock' /\ cur'.before.ino < 2 + edits'
  BY <1>1, <1>2, <1>3
<1>5. CASE pc = "open"
  BY <1>2, <1>4, <1>5 DEF KInv, ReadOK
<1>6. CASE pc \in {"copy", "validate"}
  <2>0. PICK P, o, g, x : P = cur.path /\ o = Opened /\ g = cur.got /\ x = Opened'
    OBVIOUS
  <2>1. \/ x.kind = o.kind /\ x.data = o.data /\ x.stamp \in {o.stamp, s}
        \/ /\ p = P /\ InPlace(p, n) /\ o.data = live[p].data
           /\ x.kind = "file" /\ x.data = n.data /\ x.stamp = s
    BY <1>6, <2>0, OpenedEdited
  <2>2. /\ o.kind = "file" /\ o.data \in seen[P] /\ P \in Paths /\ g \in Seq(Chunk)
        /\ ~situation.coarse /\ o.stamp = cur.before.stamp => Prefix(g, o.data)
    BY <1>3, <1>6, <2>0 DEF KInv, ReadOK
  <2>3. x.kind = "file" /\ x.data \in seen'[P]
    BY <2>1, <2>2
  <2>4. ASSUME ~situation.coarse, x.stamp = cur.before.stamp PROVE Prefix(g, x.data)
    <3>1. x.stamp # s
      BY <1>1, <1>3, <2>4
    <3> QED BY <2>1, <2>2, <2>4, <3>1
  <2>5. ASSUME pc = "copy", situation.coarse, edits' = 1 PROVE Mend(g, x.data) \in seen'[P]
    <3>1. Prefix(g, o.data)
      BY <1>1, <2>0, <2>5 DEF KInv, ReadOK
    <3>2. o.data \in Seq(Chunk)
      BY <2>2 DEF KInv, SourceOK
    <3>3. CASE x.data = o.data
      BY <2>2, <2>3, <3>1, <3>2, <3>3, MendAfter
    <3>4. CASE InPlace(p, n) /\ o.data = live[p].data /\ x.data = n.data
      <4>1. \/ n.data = live[p].data
            \/ \E i \in DOMAIN live[p].data, v \in Chunk : n.data = [live[p].data EXCEPT ![i] = v]
            \/ n.data = Append(live[p].data, 1)
        BY <3>4 DEF InPlace
      <4>2. Mend(g, n.data) \in {live[p].data, n.data}
        BY <2>2, <3>1, <3>2, <3>4, <4>1, MendAfter
      <4> QED BY <2>2, <2>3, <3>4, <4>2
    <3> QED BY <2>1, <3>3, <3>4
  <2>6. ASSUME pc = "validate", situation.coarse PROVE g \in seen'[P]
    <3>1. ~(edits >= 2)
      BY <1>1, <2>6
    <3>2. g \in seen[P]
      BY <2>0, <2>6, <3>1 DEF KInv, ReadOK
    <3> QED BY <2>2, <3>2
  <2>7. cur'.path = P /\ cur'.got = g /\ cur'.before = cur.before /\ cur'.again = cur.again
    BY <1>2, <2>0
  <2>8. pc = "copy" => cur.again = <<>>
    BY DEF KInv, ReadOK
  <2>9. edits' # 0
    BY <1>1
  <2> QED BY <1>4, <1>6, <2>0, <2>3, <2>4, <2>5, <2>6, <2>7, <2>8, <2>9 DEF ReadOK
<1> QED BY <1>2, <1>5, <1>6 DEF ReadPc

\* The owner edits the source: what has been listed and read stays accounted for
LEMMA EditCopies == FewCoarseEdits /\ IInv /\ KInv /\ Edit => KInv'
<1> SUFFICES ASSUME FewCoarseEdits, IInv, KInv, Edit PROVE KInv'
  OBVIOUS
<1>1. PICK e \in situation.kinds, p \in Paths, s \in Ticks : \E n \in Edited(e, p) : Becomes(p, n, s)
  BY DEF Edit
<1>2. PICK n \in Edited(e, p) : Becomes(p, n, s)
  BY <1>1
<1>3. /\ edits < situation.edits /\ edits' = edits + 1
      /\ UNCHANGED <<situation, head, moves, pc, kind, ws, frames, entries, count>>
  BY DEF Edit
<1>4. n \in Node /\ clock \in Nat
  BY <1>2, EditedType DEF IInv, Environment
<1>5. s \in Nat /\ s >= clock /\ (~situation.coarse => s > clock)
  BY <1>4 DEF Ticks
<1>6. InPlace(p, n) \/ (e \notin {"write", "append", "chmod"} /\ Replacing(p, n))
  BY EditedIs DEF IInv
<1>7. ~InPlace(p, n) => s > clock
  <2>1. situation.coarse => e \in {"write", "append", "chmod"}
    BY DEF FewCoarseEdits, KInv, SourceOK
  <2> QED BY <1>5, <1>6, <2>1
<1>8. /\ SourceOK' /\ clock' = s
      /\ \A q \in Paths : seen[q] \subseteq seen'[q] /\ listed[q] \subseteq listed'[q]
      /\ InPlace(p, n) => n.data \in seen'[p]
  BY <1>2, <1>3, <1>4, <1>5, <1>6, SourceEdited
<1>9. pc \in EntryPc => /\ cur'.path = cur.path /\ cur'.before = cur.before /\ cur'.got = cur.got
                        /\ cur'.again = cur.again
  BY <1>2, HandEdited
<1>10. FramesOK'
  <2>1. \A i \in DOMAIN frames : FrameOK(i)'
    BY <1>2, <1>3, <1>4, <1>5, <1>6, <1>7, <1>8, <1>9, FrameEdited
  <2>2. Top' = Top
    BY <1>3 DEF Top
  <2> QED BY <1>3, <1>9, <2>1, <2>2 DEF KInv, FramesOK, EntryPc, ReadPc
<1>11. EntriesOK'
  <2> SUFFICES ASSUME Walked' PROVE EntriesOK'
    BY DEF EntriesOK
  <2>1. Walked
    BY <1>3 DEF Walked
  <2>2. Tidy(entries)
    BY DEF KInv, DiskOK
  <2>3. \A q \in DOMAIN entries : entries[q].type = "file" => entries[q].data \in seen'[q]
    BY <1>8, <2>1, <2>2 DEF KInv, EntriesOK, Tidy
  <2>4. \A d \in Dirs : (Open(d)' <=> Open(d)) /\ (Settled(d) => Settled(d)')
    BY <1>3, <1>8 DEF Open, Settled, In, Paths
  <2> QED BY <1>3, <2>1, <2>3, <2>4 DEF KInv, EntriesOK
<1>12. MatchOK'
  BY <1>3 DEF KInv, MatchOK
<1>13. ReadOK'
  BY <1>2, <1>3, <1>4, <1>5, <1>6, <1>8, <1>9, ReadEdited DEF ReadPc, EntryPc
<1>14. CountOK'
  <2>1. Written' = Written
    BY <1>3 DEF Written
  <2> QED BY <1>3, <1>9, <2>1 DEF KInv, CountOK, ReadPc, EntryPc
<1>15. DiskOK'
  BY <1>3 DEF KInv, DiskOK, DiskWithinBudget, Written
<1> QED BY <1>8, <1>10, <1>11, <1>12, <1>13, <1>14, <1>15 DEF KInv

\* Nothing changes but HEAD
LEMMA StillCopies ==
    ASSUME KInv, SourceOK', UNCHANGED <<live, clock, edits, situation, seen, listed, pc, kind, ws, walk>>
    PROVE  KInv'
<1>1. UNCHANGED <<frames, cur, entries, count>>
  BY DEF walk
<1>2. \A i \in DOMAIN frames : FrameOK(i) => FrameOK(i)'
  BY <1>1 DEF FrameOK, In, Pending, Children
<1>3. FramesOK'
  BY <1>1, <1>2 DEF KInv, FramesOK, Top
<1>4. EntriesOK' /\ MatchOK'
  BY <1>1 DEF KInv, EntriesOK, MatchOK, Walked, Open, Settled, In
<1>5. ReadOK'
  <2>1. Opened' = Opened
    BY <1>1 DEF Opened
  <2> QED BY <1>1, <2>1 DEF KInv, ReadOK
<1>6. CountOK' /\ DiskOK'
  BY <1>1 DEF KInv, CountOK, DiskOK, DiskWithinBudget, Written
<1> QED BY <1>3, <1>4, <1>5, <1>6 DEF KInv

\* HEAD moves
LEMMA MoveHeadCopies == IInv /\ KInv /\ MoveHead => KInv'
<1> SUFFICES ASSUME IInv, KInv, MoveHead PROVE KInv'
  OBVIOUS
<1>1. /\ head' \in Commits /\ moves < situation.moves /\ moves' = moves + 1
      /\ UNCHANGED <<situation, live, edits, clock, seen, listed, pc, kind, ws, walk>>
  BY DEF MoveHead
<1>2. moves \in Nat /\ situation.moves \in Nat
  BY DEF IInv, Environment, Case
<1>3. SourceOK'
  BY <1>1, <1>2 DEF KInv, SourceOK, Children
<1> QED BY <1>1, <1>3, StillCopies

\* No step at all
LEMMA StutterCopies == KInv /\ UNCHANGED vars => KInv'
<1> SUFFICES ASSUME KInv, UNCHANGED vars PROVE KInv'
  OBVIOUS
<1>1. UNCHANGED environment /\ UNCHANGED <<pc, kind, ws, walk>>
  BY DEF vars
<1>2. SourceOK'
  BY <1>1, SourceStays DEF KInv
<1> QED BY <1>1, <1>2, StillCopies DEF environment

\* The command changes its copy
LEMMA TamperCopies == IInv /\ KInv /\ Tamper => KInv'
<1> SUFFICES ASSUME IInv, KInv, Tamper PROVE KInv'
  OBVIOUS
<1>1. /\ pc = "in_use" /\ edits < situation.edits /\ edits' = edits + 1
      /\ UNCHANGED <<situation, live, head, moves, clock, seen, listed, pc, kind, frames, cur, entries, count>>
  BY DEF Tamper, walk
<1>2. PICK p \in Paths \ {Root}, t \in {FileEntry(<<1>>, "100644"), FileEntry(<<0>>, "100755"),
                                        [DirEntry EXCEPT !.type = "link"], NULL} :
         ws' = [ws EXCEPT !.copy = IF t = NULL THEN [q \in DOMAIN @ \ {p} |-> @[q]] ELSE Put(@, p, t)]
  BY DEF Tamper
<1> DEFINE x == IF t = NULL THEN [q \in DOMAIN ws.copy \ {p} |-> ws.copy[q]] ELSE Put(ws.copy, p, t)
<1>3. Workspace(ws) /\ ws' = [ws EXCEPT !.copy = x]
  BY <1>2 DEF IInv, Attempted
<1>4. Tidy(x)
  <2>1. Tidy(ws.copy)
    BY DEF KInv, DiskOK
  <2>2. CASE t = NULL
    <3>1. DOMAIN x \subseteq DOMAIN ws.copy /\ \A q \in DOMAIN x : x[q] = ws.copy[q]
      BY <2>2
    <3> HIDE DEF x
    <3>2. IsFiniteSet(DOMAIN x)
      BY <2>1, <3>1, FS_Subset DEF Tidy
    <3> QED BY <2>1, <3>1, <3>2 DEF Tidy
  <2>3. CASE t # NULL
    <3>1. /\ FileEntry(<<1>>, "100644") \in DiskEntry /\ FileEntry(<<0>>, "100755") \in DiskEntry
          /\ [DirEntry EXCEPT !.type = "link"] \in DiskEntry
      <4>1. <<1>> \in Seq(Chunk) /\ <<0>> \in Seq(Chunk) /\ <<>> \in Seq(Chunk)
        BY DEF Chunk
      <4>2. FileEntry(<<1>>, "100644") \in DiskEntry /\ FileEntry(<<0>>, "100755") \in DiskEntry
        BY <4>1, EntryFields DEF Modes
      <4>3. [DirEntry EXCEPT !.type = "link"] = [type |-> "link", mode |-> "040755", data |-> <<>>]
        BY DEF DirEntry
      <4>4. [type |-> "link", mode |-> "040755", data |-> <<>>] \in DiskEntry
        BY <4>1 DEF DiskEntry
      <4> QED BY <4>2, <4>3, <4>4
    <3>2. t \in DiskEntry
      BY <2>3, <3>1
    <3> QED BY <2>1, <2>3, <3>2, PutTree
  <2> QED BY <2>2, <2>3
<1> HIDE DEF x
<1>5. Differs(ws, ws', {"copy"}) /\ ws'.copy = x
  BY <1>3, AssignCopy
<1>6. ws'.comparison = ws.comparison /\ ws'.exported = ws.exported /\ ws'.cleanup = ws.cleanup
  BY <1>5 DEF Differs
<1>7. SourceOK'
  <2>1. edits \in Nat /\ situation.edits \in Nat /\ \A q \in Paths : live[q].ino \in Nat
    BY DEF IInv, Environment, Case, Node
  <2> QED BY <1>1, <2>1 DEF KInv, SourceOK, Children
<1>8. FramesOK'
  BY <1>1 DEF KInv, FramesOK, ListPc, EntryPc, ReadPc
<1>9. EntriesOK' /\ MatchOK' /\ ReadOK'
  BY <1>1 DEF EntriesOK, MatchOK, ReadOK, Walked, ListPc, EntryPc, AsidePc, FreshPc, ReadPc
<1>10. CountOK'
  BY <1>1 DEF KInv, CountOK, ReadPc
<1>11. DiskOK'
  <2>1. Tidy(ws'.copy) /\ Tidy(ws'.comparison) /\ Tidy(ws'.exported) /\ Tidy(entries')
    BY <1>1, <1>4, <1>5, <1>6 DEF KInv, DiskOK
  <2> QED BY <1>1, <1>6, <2>1 DEF KInv, DiskOK, DiskWithinBudget
<1> QED BY <1>7, <1>8, <1>9, <1>10, <1>11 DEF KInv

\* Intake starts with a source that is as listed and nothing on disk
LEMMA InitCopies == Init => KInv
<1> SUFFICES ASSUME Init PROVE KInv
  OBVIOUS
<1>1. /\ live = [p \in Paths |-> Node0(p, Start[p])] /\ situation \in Cases
      /\ edits = 0 /\ moves = 0 /\ clock = 0 /\ pc = "start" /\ kind = "filesystem" /\ ws = EmptyWorkspace
      /\ frames = <<>> /\ entries = <<>> /\ count = [files |-> 0, dirs |-> 1, paths |-> 0, total |-> 0]
      /\ seen = [p \in Paths |-> IF live[p].kind = "file" THEN {live[p].data} ELSE {}]
      /\ listed = [p \in Paths |-> {Children(live, p)}]
  BY DEF Init
<1>2. head \in Commits
  <2>1. (CHOOSE c \in Commits : TRUE) \in Commits
    BY TreesAreFinite
  <2> QED BY <2>1 DEF Init
<1>3. \A p \in Paths : /\ live[p].stamp = 0 /\ live[p].ino = 1 /\ live[p].data \in Seq(Chunk)
                       /\ live[p].kind = "file" => p \in Files /\ live[p].data \in seen[p]
                       /\ live[p].kind = "dir" => p \in Dirs
  <2> TAKE p \in Paths
  <2>1. Start[p] \in Seq(Chunk) \cup {NULL} /\ live[p] = Node0(p, Start[p])
    BY <1>1, SnapshotTypes
  <2>2. /\ live[p].stamp = 0 /\ live[p].ino = 1
        /\ live[p].data = IF Start[p] = NULL THEN <<>> ELSE Start[p]
        /\ live[p].kind = IF Start[p] = NULL THEN "none" ELSE IF p \in Dirs THEN "dir" ELSE "file"
    BY <2>1 DEF Node0
  <2>3. live[p].data \in Seq(Chunk)
    BY <2>1, <2>2
  <2>4. live[p].kind = "file" => seen[p] = {live[p].data}
    BY <1>1
  <2> QED BY <2>2, <2>3, <2>4 DEF Paths
<1>4. SourceOK
  <2>1. situation.edits \in Nat /\ situation.moves \in Nat
    BY <1>1, SnapshotConstants DEF Case
  <2>2. seen \in [Paths -> SUBSET Seq(Chunk)]
    BY <1>1, <1>3, ZenonT(30)
  <2>3. listed \in [Paths -> SUBSET SUBSET Paths] /\ \A d \in Dirs : Children(live, d) \in listed[d]
    BY <1>1 DEF Children, Paths
  <2>4. edits <= situation.edits /\ moves <= situation.moves
    BY <1>1, <2>1
  <2>5. \A p \in Paths : /\ live[p].stamp <= clock /\ live[p].ino < 2 + edits
                         /\ live[p].kind = "file" => p \in Files /\ live[p].data \in seen[p]
                         /\ live[p].kind = "dir" => p \in Dirs
    <3>1. clock = 0 /\ edits = 0
      BY <1>1
    <3> QED BY <1>3, <3>1
  <2>6. situation \in Cases
    BY <1>1
  <2> QED BY <1>2, <2>2, <2>3, <2>4, <2>5, <2>6 DEF SourceOK
<1>5. FramesOK /\ EntriesOK /\ MatchOK /\ ReadOK
  BY <1>1 DEF FramesOK, EntriesOK, MatchOK, ReadOK, Walked, ListPc, EntryPc, AsidePc, FreshPc, ReadPc
<1>6. CountOK
  BY <1>1, SnapshotConstants DEF CountOK, ReadPc
<1>7. DiskOK
  <2>1. /\ ws.copy = <<>> /\ ws.comparison = <<>> /\ ws.exported = <<>> /\ ws.cleanup = "not_started"
    BY <1>1 DEF EmptyWorkspace
  <2>2. Tidy(<<>>) /\ Size(<<>>) = 0
    BY EmptyTree
  <2> QED BY <1>1, <2>1, <2>2, SnapshotConstants DEF DiskOK, DiskWithinBudget
<1> QED BY <1>4, <1>5, <1>6, <1>7 DEF KInv

----------------------------------------------------------------------------
\* The second invariant holds too, where changes that may share a timestamp are few and in place
THEOREM CopyInvariance == ASSUME FewCoarseEdits PROVE Spec => []KInv
<1>1. Init => KInv
  BY InitCopies
<1>2. IInv /\ KInv /\ [Next]_vars => KInv'
  <2> SUFFICES ASSUME IInv, KInv, [Next]_vars PROVE KInv'
    OBVIOUS
  <2>1. CASE CreateVerifiedSnapshot \/ OSErrorAnywhere
    BY <2>1, CreateVerifiedSnapshotCopies, OSErrorAnywhereCopies
  <2>2. CASE ResolveCommit \/ ResolveTree \/ GitTreeEntries \/ ExportGitBlobs
    BY <2>2, ResolveCommitCopies, ResolveTreeCopies, GitTreeEntriesCopies, ExportGitBlobsCopies
  <2>3. CASE WalkBegin \/ ListNext \/ ListEnd \/ OpenDirectory \/ OpenFile
    BY <2>3, WalkBeginCopies, ListNextCopies, ListEndCopies, OpenDirectoryCopies, OpenFileCopies
  <2>4. CASE CopyChunk \/ ValidateChunk
    BY <2>4, CopyChunkCopies, ValidateChunkCopies
  <2>5. CASE CompareWorktree \/ RecheckCommit \/ RecheckTree
    BY <2>5, CompareWorktreeCopies, RecheckCommitCopies, RecheckTreeCopies
  <2>6. CASE FinishSnapshot \/ RecheckRoot
    BY <2>6, FinishSnapshotCopies, RecheckRootCopies
  <2>7. CASE StaticFallback \/ LinkedBegin \/ LinkedEnd \/ HandOver
    BY <2>7, StaticFallbackCopies, LinkedBeginCopies, LinkedEndCopies, HandOverCopies
  <2>8. CASE UseBegin \/ UseEnd \/ CleanupWorkspace
    BY <2>8, UseCopies, CleanupWorkspaceCopies
  <2>9. CASE Edit \/ MoveHead \/ Tamper
    BY <2>9, EditCopies, MoveHeadCopies, TamperCopies
  <2>10. CASE Done \/ UNCHANGED vars
    BY <2>10, StutterCopies DEF Done
  <2> QED BY <2>1, <2>2, <2>3, <2>4, <2>5, <2>6, <2>7, <2>8, <2>9, <2>10 DEF Next, Step
<1> QED BY <1>1, <1>2, Invariance, PTL DEF Spec

\* The names and contents of a verified snapshot were in the source, directory by directory and file by file,
\* each at one moment of intake, and copying them kept to the budgets, whatever the tree, the budgets and the
\* edits: the owner may change anything at any step, as often as it likes, where every change has a timestamp
\* of its own.  Where changes may share one, there are at most two and they change files in place
\* (_copy_tree, _copy_regular_file, _same_directory)
THEOREM CopyWasRealHolds == ASSUME FewCoarseEdits PROVE Spec => []CopyWasReal
<1>1. IInv /\ KInv => TypeOK
  <2> SUFFICES ASSUME IInv, KInv PROVE TypeOK
    OBVIOUS
  <2>1. \A p \in Paths : live[p].kind \in {"file", "dir", "link", "special", "none"}
    BY DEF IInv, Environment, Node, Kinds
  <2>2. head \in Commits /\ edits \in 0..situation.edits /\ moves \in 0..situation.moves
    BY DEF IInv, Environment, Case, KInv, SourceOK
  <2>3. ASSUME NEW m, Tidy(m), NEW p \in DOMAIN m
        PROVE  p \in Paths \ {Root} /\ m[p].type \in {"file", "directory", "link"}
    BY <2>3 DEF Tidy, DiskEntry
  <2>4. \A m \in {ws.copy, ws.comparison, ws.exported, entries} : \A p \in DOMAIN m :
           p \in Paths \ {Root} /\ m[p].type \in {"file", "directory", "link"}
    BY <2>3 DEF KInv, DiskOK
  <2>5. count.files \in 0..MaxFiles /\ count.dirs \in 0..MaxDirs /\ count.paths \in 0..MaxPaths
    BY DEF KInv, CountOK
  <2>6. roots \in Nat
    BY DEF IInv, Released
  <2>7. Len(frames) <= MaxDepth + 1
    <3>1. Len(frames) \in Nat /\ DOMAIN frames = 1..Len(frames)
      BY DEF IInv, Walking
    <3>2. CASE Len(frames) = 0
      BY <3>2, SnapshotConstants
    <3>3. CASE Len(frames) # 0
      <4>1. Len(frames) \in DOMAIN frames
        BY <3>1, <3>3
      <4>2. FrameOK(Len(frames))
        BY <4>1 DEF KInv, FramesOK
      <4> QED BY <4>2 DEF FrameOK
    <3> QED BY <3>2, <3>3
  <2>8. kind \in {"git", "filesystem"} /\ ws.cleanup \in {"not_started", "ok", "failed"}
    BY DEF IInv, Attempted, KInv, DiskOK
  <2> QED BY <2>1, <2>2, <2>4, <2>5, <2>6, <2>7, <2>8 DEF TypeOK
<1>2. KInv /\ Fresh => frames = <<>> /\ Walked /\ ws.snapshot.manifest = entries
  BY DEF KInv, FramesOK, MatchOK, Fresh, Walked, FreshPc, ListPc, EntryPc
<1>3. KInv => ListingWasReal
  <2> SUFFICES ASSUME KInv, Fresh, NEW d \in Dirs, d = Root \/ d \in DOMAIN ws.snapshot.manifest
               PROVE  \E names \in listed[d] :
                         names \ Excluded = {p \in DOMAIN ws.snapshot.manifest : Parent[p] = d}
    BY DEF ListingWasReal
  <2>1. Open(d) \/ Settled(d)
    BY <1>2 DEF KInv, EntriesOK
  <2>2. ~Open(d)
    BY <1>2 DEF Open
  <2> QED BY <1>2, <2>1, <2>2 DEF Settled, In
<1>4. KInv => CopiedContentWasReal
  BY <1>2 DEF KInv, EntriesOK, CopiedContentWasReal
<1>5. IInv /\ KInv => CopyWasReal
  BY <1>1, <1>3, <1>4 DEF CopyWasReal, KInv, DiskOK
<1> QED BY <1>5, Invariance, CopyInvariance, PTL
=============================================================================
