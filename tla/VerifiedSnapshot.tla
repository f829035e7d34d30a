-------------------------- MODULE VerifiedSnapshot --------------------------
(***************************************************************************)
(* Snapshot intake of run_workspace.py: a source tree is copied into a     *)
(* private directory while its owner may edit it, a Git worktree is        *)
(* accepted only if it equals the commit it was exported from, a static    *)
(* scan falls back to the bare files, and the copy is checked again after  *)
(* a command used it.                                                      *)
(*                                                                         *)
(* A file's content is a sequence of chunks; SHA-256 and Git object ids    *)
(* are ideal, so a digest is the content itself.  A manifest is a function *)
(* from paths, which is the sorted, duplicate-free list of _sort_manifest. *)
(* The filesystem, its owner and the git binary are external.              *)
(***************************************************************************)
EXTENDS Integers, FiniteSets, Sequences, PythonValues

CONSTANTS
    Files, Dirs, Root,  \* the paths that may exist, Root \in Dirs
    Parent,             \* the directory each other path is in
    Excluded,           \* paths the copy policy leaves out
    AuthFile,           \* the authorization control file, a member of Excluded
    Start,              \* the tree when intake begins: path -> data, or NULL
    Commits, Tree,      \* Tree[c]: file -> [data, mode] of a commit
    Cases,              \* the situations intake is run in, members of Case
    MaxFiles, MaxDirs, MaxDepth, MaxPaths, MaxFileSize, MaxTotal  \* CopyBudget

AllEdits == {"write", "append", "chmod", "replace", "link", "remove", "add", "swapdir"}

(***************************************************************************)
(* How the source looks to _looks_like_direct_git_repository (a .git       *)
(* directory, a .git file, neither), whether create_static_scan_snapshot   *)
(* is called or create_verified_snapshot, whether two changes may carry    *)
(* one timestamp, what the owner does and how often at most, and how often *)
(* HEAD moves at most.                                                     *)
(***************************************************************************)
Case == [layout : {"direct", "linked", "none"}, static : BOOLEAN, coarse : BOOLEAN,
         kinds : SUBSET AllEdits, edits : Nat, moves : Nat]

ASSUME SnapshotConstants ==
    /\ Root \in Dirs /\ Excluded \subseteq Files \cup Dirs /\ AuthFile \in Excluded
    /\ Cases \subseteq Case
    /\ {MaxFiles, MaxDirs, MaxDepth, MaxPaths, MaxFileSize, MaxTotal} \subseteq Nat \ {0}

VARIABLES
    live,      \* the source tree: path -> node
    situation, \* the one of Cases this is
    head,      \* the commit HEAD names
    edits, moves, clock,
    pc,        \* the next step of intake
    kind,      \* "git" or "filesystem": which way this attempt goes
    ws,        \* the DisposableWorkspace
    frames,    \* the directories being listed, outermost first
    cur,       \* the entry being copied
    entries,   \* manifest entries of the walk
    count,     \* counters of the walk's workspace
    rootStat,  \* lstat of the source before the copy
    attempt,   \* strict or fallback, and the tracked paths carried along
    roots,     \* temporary directories on disk
    used,      \* what a command left and what the checks after it said
    seen,      \* history: the contents each file had as a regular file
    listed,    \* history: the sets of names each directory had
    heads      \* history: the commits HEAD named

environment == <<situation, live, head, edits, moves, clock, seen, listed, heads>>
walk == <<frames, cur, entries, count>>
vars == <<environment, pc, kind, ws, walk, rootStat, attempt, roots, used>>

Paths == Files \cup Dirs
Chunk == {0, 1}
Modes == {"100644", "100755"}

\* SnapshotManifestEntry, a manifest, and a VerifiedSnapshot of bare files: no commit and no tree
Entry == [type : {"file", "directory"}, mode : Modes \cup {"040755"}, data : Seq(Chunk)]
Manifest == UNION {[S -> Entry] : S \in SUBSET Paths}
FilesystemSnapshot == [manifest : Manifest, kind : {"filesystem"}, commit : {NULL}, tree : {NULL},
                       tracked : SUBSET Paths]

ASSUME SnapshotTypes ==
    /\ Parent \in [Paths -> Dirs]
    /\ Start \in [Paths -> Seq(Chunk) \cup {NULL}]
    /\ \A c \in Commits : DOMAIN Tree[c] \subseteq Files
    /\ NULL \notin FilesystemSnapshot

Above[p \in Paths] == IF p = Root THEN {} ELSE {Parent[p]} \cup Above[Parent[p]]
Depth(p) == Cardinality(Above[p])

\* Directories are a tree below the root
ASSUME PathsAreATree ==
    /\ Files \cap Dirs = {} /\ Above[Root] = {}
    /\ \A p \in Paths \ {Root} :
          /\ Above[p] = {Parent[p]} \cup Above[Parent[p]] /\ Parent[p] \notin Above[Parent[p]]
          /\ Above[p] \subseteq Dirs /\ IsFiniteSet(Above[p])

Children(t, d) == {p \in Paths \ {Root} : Parent[p] = d /\ t[p].kind # "none"}
\* The chunks a tree holds, each by its place, and their number
Chunks(m) == UNION {{p} \X DOMAIN m[p].data : p \in DOMAIN m}
Size(m) == Cardinality(Chunks(m))

\* os.stat_result as the comparisons use it
Meta(n) == [kind |-> n.kind, ino |-> n.ino, mode |-> n.mode, size |-> Len(n.data), stamp |-> n.stamp]
SameIdentity(a, b) == a.ino = b.ino
SameFileMetadata(a, b) == SameIdentity(a, b) /\ a.kind = "file" /\ a = b
SameDirectory(a, b) == SameIdentity(a, b) /\ {a.kind, b.kind} = {"dir"} /\ a.stamp = b.stamp

\* SnapshotManifestEntry of a directory, and of a file with canonical mode
DirEntry == [type |-> "directory", mode |-> "040755", data |-> <<>>]
FileEntry(data, mode) == [type |-> "file", mode |-> mode, data |-> data]

\* The manifest m with the entry e for p
Put(m, p, e) == [q \in DOMAIN m \cup {p} |-> IF q = p THEN e ELSE m[q]]

EmptyWorkspace == [copy |-> <<>>, comparison |-> <<>>, snapshot |-> NULL, refusals |-> {},
                   exceeded |-> FALSE, commit |-> NULL, tree |-> NULL, tracked |-> {},
                   exported |-> <<>>, cleanup |-> "not_started"]

BudgetReasons == {"max_file_count", "max_directory_count", "max_depth",
                  "max_manifest_path_bytes", "max_file_bytes", "max_total_bytes"}

\* HEAD names a commit, a commit has finitely many blobs, and None is no reason
ASSUME TreesAreFinite ==
    /\ Commits # {} /\ NULL \notin BudgetReasons
    /\ \A c \in Commits : IsFiniteSet(DOMAIN Tree[c]) /\ \A f \in DOMAIN Tree[c] : Tree[c][f].data \in Seq(Chunk)

\* DisposableWorkspace.copy_safety_ok
CopySafetyOk(w) == w.snapshot # NULL /\ ~w.exceeded /\ w.refusals = {}

----------------------------------------------------------------------------
(***************************************************************************)
(* Refusal: recorded, the partial copy thrown away.  A budget refusal of   *)
(* the live comparison is recorded in the comparison's own workspace only. *)
(***************************************************************************)
\* Mutant: the snapshot published by _finish_snapshot survives a later refusal
InvalidatePartialWorkspace_Keeps(w, emptied) ==
    [w EXCEPT !.copy = IF emptied THEN <<>> ELSE @,
              !.refusals = @ \cup IF emptied THEN {} ELSE {"partial_snapshot_cleanup_failed"}]

InvalidatePartialWorkspace(w, emptied) ==
    [w EXCEPT !.snapshot = NULL,
              !.copy = IF emptied THEN <<>> ELSE @,
              !.refusals = @ \cup IF emptied THEN {} ELSE {"partial_snapshot_cleanup_failed"}]

RecordRefusal(w, reason, own) ==
    [w EXCEPT !.refusals = @ \cup {reason}, !.exceeded = @ \/ (own /\ reason \in BudgetReasons)]

RefuseIn(w, reason, own) ==
    /\ \E emptied \in BOOLEAN :
          ws' = InvalidatePartialWorkspace(RecordRefusal(w, reason, own), emptied)
    /\ pc' = "returned" /\ frames' = <<>> /\ cur' = NULL
    /\ UNCHANGED <<kind, entries, count, rootStat, attempt, roots, used, environment>>

Refuse(reason) == RefuseIn(ws, reason, kind = "filesystem")

\* create_verified_snapshot up to the choice of a source kind
CreateVerifiedSnapshot ==
    /\ pc = "start"
    /\ roots' = roots + 1
    /\ rootStat' = Meta(live[Root])
    /\ kind' = IF situation.layout = "direct" /\ attempt.n = 1 THEN "git" ELSE "filesystem"
    /\ pc' = IF kind' = "git" THEN "commit" ELSE "walk"
    /\ ws' = EmptyWorkspace
    /\ UNCHANGED <<walk, attempt, used, environment>>

\* An OSError in any step, or a git command that fails, is killed or times out
OSErrorAnywhere ==
    /\ pc \in {"tree", "export", "walk", "list", "opendir", "open", "copy", "validate",
               "finish", "recheck_root"}
    /\ Refuse(IF pc \in {"tree", "export"} THEN "git_command_failed" ELSE "snapshot_filesystem_error")

----------------------------------------------------------------------------
(***************************************************************************)
(* _create_git_snapshot: commit and tree are resolved by two commands, the *)
(* tree is listed, its blobs are exported, and the live files are copied   *)
(* aside to be compared.                                                   *)
(***************************************************************************)
\* _git_object_id: None when the command fails or prints something else
GitObjectId(id) == {id, NULL}

ResolveCommit ==
    /\ pc = "commit"
    /\ \E c \in GitObjectId(head) : ws' = [ws EXCEPT !.commit = c]
    /\ pc' = "resolve_tree"
    /\ UNCHANGED <<kind, walk, rootStat, attempt, roots, used, environment>>

\* The tree is named by the commit it belongs to: equal trees are equal objects
ResolveTree ==
    /\ pc = "resolve_tree"
    /\ \E t \in GitObjectId(Tree[head]) :
         IF ws.commit = NULL \/ t = NULL
         THEN RefuseIn([ws EXCEPT !.tree = t], "git_subject_unresolved", TRUE)
         ELSE /\ ws' = [ws EXCEPT !.tree = t] /\ pc' = "tree"
              /\ UNCHANGED <<kind, walk, rootStat, attempt, roots, used, environment>>

\* _path_exclusion_category
ExcludedPath(p) == ({p} \cup Above[p]) \cap Excluded # {}

Kept(t) == {f \in DOMAIN t : ~ExcludedPath(f)}

\* The directories _create_git_destination_directories makes
TreeDirs(fs) == (UNION {Above[f] : f \in fs}) \ {Root}

\* What _git_tree_entries refuses; which of several it meets first depends on names
GitTreeRefusals(t) ==
    LET budget == {<<Cardinality(DOMAIN t) > MaxFiles, "max_file_count">>,
                   <<Cardinality(TreeDirs(DOMAIN t)) + 1 > MaxDirs, "max_directory_count">>,
                   <<Cardinality(DOMAIN t) + Cardinality(TreeDirs(DOMAIN t)) > MaxPaths,
                     "max_manifest_path_bytes">>,
                   <<\E f \in DOMAIN t : Depth(f) - 1 > MaxDepth, "max_depth">>,
                   <<\E f \in Kept(t) : Len(t[f].data) > MaxFileSize, "max_file_bytes">>,
                   <<Size([f \in Kept(t) |-> t[f]]) > MaxTotal, "max_total_bytes">>}
        shape == {<<\E f \in DOMAIN t : t[f].mode \notin Modes, "git_tree_unsupported_entry">>,
                  <<AuthFile \in DOMAIN t, "tracked_authorization_artifact_refused">>}
    IN {r[2] : r \in {q \in budget \cup shape : q[1]}}

GitTreeEntries ==
    /\ pc = "tree"
    /\ LET refused == GitTreeRefusals(ws.tree)
       IN IF refused # {}
          THEN \E r \in refused, paths \in SUBSET DOMAIN ws.tree :
                  RefuseIn([ws EXCEPT !.tracked = paths], r, TRUE)
          ELSE /\ ws' = [ws EXCEPT !.tracked = DOMAIN ws.tree] /\ pc' = "export"
               /\ UNCHANGED <<kind, walk, rootStat, attempt, roots, used, environment>>

\* The manifest of the exported blobs: their files and the directories above them
Exported(t) == [p \in Kept(t) \cup TreeDirs(Kept(t)) |->
                  IF p \in Kept(t) THEN FileEntry(t[p].data, t[p].mode) ELSE DirEntry]

ExportGitBlobs ==
    /\ pc = "export"
    /\ ws' = [ws EXCEPT !.copy = Exported(ws.tree), !.exported = Exported(ws.tree)]
    /\ pc' = "walk"
    /\ UNCHANGED <<kind, walk, rootStat, attempt, roots, used, environment>>

CompareWorktree ==
    /\ pc = "compare"
    /\ IF entries = ws.exported
       THEN /\ pc' = "recheck_commit"
            /\ UNCHANGED <<ws, kind, walk, rootStat, attempt, roots, used, environment>>
       ELSE RefuseIn(ws, "source_worktree_not_exact_commit", TRUE)

RecheckCommit ==
    /\ pc = "recheck_commit"
    /\ \E c \in GitObjectId(head) :
         IF c = ws.commit
         THEN /\ pc' = "recheck_tree"
              /\ UNCHANGED <<ws, kind, walk, rootStat, attempt, roots, used, environment>>
         ELSE RefuseIn(ws, "git_subject_changed_during_intake", TRUE)

\* Mutant: only the commit is resolved again
RecheckTree_Trusts ==
    /\ pc = "recheck_tree"
    /\ pc' = "finish" /\ ws' = [ws EXCEPT !.comparison = <<>>]
    /\ UNCHANGED <<kind, walk, rootStat, attempt, roots, used, environment>>

RecheckTree ==
    /\ pc = "recheck_tree"
    /\ \E t \in GitObjectId(Tree[head]) :
         IF t = ws.tree
         THEN /\ pc' = "finish" /\ ws' = [ws EXCEPT !.comparison = <<>>]
              /\ UNCHANGED <<kind, walk, rootStat, attempt, roots, used, environment>>
         ELSE RefuseIn(ws, "git_subject_changed_during_intake", TRUE)

----------------------------------------------------------------------------
(***************************************************************************)
(* _copy_filesystem_tree and _copy_regular_file: depth first, a directory  *)
(* by its descriptor, a file chunk by chunk and then read a second time.   *)
(***************************************************************************)
\* Where the walk writes: the workspace itself, or aside for the comparison
Written == IF kind = "git" THEN ws.comparison ELSE ws.copy
Write(w, m) == IF kind = "git" THEN [w EXCEPT !.comparison = m] ELSE [w EXCEPT !.copy = m]

Frame(d) == [dir |-> d, stat |-> Meta(live[d]), present |-> Children(live, d), visited |-> {}]
Top == frames[Len(frames)]
Visit(p) == [frames EXCEPT ![Len(frames)].visited = @ \cup {p}]

WalkBegin ==
    /\ pc = "walk"
    /\ frames' = <<Frame(Root)>> /\ cur' = NULL /\ entries' = <<>>
    /\ count' = [files |-> 0, dirs |-> 1, paths |-> 0, total |-> 0]
    /\ pc' = "list"
    /\ UNCHANGED <<ws, kind, rootStat, attempt, roots, used, environment>>

\* Budgets of one entry, in the order the walk applies them
DirRefusal(p) == IF Depth(p) > MaxDepth THEN "max_depth"
                 ELSE IF count.dirs + 1 > MaxDirs THEN "max_directory_count" ELSE NULL
FileRefusal(p) == IF Len(live[p].data) > MaxFileSize THEN "max_file_bytes"
                  ELSE IF count.total + Len(live[p].data) > MaxTotal THEN "max_total_bytes" ELSE NULL

RegisterFileExamined(n) == n <= MaxFiles

\* The budget of path bytes, counted in paths
RegisterManifestPath(n) == n <= MaxPaths

\* The next entry of the listing: counted, examined without following links
ListEntry(p) ==
    LET n == live[p]
        seenPath == [count EXCEPT !.paths = @ + 1]
        seenFile == [seenPath EXCEPT !.files = @ + 1]
        skip == /\ frames' = Visit(p) /\ pc' = pc
                /\ UNCHANGED <<ws, cur, kind, entries, rootStat, attempt, roots, used, environment>>
        enter(to) == /\ frames' = Visit(p) /\ pc' = to
                     /\ cur' = [path |-> p, before |-> Meta(n), fd |-> n, got |-> <<>>, again |-> <<>>,
                                after |-> NULL]
                     /\ UNCHANGED <<ws, kind, entries, rootStat, attempt, roots, used, environment>>
    IN IF ~RegisterManifestPath(seenPath.paths) THEN Refuse("max_manifest_path_bytes")
       ELSE CASE n.kind = "none" -> Refuse("source_entry_lstat_failed")
              [] n.kind = "link" -> Refuse("source_symlink_refused")
              [] n.kind = "special" -> Refuse("source_special_file_refused")
              [] n.kind = "dir" /\ p \in Excluded -> skip /\ count' = seenPath
              [] n.kind = "dir" /\ p \notin Excluded ->
                   IF DirRefusal(p) # NULL THEN Refuse(DirRefusal(p))
                   ELSE enter("opendir") /\ count' = [seenPath EXCEPT !.dirs = @ + 1]
              [] n.kind = "file" /\ ~RegisterFileExamined(seenFile.files) -> Refuse("max_file_count")
              [] n.kind = "file" /\ RegisterFileExamined(seenFile.files) /\ p \in Excluded ->
                   skip /\ count' = seenFile
              [] OTHER -> IF FileRefusal(p) # NULL THEN Refuse(FileRefusal(p))
                          ELSE enter("open") /\ count' = seenFile

\* scandir is lazy: a name that came or went since the open may or may not be returned
ListNext ==
    /\ pc = "list"
    /\ \E p \in (Children(live, Top.dir) \cup Top.present) \ Top.visited : ListEntry(p)

ListEnd ==
    /\ pc = "list"
    /\ Top.present \cap Children(live, Top.dir) \subseteq Top.visited
    /\ IF Top.stat.stamp = live[Top.dir].stamp
       THEN /\ frames' = SubSeq(frames, 1, Len(frames) - 1)
            /\ pc' = IF Len(frames) > 1 THEN "list" ELSE IF kind = "git" THEN "compare" ELSE "finish"
            /\ UNCHANGED <<ws, kind, cur, entries, count, rootStat, attempt, roots, used, environment>>
       ELSE Refuse("source_directory_mutated")

OpenDirectory ==
    /\ pc = "opendir"
    /\ LET p == cur.path
       IN CASE live[p].kind # "dir" -> Refuse("snapshot_filesystem_error")
            [] live[p].kind = "dir" /\ ~SameIdentity(cur.before, Meta(live[p])) ->
                 Refuse("source_directory_swap_detected")
            [] OTHER -> /\ frames' = Append(frames, Frame(p))
                        /\ entries' = Put(entries, p, DirEntry)
                        /\ ws' = Write(ws, Put(Written, p, DirEntry))
                        /\ cur' = NULL /\ pc' = "list"
                        /\ UNCHANGED <<kind, count, rootStat, attempt, roots, used, environment>>

\* What the descriptor reads: the file while the name still means it, else the detached one
Opened == IF live[cur.path].ino = cur.before.ino THEN live[cur.path] ELSE cur.fd

OpenFile ==
    /\ pc = "open"
    /\ CASE live[cur.path].kind # "file" -> Refuse("source_open_no_follow_failed")
         [] live[cur.path].kind = "file" /\ ~SameFileMetadata(cur.before, Meta(live[cur.path])) ->
              Refuse("source_file_swap_detected")
         [] OTHER -> /\ pc' = "copy"
                     /\ ws' = Write(ws, Put(Written, cur.path, FileEntry(<<>>, cur.before.mode)))
                     /\ UNCHANGED <<kind, walk, rootStat, attempt, roots, used, environment>>

CopyChunk ==
    /\ pc = "copy"
    /\ LET p == cur.path
           i == Len(cur.got) + 1
       IN CASE i > Len(Opened.data) ->
                 /\ cur' = [cur EXCEPT !.after = Meta(Opened)] /\ pc' = "validate"
                 /\ UNCHANGED <<ws, kind, frames, entries, count, rootStat, attempt, roots, used, environment>>
            [] i <= Len(Opened.data) /\ i > cur.before.size -> Refuse("source_file_grew_during_copy")
            [] OTHER ->
                 /\ cur' = [cur EXCEPT !.got = Append(@, Opened.data[i])]
                 /\ ws' = Write(ws, [Written EXCEPT ![p].data = Append(@, Opened.data[i])])
                 /\ UNCHANGED <<pc, kind, frames, entries, count, rootStat, attempt, roots, used, environment>>

\* Mutant: the second read is not compared with the first
CopyUnchanged_OneRead ==
    /\ Len(cur.got) = cur.before.size
    /\ SameFileMetadata(cur.before, cur.after)
    /\ SameFileMetadata(cur.after, Meta(Opened))

CopyUnchanged ==
    /\ Len(cur.got) = cur.before.size
    /\ SameFileMetadata(cur.before, cur.after)
    /\ cur.again = cur.got
    /\ SameFileMetadata(cur.after, Meta(Opened))

ValidateChunk ==
    /\ pc = "validate"
    /\ IF Len(cur.again) < Len(Opened.data)
       THEN /\ cur' = [cur EXCEPT !.again = Append(@, Opened.data[Len(@) + 1])]
            /\ UNCHANGED <<pc, ws, kind, frames, entries, count, rootStat, attempt, roots, used, environment>>
       ELSE IF CopyUnchanged
       THEN /\ entries' = Put(entries, cur.path, FileEntry(cur.got, cur.before.mode))
            /\ count' = [count EXCEPT !.total = @ + cur.before.size]
            /\ cur' = NULL /\ pc' = "list"
            /\ UNCHANGED <<ws, kind, frames, rootStat, attempt, roots, used, environment>>
       ELSE Refuse("source_file_mutated_during_copy")

----------------------------------------------------------------------------
(***************************************************************************)
(* The finished copy: its manifest, its verification, its use              *)
(***************************************************************************)
\* _inventory_existing_tree of the private copy: its manifest, or NULL for a refusal
InventoryExistingTree(t) ==
    LET files == {p \in DOMAIN t : t[p].type = "file"}
        dirs == {p \in DOMAIN t : t[p].type = "directory"}
    IN IF \/ files \cup dirs # DOMAIN t
          \/ Cardinality(DOMAIN t) > MaxPaths
          \/ \E d \in dirs : Depth(d) > MaxDepth
          \/ Cardinality(dirs) + 1 > MaxDirs \/ Cardinality(files) > MaxFiles
          \/ \E f \in files : Len(t[f].data) > MaxFileSize
          \/ Size([f \in files |-> t[f]]) > MaxTotal
       THEN NULL ELSE t

\* verify_verified_snapshot; the two fingerprints are functions of the manifest
VerifyVerifiedSnapshot(w) ==
    /\ w.snapshot # NULL
    /\ InventoryExistingTree(w.copy) # NULL
    /\ InventoryExistingTree(w.copy) = w.snapshot.manifest

FinishSnapshot ==
    /\ pc = "finish"
    /\ LET m == IF kind = "git" THEN ws.exported ELSE entries
           paths == IF kind = "git" THEN ws.tracked ELSE {p \in DOMAIN m : m[p].type = "file"}
           done == [ws EXCEPT !.snapshot = [manifest |-> m, kind |-> kind, commit |-> ws.commit,
                                            tree |-> ws.tree, tracked |-> paths]]
       IN IF VerifyVerifiedSnapshot(done)
          THEN /\ ws' = done /\ pc' = "recheck_root"
               /\ UNCHANGED <<kind, walk, rootStat, attempt, roots, used, environment>>
          ELSE Refuse("snapshot_post_copy_verification_failed")

RecheckRoot ==
    /\ pc = "recheck_root"
    /\ IF SameDirectory(rootStat, Meta(live[Root]))
       THEN /\ pc' = "returned"
            /\ UNCHANGED <<ws, kind, walk, rootStat, attempt, roots, used, environment>>
       ELSE Refuse("source_root_swap_detected")

\* DisposableWorkspace.cleanup: a second call after success does nothing
Cleanup(w, removed) == [w EXCEPT !.cleanup = IF @ = "ok" \/ removed THEN "ok" ELSE "failed"]

\* create_static_scan_snapshot without a strict snapshot
BoundedTrackedPaths(w) ==
    IF w.refusals = {"source_worktree_not_exact_commit"} /\ w.commit # NULL /\ w.tree # NULL
    THEN w.tracked ELSE {}

\* Mutant: the fallback is another strict attempt
StaticFallback_Retries ==
    /\ pc = "returned" /\ situation.static /\ attempt.n = 1 /\ ws.snapshot = NULL
    /\ ws' = Cleanup(ws, TRUE) /\ roots' = roots - 1 /\ pc' = "start"
    /\ UNCHANGED <<attempt, kind, walk, rootStat, used, environment>>

StaticFallback ==
    /\ pc = "returned" /\ situation.static /\ attempt.n = 1 /\ ws.snapshot = NULL
    /\ \/ /\ ws' = Cleanup(ws, TRUE) /\ roots' = roots - 1 /\ pc' = "start"
          /\ attempt' = [attempt EXCEPT !.n = 2, !.tracked = BoundedTrackedPaths(ws)]
       \/ /\ ws' = Cleanup(ws, FALSE) /\ pc' = "handed" /\ UNCHANGED <<roots, attempt>>
    /\ UNCHANGED <<kind, walk, rootStat, used, environment>>

\* _bounded_linked_worktree_tracked_paths: HEAD's tree before and after its listing
LinkedBegin ==
    /\ pc = "returned" /\ situation.static /\ situation.layout = "linked" /\ attempt.n = 1 /\ ws.snapshot # NULL
    /\ \/ GitTreeRefusals(Tree[head]) = {} /\ pc' = "linked" /\ attempt' = [attempt EXCEPT !.tree = Tree[head]]
       \/ pc' = "handed" /\ UNCHANGED attempt
    /\ UNCHANGED <<ws, kind, walk, rootStat, roots, used, environment>>

LinkedEnd ==
    /\ pc = "linked" /\ pc' = "handed"
    /\ \/ /\ Tree[head] = attempt.tree
          /\ ws' = [ws EXCEPT !.snapshot.tracked = DOMAIN attempt.tree]
       \/ UNCHANGED ws
    /\ UNCHANGED <<kind, walk, rootStat, attempt, roots, used, environment>>

HandOver ==
    /\ pc = "returned"
    /\ situation.static /\ attempt.n = 1 => ws.snapshot # NULL /\ situation.layout # "linked"
    /\ ws' = IF ws.snapshot # NULL /\ attempt.tracked # {}
             THEN [ws EXCEPT !.snapshot.tracked = attempt.tracked] ELSE ws
    /\ pc' = "handed"
    /\ UNCHANGED <<kind, walk, rootStat, attempt, roots, used, environment>>

\* inspect_git_worktree
InspectGitWorktree(w) ==
    IF w.snapshot # NULL /\ w.snapshot.kind = "git"
    THEN [commit |-> w.snapshot.commit, tree |-> w.snapshot.tree, dirty |-> "clean"]
    ELSE [commit |-> w.commit, tree |-> w.tree,
          dirty |-> IF "source_worktree_not_exact_commit" \in w.refusals THEN "dirty" ELSE "unknown"]

\* snapshot_workspace and fingerprint_target: contents of the files, or an error
SnapshotWorkspace(t) ==
    IF InventoryExistingTree(t) = NULL THEN [files |-> <<>>, errors |-> TRUE]
    ELSE [files |-> [p \in {q \in DOMAIN t : t[q].type = "file"} |-> t[p].data], errors |-> FALSE]

\* Mutant: a file counts as modified when its size differs
SummarizeWorkspaceDiff_Size(before, after) ==
    LET b == DOMAIN before.files
        a == DOMAIN after.files
    IN [available |-> ~before.errors /\ ~after.errors,
        created |-> Cardinality(a \ b), deleted |-> Cardinality(b \ a),
        modified |-> Cardinality({p \in a \cap b : Len(before.files[p]) # Len(after.files[p])})]

\* summarize_workspace_diff
SummarizeWorkspaceDiff(before, after) ==
    LET b == DOMAIN before.files
        a == DOMAIN after.files
    IN [available |-> ~before.errors /\ ~after.errors,
        created |-> Cardinality(a \ b), deleted |-> Cardinality(b \ a),
        modified |-> Cardinality({p \in a \cap b : before.files[p] # after.files[p]})]

UseBegin ==
    /\ pc = "handed"
    /\ used' = [worktree |-> InspectGitWorktree(ws), before |-> SnapshotWorkspace(ws.copy),
                verified |-> NULL, diff |-> NULL]
    /\ pc' = IF ws.snapshot = NULL THEN "cleanup" ELSE "in_use"
    /\ UNCHANGED <<ws, kind, walk, rootStat, attempt, roots, environment>>

UseEnd ==
    /\ pc = "in_use"
    /\ used' = [used EXCEPT !.verified = VerifyVerifiedSnapshot(ws),
                            !.diff = SummarizeWorkspaceDiff(used.before, SnapshotWorkspace(ws.copy))]
    /\ pc' = "cleanup"
    /\ UNCHANGED <<ws, kind, walk, rootStat, attempt, roots, environment>>

CleanupWorkspace ==
    /\ pc = "cleanup" /\ pc' = "closed"
    /\ \E removed \in BOOLEAN :
         /\ ws' = Cleanup(ws, removed)
         /\ roots' = IF removed THEN roots - 1 ELSE roots
    /\ UNCHANGED <<kind, walk, rootStat, attempt, used, environment>>

----------------------------------------------------------------------------
(***************************************************************************)
(* External: the owner of the source tree, HEAD, and the sandboxed command *)
(***************************************************************************)
Intake == pc \notin {"handed", "in_use", "cleanup", "closed"}

\* The timestamp a change made now carries
Ticks == IF situation.coarse THEN {clock, clock + 1} ELSE {clock + 1}

\* p becomes node n at time s; a new inode detaches an open descriptor and marks the directory
Becomes(p, n, s) ==
    LET fresh == n.ino # live[p].ino
        node == [n EXCEPT !.stamp = s]
    IN /\ live' = IF fresh THEN [live EXCEPT ![p] = node, ![Parent[p]].stamp = s]
                           ELSE [live EXCEPT ![p] = node]
       /\ cur' = IF fresh /\ pc \in {"copy", "validate"} /\ cur.path = p /\ cur.before.ino = live[p].ino
                 THEN [cur EXCEPT !.fd = [live[p] EXCEPT !.stamp = s]] ELSE cur
       /\ clock' = s
       /\ seen' = IF n.kind = "file" THEN [seen EXCEPT ![p] = @ \cup {n.data}] ELSE seen
       /\ listed' = [listed EXCEPT ![Parent[p]] = @ \cup {Children(live', Parent[p])}]

\* Inodes are only compared with those of the same path
New(k, data) == [kind |-> k, ino |-> 2 + edits, mode |-> "100644", data |-> data, stamp |-> 0]

\* What the owner can turn a file or a directory into with one edit of kind e
Edited(e, p) ==
    LET n == live[p]
        file == p \in Files /\ n.kind = "file"
    IN CASE e = "write" /\ file ->
              {[n EXCEPT !.data[i] = v] : i \in DOMAIN n.data, v \in Chunk} \ {n}
         [] e = "append" /\ file /\ Len(n.data) <= MaxFileSize -> {[n EXCEPT !.data = Append(@, 1)]}
         [] e = "chmod" /\ file -> {[n EXCEPT !.mode = "100755"]}
         [] e = "replace" /\ file -> {New("file", [i \in DOMAIN n.data |-> 1])}
         [] e = "link" /\ p # Root /\ n.kind # "none" -> {New("link", <<>>)}
         [] e = "remove" /\ file -> {New("none", <<>>)}
         [] e = "add" /\ p \in Files /\ n.kind = "none" -> {New("file", <<1>>), New("special", <<>>)}
         [] e = "swapdir" /\ p \in Dirs /\ n.kind = "dir" -> {New("dir", <<>>)}
         [] OTHER -> {}

Edit ==
    /\ Intake /\ edits < situation.edits /\ edits' = edits + 1
    /\ \E e \in situation.kinds, p \in Paths, s \in Ticks : \E n \in Edited(e, p) : Becomes(p, n, s)
    /\ UNCHANGED <<situation, head, moves, heads, pc, kind, ws, frames, entries, count, rootStat, attempt, roots, used>>

MoveHead ==
    /\ Intake /\ situation.layout # "none" /\ moves < situation.moves /\ moves' = moves + 1
    /\ \E c \in Commits \ {head} : head' = c /\ heads' = heads \cup {c}
    /\ UNCHANGED <<situation, live, edits, clock, seen, listed, pc, kind, ws, walk, rootStat, attempt, roots, used>>

\* The command changes its copy of the tree
Tamper ==
    /\ pc = "in_use" /\ edits < situation.edits /\ edits' = edits + 1
    /\ \E p \in Paths \ {Root}, t \in {FileEntry(<<1>>, "100644"), FileEntry(<<0>>, "100755"),
                                       [DirEntry EXCEPT !.type = "link"], NULL} :
         ws' = [ws EXCEPT !.copy = IF t = NULL THEN [q \in DOMAIN @ \ {p} |-> @[q]] ELSE Put(@, p, t)]
    /\ UNCHANGED <<situation, live, head, moves, clock, seen, listed, heads, pc, kind, walk, rootStat, attempt,
                   roots, used>>

Node0(p, data) == [kind |-> IF data = NULL THEN "none" ELSE IF p \in Dirs THEN "dir" ELSE "file",
                   ino |-> 1,
                   mode |-> "100644", data |-> IF data = NULL THEN <<>> ELSE data, stamp |-> 0]

Init ==
    /\ live = [p \in Paths |-> Node0(p, Start[p])]
    /\ situation \in Cases
    /\ head \in IF situation.layout = "none" THEN {CHOOSE c \in Commits : TRUE} ELSE Commits  \* outside Git: unused
    /\ edits = 0 /\ moves = 0 /\ clock = 0
    /\ pc = "start" /\ kind = "filesystem" /\ ws = EmptyWorkspace
    /\ frames = <<>> /\ cur = NULL /\ entries = <<>> /\ rootStat = NULL
    /\ count = [files |-> 0, dirs |-> 1, paths |-> 0, total |-> 0]
    /\ attempt = [n |-> 1, tracked |-> {}, tree |-> NULL] /\ roots = 0 /\ used = NULL
    /\ seen = [p \in Paths |-> IF live[p].kind = "file" THEN {live[p].data} ELSE {}]
    /\ listed = [p \in Paths |-> {Children(live, p)}]
    /\ heads = {head}

Step ==
    \/ CreateVerifiedSnapshot \/ OSErrorAnywhere
    \/ ResolveCommit \/ ResolveTree \/ GitTreeEntries \/ ExportGitBlobs
    \/ WalkBegin \/ ListNext \/ ListEnd \/ OpenDirectory \/ OpenFile \/ CopyChunk \/ ValidateChunk
    \/ CompareWorktree \/ RecheckCommit \/ RecheckTree
    \/ FinishSnapshot \/ RecheckRoot
    \/ StaticFallback \/ LinkedBegin \/ LinkedEnd \/ HandOver
    \/ UseBegin \/ UseEnd \/ CleanupWorkspace

Done == pc = "closed" /\ UNCHANGED vars

Next == Step \/ Edit \/ MoveHead \/ Tamper \/ Done

\* Intake is one sequential process: it keeps running; the environment need not
Spec == Init /\ [][Next]_vars /\ WF_vars(Step)

----------------------------------------------------------------------------
TypeOK ==
    /\ \A p \in Paths : live[p].kind \in {"file", "dir", "link", "special", "none"}
    /\ head \in Commits /\ edits \in 0..situation.edits /\ moves \in 0..situation.moves
    /\ kind \in {"git", "filesystem"}
    /\ \A m \in {ws.copy, ws.comparison, ws.exported, entries} : \A p \in DOMAIN m :
          p \in Paths \ {Root} /\ m[p].type \in {"file", "directory", "link"}
    /\ count.files \in 0..MaxFiles /\ count.dirs \in 0..MaxDirs /\ count.paths \in 0..MaxPaths
    /\ ws.cleanup \in {"not_started", "ok", "failed"} /\ roots \in Nat
    /\ Len(frames) <= MaxDepth + 1

\* A verified snapshot before the command used it
Fresh == ws.snapshot # NULL /\ pc \in {"returned", "linked", "handed"}

\* Every file of a verified snapshot holds a content that the source file had, whole, at some
\* moment of intake: no torn copy, nothing read through a link (_copy_regular_file)
CopiedContentWasReal ==
    Fresh => \A p \in DOMAIN ws.snapshot.manifest :
               ws.snapshot.manifest[p].type = "file" => ws.snapshot.manifest[p].data \in seen[p]

\* The names of a verified snapshot are, directory by directory, names that the source directory
\* held together at some moment of intake (the _same_directory check after each listing)
ListingWasReal ==
    Fresh => \A d \in Dirs \ Excluded : d = Root \/ d \in DOMAIN ws.snapshot.manifest =>
               \E names \in listed[d] :
                  names \ Excluded = {p \in DOMAIN ws.snapshot.manifest : Parent[p] = d}

\* A commit snapshot holds exactly the tracked, non-excluded files of its tree, and commit and tree
\* belong together unless HEAD moved three times in the two windows between its lookups
GitSnapshotIsCommit ==
    Fresh /\ ws.snapshot.kind = "git" =>
        /\ ws.snapshot.manifest = Exported(ws.snapshot.tree)
        /\ ws.snapshot.commit \in heads
        /\ moves < 3 => Tree[ws.snapshot.commit] = ws.snapshot.tree

\* Neither the copy nor the comparison ever holds more than the copy budget, not even while a file
\* that grows is being copied
DiskWithinBudget ==
    pc \notin {"in_use", "cleanup", "closed"} => Size(ws.copy) <= MaxTotal /\ Size(ws.comparison) <= MaxTotal

\* A workspace without a snapshot has a reason and holds no usable partial copy; one with a snapshot
\* has no reason against it
RefusalLeavesNothing ==
    pc \in {"returned", "handed"} =>
        IF ws.snapshot = NULL
        THEN /\ ws.refusals # {} /\ ~CopySafetyOk(ws)
             /\ ws.copy = <<>> \/ "partial_snapshot_cleanup_failed" \in ws.refusals
        ELSE CopySafetyOk(ws)

\* The tracked paths a scan relies on are the files of the snapshot or of a tree HEAD named
TrackedPathsWereReal ==
    Fresh /\ pc = "handed" =>
        \/ ws.snapshot.tracked = {p \in DOMAIN ws.snapshot.manifest : ws.snapshot.manifest[p].type = "file"}
        \/ \E c \in heads : ws.snapshot.tracked = DOMAIN Tree[c]

\* At most one temporary directory exists at a time, also across the static scan's second attempt,
\* and none after a successful cleanup
OneDirectoryAtATime == roots <= 1 /\ (pc = "closed" /\ ws.cleanup = "ok" => roots = 0)

\* What the files of a tree hold, each by its name
Contents(m) == {<<p, m[p].data>> : p \in {q \in DOMAIN m : m[q].type = "file"}}

SilentDiff == used.diff.available /\ used.diff.created + used.diff.deleted + used.diff.modified = 0

\* Verification after the command succeeds exactly if the copy is untouched, and the diff is then silent;
\* a file whose content or name has changed shows in the diff, as a count or by making it unavailable
\* (verify_verified_snapshot, summarize_workspace_diff)
TamperingIsSeen ==
    pc = "cleanup" /\ ws.snapshot # NULL =>
        /\ used.verified <=> ws.copy = ws.snapshot.manifest
        /\ used.verified => SilentDiff
        /\ Contents(ws.copy) # Contents(ws.snapshot.manifest) => ~SilentDiff

\* Commit, tree, manifest and tracked paths of a verified snapshot belong together and existed
\* (_create_git_snapshot, attach_source_tracked_paths)
SnapshotWasReal == GitSnapshotIsCommit /\ TrackedPathsWereReal

\* Names and contents of the copy existed in the source, and copying them kept to the budgets on paths,
\* files, depth and bytes (_copy_tree, _copy_regular_file)
CopyWasReal == TypeOK /\ ListingWasReal /\ CopiedContentWasReal /\ DiskWithinBudget

\* Neither a refusal nor the second attempt of the static scan leaves a partial copy or a directory behind
\* (invalidate_partial_workspace, create_static_scan_snapshot)
NothingLeaks == RefusalLeavesNothing /\ OneDirectoryAtATime

\* Intake ends and the workspace is released or reported as left behind
IntakeEnds == <>(pc = "closed")
=============================================================================
