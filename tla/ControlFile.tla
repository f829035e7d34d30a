----------------------------- MODULE ControlFile -----------------------------
(***************************************************************************)
(* The bounded reader of control_file.py racing the owner of the file:     *)
(* lstat, open with O_NOFOLLOW, fstat, one chunk after the other, fstat    *)
(* again.  The owner may write in place, a chunk at a time, replace the    *)
(* file by rename, delete it, or put a symbolic link or a directory there. *)
(* Two reads are made and compared, as sandbox-run does around its         *)
(* reservation.                                                            *)
(*                                                                         *)
(* The filesystem is external.  Every change of a file gives it a ctime it *)
(* never had before: the model assumes timestamps fine enough for that.    *)
(***************************************************************************)
EXTENDS Integers, Sequences, PythonValues

CONSTANTS
    Inode,       \* inode numbers of regular files
    Chunk,       \* contents of one chunk
    MaxBytes,    \* the reader's limit, in chunks
    MaxSize,     \* bound: size of a file, larger than the limit
    MaxChanges   \* bound: changes the owner makes

ASSUME ControlFileConstants ==
    /\ MaxBytes \in Nat \ {0} /\ MaxSize \in Nat /\ MaxChanges \in Nat
    /\ {NULL, "symlink", "directory"} \cap Inode = {}

VARIABLES
    entry,     \* what the path names: an inode, NULL, "symlink" or "directory"
    disk,      \* disk[i]: data and ctime of an inode
    clock,     \* the last timestamp given
    pc,        \* the next step of the reader
    before,    \* the state lstat saw
    opened,    \* the state fstat saw after open
    fd,        \* the inode the descriptor refers to
    content,   \* the chunks read so far
    reads,     \* the results of the reads so far, NULL for a refusal
    seen,      \* history: the files the path has named during this read
    openedAt   \* history: openedAt[n], the time of the n-th read's open

vars == <<entry, disk, clock, pc, before, opened, fd, content, reads, seen, openedAt>>
reader == <<pc, before, opened, fd, content, reads, openedAt>>

\* ControlFileState of an inode: identity, size and timestamps
Stat(i) == [inode |-> i, size |-> Len(disk[i].data), ctime |-> disk[i].ctime]

\* The file behind the path now, as a read at one instant would return it
Current(e, d) == IF e \in Inode THEN {[data |-> d[e].data, state |-> [inode |-> e,
                                        size |-> Len(d[e].data), ctime |-> d[e].ctime]]}
                                ELSE {}

Observe == seen' = seen \cup Current(entry', disk')

(***************************************************************************)
(* read_bounded_control_file and _bounded_read                             *)
(***************************************************************************)
Done(r) ==
    /\ reads' = Append(reads, r)
    /\ pc' = "idle" /\ fd' = NULL /\ content' = <<>> /\ before' = NULL /\ opened' = NULL

Refuse == Done(NULL)

\* lstat: only a regular file within the limit
Lstat ==
    /\ pc = "idle" /\ Len(reads) < 2
    /\ seen' = Current(entry, disk)
    /\ IF entry \in Inode /\ Len(disk[entry].data) <= MaxBytes
       THEN /\ before' = Stat(entry) /\ pc' = "open"
            /\ UNCHANGED <<opened, fd, content, reads>>
       ELSE Refuse
    /\ UNCHANGED <<entry, disk, clock, openedAt>>

\* open follows no link; whatever it opens is examined next, and it may fail
Open ==
    /\ pc = "open"
    /\ \/ /\ entry \in Inode \cup {"directory"}
          /\ fd' = entry /\ pc' = "fstat"
          /\ openedAt' = [openedAt EXCEPT ![Len(reads) + 1] = clock]
          /\ UNCHANGED <<before, opened, content, reads>>
       \/ Refuse /\ UNCHANGED openedAt
    /\ UNCHANGED <<entry, disk, clock, seen>>

\* A regular file in the very state lstat saw
Fstat ==
    /\ pc = "fstat"
    /\ IF fd \in Inode /\ Stat(fd) = before
       THEN /\ opened' = Stat(fd) /\ pc' = "read"
            /\ UNCHANGED <<before, fd, content, reads>>
       ELSE Refuse
    /\ UNCHANGED <<entry, disk, clock, seen, openedAt>>

\* One os.read; one chunk past the limit is enough to know.  An OSError escapes.
Read ==
    /\ pc = "read"
    /\ \/ /\ Len(content) < MaxBytes + 1 /\ Len(content) < Len(disk[fd].data)
          /\ content' = Append(content, disk[fd].data[Len(content) + 1])
          /\ UNCHANGED <<pc, before, opened, fd, reads>>
       \/ /\ Len(content) = MaxBytes + 1 \/ Len(content) >= Len(disk[fd].data)
          /\ pc' = "fstat_after"
          /\ UNCHANGED <<before, opened, fd, content, reads>>
       \/ Refuse
    /\ UNCHANGED <<entry, disk, clock, seen, openedAt>>

\* Mutant: what was read is not checked against the file's state afterwards
FstatAfter_Trusts ==
    /\ pc = "fstat_after"
    /\ IF Len(content) <= MaxBytes THEN Done([data |-> content, state |-> opened]) ELSE Refuse
    /\ UNCHANGED <<entry, disk, clock, seen, openedAt>>

\* Too much content, a changed state, or a size that is not what was read
FstatAfter ==
    /\ pc = "fstat_after"
    /\ IF Len(content) <= MaxBytes /\ Stat(fd) = opened /\ Len(content) = Stat(fd).size
       THEN Done([data |-> content, state |-> Stat(fd)])
       ELSE Refuse
    /\ UNCHANGED <<entry, disk, clock, seen, openedAt>>

\* Mutant: only the digests are compared
control_file_matches_DigestOnly(left, right) == left.data = right.data

\* Digest and state; a digest is a copy of what it digests
control_file_matches(left, right) == left.data = right.data /\ left.state = right.state

(***************************************************************************)
(* The owner of the file                                                   *)
(***************************************************************************)
\* Each change takes a new timestamp
Change ==
    /\ clock < MaxChanges
    /\ clock' = clock + 1
    /\ UNCHANGED reader

\* Truncated, one chunk longer, or one chunk overwritten
Rewritten(old) ==
    {<<>>} \cup {Append(old, c) : c \in IF Len(old) < MaxSize THEN Chunk ELSE {}}
    \cup (UNION {{[old EXCEPT ![k] = c] : c \in Chunk} : k \in DOMAIN old})

WriteInPlace ==
    /\ Change
    /\ entry \in Inode
    /\ \E data \in Rewritten(disk[entry].data) :
          disk' = [disk EXCEPT ![entry] = [data |-> data, ctime |-> clock']]
    /\ UNCHANGED entry
    /\ Observe

\* rename of another file over the path; an inode in use is not given to a new file
Replace ==
    /\ Change
    /\ \E i \in Inode \ {entry, fd}, n \in 0 .. MaxSize : \E data \in [1 .. n -> Chunk] :
          /\ entry' = i
          /\ disk' = [disk EXCEPT ![i] = [data |-> data, ctime |-> clock']]
    /\ Observe

Unlink ==
    /\ Change
    /\ entry' \in {NULL, "symlink", "directory"} \ {entry}
    /\ UNCHANGED disk
    /\ Observe

Init ==
    /\ entry \in Inode \cup {NULL}
    /\ \E n \in 0 .. MaxSize : \E data \in [1 .. n -> Chunk] :
          disk = [i \in Inode |-> [data |-> data, ctime |-> 0]]
    /\ clock = 0
    /\ pc = "idle" /\ before = NULL /\ opened = NULL /\ fd = NULL /\ content = <<>>
    /\ reads = <<>> /\ seen = {} /\ openedAt = [n \in 1 .. 2 |-> 0]

Step == Lstat \/ Open \/ Fstat \/ Read \/ FstatAfter
Finished == Len(reads) = 2 /\ UNCHANGED vars
Next == Step \/ WriteInPlace \/ Replace \/ Unlink \/ Finished

Spec == Init /\ [][Next]_vars

(***************************************************************************)
(* Properties                                                              *)
(***************************************************************************)
File == [data : Seq(Chunk), state : [inode : Inode, size : Nat, ctime : Nat]]

\* Every variable of the reader and of the filesystem has its type, and the reader never
\* holds more than one chunk past its limit.
TypeOK ==
    /\ entry \in Inode \cup {NULL, "symlink", "directory"}
    /\ disk \in [Inode -> [data : Seq(Chunk), ctime : 0 .. MaxChanges]]
    /\ clock \in 0 .. MaxChanges
    /\ pc \in {"idle", "open", "fstat", "read", "fstat_after"}
    /\ before \in {NULL} \cup [inode : Inode, size : Nat, ctime : Nat]
    /\ opened \in {NULL} \cup [inode : Inode, size : Nat, ctime : Nat]
    /\ fd \in Inode \cup {NULL, "directory"}
    /\ content \in Seq(Chunk) /\ Len(content) <= MaxBytes + 1
    /\ reads \in Seq(File \cup {NULL}) /\ Len(reads) <= 2
    /\ seen \subseteq File
    /\ openedAt \in [1 .. 2 -> 0 .. MaxChanges]

\* A successful read is atomic: what it returns is what the path named, with that very
\* state, at one instant during the read, however the owner wrote meanwhile.
ReadIsAtomic ==
    [][Len(reads') > Len(reads) => reads'[Len(reads')] \in seen \cup {NULL}]_vars

\* Two reads that match saw one unchanged file: between the two opens the owner did
\* nothing, not even put another document there and the old one back.
MatchMeansUnchanged ==
    Len(reads) = 2 /\ NULL \notin {reads[1], reads[2]} /\ control_file_matches(reads[1], reads[2])
        => openedAt[1] = openedAt[2]

\* Reads stay within their limit and two that match enclose no change (read_bounded_control_file,
\* control_file_matches).
ReadsAreSound == TypeOK /\ MatchMeansUnchanged
=============================================================================
