-------------------------- MODULE ControlFileProofs --------------------------
(***************************************************************************)
(* The bounded reader, for files and limits of any size and any number of  *)
(* changes by the owner.                                                   *)
(***************************************************************************)
EXTENDS ControlFile, TLAPS

State == [inode : Inode, size : Nat, ctime : Nat]
Reading == {"open", "fstat", "read", "fstat_after"}

(***************************************************************************)
(* The inductive invariant.  A change gives a ctime nobody has seen, so a  *)
(* file whose ctime is still the one lstat saw is the file lstat saw; and  *)
(* the file behind the path always has the time of the last change.        *)
(***************************************************************************)
\* The newest file is the one the path names
PathIsNewest ==
    /\ \A i \in Inode : disk[i].ctime <= clock
    /\ entry \in Inode => disk[entry].ctime = clock

\* What lstat saw is in seen, and the disk still holds it unless its ctime moved on
LstatWasReal ==
    pc \in Reading =>
        /\ before \in State /\ before.ctime <= clock /\ Len(reads) < 2
        /\ disk[before.inode].ctime = before.ctime =>
              [data |-> disk[before.inode].data, state |-> before] \in seen

\* The descriptor was opened after lstat and before any later change of its file
OpenedBetween ==
    pc = "fstat" /\ fd \in Inode =>
        before.ctime <= openedAt[Len(reads) + 1] /\ openedAt[Len(reads) + 1] <= disk[fd].ctime

\* Nothing is read before the descriptor was examined
NothingYet == pc \notin {"read", "fstat_after"} => content = <<>>

\* While chunks are read the three states agree, and the chunks are those of the unchanged file
ContentIsPrefix ==
    pc \in {"read", "fstat_after"} =>
        /\ opened = before /\ fd = before.inode /\ openedAt[Len(reads) + 1] = before.ctime
        /\ disk[fd].ctime = before.ctime =>
              /\ Len(content) <= Len(disk[fd].data)
              /\ \A k \in 1 .. Len(content) : content[k] = disk[fd].data[k]

\* A result carries the time at which its file was opened
ResultsAreDated ==
    \A n \in 1 .. Len(reads) : reads[n] # NULL => openedAt[n] = reads[n].state.ctime

IInv ==
    /\ TypeOK /\ PathIsNewest /\ LstatWasReal /\ OpenedBetween /\ NothingYet /\ ContentIsPrefix
    /\ ResultsAreDated

(***************************************************************************)
(* Facts about the filesystem                                              *)
(***************************************************************************)
\* A chunk overwritten in place leaves a sequence of chunks.
LEMMA OverwriteType ==
    ASSUME NEW S, NEW s \in Seq(S), NEW k \in DOMAIN s, NEW c \in S
    PROVE  [s EXCEPT ![k] = c] \in Seq(S)
<1>1. s \in [1 .. Len(s) -> S] /\ Len(s) \in Nat
    OBVIOUS
<1>2. [s EXCEPT ![k] = c] \in [1 .. Len(s) -> S]
    BY <1>1
<1> QED
    BY <1>1, <1>2

\* Whatever the owner writes in place is a sequence of chunks.
LEMMA RewrittenType ==
    ASSUME NEW old \in Seq(Chunk)
    PROVE  Rewritten(old) \subseteq Seq(Chunk)
<1> SUFFICES ASSUME NEW data \in Rewritten(old) PROVE data \in Seq(Chunk)
    OBVIOUS
<1>1. CASE data = <<>>
    BY <1>1
<1>2. CASE \E c \in Chunk : data = Append(old, c)
    BY <1>2
<1>3. CASE \E k \in DOMAIN old, c \in Chunk : data = [old EXCEPT ![k] = c]
    BY <1>3, OverwriteType
<1>4. \/ data = <<>> \/ \E c \in Chunk : data = Append(old, c)
      \/ \E k \in DOMAIN old : data \in {[old EXCEPT ![k] = c] : c \in Chunk}
    BY Zenon DEF Rewritten
<1> QED
    BY <1>1, <1>2, <1>3, <1>4

\* Two sequences of one length with the same elements are equal.
LEMMA SameElements ==
    ASSUME NEW S, NEW s \in Seq(S), NEW t \in Seq(S), Len(s) = Len(t),
           \A k \in 1 .. Len(s) : s[k] = t[k]
    PROVE  s = t
OBVIOUS

\* What the path names is a file.
LEMMA CurrentType ==
    ASSUME TypeOK
    PROVE  Current(entry, disk) \subseteq File /\ \A i \in Inode : Stat(i) \in State
BY ControlFileConstants DEF TypeOK, Current, File, Stat, State

(***************************************************************************)
(* The owner's changes                                                     *)
(***************************************************************************)
\* Every change writes sequences of chunks, stamps what it writes with the new time, and leaves the path
\* naming what it stamped, if anything.
LEMMA OwnerStep ==
    ASSUME TypeOK, PathIsNewest, WriteInPlace \/ Replace \/ Unlink
    PROVE  /\ TypeOK' /\ PathIsNewest' /\ UNCHANGED reader /\ seen \subseteq seen' /\ clock' = clock + 1
           /\ \A i \in Inode : disk'[i] = disk[i] \/ disk'[i].ctime = clock'
<1>1. /\ clock' = clock + 1 /\ clock' \in 0 .. MaxChanges /\ UNCHANGED reader /\ clock \in Nat
      /\ seen' = seen \cup Current(entry', disk')
    BY ControlFileConstants, SMTT(30) DEF WriteInPlace, Replace, Unlink, Change, Observe, TypeOK
<1>0. \A i \in Inode : disk[i].ctime \in Nat /\ disk[i].ctime <= clock
    BY ControlFileConstants DEF TypeOK, PathIsNewest
<1>2. CASE WriteInPlace
    <2>1. PICK data \in Rewritten(disk[entry].data) :
              disk' = [disk EXCEPT ![entry] = [data |-> data, ctime |-> clock']]
        BY <1>2 DEF WriteInPlace
    <2>2. entry \in Inode /\ entry' = entry /\ disk[entry].data \in Seq(Chunk)
        BY <1>2 DEF WriteInPlace, TypeOK
    <2>3. data \in Seq(Chunk)
        BY <2>1, <2>2, RewrittenType
    <2>4. disk' \in [Inode -> [data : Seq(Chunk), ctime : 0 .. MaxChanges]]
        BY <1>1, <2>1, <2>2, <2>3 DEF TypeOK
    <2>5. /\ disk'[entry].ctime = clock' /\ \A i \in Inode \ {entry} : disk'[i] = disk[i]
        BY <2>1, <2>2 DEF TypeOK
    <2>6. Current(entry', disk') \subseteq File
        BY <2>2, <2>4, ControlFileConstants DEF Current, File
    <2>7. TypeOK'
        BY <1>1, <2>2, <2>4, <2>6 DEF TypeOK, reader
    <2> QED
        BY <1>0, <1>1, <2>2, <2>5, <2>7 DEF PathIsNewest
<1>3. CASE Replace
    <2>1. PICK i \in Inode, n \in 0 .. MaxSize : \E data \in [1 .. n -> Chunk] :
              entry' = i /\ disk' = [disk EXCEPT ![i] = [data |-> data, ctime |-> clock']]
        BY <1>3 DEF Replace
    <2>2. PICK data \in Seq(Chunk) :
              entry' = i /\ disk' = [disk EXCEPT ![i] = [data |-> data, ctime |-> clock']]
        <3>1. n \in Nat
            BY ControlFileConstants
        <3>2. [1 .. n -> Chunk] \subseteq Seq(Chunk)
            BY <3>1
        <3> QED
            BY <2>1, <3>2
    <2>3. disk' \in [Inode -> [data : Seq(Chunk), ctime : 0 .. MaxChanges]]
        BY <1>1, <2>2 DEF TypeOK
    <2>4. /\ disk'[i].ctime = clock' /\ \A j \in Inode \ {i} : disk'[j] = disk[j]
        BY <2>2 DEF TypeOK
    <2>5. Current(entry', disk') \subseteq File
        BY <2>2, <2>3, ControlFileConstants DEF Current, File
    <2>6. TypeOK'
        BY <1>1, <2>2, <2>3, <2>5 DEF TypeOK, reader
    <2> QED
        BY <1>0, <1>1, <2>2, <2>4, <2>6 DEF PathIsNewest
<1>4. CASE Unlink
    <2>1. entry' \in {NULL, "symlink", "directory"} /\ disk' = disk
        BY <1>4 DEF Unlink
    <2>2. entry' \notin Inode
        BY <2>1, ControlFileConstants
    <2>3. TypeOK'
        BY <1>1, <2>1, <2>2 DEF TypeOK, reader, Current
    <2> QED
        BY <1>0, <1>1, <2>1, <2>2, <2>3 DEF PathIsNewest
<1> QED
    BY <1>2, <1>3, <1>4

\* The owner cannot disturb what the reader knows: a file it changes no longer has the ctime lstat saw.
LEMMA OwnerPreserves ==
    ASSUME IInv, WriteInPlace \/ Replace \/ Unlink
    PROVE  IInv'
<1>1. /\ TypeOK' /\ PathIsNewest' /\ UNCHANGED reader /\ seen \subseteq seen' /\ clock' = clock + 1
      /\ \A i \in Inode : disk'[i] = disk[i] \/ disk'[i].ctime = clock'
    BY OwnerStep DEF IInv
<1>2. clock \in Nat /\ \A i \in Inode : disk[i].ctime \in Nat /\ disk[i].ctime <= clock
    BY ControlFileConstants DEF IInv, TypeOK, PathIsNewest
<1>3. LstatWasReal'
    BY <1>1, <1>2 DEF IInv, LstatWasReal, reader, State
<1>4. OpenedBetween'
    <2>1. CASE pc = "fstat" /\ fd \in Inode
        <3>1. openedAt[Len(reads) + 1] <= disk[fd].ctime /\ Len(reads) \in Nat /\ Len(reads) < 2
            BY <2>1 DEF IInv, OpenedBetween, LstatWasReal, Reading, TypeOK
        <3>2. openedAt[Len(reads) + 1] \in Nat
            BY <3>1, ControlFileConstants DEF IInv, TypeOK
        <3>3. openedAt[Len(reads) + 1] <= disk'[fd].ctime
            BY <1>1, <1>2, <2>1, <3>1, <3>2
        <3> QED
            BY <1>1, <2>1, <3>3 DEF IInv, OpenedBetween, reader
    <2>2. CASE ~(pc = "fstat" /\ fd \in Inode)
        BY <1>1, <2>2 DEF OpenedBetween, reader
    <2> QED
        BY <2>1, <2>2
<1>5. ContentIsPrefix'
    <2>1. CASE pc \in {"read", "fstat_after"}
        <3>1. fd \in Inode /\ before.ctime \in Nat /\ before.ctime <= clock
            BY <2>1 DEF IInv, ContentIsPrefix, LstatWasReal, Reading, State
        <3>2. disk'[fd] = disk[fd] \/ disk'[fd].ctime # before.ctime
            BY <1>1, <1>2, <3>1
        <3> QED
            BY <1>1, <2>1, <3>2 DEF IInv, ContentIsPrefix, reader
    <2>2. CASE pc \notin {"read", "fstat_after"}
        BY <1>1, <2>2 DEF ContentIsPrefix, reader
    <2> QED
        BY <2>1, <2>2
<1>6. ResultsAreDated'
    BY <1>1 DEF IInv, ResultsAreDated, reader
<1> QED
    BY <1>1, <1>3, <1>4, <1>5, <1>6 DEF IInv, NothingYet, reader

(***************************************************************************)
(* The reader's own steps                                                  *)
(***************************************************************************)
\* A refusal forgets everything about the read.
LEMMA RefusePreserves ==
    ASSUME IInv, Refuse, Len(reads) < 2, UNCHANGED <<entry, disk, clock, openedAt>>, seen' \subseteq File
    PROVE  IInv'
<1>1. /\ reads' = Append(reads, NULL) /\ pc' = "idle" /\ fd' = NULL /\ content' = <<>>
      /\ before' = NULL /\ opened' = NULL
    BY DEF Refuse, Done
<1>2. reads \in Seq(File \cup {NULL}) /\ Len(reads') = Len(reads) + 1
    BY <1>1 DEF IInv, TypeOK
<1>3. TypeOK'
    BY <1>1, <1>2, ControlFileConstants DEF IInv, TypeOK
<1>4. ResultsAreDated'
    BY <1>1, <1>2 DEF IInv, ResultsAreDated
<1> QED
    BY <1>1, <1>3, <1>4
    DEF IInv, PathIsNewest, LstatWasReal, OpenedBetween, NothingYet, ContentIsPrefix, Reading

\* lstat saw the file behind the path.
LEMMA LstatPreserves ==
    ASSUME IInv, Lstat
    PROVE  IInv'
<1>1. seen' = Current(entry, disk) /\ seen' \subseteq File /\ \A i \in Inode : Stat(i) \in State
    BY CurrentType DEF Lstat, IInv
<1>2. Len(reads) < 2 /\ pc = "idle" /\ UNCHANGED <<entry, disk, clock, openedAt>>
    BY DEF Lstat
<1>3. CASE Refuse
    BY <1>1, <1>2, <1>3, RefusePreserves
<1>4. CASE ~Refuse
    <2>1. entry \in Inode /\ before' = Stat(entry) /\ pc' = "open" /\ UNCHANGED <<opened, fd, content, reads>>
        BY <1>4 DEF Lstat
    <2>2. TypeOK'
        BY <1>1, <1>2, <2>1 DEF IInv, TypeOK, State
    <2>3. LstatWasReal'
        BY <1>1, <1>2, <2>1, ControlFileConstants DEF IInv, LstatWasReal, TypeOK, PathIsNewest, Stat, Current
    <2> QED
        BY <1>2, <2>1, <2>2, <2>3
        DEF IInv, PathIsNewest, OpenedBetween, NothingYet, ContentIsPrefix, ResultsAreDated
<1> QED
    BY <1>3, <1>4

\* What open finds behind the path has the time of the last change.
LEMMA OpenPreserves ==
    ASSUME IInv, Open
    PROVE  IInv'
<1>1. pc = "open" /\ UNCHANGED <<entry, disk, clock, seen>> /\ Len(reads) < 2 /\ seen' \subseteq File
      /\ Len(reads) \in Nat
    BY DEF Open, IInv, LstatWasReal, Reading, TypeOK
<1>2. CASE Refuse /\ UNCHANGED openedAt
    BY <1>1, <1>2, RefusePreserves
<1>3. CASE ~(Refuse /\ UNCHANGED openedAt)
    <2>1. /\ entry \in Inode \cup {"directory"} /\ fd' = entry /\ pc' = "fstat"
          /\ openedAt' = [openedAt EXCEPT ![Len(reads) + 1] = clock]
          /\ UNCHANGED <<before, opened, content, reads>>
        BY <1>3 DEF Open
    <2>2. openedAt'[Len(reads) + 1] = clock /\ \A n \in 1 .. Len(reads) : openedAt'[n] = openedAt[n]
        BY <1>1, <2>1 DEF IInv, TypeOK
    <2>3. TypeOK'
        BY <1>1, <2>1 DEF IInv, TypeOK
    <2>4. LstatWasReal'
        BY <1>1, <2>1 DEF IInv, LstatWasReal, Reading
    <2>5. OpenedBetween'
        BY <1>1, <2>1, <2>2, ControlFileConstants
        DEF IInv, TypeOK, OpenedBetween, LstatWasReal, Reading, PathIsNewest
    <2>6. ResultsAreDated'
        BY <2>1, <2>2 DEF IInv, ResultsAreDated
    <2> QED
        BY <1>1, <2>1, <2>3, <2>4, <2>5, <2>6 DEF IInv, PathIsNewest, NothingYet, ContentIsPrefix
<1> QED
    BY <1>2, <1>3

\* A descriptor in the state lstat saw was opened before that state could change.
LEMMA FstatPreserves ==
    ASSUME IInv, Fstat
    PROVE  IInv'
<1>1. pc = "fstat" /\ UNCHANGED <<entry, disk, clock, seen, openedAt>> /\ Len(reads) < 2 /\ seen' \subseteq File
      /\ Len(reads) \in Nat
    BY DEF Fstat, IInv, LstatWasReal, Reading, TypeOK
<1>2. CASE Refuse
    BY <1>1, <1>2, RefusePreserves
<1>3. CASE ~Refuse
    <2>1. /\ fd \in Inode /\ Stat(fd) = before /\ opened' = before /\ pc' = "read"
          /\ UNCHANGED <<before, fd, content, reads>>
        BY <1>3 DEF Fstat
    <2>2. before \in State /\ before.ctime = disk[fd].ctime /\ fd = before.inode
        BY <1>1, <2>1 DEF IInv, LstatWasReal, Reading, Stat
    <2>3. openedAt[Len(reads) + 1] = before.ctime
        <3>0. Len(reads) + 1 \in 1 .. 2 /\ openedAt \in [1 .. 2 -> 0 .. MaxChanges]
            BY <1>1 DEF IInv, TypeOK
        <3>1. openedAt[Len(reads) + 1] \in Nat /\ before.ctime \in Nat
            BY <2>2, <3>0, ControlFileConstants DEF State
        <3>2. before.ctime <= openedAt[Len(reads) + 1] /\ openedAt[Len(reads) + 1] <= before.ctime
            BY <1>1, <2>1, <2>2 DEF IInv, OpenedBetween
        <3> QED
            BY <3>1, <3>2
    <2>4. content = <<>>
        BY <1>1 DEF IInv, NothingYet
    <2>5. TypeOK'
        BY <1>1, <2>1, <2>2 DEF IInv, TypeOK, State
    <2>6. LstatWasReal'
        BY <1>1, <2>1 DEF IInv, LstatWasReal, Reading
    <2>7. ContentIsPrefix'
        BY <1>1, <2>1, <2>2, <2>3, <2>4 DEF IInv, ContentIsPrefix, TypeOK
    <2> QED
        BY <1>1, <2>1, <2>5, <2>6, <2>7 DEF IInv, PathIsNewest, OpenedBetween, ResultsAreDated, NothingYet
<1> QED
    BY <1>2, <1>3

\* One more chunk of a file that did not change extends the prefix.
LEMMA ReadPreserves ==
    ASSUME IInv, Read
    PROVE  IInv'
<1>1. pc = "read" /\ UNCHANGED <<entry, disk, clock, seen, openedAt>> /\ Len(reads) < 2 /\ seen' \subseteq File
    BY DEF Read, IInv, LstatWasReal, Reading, TypeOK
<1>2. CASE Refuse
    BY <1>1, <1>2, RefusePreserves
<1>3. fd \in Inode /\ disk[fd].data \in Seq(Chunk) /\ content \in Seq(Chunk) /\ MaxBytes \in Nat
    BY <1>1, ControlFileConstants DEF IInv, TypeOK, ContentIsPrefix, LstatWasReal, Reading, State
<1>4. CASE /\ Len(content) < MaxBytes + 1 /\ Len(content) < Len(disk[fd].data)
           /\ content' = Append(content, disk[fd].data[Len(content) + 1])
           /\ UNCHANGED <<pc, before, opened, fd, reads>>
    <2>1. disk[fd].data[Len(content) + 1] \in Chunk
        BY <1>3, <1>4
    <2>2. /\ content' \in Seq(Chunk) /\ Len(content') = Len(content) + 1
          /\ \A k \in 1 .. Len(content) : content'[k] = content[k]
          /\ content'[Len(content) + 1] = disk[fd].data[Len(content) + 1]
        BY <1>3, <1>4, <2>1
    <2>3. TypeOK'
        BY <1>1, <1>3, <1>4, <2>2 DEF IInv, TypeOK
    <2>4. LstatWasReal'
        BY <1>1, <1>4 DEF IInv, LstatWasReal
    <2>5. ContentIsPrefix'
        <3>1. \A k \in 1 .. Len(content') : k \in 1 .. Len(content) \/ k = Len(content) + 1
            BY <1>3, <2>2
        <3>2. Len(content') <= Len(disk[fd].data)
            BY <1>3, <1>4, <2>2
        <3>3. disk[fd].ctime = before.ctime => \A k \in 1 .. Len(content') : content'[k] = disk[fd].data[k]
            BY <1>1, <2>2, <3>1 DEF IInv, ContentIsPrefix
        <3> QED
            BY <1>1, <1>4, <3>2, <3>3 DEF IInv, ContentIsPrefix
    <2> QED
        BY <1>1, <1>4, <2>3, <2>4, <2>5 DEF IInv, PathIsNewest, OpenedBetween, ResultsAreDated, NothingYet
<1>5. CASE pc' = "fstat_after" /\ UNCHANGED <<before, opened, fd, content, reads>>
    BY <1>1, <1>5 DEF IInv, TypeOK, PathIsNewest, LstatWasReal, Reading, OpenedBetween, ContentIsPrefix,
                      ResultsAreDated, NothingYet
<1> QED
    BY <1>2, <1>4, <1>5 DEF Read

\* A read that succeeds returns the file lstat saw.
LEMMA ResultWasSeen ==
    ASSUME IInv, pc = "fstat_after", Stat(fd) = opened, Len(content) = Stat(fd).size
    PROVE  /\ [data |-> content, state |-> Stat(fd)] \in seen \cap File
           /\ openedAt[Len(reads) + 1] = Stat(fd).ctime
<1>1. /\ before \in State /\ opened = before /\ fd = before.inode /\ openedAt[Len(reads) + 1] = before.ctime
    BY DEF IInv, LstatWasReal, Reading, ContentIsPrefix
<1>2. disk[fd].ctime = before.ctime /\ Len(content) = Len(disk[fd].data) /\ Stat(fd) = before
    BY <1>1 DEF Stat
<1>3. content \in Seq(Chunk) /\ disk[fd].data \in Seq(Chunk)
    BY <1>1 DEF IInv, TypeOK, State
<1>4. content = disk[fd].data
    BY <1>2, <1>3, SameElements DEF IInv, ContentIsPrefix
<1>5. [data |-> disk[fd].data, state |-> before] \in seen
    BY <1>1, <1>2 DEF IInv, LstatWasReal, Reading
<1> QED
    BY <1>1, <1>2, <1>4, <1>5 DEF IInv, TypeOK

\* The result of a successful read is dated by its open.
LEMMA FstatAfterPreserves ==
    ASSUME IInv, FstatAfter
    PROVE  IInv'
<1>1. /\ pc = "fstat_after" /\ UNCHANGED <<entry, disk, clock, seen, openedAt>> /\ Len(reads) < 2
      /\ seen' \subseteq File /\ Len(reads) \in Nat
    BY DEF FstatAfter, IInv, LstatWasReal, Reading, TypeOK
<1>2. CASE Refuse
    BY <1>1, <1>2, RefusePreserves
<1>3. CASE ~Refuse
    <2> DEFINE f == [data |-> content, state |-> Stat(fd)]
    <2>1. Stat(fd) = opened /\ Len(content) = Stat(fd).size /\ Done(f)
        BY <1>3 DEF FstatAfter
    <2>2. f \in File /\ openedAt[Len(reads) + 1] = f.state.ctime
        BY <1>1, <2>1, ResultWasSeen
    <2> HIDE DEF f
    <2>3. /\ reads' = Append(reads, f) /\ pc' = "idle" /\ fd' = NULL /\ content' = <<>>
          /\ before' = NULL /\ opened' = NULL
        BY <2>1 DEF Done
    <2>4. reads \in Seq(File \cup {NULL}) /\ Len(reads') = Len(reads) + 1
        BY <2>2, <2>3 DEF IInv, TypeOK
    <2>5. TypeOK'
        BY <1>1, <2>2, <2>3, <2>4, ControlFileConstants DEF IInv, TypeOK
    <2>6. ResultsAreDated'
        BY <1>1, <2>2, <2>3, <2>4 DEF IInv, ResultsAreDated
    <2> QED
        BY <1>1, <2>3, <2>5, <2>6
        DEF IInv, PathIsNewest, LstatWasReal, OpenedBetween, ContentIsPrefix, Reading, NothingYet
<1> QED
    BY <1>2, <1>3

(***************************************************************************)
(* The theorems                                                            *)
(***************************************************************************)
\* The invariant holds initially and every step of reader and owner preserves it.
THEOREM Invariance == Spec => []IInv
<1>1. Init => IInv
    <2> SUFFICES ASSUME Init PROVE IInv
        OBVIOUS
    <2>1. PICK n \in 0 .. MaxSize : \E data \in [1 .. n -> Chunk] :
              disk = [i \in Inode |-> [data |-> data, ctime |-> 0]]
        BY DEF Init
    <2>2. n \in Nat
        BY ControlFileConstants
    <2>3. [1 .. n -> Chunk] \subseteq Seq(Chunk)
        BY <2>2
    <2>4. /\ disk \in [Inode -> [data : Seq(Chunk), ctime : 0 .. MaxChanges]]
          /\ \A i \in Inode : disk[i].ctime = 0
        BY <2>1, <2>3, ControlFileConstants
    <2>5. TypeOK
        BY <2>4, ControlFileConstants DEF Init, TypeOK
    <2> QED
        BY <2>4, <2>5 DEF Init, IInv, PathIsNewest, LstatWasReal, OpenedBetween, ContentIsPrefix,
                          ResultsAreDated, Reading, NothingYet
<1>2. IInv /\ [Next]_vars => IInv'
    <2> SUFFICES ASSUME IInv, [Next]_vars PROVE IInv'
        OBVIOUS
    <2>1. CASE Step
        BY <2>1, LstatPreserves, OpenPreserves, FstatPreserves, ReadPreserves, FstatAfterPreserves DEF Step
    <2>2. CASE WriteInPlace \/ Replace \/ Unlink
        BY <2>2, OwnerPreserves
    <2>3. CASE UNCHANGED vars
        BY <2>3 DEF vars, IInv, TypeOK, PathIsNewest, LstatWasReal, OpenedBetween, ContentIsPrefix,
                    ResultsAreDated, NothingYet
    <2> QED
        BY <2>1, <2>2, <2>3 DEF Next, Finished
<1> QED
    BY <1>1, <1>2, PTL DEF Spec

\* Reads keep to their limit, and two reads of read_bounded_control_file that control_file_matches accepts
\* enclose no change by the owner: a result is dated by its open, and equal states have equal dates.
THEOREM Soundness == Spec => []ReadsAreSound
<1>1. IInv => ReadsAreSound
    <2> SUFFICES ASSUME IInv, Len(reads) = 2, NULL \notin {reads[1], reads[2]},
                        control_file_matches(reads[1], reads[2])
                 PROVE  openedAt[1] = openedAt[2]
        BY DEF IInv, ReadsAreSound, MatchMeansUnchanged
    <2> QED
        BY DEF IInv, ResultsAreDated, control_file_matches
<1> QED
    BY <1>1, Invariance, PTL

\* A successful read_bounded_control_file returns what the path named at one instant of the read, however the
\* owner wrote meanwhile.
THEOREM Atomicity == Spec => ReadIsAtomic
<1>1. ASSUME IInv, [Next]_vars, Len(reads') > Len(reads)
      PROVE  reads'[Len(reads')] \in seen \cup {NULL}
    <2>1. Step
        BY <1>1 DEF Next, WriteInPlace, Replace, Unlink, Change, Finished, reader, vars, IInv, TypeOK
    <2>2. reads \in Seq(File \cup {NULL})
        BY <1>1 DEF IInv, TypeOK
    <2>3. CASE Refuse
        BY <2>2, <2>3 DEF Refuse, Done
    <2>4. CASE ~Refuse
        <3>1. /\ pc = "fstat_after" /\ Stat(fd) = opened /\ Len(content) = Stat(fd).size
              /\ Done([data |-> content, state |-> Stat(fd)])
            BY <1>1, <2>1, <2>2, <2>4 DEF Step, Lstat, Open, Fstat, Read, FstatAfter
        <3>2. [data |-> content, state |-> Stat(fd)] \in seen \cap File
            BY <1>1, <3>1, ResultWasSeen
        <3> QED
            BY <2>2, <3>1, <3>2 DEF Done
    <2> QED
        BY <2>3, <2>4
<1>2. IInv /\ [Next]_vars
        => [Len(reads') > Len(reads) => reads'[Len(reads')] \in seen \cup {NULL}]_vars
    BY <1>1
<1> QED
    BY <1>2, Invariance, PTL DEF Spec, ReadIsAtomic
==============================================================================
