------------------------- MODULE MCVerifiedSnapshot -------------------------
(***************************************************************************)
(* A file of two chunks in the root, a directory with one file, the        *)
(* excluded authorization control file, and a name that is free.           *)
(***************************************************************************)
EXTENDS VerifiedSnapshot, TLC

MCFiles == {"a", "b", "c", "auth"}
MCDirs == {".", "d"}
MCParent == [p \in MCFiles \cup MCDirs |-> IF p \in {"b", "c"} THEN "d" ELSE "."]
MCStart == [p \in MCFiles \cup MCDirs |->
              CASE p = "a" -> <<0, 0>> [] p = "b" -> <<0>> [] p = "c" -> NULL [] OTHER -> <<>>]

Blob(data) == [data |-> data, mode |-> "100644"]
MCTree ==
    [c \in {"clean", "edited", "link"} |->
       CASE c = "clean" -> ("a" :> Blob(<<0, 0>>)) @@ ("b" :> Blob(<<0>>))
         [] c = "edited" -> ("a" :> Blob(<<1, 0>>)) @@ ("b" :> Blob(<<0>>))
         [] c = "link" -> ("a" :> Blob(<<0, 0>>)) @@ ("b" :> [data |-> <<0>>, mode |-> "120000"])]

(***************************************************************************)
(* A commit is taken while HEAD moves; a static scan falls back from Git,  *)
(* or lists a linked worktree; a plain directory is copied under two edits *)
(* of any kind, or under writes that the timestamps do not show.           *)
(***************************************************************************)
Situation(layout, kinds, e, m) ==
    [layout |-> layout, static |-> FALSE, coarse |-> FALSE, kinds |-> kinds, edits |-> e, moves |-> m]

MCCases ==
    {Situation("direct", {"write", "chmod"}, 1, 3),
     Situation("none", AllEdits \ {"chmod"}, 2, 0),
     [Situation("none", {"write"}, 2, 0) EXCEPT !.coarse = TRUE]}
    \cup {[Situation(layout, {"write", "link", "add"}, 1, 1) EXCEPT !.static = TRUE] :
            layout \in {"direct", "linked"}}
=============================================================================
