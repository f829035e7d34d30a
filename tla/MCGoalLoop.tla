----------------------------- MODULE MCGoalLoop -----------------------------
(***************************************************************************)
(* One run in full with two edits, or with a signal and one edit, or two   *)
(* runs of one iteration each with one edit.                               *)
(***************************************************************************)
EXTENDS GoalLoop

OneRunOrTwoShort ==
    /\ \/ runs <= 1 /\ r.mode = "runner"
       \/ r.iter = 1 /\ edits <= 1 /\ ~sig
    /\ sig => edits <= 1
=============================================================================
