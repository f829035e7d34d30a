--------------------------- MODULE SingleUseToken ---------------------------
(***************************************************************************)
(* What the single-use reservation promises, without files, re-reads,      *)
(* reports or crashes: each artifact is taken by at most one invocation,   *)
(* for good, and only an invocation that took its artifact executes.       *)
(***************************************************************************)
CONSTANTS NULL, Proc, Path

VARIABLES
    wants,     \* wants[p]: the artifact named on p's command line, or NULL
    owner,     \* owner[f]: who consumed artifact f, or NULL
    executed   \* the invocations whose command ran

tokenVars == <<wants, owner, executed>>

TokenInit ==
    /\ wants \in [Proc -> Path \cup {NULL}]
    /\ owner = [f \in Path |-> NULL]
    /\ executed = {}

Consume(p) ==
    /\ wants[p] \in Path /\ owner[wants[p]] = NULL
    /\ owner' = [owner EXCEPT ![wants[p]] = p]
    /\ UNCHANGED <<wants, executed>>

Execute(p) ==
    /\ p \notin executed
    /\ wants[p] \in Path /\ owner[wants[p]] = p
    /\ executed' = executed \cup {p}
    /\ UNCHANGED <<wants, owner>>

TokenNext == \E p \in Proc : Consume(p) \/ Execute(p)

TokenSpec == TokenInit /\ [][TokenNext]_tokenVars
=============================================================================
