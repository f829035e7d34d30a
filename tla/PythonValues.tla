---------------------------- MODULE PythonValues ----------------------------
(***************************************************************************)
(* Python's None and mappings, as the other modules use them.              *)
(***************************************************************************)
CONSTANT NULL   \* None, and an absent JSON field

\* mapping.get(key)
Get(m, k) == IF k \in DOMAIN m THEN m[k] ELSE NULL
=============================================================================
