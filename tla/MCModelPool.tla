---------------------------- MODULE MCModelPool ----------------------------
(***************************************************************************)
(* ModelPool for TLC: two cameras on one model, which they acquire three   *)
(* times between them; their calls are alike or not.                       *)
(***************************************************************************)
EXTENDS ModelPool, TLC

CONSTANTS a, b

MCArgs == (a :> {"low"} @@ b :> {"low", "high"})
=============================================================================
