---------------------------- MODULE MCResolveApi ----------------------------
(***************************************************************************)
(* The resolve pipeline for TLC: one slot, wanted by a request of either   *)
(* mode or a deck handler on one side, and by a strict request or the      *)
(* warmer on the other.                                                    *)
(***************************************************************************)
EXTENDS ResolveApi, TLC

CONSTANTS q1, q2

TwoCallers == (q1 :> {"strict", "variants", "lookup"}) @@ (q2 :> {"strict", "warm"})
=============================================================================
