------------------------------ MODULE MCServer ------------------------------
(***************************************************************************)
(* The server for TLC: a deck with more cards than slots, and an import    *)
(* that is at work beside it.                                              *)
(***************************************************************************)
EXTENDS Server, TLC

CONSTANTS create, import

ThreeAndTwo == (create :> 3) @@ (import :> 2)
TwoSlotsAndOne == (create :> 2) @@ (import :> 1)
OneEach == [h \in {create, import} |-> 1]
=============================================================================
