------------------------------ MODULE MCDecks ------------------------------
(***************************************************************************)
(* Deck lifecycle for TLC, started with either store.  One deck competes   *)
(* for the sweep's single worker with a foreign object whose key looks     *)
(* like a deck's; one key of every other kind of foreign object is there.  *)
(***************************************************************************)
EXTENDS Decks
=============================================================================
