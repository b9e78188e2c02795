---------------------------- MODULE MCCacheWarm ----------------------------
(***************************************************************************)
(* The warmer for TLC: a deck of two cards and one of a single card, which *)
(* is in both, so that the second deck to come can find the queue full.    *)
(***************************************************************************)
EXTENDS CacheWarm, TLC

CONSTANTS d1, d2, c1, c2

TwoDecks == (d1 :> {c1, c2}) @@ (d2 :> {c2})
=============================================================================
