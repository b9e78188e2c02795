----------------------------- MODULE MCResolver -----------------------------
(***************************************************************************)
(* The resolver for TLC: three retries with growing pauses, which in the   *)
(* worst case end one unit of time before the first refresh.               *)
(***************************************************************************)
EXTENDS Resolver

Pauses == <<1, 2, 3>>
WorstCase == <<9, 7, 4, 0>>
TwoDatabases == <<{"d:1"}, {"d:1", "d:2"}>>
=============================================================================
