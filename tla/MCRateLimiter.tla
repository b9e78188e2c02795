--------------------------- MODULE MCRateLimiter ---------------------------
(***************************************************************************)
(* The limiter of internal/ratelimit for TLC.  Keys only meet in Cleanup,  *)
(* which treats each alone, so one key with three concurrent requests is   *)
(* the interesting instance.  The clock runs past IdleTTL, so that a       *)
(* bucket is used, evicted and used again.                                 *)
(***************************************************************************)
EXTENDS RateLimiter, TLC

RequestSym == Permutations(Requests)
=============================================================================
