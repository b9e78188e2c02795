--------------------------- MODULE MCSpotifyClient ---------------------------
(***************************************************************************)
(* The Spotify client for TLC.  With a margin of 4, a token with lifetime  *)
(* 3 is used once and never reused, one with 5 is reused for one unit.     *)
(***************************************************************************)
EXTENDS SpotifyClient
=============================================================================
