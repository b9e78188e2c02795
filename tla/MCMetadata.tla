----------------------------- MODULE MCMetadata -----------------------------
(***************************************************************************)
(* The metadata fan-out for TLC.  Metadata.cfg has two providers, both of  *)
(* whom make a quorum, and checks liveness; MetadataRace.cfg has three, of *)
(* whom two are a quorum, and only safety, so providers are symmetric.     *)
(***************************************************************************)
EXTENDS Metadata, TLC

MetadataSym == Permutations(Providers)
=============================================================================
