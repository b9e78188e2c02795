----------------------------- MODULE MCAxiomLog -----------------------------
(***************************************************************************)
(* The log shipper for TLC.                                                *)
(***************************************************************************)
EXTENDS AxiomLog
=============================================================================
