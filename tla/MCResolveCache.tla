--------------------------- MODULE MCResolveCache ---------------------------
(***************************************************************************)
(* The two-tier cache for TLC: one key has a value and for the other       *)
(* nothing is ever stored, so that any answer it gets was meant for the    *)
(* first; both tiers (with a greeting), Valkey alone, and S3 alone.        *)
(***************************************************************************)
EXTENDS ResolveCache, TLC

CONSTANTS k1, k2, v1

OwnValues == (k1 :> {v1}) @@ (k2 :> {})

Deployments ==
    {[valkey |-> TRUE, s3 |-> s, hello |-> s] : s \in BOOLEAN}
        \cup {[valkey |-> FALSE, s3 |-> TRUE, hello |-> FALSE]}
=============================================================================
