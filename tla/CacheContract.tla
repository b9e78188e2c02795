--------------------------- MODULE CacheContract ---------------------------
(***************************************************************************)
(* What internal/rcache promises the packages that install it as their     *)
(* cache: a lookup misses or returns a value that was stored for the very  *)
(* key it asked about.  It may miss at any time, and when several values   *)
(* were stored for a key it may return any of them.                        *)
(***************************************************************************)
CONSTANTS Keys, Values, Miss

VARIABLES
    written,    \* key -> the values SetJSON was ever called with
    answer      \* the last answer GetJSON gave to anyone, with its key

vars == <<written, answer>>

Init ==
    /\ written = [k \in Keys |-> {}]
    /\ answer \in [key : Keys, value : {Miss}]

Store(k, v) ==
    /\ written' = [written EXCEPT ![k] = @ \cup {v}]
    /\ UNCHANGED answer

Answer(k, v) ==
    /\ v \in written[k] \cup {Miss}
    /\ answer' = [key |-> k, value |-> v]
    /\ UNCHANGED written

Next == \E k \in Keys : (\E v \in Values : Store(k, v)) \/ (\E v \in Values \cup {Miss} : Answer(k, v))

Spec == Init /\ [][Next]_vars
=============================================================================
