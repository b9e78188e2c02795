----------------------------- MODULE VoteRules -----------------------------
(***************************************************************************)
(* What internal/metadata means by the most common value: the reference    *)
(* that chooseMostCommon and chooseMostCommonInt are held against.         *)
(***************************************************************************)
EXTENDS Integers, FiniteSets

\* a is the better candidate: more votes, or as many and on the preferred side.
Beats(counts, larger, a, b) ==
    \/ counts[a] > counts[b]
    \/ counts[a] = counts[b] /\ (IF larger THEN a > b ELSE a < b)

\* w beats every other candidate of S.
IsWinner(counts, larger, S, w) ==
    w \in S /\ \A k \in S \ {w} : Beats(counts, larger, w, k)

\* How many voters gave each of the non-zero years.  votes is a function from
\* voters to years.
Tally(votes) ==
    [y \in {votes[v] : v \in DOMAIN votes} \ {0} |-> Cardinality({v \in DOMAIN votes : votes[v] = y})]

\* The most common of those years, the older one on a tie, 0 when there is none.
MostCommonYear(votes) ==
    LET counts == Tally(votes)
    IN  IF DOMAIN counts = {} THEN 0
        ELSE CHOOSE w \in DOMAIN counts : IsWinner(counts, FALSE, DOMAIN counts, w)
=============================================================================
