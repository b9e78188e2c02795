------------------------------- MODULE Votes -------------------------------
(***************************************************************************)
(* chooseMostCommon and chooseMostCommonInt (internal/metadata): count the *)
(* votes in a map, then scan the map, whose iteration order Go randomises, *)
(* keeping the best candidate so far.  The two differ only in the side a   *)
(* tie falls to: strings prefer the larger, years the older (smaller).     *)
(* Values are numbers; 0 stands for "" and for no year, which never vote.  *)
(***************************************************************************)
EXTENDS VoteRules

CONSTANTS
    Values,         \* what can be voted for
    MaxVotes        \* bound on the votes for one value

ASSUME VotesAssumption ==
    /\ Values \subseteq Nat \ {0}
    /\ MaxVotes \in Nat

VARIABLES
    counts,     \* the map: value -> votes, at least one each
    left,       \* keys the range loop has not visited
    best, bestc,
    larger      \* TRUE: chooseMostCommon, FALSE: chooseMostCommonInt

votesVars == <<counts, left, best, bestc, larger>>

\* The map after the counting loop: any set of values with any positive counts.
\* The result of an empty vote is the zero value, returned at once.
VotesInit ==
    /\ \E S \in SUBSET Values : counts \in [S -> 1..MaxVotes]
    /\ left = DOMAIN counts
    /\ best = 0 /\ bestc = 0
    /\ larger \in BOOLEAN

\* Mutant of Better: no tiebreak, so the first of the tied keys stays.
Better_NoTiebreak(k) == counts[k] > bestc

\* v > bestc || (v == bestc && k > best), or k < best for years.
Better(k) ==
    \/ counts[k] > bestc
    \/ counts[k] = bestc /\ (IF larger THEN k > best ELSE k < best)

\* One turn of the range loop, for whichever key the map yields.
Visit(k) ==
    /\ k \in left
    /\ left' = left \ {k}
    /\ IF Better(k) THEN best' = k /\ bestc' = counts[k] ELSE UNCHANGED <<best, bestc>>
    /\ UNCHANGED <<counts, larger>>

VotesNext == \E k \in Values : Visit(k)

VotesSpec == VotesInit /\ [][VotesNext]_votesVars

-----------------------------------------------------------------------------
VotesTypeOK ==
    /\ DOMAIN counts \subseteq Values
    /\ \A k \in DOMAIN counts : counts[k] \in Nat \ {0}
    /\ left \subseteq DOMAIN counts
    /\ best \in Nat /\ bestc \in Nat
    /\ larger \in BOOLEAN

\* At every point of the loop the candidate is the winner among the keys seen
\* so far, whatever the order: the final answer depends on the votes alone
\* (metadata.go:331-333: without the tiebreak "a genuine tie between providers
\* could return a different winner on every call for identical input").
OrderIndependent ==
    LET seen == DOMAIN counts \ left
    IN  IF seen = {} THEN best = 0 /\ bestc = 0
        ELSE IsWinner(counts, larger, seen, best) /\ bestc = counts[best]
=============================================================================
