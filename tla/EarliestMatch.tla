--------------------------- MODULE EarliestMatch ---------------------------
(***************************************************************************)
(* pickEarliestMatch (internal/itunes): of the results of a search, which  *)
(* come in the order of iTunes's own ranking, the earliest-dated one of    *)
(* the wanted artist.  The scan starts with the top result as the best,    *)
(* whether or not it is the artist's and whether or not it has a date, and *)
(* must forget it as soon as a better founded one appears.  A result is    *)
(* its artistMatches and its release year, 0 for none that parses.         *)
(***************************************************************************)
EXTENDS Integers, Sequences

CONSTANTS
    ReleaseYears,   \* years a result can have
    MaxResults      \* the search's limit

ASSUME EarliestMatchAssumption ==
    /\ ReleaseYears \subseteq Nat
    /\ MaxResults \in Nat \ {0}

VARIABLES
    results,                    \* r.Results
    at,                         \* the result the loop looks at next
    pick, pickYear, pickMatches \* best, as its index; bestYear; bestMatches

matchVars == <<results, at, pick, pickYear, pickMatches>>

ResultItems == [matches : BOOLEAN, year : ReleaseYears]

\* Search refuses an empty list; the loop starts at the second result.
MatchInit ==
    /\ \E n \in 1..MaxResults : results \in [1..n -> ResultItems]
    /\ at = 2
    /\ pick = 1 /\ pickYear = results[1].year /\ pickMatches = results[1].matches

\* Mutant of Takes: the top result's year counts although it is not the artist's.
Takes_OverAny(r) == pickYear = 0 \/ r.year < pickYear

Takes(r) == ~pickMatches \/ pickYear = 0 \/ r.year < pickYear

\* One turn of the loop: another artist and a missing date are passed over.
Consider ==
    /\ at <= Len(results)
    /\ LET r == results[at]
       IN  IF r.matches /\ r.year # 0 /\ Takes(r)
           THEN pick' = at /\ pickYear' = r.year /\ pickMatches' = TRUE
           ELSE UNCHANGED <<pick, pickYear, pickMatches>>
    /\ at' = at + 1
    /\ UNCHANGED results

MatchSpec == MatchInit /\ [][Consider]_matchVars

-----------------------------------------------------------------------------
MatchTypeOK ==
    /\ results \in Seq(ResultItems) /\ results # <<>>
    /\ at \in 2..(Len(results) + 1)
    /\ pick \in 1..(at - 1)
    /\ pickYear \in ReleaseYears /\ pickMatches \in BOOLEAN

\* The results of the wanted artist that have a date, up to here.
Dated == {i \in 1..(at - 1) : results[i].matches /\ results[i].year # 0}

\* The pick is the earliest of the artist's dated results seen so far, the better
\* ranked one on a tie, and the top result only if there is none: the year of the
\* game is never that of a cover, or of a later edition, while the artist's own
\* earlier recording is in the list (itunes.go:89-96).
EarliestDated ==
    IF Dated = {} THEN pick = 1
    ELSE /\ pick \in Dated
         /\ \A i \in Dated : \/ results[pick].year < results[i].year
                             \/ results[pick].year = results[i].year /\ pick <= i
=============================================================================
