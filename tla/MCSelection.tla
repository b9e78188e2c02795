---------------------------- MODULE MCSelection ----------------------------
(***************************************************************************)
(* The two choices behind a card's year, for TLC: the vote over at most    *)
(* four values, and the scan of at most five search results.  They share   *)
(* nothing, so one of them at a time has something to choose from.         *)
(***************************************************************************)
EXTENDS Votes, EarliestMatch

MCInit == VotesInit /\ MatchInit /\ (DOMAIN counts = {} \/ Len(results) = 1)

MCNext ==
    \/ VotesNext /\ UNCHANGED matchVars
    \/ Consider /\ UNCHANGED votesVars

MCSpec == MCInit /\ [][MCNext]_<<votesVars, matchVars>>
=============================================================================
