------------------------------ MODULE Metadata ------------------------------
(***************************************************************************)
(* internal/metadata: a request asks every provider at once, stops at a    *)
(* majority of answers, votes, and caches the outcome for everyone.  When  *)
(* nobody knows the title as Spotify spells it ("raw"), the bare title is  *)
(* tried, and a result found that way is stored under the raw key as well. *)
(*                                                                         *)
(* All requests are about one track: some carry the raw title, some the    *)
(* bare one.  A track is reduced to its year, the field a wrong vote       *)
(* spoils; 0 is no year.  A result also records how many providers it      *)
(* rests on.                                                               *)
(***************************************************************************)
EXTENDS VoteRules

CONSTANTS
    Requests,
    Providers,
    Years,          \* the years a provider may answer, 0 (no year) included
    Titles          \* the titles requests carry: a subset of {"raw", "bare"}

ASSUME MetadataAssumption ==
    /\ IsFiniteSet(Providers) /\ Providers # {}
    /\ Years \subseteq Nat
    /\ Titles \subseteq {"raw", "bare"}

Quorum == Cardinality(Providers) \div 2 + 1

VARIABLES
    pc,         \* request -> where it is in Resolve/resolve
    title,      \* request -> the title Resolve was called with
    round,      \* request -> the title of the provider round it is in
    caller,     \* request -> the caller's context: "live" | "done"
    ctx,        \* request -> the round's own six second context
    prov,       \* request -> provider -> "running" | "sent" | "taken" | "quit"
    ans,        \* request -> provider -> the year it answered
    result,     \* request -> the track a round produced
    cache       \* key -> result, the shared cache

vars == <<pc, title, round, caller, ctx, prov, ans, result, cache>>

NoResult == [year |-> 0, votes |-> 0]

Taken(r) == {p \in Providers : prov[r][p] = "taken"}

\* The votes of the answers collected.
VotesOf(r) == [p \in Taken(r) |-> ans[r][p]]

Put(k, v) == cache' = [j \in DOMAIN cache \cup {k} |-> IF j = k THEN v ELSE cache[j]]

-----------------------------------------------------------------------------
(* Resolve *)

StartRound(r, t) ==
    /\ round' = [round EXCEPT ![r] = t]
    /\ ctx' = [ctx EXCEPT ![r] = "live"]
    /\ prov' = [prov EXCEPT ![r] = [p \in Providers |-> "quit"]]
    /\ ans' = [ans EXCEPT ![r] = [p \in Providers |-> 0]]
    /\ pc' = [pc EXCEPT ![r] = "lookup"]

Call(r, t) ==
    /\ pc[r] = "idle"
    /\ title' = [title EXCEPT ![r] = t]
    /\ caller' = [caller EXCEPT ![r] = "live"]
    /\ result' = [result EXCEPT ![r] = NoResult]
    /\ StartRound(r, t)
    /\ UNCHANGED cache

\* Resolve returns to its caller, and its locals are gone.
Return(r) ==
    /\ pc' = [pc EXCEPT ![r] = "idle"]
    /\ title' = [title EXCEPT ![r] = "raw"]
    /\ round' = [round EXCEPT ![r] = "raw"]
    /\ caller' = [caller EXCEPT ![r] = "done"]
    /\ ctx' = [ctx EXCEPT ![r] = "done"]
    /\ result' = [result EXCEPT ![r] = NoResult]
    /\ UNCHANGED <<prov, ans>>

\* After a round: done if it found something or the caller is gone or there is
\* no shorter title; otherwise the bare title is tried once.
AfterRound(r) ==
    /\ pc[r] \in {"found", "empty"}
    /\ round[r] = title[r]
    /\ IF pc[r] = "empty" /\ caller[r] = "live" /\ title[r] = "raw"
       THEN StartRound(r, "bare") /\ UNCHANGED <<title, caller, result>>
       ELSE Return(r)
    /\ UNCHANGED cache

\* The bare round failed as well: the first error is returned.
BareFailed(r) ==
    /\ pc[r] = "empty" /\ round[r] # title[r]
    /\ Return(r)
    /\ UNCHANGED cache

\* It found something: is the bare key cached (line 98)?
CheckBareKey(r) ==
    /\ pc[r] = "found" /\ round[r] # title[r]
    /\ IF "bare" \in DOMAIN cache
       THEN /\ pc' = [pc EXCEPT ![r] = "copying"]
            /\ UNCHANGED <<title, round, caller, ctx, prov, ans, result>>
       ELSE Return(r)
    /\ UNCHANGED cache

\* Yes: t2 is stored under the raw key (line 99) and returned.
CopyToRawKey(r) ==
    /\ pc[r] = "copying"
    /\ Put("raw", result[r])
    /\ Return(r)

-----------------------------------------------------------------------------
(* resolve: one provider round *)

\* A hit returns a copy of the entry; a miss starts every provider.
Lookup(r) ==
    /\ pc[r] = "lookup"
    /\ IF round[r] \in DOMAIN cache
       THEN /\ result' = [result EXCEPT ![r] = cache[round[r]]]
            /\ pc' = [pc EXCEPT ![r] = "found"]
            /\ UNCHANGED prov
       ELSE /\ prov' = [prov EXCEPT ![r] = [p \in Providers |-> "running"]]
            /\ pc' = [pc EXCEPT ![r] = "collect"]
            /\ UNCHANGED result
    /\ UNCHANGED <<title, round, caller, ctx, ans, cache>>

\* A provider answers: into the channel, which has room for all of them.
ProviderAnswers(r, p, y) ==
    /\ pc[r] = "collect" /\ prov[r][p] = "running"
    /\ prov' = [prov EXCEPT ![r][p] = "sent"]
    /\ ans' = [ans EXCEPT ![r][p] = y]
    /\ UNCHANGED <<pc, title, round, caller, ctx, result, cache>>

\* A provider errs, panics, finds nothing, runs out of its own time, or gives up
\* on the send because the round is over.
ProviderQuits(r, p) ==
    /\ pc[r] = "collect" /\ prov[r][p] = "running"
    /\ prov' = [prov EXCEPT ![r][p] = "quit"]
    /\ UNCHANGED <<pc, title, round, caller, ctx, ans, result, cache>>

\* The collector receives an answer, and stops at a quorum.
Collect(r, p) ==
    /\ pc[r] = "collect" /\ prov[r][p] = "sent"
    /\ prov' = [prov EXCEPT ![r][p] = "taken"]
    /\ pc' = [pc EXCEPT ![r] = IF Cardinality(Taken(r)) + 1 >= Quorum THEN "vote" ELSE @]
    /\ UNCHANGED <<title, round, caller, ctx, ans, result, cache>>

\* Every provider is through and the channel is closed and drained.
CollectClosed(r) ==
    /\ pc[r] = "collect"
    /\ \A p \in Providers : prov[r][p] \in {"taken", "quit"}
    /\ pc' = [pc EXCEPT ![r] = "vote"]
    /\ UNCHANGED <<title, round, caller, ctx, prov, ans, result, cache>>

\* Mutant of CollectExpired: the collector's select has no ctx.Done branch.
CollectExpired_Never(r) == FALSE /\ UNCHANGED vars

\* ctx.Done: whatever has been collected is all there is.
CollectExpired(r) ==
    /\ pc[r] = "collect"
    /\ ctx[r] = "done"
    /\ pc' = [pc EXCEPT ![r] = "vote"]
    /\ UNCHANGED <<title, round, caller, ctx, prov, ans, result, cache>>

\* Mutant of MayCache: any answer is good enough to keep.
MayCache_Any(n) == n > 0

\* Only a round that reached the quorum is cached (line 294).
MayCache(n) == n >= Quorum

\* The vote, the cache write, and a copy for the caller.  The round's context is
\* cancelled on return, which ends its stragglers; their channel dies with it.
Vote(r) ==
    /\ pc[r] = "vote"
    /\ LET n == Cardinality(Taken(r))
           out == [year |-> MostCommonYear(VotesOf(r)), votes |-> n]
       IN  IF n = 0
           THEN /\ pc' = [pc EXCEPT ![r] = "empty"]
                /\ UNCHANGED <<result, cache>>
           ELSE /\ pc' = [pc EXCEPT ![r] = "found"]
                /\ result' = [result EXCEPT ![r] = out]
                /\ IF MayCache(n) THEN Put(round[r], out) ELSE UNCHANGED cache
    /\ ctx' = [ctx EXCEPT ![r] = "done"]
    /\ prov' = [prov EXCEPT ![r] = [p \in Providers |-> "quit"]]
    /\ ans' = [ans EXCEPT ![r] = [p \in Providers |-> 0]]
    /\ UNCHANGED <<title, round, caller>>

-----------------------------------------------------------------------------
(* Environment *)

\* The round's six seconds are over.
RoundExpires(r) ==
    /\ pc[r] = "collect" /\ ctx[r] = "live"
    /\ ctx' = [ctx EXCEPT ![r] = "done"]
    /\ UNCHANGED <<pc, title, round, caller, prov, ans, result, cache>>

\* The caller's deadline passes or its client hangs up; the round goes with it.
CallerGone(r) ==
    /\ pc[r] # "idle" /\ caller[r] = "live"
    /\ caller' = [caller EXCEPT ![r] = "done"]
    /\ ctx' = [ctx EXCEPT ![r] = "done"]
    /\ UNCHANGED <<pc, title, round, prov, ans, result, cache>>

\* A cache entry's time to live is over.
EntryExpires(k) ==
    /\ k \in DOMAIN cache
    /\ cache' = [j \in DOMAIN cache \ {k} |-> cache[j]]
    /\ UNCHANGED <<pc, title, round, caller, ctx, prov, ans, result>>

-----------------------------------------------------------------------------
Init ==
    /\ pc = [r \in Requests |-> "idle"]
    /\ title = [r \in Requests |-> "raw"]
    /\ round = [r \in Requests |-> "raw"]
    /\ caller = [r \in Requests |-> "done"]
    /\ ctx = [r \in Requests |-> "done"]
    /\ prov = [r \in Requests |-> [p \in Providers |-> "quit"]]
    /\ ans = [r \in Requests |-> [p \in Providers |-> 0]]
    /\ result = [r \in Requests |-> NoResult]
    /\ cache = [k \in {} |-> NoResult]

\* What the request's own goroutine does.
RequestStep(r) ==
    \/ AfterRound(r)
    \/ BareFailed(r)
    \/ CheckBareKey(r)
    \/ CopyToRawKey(r)
    \/ Lookup(r)
    \/ \E p \in Providers : Collect(r, p)
    \/ CollectClosed(r)
    \/ CollectExpired(r)
    \/ Vote(r)

Next ==
    \/ \E r \in Requests, t \in Titles : Call(r, t)
    \/ \E r \in Requests : RequestStep(r)
    \/ \E r \in Requests, p \in Providers, y \in Years : ProviderAnswers(r, p, y)
    \/ \E r \in Requests, p \in Providers : ProviderQuits(r, p)
    \/ \E r \in Requests : RoundExpires(r)
    \/ \E r \in Requests : CallerGone(r)
    \/ \E k \in {"raw", "bare"} : EntryExpires(k)

Spec == Init /\ [][Next]_vars

\* Request goroutines run and timers fire.  Nothing is asked of the providers:
\* one that never comes back must not hold up the request.
FairSpec == Spec /\ \A r \in Requests : WF_vars(RequestStep(r)) /\ WF_vars(RoundExpires(r))

-----------------------------------------------------------------------------
(* Properties *)

Result == [year : Years \cup {0}, votes : 0..Cardinality(Providers)]

TypeOK ==
    /\ pc \in [Requests -> {"idle", "lookup", "collect", "vote", "found", "empty",
                            "copying"}]
    /\ title \in [Requests -> {"raw", "bare"}] /\ round \in [Requests -> {"raw", "bare"}]
    /\ caller \in [Requests -> {"live", "done"}] /\ ctx \in [Requests -> {"live", "done"}]
    /\ prov \in [Requests -> [Providers -> {"running", "sent", "taken", "quit"}]]
    /\ ans \in [Requests -> [Providers -> Years \cup {0}]]
    /\ result \in [Requests -> Result]
    /\ DOMAIN cache \subseteq {"raw", "bare"}
    /\ \A k \in DOMAIN cache : cache[k] \in Result /\ cache[k] # NoResult

\* metadata.go:290-293: "Only cache a real majority vote".  Every cached track
\* rests on the answers of a majority of the providers, under both keys.
CachedIsMajority == \A k \in DOMAIN cache : cache[k].votes >= Quorum

\* The part of it that concurrency does not break: the key of a provider round,
\* as opposed to the copy Resolve makes of it, only ever holds majority results,
\* also while other requests' rounds end early.
RoundKeyIsMajority == "bare" \in DOMAIN cache => cache["bare"].votes >= Quorum

\* A request returns, whether or not its providers ever do (lines 209-218).
RequestReturns == \A r \in Requests : (pc[r] = "lookup") ~> (pc[r] = "idle")
=============================================================================
