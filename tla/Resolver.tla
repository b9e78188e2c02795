------------------------------ MODULE Resolver ------------------------------
(***************************************************************************)
(* internal/resolver: the game set database that maps a scanned card to a  *)
(* Spotify track.  New loads it before the server listens; if that fails a *)
(* goroutine retries with growing pauses, and another one loads it again   *)
(* every hour for as long as the process lives.  All three run load, which *)
(* fetches, compares with the timestamp in use and only then replaces.     *)
(* A database is its updated_on; 0 is one that parses and holds nothing,   *)
(* which is also what the resolver starts with.                            *)
(***************************************************************************)
EXTENDS Integers

CONSTANTS
    Cards,          \* "deck:card" keys
    Catalog,        \* Catalog[v]: the keys of the database published v-th
    MaxVersion,     \* bound on the databases upstream publishes
    Attempts,       \* len(initialRetryBackoff)
    Wait,           \* initialRetryBackoff
    LoadTime,       \* the client's timeout, reading and parsing included
    RefreshEvery,   \* refreshEvery
    Remaining,      \* Remaining[i]: the longest the attempts from i on can take
    MaxHealthy      \* bound on the history variable healthy

\* The pauses and attempts of the retries end before the first hourly tick
\* (resolver.go:18, 118-125: 530 s of pauses and six attempts of 15 s).
ASSUME ResolverAssumption ==
    /\ MaxVersion \in Nat \ {0}
    /\ Catalog \in [1..MaxVersion -> SUBSET Cards]
    /\ Attempts \in Nat \ {0} /\ Wait \in [1..Attempts -> Nat]
    /\ LoadTime \in Nat \ {0} /\ RefreshEvery \in Nat /\ MaxHealthy \in Nat
    /\ Remaining \in [1..(Attempts + 1) -> Nat]
    /\ \A i \in 1..Attempts : Remaining[i] >= Wait[i] + LoadTime + Remaining[i + 1]
    /\ Remaining[1] < RefreshEvery

VARIABLES
    published,  \* what upstream has published last
    health,     \* upstream: "ok" | "bad"
    lookup,     \* r.lookup, as the database it was built from
    timestamp,  \* r.timestamp
    phase,      \* a loader: "off" | "sleeping" | "fetching" | "compare" | "apply" | "ended"
    offers,     \* what upstream may answer its request with, 0 for nothing good
    got,        \* the database it has parsed
    left,       \* what is left of its load's time, or of the retry's pause
    attempt,    \* the retry's attempt
    nextTick,   \* time to the refresh ticker's next tick
    tick,       \* a tick waits in ticker.C
    newest,     \* history: the newest database ever in use
    healthy     \* history: how long upstream has been well

vars == <<published, health, lookup, timestamp, phase, offers, got, left, attempt,
          nextTick, tick, newest, healthy>>
upstreamVars == <<published, health, healthy>>
dbVars == <<lookup, timestamp, newest>>
timerVars == <<nextTick, tick>>

Loaders == {"boot", "retry", "refresh"}
Databases == 0..MaxVersion

CardsOf(v) == IF v = 0 THEN {} ELSE Catalog[v]

\* ready: any card at all.  Resolve finds a key iff it is in CardsOf(lookup).
Ready == CardsOf(lookup) # {}

Loading(l) == phase[l] \in {"fetching", "compare", "apply"}

-----------------------------------------------------------------------------
(* Upstream *)

\* What upstream has to give at this moment; it never hands out a database that
\* it had already replaced when the request came in.
Current == IF health = "ok" THEN published ELSE 0

\* A request under way may be answered with what upstream has at any moment of
\* it: one that met an outage may still be reset, or time out, after its end.
OffersFollow ==
    offers' = [l \in Loaders |->
                 IF phase[l] = "fetching" THEN offers[l] \cup {Current'} ELSE offers[l]]

Publish ==
    /\ published < MaxVersion
    /\ published' = published + 1
    /\ UNCHANGED health /\ OffersFollow
    /\ UNCHANGED <<healthy, dbVars, phase, got, left, attempt, timerVars>>

\* Upstream starts to fail or to answer something without game sets, or recovers.
ChangeHealth ==
    /\ health' = IF health = "ok" THEN "bad" ELSE "ok"
    /\ healthy' = 0
    /\ UNCHANGED published /\ OffersFollow
    /\ UNCHANGED <<dbVars, phase, got, left, attempt, timerVars>>

-----------------------------------------------------------------------------
(* What follows a load, in the three places that call it *)

\* Mutants of Deadline and Backoff: an HTTP client without a timeout; the pause
\* of the next attempt.
Deadline_None == RefreshEvery
Backoff_OffByOne(i) == Wait[IF i < Attempts THEN i + 1 ELSE i]

\* How long a load can take.
Deadline == LoadTime

Backoff(i) == Wait[i]

\* New: the refresh loop starts in any case, the retries if the load failed.
BootReturns(ok) ==
    /\ phase' = [phase EXCEPT !["boot"] = "ended", !["refresh"] = "sleeping",
                              !["retry"] = IF ok THEN "ended" ELSE "sleeping"]
    /\ left' = [left EXCEPT !["boot"] = 0, !["retry"] = IF ok THEN 0 ELSE Backoff(1)]
    /\ UNCHANGED attempt

\* retryInitialLoad: done, or the next pause, or no attempt left.
RetryReturns(ok) ==
    IF ok \/ attempt = Attempts
    THEN /\ phase' = [phase EXCEPT !["retry"] = "ended"]
         /\ left' = [left EXCEPT !["retry"] = 0]
         /\ UNCHANGED attempt
    ELSE /\ phase' = [phase EXCEPT !["retry"] = "sleeping"]
         /\ attempt' = attempt + 1
         /\ left' = [left EXCEPT !["retry"] = Backoff(attempt + 1)]

\* Mutant of RefreshReturns: the loop ends with the first failure.
RefreshReturns_Stops(ok) ==
    /\ phase' = [phase EXCEPT !["refresh"] = IF ok THEN "sleeping" ELSE "ended"]
    /\ left' = [left EXCEPT !["refresh"] = 0]
    /\ UNCHANGED attempt

\* refreshLoop: a failure is logged and that is all.
RefreshReturns(ok) ==
    /\ phase' = [phase EXCEPT !["refresh"] = "sleeping"]
    /\ left' = [left EXCEPT !["refresh"] = 0]
    /\ UNCHANGED attempt

Returned(l, ok) ==
    \/ l = "boot" /\ BootReturns(ok)
    \/ l = "retry" /\ RetryReturns(ok)
    \/ l = "refresh" /\ RefreshReturns(ok)

-----------------------------------------------------------------------------
(* load *)

\* The body is here and parses: a database published since the request was sent
\* or just before, or, from an upstream that was unwell, JSON without game sets.
Fetched(l) ==
    /\ phase[l] = "fetching"
    /\ \E v \in offers[l] : got' = [got EXCEPT ![l] = v]
    /\ phase' = [phase EXCEPT ![l] = "compare"]
    /\ offers' = [offers EXCEPT ![l] = {}]
    /\ UNCHANGED <<upstreamVars, dbVars, left, attempt, timerVars>>

\* No connection, a status, a reset, a timeout, a body that does not parse:
\* upstream was unwell at some moment of the request, not necessarily still.
LoadFails(l) ==
    /\ phase[l] = "fetching" /\ 0 \in offers[l]
    /\ Returned(l, FALSE)
    /\ offers' = [offers EXCEPT ![l] = {}]
    /\ UNCHANGED <<upstreamVars, dbVars, got, timerVars>>

\* The timestamp is read under the read lock: nothing new, or the lookup map is
\* built outside any lock.
Compare(l) ==
    /\ phase[l] = "compare"
    /\ \/ /\ timestamp # 0 /\ got[l] = timestamp
          /\ Returned(l, TRUE)
       \/ /\ ~(timestamp # 0 /\ got[l] = timestamp)
          /\ phase' = [phase EXCEPT ![l] = "apply"]
          /\ UNCHANGED <<left, attempt>>
    /\ UNCHANGED <<upstreamVars, dbVars, offers, got, timerVars>>

\* Map and timestamp are replaced under the write lock.
Apply(l) ==
    /\ phase[l] = "apply"
    /\ lookup' = got[l] /\ timestamp' = got[l]
    /\ newest' = IF got[l] > newest THEN got[l] ELSE newest
    /\ Returned(l, TRUE)
    /\ UNCHANGED <<upstreamVars, offers, got, timerVars>>

-----------------------------------------------------------------------------
(* The two background loops wake up *)

\* retryInitialLoad after its Sleep: cards that are there already end it.
RetryWakes ==
    /\ phase["retry"] = "sleeping" /\ left["retry"] = 0
    /\ phase' = [phase EXCEPT !["retry"] = IF Ready THEN "ended" ELSE "fetching"]
    /\ left' = [left EXCEPT !["retry"] = IF Ready THEN 0 ELSE Deadline]
    /\ offers' = [offers EXCEPT !["retry"] = IF Ready THEN {} ELSE {Current}]
    /\ UNCHANGED <<upstreamVars, dbVars, got, attempt, timerVars>>

\* The ticker drops a tick that nobody has taken.
TickerFires ==
    /\ phase["refresh"] # "off" /\ nextTick = 0
    /\ tick' = TRUE /\ nextTick' = RefreshEvery
    /\ UNCHANGED <<upstreamVars, dbVars, phase, offers, got, left, attempt>>

RefreshWakes ==
    /\ phase["refresh"] = "sleeping" /\ tick
    /\ tick' = FALSE
    /\ phase' = [phase EXCEPT !["refresh"] = "fetching"]
    /\ left' = [left EXCEPT !["refresh"] = Deadline]
    /\ offers' = [offers EXCEPT !["refresh"] = {Current}]
    /\ UNCHANGED <<upstreamVars, dbVars, got, attempt, nextTick>>

\* Time passes unless a load is at its deadline or a timer has run out.
Elapse ==
    /\ \A l \in Loaders : Loading(l) => left[l] > 0
    /\ phase["retry"] = "sleeping" => left["retry"] > 0
    /\ phase["refresh"] # "off" => nextTick > 0
    /\ ~(phase["refresh"] = "sleeping" /\ tick)
    /\ left' = [l \in Loaders |-> IF left[l] > 0 THEN left[l] - 1 ELSE 0]
    /\ nextTick' = IF phase["refresh"] = "off" THEN nextTick ELSE nextTick - 1
    /\ healthy' = IF health = "ok" /\ healthy < MaxHealthy THEN healthy + 1 ELSE healthy
    /\ UNCHANGED <<published, health, dbVars, phase, offers, got, attempt, tick>>

-----------------------------------------------------------------------------
\* New has just called load.
Init ==
    /\ published \in 1..MaxVersion /\ health \in {"ok", "bad"}
    /\ lookup = 0 /\ timestamp = 0 /\ newest = 0
    /\ phase = [l \in Loaders |-> IF l = "boot" THEN "fetching" ELSE "off"]
    /\ offers = [l \in Loaders |-> IF l = "boot" THEN {Current} ELSE {}]
    /\ got = [l \in Loaders |-> 0]
    /\ left = [l \in Loaders |-> IF l = "boot" THEN Deadline ELSE 0]
    /\ attempt = 1
    /\ nextTick = RefreshEvery /\ tick = FALSE
    /\ healthy = 0

LoadStep(l) == Fetched(l) \/ LoadFails(l) \/ Compare(l) \/ Apply(l)

Next ==
    \/ Publish
    \/ ChangeHealth
    \/ \E l \in Loaders : LoadStep(l)
    \/ RetryWakes
    \/ TickerFires
    \/ RefreshWakes
    \/ Elapse

Spec == Init /\ [][Next]_vars

\* Loads end by their deadline, timers fire, and time goes on; upstream owes
\* nothing.
FairSpec ==
    /\ Spec
    /\ \A l \in Loaders : WF_vars(LoadStep(l))
    /\ WF_vars(RetryWakes) /\ WF_vars(TickerFires) /\ WF_vars(RefreshWakes)
    /\ WF_vars(Elapse)

-----------------------------------------------------------------------------
(* Properties *)

TypeOK ==
    /\ published \in 1..MaxVersion /\ health \in {"ok", "bad"}
    /\ lookup \in Databases /\ timestamp \in Databases /\ newest \in Databases
    /\ phase \in [Loaders -> {"off", "sleeping", "fetching", "compare", "apply", "ended"}]
    /\ offers \in [Loaders -> SUBSET Databases] /\ got \in [Loaders -> Databases]
    /\ left \in [Loaders -> Nat]
    /\ attempt \in 1..Attempts
    /\ nextTick \in 0..RefreshEvery /\ tick \in BOOLEAN
    /\ healthy \in 0..MaxHealthy

\* Two loads never run at the same time, although the retries and the refresh
\* loop know nothing of each other: the retries are over before the first tick.
LoadsNeverOverlap ==
    \A k, l \in Loaders : Loading(k) /\ Loading(l) => k = l

\* A database that a newer one has replaced never comes back (lines 234-251
\* compare for "different", not for "newer", and read the timestamp before the
\* lock they write it under): what is in use is the newest ever used, or a
\* blank one.  Map and timestamp are always of the same database.
NeverOlder == lookup \in {0, newest} /\ timestamp = lookup

\* The purpose of the retries (lines 112-116: without them an empty map stays
\* "until refreshLoop's first hourly tick"): while they go on, upstream has
\* not been well for longer than the current pause and two loads: the one that
\* was under way when the outage ended and may yet time out, and the next.
RetryHelps ==
    phase["retry"] \notin {"off", "ended"} /\ ~Ready
        => healthy <= Wait[attempt] + 2 * LoadTime

\* If upstream stays well in the end, its last database is in use in the end,
\* whatever failed before and however many retries were used up.
Fresh == <>[](health = "ok") => <>[](lookup = published)
=============================================================================
