--------------------------- MODULE UpstreamProofs ---------------------------
(***************************************************************************)
(* The two components that depend on a remote service and remember how     *)
(* it behaved. The game set resolver, for any number of databases,         *)
(* attempts and pauses that end before the first hourly tick: two loads    *)
(* never overlap, so load's unlocked comparison is safe and no database    *)
(* comes back that a newer one has replaced; and upstream is not left      *)
(* well and unused for longer than one pause and two loads while the       *)
(* retries go on. The Spotify client, for any number of requests and any   *)
(* lifetimes: an open breaker lets fewer token requests through than       *)
(* there are requests, enough refusals in a row open it, and a token is    *)
(* alive when Spotify sees it.                                             *)
(***************************************************************************)
EXTENDS Resolver, SpotifyClient, FiniteSetTheorems, TLAPS

-----------------------------------------------------------------------------
(* The game set resolver *)

\* The retries sleep or load.
Active == phase["retry"] \in {"sleeping", "fetching", "compare", "apply"}

\* The longest the retries can still take.
Due == left["retry"] + (IF phase["retry"] = "sleeping" THEN LoadTime ELSE 0)
                     + Remaining[attempt + 1]

\* The background loops start when New's load is over, and the retries end before
\* the refresh loop's first tick.
Stages ==
    /\ phase["boot"] \in {"fetching", "compare", "apply", "ended"}
    /\ phase["boot"] # "ended" =>
         /\ phase["retry"] = "off" /\ phase["refresh"] = "off"
         /\ tick = FALSE /\ nextTick = RefreshEvery /\ attempt = 1
    /\ phase["boot"] = "ended" =>
         /\ phase["retry"] \in {"sleeping", "fetching", "compare", "apply", "ended"}
         /\ phase["refresh"] \in {"sleeping", "fetching", "compare", "apply"}
    /\ Active => phase["refresh"] = "sleeping" /\ tick = FALSE /\ nextTick > Due

\* A database that may be put into use: blank, or at least as new as any before.
Usable(v) == v = 0 \/ (newest <= v /\ v <= published)

\* What a loader may be answered with, or has parsed, is usable.
Versions ==
    /\ NeverOlder
    /\ newest <= published
    /\ \A l \in Loaders :
         /\ phase[l] = "fetching" => \A v \in offers[l] : Usable(v)
         /\ phase[l] \in {"compare", "apply"} => Usable(got[l])

\* How long upstream has been well, against the time left to the retries.  A load
\* that met an outage can fail for as long as it has time left.
Healthy ==
    /\ health = "bad" => healthy = 0
    /\ \A l \in Loaders : Loading(l) => left[l] <= LoadTime
    /\ \A l \in Loaders : phase[l] = "fetching" /\ 0 \in offers[l] =>
         healthy + left[l] <= LoadTime
    /\ phase["retry"] = "sleeping" => healthy + left["retry"] <= Wait[attempt] + LoadTime
    /\ phase["retry"] \in {"fetching", "compare", "apply"} =>
         healthy + left["retry"] <= Wait[attempt] + 2 * LoadTime

IInv == TypeOK /\ Stages /\ Versions /\ Healthy

-----------------------------------------------------------------------------
\* The numbers that the retry's schedule is made of.
LEMMA Schedule ==
    ASSUME NEW i \in 1..Attempts
    PROVE  /\ Wait[i] \in Nat /\ LoadTime \in Nat /\ RefreshEvery \in Nat
           /\ Remaining[i] \in Nat /\ Remaining[i + 1] \in Nat
           /\ Remaining[i] >= Wait[i] + LoadTime + Remaining[i + 1]
           /\ Attempts \in Nat /\ 1 \in 1..Attempts /\ Remaining[1] < RefreshEvery
  BY ResolverAssumption

LEMMA StagesExclude == Stages => LoadsNeverOverlap
  BY DEF Stages, Active, LoadsNeverOverlap, Loading, Loaders

\* Upstream has a database to give exactly when it is well.
LEMMA CurrentIs ==
    ASSUME TypeOK
    PROVE  /\ Current \in Databases
           /\ health = "ok" => Current = published /\ Current # 0
           /\ health = "bad" => Current = 0
  BY ResolverAssumption DEF TypeOK, Current, Databases

\* A load may start with what upstream has.
LEMMA StartOffers ==
    ASSUME IInv
    PROVE  Usable(Current) /\ (Current = 0 => healthy = 0)
  <1>1. published \in Nat /\ newest <= published /\ health \in {"ok", "bad"}
    BY ResolverAssumption DEF IInv, TypeOK, Versions
  <1> QED BY <1>1, CurrentIs DEF IInv, Usable, Healthy

LEMMA InitIInv == Init => IInv
  <1> SUFFICES ASSUME Init PROVE IInv
    OBVIOUS
  <1>1. /\ phase["boot"] = "fetching" /\ phase["retry"] = "off" /\ phase["refresh"] = "off"
        /\ left \in [Loaders -> Nat] /\ got \in [Loaders -> Databases]
    BY ResolverAssumption DEF Init, Loaders, Deadline, Databases
  <1>2. TypeOK
    <2>1. phase \in [Loaders -> {"off", "sleeping", "fetching", "compare", "apply", "ended"}]
      BY DEF Init, Loaders
    <2>2. /\ attempt \in 1..Attempts /\ nextTick \in 0..RefreshEvery /\ healthy \in 0..MaxHealthy
          /\ lookup \in Databases /\ timestamp \in Databases /\ newest \in Databases
      BY ResolverAssumption DEF Init, Databases
    <2>3. tick \in BOOLEAN /\ published \in 1..MaxVersion /\ health \in {"ok", "bad"}
      BY DEF Init
    <2>4. offers \in [Loaders -> SUBSET Databases]
      BY ResolverAssumption DEF Init, Current, Databases
    <2> QED BY <1>1, <2>1, <2>2, <2>3, <2>4 DEF TypeOK
  <1>3. Stages
    BY <1>1 DEF Init, Stages, Active
  <1>4. \A l \in Loaders : offers[l] \subseteq {Current}
    BY DEF Init
  <1>5. Versions
    <2>1. /\ lookup = 0 /\ timestamp = 0 /\ newest = 0 /\ published \in Nat
          /\ \A l \in Loaders : phase[l] \notin {"compare", "apply"}
      BY ResolverAssumption DEF Init
    <2>2. \A l \in Loaders : \A v \in offers[l] : Usable(v)
      BY <1>2, <1>4, <2>1, CurrentIs DEF Usable, Init
    <2> QED BY <2>1, <2>2 DEF Versions, NeverOlder
  <1>6. Healthy
    BY <1>1, ResolverAssumption DEF Init, Healthy, Loaders, Loading, Deadline
  <1> QED BY <1>2, <1>3, <1>5, <1>6 DEF IInv

-----------------------------------------------------------------------------
(* Upstream *)

LEMMA PublishIInv ==
    ASSUME IInv, Publish
    PROVE  IInv'
  <1>1. /\ UNCHANGED <<health, healthy, lookup, timestamp, newest, phase, got, left, attempt, nextTick, tick>>
        /\ OffersFollow
    BY DEF Publish, dbVars, timerVars
  <1>2. /\ published' = published + 1 /\ published \in Nat /\ newest \in Nat
        /\ published' \in 1..MaxVersion /\ \A l \in Loaders : got[l] \in Nat
    BY ResolverAssumption DEF Publish, IInv, TypeOK, Databases
  <1>3. Current' \in Databases /\ Current' \in {0, published'}
        /\ (Current' = 0 => health = "bad")
    BY <1>1, <1>2, ResolverAssumption DEF Current, Databases, IInv, TypeOK
  <1>4. /\ offers' \in [Loaders -> SUBSET Databases]
        /\ \A l \in Loaders : \A v \in offers'[l] : v \in offers[l] \/ v = Current'
    BY <1>1, <1>3 DEF OffersFollow, IInv, TypeOK
  <1>5. TypeOK' /\ Stages'
    BY <1>1, <1>2, <1>4 DEF IInv, TypeOK, Stages, Active, Due
  <1>6. Versions'
    <2>1. newest <= published /\ newest' = newest
      BY <1>1 DEF IInv, Versions
    <2>2. ASSUME NEW v \in Databases, Usable(v) PROVE Usable(v)'
      BY <1>2, <2>1, <2>2 DEF Usable, Databases
    <2>3. Usable(Current)'
      BY <1>2, <1>3, <2>1 DEF Usable
    <2>4. ASSUME NEW l \in Loaders, phase'[l] = "fetching", NEW v \in offers'[l]
          PROVE  Usable(v)'
      <3>1. CASE v \in offers[l]
        BY <1>1, <2>2, <2>4, <3>1 DEF IInv, Versions, TypeOK
      <3>2. CASE v = Current'
        BY <1>2, <1>3, <2>1, <3>2 DEF Usable
      <3> QED BY <1>4, <3>1, <3>2
    <2>5. \A l \in Loaders : phase'[l] \in {"compare", "apply"} => Usable(got[l])'
      BY <1>1, <2>2 DEF IInv, Versions, TypeOK
    <2> QED BY <1>1, <1>2, <2>1, <2>4, <2>5 DEF Versions, NeverOlder, IInv
  <1>7. Healthy'
    <2>1. ASSUME NEW l \in Loaders, phase'[l] = "fetching", 0 \in offers'[l]
          PROVE  healthy' + left'[l] <= LoadTime
      <3>1. CASE 0 \in offers[l]
        BY <1>1, <2>1, <3>1 DEF IInv, Healthy
      <3>2. CASE Current' = 0
        <4>1. healthy = 0 /\ left[l] <= LoadTime /\ left[l] \in Nat
          BY <1>1, <1>3, <2>1, <3>2 DEF IInv, Healthy, Loading, TypeOK
        <4> QED BY <1>1, <4>1
      <3> QED BY <1>4, <2>1, <3>1, <3>2
    <2> QED BY <1>1, <2>1 DEF IInv, Healthy, Loading
  <1> QED BY <1>5, <1>6, <1>7 DEF IInv

LEMMA ChangeHealthIInv ==
    ASSUME IInv, ChangeHealth
    PROVE  IInv'
  <1>1. /\ UNCHANGED <<published, lookup, timestamp, newest, phase, got, left, attempt, nextTick, tick>>
        /\ healthy' = 0 /\ health' \in {"ok", "bad"} /\ OffersFollow
    BY DEF ChangeHealth, dbVars, timerVars
  <1>2. Current' \in Databases /\ Current' \in {0, published}
    BY <1>1, ResolverAssumption DEF Current, Databases, IInv, TypeOK
  <1>3. /\ offers' \in [Loaders -> SUBSET Databases]
        /\ \A l \in Loaders : \A v \in offers'[l] : v \in offers[l] \/ v = Current'
    BY <1>1, <1>2 DEF OffersFollow, IInv, TypeOK
  <1>4. TypeOK' /\ Stages'
    <2>1. TypeOK'
      BY <1>1, <1>3, ResolverAssumption DEF IInv, TypeOK
    <2>2. Stages'
      BY <1>1 DEF IInv, Stages, Active, Due
    <2> QED BY <2>1, <2>2
  <1>5. Versions'
    <2>1. newest <= published /\ published \in Nat
      BY ResolverAssumption DEF IInv, Versions, TypeOK
    <2>2. ASSUME NEW l \in Loaders, phase'[l] = "fetching", NEW v \in offers'[l]
          PROVE  Usable(v)
      <3>1. CASE v \in offers[l]
        BY <1>1, <2>2, <3>1 DEF IInv, Versions
      <3>2. CASE v = Current'
        BY <1>2, <2>1, <3>2 DEF Usable
      <3> QED BY <1>3, <3>1, <3>2
    <2> QED BY <1>1, <2>2 DEF IInv, Versions, NeverOlder, Usable
  <1>6. Healthy'
    <2>1. \A l \in Loaders : left[l] \in Nat
      BY DEF IInv, TypeOK
    <2>2. healthy \in Nat /\ attempt \in 1..Attempts
      BY DEF IInv, TypeOK
    <2> QED BY <1>1, <2>1, <2>2, Schedule DEF IInv, Healthy, Loaders, Loading
  <1> QED BY <1>4, <1>5, <1>6 DEF IInv

-----------------------------------------------------------------------------
(* load *)

\* Types and order after a load returns to whoever called it.
LEMMA ReturnedStages ==
    ASSUME IInv, NEW l \in Loaders, NEW ok \in BOOLEAN, Loading(l), Returned(l, ok),
           ok = FALSE => healthy <= LoadTime,
           UNCHANGED <<timerVars, health, healthy>>
    PROVE  /\ phase' \in [Loaders -> {"off", "sleeping", "fetching", "compare", "apply", "ended"}]
           /\ left' \in [Loaders -> Nat] /\ attempt' \in 1..Attempts
           /\ Stages' /\ Healthy'
           /\ \A k \in Loaders : ~Loading(k)'
  <1>1. /\ phase \in [Loaders -> {"off", "sleeping", "fetching", "compare", "apply", "ended"}]
        /\ left \in [Loaders -> Nat] /\ attempt \in 1..Attempts /\ attempt \in Nat
        /\ nextTick \in Nat /\ healthy \in Nat
    BY ResolverAssumption DEF IInv, TypeOK
  <1>2. Loaders = {"boot", "retry", "refresh"}
    BY DEF Loaders
  <1>3. \A k \in Loaders \ {l} : ~Loading(k)
    BY StagesExclude DEF IInv, LoadsNeverOverlap
  <1>4. nextTick' = nextTick /\ tick' = tick /\ health' = health /\ healthy' = healthy
    BY DEF timerVars
  <1>5. CASE l = "boot"
    <2>1. BootReturns(ok)
      BY <1>5 DEF Returned
    <2>2. /\ phase["retry"] = "off" /\ phase["refresh"] = "off"
          /\ tick = FALSE /\ nextTick = RefreshEvery /\ attempt = 1
      BY <1>5 DEF Loading, IInv, Stages
    <2>3. attempt' = 1 /\ phase'["boot"] = "ended" /\ phase'["refresh"] = "sleeping"
      BY <1>1, <1>2, <2>1, <2>2 DEF BootReturns
    <2>4. CASE ok
      <3>1. phase'["retry"] = "ended"
        BY <1>1, <1>2, <2>1, <2>4 DEF BootReturns
      <3>2. left' \in [Loaders -> Nat] /\ phase' \in [Loaders -> {"off", "sleeping", "fetching", "compare", "apply", "ended"}]
        BY <1>1, <1>2, <2>1, <2>4 DEF BootReturns
      <3>3. \A k \in Loaders : ~Loading(k)'
        BY <1>2, <2>3, <3>1 DEF Loading
      <3>4. Stages' /\ Healthy'
        BY <1>4, <2>3, <3>1, <3>3 DEF Stages, Active, Healthy, IInv, Loading
      <3> QED BY <1>1, <1>2, <2>2, <2>3, <3>2, <3>3, <3>4
    <2>5. CASE ~ok
      <3>1. /\ phase'["retry"] = "sleeping" /\ left'["retry"] = Wait[1]
            /\ phase' \in [Loaders -> {"off", "sleeping", "fetching", "compare", "apply", "ended"}]
        BY <1>1, <1>2, <2>1, <2>5 DEF BootReturns, Backoff
      <3>2. left' \in [Loaders -> Nat]
        BY <1>1, <1>2, <2>1, <2>5, Schedule DEF BootReturns, Backoff
      <3>3. Remaining[1] >= Wait[1] + LoadTime + Remaining[2] /\ Remaining[1] < RefreshEvery
            /\ Wait[1] \in Nat /\ LoadTime \in Nat /\ Remaining[2] \in Nat
            /\ Remaining[1] \in Nat /\ RefreshEvery \in Nat
        BY <1>1, <2>2, Schedule
      <3>4. Stages'
        BY <1>4, <2>2, <2>3, <3>1, <3>3 DEF Stages, Active, Due
      <3>5. \A k \in Loaders : ~Loading(k)'
        BY <1>2, <2>3, <3>1 DEF Loading
      <3>6. Healthy'
        BY <1>1, <1>4, <2>3, <2>5, <3>1, <3>3, <3>5 DEF Healthy, IInv, Loading
      <3> QED BY <1>1, <1>2, <2>2, <2>3, <3>1, <3>2, <3>4, <3>5, <3>6
    <2> QED BY <2>4, <2>5
  <1>6. CASE l = "retry"
    <2>1. RetryReturns(ok)
      BY <1>6 DEF Returned
    <2>2. /\ phase["boot"] = "ended" /\ phase["refresh"] = "sleeping" /\ tick = FALSE
          /\ nextTick > left["retry"] + Remaining[attempt + 1] /\ left["retry"] \in Nat
      BY <1>1, <1>2, <1>6 DEF Loading, IInv, Stages, Active, Due
    <2>3. phase'["boot"] = "ended" /\ phase'["refresh"] = "sleeping"
      BY <1>1, <1>2, <2>1, <2>2 DEF RetryReturns
    <2>4. CASE ok \/ attempt = Attempts
      <3>1. /\ phase'["retry"] = "ended" /\ attempt' = attempt /\ left' \in [Loaders -> Nat]
            /\ phase' \in [Loaders -> {"off", "sleeping", "fetching", "compare", "apply", "ended"}]
        BY <1>1, <1>2, <2>1, <2>4 DEF RetryReturns
      <3>2. \A k \in Loaders : ~Loading(k)'
        BY <1>2, <2>3, <3>1 DEF Loading
      <3>3. Stages' /\ Healthy'
        BY <1>4, <2>3, <3>1, <3>2 DEF Stages, Active, Healthy, IInv, Loading
      <3> QED BY <1>1, <1>2, <2>3, <3>1, <3>2, <3>3
    <2>5. CASE ~(ok \/ attempt = Attempts)
      <3>1. attempt + 1 \in 1..Attempts
        BY <1>1, <2>5, ResolverAssumption
      <3>2. /\ Wait[attempt + 1] \in Nat /\ LoadTime \in Nat
            /\ Remaining[attempt + 1] \in Nat /\ Remaining[(attempt + 1) + 1] \in Nat
            /\ Remaining[attempt + 1] >= Wait[attempt + 1] + LoadTime + Remaining[(attempt + 1) + 1]
        BY <3>1, Schedule
      <3>3. /\ phase'["retry"] = "sleeping" /\ attempt' = attempt + 1
            /\ left'["retry"] = Wait[attempt + 1]
            /\ phase' \in [Loaders -> {"off", "sleeping", "fetching", "compare", "apply", "ended"}]
        BY <1>1, <1>2, <2>1, <2>5 DEF RetryReturns, Backoff
      <3>4. left' \in [Loaders -> Nat]
        BY <1>1, <1>2, <2>1, <2>5, <3>2 DEF RetryReturns, Backoff
      <3>5. Stages'
        BY <1>1, <1>4, <2>2, <2>3, <3>2, <3>3 DEF Stages, Active, Due
      <3>6. \A k \in Loaders : ~Loading(k)'
        BY <1>2, <2>3, <3>3 DEF Loading
      <3>7. Healthy'
        BY <1>1, <1>4, <2>5, <3>2, <3>3, <3>6 DEF Healthy, IInv, Loading
      <3> QED BY <1>1, <1>2, <2>3, <3>1, <3>3, <3>4, <3>5, <3>6, <3>7
    <2> QED BY <2>4, <2>5
  <1>7. CASE l = "refresh"
    <2>1. RefreshReturns(ok)
      BY <1>7 DEF Returned
    <2>2. phase["boot"] = "ended" /\ phase["retry"] = "ended"
      BY <1>2, <1>7 DEF Loading, IInv, Stages, Active
    <2>3. /\ phase'["boot"] = "ended" /\ phase'["retry"] = "ended" /\ phase'["refresh"] = "sleeping"
          /\ attempt' = attempt /\ left' \in [Loaders -> Nat]
          /\ phase' \in [Loaders -> {"off", "sleeping", "fetching", "compare", "apply", "ended"}]
      BY <1>1, <1>2, <2>1, <2>2 DEF RefreshReturns
    <2>4. \A k \in Loaders : ~Loading(k)'
      BY <1>2, <2>3 DEF Loading
    <2>5. Stages' /\ Healthy'
      BY <1>4, <2>3, <2>4 DEF Stages, Active, Healthy, IInv, Loading
    <2> QED BY <1>1, <1>2, <2>3, <2>4, <2>5
  <1> QED BY <1>2, <1>5, <1>6, <1>7

\* A loader goes on to the next stage of its load.
LEMMA LoadGoesOn ==
    ASSUME IInv, NEW l \in Loaders, Loading(l), NEW p \in {"compare", "apply"},
           phase' = [phase EXCEPT ![l] = p],
           UNCHANGED <<left, attempt, timerVars, health, healthy>>
    PROVE  /\ phase' \in [Loaders -> {"off", "sleeping", "fetching", "compare", "apply", "ended"}]
           /\ Stages' /\ Healthy'
           /\ \A k \in Loaders \ {l} : ~Loading(k)'
  <1>1. phase \in [Loaders -> {"off", "sleeping", "fetching", "compare", "apply", "ended"}]
    BY DEF IInv, TypeOK
  <1>2. phase'[l] = p /\ \A k \in Loaders \ {l} : phase'[k] = phase[k]
    BY <1>1
  <1>3. \A k \in Loaders \ {l} : ~Loading(k)
    BY StagesExclude DEF IInv, LoadsNeverOverlap
  <1>4. /\ phase' \in [Loaders -> {"off", "sleeping", "fetching", "compare", "apply", "ended"}]
        /\ \A k \in Loaders \ {l} : ~Loading(k)'
    BY <1>1, <1>2, <1>3 DEF Loading
  <1>5. Stages'
    BY <1>2 DEF timerVars, Loaders, Loading, IInv, Stages, Active, Due
  <1>6. Healthy'
    <2>1. \A k \in Loaders : phase'[k] # "fetching"
      BY <1>2, <1>4 DEF Loading
    <2>2. \A k \in Loaders : Loading(k)' => left'[k] <= LoadTime
      BY <1>4 DEF IInv, Healthy
    <2>3. /\ phase'["retry"] = "sleeping" => phase["retry"] = "sleeping"
          /\ phase'["retry"] \in {"fetching", "compare", "apply"} =>
               phase["retry"] \in {"fetching", "compare", "apply"}
      BY <1>2 DEF Loaders, Loading
    <2> QED BY <2>1, <2>2, <2>3 DEF IInv, Healthy
  <1> QED BY <1>4, <1>5, <1>6

LEMMA FetchedIInv ==
    ASSUME IInv, NEW l \in Loaders, Fetched(l)
    PROVE  IInv'
  <1>1. /\ Loading(l) /\ phase' = [phase EXCEPT ![l] = "compare"]
        /\ UNCHANGED <<published, health, healthy, lookup, timestamp, newest, left, attempt, timerVars>>
    BY DEF Fetched, Loading, upstreamVars, dbVars
  <1>2. /\ Stages' /\ Healthy'
        /\ phase' \in [Loaders -> {"off", "sleeping", "fetching", "compare", "apply", "ended"}]
        /\ \A k \in Loaders \ {l} : ~Loading(k)'
    BY <1>1, LoadGoesOn
  <1>3. PICK v \in offers[l] : got' = [got EXCEPT ![l] = v]
    BY DEF Fetched
  <1>4. /\ v \in Databases /\ Usable(v) /\ got'[l] = v
        /\ got' \in [Loaders -> Databases] /\ offers' \in [Loaders -> SUBSET Databases]
    BY <1>3 DEF Fetched, IInv, TypeOK, Versions
  <1>5. TypeOK'
    BY <1>1, <1>2, <1>4 DEF IInv, TypeOK, timerVars
  <1>6. Versions'
    <2>1. \A k \in Loaders : phase'[k] # "fetching"
      BY <1>1, <1>2 DEF Loading, IInv, TypeOK
    <2>2. \A k \in Loaders : phase'[k] \in {"compare", "apply"} => k = l
      BY <1>2 DEF Loading
    <2> QED BY <1>1, <1>4, <2>1, <2>2 DEF IInv, Versions, NeverOlder, Usable
  <1> QED BY <1>2, <1>5, <1>6 DEF IInv

LEMMA LoadFailsIInv ==
    ASSUME IInv, NEW l \in Loaders, LoadFails(l)
    PROVE  IInv'
  <1>1. /\ Loading(l) /\ Returned(l, FALSE)
        /\ phase[l] = "fetching" /\ 0 \in offers[l] /\ offers' = [offers EXCEPT ![l] = {}]
        /\ UNCHANGED <<published, health, healthy, lookup, timestamp, newest, got, timerVars>>
    BY DEF LoadFails, Loading, upstreamVars, dbVars
  <1>0. healthy <= LoadTime
    <2>1. healthy + left[l] <= LoadTime /\ healthy \in Nat /\ left[l] \in Nat
      BY <1>1 DEF IInv, TypeOK, Healthy
    <2>2. LoadTime \in Nat
      BY ResolverAssumption
    <2> QED BY ONLY <2>1, <2>2
  <1>2. /\ phase' \in [Loaders -> {"off", "sleeping", "fetching", "compare", "apply", "ended"}]
        /\ left' \in [Loaders -> Nat] /\ attempt' \in 1..Attempts
        /\ Stages' /\ Healthy'
        /\ \A k \in Loaders : ~Loading(k)'
    BY <1>1, <1>0, ReturnedStages
  <1>3. TypeOK'
    BY <1>1, <1>2 DEF IInv, TypeOK, timerVars
  <1>4. Versions'
    BY <1>1, <1>2 DEF IInv, Versions, NeverOlder, Loading
  <1> QED BY <1>2, <1>3, <1>4 DEF IInv

LEMMA CompareIInv ==
    ASSUME IInv, NEW l \in Loaders, Compare(l)
    PROVE  IInv'
  <1>1. /\ Loading(l) /\ phase[l] = "compare"
        /\ UNCHANGED <<published, health, healthy, lookup, timestamp, newest, offers, got, timerVars>>
    BY DEF Compare, Loading, upstreamVars, dbVars
  <1>2. CASE Returned(l, TRUE)
    <2>1. /\ phase' \in [Loaders -> {"off", "sleeping", "fetching", "compare", "apply", "ended"}]
          /\ left' \in [Loaders -> Nat] /\ attempt' \in 1..Attempts
          /\ Stages' /\ Healthy'
          /\ \A k \in Loaders : ~Loading(k)'
      BY <1>1, <1>2, ReturnedStages
    <2>2. TypeOK'
      BY <1>1, <2>1 DEF IInv, TypeOK, timerVars
    <2>3. Versions'
      BY <1>1, <2>1 DEF IInv, Versions, NeverOlder, Loading
    <2> QED BY <2>1, <2>2, <2>3 DEF IInv
  <1>3. CASE phase' = [phase EXCEPT ![l] = "apply"] /\ UNCHANGED <<left, attempt>>
    <2>1. /\ Stages' /\ Healthy'
          /\ phase' \in [Loaders -> {"off", "sleeping", "fetching", "compare", "apply", "ended"}]
          /\ \A k \in Loaders \ {l} : ~Loading(k)'
      BY <1>1, <1>3, LoadGoesOn
    <2>2. TypeOK'
      BY <1>1, <1>3, <2>1 DEF IInv, TypeOK, timerVars
    <2>3. \A k \in Loaders : phase'[k] # "fetching" /\ (Loading(k)' => k = l)
      BY <1>1, <1>3, <2>1 DEF Loading, IInv, TypeOK
    <2>4. Versions'
      BY <1>1, <2>3 DEF IInv, Versions, NeverOlder, Loading, Usable
    <2> QED BY <2>1, <2>2, <2>4 DEF IInv
  <1> QED BY <1>2, <1>3 DEF Compare

\* The write that the unlocked comparison could have made unsafe.
LEMMA ApplyIInv ==
    ASSUME IInv, NEW l \in Loaders, Apply(l)
    PROVE  IInv'
  <1>1. /\ Loading(l) /\ phase[l] = "apply" /\ Returned(l, TRUE)
        /\ UNCHANGED <<published, health, healthy, offers, got, timerVars>>
        /\ lookup' = got[l] /\ timestamp' = got[l]
        /\ newest' = IF got[l] > newest THEN got[l] ELSE newest
    BY DEF Apply, Loading, upstreamVars
  <1>2. /\ phase' \in [Loaders -> {"off", "sleeping", "fetching", "compare", "apply", "ended"}]
        /\ left' \in [Loaders -> Nat] /\ attempt' \in 1..Attempts
        /\ Stages' /\ Healthy'
        /\ \A k \in Loaders : ~Loading(k)'
    BY <1>1, ReturnedStages
  <1>3. got[l] \in Databases /\ newest \in Databases /\ published \in Nat
    BY DEF IInv, TypeOK
  <1>4. TypeOK'
    BY <1>1, <1>2, <1>3 DEF IInv, TypeOK, timerVars
  <1>5. got[l] = 0 \/ (newest <= got[l] /\ got[l] <= published)
    BY <1>1 DEF IInv, Versions, Usable
  <1>6. Versions'
    BY <1>1, <1>2, <1>3, <1>5 DEF IInv, Versions, NeverOlder, Databases, Loading
  <1> QED BY <1>2, <1>4, <1>6 DEF IInv

-----------------------------------------------------------------------------
(* The background loops and time *)

LEMMA RetryWakesIInv ==
    ASSUME IInv, RetryWakes
    PROVE  IInv'
  <1>1. /\ UNCHANGED <<published, health, healthy, lookup, timestamp, newest, got, attempt, nextTick, tick>>
        /\ phase["retry"] = "sleeping" /\ left["retry"] = 0
        /\ offers' = [offers EXCEPT !["retry"] = IF Ready THEN {} ELSE {Current}]
    BY DEF RetryWakes, upstreamVars, dbVars, timerVars
  <1>2. /\ phase \in [Loaders -> {"off", "sleeping", "fetching", "compare", "apply", "ended"}]
        /\ left \in [Loaders -> Nat] /\ Loaders = {"boot", "retry", "refresh"}
        /\ attempt \in 1..Attempts /\ LoadTime \in Nat /\ healthy \in Nat
    BY ResolverAssumption DEF IInv, TypeOK, Loaders
  <1>3. /\ \/ phase'["retry"] = "ended"
           \/ phase'["retry"] = "fetching" /\ left'["retry"] = LoadTime
        /\ phase'["boot"] = phase["boot"] /\ phase'["refresh"] = phase["refresh"]
        /\ phase' \in [Loaders -> {"off", "sleeping", "fetching", "compare", "apply", "ended"}]
        /\ left' \in [Loaders -> Nat]
    BY <1>2 DEF RetryWakes, Deadline
  <1>4. TypeOK'
    <2>1. offers' \in [Loaders -> SUBSET Databases]
      BY <1>1, CurrentIs DEF IInv, TypeOK
    <2> QED BY <1>1, <1>3, <2>1 DEF IInv, TypeOK
  <1>5. Stages'
    <2>1. /\ phase["boot"] = "ended" /\ phase["refresh"] = "sleeping" /\ tick = FALSE
          /\ nextTick > LoadTime + Remaining[attempt + 1]
      BY <1>1, <1>2, Schedule DEF IInv, Stages, Active, Due
    <2> QED BY <1>1, <1>2, <1>3, <2>1, Schedule DEF Stages, Active, Due
  <1>6. phase["boot"] = "ended" /\ phase["refresh"] = "sleeping"
    BY <1>1 DEF IInv, Stages, Active
  <1>7. \A v \in offers'["retry"] : Usable(v) /\ (v = 0 => healthy = 0)
    BY <1>1, <1>2, StartOffers DEF IInv, TypeOK
  <1>8. Versions'
    BY <1>1, <1>2, <1>3, <1>6, <1>7 DEF IInv, Versions, NeverOlder, Usable
  <1>9. Healthy'
    BY <1>1, <1>2, <1>3, <1>6, <1>7, Schedule DEF IInv, Healthy, Loading
  <1> QED BY <1>4, <1>5, <1>8, <1>9 DEF IInv

LEMMA TickerFiresIInv ==
    ASSUME IInv, TickerFires
    PROVE  IInv'
  <1>1. /\ UNCHANGED <<published, health, healthy, lookup, timestamp, newest, phase, offers, got, left, attempt>>
        /\ nextTick = 0 /\ tick' = TRUE /\ nextTick' = RefreshEvery /\ phase["refresh"] # "off"
    BY DEF TickerFires, upstreamVars, dbVars
  <1>2. TypeOK' /\ Versions' /\ Healthy'
    BY <1>1, ResolverAssumption DEF IInv, TypeOK, Versions, NeverOlder, Usable, Healthy, Loading
  <1>3. ~Active
    <2>1. left["retry"] \in Nat /\ attempt \in 1..Attempts
      BY DEF IInv, TypeOK, Loaders
    <2> QED BY <1>1, <2>1, Schedule DEF IInv, Stages, Due
  <1>4. Stages'
    BY <1>1, <1>3 DEF IInv, Stages, Active
  <1> QED BY <1>2, <1>4 DEF IInv

LEMMA RefreshWakesIInv ==
    ASSUME IInv, RefreshWakes
    PROVE  IInv'
  <1>1. /\ UNCHANGED <<published, health, healthy, lookup, timestamp, newest, got, attempt, nextTick>>
        /\ phase["refresh"] = "sleeping" /\ tick /\ tick' = FALSE
        /\ offers' = [offers EXCEPT !["refresh"] = {Current}]
    BY DEF RefreshWakes, upstreamVars, dbVars
  <1>2. /\ phase \in [Loaders -> {"off", "sleeping", "fetching", "compare", "apply", "ended"}]
        /\ left \in [Loaders -> Nat] /\ Loaders = {"boot", "retry", "refresh"}
        /\ LoadTime \in Nat
    BY ResolverAssumption DEF IInv, TypeOK, Loaders
  <1>3. /\ phase'["refresh"] = "fetching"
        /\ phase'["boot"] = phase["boot"] /\ phase'["retry"] = phase["retry"]
        /\ left'["retry"] = left["retry"] /\ left'["refresh"] = LoadTime
        /\ left' \in [Loaders -> Nat]
        /\ phase' \in [Loaders -> {"off", "sleeping", "fetching", "compare", "apply", "ended"}]
    BY <1>2 DEF RefreshWakes, Deadline
  <1>4. phase["boot"] = "ended" /\ ~Active
    BY <1>1 DEF IInv, Stages
  <1>5. TypeOK'
    <2>1. offers' \in [Loaders -> SUBSET Databases]
      BY <1>1, CurrentIs DEF IInv, TypeOK
    <2> QED BY <1>1, <1>3, <2>1 DEF IInv, TypeOK
  <1>6. Stages'
    BY <1>1, <1>3, <1>4 DEF IInv, Stages, Active
  <1>8. phase["retry"] = "ended"
    BY <1>4 DEF IInv, Stages, Active
  <1>9. \A v \in offers'["refresh"] : Usable(v) /\ (v = 0 => healthy = 0)
    BY <1>1, <1>2, StartOffers DEF IInv, TypeOK
  <1>7. Versions' /\ Healthy'
    <2>1. Versions'
      BY <1>1, <1>2, <1>3, <1>4, <1>8, <1>9 DEF IInv, Versions, NeverOlder, Usable
    <2>2. Healthy'
      BY <1>1, <1>2, <1>3, <1>4, <1>8, <1>9 DEF IInv, Healthy, Loading
    <2> QED BY <2>1, <2>2
  <1> QED BY <1>5, <1>6, <1>7 DEF IInv

LEMMA ElapseIInv ==
    ASSUME IInv, Elapse
    PROVE  IInv'
  <1>1. /\ UNCHANGED <<published, health, lookup, timestamp, newest, phase, offers, got, attempt, tick>>
        /\ \A l \in Loaders : Loading(l) => left[l] > 0
        /\ phase["retry"] = "sleeping" => left["retry"] > 0
        /\ phase["refresh"] # "off" => nextTick > 0
        /\ left' = [l \in Loaders |-> IF left[l] > 0 THEN left[l] - 1 ELSE 0]
        /\ nextTick' = IF phase["refresh"] = "off" THEN nextTick ELSE nextTick - 1
        /\ healthy' = IF health = "ok" /\ healthy < MaxHealthy THEN healthy + 1 ELSE healthy
    BY DEF Elapse, dbVars
  <1>2. /\ left \in [Loaders -> Nat] /\ Loaders = {"boot", "retry", "refresh"}
        /\ attempt \in 1..Attempts /\ healthy \in 0..MaxHealthy /\ MaxHealthy \in Nat
        /\ nextTick \in 0..RefreshEvery
    BY ResolverAssumption DEF IInv, TypeOK, Loaders
  <1>3. left' \in [Loaders -> Nat] /\ healthy' \in 0..MaxHealthy
    BY <1>1, <1>2
  <1>4. nextTick' \in 0..RefreshEvery
    <2>1. CASE phase["refresh"] = "off"
      BY <1>1, <1>2, <2>1
    <2>2. CASE phase["refresh"] # "off"
      <3>1. nextTick' = nextTick - 1 /\ nextTick > 0
        BY <1>1, <2>2
      <3> QED BY <1>2, <3>1, ResolverAssumption
    <2> QED BY <2>1, <2>2
  <1>5. TypeOK'
    BY <1>1, <1>3, <1>4 DEF IInv, TypeOK
  <1>6. phase["retry"] \in {"sleeping", "fetching", "compare", "apply"} =>
          left["retry"] > 0 /\ left'["retry"] = left["retry"] - 1
    BY <1>1, <1>2 DEF Loading
  <1>7. Stages'
    <2>1. CASE phase["boot"] # "ended"
      BY <1>1, <2>1 DEF IInv, Stages, Active
    <2>2. CASE phase["boot"] = "ended" /\ ~Active
      BY <1>1, <2>2 DEF IInv, Stages, Active
    <2>3. CASE phase["boot"] = "ended" /\ Active
      BY <1>1, <1>2, <1>6, <2>3, Schedule DEF IInv, Stages, Active, Due
    <2> QED BY <2>1, <2>2, <2>3
  <1>8. Versions'
    BY <1>1 DEF IInv, Versions, NeverOlder, Usable
  <1>9. Healthy'
    <2>1. \A l \in Loaders : Loading(l) => left[l] > 0 /\ left'[l] = left[l] - 1
      BY <1>1, <1>2
    <2>2. \A l \in Loaders : Loading(l)' => left'[l] <= LoadTime
      BY <1>1, <1>2, <2>1, Schedule DEF IInv, Healthy, Loading
    <2>3. healthy' \in {healthy, healthy + 1} /\ (health = "bad" => healthy' = healthy)
      BY <1>1
    <2>4. \A l \in Loaders : phase'[l] = "fetching" /\ 0 \in offers'[l] =>
            healthy' + left'[l] <= LoadTime
      BY <1>1, <1>2, <2>1, <2>3, Schedule DEF IInv, Healthy, Loading
    <2>5. /\ phase'["retry"] = "sleeping" => healthy' + left'["retry"] <= Wait[attempt'] + LoadTime
          /\ phase'["retry"] \in {"fetching", "compare", "apply"} =>
               healthy' + left'["retry"] <= Wait[attempt'] + 2 * LoadTime
      BY <1>1, <1>2, <1>6, <2>3, Schedule DEF IInv, Healthy
    <2> QED BY <1>1, <2>2, <2>3, <2>4, <2>5 DEF IInv, Healthy
  <1> QED BY <1>5, <1>7, <1>8, <1>9 DEF IInv

-----------------------------------------------------------------------------
LEMMA NextIInv == IInv /\ [Next]_vars => IInv'
  <1>1. ASSUME IInv, UNCHANGED vars PROVE IInv'
    BY <1>1 DEF vars, IInv, TypeOK, Stages, Active, Due, Versions, NeverOlder, Usable,
                Healthy, Loading
  <1> QED BY <1>1, PublishIInv, ChangeHealthIInv, FetchedIInv, LoadFailsIInv, CompareIInv,
             ApplyIInv, RetryWakesIInv, TickerFiresIInv, RefreshWakesIInv, ElapseIInv
          DEF Next, LoadStep

LEMMA InvariantIInv == Spec => []IInv
  BY InitIInv, NextIInv, PTL DEF Spec

THEOREM TypeCorrect == Spec => []TypeOK
  <1>1. IInv => TypeOK
    BY DEF IInv
  <1> QED BY <1>1, InvariantIInv, PTL

\* The initial load, the retries and the refresh loop never load side by side,
\* although nothing in the code keeps them apart but their timing
\* (resolver.go:118-136, 256-263).
THEOREM OneLoadAtATime == Spec => []LoadsNeverOverlap
  <1>1. IInv => LoadsNeverOverlap
    BY StagesExclude DEF IInv
  <1> QED BY <1>1, InvariantIInv, PTL

\* A replaced database never comes back (resolver.go:234-251).
THEOREM NeverGoesBack == Spec => []NeverOlder
  <1>1. IInv => NeverOlder
    BY DEF IInv, Versions
  <1> QED BY <1>1, InvariantIInv, PTL

\* While the retries go on, upstream has not been well for longer than the pause
\* at hand and two loads, the one that an outage may have doomed and the next
\* (resolver.go:17-18, 112-125, 146-161).
THEOREM RetriesFollowRecovery == Spec => []RetryHelps
  <1>1. ASSUME IInv PROVE RetryHelps
    <2>1. left["retry"] \in Nat /\ attempt \in 1..Attempts /\ healthy \in Nat
      BY <1>1 DEF IInv, TypeOK, Loaders
    <2>2. phase["retry"] \in {"off", "sleeping", "fetching", "compare", "apply", "ended"}
      BY <1>1 DEF IInv, TypeOK, Loaders
    <2> QED BY <1>1, <2>1, <2>2, Schedule DEF IInv, Healthy, RetryHelps
  <1> QED BY <1>1, InvariantIInv, PTL

-----------------------------------------------------------------------------
(* The Spotify client: the inductive invariant *)

\* The requests that have been let through and have not posted yet.
Checked == {r \in DOMAIN calls : calls[r].at = "checked"}

\* What the breaker has let through since it opened and what it will still let
\* through leave out the request whose failure opened it.
BreakerCount == openFor > 0 => posts + Cardinality(Checked) < Cardinality(Requests)

\* A token on its way has aged by no more than the transit, one about to be used
\* outlives the longest delay.
ClockOf(c) ==
    /\ c.at = "issued" => /\ c.age <= MaxTransit /\ c.tok.given \in Lifetimes
                          /\ c.tok.life + c.age >= c.tok.given
    /\ c.at = "send" => c.age <= MaxStall /\ c.tok.life + c.age > MaxStall

\* And a cached token lives longer than the client believes, by the margin less
\* the transit.
TokenClock ==
    /\ \A r \in DOMAIN calls : ClockOf(calls[r])
    /\ token.left > 0 => token.life + MaxTransit >= token.left + Margin

SpotifyIInv == SpotifyTypeOK /\ BreakerCount /\ TokenClock /\ refusals <= failures

-----------------------------------------------------------------------------
(* What a step does to the calls *)

\* r is where a says, with token tok and nothing else changed.
Moved(r, a, tok) ==
    /\ DOMAIN calls' = DOMAIN calls /\ calls' \in [DOMAIN calls -> Calls]
    /\ calls'[r].at = a /\ calls'[r].tok = tok /\ calls'[r].age = 0
    /\ \A q \in DOMAIN calls \ {r} : calls'[q] = calls[q]

Left(r) ==
    /\ DOMAIN calls' = DOMAIN calls \ {r} /\ calls' \in [DOMAIN calls \ {r} -> Calls]
    /\ \A q \in DOMAIN calls \ {r} : calls'[q] = calls[q]

LEMMA CallTypes ==
    ASSUME SpotifyTypeOK, NEW r \in DOMAIN calls
    PROVE  /\ r \in Requests /\ calls[r] \in Calls
           /\ calls[r].age \in Nat /\ calls[r].tok \in Tokens /\ calls[r].track \in Tracks
           /\ calls[r].tok.given \in Nat /\ calls[r].tok.left \in Nat
           /\ calls[r].tok.life \in Nat /\ calls[r].tok.ok \in BOOLEAN
  BY SpotifyAssumption DEF SpotifyTypeOK, Calls, Tokens

LEMMA LeaveIsLeft ==
    ASSUME SpotifyTypeOK, NEW r \in DOMAIN calls, Leave(r)
    PROVE  Left(r)
  BY DEF SpotifyTypeOK, Leave, Left

LEMMA GotoWithIsMoved ==
    ASSUME SpotifyTypeOK, NEW r \in DOMAIN calls, NEW tok \in Tokens,
           NEW a \in {"cache", "token", "checked", "post", "issued", "send",
                      "accepted", "refused", "found"},
           GotoWith(r, a, tok)
    PROVE  Moved(r, a, tok)
  <1>1. calls[r] \in Calls /\ calls \in [DOMAIN calls -> Calls]
    BY CallTypes DEF SpotifyTypeOK
  <1>2. [calls[r] EXCEPT !.at = a, !.tok = tok, !.age = 0] \in Calls
    BY <1>1 DEF Calls
  <1>3. calls' = [calls EXCEPT ![r] = [calls[r] EXCEPT !.at = a, !.tok = tok, !.age = 0]]
    BY <1>1 DEF GotoWith
  <1> QED BY <1>1, <1>2, <1>3 DEF Moved, Calls

LEMMA GotoIsMoved ==
    ASSUME SpotifyTypeOK, NEW r \in DOMAIN calls,
           NEW a \in {"cache", "token", "checked", "post", "issued", "send",
                      "accepted", "refused", "found"},
           Goto(r, a)
    PROVE  Moved(r, a, calls[r].tok)
  <1>1. calls[r] \in Calls /\ calls \in [DOMAIN calls -> Calls]
    BY CallTypes DEF SpotifyTypeOK
  <1>2. [calls[r] EXCEPT !.at = a, !.age = 0] \in Calls
    BY <1>1 DEF Calls
  <1>3. calls' = [calls EXCEPT ![r] = [calls[r] EXCEPT !.at = a, !.age = 0]]
    BY <1>1 DEF Goto
  <1> QED BY <1>1, <1>2, <1>3 DEF Moved, Calls

-----------------------------------------------------------------------------
(* What that does to the invariant *)

\* The requests that have been let through are some of all requests.
LEMMA CheckedFinite ==
    ASSUME SpotifyTypeOK
    PROVE  /\ Checked \subseteq Requests /\ IsFiniteSet(Checked)
           /\ Cardinality(Checked) \in Nat /\ Cardinality(Requests) \in Nat
  <1>1. Checked \subseteq Requests
    BY DEF SpotifyTypeOK, Checked
  <1> QED BY <1>1, SpotifyAssumption, FS_Subset, FS_CardinalityType

\* Only CheckToken puts a request there.
LEMMA CheckedShrinks ==
    ASSUME SpotifyTypeOK, NEW r \in DOMAIN calls,
           \/ Left(r)
           \/ \E a, tok : a # "checked" /\ Moved(r, a, tok)
    PROVE  /\ Checked' = Checked \ {r}
           /\ Cardinality(Checked') \in Nat /\ Cardinality(Checked') <= Cardinality(Checked)
  <1>1. Checked' = Checked \ {r}
    BY DEF Left, Moved, Checked
  <1> QED BY <1>1, CheckedFinite, FS_Subset, FS_CardinalityType

\* A failure that opens the breaker is that of a request which is through.
LEMMA FailureCount ==
    ASSUME SpotifyTypeOK, BreakerCount, NEW r \in DOMAIN calls, Left(r),
           calls[r].at # "checked", RecordFailure
    PROVE  BreakerCount' /\ failures' \in 0..MaxFailures /\ openFor' \in 0..Cooldown /\ posts' \in Nat
  <1>1. /\ failures' \in 0..MaxFailures /\ openFor' \in 0..Cooldown /\ posts' \in Nat
        /\ openFor \in Nat
    BY SpotifyAssumption DEF SpotifyTypeOK, RecordFailure, Capped
  <1>2. Checked' = Checked /\ r \notin Checked /\ r \in Requests
    BY CheckedShrinks, CallTypes DEF Checked
  <1>3. Cardinality(Checked) < Cardinality(Requests)
    BY <1>2, CheckedFinite, SpotifyAssumption, FS_Subset
  <1>4. CASE openFor = 0
    BY <1>1, <1>2, <1>3, <1>4, CheckedFinite DEF RecordFailure, BreakerCount
  <1>5. CASE openFor > 0
    BY <1>1, <1>2, <1>5 DEF RecordFailure, BreakerCount
  <1> QED BY <1>1, <1>4, <1>5

\* A step that moves one request and leaves token and breaker alone.
LEMMA QuietMove ==
    ASSUME SpotifyIInv, NEW r \in DOMAIN calls,
           \/ Left(r)
           \/ \E a, tok : a # "checked" /\ Moved(r, a, tok) /\ ClockOf(calls'[r]),
           UNCHANGED <<token, failures, openFor, posts, trouble>>,
           refusals' \in {refusals, 0}, cached' \subseteq Tracks
    PROVE  SpotifyIInv'
  <1>1. SpotifyTypeOK'
    BY SpotifyAssumption DEF SpotifyIInv, SpotifyTypeOK, Left, Moved
  <1>2. BreakerCount'
    <2>1. Cardinality(Checked') \in Nat /\ Cardinality(Checked') <= Cardinality(Checked)
      BY CheckedShrinks DEF SpotifyIInv
    <2>2. posts \in Nat /\ Cardinality(Checked) \in Nat /\ Cardinality(Requests) \in Nat
      BY CheckedFinite DEF SpotifyIInv, SpotifyTypeOK
    <2> QED BY <2>1, <2>2 DEF SpotifyIInv, BreakerCount
  <1>3. TokenClock'
    BY DEF SpotifyIInv, TokenClock, Left, Moved, ClockOf
  <1>4. refusals' <= failures'
    BY DEF SpotifyIInv, SpotifyTypeOK
  <1> QED BY <1>1, <1>2, <1>3, <1>4 DEF SpotifyIInv

\* A request leaves with a failure that counts.
LEMMA FailedMove ==
    ASSUME SpotifyIInv, NEW r \in DOMAIN calls, Leave(r),
           calls[r].at # "checked", RecordFailure,
           UNCHANGED <<token, cached, trouble>>,
           refusals' \in {refusals, Capped(refusals)}
    PROVE  SpotifyIInv'
  <1>1. Left(r)
    BY LeaveIsLeft DEF SpotifyIInv
  <1>2. BreakerCount' /\ failures' \in 0..MaxFailures /\ openFor' \in 0..Cooldown /\ posts' \in Nat
    BY <1>1, FailureCount DEF SpotifyIInv
  <1>3. /\ refusals \in 0..MaxFailures /\ failures \in 0..MaxFailures /\ refusals <= failures
        /\ MaxFailures \in Nat /\ failures' = Capped(failures)
    BY SpotifyAssumption DEF SpotifyIInv, SpotifyTypeOK, RecordFailure
  <1>4. refusals' \in 0..MaxFailures /\ refusals' <= failures'
    BY <1>3 DEF Capped
  <1>5. SpotifyTypeOK'
    BY <1>1, <1>2, <1>4 DEF SpotifyIInv, SpotifyTypeOK, Left
  <1>6. TokenClock'
    BY <1>1 DEF SpotifyIInv, TokenClock, Left
  <1> QED BY <1>2, <1>4, <1>5, <1>6 DEF SpotifyIInv

-----------------------------------------------------------------------------
(* The steps of a request *)

LEMMA InitSpotifyIInv == SpotifyInit => SpotifyIInv
  <1> SUFFICES ASSUME SpotifyInit PROVE SpotifyIInv
    OBVIOUS
  <1>1. DOMAIN calls = {} /\ calls \in [{} -> Calls] /\ NoToken \in Tokens
    BY DEF SpotifyInit, NoToken, Tokens
  <1>2. SpotifyTypeOK
    BY <1>1, SpotifyAssumption DEF SpotifyInit, SpotifyTypeOK
  <1>3. BreakerCount /\ TokenClock /\ refusals <= failures
    BY <1>1 DEF SpotifyInit, BreakerCount, TokenClock, NoToken
  <1> QED BY <1>2, <1>3 DEF SpotifyIInv

LEMMA CallIInv ==
    ASSUME SpotifyIInv, NEW r \in Requests, NEW t \in Tracks, Call(r, t)
    PROVE  SpotifyIInv'
  <1> DEFINE c == [at |-> "cache", track |-> t, tok |-> NoToken, age |-> 0]
  <1>1. c \in Calls
    BY DEF NoToken, Tokens, Calls
  <1>2. /\ DOMAIN calls' = DOMAIN calls \cup {r} /\ r \notin DOMAIN calls
        /\ calls'[r] = c /\ \A q \in DOMAIN calls : calls'[q] = calls[q]
        /\ UNCHANGED <<token, breaker, cached, trouble>>
    BY DEF Call
  <1>3. calls' \in [DOMAIN calls' -> Calls]
    <2>1. calls \in [DOMAIN calls -> Calls]
      BY DEF SpotifyIInv, SpotifyTypeOK
    <2> QED BY <1>1, <2>1 DEF Call
  <1>4. SpotifyTypeOK'
    BY <1>2, <1>3 DEF SpotifyIInv, SpotifyTypeOK, breaker
  <1>5. Checked' = Checked
    BY <1>2 DEF Checked
  <1>6. BreakerCount' /\ TokenClock' /\ refusals' <= failures'
    BY <1>2, <1>5 DEF SpotifyIInv, BreakerCount, TokenClock, ClockOf, breaker
  <1> QED BY <1>4, <1>6 DEF SpotifyIInv

LEMMA LookupCacheIInv ==
    ASSUME SpotifyIInv, NEW r \in Requests, LookupCache(r)
    PROVE  SpotifyIInv'
  <1>1. r \in DOMAIN calls /\ SpotifyTypeOK /\ cached' \subseteq Tracks
    BY DEF LookupCache, At, SpotifyIInv, SpotifyTypeOK
  <1>2. CASE Leave(r)
    BY <1>1, <1>2, LeaveIsLeft, QuietMove DEF LookupCache, breaker
  <1>3. CASE Goto(r, "token")
    <2>1. Moved(r, "token", calls[r].tok)
      BY <1>1, <1>3, GotoIsMoved
    <2> QED BY <1>1, <2>1, QuietMove DEF LookupCache, breaker, Moved, ClockOf
  <1> QED BY <1>2, <1>3 DEF LookupCache

LEMMA CheckTokenIInv ==
    ASSUME SpotifyIInv, NEW r \in Requests, CheckToken(r)
    PROVE  SpotifyIInv'
  <1>1. /\ r \in DOMAIN calls /\ SpotifyTypeOK /\ cached' \subseteq Tracks
        /\ UNCHANGED <<token, breaker, cached, trouble>>
    BY DEF CheckToken, At, SpotifyIInv, SpotifyTypeOK
  <1>2. CASE Leave(r)
    BY <1>1, <1>2, LeaveIsLeft, QuietMove DEF breaker
  <1>3. CASE Reusable /\ GotoWith(r, "send", token)
    <2>1. Moved(r, "send", token)
      BY <1>1, <1>3, GotoWithIsMoved DEF SpotifyTypeOK
    <2>2. token.life \in Nat /\ token.left \in Nat
      BY <1>1 DEF SpotifyTypeOK, Tokens
    <2>3. token.life > MaxStall
      BY <1>3, <2>2, SpotifyAssumption DEF Reusable, SpotifyIInv, TokenClock
    <2>4. ClockOf(calls'[r])
      BY <2>1, <2>2, <2>3, SpotifyAssumption DEF Moved, ClockOf
    <2> QED BY <1>1, <2>1, <2>4, QuietMove DEF breaker
  <1>4. CASE ~CircuitOpen /\ Goto(r, "checked")
    <2>1. Moved(r, "checked", calls[r].tok)
      BY <1>1, <1>4, GotoIsMoved
    <2>2. BreakerCount'
      BY <1>1, <1>4 DEF CircuitOpen, BreakerCount, breaker
    <2>3. SpotifyTypeOK'
      BY <1>1, <2>1 DEF SpotifyTypeOK, Moved, breaker
    <2>4. TokenClock' /\ refusals' <= failures'
      BY <1>1, <2>1 DEF SpotifyIInv, TokenClock, ClockOf, Moved, breaker
    <2> QED BY <2>2, <2>3, <2>4 DEF SpotifyIInv
  <1> QED BY <1>2, <1>3, <1>4 DEF CheckToken

LEMMA StartPostIInv ==
    ASSUME SpotifyIInv, NEW r \in Requests, StartPost(r)
    PROVE  SpotifyIInv'
  <1>1. /\ r \in DOMAIN calls /\ SpotifyTypeOK /\ calls[r].at = "checked"
        /\ UNCHANGED <<token, failures, openFor, refusals, cached, trouble>>
    BY DEF StartPost, At, SpotifyIInv
  <1>2. Moved(r, "post", calls[r].tok)
    BY <1>1, GotoIsMoved DEF StartPost
  <1>3. posts' \in Nat
    BY DEF StartPost, SpotifyIInv, SpotifyTypeOK
  <1>4. SpotifyTypeOK'
    BY <1>1, <1>2, <1>3 DEF SpotifyTypeOK, Moved
  <1>5. BreakerCount'
    <2>1. Checked' = Checked \ {r} /\ r \in Checked
      BY <1>1, <1>2, CheckedShrinks DEF Checked
    <2>2. Cardinality(Checked') = Cardinality(Checked) - 1
      BY <1>1, <2>1, CheckedFinite, FS_RemoveElement
    <2> QED BY <1>1, <2>2, CheckedFinite DEF StartPost, SpotifyIInv, SpotifyTypeOK, BreakerCount
  <1>6. TokenClock' /\ refusals' <= failures'
    BY <1>1, <1>2 DEF SpotifyIInv, TokenClock, ClockOf, Moved
  <1> QED BY <1>4, <1>5, <1>6 DEF SpotifyIInv

LEMMA IssueIInv ==
    ASSUME SpotifyIInv, NEW r \in Requests, NEW n \in Lifetimes, Issue(r, n)
    PROVE  SpotifyIInv'
  <1> DEFINE tok == [given |-> n, left |-> 0, life |-> n, ok |-> TRUE]
  <1>1. /\ r \in DOMAIN calls /\ SpotifyTypeOK /\ cached' \subseteq Tracks /\ tok \in Tokens
        /\ n \in Nat
    BY SpotifyAssumption DEF Issue, At, SpotifyIInv, SpotifyTypeOK, Tokens
  <1>2. Moved(r, "issued", tok)
    BY <1>1, GotoWithIsMoved DEF Issue
  <1>3. ClockOf(calls'[r])
    BY <1>1, <1>2, SpotifyAssumption DEF Moved, ClockOf
  <1> QED BY <1>1, <1>2, <1>3, QuietMove DEF Issue, breaker

LEMMA FailureIInv ==
    ASSUME SpotifyIInv, NEW r \in Requests,
           PostRefused(r) \/ PostLost(r) \/ GetUnauthorized(r)
    PROVE  SpotifyIInv'
  <1>1. r \in DOMAIN calls /\ calls[r].at # "checked" /\ Leave(r) /\ RecordFailure
    BY DEF PostRefused, PostLost, GetUnauthorized, At
  <1>2. UNCHANGED <<token, cached, trouble>> /\ refusals' \in {refusals, Capped(refusals)}
    BY DEF PostRefused, PostLost, GetUnauthorized
  <1> QED BY <1>1, <1>2, FailedMove

LEMMA StoreTokenIInv ==
    ASSUME SpotifyIInv, NEW r \in Requests, StoreToken(r)
    PROVE  SpotifyIInv'
  <1> DEFINE old == calls[r].tok
             tok == [old EXCEPT !.left = UsableFor(old.given)]
  <1>1. /\ r \in DOMAIN calls /\ SpotifyTypeOK /\ calls[r].at = "issued"
        /\ token' = tok /\ GotoWith(r, "send", tok)
        /\ failures' = 0 /\ openFor' = 0 /\ posts' = 0 /\ refusals' = 0
        /\ UNCHANGED <<cached, trouble>>
    BY DEF StoreToken, At, SpotifyIInv
  <1>2. /\ calls[r].age \in Nat /\ old \in Tokens /\ old.given \in Nat /\ old.life \in Nat
        /\ calls[r].age <= MaxTransit /\ old.given \in Lifetimes
        /\ old.life + calls[r].age >= old.given
    BY <1>1, CallTypes DEF SpotifyIInv, TokenClock, ClockOf
  <1>3. UsableFor(old.given) \in Nat
    BY <1>2, SpotifyAssumption DEF UsableFor
  <1>4. tok \in Tokens /\ tok.left = UsableFor(old.given) /\ tok.life = old.life
    BY <1>2, <1>3 DEF Tokens
  <1>5. Moved(r, "send", tok)
    BY <1>1, <1>4, GotoWithIsMoved
  <1>6. old.life > MaxStall
    BY <1>2, SpotifyAssumption
  <1>7. ClockOf(calls'[r])
    BY <1>2, <1>4, <1>5, <1>6, SpotifyAssumption DEF Moved, ClockOf
  <1>8. token'.left > 0 => token'.life + MaxTransit >= token'.left + Margin
    BY <1>1, <1>2, <1>4, SpotifyAssumption DEF UsableFor
  <1>9. SpotifyTypeOK'
    BY <1>1, <1>4, <1>5, SpotifyAssumption DEF SpotifyTypeOK, Moved
  <1>10. TokenClock'
    BY <1>5, <1>7, <1>8 DEF SpotifyIInv, TokenClock, Moved
  <1>11. BreakerCount' /\ refusals' <= failures'
    BY <1>1 DEF BreakerCount
  <1> QED BY <1>9, <1>10, <1>11 DEF SpotifyIInv

\* The request to Spotify and what comes back.
LEMMA GetIInv ==
    ASSUME SpotifyIInv, NEW r \in Requests,
           SendGet(r) \/ GetFails(r) \/ GetSucceeds(r) \/ StoreTrack(r)
    PROVE  SpotifyIInv'
  <1>1. r \in DOMAIN calls /\ SpotifyTypeOK /\ calls[r].track \in Tracks
    BY CallTypes DEF SendGet, GetFails, GetSucceeds, StoreTrack, At, SpotifyIInv
  <1>2. CASE SendGet(r)
    <2>1. PICK a \in {"accepted", "refused"} : Goto(r, a)
      BY <1>2 DEF SendGet
    <2>2. Moved(r, a, calls[r].tok) /\ ClockOf(calls'[r])
      BY <1>1, <2>1, GotoIsMoved DEF Moved, ClockOf
    <2> QED BY <1>1, <1>2, <2>2, QuietMove DEF SendGet, SpotifyTypeOK, breaker
  <1>3. CASE GetSucceeds(r)
    <2>1. Moved(r, "found", calls[r].tok) /\ ClockOf(calls'[r])
      BY <1>1, <1>3, GotoIsMoved DEF GetSucceeds, Moved, ClockOf
    <2> QED BY <1>1, <1>3, <2>1, QuietMove DEF GetSucceeds, SpotifyTypeOK
  <1>4. CASE GetFails(r)
    BY <1>1, <1>4, LeaveIsLeft, QuietMove DEF GetFails, SpotifyTypeOK, breaker
  <1>5. CASE StoreTrack(r)
    BY <1>1, <1>5, LeaveIsLeft, QuietMove DEF StoreTrack, SpotifyTypeOK, breaker
  <1> QED BY <1>2, <1>3, <1>4, <1>5

-----------------------------------------------------------------------------
(* The steps of the environment *)

LEMMA TrackExpiresIInv ==
    ASSUME SpotifyIInv, NEW t \in Tracks, TrackExpires(t)
    PROVE  SpotifyIInv'
  BY DEF TrackExpires, breaker, SpotifyIInv, SpotifyTypeOK, BreakerCount, Checked, TokenClock

LEMMA SetTroubleIInv ==
    ASSUME SpotifyIInv, SetTrouble
    PROVE  SpotifyIInv'
  BY DEF SetTrouble, breaker, SpotifyIInv, SpotifyTypeOK, BreakerCount, Checked, TokenClock

\* Revoking a token does not shorten what is left of its life.
LEMMA RevokeIInv ==
    ASSUME SpotifyIInv, Revoke
    PROVE  SpotifyIInv'
  <1>1. SpotifyTypeOK /\ calls \in [DOMAIN calls -> Calls] /\ token \in Tokens
    BY DEF SpotifyIInv, SpotifyTypeOK
  <1>2. /\ token' = [token EXCEPT !.ok = FALSE]
        /\ UNCHANGED <<failures, openFor, posts, refusals, cached, trouble>>
    BY DEF Revoke, breaker
  <1>3. token' \in Tokens /\ token'.left = token.left /\ token'.life = token.life
    BY <1>1, <1>2 DEF Tokens
  <1>4. /\ DOMAIN calls' = DOMAIN calls
        /\ calls' = [r \in DOMAIN calls |-> [calls[r] EXCEPT !.tok.ok = FALSE]]
    BY DEF Revoke
  <1>5. ASSUME NEW r \in DOMAIN calls
        PROVE  /\ calls'[r] \in Calls /\ calls'[r].at = calls[r].at
               /\ calls'[r].age = calls[r].age
               /\ calls'[r].tok.given = calls[r].tok.given
               /\ calls'[r].tok.life = calls[r].tok.life
    BY <1>1, <1>4 DEF Calls, Tokens
  <1>6. calls' \in [DOMAIN calls' -> Calls]
    BY <1>4, <1>5
  <1>7. SpotifyTypeOK'
    BY <1>1, <1>2, <1>3, <1>4, <1>6 DEF SpotifyTypeOK
  <1>8. Checked' = Checked
    BY <1>4, <1>5 DEF Checked
  <1>9. TokenClock'
    BY <1>3, <1>4, <1>5 DEF SpotifyIInv, TokenClock, ClockOf
  <1> QED BY <1>2, <1>7, <1>8, <1>9 DEF SpotifyIInv, BreakerCount

\* One unit of time takes as much from a token's life as it adds to its age.
LEMMA TickIInv ==
    ASSUME SpotifyIInv, Tick
    PROVE  SpotifyIInv'
  <1>1. SpotifyTypeOK /\ calls \in [DOMAIN calls -> Calls] /\ token \in Tokens
    BY DEF SpotifyIInv, SpotifyTypeOK
  <1>2. ASSUME NEW tok \in Tokens
        PROVE  /\ Aged(tok) \in Tokens /\ Aged(tok).given = tok.given
               /\ Aged(tok).left = Less(tok.left) /\ Aged(tok).life = Less(tok.life)
    <2>1. Less(tok.left) \in Nat /\ Less(tok.life) \in Nat
      BY DEF Less, Tokens
    <2>2. Aged(tok) = [tok EXCEPT !.left = Less(tok.left), !.life = Less(tok.life)]
      BY DEF Aged
    <2> QED BY <2>1, <2>2 DEF Tokens
  <1>3. /\ token' = Aged(token) /\ openFor' = Less(openFor)
        /\ posts' = IF openFor <= 1 THEN 0 ELSE posts
        /\ UNCHANGED <<failures, refusals, cached, trouble>>
    BY DEF Tick
  <1>4. /\ DOMAIN calls' = DOMAIN calls
        /\ calls' = [r \in DOMAIN calls |->
               [calls[r] EXCEPT !.tok = Aged(@),
                   !.age = IF calls[r].at \in {"issued", "send"} THEN @ + 1 ELSE @]]
    BY DEF Tick
  <1>5. ASSUME NEW r \in DOMAIN calls
        PROVE  /\ calls'[r] \in Calls /\ calls'[r].at = calls[r].at
               /\ calls'[r].tok = Aged(calls[r].tok)
               /\ calls[r].at \in {"issued", "send"} => calls'[r].age = calls[r].age + 1
    <2>1. calls[r] \in Calls /\ calls[r].tok \in Tokens /\ calls[r].age \in Nat
      BY <1>1 DEF Calls
    <2> DEFINE age == IF calls[r].at \in {"issued", "send"} THEN calls[r].age + 1 ELSE calls[r].age
               tok == Aged(calls[r].tok)
    <2>2. tok \in Tokens /\ age \in Nat
      BY <1>2, <2>1
    <2>3. calls'[r] = [calls[r] EXCEPT !.tok = tok, !.age = age]
      BY <1>4
    <2>4. calls[r].at \in {"issued", "send"} => age = calls[r].age + 1
      OBVIOUS
    <2> HIDE DEF tok, age
    <2>5. calls'[r] \in Calls /\ calls'[r].at = calls[r].at /\ calls'[r].tok = tok /\ calls'[r].age = age
      BY <2>1, <2>2, <2>3 DEF Calls
    <2> QED BY <2>4, <2>5 DEF tok
  <1>6. calls' \in [DOMAIN calls' -> Calls]
    BY <1>4, <1>5
  <1>7. SpotifyTypeOK'
    <2>1. token' \in Tokens /\ DOMAIN calls' \subseteq Requests
      BY <1>1, <1>2, <1>3, <1>4 DEF SpotifyTypeOK
    <2>2. openFor' \in 0..Cooldown /\ posts' \in Nat
      <3>1. openFor \in 0..Cooldown /\ posts \in Nat /\ Cooldown \in Nat
        BY <1>1, SpotifyAssumption DEF SpotifyTypeOK
      <3>2. Less(openFor) \in 0..Cooldown
        BY <3>1 DEF Less
      <3> QED BY <1>3, <3>1, <3>2
    <2> QED BY <1>1, <1>3, <1>6, <2>1, <2>2 DEF SpotifyTypeOK
  <1>8. BreakerCount'
    <2>1. Checked' = Checked
      BY <1>4, <1>5 DEF Checked
    <2> QED BY <1>1, <1>3, <2>1, SpotifyAssumption DEF SpotifyIInv, SpotifyTypeOK, BreakerCount, Less
  <1>9. ASSUME NEW r \in DOMAIN calls
        PROVE  ClockOf(calls'[r])
    <2>1. /\ calls[r].at = "issued" => calls[r].age < MaxTransit
          /\ calls[r].at = "send" => calls[r].age < MaxStall
      BY DEF Tick
    <2>2. /\ calls[r].age \in Nat /\ calls[r].tok \in Tokens /\ calls[r].tok.given \in Nat
          /\ calls[r].tok.life \in Nat
      BY <1>1, CallTypes
    <2>3. ClockOf(calls[r])
      BY DEF SpotifyIInv, TokenClock
    <2>4. /\ calls'[r].tok.given = calls[r].tok.given
          /\ calls'[r].tok.life = Less(calls[r].tok.life)
      BY <1>2, <1>5, <2>2
    <2> QED BY <1>5, <2>1, <2>2, <2>3, <2>4, SpotifyAssumption DEF ClockOf, Less
  <1>10. token'.left > 0 => token'.life + MaxTransit >= token'.left + Margin
    <2>1. token.left \in Nat /\ token.life \in Nat
      BY <1>1 DEF Tokens
    <2>2. token.left > 0 => token.life + MaxTransit >= token.left + Margin
      BY DEF SpotifyIInv, TokenClock
    <2>3. token'.left = Less(token.left) /\ token'.life = Less(token.life)
      BY <1>1, <1>2, <1>3
    <2> QED BY <2>1, <2>2, <2>3, SpotifyAssumption DEF Less
  <1> QED BY <1>3, <1>4, <1>7, <1>8, <1>9, <1>10 DEF SpotifyIInv, TokenClock

LEMMA SpotifyNextIInv == SpotifyIInv /\ [SpotifyNext]_spotifyVars => SpotifyIInv'
  <1> SUFFICES ASSUME SpotifyIInv, [SpotifyNext]_spotifyVars PROVE SpotifyIInv'
    OBVIOUS
  <1>1. ASSUME NEW r \in Requests, RequestStep(r) PROVE SpotifyIInv'
    BY <1>1, LookupCacheIInv, CheckTokenIInv, StartPostIInv, IssueIInv, FailureIInv,
       StoreTokenIInv, GetIInv DEF RequestStep
  <1>2. CASE UNCHANGED spotifyVars
    BY <1>2 DEF spotifyVars, SpotifyIInv, SpotifyTypeOK, BreakerCount, Checked, TokenClock
  <1> QED
    BY <1>1, <1>2, CallIInv, TrackExpiresIInv, RevokeIInv, SetTroubleIInv, TickIInv
    DEF SpotifyNext

LEMMA InvariantSpotifyIInv == SpotifySpec => []SpotifyIInv
  BY InitSpotifyIInv, SpotifyNextIInv, PTL DEF SpotifySpec

\* The client's state has its type: consecutiveFailures never counts beyond its
\* maximum and a call's token is one Spotify issued or none.
THEOREM SpotifyTypeCorrect == SpotifySpec => []SpotifyTypeOK
  <1>1. SpotifyIInv => SpotifyTypeOK
    BY DEF SpotifyIInv
  <1> QED BY <1>1, InvariantSpotifyIInv, PTL

\* While the breaker is open the token endpoint is asked fewer times than there
\* are requests, for any number of them and any cooldown.
THEOREM BreakerStops == SpotifySpec => []BreakerStopsPosts
  <1>1. SpotifyIInv => BreakerStopsPosts
    BY CheckedFinite DEF SpotifyIInv, SpotifyTypeOK, BreakerCount, BreakerStopsPosts
  <1> QED BY <1>1, InvariantSpotifyIInv, PTL

\* A token is alive when Spotify sees it, as long as the margin covers the
\* response's way and the request's.
THEOREM TokenAlive == SpotifySpec => []TokenAliveAtUse
  <1>1. ASSUME SpotifyIInv, NEW r \in Requests, At(r, "send")
        PROVE  calls[r].tok.life > 0
    <2>1. r \in DOMAIN calls /\ ClockOf(calls[r]) /\ calls[r].at = "send" /\ SpotifyTypeOK
      BY <1>1 DEF At, SpotifyIInv, TokenClock
    <2> QED BY <2>1, CallTypes, SpotifyAssumption DEF ClockOf
  <1>2. SpotifyIInv => TokenAliveAtUse
    BY <1>1 DEF TokenAliveAtUse
  <1> QED BY <1>2, InvariantSpotifyIInv, PTL

\* The step that completes MaxFailures refusals in a row opens the breaker: what
\* is counted is never fewer than they are, and a refusal is always counted.
THEOREM RefusalsOpen == SpotifySpec => OpensAfterRefusals
  <1>1. ASSUME SpotifyIInv, [SpotifyNext]_spotifyVars,
               refusals < MaxFailures, refusals' = MaxFailures
        PROVE  openFor' > 0
    <2>1. refusals' # refusals /\ refusals' # 0
      BY <1>1, SpotifyAssumption DEF SpotifyIInv, SpotifyTypeOK
    <2>2. RecordFailure
      BY <1>1, <2>1 DEF SpotifyNext, spotifyVars, RequestStep, Call, LookupCache, CheckToken,
         StartPost, Issue, PostRefused, PostLost, StoreToken, SendGet, GetUnauthorized,
         GetFails, GetSucceeds, StoreTrack, TrackExpires, Revoke, SetTrouble, Tick, breaker
    <2>3. refusals' <= failures'
      BY <1>1, SpotifyNextIInv DEF SpotifyIInv
    <2>4. failures' >= MaxFailures
      BY <1>1, <2>3
    <2> QED BY <2>2, <2>4, SpotifyAssumption DEF RecordFailure
  <1>2. SpotifyIInv /\ [SpotifyNext]_spotifyVars
            => [refusals < MaxFailures /\ refusals' = MaxFailures => openFor' > 0]_spotifyVars
    BY <1>1
  <1> QED BY <1>2, InvariantSpotifyIInv, PTL DEF SpotifySpec, OpensAfterRefusals
=============================================================================
