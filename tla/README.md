# MusicGuessr backend: formal model

TLA+ modules for the Go backend of MusicGuessr (`src/`), TLC configurations that model-check
them, and TLAPS proofs of the safety properties that matter most. Every definition is
translated from the source; `PROJECT.json` maps it to the lines it stands for. Line numbers
below refer to files under `src/internal/` unless a path says otherwise.

## 1. The system

One process. `cmd/server/main.go` builds everything, registers the handlers, starts the
background goroutines and, on SIGINT or SIGTERM, stops them. Requests run in goroutines of
their own and meet in the shared state below.

| component | state it keeps | operations | who calls it |
|---|---|---|---|
| rate limiter (`ratelimit`) | map key -> (tokens, lastSeen) under a mutex; four instances | `Allow`, `Cleanup` | every `/api` handler; a ticker goroutine |
| deck API (`deck/handler.go`) | none of its own | `CreateDeck`, `GetDeck` | HTTP |
| expiry sweep (`deck/cleanup.go`) | a clock reading, the list being worked on, up to a fixed number of workers | `CleanupExpired` | a ticker goroutine, hourly |
| deck store (`deckstore`) | files in a directory, or objects in an S3 bucket, or a map | `Put`, `Get`, `Delete`, `List` | deck API, sweep, resolve cache |
| cache warmer (`cachewarm`) | queue of 2000 cards, deck -> next time it may be triggered | `ShouldWarm`, `TriggerDeck`, `Stop`, one worker | `/api/resolve`; its goroutine |
| metadata (`metadata`, `itunes`) | a cache, in process or the resolve cache | `Resolve`: five providers in parallel, quorum, vote | `/api/resolve`, warmer, deck enrichment, playlist import |
| Spotify client (`spotifyapi`) | app token, circuit breaker, a cache | `GetTrack` | `/api/resolve`, warmer |
| resolve cache (`rcache`) | Valkey (hot, with a time to live), S3 (permanent), a pool of connections | `GetJSON`, `SetJSON` | metadata, YouTube and Spotify clients through adapters |
| log shipping (`axiomlog`) | a buffer, a kick channel, a flush goroutine | `Write`, `Close` | slog, `main` |
| YouTube search (`youtube`) | a cache, three process slots for yt-dlp | `SearchVideoID`, `FetchVideoMeta`, `FetchPlaylist` | `/api/resolve`, warmer, deck handlers |
| game set resolver (`resolver`) | the card database and its timestamp | `Resolve`, `CardsInDeck`, hourly `load` | `/api/resolve` |
| Spotify page lookup (`main.go`) | a map with expiries | `fetchSpotifyMeta`, a clean-up goroutine | `/api/resolve`, warmer |
| middleware (`main.go`, `requestid`) | none | CORS, gzip, request ids, client IP | HTTP |

What interacts: the deck store is shared by requests, the sweep and the resolve cache, whose
objects can lie in the same bucket; the resolve cache is shared by all requests and the
warmer; the token and the breaker are shared by all requests; shutdown touches everything.

**What is hard.** Decisions taken on values that are read under a lock, or before one, and
used after it (limiter clock, Spotify token and breaker, `ShouldWarm`, the bare-title check,
the sweep's clock and list). Replies that come late (a provider after the quorum, a Valkey
reply after the timeout, a PUT whose answer was lost). Crashes between two file operations.
A ticker that buffers a tick. A queue, pool or buffer at its limit. Two background loops
that load the same database and know nothing of each other. Goroutines that write to cards
which the handler is about to encode. Shutdown while requests or log lines are on the wire.
`PROJECT.json` lists each of these hazards at its line, with the properties that would catch it
going wrong, or the reason why none does.

**What makes each component correct.** Limiter: no client gets more than burst plus rate in
any window, and nobody who keeps to it is refused. Decks: a link that was handed out works
until its expiry, nothing half written is ever read, other objects are left alone, storage
does not grow for ever. Warmer: one enqueuer per deck and cooldown, bounded pacing, never in
the way of a request. Metadata: only majorities are cached, the vote does not depend on map
order, a dead provider holds nobody up. Spotify: the breaker stops the calls and recovers, no
dead token is used. Resolve cache: an answer belongs to its key, however connections are
reused. Log shipping: every line once, bounded memory, a full batch leaves at once. Resolve
pipeline: no yt-dlp slot is leaked, no variant reaches a request that wants the original,
nothing outlives the answer, and there is an answer. Game set resolver: a database that was
replaced never comes back, the retries outlast a failure no longer than they must, and a
healthy upstream is caught up with. Enrichment: the answer is what every goroutine left, in
bounded time, whatever fails or panics. Shutdown: nobody is cut short while there is time,
and the process does end.

## 2. The modules

| module | models | as |
|---|---|---|
| `RateLimiter` | `ratelimit.go`, `rateLimited` in `main.go` | `ReadClock` (line 43, outside the mutex), `Admit`/`Deny` (the locked section), `BeginCleanup` (the cutoff, outside the mutex), `Cleanup`, `StopCleanup`. One tick is the refill time of one unit, a token is `Cost` units, so there is no rounding. `spent` and `wStart` are history. |
| `Decks` | `deck/handler.go`, `deck/cleanup.go`, `deckstore/local.go`, `deckstore/s3.go` | CreateDeck is `BuildDeck`, then for files `WriteTemp`, `RenameTemp` or `PutFails`, for S3 `ApplyPut` or `PutErrs` in either order with the handler's fate, then `Acknowledge`. GetDeck is `GetFetch`, where the store gives the object, says that there is none, or fails, and, later, `GetAnswer`. The sweep is `SweepList`, `SweepClock`, `SweepSpawn`, and per worker `SweepFetch`, `SweepDelete` or `SweepError`. `Restart` kills every goroutine and keeps the store. What else lies in the store (`ForeignObjects`) is a cache entry, something that does not parse, or a deck's own JSON under another key. |
| `CacheWarm` | `cachewarm.go` | Requests: `ShouldWarm`, `Claim`, `Enqueue` (map order), `Drop`, `Return`. Worker: `StartJob`, `IdleTick`, `EndJob`, `StopBranch`. Times are countdowns, which keeps the state space finite without a bound on the clock. The ticker's one-slot channel is `tickBuf`. Every card has an id; the empty ones the code skips are left out. |
| `Metadata` | `Resolve` and `resolve` in `metadata.go` | Two titles of one track, raw and bare. A round is `Lookup`, `ProviderAnswers`/`ProviderQuits`, `Collect`, `CollectClosed` or `CollectExpired`, `Vote`; then `AfterRound`, `BareFailed`, `CheckBareKey`, `CopyToRawKey`. A track is its year and how many providers it rests on. |
| `VoteRules`, `Votes` | `chooseMostCommon`, `chooseMostCommonInt` | `VoteRules` is the reference definition of the winner, `Votes` the scan of the map, one key per step in any order. |
| `SpotifyClient` | `spotifyapi.go` | One action per section under the mutex and per event on the wire: `LookupCache`, `CheckToken`, `StartPost`, `Issue`, `PostRefused`, `PostLost`, `StoreToken`, `SendGet`, `GetUnauthorized`, `GetFails`, `GetSucceeds`, `StoreTrack`. `Revoke` is a rotated secret, `trouble` says whether the environment may misbehave. |
| `ResolveCache` | `rcache.go`, `valkey.go` | `GetJSON`, `SetJSON`, `S3Get`, `S3Put`, `GetConn`, `Dial`, `WriteCommand`, `ReadHello`, `ReadReply`, `Fail`. Valkey is a server that answers each connection in order (`Serve`), may carry out a SET after its connection was closed (`ServeStray`) and forgets keys (`HotExpires`). |
| `CacheContract` | what `ResolveCache` promises its callers | A lookup misses or returns something that was stored for its key. `ResolveCache` is shown to implement it (`AnswersItsKey` is `Contract!Spec`). |
| `AxiomLog` | `axiomlog.go`, the end of `main` | `Write` and `Kick`, the loop (`LoopSelect`, `LoopTake`, `LoopPosted`), `Close`, `CloseTake`, `ClosePosted`, `Exit`. A line is a number, a buffer a set of lines. |
| `ResolveApi` | the `/api/resolve` handler, the warmer's resolve and `fetchSpotifyMeta` in `main.go`, `SearchVideoID`, `ytdlp.go` | Per caller three goroutines: `call` (`Call`, `PageLookup`, `PageFetched`, `MetadataDone`, then the join, `AskSpotify` for the warmer, `Answer`), `yt` (`YtCacheLookup`, `TakeSlot` or `NoSlot`, `ProcessExits` or `Kill` and then `PipesClosed` or `WaitDelayOver`, `YtStore`) and `sp` (`SpotifyDone`). `DeckLookup` is a deck handler's way to the same slots. `Begin` is what follows the page. |
| `Resolver` | `resolver.go` | Three loaders, `New` itself (boot), `retryInitialLoad` and `refreshLoop`, run `load`: `Fetched` or `LoadFails`, `Compare` (the timestamp under the read lock), `Apply` (both under the write lock). `RetryWakes`, `RefreshWakes` and `TickerFires` are the loops, `Publish` and `ChangeHealth` are upstream. `offers` collects what upstream could answer a request with while it is under way (`OffersFollow`), so one that met an outage may still fail after its end. A database is its `updated_on`; 0 is one that parses and holds nothing. `newest` and `healthy` are history. |
| `Server` | the enrichment loops of `deck/handler.go` and `deck/playlist.go`, the end of `main` in `main.go` | A request is `Accept`, for an import `FetchReturns`, then `Spawn` per card (semaphore, WaitGroup, goroutine), `SpawnedAll`, `Joined`, `Encode`, `Reply`; a card's goroutine is `LookupEnds` (also by a panic), `Release`, `Done`. `LookupTime` is the timeout of the lookup's context and, on top, the time the cache can take, since its adapter (`cmd/server/main.go:53-65`) hands it a context of its own. `main` is `Signal`, `Drained`, `Exit` or `ListenFails`. Code between two waits takes no time (`Busy` holds `Elapse` back). `elapsed` and `since` are history. |
| `EarliestMatch` | `pickEarliestMatch` in `itunes.go` | The scan of iTunes's results, one per `Consider`. A result is whether its artist matches and its year, 0 for none. |

`MC*` modules instantiate these for TLC. `*Proofs` modules hold the theorems, one module per
component or per group of them that belongs together: `MetadataProofs` is everything between the
providers' answers and a card's year (`Metadata`, `Votes`, `EarliestMatch`), `UpstreamProofs` the
two components that depend on a remote service and remember how it behaved (`Resolver`,
`SpotifyClient`), `WireProofs` the two that cannot know whether what they sent arrived
(`AxiomLog`, `ResolveCache`). Components that are proved about together have names of their own
(`SpotifySpec`, `CacheSpec`, `VotesSpec`), as one module extends them all. A definition
whose name has a suffix after an underscore (`Idle_After`) is a plausible mistake in the
definition that follows it: substituted for the original it makes one property fail, which
shows that the property can.

## 3. The runs

All but `MetadataRace`, which ends in a violation, pass.

| run | instance | shows |
|---|---|---|
| `RateLimiter` | one key, three requests, burst 4, cost 2, stall 1, clock to 11 (past the idle time of 6, so that a bucket is used, evicted and used again) | `RateGuarantee`: the spending of every window. `EvictionIsInvisible`: Cleanup never takes a bucket that a request in flight would not find full. `PoliteClientAdmitted`: the debt a late reading leaves is never paid by a client that waits. |
| `Decks` | one deck, one foreign object of each kind, one reader, one sweep worker, both stores, clock to 4, one restart | `AckedUntilExpiry`, `NoTornDeck`, `NotRefusedEarly`, `ForeignUntouched`; `ExpiredEventuallyDeleted` under fairness. Lifetimes 1 and 2 let a deck expire between any two steps of a reader and of the sweep. Every `Get` may fail, and the foreign objects may be copies of the deck that have expired. |
| `CacheWarm` | two requests, two decks that share a card, queue of 2, pacing 2, jobs of up to 3 | `OneEnqueuer`, `AtMostTwoPerPeriod`, `ClaimsSpaced`; `QueuedIsResolved`, `TriggerReturns`, `StopEndsWorker` under fairness. Jobs are longer than the period and the queue smaller than what two decks need. |
| `Metadata` | two requests, two providers | `RoundKeyIsMajority`; `RequestReturns` with providers that may never answer. |
| `MetadataRace` | two requests, three providers | **violated**: `CachedIsMajority`, the comment at `metadata.go:290`, for the copy made at line 99. |
| `Selection` | all counts up to 3 of four values, both tie rules; all lists of up to five results with three years, one of them missing | `OrderIndependent`: after every prefix of every order the candidate is the winner of what was seen. `EarliestDated`: after every prefix of the list the pick is the earliest dated result of the artist. The two scans share nothing, so one at a time has something to choose from. |
| `Spotify` | two requests, breaker after 2 failures, cooldown 2, lifetimes below and above the margin | `BreakerStopsPosts`, `TokenAliveAtUse`, `OpensAfterRefusals`; `BreakerCloses` under fairness, also with a revoked token still cached. |
| `AxiomLog` | batch of 2, buffer of 3, four lines | `EveryLineOnce`, `CloseLeavesOnlyTheWire`; `FullBatchGoes` and `LinesLeave` with a loop that runs. |
| `ResolveCache` | two requests, two keys (one never stored), two connections, a pool of one; both tiers, Valkey alone, S3 alone | `PoolDiscipline`; `AnswersItsKey`, the refinement of `CacheContract`; `CallReturns`. |
| `ResolveApi` | two callers over one track and one slot: a request of either mode or a deck handler, and a strict request or the warmer | `SlotsHeld`, `StrictNeverVariant` through the shared cache, `NoOrphans`; `Answered` with processes that never end and pipes that are never closed. |
| `Resolver` | two databases, three retries with pauses 1, 2 and 3, loads of up to 1, a refresh every 10 (the retries take 9 at most) | `NeverOlder`, `RetryHelps`; `Fresh` under fairness, also when every retry is used up or a load brings a blank database. `RetryHelps` allows one pause and two loads; with one load less it is violated, by a request that was under way when upstream recovered and fails after that. |
| `Server` | a deck of 3 cards with 2 slots; an import of 2 cards with 1 slot; lookups of up to 2, a context of 1 and a cache that adds up to 1; a drain of 2, a last POST of 1 | `AnswerIsFinal`, `InTime`, `NoneCutShort`, `ExitsInTime`, with lookups that fail or panic at any point. The deck takes up to 4, the drain 2, so a request both makes it and does not. |

**Why the bounds are enough.** Two requests suffice for every race in this code, because
all of them are between one step of one request and one of another (three are used where a
late reading can be overtaken twice). Counters compared with a limit are explored on both
sides of it. Where the code compares times, the model counts down to the comparison, or runs
the clock past every one. Numbers that only scale (300 cards, 2000 queue slots, 600 seconds)
are small; their relations are kept, as named assumptions (`IdleOutlivesRefill`,
`MaxStall < DropRetryAfter`, `MaxTransit + MaxStall <= Margin`). The proofs of section 4 do
without bounds.

**Stall bounds.** Three properties are about a clock reading or a token that is used late,
and hold only if it is not used arbitrarily late. `MaxStall` names that bound and the
properties contain it (`RateGuarantee` is off by exactly `MaxStall`).

**Deadlock** is checked except in `Selection`, `AxiomLog` and `Server`, which end.

**Type invariants** are not checked by runs because they are proved: `TypeOK`, `SpotifyTypeOK`
and `CacheTypeOK` by theorems of their own, for all constants; `VotesTypeOK` and `MatchTypeOK`
as parts of the inductive invariants of the two scans.

**Fairness.** Goroutines that can run do (weak fairness of a request's or worker's next
step). Time passes (`Tick`), and every call to the outside has a timeout, which is what makes
`RoundExpires`, `Fail`, `EndJob`, `NoSlot` and `Kill` fair; nothing is asked of providers, Valkey, Spotify
or yt-dlp (`ProcessExits` and `PipesClosed` may never happen).
Go's `select` chooses at random among ready branches, so a branch that is ready again and
again is taken (strong fairness of `StopBranch`). The sweep assumes that a store that is asked
infinitely often does not fail every time (strong fairness of `SweepFetch` and
`SweepDelete` for a deck). That assumes away a store so large that the sweep's five minutes always cut
off the same decks. `AxiomLog` states the fairness of loop and ticker as
premises of the two properties that need it. In `Resolver` loads end by their
deadline and timers fire; upstream owes nothing, and `Fresh` says so by its premise that
upstream stays well in the end. `NeverOlder` assumes one thing of upstream without which it fails: that no
request is answered with a database that had been replaced before the request was sent (`Current`),
as a stale cache in front of it could. `load` would accept such an answer.
Each of these specifications conjoins only fairness of actions of its own `Next`.

## 4. The proofs

`tlapm` proves, for every value of the constants that satisfies the named assumptions:

| theorem | says |
|---|---|
| `RateLimiterProofs!RateIsBounded`, `EvictionNeverObserved`, `PoliteClientNeverRefused`, `TypeCorrect` | `RateGuarantee`, `EvictionIsInvisible`, `PoliteClientAdmitted`, `TypeOK` |
| `DecksProofs!AckedDeckIsKept`, `DecksAreWhole`, `ShareLinkHonoured`, `ForeignObjectsKept`, `TypeCorrect` | `AckedUntilExpiry`, `NoTornDeck`, `NotRefusedEarly`, `ForeignUntouched`, `TypeOK` |
| `CacheWarmProofs!EnqueueIsExclusive`, `PacingBound`, `ClaimsAreSpaced`, `TypeCorrect` | `OneEnqueuer`, `AtMostTwoPerPeriod`, `ClaimsSpaced`, `TypeOK` |
| `ResolveApiProofs!SlotsAccounted`, `StrictGetsOriginal`, `AnswerIsLast`, `TypeCorrect` | `SlotsHeld`, `StrictNeverVariant`, `NoOrphans`, `TypeOK` |
| `MetadataProofs!RoundKeyMajority`, `MetadataTypeCorrect` | `RoundKeyIsMajority`, `TypeOK` of `Metadata` |
| `MetadataProofs!VoteIsOrderIndependent`, `ScanElectsReference`, `PickIsEarliest` | `OrderIndependent`, that the scan ends with `MostCommonYear`, `EarliestDated` |
| `UpstreamProofs!NeverGoesBack`, `RetriesFollowRecovery`, `OneLoadAtATime`, `TypeCorrect` | `NeverOlder`, `RetryHelps`, `LoadsNeverOverlap`, `TypeOK` of `Resolver` |
| `UpstreamProofs!BreakerStops`, `TokenAlive`, `RefusalsOpen`, `SpotifyTypeCorrect` | `BreakerStopsPosts`, `TokenAliveAtUse`, `OpensAfterRefusals`, `SpotifyTypeOK` |
| `ServerProofs!AnswersAreFinal`, `EnrichmentIsBounded`, `NoRequestCutShort`, `ExitIsTimely`, `TypeCorrect` | `AnswerIsFinal`, `InTime`, `NoneCutShort`, `ExitsInTime`, `TypeOK` |
| `WireProofs!NoLineTwice`, `CloseFlushes`, `TypeCorrect` | `EveryLineOnce`, `CloseLeavesOnlyTheWire`, `TypeOK` of `AxiomLog` |
| `WireProofs!PoolDisciplined`, `CacheAnswersItsKey`, `CacheTypeCorrect` | `PoolDiscipline`, `AnswersItsKey` (the refinement of `CacheContract`), `CacheTypeOK` |

For each component an inductive invariant (`IInv`, or `SpotifyIInv` and the like) is defined and
shown to hold initially and to be kept by each action, and the theorems follow from it. TLC
checked each of them on the instance of section 3 before it was proved.

* `RateLimiter`. `RateGuarantee` alone says nothing of the bucket that will pay for the next
  request. `Account` adds it: while the window has spent something, `spent + tokens - lastSeen`
  is bounded, because a refill adds to `tokens` what it adds to `lastSeen`. `Readings` bounds how
  old a clock value still in use can be; `Debt` says a bucket's debt is never deeper than its
  readings lag. An evicted bucket restarts full, which the elapsed `IdleTTL` has paid for: here
  `IdleOutlivesRefill` is used.
* `Decks`. `Verdicts` carries the sweep's decision over the time between its steps: a worker
  about to delete holds an expired deck, since expiries never change and clocks do not run
  back. `ReadsOK` does the same for a reader. `ForeignKept` says that foreign
  keys keep their objects. By the types an object carries a deck's id or none, never a foreign key, so
  the comparison at `cleanup.go:76` fails under one even for an expired deck's own JSON.
* `CacheWarm`. `Paced` relates the two last starts to the ticker: a waiting tick is younger
  than the last start. `Claimed` says that the cooldown outlasts the enqueue loop, from
  `MaxStall < DropRetryAfter`, hence one enqueuer. `Spaced` adds cooldown and age.
* `ResolveApi`. `Quiet` says that a caller has no search before its page is known and after its
  join, so a new search never overwrites a running one (which would leak its slot).
  `StrictCache` says that no variant lies under a strict key; with the type of keys this carries
  `StrictNeverVariant` over lookups and stores of other callers.
* `Resolver`. `Stages` carries the schedule: while the retries are active the next tick is
  further away than the longest they can still take (`Due`), which `ResolverAssumption` states
  for the code's numbers. So no two loads overlap, and only therefore is the unlocked
  comparison of line 234 safe: `Versions` says that what a loader holds is blank or at least as
  new as anything ever in use, and that whatever a request in flight may be answered with is so too.
  `Healthy` weighs upstream's healthy time against the current pause, a load that may be doomed since
  before the recovery, and the one after it, which cannot fail.
* `Server`. `PoolOK` says that the WaitGroup counts the goroutines that are alive and that none
  runs ahead of the loop; `MainOK` does the accounts of the drain's time. `InTime` needs more:
  cards go out in batches of `Limit`, and `TimeOK` says that every lookup ends with its batch and
  that the loop has waited for no more than the batches before its card. While the pool is
  full, one of the lookups is for a card at least `Limit` before the next one (a pigeonhole over
  the slots), so it is due before the loop would be late. The argument asks nothing of `LookupTime` but
  that it bounds a lookup, so it holds for a cache of any slowness.
* `AxiomLog`. `Partition` says that every line is in exactly one of six places, `Flushing` that a
  flush holds lines only while it posts and that Close's leaves none behind in the buffer.
* `Votes`, `EarliestMatch`. The first is inductive as it stands, with the types. The second needs
  `PickKnown`, which says that the two flags carried by the scan describe its pick.
* `VoteRules`. `MostCommonYear` is a `CHOOSE`, which means something only if there is a winner and
  no two. `WinnerExists` finds the candidate beaten by the fewest, by the well-foundedness of
  strict inclusion on finite sets (whoever beat it would be beaten by fewer still);
  `WinnerUnique` follows from `Beats` being a strict total order. So the fan-out's vote has a type, and
  `ScanElectsReference` ties it to the loop of the code.
* `Metadata`. `RoundKeyIsMajority` needs beside the types only `FoundIsSome`: `CopyToRawKey`, the
  one write that asks for no quorum, writes the raw key alone, and what it copies is a track.
  The same invariant with `CachedIsMajority` in its place is what `MetadataRace` refutes.
* `SpotifyClient`. `BreakerCount` adds the requests that have been let through and have not posted
  yet to those that have: together fewer than all requests, because the one whose failure opened
  the breaker is not among them, and only a closed breaker lets another one through. `TokenClock`
  relates a token's remaining life to the time since it was issued or chosen: a response in transit
  has aged by `MaxTransit` at most, hence a stored token outlives what the client believes by
  `Margin - MaxTransit`, which covers `MaxStall`. `OpensAfterRefusals` needs
  `refusals <= failures`: every refusal is counted, and only an accepted request resets refusals
  alone.
* `ResolveCache`. `OneOwner` says that pool and calls share out the open connections. `InSync` says
  what is outstanding on a call's connection: nothing before it writes, then its own command or
  the one reply to it. A call that fails discards its connection, one that has read its reply leaves
  it idle, so what enters the pool owes nothing. `Provenance` says that whatever a tier holds, a late
  SET carries or a backfill copies was stored for its key. Together they make each answer one
  that `CacheContract` allows (`CacheStepIsContract`), which is the step of the refinement.

Only model-checked, because TLAPS has no `ENABLED` and proves no liveness under fairness:
`ExpiredEventuallyDeleted`, `QueuedIsResolved`, `TriggerReturns`, `StopEndsWorker`,
`RequestReturns`, `BreakerCloses`, `FullBatchGoes`, `LinesLeave`, `CallReturns`, `Answered` and
`Fresh`. Every safety property that a passing run checks is proved. What a recursive
definition computes for all inputs cannot be proved with the installed provers, so no module
uses recursion.

## 5. What the model showed

One statement of a comment has a run of its own that refutes it (`MetadataRace`;
`PROJECT.json` has it as a finding). Further observations, without a run:

* `spotifyapi.go:96-97` says the breaker opens on auth failures; `fail` (line 244) also counts
  timeouts and lost connections, and only a new token resets the count, so failures spread over
  days add up. `BreakerCloses` shows that it recovers once they stop.
* `axiomlog.go:92-96`: Close does not wait for what the loop has on the wire, so the last
  lines may not arrive although its comment says they are shipped. What holds, and is
  proved, is `CloseLeavesOnlyTheWire`.
* `cmd/server/main.go:823`: when ListenAndServe fails the process exits without
  `axiomWriter.Close`, so the line that says why stays in the buffer.
* `resolver.go:149` allows for the refresh loop winning a race against the retries. It cannot:
  530 seconds of pauses and six loads of 15 are over before the first hourly tick
  (`OneLoadAtATime`). The unlocked comparison at line 234 depends on that. With a shorter
  `refreshEvery` an old database could replace a new one.
* A database that parses but has no game sets counts as loaded: it ends the retries with an
  empty map, or replaces a full one until the next refresh (`resolver.go:153`). `Fresh` covers
  the recovery, nothing the hour in between.
* If the cache answers at once, the bound that `InTime` gives for 300 cards is 90 seconds for a deck
  and 80 for an import: more than the server's WriteTimeout of 60 (`cmd/server/main.go:811`), and
  far more than the drain of 10. Slow enough lookups thus lose the answer of a deck that is stored.
  The 3 and 4 seconds of a lookup's context do not reach the cache, whose adapter asks it under
  `context.Background()` (`cmd/server/main.go:53-65`). If both tiers accept connections and then
  hang, a Valkey command takes up to 7 seconds (dial 3, handshake 2, command 2) and an S3 request 15,
  so a `Set` takes 22 and a `Get` up to 29 with its backfill. After its context a lookup can still
  run a `Get` of the bare title that hits, the `Get` of `metadata.go:98` and the `Set` of line 99:
  about 80 seconds more (`CacheTime`), for each of 30 or 20 batches. A cache in local files has no
  timeouts at all, and `InTime` says nothing of it.
* The "complete card" that `deck/handler.go:95-97` skips does not occur, because nothing in the
  request sets Artwork.
* `deck/handler.go:88-90` says that at most `enrichConcurrency` goroutines exist at a time. Between
  the deferred receive and the end of the goroutine it no longer holds its slot, so there can be
  more for a moment; there are never more lookups.
* `itunes.go:89-91` says the first result is the fallback only if no result's artist matches;
  matches without a date are passed over too.
* `cachewarm.go:59` calls pacing "the minimum gap between two resolve calls". The ticker's
  channel holds a tick that fires during a slow resolve, so the next one starts at once; what
  holds, and is proved, is that three starts never fall into one period (`AtMostTwoPerPeriod`).
* `cmd/server/main.go:875` ignores the error of reading Spotify's page. A page cut short can
  give a title without an artist, which is cached for seven days, over a better entry too;
  until then no request for the track looks for a year or a video.
* The warmer searches with variants allowed (`cmd/server/main.go:555`), so what it finds helps
  no request without `yt_variants=1`: the keys differ, which is what keeps
  `StrictNeverVariant`.
* `metadata.go:294` counts answers, not answers that agree: five providers that name three
  different years pass for the "real majority vote" of line 290.
* `metadata.go:99-102` stores the very pointer it then returns when `MemoryCache` is in use; the
  comment at 298-300 excludes that for the other path.
* At the instant of expiry GetDeck still serves a deck (`handler.go:183`, After) that the
  sweep may already delete (`cleanup.go:81`, not Before).
* `cmd/server/main.go:655-659` says the twenty seconds cap the request "regardless"; the
  `WaitDelay` at `ytdlp.go:96` adds up to five, and the cache adapters (`main.go:57-97`) use a
  context of their own.
* Two concurrent `SetJSON` of one key can leave the tiers with different values until the hot
  one expires (`rcache.go:163-171`).

## 6. What is not modelled

Pure text and byte work: URL parsing, HTML scanning, title normalisation and match scoring,
SigV4, RESP encoding. The middleware, which shares no state between requests. The
in-memory deck store, whose operations are atomic. `MemoryCache`'s delete race, which costs one
lookup. Which fields of an answer are Spotify's and which the vote's. Reads of the resolver's
map, which are one look under the lock each; a request that reads twice may see two databases.

## 7. Plan

Done: 1 `RateLimiter`, 2 `Decks`, 3 `CacheWarm`, 4 `Metadata` and `Votes`, 5 `SpotifyClient`,
6 `AxiomLog`, 7 `ResolveCache` over `CacheContract`, 8 `ResolveApi`, 9 `Resolver`, 10 `Server`
(the enrichment pool and main's shutdown), 11 `EarliestMatch`; proofs of the safety properties of
all of them.

Next, in this order:

1. `MemoryCache`: Get's delete against a Set in between.
2. The Mix and playlist id rules of `deck/playlist.go` and `youtube`, as operators against
   reference definitions.
