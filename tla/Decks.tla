------------------------------- MODULE Decks -------------------------------
(***************************************************************************)
(* internal/deck and internal/deckstore: the life of a shared deck.        *)
(*                                                                         *)
(* CreateDeck draws an id and an expiry, hands the JSON to the store and   *)
(* answers with the share link; GetDeck reads it back until it expires; an *)
(* hourly sweep lists the store, fetches every deck and deletes the        *)
(* expired ones, concurrently with both.  The store survives the process,  *)
(* which may die between any two steps, and it is shared with the resolve  *)
(* cache (internal/rcache), whose objects the sweep must leave alone.      *)
(*                                                                         *)
(* Decks are told apart by their id alone: the cards, their validation and *)
(* their best-effort enrichment change nothing here.                       *)
(***************************************************************************)
EXTENDS Integers, FiniteSets

CONSTANTS
    Ids,        \* what newID can draw; every one matches deckIDRe
    Legacy,     \* flat cache keys "<namespace>-<hash>": listed, not matching deckIDRe
    Nested,     \* cache keys "<namespace>/<hash>": not listed at all
    Alien,      \* other objects whose key happens to match deckIDRe
    TTLs,       \* the lifetimes of ttlMap
    Getters,    \* GetDeck requests in progress at one time
    Backends,   \* which stores: TRUE is localStore, FALSE s3Store
    CleanupConcurrency,
    MaxTime,    \* bound on the clock
    MaxRestarts \* bound on how often the process dies

\* The id of an object that carries none.
NoId == "no id"

Foreign == Legacy \cup Nested \cup Alien
Keys == Ids \cup Foreign

ASSUME DecksAssumption ==
    /\ NoId \notin Keys
    /\ Ids \cap Foreign = {}
    /\ Alien \cap (Legacy \cup Nested) = {}
    /\ Legacy \cap Nested = {}
    /\ TTLs \subseteq Nat \ {0}
    /\ Backends \subseteq BOOLEAN
    /\ CleanupConcurrency \in Nat \ {0}
    /\ MaxTime \in Nat
    /\ MaxRestarts \in Nat

VARIABLES
    now,        \* the clock; time 0 is Go's zero time, the clock starts at 1
    store,      \* key -> object, what Get returns
    temps,      \* ids whose temp file lies in the store's directory
    phase,      \* id -> how far the CreateDeck that drew it has come
    expiry,     \* id -> ExpiresAt, 0 until the id is drawn
    reads,      \* getter -> the object (or its absence) it has fetched
    answers,    \* history: getter -> its last answer, with id and time
    sweep,      \* "waiting" | "listed" | "running"
    sweepNow,   \* the time the running sweep compares with
    todo,       \* ids listed and not yet given to a worker
    workers,    \* id -> "fetching" | "deleting" for the running workers
    restarts,
    local       \* which store this server was started with; never changes

vars == <<now, store, temps, phase, expiry, reads, answers, sweep, sweepNow,
          todo, workers, restarts, local>>
createVars == <<temps, phase, expiry>>
getVars == <<reads, answers>>
sweepVars == <<sweep, sweepNow, todo, workers>>

-----------------------------------------------------------------------------
(* Stored objects *)

\* An object as json.Unmarshal into a Deck sees it: whether it parses, and the
\* id and the expiry it then carries.
Object == [parses : BOOLEAN, id : Ids \cup {NoId}, expires : Nat]
DeckObject(i) == [parses |-> TRUE, id |-> i, expires |-> expiry[i]]
Garbled == [parses |-> FALSE, id |-> NoId, expires |-> 0]
CacheObject == [parses |-> TRUE, id |-> NoId, expires |-> 0]

\* What else lies in the store when the process starts: entries of the resolve
\* cache, anything that is no JSON, and copies of decks kept under other names.
ForeignObjects == {CacheObject, Garbled} \cup {[parses |-> TRUE, id |-> i, expires |-> 1] : i \in Ids}

Without(f, k) == [j \in DOMAIN f \ {k} |-> f[j]]
With(f, k, v) == [j \in DOMAIN f \cup {k} |-> IF j = k THEN v ELSE f[j]]

\* deckIDRe.MatchString (handler.go:20).
MatchesDeckID(k) == k \in Ids \cup Alien

\* What List returns: neither store descends into "<namespace>/", and the local
\* one skips Put's temp files.
Listing == DOMAIN store \ Nested

\* Both expiry checks: GetDeck's time.Now().After(ExpiresAt), and the sweep's
\* now.Before(ExpiresAt).
IsExpired(o) == now > o.expires
IsLive(o, t) == t < o.expires

-----------------------------------------------------------------------------
(* CreateDeck *)

\* The request is valid, its cards are enriched: draw an id nobody has (12
\* random characters out of 62), compute the expiry, and call store.Put.  A
\* request refused before this point changes nothing.
BuildDeck(i, ttl) ==
    /\ phase[i] = "unused"
    /\ phase' = [phase EXCEPT ![i] = "putting"]
    /\ expiry' = [expiry EXCEPT ![i] = now + ttl]
    /\ UNCHANGED <<now, store, temps, getVars, sweepVars, restarts, local>>

\* Mutant of WriteTemp: os.WriteFile on the destination itself.
WriteTemp_InPlace(i) ==
    /\ local
    /\ phase[i] = "putting"
    /\ phase' = [phase EXCEPT ![i] = "temp"]
    /\ store' = With(store, i, Garbled)
    /\ UNCHANGED <<now, temps, expiry, getVars, sweepVars, restarts, local>>

\* localStore.Put: create and fill the temp file.
WriteTemp(i) ==
    /\ local
    /\ phase[i] = "putting"
    /\ phase' = [phase EXCEPT ![i] = "temp"]
    /\ temps' = temps \cup {i}
    /\ UNCHANGED <<now, store, expiry, getVars, sweepVars, restarts, local>>

\* localStore.Put: the rename makes the deck visible in one step.
RenameTemp(i) ==
    /\ phase[i] = "temp"
    /\ phase' = [phase EXCEPT ![i] = "stored"]
    /\ temps' = temps \ {i}
    /\ store' = With(store, i, DeckObject(i))
    /\ UNCHANGED <<now, expiry, getVars, sweepVars, restarts, local>>

\* localStore.Put fails on the way: the temp file is removed, the answer is 500.
PutFails(i) ==
    /\ local
    /\ phase[i] \in {"putting", "temp"}
    /\ phase' = [phase EXCEPT ![i] = "failed"]
    /\ temps' = temps \ {i}
    /\ UNCHANGED <<now, store, expiry, getVars, sweepVars, restarts, local>>

\* s3Store.Put: the service applies the PUT, for a handler that still waits for
\* it or for one that is gone.
ApplyPut(i) ==
    /\ ~local
    /\ phase[i] \in {"putting", "lost"}
    /\ phase' = [phase EXCEPT ![i] = IF @ = "putting" THEN "stored" ELSE "failed"]
    /\ store' = With(store, i, DeckObject(i))
    /\ UNCHANGED <<now, temps, expiry, getVars, sweepVars, restarts, local>>

\* s3Store.Put returns an error: refused, timed out, or the client hung up and
\* its context took the PUT with it.  The request may still arrive ("lost"), may
\* have been applied already, or is gone.
PutErrs(i) ==
    /\ ~local
    /\ \/ phase[i] = "putting" /\ \E p \in {"lost", "failed"} : phase' = [phase EXCEPT ![i] = p]
       \/ phase[i] = "stored" /\ phase' = [phase EXCEPT ![i] = "failed"]
       \/ phase[i] = "lost" /\ phase' = [phase EXCEPT ![i] = "failed"]
    /\ UNCHANGED <<now, store, temps, expiry, getVars, sweepVars, restarts, local>>

\* Mutant of Acknowledge: the answer does not wait for Put.
Acknowledge_Early(i) ==
    /\ phase[i] \in {"putting", "temp", "stored"}
    /\ phase' = [phase EXCEPT ![i] = "acked"]
    /\ UNCHANGED <<now, store, temps, expiry, getVars, sweepVars, restarts, local>>

\* Put returned nil: 201 with the share link.
Acknowledge(i) ==
    /\ phase[i] = "stored"
    /\ phase' = [phase EXCEPT ![i] = "acked"]
    /\ UNCHANGED <<now, store, temps, expiry, getVars, sweepVars, restarts, local>>

-----------------------------------------------------------------------------
(* GetDeck *)

\* store.Get, for a key that passes deckIDRe (any other answers 400), returns the
\* object, ErrNotFound, or, whatever the store holds, another error: the file
\* cannot be read, the service is down, refuses or times out.
GetFetch(g, k) ==
    /\ g \notin DOMAIN reads
    /\ MatchesDeckID(k)
    /\ \E err \in {IF k \in DOMAIN store THEN "nil" ELSE "not found", "other"} :
         reads' = With(reads, g, [key |-> k, wasAcked |-> k \in Ids /\ phase[k] = "acked",
                                  err |-> err,
                                  object |-> IF err = "nil" THEN store[k] ELSE Garbled])
    /\ answers' = Without(answers, g)
    /\ UNCHANGED <<now, store, createVars, sweepVars, restarts, local>>

\* Mutant of Answer: any error of the store is "not found".
Answer_AnyError(err, o) ==
    IF err # "nil" THEN 404
    ELSE IF ~o.parses THEN 500
    ELSE IF IsExpired(o) THEN 410 ELSE 200

Answer(err, o) ==
    IF err = "not found" THEN 404
    ELSE IF err = "other" \/ ~o.parses THEN 500
    ELSE IF IsExpired(o) THEN 410 ELSE 200

\* What the handler does with the object, at a later time than it fetched it.
GetAnswer(g) ==
    /\ g \in DOMAIN reads
    /\ answers' = With(answers, g, [key |-> reads[g].key, wasAcked |-> reads[g].wasAcked,
                                    err |-> reads[g].err,
                                    code |-> Answer(reads[g].err, reads[g].object), at |-> now])
    /\ reads' = Without(reads, g)
    /\ UNCHANGED <<now, store, createVars, sweepVars, restarts, local>>

-----------------------------------------------------------------------------
(* The expiry sweep *)

\* CleanupExpired lists the store.  A failed List ends the sweep unchanged.
SweepList ==
    /\ sweep = "waiting"
    /\ sweep' = "listed"
    /\ todo' = {k \in Listing : MatchesDeckID(k)}
    /\ UNCHANGED <<now, store, createVars, getVars, sweepNow, workers, restarts, local>>

\* The one reading of the clock every worker of this sweep compares with.
SweepClock ==
    /\ sweep = "listed"
    /\ sweep' = "running"
    /\ sweepNow' = now
    /\ UNCHANGED <<now, store, createVars, getVars, todo, workers, restarts, local>>

\* sem <- struct{}{} and the worker goroutine.
SweepSpawn(k) ==
    /\ sweep = "running"
    /\ k \in todo
    /\ Cardinality(DOMAIN workers) < CleanupConcurrency
    /\ todo' = todo \ {k}
    /\ workers' = With(workers, k, "fetching")
    /\ UNCHANGED <<now, store, createVars, getVars, sweep, sweepNow, restarts, local>>

\* Mutant of Deletable: the id is not compared with the key.
Deletable_AnyObject(k, o) == o.parses /\ ~IsLive(o, sweepNow)

\* The worker's verdict (lines 69-83): corrupt objects, objects that are not the
\* deck their key names, and decks not yet expired are skipped.
Deletable(k, o) == o.parses /\ o.id = k /\ o.expires # 0 /\ ~IsLive(o, sweepNow)

\* The worker's Get.  An object that is gone, or that is skipped, ends it.
SweepFetch(k) ==
    /\ k \in DOMAIN workers /\ workers[k] = "fetching"
    /\ workers' = IF k \in DOMAIN store /\ Deletable(k, store[k])
                  THEN With(workers, k, "deleting") ELSE Without(workers, k)
    /\ UNCHANGED <<now, store, createVars, getVars, sweep, sweepNow, todo, restarts, local>>

\* Mutant of SweepDelete: the worker finishes and the object stays.
SweepDelete_Skips(k) ==
    /\ k \in DOMAIN workers /\ workers[k] = "deleting"
    /\ workers' = Without(workers, k)
    /\ UNCHANGED <<now, store, createVars, getVars, sweep, sweepNow, todo, restarts, local>>

\* store.Delete; deleting what is already gone is no error.
SweepDelete(k) ==
    /\ k \in DOMAIN workers /\ workers[k] = "deleting"
    /\ store' = Without(store, k)
    /\ workers' = Without(workers, k)
    /\ UNCHANGED <<now, createVars, getVars, sweep, sweepNow, todo, restarts, local>>

\* Get or Delete fails (the sweep's five minutes are over, the store is down):
\* the worker gives up, the next sweep tries again.
SweepError(k) ==
    /\ k \in DOMAIN workers
    /\ workers' = Without(workers, k)
    /\ UNCHANGED <<now, store, createVars, getVars, sweep, sweepNow, todo, restarts, local>>

\* wg.Wait returns; the loop waits for its next tick.
SweepDone ==
    /\ sweep = "running" /\ todo = {} /\ DOMAIN workers = {}
    /\ sweep' = "waiting"
    /\ sweepNow' = 0
    /\ UNCHANGED <<now, store, createVars, getVars, todo, workers, restarts, local>>

-----------------------------------------------------------------------------
(* Environment *)

Tick ==
    /\ now < MaxTime
    /\ now' = now + 1
    /\ UNCHANGED <<store, createVars, getVars, sweepVars, restarts, local>>

\* The process dies, or is shut down without waiting for background work, and
\* starts again: every goroutine is gone, the store is not, a half written temp
\* file stays behind and a PUT on the wire may still arrive.
Restart ==
    /\ restarts < MaxRestarts
    /\ restarts' = restarts + 1
    /\ phase' = [i \in Ids |->
                   IF phase[i] = "putting" /\ ~local THEN "lost"
                   ELSE IF phase[i] \in {"putting", "temp", "stored"} THEN "failed"
                   ELSE phase[i]]
    /\ reads' = [g \in {} |-> 0]
    /\ sweep' = "waiting" /\ sweepNow' = 0 /\ todo' = {}
    /\ workers' = [k \in {} |-> "fetching"]
    /\ UNCHANGED <<now, store, temps, expiry, answers, local>>

-----------------------------------------------------------------------------
Init ==
    /\ now = 1
    /\ \E o \in ForeignObjects : store = [k \in Foreign |-> o]
    /\ temps = {}
    /\ phase = [i \in Ids |-> "unused"]
    /\ expiry = [i \in Ids |-> 0]
    /\ reads = [g \in {} |-> 0]
    /\ answers = [g \in {} |-> 0]
    /\ sweep = "waiting" /\ sweepNow = 0 /\ todo = {}
    /\ workers = [k \in {} |-> "fetching"]
    /\ restarts = 0
    /\ local \in Backends

CreateStep ==
    \/ \E i \in Ids, ttl \in TTLs : BuildDeck(i, ttl)
    \/ \E i \in Ids : WriteTemp(i)
    \/ \E i \in Ids : RenameTemp(i)
    \/ \E i \in Ids : PutFails(i)
    \/ \E i \in Ids : ApplyPut(i)
    \/ \E i \in Ids : PutErrs(i)
    \/ \E i \in Ids : Acknowledge(i)

GetStep ==
    \/ \E g \in Getters, k \in Keys : GetFetch(g, k)
    \/ \E g \in Getters : GetAnswer(g)

SweepStep ==
    \/ SweepList
    \/ SweepClock
    \/ \E k \in Keys : SweepSpawn(k)
    \/ \E k \in Keys : SweepFetch(k)
    \/ \E k \in Keys : SweepDelete(k)
    \/ \E k \in Keys : SweepError(k)
    \/ SweepDone

Next == CreateStep \/ GetStep \/ SweepStep \/ Tick \/ Restart

Spec == Init /\ [][Next]_vars

\* The hourly ticker keeps starting sweeps, and a sweep's goroutines run to their
\* end.  A store that answers infinitely many attempts does not fail all of them.
SweepFairness ==
    /\ WF_vars(SweepStep)
    /\ \A i \in Ids : SF_vars(SweepFetch(i)) /\ SF_vars(SweepDelete(i))

FairSpec == Spec /\ SweepFairness

-----------------------------------------------------------------------------
(* Properties *)

Errors == {"nil", "not found", "other"}
Read == [key : Ids \cup Alien, wasAcked : BOOLEAN, err : Errors, object : Object]
Given == [key : Ids \cup Alien, wasAcked : BOOLEAN, err : Errors,
          code : {200, 404, 410, 500}, at : Nat]

TypeOK ==
    /\ now \in Nat
    /\ DOMAIN store \subseteq Keys
    /\ \A k \in DOMAIN store : store[k] \in Object
    /\ temps \subseteq Ids
    /\ phase \in [Ids -> {"unused", "putting", "temp", "stored", "lost", "acked", "failed"}]
    /\ expiry \in [Ids -> Nat]
    /\ DOMAIN reads \subseteq Getters
    /\ \A g \in DOMAIN reads : reads[g] \in Read
    /\ DOMAIN answers \subseteq Getters
    /\ \A g \in DOMAIN answers : answers[g] \in Given
    /\ sweep \in {"waiting", "listed", "running"}
    /\ sweepNow \in Nat
    /\ todo \subseteq Ids \cup Alien
    /\ DOMAIN workers \subseteq Ids \cup Alien
    /\ \A k \in DOMAIN workers : workers[k] \in {"fetching", "deleting"}
    /\ restarts \in Nat /\ local \in BOOLEAN

\* A deck whose share link was handed out is whole and in the store until its
\* time is up, whatever sweep, crash or failed request happens in between
\* (handler.go:134-145, cleanup.go:81-84).
AckedUntilExpiry ==
    \A i \in Ids : phase[i] = "acked" /\ now < expiry[i] =>
        i \in DOMAIN store /\ store[i] = DeckObject(i)

\* No reader ever finds half a deck: what is stored under a deck id parses and
\* is that deck, also after a crash in the middle of Put (local.go:31-57, "a
\* process kill/crash mid-write would otherwise leave a permanently corrupted,
\* unrecoverable deck file").
NoTornDeck ==
    \A i \in Ids \cap DOMAIN store : store[i] = DeckObject(i)

\* Before the time CreateDeck promised, a holder of a share link is given the
\* deck, though the answer is given later than the object was fetched.  The one
\* exception is a store that fails, and that is said to be an error of the server
\* and never that the deck is gone or was not found (handler.go:166-185).
NotRefusedEarly ==
    \A g \in DOMAIN answers : answers[g].wasAcked =>
        \/ answers[g].code = 200
        \/ answers[g].code = 500 /\ answers[g].err = "other"
        \/ answers[g].at >= expiry[answers[g].key]

\* Nothing this package does changes or deletes an object that is not the deck
\* its key names, an expired deck's JSON under another key included: the mistake
\* cleanup.go:41-49 and 74-76 describe.
ForeignUntouched ==
    [][\A k \in Foreign : k \in DOMAIN store' /\ store'[k] = store[k]]_vars

\* Storage does not grow for ever: a deck that has expired is removed, also one
\* whose creation failed after the object was stored (cleanup.go:19-24).
ExpiredEventuallyDeleted ==
    \A i \in Ids :
        (i \in DOMAIN store /\ expiry[i] <= now) ~> (i \notin DOMAIN store)
=============================================================================
