------------------------------- MODULE Server -------------------------------
(***************************************************************************)
(* Requests that enrich many cards, and the end of the process.  Creating  *)
(* a deck and importing a playlist look every card up in a goroutine of    *)
(* its own, bounded by a semaphore and joined by a WaitGroup before the    *)
(* answer is encoded (internal/deck).  A signal makes main drain the HTTP  *)
(* server for a limited time, flush the log and exit (cmd/server), whether *)
(* or not requests are still at work.                                      *)
(* Code between two waits takes no time; lookups, the store, the drain and *)
(* the last POST of the log do.                                            *)
(***************************************************************************)
EXTENDS Integers

CONSTANTS
    Handlers,   \* requests
    Imports,    \* those that import a playlist; the others create a deck
    Cards,      \* Cards[h]: how many cards the request looks up
    Limit,      \* Limit[h]: enrichConcurrency
    ContextTime,\* ContextTime[h]: the timeout of one lookup's context
    CacheTime,  \* how long a lookup's cache calls can hold it beyond its context
    DrainTime,  \* the timeout of srv.Shutdown
    PostTime    \* requestTimeout of the log's last POST

ASSUME ServerAssumption ==
    /\ Imports \subseteq Handlers
    /\ Cards \in [Handlers -> Nat] /\ Limit \in [Handlers -> Nat \ {0}]
    /\ ContextTime \in [Handlers -> Nat] /\ CacheTime \in Nat
    /\ DrainTime \in Nat /\ PostTime \in Nat

VARIABLES
    pc,         \* "new" | "fetch" | "spawn" | "wait" | "encode" | "storing" | "answered"
    next,       \* the card its loop is at
    worker,     \* a card's goroutine: "none" | "lookup" | "unwinding" | "released" | "gone"
    left,       \* what is left of its lookup's time
    sem,        \* tokens in the semaphore channel
    wg,         \* the WaitGroup's counter
    card,       \* a card: "asis" | "enriched"
    sent,       \* the cards as they were encoded
    elapsed,    \* history: how long the request has enriched
    main,       \* "serving" | "draining" | "closing" | "exited"
    mainLeft,   \* what is left of the drain's time, or of the last POST's
    failed,     \* the exit code is 1
    since       \* history: time since the signal, -1 before it

vars == <<pc, next, worker, left, sem, wg, card, sent, elapsed,
          main, mainLeft, failed, since>>
poolVars == <<next, worker, left, sem, wg, card>>
mainVars == <<main, mainLeft, failed, since>>

CardsOf(h) == 1..Cards[h]

\* How long one lookup can take.  Its context cuts the providers short and not the
\* cache, which is asked under context.Background() and gives up only at the
\* timeouts of its own tiers.
LookupTime(h) == ContextTime[h] + CacheTime
Running == main # "exited"

-----------------------------------------------------------------------------
(* A request *)

\* The listener takes a request.  A body, an address or a card that is not valid
\* is refused before any other work.
Accept(h) ==
    /\ main = "serving" /\ pc[h] = "new"
    /\ \E at \in {IF h \in Imports THEN "fetch" ELSE "spawn", "answered"} :
         pc' = [pc EXCEPT ![h] = at]
    /\ UNCHANGED <<poolVars, sent, elapsed, mainVars>>

\* yt-dlp has listed the playlist, or failed, or found nothing to import.
FetchReturns(h) ==
    /\ Running
    /\ pc[h] = "fetch"
    /\ \E at \in {"spawn", "answered"} : pc' = [pc EXCEPT ![h] = at]
    /\ UNCHANGED <<poolVars, sent, elapsed, mainVars>>

\* The next card, as soon as the semaphore has room: the slot is taken, the
\* WaitGroup raised and the goroutine started, in this order.
Spawn(h) ==
    /\ Running
    /\ pc[h] = "spawn" /\ next[h] <= Cards[h]
    /\ sem[h] < Limit[h]
    /\ sem' = [sem EXCEPT ![h] = @ + 1]
    /\ wg' = [wg EXCEPT ![h] = @ + 1]
    /\ worker' = [worker EXCEPT ![h][next[h]] = "lookup"]
    /\ left' = [left EXCEPT ![h][next[h]] = LookupTime(h)]
    /\ next' = [next EXCEPT ![h] = @ + 1]
    /\ UNCHANGED <<pc, card, sent, elapsed, mainVars>>

SpawnedAll(h) ==
    /\ Running
    /\ pc[h] = "spawn" /\ next[h] > Cards[h]
    /\ pc' = [pc EXCEPT ![h] = "wait"]
    /\ UNCHANGED <<poolVars, sent, elapsed, mainVars>>

\* Mutant of Joined: the handler gives up waiting when the client hangs up.
Joined_OrCancelled(h) ==
    /\ Running
    /\ pc[h] = "wait"
    /\ pc' = [pc EXCEPT ![h] = "encode"]
    /\ UNCHANGED <<poolVars, sent, elapsed, mainVars>>

\* wg.Wait returns.
Joined(h) ==
    /\ Running
    /\ pc[h] = "wait" /\ wg[h] = 0
    /\ pc' = [pc EXCEPT ![h] = "encode"]
    /\ UNCHANGED <<poolVars, sent, elapsed, mainVars>>

\* The cards are marshalled, for the store or for the answer.
Encode(h) ==
    /\ Running
    /\ pc[h] = "encode"
    /\ pc' = [pc EXCEPT ![h] = "storing"]
    /\ sent' = [sent EXCEPT ![h] = card[h]]
    /\ UNCHANGED <<poolVars, elapsed, mainVars>>

\* The store and the client have taken them, or one of them, or the choice of an
\* id, has failed.
Reply(h) ==
    /\ Running
    /\ pc[h] = "storing"
    /\ pc' = [pc EXCEPT ![h] = "answered"]
    /\ UNCHANGED <<poolVars, sent, elapsed, mainVars>>

-----------------------------------------------------------------------------
(* The goroutine of a card *)

\* The lookup found something, or failed, ran out of time, had no artist and no
\* title to look for, or panicked: the card stays as it was then.
LookupEnds(h, i) ==
    /\ Running
    /\ worker[h][i] = "lookup"
    /\ worker' = [worker EXCEPT ![h][i] = "unwinding"]
    /\ left' = [left EXCEPT ![h][i] = 0]
    /\ \E c \in {"asis", "enriched"} : card' = [card EXCEPT ![h][i] = c]
    /\ UNCHANGED <<pc, next, sem, wg, sent, elapsed, mainVars>>

\* Mutant of Release: the slot is given back at the end of the body, not in a
\* defer, so an early return or a panic keeps it.
Release_NotDeferred(h, i) ==
    /\ Running
    /\ worker[h][i] = "unwinding"
    /\ worker' = [worker EXCEPT ![h][i] = "released"]
    /\ sem' = [sem EXCEPT ![h] = IF card[h][i] = "enriched" THEN @ - 1 ELSE @]
    /\ UNCHANGED <<pc, next, left, wg, card, sent, elapsed, mainVars>>

\* After the recover, the deferred receive gives the slot back ...
Release(h, i) ==
    /\ Running
    /\ worker[h][i] = "unwinding"
    /\ worker' = [worker EXCEPT ![h][i] = "released"]
    /\ sem' = [sem EXCEPT ![h] = @ - 1]
    /\ UNCHANGED <<pc, next, left, wg, card, sent, elapsed, mainVars>>

\* ... and then wg.Done runs.
Done(h, i) ==
    /\ Running
    /\ worker[h][i] = "released"
    /\ worker' = [worker EXCEPT ![h][i] = "gone"]
    /\ wg' = [wg EXCEPT ![h] = @ - 1]
    /\ UNCHANGED <<pc, next, left, sem, card, sent, elapsed, mainVars>>

-----------------------------------------------------------------------------
(* main *)

\* Mutant of ShutdownTimeout: srv.Shutdown(context.Background()).
ShutdownTimeout_None == DrainTime + PostTime + 1

ShutdownTimeout == DrainTime

\* SIGTERM: the warmer and the sweeps are told to stop, the listener closes.
Signal ==
    /\ main = "serving"
    /\ main' = "draining" /\ mainLeft' = ShutdownTimeout /\ since' = 0
    /\ UNCHANGED <<pc, poolVars, sent, elapsed, failed>>

Quiet == \A h \in Handlers : pc[h] \in {"new", "answered"}

\* srv.Shutdown returns, nil when no request is left or an error when its time
\* is over; either way the log is flushed next.
Drained ==
    /\ main = "draining"
    /\ \/ Quiet /\ failed' = FALSE
       \/ ~Quiet /\ mainLeft = 0 /\ failed' = TRUE
    /\ main' = "closing" /\ mainLeft' = PostTime
    /\ UNCHANGED <<pc, poolVars, sent, elapsed, since>>

\* axiomWriter.Close returns and main exits, with 1 after a failed drain.
Exit ==
    /\ main = "closing"
    /\ main' = "exited" /\ mainLeft' = 0
    /\ UNCHANGED <<pc, poolVars, sent, elapsed, failed, since>>

\* Mutant of ListenFails: ErrServerClosed, which ListenAndServe returns as soon as
\* Shutdown begins, is taken for a failure.
ListenFails_AnyError ==
    /\ main \in {"serving", "draining"}
    /\ main' = "exited" /\ mainLeft' = 0 /\ failed' = TRUE
    /\ UNCHANGED <<pc, poolVars, sent, elapsed, since>>

\* ListenAndServe fails: os.Exit(1) at once.
ListenFails ==
    /\ main = "serving"
    /\ main' = "exited" /\ mainLeft' = 0 /\ failed' = TRUE
    /\ UNCHANGED <<pc, poolVars, sent, elapsed, since>>

-----------------------------------------------------------------------------
(* Time *)

Enriching(h) == pc[h] \in {"spawn", "wait"}

\* What takes no time: the handlers' own steps and the deferred functions.
Busy(h) ==
    \/ pc[h] = "spawn" /\ (next[h] > Cards[h] \/ sem[h] < Limit[h])
    \/ pc[h] = "wait" /\ wg[h] = 0
    \/ pc[h] = "encode"
    \/ \E i \in CardsOf(h) : worker[h][i] \in {"unwinding", "released"}

Elapse ==
    /\ Running
    /\ \A h \in Handlers :
         ~Busy(h) /\ \A i \in CardsOf(h) : worker[h][i] = "lookup" => left[h][i] > 0
    /\ main = "draining" => ~Quiet /\ mainLeft > 0
    /\ main = "closing" => mainLeft > 0
    /\ main \in {"draining", "closing"} \/ \E h \in Handlers : Enriching(h)
    /\ left' = [h \in Handlers |-> [i \in CardsOf(h) |->
                    IF left[h][i] > 0 THEN left[h][i] - 1 ELSE 0]]
    /\ elapsed' = [h \in Handlers |-> IF Enriching(h) THEN elapsed[h] + 1 ELSE elapsed[h]]
    /\ mainLeft' = IF mainLeft > 0 THEN mainLeft - 1 ELSE 0
    /\ since' = IF since < 0 THEN since ELSE since + 1
    /\ UNCHANGED <<pc, next, worker, sem, wg, card, sent, main, failed>>

-----------------------------------------------------------------------------
Init ==
    /\ pc = [h \in Handlers |-> "new"]
    /\ next = [h \in Handlers |-> 1]
    /\ worker = [h \in Handlers |-> [i \in CardsOf(h) |-> "none"]]
    /\ left = [h \in Handlers |-> [i \in CardsOf(h) |-> 0]]
    /\ sem = [h \in Handlers |-> 0] /\ wg = [h \in Handlers |-> 0]
    /\ card = [h \in Handlers |-> [i \in CardsOf(h) |-> "asis"]]
    /\ sent = card
    /\ elapsed = [h \in Handlers |-> 0]
    /\ main = "serving" /\ mainLeft = 0 /\ failed = FALSE /\ since = -1

HandlerStep(h) ==
    \/ Accept(h)
    \/ FetchReturns(h)
    \/ Spawn(h)
    \/ SpawnedAll(h)
    \/ Joined(h)
    \/ Encode(h)
    \/ Reply(h)
    \/ \E i \in CardsOf(h) : LookupEnds(h, i) \/ Release(h, i) \/ Done(h, i)

Next ==
    \/ \E h \in Handlers : HandlerStep(h)
    \/ Signal
    \/ Drained
    \/ Exit
    \/ ListenFails
    \/ Elapse

Spec == Init /\ [][Next]_vars

-----------------------------------------------------------------------------
(* Properties *)

TypeOK ==
    /\ pc \in [Handlers -> {"new", "fetch", "spawn", "wait", "encode", "storing", "answered"}]
    /\ next \in [Handlers -> Nat] /\ elapsed \in [Handlers -> Nat]
    /\ sem \in [Handlers -> Int] /\ wg \in [Handlers -> Int]
    /\ main \in {"serving", "draining", "closing", "exited"}
    /\ mainLeft \in Nat /\ failed \in BOOLEAN /\ since \in Nat \cup {-1}
    /\ DOMAIN worker = Handlers /\ DOMAIN left = Handlers
    /\ DOMAIN card = Handlers /\ DOMAIN sent = Handlers
    /\ \A h \in Handlers :
         /\ next[h] \in 1..(Cards[h] + 1)
         /\ worker[h] \in [CardsOf(h) -> {"none", "lookup", "unwinding", "released", "gone"}]
         /\ left[h] \in [CardsOf(h) -> Nat]
         /\ card[h] \in [CardsOf(h) -> {"asis", "enriched"}]
         /\ sent[h] \in [CardsOf(h) -> {"asis", "enriched"}]

\* Once the cards are encoded no goroutine of the request is left that could
\* still write one, whatever failed or panicked: what was stored and answered is
\* what the request ended up with (handler.go:99-111, playlist.go:84-135).
AnswerIsFinal ==
    \A h \in Handlers : pc[h] \in {"storing", "answered"} =>
        card[h] = sent[h] /\ \A i \in CardsOf(h) : worker[h][i] \in {"none", "gone"}

\* The enrichment takes at most one lookup for every Limit cards, even if every
\* lookup takes all the time its context and the cache's timeouts leave it: no
\* slot is ever lost or left idle (handler.go:91-111, playlist.go:89-135).
InTime ==
    \A h \in Handlers :
        elapsed[h] <= LookupTime(h) * ((Cards[h] + Limit[h] - 1) \div Limit[h])

\* After a signal the process does not end under a request it has accepted,
\* unless the drain's time is used up; and it ends with code 0 only if every
\* such request is answered and none of its goroutines is left (815-846).
NoneCutShort ==
    main = "exited" /\ since >= 0 =>
        /\ Quiet \/ since >= DrainTime
        /\ ~failed => \A h \in Handlers : pc[h] \in {"new", "answered"}
                        /\ \A i \in CardsOf(h) : worker[h][i] \in {"none", "gone"}

\* A signal ends the process within the drain's and the last POST's timeout,
\* however long the requests or the log's server take.
ExitsInTime == main # "exited" => since <= DrainTime + PostTime
=============================================================================
