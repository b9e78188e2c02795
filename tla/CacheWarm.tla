----------------------------- MODULE CacheWarm -----------------------------
(***************************************************************************)
(* internal/cachewarm: one worker resolves the cards of scanned decks in   *)
(* the background, one per tick of a time.Ticker, from a bounded queue     *)
(* that request goroutines fill without ever blocking.                     *)
(*                                                                         *)
(* Time is a countdown in every place the code compares with it, so that   *)
(* the state space is finite and liveness can be checked: tickIn until the *)
(* ticker fires, cool[d] until deck d may be triggered again, jobLeft      *)
(* until the running job's timeout.  A Go ticker's channel holds one tick; *)
(* a tick that finds it full is lost.                                      *)
(***************************************************************************)
EXTENDS Integers, Sequences, FiniteSets

CONSTANTS
    Decks,
    Cards,          \* Spotify ids
    DeckCards,      \* deck -> its cards (CardsInDeck, empty ids left out)
    Requests,       \* /api/resolve goroutines inside ShouldWarm/TriggerDeck
    Capacity,       \* queueCapacity
    Pacing,         \* ticker period
    RewarmAfter,
    DropRetryAfter,
    JobTime,        \* longest a resolve can take
    MaxStall        \* longest an enqueue loop takes

ASSUME WarmAssumption ==
    /\ DeckCards \in [Decks -> SUBSET Cards]
    /\ Capacity \in Nat \ {0}
    /\ Pacing \in Nat \ {0}
    /\ JobTime \in Nat
    /\ MaxStall \in Nat /\ DropRetryAfter \in Nat /\ RewarmAfter \in Nat
    /\ MaxStall < DropRetryAfter
    /\ DropRetryAfter <= RewarmAfter

VARIABLES
    tickIn,     \* time until the ticker fires next
    tickBuf,    \* a tick waits in ticker.C
    worker,     \* "select" | "resolving" | "returned"
    job,        \* the card being resolved, or NoCard
    jobLeft,
    queue,
    stopped,    \* w.stop is closed
    cool,       \* deck -> time until nextAllowed, 0 when it has passed
    triggers,   \* request -> [deck, at, left, age] while in ShouldWarm/TriggerDeck
    age1, age2, \* history: time since the last start of a job and the one before
    claimAge,   \* history: deck -> time since it was last claimed
    spacing     \* history: deck -> what must pass from that claim to the next

NoCard == "none"

workerVars == <<tickBuf, worker, job, jobLeft, age1, age2>>
deckVars == <<cool, claimAge, spacing>>
vars == <<tickIn, workerVars, queue, stopped, deckVars, triggers>>

Less(n) == IF n = 0 THEN 0 ELSE n - 1
Capped(n, max) == IF n >= max THEN max ELSE n + 1
Leave(r) == triggers' = [q \in DOMAIN triggers \ {r} |-> triggers[q]]
Enter(r, t) == triggers' = [q \in DOMAIN triggers \cup {r} |->
                               IF q = r THEN t ELSE triggers[q]]

-----------------------------------------------------------------------------
(* The request side *)

\* ShouldWarm says yes, under a lock it then gives up.  No: nothing happens.
ShouldWarm(r, d) ==
    /\ r \notin DOMAIN triggers
    /\ cool[d] = 0
    /\ Enter(r, [deck |-> d, at |-> "asked", left |-> {}, age |-> 0])
    /\ UNCHANGED <<tickIn, workerVars, queue, stopped, deckVars>>

\* Mutant of OnCooldown: TriggerDeck trusts what ShouldWarm said.
OnCooldown_Trusted(d) == FALSE

\* onCooldownLocked.
OnCooldown(d) == cool[d] > 0

\* TriggerDeck's locked section: the deck is claimed for RewarmAfter.
Claim(r) ==
    /\ r \in DOMAIN triggers /\ triggers[r].at = "asked"
    /\ LET d == triggers[r].deck
       IN  /\ DeckCards[d] # {} /\ ~OnCooldown(d)
           /\ cool' = [cool EXCEPT ![d] = RewarmAfter]
           /\ claimAge' = [claimAge EXCEPT ![d] = 0]
           /\ spacing' = [spacing EXCEPT ![d] = RewarmAfter]
           /\ Enter(r, [deck |-> d, at |-> "enqueuing", left |-> DeckCards[d], age |-> 0])
    /\ UNCHANGED <<tickIn, workerVars, queue, stopped>>

\* TriggerDeck returns: no cards, another request claimed the deck first, or
\* every card is queued.
Return(r) ==
    /\ r \in DOMAIN triggers
    /\ \/ /\ triggers[r].at = "asked"
          /\ DeckCards[triggers[r].deck] = {} \/ OnCooldown(triggers[r].deck)
       \/ triggers[r].at = "enqueuing" /\ triggers[r].left = {}
    /\ Leave(r)
    /\ UNCHANGED <<tickIn, workerVars, queue, stopped, deckVars>>

\* One turn of the loop, in whatever order the map yields: a non-blocking send.
Enqueue(r, c) ==
    /\ r \in DOMAIN triggers /\ triggers[r].at = "enqueuing" /\ c \in triggers[r].left
    /\ Len(queue) < Capacity
    /\ queue' = Append(queue, c)
    /\ Enter(r, [triggers[r] EXCEPT !.left = @ \ {c}])
    /\ UNCHANGED <<tickIn, workerVars, stopped, deckVars>>

\* Mutants of Drop: it waits for room and tries again; the deck is left without
\* any cooldown.
Drop_Waits(r) ==
    /\ r \in DOMAIN triggers /\ triggers[r].at = "enqueuing" /\ triggers[r].left # {}
    /\ Len(queue) >= Capacity
    /\ Enter(r, [triggers[r] EXCEPT !.age = 0])
    /\ UNCHANGED <<tickIn, workerVars, queue, stopped, deckVars>>
Drop_NoCooldown(r) ==
    /\ r \in DOMAIN triggers /\ triggers[r].at = "enqueuing" /\ triggers[r].left # {}
    /\ Len(queue) >= Capacity
    /\ cool' = [cool EXCEPT ![triggers[r].deck] = 0]
    /\ spacing' = [spacing EXCEPT ![triggers[r].deck] = DropRetryAfter]
    /\ Leave(r)
    /\ UNCHANGED <<tickIn, workerVars, queue, stopped, claimAge>>

\* The queue is full: drop the rest, shorten the cooldown, return.
Drop(r) ==
    /\ r \in DOMAIN triggers /\ triggers[r].at = "enqueuing" /\ triggers[r].left # {}
    /\ Len(queue) >= Capacity
    /\ cool' = [cool EXCEPT ![triggers[r].deck] = DropRetryAfter]
    /\ spacing' = [spacing EXCEPT ![triggers[r].deck] = DropRetryAfter]
    /\ Leave(r)
    /\ UNCHANGED <<tickIn, workerVars, queue, stopped, claimAge>>

-----------------------------------------------------------------------------
(* The worker *)

\* Mutant of StartJob: the worker does not wait for a tick.
StartJob_Unpaced ==
    /\ worker = "select" /\ queue # <<>>
    /\ tickBuf' = FALSE
    /\ job' = Head(queue) /\ queue' = Tail(queue)
    /\ worker' = "resolving" /\ jobLeft' = JobTime
    /\ age1' = 0 /\ age2' = age1
    /\ UNCHANGED <<tickIn, stopped, deckVars, triggers>>

\* A tick is received and a card is queued: resolveOne starts.
StartJob ==
    /\ worker = "select" /\ tickBuf /\ queue # <<>>
    /\ tickBuf' = FALSE
    /\ job' = Head(queue) /\ queue' = Tail(queue)
    /\ worker' = "resolving" /\ jobLeft' = JobTime
    /\ age1' = 0 /\ age2' = age1
    /\ UNCHANGED <<tickIn, stopped, deckVars, triggers>>

\* A tick is received and nothing is queued.
IdleTick ==
    /\ worker = "select" /\ tickBuf /\ queue = <<>>
    /\ tickBuf' = FALSE
    /\ UNCHANGED <<tickIn, worker, job, jobLeft, age1, age2, queue, stopped, deckVars, triggers>>

\* Mutant of EndJob: a failed resolve ends the worker's interest in the queue.
EndJob_Drains ==
    /\ worker = "resolving"
    /\ worker' = "select" /\ job' = NoCard /\ jobLeft' = 0
    /\ queue' = <<>>
    /\ UNCHANGED <<tickIn, tickBuf, age1, age2, stopped, deckVars, triggers>>

\* w.resolve returns; its error is only logged.
EndJob ==
    /\ worker = "resolving"
    /\ worker' = "select" /\ job' = NoCard /\ jobLeft' = 0
    /\ UNCHANGED <<tickIn, tickBuf, age1, age2, queue, stopped, deckVars, triggers>>

\* Mutant of StopBranch: the worker only looks at stop when nothing is queued.
StopBranch_Lazy ==
    /\ worker = "select" /\ stopped /\ ~tickBuf /\ queue = <<>>
    /\ worker' = "returned"
    /\ UNCHANGED <<tickIn, tickBuf, job, jobLeft, age1, age2, queue, stopped, deckVars, triggers>>

\* The other branch of the select; when a tick is ready too, either is taken.
StopBranch ==
    /\ worker = "select" /\ stopped
    /\ worker' = "returned"
    /\ UNCHANGED <<tickIn, tickBuf, job, jobLeft, age1, age2, queue, stopped, deckVars, triggers>>

\* Stop, once.
Stop ==
    /\ ~stopped
    /\ stopped' = TRUE
    /\ UNCHANGED <<tickIn, workerVars, queue, deckVars, triggers>>

-----------------------------------------------------------------------------
(* Time *)

\* One unit of time, unless a job is at its timeout or an enqueue loop has
\* stalled as long as it can.  A request that has asked ShouldWarm may take any
\* time to act on the answer.
Tick ==
    /\ worker = "resolving" => jobLeft > 0
    /\ \A r \in DOMAIN triggers : triggers[r].at = "enqueuing" => triggers[r].age < MaxStall
    /\ tickIn' = IF tickIn = 1 THEN Pacing ELSE tickIn - 1
    /\ tickBuf' = (tickBuf \/ tickIn = 1)
    /\ jobLeft' = Less(jobLeft)
    /\ cool' = [d \in Decks |-> Less(cool[d])]
    /\ triggers' = [r \in DOMAIN triggers |->
                       IF triggers[r].at = "enqueuing"
                       THEN [triggers[r] EXCEPT !.age = @ + 1] ELSE triggers[r]]
    /\ age1' = Capped(age1, Pacing)
    /\ age2' = Capped(age2, Pacing)
    /\ claimAge' = [d \in Decks |-> Capped(claimAge[d], RewarmAfter)]
    /\ UNCHANGED <<worker, job, queue, stopped, spacing>>

-----------------------------------------------------------------------------
\* New: an empty queue, a fresh ticker, the worker in its select.
Init ==
    /\ tickIn = Pacing /\ tickBuf = FALSE
    /\ worker = "select" /\ job = NoCard /\ jobLeft = 0
    /\ queue = <<>> /\ stopped = FALSE
    /\ cool = [d \in Decks |-> 0]
    /\ triggers = [r \in {} |-> NoCard]
    /\ age1 = Pacing /\ age2 = Pacing
    /\ claimAge = [d \in Decks |-> RewarmAfter]
    /\ spacing = [d \in Decks |-> RewarmAfter]

RequestStep(r) ==
    \/ Claim(r)
    \/ Return(r)
    \/ \E c \in Cards : Enqueue(r, c)
    \/ Drop(r)

Next ==
    \/ \E r \in Requests, d \in Decks : ShouldWarm(r, d)
    \/ \E r \in Requests : RequestStep(r)
    \/ StartJob
    \/ IdleTick
    \/ EndJob
    \/ StopBranch
    \/ Stop
    \/ Tick

Spec == Init /\ [][Next]_vars

\* Goroutines that can run do; time passes; and Go's select, which chooses at
\* random among its ready branches, does not ignore one for ever.
Fairness ==
    /\ WF_vars(Tick)
    /\ WF_vars(EndJob)
    /\ WF_vars(StartJob \/ IdleTick)
    /\ SF_vars(StopBranch)
    /\ \A r \in Requests : WF_vars(RequestStep(r))

FairSpec == Spec /\ Fairness

-----------------------------------------------------------------------------
(* Properties *)

WorkerTypeOK ==
    /\ tickIn \in 1..Pacing /\ tickBuf \in BOOLEAN
    /\ worker \in {"select", "resolving", "returned"}
    /\ job \in Cards \cup {NoCard} /\ jobLeft \in 0..JobTime
    /\ queue \in Seq(Cards) /\ Len(queue) <= Capacity
    /\ stopped \in BOOLEAN
    /\ age1 \in 0..Pacing /\ age2 \in 0..Pacing

DeckTypeOK ==
    /\ cool \in [Decks -> 0..RewarmAfter]
    /\ claimAge \in [Decks -> 0..RewarmAfter]
    /\ spacing \in [Decks -> 0..RewarmAfter]
    /\ DOMAIN triggers \subseteq Requests
    /\ \A r \in DOMAIN triggers :
          triggers[r] \in [deck : Decks, at : {"asked", "enqueuing"},
                           left : SUBSET Cards, age : 0..MaxStall]

\* Types, with the two bounds that matter: the queue never exceeds its capacity
\* and no cooldown its longest value.
TypeOK == WorkerTypeOK /\ DeckTypeOK

\* A job starts.
Starts == worker = "select" /\ worker' = "resolving"

\* What the ticker really guarantees, however long jobs take and however late
\* the worker is scheduled: three consecutive resolve calls never start within
\* one pacing period (cachewarm.go:153-169).  Two can: a tick that fired during
\* a resolve waits for it to end.
AtMostTwoPerPeriod == [][Starts => age2 >= Pacing]_vars

\* Request r's step claims deck d.
Claims(r, d) ==
    /\ r \in DOMAIN triggers /\ triggers[r].deck = d /\ triggers[r].at = "asked"
    /\ r \in DOMAIN triggers' /\ triggers'[r].at = "enqueuing"

\* However many requests saw ShouldWarm say yes, and however old that answer is,
\* a deck is enqueued once per RewarmAfter, or per DropRetryAfter when the last
\* loop was cut short ("two concurrent requests that both see true still result
\* in exactly one enqueue", cachewarm.go:85-88, 35-40).
ClaimsSpaced ==
    [][\A r \in Requests, d \in Decks : Claims(r, d) =>
          claimAge[d] >= spacing[d]]_vars

\* Two requests are never in the enqueue loop of one deck at the same time.
OneEnqueuer ==
    \A r, q \in DOMAIN triggers :
        /\ triggers[r].at = "enqueuing" /\ triggers[q].at = "enqueuing"
        /\ triggers[r].deck = triggers[q].deck
        => r = q

\* A queued card is resolved, unless the worker is stopped.
QueuedIsResolved ==
    \A c \in Cards :
        (\E n \in DOMAIN queue : queue[n] = c) ~> (job = c \/ worker = "returned")

\* TriggerDeck never holds up the HTTP request that called it, whatever the
\* worker and the queue do (cachewarm.go:61-63, 134-135).
TriggerReturns ==
    \A r \in Requests : (r \in DOMAIN triggers) ~> (r \notin DOMAIN triggers)

\* After Stop the worker returns, even when its ticker never runs dry
\* (cachewarm.go:148-159).
StopEndsWorker == stopped ~> (worker = "returned")
=============================================================================
