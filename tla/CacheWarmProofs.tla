-------------------------- MODULE CacheWarmProofs --------------------------
(***************************************************************************)
(* The warmer's pacing and deduplication for any decks, queue, job times   *)
(* and number of concurrent requests.                                      *)
(***************************************************************************)
EXTENDS CacheWarm, TLAPS

\* A waiting tick fired after the last job started, and by the next firing the
\* start before the last is a whole period ago.
Paced ==
    /\ tickBuf => age2 >= Pacing /\ age1 + tickIn >= Pacing
    /\ ~tickBuf => age2 + tickIn >= Pacing

\* While a loop enqueues a deck, the deck's full cooldown is still running.
Claimed ==
    \A r \in DOMAIN triggers : triggers[r].at = "enqueuing" =>
        cool[triggers[r].deck] + triggers[r].age >= RewarmAfter

\* The cooldown left and the time since the claim make up the required distance.
Spaced ==
    \A d \in Decks :
        cool[d] + claimAge[d] >= spacing[d]

\* The inductive invariant.
IInv == WorkerTypeOK /\ DeckTypeOK /\ Paced /\ Claimed /\ Spaced /\ OneEnqueuer

-----------------------------------------------------------------------------
LEMMA InitIInv == Init => IInv
  <1> SUFFICES ASSUME Init PROVE IInv
    OBVIOUS
  <1>1. DOMAIN triggers = {} /\ queue \in Seq(Cards) /\ Len(queue) = 0
    BY DEF Init
  <1>2. WorkerTypeOK
    <2>1. /\ Pacing \in 1..Pacing /\ Pacing \in 0..Pacing /\ 0 \in 0..JobTime
          /\ 0 <= Capacity
      BY WarmAssumption
    <2>2. tickBuf \in BOOLEAN /\ stopped \in BOOLEAN
      BY DEF Init
    <2> QED BY <1>1, <2>1, <2>2 DEF Init, WorkerTypeOK
  <1>2a. DeckTypeOK
    BY <1>1, WarmAssumption DEF Init, DeckTypeOK
  <1>3. Paced /\ Spaced
    BY WarmAssumption DEF Init, Paced, Spaced
  <1>4. Claimed /\ OneEnqueuer
    BY <1>1 DEF Claimed, OneEnqueuer
  <1> QED BY <1>2, <1>2a, <1>3, <1>4 DEF IInv

\* A deck that is being enqueued is on cooldown: the loop is shorter than that.
LEMMA EnqueuingIsCooling ==
    ASSUME IInv, NEW r \in DOMAIN triggers, triggers[r].at = "enqueuing"
    PROVE  cool[triggers[r].deck] > 0
  BY WarmAssumption DEF IInv, DeckTypeOK, Claimed

\* What Enter and Leave do to the other triggers.
LEMMA Entering ==
    ASSUME NEW r, NEW t, Enter(r, t)
    PROVE  /\ DOMAIN triggers' = DOMAIN triggers \cup {r}
           /\ \A q \in DOMAIN triggers' : triggers'[q] = IF q = r THEN t ELSE triggers[q]
  BY DEF Enter
LEMMA Leaving ==
    ASSUME NEW r, Leave(r)
    PROVE  /\ DOMAIN triggers' = DOMAIN triggers \ {r}
           /\ \A q \in DOMAIN triggers' : triggers'[q] = triggers[q]
  BY DEF Leave

LEMMA ClaimIInv ==
    ASSUME IInv, NEW r \in Requests, Claim(r)
    PROVE  IInv'
  <1> DEFINE d == triggers[r].deck
             t == [deck |-> d, at |-> "enqueuing", left |-> DeckCards[d], age |-> 0]
  <1>1. /\ r \in DOMAIN triggers /\ d \in Decks /\ cool[d] = 0
        /\ cool' = [cool EXCEPT ![d] = RewarmAfter]
        /\ claimAge' = [claimAge EXCEPT ![d] = 0]
        /\ spacing' = [spacing EXCEPT ![d] = RewarmAfter]
        /\ UNCHANGED <<tickIn, workerVars, queue, stopped>>
    BY WarmAssumption DEF Claim, OnCooldown, IInv, DeckTypeOK
  <1>2. /\ DOMAIN triggers' = DOMAIN triggers \cup {r}
        /\ \A q \in DOMAIN triggers' : triggers'[q] = IF q = r THEN t ELSE triggers[q]
    BY Entering DEF Claim
  <1>3. t \in [deck : Decks, at : {"asked", "enqueuing"}, left : SUBSET Cards,
               age : 0..MaxStall]
    BY <1>1, WarmAssumption
  <1>4. t.deck = d /\ t.age = 0
    OBVIOUS
  <1>5. \A q \in DOMAIN triggers : triggers[q].at = "enqueuing" => triggers[q].deck # d
    BY <1>1, EnqueuingIsCooling
  <1> HIDE DEF d, t
  <1>6. WorkerTypeOK'
    BY <1>1 DEF IInv, WorkerTypeOK, workerVars
  <1>6a. DeckTypeOK'
    BY <1>1, <1>2, <1>3, WarmAssumption DEF IInv, DeckTypeOK
  <1>7. Paced'
    BY <1>1 DEF IInv, Paced, workerVars
  <1>8. Claimed'
    BY <1>1, <1>2, <1>4, <1>5, WarmAssumption DEF IInv, DeckTypeOK, Claimed
  <1>9. Spaced'
    BY <1>1, WarmAssumption DEF IInv, DeckTypeOK, Spaced
  <1>10. OneEnqueuer'
    BY <1>2, <1>4, <1>5 DEF IInv, OneEnqueuer
  <1> QED BY <1>6, <1>6a, <1>7, <1>8, <1>9, <1>10 DEF IInv

LEMMA DropIInv ==
    ASSUME IInv, NEW r \in Requests, Drop(r)
    PROVE  IInv'
  <1> DEFINE d == triggers[r].deck
  <1>1. /\ r \in DOMAIN triggers /\ triggers[r].at = "enqueuing" /\ d \in Decks
        /\ cool' = [cool EXCEPT ![d] = DropRetryAfter]
        /\ spacing' = [spacing EXCEPT ![d] = DropRetryAfter]
        /\ UNCHANGED <<tickIn, workerVars, queue, stopped, claimAge>>
    BY DEF Drop, IInv, DeckTypeOK
  <1>2. /\ DOMAIN triggers' = DOMAIN triggers \ {r}
        /\ \A q \in DOMAIN triggers' : triggers'[q] = triggers[q]
    BY Leaving DEF Drop
  <1>3. \A q \in DOMAIN triggers : q # r /\ triggers[q].at = "enqueuing"
                                    => triggers[q].deck # d
    BY <1>1 DEF IInv, OneEnqueuer
  <1> HIDE DEF d
  <1>4. WorkerTypeOK'
    BY <1>1 DEF IInv, WorkerTypeOK, workerVars
  <1>4a. DeckTypeOK'
    BY <1>1, <1>2, WarmAssumption DEF IInv, DeckTypeOK
  <1>5. Paced'
    BY <1>1 DEF IInv, Paced, workerVars
  <1>6. Claimed'
    BY <1>1, <1>2, <1>3 DEF IInv, DeckTypeOK, Claimed
  <1>7. Spaced'
    BY <1>1, WarmAssumption DEF IInv, DeckTypeOK, Spaced
  <1>8. OneEnqueuer'
    BY <1>2 DEF IInv, OneEnqueuer
  <1> QED BY <1>4, <1>4a, <1>5, <1>6, <1>7, <1>8 DEF IInv

\* The other steps of a request move its trigger on and leave the decks alone.
LEMMA RequestIInv ==
    ASSUME IInv, NEW r \in Requests,
           \/ \E d \in Decks : ShouldWarm(r, d)
           \/ Return(r)
           \/ \E c \in Cards : Enqueue(r, c)
    PROVE  IInv'
  <1>1. UNCHANGED <<tickIn, workerVars, stopped, deckVars>>
    BY DEF ShouldWarm, Return, Enqueue
  <1>2. Paced' /\ Spaced'
    BY <1>1 DEF IInv, Paced, Spaced, workerVars, deckVars
  <1>3. ASSUME NEW d \in Decks, ShouldWarm(r, d) PROVE IInv'
    <2> DEFINE t == [deck |-> d, at |-> "asked", left |-> {}, age |-> 0]
    <2>1. /\ DOMAIN triggers' = DOMAIN triggers \cup {r}
          /\ \A q \in DOMAIN triggers' : triggers'[q] = IF q = r THEN t ELSE triggers[q]
          /\ UNCHANGED queue
      BY <1>3, Entering DEF ShouldWarm
    <2>2. t \in [deck : Decks, at : {"asked", "enqueuing"}, left : SUBSET Cards,
                 age : 0..MaxStall] /\ t.at = "asked"
      BY WarmAssumption
    <2> HIDE DEF t
    <2>3. WorkerTypeOK' /\ DeckTypeOK'
      BY <1>1, <2>1, <2>2 DEF IInv, WorkerTypeOK, DeckTypeOK, workerVars, deckVars
    <2>4. Claimed' /\ OneEnqueuer'
      BY <1>1, <2>1, <2>2 DEF IInv, Claimed, OneEnqueuer, deckVars
    <2> QED BY <1>2, <2>3, <2>4 DEF IInv
  <1>4. CASE Return(r)
    <2>1. /\ DOMAIN triggers' = DOMAIN triggers \ {r}
          /\ \A q \in DOMAIN triggers' : triggers'[q] = triggers[q]
          /\ UNCHANGED queue
      BY <1>4, Leaving DEF Return
    <2>2. WorkerTypeOK' /\ DeckTypeOK'
      BY <1>1, <2>1 DEF IInv, WorkerTypeOK, DeckTypeOK, workerVars, deckVars
    <2>3. Claimed' /\ OneEnqueuer'
      BY <1>1, <2>1 DEF IInv, Claimed, OneEnqueuer, deckVars
    <2> QED BY <1>2, <2>2, <2>3 DEF IInv
  <1>5. ASSUME NEW c \in Cards, Enqueue(r, c) PROVE IInv'
    <2> DEFINE t == [triggers[r] EXCEPT !.left = @ \ {c}]
    <2>1. /\ r \in DOMAIN triggers /\ triggers[r].at = "enqueuing"
          /\ DOMAIN triggers' = DOMAIN triggers \cup {r}
          /\ \A q \in DOMAIN triggers' : triggers'[q] = IF q = r THEN t ELSE triggers[q]
          /\ Len(queue) < Capacity /\ queue' = Append(queue, c)
      BY <1>5, Entering DEF Enqueue
    <2>2. /\ t \in [deck : Decks, at : {"asked", "enqueuing"}, left : SUBSET Cards,
                    age : 0..MaxStall]
          /\ t.at = "enqueuing" /\ t.deck = triggers[r].deck /\ t.age = triggers[r].age
      BY <2>1 DEF IInv, DeckTypeOK
    <2> HIDE DEF t
    <2>3. queue' \in Seq(Cards) /\ Len(queue') <= Capacity
      BY <2>1, WarmAssumption DEF IInv, WorkerTypeOK
    <2>4. WorkerTypeOK'
      BY <1>1, <2>3 DEF IInv, WorkerTypeOK, workerVars
    <2>4a. DeckTypeOK'
      BY <1>1, <2>1, <2>2 DEF IInv, DeckTypeOK, deckVars
    <2>5. Claimed' /\ OneEnqueuer'
      BY <1>1, <2>1, <2>2 DEF IInv, Claimed, OneEnqueuer, deckVars
    <2> QED BY <1>2, <2>4, <2>4a, <2>5 DEF IInv
  <1> QED BY <1>3, <1>4, <1>5

\* The worker's steps: only StartJob moves the ages, and it consumes the tick.
LEMMA WorkerIInv ==
    ASSUME IInv, StartJob \/ IdleTick \/ EndJob \/ StopBranch \/ Stop
    PROVE  IInv'
  <1>1. UNCHANGED <<tickIn, deckVars, triggers>>
    BY DEF StartJob, IdleTick, EndJob, StopBranch, Stop, workerVars
  <1>2. DeckTypeOK' /\ Claimed' /\ Spaced' /\ OneEnqueuer'
    BY <1>1 DEF IInv, DeckTypeOK, deckVars, Claimed, Spaced, OneEnqueuer
  <1>3. CASE StartJob
    <2>1. queue \in Seq(Cards) /\ queue # <<>> /\ Len(queue) <= Capacity
      BY <1>3 DEF StartJob, IInv, WorkerTypeOK
    <2>2. Head(queue) \in Cards /\ Tail(queue) \in Seq(Cards)
          /\ Len(Tail(queue)) <= Capacity
      BY <2>1, WarmAssumption
    <2>3. WorkerTypeOK'
      <3>1. /\ job' \in Cards /\ queue' \in Seq(Cards) /\ Len(queue') <= Capacity
            /\ worker' = "resolving" /\ jobLeft' = JobTime
            /\ age1' = 0 /\ age2' = age1
        BY <1>3, <2>2 DEF StartJob
      <3>2. tickBuf' \in BOOLEAN /\ stopped' \in BOOLEAN
        BY <1>3 DEF StartJob, IInv, WorkerTypeOK
      <3>3. JobTime \in 0..JobTime /\ 0 \in 0..Pacing
        BY WarmAssumption
      <3> QED BY <1>1, <3>1, <3>2, <3>3 DEF IInv, WorkerTypeOK
    <2>4. Paced'
      BY <1>3, WarmAssumption DEF StartJob, IInv, WorkerTypeOK, Paced
    <2> QED BY <1>2, <2>3, <2>4 DEF IInv
  <1>4. CASE IdleTick
    <2>1. WorkerTypeOK'
      BY <1>1, <1>4 DEF IdleTick, IInv, WorkerTypeOK
    <2>2. Paced'
      BY <1>4, WarmAssumption DEF IdleTick, IInv, WorkerTypeOK, Paced
    <2> QED BY <1>2, <2>1, <2>2 DEF IInv
  <1>5. CASE EndJob \/ StopBranch \/ Stop
    <2>1. WorkerTypeOK'
      <3>1. /\ job' \in Cards \cup {NoCard} /\ jobLeft' \in 0..JobTime
            /\ worker' \in {"select", "resolving", "returned"} /\ stopped' \in BOOLEAN
            /\ UNCHANGED <<tickBuf, age1, age2, queue>>
        <4>1. CASE EndJob
          BY <4>1, WarmAssumption DEF EndJob, IInv, WorkerTypeOK
        <4>2. CASE StopBranch
          BY <4>2 DEF StopBranch, IInv, WorkerTypeOK
        <4>3. CASE Stop
          BY <4>3 DEF Stop, IInv, WorkerTypeOK, workerVars
        <4> QED BY <1>5, <4>1, <4>2, <4>3
      <3> QED BY <1>1, <3>1 DEF IInv, WorkerTypeOK
    <2>2. Paced'
      BY <1>5 DEF EndJob, StopBranch, Stop, IInv, Paced, workerVars
    <2> QED BY <1>2, <2>1, <2>2 DEF IInv
  <1> QED BY <1>3, <1>4, <1>5

LEMMA TickIInv ==
    ASSUME IInv, Tick
    PROVE  IInv'
  <1>1. /\ DOMAIN triggers' = DOMAIN triggers
        /\ \A r \in DOMAIN triggers :
              /\ triggers'[r].deck = triggers[r].deck /\ triggers'[r].at = triggers[r].at
              /\ triggers[r].at = "enqueuing" => triggers'[r].age = triggers[r].age + 1
              /\ triggers'[r] \in [deck : Decks, at : {"asked", "enqueuing"},
                                   left : SUBSET Cards, age : 0..MaxStall]
    <2> SUFFICES ASSUME NEW r \in DOMAIN triggers
                 PROVE  /\ triggers'[r].deck = triggers[r].deck
                        /\ triggers'[r].at = triggers[r].at
                        /\ triggers[r].at = "enqueuing" =>
                              triggers'[r].age = triggers[r].age + 1
                        /\ triggers'[r] \in [deck : Decks, at : {"asked", "enqueuing"},
                                             left : SUBSET Cards, age : 0..MaxStall]
      BY DEF Tick
    <2>1. triggers[r] \in [deck : Decks, at : {"asked", "enqueuing"},
                           left : SUBSET Cards, age : 0..MaxStall]
      BY DEF IInv, DeckTypeOK
    <2>2. CASE triggers[r].at = "enqueuing"
      <3>1. triggers'[r] = [triggers[r] EXCEPT !.age = @ + 1] /\ triggers[r].age < MaxStall
        BY <2>2 DEF Tick
      <3> QED BY <2>1, <2>2, <3>1, WarmAssumption
    <2>3. CASE triggers[r].at # "enqueuing"
      <3>1. triggers'[r] = triggers[r]
        BY <2>3 DEF Tick
      <3> QED BY <2>1, <2>3, <3>1
    <2> QED BY <2>2, <2>3
  <1>2. /\ cool' \in [Decks -> 0..RewarmAfter]
        /\ claimAge' \in [Decks -> 0..RewarmAfter]
        /\ \A d \in Decks : /\ cool'[d] >= cool[d] - 1
                            /\ cool'[d] + claimAge'[d] >= RewarmAfter
                                 \/ cool'[d] + claimAge'[d] >= cool[d] + claimAge[d]
    <2>1. /\ cool' = [d \in Decks |-> Less(cool[d])]
          /\ claimAge' = [d \in Decks |-> Capped(claimAge[d], RewarmAfter)]
          /\ cool \in [Decks -> 0..RewarmAfter] /\ claimAge \in [Decks -> 0..RewarmAfter]
      BY DEF Tick, IInv, DeckTypeOK
    <2> QED BY <2>1, WarmAssumption DEF Less, Capped
  <1>3. WorkerTypeOK' /\ DeckTypeOK'
    <2>1. /\ tickIn' \in 1..Pacing /\ tickBuf' \in BOOLEAN
          /\ age1' \in 0..Pacing /\ age2' \in 0..Pacing /\ jobLeft' \in 0..JobTime
      <3>1. /\ tickIn \in 1..Pacing /\ age1 \in 0..Pacing /\ age2 \in 0..Pacing
            /\ jobLeft \in 0..JobTime
            /\ tickIn' = IF tickIn = 1 THEN Pacing ELSE tickIn - 1
            /\ jobLeft' = Less(jobLeft)
            /\ age1' = Capped(age1, Pacing) /\ age2' = Capped(age2, Pacing)
        BY DEF Tick, IInv, WorkerTypeOK
      <3>2. tickBuf' \in BOOLEAN
        BY DEF Tick
      <3> QED BY <3>1, <3>2, WarmAssumption DEF Less, Capped
    <2>2. UNCHANGED <<worker, job, queue, stopped, spacing>>
      BY DEF Tick
    <2> QED BY <1>1, <1>2, <2>1, <2>2 DEF IInv, WorkerTypeOK, DeckTypeOK
  <1>4. Paced'
    BY WarmAssumption DEF Tick, Capped, IInv, WorkerTypeOK, Paced
  <1>5. Claimed'
    BY <1>1, <1>2, WarmAssumption DEF IInv, DeckTypeOK, Claimed
  <1>6. Spaced'
    <2>1. UNCHANGED spacing
      BY DEF Tick
    <2> QED BY <1>2, <2>1, WarmAssumption DEF IInv, DeckTypeOK, Spaced
  <1>7. OneEnqueuer'
    BY <1>1 DEF IInv, OneEnqueuer
  <1> QED BY <1>3, <1>4, <1>5, <1>6, <1>7 DEF IInv

LEMMA StepIInv == IInv /\ [Next]_vars => IInv'
  <1> SUFFICES ASSUME IInv, [Next]_vars
               PROVE  IInv'
    OBVIOUS
  <1>1. CASE UNCHANGED vars
    BY <1>1 DEF vars, workerVars, deckVars, IInv, WorkerTypeOK, DeckTypeOK, Paced, Claimed, Spaced,
                OneEnqueuer
  <1>2. CASE Next
    BY <1>2, ClaimIInv, DropIInv, RequestIInv, WorkerIInv, TickIInv
       DEF Next, RequestStep
  <1> QED BY <1>1, <1>2

LEMMA InvariantIInv == Spec => []IInv
  BY InitIInv, StepIInv, PTL DEF Spec

-----------------------------------------------------------------------------
\* The warmer's state is well typed; in particular the queue never holds more
\* than its capacity and no cooldown exceeds RewarmAfter.
THEOREM TypeCorrect == Spec => []TypeOK
  <1>1. IInv => TypeOK
    BY DEF IInv, TypeOK
  <1> QED BY <1>1, InvariantIInv, PTL

\* At most one request at a time enqueues a given deck (cachewarm.go:115-123).
THEOREM EnqueueIsExclusive == Spec => []OneEnqueuer
  <1>1. IInv => OneEnqueuer
    BY DEF IInv
  <1> QED BY <1>1, InvariantIInv, PTL

\* Three consecutive jobs never start within one pacing period, for jobs and
\* scheduling delays of any length (cachewarm.go:153-169).
THEOREM PacingBound == Spec => AtMostTwoPerPeriod
  <1>1. ASSUME IInv, [Next]_vars
        PROVE  [Starts => age2 >= Pacing]_vars
    <2> SUFFICES ASSUME Next, Starts
                 PROVE  age2 >= Pacing
      BY <1>1
    <2>1. StartJob
      BY DEF Starts, Next, RequestStep, ShouldWarm, Claim, Return, Enqueue, Drop,
             IdleTick, EndJob, StopBranch, Stop, Tick, workerVars
    <2> QED BY <1>1, <2>1 DEF StartJob, IInv, Paced
  <1> QED BY <1>1, InvariantIInv, PTL DEF Spec, AtMostTwoPerPeriod

\* A deck is claimed at most once per RewarmAfter, or per DropRetryAfter after a
\* loop that was cut short (cachewarm.go:110-146).
THEOREM ClaimsAreSpaced == Spec => ClaimsSpaced
  <1> DEFINE P == \A r \in Requests, d \in Decks : Claims(r, d) =>
                    claimAge[d] >= spacing[d]
  <1>1. ASSUME IInv, [Next]_vars
        PROVE  [P]_vars
    <2> SUFFICES ASSUME Next, NEW r \in Requests, NEW d \in Decks, Claims(r, d)
                 PROVE  claimAge[d] >= spacing[d]
      BY <1>1
    <2>1. Claim(r)
      <3>1. /\ r \in DOMAIN triggers /\ r \in DOMAIN triggers'
            /\ triggers[r].at = "asked" /\ triggers'[r].at = "enqueuing"
        BY DEF Claims
      <3>2. ASSUME NEW q \in Requests, NEW e \in Decks, ShouldWarm(q, e) PROVE FALSE
        BY <3>1, <3>2 DEF ShouldWarm, Enter
      <3>3. ASSUME NEW q \in Requests, Claim(q), q # r PROVE FALSE
        BY <3>1, <3>3 DEF Claim, Enter
      <3>4. ASSUME NEW q \in Requests, Return(q) \/ Drop(q) PROVE FALSE
        BY <3>1, <3>4 DEF Return, Drop, Leave
      <3>5. ASSUME NEW q \in Requests, NEW c \in Cards, Enqueue(q, c) PROVE FALSE
        BY <3>1, <3>5 DEF Enqueue, Enter
      <3>6. ~(StartJob \/ IdleTick \/ EndJob \/ StopBranch \/ Stop)
        BY <3>1 DEF StartJob, IdleTick, EndJob, StopBranch, Stop
      <3>7. ~Tick
        BY <3>1 DEF Tick
      <3> QED BY <3>2, <3>3, <3>4, <3>5, <3>6, <3>7 DEF Next, RequestStep
    <2>2. cool[d] = 0
      BY <1>1, <2>1 DEF Claim, Claims, OnCooldown, IInv, DeckTypeOK
    <2> QED BY <1>1, <2>2, WarmAssumption DEF IInv, DeckTypeOK, Spaced
  <1> QED BY <1>1, InvariantIInv, PTL DEF Spec, ClaimsSpaced
=============================================================================
