---------------------------- MODULE ServerProofs ----------------------------
(***************************************************************************)
(* For any number of requests and cards, any pool sizes and any timeouts:  *)
(* an answer is encoded only when no lookup of its request is left, the    *)
(* process does not end under a request before the drain's time is over,   *)
(* it ends in time, and the lookups of a request take at most one timeout  *)
(* for each batch of as many cards as the pool has slots.                  *)
(***************************************************************************)
EXTENDS Server, FiniteSetTheorems, TLAPS

\* The goroutines that wg.Wait waits for.
Live(h) == {i \in CardsOf(h) : worker[h][i] \in {"lookup", "unwinding", "released"}}

\* The WaitGroup counts them, a card the loop has not reached has none, and past
\* the join there is none.
PoolOK(h) ==
    /\ wg[h] = Cardinality(Live(h))
    /\ \A i \in CardsOf(h) : i >= next[h] => worker[h][i] = "none"
    /\ pc[h] \in {"new", "fetch"} => next[h] = 1 /\ card[h] = sent[h]
    /\ pc[h] \in {"encode", "storing", "answered"} => Live(h) = {}
    /\ pc[h] \in {"storing", "answered"} => card[h] = sent[h]

\* What main has left of its time, and what it knows of the requests.
MainOK ==
    /\ main = "serving" => since = -1
    /\ main = "draining" => since >= 0 /\ since + mainLeft = DrainTime
    /\ main = "closing" => since >= 0 /\ since + mainLeft <= DrainTime + PostTime
    /\ main \in {"closing", "exited"} /\ since >= 0 =>
         (Quiet \/ since >= DrainTime) /\ (~failed => Quiet)

IInv == TypeOK /\ (\A h \in Handlers : PoolOK(h)) /\ MainOK

-----------------------------------------------------------------------------
\* The types of one request.
LEMMA RequestTypes ==
    ASSUME TypeOK, NEW h \in Handlers
    PROVE  /\ Cards[h] \in Nat /\ next[h] \in 1..(Cards[h] + 1)
           /\ pc[h] \in {"new", "fetch", "spawn", "wait", "encode", "storing", "answered"}
           /\ worker[h] \in [CardsOf(h) -> {"none", "lookup", "unwinding", "released", "gone"}]
  BY ServerAssumption DEF TypeOK

\* Where nothing is live, every worker is gone or was never there.
LEMMA NotLive ==
    ASSUME TypeOK, NEW h \in Handlers, Live(h) = {}
    PROVE  \A i \in CardsOf(h) : worker[h][i] \in {"none", "gone"}
  BY RequestTypes DEF Live

\* A card the loop has not reached is not live.
LEMMA BehindNext ==
    ASSUME TypeOK, NEW h \in Handlers, PoolOK(h)
    PROVE  /\ \A i \in Live(h) : i < next[h]
           /\ next[h] = 1 => Live(h) = {}
  <1>1. Cards[h] \in Nat /\ next[h] \in 1..(Cards[h] + 1)
    BY RequestTypes
  <1>2. \A i \in CardsOf(h) : i \in Int /\ i >= 1
    BY <1>1 DEF CardsOf
  <1>3. \A i \in Live(h) : i \in CardsOf(h) /\ ~(i >= next[h])
    BY DEF PoolOK, Live
  <1> QED BY <1>1, <1>2, <1>3

LEMMA LiveFinite ==
    ASSUME NEW h \in Handlers
    PROVE  IsFiniteSet(Live(h))
  <1>1. IsFiniteSet(CardsOf(h))
    BY FS_Interval, ServerAssumption DEF CardsOf
  <1> QED BY <1>1, FS_Subset DEF Live

\* Nothing is left to wait for exactly when nothing is counted.
LEMMA NoneLive ==
    ASSUME NEW h \in Handlers, PoolOK(h), wg[h] = 0
    PROVE  Live(h) = {}
  BY LiveFinite, FS_EmptySet DEF PoolOK

LEMMA InitIInv == Init => IInv
  <1> SUFFICES ASSUME Init PROVE IInv
    OBVIOUS
  <1>1. TypeOK
    <2>1. main = "serving" /\ mainLeft \in Nat /\ failed \in BOOLEAN /\ since \in Nat \cup {-1}
      BY DEF Init
    <2>2. ASSUME NEW h \in Handlers
          PROVE  /\ next[h] \in 1..(Cards[h] + 1)
                 /\ worker[h] \in [CardsOf(h) -> {"none", "lookup", "unwinding", "released", "gone"}]
                 /\ left[h] \in [CardsOf(h) -> Nat]
                 /\ card[h] \in [CardsOf(h) -> {"asis", "enriched"}]
                 /\ sent[h] \in [CardsOf(h) -> {"asis", "enriched"}]
      BY ServerAssumption DEF Init
    <2> QED BY <2>1, <2>2 DEF Init, TypeOK
  <1>2. ASSUME NEW h \in Handlers PROVE PoolOK(h)
    <2>1. Live(h) = {}
      BY DEF Init, Live
    <2>2. Cardinality(Live(h)) = 0
      BY <2>1, FS_EmptySet
    <2> QED BY <2>1, <2>2 DEF Init, PoolOK
  <1>3. MainOK
    BY DEF Init, MainOK
  <1> QED BY <1>1, <1>2, <1>3 DEF IInv

-----------------------------------------------------------------------------
(* The handlers *)

\* A request whose state a step leaves alone.
LEMMA OtherKept ==
    ASSUME NEW k \in Handlers, PoolOK(k),
           pc'[k] = pc[k], next'[k] = next[k], worker'[k] = worker[k],
           wg'[k] = wg[k], card'[k] = card[k], sent'[k] = sent[k]
    PROVE  PoolOK(k)'
  BY DEF PoolOK, Live

\* The steps of the handler itself that start no goroutine.
LEMMA HandlerMoves ==
    ASSUME IInv, NEW h \in Handlers,
           Accept(h) \/ FetchReturns(h) \/ SpawnedAll(h) \/ Joined(h) \/ Encode(h) \/ Reply(h)
    PROVE  TypeOK' /\ \A k \in Handlers : PoolOK(k)'
  <1>1. /\ UNCHANGED <<next, worker, left, sem, wg, card, elapsed, mainVars>>
        /\ \A k \in Handlers \ {h} : pc'[k] = pc[k] /\ sent'[k] = sent[k]
        /\ pc' \in [Handlers -> {"new", "fetch", "spawn", "wait", "encode", "storing", "answered"}]
    BY DEF Accept, FetchReturns, SpawnedAll, Joined, Encode, Reply, poolVars, IInv, TypeOK
  <1>2. DOMAIN sent' = Handlers /\ sent'[h] = IF pc[h] = "encode" THEN card[h] ELSE sent[h]
    <2>1. DOMAIN sent = Handlers
      BY DEF IInv, TypeOK
    <2> QED BY <2>1 DEF Accept, FetchReturns, SpawnedAll, Joined, Encode, Reply
  <1>3. TypeOK'
    BY <1>1, <1>2 DEF IInv, TypeOK, mainVars
  <1>4. PoolOK(h)'
    <2>1. Live(h)' = Live(h)
      BY <1>1 DEF Live
    <2>2. PoolOK(h)
      BY DEF IInv
    <2>3. \/ pc[h] = "new" /\ pc'[h] \in {"fetch", "spawn", "answered"}
          \/ pc[h] = "fetch" /\ pc'[h] \in {"spawn", "answered"}
          \/ pc[h] = "spawn" /\ pc'[h] = "wait"
          \/ pc[h] = "wait" /\ wg[h] = 0 /\ pc'[h] = "encode"
          \/ pc[h] = "encode" /\ pc'[h] = "storing"
          \/ pc[h] = "storing" /\ pc'[h] = "answered"
      BY DEF Accept, FetchReturns, SpawnedAll, Joined, Encode, Reply, IInv, TypeOK
    <2>4. pc[h] \in {"new", "fetch"} => Live(h) = {}
      BY <2>2, BehindNext DEF PoolOK, IInv
    <2>5. wg[h] = 0 => Live(h) = {}
      BY <2>2, NoneLive
    <2> QED BY <1>1, <1>2, <2>1, <2>2, <2>3, <2>4, <2>5 DEF PoolOK
  <1>5. ASSUME NEW k \in Handlers \ {h} PROVE PoolOK(k)'
    BY <1>1, OtherKept DEF IInv
  <1> QED BY <1>3, <1>4, <1>5

\* A goroutine is started: one more live worker, one more in the WaitGroup.
LEMMA SpawnMoves ==
    ASSUME IInv, NEW h \in Handlers, Spawn(h)
    PROVE  TypeOK' /\ \A k \in Handlers : PoolOK(k)'
  <1> DEFINE n == next[h]
  <1>1. /\ n \in CardsOf(h) /\ Cards[h] \in Nat /\ pc[h] = "spawn"
        /\ UNCHANGED <<pc, card, sent, elapsed, mainVars>>
    BY RequestTypes DEF Spawn, IInv, CardsOf
  <1>2. /\ next' = [next EXCEPT ![h] = n + 1] /\ wg' = [wg EXCEPT ![h] = @ + 1]
        /\ sem' = [sem EXCEPT ![h] = @ + 1]
        /\ worker' = [worker EXCEPT ![h] = [@ EXCEPT ![n] = "lookup"]]
        /\ left' = [left EXCEPT ![h] = [@ EXCEPT ![n] = LookupTime(h)]]
    BY DEF Spawn
  <1>3. /\ DOMAIN worker = Handlers /\ next \in [Handlers -> Nat] /\ wg \in [Handlers -> Int]
        /\ worker[h] \in [CardsOf(h) -> {"none", "lookup", "unwinding", "released", "gone"}]
        /\ left[h] \in [CardsOf(h) -> Nat] /\ DOMAIN left = Handlers
    BY DEF IInv, TypeOK
  <1>4. /\ worker'[h] = [worker[h] EXCEPT ![n] = "lookup"]
        /\ left'[h] = [left[h] EXCEPT ![n] = LookupTime(h)]
        /\ next'[h] = n + 1 /\ wg'[h] = wg[h] + 1
        /\ \A k \in Handlers \ {h} : /\ worker'[k] = worker[k] /\ left'[k] = left[k]
                                     /\ next'[k] = next[k] /\ wg'[k] = wg[k]
    BY <1>2, <1>3
  <1>5. TypeOK'
    <2>1. /\ next' \in [Handlers -> Nat] /\ wg' \in [Handlers -> Int] /\ sem' \in [Handlers -> Int]
          /\ next'[h] \in 1..(Cards[h] + 1)
      BY <1>1, <1>2, <1>4 DEF IInv, TypeOK, CardsOf
    <2>2. worker'[h] \in [CardsOf(h) -> {"none", "lookup", "unwinding", "released", "gone"}]
      BY <1>3, <1>4
    <2>3. left'[h] \in [CardsOf(h) -> Nat]
      <3>1. LookupTime(h) \in Nat
        BY ServerAssumption DEF LookupTime
      <3> QED BY <1>3, <1>4, <3>1
    <2>5. DOMAIN worker' = Handlers /\ DOMAIN left' = Handlers
      BY <1>2, <1>3
    <2> QED BY <1>1, <1>4, <2>1, <2>2, <2>3, <2>5 DEF IInv, TypeOK, mainVars
  <1>6. PoolOK(h)'
    <2>1. worker[h][n] = "none" /\ n \notin Live(h)
      <3>1. PoolOK(h) /\ n \in Int
        BY <1>1 DEF IInv, CardsOf
      <3> QED BY <1>1, <3>1 DEF PoolOK, Live
    <2>2. Live(h)' = Live(h) \cup {n}
      BY <1>1, <1>3, <1>4 DEF Live
    <2>3. wg'[h] = Cardinality(Live(h)')
      <3>1. IsFiniteSet(Live(h)) /\ wg[h] = Cardinality(Live(h))
        BY LiveFinite DEF IInv, PoolOK
      <3>2. Cardinality(Live(h) \cup {n}) = Cardinality(Live(h)) + 1
        BY <2>1, <3>1, FS_AddElement
      <3> QED BY <1>4, <2>2, <3>1, <3>2
    <2>4. \A i \in CardsOf(h) : i >= next'[h] => worker'[h][i] = "none"
      BY <1>1, <1>3, <1>4 DEF IInv, PoolOK, CardsOf
    <2> QED BY <1>1, <2>3, <2>4 DEF PoolOK
  <1>7. ASSUME NEW k \in Handlers \ {h} PROVE PoolOK(k)'
    BY <1>1, <1>4, OtherKept DEF IInv
  <1> QED BY <1>5, <1>6, <1>7

\* A goroutine goes on to its next state, or is gone.
LEMMA WorkerMoves ==
    ASSUME IInv, NEW h \in Handlers, NEW i \in CardsOf(h),
           LookupEnds(h, i) \/ Release(h, i) \/ Done(h, i)
    PROVE  TypeOK' /\ \A k \in Handlers : PoolOK(k)'
  <1> DEFINE States == {"none", "lookup", "unwinding", "released", "gone"}
  <1>1. UNCHANGED <<pc, next, sent, elapsed, mainVars>>
    BY DEF LookupEnds, Release, Done
  <1>2. PICK s \in States : worker' = [worker EXCEPT ![h] = [@ EXCEPT ![i] = s]]
    BY DEF LookupEnds, Release, Done
  <1>3. DOMAIN worker = Handlers /\ worker[h] \in [CardsOf(h) -> States]
    BY DEF IInv, TypeOK
  <1>4. /\ worker'[h] = [worker[h] EXCEPT ![i] = s] /\ DOMAIN worker' = Handlers
        /\ \A k \in Handlers \ {h} : worker'[k] = worker[k]
    BY <1>2, <1>3
  <1>5. worker'[h] \in [CardsOf(h) -> States] /\ worker'[h][i] = s
    BY <1>3, <1>4
  <1>6. i \in Live(h)
    BY DEF LookupEnds, Release, Done, Live
  <1>7. /\ DOMAIN card' = Handlers /\ card'[h] \in [CardsOf(h) -> {"asis", "enriched"}]
        /\ \A k \in Handlers \ {h} : card'[k] = card[k]
    <2>1. CASE LookupEnds(h, i)
      <3>1. PICK c \in {"asis", "enriched"} : card' = [card EXCEPT ![h] = [@ EXCEPT ![i] = c]]
        BY <2>1 DEF LookupEnds
      <3> QED BY <3>1 DEF IInv, TypeOK
    <2>2. CASE Release(h, i) \/ Done(h, i)
      BY <2>2 DEF Release, Done, IInv, TypeOK
    <2> QED BY <2>1, <2>2
  <1>8. /\ DOMAIN left' = Handlers /\ left'[h] \in [CardsOf(h) -> Nat]
        /\ \A k \in Handlers \ {h} : left'[k] = left[k]
    <2>1. CASE LookupEnds(h, i)
      <3>1. left' = [left EXCEPT ![h] = [@ EXCEPT ![i] = 0]]
        BY <2>1 DEF LookupEnds
      <3> QED BY <3>1 DEF IInv, TypeOK
    <2>2. CASE Release(h, i) \/ Done(h, i)
      BY <2>2 DEF Release, Done, IInv, TypeOK
    <2> QED BY <2>1, <2>2
  <1>9. /\ sem' \in [Handlers -> Int] /\ wg' \in [Handlers -> Int]
        /\ \A k \in Handlers \ {h} : wg'[k] = wg[k]
    BY DEF LookupEnds, Release, Done, IInv, TypeOK
  <1>10. TypeOK'
    BY <1>1, <1>3, <1>4, <1>5, <1>7, <1>8, <1>9 DEF IInv, TypeOK, mainVars
  <1>11. wg'[h] = Cardinality(Live(h)')
    <2>1. wg[h] = Cardinality(Live(h)) /\ wg[h] \in Int
      BY DEF IInv, PoolOK, TypeOK
    <2>2. CASE Done(h, i)
      <3>1. worker' = [worker EXCEPT ![h] = [@ EXCEPT ![i] = "gone"]]
        BY <2>2 DEF Done
      <3>2. Live(h)' = Live(h) \ {i}
        BY <1>3, <3>1 DEF Live
      <3>3. wg'[h] = wg[h] - 1
        BY <2>2 DEF Done, IInv, TypeOK
      <3>4. Cardinality(Live(h) \ {i}) = Cardinality(Live(h)) - 1
        BY <1>6, LiveFinite, FS_RemoveElement
      <3> QED BY <2>1, <3>2, <3>3, <3>4
    <2>3. CASE LookupEnds(h, i) \/ Release(h, i)
      <3>1. PICK w \in {"unwinding", "released"} :
              worker' = [worker EXCEPT ![h] = [@ EXCEPT ![i] = w]]
        BY <2>3 DEF LookupEnds, Release
      <3>2. Live(h)' = Live(h)
        BY <1>3, <1>6, <3>1 DEF Live
      <3>3. wg' = wg
        BY <2>3 DEF LookupEnds, Release
      <3> QED BY <2>1, <3>2, <3>3
    <2> QED BY <2>2, <2>3
  <1>12. PoolOK(h)'
    <2>1. pc[h] \in {"spawn", "wait"}
      <3>1. PoolOK(h) /\ Live(h) # {}
        BY <1>6 DEF IInv
      <3>2. pc[h] \in {"new", "fetch"} => Live(h) = {}
        BY <3>1, BehindNext DEF PoolOK, IInv
      <3> QED BY <3>1, <3>2 DEF PoolOK, IInv, TypeOK
    <2>2. \A j \in CardsOf(h) : j >= next[h] => worker'[h][j] = "none"
      <3>1. i < next[h]
        BY <1>6, BehindNext DEF IInv
      <3> QED BY <1>3, <1>4, <3>1, ServerAssumption DEF IInv, PoolOK, TypeOK, CardsOf
    <2> QED BY <1>1, <1>11, <2>1, <2>2 DEF PoolOK
  <1>13. ASSUME NEW k \in Handlers \ {h} PROVE PoolOK(k)'
    BY <1>1, <1>4, <1>7, <1>9, OtherKept DEF IInv
  <1> QED BY <1>10, <1>12, <1>13

\* Once the signal is there no request is accepted, so a quiet server stays quiet.
LEMMA HandlerMain ==
    ASSUME IInv, NEW h \in Handlers, HandlerStep(h)
    PROVE  MainOK'
  <1>1. UNCHANGED <<main, mainLeft, failed, since>> /\ main # "exited"
    BY DEF HandlerStep, Accept, FetchReturns, Spawn, SpawnedAll, Joined, Encode, Reply,
           LookupEnds, Release, Done, mainVars, Running
  <1>2. CASE main # "closing"
    BY <1>1, <1>2 DEF MainOK, IInv
  <1>3. CASE main = "closing"
    <2>1. Quiet => Quiet'
      BY <1>3 DEF HandlerStep, Accept, FetchReturns, Spawn, SpawnedAll, Joined, Encode, Reply,
                  LookupEnds, Release, Done, Quiet, IInv, TypeOK
    <2> QED BY <1>1, <1>3, <2>1 DEF MainOK, IInv
  <1> QED BY <1>2, <1>3

LEMMA HandlerStepIInv ==
    ASSUME IInv, NEW h \in Handlers, HandlerStep(h)
    PROVE  IInv'
  BY HandlerMoves, SpawnMoves, WorkerMoves, HandlerMain DEF HandlerStep, IInv

-----------------------------------------------------------------------------
(* main, and time *)

LEMMA MainStepIInv ==
    ASSUME IInv, Signal \/ Drained \/ Exit \/ ListenFails
    PROVE  IInv'
  <1>1. UNCHANGED <<pc, next, worker, left, sem, wg, card, sent, elapsed>>
    BY DEF Signal, Drained, Exit, ListenFails, poolVars
  <1>2. \A h \in Handlers : PoolOK(h)'
    BY <1>1, OtherKept DEF IInv
  <1>3. Quiet' = Quiet
    BY <1>1 DEF Quiet
  <1>4. TypeOK'
    <2>1. /\ main' \in {"serving", "draining", "closing", "exited"}
          /\ mainLeft' \in Nat /\ since' \in Nat \cup {-1}
      BY ServerAssumption DEF Signal, Drained, Exit, ListenFails, ShutdownTimeout, IInv, TypeOK
    <2>2. failed' \in BOOLEAN
      BY DEF Signal, Drained, Exit, ListenFails, IInv, TypeOK
    <2> QED BY <1>1, <2>1, <2>2 DEF IInv, TypeOK
  <1>5. mainLeft \in Nat /\ since \in Nat \cup {-1} /\ DrainTime \in Nat /\ PostTime \in Nat
    BY ServerAssumption DEF IInv, TypeOK
  <1>6. MainOK'
    <2>1. CASE Signal
      BY <1>5, <2>1 DEF Signal, ShutdownTimeout, MainOK
    <2>2. CASE Drained
      BY <1>3, <1>5, <2>2 DEF Drained, IInv, MainOK
    <2>3. CASE Exit
      BY <1>3, <1>5, <2>3 DEF Exit, IInv, MainOK
    <2>4. CASE ListenFails
      BY <2>4 DEF ListenFails, IInv, MainOK
    <2> QED BY <2>1, <2>2, <2>3, <2>4
  <1> QED BY <1>2, <1>4, <1>6 DEF IInv

LEMMA ElapseIInv ==
    ASSUME IInv, Elapse
    PROVE  IInv'
  <1>1. UNCHANGED <<pc, next, worker, sem, wg, card, sent, main, failed>>
    BY DEF Elapse
  <1>2. \A h \in Handlers : PoolOK(h)'
    BY <1>1, OtherKept DEF IInv
  <1>3. /\ mainLeft' = IF mainLeft > 0 THEN mainLeft - 1 ELSE 0
        /\ since' = IF since < 0 THEN since ELSE since + 1
        /\ main \in {"draining", "closing"} => mainLeft > 0
        /\ main # "exited"
    BY DEF Elapse, Running
  <1>4. MainOK'
    <2>1. Quiet' = Quiet
      BY <1>1 DEF Quiet
    <2> QED BY <1>1, <1>3, <2>1, ServerAssumption DEF IInv, TypeOK, MainOK
  <1>5. elapsed' \in [Handlers -> Nat]
    BY DEF Elapse, IInv, TypeOK
  <1>6. DOMAIN left' = Handlers /\ \A h \in Handlers : left'[h] \in [CardsOf(h) -> Nat]
    BY DEF Elapse, IInv, TypeOK
  <1>7. mainLeft' \in Nat /\ since' \in Nat \cup {-1}
    BY <1>3 DEF IInv, TypeOK
  <1>8. TypeOK'
    BY <1>1, <1>5, <1>6, <1>7 DEF IInv, TypeOK
  <1> QED BY <1>2, <1>4, <1>8 DEF IInv

-----------------------------------------------------------------------------
LEMMA NextIInv == IInv /\ [Next]_vars => IInv'
  <1>1. ASSUME IInv, UNCHANGED vars PROVE IInv'
    <2>1. TypeOK' /\ MainOK'
      BY <1>1 DEF vars, IInv, TypeOK, MainOK, Quiet
    <2>2. \A h \in Handlers : PoolOK(h)'
      BY <1>1, OtherKept DEF vars, IInv
    <2> QED BY <2>1, <2>2 DEF IInv
  <1> QED BY <1>1, HandlerStepIInv, MainStepIInv, ElapseIInv DEF Next

LEMMA InvariantIInv == Spec => []IInv
  BY InitIInv, NextIInv, PTL DEF Spec

LEMMA PoolIsFinal == IInv => AnswerIsFinal
  <1> SUFFICES ASSUME IInv, NEW h \in Handlers, pc[h] \in {"storing", "answered"}
               PROVE  card[h] = sent[h] /\ \A i \in CardsOf(h) : worker[h][i] \in {"none", "gone"}
    BY DEF AnswerIsFinal
  <1>1. card[h] = sent[h] /\ Live(h) = {}
    BY DEF IInv, PoolOK
  <1> QED BY <1>1, NotLive DEF IInv

THEOREM TypeCorrect == Spec => []TypeOK
  <1>1. IInv => TypeOK
    BY DEF IInv
  <1> QED BY <1>1, InvariantIInv, PTL

\* What is stored or answered is what the request's lookups ended up with: none
\* is left, whatever failed, panicked or ran out of time (handler.go:87-132).
THEOREM AnswersAreFinal == Spec => []AnswerIsFinal
  <1> QED BY PoolIsFinal, InvariantIInv, PTL

\* The process outlives the requests it has accepted, or the drain's time, and
\* reports success only if nothing of them is left (main.go:827-846).
THEOREM NoRequestCutShort == Spec => []NoneCutShort
  <1>1. ASSUME IInv, NEW h \in Handlers, pc[h] \in {"new", "answered"}
        PROVE  \A i \in CardsOf(h) : worker[h][i] \in {"none", "gone"}
    <2>1. PoolOK(h) /\ TypeOK
      BY <1>1 DEF IInv
    <2>2. Live(h) = {}
      BY <1>1, <2>1, BehindNext DEF PoolOK
    <2> QED BY <2>1, <2>2, NotLive
  <1>2. IInv => NoneCutShort
    BY <1>1 DEF IInv, MainOK, NoneCutShort, Quiet
  <1> QED BY <1>2, InvariantIInv, PTL

\* A signal ends the process within the two timeouts (main.go:831, axiomlog.go).
THEOREM ExitIsTimely == Spec => []ExitsInTime
  <1>1. IInv => ExitsInTime
    BY ServerAssumption DEF IInv, TypeOK, MainOK, ExitsInTime
  <1> QED BY <1>1, InvariantIInv, PTL

-----------------------------------------------------------------------------
(* How long the pool takes *)

\* The goroutines that have a token in the semaphore.
Slots(h) == {i \in CardsOf(h) : worker[h][i] \in {"lookup", "unwinding"}}

\* A request's cards go out in batches of Limit; this is how long it takes until
\* the batch of card i is over, if every lookup takes all its time.
BatchOver(h, i) == LookupTime(h) * (((i - 1) \div Limit[h]) + 1)

\* No slot is lost; a lookup ends with its batch; the loop has not waited for more
\* than the batches before the card it is at.
TimeOK(h) ==
    /\ sem[h] = Cardinality(Slots(h))
    /\ \A i \in CardsOf(h) : worker[h][i] = "lookup" => elapsed[h] + left[h][i] <= BatchOver(h, i)
    /\ pc[h] \in {"new", "fetch", "spawn"} =>
         elapsed[h] <= LookupTime(h) * ((next[h] - 1) \div Limit[h])
    /\ elapsed[h] <= LookupTime(h) * ((Cards[h] + Limit[h] - 1) \div Limit[h])

LEMMA DivMonotone ==
    ASSUME NEW a \in Nat, NEW b \in Nat, NEW d \in Nat \ {0}, a <= b
    PROVE  a \div d \in Nat /\ b \div d \in Nat /\ a \div d <= b \div d
  OBVIOUS

LEMMA DivStep ==
    ASSUME NEW a \in Nat, NEW d \in Nat \ {0}
    PROVE  (a + d) \div d = (a \div d) + 1
  OBVIOUS

LEMMA TimesMonotone ==
    ASSUME NEW t \in Nat, NEW x \in Nat, NEW y \in Nat, x <= y
    PROVE  t * x \in Nat /\ t * y \in Nat /\ t * x <= t * y /\ t * (x + 1) = t * x + t
  OBVIOUS

\* Of d cards before the n-th, one is at least d before it.
LEMMA SomeEarly ==
    ASSUME NEW n \in Nat, NEW d \in Nat \ {0}, NEW S, S \subseteq 1..(n - 1),
           Cardinality(S) >= d
    PROVE  \E i \in S : i <= n - d
  <1> SUFFICES ASSUME \A i \in S : ~(i <= n - d) PROVE FALSE
    OBVIOUS
  <1>1. S \subseteq (n - d + 1)..(n - 1)
    OBVIOUS
  <1>2. /\ IsFiniteSet((n - d + 1)..(n - 1))
        /\ Cardinality((n - d + 1)..(n - 1)) = d - 1
    BY FS_Interval
  <1>3. Cardinality(S) <= d - 1
    BY <1>1, <1>2, FS_Subset
  <1>4. Cardinality(S) \in Nat
    BY <1>1, <1>2, FS_Subset, FS_CardinalityType
  <1> QED BY <1>3, <1>4

LEMMA SlotsFinite ==
    ASSUME NEW h \in Handlers
    PROVE  IsFiniteSet(Slots(h))
  <1>1. IsFiniteSet(CardsOf(h))
    BY FS_Interval, ServerAssumption DEF CardsOf
  <1> QED BY <1>1, FS_Subset DEF Slots

\* The numbers of one request.
LEMMA RequestNumbers ==
    ASSUME TypeOK, NEW h \in Handlers
    PROVE  /\ LookupTime(h) \in Nat /\ Limit[h] \in Nat \ {0} /\ Cards[h] \in Nat
           /\ next[h] \in Nat /\ next[h] - 1 \in Nat /\ next[h] <= Cards[h] + 1
           /\ elapsed[h] \in Nat /\ sem[h] \in Int
           /\ \A i \in CardsOf(h) : left[h][i] \in Nat /\ i \in Nat /\ i - 1 \in Nat /\ i <= Cards[h]
  <1>1. /\ LookupTime(h) \in Nat /\ Limit[h] \in Nat \ {0} /\ Cards[h] \in Nat
        /\ elapsed[h] \in Nat /\ sem[h] \in Int
    BY ServerAssumption DEF TypeOK, LookupTime
  <1>2. next[h] \in 1..(Cards[h] + 1) /\ left[h] \in [CardsOf(h) -> Nat]
    BY DEF TypeOK
  <1>3. \A i \in CardsOf(h) : left[h][i] \in Nat
    BY <1>2
  <1>4. \A i \in CardsOf(h) : i \in Nat /\ i - 1 \in Nat /\ i <= Cards[h]
    BY <1>1 DEF CardsOf
  <1> QED BY <1>1, <1>2, <1>3, <1>4

LEMMA InitTimeOK ==
    ASSUME Init, NEW h \in Handlers
    PROVE  TimeOK(h)
  <1>1. TypeOK
    BY InitIInv DEF IInv
  <1>2. Slots(h) = {} /\ sem[h] = 0 /\ next[h] = 1 /\ elapsed[h] = 0
    BY DEF Init, Slots
  <1>3. \A i \in CardsOf(h) : worker[h][i] = "none"
    BY DEF Init
  <1>4. LookupTime(h) * ((1 - 1) \div Limit[h]) \in Nat
    BY <1>1, RequestNumbers, DivMonotone, TimesMonotone
  <1>5. LookupTime(h) * ((Cards[h] + Limit[h] - 1) \div Limit[h]) \in Nat
    <2>1. Cards[h] + Limit[h] - 1 \in Nat
      BY <1>1, RequestNumbers
    <2> QED BY <1>1, <2>1, RequestNumbers, DivMonotone, TimesMonotone
  <1> QED BY <1>2, <1>3, <1>4, <1>5, FS_EmptySet DEF TimeOK

LEMMA OtherInTime ==
    ASSUME NEW k \in Handlers, TimeOK(k),
           pc'[k] = pc[k] \/ pc'[k] \notin {"new", "fetch", "spawn"}
             \/ pc[k] \in {"new", "fetch", "spawn"},
           next'[k] = next[k], worker'[k] = worker[k], left'[k] = left[k],
           sem'[k] = sem[k], elapsed'[k] = elapsed[k]
    PROVE  TimeOK(k)'
  BY DEF TimeOK, Slots, BatchOver

\* A goroutine is started: its lookup has its whole time, and its batch has it too.
LEMMA SpawnInTime ==
    ASSUME IInv, NEW h \in Handlers, TimeOK(h), Spawn(h)
    PROVE  TimeOK(h)'
  <1> DEFINE n == next[h]
             T == LookupTime(h)
             d == Limit[h]
  <1>1. /\ T \in Nat /\ d \in Nat \ {0} /\ Cards[h] \in Nat /\ n \in Nat /\ n - 1 \in Nat
        /\ elapsed[h] \in Nat /\ sem[h] \in Int /\ n <= Cards[h] /\ n \in CardsOf(h)
        /\ pc[h] = "spawn"
    BY RequestNumbers DEF IInv, Spawn, CardsOf
  <1>2. /\ worker'[h] = [worker[h] EXCEPT ![n] = "lookup"]
        /\ left'[h] = [left[h] EXCEPT ![n] = T]
        /\ next'[h] = n + 1 /\ sem'[h] = sem[h] + 1
        /\ pc' = pc /\ elapsed' = elapsed
    BY DEF Spawn, IInv, TypeOK
  <1>3. /\ worker[h] \in [CardsOf(h) -> {"none", "lookup", "unwinding", "released", "gone"}]
        /\ left[h] \in [CardsOf(h) -> Nat]
    BY DEF IInv, TypeOK
  <1>4. sem'[h] = Cardinality(Slots(h)')
    <2>1. worker[h][n] = "none"
      BY <1>1 DEF IInv, PoolOK
    <2>2. n \notin Slots(h) /\ Slots(h)' = Slots(h) \cup {n}
      BY <1>1, <1>2, <1>3, <2>1 DEF Slots
    <2>3. Cardinality(Slots(h) \cup {n}) = Cardinality(Slots(h)) + 1
      BY <2>2, SlotsFinite, FS_AddElement
    <2> QED BY <1>2, <2>2, <2>3 DEF TimeOK
  <1>5. elapsed[h] <= T * ((n - 1) \div d)
    BY <1>1 DEF TimeOK
  <1>6. /\ (n - 1) \div d \in Nat /\ n \div d \in Nat
        /\ T * ((n - 1) \div d) \in Nat /\ T * (n \div d) \in Nat
        /\ T * ((n - 1) \div d) <= T * (n \div d)
        /\ T * (((n - 1) \div d) + 1) = T * ((n - 1) \div d) + T
    BY <1>1, DivMonotone, TimesMonotone
  <1>7. \A i \in CardsOf(h) : worker'[h][i] = "lookup" => elapsed'[h] + left'[h][i] <= BatchOver(h, i)
    <2> TAKE i \in CardsOf(h)
    <2>1. CASE i = n
      BY <1>1, <1>2, <1>3, <1>5, <1>6, <2>1 DEF BatchOver
    <2>2. CASE i # n
      BY <1>2, <1>3, <2>2 DEF TimeOK
    <2> QED BY <2>1, <2>2
  <1>8. elapsed'[h] <= T * ((next'[h] - 1) \div d)
    <2>1. next'[h] - 1 = n
      BY <1>1, <1>2
    <2> QED BY <1>1, <1>2, <1>5, <1>6, <2>1
  <1> QED BY <1>2, <1>4, <1>7, <1>8 DEF TimeOK, BatchOver

\* A goroutine ends its lookup, gives its slot back, or is gone.
LEMMA WorkerInTime ==
    ASSUME IInv, NEW h \in Handlers, NEW i \in CardsOf(h), TimeOK(h),
           LookupEnds(h, i) \/ Release(h, i) \/ Done(h, i)
    PROVE  TimeOK(h)'
  <1>1. pc' = pc /\ next' = next /\ elapsed' = elapsed
    BY DEF LookupEnds, Release, Done
  <1>2. /\ DOMAIN worker = Handlers /\ DOMAIN left = Handlers /\ sem \in [Handlers -> Int]
        /\ worker[h] \in [CardsOf(h) -> {"none", "lookup", "unwinding", "released", "gone"}]
        /\ left[h] \in [CardsOf(h) -> Nat]
    BY DEF IInv, TypeOK
  <1>3. PICK w \in {"unwinding", "released", "gone"} :
          /\ worker'[h] = [worker[h] EXCEPT ![i] = w]
          /\ w = "unwinding" <=> worker[h][i] = "lookup"
          /\ w = "released" <=> worker[h][i] = "unwinding"
          /\ sem'[h] = IF w = "released" THEN sem[h] - 1 ELSE sem[h]
    BY <1>2 DEF LookupEnds, Release, Done
  <1>4. \A j \in CardsOf(h) \ {i} : left'[h][j] = left[h][j]
    BY <1>2 DEF LookupEnds, Release, Done
  <1>5. \A j \in CardsOf(h) : worker'[h][j] = "lookup" =>
            worker[h][j] = "lookup" /\ left'[h][j] = left[h][j]
    BY <1>2, <1>3, <1>4
  <1>6. sem'[h] = Cardinality(Slots(h)')
    <2>1. CASE w = "released"
      <3>1. i \in Slots(h) /\ Slots(h)' = Slots(h) \ {i}
        BY <1>2, <1>3, <2>1 DEF Slots
      <3>2. Cardinality(Slots(h) \ {i}) = Cardinality(Slots(h)) - 1
        BY <3>1, SlotsFinite, FS_RemoveElement
      <3> QED BY <1>3, <2>1, <3>1, <3>2 DEF TimeOK
    <2>2. CASE w # "released"
      <3>1. Slots(h)' = Slots(h)
        <4>1. worker[h][i] \in {"lookup", "released"}
          BY <1>3, <2>2 DEF LookupEnds, Release, Done
        <4> QED BY <1>2, <1>3, <2>2, <4>1 DEF Slots
      <3> QED BY <1>3, <2>2, <3>1 DEF TimeOK
    <2> QED BY <2>1, <2>2
  <1> QED BY <1>1, <1>5, <1>6 DEF TimeOK, BatchOver

\* Time passes while the loop waits for a slot: Limit lookups are under way, the
\* oldest of them a batch before the card the loop is at.
LEMMA WaitingForSlot ==
    ASSUME IInv, NEW h \in Handlers, TimeOK(h), pc[h] = "spawn", ~Busy(h),
           \A i \in CardsOf(h) : worker[h][i] = "lookup" => left[h][i] > 0
    PROVE  elapsed[h] + 1 <= LookupTime(h) * ((next[h] - 1) \div Limit[h])
  <1> DEFINE n == next[h]
             T == LookupTime(h)
             d == Limit[h]
  <1>1. /\ T \in Nat /\ d \in Nat \ {0} /\ n \in Nat /\ n - 1 \in Nat
        /\ elapsed[h] \in Nat /\ sem[h] \in Int
    BY RequestNumbers DEF IInv
  <1>2. ~(sem[h] < d) /\ Slots(h) = {i \in CardsOf(h) : worker[h][i] = "lookup"}
    BY DEF Busy, Slots
  <1>3. Cardinality(Slots(h)) >= d
    BY <1>1, <1>2 DEF TimeOK
  <1>4. Slots(h) \subseteq 1..(n - 1)
    <2>1. Slots(h) \subseteq Live(h)
      BY DEF Slots, Live
    <2>2. \A i \in Live(h) : i < n
      BY BehindNext DEF IInv
    <2> QED BY <1>1, <2>1, <2>2, RequestNumbers DEF IInv, Slots, CardsOf
  <1>5. PICK i \in Slots(h) : i <= n - d
    BY <1>1, <1>3, <1>4, SomeEarly
  <1>6. i \in Nat /\ i - 1 \in Nat /\ left[h][i] \in Nat /\ i \in CardsOf(h)
    BY RequestNumbers DEF IInv, Slots
  <1>7. elapsed[h] + left[h][i] <= T * (((i - 1) \div d) + 1) /\ left[h][i] > 0
    BY <1>2, <1>6 DEF TimeOK, BatchOver
  <1>8. ((i - 1) \div d) + 1 = ((i - 1) + d) \div d
    BY <1>1, <1>6, DivStep
  <1>9. (i - 1) + d \in Nat /\ (i - 1) + d <= n - 1
    BY <1>1, <1>5, <1>6
  <1>10. /\ ((i - 1) + d) \div d \in Nat /\ (n - 1) \div d \in Nat
         /\ ((i - 1) + d) \div d <= (n - 1) \div d
    BY <1>1, <1>9, DivMonotone
  <1>11. /\ T * (((i - 1) + d) \div d) \in Nat /\ T * ((n - 1) \div d) \in Nat
         /\ T * (((i - 1) + d) \div d) <= T * ((n - 1) \div d)
    BY <1>1, <1>10, TimesMonotone
  <1> QED BY <1>1, <1>6, <1>7, <1>8, <1>11

\* Time passes while wg.Wait waits: some lookup is under way.
LEMMA WaitingForLast ==
    ASSUME IInv, NEW h \in Handlers, TimeOK(h), pc[h] = "wait", ~Busy(h),
           \A i \in CardsOf(h) : worker[h][i] = "lookup" => left[h][i] > 0
    PROVE  elapsed[h] + 1 <= LookupTime(h) * ((Cards[h] + Limit[h] - 1) \div Limit[h])
  <1> DEFINE T == LookupTime(h)
             d == Limit[h]
  <1>1. /\ T \in Nat /\ d \in Nat \ {0} /\ Cards[h] \in Nat /\ elapsed[h] \in Nat
    BY RequestNumbers DEF IInv
  <1>2. wg[h] # 0 /\ Live(h) = {i \in CardsOf(h) : worker[h][i] = "lookup"}
    BY DEF Busy, Live
  <1>3. Live(h) # {}
    BY <1>2, FS_EmptySet DEF IInv, PoolOK
  <1>4. PICK i \in CardsOf(h) : worker[h][i] = "lookup"
    BY <1>2, <1>3
  <1>5. i \in Nat /\ i - 1 \in Nat /\ left[h][i] \in Nat /\ i <= Cards[h]
    BY RequestNumbers DEF IInv
  <1>6. elapsed[h] + left[h][i] <= T * (((i - 1) \div d) + 1) /\ left[h][i] > 0
    BY <1>4 DEF TimeOK, BatchOver
  <1>7. ((i - 1) \div d) + 1 = ((i - 1) + d) \div d
    BY <1>1, <1>5, DivStep
  <1>8. /\ (i - 1) + d \in Nat /\ Cards[h] + d - 1 \in Nat
        /\ (i - 1) + d <= Cards[h] + d - 1
    BY <1>1, <1>5
  <1>9. /\ ((i - 1) + d) \div d \in Nat /\ (Cards[h] + d - 1) \div d \in Nat
        /\ ((i - 1) + d) \div d <= (Cards[h] + d - 1) \div d
    BY <1>1, <1>8, DivMonotone
  <1>10. /\ T * (((i - 1) + d) \div d) \in Nat /\ T * ((Cards[h] + d - 1) \div d) \in Nat
         /\ T * (((i - 1) + d) \div d) <= T * ((Cards[h] + d - 1) \div d)
    BY <1>1, <1>9, TimesMonotone
  <1> QED BY <1>1, <1>5, <1>6, <1>7, <1>10

LEMMA ElapseInTime ==
    ASSUME IInv, NEW h \in Handlers, TimeOK(h), Elapse
    PROVE  TimeOK(h)'
  <1> DEFINE T == LookupTime(h)
             d == Limit[h]
  <1>1. /\ pc' = pc /\ next' = next /\ worker' = worker /\ sem' = sem
        /\ elapsed'[h] = IF Enriching(h) THEN elapsed[h] + 1 ELSE elapsed[h]
        /\ \A i \in CardsOf(h) : left'[h][i] = IF left[h][i] > 0 THEN left[h][i] - 1 ELSE 0
        /\ ~Busy(h) /\ \A i \in CardsOf(h) : worker[h][i] = "lookup" => left[h][i] > 0
    BY DEF Elapse
  <1>2. /\ T \in Nat /\ d \in Nat \ {0} /\ Cards[h] \in Nat /\ elapsed[h] \in Nat
        /\ next[h] \in Nat /\ next[h] - 1 \in Nat /\ next[h] <= Cards[h] + 1
        /\ \A i \in CardsOf(h) : left[h][i] \in Nat
    BY RequestNumbers DEF IInv
  <1>3. \A i \in CardsOf(h) : worker'[h][i] = "lookup" => elapsed'[h] + left'[h][i] <= BatchOver(h, i)
    <2> SUFFICES ASSUME NEW i \in CardsOf(h), worker[h][i] = "lookup"
                 PROVE  elapsed'[h] + left'[h][i] <= BatchOver(h, i)
      BY <1>1
    <2>1. elapsed'[h] \in {elapsed[h], elapsed[h] + 1} /\ left'[h][i] = left[h][i] - 1
      BY <1>1
    <2>2. elapsed[h] + left[h][i] <= BatchOver(h, i)
      BY DEF TimeOK
    <2>3. BatchOver(h, i) \in Nat
      <3>1. i - 1 \in Nat
        BY RequestNumbers DEF IInv
      <3>2. (i - 1) \div d \in Nat /\ ((i - 1) \div d) + 1 \in Nat
        BY <1>2, <3>1, DivMonotone
      <3> QED BY <1>2, <3>2, TimesMonotone DEF BatchOver
    <2> QED BY <1>2, <2>1, <2>2, <2>3
  <1>4. sem'[h] = Cardinality(Slots(h)')
    BY <1>1 DEF TimeOK, Slots
  <1>5. CASE pc[h] = "spawn"
    <2>1. elapsed'[h] = elapsed[h] + 1 /\ elapsed'[h] <= T * ((next[h] - 1) \div d)
      BY <1>1, <1>5, WaitingForSlot DEF Enriching
    <2>2. T * ((next[h] - 1) \div d) <= T * ((Cards[h] + d - 1) \div d)
          /\ T * ((next[h] - 1) \div d) \in Nat /\ T * ((Cards[h] + d - 1) \div d) \in Nat
      <3>1. Cards[h] + d - 1 \in Nat /\ next[h] - 1 <= Cards[h] + d - 1
        BY <1>2
      <3>2. /\ (next[h] - 1) \div d \in Nat /\ (Cards[h] + d - 1) \div d \in Nat
            /\ (next[h] - 1) \div d <= (Cards[h] + d - 1) \div d
        BY <1>2, <3>1, DivMonotone
      <3> QED BY <1>2, <3>2, TimesMonotone
    <2>3. elapsed'[h] <= T * ((Cards[h] + d - 1) \div d)
      BY <1>2, <2>1, <2>2
    <2> QED BY <1>1, <1>3, <1>4, <2>1, <2>3 DEF TimeOK, BatchOver
  <1>6. CASE pc[h] = "wait"
    <2>1. elapsed'[h] <= T * ((Cards[h] + d - 1) \div d)
      BY <1>1, <1>6, WaitingForLast DEF Enriching
    <2> QED BY <1>1, <1>3, <1>4, <1>6, <2>1 DEF TimeOK, BatchOver
  <1>7. CASE pc[h] \notin {"spawn", "wait"}
    <2>1. elapsed'[h] = elapsed[h]
      BY <1>1, <1>7 DEF Enriching
    <2> QED BY <1>1, <1>3, <1>4, <2>1 DEF TimeOK, BatchOver
  <1> QED BY <1>5, <1>6, <1>7

LEMMA NextInTime ==
    ASSUME IInv, NEW k \in Handlers, TimeOK(k), [Next]_vars
    PROVE  TimeOK(k)'
  <1>1. CASE UNCHANGED vars
    BY <1>1, OtherInTime DEF vars
  <1>2. CASE Signal \/ Drained \/ Exit \/ ListenFails
    BY <1>2, OtherInTime DEF Signal, Drained, Exit, ListenFails, poolVars
  <1>3. CASE Elapse
    BY <1>3, ElapseInTime
  <1>4. ASSUME NEW h \in Handlers, HandlerStep(h) PROVE TimeOK(k)'
    <2>1. /\ DOMAIN worker = Handlers /\ DOMAIN left = Handlers
          /\ sem \in [Handlers -> Int] /\ next \in [Handlers -> Nat]
      BY DEF IInv, TypeOK
    <2>2. CASE \/ Accept(h) \/ FetchReturns(h) \/ SpawnedAll(h)
               \/ Joined(h) \/ Encode(h) \/ Reply(h)
      <3>1. next' = next /\ worker' = worker /\ left' = left /\ sem' = sem /\ elapsed' = elapsed
        BY <2>2 DEF Accept, FetchReturns, SpawnedAll, Joined, Encode, Reply, poolVars
      <3>2. \/ pc'[k] = pc[k] \/ pc'[k] \notin {"new", "fetch", "spawn"}
            \/ pc[k] \in {"new", "fetch", "spawn"}
        BY <2>2 DEF Accept, FetchReturns, SpawnedAll, Joined, Encode, Reply, IInv, TypeOK
      <3> QED BY <3>1, <3>2, OtherInTime
    <2>3. CASE Spawn(h) /\ k # h
      BY <2>1, <2>3, OtherInTime DEF Spawn
    <2>4. CASE Spawn(h) /\ k = h
      BY <2>4, SpawnInTime
    <2>5. ASSUME NEW i \in CardsOf(h), LookupEnds(h, i) \/ Release(h, i) \/ Done(h, i), k # h
          PROVE  TimeOK(k)'
      BY <2>1, <2>5, OtherInTime DEF LookupEnds, Release, Done
    <2>6. ASSUME NEW i \in CardsOf(h), LookupEnds(h, i) \/ Release(h, i) \/ Done(h, i), k = h
          PROVE  TimeOK(k)'
      BY <2>6, WorkerInTime
    <2> QED BY <1>4, <2>2, <2>3, <2>4, <2>5, <2>6 DEF HandlerStep
  <1> QED BY <1>1, <1>2, <1>3, <1>4 DEF Next

\* The enrichment of a request takes the time of one lookup, its context's and the
\* cache's timeouts, for every Limit cards at most, in whatever order the lookups
\* end, fail or panic: the semaphore is a work conserving queue that never loses a
\* slot (handler.go:91-111, playlist.go:89-135).
THEOREM EnrichmentIsBounded == Spec => []InTime
  <1> DEFINE AllInTime == \A h \in Handlers : TimeOK(h)
  <1>1. Init => AllInTime
    BY InitTimeOK
  <1>2. IInv /\ AllInTime /\ [Next]_vars => AllInTime'
    BY NextInTime
  <1>3. AllInTime => InTime
    BY DEF TimeOK, InTime
  <1> HIDE DEF AllInTime
  <1> QED BY <1>1, <1>2, <1>3, InvariantIInv, PTL DEF Spec
=============================================================================
