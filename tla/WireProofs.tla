----------------------------- MODULE WireProofs -----------------------------
(***************************************************************************)
(* The two components that speak to a service over a wire and cannot       *)
(* know what arrived. Log shipping, for any number of lines and any size   *)
(* of batches and buffer: no line is lost or posted twice by flushes       *)
(* that run side by side, the buffer stays bounded, and Close leaves       *)
(* nothing behind but the batch the loop has on the wire. The resolve      *)
(* cache, for any keys, values, calls and connections: connections are     *)
(* pooled only when nothing is outstanding on them, and the cache          *)
(* implements CacheContract.                                               *)
(***************************************************************************)
EXTENDS AxiomLog, ResolveCache, FiniteSetTheorems, TLAPS

-----------------------------------------------------------------------------
(* Log shipping *)

\* Every line is somewhere, and no two places share one.
Partition ==
    /\ Lines \subseteq batch \cup inLoop \cup inMain \cup delivered \cup failed \cup dropped
    /\ batch \cap inLoop = {} /\ batch \cap inMain = {} /\ batch \cap delivered = {}
    /\ batch \cap failed = {} /\ batch \cap dropped = {}
    /\ inLoop \cap inMain = {} /\ inLoop \cap delivered = {}
    /\ inLoop \cap failed = {} /\ inLoop \cap dropped = {}
    /\ inMain \cap delivered = {} /\ inMain \cap failed = {} /\ inMain \cap dropped = {}
    /\ delivered \cap failed = {} /\ delivered \cap dropped = {} /\ failed \cap dropped = {}

\* A flush holds lines only while it posts, and the one of Close leaves none in
\* the buffer that was logged before it.
Flushing ==
    /\ loop # "posting" => inLoop = {}
    /\ main # "posting" => inMain = {}
    /\ main \in {"posting", "closed", "exited"} => before \cap batch = {}

IInv == TypeOK /\ IsFiniteSet(batch) /\ Partition /\ Flushing

LEMMA PartitionIsOnce == TypeOK /\ Partition => EveryLineOnce
  <1> SUFFICES ASSUME TypeOK, Partition, NEW n \in Lines
               PROVE  \E i \in DOMAIN Places :
                         n \in Places[i] /\ \A j \in DOMAIN Places \ {i} : n \notin Places[j]
    BY DEF EveryLineOnce, TypeOK
  <1>1. DOMAIN Places = 1..6
    BY DEF Places
  <1>2. /\ Places[1] = batch /\ Places[2] = inLoop /\ Places[3] = inMain
        /\ Places[4] = delivered /\ Places[5] = failed /\ Places[6] = dropped
    BY DEF Places
  <1>3. PICK i \in 1..6 : n \in Places[i]
    BY <1>2 DEF Partition
  <1>4. \A j \in (1..6) \ {i} : n \notin Places[j]
    BY <1>2, <1>3 DEF Partition
  <1> QED BY <1>1, <1>3, <1>4

LEMMA InitIInv == Init => IInv
  <1> SUFFICES ASSUME Init PROVE IInv
    OBVIOUS
  <1>1. IsFiniteSet(batch) /\ Cardinality(batch) = 0
    BY FS_EmptySet DEF Init
  <1>2. Lines = {}
    BY DEF Init, Lines
  <1>3. TypeOK
    <2>1. logged \in 0..MaxLines /\ Cardinality(batch) <= MaxBuffer
      BY <1>1, AxiomAssumption DEF Init
    <2>2. kicking \in BOOLEAN /\ kick \in BOOLEAN /\ tick \in BOOLEAN
      BY DEF Init
    <2> QED BY <2>1, <2>2 DEF Init, TypeOK
  <1>4. Partition
    BY <1>2 DEF Init, Partition
  <1>5. Flushing
    BY DEF Init, Flushing
  <1> QED BY <1>1, <1>3, <1>4, <1>5 DEF IInv

-----------------------------------------------------------------------------
(* The writer *)

LEMMA WriteIInv ==
    ASSUME IInv, Write
    PROVE  IInv'
  <1> DEFINE n == logged + 1
  <1>1. /\ logged \in Nat /\ logged' = n /\ Lines' = Lines \cup {n} /\ n \notin Lines
        /\ logged' \in 0..MaxLines
    BY AxiomAssumption DEF Write, IInv, TypeOK, Lines
  <1>2. /\ UNCHANGED <<kick, tick, loopVars, mainVars, delivered, failed>>
        /\ kicking' \in BOOLEAN
    BY DEF Write
  <1>3. n \notin batch /\ n \notin before
    BY <1>1 DEF IInv, TypeOK
  <1>4. CASE Fits
    <2>1. batch' = batch \cup {n} /\ dropped' = dropped
      BY <1>1, <1>4 DEF Write
    <2>2. IsFiniteSet(batch') /\ Cardinality(batch') = Cardinality(batch) + 1
      BY <1>3, <2>1, FS_AddElement DEF IInv
    <2>3. Cardinality(batch') <= MaxBuffer
      BY <1>4, <2>2 DEF Fits
    <2>4. TypeOK'
      BY <1>1, <1>2, <2>1, <2>3 DEF IInv, TypeOK, loopVars, mainVars
    <2>5. Partition'
      BY <1>1, <1>2, <2>1 DEF IInv, TypeOK, Partition, loopVars, mainVars
    <2>6. Flushing'
      BY <1>2, <1>3, <2>1 DEF IInv, Flushing, loopVars, mainVars
    <2> QED BY <2>2, <2>4, <2>5, <2>6 DEF IInv
  <1>5. CASE ~Fits
    <2>1. batch' = batch /\ dropped' = dropped \cup {n}
      BY <1>1, <1>5 DEF Write
    <2>2. TypeOK'
      BY <1>1, <1>2, <2>1 DEF IInv, TypeOK, loopVars, mainVars
    <2>3. Partition'
      BY <1>1, <1>2, <2>1 DEF IInv, TypeOK, Partition, loopVars, mainVars
    <2>4. Flushing'
      BY <1>2, <2>1 DEF IInv, Flushing, loopVars, mainVars
    <2> QED BY <2>1, <2>2, <2>3, <2>4 DEF IInv
  <1> QED BY <1>4, <1>5

-----------------------------------------------------------------------------
(* The two flushes *)

\* What a step that writes no line and moves some between places must show.
LEMMA MovedIInv ==
    ASSUME IInv, UNCHANGED <<logged, dropped>>, kicking' \in BOOLEAN,
           kick' \in BOOLEAN, tick' \in BOOLEAN,
           loop' \in {"select", "flush", "posting", "returned"},
           main' \in {"serving", "closing", "posting", "closed", "exited"},
           batch' \in {batch, {}},
           inLoop' \subseteq Lines, inMain' \subseteq Lines, delivered' \subseteq Lines,
           failed' \subseteq Lines, before' \subseteq Lines,
           Partition', Flushing'
    PROVE  IInv'
  <1>1. IsFiniteSet(batch') /\ Cardinality(batch') <= MaxBuffer
    BY FS_EmptySet, AxiomAssumption DEF IInv, TypeOK
  <1>2. TypeOK'
    BY <1>1 DEF IInv, TypeOK, Lines
  <1> QED BY <1>1, <1>2 DEF IInv

LEMMA LoopTakeIInv ==
    ASSUME IInv, LoopTake
    PROVE  IInv'
  <1>1. inLoop = {} /\ inLoop' = batch /\ batch' = {}
    BY DEF LoopTake, Remaining, IInv, Flushing
  <1>2. UNCHANGED <<logged, kicking, kick, tick, main, inMain, before, delivered, failed, dropped>>
    BY DEF LoopTake, mainVars
  <1>3. Partition'
    BY <1>1, <1>2 DEF IInv, Partition, Lines
  <1>4. Flushing'
    BY <1>1, <1>2 DEF LoopTake, IInv, Flushing
  <1>5. loop' \in {"select", "posting"}
    BY DEF LoopTake
  <1> QED BY <1>1, <1>2, <1>3, <1>4, <1>5, MovedIInv DEF IInv, TypeOK

LEMMA LoopPostedIInv ==
    ASSUME IInv, LoopPosted
    PROVE  IInv'
  <1>1. /\ UNCHANGED <<batch, logged, kicking, dropped, kick, tick, main, inMain, before>>
        /\ loop' = "select" /\ inLoop' = {}
    BY DEF LoopPosted, writerVars, mainVars
  <1>2. \/ delivered' = delivered \cup inLoop /\ failed' = failed
        \/ failed' = failed \cup inLoop /\ delivered' = delivered
    BY DEF LoopPosted
  <1>3. Partition'
    BY <1>1, <1>2 DEF IInv, Partition, Lines
  <1>4. Flushing'
    BY <1>1 DEF IInv, Flushing
  <1> QED BY <1>1, <1>2, <1>3, <1>4, MovedIInv DEF IInv, TypeOK

LEMMA CloseTakeIInv ==
    ASSUME IInv, CloseTake
    PROVE  IInv'
  <1>1. inMain = {} /\ inMain' = batch /\ batch' = {}
    BY DEF CloseTake, Remaining, IInv, Flushing
  <1>2. UNCHANGED <<logged, kicking, dropped, kick, tick, loop, inLoop, before, delivered, failed>>
    BY DEF CloseTake, writerVars, loopVars
  <1>3. Partition'
    BY <1>1, <1>2 DEF IInv, Partition, Lines
  <1>4. main' \in {"closed", "posting"} /\ (main' # "posting" => batch = {})
    BY DEF CloseTake
  <1>5. Flushing'
    BY <1>1, <1>2, <1>4 DEF IInv, Flushing
  <1> QED BY <1>1, <1>2, <1>3, <1>4, <1>5, MovedIInv DEF IInv, TypeOK

LEMMA ClosePostedIInv ==
    ASSUME IInv, ClosePosted
    PROVE  IInv'
  <1>1. /\ UNCHANGED <<batch, logged, kicking, dropped, kick, tick, loop, inLoop, before>>
        /\ main = "posting" /\ main' = "closed" /\ inMain' = {}
    BY DEF ClosePosted, writerVars, loopVars
  <1>2. \/ delivered' = delivered \cup inMain /\ failed' = failed
        \/ failed' = failed \cup inMain /\ delivered' = delivered
    BY DEF ClosePosted
  <1>3. Partition'
    BY <1>1, <1>2 DEF IInv, Partition, Lines
  <1>4. Flushing'
    BY <1>1 DEF IInv, Flushing
  <1> QED BY <1>1, <1>2, <1>3, <1>4, MovedIInv DEF IInv, TypeOK

\* The steps that move no line.
LEMMA QuietStepIInv ==
    ASSUME IInv, Kick \/ TickerFires \/ LoopSelect \/ Close \/ Exit
    PROVE  IInv'
  <1>1. UNCHANGED <<logged, batch, dropped, inLoop, inMain, delivered, failed>>
    BY DEF Kick, TickerFires, LoopSelect, Close, Exit, writerVars, loopVars, mainVars
  <1>2. Partition'
    BY <1>1 DEF IInv, Partition, Lines
  <1>3. CASE Kick
    BY <1>1, <1>2, <1>3, MovedIInv DEF Kick, IInv, TypeOK, Flushing, loopVars, mainVars
  <1>4. CASE TickerFires
    BY <1>1, <1>2, <1>4, MovedIInv DEF TickerFires, IInv, TypeOK, Flushing, loopVars, mainVars
  <1>5. CASE LoopSelect
    BY <1>1, <1>2, <1>5, MovedIInv DEF LoopSelect, IInv, TypeOK, Flushing, mainVars
  <1>6. CASE Close
    BY <1>1, <1>2, <1>6, MovedIInv
       DEF Close, IInv, TypeOK, Flushing, writerVars, loopVars, Lines
  <1>7. CASE Exit
    BY <1>1, <1>2, <1>7, MovedIInv DEF Exit, IInv, TypeOK, Flushing, writerVars, loopVars
  <1> QED BY <1>3, <1>4, <1>5, <1>6, <1>7

-----------------------------------------------------------------------------
LEMMA NextIInv == IInv /\ [Next]_vars => IInv'
  <1>1. ASSUME IInv, UNCHANGED vars PROVE IInv'
    BY <1>1 DEF vars, IInv, TypeOK, Partition, Flushing, Lines
  <1> QED BY <1>1, WriteIInv, LoopTakeIInv, LoopPostedIInv, CloseTakeIInv,
             ClosePostedIInv, QuietStepIInv DEF Next

LEMMA InvariantIInv == Spec => []IInv
  BY InitIInv, NextIInv, PTL DEF Spec

\* Types, and the bound on the memory the log takes while Axiom is down.
THEOREM TypeCorrect == Spec => []TypeOK
  <1>1. IInv => TypeOK
    BY DEF IInv
  <1> QED BY <1>1, InvariantIInv, PTL

\* Each line is in the buffer, in one POST, delivered, failed or dropped, and in
\* one of them only; the buffer stays within its bound (axiomlog.go:75-82, 115-147).
THEOREM NoLineTwice == Spec => []EveryLineOnce
  <1>1. IInv => EveryLineOnce
    BY PartitionIsOnce DEF IInv
  <1> QED BY <1>1, InvariantIInv, PTL

\* What was logged before Close is posted or dropped when the process ends, but
\* for the batch the loop was posting (axiomlog.go:92-96).
THEOREM CloseFlushes == Spec => []CloseLeavesOnlyTheWire
  <1>1. IInv => CloseLeavesOnlyTheWire
    BY DEF IInv, TypeOK, Partition, Flushing, CloseLeavesOnlyTheWire, Running
  <1> QED BY <1>1, InvariantIInv, PTL

-----------------------------------------------------------------------------
(* The resolve cache: the inductive invariant *)

\* A connection on which nothing is outstanding, one that owes the answer to m,
\* and one on which an answer waits.
Idle == [sent |-> <<>>, replies |-> <<>>]
Owing(m) == [sent |-> <<m>>, replies |-> <<>>]
Answered(v) == [sent |-> <<>>, replies |-> <<v>>]

Using(r) == calls[r].at \in {"hello", "greeting", "command", "reply"}

\* What Valkey may answer to the command of r.
MayAnswer(r) == IF calls[r].op = "get" THEN written[calls[r].key] \cup {NoValue} ELSE {OK}

\* The pool's connections are open, idle and there once; every other open
\* connection is used by exactly one call.
OneOwner ==
    /\ Len(pool) <= PoolMax
    /\ \A m, n \in DOMAIN pool : pool[m] = pool[n] => m = n
    /\ \A n \in DOMAIN pool : pool[n] \in DOMAIN conns /\ conns[pool[n]] = Idle
    /\ \A r \in DOMAIN calls : Using(r) =>
          calls[r].conn \in DOMAIN conns /\ \A n \in DOMAIN pool : pool[n] # calls[r].conn
    /\ \A q, r \in DOMAIN calls : Using(q) /\ Using(r) /\ calls[q].conn = calls[r].conn => q = r
    /\ \A c \in DOMAIN conns :
          \/ \E n \in DOMAIN pool : pool[n] = c
          \/ \E r \in DOMAIN calls : Using(r) /\ calls[r].conn = c

\* What a call has asked on its connection is what it will read the answer to.
Synced(r) ==
    LET c == conns[calls[r].conn] IN
    /\ calls[r].at \in {"hello", "command"} => c = Idle
    /\ calls[r].at = "greeting" =>
          \/ \E m \in Commands : m.op = "hello" /\ c = Owing(m)
          \/ \E v \in Values \cup {NoValue, OK} : c = Answered(v)
    /\ calls[r].at = "reply" =>
          \/ c = Owing(Command(r))
          \/ \E v \in MayAnswer(r) : c = Answered(v)

InSync == \A r \in DOMAIN calls : Using(r) => Synced(r)

\* Whatever a tier holds, a late SET will store or a call carries was stored for
\* its key.
Provenance ==
    /\ \A k \in DOMAIN hot : hot[k] \in written[k]
    /\ \A k \in DOMAIN cold : cold[k] \in written[k]
    /\ \A m \in stray : m.value \in written[m.key]
    /\ \A r \in DOMAIN calls : calls[r].op # "get" => calls[r].value \in written[calls[r].key]

CacheIInv == CacheTypeOK /\ OneOwner /\ InSync /\ Provenance

-----------------------------------------------------------------------------
(* The helpers *)

LEMMA WithoutFacts ==
    ASSUME NEW S, NEW f, f \in [DOMAIN f -> S], NEW k
    PROVE  /\ DOMAIN Without(f, k) = DOMAIN f \ {k}
           /\ Without(f, k) \in [DOMAIN f \ {k} -> S]
           /\ \A j \in DOMAIN f \ {k} : Without(f, k)[j] = f[j]
  BY DEF Without

LEMMA WithFacts ==
    ASSUME NEW S, NEW f, f \in [DOMAIN f -> S], NEW k, NEW v \in S
    PROVE  /\ DOMAIN With(f, k, v) = DOMAIN f \cup {k}
           /\ With(f, k, v) \in [DOMAIN f \cup {k} -> S]
           /\ With(f, k, v)[k] = v
           /\ \A j \in DOMAIN f \ {k} : With(f, k, v)[j] = f[j]
  BY DEF With

\* A queue of one.
LEMMA SingleFacts ==
    ASSUME NEW m
    PROVE  /\ Append(<<>>, m) = <<m>> /\ Head(<<m>>) = m /\ Tail(<<m>>) = <<>>
           /\ <<m>> # <<>> /\ Range(<<m>>) = {m} /\ Range(<<>>) = {}
  BY DEF Range

\* A connection that is sent a command, and one whose only reply is read.
LEMMA OwingFacts ==
    ASSUME NEW m
    PROVE  /\ [Idle EXCEPT !.sent = Append(Idle.sent, m)] = Owing(m)
           /\ Owing(m).replies = <<>> /\ Owing(m).sent = <<m>>
           /\ Head(Owing(m).sent) = m /\ Range(Owing(m).sent) = {m}
           /\ Idle.sent = <<>> /\ Idle.replies = <<>>
  BY SingleFacts DEF Idle, Owing

LEMMA AnsweredFacts ==
    ASSUME NEW v
    PROVE  /\ [Answered(v) EXCEPT !.replies = Tail(Answered(v).replies)] = Idle
           /\ Answered(v).sent = <<>> /\ Answered(v).replies = <<v>>
           /\ Head(Answered(v).replies) = v
  BY SingleFacts DEF Idle, Answered

-----------------------------------------------------------------------------
(* What a step does to the calls *)

\* Only r's call changes, or comes, or goes.
Others(r) ==
    /\ DOMAIN calls' \subseteq DOMAIN calls \cup {r}
    /\ DOMAIN calls \subseteq DOMAIN calls' \cup {r}
    /\ \A q \in DOMAIN calls \ {r} : calls'[q] = calls[q]

\* Afterwards r uses no connection.
Away(r) == r \in DOMAIN calls' => calls'[r].at \in {"conn", "dial", "s3"}

\* Values are only ever added to what was stored.
Grows == \A k \in Keys : written[k] \subseteq written'[k]

LEMMA CallTypes ==
    ASSUME CacheTypeOK, NEW r \in DOMAIN calls
    PROVE  /\ r \in Requests /\ calls[r] \in Calls /\ calls[r].key \in Keys
           /\ calls[r].op \in {"get", "set", "backfill"}
           /\ calls[r].value \in Values \cup {NoValue}
           /\ calls[r].conn \in Conns \cup {NoValue}
           /\ written[calls[r].key] \subseteq Values
  BY DEF CacheTypeOK, Calls

LEMMA CallKept ==
    ASSUME CacheTypeOK, Grows, NEW q \in DOMAIN calls, q \in DOMAIN calls', calls'[q] = calls[q],
           Synced(q), conns'[calls[q].conn] = conns[calls[q].conn]
    PROVE  Synced(q)'
  <1>1. calls[q].key \in Keys /\ Command(q)' = Command(q)
    BY CallTypes DEF Command
  <1>2. MayAnswer(q) \subseteq MayAnswer(q)'
    BY <1>1 DEF MayAnswer, Grows
  <1> QED BY <1>1, <1>2 DEF Synced

\* A call that uses no connection, before or after the step.
LEMMA Bystander ==
    ASSUME CacheTypeOK, OneOwner, InSync, Grows, NEW r, Others(r), Away(r),
           r \in DOMAIN calls => ~Using(r), UNCHANGED <<pool, conns>>
    PROVE  OneOwner' /\ InSync'
  <1>1. \A q \in DOMAIN calls' : Using(q)' => q \in DOMAIN calls /\ q # r /\ Using(q) /\ calls'[q] = calls[q]
    BY DEF Others, Away, Using
  <1>2. \A q \in DOMAIN calls : Using(q) => q \in DOMAIN calls' /\ calls'[q] = calls[q] /\ Using(q)'
    BY DEF Others, Using
  <1>3. OneOwner'
    BY <1>1, <1>2 DEF OneOwner
  <1>4. InSync'
    BY <1>1, CallKept DEF InSync
  <1> QED BY <1>3, <1>4

\* A call that goes on with the connection it uses.
LEMMA Exchange ==
    ASSUME CacheTypeOK, OneOwner, InSync, Grows,
           NEW r \in DOMAIN calls, Others(r), r \in DOMAIN calls', Using(r), Using(r)', Synced(r)',
           calls'[r].conn = calls[r].conn, pool' = pool, DOMAIN conns' = DOMAIN conns,
           \A c \in DOMAIN conns : c # calls[r].conn => conns'[c] = conns[c]
    PROVE  OneOwner' /\ InSync'
  <1>1. \A q \in DOMAIN calls' :
           /\ q \in DOMAIN calls /\ calls'[q].conn = calls[q].conn
           /\ Using(q)' = Using(q)
           /\ q # r => calls'[q] = calls[q]
    BY DEF Others, Using
  <1>2. DOMAIN calls' = DOMAIN calls
    BY DEF Others
  <1>3. OneOwner'
    BY <1>1, <1>2 DEF OneOwner
  <1>4. ASSUME NEW q \in DOMAIN calls', Using(q)' PROVE Synced(q)'
    <2>1. CASE q # r
      <3>1. calls[q].conn \in DOMAIN conns /\ calls[q].conn # calls[r].conn
        BY <1>1, <1>4, <2>1 DEF OneOwner
      <3> QED BY <1>1, <1>4, <2>1, <3>1, CallKept DEF InSync
    <2> QED BY <2>1
  <1> QED BY <1>3, <1>4 DEF InSync

\* A call that lets go of its connection, which is closed or goes back idle to a
\* pool that has room.
LEMMA LetGo ==
    ASSUME CacheTypeOK, OneOwner, InSync, Grows,
           NEW r \in DOMAIN calls, Others(r), Using(r), Away(r), NEW c, c = calls[r].conn,
           \/ /\ pool' = pool /\ conns' = Without(conns, c)
           \/ /\ PoolHasRoom /\ pool' = Append(pool, c)
              /\ conns' = [conns EXCEPT ![c] = Idle]
    PROVE  OneOwner' /\ InSync'
  <1>1. \A q \in DOMAIN calls' : Using(q)' => q \in DOMAIN calls /\ q # r /\ Using(q) /\ calls'[q] = calls[q]
    BY DEF Others, Away, Using
  <1>2. \A q \in DOMAIN calls : Using(q) /\ q # r => q \in DOMAIN calls' /\ calls'[q] = calls[q] /\ Using(q)'
    BY DEF Others, Using
  <1>3. /\ c \in DOMAIN conns /\ c \in Conns
        /\ \A n \in DOMAIN pool : pool[n] # c
        /\ \A q \in DOMAIN calls : Using(q) /\ q # r => calls[q].conn # c
    BY DEF OneOwner, CacheTypeOK
  <1>4. /\ DOMAIN conns' \subseteq DOMAIN conns
        /\ DOMAIN conns \ {c} \subseteq DOMAIN conns'
        /\ \A d \in DOMAIN conns \ {c} : conns'[d] = conns[d]
    BY DEF Without, CacheTypeOK
  <1>5. InSync'
    <2>1. ASSUME NEW q \in DOMAIN calls', Using(q)' PROVE Synced(q)'
      <3>1. q \in DOMAIN calls /\ q # r /\ Using(q) /\ calls'[q] = calls[q]
        BY <1>1, <2>1
      <3>2. calls[q].conn \in DOMAIN conns /\ calls[q].conn # c
        BY <1>3, <3>1 DEF OneOwner
      <3> QED BY <1>4, <2>1, <3>1, <3>2, CallKept DEF InSync
    <2> QED BY <2>1 DEF InSync
  <1>6. CASE pool' = pool /\ conns' = Without(conns, c)
    <2>1. DOMAIN conns' = DOMAIN conns \ {c}
      BY <1>6 DEF Without
    <2> QED BY <1>1, <1>2, <1>3, <1>4, <1>5, <1>6, <2>1 DEF OneOwner
  <1>7. CASE /\ PoolHasRoom /\ pool' = Append(pool, c)
             /\ conns' = [conns EXCEPT ![c] = Idle]
    <2>1. /\ Len(pool) \in Nat /\ PoolMax \in Nat /\ DOMAIN pool = 1..Len(pool)
          /\ Len(pool') = Len(pool) + 1 /\ DOMAIN pool' = 1..(Len(pool) + 1)
          /\ pool'[Len(pool) + 1] = c
          /\ \A n \in DOMAIN pool : pool'[n] = pool[n]
      BY <1>3, <1>7, ResolveCacheAssumption DEF CacheTypeOK
    <2>2. DOMAIN conns' = DOMAIN conns /\ conns'[c] = Idle
      BY <1>3, <1>7
    <2>3. Len(pool') <= PoolMax
      <3>1. Len(pool) < PoolMax
        BY <1>7 DEF PoolHasRoom
      <3>2. Len(pool) \in Nat /\ PoolMax \in Nat /\ Len(pool') = Len(pool) + 1
        BY <2>1
      <3> QED BY <3>1, <3>2
    <2>4. ASSUME NEW m \in DOMAIN pool', NEW n \in DOMAIN pool', pool'[m] = pool'[n]
          PROVE  m = n
      <3>1. \A i \in DOMAIN pool' : i \in DOMAIN pool \/ i = Len(pool) + 1
        BY <2>1
      <3> QED BY <1>3, <2>1, <2>4, <3>1 DEF OneOwner
    <2>5. \A n \in DOMAIN pool' : pool'[n] \in DOMAIN conns' /\ conns'[pool'[n]] = Idle
      BY <1>3, <1>4, <2>1, <2>2 DEF OneOwner
    <2>6. \A q \in DOMAIN calls' : Using(q)' =>
             calls'[q].conn \in DOMAIN conns' /\ \A n \in DOMAIN pool' : pool'[n] # calls'[q].conn
      BY <1>1, <1>3, <2>1, <2>2 DEF OneOwner
    <2>7. \A p, q \in DOMAIN calls' : Using(p)' /\ Using(q)' /\ calls'[p].conn = calls'[q].conn => p = q
      BY <1>1 DEF OneOwner
    <2>8. \A d \in DOMAIN conns' :
             \/ \E n \in DOMAIN pool' : pool'[n] = d
             \/ \E q \in DOMAIN calls' : Using(q)' /\ calls'[q].conn = d
      <3>1. ASSUME NEW d \in DOMAIN conns', d # c
            PROVE  \/ \E n \in DOMAIN pool' : pool'[n] = d
                   \/ \E q \in DOMAIN calls' : Using(q)' /\ calls'[q].conn = d
        <4>1. CASE \E n \in DOMAIN pool : pool[n] = d
          BY <2>1, <4>1
        <4>2. CASE \E q \in DOMAIN calls : Using(q) /\ calls[q].conn = d
          <5>1. PICK q \in DOMAIN calls : Using(q) /\ calls[q].conn = d
            BY <4>2
          <5>2. q # r
            BY <3>1, <5>1
          <5> QED BY <1>2, <5>1, <5>2
        <4> QED BY <2>2, <4>1, <4>2 DEF OneOwner
      <3>2. Len(pool) + 1 \in DOMAIN pool'
        BY <2>1
      <3> QED BY <2>1, <3>1, <3>2
    <2> QED BY <1>5, <2>3, <2>4, <2>5, <2>6, <2>7, <2>8 DEF OneOwner
  <1> QED BY <1>6, <1>7

-----------------------------------------------------------------------------
(* What a step does to what a call carries, and to the answers *)

CallPlaces == {"conn", "dial", "hello", "greeting", "command", "reply", "s3"}

\* If r goes on, then with the same question.
Keeps(r) ==
    r \in DOMAIN calls' =>
        /\ r \in DOMAIN calls
        /\ calls'[r].op = calls[r].op /\ calls'[r].key = calls[r].key
        /\ calls'[r].value = calls[r].value

CallsTyped == DOMAIN calls \subseteq Requests /\ calls \in [DOMAIN calls -> Calls]

MovedTo(r, a, c) ==
    /\ CallsTyped' /\ Others(r) /\ Keeps(r) /\ r \in DOMAIN calls'
    /\ calls'[r].at = a /\ calls'[r].conn = c

\* A miss, or a value stored for the key.
HonestAnswer ==
    \/ answer' = answer
    \/ /\ answer' \in [key : Keys, value : Values \cup {NoValue}]
       /\ answer'.value \in written[answer'.key] \cup {NoValue}

LEMMA GotoIsMoved ==
    ASSUME CacheTypeOK, NEW r \in DOMAIN calls, NEW a \in CallPlaces, Goto(r, a)
    PROVE  MovedTo(r, a, calls[r].conn)
  <1>1. calls[r] \in Calls /\ calls \in [DOMAIN calls -> Calls]
    BY DEF CacheTypeOK
  <1>2. [calls[r] EXCEPT !.at = a] \in Calls
    BY <1>1 DEF Calls, CallPlaces
  <1>3. calls' = [calls EXCEPT ![r] = [calls[r] EXCEPT !.at = a]]
    BY <1>1 DEF Goto
  <1>4. CallsTyped' /\ DOMAIN calls' = DOMAIN calls
    BY <1>1, <1>2, <1>3 DEF CallsTyped, CacheTypeOK
  <1>5. calls'[r] = [calls[r] EXCEPT !.at = a] /\ \A q \in DOMAIN calls \ {r} : calls'[q] = calls[q]
    BY <1>1, <1>3
  <1>6. /\ calls'[r].at = a /\ calls'[r].op = calls[r].op /\ calls'[r].key = calls[r].key
        /\ calls'[r].value = calls[r].value /\ calls'[r].conn = calls[r].conn
    BY <1>1, <1>5 DEF Calls
  <1> QED BY <1>4, <1>5, <1>6 DEF MovedTo, Others, Keeps

LEMMA GotoConnIsMoved ==
    ASSUME CacheTypeOK, NEW r \in DOMAIN calls, NEW a \in CallPlaces, NEW c \in Conns \cup {NoValue},
           calls' = [calls EXCEPT ![r].at = a, ![r].conn = c]
    PROVE  MovedTo(r, a, c)
  <1>1. calls[r] \in Calls /\ calls \in [DOMAIN calls -> Calls]
    BY DEF CacheTypeOK
  <1>2. [calls[r] EXCEPT !.at = a, !.conn = c] \in Calls
    BY <1>1 DEF Calls, CallPlaces
  <1>3. calls' = [calls EXCEPT ![r] = [calls[r] EXCEPT !.at = a, !.conn = c]]
    BY <1>1
  <1>4. CallsTyped' /\ DOMAIN calls' = DOMAIN calls
    BY <1>1, <1>2, <1>3 DEF CallsTyped, CacheTypeOK
  <1>5. /\ calls'[r] = [calls[r] EXCEPT !.at = a, !.conn = c]
        /\ \A q \in DOMAIN calls \ {r} : calls'[q] = calls[q]
    BY <1>1, <1>3
  <1>6. /\ calls'[r].at = a /\ calls'[r].op = calls[r].op /\ calls'[r].key = calls[r].key
        /\ calls'[r].value = calls[r].value /\ calls'[r].conn = c
    BY <1>1, <1>5 DEF Calls
  <1> QED BY <1>4, <1>5, <1>6 DEF MovedTo, Others, Keeps

LEMMA WithoutCall ==
    ASSUME CacheTypeOK, NEW r \in DOMAIN calls, calls' = Without(calls, r)
    PROVE  CallsTyped' /\ Others(r) /\ Keeps(r) /\ Away(r)
  BY DEF Without, CacheTypeOK, CallsTyped, Others, Keeps, Away

\* After the exchange with Valkey a call is answered honestly or goes on to S3.
LEMMA AfterValkeyIs ==
    ASSUME CacheTypeOK, Provenance, NEW r \in DOMAIN calls,
           NEW v, calls[r].op = "get" /\ v \in Values => v \in written[calls[r].key],
           AfterValkey(r, v)
    PROVE  CallsTyped' /\ Others(r) /\ Keeps(r) /\ Away(r) /\ HonestAnswer
  <1>1. /\ calls[r].key \in Keys /\ calls[r].op \in {"get", "set", "backfill"}
        /\ calls[r].op # "get" => calls[r].value \in written[calls[r].key]
        /\ written[calls[r].key] \subseteq Values
    BY CallTypes DEF Provenance
  <1>2. CASE calls' = Without(calls, r) /\ UNCHANGED answer
    BY <1>2, WithoutCall DEF HonestAnswer
  <1>3. CASE \E w \in written[calls[r].key] \cup {NoValue} : ReturnValue(r, w)
    BY <1>1, <1>3, WithoutCall DEF ReturnValue, HonestAnswer
  <1>4. CASE calls' = [calls EXCEPT ![r].at = "s3", ![r].conn = NoValue] /\ UNCHANGED answer
    BY <1>4, GotoConnIsMoved DEF MovedTo, Away, HonestAnswer, CallPlaces
  <1> QED BY <1>1, <1>2, <1>3, <1>4 DEF AfterValkey

\* The tiers do not change, late SETs are those of calls.
LEMMA ProvenanceKept ==
    ASSUME CacheTypeOK, Provenance, NEW r, Others(r), Keeps(r), UNCHANGED <<tiers, written>>,
           \A m \in stray' : m \in stray \/ m.value \in written[m.key]
    PROVE  Provenance'
  BY DEF Provenance, Others, Keeps, tiers

-----------------------------------------------------------------------------
(* The steps of GetJSON and SetJSON *)

LEMMA InitCacheIInv == CacheInit => CacheIInv
  <1> SUFFICES ASSUME CacheInit PROVE CacheIInv
    OBVIOUS
  <1>1. DOMAIN conns = {} /\ DOMAIN calls = {} /\ DOMAIN hot = {} /\ DOMAIN cold = {}
    BY DEF CacheInit
  <1>2. pool = <<>> /\ DOMAIN pool = {} /\ Len(pool) = 0
    BY DEF CacheInit
  <1>3. CacheTypeOK
    BY <1>1, <1>2 DEF CacheInit, CacheTypeOK
  <1>4. OneOwner
    BY <1>1, <1>2, ResolveCacheAssumption DEF OneOwner
  <1>5. InSync /\ Provenance
    BY <1>1 DEF CacheInit, InSync, Provenance
  <1> QED BY <1>3, <1>4, <1>5 DEF CacheIInv

LEMMA StartIs ==
    ASSUME CacheTypeOK, NEW r \in Requests, NEW op \in {"get", "set"}, NEW k \in Keys,
           NEW v \in Values \cup {NoValue}, Start(r, op, k, v)
    PROVE  /\ CallsTyped' /\ Others(r) /\ Away(r) /\ r \notin DOMAIN calls
           /\ calls'[r].op = op /\ calls'[r].key = k /\ calls'[r].value = v
  <1> DEFINE c == [op |-> op, key |-> k, value |-> v, conn |-> NoValue,
                   at |-> IF config.valkey THEN "conn" ELSE "s3"]
  <1>1. c \in Calls /\ c.at \in {"conn", "s3"} /\ c.op = op /\ c.key = k /\ c.value = v
    BY DEF Calls
  <1>2. r \notin DOMAIN calls /\ calls' = With(calls, r, c)
    BY DEF Start
  <1>3. calls \in [DOMAIN calls -> Calls]
    BY DEF CacheTypeOK
  <1> HIDE DEF c
  <1>4. /\ DOMAIN calls' = DOMAIN calls \cup {r} /\ calls' \in [DOMAIN calls \cup {r} -> Calls]
        /\ calls'[r] = c /\ \A q \in DOMAIN calls \ {r} : calls'[q] = calls[q]
    BY <1>1, <1>2, <1>3 DEF With
  <1> QED BY <1>1, <1>2, <1>4 DEF CallsTyped, CacheTypeOK, Others, Away

LEMMA GetJSONIInv ==
    ASSUME CacheIInv, NEW r \in Requests, NEW k \in Keys, GetJSON(r, k)
    PROVE  CacheIInv'
  <1>1. /\ CallsTyped' /\ Others(r) /\ Away(r) /\ r \notin DOMAIN calls
        /\ calls'[r].op = "get"
    BY StartIs DEF GetJSON, CacheIInv
  <1>2. UNCHANGED <<config, pool, conns, hot, cold, stray, written, answer>>
    BY DEF GetJSON, tiers, history
  <1>3. CacheTypeOK'
    BY <1>1, <1>2 DEF CacheIInv, CacheTypeOK, CallsTyped
  <1>4. OneOwner' /\ InSync'
    BY <1>1, <1>2, Bystander DEF CacheIInv, Grows
  <1>5. Provenance'
    BY <1>1, <1>2 DEF CacheIInv, Provenance, Others
  <1> QED BY <1>3, <1>4, <1>5 DEF CacheIInv

LEMMA SetJSONIInv ==
    ASSUME CacheIInv, NEW r \in Requests, NEW k \in Keys, NEW v \in ValuesOf[k], SetJSON(r, k, v)
    PROVE  CacheIInv'
  <1>1. v \in Values /\ CacheTypeOK /\ written \in [Keys -> SUBSET Values]
    BY ResolveCacheAssumption DEF CacheIInv, CacheTypeOK
  <1>2. /\ CallsTyped' /\ Others(r) /\ Away(r) /\ r \notin DOMAIN calls
        /\ calls'[r].key = k /\ calls'[r].value = v
    BY <1>1, StartIs DEF SetJSON
  <1>3. UNCHANGED <<config, pool, conns, hot, cold, stray, answer>>
    BY DEF SetJSON, tiers
  <1>4. written' \in [Keys -> SUBSET Values] /\ Grows /\ v \in written'[k]
    BY <1>1 DEF SetJSON, Grows
  <1>5. CacheTypeOK'
    BY <1>1, <1>2, <1>3, <1>4 DEF CacheTypeOK, CallsTyped
  <1>6. OneOwner' /\ InSync'
    BY <1>2, <1>3, <1>4, Bystander DEF CacheIInv
  <1>7. Provenance'
    <2>1. \A m \in stray : m.key \in Keys
      BY <1>1 DEF CacheTypeOK
    <2>2. \A q \in DOMAIN calls : calls[q].key \in Keys
      BY <1>1, CallTypes
    <2>3. DOMAIN hot \subseteq Keys /\ DOMAIN cold \subseteq Keys
      BY <1>1 DEF CacheTypeOK
    <2> QED BY <1>2, <1>3, <1>4, <2>1, <2>2, <2>3 DEF CacheIInv, Provenance, Others, Grows
  <1> QED BY <1>5, <1>6, <1>7 DEF CacheIInv

LEMMA S3GetIInv ==
    ASSUME CacheIInv, NEW r \in Requests, S3Get(r)
    PROVE  CacheIInv' /\ HonestAnswer
  <1>1. /\ r \in DOMAIN calls /\ ~Using(r) /\ calls[r].op = "get" /\ CacheTypeOK
        /\ UNCHANGED <<config, pool, conns, hot, cold, stray, written>>
    BY DEF S3Get, At, Using, CacheIInv, tiers
  <1>2. calls[r].key \in Keys /\ written[calls[r].key] \subseteq Values /\ calls[r] \in Calls
    BY <1>1, CallTypes
  <1>3. PICK v \in {Lookup(cold, calls[r].key), NoValue} :
           IF v # NoValue /\ config.valkey
           THEN /\ calls' = [calls EXCEPT ![r].op = "backfill", ![r].value = v, ![r].at = "conn"]
                /\ UNCHANGED answer
           ELSE ReturnValue(r, v)
    BY DEF S3Get
  <1>4. v \in written[calls[r].key] \cup {NoValue}
    BY DEF Lookup, CacheIInv, Provenance
  <1>5. /\ CallsTyped' /\ Others(r) /\ Away(r) /\ HonestAnswer
        /\ r \in DOMAIN calls' => calls'[r].key = calls[r].key /\ calls'[r].value \in written[calls[r].key]
    <2>1. CASE ReturnValue(r, v)
      BY <1>1, <1>2, <1>4, <2>1, WithoutCall DEF ReturnValue, HonestAnswer, Without
    <2>2. CASE /\ v # NoValue
               /\ calls' = [calls EXCEPT ![r].op = "backfill", ![r].value = v, ![r].at = "conn"]
               /\ UNCHANGED answer
      <3> DEFINE c == [calls[r] EXCEPT !.op = "backfill", !.value = v, !.at = "conn"]
      <3>1. calls \in [DOMAIN calls -> Calls]
        BY <1>1 DEF CacheTypeOK
      <3>2. c \in Calls /\ c.key = calls[r].key /\ c.value = v /\ c.at = "conn"
        BY <1>2, <1>4, <2>2 DEF Calls
      <3>3. calls' = [calls EXCEPT ![r] = c]
        BY <1>1, <2>2, <3>1
      <3> HIDE DEF c
      <3>4. /\ DOMAIN calls' = DOMAIN calls /\ calls' \in [DOMAIN calls -> Calls]
            /\ calls'[r] = c /\ \A q \in DOMAIN calls \ {r} : calls'[q] = calls[q]
        BY <1>1, <3>1, <3>2, <3>3
      <3> QED BY <1>1, <1>4, <2>2, <3>2, <3>4
              DEF CallsTyped, CacheTypeOK, Others, Away, HonestAnswer
    <2> QED BY <1>3, <2>1, <2>2
  <1>6. CacheTypeOK'
    BY <1>1, <1>5 DEF CacheTypeOK, CallsTyped, HonestAnswer
  <1>7. OneOwner' /\ InSync'
    BY <1>1, <1>5, Bystander DEF CacheIInv, Grows
  <1>8. Provenance'
    BY <1>1, <1>5 DEF CacheIInv, Provenance, Others
  <1> QED BY <1>5, <1>6, <1>7, <1>8 DEF CacheIInv

LEMMA S3PutIInv ==
    ASSUME CacheIInv, NEW r \in Requests, S3Put(r)
    PROVE  CacheIInv'
  <1>1. /\ r \in DOMAIN calls /\ ~Using(r) /\ calls[r].op = "set" /\ CacheTypeOK
        /\ calls' = Without(calls, r)
        /\ UNCHANGED <<config, pool, conns, hot, stray, written, answer>>
    BY DEF S3Put, At, Using, CacheIInv, history
  <1>2. CallsTyped' /\ Others(r) /\ Keeps(r) /\ Away(r)
    BY <1>1, WithoutCall
  <1>3. calls[r].key \in Keys /\ calls[r].value \in written[calls[r].key] /\ calls[r].value \in Values
    BY <1>1, CallTypes DEF CacheIInv, Provenance
  <1>4. /\ DOMAIN cold' \subseteq Keys /\ cold' \in [DOMAIN cold' -> Values]
        /\ \A k \in DOMAIN cold' : cold'[k] \in written[k]
    <2>1. CASE cold' = cold
      BY <1>1, <2>1 DEF CacheIInv, Provenance, CacheTypeOK
    <2>2. CASE cold' = With(cold, calls[r].key, calls[r].value)
      BY <1>1, <1>3, <2>2 DEF With, CacheIInv, Provenance, CacheTypeOK
    <2> QED BY <2>1, <2>2 DEF S3Put
  <1>5. CacheTypeOK'
    BY <1>1, <1>2, <1>4 DEF CacheTypeOK, CallsTyped
  <1>6. OneOwner' /\ InSync'
    BY <1>1, <1>2, Bystander DEF CacheIInv, Grows
  <1>7. Provenance'
    BY <1>1, <1>2, <1>4 DEF CacheIInv, Provenance, Others, Keeps
  <1> QED BY <1>5, <1>6, <1>7 DEF CacheIInv

-----------------------------------------------------------------------------
(* The steps of the exchange *)

\* What a step that leaves the tiers alone owes the type invariant.
LEMMA TypeKept ==
    ASSUME CacheTypeOK, CallsTyped', UNCHANGED <<config, tiers, written>>,
           pool' \in Seq(Conns), DOMAIN conns' \subseteq Conns,
           conns' \in [DOMAIN conns' -> [sent : Seq(Commands), replies : Seq(Values \cup {NoValue, OK})]],
           stray' \subseteq [key : Keys, value : Values],
           answer' \in [key : Keys, value : Values \cup {NoValue}]
    PROVE  CacheTypeOK'
  BY DEF CacheTypeOK, CallsTyped, tiers

LEMMA GetConnIInv ==
    ASSUME CacheIInv, NEW r \in Requests, GetConn(r)
    PROVE  CacheIInv'
  <1>1. /\ r \in DOMAIN calls /\ ~Using(r) /\ CacheTypeOK
        /\ UNCHANGED <<config, conns, tiers, stray, written, answer>>
    BY DEF GetConn, At, Using, CacheIInv, history
  <1>2. CASE Goto(r, "dial") /\ UNCHANGED pool
    <2>1. MovedTo(r, "dial", calls[r].conn)
      BY <1>1, <1>2, GotoIsMoved DEF CallPlaces
    <2>2. CacheTypeOK'
      BY <1>1, <1>2, <2>1, TypeKept DEF CacheTypeOK, MovedTo
    <2>3. OneOwner' /\ InSync'
      BY <1>1, <1>2, <2>1, Bystander DEF CacheIInv, Grows, MovedTo, Away
    <2>4. Provenance'
      BY <1>1, <2>1, ProvenanceKept DEF CacheIInv, MovedTo
    <2> QED BY <2>2, <2>3, <2>4 DEF CacheIInv
  <1>3. CASE /\ pool # <<>>
             /\ calls' = [calls EXCEPT ![r].at = "command", ![r].conn = pool[Len(pool)]]
             /\ pool' = SubSeq(pool, 1, Len(pool) - 1)
    <2> DEFINE c == pool[Len(pool)]
    <2>1. /\ Len(pool) \in Nat \ {0} /\ DOMAIN pool = 1..Len(pool) /\ Len(pool) \in DOMAIN pool
          /\ c \in Conns
      BY <1>1, <1>3 DEF CacheTypeOK
    <2>2. /\ pool' \in Seq(Conns) /\ Len(pool') = Len(pool) - 1
          /\ DOMAIN pool' = 1..(Len(pool) - 1)
          /\ \A n \in DOMAIN pool' : n \in DOMAIN pool /\ n # Len(pool) /\ pool'[n] = pool[n]
          /\ \A n \in DOMAIN pool : n # Len(pool) => n \in DOMAIN pool'
      BY <1>1, <1>3, <2>1 DEF CacheTypeOK
    <2>3. MovedTo(r, "command", c)
      BY <1>1, <1>3, <2>1, GotoConnIsMoved DEF CallPlaces
    <2>4. c \in DOMAIN conns /\ conns[c] = Idle
      BY <2>1 DEF CacheIInv, OneOwner
    <2>5. \A q \in DOMAIN calls : Using(q) => calls[q].conn # c
      BY <2>1 DEF CacheIInv, OneOwner
    <2>6. \A n \in DOMAIN pool' : pool'[n] # c
      BY <2>1, <2>2 DEF CacheIInv, OneOwner
    <2> HIDE DEF c
    <2>7. \A q \in DOMAIN calls' :
             Using(q)' => q = r \/ (q \in DOMAIN calls /\ Using(q) /\ calls'[q] = calls[q])
      BY <2>3 DEF MovedTo, Others, Using
    <2>8. \A q \in DOMAIN calls : Using(q) => q \in DOMAIN calls' /\ calls'[q] = calls[q] /\ Using(q)'
      BY <1>1, <2>3 DEF MovedTo, Others, Using
    <2>9. CacheTypeOK'
      BY <1>1, <2>2, <2>3, TypeKept DEF CacheTypeOK, MovedTo
    <2>10. OneOwner'
      <3>1. Len(pool') <= PoolMax
        BY <2>1, <2>2, ResolveCacheAssumption DEF CacheIInv, OneOwner
      <3>2. /\ \A m, n \in DOMAIN pool' : pool'[m] = pool'[n] => m = n
            /\ \A n \in DOMAIN pool' : pool'[n] \in DOMAIN conns' /\ conns'[pool'[n]] = Idle
        BY <1>1, <2>2 DEF CacheIInv, OneOwner
      <3>3. /\ r \in DOMAIN calls' /\ calls'[r].conn = c /\ Using(r)'
        BY <2>3 DEF MovedTo, Using
      <3>4. \A q \in DOMAIN calls' : Using(q)' =>
               calls'[q].conn \in DOMAIN conns' /\ \A n \in DOMAIN pool' : pool'[n] # calls'[q].conn
        BY <1>1, <2>2, <2>4, <2>6, <2>7, <3>3 DEF CacheIInv, OneOwner
      <3>5. \A p, q \in DOMAIN calls' : Using(p)' /\ Using(q)' /\ calls'[p].conn = calls'[q].conn => p = q
        BY <2>5, <2>7, <3>3 DEF CacheIInv, OneOwner
      <3>6. \A d \in DOMAIN conns' :
               \/ \E n \in DOMAIN pool' : pool'[n] = d
               \/ \E q \in DOMAIN calls' : Using(q)' /\ calls'[q].conn = d
        BY <1>1, <2>2, <2>8, <3>3 DEF CacheIInv, OneOwner, c
      <3> QED BY <3>1, <3>2, <3>4, <3>5, <3>6 DEF OneOwner
    <2>11. InSync'
      <3>1. Synced(r)'
        BY <1>1, <2>3, <2>4 DEF Synced, MovedTo
      <3>2. ASSUME NEW q \in DOMAIN calls', Using(q)' PROVE Synced(q)'
        BY <1>1, <2>7, <3>1, <3>2, CallKept DEF CacheIInv, InSync, Grows
      <3> QED BY <3>2 DEF InSync
    <2>12. Provenance'
      BY <1>1, <2>3, ProvenanceKept DEF CacheIInv, MovedTo
    <2> QED BY <2>9, <2>10, <2>11, <2>12 DEF CacheIInv
  <1> QED BY <1>2, <1>3 DEF GetConn

LEMMA DialIInv ==
    ASSUME CacheIInv, NEW r \in Requests, NEW c \in Conns, Dial(r, c)
    PROVE  CacheIInv'
  <1>1. /\ r \in DOMAIN calls /\ ~Using(r) /\ CacheTypeOK /\ c \notin DOMAIN conns
        /\ UNCHANGED <<config, pool, tiers, stray, written, answer>>
    BY DEF Dial, At, Using, CacheIInv, history
  <1>2. PICK a \in {"hello", "command"} : MovedTo(r, a, c)
    BY <1>1, GotoConnIsMoved DEF Dial, FirstCommand, CallPlaces
  <1>3. /\ DOMAIN conns' = DOMAIN conns \cup {c} /\ conns'[c] = Idle
        /\ \A d \in DOMAIN conns : conns'[d] = conns[d]
        /\ conns' \in [DOMAIN conns' -> [sent : Seq(Commands), replies : Seq(Values \cup {NoValue, OK})]]
    BY <1>1 DEF Dial, With, Idle, CacheTypeOK
  <1>4. \A q \in DOMAIN calls' :
           Using(q)' => q = r \/ (q \in DOMAIN calls /\ Using(q) /\ calls'[q] = calls[q])
    BY <1>2 DEF MovedTo, Others, Using
  <1>5. \A q \in DOMAIN calls : Using(q) => q \in DOMAIN calls' /\ calls'[q] = calls[q] /\ Using(q)'
    BY <1>1, <1>2 DEF MovedTo, Others, Using
  <1>6. CacheTypeOK'
    BY <1>1, <1>2, <1>3, TypeKept DEF CacheTypeOK, MovedTo
  <1>7. OneOwner'
    <2>1. r \in DOMAIN calls' /\ calls'[r].conn = c /\ Using(r)'
      BY <1>2 DEF MovedTo, Using
    <2>2. \A n \in DOMAIN pool : pool[n] \in DOMAIN conns /\ pool[n] # c
      BY <1>1 DEF CacheIInv, OneOwner
    <2>3. \A q \in DOMAIN calls : Using(q) => calls[q].conn \in DOMAIN conns /\ calls[q].conn # c
      BY <1>1 DEF CacheIInv, OneOwner
    <2>4. \A q \in DOMAIN calls' : Using(q)' =>
             calls'[q].conn \in DOMAIN conns' /\ \A n \in DOMAIN pool' : pool'[n] # calls'[q].conn
      BY <1>1, <1>3, <1>4, <2>1, <2>2 DEF CacheIInv, OneOwner
    <2>5. \A p, q \in DOMAIN calls' : Using(p)' /\ Using(q)' /\ calls'[p].conn = calls'[q].conn => p = q
      BY <1>4, <2>1, <2>3 DEF CacheIInv, OneOwner
    <2>6. \A d \in DOMAIN conns' :
             \/ \E n \in DOMAIN pool' : pool'[n] = d
             \/ \E q \in DOMAIN calls' : Using(q)' /\ calls'[q].conn = d
      <3>1. ASSUME NEW d \in DOMAIN conns
            PROVE  \/ \E n \in DOMAIN pool : pool[n] = d
                   \/ \E q \in DOMAIN calls' : Using(q)' /\ calls'[q].conn = d
        BY <1>5 DEF CacheIInv, OneOwner
      <3> QED BY <1>1, <1>3, <2>1, <3>1
    <2> QED BY <1>1, <1>3, <2>2, <2>4, <2>5, <2>6 DEF CacheIInv, OneOwner
  <1>8. InSync'
    <2>1. Synced(r)'
      BY <1>2, <1>3 DEF Synced, MovedTo
    <2>2. ASSUME NEW q \in DOMAIN calls', Using(q)', q # r PROVE Synced(q)'
      <3>1. q \in DOMAIN calls /\ Using(q) /\ calls'[q] = calls[q] /\ calls[q].conn \in DOMAIN conns
        BY <1>4, <2>2 DEF CacheIInv, OneOwner
      <3> QED BY <1>1, <1>3, <3>1, CallKept DEF CacheIInv, InSync, Grows
    <2> QED BY <2>1, <2>2 DEF InSync
  <1>9. Provenance'
    BY <1>1, <1>2, ProvenanceKept DEF CacheIInv, MovedTo
  <1> QED BY <1>6, <1>7, <1>8, <1>9 DEF CacheIInv

LEMMA CommandType ==
    ASSUME CacheTypeOK, NEW r \in DOMAIN calls
    PROVE  Command(r) \in Commands
  BY CallTypes DEF Command, Commands

\* An exchange's connection after its request: one more command, or one reply
\* less.
LEMMA ConnChanged ==
    ASSUME CacheTypeOK, NEW c \in DOMAIN conns, NEW x, conns' = [conns EXCEPT ![c] = x],
           x \in [sent : Seq(Commands), replies : Seq(Values \cup {NoValue, OK})]
    PROVE  /\ DOMAIN conns' = DOMAIN conns /\ DOMAIN conns' \subseteq Conns
           /\ conns' \in [DOMAIN conns' -> [sent : Seq(Commands), replies : Seq(Values \cup {NoValue, OK})]]
           /\ conns'[c] = x /\ \A d \in DOMAIN conns : d # c => conns'[d] = conns[d]
  BY DEF CacheTypeOK

LEMMA ExchangeTypes ==
    /\ Idle \in [sent : Seq(Commands), replies : Seq(Values \cup {NoValue, OK})]
    /\ \A m \in Commands : Owing(m) \in [sent : Seq(Commands), replies : Seq(Values \cup {NoValue, OK})]
    /\ \A v \in Values \cup {NoValue, OK} :
          Answered(v) \in [sent : Seq(Commands), replies : Seq(Values \cup {NoValue, OK})]
  BY DEF Idle, Owing, Answered

LEMMA MayAnswerType ==
    ASSUME CacheTypeOK, NEW r \in DOMAIN calls
    PROVE  MayAnswer(r) \subseteq Values \cup {NoValue, OK}
  BY CallTypes DEF MayAnswer

LEMMA WriteCommandIInv ==
    ASSUME CacheIInv, NEW r \in Requests, WriteCommand(r)
    PROVE  CacheIInv'
  <1> DEFINE c == calls[r].conn
             m == Command(r)
             next == IF calls[r].at = "hello" THEN "greeting" ELSE "reply"
  <1>1. /\ r \in DOMAIN calls /\ calls[r].at \in {"hello", "command"} /\ Using(r) /\ CacheTypeOK
        /\ Goto(r, next) /\ UNCHANGED <<config, pool, tiers, stray, written, answer>>
    BY DEF WriteCommand, At, Using, CacheIInv, history
  <1>2. c \in DOMAIN conns /\ conns[c] = Idle /\ m \in Commands
    BY <1>1, CommandType DEF CacheIInv, OneOwner, InSync, Synced
  <1>3. conns' = [conns EXCEPT ![c] = Owing(m)]
    <2>1. conns' = [conns EXCEPT ![c] = [conns[c] EXCEPT !.sent = Append(conns[c].sent, m)]]
      BY <1>2 DEF WriteCommand
    <2> QED BY <1>2, <2>1, OwingFacts
  <1>4. MovedTo(r, next, c)
    BY <1>1, GotoIsMoved DEF CallPlaces
  <1>5. /\ DOMAIN conns' = DOMAIN conns /\ DOMAIN conns' \subseteq Conns
        /\ conns' \in [DOMAIN conns' -> [sent : Seq(Commands), replies : Seq(Values \cup {NoValue, OK})]]
        /\ conns'[c] = Owing(m) /\ \A d \in DOMAIN conns : d # c => conns'[d] = conns[d]
    BY <1>1, <1>2, <1>3, ConnChanged, ExchangeTypes
  <1>6. CacheTypeOK'
    BY <1>1, <1>4, <1>5, TypeKept DEF CacheTypeOK, MovedTo
  <1>7. Synced(r)'
    <2>1. CASE calls[r].at = "hello"
      <3>1. m.op = "hello"
        BY <2>1 DEF Command
      <3> QED BY <1>2, <1>4, <1>5, <2>1, <3>1 DEF Synced, MovedTo
    <2>2. CASE calls[r].at = "command"
      <3>1. m = Command(r)'
        BY <1>4, <2>2 DEF Command, MovedTo, Keeps
      <3> QED BY <1>4, <1>5, <2>2, <3>1 DEF Synced, MovedTo
    <2> QED BY <1>1, <2>1, <2>2
  <1>8. OneOwner' /\ InSync'
    <2>1. /\ Using(r)' /\ Others(r) /\ r \in DOMAIN calls' /\ calls'[r].conn = calls[r].conn
          /\ Grows /\ pool' = pool
      BY <1>1, <1>4 DEF Using, MovedTo, Grows
    <2> QED BY <1>1, <1>5, <1>7, <2>1, Exchange DEF CacheIInv
  <1>9. Provenance'
    BY <1>1, <1>4, ProvenanceKept DEF CacheIInv, MovedTo
  <1> QED BY <1>6, <1>8, <1>9 DEF CacheIInv

LEMMA ReadHelloIInv ==
    ASSUME CacheIInv, NEW r \in Requests, ReadHello(r)
    PROVE  CacheIInv'
  <1> DEFINE c == calls[r].conn
  <1>1. /\ r \in DOMAIN calls /\ calls[r].at = "greeting" /\ Using(r) /\ CacheTypeOK
        /\ Goto(r, "command") /\ UNCHANGED <<config, pool, tiers, stray, written, answer>>
        /\ conns[c].replies # <<>>
    BY DEF ReadHello, At, Using, CacheIInv, history
  <1>2. c \in DOMAIN conns /\ \E v \in Values \cup {NoValue, OK} : conns[c] = Answered(v)
    <2>1. c \in DOMAIN conns /\ Synced(r)
      BY <1>1 DEF CacheIInv, OneOwner, InSync
    <2> QED BY <1>1, <2>1, OwingFacts DEF Synced
  <1>3. conns' = [conns EXCEPT ![c] = Idle]
    <2>1. conns' = [conns EXCEPT ![c] = [conns[c] EXCEPT !.replies = Tail(conns[c].replies)]]
      BY <1>2 DEF ReadHello
    <2> QED BY <1>2, <2>1, AnsweredFacts
  <1>4. MovedTo(r, "command", c)
    BY <1>1, GotoIsMoved DEF CallPlaces
  <1>5. /\ DOMAIN conns' = DOMAIN conns /\ DOMAIN conns' \subseteq Conns
        /\ conns' \in [DOMAIN conns' -> [sent : Seq(Commands), replies : Seq(Values \cup {NoValue, OK})]]
        /\ conns'[c] = Idle /\ \A d \in DOMAIN conns : d # c => conns'[d] = conns[d]
    BY <1>1, <1>2, <1>3, ConnChanged, ExchangeTypes
  <1>6. CacheTypeOK'
    BY <1>1, <1>4, <1>5, TypeKept DEF CacheTypeOK, MovedTo
  <1>7. Synced(r)'
    BY <1>4, <1>5 DEF Synced, MovedTo
  <1>8. OneOwner' /\ InSync'
    <2>1. /\ Using(r)' /\ Others(r) /\ r \in DOMAIN calls' /\ calls'[r].conn = calls[r].conn
          /\ Grows /\ pool' = pool
      BY <1>1, <1>4 DEF Using, MovedTo, Grows
    <2> QED BY <1>1, <1>5, <1>7, <2>1, Exchange DEF CacheIInv
  <1>9. Provenance'
    BY <1>1, <1>4, ProvenanceKept DEF CacheIInv, MovedTo
  <1> QED BY <1>6, <1>8, <1>9 DEF CacheIInv

\* The reply that is read answers the call's own command: if it decodes at all it
\* was stored for the call's key.
LEMMA ReadReplyIInv ==
    ASSUME CacheIInv, NEW r \in Requests, ReadReply(r)
    PROVE  CacheIInv' /\ HonestAnswer
  <1> DEFINE c == calls[r].conn
             v == Head(conns[c].replies)
  <1>1. /\ r \in DOMAIN calls /\ calls[r].at = "reply" /\ Using(r) /\ CacheTypeOK
        /\ AfterValkey(r, v) /\ UNCHANGED <<config, tiers, stray, written>>
        /\ conns[c].replies # <<>>
    BY DEF ReadReply, At, Using, CacheIInv
  <1>2. PICK w \in MayAnswer(r) : conns[c] = Answered(w)
    <2>1. Synced(r)
      BY <1>1 DEF CacheIInv, InSync
    <2> QED BY <1>1, <2>1, OwingFacts DEF Synced
  <1>3. c \in DOMAIN conns /\ c \in Conns /\ v = w
    BY <1>1, <1>2, AnsweredFacts DEF CacheIInv, OneOwner, CacheTypeOK
  <1>4. \/ /\ pool' = pool /\ conns' = Without(conns, c)
        \/ /\ PoolHasRoom /\ pool' = Append(pool, c) /\ conns' = [conns EXCEPT ![c] = Idle]
    <2>1. [conns EXCEPT ![c].replies = Tail(conns[c].replies)] = [conns EXCEPT ![c] = Idle]
      <3>1. [conns EXCEPT ![c].replies = Tail(conns[c].replies)]
                = [conns EXCEPT ![c] = [conns[c] EXCEPT !.replies = Tail(conns[c].replies)]]
        BY <1>3
      <3> QED BY <1>2, <3>1, AnsweredFacts
    <2> QED BY <2>1 DEF ReadReply
  <1>5. calls[r].op = "get" /\ v \in Values => v \in written[calls[r].key]
    BY <1>2, <1>3, ResolveCacheAssumption DEF MayAnswer
  <1> HIDE DEF v
  <1>6. CallsTyped' /\ Others(r) /\ Keeps(r) /\ Away(r) /\ HonestAnswer
    BY <1>1, <1>5, AfterValkeyIs DEF CacheIInv
  <1>7. OneOwner' /\ InSync'
    BY <1>1, <1>4, <1>6, LetGo DEF CacheIInv, Grows
  <1>8. /\ pool' \in Seq(Conns) /\ DOMAIN conns' \subseteq Conns
        /\ conns' \in [DOMAIN conns' -> [sent : Seq(Commands), replies : Seq(Values \cup {NoValue, OK})]]
    <2>1. pool' \in Seq(Conns)
      <3>1. pool \in Seq(Conns)
        BY <1>1 DEF CacheTypeOK
      <3>2. pool' = pool \/ pool' = Append(pool, c)
        BY <1>4
      <3> QED BY <1>3, <3>1, <3>2
    <2>2. CASE conns' = Without(conns, c)
      BY <1>1, <2>1, <2>2 DEF CacheTypeOK, Without
    <2>3. CASE conns' = [conns EXCEPT ![c] = Idle]
      BY <1>1, <1>3, <2>1, <2>3, ConnChanged, ExchangeTypes
    <2> QED BY <1>4, <2>1, <2>2, <2>3
  <1>9. CacheTypeOK'
    BY <1>1, <1>6, <1>8, TypeKept DEF CacheTypeOK, HonestAnswer
  <1>10. Provenance'
    BY <1>1, <1>6, ProvenanceKept DEF CacheIInv
  <1> QED BY <1>6, <1>7, <1>9, <1>10 DEF CacheIInv

\* A SET among what was sent on r's connection is r's own.
LEMMA SentSet ==
    ASSUME CacheIInv, NEW r \in DOMAIN calls, Using(r),
           NEW m \in Range(conns[calls[r].conn].sent), m.op = "SET"
    PROVE  m.key \in Keys /\ m.value \in Values /\ m.value \in written[m.key]
  <1> DEFINE c == conns[calls[r].conn]
  <1>1. c # Idle /\ \A v : c # Answered(v)
    BY SingleFacts, OwingFacts, AnsweredFacts
  <1>2. Synced(r) /\ Using(r)
    BY DEF CacheIInv, InSync
  <1>3. PICK n : /\ c = Owing(n)
                 /\ \/ calls[r].at = "greeting" /\ n.op = "hello"
                    \/ calls[r].at = "reply" /\ n = Command(r)
    BY <1>1, <1>2 DEF Synced, Using
  <1>4. m = n /\ calls[r].at = "reply"
    <2>1. Range(c.sent) = {n} /\ m \in Range(c.sent)
      BY <1>3, OwingFacts
    <2>2. m = n
      BY <2>1
    <2> QED BY <1>3, <2>2
  <1>5. calls[r].op # "get" /\ m.key = calls[r].key /\ m.value = calls[r].value
    BY <1>3, <1>4 DEF Command
  <1> QED BY <1>5, CallTypes DEF CacheIInv, Provenance

LEMMA FailIInv ==
    ASSUME CacheIInv, NEW r \in Requests, Fail(r)
    PROVE  CacheIInv' /\ HonestAnswer
  <1> DEFINE c == calls[r].conn
  <1>1. /\ r \in DOMAIN calls /\ calls[r].at \in Bounded /\ CacheTypeOK
        /\ AfterValkey(r, NoValue) /\ UNCHANGED <<config, tiers, written>>
    BY DEF Fail, At, CacheIInv
  <1>2. CallsTyped' /\ Others(r) /\ Keeps(r) /\ Away(r) /\ HonestAnswer
    BY <1>1, AfterValkeyIs, ResolveCacheAssumption DEF CacheIInv
  <1>3. answer' \in [key : Keys, value : Values \cup {NoValue}]
    BY <1>1, <1>2 DEF HonestAnswer, CacheTypeOK
  <1>4. CASE calls[r].at = "dial"
    <2>1. UNCHANGED <<pool, conns, stray>> /\ ~Using(r)
      BY <1>4 DEF Fail, Using
    <2>2. CacheTypeOK'
      BY <1>1, <1>2, <1>3, <2>1, TypeKept DEF CacheTypeOK
    <2>3. OneOwner' /\ InSync'
      BY <1>1, <1>2, <2>1, Bystander DEF CacheIInv, Grows
    <2>4. Provenance'
      BY <1>1, <1>2, <2>1, ProvenanceKept DEF CacheIInv
    <2> QED BY <1>2, <2>2, <2>3, <2>4 DEF CacheIInv
  <1>5. CASE calls[r].at # "dial"
    <2>1. Using(r) /\ Discard(c)
      BY <1>1, <1>5 DEF Fail, Using, Bounded
    <2>2. pool' = pool /\ conns' = Without(conns, c)
      BY <2>1 DEF Discard
    <2>3. OneOwner' /\ InSync'
      BY <1>1, <1>2, <2>1, <2>2, LetGo DEF CacheIInv, Grows
    <2>4. /\ stray' \subseteq [key : Keys, value : Values]
          /\ \A m \in stray' : m \in stray \/ m.value \in written[m.key]
      <3>1. stray' = stray \cup {[key |-> m.key, value |-> m.value] :
                                  m \in {x \in Range(conns[c].sent) : x.op = "SET"}}
        BY <2>1 DEF Discard
      <3>2. \A m \in {x \in Range(conns[c].sent) : x.op = "SET"} :
               m.key \in Keys /\ m.value \in Values /\ m.value \in written[m.key]
        BY <1>1, <2>1, SentSet
      <3> QED BY <1>1, <3>1, <3>2 DEF CacheTypeOK
    <2>5. CacheTypeOK'
      <3>1. DOMAIN conns' \subseteq Conns /\ conns' \in [DOMAIN conns' -> [sent : Seq(Commands), replies : Seq(Values \cup {NoValue, OK})]]
        BY <1>1, <2>2 DEF CacheTypeOK, Without
      <3> QED BY <1>1, <1>2, <1>3, <2>2, <2>4, <3>1, TypeKept DEF CacheTypeOK
    <2>6. Provenance'
      BY <1>1, <1>2, <2>4, ProvenanceKept DEF CacheIInv
    <2> QED BY <1>2, <2>3, <2>5, <2>6 DEF CacheIInv
  <1> QED BY <1>4, <1>5

-----------------------------------------------------------------------------
(* The steps of Valkey *)

\* Only a connection on which a call waits has anything outstanding, and it gets
\* the answer to that call's command.
LEMMA ServeIInv ==
    ASSUME CacheIInv, NEW c \in Conns, Serve(c)
    PROVE  CacheIInv'
  <1> DEFINE m == Head(conns[c].sent)
  <1>1. /\ c \in DOMAIN conns /\ conns[c].sent # <<>> /\ CacheTypeOK
        /\ UNCHANGED <<config, pool, calls, cold, stray, written, answer>>
        /\ hot' = IF m.op = "SET" THEN With(hot, m.key, m.value) ELSE hot
    BY DEF Serve, CacheIInv, history
  <1>2. PICK r \in DOMAIN calls : Using(r) /\ calls[r].conn = c
    <2>1. \A n \in DOMAIN pool : pool[n] # c
      BY <1>1, OwingFacts DEF CacheIInv, OneOwner
    <2> QED BY <1>1, <2>1 DEF CacheIInv, OneOwner
  <1>3. PICK n \in Commands : /\ conns[c] = Owing(n)
                              /\ \/ calls[r].at = "greeting" /\ n.op = "hello"
                                 \/ calls[r].at = "reply" /\ n = Command(r)
    <2>1. Synced(r) /\ Command(r) \in Commands
      BY <1>1, <1>2, CommandType DEF CacheIInv, InSync
    <2>2. conns[c] # Idle /\ \A v : conns[c] # Answered(v)
      BY <1>1, OwingFacts, AnsweredFacts
    <2> QED BY <1>2, <2>1, <2>2 DEF Synced, Using
  <1>4. m = n /\ Reply(m) \in Values \cup {NoValue, OK}
    <2>1. m = n
      BY <1>3, OwingFacts
    <2> QED BY <1>1, <2>1 DEF Reply, Lookup, CacheTypeOK
  <1> DEFINE v == Reply(n)
  <1>5. conns' = [conns EXCEPT ![c] = Answered(v)]
    <2>1. conns' = [conns EXCEPT ![c] = [sent |-> Tail(conns[c].sent), replies |-> Append(conns[c].replies, Reply(m))]]
      BY <1>1 DEF Serve
    <2>2. [sent |-> Tail(conns[c].sent), replies |-> Append(conns[c].replies, v)] = Answered(v)
      BY <1>3, OwingFacts, SingleFacts DEF Answered
    <2> QED BY <1>4, <2>1, <2>2
  <1>6. n.op = "SET" => n.key \in Keys /\ n.value \in Values /\ n.value \in written[n.key]
    <2>1. Range(conns[c].sent) = {n}
      BY <1>3, OwingFacts
    <2> QED BY <1>2, <2>1, SentSet
  <1>7. calls[r].at = "reply" => v \in MayAnswer(r)
    <2>1. SUFFICES ASSUME calls[r].at = "reply" PROVE v \in MayAnswer(r)
      OBVIOUS
    <2>2. n = Command(r) /\ n.key = calls[r].key /\ (n.op = "GET" <=> calls[r].op = "get")
      BY <1>3, <2>1 DEF Command
    <2> QED BY <1>1, <2>2 DEF Reply, Lookup, MayAnswer, CacheIInv, Provenance
  <1> HIDE DEF v, m
  <1>8. /\ DOMAIN conns' = DOMAIN conns /\ DOMAIN conns' \subseteq Conns
        /\ conns' \in [DOMAIN conns' -> [sent : Seq(Commands), replies : Seq(Values \cup {NoValue, OK})]]
        /\ conns'[c] = Answered(v) /\ \A d \in DOMAIN conns : d # c => conns'[d] = conns[d]
    BY <1>1, <1>4, <1>5, ConnChanged, ExchangeTypes DEF v
  <1>9. /\ DOMAIN hot' \subseteq Keys /\ hot' \in [DOMAIN hot' -> Values]
        /\ \A k \in DOMAIN hot' : hot'[k] \in written[k]
    <2>1. CASE hot' = hot
      BY <1>1, <2>1 DEF CacheIInv, Provenance, CacheTypeOK
    <2>2. CASE n.op = "SET" /\ hot' = With(hot, n.key, n.value)
      BY <1>1, <1>6, <2>2 DEF With, CacheIInv, Provenance, CacheTypeOK
    <2> QED BY <1>1, <1>4, <2>1, <2>2
  <1>10. CacheTypeOK'
    BY <1>1, <1>8, <1>9 DEF CacheTypeOK
  <1>11. Synced(r)'
    <2>1. CASE calls[r].at = "greeting"
      BY <1>1, <1>2, <1>4, <1>8, <2>1 DEF Synced, v
    <2>2. CASE calls[r].at = "reply"
      <3>1. v \in MayAnswer(r)'
        BY <1>1, <1>7, <2>2 DEF MayAnswer
      <3> QED BY <1>1, <1>2, <1>8, <2>2, <3>1 DEF Synced
    <2> QED BY <1>3, <2>1, <2>2
  <1>12. OneOwner' /\ InSync'
    <2>1. /\ Using(r)' /\ Others(r) /\ r \in DOMAIN calls' /\ calls'[r].conn = calls[r].conn
          /\ Grows /\ pool' = pool
      BY <1>1, <1>2 DEF Using, Others, Grows
    <2> QED BY <1>1, <1>2, <1>8, <1>11, <2>1, Exchange DEF CacheIInv
  <1>13. Provenance'
    BY <1>1, <1>9 DEF CacheIInv, Provenance
  <1> QED BY <1>10, <1>12, <1>13 DEF CacheIInv

\* Valkey changes what it holds, and nothing else in sight.
LEMMA HotChanges ==
    ASSUME CacheIInv, UNCHANGED <<config, pool, conns, calls, cold, written, answer>>,
           stray' \subseteq stray,
           DOMAIN hot' \subseteq Keys, hot' \in [DOMAIN hot' -> Values],
           \A k \in DOMAIN hot' : hot'[k] \in written[k]
    PROVE  CacheIInv'
  <1>1. CacheTypeOK'
    BY DEF CacheIInv, CacheTypeOK
  <1>2. OneOwner'
    BY DEF CacheIInv, OneOwner, Using
  <1>3. InSync'
    BY DEF CacheIInv, InSync, Synced, Using, Command, MayAnswer
  <1>4. Provenance'
    BY DEF CacheIInv, Provenance
  <1> QED BY <1>1, <1>2, <1>3, <1>4 DEF CacheIInv

LEMMA ServeStrayIInv ==
    ASSUME CacheIInv, NEW m \in stray, ServeStray(m)
    PROVE  CacheIInv'
  <1>1. /\ UNCHANGED <<config, pool, conns, calls, cold, written, answer>> /\ stray' \subseteq stray
        /\ hot' \in {hot, With(hot, m.key, m.value)}
    BY DEF ServeStray, history
  <1>2. m.key \in Keys /\ m.value \in Values /\ m.value \in written[m.key]
    BY DEF CacheIInv, CacheTypeOK, Provenance
  <1>3. DOMAIN hot \subseteq Keys /\ hot \in [DOMAIN hot -> Values] /\ \A k \in DOMAIN hot : hot[k] \in written[k]
    BY DEF CacheIInv, CacheTypeOK, Provenance
  <1>4. DOMAIN hot' \subseteq Keys /\ hot' \in [DOMAIN hot' -> Values] /\ \A k \in DOMAIN hot' : hot'[k] \in written[k]
    <2>1. CASE hot' = hot
      BY <1>3, <2>1
    <2>2. CASE hot' = With(hot, m.key, m.value)
      BY <1>2, <1>3, <2>2 DEF With
    <2> QED BY <1>1, <2>1, <2>2
  <1> QED BY <1>1, <1>4, HotChanges

LEMMA HotExpiresIInv ==
    ASSUME CacheIInv, NEW k \in Keys, HotExpires(k)
    PROVE  CacheIInv'
  <1>1. UNCHANGED <<config, pool, conns, calls, cold, stray, written, answer>> /\ hot' = Without(hot, k)
    BY DEF HotExpires, history
  <1>2. DOMAIN hot' \subseteq Keys /\ hot' \in [DOMAIN hot' -> Values] /\ \A j \in DOMAIN hot' : hot'[j] \in written[j]
    BY <1>1 DEF Without, CacheIInv, CacheTypeOK, Provenance
  <1> QED BY <1>1, <1>2, HotChanges

-----------------------------------------------------------------------------
LEMMA CacheNextIInv == CacheIInv /\ [CacheNext]_cacheVars => CacheIInv'
  <1> SUFFICES ASSUME CacheIInv, [CacheNext]_cacheVars PROVE CacheIInv'
    OBVIOUS
  <1>1. ASSUME NEW r \in Requests, RequestStep(r) PROVE CacheIInv'
    BY <1>1, S3GetIInv, S3PutIInv, GetConnIInv, DialIInv, WriteCommandIInv, ReadHelloIInv,
       ReadReplyIInv, FailIInv DEF RequestStep
  <1>2. CASE UNCHANGED cacheVars
    BY <1>2, HotChanges DEF cacheVars, CacheIInv, CacheTypeOK, Provenance
  <1> QED
    BY <1>1, <1>2, GetJSONIInv, SetJSONIInv, ServeIInv, ServeStrayIInv, HotExpiresIInv
    DEF CacheNext

LEMMA InvariantCacheIInv == CacheSpec => []CacheIInv
  BY InitCacheIInv, CacheNextIInv, PTL DEF CacheSpec

\* The cache's state has its type: in particular what a tier holds under a key is
\* a value, never the OK of a SET.
THEOREM CacheTypeCorrect == CacheSpec => []CacheTypeOK
  <1>1. CacheIInv => CacheTypeOK
    BY DEF CacheIInv
  <1> QED BY <1>1, InvariantCacheIInv, PTL

\* Every open connection belongs to the pool or to one call, once, the pool keeps
\* its limit, and nothing is outstanding on what it holds: for any number of
\* calls and connections, whatever times out.
THEOREM PoolDisciplined == CacheSpec => []PoolDiscipline
  <1>1. ASSUME CacheIInv, NEW c \in DOMAIN conns
        PROVE  LET places == {n \in DOMAIN pool : pool[n] = c} \cup {r \in DOMAIN calls : Holds(r, c)}
               IN  \E p \in places : places = {p}
    <2>1. \A r \in DOMAIN calls : Holds(r, c) <=> Using(r) /\ calls[r].conn = c
      BY DEF Holds, At, Using
    <2>2. CASE \E n \in DOMAIN pool : pool[n] = c
      <3>1. PICK n \in DOMAIN pool : pool[n] = c
        BY <2>2
      <3>2. {r \in DOMAIN calls : Holds(r, c)} = {}
        BY <1>1, <2>1, <3>1 DEF CacheIInv, OneOwner
      <3>3. {m \in DOMAIN pool : pool[m] = c} = {n}
        BY <1>1, <3>1 DEF CacheIInv, OneOwner
      <3> QED BY <3>2, <3>3
    <2>3. CASE \E r \in DOMAIN calls : Using(r) /\ calls[r].conn = c
      <3>1. PICK r \in DOMAIN calls : Using(r) /\ calls[r].conn = c
        BY <2>3
      <3>2. {n \in DOMAIN pool : pool[n] = c} = {}
        BY <1>1, <3>1 DEF CacheIInv, OneOwner
      <3>3. {q \in DOMAIN calls : Holds(q, c)} = {r}
        BY <1>1, <2>1, <3>1 DEF CacheIInv, OneOwner
      <3> QED BY <3>2, <3>3
    <2> QED BY <1>1, <2>2, <2>3 DEF CacheIInv, OneOwner
  <1>2. CacheIInv => PoolDiscipline
    BY <1>1 DEF CacheIInv, OneOwner, PoolDiscipline, Idle
  <1> QED BY <1>2, InvariantCacheIInv, PTL

-----------------------------------------------------------------------------
(* The cache implements its contract *)

LEMMA HonestIsContract ==
    ASSUME CacheTypeOK, HonestAnswer, UNCHANGED written
    PROVE  [Contract!Next]_Contract!vars
  <1>1. CASE answer' = answer
    BY <1>1 DEF Contract!vars
  <1>2. CASE /\ answer' \in [key : Keys, value : Values \cup {NoValue}]
             /\ answer'.value \in written[answer'.key] \cup {NoValue}
    <2>1. /\ answer' = [key |-> answer'.key, value |-> answer'.value]
          /\ answer'.key \in Keys /\ answer'.value \in Values \cup {NoValue}
      BY <1>2
    <2>2. Contract!Answer(answer'.key, answer'.value)
      BY <1>2, <2>1 DEF Contract!Answer
    <2> QED BY <2>1, <2>2 DEF Contract!Next
  <1> QED BY <1>1, <1>2 DEF HonestAnswer

\* Every step of the cache is one of the contract, or none of its business.
LEMMA CacheStepIsContract ==
    ASSUME CacheIInv, [CacheNext]_cacheVars
    PROVE  [Contract!Next]_Contract!vars
  <1> CacheTypeOK
    BY DEF CacheIInv
  <1>1. ASSUME NEW r \in Requests, RequestStep(r) PROVE HonestAnswer /\ UNCHANGED written
    <2>1. CASE S3Get(r)
      BY <2>1, S3GetIInv DEF S3Get
    <2>2. CASE ReadReply(r)
      BY <2>2, ReadReplyIInv DEF ReadReply
    <2>3. CASE Fail(r)
      BY <2>3, FailIInv DEF Fail
    <2>4. CASE S3Put(r) \/ GetConn(r) \/ (\E c \in Conns : Dial(r, c)) \/ WriteCommand(r) \/ ReadHello(r)
      BY <2>4 DEF S3Put, GetConn, Dial, WriteCommand, ReadHello, history, HonestAnswer
    <2> QED BY <1>1, <2>1, <2>2, <2>3, <2>4 DEF RequestStep
  <1>2. ASSUME NEW r \in Requests, NEW k \in Keys, NEW v \in ValuesOf[k], SetJSON(r, k, v)
        PROVE  Contract!Next
    <2>1. v \in Values /\ Contract!Store(k, v)
      BY <1>2, ResolveCacheAssumption DEF SetJSON, Contract!Store
    <2> QED BY <2>1 DEF Contract!Next
  <1>3. CASE UNCHANGED <<written, answer>>
    BY <1>3 DEF Contract!vars
  <1>4. ASSUME \/ \E r \in Requests, k \in Keys : GetJSON(r, k)
               \/ \E c \in Conns : Serve(c)
               \/ \E m \in stray : ServeStray(m)
               \/ \E k \in Keys : HotExpires(k)
               \/ UNCHANGED cacheVars
        PROVE  UNCHANGED <<written, answer>>
    BY <1>4 DEF GetJSON, Serve, ServeStray, HotExpires, cacheVars, history
  <1> QED BY <1>1, <1>2, <1>3, <1>4, HonestIsContract DEF CacheNext

\* No lookup is answered with another key's value: the two tiers and the
\* connection pool implement the contract the packages above rely on, for all
\* keys, values, calls, connections and configurations.
THEOREM CacheAnswersItsKey == CacheSpec => AnswersItsKey
  <1>1. CacheInit => Contract!Init
    BY DEF CacheInit, Contract!Init
  <1>2. CacheIInv /\ [CacheNext]_cacheVars => [Contract!Next]_Contract!vars
    BY CacheStepIsContract
  <1> QED BY <1>1, <1>2, InvariantCacheIInv, PTL DEF CacheSpec, AnswersItsKey, Contract!Spec
=============================================================================
