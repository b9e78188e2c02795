------------------------- MODULE RateLimiterProofs -------------------------
(***************************************************************************)
(* The limiter's guarantees for every number of keys and requests, every   *)
(* rate and burst, and every stall the idle time covers.                   *)
(***************************************************************************)
EXTENDS RateLimiter, TLAPS

\* A clock value that a running call or sweep still holds is at most MaxStall
\* old, and a cutoff is never newer than the idle time allows.
Readings ==
    /\ \A r \in DOMAIN calls : calls[r].t <= now /\ now - calls[r].t <= MaxStall
    /\ cutoff <= now - IdleTTL
    /\ wStart <= now

\* A bucket is never ahead of the clock, and the debt it carries is never more
\* than what has refilled since the latest reading it was charged with.
Debt ==
    \A k \in DOMAIN buckets :
        /\ buckets[k].lastSeen <= now
        /\ buckets[k].tokens - buckets[k].lastSeen >= 0 - now

\* tokens - lastSeen never grows while a bucket lives, which pays for what the
\* window has spent; an evicted bucket has been paid for by the clock alone.
Account ==
    /\ \A k \in DOMAIN buckets : spent[k] > 0 =>
          spent[k] + buckets[k].tokens - buckets[k].lastSeen
              <= Burst + MaxStall - wStart
    /\ \A k \in Keys \ DOMAIN buckets : spent[k] <= now - wStart

\* The inductive invariant.
IInv == TypeOK /\ Readings /\ Debt /\ Account

-----------------------------------------------------------------------------
\* A call finds a bucket that is neither over full nor deeper in debt than its
\* own clock reading lags (ratelimit.go:47-58).
LEMMA RefillBounds ==
    ASSUME IInv, NEW r \in DOMAIN calls
    PROVE  /\ Refill(calls[r].key, calls[r].t) \in (0 - MaxStall)..Burst
           /\ Refill(calls[r].key, calls[r].t) - calls[r].t >= 0 - now
  <1> DEFINE k == calls[r].key
             t == calls[r].t
  <1>1. /\ k \in Keys /\ t \in Nat /\ now \in Nat
        /\ t <= now /\ now - t <= MaxStall
    BY DEF IInv, TypeOK, Readings
  <1>2. CASE k \notin DOMAIN buckets
    BY <1>1, <1>2, LimiterAssumption DEF Refill
  <1>3. CASE k \in DOMAIN buckets
    <2>1. /\ buckets[k].tokens \in Int /\ buckets[k].lastSeen \in Int
          /\ buckets[k].tokens - buckets[k].lastSeen >= 0 - now
      BY <1>3, LimiterAssumption DEF IInv, TypeOK, Debt
    <2> QED BY <1>1, <1>3, <2>1, LimiterAssumption DEF Refill
  <1> QED BY <1>2, <1>3

\* What the refill does to the account of the window: while the window has spent
\* something, tokens - lastSeen has not grown, and a bucket that was evicted is
\* recreated no fuller than the clock has already paid for.
LEMMA RefillAccount ==
    ASSUME IInv, NEW r \in DOMAIN calls
    PROVE  spent[calls[r].key] + Refill(calls[r].key, calls[r].t) - calls[r].t
              <= Burst + MaxStall - wStart
  <1> DEFINE k == calls[r].key
             t == calls[r].t
  <1>1. /\ k \in Keys /\ t \in Nat /\ now \in Nat /\ wStart \in Nat
        /\ t <= now /\ now - t <= MaxStall /\ wStart <= now
        /\ spent[k] \in Nat
    BY DEF IInv, TypeOK, Readings
  <1>2. Refill(k, t) \in Int /\ Refill(k, t) <= Burst
    BY RefillBounds, LimiterAssumption
  <1>3. CASE k \notin DOMAIN buckets
    <2>1. spent[k] <= now - wStart
      BY <1>1, <1>3 DEF IInv, Account
    <2> QED BY <1>1, <1>2, <2>1, LimiterAssumption
  <1>4. CASE k \in DOMAIN buckets /\ spent[k] = 0
    BY <1>1, <1>2, <1>4, LimiterAssumption
  <1>5. CASE k \in DOMAIN buckets /\ spent[k] > 0
    <2>1. /\ buckets[k].tokens \in Int /\ buckets[k].lastSeen \in Int
          /\ spent[k] + buckets[k].tokens - buckets[k].lastSeen
                <= Burst + MaxStall - wStart
      BY <1>5, LimiterAssumption DEF IInv, TypeOK, Account
    <2>2. Refill(k, t) <= buckets[k].tokens + (t - buckets[k].lastSeen)
      BY <1>1, <1>5, <2>1, LimiterAssumption DEF Refill
    <2> QED BY <1>1, <1>2, <2>1, <2>2, LimiterAssumption
  <1> QED BY <1>1, <1>3, <1>4, <1>5

LEMMA InitIInv == Init => IInv
  BY LimiterAssumption DEF Init, IInv, TypeOK, Readings, Debt, Account

\* Charging a call (Admit) preserves the invariant.
LEMMA AdmitIInv ==
    ASSUME IInv, NEW r \in Requests, Admit(r)
    PROVE  IInv'
  <1> DEFINE k == calls[r].key
             t == calls[r].t
             n == Refill(k, t)
  <1>1. /\ r \in DOMAIN calls /\ n >= Cost /\ k \in Keys /\ t \in Nat
        /\ t <= now /\ now - t <= MaxStall /\ now \in Nat
    BY DEF Admit, IInv, TypeOK, Readings
  <1>2. n \in (0 - MaxStall)..Burst
    BY <1>1, RefillBounds
  <1>3. spent[k] + n - t <= Burst + MaxStall - wStart
    BY <1>1, RefillAccount
  <1>4. /\ buckets' = [j \in DOMAIN buckets \cup {k} |->
              IF j = k THEN [tokens |-> n - Cost, lastSeen |-> t] ELSE buckets[j]]
        /\ spent' = [spent EXCEPT ![k] = @ + Cost]
        /\ calls' = [q \in DOMAIN calls \ {r} |-> calls[q]]
        /\ UNCHANGED <<now, sweeper, cutoff, wStart>>
    BY DEF Admit, SetBucket, Return
  <1> HIDE DEF k, t, n
  <1>5. TypeOK'
    BY <1>1, <1>2, <1>4, LimiterAssumption DEF IInv, TypeOK
  <1>6. Readings'
    BY <1>4 DEF IInv, Readings
  <1>7. Debt'
    BY <1>1, <1>2, <1>4, LimiterAssumption DEF IInv, TypeOK, Debt
  <1>8. Account'
    <2> SUFFICES ASSUME NEW j \in Keys
                 PROVE  /\ j \in DOMAIN buckets' /\ spent'[j] > 0 =>
                             spent'[j] + buckets'[j].tokens - buckets'[j].lastSeen
                                <= Burst + MaxStall - wStart
                        /\ j \notin DOMAIN buckets' => spent'[j] <= now - wStart
      BY <1>4, <1>5 DEF Account, TypeOK
    <2>1. CASE j = k
      BY <1>1, <1>2, <1>3, <1>4, <2>1, LimiterAssumption DEF IInv, TypeOK
    <2>2. CASE j # k
      BY <1>4, <2>2 DEF IInv, TypeOK, Account
    <2> QED BY <2>1, <2>2
  <1> QED BY <1>5, <1>6, <1>7, <1>8 DEF IInv

\* Refusing a call (Deny) preserves the invariant: the refill and lastSeen are
\* stored all the same.
LEMMA DenyIInv ==
    ASSUME IInv, NEW r \in Requests, Deny(r)
    PROVE  IInv'
  <1> DEFINE k == calls[r].key
             t == calls[r].t
             n == Refill(k, t)
  <1>1. /\ r \in DOMAIN calls /\ k \in Keys /\ t \in Nat
        /\ t <= now /\ now - t <= MaxStall /\ now \in Nat
    BY DEF Deny, IInv, TypeOK, Readings
  <1>2. n \in (0 - MaxStall)..Burst /\ n - t >= 0 - now
    BY <1>1, RefillBounds
  <1>3. spent[k] + n - t <= Burst + MaxStall - wStart
    BY <1>1, RefillAccount
  <1>4. /\ buckets' = [j \in DOMAIN buckets \cup {k} |->
              IF j = k THEN [tokens |-> n, lastSeen |-> t] ELSE buckets[j]]
        /\ calls' = [q \in DOMAIN calls \ {r} |-> calls[q]]
        /\ UNCHANGED <<now, sweeper, cutoff, wStart, spent>>
    BY DEF Deny, SetBucket, Return
  <1> HIDE DEF k, t, n
  <1>5. TypeOK'
    BY <1>1, <1>2, <1>4, LimiterAssumption DEF IInv, TypeOK
  <1>6. Readings'
    BY <1>4 DEF IInv, Readings
  <1>7. Debt'
    BY <1>1, <1>2, <1>4, LimiterAssumption DEF IInv, TypeOK, Debt
  <1>8. Account'
    <2> SUFFICES ASSUME NEW j \in Keys
                 PROVE  /\ j \in DOMAIN buckets' /\ spent[j] > 0 =>
                             spent[j] + buckets'[j].tokens - buckets'[j].lastSeen
                                <= Burst + MaxStall - wStart
                        /\ j \notin DOMAIN buckets' => spent[j] <= now - wStart
      BY <1>4, <1>5 DEF Account, TypeOK
    <2>1. CASE j = k
      BY <1>1, <1>2, <1>3, <1>4, <2>1, LimiterAssumption DEF IInv, TypeOK
    <2>2. CASE j # k
      BY <1>4, <2>2 DEF IInv, TypeOK, Account
    <2> QED BY <2>1, <2>2
  <1> QED BY <1>5, <1>6, <1>7, <1>8 DEF IInv

\* What a sweep removes has refilled completely, even for the call whose clock
\* reading is the oldest one possible.
LEMMA EvictedIsFull ==
    ASSUME IInv, NEW k \in DOMAIN buckets, Idle(k, cutoff)
    PROVE  buckets[k].tokens + (now - MaxStall - buckets[k].lastSeen) >= Burst
  <1>1. /\ buckets[k].tokens \in Int /\ buckets[k].tokens >= 0 - MaxStall
        /\ buckets[k].lastSeen \in Nat /\ now \in Nat /\ cutoff \in Int
        /\ cutoff <= now - IdleTTL
    BY LimiterAssumption DEF IInv, TypeOK, Readings
  <1> QED BY <1>1, LimiterAssumption, IdleOutlivesRefill DEF Idle

\* A sweep preserves the invariant: what it forgets has been paid for.
LEMMA CleanupIInv ==
    ASSUME IInv, Cleanup
    PROVE  IInv'
  <1>1. /\ buckets' = [k \in {j \in DOMAIN buckets : ~Idle(j, cutoff)} |-> buckets[k]]
        /\ sweeper' = "waiting" /\ cutoff' = 0 - IdleTTL
        /\ UNCHANGED <<now, calls, wStart, spent>>
    BY DEF Cleanup
  <1>2. TypeOK'
    BY <1>1, LimiterAssumption DEF IInv, TypeOK
  <1>3. Readings'
    BY <1>1, LimiterAssumption DEF IInv, TypeOK, Readings
  <1>4. Debt'
    BY <1>1 DEF IInv, Debt
  <1>5. Account'
    <2>1. \A k \in DOMAIN buckets' : k \in DOMAIN buckets /\ buckets'[k] = buckets[k]
      BY <1>1
    <2>2. ASSUME NEW k \in Keys \ DOMAIN buckets'
          PROVE  spent[k] <= now - wStart
      <3>0. /\ spent[k] \in Nat /\ now \in Nat /\ wStart \in Nat /\ wStart <= now
        BY DEF IInv, TypeOK, Readings
      <3>1. CASE k \notin DOMAIN buckets \/ spent[k] = 0
        BY <3>0, <3>1 DEF IInv, Account
      <3>2. CASE k \in DOMAIN buckets /\ spent[k] > 0
        <4>1. buckets[k].tokens + (now - MaxStall - buckets[k].lastSeen) >= Burst
          BY <1>1, <3>2, EvictedIsFull
        <4>2. /\ buckets[k].tokens \in Int /\ buckets[k].lastSeen \in Int
              /\ spent[k] + buckets[k].tokens - buckets[k].lastSeen
                    <= Burst + MaxStall - wStart
          BY <3>2, LimiterAssumption DEF IInv, TypeOK, Account
        <4> QED BY <3>0, <4>1, <4>2, LimiterAssumption
      <3> QED BY <3>0, <3>1, <3>2
    <2> QED BY <1>1, <2>1, <2>2 DEF IInv, Account
  <1> QED BY <1>2, <1>3, <1>4, <1>5 DEF IInv

LEMMA StepIInv == IInv /\ [Next]_vars => IInv'
  <1> SUFFICES ASSUME IInv, [Next]_vars
               PROVE  IInv'
    OBVIOUS
  <1>1. ASSUME NEW r \in Requests, NEW k \in Keys, ReadClock(r, k)
        PROVE  IInv'
    <2>1. /\ calls' = [q \in DOMAIN calls \cup {r} |->
                          IF q = r THEN [key |-> k, t |-> now] ELSE calls[q]]
          /\ UNCHANGED <<now, buckets, sweeper, cutoff, wStart, spent>>
      BY <1>1 DEF ReadClock
    <2>2. TypeOK'
      BY <2>1 DEF IInv, TypeOK
    <2>3. Readings'
      BY <2>1, LimiterAssumption DEF IInv, TypeOK, Readings
    <2>4. Debt' /\ Account'
      BY <2>1 DEF IInv, Debt, Account
    <2> QED BY <2>2, <2>3, <2>4 DEF IInv
  <1>2. ASSUME NEW r \in Requests, Admit(r) PROVE IInv'
    BY <1>2, AdmitIInv
  <1>3. ASSUME NEW r \in Requests, Deny(r) PROVE IInv'
    BY <1>3, DenyIInv
  <1>4. CASE BeginCleanup
    BY <1>4, LimiterAssumption
       DEF BeginCleanup, IInv, TypeOK, Readings, Debt, Account
  <1>5. CASE Cleanup
    BY <1>5, CleanupIInv
  <1>6. CASE StopCleanup
    BY <1>6 DEF StopCleanup, IInv, TypeOK, Readings, Debt, Account
  <1>7. CASE Tick
    <2>1. /\ now' = now + 1
          /\ \A r \in DOMAIN calls : now + 1 - calls[r].t <= MaxStall
          /\ UNCHANGED <<buckets, calls, sweeper, cutoff, wStart, spent>>
      BY <1>7 DEF Tick
    <2>2. TypeOK' /\ Readings'
      BY <2>1, LimiterAssumption DEF IInv, TypeOK, Readings
    <2>3. Debt'
      BY <2>1, LimiterAssumption DEF IInv, TypeOK, Debt
    <2>4. Account'
      BY <2>1 DEF IInv, TypeOK, Account
    <2> QED BY <2>2, <2>3, <2>4 DEF IInv
  <1>8. CASE NewWindow
    <2>1. /\ wStart' = now /\ spent' = [k \in Keys |-> 0]
          /\ UNCHANGED <<now, buckets, calls, sweeper, cutoff>>
      BY <1>8 DEF NewWindow
    <2>2. TypeOK' /\ Readings' /\ Debt'
      BY <2>1 DEF IInv, TypeOK, Readings, Debt
    <2>3. Account'
      BY <2>1 DEF IInv, TypeOK, Account
    <2> QED BY <2>2, <2>3 DEF IInv
  <1>9. CASE UNCHANGED vars
    BY <1>9 DEF vars, IInv, TypeOK, Readings, Debt, Account
  <1> QED BY <1>1, <1>2, <1>3, <1>4, <1>5, <1>6, <1>7, <1>8, <1>9 DEF Next

LEMMA InvariantIInv == Spec => []IInv
  BY InitIInv, StepIInv, PTL DEF Spec

-----------------------------------------------------------------------------
\* Every bucket stays within its range, however the clock readings of racing
\* requests are ordered (ratelimit.go:42-65).
THEOREM TypeCorrect == Spec => []TypeOK
  <1>1. IInv => TypeOK
    BY DEF IInv
  <1> QED BY <1>1, InvariantIInv, PTL

\* In every window a key consumes at most the burst, the refill of the window
\* and the longest stall (ratelimit.go:28-65, evictions of 70-79 included).
THEOREM RateIsBounded == Spec => []RateGuarantee
  <1>1. ASSUME IInv PROVE RateGuarantee
    <2> SUFFICES ASSUME NEW k \in Keys
                 PROVE  spent[k] <= Burst + (now - wStart) + MaxStall
      BY DEF RateGuarantee
    <2>1. /\ spent[k] \in Nat /\ now \in Nat /\ wStart \in Nat /\ wStart <= now
      BY <1>1 DEF IInv, TypeOK, Readings
    <2>2. CASE k \notin DOMAIN buckets \/ spent[k] = 0
      BY <1>1, <2>1, <2>2, LimiterAssumption DEF IInv, Account
    <2>3. CASE k \in DOMAIN buckets /\ spent[k] > 0
      <3>1. /\ buckets[k].tokens \in Int /\ buckets[k].lastSeen \in Int
            /\ buckets[k].tokens - buckets[k].lastSeen >= 0 - now
            /\ spent[k] + buckets[k].tokens - buckets[k].lastSeen
                  <= Burst + MaxStall - wStart
        BY <1>1, <2>3, LimiterAssumption DEF IInv, TypeOK, Debt, Account
      <3> QED BY <2>1, <3>1, LimiterAssumption
    <2> QED BY <2>1, <2>2, <2>3
  <1> QED BY <1>1, InvariantIInv, PTL

\* A sweep never gives a key tokens it had not earned: it removes only buckets
\* that are full for whoever asks next (ratelimit.go:74-78).
THEOREM EvictionNeverObserved == Spec => EvictionIsInvisible
  <1> DEFINE P == \A k \in DOMAIN buckets : k \notin DOMAIN buckets' =>
                    buckets[k].tokens + (now - MaxStall - buckets[k].lastSeen) >= Burst
  <1>1. ASSUME IInv, [Next]_vars
        PROVE  [P]_vars
    <2> SUFFICES ASSUME Next, NEW k \in DOMAIN buckets, k \notin DOMAIN buckets'
                 PROVE  buckets[k].tokens + (now - MaxStall - buckets[k].lastSeen) >= Burst
      BY <1>1
    <2>1. Cleanup
      BY DEF Next, ReadClock, Admit, Deny, SetBucket, BeginCleanup, StopCleanup,
             Tick, NewWindow
    <2>2. Idle(k, cutoff)
      BY <2>1 DEF Cleanup
    <2> QED BY <1>1, <2>2, EvictedIsFull
  <1> QED BY <1>1, InvariantIInv, PTL DEF Spec, EvictionIsInvisible

\* A client that spaces its requests by Cost + MaxStall is admitted every time
\* (ratelimit.go:52-64).
THEOREM PoliteClientNeverRefused == Spec => PoliteClientAdmitted
  <1> DEFINE P == \A r \in DOMAIN calls :
                    LET k == calls[r].key
                    IN  /\ r \notin DOMAIN calls'
                        /\ k \in DOMAIN buckets
                        /\ calls[r].t - buckets[k].lastSeen >= Cost + MaxStall
                        => spent'[k] = spent[k] + Cost
  <1>1. ASSUME IInv, [Next]_vars
        PROVE  [P]_vars
    <2> SUFFICES ASSUME Next, NEW r \in DOMAIN calls, r \notin DOMAIN calls',
                        calls[r].key \in DOMAIN buckets,
                        calls[r].t - buckets[calls[r].key].lastSeen >= Cost + MaxStall
                 PROVE  spent'[calls[r].key] = spent[calls[r].key] + Cost
      BY <1>1
    <2> DEFINE k == calls[r].key
    <2>1. /\ buckets[k].tokens \in Int /\ buckets[k].tokens >= 0 - MaxStall
          /\ buckets[k].lastSeen \in Nat /\ calls[r].t \in Nat
          /\ k \in Keys /\ spent \in [Keys -> Nat]
      BY <1>1, LimiterAssumption DEF IInv, TypeOK
    <2>2. Refill(k, calls[r].t) >= Cost
      BY <2>1, LimiterAssumption DEF Refill
    <2>3. Refill(k, calls[r].t) \in Int
      BY <1>1, RefillBounds, LimiterAssumption
    <2>4. ~Deny(r)
      BY <2>2, <2>3, LimiterAssumption DEF Deny
    <2>5. Admit(r)
      BY <2>4 DEF Next, ReadClock, Admit, Deny, Return, BeginCleanup, Cleanup,
             StopCleanup, Tick, NewWindow
    <2> QED BY <2>1, <2>5 DEF Admit
  <1> QED BY <1>1, InvariantIInv, PTL DEF Spec, PoliteClientAdmitted
=============================================================================
