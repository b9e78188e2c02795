---------------------------- MODULE RateLimiter ----------------------------
(***************************************************************************)
(* internal/ratelimit: the per-key token bucket that guards the expensive  *)
(* endpoints.  A request reads the clock BEFORE it takes the mutex         *)
(* (ratelimit.go:43-44), and Cleanup computes its cutoff before it does    *)
(* (71-72), so a bucket can be charged with, or evicted against, a time    *)
(* that is already old, and a bucket's lastSeen can move backwards.        *)
(*                                                                         *)
(* Units: one tick of the clock is the time in which a bucket refills one  *)
(* unit, and one token of the code is Cost units.  New(0.5, 15, ..) is     *)
(* Cost = 2, Burst = 30 with a tick of one second, New(0.1, 3, ..) is      *)
(* Cost = 10, Burst = 30.  No rounding is involved: the rate is absorbed   *)
(* by the unit.                                                            *)
(***************************************************************************)
EXTENDS Integers

CONSTANTS
    Keys,       \* client addresses
    Requests,   \* handler goroutines that can be inside Allow at one time
    Cost,       \* units one admitted request consumes (one token)
    Burst,      \* capacity of a bucket, in units
    IdleTTL,    \* how long an untouched bucket is kept, in ticks
    MaxStall,   \* longest time from a clock read to the end of the locked section
    MaxTime     \* bound on the clock, for model checking

ASSUME LimiterAssumption ==
    /\ Cost \in Nat \ {0}
    /\ Burst \in Nat /\ Burst >= Cost
    /\ MaxStall \in Nat
    /\ IdleTTL \in Nat
    /\ MaxTime \in Nat

\* main.go:575-586 keeps a bucket for 600 seconds and a bucket refills in at
\* most 30: eviction happens far later than the longest refill.
ASSUME IdleOutlivesRefill == IdleTTL >= Burst + 2 * MaxStall

VARIABLES
    now,        \* the (monotonic) clock
    buckets,    \* the map key -> [tokens, lastSeen]
    calls,      \* request -> [key, t] for the calls of Allow that have read the
                \* clock (t) and not yet had the mutex
    sweeper,    \* "waiting" | "locking" | "returned": the StartCleanup goroutine
    cutoff,     \* the cutoff the running Cleanup computed (0 - IdleTTL: none)
    wStart,     \* history: beginning of an arbitrary observation window
    spent       \* history: units each key consumed inside the window

vars == <<now, buckets, calls, sweeper, cutoff, wStart, spent>>

-----------------------------------------------------------------------------
(* Allow *)

\* Mutant of Refill: the elapsed time is subtracted the wrong way round.
Refill_Swapped(k, t) ==
    IF k \notin DOMAIN buckets
    THEN Burst ELSE buckets[k].tokens + (buckets[k].lastSeen - t)

\* Allow's bucket after the refill (lines 47-58): a fresh one holds Burst; an
\* existing one gains the elapsed time, which is negative when another request
\* with a later clock reading got the mutex first, and is capped at Burst.
Refill(k, t) ==
    IF k \notin DOMAIN buckets
    THEN Burst
    ELSE LET refilled == buckets[k].tokens + (t - buckets[k].lastSeen)
         IN  IF refilled > Burst THEN Burst ELSE refilled

SetBucket(k, n, t) ==
    buckets' = [j \in DOMAIN buckets \cup {k} |->
                    IF j = k THEN [tokens |-> n, lastSeen |-> t] ELSE buckets[j]]

\* now := time.Now() (line 43), outside the mutex.
ReadClock(r, k) ==
    /\ r \notin DOMAIN calls
    /\ calls' = [q \in DOMAIN calls \cup {r} |->
                   IF q = r THEN [key |-> k, t |-> now] ELSE calls[q]]
    /\ UNCHANGED <<now, buckets, sweeper, cutoff, wStart, spent>>

\* The deferred Unlock and the return to the handler.
Return(r) == calls' = [q \in DOMAIN calls \ {r} |-> calls[q]]

\* The locked section when a whole token is there: consume it, return true.
Admit(r) ==
    /\ r \in DOMAIN calls
    /\ LET k == calls[r].key
           n == Refill(k, calls[r].t)
       IN  /\ n >= Cost
           /\ SetBucket(k, n - Cost, calls[r].t)
           /\ spent' = [spent EXCEPT ![k] = @ + Cost]
    /\ Return(r)
    /\ UNCHANGED <<now, sweeper, cutoff, wStart>>

\* The locked section otherwise: the refill and lastSeen are kept, return false.
Deny(r) ==
    /\ r \in DOMAIN calls
    /\ LET k == calls[r].key
           n == Refill(k, calls[r].t)
       IN  /\ n < Cost
           /\ SetBucket(k, n, calls[r].t)
    /\ Return(r)
    /\ UNCHANGED <<now, sweeper, cutoff, wStart, spent>>

-----------------------------------------------------------------------------
(* Cleanup and its goroutine *)

\* Mutant of BeginCleanup: the idle time is not subtracted.
BeginCleanup_NoTTL ==
    /\ sweeper = "waiting"
    /\ sweeper' = "locking"
    /\ cutoff' = now
    /\ UNCHANGED <<now, buckets, calls, wStart, spent>>

\* A tick of StartCleanup's ticker enters Cleanup, which computes its cutoff
\* outside the mutex (line 71).  The ticker's period is left out: a sweep may
\* begin at any time.
BeginCleanup ==
    /\ sweeper = "waiting"
    /\ sweeper' = "locking"
    /\ cutoff' = now - IdleTTL
    /\ UNCHANGED <<now, buckets, calls, wStart, spent>>

\* Mutant of Idle: After for Before, so the recently seen buckets go.
Idle_After(k, c) == buckets[k].lastSeen > c

\* b.lastSeen.Before(cutoff), line 75.
Idle(k, c) == buckets[k].lastSeen < c

\* The locked loop: every bucket last seen before the cutoff is deleted.
Cleanup ==
    /\ sweeper = "locking"
    /\ buckets' = [k \in {j \in DOMAIN buckets : ~Idle(j, cutoff)} |-> buckets[k]]
    /\ sweeper' = "waiting"
    /\ cutoff' = 0 - IdleTTL
    /\ UNCHANGED <<now, calls, wStart, spent>>

\* close(stopCleanup) at shutdown: the select returns, Allow goes on working.
StopCleanup ==
    /\ sweeper = "waiting"
    /\ sweeper' = "returned"
    /\ UNCHANGED <<now, buckets, calls, cutoff, wStart, spent>>

-----------------------------------------------------------------------------
(* Environment *)

\* Time passes, but never so far that a request or a sweep that has read the
\* clock is more than MaxStall behind it.
Tick ==
    /\ now < MaxTime
    /\ \A r \in DOMAIN calls : now + 1 - calls[r].t <= MaxStall
    /\ now' = now + 1
    /\ UNCHANGED <<buckets, calls, sweeper, cutoff, wStart, spent>>

\* History only: the observation window may be moved to begin at any moment.
NewWindow ==
    /\ wStart # now \/ \E k \in Keys : spent[k] # 0
    /\ wStart' = now
    /\ spent' = [k \in Keys |-> 0]
    /\ UNCHANGED <<now, buckets, calls, sweeper, cutoff>>

-----------------------------------------------------------------------------
\* New (lines 31-38): an empty map; StartCleanup has been called.
Init ==
    /\ now = 0
    /\ buckets = [k \in {} |-> [tokens |-> 0, lastSeen |-> 0]]
    /\ calls = [r \in {} |-> [key |-> r, t |-> 0]]
    /\ sweeper = "waiting"
    /\ cutoff = 0 - IdleTTL
    /\ wStart = 0
    /\ spent = [k \in Keys |-> 0]

Next ==
    \/ \E r \in Requests, k \in Keys : ReadClock(r, k)
    \/ \E r \in Requests : Admit(r)
    \/ \E r \in Requests : Deny(r)
    \/ BeginCleanup
    \/ Cleanup
    \/ StopCleanup
    \/ Tick
    \/ NewWindow

Spec == Init /\ [][Next]_vars

-----------------------------------------------------------------------------
(* Properties *)

\* The types, with the range of a bucket: Allow never leaves more than Burst
\* tokens in it (line 54), and a request that lost the race for the mutex never
\* takes it further into debt than MaxStall (line 52 with a negative elapsed).
TypeOK ==
    /\ now \in Nat
    /\ DOMAIN buckets \subseteq Keys
    /\ \A k \in DOMAIN buckets : buckets[k] \in [tokens : (0 - MaxStall)..Burst, lastSeen : Nat]
    /\ DOMAIN calls \subseteq Requests
    /\ \A r \in DOMAIN calls : calls[r] \in [key : Keys, t : Nat]
    /\ sweeper \in {"waiting", "locking", "returned"}
    /\ cutoff \in Int
    /\ wStart \in Nat
    /\ spent \in [Keys -> Nat]

\* What the limiter is for ("ratePerSec sustained requests per key, with bursts
\* up to burst", ratelimit.go:28-30): in EVERY window of time a key consumes at
\* most a full bucket, plus what refills during the window, plus the MaxStall
\* by which a clock reading may lag the mutex, whatever the interleaving of
\* requests and however often Cleanup evicts the bucket in between.
RateGuarantee ==
    \A k \in Keys : spent[k] <= Burst + (now - wStart) + MaxStall

\* Cleanup forgets a key only when forgetting cannot be observed: any request
\* that can still be in flight would have found the evicted bucket full, which
\* is exactly what a missing bucket stands for (ratelimit.go:48-49, 74-78).
EvictionIsInvisible ==
    [][\A k \in DOMAIN buckets : k \notin DOMAIN buckets' =>
          buckets[k].tokens + (now - MaxStall - buckets[k].lastSeen) >= Burst]_vars

\* A client that leaves Cost + MaxStall ticks between its requests is never
\* refused: a late clock reading can put a bucket into debt (negative elapsed,
\* line 52), but never so deep that a well-behaved client pays for it.
PoliteClientAdmitted ==
    [][\A r \in DOMAIN calls :
          LET k == calls[r].key
          IN  /\ r \notin DOMAIN calls'
              /\ k \in DOMAIN buckets
              /\ calls[r].t - buckets[k].lastSeen >= Cost + MaxStall
              => spent'[k] = spent[k] + Cost]_vars
=============================================================================
