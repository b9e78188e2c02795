---------------------------- MODULE ResolveCache ----------------------------
(***************************************************************************)
(* internal/rcache: GetJSON and SetJSON over two tiers, Valkey (hot, with  *)
(* a time to live) and S3 (permanent), and the hand-written Valkey client  *)
(* with its pool of connections.                                           *)
(*                                                                         *)
(* A connection answers commands in the order it received them and a reply *)
(* does not say which command it belongs to: a connection that goes back   *)
(* to the pool with a reply outstanding hands the next caller somebody     *)
(* else's data.  A command may also be carried out after its caller has    *)
(* timed out and closed the connection.                                    *)
(*                                                                         *)
(* Values stand for encoded results; a reply that is no value (the OK of a *)
(* SET) does not decode.                                                   *)
(***************************************************************************)
EXTENDS Integers, Sequences, Functions

CONSTANTS
    Requests,       \* goroutines inside GetJSON or SetJSON
    Keys, Values,
    ValuesOf,       \* key -> the values SetJSON is called with
    Conns,          \* names for connections, reused after a close
    PoolMax,        \* valkeyPoolMax
    Configs         \* the configurations New may build

NoValue == "no value"
OK == "OK"

ASSUME ResolveCacheAssumption ==
    /\ ValuesOf \in [Keys -> SUBSET Values]
    /\ NoValue \notin Values /\ OK \notin Values
    /\ PoolMax \in Nat
    /\ Configs \subseteq [valkey : BOOLEAN, s3 : BOOLEAN, hello : BOOLEAN]
    \* main installs the cache only when Enabled: a tier is configured.
    /\ \A c \in Configs : c.valkey \/ c.s3

VARIABLES
    config,     \* which tiers New found; hello: AUTH or SELECT is needed
    pool,       \* idle connections, the last one is taken first
    conns,      \* open connection -> [sent, replies]
    calls,      \* request -> [op, key, value, at, conn]
    hot, cold,  \* key -> value, what the tiers hold
    stray,      \* SETs whose caller gave up and which Valkey may still carry out
    written,    \* history: key -> values ever given to SetJSON
    answer      \* history: the last answer of GetJSON

cacheVars == <<config, pool, conns, calls, hot, cold, stray, written, answer>>
tiers == <<hot, cold>>
history == <<written, answer>>

-----------------------------------------------------------------------------
Without(f, k) == [j \in DOMAIN f \ {k} |-> f[j]]
With(f, k, v) == [j \in DOMAIN f \cup {k} |-> IF j = k THEN v ELSE f[j]]
Lookup(f, k) == IF k \in DOMAIN f THEN f[k] ELSE NoValue

At(r, places) == r \in DOMAIN calls /\ calls[r].at \in places
Goto(r, a) == calls' = [calls EXCEPT ![r].at = a]

-----------------------------------------------------------------------------
(* GetJSON and SetJSON *)

Start(r, op, k, v) ==
    /\ r \notin DOMAIN calls
    /\ calls' = With(calls, r, [op |-> op, key |-> k, value |-> v, conn |-> NoValue,
                                at |-> IF config.valkey THEN "conn" ELSE "s3"])

GetJSON(r, k) ==
    /\ Start(r, "get", k, NoValue)
    /\ UNCHANGED <<config, pool, conns, tiers, stray, history>>

SetJSON(r, k, v) ==
    /\ Start(r, "set", k, v)
    /\ written' = [written EXCEPT ![k] = @ \cup {v}]
    /\ UNCHANGED <<config, pool, conns, tiers, stray, answer>>

\* GetJSON returns; NoValue is ok = false.
ReturnValue(r, v) ==
    /\ calls' = Without(calls, r)
    /\ answer' = [key |-> calls[r].key, value |-> v]

\* What follows the Valkey exchange: v is the value it produced, if any.  An
\* error, a nil and a value that does not decode all send a lookup to S3.
AfterValkey(r, v) ==
    LET call == calls[r] IN
    IF call.op = "backfill" THEN ReturnValue(r, call.value)
    ELSE IF call.op = "get" /\ v \in Values THEN ReturnValue(r, v)
    ELSE IF config.s3
    THEN calls' = [calls EXCEPT ![r].at = "s3", ![r].conn = NoValue] /\ UNCHANGED answer
    ELSE IF call.op = "get" THEN ReturnValue(r, NoValue)
    ELSE calls' = Without(calls, r) /\ UNCHANGED answer

\* The S3 tier of a lookup: a hit backfills Valkey, a miss or an error answers.
S3Get(r) ==
    /\ At(r, {"s3"}) /\ calls[r].op = "get"
    /\ \E v \in {Lookup(cold, calls[r].key), NoValue} :
          IF v # NoValue /\ config.valkey
          THEN /\ calls' = [calls EXCEPT ![r].op = "backfill", ![r].value = v, ![r].at = "conn"]
               /\ UNCHANGED answer
          ELSE ReturnValue(r, v)
    /\ UNCHANGED <<config, pool, conns, tiers, stray, written>>

\* The S3 tier of a store, which may fail; SetJSON returns either way.
S3Put(r) ==
    /\ At(r, {"s3"}) /\ calls[r].op = "set"
    /\ cold' \in {cold, With(cold, calls[r].key, calls[r].value)}
    /\ calls' = Without(calls, r)
    /\ UNCHANGED <<config, pool, conns, hot, stray, history>>

-----------------------------------------------------------------------------
(* The Valkey exchange: getConn, exec, putConn *)

FirstCommand == IF config.hello THEN "hello" ELSE "command"

\* getConn's locked section: the most recently returned connection, or none.
GetConn(r) ==
    /\ At(r, {"conn"})
    /\ IF pool = <<>>
       THEN Goto(r, "dial") /\ UNCHANGED pool
       ELSE /\ calls' = [calls EXCEPT ![r].at = "command", ![r].conn = pool[Len(pool)]]
            /\ pool' = SubSeq(pool, 1, Len(pool) - 1)
    /\ UNCHANGED <<config, conns, tiers, stray, history>>

\* Without the lock: a new connection, which may have to introduce itself.
Dial(r, c) ==
    /\ At(r, {"dial"}) /\ c \notin DOMAIN conns
    /\ conns' = With(conns, c, [sent |-> <<>>, replies |-> <<>>])
    /\ calls' = [calls EXCEPT ![r].at = FirstCommand, ![r].conn = c]
    /\ UNCHANGED <<config, pool, tiers, stray, history>>

\* writeCommand: AUTH and SELECT ("hello"), GET, or SET with the value.
Command(r) ==
    [op |-> IF calls[r].at = "hello" THEN "hello"
            ELSE IF calls[r].op = "get" THEN "GET" ELSE "SET",
     key |-> calls[r].key, value |-> calls[r].value]

WriteCommand(r) ==
    /\ At(r, {"hello", "command"})
    /\ conns' = [conns EXCEPT ![calls[r].conn].sent = Append(@, Command(r))]
    /\ Goto(r, IF calls[r].at = "hello" THEN "greeting" ELSE "reply")
    /\ UNCHANGED <<config, pool, tiers, stray, history>>

PoolHasRoom == Len(pool) < PoolMax

\* Mutant of ReadHello: the connection is used before AUTH was answered.
ReadHello_Skipped(r) ==
    /\ At(r, {"greeting"})
    /\ Goto(r, "command")
    /\ UNCHANGED <<config, pool, conns, tiers, stray, history>>

\* readReply, of AUTH or SELECT.
ReadHello(r) ==
    /\ At(r, {"greeting"}) /\ conns[calls[r].conn].replies # <<>>
    /\ conns' = [conns EXCEPT ![calls[r].conn].replies = Tail(@)]
    /\ Goto(r, "command")
    /\ UNCHANGED <<config, pool, tiers, stray, history>>

\* readReply, of GET or SET: the oldest reply on the connection, which was the
\* only one; putConn takes the connection back unless the pool is full.
ReadReply(r) ==
    LET c == calls[r].conn
        rest == [conns EXCEPT ![c].replies = Tail(@)] IN
    /\ At(r, {"reply"}) /\ conns[c].replies # <<>>
    /\ IF PoolHasRoom
       THEN pool' = Append(pool, c) /\ conns' = rest
       ELSE conns' = Without(conns, c) /\ UNCHANGED pool
    /\ AfterValkey(r, Head(conns[c].replies))
    /\ UNCHANGED <<config, tiers, stray, written>>

\* Mutant of Discard: the connection is returned to the pool in any case.
Discard_Pools(c) ==
    /\ pool' = Append(pool, c)
    /\ UNCHANGED <<conns, stray>>

\* putConn of a connection after an error: closed.  What Valkey has received
\* and not yet done it may still do.
Discard(c) ==
    /\ conns' = Without(conns, c)
    /\ stray' = stray \cup {[key |-> m.key, value |-> m.value] :
                              m \in {x \in Range(conns[c].sent) : x.op = "SET"}}
    /\ UNCHANGED pool

\* Mutant of Bounded: the deadline is only set for the command itself.
Bounded_NotHello == {"dial", "command", "reply"}

\* Where an exchange can fail: refused, reset, an error reply, or the dial or
\* command timeout.  All of it runs under a deadline.
Bounded == {"dial", "hello", "greeting", "command", "reply"}

Fail(r) ==
    /\ At(r, Bounded)
    /\ IF calls[r].at = "dial" THEN UNCHANGED <<pool, conns, stray>> ELSE Discard(calls[r].conn)
    /\ AfterValkey(r, NoValue)
    /\ UNCHANGED <<config, tiers, written>>

-----------------------------------------------------------------------------
(* Valkey *)

Reply(m) == IF m.op = "GET" THEN Lookup(hot, m.key) ELSE OK

Serve(c) ==
    /\ c \in DOMAIN conns /\ conns[c].sent # <<>>
    /\ LET m == Head(conns[c].sent)
       IN  /\ conns' = [conns EXCEPT ![c] = [sent |-> Tail(@.sent), replies |-> Append(@.replies, Reply(m))]]
           /\ hot' = IF m.op = "SET" THEN With(hot, m.key, m.value) ELSE hot
    /\ UNCHANGED <<config, pool, calls, cold, stray, history>>

\* A SET whose connection is closed arrives after all, or never.
ServeStray(m) ==
    /\ m \in stray
    /\ stray' = stray \ {m}
    /\ hot' \in {hot, With(hot, m.key, m.value)}
    /\ UNCHANGED <<config, pool, conns, calls, cold, history>>

\* The time to live is over, or Valkey evicts the key.
HotExpires(k) ==
    /\ k \in DOMAIN hot
    /\ hot' = Without(hot, k)
    /\ UNCHANGED <<config, pool, conns, calls, cold, stray, history>>

-----------------------------------------------------------------------------
\* New.  The tiers may hold what earlier runs of the server stored, which was
\* stored for its key then.
CacheInit ==
    /\ config \in Configs
    /\ pool = <<>>
    /\ conns = [c \in {} |-> NoValue]
    /\ calls = [r \in {} |-> NoValue]
    /\ hot = [k \in {} |-> NoValue]
    /\ cold = [k \in {} |-> NoValue]
    /\ stray = {}
    /\ written = [k \in Keys |-> {}]
    /\ answer \in [key : Keys, value : {NoValue}]

RequestStep(r) ==
    \/ S3Get(r)
    \/ S3Put(r)
    \/ GetConn(r)
    \/ \E c \in Conns : Dial(r, c)
    \/ WriteCommand(r)
    \/ ReadHello(r)
    \/ ReadReply(r)
    \/ Fail(r)

CacheNext ==
    \/ \E r \in Requests, k \in Keys : GetJSON(r, k)
    \/ \E r \in Requests, k \in Keys : \E v \in ValuesOf[k] : SetJSON(r, k, v)
    \/ \E r \in Requests : RequestStep(r)
    \/ \E c \in Conns : Serve(c)
    \/ \E m \in stray : ServeStray(m)
    \/ \E k \in Keys : HotExpires(k)

CacheSpec == CacheInit /\ [][CacheNext]_cacheVars

\* A request's goroutine runs, and its deadlines expire.  Neither Valkey nor S3
\* is asked to answer: S3Get and S3Put stand for an HTTP client with a timeout.
FairCacheSpec == CacheSpec /\ \A r \in Requests : WF_cacheVars(RequestStep(r))

-----------------------------------------------------------------------------
(* Properties *)

Commands == [op : {"hello", "GET", "SET"}, key : Keys, value : Values \cup {NoValue}]

Calls ==
    [op : {"get", "set", "backfill"}, key : Keys, value : Values \cup {NoValue},
     at : {"conn", "dial", "hello", "greeting", "command", "reply", "s3"},
     conn : Conns \cup {NoValue}]

CacheTypeOK ==
    /\ config \in Configs
    /\ pool \in Seq(Conns)
    /\ DOMAIN conns \subseteq Conns
    /\ conns \in [DOMAIN conns -> [sent : Seq(Commands), replies : Seq(Values \cup {NoValue, OK})]]
    /\ DOMAIN calls \subseteq Requests /\ calls \in [DOMAIN calls -> Calls]
    /\ DOMAIN hot \subseteq Keys /\ hot \in [DOMAIN hot -> Values]
    /\ DOMAIN cold \subseteq Keys /\ cold \in [DOMAIN cold -> Values]
    /\ stray \subseteq [key : Keys, value : Values]
    /\ written \in [Keys -> SUBSET Values]
    /\ answer \in [key : Keys, value : Values \cup {NoValue}]

\* The call that is using a connection.
Holds(r, c) == At(r, {"hello", "greeting", "command", "reply"}) /\ calls[r].conn = c

\* Every open connection has one owner, the pool or a call, and is in the pool
\* once; the pool never exceeds its limit; and a connection in it owes no reply
\* (valkey.go:89-92: "a connection can't be reused once its request stream is
\* out of sync").
PoolDiscipline ==
    /\ Len(pool) <= PoolMax
    /\ \A c \in DOMAIN conns :
          LET places == {n \in DOMAIN pool : pool[n] = c} \cup {r \in DOMAIN calls : Holds(r, c)}
          IN  \E p \in places : places = {p}
    /\ \A n \in DOMAIN pool :
          /\ pool[n] \in DOMAIN conns
          /\ conns[pool[n]] = [sent |-> <<>>, replies |-> <<>>]

\* However connections are reused, commands time out, SETs arrive late and the
\* tiers backfill one another: no lookup is answered with another key's value.
Contract == INSTANCE CacheContract WITH Miss <- NoValue
AnswersItsKey == Contract!Spec

\* The cache never holds up the request it serves, though Valkey may accept a
\* connection and then say nothing (valkey.go:66-70).
CallReturns == \A r \in Requests : (r \in DOMAIN calls) ~> (r \notin DOMAIN calls)
=============================================================================
