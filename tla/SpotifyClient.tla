---------------------------- MODULE SpotifyClient ----------------------------
(***************************************************************************)
(* internal/spotifyapi: request goroutines share one app token and one     *)
(* circuit breaker.  The mutex is never held across a call to Spotify, so  *)
(* every decision is old by the time it is acted on.                       *)
(*                                                                         *)
(* Time is a countdown wherever the code compares with it: openFor until   *)
(* the breaker closes, left until the client stops using a token, life     *)
(* until Spotify does.  consecutiveFailures is only compared with its      *)
(* maximum and stops counting there.                                       *)
(***************************************************************************)
EXTENDS Integers, FiniteSets

CONSTANTS
    Requests,       \* goroutines in GetTrack
    Tracks,
    MaxFailures,    \* maxConsecutiveFailures
    Cooldown,       \* circuitCooldown
    Margin,         \* the 60 seconds taken off expires_in
    Lifetimes,      \* the values of expires_in
    MaxTransit,     \* longest a token response takes to arrive and be stored
    MaxStall        \* longest from choosing a token to Spotify seeing it

ASSUME SpotifyAssumption ==
    /\ IsFiniteSet(Requests)
    /\ MaxFailures \in Nat \ {0} /\ Cooldown \in Nat \ {0}
    /\ Margin \in Nat /\ MaxTransit \in Nat /\ MaxStall \in Nat
    /\ MaxTransit + MaxStall <= Margin
    /\ Lifetimes \subseteq Nat
    /\ \A n \in Lifetimes : n > MaxTransit + MaxStall

VARIABLES
    calls,      \* request -> [at, track, tok, age] while in GetTrack
    token,      \* the cached token; left = 0 when there is none to use
    failures,   \* consecutiveFailures
    openFor,    \* time until circuitOpenUntil
    cached,     \* the tracks the cache has
    trouble,    \* the environment may fail: network, credentials, hang-ups
    posts,      \* history: token requests started since the breaker opened
    refusals    \* history: refusals since Spotify last accepted anything

spotifyVars == <<calls, token, failures, openFor, cached, trouble, posts, refusals>>
breaker == <<failures, openFor, posts, refusals>>

\* given: expires_in; ok: not revoked.
NoToken == [given |-> 0, left |-> 0, life |-> 0, ok |-> FALSE]

Less(n) == IF n = 0 THEN 0 ELSE n - 1
Capped(n) == IF n >= MaxFailures THEN MaxFailures ELSE n + 1
At(r, a) == r \in DOMAIN calls /\ calls[r].at = a
Leave(r) == calls' = [q \in DOMAIN calls \ {r} |-> calls[q]]
Goto(r, a) == calls' = [calls EXCEPT ![r].at = a, ![r].age = 0]
GotoWith(r, a, tok) == calls' = [calls EXCEPT ![r].at = a, ![r].tok = tok, ![r].age = 0]

\* recordFailure.
RecordFailure ==
    /\ failures' = Capped(failures)
    /\ openFor' = IF failures' >= MaxFailures THEN Cooldown ELSE openFor
    /\ posts' = IF openFor = 0 THEN 0 ELSE posts

-----------------------------------------------------------------------------
(* GetTrack up to the token *)

Call(r, t) ==
    /\ r \notin DOMAIN calls
    /\ calls' = [q \in DOMAIN calls \cup {r} |->
                    IF q = r THEN [at |-> "cache", track |-> t, tok |-> NoToken, age |-> 0]
                    ELSE calls[q]]
    /\ UNCHANGED <<token, breaker, cached, trouble>>

\* The installed cache or the client's own map: a hit ends the call.
LookupCache(r) ==
    /\ At(r, "cache")
    /\ IF calls[r].track \in cached THEN Leave(r) ELSE Goto(r, "token")
    /\ UNCHANGED <<token, breaker, cached, trouble>>

\* Mutants of the locked section of getToken: the breaker is not asked; the
\* token's expiry is not asked.
CircuitOpen_Ignored == FALSE
Reusable_Forever == token.given > 0

CircuitOpen == openFor > 0
Reusable == token.left > 0

\* getToken's locked section: fail fast, reuse the token, or go and get one.
CheckToken(r) ==
    /\ At(r, "token")
    /\ IF CircuitOpen THEN Leave(r)
       ELSE IF Reusable THEN GotoWith(r, "send", token)
       ELSE Goto(r, "checked")
    /\ UNCHANGED <<token, breaker, cached, trouble>>

-----------------------------------------------------------------------------
(* getToken's request *)

\* The POST goes out.
StartPost(r) ==
    /\ At(r, "checked")
    /\ Goto(r, "post")
    /\ posts' = IF openFor > 0 THEN posts + 1 ELSE posts
    /\ UNCHANGED <<token, failures, openFor, refusals, cached, trouble>>

\* Spotify issues a token; the response is on its way.
Issue(r, n) ==
    /\ At(r, "post")
    /\ GotoWith(r, "issued", [given |-> n, left |-> 0, life |-> n, ok |-> TRUE])
    /\ UNCHANGED <<token, breaker, cached, trouble>>

\* Any status but 200.
PostRefused(r) ==
    /\ trouble
    /\ At(r, "post")
    /\ Leave(r)
    /\ RecordFailure
    /\ refusals' = Capped(refusals)
    /\ UNCHANGED <<token, cached, trouble>>

\* No answer or a broken one: the network, the client's five seconds, or a
\* context cancelled because the browser hung up.
PostLost(r) ==
    /\ trouble
    /\ At(r, "post") \/ At(r, "issued")
    /\ Leave(r)
    /\ RecordFailure
    /\ UNCHANGED <<token, refusals, cached, trouble>>

\* Mutant of UsableFor: the full lifetime is used.
UsableFor_NoMargin(n) == n

\* How long the client relies on a token with expires_in = n (line 273).
UsableFor(n) == IF n > Margin THEN n - Margin ELSE 0

\* The response is stored, for everyone, and the breaker is reset.
StoreToken(r) ==
    /\ At(r, "issued")
    /\ LET tok == [calls[r].tok EXCEPT !.left = UsableFor(calls[r].tok.given)]
       IN  token' = tok /\ GotoWith(r, "send", tok)
    /\ failures' = 0 /\ openFor' = 0 /\ posts' = 0 /\ refusals' = 0
    /\ UNCHANGED <<cached, trouble>>

-----------------------------------------------------------------------------
(* GetTrack from the token on *)

Accepted(tok) == tok.ok /\ tok.life > 0

\* Spotify sees the track request, with a token it accepts or not.
SendGet(r) ==
    /\ At(r, "send")
    /\ Goto(r, IF Accepted(calls[r].tok) THEN "accepted" ELSE "refused")
    /\ UNCHANGED <<token, breaker, cached, trouble>>

\* Mutant of GetUnauthorized: a 401 is just another error.
GetUnauthorized_Uncounted(r) ==
    /\ At(r, "refused")
    /\ Leave(r)
    /\ refusals' = Capped(refusals)
    /\ UNCHANGED <<token, failures, openFor, posts, cached, trouble>>

\* 401: counted like a refused credential.  The token stays cached.
GetUnauthorized(r) ==
    /\ At(r, "refused")
    /\ Leave(r)
    /\ RecordFailure
    /\ refusals' = Capped(refusals)
    /\ UNCHANGED <<token, cached, trouble>>

\* Another status, an unreadable body, no answer: not counted.
GetFails(r) ==
    /\ trouble
    /\ At(r, "accepted") \/ At(r, "refused")
    /\ Leave(r)
    /\ UNCHANGED <<token, breaker, cached, trouble>>

\* 200: the answer is decoded.  Nothing is reset: consecutiveFailures keeps the
\* failures from before.
GetSucceeds(r) ==
    /\ At(r, "accepted")
    /\ Goto(r, "found")
    /\ refusals' = 0
    /\ UNCHANGED <<token, failures, openFor, posts, cached, trouble>>

StoreTrack(r) ==
    /\ At(r, "found")
    /\ cached' = cached \cup {calls[r].track}
    /\ Leave(r)
    /\ UNCHANGED <<token, breaker, trouble>>

-----------------------------------------------------------------------------
(* Environment *)

TrackExpires(t) ==
    /\ t \in cached
    /\ cached' = cached \ {t}
    /\ UNCHANGED <<calls, token, breaker, trouble>>

\* Somebody rotates the secret: every token out there is worthless.
Revoke ==
    /\ trouble
    /\ token' = [token EXCEPT !.ok = FALSE]
    /\ calls' = [r \in DOMAIN calls |-> [calls[r] EXCEPT !.tok.ok = FALSE]]
    /\ UNCHANGED <<breaker, cached, trouble>>

SetTrouble ==
    /\ trouble' = ~trouble
    /\ UNCHANGED <<calls, token, breaker, cached>>

Aged(tok) == [tok EXCEPT !.left = Less(@), !.life = Less(@)]

\* One unit of time, unless a token on its way or about to be used has been
\* delayed as long as it can be.
Tick ==
    /\ \A r \in DOMAIN calls :
          /\ calls[r].at = "issued" => calls[r].age < MaxTransit
          /\ calls[r].at = "send" => calls[r].age < MaxStall
    /\ openFor' = Less(openFor)
    /\ posts' = IF openFor <= 1 THEN 0 ELSE posts
    /\ token' = Aged(token)
    /\ calls' = [r \in DOMAIN calls |->
                    [calls[r] EXCEPT !.tok = Aged(@),
                        !.age = IF calls[r].at \in {"issued", "send"} THEN @ + 1 ELSE @]]
    /\ UNCHANGED <<failures, refusals, cached, trouble>>

-----------------------------------------------------------------------------
\* New, with an empty cache.
SpotifyInit ==
    /\ calls = [r \in {} |-> NoToken]
    /\ token = NoToken
    /\ failures = 0 /\ openFor = 0 /\ posts = 0 /\ refusals = 0
    /\ cached = {}
    /\ trouble = TRUE

RequestStep(r) ==
    \/ LookupCache(r)
    \/ CheckToken(r)
    \/ StartPost(r)
    \/ \E n \in Lifetimes : Issue(r, n)
    \/ PostRefused(r)
    \/ PostLost(r)
    \/ StoreToken(r)
    \/ SendGet(r)
    \/ GetUnauthorized(r)
    \/ GetFails(r)
    \/ GetSucceeds(r)
    \/ StoreTrack(r)

SpotifyNext ==
    \/ \E r \in Requests, t \in Tracks : Call(r, t)
    \/ \E r \in Requests : RequestStep(r)
    \/ \E t \in Tracks : TrackExpires(t)
    \/ Revoke
    \/ SetTrouble
    \/ Tick

SpotifySpec == SpotifyInit /\ [][SpotifyNext]_spotifyVars

\* Time passes, and what the client's goroutines and Spotify have begun they
\* finish, every call having a timeout.
FairSpotifySpec == SpotifySpec /\ WF_spotifyVars(Tick) /\ \A r \in Requests : WF_spotifyVars(RequestStep(r))

-----------------------------------------------------------------------------
(* Properties *)

Tokens == [given : Lifetimes \cup {0}, left : Nat, life : Nat, ok : BOOLEAN]

Calls ==
    [at : {"cache", "token", "checked", "post", "issued", "send", "accepted", "refused", "found"},
     track : Tracks, tok : Tokens, age : Nat]

SpotifyTypeOK ==
    /\ DOMAIN calls \subseteq Requests /\ calls \in [DOMAIN calls -> Calls]
    /\ token \in Tokens
    /\ failures \in 0..MaxFailures /\ refusals \in 0..MaxFailures
    /\ openFor \in 0..Cooldown
    /\ posts \in Nat
    /\ cached \subseteq Tracks
    /\ trouble \in BOOLEAN

\* While the breaker is open only requests that had been let through before it
\* opened still reach the token endpoint, one POST each: never as many as there
\* are requests, however long it stays open, however many late failures extend
\* it, and however many calls arrive (lines 96-100: "stop calling Spotify's token
\* endpoint on every single /api/resolve request").
BreakerStopsPosts == openFor > 0 => posts < Cardinality(Requests)

\* Lines 271-273: "a request landing right at expiry never races a 401": a token
\* the client picked is still alive when Spotify sees it, though the response
\* that brought it and the request that carries it both took their time.
TokenAliveAtUse == \A r \in Requests : At(r, "send") => calls[r].tok.life > 0

\* The breaker is no trap.  Once Spotify accepts the credentials again it closes
\* for good, even though a token revoked in the meantime stays cached and each
\* use of it opens the breaker again.
BreakerCloses == <>[](~trouble) => <>[](openFor = 0)

\* MaxFailures refusals in a row, on either path, leave the breaker open (lines
\* 166-169: it trips "on this path too, not only on token acquisition").
OpensAfterRefusals ==
    [][refusals < MaxFailures /\ refusals' = MaxFailures => openFor' > 0]_spotifyVars
=============================================================================
