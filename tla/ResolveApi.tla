----------------------------- MODULE ResolveApi -----------------------------
(***************************************************************************)
(* The way of one card through GET /api/resolve and through the warmer's   *)
(* resolve: the page lookup, then a YouTube search and Spotify's API in    *)
(* goroutines next to metadata.Resolve, then the join.  They share the     *)
(* page cache, the YouTube cache and the slots for yt-dlp processes with   *)
(* the deck handlers that ask yt-dlp for one video or a playlist.          *)
(*                                                                         *)
(* There is no clock: a context may end at any moment (deadline, a stage's *)
(* own timeout, a client that hangs up), so everything that waits for one  *)
(* may stop waiting at any moment, and, by fairness, does.                 *)
(***************************************************************************)
EXTENDS Integers, FiniteSets

CONSTANTS
    Callers,    \* goroutines: requests and the warmer's worker
    Kinds,      \* caller -> what it may be
    MaxSlots    \* cap(ytDlpSlots)

\* strict, variants: /api/resolve without and with yt_variants=1.  warm: the
\* warmer.  lookup: FetchVideoMeta and FetchPlaylist.
AllKinds == {"strict", "variants", "warm", "lookup"}

ASSUME ResolveAssumption ==
    /\ IsFiniteSet(Callers)
    /\ Kinds \in [Callers -> SUBSET AllKinds]
    /\ MaxSlots \in Nat \ {0}

\* What a page can yield: nothing, a title only, an artist.
Pages == {"none", "title", "artist"}
\* The result of a search.
Videos == {"none", "original", "variant"}

VARIABLES
    call,       \* caller -> where its own goroutine is
    kind,
    page,       \* caller -> what fetchSpotifyMeta gave it
    yt,         \* caller -> its use of yt-dlp: SearchVideoID, or runYtDlp alone
    video,      \* caller -> ytVideoID
    sp,         \* caller -> the goroutine in GetTrack
    slots,      \* len(ytDlpSlots)
    pageCache,  \* spotifyCache of the track, "none" when missing or expired
    ytCache     \* the resolve cache: <<page, allowVariants>> -> video

callVars == <<call, kind, page>>
ytVars == <<yt, video, slots>>
vars == <<callVars, ytVars, sp, pageCache, ytCache>>

Goto(q, c) == call' = [call EXCEPT ![q] = c]
YtGoto(q, y) == yt' = [yt EXCEPT ![q] = y]

-----------------------------------------------------------------------------
(* The caller's goroutine *)

\* A request arrives, or the warmer takes a card.
Call(q, k) ==
    /\ call[q] = "idle" /\ k \in Kinds[q] \ {"lookup"}
    /\ kind' = [kind EXCEPT ![q] = k]
    /\ Goto(q, "page")
    /\ UNCHANGED <<page, ytVars, sp, pageCache, ytCache>>

\* A deck handler calls FetchVideoMeta or FetchPlaylist: straight to runYtDlp.
DeckLookup(q) ==
    /\ call[q] = "idle" /\ "lookup" \in Kinds[q]
    /\ kind' = [kind EXCEPT ![q] = "lookup"]
    /\ Goto(q, "join") /\ YtGoto(q, "waiting")
    /\ UNCHANGED <<page, video, slots, sp, pageCache, ytCache>>

\* A request needs an artist to go on, the warmer takes a title too.
Enough(k, p) == p = "artist" \/ (k = "warm" /\ p = "title")

\* fetchSpotifyMeta returns p: the goroutines start, or the answer is due.  The
\* warmer asks Spotify after the join only.
Begin(q, p) ==
    /\ page' = [page EXCEPT ![q] = p]
    /\ IF Enough(kind[q], p)
       THEN /\ Goto(q, "metadata") /\ YtGoto(q, "cache")
            /\ sp' = IF kind[q] = "warm" THEN sp ELSE [sp EXCEPT ![q] = "asking"]
       ELSE Goto(q, "join") /\ UNCHANGED <<yt, sp>>
    /\ UNCHANGED <<kind, video, slots, ytCache>>

\* fetchSpotifyMeta's look at the map.
PageLookup(q) ==
    /\ call[q] = "page"
    /\ IF pageCache = "none"
       THEN Goto(q, "fetch") /\ UNCHANGED <<kind, page, ytVars, sp, ytCache>>
       ELSE Begin(q, pageCache)
    /\ UNCHANGED pageCache

\* The fetch fails, or gives a page that may be cut short; whatever was found
\* goes to the map, over what another caller may have put there since.
PageFetched(q) ==
    /\ call[q] = "fetch"
    /\ \E p \in Pages :
          /\ Begin(q, p)
          /\ pageCache' = IF p = "none" THEN pageCache ELSE p

\* metadata.Resolve returns.
MetadataDone(q) ==
    /\ call[q] = "metadata"
    /\ Goto(q, "join")
    /\ UNCHANGED <<kind, page, ytVars, sp, pageCache, ytCache>>

\* Mutant of Joined: the handler answers at its deadline, whoever still runs.
Joined_AtDeadline(q) == call[q] = "join"

\* wg.Wait is over: the goroutines that were started have ended.
Joined(q) == call[q] = "join" /\ yt[q] = "none" /\ sp[q] = "none"

\* The warmer, unless there was no page to go by, asks Spotify last.
AskSpotify(q) ==
    /\ Joined(q) /\ kind[q] = "warm" /\ page[q] # "none"
    /\ Goto(q, "spotify")
    /\ sp' = [sp EXCEPT ![q] = "asking"]
    /\ UNCHANGED <<kind, page, ytVars, pageCache, ytCache>>

\* The response is written, or the warmer is done with the card.
Answer(q) ==
    /\ \/ Joined(q) /\ (kind[q] = "warm" => page[q] = "none")
       \/ call[q] = "spotify" /\ sp[q] = "none"
    /\ Goto(q, "idle")
    /\ page' = [page EXCEPT ![q] = "none"]
    /\ video' = [video EXCEPT ![q] = "none"]
    /\ UNCHANGED <<kind, yt, slots, sp, pageCache, ytCache>>

\* GetTrack returns.
SpotifyDone(q) ==
    /\ sp[q] = "asking"
    /\ sp' = [sp EXCEPT ![q] = "none"]
    /\ UNCHANGED <<callVars, ytVars, pageCache, ytCache>>

-----------------------------------------------------------------------------
(* SearchVideoID and runYtDlp *)

AllowVariants(q) == kind[q] \in {"variants", "warm"}

\* Mutant of Key: searchCacheKey without its third part.
Key_NoMode(q) == <<page[q], TRUE>>

\* searchCacheKey.
Key(q) == <<page[q], AllowVariants(q)>>

\* A hit ends the search.  A miss is always possible: the entry may have expired
\* and the cache may be down.
YtCacheLookup(q) ==
    /\ yt[q] = "cache"
    /\ \/ /\ ytCache[Key(q)] # "none"
          /\ video' = [video EXCEPT ![q] = ytCache[Key(q)]]
          /\ YtGoto(q, "none")
       \/ YtGoto(q, "waiting") /\ UNCHANGED video
    /\ UNCHANGED <<callVars, slots, sp, pageCache, ytCache>>

\* A slot is free: the process starts.
TakeSlot(q) ==
    /\ yt[q] = "waiting" /\ slots < MaxSlots
    /\ slots' = slots + 1
    /\ YtGoto(q, "running")
    /\ UNCHANGED <<callVars, video, sp, pageCache, ytCache>>

\* The context ends first.
NoSlot(q) ==
    /\ yt[q] = "waiting"
    /\ YtGoto(q, "none")
    /\ UNCHANGED <<callVars, video, slots, sp, pageCache, ytCache>>

\* The two passes over the results, of which the best is b.
Chosen(q, b) ==
    IF b = "original" \/ (b = "variant" /\ AllowVariants(q)) THEN b ELSE "none"

\* The process ends by itself and its slot is given back.  A failed run has no
\* result; deck handlers use the output and leave no trace here.
ProcessExits(q) ==
    /\ yt[q] = "running"
    /\ slots' = slots - 1
    /\ \E b \in Videos :
          LET v == IF kind[q] = "lookup" THEN "none" ELSE Chosen(q, b)
          IN  /\ video' = [video EXCEPT ![q] = v]
              /\ YtGoto(q, IF v = "none" THEN "none" ELSE "store")
    /\ UNCHANGED <<callVars, sp, pageCache, ytCache>>

\* Mutant of Kill: the slot is free as soon as the context has ended.
Kill_Releases(q) ==
    /\ yt[q] = "running"
    /\ YtGoto(q, "killed") /\ slots' = slots - 1
    /\ UNCHANGED <<callVars, video, sp, pageCache, ytCache>>

\* The context ends: exec.CommandContext kills the process, but the call goes on
\* until the process's pipes are closed.
Kill(q) ==
    /\ yt[q] = "running"
    /\ YtGoto(q, "killed")
    /\ UNCHANGED <<callVars, video, slots, sp, pageCache, ytCache>>

\* runYtDlp returns an error and gives its slot back.
RunFails(q) ==
    /\ yt[q] = "killed"
    /\ slots' = slots - 1
    /\ YtGoto(q, "none")
    /\ UNCHANGED <<callVars, video, sp, pageCache, ytCache>>

\* Whoever holds the pipes of the killed process closes them, some day.
PipesClosed(q) == RunFails(q)

\* Mutant of WaitDelayOver: cmd.WaitDelay is not set.
WaitDelayOver_Unset(q) == RunFails(q) /\ FALSE

\* WaitDelay after the kill, Go closes the pipes itself.
WaitDelayOver(q) == RunFails(q)

\* The result is cached, if the cache is up, and the search returns.
YtStore(q) ==
    /\ yt[q] = "store"
    /\ YtGoto(q, "none")
    /\ \/ ytCache' = [ytCache EXCEPT ![Key(q)] = video[q]]
       \/ UNCHANGED ytCache
    /\ UNCHANGED <<callVars, video, slots, sp, pageCache>>

-----------------------------------------------------------------------------
\* Seven days later, by the read's own check or by the clean-up goroutine.
PageExpires ==
    /\ pageCache # "none"
    /\ pageCache' = "none"
    /\ UNCHANGED <<callVars, ytVars, sp, ytCache>>

Init ==
    /\ call = [q \in Callers |-> "idle"]
    /\ kind = [q \in Callers |-> "lookup"]
    /\ page = [q \in Callers |-> "none"]
    /\ yt = [q \in Callers |-> "none"]
    /\ video = [q \in Callers |-> "none"]
    /\ sp = [q \in Callers |-> "none"]
    /\ slots = 0
    /\ pageCache = "none"
    /\ ytCache = [k \in Pages \X BOOLEAN |-> "none"]

CallStep(q) ==
    \/ PageLookup(q)
    \/ PageFetched(q)
    \/ MetadataDone(q)
    \/ AskSpotify(q)
    \/ Answer(q)

\* What runs to its end by itself, because every wait is under a context.
YtStep(q) ==
    \/ YtCacheLookup(q)
    \/ TakeSlot(q)
    \/ NoSlot(q)
    \/ Kill(q)
    \/ WaitDelayOver(q)
    \/ YtStore(q)

Next ==
    \/ \E q \in Callers, k \in AllKinds : Call(q, k)
    \/ \E q \in Callers : DeckLookup(q)
    \/ \E q \in Callers :
          CallStep(q) \/ SpotifyDone(q) \/ YtStep(q) \/ ProcessExits(q) \/ PipesClosed(q)
    \/ PageExpires

Spec == Init /\ [][Next]_vars

\* Goroutines run, and calls to the outside end when their context does.  Nothing
\* is asked of yt-dlp, nor of whoever inherits its pipes.
Fairness ==
    \A q \in Callers :
        WF_vars(CallStep(q)) /\ WF_vars(SpotifyDone(q)) /\ WF_vars(YtStep(q))

FairSpec == Spec /\ Fairness

-----------------------------------------------------------------------------
(* Properties *)

\* Types; never more than MaxSlots yt-dlp processes, over all handlers and the
\* warmer ("caps concurrent yt-dlp processes process-wide", ytdlp.go:71).
TypeOK ==
    /\ call \in [Callers -> {"idle", "page", "fetch", "metadata", "join", "spotify"}]
    /\ kind \in [Callers -> AllKinds]
    /\ page \in [Callers -> Pages]
    /\ yt \in [Callers -> {"none", "cache", "waiting", "running", "killed", "store"}]
    /\ video \in [Callers -> Videos]
    /\ sp \in [Callers -> {"none", "asking"}]
    /\ slots \in 0..MaxSlots
    /\ pageCache \in Pages
    /\ ytCache \in [Pages \X BOOLEAN -> Videos]

\* The callers whose process runs or has not been waited for.
Holders == {q \in Callers : yt[q] \in {"running", "killed"}}

\* A slot is taken exactly until its process is waited for: none leaks on any path
\* out of runYtDlp, none is given back before cmd.Run has returned, be it that the
\* pipes were closed or that WaitDelay was over, which leaves descendants of a
\* killed process alone (ytdlp.go:81-110).
SlotsHeld == slots = Cardinality(Holders)

\* A request that did not ask for variants never gets one, not even through what
\* the warmer or another request has cached for the same track
\* (youtube.go:50-52).
StrictNeverVariant ==
    \A q \in Callers : video[q] = "variant" => AllowVariants(q)

\* Nothing a request has started outlives its answer: what the handler merges is
\* final, and no goroutine writes to it afterwards (main.go:749).
NoOrphans ==
    \A q \in Callers : call[q] = "idle" => yt[q] = "none" /\ sp[q] = "none"

\* Every request is answered, with or without enrichment, even when all slots are
\* held by processes that never end (ytdlp.go:85, 90-96; main.go:655-661).
Answered == \A q \in Callers : call[q] # "idle" ~> call[q] = "idle"
=============================================================================
