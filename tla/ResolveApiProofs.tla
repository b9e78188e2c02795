-------------------------- MODULE ResolveApiProofs --------------------------
(***************************************************************************)
(* The yt-dlp slots, the strict searches and the join of /api/resolve, for *)
(* any number of callers of any kind and any number of slots.              *)
(***************************************************************************)
EXTENDS ResolveApi, FiniteSetTheorems, TLAPS

\* Before its search a caller has none, and after its answer it has nothing.
Quiet ==
    \A q \in Callers :
        /\ call[q] \in {"idle", "page", "fetch", "spotify"} => yt[q] = "none"
        /\ call[q] = "idle" => sp[q] = "none" /\ video[q] = "none"

\* No variant lies under a strict key.
StrictCache == \A p \in Pages : ytCache[<<p, FALSE>>] # "variant"

\* The inductive invariant.
IInv == TypeOK /\ SlotsHeld /\ StrictNeverVariant /\ Quiet /\ StrictCache

-----------------------------------------------------------------------------
(* The set of slot holders *)

LEMMA HoldersFinite == IsFiniteSet(Holders) /\ Cardinality(Holders) \in Nat
  <1>1. Holders \in SUBSET Callers
    BY DEF Holders
  <1>2. IsFiniteSet(Holders)
    BY <1>1, FS_Subset, ResolveAssumption
  <1> QED BY <1>2, FS_CardinalityType

\* A step that neither takes a slot nor gives one back.
LEMMA SameHolders ==
    ASSUME SlotsHeld, UNCHANGED slots, Holders' = Holders
    PROVE  SlotsHeld'
  BY DEF SlotsHeld

LEMMA OneMoreHolder ==
    ASSUME SlotsHeld, NEW q \in Callers, q \notin Holders,
           slots' = slots + 1, Holders' = Holders \cup {q}
    PROVE  SlotsHeld'
  <1>1. Cardinality(Holders \cup {q}) = Cardinality(Holders) + 1
    BY HoldersFinite, FS_AddElement
  <1> QED BY <1>1 DEF SlotsHeld

LEMMA OneHolderLess ==
    ASSUME SlotsHeld, NEW q \in Holders,
           slots' = slots - 1, Holders' = Holders \ {q}
    PROVE  SlotsHeld' /\ slots' \in Nat
  <1>1. /\ Cardinality(Holders \ {q}) = Cardinality(Holders) - 1
        /\ IsFiniteSet(Holders \ {q})
    BY HoldersFinite, FS_RemoveElement
  <1>2. Cardinality(Holders \ {q}) \in Nat
    BY <1>1, FS_CardinalityType
  <1> QED BY <1>1, <1>2 DEF SlotsHeld

-----------------------------------------------------------------------------
LEMMA InitIInv == Init => IInv
  <1> SUFFICES ASSUME Init PROVE IInv
    OBVIOUS
  <1>1. TypeOK
    BY ResolveAssumption DEF Init, TypeOK, AllKinds, Pages, Videos
  <1>2. SlotsHeld
    <2>1. Holders = {}
      BY DEF Init, Holders
    <2> QED BY <2>1, FS_EmptySet DEF Init, SlotsHeld
  <1>3. StrictNeverVariant /\ Quiet /\ StrictCache
    BY DEF Init, StrictNeverVariant, Quiet, StrictCache, Pages
  <1> QED BY <1>1, <1>2, <1>3 DEF IInv

\* A caller starts: it had nothing left from its last call.
LEMMA CallIInv ==
    ASSUME IInv, NEW q \in Callers, NEW k \in AllKinds, Call(q, k) \/ DeckLookup(q)
    PROVE  IInv'
  <1> USE DEF Goto, YtGoto
  <1>1. yt[q] = "none" /\ video[q] = "none"
    BY DEF IInv, Quiet, Call, DeckLookup
  <1>2. TypeOK'
    BY DEF IInv, TypeOK, AllKinds, Call, DeckLookup, ytVars
  <1>3. SlotsHeld'
    <2>1. Holders' = Holders
      BY <1>1 DEF IInv, TypeOK, Call, DeckLookup, ytVars, Holders
    <2> QED BY <2>1, SameHolders DEF IInv, Call, DeckLookup, ytVars
  <1>4. StrictNeverVariant'
    BY <1>1 DEF IInv, TypeOK, StrictNeverVariant, AllowVariants, Call, DeckLookup, ytVars
  <1>5. Quiet'
    BY DEF IInv, TypeOK, Quiet, Call, DeckLookup, ytVars
  <1>6. StrictCache'
    BY DEF IInv, StrictCache, Call, DeckLookup
  <1> QED BY <1>2, <1>3, <1>4, <1>5, <1>6 DEF IInv

\* The page is known: no search of this caller is under way.
LEMMA BeginIInv ==
    ASSUME IInv, NEW q \in Callers, NEW p \in Pages,
           call[q] \in {"page", "fetch"}, pageCache' \in Pages, Begin(q, p)
    PROVE  IInv'
  <1> USE DEF Goto, YtGoto
  <1>1. yt[q] = "none"
    BY DEF IInv, Quiet
  <1>2. TypeOK'
    BY DEF IInv, TypeOK, Begin
  <1>3. SlotsHeld'
    <2>1. Holders' = Holders
      BY <1>1 DEF IInv, TypeOK, Begin, Holders
    <2> QED BY <2>1, SameHolders DEF IInv, Begin
  <1>4. StrictNeverVariant'
    BY DEF IInv, StrictNeverVariant, AllowVariants, Begin
  <1>5. Quiet'
    BY DEF IInv, TypeOK, Quiet, Begin
  <1>6. StrictCache'
    BY DEF IInv, StrictCache, Begin
  <1> QED BY <1>2, <1>3, <1>4, <1>5, <1>6 DEF IInv

LEMMA CallStepIInv ==
    ASSUME IInv, NEW q \in Callers, CallStep(q)
    PROVE  IInv'
  <1> USE DEF Goto
  <1>1. CASE PageLookup(q)
    <2>1. CASE pageCache # "none"
      BY <1>1, <2>1, BeginIInv DEF PageLookup, IInv, TypeOK
    <2>2. CASE pageCache = "none"
      <3>1. TypeOK' /\ Quiet'
        BY <1>1, <2>2 DEF PageLookup, IInv, TypeOK, Quiet, ytVars
      <3>2. SlotsHeld' /\ StrictNeverVariant' /\ StrictCache'
        BY <1>1, <2>2 DEF PageLookup, IInv, SlotsHeld, Holders, StrictNeverVariant,
                          AllowVariants, StrictCache, ytVars
      <3> QED BY <3>1, <3>2 DEF IInv
    <2> QED BY <2>1, <2>2
  <1>2. CASE PageFetched(q)
    <2>1. PICK p \in Pages : Begin(q, p) /\ pageCache' = IF p = "none" THEN pageCache ELSE p
      BY <1>2 DEF PageFetched
    <2>2. pageCache' \in Pages
      BY <2>1 DEF IInv, TypeOK
    <2> QED BY <1>2, <2>1, <2>2, BeginIInv DEF PageFetched
  <1>3. CASE MetadataDone(q)
    <2>1. TypeOK' /\ Quiet'
      BY <1>3 DEF MetadataDone, IInv, TypeOK, Quiet, ytVars
    <2>2. SlotsHeld' /\ StrictNeverVariant' /\ StrictCache'
      BY <1>3 DEF MetadataDone, IInv, SlotsHeld, Holders, StrictNeverVariant,
                  AllowVariants, StrictCache, ytVars
    <2> QED BY <2>1, <2>2 DEF IInv
  <1>4. CASE AskSpotify(q)
    <2>1. TypeOK' /\ Quiet'
      BY <1>4 DEF AskSpotify, Joined, IInv, TypeOK, Quiet, ytVars
    <2>2. SlotsHeld' /\ StrictNeverVariant' /\ StrictCache'
      BY <1>4 DEF AskSpotify, IInv, SlotsHeld, Holders, StrictNeverVariant,
                  AllowVariants, StrictCache, ytVars
    <2> QED BY <2>1, <2>2 DEF IInv
  <1>5. CASE Answer(q)
    <2>1. yt[q] = "none" /\ sp[q] = "none"
      BY <1>5 DEF Answer, Joined, IInv, Quiet
    <2>2. TypeOK' /\ Quiet'
      BY <1>5, <2>1 DEF Answer, IInv, TypeOK, Quiet, Pages, Videos
    <2>3. SlotsHeld' /\ StrictCache'
      BY <1>5 DEF Answer, IInv, SlotsHeld, Holders, StrictCache
    <2>4. StrictNeverVariant'
      BY <1>5 DEF Answer, IInv, TypeOK, StrictNeverVariant, AllowVariants
    <2> QED BY <2>2, <2>3, <2>4 DEF IInv
  <1> QED BY <1>1, <1>2, <1>3, <1>4, <1>5 DEF CallStep

LEMMA SpotifyDoneIInv ==
    ASSUME IInv, NEW q \in Callers, SpotifyDone(q)
    PROVE  IInv'
  <1>1. TypeOK' /\ Quiet'
    BY DEF SpotifyDone, IInv, TypeOK, Quiet, callVars, ytVars
  <1>2. SlotsHeld' /\ StrictNeverVariant' /\ StrictCache'
    BY DEF SpotifyDone, IInv, SlotsHeld, Holders, StrictNeverVariant, AllowVariants,
           StrictCache, callVars, ytVars
  <1> QED BY <1>1, <1>2 DEF IInv

-----------------------------------------------------------------------------
(* The search *)

\* While a search is under way its caller is past the page and not yet at its
\* answer, so it may change its search and its video.
LEMMA SearchKeepsQuiet ==
    ASSUME IInv, NEW q \in Callers, yt[q] # "none", UNCHANGED <<call, sp>>,
           \A r \in Callers \ {q} : yt'[r] = yt[r] /\ video'[r] = video[r]
    PROVE  Quiet'
  BY DEF IInv, Quiet

\* The key of a search, and what may lie under it.
LEMMA KeyType ==
    ASSUME IInv, NEW q \in Callers
    PROVE  /\ page[q] \in Pages /\ AllowVariants(q) \in BOOLEAN
           /\ Key(q) \in Pages \X BOOLEAN
           /\ ytCache[Key(q)] \in Videos
           /\ ytCache[Key(q)] = "variant" => AllowVariants(q)
  <1> DEFINE b == AllowVariants(q)
  <1>1. page[q] \in Pages /\ ytCache \in [Pages \X BOOLEAN -> Videos]
    BY DEF IInv, TypeOK
  <1>2. b \in BOOLEAN
    BY SMT DEF AllowVariants
  <1>3. Key(q) = <<page[q], b>>
    BY Zenon DEF Key
  <1> HIDE DEF b
  <1>4. <<page[q], b>> \in Pages \X BOOLEAN
    BY <1>1, <1>2
  <1>5. ytCache[<<page[q], b>>] \in Videos
    BY <1>1, <1>4
  <1>6. b = FALSE => ytCache[<<page[q], b>>] # "variant"
    BY <1>1 DEF IInv, StrictCache
  <1>7. b = TRUE \/ b = FALSE
    BY <1>2
  <1>8. ytCache[<<page[q], b>>] = "variant" => b
    BY <1>6, <1>7
  <1> QED BY <1>1, <1>2, <1>3, <1>4, <1>5, <1>8 DEF b

\* A search may find a variant only for a caller that allows one.
LEMMA SearchKeepsStrict ==
    ASSUME IInv, NEW q \in Callers, UNCHANGED kind,
           \A r \in Callers \ {q} : video'[r] = video[r],
           video'[q] = "variant" => AllowVariants(q)
    PROVE  StrictNeverVariant'
  BY DEF IInv, StrictNeverVariant, AllowVariants

\* A call of runYtDlp ends: its slot is free again.
LEMMA Releases ==
    ASSUME IInv, NEW q \in Callers, yt[q] \in {"running", "killed"}, slots' = slots - 1,
           NEW y \in {"none", "store"}, yt' = [yt EXCEPT ![q] = y]
    PROVE  SlotsHeld' /\ slots' \in 0..MaxSlots
  <1>1. q \in Holders /\ Holders' = Holders \ {q}
    BY DEF IInv, TypeOK, Holders
  <1>2. SlotsHeld' /\ slots' \in Nat
    BY <1>1, OneHolderLess DEF IInv
  <1> QED BY <1>2, ResolveAssumption DEF IInv, TypeOK

LEMMA YtCacheLookupIInv ==
    ASSUME IInv, NEW q \in Callers, YtCacheLookup(q)
    PROVE  IInv'
  <1> USE DEF YtGoto
  <1>1. Key(q) \in Pages \X BOOLEAN /\ ytCache[Key(q)] \in Videos
    BY KeyType
  <1>2. ytCache[Key(q)] = "variant" => AllowVariants(q)
    BY KeyType
  <1>3. TypeOK'
    BY <1>1 DEF YtCacheLookup, IInv, TypeOK, callVars
  <1>4. SlotsHeld'
    <2>1. Holders' = Holders
      BY DEF YtCacheLookup, IInv, TypeOK, Holders
    <2> QED BY <2>1, SameHolders DEF IInv, YtCacheLookup
  <1>5. Quiet'
    BY SearchKeepsQuiet DEF YtCacheLookup, IInv, TypeOK, callVars
  <1>6. StrictNeverVariant'
    <2>1. video'[q] = "variant" => AllowVariants(q)
      BY <1>2 DEF YtCacheLookup, IInv, TypeOK, StrictNeverVariant
    <2> QED BY <2>1, SearchKeepsStrict DEF YtCacheLookup, IInv, TypeOK, callVars
  <1>7. StrictCache'
    BY DEF YtCacheLookup, IInv, StrictCache
  <1> QED BY <1>3, <1>4, <1>5, <1>6, <1>7 DEF IInv

LEMMA TakeSlotIInv ==
    ASSUME IInv, NEW q \in Callers, TakeSlot(q)
    PROVE  IInv'
  <1> USE DEF YtGoto
  <1>1. TypeOK'
    BY ResolveAssumption DEF TakeSlot, IInv, TypeOK, callVars
  <1>2. SlotsHeld'
    <2>1. q \notin Holders /\ Holders' = Holders \cup {q}
      BY DEF TakeSlot, IInv, TypeOK, Holders
    <2> QED BY <2>1, OneMoreHolder DEF IInv, TakeSlot
  <1>3. Quiet'
    BY SearchKeepsQuiet DEF TakeSlot, IInv, TypeOK, callVars
  <1>4. StrictNeverVariant' /\ StrictCache'
    BY DEF TakeSlot, IInv, StrictNeverVariant, AllowVariants, StrictCache, callVars
  <1> QED BY <1>1, <1>2, <1>3, <1>4 DEF IInv

\* No slot came free, or the context ended while the process ran.
LEMMA ContextEndsIInv ==
    ASSUME IInv, NEW q \in Callers, NoSlot(q) \/ Kill(q)
    PROVE  IInv'
  <1> USE DEF YtGoto
  <1>1. TypeOK'
    BY DEF NoSlot, Kill, IInv, TypeOK, callVars
  <1>2. SlotsHeld'
    <2>1. Holders' = Holders
      BY DEF NoSlot, Kill, IInv, TypeOK, Holders
    <2> QED BY <2>1, SameHolders DEF IInv, NoSlot, Kill
  <1>3. Quiet'
    BY SearchKeepsQuiet DEF NoSlot, Kill, IInv, TypeOK, callVars
  <1>4. StrictNeverVariant' /\ StrictCache'
    BY DEF NoSlot, Kill, IInv, StrictNeverVariant, AllowVariants, StrictCache, callVars
  <1> QED BY <1>1, <1>2, <1>3, <1>4 DEF IInv

LEMMA ProcessExitsIInv ==
    ASSUME IInv, NEW q \in Callers, ProcessExits(q)
    PROVE  IInv'
  <1> USE DEF YtGoto
  <1>1. PICK v \in Videos :
          /\ v = "variant" => AllowVariants(q)
          /\ video' = [video EXCEPT ![q] = v]
          /\ yt' = [yt EXCEPT ![q] = IF v = "none" THEN "none" ELSE "store"]
    BY DEF ProcessExits, Chosen, Videos
  <1>2. SlotsHeld' /\ slots' \in 0..MaxSlots
    BY <1>1, Releases DEF ProcessExits
  <1>3. TypeOK'
    BY <1>1, <1>2 DEF ProcessExits, IInv, TypeOK, callVars
  <1>4. Quiet'
    BY <1>1, SearchKeepsQuiet DEF ProcessExits, IInv, TypeOK, callVars
  <1>5. StrictNeverVariant'
    BY <1>1, SearchKeepsStrict DEF ProcessExits, IInv, TypeOK, callVars
  <1>6. StrictCache'
    BY DEF ProcessExits, IInv, StrictCache
  <1> QED BY <1>2, <1>3, <1>4, <1>5, <1>6 DEF IInv

LEMMA RunFailsIInv ==
    ASSUME IInv, NEW q \in Callers, RunFails(q)
    PROVE  IInv'
  <1> USE DEF YtGoto
  <1>1. SlotsHeld' /\ slots' \in 0..MaxSlots
    BY Releases DEF RunFails
  <1>2. TypeOK'
    BY <1>1 DEF RunFails, IInv, TypeOK, callVars
  <1>3. Quiet'
    BY SearchKeepsQuiet DEF RunFails, IInv, TypeOK, callVars
  <1>4. StrictNeverVariant' /\ StrictCache'
    BY DEF RunFails, IInv, StrictNeverVariant, AllowVariants, StrictCache, callVars
  <1> QED BY <1>1, <1>2, <1>3, <1>4 DEF IInv

\* A variant is only ever stored under a key that says so.
LEMMA YtStoreIInv ==
    ASSUME IInv, NEW q \in Callers, YtStore(q)
    PROVE  IInv'
  <1> USE DEF YtGoto
  <1>1. Key(q) \in Pages \X BOOLEAN /\ video[q] \in Videos
    BY KeyType DEF IInv, TypeOK
  <1>2. TypeOK'
    BY <1>1 DEF YtStore, IInv, TypeOK, callVars
  <1>3. SlotsHeld'
    <2>1. Holders' = Holders
      BY DEF YtStore, IInv, TypeOK, Holders
    <2> QED BY <2>1, SameHolders DEF IInv, YtStore
  <1>4. Quiet'
    BY SearchKeepsQuiet DEF YtStore, IInv, TypeOK, callVars
  <1>5. StrictNeverVariant'
    BY DEF YtStore, IInv, StrictNeverVariant, AllowVariants, callVars
  <1>6. StrictCache'
    <2> SUFFICES ASSUME NEW p \in Pages PROVE ytCache'[<<p, FALSE>>] # "variant"
      BY DEF StrictCache
    <2>1. ytCache[<<p, FALSE>>] # "variant" /\ <<p, FALSE>> \in Pages \X BOOLEAN
      BY DEF IInv, StrictCache
    <2>2. Key(q) = <<p, FALSE>> => video[q] # "variant"
      BY DEF IInv, StrictNeverVariant, Key
    <2> QED BY <1>1, <2>1, <2>2 DEF YtStore, IInv, TypeOK
  <1> QED BY <1>2, <1>3, <1>4, <1>5, <1>6 DEF IInv

LEMMA PageExpiresIInv ==
    ASSUME IInv, PageExpires
    PROVE  IInv'
  <1>1. TypeOK' /\ Quiet'
    BY DEF PageExpires, IInv, TypeOK, Quiet, Pages, callVars, ytVars
  <1>2. SlotsHeld' /\ StrictNeverVariant' /\ StrictCache'
    BY DEF PageExpires, IInv, SlotsHeld, Holders, StrictNeverVariant, AllowVariants,
           StrictCache, callVars, ytVars
  <1> QED BY <1>1, <1>2 DEF IInv

LEMMA StutterIInv == IInv /\ UNCHANGED vars => IInv'
  BY DEF IInv, TypeOK, SlotsHeld, Holders, StrictNeverVariant, AllowVariants, Quiet,
         StrictCache, vars, callVars, ytVars

LEMMA NextIInv == IInv /\ [Next]_vars => IInv'
  <1> SUFFICES ASSUME IInv, [Next]_vars PROVE IInv'
    OBVIOUS
  <1>1. ASSUME NEW q \in Callers, NEW k \in AllKinds, Call(q, k) \/ DeckLookup(q)
        PROVE  IInv'
    BY <1>1, CallIInv
  <1>2. ASSUME NEW q \in Callers, CallStep(q) PROVE IInv'
    BY <1>2, CallStepIInv
  <1>3. ASSUME NEW q \in Callers, SpotifyDone(q) PROVE IInv'
    BY <1>3, SpotifyDoneIInv
  <1>4. ASSUME NEW q \in Callers, YtStep(q) PROVE IInv'
    BY <1>4, YtCacheLookupIInv, TakeSlotIInv, ContextEndsIInv, RunFailsIInv, YtStoreIInv
    DEF YtStep, WaitDelayOver
  <1>5. ASSUME NEW q \in Callers, ProcessExits(q) PROVE IInv'
    BY <1>5, ProcessExitsIInv
  <1>6. ASSUME NEW q \in Callers, PipesClosed(q) PROVE IInv'
    BY <1>6, RunFailsIInv DEF PipesClosed
  <1>7. CASE PageExpires
    BY <1>7, PageExpiresIInv
  <1>8. CASE UNCHANGED vars
    BY <1>8, StutterIInv
  <1>9. ASSUME NEW q \in Callers, DeckLookup(q) PROVE IInv'
    BY <1>1, <1>9 DEF AllKinds
  <1> QED BY <1>1, <1>2, <1>3, <1>4, <1>5, <1>6, <1>7, <1>8, <1>9 DEF Next

LEMMA Invariance == Spec => []IInv
  BY InitIInv, NextIInv, PTL DEF Spec

-----------------------------------------------------------------------------
\* Types, and the number of slots in use never above its maximum.
THEOREM TypeCorrect == Spec => []TypeOK
  <1>1. IInv => TypeOK
    BY DEF IInv
  <1> QED BY <1>1, Invariance, PTL

\* No slot of runYtDlp leaks or is given back early (ytdlp.go:81-110).
THEOREM SlotsAccounted == Spec => []SlotsHeld
  <1>1. IInv => SlotsHeld
    BY DEF IInv
  <1> QED BY <1>1, Invariance, PTL

\* The cache never serves a variant to a request that asked for the original
\* (youtube.go:50-59).
THEOREM StrictGetsOriginal == Spec => []StrictNeverVariant
  <1>1. IInv => StrictNeverVariant
    BY DEF IInv
  <1> QED BY <1>1, Invariance, PTL

\* The handler's join leaves nothing behind (main.go:710-749).
THEOREM AnswerIsLast == Spec => []NoOrphans
  <1>1. IInv => NoOrphans
    BY DEF IInv, Quiet, NoOrphans
  <1> QED BY <1>1, Invariance, PTL
=============================================================================
