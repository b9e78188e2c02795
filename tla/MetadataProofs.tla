--------------------------- MODULE MetadataProofs ---------------------------
(***************************************************************************)
(* From the providers' answers to a card's year. The reference             *)
(* definition of the most common year has exactly one winner; the key of   *)
(* a provider round only ever holds majority results, for any providers,   *)
(* years and concurrent requests; the scan of the votes elects the         *)
(* reference's winner in whatever order the map is visited; and the        *)
(* choice among search results is the earliest of the artist's, for any    *)
(* list of results.                                                        *)
(***************************************************************************)
EXTENDS Metadata, Votes, EarliestMatch, FiniteSetTheorems, WellFoundedInduction, TLAPS

-----------------------------------------------------------------------------
(* The reference: who wins a vote *)

\* Beating is a strict order on candidates, and a total one.
LEMMA BeatsOrder ==
    ASSUME NEW S \in SUBSET Nat, NEW cs, \A k \in S : cs[k] \in Nat, NEW side \in BOOLEAN
    PROVE  /\ \A a \in S : ~Beats(cs, side, a, a)
           /\ \A a, b, c \in S : Beats(cs, side, a, b) /\ Beats(cs, side, b, c) => Beats(cs, side, a, c)
           /\ \A a, b \in S : a = b \/ Beats(cs, side, a, b) \/ Beats(cs, side, b, a)
  <1>1. \A a \in S : a \in Nat /\ cs[a] \in Nat
    OBVIOUS
  <1> QED BY <1>1 DEF Beats

\* Some candidate is beaten by none: the one beaten by the fewest, since whoever
\* beats it would be beaten by fewer still.
LEMMA WinnerExists ==
    ASSUME NEW S \in SUBSET Nat, IsFiniteSet(S), S # {},
           NEW cs, \A k \in S : cs[k] \in Nat, NEW side \in BOOLEAN
    PROVE  \E w \in S : IsWinner(cs, side, S, w)
  <1> DEFINE Above(w) == {k \in S : Beats(cs, side, k, w)}
             T == {Above(w) : w \in S}
             R == StrictSubsetOrdering(S)
  <1>1. PICK A \in T : \A B \in T : <<B, A>> \notin R
    <2>1. IsWellFoundedOn(R, SUBSET S)
      BY FS_StrictSubsetOrderingWellFounded, FS_FiniteSubsetsOfFinite
    <2>2. T \subseteq SUBSET S /\ T # {}
      OBVIOUS
    <2> HIDE DEF R, T
    <2> QED BY <2>1, <2>2, WFMin
  <1>2. PICK w \in S : A = Above(w)
    OBVIOUS
  <1>3. Above(w) = {}
    <2> SUFFICES ASSUME NEW k \in Above(w) PROVE FALSE
      OBVIOUS
    <2>1. k \in S /\ Above(k) \subseteq Above(w) /\ k \notin Above(k)
      <3>1. k \in S /\ Beats(cs, side, k, w) /\ ~Beats(cs, side, k, k)
        BY BeatsOrder
      <3>2. \A j \in S : Beats(cs, side, j, k) => Beats(cs, side, j, w)
        BY <3>1, BeatsOrder
      <3> QED BY <3>1, <3>2
    <2>2. <<Above(k), Above(w)>> \in R
      BY <2>1 DEF StrictSubsetOrdering
    <2> QED BY <1>1, <1>2, <2>1, <2>2
  <1>4. \A k \in S \ {w} : Beats(cs, side, w, k)
    BY <1>3, BeatsOrder
  <1> QED BY <1>4 DEF IsWinner

LEMMA WinnerUnique ==
    ASSUME NEW S \in SUBSET Nat, NEW cs, \A k \in S : cs[k] \in Nat, NEW side \in BOOLEAN,
           NEW v, NEW w, IsWinner(cs, side, S, v), IsWinner(cs, side, S, w)
    PROVE  v = w
  <1>1. v \in S /\ w \in S
    BY DEF IsWinner
  <1>2. v # w => Beats(cs, side, v, w) /\ Beats(cs, side, w, v)
    BY <1>1 DEF IsWinner
  <1> QED BY <1>1, <1>2, BeatsOrder

\* A tally is over finitely many years and counts are numbers.
LEMMA TallyFacts ==
    ASSUME NEW D, IsFiniteSet(D), NEW votes \in [D -> Nat]
    PROVE  /\ DOMAIN Tally(votes) = {votes[v] : v \in D} \ {0}
           /\ DOMAIN Tally(votes) \in SUBSET Nat /\ IsFiniteSet(DOMAIN Tally(votes))
           /\ \A y \in DOMAIN Tally(votes) : Tally(votes)[y] \in Nat
  <1> DEFINE I == {votes[v] : v \in D}
  <1>1. DOMAIN Tally(votes) = I \ {0}
    BY DEF Tally
  <1>2. IsFiniteSet(I)
    <2>1. votes \in Surjection(D, I)
      BY DEF Surjection
    <2> HIDE DEF I
    <2> QED BY <2>1, FS_Surjection
  <1>3. IsFiniteSet(I \ {0})
    BY <1>2, FS_Subset
  <1>4. ASSUME NEW y \in I \ {0} PROVE Tally(votes)[y] \in Nat
    <2>1. Tally(votes)[y] = Cardinality({v \in D : votes[v] = y})
      BY DEF Tally
    <2>2. IsFiniteSet({v \in D : votes[v] = y})
      BY FS_Subset
    <2> QED BY <2>1, <2>2, FS_CardinalityType
  <1> QED BY <1>1, <1>3, <1>4

\* The reference defines something: the most common year is the one winner of the
\* vote, or nobody voted for a year.
LEMMA MostCommonYearWins ==
    ASSUME NEW D, IsFiniteSet(D), NEW votes \in [D -> Nat]
    PROVE  LET tally == Tally(votes)
               years == DOMAIN tally
           IN  IF years = {} THEN MostCommonYear(votes) = 0
               ELSE IsWinner(tally, FALSE, years, MostCommonYear(votes))
  <1> DEFINE cs == Tally(votes)
             S == DOMAIN cs
  <1>1. S \in SUBSET Nat /\ IsFiniteSet(S) /\ \A y \in S : cs[y] \in Nat
    BY TallyFacts
  <1>2. CASE S = {}
    BY <1>2 DEF MostCommonYear
  <1>3. CASE S # {}
    <2> HIDE DEF cs
    <2>1. \E w \in S : IsWinner(cs, FALSE, S, w)
      BY <1>1, <1>3, WinnerExists
    <2>2. MostCommonYear(votes) = CHOOSE w \in S : IsWinner(cs, FALSE, S, w)
      BY <1>3 DEF MostCommonYear, cs
    <2>3. IsWinner(cs, FALSE, S, MostCommonYear(votes))
      BY <2>1, <2>2
    <2> QED BY <1>3, <2>3 DEF cs
  <1> QED BY <1>2, <1>3

LEMMA MostCommonYearType ==
    ASSUME NEW D, IsFiniteSet(D), NEW Y \in SUBSET Nat, NEW votes \in [D -> Y]
    PROVE  MostCommonYear(votes) \in Y \cup {0}
  <1>1. votes \in [D -> Nat]
    OBVIOUS
  <1>2. DOMAIN Tally(votes) = {votes[v] : v \in D} \ {0}
    BY <1>1, TallyFacts
  <1>3. MostCommonYear(votes) \in DOMAIN Tally(votes) \cup {0}
    BY <1>1, MostCommonYearWins DEF IsWinner
  <1> QED BY <1>2, <1>3

-----------------------------------------------------------------------------
(* One provider round *)

\* What a request has found is a track, not the zero result.
FoundIsSome == \A r \in Requests : pc[r] \in {"found", "copying"} => result[r] # NoResult

MetadataIInv == TypeOK /\ FoundIsSome /\ RoundKeyIsMajority

LEMMA QuorumType ==
    /\ Cardinality(Providers) \in Nat /\ Quorum \in Nat \ {0}
  BY MetadataAssumption, FS_CardinalityType DEF Quorum

LEMMA TakenType ==
    ASSUME NEW r \in Requests
    PROVE  /\ IsFiniteSet(Taken(r)) /\ Taken(r) \subseteq Providers
           /\ Cardinality(Taken(r)) \in 0..Cardinality(Providers)
  <1>1. Taken(r) \subseteq Providers
    BY DEF Taken
  <1> QED BY <1>1, MetadataAssumption, FS_Subset, FS_CardinalityType

LEMMA VoteType ==
    ASSUME TypeOK, NEW r \in Requests
    PROVE  MostCommonYear(VotesOf(r)) \in Years \cup {0}
  <1>1. VotesOf(r) \in [Taken(r) -> Years \cup {0}]
    BY TakenType DEF VotesOf, TypeOK
  <1>2. Years \cup {0} \in SUBSET Nat
    BY MetadataAssumption
  <1> QED BY <1>1, <1>2, TakenType, MostCommonYearType

LEMMA InitMetadataIInv == Init => MetadataIInv
  <1> SUFFICES ASSUME Init PROVE MetadataIInv
    OBVIOUS
  <1>1. NoResult \in Result
    BY QuorumType DEF NoResult, Result
  <1>2. TypeOK
    BY <1>1 DEF Init, TypeOK
  <1> QED BY <1>2 DEF Init, MetadataIInv, FoundIsSome, RoundKeyIsMajority

\* What is put into the cache, and where.
LEMMA PutFacts ==
    ASSUME TypeOK, NEW k \in {"raw", "bare"}, NEW v \in Result, v # NoResult, Put(k, v)
    PROVE  /\ DOMAIN cache' = DOMAIN cache \cup {k} /\ cache'[k] = v
           /\ \A j \in DOMAIN cache \ {k} : cache'[j] = cache[j]
           /\ DOMAIN cache' \subseteq {"raw", "bare"}
           /\ \A j \in DOMAIN cache' : cache'[j] \in Result /\ cache'[j] # NoResult
  <1>1. /\ DOMAIN cache' = DOMAIN cache \cup {k} /\ cache'[k] = v
        /\ \A j \in DOMAIN cache \ {k} : cache'[j] = cache[j]
    BY DEF Put
  <1> QED BY <1>1 DEF TypeOK

LEMMA StartRoundTypes ==
    ASSUME TypeOK, NEW r \in Requests, NEW t \in {"raw", "bare"}, StartRound(r, t)
    PROVE  /\ round' \in [Requests -> {"raw", "bare"}] /\ ctx' \in [Requests -> {"live", "done"}]
           /\ prov' \in [Requests -> [Providers -> {"running", "sent", "taken", "quit"}]]
           /\ ans' \in [Requests -> [Providers -> Years \cup {0}]]
           /\ pc' \in [Requests -> {"idle", "lookup", "collect", "vote", "found", "empty", "copying"}]
           /\ pc' = [pc EXCEPT ![r] = "lookup"]
  <1>1. [p \in Providers |-> "quit"] \in [Providers -> {"running", "sent", "taken", "quit"}]
    OBVIOUS
  <1>2. [p \in Providers |-> 0] \in [Providers -> Years \cup {0}]
    OBVIOUS
  <1> QED BY <1>1, <1>2 DEF StartRound, TypeOK

LEMMA CallIInv ==
    ASSUME MetadataIInv, NEW r \in Requests, NEW t \in Titles, Call(r, t)
    PROVE  MetadataIInv'
  <1>1. t \in {"raw", "bare"} /\ StartRound(r, t) /\ UNCHANGED cache /\ TypeOK
    BY MetadataAssumption DEF Call, MetadataIInv
  <1>2. NoResult \in Result
    BY QuorumType DEF NoResult, Result
  <1>3. TypeOK'
    BY <1>1, <1>2, StartRoundTypes DEF Call, TypeOK
  <1>4. FoundIsSome'
    BY <1>1, StartRoundTypes DEF Call, MetadataIInv, FoundIsSome, TypeOK
  <1> QED BY <1>1, <1>3, <1>4 DEF MetadataIInv, RoundKeyIsMajority, Quorum

\* A request returns.
LEMMA ReturnTypes ==
    ASSUME MetadataIInv, NEW r \in Requests, Return(r)
    PROVE  /\ FoundIsSome'
           /\ /\ DOMAIN cache' \subseteq {"raw", "bare"}
              /\ \A k \in DOMAIN cache' : cache'[k] \in Result /\ cache'[k] # NoResult
              => TypeOK'
  <1>1. NoResult \in Result
    BY QuorumType DEF NoResult, Result
  <1>2. FoundIsSome'
    BY DEF Return, MetadataIInv, FoundIsSome, TypeOK
  <1>3. /\ pc' \in [Requests -> {"idle", "lookup", "collect", "vote", "found", "empty", "copying"}]
        /\ title' \in [Requests -> {"raw", "bare"}] /\ round' \in [Requests -> {"raw", "bare"}]
        /\ caller' \in [Requests -> {"live", "done"}] /\ ctx' \in [Requests -> {"live", "done"}]
        /\ prov' \in [Requests -> [Providers -> {"running", "sent", "taken", "quit"}]]
        /\ ans' \in [Requests -> [Providers -> Years \cup {0}]]
        /\ result' \in [Requests -> Result]
    BY <1>1 DEF Return, MetadataIInv, TypeOK
  <1> QED BY <1>2, <1>3 DEF TypeOK, Result

\* The steps between rounds: a request returns or starts over, and nothing but
\* CopyToRawKey writes, which does not write the round's key.
LEMMA BetweenRoundsIInv ==
    ASSUME MetadataIInv, NEW r \in Requests,
           AfterRound(r) \/ BareFailed(r) \/ CheckBareKey(r) \/ CopyToRawKey(r)
    PROVE  MetadataIInv'
  <1> TypeOK
    BY DEF MetadataIInv
  <1>1. ASSUME Return(r), UNCHANGED cache PROVE MetadataIInv'
    BY <1>1, ReturnTypes DEF MetadataIInv, TypeOK, RoundKeyIsMajority, Quorum
  <1>2. ASSUME StartRound(r, "bare"), UNCHANGED <<title, caller, result, cache>> PROVE MetadataIInv'
    <2>1. TypeOK'
      BY <1>2, StartRoundTypes DEF TypeOK
    <2>2. FoundIsSome'
      BY <1>2, StartRoundTypes DEF MetadataIInv, FoundIsSome, TypeOK
    <2> QED BY <1>2, <2>1, <2>2 DEF MetadataIInv, RoundKeyIsMajority, Quorum
  <1>3. CASE AfterRound(r) \/ BareFailed(r)
    BY <1>1, <1>2, <1>3 DEF AfterRound, BareFailed
  <1>4. CASE CheckBareKey(r)
    <2>1. CASE /\ pc[r] = "found" /\ pc' = [pc EXCEPT ![r] = "copying"]
               /\ UNCHANGED <<title, round, caller, ctx, prov, ans, result, cache>>
      <3>1. TypeOK' /\ FoundIsSome'
        BY <2>1 DEF MetadataIInv, FoundIsSome, TypeOK
      <3> QED BY <2>1, <3>1 DEF MetadataIInv, RoundKeyIsMajority, Quorum
    <2> QED BY <1>1, <1>4, <2>1 DEF CheckBareKey
  <1>5. CASE CopyToRawKey(r)
    <2>1. result[r] \in Result /\ result[r] # NoResult /\ Return(r) /\ Put("raw", result[r])
      BY <1>5 DEF CopyToRawKey, MetadataIInv, FoundIsSome, TypeOK
    <2>2. RoundKeyIsMajority'
      BY <2>1, PutFacts DEF MetadataIInv, RoundKeyIsMajority, Quorum
    <2> QED BY <2>1, <2>2, PutFacts, ReturnTypes DEF MetadataIInv
  <1> QED BY <1>3, <1>4, <1>5

LEMMA LookupIInv ==
    ASSUME MetadataIInv, NEW r \in Requests, Lookup(r)
    PROVE  MetadataIInv'
  <1> TypeOK
    BY DEF MetadataIInv
  <1>1. CASE /\ round[r] \in DOMAIN cache
             /\ result' = [result EXCEPT ![r] = cache[round[r]]]
             /\ pc' = [pc EXCEPT ![r] = "found"] /\ UNCHANGED prov
    BY <1>1 DEF Lookup, MetadataIInv, FoundIsSome, TypeOK, RoundKeyIsMajority, Quorum
  <1>2. CASE /\ prov' = [prov EXCEPT ![r] = [p \in Providers |-> "running"]]
             /\ pc' = [pc EXCEPT ![r] = "collect"] /\ UNCHANGED result
    BY <1>2 DEF Lookup, MetadataIInv, FoundIsSome, TypeOK, RoundKeyIsMajority, Quorum
  <1> QED BY <1>1, <1>2 DEF Lookup

LEMMA CollectingIInv ==
    ASSUME MetadataIInv, NEW r \in Requests,
           \/ \E p \in Providers, y \in Years : ProviderAnswers(r, p, y)
           \/ \E p \in Providers : ProviderQuits(r, p) \/ Collect(r, p)
           \/ CollectClosed(r) \/ CollectExpired(r) \/ RoundExpires(r) \/ CallerGone(r)
    PROVE  MetadataIInv'
  <1>1. UNCHANGED <<title, round, result, cache>>
    BY DEF ProviderAnswers, ProviderQuits, Collect, CollectClosed, CollectExpired,
       RoundExpires, CallerGone
  <1>2. pc' \in [Requests -> {"idle", "lookup", "collect", "vote", "found", "empty", "copying"}]
    BY DEF ProviderAnswers, ProviderQuits, Collect, CollectClosed, CollectExpired,
       RoundExpires, CallerGone, MetadataIInv, TypeOK
  <1>3. prov' \in [Requests -> [Providers -> {"running", "sent", "taken", "quit"}]]
    <2>1. \/ prov' = prov
          \/ \E p \in Providers, s \in {"sent", "taken", "quit"} :
                prov' = [prov EXCEPT ![r] = [prov[r] EXCEPT ![p] = s]]
      BY DEF ProviderAnswers, ProviderQuits, Collect, CollectClosed, CollectExpired,
         RoundExpires, CallerGone
    <2>2. prov \in [Requests -> [Providers -> {"running", "sent", "taken", "quit"}]]
      BY DEF MetadataIInv, TypeOK
    <2>3. ASSUME NEW p \in Providers, NEW s \in {"sent", "taken", "quit"}
          PROVE  [prov[r] EXCEPT ![p] = s] \in [Providers -> {"running", "sent", "taken", "quit"}]
      BY <2>2
    <2> QED BY <2>1, <2>2, <2>3
  <1>4. ans' \in [Requests -> [Providers -> Years \cup {0}]]
    <2>1. \/ ans' = ans
          \/ \E p \in Providers, y \in Years : ans' = [ans EXCEPT ![r] = [ans[r] EXCEPT ![p] = y]]
      BY DEF ProviderAnswers, ProviderQuits, Collect, CollectClosed, CollectExpired,
         RoundExpires, CallerGone
    <2>2. ans \in [Requests -> [Providers -> Years \cup {0}]]
      BY DEF MetadataIInv, TypeOK
    <2>3. ASSUME NEW p \in Providers, NEW y \in Years
          PROVE  [ans[r] EXCEPT ![p] = y] \in [Providers -> Years \cup {0}]
      BY <2>2
    <2> QED BY <2>1, <2>2, <2>3
  <1>5. caller' \in [Requests -> {"live", "done"}] /\ ctx' \in [Requests -> {"live", "done"}]
    BY DEF ProviderAnswers, ProviderQuits, Collect, CollectClosed, CollectExpired,
       RoundExpires, CallerGone, MetadataIInv, TypeOK
  <1>6. TypeOK'
    BY <1>1, <1>2, <1>3, <1>4, <1>5 DEF MetadataIInv, TypeOK, Result
  <1>7. FoundIsSome'
    BY <1>1 DEF ProviderAnswers, ProviderQuits, Collect, CollectClosed, CollectExpired,
       RoundExpires, CallerGone, MetadataIInv, TypeOK, FoundIsSome
  <1> QED BY <1>1, <1>6, <1>7 DEF MetadataIInv, RoundKeyIsMajority, Quorum

\* The only write of a round's key, and it asks for a quorum of answers.
LEMMA VoteIInv ==
    ASSUME MetadataIInv, NEW r \in Requests, Vote(r)
    PROVE  MetadataIInv'
  <1> DEFINE n == Cardinality(Taken(r))
             out == [year |-> MostCommonYear(VotesOf(r)), votes |-> n]
  <1>1. TypeOK /\ n \in 0..Cardinality(Providers) /\ out \in Result
    BY TakenType, VoteType DEF MetadataIInv, Result
  <1>2. /\ title' = title /\ round' = round /\ caller' = caller
        /\ ctx' = [ctx EXCEPT ![r] = "done"]
        /\ prov' = [prov EXCEPT ![r] = [p \in Providers |-> "quit"]]
        /\ ans' = [ans EXCEPT ![r] = [p \in Providers |-> 0]]
    BY DEF Vote
  <1>3. /\ title' \in [Requests -> {"raw", "bare"}] /\ round' \in [Requests -> {"raw", "bare"}]
        /\ caller' \in [Requests -> {"live", "done"}] /\ ctx' \in [Requests -> {"live", "done"}]
        /\ prov' \in [Requests -> [Providers -> {"running", "sent", "taken", "quit"}]]
        /\ ans' \in [Requests -> [Providers -> Years \cup {0}]]
    BY <1>1, <1>2 DEF TypeOK
  <1>4. CASE n = 0
    <2>1. pc' = [pc EXCEPT ![r] = "empty"] /\ UNCHANGED <<result, cache>>
      BY <1>4 DEF Vote
    <2>2. TypeOK' /\ FoundIsSome'
      BY <1>1, <1>3, <2>1 DEF MetadataIInv, TypeOK, FoundIsSome
    <2> QED BY <2>1, <2>2 DEF MetadataIInv, RoundKeyIsMajority, Quorum
  <1>5. CASE n # 0
    <2>1. /\ pc' = [pc EXCEPT ![r] = "found"] /\ result' = [result EXCEPT ![r] = out]
          /\ IF MayCache(n) THEN Put(round[r], out) ELSE UNCHANGED cache
      BY <1>5 DEF Vote
    <2>2. out # NoResult /\ out.votes = n /\ round[r] \in {"raw", "bare"}
      BY <1>1, <1>5 DEF NoResult, TypeOK
    <2> HIDE DEF out, n
    <2>3. FoundIsSome' /\ result' \in [Requests -> Result]
          /\ pc' \in [Requests -> {"idle", "lookup", "collect", "vote", "found", "empty", "copying"}]
      BY <1>1, <2>1, <2>2 DEF MetadataIInv, TypeOK, FoundIsSome
    <2>4. CASE MayCache(n)
      <3>1. RoundKeyIsMajority'
        BY <1>1, <2>1, <2>2, <2>4, PutFacts DEF MetadataIInv, RoundKeyIsMajority, MayCache, Quorum
      <3>2. TypeOK'
        BY <1>1, <1>3, <2>1, <2>2, <2>3, <2>4, PutFacts DEF TypeOK, Result
      <3> QED BY <2>3, <3>1, <3>2 DEF MetadataIInv
    <2>5. CASE ~MayCache(n)
      BY <1>1, <1>3, <2>1, <2>3, <2>5 DEF MetadataIInv, TypeOK, Result, RoundKeyIsMajority, Quorum
    <2> QED BY <2>4, <2>5
  <1> QED BY <1>4, <1>5

LEMMA EntryExpiresIInv ==
    ASSUME MetadataIInv, NEW k \in {"raw", "bare"}, EntryExpires(k)
    PROVE  MetadataIInv'
  <1>1. DOMAIN cache' = DOMAIN cache \ {k} /\ \A j \in DOMAIN cache' : cache'[j] = cache[j]
    BY DEF EntryExpires
  <1>2. UNCHANGED <<pc, title, round, caller, ctx, prov, ans, result>>
    BY DEF EntryExpires
  <1>3. TypeOK' /\ FoundIsSome'
    BY <1>1, <1>2 DEF MetadataIInv, TypeOK, Result, FoundIsSome
  <1> QED BY <1>1, <1>3 DEF MetadataIInv, RoundKeyIsMajority, Quorum

LEMMA MetadataNextIInv == MetadataIInv /\ [Next]_vars => MetadataIInv'
  <1> SUFFICES ASSUME MetadataIInv, [Next]_vars PROVE MetadataIInv'
    OBVIOUS
  <1>1. ASSUME NEW r \in Requests, RequestStep(r) PROVE MetadataIInv'
    BY <1>1, BetweenRoundsIInv, LookupIInv, CollectingIInv, VoteIInv DEF RequestStep
  <1>2. CASE UNCHANGED vars
    BY <1>2 DEF vars, MetadataIInv, TypeOK, Result, FoundIsSome, RoundKeyIsMajority, Quorum
  <1> QED BY <1>1, <1>2, CallIInv, CollectingIInv, EntryExpiresIInv DEF Next

LEMMA InvariantMetadataIInv == Spec => []MetadataIInv
  BY InitMetadataIInv, MetadataNextIInv, PTL DEF Spec

\* The fan-out's state has its type: in particular every year it finds or caches
\* was answered by a provider, or is none.
THEOREM MetadataTypeCorrect == Spec => []TypeOK
  <1>1. MetadataIInv => TypeOK
    BY DEF MetadataIInv
  <1> QED BY <1>1, InvariantMetadataIInv, PTL

\* The key of a provider round only ever holds majority results, for any number
\* of providers and concurrent requests (metadata.go:290-296).
THEOREM RoundKeyMajority == Spec => []RoundKeyIsMajority
  <1>1. MetadataIInv => RoundKeyIsMajority
    BY DEF MetadataIInv
  <1> QED BY <1>1, InvariantMetadataIInv, PTL

-----------------------------------------------------------------------------
(* chooseMostCommon and chooseMostCommonInt *)

VotesIInv == VotesTypeOK /\ OrderIndependent

LEMMA InitVotesIInv == VotesInit => VotesIInv
  <1> SUFFICES ASSUME VotesInit PROVE VotesIInv
    OBVIOUS
  <1>1. PICK S \in SUBSET Values : counts \in [S -> 1..MaxVotes]
    BY DEF VotesInit
  <1>2. VotesTypeOK
    BY <1>1, VotesAssumption DEF VotesInit, VotesTypeOK
  <1>3. OrderIndependent
    BY DEF VotesInit, OrderIndependent
  <1> QED BY <1>2, <1>3 DEF VotesIInv

\* One turn of the loop: the winner among the keys seen, against one more.
LEMMA VisitIInv ==
    ASSUME VotesIInv, NEW k \in Values, Visit(k)
    PROVE  VotesIInv'
  <1> DEFINE seen == DOMAIN counts \ left
  <1>1. /\ k \in DOMAIN counts /\ k \notin seen /\ k \in Nat \ {0}
        /\ counts[k] \in Nat \ {0} /\ best \in Nat /\ bestc \in Nat
        /\ \A j \in seen : j \in Nat /\ counts[j] \in Nat
    BY VotesAssumption DEF Visit, VotesIInv, VotesTypeOK
  <1>2. UNCHANGED <<counts, larger>> /\ (DOMAIN counts \ left)' = seen \cup {k}
    BY <1>1 DEF Visit, VotesIInv, VotesTypeOK
  <1>3. VotesTypeOK'
    <2>1. best' \in Nat /\ bestc' \in Nat /\ left' \subseteq DOMAIN counts
      BY <1>1 DEF Visit, VotesIInv, VotesTypeOK
    <2> QED BY <1>2, <2>1 DEF VotesIInv, VotesTypeOK
  <1>4. CASE seen = {}
    <2>1. best' = k /\ bestc' = counts[k]
      BY <1>1, <1>4 DEF Visit, Better, VotesIInv, OrderIndependent
    <2>2. OrderIndependent'
      BY <1>2, <1>4, <2>1 DEF OrderIndependent, IsWinner
    <2> QED BY <1>3, <2>2 DEF VotesIInv
  <1>5. CASE seen # {}
    <2>1. IsWinner(counts, larger, seen, best) /\ bestc = counts[best]
      BY <1>5 DEF VotesIInv, OrderIndependent
    <2>2. CASE Better(k)
      <3>1. best' = k /\ bestc' = counts[k]
        BY <2>2 DEF Visit
      <3>2. \A j \in seen : Beats(counts, larger, k, j)
        BY <1>1, <2>1, <2>2 DEF Better, Beats, IsWinner
      <3>3. IsWinner(counts, larger, seen \cup {k}, k)
        BY <3>2 DEF IsWinner
      <3>4. OrderIndependent'
        BY <1>2, <3>1, <3>3 DEF OrderIndependent, IsWinner
      <3> QED BY <1>3, <3>4 DEF VotesIInv
    <2>3. CASE ~Better(k)
      <3>1. best' = best /\ bestc' = bestc
        BY <2>3 DEF Visit
      <3>2. k # best
        BY <1>1, <2>1 DEF IsWinner
      <3>3. Beats(counts, larger, best, k)
        BY <1>1, <2>1, <2>3, <3>2, VotesAssumption DEF Better, Beats
      <3>4. IsWinner(counts, larger, seen \cup {k}, best)
        BY <2>1, <3>3 DEF IsWinner
      <3>5. OrderIndependent'
        BY <1>2, <2>1, <3>1, <3>4 DEF OrderIndependent, IsWinner
      <3> QED BY <1>3, <3>5 DEF VotesIInv
    <2> QED BY <2>2, <2>3
  <1> QED BY <1>4, <1>5

LEMMA InvariantVotesIInv == VotesSpec => []VotesIInv
  <1>1. ASSUME VotesIInv, UNCHANGED votesVars PROVE VotesIInv'
    BY <1>1 DEF votesVars, VotesIInv, VotesTypeOK, OrderIndependent, IsWinner, Beats
  <1>2. VotesIInv /\ [VotesNext]_votesVars => VotesIInv'
    BY <1>1, VisitIInv DEF VotesNext
  <1> QED BY <1>2, InitVotesIInv, PTL DEF VotesSpec

\* Identical votes always elect the same value, the most common one with ties
\* broken to the documented side (metadata.go:323-367).
THEOREM VoteIsOrderIndependent == VotesSpec => []OrderIndependent
  <1>1. VotesIInv => OrderIndependent
    BY DEF VotesIInv
  <1> QED BY <1>1, InvariantVotesIInv, PTL

\* The scan of chooseMostCommonInt ends with the reference's year, for every map
\* the votes of some providers can be counted into.
ScanFindsMostCommon ==
    left = {} /\ ~larger =>
        \A D \in SUBSET Providers : \A votes \in [D -> Nat] :
            counts = Tally(votes) => best = MostCommonYear(votes)

\* The year Metadata's rounds elect is the one the loop of chooseMostCommonInt
\* computes, in whatever order it visits the map (metadata.go:344-367).
THEOREM ScanElectsReference == VotesSpec => []ScanFindsMostCommon
  <1>1. ASSUME VotesIInv, left = {}, ~larger, NEW D \in SUBSET Providers,
               NEW votes \in [D -> Nat], counts = Tally(votes)
        PROVE  best = MostCommonYear(votes)
    <2>1. IsFiniteSet(D)
      BY MetadataAssumption, FS_Subset
    <2>2. larger = FALSE /\ DOMAIN counts \ left = DOMAIN counts
      BY <1>1 DEF VotesIInv, VotesTypeOK
    <2>3. CASE DOMAIN counts = {}
      BY <1>1, <2>1, <2>2, <2>3, MostCommonYearWins DEF VotesIInv, OrderIndependent
    <2>4. CASE DOMAIN counts # {}
      <3>1. IsWinner(counts, FALSE, DOMAIN counts, best)
        BY <1>1, <2>2, <2>4 DEF VotesIInv, OrderIndependent
      <3>2. IsWinner(counts, FALSE, DOMAIN counts, MostCommonYear(votes))
        BY <1>1, <2>1, <2>4, MostCommonYearWins
      <3>3. DOMAIN counts \in SUBSET Nat /\ \A y \in DOMAIN counts : counts[y] \in Nat
        BY <1>1, <2>1, TallyFacts
      <3> QED BY <3>1, <3>2, <3>3, WinnerUnique
    <2> QED BY <2>3, <2>4
  <1>2. VotesIInv => ScanFindsMostCommon
    BY <1>1 DEF ScanFindsMostCommon
  <1> QED BY <1>2, InvariantVotesIInv, PTL

-----------------------------------------------------------------------------
(* pickEarliestMatch *)

\* What the two flags know about the pick: pickMatches with a year means that it
\* is one of the artist's dated results, their absence that there is none yet.
PickKnown ==
    /\ pickYear = results[pick].year
    /\ pickMatches = results[pick].matches
    /\ pickMatches /\ pickYear # 0 <=> Dated # {}

MatchIInv == MatchTypeOK /\ PickKnown /\ EarliestDated

LEMMA ResultFields ==
    ASSUME MatchTypeOK
    PROVE  \A i \in 1..Len(results) :
             results[i].matches \in BOOLEAN /\ results[i].year \in Nat
  <1>1. \A i \in 1..Len(results) : results[i] \in ResultItems
    BY DEF MatchTypeOK
  <1> QED BY <1>1, EarliestMatchAssumption DEF ResultItems

LEMMA MatchInitIInv == MatchInit => MatchIInv
  <1> SUFFICES ASSUME MatchInit PROVE MatchIInv
    OBVIOUS
  <1>1. PICK n \in 1..MaxResults : results \in [1..n -> ResultItems]
    BY DEF MatchInit
  <1>2. n \in Nat /\ n >= 1 /\ Len(results) = n /\ results \in Seq(ResultItems)
    BY <1>1, EarliestMatchAssumption
  <1>3. results[1] \in ResultItems
    BY <1>1, <1>2
  <1>4. MatchTypeOK
    BY <1>2, <1>3 DEF MatchInit, MatchTypeOK, ResultItems
  <1>5. Dated = IF results[1].matches /\ results[1].year # 0 THEN {1} ELSE {}
    BY DEF MatchInit, Dated
  <1>6. PickKnown
    BY <1>5 DEF MatchInit, PickKnown
  <1>7. EarliestDated
    BY <1>3, <1>5, EarliestMatchAssumption DEF MatchInit, EarliestDated, ResultItems
  <1> QED BY <1>4, <1>6, <1>7 DEF MatchIInv

\* One turn of the loop.
LEMMA ConsiderIInv ==
    ASSUME MatchIInv, Consider
    PROVE  MatchIInv'
  <1> DEFINE r == results[at]
  <1>1. /\ at \in 2..Len(results) /\ Len(results) \in Nat
        /\ r \in ResultItems /\ pick \in 1..(at - 1)
    BY DEF MatchIInv, MatchTypeOK, Consider
  <1>2. \A i \in 1..Len(results) :
          results[i].matches \in BOOLEAN /\ results[i].year \in Nat
    BY ResultFields DEF MatchIInv
  <1>3. results' = results /\ at' = at + 1
    BY DEF Consider
  <1>4. Dated' = IF r.matches /\ r.year # 0 THEN Dated \cup {at} ELSE Dated
    BY <1>1, <1>3 DEF Dated
  <1>5. Dated \subseteq 1..(at - 1) /\ \A i \in Dated : results[i].year \in Nat \ {0}
    BY <1>1, <1>2 DEF Dated
  <1>6. CASE r.matches /\ r.year # 0 /\ Takes(r)
    <2>1. pick' = at /\ pickYear' = r.year /\ pickMatches' = TRUE
      BY <1>6 DEF Consider
    <2>2. MatchTypeOK'
      BY <1>1, <1>3, <2>1, EarliestMatchAssumption DEF MatchIInv, MatchTypeOK, ResultItems
    <2>3. Dated' = Dated \cup {at}
      BY <1>4, <1>6
    <2>4. PickKnown'
      BY <1>3, <1>6, <2>1, <2>3 DEF PickKnown
    <2>5. \A i \in Dated : r.year < results[i].year
      <3> SUFFICES ASSUME NEW i \in Dated PROVE r.year < results[i].year
        OBVIOUS
      <3>1. pickMatches /\ pickYear # 0 /\ pickYear = results[pick].year
        BY DEF MatchIInv, PickKnown
      <3>2. r.year < results[pick].year
        BY <1>6, <3>1 DEF Takes
      <3>3. results[pick].year <= results[i].year
        <4>1. \/ results[pick].year < results[i].year
              \/ results[pick].year = results[i].year
          BY DEF MatchIInv, EarliestDated
        <4>2. results[pick].year \in Nat /\ results[i].year \in Nat
          BY <1>1, <1>2, <1>5
        <4> QED BY <4>1, <4>2
      <3> QED BY <1>1, <1>2, <1>5, <3>2, <3>3
    <2>6. EarliestDated'
      BY <1>1, <1>2, <1>3, <2>1, <2>3, <2>5 DEF EarliestDated
    <2> QED BY <2>2, <2>4, <2>6 DEF MatchIInv
  <1>7. CASE ~(r.matches /\ r.year # 0 /\ Takes(r))
    <2>1. UNCHANGED <<pick, pickYear, pickMatches>>
      BY <1>7 DEF Consider
    <2>2. MatchTypeOK'
      BY <1>1, <1>3, <2>1 DEF MatchIInv, MatchTypeOK
    <2>3. CASE ~(r.matches /\ r.year # 0)
      BY <1>3, <1>4, <2>1, <2>2, <2>3 DEF MatchIInv, PickKnown, EarliestDated
    <2>4. CASE r.matches /\ r.year # 0 /\ ~Takes(r)
      <3>1. Dated' = Dated \cup {at}
        BY <1>4, <2>4
      <3>2. pickMatches /\ pickYear # 0 /\ ~(r.year < pickYear)
        BY <2>4 DEF Takes, MatchIInv, MatchTypeOK
      <3>3. pickYear = results[pick].year /\ pick \in Dated
        BY <3>2 DEF MatchIInv, PickKnown, EarliestDated
      <3>4. PickKnown'
        BY <1>3, <2>1, <3>1, <3>2 DEF MatchIInv, PickKnown
      <3>5. results[pick].year <= r.year /\ pick <= at
        BY <1>1, <1>2, <3>2, <3>3
      <3>6. EarliestDated'
        BY <1>1, <1>2, <1>3, <2>1, <3>1, <3>3, <3>5 DEF MatchIInv, EarliestDated
      <3> QED BY <2>2, <3>4, <3>6 DEF MatchIInv
    <2> QED BY <1>7, <2>3, <2>4
  <1> QED BY <1>6, <1>7

LEMMA InvariantMatchIInv == MatchSpec => []MatchIInv
  <1>1. ASSUME MatchIInv, UNCHANGED matchVars PROVE MatchIInv'
    BY <1>1 DEF matchVars, MatchIInv, MatchTypeOK, PickKnown, EarliestDated, Dated
  <1>2. MatchIInv /\ [Consider]_matchVars => MatchIInv'
    BY <1>1, ConsiderIInv
  <1> QED BY <1>2, MatchInitIInv, PTL DEF MatchSpec

\* The year taken from a search is that of the earliest dated recording of the
\* wanted artist in the list, however the list is ranked (itunes.go:97-115).
THEOREM PickIsEarliest == MatchSpec => []EarliestDated
  <1>1. MatchIInv => EarliestDated
    BY DEF MatchIInv
  <1> QED BY <1>1, InvariantMatchIInv, PTL
=============================================================================
