---------------------------- MODULE DecksProofs ----------------------------
(***************************************************************************)
(* The deck store's guarantees for any set of ids, keys, lifetimes and     *)
(* requests, any number of crashes and either backend.                     *)
(***************************************************************************)
EXTENDS Decks, TLAPS

\* An id that was never drawn has left no trace, a drawn one has an expiry.
Fresh ==
    \A i \in Ids :
        /\ phase[i] = "unused" => i \notin DOMAIN store
        /\ phase[i] # "unused" => expiry[i] # 0

\* What Put returned nil for is there until it expires.
Stored ==
    \A i \in Ids : phase[i] \in {"stored", "acked"} /\ now < expiry[i]
                     => i \in DOMAIN store

\* A worker about to delete holds a deck whose time is up.
Verdicts ==
    /\ sweepNow <= now
    /\ \A k \in DOMAIN workers : workers[k] = "deleting" =>
          k \in Ids /\ phase[k] # "unused" /\ expiry[k] <= sweepNow

\* The objects of others stay; their keys are no ids of decks, so by their type
\* they never carry the id of their key.
ForeignKept == Foreign \subseteq DOMAIN store

\* What a reader holds for an acknowledged id is that deck, or its time is up.
ReadsOK ==
    \A g \in DOMAIN reads : reads[g].wasAcked =>
        /\ reads[g].key \in Ids
        /\ phase[reads[g].key] = "acked"
        /\ \/ expiry[reads[g].key] <= now
           \/ reads[g].err = "other"
           \/ reads[g].err = "nil" /\ reads[g].object = DeckObject(reads[g].key)

AnswersOK ==
    \A g \in DOMAIN answers : answers[g].wasAcked =>
        answers[g].key \in Ids /\ phase[answers[g].key] = "acked"

\* The inductive invariant.
IInv ==
    /\ TypeOK /\ Fresh /\ Stored /\ NoTornDeck /\ Verdicts /\ ForeignKept
    /\ ReadsOK /\ AnswersOK /\ NotRefusedEarly

-----------------------------------------------------------------------------
LEMMA ObjectTypes ==
    /\ ForeignObjects \subseteq Object /\ Garbled \in Object
    /\ \A i \in Ids : expiry[i] \in Nat => DeckObject(i) \in Object
  <1>1. CacheObject \in Object /\ Garbled \in Object
    BY DEF CacheObject, Garbled, Object
  <1>2. \A i \in Ids : [parses |-> TRUE, id |-> i, expires |-> 1] \in Object
    BY DEF Object
  <1>3. \A i \in Ids : expiry[i] \in Nat => DeckObject(i) \in Object
    BY DEF Object, DeckObject
  <1> QED BY <1>1, <1>2, <1>3 DEF ForeignObjects

LEMMA InitIInv == Init => IInv
  <1> SUFFICES ASSUME Init PROVE IInv
    OBVIOUS
  <1>1. PICK o \in ForeignObjects : store = [k \in Foreign |-> o]
    BY DEF Init
  <1>2. TypeOK
    BY <1>1, ObjectTypes, DecksAssumption DEF Init, TypeOK, Keys
  <1>3. Fresh /\ Stored /\ NoTornDeck
    BY <1>1, DecksAssumption DEF Init, Fresh, Stored, NoTornDeck
  <1>4. Verdicts /\ ForeignKept /\ ReadsOK /\ AnswersOK /\ NotRefusedEarly
    BY <1>1 DEF Init, Verdicts, ForeignKept, ReadsOK, AnswersOK, NotRefusedEarly
  <1> QED BY <1>2, <1>3, <1>4 DEF IInv

\* CreateDeck preserves the invariant.  Step <1>2 is the common shape of all its
\* steps after the id is drawn: they move one id on, and at most store its deck.
LEMMA CreateIInv ==
    ASSUME IInv, CreateStep
    PROVE  IInv'
  <1> USE DEF IInv
  <1>0. UNCHANGED <<now, getVars, sweepVars, restarts, local>>
    BY DEF CreateStep, BuildDeck, WriteTemp, RenameTemp, PutFails, ApplyPut,
           PutErrs, Acknowledge
  <1>1. ASSUME NEW i \in Ids, NEW ttl \in TTLs, BuildDeck(i, ttl)
        PROVE  IInv'
    <2>1. /\ phase[i] = "unused" /\ phase' = [phase EXCEPT ![i] = "putting"]
          /\ expiry' = [expiry EXCEPT ![i] = now + ttl]
          /\ UNCHANGED <<store, temps>>
      BY <1>1 DEF BuildDeck
    <2>2. now \in Nat /\ ttl \in Nat /\ ttl # 0
      BY DecksAssumption DEF TypeOK
    <2>3. TypeOK'
      BY <1>0, <2>1, <2>2 DEF TypeOK, getVars, sweepVars
    <2>4. Fresh'
      BY <2>1, <2>2 DEF Fresh, TypeOK
    <2>5. Stored'
      BY <1>0, <2>1 DEF Stored, TypeOK
    <2>6. \A j \in Ids : j # i => expiry'[j] = expiry[j] /\ DeckObject(j)' = DeckObject(j)
      BY <2>1 DEF TypeOK, DeckObject
    <2>7. NoTornDeck'
      BY <2>1, <2>6 DEF Fresh, NoTornDeck
    <2>8. Verdicts' /\ ForeignKept'
      BY <1>0, <2>1, <2>6 DEF Verdicts, ForeignKept, TypeOK, sweepVars
    <2>9. ReadsOK'
      BY <1>0, <2>1, <2>6 DEF ReadsOK, TypeOK, getVars
    <2>10. AnswersOK' /\ NotRefusedEarly'
      BY <1>0, <2>1, <2>6 DEF AnswersOK, NotRefusedEarly, TypeOK, getVars
    <2> QED BY <2>3, <2>4, <2>5, <2>7, <2>8, <2>9, <2>10
  <1>2. ASSUME NEW i \in Ids, NEW p \in {"temp", "stored", "lost", "acked", "failed"},
               phase[i] \notin {"unused", "acked"},
               phase' = [phase EXCEPT ![i] = p], UNCHANGED expiry,
               temps' \subseteq Ids,
               \/ UNCHANGED store
               \/ store' = With(store, i, DeckObject(i)),
               p = "stored" => i \in DOMAIN store',
               p = "acked" => phase[i] = "stored"
        PROVE  IInv'
    <2>1. \A j \in Ids : DeckObject(j)' = DeckObject(j)
      BY <1>2 DEF DeckObject
    <2>2. /\ DOMAIN store' \subseteq DOMAIN store \cup {i}
          /\ DOMAIN store \subseteq DOMAIN store'
          /\ \A k \in DOMAIN store' : \/ k \in DOMAIN store /\ store'[k] = store[k]
                                      \/ k = i /\ store'[k] = DeckObject(i)
      BY <1>2 DEF With
    <2>3. TypeOK'
      <3>1. \A k \in DOMAIN store' : store'[k] \in Object
        BY <2>2, ObjectTypes DEF TypeOK
      <3> QED BY <1>0, <1>2, <2>2, <3>1 DEF TypeOK, getVars, sweepVars, Keys
    <2>4. Fresh'
      BY <1>2, <2>2 DEF Fresh, TypeOK
    <2>5. Stored'
      BY <1>0, <1>2, <2>2 DEF Stored, TypeOK
    <2>6. NoTornDeck'
      BY <2>1, <2>2 DEF NoTornDeck
    <2>7. Verdicts'
      BY <1>0, <1>2 DEF Verdicts, TypeOK, sweepVars
    <2>8. ForeignKept'
      BY <2>2, DecksAssumption DEF ForeignKept
    <2>9. ReadsOK'
      BY <1>0, <1>2, <2>1 DEF ReadsOK, TypeOK, getVars
    <2>10. AnswersOK' /\ NotRefusedEarly'
      BY <1>0, <1>2 DEF AnswersOK, NotRefusedEarly, TypeOK, getVars
    <2> QED BY <2>3, <2>4, <2>5, <2>6, <2>7, <2>8, <2>9, <2>10
  <1>3. ASSUME NEW i \in Ids, WriteTemp(i) PROVE IInv'
    <2>1. /\ phase[i] = "putting" /\ phase' = [phase EXCEPT ![i] = "temp"]
          /\ temps' \subseteq Ids /\ UNCHANGED <<store, expiry>>
      BY <1>3 DEF WriteTemp, TypeOK
    <2> QED BY <1>2, <2>1
  <1>4. ASSUME NEW i \in Ids, RenameTemp(i) PROVE IInv'
    <2>1. i \in DOMAIN With(store, i, DeckObject(i))
      BY DEF With
    <2> QED BY <1>2, <1>4, <2>1 DEF RenameTemp, TypeOK
  <1>5. ASSUME NEW i \in Ids, PutFails(i) PROVE IInv'
    BY <1>2, <1>5 DEF PutFails, TypeOK
  <1>6. ASSUME NEW i \in Ids, ApplyPut(i) PROVE IInv'
    <2>1. i \in DOMAIN With(store, i, DeckObject(i))
      BY DEF With
    <2>2. CASE phase[i] = "putting"
      <3>1. phase' = [phase EXCEPT ![i] = "stored"]
        BY <1>6, <2>2 DEF ApplyPut
      <3> QED BY <1>2, <1>6, <2>1, <2>2, <3>1 DEF ApplyPut, TypeOK
    <2>3. CASE phase[i] = "lost"
      <3>1. phase' = [phase EXCEPT ![i] = "failed"]
        BY <1>6, <2>3 DEF ApplyPut
      <3> QED BY <1>2, <1>6, <2>1, <2>3, <3>1 DEF ApplyPut, TypeOK
    <2> QED BY <1>6, <2>2, <2>3 DEF ApplyPut
  <1>7. ASSUME NEW i \in Ids, PutErrs(i) PROVE IInv'
    BY <1>2, <1>7 DEF PutErrs, TypeOK
  <1>8. ASSUME NEW i \in Ids, Acknowledge(i) PROVE IInv'
    BY <1>2, <1>8 DEF Acknowledge, TypeOK
  <1> QED BY <1>1, <1>3, <1>4, <1>5, <1>6, <1>7, <1>8 DEF CreateStep

\* GetDeck preserves the invariant: what it holds stays true until it answers.
LEMMA GetIInv ==
    ASSUME IInv, GetStep
    PROVE  IInv'
  <1> USE DEF IInv
  <1>0. UNCHANGED <<now, store, createVars, sweepVars, restarts, local>>
    BY DEF GetStep, GetFetch, GetAnswer
  <1>1. /\ Fresh' /\ Stored' /\ NoTornDeck' /\ Verdicts' /\ ForeignKept'
    BY <1>0 DEF createVars, sweepVars, Fresh, Stored, NoTornDeck, DeckObject,
                Verdicts, ForeignKept
  <1>2. ASSUME NEW g \in Getters, NEW k \in Keys, GetFetch(g, k)
        PROVE  IInv'
    <2>0. PICK err :
             /\ err \in {IF k \in DOMAIN store THEN "nil" ELSE "not found", "other"}
             /\ reads' = With(reads, g, [key |-> k,
                                         wasAcked |-> k \in Ids /\ phase[k] = "acked",
                                         err |-> err,
                                         object |-> IF err = "nil" THEN store[k] ELSE Garbled])
      BY <1>2 DEF GetFetch
    <2> DEFINE rd == [key |-> k, wasAcked |-> k \in Ids /\ phase[k] = "acked",
                      err |-> err,
                      object |-> IF err = "nil" THEN store[k] ELSE Garbled]
    <2>1. /\ k \in Ids \cup Alien /\ reads' = With(reads, g, rd)
          /\ answers' = Without(answers, g)
      BY <1>2, <2>0 DEF GetFetch, MatchesDeckID
    <2>2. /\ DOMAIN reads' = DOMAIN reads \cup {g}
          /\ \A h \in DOMAIN reads' : reads'[h] = IF h = g THEN rd ELSE reads[h]
          /\ DOMAIN answers' \subseteq DOMAIN answers
          /\ \A h \in DOMAIN answers' : answers'[h] = answers[h]
      BY <2>1 DEF With, Without
    <2>3. rd.object \in Object /\ rd.err \in Errors
      BY <2>0, ObjectTypes DEF TypeOK, Errors
    <2>4. TypeOK'
      <3>1. rd \in Read
        BY <2>1, <2>3 DEF Read
      <3> HIDE DEF rd
      <3> QED BY <1>0, <2>2, <3>1 DEF TypeOK, createVars, sweepVars
    <2>5. ASSUME k \in Ids, phase[k] = "acked"
          PROVE  \/ expiry[k] <= now
                 \/ k \in DOMAIN store /\ store[k] = DeckObject(k)
      <3>1. expiry[k] \in Nat /\ now \in Nat
        BY <2>5 DEF TypeOK
      <3> QED BY <2>5, <3>1 DEF Stored, NoTornDeck
    <2>6. ReadsOK'
      <3> SUFFICES ASSUME NEW h \in DOMAIN reads', reads'[h].wasAcked
                   PROVE  /\ reads'[h].key \in Ids
                          /\ phase[reads'[h].key] = "acked"
                          /\ \/ expiry[reads'[h].key] <= now
                             \/ reads'[h].err = "other"
                             \/ /\ reads'[h].err = "nil"
                                /\ reads'[h].object = DeckObject(reads'[h].key)
        BY <1>0 DEF ReadsOK, createVars, DeckObject
      <3>1. CASE h = g
        <4>1. rd.wasAcked /\ reads'[h] = rd
          BY <2>2, <3>1
        <4>2. k \in Ids /\ phase[k] = "acked"
          BY <4>1
        <4>3. \/ err = "other"
              \/ err = "nil" /\ k \in DOMAIN store
              \/ err = "not found" /\ k \notin DOMAIN store
          BY <2>0
        <4>4. \/ expiry[k] <= now
              \/ rd.err = "other"
              \/ rd.err = "nil" /\ rd.object = DeckObject(k)
          BY <2>5, <4>2, <4>3
        <4> QED BY <4>1, <4>2, <4>4
      <3>2. CASE h # g
        BY <2>2, <3>2 DEF ReadsOK
      <3> QED BY <3>1, <3>2
    <2>7. AnswersOK'
      BY <1>0, <2>2 DEF AnswersOK, createVars
    <2>8. NotRefusedEarly'
      <3> HIDE DEF rd
      <3> QED BY <1>0, <2>2 DEF NotRefusedEarly, createVars
    <2> QED BY <1>1, <2>4, <2>6, <2>7, <2>8
  <1>3. ASSUME NEW g \in Getters, GetAnswer(g)
        PROVE  IInv'
    <2> DEFINE an == [key |-> reads[g].key, wasAcked |-> reads[g].wasAcked,
                      err |-> reads[g].err,
                      code |-> Answer(reads[g].err, reads[g].object), at |-> now]
    <2>1. /\ g \in DOMAIN reads /\ answers' = With(answers, g, an)
          /\ reads' = Without(reads, g)
      BY <1>3 DEF GetAnswer
    <2>2. /\ DOMAIN reads' \subseteq DOMAIN reads
          /\ \A h \in DOMAIN reads' : reads'[h] = reads[h]
          /\ DOMAIN answers' = DOMAIN answers \cup {g}
          /\ \A h \in DOMAIN answers' : answers'[h] = IF h = g THEN an ELSE answers[h]
      BY <2>1 DEF With, Without
    <2>3. TypeOK'
      <3>1. an \in Given
        <4>1. reads[g] \in Read /\ now \in Nat
          BY <2>1 DEF TypeOK
        <4>2. Answer(reads[g].err, reads[g].object) \in {200, 404, 410, 500}
          BY DEF Answer
        <4> QED BY <4>1, <4>2 DEF Read, Given
      <3> HIDE DEF an
      <3> QED BY <1>0, <2>2, <3>1 DEF TypeOK, createVars, sweepVars
    <2>4. ReadsOK'
      BY <1>0, <2>2 DEF ReadsOK, createVars, DeckObject
    <2>5. AnswersOK'
      BY <1>0, <2>1, <2>2 DEF AnswersOK, ReadsOK, createVars
    <2>6. an.wasAcked => \/ an.code = 200
                         \/ an.code = 500 /\ an.err = "other"
                         \/ an.at >= expiry[an.key]
      <3> SUFFICES ASSUME reads[g].wasAcked
                   PROVE  \/ Answer(reads[g].err, reads[g].object) = 200
                          \/ /\ Answer(reads[g].err, reads[g].object) = 500
                             /\ reads[g].err = "other"
                          \/ now >= expiry[reads[g].key]
        OBVIOUS
      <3>1. /\ reads[g].key \in Ids /\ expiry[reads[g].key] \in Nat /\ now \in Nat
            /\ \/ expiry[reads[g].key] <= now
               \/ reads[g].err = "other"
               \/ reads[g].err = "nil" /\ reads[g].object = DeckObject(reads[g].key)
        <4>1. reads[g].key \in Ids
          BY <2>1 DEF ReadsOK
        <4> QED BY <2>1, <4>1 DEF ReadsOK, TypeOK
      <3>2. CASE reads[g].err = "other"
        BY <3>2 DEF Answer
      <3>3. CASE reads[g].err = "nil" /\ reads[g].object = DeckObject(reads[g].key)
        <4>1. reads[g].object.parses /\ reads[g].object.expires = expiry[reads[g].key]
          BY <3>3 DEF DeckObject
        <4> QED BY <3>1, <3>3, <4>1 DEF Answer, IsExpired
      <3> QED BY <3>1, <3>2, <3>3
    <2>7. NotRefusedEarly'
      <3> HIDE DEF an
      <3> QED BY <1>0, <2>2, <2>6 DEF NotRefusedEarly, createVars
    <2> QED BY <1>1, <2>3, <2>4, <2>5, <2>7
  <1> QED BY <1>2, <1>3 DEF GetStep

\* The verdict of a sweep worker holds only for a deck whose time is up: what an
\* object carries is the id of a deck or none, so a foreign object, an expired
\* deck's copy included, never carries its own key (cleanup.go:77-83).
LEMMA DeletableIsExpired ==
    ASSUME IInv, NEW k \in DOMAIN store, k \in Ids \cup Alien, Deletable(k, store[k])
    PROVE  k \in Ids /\ phase[k] # "unused" /\ expiry[k] <= sweepNow
  <1>1. k \in Ids
    BY DecksAssumption
       DEF IInv, TypeOK, Object, Foreign, Keys, Deletable
  <1>2. store[k] = DeckObject(k) /\ phase[k] # "unused"
    BY <1>1 DEF IInv, NoTornDeck, Fresh
  <1> QED BY <1>1, <1>2 DEF IInv, TypeOK, Deletable, IsLive, DeckObject

\* The sweep preserves the invariant.
LEMMA SweepIInv ==
    ASSUME IInv, SweepStep
    PROVE  IInv'
  <1> USE DEF IInv
  <1>0. UNCHANGED <<now, createVars, getVars, restarts, local>>
    BY DEF SweepStep, SweepList, SweepClock, SweepSpawn, SweepFetch, SweepDelete,
           SweepError, SweepDone
  <1>1. ASSUME UNCHANGED store, Verdicts', sweep' \in {"waiting", "listed", "running"},
               sweepNow' \in Nat, todo' \subseteq Ids \cup Alien,
               DOMAIN workers' \subseteq Ids \cup Alien,
               \A k \in DOMAIN workers' : workers'[k] \in {"fetching", "deleting"}
        PROVE  IInv'
    <2>1. TypeOK'
      BY <1>0, <1>1 DEF TypeOK, createVars, getVars
    <2>2. Fresh' /\ Stored' /\ NoTornDeck' /\ ForeignKept' /\ ReadsOK'
      BY <1>0, <1>1 DEF createVars, getVars, Fresh, Stored, NoTornDeck, DeckObject,
                        ForeignKept, ReadsOK
    <2>3. AnswersOK' /\ NotRefusedEarly'
      BY <1>0 DEF createVars, getVars, AnswersOK, NotRefusedEarly
    <2> QED BY <1>1, <2>1, <2>2, <2>3
  <1>2. CASE SweepList
    <2>1. /\ UNCHANGED <<store, sweepNow, workers>> /\ sweep' = "listed"
          /\ todo' \subseteq Ids \cup Alien
      BY <1>2 DEF SweepList, MatchesDeckID
    <2>2. Verdicts'
      BY <1>0, <2>1 DEF Verdicts, createVars
    <2> QED BY <1>1, <2>1, <2>2 DEF TypeOK
  <1>3. CASE SweepClock
    <2>1. /\ UNCHANGED <<store, todo, workers>> /\ sweep' = "running" /\ sweepNow' = now
      BY <1>3 DEF SweepClock
    <2>2. Verdicts'
      BY <1>0, <2>1 DEF Verdicts, createVars, TypeOK
    <2> QED BY <1>1, <2>1, <2>2 DEF TypeOK
  <1>4. ASSUME NEW k \in Keys, SweepSpawn(k) PROVE IInv'
    <2>1. /\ UNCHANGED <<store, sweep, sweepNow>> /\ todo' \subseteq todo
          /\ k \in todo /\ DOMAIN workers' = DOMAIN workers \cup {k}
          /\ \A j \in DOMAIN workers' :
                workers'[j] = IF j = k THEN "fetching" ELSE workers[j]
      BY <1>4 DEF SweepSpawn, With
    <2>2. Verdicts'
      BY <1>0, <2>1 DEF Verdicts, createVars
    <2> QED BY <1>1, <2>1, <2>2 DEF TypeOK
  <1>5. ASSUME NEW k \in Keys, SweepFetch(k) PROVE IInv'
    <2>0. UNCHANGED <<store, sweep, sweepNow, todo>> /\ k \in DOMAIN workers
      BY <1>5 DEF SweepFetch
    <2>1. CASE k \in DOMAIN store /\ Deletable(k, store[k])
      <3>1. /\ DOMAIN workers' = DOMAIN workers \cup {k}
            /\ \A j \in DOMAIN workers' :
                  workers'[j] = IF j = k THEN "deleting" ELSE workers[j]
        BY <1>5, <2>1 DEF SweepFetch, With
      <3>2. k \in Ids /\ phase[k] # "unused" /\ expiry[k] <= sweepNow
        BY <2>0, <2>1, DeletableIsExpired DEF TypeOK
      <3>3. Verdicts'
        BY <1>0, <2>0, <3>1, <3>2 DEF Verdicts, createVars
      <3> QED BY <1>1, <2>0, <3>1, <3>3 DEF TypeOK
    <2>2. CASE ~(k \in DOMAIN store /\ Deletable(k, store[k]))
      <3>1. /\ DOMAIN workers' \subseteq DOMAIN workers
            /\ \A j \in DOMAIN workers' : workers'[j] = workers[j]
        BY <1>5, <2>2 DEF SweepFetch, Without
      <3>2. Verdicts'
        BY <1>0, <2>0, <3>1 DEF Verdicts, createVars
      <3> QED BY <1>1, <2>0, <3>1, <3>2 DEF TypeOK
    <2> QED BY <2>1, <2>2
  <1>6. ASSUME NEW k \in Keys, SweepDelete(k) PROVE IInv'
    <2>1. /\ UNCHANGED <<sweep, sweepNow, todo>>
          /\ k \in DOMAIN workers /\ workers[k] = "deleting"
          /\ DOMAIN workers' \subseteq DOMAIN workers
          /\ \A j \in DOMAIN workers' : workers'[j] = workers[j]
          /\ DOMAIN store' = DOMAIN store \ {k}
          /\ \A j \in DOMAIN store' : store'[j] = store[j]
      BY <1>6 DEF SweepDelete, Without
    <2>2. /\ k \in Ids /\ expiry[k] \in Nat /\ now \in Nat /\ sweepNow \in Nat
          /\ expiry[k] <= sweepNow /\ sweepNow <= now
      BY <2>1 DEF Verdicts, TypeOK
    <2>3. TypeOK'
      BY <1>0, <2>1 DEF TypeOK, createVars, getVars
    <2>4. Fresh' /\ NoTornDeck'
      BY <1>0, <2>1 DEF Fresh, NoTornDeck, createVars, DeckObject
    <2>5. Stored'
      BY <1>0, <2>1, <2>2 DEF Stored, createVars
    <2>6. Verdicts'
      BY <1>0, <2>1 DEF Verdicts, createVars
    <2>7. ForeignKept'
      BY <2>1, <2>2, DecksAssumption DEF ForeignKept
    <2>8. ReadsOK' /\ AnswersOK' /\ NotRefusedEarly'
      BY <1>0 DEF createVars, getVars, ReadsOK, AnswersOK, NotRefusedEarly, DeckObject
    <2> QED BY <2>3, <2>4, <2>5, <2>6, <2>7, <2>8
  <1>7. ASSUME NEW k \in Keys, SweepError(k) PROVE IInv'
    <2>1. /\ UNCHANGED <<store, sweep, sweepNow, todo>>
          /\ DOMAIN workers' \subseteq DOMAIN workers
          /\ \A j \in DOMAIN workers' : workers'[j] = workers[j]
      BY <1>7 DEF SweepError, Without
    <2>2. Verdicts'
      BY <1>0, <2>1 DEF Verdicts, createVars
    <2> QED BY <1>1, <2>1, <2>2 DEF TypeOK
  <1>8. CASE SweepDone
    <2>1. /\ UNCHANGED <<store, todo, workers>> /\ sweep' = "waiting" /\ sweepNow' = 0
          /\ DOMAIN workers = {}
      BY <1>8 DEF SweepDone
    <2>2. Verdicts'
      BY <1>0, <2>1 DEF Verdicts, TypeOK
    <2> QED BY <1>1, <2>1, <2>2 DEF TypeOK
  <1> QED BY <1>2, <1>3, <1>4, <1>5, <1>6, <1>7, <1>8 DEF SweepStep

\* A crash preserves the invariant: no phase becomes "stored" or "acked", and
\* an acknowledged deck stays acknowledged.
LEMMA RestartIInv ==
    ASSUME IInv, Restart
    PROVE  IInv'
  <1> USE DEF IInv
  <1>1. /\ UNCHANGED <<now, store, temps, expiry, answers, local>>
        /\ DOMAIN reads' = {} /\ sweep' = "waiting" /\ sweepNow' = 0 /\ todo' = {}
        /\ DOMAIN workers' = {} /\ restarts' = restarts + 1
    BY DEF Restart
  <1>2. /\ phase' \in [Ids -> {"unused", "putting", "temp", "stored", "lost", "acked",
                               "failed"}]
        /\ \A i \in Ids : /\ phase[i] = "unused" => phase'[i] = "unused"
                          /\ phase[i] # "unused" => phase'[i] # "unused"
                          /\ phase[i] = "acked" => phase'[i] = "acked"
                          /\ phase[i] # "acked" => phase'[i] # "acked"
                          /\ phase'[i] # "stored"
    <2>1. phase' = [i \in Ids |->
                   IF phase[i] = "putting" /\ ~local THEN "lost"
                   ELSE IF phase[i] \in {"putting", "temp", "stored"} THEN "failed"
                   ELSE phase[i]]
      BY DEF Restart
    <2> QED BY <2>1 DEF TypeOK
  <1>3. TypeOK'
    BY <1>1, <1>2 DEF TypeOK
  <1>4. Fresh' /\ Stored' /\ NoTornDeck'
    BY <1>1, <1>2 DEF Fresh, Stored, NoTornDeck, DeckObject
  <1>5. Verdicts' /\ ForeignKept' /\ ReadsOK'
    BY <1>1 DEF Verdicts, ForeignKept, ReadsOK, TypeOK
  <1>6. AnswersOK' /\ NotRefusedEarly'
    BY <1>1, <1>2 DEF AnswersOK, NotRefusedEarly
  <1> QED BY <1>3, <1>4, <1>5, <1>6

LEMMA StepIInv == IInv /\ [Next]_vars => IInv'
  <1> SUFFICES ASSUME IInv, [Next]_vars
               PROVE  IInv'
    OBVIOUS
  <1>1. CASE Tick
    <2>1. now' = now + 1 /\ UNCHANGED <<store, createVars, getVars, sweepVars, restarts, local>>
      BY <1>1 DEF Tick
    <2>2. TypeOK'
      BY <2>1 DEF IInv, TypeOK, createVars, getVars, sweepVars
    <2>3. Fresh' /\ NoTornDeck' /\ ForeignKept' /\ AnswersOK' /\ NotRefusedEarly'
      BY <2>1 DEF IInv, createVars, getVars, Fresh, NoTornDeck, DeckObject,
                  ForeignKept, AnswersOK, NotRefusedEarly
    <2>4. Stored'
      BY <2>1 DEF IInv, Stored, TypeOK, createVars
    <2>5. Verdicts'
      BY <2>1 DEF IInv, Verdicts, TypeOK, createVars, sweepVars
    <2>6. ReadsOK'
      BY <2>1 DEF IInv, ReadsOK, TypeOK, createVars, getVars, DeckObject
    <2> QED BY <2>2, <2>3, <2>4, <2>5, <2>6 DEF IInv
  <1>2. CASE UNCHANGED vars
    BY <1>2 DEF vars, IInv, TypeOK, Fresh, Stored, NoTornDeck, DeckObject, Verdicts,
                ForeignKept, ReadsOK, AnswersOK, NotRefusedEarly
  <1> QED BY <1>1, <1>2, CreateIInv, GetIInv, SweepIInv, RestartIInv DEF Next

LEMMA InvariantIInv == Spec => []IInv
  BY InitIInv, StepIInv, PTL DEF Spec

-----------------------------------------------------------------------------
\* The state of the deck store is well typed in every reachable state.
THEOREM TypeCorrect == Spec => []TypeOK
  <1>1. IInv => TypeOK
    BY DEF IInv
  <1> QED BY <1>1, InvariantIInv, PTL

\* An acknowledged deck is whole and present until it expires, for any number
\* of crashes, sweeps and failed requests (handler.go:134-145, cleanup.go:63-84).
THEOREM AckedDeckIsKept == Spec => []AckedUntilExpiry
  <1>1. IInv => AckedUntilExpiry
    BY DEF IInv, AckedUntilExpiry, Stored, NoTornDeck
  <1> QED BY <1>1, InvariantIInv, PTL

\* No half written deck is ever visible (local.go:31-57).
THEOREM DecksAreWhole == Spec => []NoTornDeck
  <1>1. IInv => NoTornDeck
    BY DEF IInv
  <1> QED BY <1>1, InvariantIInv, PTL

\* Before the promised time the holder of a share link is given the deck, or an
\* error of the server when the store failed, and never 404 or 410
\* (handler.go:166-185).
THEOREM ShareLinkHonoured == Spec => []NotRefusedEarly
  <1>1. IInv => NotRefusedEarly
    BY DEF IInv
  <1> QED BY <1>1, InvariantIInv, PTL

\* The objects of the resolve cache in the shared bucket, and any that are not
\* the deck their key names, are never changed or deleted (cleanup.go:40-50,
\* 74-80).
THEOREM ForeignObjectsKept == Spec => ForeignUntouched
  <1> DEFINE P == \A k \in Foreign : k \in DOMAIN store' /\ store'[k] = store[k]
  <1>1. ASSUME IInv, [Next]_vars
        PROVE  [P]_vars
    <2> SUFFICES ASSUME Next, NEW k \in Foreign
                 PROVE  k \in DOMAIN store' /\ store'[k] = store[k]
      BY <1>1
    <2>0. k \in DOMAIN store /\ k \notin Ids
      BY <1>1, DecksAssumption DEF IInv, ForeignKept
    <2>1. CASE UNCHANGED store
      BY <2>0, <2>1
    <2>2. ASSUME NEW i \in Ids, store' = With(store, i, DeckObject(i))
          PROVE  k \in DOMAIN store' /\ store'[k] = store[k]
      BY <2>0, <2>2 DEF With
    <2>3. ASSUME NEW j \in Keys, SweepDelete(j)
          PROVE  k \in DOMAIN store' /\ store'[k] = store[k]
      <3>1. j \in Ids /\ store' = Without(store, j)
        BY <1>1, <2>3 DEF IInv, Verdicts, SweepDelete
      <3> QED BY <2>0, <3>1 DEF Without
    <2>4. \/ UNCHANGED store
          \/ \E i \in Ids : store' = With(store, i, DeckObject(i))
          \/ \E j \in Keys : SweepDelete(j)
      BY DEF Next, CreateStep, BuildDeck, WriteTemp, RenameTemp, PutFails, ApplyPut,
             PutErrs, Acknowledge, GetStep, GetFetch, GetAnswer, SweepStep, SweepList,
             SweepClock, SweepSpawn, SweepFetch, SweepError, SweepDone, Tick, Restart
    <2> QED BY <2>1, <2>2, <2>3, <2>4
  <1> QED BY <1>1, InvariantIInv, PTL DEF Spec, ForeignUntouched
=============================================================================
