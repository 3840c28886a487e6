----------------------------- MODULE Intake_proofs -----------------------------
(***************************************************************************)
(* Proofs about the collection of a run and the curation of what came in,  *)
(* for any sources, channels, slots, articles and registry.  The first     *)
(* part shows that every step of the collection keeps CollectionInv; the   *)
(* second follows a fold outcome by outcome, to show that the registry     *)
(* counts the failures after the last answer; the third takes what         *)
(* Curation_proofs says of the removal of duplicates and of the clusters   *)
(* to the state in which the stories are there.                            *)
(***************************************************************************)
EXTENDS Intake, Curation_proofs

-----------------------------------------------------------------------------
\* The configuration.

\* A source has one place in the channels.
LEMMA StageOfASource ==
  ASSUME NEW s \in Source
  PROVE  /\ StageOf(s) \in DOMAIN Stages /\ s \in SourcesOf(StageOf(s))
         /\ \A k \in DOMAIN Stages : s \in SourcesOf(k) => StageOf(s) = k
<1>1. \E k \in DOMAIN Stages : s \in SourcesOf(k)
  BY StagesAssumption
<1>2. StageOf(s) \in DOMAIN Stages /\ s \in SourcesOf(StageOf(s))
  BY <1>1 DEF StageOf
<1>3. ASSUME NEW k \in DOMAIN Stages, s \in SourcesOf(k) PROVE StageOf(s) = k
  BY <1>2, <1>3, StagesAssumption DEF SourcesOf
<1>4. QED
  BY <1>2, <1>3

\* The entries of a channel are sources, and no two are the same.
LEMMA StageSources ==
  ASSUME NEW k \in DOMAIN Stages
  PROVE  /\ k \in 1 .. Len(Stages)
         /\ Stages[k].sources \in Seq(Source)
         /\ SourcesOf(k) \subseteq Source
         /\ \A i, j \in DOMAIN Stages[k].sources :
              Stages[k].sources[i] = Stages[k].sources[j] => i = j
<1>1. Stages[k] \in [section : STRING, kind : STRING, sources : Seq(Source)] /\ k \in 1 .. Len(Stages)
  BY StagesAssumption, ElementOfSeq, LenProperties
<1>2. Stages[k].sources \in Seq(Source)
  BY <1>1
<1>3. SourcesOf(k) \subseteq Source
  BY <1>2, ElementOfSeq, LenProperties DEF SourcesOf
<1>4. \A i, j \in DOMAIN Stages[k].sources :
        Stages[k].sources[i] = Stages[k].sources[j] => i = j
  BY StagesAssumption
<1>5. QED
  BY <1>1, <1>2, <1>3, <1>4

-----------------------------------------------------------------------------
\* The slots of the semaphore.

Doings == {"idle", "waiting", "fetching", "escaped"} \cup Ended
Asked(f) == {s \in Source : IsFeed(s) /\ f[s] = "fetching"}

\* The feeds at work are finitely many.
LEMMA AskedIsFinite ==
  ASSUME NEW f
  PROVE  IsFiniteSet(Asked(f)) /\ Cardinality(Asked(f)) \in Nat
<1>1. Asked(f) \subseteq Source
  BY DEF Asked
<1>2. IsFiniteSet(Asked(f))
  BY <1>1, StagesAssumption, FS_Subset
<1>3. QED
  BY <1>2, FS_CardinalityType

\* A feed that gets a slot makes them one more.
LEMMA OneMoreAsked ==
  ASSUME NEW f \in [Source -> Doings], NEW s \in Source, IsFeed(s), f[s] # "fetching"
  PROVE  Cardinality(Asked([f EXCEPT ![s] = "fetching"])) = Cardinality(Asked(f)) + 1
<1>1. Asked([f EXCEPT ![s] = "fetching"]) = Asked(f) \cup {s} /\ s \notin Asked(f)
  BY DEF Asked
<1>2. QED
  BY <1>1, AskedIsFinite, FS_AddElement

\* One that gives it back makes them one less.
LEMMA OneLessAsked ==
  ASSUME NEW f \in [Source -> Doings], NEW s \in Source, NEW e \in Doings,
         f[s] = "fetching", e # "fetching", IsFeed(s)
  PROVE  Cardinality(Asked([f EXCEPT ![s] = e])) = Cardinality(Asked(f)) - 1
<1>1. Asked([f EXCEPT ![s] = e]) = Asked(f) \ {s} /\ s \in Asked(f)
  BY DEF Asked
<1>2. QED
  BY <1>1, AskedIsFinite, FS_RemoveElement

\* The semaphore has nothing to do with a query.
LEMMA QueryIsNotAsked ==
  ASSUME NEW f \in [Source -> Doings], NEW s \in Source, NEW e \in Doings, ~IsFeed(s)
  PROVE  Asked([f EXCEPT ![s] = e]) = Asked(f)
BY DEF Asked

\* A feed that is at work has a slot, which is not free.
LEMMA SlotIsTaken ==
  ASSUME CollectionTypeOK, SlotsConserved, NEW s \in Source, task[s] = "fetching", IsFeed(s)
  PROVE  free + 1 \in 0 .. Slots
<1>1. s \in Asked(task)
  BY DEF Asked
<1>2. Cardinality(Asked(task)) # 0
  BY <1>1, AskedIsFinite, FS_EmptySet
<1>3. free + Cardinality(Asked(task)) = Slots /\ free \in Nat /\ Slots \in Nat
  BY CollectionAssumption DEF SlotsConserved, Asked, CollectionTypeOK
<1>4. QED
  BY <1>2, <1>3, AskedIsFinite

\* SlotsConserved in terms of the feeds at work.
LEMMA SlotsAreAsked ==
  SlotsConserved <=> free + Cardinality(Asked(task)) = Slots
BY DEF SlotsConserved, Asked

\* The same after a step.
LEMMA SlotsAreAskedNext ==
  SlotsConserved' <=> free' + Cardinality(Asked(task')) = Slots
BY DEF SlotsConserved, Asked

-----------------------------------------------------------------------------
\* What most steps leave alone.

\* The result stands while no channel returns and what returned stays.
LEMMA ResultStays ==
  ASSUME CollectionTypeOK, ResultIsReturned, UNCHANGED <<found, outcomes>>,
         \A r \in Source : Returned(r) <=> Returned(r)',
         \A r \in Source : Returned(r) => task'[r] = task[r]
  PROVE  ResultIsReturned'
<1>1. /\ \A i \in DOMAIN found : found[i] \in Source
      /\ \A i \in DOMAIN outcomes : outcomes[i].source \in Source
  <2>1. \A i \in DOMAIN outcomes : outcomes[i] \in [source : Source, ok : BOOLEAN]
    BY ElementOfSeq, LenProperties DEF CollectionTypeOK
  <2>2. QED
    BY <2>1, ElementOfSeq, LenProperties DEF CollectionTypeOK
<1> DEFINE Back(r) == StageOf(r) < stage' /\ StageOf(r) \notin lost'
           Says(r) == [source |-> r, ok |-> task'[r] # "failed"]
<1>2. \A r \in Source : Back(r) <=> Returned(r)
  BY DEF Returned
<1>3. \A r \in Source : Returned(r) => Says(r) = OutcomeOf(r)
  BY DEF OutcomeOf
<1> HIDE DEF Back, Says
<1>4. ASSUME NEW r \in Source, Back(r)
      PROVE  /\ task'[r] \in Ended
             /\ task'[r] = "full" => \E i \in DOMAIN found : found[i] = r
             /\ \E i \in DOMAIN outcomes : outcomes[i] = Says(r)
  BY <1>2, <1>3, <1>4 DEF ResultIsReturned
<1>5. ASSUME NEW i \in DOMAIN found PROVE Back(found[i]) /\ task'[found[i]] = "full"
  BY <1>1, <1>2 DEF ResultIsReturned
<1>6. ASSUME NEW i \in DOMAIN outcomes
      PROVE  Back(outcomes[i].source) /\ outcomes[i] = Says(outcomes[i].source)
  BY <1>1, <1>2, <1>3 DEF ResultIsReturned
<1>7. QED
  BY <1>4, <1>5, <1>6 DEF ResultIsReturned, Returned, OutcomeOf, Back, Says, Ended

\* So does the registry.
LEMMA RegistryStays ==
  ASSUME OutcomesInOrder, RegistryFollowsOrder, UNCHANGED <<outcomes, before, registry>>,
         phase' = "collected" => phase = "collected"
  PROVE  OutcomesInOrder' /\ RegistryFollowsOrder'
<1>1. OutcomesInOrder'
  BY DEF OutcomesInOrder
<1>2. RegistryFollowsOrder'
  BY <1>1 DEF RegistryFollowsOrder, TrailingFailures
<1>3. QED
  BY <1>1, <1>2

-----------------------------------------------------------------------------
\* The steps of the requests.

\* A request is made.
LEMMA BeginsKeepsCollectionInv ==
  ASSUME CollectionInv, NEW s \in Source, FetchFeed(s) \/ FetchQuery(s)
  PROVE  CollectionInv'
<1> USE DEF CollectionInv
<1>1. /\ task[s] = "waiting" /\ task' = [task EXCEPT ![s] = "fetching"]
      /\ tries' = [tries EXCEPT ![s] = 1]
      /\ UNCHANGED <<phase, stage, outcomes, found, lost, before, registry>>
  BY DEF FetchFeed, FetchQuery, Begin
<1>2. task \in [Source -> Doings] /\ task' \in [Source -> Doings]
  BY <1>1 DEF CollectionTypeOK, Doings
<1>3. free' \in 0 .. Slots /\ SlotsConserved'
  <2>1. CASE FetchFeed(s)
    <3>1. free > 0 /\ free' = free - 1 /\ IsFeed(s)
      BY <2>1 DEF FetchFeed
    <3>2. Cardinality(Asked(task')) = Cardinality(Asked(task)) + 1
      BY <1>1, <1>2, <3>1, OneMoreAsked
    <3>3. QED
      <4>1. /\ Cardinality(Asked(task)) \in Nat /\ free \in 0 .. Slots /\ Slots \in Nat
            /\ free + Cardinality(Asked(task)) = Slots
        BY AskedIsFinite, CollectionAssumption, SlotsAreAsked DEF CollectionTypeOK
      <4>2. free' \in 0 .. Slots /\ free' + Cardinality(Asked(task')) = Slots
        BY <3>1, <3>2, <4>1
      <4>3. QED
        BY <4>2, SlotsAreAskedNext
  <2>2. CASE FetchQuery(s)
    <3>1. free' = free /\ ~IsFeed(s)
      BY <2>2 DEF FetchQuery
    <3>2. Asked(task') = Asked(task)
      BY <1>1, <1>2, <3>1, QueryIsNotAsked DEF Doings
    <3>3. QED
      BY <3>1, <3>2, SlotsAreAsked, SlotsAreAskedNext DEF CollectionTypeOK
  <2>3. QED
    BY <2>1, <2>2
<1>4. CollectionTypeOK'
  BY <1>1, <1>2, <1>3, CollectionAssumption DEF CollectionTypeOK, Doings
<1>5. \A r \in Source : r # s => task'[r] = task[r]
  BY <1>1, <1>2
<1>6. ~Returned(s) /\ task'[s] = "fetching"
  BY <1>1, <1>2 DEF ResultIsReturned, Ended
<1>7. ChannelsInTurn'
  BY <1>1, <1>5 DEF ChannelsInTurn
<1>8. ResultIsReturned'
  <2>1. \A r \in Source : Returned(r) <=> Returned(r)'
    BY <1>1 DEF Returned
  <2>2. QED
    BY <1>1, <1>5, <1>6, <2>1, ResultStays
<1>9. OutcomesInOrder' /\ RegistryFollowsOrder'
  BY <1>1, RegistryStays
<1>10. QED
  BY <1>1, <1>3, <1>4, <1>7, <1>8, <1>9

\* A request is tried again.
LEMMA TryAgainKeepsCollectionInv ==
  ASSUME CollectionInv, NEW s \in Source, TryAgain(s)
  PROVE  CollectionInv'
<1> USE DEF CollectionInv
<1>1. /\ tries[s] < Attempts /\ tries' = [tries EXCEPT ![s] = @ + 1]
      /\ UNCHANGED <<phase, stage, task, free, outcomes, found, lost, before, registry>>
  BY DEF TryAgain
<1>2. CollectionTypeOK'
  BY <1>1, CollectionAssumption DEF CollectionTypeOK
<1>3. SlotsConserved'
  BY <1>1, SlotsAreAsked, SlotsAreAskedNext
<1>4. ChannelsInTurn'
  BY <1>1 DEF ChannelsInTurn
<1>5. \A r \in Source : Returned(r) <=> Returned(r)'
  BY <1>1 DEF Returned
<1>6. ResultIsReturned'
  BY <1>1, <1>5, ResultStays
<1>7. OutcomesInOrder' /\ RegistryFollowsOrder'
  BY <1>1, RegistryStays
<1>8. QED
  BY <1>1, <1>2, <1>3, <1>4, <1>6, <1>7

\* What Release does to the semaphore when the request of s ends.
LEMMA ReleaseConserves ==
  ASSUME CollectionTypeOK, SlotsConserved, NEW s \in Source, NEW e \in Ended \cup {"escaped"},
         task[s] = "fetching", task' = [task EXCEPT ![s] = e], Release(s)
  PROVE  free' \in 0 .. Slots /\ SlotsConserved'
<1>1. task \in [Source -> Doings] /\ e \in Doings /\ e # "fetching"
  BY DEF CollectionTypeOK, Doings, Ended
<1>2. /\ Cardinality(Asked(task)) \in Nat /\ free \in 0 .. Slots /\ Slots \in Nat
      /\ free + Cardinality(Asked(task)) = Slots
  BY AskedIsFinite, CollectionAssumption, SlotsAreAsked DEF CollectionTypeOK
<1>3. CASE IsFeed(s)
  <2>1. Cardinality(Asked(task')) = Cardinality(Asked(task)) - 1
    BY <1>1, <1>3, OneLessAsked
  <2>2. free' = free + 1 /\ free + 1 \in 0 .. Slots
    BY <1>3, SlotIsTaken DEF Release
  <2>3. free' + Cardinality(Asked(task')) = Slots
    BY <1>2, <2>1, <2>2
  <2>4. QED
    BY <2>2, <2>3, SlotsAreAskedNext
<1>4. CASE ~IsFeed(s)
  <2>1. Asked(task') = Asked(task)
    BY <1>1, <1>4, QueryIsNotAsked
  <2>2. free' = free
    BY <1>4 DEF Release
  <2>3. QED
    BY <1>2, <2>1, <2>2, SlotsAreAskedNext
<1>5. QED
  BY <1>3, <1>4

\* A request comes to its end.
LEMMA ReturnsKeepsCollectionInv ==
  ASSUME CollectionInv, NEW s \in Source, FetchReturns(s)
  PROVE  CollectionInv'
<1> USE DEF CollectionInv
<1>1. PICK e \in Ended : task' = [task EXCEPT ![s] = e]
  BY DEF FetchReturns
<1>2. /\ task[s] = "fetching" /\ tries' = [tries EXCEPT ![s] = 0] /\ Release(s)
      /\ UNCHANGED <<phase, stage, outcomes, found, lost, before, registry>>
  BY DEF FetchReturns
<1>3. free' \in 0 .. Slots /\ SlotsConserved'
  BY <1>1, <1>2, ReleaseConserves
<1>4. task' \in [Source -> Doings] /\ \A r \in Source : r # s => task'[r] = task[r]
  BY <1>1 DEF CollectionTypeOK, Doings
<1>5. CollectionTypeOK'
  <2>1. tries' \in [Source -> 0 .. Attempts]
    BY <1>2, CollectionAssumption DEF CollectionTypeOK
  <2>2. QED
    BY <1>2, <1>3, <1>4, <2>1 DEF CollectionTypeOK, Doings
<1>6. ~Returned(s)
  BY <1>2 DEF ResultIsReturned, Ended
<1>7. ChannelsInTurn'
  <2>1. task'[s] \notin {"waiting", "fetching"}
    BY <1>1 DEF CollectionTypeOK, Ended
  <2>2. QED
    BY <1>2, <1>4, <2>1 DEF ChannelsInTurn
<1>8. ResultIsReturned'
  <2>1. \A r \in Source : Returned(r) <=> Returned(r)'
    BY <1>2 DEF Returned
  <2>2. QED
    BY <1>2, <1>4, <1>6, <2>1, ResultStays
<1>9. OutcomesInOrder' /\ RegistryFollowsOrder'
  BY <1>2, RegistryStays
<1>10. QED
  BY <1>2, <1>3, <1>5, <1>7, <1>8, <1>9

\* A request raises; the channel that waits for it is given up.
LEMMA RaisesKeepsCollectionInv ==
  ASSUME CollectionInv, NEW s \in Source, FetchRaises(s)
  PROVE  CollectionInv'
<1> USE DEF CollectionInv
<1>1. /\ task[s] = "fetching" /\ task' = [task EXCEPT ![s] = "escaped"]
      /\ tries' = [tries EXCEPT ![s] = 0] /\ Release(s)
      /\ UNCHANGED <<outcomes, found, before, registry>>
  BY DEF FetchRaises
<1>2. free' \in 0 .. Slots /\ SlotsConserved'
  BY <1>1, ReleaseConserves
<1>3. /\ task' \in [Source -> Doings] /\ \A r \in Source : r # s => task'[r] = task[r]
      /\ task'[s] = "escaped"
  BY <1>1 DEF CollectionTypeOK, Doings
<1>4. ~Returned(s)
  BY <1>1 DEF ResultIsReturned, Ended
<1>5. /\ stage \in 1 .. Len(Stages) + 1 /\ Len(Stages) \in Nat /\ DOMAIN Stages = 1 .. Len(Stages)
      /\ \A r \in Source : StageOf(r) \in 1 .. Len(Stages)
  BY StagesAssumption, StageOfASource, LenProperties DEF CollectionTypeOK
<1>6. CASE phase = "in" /\ s \in SourcesOf(stage)
  <2>1. lost' = lost \cup {stage} /\ stage' = stage + 1 /\ phase' = "between"
    BY <1>6 DEF FetchRaises
  <2>2. stage \in 1 .. Len(Stages) /\ stage \in DOMAIN Stages
    BY <1>5, <1>6 DEF ChannelsInTurn
  <2>3. CollectionTypeOK'
    BY <1>1, <1>2, <1>3, <1>5, <2>1, <2>2, CollectionAssumption DEF CollectionTypeOK, Doings
  <2>4. ChannelsInTurn'
    BY <1>3, <1>5, <2>1 DEF ChannelsInTurn
  <2>5. \A r \in Source : Returned(r) <=> Returned(r)'
    BY <1>5, <2>1 DEF Returned
  <2>6. ResultIsReturned'
    BY <1>1, <1>3, <1>4, <2>5, ResultStays
  <2>7. OutcomesInOrder' /\ RegistryFollowsOrder'
    BY <1>1, <2>1, RegistryStays
  <2>8. QED
    BY <1>1, <1>2, <1>6, <2>1, <2>3, <2>4, <2>6, <2>7
<1>7. CASE ~(phase = "in" /\ s \in SourcesOf(stage))
  <2>1. UNCHANGED <<lost, stage, phase>>
    BY <1>7 DEF FetchRaises
  <2>2. CollectionTypeOK'
    BY <1>1, <1>2, <1>3, <2>1, CollectionAssumption DEF CollectionTypeOK, Doings
  <2>3. ChannelsInTurn'
    BY <1>3, <2>1 DEF ChannelsInTurn
  <2>4. \A r \in Source : Returned(r) <=> Returned(r)'
    BY <2>1 DEF Returned
  <2>5. ResultIsReturned'
    BY <1>1, <1>3, <1>4, <2>4, ResultStays
  <2>6. OutcomesInOrder' /\ RegistryFollowsOrder'
    BY <1>1, <2>1, RegistryStays
  <2>7. QED
    BY <1>1, <1>2, <2>1, <2>2, <2>3, <2>5, <2>6
<1>8. QED
  BY <1>6, <1>7

-----------------------------------------------------------------------------
\* The steps of the collection but the merging of a channel and the registry.

\* A collection begins.
LEMMA InitCollectionInv ==
  ASSUME CollectionInit
  PROVE  CollectionInv
<1> USE DEF CollectionInit
<1>1. <<>> \in Seq(Source) /\ <<>> \in Seq([source : Source, ok : BOOLEAN]) /\ DOMAIN <<>> = {}
  BY EmptySeq
<1>2. Len(Stages) \in Nat /\ \A s \in Source : StageOf(s) \in 1 .. Len(Stages)
  BY StagesAssumption, StageOfASource, LenProperties
<1>3. CollectionTypeOK
  <2>1. before \in [Domain -> {Unknown} \cup Nat] /\ registry \in [Domain -> {Unknown} \cup Nat]
    BY CollectionAssumption
  <2>2. tries \in [Source -> 0 .. Attempts] /\ free \in 0 .. Slots
    BY CollectionAssumption
  <2>3. stage \in 1 .. Len(Stages) + 1
    BY <1>2
  <2>4. QED
    BY <1>1, <2>1, <2>2, <2>3 DEF CollectionTypeOK
<1>4. SlotsConserved
  <2>1. Asked(task) = {}
    BY DEF Asked
  <2>2. QED
    <3>1. Cardinality(Asked(task)) = 0
      BY <2>1, FS_EmptySet
    <3>2. free \in Nat /\ free = Slots
      BY CollectionAssumption
    <3>3. QED
      BY <3>1, <3>2, SlotsAreAsked
<1>5. ChannelsInTurn
  BY <1>2 DEF ChannelsInTurn
<1>6. ResultIsReturned
  BY <1>1, <1>2 DEF ResultIsReturned, Returned
<1>7. OutcomesInOrder
  BY <1>1 DEF OutcomesInOrder
<1>8. QED
  BY <1>3, <1>4, <1>5, <1>6, <1>7 DEF CollectionInv, RegistryFollowsOrder

\* A channel has its turn.
LEMMA StartKeepsCollectionInv ==
  ASSUME CollectionInv, StartChannel
  PROVE  CollectionInv'
<1> USE DEF CollectionInv
<1>1. /\ phase = "between" /\ stage <= Len(Stages) /\ phase' = "in"
      /\ task' = [s \in Source |-> IF s \in SourcesOf(stage) THEN "waiting" ELSE task[s]]
      /\ UNCHANGED <<stage, tries, free, outcomes, found, lost, before, registry>>
  BY DEF StartChannel
<1>2. stage \in DOMAIN Stages
  BY <1>1, StagesAssumption, LenProperties DEF CollectionTypeOK
<1>3. \A s \in Source : s \in SourcesOf(stage) => StageOf(s) = stage
  BY <1>2, StageOfASource
<1>4. CollectionTypeOK'
  BY <1>1 DEF CollectionTypeOK
<1>5. SlotsConserved'
  <2>1. \A s \in Source : s \in SourcesOf(stage) => task[s] # "fetching"
    <3>1. stage \in Int
      BY DEF CollectionTypeOK
    <3>2. QED
      BY <1>1, <1>3, <3>1 DEF ChannelsInTurn
  <2>2. Asked(task') = Asked(task)
    BY <1>1, <2>1 DEF Asked
  <2>3. QED
    BY <1>1, <2>2, SlotsAreAsked, SlotsAreAskedNext
<1>6. ChannelsInTurn'
  BY <1>1, <1>3 DEF ChannelsInTurn
<1>7. ResultIsReturned'
  <2>1. \A r \in Source : Returned(r) <=> Returned(r)'
    BY <1>1 DEF Returned
  <2>2. \A r \in Source : Returned(r) => r \notin SourcesOf(stage)
    <3>1. stage \in Int
      BY DEF CollectionTypeOK
    <3>2. QED
      BY <1>3, <3>1 DEF Returned
  <2>3. \A r \in Source : Returned(r) => task'[r] = task[r]
    BY <1>1, <2>2
  <2>4. QED
    BY <1>1, <2>1, <2>3, ResultStays
<1>8. OutcomesInOrder' /\ RegistryFollowsOrder'
  BY <1>1, RegistryStays
<1>9. QED
  BY <1>1, <1>4, <1>5, <1>6, <1>7, <1>8

\* The client is closed, with a result or without one.
LEMMA ClosesKeepsCollectionInv ==
  ASSUME CollectionInv, CollectAll \/ CutCollection
  PROVE  CollectionInv'
<1> USE DEF CollectionInv
<1>1. /\ task' = [s \in Source |-> IF task[s] \in {"waiting", "fetching"} THEN "escaped" ELSE task[s]]
      /\ tries' = [s \in Source |-> 0] /\ free' = Slots
      /\ UNCHANGED <<stage, outcomes, found, lost, before, registry>>
  BY DEF CollectAll, CutCollection
<1>2. /\ phase' \in {"no news", "registry", "cut"} /\ phase \notin Over
      /\ phase' = "registry" => found # <<>>
  BY DEF CollectAll, CutCollection, Over
<1>3. CollectionTypeOK'
  <2>1. tries' \in [Source -> 0 .. Attempts] /\ free' \in 0 .. Slots
    BY <1>1, CollectionAssumption
  <2>2. task' \in [Source -> {"idle", "waiting", "fetching", "escaped"} \cup Ended]
    BY <1>1 DEF CollectionTypeOK
  <2>3. QED
    BY <1>1, <1>2, <2>1, <2>2 DEF CollectionTypeOK, Over
<1>4. SlotsConserved'
  <2>1. Asked(task') = {}
    BY <1>1 DEF Asked
  <2>2. QED
    <3>1. Cardinality(Asked(task')) = 0
      BY <2>1, FS_EmptySet
    <3>2. free' \in Nat /\ free' = Slots
      BY <1>1, CollectionAssumption
    <3>3. QED
      BY <3>1, <3>2, SlotsAreAskedNext
<1>5. ChannelsInTurn'
  BY <1>1, <1>2 DEF ChannelsInTurn
<1>6. ResultIsReturned'
  <2>1. \A r \in Source : Returned(r) <=> Returned(r)'
    BY <1>1 DEF Returned
  <2>2. \A r \in Source : Returned(r) => task'[r] = task[r]
    BY <1>1 DEF ResultIsReturned, Ended
  <2>3. QED
    BY <1>1, <2>1, <2>2, ResultStays
<1>7. OutcomesInOrder' /\ RegistryFollowsOrder'
  BY <1>1, <1>2, RegistryStays
<1>8. phase # "collected" /\ registry' = before'
  BY <1>1, <1>2 DEF Over
<1>9. QED
  BY <1>1, <1>2, <1>3, <1>4, <1>5, <1>6, <1>7, <1>8

-----------------------------------------------------------------------------
\* The merging of a channel.

LEMMA TakenKeepsType ==
  ASSUME NEW K \in Seq(Source), NEW s \in Source
  PROVE  Taken(K, s) \in Seq(Source) /\ ToSet(Taken(K, s)) = ToSet(K) \cup {r \in {s} : IsFull(r)}
<1>1. DOMAIN K = 1 .. Len(K) /\ Len(K) \in Nat
  BY LenProperties
<1>2. CASE IsFull(s)
  <2> DEFINE M == Append(K, s)
  <2>1. Taken(K, s) = M
    BY <1>2 DEF Taken
  <2>2. /\ M \in Seq(Source) /\ Len(M) = Len(K) + 1 /\ M[Len(K) + 1] = s
        /\ \A i \in 1 .. Len(K) : M[i] = K[i]
    BY AppendProperties
  <2> HIDE DEF M
  <2>3. DOMAIN M = 1 .. Len(K) + 1
    BY <2>2, LenProperties
  <2>4. ToSet(M) = ToSet(K) \cup {s}
    BY <1>1, <2>2, <2>3 DEF ToSet
  <2>5. QED
    BY <1>2, <2>1, <2>2, <2>4
<1>3. CASE ~IsFull(s)
  BY <1>3 DEF Taken
<1>4. QED
  BY <1>2, <1>3

\* The articles of a channel, source by source.
LEMMA TakenRuns ==
  ASSUME NEW base \in Seq(Source), NEW seq \in Seq(Source)
  PROVE  \E h : /\ h[0] = base
                /\ \A i \in 1 .. Len(seq) :
                     h[i] = Taken(h[i - 1], seq[i])
                /\ FoldLeft(Taken, base, seq) = h[Len(seq)]
<1> DEFINE n == Len(seq)
           V == Seq(Source)
           step == [i \in 1 .. n |-> [K \in V |-> Taken(K, seq[i])]]
           Solves(f) == f = [s \in SUBSET (1 .. n) |->
                               IF s = {} THEN base
                               ELSE Taken(f[s \ {Max(s)}], seq[Max(s)])]
           g == CHOOSE f : Solves(f)
           h == [i \in 0 .. n |-> g[1 .. i]]
<1>1. n \in Nat /\ DOMAIN seq = 1 .. n /\ \A i \in 1 .. n : seq[i] \in Source
  BY LenProperties, ElementOfSeq
<1>2. step \in [1 .. n -> [V -> V]]
  BY <1>1, TakenKeepsType
<1>3. \E f : IsFold(f, n, V, base, step)
  <2>1. base \in V
    OBVIOUS
  <2>2. n \in Nat /\ step \in [1 .. n -> [V -> V]]
    BY <1>1, <1>2
  <2> HIDE DEF step, n, V
  <2>3. QED
    BY <2>1, <2>2, FoldExists
<1>4. \E f : Solves(f)
  <2>1. PICK f : IsFold(f, n, V, base, step)
    BY <1>3
  <2>2. \A s \in SUBSET (1 .. n) : s # {} => Max(s) \in 1 .. n
    BY <1>1, HasGreatest
  <2>3. \A s \in SUBSET (1 .. n) :
          s # {} => step[Max(s)][f[s \ {Max(s)}]] =
                      Taken(f[s \ {Max(s)}], seq[Max(s)])
    <3> HIDE DEF n, V
    <3>1. QED
      BY <2>1, <2>2 DEF IsFold
  <2>4. Solves(f)
    <3> HIDE DEF n, V, step
    <3>1. QED
      BY <2>1, <2>3 DEF IsFold
  <2>5. QED
    BY <2>4
<1>5. Solves(g)
  BY <1>4
<1>6. FoldLeft(Taken, base, seq) = g[1 .. n]
  BY <1>1 DEF FoldLeft, MapThenFoldSet
<1> HIDE DEF g, n, V, step
<1>7. \A s \in SUBSET (1 .. n) :
        g[s] = IF s = {} THEN base
               ELSE Taken(g[s \ {Max(s)}], seq[Max(s)])
  BY <1>5
<1>7a. g[1 .. 0] = base
  <2>1. 1 .. 0 = {}
    OBVIOUS
  <2>2. QED
    BY <1>7, <2>1
<1>7b. ASSUME NEW i \in 1 .. n
       PROVE  g[1 .. i] = Taken(g[1 .. (i - 1)], seq[i])
  <2>1. 1 .. i \in SUBSET (1 .. n) /\ 1 .. i # {} /\ Max(1 .. i) = i
        /\ (1 .. i) \ {i} = 1 .. (i - 1)
    BY <1>1, FirstPlaces
  <2> DEFINE s == 1 .. i
  <2> HIDE DEF s
  <2>2. s \in SUBSET (1 .. n) /\ s # {} /\ Max(s) = i /\ s \ {i} = 1 .. (i - 1)
    BY <2>1 DEF s
  <2>3. g[s] = Taken(g[1 .. (i - 1)], seq[i])
    BY <1>7, <2>2
  <2>4. QED
    BY <2>3 DEF s
<1>8. /\ h[0] = base
      /\ \A i \in 1 .. n : h[i] = Taken(h[i - 1], seq[i])
      /\ FoldLeft(Taken, base, seq) = h[n]
  BY <1>1, <1>6, <1>7a, <1>7b
<1>9. QED
  <2> HIDE DEF h
  <2>1. QED
    BY <1>8 DEF n

\* What the result has then: what it had, and the sources that were full.
LEMMA TakenTogether ==
  ASSUME NEW base \in Seq(Source), NEW seq \in Seq(Source)
  PROVE  /\ FoldLeft(Taken, base, seq) \in Seq(Source)
         /\ ToSet(FoldLeft(Taken, base, seq)) = ToSet(base) \cup {s \in ToSet(seq) : IsFull(s)}
<1> DEFINE n == Len(seq)
<1>1. n \in Nat /\ \A i \in 1 .. n : seq[i] \in Source
  BY LenProperties, ElementOfSeq
<1>2. PICK h : /\ h[0] = base
               /\ \A i \in 1 .. n : h[i] = Taken(h[i - 1], seq[i])
               /\ FoldLeft(Taken, base, seq) = h[n]
  BY TakenRuns
<1>3. /\ UpTo(seq, 0) = {} /\ UpTo(seq, n) = ToSet(seq)
      /\ \A i \in 1 .. n : UpTo(seq, i) = UpTo(seq, i - 1) \cup {seq[i]}
  BY UpToGrows
<1> DEFINE G == {i \in 0 .. n : /\ h[i] \in Seq(Source)
                                /\ ToSet(h[i]) = ToSet(base) \cup {s \in UpTo(seq, i) : IsFull(s)}}
<1>4. 0 \in G
  BY <1>1, <1>2, <1>3
<1>5. ASSUME NEW i \in 1 .. n, i - 1 \in G PROVE i \in G
  <2> DEFINE K == h[i - 1]
             S == UpTo(seq, i - 1)
  <2>1. K \in Seq(Source) /\ ToSet(K) = ToSet(base) \cup {s \in S : IsFull(s)}
    BY <1>5
  <2>2. h[i] = Taken(K, seq[i]) /\ UpTo(seq, i) = S \cup {seq[i]} /\ seq[i] \in Source
    BY <1>1, <1>2, <1>3
  <2> HIDE DEF K, S
  <2>3. /\ h[i] \in Seq(Source)
        /\ ToSet(h[i]) = ToSet(K) \cup {r \in {seq[i]} : IsFull(r)}
    <3> DEFINE e == seq[i]
    <3> HIDE DEF e
    <3>1. Taken(K, e) \in Seq(Source) /\ ToSet(Taken(K, e)) = ToSet(K) \cup {r \in {e} : IsFull(r)}
      BY <2>1, <2>2, TakenKeepsType DEF e
    <3>2. QED
      BY <2>2, <3>1 DEF e
  <2>4. ToSet(h[i]) = ToSet(base) \cup {s \in UpTo(seq, i) : IsFull(s)}
    BY <2>1, <2>2, <2>3
  <2>5. QED
    BY <1>1, <2>3, <2>4
<1> HIDE DEF G
<1>6. n \in G
  <2>1. \A i \in 0 .. n : i \in G
    BY <1>1, <1>4, <1>5, CountingUp
  <2>2. QED
    BY <1>1, <2>1
<1>7. QED
  BY <1>2, <1>3, <1>6 DEF G

\* The outcomes of the channel, behind those there were.
LEMMA OutcomesTogether ==
  ASSUME NEW old \in Seq([source : Source, ok : BOOLEAN]), NEW seq \in Seq(Source)
  PROVE  LET new == old \o [i \in DOMAIN seq |-> OutcomeOf(seq[i])]
         IN  /\ new \in Seq([source : Source, ok : BOOLEAN])
             /\ Len(old) \in Nat /\ DOMAIN old = 1 .. Len(old)
             /\ Len(seq) \in Nat /\ DOMAIN seq = 1 .. Len(seq)
             /\ DOMAIN new = 1 .. Len(old) + Len(seq)
             /\ \A i \in 1 .. Len(old) : new[i] = old[i]
             /\ \A i \in 1 .. Len(seq) : new[Len(old) + i] = OutcomeOf(seq[i])
<1> DEFINE back == [i \in DOMAIN seq |-> OutcomeOf(seq[i])]
           new == old \o back
           m == Len(old)
           n == Len(seq)
<1>1. m \in Nat /\ DOMAIN old = 1 .. m /\ n \in Nat /\ DOMAIN seq = 1 .. n
      /\ \A i \in 1 .. n : seq[i] \in Source
  BY LenProperties, ElementOfSeq
<1>2. back = [i \in 1 .. n |-> OutcomeOf(seq[i])]
  BY <1>1
<1>3. \A i \in 1 .. n : OutcomeOf(seq[i]) \in [source : Source, ok : BOOLEAN]
  BY <1>1 DEF OutcomeOf
<1>4. back \in Seq([source : Source, ok : BOOLEAN]) /\ Len(back) = n
      /\ \A i \in 1 .. n : back[i] = OutcomeOf(seq[i])
  <2> DEFINE O == [source : Source, ok : BOOLEAN]
             e == [i \in 1 .. n |-> OutcomeOf(seq[i])]
  <2> HIDE DEF O, n
  <2>1. e \in [1 .. n -> O] /\ n \in Nat
    BY <1>1, <1>3 DEF O
  <2>2. \A i \in 1 .. n : e[i] = OutcomeOf(seq[i])
    OBVIOUS
  <2> HIDE DEF e
  <2>3. e \in Seq(O) /\ Len(e) = n
    BY <2>1
  <2>4. QED
    BY <1>2, <2>2, <2>3 DEF e, O
<1> HIDE DEF back, m, n
<1>5. /\ new \in Seq([source : Source, ok : BOOLEAN]) /\ Len(new) = m + n
      /\ \A i \in 1 .. m + n : new[i] = IF i <= m THEN old[i] ELSE back[i - m]
  BY <1>4, ConcatProperties DEF m
<1> HIDE DEF new
<1>6. DOMAIN new = 1 .. m + n
  BY <1>5, LenProperties
<1>7. \A i \in 1 .. m : new[i] = old[i]
  BY <1>1, <1>5
<1>8. ASSUME NEW i \in 1 .. n PROVE new[m + i] = OutcomeOf(seq[i])
  <2>1. m + i \in 1 .. m + n /\ ~(m + i <= m) /\ (m + i) - m = i
    BY <1>1
  <2>2. new[m + i] = back[(m + i) - m]
    BY <1>5, <2>1
  <2>3. QED
    BY <1>4, <2>1, <2>2
<1>9. QED
  BY <1>1, <1>5, <1>6, <1>7, <1>8 DEF new, back, m, n

\* A channel returns: its sources are in the result, and have their outcomes, in their order.
LEMMA MergeKeepsCollectionInv ==
  ASSUME CollectionInv, MergeChannel
  PROVE  CollectionInv'
<1> USE DEF CollectionInv
<1> DEFINE seen == Stages[stage].sources
           m == Len(outcomes)
           n == Len(seen)
           Back(r) == StageOf(r) < stage' /\ StageOf(r) \notin lost'
<1>1. /\ phase = "in" /\ phase' = "between" /\ stage' = stage + 1
      /\ \A s \in SourcesOf(stage) : task[s] \in Ended
      /\ outcomes' = outcomes \o [i \in DOMAIN seen |-> OutcomeOf(seen[i])]
      /\ found' = FoldLeft(Taken, found, seen)
      /\ UNCHANGED <<task, tries, free, lost, before, registry>>
  BY DEF MergeChannel
<1>2. stage \in DOMAIN Stages /\ stage \in 1 .. Len(Stages) /\ Len(Stages) \in Nat /\ stage \in Int
  BY <1>1, StagesAssumption, LenProperties DEF CollectionTypeOK, ChannelsInTurn
<1>3. /\ seen \in Seq(Source) /\ SourcesOf(stage) = ToSet(seen) /\ SourcesOf(stage) \subseteq Source
      /\ \A i, j \in DOMAIN seen : seen[i] = seen[j] => i = j
  <2>1. SourcesOf(stage) = ToSet(seen)
    BY DEF SourcesOf, ToSet
  <2>2. QED
    BY <1>2, <2>1, StageSources
<1>4. \A r \in Source : StageOf(r) \in 1 .. Len(Stages) /\ (r \in SourcesOf(stage) <=> StageOf(r) = stage)
  BY <1>2, StageOfASource, StagesAssumption, LenProperties
<1> HIDE DEF seen
<1>5. /\ found' \in Seq(Source)
      /\ ToSet(found') = ToSet(found) \cup {s \in SourcesOf(stage) : IsFull(s)}
  BY <1>1, <1>3, TakenTogether DEF CollectionTypeOK
<1>6. /\ outcomes' \in Seq([source : Source, ok : BOOLEAN])
      /\ m \in Nat /\ DOMAIN outcomes = 1 .. m /\ n \in Nat /\ DOMAIN seen = 1 .. n
      /\ DOMAIN outcomes' = 1 .. m + n
      /\ \A i \in 1 .. m : outcomes'[i] = outcomes[i]
      /\ \A i \in 1 .. n : outcomes'[m + i] = OutcomeOf(seen[i])
  BY <1>1, <1>3, OutcomesTogether DEF CollectionTypeOK
<1> HIDE DEF m, n
<1>7. \A i \in 1 .. m + n : i \in 1 .. m \/ \E j \in 1 .. n : i = m + j
  <2> SUFFICES ASSUME NEW i \in 1 .. m + n, i \notin 1 .. m PROVE \E j \in 1 .. n : i = m + j
    OBVIOUS
  <2>1. i - m \in 1 .. n /\ i = m + (i - m)
    BY <1>6
  <2>2. QED
    BY <2>1
<1>8. /\ \A i \in 1 .. n : seen[i] \in Source /\ StageOf(seen[i]) = stage /\ seen[i] \in SourcesOf(stage)
      /\ \A r \in SourcesOf(stage) : \E i \in 1 .. n : seen[i] = r
  <2>1. \A i \in 1 .. n : seen[i] \in SourcesOf(stage)
    BY <1>3, <1>6 DEF ToSet
  <2>2. \A r \in SourcesOf(stage) : \E i \in 1 .. n : seen[i] = r
    BY <1>3, <1>6 DEF ToSet
  <2>3. QED
    BY <1>3, <1>4, <2>1, <2>2
<1>8a. \A r : OutcomeOf(r).source = r
  BY DEF OutcomeOf
<1>9. \A i \in 1 .. m : outcomes[i].source \in Source
  <2>1. \A i \in 1 .. m : outcomes[i] \in [source : Source, ok : BOOLEAN]
    BY <1>6, ElementOfSeq DEF CollectionTypeOK, m
  <2>2. QED
    BY <2>1
<1>10. \A r \in Source : Back(r) <=> Returned(r) \/ StageOf(r) = stage
  BY <1>1, <1>2, <1>4 DEF Returned, ChannelsInTurn
<1>11. CollectionTypeOK'
  BY <1>1, <1>2, <1>5, <1>6 DEF CollectionTypeOK
<1>12. SlotsConserved'
  BY <1>1, SlotsAreAsked, SlotsAreAskedNext
<1>13. ChannelsInTurn'
  BY <1>1, <1>2, <1>4 DEF ChannelsInTurn, Ended
<1> HIDE DEF Back
<1>14. ASSUME NEW r \in Source, Back(r)
       PROVE  /\ task[r] \in Ended
              /\ task[r] = "full" => \E i \in DOMAIN found' : found'[i] = r
              /\ \E i \in DOMAIN outcomes' : outcomes'[i] = OutcomeOf(r)
  <2>1. CASE Returned(r)
    <3>1. task[r] \in Ended
      BY <2>1 DEF ResultIsReturned
    <3>2. task[r] = "full" => r \in ToSet(found')
      BY <1>5, <2>1 DEF ResultIsReturned, ToSet
    <3>3. \E i \in 1 .. m : outcomes[i] = OutcomeOf(r)
      BY <1>6, <2>1 DEF ResultIsReturned
    <3>4. \A i \in 1 .. m : i \in 1 .. m + n
      BY <1>6
    <3>5. QED
      BY <1>6, <3>1, <3>2, <3>3, <3>4 DEF ToSet
  <2>2. CASE StageOf(r) = stage
    <3>1. r \in SourcesOf(stage)
      BY <1>4, <2>2
    <3>2. task[r] = "full" => r \in ToSet(found')
      BY <1>5, <3>1 DEF IsFull
    <3>3. PICK i \in 1 .. n : seen[i] = r
      BY <1>8, <3>1
    <3>4. m + i \in DOMAIN outcomes' /\ outcomes'[m + i] = OutcomeOf(r)
      BY <1>6, <3>3
    <3>5. QED
      BY <1>1, <3>1, <3>2, <3>4 DEF ToSet
  <2>3. QED
    BY <1>10, <1>14, <2>1, <2>2
<1>15. ASSUME NEW i \in DOMAIN found' PROVE Back(found'[i]) /\ task[found'[i]] = "full"
  <2>1. found'[i] \in ToSet(found')
    BY DEF ToSet
  <2>2. CASE found'[i] \in ToSet(found)
    <3>1. PICK j \in DOMAIN found : found[j] = found'[i]
      BY <2>2 DEF ToSet
    <3>2. found[j] \in Source
      BY ElementOfSeq, LenProperties DEF CollectionTypeOK
    <3>3. QED
      BY <1>10, <3>1, <3>2 DEF ResultIsReturned
  <2>3. CASE found'[i] \in {s \in SourcesOf(stage) : IsFull(s)}
    BY <1>3, <1>4, <1>10, <2>3 DEF IsFull
  <2>4. QED
    BY <1>5, <2>1, <2>2, <2>3
<1>16. ASSUME NEW i \in DOMAIN outcomes'
       PROVE  Back(outcomes'[i].source) /\ outcomes'[i] = OutcomeOf(outcomes'[i].source)
  <2>1. CASE i \in 1 .. m
    BY <1>6, <1>9, <1>10, <2>1 DEF ResultIsReturned
  <2>2. CASE i \notin 1 .. m
    <3>1. PICK j \in 1 .. n : i = m + j
      BY <1>6, <1>7, <2>2
    <3>2. outcomes'[i] = OutcomeOf(seen[j]) /\ OutcomeOf(seen[j]).source = seen[j]
      BY <1>6, <3>1 DEF OutcomeOf
    <3>3. QED
      BY <1>8, <1>10, <3>2
  <2>3. QED
    BY <2>1, <2>2
<1>17. ResultIsReturned'
  <2> DEFINE Says(r) == [source |-> r, ok |-> task'[r] # "failed"]
  <2>1. \A r : Says(r) = OutcomeOf(r)
    BY <1>1 DEF OutcomeOf
  <2> HIDE DEF Says
  <2>2. ASSUME NEW r \in Source, Back(r)
        PROVE  /\ task'[r] \in Ended
               /\ task'[r] = "full" => \E i \in DOMAIN found' : found'[i] = r
               /\ \E i \in DOMAIN outcomes' : outcomes'[i] = Says(r)
    BY <1>1, <1>14, <2>1, <2>2
  <2>3. \A i \in DOMAIN found' : Back(found'[i]) /\ task'[found'[i]] = "full"
    BY <1>1, <1>15
  <2>4. \A i \in DOMAIN outcomes' :
          Back(outcomes'[i].source) /\ outcomes'[i] = Says(outcomes'[i].source)
    BY <1>16, <2>1
  <2>5. QED
    BY <2>2, <2>3, <2>4 DEF ResultIsReturned, Returned, OutcomeOf, Back, Says, Ended
<1>18. ASSUME NEW i \in 1 .. m + n, NEW j \in 1 .. m + n, i < j
       PROVE  ListedBefore(outcomes'[i].source, outcomes'[j].source)
  <2>1. CASE i \in 1 .. m /\ j \in 1 .. m
    BY <1>6, <1>18, <2>1 DEF OutcomesInOrder
  <2>2. CASE i \in 1 .. m /\ j \notin 1 .. m
    <3>1. PICK l \in 1 .. n : j = m + l
      BY <1>7, <2>2
    <3>2. outcomes'[j].source = seen[l]
      BY <1>6, <1>8a, <3>1
    <3>3. outcomes'[i] = outcomes[i] /\ Returned(outcomes[i].source)
      BY <1>6, <2>2 DEF ResultIsReturned
    <3>4. StageOf(outcomes'[i].source) < StageOf(outcomes'[j].source)
      BY <1>8, <3>2, <3>3 DEF Returned
    <3>5. QED
      BY <3>4 DEF ListedBefore
  <2>3. CASE i \notin 1 .. m
    <3>1. PICK k \in 1 .. n : i = m + k
      BY <1>7, <2>3
    <3>2. j \notin 1 .. m
      BY <1>6, <1>18, <2>3
    <3>3. PICK l \in 1 .. n : j = m + l
      BY <1>7, <3>2
    <3>4. k < l
      BY <1>6, <1>18, <3>1, <3>3
    <3>5. outcomes'[i].source = seen[k] /\ outcomes'[j].source = seen[l]
      BY <1>6, <1>8a, <3>1, <3>3
    <3>6. StageOf(seen[k]) = stage /\ StageOf(seen[l]) = stage
      BY <1>8
    <3>7. \E p, q \in DOMAIN Stages[stage].sources :
            p < q /\ Stages[stage].sources[p] = seen[k] /\ Stages[stage].sources[q] = seen[l]
      BY <1>6, <3>4 DEF seen
    <3>8. QED
      BY <3>5, <3>6, <3>7 DEF ListedBefore
  <2>4. QED
    BY <2>1, <2>2, <2>3
<1>19. OutcomesInOrder'
  BY <1>6, <1>18 DEF OutcomesInOrder
<1>20. QED
  BY <1>1, <1>11, <1>12, <1>13, <1>17, <1>19 DEF RegistryFollowsOrder

-----------------------------------------------------------------------------
\* The registry.

Counts == [Domain -> {Unknown} \cup Nat]

\* The outcomes of a domain up to place i, those that answered, and those after the last of
\* these: TrailingFailures on the way.
OwnUpTo(o, i, d) == {j \in 1 .. i : DomainOf[o[j].source] = d}
FineUpTo(o, i, d) == {j \in OwnUpTo(o, i, d) : o[j].ok}
AfterUpTo(o, i, d) == {j \in OwnUpTo(o, i, d) : \A k \in FineUpTo(o, i, d) : k < j}
CountUpTo(o, b, i, d) ==
  IF FineUpTo(o, i, d) # {} THEN Cardinality(AfterUpTo(o, i, d))
  ELSE IF b[d] = Unknown /\ AfterUpTo(o, i, d) # {} THEN Cardinality(AfterUpTo(o, i, d))
  ELSE b[d] + Cardinality(AfterUpTo(o, i, d))

\* A count stays a count.
LEMMA CountedKeepsType ==
  ASSUME NEW counts \in Counts, NEW o \in [source : Source, ok : BOOLEAN]
  PROVE  Counted(counts, o) \in Counts
<1>1. DomainOf[o.source] \in Domain
  BY CollectionAssumption
<1>2. QED
  BY <1>1 DEF Counted, Counts, Unknown

\* The registry, outcome by outcome.
LEMMA CountedRuns ==
  ASSUME NEW base \in Counts, NEW seq \in Seq([source : Source, ok : BOOLEAN])
  PROVE  \E h : /\ h[0] = base
                /\ \A i \in 1 .. Len(seq) :
                     h[i] = Counted(h[i - 1], seq[i])
                /\ FoldLeft(Counted, base, seq) = h[Len(seq)]
<1> DEFINE n == Len(seq)
           V == Counts
           step == [i \in 1 .. n |-> [K \in V |-> Counted(K, seq[i])]]
           Solves(f) == f = [s \in SUBSET (1 .. n) |->
                               IF s = {} THEN base
                               ELSE Counted(f[s \ {Max(s)}], seq[Max(s)])]
           g == CHOOSE f : Solves(f)
           h == [i \in 0 .. n |-> g[1 .. i]]
<1>1. n \in Nat /\ DOMAIN seq = 1 .. n /\ \A i \in 1 .. n : seq[i] \in [source : Source, ok : BOOLEAN]
  BY LenProperties, ElementOfSeq
<1>2. step \in [1 .. n -> [V -> V]]
  BY <1>1, CountedKeepsType
<1>3. \E f : IsFold(f, n, V, base, step)
  <2>1. base \in V
    OBVIOUS
  <2>2. n \in Nat /\ step \in [1 .. n -> [V -> V]]
    BY <1>1, <1>2
  <2> HIDE DEF step, n, V
  <2>3. QED
    BY <2>1, <2>2, FoldExists
<1>4. \E f : Solves(f)
  <2>1. PICK f : IsFold(f, n, V, base, step)
    BY <1>3
  <2>2. \A s \in SUBSET (1 .. n) : s # {} => Max(s) \in 1 .. n
    BY <1>1, HasGreatest
  <2>3. \A s \in SUBSET (1 .. n) :
          s # {} => step[Max(s)][f[s \ {Max(s)}]] =
                      Counted(f[s \ {Max(s)}], seq[Max(s)])
    <3> HIDE DEF n, V
    <3>1. QED
      BY <2>1, <2>2 DEF IsFold
  <2>4. Solves(f)
    <3> HIDE DEF n, V, step
    <3>1. QED
      BY <2>1, <2>3 DEF IsFold
  <2>5. QED
    BY <2>4
<1>5. Solves(g)
  BY <1>4
<1>6. FoldLeft(Counted, base, seq) = g[1 .. n]
  BY <1>1 DEF FoldLeft, MapThenFoldSet
<1> HIDE DEF g, n, V, step
<1>7. \A s \in SUBSET (1 .. n) :
        g[s] = IF s = {} THEN base
               ELSE Counted(g[s \ {Max(s)}], seq[Max(s)])
  BY <1>5
<1>7a. g[1 .. 0] = base
  <2>1. 1 .. 0 = {}
    OBVIOUS
  <2>2. QED
    BY <1>7, <2>1
<1>7b. ASSUME NEW i \in 1 .. n
       PROVE  g[1 .. i] = Counted(g[1 .. (i - 1)], seq[i])
  <2>1. 1 .. i \in SUBSET (1 .. n) /\ 1 .. i # {} /\ Max(1 .. i) = i
        /\ (1 .. i) \ {i} = 1 .. (i - 1)
    BY <1>1, FirstPlaces
  <2> DEFINE s == 1 .. i
  <2> HIDE DEF s
  <2>2. s \in SUBSET (1 .. n) /\ s # {} /\ Max(s) = i /\ s \ {i} = 1 .. (i - 1)
    BY <2>1 DEF s
  <2>3. g[s] = Counted(g[1 .. (i - 1)], seq[i])
    BY <1>7, <2>2
  <2>4. QED
    BY <2>3 DEF s
<1>8. /\ h[0] = base
      /\ \A i \in 1 .. n : h[i] = Counted(h[i - 1], seq[i])
      /\ FoldLeft(Counted, base, seq) = h[n]
  BY <1>1, <1>6, <1>7a, <1>7b
<1>9. QED
  <2> HIDE DEF h
  <2>1. QED
    BY <1>8 DEF n

\* The next outcome of another domain changes nothing for d.
LEMMA CountOfAnother ==
  ASSUME NEW o, NEW b, NEW i \in Nat \ {0}, NEW d, DomainOf[o[i].source] # d
  PROVE  CountUpTo(o, b, i, d) = CountUpTo(o, b, i - 1, d)
<1>1. OwnUpTo(o, i, d) = OwnUpTo(o, i - 1, d)
  <2>1. \A j \in 1 .. i : DomainOf[o[j].source] = d => j \in 1 .. (i - 1)
    OBVIOUS
  <2>2. \A j \in 1 .. (i - 1) : j \in 1 .. i
    OBVIOUS
  <2>3. QED
    BY <2>1, <2>2 DEF OwnUpTo
<1>2. FineUpTo(o, i, d) = FineUpTo(o, i - 1, d)
  BY <1>1 DEF FineUpTo
<1>3. AfterUpTo(o, i, d) = AfterUpTo(o, i - 1, d)
  BY <1>1, <1>2 DEF AfterUpTo
<1>4. QED
  BY <1>2, <1>3 DEF CountUpTo

\* One that answered leaves no failure after it.
LEMMA CountOfAnswer ==
  ASSUME NEW o, NEW b, NEW i \in Nat \ {0}, NEW d, DomainOf[o[i].source] = d, o[i].ok
  PROVE  CountUpTo(o, b, i, d) = 0
<1>1. i \in 1 .. i
  OBVIOUS
<1>2. i \in FineUpTo(o, i, d)
  BY <1>1 DEF FineUpTo, OwnUpTo
<1>3. AfterUpTo(o, i, d) = {}
  <2>1. \A j \in OwnUpTo(o, i, d) : ~(i < j)
    BY DEF OwnUpTo
  <2>2. QED
    BY <1>2, <2>1 DEF AfterUpTo
<1>4. QED
  BY <1>2, <1>3, FS_EmptySet DEF CountUpTo

\* One that failed is a failure more.
LEMMA CountOfFailure ==
  ASSUME NEW o, NEW b, NEW i \in Nat \ {0}, NEW d, DomainOf[o[i].source] = d, ~o[i].ok,
         b[d] \in {Unknown} \cup Nat
  PROVE  CountUpTo(o, b, i, d) =
           IF CountUpTo(o, b, i - 1, d) = Unknown THEN 1 ELSE CountUpTo(o, b, i - 1, d) + 1
<1> DEFINE A == AfterUpTo(o, i - 1, d)
           B == AfterUpTo(o, i, d)
<1>1. OwnUpTo(o, i, d) = OwnUpTo(o, i - 1, d) \cup {i} /\ i \notin OwnUpTo(o, i - 1, d)
  <2>1. 1 .. i = (1 .. (i - 1)) \cup {i} /\ i \notin 1 .. (i - 1)
    OBVIOUS
  <2>2. QED
    BY <2>1 DEF OwnUpTo
<1>2. FineUpTo(o, i, d) = FineUpTo(o, i - 1, d)
  BY <1>1 DEF FineUpTo
<1>3. B = A \cup {i} /\ i \notin A
  <2>1. \A k \in FineUpTo(o, i - 1, d) : k < i
    BY DEF FineUpTo, OwnUpTo
  <2>2. QED
    BY <1>1, <1>2, <2>1 DEF AfterUpTo
<1>4. IsFiniteSet(A) /\ Cardinality(A) \in Nat /\ (A # {} => Cardinality(A) # 0)
      /\ (A = {} => Cardinality(A) = 0)
  <2>1. A \subseteq 1 .. (i - 1)
    BY DEF AfterUpTo, OwnUpTo
  <2>2. IsFiniteSet(A)
    BY <2>1, FS_Interval, FS_Subset
  <2>3. QED
    BY <2>2, FS_CardinalityType, FS_EmptySet
<1> HIDE DEF A, B
<1>5. Cardinality(B) = Cardinality(A) + 1 /\ B # {}
  <2>1. Cardinality(A \cup {i}) = Cardinality(A) + 1
    BY <1>3, <1>4, FS_AddElement
  <2>2. QED
    BY <1>3, <2>1
<1>6. CASE FineUpTo(o, i - 1, d) # {}
  <2>1. CountUpTo(o, b, i, d) = Cardinality(B) /\ CountUpTo(o, b, i - 1, d) = Cardinality(A)
    BY <1>2, <1>6 DEF CountUpTo, A, B
  <2>2. QED
    BY <1>4, <1>5, <2>1 DEF Unknown
<1>7. CASE FineUpTo(o, i - 1, d) = {} /\ b[d] = Unknown
  <2>1. CountUpTo(o, b, i, d) = Cardinality(B)
    BY <1>2, <1>5, <1>7 DEF CountUpTo, B
  <2>2. CountUpTo(o, b, i - 1, d) = IF A # {} THEN Cardinality(A) ELSE Unknown + Cardinality(A)
    BY <1>7 DEF CountUpTo, A
  <2>3. QED
    BY <1>4, <1>5, <2>1, <2>2 DEF Unknown
<1>8. CASE FineUpTo(o, i - 1, d) = {} /\ b[d] \in Nat
  <2>1. b[d] # Unknown
    BY <1>8 DEF Unknown
  <2>2. /\ CountUpTo(o, b, i, d) = b[d] + Cardinality(B)
        /\ CountUpTo(o, b, i - 1, d) = b[d] + Cardinality(A)
    BY <1>2, <1>8, <2>1 DEF CountUpTo, A, B
  <2>3. QED
    BY <1>4, <1>5, <1>8, <2>2 DEF Unknown
<1>9. QED
  BY <1>6, <1>7, <1>8

\* Counting outcome by outcome comes to the failures after the last answer.
LEMMA CountedTogether ==
  ASSUME NEW base \in Counts, NEW seq \in Seq([source : Source, ok : BOOLEAN])
  PROVE  /\ FoldLeft(Counted, base, seq) \in Counts
         /\ \A d \in Domain : FoldLeft(Counted, base, seq)[d] = CountUpTo(seq, base, Len(seq), d)
<1> DEFINE n == Len(seq)
<1>1. n \in Nat /\ \A i \in 1 .. n : seq[i] \in [source : Source, ok : BOOLEAN]
  BY LenProperties, ElementOfSeq
<1>2. PICK h : /\ h[0] = base
               /\ \A i \in 1 .. n : h[i] = Counted(h[i - 1], seq[i])
               /\ FoldLeft(Counted, base, seq) = h[n]
  BY CountedRuns
<1> DEFINE G == {i \in 0 .. n : /\ h[i] \in Counts
                                /\ \A d \in Domain : h[i][d] = CountUpTo(seq, base, i, d)}
<1>3. 0 \in G
  <2>1. ASSUME NEW d \in Domain PROVE base[d] = CountUpTo(seq, base, 0, d)
    <3>1. OwnUpTo(seq, 0, d) = {}
      BY DEF OwnUpTo
    <3>2. FineUpTo(seq, 0, d) = {} /\ AfterUpTo(seq, 0, d) = {}
      BY <3>1 DEF FineUpTo, AfterUpTo
    <3>3. CountUpTo(seq, base, 0, d) = base[d] + 0
      BY <3>2, FS_EmptySet DEF CountUpTo
    <3>4. base[d] \in Int
      BY DEF Counts, Unknown
    <3>5. QED
      BY <3>3, <3>4
  <2>2. QED
    BY <1>1, <1>2, <2>1
<1>4. ASSUME NEW i \in 1 .. n, i - 1 \in G PROVE i \in G
  <2> DEFINE c == h[i - 1]
             e == DomainOf[seq[i].source]
  <2>1. c \in Counts /\ \A d \in Domain : c[d] = CountUpTo(seq, base, i - 1, d)
    BY <1>4
  <2>2. h[i] = Counted(c, seq[i]) /\ seq[i] \in [source : Source, ok : BOOLEAN] /\ i \in Nat \ {0}
    BY <1>1, <1>2
  <2>3. h[i] = [c EXCEPT ![e] = IF seq[i].ok THEN 0 ELSE IF c[e] = Unknown THEN 1 ELSE c[e] + 1]
    BY <2>2 DEF Counted
  <2>4. e \in Domain /\ seq[i].ok \in BOOLEAN
    BY <2>2, CollectionAssumption
  <2> HIDE DEF c, e
  <2>5. h[i] \in Counts
    BY <2>1, <2>2, CountedKeepsType
  <2>6. ASSUME NEW d \in Domain PROVE h[i][d] = CountUpTo(seq, base, i, d)
    <3>1. CASE d # e
      <4>1. h[i][d] = c[d]
        BY <2>1, <2>3, <2>4, <3>1 DEF Counts
      <4>2. CountUpTo(seq, base, i, d) = CountUpTo(seq, base, i - 1, d)
        BY <2>2, <3>1, CountOfAnother DEF e
      <4>3. QED
        BY <2>1, <4>1, <4>2
    <3>2. CASE d = e /\ seq[i].ok
      <4>1. h[i][d] = 0
        BY <2>1, <2>3, <2>4, <3>2 DEF Counts
      <4>2. CountUpTo(seq, base, i, d) = 0
        BY <2>2, <3>2, CountOfAnswer DEF e
      <4>3. QED
        BY <4>1, <4>2
    <3>3. CASE d = e /\ ~seq[i].ok
      <4>1. h[i][d] = IF c[d] = Unknown THEN 1 ELSE c[d] + 1
        BY <2>1, <2>3, <2>4, <3>3 DEF Counts
      <4>2. base[d] \in {Unknown} \cup Nat
        BY DEF Counts
      <4>3. CountUpTo(seq, base, i, d) =
              IF CountUpTo(seq, base, i - 1, d) = Unknown THEN 1
              ELSE CountUpTo(seq, base, i - 1, d) + 1
        BY <2>2, <3>3, <4>2, CountOfFailure DEF e
      <4>4. QED
        BY <2>1, <4>1, <4>3
    <3>4. QED
      BY <2>4, <3>1, <3>2, <3>3
  <2>7. QED
    BY <1>1, <2>5, <2>6
<1> HIDE DEF G
<1>5. n \in G
  <2>1. \A i \in 0 .. n : i \in G
    BY <1>1, <1>3, <1>4, CountingUp
  <2>2. QED
    BY <1>1, <2>1
<1>6. QED
  BY <1>2, <1>5 DEF G

\* The registry takes the outcomes in.
LEMMA UpdateKeepsCollectionInv ==
  ASSUME CollectionInv, UpdateRegistry
  PROVE  CollectionInv'
<1> USE DEF CollectionInv
<1>1. /\ phase = "registry" /\ phase' = "collected"
      /\ registry' = FoldLeft(Counted, registry, outcomes)
      /\ UNCHANGED <<stage, task, tries, free, outcomes, found, lost, before>>
  BY DEF UpdateRegistry
<1>2. registry = before /\ before \in Counts /\ outcomes \in Seq([source : Source, ok : BOOLEAN])
  BY <1>1 DEF CollectionTypeOK, Counts
<1>3. /\ registry' \in Counts
      /\ \A d \in Domain : registry'[d] = CountUpTo(outcomes, before, Len(outcomes), d)
  BY <1>1, <1>2, CountedTogether
<1>4. \A d \in Domain : TrailingFailures(d)' = CountUpTo(outcomes, before, Len(outcomes), d)
  <2>1. DOMAIN outcomes = 1 .. Len(outcomes)
    BY <1>2, LenProperties
  <2>2. QED
    BY <1>1, <2>1 DEF TrailingFailures, CountUpTo, AfterUpTo, FineUpTo, OwnUpTo
<1>5. CollectionTypeOK'
  BY <1>1, <1>3 DEF CollectionTypeOK, Counts, Over
<1>6. SlotsConserved'
  BY <1>1, SlotsAreAsked, SlotsAreAskedNext
<1>7. ChannelsInTurn'
  BY <1>1 DEF ChannelsInTurn
<1>8. ResultIsReturned'
  <2>1. \A r \in Source : Returned(r) <=> Returned(r)'
    BY <1>1 DEF Returned
  <2>2. QED
    BY <1>1, <2>1, ResultStays
<1>9. OutcomesInOrder'
  BY <1>1 DEF OutcomesInOrder
<1>10. RegistryFollowsOrder'
  BY <1>3, <1>4, <1>9 DEF RegistryFollowsOrder
<1>11. QED
  BY <1>1, <1>5, <1>6, <1>7, <1>8, <1>9, <1>10

-----------------------------------------------------------------------------
\* The collection.

LEMMA StepKeepsCollectionInv ==
  ASSUME CollectionInv, CollectionNext
  PROVE  CollectionInv'
BY StartKeepsCollectionInv, MergeKeepsCollectionInv, ClosesKeepsCollectionInv,
   UpdateKeepsCollectionInv, BeginsKeepsCollectionInv, TryAgainKeepsCollectionInv,
   ReturnsKeepsCollectionInv, RaisesKeepsCollectionInv DEF CollectionNext

\* What other parts do.
LEMMA StutterKeepsCollectionInv ==
  ASSUME CollectionInv, UNCHANGED collectionVars
  PROVE  CollectionInv'
<1> USE DEF CollectionInv, collectionVars
<1>1. CollectionTypeOK'
  BY DEF CollectionTypeOK
<1>2. SlotsConserved'
  BY SlotsAreAsked, SlotsAreAskedNext
<1>3. ChannelsInTurn'
  BY DEF ChannelsInTurn
<1>4. \A r \in Source : Returned(r) <=> Returned(r)'
  BY DEF Returned
<1>5. ResultIsReturned'
  BY <1>4, ResultStays
<1>6. OutcomesInOrder' /\ RegistryFollowsOrder'
  BY RegistryStays
<1>7. QED
  BY <1>1, <1>2, <1>3, <1>5, <1>6

\* Each source that returned has its articles and one outcome: from the invariant.
LEMMA ResultIsSound ==
  ASSUME CollectionInv
  PROVE  OneSourceCostsOneSource
<1> USE DEF CollectionInv
<1> SUFFICES ASSUME NEW s \in Source, Returned(s)
             PROVE  /\ (task[s] = "full") <=> \E i \in DOMAIN found : found[i] = s
                    /\ Cardinality({i \in DOMAIN outcomes : outcomes[i].source = s}) = 1
                    /\ \A i \in DOMAIN outcomes :
                         outcomes[i].source = s => (outcomes[i].ok <=> task[s] # "failed")
  BY DEF OneSourceCostsOneSource
<1> DEFINE I == {i \in DOMAIN outcomes : outcomes[i].source = s}
<1>1. (task[s] = "full") <=> \E i \in DOMAIN found : found[i] = s
  BY DEF ResultIsReturned
<1>2. \A i \in DOMAIN outcomes :
        outcomes[i].source = s => (outcomes[i].ok <=> task[s] # "failed")
  <2> SUFFICES ASSUME NEW i \in DOMAIN outcomes, outcomes[i].source = s
               PROVE  outcomes[i].ok <=> task[s] # "failed"
    OBVIOUS
  <2>1. outcomes[i] = OutcomeOf(s)
    BY DEF ResultIsReturned
  <2>2. OutcomeOf(s).ok = (task[s] # "failed")
    BY DEF OutcomeOf
  <2>3. QED
    BY <2>1, <2>2
<1>3. ~ListedBefore(s, s)
  <2>1. StageOf(s) \in DOMAIN Stages /\ StageOf(s) \in Int
    BY StageOfASource, StagesAssumption, LenProperties
  <2>2. ~(StageOf(s) < StageOf(s))
    BY <2>1
  <2>3. Stages[StageOf(s)].sources \in Seq(Source)
    BY <2>1, StageSources
  <2>4. \A m, n \in DOMAIN Stages[StageOf(s)].sources : m \in Int /\ n \in Int
    BY <2>3, LenProperties
  <2>5. \A m, n \in DOMAIN Stages[StageOf(s)].sources :
          Stages[StageOf(s)].sources[m] = s /\ Stages[StageOf(s)].sources[n] = s => ~(m < n)
    BY <2>1, <2>4, StageSources
  <2>6. QED
    BY <2>2, <2>5 DEF ListedBefore
<1>4. PICK i \in DOMAIN outcomes : outcomes[i] = OutcomeOf(s)
  BY DEF ResultIsReturned
<1>5. i \in I
  BY <1>4 DEF OutcomeOf
<1>6. \A j \in I : j = i
  <2> SUFFICES ASSUME NEW j \in I, j # i PROVE FALSE
    OBVIOUS
  <2>1. j \in Int /\ i \in Int /\ j \in DOMAIN outcomes
    BY LenProperties DEF CollectionTypeOK
  <2>2. ListedBefore(s, s)
    BY <1>5, <2>1 DEF OutcomesInOrder
  <2>3. QED
    BY <1>3, <2>2
<1>7. I = {i}
  BY <1>5, <1>6
<1>8. Cardinality(I) = 1
  BY <1>7, FS_Singleton
<1>9. QED
  BY <1>1, <1>2, <1>8

-----------------------------------------------------------------------------
\* The articles of a section.

JoinStep(seq, s, sec) ==
  IF Stages[StageOf(s)].section = sec THEN seq \o ArticlesOf[s] ELSE seq

\* Collected, of any result.
CollectedOf(sec, from) ==
  LET Join(seq, s) == IF Stages[StageOf(s)].section = sec THEN seq \o ArticlesOf[s] ELSE seq
  IN  FoldLeft(Join, <<>>, from)

\* The articles of a section are a function of the result.
LEMMA CollectedFromFound ==
  ASSUME NEW sec
  PROVE  Collected(sec) = CollectedOf(sec, found)
BY DEF Collected, CollectedOf, FoldLeft, MapThenFoldSet

\* The same after a step.
LEMMA CollectedFromFoundNext ==
  ASSUME NEW sec
  PROVE  Collected(sec)' = CollectedOf(sec, found')
BY DEF Collected, CollectedOf, FoldLeft, MapThenFoldSet

\* The articles of one source more.
LEMMA JoinStepKeepsType ==
  ASSUME NEW K \in Seq(Article), NEW s \in Source, NEW sec
  PROVE  JoinStep(K, s, sec) \in Seq(Article)
<1>1. ArticlesOf[s] \in Seq(Article)
  BY IntakeAssumption
<1>2. K \o ArticlesOf[s] \in Seq(Article)
  BY <1>1, ConcatProperties
<1>3. QED
  BY <1>2 DEF JoinStep

\* The articles of a section, source by source.
LEMMA CollectedRuns ==
  ASSUME NEW sec, NEW seq \in Seq(Source)
  PROVE  \E h : /\ h[0] = <<>>
                /\ \A i \in 1 .. Len(seq) :
                     h[i] = JoinStep(h[i - 1], seq[i], sec)
                /\ CollectedOf(sec, seq) = h[Len(seq)]
<1> DEFINE n == Len(seq)
           V == Seq(Article)
           step == [i \in 1 .. n |-> [K \in V |-> JoinStep(K, seq[i], sec)]]
           Solves(f) == f = [s \in SUBSET (1 .. n) |->
                               IF s = {} THEN <<>>
                               ELSE JoinStep(f[s \ {Max(s)}], seq[Max(s)], sec)]
           g == CHOOSE f : Solves(f)
           h == [i \in 0 .. n |-> g[1 .. i]]
<1>1. n \in Nat /\ DOMAIN seq = 1 .. n /\ \A i \in 1 .. n : seq[i] \in Source
  BY LenProperties, ElementOfSeq
<1>2. step \in [1 .. n -> [V -> V]]
  BY <1>1, JoinStepKeepsType
<1>3. \E f : IsFold(f, n, V, <<>>, step)
  <2>1. <<>> \in V
    BY EmptySeq
  <2>2. n \in Nat /\ step \in [1 .. n -> [V -> V]]
    BY <1>1, <1>2
  <2> HIDE DEF step, n, V
  <2>3. QED
    BY <2>1, <2>2, FoldExists
<1>4. \E f : Solves(f)
  <2>1. PICK f : IsFold(f, n, V, <<>>, step)
    BY <1>3
  <2>2. \A s \in SUBSET (1 .. n) : s # {} => Max(s) \in 1 .. n
    BY <1>1, HasGreatest
  <2>3. \A s \in SUBSET (1 .. n) :
          s # {} => step[Max(s)][f[s \ {Max(s)}]] =
                      JoinStep(f[s \ {Max(s)}], seq[Max(s)], sec)
    <3> HIDE DEF n, V
    <3>1. QED
      BY <2>1, <2>2 DEF IsFold
  <2>4. Solves(f)
    <3> HIDE DEF n, V, step
    <3>1. QED
      BY <2>1, <2>3 DEF IsFold
  <2>5. QED
    BY <2>4
<1>5. Solves(g)
  BY <1>4
<1>6. CollectedOf(sec, seq) = g[1 .. n]
  BY <1>1 DEF CollectedOf, JoinStep, FoldLeft, MapThenFoldSet
<1> HIDE DEF g, n, V, step
<1>7. \A s \in SUBSET (1 .. n) :
        g[s] = IF s = {} THEN <<>>
               ELSE JoinStep(g[s \ {Max(s)}], seq[Max(s)], sec)
  BY <1>5
<1>7a. g[1 .. 0] = <<>>
  <2>1. 1 .. 0 = {}
    OBVIOUS
  <2>2. QED
    BY <1>7, <2>1
<1>7b. ASSUME NEW i \in 1 .. n
       PROVE  g[1 .. i] = JoinStep(g[1 .. (i - 1)], seq[i], sec)
  <2>1. 1 .. i \in SUBSET (1 .. n) /\ 1 .. i # {} /\ Max(1 .. i) = i
        /\ (1 .. i) \ {i} = 1 .. (i - 1)
    BY <1>1, FirstPlaces
  <2> DEFINE s == 1 .. i
  <2> HIDE DEF s
  <2>2. s \in SUBSET (1 .. n) /\ s # {} /\ Max(s) = i /\ s \ {i} = 1 .. (i - 1)
    BY <2>1 DEF s
  <2>3. g[s] = JoinStep(g[1 .. (i - 1)], seq[i], sec)
    BY <1>7, <2>2
  <2>4. QED
    BY <2>3 DEF s
<1>8. /\ h[0] = <<>>
      /\ \A i \in 1 .. n : h[i] = JoinStep(h[i - 1], seq[i], sec)
      /\ CollectedOf(sec, seq) = h[n]
  BY <1>1, <1>6, <1>7a, <1>7b
<1>9. QED
  <2> HIDE DEF h
  <2>1. QED
    BY <1>8 DEF n

\* They are a list of articles.
LEMMA CollectedIsSequence ==
  ASSUME NEW sec, NEW seq \in Seq(Source)
  PROVE  CollectedOf(sec, seq) \in Seq(Article)
<1> DEFINE n == Len(seq)
<1>1. n \in Nat /\ \A i \in 1 .. n : seq[i] \in Source
  BY LenProperties, ElementOfSeq
<1>2. PICK h : /\ h[0] = <<>>
               /\ \A i \in 1 .. n : h[i] = JoinStep(h[i - 1], seq[i], sec)
               /\ CollectedOf(sec, seq) = h[n]
  BY CollectedRuns
<1> DEFINE G == {i \in 0 .. n : h[i] \in Seq(Article)}
<1>3. 0 \in G
  <2>1. <<>> \in Seq(Article)
    BY EmptySeq
  <2>2. h[0] \in Seq(Article)
    BY <1>2, <2>1
  <2>3. QED
    BY <1>1, <2>2
<1>4. ASSUME NEW i \in 1 .. n, i - 1 \in G PROVE i \in G
  BY <1>1, <1>2, <1>4, JoinStepKeepsType
<1> HIDE DEF G
<1>5. n \in G
  <2>1. \A i \in 0 .. n : i \in G
    BY <1>1, <1>3, <1>4, CountingUp
  <2>2. QED
    BY <1>1, <2>1
<1>6. QED
  BY <1>2, <1>5 DEF G

-----------------------------------------------------------------------------
\* The reliability of a domain.

\* The code's discount, and what the registry said when the run began, are one.
LEMMA TrustIsReliability ==
  ASSUME CollectionTypeOK, NEW d \in Domain
  PROVE  Reliability(d) = Trust(d) /\ Trust(d) \in Int
<1>1. before[d] \in {Unknown} \cup Nat /\ Base[d] \in Int
  <2>1. before[d] \in {Unknown} \cup Nat
    BY DEF CollectionTypeOK
  <2>2. Base[d] \in 0 .. 10
    BY IntakeAssumption
  <2>3. QED
    BY <2>1, <2>2
<1>2. CASE before[d] = Unknown
  BY <1>2 DEF Reliability, Trust, FullDiscount
<1>3. CASE before[d] \in Nat
  <2> DEFINE x == before[d]
             m == IF x < 5 THEN x ELSE 5
  <2>1. x # Unknown
    BY <1>3 DEF Unknown
  <2>2. Min({5, x}) = m
    <3>1. m \in {5, x} /\ \A y \in {5, x} : m <= y
      BY <1>3
    <3>2. \A z \in {5, x} : (\A y \in {5, x} : z <= y) => z = m
      BY <1>3
    <3> HIDE DEF m, x
    <3>3. QED
      BY <3>1, <3>2 DEF Min
  <2>3. Reliability(d) = Base[d] * (5 - m) /\ Trust(d) = Base[d] * (5 - m)
    BY <2>1, <2>2 DEF Reliability, Trust, FullDiscount
  <2>4. m \in Int
    BY <1>3
  <2> HIDE DEF m, x
  <2>5. 5 - m \in Int
    BY <2>4
  <2>6. Base[d] * (5 - m) \in Int
    BY <1>1, <2>5
  <2>7. QED
    BY <2>3, <2>6
<1>4. QED
  BY <1>1, <1>2, <1>3

\* The index of a run.
Index == [d \in Domain |-> Trust(d)]

\* It gives each domain the code's reliability.
LEMMA IndexRates ==
  ASSUME CollectionTypeOK
  PROVE  /\ Rates(Index) /\ Index = [d \in Domain |-> Reliability(d)]
         /\ \A a \in Article : Index[From[a]] = Reliability(From[a])
<1>1. \A a \in Article : From[a] \in Domain
  BY IntakeAssumption
<1>2. \A d \in Domain : Reliability(d) = Trust(d) /\ Trust(d) \in Int
  BY TrustIsReliability
<1>3. QED
  BY <1>1, <1>2 DEF Rates, Index

-----------------------------------------------------------------------------
\* The stories.

\* Once they are there, they are those of the result and of the index.
StoriesInv ==
  stories # <<>> =>
    /\ phase = "collected"
    /\ stories = [sec \in Section |->
                    [kept |-> Deduplicate(CollectedOf(sec, found), Index),
                     clusters |-> Cluster(Deduplicate(CollectedOf(sec, found), Index), Index)]]

IntakeInv == CollectionInv /\ StoriesInv

\* The index is that of the registry as it was before the collection.
LEMMA IndexStays ==
  ASSUME before' = before
  PROVE  Index' = Index
BY DEF Index, Trust

\* Nothing more comes to a result.
LEMMA ResultIsFinal ==
  ASSUME CollectionNext, phase = "collected"
  PROVE  phase' = "collected" /\ UNCHANGED <<found, before>>
BY DEF CollectionNext, StartChannel, MergeChannel, CollectAll, UpdateRegistry, CutCollection, Over,
       FetchFeed, FetchQuery, Begin, TryAgain, FetchReturns, FetchRaises

\* A run begins without stories.
LEMMA InitIntakeInv == Init => IntakeInv
BY InitCollectionInv DEF Init, IntakeInv, StoriesInv

\* Every step keeps the invariant.
LEMMA NextIntakeInv == IntakeInv /\ [Next]_vars => IntakeInv'
<1> SUFFICES ASSUME IntakeInv, [Next]_vars PROVE IntakeInv'
  OBVIOUS
<1> USE DEF IntakeInv
<1>1. CASE CollectionNext /\ UNCHANGED stories
  <2>1. CollectionInv'
    BY <1>1, StepKeepsCollectionInv
  <2>2. StoriesInv'
    <3> SUFFICES ASSUME stories # <<>> PROVE StoriesInv'
      BY <1>1 DEF StoriesInv
    <3>1. phase' = "collected" /\ UNCHANGED <<found, before>>
      BY <1>1, ResultIsFinal DEF StoriesInv
    <3>2. Index' = Index
      BY <3>1, IndexStays
    <3>3. QED
      BY <1>1, <3>1, <3>2 DEF StoriesInv
  <2>3. QED
    BY <2>1, <2>2
<1>2. CASE Curate
  <2>1. phase = "collected" /\ UNCHANGED collectionVars
    BY <1>2 DEF Curate
  <2>2. CollectionInv'
    BY <2>1, StutterKeepsCollectionInv
  <2>3. found' = found /\ before' = before /\ phase' = phase
    BY <2>1 DEF collectionVars
  <2>4. Index = [d \in Domain |-> Reliability(d)] /\ Index' = Index
    BY <2>3, IndexRates, IndexStays DEF CollectionInv
  <2>5. stories' = [sec \in Section |->
                      [kept |-> Deduplicate(CollectedOf(sec, found), Index),
                       clusters |-> Cluster(Deduplicate(CollectedOf(sec, found), Index), Index)]]
    BY <1>2, <2>4, CollectedFromFound DEF Curate
  <2>6. StoriesInv'
    BY <2>1, <2>3, <2>4, <2>5 DEF StoriesInv
  <2>7. QED
    BY <2>2, <2>6
<1>3. CASE UNCHANGED vars
  <2>1. UNCHANGED collectionVars /\ stories' = stories
    BY <1>3 DEF vars
  <2>2. CollectionInv'
    BY <2>1, StutterKeepsCollectionInv
  <2>3. found' = found /\ before' = before /\ phase' = phase /\ Index' = Index
    BY <2>1, IndexStays DEF collectionVars
  <2>4. StoriesInv'
    BY <2>1, <2>3 DEF StoriesInv
  <2>5. QED
    BY <2>2, <2>4
<1>4. QED
  BY <1>1, <1>2, <1>3 DEF Next

\* What was kept of a section, and its clusters.
LEMMA StoriesAreSound ==
  ASSUME IntakeInv, stories # <<>>, NEW sec \in Section
  PROVE  LET A == ToSet(Collected(sec))
             K == stories[sec].kept
         IN  /\ StandsFor(K, A, A, Index)
             /\ A \subseteq Article
             /\ K \in Seq(Article)
             /\ Groups(stories[sec].clusters, ToSet(K), Index)
<1> DEFINE c == CollectedOf(sec, found)
           K == Deduplicate(c, Index)
<1>1. c \in Seq(Article)
  BY CollectedIsSequence DEF IntakeInv, CollectionInv, CollectionTypeOK
<1>2. stories[sec].kept = K /\ stories[sec].clusters = Cluster(K, Index) /\ Collected(sec) = c
  BY CollectedFromFound DEF IntakeInv, StoriesInv
<1> HIDE DEF c
<1>3. Rates(Index)
  BY IndexRates DEF IntakeInv, CollectionInv
<1>4. StandsFor(K, ToSet(c), ToSet(c), Index)
  BY <1>1, <1>3, DeduplicateStandsFor
<1>5. ToSet(c) \subseteq Article
  BY <1>1, ElementOfSeq, LenProperties DEF ToSet
<1> HIDE DEF K
<1>6. K \in Seq(Article) /\ Injective(K)
  <2>1. K \in Seq(ToSet(c))
    BY <1>4 DEF StandsFor
  <2>2. K \in Seq(Article)
    BY <1>5, <2>1, SeqMonotonic
  <2>3. Injective(K)
    BY <1>4 DEF StandsFor, UrlsDiffer, Injective
  <2>4. QED
    BY <2>2, <2>3
<1>7. Groups(Cluster(K, Index), ToSet(K), Index)
  BY <1>3, <1>6, ClusterGroups
<1>8. QED
  BY <1>2, <1>4, <1>5, <1>6, <1>7

\* What is kept, from the invariant.
LEMMA IntakeInvKeepsBest == IntakeInv => KeptIsBest
<1> SUFFICES ASSUME IntakeInv, stories # <<>>, NEW sec \in Section
             PROVE  LET A == ToSet(Collected(sec))
                        K == stories[sec].kept
                    IN  /\ ToSet(K) \subseteq A
                        /\ \A i, j \in DOMAIN K : i # j => Url[K[i]] # Url[K[j]]
                        /\ \A a \in A : \E k \in ToSet(K) : k \in Linked(a, A) /\ ~WorseBy(Index, k, a)
  BY DEF KeptIsBest, Index
<1> DEFINE A == ToSet(Collected(sec))
           K == stories[sec].kept
<1>1. StandsFor(K, A, A, Index)
  BY StoriesAreSound
<1> HIDE DEF A, K
<1>2. ASSUME NEW a \in A PROVE \E k \in ToSet(K) : k \in Linked(a, A) /\ ~WorseBy(Index, k, a)
  BY <1>1 DEF StandsFor, Covers, ToSet
<1>3. QED
  BY <1>1, <1>2 DEF StandsFor, UrlsDiffer, A, K

\* What the clusters hold, from the invariant.
LEMMA IntakeInvClusters == IntakeInv => ClustersAreSound
<1> SUFFICES ASSUME IntakeInv, stories # <<>>, NEW sec \in Section
             PROVE  LET K == ToSet(stories[sec].kept)
                        C == stories[sec].clusters
                    IN  /\ \A a \in K : Cardinality({p \in (DOMAIN C) \X (1 .. MaxCluster) :
                                              p[2] <= Len(C[p[1]]) /\ C[p[1]][p[2]] = a}) = 1
                        /\ \A i \in DOMAIN C :
                             /\ Len(C[i]) \in 1 .. MaxCluster
                             /\ \A j \in DOMAIN C[i] :
                                  /\ C[i][j] \in K
                                  /\ Reliability(From[C[i][j]]) <= Reliability(From[C[i][1]])
  BY DEF ClustersAreSound
<1> DEFINE K == ToSet(stories[sec].kept)
           C == stories[sec].clusters
<1>1. Groups(C, K, Index) /\ K \subseteq Article
  <2> DEFINE k == stories[sec].kept
  <2>1. k \in Seq(Article) /\ Groups(C, K, Index)
    BY StoriesAreSound
  <2> HIDE DEF k
  <2>2. ToSet(k) \subseteq Article
    BY <2>1, ElementOfSeq, LenProperties DEF ToSet
  <2>3. QED
    BY <2>1, <2>2 DEF k
<1>2. \A a \in Article : Index[From[a]] = Reliability(From[a])
  BY IndexRates DEF IntakeInv, CollectionInv
<1> HIDE DEF K, C
<1>3. /\ \A i \in DOMAIN C : C[i] \in Seq(Article) /\ Len(C[i]) \in 1 .. MaxCluster
      /\ MaxCluster \in Nat
  BY <1>1, ElementOfSeq, LenProperties, CurationAssumption DEF Groups
<1>4. \A i \in DOMAIN C : DOMAIN C[i] = 1 .. Len(C[i]) /\ Len(C[i]) \in Nat /\ 1 \in DOMAIN C[i]
  BY <1>3, LenProperties
<1>5. ASSUME NEW i \in DOMAIN C, NEW j \in DOMAIN C[i]
      PROVE  C[i][j] \in K /\ Reliability(From[C[i][j]]) <= Reliability(From[C[i][1]])
  BY <1>1, <1>2, <1>4 DEF Groups
<1>6. ASSUME NEW a \in K
      PROVE  Cardinality({p \in (DOMAIN C) \X (1 .. MaxCluster) :
                            p[2] <= Len(C[p[1]]) /\ C[p[1]][p[2]] = a}) = 1
  <2> DEFINE P == {p \in (DOMAIN C) \X (1 .. MaxCluster) : p[2] <= Len(C[p[1]]) /\ C[p[1]][p[2]] = a}
  <2>1. PICK i \in DOMAIN C : \E j \in DOMAIN C[i] : C[i][j] = a
    BY <1>1 DEF Groups
  <2>2. PICK j \in DOMAIN C[i] : C[i][j] = a
    BY <2>1
  <2>3. j \in 1 .. MaxCluster /\ j <= Len(C[i])
    BY <1>3, <1>4
  <2>4. <<i, j>> \in P
    BY <2>2, <2>3
  <2>5. ASSUME NEW p \in P PROVE p = <<i, j>>
    <3>1. p[1] \in DOMAIN C /\ p[2] \in 1 .. MaxCluster /\ p[2] <= Len(C[p[1]]) /\ C[p[1]][p[2]] = a
          /\ p = <<p[1], p[2]>>
      OBVIOUS
    <3>2. p[2] \in DOMAIN C[p[1]]
      BY <1>4, <3>1
    <3>3. p[1] = i /\ p[2] = j
      BY <1>1, <2>2, <3>1, <3>2 DEF Groups
    <3>4. QED
      BY <3>1, <3>3
  <2>6. P = {<<i, j>>}
    BY <2>4, <2>5
  <2> HIDE DEF P
  <2>7. Cardinality(P) = 1
    BY <2>6, FS_Singleton
  <2>8. QED
    BY <2>7 DEF P
<1>7. QED
  BY <1>3, <1>5, <1>6 DEF K, C

-----------------------------------------------------------------------------
\* The theorems.

LEMMA SpecIntakeInv == Spec => []IntakeInv
<1>1. Init => IntakeInv
  BY InitIntakeInv
<1>2. IntakeInv /\ [Next]_vars => IntakeInv'
  BY NextIntakeInv
<1>3. QED
  BY <1>1, <1>2, PTL DEF Spec

\* The slots are worth what is in use, the channels have their turns, the result is what the
\* channels that returned came to, and the registry follows the configured order: for any
\* sources, channels, slots and attempts, whichever requests fail or raise, and whenever the
\* run is cut (app/collect/__init__.py, rss.py, http.py, sources.py).
THEOREM CollectionIsSound == Spec => []CollectionInv
<1>1. IntakeInv => CollectionInv
  BY DEF IntakeInv
<1>2. QED
  BY <1>1, SpecIntakeInv, PTL

\* A source that fails, or that ends its collector with an exception, costs no source of a
\* channel that returned its articles or its one outcome (rss.py:6, http.py:3-4).
THEOREM OneSourceCostsOne == Spec => []OneSourceCostsOneSource
<1>1. IntakeInv => OneSourceCostsOneSource
  BY ResultIsSound DEF IntakeInv
<1>2. QED
  BY <1>1, SpecIntakeInv, PTL

\* The count of a domain is that of its failures after its last answer, in the configured
\* order (sources.py:40-56).
THEOREM RegistryFollowsTheOrder == Spec => []RegistryFollowsOrder
<1>1. IntakeInv => RegistryFollowsOrder
  BY DEF IntakeInv, CollectionInv
<1>2. QED
  BY <1>1, SpecIntakeInv, PTL

\* No article disappears for a worse copy, through the three levels of the removal of
\* duplicates, for any articles, measures and reliabilities (dedup.py:36-126).
THEOREM TheBestIsKept == Spec => []KeptIsBest
<1>1. IntakeInv => KeptIsBest
  BY IntakeInvKeepsBest
<1>2. QED
  BY <1>1, SpecIntakeInv, PTL

\* The clusters of a section divide what was kept of it, none is too large, and each is opened
\* by an article of its most reliable domain (clusterer.py:68-147).
THEOREM TheClustersAreSound == Spec => []ClustersAreSound
<1>1. IntakeInv => ClustersAreSound
  BY IntakeInvClusters
<1>2. QED
  BY <1>1, SpecIntakeInv, PTL

===============================================================================
