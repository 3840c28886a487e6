---------------------------- MODULE Delivery_proofs ----------------------------
(***************************************************************************)
(* Proofs about the way from the ranked stories to the message, for any    *)
(* brands, stories, topics, profiles, providers and bounds.  The radar and *)
(* the research are proved about alone; then the invariant of each part is *)
(* kept by the steps of the whole: the radar's while it assigns, the       *)
(* research's until it ends, and the mailer's from there on. That the      *)
(* message is sound follows from an invariant that ties the blocks to what *)
(* was selected and verified.                                              *)
(***************************************************************************)
EXTENDS Delivery, FiniteSetTheorems, TLAPS

(***************************************************************************)
(* The assignment of stories to brands.  The order of the pairs is total   *)
(* and transitive, since names break the ties; taking the first pair that  *)
(* is left therefore keeps everything that was passed over behind what was *)
(* chosen.                                                                 *)
(***************************************************************************)

\* The measures are numbers.
LEMMA ScoresAreNumbers ==
  ASSUME profile \in [Story -> Profiles], NEW b \in Brand, NEW s \in Story
  PROVE  Score(b, s) \in Int /\ Relevance(b, s) \in Int
<1>1. /\ profile[s].appeal \in Int
      /\ profile[s].previous \in Int
      /\ profile[s].words[b] \in Int
      /\ profile[s].share[b] \in Int
  <2>1. profile[s] \in [appeal : 0 .. 100, previous : {NoScore} \cup 0 .. 100,
                        words : [Brand -> Nat], share : [Brand -> 0 .. 100]]
    BY RadarAssumption
  <2>2. /\ profile[s].appeal \in 0 .. 100 /\ profile[s].previous \in {NoScore} \cup 0 .. 100
        /\ profile[s].words \in [Brand -> Nat] /\ profile[s].share \in [Brand -> 0 .. 100]
    BY <2>1
  <2>3. profile[s].words[b] \in Nat /\ profile[s].share[b] \in 0 .. 100
    BY <2>2
  <2>4. QED
    BY <2>2, <2>3 DEF NoScore
<1>2. Wording(b, s) \in Int /\ Provenance(b, s) \in Int
  BY <1>1 DEF Wording, Provenance, Least
<1>3. Relevance(b, s) \in Int
  BY <1>2 DEF Relevance, Most
<1>4. Velocity(b, s) \in Int
  BY <1>1, <1>3 DEF Velocity, Most, Least
<1>5. QED
  BY <1>1, <1>3, <1>4 DEF Score

\* Of two different pairs one comes before the other.
LEMMA BeforeIsTotal ==
  ASSUME profile \in [Story -> Profiles], NEW p \in Pair, NEW q \in Pair, p # q
  PROVE  Before(p, q) \/ Before(q, p)
<1>1. /\ p = <<p[1], p[2]>> /\ p[1] \in Brand /\ p[2] \in Story
      /\ q = <<q[1], q[2]>> /\ q[1] \in Brand /\ q[2] \in Story
  BY DEF Pair
<1>2. /\ Score(p[1], p[2]) \in Int /\ Relevance(p[1], p[2]) \in Int
      /\ Score(q[1], q[2]) \in Int /\ Relevance(q[1], q[2]) \in Int
  BY <1>1, ScoresAreNumbers
<1>3. /\ BrandKey[p[1]] \in Int /\ BrandKey[q[1]] \in Int
      /\ StoryId[p[2]] \in Int /\ StoryId[q[2]] \in Int
  BY <1>1, RadarAssumption
<1>4. BrandKey[p[1]] # BrandKey[q[1]] \/ StoryId[p[2]] # StoryId[q[2]]
  BY <1>1, RadarAssumption
<1>5. QED
  BY <1>2, <1>3, <1>4 DEF Before

\* What comes before something that comes before a pair comes before it.
LEMMA BeforeIsTransitive ==
  ASSUME profile \in [Story -> Profiles],
         NEW p \in Pair, NEW q \in Pair, NEW r \in Pair, Before(p, q), Before(q, r)
  PROVE  Before(p, r)
<1>1. /\ p[1] \in Brand /\ p[2] \in Story /\ q[1] \in Brand /\ q[2] \in Story
      /\ r[1] \in Brand /\ r[2] \in Story
  BY DEF Pair
<1>2. /\ Score(p[1], p[2]) \in Int /\ Relevance(p[1], p[2]) \in Int
      /\ Score(q[1], q[2]) \in Int /\ Relevance(q[1], q[2]) \in Int
      /\ Score(r[1], r[2]) \in Int /\ Relevance(r[1], r[2]) \in Int
  BY <1>1, ScoresAreNumbers
<1>3. /\ BrandKey[p[1]] \in Int /\ BrandKey[q[1]] \in Int /\ BrandKey[r[1]] \in Int
      /\ StoryId[p[2]] \in Int /\ StoryId[q[2]] \in Int /\ StoryId[r[2]] \in Int
  BY <1>1, RadarAssumption
<1>4. QED
  BY <1>2, <1>3 DEF Before

\* No pair comes before one that comes before it.
LEMMA BeforeIsAsymmetric ==
  ASSUME profile \in [Story -> Profiles], NEW p \in Pair, NEW q \in Pair, Before(p, q)
  PROVE  ~Before(q, p)
<1>1. p[1] \in Brand /\ p[2] \in Story /\ q[1] \in Brand /\ q[2] \in Story
  BY DEF Pair
<1>2. /\ Score(p[1], p[2]) \in Int /\ Relevance(p[1], p[2]) \in Int
      /\ Score(q[1], q[2]) \in Int /\ Relevance(q[1], q[2]) \in Int
  BY <1>1, ScoresAreNumbers
<1>3. /\ BrandKey[p[1]] \in Int /\ BrandKey[q[1]] \in Int
      /\ StoryId[p[2]] \in Int /\ StoryId[q[2]] \in Int
  BY <1>1, RadarAssumption
<1>4. QED
  BY <1>2, <1>3 DEF Before

\* The sort key has no ties: whatever the order of clusters and brands, the pairs are gone
\* through in one way only, so that a run with the same stories selects the same ones
\* (brand_ranker.py:164-165).
THEOREM OrderIsStrictAndTotal ==
  ASSUME profile \in [Story -> Profiles]
  PROVE  /\ \A p, q \in Pair : p # q => (Before(p, q) <=> ~Before(q, p))
         /\ \A p, q, r \in Pair : Before(p, q) /\ Before(q, r) => Before(p, r)
<1>1. \A p, q \in Pair : p # q => (Before(p, q) <=> ~Before(q, p))
  BY BeforeIsTotal, BeforeIsAsymmetric
<1>2. \A p, q, r \in Pair : Before(p, q) /\ Before(q, r) => Before(p, r)
  BY BeforeIsTransitive
<1>3. QED
  BY <1>1, <1>2

\* Before the first pair is taken nothing has been passed over.
LEMMA RadarBegins ==
  ASSUME RadarInit
  PROVE  RadarInv
<1>1. /\ profile \in [Story -> Profiles]
      /\ rest = Plausible
      /\ chosen = [b \in Brand |-> <<>>]
  BY DEF RadarInit
<1>2. \A b \in Brand : chosen[b] = <<>> /\ Len(chosen[b]) = 0
  BY <1>1
<1>3. RadarTypeOK
  BY <1>1 DEF RadarTypeOK
<1>4. StoriesUsedOnce /\ BlocksAreSorted
  BY <1>2, RadarAssumption DEF StoriesUsedOnce, BlocksAreSorted
<1>5. Plausible \ rest = {}
  BY <1>1
<1>6. NoBlockingPair
  BY <1>5 DEF NoBlockingPair
<1>7. QED
  BY <1>3, <1>4, <1>5, <1>6 DEF RadarInv

\* The order and the plausible pairs depend on the profiles alone.
LEMMA SameProfileSameOrder ==
  ASSUME UNCHANGED profile
  PROVE  /\ \A p, q : Before(p, q)' <=> Before(p, q)
         /\ Plausible' = Plausible
<1>1. \A b, s : Relevance(b, s)' = Relevance(b, s)
  BY DEF Relevance, Wording, Provenance
<1>2. \A b, s : Score(b, s)' = Score(b, s)
  BY <1>1 DEF Score, Velocity
<1>3. QED
  BY <1>1, <1>2 DEF Before, Plausible, Pair

\* The first pair is taken, or passed over because its story is claimed or its brand full.
LEMMA TakeKeepsRadarInv ==
  ASSUME RadarInv, Take
  PROVE  RadarInv'
<1> USE DEF RadarInv
<1>1. PICK p \in rest :
        /\ \A q \in rest \ {p} : Before(p, q)
        /\ rest' = rest \ {p}
        /\ chosen' = IF Claimed(p[2]) \/ Len(chosen[p[1]]) >= PerBrand THEN chosen
                     ELSE [chosen EXCEPT ![p[1]] = Append(@, p[2])]
        /\ UNCHANGED profile
  BY DEF Take
<1> DEFINE b == p[1]
           s == p[2]
<1>2. /\ p \in Plausible /\ p \in Pair /\ p = <<b, s>> /\ b \in Brand /\ s \in Story
      /\ profile \in [Story -> Profiles] /\ chosen \in [Brand -> Seq(Story)]
      /\ rest \subseteq Plausible /\ Plausible \subseteq Pair
  BY <1>1 DEF RadarTypeOK, Plausible, Pair
<1>3. (\A q, r : Before(q, r)' <=> Before(q, r)) /\ Plausible' = Plausible
  BY <1>1, SameProfileSameOrder
<1>4. \A q \in (Plausible \ rest)', r \in rest' : Before(q, r)
  BY <1>1, <1>2, <1>3
<1>5. CASE Claimed(s) \/ Len(chosen[b]) >= PerBrand
  <2>1. chosen' = chosen
    BY <1>1, <1>5
  <2>2. RadarTypeOK' /\ StoriesUsedOnce' /\ BlocksAreSorted'
    BY <1>1, <1>2, <1>3, <2>1 DEF RadarTypeOK, StoriesUsedOnce, BlocksAreSorted
  <2>3. Blocked(p)
    <3>1. CASE Claimed(s)
      <4>1. PICK c \in Brand : Has(c, s)
        BY <3>1 DEF Claimed
      <4>2. <<c, s>> \in Plausible \ rest
        BY <4>1 DEF StoriesUsedOnce, Has
      <4>3. Before(<<c, s>>, p)
        BY <1>1, <4>2
      <4>4. QED
        BY <1>2, <4>1, <4>3 DEF Blocked
    <3>2. CASE Len(chosen[b]) >= PerBrand
      <4>1. Len(chosen[b]) \in Nat /\ Len(chosen[b]) <= PerBrand
        BY <1>2 DEF StoriesUsedOnce
      <4>2. Len(chosen[b]) = PerBrand
        BY <3>2, <4>1, RadarAssumption
      <4>3. \A i \in 1 .. PerBrand : <<b, chosen[b][i]>> \in Plausible \ rest
        BY <1>2, <4>2 DEF StoriesUsedOnce
      <4>4. \A i \in 1 .. PerBrand : Before(<<b, chosen[b][i]>>, p)
        BY <1>1, <4>3
      <4>5. QED
        BY <4>2, <4>4 DEF Blocked
    <3>3. QED
      BY <1>5, <3>1, <3>2
  <2>4. \A q \in Plausible \ rest' : Blocked(q)
    BY <1>1, <2>3 DEF NoBlockingPair
  <2>5. \A q : Blocked(q)' <=> Blocked(q)
    BY <1>3, <2>1 DEF Blocked, Has
  <2>6. NoBlockingPair'
    BY <1>3, <2>4, <2>5 DEF NoBlockingPair
  <2>7. QED
    BY <1>3, <1>4, <2>2, <2>6
<1>6. CASE ~Claimed(s) /\ Len(chosen[b]) < PerBrand
  <2> DEFINE n == Len(chosen[b]) + 1
  <2>1. chosen' = [chosen EXCEPT ![b] = Append(chosen[b], s)]
    BY <1>1, <1>2, <1>6, RadarAssumption
  <2>2. /\ chosen' \in [Brand -> Seq(Story)]
        /\ chosen[b] \in Seq(Story) /\ Len(chosen[b]) \in Nat /\ n \in Nat
        /\ Len(chosen'[b]) = n /\ chosen'[b][n] = s
        /\ \A i \in 1 .. Len(chosen[b]) : chosen'[b][i] = chosen[b][i]
        /\ \A c \in Brand \ {b} : chosen'[c] = chosen[c]
    BY <1>2, <2>1
  <2> HIDE DEF n
  <2>3. \A i \in 1 .. n : i \in 1 .. Len(chosen[b]) \/ i = n
    BY <2>2 DEF n
  <2>4. RadarTypeOK'
    BY <1>1, <1>2, <1>3, <2>2 DEF RadarTypeOK
  <2>5. \A c \in Brand : \A i \in 1 .. Len(chosen'[c]) :
           \/ i \in 1 .. Len(chosen[c]) /\ chosen'[c][i] = chosen[c][i]
           \/ c = b /\ i = n /\ chosen'[c][i] = s
    BY <2>2, <2>3
  <2>6. \A c \in Brand : \A i \in 1 .. Len(chosen[c]) :
           chosen[c][i] # s /\ <<c, chosen[c][i]>> \in Plausible \ rest
    BY <1>6 DEF Claimed, Has, StoriesUsedOnce
  <2>7. StoriesUsedOnce'
    <3>1. \A c \in Brand : Len(chosen'[c]) <= PerBrand
      <4>1. Len(chosen'[b]) <= PerBrand
        BY <1>6, <2>2, RadarAssumption DEF n
      <4>2. \A c \in Brand \ {b} : Len(chosen'[c]) <= PerBrand
        BY <2>2 DEF StoriesUsedOnce
      <4>3. QED
        BY <4>1, <4>2
    <3>2. p \in Plausible \ rest'
      BY <1>1, <1>2
    <3>3. \A c \in Brand : \A i \in 1 .. Len(chosen'[c]) :
             <<c, chosen'[c][i]>> \in Plausible \ rest'
      <4>1. Plausible \ rest \subseteq Plausible \ rest'
        BY <1>1
      <4>2. <<b, s>> \in Plausible \ rest'
        BY <1>2, <3>2
      <4>3. SUFFICES ASSUME NEW c \in Brand, NEW i \in 1 .. Len(chosen'[c])
                     PROVE  <<c, chosen'[c][i]>> \in Plausible \ rest'
        OBVIOUS
      <4>4. CASE i \in 1 .. Len(chosen[c]) /\ chosen'[c][i] = chosen[c][i]
        BY <2>6, <4>1, <4>4
      <4>5. CASE c = b /\ i = n /\ chosen'[c][i] = s
        BY <4>2, <4>5
      <4>6. QED
        BY <2>5, <4>4, <4>5
    <3>4. ASSUME NEW c \in Brand, NEW d \in Brand,
                 NEW i \in 1 .. Len(chosen'[c]), NEW j \in 1 .. Len(chosen'[d]),
                 chosen'[c][i] = chosen'[d][j]
          PROVE  c = d /\ i = j
      <4>1. CASE i \in 1 .. Len(chosen[c]) /\ chosen'[c][i] = chosen[c][i]
        <5>1. chosen[c][i] # s
          BY <2>6, <4>1
        <5>2. j \in 1 .. Len(chosen[d]) /\ chosen'[d][j] = chosen[d][j]
          BY <2>5, <3>4, <4>1, <5>1
        <5>3. chosen[c][i] = chosen[d][j]
          BY <3>4, <4>1, <5>2
        <5>4. \A e, f \in Brand : \A k \in 1 .. Len(chosen[e]), l \in 1 .. Len(chosen[f]) :
                 chosen[e][k] = chosen[f][l] => (e = f /\ k = l)
          BY DEF StoriesUsedOnce
        <5>5. QED
          BY <4>1, <5>2, <5>3, <5>4
      <4>2. CASE c = b /\ i = n /\ chosen'[c][i] = s
        BY <2>5, <2>6, <3>4, <4>2
      <4>3. QED
        BY <2>5, <4>1, <4>2
    <3>5. QED
      BY <1>3, <3>1, <3>3, <3>4 DEF StoriesUsedOnce
  <2>8. BlocksAreSorted'
    <3>1. ASSUME NEW c \in Brand, NEW i \in 1 .. Len(chosen'[c]),
                 NEW j \in 1 .. Len(chosen'[c]), i < j
          PROVE  Before(<<c, chosen'[c][i]>>, <<c, chosen'[c][j]>>)
      <4>1. CASE j \in 1 .. Len(chosen[c]) /\ chosen'[c][j] = chosen[c][j]
        <5>1. i \in 1 .. Len(chosen[c]) /\ i \in Int
          BY <2>2, <3>1, <4>1
        <5>2. chosen'[c][i] = chosen[c][i]
          BY <2>2, <5>1
        <5>3. QED
          BY <3>1, <4>1, <5>1, <5>2 DEF BlocksAreSorted
      <4>2. CASE c = b /\ j = n /\ chosen'[c][j] = s
        <5>1. i \in 1 .. Len(chosen[b]) /\ chosen'[c][i] = chosen[b][i]
          BY <2>2, <2>5, <3>1, <4>2
        <5>2. <<b, chosen[b][i]>> \in Plausible \ rest
          BY <1>2, <2>6, <5>1
        <5>3. Before(<<b, chosen[b][i]>>, p)
          BY <1>1, <5>2
        <5>4. QED
          BY <1>2, <4>2, <5>1, <5>3
      <4>3. QED
        BY <2>5, <4>1, <4>2
    <3>2. QED
      BY <1>3, <3>1 DEF BlocksAreSorted
  <2>9. NoBlockingPair'
    <3>1. \A c \in Brand : \A t : Has(c, t) => Has(c, t)'
      <4>1. \A t : Has(b, t) => Has(b, t)'
        BY <2>2 DEF Has, n
      <4>2. \A c \in Brand \ {b} : \A t : Has(c, t) => Has(c, t)'
        BY <2>2 DEF Has
      <4>3. QED
        BY <4>1, <4>2
    <3>2. Has(b, s)'
      BY <2>2 DEF Has, n
    <3>3. ASSUME NEW q \in Plausible \ rest PROVE Blocked(q)'
      <4>1. q[1] \in Brand /\ Blocked(q)
        BY <1>2 DEF NoBlockingPair, Pair
      <4>2. CASE Has(q[1], q[2])
        BY <3>1, <4>1, <4>2 DEF Blocked
      <4>3. CASE \E c \in Brand : Has(c, q[2]) /\ Before(<<c, q[2]>>, q)
        BY <1>3, <3>1, <4>3 DEF Blocked
      <4>4. CASE /\ Len(chosen[q[1]]) = PerBrand
                 /\ \A i \in 1 .. PerBrand : Before(<<q[1], chosen[q[1]][i]>>, q)
        <5>1. q[1] # b
          BY <1>6, <2>2, <4>4, RadarAssumption
        <5>2. chosen'[q[1]] = chosen[q[1]]
          BY <2>2, <4>1, <5>1
        <5>3. QED
          BY <1>3, <4>4, <5>2 DEF Blocked
      <4>5. QED
        BY <4>1, <4>2, <4>3, <4>4 DEF Blocked
    <3>4. Blocked(p)'
      BY <3>2 DEF Blocked
    <3>5. QED
      BY <1>1, <1>3, <3>3, <3>4 DEF NoBlockingPair
  <2>10. QED
    BY <1>3, <1>4, <2>4, <2>7, <2>8, <2>9
<1>7. Len(chosen[b]) \in Nat
  BY <1>2
<1>8. QED
  BY <1>5, <1>6, <1>7, RadarAssumption

\* What changes nothing the assignment knows keeps its invariant.
LEMMA RadarStutters ==
  ASSUME RadarInv, UNCHANGED radarVars
  PROVE  RadarInv'
<1>1. (\A p, q : Before(p, q)' <=> Before(p, q)) /\ Plausible' = Plausible
  BY SameProfileSameOrder DEF radarVars
<1>2. /\ RadarTypeOK' /\ StoriesUsedOnce' /\ BlocksAreSorted'
      /\ \A p \in (Plausible \ rest)', q \in rest' : Before(p, q)'
  BY <1>1 DEF radarVars, RadarInv, RadarTypeOK, StoriesUsedOnce, BlocksAreSorted
<1>3. \A p : Blocked(p)' <=> Blocked(p)
  BY <1>1 DEF radarVars, Blocked, Has
<1>4. NoBlockingPair'
  BY <1>1, <1>3 DEF radarVars, RadarInv, NoBlockingPair
<1>5. QED
  BY <1>2, <1>4 DEF RadarInv

\* The assignment alone, for any brands, stories and profiles: no story is used twice, no
\* brand is overfull, and nobody that was passed over would have fitted better
\* (brand_ranker.py:139-179).
THEOREM RadarInvariant == RadarSpec => []RadarInv
<1>1. RadarInv /\ [Take]_radarVars => RadarInv'
  BY TakeKeepsRadarInv, RadarStutters
<1>2. QED
  BY <1>1, RadarBegins, PTL DEF RadarSpec

(***************************************************************************)
(* The research of the topics.  Only the topic that takes or returns a     *)
(* slot changes the number of those that have one, so none is ever lost;   *)
(* and while the brands are worked on the topics of the Global Pulse have  *)
(* come to their end, so that what was verified stays so.                  *)
(***************************************************************************)

Jobs == {"none", "waiting", "asking"} \cup Ended
Asking(f) == {t \in Topic : f[t] = "asking"}

\* The topics that have a slot are finitely many.
LEMMA AskingIsFinite ==
  ASSUME NEW f
  PROVE  IsFiniteSet(Asking(f)) /\ Cardinality(Asking(f)) \in Nat
<1>1. Asking(f) \subseteq Topic
  BY DEF Asking
<1>2. IsFiniteSet(Asking(f))
  BY <1>1, ResearchAssumption, FS_Subset
<1>3. QED
  BY <1>2, FS_CardinalityType

\* A topic that gets a slot makes them one more.
LEMMA OneMoreAsks ==
  ASSUME NEW f \in [Topic -> Jobs], NEW t \in Topic, f[t] # "asking"
  PROVE  Cardinality(Asking([f EXCEPT ![t] = "asking"])) = Cardinality(Asking(f)) + 1
<1>1. Asking([f EXCEPT ![t] = "asking"]) = Asking(f) \cup {t} /\ t \notin Asking(f)
  BY DEF Asking
<1>2. QED
  BY <1>1, AskingIsFinite, FS_AddElement

\* A topic that returns its slot makes them one less.
LEMMA OneLessAsks ==
  ASSUME NEW f \in [Topic -> Jobs], NEW t \in Topic, NEW how \in Ended, f[t] = "asking"
  PROVE  Cardinality(Asking(f)) = Cardinality(Asking([f EXCEPT ![t] = how])) + 1
<1> DEFINE g == [f EXCEPT ![t] = how]
<1>1. Asking(g) = Asking(f) \ {t} /\ t \in Asking(f)
  BY DEF Asking, Ended
<1> HIDE DEF g
<1>2. IsFiniteSet(Asking(f)) /\ Cardinality(Asking(f)) \in Nat
  BY AskingIsFinite
<1>3. Cardinality(Asking(f) \ {t}) = Cardinality(Asking(f)) - 1
  BY <1>1, <1>2, FS_RemoveElement
<1>4. Cardinality(Asking(f)) = Cardinality(Asking(g)) + 1
  BY <1>1, <1>2, <1>3
<1>5. QED
  BY <1>4 DEF g

\* Nobody asks, nobody has a slot.
LEMMA NobodyAsks ==
  ASSUME NEW f, \A t \in Topic : f[t] # "asking"
  PROVE  Cardinality(Asking(f)) = 0
<1>1. Asking(f) = {}
  BY DEF Asking
<1>2. QED
  BY <1>1, FS_EmptySet

\* Before anything is selected no topic has a job.
LEMMA ResearchBegins ==
  ASSUME ResearchInit
  PROVE  ResearchInv
<1>1. Cardinality(Asking(job)) = 0
  BY NobodyAsks DEF ResearchInit, NoJobs
<1>2. SlotsConserved
  BY <1>1, ResearchAssumption DEF ResearchInit, SlotsConserved, Asking
<1>3. ResearchTypeOK
  BY ResearchAssumption DEF ResearchInit, ResearchTypeOK, NoJobs, Zero
<1>4. JobsAreSelected /\ NoStragglers /\ ResultIsVerified /\ RefusedForAReason
  BY DEF ResearchInit, NoJobs, JobsAreSelected, NoStragglers, ResultIsVerified,
         RefusedForAReason, Final
<1>5. QED
  BY <1>2, <1>3, <1>4 DEF ResearchInit, ResearchInv, NoJobs

\* The selection of both sections gives the topics of the Global Pulse their jobs.
LEMMA StartKeepsResearchInv ==
  ASSUME ResearchInv, NEW G \in SUBSET Topic, NEW B \in SUBSET Topic, G \cap B = {},
         StartResearch(G, B)
  PROVE  ResearchInv'
<1> USE DEF ResearchInv, StartResearch, Gather
<1>1. \A t \in Topic : job[t] = "none"
  BY DEF JobsAreSelected
<1>2. /\ job' \in [Topic -> {"none", "waiting"}]
      /\ \A t \in Topic : job'[t] # "none" => t \in G
  BY <1>1
<1>3. Cardinality(Asking(job)) = 0 /\ Cardinality(Asking(job')) = 0
  BY <1>1, <1>2, NobodyAsks
<1>4. SlotsConserved'
  BY <1>3 DEF SlotsConserved, Asking
<1>5. ResearchTypeOK'
  BY <1>2 DEF ResearchTypeOK
<1>6. JobsAreSelected' /\ NoStragglers' /\ ResultIsVerified' /\ RefusedForAReason'
  BY <1>2 DEF JobsAreSelected, NoStragglers, ResultIsVerified, RefusedForAReason, Final
<1>7. QED
  BY <1>2, <1>4, <1>5, <1>6

\* Whoever asks or waits does so while the section it was selected for is worked on, and
\* after the topics of the Global Pulse are through only for the brands.
LEMMA WhoHasAJob ==
  ASSUME ResearchInv, NEW t \in Topic, job[t] \in {"waiting", "asking"}
  PROVE  \/ stage = "globals" /\ t \in globals
         \/ stage = "brands" /\ t \in entries /\ t \notin globals
<1>1. stage \in {"globals", "brands"}
  BY DEF ResearchInv, ResearchTypeOK, NoStragglers, JobsAreSelected, Final
<1>2. CASE stage = "globals"
  BY <1>2 DEF ResearchInv, JobsAreSelected
<1>3. CASE stage = "brands"
  BY <1>3 DEF ResearchInv, JobsAreSelected, NoStragglers, Done, Ended
<1>4. QED
  BY <1>1, <1>2, <1>3

\* A step of one topic that keeps it among those with a job, or ends it as it may, leaves
\* what the sections know as it is.
LEMMA OneTopicMoves ==
  ASSUME ResearchInv, NEW t \in Topic, job[t] \in {"waiting", "asking"},
         NEW how \in {"asking"} \cup Ended, how # "void" => t \in Sourced,
         job' = [job EXCEPT ![t] = how],
         UNCHANGED <<stage, globals, entries, verified>>
  PROVE  /\ JobsAreSelected' /\ NoStragglers' /\ ResultIsVerified' /\ RefusedForAReason'
         /\ \A u \in Topic : job'[u] \in {"asking", "valid"} => u \in Sourced
<1> USE DEF ResearchInv
<1>1. /\ job \in [Topic -> Jobs] /\ globals \subseteq Topic /\ entries \subseteq Topic
      /\ \A u \in Topic : job'[u] = IF u = t THEN how ELSE job[u]
  BY DEF ResearchTypeOK, Jobs
<1>2. \/ stage = "globals" /\ t \in globals
      \/ stage = "brands" /\ t \in entries /\ t \notin globals
  BY WhoHasAJob
<1>3. JobsAreSelected'
  BY <1>1, <1>2 DEF JobsAreSelected
<1>4. stage = "brands" => Done(globals)' /\ Valid(globals)' = Valid(globals)
  BY <1>1, <1>2 DEF NoStragglers, Done, Valid
<1>5. NoStragglers' /\ ResultIsVerified' /\ RefusedForAReason'
  BY <1>2, <1>4 DEF NoStragglers, ResultIsVerified, RefusedForAReason, Final
<1>6. QED
  BY <1>1, <1>3, <1>5

\* What one topic does keeps the books of all.
LEMMA AskStepKeepsResearchInv ==
  ASSUME ResearchInv, NEW t \in Topic,
         TakeSlot(t) \/ CallAgain(t) \/ RoundAgain(t) \/ GiveUp(t) \/ Verify(t)
  PROVE  ResearchInv'
<1> USE DEF ResearchInv
<1>1. /\ job \in [Topic -> Jobs] /\ free \in 0 .. Slots /\ Slots \in Nat /\ Attempts \in Nat \ {0}
      /\ Rounds \in Nat \ {0} /\ call \in [Topic -> 0 .. Attempts] /\ round \in [Topic -> 0 .. Rounds]
  BY ResearchAssumption DEF ResearchTypeOK, Jobs
<1>2. free + Cardinality(Asking(job)) = Slots /\ Cardinality(Asking(job)) \in Nat
  BY AskingIsFinite DEF SlotsConserved, Asking
<1>3. CASE TakeSlot(t) /\ t \in Sourced
  <2>1. /\ job[t] = "waiting" /\ free > 0
        /\ job' = [job EXCEPT ![t] = "asking"] /\ call' = [call EXCEPT ![t] = 1]
        /\ round' = [round EXCEPT ![t] = 1] /\ free' = free - 1
        /\ UNCHANGED <<stage, globals, entries, verified>>
    BY <1>3 DEF TakeSlot
  <2>2. Cardinality(Asking(job')) = Cardinality(Asking(job)) + 1
    BY <1>1, <2>1, OneMoreAsks
  <2>3. SlotsConserved'
    BY <1>1, <1>2, <2>1, <2>2 DEF SlotsConserved, Asking
  <2>4. ResearchTypeOK'
    BY <1>1, <2>1 DEF ResearchTypeOK, Jobs
  <2>5. /\ JobsAreSelected' /\ NoStragglers' /\ ResultIsVerified' /\ RefusedForAReason'
        /\ \A u \in Topic : job'[u] \in {"asking", "valid"} => u \in Sourced
    BY <1>3, <2>1, OneTopicMoves
  <2>6. QED
    BY <2>1, <2>3, <2>4, <2>5
<1>4. CASE TakeSlot(t) /\ t \notin Sourced
  <2>1. /\ job[t] = "waiting"
        /\ job' = [job EXCEPT ![t] = "void"]
        /\ UNCHANGED <<stage, globals, entries, verified, call, round, free>>
    BY <1>4 DEF TakeSlot
  <2>2. Asking(job') = Asking(job)
    BY <1>1, <2>1 DEF Asking
  <2>3. SlotsConserved'
    BY <1>2, <2>1, <2>2 DEF SlotsConserved, Asking
  <2>4. ResearchTypeOK'
    BY <2>1 DEF ResearchTypeOK, Ended
  <2>5. /\ JobsAreSelected' /\ NoStragglers' /\ ResultIsVerified' /\ RefusedForAReason'
        /\ \A u \in Topic : job'[u] \in {"asking", "valid"} => u \in Sourced
    BY <2>1, OneTopicMoves DEF Ended
  <2>6. QED
    BY <2>1, <2>3, <2>4, <2>5
<1>5. CASE CallAgain(t) \/ RoundAgain(t)
  <2>1. UNCHANGED <<stage, globals, entries, job, free, verified>>
    BY <1>5 DEF CallAgain, RoundAgain
  <2>2. ResearchTypeOK'
    BY <1>1, <1>5 DEF ResearchTypeOK, CallAgain, RoundAgain
  <2>3. QED
    BY <2>1, <2>2 DEF SlotsConserved, JobsAreSelected, NoStragglers, Done, ResultIsVerified,
                      Valid, RefusedForAReason
<1>6. ASSUME NEW how \in Ended, how # "void" => t \in Sourced, job[t] = "asking",
             End(t, how), free' = free + 1, UNCHANGED <<stage, globals, entries, verified>>
      PROVE  ResearchInv'
  <2>1. /\ job' = [job EXCEPT ![t] = how] /\ call' = [call EXCEPT ![t] = 0]
        /\ round' = [round EXCEPT ![t] = 0]
    BY <1>6 DEF End
  <2>2. Cardinality(Asking(job)) = Cardinality(Asking(job')) + 1 /\ Cardinality(Asking(job')) \in Nat
    BY <1>1, <1>6, <2>1, OneLessAsks, AskingIsFinite
  <2>3. SlotsConserved' /\ free' \in 0 .. Slots
    BY <1>1, <1>2, <1>6, <2>2 DEF SlotsConserved, Asking
  <2>4. ResearchTypeOK'
    BY <1>1, <1>6, <2>1, <2>3 DEF ResearchTypeOK
  <2>5. /\ JobsAreSelected' /\ NoStragglers' /\ ResultIsVerified' /\ RefusedForAReason'
        /\ \A u \in Topic : job'[u] \in {"asking", "valid"} => u \in Sourced
    BY <1>6, <2>1, OneTopicMoves
  <2>6. QED
    BY <1>6, <2>3, <2>4, <2>5
<1>7. CASE GiveUp(t)
  BY <1>6, <1>7 DEF GiveUp, Ended
<1>8. CASE Verify(t)
  BY <1>6, <1>8 DEF Verify, Ended
<1>9. QED
  BY <1>3, <1>4, <1>5, <1>7, <1>8

\* Whatever ends the research at once leaves nothing behind.
LEMMA AbortKeepsResearchInv ==
  ASSUME ResearchInv, NEW end \in {"error", "cut"}, Abort(end)
  PROVE  ResearchInv'
<1> USE DEF Abort
<1>1. Cardinality(Asking(job')) = 0
  BY NobodyAsks DEF NoJobs
<1>2. SlotsConserved'
  BY <1>1, ResearchAssumption DEF SlotsConserved, Asking
<1>3. ResearchTypeOK'
  BY ResearchAssumption DEF ResearchInv, ResearchTypeOK, NoJobs, Zero, Final
<1>4. JobsAreSelected' /\ NoStragglers' /\ ResultIsVerified' /\ RefusedForAReason'
  BY DEF NoJobs, JobsAreSelected, NoStragglers, ResultIsVerified, RefusedForAReason
<1>5. QED
  BY <1>2, <1>3, <1>4 DEF ResearchInv, NoJobs

\* The turns from one section to the next, the spark and the minimum.
LEMMA TurnKeepsResearchInv ==
  ASSUME ResearchInv, GlobalsReturn \/ GlobalsFail \/ BrandsReturn \/ Spark \/ Count
  PROVE  ResearchInv'
<1> USE DEF ResearchInv
<1>1. /\ job \in [Topic -> Jobs] /\ globals \subseteq Topic /\ entries \subseteq Topic
  BY DEF ResearchTypeOK, Jobs
<1>2. CASE GlobalsReturn
  <2> USE <1>2 DEF GlobalsReturn, Gather
  <2>1. \A t \in Topic : job[t] \in {"none"} \cup Ended
    BY <1>1 DEF JobsAreSelected, Done
  <2>2. \A t \in Topic : job'[t] = IF t \in entries THEN "waiting" ELSE job[t]
    OBVIOUS
  <2>3. \A t \in Topic : job[t] # "asking" /\ job'[t] # "asking"
    BY <2>1, <2>2 DEF Ended
  <2>4. SlotsConserved'
    BY <2>3, NobodyAsks DEF SlotsConserved, Asking
  <2>5. \A t \in globals : job'[t] = job[t]
    BY <1>1, <2>2
  <2>6. Valid(globals)' = Valid(globals) /\ Done(globals)'
    BY <2>5 DEF Valid, Done
  <2>7. ResearchTypeOK'
    BY <1>1 DEF ResearchTypeOK, Valid, Jobs
  <2>8. JobsAreSelected' /\ NoStragglers' /\ RefusedForAReason'
    BY <2>2, <2>6 DEF JobsAreSelected, NoStragglers, RefusedForAReason, Final
  <2>9. \A t \in Topic : job'[t] \in {"asking", "valid"} => t \in Sourced
    BY <2>2
  <2>10. ResultIsVerified'
    BY <1>1, <2>6 DEF ResultIsVerified, Valid
  <2>11. QED
    BY <2>4, <2>7, <2>8, <2>9, <2>10
<1>3. CASE GlobalsFail
  <2> USE <1>3 DEF GlobalsFail
  <2>1. \A t \in Topic : job[t] \in {"none"} \cup Ended
    BY <1>1 DEF JobsAreSelected, Done
  <2>2. ResearchTypeOK' /\ SlotsConserved'
    BY DEF ResearchTypeOK, SlotsConserved, Final
  <2>3. Done(globals)' /\ Valid(globals)' = Valid(globals)
    BY DEF Done, Valid
  <2>4. \A t \in Topic : job'[t] \notin {"waiting", "asking"}
    BY <2>1 DEF Ended
  <2>5. JobsAreSelected' /\ NoStragglers'
    BY <2>3, <2>4 DEF JobsAreSelected, NoStragglers
  <2>6. ResultIsVerified' /\ RefusedForAReason'
    BY <2>3 DEF ResultIsVerified, RefusedForAReason
  <2>7. QED
    BY <2>2, <2>5, <2>6
<1>4. CASE BrandsReturn
  <2> USE <1>4 DEF BrandsReturn
  <2>1. \A t \in Topic : job[t] \in {"none"} \cup Ended
    BY <1>1 DEF JobsAreSelected, NoStragglers, Done
  <2>2. ResearchTypeOK' /\ SlotsConserved'
    BY <1>1 DEF ResearchTypeOK, SlotsConserved, Valid
  <2>3. /\ Done(globals)' /\ Done(entries)'
        /\ Valid(globals)' = Valid(globals) /\ Valid(entries)' = Valid(entries)
    BY DEF Done, Valid, NoStragglers
  <2>4. \A t \in Topic : job'[t] \notin {"waiting", "asking"}
    BY <2>1 DEF Ended
  <2>5. JobsAreSelected' /\ NoStragglers' /\ RefusedForAReason'
    BY <2>3, <2>4 DEF JobsAreSelected, NoStragglers, RefusedForAReason
  <2>6. ResultIsVerified'
    BY <1>1, <2>3 DEF ResultIsVerified, Valid
  <2>7. QED
    BY <2>2, <2>5, <2>6
<1>5. CASE Spark /\ stage' = "minimum"
  <2>1. stage = "spark" /\ UNCHANGED <<globals, entries, job, call, round, free, verified>>
    BY <1>5 DEF Spark, Abort
  <2>2. ResearchTypeOK' /\ SlotsConserved'
    BY <1>5, <2>1 DEF ResearchTypeOK, SlotsConserved
  <2>3. JobsAreSelected' /\ NoStragglers' /\ RefusedForAReason' /\ ResultIsVerified'
    BY <1>5, <2>1 DEF JobsAreSelected, NoStragglers, Done, RefusedForAReason,
                      ResultIsVerified, Valid
  <2>4. QED
    BY <1>5, <2>1, <2>2, <2>3
<1>6. CASE Spark /\ stage' # "minimum"
  BY <1>6, AbortKeepsResearchInv DEF Spark
<1>7. CASE Count
  <2>1. /\ stage = "minimum" /\ UNCHANGED <<globals, entries, job, call, round, free, verified>>
        /\ stage' = IF Cardinality(verified) >= Minimum THEN "briefing" ELSE "refused"
    BY <1>7 DEF Count
  <2>2. ResearchTypeOK' /\ SlotsConserved'
    BY <2>1 DEF ResearchTypeOK, SlotsConserved, Final
  <2>3. JobsAreSelected' /\ NoStragglers'
    BY <2>1 DEF JobsAreSelected, NoStragglers, Done, Final
  <2>4. verified = Valid(globals) \cup Valid(entries)
    BY <2>1 DEF ResultIsVerified
  <2>5. IsFiniteSet(verified) /\ Cardinality(verified) \in Int /\ Minimum \in Int
    BY ResearchAssumption, FS_Subset, FS_CardinalityType DEF ResearchTypeOK
  <2>6. RefusedForAReason' /\ ResultIsVerified'
    BY <2>1, <2>4, <2>5 DEF RefusedForAReason, ResultIsVerified, Valid
  <2>7. QED
    BY <2>1, <2>2, <2>3, <2>6
<1>8. QED
  BY <1>2, <1>3, <1>4, <1>5, <1>6, <1>7

\* Every step of the research.
LEMMA StepKeepsResearchInv ==
  ASSUME ResearchInv, ResearchStep
  PROVE  ResearchInv'
<1>1. ASSUME NEW t \in Topic, AskStep(t) PROVE ResearchInv'
  BY <1>1, AskStepKeepsResearchInv, AbortKeepsResearchInv DEF AskStep, Raise
<1>2. QED
  BY <1>1, TurnKeepsResearchInv DEF ResearchStep

\* What changes nothing the research knows keeps its invariant.
LEMMA ResearchStutters ==
  ASSUME ResearchInv, UNCHANGED researchVars
  PROVE  ResearchInv'
BY DEF researchVars, ResearchInv, ResearchTypeOK, SlotsConserved, JobsAreSelected, NoStragglers,
       Done, ResultIsVerified, Valid, RefusedForAReason

\* The research alone, from its own initial states: every slot that is taken is given back,
\* and the result is what was verified, or nothing once an exception or a cut has ended the
\* research, however many topics there are, however many may be asked about at a time and
\* however often (service.py:60-157).
THEOREM ResearchInvariant == ResearchSpec => []ResearchInv
<1>1. ResearchInv /\ [ResearchNext]_researchVars => ResearchInv'
  BY StartKeepsResearchInv, StepKeepsResearchInv, ResearchStutters DEF ResearchNext
<1>2. QED
  BY <1>1, ResearchBegins, PTL DEF ResearchSpec

(***************************************************************************)
(* The whole.                                                              *)
(***************************************************************************)

-----------------------------------------------------------------------------
\* The mailer alone.

\* A mailer that has not begun is sound.
LEMMA MailBegins ==
  ASSUME MailInit
  PROVE  MailInv
BY MailAssumption DEF MailInit, MailInv, MailTypeOK, CopiesAreAccounted

\* Every step of a sender, whichever provider's, keeps its books.
LEMMA MailStepKeepsMailInv ==
  ASSUME MailInv, StartMail \/ MailStep
  PROVE  MailInv'
<1> USE MailAssumption DEF MailInv, MailTypeOK, CopiesAreAccounted
<1>1. CASE StartMail
  BY <1>1 DEF StartMail
<1>2. CASE SkipMail
  BY <1>2 DEF SkipMail
<1>3. CASE Taken
  BY <1>3 DEF Taken
<1>4. CASE NotTaken
  BY <1>4 DEF NotTaken
<1>5. CASE Confirmed \/ Unconfirmed \/ Unreadable
  BY <1>5 DEF Confirmed, Unconfirmed, Unreadable
<1>6. CASE TryAgain
  BY <1>6 DEF TryAgain
<1>7. CASE GiveUpMail
  BY <1>7 DEF GiveUpMail
<1>8. CASE CancelMail
  BY <1>8 DEF CancelMail
<1>9. CASE ThreadEnds
  BY <1>9 DEF ThreadEnds
<1>10. QED
  BY <1>1, <1>2, <1>3, <1>4, <1>5, <1>6, <1>7, <1>8, <1>9 DEF MailStep

\* Every step of a sender is a step of the abstract one, or changes nothing it promises.
LEMMA MailStepIsSending ==
  ASSUME MailInv, StartMail \/ MailStep
  PROVE  [Abstract!Next]_(Abstract!vars)
<1> USE MailAssumption DEF MailInv, MailTypeOK, CopiesAreAccounted, FailedTries, Abstract!vars
<1>1. CASE StartMail
  BY <1>1 DEF StartMail
<1>2. CASE SkipMail
  <2>1. attempt = 1 => Abstract!Skip
    BY <1>2 DEF SkipMail, Abstract!Skip
  <2>2. QED
    BY <1>2, <2>1 DEF SkipMail, Abstract!Next
<1>3. CASE Taken
  BY <1>3 DEF Taken, Abstract!Next, Abstract!Deliver
<1>4. CASE NotTaken
  BY <1>4 DEF NotTaken, Abstract!Next, Abstract!Reject
<1>5. CASE Confirmed
  BY <1>5 DEF Confirmed, Abstract!Next, Abstract!Accept
<1>6. CASE Unconfirmed
  BY <1>6 DEF Unconfirmed, Abstract!Next, Abstract!Reject
<1>7. CASE Unreadable \/ CancelMail
  BY <1>7 DEF Unreadable, CancelMail, Abstract!Next, Abstract!Raise
<1>8. CASE TryAgain
  BY <1>8 DEF TryAgain
<1>9. CASE GiveUpMail
  BY <1>9 DEF GiveUpMail, Abstract!Next, Abstract!Fail
<1>10. CASE ThreadEnds
  BY <1>10 DEF ThreadEnds, Abstract!Next, Abstract!LateDelivery
<1>11. QED
  BY <1>1, <1>2, <1>3, <1>4, <1>5, <1>6, <1>7, <1>8, <1>9, <1>10 DEF MailStep

LEMMA MailStutters ==
  ASSUME MailInv, UNCHANGED mailVars
  PROVE  MailInv'
BY DEF mailVars, MailInv, MailTypeOK, CopiesAreAccounted

-----------------------------------------------------------------------------
\* The composition.

\* What is selected, verified and put into the message is one and the same.
BlocksInv ==
  /\ blocks.pulse \subseteq Pulse
  /\ blocks.brands \in [Brand -> SUBSET Story]
  /\ Cardinality(blocks.pulse) <= TopN
  /\ \A b \in Brand : Cardinality(blocks.brands[b]) <= PerBrand
  /\ \A b \in Brand : \A c \in Brand \ {b} : blocks.brands[b] \cap blocks.brands[c] = {}
  /\ mail = "off" /\ stage \in {"globals", "brands", "spark", "minimum", "briefing"} =>
       InLetter = globals \cup entries
  /\ mail # "off" => stage = "briefing" /\ InLetter = verified

IInv ==
  /\ MailInv
  /\ ResearchInv
  /\ RadarInv
  /\ BlocksInv

\* The selection of a brand is no longer than its list.
LEMMA BlockSize ==
  ASSUME RadarTypeOK, NEW b \in Brand
  PROVE  /\ IsFiniteSet({s \in Story : Has(b, s)})
         /\ Cardinality({s \in Story : Has(b, s)}) <= Len(chosen[b])
<1> DEFINE T == {s \in Story : Has(b, s)}
           n == Len(chosen[b])
<1>1. chosen[b] \in Seq(Story)
  BY DEF RadarTypeOK
<1>2. n \in Nat /\ chosen[b] \in [1 .. n -> Story]
  BY <1>1
<1>3. chosen[b] \in [1 .. n -> T] /\ \A s \in T : \E i \in 1 .. n : chosen[b][i] = s
  BY <1>2 DEF Has
<1>4. chosen[b] \in Surjection(1 .. n, T)
  BY <1>3 DEF Surjection
<1> HIDE DEF T, n
<1>5. IsFiniteSet(1 .. n) /\ Cardinality(1 .. n) = n
  <2>1. 1 \in Int /\ n \in Int
    BY <1>2
  <2>2. IsFiniteSet(1 .. n) /\ Cardinality(1 .. n) = IF 1 > n THEN 0 ELSE n - 1 + 1
    BY <2>1, FS_Interval
  <2>3. QED
    BY <1>2, <2>2
<1>6. IsFiniteSet(T) /\ Cardinality(T) <= Cardinality(1 .. n)
  BY <1>4, <1>5, FS_Surjection
<1>7. IsFiniteSet(T) /\ Cardinality(T) <= n
  BY <1>5, <1>6
<1>8. QED
  BY <1>7 DEF T, n

\* A story that is about no brand has no pair; so nothing is left of the ranking.
LEMMA ForgetKeepsRadarInv ==
  ASSUME ForgetRanking
  PROVE  RadarInv'
<1>1. /\ profile' = [s \in Story |-> Blank] /\ rest' = {} /\ chosen' = [b \in Brand |-> <<>>]
  BY DEF ForgetRanking
<1>2. \A b \in Brand, s \in Story : Relevance(b, s)' = 0
  BY <1>1 DEF Relevance, Wording, Provenance, Most, Least, Blank
<1>3. Plausible' = {}
  BY <1>2 DEF Plausible, Pair
<1>4. RadarTypeOK'
  BY <1>1, DeliveryAssumption DEF RadarTypeOK
<1>5. \A b \in Brand : Len(chosen[b])' = 0
  BY <1>1
<1>6. StoriesUsedOnce' /\ BlocksAreSorted'
  BY <1>5, RadarAssumption DEF StoriesUsedOnce, BlocksAreSorted
<1>7. QED
  BY <1>1, <1>3, <1>4, <1>6 DEF RadarInv, NoBlockingPair

LEMMA Begins ==
  ASSUME Init
  PROVE  IInv
<1>1. MailInv /\ ResearchInv /\ RadarInv
  BY MailBegins, ResearchBegins, RadarBegins DEF Init
<1>2. Cardinality({}) = 0
  BY FS_EmptySet
<1>3. BlocksInv
  BY <1>2, RadarAssumption, DeliveryAssumption
     DEF Init, BlocksInv, MailInit, ResearchInit
<1>4. QED
  BY <1>1, <1>3 DEF IInv

\* What leaves the stages of the research and the message alone keeps the blocks.
LEMMA BlocksStay ==
  ASSUME BlocksInv, UNCHANGED <<blocks, stage, globals, entries, verified>>,
         mail' = "off" <=> mail = "off"
  PROVE  BlocksInv'
BY DEF BlocksInv, InLetter

LEMMA AssignKeepsIInv ==
  ASSUME IInv, Assign
  PROVE  IInv'
<1>1. MailInv' /\ ResearchInv' /\ RadarInv'
  BY TakeKeepsRadarInv, MailStutters, ResearchStutters DEF IInv, Assign
<1>2. BlocksInv'
  BY BlocksStay DEF IInv, Assign, mailVars, researchVars
<1>3. QED
  BY <1>1, <1>2 DEF IInv

LEMMA SelectKeepsIInv ==
  ASSUME IInv, Select
  PROVE  IInv'
<1> USE DEF IInv
<1> DEFINE B == {s \in Story : Claimed(s)}
<1>1. PICK G \in SUBSET Pulse :
        /\ Best(G) /\ StartResearch(G, B)
        /\ blocks' = [pulse |-> G, brands |-> [b \in Brand |-> {s \in Story : Has(b, s)}]]
  BY DEF Select
<1>2. G \in SUBSET Topic /\ B \in SUBSET Topic /\ G \cap B = {}
  BY DeliveryAssumption
<1>3. MailInv' /\ ResearchInv' /\ RadarInv'
  BY <1>1, <1>2, StartKeepsResearchInv, ForgetKeepsRadarInv, MailStutters DEF Select
<1>4. Cardinality(G) <= TopN
  <2>1. IsFiniteSet(Pulse) /\ Cardinality(Pulse) \in Nat
    BY ResearchAssumption, DeliveryAssumption, FS_Subset, FS_CardinalityType
  <2>2. QED
    BY <1>1, <2>1, DeliveryAssumption DEF Best, Least
<1>5. RadarTypeOK /\ StoriesUsedOnce
  BY DEF RadarInv
<1>6. ASSUME NEW b \in Brand PROVE Cardinality(blocks'.brands[b]) <= PerBrand
  <2>1. /\ IsFiniteSet({s \in Story : Has(b, s)})
        /\ Cardinality({s \in Story : Has(b, s)}) <= Len(chosen[b])
    BY <1>5, BlockSize
  <2>2. /\ Cardinality({s \in Story : Has(b, s)}) \in Nat /\ Len(chosen[b]) \in Nat
        /\ Len(chosen[b]) <= PerBrand
    BY <1>5, <2>1, FS_CardinalityType DEF RadarTypeOK, StoriesUsedOnce
  <2>3. blocks'.brands[b] = {s \in Story : Has(b, s)}
    BY <1>1
  <2>4. Cardinality({s \in Story : Has(b, s)}) <= PerBrand
    BY <2>1, <2>2, RadarAssumption
  <2>5. QED
    BY <2>3, <2>4
<1>7. ASSUME NEW b \in Brand, NEW c \in Brand \ {b}, NEW s, Has(b, s), Has(c, s) PROVE FALSE
  <2>1. PICK i \in 1 .. Len(chosen[b]) : chosen[b][i] = s
    BY <1>7 DEF Has
  <2>2. PICK j \in 1 .. Len(chosen[c]) : chosen[c][j] = s
    BY <1>7 DEF Has
  <2>3. \A d, e \in Brand : \A k \in 1 .. Len(chosen[d]), l \in 1 .. Len(chosen[e]) :
           chosen[d][k] = chosen[e][l] => (d = e /\ k = l)
    BY <1>5 DEF StoriesUsedOnce
  <2>4. QED
    BY <2>1, <2>2, <2>3
<1>8. \A b \in Brand : \A c \in Brand \ {b} : blocks'.brands[b] \cap blocks'.brands[c] = {}
  BY <1>1, <1>7
<1>9. InLetter' = G \cup B
  BY <1>1 DEF InLetter, Claimed
<1>10. stage = "idle" /\ stage' = "globals" /\ globals' = G /\ entries' = B /\ mail' = mail
  BY <1>1 DEF Select, StartResearch, mailVars
<1>11. mail = "off"
  BY <1>10 DEF BlocksInv
<1>12. blocks'.pulse = G /\ blocks'.brands \in [Brand -> SUBSET Story]
  BY <1>1
<1>13. BlocksInv'
  BY <1>4, <1>6, <1>8, <1>9, <1>10, <1>11, <1>12 DEF BlocksInv
<1>14. QED
  BY <1>3, <1>13

\* The research goes on only while there is no message.
LEMMA ResearchBeforeMail ==
  ASSUME ResearchInv, ResearchStep
  PROVE  stage \in {"globals", "brands", "spark", "minimum"}
<1>1. ASSUME NEW t \in Topic, AskStep(t)
      PROVE  stage \in {"globals", "brands"}
  <2>1. job[t] \in {"waiting", "asking"}
    BY <1>1 DEF AskStep, TakeSlot, CallAgain, RoundAgain, GiveUp, Verify, Raise
  <2>2. QED
    BY <2>1, WhoHasAJob
<1>2. QED
  BY <1>1 DEF ResearchStep, GlobalsReturn, GlobalsFail, BrandsReturn, Spark, Count

\* While it goes on the selections stay, unless it is aborted.
LEMMA SelectionsStay ==
  ASSUME ResearchStep
  PROVE  stage' = "error" \/ UNCHANGED <<globals, entries>>
BY DEF ResearchStep, AskStep, TakeSlot, CallAgain, RoundAgain, GiveUp, Verify, Raise, Abort,
       GlobalsReturn, GlobalsFail, BrandsReturn, Spark, Count

LEMMA DoResearchKeepsIInv ==
  ASSUME IInv, DoResearch
  PROVE  IInv'
<1> USE DEF IInv
<1>1. MailInv' /\ ResearchInv' /\ RadarInv'
  <2>1. RadarInv'
    BY RadarStutters DEF DoResearch
  <2>2. QED
    BY <2>1, StepKeepsResearchInv, MailStutters DEF DoResearch
<1>2. stage \in {"globals", "brands", "spark", "minimum"}
  BY ResearchBeforeMail DEF DoResearch
<1>3. mail = "off" /\ mail' = "off" /\ UNCHANGED blocks
  BY <1>2 DEF BlocksInv, DoResearch, mailVars
<1>4. stage' = "error" \/ UNCHANGED <<globals, entries>>
  BY SelectionsStay DEF DoResearch
<1>5. BlocksInv'
  BY <1>2, <1>3, <1>4 DEF BlocksInv, InLetter
<1>6. QED
  BY <1>1, <1>5

LEMMA ComposeKeepsIInv ==
  ASSUME IInv, Compose
  PROVE  IInv'
<1> USE DEF IInv
<1>1. MailInv' /\ ResearchInv' /\ RadarInv'
  BY MailStepKeepsMailInv, ResearchStutters, RadarStutters DEF Compose
<1>2. /\ stage = "briefing" /\ stage' = "briefing" /\ mail = "off" /\ mail' = "attempt"
      /\ verified' = verified
      /\ blocks' = [pulse |-> blocks.pulse \cap verified,
                    brands |-> [b \in Brand |-> blocks.brands[b] \cap verified]]
  BY DEF Compose, StartMail, researchVars
<1>3. verified \subseteq InLetter
  BY <1>2 DEF ResearchInv, ResultIsVerified, Valid, BlocksInv
<1>4. InLetter' = verified'
  BY <1>2, <1>3 DEF InLetter
<1>5. IsFiniteSet(Pulse) /\ IsFiniteSet(Story)
  BY ResearchAssumption, DeliveryAssumption, FS_Subset
<1>6. Cardinality(blocks'.pulse) <= TopN
  <2>1. IsFiniteSet(blocks.pulse) /\ blocks'.pulse \in SUBSET blocks.pulse
    BY <1>2, <1>5, FS_Subset DEF BlocksInv
  <2>2. /\ Cardinality(blocks'.pulse) <= Cardinality(blocks.pulse)
        /\ Cardinality(blocks'.pulse) \in Nat /\ Cardinality(blocks.pulse) \in Nat
    BY <2>1, FS_Subset, FS_CardinalityType
  <2>3. Cardinality(blocks.pulse) <= TopN
    BY DEF BlocksInv
  <2>4. QED
    BY <2>2, <2>3, DeliveryAssumption
<1>7. ASSUME NEW b \in Brand PROVE Cardinality(blocks'.brands[b]) <= PerBrand
  <2>1. IsFiniteSet(blocks.brands[b]) /\ blocks'.brands[b] \in SUBSET blocks.brands[b]
    BY <1>2, <1>5, FS_Subset DEF BlocksInv
  <2>2. /\ Cardinality(blocks'.brands[b]) <= Cardinality(blocks.brands[b])
        /\ Cardinality(blocks'.brands[b]) \in Nat /\ Cardinality(blocks.brands[b]) \in Nat
    BY <2>1, FS_Subset, FS_CardinalityType
  <2>3. Cardinality(blocks.brands[b]) <= PerBrand
    BY DEF BlocksInv
  <2>4. QED
    BY <2>2, <2>3, RadarAssumption
<1>8. /\ blocks'.pulse \subseteq Pulse /\ blocks'.brands \in [Brand -> SUBSET Story]
      /\ \A b \in Brand : \A c \in Brand \ {b} : blocks'.brands[b] \cap blocks'.brands[c] = {}
  BY <1>2 DEF BlocksInv
<1>9. BlocksInv'
  BY <1>2, <1>4, <1>6, <1>7, <1>8 DEF BlocksInv
<1>10. QED
  BY <1>1, <1>9

LEMMA SendKeepsIInv ==
  ASSUME IInv, Send
  PROVE  IInv'
<1> USE DEF IInv
<1>1. MailInv' /\ ResearchInv' /\ RadarInv'
  BY MailStepKeepsMailInv, ResearchStutters, RadarStutters DEF Send
<1>2. mail # "off" /\ mail' # "off"
  <2>1. mail # "off"
    BY DEF Send, MailInv, CopiesAreAccounted, MailStep, SkipMail, Taken, NotTaken, Confirmed,
           Unconfirmed, Unreadable, TryAgain, GiveUpMail, CancelMail, ThreadEnds
  <2>2. QED
    BY <2>1 DEF Send, MailStep, SkipMail, Taken, NotTaken, Confirmed, Unconfirmed, Unreadable,
                TryAgain, GiveUpMail, CancelMail, ThreadEnds
<1>3. BlocksInv'
  BY <1>2, BlocksStay DEF Send, researchVars
<1>4. QED
  BY <1>1, <1>3

LEMMA CutKeepsIInv ==
  ASSUME IInv, Cut
  PROVE  IInv'
<1> USE DEF IInv
<1>1. MailInv' /\ ResearchInv' /\ RadarInv'
  BY AbortKeepsResearchInv, ForgetKeepsRadarInv, MailStutters DEF Cut
<1>2. mail = "off" /\ mail' = "off" /\ stage' = "cut" /\ UNCHANGED blocks
  BY DEF Cut, Abort, Final, BlocksInv, mailVars
<1>3. BlocksInv'
  BY <1>2 DEF BlocksInv
<1>4. QED
  BY <1>1, <1>3

LEMMA StutterKeepsIInv ==
  ASSUME IInv, UNCHANGED vars
  PROVE  IInv'
<1>1. UNCHANGED <<mailVars, researchVars, radarVars, blocks>>
  BY DEF vars
<1>2. MailInv' /\ ResearchInv' /\ RadarInv'
  BY <1>1, MailStutters, ResearchStutters, RadarStutters DEF IInv
<1>3. BlocksInv'
  BY <1>1, BlocksStay DEF IInv, mailVars, researchVars
<1>4. QED
  BY <1>2, <1>3 DEF IInv

\* The invariant of the whole.
LEMMA DeliveryInvariant == Spec => []IInv
<1>1. IInv /\ [Next]_vars => IInv'
  BY AssignKeepsIInv, SelectKeepsIInv, DoResearchKeepsIInv, ComposeKeepsIInv, SendKeepsIInv,
     CutKeepsIInv, StutterKeepsIInv DEF Next
<1>2. QED
  BY <1>1, Begins, PTL DEF Spec

\* The books of the senders are right for any providers and any number of attempts
\* (sender.py:92-124, 338-364).
THEOREM MailIsAccounted == Spec => []MailInv
<1>1. IInv => MailInv
  BY DEF IInv
<1>2. QED
  BY <1>1, DeliveryInvariant, PTL

\* Inside the whole, where its topics come from the ranking and it may be cut off, the
\* research loses no slot of the semaphore, and no verified topic but to an exception or a
\* cut, which leave no result at all (service.py:60-157, client.py:126).
THEOREM ResearchIsAccounted == Spec => []ResearchInv
<1>1. IInv => ResearchInv
  BY DEF IInv
<1>2. QED
  BY <1>1, DeliveryInvariant, PTL

\* A briefing is refused for having too few verified topics, or none of the Global Pulse,
\* and made for having enough (pipeline.py:266-276).
THEOREM RefusalsHaveReasons == Spec => []RefusedForAReason
<1>1. IInv => RefusedForAReason
  BY DEF IInv, ResearchInv
<1>2. QED
  BY <1>1, DeliveryInvariant, PTL

\* At every moment of the assignment no story is used twice, no brand is overfull and every
\* block is in order, for any profiles of any stories (brand_ranker.py:139-179).
THEOREM AssignmentIsSound == Spec => []RadarInv
<1>1. IInv => RadarInv
  BY DEF IInv
<1>2. QED
  BY <1>1, DeliveryInvariant, PTL

\* No brand and story that were passed over would both be stronger together than in what
\* they got (brand_ranker.py:164-179).
THEOREM AssignmentIsStable == Spec => []NoBlockingPair
<1>1. IInv => NoBlockingPair
  BY DEF IInv, RadarInv
<1>2. QED
  BY <1>1, DeliveryInvariant, PTL

\* The message holds every verified topic exactly once, under its own brand, with nobody
\* above its limit, and at least the minimum of them, for any limits and however the
\* research and the assignment went (pipeline.py:269, 472-483).
THEOREM LettersAreSound == Spec => []LetterIsSound
<1>1. IInv => LetterIsSound
  <2> SUFFICES ASSUME IInv, mail # "off"
               PROVE  /\ InLetter = verified /\ verified \subseteq Sourced
                      /\ Cardinality(InLetter) >= Minimum
                      /\ Cardinality(blocks.pulse) <= TopN
                      /\ \A b \in Brand :
                           /\ Cardinality(blocks.brands[b]) <= PerBrand
                           /\ blocks.pulse \cap blocks.brands[b] = {}
                           /\ \A c \in Brand \ {b} : blocks.brands[b] \cap blocks.brands[c] = {}
    BY DEF LetterIsSound
  <2>1. stage = "briefing" /\ InLetter = verified
    BY DEF IInv, BlocksInv
  <2>2. verified \subseteq Sourced /\ Cardinality(verified) >= Minimum
    BY <2>1 DEF IInv, ResearchInv, ResultIsVerified, RefusedForAReason
  <2>3. /\ Cardinality(blocks.pulse) <= TopN
        /\ \A b \in Brand :
             /\ Cardinality(blocks.brands[b]) <= PerBrand
             /\ blocks.pulse \cap blocks.brands[b] = {}
             /\ \A c \in Brand \ {b} : blocks.brands[b] \cap blocks.brands[c] = {}
    BY DeliveryAssumption DEF IInv, BlocksInv
  <2>4. QED
    BY <2>1, <2>2, <2>3
<1>2. QED
  BY <1>1, DeliveryInvariant, PTL

\* Each provider's loop is a way of doing what the run relies on, for any number of attempts
\* (sender.py:49-426).
THEOREM SendersSend == Spec => ImplementsSending
<1>1. Init => Abstract!Init
  BY MailAssumption DEF Init, MailInit, FailedTries, Abstract!Init
<1>2. IInv /\ [Next]_vars => [Abstract!Next]_(Abstract!vars)
  <2> SUFFICES ASSUME IInv, [Next]_vars PROVE [Abstract!Next]_(Abstract!vars)
    OBVIOUS
  <2>1. CASE UNCHANGED mailVars
    BY <2>1 DEF mailVars, Abstract!vars, FailedTries
  <2>2. CASE StartMail \/ MailStep
    BY <2>2, MailStepIsSending DEF IInv
  <2>3. QED
    BY <2>1, <2>2 DEF Next, vars, Assign, Select, DoResearch, Compose, Send, Cut
<1>3. QED
  BY <1>1, <1>2, DeliveryInvariant, PTL DEF Spec, Abstract!Spec, ImplementsSending
================================================================================
