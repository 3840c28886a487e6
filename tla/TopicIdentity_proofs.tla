----------------------- MODULE TopicIdentity_proofs -----------------------
(***************************************************************************)
(* Proofs about TopicIdentity, for any headlines, number of runs and days, *)
(* retention and faults, when the similarity of headlines is transitive:   *)
(* TopicInv is inductive; from it follow that an id means one story, that  *)
(* the two files agree, that a cluster's momentum is measured against its  *)
(* own story's last score, and that no topic loses its history unless the  *)
(* other section uses its id.                                              *)
(***************************************************************************)
EXTENDS TopicIdentity, WellFoundedInduction, TLAPS

(***************************************************************************)
(* Stories and ids                                                         *)
(***************************************************************************)
\* same_story is reflexive and symmetric.
LEMMA Alikeness ==
  /\ \A h \in Headline : SameStory(h, h)
  /\ \A h, k \in Headline : SameStory(h, k) => SameStory(k, h)
  /\ \A h, k \in Headline : Mint[h] = Mint[k] => SameStory(h, k)
  /\ \A h \in Headline : Mint[h] \in Id
BY NearAssumption, MintAssumption DEF SameStory, Id

\* Two rows with one id are of one story.
LEMMA OneIdOneStory ==
  ASSUME StoriesAreClasses, TypeOK, IdsAreOfTheStory,
         NEW r \in topics \cup current \cup scores, NEW s \in topics \cup current \cup scores,
         r.id = s.id
  PROVE  SameStory(r.headline, s.headline)
<1>1. r.headline \in Headline /\ s.headline \in Headline
  BY DEF TypeOK, Topic, TrendScore
<1>2. PICK h \in Headline : Mint[h] = r.id /\ SameStory(h, r.headline)
  BY DEF IdsAreOfTheStory
<1>3. PICK k \in Headline : Mint[k] = s.id /\ SameStory(k, s.headline)
  BY DEF IdsAreOfTheStory
<1>4. SameStory(r.headline, h) /\ SameStory(h, k) /\ SameStory(k, s.headline)
  BY <1>1, <1>2, <1>3, Alikeness
<1>5. SameStory(r.headline, k)
  BY <1>1, <1>4 DEF StoriesAreClasses
<1>6. QED
  BY <1>1, <1>4, <1>5 DEF StoriesAreClasses

(***************************************************************************)
(* The inductive invariant                                                 *)
(***************************************************************************)
LEMMA InitHasInv == Init => TopicInv
BY TopicBoundsAssumption
DEF Init, TopicInv, TypeOK, SelectionIsFresh, IdsAreOfTheStory, OneTopicPerStory,
    TopicsAreReplaced, RowsArePast, Day

\* What a step that keeps the clusters and only removes rows keeps.
LEMMA FewerRowsKeepIds ==
  ASSUME IdsAreOfTheStory, topics' \subseteq topics, scores' \subseteq scores,
         current' \subseteq current
  PROVE  IdsAreOfTheStory'
BY DEF IdsAreOfTheStory

LEMMA CleanTopicsKeepsInv ==
  ASSUME TopicInv, CleanTopics
  PROVE  TopicInv'
<1> USE DEF TopicInv
<1>1. /\ pc = "idle" /\ pc' = "clean" /\ run < MaxRuns /\ run' = run + 1
      /\ topics' \subseteq topics
      /\ UNCHANGED <<today, pending, current, claimed, scores, intact>>
  BY DEF CleanTopics
<1>2. TypeOK'
  BY <1>1, TopicBoundsAssumption DEF TypeOK, TrendScore
<1>3. SelectionIsFresh'
  BY <1>1 DEF SelectionIsFresh
<1>4. IdsAreOfTheStory'
  BY <1>1, FewerRowsKeepIds
<1>5. OneTopicPerStory' /\ TopicsAreReplaced'
  BY <1>1 DEF OneTopicPerStory, TopicsAreReplaced
<1>6. RowsArePast'
  <2>1. \A s \in scores : s.run \in Int
    BY DEF TypeOK, TrendScore
  <2>2. run \in Int /\ intact \in Int
    BY DEF TypeOK
  <2>3. QED
    BY <1>1, <2>1, <2>2 DEF RowsArePast
<1>7. QED
  BY <1>2, <1>3, <1>4, <1>5, <1>6

LEMMA CleanScoresKeepsInv ==
  ASSUME TopicInv, CleanScores
  PROVE  TopicInv'
<1> USE DEF TopicInv
<1>1. /\ pc = "clean" /\ pc' = "rank" /\ scores' \subseteq scores
      /\ UNCHANGED <<today, run, pending, current, claimed, topics, intact>>
  BY DEF CleanScores
<1>2. TypeOK'
  BY <1>1 DEF TypeOK
<1>3. SelectionIsFresh'
  BY <1>1 DEF SelectionIsFresh
<1>4. IdsAreOfTheStory'
  BY <1>1, FewerRowsKeepIds
<1>5. OneTopicPerStory' /\ TopicsAreReplaced' /\ RowsArePast'
  BY <1>1 DEF OneTopicPerStory, TopicsAreReplaced, RowsArePast
<1>6. QED
  BY <1>2, <1>3, <1>4, <1>5

LEMMA RankedIsCluster ==
  ASSUME TypeOK, NEW section \in Section, NEW h \in Headline
  PROVE  /\ Ranked(section, h) \in Cluster
         /\ Ranked(section, h).section = section /\ Ranked(section, h).headline = h
<1>1. PreviousFor(section, Mint[h]) \subseteq TrendScore
  BY DEF TypeOK, PreviousFor, PreviousScores, Earlier
<1>2. QED
  BY <1>1 DEF Ranked, Cluster

LEMMA RankKeepsInv ==
  ASSUME TopicInv, Rank
  PROVE  TopicInv'
<1> USE DEF TopicInv
<1>1. PICK selected \in [Section -> Selection] :
        pending' = UNION {{Ranked(section, h) : h \in selected[section]} : section \in Section}
  BY DEF Rank
<1>2. /\ pc = "rank" /\ pc' = "reconcile"
      /\ UNCHANGED <<today, run, current, claimed, topics, scores, intact>>
  BY DEF Rank
<1>3. \A c \in pending' : \E section \in Section : \E h \in selected[section] :
        c = Ranked(section, h)
  BY <1>1
<1>4. \A section \in Section : selected[section] \subseteq Headline
  BY DEF Selection
<1>5. pending' \subseteq Cluster
  BY <1>3, <1>4, RankedIsCluster
<1>6. TypeOK'
  BY <1>2, <1>5 DEF TypeOK
<1>7. current = {} /\ claimed = {}
  BY <1>2 DEF SelectionIsFresh
<1>8. ASSUME NEW c \in pending', NEW d \in pending', SameStoryAndSection(c, d)
      PROVE  c = d
  <2>1. PICK s \in Section : \E h \in selected[s] : c = Ranked(s, h)
    BY <1>3
  <2>2. PICK h \in selected[s] : c = Ranked(s, h)
    BY <2>1
  <2>3. PICK t \in Section : \E k \in selected[t] : d = Ranked(t, k)
    BY <1>3
  <2>4. PICK k \in selected[t] : d = Ranked(t, k)
    BY <2>3
  <2>5. c.section = s /\ c.headline = h /\ d.section = t /\ d.headline = k
    BY <2>2, <2>4, <1>4, RankedIsCluster
  <2>6. s = t /\ SameStory(h, k)
    BY <1>8, <2>5 DEF SameStoryAndSection
  <2>7. h = k
    BY <2>6 DEF Selection
  <2>8. QED
    BY <2>2, <2>4, <2>6, <2>7
<1>9. SelectionIsFresh'
  BY <1>2, <1>7, <1>8 DEF SelectionIsFresh
<1>10. IdsAreOfTheStory'
  BY <1>2 DEF IdsAreOfTheStory
<1>11. OneTopicPerStory' /\ TopicsAreReplaced' /\ RowsArePast'
  BY <1>2, <1>7 DEF OneTopicPerStory, TopicsAreReplaced, RowsArePast
<1>12. QED
  BY <1>6, <1>9, <1>10, <1>11

\* The topic that one turn of reconcile() makes, in both cases.
LEMMA ReconcileMakesTopic ==
  ASSUME TopicInv, Reconcile
  PROVE  \E cluster \in pending, n \in Topic :
           /\ pc = "reconcile" /\ pending' = pending \ {cluster}
           /\ current' = current \cup {n}
           /\ n.section = cluster.section /\ n.headline = cluster.headline /\ n.last = today
           /\ \/ Matches(cluster) = {} /\ n.id = Mint[cluster.headline] /\ claimed' = claimed
              \/ \E match \in Matches(cluster) :
                   n.id = match.id /\ n.first <= match.first /\ claimed' = claimed \cup {match.id}
<1> USE DEF TopicInv
<1>1. PICK cluster \in pending, earliest \in Published :
        /\ pending' = pending \ {cluster}
        /\ \/ /\ Matches(cluster) = {}
              /\ current' = current \cup {NewTopic(cluster, earliest)}
              /\ UNCHANGED claimed
           \/ \E match \in Matches(cluster) :
                /\ current' = current \cup {CarriedTopic(cluster, match, earliest)}
                /\ claimed' = claimed \cup {match.id}
  BY DEF Reconcile
<1>2. /\ cluster.section \in Section /\ cluster.headline \in Headline
      /\ today \in Day /\ earliest \in Day /\ pc = "reconcile"
  BY DEF TypeOK, Cluster, Published, Reconcile
<1>3. CASE /\ Matches(cluster) = {}
           /\ current' = current \cup {NewTopic(cluster, earliest)}
           /\ UNCHANGED claimed
  <2>1. NewTopic(cluster, earliest) \in Topic
    BY <1>2, Alikeness DEF NewTopic, Topic
  <2>2. QED
    BY <1>1, <1>2, <1>3, <2>1 DEF NewTopic
<1>4. CASE \E match \in Matches(cluster) :
             /\ current' = current \cup {CarriedTopic(cluster, match, earliest)}
             /\ claimed' = claimed \cup {match.id}
  <2>1. PICK match \in Matches(cluster) :
          /\ current' = current \cup {CarriedTopic(cluster, match, earliest)}
          /\ claimed' = claimed \cup {match.id}
    BY <1>4
  <2>2. match \in Topic
    BY DEF Matches, TypeOK
  <2> DEFINE n == CarriedTopic(cluster, match, earliest)
  <2>3. n \in Topic
    BY <1>2, <2>2 DEF CarriedTopic, Topic
  <2>4. n.id = match.id /\ n.section = cluster.section /\ n.headline = cluster.headline
        /\ n.last = today
    BY DEF CarriedTopic, Matches
  <2>5. match.first \in Int /\ earliest \in Int
    BY <1>2, <2>2 DEF Topic, Day
  <2>6. n.first <= match.first
    BY <2>5 DEF CarriedTopic
  <2>7. QED
    BY <1>1, <1>2, <2>1, <2>3, <2>4, <2>6
<1>5. QED
  BY <1>1, <1>3, <1>4

LEMMA ReconcileKeepsInv ==
  ASSUME StoriesAreClasses, TopicInv, Reconcile
  PROVE  TopicInv'
<1> USE DEF TopicInv
<1>1. PICK cluster \in pending, n \in Topic :
        /\ pc = "reconcile" /\ pending' = pending \ {cluster}
        /\ current' = current \cup {n}
        /\ n.section = cluster.section /\ n.headline = cluster.headline /\ n.last = today
        /\ \/ Matches(cluster) = {} /\ n.id = Mint[cluster.headline] /\ claimed' = claimed
           \/ \E match \in Matches(cluster) :
                n.id = match.id /\ n.first <= match.first /\ claimed' = claimed \cup {match.id}
  BY ReconcileMakesTopic
<1>2. UNCHANGED <<today, run, pc, topics, scores, intact>>
  BY DEF Reconcile
<1>3. /\ cluster.headline \in Headline /\ topics \subseteq Topic /\ current \subseteq Topic
      /\ pending \subseteq Cluster /\ claimed \subseteq Id
      /\ \A t \in Topic : t.headline \in Headline /\ t.id \in Id
      /\ \A c \in Cluster : c.headline \in Headline
  BY DEF TypeOK, Cluster, Topic
<1>4. TypeOK'
  BY <1>1, <1>2, <1>3 DEF TypeOK
<1>5. SelectionIsFresh'
  <2>1. \A c \in pending' : c \in pending /\ c # cluster /\ ~SameStoryAndSection(c, cluster)
    BY <1>1 DEF SelectionIsFresh
  <2>2. \A c \in pending' : ~SameStoryAndSection(c, n)
    BY <1>1, <2>1 DEF SameStoryAndSection
  <2>3. \A c \in current : ~SameStoryAndSection(cluster, c)
    BY DEF SelectionIsFresh
  <2>4. \A c \in current : ~SameStoryAndSection(n, c) /\ ~SameStoryAndSection(c, n)
    BY <1>1, <1>3, <2>3, Alikeness DEF SameStoryAndSection
  <2>5. \A c, d \in current' : SameStoryAndSection(c, d) => c = d
    BY <1>1, <2>4 DEF SelectionIsFresh
  <2>6. \A c, d \in pending' : SameStoryAndSection(c, d) => c = d
    BY <2>1 DEF SelectionIsFresh
  <2>7. \A c \in pending', d \in current' : ~SameStoryAndSection(c, d)
    BY <1>1, <2>1, <2>2 DEF SelectionIsFresh
  <2>8. \A c \in current' : c.last = today'
    BY <1>1, <1>2 DEF SelectionIsFresh
  <2>9. QED
    BY <1>1, <1>2, <2>5, <2>6, <2>7, <2>8 DEF SelectionIsFresh
<1>6. IdsAreOfTheStory'
  <2>1. \E h \in Headline : Mint[h] = n.id /\ SameStory(h, n.headline)
    <3>1. CASE n.id = Mint[cluster.headline]
      BY <1>1, <1>3, <3>1, Alikeness
    <3>2. CASE \E match \in Matches(cluster) : n.id = match.id
      <4>1. PICK match \in Matches(cluster) : n.id = match.id
        BY <3>2
      <4>2. match \in topics /\ SameStory(cluster.headline, match.headline)
        BY DEF Matches
      <4>3. PICK h \in Headline : Mint[h] = match.id /\ SameStory(h, match.headline)
        BY <4>2 DEF IdsAreOfTheStory
      <4>4. SameStory(match.headline, cluster.headline) /\ match.headline \in Headline
        BY <1>3, <4>2, Alikeness
      <4>5. SameStory(h, cluster.headline)
        BY <1>3, <4>3, <4>4 DEF StoriesAreClasses
      <4>6. QED
        BY <1>1, <4>1, <4>3, <4>5
    <3>3. QED
      BY <1>1, <3>1, <3>2
  <2>2. \A r \in topics' \cup current' \cup scores' : r \in topics \cup current \cup scores \/ r = n
    BY <1>1, <1>2
  <2>3. QED
    BY <2>1, <2>2 DEF IdsAreOfTheStory
<1>7. TopicsAreReplaced'
  <2>1. ASSUME NEW i \in claimed'
        PROVE  \E c \in current', t \in topics' : c.id = i /\ t.id = i /\ SameStoryAndSection(c, t)
    <3>1. CASE i \in claimed
      BY <1>1, <1>2, <3>1 DEF TopicsAreReplaced
    <3>2. CASE i \notin claimed
      <4>1. PICK match \in Matches(cluster) : n.id = match.id /\ i = match.id
        BY <1>1, <2>1, <3>2
      <4>2. match \in topics /\ SameStoryAndSection(n, match)
        BY <1>1 DEF Matches, SameStoryAndSection
      <4>3. QED
        BY <1>1, <1>2, <4>1, <4>2
    <3>3. QED
      BY <3>1, <3>2
  <2>2. ASSUME NEW t \in topics, SameStoryAndSection(n, t)
        PROVE  /\ \E d \in current' : d.id = t.id
               /\ n.id = t.id => n.first <= t.first \/ InOtherSection(t)
    <3>1. t.section = cluster.section /\ SameStory(cluster.headline, t.headline)
      BY <1>1, <2>2 DEF SameStoryAndSection
    <3>2. CASE \E match \in Matches(cluster) : n.id = match.id /\ n.first <= match.first
      <4>1. PICK match \in Matches(cluster) : n.id = match.id /\ n.first <= match.first
        BY <3>2
      <4>2. match \in topics /\ SameStory(cluster.headline, match.headline)
            /\ match.section = cluster.section
        BY DEF Matches
      <4>3. SameStory(match.headline, cluster.headline) /\ match.headline \in Headline
            /\ t.headline \in Headline
        BY <1>3, <4>2, Alikeness
      <4>4. SameStory(match.headline, t.headline)
        BY <1>3, <3>1, <4>3 DEF StoriesAreClasses
      <4>5. match = t
        BY <3>1, <4>2, <4>4 DEF OneTopicPerStory, SameStoryAndSection
      <4>6. QED
        BY <1>1, <4>1, <4>5
    <3>3. CASE Matches(cluster) = {}
      <4>1. t.id \in claimed
        BY <3>1, <3>3 DEF Matches
      <4>2. PICK c \in current, u \in topics :
              c.id = t.id /\ u.id = t.id /\ SameStoryAndSection(c, u)
        BY <1>1, <4>1 DEF TopicsAreReplaced
      <4>3. u.section # t.section
        <5>1. SUFFICES ASSUME u.section = t.section PROVE FALSE
          OBVIOUS
        <5>2. SameStory(u.headline, t.headline)
          BY <4>2, OneIdOneStory
        <5>3. c.headline \in Headline /\ u.headline \in Headline /\ t.headline \in Headline
          BY <1>3
        <5>4. SameStory(c.headline, t.headline)
          BY <4>2, <5>2, <5>3 DEF StoriesAreClasses, SameStoryAndSection
        <5>5. SameStory(t.headline, c.headline)
          BY <5>3, <5>4, Alikeness
        <5>6. SameStory(cluster.headline, c.headline)
          BY <1>3, <3>1, <5>3, <5>5 DEF StoriesAreClasses
        <5>7. c.section = cluster.section
          BY <3>1, <4>2, <5>1 DEF SameStoryAndSection
        <5>8. SameStoryAndSection(cluster, c)
          BY <5>6, <5>7 DEF SameStoryAndSection
        <5>9. QED
          BY <5>8 DEF SelectionIsFresh
      <4>4. InOtherSection(t)
        BY <4>2, <4>3 DEF InOtherSection
      <4>5. QED
        BY <1>1, <4>2, <4>4
    <3>4. QED
      BY <1>1, <3>2, <3>3
  <2>3. \A t : InOtherSection(t)' = InOtherSection(t)
    BY <1>2 DEF InOtherSection
  <2>4. ASSUME NEW c \in current', NEW t \in topics', SameStoryAndSection(c, t)
        PROVE  /\ \E d \in current' : d.id = t.id
               /\ c.id = t.id => c.first <= t.first \/ InOtherSection(t)
    <3>1. CASE c \in current
      BY <1>1, <1>2, <2>4, <3>1 DEF TopicsAreReplaced
    <3>2. CASE c = n
      BY <1>2, <2>2, <2>4, <3>2
    <3>3. QED
      BY <1>1, <3>1, <3>2
  <2>5. QED
    BY <2>1, <2>4, <1>2 DEF TopicsAreReplaced, InOtherSection
<1>8. OneTopicPerStory' /\ RowsArePast'
  BY <1>2 DEF OneTopicPerStory, RowsArePast
<1>9. QED
  BY <1>4, <1>5, <1>6, <1>7, <1>8

LEMMA WriteTopicsKeepsInv ==
  ASSUME TopicInv, WriteTopics
  PROVE  TopicInv'
<1> USE DEF TopicInv
<1>1. /\ pc = "reconcile" /\ pending = {} /\ pc' = "score"
      /\ topics' = {t \in topics : \A n \in current : t.id # n.id} \cup current
      /\ UNCHANGED <<today, run, pending, current, claimed, scores, intact>>
  BY DEF WriteTopics, MergeTopicHistory
<1>2. TypeOK'
  BY <1>1 DEF TypeOK
<1>3. SelectionIsFresh'
  BY <1>1 DEF SelectionIsFresh
<1>4. IdsAreOfTheStory'
  BY <1>1 DEF IdsAreOfTheStory
<1>5. OneTopicPerStory'
  <2>1. ASSUME NEW c \in current, NEW t \in topics, \A n \in current : t.id # n.id
        PROVE  ~SameStoryAndSection(c, t) /\ ~SameStoryAndSection(t, c)
    <3>1. ~SameStoryAndSection(c, t)
      BY <1>1, <2>1 DEF TopicsAreReplaced
    <3>2. c.headline \in Headline /\ t.headline \in Headline
      BY DEF TypeOK, Topic
    <3>3. QED
      BY <3>1, <3>2, Alikeness DEF SameStoryAndSection
  <2>2. \A c, d \in current : SameStoryAndSection(c, d) => c = d
    BY DEF SelectionIsFresh
  <2>3. \A t, u \in topics : SameStoryAndSection(t, u) => t = u
    BY DEF OneTopicPerStory
  <2>4. \A t, u \in topics' : SameStoryAndSection(t, u) => t = u
    BY <1>1, <2>1, <2>2, <2>3
  <2>5. QED
    BY <2>4 DEF OneTopicPerStory
<1>6. TopicsAreReplaced'
  BY <1>1 DEF TopicsAreReplaced
<1>7. RowsArePast'
  <2>1. today \in Int
    BY DEF TypeOK, Day
  <2>2. \A c \in current : c.last = today
    BY DEF SelectionIsFresh
  <2>3. QED
    BY <1>1, <2>1, <2>2 DEF RowsArePast
<1>8. QED
  BY <1>2, <1>3, <1>4, <1>5, <1>6, <1>7

\* A score has the id and the headline of its topic, and the run's day and number.
LEMMA ScoreOfTopic ==
  ASSUME NEW t \in Topic
  PROVE  /\ TrendScoreOf(t).id = t.id /\ TrendScoreOf(t).section = t.section
         /\ TrendScoreOf(t).headline = t.headline
         /\ TrendScoreOf(t).date = today /\ TrendScoreOf(t).run = run
BY DEF TrendScoreOf

LEMMA WriteScoresKeepsInv ==
  ASSUME TopicInv, WriteScores
  PROVE  TopicInv'
<1> USE DEF TopicInv
<1>1. /\ pc = "score" /\ pc' = "idle" /\ current' = {} /\ claimed' = {}
      /\ scores' = scores \cup {TrendScoreOf(t) : t \in current}
      /\ UNCHANGED <<today, run, pending, topics, intact>>
  BY DEF WriteScores
<1>2. current \subseteq topics /\ pending = {} /\ current \subseteq Topic
  BY <1>1 DEF SelectionIsFresh, TypeOK
<1>3. run \in 1 .. MaxRuns /\ run \in Int /\ today \in Int /\ intact \in Int
  BY <1>1, TopicBoundsAssumption DEF TypeOK, RowsArePast, Day
<1>4. \A t \in current : TrendScoreOf(t) \in TrendScore
  BY <1>2, <1>3 DEF TrendScoreOf, TrendScore, Topic, TypeOK
<1>5. TypeOK'
  BY <1>1, <1>4 DEF TypeOK
<1>6. SelectionIsFresh' /\ OneTopicPerStory' /\ TopicsAreReplaced'
  BY <1>1, <1>2 DEF SelectionIsFresh, OneTopicPerStory, TopicsAreReplaced
<1>7. IdsAreOfTheStory'
  BY <1>1, <1>2, ScoreOfTopic DEF IdsAreOfTheStory
<1>8. RowsArePast'
  BY <1>1, <1>2, <1>3, ScoreOfTopic DEF RowsArePast
<1>9. QED
  BY <1>5, <1>6, <1>7, <1>8

LEMMA AbandonKeepsInv ==
  ASSUME TopicInv, Abandon
  PROVE  TopicInv'
<1> USE DEF TopicInv
<1>1. /\ pc' = "idle" /\ pending' = {} /\ current' = {} /\ claimed' = {}
      /\ UNCHANGED <<today, run, topics, scores, intact>>
  BY DEF Abandon
<1>2. TypeOK' /\ SelectionIsFresh' /\ OneTopicPerStory' /\ TopicsAreReplaced' /\ RowsArePast'
  BY <1>1 DEF TypeOK, SelectionIsFresh, OneTopicPerStory, TopicsAreReplaced, RowsArePast
<1>3. IdsAreOfTheStory'
  BY <1>1, FewerRowsKeepIds
<1>4. QED
  BY <1>2, <1>3

\* What happens between two runs.
LEMMA ChangeKeepsInv ==
  ASSUME TopicInv, LoseScores \/ LoseTopics \/ NextDay
  PROVE  TopicInv'
<1> USE DEF TopicInv
<1>1. /\ pc = "idle" /\ UNCHANGED <<run, pc, pending, current, claimed>>
      /\ topics' \subseteq topics /\ scores' \subseteq scores
      /\ intact' \in {intact, run}
      /\ today' = today \/ (today < MaxDay /\ today' = today + 1)
  BY DEF LoseScores, LoseTopics, NextDay, MayChange
<1>2. TypeOK'
  BY <1>1, TopicBoundsAssumption DEF TypeOK, Day
<1>3. SelectionIsFresh' /\ OneTopicPerStory' /\ TopicsAreReplaced'
  BY <1>1 DEF SelectionIsFresh, OneTopicPerStory, TopicsAreReplaced
<1>4. IdsAreOfTheStory'
  BY <1>1, FewerRowsKeepIds
<1>5. RowsArePast'
  <2>1. today \in Int /\ run \in Int /\ intact \in Int
    BY DEF TypeOK, Day
  <2>2. \A t \in topics : t.last \in Int
    BY DEF TypeOK, Topic, Day
  <2>3. \A s \in scores : s.date \in Int
    BY DEF TypeOK, TrendScore, Day
  <2>4. QED
    BY <1>1, <2>1, <2>2, <2>3 DEF RowsArePast
<1>6. QED
  BY <1>2, <1>3, <1>4, <1>5

LEMMA StepKeepsInv ==
  ASSUME StoriesAreClasses, TopicInv, [Next]_vars
  PROVE  TopicInv'
<1>1. CASE UNCHANGED vars
  BY <1>1 DEF vars, TopicInv, TypeOK, SelectionIsFresh, IdsAreOfTheStory, OneTopicPerStory,
              TopicsAreReplaced, InOtherSection, RowsArePast
<1>2. CASE Next
  BY <1>2, CleanTopicsKeepsInv, CleanScoresKeepsInv, RankKeepsInv, ReconcileKeepsInv,
     WriteTopicsKeepsInv, WriteScoresKeepsInv, AbandonKeepsInv, ChangeKeepsInv DEF Next
<1>3. QED
  BY <1>1, <1>2

\* The inductive invariant holds throughout, whatever is selected, rerun, abandoned or
\* lost: one topic per story and section, ids that belong to one story, and topics that
\* take the place of their predecessors (reconcile, merge_topic_history).
THEOREM TopicInvariant ==
  ASSUME StoriesAreClasses
  PROVE  Spec => []TopicInv
<1>1. TopicInv /\ [Next]_vars => TopicInv'
  BY StepKeepsInv
<1>2. QED
  BY <1>1, InitHasInv, PTL DEF Spec

(***************************************************************************)
(* What follows from it                                                    *)
(***************************************************************************)
\* An id belongs to one story, in topics.csv, in trend_scores.csv and in a run, in both
\* sections: momentum is never measured against another story (app/cluster/topics.py:3-5).
THEOREM IdsMeanOneStory ==
  ASSUME StoriesAreClasses
  PROVE  Spec => [](\A r, s \in topics \cup current \cup scores :
                      r.id = s.id => SameStory(r.headline, s.headline))
<1>1. TopicInv => \A r, s \in topics \cup current \cup scores :
                    r.id = s.id => SameStory(r.headline, s.headline)
  BY OneIdOneStory DEF TopicInv
<1>2. QED
  BY <1>1, TopicInvariant, PTL

LEMMA StepKeepsScoresHaveTopics ==
  ASSUME TopicInv, ScoresHaveTopics, [Next]_vars
  PROVE  ScoresHaveTopics'
<1> USE DEF TopicInv, WithinRetention
<1>1. /\ today \in Int /\ run \in Int /\ intact \in Int /\ RetentionDays \in Int
      /\ \A t \in topics : t.last \in Int
      /\ \A s \in scores : s.date \in Int /\ s.run \in Int
      /\ \A c \in current : c.last = today /\ c \in Topic
  BY TopicBoundsAssumption DEF TypeOK, Topic, TrendScore, Day, SelectionIsFresh
<1>2. \A s \in scores : s.date <= today /\ s.run <= run
  BY DEF RowsArePast
<1>3. CASE UNCHANGED <<today, topics, intact>> /\ scores' \subseteq scores
  BY <1>3 DEF ScoresHaveTopics
<1>4. CASE CleanTopics
  <2>1. /\ topics' = {t \in topics : t.last >= today - RetentionDays}
        /\ UNCHANGED <<today, scores, intact>>
    BY <1>4 DEF CleanTopics
  <2>2. QED
    BY <1>1, <2>1 DEF ScoresHaveTopics
<1>5. CASE WriteTopics
  <2>1. /\ topics' = {t \in topics : \A n \in current : t.id # n.id} \cup current
        /\ UNCHANGED <<today, scores, intact>>
    BY <1>5 DEF WriteTopics, MergeTopicHistory
  <2>2. SUFFICES ASSUME NEW s \in scores, s.run > intact, s.date >= today - RetentionDays
                 PROVE  \E t \in topics' : t.id = s.id /\ t.last >= s.date
    BY <2>1 DEF ScoresHaveTopics
  <2>3. PICK t \in topics : t.id = s.id /\ t.last >= s.date
    BY <2>2 DEF ScoresHaveTopics
  <2>4. CASE \A n \in current : t.id # n.id
    BY <2>1, <2>3, <2>4
  <2>5. CASE \E n \in current : t.id = n.id
    <3>1. PICK n \in current : t.id = n.id
      BY <2>5
    <3>2. n.id = s.id /\ n.last >= s.date
      BY <1>1, <1>2, <2>3, <3>1
    <3>3. QED
      BY <2>1, <3>1, <3>2
  <2>6. QED
    BY <2>4, <2>5
<1>6. CASE WriteScores
  <2>1. /\ scores' = scores \cup {TrendScoreOf(t) : t \in current}
        /\ current \subseteq topics /\ UNCHANGED <<today, topics, intact>>
    BY <1>6 DEF WriteScores, SelectionIsFresh
  <2>2. ASSUME NEW s \in {TrendScoreOf(t) : t \in current}
        PROVE  \E t \in topics : t.id = s.id /\ t.last >= s.date
    <3>1. PICK t \in current : s = TrendScoreOf(t)
      BY <2>2
    <3>2. t.id = s.id /\ s.date = today /\ t.last = today
      BY <1>1, <3>1, ScoreOfTopic
    <3>3. QED
      BY <1>1, <2>1, <3>2
  <2>3. QED
    BY <2>1, <2>2 DEF ScoresHaveTopics
<1>7. CASE LoseTopics
  <2>1. intact' = run /\ scores' = scores
    BY <1>7 DEF LoseTopics
  <2>2. \A s \in scores' : ~(s.run > intact')
    BY <1>1, <1>2, <2>1
  <2>3. QED
    BY <2>2 DEF ScoresHaveTopics
<1>8. CASE NextDay
  <2>1. today' = today + 1 /\ UNCHANGED <<topics, scores, intact>>
    BY <1>8 DEF NextDay
  <2>2. QED
    BY <1>1, <2>1 DEF ScoresHaveTopics
<1>9. CASE CleanScores \/ Rank \/ Reconcile \/ Abandon \/ LoseScores \/ UNCHANGED vars
  BY <1>3, <1>9 DEF CleanScores, Rank, Reconcile, Abandon, LoseScores, vars
<1>10. QED
  BY <1>4, <1>5, <1>6, <1>7, <1>8, <1>9 DEF Next

\* Every score that is not expired has its topic, at least as recent, in topics.csv: the
\* files agree on the ids whatever happens between their writes (_persist_analysis).
THEOREM ScoresHaveTopicsHolds ==
  ASSUME StoriesAreClasses
  PROVE  Spec => []ScoresHaveTopics
<1>1. Init => ScoresHaveTopics
  BY DEF Init, ScoresHaveTopics
<1>2. TopicInv /\ ScoresHaveTopics /\ [Next]_vars => ScoresHaveTopics'
  BY StepKeepsScoresHaveTopics
<1>3. QED
  BY <1>1, <1>2, TopicInvariant, PTL DEF Spec

\* A cluster carries what the lookup finds for its headline, as long as it waits.
LookedUp == \A c \in pending : c.previous = PreviousFor(c.section, Mint[c.headline])

LEMMA StepKeepsLookedUp ==
  ASSUME TopicInv, LookedUp, [Next]_vars
  PROVE  LookedUp'
<1> USE DEF TopicInv, PreviousFor, PreviousScores, Earlier
<1>1. CASE Rank
  <2>1. PICK selected \in [Section -> Selection] :
          pending' = UNION {{Ranked(section, h) : h \in selected[section]} : section \in Section}
    BY <1>1 DEF Rank
  <2>2. UNCHANGED <<scores, today>>
    BY <1>1 DEF Rank
  <2>3. \A section \in Section : selected[section] \subseteq Headline
    BY DEF Selection
  <2>4. \A c \in pending' : c.previous = PreviousFor(c.section, Mint[c.headline])
    BY <2>1, <2>3 DEF Ranked
  <2>5. QED
    BY <2>2, <2>4 DEF LookedUp
<1>2. CASE pending' \subseteq pending /\ UNCHANGED <<scores, today>>
  BY <1>2 DEF LookedUp
<1>3. CASE CleanTopics \/ Reconcile \/ WriteTopics \/ LoseTopics \/ UNCHANGED vars
  BY <1>2, <1>3 DEF CleanTopics, Reconcile, WriteTopics, LoseTopics, vars
<1>4. CASE pending' = {}
  BY <1>4 DEF LookedUp
<1>5. CASE CleanScores \/ WriteScores \/ Abandon \/ LoseScores \/ NextDay
  BY <1>4, <1>5 DEF CleanScores, WriteScores, Abandon, LoseScores, NextDay, MayChange,
                    SelectionIsFresh
<1>6. QED
  BY <1>1, <1>3, <1>5 DEF Next

LEMMA LookedUpIsOwn ==
  ASSUME StoriesAreClasses, TopicInv, LookedUp
  PROVE  MomentumIsOwn
<1> USE DEF TopicInv
<1>1. SUFFICES ASSUME NEW c \in pending, NEW p \in c.previous
               PROVE  /\ SameStory(p.headline, c.headline)
                      /\ p.section = c.section /\ p.date < today
                      /\ \A s \in scores : s.section = c.section /\ s.date < today => s.date <= p.date
  BY DEF MomentumIsOwn
<1>2. p \in PreviousScores(c.section) /\ p.id = Mint[c.headline]
  BY DEF LookedUp, PreviousFor
<1>3. p \in scores /\ p.section = c.section /\ p.date < today
      /\ \A s \in scores : s.section = c.section /\ s.date < today => s.date <= p.date
  BY <1>2 DEF PreviousScores, Earlier
<1>4. PICK h \in Headline : Mint[h] = p.id /\ SameStory(h, p.headline)
  BY <1>3 DEF IdsAreOfTheStory
<1>5. c.headline \in Headline /\ p.headline \in Headline
  BY <1>3 DEF TypeOK, Cluster, TrendScore
<1>6. SameStory(p.headline, h) /\ SameStory(h, c.headline)
  BY <1>2, <1>4, <1>5, Alikeness
<1>7. QED
  BY <1>3, <1>5, <1>6 DEF StoriesAreClasses

\* The score a cluster is compared with is its own story's, of its section's latest day
\* before today, in every history (load_previous_scores).
THEOREM MomentumIsOwnHolds ==
  ASSUME StoriesAreClasses
  PROVE  Spec => []MomentumIsOwn
<1>1. Init => LookedUp
  BY DEF Init, LookedUp
<1>2. TopicInv /\ LookedUp /\ [Next]_vars => LookedUp'
  BY StepKeepsLookedUp
<1>3. TopicInv /\ LookedUp => MomentumIsOwn
  BY LookedUpIsOwn
<1>4. QED
  BY <1>1, <1>2, <1>3, TopicInvariant, PTL DEF Spec

LEMMA StepKeepsHistory ==
  ASSUME StoriesAreClasses, TopicInv, Next, run' # run \/ pc # "idle",
         NEW t \in topics, WithinRetention(t.last), ~Shared(t)
  PROVE  \E u \in topics' : /\ u.id = t.id /\ u.section = t.section
                            /\ u.first <= t.first /\ u.last >= t.last
<1> USE DEF TopicInv
<1>1. t.first \in Int /\ t.last \in Int /\ today \in Int /\ t.last <= today
  BY DEF TypeOK, Topic, Day, RowsArePast
<1>2. CASE t \in topics'
  BY <1>1, <1>2
<1>3. CASE WriteTopics
  <2>1. /\ pc = "reconcile"
        /\ topics' = {r \in topics : \A n \in current : r.id # n.id} \cup current
    BY <1>3 DEF WriteTopics, MergeTopicHistory
  <2>2. CASE \A n \in current : t.id # n.id
    BY <1>2, <2>1, <2>2
  <2>3. CASE \E n \in current : t.id = n.id
    <3>1. PICK n \in current : t.id = n.id
      BY <2>3
    <3>2. n.section = t.section
      BY <3>1 DEF Shared
    <3>3. SameStoryAndSection(n, t)
      BY <3>1, <3>2, OneIdOneStory DEF SameStoryAndSection
    <3>4. ~InOtherSection(t)
      BY DEF Shared, InOtherSection
    <3>5. n.first <= t.first
      BY <2>1, <3>1, <3>3, <3>4 DEF TopicsAreReplaced
    <3>6. n.last = today /\ n \in topics'
      BY <2>1 DEF SelectionIsFresh
    <3>7. QED
      BY <1>1, <3>1, <3>2, <3>5, <3>6
  <2>4. QED
    BY <2>2, <2>3
<1>4. CASE CleanTopics
  BY <1>2, <1>4 DEF CleanTopics
<1>5. CASE CleanScores \/ Rank \/ Reconcile \/ WriteScores \/ Abandon
  BY <1>2, <1>5 DEF CleanScores, Rank, Reconcile, WriteScores, Abandon
<1>6. ~(LoseScores \/ LoseTopics \/ NextDay)
  BY DEF LoseScores, LoseTopics, NextDay, MayChange
<1>7. QED
  BY <1>3, <1>4, <1>5, <1>6 DEF Next

\* No run takes away a topic that is not expired, or moves its first_seen forward, unless
\* the other section has its id (reconcile, merge_topic_history).
THEOREM TopicHistoryKeptHolds ==
  ASSUME StoriesAreClasses
  PROVE  Spec => TopicHistoryKept
<1>1. TopicInv /\ [Next]_vars =>
        [run' # run \/ pc # "idle" =>
           \A t \in topics : WithinRetention(t.last) /\ ~Shared(t) =>
             \E u \in topics' : /\ u.id = t.id /\ u.section = t.section
                                /\ u.first <= t.first /\ u.last >= t.last]_vars
  BY StepKeepsHistory
<1>2. QED
  BY <1>1, TopicInvariant, PTL DEF Spec, TopicHistoryKept

-----------------------------------------------------------------------------
\* Of some rows one is of the latest run.
LEMMA SomeRowIsLatest ==
  ASSUME NEW rows \in SUBSET TrendScore, rows # {}
  PROVE  \E s \in rows : \A t \in rows : t.run <= s.run
<1> DEFINE R == OpToRel(<, Nat)
           Age(s) == MaxRuns - s.run
           T == {Age(s) : s \in rows}
<1>1. \A s \in rows : s.run \in 1 .. MaxRuns /\ MaxRuns \in Nat
  BY TopicBoundsAssumption DEF TrendScore
<1>2. T \subseteq Nat /\ T # {}
  BY <1>1
<1>3. \A m, n \in Nat : m < n => <<m, n>> \in R
  BY DEF OpToRel
<1>4. IsWellFoundedOn(R, Nat)
  BY NatLessThanWellFounded
<1> HIDE DEF R
<1>5. \E m \in T : \A n \in T : <<n, m>> \notin R
  <2> HIDE DEF T
  <2>1. QED
    BY <1>2, <1>4, WFMin
<1>6. PICK s \in rows : \A t \in rows : <<Age(t), Age(s)>> \notin R
  BY <1>5
<1>7. ASSUME NEW t \in rows PROVE t.run <= s.run
  <2>1. Age(t) \in Nat /\ Age(s) \in Nat
    BY <1>1
  <2>2. ~(Age(t) < Age(s))
    BY <1>3, <1>6, <2>1
  <2>3. QED
    BY <1>1, <2>2
<1>8. QED
  BY <1>7

\* A story whose headlines all mint one id finds its score of the section's latest day.
LEMMA LookedUpIsFound ==
  ASSUME StoriesAreClasses, TopicInv, LookedUp
  PROVE  SteadyStoriesHaveMomentum
<1> USE DEF TopicInv
<1>1. SUFFICES ASSUME NEW c \in pending,
                      \A h \in Headline :
                        SameStory(h, c.headline) => Mint[h] = Mint[c.headline],
                      ScoredLast(c.section, c.headline)
               PROVE  c.previous # {}
  BY DEF SteadyStoriesHaveMomentum
<1>2. PICK s \in scores :
        /\ s.section = c.section /\ SameStory(s.headline, c.headline) /\ s.date < today
        /\ \A t \in scores : t.section = c.section /\ t.date < today => t.date <= s.date
  BY <1>1 DEF ScoredLast
<1>3. PICK h \in Headline : Mint[h] = s.id /\ SameStory(h, s.headline)
  BY <1>2 DEF IdsAreOfTheStory
<1>4. c.headline \in Headline /\ s.headline \in Headline
  BY <1>2 DEF TypeOK, Cluster, TrendScore
<1>5. s.id = Mint[c.headline]
  BY <1>1, <1>2, <1>3, <1>4 DEF StoriesAreClasses
<1> DEFINE rows == {r \in PreviousScores(c.section) : r.id = Mint[c.headline]}
<1>6. s \in rows
  BY <1>2, <1>5 DEF PreviousScores, Earlier
<1>7. rows \in SUBSET TrendScore
  BY DEF PreviousScores, Earlier, TypeOK
<1>8. \E r \in rows : \A t \in rows : t.run <= r.run
  <2> HIDE DEF rows
  <2>1. QED
    BY <1>6, <1>7, SomeRowIsLatest
<1>9. PreviousFor(c.section, Mint[c.headline]) # {}
  BY <1>8 DEF PreviousFor
<1>10. QED
  BY <1>9 DEF LookedUp

\* A story whose words do not change finds its score of the section's latest day, in every
\* history of runs, reruns, gaps, abandoned runs and lost files (load_previous_scores,
\* make_topic_id).
THEOREM SteadyStoriesHaveMomentumHolds ==
  ASSUME StoriesAreClasses
  PROVE  Spec => []SteadyStoriesHaveMomentum
<1>1. Init => LookedUp
  BY DEF Init, LookedUp
<1>2. TopicInv /\ LookedUp /\ [Next]_vars => LookedUp'
  BY StepKeepsLookedUp
<1>3. TopicInv /\ LookedUp => SteadyStoriesHaveMomentum
  BY LookedUpIsFound
<1>4. QED
  BY <1>1, <1>2, <1>3, TopicInvariant, PTL DEF Spec
=============================================================================
