--------------------------- MODULE TopicIdentity ---------------------------
(***************************************************************************)
(* The identity of stories from run to run: what a run does with           *)
(* topics.csv and trend_scores.csv (BriefingRunner._rank and               *)
(* _persist_analysis, app/cluster/topics.py, app/rank/history.py and the   *)
(* retention of both files), over several days, with reruns of a day, runs *)
(* that end between any two steps and files that are lost.                 *)
(*                                                                         *)
(* A cluster is known by its headline.  Its id is minted from the words of *)
(* the headline; a story that is reworded overnight mints another one, and *)
(* reconcile() gives it back the id of the stored topic it matches.  The   *)
(* text similarity is a constant relation, and stories are what that       *)
(* relation says they are.  The values of the scores are left out: what    *)
(* matters is which row a run finds.  `headline' of a score is not a       *)
(* column of the file; it says whose score the row is.                     *)
(***************************************************************************)
EXTENDS Integers, FiniteSets

CONSTANTS
  Headline,       \* the headlines a cluster may have
  Near,           \* same_story, as a set of pairs of headlines
  Mint,           \* make_topic_id
  MaxDay,         \* days
  MaxRuns,        \* runs
  MaxChosen,      \* clusters that a run selects
  MaxAge,         \* days since the oldest article of a cluster
  RetentionDays,  \* Settings.retention_days
  Faults          \* what may go wrong: a subset of FaultKinds

FaultKinds == {"abandon", "lose scores", "lose topics"}

Section == {"global", "niche"}
Day == 1 .. MaxDay
Id == {Mint[h] : h \in Headline}

ASSUME TopicBoundsAssumption ==
  /\ MaxDay \in Nat \ {0} /\ MaxRuns \in Nat /\ MaxChosen \in Nat
  /\ MaxAge \in Nat /\ RetentionDays \in Nat
  /\ Faults \subseteq FaultKinds
\* The cosine is symmetric and a headline with any words matches itself.
ASSUME NearAssumption ==
  /\ Near \subseteq Headline \X Headline
  /\ \A h \in Headline : <<h, h>> \in Near
  /\ \A h, k \in Headline : <<h, k>> \in Near => <<k, h>> \in Near
\* The id is a digest of the set of words, and equal sets have cosine 1.
ASSUME MintAssumption ==
  /\ Mint \in [Headline -> Id]
  /\ \A h, k \in Headline : Mint[h] = Mint[k] => <<h, k>> \in Near

SameStory(h, k) == <<h, k>> \in Near

Topic == [id : Id, section : Section, headline : Headline, first : Day, last : Day]
TrendScore ==
  [id : Id, section : Section, headline : Headline, date : Day, run : 1 .. MaxRuns]
Cluster == [section : Section, headline : Headline, previous : SUBSET TrendScore]

VARIABLES
  today,    \* the date of `now'
  run,      \* how many runs have started
  pc,       \* what the run does next
  pending,  \* the selected clusters that reconcile() has not come to yet
  current,  \* the topics it has made of the others
  claimed,  \* the ids it has matched
  topics,   \* topics.csv
  scores,   \* trend_scores.csv
  intact    \* the last run before topics.csv was last lost; nothing in the code keeps it

vars == <<today, run, pc, pending, current, claimed, topics, scores, intact>>

TypeOK ==
  /\ today \in Day
  /\ run \in 0 .. MaxRuns
  /\ pc \in {"idle", "clean", "rank", "reconcile", "score"}
  /\ pending \in SUBSET Cluster
  /\ current \in SUBSET Topic
  /\ claimed \in SUBSET Id
  /\ topics \in SUBSET Topic
  /\ scores \in SUBSET TrendScore
  /\ intact \in 0 .. MaxRuns

Init ==
  /\ today = 1
  /\ run = 0
  /\ pc = "idle"
  /\ pending = {} /\ current = {} /\ claimed = {}
  /\ topics = {} /\ scores = {}
  /\ intact = 0

(***************************************************************************)
(* A run                                                                   *)
(***************************************************************************)
\* cleanup_old_data takes one dataset after the other; this is the first
\* thing a run does to these files.
WithinRetention(date) == date >= today - RetentionDays

CleanTopics ==
  /\ pc = "idle" /\ run < MaxRuns
  /\ run' = run + 1
  /\ topics' = {t \in topics : WithinRetention(t.last)}
  /\ pc' = "clean"
  /\ UNCHANGED <<today, pending, current, claimed, scores, intact>>

CleanScores ==
  /\ pc = "clean"
  /\ scores' = {s \in scores : WithinRetention(s.date)}
  /\ pc' = "rank"
  /\ UNCHANGED <<today, run, pending, current, claimed, topics, intact>>

\* Variants with a plausible bug: today's scores count; only yesterday's do.
EarlierOrToday(section) == {s \in scores : s.section = section /\ s.date <= today}
ScoresOfYesterday(section) == {s \in scores : s.section = section /\ s.date = today - 1}

\* The scores of the latest day before today, whichever that is.  Of several
\* rows of one id the last wins.
Earlier(section) == {s \in scores : s.section = section /\ s.date < today}
PreviousScores(section) ==
  {s \in Earlier(section) : \A t \in Earlier(section) : t.date <= s.date}
PreviousFor(section, id) ==
  LET rows == {s \in PreviousScores(section) : s.id = id}
  IN  {s \in rows : \A t \in rows : t.run <= s.run}

\* Which clusters are made of the day's articles and selected is left open:
\* their headlines are of different stories, because an article that matches
\* a cluster's headline joins it.
Selection ==
  {H \in SUBSET Headline : \A h, k \in H : SameStory(h, k) => h = k}

Ranked(section, headline) ==
  [section |-> section, headline |-> headline,
   previous |-> PreviousFor(section, Mint[headline])]

Rank ==
  /\ pc = "rank"
  /\ \E selected \in [Section -> Selection] :
       /\ Cardinality(selected["global"]) + Cardinality(selected["niche"]) <= MaxChosen
       /\ pending' = UNION {{Ranked(section, h) : h \in selected[section]} : section \in Section}
  /\ pc' = "reconcile"
  /\ UNCHANGED <<today, run, current, claimed, topics, scores, intact>>

\* The stored topics a cluster may be given: which of them has the highest
\* cosine depends on the words of the whole run.
Matches(cluster) ==
  {t \in topics : t.id \notin claimed /\ t.section = cluster.section
                  /\ SameStory(cluster.headline, t.headline)}

\* The topic of a cluster whose oldest article is of the day `earliest'.
NewTopic(cluster, earliest) ==
  [id |-> Mint[cluster.headline], section |-> cluster.section,
   headline |-> cluster.headline, first |-> earliest, last |-> today]
\* A variant with a plausible bug: first_seen starts again.
CarriedTopicRestarted(cluster, match, earliest) ==
  [id |-> match.id, section |-> match.section, headline |-> cluster.headline,
   first |-> earliest, last |-> today]
CarriedTopic(cluster, match, earliest) ==
  [id |-> match.id, section |-> match.section, headline |-> cluster.headline,
   first |-> IF match.first <= earliest THEN match.first ELSE earliest, last |-> today]

\* Without a dated article the topic starts now.
Published == {d \in Day : today - MaxAge <= d /\ d <= today}

\* The global clusters come before those of the brands.
Reconcile ==
  /\ pc = "reconcile"
  /\ \E cluster \in pending, earliest \in Published :
       /\ cluster.section = "global" \/ \A c \in pending : c.section = "niche"
       /\ pending' = pending \ {cluster}
       /\ \/ /\ Matches(cluster) = {}
             /\ current' = current \cup {NewTopic(cluster, earliest)}
             /\ UNCHANGED claimed
          \/ \E match \in Matches(cluster) :
               /\ current' = current \cup {CarriedTopic(cluster, match, earliest)}
               /\ claimed' = claimed \cup {match.id}
  /\ UNCHANGED <<today, run, pc, topics, scores, intact>>

\* A variant with a plausible bug: the old row of a carried topic stays.
MergeKeepsAll(existing, new) == existing \cup new
MergeTopicHistory(existing, new) ==
  {t \in existing : \A n \in new : t.id # n.id} \cup new

WriteTopics ==
  /\ pc = "reconcile" /\ pending = {}
  /\ topics' = MergeTopicHistory(topics, current)
  /\ pc' = "score"
  /\ UNCHANGED <<today, run, pending, current, claimed, scores, intact>>

\* A variant with a plausible bug: the scores carry the ids of the new headlines.
TrendScoreOfMint(topic) ==
  [id |-> Mint[topic.headline], section |-> topic.section, headline |-> topic.headline,
   date |-> today, run |-> run]
\* The scores carry the ids that reconcile() has put into the clusters.
TrendScoreOf(topic) ==
  [id |-> topic.id, section |-> topic.section, headline |-> topic.headline,
   date |-> today, run |-> run]

WriteScores ==
  /\ pc = "score"
  /\ scores' = scores \cup {TrendScoreOf(t) : t \in current}
  /\ pc' = "idle" /\ current' = {} /\ claimed' = {}
  /\ UNCHANGED <<today, run, pending, topics, intact>>

(***************************************************************************)
(* What goes wrong, and the calendar                                       *)
(***************************************************************************)
\* The run fails, is timed out or dies: its clusters are gone, what it has
\* written stays.
Abandon ==
  /\ "abandon" \in Faults /\ pc # "idle"
  /\ pc' = "idle" /\ pending' = {} /\ current' = {} /\ claimed' = {}
  /\ UNCHANGED <<today, run, topics, scores, intact>>

\* Between two runs, and not after the last.
MayChange == pc = "idle" /\ run < MaxRuns

\* A file that cannot be read is put aside and reads as empty.
LoseScores ==
  /\ "lose scores" \in Faults /\ MayChange /\ scores # {}
  /\ scores' = {}
  /\ UNCHANGED <<today, run, pc, pending, current, claimed, topics, intact>>

LoseTopics ==
  /\ "lose topics" \in Faults /\ MayChange /\ topics # {}
  /\ topics' = {} /\ intact' = run
  /\ UNCHANGED <<today, run, pc, pending, current, claimed, scores>>

NextDay ==
  /\ MayChange /\ today < MaxDay
  /\ today' = today + 1
  /\ UNCHANGED <<run, pc, pending, current, claimed, topics, scores, intact>>

Next ==
  \/ CleanTopics \/ CleanScores \/ Rank \/ Reconcile \/ WriteTopics \/ WriteScores
  \/ Abandon \/ LoseScores \/ LoseTopics \/ NextDay

Spec == Init /\ [][Next]_vars

(***************************************************************************)
(* What holds                                                              *)
(***************************************************************************)
\* The similarity of texts need not be transitive.  When it is, stories are
\* its classes; what follows is promised for that case.
StoriesAreClasses ==
  \A h, k, l \in Headline : SameStory(h, k) /\ SameStory(k, l) => SameStory(h, l)

SameStoryAndSection(r, s) == r.section = s.section /\ SameStory(r.headline, s.headline)

\* Between runs nothing is selected.  Clusters wait until their topic is made, the topics
\* are made today, of stories that do not repeat in a section, and written before scores.
SelectionIsFresh ==
  /\ pc \in {"idle", "clean", "rank"} => pending = {} /\ current = {} /\ claimed = {}
  /\ pc = "score" => pending = {} /\ current \subseteq topics
  /\ \A c, d \in pending : SameStoryAndSection(c, d) => c = d
  /\ \A c, d \in current : SameStoryAndSection(c, d) => c = d
  /\ \A c \in pending, d \in current : ~SameStoryAndSection(c, d)
  /\ \A c \in current : c.last = today

\* An id is minted from a headline of the story whose row has it: it belongs to one
\* story in both files, both sections and on every day.
IdsAreOfTheStory ==
  \A r \in topics \cup current \cup scores :
    \E h \in Headline : Mint[h] = r.id /\ SameStory(h, r.headline)

\* topics.csv has one row for a story in a section, however often the story was reworded,
\* rerun, abandoned or claimed by the other section.
OneTopicPerStory == \A t, u \in topics : SameStoryAndSection(t, u) => t = u

\* A topic that a run makes takes the place of the stored one of its story and section,
\* and has its first_seen, unless the stored id is taken by the other section.
InOtherSection(topic) == \E t \in topics : t.id = topic.id /\ t.section # topic.section

TopicsAreReplaced ==
  pc = "reconcile" =>
    /\ \A i \in claimed : \E c \in current, t \in topics :
         c.id = i /\ t.id = i /\ SameStoryAndSection(c, t)
    /\ \A c \in current, t \in topics : SameStoryAndSection(c, t) =>
         /\ \E d \in current : d.id = t.id
         /\ c.id = t.id => c.first <= t.first \/ InOtherSection(t)

\* No row is of a later day or run than the present.
RowsArePast ==
  /\ intact <= run
  /\ \A t \in topics : t.last <= today
  /\ \A s \in scores : s.date <= today /\ s.run <= run
  /\ pc # "idle" => run > intact

\* Every score that is not due to be removed has its topic in topics.csv, at
\* least as recent as the score, since topics.csv was last lost: the two
\* files agree on the ids (the docstring of _persist_analysis, and
\* test_trend_scores_and_topics_agree_on_topic_ids_across_days).
ScoresHaveTopics ==
  \A s \in scores :
    s.run > intact /\ WithinRetention(s.date) => \E t \in topics : t.id = s.id /\ t.last >= s.date

\* The score a cluster's momentum is measured against is its own story's, of
\* its own section, of an earlier day, and no day in between has scores of
\* the section (load_previous_scores).
MomentumIsOwn ==
  \A c \in pending : \A p \in c.previous :
    /\ SameStory(p.headline, c.headline)
    /\ p.section = c.section /\ p.date < today
    /\ \A s \in scores : s.section = c.section /\ s.date < today => s.date <= p.date

\* The story has a score of the section's latest day before today.
ScoredLast(section, headline) ==
  \E s \in scores :
    /\ s.section = section /\ SameStory(s.headline, headline) /\ s.date < today
    /\ \A t \in scores : t.section = section /\ t.date < today => t.date <= s.date

\* A story all of whose headlines have the same words finds its score of the
\* section's latest day, whatever runs, reruns, gaps, abandoned runs and
\* lost files came before (load_previous_scores, make_topic_id).
SteadyStoriesHaveMomentum ==
  \A c \in pending :
    (\A h \in Headline : SameStory(h, c.headline) => Mint[h] = Mint[c.headline])
      => (ScoredLast(c.section, c.headline) => c.previous # {})

\* The inductive invariant.
TopicInv ==
  /\ TypeOK
  /\ SelectionIsFresh
  /\ IdsAreOfTheStory
  /\ OneTopicPerStory
  /\ TopicsAreReplaced
  /\ RowsArePast

\* No step of a run takes a topic's row away that is not expired, or moves its first_seen
\* forward or its last_seen back, unless a topic of the other section has the same id
\* (reconcile, merge_topic_history).
Shared(topic) == \E t \in topics \cup current : t.id = topic.id /\ t.section # topic.section

TopicHistoryKept ==
  [][run' # run \/ pc # "idle" =>
       \A t \in topics : WithinRetention(t.last) /\ ~Shared(t) =>
         \E u \in topics' : /\ u.id = t.id /\ u.section = t.section
                            /\ u.first <= t.first /\ u.last >= t.last]_vars

(***************************************************************************)
(* What the documentation says and the code does not do                    *)
(***************************************************************************)
\* "A story that ran yesterday and is still running today" finds its score
\* of yesterday (app/cluster/topics.py:3-5, and the docstring of
\* _persist_analysis).
RunningStoriesHaveMomentum ==
  \A c \in pending : ScoredLast(c.section, c.headline) => c.previous # {}

\* The topics after a run are "today's rows, plus untouched history"
\* (app/cluster/topics.py:124-125): a row that is not of a story the run
\* selected in that section stays.
UntouchedHistoryKept ==
  [][pc = "reconcile" =>
       \A t \in topics :
         (\A u \in current : u.section = t.section => ~SameStory(u.headline, t.headline))
           => t \in topics']_vars
=============================================================================
