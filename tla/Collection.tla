----------------------------- MODULE Collection -----------------------------
(***************************************************************************)
(* The collection of a run (app/collect): the channels of a section one    *)
(* after the other, the feeds of the RSS channel together under a          *)
(* semaphore, the requests of the others in turn, each request tried a     *)
(* bounded number of times; then the registry of sources takes the         *)
(* outcomes in.  A source answers with articles (full), with none (bare),  *)
(* fails, or ends in an exception fetch() does not catch (escaped).        *)
(***************************************************************************)
EXTENDS Integers, Sequences, FiniteSets, SequencesExt

CONSTANTS
  Source,     \* the feeds and queries
  Stages,     \* the channels of both sections in turn: [section, kind, sources]
  Slots,      \* DEFAULT_CONCURRENCY
  Attempts,   \* DEFAULT_ATTEMPTS
  Domain,     \* domains of sources and articles
  DomainOf,   \* the domain of each source
  Known       \* the failure counts the registry may hold when the run begins

Unknown == -1         \* a domain that sources.csv does not have

SourcesOf(k) == {Stages[k].sources[i] : i \in DOMAIN Stages[k].sources}
StageOf(s) == CHOOSE k \in DOMAIN Stages : s \in SourcesOf(k)
IsFeed(s) == Stages[StageOf(s)].kind = "rss"

ASSUME CollectionAssumption ==
  /\ Slots \in Nat \ {0} /\ Attempts \in Nat \ {0}
  /\ DomainOf \in [Source -> Domain]
  /\ Known \subseteq {Unknown} \cup Nat

\* A source is one entry of one channel's list.
ASSUME StagesAssumption ==
  /\ IsFiniteSet(Source)
  /\ Stages \in Seq([section : STRING, kind : STRING, sources : Seq(Source)])
  /\ \A s \in Source : \E k \in DOMAIN Stages : s \in SourcesOf(k)
  /\ \A k, l \in DOMAIN Stages :
       \A i \in DOMAIN Stages[k].sources, j \in DOMAIN Stages[l].sources :
         Stages[k].sources[i] = Stages[l].sources[j] => k = l /\ i = j

VARIABLES
  phase,      \* "between" and "in" channels; then how the collection ended
  stage,      \* the channel it is at
  task,       \* what each request is doing
  tries,      \* how often it has been tried
  free,       \* the semaphore of the RSS collector
  outcomes,   \* the SourceOutcomes so far, as [source, ok]
  found,      \* the sources whose articles are in the result
  lost,       \* the channels that raised; nothing in the code keeps it
  before,     \* the registry as it was read before the collection
  registry    \* failure_count of each domain

collectionVars == <<phase, stage, task, tries, free, outcomes, found, lost, before, registry>>

Ended == {"full", "bare", "failed"}
Over == {"collected", "no news", "cut"}

CollectionTypeOK ==
  /\ phase \in {"between", "in", "registry"} \cup Over
  /\ stage \in 1 .. Len(Stages) + 1
  /\ task \in [Source -> {"idle", "waiting", "fetching", "escaped"} \cup Ended]
  /\ tries \in [Source -> 0 .. Attempts]
  /\ free \in 0 .. Slots
  /\ outcomes \in Seq([source : Source, ok : BOOLEAN])
  /\ found \in Seq(Source)
  /\ lost \subseteq DOMAIN Stages
  /\ before \in [Domain -> {Unknown} \cup Nat]
  /\ registry \in [Domain -> {Unknown} \cup Nat]

CollectionInit ==
  /\ phase = "between"
  /\ stage = 1
  /\ task = [s \in Source |-> "idle"]
  /\ tries = [s \in Source |-> 0]
  /\ free = Slots
  /\ outcomes = <<>>
  /\ found = <<>>
  /\ lost = {}
  /\ before \in [Domain -> Known]
  /\ registry = before

-----------------------------------------------------------------------------
\* collect_section() turns to the next channel: gather() makes a task of every feed.
StartChannel ==
  /\ phase = "between"
  /\ stage <= Len(Stages)
  /\ task' = [s \in Source |-> IF s \in SourcesOf(stage) THEN "waiting" ELSE task[s]]
  /\ phase' = "in"
  /\ UNCHANGED <<stage, tries, free, outcomes, found, lost, before, registry>>

Begin(s) ==
  /\ task' = [task EXCEPT ![s] = "fetching"]
  /\ tries' = [tries EXCEPT ![s] = 1]
  /\ UNCHANGED <<phase, stage, outcomes, found, lost, before, registry>>

\* A feed gets a slot of the semaphore.
FetchFeed(s) ==
  /\ IsFeed(s) /\ task[s] = "waiting"
  /\ free > 0
  /\ free' = free - 1
  /\ Begin(s)

\* The queries of a search API, and the requests of NewsAPI, are made one after the other.
FetchQuery(s) ==
  /\ ~IsFeed(s) /\ task[s] = "waiting"
  /\ LET queries == Stages[StageOf(s)].sources
     IN  \A i, j \in DOMAIN queries : (queries[j] = s /\ i < j) => task[queries[i]] \in Ended
  /\ UNCHANGED free
  /\ Begin(s)

\* A variant with a plausible bug: the loop of fetch() does not count its attempts.
TryAgainUncounted(s) ==
  /\ task[s] = "fetching"
  /\ tries' = [tries EXCEPT ![s] = IF @ < Attempts THEN @ + 1 ELSE 1]
  /\ UNCHANGED <<phase, stage, task, free, outcomes, found, lost, before, registry>>

\* fetch(): a timeout, a transport error or a transient status, and the pause after it,
\* which keeps the slot.
TryAgain(s) ==
  /\ task[s] = "fetching"
  /\ tries[s] < Attempts
  /\ tries' = [tries EXCEPT ![s] = @ + 1]
  /\ UNCHANGED <<phase, stage, task, free, outcomes, found, lost, before, registry>>

Release(s) == free' = IF IsFeed(s) THEN free + 1 ELSE free

\* fetch() returns: an answer, a permanent failure or the last transient one; a feed that
\* cannot be parsed has failed, an API's answer that is not JSON is an answer without
\* articles.
FetchReturns(s) ==
  /\ task[s] = "fetching"
  /\ \E end \in Ended : task' = [task EXCEPT ![s] = end]
  /\ tries' = [tries EXCEPT ![s] = 0]
  /\ Release(s)
  /\ UNCHANGED <<phase, stage, outcomes, found, lost, before, registry>>

\* A variant with a plausible bug: the semaphore is not released by the exception.
FetchRaisesInside(s) ==
  /\ task[s] = "fetching"
  /\ task' = [task EXCEPT ![s] = "escaped"]
  /\ tries' = [tries EXCEPT ![s] = 0]
  /\ IF phase = "in" /\ s \in SourcesOf(stage)
     THEN lost' = lost \cup {stage} /\ stage' = stage + 1 /\ phase' = "between"
     ELSE UNCHANGED <<lost, stage, phase>>
  /\ UNCHANGED <<free, outcomes, found, before, registry>>

\* A redirect loop, a body that cannot be decoded, or JSON of an unexpected shape: the
\* exception ends the whole collector, whose other tasks go on for nobody.
FetchRaises(s) ==
  /\ task[s] = "fetching"
  /\ task' = [task EXCEPT ![s] = "escaped"]
  /\ tries' = [tries EXCEPT ![s] = 0]
  /\ Release(s)
  /\ IF phase = "in" /\ s \in SourcesOf(stage)
     THEN lost' = lost \cup {stage} /\ stage' = stage + 1 /\ phase' = "between"
     ELSE UNCHANGED <<lost, stage, phase>>
  /\ UNCHANGED <<outcomes, found, before, registry>>

OutcomeOf(s) == [source |-> s, ok |-> task[s] # "failed"]
IsFull(s) == task[s] = "full"

\* The articles of a source go behind those of the sources before it.
Taken(articles, s) == IF IsFull(s) THEN Append(articles, s) ELSE articles

\* A variant with a plausible bug: the results are taken as they came in, failures first.
MergeChannelUnordered ==
  /\ phase = "in"
  /\ \A s \in SourcesOf(stage) : task[s] \in Ended
  /\ LET done == Stages[stage].sources
         Failed(s) == task[s] = "failed"
         Fine(s) == task[s] # "failed"
         seen == SelectSeq(done, Failed) \o SelectSeq(done, Fine)
     IN  /\ outcomes' = outcomes \o [i \in DOMAIN seen |-> OutcomeOf(seen[i])]
         /\ found' = FoldLeft(Taken, found, seen)
  /\ stage' = stage + 1
  /\ phase' = "between"
  /\ UNCHANGED <<task, tries, free, lost, before, registry>>

\* A variant with a plausible bug: a failed source ends the merging of its channel.
MergeChannelUntilFailure ==
  /\ phase = "in"
  /\ \A s \in SourcesOf(stage) : task[s] \in Ended
  /\ LET seen == Stages[stage].sources
         Merged(articles, s) ==
           IF \A r \in SourcesOf(stage) : task[r] # "failed" THEN Taken(articles, s) ELSE articles
     IN  /\ outcomes' = outcomes \o [i \in DOMAIN seen |-> OutcomeOf(seen[i])]
         /\ found' = FoldLeft(Merged, found, seen)
  /\ stage' = stage + 1
  /\ phase' = "between"
  /\ UNCHANGED <<task, tries, free, lost, before, registry>>

\* The collector returns, with its results in the configured order.
MergeChannel ==
  /\ phase = "in"
  /\ \A s \in SourcesOf(stage) : task[s] \in Ended
  /\ LET seen == Stages[stage].sources
     IN  /\ outcomes' = outcomes \o [i \in DOMAIN seen |-> OutcomeOf(seen[i])]
         /\ found' = FoldLeft(Taken, found, seen)
  /\ stage' = stage + 1
  /\ phase' = "between"
  /\ UNCHANGED <<task, tries, free, lost, before, registry>>

\* collect_all(): NO_USABLE_NEWS when neither section has an article.  The client is
\* closed, which ends the tasks nobody waits for.
CollectAll ==
  /\ phase = "between"
  /\ stage > Len(Stages)
  /\ phase' = IF found = <<>> THEN "no news" ELSE "registry"
  /\ task' = [s \in Source |-> IF task[s] \in {"waiting", "fetching"} THEN "escaped" ELSE task[s]]
  /\ tries' = [s \in Source |-> 0]
  /\ free' = Slots
  /\ UNCHANGED <<stage, outcomes, found, lost, before, registry>>

\* One outcome taken into the registry.
Counted(counts, o) ==
  LET d == DomainOf[o.source]
  IN  [counts EXCEPT ![d] = IF o.ok THEN 0 ELSE IF @ = Unknown THEN 1 ELSE @ + 1]

UpdateRegistry ==
  /\ phase = "registry"
  /\ registry' = FoldLeft(Counted, registry, outcomes)
  /\ phase' = "collected"
  /\ UNCHANGED <<stage, task, tries, free, outcomes, found, lost, before>>

\* The timeout of the run cancels everything, or the process dies.
CutCollection ==
  /\ phase \notin Over
  /\ phase' = "cut"
  /\ task' = [s \in Source |-> IF task[s] \in {"waiting", "fetching"} THEN "escaped" ELSE task[s]]
  /\ tries' = [s \in Source |-> 0]
  /\ free' = Slots
  /\ UNCHANGED <<stage, outcomes, found, lost, before, registry>>

CollectionNext ==
  \/ StartChannel \/ MergeChannel \/ CollectAll \/ UpdateRegistry \/ CutCollection
  \/ \E s \in Source : FetchFeed(s) \/ FetchQuery(s) \/ TryAgain(s) \/ FetchReturns(s) \/ FetchRaises(s)

\* Every request has a timeout and every pause an end, and what waits for a source goes on
\* when it has ended.  That an attempt ends says nothing of the fetch: another attempt is as
\* fair an outcome as a return, so only the counter of attempts makes the fetch end.
CollectionFairness ==
  /\ WF_collectionVars(StartChannel \/ MergeChannel \/ CollectAll \/ UpdateRegistry)
  /\ \A s \in Source :
       /\ WF_collectionVars(FetchFeed(s) \/ FetchQuery(s))
       /\ WF_collectionVars(TryAgain(s) \/ FetchReturns(s) \/ FetchRaises(s))

-----------------------------------------------------------------------------
\* The semaphore is worth what is not in use, also while the tasks of a channel that was
\* given up still run beside those of the next section (rss.py:71-75): a slot that is not
\* given back would starve it.
SlotsConserved ==
  free + Cardinality({s \in Source : IsFeed(s) /\ task[s] = "fetching"}) = Slots

\* The channel of s has returned.
Returned(s) == StageOf(s) < stage /\ StageOf(s) \notin lost

\* The channels have their turns: nobody asks a source of a channel still to come.
ChannelsInTurn ==
  /\ phase = "in" => stage <= Len(Stages)
  /\ lost \subseteq 1 .. stage - 1
  /\ \A s \in Source :
       task[s] \in {"waiting", "fetching"} =>
         StageOf(s) < stage \/ (StageOf(s) = stage /\ phase = "in")

\* The result is what the sources of the channels that returned came to, and no more.
ResultIsReturned ==
  /\ \A s \in Source : Returned(s) =>
       /\ task[s] \in Ended
       /\ task[s] = "full" => \E i \in DOMAIN found : found[i] = s
       /\ \E i \in DOMAIN outcomes : outcomes[i] = OutcomeOf(s)
  /\ \A i \in DOMAIN found : Returned(found[i]) /\ task[found[i]] = "full"
  /\ \A i \in DOMAIN outcomes :
       /\ Returned(outcomes[i].source)
       /\ outcomes[i] = OutcomeOf(outcomes[i].source)

\* Source r comes before s in the configuration.
ListedBefore(r, s) ==
  \/ StageOf(r) < StageOf(s)
  \/ /\ StageOf(r) = StageOf(s)
     /\ \E m, n \in DOMAIN Stages[StageOf(s)].sources :
          m < n /\ Stages[StageOf(s)].sources[m] = r /\ Stages[StageOf(s)].sources[n] = s

OutcomesInOrder ==
  \A i, j \in DOMAIN outcomes : i < j => ListedBefore(outcomes[i].source, outcomes[j].source)

\* Whatever the other sources did, in whatever order they ended: once a channel has
\* returned, each of its sources that had articles has them in the result, and each has
\* one outcome, which says whether it answered (rss.py:6, http.py:3-4).
OneSourceCostsOneSource ==
  \A s \in Source :
    Returned(s) =>
       /\ (task[s] = "full") <=> \E i \in DOMAIN found : found[i] = s
       /\ Cardinality({i \in DOMAIN outcomes : outcomes[i].source = s}) = 1
       /\ \A i \in DOMAIN outcomes :
            outcomes[i].source = s => (outcomes[i].ok <=> task[s] # "failed")

\* The count of a domain is the number of its sources that failed after the last one that
\* answered, in the configured order and not in that of the answers, on top of what it was
\* if none did (sources.py:40-56).
TrailingFailures(d) ==
  LET own == {i \in DOMAIN outcomes : DomainOf[outcomes[i].source] = d}
      fine == {i \in own : outcomes[i].ok}
      after == {i \in own : \A j \in fine : j < i}
  IN  IF fine # {} THEN Cardinality(after)
      ELSE IF before[d] = Unknown /\ after # {} THEN Cardinality(after)
      ELSE before[d] + Cardinality(after)

RegistryFollowsOrder ==
  phase = "collected" => OutcomesInOrder /\ \A d \in Domain : registry[d] = TrailingFailures(d)

\* The inductive invariant.
CollectionInv ==
  /\ CollectionTypeOK
  /\ SlotsConserved
  /\ phase = "registry" => found # <<>>
  /\ ChannelsInTurn
  /\ ResultIsReturned
  /\ OutcomesInOrder
  /\ phase # "collected" => registry = before
  /\ RegistryFollowsOrder

\* However often the sources time out or fail for the moment, a collection ends, with a
\* result or without one: the attempts of every fetch are counted (http.py:69-100) and the
\* slot of a feed is given back whichever way it ended (rss.py:60-69).
CollectionEnds == <>(phase \in Over)
=============================================================================
