------------------------------- MODULE Intake -------------------------------
(***************************************************************************)
(* From the sources to the stories of a run (pipeline.py:238-404): the     *)
(* collection, and for each section the removal of duplicates and the      *)
(* clustering of what was collected, weighed by the registry as it was     *)
(* before the collection.                                                  *)
(***************************************************************************)
EXTENDS Collection, Curation

CONSTANTS
  ArticlesOf,   \* what a source that is full answers with
  Base          \* reliability_for() of a domain's kind of source, in tenths

ASSUME IntakeAssumption ==
  /\ ArticlesOf \in [Source -> Seq(Article) \ {<<>>}]
  /\ Base \in [Domain -> 0 .. 10]
  /\ From \in [Article -> Domain]

VARIABLE stories    \* of each section [kept, clusters], once they are there

vars == <<collectionVars, stories>>

Section == {Stages[k].section : k \in DOMAIN Stages}

FullDiscount == 5     \* FAILURES_TO_FULL_DISCOUNT

\* A variant with a plausible bug: the index is read after the registry was updated.
ReliabilityAfter(d) ==
  IF registry[d] = Unknown THEN FullDiscount * 5
  ELSE Base[d] * (FullDiscount - (IF registry[d] < FullDiscount THEN registry[d] ELSE FullDiscount))

\* effective_reliability(), in fiftieths; 0.5 for a domain nobody knows.
Reliability(d) ==
  IF before[d] = Unknown THEN FullDiscount * 5
  ELSE Base[d] * (FullDiscount - (IF before[d] < FullDiscount THEN before[d] ELSE FullDiscount))

\* The articles of a section in the order of the result.
Collected(section) ==
  LET Join(seq, s) ==
        IF Stages[StageOf(s)].section = section THEN seq \o ArticlesOf[s] ELSE seq
  IN  FoldLeft(Join, <<>>, found)

Init == CollectionInit /\ stories = <<>>

\* _rank(), up to the ranking itself.
Curate ==
  /\ phase = "collected"
  /\ stories = <<>>
  /\ stories' = [sec \in Section |->
                   LET R == [d \in Domain |-> Reliability(d)]
                       kept == Deduplicate(Collected(sec), R)
                   IN  [kept |-> kept, clusters |-> Cluster(kept, R)]]
  /\ UNCHANGED collectionVars

Next ==
  \/ CollectionNext /\ UNCHANGED stories
  \/ Curate

Spec == Init /\ [][Next]_vars
FairSpec == Spec /\ CollectionFairness

-----------------------------------------------------------------------------
\* What the registry said of a domain when the run began.
Trust(d) == IF before[d] = Unknown THEN 25 ELSE Base[d] * (5 - Min({5, before[d]}))

\* No article disappears for a worse copy: whatever was collected is in the result, or a
\* repetition of it that is no worse; and what is in the result was collected, once
\* (dedup.py:36-126: the copy that is cited in the email).
KeptIsBest ==
  stories # <<>> =>
    \A sec \in Section :
      LET R == [d \in Domain |-> Trust(d)]
          A == ToSet(Collected(sec))
          K == stories[sec].kept
      IN  /\ ToSet(K) \subseteq A
          /\ \A i, j \in DOMAIN K : i # j => Url[K[i]] # Url[K[j]]
          /\ \A a \in A : \E k \in ToSet(K) : k \in Linked(a, A) /\ ~WorseBy(R, k, a)

\* Every article that was kept is in one cluster and once, no cluster is too large, and the
\* headline of a cluster, which its id is made of, is that of its most reliable article
\* (clusterer.py:68-147).
ClustersAreSound ==
  stories # <<>> =>
    \A sec \in Section :
      LET K == ToSet(stories[sec].kept)
          C == stories[sec].clusters
      IN  /\ \A a \in K : Cardinality({p \in (DOMAIN C) \X (1 .. MaxCluster) :
                                         p[2] <= Len(C[p[1]]) /\ C[p[1]][p[2]] = a}) = 1
          /\ \A i \in DOMAIN C :
               /\ Len(C[i]) \in 1 .. MaxCluster
               /\ \A j \in DOMAIN C[i] :
                    C[i][j] \in K /\ Reliability(From[C[i][j]]) <= Reliability(From[C[i][1]])
=============================================================================
