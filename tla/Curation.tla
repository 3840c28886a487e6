------------------------------ MODULE Curation ------------------------------
(***************************************************************************)
(* Duplicates and stories of one section (app/cluster/dedup.py,            *)
(* clusterer.py) as functions of the articles in the order in which they   *)
(* were collected, and of the reliability of their domains.  A headline is *)
(* the set of its words; one whose words are all in another's is nearly    *)
(* the same headline, as for token_set_ratio, and two that share enough    *)
(* words that are no stopwords tell the same story.  The finer measures of *)
(* similarity.py are left out.                                             *)
(***************************************************************************)
EXTENDS Integers, Sequences, FiniteSets, SequencesExt

CONSTANTS
  Article,
  Url, Words, From, Date,   \* of each article; Date 0 when it has none
  Stopwords,
  SharedWords,              \* how many shared words make one story
  MaxCluster                \* MAX_CLUSTER_SIZE

ASSUME CurationAssumption ==
  /\ Date \in [Article -> Nat]
  /\ SharedWords \in Nat \ {0} /\ MaxCluster \in Nat \ {0}

Tokens(a) == Words[a] \ Stopwords
NearDuplicate(a, b) ==
  /\ Words[a] \cap Words[b] # {}
  /\ Words[a] \subseteq Words[b] \/ Words[b] \subseteq Words[a]
SameStory(a, b) ==
  NearDuplicate(a, b) \/ Cardinality(Tokens(a) \cap Tokens(b)) >= SharedWords

\* R is the reliability of each domain.
Better(a, b, R) ==
  IF R[From[a]] # R[From[b]] THEN IF R[From[a]] > R[From[b]] THEN a ELSE b
  ELSE IF Date[a] # 0 /\ Date[b] # 0 THEN IF Date[a] <= Date[b] THEN a ELSE b
  ELSE IF Date[a] # 0 THEN a ELSE b

First(P) == CHOOSE i \in P : \A j \in P : i <= j

\* One article taken into the list, in the place of the one it repeats.
Merge(kept, a, P, R) ==
  IF P = {} THEN Append(kept, a)
  ELSE [kept EXCEPT ![First(P)] = Better(@, a, R)]

ByUrl(articles, R) ==
  LET Add(kept, a) == Merge(kept, a, {i \in DOMAIN kept : Url[kept[i]] = Url[a]}, R)
  IN  FoldLeft(Add, <<>>, articles)

\* The hash is that of the normalised headline.
ByHash(articles, R) ==
  LET Add(kept, a) == Merge(kept, a, {i \in DOMAIN kept : Words[kept[i]] = Words[a]}, R)
  IN  FoldLeft(Add, <<>>, articles)

\* The index has the words of the article that opened each place, whichever is there now.
ByTitle(articles, R) ==
  LET Candidates(s, a) ==
        {i \in DOMAIN s.kept : s.words[i] \cap Tokens(a) # {} /\ NearDuplicate(a, s.kept[i])}
      Add(s, a) ==
        [kept |-> Merge(s.kept, a, Candidates(s, a), R),
         words |-> IF Candidates(s, a) = {} THEN Append(s.words, Tokens(a)) ELSE s.words]
  IN  FoldLeft(Add, [kept |-> <<>>, words |-> <<>>], articles).kept

Deduplicate(articles, R) == ByTitle(ByHash(ByUrl(articles, R), R), R)

-----------------------------------------------------------------------------
\* Inserted after the places P, all that do not come after it, so that equals keep their order.
InsertBehind(seq, P, x) == InsertAt(seq, Cardinality(P) + 1, x)

\* A variant with a plausible bug: one article too many.
TargetOffByOne(clusters, a) ==
  {i \in DOMAIN clusters :
     /\ Len(clusters[i]) <= MaxCluster
     /\ Tokens(clusters[i][1]) \cap Tokens(a) # {}
     /\ SameStory(a, clusters[i][1])}

\* The cluster an article joins: of those that are not full and tell its story, the one
\* that shares most with it.
Target(clusters, a) ==
  LET S == {i \in DOMAIN clusters :
              /\ Len(clusters[i]) < MaxCluster
              /\ Tokens(clusters[i][1]) \cap Tokens(a) # {}
              /\ SameStory(a, clusters[i][1])}
      Shared(i) == Cardinality(Tokens(clusters[i][1]) \cap Tokens(a))
  IN  {i \in S : \A j \in S : Shared(j) < Shared(i) \/ (Shared(j) = Shared(i) /\ i <= j)}

\* The most reliable first, and of those the earliest: the first of a story opens its cluster.
Sorted(articles, R) ==
  LET Earlier(a, b) ==
        R[From[a]] > R[From[b]] \/ (R[From[a]] = R[From[b]] /\ Date[a] < Date[b])
      Insert(seq, a) == InsertBehind(seq, {i \in DOMAIN seq : ~Earlier(a, seq[i])}, a)
  IN  FoldLeft(Insert, <<>>, articles)

Grouped(articles) ==
  LET Add(clusters, a) ==
        IF Target(clusters, a) = {} THEN Append(clusters, <<a>>)
        ELSE [clusters EXCEPT ![First(Target(clusters, a))] = Append(@, a)]
  IN  FoldLeft(Add, <<>>, articles)

LargestFirst(clusters) ==
  LET Domains(c) == Cardinality({From[c[i]] : i \in DOMAIN c})
      Larger(c, d) == Domains(c) > Domains(d) \/ (Domains(c) = Domains(d) /\ Len(c) > Len(d))
      Insert(seq, c) == InsertBehind(seq, {i \in DOMAIN seq : ~Larger(c, seq[i])}, c)
  IN  FoldLeft(Insert, <<>>, clusters)

Cluster(articles, R) == LargestFirst(Grouped(Sorted(articles, R)))

-----------------------------------------------------------------------------
\* Two articles that are one by the measure of some level.
Repeats(a, b) == Url[a] = Url[b] \/ Words[a] = Words[b] \/ NearDuplicate(a, b)

\* Those of A that a chain of repetitions leads to from a.
Linked(a, A) ==
  {b \in A : \A C \in SUBSET A :
     (a \in C /\ \A x \in C, y \in A : Repeats(x, y) => y \in C) => b \in C}

\* What the founder would call the worse copy: of a less reliable domain, or of one as
\* reliable and later, or without a date.
WorseBy(R, a, b) ==
  \/ R[From[a]] < R[From[b]]
  \/ /\ R[From[a]] = R[From[b]]
     /\ Date[b] # 0
     /\ Date[a] = 0 \/ Date[a] > Date[b]
=============================================================================
