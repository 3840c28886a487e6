---------------------------- MODULE Curation_proofs ----------------------------
(***************************************************************************)
(* What the removal of duplicates and the clustering give for every list   *)
(* of articles and every reliability.  The library's induction takes an    *)
(* operator; here a property of the places of a fold is a set of numbers,  *)
(* and the least number outside it is the contradiction (CountingUp).      *)
(* Each fold is first shown to have a value for each set of places and     *)
(* read as a sequence of values h, one for each element (the lemmas        *)
(* ...Runs), and what holds of its steps then holds of its end.            *)
(***************************************************************************)
EXTENDS Curation, WellFoundedInduction, SequenceTheorems, FiniteSetTheorems, TLAPS

(***************************************************************************)
(* Counting and folding                                                    *)
(***************************************************************************)
\* What holds of 0, and of a number up to n if of the one before it, holds up to n.
LEMMA CountingUp ==
  ASSUME NEW n \in Nat, NEW S, 0 \in S, \A i \in 1 .. n : i - 1 \in S => i \in S
  PROVE  \A i \in 0 .. n : i \in S
<1> DEFINE R == OpToRel(<, Nat)
           T == {i \in 0 .. n : i \notin S}
<1> SUFFICES ASSUME T # {} PROVE FALSE
  OBVIOUS
<1>1. \A i, j \in Nat : i < j => <<i, j>> \in R
  BY DEF OpToRel
<1>2. IsWellFoundedOn(R, Nat)
  BY NatLessThanWellFounded
<1>3. T \subseteq Nat
  OBVIOUS
<1>4. PICK i \in T : \A j \in T : <<j, i>> \notin R
  <2> HIDE DEF R, T
  <2>1. QED
    BY <1>2, <1>3, WFMin
<1>5. i \in 0 .. n /\ i \notin S /\ i # 0
  OBVIOUS
<1>6. i - 1 \in T
  BY <1>5
<1>7. QED
  <2> HIDE DEF R
  <2>1. i - 1 \in Nat /\ i \in Nat /\ i - 1 < i
    BY <1>5
  <2>2. <<i - 1, i>> \in R
    BY <1>1, <2>1
  <2>3. QED
    BY <1>4, <1>6, <2>2

\* The greatest of some of the numbers from 1 to i.
LEMMA Greatest ==
  ASSUME NEW i \in Nat, NEW s \in SUBSET (1 .. i), i \in s
  PROVE  Max(s) = i
<1>1. \A y \in s : i >= y
  OBVIOUS
<1>2. \A x \in s : (\A y \in s : x >= y) => x = i
  BY <1>1
<1>3. QED
  BY <1>1, <1>2 DEF Max

\* The numbers from 1 to i, seen from their greatest.
LEMMA FirstPlaces ==
  ASSUME NEW n \in Nat
  PROVE  \A i \in 1 .. n : /\ 1 .. i \in SUBSET (1 .. n)
                           /\ 1 .. i # {}
                           /\ Max(1 .. i) = i
                           /\ (1 .. i) \ {i} = 1 .. (i - 1)
<1> SUFFICES ASSUME NEW i \in 1 .. n
             PROVE  /\ 1 .. i \in SUBSET (1 .. n)
                    /\ 1 .. i # {}
                    /\ Max(1 .. i) = i
                    /\ (1 .. i) \ {i} = 1 .. (i - 1)
  OBVIOUS
<1>1. i \in 1 .. i /\ i \in Nat
  OBVIOUS
<1>2. Max(1 .. i) = i
  BY <1>1, Greatest
<1>3. (1 .. i) \ {i} = 1 .. (i - 1)
  OBVIOUS
<1>4. 1 .. i \in SUBSET (1 .. n)
  OBVIOUS
<1>5. 1 .. i # {}
  BY <1>1
<1>6. QED
  BY <1>2, <1>3, <1>4, <1>5

\* Some numbers have a greatest one.
LEMMA HasGreatest ==
  ASSUME NEW m \in Nat, NEW s \in SUBSET (1 .. m), s # {}
  PROVE  Max(s) \in s /\ \A y \in s : Max(s) >= y
<1> DEFINE P == {k \in 0 .. m : (\A y \in s : y <= k) => \E x \in s : \A y \in s : x >= y}
<1>1. 0 \in P
  <2>1. \A y \in s : ~(y <= 0)
    OBVIOUS
  <2>2. 0 \in 0 .. m
    OBVIOUS
  <2>3. QED
    BY <2>1, <2>2
<1>2. ASSUME NEW k \in 1 .. m, k - 1 \in P PROVE k \in P
  <2>1. CASE k \in s
    BY <2>1
  <2>2. CASE k \notin s
    <3>1. (\A y \in s : y <= k) => \A y \in s : y <= k - 1
      BY <2>2
    <3>2. QED
      BY <1>2, <3>1
  <2>3. QED
    BY <2>1, <2>2
<1> HIDE DEF P
<1>3. m \in P
  <2>1. \A k \in 0 .. m : k \in P
    BY <1>1, <1>2, CountingUp
  <2>2. QED
    BY <2>1
<1>4. \E x \in s : \A y \in s : x >= y
  BY <1>3 DEF P
<1>5. QED
  BY <1>4 DEF Max

\* f has the value of a fold for each set of the places 1 .. n.
IsFold(f, n, V, base, step) ==
  /\ f \in [SUBSET (1 .. n) -> V]
  /\ \A s \in SUBSET (1 .. n) :
       f[s] = IF s = {} THEN base ELSE step[Max(s)][f[s \ {Max(s)}]]

\* A fold over the places 1 .. n has a value for each set of places.
LEMMA FoldExists ==
  ASSUME NEW n \in Nat, NEW V, NEW base \in V, NEW step \in [1 .. n -> [V -> V]]
  PROVE  \E f : IsFold(f, n, V, base, step)
<1> DEFINE Solves(h, m) ==
             /\ h \in [SUBSET (1 .. m) -> V]
             /\ \A s \in SUBSET (1 .. m) :
                  h[s] = IF s = {} THEN base ELSE step[Max(s)][h[s \ {Max(s)}]]
           S == {m \in 0 .. n : \E h : Solves(h, m)}
<1>1. 0 \in S
  <2> DEFINE f == [s \in SUBSET (1 .. 0) |-> base]
  <2>1. SUBSET (1 .. 0) = {{}}
    OBVIOUS
  <2>2. Solves(f, 0)
    BY <2>1
  <2> HIDE DEF f, Solves
  <2>3. QED
    BY <2>2
<1>2. ASSUME NEW m \in 1 .. n, m - 1 \in S PROVE m \in S
  <2>1. PICK g : Solves(g, m - 1)
    BY <1>2
  <2> DEFINE f == [s \in SUBSET (1 .. m) |-> IF m \in s THEN step[m][g[s \ {m}]] ELSE g[s]]
  <2>2. ASSUME NEW s \in SUBSET (1 .. m)
        PROVE  /\ m \notin s => s \in SUBSET (1 .. (m - 1))
               /\ s \ {m} \in SUBSET (1 .. (m - 1))
    OBVIOUS
  <2>4. f \in [SUBSET (1 .. m) -> V]
    BY <2>1, <2>2
  <2>5. ASSUME NEW s \in SUBSET (1 .. m)
        PROVE  f[s] = IF s = {} THEN base ELSE step[Max(s)][f[s \ {Max(s)}]]
    <3>1. CASE m \in s
      <4>1. Max(s) = m /\ s # {} /\ m \in Nat
        BY <3>1, Greatest
      <4>2. f[s] = step[m][g[s \ {m}]]
        BY <3>1
      <4>3. f[s \ {m}] = g[s \ {m}]
        OBVIOUS
      <4>4. QED
        BY <4>1, <4>2, <4>3
    <3>2. CASE m \notin s /\ s # {}
      <4>1. s \in SUBSET (1 .. (m - 1)) /\ s \ {Max(s)} \in SUBSET (1 .. (m - 1))
        BY <2>2, <3>2
      <4>2. f[s] = g[s] /\ f[s \ {Max(s)}] = g[s \ {Max(s)}]
        BY <3>2, <4>1
      <4>3. QED
        BY <2>1, <3>2, <4>1, <4>2
    <3>3. CASE s = {}
      BY <2>1, <3>3
    <3>4. QED
      BY <3>1, <3>2, <3>3
  <2>6. Solves(f, m)
    BY <2>4, <2>5
  <2> HIDE DEF f, Solves
  <2>7. QED
    BY <2>6
<1> HIDE DEF S
<1>3. n \in S
  <2>1. \A m \in 0 .. n : m \in S
    BY <1>1, <1>2, CountingUp
  <2>2. QED
    BY <2>1
<1>4. PICK f : Solves(f, n)
  BY <1>3 DEF S
<1>5. QED
  BY <1>4 DEF IsFold

(***************************************************************************)
(* Duplicates                                                              *)
(***************************************************************************)
\* R gives each article's domain a number.
Rates(R) == \A a \in Article : R[From[a]] \in Int

\* No worse than what is no worse is no worse.
LEMMA NoWorseIsTransitive ==
  ASSUME NEW R, Rates(R), NEW a \in Article, NEW b \in Article, NEW c \in Article,
         ~WorseBy(R, a, b), ~WorseBy(R, b, c)
  PROVE  ~WorseBy(R, a, c)
<1>1. /\ Date[a] \in Nat /\ Date[b] \in Nat /\ Date[c] \in Nat
      /\ R[From[a]] \in Int /\ R[From[b]] \in Int /\ R[From[c]] \in Int
  BY CurationAssumption DEF Rates
<1>2. QED
  BY <1>1 DEF WorseBy

\* _better() picks one of the two, and no worse one.
LEMMA BetterIsNoWorse ==
  ASSUME NEW R, Rates(R), NEW a \in Article, NEW b \in Article
  PROVE  /\ Better(a, b, R) \in {a, b}
         /\ ~WorseBy(R, Better(a, b, R), a) /\ ~WorseBy(R, Better(a, b, R), b)
<1>1. /\ Date[a] \in Nat /\ Date[b] \in Nat
      /\ R[From[a]] \in Int /\ R[From[b]] \in Int
  BY CurationAssumption DEF Rates
<1>2. QED
  BY <1>1 DEF WorseBy, Better

\* A chain of repetitions can be read from its other end, and be continued.
LEMMA LinkedIsEquivalence ==
  ASSUME NEW A, NEW a \in A, NEW b \in A, NEW c \in A
  PROVE  /\ a \in Linked(a, A)
         /\ Repeats(a, b) => b \in Linked(a, A)
         /\ b \in Linked(a, A) /\ c \in Linked(b, A) => c \in Linked(a, A)
<1>1. a \in Linked(a, A)
  BY DEF Linked
<1>2. Repeats(a, b) => b \in Linked(a, A)
  BY DEF Linked
<1>3. b \in Linked(a, A) /\ c \in Linked(b, A) => c \in Linked(a, A)
  BY DEF Linked
<1>4. QED
  BY <1>1, <1>2, <1>3

\* Repetition goes both ways.
LEMMA RepeatsIsSymmetric ==
  ASSUME NEW a, NEW b, Repeats(a, b)
  PROVE  Repeats(b, a)
BY DEF Repeats, NearDuplicate

\* Each article of S has in K a copy of A that is no worse.
Covers(K, S, A, R) ==
  \A a \in S : \E k \in DOMAIN K : K[k] \in Linked(a, A) /\ ~WorseBy(R, K[k], a)

UrlsDiffer(K) == \A i, j \in DOMAIN K : i # j => Url[K[i]] # Url[K[j]]

\* The first of some places is one of them.
LEMMA FirstOfPlaces ==
  ASSUME NEW n \in Nat, NEW P \in SUBSET (1 .. n), P # {}
  PROVE  First(P) \in P
<1> DEFINE Less == OpToRel(<, Nat)
<1>1. \A i, j \in Nat : i < j => <<i, j>> \in Less
  BY DEF OpToRel
<1>2. IsWellFoundedOn(Less, Nat)
  BY NatLessThanWellFounded
<1>3. P \subseteq Nat
  OBVIOUS
<1> HIDE DEF Less
<1>4. PICK i \in P : \A j \in P : <<j, i>> \notin Less
  BY <1>2, <1>3, WFMin
<1>5. \A j \in P : i <= j
  <2> SUFFICES ASSUME NEW j \in P, ~(i <= j) PROVE FALSE
    OBVIOUS
  <2>1. i \in Nat /\ j \in Nat /\ j < i
    BY <1>3
  <2>2. QED
    BY <1>1, <1>4, <2>1
<1>6. QED
  BY <1>5 DEF First

\* One article more: its copy covers it, and the copy it replaces is covered by it.
LEMMA MergeCovers ==
  ASSUME NEW R, Rates(R), NEW A \in SUBSET Article, NEW K \in Seq(A), NEW S \in SUBSET A,
         NEW a \in A, Covers(K, S, A, R),
         NEW P \in SUBSET (DOMAIN K), \A p \in P : Repeats(K[p], a)
  PROVE  /\ Merge(K, a, P, R) \in Seq(A)
         /\ Covers(Merge(K, a, P, R), S \cup {a}, A, R)
         /\ ToSet(Merge(K, a, P, R)) \subseteq ToSet(K) \cup {a}
<1> DEFINE M == Merge(K, a, P, R)
<1>0. Len(K) \in Nat /\ DOMAIN K = 1 .. Len(K) /\ \A i \in DOMAIN K : K[i] \in A
  BY LenProperties, ElementOfSeq
<1>1. CASE P = {}
  <2>1. M = Append(K, a)
    BY <1>1 DEF Merge
  <2>2. /\ M \in Seq(A) /\ Len(M) = Len(K) + 1
        /\ \A i \in DOMAIN K : M[i] = K[i]
        /\ M[Len(K) + 1] = a
    BY <1>0, <2>1, AppendProperties
  <2> HIDE DEF M
  <2>3. DOMAIN M = 1 .. Len(K) + 1
    BY <2>2, LenProperties
  <2>4. Covers(M, S, A, R)
    BY <1>0, <2>2, <2>3 DEF Covers
  <2>5. ~WorseBy(R, a, a)
    BY CurationAssumption DEF WorseBy, Rates
  <2>6. Covers(M, {a}, A, R)
    <3>1. Len(K) + 1 \in DOMAIN M
      BY <1>0, <2>3
    <3>2. QED
      BY <2>2, <2>5, <3>1, LinkedIsEquivalence DEF Covers
  <2>7. ToSet(M) \subseteq ToSet(K) \cup {a}
    BY <1>0, <2>2, <2>3 DEF ToSet
  <2>8. QED
    BY <2>2, <2>4, <2>6, <2>7 DEF M, Covers
<1>2. CASE P # {}
  <2> DEFINE p == First(P)
             b == Better(K[p], a, R)
  <2>1. p \in DOMAIN K /\ p \in P /\ Repeats(K[p], a) /\ K[p] \in A
    BY <1>0, <1>2, FirstOfPlaces
  <2>2. M = [K EXCEPT ![p] = b]
    BY <1>2 DEF Merge
  <2>3. b \in {K[p], a} /\ ~WorseBy(R, b, K[p]) /\ ~WorseBy(R, b, a)
    BY <2>1, BetterIsNoWorse
  <2>4. b \in Linked(K[p], A) /\ b \in Linked(a, A) /\ b \in A
    BY <2>1, <2>3, LinkedIsEquivalence, RepeatsIsSymmetric
  <2> HIDE DEF M, p, b
  <2>5. /\ M \in Seq(A) /\ DOMAIN M = DOMAIN K /\ M[p] = b
        /\ \A i \in DOMAIN K : i # p => M[i] = K[i]
    BY <1>0, <2>1, <2>2, <2>4, ExceptSeq
  <2>6. Covers(M, S, A, R)
    <3> SUFFICES ASSUME NEW c \in S
                 PROVE  \E k \in DOMAIN M : M[k] \in Linked(c, A) /\ ~WorseBy(R, M[k], c)
      BY DEF Covers
    <3>1. PICK k \in DOMAIN K : K[k] \in Linked(c, A) /\ ~WorseBy(R, K[k], c)
      BY DEF Covers
    <3>2. CASE k # p
      BY <2>5, <3>1, <3>2
    <3>3. CASE k = p
      <4>1. b \in Linked(c, A)
        BY <2>1, <2>4, <3>1, <3>3, LinkedIsEquivalence
      <4>2. ~WorseBy(R, b, c)
        BY <2>1, <2>3, <2>4, <3>1, <3>3, NoWorseIsTransitive
      <4>3. QED
        BY <2>1, <2>5, <4>1, <4>2
    <3>4. QED
      BY <3>2, <3>3
  <2>7. Covers(M, {a}, A, R)
    BY <2>1, <2>3, <2>4, <2>5 DEF Covers
  <2>8. ToSet(M) \subseteq ToSet(K) \cup {a}
    BY <2>1, <2>3, <2>5 DEF ToSet
  <2>9. QED
    BY <2>5, <2>6, <2>7, <2>8 DEF M, Covers
<1>3. QED
  BY <1>1, <1>2

\* The list stays a list of articles.
LEMMA MergeIsSequence ==
  ASSUME NEW R, Rates(R), NEW K \in Seq(Article), NEW a \in Article, NEW P \in SUBSET (DOMAIN K)
  PROVE  Merge(K, a, P, R) \in Seq(Article)
<1>1. Len(K) \in Nat /\ DOMAIN K = 1 .. Len(K) /\ \A i \in DOMAIN K : K[i] \in Article
  BY LenProperties, ElementOfSeq
<1>2. CASE P = {}
  BY <1>2, AppendProperties DEF Merge
<1>3. CASE P # {}
  <2>1. First(P) \in DOMAIN K
    BY <1>1, <1>3, FirstOfPlaces
  <2>2. Better(K[First(P)], a, R) \in Article
    BY <1>1, <2>1, BetterIsNoWorse
  <2>3. QED
    BY <1>1, <1>3, <2>1, <2>2, ExceptSeq DEF Merge
<1>4. QED
  BY <1>2, <1>3

\* The articles that the first two levels take for one with a.
SameUrl(K, a) == {i \in DOMAIN K : Url[K[i]] = Url[a]}
SameHash(K, a) == {i \in DOMAIN K : Words[K[i]] = Words[a]}

\* The first level, article by article.
LEMMA ByUrlRuns ==
  ASSUME NEW R, Rates(R), NEW seq \in Seq(Article)
  PROVE  \E h : /\ h[0] = <<>>
                /\ \A i \in 1 .. Len(seq) :
                     h[i] = Merge(h[i - 1], seq[i], SameUrl(h[i - 1], seq[i]), R)
                /\ ByUrl(seq, R) = h[Len(seq)]
<1> DEFINE n == Len(seq)
           V == Seq(Article)
           step == [i \in 1 .. n |-> [K \in V |-> Merge(K, seq[i], SameUrl(K, seq[i]), R)]]
           Solves(f) == f = [s \in SUBSET (1 .. n) |->
                               IF s = {} THEN <<>>
                               ELSE Merge(f[s \ {Max(s)}], seq[Max(s)],
                                          SameUrl(f[s \ {Max(s)}], seq[Max(s)]), R)]
           g == CHOOSE f : Solves(f)
           h == [i \in 0 .. n |-> g[1 .. i]]
<1>1. n \in Nat /\ DOMAIN seq = 1 .. n /\ \A i \in 1 .. n : seq[i] \in Article
  BY LenProperties, ElementOfSeq
<1>2. step \in [1 .. n -> [V -> V]]
  BY <1>1, MergeIsSequence DEF SameUrl
<1>3. \E f : IsFold(f, n, V, <<>>, step)
  <2>1. <<>> \in V
    BY EmptySeq
  <2>2. n \in Nat /\ step \in [1 .. n -> [V -> V]]
    BY <1>1, <1>2
  <2> HIDE DEF step, n, V
  <2>3. QED
    BY <2>1, <2>2, FoldExists
<1>4. \E f : Solves(f)
  <2>1. PICK f : IsFold(f, n, V, <<>>, step)
    BY <1>3
  <2>2. \A s \in SUBSET (1 .. n) : s # {} => Max(s) \in 1 .. n
    BY <1>1, HasGreatest
  <2>3. \A s \in SUBSET (1 .. n) :
          s # {} => step[Max(s)][f[s \ {Max(s)}]] =
                      Merge(f[s \ {Max(s)}], seq[Max(s)],
                            SameUrl(f[s \ {Max(s)}], seq[Max(s)]), R)
    <3> HIDE DEF n, V
    <3>1. QED
      BY <2>1, <2>2 DEF IsFold
  <2>4. Solves(f)
    <3> HIDE DEF n, V, step
    <3>1. QED
      BY <2>1, <2>3 DEF IsFold
  <2>5. QED
    BY <2>4
<1>5. Solves(g)
  BY <1>4
<1>6. ByUrl(seq, R) = g[1 .. n]
  BY <1>1 DEF ByUrl, FoldLeft, MapThenFoldSet, SameUrl
<1> HIDE DEF g, n, V, step
<1>7. \A s \in SUBSET (1 .. n) :
        g[s] = IF s = {} THEN <<>>
               ELSE Merge(g[s \ {Max(s)}], seq[Max(s)],
                          SameUrl(g[s \ {Max(s)}], seq[Max(s)]), R)
  BY <1>5
<1>7a. g[1 .. 0] = <<>>
  <2>1. 1 .. 0 = {}
    OBVIOUS
  <2>2. QED
    BY <1>7, <2>1
<1>7b. ASSUME NEW i \in 1 .. n
       PROVE  g[1 .. i] = Merge(g[1 .. (i - 1)], seq[i], SameUrl(g[1 .. (i - 1)], seq[i]), R)
  <2>1. 1 .. i \in SUBSET (1 .. n) /\ 1 .. i # {} /\ Max(1 .. i) = i
        /\ (1 .. i) \ {i} = 1 .. (i - 1)
    BY <1>1, FirstPlaces
  <2> DEFINE s == 1 .. i
  <2> HIDE DEF s
  <2>2. s \in SUBSET (1 .. n) /\ s # {} /\ Max(s) = i /\ s \ {i} = 1 .. (i - 1)
    BY <2>1 DEF s
  <2>3. g[s] = Merge(g[1 .. (i - 1)], seq[i], SameUrl(g[1 .. (i - 1)], seq[i]), R)
    BY <1>7, <2>2
  <2>4. QED
    BY <2>3 DEF s
<1>8. /\ h[0] = <<>>
      /\ \A i \in 1 .. n : h[i] = Merge(h[i - 1], seq[i], SameUrl(h[i - 1], seq[i]), R)
      /\ ByUrl(seq, R) = h[n]
  BY <1>1, <1>6, <1>7a, <1>7b
<1>9. QED
  <2> HIDE DEF h
  <2>1. QED
    BY <1>8 DEF n

\* The second level, article by article.
LEMMA ByHashRuns ==
  ASSUME NEW R, Rates(R), NEW seq \in Seq(Article)
  PROVE  \E h : /\ h[0] = <<>>
                /\ \A i \in 1 .. Len(seq) :
                     h[i] = Merge(h[i - 1], seq[i], SameHash(h[i - 1], seq[i]), R)
                /\ ByHash(seq, R) = h[Len(seq)]
<1> DEFINE n == Len(seq)
           V == Seq(Article)
           step == [i \in 1 .. n |-> [K \in V |-> Merge(K, seq[i], SameHash(K, seq[i]), R)]]
           Solves(f) == f = [s \in SUBSET (1 .. n) |->
                               IF s = {} THEN <<>>
                               ELSE Merge(f[s \ {Max(s)}], seq[Max(s)],
                                          SameHash(f[s \ {Max(s)}], seq[Max(s)]), R)]
           g == CHOOSE f : Solves(f)
           h == [i \in 0 .. n |-> g[1 .. i]]
<1>1. n \in Nat /\ DOMAIN seq = 1 .. n /\ \A i \in 1 .. n : seq[i] \in Article
  BY LenProperties, ElementOfSeq
<1>2. step \in [1 .. n -> [V -> V]]
  BY <1>1, MergeIsSequence DEF SameHash
<1>3. \E f : IsFold(f, n, V, <<>>, step)
  <2>1. <<>> \in V
    BY EmptySeq
  <2>2. n \in Nat /\ step \in [1 .. n -> [V -> V]]
    BY <1>1, <1>2
  <2> HIDE DEF step, n, V
  <2>3. QED
    BY <2>1, <2>2, FoldExists
<1>4. \E f : Solves(f)
  <2>1. PICK f : IsFold(f, n, V, <<>>, step)
    BY <1>3
  <2>2. \A s \in SUBSET (1 .. n) : s # {} => Max(s) \in 1 .. n
    BY <1>1, HasGreatest
  <2>3. \A s \in SUBSET (1 .. n) :
          s # {} => step[Max(s)][f[s \ {Max(s)}]] =
                      Merge(f[s \ {Max(s)}], seq[Max(s)],
                            SameHash(f[s \ {Max(s)}], seq[Max(s)]), R)
    <3> HIDE DEF n, V
    <3>1. QED
      BY <2>1, <2>2 DEF IsFold
  <2>4. Solves(f)
    <3> HIDE DEF n, V, step
    <3>1. QED
      BY <2>1, <2>3 DEF IsFold
  <2>5. QED
    BY <2>4
<1>5. Solves(g)
  BY <1>4
<1>6. ByHash(seq, R) = g[1 .. n]
  BY <1>1 DEF ByHash, FoldLeft, MapThenFoldSet, SameHash
<1> HIDE DEF g, n, V, step
<1>7. \A s \in SUBSET (1 .. n) :
        g[s] = IF s = {} THEN <<>>
               ELSE Merge(g[s \ {Max(s)}], seq[Max(s)],
                          SameHash(g[s \ {Max(s)}], seq[Max(s)]), R)
  BY <1>5
<1>7a. g[1 .. 0] = <<>>
  <2>1. 1 .. 0 = {}
    OBVIOUS
  <2>2. QED
    BY <1>7, <2>1
<1>7b. ASSUME NEW i \in 1 .. n
       PROVE  g[1 .. i] = Merge(g[1 .. (i - 1)], seq[i], SameHash(g[1 .. (i - 1)], seq[i]), R)
  <2>1. 1 .. i \in SUBSET (1 .. n) /\ 1 .. i # {} /\ Max(1 .. i) = i
        /\ (1 .. i) \ {i} = 1 .. (i - 1)
    BY <1>1, FirstPlaces
  <2> DEFINE s == 1 .. i
  <2> HIDE DEF s
  <2>2. s \in SUBSET (1 .. n) /\ s # {} /\ Max(s) = i /\ s \ {i} = 1 .. (i - 1)
    BY <2>1 DEF s
  <2>3. g[s] = Merge(g[1 .. (i - 1)], seq[i], SameHash(g[1 .. (i - 1)], seq[i]), R)
    BY <1>7, <2>2
  <2>4. QED
    BY <2>3 DEF s
<1>8. /\ h[0] = <<>>
      /\ \A i \in 1 .. n : h[i] = Merge(h[i - 1], seq[i], SameHash(h[i - 1], seq[i]), R)
      /\ ByHash(seq, R) = h[n]
  BY <1>1, <1>6, <1>7a, <1>7b
<1>9. QED
  <2> HIDE DEF h
  <2>1. QED
    BY <1>8 DEF n

\* The words of headlines, and what the third level keeps while it runs.
WordSets == {Tokens(a) : a \in Article}
TitleState == [kept : Seq(Article), words : Seq(WordSets)]

TitleStart == [kept |-> <<>>, words |-> <<>>]
AlmostSame(s, a) ==
  {i \in DOMAIN s.kept : s.words[i] \cap Tokens(a) # {} /\ NearDuplicate(a, s.kept[i])}
TitleStep(s, a, R) ==
  [kept |-> Merge(s.kept, a, AlmostSame(s, a), R),
   words |-> IF AlmostSame(s, a) = {} THEN Append(s.words, Tokens(a)) ELSE s.words]

\* One article more at the third level.
LEMMA TitleStepKeepsType ==
  ASSUME NEW R, Rates(R), NEW s \in TitleState, NEW a \in Article
  PROVE  TitleStep(s, a, R) \in TitleState
<1> DEFINE P == AlmostSame(s, a)
<1>1. /\ s.kept \in Seq(Article) /\ s.words \in Seq(WordSets)
      /\ P \in SUBSET (DOMAIN s.kept) /\ Tokens(a) \in WordSets
  BY DEF TitleState, AlmostSame, WordSets
<1>2. Merge(s.kept, a, P, R) \in Seq(Article)
  BY <1>1, MergeIsSequence
<1>3. Append(s.words, Tokens(a)) \in Seq(WordSets)
  BY <1>1, AppendProperties
<1>4. QED
  BY <1>1, <1>2, <1>3 DEF TitleStep, TitleState

\* The third level, article by article.
LEMMA ByTitleRuns ==
  ASSUME NEW R, Rates(R), NEW seq \in Seq(Article)
  PROVE  \E h : /\ h[0] = TitleStart
                /\ \A i \in 1 .. Len(seq) :
                     h[i] = TitleStep(h[i - 1], seq[i], R)
                /\ ByTitle(seq, R) = h[Len(seq)].kept
<1> DEFINE n == Len(seq)
           V == TitleState
           step == [i \in 1 .. n |-> [s \in V |-> TitleStep(s, seq[i], R)]]
           Solves(f) == f = [s \in SUBSET (1 .. n) |->
                               IF s = {} THEN TitleStart
                               ELSE TitleStep(f[s \ {Max(s)}], seq[Max(s)], R)]
           g == CHOOSE f : Solves(f)
           h == [i \in 0 .. n |-> g[1 .. i]]
<1>1. n \in Nat /\ DOMAIN seq = 1 .. n /\ \A i \in 1 .. n : seq[i] \in Article
  BY LenProperties, ElementOfSeq
<1>2. step \in [1 .. n -> [V -> V]]
  BY <1>1, TitleStepKeepsType
<1>3. \E f : IsFold(f, n, V, TitleStart, step)
  <2>1. TitleStart \in V
    BY EmptySeq DEF TitleStart, TitleState
  <2>2. n \in Nat /\ step \in [1 .. n -> [V -> V]]
    BY <1>1, <1>2
  <2> HIDE DEF step, n, V
  <2>3. QED
    BY <2>1, <2>2, FoldExists
<1>4. \E f : Solves(f)
  <2>1. PICK f : IsFold(f, n, V, TitleStart, step)
    BY <1>3
  <2>2. \A s \in SUBSET (1 .. n) : s # {} => Max(s) \in 1 .. n
    BY <1>1, HasGreatest
  <2>3. \A s \in SUBSET (1 .. n) :
          s # {} => step[Max(s)][f[s \ {Max(s)}]] =
                      TitleStep(f[s \ {Max(s)}], seq[Max(s)], R)
    <3> HIDE DEF n, V
    <3>1. QED
      BY <2>1, <2>2 DEF IsFold
  <2>4. Solves(f)
    <3> HIDE DEF n, V, step
    <3>1. QED
      BY <2>1, <2>3 DEF IsFold
  <2>5. QED
    BY <2>4
<1>5. Solves(g)
  BY <1>4
<1>6. ByTitle(seq, R) = g[1 .. n].kept
  BY <1>1 DEF ByTitle, FoldLeft, MapThenFoldSet, TitleStep, TitleStart, AlmostSame
<1> HIDE DEF g, n, V, step
<1>7. \A s \in SUBSET (1 .. n) :
        g[s] = IF s = {} THEN TitleStart
               ELSE TitleStep(g[s \ {Max(s)}], seq[Max(s)], R)
  BY <1>5
<1>7a. g[1 .. 0] = TitleStart
  <2>1. 1 .. 0 = {}
    OBVIOUS
  <2>2. QED
    BY <1>7, <2>1
<1>7b. ASSUME NEW i \in 1 .. n
       PROVE  g[1 .. i] = TitleStep(g[1 .. (i - 1)], seq[i], R)
  <2>1. 1 .. i \in SUBSET (1 .. n) /\ 1 .. i # {} /\ Max(1 .. i) = i
        /\ (1 .. i) \ {i} = 1 .. (i - 1)
    BY <1>1, FirstPlaces
  <2> DEFINE s == 1 .. i
  <2> HIDE DEF s
  <2>2. s \in SUBSET (1 .. n) /\ s # {} /\ Max(s) = i /\ s \ {i} = 1 .. (i - 1)
    BY <2>1 DEF s
  <2>3. g[s] = TitleStep(g[1 .. (i - 1)], seq[i], R)
    BY <1>7, <2>2
  <2>4. QED
    BY <2>3 DEF s
<1>8. /\ h[0] = TitleStart
      /\ \A i \in 1 .. n : h[i] = TitleStep(h[i - 1], seq[i], R)
      /\ ByTitle(seq, R) = h[n].kept
  BY <1>1, <1>6, <1>7a, <1>7b
<1>9. QED
  <2> HIDE DEF h
  <2>1. QED
    BY <1>8 DEF n

(***************************************************************************)
(* What a level of the removal of duplicates keeps                         *)
(***************************************************************************)
\* K stands for the articles of S.
StandsFor(K, S, A, R) ==
  /\ K \in Seq(A)
  /\ ToSet(K) \subseteq S
  /\ Covers(K, S, A, R)
  /\ UrlsDiffer(K)

\* An article that takes the place of the one with its URL has no URL of another.
LEMMA MergeSameUrl ==
  ASSUME NEW R, Rates(R), NEW K \in Seq(Article), NEW a \in Article, UrlsDiffer(K)
  PROVE  UrlsDiffer(Merge(K, a, SameUrl(K, a), R))
<1> DEFINE P == SameUrl(K, a)
           M == Merge(K, a, P, R)
<1>0. /\ Len(K) \in Nat /\ DOMAIN K = 1 .. Len(K) /\ \A i \in DOMAIN K : K[i] \in Article
      /\ P \subseteq DOMAIN K
  BY LenProperties, ElementOfSeq DEF SameUrl
<1>1. CASE P = {}
  <2>1. M = Append(K, a)
    BY <1>1 DEF Merge
  <2>2. \A i \in DOMAIN K : Url[K[i]] # Url[a]
    BY <1>1 DEF SameUrl
  <2> HIDE DEF M, P
  <2>3. /\ Len(M) = Len(K) + 1 /\ M[Len(K) + 1] = a /\ M \in Seq(Article)
        /\ \A i \in DOMAIN K : M[i] = K[i]
    BY <1>0, <2>1, AppendProperties
  <2>4. DOMAIN M = 1 .. Len(K) + 1
    BY <2>3, LenProperties
  <2>5. UrlsDiffer(M)
    BY <1>0, <2>2, <2>3, <2>4 DEF UrlsDiffer
  <2>6. QED
    BY <2>5 DEF M, P
<1>2. CASE P # {}
  <2> DEFINE p == First(P)
             b == Better(K[p], a, R)
  <2>1. p \in P /\ p \in DOMAIN K
    BY <1>0, <1>2, FirstOfPlaces
  <2>2. M = [K EXCEPT ![p] = b]
    BY <1>2 DEF Merge
  <2>3. b \in {K[p], a} /\ Url[K[p]] = Url[a] /\ b \in Article
    BY <1>0, <2>1, BetterIsNoWorse DEF SameUrl
  <2> HIDE DEF M, P, p, b
  <2>4. /\ DOMAIN M = DOMAIN K /\ M[p] = b
        /\ \A i \in DOMAIN K : i # p => M[i] = K[i]
    BY <1>0, <2>1, <2>2, <2>3, ExceptSeq
  <2>5. \A i \in DOMAIN K : Url[M[i]] = Url[K[i]]
    BY <2>1, <2>3, <2>4
  <2>6. UrlsDiffer(M)
    BY <2>4, <2>5 DEF UrlsDiffer
  <2>7. QED
    BY <2>6 DEF M, P
<1>3. QED
  BY <1>1, <1>2

\* Nor has one whose URL no place has.
LEMMA MergeNewUrl ==
  ASSUME NEW R, Rates(R), NEW K \in Seq(Article), NEW a \in Article, UrlsDiffer(K),
         NEW P \in SUBSET (DOMAIN K), \A i \in DOMAIN K : Url[K[i]] # Url[a]
  PROVE  UrlsDiffer(Merge(K, a, P, R))
<1> DEFINE M == Merge(K, a, P, R)
<1>0. Len(K) \in Nat /\ DOMAIN K = 1 .. Len(K) /\ \A i \in DOMAIN K : K[i] \in Article
  BY LenProperties, ElementOfSeq
<1>1. CASE P = {}
  <2>1. M = Append(K, a)
    BY <1>1 DEF Merge
  <2> HIDE DEF M
  <2>2. /\ Len(M) = Len(K) + 1 /\ M[Len(K) + 1] = a /\ M \in Seq(Article)
        /\ \A i \in DOMAIN K : M[i] = K[i]
    BY <1>0, <2>1, AppendProperties
  <2>3. DOMAIN M = 1 .. Len(K) + 1
    BY <2>2, LenProperties
  <2>4. UrlsDiffer(M)
    BY <1>0, <2>2, <2>3 DEF UrlsDiffer
  <2>5. QED
    BY <2>4 DEF M
<1>2. CASE P # {}
  <2> DEFINE p == First(P)
             b == Better(K[p], a, R)
  <2>1. p \in DOMAIN K
    BY <1>0, <1>2, FirstOfPlaces
  <2>2. M = [K EXCEPT ![p] = b]
    BY <1>2 DEF Merge
  <2>3. b \in {K[p], a} /\ b \in Article
    BY <1>0, <2>1, BetterIsNoWorse
  <2> HIDE DEF M, p, b
  <2>4. /\ DOMAIN M = DOMAIN K /\ M[p] = b
        /\ \A i \in DOMAIN K : i # p => M[i] = K[i]
    BY <1>0, <2>1, <2>2, <2>3, ExceptSeq
  <2>5. \A i \in DOMAIN K : i # p => Url[M[i]] = Url[K[i]]
    BY <2>4
  <2>6. Url[M[p]] = Url[K[p]] \/ Url[M[p]] = Url[a]
    BY <2>3, <2>4
  <2>7. UrlsDiffer(M)
    BY <2>1, <2>4, <2>5, <2>6 DEF UrlsDiffer
  <2>8. QED
    BY <2>7 DEF M
<1>3. QED
  BY <1>1, <1>2

\* The articles up to place i.
UpTo(seq, i) == {seq[j] : j \in 1 .. i}

\* Place by place they become all of them.
LEMMA UpToGrows ==
  ASSUME NEW A, NEW seq \in Seq(A)
  PROVE  /\ UpTo(seq, 0) = {}
         /\ \A i \in 1 .. Len(seq) : UpTo(seq, i) = UpTo(seq, i - 1) \cup {seq[i]}
         /\ \A i \in 0 .. Len(seq) : UpTo(seq, i) \subseteq A
         /\ UpTo(seq, Len(seq)) = ToSet(seq)
<1>1. Len(seq) \in Nat /\ DOMAIN seq = 1 .. Len(seq) /\ \A i \in 1 .. Len(seq) : seq[i] \in A
  BY LenProperties, ElementOfSeq
<1>2. UpTo(seq, 0) = {}
  BY DEF UpTo
<1>3. ASSUME NEW i \in 1 .. Len(seq) PROVE UpTo(seq, i) = UpTo(seq, i - 1) \cup {seq[i]}
  <2>1. 1 .. i = (1 .. (i - 1)) \cup {i}
    OBVIOUS
  <2>2. QED
    BY <2>1 DEF UpTo
<1>4. ASSUME NEW i \in 0 .. Len(seq) PROVE UpTo(seq, i) \subseteq A
  <2>1. 1 .. i \subseteq 1 .. Len(seq)
    BY <1>1
  <2>2. QED
    BY <1>1, <2>1 DEF UpTo
<1>5. UpTo(seq, Len(seq)) = ToSet(seq)
  BY <1>1 DEF UpTo, ToSet
<1>6. QED
  BY <1>2, <1>3, <1>4, <1>5

\* One article more at a level.
LEMMA MergeStandsFor ==
  ASSUME NEW R, Rates(R), NEW A \in SUBSET Article, NEW S \in SUBSET A, NEW K,
         StandsFor(K, S, A, R), NEW a \in A,
         NEW P \in SUBSET (DOMAIN K), \A p \in P : Repeats(K[p], a),
         UrlsDiffer(Merge(K, a, P, R))
  PROVE  StandsFor(Merge(K, a, P, R), S \cup {a}, A, R)
<1>1. K \in Seq(A) /\ ToSet(K) \subseteq S /\ Covers(K, S, A, R)
  BY DEF StandsFor
<1>2. /\ Merge(K, a, P, R) \in Seq(A)
      /\ Covers(Merge(K, a, P, R), S \cup {a}, A, R)
      /\ ToSet(Merge(K, a, P, R)) \subseteq ToSet(K) \cup {a}
  BY <1>1, MergeCovers
<1>3. QED
  BY <1>1, <1>2 DEF StandsFor

\* Before the first article.
LEMMA NothingStandsForNothing ==
  ASSUME NEW R, NEW A
  PROVE  StandsFor(<<>>, {}, A, R)
<1>1. <<>> \in Seq(A) /\ DOMAIN <<>> = {}
  BY EmptySeq
<1>2. QED
  BY <1>1 DEF StandsFor, ToSet, Covers, UrlsDiffer

\* The first level: the articles that share a URL (dedup.py:41-49).
LEMMA ByUrlStandsFor ==
  ASSUME NEW R, Rates(R), NEW A \in SUBSET Article, NEW seq \in Seq(A)
  PROVE  StandsFor(ByUrl(seq, R), ToSet(seq), A, R)
<1> DEFINE n == Len(seq)
<1>1. n \in Nat /\ \A i \in 1 .. n : seq[i] \in A
  BY LenProperties, ElementOfSeq
<1>2. seq \in Seq(Article)
  BY SeqMonotonic
<1>3. PICK h : /\ h[0] = <<>>
               /\ \A i \in 1 .. n :
                    h[i] = Merge(h[i - 1], seq[i], SameUrl(h[i - 1], seq[i]), R)
               /\ ByUrl(seq, R) = h[n]
  BY <1>2, ByUrlRuns
<1> DEFINE G == {i \in 0 .. n : StandsFor(h[i], UpTo(seq, i), A, R)}
<1>0. /\ UpTo(seq, 0) = {} /\ UpTo(seq, n) = ToSet(seq)
      /\ \A i \in 1 .. n : UpTo(seq, i) = UpTo(seq, i - 1) \cup {seq[i]}
      /\ \A i \in 0 .. n : UpTo(seq, i) \subseteq A
  BY UpToGrows
<1>4. 0 \in G
  <2>1. StandsFor(h[0], UpTo(seq, 0), A, R)
    <3>1. StandsFor(<<>>, {}, A, R)
      BY NothingStandsForNothing
    <3>2. h[0] = <<>> /\ UpTo(seq, 0) = {}
      BY <1>3, <1>0
    <3>3. QED
      BY <3>1, <3>2
  <2>2. QED
    BY <1>1, <2>1
<1>5. ASSUME NEW i \in 1 .. n, i - 1 \in G PROVE i \in G
  <2> DEFINE K == h[i - 1]
             S == UpTo(seq, i - 1)
             P == SameUrl(K, seq[i])
  <2>1. StandsFor(K, S, A, R) /\ i - 1 \in 0 .. n
    BY <1>5
  <2>2. S \in SUBSET A
    BY <1>0, <2>1
  <2>3. K \in Seq(A) /\ UrlsDiffer(K) /\ K \in Seq(Article)
    BY <2>1, SeqMonotonic DEF StandsFor
  <2>4. P \in SUBSET (DOMAIN K) /\ \A p \in P : Repeats(K[p], seq[i])
    BY DEF SameUrl, Repeats
  <2>5. seq[i] \in A /\ seq[i] \in Article
    BY <1>1
  <2>6. UrlsDiffer(Merge(K, seq[i], P, R))
    BY <2>3, <2>5, MergeSameUrl
  <2> HIDE DEF K, S, P, n
  <2>7. StandsFor(Merge(K, seq[i], P, R), S \cup {seq[i]}, A, R)
    BY <2>1, <2>2, <2>4, <2>5, <2>6, MergeStandsFor
  <2>8. StandsFor(h[i], UpTo(seq, i), A, R)
    <3>1. h[i] = Merge(K, seq[i], P, R) /\ UpTo(seq, i) = S \cup {seq[i]}
      BY <1>3, <1>0 DEF K, S, P
    <3>2. QED
      BY <2>7, <3>1
  <2>9. QED
    BY <1>1, <2>8
<1> HIDE DEF G
<1>6. n \in G
  <2>1. \A i \in 0 .. n : i \in G
    BY <1>1, <1>4, <1>5, CountingUp
  <2>2. QED
    BY <1>1, <2>1
<1>7. QED
  BY <1>3, <1>0, <1>6 DEF G

\* The second level, of articles whose URLs differ: those that share a headline.
LEMMA ByHashStandsFor ==
  ASSUME NEW R, Rates(R), NEW A \in SUBSET Article, NEW seq \in Seq(A), UrlsDiffer(seq)
  PROVE  StandsFor(ByHash(seq, R), ToSet(seq), A, R)
<1> DEFINE n == Len(seq)
<1>1. n \in Nat /\ \A i \in 1 .. n : seq[i] \in A
  BY LenProperties, ElementOfSeq
<1>2. seq \in Seq(Article)
  BY SeqMonotonic
<1>3. PICK h : /\ h[0] = <<>>
               /\ \A i \in 1 .. n :
                    h[i] = Merge(h[i - 1], seq[i], SameHash(h[i - 1], seq[i]), R)
               /\ ByHash(seq, R) = h[n]
  BY <1>2, ByHashRuns
<1> DEFINE G == {i \in 0 .. n : StandsFor(h[i], UpTo(seq, i), A, R)}
<1>0. /\ UpTo(seq, 0) = {} /\ UpTo(seq, n) = ToSet(seq)
      /\ \A i \in 1 .. n : UpTo(seq, i) = UpTo(seq, i - 1) \cup {seq[i]}
      /\ \A i \in 0 .. n : UpTo(seq, i) \subseteq A
  BY UpToGrows
<1>4. 0 \in G
  <2>1. StandsFor(h[0], UpTo(seq, 0), A, R)
    <3>1. StandsFor(<<>>, {}, A, R)
      BY NothingStandsForNothing
    <3>2. h[0] = <<>> /\ UpTo(seq, 0) = {}
      BY <1>3, <1>0
    <3>3. QED
      BY <3>1, <3>2
  <2>2. QED
    BY <1>1, <2>1
<1>5. ASSUME NEW i \in 1 .. n, i - 1 \in G PROVE i \in G
  <2> DEFINE K == h[i - 1]
             S == UpTo(seq, i - 1)
             P == SameHash(K, seq[i])
  <2>1. StandsFor(K, S, A, R) /\ i - 1 \in 0 .. n
    BY <1>5
  <2>2. S \in SUBSET A
    BY <1>0, <2>1
  <2>3. K \in Seq(A) /\ UrlsDiffer(K) /\ K \in Seq(Article)
    BY <2>1, SeqMonotonic DEF StandsFor
  <2>4. P \in SUBSET (DOMAIN K) /\ \A p \in P : Repeats(K[p], seq[i])
    BY DEF SameHash, Repeats
  <2>5. seq[i] \in A /\ seq[i] \in Article
    BY <1>1
  <2>6. UrlsDiffer(Merge(K, seq[i], P, R))
    <3>1. \A k \in DOMAIN K : Url[K[k]] # Url[seq[i]]
      <4> SUFFICES ASSUME NEW k \in DOMAIN K PROVE Url[K[k]] # Url[seq[i]]
        OBVIOUS
      <4>1. K[k] \in UpTo(seq, i - 1)
        BY <2>1 DEF StandsFor, ToSet
      <4>2. PICK j \in 1 .. (i - 1) : K[k] = seq[j]
        BY <4>1 DEF UpTo
      <4>3. j \in DOMAIN seq /\ i \in DOMAIN seq /\ j # i
        BY <1>1, LenProperties
      <4>4. QED
        BY <4>2, <4>3 DEF UrlsDiffer
    <3> HIDE DEF K, P
    <3>2. QED
      BY <2>3, <2>4, <2>5, <3>1, MergeNewUrl
  <2> HIDE DEF K, S, P, n
  <2>7. StandsFor(Merge(K, seq[i], P, R), S \cup {seq[i]}, A, R)
    BY <2>1, <2>2, <2>4, <2>5, <2>6, MergeStandsFor
  <2>8. StandsFor(h[i], UpTo(seq, i), A, R)
    <3>1. h[i] = Merge(K, seq[i], P, R) /\ UpTo(seq, i) = S \cup {seq[i]}
      BY <1>3, <1>0 DEF K, S, P
    <3>2. QED
      BY <2>7, <3>1
  <2>9. QED
    BY <1>1, <2>8
<1> HIDE DEF G
<1>6. n \in G
  <2>1. \A i \in 0 .. n : i \in G
    BY <1>1, <1>4, <1>5, CountingUp
  <2>2. QED
    BY <1>1, <2>1
<1>7. QED
  BY <1>3, <1>0, <1>6 DEF G

\* The third level, of articles whose URLs differ: those with nearly the same headline.
LEMMA ByTitleStandsFor ==
  ASSUME NEW R, Rates(R), NEW A \in SUBSET Article, NEW seq \in Seq(A), UrlsDiffer(seq)
  PROVE  StandsFor(ByTitle(seq, R), ToSet(seq), A, R)
<1> DEFINE n == Len(seq)
<1>1. n \in Nat /\ \A i \in 1 .. n : seq[i] \in A
  BY LenProperties, ElementOfSeq
<1>2. seq \in Seq(Article)
  BY SeqMonotonic
<1>3. PICK h : /\ h[0] = TitleStart
               /\ \A i \in 1 .. n :
                    h[i] = TitleStep(h[i - 1], seq[i], R)
               /\ ByTitle(seq, R) = h[n].kept
  BY <1>2, ByTitleRuns
<1> DEFINE G == {i \in 0 .. n : StandsFor(h[i].kept, UpTo(seq, i), A, R)}
<1>0. /\ UpTo(seq, 0) = {} /\ UpTo(seq, n) = ToSet(seq)
      /\ \A i \in 1 .. n : UpTo(seq, i) = UpTo(seq, i - 1) \cup {seq[i]}
      /\ \A i \in 0 .. n : UpTo(seq, i) \subseteq A
  BY UpToGrows
<1>4. 0 \in G
  <2>1. StandsFor(h[0].kept, UpTo(seq, 0), A, R)
    <3>1. StandsFor(<<>>, {}, A, R)
      BY NothingStandsForNothing
    <3>2. h[0].kept = <<>> /\ UpTo(seq, 0) = {}
      BY <1>3, <1>0 DEF TitleStart
    <3>3. QED
      BY <3>1, <3>2
  <2>2. QED
    BY <1>1, <2>1
<1>5. ASSUME NEW i \in 1 .. n, i - 1 \in G PROVE i \in G
  <2> DEFINE K == h[i - 1].kept
             S == UpTo(seq, i - 1)
             P == AlmostSame(h[i - 1], seq[i])
  <2>1. StandsFor(K, S, A, R) /\ i - 1 \in 0 .. n
    BY <1>5
  <2>2. S \in SUBSET A
    BY <1>0, <2>1
  <2>3. K \in Seq(A) /\ UrlsDiffer(K) /\ K \in Seq(Article)
    BY <2>1, SeqMonotonic DEF StandsFor
  <2>4. P \in SUBSET (DOMAIN K) /\ \A p \in P : Repeats(K[p], seq[i])
    BY RepeatsIsSymmetric DEF AlmostSame, Repeats
  <2>5. seq[i] \in A /\ seq[i] \in Article
    BY <1>1
  <2>6. UrlsDiffer(Merge(K, seq[i], P, R))
    <3>1. \A k \in DOMAIN K : Url[K[k]] # Url[seq[i]]
      <4> SUFFICES ASSUME NEW k \in DOMAIN K PROVE Url[K[k]] # Url[seq[i]]
        OBVIOUS
      <4>1. K[k] \in UpTo(seq, i - 1)
        BY <2>1 DEF StandsFor, ToSet
      <4>2. PICK j \in 1 .. (i - 1) : K[k] = seq[j]
        BY <4>1 DEF UpTo
      <4>3. j \in DOMAIN seq /\ i \in DOMAIN seq /\ j # i
        BY <1>1, LenProperties
      <4>4. QED
        BY <4>2, <4>3 DEF UrlsDiffer
    <3> HIDE DEF K, P
    <3>2. QED
      BY <2>3, <2>4, <2>5, <3>1, MergeNewUrl
  <2> HIDE DEF K, S, P, n
  <2>7. StandsFor(Merge(K, seq[i], P, R), S \cup {seq[i]}, A, R)
    BY <2>1, <2>2, <2>4, <2>5, <2>6, MergeStandsFor
  <2>8. StandsFor(h[i].kept, UpTo(seq, i), A, R)
    <3>1. h[i] = TitleStep(h[i - 1], seq[i], R)
      BY <1>3 DEF n
    <3>2. h[i].kept = Merge(K, seq[i], P, R)
      BY <3>1 DEF K, P, TitleStep
    <3>3. UpTo(seq, i) = S \cup {seq[i]}
      BY <1>0 DEF S, n
    <3>4. QED
      BY <2>7, <3>2, <3>3
  <2>9. QED
    BY <1>1, <2>8
<1> HIDE DEF G
<1>6. n \in G
  <2>1. \A i \in 0 .. n : i \in G
    BY <1>1, <1>4, <1>5, CountingUp
  <2>2. QED
    BY <1>1, <2>1
<1>7. QED
  BY <1>3, <1>0, <1>6 DEF G

\* A level upon a level.
LEMMA StandsForIsTransitive ==
  ASSUME NEW R, Rates(R), NEW A \in SUBSET Article, NEW S \in SUBSET A, NEW K, NEW L,
         StandsFor(K, S, A, R), StandsFor(L, ToSet(K), A, R)
  PROVE  StandsFor(L, S, A, R)
<1>1. /\ K \in Seq(A) /\ L \in Seq(A) /\ \A k \in DOMAIN K : K[k] \in A /\ K[k] \in ToSet(K)
      /\ \A l \in DOMAIN L : L[l] \in A
  BY ElementOfSeq DEF StandsFor, ToSet
<1>2. ASSUME NEW a \in S
      PROVE  \E l \in DOMAIN L : L[l] \in Linked(a, A) /\ ~WorseBy(R, L[l], a)
  <2>1. PICK k \in DOMAIN K : K[k] \in Linked(a, A) /\ ~WorseBy(R, K[k], a)
    BY DEF StandsFor, Covers
  <2>2. PICK l \in DOMAIN L : L[l] \in Linked(K[k], A) /\ ~WorseBy(R, L[l], K[k])
    BY <1>1 DEF StandsFor, Covers
  <2>3. L[l] \in Linked(a, A)
    BY <1>1, <2>1, <2>2, LinkedIsEquivalence
  <2>4. ~WorseBy(R, L[l], a)
    BY <1>1, <2>1, <2>2, NoWorseIsTransitive
  <2>5. QED
    BY <2>3, <2>4
<1>3. QED
  BY <1>2 DEF StandsFor, Covers

\* The three levels together (dedup.py:36-126).
LEMMA DeduplicateStandsFor ==
  ASSUME NEW R, Rates(R), NEW seq \in Seq(Article)
  PROVE  StandsFor(Deduplicate(seq, R), ToSet(seq), ToSet(seq), R)
<1> DEFINE A == ToSet(seq)
           K == ByUrl(seq, R)
           L == ByHash(K, R)
           M == ByTitle(L, R)
<1>1. A \in SUBSET Article /\ seq \in Seq(A)
  <2>1. Len(seq) \in Nat /\ DOMAIN seq = 1 .. Len(seq) /\ \A i \in 1 .. Len(seq) : seq[i] \in Article
    BY LenProperties, ElementOfSeq
  <2>2. seq = [i \in 1 .. Len(seq) |-> seq[i]] /\ \A i \in 1 .. Len(seq) : seq[i] \in A
    BY <2>1, LenProperties DEF ToSet
  <2> HIDE DEF A
  <2>3. seq \in Seq(A)
    BY <2>1, <2>2, IsASeq
  <2>4. QED
    BY <2>1, <2>3 DEF A, ToSet
<1> HIDE DEF A
<1>2. StandsFor(K, ToSet(seq), A, R)
  BY <1>1, ByUrlStandsFor
<1> HIDE DEF K
<1>3. StandsFor(L, ToSet(K), A, R)
  BY <1>1, <1>2, ByHashStandsFor DEF StandsFor
<1> HIDE DEF L
<1>4. StandsFor(M, ToSet(L), A, R)
  BY <1>1, <1>3, ByTitleStandsFor DEF StandsFor
<1> HIDE DEF M
<1>5. ToSet(K) \in SUBSET A /\ ToSet(seq) \in SUBSET A
  BY <1>2 DEF StandsFor, A
<1>6. StandsFor(M, ToSet(K), A, R)
  BY <1>1, <1>3, <1>4, <1>5, StandsForIsTransitive
<1>7. StandsFor(M, ToSet(seq), A, R)
  BY <1>1, <1>2, <1>5, <1>6, StandsForIsTransitive
<1>8. QED
  BY <1>7 DEF Deduplicate, M, L, K, A

(***************************************************************************)
(* Sequences without repetition                                            *)
(***************************************************************************)
Injective(s) == \A i, j \in DOMAIN s : s[i] = s[j] => i = j

\* Where the elements are after an insertion.
LEMMA InsertAtPlaces ==
  ASSUME NEW A, NEW s \in Seq(A), NEW e \in A, NEW i \in 1 .. Len(s) + 1
  PROVE  /\ InsertAt(s, i, e) \in Seq(A)
         /\ DOMAIN InsertAt(s, i, e) = 1 .. Len(s) + 1
         /\ \A j \in 1 .. Len(s) + 1 :
              InsertAt(s, i, e)[j] = IF j < i THEN s[j] ELSE IF j = i THEN e ELSE s[j - 1]
<1> DEFINE n == Len(s)
           front == SubSeq(s, 1, i - 1)
           back == SubSeq(s, i, n)
<1>1. n \in Nat /\ i \in Nat /\ 1 <= i /\ i <= n + 1
  BY LenProperties
<1>2. /\ front \in Seq(A) /\ Len(front) = i - 1
      /\ \A j \in 1 .. i - 1 : front[j] = s[j]
  BY <1>1, SubSeqProperties
<1>3. /\ back \in Seq(A) /\ Len(back) = n - i + 1
      /\ \A j \in 1 .. n - i + 1 : back[j] = s[i + j - 1]
  BY <1>1, SubSeqProperties
<1>4. <<e>> \in Seq(A) /\ Len(<<e>>) = 1 /\ <<e>>[1] = e
  OBVIOUS
<1>5. InsertAt(s, i, e) = (front \o <<e>>) \o back
  BY DEF InsertAt
<1> DEFINE mid == front \o <<e>>
<1> HIDE DEF front, back, n
<1>6. /\ mid \in Seq(A) /\ Len(mid) = i /\ mid[i] = e
      /\ \A j \in 1 .. i - 1 : mid[j] = s[j]
  BY <1>1, <1>2, <1>4, ConcatProperties
<1> HIDE DEF mid
<1> DEFINE r == mid \o back
<1>7. /\ r \in Seq(A) /\ Len(r) = n + 1
      /\ \A j \in 1 .. n + 1 : r[j] = IF j <= i THEN mid[j] ELSE back[j - i]
  <2>0. /\ r \in Seq(A) /\ Len(r) = Len(mid) + Len(back)
        /\ \A j \in 1 .. Len(mid) + Len(back) :
             r[j] = IF j <= Len(mid) THEN mid[j] ELSE back[j - Len(mid)]
    <3>1. mid \in Seq(A) /\ back \in Seq(A)
      BY <1>3, <1>6
    <3>2. QED
      BY <3>1, ConcatProperties
  <2> HIDE DEF r
  <2>1. r \in Seq(A) /\ Len(r) = i + (n - i + 1)
    BY <1>3, <1>6, <2>0
  <2>2. \A j \in 1 .. i + (n - i + 1) : r[j] = IF j <= i THEN mid[j] ELSE back[j - i]
    BY <1>3, <1>6, <2>0
  <2>3. i + (n - i + 1) = n + 1
    BY <1>1
  <2>4. QED
    BY <2>1, <2>2, <2>3
<1> HIDE DEF r
<1>8. DOMAIN r = 1 .. n + 1
  BY <1>7, LenProperties
<1>9. ASSUME NEW j \in 1 .. n + 1
      PROVE  r[j] = IF j < i THEN s[j] ELSE IF j = i THEN e ELSE s[j - 1]
  <2>1. CASE j < i
    BY <1>1, <1>6, <1>7, <2>1
  <2>2. CASE j = i
    BY <1>1, <1>6, <1>7, <2>2
  <2>3. CASE j > i
    <3>1. r[j] = back[j - i]
      BY <1>1, <1>7, <2>3
    <3>2. j - i \in 1 .. n - i + 1 /\ i + (j - i) - 1 = j - 1
      BY <1>1, <2>3
    <3>3. back[j - i] = s[i + (j - i) - 1]
      BY <1>3, <3>2
    <3>4. QED
      BY <1>1, <2>3, <3>1, <3>2, <3>3
  <2>4. QED
    BY <1>1, <2>1, <2>2, <2>3
<1>10. InsertAt(s, i, e) = r
  BY <1>5 DEF r, mid
<1>11. QED
  BY <1>7, <1>8, <1>9, <1>10 DEF n

\* An insertion of what is not there yet.
LEMMA InsertAtKeepsInjective ==
  ASSUME NEW A, NEW s \in Seq(A), NEW e \in A, NEW i \in 1 .. Len(s) + 1,
         Injective(s), e \notin ToSet(s)
  PROVE  Injective(InsertAt(s, i, e)) /\ ToSet(InsertAt(s, i, e)) = ToSet(s) \cup {e}
<1> DEFINE r == InsertAt(s, i, e)
           n == Len(s)
<1>1. n \in Nat /\ i \in Nat /\ 1 <= i /\ i <= n + 1 /\ DOMAIN s = 1 .. n
  BY LenProperties
<1>2. /\ DOMAIN r = 1 .. n + 1
      /\ \A j \in 1 .. n + 1 : r[j] = IF j < i THEN s[j] ELSE IF j = i THEN e ELSE s[j - 1]
  BY InsertAtPlaces
<1>3. \A j \in DOMAIN s : s[j] # e
  BY DEF ToSet
<1> HIDE DEF r, n
<1>4. Injective(r)
  <2> SUFFICES ASSUME NEW j \in 1 .. n + 1, NEW k \in 1 .. n + 1, r[j] = r[k], j < k PROVE FALSE
    BY <1>1, <1>2 DEF Injective
  <2>1. CASE k < i
    BY <1>1, <1>2, <2>1 DEF Injective
  <2>2. CASE j < i /\ k = i
    BY <1>1, <1>2, <1>3, <2>2
  <2>3. CASE j < i /\ k > i
    <3>1. r[j] = s[j] /\ r[k] = s[k - 1] /\ j \in DOMAIN s /\ k - 1 \in DOMAIN s /\ j # k - 1
      BY <1>1, <1>2, <2>3
    <3>2. QED
      BY <3>1 DEF Injective
  <2>4. CASE j = i
    <3>1. r[j] = e /\ r[k] = s[k - 1] /\ k - 1 \in DOMAIN s
      BY <1>1, <1>2, <2>4
    <3>2. QED
      BY <1>3, <3>1
  <2>5. CASE j > i
    <3>1. r[j] = s[j - 1] /\ r[k] = s[k - 1] /\ j - 1 \in DOMAIN s /\ k - 1 \in DOMAIN s /\ j - 1 # k - 1
      BY <1>1, <1>2, <2>5
    <3>2. QED
      BY <3>1 DEF Injective
  <2>6. QED
    BY <1>1, <2>1, <2>2, <2>3, <2>4, <2>5
<1>5. \A j \in DOMAIN r : r[j] = e \/ \E k \in DOMAIN s : r[j] = s[k]
  <2> SUFFICES ASSUME NEW j \in 1 .. n + 1 PROVE r[j] = e \/ \E k \in DOMAIN s : r[j] = s[k]
    BY <1>2
  <2>1. CASE j < i
    BY <1>1, <1>2, <2>1
  <2>2. CASE j = i
    BY <1>1, <1>2, <2>2
  <2>3. CASE j > i
    <3>1. r[j] = s[j - 1] /\ j - 1 \in DOMAIN s
      BY <1>1, <1>2, <2>3
    <3>2. QED
      BY <3>1
  <2>4. QED
    BY <1>1, <2>1, <2>2, <2>3
<1>6. \E j \in DOMAIN r : r[j] = e
  BY <1>1, <1>2
<1>7. \A k \in DOMAIN s : \E j \in DOMAIN r : r[j] = s[k]
  <2> SUFFICES ASSUME NEW k \in 1 .. n PROVE \E j \in DOMAIN r : r[j] = s[k]
    BY <1>1
  <2>1. CASE k < i
    BY <1>1, <1>2, <2>1
  <2>2. CASE k >= i
    <3>1. k + 1 \in 1 .. n + 1 /\ r[k + 1] = s[k]
      BY <1>1, <1>2, <2>2
    <3>2. QED
      BY <1>2, <3>1
  <2>3. QED
    BY <1>1, <2>1, <2>2
<1>8. ToSet(r) = ToSet(s) \cup {e}
  BY <1>5, <1>6, <1>7 DEF ToSet
<1>9. QED
  BY <1>4, <1>8 DEF r

\* Some of the places of a sequence are counted by a number up to its length.
LEMMA CountOfPlaces ==
  ASSUME NEW n \in Nat, NEW D \in SUBSET (1 .. n)
  PROVE  Cardinality(D) \in 0 .. n
<1>1. IsFiniteSet(1 .. n) /\ Cardinality(1 .. n) = n
  BY FS_Interval
<1>2. IsFiniteSet(D) /\ Cardinality(D) <= n
  BY <1>1, FS_Subset
<1>3. QED
  BY <1>2, FS_CardinalityType

\* Places that have every place before them are the first ones.
LEMMA CountOfFirstPlaces ==
  ASSUME NEW n \in Nat, NEW D \in SUBSET (1 .. n),
         \A j \in D : \A i \in 1 .. n : i < j => i \in D
  PROVE  D = 1 .. Cardinality(D)
<1>1. CASE D = {}
  <2>1. Cardinality(D) = 0
    BY <1>1, FS_EmptySet
  <2>2. QED
    BY <1>1, <2>1
<1>2. CASE D # {}
  <2> DEFINE m == Max(D)
  <2>1. m \in D /\ \A j \in D : m >= j
    BY <1>2, HasGreatest
  <2> HIDE DEF m
  <2>2. \A i \in 1 .. m : i \in D
    BY <2>1
  <2>3. D = 1 .. m
    <3>1. \A j \in D : j \in 1 .. m
      BY <2>1
    <3>2. QED
      BY <2>2, <3>1
  <2>4. Cardinality(D) = m
    BY <2>1, <2>3, FS_Interval
  <2>5. QED
    BY <2>3, <2>4
<1>3. QED
  BY <1>1, <1>2

\* s holds the members of S, once each.
Arranges(s, A, S) == s \in Seq(A) /\ Injective(s) /\ ToSet(s) = S

\* An element more, wherever it goes.
LEMMA InsertArranges ==
  ASSUME NEW A, NEW S, NEW s, Arranges(s, A, S), NEW e \in A, e \notin S, NEW i \in 1 .. Len(s) + 1
  PROVE  Arranges(InsertAt(s, i, e), A, S \cup {e})
<1>1. s \in Seq(A) /\ Injective(s) /\ ToSet(s) = S
  BY DEF Arranges
<1>2. InsertAt(s, i, e) \in Seq(A)
  BY <1>1, InsertAtPlaces
<1>3. Injective(InsertAt(s, i, e)) /\ ToSet(InsertAt(s, i, e)) = S \cup {e}
  BY <1>1, InsertAtKeepsInjective
<1>4. QED
  BY <1>2, <1>3 DEF Arranges

\* The empty sequence.
LEMMA NothingIsArranged ==
  ASSUME NEW A
  PROVE  Arranges(<<>>, A, {})
<1>1. <<>> \in Seq(A) /\ DOMAIN <<>> = {}
  BY EmptySeq
<1>2. QED
  BY <1>1 DEF Arranges, Injective, ToSet

\* The next element of a sequence without repetition is none of those before it.
LEMMA NextIsNew ==
  ASSUME NEW A, NEW seq \in Seq(A), Injective(seq), NEW i \in 1 .. Len(seq)
  PROVE  seq[i] \in A /\ seq[i] \notin UpTo(seq, i - 1)
<1>1. Len(seq) \in Nat /\ DOMAIN seq = 1 .. Len(seq) /\ seq[i] \in A
  BY LenProperties, ElementOfSeq
<1>2. \A j \in 1 .. (i - 1) : j \in DOMAIN seq /\ i \in DOMAIN seq /\ j # i
  BY <1>1
<1>3. QED
  BY <1>1, <1>2 DEF UpTo, Injective

(***************************************************************************)
(* The order in which the articles are grouped                             *)
(***************************************************************************)
IsEarlier(a, b, R) ==
  R[From[a]] > R[From[b]] \/ (R[From[a]] = R[From[b]] /\ Date[a] < Date[b])
NotAfter(s, a, R) == {i \in DOMAIN s : ~IsEarlier(a, s[i], R)}
SortStep(s, a, R) == InsertAt(s, Cardinality(NotAfter(s, a, R)) + 1, a)

InOrder(s, R) == \A i, j \in DOMAIN s : i < j => ~IsEarlier(s[j], s[i], R)

\* The key of the sort is an order.
LEMMA EarlierIsAnOrder ==
  ASSUME NEW R, Rates(R), NEW a \in Article, NEW b \in Article, NEW c \in Article
  PROVE  /\ ~IsEarlier(a, b, R) /\ ~IsEarlier(b, c, R) => ~IsEarlier(a, c, R)
         /\ IsEarlier(a, b, R) => ~IsEarlier(b, a, R)
<1>1. /\ Date[a] \in Nat /\ Date[b] \in Nat /\ Date[c] \in Nat
      /\ R[From[a]] \in Int /\ R[From[b]] \in Int /\ R[From[c]] \in Int
  BY CurationAssumption DEF Rates
<1>2. QED
  BY <1>1 DEF IsEarlier

\* The place of the next article.
LEMMA SortStepPlace ==
  ASSUME NEW s \in Seq(Article), NEW a, NEW R
  PROVE  Cardinality(NotAfter(s, a, R)) + 1 \in 1 .. Len(s) + 1
<1>1. Len(s) \in Nat /\ DOMAIN s = 1 .. Len(s)
  BY LenProperties
<1>2. NotAfter(s, a, R) \in SUBSET (1 .. Len(s))
  BY <1>1 DEF NotAfter
<1>3. Cardinality(NotAfter(s, a, R)) \in 0 .. Len(s)
  BY <1>1, <1>2, CountOfPlaces
<1>4. QED
  BY <1>1, <1>3

\* The list stays a list of articles.
LEMMA SortStepKeepsType ==
  ASSUME NEW R, NEW s \in Seq(Article), NEW a \in Article
  PROVE  SortStep(s, a, R) \in Seq(Article)
BY SortStepPlace, InsertAtPlaces DEF SortStep

\* An article put behind those that it does not come before keeps the order.
LEMMA SortStepKeepsOrder ==
  ASSUME NEW R, Rates(R), NEW s \in Seq(Article), NEW a \in Article, InOrder(s, R)
  PROVE  InOrder(SortStep(s, a, R), R)
<1> DEFINE D == NotAfter(s, a, R)
           m == Cardinality(D)
           n == Len(s)
           r == SortStep(s, a, R)
<1>1. n \in Nat /\ DOMAIN s = 1 .. n /\ \A i \in 1 .. n : s[i] \in Article
  BY LenProperties, ElementOfSeq
<1>2. D \in SUBSET (1 .. n) /\ \A i \in 1 .. n : i \in D <=> ~IsEarlier(a, s[i], R)
  BY <1>1 DEF NotAfter
<1>3. \A j \in D : \A i \in 1 .. n : i < j => i \in D
  <2> SUFFICES ASSUME NEW j \in D, NEW i \in 1 .. n, i < j PROVE ~IsEarlier(a, s[i], R)
    BY <1>2
  <2>1. j \in 1 .. n /\ ~IsEarlier(a, s[j], R)
    BY <1>2
  <2>2. ~IsEarlier(s[j], s[i], R)
    BY <1>1, <2>1 DEF InOrder
  <2>3. QED
    BY <1>1, <2>1, <2>2, EarlierIsAnOrder
<1> HIDE DEF D
<1>4. D = 1 .. m /\ m \in 0 .. n
  BY <1>1, <1>2, <1>3, CountOfFirstPlaces, CountOfPlaces
<1>5. m + 1 \in 1 .. n + 1
  BY <1>1, <1>4
<1>6. r = InsertAt(s, m + 1, a)
  BY DEF SortStep, D
<1> HIDE DEF m, n, r
<1>7. /\ DOMAIN r = 1 .. n + 1
      /\ \A j \in 1 .. n + 1 :
           r[j] = IF j < m + 1 THEN s[j] ELSE IF j = m + 1 THEN a ELSE s[j - 1]
  <2>1. m + 1 \in 1 .. Len(s) + 1
    BY <1>5 DEF n
  <2> DEFINE p == m + 1
  <2> HIDE DEF p
  <2>2. p \in 1 .. Len(s) + 1 /\ r = InsertAt(s, p, a)
    BY <1>6, <2>1 DEF p
  <2>3. /\ DOMAIN r = 1 .. Len(s) + 1
        /\ \A j \in 1 .. Len(s) + 1 :
             r[j] = IF j < p THEN s[j] ELSE IF j = p THEN a ELSE s[j - 1]
    <3>1. p \in 1 .. Len(s) + 1
      BY <2>2
    <3>2. /\ DOMAIN InsertAt(s, p, a) = 1 .. Len(s) + 1
          /\ \A j \in 1 .. Len(s) + 1 :
               InsertAt(s, p, a)[j] = IF j < p THEN s[j] ELSE IF j = p THEN a ELSE s[j - 1]
      BY <3>1, InsertAtPlaces
    <3>3. QED
      BY <2>2, <3>2
  <2>4. QED
    BY <2>3 DEF n, p
<1>8. \A i \in 1 .. n : i <= m => ~IsEarlier(a, s[i], R)
  BY <1>1, <1>2, <1>4
<1>9. \A i \in 1 .. n : i > m => ~IsEarlier(s[i], a, R)
  <2> SUFFICES ASSUME NEW i \in 1 .. n, i > m PROVE ~IsEarlier(s[i], a, R)
    OBVIOUS
  <2>1. IsEarlier(a, s[i], R)
    BY <1>1, <1>2, <1>4
  <2>2. QED
    BY <1>1, <2>1, EarlierIsAnOrder
<1>10. ASSUME NEW j \in 1 .. n + 1, NEW k \in 1 .. n + 1, j < k PROVE ~IsEarlier(r[k], r[j], R)
  <2>1. CASE k < m + 1
    <3>1. r[j] = s[j] /\ r[k] = s[k] /\ j \in DOMAIN s /\ k \in DOMAIN s
      BY <1>1, <1>4, <1>7, <1>10, <2>1
    <3>2. QED
      BY <1>10, <3>1 DEF InOrder
  <2>2. CASE k = m + 1
    <3>1. r[j] = s[j] /\ r[k] = a /\ j \in 1 .. n /\ j <= m
      BY <1>1, <1>4, <1>7, <1>10, <2>2
    <3>2. QED
      BY <1>8, <3>1
  <2>3. CASE k > m + 1 /\ j < m + 1
    <3>1. r[j] = s[j] /\ r[k] = s[k - 1] /\ j \in DOMAIN s /\ k - 1 \in DOMAIN s /\ j < k - 1
      BY <1>1, <1>4, <1>7, <1>10, <2>3
    <3>2. QED
      BY <3>1 DEF InOrder
  <2>4. CASE j = m + 1
    <3>1. r[j] = a /\ r[k] = s[k - 1] /\ k - 1 \in 1 .. n /\ k - 1 > m
      BY <1>1, <1>4, <1>7, <1>10, <2>4
    <3>2. QED
      BY <1>9, <3>1
  <2>5. CASE j > m + 1
    <3>1. r[j] = s[j - 1] /\ r[k] = s[k - 1] /\ j - 1 \in DOMAIN s /\ k - 1 \in DOMAIN s /\ j - 1 < k - 1
      BY <1>1, <1>4, <1>7, <1>10, <2>5
    <3>2. QED
      BY <3>1 DEF InOrder
  <2>6. QED
    BY <1>1, <1>4, <1>10, <2>1, <2>2, <2>3, <2>4, <2>5
<1>11. InOrder(r, R)
  BY <1>7, <1>10 DEF InOrder
<1>12. QED
  BY <1>11 DEF r

\* The sort, article by article.
LEMMA SortedRuns ==
  ASSUME NEW R, Rates(R), NEW seq \in Seq(Article)
  PROVE  \E h : /\ h[0] = <<>>
                /\ \A i \in 1 .. Len(seq) :
                     h[i] = SortStep(h[i - 1], seq[i], R)
                /\ Sorted(seq, R) = h[Len(seq)]
<1> DEFINE n == Len(seq)
           V == Seq(Article)
           step == [i \in 1 .. n |-> [K \in V |-> SortStep(K, seq[i], R)]]
           Solves(f) == f = [s \in SUBSET (1 .. n) |->
                               IF s = {} THEN <<>>
                               ELSE SortStep(f[s \ {Max(s)}], seq[Max(s)], R)]
           g == CHOOSE f : Solves(f)
           h == [i \in 0 .. n |-> g[1 .. i]]
<1>1. n \in Nat /\ DOMAIN seq = 1 .. n /\ \A i \in 1 .. n : seq[i] \in Article
  BY LenProperties, ElementOfSeq
<1>2. step \in [1 .. n -> [V -> V]]
  BY <1>1, SortStepKeepsType
<1>3. \E f : IsFold(f, n, V, <<>>, step)
  <2>1. <<>> \in V
    BY EmptySeq
  <2>2. n \in Nat /\ step \in [1 .. n -> [V -> V]]
    BY <1>1, <1>2
  <2> HIDE DEF step, n, V
  <2>3. QED
    BY <2>1, <2>2, FoldExists
<1>4. \E f : Solves(f)
  <2>1. PICK f : IsFold(f, n, V, <<>>, step)
    BY <1>3
  <2>2. \A s \in SUBSET (1 .. n) : s # {} => Max(s) \in 1 .. n
    BY <1>1, HasGreatest
  <2>3. \A s \in SUBSET (1 .. n) :
          s # {} => step[Max(s)][f[s \ {Max(s)}]] =
                      SortStep(f[s \ {Max(s)}], seq[Max(s)], R)
    <3> HIDE DEF n, V
    <3>1. QED
      BY <2>1, <2>2 DEF IsFold
  <2>4. Solves(f)
    <3> HIDE DEF n, V, step
    <3>1. QED
      BY <2>1, <2>3 DEF IsFold
  <2>5. QED
    BY <2>4
<1>5. Solves(g)
  BY <1>4
<1>6. Sorted(seq, R) = g[1 .. n]
  BY <1>1 DEF Sorted, InsertBehind, SortStep, NotAfter, IsEarlier, FoldLeft, MapThenFoldSet
<1> HIDE DEF g, n, V, step
<1>7. \A s \in SUBSET (1 .. n) :
        g[s] = IF s = {} THEN <<>>
               ELSE SortStep(g[s \ {Max(s)}], seq[Max(s)], R)
  BY <1>5
<1>7a. g[1 .. 0] = <<>>
  <2>1. 1 .. 0 = {}
    OBVIOUS
  <2>2. QED
    BY <1>7, <2>1
<1>7b. ASSUME NEW i \in 1 .. n
       PROVE  g[1 .. i] = SortStep(g[1 .. (i - 1)], seq[i], R)
  <2>1. 1 .. i \in SUBSET (1 .. n) /\ 1 .. i # {} /\ Max(1 .. i) = i
        /\ (1 .. i) \ {i} = 1 .. (i - 1)
    BY <1>1, FirstPlaces
  <2> DEFINE s == 1 .. i
  <2> HIDE DEF s
  <2>2. s \in SUBSET (1 .. n) /\ s # {} /\ Max(s) = i /\ s \ {i} = 1 .. (i - 1)
    BY <2>1 DEF s
  <2>3. g[s] = SortStep(g[1 .. (i - 1)], seq[i], R)
    BY <1>7, <2>2
  <2>4. QED
    BY <2>3 DEF s
<1>8. /\ h[0] = <<>>
      /\ \A i \in 1 .. n : h[i] = SortStep(h[i - 1], seq[i], R)
      /\ Sorted(seq, R) = h[n]
  BY <1>1, <1>6, <1>7a, <1>7b
<1>9. QED
  <2> HIDE DEF h
  <2>1. QED
    BY <1>8 DEF n

\* The same articles, the most reliable first.
LEMMA SortedArranges ==
  ASSUME NEW R, Rates(R), NEW seq \in Seq(Article), Injective(seq)
  PROVE  Arranges(Sorted(seq, R), Article, ToSet(seq)) /\ InOrder(Sorted(seq, R), R)
<1> DEFINE n == Len(seq)
<1>1. n \in Nat /\ \A i \in 1 .. n : seq[i] \in Article
  BY LenProperties, ElementOfSeq
<1>2. PICK h : /\ h[0] = <<>>
               /\ \A i \in 1 .. n : h[i] = SortStep(h[i - 1], seq[i], R)
               /\ Sorted(seq, R) = h[n]
  BY SortedRuns
<1>3. /\ UpTo(seq, 0) = {} /\ UpTo(seq, n) = ToSet(seq)
      /\ \A i \in 1 .. n : UpTo(seq, i) = UpTo(seq, i - 1) \cup {seq[i]}
  BY UpToGrows
<1> DEFINE G == {i \in 0 .. n : Arranges(h[i], Article, UpTo(seq, i)) /\ InOrder(h[i], R)}
<1>4. 0 \in G
  <2>1. Arranges(<<>>, Article, {}) /\ InOrder(<<>>, R)
    BY NothingIsArranged, EmptySeq DEF InOrder
  <2>2. h[0] = <<>> /\ UpTo(seq, 0) = {}
    BY <1>2, <1>3
  <2>3. Arranges(h[0], Article, UpTo(seq, 0)) /\ InOrder(h[0], R)
    <3> HIDE DEF n
    <3>1. QED
      BY <2>1, <2>2
  <2>4. QED
    BY <1>1, <2>3
<1>5. ASSUME NEW i \in 1 .. n, i - 1 \in G PROVE i \in G
  <2> DEFINE s == h[i - 1]
             S == UpTo(seq, i - 1)
             p == Cardinality(NotAfter(s, seq[i], R)) + 1
  <2>1. Arranges(s, Article, S) /\ InOrder(s, R) /\ s \in Seq(Article)
    BY <1>5 DEF Arranges
  <2>2. seq[i] \in Article /\ seq[i] \notin S
    BY NextIsNew
  <2>3. p \in 1 .. Len(s) + 1
    BY <2>1, SortStepPlace
  <2>4. h[i] = InsertAt(s, p, seq[i]) /\ h[i] = SortStep(s, seq[i], R)
    BY <1>2 DEF SortStep
  <2>5. UpTo(seq, i) = S \cup {seq[i]}
    BY <1>3
  <2> HIDE DEF s, S, p
  <2>6. Arranges(h[i], Article, UpTo(seq, i))
    <3>1. Arranges(InsertAt(s, p, seq[i]), Article, S \cup {seq[i]})
      BY <2>1, <2>2, <2>3, InsertArranges
    <3>2. QED
      BY <2>4, <2>5, <3>1
  <2>7. InOrder(h[i], R)
    BY <2>1, <2>2, <2>4, SortStepKeepsOrder
  <2>8. QED
    BY <1>1, <2>6, <2>7
<1> HIDE DEF G
<1>6. n \in G
  <2>1. \A i \in 0 .. n : i \in G
    BY <1>1, <1>4, <1>5, CountingUp
  <2>2. QED
    BY <1>1, <2>1
<1>7. QED
  BY <1>2, <1>3, <1>6 DEF G

(***************************************************************************)
(* Stories                                                                 *)
(***************************************************************************)
\* The clusters C hold the articles of S, once each; none is too large, and its first article
\* is of a domain as reliable as any.
Groups(C, S, R) ==
  /\ C \in Seq(Seq(Article))
  /\ \A a \in S : \E i \in DOMAIN C : \E j \in DOMAIN C[i] : C[i][j] = a
  /\ \A i, k \in DOMAIN C : \A j \in DOMAIN C[i], l \in DOMAIN C[k] :
       C[i][j] = C[k][l] => i = k /\ j = l
  /\ \A i \in DOMAIN C :
       /\ Len(C[i]) \in 1 .. MaxCluster
       /\ \A j \in DOMAIN C[i] : C[i][j] \in S /\ R[From[C[i][j]]] <= R[From[C[i][1]]]

GroupStep(C, a) ==
  IF Target(C, a) = {} THEN Append(C, <<a>>)
  ELSE [C EXCEPT ![First(Target(C, a))] = Append(@, a)]

\* The cluster that an article joins is there, and is not full.
LEMMA TargetIsAPlace ==
  ASSUME NEW C \in Seq(Seq(Article)), NEW a
  PROVE  /\ Target(C, a) \in SUBSET (DOMAIN C)
         /\ \A i \in Target(C, a) : Len(C[i]) < MaxCluster
         /\ Target(C, a) # {} => First(Target(C, a)) \in Target(C, a)
<1>1. Len(C) \in Nat /\ DOMAIN C = 1 .. Len(C)
  BY LenProperties
<1>2. Target(C, a) \in SUBSET (DOMAIN C) /\ \A i \in Target(C, a) : Len(C[i]) < MaxCluster
  BY DEF Target
<1>3. Target(C, a) # {} => First(Target(C, a)) \in Target(C, a)
  BY <1>1, <1>2, FirstOfPlaces
<1>4. QED
  BY <1>2, <1>3

\* A cluster for the article.
LEMMA OpensCluster ==
  ASSUME NEW C \in Seq(Seq(Article)), NEW a \in Article
  PROVE  /\ Append(C, <<a>>) \in Seq(Seq(Article))
         /\ DOMAIN Append(C, <<a>>) = 1 .. Len(C) + 1
         /\ Append(C, <<a>>)[Len(C) + 1] = <<a>>
         /\ \A i \in 1 .. Len(C) : Append(C, <<a>>)[i] = C[i]
<1>1. <<a>> \in Seq(Article)
  OBVIOUS
<1> DEFINE c == <<a>>
<1> HIDE DEF c
<1>2. c \in Seq(Article)
  BY <1>1 DEF c
<1>3. /\ Append(C, c) \in Seq(Seq(Article)) /\ Len(Append(C, c)) = Len(C) + 1
      /\ Append(C, c)[Len(C) + 1] = c
      /\ \A i \in 1 .. Len(C) : Append(C, c)[i] = C[i]
  BY <1>2, AppendProperties
<1>4. DOMAIN Append(C, c) = 1 .. Len(C) + 1
  BY <1>3, LenProperties
<1>5. QED
  BY <1>3, <1>4 DEF c

\* The article joins the cluster at p.
LEMMA JoinsCluster ==
  ASSUME NEW C \in Seq(Seq(Article)), NEW a \in Article, NEW p \in DOMAIN C
  PROVE  LET M == [C EXCEPT ![p] = Append(@, a)]
         IN  /\ M \in Seq(Seq(Article)) /\ DOMAIN M = DOMAIN C
             /\ \A i \in DOMAIN C : i # p => M[i] = C[i]
             /\ DOMAIN C[p] = 1 .. Len(C[p]) /\ Len(C[p]) \in Nat
             /\ Len(M[p]) = Len(C[p]) + 1 /\ DOMAIN M[p] = 1 .. Len(C[p]) + 1
             /\ M[p][Len(C[p]) + 1] = a
             /\ \A j \in 1 .. Len(C[p]) : M[p][j] = C[p][j]
<1> DEFINE c == C[p]
           d == Append(c, a)
           M == [C EXCEPT ![p] = d]
<1>1. Len(C) \in Nat /\ DOMAIN C = 1 .. Len(C) /\ c \in Seq(Article)
  BY LenProperties, ElementOfSeq
<1>2. Len(c) \in Nat /\ DOMAIN c = 1 .. Len(c)
  BY <1>1, LenProperties
<1> HIDE DEF c
<1>3. /\ d \in Seq(Article) /\ Len(d) = Len(c) + 1 /\ d[Len(c) + 1] = a
      /\ \A j \in 1 .. Len(c) : d[j] = c[j]
  BY <1>1, AppendProperties
<1> HIDE DEF d
<1>4. DOMAIN d = 1 .. Len(c) + 1
  BY <1>3, LenProperties
<1>5. /\ M \in Seq(Seq(Article)) /\ DOMAIN M = DOMAIN C /\ M[p] = d
      /\ \A i \in DOMAIN C : i # p => M[i] = C[i]
  BY <1>1, <1>3, ExceptSeq
<1>6. M = [C EXCEPT ![p] = Append(@, a)]
  BY DEF d, c
<1> HIDE DEF M
<1>7. QED
  BY <1>2, <1>3, <1>4, <1>5, <1>6 DEF c

\* The clusters stay lists of articles.
LEMMA GroupStepKeepsType ==
  ASSUME NEW C \in Seq(Seq(Article)), NEW a \in Article
  PROVE  GroupStep(C, a) \in Seq(Seq(Article))
<1>1. CASE Target(C, a) = {}
  BY <1>1, OpensCluster DEF GroupStep
<1>2. CASE Target(C, a) # {}
  <2> DEFINE p == First(Target(C, a))
  <2>1. p \in DOMAIN C
    BY <1>2, TargetIsAPlace
  <2>2. GroupStep(C, a) = [C EXCEPT ![p] = Append(@, a)]
    BY <1>2 DEF GroupStep
  <2> HIDE DEF p
  <2>3. QED
    BY <2>1, <2>2, JoinsCluster
<1>3. QED
  BY <1>1, <1>2

\* One article more in the clusters.
LEMMA GroupStepGroups ==
  ASSUME NEW R, Rates(R), NEW S \in SUBSET Article, NEW C, Groups(C, S, R),
         NEW a \in Article, a \notin S, \A b \in S : R[From[a]] <= R[From[b]]
  PROVE  Groups(GroupStep(C, a), S \cup {a}, R)
<1> DEFINE M == GroupStep(C, a)
<1>1. C \in Seq(Seq(Article))
  BY DEF Groups
<1>2. /\ Len(C) \in Nat /\ DOMAIN C = 1 .. Len(C)
      /\ \A i \in DOMAIN C : /\ Len(C[i]) \in Nat \ {0} /\ Len(C[i]) <= MaxCluster
                             /\ DOMAIN C[i] = 1 .. Len(C[i])
                             /\ \A j \in DOMAIN C[i] : C[i][j] \in S /\ C[i][j] # a
  <2>1. \A i \in DOMAIN C : C[i] \in Seq(Article)
    BY <1>1, ElementOfSeq, LenProperties
  <2>2. Len(C) \in Nat /\ DOMAIN C = 1 .. Len(C)
    BY <1>1, LenProperties
  <2>3. \A i \in DOMAIN C : Len(C[i]) \in Nat /\ DOMAIN C[i] = 1 .. Len(C[i])
    BY <2>1, LenProperties
  <2>4. QED
    BY <2>2, <2>3, CurationAssumption DEF Groups
<1>3. R[From[a]] \in Int /\ MaxCluster \in Nat /\ MaxCluster >= 1
  BY CurationAssumption DEF Rates
<1>4. CASE Target(C, a) = {}
  <2> DEFINE n == Len(C)
  <2>1. M = Append(C, <<a>>)
    BY <1>4 DEF GroupStep
  <2> HIDE DEF M, n
  <2>2. /\ M \in Seq(Seq(Article)) /\ DOMAIN M = 1 .. n + 1 /\ M[n + 1] = <<a>>
        /\ \A i \in DOMAIN C : M[i] = C[i]
    BY <1>1, <1>2, <2>1, OpensCluster DEF n
  <2>3. Len(<<a>>) = 1 /\ DOMAIN <<a>> = {1} /\ <<a>>[1] = a
    <3>1. 1 .. 1 = {1}
      OBVIOUS
    <3>2. QED
      BY <3>1
  <2>4. n \in Nat /\ DOMAIN C = 1 .. n /\ DOMAIN M = DOMAIN C \cup {n + 1} /\ n + 1 \notin DOMAIN C
    BY <1>2, <2>2 DEF n
  <2>5. \A b \in S \cup {a} : \E i \in DOMAIN M : \E j \in DOMAIN M[i] : M[i][j] = b
    <3>1. \E j \in DOMAIN M[n + 1] : M[n + 1][j] = a
      BY <2>2, <2>3
    <3>2. \A b \in S : \E i \in DOMAIN C : \E j \in DOMAIN C[i] : C[i][j] = b
      BY DEF Groups
    <3>3. QED
      BY <2>2, <2>4, <3>1, <3>2
  <2>6. ASSUME NEW i \in DOMAIN M, NEW k \in DOMAIN M, NEW j \in DOMAIN M[i], NEW l \in DOMAIN M[k],
               M[i][j] = M[k][l]
        PROVE  i = k /\ j = l
    <3>1. CASE i \in DOMAIN C /\ k \in DOMAIN C
      BY <2>2, <2>6, <3>1 DEF Groups
    <3>2. CASE i = n + 1 /\ k = n + 1
      BY <2>2, <2>3, <3>2
    <3>3. CASE i = n + 1 /\ k \in DOMAIN C
      <4>1. M[i][j] = a /\ M[k][l] # a
        BY <1>2, <2>2, <2>3, <3>3
      <4>2. QED
        BY <2>6, <4>1
    <3>4. CASE k = n + 1 /\ i \in DOMAIN C
      <4>1. M[k][l] = a /\ M[i][j] # a
        BY <1>2, <2>2, <2>3, <3>4
      <4>2. QED
        BY <2>6, <4>1
    <3>5. QED
      BY <2>4, <3>1, <3>2, <3>3, <3>4
  <2>7. ASSUME NEW i \in DOMAIN M
        PROVE  /\ Len(M[i]) \in 1 .. MaxCluster
               /\ \A j \in DOMAIN M[i] :
                    M[i][j] \in S \cup {a} /\ R[From[M[i][j]]] <= R[From[M[i][1]]]
    <3>1. CASE i = n + 1
      <4>1. Len(M[i]) = 1 /\ M[i][1] = a /\ DOMAIN M[i] = {1}
        BY <2>2, <2>3, <3>1
      <4>2. QED
        BY <1>3, <4>1
    <3>2. CASE i \in DOMAIN C
      BY <2>2, <3>2 DEF Groups
    <3>3. QED
      BY <2>4, <3>1, <3>2
  <2>8. QED
    BY <2>2, <2>5, <2>6, <2>7 DEF Groups, M
<1>5. CASE Target(C, a) # {}
  <2> DEFINE p == First(Target(C, a))
             n == Len(C[p])
  <2>1. p \in DOMAIN C /\ n < MaxCluster
    BY <1>1, <1>5, TargetIsAPlace
  <2>2. M = [C EXCEPT ![p] = Append(@, a)]
    BY <1>5 DEF GroupStep
  <2> HIDE DEF M, p
  <2>3. /\ M \in Seq(Seq(Article)) /\ DOMAIN M = DOMAIN C
        /\ \A i \in DOMAIN C : i # p => M[i] = C[i]
        /\ Len(M[p]) = n + 1 /\ DOMAIN M[p] = 1 .. n + 1
        /\ M[p][n + 1] = a
        /\ \A j \in 1 .. n : M[p][j] = C[p][j]
    BY <1>1, <2>1, <2>2, JoinsCluster
  <2>4. n \in Nat /\ n >= 1 /\ DOMAIN C[p] = 1 .. n
    BY <1>2, <2>1
  <2> HIDE DEF n
  <2>5. \A i \in DOMAIN C : \A j \in DOMAIN C[i] : j \in DOMAIN M[i] /\ M[i][j] = C[i][j]
    <3>1. \A j \in 1 .. n : j \in DOMAIN M[p] /\ M[p][j] = C[p][j]
      BY <2>3, <2>4
    <3>2. QED
      BY <2>3, <2>4, <3>1
  <2>6. \A i \in DOMAIN M : \A j \in DOMAIN M[i] :
          (i = p /\ j = n + 1) \/ j \in DOMAIN C[i]
    BY <2>3, <2>4
  <2>7. \A b \in S \cup {a} : \E i \in DOMAIN M : \E j \in DOMAIN M[i] : M[i][j] = b
    <3>1. n + 1 \in DOMAIN M[p] /\ p \in DOMAIN M
      BY <2>1, <2>3, <2>4
    <3>2. \A b \in S : \E i \in DOMAIN C : \E j \in DOMAIN C[i] : C[i][j] = b
      BY DEF Groups
    <3>3. QED
      BY <2>3, <2>5, <3>1, <3>2
  <2>8. ASSUME NEW i \in DOMAIN M, NEW k \in DOMAIN M, NEW j \in DOMAIN M[i], NEW l \in DOMAIN M[k],
               M[i][j] = M[k][l]
        PROVE  i = k /\ j = l
    <3>1. CASE j \in DOMAIN C[i] /\ l \in DOMAIN C[k]
      BY <2>3, <2>5, <2>8, <3>1 DEF Groups
    <3>2. CASE (i = p /\ j = n + 1) /\ (k = p /\ l = n + 1)
      BY <3>2
    <3>3. CASE (i = p /\ j = n + 1) /\ l \in DOMAIN C[k]
      <4>1. M[i][j] = a /\ M[k][l] # a
        BY <1>2, <2>3, <2>5, <3>3
      <4>2. QED
        BY <2>8, <4>1
    <3>4. CASE j \in DOMAIN C[i] /\ (k = p /\ l = n + 1)
      <4>1. M[k][l] = a /\ M[i][j] # a
        BY <1>2, <2>3, <2>5, <3>4
      <4>2. QED
        BY <2>8, <4>1
    <3>5. QED
      BY <2>6, <3>1, <3>2, <3>3, <3>4
  <2>9. ASSUME NEW i \in DOMAIN M
        PROVE  /\ Len(M[i]) \in 1 .. MaxCluster
               /\ \A j \in DOMAIN M[i] :
                    M[i][j] \in S \cup {a} /\ R[From[M[i][j]]] <= R[From[M[i][1]]]
    <3>1. CASE i = p
      <4>1. Len(M[i]) \in 1 .. MaxCluster
        BY <1>3, <2>1, <2>3, <2>4, <3>1
      <4>2. M[i][1] = C[i][1] /\ 1 \in DOMAIN C[i] /\ C[i][1] \in S
        BY <1>2, <2>1, <2>3, <2>4, <3>1
      <4>3. ASSUME NEW j \in DOMAIN C[i]
            PROVE  M[i][j] \in S /\ R[From[M[i][j]]] <= R[From[M[i][1]]]
        BY <2>3, <2>5, <4>2 DEF Groups
      <4>4. M[i][n + 1] = a /\ R[From[a]] <= R[From[M[i][1]]]
        BY <2>3, <3>1, <4>2
      <4>5. QED
        BY <2>6, <4>1, <4>3, <4>4
    <3>2. CASE i # p
      BY <2>3, <3>2 DEF Groups
    <3>3. QED
      BY <3>1, <3>2
  <2>10. QED
    BY <2>3, <2>7, <2>8, <2>9 DEF Groups, M
<1>6. QED
  BY <1>4, <1>5

\* The grouping, article by article.
LEMMA GroupedRuns ==
  ASSUME NEW seq \in Seq(Article)
  PROVE  \E h : /\ h[0] = <<>>
                /\ \A i \in 1 .. Len(seq) :
                     h[i] = GroupStep(h[i - 1], seq[i])
                /\ Grouped(seq) = h[Len(seq)]
<1> DEFINE n == Len(seq)
           V == Seq(Seq(Article))
           step == [i \in 1 .. n |-> [K \in V |-> GroupStep(K, seq[i])]]
           Solves(f) == f = [s \in SUBSET (1 .. n) |->
                               IF s = {} THEN <<>>
                               ELSE GroupStep(f[s \ {Max(s)}], seq[Max(s)])]
           g == CHOOSE f : Solves(f)
           h == [i \in 0 .. n |-> g[1 .. i]]
<1>1. n \in Nat /\ DOMAIN seq = 1 .. n /\ \A i \in 1 .. n : seq[i] \in Article
  BY LenProperties, ElementOfSeq
<1>2. step \in [1 .. n -> [V -> V]]
  BY <1>1, GroupStepKeepsType
<1>3. \E f : IsFold(f, n, V, <<>>, step)
  <2>1. <<>> \in V
    BY EmptySeq
  <2>2. n \in Nat /\ step \in [1 .. n -> [V -> V]]
    BY <1>1, <1>2
  <2> HIDE DEF step, n, V
  <2>3. QED
    BY <2>1, <2>2, FoldExists
<1>4. \E f : Solves(f)
  <2>1. PICK f : IsFold(f, n, V, <<>>, step)
    BY <1>3
  <2>2. \A s \in SUBSET (1 .. n) : s # {} => Max(s) \in 1 .. n
    BY <1>1, HasGreatest
  <2>3. \A s \in SUBSET (1 .. n) :
          s # {} => step[Max(s)][f[s \ {Max(s)}]] =
                      GroupStep(f[s \ {Max(s)}], seq[Max(s)])
    <3> HIDE DEF n, V
    <3>1. QED
      BY <2>1, <2>2 DEF IsFold
  <2>4. Solves(f)
    <3> HIDE DEF n, V, step
    <3>1. QED
      BY <2>1, <2>3 DEF IsFold
  <2>5. QED
    BY <2>4
<1>5. Solves(g)
  BY <1>4
<1>6. Grouped(seq) = g[1 .. n]
  BY <1>1 DEF Grouped, GroupStep, FoldLeft, MapThenFoldSet
<1> HIDE DEF g, n, V, step
<1>7. \A s \in SUBSET (1 .. n) :
        g[s] = IF s = {} THEN <<>>
               ELSE GroupStep(g[s \ {Max(s)}], seq[Max(s)])
  BY <1>5
<1>7a. g[1 .. 0] = <<>>
  <2>1. 1 .. 0 = {}
    OBVIOUS
  <2>2. QED
    BY <1>7, <2>1
<1>7b. ASSUME NEW i \in 1 .. n
       PROVE  g[1 .. i] = GroupStep(g[1 .. (i - 1)], seq[i])
  <2>1. 1 .. i \in SUBSET (1 .. n) /\ 1 .. i # {} /\ Max(1 .. i) = i
        /\ (1 .. i) \ {i} = 1 .. (i - 1)
    BY <1>1, FirstPlaces
  <2> DEFINE s == 1 .. i
  <2> HIDE DEF s
  <2>2. s \in SUBSET (1 .. n) /\ s # {} /\ Max(s) = i /\ s \ {i} = 1 .. (i - 1)
    BY <2>1 DEF s
  <2>3. g[s] = GroupStep(g[1 .. (i - 1)], seq[i])
    BY <1>7, <2>2
  <2>4. QED
    BY <2>3 DEF s
<1>8. /\ h[0] = <<>>
      /\ \A i \in 1 .. n : h[i] = GroupStep(h[i - 1], seq[i])
      /\ Grouped(seq) = h[n]
  BY <1>1, <1>6, <1>7a, <1>7b
<1>9. QED
  <2> HIDE DEF h
  <2>1. QED
    BY <1>8 DEF n

\* Before the first article.
LEMMA NoClustersYet ==
  ASSUME NEW R
  PROVE  Groups(<<>>, {}, R)
<1>1. <<>> \in Seq(Seq(Article)) /\ DOMAIN <<>> = {}
  BY EmptySeq
<1>2. QED
  BY <1>1 DEF Groups

\* Grouped in the order of the sort, each article of a cluster is at most as reliable as the
\* one that opened it.
LEMMA GroupedGroups ==
  ASSUME NEW R, Rates(R), NEW seq \in Seq(Article), Injective(seq), InOrder(seq, R)
  PROVE  Groups(Grouped(seq), ToSet(seq), R)
<1> DEFINE n == Len(seq)
<1>1. n \in Nat /\ DOMAIN seq = 1 .. n /\ \A i \in 1 .. n : seq[i] \in Article
  BY LenProperties, ElementOfSeq
<1>2. PICK h : /\ h[0] = <<>>
               /\ \A i \in 1 .. n : h[i] = GroupStep(h[i - 1], seq[i])
               /\ Grouped(seq) = h[n]
  BY GroupedRuns
<1>3. /\ UpTo(seq, 0) = {} /\ UpTo(seq, n) = ToSet(seq)
      /\ \A i \in 1 .. n : UpTo(seq, i) = UpTo(seq, i - 1) \cup {seq[i]}
      /\ \A i \in 0 .. n : UpTo(seq, i) \subseteq Article
  BY UpToGrows
<1> DEFINE G == {i \in 0 .. n : Groups(h[i], UpTo(seq, i), R)}
<1>4. 0 \in G
  <2>1. Groups(<<>>, {}, R)
    BY NoClustersYet
  <2>2. h[0] = <<>> /\ UpTo(seq, 0) = {}
    BY <1>2, <1>3
  <2>3. Groups(h[0], UpTo(seq, 0), R)
    <3> HIDE DEF n
    <3>1. QED
      BY <2>1, <2>2
  <2>4. QED
    BY <1>1, <2>3
<1>5. ASSUME NEW i \in 1 .. n, i - 1 \in G PROVE i \in G
  <2> DEFINE C == h[i - 1]
             S == UpTo(seq, i - 1)
  <2>1. Groups(C, S, R) /\ S \in SUBSET Article
    BY <1>3, <1>5
  <2>2. seq[i] \in Article /\ seq[i] \notin S
    BY NextIsNew
  <2>3. \A b \in S : R[From[seq[i]]] <= R[From[b]]
    <3> SUFFICES ASSUME NEW b \in S PROVE R[From[seq[i]]] <= R[From[b]]
      OBVIOUS
    <3>1. PICK j \in 1 .. (i - 1) : b = seq[j]
      BY DEF UpTo
    <3>2. j \in 1 .. n /\ j < i
      BY <1>1
    <3>3. ~IsEarlier(seq[i], b, R)
      BY <1>1, <3>1, <3>2 DEF InOrder
    <3>4. R[From[seq[i]]] \in Int /\ R[From[b]] \in Int
      BY <1>1, <3>1, <3>2 DEF Rates
    <3>5. QED
      BY <3>3, <3>4 DEF IsEarlier
  <2>4. h[i] = GroupStep(C, seq[i]) /\ UpTo(seq, i) = S \cup {seq[i]}
    BY <1>2, <1>3
  <2> HIDE DEF C, S
  <2>5. Groups(GroupStep(C, seq[i]), S \cup {seq[i]}, R)
    BY <2>1, <2>2, <2>3, GroupStepGroups
  <2>6. Groups(h[i], UpTo(seq, i), R)
    BY <2>4, <2>5
  <2>7. QED
    BY <1>1, <2>6
<1> HIDE DEF G
<1>6. n \in G
  <2>1. \A i \in 0 .. n : i \in G
    BY <1>1, <1>4, <1>5, CountingUp
  <2>2. QED
    BY <1>1, <2>1
<1>7. QED
  BY <1>2, <1>3, <1>6 DEF G

\* The order of the clusters.
DomainsOf(c) == Cardinality({From[c[i]] : i \in DOMAIN c})
IsLarger(c, d) ==
  DomainsOf(c) > DomainsOf(d) \/ (DomainsOf(c) = DomainsOf(d) /\ Len(c) > Len(d))
PlaceBySize(s, c) == Cardinality({i \in DOMAIN s : ~IsLarger(c, s[i])}) + 1
SizeStep(s, c) == InsertAt(s, PlaceBySize(s, c), c)

\* The place of the next cluster.
LEMMA PlaceBySizeIsAPlace ==
  ASSUME NEW s \in Seq(Seq(Article)), NEW c
  PROVE  PlaceBySize(s, c) \in 1 .. Len(s) + 1
<1> DEFINE D == {i \in DOMAIN s : ~IsLarger(c, s[i])}
<1>1. Len(s) \in Nat /\ DOMAIN s = 1 .. Len(s)
  BY LenProperties
<1>2. D \in SUBSET (1 .. Len(s))
  BY <1>1
<1> HIDE DEF D
<1>3. Cardinality(D) \in 0 .. Len(s)
  BY <1>1, <1>2, CountOfPlaces
<1>4. QED
  BY <1>1, <1>3 DEF PlaceBySize, D

\* The list stays a list of clusters.
LEMMA SizeStepKeepsType ==
  ASSUME NEW s \in Seq(Seq(Article)), NEW c \in Seq(Article)
  PROVE  SizeStep(s, c) \in Seq(Seq(Article))
BY PlaceBySizeIsAPlace, InsertAtPlaces DEF SizeStep

\* The order, cluster by cluster.
LEMMA LargestFirstRuns ==
  ASSUME NEW seq \in Seq(Seq(Article))
  PROVE  \E h : /\ h[0] = <<>>
                /\ \A i \in 1 .. Len(seq) :
                     h[i] = SizeStep(h[i - 1], seq[i])
                /\ LargestFirst(seq) = h[Len(seq)]
<1> DEFINE n == Len(seq)
           V == Seq(Seq(Article))
           step == [i \in 1 .. n |-> [K \in V |-> SizeStep(K, seq[i])]]
           Solves(f) == f = [s \in SUBSET (1 .. n) |->
                               IF s = {} THEN <<>>
                               ELSE SizeStep(f[s \ {Max(s)}], seq[Max(s)])]
           g == CHOOSE f : Solves(f)
           h == [i \in 0 .. n |-> g[1 .. i]]
<1>1. n \in Nat /\ DOMAIN seq = 1 .. n /\ \A i \in 1 .. n : seq[i] \in Seq(Article)
  BY LenProperties, ElementOfSeq
<1>2. step \in [1 .. n -> [V -> V]]
  BY <1>1, SizeStepKeepsType
<1>3. \E f : IsFold(f, n, V, <<>>, step)
  <2>1. <<>> \in V
    BY EmptySeq
  <2>2. n \in Nat /\ step \in [1 .. n -> [V -> V]]
    BY <1>1, <1>2
  <2> HIDE DEF step, n, V
  <2>3. QED
    BY <2>1, <2>2, FoldExists
<1>4. \E f : Solves(f)
  <2>1. PICK f : IsFold(f, n, V, <<>>, step)
    BY <1>3
  <2>2. \A s \in SUBSET (1 .. n) : s # {} => Max(s) \in 1 .. n
    BY <1>1, HasGreatest
  <2>3. \A s \in SUBSET (1 .. n) :
          s # {} => step[Max(s)][f[s \ {Max(s)}]] =
                      SizeStep(f[s \ {Max(s)}], seq[Max(s)])
    <3> HIDE DEF n, V
    <3>1. QED
      BY <2>1, <2>2 DEF IsFold
  <2>4. Solves(f)
    <3> HIDE DEF n, V, step
    <3>1. QED
      BY <2>1, <2>3 DEF IsFold
  <2>5. QED
    BY <2>4
<1>5. Solves(g)
  BY <1>4
<1>6. LargestFirst(seq) = g[1 .. n]
  BY <1>1 DEF LargestFirst, InsertBehind, SizeStep, PlaceBySize, IsLarger, DomainsOf, FoldLeft, MapThenFoldSet
<1> HIDE DEF g, n, V, step
<1>7. \A s \in SUBSET (1 .. n) :
        g[s] = IF s = {} THEN <<>>
               ELSE SizeStep(g[s \ {Max(s)}], seq[Max(s)])
  BY <1>5
<1>7a. g[1 .. 0] = <<>>
  <2>1. 1 .. 0 = {}
    OBVIOUS
  <2>2. QED
    BY <1>7, <2>1
<1>7b. ASSUME NEW i \in 1 .. n
       PROVE  g[1 .. i] = SizeStep(g[1 .. (i - 1)], seq[i])
  <2>1. 1 .. i \in SUBSET (1 .. n) /\ 1 .. i # {} /\ Max(1 .. i) = i
        /\ (1 .. i) \ {i} = 1 .. (i - 1)
    BY <1>1, FirstPlaces
  <2> DEFINE s == 1 .. i
  <2> HIDE DEF s
  <2>2. s \in SUBSET (1 .. n) /\ s # {} /\ Max(s) = i /\ s \ {i} = 1 .. (i - 1)
    BY <2>1 DEF s
  <2>3. g[s] = SizeStep(g[1 .. (i - 1)], seq[i])
    BY <1>7, <2>2
  <2>4. QED
    BY <2>3 DEF s
<1>8. /\ h[0] = <<>>
      /\ \A i \in 1 .. n : h[i] = SizeStep(h[i - 1], seq[i])
      /\ LargestFirst(seq) = h[n]
  BY <1>1, <1>6, <1>7a, <1>7b
<1>9. QED
  <2> HIDE DEF h
  <2>1. QED
    BY <1>8 DEF n

\* The order of the clusters loses none of them.
LEMMA LargestFirstArranges ==
  ASSUME NEW C \in Seq(Seq(Article)), Injective(C)
  PROVE  Arranges(LargestFirst(C), Seq(Article), ToSet(C))
<1> DEFINE n == Len(C)
<1>1. n \in Nat /\ \A i \in 1 .. n : C[i] \in Seq(Article)
  BY LenProperties, ElementOfSeq
<1>2. PICK h : /\ h[0] = <<>>
               /\ \A i \in 1 .. n : h[i] = SizeStep(h[i - 1], C[i])
               /\ LargestFirst(C) = h[n]
  BY LargestFirstRuns
<1>3. /\ UpTo(C, 0) = {} /\ UpTo(C, n) = ToSet(C)
      /\ \A i \in 1 .. n : UpTo(C, i) = UpTo(C, i - 1) \cup {C[i]}
  BY UpToGrows
<1> DEFINE G == {i \in 0 .. n : Arranges(h[i], Seq(Article), UpTo(C, i))}
<1>4. 0 \in G
  <2>1. Arranges(<<>>, Seq(Article), {})
    BY NothingIsArranged
  <2>2. h[0] = <<>> /\ UpTo(C, 0) = {}
    BY <1>2, <1>3
  <2>3. Arranges(h[0], Seq(Article), UpTo(C, 0))
    <3> HIDE DEF n
    <3>1. QED
      BY <2>1, <2>2
  <2>4. QED
    BY <1>1, <2>3
<1>5. ASSUME NEW i \in 1 .. n, i - 1 \in G PROVE i \in G
  <2> DEFINE s == h[i - 1]
             S == UpTo(C, i - 1)
             p == PlaceBySize(s, C[i])
  <2>1. Arranges(s, Seq(Article), S) /\ s \in Seq(Seq(Article))
    BY <1>5 DEF Arranges
  <2>2. C[i] \in Seq(Article) /\ C[i] \notin S
    BY NextIsNew
  <2>3. p \in 1 .. Len(s) + 1
    BY <2>1, PlaceBySizeIsAPlace
  <2>4. h[i] = InsertAt(s, p, C[i])
    BY <1>2 DEF SizeStep
  <2>5. UpTo(C, i) = S \cup {C[i]}
    BY <1>3
  <2> HIDE DEF s, S, p
  <2>6. Arranges(h[i], Seq(Article), UpTo(C, i))
    <3>1. Arranges(InsertAt(s, p, C[i]), Seq(Article), S \cup {C[i]})
      BY <2>1, <2>2, <2>3, InsertArranges
    <3>2. QED
      BY <2>4, <2>5, <3>1
  <2>7. QED
    BY <1>1, <2>6
<1> HIDE DEF G
<1>6. n \in G
  <2>1. \A i \in 0 .. n : i \in G
    BY <1>1, <1>4, <1>5, CountingUp
  <2>2. QED
    BY <1>1, <2>1
<1>7. QED
  BY <1>2, <1>3, <1>6 DEF G

\* What holds of the clusters holds of them in another order.
LEMMA ArrangedClustersGroup ==
  ASSUME NEW R, NEW S \in SUBSET Article, NEW C, Groups(C, S, R),
         NEW L, Arranges(L, Seq(Article), ToSet(C))
  PROVE  Groups(L, S, R)
<1>1. L \in Seq(Seq(Article)) /\ Injective(L)
  BY DEF Arranges
<1>2. \A i \in DOMAIN L : \E x \in DOMAIN C : L[i] = C[x]
  BY DEF Arranges, ToSet
<1>3. \A x \in DOMAIN C : \E i \in DOMAIN L : L[i] = C[x]
  BY DEF Arranges, ToSet
<1>4. ASSUME NEW a \in S PROVE \E i \in DOMAIN L : \E j \in DOMAIN L[i] : L[i][j] = a
  <2>1. PICK x \in DOMAIN C : \E j \in DOMAIN C[x] : C[x][j] = a
    BY DEF Groups
  <2>2. PICK i \in DOMAIN L : L[i] = C[x]
    BY <1>3
  <2>3. QED
    BY <2>1, <2>2
<1>5. ASSUME NEW i \in DOMAIN L, NEW k \in DOMAIN L, NEW j \in DOMAIN L[i], NEW l \in DOMAIN L[k],
             L[i][j] = L[k][l]
      PROVE  i = k /\ j = l
  <2>1. PICK x \in DOMAIN C : L[i] = C[x]
    BY <1>2
  <2>2. PICK y \in DOMAIN C : L[k] = C[y]
    BY <1>2
  <2>3. x = y /\ j = l
    BY <1>5, <2>1, <2>2 DEF Groups
  <2>4. QED
    BY <1>1, <2>1, <2>2, <2>3 DEF Injective
<1>6. ASSUME NEW i \in DOMAIN L
      PROVE  /\ Len(L[i]) \in 1 .. MaxCluster
             /\ \A j \in DOMAIN L[i] : L[i][j] \in S /\ R[From[L[i][j]]] <= R[From[L[i][1]]]
  BY <1>2 DEF Groups
<1>7. QED
  BY <1>1, <1>4, <1>5, <1>6 DEF Groups

\* The stories of what was kept (clusterer.py:68-147).
LEMMA ClusterGroups ==
  ASSUME NEW R, Rates(R), NEW seq \in Seq(Article), Injective(seq)
  PROVE  Groups(Cluster(seq, R), ToSet(seq), R)
<1> DEFINE s == Sorted(seq, R)
           C == Grouped(s)
           L == LargestFirst(C)
           S == ToSet(seq)
<1>1. S \in SUBSET Article
  BY UpToGrows, LenProperties
<1>2. Arranges(s, Article, S) /\ InOrder(s, R)
  BY SortedArranges
<1> HIDE DEF s, S
<1>3. s \in Seq(Article) /\ Injective(s) /\ ToSet(s) = S
  BY <1>2 DEF Arranges
<1>4. Groups(C, S, R)
  BY <1>2, <1>3, GroupedGroups
<1> HIDE DEF C
<1>5. C \in Seq(Seq(Article)) /\ Injective(C)
  <2>1. C \in Seq(Seq(Article)) /\ \A i \in DOMAIN C : C[i] \in Seq(Article) /\ Len(C[i]) \in 1 .. MaxCluster
    BY <1>4, ElementOfSeq, LenProperties DEF Groups
  <2>2. \A i \in DOMAIN C : 1 \in DOMAIN C[i]
    BY <2>1, LenProperties, CurationAssumption
  <2>3. QED
    BY <1>4, <2>1, <2>2 DEF Groups, Injective
<1>6. Arranges(L, Seq(Article), ToSet(C))
  BY <1>5, LargestFirstArranges
<1> HIDE DEF L
<1>7. Groups(L, S, R)
  BY <1>1, <1>4, <1>6, ArrangedClustersGroup
<1>8. QED
  BY <1>7 DEF L, C, s, S, Cluster

===============================================================================
