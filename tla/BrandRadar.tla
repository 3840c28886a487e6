----------------------------- MODULE BrandRadar -----------------------------
(***************************************************************************)
(* The assignment of stories to brands (app/rank/brand_ranker.py): every   *)
(* brand is paired with every story that has to do with it, and the pairs  *)
(* are gone through from the strongest to the weakest.  What the articles  *)
(* of a story say is its profile; the four measures that no brand enters   *)
(* into are one number, its appeal.  Scores are exact, in 1600ths of a     *)
(* point, where the code has floating point.                               *)
(***************************************************************************)
EXTENDS Integers, Sequences

CONSTANTS
  Brand, Story,
  BrandKey, StoryId,    \* the order of their names
  PerBrand,             \* TOPICS_PER_BRAND
  Profiles              \* what stories may be like: [appeal, previous, words, share]

NoScore == -1           \* the story has no score of an earlier day

ASSUME RadarAssumption ==
  /\ PerBrand \in Nat
  /\ BrandKey \in [Brand -> Int] /\ StoryId \in [Story -> Int]
  /\ \A b, c \in Brand : BrandKey[b] = BrandKey[c] => b = c
  /\ \A s, t \in Story : StoryId[s] = StoryId[t] => s = t
  /\ Profiles \subseteq [appeal : 0 .. 100, previous : {NoScore} \cup 0 .. 100,
                         words : [Brand -> Nat], share : [Brand -> 0 .. 100]]

VARIABLES
  profile,    \* of every story
  rest,       \* the pairs that are still to come
  chosen      \* the stories of each brand, in the order in which they were taken

radarVars == <<profile, rest, chosen>>

Least(a, b) == IF a <= b THEN a ELSE b
Most(a, b) == IF a >= b THEN a ELSE b
Pair == Brand \X Story

\* brand_relevance_score(), in tenths of a point: the weights of the terms that match, in
\* twentieths, or the percentage of articles that the brand's own queries brought.
Wording(b, s) == 25 * Least(40, profile[s].words[b])
Provenance(b, s) == 12 * Least(50, profile[s].share[b])
Relevance(b, s) == Most(Wording(b, s), Provenance(b, s))

\* velocity_score() of the base that the other components make, in 160ths of a point.
Velocity(b, s) ==
  IF profile[s].previous = NoScore THEN 8000
  ELSE Most(0, Least(16000,
         8000 + 70 * profile[s].appeal + Relevance(b, s) - 80 * profile[s].previous))

\* score_for_brand(), with NICHE_WEIGHTS.
Score(b, s) == 16 * (70 * profile[s].appeal + Relevance(b, s)) + 2 * Velocity(b, s)

\* The order in which the pairs are gone through.
Before(p, q) ==
  \/ Score(p[1], p[2]) > Score(q[1], q[2])
  \/ /\ Score(p[1], p[2]) = Score(q[1], q[2])
     /\ \/ Relevance(p[1], p[2]) > Relevance(q[1], q[2])
        \/ /\ Relevance(p[1], p[2]) = Relevance(q[1], q[2])
           /\ \/ BrandKey[p[1]] < BrandKey[q[1]]
              \/ BrandKey[p[1]] = BrandKey[q[1]] /\ StoryId[p[2]] < StoryId[q[2]]

Plausible == {p \in Pair : Relevance(p[1], p[2]) >= 10}
Has(b, s) == \E i \in 1 .. Len(chosen[b]) : chosen[b][i] = s
Claimed(s) == \E b \in Brand : Has(b, s)

RadarInit ==
  /\ profile \in [Story -> Profiles]
  /\ rest = Plausible
  /\ chosen = [b \in Brand |-> <<>>]

\* A variant with a plausible bug: a brand takes one story too many.
TakeOffByOne ==
  \E p \in rest :
    /\ \A q \in rest \ {p} : Before(p, q)
    /\ rest' = rest \ {p}
    /\ chosen' = IF Claimed(p[2]) \/ Len(chosen[p[1]]) > PerBrand THEN chosen
                 ELSE [chosen EXCEPT ![p[1]] = Append(@, p[2])]
    /\ UNCHANGED profile

\* A variant with a plausible bug: pairs in the order of the brands, not of their scores.
TakeInBrandOrder ==
  \E p \in rest :
    /\ \A q \in rest \ {p} :
         BrandKey[p[1]] < BrandKey[q[1]] \/ (p[1] = q[1] /\ Before(p, q))
    /\ rest' = rest \ {p}
    /\ chosen' = IF Claimed(p[2]) \/ Len(chosen[p[1]]) >= PerBrand THEN chosen
                 ELSE [chosen EXCEPT ![p[1]] = Append(@, p[2])]
    /\ UNCHANGED profile

\* The loop of select_brand_radar() takes the first pair.
Take ==
  \E p \in rest :
    /\ \A q \in rest \ {p} : Before(p, q)
    /\ rest' = rest \ {p}
    /\ chosen' = IF Claimed(p[2]) \/ Len(chosen[p[1]]) >= PerBrand THEN chosen
                 ELSE [chosen EXCEPT ![p[1]] = Append(@, p[2])]
    /\ UNCHANGED profile

RadarSpec == RadarInit /\ [][Take]_radarVars

-----------------------------------------------------------------------------
RadarTypeOK ==
  /\ profile \in [Story -> Profiles]
  /\ rest \subseteq Plausible
  /\ chosen \in [Brand -> Seq(Story)]

\* No story is in two brands or twice in one, none has nothing to do with its brand, and no
\* brand has more than its share (brand_ranker.py:19-22).
StoriesUsedOnce ==
  /\ \A b \in Brand :
       /\ Len(chosen[b]) <= PerBrand
       /\ \A i \in 1 .. Len(chosen[b]) : <<b, chosen[b][i]>> \in Plausible \ rest
  /\ \A b, c \in Brand : \A i \in 1 .. Len(chosen[b]), j \in 1 .. Len(chosen[c]) :
       chosen[b][i] = chosen[c][j] => (b = c /\ i = j)

\* A pair that has been passed over lost its story, or its brand's last place, to pairs
\* that are stronger than it.
Blocked(p) ==
  \/ Has(p[1], p[2])
  \/ \E c \in Brand : Has(c, p[2]) /\ Before(<<c, p[2]>>, p)
  \/ /\ Len(chosen[p[1]]) = PerBrand
     /\ \A i \in 1 .. PerBrand : Before(<<p[1], chosen[p[1]][i]>>, p)

\* No brand and story that were not brought together would both be stronger together than
\* in what they got; so the result depends on the scores and names alone, and not on the
\* order in which clusters and brands are listed (brand_ranker.py:159-179).
NoBlockingPair == \A p \in Plausible \ rest : Blocked(p)

\* The best story of a brand comes first in its block.
BlocksAreSorted ==
  \A b \in Brand : \A i, j \in 1 .. Len(chosen[b]) :
    i < j => Before(<<b, chosen[b][i]>>, <<b, chosen[b][j]>>)

RadarInv ==
  /\ RadarTypeOK
  /\ \A p \in Plausible \ rest, q \in rest : Before(p, q)
  /\ StoriesUsedOnce
  /\ NoBlockingPair
  /\ BlocksAreSorted
=============================================================================
