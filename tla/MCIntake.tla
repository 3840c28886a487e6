------------------------------ MODULE MCIntake ------------------------------
(***************************************************************************)
(* A small instance of collection and curation for TLC: two feeds and a    *)
(* query in each section, on domains they share.                           *)
(***************************************************************************)
EXTENDS Intake

CONSTANTS f1, f2, f3, f4, q1, q2, wire, blog, a1, a2, a3, a4, b1, b2, b3

MCSource == {f1, f2, f3, f4, q1, q2}
MCStages ==
  <<[section |-> "global", kind |-> "rss", sources |-> <<f1, f2>>],
    [section |-> "global", kind |-> "newsapi", sources |-> <<q1>>],
    [section |-> "niche", kind |-> "rss", sources |-> <<f3, f4>>],
    [section |-> "niche", kind |-> "websearch", sources |-> <<q2>>]>>
MCDomain == {wire, blog}
MCDomainOf == [s \in MCSource |-> IF s \in {f1, f4} THEN wire ELSE blog]
MCKnown == {Unknown, 4}

\* Of the global articles a2 repeats a1 but for a word, and a3 and a4 tell its story in other
\* words; of the niche ones b2 has the headline of b1, and b3 is its page under another one.
MCArticle == {a1, a2, a3, a4, b1, b2, b3}
MCUrl == (a1 :> 1) @@ (a2 :> 2) @@ (a3 :> 3) @@ (a4 :> 4) @@ (b1 :> 5) @@ (b2 :> 6) @@ (b3 :> 5)
MCWords ==
  (a1 :> {"festival", "opens", "melbourne"}) @@ (a2 :> {"the", "festival", "opens", "melbourne"})
    @@ (a3 :> {"festival", "melbourne", "crowds"})
    @@ (a4 :> {"festival", "melbourne", "the", "rain"})
    @@ (b1 :> {"phone", "launch"}) @@ (b2 :> {"phone", "launch"}) @@ (b3 :> {"tablet", "launch"})
MCFrom ==
  (a1 :> blog) @@ (a2 :> wire) @@ (a3 :> blog) @@ (a4 :> wire)
    @@ (b1 :> blog) @@ (b2 :> blog) @@ (b3 :> wire)
MCDate ==
  (a1 :> 2) @@ (a2 :> 1) @@ (a3 :> 0) @@ (a4 :> 1) @@ (b1 :> 0) @@ (b2 :> 3) @@ (b3 :> 1)
MCArticlesOf ==
  (f1 :> <<a1, a4>>) @@ (f2 :> <<a2>>) @@ (q1 :> <<a3>>)
    @@ (f3 :> <<b1>>) @@ (f4 :> <<b2>>) @@ (q2 :> <<b3>>)
MCBase == (wire :> 9) @@ (blog :> 6)
=============================================================================
