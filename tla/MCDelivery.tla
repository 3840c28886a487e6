----------------------------- MODULE MCDelivery -----------------------------
(***************************************************************************)
(* A small instance of the way from the ranked stories to the message for  *)
(* TLC: two brands that want the same three stories, and three topics for  *)
(* the Global Pulse, of which two are taken.                               *)
(***************************************************************************)
EXTENDS Delivery, TLC

CONSTANTS tech, food, s1, s2, s3, p1, p2, p3

MCBrand == {tech, food}
MCStory == {s1, s2, s3}
MCPulse == {p1, p2, p3}
MCKey == (tech :> 2) @@ (food :> 1)
MCId == (s1 :> 1) @@ (s2 :> 2) @@ (s3 :> 3)

\* A story that both brands want, one that only food's queries brought and that was much
\* stronger the day before, and a weaker one with the words of either brand.
MCProfiles ==
  {Blank,
   [appeal |-> 50, previous |-> NoScore, share |-> (tech :> 0) @@ (food :> 0),
    words |-> (tech :> 20) @@ (food :> 20)],
   [appeal |-> 52, previous |-> 90, share |-> (tech :> 0) @@ (food :> 40),
    words |-> (tech :> 0) @@ (food :> 0)],
   [appeal |-> 45, previous |-> 10, share |-> (tech :> 0) @@ (food :> 0),
    words |-> (tech :> 40) @@ (food :> 17)]}
=============================================================================
