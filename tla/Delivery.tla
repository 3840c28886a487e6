------------------------------ MODULE Delivery ------------------------------
(***************************************************************************)
(* From the ranked stories of both sections to the message                 *)
(* (pipeline.py:362-404, 445-508): the best of the Global Pulse and the    *)
(* Brand Radar are selected, researched, counted, put into blocks and      *)
(* sent.  What nothing reads any more is forgotten, so that states that    *)
(* differ in nothing else are one.                                         *)
(***************************************************************************)
EXTENDS Mailer, Research, BrandRadar

CONSTANTS
  Pulse,      \* the topics of the global section
  TopN        \* GLOBAL_TOP_N

\* A story that is about no brand at all.
Blank == [appeal |-> 0, previous |-> NoScore,
          words |-> [b \in Brand |-> 0], share |-> [b \in Brand |-> 0]]

ASSUME DeliveryAssumption ==
  /\ Topic = Pulse \cup Story /\ Pulse \cap Story = {}
  /\ TopN \in Nat
  /\ Blank \in Profiles

VARIABLES
  standing,   \* trend_score of the global topics
  blocks      \* the topics of the Pulse and of each brand, selected or in the message

vars == <<mailVars, researchVars, radarVars, standing, blocks>>

Init ==
  /\ MailInit /\ ResearchInit /\ RadarInit
  /\ standing \in [Pulse -> 1 .. 2]
  /\ blocks = [pulse |-> {}, brands |-> [b \in Brand |-> {}]]

ForgetRanking ==
  /\ profile' = [s \in Story |-> Blank]
  /\ rest' = {}
  /\ chosen' = [b \in Brand |-> <<>>]
  /\ standing' = [t \in Pulse |-> 1]

Assign ==
  /\ stage = "idle"
  /\ Take
  /\ UNCHANGED <<mailVars, researchVars, standing, blocks>>

\* select_global_top(): by score, then by the topics' ids, which follow no order here.
Best(G) ==
  /\ Cardinality(G) = Least(TopN, Cardinality(Pulse))
  /\ \A t \in G, u \in Pulse \ G : standing[t] >= standing[u]

Select ==
  /\ stage = "idle" /\ rest = {}
  /\ \E G \in SUBSET Pulse :
       /\ Best(G)
       /\ StartResearch(G, {s \in Story : Claimed(s)})
       /\ blocks' = [pulse |-> G, brands |-> [b \in Brand |-> {s \in Story : Has(b, s)}]]
  /\ ForgetRanking
  /\ UNCHANGED mailVars

DoResearch ==
  /\ ResearchStep
  /\ UNCHANGED <<mailVars, radarVars, standing, blocks>>

\* _to_blocks() and the Briefing: what was verified, under the brand it was selected for.
Compose ==
  /\ stage = "briefing"
  /\ StartMail
  /\ blocks' = [pulse |-> blocks.pulse \cap verified,
                brands |-> [b \in Brand |-> blocks.brands[b] \cap verified]]
  /\ UNCHANGED <<researchVars, radarVars, standing>>

Send ==
  /\ MailStep
  /\ UNCHANGED <<researchVars, radarVars, standing, blocks>>

\* The timeout of the run or the death of the process, before the message is begun.
Cut ==
  /\ stage \notin Final
  /\ Abort("cut")
  /\ ForgetRanking
  /\ UNCHANGED <<mailVars, blocks>>

Next == Assign \/ Select \/ DoResearch \/ Compose \/ Send \/ Cut

\* Requests and SMTP dialogues have timeouts, the semaphore queues its tasks, and
\* everything else is computation.
Others == UNCHANGED <<mailVars, radarVars, standing, blocks>>
Returns == GlobalsReturn \/ GlobalsFail \/ BrandsReturn \/ Spark \/ Count

Fairness ==
  /\ WF_vars(Assign \/ Select \/ Compose)
  /\ WF_vars(Returns /\ Others)
  /\ \A t \in Topic : WF_vars(AskStep(t) /\ Others)
  /\ WF_vars(Send)

Spec == Init /\ [][Next]_vars
FairSpec == Spec /\ Fairness

-----------------------------------------------------------------------------
InLetter == blocks.pulse \cup UNION {blocks.brands[b] : b \in Brand}

\* The message that is sent holds every verified topic exactly once, under the brand it was
\* ranked for, at most PerBrand of each, and enough of them; nothing in it goes uncited
\* (pipeline.py:269, 472-483; render.py:141).
LetterIsSound == mail # "off" =>
  /\ InLetter = verified /\ verified \subseteq Sourced
  /\ Cardinality(InLetter) >= Minimum
  /\ Cardinality(blocks.pulse) <= TopN
  /\ \A b \in Brand :
       /\ Cardinality(blocks.brands[b]) <= PerBrand
       /\ blocks.pulse \cap blocks.brands[b] = {}
       /\ \A c \in Brand \ {b} : blocks.brands[b] \cap blocks.brands[c] = {}

\* However often the model and the provider fail, the run comes to an end, with a message's
\* fate or without a message (client.py:113, briefing.py:74, sender.py:92).
DeliveryEnds == <>(stage \in {"refused", "error", "cut"} \/ told # "open")

\* What becomes of one topic costs no other its place: "callers treat that as one topic
\* failing, never as the run failing" (client.py:89-90; service.py:71-72).  The timeout and
\* the death of the process are not meant.
OneTopicCostsOneTopic ==
  [][(stage \in {"globals", "brands"} /\ stage' # "cut") =>
       \A t \in Topic : job[t] = "valid" => job'[t] = "valid"]_vars
=============================================================================
