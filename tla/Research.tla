------------------------------ MODULE Research ------------------------------
(***************************************************************************)
(* The research of the selected topics (app/ai): those of the Global Pulse *)
(* together, then those of the brands, each with the model's answers       *)
(* checked and asked for again, all under one semaphore; then the creative *)
(* spark, and the minimum of verified topics.  What the model writes is    *)
(* valid, unusable (a BriefingError or a ValidationError) or not even      *)
(* JSON, which nothing catches.                                            *)
(***************************************************************************)
EXTENDS Integers, FiniteSets

CONSTANTS
  Topic,
  Sourced,      \* the topics with an article that can be cited
  Slots,        \* MAX_CONCURRENT_RESEARCH
  Attempts,     \* DEFAULT_ATTEMPTS of a request
  Rounds,       \* VALIDATION_ATTEMPTS
  Minimum       \* MIN_TOTAL_TOPICS

ASSUME ResearchAssumption ==
  /\ IsFiniteSet(Topic) /\ Sourced \subseteq Topic
  /\ Slots \in Nat \ {0} /\ Attempts \in Nat \ {0} /\ Rounds \in Nat \ {0} /\ Minimum \in Nat

VARIABLES
  stage,      \* what the research is at
  globals,    \* the topics of the Global Pulse
  entries,    \* the topics of the Brand Radar
  job,        \* what is done about each topic
  call,       \* the attempt of complete_json() it is in
  round,      \* the round of validation it is in
  free,       \* the semaphore
  verified    \* the topics in the results

researchVars == <<stage, globals, entries, job, call, round, free, verified>>

Ended == {"valid", "void"}
Final == {"briefing", "refused", "error", "cut"}
NoJobs == [t \in Topic |-> "none"]
Zero == [t \in Topic |-> 0]

ResearchTypeOK ==
  /\ stage \in {"idle", "globals", "brands", "spark", "minimum"} \cup Final
  /\ globals \subseteq Topic /\ entries \subseteq Topic
  /\ job \in [Topic -> {"none", "waiting", "asking"} \cup Ended]
  /\ call \in [Topic -> 0 .. Attempts]
  /\ round \in [Topic -> 0 .. Rounds]
  /\ free \in 0 .. Slots
  /\ verified \subseteq Topic

ResearchInit ==
  /\ stage = "idle"
  /\ globals = {} /\ entries = {}
  /\ job = NoJobs /\ call = Zero /\ round = Zero
  /\ free = Slots
  /\ verified = {}

\* gather() makes a task of each of these topics.
Gather(T) == job' = [t \in Topic |-> IF t \in T THEN "waiting" ELSE job[t]]

\* _research() begins, with the selections of both sections.
StartResearch(G, B) ==
  /\ stage = "idle"
  /\ globals' = G
  /\ entries' = B
  /\ Gather(G)
  /\ stage' = "globals"
  /\ UNCHANGED <<call, round, free, verified>>

-----------------------------------------------------------------------------
\* A topic gets a slot; without a source it gives up at once, and the slot back.
TakeSlot(t) ==
  /\ job[t] = "waiting"
  /\ free > 0
  /\ IF t \in Sourced
     THEN /\ job' = [job EXCEPT ![t] = "asking"]
          /\ call' = [call EXCEPT ![t] = 1]
          /\ round' = [round EXCEPT ![t] = 1]
          /\ free' = free - 1
     ELSE /\ job' = [job EXCEPT ![t] = "void"]
          /\ UNCHANGED <<call, round, free>>
  /\ UNCHANGED <<stage, globals, entries, verified>>

\* complete_json(): a transport error or a transient status, and the pause after it.
CallAgain(t) ==
  /\ job[t] = "asking"
  /\ call[t] < Attempts
  /\ call' = [call EXCEPT ![t] = @ + 1]
  /\ UNCHANGED <<stage, globals, entries, job, round, free, verified>>

End(t, how) ==
  /\ job' = [job EXCEPT ![t] = how]
  /\ call' = [call EXCEPT ![t] = 0]
  /\ round' = [round EXCEPT ![t] = 0]

\* A variant with a plausible bug: the rounds are not counted.
RoundForEver(t) ==
  /\ job[t] = "asking"
  /\ call' = [call EXCEPT ![t] = 1]
  /\ round' = [round EXCEPT ![t] = IF @ < Rounds THEN @ + 1 ELSE 1]
  /\ UNCHANGED <<stage, globals, entries, job, free, verified>>

\* complete_json() raises, or its answer fails the schema: another round.
RoundAgain(t) ==
  /\ job[t] = "asking"
  /\ round[t] < Rounds
  /\ round' = [round EXCEPT ![t] = @ + 1]
  /\ call' = [call EXCEPT ![t] = 1]
  /\ UNCHANGED <<stage, globals, entries, job, free, verified>>

\* A variant with a plausible bug: the slot of a topic that fails is lost.
GiveUpKeepsSlot(t) ==
  /\ job[t] = "asking"
  /\ round[t] = Rounds
  /\ End(t, "void")
  /\ UNCHANGED <<stage, globals, entries, free, verified>>

\* The same in the last round: the topic is dropped.
GiveUp(t) ==
  /\ job[t] = "asking"
  /\ round[t] = Rounds
  /\ End(t, "void")
  /\ free' = free + 1
  /\ UNCHANGED <<stage, globals, entries, verified>>

\* An answer that holds.
Verify(t) ==
  /\ job[t] = "asking"
  /\ End(t, "valid")
  /\ free' = free + 1
  /\ UNCHANGED <<stage, globals, entries, verified>>

\* An exception out of one task, or out of the spark, ends the research, and the client is
\* closed under the tasks that are left.
Abort(end) ==
  /\ stage' = end
  /\ job' = NoJobs /\ call' = Zero /\ round' = Zero
  /\ free' = Slots
  /\ verified' = {} /\ globals' = {} /\ entries' = {}

\* A 200 whose body is not JSON: response.json() raises outside the try, and neither the
\* rounds nor the gather() catch it, so one topic ends the research of all.
Raise(t) ==
  /\ job[t] = "asking"
  /\ Abort("error")

-----------------------------------------------------------------------------
Valid(T) == {t \in T : job[t] = "valid"}
Done(T) == \A t \in T : job[t] \in Ended

\* research_all() returns: nothing was asked for, or something succeeded; then the entries
\* of the brands are turned to.
GlobalsReturn ==
  /\ stage = "globals"
  /\ Done(globals)
  /\ globals = {} \/ Valid(globals) # {}
  /\ verified' = Valid(globals)
  /\ stage' = "brands"
  /\ Gather(entries)
  /\ UNCHANGED <<globals, entries, call, round, free>>

\* research_all() raises AI_PROCESSING_FAILED, before the brands are tried.
GlobalsFail ==
  /\ stage = "globals"
  /\ Done(globals)
  /\ globals # {} /\ Valid(globals) = {}
  /\ stage' = "refused"
  /\ UNCHANGED <<globals, entries, job, call, round, free, verified>>

BrandsReturn ==
  /\ stage = "brands"
  /\ Done(entries)
  /\ verified' = verified \cup Valid(entries)
  /\ stage' = "spark"
  /\ UNCHANGED <<globals, entries, job, call, round, free>>

\* creative_spark(): an idea or none, which nothing depends on, or an exception.
Spark ==
  /\ stage = "spark"
  /\ \/ /\ stage' = "minimum"
        /\ UNCHANGED <<globals, entries, job, call, round, free, verified>>
     \/ verified # {} /\ Abort("error")

\* A variant with a plausible bug: only the Global Pulse is counted.
CountGlobals ==
  /\ stage = "minimum"
  /\ stage' = IF Cardinality(verified \cap globals) >= Minimum THEN "briefing" ELSE "refused"
  /\ UNCHANGED <<globals, entries, job, call, round, free, verified>>

\* A variant with a plausible bug: the minimum is checked on what was selected.
CountSelected ==
  /\ stage = "minimum"
  /\ stage' = IF Cardinality(globals \cup entries) >= Minimum THEN "briefing" ELSE "refused"
  /\ UNCHANGED <<globals, entries, job, call, round, free, verified>>

\* The minimum of both sections together.
Count ==
  /\ stage = "minimum"
  /\ stage' = IF Cardinality(verified) >= Minimum THEN "briefing" ELSE "refused"
  /\ UNCHANGED <<globals, entries, job, call, round, free, verified>>

AskStep(t) ==
  TakeSlot(t) \/ CallAgain(t) \/ RoundAgain(t) \/ GiveUp(t) \/ Verify(t) \/ Raise(t)

ResearchStep ==
  \/ \E t \in Topic : AskStep(t)
  \/ GlobalsReturn \/ GlobalsFail \/ BrandsReturn \/ Spark \/ Count

ResearchNext ==
  \/ \E G, B \in SUBSET Topic : G \cap B = {} /\ StartResearch(G, B)
  \/ ResearchStep

ResearchSpec == ResearchInit /\ [][ResearchNext]_researchVars

-----------------------------------------------------------------------------
\* Both gathers share the semaphore: it is worth what is not in use, whichever way each
\* topic went (service.py:60, 111-115, 153-157).
SlotsConserved == free + Cardinality({t \in Topic : job[t] = "asking"}) = Slots

\* The topics that have a job are those of the gather at hand and of the one before.
JobsAreSelected ==
  \A t \in Topic : job[t] # "none" =>
    \/ t \in globals
    \/ t \in entries /\ stage \in {"brands", "spark", "minimum", "briefing", "refused"}

NoStragglers ==
  /\ stage \in {"brands", "spark", "minimum", "briefing", "refused"} => Done(globals)
  /\ stage \in {"spark", "minimum", "briefing"} => Done(entries)
  /\ stage \in {"spark", "minimum"} \cup Final =>
       \A t \in Topic : job[t] \notin {"waiting", "asking"}

\* What is in the results at each stage is what was verified, of both sections, and a topic
\* that nobody can cite is never among it: a neighbour that is slow, or gives up in its
\* rounds, costs a verified topic nothing (service.py:88-109, 132-151).  An exception that
\* nothing catches costs all of them: no partial result outlives it (client.py:126).
ResultIsVerified ==
  /\ stage = "brands" => verified = Valid(globals)
  /\ stage \in {"spark", "minimum", "briefing"} => verified = Valid(globals) \cup Valid(entries)
  /\ stage \in {"error", "cut"} => verified = {} /\ \A t \in Topic : job[t] = "none"
  /\ verified \subseteq Sourced

\* A briefing has the minimum of verified topics; one is refused for having fewer, or for
\* having no topic of the Global Pulse when some were selected (pipeline.py:266-276).
RefusedForAReason ==
  /\ stage = "briefing" => Cardinality(verified) >= Minimum
  /\ stage = "refused" =>
       \/ Cardinality(Valid(globals) \cup Valid(entries)) < Minimum
       \/ globals # {} /\ Valid(globals) = {}

ResearchInv ==
  /\ ResearchTypeOK
  /\ SlotsConserved
  /\ JobsAreSelected
  /\ NoStragglers
  /\ globals \cap entries = {}
  /\ stage = "idle" => globals = {}
  /\ ResultIsVerified
  /\ RefusedForAReason
  /\ \A t \in Topic : job[t] \in {"asking", "valid"} => t \in Sourced
=============================================================================
