---------------------------- MODULE DriverProofs ----------------------------
(***************************************************************************)
(* Theorems about Driver.  Its answers are sound if options.tool_params is *)
(* empty, so that is assumed where it is needed (the run driver_params     *)
(* shows what happens without).                                            *)
(*                                                                         *)
(* The answer of a replay proves nothing and is in res for a while, and so *)
(* is the answer of the run before.  Judged says from when on res can be   *)
(* trusted; it needs to know which runs replay a path (OverrideInReplay)   *)
(* and what is in res when no tool decided (UnclearSoFar).                 *)
(***************************************************************************)
EXTENDS Driver, TLAPS

\* Only a replay has parameters of its own.
OverrideInReplay == purpose # "replay" => override = <<>>

\* All tools that ran so far in the loop were undecided.
UnclearSoFar == pc = "verify" /\ next > 1 => res \in Unclear \cup {"done"}

\* Once the verifier answered, res is justified, unless it is that of a replay.
Judged ==
    /\ pc \in {"answered", "report", "done"} /\ res = "true" =>
          \/ ~VisibleError /\ basis # "path"
          \/ pc = "answered" /\ purpose = "replay"
    /\ pc \in {"answered", "report", "done"} /\ res \in Refuted =>
          (basis \in {"unsliced", "path"} => VisibleError)

\* A verifier that is about to start is at the head of its schedule.
FreshStart == pc \in {"compile", "prepare"} => next = 1

JudgeInv ==
    /\ toolParams = <<>>
    /\ OverrideInReplay
    /\ FreshStart
    /\ UnclearSoFar
    /\ Judged

SoundInv == TypeOK /\ JudgeInv

(***************************************************************************)
(* Every target schedules at least one verifier and at most four.          *)
(***************************************************************************)
LEMMA ScheduleLength == Len(Schedule) \in 1..4
<1> DEFINE rest == IF hitThreads THEN <<Tool("slowbeast", "-threads")>>
                   ELSE IF conf.property = "unreach-call"
                        THEN <<Tool("slowbeast", "-cse"), Tool("slowbeast", "-bself"),
                               Tool("slowbeast", "-se-incremental-solving")>>
                        ELSE <<>>
<1>1. CASE purpose = "replay"
  BY <1>1 DEF Schedule
<1>2. CASE purpose # "replay" /\ conf.tool # "svcomp"
  BY <1>2 DEF Schedule
<1>3. CASE purpose # "replay" /\ conf.tool = "svcomp"
  <2>1. Schedule = <<Tool("klee", "none")>> \o rest
    BY <1>3 DEF Schedule
  <2>2. CASE hitThreads
    BY <2>1, <2>2
  <2>3. CASE ~hitThreads /\ conf.property = "unreach-call"
    BY <2>1, <2>3
  <2>4. CASE ~hitThreads /\ conf.property # "unreach-call"
    BY <2>1, <2>4
  <2>5. QED
    BY <2>2, <2>3, <2>4
<1>4. QED
  BY <1>1, <1>2, <1>3

(***************************************************************************)
(* A verifier answers with a result; without a false alarm of the sliced   *)
(* bitcode an error is in the program, and only a full exploration is a    *)
(* proof.                                                                  *)
(***************************************************************************)
LEMMA ResultsJustified ==
    ASSUME NEW v, NEW r \in ResultsOf(v)
    PROVE  /\ r \in Results
           /\ r = "true" => MayProve(v)
           /\ r \in Refuted => MayRefute
<1> USE DEF ResultsOf, Results, Refuted, Unclear
<1>1. CASE v.name = "testcomp"
  BY <1>1
<1>2. CASE v.name # "testcomp" /\ v.name = "slowbeast" /\ Replaying
  BY <1>2
<1>3. CASE v.name # "testcomp" /\ ~(v.name = "slowbeast" /\ Replaying)
  BY <1>3
<1>4. QED
  BY <1>1, <1>2, <1>3

(***************************************************************************)
(* The variables of the driver keep their types, whatever tool_params are. *)
(***************************************************************************)
THEOREM DriverTypes == Spec => []TypeOK
<1>1. Init => TypeOK
  <2> SUFFICES ASSUME Init PROVE TypeOK
    OBVIOUS
  <2> USE DEF Init
  <2>1. toolParams \in Seq({"user", "-replay-nondets"})
    BY ParamsAssumption
  <2>2. override \in Seq({"user", "-replay-nondets"})
    OBVIOUS
  <2>3. replayError \in BOOLEAN
    OBVIOUS
  <2>4. res \in Results /\ first \in Results
    BY DEF Results, Unclear
  <2>5. noslice \in BOOLEAN /\ hitThreads \in BOOLEAN /\ hasError \in BOOLEAN
    BY Zenon
  <2>6. /\ pc \in Stops \cup {"compile", "prepare", "verify", "answered", "report"}
        /\ purpose \in Purposes
        /\ next \in 1..5
        /\ basis \in {"none", "sliced", "unsliced", "path"}
        /\ witness \in {"none", "violation", "correctness"}
    BY DEF Purposes, Stops
  <2>7. QED
    BY <2>1, <2>2, <2>3, <2>4, <2>5, <2>6 DEF TypeOK
<1>2. TypeOK /\ [Next]_vars => TypeOK'
  <2> SUFFICES ASSUME TypeOK, [Next]_vars PROVE TypeOK'
    OBVIOUS
  <2> USE DEF TypeOK, Stops, Purposes, options, verifier, outcome
  <2>1. CASE Raise
    BY <2>1 DEF Raise
  <2>2. CASE Compile
    BY <2>2 DEF Compile
  <2>3. CASE ProvedByInstrumentation
    BY <2>3 DEF ProvedByInstrumentation, Results
  <2>4. CASE RunVerifier
    <3> DEFINE v == Schedule[next]
    <3>1. PICK r \in ResultsOf(v) :
            /\ res' = r
            /\ basis' = Basis
            /\ IF r \in Refuted \cup {"true"}
               THEN pc' = "answered" /\ UNCHANGED <<next, hitThreads>>
               ELSE /\ hitThreads' = RegisterThreads(r)
                    /\ next' = next + 1
                    /\ UNCHANGED pc
      BY <2>4 DEF RunVerifier
    <3>2. res' \in Results
      BY <3>1, ResultsJustified
    <3>3. basis' \in {"none", "sliced", "unsliced", "path"}
      BY <3>1 DEF Basis
    <3>4. next' \in 1..5
      <4>1. next <= Len(Schedule) /\ Len(Schedule) \in 1..4 /\ next \in 1..5
        BY <2>4, ScheduleLength DEF RunVerifier
      <4>2. next' = next \/ next' = next + 1
        BY <3>1
      <4>3. QED
        BY <4>1, <4>2
    <3>5. hitThreads' \in BOOLEAN
      BY <3>1 DEF RegisterThreads
    <3>6. pc' \in Stops \cup {"compile", "prepare", "verify", "answered", "report"}
      BY <3>1
    <3>7. QED
      BY <2>4, <3>2, <3>3, <3>4, <3>5, <3>6 DEF RunVerifier
  <2>5. CASE NoVerifierLeft
    BY <2>5 DEF NoVerifierLeft
  <2>6. CASE Prepared
    BY <2>6 DEF Prepared
  <2>7. CASE TryUnsliced
    <3>1. override' = <<>> /\ <<>> \in Seq({"user", "-replay-nondets"})
      BY <2>7 DEF TryUnsliced, Restart
    <3>2. UNCHANGED <<conf, world, toolParams, res, basis, first, hasError, witness,
                      hitThreads>>
      BY <2>7 DEF TryUnsliced, Restart
    <3>3. purpose' = "unsliced" /\ next' = 1 /\ pc' = "prepare"
      BY <2>7 DEF TryUnsliced, Restart
    <3>4. noslice' \in BOOLEAN /\ replayError' \in BOOLEAN
      BY <2>7, Zenon DEF TryUnsliced
    <3>5. QED
      BY <3>1, <3>2, <3>3, <3>4
  <2>8. CASE Replay
    <3>1. override' = Append(toolParams, "-replay-nondets")
      BY <2>8 DEF Replay, Restart
    <3>2. override' \in Seq({"user", "-replay-nondets"})
      BY <3>1
    <3>3. toolParams' \in Seq({"user", "-replay-nondets"})
      BY <2>8, <3>2 DEF Replay, ParamsAfterReplay
    <3>4. QED
      BY <2>8, <3>2, <3>3 DEF Replay, Restart
  <2>9. CASE Accept
    BY <2>9 DEF Accept, IsError
  <2>10. CASE Crash
    BY <2>10 DEF Crash
  <2>11. CASE Confirmed
    BY <2>11 DEF Confirmed
  <2>12. CASE Rerun
    <3>1. override' = <<>> /\ <<>> \in Seq({"user", "-replay-nondets"})
      BY <2>12 DEF Rerun, Restart
    <3>2. UNCHANGED <<conf, world, toolParams, noslice, replayError, res, basis, first,
                      witness, hitThreads>>
      BY <2>12 DEF Rerun, Restart
    <3>3. purpose' = "rerun" /\ next' = 1 /\ pc' = "prepare"
      BY <2>12 DEF Rerun, Restart
    <3>4. hasError' \in BOOLEAN
      BY <2>12, Zenon DEF Rerun
    <3>5. QED
      BY <3>1, <3>2, <3>3, <3>4
  <2>13. CASE AcceptRerun
    BY <2>13 DEF AcceptRerun, IsError
  <2>14. CASE Report
    <3>1. witness' \in {"none", "violation", "correctness"}
      BY <2>14 DEF Report, WitnessKind
    <3>2. QED
      BY <2>14, <3>1 DEF Report
  <2>15. CASE UNCHANGED vars
    BY <2>15 DEF vars
  <2>16. QED
    BY <2>1, <2>2, <2>3, <2>4, <2>5, <2>6, <2>7, <2>8, <2>9, <2>10, <2>11,
       <2>12, <2>13, <2>14, <2>15 DEF Next
<1>3. QED
  BY <1>1, <1>2, PTL DEF Spec

----------------------------------------------------------------------------

(***************************************************************************)
(* What the verifier is run for, and on which bitcode: without parameters  *)
(* only a replay explores just a path.                                     *)
(***************************************************************************)
LEMMA OnlyReplayReplays ==
    ASSUME toolParams = <<>>, OverrideInReplay, purpose # "replay"
    PROVE  ~Replaying /\ Basis # "path" /\ (OnSliced => Basis = "sliced")
<1>1. Params = <<>>
  BY DEF OverrideInReplay, Params
<1>2. ~Replaying
  BY <1>1 DEF Replaying
<1>3. QED
  BY <1>2 DEF Basis

(***************************************************************************)
(* One run of a verifier ends with a justified result.                     *)
(***************************************************************************)
LEMMA RunJudged ==
    ASSUME TypeOK, toolParams = <<>>, OverrideInReplay, RunVerifier
    PROVE  UnclearSoFar' /\ Judged'
<1> DEFINE v == Schedule[next]
<1>1. PICK r \in ResultsOf(v) :
        /\ res' = r
        /\ basis' = Basis
        /\ IF r \in Refuted \cup {"true"}
           THEN pc' = "answered"
           ELSE UNCHANGED pc
  BY DEF RunVerifier
<1>2. /\ r \in Results
      /\ r = "true" => MayProve(v)
      /\ r \in Refuted => MayRefute
  BY ResultsJustified
<1>3. pc = "verify" /\ UNCHANGED <<conf, world, purpose>>
  BY DEF RunVerifier, options
<1>4. VisibleError' = VisibleError
  BY <1>3 DEF VisibleError, NotInstrumented
<1>5. UnclearSoFar'
  BY <1>1, <1>2, <1>3 DEF UnclearSoFar, Results
<1>6. ASSUME res' = "true", purpose # "replay"
      PROVE  ~VisibleError /\ basis' # "path"
  BY <1>1, <1>2, <1>6, OnlyReplayReplays DEF MayProve
<1>7. ASSUME res' \in Refuted, basis' \in {"unsliced", "path"}
      PROVE  VisibleError
  BY <1>1, <1>2, <1>7, OnlyReplayReplays DEF MayRefute, OnSliced
<1>8. pc' = "answered" \/ pc' = "verify"
  BY <1>1, <1>3
<1>9. QED
  BY <1>3, <1>4, <1>5, <1>6, <1>7, <1>8 DEF Judged

(***************************************************************************)
(* The soundness invariant is inductive if options.tool_params is empty.   *)
(***************************************************************************)
THEOREM Judgements ==
    ASSUME UserParams = {<<>>}
    PROVE  Spec => []SoundInv
<1>1. Init => JudgeInv
  BY DEF Init, JudgeInv, OverrideInReplay, FreshStart, UnclearSoFar, Judged
<1>2. TypeOK /\ JudgeInv /\ [Next]_vars => JudgeInv'
  <2> SUFFICES ASSUME TypeOK, JudgeInv, [Next]_vars PROVE JudgeInv'
    OBVIOUS
  <2> USE DEF JudgeInv
  <2>a. UNCHANGED <<conf, world>> /\ toolParams' = <<>>
    BY DEF Next, vars, Raise, Compile, ProvedByInstrumentation, RunVerifier,
       NoVerifierLeft, Prepared, TryUnsliced, Replay, ParamsAfterReplay, Accept,
       Crash, Confirmed, Rerun, AcceptRerun, Report, options
  <2>b. VisibleError' = VisibleError
    BY <2>a DEF VisibleError, NotInstrumented
  <2>1. CASE Raise
    BY <2>1, <2>a, <2>b DEF Raise, verifier, outcome, OverrideInReplay, FreshStart,
       UnclearSoFar, Judged
  <2>2. CASE Compile
    BY <2>2, <2>a, <2>b DEF Compile, verifier, outcome, OverrideInReplay, FreshStart,
       UnclearSoFar, Judged
  <2>3. CASE ProvedByInstrumentation
    <3>1. ~VisibleError
      BY <2>3 DEF ProvedByInstrumentation, VisibleError
    <3>2. QED
      BY <2>3, <2>a, <2>b, <3>1 DEF ProvedByInstrumentation, verifier, OverrideInReplay,
         FreshStart, UnclearSoFar, Judged, Refuted
  <2>4. CASE RunVerifier
    <3>1. UnclearSoFar' /\ Judged'
      BY <2>4, RunJudged
    <3>2. pc' \in {"verify", "answered"} /\ UNCHANGED <<purpose, override>>
      BY <2>4 DEF RunVerifier
    <3>3. QED
      BY <2>a, <3>1, <3>2 DEF OverrideInReplay, FreshStart
  <2>5. CASE NoVerifierLeft
    <3>1. next \in 1..5 /\ next > Len(Schedule) /\ pc = "verify"
      BY <2>5 DEF NoVerifierLeft, TypeOK
    <3>2. next > 1
      BY <3>1, ScheduleLength
    <3>3. res \in Unclear \cup {"done"}
      BY <3>1, <3>2 DEF UnclearSoFar
    <3>4. res # "true" /\ res \notin Refuted
      BY <3>3 DEF Unclear, Refuted
    <3>5. QED
      BY <2>5, <2>a, <3>4 DEF NoVerifierLeft, verifier, OverrideInReplay, FreshStart,
         UnclearSoFar, Judged
  <2>6. CASE Prepared
    BY <2>6, <2>a DEF Prepared, verifier, outcome, OverrideInReplay, FreshStart,
       UnclearSoFar, Judged
  <2>7. CASE TryUnsliced
    BY <2>7, <2>a DEF TryUnsliced, Restart, OverrideInReplay, FreshStart, UnclearSoFar,
       Judged
  <2>8. CASE Replay
    BY <2>8, <2>a DEF Replay, Restart, OverrideInReplay, FreshStart, UnclearSoFar, Judged
  <2>9. CASE Accept
    BY <2>9, <2>a, <2>b DEF Accept, verifier, OverrideInReplay, FreshStart, UnclearSoFar,
       Judged
  <2>10. CASE Crash
    BY <2>10, <2>a DEF Crash, verifier, outcome, OverrideInReplay, FreshStart,
       UnclearSoFar, Judged
  <2>11. CASE Confirmed
    <3>1. res # "true"
      BY <2>11 DEF Confirmed, IsError, Refuted
    <3>2. QED
      BY <2>11, <2>a, <2>b, <3>1 DEF Confirmed, verifier, outcome, OverrideInReplay,
         FreshStart, UnclearSoFar, Judged
  <2>12. CASE Rerun
    BY <2>12, <2>a DEF Rerun, Restart, OverrideInReplay, FreshStart, UnclearSoFar, Judged
  <2>13. CASE AcceptRerun
    BY <2>13, <2>a, <2>b DEF AcceptRerun, verifier, OverrideInReplay, FreshStart,
       UnclearSoFar, Judged
  <2>14. CASE Report
    BY <2>14, <2>a, <2>b DEF Report, verifier, OverrideInReplay, FreshStart,
       UnclearSoFar, Judged
  <2>15. CASE UNCHANGED vars
    BY <2>15, <2>a, <2>b DEF vars, verifier, outcome, OverrideInReplay, FreshStart,
       UnclearSoFar, Judged
  <2>16. QED
    BY <2>1, <2>2, <2>3, <2>4, <2>5, <2>6, <2>7, <2>8, <2>9, <2>10, <2>11,
       <2>12, <2>13, <2>14, <2>15 DEF Next
<1>3. QED
  BY <1>1, <1>2, DriverTypes, PTL DEF Spec, SoundInv

(***************************************************************************)
(* Symbiotic does not call a program correct that has an error, whatever   *)
(* its verifiers answer and however often it restarts them.                *)
(***************************************************************************)
THEOREM Soundness ==
    ASSUME UserParams = {<<>>}
    PROVE  Spec => []TrueIsSound
<1>1. SoundInv => TrueIsSound
  BY DEF SoundInv, JudgeInv, Judged, TrueIsSound
<1>2. QED
  BY <1>1, Judgements, PTL

(***************************************************************************)
(* Driver implements the safety part of Verdict: its answer is given once, *)
(* and it is justified by the bitcode it rests on.                         *)
(***************************************************************************)
THEOREM Refinement ==
    ASSUME UserParams = {<<>>}
    PROVE  Spec => Promise!Init /\ [][Promise!Decide]_Promise!vars
<1> DEFINE Grounds == IF pc = "done" THEN basis ELSE "none"
<1>1. Init => Promise!Init
  <2>1. Init => VisibleError \in BOOLEAN
    BY DEF VisibleError
  <2>2. Init => Answer = "none"
    BY DEF Init, Answer
  <2>3. QED
    BY <2>1, <2>2 DEF Init, Promise!Init
<1>2. SoundInv /\ SoundInv' /\ [Next]_vars => [Promise!Decide]_Promise!vars
  <2> SUFFICES ASSUME SoundInv, SoundInv', [Next]_vars
               PROVE  [Promise!Decide]_Promise!vars
    OBVIOUS
  <2>a. VisibleError' = VisibleError
    BY DEF Next, vars, Raise, Compile, ProvedByInstrumentation, RunVerifier,
       NoVerifierLeft, Prepared, TryUnsliced, Replay, ParamsAfterReplay, Accept,
       Crash, Confirmed, Rerun, AcceptRerun, Report, options, VisibleError,
       NotInstrumented
  <2>1. CASE pc' \in Stops /\ pc \notin Stops
    <3>1. Answer = "none" /\ Answer' # "none"
      BY <2>1 DEF Answer, Stops
    <3>2. Answer' \in Promise!Answers
      BY <2>1 DEF Answer, Stops, Promise!Answers
    <3>3. Grounds' \in Promise!Bases
      BY DEF SoundInv, TypeOK, Promise!Bases
    <3>4. ASSUME Answer' = "true"
          PROVE  ~VisibleError' /\ Grounds' # "path"
      <4>1. pc' = "done" /\ res' = "true"
        BY <3>4, <2>1 DEF Answer, Stops
      <4>2. QED
        BY <4>1 DEF SoundInv, JudgeInv, Judged
    <3>5. ASSUME Answer' = "false", Grounds' \in {"unsliced", "path"}
          PROVE  VisibleError'
      <4>1. pc' = "done" /\ res' \in Refuted
        BY <3>5, <2>1 DEF Answer, Stops
      <4>2. QED
        BY <4>1, <3>5 DEF SoundInv, JudgeInv, Judged
    <3>6. Promise!Decide
      BY <2>a, <3>1, <3>2, <3>3, <3>4, <3>5 DEF Promise!Decide, Promise!Justified
    <3>7. QED
      BY <3>6
  <2>2. CASE pc' \notin Stops /\ pc \notin Stops
    BY <2>a, <2>2 DEF Answer, Stops, Promise!vars
  <2>3. CASE pc \in Stops
    <3>1. UNCHANGED vars
      BY <2>3 DEF Next, Stops, Raise, Compile, ProvedByInstrumentation, RunVerifier,
         NoVerifierLeft, Prepared, TryUnsliced, Replay, Accept, Crash, Confirmed, Rerun,
         AcceptRerun, Report
    <3>2. UNCHANGED <<pc, res, basis>>
      BY <3>1 DEF vars, outcome
    <3>3. QED
      BY <2>a, <3>2 DEF Answer, Promise!vars
  <2>4. QED
    BY <2>1, <2>2, <2>3
<1>3. QED
  BY <1>1, <1>2, Judgements, PTL DEF Spec

----------------------------------------------------------------------------
(***************************************************************************)
(* The rest does not depend on options.tool_params.                        *)
(*                                                                         *)
(* A false alarm can only be the answer on the sliced bitcode, and is      *)
(* accepted only if its replay is not asked for or the tool cannot do it.  *)
(* Tests that reach an error ("done") are decided by no tool.              *)
(***************************************************************************)
Answered == pc \in {"answered", "report", "done"}

FalseInv ==
    /\ purpose = "first" => replayError = conf.replay
    /\ pc = "answered" /\ res \in Refuted /\ ~VisibleError => purpose = "first" /\ ~noslice
    /\ pc \in {"report", "done"} /\ res \in Refuted /\ conf.replay /\ CanReplay(tool) => VisibleError
    /\ tool.name # "testcomp"
    /\ Answered /\ res = "done" => tool = None
    /\ pc = "verify" /\ purpose = "replay" /\ next > 1 => res # "done"
    /\ FreshStart
    /\ UnclearSoFar

\* The environment of a step.
LEMMA WorldStays == [Next]_vars => /\ UNCHANGED <<conf, world>>
                                  /\ VisibleError' = VisibleError
<1> SUFFICES ASSUME [Next]_vars PROVE UNCHANGED <<conf, world>> /\ VisibleError' = VisibleError
  OBVIOUS
<1>1. UNCHANGED <<conf, world>>
  BY DEF Next, vars, Raise, Compile, ProvedByInstrumentation, RunVerifier, NoVerifierLeft,
     Prepared, TryUnsliced, Replay, Accept, Crash, Confirmed, Rerun, AcceptRerun, Report, options
<1>2. QED
  BY <1>1 DEF VisibleError, NotInstrumented

LEMMA NextFalseInv == TypeOK /\ FalseInv /\ [Next]_vars => FalseInv'
<1> SUFFICES ASSUME TypeOK, FalseInv, [Next]_vars PROVE FalseInv'
  OBVIOUS
<1> USE DEF FalseInv, Answered, FreshStart, UnclearSoFar
<1>a. UNCHANGED <<conf, world>> /\ VisibleError' = VisibleError
  BY WorldStays
<1>1. CASE Raise
  BY <1>1, <1>a DEF Raise, options, verifier, outcome
<1>2. CASE Compile
  BY <1>2, <1>a DEF Compile, verifier, outcome
<1>3. CASE ProvedByInstrumentation
  BY <1>3, <1>a DEF ProvedByInstrumentation, options, verifier, Refuted
<1>4. CASE RunVerifier
  <2> DEFINE v == Schedule[next]
  <2>1. PICK r \in ResultsOf(v) :
          /\ res' = r
          /\ IF r \in Refuted \cup {"true"}
             THEN /\ tool' = IF purpose = "replay" THEN tool ELSE v
                  /\ pc' = "answered" /\ UNCHANGED next
             ELSE next' = next + 1 /\ UNCHANGED <<pc, tool>>
    BY <1>4 DEF RunVerifier
  <2>2. /\ pc = "verify" /\ next \in 1..5 /\ next <= Len(Schedule)
        /\ UNCHANGED <<options, purpose>>
    BY <1>4 DEF RunVerifier, TypeOK
  <2>3. r \in Results /\ (r \in Refuted => MayRefute)
    BY ResultsJustified
  <2>4. v.name = "testcomp" => r = "done"
    BY DEF ResultsOf
  <2>5. r = "done" => v.name = "testcomp"
    BY DEF ResultsOf
  <2>6. purpose = "replay" => v = tool
    <3>1. ASSUME purpose = "replay" PROVE Schedule = <<tool>>
      BY <3>1 DEF Schedule
    <3>2. ASSUME purpose = "replay" PROVE next = 1
      <4>1. Len(<<tool>>) = 1
        OBVIOUS
      <4>2. Len(Schedule) = 1
        BY <3>1, <3>2, <4>1
      <4>3. QED
        BY <2>2, <4>2
    <3>3. QED
      BY <3>1, <3>2
  <2> HIDE DEF v
  <2>7. CASE r \in Refuted \cup {"true"}
    <3>1. tool'.name # "testcomp" /\ res' # "done"
      BY <2>1, <2>4, <2>7 DEF Refuted
    <3>2. res' \in Refuted /\ ~VisibleError => purpose = "first" /\ ~noslice
      BY <2>1, <2>3 DEF MayRefute, OnSliced
    <3>3. QED
      BY <1>a, <2>1, <2>2, <2>7, <3>1, <3>2 DEF options
  <2>8. CASE r \notin Refuted \cup {"true"}
    <3>1. r \in Unclear \cup {"done"}
      BY <2>3, <2>8 DEF Results
    <3>2. purpose = "replay" => r # "done"
      BY <2>5, <2>6
    <3>3. QED
      BY <1>a, <2>1, <2>2, <2>8, <3>1, <3>2 DEF options
  <2>9. QED
    BY <2>7, <2>8
<1>5. CASE NoVerifierLeft
  <2>1. /\ pc = "verify" /\ pc' = "answered" /\ next > 1
        /\ tool' = IF purpose = "replay" THEN tool ELSE None
        /\ UNCHANGED <<options, verifier, res>>
    <3>1. next \in 1..5 /\ next > Len(Schedule) /\ Len(Schedule) \in 1..4
      BY <1>5, ScheduleLength DEF NoVerifierLeft, TypeOK
    <3>2. QED
      BY <1>5, <3>1 DEF NoVerifierLeft
  <2>2. res \notin Refuted
    BY <2>1 DEF Unclear, Refuted
  <2>3. tool'.name # "testcomp"
    BY <2>1 DEF None, Tool
  <2>4. res = "done" => tool' = None
    BY <2>1
  <2>5. QED
    BY <1>a, <2>1, <2>2, <2>3, <2>4 DEF options, verifier
<1>6. CASE Prepared
  BY <1>6, <1>a DEF Prepared, options, verifier, outcome
<1>7. CASE TryUnsliced
  BY <1>7, <1>a DEF TryUnsliced, Restart, outcome
<1>8. CASE Replay
  BY <1>8, <1>a DEF Replay, Restart
<1>9. CASE Accept
  <2>1. res \in Refuted /\ ~VisibleError /\ conf.replay => MustReplay
    BY <1>9 DEF Accept, MustReplay, IsError
  <2>2. /\ pc = "answered" /\ pc' = "report"
        /\ MustReplay => ~CanReplay(tool)
        /\ UNCHANGED <<options, verifier, res, tool>>
    BY <1>9 DEF Accept
  <2>3. res \in Refuted /\ conf.replay /\ CanReplay(tool) => VisibleError
    BY <2>1, <2>2
  <2>4. QED
    BY <1>a, <2>2, <2>3 DEF options, verifier, CanReplay
<1>10. CASE Crash
  BY <1>10, <1>a DEF Crash, options, verifier, outcome
<1>11. CASE Confirmed
  BY <1>11, <1>a DEF Confirmed, options, verifier, outcome
<1>12. CASE Rerun
  BY <1>12, <1>a DEF Rerun, Restart, options
<1>13. CASE AcceptRerun
  BY <1>13, <1>a DEF AcceptRerun, options, verifier
<1>14. CASE Report
  BY <1>14, <1>a DEF Report, options, verifier, CanReplay
<1>15. CASE UNCHANGED vars
  BY <1>15, <1>a DEF vars, options, verifier, outcome, CanReplay
<1>16. QED
  BY <1>1, <1>2, <1>3, <1>4, <1>5, <1>6, <1>7, <1>8, <1>9, <1>10, <1>11, <1>12, <1>13,
     <1>14, <1>15 DEF Next

(***************************************************************************)
(* With --replay-error, an error that KLEE reports is one of the program   *)
(* (symbiotic.py:109-135), whatever slicing left and what was restarted.   *)
(***************************************************************************)
THEOREM ReplayedIsReal == Spec => []FalseIsConfirmed
<1>1. Init => FalseInv
  <2>1. Init => tool.name # "testcomp"
    BY DEF Init, None, Tool
  <2>2. QED
    BY <2>1 DEF Init, FalseInv, FreshStart, UnclearSoFar, Answered
<1>2. FalseInv => FalseIsConfirmed
  <2> SUFFICES ASSUME FalseInv, pc = "done", IsError(res), conf.replay, CanReplay(tool)
               PROVE  VisibleError
    BY DEF FalseIsConfirmed
  <2>1. CASE res \in Refuted
    BY <2>1 DEF FalseInv
  <2>2. CASE res = "done"
    BY <2>2 DEF FalseInv, Answered, CanReplay, None, Tool
  <2>3. QED
    BY <2>1, <2>2 DEF IsError
<1>3. QED
  BY <1>1, <1>2, NextFalseInv, DriverTypes, PTL DEF Spec

----------------------------------------------------------------------------
(***************************************************************************)
(* The order of the verifiers.  The log is a list of runs; those of the    *)
(* verifier at work are the tools in front of the one that is next, and    *)
(* what changes in the schedule when threads were met is behind it.        *)
(***************************************************************************)
Kinds   == [name : Tools \cup {"none"},
            args : {"none", "-threads", "-cse", "-bself", "-se-incremental-solving"}]
Entries == [tool : Kinds, answer : Results, passes : SUBSET Kinds, purpose : Purposes]

\* The purposes before, and with, the one at work.
Earlier(p) == CASE p = "first"    -> {}
                [] p = "unsliced" -> {"first"}
                [] p = "replay"   -> {"first", "unsliced"}
                [] OTHER          -> {"first", "unsliced", "replay"}

Suits(v) == v.name = "klee" \/ v.args = "-threads"

LogInv ==
    /\ log \in Seq(Entries) /\ tool \in Kinds
    /\ conf.tool = "svcomp" => tool.name \in {"klee", "slowbeast", "none"}
    /\ purpose = "replay" => CanReplay(tool)
    /\ \A i \in DOMAIN log :
          /\ log[i].passes \subseteq {log[i].tool}
          /\ log[i].purpose \in Earlier(purpose) \cup {purpose}
          /\ pc \in {"compile", "prepare"} => log[i].purpose # purpose
          /\ pc = "verify" /\ log[i].purpose = purpose =>
                \E k \in 1..(next - 1) : k <= Len(Schedule) /\ log[i].tool = Schedule[k]
          /\ conf.tool = "svcomp" /\ log[i].answer = "pthread" /\ log[i].purpose # "replay"
             => hitThreads
    /\ FreshStart
    /\ ThreadsRouted /\ OwnPassesOnly

(***************************************************************************)
(* The tools of a schedule: each is there once, and those that follow the  *)
(* meeting with threads suit them.                                         *)
(***************************************************************************)
LEMMA Scheduled ==
    ASSUME conf.tool \in Tools, tool \in Kinds
    PROVE  /\ \A k \in 1..Len(Schedule) :
                /\ Schedule[k] \in Kinds
                /\ conf.tool = "svcomp" /\ purpose # "replay" =>
                      /\ Schedule[k].name \in {"klee", "slowbeast"}
                      /\ hitThreads => Suits(Schedule[k])
                      /\ Schedule[k].name = "klee" => k = 1
           /\ \A k, l \in 1..Len(Schedule) : Schedule[k] = Schedule[l] => k = l
           /\ conf.tool = "svcomp" /\ purpose # "replay" => Schedule[1] = Tool("klee", "none")
           /\ purpose = "replay" => Schedule = <<tool>>
<1> DEFINE a == Tool("klee", "none")
           b == Tool("slowbeast", "-threads")
           c == Tool("slowbeast", "-cse")
           d == Tool("slowbeast", "-bself")
           e == Tool("slowbeast", "-se-incremental-solving")
<1>1. /\ a \in Kinds /\ b \in Kinds /\ c \in Kinds /\ d \in Kinds /\ e \in Kinds
      /\ a.name = "klee" /\ \A t \in {b, c, d, e} : t.name = "slowbeast"
      /\ b.args = "-threads" /\ c.args = "-cse" /\ d.args = "-bself"
      /\ e.args = "-se-incremental-solving"
  BY DEF Tool, Kinds, Tools
<1> HIDE DEF a, b, c, d, e
<1>2. CASE purpose = "replay"
  <2>1. Schedule = <<tool>>
    BY <1>2 DEF Schedule
  <2>2. QED
    BY <1>2, <2>1
<1>3. CASE purpose # "replay" /\ conf.tool # "svcomp"
  <2>1. Schedule = <<Tool(conf.tool, "none")>>
    BY <1>3 DEF Schedule
  <2>2. Tool(conf.tool, "none") \in Kinds
    BY DEF Tool, Kinds
  <2>3. QED
    BY <1>3, <2>1, <2>2
<1>4. CASE purpose # "replay" /\ conf.tool = "svcomp"
  <2>1. CASE hitThreads
    <3>1. Schedule = <<a>> \o <<b>>
      BY <1>4, <2>1 DEF Schedule, a, b
    <3>2. Len(Schedule) = 2 /\ Schedule[1] = a /\ Schedule[2] = b
      BY <3>1
    <3>3. QED
      BY <1>1, <1>4, <3>2 DEF Suits, a
  <2>2. CASE ~hitThreads /\ conf.property = "unreach-call"
    <3>1. Schedule = <<a>> \o <<c, d, e>>
      BY <1>4, <2>2 DEF Schedule, a, c, d, e
    <3>2. /\ Len(Schedule) = 4 /\ Schedule[1] = a /\ Schedule[2] = c
          /\ Schedule[3] = d /\ Schedule[4] = e
      BY <3>1
    <3>3. QED
      BY <1>1, <1>4, <2>2, <3>2 DEF a
  <2>3. CASE ~hitThreads /\ conf.property # "unreach-call"
    <3>1. Schedule = <<a>> \o <<>>
      BY <1>4, <2>3 DEF Schedule, a
    <3>2. Len(Schedule) = 1 /\ Schedule[1] = a
      BY <3>1
    <3>3. QED
      BY <1>1, <1>4, <2>3, <3>2 DEF a
  <2>4. QED
    BY <2>1, <2>2, <2>3
<1>5. QED
  BY <1>2, <1>3, <1>4

\* A step that runs no verifier and creates none.
LEMMA SameLog ==
    ASSUME LogInv, UNCHANGED <<conf, log, hitThreads, purpose, next>>, tool' \in {tool, None},
           tool' = tool \/ purpose # "replay",
           \/ pc' \in Stops \cup {"answered", "report"}
           \/ pc' = "verify" /\ pc \in {"compile", "prepare"}
    PROVE  LogInv'
<1>1. tool' \in Kinds /\ None.name = "none"
  BY DEF LogInv, None, Tool, Kinds
<1>2. /\ conf'.tool = "svcomp" => tool'.name \in {"klee", "slowbeast", "none"}
      /\ purpose' = "replay" => tool'.name \in {"klee", "witch-klee", "testcomp"}
  BY <1>1 DEF LogInv, CanReplay
<1>3. ThreadsRouted' /\ OwnPassesOnly'
  BY DEF LogInv, ThreadsRouted, OwnPassesOnly
<1>4. pc' \notin {"compile", "prepare"} /\ (pc' = "verify" => pc \in {"compile", "prepare"})
  BY DEF Stops
<1>5. QED
  BY <1>1, <1>2, <1>3, <1>4 DEF LogInv, FreshStart, CanReplay, Earlier

\* A new verifier, for a purpose that the log does not have.
LEMMA RestartedLog ==
    ASSUME LogInv, UNCHANGED <<conf, tool>>, NEW why \in Purposes, NEW params, Restart(why, params),
           purpose \notin {why, "rerun"}, why # "first", why = "unsliced" => purpose = "first",
           why = "replay" => purpose \in {"first", "unsliced"} /\ CanReplay(tool),
           why = "rerun" => purpose = "replay"
    PROVE  LogInv'
<1>1. /\ UNCHANGED <<log, hitThreads>> /\ purpose' = why /\ next' = 1 /\ pc' = "prepare"
  BY DEF Restart
<1>2. Earlier(purpose) \cup {purpose} \subseteq Earlier(why) /\ why \notin Earlier(why)
  BY DEF Earlier, Purposes
<1>3. ThreadsRouted' /\ OwnPassesOnly'
  BY <1>1 DEF LogInv, ThreadsRouted, OwnPassesOnly
<1>4. purpose' = "replay" => CanReplay(tool)'
  BY <1>1 DEF CanReplay
<1>5. \A i \in DOMAIN log : log[i].purpose \in Earlier(why) /\ log[i].purpose # why
  BY <1>2 DEF LogInv
<1>6. Earlier(purpose)' = Earlier(why)
  BY <1>1 DEF Earlier
<1>7. QED
  BY <1>1, <1>3, <1>4, <1>5, <1>6 DEF LogInv, FreshStart

(***************************************************************************)
(* One run of a verifier.                                                  *)
(***************************************************************************)
LEMMA RunLogged == ASSUME TypeOK, LogInv, RunVerifier PROVE LogInv'
<1> DEFINE v == Schedule[next]
<1>1. PICK r \in ResultsOf(v) :
        /\ passes' = PrepareFile(v)
        /\ log' = Append(log, [tool |-> v, answer |-> r, passes |-> passes', purpose |-> purpose])
        /\ IF r \in Refuted \cup {"true"}
           THEN /\ tool' = IF purpose = "replay" THEN tool ELSE v
                /\ pc' = "answered"
                /\ UNCHANGED <<next, hitThreads>>
           ELSE /\ hitThreads' = RegisterThreads(r)
                /\ next' = next + 1
                /\ UNCHANGED <<pc, tool>>
  BY DEF RunVerifier
<1>2. /\ pc = "verify" /\ next \in 1..Len(Schedule) /\ UNCHANGED <<conf, purpose>>
      /\ conf.tool \in Tools /\ tool \in Kinds /\ purpose \in Purposes /\ hitThreads \in BOOLEAN
  BY ScheduleLength DEF RunVerifier, options, TypeOK, LogInv
<1>3. /\ \A k \in 1..Len(Schedule) :
           /\ Schedule[k] \in Kinds
           /\ conf.tool = "svcomp" /\ purpose # "replay" =>
                 /\ Schedule[k].name \in {"klee", "slowbeast"}
                 /\ hitThreads => Suits(Schedule[k])
                 /\ Schedule[k].name = "klee" => k = 1
      /\ \A k, l \in 1..Len(Schedule) : Schedule[k] = Schedule[l] => k = l
      /\ conf.tool = "svcomp" /\ purpose # "replay" => Schedule[1] = Tool("klee", "none")
      /\ purpose = "replay" => Schedule = <<tool>>
  BY <1>2, Scheduled
<1>4. r \in Results /\ (r = "pthread" => v.name = "klee")
  BY ResultsJustified DEF ResultsOf, Refuted
<1>5. purpose = "replay" => v = tool
  <2>1. ASSUME purpose = "replay" PROVE v = tool
    <3>1. Schedule = <<tool>> /\ Len(<<tool>>) = 1
      BY <1>3, <2>1
    <3>2. next = 1
      BY <1>2, <3>1
    <3>3. QED
      BY <3>1, <3>2
  <2>2. QED
    BY <2>1
<1>6. /\ v \in Kinds
      /\ conf.tool = "svcomp" => v.name \in {"klee", "slowbeast", "none"}
  BY <1>2, <1>3, <1>5 DEF LogInv
<1> DEFINE e == [tool |-> v, answer |-> r, passes |-> passes', purpose |-> purpose]
<1>7. \A i \in DOMAIN log : log[i].purpose = purpose => log[i].tool # v
  <2> SUFFICES ASSUME NEW i \in DOMAIN log, log[i].purpose = purpose, log[i].tool = v PROVE FALSE
    OBVIOUS
  <2>1. PICK k \in 1..(next - 1) : k <= Len(Schedule) /\ log[i].tool = Schedule[k]
    BY <1>2 DEF LogInv
  <2>2. k \in 1..Len(Schedule) /\ k # next
    BY <1>2, <2>1
  <2>3. QED
    BY <1>2, <1>3, <2>1, <2>2
<1>8. conf.tool = "svcomp" /\ (\E i \in DOMAIN log : log[i].answer = "pthread"
                                                  /\ log[i].purpose # "replay")
      => v.name = "klee" \/ v.args = "-threads"
  <2>1. CASE purpose = "replay"
    BY <1>2, <1>5, <2>1 DEF LogInv, CanReplay
  <2>2. CASE purpose # "replay"
    BY <1>2, <1>3, <2>2 DEF LogInv, Suits
  <2>3. QED
    BY <2>1, <2>2
<1>9. /\ hitThreads => hitThreads'
      /\ conf.tool = "svcomp" /\ r = "pthread" /\ purpose # "replay" => hitThreads'
  BY <1>1, <1>2 DEF RegisterThreads, Refuted
<1>10. tool' \in {tool, v} /\ (purpose = "replay" => tool' = tool)
  BY <1>1
<1>11. ASSUME pc' = "verify"
       PROVE  /\ next' = next + 1 /\ next \in 1..Len(Schedule')
              /\ \A k \in 1..next : k <= Len(Schedule') /\ Schedule'[k] = Schedule[k]
  <2>1. /\ next' = next + 1 /\ tool' = tool /\ hitThreads' = RegisterThreads(r)
    BY <1>1, <1>11
  <2>2. CASE hitThreads' = hitThreads
    <3>1. Schedule' = Schedule
      BY <1>2, <2>1, <2>2 DEF Schedule
    <3>2. QED
      BY <1>2, <2>1, <3>1
  <2>3. CASE hitThreads' # hitThreads
    <3>1. conf.tool = "svcomp" /\ purpose # "replay" /\ r = "pthread" /\ hitThreads'
      BY <1>2, <2>1, <2>3 DEF RegisterThreads
    <3>2. next = 1 /\ Schedule[1] = Tool("klee", "none")
      BY <1>2, <1>3, <1>4, <3>1
    <3>3. Schedule' = <<Tool("klee", "none")>> \o <<Tool("slowbeast", "-threads")>>
      BY <1>2, <3>1 DEF Schedule
    <3>4. Len(Schedule') = 2 /\ Schedule'[1] = Tool("klee", "none")
      BY <3>3
    <3>5. QED
      BY <2>1, <3>2, <3>4
  <2>4. QED
    BY <2>2, <2>3
<1>12. e \in Entries /\ e.passes \subseteq {v} /\ e.tool = v /\ e.answer = r /\ e.purpose = purpose
  BY <1>1, <1>2, <1>4, <1>6 DEF Entries, PrepareFile, ToolPasses
<1> HIDE DEF e
<1>13. log \in Seq(Entries) /\ log' = Append(log, e)
  BY <1>1 DEF LogInv, e
<1>14. /\ log' \in Seq(Entries) /\ Len(log) \in Nat
       /\ DOMAIN log = 1..Len(log) /\ DOMAIN log' = 1..(Len(log) + 1)
       /\ \A i \in DOMAIN log : i \in DOMAIN log' /\ log'[i] = log[i]
       /\ log'[Len(log) + 1] = e
  BY <1>12, <1>13
<1> HIDE DEF v
<1>15. ThreadsRouted'
  <2> SUFFICES ASSUME NEW i \in DOMAIN log', NEW j \in DOMAIN log', i < j, conf.tool = "svcomp",
                      log'[i].answer = "pthread", log'[i].purpose # "replay"
               PROVE  log'[j].tool.name = "klee" \/ log'[j].tool.args = "-threads"
    BY <1>2 DEF ThreadsRouted
  <2>1. i \in DOMAIN log
    BY <1>14
  <2>2. CASE j \in DOMAIN log
    BY <1>14, <2>1, <2>2 DEF LogInv, ThreadsRouted
  <2>3. CASE j = Len(log) + 1
    BY <1>8, <1>12, <1>14, <2>1, <2>3
  <2>4. QED
    BY <1>14, <2>2, <2>3
<1>16. OwnPassesOnly'
  <2> SUFFICES ASSUME NEW i \in DOMAIN log'
               PROVE  /\ log'[i].passes \subseteq {log'[i].tool}
                      /\ \A j \in 1..(i - 1) :
                            <<log'[i].tool, log'[i].purpose>> # <<log'[j].tool, log'[j].purpose>>
    BY DEF OwnPassesOnly
  <2>1. \A j \in 1..(i - 1) : j \in DOMAIN log
    BY <1>14
  <2>2. CASE i \in DOMAIN log
    BY <1>14, <2>1, <2>2 DEF LogInv, OwnPassesOnly
  <2>3. CASE i = Len(log) + 1
    BY <1>7, <1>12, <1>14, <2>1, <2>3
  <2>4. QED
    BY <1>14, <2>2, <2>3
<1>17. ASSUME NEW i \in DOMAIN log'
       PROVE  /\ log'[i].passes \subseteq {log'[i].tool}
              /\ log'[i].purpose \in Earlier(purpose) \cup {purpose}
              /\ conf.tool = "svcomp" /\ log'[i].answer = "pthread" /\ log'[i].purpose # "replay"
                 => hitThreads'
              /\ pc' = "verify" /\ log'[i].purpose = purpose =>
                    \E k \in 1..(next' - 1) : k <= Len(Schedule') /\ log'[i].tool = Schedule'[k]
  <2>1. CASE i \in DOMAIN log
    <3>1. /\ log[i].passes \subseteq {log[i].tool}
          /\ log[i].purpose \in Earlier(purpose) \cup {purpose}
          /\ conf.tool = "svcomp" /\ log[i].answer = "pthread" /\ log[i].purpose # "replay"
             => hitThreads
      BY <2>1 DEF LogInv
    <3>2. ASSUME pc' = "verify", log[i].purpose = purpose
          PROVE  \E k \in 1..(next' - 1) : k <= Len(Schedule') /\ log[i].tool = Schedule'[k]
      <4>1. PICK k \in 1..(next - 1) : k <= Len(Schedule) /\ log[i].tool = Schedule[k]
        BY <1>2, <2>1, <3>2 DEF LogInv
      <4>2. k \in 1..next /\ k \in 1..(next' - 1)
        BY <1>2, <1>11, <3>2
      <4>3. QED
        BY <1>11, <3>2, <4>1, <4>2
    <3>3. log'[i] = log[i]
      BY <1>14, <2>1
    <3>4. QED
      BY <1>9, <3>1, <3>2, <3>3
  <2>2. CASE i = Len(log) + 1
    <3>1. pc' = "verify" => \E k \in 1..(next' - 1) : k <= Len(Schedule') /\ v = Schedule'[k]
      <4>1. ASSUME pc' = "verify"
            PROVE  next \in 1..(next' - 1) /\ next <= Len(Schedule') /\ v = Schedule'[next]
        BY <1>2, <1>11, <4>1 DEF v
      <4>2. QED
        BY <4>1
    <3>2. QED
      BY <1>9, <1>12, <1>14, <2>2, <3>1
  <2>3. QED
    BY <1>14, <2>1, <2>2
<1>18. pc' \in {"verify", "answered"} /\ tool' \in Kinds
  BY <1>1, <1>2, <1>6, <1>10
<1>19. /\ conf'.tool = "svcomp" => tool'.name \in {"klee", "slowbeast", "none"}
       /\ purpose' = "replay" => CanReplay(tool)'
  BY <1>2, <1>6, <1>10 DEF LogInv, CanReplay
<1>20. Earlier(purpose)' = Earlier(purpose)
  BY <1>2 DEF Earlier
<1>21. QED
  BY <1>2, <1>14, <1>15, <1>16, <1>17, <1>18, <1>19, <1>20 DEF LogInv, FreshStart

LEMMA NextLogInv == TypeOK /\ LogInv /\ [Next]_vars => LogInv'
<1> SUFFICES ASSUME TypeOK, LogInv, [Next]_vars PROVE LogInv'
  OBVIOUS
<1>a. UNCHANGED <<conf, world>>
  BY WorldStays
<1> USE DEF Stops
<1>1. CASE Raise
  BY <1>1, SameLog DEF Raise, options, verifier, outcome
<1>2. CASE Compile
  BY <1>2, SameLog DEF Compile, verifier, outcome
<1>3. CASE ProvedByInstrumentation
  BY <1>3, SameLog DEF ProvedByInstrumentation, options, verifier
<1>4. CASE RunVerifier
  BY <1>4, RunLogged
<1>5. CASE NoVerifierLeft
  BY <1>5, SameLog DEF NoVerifierLeft, options, verifier
<1>6. CASE Prepared
  BY <1>6, SameLog DEF Prepared, options, verifier, outcome
<1>7. CASE TryUnsliced
  <2>1. purpose = "first" /\ UNCHANGED tool /\ Restart("unsliced", <<>>)
    BY <1>7 DEF TryUnsliced, FailedOnSliced, outcome
  <2>2. QED
    BY <1>a, <2>1, RestartedLog DEF Purposes
<1>8. CASE Replay
  <2>1. /\ purpose \in {"first", "unsliced"} /\ CanReplay(tool) /\ UNCHANGED tool
        /\ Restart("replay", Append(toolParams, "-replay-nondets"))
    BY <1>8 DEF Replay
  <2>2. QED
    BY <1>a, <2>1, RestartedLog DEF Purposes
<1>9. CASE Accept
  BY <1>9, SameLog DEF Accept, options, verifier
<1>10. CASE Crash
  BY <1>10, SameLog DEF Crash, options, verifier, outcome
<1>11. CASE Confirmed
  BY <1>11, SameLog DEF Confirmed, options, verifier, outcome
<1>12. CASE Rerun
  <2>1. purpose = "replay" /\ UNCHANGED tool /\ Restart("rerun", <<>>)
    BY <1>12 DEF Rerun
  <2>2. QED
    BY <1>a, <2>1, RestartedLog DEF Purposes
<1>13. CASE AcceptRerun
  BY <1>13, SameLog DEF AcceptRerun, options, verifier
<1>14. CASE Report
  BY <1>14, SameLog DEF Report, options, verifier
<1>15. CASE UNCHANGED vars
  <2>1. UNCHANGED <<conf, log, hitThreads, purpose, next, tool, pc>>
    BY <1>15 DEF vars, options, verifier, outcome
  <2>2. Schedule' = Schedule
    BY <2>1 DEF Schedule
  <2>3. ThreadsRouted' /\ OwnPassesOnly'
    BY <2>1 DEF LogInv, ThreadsRouted, OwnPassesOnly
  <2>4. QED
    BY <2>1, <2>2, <2>3 DEF LogInv, FreshStart, CanReplay, Earlier
<1>16. QED
  BY <1>1, <1>2, <1>3, <1>4, <1>5, <1>6, <1>7, <1>8, <1>9, <1>10, <1>11, <1>12, <1>13,
     <1>14, <1>15 DEF Next

LEMMA Logged == Spec => []LogInv
<1>1. Init => LogInv
  <2> SUFFICES ASSUME Init PROVE LogInv
    OBVIOUS
  <2>1. /\ tool \in Kinds /\ tool.name = "none" /\ log = <<>> /\ purpose = "first" /\ next = 1
        /\ pc = "compile"
    BY DEF Init, None, Tool, Kinds
  <2>2. log \in Seq(Entries) /\ DOMAIN log = {}
    BY <2>1
  <2>3. QED
    BY <2>1, <2>2 DEF LogInv, FreshStart, ThreadsRouted, OwnPassesOnly
<1>2. QED
  BY <1>1, NextLogInv, DriverTypes, PTL DEF Spec

(***************************************************************************)
(* After a tool of the svcomp schedule met threads only KLEE and the       *)
(* configuration for threads run (svcomp.py:50-71, 130-136).               *)
(***************************************************************************)
THEOREM ThreadsAreRouted == Spec => []ThreadsRouted
<1>1. LogInv => ThreadsRouted
  BY DEF LogInv
<1>2. QED
  BY <1>1, Logged, PTL

(***************************************************************************)
(* No verifier gets bitcode that was transformed for another one, and none *)
(* runs twice for one purpose, although the schedule changes while it is   *)
(* gone through (verifier.py:76-128).                                      *)
(***************************************************************************)
THEOREM EachOnItsOwn == Spec => []OwnPassesOnly
<1>1. LogInv => OwnPassesOnly
  BY DEF LogInv
<1>2. QED
  BY <1>1, Logged, PTL

----------------------------------------------------------------------------
(***************************************************************************)
(* The witness.  It is written from what the last run of KLEE left, so the *)
(* last run has to be the one that decided, also when that was a replay.   *)
(***************************************************************************)
Decisive == Refuted \cup {"true"}

WitnessInv ==
    /\ pc = "compile" => tool = None /\ ~hasError
    /\ purpose = "replay" => hasError /\ CanReplay(tool)
    /\ pc = "verify" /\ next > 1 =>
          /\ log # <<>> /\ log[Len(log)].answer = res
          /\ purpose = "replay" => log[Len(log)].tool = tool
    /\ Answered /\ tool # None => res \in Decisive \/ (pc = "answered" /\ purpose = "replay")
    /\ Answered /\ tool.name = "klee" =>
          log # <<>> /\ log[Len(log)].tool = tool /\ log[Len(log)].answer = res
    /\ pc \in {"report", "done"} => hasError = IsError(res)
    /\ witness # "none" =>
          /\ pc = "done"
          /\ (witness = "violation") = (res \in Refuted)
          /\ (witness = "correctness") = (res = "true")

Known == TypeOK /\ FalseInv /\ LogInv

\* A step that runs no verifier and writes no witness.
LEMMA SameWitness ==
    ASSUME WitnessInv, Known, UNCHANGED <<conf, log, res, tool, purpose, witness>>,
           pc # "done", hasError' = hasError \/ purpose # "replay",
           \/ pc' \in {"failed", "unverified"}
           \/ pc' = "verify" /\ next' = 1
           \/ /\ pc' = "report" /\ pc = "answered"
              /\ hasError' = IsError(res) /\ (purpose = "replay" => IsError(res))
    PROVE  WitnessInv'
<1>1. IsError(res)' = IsError(res) /\ CanReplay(tool)' = CanReplay(tool)
  BY DEF IsError, CanReplay
<1>2. witness' = "none"
  BY DEF WitnessInv
<1>3. purpose' = "replay" => hasError' /\ CanReplay(tool)'
  BY <1>1 DEF WitnessInv
<1>4. CASE pc' # "report"
  BY <1>2, <1>3, <1>4 DEF WitnessInv, Answered
<1>5. CASE pc' = "report"
  <2>1. tool # None => res \in Decisive
    <3>1. purpose = "replay" /\ tool # None => res \in Refuted
      BY <1>5 DEF IsError, Known, FalseInv, Answered
    <3>2. QED
      BY <1>5, <3>1 DEF WitnessInv, Answered, Decisive
  <2>2. QED
    BY <1>1, <1>2, <1>3, <1>5, <2>1 DEF WitnessInv, Answered
<1>6. QED
  BY <1>4, <1>5

LEMMA NextWitnessInv == Known /\ WitnessInv /\ [Next]_vars => WitnessInv'
<1> SUFFICES ASSUME Known, WitnessInv, [Next]_vars PROVE WitnessInv'
  OBVIOUS
<1>a. UNCHANGED <<conf, world>>
  BY WorldStays
<1>b. pc # "done" => witness = "none"
  BY DEF WitnessInv
<1>1. CASE Raise
  BY <1>1, SameWitness DEF Raise, options, verifier, outcome
<1>2. CASE Compile
  <2>1. next = 1
    BY <1>2 DEF Known, FalseInv, FreshStart, Compile
  <2>2. QED
    BY <1>2, <2>1, SameWitness DEF Compile, verifier, outcome
<1>3. CASE ProvedByInstrumentation
  <2>1. /\ pc = "compile" /\ pc' = "done" /\ res' = "true"
        /\ UNCHANGED <<tool, hasError, witness, purpose, log>>
    BY <1>3 DEF ProvedByInstrumentation, verifier
  <2>2. tool' = None /\ hasError' = FALSE /\ witness' = "none" /\ None.name = "none"
    BY <1>b, <2>1 DEF WitnessInv, None, Tool
  <2>3. IsError(res)' = FALSE
    BY <2>1 DEF IsError, Refuted
  <2>4. CanReplay(tool)' = CanReplay(tool)
    BY <2>1 DEF CanReplay
  <2>5. QED
    BY <2>1, <2>2, <2>3, <2>4 DEF WitnessInv, Answered
<1>4. CASE RunVerifier
  <2> DEFINE v == Schedule[next]
  <2>1. PICK r \in ResultsOf(v) :
          /\ log' = Append(log, [tool |-> v, answer |-> r, passes |-> passes', purpose |-> purpose])
          /\ res' = r
          /\ IF r \in Refuted \cup {"true"}
             THEN /\ tool' = IF purpose = "replay" THEN tool ELSE v
                  /\ pc' = "answered"
             ELSE UNCHANGED <<pc, tool>>
    BY <1>4 DEF RunVerifier
  <2>2. /\ pc = "verify" /\ UNCHANGED <<purpose, hasError, witness>>
        /\ next \in 1..Len(Schedule) /\ conf.tool \in Tools /\ tool \in Kinds
        /\ log \in Seq(Entries)
    BY <1>4, ScheduleLength DEF RunVerifier, Known, TypeOK, LogInv
  <2>3. purpose = "replay" => v = tool
    <3>1. ASSUME purpose = "replay" PROVE v = tool
      <4>1. Schedule = <<tool>> /\ Len(<<tool>>) = 1
        BY <2>2, <3>1, Scheduled
      <4>2. next = 1
        BY <2>2, <4>1
      <4>3. QED
        BY <4>1, <4>2
    <3>2. QED
      BY <3>1
  <2> DEFINE e == [tool |-> v, answer |-> r, passes |-> passes', purpose |-> purpose]
  <2>4. LogInv'
    BY <1>4, RunLogged DEF Known
  <2>5. log' # <<>> /\ log'[Len(log')].tool = v /\ log'[Len(log')].answer = r
    <3>1. e.tool = v /\ e.answer = r
      OBVIOUS
    <3> HIDE DEF e
    <3>2. log' = Append(log, e)
      BY <2>1 DEF e
    <3>3. Len(log') = Len(log) + 1 /\ log'[Len(log) + 1] = e /\ Len(log) \in Nat
      BY <2>2, <3>2
    <3>4. log' # <<>>
      BY <3>3
    <3>5. QED
      BY <3>1, <3>3, <3>4
  <2>6. witness' = "none"
    BY <1>b, <2>2
  <2>7. purpose' = "replay" => hasError' /\ CanReplay(tool)'
    BY <2>1, <2>2, <2>4 DEF WitnessInv, LogInv
  <2> HIDE DEF v
  <2>8. CASE r \in Decisive
    BY <2>1, <2>2, <2>3, <2>5, <2>6, <2>7, <2>8 DEF WitnessInv, Answered, Decisive
  <2>9. CASE r \notin Decisive
    BY <2>1, <2>2, <2>3, <2>5, <2>6, <2>7, <2>9 DEF WitnessInv, Answered, Decisive
  <2>10. QED
    BY <2>8, <2>9
<1>5. CASE NoVerifierLeft
  <2>1. /\ pc = "verify" /\ pc' = "answered" /\ next > 1
        /\ tool' = IF purpose = "replay" THEN tool ELSE None
        /\ UNCHANGED <<verifier, res, hasError, witness>>
    <3>1. next \in 1..5 /\ next > Len(Schedule) /\ Len(Schedule) \in 1..4
      BY <1>5, ScheduleLength DEF NoVerifierLeft, Known, TypeOK
    <3>2. QED
      BY <1>5, <3>1 DEF NoVerifierLeft
  <2>2. None.name = "none"
    BY DEF None, Tool
  <2>3. QED
    BY <1>b, <2>1, <2>2 DEF WitnessInv, Answered, verifier, CanReplay
<1>6. CASE Prepared
  <2>1. next = 1
    BY <1>6 DEF Known, FalseInv, FreshStart, Prepared
  <2>2. QED
    BY <1>6, <2>1, <1>a, SameWitness DEF Prepared, options, verifier, outcome
<1>7. CASE TryUnsliced
  BY <1>7, <1>b DEF TryUnsliced, Restart, outcome, WitnessInv, Answered
<1>8. CASE Replay
  BY <1>8, <1>b DEF Replay, Restart, WitnessInv, Answered, CanReplay
<1>9. CASE Accept
  BY <1>9, SameWitness DEF Accept, options, verifier
<1>10. CASE Crash
  BY <1>10, SameWitness DEF Crash, options, verifier, outcome
<1>11. CASE Confirmed
  <2>1. hasError /\ IsError(res) /\ hasError \in BOOLEAN /\ IsError(res) \in BOOLEAN
    BY <1>11 DEF Confirmed, WitnessInv, IsError, Known, TypeOK
  <2>2. hasError' = IsError(res)
    BY <1>11, <2>1 DEF Confirmed, outcome
  <2>3. QED
    BY <1>11, <2>1, <2>2, SameWitness DEF Confirmed, options, verifier, outcome
<1>12. CASE Rerun
  BY <1>12, <1>b DEF Rerun, Restart, WitnessInv, Answered
<1>13. CASE AcceptRerun
  BY <1>13, SameWitness DEF AcceptRerun, options, verifier
<1>14. CASE Report
  <2>1. pc = "report" /\ pc' = "done" /\ UNCHANGED <<options, verifier, res, tool, hasError>>
    BY <1>14 DEF Report
  <2>2. witness' = "none" \/ (tool # None /\ witness' = WitnessKind(hasError))
    <3>1. CASE conf.nowitness \/ tool = None
      BY <1>14, <3>1 DEF Report
    <3>2. CASE ~(conf.nowitness \/ tool = None) /\ tool.name = "witch-klee"
      BY <1>14, <3>2 DEF Report, WitnessKind
    <3>3. CASE ~(conf.nowitness \/ tool = None) /\ tool.name # "witch-klee"
      BY <1>14, <3>3 DEF Report
    <3>4. QED
      BY <3>1, <3>2, <3>3
  <2>3. hasError = IsError(res) /\ (tool # None => res \in Decisive)
    BY <2>1 DEF WitnessInv, Answered
  <2>4. ASSUME witness' # "none"
        PROVE  /\ (witness' = "violation") = (res \in Refuted)
               /\ (witness' = "correctness") = (res = "true")
    <3>1. res \in Decisive /\ witness' = WitnessKind(hasError)
      BY <2>2, <2>3, <2>4
    <3>2. CASE res \in Refuted
      <4>1. hasError /\ res # "true"
        BY <2>3, <3>2 DEF IsError, Refuted
      <4>2. QED
        BY <3>1, <3>2, <4>1 DEF WitnessKind
    <3>3. CASE res = "true"
      <4>1. ~hasError /\ res \notin Refuted
        BY <2>3, <3>3 DEF IsError, Refuted
      <4>2. QED
        BY <3>1, <3>3, <4>1 DEF WitnessKind
    <3>4. QED
      BY <3>1, <3>2, <3>3 DEF Decisive
  <2>5. IsError(res)' = IsError(res) /\ CanReplay(tool)' = CanReplay(tool)
    BY <2>1 DEF IsError, CanReplay, options
  <2>6. QED
    BY <2>1, <2>3, <2>4, <2>5 DEF WitnessInv, Answered, verifier
<1>15. CASE UNCHANGED vars
  <2>1. UNCHANGED <<conf, log, res, tool, purpose, next, pc, hasError, witness>>
    BY <1>15 DEF vars, options, verifier, outcome
  <2>2. IsError(res)' = IsError(res) /\ CanReplay(tool)' = CanReplay(tool)
    BY <2>1 DEF IsError, CanReplay
  <2>3. QED
    BY <2>1, <2>2 DEF WitnessInv, Answered
<1>16. QED
  BY <1>1, <1>2, <1>3, <1>4, <1>5, <1>6, <1>7, <1>8, <1>9, <1>10, <1>11, <1>12, <1>13,
     <1>14, <1>15 DEF Next

(***************************************************************************)
(* The witness says what the answer says, and if KLEE decided it is        *)
(* written from the run that did (symbiotic.py:109-156).                   *)
(***************************************************************************)
THEOREM WitnessFits == Spec => []WitnessOfAnswer
<1>1. Init => WitnessInv
  <2>1. None.name = "none"
    BY DEF None, Tool
  <2>2. QED
    BY <2>1 DEF Init, WitnessInv, Answered
<1>2. Known /\ WitnessInv => WitnessOfAnswer
  <2> SUFFICES ASSUME Known, WitnessInv, witness # "none"
               PROVE  /\ (witness = "violation") = (res \in Refuted)
                      /\ (witness = "correctness") = (res = "true")
                      /\ tool.name = "klee" =>
                            LET last == CHOOSE i \in DOMAIN log :
                                          /\ log[i].tool.name = "klee"
                                          /\ \A j \in DOMAIN log :
                                                log[j].tool.name = "klee" => j <= i
                            IN  log[last].answer = res
    BY DEF WitnessOfAnswer
  <2>1. /\ (witness = "violation") = (res \in Refuted)
        /\ (witness = "correctness") = (res = "true")
    BY DEF WitnessInv
  <2>2. ASSUME tool.name = "klee"
        PROVE  LET last == CHOOSE i \in DOMAIN log :
                             /\ log[i].tool.name = "klee"
                             /\ \A j \in DOMAIN log : log[j].tool.name = "klee" => j <= i
               IN  log[last].answer = res
    <3> DEFINE IsLast(i) == /\ log[i].tool.name = "klee"
                            /\ \A j \in DOMAIN log : log[j].tool.name = "klee" => j <= i
               last == CHOOSE i \in DOMAIN log : IsLast(i)
    <3>1. /\ log \in Seq(Entries) /\ log # <<>> /\ log[Len(log)].tool.name = "klee"
          /\ log[Len(log)].answer = res
      BY <2>2 DEF Known, LogInv, WitnessInv, Answered
    <3>2. DOMAIN log = 1..Len(log) /\ Len(log) \in 1..Len(log)
      BY <3>1
    <3>3. IsLast(Len(log))
      BY <3>1, <3>2
    <3>4. last \in DOMAIN log /\ IsLast(last)
      BY <3>2, <3>3
    <3> HIDE DEF last
    <3>5. last = Len(log)
      BY <3>1, <3>2, <3>4
    <3>6. QED
      BY <3>1, <3>5 DEF last
  <2>3. QED
    BY <2>1, <2>2
<1>3. Spec => []FalseInv
  <2>1. Init => FalseInv
    <3>1. Init => tool.name # "testcomp"
      BY DEF Init, None, Tool
    <3>2. QED
      BY <3>1 DEF Init, FalseInv, FreshStart, UnclearSoFar, Answered
  <2>2. QED
    BY <2>1, NextFalseInv, DriverTypes, PTL DEF Spec
<1>4. Spec => []Known
  BY <1>3, DriverTypes, Logged, PTL DEF Known
<1>5. QED
  BY <1>1, <1>2, <1>4, NextWitnessInv, PTL DEF Spec

=============================================================================
