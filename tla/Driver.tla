------------------------------- MODULE Driver -------------------------------
(***************************************************************************)
(* Which verifiers a run of Symbiotic starts, on which bitcode, and what   *)
(* it makes of their answers: Symbiotic._run_symbiotic, the loop of        *)
(* SymbioticVerifier and the schedule of the svcomp target.  The compiler  *)
(* pipeline is one step that may give up slicing; a verifier is one step   *)
(* whose answer is one that a tool that is sound on the bitcode it gets    *)
(* can give.  Signals are the subject of Supervision.                      *)
(***************************************************************************)
EXTENDS Naturals, Sequences

CONSTANT UserParams \* The values of options.tool_params to consider.

ASSUME ParamsAssumption ==
    UserParams # {} /\ UserParams \subseteq Seq({"user"})

VARIABLES
    conf,         \* The target and the options that no step assigns.
    world,        \* What is true of the program.
    noslice,      \* options.noslice
    replayError,  \* options.replay_error
    toolParams,   \* options.tool_params
    hitThreads,   \* _hit_threads of the svcomp target
    pc,
    purpose,      \* Why the SymbioticVerifier at work was created.
    override,     \* Its override_params, <<>> for None.
    next,         \* Position of the generator tool.verifiers().
    passes,       \* The tools whose passes went into its curfile.
    res,          \* The result,
    tool,         \* the verifier that decided it, None if none did,
    basis,        \* and what it rests on: see Verdict.
    first,        \* The result before the error was replayed.
    hasError,
    witness,      \* The kind of witness written.
    log           \* History: the verifiers that ran, with their answers.

options  == <<conf, world, noslice, replayError, toolParams>>
verifier == <<hitThreads, purpose, override, next, passes, log>>
outcome  == <<res, tool, basis, first, hasError, witness>>
vars     == <<options, verifier, outcome, pc>>

Tools      == {"klee", "slowbeast", "witch-klee", "svcomp", "testcomp"}
Properties == {"unreach-call", "memsafety", "no-overflow", "coverage-error-call"}
Purposes   == {"first", "unsliced", "replay", "rerun"}

Tool(name, args) == [name |-> name, args |-> args]
None == Tool("none", "none")

\* Results that start with "false"; "pthread" is an unknown that names EPTHREAD.
Refuted == {"false", "false(other)"}
Unclear == {"unknown", "pthread", "error"}
Results == Refuted \cup Unclear \cup {"true", "done"}

IsError(r) ==
    \/ r \in Refuted
    \/ r = "done" /\ conf.property = "coverage-error-call"

----------------------------------------------------------------------------
(***************************************************************************)
(* Verifiers and what they can answer.                                     *)
(***************************************************************************)

\* The generator verifiers() of the target: what follows its first tool is
\* chosen when that tool has answered.
Schedule ==
    IF purpose = "replay" THEN <<tool>>
    ELSE IF conf.tool # "svcomp" THEN <<Tool(conf.tool, "none")>>
    ELSE <<Tool("klee", "none")>> \o
         (IF hitThreads THEN <<Tool("slowbeast", "-threads")>>
          ELSE IF conf.property = "unreach-call"
               THEN <<Tool("slowbeast", "-cse"), Tool("slowbeast", "-bself"),
                      Tool("slowbeast", "-se-incremental-solving")>>
               ELSE <<>>)

Params    == IF override # <<>> THEN override ELSE toolParams
Replaying == \E i \in DOMAIN Params : Params[i] = "-replay-nondets"

OnSliced == purpose = "first" /\ ~noslice
Basis    == IF Replaying THEN "path" ELSE IF OnSliced THEN "sliced" ELSE "unsliced"

NotInstrumented ==
    /\ conf.property \in {"memsafety", "no-overflow"} /\ conf.tool # "witch-klee"
    /\ ~world.instrumentable

\* Arithmetic overflows are errors of the bitcode only once it is instrumented.
VisibleError == world.error /\ ~(conf.property = "no-overflow" /\ NotInstrumented)

\* "true": the tool explored all of a bitcode without errors, or one path.
MayProve(v) ==
    \/ Replaying
    \/ ~VisibleError /\ (world.threads => v.args = "-threads")

\* Slicing may leave errors that the program does not have.
MayRefute == VisibleError \/ (OnSliced /\ world.spurious)

ResultsOf(v) ==
    CASE v.name = "testcomp" -> {"done"}
      [] v.name = "slowbeast" /\ Replaying -> {"unknown"}
      [] OTHER ->
           {r \in Results \ {"done"} :
              /\ r = "true" => MayProve(v)
              /\ r \in Refuted => MayRefute
              /\ r = "false(other)" => conf.property = "memsafety" /\ v.name # "slowbeast"
              /\ r = "pthread" => world.threads /\ v.name = "klee"}

----------------------------------------------------------------------------

Init ==
    /\ conf \in [tool : Tools, property : Properties, svComp : BOOLEAN,
                 replay : BOOLEAN, nowitness : BOOLEAN, noVerification : BOOLEAN]
    /\ conf.tool = "witch-klee" => conf.svComp
    /\ conf.property = "coverage-error-call" => conf.tool = "testcomp"
    /\ world \in [error : BOOLEAN, spurious : BOOLEAN, threads : BOOLEAN,
                  instrumentable : BOOLEAN]
    /\ noslice \in BOOLEAN
    /\ conf.tool = "witch-klee" => noslice
    /\ replayError = conf.replay
    /\ toolParams \in UserParams
    /\ hitThreads = FALSE
    /\ pc = "compile"
    /\ purpose = "first"
    /\ override = <<>>
    /\ next = 1
    /\ passes = {}
    /\ res = "unknown"
    /\ tool = None
    /\ basis = "none"
    /\ first = "unknown"
    /\ hasError = FALSE
    /\ witness = "none"
    /\ log = <<>>

\* SymbioticException: the main script reports ERROR.
Raise ==
    /\ pc \in {"compile", "prepare", "verify"}
    /\ pc' = "failed"
    /\ UNCHANGED <<options, verifier, outcome>>

\* SymbioticCC.run.  Failing to instrument or to slice means no slicing.
Compile ==
    /\ pc = "compile"
    /\ noslice' \in BOOLEAN
    /\ noslice => noslice'
    /\ NotInstrumented => noslice'
    /\ pc' = IF conf.noVerification THEN "unverified" ELSE "verify"
    /\ UNCHANGED <<conf, world, replayError, toolParams, verifier, outcome>>

\* SymbioticExceptionalResult: the instrumentation proved memory safety.
ProvedByInstrumentation ==
    /\ pc = "compile"
    /\ conf.property = "memsafety" /\ NotInstrumented /\ ~world.error
    /\ res' = "true" /\ basis' = "unsliced"
    /\ pc' = "done"
    /\ UNCHANGED <<options, verifier, tool, first, hasError, witness>>

----------------------------------------------------------------------------
(***************************************************************************)
(* SymbioticVerifier.run_verification.                                     *)
(***************************************************************************)

\* The bitcode handed to the next tool is the one the verifier was created for.
ToolPasses(v) == IF v.name = "slowbeast" THEN {v} ELSE {}

\* Mutant: the file of the previous tool is passed on.
KeepFile(v) == passes \cup ToolPasses(v)

PrepareFile(v) == ToolPasses(v)

\* Mutant: the schedule is not told about the threads.
IgnoreThreads(r) == hitThreads

\* verifier_failed
RegisterThreads(r) ==
    hitThreads \/ (conf.tool = "svcomp" /\ purpose # "replay" /\ r = "pthread")

RunVerifier ==
    /\ pc = "verify" /\ next <= Len(Schedule)
    /\ LET v == Schedule[next] IN
       \E r \in ResultsOf(v) :
          /\ passes' = PrepareFile(v)
          /\ log' = Append(log, [tool |-> v, answer |-> r, passes |-> passes',
                                 purpose |-> purpose])
          /\ res' = r
          /\ basis' = Basis
          /\ IF r \in Refuted \cup {"true"}
             THEN /\ tool' = IF purpose = "replay" THEN tool ELSE v
                  /\ pc' = "answered"
                  /\ UNCHANGED <<next, hitThreads>>
             ELSE /\ hitThreads' = RegisterThreads(r)
                  /\ next' = next + 1
                  /\ UNCHANGED <<pc, tool>>
    /\ UNCHANGED <<options, purpose, override, first, hasError, witness>>

NoVerifierLeft ==
    /\ pc = "verify" /\ next > Len(Schedule)
    /\ tool' = IF purpose = "replay" THEN tool ELSE None
    /\ pc' = "answered"
    /\ UNCHANGED <<options, verifier, res, basis, first, hasError, witness>>

----------------------------------------------------------------------------
(***************************************************************************)
(* _run_symbiotic: what is made of the answer.                             *)
(***************************************************************************)

\* A new SymbioticVerifier on the unsliced bitcode.
Restart(why, params) ==
    /\ purpose' = why
    /\ override' = params
    /\ next' = 1
    /\ passes' = {}
    /\ pc' = "prepare"
    /\ UNCHANGED <<hitThreads, log>>

\* prepare_unsliced_file, which may raise, see Raise.
Prepared ==
    /\ pc = "prepare"
    /\ pc' = "verify"
    /\ UNCHANGED <<options, verifier, outcome>>

FailedOnSliced == purpose = "first" /\ ~noslice /\ conf.svComp /\ res \in Unclear

TryUnsliced ==
    /\ pc = "answered" /\ FailedOnSliced
    /\ replayError' = FALSE
    /\ noslice' = TRUE
    /\ Restart("unsliced", <<>>)
    /\ UNCHANGED <<conf, world, toolParams, outcome>>

CanReplay(t) == t.name \in {"klee", "witch-klee", "testcomp"}

\* Mutant: the reported error is always real.
NeverReplay == FALSE

\* The error is to be confirmed on the unsliced bitcode.
MustReplay == IsError(res) /\ replayError /\ ~noslice

\* Mutant: options.tool_params is extended even when it is empty.
ExtendParams == override'

\* params = options.tool_params if it is not empty, and params.append(...).
ParamsAfterReplay == IF toolParams = <<>> THEN toolParams ELSE override'

\* replay_nonsliced
Replay ==
    /\ pc = "answered" /\ purpose \in {"first", "unsliced"} /\ ~FailedOnSliced
    /\ MustReplay /\ CanReplay(tool)
    /\ first' = res
    /\ hasError' = TRUE
    /\ Restart("replay", Append(toolParams, "-replay-nondets"))
    /\ toolParams' = ParamsAfterReplay
    /\ UNCHANGED <<conf, world, noslice, replayError, res, tool, basis, witness>>

Accept ==
    /\ pc = "answered" /\ purpose \in {"first", "unsliced"} /\ ~FailedOnSliced
    /\ MustReplay => tool # None /\ ~CanReplay(tool)
    /\ hasError' = IsError(res)
    /\ pc' = "report"
    /\ UNCHANGED <<options, verifier, res, tool, basis, first, witness>>

\* None has no can_replay: an AttributeError.
Crash ==
    /\ pc = "answered" /\ purpose \in {"first", "unsliced"} /\ ~FailedOnSliced
    /\ MustReplay /\ tool = None
    /\ pc' = "failed"
    /\ UNCHANGED <<options, verifier, outcome>>

\* Mutant: the result before the replay is reported.
ConfirmedFirst ==
    /\ pc = "answered" /\ purpose = "replay" /\ IsError(res)
    /\ res' = first
    /\ pc' = "report"
    /\ UNCHANGED <<options, verifier, tool, basis, first, hasError, witness>>

\* The replay found the error again, or another one, which is real then.
Confirmed ==
    /\ pc = "answered" /\ purpose = "replay" /\ IsError(res)
    /\ pc' = "report"
    /\ UNCHANGED <<options, verifier, outcome>>

\* Mutant: a replay without error is an answer.
TrustReplay ==
    /\ pc = "answered" /\ purpose = "replay" /\ ~IsError(res)
    /\ hasError' = FALSE
    /\ pc' = "report"
    /\ UNCHANGED <<options, verifier, res, tool, basis, first, witness>>

\* Mutant: an error that is not confirmed is reported as such.
GiveUp ==
    /\ pc = "answered" /\ purpose = "replay" /\ ~IsError(res)
    /\ hasError' = FALSE
    /\ res' = "cex not-confirmed"
    /\ pc' = "report"
    /\ UNCHANGED <<options, verifier, tool, basis, first, witness>>

\* cex not-confirmed
Rerun ==
    /\ pc = "answered" /\ purpose = "replay" /\ ~IsError(res)
    /\ hasError' = FALSE
    /\ Restart("rerun", <<>>)
    /\ UNCHANGED <<options, res, tool, basis, first, witness>>

AcceptRerun ==
    /\ pc = "answered" /\ purpose = "rerun"
    /\ hasError' = IsError(res)
    /\ pc' = "report"
    /\ UNCHANGED <<options, verifier, res, tool, basis, first, witness>>

WitnessKind(err) == IF err THEN "violation" ELSE "correctness"

\* generate_witness of the deciding tool; Witch-KLEE writes one only for an
\* error that it found off the path of the witness it was given.
Report ==
    /\ pc = "report"
    /\ witness' \in
         IF conf.nowitness \/ tool = None THEN {"none"}
         ELSE IF tool.name = "witch-klee" THEN {"none"} \cup {k \in {"violation"} : hasError}
         ELSE {WitnessKind(hasError)}
    /\ pc' = "done"
    /\ UNCHANGED <<options, verifier, res, tool, basis, first, hasError>>

Next ==
    \/ Raise \/ Compile \/ ProvedByInstrumentation
    \/ RunVerifier \/ NoVerifierLeft
    \/ Prepared \/ TryUnsliced \/ Replay \/ Accept \/ Crash
    \/ Confirmed \/ Rerun \/ AcceptRerun \/ Report

\* Every verifier ends: it has a timeout or the run has one.
Spec == Init /\ [][Next]_vars /\ WF_vars(Next)

----------------------------------------------------------------------------
(***************************************************************************)
(* Properties.                                                             *)
(***************************************************************************)

Stops == {"done", "failed", "unverified"}

\* The variables keep their types.
TypeOK ==
    /\ conf \in [tool : Tools, property : Properties, svComp : BOOLEAN,
                 replay : BOOLEAN, nowitness : BOOLEAN, noVerification : BOOLEAN]
    /\ world \in [error : BOOLEAN, spurious : BOOLEAN, threads : BOOLEAN,
                  instrumentable : BOOLEAN]
    /\ noslice \in BOOLEAN /\ replayError \in BOOLEAN /\ hitThreads \in BOOLEAN
    /\ toolParams \in Seq({"user", "-replay-nondets"})
    /\ override \in Seq({"user", "-replay-nondets"})
    /\ pc \in Stops \cup {"compile", "prepare", "verify", "answered", "report"}
    /\ purpose \in Purposes
    /\ next \in 1..5
    /\ res \in Results /\ first \in Results
    /\ basis \in {"none", "sliced", "unsliced", "path"}
    /\ hasError \in BOOLEAN
    /\ witness \in {"none", "violation", "correctness"}

(***************************************************************************)
(* A run never ends with "true" for a program with an error that is still  *)
(* there in its unsliced bitcode, although a replay that leaves the error  *)
(* path may well answer "true" in between.                                 *)
(***************************************************************************)
TrueIsSound == pc = "done" /\ res = "true" => ~VisibleError

(***************************************************************************)
(* If the replay of errors was requested, an error reported by a tool that *)
(* can replay is one of the program and not one that slicing introduced.   *)
(***************************************************************************)
FalseIsConfirmed ==
    pc = "done" /\ IsError(res) /\ conf.replay /\ CanReplay(tool) => VisibleError

(***************************************************************************)
(* Once a tool of the svcomp schedule met threads, on whichever bitcode, a *)
(* later tool of the run is again KLEE or one that supports threads.  (The *)
(* schedule does not learn what a replay met.)                             *)
(***************************************************************************)
ThreadsRouted ==
    \A i, j \in DOMAIN log :
        /\ i < j /\ conf.tool = "svcomp"
        /\ log[i].answer = "pthread" /\ log[i].purpose # "replay"
        => log[j].tool.name = "klee" \/ log[j].tool.args = "-threads"

(***************************************************************************)
(* A verifier never works on bitcode that was transformed for another one, *)
(* and no verifier is run twice for the same purpose.                      *)
(***************************************************************************)
OwnPassesOnly ==
    \A i \in DOMAIN log :
        /\ log[i].passes \subseteq {log[i].tool}
        /\ \A j \in 1..(i - 1) :
              <<log[i].tool, log[i].purpose>> # <<log[j].tool, log[j].purpose>>

(***************************************************************************)
(* The witness says the same as the answer; and since it is read from the  *)
(* output of the last run of KLEE, that run gave the answer if KLEE is     *)
(* said to have decided.                                                   *)
(***************************************************************************)
WitnessOfAnswer ==
    witness # "none" =>
        /\ (witness = "violation") = (res \in Refuted)
        /\ (witness = "correctness") = (res = "true")
        /\ tool.name = "klee" =>
              LET last == CHOOSE i \in DOMAIN log :
                            /\ log[i].tool.name = "klee"
                            /\ \A j \in DOMAIN log :
                                  log[j].tool.name = "klee" => j <= i
              IN  log[last].answer = res

(***************************************************************************)
(* The answer, with the bitcode it rests on, is one that Verdict allows,   *)
(* and every run comes to one or stops.                                    *)
(***************************************************************************)
Answer ==
    CASE pc = "failed"     -> "stopped"
      [] pc = "unverified" -> "undecided"
      [] pc = "done"       -> IF res \in Refuted THEN "false"
                              ELSE IF res = "true" THEN "true" ELSE "undecided"
      [] OTHER             -> "none"

Promise == INSTANCE Verdict WITH
    error <- VisibleError, answer <- Answer,
    basis <- IF pc = "done" THEN basis ELSE "none"

KeepsPromise == Promise!Spec

=============================================================================
