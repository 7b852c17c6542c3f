------------------------------ MODULE Pipeline ------------------------------
(***************************************************************************)
(* SymbioticCC: the steps from the sources to the bitcode that is handed   *)
(* to the verifiers, and prepare_unsliced_file, which the driver calls     *)
(* when it wants the same program once more without slicing.  opt, the     *)
(* linker, the instrumentation and the slicer are programs of their own;   *)
(* here they write a file or fail.                                         *)
(***************************************************************************)
EXTENDS Hooks, Naturals, FiniteSets

CONSTANTS
    Configurations, \* The results of parsing the command line to consider.
    Programs,       \* The undefined functions of the sources to consider.
    Lib,            \* The library functions we have definitions of,
    Directory,      \* where their definitions are,
    Calls,          \* what they call that they do not define,
    Failing,        \* and those that call an error function.
    Prepares        \* Bound on the calls of prepare_unsliced_file.

Functions ==
    {"malloc", "atexit", "strlen", "__VERIFIER_assert", "__VERIFIER_malloc",
     "__VERIFIER_assume", "__VERIFIER_exit", "__VERIFIER_silent_exit",
     "__VERIFIER_atomic_begin", "__VERIFIER_atomic_end", "qsort",
     "__INSTR_check_assume", "__INSTR_fail", "__INSTR_check_nontermination",
     PointerMark, OverflowMark}

Directories == {"verifier", "libc", "posix", "kernel", "svcomp"}
Levels      == {"before-O3", "after-O3", "before-klee", "after-klee"}

Configuration ==
    [tool : Tools, property : STRING, calls : SUBSET STRING,
     fullInstrumentation : BOOLEAN, overflowWithClang : BOOLEAN,
     witnessCheck : BOOLEAN, mallocNeverFails : BOOLEAN, explicitSymbolic : BOOLEAN,
     svComp : BOOLEAN, linkundef : SUBSET Directories, linkFiles : SUBSET Functions,
     unroll : Nat, repeatSlicing : Nat, requireSlicer : BOOLEAN,
     noInstrument : BOOLEAN, instrumentationTimeout : Nat, noslice : BOOLEAN,
     noOptimize : BOOLEAN, optlevel : SUBSET Levels, given : SUBSET STRING]

ASSUME ConfigurationsAssumption == Configurations \subseteq Configuration

ASSUME LibAssumption ==
    /\ Programs \subseteq SUBSET Functions
    /\ Lib \subseteq Functions /\ Failing \subseteq Lib
    /\ {PointerMark, OverflowMark} \cap Lib = {}
    /\ Directory \in [Lib -> Directories]
    /\ Calls \in [Lib -> SUBSET Functions]

ASSUME PreparesAssumption == Prepares \in Nat

VARIABLES
    conf,       \* The options and the property that no step assigns.
    noslice,    \* options.noslice
    noOptimize, \* options.no_optimize
    optlevel,   \* options.optlevel
    pc,         \* The step at work.
    caller,     \* Of process_after_slicing: "run" or "prepare".
    goal,       \* Of the linking at work: which functions, and what follows.
    round,      \* Of repeated slicing.
    files,      \* The bitcode files by their names.
    curfile,    \* Name of the current file,
    nonsliced,  \* of the one to start from for the unsliced file,
    handed,     \* and of the one handed to the verifier.
    prepared,   \* History: what prepare_unsliced_file returned.
    gaveUp      \* History: has the instrumentation failed?

options == <<conf, noslice, noOptimize, optlevel>>
control == <<caller, goal, round>>
results == <<nonsliced, handed, prepared, gaveUp>>
vars    == <<options, pc, control, files, curfile, results>>

(***************************************************************************)
(* A name is code.bc with the suffixes that the steps put to it.  Only how *)
(* often each occurs is kept, so the names that the model tells apart are  *)
(* different in the code.                                                  *)
(***************************************************************************)
Names == [pr : Nat, inst : Nat, ln : Nat, opt : Nat, sliced : BOOLEAN]

Code   == [pr |-> 0, inst |-> 0, ln |-> 0, opt |-> 0, sliced |-> FALSE]
NoFile == [pr |-> 0, inst |-> 0, ln |-> 0, opt |-> 0, sliced |-> TRUE]

\* curfile[:curfile.rfind('.')] drops .bc and .sliced.
Stem(n) == [n EXCEPT !.sliced = FALSE]

\* Mutant: opt works in place.
InPlace(n) == Stem(n)

Prepared(n)     == [Stem(n) EXCEPT !.pr = @ + 1]
Instrumented(n) == [Stem(n) EXCEPT !.inst = @ + 1]
Linked(n)       == [Stem(n) EXCEPT !.ln = @ + 1]
Optimized(n)    == [Stem(n) EXCEPT !.opt = @ + 1]
Sliced(n)       == [n EXCEPT !.sliced = TRUE]

(***************************************************************************)
(* Bitcode: the steps that made it, in order, the functions it calls and   *)
(* does not define, the library functions it defines, and where its calls  *)
(* of error functions come from.                                           *)
(***************************************************************************)
Origins == {"program", "library", "check"}

\* What is done to bitcode: passes of opt (optimize stands for its own), and
\* what other programs do.
Passes ==
    {"remove-error-calls", "remove-error-calls-use-exit", "remove-infinite-loops",
     "replace-ubsan", "prepare-overflows", "mem2reg", "break-crit-edges", "reg2mem",
     "loop-unroll", "replace-lifetime-markers", "mark-volatile", "break-crit-loops",
     "lowerswitch", "break-infinite-loops", "optimize", "find-exits", "use-exit",
     "no-change-assumes", "explicit-consdes", "replace-verifier-atomic",
     "remove-readonly-attr", "dummy-marker", "delete-calls", "instrument-alloc",
     "instrument-nontermination", "witch-instrument-nontermination",
     "initialize-uninitialized", "internalize-globals"}

Done == Passes \cup {"transform", "compile", "sanitize", "link", "instrument", "slice"}

Bitcode == [steps : Seq(Done), undef : SUBSET Functions,
            defs : SUBSET Lib, errors : SUBSET Origins]

Has(passes, p) == \E i \in DOMAIN passes : passes[i] = p

\* p runs and q does not run after it.
Keeps(passes, p, q) ==
    \E i \in DOMAIN passes :
        passes[i] = p /\ \A j \in DOMAIN passes : j > i => passes[j] # q

\* Calls of error functions: those in the bitcode are removed, and UBSan's
\* checks become new ones.
ErrorsAfter(b, passes) ==
    (IF Has(passes, "remove-error-calls") THEN {} ELSE b.errors)
    \cup {o \in {"check"} : /\ Has(b.steps, "sanitize")
                           /\ Keeps(passes, "replace-ubsan", "remove-error-calls")}

\* The functions that a list of passes inserts calls of.
Inserted(b, passes) ==
    {f \in {"__VERIFIER_exit"} :
        \/ /\ b.errors # {} /\ Has(passes, "remove-error-calls")
           /\ Has(passes, "remove-error-calls-use-exit")
        \/ Has(passes, "find-exits") /\ Has(passes, "use-exit")}
    \cup {f \in {"__VERIFIER_assume"} :
        /\ b.errors # {} /\ Has(passes, "remove-error-calls")
        /\ ~Has(passes, "remove-error-calls-use-exit")}
    \cup {f \in {"__VERIFIER_silent_exit"} :
        Has(passes, "find-exits") /\ ~Has(passes, "use-exit")}
    \cup {f \in {"__INSTR_check_assume"} :
        /\ "__VERIFIER_assume" \in b.undef \cup b.defs
        /\ Has(passes, "find-exits") /\ ~Has(passes, "no-change-assumes")}
    \cup {f \in {"__VERIFIER_malloc"} :
        "malloc" \in b.undef /\ Has(passes, "instrument-alloc")}
    \cup {f \in {"__INSTR_check_nontermination", "__INSTR_fail"} :
        Has(passes, "instrument-nontermination")}

\* opt with passes of Symbiotic's own
Transformed(b, passes) ==
    [steps  |-> b.steps \o passes,
     undef  |-> ((b.undef \ (IF Has(passes, "delete-calls") THEN {PointerMark} ELSE {}))
                \cup Inserted(b, passes)) \ b.defs,
     defs   |-> b.defs,
     errors |-> ErrorsAfter(b, passes)]

\* Mutant: the linked functions are still asked for.
StillUndefined(b, funs) ==
    [steps  |-> Append(b.steps, "link"),
     undef  |-> (b.undef \cup UNION {Calls[f] : f \in funs}) \ b.defs,
     defs   |-> b.defs \cup funs,
     errors |-> b.errors \cup {o \in {"library"} : funs \cap Failing # {}}]

\* llvm-link with the definitions of functions
WithDefinitions(b, funs) ==
    [steps  |-> Append(b.steps, "link"),
     undef  |-> (b.undef \cup UNION {Calls[f] : f \in funs}) \ (b.defs \cup funs),
     defs   |-> b.defs \cup funs,
     errors |-> b.errors \cup {o \in {"library"} : funs \cap Failing # {}}]

\* sbt-instr
WithChecks(b, i) ==
    [b EXCEPT !.steps = Append(@, "instrument"),
              !.undef = @ \cup ({i.inserts} \cap Functions),
              !.errors = @ \cup {o \in {"check"} : i.links}]

Available == {f \in Lib : Directory[f] \in conf.linkundef}

----------------------------------------------------------------------------

Current == files[curfile]

\* A step that makes the file named n the current one.
Write(n, b) ==
    /\ files' = [m \in DOMAIN files \cup {n} |-> IF m = n THEN b ELSE files[m]]
    /\ curfile' = n

\* run_opt
RunOpt(passes) ==
    IF passes = <<>> THEN UNCHANGED <<files, curfile>>
    ELSE Write(Prepared(curfile), Transformed(Current, passes))

OptimizeWith(passes) ==
    IF passes = <<>> THEN UNCHANGED <<files, curfile>>
    ELSE Write(Optimized(curfile), [Current EXCEPT !.steps = @ \o passes])

\* optimize
Optimize(passes) ==
    IF noOptimize THEN UNCHANGED <<files, curfile>> ELSE OptimizeWith(passes)

\* The call of link_undefined(funs) before the step called next.
LinkUndefined(funs, next) ==
    /\ goal' = [only |-> funs, then |-> next]
    /\ pc' = "link"

Step(from, to) == pc = from /\ pc' = to

----------------------------------------------------------------------------
(***************************************************************************)
(* SymbioticCC.run up to the instrumentation.                              *)
(***************************************************************************)

Init ==
    /\ conf \in Configurations
    /\ noslice = conf.noslice
    /\ noOptimize = conf.noOptimize
    /\ optlevel = conf.optlevel
    /\ pc = "compile"
    /\ caller = "run"
    /\ goal = [only |-> {}, then |-> "compile"]
    /\ round = 0
    /\ files = [n \in {NoFile} |->
                   [steps |-> <<>>, undef |-> {}, defs |-> {}, errors |-> {}]]
    /\ curfile = NoFile
    /\ nonsliced = NoFile
    /\ handed = NoFile
    /\ prepared = <<>>
    /\ gaveUp = FALSE

\* A program that a step calls has failed: SymbioticException.
Raise ==
    /\ pc \notin {"handed", "raised", "proved"}
    /\ pc' = "raised"
    /\ UNCHANGED <<options, control, files, curfile, results>>

\* validation_preprocessing
Preprocessing == When(conf.witnessCheck, "transform")

\* _compile_sources
CompileSources ==
    /\ Step("compile", "after compilation")
    /\ \E program \in Programs :
         Write(Code, [steps |-> Preprocessing \o <<"compile">> \o When(Sanitizes(conf), "sanitize"),
                      undef |-> program, defs |-> {}, errors |-> {"program"}])
    /\ UNCHANGED <<options, control, results>>

\* actions_after_compilation
ActionsAfterCompilation ==
    /\ pc = "after compilation"
    /\ LinkUndefined(IF LinksAfterCompilation(conf) THEN Functions ELSE {}, "unroll")
    /\ UNCHANGED <<options, caller, round, files, curfile, results>>

\* Mutant: one round of linking.
OneRound ==
    /\ pc = "link"
    /\ LET funs == Current.undef \cap goal.only \cap Available IN
       IF funs = {} THEN UNCHANGED <<files, curfile>>
       ELSE Write(Linked(curfile), WithDefinitions(Current, funs))
    /\ pc' = goal.then
    /\ UNCHANGED <<options, control, results>>

\* Mutant: a round follows whether something was linked or not.
EndlessRounds ==
    /\ pc = "link"
    /\ LET funs == Current.undef \cap goal.only \cap Available IN
       IF funs = {} THEN UNCHANGED <<files, curfile>>
       ELSE Write(Linked(curfile), WithDefinitions(Current, funs))
    /\ goal' = [goal EXCEPT !.only = Functions]
    /\ UNCHANGED <<options, pc, caller, round, results>>

\* _link_undefined, and _rec_link_undefined once something was linked: the
\* second round is for all undefined functions.
LinkRound ==
    /\ pc = "link"
    /\ LET funs == Current.undef \cap goal.only \cap Available IN
       IF funs = {}
       THEN pc' = goal.then /\ UNCHANGED <<goal, files, curfile>>
       ELSE /\ Write(Linked(curfile), WithDefinitions(Current, funs))
            /\ goal' = [goal EXCEPT !.only = Functions]
            /\ UNCHANGED pc
    /\ UNCHANGED <<options, caller, round, results>>

UnrollPasses == IF conf.unroll > 0 THEN <<"reg2mem", "loop-unroll">> ELSE <<>>

Unroll ==
    /\ Step("unroll", "link files")
    /\ RunOpt(UnrollPasses)
    /\ UNCHANGED <<options, control, results>>

\* link_unconditional links each function once, whether it is undefined or
\* not; the linker refuses a second definition.
LinkUnconditional ==
    /\ pc = "link files"
    /\ LET funs == conf.linkFiles \cap Available IN
       /\ pc' = IF funs \cap Current.defs = {} THEN "prepare" ELSE "raised"
       /\ IF funs = {} \/ pc' = "raised" THEN UNCHANGED <<files, curfile>>
          ELSE Write(Linked(curfile), WithDefinitions(Current, funs))
    /\ UNCHANGED <<options, control, results>>

\* Not looking for the reachability of error functions.
OtherErrors == {"memsafety", "undefinedness", "signedoverflow", "termination", "memcleanup"}

PreparationPasses ==
    When(conf.property \in OtherErrors, "remove-error-calls") \o
    When(conf.property \in {"memcleanup", "termination"}, "remove-error-calls-use-exit") \o
    When(conf.property # "termination", "remove-infinite-loops") \o
    When(conf.property \in {"undefinedness", "signedoverflow"} /\ ~conf.witnessCheck,
         "replace-ubsan") \o
    (IF conf.property = "signedoverflow" /\ ~conf.overflowWithClang
     THEN When(~conf.witnessCheck, "prepare-overflows") \o <<"mem2reg", "break-crit-edges">>
     ELSE <<>>)

PrepareForInstrumentation ==
    /\ Step("prepare", "instrument")
    /\ RunOpt(PreparationPasses)
    /\ UNCHANGED <<options, control, results>>

Instruments == ~conf.noInstrument /\ Instrumentation(conf) # NoInstrumentation

NothingToInstrument ==
    /\ Step("instrument", "after instrumentation")
    /\ ~Instruments
    /\ UNCHANGED <<options, control, files, curfile, results>>

Instrument ==
    /\ Step("instrument", "after instrumentation")
    /\ Instruments
    /\ Write(Instrumented(curfile), WithChecks(Current, Instrumentation(conf)))
    /\ UNCHANGED <<options, control, results>>

\* Predator, a plugin of the instrumentation, found no errors.
ProvedByInstrumentation ==
    /\ Step("instrument", "proved")
    /\ Instruments /\ conf.property = "memsafety"
    /\ UNCHANGED <<options, control, files, curfile, results>>

\* Mutant: slicing goes on without the checks that it slices for.
KeepSlicing ==
    /\ Step("instrument", "after instrumentation")
    /\ Instruments /\ ~conf.fullInstrumentation
    /\ conf.instrumentationTimeout > 0 \/ conf.svComp
    /\ noOptimize' = FALSE
    /\ optlevel' = {}
    /\ gaveUp' = TRUE
    /\ UNCHANGED <<conf, noslice, control, files, curfile, nonsliced, handed, prepared>>

\* Any other failure raises, see Raise.
GiveUpInstrumentation ==
    /\ Step("instrument", "after instrumentation")
    /\ Instruments /\ ~conf.fullInstrumentation
    /\ conf.instrumentationTimeout > 0 \/ conf.svComp
    /\ noslice' = TRUE
    /\ noOptimize' = FALSE
    /\ optlevel' = {}
    /\ gaveUp' = TRUE
    /\ UNCHANGED <<conf, control, files, curfile, nonsliced, handed, prepared>>

----------------------------------------------------------------------------
(***************************************************************************)
(* From the instrumentation to slicing.                                    *)
(***************************************************************************)

MarkingPasses ==
    IF conf.property = "memsafety"
    THEN <<"replace-lifetime-markers", "mark-volatile">> ELSE <<>>

\* Mutant: the marks are left to the optimizations.
Unmarked ==
    /\ Step("after instrumentation", "optimize before")
    /\ UNCHANGED <<options, control, files, curfile, results>>

AfterInstrumentation ==
    /\ Step("after instrumentation", "optimize before")
    /\ RunOpt(MarkingPasses)
    /\ UNCHANGED <<options, control, results>>

\* get_optlist_before, get_optlist_after
Before == When(optlevel \cap {"before-O3", "before-klee"} # {}, "optimize")
After  == When(optlevel \cap {"after-O3", "after-klee"} # {}, "optimize")

\* Mutant: loops are removed first.
RemovedFirst ==
    IF noslice \/ "before-O3" \notin optlevel THEN <<>>
    ELSE <<"remove-infinite-loops", "mem2reg", "break-crit-loops", "lowerswitch">> \o
         (IF conf.property = "termination"
          THEN <<"reg2mem", "break-infinite-loops">> ELSE <<>>)

\* The passes that make the bitcode ready for slicing.
ForSlicing ==
    IF noslice \/ "before-O3" \notin optlevel THEN <<>>
    ELSE (IF conf.property = "termination"
          THEN <<"reg2mem", "break-infinite-loops">> ELSE <<>>)
         \o <<"remove-infinite-loops", "mem2reg", "break-crit-loops", "lowerswitch">>

OptimizeBeforeSlicing ==
    /\ Step("optimize before", "actions before slicing")
    /\ Optimize(Before \o ForSlicing)
    /\ UNCHANGED <<options, control, results>>

ActionsBeforeSlicing ==
    /\ pc = "actions before slicing"
    /\ LinkUndefined(AtomicSections(conf), "link before slicing")
    /\ UNCHANGED <<options, caller, round, files, curfile, results>>

BeforeSlicing == {"__VERIFIER_exit", "__VERIFIER_silent_exit", "__VERIFIER_assert"}

LinkBeforeSlicing ==
    /\ pc = "link before slicing"
    /\ LinkUndefined(BeforeSlicing, "before slicing")
    /\ UNCHANGED <<options, caller, round, files, curfile, results>>

\* The file to start from for the unsliced one is remembered first.
BeforeSlicingPasses ==
    /\ Step("before slicing", "link atexit")
    /\ nonsliced' = curfile
    /\ RunOpt(PassesBeforeSlicing(conf))
    /\ UNCHANGED <<options, control, handed, prepared, gaveUp>>

LinkAtexit ==
    /\ pc = "link atexit"
    /\ LinkUndefined({"atexit", "qsort"}, "consdes")
    /\ UNCHANGED <<options, caller, round, files, curfile, results>>

ExplicitConsdes ==
    /\ Step("consdes", "slicing")
    /\ RunOpt(<<"explicit-consdes">>)
    /\ UNCHANGED <<options, control, results>>

----------------------------------------------------------------------------
(***************************************************************************)
(* perform_slicing                                                         *)
(***************************************************************************)

NoSlicing ==
    /\ pc = "slicing" /\ noslice
    /\ pc' = IF conf.requireSlicer THEN "raised" ELSE "actions after slicing"
    /\ UNCHANGED <<options, control, files, curfile, results>>

StartSlicing ==
    /\ pc = "slicing" /\ ~noslice
    /\ pc' = IF conf.repeatSlicing = 0 THEN "actions after slicing" ELSE "slice"
    /\ UNCHANGED <<options, control, files, curfile, results>>

AfterRound == IF conf.repeatSlicing > 1 THEN "slice again" ELSE "actions after slicing"

\* The assertion that there is a criterion fails.
NoCriterion ==
    /\ Step("slice", "raised") /\ Criteria(conf) = {}
    /\ UNCHANGED <<options, control, files, curfile, results>>

Slice ==
    /\ pc = "slice" /\ Criteria(conf) # {}
    /\ pc' = AfterRound
    /\ Write(Sliced(curfile), [Current EXCEPT !.steps = Append(@, "slice")])
    /\ UNCHANGED <<options, control, results>>

\* Mutant: the option does not change.
StillSlicing ==
    /\ pc = "slice" /\ Criteria(conf) # {} /\ ~conf.requireSlicer
    /\ pc' = AfterRound
    /\ UNCHANGED <<options, control, files, curfile, results>>

\* The slicer failed or timed out, and is not required.
GiveUpSlicing ==
    /\ pc = "slice" /\ Criteria(conf) # {} /\ ~conf.requireSlicer
    /\ pc' = AfterRound
    /\ noslice' = TRUE
    /\ UNCHANGED <<conf, noOptimize, optlevel, control, files, curfile, results>>

SliceAgain ==
    /\ pc = "slice again"
    /\ round' = round + 1
    /\ pc' = IF round' < conf.repeatSlicing THEN "slice" ELSE "actions after slicing"
    /\ Optimize(After \o <<"remove-infinite-loops">>)
    /\ UNCHANGED <<options, caller, goal, results>>

----------------------------------------------------------------------------
(***************************************************************************)
(* process_after_slicing, for run and for prepare_unsliced_file            *)
(***************************************************************************)

SlicedUnrollPasses ==
    IF UnrollsAfterSlicing(conf)
    THEN <<"reg2mem", "loop-unroll">> \o <<"replace-verifier-atomic">> ELSE <<>>

ActionsAfterSlicing ==
    /\ Step("actions after slicing", "after slicing")
    /\ RunOpt(SlicedUnrollPasses)
    /\ UNCHANGED <<options, control, results>>

AfterSlicing ==
    When(conf.property # "termination", "remove-infinite-loops") \o
    (IF conf.property = "memsafety" THEN <<"remove-readonly-attr", "dummy-marker">> ELSE <<>>)
    \o PassesAfterSlicing(conf)

AfterSlicingPasses ==
    /\ Step("after slicing", "link rest")
    /\ RunOpt(AfterSlicing)
    /\ UNCHANGED <<options, control, results>>

LinkRest ==
    /\ pc = "link rest"
    /\ LinkUndefined(Functions, "optimize after")
    /\ UNCHANGED <<options, caller, round, files, curfile, results>>

OptimizeAfterSlicing ==
    /\ Step("optimize after", "finish")
    /\ Optimize(After)
    /\ UNCHANGED <<options, control, results>>

\* The end of run; moving the file to where the user wants it is left out.
HandOver ==
    /\ Step("finish", "handed") /\ caller = "run"
    /\ handed' = curfile
    /\ UNCHANGED <<options, control, files, curfile, nonsliced, prepared, gaveUp>>

\* Mutant: the unsliced file is made from the sliced one.
PrepareCurrent ==
    /\ Step("handed", "actions after slicing")
    /\ Len(prepared) < Prepares
    /\ caller' = "prepare"
    /\ UNCHANGED <<options, goal, round, files, curfile, results>>

\* The driver calls prepare_unsliced_file,
PrepareUnsliced ==
    /\ Step("handed", "actions after slicing")
    /\ Len(prepared) < Prepares
    /\ caller' = "prepare"
    /\ curfile' = nonsliced
    /\ UNCHANGED <<options, goal, round, files, results>>

\* Mutant: the unsliced file that is remembered is the one made of it.
RememberUnsliced ==
    /\ Step("finish", "handed") /\ caller = "prepare"
    /\ prepared' = Append(prepared, Current)
    /\ nonsliced' = curfile
    /\ curfile' = handed
    /\ UNCHANGED <<options, control, files, handed, gaveUp>>

\* which restores curfile at its end,
ReturnUnsliced ==
    /\ Step("finish", "handed") /\ caller = "prepare"
    /\ prepared' = Append(prepared, Current)
    /\ curfile' = handed
    /\ UNCHANGED <<options, control, files, nonsliced, handed, gaveUp>>

\* and it may have switched slicing off before.
DriverUnslices ==
    /\ pc = "handed" /\ ~noslice
    /\ noslice' = TRUE
    /\ UNCHANGED <<conf, noOptimize, optlevel, pc, control, files, curfile, results>>

Work ==
    \/ CompileSources \/ ActionsAfterCompilation \/ LinkRound \/ Unroll
    \/ LinkUnconditional \/ PrepareForInstrumentation
    \/ NothingToInstrument \/ Instrument \/ ProvedByInstrumentation
    \/ GiveUpInstrumentation \/ AfterInstrumentation
    \/ OptimizeBeforeSlicing \/ ActionsBeforeSlicing \/ LinkBeforeSlicing
    \/ BeforeSlicingPasses \/ LinkAtexit \/ ExplicitConsdes
    \/ NoSlicing \/ StartSlicing \/ NoCriterion \/ Slice \/ GiveUpSlicing \/ SliceAgain
    \/ ActionsAfterSlicing \/ AfterSlicingPasses \/ LinkRest
    \/ OptimizeAfterSlicing \/ HandOver \/ ReturnUnsliced

Next == Work \/ Raise \/ PrepareUnsliced \/ DriverUnslices

\* The programs that the pipeline runs end: they have timeouts, or the run
\* has.  That one of them fails is not relied upon.
Spec == Init /\ [][Next]_vars /\ WF_vars(Work)

----------------------------------------------------------------------------
(***************************************************************************)
(* Properties.                                                             *)
(***************************************************************************)

Rest  == {"handed", "raised", "proved"}
Steps == {"compile", "after compilation", "link", "unroll", "link files", "prepare",
          "instrument", "after instrumentation", "optimize before",
          "actions before slicing", "link before slicing", "before slicing",
          "link atexit", "consdes", "slicing", "slice", "slice again",
          "actions after slicing", "after slicing", "link rest", "optimize after",
          "finish"}

(***************************************************************************)
(* The variables keep their types, the files that are referred to exist,   *)
(* and no bitcode defines a function that it lacks.                        *)
(***************************************************************************)
TypeOK ==
    /\ conf \in Configuration
    /\ noslice \in BOOLEAN /\ noOptimize \in BOOLEAN /\ optlevel \in SUBSET Levels
    /\ pc \in Rest \cup Steps
    /\ caller \in {"run", "prepare"}
    /\ goal \in [only : SUBSET Functions, then : Steps]
    /\ round \in Nat
    /\ DOMAIN files \subseteq Names
    /\ \A n \in DOMAIN files :
          files[n] \in Bitcode /\ files[n].undef \cap files[n].defs = {}
    /\ {curfile, nonsliced, handed} \subseteq DOMAIN files
    /\ prepared \in Seq(Bitcode) /\ gaveUp \in BOOLEAN

Finished == pc = "finish" /\ caller = "run"
IsSliced(b) == Has(b.steps, "slice")

\* The bitcode that the verifiers get.
Delivered == {files[n] : n \in {handed} \ {NoFile}} \cup {prepared[i] : i \in DOMAIN prepared}

(***************************************************************************)
(* No function is left undefined in delivered bitcode that has a           *)
(* definition among the models, whatever passes and definitions called it. *)
(***************************************************************************)
LinkedAll == \A b \in Delivered : b.undef \cap Available = {}

(***************************************************************************)
(* options.noslice, by which the driver decides whether an error has to be *)
(* replayed and whether there is another file to try, tells whether the    *)
(* bitcode was sliced.  (With repeated slicing it does not: one run of the *)
(* slicer may fail after another one did not.)                             *)
(***************************************************************************)
FlagTellsSlicing ==
    Finished /\ conf.repeatSlicing = 1 => noslice = ~IsSliced(Current)

(***************************************************************************)
(* What is sliced has been instrumented, unless there is nothing to        *)
(* instrument or the user forbade it, and is not instrumented afterwards:  *)
(* without the calls that the slicer keeps it would remove the program.    *)
(* If the inserted calls are marks, they are slicing criteria.  (Checks    *)
(* are linked with definitions, which call the criterion; these are not    *)
(* part of the sources.)                                                   *)
(***************************************************************************)
SlicedForItsChecks ==
    pc # "compile" /\ IsSliced(Current) /\ Instruments =>
        /\ Keeps(Current.steps, "slice", "instrument") /\ Has(Current.steps, "instrument")
        /\ ~Instrumentation(conf).links => Instrumentation(conf).inserts \in Criteria(conf)

(***************************************************************************)
(* For memory safety, lifetime markers are replaced and marked accesses    *)
(* made volatile before anything is optimized, and functions that may fail *)
(* get their side effects back before the optimization after slicing.      *)
(***************************************************************************)
MarkedBeforeOptimized ==
    \A b \in Delivered :
        conf.property = "memsafety" =>
            \A i \in DOMAIN b.steps : b.steps[i] = "optimize" =>
                /\ \E j \in 1..(i - 1) : b.steps[j] = "replace-lifetime-markers"
                /\ \E j \in 1..(i - 1) : b.steps[j] = "mark-volatile"
                /\ (\E j \in 1..i : b.steps[j] = "explicit-consdes") /\ conf.repeatSlicing = 1
                      => \E j \in 1..(i - 1) : b.steps[j] = "remove-readonly-attr"

(***************************************************************************)
(* For termination, infinite loops are removed only once they have been    *)
(* broken by an exit that counts as an error.  (Repeated slicing removes   *)
(* them even without before-O3, which breaks them.)                        *)
(***************************************************************************)
LoopsBroken ==
    \A b \in Delivered :
        conf.property = "termination" /\ conf.repeatSlicing = 1 =>
            \A i \in DOMAIN b.steps : b.steps[i] = "remove-infinite-loops" =>
                \E j \in 1..(i - 1) : b.steps[j] = "break-infinite-loops"

(***************************************************************************)
(* However often the driver asks for the unsliced file, and whatever was   *)
(* made of the others in between, it gets the same bitcode.                *)
(***************************************************************************)
PreparedSame == \A i, j \in DOMAIN prepared : prepared[i] = prepared[j]

(***************************************************************************)
(* Four switches are obeyed wherever they stand on the command line, and   *)
(* whatever fails on the way: with --no-slice nothing that is delivered is *)
(* sliced, with --no-optimize nothing is optimized, with --no-instrument   *)
(* nothing is instrumented, and with --require-slicer the file handed to   *)
(* the verifiers is sliced (unless it is to be sliced no times).  Nothing  *)
(* is said of other options, of which the modes overwrite some.            *)
(***************************************************************************)
SwitchesObeyed ==
    \A b \in Delivered :
        /\ "--no-slice" \in conf.given => ~IsSliced(b)
        /\ "--no-optimize" \in conf.given => ~Has(b.steps, "optimize")
        /\ "--no-instrument" \in conf.given => ~Has(b.steps, "instrument")
        /\ "--require-slicer" \in conf.given /\ conf.repeatSlicing > 0
              => IsSliced(files[handed])

(***************************************************************************)
(* The files of the unsliced program are written beside the bitcode that   *)
(* was handed to the verifier, never over it: witnesses are read from it.  *)
(***************************************************************************)
HandedKept == [][handed # NoFile => files'[handed] = files[handed]]_vars

\* The pipeline keeps the contract of Compiler.
Summary(b) == [bitcode |-> b, sliced |-> IsSliced(b), missing |-> b.undef \cap Available]

Contract == INSTANCE Compiler WITH
    status <- IF pc \in Rest THEN pc ELSE "working",
    forbidden <- noslice /\ conf.repeatSlicing <= 1,
    result <- IF handed = NoFile THEN <<>> ELSE <<Summary(files[handed])>>,
    again <- [i \in DOMAIN prepared |-> Summary(prepared[i])]

KeepsContract == Contract!Spec

(***************************************************************************)
(* Every call of run and of prepare_unsliced_file returns or raises:       *)
(* linking, which goes on as long as definitions bring new undefined       *)
(* functions, comes to an end.                                             *)
(***************************************************************************)
Returns == pc \notin Rest ~> pc \in Rest

(***************************************************************************)
(* If the property is not about error functions, only inserted checks call *)
(* one.                                                                    *)
(***************************************************************************)
OnlyChecksFail ==
    \A b \in Delivered : conf.property \in OtherErrors => b.errors \subseteq {"check"}

=============================================================================
