--------------------------- MODULE PipelineProofs ---------------------------
(***************************************************************************)
(* Theorems about Pipeline: type correctness, that the unsliced files      *)
(* never overwrite the bitcode handed over, and that what is delivered     *)
(* lacks no function that has a model.                                     *)
(***************************************************************************)
EXTENDS Pipeline, SequenceTheorems, TLAPS

(***************************************************************************)
(* How lists of passes are put together.                                   *)
(***************************************************************************)
\* Optimizations, and the pass that gives functions that may fail their side
\* effects, are for steps of their own.
Ordinary == Passes \ {"optimize", "explicit-consdes"}

\* For termination, infinite loops are only removed before slicing.
Simple == IF conf.property = "termination" THEN Ordinary \ {"remove-infinite-loops"} ELSE Ordinary

LEMMA SimpleIsPasses ==
    ASSUME NEW s \in Seq(Simple) PROVE s \in Seq(Ordinary) /\ s \in Seq(Passes)
BY DEF Simple, Ordinary

LEMMA NoPasses == ASSUME NEW S PROVE <<>> \in Seq(S)
OBVIOUS

LEMMA OnePass == ASSUME NEW S, NEW x \in S PROVE <<x>> \in Seq(S)
OBVIOUS

LEMMA TwoPasses == ASSUME NEW S, NEW x \in S, NEW y \in S PROVE <<x, y>> \in Seq(S)
OBVIOUS

LEMMA MorePasses == ASSUME NEW S, NEW s \in Seq(S), NEW t \in Seq(S) PROVE s \o t \in Seq(S)
BY ConcatProperties

LEMMA WhenIsList == ASSUME NEW S, NEW b, NEW x, b => x \in S PROVE When(b, x) \in Seq(S)
<1>1. CASE b
  BY <1>1, OnePass DEF When
<1>2. CASE ~b
  BY <1>2, NoPasses DEF When
<1>3. QED
  BY <1>1, <1>2

LEMMA PreparationIsList == PreparationPasses \in Seq(Simple) /\ PreparationPasses \in Seq(Passes)
<1> DEFINE a == When(conf.property \in OtherErrors, "remove-error-calls")
           b == When(conf.property \in {"memcleanup", "termination"}, "remove-error-calls-use-exit")
           c == When(conf.property # "termination", "remove-infinite-loops")
           d == When(conf.property \in {"undefinedness", "signedoverflow"} /\ ~conf.witnessCheck,
                     "replace-ubsan")
           f == When(~conf.witnessCheck, "prepare-overflows")
           g == <<"mem2reg", "break-crit-edges">>
           test == conf.property = "signedoverflow" /\ ~conf.overflowWithClang
           e == IF test THEN f \o g ELSE <<>>
<1>0. /\ {"remove-error-calls", "remove-error-calls-use-exit", "replace-ubsan",
          "prepare-overflows", "mem2reg", "break-crit-edges"} \subseteq Simple
      /\ conf.property # "termination" => "remove-infinite-loops" \in Simple
  BY DEF Simple, Ordinary, Passes
<1>1. a \in Seq(Simple) /\ b \in Seq(Simple) /\ d \in Seq(Simple) /\ f \in Seq(Simple)
  BY <1>0, WhenIsList
<1>2. g \in Seq(Simple)
  BY <1>0, TwoPasses
<1>3. c \in Seq(Simple)
  BY <1>0, WhenIsList
<1>4. PreparationPasses = a \o b \o c \o d \o e
  BY DEF PreparationPasses
<1> HIDE DEF a, b, c, d, f, g, test
<1>5. f \o g \in Seq(Simple)
  BY <1>1, <1>2, MorePasses
<1>6. e \in Seq(Simple)
  <2>1. CASE test
    BY <1>5, <2>1
  <2>2. CASE ~test
    BY <2>2, NoPasses
  <2>3. QED
    BY <2>1, <2>2
<1> HIDE DEF e
<1>7. a \o b \in Seq(Simple)
  BY <1>1, MorePasses
<1>8. a \o b \o c \in Seq(Simple)
  BY <1>3, <1>7, MorePasses
<1>9. a \o b \o c \o d \in Seq(Simple)
  BY <1>1, <1>8, MorePasses
<1>10. PreparationPasses \in Seq(Simple)
  BY <1>4, <1>6, <1>9, MorePasses
<1>11. QED
  BY <1>10, SimpleIsPasses

LEMMA UnrollIsList == UnrollPasses \in Seq(Simple) /\ UnrollPasses \in Seq(Passes)
<1>1. {"reg2mem", "loop-unroll"} \subseteq Simple
  BY DEF Simple, Ordinary, Passes
<1>2. <<"reg2mem", "loop-unroll">> \in Seq(Simple)
  BY <1>1, TwoPasses
<1>3. UnrollPasses \in Seq(Simple)
  BY <1>2, NoPasses DEF UnrollPasses
<1>4. QED
  BY <1>3, SimpleIsPasses

LEMMA MarkingIsList == MarkingPasses \in Seq(Simple) /\ MarkingPasses \in Seq(Passes)
<1>1. {"replace-lifetime-markers", "mark-volatile"} \subseteq Simple
  BY DEF Simple, Ordinary, Passes
<1>2. <<"replace-lifetime-markers", "mark-volatile">> \in Seq(Simple)
  BY <1>1, TwoPasses
<1>3. MarkingPasses \in Seq(Simple)
  BY <1>2, NoPasses DEF MarkingPasses
<1>4. QED
  BY <1>3, SimpleIsPasses

LEMMA OptimizationsAreLists ==
    /\ Before \in Seq({"optimize"}) /\ After \in Seq({"optimize"})
    /\ Before \in Seq(Passes) /\ After \in Seq(Passes)
<1>1. Before \in Seq({"optimize"}) /\ After \in Seq({"optimize"})
  BY WhenIsList DEF Before, After
<1>2. Before \in Seq(Passes) /\ After \in Seq(Passes)
  <2>1. "optimize" \in Passes
    BY DEF Passes
  <2>2. QED
    BY <2>1, WhenIsList DEF Before, After
<1>3. QED
  BY <1>1, <1>2

LEMMA ForSlicingIsList == ForSlicing \in Seq(Ordinary) /\ ForSlicing \in Seq(Passes)
<1> DEFINE skip == noslice \/ "before-O3" \notin optlevel
           break == <<"reg2mem", "break-infinite-loops">>
           first == IF conf.property = "termination" THEN break ELSE <<>>
           remove == <<"remove-infinite-loops", "mem2reg", "break-crit-loops", "lowerswitch">>
<1>0. {"reg2mem", "break-infinite-loops", "remove-infinite-loops", "mem2reg",
       "break-crit-loops", "lowerswitch"} \subseteq Ordinary
  BY DEF Ordinary, Passes
<1>1. break \in Seq(Ordinary)
  BY <1>0, TwoPasses
<1>2. first \in Seq(Ordinary)
  <2> HIDE DEF break
  <2>1. QED
    BY <1>1, NoPasses
<1>3. remove \in Seq(Ordinary)
  BY <1>0
<1>4. ForSlicing = IF skip THEN <<>> ELSE first \o remove
  BY DEF ForSlicing
<1> HIDE DEF skip, break, first, remove
<1>5. first \o remove \in Seq(Ordinary)
  BY <1>2, <1>3, MorePasses
<1>6. ForSlicing \in Seq(Ordinary)
  <2>1. CASE skip
    BY <1>4, <2>1, NoPasses
  <2>2. CASE ~skip
    BY <1>4, <1>5, <2>2
  <2>3. QED
    BY <2>1, <2>2
<1>7. Ordinary \subseteq Passes
  BY DEF Ordinary
<1>8. QED
  BY <1>6, <1>7

LEMMA BeforeSlicingIsList ==
    PassesBeforeSlicing(conf) \in Seq(Simple) /\ PassesBeforeSlicing(conf) \in Seq(Passes)
<1> DEFINE rest == CASE conf.tool \in KleeLike \cup {"svcomp", "witch-klee", "slowbeast", "cbmc-svcomp"} -> <<>>
                     [] conf.tool \in {"cbmc", "esbmc", "2ls"} -> <<"use-exit">>
                     [] OTHER -> <<"use-exit", "no-change-assumes">>
<1>1. /\ <<"find-exits">> \in Seq(Simple)
      /\ <<"use-exit">> \in Seq(Simple)
      /\ <<"use-exit", "no-change-assumes">> \in Seq(Simple)
  <2>1. "find-exits" \in Simple /\ "use-exit" \in Simple /\ "no-change-assumes" \in Simple
    BY DEF Simple, Ordinary, Passes
  <2>2. QED
    BY <2>1, OnePass, TwoPasses
<1>2. rest \in Seq(Simple)
  BY <1>1, NoPasses DEF KleeLike
<1>3. PassesBeforeSlicing(conf) = IF conf.property # "termination" THEN <<>>
                                  ELSE <<"find-exits">> \o rest
  BY DEF PassesBeforeSlicing
<1> HIDE DEF rest
<1>4. <<"find-exits">> \o rest \in Seq(Simple)
  BY <1>1, <1>2, MorePasses
<1>5. PassesBeforeSlicing(conf) \in Seq(Simple)
  BY <1>3, <1>4, NoPasses
<1>6. QED
  BY <1>5, SimpleIsPasses

LEMMA SlicedUnrollIsList ==
    SlicedUnrollPasses \in Seq(Simple) /\ SlicedUnrollPasses \in Seq(Passes)
<1> DEFINE list == <<"reg2mem", "loop-unroll">> \o <<"replace-verifier-atomic">>
<1>1. list \in Seq(Simple)
  <2>1. "reg2mem" \in Simple /\ "loop-unroll" \in Simple /\ "replace-verifier-atomic" \in Simple
    BY DEF Simple, Ordinary, Passes
  <2>2. <<"reg2mem", "loop-unroll">> \in Seq(Simple) /\ <<"replace-verifier-atomic">> \in Seq(Simple)
    BY <2>1, OnePass, TwoPasses
  <2>3. QED
    BY <2>2, MorePasses
<1>2. SlicedUnrollPasses = IF conf.tool = "nidhugg" THEN list ELSE <<>>
  BY DEF SlicedUnrollPasses, UnrollsAfterSlicing
<1> HIDE DEF list
<1>3. SlicedUnrollPasses \in Seq(Simple)
  BY <1>1, <1>2, NoPasses
<1>4. QED
  BY <1>3, SimpleIsPasses

LEMMA EnvironmentIsList == Environment(conf) \in Seq(Simple)
<1> DEFINE a == When(~conf.explicitSymbolic, "initialize-uninitialized")
           b == When(~conf.svComp, "internalize-globals")
<1>1. "initialize-uninitialized" \in Simple /\ "internalize-globals" \in Simple
  BY DEF Simple, Ordinary, Passes
<1>2. a \in Seq(Simple) /\ b \in Seq(Simple)
  BY <1>1, WhenIsList
<1>3. Environment(conf) = a \o b
  BY DEF Environment
<1> HIDE DEF a, b
<1>4. QED
  BY <1>2, <1>3, MorePasses

LEMMA ForPropertyIsList ==
    ASSUME NEW x \in Simple PROVE ForProperty(conf, x) \in Seq(Simple)
<1> DEFINE a == When(conf.property = "memsafety", "remove-readonly-attr")
           b == When(conf.property = "termination", x)
<1>1. "remove-readonly-attr" \in Simple
  BY DEF Simple, Ordinary, Passes
<1>2. a \in Seq(Simple) /\ b \in Seq(Simple)
  BY <1>1, WhenIsList
<1>3. ForProperty(conf, x) = a \o b
  BY DEF ForProperty
<1> HIDE DEF a, b
<1>4. QED
  BY <1>2, <1>3, MorePasses

LEMMA PassesAfterSlicingIsList == PassesAfterSlicing(conf) \in Seq(Simple)
<1> DEFINE alloc == InstrumentsAlloc(conf)
           env == Environment(conf)
           marks == DeletesMarks(conf)
           readonly == When(conf.property = "memsafety", "remove-readonly-attr")
           loops == ForProperty(conf, "instrument-nontermination")
           witch == ForProperty(conf, "witch-instrument-nontermination")
<1>0. {"instrument-alloc", "delete-calls", "remove-readonly-attr",
       "instrument-nontermination", "witch-instrument-nontermination"} \subseteq Simple
  BY DEF Simple, Ordinary, Passes
<1>1. alloc \in Seq(Simple)
  BY <1>0, WhenIsList DEF InstrumentsAlloc
<1>2. env \in Seq(Simple)
  BY EnvironmentIsList
<1>3. marks \in Seq(Simple)
  BY <1>0, WhenIsList DEF DeletesMarks
<1>4. readonly \in Seq(Simple)
  BY <1>0, WhenIsList
<1>5. loops \in Seq(Simple) /\ witch \in Seq(Simple)
  BY <1>0, ForPropertyIsList
<1>6. PassesAfterSlicing(conf) =
        CASE conf.tool \in KleeLike ->
                IF conf.fullInstrumentation
                THEN alloc \o readonly \o env \o loops
                ELSE <<>>
          [] conf.tool = "witch-klee" -> env \o alloc \o witch
          [] conf.tool = "svcomp" -> marks \o alloc \o loops
          [] OTHER -> marks
  BY DEF PassesAfterSlicing, KleePasses, FullPasses
<1> HIDE DEF alloc, env, marks, readonly, loops, witch
<1>7. alloc \o readonly \o env \o loops \in Seq(Simple)
  <2>1. alloc \o readonly \in Seq(Simple)
    BY <1>1, <1>4, MorePasses
  <2>2. alloc \o readonly \o env \in Seq(Simple)
    BY <1>2, <2>1, MorePasses
  <2>3. QED
    BY <1>5, <2>2, MorePasses
<1>8. env \o alloc \o witch \in Seq(Simple)
  <2>1. env \o alloc \in Seq(Simple)
    BY <1>1, <1>2, MorePasses
  <2>2. QED
    BY <1>5, <2>1, MorePasses
<1>9. marks \o alloc \o loops \in Seq(Simple)
  <2>1. marks \o alloc \in Seq(Simple)
    BY <1>1, <1>3, MorePasses
  <2>2. QED
    BY <1>5, <2>1, MorePasses
<1>10. QED
  BY <1>3, <1>6, <1>7, <1>8, <1>9, NoPasses DEF KleeLike

LEMMA AfterSlicingIsList == AfterSlicing \in Seq(Simple) /\ AfterSlicing \in Seq(Passes)
<1> DEFINE a == When(conf.property # "termination", "remove-infinite-loops")
           b == <<"remove-readonly-attr", "dummy-marker">>
           c == IF conf.property = "memsafety" THEN b ELSE <<>>
           d == PassesAfterSlicing(conf)
<1>0. /\ {"remove-readonly-attr", "dummy-marker"} \subseteq Simple
      /\ conf.property # "termination" => "remove-infinite-loops" \in Simple
  BY DEF Simple, Ordinary, Passes
<1>1. a \in Seq(Simple)
  BY <1>0, WhenIsList
<1>2. b \in Seq(Simple)
  BY <1>0, TwoPasses
<1>3. c \in Seq(Simple)
  <2> HIDE DEF b
  <2>1. QED
    BY <1>2, NoPasses
<1>4. d \in Seq(Simple)
  BY PassesAfterSlicingIsList
<1>5. AfterSlicing = a \o c \o d
  BY DEF AfterSlicing
<1> HIDE DEF a, b, c, d
<1>6. a \o c \in Seq(Simple)
  BY <1>1, <1>3, MorePasses
<1>7. AfterSlicing \in Seq(Simple)
  BY <1>4, <1>5, <1>6, MorePasses
<1>8. QED
  BY <1>7, SimpleIsPasses

----------------------------------------------------------------------------
(***************************************************************************)
(* Bitcode stays bitcode.                                                  *)
(***************************************************************************)

\* Bitcode that lacks nothing that it defines.
Linkable == {b \in Bitcode : b.undef \cap b.defs = {}}

LEMMA PassesAreDone ==
    ASSUME NEW s \in Seq(Done), NEW t \in Seq(Passes) PROVE s \o t \in Seq(Done)
<1>1. t \in Seq(Done)
  BY DEF Done
<1>2. QED
  BY <1>1, ConcatProperties

LEMMA TransformedType ==
    ASSUME NEW b \in Linkable, NEW passes \in Seq(Passes)
    PROVE  Transformed(b, passes) \in Linkable
<1> DEFINE t == Transformed(b, passes)
<1>1. t.steps \in Seq(Done)
  BY PassesAreDone DEF Transformed, Linkable, Bitcode
<1>2. Inserted(b, passes) \subseteq Functions
  BY DEF Inserted, Functions
<1>3. t.undef \subseteq Functions /\ t.undef \cap t.defs = {}
  BY <1>2 DEF Transformed, Linkable, Bitcode
<1>4. t.defs \subseteq Lib
  BY DEF Transformed, Linkable, Bitcode
<1>5. ErrorsAfter(b, passes) \subseteq Origins
  BY DEF ErrorsAfter, Linkable, Bitcode, Origins
<1>6. QED
  BY <1>1, <1>3, <1>4, <1>5 DEF Transformed, Linkable, Bitcode

LEMMA WithDefinitionsType ==
    ASSUME NEW b \in Linkable, NEW funs \in SUBSET Lib
    PROVE  WithDefinitions(b, funs) \in Linkable
<1> DEFINE w == WithDefinitions(b, funs)
<1>1. w.steps \in Seq(Done)
  BY DEF WithDefinitions, Linkable, Bitcode, Done
<1>2. UNION {Calls[f] : f \in funs} \subseteq Functions
  BY LibAssumption
<1>3. w.undef \subseteq Functions /\ w.undef \cap w.defs = {}
  BY <1>2 DEF WithDefinitions, Linkable, Bitcode
<1>4. w.defs \subseteq Lib /\ w.errors \subseteq Origins
  BY DEF WithDefinitions, Linkable, Bitcode, Origins
<1>5. QED
  BY <1>1, <1>3, <1>4 DEF WithDefinitions, Linkable, Bitcode

\* What the instrumentation inserts and does not link has no definition.
LEMMA InstrumentationType ==
    {Instrumentation(conf).inserts} \cap Functions \subseteq {PointerMark, OverflowMark}
<1>1. BaseInstrumentation(conf) \in
        {NoInstrumentation, Checks("overflow checks"), Checks("loop checks"),
         Checks("memory checks"), Marks(PointerMark)}
  BY DEF BaseInstrumentation
<1>2. Instrumentation(conf) \in
        {NoInstrumentation, Checks("overflow checks"), Checks("loop checks"),
         Checks("memory checks"), Marks(PointerMark), Marks(OverflowMark)}
  BY <1>1 DEF Instrumentation, MarksOverflows
<1> DEFINE known == {"nothing", "overflow checks", "loop checks", "memory checks",
                     PointerMark, OverflowMark}
<1>3. /\ NoInstrumentation.inserts \in known /\ Marks(PointerMark).inserts \in known
      /\ Marks(OverflowMark).inserts \in known
  BY DEF NoInstrumentation, Marks
<1>4. /\ Checks("overflow checks").inserts \in known /\ Checks("loop checks").inserts \in known
      /\ Checks("memory checks").inserts \in known
  BY DEF Checks
<1>5. Instrumentation(conf).inserts \in known
  <2> HIDE DEF known
  <2>1. QED
    BY <1>2, <1>3, <1>4
<1>6. {"nothing", "overflow checks", "loop checks", "memory checks"} \cap Functions = {}
  BY DEF Functions, PointerMark, OverflowMark
<1>7. QED
  BY <1>5, <1>6

LEMMA WithChecksType ==
    ASSUME NEW b \in Linkable
    PROVE  WithChecks(b, Instrumentation(conf)) \in Linkable
<1> DEFINE i == Instrumentation(conf)
           w == WithChecks(b, i)
<1>1. w.steps \in Seq(Done)
  BY DEF WithChecks, Linkable, Bitcode, Done
<1>2. ({i.inserts} \cap Functions) \cap Lib = {}
  BY InstrumentationType, LibAssumption
<1>3. w.undef \subseteq Functions /\ w.undef \cap w.defs = {}
  BY <1>2 DEF WithChecks, Linkable, Bitcode
<1>4. w.errors \subseteq Origins
  BY DEF WithChecks, Linkable, Bitcode, Origins
<1>5. QED
  BY <1>1, <1>3, <1>4 DEF WithChecks, Linkable, Bitcode

----------------------------------------------------------------------------
(***************************************************************************)
(* Type correctness.                                                       *)
(***************************************************************************)

\* What a step that writes files or none leaves.
FilesStep ==
    /\ DOMAIN files' \subseteq Names
    /\ \A n \in DOMAIN files' : files'[n] \in Linkable
    /\ curfile' \in DOMAIN files'
    /\ DOMAIN files \subseteq DOMAIN files'

LEMMA NamesType ==
    ASSUME NEW n \in Names
    PROVE  /\ Prepared(n) \in Names /\ Instrumented(n) \in Names /\ Linked(n) \in Names
           /\ Optimized(n) \in Names /\ Sliced(n) \in Names
<1>1. Stem(n) \in Names /\ Sliced(n) \in Names
  BY DEF Names, Stem, Sliced
<1>2. ASSUME NEW m \in Names
      PROVE  /\ [m EXCEPT !.pr = @ + 1] \in Names /\ [m EXCEPT !.inst = @ + 1] \in Names
             /\ [m EXCEPT !.ln = @ + 1] \in Names /\ [m EXCEPT !.opt = @ + 1] \in Names
  BY DEF Names
<1>3. QED
  BY <1>1, <1>2 DEF Prepared, Instrumented, Linked, Optimized

LEMMA CurrentType == TypeOK => curfile \in Names /\ Current \in Linkable
BY DEF TypeOK, Linkable, Current

LEMMA SameFiles == TypeOK /\ UNCHANGED <<files, curfile>> => FilesStep
BY DEF TypeOK, FilesStep, Linkable

LEMMA WriteType ==
    ASSUME TypeOK, NEW n \in Names, NEW b \in Linkable, Write(n, b) PROVE FilesStep
BY DEF TypeOK, Write, FilesStep, Linkable

LEMMA RunOptType ==
    ASSUME TypeOK, NEW passes \in Seq(Passes), RunOpt(passes) PROVE FilesStep
<1>1. CASE passes = <<>>
  BY <1>1, SameFiles DEF RunOpt
<1>2. CASE passes # <<>>
  <2>1. Write(Prepared(curfile), Transformed(Current, passes))
    BY <1>2 DEF RunOpt
  <2>2. QED
    BY <2>1, CurrentType, NamesType, TransformedType, WriteType
<1>3. QED
  BY <1>1, <1>2

LEMMA OptimizedType ==
    ASSUME NEW b \in Linkable, NEW passes \in Seq(Passes)
    PROVE  [b EXCEPT !.steps = @ \o passes] \in Linkable
BY PassesAreDone DEF Linkable, Bitcode

LEMMA SlicedType ==
    ASSUME NEW b \in Linkable
    PROVE  [b EXCEPT !.steps = Append(@, "slice")] \in Linkable
<1>1. "slice" \in Done
  BY DEF Done
<1>2. Append(b.steps, "slice") \in Seq(Done)
  BY <1>1, AppendProperties DEF Linkable, Bitcode
<1>3. QED
  BY <1>2 DEF Linkable, Bitcode

LEMMA OptimizeType ==
    ASSUME TypeOK, NEW passes \in Seq(Passes), Optimize(passes) PROVE FilesStep
<1>1. CASE UNCHANGED <<files, curfile>>
  BY <1>1, SameFiles
<1>2. CASE Write(Optimized(curfile), [Current EXCEPT !.steps = @ \o passes])
  BY <1>2, CurrentType, NamesType, OptimizedType, WriteType
<1>3. QED
  BY <1>1, <1>2 DEF Optimize, OptimizeWith

LEMMA DefinitionsType ==
    ASSUME TypeOK, NEW funs \in SUBSET Lib,
           Write(Linked(curfile), WithDefinitions(Current, funs))
    PROVE  FilesStep
BY CurrentType, NamesType, WithDefinitionsType, WriteType

(***************************************************************************)
(* The parts of TypeOK after a step.                                       *)
(***************************************************************************)
LEMMA TypeAgain ==
    ASSUME TypeOK, FilesStep, UNCHANGED <<conf, nonsliced, handed, prepared, gaveUp>>,
           noslice' \in BOOLEAN, noOptimize' \in BOOLEAN, optlevel' \in SUBSET Levels,
           pc' \in Rest \cup Steps, caller' \in {"run", "prepare"},
           goal' \in [only : SUBSET Functions, then : Steps], round' \in Nat
    PROVE  TypeOK'
BY DEF TypeOK, FilesStep, Linkable

LEMMA InitType == Init => TypeOK
<1> SUFFICES ASSUME Init PROVE TypeOK
  OBVIOUS
<1>1. conf \in Configuration /\ noslice \in BOOLEAN /\ noOptimize \in BOOLEAN
      /\ optlevel \in SUBSET Levels
  BY ConfigurationsAssumption DEF Init, Configuration
<1>2. NoFile \in Names
  BY DEF NoFile, Names
<1>3. [steps |-> <<>>, undef |-> {}, defs |-> {}, errors |-> {}] \in Linkable
  BY DEF Linkable, Bitcode
<1>4. DOMAIN files = {NoFile} /\ files[NoFile] \in Linkable
  BY <1>3 DEF Init
<1>5. prepared \in Seq(Bitcode)
  BY DEF Init
<1>6. goal \in [only : SUBSET Functions, then : Steps]
  BY DEF Init, Steps
<1>7. QED
  BY <1>1, <1>2, <1>4, <1>5, <1>6 DEF Init, TypeOK, Linkable, Steps, Rest

(***************************************************************************)
(* Every step keeps the types.                                             *)
(***************************************************************************)
LEMMA StepType == TypeOK /\ [Next]_vars => TypeOK'
<1> SUFFICES ASSUME TypeOK, [Next]_vars PROVE TypeOK'
  OBVIOUS
<1> USE DEF Steps, Rest, Step, options, control, results
<1>0. /\ noslice \in BOOLEAN /\ noOptimize \in BOOLEAN /\ optlevel \in SUBSET Levels
      /\ pc \in Rest \cup Steps /\ caller \in {"run", "prepare"}
      /\ goal \in [only : SUBSET Functions, then : Steps] /\ round \in Nat
  BY DEF TypeOK
<1>1. CASE Raise
  BY <1>0, <1>1, SameFiles, TypeAgain DEF Raise
<1>2. CASE CompileSources
  <2>1. PICK program \in Programs :
          Write(Code, [steps |-> Preprocessing \o <<"compile">> \o When(Sanitizes(conf), "sanitize"),
                       undef |-> program, defs |-> {}, errors |-> {"program"}])
    BY <1>2 DEF CompileSources
  <2> DEFINE s == Preprocessing \o <<"compile">> \o When(Sanitizes(conf), "sanitize")
  <2>2. s \in Seq(Done)
    <3> DEFINE a == Preprocessing
               b == <<"compile">>
               c == When(Sanitizes(conf), "sanitize")
    <3>1. a \in Seq(Done) /\ c \in Seq(Done)
      <4>1. "transform" \in Done /\ "sanitize" \in Done
        BY DEF Done
      <4>2. QED
        BY <4>1 DEF When, Preprocessing
    <3>2. b \in Seq(Done)
      BY DEF Done
    <3> HIDE DEF a, b, c
    <3>3. a \o b \in Seq(Done)
      BY <3>1, <3>2, ConcatProperties
    <3>4. a \o b \o c \in Seq(Done)
      BY <3>1, <3>3, ConcatProperties
    <3>5. QED
      BY <3>4 DEF a, b, c
  <2> HIDE DEF s
  <2>3. [steps |-> s, undef |-> program, defs |-> {}, errors |-> {"program"}] \in Linkable
    BY <2>2, LibAssumption DEF Linkable, Bitcode, Origins
  <2>4. Code \in Names
    BY DEF Code, Names
  <2>5. FilesStep
    BY <2>1, <2>3, <2>4, WriteType DEF s
  <2>6. QED
    BY <1>0, <1>2, <2>5, TypeAgain DEF CompileSources
<1>3. CASE LinkRound
  <2> DEFINE funs == Current.undef \cap goal.only \cap Available
  <2>1. funs \in SUBSET Lib
    BY DEF Available
  <2>2. CASE funs = {}
    <3>1. pc' = goal.then /\ UNCHANGED <<goal, files, curfile>>
      BY <1>3, <2>2 DEF LinkRound
    <3>2. QED
      BY <1>0, <1>3, <3>1, SameFiles, TypeAgain DEF LinkRound
  <2>3. CASE funs # {}
    <3>1. /\ Write(Linked(curfile), WithDefinitions(Current, funs))
          /\ goal' = [goal EXCEPT !.only = Functions]
          /\ UNCHANGED pc
      BY <1>3, <2>3 DEF LinkRound
    <3> HIDE DEF funs
    <3>2. FilesStep
      BY <2>1, <3>1, DefinitionsType
    <3>3. goal' \in [only : SUBSET Functions, then : Steps]
      BY <1>0, <3>1
    <3>4. QED
      BY <1>0, <1>3, <3>1, <3>2, <3>3, TypeAgain DEF LinkRound
  <2>4. QED
    BY <2>2, <2>3
<1>4. CASE LinkUnconditional
  <2> DEFINE funs == conf.linkFiles \cap Available
  <2>1. funs \in SUBSET Lib
    BY DEF Available
  <2>2. \/ UNCHANGED <<files, curfile>>
        \/ Write(Linked(curfile), WithDefinitions(Current, funs))
    BY <1>4 DEF LinkUnconditional
  <2>3. pc' \in {"prepare", "raised"}
    BY <1>4 DEF LinkUnconditional
  <2> HIDE DEF funs
  <2>4. FilesStep
    BY <2>1, <2>2, SameFiles, DefinitionsType
  <2>5. QED
    BY <1>0, <1>4, <2>3, <2>4, TypeAgain DEF LinkUnconditional
<1>5. CASE Instrument
  <2>1. Write(Instrumented(curfile), WithChecks(Current, Instrumentation(conf)))
    BY <1>5 DEF Instrument
  <2>2. FilesStep
    BY <2>1, CurrentType, NamesType, WithChecksType, WriteType
  <2>3. QED
    BY <1>0, <1>5, <2>2, TypeAgain DEF Instrument
<1>6. CASE GiveUpInstrumentation
  <2>1. FilesStep
    BY <1>6, SameFiles DEF GiveUpInstrumentation
  <2>2. QED
    BY <1>6, <2>1 DEF GiveUpInstrumentation, TypeOK, FilesStep, Linkable
<1>7. CASE OptimizeBeforeSlicing
  <2>1. Before \o ForSlicing \in Seq(Passes)
    BY OptimizationsAreLists, ForSlicingIsList, MorePasses
  <2>2. FilesStep
    BY <1>7, <2>1, OptimizeType DEF OptimizeBeforeSlicing
  <2>3. QED
    BY <1>0, <1>7, <2>2, TypeAgain DEF OptimizeBeforeSlicing
<1>8. CASE BeforeSlicingPasses
  <2>1. FilesStep
    BY <1>8, BeforeSlicingIsList, RunOptType DEF BeforeSlicingPasses
  <2>2. nonsliced' \in DOMAIN files'
    BY <1>8, <2>1 DEF BeforeSlicingPasses, TypeOK, FilesStep
  <2>3. QED
    BY <1>8, <2>1, <2>2 DEF BeforeSlicingPasses, TypeOK, FilesStep, Linkable
<1>9. CASE ExplicitConsdes
  <2>1. <<"explicit-consdes">> \in Seq(Passes)
    BY OnePass DEF Passes
  <2>2. FilesStep
    BY <1>9, <2>1, RunOptType DEF ExplicitConsdes
  <2>3. QED
    BY <1>0, <1>9, <2>2, TypeAgain DEF ExplicitConsdes
<1>10. CASE Slice
  <2>1. [Current EXCEPT !.steps = Append(@, "slice")] \in Linkable
    BY CurrentType, SlicedType
  <2>2. FilesStep
    BY <1>10, <2>1, CurrentType, NamesType, WriteType DEF Slice
  <2>3. AfterRound \in Steps
    BY DEF AfterRound
  <2>4. QED
    <3>1. /\ UNCHANGED <<conf, nonsliced, handed, prepared, gaveUp>>
          /\ UNCHANGED <<noslice, noOptimize, optlevel, caller, goal, round>>
          /\ pc' = AfterRound
      BY <1>10 DEF Slice
    <3>2. /\ noslice' \in BOOLEAN /\ noOptimize' \in BOOLEAN /\ optlevel' \in SUBSET Levels
          /\ caller' \in {"run", "prepare"}
          /\ goal' \in [only : SUBSET Functions, then : Steps] /\ round' \in Nat
      BY <1>0, <3>1
    <3>3. pc' \in Rest \cup Steps
      BY <2>3, <3>1
    <3>4. QED
      BY <2>2, <3>1, <3>2, <3>3, TypeAgain
<1>11. CASE GiveUpSlicing
  <2>1. FilesStep
    BY <1>11, SameFiles DEF GiveUpSlicing
  <2>2. AfterRound \in Steps
    BY DEF AfterRound
  <2>3. /\ UNCHANGED <<conf, nonsliced, handed, prepared, gaveUp>>
        /\ UNCHANGED <<noOptimize, optlevel, caller, goal, round>>
        /\ noslice' = TRUE /\ pc' = AfterRound
    BY <1>11 DEF GiveUpSlicing
  <2>4. /\ noslice' \in BOOLEAN /\ noOptimize' \in BOOLEAN /\ optlevel' \in SUBSET Levels
        /\ caller' \in {"run", "prepare"}
        /\ goal' \in [only : SUBSET Functions, then : Steps] /\ round' \in Nat
    BY <1>0, <2>3
  <2>5. pc' \in Rest \cup Steps
    BY <2>2, <2>3
  <2>6. QED
    BY <2>1, <2>3, <2>4, <2>5, TypeAgain
<1>12. CASE SliceAgain
  <2>1. <<"remove-infinite-loops">> \in Seq(Passes)
    BY OnePass DEF Passes
  <2>2. After \o <<"remove-infinite-loops">> \in Seq(Passes)
    BY <2>1, OptimizationsAreLists, MorePasses
  <2>3. FilesStep
    BY <1>12, <2>2, OptimizeType DEF SliceAgain
  <2>4. QED
    <3>1. /\ UNCHANGED <<conf, nonsliced, handed, prepared, gaveUp>>
          /\ UNCHANGED <<noslice, noOptimize, optlevel, caller, goal>>
          /\ pc' \in Steps /\ round' = round + 1
      BY <1>12 DEF SliceAgain
    <3>2. round' \in Nat
      <4>1. round \in Nat /\ round' = round + 1
        BY <1>0, <3>1
      <4>2. QED
        BY <4>1
    <3>3. QED
      BY <1>0, <2>3, <3>1, <3>2, TypeAgain
<1>13. CASE OptimizeAfterSlicing
  <2>1. FilesStep
    BY <1>13, OptimizationsAreLists, OptimizeType DEF OptimizeAfterSlicing
  <2>2. QED
    BY <1>0, <1>13, <2>1, TypeAgain DEF OptimizeAfterSlicing
<1>14. CASE HandOver
  BY <1>14 DEF HandOver, TypeOK
<1>15. CASE PrepareUnsliced
  BY <1>15 DEF PrepareUnsliced, TypeOK
<1>16. CASE ReturnUnsliced
  <2>1. Current \in Bitcode
    BY CurrentType DEF Linkable
  <2>2. prepared' = Append(prepared, Current) /\ prepared \in Seq(Bitcode)
    BY <1>16 DEF ReturnUnsliced, TypeOK
  <2>3. prepared' \in Seq(Bitcode)
    BY <2>1, <2>2, AppendProperties
  <2>4. QED
    BY <1>16, <2>3 DEF ReturnUnsliced, TypeOK
<1>17. CASE DriverUnslices
  BY <1>17 DEF DriverUnslices, TypeOK
<1>18. CASE UNCHANGED vars
  <2>1. /\ UNCHANGED <<conf, nonsliced, handed, prepared, gaveUp, files, curfile>>
        /\ UNCHANGED <<noslice, noOptimize, optlevel, pc, caller, goal, round>>
    BY <1>18 DEF vars, results
  <2>2. FilesStep
    BY <2>1, SameFiles
  <2>3. noslice' \in BOOLEAN /\ noOptimize' \in BOOLEAN /\ optlevel' \in SUBSET Levels
    BY <1>0, <2>1
  <2>4. pc' \in Rest \cup Steps /\ caller' \in {"run", "prepare"}
    BY <1>0, <2>1
  <2>5. goal' \in [only : SUBSET Functions, then : Steps] /\ round' \in Nat
    BY <1>0, <2>1
  <2>6. QED
    BY <2>1, <2>2, <2>3, <2>4, <2>5, TypeAgain
<1>19. CASE Unroll
  <2>1. FilesStep
    BY <1>19, UnrollIsList, RunOptType DEF Unroll
  <2>2. QED
    BY <1>0, <1>19, <2>1, TypeAgain DEF Unroll
<1>20. CASE PrepareForInstrumentation
  <2>1. FilesStep
    BY <1>20, PreparationIsList, RunOptType DEF PrepareForInstrumentation
  <2>2. QED
    BY <1>0, <1>20, <2>1, TypeAgain DEF PrepareForInstrumentation
<1>21. CASE AfterInstrumentation
  <2>1. FilesStep
    BY <1>21, MarkingIsList, RunOptType DEF AfterInstrumentation
  <2>2. QED
    BY <1>0, <1>21, <2>1, TypeAgain DEF AfterInstrumentation
<1>22. CASE ActionsAfterSlicing
  <2>1. FilesStep
    BY <1>22, SlicedUnrollIsList, RunOptType DEF ActionsAfterSlicing
  <2>2. QED
    BY <1>0, <1>22, <2>1, TypeAgain DEF ActionsAfterSlicing
<1>23. CASE AfterSlicingPasses
  <2>1. FilesStep
    BY <1>23, AfterSlicingIsList, RunOptType DEF AfterSlicingPasses
  <2>2. QED
    BY <1>0, <1>23, <2>1, TypeAgain DEF AfterSlicingPasses
<1>24. CASE ActionsAfterCompilation
  BY <1>0, <1>24, SameFiles, TypeAgain DEF ActionsAfterCompilation, LinkUndefined
<1>25. CASE NothingToInstrument
  BY <1>0, <1>25, SameFiles, TypeAgain DEF NothingToInstrument
<1>26. CASE ProvedByInstrumentation
  BY <1>0, <1>26, SameFiles, TypeAgain DEF ProvedByInstrumentation
<1>27. CASE ActionsBeforeSlicing
  BY <1>0, <1>27, SameFiles, TypeAgain DEF ActionsBeforeSlicing, LinkUndefined, AtomicSections, Functions
<1>28. CASE LinkBeforeSlicing
  BY <1>0, <1>28, SameFiles, TypeAgain DEF LinkBeforeSlicing, LinkUndefined, BeforeSlicing, Functions
<1>29. CASE LinkAtexit
  BY <1>0, <1>29, SameFiles, TypeAgain DEF LinkAtexit, LinkUndefined, Functions
<1>30. CASE NoSlicing
  BY <1>0, <1>30, SameFiles, TypeAgain DEF NoSlicing
<1>31. CASE StartSlicing
  BY <1>0, <1>31, SameFiles, TypeAgain DEF StartSlicing
<1>32. CASE NoCriterion
  BY <1>0, <1>32, SameFiles, TypeAgain DEF NoCriterion
<1>33. CASE LinkRest
  BY <1>0, <1>33, SameFiles, TypeAgain DEF LinkRest, LinkUndefined
<1>34. QED
  BY <1>1, <1>2, <1>3, <1>4, <1>5, <1>6, <1>7, <1>8, <1>9, <1>10, <1>11, <1>12, <1>13, <1>14, <1>15, <1>16, <1>17, <1>18, <1>19, <1>20, <1>21, <1>22, <1>23, <1>24, <1>25, <1>26, <1>27, <1>28, <1>29, <1>30, <1>31, <1>32, <1>33 DEF Next, Work

(***************************************************************************)
(* The variables keep their types and no bitcode lacks what it defines.    *)
(***************************************************************************)
THEOREM TypeCorrect == Spec => []TypeOK
<1>1. QED
  BY InitType, StepType, PTL DEF Spec

----------------------------------------------------------------------------
(***************************************************************************)
(* Where the run is while files are being linked, the names written from   *)
(* there on, and what has been linked.                                     *)
(***************************************************************************)

Place == IF pc = "link" THEN goal.then ELSE pc

AfterLinking == {"unroll", "link before slicing", "before slicing", "consdes", "optimize after"}

\* The steps of prepare_unsliced_file,
Again == {"actions after slicing", "after slicing", "link rest", "optimize after", "finish"}

AtTheEnd == {"link rest", "optimize after", "finish"}

\* and those of run that lead to them.
ToSlicing == {"slicing", "slice", "slice again"}

\* How many suffixes .pr a list of passes adds, and which the lists after
\* slicing add.
Weight(passes) == IF passes = <<>> THEN 0 ELSE 1

First  == Weight(SlicedUnrollPasses)
Second == Weight(AfterSlicing)

Linking ==
    /\ pc = "link" => goal.then \in AfterLinking
    /\ pc = "link" /\ goal.then = "optimize after" => goal.only = Functions
    /\ caller = "prepare" => Place \in Again \cup {"handed", "raised"}
    /\ caller = "run" /\ pc \notin Rest => handed = NoFile

\* explicit-consdes, which run does and prepare_unsliced_file does not, makes
\* the names of the former longer.
Longer ==
    /\ caller = "run" /\ Place \in {"link atexit", "consdes"} => curfile.pr >= nonsliced.pr
    /\ caller = "run" /\ Place \in ToSlicing \cup {"actions after slicing"} =>
          curfile.pr > nonsliced.pr
    /\ caller = "run" /\ Place = "after slicing" => curfile.pr > nonsliced.pr + First
    /\ caller = "run" /\ Place \in AtTheEnd => curfile.pr > nonsliced.pr + First + Second
    /\ handed # NoFile => handed.pr > nonsliced.pr + First + Second

\* So they are never the same.
Shorter ==
    caller = "prepare" =>
        /\ Place = "actions after slicing" => curfile.pr <= nonsliced.pr
        /\ Place = "after slicing" => curfile.pr <= nonsliced.pr + First
        /\ Place \in AtTheEnd => curfile.pr <= nonsliced.pr + First + Second

PlaceInv == TypeOK /\ Linking /\ Longer /\ Shorter

LEMMA InitPlace == Init => PlaceInv
BY InitType DEF Init, PlaceInv, Linking, Longer, Shorter, Place, Again, AtTheEnd,
    ToSlicing, AfterLinking, Rest

\* What a step does to the number of suffixes .pr.
LEMMA SuffixesOfWrites ==
    ASSUME TypeOK
    PROVE  /\ Prepared(curfile).pr = curfile.pr + 1 /\ Instrumented(curfile).pr = curfile.pr
           /\ Linked(curfile).pr = curfile.pr /\ Optimized(curfile).pr = curfile.pr
           /\ Sliced(curfile).pr = curfile.pr
           /\ curfile.pr \in Nat /\ nonsliced.pr \in Nat /\ handed.pr \in Nat
<1>1. curfile \in Names /\ nonsliced \in Names /\ handed \in Names
  BY DEF TypeOK
<1>2. Stem(curfile) \in Names /\ Stem(curfile).pr = curfile.pr
  BY <1>1 DEF Names, Stem
<1>3. QED
  BY <1>1, <1>2 DEF Names, Prepared, Instrumented, Linked, Optimized, Sliced

LEMMA SuffixesOfRunOpt ==
    ASSUME TypeOK, NEW passes, RunOpt(passes)
    PROVE  curfile'.pr = curfile.pr + Weight(passes)
BY SuffixesOfWrites DEF RunOpt, Write, Weight

LEMMA SuffixesOfOptimize ==
    ASSUME TypeOK, NEW passes, Optimize(passes)
    PROVE  curfile'.pr = curfile.pr
BY SuffixesOfWrites DEF Optimize, OptimizeWith, Write

\* The lists of passes do not change.
LEMMA SameLists == conf' = conf => First' = First /\ Second' = Second
<1> SUFFICES ASSUME conf' = conf PROVE First' = First /\ Second' = Second
  OBVIOUS
<1>1. AfterSlicing' = AfterSlicing /\ SlicedUnrollPasses' = SlicedUnrollPasses
  BY DEF AfterSlicing, SlicedUnrollPasses
<1>2. QED
  BY <1>1 DEF First, Second, Weight

LEMMA ListWeights == First \in {0, 1} /\ Second \in {0, 1}
BY DEF First, Second, Weight

\* Both sides of a comparison grow by the same.
LEMMA Arithmetic ==
    ASSUME NEW c \in Nat, NEW n \in Nat, NEW f \in Nat, NEW s \in Nat
    PROVE  /\ c <= c /\ c + f >= c
           /\ c > n => c + f > n + f
           /\ c <= n => c + f <= n + f
           /\ c > n + f => c + s > n + f + s
           /\ c <= n + f => c + s <= n + f + s
           /\ c <= n => c <= n + f + s
           /\ c <= n + f => c <= n + f + s
OBVIOUS

(***************************************************************************)
(* Every step keeps PlaceInv.                                              *)
(***************************************************************************)
LEMMA StepPlace == PlaceInv /\ [Next]_vars => PlaceInv'
<1> SUFFICES ASSUME PlaceInv, [Next]_vars PROVE PlaceInv'
  OBVIOUS
<1>0. TypeOK'
  BY StepType DEF PlaceInv
<1>N. /\ curfile.pr \in Nat /\ nonsliced.pr \in Nat /\ handed.pr \in Nat
      /\ First \in Nat /\ Second \in Nat
  BY SuffixesOfWrites, ListWeights DEF PlaceInv
<1>W. /\ Linked(curfile).pr = curfile.pr /\ Instrumented(curfile).pr = curfile.pr
      /\ Sliced(curfile).pr = curfile.pr
  BY SuffixesOfWrites DEF PlaceInv
<1> USE <1>0, <1>N, <1>W, SameLists DEF PlaceInv
<1> USE DEF Linking, Longer, Shorter, Place, Again, AtTheEnd, ToSlicing, AfterLinking, Rest
<1> USE DEF Step, options, control, results
<1>1. CASE Raise
  BY <1>1 DEF Raise
<1>2. CASE CompileSources
  BY <1>2 DEF CompileSources
<1>3. CASE ActionsAfterCompilation
  BY <1>3 DEF ActionsAfterCompilation, LinkUndefined
<1>4. CASE LinkRound
  <2>1. curfile'.pr = curfile.pr
    BY <1>4 DEF LinkRound, Write
  <2>2. \/ pc' = goal.then /\ goal' = goal
        \/ pc' = "link" /\ goal' = [goal EXCEPT !.only = Functions]
    BY <1>4 DEF LinkRound
  <2>3. goal \in [only : SUBSET Functions, then : Steps]
    BY DEF TypeOK
  <2>4. Place' = Place /\ (pc' = "link" => goal'.then = goal.then)
    BY <1>4, <2>2, <2>3 DEF LinkRound
  <2>5. Linking'
    BY <1>4, <2>2, <2>3 DEF LinkRound
  <2>6. Longer' /\ Shorter'
    BY <1>4, <2>1, <2>4 DEF LinkRound
  <2>7. QED
    BY <2>5, <2>6
<1>5. CASE ActionsAfterSlicing
  <2>1. curfile'.pr = curfile.pr + First
    BY <1>5, SuffixesOfRunOpt DEF ActionsAfterSlicing, First
  <2>2. /\ pc = "actions after slicing" /\ pc' = "after slicing"
        /\ UNCHANGED <<conf, caller, goal, nonsliced, handed>>
    BY <1>5 DEF ActionsAfterSlicing
  <2>3. /\ curfile.pr > nonsliced.pr => curfile'.pr > nonsliced'.pr + First'
        /\ curfile.pr <= nonsliced.pr => curfile'.pr <= nonsliced'.pr + First'
    BY <2>1, <2>2, Arithmetic
  <2>4. Linking'
    BY <2>2
  <2>5. Longer'
    BY <2>2, <2>3
  <2>6. Shorter'
    BY <2>2, <2>3
  <2>7. QED
    BY <2>4, <2>5, <2>6
<1>6. CASE AfterSlicingPasses
  <2>1. curfile'.pr = curfile.pr + Second
    BY <1>6, SuffixesOfRunOpt DEF AfterSlicingPasses, Second
  <2>2. /\ pc = "after slicing" /\ pc' = "link rest"
        /\ UNCHANGED <<conf, caller, goal, nonsliced, handed>>
    BY <1>6 DEF AfterSlicingPasses
  <2>3. /\ curfile.pr > nonsliced.pr + First =>
              curfile'.pr > nonsliced'.pr + First' + Second'
        /\ curfile.pr <= nonsliced.pr + First =>
              curfile'.pr <= nonsliced'.pr + First' + Second'
    <3>1. First' = First /\ Second' = Second /\ nonsliced'.pr = nonsliced.pr
      BY <2>2
    <3>2. curfile'.pr = curfile.pr + Second
      BY <2>1
    <3> HIDE <1>0, <1>W, SameLists
    <3> HIDE DEF Linking, Longer, Shorter, Place, Again, AtTheEnd, ToSlicing, AfterLinking, Rest
    <3>3. QED
      BY <3>1, <3>2, <1>N
  <2>4. Linking'
    BY <2>2
  <2>5. Longer'
    BY <2>2, <2>3
  <2>6. Shorter'
    BY <2>2, <2>3
  <2>7. QED
    BY <2>4, <2>5, <2>6
<1>7. CASE ActionsBeforeSlicing
  BY <1>7 DEF ActionsBeforeSlicing, LinkUndefined
<1>8. CASE LinkBeforeSlicing
  BY <1>8 DEF LinkBeforeSlicing, LinkUndefined
<1>9. CASE LinkAtexit
  BY <1>9 DEF LinkAtexit, LinkUndefined
<1>10. CASE LinkRest
  BY <1>10 DEF LinkRest, LinkUndefined
<1>11. CASE NothingToInstrument
  BY <1>11 DEF NothingToInstrument
<1>12. CASE ProvedByInstrumentation
  BY <1>12 DEF ProvedByInstrumentation
<1>13. CASE GiveUpInstrumentation
  BY <1>13 DEF GiveUpInstrumentation
<1>14. CASE NoSlicing
  BY <1>14 DEF NoSlicing
<1>15. CASE StartSlicing
  BY <1>15 DEF StartSlicing
<1>16. CASE NoCriterion
  BY <1>16 DEF NoCriterion
<1>17. CASE GiveUpSlicing
  BY <1>17 DEF GiveUpSlicing, AfterRound
<1>18. CASE Slice
  BY <1>18 DEF Slice, Write, AfterRound
<1>19. CASE Instrument
  BY <1>19 DEF Instrument, Write
<1>20. CASE HandOver
  BY <1>20 DEF HandOver
<1>21. CASE PrepareUnsliced
  <2>1. /\ pc = "handed" /\ pc' = "actions after slicing" /\ caller' = "prepare"
        /\ curfile' = nonsliced /\ UNCHANGED <<conf, nonsliced, handed, goal>>
    BY <1>21 DEF PrepareUnsliced
  <2>2. Linking'
    BY <2>1
  <2>3. nonsliced.pr <= nonsliced.pr /\ curfile' = nonsliced'
    BY <2>1, Arithmetic
  <2>4. Longer' /\ Shorter'
    BY <2>1, <2>3
  <2>5. QED
    BY <2>2, <2>4
<1>22. CASE ReturnUnsliced
  BY <1>22 DEF ReturnUnsliced
<1>23. CASE DriverUnslices
  BY <1>23 DEF DriverUnslices
<1>24. CASE LinkUnconditional
  BY <1>24 DEF LinkUnconditional, Write
<1>25. CASE Unroll
  BY <1>25, SuffixesOfRunOpt DEF Unroll
<1>26. CASE PrepareForInstrumentation
  BY <1>26, SuffixesOfRunOpt DEF PrepareForInstrumentation
<1>27. CASE AfterInstrumentation
  BY <1>27, SuffixesOfRunOpt DEF AfterInstrumentation
<1>28. CASE BeforeSlicingPasses
  <2>1. curfile'.pr >= curfile.pr
    <3>1. Weight(PassesBeforeSlicing(conf)) \in {0, 1}
      BY DEF Weight
    <3>2. curfile'.pr = curfile.pr + Weight(PassesBeforeSlicing(conf))
      BY <1>28, SuffixesOfRunOpt DEF BeforeSlicingPasses
    <3>3. QED
      BY <3>1, <3>2, <1>N, Arithmetic
  <2>2. caller = "run" /\ handed = NoFile
    BY <1>28 DEF BeforeSlicingPasses, TypeOK
  <2>3. QED
    BY <1>28, <2>1, <2>2 DEF BeforeSlicingPasses
<1>29. CASE ExplicitConsdes
  <2>1. curfile'.pr = curfile.pr + 1
    <3>1. RunOpt(<<"explicit-consdes">>) /\ Weight(<<"explicit-consdes">>) = 1
      BY <1>29 DEF ExplicitConsdes, Weight
    <3>2. QED
      BY <3>1, SuffixesOfRunOpt
  <2>2. QED
    BY <1>29, <2>1 DEF ExplicitConsdes
<1>30. CASE OptimizeBeforeSlicing
  <2>1. curfile'.pr = curfile.pr
    BY <1>30, SuffixesOfOptimize DEF OptimizeBeforeSlicing
  <2>2. QED
    BY <1>30, <2>1 DEF OptimizeBeforeSlicing
<1>31. CASE SliceAgain
  <2>1. curfile'.pr = curfile.pr
    BY <1>31, SuffixesOfOptimize DEF SliceAgain
  <2>2. /\ pc = "slice again" /\ pc' \in {"slice", "actions after slicing"}
        /\ UNCHANGED <<conf, caller, goal, nonsliced, handed>>
    BY <1>31 DEF SliceAgain
  <2>3. Longer'
    BY <2>1, <2>2
  <2>4. Linking' /\ Shorter'
    BY <2>1, <2>2
  <2>5. QED
    BY <2>3, <2>4
<1>32. CASE OptimizeAfterSlicing
  <2>1. curfile'.pr = curfile.pr
    BY <1>32, SuffixesOfOptimize DEF OptimizeAfterSlicing
  <2>2. QED
    BY <1>32, <2>1 DEF OptimizeAfterSlicing
<1>33. CASE UNCHANGED vars
  <2>1. UNCHANGED <<conf, pc, caller, goal, curfile, nonsliced, handed>>
    BY <1>33 DEF vars
  <2>2. Linking'
    BY <2>1
  <2>3. Longer'
    BY <2>1
  <2>4. Shorter'
    BY <2>1
  <2>5. QED
    BY <2>2, <2>3, <2>4
<1>34. QED
  BY <1>1, <1>2, <1>3, <1>4, <1>5, <1>6, <1>7, <1>8, <1>9, <1>10, <1>11, <1>12, <1>13, <1>14, <1>15, <1>16, <1>17, <1>18, <1>19, <1>20, <1>21, <1>22, <1>23, <1>24, <1>25, <1>26, <1>27, <1>28, <1>29, <1>30, <1>31, <1>32, <1>33 DEF Next, Work

----------------------------------------------------------------------------
(***************************************************************************)
(* The bitcode that was handed over is kept.                               *)
(***************************************************************************)

\* Only these steps are taken for prepare_unsliced_file.
PrepareSteps ==
    \/ Raise \/ LinkRound \/ ActionsAfterSlicing \/ AfterSlicingPasses \/ LinkRest
    \/ OptimizeAfterSlicing \/ ReturnUnsliced

LEMMA OnlyPrepareSteps ==
    ASSUME PlaceInv, Next, caller = "prepare", pc \notin Rest PROVE PrepareSteps
<1>1. Place \in Again /\ (pc = "link" => goal.then = "optimize after")
  BY DEF PlaceInv, Linking, Place, Again, AfterLinking, Rest
<1>2. pc \in {"link", "actions after slicing", "after slicing", "link rest",
              "optimize after", "finish"}
  BY <1>1 DEF Place, Again
<1> USE <1>2 DEF Rest, Step
<1>3. ~CompileSources
  BY DEF CompileSources
<1>4. ~ActionsAfterCompilation
  BY DEF ActionsAfterCompilation
<1>5. ~Unroll
  BY DEF Unroll
<1>6. ~LinkUnconditional
  BY DEF LinkUnconditional
<1>7. ~PrepareForInstrumentation
  BY DEF PrepareForInstrumentation
<1>8. ~NothingToInstrument
  BY DEF NothingToInstrument
<1>9. ~Instrument
  BY DEF Instrument
<1>10. ~ProvedByInstrumentation
  BY DEF ProvedByInstrumentation
<1>11. ~GiveUpInstrumentation
  BY DEF GiveUpInstrumentation
<1>12. ~AfterInstrumentation
  BY DEF AfterInstrumentation
<1>13. ~OptimizeBeforeSlicing
  BY DEF OptimizeBeforeSlicing
<1>14. ~ActionsBeforeSlicing
  BY DEF ActionsBeforeSlicing
<1>15. ~LinkBeforeSlicing
  BY DEF LinkBeforeSlicing
<1>16. ~BeforeSlicingPasses
  BY DEF BeforeSlicingPasses
<1>17. ~LinkAtexit
  BY DEF LinkAtexit
<1>18. ~ExplicitConsdes
  BY DEF ExplicitConsdes
<1>19. ~NoSlicing
  BY DEF NoSlicing
<1>20. ~StartSlicing
  BY DEF StartSlicing
<1>21. ~NoCriterion
  BY DEF NoCriterion
<1>22. ~Slice
  BY DEF Slice
<1>23. ~GiveUpSlicing
  BY DEF GiveUpSlicing
<1>24. ~SliceAgain
  BY DEF SliceAgain
<1>25. ~HandOver
  BY DEF HandOver
<1>26. ~PrepareUnsliced
  BY DEF PrepareUnsliced
<1>27. ~DriverUnslices
  BY DEF DriverUnslices
<1>28. QED
  BY <1>3, <1>4, <1>5, <1>6, <1>7, <1>8, <1>9, <1>10, <1>11, <1>12, <1>13, <1>14, <1>15, <1>16, <1>17, <1>18, <1>19, <1>20, <1>21, <1>22, <1>23, <1>24, <1>25, <1>26, <1>27 DEF Next, Work, PrepareSteps

\* All files but the new one.
OthersKept ==
    files' = files \/ \A m \in DOMAIN files : m # curfile' => files'[m] = files[m]

LEMMA WriteKeepsOthers == ASSUME NEW n, NEW b, Write(n, b) PROVE OthersKept
BY DEF Write, OthersKept

LEMMA PrepareEffect ==
    ASSUME PrepareSteps, caller = "prepare"
    PROVE  /\ OthersKept /\ (pc' \in Rest => files' = files)
           /\ UNCHANGED <<conf, caller, nonsliced, handed>>
<1> USE DEF Step, options, control, results, Rest
<1>1. CASE Raise
  BY <1>1 DEF Raise, OthersKept
<1>2. CASE LinkRound
  <2>1. OthersKept
    BY <1>2, WriteKeepsOthers DEF LinkRound, OthersKept
  <2>2. pc' \in Rest => files' = files
    BY <1>2 DEF LinkRound
  <2>3. QED
    BY <1>2, <2>1, <2>2 DEF LinkRound
<1>3. CASE ActionsAfterSlicing
  BY <1>3, WriteKeepsOthers DEF ActionsAfterSlicing, RunOpt, OthersKept
<1>4. CASE AfterSlicingPasses
  BY <1>4, WriteKeepsOthers DEF AfterSlicingPasses, RunOpt, OthersKept
<1>5. CASE LinkRest
  BY <1>5 DEF LinkRest, LinkUndefined, OthersKept
<1>6. CASE OptimizeAfterSlicing
  BY <1>6, WriteKeepsOthers DEF OptimizeAfterSlicing, Optimize, OptimizeWith, OthersKept
<1>7. CASE ReturnUnsliced
  BY <1>7 DEF ReturnUnsliced, OthersKept
<1>8. QED
  BY <1>1, <1>2, <1>3, <1>4, <1>5, <1>6, <1>7 DEF PrepareSteps

\* Between the calls, only the driver does something.
LEMMA RestSteps == ASSUME Next, pc \in Rest PROVE PrepareUnsliced \/ DriverUnslices
<1> USE DEF Rest, Step
<1>1. ~Raise
  BY DEF Raise
<1>2. ~CompileSources
  BY DEF CompileSources
<1>3. ~ActionsAfterCompilation
  BY DEF ActionsAfterCompilation
<1>4. ~LinkRound
  BY DEF LinkRound
<1>5. ~Unroll
  BY DEF Unroll
<1>6. ~LinkUnconditional
  BY DEF LinkUnconditional
<1>7. ~PrepareForInstrumentation
  BY DEF PrepareForInstrumentation
<1>8. ~NothingToInstrument
  BY DEF NothingToInstrument
<1>9. ~Instrument
  BY DEF Instrument
<1>10. ~ProvedByInstrumentation
  BY DEF ProvedByInstrumentation
<1>11. ~GiveUpInstrumentation
  BY DEF GiveUpInstrumentation
<1>12. ~AfterInstrumentation
  BY DEF AfterInstrumentation
<1>13. ~OptimizeBeforeSlicing
  BY DEF OptimizeBeforeSlicing
<1>14. ~ActionsBeforeSlicing
  BY DEF ActionsBeforeSlicing
<1>15. ~LinkBeforeSlicing
  BY DEF LinkBeforeSlicing
<1>16. ~BeforeSlicingPasses
  BY DEF BeforeSlicingPasses
<1>17. ~LinkAtexit
  BY DEF LinkAtexit
<1>18. ~ExplicitConsdes
  BY DEF ExplicitConsdes
<1>19. ~NoSlicing
  BY DEF NoSlicing
<1>20. ~StartSlicing
  BY DEF StartSlicing
<1>21. ~NoCriterion
  BY DEF NoCriterion
<1>22. ~Slice
  BY DEF Slice
<1>23. ~GiveUpSlicing
  BY DEF GiveUpSlicing
<1>24. ~SliceAgain
  BY DEF SliceAgain
<1>25. ~ActionsAfterSlicing
  BY DEF ActionsAfterSlicing
<1>26. ~AfterSlicingPasses
  BY DEF AfterSlicingPasses
<1>27. ~LinkRest
  BY DEF LinkRest
<1>28. ~OptimizeAfterSlicing
  BY DEF OptimizeAfterSlicing
<1>29. ~HandOver
  BY DEF HandOver
<1>30. ~ReturnUnsliced
  BY DEF ReturnUnsliced
<1>31. QED
  BY <1>1, <1>2, <1>3, <1>4, <1>5, <1>6, <1>7, <1>8, <1>9, <1>10, <1>11, <1>12, <1>13,
     <1>14, <1>15, <1>16, <1>17, <1>18, <1>19, <1>20, <1>21, <1>22, <1>23, <1>24, <1>25, <1>26,
     <1>27, <1>28, <1>29, <1>30
     DEF Next, Work

LEMMA RestKeepsFiles == ASSUME Next, pc \in Rest PROVE files' = files
BY RestSteps DEF PrepareUnsliced, DriverUnslices, control, results

LEMMA StepKeepsHanded ==
    ASSUME PlaceInv, [Next]_vars, handed # NoFile PROVE files'[handed] = files[handed]
<1>1. CASE UNCHANGED vars
  BY <1>1 DEF vars
<1>2. CASE Next /\ pc \in Rest
  BY <1>2, RestKeepsFiles
<1>3. CASE Next /\ pc \notin Rest
  <2>1. caller = "prepare"
    BY <1>3 DEF PlaceInv, TypeOK, Linking
  <2>2. PrepareSteps
    BY <1>3, <2>1, OnlyPrepareSteps
  <2>3. /\ OthersKept /\ (pc' \in Rest => files' = files)
        /\ UNCHANGED <<conf, caller, nonsliced, handed>>
    BY <2>1, <2>2, PrepareEffect
  <2>4. CASE files' = files
    BY <2>4
  <2>5. CASE files' # files
    <3>1. PlaceInv' /\ caller' = "prepare" /\ pc' \notin Rest
      BY <2>1, <2>3, <2>5, StepPlace
    <3>2. Place' \in Again
      BY <3>1 DEF PlaceInv, Linking, Place, Rest, AfterLinking
    <3>3. /\ curfile'.pr \in Nat /\ nonsliced.pr \in Nat /\ handed.pr \in Nat
          /\ First \in {0, 1} /\ Second \in {0, 1} /\ First' = First /\ Second' = Second
      <4>1. TypeOK' /\ TypeOK
        BY <3>1 DEF PlaceInv
      <4>2. curfile' \in Names
        BY <4>1 DEF TypeOK
      <4>3. curfile'.pr \in Nat
        BY <4>2 DEF Names
      <4>4. QED
        BY <2>3, <4>1, <4>3, SuffixesOfWrites, ListWeights, SameLists
    <3>4. curfile'.pr <= nonsliced.pr + First + Second
      <4>1. \/ Place' = "actions after slicing" /\ curfile'.pr <= nonsliced.pr
            \/ Place' = "after slicing" /\ curfile'.pr <= nonsliced.pr + First
            \/ curfile'.pr <= nonsliced.pr + First + Second
        BY <2>3, <3>1, <3>2, <3>3 DEF PlaceInv, Shorter, Again, AtTheEnd
      <4>2. First \in Nat /\ Second \in Nat
        BY <3>3
      <4>3. QED
        BY <3>3, <4>1, <4>2, Arithmetic
    <3>5. handed.pr > nonsliced.pr + First + Second
      BY DEF PlaceInv, Longer
    <3>6. curfile' # handed
      BY <3>3, <3>4, <3>5
    <3>7. handed \in DOMAIN files
      BY DEF PlaceInv, TypeOK
    <3>8. QED
      BY <2>3, <2>5, <3>6, <3>7 DEF OthersKept
  <2>6. QED
    BY <2>4, <2>5
<1>4. QED
  BY <1>1, <1>2, <1>3

(***************************************************************************)
(* The places and the names are as PlaceInv says in every reachable state. *)
(***************************************************************************)
LEMMA PlaceCorrect == Spec => []PlaceInv
<1>1. QED
  BY InitPlace, StepPlace, PTL DEF Spec

(***************************************************************************)
(* The files of the unsliced program are never written over the bitcode    *)
(* that was handed to the verifier.                                        *)
(***************************************************************************)
THEOREM HandedIsKept == Spec => HandedKept
<1>1. PlaceInv /\ [Next]_vars => [handed # NoFile => files'[handed] = files[handed]]_vars
  BY StepKeepsHanded
<1>2. QED
  BY <1>1, PlaceCorrect, PTL DEF Spec, HandedKept

----------------------------------------------------------------------------
(***************************************************************************)
(* What is delivered is linked.                                            *)
(***************************************************************************)
IsLinked(b) == b.undef \cap Available = {}

LinkedInv ==
    /\ pc \in {"optimize after", "finish"} => IsLinked(Current)
    /\ handed # NoFile => IsLinked(files[handed])
    /\ \A i \in DOMAIN prepared : IsLinked(prepared[i])

LEMMA ConfIsKept == [Next]_vars => conf' = conf
<1> USE DEF Step, options, control, results
<1>1. CASE UNCHANGED vars
  BY <1>1 DEF vars
<1>2. CASE Raise
  BY <1>2 DEF Raise
<1>3. CASE CompileSources
  BY <1>3 DEF CompileSources
<1>4. CASE ActionsAfterCompilation
  BY <1>4 DEF ActionsAfterCompilation
<1>5. CASE LinkRound
  BY <1>5 DEF LinkRound
<1>6. CASE Unroll
  BY <1>6 DEF Unroll
<1>7. CASE LinkUnconditional
  BY <1>7 DEF LinkUnconditional
<1>8. CASE PrepareForInstrumentation
  BY <1>8 DEF PrepareForInstrumentation
<1>9. CASE NothingToInstrument
  BY <1>9 DEF NothingToInstrument
<1>10. CASE Instrument
  BY <1>10 DEF Instrument
<1>11. CASE ProvedByInstrumentation
  BY <1>11 DEF ProvedByInstrumentation
<1>12. CASE GiveUpInstrumentation
  BY <1>12 DEF GiveUpInstrumentation
<1>13. CASE AfterInstrumentation
  BY <1>13 DEF AfterInstrumentation
<1>14. CASE OptimizeBeforeSlicing
  BY <1>14 DEF OptimizeBeforeSlicing
<1>15. CASE ActionsBeforeSlicing
  BY <1>15 DEF ActionsBeforeSlicing
<1>16. CASE LinkBeforeSlicing
  BY <1>16 DEF LinkBeforeSlicing
<1>17. CASE BeforeSlicingPasses
  BY <1>17 DEF BeforeSlicingPasses
<1>18. CASE LinkAtexit
  BY <1>18 DEF LinkAtexit
<1>19. CASE ExplicitConsdes
  BY <1>19 DEF ExplicitConsdes
<1>20. CASE NoSlicing
  BY <1>20 DEF NoSlicing
<1>21. CASE StartSlicing
  BY <1>21 DEF StartSlicing
<1>22. CASE NoCriterion
  BY <1>22 DEF NoCriterion
<1>23. CASE Slice
  BY <1>23 DEF Slice
<1>24. CASE GiveUpSlicing
  BY <1>24 DEF GiveUpSlicing
<1>25. CASE SliceAgain
  BY <1>25 DEF SliceAgain
<1>26. CASE ActionsAfterSlicing
  BY <1>26 DEF ActionsAfterSlicing
<1>27. CASE AfterSlicingPasses
  BY <1>27 DEF AfterSlicingPasses
<1>28. CASE LinkRest
  BY <1>28 DEF LinkRest
<1>29. CASE OptimizeAfterSlicing
  BY <1>29 DEF OptimizeAfterSlicing
<1>30. CASE HandOver
  BY <1>30 DEF HandOver
<1>31. CASE ReturnUnsliced
  BY <1>31 DEF ReturnUnsliced
<1>32. CASE PrepareUnsliced
  BY <1>32 DEF PrepareUnsliced
<1>33. CASE DriverUnslices
  BY <1>33 DEF DriverUnslices
<1>34. QED
  BY <1>1, <1>2, <1>3, <1>4, <1>5, <1>6, <1>7, <1>8, <1>9, <1>10, <1>11, <1>12, <1>13, <1>14, <1>15, <1>16, <1>17, <1>18, <1>19, <1>20, <1>21, <1>22, <1>23, <1>24, <1>25, <1>26, <1>27, <1>28, <1>29, <1>30, <1>31, <1>32, <1>33 DEF Next, Work

LEMMA OptimizedIsLinked ==
    ASSUME TypeOK, NEW passes \in Seq(Passes), Optimize(passes), IsLinked(Current), conf' = conf
    PROVE  IsLinked(Current)'
<1> DEFINE optimized == [Current EXCEPT !.steps = @ \o passes]
<1>1. Available' = Available
  BY DEF Available
<1>2. optimized.undef = Current.undef
  BY CurrentType DEF Linkable, Bitcode
<1>3. CASE UNCHANGED <<files, curfile>>
  BY <1>1, <1>3 DEF IsLinked, Current
<1>4. CASE Write(Optimized(curfile), optimized)
  <2>1. Current' = optimized
    BY <1>4 DEF Write, Current
  <2>2. QED
    BY <1>1, <1>2, <2>1 DEF IsLinked
<1>5. QED
  BY <1>3, <1>4 DEF Optimize, OptimizeWith

\* The step that leads to the optimization after slicing is that of the last
\* round of linking.
LEMMA LastRound ==
    ASSUME PlaceInv, LinkRound, pc' \in {"optimize after", "finish"}
    PROVE  IsLinked(Current)'
<1> DEFINE funs == Current.undef \cap goal.only \cap Available
<1>1. pc = "link" /\ goal.then \in AfterLinking
  BY DEF PlaceInv, Linking, LinkRound
<1>2. funs = {} /\ pc' = goal.then /\ UNCHANGED <<files, curfile>>
  BY <1>1 DEF LinkRound
<1>3. goal.then = "optimize after"
  BY <1>1, <1>2 DEF AfterLinking
<1>4. goal.only = Functions
  BY <1>1, <1>3 DEF PlaceInv, Linking
<1>5. Current.undef \subseteq Functions
  BY CurrentType DEF PlaceInv, Linkable, Bitcode
<1>6. IsLinked(Current)
  BY <1>2, <1>4, <1>5 DEF IsLinked
<1>7. conf' = conf
  BY DEF LinkRound, options
<1>8. QED
  BY <1>2, <1>6, <1>7 DEF IsLinked, Available, Current

LEMMA EndIsLinked ==
    ASSUME PlaceInv, LinkedInv, Next, pc' \in {"optimize after", "finish"}
    PROVE  IsLinked(Current)'
<1> USE DEF Step
<1>1. CASE LinkRound
  BY <1>1, LastRound
<1>2. CASE OptimizeAfterSlicing
  <2>1. IsLinked(Current)
    BY <1>2 DEF OptimizeAfterSlicing, LinkedInv
  <2>2. QED
    BY <1>2, <2>1, OptimizationsAreLists, OptimizedIsLinked, ConfIsKept
       DEF OptimizeAfterSlicing, PlaceInv
<1>3. ~Raise
  BY DEF Raise
<1>4. ~CompileSources
  BY DEF CompileSources
<1>5. ~ActionsAfterCompilation
  BY DEF ActionsAfterCompilation, LinkUndefined
<1>6. ~Unroll
  BY DEF Unroll
<1>7. ~LinkUnconditional
  BY DEF LinkUnconditional
<1>8. ~PrepareForInstrumentation
  BY DEF PrepareForInstrumentation
<1>9. ~NothingToInstrument
  BY DEF NothingToInstrument
<1>10. ~Instrument
  BY DEF Instrument
<1>11. ~ProvedByInstrumentation
  BY DEF ProvedByInstrumentation
<1>12. ~GiveUpInstrumentation
  BY DEF GiveUpInstrumentation
<1>13. ~AfterInstrumentation
  BY DEF AfterInstrumentation
<1>14. ~OptimizeBeforeSlicing
  BY DEF OptimizeBeforeSlicing
<1>15. ~ActionsBeforeSlicing
  BY DEF ActionsBeforeSlicing, LinkUndefined
<1>16. ~LinkBeforeSlicing
  BY DEF LinkBeforeSlicing, LinkUndefined
<1>17. ~BeforeSlicingPasses
  BY DEF BeforeSlicingPasses
<1>18. ~LinkAtexit
  BY DEF LinkAtexit, LinkUndefined
<1>19. ~ExplicitConsdes
  BY DEF ExplicitConsdes
<1>20. ~NoSlicing
  BY DEF NoSlicing
<1>21. ~StartSlicing
  BY DEF StartSlicing
<1>22. ~NoCriterion
  BY DEF NoCriterion
<1>23. ~Slice
  BY DEF Slice, AfterRound
<1>24. ~GiveUpSlicing
  BY DEF GiveUpSlicing, AfterRound
<1>25. ~SliceAgain
  BY DEF SliceAgain
<1>26. ~ActionsAfterSlicing
  BY DEF ActionsAfterSlicing
<1>27. ~AfterSlicingPasses
  BY DEF AfterSlicingPasses
<1>28. ~LinkRest
  BY DEF LinkRest, LinkUndefined
<1>29. ~HandOver
  BY DEF HandOver
<1>30. ~ReturnUnsliced
  BY DEF ReturnUnsliced
<1>31. ~PrepareUnsliced
  BY DEF PrepareUnsliced
<1>32. ~DriverUnslices
  BY DEF DriverUnslices, control, results
<1>33. QED
  BY <1>1, <1>2, <1>3, <1>4, <1>5, <1>6, <1>7, <1>8, <1>9, <1>10, <1>11, <1>12, <1>13, <1>14, <1>15, <1>16, <1>17, <1>18, <1>19, <1>20, <1>21, <1>22, <1>23, <1>24, <1>25, <1>26, <1>27, <1>28, <1>29, <1>30, <1>31, <1>32 DEF Next, Work

LEMMA ResultsAreKept ==
    ASSUME Next, ~HandOver, ~ReturnUnsliced PROVE UNCHANGED <<handed, prepared>>
<1> USE DEF Step, results
<1>1. CASE Raise
  BY <1>1 DEF Raise
<1>2. CASE CompileSources
  BY <1>2 DEF CompileSources
<1>3. CASE ActionsAfterCompilation
  BY <1>3 DEF ActionsAfterCompilation
<1>4. CASE LinkRound
  BY <1>4 DEF LinkRound
<1>5. CASE Unroll
  BY <1>5 DEF Unroll
<1>6. CASE LinkUnconditional
  BY <1>6 DEF LinkUnconditional
<1>7. CASE PrepareForInstrumentation
  BY <1>7 DEF PrepareForInstrumentation
<1>8. CASE NothingToInstrument
  BY <1>8 DEF NothingToInstrument
<1>9. CASE Instrument
  BY <1>9 DEF Instrument
<1>10. CASE ProvedByInstrumentation
  BY <1>10 DEF ProvedByInstrumentation
<1>11. CASE GiveUpInstrumentation
  BY <1>11 DEF GiveUpInstrumentation
<1>12. CASE AfterInstrumentation
  BY <1>12 DEF AfterInstrumentation
<1>13. CASE OptimizeBeforeSlicing
  BY <1>13 DEF OptimizeBeforeSlicing
<1>14. CASE ActionsBeforeSlicing
  BY <1>14 DEF ActionsBeforeSlicing
<1>15. CASE LinkBeforeSlicing
  BY <1>15 DEF LinkBeforeSlicing
<1>16. CASE BeforeSlicingPasses
  BY <1>16 DEF BeforeSlicingPasses
<1>17. CASE LinkAtexit
  BY <1>17 DEF LinkAtexit
<1>18. CASE ExplicitConsdes
  BY <1>18 DEF ExplicitConsdes
<1>19. CASE NoSlicing
  BY <1>19 DEF NoSlicing
<1>20. CASE StartSlicing
  BY <1>20 DEF StartSlicing
<1>21. CASE NoCriterion
  BY <1>21 DEF NoCriterion
<1>22. CASE Slice
  BY <1>22 DEF Slice
<1>23. CASE GiveUpSlicing
  BY <1>23 DEF GiveUpSlicing
<1>24. CASE SliceAgain
  BY <1>24 DEF SliceAgain
<1>25. CASE ActionsAfterSlicing
  BY <1>25 DEF ActionsAfterSlicing
<1>26. CASE AfterSlicingPasses
  BY <1>26 DEF AfterSlicingPasses
<1>27. CASE LinkRest
  BY <1>27 DEF LinkRest
<1>28. CASE OptimizeAfterSlicing
  BY <1>28 DEF OptimizeAfterSlicing
<1>29. CASE PrepareUnsliced
  BY <1>29 DEF PrepareUnsliced
<1>30. CASE DriverUnslices
  BY <1>30 DEF DriverUnslices
<1>31. QED
  BY <1>1, <1>2, <1>3, <1>4, <1>5, <1>6, <1>7, <1>8, <1>9, <1>10, <1>11, <1>12, <1>13, <1>14, <1>15, <1>16, <1>17, <1>18, <1>19, <1>20, <1>21, <1>22, <1>23, <1>24, <1>25, <1>26, <1>27, <1>28, <1>29, <1>30 DEF Next, Work

LEMMA AppendedElement ==
    ASSUME NEW S, NEW s \in Seq(S), NEW e \in S
    PROVE  \A i \in DOMAIN Append(s, e) :
              Append(s, e)[i] = e \/ (i \in DOMAIN s /\ Append(s, e)[i] = s[i])
OBVIOUS

LEMMA StepLinked == PlaceInv /\ LinkedInv /\ [Next]_vars => LinkedInv'
<1> SUFFICES ASSUME PlaceInv, LinkedInv, [Next]_vars PROVE LinkedInv'
  OBVIOUS
<1>1. conf' = conf /\ Available' = Available
  BY ConfIsKept DEF Available
<1>2. CASE UNCHANGED vars
  <2>1. UNCHANGED <<pc, files, curfile, handed, prepared>>
    BY <1>2 DEF vars, results
  <2>2. QED
    BY <1>1, <2>1 DEF LinkedInv, IsLinked, Current
<1>3. CASE HandOver
  <2>1. /\ IsLinked(Current) /\ handed' = curfile /\ files' = files
        /\ prepared' = prepared /\ pc' = "handed"
    BY <1>3 DEF HandOver, Step, LinkedInv
  <2>2. QED
    BY <1>1, <2>1 DEF LinkedInv, IsLinked, Current
<1>4. CASE ReturnUnsliced
  <2>1. /\ IsLinked(Current) /\ UNCHANGED <<handed, files>> /\ pc' = "handed"
        /\ prepared' = Append(prepared, Current)
    BY <1>4 DEF ReturnUnsliced, Step, LinkedInv
  <2>2. prepared \in Seq(Bitcode) /\ Current \in Bitcode
    BY CurrentType DEF PlaceInv, TypeOK, Linkable
  <2>3. \A i \in DOMAIN prepared' :
           prepared'[i] = Current \/ (i \in DOMAIN prepared /\ prepared'[i] = prepared[i])
    BY <2>1, <2>2, AppendedElement
  <2>4. QED
    BY <1>1, <2>1, <2>3 DEF LinkedInv, IsLinked
<1>5. CASE Next /\ ~HandOver /\ ~ReturnUnsliced
  <2>1. UNCHANGED <<handed, prepared>>
    BY <1>5, ResultsAreKept
  <2>2. handed # NoFile => files'[handed'] = files[handed]
    BY <2>1, StepKeepsHanded
  <2>3. pc' \in {"optimize after", "finish"} => IsLinked(Current)'
    BY <1>5, EndIsLinked
  <2>4. QED
    BY <1>1, <2>1, <2>2, <2>3 DEF LinkedInv, IsLinked
<1>6. QED
  BY <1>2, <1>3, <1>4, <1>5

(***************************************************************************)
(* No function that has a definition among the models is left undefined in *)
(* what is delivered.                                                      *)
(***************************************************************************)
THEOREM DeliveredIsLinked == Spec => []LinkedAll
<1>1. Init => LinkedInv
  BY DEF Init, LinkedInv
<1>2. LinkedInv => LinkedAll
  BY DEF LinkedInv, LinkedAll, Delivered, IsLinked
<1>3. QED
  BY <1>1, <1>2, StepLinked, PlaceCorrect, PTL DEF Spec

=============================================================================
