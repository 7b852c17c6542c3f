-------------------------------- MODULE Hooks --------------------------------
(***************************************************************************)
(* What the targets ask of the compiler pipeline: the hooks of             *)
(* SymbioticBaseTool and the targets that replace them.  A configuration   *)
(* holds the options and the property that the hooks look at.              *)
(***************************************************************************)
EXTENDS Sequences

\* Targets by what they replace.
CBMCLike   == {"cbmc", "esbmc", "2ls", "cbmc-svcomp"}
KleeLike   == {"klee", "testcomp"}
Translated == CBMCLike \cup {"cpachecker", "ultimate", "predator"}
Tools      == KleeLike \cup Translated \cup
              {"svcomp", "witch-klee", "slowbeast", "nidhugg", "divine", "seahorn"}

\* set_environment of these targets empties options.linkundef.
LinksNothing(tool) == tool \in Translated \cup {"divine", "seahorn"}

\* Sequences of at most one element, for lists that are put together.
When(b, x) == IF b THEN <<x>> ELSE <<>>

----------------------------------------------------------------------------

\* compilation_options: clang inserts the checks of its sanitizer.
Sanitizes(c) ==
    c.property \in {"undefinedness", "signedoverflow"} /\ c.tool # "seahorn"

\* An instrumentation: the function whose calls it inserts, and whether its
\* definition, which calls an error function, is linked at once.
NoInstrumentation == [inserts |-> "nothing", links |-> FALSE]

Marks(f)  == [inserts |-> f, links |-> FALSE]
Checks(f) == [inserts |-> f, links |-> TRUE]

PointerMark  == "__INSTR_mark_pointer"
OverflowMark == "__symbiotic_check_overflow"

\* instrumentation_options of SymbioticBaseTool
BaseInstrumentation(c) ==
    CASE c.property = "signedoverflow" /\ c.overflowWithClang -> NoInstrumentation
      [] c.property = "signedoverflow" /\ ~c.overflowWithClang -> Checks("overflow checks")
      [] c.property = "termination" -> Checks("loop checks")
      [] c.property \in {"memsafety", "memcleanup"} ->
            IF c.fullInstrumentation THEN Checks("memory checks") ELSE Marks(PointerMark)
      [] c.property = "nullderef" /\ ~c.fullInstrumentation -> Marks(PointerMark)
      [] OTHER -> NoInstrumentation

\* These targets check overflows themselves, where they are marked.
MarksOverflows(c) ==
    /\ c.tool \in CBMCLike \cup {"cpachecker"}
    /\ c.property = "signedoverflow" /\ ~c.fullInstrumentation

Instrumentation(c) ==
    IF MarksOverflows(c) THEN Marks(OverflowMark)
    ELSE IF c.tool = "cpachecker" /\ c.property = "termination" THEN NoInstrumentation
    ELSE BaseInstrumentation(c)

----------------------------------------------------------------------------

\* slicer_options of SymbioticBaseTool: the slicing criteria
BaseCriteria(c) ==
    CASE c.fullInstrumentation -> {"__VERIFIER_error", "__assert_fail"}
      [] ~c.fullInstrumentation /\ c.property \in {"memsafety", "memcleanup"} ->
            {PointerMark, "__INSTR_mark_free", "__INSTR_mark_allocation", "__INSTR_mark_exit"}
      [] ~c.fullInstrumentation /\ c.property = "termination" ->
            {"__INSTR_fail", "__assert_fail", "__VERIFIER_silent_exit",
             "__VERIFIER_exit", "__INSTR_check_assume"}
      [] ~c.fullInstrumentation /\ c.property = "nullderef" -> {PointerMark}
      [] ~c.fullInstrumentation /\ c.property \in {"unreachcall", "assertions", "errorcall"} ->
            c.calls
      [] ~c.fullInstrumentation /\ c.property \in {"signedoverflow", "undefinedness"} ->
            {"__VERIFIER_error"}
      [] OTHER -> {}

Criteria(c) ==
    IF MarksOverflows(c) THEN {OverflowMark}
    ELSE IF c.tool = "cpachecker" /\ c.property = "termination" THEN {"__VERIFIER_exit"}
    ELSE BaseCriteria(c)

----------------------------------------------------------------------------

\* passes_before_slicing
PassesBeforeSlicing(c) ==
    IF c.property # "termination" THEN <<>>
    ELSE <<"find-exits">> \o
         (CASE c.tool \in KleeLike \cup {"svcomp", "witch-klee", "slowbeast", "cbmc-svcomp"} -> <<>>
            [] c.tool \in {"cbmc", "esbmc", "2ls"} -> <<"use-exit">>
            [] OTHER -> <<"use-exit", "no-change-assumes">>)

\* passes_after_slicing of SymbioticBaseTool removes the marks; for overflows
\* it names the function but not the pass, so theirs stay.
DeletesMarks(c) ==
    When(~c.fullInstrumentation /\ c.property \in {"memsafety", "memcleanup", "nullderef"},
         "delete-calls")

InstrumentsAlloc(c) == When(~c.mallocNeverFails, "instrument-alloc")

\* What the targets around KLEE do about the property.
ForProperty(c, nontermination) ==
    When(c.property = "memsafety", "remove-readonly-attr") \o
    When(c.property = "termination", nontermination)

Environment(c) ==
    When(~c.explicitSymbolic, "initialize-uninitialized") \o
    When(~c.svComp, "internalize-globals")

\* passes_after_slicing of KleeToolFullInstrumentation
FullPasses(c) ==
    InstrumentsAlloc(c) \o When(c.property = "memsafety", "remove-readonly-attr")
    \o Environment(c) \o ForProperty(c, "instrument-nontermination")

\* KLEE has no passes of its own without full instrumentation.
KleePasses(c) == IF c.fullInstrumentation THEN FullPasses(c) ELSE <<>>

\* passes_after_slicing
PassesAfterSlicing(c) ==
    CASE c.tool \in KleeLike -> KleePasses(c)
      [] c.tool = "witch-klee" ->
            Environment(c) \o InstrumentsAlloc(c)
            \o ForProperty(c, "witch-instrument-nontermination")
      [] c.tool = "svcomp" ->
            DeletesMarks(c) \o InstrumentsAlloc(c) \o ForProperty(c, "instrument-nontermination")
      [] OTHER -> DeletesMarks(c)

\* actions_after_compilation: KLEE checks the library functions, too.
LinksAfterCompilation(c) ==
    /\ c.tool \in KleeLike /\ c.fullInstrumentation
    /\ \/ c.property = "memsafety"
       \/ c.property = "signedoverflow" /\ ~c.overflowWithClang

\* actions_before_slicing
AtomicSections(c) ==
    IF c.tool \in {"nidhugg", "divine"}
    THEN {"__VERIFIER_atomic_begin", "__VERIFIER_atomic_end"} ELSE {}

\* actions_after_slicing
UnrollsAfterSlicing(c) == c.tool = "nidhugg"

=============================================================================
