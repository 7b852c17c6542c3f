------------------------------ MODULE Answers ------------------------------
(***************************************************************************)
(* What Symbiotic makes of the output of a verifier: determine_result of   *)
(* the targets that reach it, and the loop of run_verification over the    *)
(* verifiers of a target until one of them is conclusive.  A line of the   *)
(* output is named for the pattern that it matches, or is noise.           *)
(***************************************************************************)
EXTENDS Property, SequencesExt

CONSTANTS
    MaxLines, \* Bound on the lines of one output.
    Bounds    \* How many unwinding bounds the cbmc target tries.

ASSUME SizesAssumption == MaxLines \in Nat /\ Bounds \in Nat \ {0}

VARIABLES
    conf,   \* The target, the property and the competition mode.
    world,  \* Is there an error, and the first bound that is enough to know?
    turn,   \* Position of the generator tool.verifiers().
    pc,
    output, \* What the process at work has printed,
    code,   \* its return code,
    answer  \* and the result read from them, None before the first.

vars == <<conf, world, turn, pc, output, code, answer>>

Targets == {"klee", "klee-full", "witch-klee", "slowbeast", "testcomp",
            "cbmc", "nidhugg", "divine", "seahorn"}
Kleish  == {"klee", "klee-full", "testcomp"}
Modes   == {"none", "sv-comp", "test-comp"}

Covering == {"coverBranches", "coverConditions", "coverStmts", "errorcall"}

\* The errors that benchexec.result has a name for.
Memory == {"valid-free", "valid-deref", "valid-memtrack"}
Errors == Memory \cup {"unreach-call", "no-overflow", "valid-memcleanup",
                       "termination", "def-behavior"}

\* Patterns of complaints: nothing was decided on some path.
Complaints == {"EINITVALS", "EPTHREAD", "EKILLSTATE"}

\* A result: its first word, and what it names in parentheses.  "other" is a
\* text that starts with none of the words the program knows.
Answer(says, names) == [says |-> says, names |-> names]
False(e)            == Answer("false", {e})
Plain(says)         == Answer(says, {})
None                == Plain("none")

\* Mutants: the complaints are not passed on; they are all of the answer.
Silently(names) == Plain("unknown")
Loudly(names)   == Answer("other", names)

Undecided(names) == Answer("unknown", names)

Is(kinds) == conf.property \in kinds
SvComp    == conf.competition = "sv-comp"

\* Assertions are calls of error functions, too.
UnreachCall == Is({"unreachcall", "assertions"})

Printed(l) == Contains(output, l)
PrintedOf(ls) == \E l \in ls : Printed(l)

\* The last line of some kinds is this one.
LastIs(line, ls) ==
    \E i \in DOMAIN output :
        /\ output[i] = line
        /\ \A j \in DOMAIN output : j > i => output[j] \notin ls

----------------------------------------------------------------------------
(***************************************************************************)
(* KLEE                                                                    *)
(***************************************************************************)

\* _parse_klee_output_line
Finding(l) ==
    CASE l = "ASSERTIONFAILED" ->
            (CASE Is({"signedoverflow"}) -> "no-overflow"
               [] Is({"termination"}) -> "termination"
               [] OTHER -> "unreach-call")
      [] l = "EFREE" -> "valid-free"
      [] l = "EMEMERROR" -> "valid-deref"
      [] l = "EMEMLEAK" -> "valid-memtrack"
      [] l = "EMEMCLEANUP" -> "valid-memcleanup"
      [] OTHER -> l

\* and the one of full instrumentation, where all checks are assertions.
FullFinding(l) ==
    CASE l = "ASSERTIONFAILED" ->
            (CASE Is({"memsafety"}) -> "valid-deref"
               [] Is({"signedoverflow"}) -> "no-overflow"
               [] Is({"termination"}) -> "termination"
               [] Is({"memcleanup"}) -> "valid-memcleanup"
               [] OTHER -> "unreach-call")
      [] l = "EDOUBLEFREE" /\ Is({"memsafety"}) -> "valid-free"
      [] l = "EMEMLEAK" /\ Is({"memsafety"}) -> "valid-memtrack"
      [] OTHER -> l

\* Line by line; noise is no finding.
Findings     == [i \in DOMAIN output |-> Finding(output[i])]
FullFindings == [i \in DOMAIN output |-> FullFinding(output[i])]

Found(findings) == ToSet(findings) \ {"noise"}

FirstOf(lines, es) ==
    LET first == CHOOSE i \in DOMAIN lines :
                     lines[i] \in es /\ \A j \in 1..(i - 1) : lines[j] \notin es
    IN  lines[first]

\* Mutant: unfreed memory counts in SV-COMP, too.
CleanupAlways == Is({"memcleanup", "memsafety"})

CleanupSought == Is({"memcleanup"}) \/ (Is({"memsafety"}) /\ ~SvComp)

\* Is this the error that we sought for?
Sought ==
    (IF UnreachCall \/ Is({"undefinedness"}) THEN {"unreach-call"} ELSE {})
    \cup (IF Is({"signedoverflow"}) THEN {"no-overflow"} ELSE {})
    \cup (IF Is({"memsafety"}) THEN Memory ELSE {})
    \cup (IF CleanupSought THEN {"valid-memcleanup"} ELSE {})
    \cup (IF Is({"termination"}) THEN {"termination"} ELSE {})
    \cup (IF Is({"nullderef"}) THEN {"valid-deref"} ELSE {})

\* KLEE saw nothing at all.
Clean == IF code # 0 THEN Plain("error") ELSE Plain("true")

Klee ==
    LET found == Found(Findings)
    IN  IF found = {} THEN Clean
        ELSE IF "EINITVALS" \in found \/ found \cap Sought = {} THEN Undecided(found)
        ELSE False(IF Is({"undefinedness"}) THEN "def-behavior" ELSE FirstOf(Findings, Sought))

\* What was found is the answer.
Bare(f) == IF f \in Errors THEN False(f) ELSE Answer("other", {f})

KleeFull ==
    LET found == Found(FullFindings)
        lines == {i \in DOMAIN output : output[i] # "noise"}
    IN  IF found = {} THEN Clean
        ELSE IF \E i \in lines : lines = {i} THEN Bare(CHOOSE f \in found : TRUE)
        ELSE IF "EINITVALS" \in found \/ found \cap Errors = {} THEN Undecided(found)
        ELSE False(FirstOf(FullFindings, Errors))

\* In Test-Comp, whether the call to cover was reached.
Covered ==
    CASE ~Is({"errorcall"}) -> Plain("done")
      [] "unreach-call" \in Found(Findings) -> Plain("done")
      [] OTHER -> Undecided({})

(***************************************************************************)
(* Witch-KLEE: the line that confirms the witness, or an error found on    *)
(* the way, names the property.  A complaint is named letter by letter.    *)
(***************************************************************************)
WitchKlee ==
    CASE PrintedOf(Errors) -> False(FirstOf(output, Errors))
      [] ~PrintedOf(Errors) /\ code # 0 -> Plain("error")
      [] ~PrintedOf(Errors) /\ code = 0 /\ PrintedOf(Complaints \cup {"may not be confirmed"}) ->
            Undecided({})
      [] OTHER -> Plain("true")

(***************************************************************************)
(* Slowbeast                                                               *)
(***************************************************************************)
NoErrors == LastIs("Found errors: 0", {"Found errors: 0", "Error found."})

Slowbeast ==
    CASE ~NoErrors /\ Printed("assertion") ->
            False(IF Is({"termination"}) THEN "termination" ELSE "unreach-call")
      [] ~NoErrors /\ ~Printed("assertion") -> Undecided({})
      [] NoErrors /\ Printed("Killed paths: 0") /\ ~Printed("a problem was met") ->
            Plain("true")
      [] OTHER -> IF code # 0 THEN Plain("error") ELSE Undecided({})

(***************************************************************************)
(* CBMC runs with growing bounds, each bound twice: a run that stops at    *)
(* the bound may only refute, one that checks that the bound is enough may *)
(* only prove.                                                             *)
(***************************************************************************)
Run(only, bound) == [only |-> only, bound |-> bound]

\* verifiers() of the target
Schedule ==
    IF conf.tool # "cbmc" THEN <<Run("any", 0)>>
    ELSE [i \in 1..(2 * Bounds) |->
             Run(IF i % 2 = 1 THEN "false" ELSE "true", (i + 1) \div 2)]

\* What a line does to the status read so far.
Refuting(l) ==
    CASE l = "leak" -> IF Is({"memsafety"}) THEN "valid-memtrack" ELSE "valid-memcleanup"
      [] l = "double free" -> "valid-free"
      [] l = "dereference failure" -> "valid-deref"
      [] OTHER -> "no-overflow"

ParsingFailed == Plain("other")

AfterFailed(status) ==
    CASE Is({"termination"}) -> False("termination")
      [] UnreachCall -> False("unreach-call")
      [] Is({"signedoverflow"}) -> False("no-overflow")
      [] OTHER -> IF status.says = "false" THEN status ELSE ParsingFailed

StatusAfter(status, l) ==
    CASE l = "Unmodelled library functions" -> Undecided({})
      [] l \in {"leak", "double free", "dereference failure", "arithmetic overflow"} ->
            False(Refuting(l))
      [] l = "VERIFICATION SUCCESSFUL" ->
            IF status # Plain("error") THEN ParsingFailed ELSE Plain("true")
      [] l = "VERIFICATION FAILED" -> AfterFailed(status)
      [] OTHER -> status

Status[i \in 0..Len(output)] ==
    IF i = 0 THEN Plain("error") ELSE StatusAfter(Status[i - 1], output[i])

\* Mutant: a run that stops at the bound may prove.
Both(status) == status

\* only_results
Only(status) ==
    IF status.says = Schedule[turn].only THEN status ELSE Undecided({})

CBMC ==
    Only(IF code \in {0, 10} THEN Status[Len(output)] ELSE Plain("error"))

(***************************************************************************)
(* The others                                                              *)
(***************************************************************************)
Nidhugg ==
    LET verdicts == {"No errors were detected.", "Assertion violation"}
    IN  CASE LastIs("No errors were detected.", verdicts) -> Plain("true")
          [] LastIs("Assertion violation", verdicts) -> False("unreach-call")
          [] OTHER -> Plain("error")

\* Reading stops at these lines.
Stops(i) ==
    \/ output[i] = "error found: boot"
    \/ /\ output[i] = "error found: no"
       /\ \E j \in 1..(i - 1) : output[j] = "error found: yes"

MemoryErrors == {"free", "out of bounds", "leak"}
Messages     == {"not implemented", "assertion violation"}

Divine ==
    LET stops == {i \in DOMAIN output : Stops(i)}
        first == CHOOSE i \in stops : \A j \in stops : i <= j
        yes   == Printed("error found: yes")
        mem   == Printed("memory error")
        what  == mem /\ PrintedOf(MemoryErrors)
    IN  CASE output = <<>> -> Plain("other")
          [] stops # {} -> IF output[first] = "error found: boot"
                           THEN Undecided({}) ELSE Plain("other")
          [] output # <<>> /\ stops = {} /\ yes ->
                CASE what ->
                        False(CASE LastIs("free", MemoryErrors) -> "valid-free"
                                [] LastIs("leak", MemoryErrors) -> "valid-memtrack"
                                [] OTHER -> "valid-deref")
                  [] ~what /\ LastIs("assertion violation", Messages) -> False("unreach-call")
                  [] ~what /\ LastIs("not implemented", Messages) -> Undecided({})
                  [] OTHER -> Plain("other")
          [] OTHER ->
                IF code # 0 THEN Plain("other")
                ELSE IF mem \/ PrintedOf(MemoryErrors \cup Messages) THEN Undecided({})
                ELSE Plain("true")

Seahorn ==
    CASE Printed("Result TRUE") -> Plain("true")
      [] ~Printed("Result TRUE") /\ Printed("Result FALSE") ->
            False(IF Printed("Termination") THEN "termination" ELSE "unreach-call")
      [] ~PrintedOf({"Result TRUE", "Result FALSE"}) /\ Printed("Result UNKNOWN") ->
            Undecided({})
      [] OTHER -> IF code # 0 THEN Plain("error") ELSE Plain("other")

\* determine_result of the target
DetermineResult ==
    CASE conf.tool = "testcomp" -> Plain("done")
      [] conf.tool \in {"klee", "klee-full"} /\ conf.competition = "test-comp" -> Covered
      [] conf.tool = "klee" /\ conf.competition # "test-comp" -> Klee
      [] conf.tool = "klee-full" /\ conf.competition # "test-comp" -> KleeFull
      [] conf.tool = "witch-klee" -> WitchKlee
      [] conf.tool = "slowbeast" -> Slowbeast
      [] conf.tool = "cbmc" -> CBMC
      [] conf.tool = "nidhugg" -> Nidhugg
      [] conf.tool = "divine" -> Divine
      [] conf.tool = "seahorn" -> Seahorn

----------------------------------------------------------------------------
(***************************************************************************)
(* The verifiers: what they print, and what they mean by it.  They tell    *)
(* the truth about the bitcode; which lines Symbiotic takes for an answer  *)
(* is its own business.                                                    *)
(***************************************************************************)
Lines ==
    CASE conf.tool \in {"klee", "testcomp"} ->
            {"ASSERTIONFAILED", "EFREE", "EMEMERROR", "EMEMLEAK", "EMEMCLEANUP", "noise"}
            \cup Complaints
      [] conf.tool = "klee-full" ->
            {"ASSERTIONFAILED", "EDOUBLEFREE", "EMEMLEAK", "EMEMERROR", "noise"} \cup Complaints
      [] conf.tool = "witch-klee" ->
            {"unreach-call", "valid-free", "valid-memtrack", "termination", "EKILLSTATE",
             "may not be confirmed", "noise"}
      [] conf.tool = "slowbeast" ->
            {"assertion", "memory error", "Error found.", "Found errors: 0",
             "Killed paths: 0", "a problem was met", "noise"}
      [] conf.tool = "cbmc" ->
            {"Unmodelled library functions", "leak", "dereference failure",
             "arithmetic overflow", "VERIFICATION SUCCESSFUL", "VERIFICATION FAILED", "noise"}
      [] conf.tool = "nidhugg" -> {"No errors were detected.", "Assertion violation", "noise"}
      [] conf.tool = "divine" ->
            {"error found: yes", "error found: no", "error found: boot", "memory error",
             "free", "leak", "not implemented", "assertion violation", "noise"}
      [] conf.tool = "seahorn" ->
            {"Result TRUE", "Result FALSE", "Result UNKNOWN", "Termination", "noise"}

Codes == IF conf.tool = "cbmc" THEN {0, 6, 10} ELSE {0, 1}

\* The current bound is enough to find the error, or to see all of the program.
Enough == world.enough <= Schedule[turn].bound

\* Lines of KLEE about errors that are violations of the property.
KleeViolations ==
    IF conf.tool = "klee-full"
    THEN {"ASSERTIONFAILED"} \cup (IF Is({"memsafety"}) THEN {"EDOUBLEFREE", "EMEMLEAK"} ELSE {})
    ELSE CASE Is({"memsafety"}) ->
                 {"EFREE", "EMEMERROR", "EMEMLEAK"}
                 \cup (IF SvComp THEN {} ELSE {"EMEMCLEANUP"})
           [] Is({"nullderef"}) -> {"EMEMERROR"}
           [] Is({"memcleanup"}) -> {"EMEMCLEANUP"}
           [] OTHER -> {"ASSERTIONFAILED"}

\* The output says that there is an error.  Without initial values the paths
\* of KLEE are not those of the program.
SaysError ==
    CASE conf.tool \in Kleish -> PrintedOf(KleeViolations) /\ ~Printed("EINITVALS")
      [] conf.tool = "witch-klee" -> PrintedOf(Errors)
      [] conf.tool = "slowbeast" -> Printed("assertion") /\ ~NoErrors
      [] conf.tool = "nidhugg" -> Printed("Assertion violation")
      [] conf.tool = "divine" -> Printed("error found: yes")
      [] conf.tool = "seahorn" -> Printed("Result FALSE")
      [] conf.tool = "cbmc" ->
            \/ PrintedOf({"leak", "dereference failure", "arithmetic overflow"})
            \/ Printed("VERIFICATION FAILED") /\ (Schedule[turn].only = "false" \/ Enough)

\* The output says that there is none.
SaysNoError ==
    CASE conf.tool \in Kleish -> code = 0 /\ ToSet(output) \subseteq {"noise"}
      [] conf.tool = "witch-klee" -> code = 0 /\ ToSet(output) \subseteq {"noise"}
      [] conf.tool = "slowbeast" ->
            NoErrors /\ Printed("Killed paths: 0") /\ ~Printed("a problem was met")
      [] conf.tool = "nidhugg" -> Printed("No errors were detected.")
      [] conf.tool = "divine" ->
            code = 0 /\ ToSet(output) \subseteq {"error found: no", "noise"}
      [] conf.tool = "seahorn" -> Printed("Result TRUE")
      [] conf.tool = "cbmc" ->
            Printed("VERIFICATION SUCCESSFUL") /\ (Schedule[turn].only = "true" \/ Enough)

\* CBMC cannot see an error behind the bound, and a run that checks the bound
\* fails when it is not enough.
Truthful ==
    /\ SaysError => world.error /\ (conf.tool = "cbmc" => Enough)
    /\ SaysNoError => ~world.error
    /\ conf.tool = "cbmc" /\ Schedule[turn].only = "true"
       /\ Printed("VERIFICATION SUCCESSFUL") => Enough

----------------------------------------------------------------------------

Init ==
    /\ conf \in [tool : Targets, property : Kinds, competition : Modes]
    /\ conf.competition = "test-comp" => conf.tool \in Kleish
    /\ conf.tool = "testcomp" => conf.competition = "test-comp"
    /\ conf.tool = "witch-klee" => conf.competition = "sv-comp"
    /\ conf.property \in Covering <=> conf.competition = "test-comp"
    /\ world \in [error : BOOLEAN, enough : 1..(Bounds + 1)]
    /\ conf.tool # "cbmc" => world.enough = 1
    /\ turn = 1
    /\ pc = "run"
    /\ output = <<>>
    /\ code = 0
    /\ answer = None

\* process.run
RunTool ==
    /\ pc = "run"
    /\ pc' = "read"
    /\ UNCHANGED <<conf, world, turn, answer>>
    /\ output' \in BoundedSeq(Lines, MaxLines)
    /\ code' \in Codes
    /\ Truthful'

Conclusive(a) == a.says \in {"true", "false"}

MoreVerifiers == turn < Len(Schedule)

\* The verifier answers, and is the last one if it is conclusive.  The next
\* one gets a watch of its own.
Determine ==
    /\ pc = "read"
    /\ answer' = DetermineResult
    /\ IF ~Conclusive(answer') /\ MoreVerifiers
       THEN /\ turn' = turn + 1
            /\ pc' = "run"
            /\ output' = <<>>
            /\ code' = 0
       ELSE /\ pc' = "done"
            /\ UNCHANGED <<turn, output, code>>
    /\ UNCHANGED <<conf, world>>

Next == RunTool \/ Determine

Spec == Init /\ [][Next]_vars /\ WF_vars(Next)

----------------------------------------------------------------------------

(***************************************************************************)
(* Each target reports only what its verifier said of the program, and     *)
(* what a run within a bound says is not taken for more than it is: the    *)
(* answer keeps the promise of Verdict.  That an answer is given at all is *)
(* part of it.                                                             *)
(***************************************************************************)
Summary ==
    CASE pc # "done" -> "none"
      [] pc = "done" /\ Conclusive(answer) -> answer.says
      [] OTHER -> "undecided"

V == INSTANCE Verdict WITH
        error  <- world.error,
        answer <- Summary,
        basis  <- IF pc = "done" THEN "unsliced" ELSE "none"

KeepsPromise == V!Spec

\* The errors that a property is about.
ErrorsOfProperty ==
    CASE UnreachCall -> {"unreach-call"}
      [] Is({"undefinedness"}) -> {"def-behavior"}
      [] Is({"signedoverflow"}) -> {"no-overflow"}
      [] Is({"memsafety"}) -> Memory \cup (IF SvComp THEN {} ELSE {"valid-memcleanup"})
      [] Is({"memcleanup"}) -> {"valid-memcleanup"}
      [] Is({"nullderef"}) -> {"valid-deref"}
      [] Is({"termination"}) -> {"termination"}
      [] OTHER -> {}

\* KLEE refutes a property by an error of that property, also when it met
\* errors of another kind before it or went on after it (klee.py:450-475).
RefutesItsProperty ==
    conf.tool = "klee" /\ answer.says = "false" => answer.names \subseteq ErrorsOfProperty

\* When KLEE met threads and gave up, its answer says so, whatever else it
\* complained about: verifier_failed of the svcomp target looks there to
\* decide that slowbeast has to run with -threads (svcomp.py:135).
ThreadsAreSeen ==
    /\ conf.tool \in {"klee", "klee-full"} /\ conf.competition # "test-comp"
    /\ pc = "done" /\ Printed("EPTHREAD") /\ ~Conclusive(answer)
    => "EPTHREAD" \in answer.names

\* An answer of these targets that is none starts with a word at which the
\* driver tries again on the unsliced code (symbiotic.py:98), or is the "done"
\* of test generation, which is an answer there.  With full instrumentation,
\* divine and seahorn it need not.
UndecidedIsRetried ==
    /\ conf.tool \in {"klee", "witch-klee", "slowbeast", "cbmc", "nidhugg"}
    /\ conf.competition # "none" /\ pc = "done" /\ ~Conclusive(answer)
    => answer.says \in {"unknown", "error", "done"}

=============================================================================
