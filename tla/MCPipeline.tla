----------------------------- MODULE MCPipeline -----------------------------
(***************************************************************************)
(* An instance of Pipeline for TLC: the configurations are what Options    *)
(* makes of command lines of three parts, in both orders of the last two.  *)
(***************************************************************************)
EXTENDS Pipeline, Options

\* The modes, with the arguments that they need.
Modes ==
    {<<Arg("--sv-comp", "")>>, <<Arg("--test-comp", "")>>,
     <<Arg("--witness-check", "")>>, <<Arg("--sv-comp", ""), Arg("--target", "klee")>>}
    \cup {<<Arg("--target", t)>> : t \in {"klee", "nidhugg", "cbmc", "cpachecker"}}

Keyword(k) == <<Arg("--prp", <<Line("keyword", k)>>)>>

\* The properties, given by keywords and by a formula.
Questions ==
    {Keyword(k) : k \in {"memsafety", "no-overflow", "termination", "undefined", "coverage"}}
    \cup {<<Arg("--prp", <<Line("G ! call", "reach_error")>>)>>}

Extras ==
    {<<>>, <<Arg("--no-slice", "")>>, <<Arg("--require-slicer", "")>>,
     <<Arg("--no-optimize", ""), Arg("--optimize", {"after-O3"})>>,
     <<Arg("--optimize", {"after-O3"}), Arg("--repeat-slicing", 2)>>,
     <<Arg("--repeat-slicing", 0)>>,
     <<Arg("--no-instrument", "")>>, <<Arg("--full-instrumentation", "")>>,
     <<Arg("--overflow-with-clang", ""), Arg("--instrumentation-timeout", 5)>>,
     <<Arg("--unroll", 2), Arg("--link", {"strlen"})>>,
     <<Arg("--malloc-never-fails", ""), Arg("--no-link", "libc")>>}

\* Options that could come before what overrides them.
CommandLines ==
    {m \o q \o e : m \in Modes, q \in Questions, e \in Extras}
    \cup {e \o m \o q : m \in Modes, q \in {Keyword("memsafety"), Keyword("no-overflow")},
                        e \in Extras}

MCConfigurations == {ConfigurationOf(a) : a \in {b \in CommandLines : ~Conflict(Parse(b))}}

MCPrograms == {{}, {"malloc", "strlen"}, {"atexit", "__VERIFIER_assert", "malloc"}}

\* Where lib/ has what: the directories and the calls of the definitions.
MCLib ==
    {"atexit", "strlen", "__VERIFIER_assert", "__VERIFIER_malloc", "__VERIFIER_assume",
     "__VERIFIER_exit", "__VERIFIER_silent_exit", "__INSTR_check_assume", "__INSTR_fail",
     "__INSTR_check_nontermination"}

MCDirectory ==
    [f \in MCLib |-> CASE f \in {"atexit", "strlen"} -> "libc"
                       [] f = "__VERIFIER_assume" -> "svcomp"
                       [] OTHER -> "verifier"]

MCCalls ==
    [f \in MCLib |-> CASE f = "__VERIFIER_malloc" -> {"malloc", "__VERIFIER_assume"}
                       [] f = "__VERIFIER_silent_exit" -> {"__VERIFIER_assume"}
                       [] f = "__INSTR_check_assume" -> {"__INSTR_fail"}
                       [] OTHER -> {}]

MCFailing == {"__VERIFIER_assert", "__INSTR_fail"}

=============================================================================
