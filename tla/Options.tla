------------------------------- MODULE Options -------------------------------
(***************************************************************************)
(* The command line of Symbiotic: what parse_command_line makes of a list  *)
(* of arguments, one after the other, with the settings that --sv-comp,    *)
(* --test-comp and --witness-check stand for, and what the main script     *)
(* changes afterwards.  An argument is a pair of an option and its value.  *)
(* Only the options that some model reads are kept.                        *)
(***************************************************************************)
EXTENDS Property, Hooks, SequencesExt

\* SymbioticOptions.__init__
Defaults ==
    [tool |-> "klee", prp |-> <<Line("keyword", "assert")>>, prpfile |-> {},
     noslice |-> FALSE, requireSlicer |-> FALSE, repeatSlicing |-> 1,
     noOptimize |-> FALSE, optlevel |-> {"before-O3", "after-O3"},
     noInstrument |-> FALSE, fullInstrumentation |-> FALSE,
     overflowWithClang |-> FALSE, unroll |-> 0,
     linkundef |-> <<"verifier", "libc", "posix", "kernel">>, linkFiles |-> {},
     mallocNeverFails |-> FALSE, explicitSymbolic |-> FALSE,
     svComp |-> FALSE, testComp |-> FALSE, witnessCheck |-> FALSE,
     guideOnly |-> FALSE, exitOnError |-> FALSE, replayError |-> FALSE,
     nowitness |-> TRUE, witness |-> FALSE, graphmlWitness |-> FALSE,
     slicerTimeout |-> 0, instrumentationTimeout |-> 0]

Arg(option, value) == [option |-> option, value |-> value]

\* Mutant: a competition mode starts with its own optimizations.
StartsOver(o) ==
    [o EXCEPT !.explicitSymbolic = TRUE, !.linkundef = Append(@, "svcomp"),
        !.noOptimize = FALSE]

\* What --sv-comp, --test-comp and --witness-check have in common.
Competition(o) ==
    [o EXCEPT !.explicitSymbolic = TRUE, !.linkundef = Append(@, "svcomp")]

SetSvcomp(o) ==
    [Competition(o) EXCEPT !.svComp = TRUE, !.nowitness = FALSE,
        !.witness = TRUE, !.graphmlWitness = TRUE, !.mallocNeverFails = FALSE,
        !.replayError = TRUE, !.tool = "svcomp", !.slicerTimeout = 300,
        !.instrumentationTimeout = 400, !.exitOnError = TRUE]

SetTestcomp(o) ==
    [Competition(o) EXCEPT !.testComp = TRUE, !.mallocNeverFails = TRUE,
        !.replayError = TRUE, !.tool = "testcomp", !.slicerTimeout = 60,
        !.instrumentationTimeout = 60, !.exitOnError = TRUE]

SetWitnessCheck(o) ==
    [Competition(o) EXCEPT !.witnessCheck = TRUE, !.svComp = TRUE,
        !.nowitness = ~o.guideOnly, !.mallocNeverFails = FALSE,
        !.replayError = FALSE, !.tool = "witch-klee", !.exitOnError = FALSE,
        !.noslice = TRUE, !.noInstrument = TRUE, !.noOptimize = TRUE]

\* The field that an option without a value sets to True, "none" for others.
TurnsOn(option) ==
    CASE option = "--no-slice" -> "noslice"
      [] option = "--require-slicer" -> "requireSlicer"
      [] option = "--no-instrument" -> "noInstrument"
      [] option = "--exit-on-error" -> "exitOnError"
      [] option = "--full-instrumentation" -> "fullInstrumentation"
      [] option = "--overflow-with-clang" -> "overflowWithClang"
      [] option = "--malloc-never-fails" -> "mallocNeverFails"
      [] option = "--explicit-symbolic" -> "explicitSymbolic"
      [] option = "--guide-only" -> "guideOnly"
      [] option = "--replay-error" -> "replayError"
      [] option = "--no-witness" -> "nowitness"
      [] OTHER -> "none"

\* The field that an option assigns its value to, "none" for others.
Assigns(option) ==
    CASE option = "--target" -> "tool"
      [] option = "--repeat-slicing" -> "repeatSlicing"
      [] option = "--unroll" -> "unroll"
      [] option = "--prp" -> "prp"
      [] option = "--slicer-timeout" -> "slicerTimeout"
      [] option = "--instrumentation-timeout" -> "instrumentationTimeout"
      [] OTHER -> "none"

\* Names that are not in the list are ignored.
RemoveLinkundef(o, dir) == [o EXCEPT !.linkundef = RemoveFirst(@, dir)]

NoOptimize(o) == [o EXCEPT !.noOptimize = TRUE, !.optlevel = {}]

\* One iteration of the loop over the arguments.  Options that the models do
\* not read, among them --no-link-undefined, which nothing reads, change
\* nothing.
Apply(o, a) ==
    CASE TurnsOn(a.option) # "none" -> [o EXCEPT ![TurnsOn(a.option)] = TRUE]
      [] Assigns(a.option) # "none" -> [o EXCEPT ![Assigns(a.option)] = a.value]
      [] a.option = "--no-replay-error" -> [o EXCEPT !.replayError = FALSE]
      [] a.option = "--witness" -> [o EXCEPT !.nowitness = FALSE, !.witness = TRUE]
      [] a.option = "--graphml-witness" ->
            [o EXCEPT !.nowitness = FALSE, !.graphmlWitness = TRUE]
      [] a.option = "--no-link" -> RemoveLinkundef(o, a.value)
      [] a.option = "--link" -> [o EXCEPT !.linkFiles = @ \cup a.value]
      [] a.option = "--no-optimize" -> NoOptimize(o)
      [] a.option = "--optimize" ->
            IF "none" \in a.value THEN NoOptimize(o) ELSE [o EXCEPT !.optlevel = a.value]
      [] a.option = "--sv-comp" -> SetSvcomp(o)
      [] a.option = "--test-comp" -> SetTestcomp(o)
      [] a.option = "--witness-check" -> SetWitnessCheck(o)
      [] OTHER -> o

\* The conflicts that parse_command_line reports, after which it stops.
Conflict(o) ==
    \/ o.requireSlicer /\ o.noslice
    \/ ~o.nowitness /\ ~(o.exitOnError \/ o.witnessCheck)

\* The loop over the arguments, as the options after the first i of them.
Parse(args) ==
    LET after[i \in 0..Len(args)] ==
            IF i = 0 THEN Defaults ELSE Apply(after[i - 1], args[i])
    IN  after[Len(args)]

IsCoverage(p) == p.kind \in {"coverBranches", "coverConditions", "coverStmts", "errorcall"}

\* The main script, once the property is known: no slicing for coverage.
SetUp(o, p) == IF o.testComp /\ IsCoverage(p) THEN [o EXCEPT !.noslice = TRUE] ELSE o

\* The switches that no argument and no mode is to take back.
Switches == {"--no-slice", "--no-optimize", "--no-instrument", "--require-slicer"}

\* What SymbioticCC gets: options, property, and the history of the switches.
ConfigurationOf(args) ==
    LET p == GetProperty(Parse(args).prp, Parse(args).prpfile)
        o == SetUp(Parse(args), p)
    IN  [tool |-> o.tool, property |-> p.kind, calls |-> p.calls,
         fullInstrumentation |-> o.fullInstrumentation,
         overflowWithClang |-> o.overflowWithClang, witnessCheck |-> o.witnessCheck,
         mallocNeverFails |-> o.mallocNeverFails,
         explicitSymbolic |-> o.explicitSymbolic, svComp |-> o.svComp,
         linkundef |-> IF LinksNothing(o.tool) THEN {} ELSE ToSet(o.linkundef),
         linkFiles |-> o.linkFiles, unroll |-> o.unroll,
         repeatSlicing |-> o.repeatSlicing, requireSlicer |-> o.requireSlicer,
         noInstrument |-> o.noInstrument,
         instrumentationTimeout |-> o.instrumentationTimeout,
         noslice |-> o.noslice, noOptimize |-> o.noOptimize, optlevel |-> o.optlevel,
         given |-> {args[i].option : i \in DOMAIN args} \cap Switches]

=============================================================================
