# Symbiotic/Witch in TLA+

Symbiotic (here in the version that contains the witness validator Witch) is a
tool chain for the verification of C programs: Python scripts compile a program
to LLVM bitcode, instrument, slice and optimise it, and run one or several
verifiers on the result.  This directory holds TLA+ models of its control: what
it does in which order, what it keeps in memory and on disk meanwhile, and what
it makes of the answers it gets.  Every definition that models code is listed
with its source lines in `PROJECT.json` under `map`.

## 1. The system

| Component | Source (under `src/`) | State it keeps | Operations | Correct if |
|---|---|---|---|---|
| Main script | `scripts/symbiotic` | `ret`, the alarm, the try/except/finally it is in | run, report, clean up | exit code and RESULT lines agree, no directory is left behind without a word |
| Process runner | `utils/process.py`, `utils/watch.py`, `utils/timeout.py` | the class-wide `current_process`, the output of the child | run, terminate, kill; alarm handler | one process at a time, none survives the script |
| Driver | `symbiotic.py`, `verifier.py` | options it rewrites (`noslice`, `replay_error`, `tool_params`), `curfile`, result, deciding tool, `has_error` | verify, retry unsliced, replay an error, rerun, write a witness | the answer is justified by the runs that were made |
| svcomp schedule | `targets/svcomp.py` | `_hit_threads`, the suspended generator | next verifier, verifier_failed | threads go to tools that know them |
| Compilation pipeline | `transform.py`, `includepaths.py`, `optimizations.py` | `curfile`, `_linked_functions`, the file kept for an unsliced run | compile, link, instrument, slice, optimise | every pass sees what it needs; the unsliced file is the same program |
| Environment | `environment.py`, `runtime.py` | search paths, the working directory | set up, look up files | files of the right tool are found |
| Options and property | `options.py`, `property.py` | one mutable object that all others read | parse | what a switch forbids stays forbidden wherever it stands |
| Targets | `targets/*.py` | per tool settings | command line, passes, environment, `determine_result` | output is never read as a stronger answer than it is |
| Witness transformer | `witnesses/witchtransformer.py` | the witness, dictionaries of locations, pending insertions, shifts | read, traverse the syntax tree, insert, shift | inserted calls and rewritten locations name the code the witness names |
| YAML witness writer | `witnesses/YAMLwitnesswriter.py` | shifts, trace | parse, shift back, write | locations are those of the original program |
| Test generation | `scripts/kleetester.py` | running generators, a count of tests | start, poll, kill | at most 8 generators, all ended, all tests written |
| LLVM passes | `transforms/*.cpp` | the module | one rewriting each | behaviour relevant for the property is kept |
| Library models | `lib/libc`, `lib/verifier`, `lib/posix`, ... | C objects | C functions | they do what the C standard says |
| GraphML, test suites, integrity check, BenchExec, build scripts | | none of interest | output, formatting | |

How they interact.  `scripts/symbiotic` calls `Symbiotic.run`, which runs
`SymbioticCC` (the pipeline) once and one `SymbioticVerifier` after another.
Both start programs with `ProcessRunner`, whose handle is an attribute of the
*class*, so that signal handlers, which run between any two bytecodes, reach
the process from wherever they interrupt.  The options object is shared by all
and written by the driver and by targets while later parts still read it.  A
target is a set of callbacks that the driver and the pipeline call; that of
`svcomp` is a generator which is resumed after the driver told it what the
last verifier did.  Files connect the runs too: `klee-last` is whatever KLEE
wrote last.

What is hard about it: exceptions from signal handlers at arbitrary points;
children that hang or ignore signals; the order of answers and of writes to
shared options; retries that reuse state of the first attempt; failures of one
step after which later ones still run; positions in a text that is edited while
they are used.  The concrete places are the `hazards` of `PROJECT.json`.

## 2. The models

### Supervision

`Supervision.tla` is a run of `scripts/symbiotic` with everything that can
interrupt it.  `pc` is the point the script has reached: the statements before
`try`, the work inside it (a loop that starts commands, because what the
commands compute does not matter here), the `except` clauses, and each
statement of the `finally` block.  `current` is
`ProcessRunner.current_process`; `leader[j]` and `helper[j]` are the operating
system's view of the process of command `j` and of what that process started.
`Fork` and `StoreHandle` are two actions because a signal handler may run
between the return of `fork` inside `Popen` and the assignment.  `RaiseTimeout`,
`AlarmKills` and `Interrupt` are enabled at (nearly) every `pc`, with the
consequence the surrounding handlers give them.  `StartReport` and `ReportResults`
are the two prints of a RESULT line, so an alarm can leave one without its result.
`Cleanup` may fail to remove the directory: rmtree then prints (`warned`) and the script
goes on to its exit code.  `LeaderExits` and
`HelperExits` are the operating system.

Properties: `OneProcess` is the assertion at the head of `run`; `NoChildLost`
says which processes can survive the script; `ZeroMeansDone` relates the exit
code to output, alarm and working directory (gone, kept on request, or reported as
not removable); `TimeoutIsLast` orders the RESULT
lines; `TimeoutEnds` and `LeavingEnds` say that the script ends though children
may hang.

Fairness: weak fairness for the script (the interpreter runs), for the alarm
(time passes), and for the end of a process *that has got SIGKILL*.  No other
process has to end and the user has to press nothing.

### Driver and Verdict

`Verdict.tla` is the promise: a run answers once, and the answer with the
bitcode it rests on is justified.  A replayed path proves nothing, and an error
found on more than the sliced bitcode is one of the program.

`Driver.tla` is `Symbiotic._run_symbiotic`, the loop of `SymbioticVerifier` and
the schedule of `targets/svcomp.py`.  `conf` holds options that no step
assigns, `noslice`, `replayError` and `toolParams` those that are rewritten.
`world` says what is true of the program: does it have an error, does slicing
add a spurious one, has it threads, could it be instrumented.  `purpose` is the
reason for which the present `SymbioticVerifier` was created, and its answers
are those a sound verifier can give on the bitcode and with the parameters it
gets (`ResultsOf`).  The pipeline is the action `Compile` with its possible
outcomes.  `KeepsPromise` is the refinement of `Verdict` under the mapping
`Promise`; the other invariants are about the final answer (`TrueIsSound`,
`FalseIsConfirmed`), about the verifiers that were chosen (`ThreadsRouted`,
`OwnPassesOnly`, over the history `log`) and about the witness
(`WitnessOfAnswer`).

Fairness: weak fairness of the next step.  A verifier has a timeout of its own
or that of the run, so its call returns.

### WitnessTransform

`WitnessTransform.tla` is `witnesses/witchtransformer.py`: the locations a
violation witness mentions are collected, `traverse_AST` looks every node up in
the dictionaries, `transform` turns waypoints into insertions and
`_insert_calls` / `_shift_witness` edit the text and the witness.  A program is
a record of lines (sequences of characters) and nodes in the order libclang
reports them; an inserted text is a value that compares like the string it
stands for, with a small distinct width, and each character of the output
remembers where it came from (`at`) or what it was inserted for (`new`).
`_insert_calls` sorts its list three times and goes through it; here the list stays
as it is and the item put in next is one that no other precedes (`IsNext`).  So
the properties can compare the output with the original tree:
`ShiftsMatchText` relates the table `_shift` to the text after every single
insertion; `CallsStayOnCode`, `AssumptionsGuardStatements` and
`BranchesWrapControl` say that witness and calls are where the waypoints point.

`ShiftBack` is the way back, `shift_back` of `witnesses/YAMLwitnesswriter.py`:
with `--guide-only` the validator writes a witness of its own, and the locations
it met in the changed text have to become locations of the program the user
gave.  The two functions stand in different classes and work with the same table
from two sides; `BackAtOriginal` composes them.

### Property, Options, Hooks and Pipeline

`Property.tla` and `Options.tla` are pure: `GetProperty` makes a property of
keywords or of the lines of a property file, `Parse` applies `Apply` to one
argument after the other.  `Hooks.tla` is what the targets ask of the pipeline, one operator
for each callback of `SymbioticBaseTool` and the targets that replace it.

`Pipeline.tla` is `SymbioticCC`, with an action for every step of `run` that
makes a new file, for linking one round (`LinkRound`), for slicing one
(`Slice`, `GiveUpSlicing`, `SliceAgain`), and for `prepare_unsliced_file`, which
shares `process_after_slicing` with `run` (`caller` says for whom it works).
`link_undefined` is called in six places: `goal` holds what to link and where to
go on.  Bitcode is a record of what matters later: the steps that made it, the
functions it calls without defining them, those linked into it, and where its
calls of error functions come from.  `files` is the working directory; a name is
the multiset of suffixes that the code appends (`-pr`, `-inst`, `-ln`, `-opt`,
`.sliced`), so that a step that would write over an earlier file does so in the
model.  `Raise` lets any program that is called fail; `GiveUpInstrumentation` and
`GiveUpSlicing` are the failures after which the code goes on.

`Compiler.tla` is what the driver relies on: one bitcode is handed over,
complete, not sliced if slicing was forbidden at the time; each later unsliced file is
complete and not sliced; what was handed over does not change.  `KeepsContract`
is the refinement.  `SwitchesObeyed` composes Options with Pipeline: the
configurations of `MCPipeline` are what `ConfigurationOf` makes of real argument
lists, and `--no-slice`, `--no-optimize`, `--no-instrument` and `--require-slicer` have
to be obeyed in the bitcode, whatever stood before and behind them and whatever
step failed.  It says nothing of other options, some of which are not obeyed (see
section 3).  `SlicedForItsChecks` demands that what is sliced was
instrumented first, and that inserted marks are slicing criteria; the criteria for
checks with definitions of their own (`links`) are called in those definitions,
which come with the submodule of the instrumentation.

Fairness: weak fairness of the steps, and none of `Raise`: programs that are
called end, but nothing fails by necessity.

### Answers

`Answers.tla` is `determine_result` of the targets whose answers reach the
driver, and the loop of `run_verification` over the verifiers of a target (for
cbmc a schedule of growing bounds).  `world` is the truth about the program,
`Truthful` what the verifiers promise: if one says "error" there is one.  It is
stated about the tools' lines, apart from the code that reads them.
`KeepsPromise` refines `Verdict` a second time, from below: Driver assumes sound
answers, here they are made.  `ThreadsAreSeen` and `UndecidedIsRetried` are about the
words of an answer that other parts look into (`'EPTHREAD' in res`,
`startswith('unknown')`).

### KleeTester

`KleeTester.tla` is `scripts/kleetester.py`.  `pc` is the statement of `main`,
`generators`, `ahead` and `newgens` the list, the part of it that the loop at work
has still to visit and the list that replaces it.  In the waiting loop the latter
is an alias of the former, so `Look` puts a living process to the end of what it
iterates over.  A process runs, blocks on a full pipe, or ends, with an error or
without; a second `communicate` raises (`"closed pipe"`).

Fairness: weak fairness of the script only.  No KLEE has to end; `Finishes` says
that the script ends if they do, `ErrorStops` needs only the one that found the
error.

## 3. Runs

| Run | Instance | Shows |
|---|---|---|
| `supervision` | 2 commands, 2 Ctrl-C, timeout or none | all properties of Supervision |
| `supervision_kill` | 2 commands, no Ctrl-C | **violated**: `AllKilledOnTimeout` |
| `driver` | every target, property and combination of options; `tool_params` empty | all properties of Driver, refinement of Verdict |
| `driver_params` | the same with one tool parameter | **violated**: `TrueIsSound` |
| `witness_transform` | five programs (if, calls in a loop, for/switch, ternary/do, a `for(;;s)` with an if whose condition takes two lines), all witnesses of one segment with two waypoints, to be avoided, followed or cycled, and of two segments | all properties of WitnessTransform |
| `witness_target` | the `if` program, two segments | **violated**: `TargetEndShifted` |
| `witness_segments` | the `if` program, all locations checked | **violated**: `BadSegmentsNumbered` |
| `witness_for` | `for(i=0;;s)f();` | **violated**: `BranchesWrapControl` |
| `pipeline` | about 700 command lines: 8 modes and targets, 6 properties, 11 groups of further options, in two orders; 3 programs; a library of ten functions that call each other; two unsliced files | all properties of Pipeline, refinement of Compiler |
| `pipeline_asserts` | the same | **violated**: `OnlyChecksFail` |
| `answers` | all targets, properties and modes; up to 3 lines of output; 2 bounds and programs that need 3 | all properties of Answers, refinement of Verdict |
| `kleetester` | 4 targets, at most 3 generators at once | all properties of KleeTester |

Bounds.  Two commands are needed for a handle that outlives its command, and
no state of the runner remembers more than one; two Ctrl-C are a second
interrupt while the first one is handled, the third cannot reach a new place.
The driver has no bound: its runs are finite because every retry switches off
what leads to it.  Two waypoints at one position are what the ordering and
shifting of insertions depends on; the programs contain every kind of statement
and expression that the code distinguishes, with several nodes that start at the
same position and with waypoints without columns.

The library of `pipeline` has chains of three calls, so that linking takes
several rounds; a third unsliced file starts from the same state as the second.
Three lines of output are a complaint, an error and what comes between or
behind them: no reader of the output keeps more than the last line of a kind and
the first that decides.  Three instead of eight generators are reached with four
targets, with one process left to start afterwards.

CHECK_DEADLOCK is off everywhere: every modelled run ends.

Disagreements between code and comments (the `findings` of `PROJECT.json`):
a process forked just before a timeout survives; the end of a target location
is shifted too far; segment numbers are wrong behind an invalid location; of a
`for` without a condition the step is taken for the condition; the replay
of an error leaves its parameter in the options, so that a rerun "proves" a
program by replaying one path; and `__VERIFIER_assert` is linked after the calls of error
functions were removed, so KLEE can take a failed assertion for undefined
behaviour or an overflow.

Others that the models contain, each with the definition that shows or leaves it out:

- With `--repeat-slicing` above 1 a failing later round sets `noslice` for a file
  that is sliced (`FlagTellsSlicing`, `KeepsContract`), and the loops of a
  termination task are removed without having been broken when `before-O3` is
  off (`LoopsBroken`).
- `passes_after_slicing` (`targets/tool.py:205`) names the overflow marks to be
  deleted, but not the pass that deletes them; they stay.
- Coverage without `--test-comp` has no slicing criterion: an assertion fails
  (`NoCriterion`).
- In the waiting loop of kleetester no process is ever taken off the list: it ends when all
  of them have.  It polls without a pause, then `communicate` is called for the
  second time; for coverage without the KLEE on the whole program nothing ends it
  (`Finishes`).
- A single finding of full instrumentation is answered as it is, and some
  messages of divine and seahorn start with words the driver does not know; none
  of these is tried again (`UndecidedIsRetried`).
- `--no-link-undefined` is parsed ("Will not try to find and link undefined
  functions", `options.py:306`) into a field that nothing reads: `link_undefined` looks
  at `linkundef` only (`Apply` of Options leaves it out).  `--malloc-never-fails`
  in front of `--sv-comp` or `--witness-check` is overwritten (`SetSvcomp`,
  `SetWitnessCheck`).  `SwitchesObeyed` is about four other switches.
- Slowbeast defines `set_environment` twice (`targets/slowbeast.py:173`); the first
  definition, which would keep functions from being linked, has no effect
  (`LinksNothing` of Hooks leaves slowbeast out).
- In `y=b?f():c;` the parenthesis that closes the call around the condition comes
  one column too late, behind the question mark (`BranchesWrapControl`; TLC shows it in
  the run `witness_for` when `Programs` is `{"tight"}`).
- On the line of the first declaration of a `.i` file the columns are off by
  the length of the inserted declarations, both ways (`CallsStayOnCode`,
  `BackAtOriginal`).

## 4. Proofs

| Theorem | Property | For every |
|---|---|---|
| `SupervisionProofs!TypeCorrect`, `AtMostOneProcess`, `ChildrenAccountedFor` | `TypeOK`, `OneProcess`, `NoChildLost` | number of commands and interrupts |
| `SupervisionProofs!ZeroIsReliable`, `NothingAfterTimeout` | `ZeroMeansDone`, `TimeoutIsLast` | the same |
| `DriverProofs!DriverTypes`, `ReplayedIsReal`, `ThreadsAreRouted`, `EachOnItsOwn`, `WitnessFits` | `TypeOK`, `FalseIsConfirmed`, `ThreadsRouted`, `OwnPassesOnly`, `WitnessOfAnswer` | choice of tool parameters |
| `DriverProofs!Soundness`, `Refinement` | `TrueIsSound`, the safety part of `KeepsPromise` | no tool parameters |
| `PipelineProofs!TypeCorrect`, `HandedIsKept`, `DeliveredIsLinked` | `TypeOK`, `HandedKept`, `LinkedAll` | set of configurations, library and number of unsliced files |
| `PipelineContract!FlagIsReliable`, `Refinement` | `FlagTellsSlicing`, `KeepsContract` | the same |
| `PipelineSteps!SlicedAfterInstrumentation`, `MarksComeFirst`, `LoopsAreBroken`, `PreparedIsTheSame` | `SlicedForItsChecks`, `MarkedBeforeOptimized`, `LoopsBroken`, `PreparedSame` | the same |
| `PipelineSteps!SwitchesAreObeyed` | `SwitchesObeyed` | set of command lines (any sequences of arguments), library and number of unsliced files |
| `WitnessTransformProofs!WitnessInvariant`, `TypeCorrect`, `ShiftsAlwaysMatchText`, `CallsAlwaysStayOnCode`, `AlwaysBackAtOriginal`, `GuardInvariant`, `AssumptionsAlwaysGuard` | `TypeOK`, `ShiftsMatchText`, `CallsStayOnCode`, `BackAtOriginal`, `AssumptionsGuardStatements` | program and witness |
| `WitnessTransformProofs!BranchInvariant`, `BranchesAlwaysWrapped` | `BranchesWrapControl` | program and witness whose branching waypoints are at control expressions that fit (`ControlsFit`) |
| `AnswersProofs!RefutedByItsErrors`, `ThreadsAreNamed`, `NothingIsLost` | `RefutesItsProperty`, `ThreadsAreSeen`, `UndecidedIsRetried` | length of the output and number of bounds |
| `AnswersProofs!TypeCorrect`, `Refinement` | types, the safety part of `KeepsPromise` | the same |
| `KleeTesterProofs!TypeCorrect`, `NoMoreThanLimit`, `NoErrorLost` | `TypeOK`, `AtMostLimit`, `NoErrorMissed` | number of targets, limit of two or more |

**Supervision.**  No property is inductive.  `IInv` adds `HandleInv`: before a
handle is stored and after it is cleared there is none, each running process is
the current one, just forked or an orphan, behind `kill_wait` the current process
does not run, and an alarm that is pending raises.  `InitIInv`, `NextTypeOK` and
`NextHandleInv` are the three proof obligations; the preservation proof has one
step per action.  The two properties of the report need `ReportInv` on top of
it: what was reported is a function of the point the script has reached
(`ReportedByPc`), and the script comes to its exit without a waiting exception
only with the alarm off and the directory gone, kept on purpose or complained about
(`CleanEnd`).

**Driver.**  `Soundness` and `Refinement` (each step of the driver is a step of
`Verdict!Decide` or leaves the promise alone) assume `UserParams = {<<>>}`.  The
assumption is needed: `driver_params` is the counterexample without it.  The
inductive invariant `SoundInv` says that only the verifier created for a replay
gets the parameter that replays, and that the result recorded so far is one that
its basis justifies.  The other theorems do without the assumption.  `FalseInv`:
an answer that is a false alarm was given on the sliced program before the
replay.  `LogInv`: the verifiers that ran for the purpose at work are those the
schedule has left behind, so that an entry that repeats one would have to be
twice in a schedule (`Scheduled`).  `WitnessInv`: the last run in the log is the
one that decided, also when that was a replay.

**Pipeline.**  `TypeCorrect` contains the fact that no bitcode
leaves a function undefined that it defines, for which each way to make bitcode
has a lemma of its own.  `HandedIsKept` rests on an invariant about names:
whatever is written after the hand-over is named by more suffixes than the file
remembered for the unsliced program and differs from the one handed over.
`DeliveredIsLinked` rests on one about linking: behind the round that found
nothing more to link, nothing that is delivered gets new calls.

`PipelineContract.tla` builds on both and shows the whole refinement of Compiler,
which states no fairness.  `SlicedInv` is what it adds: before the slicer nothing
in the directory is sliced, the remembered file never is, and so nothing made
of it is either (`NoneSliced`); from the slicer on `noslice` and the current file say
the same (`FlagFits`).  That the remembered file is not sliced needs the names
once more: what run writes from the slicer on has another one (`Beyond`).  `Goes`
says what any other step may do to the status and to `noslice`, so that it is a
stutter or one of `Forbid`, `Fail` and `Prove` of the contract.

`PipelineSteps.tla` is about the order of the passes.  Each of its properties
speaks of the bitcode that is delivered, and is inductive only as a statement about
every file and every point of the run; `StepsInv` is that statement.  `FilesFine`
says of the steps of every file in the directory what holds of steps in any place: what is sliced was
instrumented before (`ChecksKept`), marks come before optimizations
(`MarkedFirst`), side effects are put back before the optimizer sees the file
(`Restored`).  `CurrentFits` says which steps the current file must already have, or cannot have
yet, at each point of the run, without which the next step could not be shown to keep
the order.  `Flags` says that `noslice` and `noOptimize` are never lifted, and
`ResultsFit` carries all of it over to the remembered file and to those handed
over.  `SlicedAfterInstrumentation` adds `MarksAreCriteria`, a case distinction over
what the targets answer.

`SwitchesAreObeyed` is about both modules: its only condition is that
the configurations are made by `ConfigurationOf` from sequences of arguments, whatever
these are.  `ApplyKeeps` says of one argument that it takes none of the four switches
back and that a switch sets its field; `ParseSets` is the induction over the command
line, for which `LoopExists` shows that the loop has a value after each argument.
Together with `Flags` and `FilesFine` this reaches the delivered bitcode.

`PreparedIsTheSame` compares two calls of `prepare_unsliced_file`.  Between them
nothing that a call reads changes (`SameStart`), so both begin with `Revised`, go
through rounds of linking and optimize what these end in.  That the rounds
end in the same bitcode is a fact about iterating `NextLinked`; instead of an
induction over their number, `Reaches(a, b)` says that b is in every set that
contains a and is closed under linking, and `OneEnd` that a reaches at most one
bitcode with nothing left to link.

**WitnessTransform.**  Of the constants only what libclang and the schema of
witnesses promise is assumed (`InputsAssumption`, for `AssumptionsAlwaysGuard` `RolesAssumption`
too): extents lie in the text, a
node comes behind its parent, a control statement has the children its grammar
demands.  Nothing is assumed of the number or the places of the waypoints, or of
which of them share a column.

`WitnessInv` (`WitnessInvariant`) has one part for each piece of state.
`DictsOK`: what a dictionary holds for a location is the start of a call that
ends there, the extent of a full expression that starts there, or a place of the
text.  Therefore each waypoint that transform is past names the start of a node
that it may have meant, and names where that has gone when the witness is written
(`ContentOK`).  `TextOK` is about one line and its records in `_shift`.
`Placed`: character c stands at c plus the sum of the lengths recorded at c or
left of it, and there is no other copy of it.  `Recorded`: the columns of the
records descend, and no insertion that is still to come is right of them.  The
second is why the first survives: `_insert_calls` goes from right to left, so
the text it puts in next (`IsNext`) moves the characters at its column and behind
it by exactly its length (`InsertTextIs`), and adds its length to just their sums
(`AddShiftIs`), also when its column has a record already.  `InsertKeepsPlaces`
puts the two together.

`BackAtOriginal` then is a fact about one line.  `InOrderIsReversed`: the records
in the order of their columns are those of `_shift` backwards.  `ShiftBackIs`:
while they are subtracted from left to right, the column is c plus the sum of the
records that remain; those right of c are passed over.  On the line of the first
declaration the newline behind the declarations comes in between, so this line
stays out.  The sums are recursive functions over the records; `LoopExists` shows
that such a loop has a value at every index, `SumIs` and `SumOfPrefix` what it is.

`AssumptionsAlwaysGuard` rests on a second invariant, `GuardInv`.  A text that was
noted down for a gap between two characters is in the list of insertions or in
the line, in front of the one and behind the other (`Noted`, `InGap`).
`InsertedInGap` and `InsertKeepsGaps` show that it arrives there and stays, also
when more is put in at its column.  `GuardsOK` says that transform, as long as it has found no
invalid location, has noted down the texts of every assumption it is past.  The
number of the segment is right because `s_index` counts along
(`Numbered`); an invalid location breaks this, and then nothing is inserted.
That a text in the gap is next to its character, with nothing of
the source between them, needs `LinesOK`: characters keep their order, and
what is no character of the source is an inserted text.  The theorem takes from
`RolesAssumption` which of the nodes that an assumption waypoint names are
statements: children of a block or a label, nodes of a statement kind, bodies of
control statements.  So it proves that the texts are put around the node that
is_statement accepted, with the kind and the braces that node needs; that
is_statement accepts only statements there is the assumption.  It excludes a
waypoint that names a declaration in the header of a `for`, which the code takes for
a statement.

`BranchesAlwaysWrapped` rests on a third, `WrapInv`: what a branching waypoint
points at is wrapped in one call, with one closing text, in the right order.
`EntriesOK`: the dictionaries hold the extents of control expressions, so that
`BranchingWaypointWraps` can say which texts transform notes down.
`CoveredOK` and `PassedOK`: each place
covered has its call and its closing text noted, and each branching that transform
is past names a covered place.  That there is exactly one call is `ListedOnce` and
`InTextOnce`: a call is in the list once or in the text in one piece, never both.
`ColsOK` keeps the columns of the list within their lines.  In `for(;;)` the call and
the "1)" have the same column, and stay in order because the
call comes first wherever both are (`Opened`).

The theorem speaks of inputs with `ControlsFit`; `BranchInv` is `WrapInv` under
this condition.  It is about the control expressions that the witness points at and
excludes those that the code gets wrong: a `for` with an empty condition and
an initialisation or a step (`witness_for`), one without a step whose
initialisation is a single token, a condition with anything but a blank or a
parenthesis behind it, as in `y=b?f():c;`.  TLC
evaluates the condition for every program of `witness_transform`
(`ControlsAssumption`), so all the behaviours of that run are ones the theorem
speaks of.

**Answers.**  The lemmas of the form `KleeSays` are the substance: for each
target, its reader says "true" or "false" only for an output that says so by the
independent `SaysNoError` and `SaysError`.  The reader of CBMC goes over the output line
by line; that its `Status` exists, and what it rests on after n lines, is proved
by induction over n.  The library's induction theorems take an operator and cannot
be used, so `Least` and `Induction` are their forms for a set of numbers, from the
well-foundedness of <.  `AnswerInv` is inductive: what the verifier printed is
true until it is read, an answer that stands is right (`Right`), and the answer of
a verifier that is not the last one decided nothing.

**KleeTester.**  `Types` is inductive: what is alive is listed, in a pass over the
list among what the pass keeps or has still to visit (`AliveListed`), a process
is started once (`Fresh`), and one is started only where there is room (`Room`).
The script starts the first two without a look at the limit, hence
`SizesAssumption`: with a limit of one `AtMostLimit` is wrong.  `NoErrorLost`
needs two more parts.  `ErrorListed`: a process with an error is listed and its
output was not read.  `Reading`: during the passes no listed output was read, in
the last waiting loop either none was or all were.  Thus, when the second
`communicate` raises, there is no error left to see.

Only model-checked: liveness, which these provers do not reach (`TimeoutEnds`,
`LeavingEnds`, `Returns`, `ErrorStops`, `Finishes`, the fairness half of the
`KeepsPromise`s).  Every safety property of the passing runs is a theorem, some of
them under a condition: `TrueIsSound` and the promise of the driver without tool
parameters, `AtMostLimit` for a limit of two or more, `AssumptionsGuardStatements` for
assumptions at statements, `BranchesWrapControl` for control expressions that fit.
The cases left out are those described above, in which the property can be wrong.

## 5. Not modelled

- The LLVM passes (`src/transforms`): C++ over the LLVM API.  Pipeline knows the
  order in which they run and the calls that they add and remove.
- The library models (`src/lib`): C code that becomes part of the verified
  program.  Pipeline knows which of them are linked.
- `determine_result` of esbmc, 2ls, cpachecker, ultimate, predator and the like:
  their `passes_before_verification` calls a method of the base class that does
  not exist, so their answers are not reached in this version.
- Parsing the trace and laying out the witness in the YAML writer, GraphML, the
  metadata of test suites, the integrity check, the search paths of environment
  and runtime, the BenchExec fragments, the build scripts: formatting and input
  or output without state of their own.
