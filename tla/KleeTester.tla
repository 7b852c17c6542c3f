----------------------------- MODULE KleeTester -----------------------------
(***************************************************************************)
(* scripts/kleetester.py, the verifier of the testcomp target: one KLEE on *)
(* the whole program and one for each target in it, all of them at the     *)
(* same time.  The script looks at them when it has started another one,   *)
(* when it has enough of them and when there is nothing more to start.     *)
(***************************************************************************)
EXTENDS Naturals, Sequences, FiniteSets

CONSTANTS
    Targets, \* Bound on the targets that opt finds.
    Limit    \* How many generators may run at once: 8 in the code.

ASSUME SizesAssumption == Targets \in Nat /\ Limit \in Nat \ {0, 1}

VARIABLES
    coverage,   \* prp == 'coverage', not the name of an error function.
    state,      \* What the processes do.
    crits,      \* How many targets there are,
    n,          \* and the one at work.
    pc,
    generators, \* The list of processes.
    ahead,      \* Those that the pass over it at work has still to visit,
    newgens,    \* and those that it found alive.
    closed      \* The processes whose output was read.

script == <<coverage, crits, n, pc, generators, ahead, newgens, closed>>
vars   == <<script, state>>

Main       == 0
Generators == 0..Targets

Listed(s) == {s[i] : i \in DOMAIN s}

\* A process that has filled its pipe waits for a reader.  "found" is an end
\* with a failed assertion in the output.
Started(g) == state[g] # "none"
Alive(g)   == state[g] \in {"running", "blocked"}
Ended(g)   == state[g] \in {"ended", "found"}

Final == {"exited", "raised", "closed pipe", "ended"}

\* Tests of coverage are complete once the KLEE on the whole program is done.
MainFinished == coverage /\ Ended(Main)

----------------------------------------------------------------------------

Init ==
    /\ coverage \in BOOLEAN
    /\ state = [g \in Generators |-> "none"]
    /\ crits = 0
    /\ n = 1
    /\ pc = "start"
    /\ generators = <<>>
    /\ ahead = <<>>
    /\ newgens = <<>>
    /\ closed = {}

(***************************************************************************)
(* gentest: the process may fail to start.                                 *)
(***************************************************************************)

\* Mutant: the new process is listed twice.
ListedTwice(g) == Append(Append(generators, g), g)

WithGenerator(g) == Append(generators, g)

StartMain ==
    /\ pc = "start"
    /\ pc' = "find"
    /\ \/ /\ state' = [state EXCEPT ![Main] = "running"]
          /\ generators' = WithGenerator(Main)
       \/ UNCHANGED <<state, generators>>
    /\ UNCHANGED <<coverage, crits, n, ahead, newgens, closed>>

\* find_criterions; no targets when opt fails.
FindCriterions ==
    /\ pc = "find"
    /\ crits' \in 0..Targets
    /\ pc' = "criterion"
    /\ UNCHANGED <<coverage, state, n, generators, ahead, newgens, closed>>

NextCriterion ==
    /\ pc = "criterion"
    /\ pc' = IF n > crits \/ MainFinished THEN "collect" ELSE "slice"
    /\ UNCHANGED <<coverage, state, crits, n, generators, ahead, newgens, closed>>

\* sliceprocess.  When one times out the others will, too.
Slice ==
    /\ pc = "slice"
    /\ \/ pc' \in {"optimize", "collect"} /\ UNCHANGED n
       \/ pc' = "criterion" /\ n' = n + 1
    /\ UNCHANGED <<coverage, state, crits, generators, ahead, newgens, closed>>

\* optimize does not expect that opt cannot be started.
Optimize ==
    /\ pc = "optimize"
    /\ pc' \in {"generate", "raised"}
    /\ UNCHANGED <<coverage, state, crits, n, generators, ahead, newgens, closed>>

Generate ==
    /\ pc = "generate"
    /\ \/ /\ MainFinished
          /\ pc' = "collect"
          /\ UNCHANGED <<state, n, generators, ahead, newgens>>
       \/ /\ ~MainFinished
          /\ state' = [state EXCEPT ![n] = "running"]
          /\ generators' = WithGenerator(n)
          /\ ahead' = generators'
          /\ newgens' = <<>>
          /\ pc' = "look"
          /\ UNCHANGED n
       \/ /\ ~MainFinished
          /\ n' = n + 1
          /\ pc' = "criterion"
          /\ UNCHANGED <<state, generators, ahead, newgens>>
    /\ UNCHANGED <<coverage, crits, closed>>

(***************************************************************************)
(* A pass over the list.  communicate closes the pipe that it reads, and   *)
(* cannot be called again.  When an error was found, kill is called for    *)
(* the processes that have ended, which does nothing.                      *)
(***************************************************************************)
Communicate(g) ==
    /\ ahead' = Tail(ahead)
    /\ IF coverage THEN UNCHANGED <<pc, closed>>
       ELSE IF g \in closed THEN pc' = "closed pipe" /\ UNCHANGED closed
       ELSE /\ closed' = closed \cup {g}
            /\ IF state[g] = "found" THEN pc' = "exited" ELSE UNCHANGED pc

\* Mutant: the processes that are alive are forgotten.
Forget(g) == newgens

Keep(g) == Append(newgens, g)

\* The passes behind gentest and at the end make a new list.
Visit ==
    /\ pc \in {"look", "collecting"}
    /\ ahead # <<>>
    /\ LET g == Head(ahead)
       IN  \/ /\ Alive(g)
              /\ newgens' = Keep(g)
              /\ ahead' = Tail(ahead)
              /\ UNCHANGED <<pc, closed>>
           \/ /\ Ended(g)
              /\ Communicate(g)
              /\ UNCHANGED newgens
    /\ UNCHANGED <<coverage, state, crits, n, generators>>

\* Mutant: the old list stays.
Everything == generators

Remaining == newgens

EndPass ==
    /\ pc \in {"look", "collecting"}
    /\ ahead = <<>>
    /\ generators' = Remaining
    /\ pc' = IF pc = "look" THEN "enough" ELSE "collect"
    /\ UNCHANGED <<coverage, state, crits, n, ahead, newgens, closed>>

\* Mutant: one more.
MoreThanEnough == Len(generators) > Limit

Enough == Len(generators) >= Limit

\* while len(generators) >= 8
Wait ==
    /\ pc = "enough"
    /\ IF Enough /\ ~MainFinished
       THEN pc' = "wait" /\ ahead' = generators /\ UNCHANGED n
       ELSE pc' = "criterion" /\ n' = n + 1 /\ UNCHANGED ahead
    /\ UNCHANGED <<coverage, state, crits, generators, newgens, closed>>

\* Mutant: wait for the process at hand.
Insist == ahead

Later == Append(Tail(ahead), Head(ahead))

(***************************************************************************)
(* In this loop newgens is the list itself: a process that is alive is put *)
(* to its end once more, and the pass is over when all have ended.  None   *)
(* of them is taken off.  (What the pass has visited is kept once here.)   *)
(***************************************************************************)
Look ==
    /\ pc = "wait"
    /\ ahead # <<>>
    /\ LET g == Head(ahead)
       IN  \/ /\ Alive(g)
              /\ ahead' = Later
              /\ UNCHANGED <<pc, closed>>
           \/ Ended(g) /\ Communicate(g)
    /\ UNCHANGED <<coverage, state, crits, n, generators, newgens>>

EndWait ==
    /\ pc = "wait"
    /\ ahead = <<>>
    /\ pc' = "enough"
    /\ UNCHANGED <<coverage, state, crits, n, generators, ahead, newgens, closed>>

\* while generators.  The files that are removed at the end are none: the
\* pattern is not expanded.
Collect ==
    /\ pc = "collect"
    /\ IF generators = <<>>
       THEN pc' = "ended" /\ UNCHANGED <<ahead, newgens>>
       ELSE pc' = "collecting" /\ ahead' = generators /\ newgens' = <<>>
    /\ UNCHANGED <<coverage, state, crits, n, generators, closed>>

Script ==
    \/ StartMain \/ FindCriterions \/ NextCriterion \/ Slice \/ Optimize \/ Generate
    \/ Visit \/ EndPass \/ Wait \/ Look \/ EndWait \/ Collect

\* A KLEE at work: it ends, or its output fills the pipe that nobody reads
\* before it has ended.
Process ==
    \E g \in Generators :
        /\ state[g] = "running"
        /\ \E s \in {"ended", "found", "blocked"} : state' = [state EXCEPT ![g] = s]
        /\ UNCHANGED script

Next == Script \/ Process

\* Nothing makes a KLEE end, but the script goes on.
Spec == Init /\ [][Next]_vars /\ WF_vars(Script)

----------------------------------------------------------------------------

\* The lists name started processes, each of them once, and only the output
\* of ended processes is read.
States == {"none", "running", "blocked", "ended", "found"}

NoTwice(s) == \A i, j \in DOMAIN s : s[i] = s[j] => i = j

TypeOK ==
    /\ coverage \in BOOLEAN
    /\ state \in [Generators -> States]
    /\ crits \in 0..Targets
    /\ n \in 1..(Targets + 1)
    /\ pc \in {"start", "find", "criterion", "slice", "optimize", "generate", "look",
               "enough", "wait", "collect", "collecting"} \cup Final
    /\ \A s \in {generators, ahead, newgens} :
          s \in Seq(Generators) /\ NoTwice(s) /\ \A g \in Listed(s) : Started(g)
    /\ \A g \in closed : g \in Generators /\ Ended(g)

\* At most Limit generators run at once (kleetester.py:173 "run atmost 8 at
\* once"), though the list forgets and repeats processes on the way.
AtMostLimit == Cardinality({g \in Generators : Alive(g)}) <= Limit

\* An error that a generator found is not lost: the script does not come to
\* its end, nor to the second reading of an output, without having seen it.
NoErrorMissed ==
    ~coverage /\ pc \in {"ended", "closed pipe"} => \A g \in Generators : state[g] # "found"

\* and no generator that is stuck or goes on keeps the script from seeing it.
ErrorStops ==
    \A g \in Generators : (state[g] = "found" /\ ~coverage) ~> (pc \in Final)

\* If the KLEEs that were started end, the script ends.  For coverage this
\* takes that the KLEE on the whole program was started, for without it
\* nothing ends the wait.
Finishes ==
    /\ <>[](\A g \in Generators : ~Alive(g))
    /\ coverage => <>Started(Main)
    => <>(pc \in Final)

=============================================================================
