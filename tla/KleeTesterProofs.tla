-------------------------- MODULE KleeTesterProofs --------------------------
(***************************************************************************)
(* Theorems about KleeTester, for any number of targets and any limit from *)
(* two up: the types, that no more than Limit generators run, and that no  *)
(* error found is missed.                                                  *)
(*                                                                         *)
(* Neither of the two is inductive.  The first rests on the list of the    *)
(* processes having every process that is alive; the second on where the   *)
(* processes are that were not read, and on what has to be so when the     *)
(* script waits: a second wait has nothing but processes that were read.   *)
(***************************************************************************)
EXTENDS KleeTester, SequenceTheorems, FiniteSetTheorems, TLAPS

(***************************************************************************)
(* Lists of processes.                                                     *)
(***************************************************************************)
LEMMA NoProcess == /\ <<>> \in Seq(Generators) /\ Listed(<<>>) = {}
                   /\ NoTwice(<<>>) /\ Len(<<>>) = 0
BY DEF Listed, NoTwice

LEMMA OneMore ==
    ASSUME NEW s \in Seq(Generators), NEW g \in Generators
    PROVE  /\ Append(s, g) \in Seq(Generators)
           /\ Listed(Append(s, g)) = Listed(s) \cup {g}
           /\ NoTwice(s) /\ g \notin Listed(s) => NoTwice(Append(s, g))
           /\ Len(Append(s, g)) = Len(s) + 1
<1> DEFINE t == Append(s, g)
<1>1. /\ t \in Seq(Generators) /\ Len(t) = Len(s) + 1 /\ Len(s) \in Nat
      /\ \A i \in 1..Len(s) : t[i] = s[i]
      /\ t[Len(s) + 1] = g
  OBVIOUS
<1>2. DOMAIN s = 1..Len(s) /\ DOMAIN t = 1..(Len(s) + 1)
  BY <1>1
<1> HIDE DEF t
<1>3. Listed(t) = Listed(s) \cup {g}
  BY <1>1, <1>2 DEF Listed
<1>4. ASSUME NoTwice(s), g \notin Listed(s) PROVE NoTwice(t)
  BY <1>1, <1>2, <1>4 DEF Listed, NoTwice
<1>5. QED
  BY <1>1, <1>3, <1>4 DEF t

LEMMA OneLess ==
    ASSUME NEW s \in Seq(Generators), s # <<>>
    PROVE  /\ Head(s) \in Listed(s) /\ Tail(s) \in Seq(Generators)
           /\ Listed(s) = {Head(s)} \cup Listed(Tail(s))
           /\ NoTwice(s) => NoTwice(Tail(s)) /\ Head(s) \notin Listed(Tail(s))
           /\ Len(s) = Len(Tail(s)) + 1
<1> DEFINE t == Tail(s)
<1>1. /\ t \in Seq(Generators) /\ Len(s) = Len(t) + 1 /\ Len(t) \in Nat
      /\ \A i \in 1..Len(t) : t[i] = s[i + 1]
      /\ Head(s) = s[1]
  OBVIOUS
<1>2. DOMAIN s = 1..(Len(t) + 1) /\ DOMAIN t = 1..Len(t)
  BY <1>1
<1> HIDE DEF t
<1>3. \A i \in DOMAIN s : i = 1 \/ (i - 1 \in DOMAIN t /\ s[i] = t[i - 1])
  BY <1>1, <1>2
<1>4. \A i \in DOMAIN t : i + 1 \in DOMAIN s /\ t[i] = s[i + 1]
  BY <1>1, <1>2
<1>5. 1 \in DOMAIN s
  BY <1>1, <1>2
<1>6. Listed(s) = {Head(s)} \cup Listed(t)
  <2>1. ASSUME NEW i \in DOMAIN s PROVE s[i] \in {Head(s)} \cup Listed(t)
    <3>1. CASE i = 1
      BY <1>1, <3>1
    <3>2. CASE i - 1 \in DOMAIN t /\ s[i] = t[i - 1]
      BY <3>2 DEF Listed
    <3>3. QED
      BY <1>3, <3>1, <3>2
  <2>2. Head(s) \in Listed(s)
    BY <1>1, <1>5 DEF Listed
  <2>3. ASSUME NEW i \in DOMAIN t PROVE t[i] \in Listed(s)
    BY <1>4 DEF Listed
  <2>4. Listed(s) \subseteq {Head(s)} \cup Listed(t)
    BY <2>1 DEF Listed
  <2>5. Listed(t) \subseteq Listed(s)
    BY <2>3 DEF Listed
  <2>6. QED
    BY <2>2, <2>4, <2>5
<1>7. ASSUME NoTwice(s) PROVE NoTwice(t) /\ Head(s) \notin Listed(t)
  <2>1. ASSUME NEW i \in DOMAIN t, NEW j \in DOMAIN t, t[i] = t[j] PROVE i = j
    <3>1. s[i + 1] = s[j + 1] /\ i + 1 \in DOMAIN s /\ j + 1 \in DOMAIN s
      BY <1>4, <2>1
    <3>2. i + 1 = j + 1
      BY <1>7, <3>1 DEF NoTwice
    <3>3. QED
      BY <1>2, <3>2
  <2>2. ASSUME NEW i \in DOMAIN t, t[i] = Head(s) PROVE FALSE
    <3>1. s[i + 1] = s[1] /\ i + 1 \in DOMAIN s
      BY <1>1, <1>4, <2>2
    <3>2. i + 1 = 1
      BY <1>5, <1>7, <3>1 DEF NoTwice
    <3>3. QED
      BY <1>2, <3>2
  <2>3. QED
    BY <2>1, <2>2 DEF Listed, NoTwice
<1>8. QED
  BY <1>1, <1>6, <1>7 DEF t

\* A list of Len(s) has at most that many processes.
LEMMA ListedFew ==
    ASSUME NEW s \in Seq(Generators), NEW S, S \subseteq Listed(s)
    PROVE  Cardinality(S) \in Nat /\ Cardinality(S) <= Len(s)
<1>1. IsFiniteSet(1..Len(s)) /\ Cardinality(1..Len(s)) = Len(s)
  <2>1. Len(s) \in Nat
    OBVIOUS
  <2>2. QED
    BY <2>1, FS_Interval
<1>2. s \in Surjection(1..Len(s), Listed(s))
  BY DEF Surjection, Listed
<1>3. IsFiniteSet(Listed(s)) /\ Cardinality(Listed(s)) <= Len(s)
  BY <1>1, <1>2, FS_Surjection
<1>4. Cardinality(S) <= Cardinality(Listed(s))
  BY <1>3, FS_Subset
<1>5. Cardinality(S) \in Nat /\ Cardinality(Listed(s)) \in Nat
  BY <1>3, FS_Subset, FS_CardinalityType
<1>6. QED
  BY <1>3, <1>4, <1>5

(***************************************************************************)
(* What holds between the steps.                                           *)
(***************************************************************************)
Passing == pc \in {"look", "collecting"}

\* The list of processes has all that are alive; in a pass they are among the
\* ones that the pass keeps or has still to visit.
AliveListed ==
    \A g \in Generators : Alive(g) =>
        /\ g \in Listed(generators)
        /\ Passing => g \in Listed(ahead) \cup Listed(newgens)

\* A process is started once.
Fresh ==
    /\ pc = "start" => \A g \in Generators : ~Started(g)
    /\ pc \in {"find", "criterion", "slice", "optimize", "generate"} =>
          \A g \in Generators : Started(g) => g < n
    /\ pc \in {"look", "enough", "wait"} => \A g \in Generators : Started(g) => g <= n
    /\ pc \in {"slice", "optimize", "generate", "look", "enough", "wait"} => n <= crits
    /\ Passing => Listed(ahead) \cap Listed(newgens) = {}

\* There is room for another process where one is started.
Room ==
    /\ Len(generators) <= Limit
    /\ pc = "start" => Len(generators) = 0
    /\ pc = "find" => Len(generators) <= 1
    /\ pc \in {"criterion", "slice", "optimize", "generate"} =>
          Len(generators) < Limit \/ MainFinished
    /\ Passing => Len(ahead) + Len(newgens) <= Len(generators)

Types == TypeOK /\ AliveListed /\ Fresh /\ Room

\* Outputs that were read, when tests of an error are generated.  After a
\* first wait all of them were.
NothingRead(s) == Listed(s) \cap closed = {}
AllRead        == Listed(generators) \subseteq closed

Reading ==
    ~coverage =>
        /\ pc \in {"start", "find", "criterion", "slice", "optimize", "generate", "collect"} =>
              NothingRead(generators)
        /\ Passing => NothingRead(ahead) /\ NothingRead(newgens)
        /\ pc = "enough" => NothingRead(generators) \/ (Enough /\ AllRead)
        /\ pc = "wait" => /\ Enough
                          /\ Listed(generators) \subseteq Listed(ahead) \cup closed
                          /\ NothingRead(ahead) \/ AllRead
        /\ pc = "closed pipe" => AllRead
        /\ pc = "ended" => generators = <<>>

\* A process that found an error is listed, and was not read.
ErrorListed ==
    ~coverage /\ pc # "exited" =>
        \A g \in Generators : state[g] = "found" =>
            /\ g \notin closed
            /\ Passing => g \in Listed(ahead) \cup Listed(newgens)
            /\ ~Passing => g \in Listed(generators)

Inv == Types /\ Reading /\ ErrorListed

(***************************************************************************)
(* The types, and the room for the processes that run.                     *)
(***************************************************************************)
LEMMA InitTypes == Init => Types
<1> SUFFICES ASSUME Init PROVE Types
  OBVIOUS
<1> USE DEF Init, Main, Generators, Alive, Started, Ended
<1>1. TypeOK
  BY NoProcess, SizesAssumption DEF TypeOK, States
<1>2. AliveListed /\ Fresh /\ Room
  BY NoProcess, SizesAssumption DEF AliveListed, Fresh, Room, Passing
<1>3. QED
  BY <1>1, <1>2 DEF Types

\* The lists after a step that leaves them and the processes alone.
LEMMA SameTypes ==
    ASSUME Types, UNCHANGED <<coverage, state, generators, newgens>>,
           NEW s \in {generators, ahead}, ahead' = s, closed' = closed,
           crits' \in 0..Targets, n' \in 1..(Targets + 1),
           pc' \in {"criterion", "slice", "optimize", "generate", "enough", "wait",
                   "collect"} \cup Final
    PROVE  TypeOK' /\ AliveListed'
<1>1. TypeOK'
  BY DEF Types, TypeOK, Started, Ended
<1>2. AliveListed'
  BY DEF Types, AliveListed, Alive, Passing, Final
<1>3. QED
  BY <1>1, <1>2

LEMMA StepTypes == Types /\ [Next]_vars => Types'
<1> SUFFICES ASSUME Types, [Next]_vars PROVE Types'
  OBVIOUS
<1>0. /\ Targets \in Nat /\ Limit \in Nat /\ Limit > 1 /\ n \in Nat /\ crits \in Nat
      /\ n > 0 /\ crits <= Targets /\ n <= Targets + 1 /\ Len(generators) \in Nat
      /\ Len(ahead) \in Nat /\ Len(newgens) \in Nat
  BY SizesAssumption DEF Types, TypeOK
<1>L. \A s \in {generators, ahead, newgens} :
         s \in Seq(Generators) /\ NoTwice(s) /\ \A g \in Listed(s) : g \in Generators /\ Started(g)
  BY DEF Types, TypeOK, Listed
<1>S. state \in [Generators -> States] /\ \A g \in closed : g \in Generators /\ Ended(g)
  BY DEF Types, TypeOK
<1>1. CASE StartMain
  <2>1. Main \in Generators /\ Main < n
    BY <1>0 DEF Main, Generators
  <2>2. /\ pc = "start" /\ pc' = "find" /\ UNCHANGED <<coverage, crits, n, ahead, newgens, closed>>
    BY <1>1 DEF StartMain
  <2>3. CASE UNCHANGED <<state, generators>>
    BY <1>0, <2>2, <2>3 DEF Types, TypeOK, AliveListed, Fresh, Room, Started, Alive, Ended, Passing
  <2>4. CASE state' = [state EXCEPT ![Main] = "running"] /\ generators' = WithGenerator(Main)
    <3>1. ~Started(Main) /\ Main \notin Listed(generators) /\ Len(generators) = 0
      BY <2>1, <2>2 DEF Types, TypeOK, Fresh, Room
    <3>2. /\ generators' \in Seq(Generators) /\ NoTwice(generators')
          /\ Listed(generators') = Listed(generators) \cup {Main}
          /\ Len(generators') = Len(generators) + 1
      <4>1. generators \in Seq(Generators) /\ NoTwice(generators)
        BY <1>L
      <4>2. QED
        BY <2>1, <2>4, <3>1, <4>1, OneMore DEF WithGenerator
    <3>3. TypeOK'
      BY <2>1, <2>2, <2>4, <3>1, <3>2 DEF Types, TypeOK, Started, Ended, States
    <3>4. AliveListed'
      BY <2>1, <2>2, <2>4, <3>2 DEF Types, TypeOK, AliveListed, Alive, Passing
    <3>5. Fresh'
      BY <1>0, <2>1, <2>2, <2>4 DEF Types, TypeOK, Fresh, Started, Passing
    <3>6. Room'
      BY <1>0, <2>2, <3>2 DEF Types, Room, Passing
    <3>7. QED
      BY <3>3, <3>4, <3>5, <3>6 DEF Types
  <2>5. QED
    BY <1>1, <2>3, <2>4 DEF StartMain
<1>2. CASE FindCriterions
  <2>1. TypeOK' /\ AliveListed'
    BY <1>0, <1>2, SameTypes DEF FindCriterions, Types, TypeOK
  <2>2. Fresh' /\ Room'
    BY <1>0, <1>2 DEF FindCriterions, Types, Fresh, Room, Passing, Started
  <2>3. QED
    BY <2>1, <2>2 DEF Types
<1>3. CASE NextCriterion
  <2>1. TypeOK' /\ AliveListed'
    BY <1>0, <1>3, SameTypes DEF NextCriterion, Types, TypeOK
  <2>2. Fresh' /\ Room'
    BY <1>0, <1>3 DEF NextCriterion, Types, Fresh, Room, Passing, Started, MainFinished, Ended
  <2>3. QED
    BY <2>1, <2>2 DEF Types
<1>4. CASE Slice
  <2>1. n' \in 1..(Targets + 1)
    BY <1>0, <1>4 DEF Slice, Types, Fresh
  <2>2. TypeOK' /\ AliveListed'
    BY <1>4, <2>1, SameTypes DEF Slice, Types, TypeOK
  <2>3. Fresh' /\ Room'
    BY <1>0, <1>4 DEF Slice, Types, Fresh, Room, Passing, Started, MainFinished, Ended, Generators
  <2>4. QED
    BY <2>2, <2>3 DEF Types
<1>5. CASE Optimize
  <2>1. TypeOK' /\ AliveListed'
    BY <1>5, SameTypes DEF Optimize, Types, TypeOK, Final
  <2>2. Fresh' /\ Room'
    BY <1>0, <1>5 DEF Optimize, Types, Fresh, Room, Passing, Started, MainFinished, Ended
  <2>3. QED
    BY <2>1, <2>2 DEF Types
<1>6. CASE Generate
  <2>1. CASE MainFinished /\ pc' = "collect" /\ UNCHANGED <<state, n, generators, ahead, newgens>>
    <3>1. TypeOK' /\ AliveListed'
      BY <1>6, <2>1, SameTypes DEF Generate, Types, TypeOK
    <3>2. Fresh' /\ Room'
      BY <1>6, <2>1 DEF Generate, Types, Fresh, Room, Passing
    <3>3. QED
      BY <3>1, <3>2 DEF Types
  <2>2. CASE /\ ~MainFinished
             /\ state' = [state EXCEPT ![n] = "running"]
             /\ generators' = WithGenerator(n)
             /\ ahead' = generators' /\ newgens' = <<>> /\ pc' = "look" /\ n' = n
    <3>1. pc = "generate" /\ UNCHANGED <<coverage, crits, closed>>
      BY <1>6 DEF Generate
    <3>2. n \in Generators /\ n <= crits /\ ~Started(n) /\ n \notin Listed(generators)
          /\ Len(generators) < Limit
      BY <1>0, <1>L, <2>2, <3>1 DEF Types, Fresh, Room, Generators
    <3>3. /\ generators' \in Seq(Generators) /\ NoTwice(generators')
          /\ Listed(generators') = Listed(generators) \cup {n}
          /\ Len(generators') = Len(generators) + 1
      BY <1>L, <2>2, <3>2, OneMore DEF WithGenerator
    <3>4. \A g \in Listed(generators') : Started(g)'
      BY <1>L, <1>S, <2>2, <3>2, <3>3 DEF Started
    <3>5. \A g \in closed' : g \in Generators /\ Ended(g)'
      BY <1>S, <2>2, <3>1, <3>2 DEF Ended, Started
    <3>6. TypeOK'
      BY <1>S, <2>2, <3>1, <3>3, <3>4, <3>5, NoProcess DEF Types, TypeOK, States
    <3>7. AliveListed'
      BY <1>S, <2>2, <3>1, <3>3 DEF Types, AliveListed, Alive
    <3>8. Fresh'
      BY <1>0, <1>S, <2>2, <3>1, <3>2, NoProcess DEF Types, Fresh, Started, Passing
    <3>9. Room'
      BY <1>0, <2>2, <3>2, <3>3, NoProcess DEF Room, Passing
    <3>10. QED
      BY <3>6, <3>7, <3>8, <3>9 DEF Types
  <2>3. CASE n' = n + 1 /\ pc' = "criterion" /\ UNCHANGED <<state, generators, ahead, newgens>>
    <3>1. n' \in 1..(Targets + 1)
      BY <1>0, <1>6, <2>3 DEF Generate, Types, Fresh
    <3>2. TypeOK' /\ AliveListed'
      BY <1>6, <2>3, <3>1, SameTypes DEF Generate, Types, TypeOK
    <3>3. Fresh' /\ Room'
      BY <1>0, <1>6, <2>3 DEF Generate, Types, Fresh, Room, Passing, Started, MainFinished, Ended,
                             Generators
    <3>4. QED
      BY <3>2, <3>3 DEF Types
  <2>4. QED
    BY <1>6, <2>1, <2>2, <2>3 DEF Generate
<1>7. CASE Visit
  <2> DEFINE g == Head(ahead)
  <2>1. /\ Passing /\ ahead # <<>> /\ UNCHANGED <<coverage, state, crits, n, generators>>
        /\ ahead' = Tail(ahead)
    BY <1>7 DEF Visit, Passing, Communicate
  <2>2. /\ g \in Listed(ahead) /\ g \in Generators /\ g \notin Listed(newgens)
        /\ ahead' \in Seq(Generators) /\ NoTwice(ahead') /\ g \notin Listed(ahead')
        /\ Listed(ahead) = {g} \cup Listed(ahead') /\ Len(ahead) = Len(ahead') + 1
    BY <1>L, <2>1, OneLess DEF Types, Fresh
  <2> HIDE DEF g
  <2>3. CASE Alive(g) /\ newgens' = Keep(g) /\ UNCHANGED <<pc, closed>>
    <3>1. /\ newgens' \in Seq(Generators) /\ NoTwice(newgens')
          /\ Listed(newgens') = Listed(newgens) \cup {g} /\ Len(newgens') = Len(newgens) + 1
      BY <1>L, <2>2, <2>3, OneMore DEF Keep
    <3>2. \A h \in Listed(ahead') \cup Listed(newgens') \cup Listed(generators') : Started(h)'
      BY <1>L, <2>1, <2>2, <3>1 DEF Started
    <3>3. TypeOK'
      BY <1>L, <1>S, <2>1, <2>2, <2>3, <3>1, <3>2 DEF Types, TypeOK, Ended
    <3>4. AliveListed'
      BY <2>1, <2>2, <2>3, <3>1 DEF Types, AliveListed, Alive, Passing
    <3>5. Fresh'
      BY <1>0, <2>1, <2>2, <2>3, <3>1 DEF Types, Fresh, Started, Passing
    <3>6. Room'
      BY <1>0, <2>1, <2>2, <2>3, <3>1 DEF Types, Room, Passing
    <3>7. QED
      BY <3>3, <3>4, <3>5, <3>6 DEF Types
  <2>4. CASE Ended(g) /\ Communicate(g) /\ newgens' = newgens
    <3>1. pc' \in {pc, "exited", "closed pipe"} /\ closed' \in {closed, closed \cup {g}}
      BY <2>4 DEF Communicate
    <3>2. \A h \in Listed(ahead') \cup Listed(newgens') \cup Listed(generators') : Started(h)'
      BY <1>L, <2>1, <2>2, <2>4 DEF Started
    <3>3. \A h \in closed' : h \in Generators /\ Ended(h)'
      BY <1>S, <2>1, <2>2, <2>4, <3>1 DEF Ended
    <3>4. TypeOK'
      BY <1>L, <1>S, <2>1, <2>2, <2>4, <3>1, <3>2, <3>3 DEF Types, TypeOK, Final
    <3>5. AliveListed'
      BY <2>1, <2>2, <2>4, <3>1 DEF Types, AliveListed, Alive, Ended, Passing
    <3>6. Fresh'
      BY <1>0, <2>1, <2>2, <2>4, <3>1 DEF Types, Fresh, Started, Passing
    <3>7. Room'
      <4>1. Len(ahead') \in Nat /\ Len(newgens') = Len(newgens) /\ Len(generators') = Len(generators)
        BY <2>1, <2>2, <2>4
      <4>2. Len(ahead') + Len(newgens') <= Len(generators') /\ Len(generators') <= Limit
        BY <1>0, <2>1, <2>2, <4>1 DEF Types, Room
      <4>3. pc' \in {"look", "collecting", "exited", "closed pipe"}
        BY <2>1, <3>1 DEF Passing
      <4>4. QED
        BY <4>2, <4>3 DEF Room
    <3>8. QED
      BY <3>4, <3>5, <3>6, <3>7 DEF Types
  <2>5. QED
    BY <1>7, <2>3, <2>4 DEF Visit, g
<1>8. CASE EndPass
  <2>1. /\ Passing /\ ahead = <<>> /\ generators' = newgens /\ pc' \in {"enough", "collect"}
        /\ (pc' = "enough" => pc = "look")
        /\ UNCHANGED <<coverage, state, crits, n, ahead, newgens, closed>>
    BY <1>8 DEF EndPass, Passing, Remaining
  <2>2. TypeOK'
    BY <1>L, <1>S, <2>1 DEF Types, TypeOK, Started, Ended
  <2>3. AliveListed'
    BY <2>1, NoProcess DEF Types, AliveListed, Alive, Passing
  <2>4. Fresh' /\ Room'
    BY <1>0, <2>1, NoProcess DEF Types, Fresh, Room, Passing, Started
  <2>5. QED
    BY <2>2, <2>3, <2>4 DEF Types
<1>9. CASE Wait
  <2>1. n' \in 1..(Targets + 1) /\ ahead' \in {ahead, generators}
    BY <1>0, <1>9 DEF Wait, Types, Fresh
  <2>2. TypeOK' /\ AliveListed'
    BY <1>9, <2>1, SameTypes DEF Wait, Types, TypeOK
  <2>3. Fresh' /\ Room'
    BY <1>0, <1>9 DEF Wait, Types, Fresh, Room, Passing, Started, MainFinished, Ended, Enough,
                      Generators
  <2>4. QED
    BY <2>2, <2>3 DEF Types
<1>10. CASE Look
  <2> DEFINE g == Head(ahead)
  <2>1. /\ pc = "wait" /\ ahead # <<>> /\ UNCHANGED <<coverage, state, crits, n, generators, newgens>>
    BY <1>10 DEF Look
  <2>2. /\ g \in Listed(ahead) /\ g \in Generators /\ Tail(ahead) \in Seq(Generators)
        /\ NoTwice(Tail(ahead)) /\ g \notin Listed(Tail(ahead))
        /\ Listed(ahead) = {g} \cup Listed(Tail(ahead))
    BY <1>L, <2>1, OneLess
  <2>3. Later \in Seq(Generators) /\ NoTwice(Later) /\ Listed(Later) = Listed(ahead)
    BY <2>2, OneMore DEF Later
  <2> HIDE DEF g
  <2>4. /\ ahead' \in Seq(Generators) /\ NoTwice(ahead') /\ Listed(ahead') \subseteq Listed(ahead)
        /\ pc' \in {pc, "exited", "closed pipe"} /\ closed' \subseteq closed \cup {g}
        /\ closed' # closed => Ended(g)
    BY <1>10, <2>2, <2>3 DEF Look, Communicate, g
  <2>5. \A h \in closed' : h \in Generators /\ Ended(h)'
    BY <1>S, <2>1, <2>2, <2>4 DEF Ended
  <2>6. TypeOK'
    BY <1>L, <1>S, <2>1, <2>4, <2>5 DEF Types, TypeOK, Started, Final
  <2>7. AliveListed'
    BY <2>1, <2>4 DEF Types, AliveListed, Alive, Passing
  <2>8. Fresh' /\ Room'
    BY <1>0, <2>1, <2>4 DEF Types, Fresh, Room, Started, Passing
  <2>9. QED
    BY <2>6, <2>7, <2>8 DEF Types
<1>11. CASE EndWait
  <2>1. TypeOK' /\ AliveListed'
    BY <1>11, SameTypes DEF EndWait, Types, TypeOK
  <2>2. Fresh' /\ Room'
    BY <1>0, <1>11 DEF EndWait, Types, Fresh, Room, Passing, Started
  <2>3. QED
    BY <2>1, <2>2 DEF Types
<1>12. CASE Collect
  <2>1. CASE generators = <<>>
    <3>1. TypeOK' /\ AliveListed'
      BY <1>12, <2>1, SameTypes DEF Collect, Types, TypeOK, Final
    <3>2. Fresh' /\ Room'
      BY <1>0, <1>12, <2>1 DEF Collect, Types, Fresh, Room, Passing, Started
    <3>3. QED
      BY <3>1, <3>2 DEF Types
  <2>2. CASE generators # <<>>
    <3>1. /\ pc' = "collecting" /\ ahead' = generators /\ newgens' = <<>>
          /\ UNCHANGED <<coverage, state, crits, n, generators, closed>>
      BY <1>12, <2>2 DEF Collect
    <3>2. TypeOK'
      BY <1>L, <1>S, <3>1, NoProcess DEF Types, TypeOK, Started, Ended
    <3>3. AliveListed'
      BY <3>1 DEF Types, AliveListed, Alive, Passing
    <3>4. Fresh' /\ Room'
      BY <1>0, <3>1, NoProcess DEF Types, Fresh, Room, Passing, Started
    <3>5. QED
      BY <3>2, <3>3, <3>4 DEF Types
  <2>3. QED
    BY <2>1, <2>2
<1>13. CASE Process
  <2>1. PICK g \in Generators, s \in {"ended", "found", "blocked"} :
          /\ state[g] = "running" /\ state' = [state EXCEPT ![g] = s]
          /\ UNCHANGED <<coverage, crits, n, pc, generators, ahead, newgens, closed>>
    BY <1>13 DEF Process, script
  <2>2. Main \in Generators
    BY <1>0 DEF Main, Generators
  <2>3. MainFinished => MainFinished'
    BY <1>S, <2>1, <2>2 DEF MainFinished, Ended
  <2>4. TypeOK'
    BY <1>L, <1>S, <2>1 DEF Types, TypeOK, Started, Ended, States
  <2>5. AliveListed'
    BY <1>S, <2>1 DEF Types, AliveListed, Alive, Passing
  <2>6. Fresh'
    BY <1>S, <2>1 DEF Types, Fresh, Started, Passing
  <2>7. Room'
    BY <2>1, <2>3 DEF Types, Room, Passing
  <2>8. QED
    BY <2>4, <2>5, <2>6, <2>7 DEF Types
<1>14. CASE UNCHANGED vars
  BY <1>14 DEF vars, script, Types, TypeOK, AliveListed, Fresh, Room, Started, Alive, Ended,
               Passing, MainFinished
<1>15. QED
  BY <1>1, <1>2, <1>3, <1>4, <1>5, <1>6, <1>7, <1>8, <1>9, <1>10, <1>11, <1>12, <1>13, <1>14
     DEF Next, Script

(***************************************************************************)
(* The types of the variables: the lists name started processes, each of   *)
(* them once (the lists that kleetester.py:139-189 rebuilds), and only the *)
(* outputs of processes that have ended are read.                          *)
(***************************************************************************)
THEOREM TypeCorrect == Spec => []TypeOK
<1>1. Types => TypeOK
  BY DEF Types
<1>2. QED
  BY <1>1, InitTypes, StepTypes, PTL DEF Spec

(***************************************************************************)
(* No more than Limit generators run at once (kleetester.py:173), if the   *)
(* limit is two at least: the first two are started without a look at it.  *)
(***************************************************************************)
THEOREM NoMoreThanLimit == Spec => []AtMostLimit
<1>1. Types => AtMostLimit
  <2> SUFFICES ASSUME Types PROVE AtMostLimit
    OBVIOUS
  <2> DEFINE S == {g \in Generators : Alive(g)}
  <2>1. S \subseteq Listed(generators) /\ generators \in Seq(Generators)
    BY DEF Types, TypeOK, AliveListed
  <2> HIDE DEF S
  <2>2. Cardinality(S) <= Len(generators) /\ Cardinality(S) \in Nat
    BY <2>1, ListedFew
  <2>3. Len(generators) <= Limit /\ Len(generators) \in Nat /\ Limit \in Nat
    BY <2>1, SizesAssumption DEF Types, Room
  <2>4. QED
    BY <2>2, <2>3 DEF AtMostLimit, S
<1>2. QED
  BY <1>1, InitTypes, StepTypes, PTL DEF Spec

(***************************************************************************)
(* What was read, and where the errors are.                                *)
(***************************************************************************)
LEMMA InitErrors == Init => Inv
<1> SUFFICES ASSUME Init PROVE Inv
  OBVIOUS
<1>1. Reading /\ ErrorListed
  BY NoProcess DEF Init, Reading, NothingRead, ErrorListed, Passing
<1>2. QED
  BY <1>1, InitTypes DEF Inv

\* The head of a list, and what is left of it.
LEMMA AtHead ==
    ASSUME Types, ahead # <<>>
    PROVE  /\ Head(ahead) \in Generators
           /\ Listed(ahead) = {Head(ahead)} \cup Listed(Tail(ahead))
           /\ Head(ahead) \notin Listed(Tail(ahead))
           /\ Listed(Later) = Listed(ahead)
<1>1. ahead \in Seq(Generators) /\ NoTwice(ahead)
  BY DEF Types, TypeOK
<1>2. /\ Head(ahead) \in Listed(ahead) /\ Tail(ahead) \in Seq(Generators)
      /\ Listed(ahead) = {Head(ahead)} \cup Listed(Tail(ahead))
      /\ Head(ahead) \notin Listed(Tail(ahead))
  BY <1>1, OneLess
<1>3. Head(ahead) \in Generators
  BY <1>1, <1>2 DEF Listed
<1>4. QED
  BY <1>2, <1>3, OneMore DEF Later

LEMMA StepErrors == Inv /\ [Next]_vars => Inv'
<1> SUFFICES ASSUME Inv, [Next]_vars PROVE Inv'
  OBVIOUS
<1> SUFFICES ASSUME ~coverage PROVE Reading' /\ ErrorListed'
  <2>1. Types'
    BY StepTypes DEF Inv
  <2>2. coverage' = coverage
    BY DEF Inv, Next, Script, StartMain, FindCriterions, NextCriterion, Slice, Optimize, Generate,
           Visit, EndPass, Wait, Look, EndWait, Collect, Process, script, vars
  <2>3. CASE coverage
    BY <2>1, <2>2, <2>3 DEF Inv, Reading, ErrorListed
  <2>4. CASE ~coverage
    BY <2>1, <2>4 DEF Inv
  <2>5. QED
    BY <2>3, <2>4
<1>T. Types /\ Reading /\ ErrorListed
  BY DEF Inv
<1>S. /\ state \in [Generators -> States] /\ generators \in Seq(Generators)
      /\ newgens \in Seq(Generators) /\ \A g \in closed : g \in Generators /\ Ended(g)
      /\ n \in Nat
  BY <1>T DEF Types, TypeOK
<1>G. pc = "generate" => n \in Generators /\ ~Started(n)
  <2>1. Targets \in Nat /\ crits \in 0..Targets /\ n \in 1..(Targets + 1)
    BY <1>T, SizesAssumption DEF Types, TypeOK
  <2>2. pc = "generate" => n <= crits /\ \A g \in Generators : Started(g) => g < n
    BY <1>T DEF Types, Fresh
  <2>3. QED
    BY <2>1, <2>2 DEF Generators
<1>1. CASE StartMain
  <2>1. Main \in Generators
    BY SizesAssumption DEF Main, Generators
  <2>2. ~Started(Main) /\ Main \notin closed
    BY <1>1, <1>S, <1>T, <2>1 DEF StartMain, Types, Fresh, Started, Ended
  <2>3. Listed(generators') \subseteq Listed(generators) \cup {Main}
        /\ Listed(generators) \subseteq Listed(generators')
    BY <1>1, <1>S, <2>1, OneMore DEF StartMain, WithGenerator
  <2>4. Reading'
    BY <1>1, <1>T, <2>2, <2>3 DEF StartMain, Reading, NothingRead, Passing
  <2>5. ErrorListed'
    BY <1>1, <1>S, <1>T, <2>1, <2>3 DEF StartMain, ErrorListed, Passing
  <2>6. QED
    BY <2>4, <2>5
<1>2. CASE FindCriterions \/ NextCriterion \/ Slice \/ Optimize
  <2>1. /\ pc \in {"find", "criterion", "slice", "optimize"}
        /\ pc' \in {"criterion", "slice", "optimize", "generate", "collect", "raised"}
        /\ UNCHANGED <<coverage, state, generators, ahead, newgens, closed>>
    BY <1>2 DEF FindCriterions, NextCriterion, Slice, Optimize
  <2>2. QED
    BY <1>T, <2>1 DEF Reading, NothingRead, ErrorListed, Passing
<1>3. CASE Generate
  <2>1. CASE state' = state
    <3>1. /\ pc = "generate" /\ pc' \in {"criterion", "collect"}
          /\ UNCHANGED <<coverage, state, generators, ahead, newgens, closed>>
      <4>1. state' # [state EXCEPT ![n] = "running"]
        <5>1. n \in Generators /\ ~Started(n)
          BY <1>3, <1>G DEF Generate
        <5>2. QED
          BY <1>S, <2>1, <5>1 DEF Started
      <4>2. QED
        BY <1>3, <4>1 DEF Generate
    <3>2. QED
      BY <1>T, <3>1 DEF Reading, NothingRead, ErrorListed, Passing
  <2>2. CASE state' # state
    <3>1. /\ pc = "generate" /\ pc' = "look" /\ newgens' = <<>>
          /\ state' = [state EXCEPT ![n] = "running"]
          /\ generators' = WithGenerator(n) /\ ahead' = generators'
          /\ UNCHANGED <<coverage, closed>>
      BY <1>3, <2>2 DEF Generate
    <3>2. n \in Generators /\ ~Started(n) /\ n \notin closed
      BY <1>G, <1>S, <3>1 DEF Started, Ended
    <3>3. Listed(generators') = Listed(generators) \cup {n}
      BY <1>S, <3>1, <3>2, OneMore DEF WithGenerator
    <3>4. Reading'
      BY <1>T, <3>1, <3>2, <3>3, NoProcess DEF Reading, NothingRead, Passing
    <3>5. ErrorListed'
      BY <1>S, <1>T, <3>1, <3>2, <3>3 DEF ErrorListed, Passing
    <3>6. QED
      BY <3>4, <3>5
  <2>3. QED
    BY <2>1, <2>2
<1>4. CASE Visit
  <2> DEFINE g == Head(ahead)
  <2>1. /\ Passing /\ ahead # <<>> /\ UNCHANGED <<coverage, state, n, generators>>
        /\ ahead' = Tail(ahead)
    BY <1>4 DEF Visit, Passing, Communicate
  <2>2. /\ g \in Generators /\ Listed(ahead) = {g} \cup Listed(ahead') /\ g \notin Listed(ahead')
        /\ g \notin closed /\ g \notin Listed(newgens)
    BY <1>T, <2>1, AtHead DEF Reading, NothingRead, Types, Fresh
  <2>3. CASE Alive(g) /\ newgens' = Keep(g) /\ UNCHANGED <<pc, closed>>
    <3>1. Listed(newgens') = Listed(newgens) \cup {g}
      BY <1>S, <2>2, <2>3, OneMore DEF Keep
    <3>2. Reading'
      <4> HIDE DEF g
      <4>1. QED
        BY <1>T, <2>1, <2>2, <2>3, <3>1 DEF Reading, NothingRead, Passing
    <3>3. ErrorListed'
      <4> HIDE DEF g
      <4>1. QED
        BY <1>T, <2>1, <2>2, <2>3, <3>1 DEF ErrorListed, Passing
    <3>4. QED
      BY <3>2, <3>3
  <2>4. CASE Ended(g) /\ Communicate(g) /\ newgens' = newgens
    <3> HIDE DEF g
    <3>1. /\ closed' = closed \cup {g} /\ pc' \in {pc, "exited"}
          /\ state[g] = "found" => pc' = "exited"
      BY <2>2, <2>4 DEF Communicate
    <3>2. Reading'
      BY <1>T, <2>1, <2>2, <2>4, <3>1 DEF Reading, NothingRead, Passing
    <3>3. ErrorListed'
      BY <1>T, <2>1, <2>2, <2>4, <3>1 DEF ErrorListed, Passing
    <3>4. QED
      BY <3>2, <3>3
  <2>5. QED
    BY <1>4, <2>3, <2>4 DEF Visit
<1>5. CASE EndPass
  <2>1. /\ Passing /\ ahead = <<>> /\ generators' = newgens /\ pc' \in {"enough", "collect"}
        /\ UNCHANGED <<coverage, state, ahead, newgens, closed>>
    BY <1>5 DEF EndPass, Passing, Remaining
  <2>2. QED
    BY <1>T, <2>1, NoProcess DEF Reading, NothingRead, ErrorListed, Passing
<1>6. CASE Wait
  <2>1. CASE Enough /\ pc' = "wait" /\ ahead' = generators
    BY <1>6, <1>T, <2>1 DEF Wait, Reading, NothingRead, AllRead, ErrorListed, Passing, Enough
  <2>2. CASE ~Enough /\ pc' = "criterion" /\ ahead' = ahead
    BY <1>6, <1>T, <2>2 DEF Wait, Reading, NothingRead, AllRead, ErrorListed, Passing, Enough
  <2>3. QED
    BY <1>6, <2>1, <2>2 DEF Wait, MainFinished
<1>7. CASE Look
  <2> DEFINE g == Head(ahead)
  <2>1. /\ pc = "wait" /\ ahead # <<>>
        /\ UNCHANGED <<coverage, state, generators, newgens>>
    BY <1>7 DEF Look
  <2>2. /\ g \in Generators /\ Listed(ahead) = {g} \cup Listed(Tail(ahead))
        /\ g \notin Listed(Tail(ahead)) /\ Listed(Later) = Listed(ahead)
    BY <1>T, <2>1, AtHead
  <2>3. CASE ahead' = Later /\ UNCHANGED <<pc, closed>>
    BY <1>T, <2>1, <2>2, <2>3 DEF Reading, NothingRead, AllRead, ErrorListed, Passing, Enough
  <2>4. CASE Ended(g) /\ Communicate(g)
    <3> HIDE DEF g
    <3>1. CASE g \in closed
      <4>1. /\ ahead' = Tail(ahead) /\ pc' = "closed pipe" /\ closed' = closed
        BY <2>4, <3>1 DEF Communicate
      <4>2. AllRead
        BY <1>T, <2>1, <2>2, <3>1 DEF Reading, NothingRead
      <4>3. QED
        BY <1>T, <2>1, <4>1, <4>2 DEF Reading, AllRead, ErrorListed, Passing
    <3>2. CASE g \notin closed
      <4>1. /\ ahead' = Tail(ahead) /\ closed' = closed \cup {g} /\ pc' \in {pc, "exited"}
            /\ state[g] = "found" => pc' = "exited"
        BY <2>4, <3>2 DEF Communicate
      <4>2. Reading'
        BY <1>T, <2>1, <2>2, <4>1 DEF Reading, NothingRead, AllRead, Passing, Enough
      <4>3. ErrorListed'
        BY <1>T, <2>1, <2>2, <4>1 DEF ErrorListed, Passing
      <4>4. QED
        BY <4>2, <4>3
    <3>3. QED
      BY <3>1, <3>2
  <2>5. QED
    BY <1>7, <2>3, <2>4 DEF Look
<1>8. CASE EndWait
  BY <1>8, <1>T, NoProcess DEF EndWait, Reading, NothingRead, AllRead, ErrorListed, Passing, Enough
<1>9. CASE Collect
  <2>1. CASE generators = <<>>
    BY <1>9, <1>T, <2>1 DEF Collect, Reading, ErrorListed, Passing
  <2>2. CASE generators # <<>>
    BY <1>9, <1>T, <2>2, NoProcess DEF Collect, Reading, NothingRead, ErrorListed, Passing
  <2>3. QED
    BY <2>1, <2>2
<1>10. CASE Process
  <2>1. PICK g \in Generators, s \in {"ended", "found", "blocked"} :
          /\ state[g] = "running" /\ state' = [state EXCEPT ![g] = s]
          /\ UNCHANGED <<coverage, crits, n, pc, generators, ahead, newgens, closed>>
    BY <1>10 DEF Process, script
  <2>2. Reading'
    BY <1>T, <2>1 DEF Reading, NothingRead, AllRead, Passing, Enough
  <2>3. g \notin closed
    BY <1>S, <2>1 DEF Ended
  <2>4. /\ g \in Listed(generators)
        /\ Passing => g \in Listed(ahead) \cup Listed(newgens)
    BY <1>T, <2>1 DEF Types, AliveListed, Alive
  <2>5. ErrorListed'
    BY <1>S, <1>T, <2>1, <2>3, <2>4 DEF ErrorListed, Passing
  <2>6. QED
    BY <2>2, <2>5
<1>11. CASE UNCHANGED vars
  BY <1>11, <1>T DEF vars, script, Reading, NothingRead, AllRead, ErrorListed, Passing, Enough
<1>12. QED
  BY <1>1, <1>2, <1>3, <1>4, <1>5, <1>6, <1>7, <1>8, <1>9, <1>10, <1>11 DEF Next, Script

(***************************************************************************)
(* An error that a generator found is not lost: it was seen before the     *)
(* script comes to its end, or to the second reading of an output that     *)
(* raises there (kleetester.py:156-201).                                   *)
(***************************************************************************)
THEOREM NoErrorLost == Spec => []NoErrorMissed
<1>1. Inv => NoErrorMissed
  BY NoProcess DEF Inv, Reading, AllRead, ErrorListed, NoErrorMissed, Passing
<1>2. QED
  BY <1>1, InitErrors, StepErrors, PTL DEF Spec

=============================================================================
