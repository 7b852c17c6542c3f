--------------------------- MODULE AnswersProofs ---------------------------
(***************************************************************************)
(* Theorems about Answers, for outputs of any length and any number of     *)
(* bounds of CBMC.                                                         *)
(*                                                                         *)
(* The verifiers are assumed to tell the truth only when they print it     *)
(* (Truthful).  AnswerInv says that this lasts until the answer is read,   *)
(* and that an answer that stands was read from the output that stands:    *)
(* every theorem is then about DetermineResult in one state.               *)
(***************************************************************************)
EXTENDS Answers, WellFoundedInduction, TLAPS

----------------------------------------------------------------------------
(***************************************************************************)
(* Numbers and sequences                                                   *)
(***************************************************************************)

\* A set of natural numbers has a least element.
LEMMA Least ==
    ASSUME NEW T \in SUBSET Nat, T # {}
    PROVE  \E x \in T : \A y \in T : x <= y
<1> DEFINE Below == OpToRel(<, Nat)
<1>1. \E x \in T : \A y \in T : ~(<<y, x>> \in Below)
  <2> HIDE DEF Below
  <2>1. IsWellFoundedOn(Below, Nat)
    BY NatLessThanWellFounded DEF Below
  <2>2. QED
    BY <2>1, WFMin
<1>2. ASSUME NEW x \in Nat, NEW y \in Nat, ~(<<y, x>> \in Below)
      PROVE  ~(y < x)
  BY <1>2, Zenon DEF OpToRel
<1>3. \A x, y \in Nat : ~(y < x) => x <= y
  OBVIOUS
<1> HIDE DEF Below
<1>4. QED
  BY <1>1, <1>2, <1>3

\* Induction, for a set.
LEMMA Induction ==
    ASSUME NEW T, 0 \in T, \A n \in Nat : n \in T => n + 1 \in T
    PROVE  Nat \subseteq T
<1> SUFFICES ASSUME Nat \ T # {} PROVE FALSE
  OBVIOUS
<1>1. PICK x \in Nat \ T : \A y \in Nat \ T : x <= y
  BY Least
<1>2. x # 0 /\ x \in Nat
  BY <1>1
<1>3. x - 1 \in Nat /\ ~(x <= x - 1) /\ (x - 1) + 1 = x
  BY <1>2
<1>4. x - 1 \in T
  BY <1>1, <1>3
<1>5. QED
  BY <1>1, <1>3, <1>4

\* FirstOf finds what there is.
LEMMA FirstIsOne ==
    ASSUME NEW lines, NEW es, NEW n \in Nat, DOMAIN lines = 1..n,
           \E i \in DOMAIN lines : lines[i] \in es
    PROVE  FirstOf(lines, es) \in es
<1> DEFINE T == {i \in 1..n : lines[i] \in es}
<1>1. PICK x \in T : \A y \in T : x <= y
  <2>1. T \in SUBSET Nat /\ T # {}
    OBVIOUS
  <2>2. QED
    BY <2>1, Least
<1>2. \A j \in 1..(x - 1) : j \in 1..n /\ ~(x <= j)
  OBVIOUS
<1>3. \A j \in 1..(x - 1) : lines[j] \notin es
  BY <1>1, <1>2
<1>4. \E i \in DOMAIN lines : lines[i] \in es /\ \A j \in 1..(i - 1) : lines[j] \notin es
  BY <1>1, <1>3
<1>5. QED
  BY <1>4 DEF FirstOf

----------------------------------------------------------------------------
(***************************************************************************)
(* The state while an output is read                                       *)
(***************************************************************************)

\* The generator of verifiers is never asked for more than it has, and a
\* process that did not run has printed nothing (verifier.py:115-131).
TypeOK ==
    /\ conf \in [tool : Targets, property : Kinds, competition : Modes]
    /\ world \in [error : BOOLEAN, enough : 1..(Bounds + 1)]
    /\ turn \in DOMAIN Schedule
    /\ pc \in {"run", "read", "done"}
    /\ output \in BoundedSeq(Lines, MaxLines)
    /\ code \in Codes
    /\ answer.says \in {"none", "true", "false", "unknown", "error", "done", "other"}
    /\ pc = "run" => output = <<>> /\ code = 0

\* What the command line can ask for.
Configured ==
    /\ conf.competition = "test-comp" => conf.tool \in Kleish
    /\ conf.tool = "testcomp" => conf.competition = "test-comp"
    /\ conf.tool = "witch-klee" => conf.competition = "sv-comp"
    /\ conf.property \in Covering <=> conf.competition = "test-comp"

Shape == TypeOK /\ Configured

\* An answer that is not more than what the verifier knows.
Sound(a) ==
    /\ a.says = "true" => ~world.error
    /\ a.says = "false" => world.error

LEMMA OutputIs ==
    ASSUME TypeOK
    PROVE  /\ Len(output) \in Nat
           /\ DOMAIN output = 1..Len(output)
           /\ \A i \in DOMAIN output : output[i] \in Lines
           /\ \A l : Printed(l) <=> \E i \in DOMAIN output : output[i] = l
<1>1. PICK n \in 0..MaxLines : output \in [1..n -> Lines]
  BY DEF TypeOK, BoundedSeq, SeqOf
<1>2. n \in Nat
  BY SizesAssumption
<1>3. Len(output) = n /\ DOMAIN output = 1..n
  BY <1>1, <1>2
<1>4. QED
  BY <1>1, <1>2, <1>3, Zenon DEF Printed, Contains

LEMMA AnswerSays ==
    /\ \A says : Plain(says).says = says
    /\ \A e : False(e).says = "false" /\ False(e).names = {e}
    /\ \A names : Undecided(names).says = "unknown" /\ Undecided(names).names = names
    /\ \A says, names : Answer(says, names).says = says /\ Answer(says, names).names = names
BY DEF Plain, False, Undecided, Answer

\* An inconclusive answer says nothing of the program.
LEMMA InconclusiveIsSound ==
    ASSUME NEW a, a.says \notin {"true", "false"}
    PROVE  Sound(a)
BY DEF Sound

LEMMA TruthIsSound ==
    ASSUME Truthful, NEW a,
           a.says = "true" => SaysNoError,
           a.says = "false" => SaysError
    PROVE  Sound(a)
BY DEF Sound, Truthful

----------------------------------------------------------------------------
(***************************************************************************)
(* KLEE                                                                    *)
(***************************************************************************)

LEMMA FoundIs ==
    ASSUME TypeOK
    PROVE  /\ \A f : f \in Found(Findings) <=>
                f # "noise" /\ \E i \in DOMAIN output : f = Finding(output[i])
           /\ \A f : f \in Found(FullFindings) <=>
                f # "noise" /\ \E i \in DOMAIN output : f = FullFinding(output[i])
           /\ DOMAIN Findings = DOMAIN output
           /\ DOMAIN FullFindings = DOMAIN output
BY Zenon DEF Found, Findings, FullFindings, ToSet

LEMMA KleeLines ==
    ASSUME conf.tool = "klee"
    PROVE  Lines = {"ASSERTIONFAILED", "EFREE", "EMEMERROR", "EMEMLEAK", "EMEMCLEANUP",
                    "noise", "EINITVALS", "EPTHREAD", "EKILLSTATE"}
<1>1. Lines = {"ASSERTIONFAILED", "EFREE", "EMEMERROR", "EMEMLEAK", "EMEMCLEANUP", "noise"}
              \cup Complaints
  BY Zenon DEF Lines
<1>2. QED
  BY <1>1 DEF Complaints

\* Only a violation of the property is what is sought.
LEMMA SoughtIsViolation ==
    ASSUME Shape, conf.tool = "klee", conf.competition # "test-comp",
           NEW l \in Lines, Finding(l) \in Sought
    PROVE  l \in KleeViolations
<1>a. l \in {"ASSERTIONFAILED", "EFREE", "EMEMERROR", "EMEMLEAK", "EMEMCLEANUP",
             "noise", "EINITVALS", "EPTHREAD", "EKILLSTATE"}
  BY KleeLines
<1>1. conf.property \in Kinds \ Covering
  BY DEF Shape, TypeOK, Configured
<1>2. conf.property \in {"assertions", "unreachcall", "memsafety", "memcleanup", "nullderef",
                         "signedoverflow", "undefinedness", "termination"}
  BY <1>1 DEF Kinds, Covering
<1>3. CASE conf.property \in {"assertions", "unreachcall", "undefinedness"}
  <2>1. Sought = {"unreach-call"}
    BY <1>3 DEF Sought, UnreachCall, Is, CleanupSought
  <2>2. QED
    BY <1>a, <2>1, <1>3 DEF Finding, KleeViolations, Is
<1>4. CASE conf.property = "signedoverflow"
  <2>1. Sought = {"no-overflow"}
    BY <1>4 DEF Sought, UnreachCall, Is, CleanupSought
  <2>2. QED
    BY <1>a, <2>1, <1>4 DEF Finding, KleeViolations, Is
<1>5. CASE conf.property = "termination"
  <2>1. Sought = {"termination"}
    BY <1>5 DEF Sought, UnreachCall, Is, CleanupSought
  <2>2. QED
    BY <1>a, <2>1, <1>5 DEF Finding, KleeViolations, Is
<1>6. CASE conf.property = "nullderef"
  <2>1. Sought = {"valid-deref"}
    BY <1>6 DEF Sought, UnreachCall, Is, CleanupSought
  <2>2. QED
    BY <1>a, <2>1, <1>6 DEF Finding, KleeViolations, Is
<1>7. CASE conf.property = "memcleanup"
  <2>1. Sought = {"valid-memcleanup"}
    BY <1>7 DEF Sought, UnreachCall, Is, CleanupSought
  <2>2. QED
    BY <1>a, <2>1, <1>7 DEF Finding, KleeViolations, Is
<1>8. CASE conf.property = "memsafety"
  <2>1. Sought = Memory \cup (IF SvComp THEN {} ELSE {"valid-memcleanup"})
    BY <1>8 DEF Sought, UnreachCall, Is, CleanupSought
  <2>2. QED
    BY <1>a, <2>1, <1>8 DEF Finding, KleeViolations, Is, Memory
<1>9. QED
  BY <1>2, <1>3, <1>4, <1>5, <1>6, <1>7, <1>8

LEMMA SoughtIsOfProperty ==
    ASSUME Shape, conf.tool = "klee", conf.competition # "test-comp", ~Is({"undefinedness"})
    PROVE  Sought \subseteq ErrorsOfProperty
<1>1. conf.property \in {"assertions", "unreachcall", "memsafety", "memcleanup", "nullderef",
                         "signedoverflow", "termination"}
  BY DEF Shape, TypeOK, Configured, Kinds, Covering, Is
<1>2. CASE conf.property \in {"assertions", "unreachcall"}
  BY <1>2 DEF Sought, ErrorsOfProperty, UnreachCall, Is, CleanupSought
<1>3. CASE conf.property \in {"signedoverflow", "termination", "nullderef", "memcleanup"}
  BY <1>3 DEF Sought, ErrorsOfProperty, UnreachCall, Is, CleanupSought
<1>4. CASE conf.property = "memsafety"
  BY <1>4 DEF Sought, ErrorsOfProperty, UnreachCall, Is, CleanupSought
<1>5. QED
  BY <1>1, <1>2, <1>3, <1>4

\* KLEE is silent only where it found nothing; what it calls an error is one
\* of the property, and a complaint is passed on.
LEMMA KleeSays ==
    ASSUME Shape, conf.tool = "klee", conf.competition # "test-comp"
    PROVE  /\ Klee.says \in {"true", "false", "unknown", "error"}
           /\ Klee.says = "true" => SaysNoError
           /\ Klee.says = "false" => SaysError /\ Klee.names \subseteq ErrorsOfProperty
           /\ Klee.says \in {"unknown", "error"} /\ Printed("EPTHREAD") => "EPTHREAD" \in Klee.names
<1> DEFINE found == Found(Findings)
<1>a. TypeOK
  BY DEF Shape
<1>b. \A l \in Lines : /\ Finding(l) = "noise" => l = "noise"
                       /\ l = "EINITVALS" => Finding(l) = "EINITVALS"
                       /\ l = "EPTHREAD" => Finding(l) = "EPTHREAD"
  BY KleeLines DEF Finding, Is
<1>c. Printed("EPTHREAD") => "EPTHREAD" \in found
  BY <1>a, <1>b, OutputIs, FoundIs
<1>d. Printed("EINITVALS") => "EINITVALS" \in found
  BY <1>a, <1>b, OutputIs, FoundIs
<1>1. CASE found = {}
  <2>1. Klee = Clean
    BY <1>1 DEF Klee
  <2>2. Klee.says = (IF code # 0 THEN "error" ELSE "true")
    BY <2>1, AnswerSays DEF Clean
  <2>3. ToSet(output) \subseteq {"noise"}
    BY <1>1, <1>a, <1>b, OutputIs, FoundIs DEF ToSet
  <2>4. code = 0 => SaysNoError
    BY <2>3, Zenon DEF SaysNoError, Kleish
  <2>5. QED
    BY <1>1, <1>c, <2>2, <2>4
<1>2. CASE found # {} /\ ("EINITVALS" \in found \/ found \cap Sought = {})
  <2>1. Klee = Undecided(found)
    BY <1>2 DEF Klee
  <2>2. QED
    BY <2>1, <1>c, AnswerSays
<1>3. CASE found # {} /\ "EINITVALS" \notin found /\ found \cap Sought # {}
  <2>1. Klee = False(IF Is({"undefinedness"}) THEN "def-behavior" ELSE FirstOf(Findings, Sought))
    BY <1>3 DEF Klee
  <2>2. PICK i \in DOMAIN output : Finding(output[i]) \in Sought
    BY <1>3, <1>a, FoundIs
  <2>3. PrintedOf(KleeViolations)
    BY <2>2, <1>a, OutputIs, SoughtIsViolation DEF PrintedOf
  <2>4. SaysError
    BY <2>3, <1>3, <1>d, Zenon DEF SaysError, Kleish
  <2>5. Klee.names \subseteq ErrorsOfProperty
    <3>1. CASE Is({"undefinedness"})
      BY <3>1, <2>1, AnswerSays DEF ErrorsOfProperty, UnreachCall, Is
    <3>2. CASE ~Is({"undefinedness"})
      <4>1. FirstOf(Findings, Sought) \in Sought
        <5>1. Findings[i] \in Sought
          BY <2>2 DEF Findings
        <5>2. QED
          BY <5>1, <1>a, OutputIs, FoundIs, FirstIsOne
      <4>2. QED
        BY <3>2, <4>1, <2>1, AnswerSays, SoughtIsOfProperty
    <3>3. QED
      BY <3>1, <3>2
  <2>6. QED
    BY <2>1, <2>4, <2>5, AnswerSays
<1>4. QED
  BY <1>1, <1>2, <1>3

LEMMA FullLines ==
    ASSUME conf.tool = "klee-full"
    PROVE  Lines = {"ASSERTIONFAILED", "EDOUBLEFREE", "EMEMLEAK", "EMEMERROR", "noise",
                    "EINITVALS", "EPTHREAD", "EKILLSTATE"}
<1>1. Lines = {"ASSERTIONFAILED", "EDOUBLEFREE", "EMEMLEAK", "EMEMERROR", "noise"}
              \cup Complaints
  BY Zenon DEF Lines
<1>2. QED
  BY <1>1 DEF Complaints

LEMMA FullErrorIsViolation ==
    ASSUME conf.tool = "klee-full", NEW l \in Lines, FullFinding(l) \in Errors
    PROVE  l \in KleeViolations
<1>1. CASE Is({"memsafety"})
  <2>1. KleeViolations = {"ASSERTIONFAILED", "EDOUBLEFREE", "EMEMLEAK"}
    BY <1>1 DEF KleeViolations
  <2>2. QED
    BY <1>1, <2>1, FullLines DEF FullFinding, Errors, Memory
<1>2. CASE ~Is({"memsafety"})
  <2>1. KleeViolations = {"ASSERTIONFAILED"}
    BY <1>2 DEF KleeViolations
  <2>2. QED
    BY <1>2, <2>1, FullLines DEF FullFinding, Errors, Memory
<1>3. QED
  BY <1>1, <1>2

\* With full instrumentation, too.
LEMMA KleeFullSays ==
    ASSUME Shape, conf.tool = "klee-full"
    PROVE  /\ KleeFull.says \in {"true", "false", "unknown", "error", "other"}
           /\ KleeFull.says = "true" => SaysNoError
           /\ KleeFull.says = "false" => SaysError
           /\ KleeFull.says \notin {"true", "false"} /\ Printed("EPTHREAD")
                => "EPTHREAD" \in KleeFull.names
<1> DEFINE found == Found(FullFindings)
           lines == {i \in DOMAIN output : output[i] # "noise"}
<1>a. TypeOK
  BY DEF Shape
<1>b. \A l \in Lines : /\ FullFinding(l) = "noise" => l = "noise"
                       /\ l = "EINITVALS" => FullFinding(l) = "EINITVALS"
                       /\ l = "EPTHREAD" => FullFinding(l) = "EPTHREAD"
                       /\ l = "noise" => FullFinding(l) = "noise"
  BY FullLines DEF FullFinding, Is
<1>c. Printed("EPTHREAD") => "EPTHREAD" \in found
  BY <1>a, <1>b, OutputIs, FoundIs
<1>d. Printed("EINITVALS") => "EINITVALS" \in found
  BY <1>a, <1>b, OutputIs, FoundIs
<1>e. ASSUME found \cap Errors # {}, "EINITVALS" \notin found
      PROVE  SaysError
  <2>1. PICK i \in DOMAIN output : FullFinding(output[i]) \in Errors
    BY <1>e, <1>a, FoundIs
  <2>2. PrintedOf(KleeViolations)
    BY <2>1, <1>a, OutputIs, FullErrorIsViolation DEF PrintedOf
  <2>3. QED
    BY <2>2, <1>e, <1>d, Zenon DEF SaysError, Kleish
<1>1. CASE found = {}
  <2>1. KleeFull = Clean
    BY <1>1 DEF KleeFull
  <2>2. KleeFull.says = (IF code # 0 THEN "error" ELSE "true")
    BY <2>1, AnswerSays DEF Clean
  <2>3. ToSet(output) \subseteq {"noise"}
    BY <1>1, <1>a, <1>b, OutputIs, FoundIs DEF ToSet
  <2>4. code = 0 => SaysNoError
    BY <2>3, Zenon DEF SaysNoError, Kleish
  <2>5. QED
    BY <1>1, <1>c, <2>2, <2>4
<1>2. CASE found # {} /\ \E i \in lines : lines = {i}
  <2>1. KleeFull = Bare(CHOOSE f \in found : TRUE)
    BY <1>2 DEF KleeFull
  <2>2. PICK i \in lines : lines = {i}
    BY <1>2
  <2>3. found = {FullFinding(output[i])}
    BY <2>2, <1>2, <1>a, <1>b, OutputIs, FoundIs
  <2> DEFINE f == FullFinding(output[i])
  <2>4. KleeFull = Bare(f)
    BY <2>1, <2>3
  <2>5. CASE f \in Errors
    <3>1. KleeFull = False(f)
      BY <2>4, <2>5 DEF Bare
    <3>2. "EINITVALS" \notin found
      BY <2>3, <2>5 DEF Errors, Memory
    <3>3. SaysError
      BY <3>2, <2>3, <2>5, <1>e
    <3>4. QED
      BY <3>1, <3>3, AnswerSays
  <2>6. CASE f \notin Errors
    <3>1. KleeFull = Answer("other", {f})
      BY <2>4, <2>6 DEF Bare
    <3>2. QED
      BY <3>1, <2>3, <1>c, AnswerSays
  <2>7. QED
    BY <2>5, <2>6
<1>3. CASE /\ found # {} /\ ~(\E i \in lines : lines = {i})
           /\ "EINITVALS" \in found \/ found \cap Errors = {}
  <2>1. KleeFull = Undecided(found)
    BY <1>3 DEF KleeFull
  <2>2. QED
    BY <2>1, <1>c, AnswerSays
<1>4. CASE /\ found # {} /\ ~(\E i \in lines : lines = {i})
           /\ "EINITVALS" \notin found /\ found \cap Errors # {}
  <2>1. KleeFull = False(FirstOf(FullFindings, Errors))
    BY <1>4 DEF KleeFull
  <2>2. QED
    BY <2>1, <1>4, <1>e, AnswerSays
<1>5. QED
  BY <1>1, <1>2, <1>3, <1>4

----------------------------------------------------------------------------
(***************************************************************************)
(* The other readers                                                       *)
(***************************************************************************)

LEMMA WitchSays ==
    ASSUME Shape, conf.tool = "witch-klee"
    PROVE  /\ WitchKlee.says \in {"true", "false", "unknown", "error"}
           /\ WitchKlee.says = "true" => SaysNoError
           /\ WitchKlee.says = "false" => SaysError
<1>a. TypeOK
  BY DEF Shape
<1>1. CASE PrintedOf(Errors)
  <2>1. WitchKlee = False(FirstOf(output, Errors))
    BY <1>1, Zenon DEF WitchKlee
  <2>2. SaysError
    BY <1>1, Zenon DEF SaysError, Kleish
  <2>3. QED
    BY <2>1, <2>2, AnswerSays
<1>2. CASE ~PrintedOf(Errors) /\ code # 0
  <2>1. WitchKlee = Plain("error")
    BY <1>2, Zenon DEF WitchKlee
  <2>2. QED
    BY <2>1, AnswerSays
<1>3. CASE /\ ~PrintedOf(Errors) /\ code = 0
           /\ PrintedOf(Complaints \cup {"may not be confirmed"})
  <2>1. WitchKlee = Undecided({})
    BY <1>3, Zenon DEF WitchKlee
  <2>2. QED
    BY <2>1, AnswerSays
<1>4. CASE /\ ~PrintedOf(Errors) /\ code = 0
           /\ ~PrintedOf(Complaints \cup {"may not be confirmed"})
  <2>1. WitchKlee = Plain("true")
    BY <1>4, Zenon DEF WitchKlee
  <2>2. \A l \in Lines : \/ l = "noise" \/ l \in Errors
                         \/ l \in Complaints \cup {"may not be confirmed"}
    BY Zenon DEF Lines, Errors, Memory, Complaints
  <2>3. ToSet(output) \subseteq {"noise"}
    BY <2>2, <1>4, <1>a, OutputIs, Zenon DEF PrintedOf, ToSet
  <2>4. SaysNoError
    BY <2>3, <1>4, Zenon DEF SaysNoError, Kleish
  <2>5. QED
    BY <2>1, <2>4, AnswerSays
<1>5. QED
  BY <1>1, <1>2, <1>3, <1>4

LEMMA SlowbeastSays ==
    ASSUME conf.tool = "slowbeast"
    PROVE  /\ Slowbeast.says \in {"true", "false", "unknown", "error"}
           /\ Slowbeast.says = "true" => SaysNoError
           /\ Slowbeast.says = "false" => SaysError
<1>1. CASE ~NoErrors /\ Printed("assertion")
  <2>1. Slowbeast = False(IF Is({"termination"}) THEN "termination" ELSE "unreach-call")
    BY <1>1, Zenon DEF Slowbeast
  <2>2. SaysError
    BY <1>1, Zenon DEF SaysError, Kleish
  <2>3. QED
    BY <2>1, <2>2, AnswerSays
<1>2. CASE ~NoErrors /\ ~Printed("assertion")
  <2>1. Slowbeast = Undecided({})
    BY <1>2, Zenon DEF Slowbeast
  <2>2. QED
    BY <2>1, AnswerSays
<1>3. CASE NoErrors /\ Printed("Killed paths: 0") /\ ~Printed("a problem was met")
  <2>1. Slowbeast = Plain("true")
    BY <1>3, Zenon DEF Slowbeast
  <2>2. SaysNoError
    BY <1>3, Zenon DEF SaysNoError, Kleish
  <2>3. QED
    BY <2>1, <2>2, AnswerSays
<1>4. CASE NoErrors /\ ~(Printed("Killed paths: 0") /\ ~Printed("a problem was met"))
  <2>1. Slowbeast = IF code # 0 THEN Plain("error") ELSE Undecided({})
    BY <1>4, Zenon DEF Slowbeast
  <2>2. QED
    BY <2>1, AnswerSays
<1>5. QED
  BY <1>1, <1>2, <1>3, <1>4

LEMMA LastIsPrinted ==
    ASSUME TypeOK, NEW l, NEW ls, LastIs(l, ls)
    PROVE  Printed(l)
BY OutputIs DEF LastIs

LEMMA OneLast ==
    ASSUME TypeOK, NEW ls, NEW l \in ls, NEW m \in ls, l # m, LastIs(l, ls)
    PROVE  ~LastIs(m, ls)
<1>1. PICK i \in DOMAIN output :
          output[i] = l /\ \A j \in DOMAIN output : j > i => output[j] \notin ls
  BY DEF LastIs
<1>2. ASSUME NEW k \in DOMAIN output, output[k] = m,
             \A j \in DOMAIN output : j > k => output[j] \notin ls
      PROVE  FALSE
  <2>1. i \in Nat /\ k \in Nat
    BY OutputIs
  <2>2. i > k \/ k > i \/ i = k
    BY <2>1
  <2>3. QED
    BY <1>1, <1>2, <2>2
<1>3. QED
  BY <1>2 DEF LastIs

LEMMA NidhuggSays ==
    ASSUME TypeOK, conf.tool = "nidhugg"
    PROVE  /\ Nidhugg.says \in {"true", "false", "unknown", "error"}
           /\ Nidhugg.says = "true" => SaysNoError
           /\ Nidhugg.says = "false" => SaysError
<1> DEFINE verdicts == {"No errors were detected.", "Assertion violation"}
<1>1. CASE LastIs("No errors were detected.", verdicts)
  <2>a. ~LastIs("Assertion violation", verdicts)
    BY <1>1, OneLast, Zenon
  <2>1. Nidhugg = Plain("true")
    BY <1>1, <2>a, Zenon DEF Nidhugg
  <2>2. SaysNoError
    BY <1>1, LastIsPrinted, Zenon DEF SaysNoError, Kleish
  <2>3. QED
    BY <2>1, <2>2, AnswerSays, Zenon
<1>2. CASE /\ ~LastIs("No errors were detected.", verdicts)
           /\ LastIs("Assertion violation", verdicts)
  <2>1. Nidhugg = False("unreach-call")
    BY <1>2, Zenon DEF Nidhugg
  <2>2. SaysError
    BY <1>2, LastIsPrinted, Zenon DEF SaysError, Kleish
  <2>3. QED
    BY <2>1, <2>2, AnswerSays, Zenon
<1>3. CASE /\ ~LastIs("No errors were detected.", verdicts)
           /\ ~LastIs("Assertion violation", verdicts)
  <2>1. Nidhugg = Plain("error")
    BY <1>3, Zenon DEF Nidhugg
  <2>2. QED
    BY <2>1, AnswerSays, Zenon
<1>4. QED
  BY <1>1, <1>2, <1>3, Zenon

LEMMA SeahornSays ==
    ASSUME conf.tool = "seahorn"
    PROVE  /\ Seahorn.says \in {"true", "false", "unknown", "error", "other"}
           /\ Seahorn.says = "true" => SaysNoError
           /\ Seahorn.says = "false" => SaysError
<1>1. CASE Printed("Result TRUE")
  <2>a. PrintedOf({"Result TRUE", "Result FALSE"})
    BY <1>1, Zenon DEF PrintedOf
  <2>1. Seahorn = Plain("true")
    BY <1>1, <2>a, Zenon DEF Seahorn
  <2>2. SaysNoError
    BY <1>1, Zenon DEF SaysNoError, Kleish
  <2>3. QED
    BY <2>1, <2>2, AnswerSays, Zenon
<1>2. CASE ~Printed("Result TRUE") /\ Printed("Result FALSE")
  <2>a. PrintedOf({"Result TRUE", "Result FALSE"})
    BY <1>2, Zenon DEF PrintedOf
  <2>1. Seahorn = False(IF Printed("Termination") THEN "termination" ELSE "unreach-call")
    BY <1>2, <2>a, Zenon DEF Seahorn
  <2>2. SaysError
    BY <1>2, Zenon DEF SaysError, Kleish
  <2>3. QED
    BY <2>1, <2>2, AnswerSays, Zenon
<1>3. CASE /\ ~Printed("Result TRUE") /\ ~Printed("Result FALSE")
           /\ Printed("Result UNKNOWN")
  <2>1. ~PrintedOf({"Result TRUE", "Result FALSE"})
    BY <1>3, Zenon DEF PrintedOf
  <2>2. Seahorn = Undecided({})
    BY <1>3, <2>1, Zenon DEF Seahorn
  <2>3. QED
    BY <2>2, AnswerSays, Zenon
<1>4. CASE /\ ~Printed("Result TRUE") /\ ~Printed("Result FALSE")
           /\ ~Printed("Result UNKNOWN")
  <2>1. Seahorn = IF code # 0 THEN Plain("error") ELSE Plain("other")
    BY <1>4, Zenon DEF Seahorn
  <2>2. CASE Seahorn = Plain("error")
    BY <2>2, AnswerSays, Zenon
  <2>3. CASE Seahorn = Plain("other")
    BY <2>3, AnswerSays, Zenon
  <2>4. QED
    BY <2>1, <2>2, <2>3, Zenon
<1>5. QED
  BY <1>1, <1>2, <1>3, <1>4, Zenon

LEMMA DivineSays ==
    ASSUME TypeOK, conf.tool = "divine"
    PROVE  /\ Divine.says \in {"true", "false", "unknown", "error", "other"}
           /\ Divine.says = "true" => SaysNoError
           /\ Divine.says = "false" => SaysError
<1> DEFINE stops == {i \in DOMAIN output : Stops(i)}
           first == CHOOSE i \in stops : \A j \in stops : i <= j
           mem   == Printed("memory error")
           what  == mem /\ PrintedOf(MemoryErrors)
           other == mem \/ PrintedOf(MemoryErrors \cup Messages)
<1>1. CASE output = <<>>
  <2>a. stops = {}
    BY <1>1
  <2>1. Divine = Plain("other")
    BY <1>1, <2>a, Zenon DEF Divine
  <2>2. QED
    BY <2>1, AnswerSays, Zenon
<1>2. CASE output # <<>> /\ stops # {}
  <2>1. Divine \in {Undecided({}), Plain("other")}
    BY <1>2, Zenon DEF Divine
  <2>2. Divine.says \in {"unknown", "other"}
    BY <2>1, AnswerSays, Zenon
  <2>3. QED
    BY <2>2, Zenon
<1>3. CASE output # <<>> /\ stops = {} /\ Printed("error found: yes")
  <2>1. SaysError
    BY <1>3, Zenon DEF SaysError, Kleish
  <2>2. Divine.says \in {"false", "unknown", "other"}
    <3>1. CASE what
      <4>1. Divine = False(CASE LastIs("free", MemoryErrors) -> "valid-free"
                             [] LastIs("leak", MemoryErrors) -> "valid-memtrack"
                             [] OTHER -> "valid-deref")
        BY <1>3, <3>1, Zenon DEF Divine
      <4>2. QED
        BY <4>1, AnswerSays, Zenon
    <3>2. CASE ~what
      <4>1. Divine \in {False("unreach-call"), Undecided({}), Plain("other")}
        BY <1>3, <3>2, Zenon DEF Divine
      <4>2. /\ False("unreach-call").says = "false"
            /\ Undecided({}).says = "unknown"
            /\ Plain("other").says = "other"
        BY AnswerSays, Zenon
      <4>3. QED
        BY <4>1, <4>2, Zenon
    <3>3. QED
      BY <3>1, <3>2, Zenon
  <2>3. QED
    BY <2>1, <2>2, Zenon
<1>4. CASE output # <<>> /\ stops = {} /\ ~Printed("error found: yes")
  <2>1. Divine = IF code # 0 THEN Plain("other")
                 ELSE IF other THEN Undecided({}) ELSE Plain("true")
    BY <1>4, Zenon DEF Divine
  <2>2. ~Printed("error found: boot")
    BY <1>4, OutputIs, Zenon DEF Stops
  <2>3. ASSUME code = 0, ~other
        PROVE  SaysNoError
    <3>1. ~Printed("memory error") /\ ~PrintedOf(MemoryErrors) /\ ~PrintedOf(Messages)
      BY <2>3, Zenon DEF PrintedOf
    <3>2. \A l \in Lines : \/ l \in {"error found: no", "noise"}
                           \/ l \in {"error found: yes", "error found: boot", "memory error"}
                           \/ l \in MemoryErrors \/ l \in Messages
      BY Zenon DEF Lines, MemoryErrors, Messages
    <3>3. ToSet(output) \subseteq {"error found: no", "noise"}
      BY <3>1, <3>2, <1>4, <2>2, OutputIs, Zenon DEF PrintedOf, ToSet
    <3>4. QED
      BY <2>3, <3>3, Zenon DEF SaysNoError, Kleish
  <2>4. CASE code # 0
    BY <2>1, <2>4, AnswerSays, Zenon
  <2>5. CASE code = 0 /\ other
    BY <2>1, <2>5, AnswerSays, Zenon
  <2>6. CASE code = 0 /\ ~other
    BY <2>1, <2>3, <2>6, AnswerSays, Zenon
  <2>7. QED
    BY <2>4, <2>5, <2>6, Zenon
<1>5. QED
  BY <1>1, <1>2, <1>3, <1>4, Zenon

----------------------------------------------------------------------------
(***************************************************************************)
(* CBMC: the status after each line of the output.                         *)
(***************************************************************************)

Refutations == {"leak", "double free", "dereference failure", "arithmetic overflow",
                "VERIFICATION FAILED"}

Words == {"true", "false", "unknown", "error", "other"}

LEMMA OneLine ==
    ASSUME NEW status, NEW l,
           status.says \in Words
    PROVE  /\ StatusAfter(status, l).says \in Words
           /\ StatusAfter(status, l).says = "true" =>
                  status.says = "true" \/ l = "VERIFICATION SUCCESSFUL"
           /\ StatusAfter(status, l).says = "false" => status.says = "false" \/ l \in Refutations
<1> DEFINE next == StatusAfter(status, l)
<1>1. CASE l = "Unmodelled library functions"
  <2>1. next = Undecided({})
    BY <1>1, Zenon DEF StatusAfter
  <2>2. next.says = "unknown"
    BY <2>1, AnswerSays, Zenon
  <2>3. QED
    BY <2>2, Zenon DEF Words
<1>2. CASE l \in {"leak", "double free", "dereference failure", "arithmetic overflow"}
  <2>1. next = False(Refuting(l))
    BY <1>2, Zenon DEF StatusAfter
  <2>2. next.says = "false"
    BY <2>1, AnswerSays, Zenon
  <2>3. l \in Refutations
    BY <1>2, Zenon DEF Refutations
  <2>4. QED
    BY <2>2, <2>3, Zenon DEF Words
<1>3. CASE l = "VERIFICATION SUCCESSFUL"
  <2>1. next \in {ParsingFailed, Plain("true")}
    BY <1>3, Zenon DEF StatusAfter
  <2>2. next.says \in {"other", "true"}
    BY <2>1, AnswerSays, Zenon DEF ParsingFailed
  <2>3. QED
    BY <1>3, <2>2, Zenon DEF Words
<1>4. CASE l = "VERIFICATION FAILED"
  <2>1. next = AfterFailed(status)
    BY <1>4, Zenon DEF StatusAfter
  <2>2. \/ next \in {False("termination"), False("unreach-call"), False("no-overflow")}
        \/ status.says = "false" /\ next = status
        \/ next = ParsingFailed
    BY <2>1, Zenon DEF AfterFailed
  <2>3. next.says \in {"false", "other"}
    BY <2>2, AnswerSays, Zenon DEF ParsingFailed
  <2>4. l \in Refutations
    BY <1>4, Zenon DEF Refutations
  <2>5. QED
    BY <2>3, <2>4, Zenon DEF Words
<1>5. CASE /\ l \notin {"leak", "double free", "dereference failure", "arithmetic overflow"}
           /\ l # "Unmodelled library functions"
           /\ l # "VERIFICATION SUCCESSFUL" /\ l # "VERIFICATION FAILED"
  <2>1. next = status
    BY <1>5, Zenon DEF StatusAfter
  <2>2. QED
    BY <2>1, Zenon
<1>6. QED
  BY <1>1, <1>2, <1>3, <1>4, <1>5, Zenon

\* The function Status exists.
LEMMA StatusIs ==
    ASSUME TypeOK
    PROVE  /\ Status[0] = Plain("error")
           /\ \A n \in 0..(Len(output) - 1) : Status[n + 1] = StatusAfter(Status[n], output[n + 1])
<1> DEFINE Upto(f, n) ==
               f = [i \in 0..n |->
                       IF i = 0 THEN Plain("error") ELSE StatusAfter(f[i - 1], output[i])]
           T == {n \in Nat : \E f : Upto(f, n)}
<1>1. 0 \in T
  <2> DEFINE f == [i \in 0..0 |-> Plain("error")]
  <2>1. Upto(f, 0)
    OBVIOUS
  <2>2. QED
    BY <2>1
<1>2. ASSUME NEW n \in Nat, n \in T PROVE n + 1 \in T
  <2>1. PICK f : Upto(f, n)
    BY <1>2
  <2> DEFINE g == [i \in 0..(n + 1) |->
                      IF i <= n THEN f[i] ELSE StatusAfter(f[n], output[n + 1])]
  <2>2. \A i \in 0..n : f[i] = IF i = 0 THEN Plain("error") ELSE StatusAfter(f[i - 1], output[i])
    BY <2>1
  <2>3. \A i \in 0..n : g[i] = f[i]
    OBVIOUS
  <2>4. g[n + 1] = StatusAfter(f[n], output[n + 1])
    OBVIOUS
  <2>5. ASSUME NEW i \in 0..(n + 1)
        PROVE  g[i] = IF i = 0 THEN Plain("error") ELSE StatusAfter(g[i - 1], output[i])
    <3>1. CASE i \in 0..n
      <4>1. i # 0 => i - 1 \in 0..n
        OBVIOUS
      <4> HIDE DEF g
      <4>2. QED
        BY <3>1, <4>1, <2>2, <2>3
    <3>2. CASE i = n + 1
      <4>1. i # 0 /\ i - 1 = n /\ n \in 0..n
        BY <3>2
      <4>2. g[i - 1] = f[n]
        BY <4>1, <2>3
      <4> HIDE DEF g
      <4>3. QED
        BY <3>2, <4>1, <4>2, <2>4
    <3>3. QED
      BY <3>1, <3>2
  <2>6. Upto(g, n + 1)
    BY <2>5
  <2>7. n + 1 \in Nat
    OBVIOUS
  <2> HIDE DEF g, Upto
  <2>8. QED
    BY <2>6, <2>7
<1>3. Len(output) \in T
  <2>1. Nat \subseteq T
    <3> HIDE DEF T
    <3>1. QED
      BY <1>1, <1>2, Induction
  <2>2. QED
    BY <2>1, OutputIs
<1>4. Upto(Status, Len(output))
  BY <1>3 DEF Status
<1>5. \A i \in 0..Len(output) :
          Status[i] = IF i = 0 THEN Plain("error") ELSE StatusAfter(Status[i - 1], output[i])
  BY <1>4
<1>6. Len(output) \in Nat
  BY OutputIs
<1>7. Status[0] = Plain("error")
  BY <1>5, <1>6
<1>8. ASSUME NEW n \in 0..(Len(output) - 1)
      PROVE  Status[n + 1] = StatusAfter(Status[n], output[n + 1])
  <2>1. n + 1 \in 0..Len(output) /\ n + 1 # 0 /\ (n + 1) - 1 = n
    BY <1>6
  <2>2. QED
    BY <2>1, <1>5
<1>9. QED
  BY <1>7, <1>8

\* What the status rests on has been printed.
LEMMA StatusSays ==
    ASSUME TypeOK
    PROVE  LET status == Status[Len(output)]
           IN  /\ status.says \in Words
               /\ status.says = "true"  => Printed("VERIFICATION SUCCESSFUL")
               /\ status.says = "false" => PrintedOf(Refutations)
<1> DEFINE Right(status) ==
               /\ status.says \in Words
               /\ status.says = "true"  => Printed("VERIFICATION SUCCESSFUL")
               /\ status.says = "false" => PrintedOf(Refutations)
           T == {n \in Nat : n <= Len(output) => Right(Status[n])}
<1>1. Right(Status[0])
  BY StatusIs, AnswerSays, Zenon DEF Words
<1>2. ASSUME NEW n \in 0..(Len(output) - 1), Right(Status[n])
      PROVE  Right(Status[n + 1])
  <2>1. n + 1 \in DOMAIN output
    BY OutputIs
  <2>2. Printed(output[n + 1])
    BY <2>1, OutputIs, Zenon
  <2>3. output[n + 1] \in Refutations => PrintedOf(Refutations)
    BY <2>2, Zenon DEF PrintedOf
  <2>4. Status[n + 1] = StatusAfter(Status[n], output[n + 1])
    BY StatusIs, Zenon
  <2> DEFINE next == StatusAfter(Status[n], output[n + 1])
  <2>5. /\ next.says \in Words
        /\ next.says = "true"  =>
               Status[n].says = "true" \/ output[n + 1] = "VERIFICATION SUCCESSFUL"
        /\ next.says = "false" =>
               Status[n].says = "false" \/ output[n + 1] \in Refutations
    <3>1. Status[n].says \in Words
      BY <1>2, Zenon
    <3>2. QED
      BY <3>1, OneLine, Zenon
  <2> HIDE DEF next
  <2>6. Right(next)
    BY <1>2, <2>2, <2>3, <2>5, Zenon
  <2>7. QED
    BY <2>4, <2>6, Zenon DEF next
<1> HIDE DEF Right
<1>3. 0 \in T
  BY <1>1
<1>4. ASSUME NEW n \in Nat, n \in T PROVE n + 1 \in T
  BY <1>2, <1>4, OutputIs
<1>5. Nat \subseteq T
  <2> HIDE DEF T
  <2>1. QED
    BY <1>3, <1>4, Induction
<1>6. Right(Status[Len(output)])
  BY <1>5, OutputIs
<1>7. QED
  BY <1>6, Zenon DEF Right

LEMMA CbmcSays ==
    ASSUME TypeOK, conf.tool = "cbmc"
    PROVE  /\ CBMC.says \in {"true", "false", "unknown", "error"}
           /\ CBMC.says = "true" => SaysNoError
           /\ CBMC.says = "false" => SaysError
<1> DEFINE status == IF code \in {0, 10} THEN Status[Len(output)] ELSE Plain("error")
<1>1. /\ status.says \in {"true", "false", "unknown", "error", "other"}
      /\ status.says = "true"  => Printed("VERIFICATION SUCCESSFUL")
      /\ status.says = "false" => PrintedOf(Refutations)
  <2>1. CASE code \in {0, 10}
    <3>1. status = Status[Len(output)]
      BY <2>1, Zenon
    <3> HIDE DEF status
    <3>2. QED
      BY <3>1, StatusSays, Zenon DEF Words
  <2>2. CASE code \notin {0, 10}
    <3>1. status.says = "error"
      BY <2>2, AnswerSays, Zenon
    <3> HIDE DEF status
    <3>2. QED
      BY <3>1, Zenon
  <2>3. QED
    BY <2>1, <2>2, Zenon
<1>2. CBMC = Only(status)
  BY Zenon DEF CBMC
<1>3. PrintedOf(Refutations) =>
          \/ PrintedOf({"leak", "dereference failure", "arithmetic overflow"})
          \/ Printed("VERIFICATION FAILED")
  <2>1. ~Printed("double free")
    <3>1. "double free" \notin Lines
      BY Zenon DEF Lines
    <3>2. QED
      BY <3>1, OutputIs, Zenon
  <2>2. QED
    BY <2>1, Zenon DEF PrintedOf, Refutations
<1> HIDE DEF status
<1>4. CASE status.says = Schedule[turn].only
  <2>1. CBMC = status
    BY <1>2, <1>4, Zenon DEF Only
  <2>2. status.says \in {"true", "false"}
    <3>1. Schedule[turn].only \in {"true", "false"}
      BY DEF TypeOK, Schedule, Run
    <3>2. QED
      BY <1>4, <3>1, Zenon
  <2>3. status.says = "true" => SaysNoError
    BY <1>1, <1>4, Zenon DEF SaysNoError, Kleish
  <2>4. status.says = "false" => SaysError
    BY <1>1, <1>3, <1>4, Zenon DEF SaysError, Kleish
  <2>5. QED
    BY <2>1, <2>2, <2>3, <2>4, Zenon
<1>5. CASE status.says # Schedule[turn].only
  <2>1. CBMC = Undecided({})
    BY <1>2, <1>5, Zenon DEF Only
  <2>2. CBMC.says = "unknown"
    BY <2>1, AnswerSays, Zenon
  <2>3. QED
    BY <2>2, Zenon
<1>6. QED
  BY <1>4, <1>5, Zenon

----------------------------------------------------------------------------
(***************************************************************************)
(* Whatever the target, what is read is right.                             *)
(***************************************************************************)

Right(a) ==
    /\ a.says \in Words \cup {"done"}
    /\ Sound(a)
    /\ conf.tool = "klee" /\ a.says = "false" => a.names \subseteq ErrorsOfProperty
    /\ /\ conf.tool \in {"klee", "klee-full"} /\ conf.competition # "test-comp"
       /\ Printed("EPTHREAD") /\ ~Conclusive(a)
       => "EPTHREAD" \in a.names
    /\ /\ conf.tool \in {"klee", "witch-klee", "slowbeast", "cbmc", "nidhugg"}
       /\ ~Conclusive(a)
       => a.says \in {"unknown", "error", "done"}

LEMMA ResultIsRight ==
    ASSUME Shape, Truthful
    PROVE  Right(DetermineResult)
<1> DEFINE a == DetermineResult
<1>a. TypeOK /\ conf.tool \in Targets
  BY DEF Shape, TypeOK
<1>1. CASE conf.tool = "testcomp"
  <2>1. a = Plain("done")
    BY <1>1, Zenon DEF DetermineResult
  <2>2. a.says = "done"
    BY <2>1, AnswerSays
  <2>3. QED
    BY <1>1, <2>2, InconclusiveIsSound DEF Right, Words
<1>2. CASE conf.tool \in {"klee", "klee-full"} /\ conf.competition = "test-comp"
  <2>1. a = Covered
    BY <1>2, Zenon DEF DetermineResult
  <2>2. Covered \in {Plain("done"), Undecided({})}
    BY Zenon DEF Covered
  <2>3. a.says \in {"done", "unknown"}
    BY <2>1, <2>2, AnswerSays
  <2>4. QED
    BY <1>2, <2>3, InconclusiveIsSound DEF Right, Words
<1>3. CASE conf.tool = "klee" /\ conf.competition # "test-comp"
  <2>1. a = Klee
    BY <1>3, Zenon DEF DetermineResult
  <2>2. Sound(Klee)
    BY <1>3, KleeSays, TruthIsSound
  <2>3. QED
    BY <1>3, <2>1, <2>2, KleeSays DEF Right, Words, Conclusive
<1>4. CASE conf.tool = "klee-full" /\ conf.competition # "test-comp"
  <2>1. a = KleeFull
    BY <1>4, Zenon DEF DetermineResult
  <2>2. Sound(KleeFull)
    BY <1>4, KleeFullSays, TruthIsSound
  <2>3. QED
    BY <1>4, <2>1, <2>2, KleeFullSays DEF Right, Words, Conclusive
<1>5. CASE conf.tool = "witch-klee"
  <2>1. a = WitchKlee
    BY <1>5, Zenon DEF DetermineResult
  <2>2. Sound(WitchKlee)
    BY <1>5, WitchSays, TruthIsSound
  <2>3. QED
    BY <1>5, <2>1, <2>2, WitchSays DEF Right, Words, Conclusive
<1>6. CASE conf.tool = "slowbeast"
  <2>1. a = Slowbeast
    BY <1>6, Zenon DEF DetermineResult
  <2>2. Sound(Slowbeast)
    BY <1>6, SlowbeastSays, TruthIsSound
  <2>3. QED
    BY <1>6, <2>1, <2>2, SlowbeastSays DEF Right, Words, Conclusive
<1>7. CASE conf.tool = "cbmc"
  <2>1. a = CBMC
    BY <1>7, Zenon DEF DetermineResult
  <2>2. Sound(CBMC)
    BY <1>7, <1>a, CbmcSays, TruthIsSound
  <2>3. QED
    BY <1>7, <1>a, <2>1, <2>2, CbmcSays DEF Right, Words, Conclusive
<1>8. CASE conf.tool = "nidhugg"
  <2>1. a = Nidhugg
    BY <1>8, Zenon DEF DetermineResult
  <2>2. Sound(Nidhugg)
    BY <1>8, <1>a, NidhuggSays, TruthIsSound
  <2>3. QED
    BY <1>8, <1>a, <2>1, <2>2, NidhuggSays DEF Right, Words, Conclusive
<1>9. CASE conf.tool = "divine"
  <2>1. a = Divine
    BY <1>9, Zenon DEF DetermineResult
  <2>2. Sound(Divine)
    BY <1>9, <1>a, DivineSays, TruthIsSound
  <2>3. QED
    BY <1>9, <1>a, <2>1, <2>2, DivineSays DEF Right, Words, Conclusive
<1>10. CASE conf.tool = "seahorn"
  <2>1. a = Seahorn
    BY <1>10, Zenon DEF DetermineResult
  <2>2. Sound(Seahorn)
    BY <1>10, SeahornSays, TruthIsSound
  <2>3. QED
    BY <1>10, <2>1, <2>2, SeahornSays DEF Right, Words, Conclusive
<1>11. QED
  BY <1>a, <1>1, <1>2, <1>3, <1>4, <1>5, <1>6, <1>7, <1>8, <1>9, <1>10 DEF Targets

----------------------------------------------------------------------------
(***************************************************************************)
(* The inductive invariant                                                 *)
(***************************************************************************)

AnswerInv ==
    /\ Shape
    /\ pc = "read" => Truthful
    /\ pc = "done" => Right(answer)
    /\ pc # "done" => ~Conclusive(answer)

LEMMA SameTruth ==
    ASSUME UNCHANGED <<conf, world, turn, output, code>>
    PROVE  Truthful' <=> Truthful
<1>1. \A l : Printed(l)' <=> Printed(l)
  BY DEF Printed, Contains
<1>2. \A ls : PrintedOf(ls)' <=> PrintedOf(ls)
  BY <1>1 DEF PrintedOf
<1>3. KleeViolations' = KleeViolations
  BY DEF KleeViolations, Is, SvComp
<1>4. \A l, ls : LastIs(l, ls)' <=> LastIs(l, ls)
  BY DEF LastIs
<1>5. NoErrors' <=> NoErrors
  BY <1>4, Zenon DEF NoErrors
<1>6. Schedule' = Schedule
  BY DEF Schedule
<1>7. (Enough' <=> Enough) /\ Schedule[turn]'.only = Schedule[turn].only
  BY <1>6 DEF Enough
<1>8. SaysError' <=> SaysError
  BY <1>1, <1>2, <1>3, <1>5, <1>7, Zenon DEF SaysError
<1>9. SaysNoError' <=> SaysNoError
  BY <1>1, <1>2, <1>5, <1>7, Zenon DEF SaysNoError
<1>10. QED
  BY <1>1, <1>7, <1>8, <1>9, Zenon DEF Truthful

LEMMA Schedules ==
    /\ DOMAIN Schedule \subseteq Nat
    /\ 1 \in DOMAIN Schedule
    /\ \A t \in DOMAIN Schedule : t < Len(Schedule) => t + 1 \in DOMAIN Schedule
<1>1. CASE conf.tool # "cbmc"
  <2>1. Schedule = <<Run("any", 0)>>
    BY <1>1 DEF Schedule
  <2>2. DOMAIN Schedule = 1..1 /\ Len(Schedule) = 1
    BY <2>1
  <2>3. QED
    BY <2>2
<1>2. CASE conf.tool = "cbmc"
  <2>1. DOMAIN Schedule = 1..(2 * Bounds)
    BY <1>2 DEF Schedule
  <2>2. 2 * Bounds \in Nat /\ 1 <= 2 * Bounds
    BY SizesAssumption
  <2>3. Len(Schedule) = 2 * Bounds
    <3>1. Schedule = [i \in 1..(2 * Bounds) |->
                         Run(IF i % 2 = 1 THEN "false" ELSE "true", (i + 1) \div 2)]
      BY <1>2 DEF Schedule
    <3>2. QED
      BY <2>2, <3>1
  <2>4. QED
    BY <2>1, <2>2, <2>3
<1>3. QED
  BY <1>1, <1>2

LEMMA InvHolds == Spec => []AnswerInv
<1>1. Init => AnswerInv
  <2> SUFFICES ASSUME Init PROVE AnswerInv
    OBVIOUS
  <2>1. turn \in DOMAIN Schedule
    BY Schedules DEF Init
  <2>2. output \in BoundedSeq(Lines, MaxLines)
    <3>1. output \in [1..0 -> Lines] /\ 0 \in 0..MaxLines
      BY SizesAssumption DEF Init
    <3>2. QED
      BY <3>1 DEF BoundedSeq, SeqOf
  <2>3. answer.says = "none"
    BY DEF Init, None, Plain, Answer
  <2>4. code \in Codes
    BY DEF Init, Codes
  <2>5. TypeOK
    BY <2>1, <2>2, <2>3, <2>4 DEF Init, TypeOK
  <2>6. Configured
    BY DEF Init, Configured
  <2>7. ~Conclusive(answer)
    BY <2>3 DEF Conclusive
  <2>8. QED
    BY <2>5, <2>6, <2>7 DEF Init, AnswerInv, Shape
<1>2. AnswerInv /\ [Next]_vars => AnswerInv'
  <2> SUFFICES ASSUME AnswerInv, [Next]_vars PROVE AnswerInv'
    OBVIOUS
  <2>a. TypeOK /\ Configured
    BY DEF AnswerInv, Shape
  <2>1. CASE RunTool
    <3>1. UNCHANGED <<conf, world, turn, answer>> /\ pc' = "read" /\ pc = "run"
      BY <2>1 DEF RunTool
    <3>2. Schedule' = Schedule /\ Lines' = Lines /\ Codes' = Codes
      BY <3>1 DEF Schedule, Lines, Codes
    <3>3. output' \in BoundedSeq(Lines', MaxLines) /\ code' \in Codes'
      BY <2>1, <3>2 DEF RunTool
    <3>4. TypeOK'
      BY <2>a, <3>1, <3>2, <3>3 DEF TypeOK
    <3>5. Configured'
      BY <2>a, <3>1 DEF Configured
    <3>6. Truthful'
      BY <2>1 DEF RunTool
    <3>7. ~Conclusive(answer')
      BY <3>1 DEF AnswerInv
    <3>8. QED
      BY <3>1, <3>4, <3>5, <3>6, <3>7 DEF AnswerInv, Shape
  <2>2. CASE Determine
    <3>1. UNCHANGED <<conf, world>> /\ pc = "read" /\ answer' = DetermineResult
      BY <2>2 DEF Determine
    <3>2. Schedule' = Schedule /\ Lines' = Lines /\ Codes' = Codes
      BY <3>1 DEF Schedule, Lines, Codes
    <3>3. Right(answer')
      BY <3>1, ResultIsRight DEF AnswerInv
    <3>4. answer'.says \in {"none", "true", "false", "unknown", "error", "done", "other"}
      BY <3>3 DEF Right, Words
    <3>5. Configured'
      BY <2>a, <3>1 DEF Configured
    <3>6. CASE ~Conclusive(answer') /\ MoreVerifiers
      <4>1. turn' = turn + 1 /\ pc' = "run" /\ output' = <<>> /\ code' = 0
        BY <2>2, <3>6 DEF Determine
      <4>2. turn' \in DOMAIN Schedule'
        BY <2>a, <3>2, <3>6, <4>1, Schedules DEF TypeOK, MoreVerifiers
      <4>3. output' \in BoundedSeq(Lines', MaxLines)
        <5>1. output' \in [1..0 -> Lines'] /\ 0 \in 0..MaxLines
          BY <4>1, SizesAssumption
        <5>2. QED
          BY <5>1 DEF BoundedSeq, SeqOf
      <4>4. code' \in Codes'
        BY <4>1 DEF Codes
      <4>5. TypeOK'
        BY <2>a, <3>1, <3>4, <4>1, <4>2, <4>3, <4>4 DEF TypeOK
      <4>6. QED
        BY <3>5, <3>6, <4>1, <4>5 DEF AnswerInv, Shape
    <3>7. CASE Conclusive(answer') \/ ~MoreVerifiers
      <4>1. pc' = "done" /\ UNCHANGED <<turn, output, code>>
        BY <2>2, <3>7 DEF Determine
      <4>2. TypeOK'
        BY <2>a, <3>1, <3>2, <3>4, <4>1 DEF TypeOK
      <4>3. Right(answer)'
        BY <3>1, <3>3, <4>1 DEF Right, Sound, Printed, Contains, Conclusive,
           ErrorsOfProperty, UnreachCall, Is, SvComp
      <4>4. QED
        BY <3>5, <4>1, <4>2, <4>3 DEF AnswerInv, Shape
    <3>8. QED
      BY <3>6, <3>7
  <2>3. CASE UNCHANGED vars
    <3>1. UNCHANGED <<conf, world, turn, pc, output, code, answer>>
      BY <2>3 DEF vars
    <3>2. Schedule' = Schedule /\ Lines' = Lines /\ Codes' = Codes
      BY <3>1 DEF Schedule, Lines, Codes
    <3>3. TypeOK'
      BY <2>a, <3>1, <3>2 DEF TypeOK
    <3>4. Configured'
      BY <2>a, <3>1 DEF Configured
    <3>5. Truthful' <=> Truthful
      BY <3>1, SameTruth
    <3>6. Right(answer)' <=> Right(answer)
      BY <3>1 DEF Right, Sound, Printed, Contains, Conclusive,
         ErrorsOfProperty, UnreachCall, Is, SvComp
    <3>7. Conclusive(answer)' <=> Conclusive(answer)
      BY <3>1 DEF Conclusive
    <3>8. QED
      BY <3>1, <3>3, <3>4, <3>5, <3>6, <3>7 DEF AnswerInv, Shape
  <2>4. QED
    BY <2>1, <2>2, <2>3 DEF Next
<1>3. QED
  BY <1>1, <1>2, PTL DEF Spec

----------------------------------------------------------------------------
(***************************************************************************)
(* The theorems                                                            *)
(***************************************************************************)

\* No verifier is asked for behind the last one of the schedule, and what is
\* read is one of the texts that the driver can meet (verifier.py:98-131).
THEOREM TypeCorrect == Spec => []TypeOK
<1>1. AnswerInv => TypeOK
  BY DEF AnswerInv, Shape
<1>2. QED
  BY <1>1, InvHolds, PTL

\* KLEE refutes a property only by an error of that property, however long
\* its output is and whatever else it met (klee.py:450-475).
THEOREM RefutedByItsErrors == Spec => []RefutesItsProperty
<1>1. AnswerInv => RefutesItsProperty
  <2> SUFFICES ASSUME AnswerInv, conf.tool = "klee", answer.says = "false"
               PROVE  answer.names \subseteq ErrorsOfProperty
    BY DEF RefutesItsProperty
  <2>1. pc = "done"
    BY DEF AnswerInv, Conclusive
  <2>2. QED
    BY <2>1 DEF AnswerInv, Right
<1>2. QED
  BY <1>1, InvHolds, PTL

\* An undecided answer of KLEE names the threads that it met, so that the
\* svcomp target can go on with slowbeast (svcomp.py:135).
THEOREM ThreadsAreNamed == Spec => []ThreadsAreSeen
<1>1. AnswerInv => ThreadsAreSeen
  BY DEF AnswerInv, ThreadsAreSeen, Right
<1>2. QED
  BY <1>1, InvHolds, PTL

\* An answer of KLEE, Witch-KLEE, Slowbeast, CBMC or Nidhugg that decides
\* nothing is one that the driver tries again or knows (symbiotic.py:98).
THEOREM NothingIsLost == Spec => []UndecidedIsRetried
<1>1. AnswerInv => UndecidedIsRetried
  BY DEF AnswerInv, UndecidedIsRetried, Right
<1>2. QED
  BY <1>1, InvHolds, PTL

\* The steps of reading an output are steps of Verdict: one answer is given,
\* "true" only for a program without errors and "false" only for one with an
\* error, if the verifier told the truth (verifier.py:98-131).  What is left
\* of KeepsPromise, that an answer is given at all, needs fairness.
THEOREM Refinement == Spec => V!Init /\ [][V!Decide]_V!vars
<1> DEFINE Grounds == IF pc = "done" THEN "unsliced" ELSE "none"
<1>1. Init => V!Init
  <2> SUFFICES ASSUME Init PROVE V!Init
    OBVIOUS
  <2>1. world.error \in BOOLEAN
    BY DEF Init
  <2>2. Summary = "none" /\ pc # "done"
    BY DEF Init, Summary
  <2>3. QED
    BY <2>1, <2>2 DEF V!Init
<1>2. AnswerInv /\ AnswerInv' /\ [Next]_vars => [V!Decide]_V!vars
  <2> SUFFICES ASSUME AnswerInv, AnswerInv', [Next]_vars
               PROVE  [V!Decide]_V!vars
    OBVIOUS
  <2>a. world' = world
    BY DEF Next, RunTool, Determine, vars
  <2>1. CASE pc # "done" /\ pc' # "done"
    <3>1. Summary' = Summary /\ Grounds' = Grounds
      BY <2>1 DEF Summary
    <3>2. QED
      BY <2>1, <2>a, <3>1 DEF V!vars
  <2>2. CASE pc # "done" /\ pc' = "done"
    <3>1. Summary = "none" /\ Grounds = "none" /\ Grounds' = "unsliced"
      BY <2>2 DEF Summary
    <3>2. Summary' \in V!Answers
      BY <2>2 DEF Summary, Conclusive, V!Answers
    <3>3. Summary' = "true" => ~world'.error
      BY <2>2 DEF Summary, Conclusive, AnswerInv, Right, Sound
    <3>4. Summary' = "false" => world'.error
      BY <2>2 DEF Summary, Conclusive, AnswerInv, Right, Sound
    <3>5. V!Decide
      BY <2>2, <2>a, <3>1, <3>2, <3>3, <3>4 DEF V!Decide, V!Justified, V!Bases
    <3>6. QED
      BY <3>5
  <2>3. CASE pc = "done"
    <3>1. UNCHANGED <<pc, answer>>
      BY <2>3 DEF Next, RunTool, Determine, vars
    <3>2. Summary' = Summary
      BY <3>1 DEF Summary, Conclusive
    <3>3. QED
      BY <2>a, <3>1, <3>2 DEF V!vars
  <2>4. QED
    BY <2>1, <2>2, <2>3
<1>3. QED
  BY <1>1, <1>2, InvHolds, PTL DEF Spec

=============================================================================
