---------------------------- MODULE PipelineSteps ----------------------------
(***************************************************************************)
(* Theorems about Pipeline: the steps that made a bitcode file are in the  *)
(* order that the checks need, four switches are obeyed wherever they      *)
(* stand on the command line, and prepare_unsliced_file returns the same   *)
(* bitcode each time.                                                      *)
(***************************************************************************)
EXTENDS PipelineContract, Options, WellFoundedInduction

----------------------------------------------------------------------------
(***************************************************************************)
(* What the steps of every file are like.                                  *)
(***************************************************************************)

\* q only runs where p did before.
Precedes(s, p, q) ==
    \A i \in DOMAIN s : s[i] = q => \E j \in 1..(i - 1) : s[j] = p

\* Side effects are put back before an optimization may use that there are none.
Restored(s) ==
    \A i \in DOMAIN s :
        s[i] = "optimize" /\ (\E j \in 1..i : s[j] = "explicit-consdes")
            => \E j \in 1..(i - 1) : s[j] = "remove-readonly-attr"

ChecksKept(s) ==
    Instruments /\ Has(s, "slice") => Keeps(s, "slice", "instrument") /\ Has(s, "instrument")

MarkedFirst(s) ==
    conf.property = "memsafety" =>
        /\ Precedes(s, "replace-lifetime-markers", "optimize")
        /\ Precedes(s, "mark-volatile", "optimize")
        /\ conf.repeatSlicing = 1 => Restored(s)

BrokenFirst(s) ==
    conf.property = "termination" /\ conf.repeatSlicing = 1 =>
        Precedes(s, "break-infinite-loops", "remove-infinite-loops")

Allowed(s) ==
    /\ conf.noslice => ~Has(s, "slice")
    /\ conf.noOptimize => ~Has(s, "optimize")
    /\ conf.noInstrument => ~Has(s, "instrument")

Fine(s) == ChecksKept(s) /\ MarkedFirst(s) /\ BrokenFirst(s) /\ Allowed(s)

(***************************************************************************)
(* What is known of the current file where the run is.                     *)
(***************************************************************************)
ToInstrument == {"compile", "after compilation", "unroll", "link files", "prepare", "instrument"}
ToMarking    == ToInstrument \cup {"after instrumentation"}
InSlicing    == {"slice", "slice again"}
Remembering  == {"link atexit", "consdes"} \cup ToSlicing \cup Again

Marked(s) == Has(s, "replace-lifetime-markers") /\ Has(s, "mark-volatile")

\* The user wants an error rather than bitcode that is not sliced.
MustSlice == conf.requireSlicer /\ conf.repeatSlicing > 0

CurrentFits ==
    /\ Instruments =>
          /\ Place \in Early \ ToInstrument => noslice \/ Has(Current.steps, "instrument")
          /\ Place \in InSlicing => Has(Current.steps, "instrument")
    /\ conf.property = "memsafety" =>
          /\ Place \in (Early \ ToMarking) \cup InSlicing \cup Again => Marked(Current.steps)
          /\ Place \in AtTheEnd => Has(Current.steps, "remove-readonly-attr")
    /\ Place \in Early \ {"slicing"} => ~Has(Current.steps, "explicit-consdes")
    /\ MustSlice /\ caller = "run" /\ Place \in Again \cup {"slice again"} => IsSliced(Current)

\* The options that the user gave are never lifted.
Flags ==
    /\ conf.noslice => noslice /\ pc \notin InSlicing
    /\ conf.noOptimize => noOptimize \/ optlevel = {}

\* The remembered file and the results.
Size(n) == n.pr + n.inst + n.ln + n.opt

ResultsFit ==
    /\ Place \in Remembering => Size(curfile) >= Size(nonsliced)
    /\ conf.property = "memsafety" /\ Place \in Remembering \cup {"handed"} =>
          Marked(files[nonsliced].steps)
    /\ MustSlice /\ handed # NoFile => IsSliced(files[handed])
    /\ prepared # <<>> => handed # NoFile
    /\ \A i \in DOMAIN prepared : Fine(prepared[i].steps)

FilesFine == \A n \in DOMAIN files : Fine(files[n].steps)

StepsInv ==
    /\ FilesFine
    /\ CurrentFits
    /\ Flags
    /\ ResultsFit

----------------------------------------------------------------------------
(***************************************************************************)
(* Longer lists of steps.                                                  *)
(***************************************************************************)

LEMMA Concatenated ==
    ASSUME NEW s \in Seq(Done), NEW t \in Seq(Done)
    PROVE  /\ s \o t \in Seq(Done)
           /\ Len(s) \in Nat /\ DOMAIN s = 1..Len(s)
           /\ Len(t) \in Nat /\ DOMAIN t = 1..Len(t)
           /\ DOMAIN (s \o t) = 1..(Len(s) + Len(t))
           /\ \A i \in 1..Len(s) : (s \o t)[i] = s[i]
           /\ \A i \in 1..Len(t) : (s \o t)[Len(s) + i] = t[i]
<1>1. s \o t \in Seq(Done)
  BY ConcatProperties
<1>2. QED
  BY <1>1

\* Every element of s \o t is one of s or of t.
LEMMA Halves ==
    ASSUME NEW m \in Nat, NEW n \in Nat, NEW i \in 1..(m + n)
    PROVE  i \in 1..m \/ \E k \in 1..n : i = m + k
<1>1. CASE i <= m
  BY <1>1
<1>2. CASE i > m
  <2>1. i - m \in 1..n /\ i = m + (i - m)
    BY <1>2
  <2>2. QED
    BY <2>1
<1>3. QED
  BY <1>1, <1>2

LEMMA PrecedesGrows ==
    ASSUME NEW s \in Seq(Done), NEW t \in Seq(Done), NEW p, NEW q,
           Precedes(s, p, q), Has(s, p) \/ ~Has(t, q) \/ Precedes(t, p, q)
    PROVE  Precedes(s \o t, p, q)
<1> DEFINE u == s \o t
<1> SUFFICES ASSUME NEW i \in DOMAIN u, u[i] = q PROVE \E j \in 1..(i - 1) : u[j] = p
  BY DEF Precedes
<1>1. /\ Len(s) \in Nat /\ DOMAIN s = 1..Len(s) /\ Len(t) \in Nat /\ DOMAIN t = 1..Len(t)
      /\ DOMAIN u = 1..(Len(s) + Len(t))
      /\ \A k \in 1..Len(s) : u[k] = s[k]
      /\ \A k \in 1..Len(t) : u[Len(s) + k] = t[k]
  BY Concatenated
<1> HIDE DEF u
<1>2. CASE i \in 1..Len(s)
  <2>1. PICK j \in 1..(i - 1) : s[j] = p
    BY <1>1, <1>2 DEF Precedes
  <2>2. j \in 1..Len(s)
    BY <1>1, <1>2, <2>1
  <2>3. QED
    BY <1>1, <2>1, <2>2
<1>3. ASSUME NEW k \in 1..Len(t), i = Len(s) + k PROVE \E j \in 1..(i - 1) : u[j] = p
  <2>1. t[k] = q
    BY <1>1, <1>3
  <2>2. CASE Has(s, p)
    <3>1. PICK j \in 1..Len(s) : s[j] = p
      BY <1>1, <2>2 DEF Has
    <3>2. j \in 1..(i - 1)
      BY <1>1, <1>3, <3>1
    <3>3. QED
      BY <1>1, <3>1, <3>2
  <2>3. CASE Precedes(t, p, q)
    <3>1. PICK j \in 1..(k - 1) : t[j] = p
      BY <1>1, <1>3, <2>1, <2>3 DEF Precedes
    <3>2. j \in 1..Len(t) /\ Len(s) + j \in 1..(i - 1)
      BY <1>1, <1>3, <3>1
    <3>3. QED
      BY <1>1, <3>1, <3>2
  <2>4. CASE ~Has(t, q)
    BY <1>1, <1>3, <2>1, <2>4 DEF Has
  <2>5. QED
    BY <2>2, <2>3, <2>4
<1>4. i \in 1..Len(s) \/ \E k \in 1..Len(t) : i = Len(s) + k
  <2>1. Len(s) \in Nat /\ Len(t) \in Nat /\ i \in 1..(Len(s) + Len(t))
    BY <1>1
  <2>2. QED
    BY <2>1, Halves
<1>5. QED
  BY <1>2, <1>3, <1>4

LEMMA RestoredGrows ==
    ASSUME NEW s \in Seq(Done), NEW t \in Seq(Done), Restored(s),
           \/ Has(s, "remove-readonly-attr")
           \/ ~Has(t, "optimize")
           \/ ~Has(s, "explicit-consdes") /\ ~Has(t, "explicit-consdes")
    PROVE  Restored(s \o t)
<1> DEFINE u == s \o t
<1> SUFFICES ASSUME NEW i \in DOMAIN u, u[i] = "optimize",
                    NEW c \in 1..i, u[c] = "explicit-consdes"
             PROVE  \E j \in 1..(i - 1) : u[j] = "remove-readonly-attr"
  BY DEF Restored
<1>1. /\ Len(s) \in Nat /\ DOMAIN s = 1..Len(s) /\ Len(t) \in Nat /\ DOMAIN t = 1..Len(t)
      /\ DOMAIN u = 1..(Len(s) + Len(t))
      /\ \A k \in 1..Len(s) : u[k] = s[k]
      /\ \A k \in 1..Len(t) : u[Len(s) + k] = t[k]
  BY Concatenated
<1>2. Has(u, "explicit-consdes")
  <2>1. c \in DOMAIN u
    BY <1>1
  <2>2. QED
    BY <2>1 DEF Has
<1>3. Has(s, "explicit-consdes") \/ Has(t, "explicit-consdes")
  BY <1>2, HasConcat
<1> HIDE DEF u
<1>4. CASE i \in 1..Len(s)
  <2>1. c \in 1..Len(s) /\ s[c] = "explicit-consdes" /\ s[i] = "optimize"
    BY <1>1, <1>4
  <2>2. PICK j \in 1..(i - 1) : s[j] = "remove-readonly-attr"
    BY <1>1, <1>4, <2>1 DEF Restored
  <2>3. j \in 1..Len(s)
    BY <1>1, <1>4, <2>2
  <2>4. QED
    BY <1>1, <2>2, <2>3
<1>5. ASSUME NEW k \in 1..Len(t), i = Len(s) + k
      PROVE  \E j \in 1..(i - 1) : u[j] = "remove-readonly-attr"
  <2>1. Has(t, "optimize")
    BY <1>1, <1>5 DEF Has
  <2>2. Has(s, "remove-readonly-attr")
    BY <1>3, <2>1
  <2>3. PICK j \in 1..Len(s) : s[j] = "remove-readonly-attr"
    BY <1>1, <2>2 DEF Has
  <2>4. j \in 1..(i - 1)
    BY <1>1, <1>5, <2>3
  <2>5. QED
    BY <1>1, <2>3, <2>4
<1>6. i \in 1..Len(s) \/ \E k \in 1..Len(t) : i = Len(s) + k
  <2>1. Len(s) \in Nat /\ Len(t) \in Nat /\ i \in 1..(Len(s) + Len(t))
    BY <1>1
  <2>2. QED
    BY <2>1, Halves
<1>7. QED
  BY <1>4, <1>5, <1>6

\* Nothing is instrumented after what has been sliced.
LEMMA KeepsGrows ==
    ASSUME NEW s \in Seq(Done), NEW t \in Seq(Done),
           Keeps(s, "slice", "instrument"), ~Has(t, "instrument")
    PROVE  Keeps(s \o t, "slice", "instrument")
<1> DEFINE u == s \o t
<1>1. /\ Len(s) \in Nat /\ DOMAIN s = 1..Len(s) /\ Len(t) \in Nat /\ DOMAIN t = 1..Len(t)
      /\ DOMAIN u = 1..(Len(s) + Len(t))
      /\ \A k \in 1..Len(s) : u[k] = s[k]
      /\ \A k \in 1..Len(t) : u[Len(s) + k] = t[k]
  BY Concatenated
<1> HIDE DEF u
<1>2. PICK i \in 1..Len(s) :
         s[i] = "slice" /\ \A j \in 1..Len(s) : j > i => s[j] # "instrument"
  BY <1>1 DEF Keeps
<1>3. i \in DOMAIN u /\ u[i] = "slice"
  BY <1>1, <1>2
<1>4. ASSUME NEW j \in DOMAIN u, j > i PROVE u[j] # "instrument"
  <2>1. CASE j \in 1..Len(s)
    BY <1>1, <1>2, <1>4, <2>1
  <2>2. ASSUME NEW k \in 1..Len(t), j = Len(s) + k PROVE u[j] # "instrument"
    BY <1>1, <2>2 DEF Has
  <2>3. j \in 1..Len(s) \/ \E k \in 1..Len(t) : j = Len(s) + k
    <3>1. Len(s) \in Nat /\ Len(t) \in Nat /\ j \in 1..(Len(s) + Len(t))
      BY <1>1
    <3>2. QED
      BY <3>1, Halves
  <2>4. QED
    BY <2>1, <2>2, <2>3
<1>5. QED
  BY <1>3, <1>4 DEF Keeps, u

\* What was just sliced.
LEMMA KeepsSliced ==
    ASSUME NEW s \in Seq(Done) PROVE Keeps(s \o <<"slice">>, "slice", "instrument")
<1> DEFINE u == s \o <<"slice">>
<1>1. Len(s) \in Nat /\ DOMAIN u = 1..(Len(s) + 1) /\ u[Len(s) + 1] = "slice"
  OBVIOUS
<1> HIDE DEF u
<1>2. Len(s) + 1 \in DOMAIN u /\ \A j \in DOMAIN u : ~(j > Len(s) + 1)
  BY <1>1
<1>3. QED
  BY <1>1, <1>2 DEF Keeps, u

----------------------------------------------------------------------------
(***************************************************************************)
(* What each list of steps does to Fine.                                   *)
(***************************************************************************)

\* Steps that none of the orders is about, where they are.
Harmless == Simple \cup {"link", "transform", "compile", "sanitize"}

LEMMA SimpleLists ==
    ASSUME NEW t \in Seq(Simple) PROVE t \in Seq(Harmless) /\ t \in Seq(Done) /\ t \in Seq(Passes)
BY DEF Harmless, Simple, Ordinary, Done

LEMMA LinkIsHarmless == <<"link">> \in Seq(Harmless)
BY DEF Harmless

LEMMA HarmlessLacks ==
    ASSUME NEW t \in Seq(Harmless)
    PROVE  /\ t \in Seq(Done)
           /\ ~Has(t, "slice") /\ ~Has(t, "instrument") /\ ~Has(t, "optimize")
           /\ ~Has(t, "explicit-consdes")
           /\ conf.property = "termination" => ~Has(t, "remove-infinite-loops")
<1>1. /\ Harmless \subseteq Done
      /\ {"slice", "instrument", "optimize", "explicit-consdes"} \cap Harmless = {}
      /\ conf.property = "termination" => "remove-infinite-loops" \notin Harmless
  BY DEF Harmless, Simple, Ordinary, Passes, Done
<1>2. QED
  BY <1>1 DEF Has

LEMMA HarmlessGrows ==
    ASSUME NEW s \in Seq(Done), NEW t \in Seq(Harmless), Fine(s) PROVE Fine(s \o t)
<1>1. /\ t \in Seq(Done)
      /\ ~Has(t, "slice") /\ ~Has(t, "instrument") /\ ~Has(t, "optimize")
      /\ ~Has(t, "explicit-consdes")
      /\ conf.property = "termination" => ~Has(t, "remove-infinite-loops")
  BY HarmlessLacks
<1>2. \A p \in {"slice", "instrument", "optimize"} : Has(s \o t, p) <=> Has(s, p)
  BY <1>1, HasConcat
<1>3. ChecksKept(s \o t)
  BY <1>1, <1>2, KeepsGrows DEF Fine, ChecksKept
<1>4. MarkedFirst(s \o t)
  BY <1>1, PrecedesGrows, RestoredGrows DEF Fine, MarkedFirst
<1>5. BrokenFirst(s \o t)
  BY <1>1, PrecedesGrows DEF Fine, BrokenFirst
<1>6. Allowed(s \o t)
  BY <1>2 DEF Fine, Allowed
<1>7. QED
  BY <1>3, <1>4, <1>5, <1>6 DEF Fine

LEMMA ConsdesGrows ==
    ASSUME NEW s \in Seq(Done), Fine(s) PROVE Fine(s \o <<"explicit-consdes">>)
<1> DEFINE t == <<"explicit-consdes">>
<1>1. t \in Seq(Done)
  BY DEF Done, Passes
<1>2. /\ ~Has(t, "slice") /\ ~Has(t, "instrument") /\ ~Has(t, "optimize")
      /\ ~Has(t, "remove-infinite-loops")
  BY DEF Has
<1> HIDE DEF t
<1>3. \A p \in {"slice", "instrument", "optimize"} : Has(s \o t, p) <=> Has(s, p)
  BY <1>1, <1>2, HasConcat
<1>4. ChecksKept(s \o t)
  BY <1>1, <1>2, <1>3, KeepsGrows DEF Fine, ChecksKept
<1>5. MarkedFirst(s \o t)
  BY <1>1, <1>2, PrecedesGrows, RestoredGrows DEF Fine, MarkedFirst
<1>6. BrokenFirst(s \o t)
  BY <1>1, <1>2, PrecedesGrows DEF Fine, BrokenFirst
<1>7. Allowed(s \o t)
  BY <1>3 DEF Fine, Allowed
<1>8. QED
  BY <1>4, <1>5, <1>6, <1>7 DEF Fine, t

LEMMA InstrumentGrows ==
    ASSUME NEW s \in Seq(Done), Fine(s), ~Has(s, "slice"), ~conf.noInstrument
    PROVE  Fine(s \o <<"instrument">>)
<1> DEFINE t == <<"instrument">>
<1>1. t \in Seq(Done)
  BY DEF Done
<1>2. /\ ~Has(t, "slice") /\ ~Has(t, "optimize") /\ ~Has(t, "remove-infinite-loops")
  BY DEF Has
<1> HIDE DEF t
<1>3. \A p \in {"slice", "optimize"} : Has(s \o t, p) <=> Has(s, p)
  BY <1>1, <1>2, HasConcat
<1>4. ChecksKept(s \o t)
  BY <1>3 DEF ChecksKept
<1>5. MarkedFirst(s \o t)
  BY <1>1, <1>2, PrecedesGrows, RestoredGrows DEF Fine, MarkedFirst
<1>6. BrokenFirst(s \o t)
  BY <1>1, <1>2, PrecedesGrows DEF Fine, BrokenFirst
<1>7. Allowed(s \o t)
  BY <1>3 DEF Fine, Allowed
<1>8. QED
  BY <1>4, <1>5, <1>6, <1>7 DEF Fine, t

LEMMA SliceGrows ==
    ASSUME NEW s \in Seq(Done), Fine(s), Instruments => Has(s, "instrument"), ~conf.noslice
    PROVE  Fine(s \o <<"slice">>)
<1> DEFINE t == <<"slice">>
<1>1. t \in Seq(Done)
  BY DEF Done
<1>2. /\ ~Has(t, "instrument") /\ ~Has(t, "optimize") /\ ~Has(t, "remove-infinite-loops")
  BY DEF Has
<1> HIDE DEF t
<1>3. \A p \in {"instrument", "optimize"} : Has(s \o t, p) <=> Has(s, p)
  BY <1>1, <1>2, HasConcat
<1>4. ChecksKept(s \o t)
  BY <1>3, KeepsSliced DEF ChecksKept, t
<1>5. MarkedFirst(s \o t)
  BY <1>1, <1>2, PrecedesGrows, RestoredGrows DEF Fine, MarkedFirst
<1>6. BrokenFirst(s \o t)
  BY <1>1, <1>2, PrecedesGrows DEF Fine, BrokenFirst
<1>7. Allowed(s \o t)
  BY <1>3 DEF Fine, Allowed
<1>8. QED
  BY <1>4, <1>5, <1>6, <1>7 DEF Fine, t

LEMMA OptimizationsLack ==
    ASSUME NEW t \in Seq({"optimize"})
    PROVE  /\ t \in Seq(Done) /\ t \in Seq(Passes)
           /\ \A p : p # "optimize" => ~Has(t, p)
<1>1. "optimize" \in Done /\ "optimize" \in Passes
  BY DEF Done, Passes
<1>2. QED
  BY <1>1 DEF Has

\* Without levels nothing is optimized.
LEMMA NoLevels == optlevel = {} => Before = <<>> /\ After = <<>> /\ ForSlicing = <<>>
BY DEF Before, After, ForSlicing, When

LEMMA NothingGrows == ASSUME NEW s \in Seq(Done) PROVE s \o <<>> = s
OBVIOUS

LEMMA OptimizedGrows ==
    ASSUME NEW s \in Seq(Done), Fine(s), NEW t \in Seq({"optimize"}),
           conf.noOptimize => t = <<>>,
           conf.property = "memsafety" =>
              Marked(s) /\ (Has(s, "remove-readonly-attr") \/ ~Has(s, "explicit-consdes"))
    PROVE  Fine(s \o t)
<1>1. t \in Seq(Done) /\ \A p : p # "optimize" => ~Has(t, p)
  BY OptimizationsLack
<1>2. \A p \in {"slice", "instrument"} : Has(s \o t, p) <=> Has(s, p)
  BY <1>1, HasConcat
<1>3. ChecksKept(s \o t)
  BY <1>1, <1>2, KeepsGrows DEF Fine, ChecksKept
<1>4. MarkedFirst(s \o t)
  BY <1>1, PrecedesGrows, RestoredGrows DEF Fine, MarkedFirst, Marked
<1>5. BrokenFirst(s \o t)
  BY <1>1, PrecedesGrows DEF Fine, BrokenFirst
<1>6. Allowed(s \o t)
  <2>1. conf.noOptimize => s \o t = s
    BY NothingGrows
  <2>2. QED
    BY <1>2, <2>1 DEF Fine, Allowed
<1>7. QED
  BY <1>3, <1>4, <1>5, <1>6 DEF Fine

\* Infinite loops are broken first.
LEMMA LoopsBrokenFirst ==
    conf.property = "termination" =>
        Precedes(ForSlicing, "break-infinite-loops", "remove-infinite-loops")
<1> SUFFICES ASSUME conf.property = "termination"
             PROVE  Precedes(ForSlicing, "break-infinite-loops", "remove-infinite-loops")
  OBVIOUS
<1> DEFINE break == <<"reg2mem", "break-infinite-loops">>
           remove == <<"remove-infinite-loops", "mem2reg", "break-crit-loops", "lowerswitch">>
<1>1. ForSlicing = <<>> \/ ForSlicing = break \o remove
  BY DEF ForSlicing
<1>2. break \in Seq(Done) /\ remove \in Seq(Done)
  BY DEF Done, Passes
<1>3. Has(break, "break-infinite-loops")
  <2>1. 2 \in DOMAIN break /\ break[2] = "break-infinite-loops"
    OBVIOUS
  <2>2. QED
    BY <2>1 DEF Has
<1>4. ~Has(break, "remove-infinite-loops")
  BY DEF Has
<1>5. Precedes(break, "break-infinite-loops", "remove-infinite-loops")
  BY <1>4 DEF Precedes, Has
<1> HIDE DEF break, remove
<1>6. Precedes(break \o remove, "break-infinite-loops", "remove-infinite-loops")
  BY <1>2, <1>3, <1>5, PrecedesGrows
<1>7. Precedes(<<>>, "break-infinite-loops", "remove-infinite-loops")
  BY DEF Precedes
<1>8. QED
  BY <1>1, <1>6, <1>7

LEMMA ForSlicingGrows ==
    ASSUME NEW s \in Seq(Done), Fine(s), conf.noOptimize => optlevel = {},
           conf.property = "memsafety" => Marked(s), ~Has(s, "explicit-consdes")
    PROVE  Fine(s \o (Before \o ForSlicing))
<1>1. /\ Before \in Seq(Done) /\ ~Has(Before, "slice") /\ ~Has(Before, "instrument")
      /\ ~Has(Before, "explicit-consdes") /\ ~Has(Before, "remove-infinite-loops")
  BY OptimizationsAreLists, OptimizationsLack
<1>2. /\ ForSlicing \in Seq(Done) /\ ~Has(ForSlicing, "slice") /\ ~Has(ForSlicing, "instrument")
      /\ ~Has(ForSlicing, "explicit-consdes")
  <2>1. /\ Ordinary \subseteq Done
        /\ {"slice", "instrument", "explicit-consdes"} \cap Ordinary = {}
    BY DEF Ordinary, Passes, Done
  <2>2. QED
    BY <2>1, ForSlicingIsList DEF Has
<1> DEFINE t == Before \o ForSlicing
<1>3. /\ t \in Seq(Done) /\ ~Has(t, "slice") /\ ~Has(t, "instrument")
      /\ ~Has(t, "explicit-consdes")
  BY <1>1, <1>2, HasConcat, ConcatProperties
<1>4. conf.property = "termination" =>
        Precedes(t, "break-infinite-loops", "remove-infinite-loops")
  <2>1. Precedes(Before, "break-infinite-loops", "remove-infinite-loops")
    BY <1>1 DEF Precedes, Has
  <2>2. QED
    BY <1>1, <1>2, <2>1, LoopsBrokenFirst, PrecedesGrows
<1>5. conf.noOptimize => t = <<>>
  BY NoLevels
<1> HIDE DEF t
<1>6. \A p \in {"slice", "instrument"} : Has(s \o t, p) <=> Has(s, p)
  BY <1>3, HasConcat
<1>7. ChecksKept(s \o t)
  BY <1>3, <1>6, KeepsGrows DEF Fine, ChecksKept
<1>8. MarkedFirst(s \o t)
  BY <1>3, PrecedesGrows, RestoredGrows DEF Fine, MarkedFirst, Marked
<1>9. BrokenFirst(s \o t)
  BY <1>3, <1>4, PrecedesGrows DEF Fine, BrokenFirst
<1>10. Allowed(s \o t)
  <2>1. conf.noOptimize => s \o t = s
    BY <1>5, NothingGrows
  <2>2. QED
    BY <1>6, <2>1 DEF Fine, Allowed
<1>11. QED
  BY <1>7, <1>8, <1>9, <1>10 DEF Fine, t

LEMMA AgainGrows ==
    ASSUME NEW s \in Seq(Done), Fine(s), conf.noOptimize => optlevel = {},
           conf.property = "memsafety" => Marked(s), conf.repeatSlicing # 1
    PROVE  Fine(s \o (After \o <<"remove-infinite-loops">>))
<1> DEFINE remove == <<"remove-infinite-loops">>
           t == After \o remove
<1>1. remove \in Seq(Done) /\ \A p : p # "remove-infinite-loops" => ~Has(remove, p)
  BY DEF Done, Passes, Has
<1>2. After \in Seq(Done) /\ \A p : p # "optimize" => ~Has(After, p)
  BY OptimizationsAreLists, OptimizationsLack
<1> HIDE DEF remove
<1>3. t \in Seq(Done) /\ ~Has(t, "slice") /\ ~Has(t, "instrument")
  BY <1>1, <1>2, HasConcat, ConcatProperties
<1>4. conf.noOptimize => ~Has(t, "optimize")
  <2>1. conf.noOptimize => ~Has(After, "optimize")
    BY NoLevels DEF Has
  <2>2. QED
    BY <1>1, <1>2, <2>1, HasConcat
<1> HIDE DEF t
<1>5. \A p \in {"slice", "instrument"} : Has(s \o t, p) <=> Has(s, p)
  BY <1>3, HasConcat
<1>6. ChecksKept(s \o t)
  BY <1>3, <1>5, KeepsGrows DEF Fine, ChecksKept
<1>7. MarkedFirst(s \o t)
  BY <1>3, PrecedesGrows DEF Fine, MarkedFirst, Marked
<1>8. BrokenFirst(s \o t)
  BY DEF BrokenFirst
<1>9. Allowed(s \o t)
  BY <1>3, <1>4, <1>5, HasConcat DEF Fine, Allowed
<1>10. QED
  BY <1>6, <1>7, <1>8, <1>9 DEF Fine, t, remove

----------------------------------------------------------------------------
(***************************************************************************)
(* What a step of the pipeline writes.                                     *)
(***************************************************************************)

\* The current file is made of the current one by the steps t, and no other
\* file is written.
Grows(t) ==
    /\ t \in Seq(Done)
    /\ files'[curfile'].steps = Current.steps \o t
    /\ \A n \in DOMAIN files' : n = curfile' \/ (n \in DOMAIN files /\ files'[n] = files[n])

\* Its name is longer.
Named == UNCHANGED <<files, curfile>> \/ Size(curfile') > Size(curfile)

LEMMA Sizes ==
    ASSUME NEW n \in Names
    PROVE  /\ Size(n) \in Nat /\ Size(Sliced(n)) = Size(n)
           /\ Size(Prepared(n)) > Size(n) /\ Size(Instrumented(n)) > Size(n)
           /\ Size(Linked(n)) > Size(n) /\ Size(Optimized(n)) > Size(n)
<1>0. n.pr \in Nat /\ n.inst \in Nat /\ n.ln \in Nat /\ n.opt \in Nat
  BY DEF Names
<1>1. /\ Stem(n) \in Names /\ Size(Stem(n)) = Size(n) /\ Size(n) \in Nat
      /\ Size(Sliced(n)) = Size(n)
  <2>1. Stem(n) \in Names
    BY DEF Names, Stem
  <2>2. Size(n) \in Nat
    BY <1>0 DEF Size
  <2>3. Size(Stem(n)) = Size(n) /\ Size(Sliced(n)) = Size(n)
    <3>1. \A b : LET m == [n EXCEPT !.sliced = b]
                 IN  m.pr = n.pr /\ m.inst = n.inst /\ m.ln = n.ln /\ m.opt = n.opt
      BY DEF Names
    <3>2. QED
      BY <3>1 DEF Stem, Sliced, Size
  <2>4. QED
    BY <2>1, <2>2, <2>3
<1>2. ASSUME NEW m \in Names
      PROVE  /\ Size([m EXCEPT !.pr = @ + 1]) > Size(m)
             /\ Size([m EXCEPT !.inst = @ + 1]) > Size(m)
             /\ Size([m EXCEPT !.ln = @ + 1]) > Size(m)
             /\ Size([m EXCEPT !.opt = @ + 1]) > Size(m)
  BY DEF Names, Size
<1>3. QED
  BY <1>1, <1>2 DEF Prepared, Instrumented, Linked, Optimized

LEMMA NoneGrows == ASSUME TypeOK, UNCHANGED <<files, curfile>> PROVE Grows(<<>>) /\ Named
<1>1. Current.steps \in Seq(Done)
  BY CurrentType DEF Linkable, Bitcode
<1>2. <<>> \in Seq(Done) /\ Current.steps \o <<>> = Current.steps
  BY <1>1, NothingGrows
<1>3. QED
  BY <1>2 DEF Grows, Named, Current

LEMMA WriteGrows ==
    ASSUME NEW n, NEW b, NEW t \in Seq(Done), Write(n, b), b.steps = Current.steps \o t
    PROVE  Grows(t) /\ curfile' = n
BY DEF Write, Grows

LEMMA RunOptGrows ==
    ASSUME TypeOK, NEW passes \in Seq(Passes), RunOpt(passes) PROVE Grows(passes) /\ Named
<1>1. CASE passes = <<>>
  BY <1>1, NoneGrows DEF RunOpt
<1>2. CASE passes # <<>>
  <2>1. Write(Prepared(curfile), Transformed(Current, passes))
    BY <1>2 DEF RunOpt
  <2>2. Transformed(Current, passes).steps = Current.steps \o passes
    BY DEF Transformed
  <2>3. Grows(passes) /\ curfile' = Prepared(curfile)
    BY <2>1, <2>2, WriteGrows, NotByPasses
  <2>4. QED
    BY <2>3, CurrentType, Sizes DEF Named
<1>3. QED
  BY <1>1, <1>2

LEMMA OptimizeGrows ==
    ASSUME TypeOK, NEW passes \in Seq(Passes), Optimize(passes)
    PROVE  Named /\ Grows(IF noOptimize THEN <<>> ELSE passes)
<1>1. CASE noOptimize
  BY <1>1, NoneGrows DEF Optimize
<1>2. CASE ~noOptimize /\ passes = <<>>
  BY <1>2, NoneGrows DEF Optimize, OptimizeWith
<1>3. CASE ~noOptimize /\ passes # <<>>
  <2> DEFINE b == [Current EXCEPT !.steps = @ \o passes]
  <2>1. Write(Optimized(curfile), b)
    BY <1>3 DEF Optimize, OptimizeWith
  <2>2. b.steps = Current.steps \o passes
    BY CurrentType DEF Linkable, Bitcode
  <2> HIDE DEF b
  <2>3. Grows(passes) /\ curfile' = Optimized(curfile)
    BY <2>1, <2>2, WriteGrows, NotByPasses
  <2>4. QED
    BY <1>3, <2>3, CurrentType, Sizes DEF Named
<1>4. QED
  BY <1>1, <1>2, <1>3

LEMMA AppendIsOne ==
    ASSUME NEW s \in Seq(Done), NEW d \in Done PROVE <<d>> \in Seq(Done) /\ Append(s, d) = s \o <<d>>
OBVIOUS

LEMMA DefinitionsGrow ==
    ASSUME TypeOK, NEW funs, Write(Linked(curfile), WithDefinitions(Current, funs))
    PROVE  Grows(<<"link">>) /\ Named
<1>1. "link" \in Done /\ Current.steps \in Seq(Done)
  BY CurrentType DEF Linkable, Bitcode, Done
<1>2. WithDefinitions(Current, funs).steps = Current.steps \o <<"link">> /\ <<"link">> \in Seq(Done)
  BY <1>1, AppendIsOne DEF WithDefinitions
<1>3. Grows(<<"link">>) /\ curfile' = Linked(curfile)
  BY <1>2, WriteGrows
<1>4. QED
  BY <1>3, CurrentType, Sizes DEF Named

----------------------------------------------------------------------------
(***************************************************************************)
(* StepsInv is an invariant.  Its parts, after a step of each kind.        *)
(***************************************************************************)

LEMMA SameFine ==
    ASSUME conf' = conf, NEW n, Fine(files'[n].steps) PROVE (Fine(files[n].steps))'
<1>1. ChecksKept(files'[n].steps) <=> (ChecksKept(files[n].steps))'
  BY DEF ChecksKept, Instruments, Has, Keeps
<1>2. MarkedFirst(files'[n].steps) <=> (MarkedFirst(files[n].steps))'
  BY DEF MarkedFirst, Precedes, Restored
<1>3. BrokenFirst(files'[n].steps) <=> (BrokenFirst(files[n].steps))'
  BY DEF BrokenFirst, Precedes
<1>4. Allowed(files'[n].steps) <=> (Allowed(files[n].steps))'
  BY DEF Allowed, Has
<1>5. QED
  BY <1>1, <1>2, <1>3, <1>4 DEF Fine

LEMMA SamePrepared ==
    ASSUME conf' = conf, NEW i, Fine(prepared'[i].steps) PROVE (Fine(prepared[i].steps))'
<1>1. ChecksKept(prepared'[i].steps) <=> (ChecksKept(prepared[i].steps))'
  BY DEF ChecksKept, Instruments, Has, Keeps
<1>2. MarkedFirst(prepared'[i].steps) <=> (MarkedFirst(prepared[i].steps))'
  BY DEF MarkedFirst, Precedes, Restored
<1>3. BrokenFirst(prepared'[i].steps) <=> (BrokenFirst(prepared[i].steps))'
  BY DEF BrokenFirst, Precedes
<1>4. Allowed(prepared'[i].steps) <=> (Allowed(prepared[i].steps))'
  BY DEF Allowed, Has
<1>5. QED
  BY <1>1, <1>2, <1>3, <1>4 DEF Fine

LEMMA FilesGrow ==
    ASSUME FilesFine, conf' = conf, NEW t, Grows(t), Fine(Current.steps \o t)
    PROVE  FilesFine'
<1> SUFFICES ASSUME NEW n \in DOMAIN files' PROVE (Fine(files[n].steps))'
  BY DEF FilesFine
<1>1. Fine(files'[n].steps)
  BY DEF Grows, FilesFine
<1>2. QED
  BY <1>1, SameFine

\* Which steps the current file is made by.
LEMMA CurrentGrows ==
    ASSUME TypeOK, NEW t, Grows(t)
    PROVE  /\ Current.steps \in Seq(Done) /\ t \in Seq(Done)
           /\ \A p : Has(Current.steps, p)' <=> Has(Current.steps, p) \/ Has(t, p)
<1>1. Current.steps \in Seq(Done) /\ t \in Seq(Done)
  BY CurrentType DEF Linkable, Bitcode, Grows
<1>2. Current'.steps = Current.steps \o t
  BY DEF Grows, Current
<1>3. ASSUME NEW p PROVE Has(Current.steps, p)' <=> Has(Current.steps, p) \/ Has(t, p)
  <2>1. Has(Current.steps, p)' <=> Has(Current.steps \o t, p)
    BY <1>2 DEF Has
  <2>2. QED
    BY <1>1, <2>1, HasConcat
<1>4. QED
  BY <1>1, <1>3

\* Steps after which what is known of the current file is what was known of it.
Carries ==
    /\ UNCHANGED <<conf, noslice, caller>>
    /\ Place' \in Early \ ToInstrument => Place \in Early \ ToInstrument
    /\ Place' \in InSlicing => Place \in InSlicing
    /\ Place' \in (Early \ ToMarking) \cup InSlicing \cup Again =>
          Place \in (Early \ ToMarking) \cup InSlicing \cup Again
    /\ Place' \in AtTheEnd => Place \in AtTheEnd
    /\ Place' \in Early \ {"slicing"} => Place \in Early \ {"slicing"}
    /\ Place' \in Again \cup {"slice again"} => Place \in Again \cup {"slice again"}

LEMMA CarriedFits ==
    ASSUME TypeOK, CurrentFits, Carries, NEW t, Grows(t), ~Has(t, "explicit-consdes")
    PROVE  CurrentFits'
<1>1. \A p : Has(Current.steps, p)' <=> Has(Current.steps, p) \/ Has(t, p)
  BY CurrentGrows
<1>2. ~Has(t, "explicit-consdes")
  OBVIOUS
<1>3. Instruments' = Instruments /\ MustSlice' = MustSlice
  BY DEF Carries, Instruments, MustSlice
<1>4. (Instruments =>
          /\ Place \in Early \ ToInstrument => noslice \/ Has(Current.steps, "instrument")
          /\ Place \in InSlicing => Has(Current.steps, "instrument"))'
  BY <1>1, <1>3 DEF CurrentFits, Carries
<1>5. (conf.property = "memsafety" =>
          /\ Place \in (Early \ ToMarking) \cup InSlicing \cup Again => Marked(Current.steps)
          /\ Place \in AtTheEnd => Has(Current.steps, "remove-readonly-attr"))'
  BY <1>1 DEF CurrentFits, Carries, Marked
<1>6. (Place \in Early \ {"slicing"} => ~Has(Current.steps, "explicit-consdes"))'
  BY <1>1, <1>2 DEF CurrentFits, Carries
<1>7. (MustSlice /\ caller = "run" /\ Place \in Again \cup {"slice again"} => IsSliced(Current))'
  BY <1>1, <1>3 DEF CurrentFits, Carries, IsSliced
<1>8. QED
  BY <1>4, <1>5, <1>6, <1>7 DEF CurrentFits

\* The remembered file is not written.
LEMMA RememberedStays ==
    ASSUME TypeOK, ResultsFit, Place \in Remembering, nonsliced' = nonsliced,
           NEW t, Grows(t), Named, TypeOK'
    PROVE  /\ files'[nonsliced] = files[nonsliced]
           /\ Size(curfile') >= Size(nonsliced')
<1>1. Size(curfile) >= Size(nonsliced)
  BY DEF ResultsFit
<1>2. Size(curfile) \in Nat /\ Size(nonsliced) \in Nat /\ Size(curfile') \in Nat
  <2>1. curfile \in Names /\ nonsliced \in Names /\ curfile' \in Names
    BY DEF TypeOK
  <2>2. QED
    BY <2>1, Sizes
<1>3. CASE UNCHANGED <<files, curfile>>
  BY <1>1, <1>3
<1>4. CASE Size(curfile') > Size(curfile)
  <2>1. Size(curfile') > Size(nonsliced)
    BY <1>1, <1>2, <1>4
  <2>2. curfile' # nonsliced
    BY <1>2, <2>1
  <2>3. nonsliced \in DOMAIN files'
    BY DEF TypeOK
  <2>4. files'[nonsliced] = files[nonsliced]
    BY <2>2, <2>3 DEF Grows
  <2>5. Size(curfile') >= Size(nonsliced')
    BY <1>2, <2>1
  <2>6. QED
    BY <2>4, <2>5
<1>5. QED
  BY <1>3, <1>4 DEF Named

LEMMA SameResultsFit ==
    ASSUME PlaceInv, ResultsFit, [Next]_vars, UNCHANGED <<handed, prepared>>
    PROVE  /\ MustSlice' /\ handed' # NoFile => IsSliced(files'[handed'])
           /\ prepared' # <<>> => handed' # NoFile
           /\ (\A i \in DOMAIN prepared : Fine(prepared[i].steps))'
<1>1. conf' = conf
  BY ConfIsKept
<1>2. MustSlice' = MustSlice
  BY <1>1 DEF MustSlice
<1>3. MustSlice /\ handed # NoFile => IsSliced(files'[handed])
  BY StepKeepsHanded DEF ResultsFit
<1>4. (\A i \in DOMAIN prepared : Fine(prepared[i].steps))'
  BY <1>1, SamePrepared DEF ResultsFit
<1>5. QED
  BY <1>2, <1>3, <1>4 DEF ResultsFit

LEMMA ResultsCarry ==
    ASSUME PlaceInv, PlaceInv', ResultsFit, [Next]_vars,
           UNCHANGED <<nonsliced, handed, prepared>>, NEW t, Grows(t), Named,
           Place' \in Remembering \cup {"handed"} => Place \in Remembering
    PROVE  ResultsFit'
<1>1. Place \in Remembering =>
         files'[nonsliced] = files[nonsliced] /\ Size(curfile') >= Size(nonsliced')
  BY RememberedStays DEF PlaceInv
<1>2. conf' = conf
  BY ConfIsKept
<1>3. Place' \in Remembering => Size(curfile') >= Size(nonsliced')
  BY <1>1
<1>4. (conf.property = "memsafety" /\ Place \in Remembering \cup {"handed"} =>
          Marked(files[nonsliced].steps))'
  BY <1>1, <1>2 DEF ResultsFit, Marked, Has
<1>5. QED
  BY <1>3, <1>4, SameResultsFit DEF ResultsFit

\* Most steps on both sides of the slicer write what nobody waits for.
HarmlessStep ==
    /\ \E t \in Seq(Harmless) : Grows(t)
    /\ Named /\ Carries
    /\ UNCHANGED <<options, nonsliced, handed, prepared>>
    /\ pc' \notin InSlicing
    /\ Place' \in Remembering \cup {"handed"} => Place \in Remembering

AllSteps == All /\ StepsInv

LEMMA HarmlessKeeps ==
    ASSUME AllSteps, PlaceInv', [Next]_vars, HarmlessStep PROVE StepsInv'
<1>1. PICK t \in Seq(Harmless) : Grows(t)
  BY DEF HarmlessStep
<1>2. Current.steps \in Seq(Done) /\ Fine(Current.steps)
  <2>1. TypeOK /\ FilesFine
    BY DEF AllSteps, All, PlaceInv, StepsInv
  <2>2. curfile \in DOMAIN files
    BY <2>1 DEF TypeOK
  <2>3. QED
    BY <2>1, <2>2, CurrentType DEF FilesFine, Current, Linkable, Bitcode
<1>3. conf' = conf
  BY DEF HarmlessStep, options
<1>4. FilesFine'
  BY <1>1, <1>2, <1>3, HarmlessGrows, FilesGrow DEF AllSteps, StepsInv
<1>5. CurrentFits'
  BY <1>1, HarmlessLacks, CarriedFits DEF AllSteps, All, PlaceInv, StepsInv, HarmlessStep
<1>6. Flags'
  BY DEF AllSteps, StepsInv, Flags, HarmlessStep, options
<1>7. ResultsFit'
  BY <1>1, ResultsCarry DEF AllSteps, All, StepsInv, HarmlessStep
<1>8. QED
  BY <1>4, <1>5, <1>6, <1>7 DEF StepsInv

\* A call that fails leaves everything as it is.
LEMMA FailedKeeps ==
    ASSUME AllSteps, [Next]_vars, pc' \in {"raised", "proved"},
           UNCHANGED <<options, files, handed, prepared>>
    PROVE  StepsInv'
<1>1. Place' \notin Early \cup InSlicing \cup Again \cup AtTheEnd \cup Remembering
                   \cup {"slice again", "handed"}
  BY DEF Place, Early, InSlicing, Again, AtTheEnd, Remembering, ToSlicing
<1>2. conf' = conf
  BY DEF options
<1>3. FilesFine'
  BY <1>2, SameFine DEF AllSteps, StepsInv, FilesFine
<1>4. CurrentFits'
  BY <1>1 DEF CurrentFits
<1>5. Flags'
  BY DEF AllSteps, StepsInv, Flags, options, InSlicing
<1>6. ResultsFit'
  BY <1>1, SameResultsFit DEF AllSteps, All, StepsInv, ResultsFit
<1>7. QED
  BY <1>3, <1>4, <1>5, <1>6 DEF StepsInv

LEMMA NoneIsHarmless == <<>> \in Seq(Harmless)
OBVIOUS

HarmlessActions ==
    \/ ActionsAfterCompilation \/ LinkRound \/ Unroll \/ PrepareForInstrumentation
    \/ ActionsBeforeSlicing \/ LinkBeforeSlicing \/ LinkAtexit
    \/ ActionsAfterSlicing \/ LinkRest

LEMMA HarmlessIsStep == ASSUME AllSteps, HarmlessActions PROVE HarmlessStep
<1> USE DEF Step, options, control, results
<1> USE DEF Place, Early, Again, AtTheEnd, ToInstrument, ToMarking, InSlicing, Remembering, ToSlicing
<1> USE DEF Carries, HarmlessStep
<1>0. TypeOK
  BY DEF AllSteps, All, PlaceInv
<1>1. CASE ActionsAfterCompilation
  BY <1>0, <1>1, NoneGrows, NoneIsHarmless DEF ActionsAfterCompilation, LinkUndefined
<1>2. CASE LinkRound
  <2>1. goal \in [only : SUBSET Functions, then : Steps]
    BY <1>0 DEF TypeOK
  <2>2. Place' = Place /\ pc' \notin InSlicing /\ Place # "handed"
    BY <1>2, <2>1 DEF LinkRound, AllSteps, All, PlaceInv, Linking, AfterLinking
  <2>3. (\E t \in Seq(Harmless) : Grows(t)) /\ Named
    BY <1>0, <1>2, DefinitionsGrow, NoneGrows, LinkIsHarmless, NoneIsHarmless DEF LinkRound
  <2>4. UNCHANGED <<conf, noslice, noOptimize, optlevel, caller, nonsliced, handed, prepared>>
    BY <1>2 DEF LinkRound
  <2> HIDE DEF Place, Early, Again, AtTheEnd, ToInstrument, ToMarking, InSlicing, Remembering, ToSlicing
  <2>5. QED
    BY <2>2, <2>3, <2>4
<1>3. CASE Unroll
  BY <1>0, <1>3, UnrollIsList, RunOptGrows, SimpleLists DEF Unroll
<1>4. CASE PrepareForInstrumentation
  BY <1>0, <1>4, PreparationIsList, RunOptGrows, SimpleLists DEF PrepareForInstrumentation
<1>5. CASE ActionsBeforeSlicing
  BY <1>0, <1>5, NoneGrows, NoneIsHarmless DEF ActionsBeforeSlicing, LinkUndefined
<1>6. CASE LinkBeforeSlicing
  BY <1>0, <1>6, NoneGrows, NoneIsHarmless DEF LinkBeforeSlicing, LinkUndefined
<1>7. CASE LinkAtexit
  BY <1>0, <1>7, NoneGrows, NoneIsHarmless DEF LinkAtexit, LinkUndefined
<1>8. CASE ActionsAfterSlicing
  BY <1>0, <1>8, SlicedUnrollIsList, RunOptGrows, SimpleLists DEF ActionsAfterSlicing
<1>9. CASE LinkRest
  BY <1>0, <1>9, NoneGrows, NoneIsHarmless DEF LinkRest, LinkUndefined
<1>10. QED
  BY <1>1, <1>2, <1>3, <1>4, <1>5, <1>6, <1>7, <1>8, <1>9 DEF HarmlessActions

----------------------------------------------------------------------------
(***************************************************************************)
(* The other steps, one after the other.                                   *)
(***************************************************************************)

LEMMA Known ==
    ASSUME AllSteps
    PROVE  /\ TypeOK /\ PlaceInv /\ SlicedInv /\ FilesFine /\ CurrentFits /\ Flags /\ ResultsFit
           /\ Current.steps \in Seq(Done) /\ Fine(Current.steps)
<1>1. TypeOK /\ FilesFine
  BY DEF AllSteps, All, PlaceInv, StepsInv
<1>2. curfile \in DOMAIN files
  BY <1>1 DEF TypeOK
<1>3. Current.steps \in Seq(Done) /\ Fine(Current.steps)
  BY <1>1, <1>2, CurrentType DEF FilesFine, Current, Linkable, Bitcode
<1>4. QED
  BY <1>1, <1>3 DEF AllSteps, All, StepsInv

\* After a step with which nothing but what is known of the current file changes.
LEMMA OtherPartsKept ==
    ASSUME AllSteps, PlaceInv', [Next]_vars, NEW t, Grows(t), Named, Fine(Current.steps \o t),
           CurrentFits', Flags', UNCHANGED <<nonsliced, handed, prepared>>,
           Place' \in Remembering \cup {"handed"} => Place \in Remembering
    PROVE  StepsInv'
BY Known, ConfIsKept, FilesGrow, ResultsCarry DEF StepsInv

LEMMA CompileFine == ASSUME AllSteps, PlaceInv', CompileSources PROVE StepsInv'
<1> DEFINE s == Preprocessing \o <<"compile">> \o When(Sanitizes(conf), "sanitize")
<1>1. s \in Seq(Harmless)
  <2> DEFINE a == Preprocessing
             b == <<"compile">>
             c == When(Sanitizes(conf), "sanitize")
  <2>1. {"transform", "compile", "sanitize"} \subseteq Harmless
    BY DEF Harmless
  <2>2. a \in Seq(Harmless) /\ b \in Seq(Harmless) /\ c \in Seq(Harmless)
    BY <2>1, WhenIsList, OnePass DEF Preprocessing
  <2> HIDE DEF a, b, c
  <2>3. a \o b \in Seq(Harmless)
    BY <2>2, MorePasses
  <2>4. a \o b \o c \in Seq(Harmless)
    BY <2>2, <2>3, MorePasses
  <2>5. QED
    BY <2>4 DEF a, b, c
<1>2. PICK program \in Programs :
        Write(Code, [steps |-> s, undef |-> program, defs |-> {}, errors |-> {"program"}])
  BY DEF CompileSources
<1> HIDE DEF s
<1>3. /\ curfile' = Code /\ files'[Code].steps = s
      /\ \A n \in DOMAIN files' : n = Code \/ (n \in DOMAIN files /\ files'[n] = files[n])
  BY <1>2 DEF Write
<1>4. /\ pc = "compile" /\ pc' = "after compilation"
      /\ UNCHANGED <<conf, noslice, noOptimize, optlevel, caller, nonsliced, handed, prepared>>
  BY DEF CompileSources, Step, options, control, results
<1>5. Fine(s)
  <2>1. <<>> \in Seq(Done) /\ Fine(<<>>)
    BY DEF Fine, ChecksKept, MarkedFirst, BrokenFirst, Allowed, Has, Precedes, Restored
  <2>2. <<>> \o s = s
    BY <1>1
  <2>3. Fine(<<>> \o s)
    BY <1>1, <2>1, HarmlessGrows
  <2>4. QED
    BY <2>2, <2>3
<1>6. FilesFine'
  <2> SUFFICES ASSUME NEW n \in DOMAIN files' PROVE (Fine(files[n].steps))'
    BY DEF FilesFine
  <2>1. Fine(files'[n].steps)
    BY <1>3, <1>5, Known DEF FilesFine
  <2>2. QED
    BY <1>4, <2>1, SameFine
<1>7. Place = "compile" /\ Place' = "after compilation"
  BY <1>4 DEF Place
<1>8. ~Has(Current.steps, "explicit-consdes")'
  <2>1. Current'.steps = s
    BY <1>3 DEF Current
  <2>2. QED
    BY <1>1, <2>1, HarmlessLacks DEF Has
<1>9. CurrentFits'
  BY <1>7, <1>8 DEF CurrentFits, Early, ToInstrument, ToMarking, InSlicing, Again, AtTheEnd
<1>10. Flags'
  BY <1>4, Known DEF Flags, InSlicing
<1>11. ResultsFit'
  <2>1. Place' \notin Remembering \cup {"handed"}
    BY <1>7 DEF Remembering, ToSlicing, Again
  <2>2. Next
    BY DEF Next, Work
  <2>3. QED
    BY <1>4, <2>1, <2>2, SameResultsFit, Known DEF ResultsFit
<1>12. QED
  BY <1>6, <1>9, <1>10, <1>11 DEF StepsInv

\* From the instrumentation on there are checks, nothing to check, or no slicing.
LEMMA InstrumentFine ==
    ASSUME AllSteps, PlaceInv', [Next]_vars,
           NothingToInstrument \/ Instrument \/ GiveUpInstrumentation
    PROVE  StepsInv'
<1> USE DEF Step, options, control, results
<1>0. TypeOK /\ CurrentFits /\ Flags /\ Current.steps \in Seq(Done) /\ Fine(Current.steps)
  BY Known
<1>1. /\ pc = "instrument" /\ pc' = "after instrumentation"
      /\ UNCHANGED <<conf, caller, nonsliced, handed, prepared>>
  BY DEF NothingToInstrument, Instrument, GiveUpInstrumentation
<1>2. Place = "instrument" /\ Place' = "after instrumentation"
  BY <1>1 DEF Place
<1>3. Flags'
  BY <1>0, <1>1 DEF NothingToInstrument, Instrument, GiveUpInstrumentation, Flags, InSlicing
<1>4. Place' \notin Remembering \cup {"handed"}
  BY <1>2 DEF Remembering, ToSlicing, Again
<1>5. ~Has(Current.steps, "explicit-consdes")
  BY <1>0, <1>2 DEF CurrentFits, Early
<1>6. ASSUME NEW t, Grows(t), ~Has(t, "explicit-consdes"),
             Instruments => noslice' \/ Has(t, "instrument")
      PROVE  CurrentFits'
  <2>1. \A p : Has(Current.steps, p)' <=> Has(Current.steps, p) \/ Has(t, p)
    BY <1>0, <1>6, CurrentGrows
  <2>2. Instruments' = Instruments
    BY <1>1 DEF Instruments
  <2>3. QED
    BY <1>2, <1>5, <1>6, <2>1, <2>2
       DEF CurrentFits, Early, ToInstrument, ToMarking, InSlicing, Again, AtTheEnd
<1>7. CASE Instrument
  <2> DEFINE t == <<"instrument">>
  <2>1. /\ Instruments /\ noslice' = noslice
        /\ Write(Instrumented(curfile), WithChecks(Current, Instrumentation(conf)))
    BY <1>7 DEF Instrument
  <2>2. "instrument" \in Done
    BY DEF Done
  <2>3. t \in Seq(Done) /\ Append(Current.steps, "instrument") = Current.steps \o t
    BY <1>0, <2>2, AppendIsOne
  <2>4. WithChecks(Current, Instrumentation(conf)).steps = Current.steps \o t
    BY <1>0, <2>3, CurrentType DEF WithChecks, Linkable, Bitcode
  <2>5. Has(t, "instrument") /\ ~Has(t, "explicit-consdes")
    BY DEF Has
  <2> HIDE DEF t
  <2>6. Grows(t) /\ curfile' = Instrumented(curfile)
    BY <2>1, <2>3, <2>4, WriteGrows
  <2>7. Named
    BY <1>0, <2>6, CurrentType, Sizes DEF Named
  <2>8. ~Has(Current.steps, "slice")
    <3>1. caller = "run" /\ Place \in Early
      BY <1>2, Known, Callers DEF Early
    <3>2. QED
      BY <1>0, <3>1, Known DEF SlicedInv, NoneSliced, IsSliced, Current, TypeOK
  <2>9. Fine(Current.steps \o t)
    BY <1>0, <2>1, <2>8, InstrumentGrows DEF Instruments, t
  <2>10. CurrentFits'
    BY <1>6, <2>5, <2>6
  <2>11. QED
    BY <1>1, <1>3, <1>4, <2>6, <2>7, <2>9, <2>10, OtherPartsKept
<1>8. CASE NothingToInstrument \/ GiveUpInstrumentation
  <2>1. UNCHANGED <<files, curfile>> /\ (Instruments => noslice')
    BY <1>8 DEF NothingToInstrument, GiveUpInstrumentation
  <2>2. Grows(<<>>) /\ Named
    BY <1>0, <2>1, NoneGrows
  <2>3. CurrentFits'
    BY <1>6, <2>1, <2>2 DEF Has
  <2>4. Fine(Current.steps \o <<>>)
    BY <1>0, NothingGrows
  <2>5. QED
    BY <1>1, <1>3, <1>4, <2>2, <2>3, <2>4, OtherPartsKept
<1>9. QED
  BY <1>7, <1>8

LEMMA MarkingFine == ASSUME AllSteps, PlaceInv', [Next]_vars, AfterInstrumentation PROVE StepsInv'
<1>0. TypeOK /\ CurrentFits /\ Flags /\ Current.steps \in Seq(Done) /\ Fine(Current.steps)
  BY Known
<1>1. /\ pc = "after instrumentation" /\ pc' = "optimize before" /\ RunOpt(MarkingPasses)
      /\ UNCHANGED <<conf, noslice, noOptimize, optlevel, caller, nonsliced, handed, prepared>>
  BY DEF AfterInstrumentation, Step, options, control, results
<1>2. Place = "after instrumentation" /\ Place' = "optimize before"
  BY <1>1 DEF Place
<1>3. MarkingPasses \in Seq(Harmless) /\ Grows(MarkingPasses) /\ Named
  BY <1>0, <1>1, MarkingIsList, SimpleLists, RunOptGrows
<1>4. \A p : Has(Current.steps, p)' <=> Has(Current.steps, p) \/ Has(MarkingPasses, p)
  BY <1>0, <1>3, CurrentGrows
<1>5. conf.property = "memsafety" => Marked(MarkingPasses)
  <2> DEFINE both == <<"replace-lifetime-markers", "mark-volatile">>
  <2>1. 1 \in DOMAIN both /\ 2 \in DOMAIN both
        /\ both[1] = "replace-lifetime-markers" /\ both[2] = "mark-volatile"
    OBVIOUS
  <2>2. Marked(both)
    BY <2>1 DEF Marked, Has
  <2>3. QED
    BY <2>2 DEF MarkingPasses
<1>6. ~Has(MarkingPasses, "explicit-consdes")
  BY <1>3, HarmlessLacks
<1>7. Instruments' = Instruments
  BY <1>1 DEF Instruments
<1>8. CurrentFits'
  BY <1>0, <1>1, <1>2, <1>4, <1>5, <1>6, <1>7
     DEF CurrentFits, Early, ToInstrument, ToMarking, InSlicing, Again, AtTheEnd, Marked
<1>9. Flags'
  BY <1>0, <1>1 DEF Flags, InSlicing
<1>10. Place' \notin Remembering \cup {"handed"}
  BY <1>2 DEF Remembering, ToSlicing, Again
<1>11. Fine(Current.steps \o MarkingPasses)
  BY <1>0, <1>3, HarmlessGrows
<1>12. QED
  BY <1>1, <1>3, <1>8, <1>9, <1>10, <1>11, OtherPartsKept

LEMMA OptimizeBeforeFine ==
    ASSUME AllSteps, PlaceInv', [Next]_vars, OptimizeBeforeSlicing PROVE StepsInv'
<1> DEFINE list == Before \o ForSlicing
           t == IF noOptimize THEN <<>> ELSE list
<1>0. TypeOK /\ CurrentFits /\ Flags /\ Current.steps \in Seq(Done) /\ Fine(Current.steps)
  BY Known
<1>1. /\ pc = "optimize before" /\ pc' = "actions before slicing" /\ Optimize(list)
      /\ UNCHANGED <<conf, noslice, noOptimize, optlevel, caller, nonsliced, handed, prepared>>
  BY DEF OptimizeBeforeSlicing, Step, options, control, results
<1>2. Place = "optimize before" /\ Place' = "actions before slicing"
  BY <1>1 DEF Place
<1>3. list \in Seq(Passes) /\ ~Has(list, "explicit-consdes")
  <2>1. Before \in Seq(Done) /\ ~Has(Before, "explicit-consdes")
    BY OptimizationsAreLists, OptimizationsLack
  <2>2. ForSlicing \in Seq(Done) /\ ~Has(ForSlicing, "explicit-consdes")
    <3>1. Ordinary \subseteq Done /\ "explicit-consdes" \notin Ordinary
      BY DEF Ordinary, Passes, Done
    <3>2. QED
      BY <3>1, ForSlicingIsList DEF Has
  <2>3. QED
    BY <2>1, <2>2, HasConcat, OptimizationsAreLists, ForSlicingIsList, MorePasses
<1> HIDE DEF list
<1>4. Grows(t) /\ Named
  BY <1>0, <1>1, <1>3, OptimizeGrows
<1>5. ~Has(t, "explicit-consdes")
  BY <1>3 DEF Has
<1>6. \A p : Has(Current.steps, p)' <=> Has(Current.steps, p) \/ Has(t, p)
  BY <1>0, <1>4, CurrentGrows
<1>7. Fine(Current.steps \o t)
  <2>1. CASE noOptimize
    BY <1>0, <2>1, NothingGrows
  <2>2. CASE ~noOptimize
    <3>1. conf.noOptimize => optlevel = {}
      BY <1>0, <2>2 DEF Flags
    <3>2. conf.property = "memsafety" => Marked(Current.steps)
      BY <1>0, <1>2 DEF CurrentFits, Early, ToMarking, ToInstrument
    <3>3. ~Has(Current.steps, "explicit-consdes")
      BY <1>0, <1>2 DEF CurrentFits, Early
    <3>4. QED
      BY <1>0, <2>2, <3>1, <3>2, <3>3, ForSlicingGrows DEF list
  <2>3. QED
    BY <2>1, <2>2
<1> HIDE DEF t
<1>8. Instruments' = Instruments
  BY <1>1 DEF Instruments
<1>9. CurrentFits'
  BY <1>0, <1>1, <1>2, <1>5, <1>6, <1>8
     DEF CurrentFits, Early, ToInstrument, ToMarking, InSlicing, Again, AtTheEnd, Marked
<1>10. Flags'
  BY <1>0, <1>1 DEF Flags, InSlicing
<1>11. Place' \notin Remembering \cup {"handed"}
  BY <1>2 DEF Remembering, ToSlicing, Again
<1>12. QED
  BY <1>1, <1>4, <1>7, <1>9, <1>10, <1>11, OtherPartsKept

\* The remembered file has been marked.
LEMMA BeforeSlicingFine ==
    ASSUME AllSteps, PlaceInv', [Next]_vars, BeforeSlicingPasses PROVE StepsInv'
<1> DEFINE t == PassesBeforeSlicing(conf)
<1>0. TypeOK /\ CurrentFits /\ Flags /\ Current.steps \in Seq(Done) /\ Fine(Current.steps)
  BY Known
<1>1. /\ pc = "before slicing" /\ pc' = "link atexit" /\ nonsliced' = curfile /\ RunOpt(t)
      /\ UNCHANGED <<conf, noslice, noOptimize, optlevel, caller, handed, prepared>>
  BY DEF BeforeSlicingPasses, Step, options, control
<1>2. Place = "before slicing" /\ Place' = "link atexit"
  BY <1>1 DEF Place
<1>3. t \in Seq(Passes) /\ t \in Seq(Harmless)
  BY BeforeSlicingIsList, SimpleLists
<1> HIDE DEF t
<1>4. Grows(t) /\ Named
  BY <1>0, <1>1, <1>3, RunOptGrows
<1>5. Fine(Current.steps \o t)
  BY <1>0, <1>3, HarmlessGrows
<1>6. FilesFine'
  BY <1>1, <1>4, <1>5, Known, FilesGrow
<1>7. Carries
  BY <1>1, <1>2 DEF Carries, Early, ToInstrument, ToMarking, InSlicing, Again, AtTheEnd
<1>8. CurrentFits'
  BY <1>0, <1>3, <1>4, <1>7, HarmlessLacks, CarriedFits
<1>9. Flags'
  BY <1>0, <1>1 DEF Flags, InSlicing
<1>10. Size(curfile') >= Size(curfile) /\ files'[curfile] = files[curfile]
  <2>1. /\ Size(curfile) \in Nat /\ Size(curfile') \in Nat
        /\ curfile \in DOMAIN files /\ curfile \in DOMAIN files'
    <3>1. TypeOK' /\ curfile \in Names /\ curfile' \in Names /\ nonsliced' \in DOMAIN files'
      BY <1>0 DEF PlaceInv, TypeOK
    <3>2. curfile \in DOMAIN files
      BY <1>0 DEF TypeOK
    <3>3. QED
      BY <1>1, <3>1, <3>2, Sizes
  <2>2. CASE UNCHANGED <<files, curfile>>
    BY <2>1, <2>2
  <2>3. CASE Size(curfile') > Size(curfile)
    <3>1. curfile' # curfile
      BY <2>1, <2>3
    <3>2. QED
      BY <1>4, <2>1, <2>3, <3>1 DEF Grows
  <2>4. QED
    BY <1>4, <2>2, <2>3 DEF Named
<1>11. conf.property = "memsafety" => Marked(files[curfile].steps)
  BY <1>0, <1>2 DEF CurrentFits, Early, ToMarking, ToInstrument, Current
<1>12. ResultsFit'
  <2>1. (Place \in Remembering => Size(curfile) >= Size(nonsliced))'
    BY <1>1, <1>10
  <2>2. (conf.property = "memsafety" /\ Place \in Remembering \cup {"handed"} =>
            Marked(files[nonsliced].steps))'
    BY <1>1, <1>10, <1>11 DEF Marked, Has
  <2>3. QED
    BY <1>1, <2>1, <2>2, SameResultsFit, Known DEF ResultsFit
<1>13. QED
  BY <1>6, <1>8, <1>9, <1>12 DEF StepsInv

LEMMA ConsdesFine == ASSUME AllSteps, PlaceInv', [Next]_vars, ExplicitConsdes PROVE StepsInv'
<1> DEFINE t == <<"explicit-consdes">>
<1>0. TypeOK /\ CurrentFits /\ Flags /\ Current.steps \in Seq(Done) /\ Fine(Current.steps)
  BY Known
<1>1. /\ pc = "consdes" /\ pc' = "slicing" /\ RunOpt(t)
      /\ UNCHANGED <<conf, noslice, noOptimize, optlevel, caller, nonsliced, handed, prepared>>
  BY DEF ExplicitConsdes, Step, options, control, results
<1>2. Place = "consdes" /\ Place' = "slicing"
  BY <1>1 DEF Place
<1>3. t \in Seq(Passes) /\ Fine(Current.steps \o t)
  <2>1. "explicit-consdes" \in Passes
    BY DEF Passes
  <2>2. QED
    BY <1>0, <2>1, OnePass, ConsdesGrows
<1> HIDE DEF t
<1>4. Grows(t) /\ Named
  BY <1>0, <1>1, <1>3, RunOptGrows
<1>5. \A p : Has(Current.steps, p)' <=> Has(Current.steps, p) \/ Has(t, p)
  BY <1>0, <1>4, CurrentGrows
<1>6. Instruments' = Instruments
  BY <1>1 DEF Instruments
<1>7. CurrentFits'
  BY <1>0, <1>1, <1>2, <1>5, <1>6
     DEF CurrentFits, Early, ToInstrument, ToMarking, InSlicing, Again, AtTheEnd, Marked
<1>8. Flags'
  BY <1>0, <1>1 DEF Flags, InSlicing
<1>9. Place \in Remembering
  BY <1>2 DEF Remembering
<1>10. QED
  BY <1>1, <1>3, <1>4, <1>7, <1>8, <1>9, OtherPartsKept

\* The slicer starts on what has been instrumented, unless it is told not to.
LEMMA StartFine ==
    ASSUME AllSteps, PlaceInv', [Next]_vars, NoSlicing \/ StartSlicing PROVE StepsInv'
<1>0. TypeOK /\ CurrentFits /\ Flags /\ Current.steps \in Seq(Done) /\ Fine(Current.steps)
  BY Known
<1>1. /\ pc = "slicing" /\ UNCHANGED <<files, curfile>>
      /\ UNCHANGED <<conf, noslice, noOptimize, optlevel, caller, nonsliced, handed, prepared>>
      /\ pc' \in {"raised", "actions after slicing", "slice"}
      /\ pc' = "slice" => ~noslice
      /\ pc' = "actions after slicing" => ~conf.requireSlicer \/ conf.repeatSlicing = 0
  BY DEF NoSlicing, StartSlicing, options, control, results
<1>2. CASE pc' = "raised"
  BY <1>1, <1>2, FailedKeeps DEF options
<1>3. CASE pc' # "raised"
  <2>1. Place = "slicing" /\ Place' = pc'
    BY <1>1 DEF Place
  <2>2. Grows(<<>>) /\ Named
    BY <1>0, <1>1, NoneGrows
  <2>3. Fine(Current.steps \o <<>>)
    BY <1>0, NothingGrows
  <2>4. Current' = Current
    BY <1>1 DEF Current
  <2>5. Instruments' = Instruments
    BY <1>1 DEF Instruments
  <2>6. MustSlice' => pc' # "actions after slicing"
    <3>1. conf' = conf
      BY <1>1
    <3>2. MustSlice' => conf.requireSlicer /\ conf.repeatSlicing # 0
      BY <3>1 DEF MustSlice
    <3>3. QED
      BY <1>1, <3>2
  <2>7. (Instruments =>
            /\ Place \in Early \ ToInstrument => noslice \/ Has(Current.steps, "instrument")
            /\ Place \in InSlicing => Has(Current.steps, "instrument"))'
    <3>1. Instruments => noslice \/ Has(Current.steps, "instrument")
      BY <1>0, <2>1 DEF CurrentFits, Early, ToInstrument
    <3>2. Place' \notin Early \ ToInstrument /\ (Place' \in InSlicing => pc' = "slice")
      BY <1>1, <1>3, <2>1 DEF Early, InSlicing
    <3>3. QED
      BY <1>1, <2>4, <2>5, <3>1, <3>2
  <2>8. (conf.property = "memsafety" =>
            /\ Place \in (Early \ ToMarking) \cup InSlicing \cup Again => Marked(Current.steps)
            /\ Place \in AtTheEnd => Has(Current.steps, "remove-readonly-attr"))'
    <3>1. conf.property = "memsafety" => Marked(Current.steps)
      BY <1>0, <2>1 DEF CurrentFits, Early, ToMarking, ToInstrument
    <3>2. Place' \notin AtTheEnd
      BY <1>1, <1>3, <2>1 DEF AtTheEnd
    <3>3. QED
      BY <1>1, <2>4, <3>1, <3>2
  <2>9. Place' \notin Early /\ Place' # "slice again"
        /\ (Place' \in Again => pc' = "actions after slicing")
    BY <1>1, <1>3, <2>1 DEF Early, Again
  <2>10. CurrentFits'
    BY <2>6, <2>7, <2>8, <2>9 DEF CurrentFits
  <2>11. Flags'
    BY <1>0, <1>1 DEF Flags, InSlicing
  <2>12. Place \in Remembering
    BY <2>1 DEF Remembering, ToSlicing
  <2>13. QED
    BY <1>1, <2>2, <2>3, <2>10, <2>11, <2>12, OtherPartsKept
<1>4. QED
  BY <1>2, <1>3

LEMMA LinkFilesFine ==
    ASSUME AllSteps, PlaceInv', [Next]_vars, LinkUnconditional PROVE StepsInv'
<1> DEFINE funs == conf.linkFiles \cap Available
<1>1. /\ pc = "link files" /\ pc' \in {"prepare", "raised"}
      /\ \/ UNCHANGED <<files, curfile>>
         \/ Write(Linked(curfile), WithDefinitions(Current, funs)) /\ pc' # "raised"
      /\ UNCHANGED <<conf, noslice, noOptimize, optlevel, caller, nonsliced, handed, prepared>>
  BY DEF LinkUnconditional, options, control, results
<1> HIDE DEF funs
<1>2. CASE pc' = "raised"
  BY <1>1, <1>2, FailedKeeps DEF options
<1>3. CASE pc' # "raised"
  <2>1. Place = "link files" /\ Place' = "prepare"
    BY <1>1, <1>3 DEF Place
  <2>2. TypeOK
    BY Known
  <2>3. (\E t \in Seq(Harmless) : Grows(t)) /\ Named
    BY <1>1, <2>2, DefinitionsGrow, NoneGrows, LinkIsHarmless, NoneIsHarmless
  <2>4. Carries
    BY <1>1, <2>1 DEF Carries, Early, ToInstrument, ToMarking, InSlicing, Again, AtTheEnd
  <2>5. Place' \notin Remembering \cup {"handed"} /\ pc' \notin InSlicing
    BY <1>1, <1>3, <2>1 DEF Remembering, ToSlicing, Again, InSlicing
  <2>6. HarmlessStep
    BY <1>1, <2>3, <2>4, <2>5 DEF HarmlessStep, options
  <2>7. QED
    BY <2>6, HarmlessKeeps
<1>4. QED
  BY <1>2, <1>3

\* The slicer works on what has been instrumented.
LEMMA SliceFine == ASSUME AllSteps, PlaceInv', [Next]_vars, Slice PROVE StepsInv'
<1> DEFINE t == <<"slice">>
           b == [Current EXCEPT !.steps = Append(@, "slice")]
<1>0. TypeOK /\ CurrentFits /\ Flags /\ Current.steps \in Seq(Done) /\ Fine(Current.steps)
  BY Known
<1>1. /\ pc = "slice" /\ pc' = AfterRound /\ Write(Sliced(curfile), b)
      /\ UNCHANGED <<conf, noslice, noOptimize, optlevel, caller, nonsliced, handed, prepared>>
  BY DEF Slice, options, control, results
<1>2. Place = "slice" /\ Place' \in {"slice again", "actions after slicing"} /\ Place' = pc'
  BY <1>1 DEF Place, AfterRound
<1>3. "slice" \in Done /\ Has(t, "slice")
  BY DEF Done, Has
<1>4. t \in Seq(Done) /\ b.steps = Current.steps \o t
  BY <1>0, <1>3, AppendIsOne, CurrentType DEF Linkable, Bitcode
<1> HIDE DEF t, b
<1>5. Grows(t) /\ curfile' = Sliced(curfile)
  BY <1>1, <1>4, WriteGrows
<1>6. /\ ~conf.noslice /\ (Instruments => Has(Current.steps, "instrument"))
      /\ conf.property = "memsafety" => Marked(Current.steps)
  BY <1>0, <1>1, <1>2 DEF Flags, CurrentFits, InSlicing
<1>7. Fine(Current.steps \o t)
  BY <1>0, <1>6, SliceGrows DEF t
<1>8. FilesFine'
  BY <1>1, <1>5, <1>7, Known, FilesGrow
<1>9. \A p : Has(Current.steps, p)' <=> Has(Current.steps, p) \/ Has(t, p)
  BY <1>0, <1>5, CurrentGrows
<1>10. Instruments' = Instruments
  BY <1>1 DEF Instruments
<1>11. Place' \notin Early /\ Place' \notin AtTheEnd
  BY <1>2 DEF Early, AtTheEnd
<1>12. CurrentFits'
  BY <1>1, <1>3, <1>6, <1>9, <1>10, <1>11 DEF CurrentFits, Marked, IsSliced
<1>13. Flags'
  BY <1>0, <1>1, <1>6 DEF Flags
<1>14. caller = "run" /\ nonsliced' # curfile'
  <2>1. caller = "run"
    BY <1>2, Known, Callers DEF ToSlicing
  <2>2. IsBeyond'
    BY Beyond, PTL
  <2>3. Place' \in ToSlicing \cup Again
    BY <1>2 DEF ToSlicing, Again
  <2>4. QED
    BY <1>1, <2>1, <2>2, <2>3 DEF IsBeyond
<1>15. files'[nonsliced] = files[nonsliced]
  <2>1. nonsliced \in DOMAIN files'
    BY <1>1 DEF PlaceInv, TypeOK
  <2>2. QED
    BY <1>1, <1>5, <1>14, <2>1 DEF Grows
<1>16. Place \in Remembering
  BY <1>2 DEF Remembering, ToSlicing
<1>17. Size(curfile') >= Size(nonsliced')
  BY <1>0, <1>1, <1>5, <1>16, Sizes, CurrentType, Known DEF ResultsFit
<1>18. (conf.property = "memsafety" /\ Place \in Remembering \cup {"handed"} =>
           Marked(files[nonsliced].steps))'
  BY <1>1, <1>15, <1>16, Known DEF ResultsFit, Marked, Has
<1>19. ResultsFit'
  BY <1>1, <1>17, <1>18, SameResultsFit, Known DEF ResultsFit
<1>20. QED
  BY <1>8, <1>12, <1>13, <1>19 DEF StepsInv

LEMMA GiveUpSlicingFine == ASSUME AllSteps, PlaceInv', [Next]_vars, GiveUpSlicing PROVE StepsInv'
<1>0. TypeOK /\ CurrentFits /\ Flags /\ Current.steps \in Seq(Done) /\ Fine(Current.steps)
  BY Known
<1>1. /\ pc = "slice" /\ pc' = AfterRound /\ ~conf.requireSlicer
      /\ UNCHANGED <<files, curfile>>
      /\ UNCHANGED <<conf, noOptimize, optlevel, caller, nonsliced, handed, prepared>>
  BY DEF GiveUpSlicing, control, results
<1>2. Place = "slice" /\ Place' \in {"slice again", "actions after slicing"} /\ Place' = pc'
  BY <1>1 DEF Place, AfterRound
<1>3. Grows(<<>>) /\ Named /\ Fine(Current.steps \o <<>>)
  BY <1>0, <1>1, NoneGrows, NothingGrows
<1>4. /\ ~conf.noslice /\ (Instruments => Has(Current.steps, "instrument"))
      /\ conf.property = "memsafety" => Marked(Current.steps)
  BY <1>0, <1>1, <1>2 DEF Flags, CurrentFits, InSlicing
<1>5. Instruments' = Instruments /\ ~MustSlice' /\ Current' = Current
  BY <1>1 DEF Instruments, MustSlice, Current
<1>6. Place' \notin Early /\ Place' \notin AtTheEnd
  BY <1>2 DEF Early, AtTheEnd
<1>7. CurrentFits'
  BY <1>1, <1>4, <1>5, <1>6 DEF CurrentFits, Marked
<1>8. Flags'
  BY <1>0, <1>1, <1>4 DEF Flags
<1>9. Place \in Remembering
  BY <1>2 DEF Remembering, ToSlicing
<1>10. QED
  BY <1>1, <1>3, <1>7, <1>8, <1>9, OtherPartsKept

LEMMA SliceAgainFine == ASSUME AllSteps, PlaceInv', [Next]_vars, SliceAgain PROVE StepsInv'
<1> DEFINE list == After \o <<"remove-infinite-loops">>
           t == IF noOptimize THEN <<>> ELSE list
<1>0. TypeOK /\ CurrentFits /\ Flags /\ Current.steps \in Seq(Done) /\ Fine(Current.steps)
  BY Known
<1>1. /\ pc = "slice again" /\ pc' \in {"slice", "actions after slicing"} /\ Optimize(list)
      /\ UNCHANGED <<conf, noslice, noOptimize, optlevel, caller, nonsliced, handed, prepared>>
  BY DEF SliceAgain, options, results
<1>2. Place = "slice again" /\ Place' = pc'
  BY <1>1 DEF Place
<1>3. list \in Seq(Passes) /\ ~Has(list, "explicit-consdes")
  <2> DEFINE remove == <<"remove-infinite-loops">>
  <2>1. remove \in Seq(Passes) /\ remove \in Seq(Done) /\ ~Has(remove, "explicit-consdes")
    BY DEF Done, Passes, Has
  <2> HIDE DEF remove
  <2>2. After \in Seq(Passes) /\ After \in Seq(Done) /\ ~Has(After, "explicit-consdes")
    BY OptimizationsAreLists, OptimizationsLack
  <2>3. After \o remove \in Seq(Passes) /\ ~Has(After \o remove, "explicit-consdes")
    BY <2>1, <2>2, HasConcat, MorePasses
  <2>4. QED
    BY <2>3 DEF remove
<1> HIDE DEF list
<1>4. Grows(t) /\ Named
  BY <1>0, <1>1, <1>3, OptimizeGrows
<1>5. ~Has(t, "explicit-consdes")
  BY <1>3 DEF Has
<1>6. Carries
  BY <1>1, <1>2 DEF Carries, Early, ToInstrument, ToMarking, InSlicing, Again, AtTheEnd
<1>7. CurrentFits'
  <2> HIDE DEF t
  <2>1. QED
    BY <1>0, <1>4, <1>5, <1>6, CarriedFits
<1>8. conf.repeatSlicing # 1 /\ ~conf.noslice
  BY <1>0, <1>1, Known DEF SlicedInv, FlagFits, Flags, InSlicing
<1>9. conf.property = "memsafety" => Marked(Current.steps)
  BY <1>0, <1>2 DEF CurrentFits, InSlicing
<1>10. Fine(Current.steps \o t)
  <2>1. CASE noOptimize
    BY <1>0, <2>1, NothingGrows
  <2>2. CASE ~noOptimize
    <3>1. conf.noOptimize => optlevel = {}
      BY <1>0, <2>2 DEF Flags
    <3>2. QED
      BY <1>0, <1>8, <1>9, <2>2, <3>1, AgainGrows DEF list
  <2>3. QED
    BY <2>1, <2>2
<1>11. Flags'
  BY <1>0, <1>1, <1>8 DEF Flags
<1>12. Place \in Remembering
  BY <1>2 DEF Remembering, ToSlicing
<1>13. QED
  BY <1>1, <1>4, <1>7, <1>10, <1>11, <1>12, OtherPartsKept

\* For memory safety, side effects are put back here.
LEMMA RestoringFine == ASSUME AllSteps, PlaceInv', [Next]_vars, AfterSlicingPasses PROVE StepsInv'
<1>0. TypeOK /\ CurrentFits /\ Flags /\ Current.steps \in Seq(Done) /\ Fine(Current.steps)
  BY Known
<1>1. /\ pc = "after slicing" /\ pc' = "link rest" /\ RunOpt(AfterSlicing)
      /\ UNCHANGED <<conf, noslice, noOptimize, optlevel, caller, nonsliced, handed, prepared>>
  BY DEF AfterSlicingPasses, Step, options, control, results
<1>2. Place = "after slicing" /\ Place' = "link rest"
  BY <1>1 DEF Place
<1>3. AfterSlicing \in Seq(Harmless) /\ Grows(AfterSlicing) /\ Named
  BY <1>0, <1>1, AfterSlicingIsList, SimpleLists, RunOptGrows
<1>4. conf.property = "memsafety" => Has(AfterSlicing, "remove-readonly-attr")
  <2> SUFFICES ASSUME conf.property = "memsafety"
               PROVE  Has(AfterSlicing, "remove-readonly-attr")
    OBVIOUS
  <2> DEFINE a == When(conf.property # "termination", "remove-infinite-loops")
             b == <<"remove-readonly-attr", "dummy-marker">>
             c == PassesAfterSlicing(conf)
  <2>1. a \in Seq(Done) /\ b \in Seq(Done) /\ c \in Seq(Done)
    <3>1. {"remove-infinite-loops", "remove-readonly-attr", "dummy-marker"} \subseteq Done
      BY DEF Done, Passes
    <3>2. a \in Seq(Done)
      BY <3>1, WhenIsList
    <3>3. b \in Seq(Done)
      BY <3>1, TwoPasses
    <3>4. c \in Seq(Done)
      BY PassesAfterSlicingIsList, SimpleLists
    <3>5. QED
      BY <3>2, <3>3, <3>4
  <2>2. Has(b, "remove-readonly-attr")
    <3>1. 1 \in DOMAIN b /\ b[1] = "remove-readonly-attr"
      OBVIOUS
    <3>2. QED
      BY <3>1 DEF Has
  <2>3. AfterSlicing = a \o b \o c
    BY DEF AfterSlicing
  <2> HIDE DEF a, b, c
  <2>4. a \o b \in Seq(Done) /\ Has(a \o b, "remove-readonly-attr")
    BY <2>1, <2>2, HasConcat, ConcatProperties
  <2>5. Has(a \o b \o c, "remove-readonly-attr")
    BY <2>1, <2>4, HasConcat
  <2>6. QED
    BY <2>3, <2>5
<1>5. \A p : Has(Current.steps, p)' <=> Has(Current.steps, p) \/ Has(AfterSlicing, p)
  BY <1>0, <1>3, CurrentGrows
<1>6. /\ conf.property = "memsafety" => Marked(Current.steps)
      /\ MustSlice /\ caller = "run" => IsSliced(Current)
  BY <1>0, <1>2 DEF CurrentFits, Again
<1>7. Instruments' = Instruments /\ MustSlice' = MustSlice
  BY <1>1 DEF Instruments, MustSlice
<1>8. Place' \notin Early /\ Place' \notin InSlicing
  BY <1>2 DEF Early, InSlicing
<1>9. CurrentFits'
  BY <1>1, <1>4, <1>5, <1>6, <1>7, <1>8 DEF CurrentFits, Marked, IsSliced
<1>10. Flags'
  BY <1>0, <1>1 DEF Flags, InSlicing
<1>11. Place \in Remembering
  BY <1>2 DEF Remembering, Again
<1>12. Fine(Current.steps \o AfterSlicing)
  BY <1>0, <1>3, HarmlessGrows
<1>13. QED
  BY <1>1, <1>3, <1>9, <1>10, <1>11, <1>12, OtherPartsKept

LEMMA OptimizeAfterFine ==
    ASSUME AllSteps, PlaceInv', [Next]_vars, OptimizeAfterSlicing PROVE StepsInv'
<1> DEFINE t == IF noOptimize THEN <<>> ELSE After
<1>0. TypeOK /\ CurrentFits /\ Flags /\ Current.steps \in Seq(Done) /\ Fine(Current.steps)
  BY Known
<1>1. /\ pc = "optimize after" /\ pc' = "finish" /\ Optimize(After)
      /\ UNCHANGED <<conf, noslice, noOptimize, optlevel, caller, nonsliced, handed, prepared>>
  BY DEF OptimizeAfterSlicing, Step, options, control, results
<1>2. Place = "optimize after" /\ Place' = "finish"
  BY <1>1 DEF Place
<1>3. t \in Seq({"optimize"}) /\ Grows(t) /\ Named
  BY <1>0, <1>1, OptimizationsAreLists, OptimizeGrows, NoPasses
<1>4. conf.noOptimize => t = <<>>
  BY <1>0, NoLevels DEF Flags
<1> HIDE DEF t
<1>5. conf.property = "memsafety" =>
         Marked(Current.steps) /\ Has(Current.steps, "remove-readonly-attr")
  BY <1>0, <1>2 DEF CurrentFits, Again, AtTheEnd
<1>6. Fine(Current.steps \o t)
  BY <1>0, <1>3, <1>4, <1>5, OptimizedGrows
<1>7. ~Has(t, "explicit-consdes")
  BY <1>3, OptimizationsLack
<1>8. Carries
  BY <1>1, <1>2 DEF Carries, Early, ToInstrument, ToMarking, InSlicing, Again, AtTheEnd
<1>9. CurrentFits'
  BY <1>0, <1>3, <1>7, <1>8, CarriedFits
<1>10. Flags'
  BY <1>0, <1>1 DEF Flags, InSlicing
<1>11. Place \in Remembering
  BY <1>2 DEF Remembering, Again
<1>12. QED
  BY <1>1, <1>3, <1>6, <1>9, <1>10, <1>11, OtherPartsKept

----------------------------------------------------------------------------
(***************************************************************************)
(* Handing over, and the calls of prepare_unsliced_file.                   *)
(***************************************************************************)

LEMMA FilesStayFine == ASSUME FilesFine, UNCHANGED <<conf, files>> PROVE FilesFine'
BY SameFine DEF FilesFine

\* Between the calls nothing is known of the current file.
LEMMA NothingToFit == ASSUME Place' = "handed" PROVE CurrentFits'
BY DEF CurrentFits, Early, InSlicing, Again, AtTheEnd

LEMMA HandOverFine == ASSUME AllSteps, PlaceInv', [Next]_vars, HandOver PROVE StepsInv'
<1>0. TypeOK /\ CurrentFits /\ Flags /\ Current.steps \in Seq(Done) /\ Fine(Current.steps)
  BY Known
<1>1. /\ pc = "finish" /\ pc' = "handed" /\ caller = "run" /\ handed' = curfile
      /\ UNCHANGED <<conf, noslice, noOptimize, optlevel, caller, files, nonsliced, prepared>>
  BY DEF HandOver, Step, options, control
<1>2. Place = "finish" /\ Place' = "handed"
  BY <1>1 DEF Place
<1>3. curfile # NoFile
  BY <1>1, <1>2, Known, Beyond DEF IsBeyond, Again
<1>4. MustSlice => IsSliced(files[curfile])
  BY <1>0, <1>1, <1>2 DEF CurrentFits, Again, Current
<1>5. MustSlice' = MustSlice
  BY <1>1 DEF MustSlice
<1>6. conf.property = "memsafety" => Marked(files[nonsliced].steps)
  BY <1>2, Known DEF ResultsFit, Remembering, Again
<1>7. Place' \notin Remembering
  BY <1>2 DEF Remembering, ToSlicing, Again
<1>8. (\A i \in DOMAIN prepared : Fine(prepared[i].steps))'
  BY <1>1, SamePrepared, Known DEF ResultsFit
<1>9. ResultsFit'
  BY <1>1, <1>3, <1>4, <1>5, <1>6, <1>7, <1>8 DEF ResultsFit
<1>10. Flags'
  BY <1>0, <1>1 DEF Flags, InSlicing
<1>11. QED
  BY <1>1, <1>2, <1>9, <1>10, Known, FilesStayFine, NothingToFit DEF StepsInv

LEMMA PrepareFine == ASSUME AllSteps, PlaceInv', [Next]_vars, PrepareUnsliced PROVE StepsInv'
<1>0. TypeOK /\ CurrentFits /\ Flags /\ Current.steps \in Seq(Done) /\ Fine(Current.steps)
  BY Known
<1>1. /\ pc = "handed" /\ pc' = "actions after slicing" /\ caller' = "prepare"
      /\ curfile' = nonsliced
      /\ UNCHANGED <<conf, noslice, noOptimize, optlevel, files, nonsliced, handed, prepared>>
  BY DEF PrepareUnsliced, Step, options, results
<1>2. Place = "handed" /\ Place' = "actions after slicing"
  BY <1>1 DEF Place
<1>3. conf.property = "memsafety" => Marked(files[nonsliced].steps)
  BY <1>2, Known DEF ResultsFit
<1>4. Current' = files[nonsliced]
  BY <1>1 DEF Current
<1>5. Place' \notin Early /\ Place' \notin InSlicing /\ Place' \notin AtTheEnd
  BY <1>2 DEF Early, InSlicing, AtTheEnd
<1>6. CurrentFits'
  BY <1>1, <1>3, <1>4, <1>5 DEF CurrentFits, Marked
<1>7. Size(curfile') >= Size(nonsliced')
  <2>1. Size(nonsliced) \in Nat
    BY <1>0, Sizes DEF TypeOK
  <2>2. curfile' = nonsliced /\ nonsliced' = nonsliced
    BY <1>1
  <2>3. QED
    BY <2>1, <2>2
<1>8. (conf.property = "memsafety" /\ Place \in Remembering \cup {"handed"} =>
          Marked(files[nonsliced].steps))'
  BY <1>1, <1>3 DEF Marked
<1>9. ResultsFit'
  BY <1>1, <1>7, <1>8, SameResultsFit, Known DEF ResultsFit
<1>10. Flags'
  BY <1>0, <1>1 DEF Flags, InSlicing
<1>11. QED
  BY <1>1, <1>6, <1>9, <1>10, Known, FilesStayFine DEF StepsInv

LEMMA ReturnFine == ASSUME AllSteps, PlaceInv', [Next]_vars, ReturnUnsliced PROVE StepsInv'
<1>0. TypeOK /\ CurrentFits /\ Flags /\ Current.steps \in Seq(Done) /\ Fine(Current.steps)
  BY Known
<1>1. /\ pc = "finish" /\ pc' = "handed" /\ caller = "prepare"
      /\ prepared' = Append(prepared, Current)
      /\ UNCHANGED <<conf, noslice, noOptimize, optlevel, files, nonsliced, handed>>
  BY DEF ReturnUnsliced, Step, options, control
<1>2. Place = "finish" /\ Place' = "handed"
  BY <1>1 DEF Place
<1>3. handed' # NoFile
  BY <1>1, Known DEF SlicedInv, Handed
<1>4. (\A i \in DOMAIN prepared : Fine(prepared[i].steps))'
  <2> SUFFICES ASSUME NEW i \in DOMAIN prepared' PROVE (Fine(prepared[i].steps))'
    OBVIOUS
  <2>1. prepared \in Seq(Bitcode) /\ Current \in Bitcode
    BY <1>0, CurrentType DEF TypeOK, Linkable
  <2>2. prepared'[i] = Current \/ (i \in DOMAIN prepared /\ prepared'[i] = prepared[i])
    BY <1>1, <2>1, AppendedElement
  <2>3. Fine(prepared'[i].steps)
    BY <1>0, <2>2, Known DEF ResultsFit
  <2>4. QED
    BY <1>1, <2>3, SamePrepared
<1>5. conf.property = "memsafety" => Marked(files[nonsliced].steps)
  BY <1>2, Known DEF ResultsFit, Remembering, Again
<1>6. MustSlice' /\ handed' # NoFile => IsSliced(files'[handed'])
  BY <1>1, Known DEF ResultsFit, MustSlice
<1>7. Place' \notin Remembering
  BY <1>2 DEF Remembering, ToSlicing, Again
<1>8. ResultsFit'
  BY <1>1, <1>3, <1>4, <1>5, <1>6, <1>7 DEF ResultsFit
<1>9. Flags'
  BY <1>0, <1>1 DEF Flags, InSlicing
<1>10. QED
  BY <1>1, <1>2, <1>8, <1>9, Known, FilesStayFine, NothingToFit DEF StepsInv

LEMMA DriverFine == ASSUME AllSteps, PlaceInv', [Next]_vars, DriverUnslices PROVE StepsInv'
<1>0. TypeOK /\ Flags
  BY Known
<1>1. /\ pc = "handed" /\ pc' = pc /\ noslice'
      /\ UNCHANGED <<conf, noOptimize, optlevel, caller, files, curfile, nonsliced, handed, prepared>>
  BY DEF DriverUnslices, control, results
<1>2. Place = "handed" /\ Place' = "handed"
  BY <1>1 DEF Place
<1>3. conf.property = "memsafety" => Marked(files[nonsliced].steps)
  BY <1>2, Known DEF ResultsFit
<1>4. Place' \notin Remembering
  BY <1>2 DEF Remembering, ToSlicing, Again
<1>5. ResultsFit'
  BY <1>1, <1>3, <1>4, SameResultsFit, Known DEF ResultsFit
<1>6. Flags'
  BY <1>0, <1>1 DEF Flags, InSlicing
<1>7. QED
  BY <1>1, <1>2, <1>5, <1>6, Known, FilesStayFine, NothingToFit DEF StepsInv

----------------------------------------------------------------------------
(***************************************************************************)
(* StepsInv is an invariant.                                               *)
(***************************************************************************)

LEMMA InitSteps == Init => StepsInv
<1> SUFFICES ASSUME Init PROVE StepsInv
  OBVIOUS
<1>1. Fine(<<>>)
  BY DEF Fine, ChecksKept, MarkedFirst, BrokenFirst, Allowed, Has, Precedes, Restored
<1>2. /\ DOMAIN files = {NoFile} /\ files[NoFile].steps = <<>> /\ curfile = NoFile
      /\ nonsliced = NoFile /\ handed = NoFile /\ prepared = <<>> /\ pc = "compile"
      /\ noslice = conf.noslice /\ noOptimize = conf.noOptimize
  BY DEF Init
<1>3. FilesFine
  BY <1>1, <1>2 DEF FilesFine
<1>4. Place = "compile"
  BY <1>2 DEF Place
<1>5. ~Has(Current.steps, "explicit-consdes")
  BY <1>2 DEF Current, Has
<1>6. CurrentFits
  BY <1>4, <1>5 DEF CurrentFits, Early, ToInstrument, ToMarking, InSlicing, Again, AtTheEnd
<1>7. Flags
  BY <1>2 DEF Flags, InSlicing
<1>8. ResultsFit
  <2>1. Place \notin Remembering \cup {"handed"}
    BY <1>4 DEF Remembering, ToSlicing, Again
  <2>2. QED
    BY <1>2, <2>1 DEF ResultsFit
<1>9. QED
  BY <1>3, <1>6, <1>7, <1>8 DEF StepsInv

Failures == Raise \/ NoCriterion \/ ProvedByInstrumentation

LEMMA FailuresFine == ASSUME AllSteps, [Next]_vars, Failures PROVE StepsInv'
<1>1. /\ pc' \in {"raised", "proved"} /\ UNCHANGED <<options, files, handed, prepared>>
  BY DEF Failures, Raise, NoCriterion, ProvedByInstrumentation, Step, options, results
<1>2. QED
  BY <1>1, FailedKeeps

LEMMA NothingFine == ASSUME AllSteps, [Next]_vars, UNCHANGED vars PROVE StepsInv'
<1>1. /\ UNCHANGED <<conf, noslice, noOptimize, optlevel, pc, caller, goal, files, curfile>>
      /\ UNCHANGED <<nonsliced, handed, prepared>>
  BY DEF vars, options, control, results
<1>2. TypeOK /\ CurrentFits /\ Flags /\ ResultsFit /\ FilesFine
  BY Known
<1>3. FilesFine'
  BY <1>1, <1>2, FilesStayFine
<1>4. /\ Place' = Place /\ Current' = Current /\ Instruments' = Instruments
      /\ MustSlice' = MustSlice /\ Size(curfile)' = Size(curfile)
      /\ Size(nonsliced)' = Size(nonsliced)
  BY <1>1 DEF Place, Current, Instruments, MustSlice
<1>5. CurrentFits'
  BY <1>1, <1>2, <1>4 DEF CurrentFits
<1>6. Flags'
  BY <1>1, <1>2 DEF Flags
<1>7. (\A i \in DOMAIN prepared : Fine(prepared[i].steps))'
  BY <1>1, <1>2, SamePrepared DEF ResultsFit
<1>8. ResultsFit'
  BY <1>1, <1>2, <1>4, <1>7 DEF ResultsFit
<1>9. QED
  BY <1>3, <1>5, <1>6, <1>8 DEF StepsInv

LEMMA StepSteps == AllSteps /\ PlaceInv' /\ [Next]_vars => StepsInv'
<1> SUFFICES ASSUME AllSteps, PlaceInv', [Next]_vars PROVE StepsInv'
  OBVIOUS
<1>1. CASE HarmlessActions
  BY <1>1, HarmlessIsStep, HarmlessKeeps
<1>2. CASE Failures
  BY <1>2, FailuresFine
<1>3. CASE CompileSources
  BY <1>3, CompileFine
<1>4. CASE LinkUnconditional
  BY <1>4, LinkFilesFine
<1>5. CASE NothingToInstrument \/ Instrument \/ GiveUpInstrumentation
  BY <1>5, InstrumentFine
<1>6. CASE AfterInstrumentation
  BY <1>6, MarkingFine
<1>7. CASE OptimizeBeforeSlicing
  BY <1>7, OptimizeBeforeFine
<1>8. CASE BeforeSlicingPasses
  BY <1>8, BeforeSlicingFine
<1>9. CASE ExplicitConsdes
  BY <1>9, ConsdesFine
<1>10. CASE NoSlicing \/ StartSlicing
  BY <1>10, StartFine
<1>11. CASE Slice
  BY <1>11, SliceFine
<1>12. CASE GiveUpSlicing
  BY <1>12, GiveUpSlicingFine
<1>13. CASE SliceAgain
  BY <1>13, SliceAgainFine
<1>14. CASE AfterSlicingPasses
  BY <1>14, RestoringFine
<1>15. CASE OptimizeAfterSlicing
  BY <1>15, OptimizeAfterFine
<1>16. CASE HandOver
  BY <1>16, HandOverFine
<1>17. CASE PrepareUnsliced
  BY <1>17, PrepareFine
<1>18. CASE ReturnUnsliced
  BY <1>18, ReturnFine
<1>19. CASE DriverUnslices
  BY <1>19, DriverFine
<1>20. CASE UNCHANGED vars
  BY <1>20, NothingFine
<1>21. CASE Next
  BY <1>1, <1>2, <1>3, <1>4, <1>5, <1>6, <1>7, <1>8, <1>9, <1>10, <1>11, <1>12, <1>13, <1>14,
     <1>15, <1>16, <1>17, <1>18, <1>19, <1>21 DEF Next, Work, HarmlessActions, Failures
<1>22. QED
  BY <1>20, <1>21

LEMMA StepsCorrect == Spec => []AllSteps
<1>1. StepsInv /\ All /\ All' /\ [Next]_vars => StepsInv'
  BY StepSteps DEF AllSteps, All
<1>2. Spec => []StepsInv
  BY <1>1, InitSteps, AllCorrect, PTL DEF Spec
<1>3. QED
  BY <1>2, AllCorrect, PTL DEF AllSteps

----------------------------------------------------------------------------
(***************************************************************************)
(* What follows for the bitcode that is sliced and that is delivered.      *)
(***************************************************************************)

\* A mark that is inserted is what is sliced for.
LEMMA MarksAreCriteria ==
    Instrumentation(conf) # NoInstrumentation /\ ~Instrumentation(conf).links
        => Instrumentation(conf).inserts \in Criteria(conf)
<1> USE DEF Instrumentation, Criteria, NoInstrumentation
<1>1. CASE MarksOverflows(conf)
  BY <1>1 DEF Marks
<1>2. CASE ~MarksOverflows(conf) /\ conf.tool = "cpachecker" /\ conf.property = "termination"
  BY <1>2
<1>3. CASE ~MarksOverflows(conf) /\ ~(conf.tool = "cpachecker" /\ conf.property = "termination")
  BY <1>3 DEF BaseInstrumentation, BaseCriteria, Marks, Checks
<1>4. QED
  BY <1>1, <1>2, <1>3

(***************************************************************************)
(* What is sliced has been instrumented before and is not instrumented     *)
(* afterwards, and if marks were inserted, they are slicing criteria.      *)
(***************************************************************************)
THEOREM SlicedAfterInstrumentation == Spec => []SlicedForItsChecks
<1>1. AllSteps /\ pc # "compile" /\ IsSliced(Current) /\ Instruments =>
        Keeps(Current.steps, "slice", "instrument") /\ Has(Current.steps, "instrument")
  BY Known DEF Fine, ChecksKept, IsSliced
<1>2. AllSteps => SlicedForItsChecks
  BY <1>1, MarksAreCriteria DEF SlicedForItsChecks, Instruments
<1>3. QED
  BY <1>2, StepsCorrect, PTL

LEMMA DeliveredIsFine ==
    ASSUME AllSteps, NEW b \in Delivered PROVE Fine(b.steps)
<1>1. TypeOK /\ FilesFine /\ ResultsFit
  BY Known
<1>2. CASE b \in {files[n] : n \in {handed} \ {NoFile}}
  <2>1. handed \in DOMAIN files /\ b = files[handed]
    BY <1>1, <1>2 DEF TypeOK
  <2>2. QED
    BY <1>1, <2>1 DEF FilesFine
<1>3. CASE b \in {prepared[i] : i \in DOMAIN prepared}
  BY <1>1, <1>3 DEF ResultsFit
<1>4. QED
  BY <1>2, <1>3 DEF Delivered

(***************************************************************************)
(* For memory safety, nothing is optimized before lifetime markers are     *)
(* replaced and marked accesses are volatile, nor, after side effects were *)
(* declared away for slicing, before they are back.                        *)
(***************************************************************************)
THEOREM MarksComeFirst == Spec => []MarkedBeforeOptimized
<1>1. ASSUME AllSteps, NEW b \in Delivered, conf.property = "memsafety",
             NEW i \in DOMAIN b.steps, b.steps[i] = "optimize"
      PROVE  /\ \E j \in 1..(i - 1) : b.steps[j] = "replace-lifetime-markers"
             /\ \E j \in 1..(i - 1) : b.steps[j] = "mark-volatile"
             /\ (\E j \in 1..i : b.steps[j] = "explicit-consdes") /\ conf.repeatSlicing = 1
                   => \E j \in 1..(i - 1) : b.steps[j] = "remove-readonly-attr"
  <2>1. MarkedFirst(b.steps)
    BY <1>1, DeliveredIsFine DEF Fine
  <2>2. /\ Precedes(b.steps, "replace-lifetime-markers", "optimize")
        /\ Precedes(b.steps, "mark-volatile", "optimize")
        /\ conf.repeatSlicing = 1 => Restored(b.steps)
    BY <1>1, <2>1 DEF MarkedFirst
  <2>3. QED
    BY <1>1, <2>2 DEF Precedes, Restored
<1>2. AllSteps => MarkedBeforeOptimized
  BY <1>1 DEF MarkedBeforeOptimized
<1>3. QED
  BY <1>2, StepsCorrect, PTL

(***************************************************************************)
(* For termination, no infinite loop is removed before it is broken.       *)
(***************************************************************************)
THEOREM LoopsAreBroken == Spec => []LoopsBroken
<1>1. AllSteps => LoopsBroken
  BY DeliveredIsFine DEF LoopsBroken, Fine, BrokenFirst, Precedes
<1>2. QED
  BY <1>1, StepsCorrect, PTL

----------------------------------------------------------------------------
(***************************************************************************)
(* The command line: a switch is on in what is made of it, wherever it     *)
(* stands.                                                                 *)
(***************************************************************************)

\* A set of natural numbers has a least element.
LEMMA Least ==
    ASSUME NEW T \in SUBSET Nat, T # {}
    PROVE  \E x \in T : \A y \in T : x <= y
<1> DEFINE Below == OpToRel(<, Nat)
<1>1. \E x \in T : \A y \in T : ~(<<y, x>> \in Below)
  <2> HIDE DEF Below
  <2>1. IsWellFoundedOn(Below, Nat)
    BY NatLessThanWellFounded DEF Below
  <2>2. QED
    BY <2>1, WFMin
<1>2. ASSUME NEW x \in Nat, NEW y \in Nat, ~(<<y, x>> \in Below)
      PROVE  ~(y < x)
  BY <1>2, Zenon DEF OpToRel
<1>3. \A x, y \in Nat : ~(y < x) => x <= y
  OBVIOUS
<1> HIDE DEF Below
<1>4. QED
  BY <1>1, <1>2, <1>3

\* Induction, for a set.
LEMMA Induction ==
    ASSUME NEW T, 0 \in T, \A n \in Nat : n \in T => n + 1 \in T
    PROVE  Nat \subseteq T
<1> SUFFICES ASSUME Nat \ T # {} PROVE FALSE
  OBVIOUS
<1>1. PICK x \in Nat \ T : \A y \in Nat \ T : x <= y
  BY Least
<1>2. x # 0 /\ x \in Nat
  BY <1>1
<1>3. x - 1 \in Nat /\ ~(x <= x - 1) /\ (x - 1) + 1 = x
  BY <1>2
<1>4. x - 1 \in T
  BY <1>1, <1>3
<1>5. QED
  BY <1>1, <1>3, <1>4

\* The fields of the options that the switches are about.
SwitchFields == {"noslice", "noOptimize", "noInstrument", "requireSlicer"}

\* What the fields tell of a switch.
Sets(o, option) ==
    /\ option = "--no-slice" => o["noslice"]
    /\ option = "--no-optimize" => o["noOptimize"]
    /\ option = "--no-instrument" => o["noInstrument"]
    /\ option = "--require-slicer" => o["requireSlicer"]

\* p has the switches that o has on.
StaysOn(o, p) == \A f \in SwitchFields : o[f] => p[f]


\* o has the fields of the switches.
Fits(o) == SwitchFields \subseteq DOMAIN o

\* No mode takes a switch back.
LEMMA ModesKeep ==
    ASSUME NEW o, Fits(o)
    PROVE  /\ Fits(SetSvcomp(o)) /\ StaysOn(o, SetSvcomp(o))
           /\ Fits(SetTestcomp(o)) /\ StaysOn(o, SetTestcomp(o))
           /\ Fits(SetWitnessCheck(o)) /\ StaysOn(o, SetWitnessCheck(o))
<1> USE DEF Fits, StaysOn, SwitchFields, Competition
<1>1. Fits(SetSvcomp(o)) /\ StaysOn(o, SetSvcomp(o))
  BY DEF SetSvcomp
<1>2. Fits(SetTestcomp(o)) /\ StaysOn(o, SetTestcomp(o))
  BY DEF SetTestcomp
<1>3. Fits(SetWitnessCheck(o)) /\ StaysOn(o, SetWitnessCheck(o))
  BY DEF SetWitnessCheck
<1>4. QED
  BY <1>1, <1>2, <1>3

\* The options that are looked at one by one.
OtherOptions ==
    {"--no-replay-error", "--witness", "--graphml-witness", "--no-link", "--link",
     "--no-optimize", "--optimize", "--sv-comp", "--test-comp", "--witness-check"}

\* One case of Apply is for each argument.
LEMMA OptionsDiffer ==
    ASSUME NEW x
    PROVE  /\ TurnsOn(x) # "none" => Assigns(x) = "none" /\ x \notin OtherOptions
           /\ Assigns(x) # "none" => x \notin OtherOptions
BY DEF TurnsOn, Assigns, OtherOptions

\* No argument takes a switch back, and a switch sets its field.
LEMMA ApplyKeeps ==
    ASSUME NEW o, Fits(o), NEW a
    PROVE  /\ Fits(Apply(o, a)) /\ StaysOn(o, Apply(o, a))
           /\ Sets(Apply(o, a), a.option)
<1>1. CASE TurnsOn(a.option) # "none"
  <2>1. Apply(o, a) = [o EXCEPT ![TurnsOn(a.option)] = TRUE]
    BY <1>1, OptionsDiffer DEF Apply, OtherOptions
  <2>2. Fits(Apply(o, a)) /\ StaysOn(o, Apply(o, a))
    <3> DEFINE f == TurnsOn(a.option)
    <3>1. Apply(o, a) = [o EXCEPT ![f] = TRUE]
      BY <2>1
    <3> HIDE DEF f
    <3>2. QED
      BY <3>1 DEF Fits, StaysOn
  <2>3. Sets(Apply(o, a), a.option)
    BY <2>1, <1>1 DEF TurnsOn, Sets, Fits, SwitchFields
  <2>4. QED
    BY <2>2, <2>3
<1>2. CASE TurnsOn(a.option) = "none" /\ Assigns(a.option) # "none"
  <2>1. Apply(o, a) = [o EXCEPT ![Assigns(a.option)] = a.value]
    BY <1>2, OptionsDiffer DEF Apply, OtherOptions
  <2>2. Assigns(a.option) \notin SwitchFields /\ a.option \notin Switches
    BY <1>2 DEF Assigns, SwitchFields, Switches
  <2>3. Fits(Apply(o, a)) /\ StaysOn(o, Apply(o, a))
    <3> DEFINE f == Assigns(a.option)
               v == a.value
    <3>1. Apply(o, a) = [o EXCEPT ![f] = v] /\ f \notin SwitchFields
      BY <2>1, <2>2
    <3> HIDE DEF f, v
    <3>2. QED
      BY <3>1 DEF Fits, StaysOn
  <2>4. QED
    BY <2>2, <2>3 DEF Sets, Switches
<1>3. CASE TurnsOn(a.option) = "none" /\ Assigns(a.option) = "none"
  <2>1. a.option \notin {"--no-slice", "--no-instrument", "--require-slicer"}
    BY <1>3 DEF TurnsOn
  <2>2. Fits(NoOptimize(o)) /\ StaysOn(o, NoOptimize(o)) /\ NoOptimize(o)["noOptimize"]
    BY DEF NoOptimize, Fits, StaysOn, SwitchFields
  <2>3. CASE a.option = "--no-optimize"
    <3>1. Apply(o, a) = NoOptimize(o)
      BY <1>3, <2>3 DEF Apply
    <3>2. QED
      BY <3>1, <2>1, <2>2 DEF Sets
  <2>4. CASE a.option # "--no-optimize"
    <3>1. Sets(Apply(o, a), a.option)
      BY <2>1, <2>4 DEF Sets
    <3>2. Apply(o, a) = (
      CASE a.option = "--no-replay-error" -> [o EXCEPT !.replayError = FALSE]
      [] a.option = "--witness" -> [o EXCEPT !.nowitness = FALSE, !.witness = TRUE]
      [] a.option = "--graphml-witness" ->
            [o EXCEPT !.nowitness = FALSE, !.graphmlWitness = TRUE]
      [] a.option = "--no-link" -> RemoveLinkundef(o, a.value)
      [] a.option = "--link" -> [o EXCEPT !.linkFiles = @ \cup a.value]
      [] a.option = "--optimize" ->
            IF "none" \in a.value THEN NoOptimize(o) ELSE [o EXCEPT !.optlevel = a.value]
      [] a.option = "--sv-comp" -> SetSvcomp(o)
      [] a.option = "--test-comp" -> SetTestcomp(o)
      [] a.option = "--witness-check" -> SetWitnessCheck(o)
      [] OTHER -> o)
      BY <1>3, <2>4 DEF Apply
    <3>3. StaysOn(o, o)
      BY DEF StaysOn
    <3>4. QED
      BY <3>1, <3>2, <3>3, <2>2, ModesKeep DEF RemoveLinkundef, Fits, StaysOn, SwitchFields
  <2>5. QED
    BY <2>3, <2>4
<1>4. QED
  BY <1>1, <1>2, <1>3

\* The options after each argument.
LEMMA LoopExists ==
    ASSUME NEW args, NEW n \in Nat
    PROVE  \E f : f = [i \in 0..n |-> IF i = 0 THEN Defaults ELSE Apply(f[i - 1], args[i])]
<1> DEFINE Loop(m, f) == \A i \in 0..m : f[i] = IF i = 0 THEN Defaults ELSE Apply(f[i - 1], args[i])
           T == {m \in Nat : \E f : Loop(m, f)}
<1>1. 0 \in T
  <2>1. Loop(0, [i \in 0..0 |-> Defaults])
    OBVIOUS
  <2>2. QED
    BY <2>1
<1>2. ASSUME NEW m \in Nat, m \in T
      PROVE  m + 1 \in T
  <2>1. PICK f : Loop(m, f)
    BY <1>2
  <2> DEFINE g == [i \in 0..(m + 1) |-> IF i <= m THEN f[i] ELSE Apply(f[m], args[m + 1])]
  <2>2. ASSUME NEW i \in 0..(m + 1)
        PROVE  g[i] = IF i = 0 THEN Defaults ELSE Apply(g[i - 1], args[i])
    <3>1. CASE i = 0
      BY <2>1, <3>1
    <3>2. CASE i # 0 /\ i <= m
      <4>1. i \in 0..m /\ i - 1 \in 0..(m + 1) /\ i - 1 <= m
        BY <3>2
      <4>2. g[i] = f[i] /\ g[i - 1] = f[i - 1]
        BY <3>2, <4>1
      <4>3. f[i] = Apply(f[i - 1], args[i])
        BY <2>1, <3>2, <4>1
      <4>4. QED
        BY <3>2, <4>2, <4>3
    <3>3. CASE i = m + 1
      <4>1. i # 0 /\ ~(i <= m) /\ i - 1 = m /\ m \in 0..(m + 1) /\ m <= m
        BY <3>3
      <4>2. g[i] = Apply(f[m], args[m + 1]) /\ g[m] = f[m]
        BY <4>1
      <4>3. QED
        BY <3>3, <4>1, <4>2
    <3>4. QED
      BY <3>1, <3>2, <3>3
  <2> HIDE DEF g
  <2>3. Loop(m + 1, g)
    BY <2>2
  <2>4. QED
    BY <2>3
<1> HIDE DEF T
<1>3. n \in T
  BY <1>1, <1>2, Induction
<1>4. PICK f : Loop(n, f)
  BY <1>3 DEF T
<1> DEFINE g == [i \in 0..n |-> f[i]]
<1>5. ASSUME NEW i \in 0..n
      PROVE  f[i] = IF i = 0 THEN Defaults ELSE Apply(g[i - 1], args[i])
  <2>1. CASE i = 0
    BY <1>4, <2>1
  <2>2. CASE i # 0
    <3>1. i - 1 \in 0..n
      BY <2>2
    <3>2. g[i - 1] = f[i - 1]
      BY <3>1
    <3>3. QED
      BY <1>4, <2>2, <3>2
  <2>3. QED
    BY <2>1, <2>2
<1>6. g = [i \in 0..n |-> IF i = 0 THEN Defaults ELSE Apply(g[i - 1], args[i])]
  <2> DEFINE Value(i) == IF i = 0 THEN Defaults ELSE Apply(g[i - 1], args[i])
  <2>1. \A i \in 0..n : f[i] = Value(i)
    BY <1>5
  <2> HIDE DEF Value
  <2>2. g = [i \in 0..n |-> Value(i)]
    BY <2>1
  <2>3. QED
    BY <2>2 DEF Value
<1>7. QED
  BY <1>6

\* A switch is on after the argument that it is, and stays on.
LEMMA ParseSets ==
    ASSUME NEW Args, NEW args \in Seq(Args)
    PROVE  /\ Fits(Parse(args))
           /\ \A k \in DOMAIN args : Sets(Parse(args), args[k].option)
<1> DEFINE n == Len(args)
           after[i \in 0..n] == IF i = 0 THEN Defaults ELSE Apply(after[i - 1], args[i])
<1>1. n \in Nat /\ DOMAIN args = 1..n
  OBVIOUS
<1>2. Parse(args) = after[n]
  BY DEF Parse
<1>3. after = [i \in 0..n |-> IF i = 0 THEN Defaults ELSE Apply(after[i - 1], args[i])]
  <2> DEFINE Is(f) == f = [i \in 0..n |-> IF i = 0 THEN Defaults ELSE Apply(f[i - 1], args[i])]
  <2>1. \E f : Is(f)
    BY <1>1, LoopExists
  <2>2. after = CHOOSE f : Is(f)
    OBVIOUS
  <2> HIDE DEF Is, after
  <2>3. Is(after)
    BY <2>1, <2>2, Zenon
  <2>4. QED
    BY <2>3 DEF Is
<1> HIDE DEF after
<1>4. after[0] = Defaults /\ \A i \in 1..n : after[i] = Apply(after[i - 1], args[i])
  BY <1>1, <1>3
<1> HIDE DEF n
<1> DEFINE T == {m \in Nat : m <= n => /\ Fits(after[m])
                                     /\ \A k \in 1..m : Sets(after[m], args[k].option)}
<1>5. 0 \in T
  BY <1>1, <1>4 DEF Defaults, Fits, SwitchFields
<1>6. ASSUME NEW m \in Nat, m \in T PROVE m + 1 \in T
  <2> SUFFICES ASSUME m + 1 <= n
               PROVE  /\ Fits(after[m + 1])
                      /\ \A k \in 1..(m + 1) : Sets(after[m + 1], args[k].option)
    OBVIOUS
  <2>1. m <= n /\ m + 1 \in 1..n /\ (m + 1) - 1 = m
    BY <1>1
  <2>2. Fits(after[m]) /\ \A k \in 1..m : Sets(after[m], args[k].option)
    BY <1>6, <2>1
  <2>3. after[m + 1] = Apply(after[m], args[m + 1])
    BY <1>4, <2>1
  <2>4. /\ Fits(after[m + 1]) /\ StaysOn(after[m], after[m + 1])
        /\ Sets(after[m + 1], args[m + 1].option)
    BY <2>2, <2>3, ApplyKeeps
  <2>5. \A k \in 1..m : Sets(after[m + 1], args[k].option)
    BY <2>2, <2>4 DEF StaysOn, Sets, SwitchFields
  <2>6. \A k \in 1..(m + 1) : k \in 1..m \/ k = m + 1
    OBVIOUS
  <2>7. QED
    BY <2>4, <2>5, <2>6
<1> HIDE DEF T
<1>7. n \in T
  BY <1>1, <1>5, <1>6, Induction
<1>8. QED
  BY <1>1, <1>2, <1>7 DEF T

\* What a switch sets is on in what SymbioticCC gets.
LEMMA GivenIsOn ==
    ASSUME NEW Args, NEW args \in Seq(Args), NEW c, c = ConfigurationOf(args)
    PROVE  /\ "--no-slice" \in c.given => c.noslice
           /\ "--no-optimize" \in c.given => c.noOptimize
           /\ "--no-instrument" \in c.given => c.noInstrument
           /\ "--require-slicer" \in c.given => c.requireSlicer
<1> DEFINE o == Parse(args)
           p == GetProperty(o.prp, o.prpfile)
           u == SetUp(o, p)
<1>1. /\ c.noslice = u.noslice /\ c.noOptimize = u.noOptimize
      /\ c.noInstrument = u.noInstrument /\ c.requireSlicer = u.requireSlicer
      /\ c.given \subseteq {args[i].option : i \in DOMAIN args}
  BY DEF ConfigurationOf
<1> HIDE DEF p
<1>2. u = o \/ u = [o EXCEPT !.noslice = TRUE]
  BY DEF SetUp
<1>3. Fits(o)
  BY ParseSets
<1> HIDE DEF o, u
<1>4. StaysOn(o, u)
  BY <1>2, <1>3 DEF Fits, StaysOn, SwitchFields
<1>5. ASSUME NEW s \in c.given PROVE Sets(o, s)
  <2>1. PICK k \in DOMAIN args : s = args[k].option
    BY <1>1, <1>5
  <2>2. QED
    BY <2>1, ParseSets DEF o
<1>6. ASSUME NEW s \in c.given PROVE Sets(u, s)
  BY <1>4, <1>5 DEF StaysOn, Sets, SwitchFields
<1>7. QED
  BY <1>1, <1>6 DEF Sets

LEMMA ConfigurationIsKept == Spec => [](conf \in Configurations)
<1>1. Init => conf \in Configurations
  BY DEF Init
<1>2. conf \in Configurations /\ [Next]_vars => (conf \in Configurations)'
  BY ConfIsKept
<1>3. QED
  BY <1>1, <1>2, PTL DEF Spec

(***************************************************************************)
(* If the configurations come from command lines, whatever they are, the   *)
(* four switches are obeyed by the pipeline: no other argument or mode and *)
(* no failure of a step takes one back.                                    *)
(***************************************************************************)
THEOREM SwitchesAreObeyed ==
    ASSUME NEW Args, Configurations \subseteq {ConfigurationOf(args) : args \in Seq(Args)}
    PROVE  Spec => []SwitchesObeyed
<1>1. ASSUME AllSteps, conf \in Configurations, NEW b \in Delivered
      PROVE  /\ "--no-slice" \in conf.given => ~IsSliced(b)
             /\ "--no-optimize" \in conf.given => ~Has(b.steps, "optimize")
             /\ "--no-instrument" \in conf.given => ~Has(b.steps, "instrument")
             /\ "--require-slicer" \in conf.given /\ conf.repeatSlicing > 0
                   => IsSliced(files[handed])
  <2>1. Allowed(b.steps)
    BY <1>1, DeliveredIsFine DEF Fine
  <2>2. MustSlice /\ handed # NoFile => IsSliced(files[handed])
    BY <1>1, Known DEF ResultsFit
  <2>3. handed # NoFile
    <3>1. prepared # <<>> => handed # NoFile
      BY <1>1, Known DEF ResultsFit
    <3>2. handed # NoFile \/ DOMAIN prepared # {}
      BY <1>1 DEF Delivered
    <3>3. QED
      BY <3>1, <3>2
  <2>4. PICK args \in Seq(Args) : conf = ConfigurationOf(args)
    BY <1>1
  <2>5. /\ "--no-slice" \in conf.given => conf.noslice
        /\ "--no-optimize" \in conf.given => conf.noOptimize
        /\ "--no-instrument" \in conf.given => conf.noInstrument
        /\ "--require-slicer" \in conf.given => conf.requireSlicer
    BY <2>4, GivenIsOn
  <2>6. "--require-slicer" \in conf.given /\ conf.repeatSlicing > 0 => MustSlice
    BY <2>5 DEF MustSlice
  <2>7. QED
    BY <2>1, <2>2, <2>3, <2>5, <2>6 DEF Allowed, IsSliced
<1>2. AllSteps /\ conf \in Configurations => SwitchesObeyed
  BY <1>1 DEF SwitchesObeyed
<1>3. QED
  BY <1>2, StepsCorrect, ConfigurationIsKept, PTL

----------------------------------------------------------------------------
(***************************************************************************)
(* Every call of prepare_unsliced_file makes the same bitcode: what it     *)
(* starts from stays, and linking, which it does in rounds, has one end.   *)
(***************************************************************************)
NextLinked(b) == WithDefinitions(b, b.undef \cap Available)

\* Everything that is closed under rounds of linking.
Closed(S) == \A x \in S : IsLinked(x) \/ NextLinked(x) \in S

\* Rounds of linking make b of a.
Reaches(a, b) == \A S \in SUBSET Linkable : a \in S /\ Closed(S) => b \in S

LEMMA NextLinkedType == ASSUME NEW x \in Linkable PROVE NextLinked(x) \in Linkable
<1>1. x.undef \cap Available \in SUBSET Lib
  BY DEF Available
<1>2. QED
  BY <1>1, WithDefinitionsType DEF NextLinked

LEMMA ReachesItself == ASSUME NEW a PROVE Reaches(a, a)
BY DEF Reaches

LEMMA ReachesNext ==
    ASSUME NEW a, NEW b, Reaches(a, b), ~IsLinked(b) PROVE Reaches(a, NextLinked(b))
BY DEF Reaches, Closed

\* Where the rounds from x lead, the rounds from its successor lead too.
LEMMA ReachesFromNext ==
    ASSUME NEW x \in Linkable, NEW b, Reaches(x, b), ~IsLinked(x), b # x
    PROVE  Reaches(NextLinked(x), b)
<1> SUFFICES ASSUME NEW S \in SUBSET Linkable, NextLinked(x) \in S, Closed(S) PROVE b \in S
  BY DEF Reaches
<1>1. S \cup {x} \in SUBSET Linkable /\ Closed(S \cup {x})
  BY DEF Closed
<1>2. b \in S \cup {x}
  BY <1>1 DEF Reaches
<1>3. QED
  BY <1>2

LEMMA OneEnd ==
    ASSUME NEW a \in Linkable, NEW b \in Linkable, NEW d \in Linkable,
           Reaches(a, b), IsLinked(b), Reaches(a, d), IsLinked(d)
    PROVE  b = d
<1> DEFINE S == {x \in Linkable : Reaches(x, b)}
<1>1. Closed(S)
  <2> SUFFICES ASSUME NEW x \in S, ~IsLinked(x) PROVE NextLinked(x) \in S
    BY DEF Closed
  <2>1. b # x
    OBVIOUS
  <2>2. Reaches(NextLinked(x), b)
    BY <2>1, ReachesFromNext
  <2>3. QED
    BY <2>2, NextLinkedType
<1>2. a \in S
  OBVIOUS
<1>3. Reaches(d, b)
  <2>1. S \in SUBSET Linkable
    OBVIOUS
  <2>2. d \in S
    BY <1>1, <1>2, <2>1 DEF Reaches
  <2>3. QED
    BY <2>2
<1>4. {d} \in SUBSET Linkable /\ Closed({d})
  BY DEF Closed
<1>5. b \in {d}
  BY <1>3, <1>4 DEF Reaches
<1>6. QED
  BY <1>5

----------------------------------------------------------------------------
(***************************************************************************)
(* How far the call at work is.                                            *)
(***************************************************************************)

\* opt with a list of passes, if there are any
Ran(b, passes) == IF passes = <<>> THEN b ELSE Transformed(b, passes)

Unrolled == Ran(files[nonsliced], SlicedUnrollPasses)
Revised  == Ran(Unrolled, AfterSlicing)

\* The last step of a call.
AtLast(b) == IF noOptimize \/ After = <<>> THEN b ELSE [b EXCEPT !.steps = @ \o After]

\* What the rounds of linking end with.
LinkEnd(b) == b \in Linkable /\ Reaches(Revised, b) /\ IsLinked(b)

IsResult(r) == \E b \in Linkable : LinkEnd(b) /\ r = AtLast(b)

OnTheWay ==
    /\ pc = "actions after slicing" => Current = files[nonsliced]
    /\ pc = "after slicing" => Current = Unrolled
    /\ pc = "link rest" => Current = Revised
    /\ pc = "link" => Reaches(Revised, Current)
    /\ pc = "optimize after" => LinkEnd(Current)
    /\ pc = "finish" => IsResult(Current)

SameInv ==
    /\ caller = "prepare" => OnTheWay
    /\ prepared # <<>> => caller = "prepare"
    /\ \A i \in DOMAIN prepared : IsResult(prepared[i])

LEMMA RevisedType == ASSUME TypeOK PROVE Revised \in Linkable
<1>1. files[nonsliced] \in Linkable
  BY DEF TypeOK, Linkable
<1>2. Unrolled \in Linkable
  BY <1>1, TransformedType, SlicedUnrollIsList DEF Unrolled, Ran
<1>3. QED
  BY <1>2, TransformedType, AfterSlicingIsList DEF Revised, Ran

\* Nothing that a call depends on changes.
SameStart ==
    /\ UNCHANGED <<conf, noOptimize, optlevel, nonsliced>>
    /\ files'[nonsliced] = files[nonsliced]

LEMMA SameEnds ==
    ASSUME SameStart
    PROVE  /\ Unrolled' = Unrolled /\ Revised' = Revised
           /\ \A b : Reaches(Revised, b)' <=> Reaches(Revised, b)
           /\ \A b : LinkEnd(b)' <=> LinkEnd(b)
           /\ \A r : IsResult(r)' <=> IsResult(r)
<1>1. /\ conf' = conf /\ noOptimize' = noOptimize /\ optlevel' = optlevel
      /\ files'[nonsliced'] = files[nonsliced]
  BY DEF SameStart
<1>2. SlicedUnrollPasses' = SlicedUnrollPasses /\ AfterSlicing' = AfterSlicing
  BY <1>1 DEF SlicedUnrollPasses, AfterSlicing
<1>3. Unrolled' = Unrolled
  BY <1>1, <1>2 DEF Unrolled, Ran
<1>4. Revised' = Revised
  BY <1>2, <1>3 DEF Revised, Ran
<1>5. Available' = Available
  BY <1>1 DEF Available
<1>6. \A b : Reaches(Revised, b)' <=> Reaches(Revised, b)
  BY <1>4, <1>5 DEF Reaches, Closed, NextLinked, IsLinked
<1>7. \A b : LinkEnd(b)' <=> LinkEnd(b)
  BY <1>5, <1>6 DEF LinkEnd, IsLinked
<1>8. \A b : AtLast(b)' = AtLast(b)
  BY <1>1 DEF AtLast, After
<1>9. \A r : IsResult(r)' <=> IsResult(r)
  BY <1>7, <1>8 DEF IsResult
<1>10. QED
  BY <1>3, <1>4, <1>6, <1>7, <1>9

LEMMA SameResults ==
    ASSUME SameStart, \A i \in DOMAIN prepared' : IsResult(prepared'[i])
    PROVE  (\A i \in DOMAIN prepared : IsResult(prepared[i]))'
BY SameEnds

(***************************************************************************)
(* SameInv is an invariant.                                                *)
(***************************************************************************)

LEMMA CallerIsKept == ASSUME PlaceInv, Next, ~PrepareUnsliced PROVE caller' = caller
<1>1. CASE Plain
  BY <1>1, PlainSteps DEF EarlyStep, LateStep, FailStep
<1>2. CASE CompileSources
  BY <1>2 DEF CompileSources, control
<1>3. CASE NoSlicing \/ StartSlicing \/ Slice \/ GiveUpSlicing \/ SliceAgain
  BY <1>3 DEF NoSlicing, StartSlicing, Slice, GiveUpSlicing, SliceAgain, control
<1>4. CASE HandOver \/ ReturnUnsliced \/ DriverUnslices
  BY <1>4 DEF HandOver, ReturnUnsliced, DriverUnslices, control
<1>5. QED
  BY <1>1, <1>2, <1>3, <1>4 DEF Next, Work, Plain

LEMMA RunSame ==
    ASSUME PlaceInv, SameInv, Next, caller = "run", ~PrepareUnsliced PROVE SameInv'
<1>1. caller' = "run"
  BY CallerIsKept
<1>2. prepared = <<>>
  BY DEF SameInv
<1>3. prepared' = prepared
  <2>1. ~ReturnUnsliced
    BY DEF ReturnUnsliced
  <2>2. CASE HandOver
    BY <2>2 DEF HandOver
  <2>3. QED
    BY <2>1, <2>2, ResultsAreKept
<1>4. prepared' = <<>> /\ DOMAIN prepared' = {}
  BY <1>2, <1>3
<1>5. QED
  BY <1>1, <1>4 DEF SameInv

LEMMA CallSame == ASSUME SameInv, PrepareUnsliced PROVE SameInv'
<1>1. /\ pc' = "actions after slicing" /\ caller' = "prepare" /\ curfile' = nonsliced
      /\ UNCHANGED <<conf, noOptimize, optlevel, files, nonsliced, prepared>>
  BY DEF PrepareUnsliced, Step, options, results
<1>2. SameStart
  BY <1>1 DEF SameStart
<1>3. (\A i \in DOMAIN prepared : IsResult(prepared[i]))'
  BY <1>1, <1>2, SameResults DEF SameInv
<1>4. OnTheWay'
  BY <1>1 DEF OnTheWay, Current
<1>5. QED
  BY <1>1, <1>3, <1>4 DEF SameInv

LEMMA DriverSame == ASSUME SameInv, DriverUnslices PROVE SameInv'
<1>1. /\ pc' = "handed"
      /\ UNCHANGED <<conf, noOptimize, optlevel, caller, files, nonsliced, prepared>>
  BY DEF DriverUnslices, control, results
<1>2. SameStart
  BY <1>1 DEF SameStart
<1>3. (\A i \in DOMAIN prepared : IsResult(prepared[i]))'
  BY <1>1, <1>2, SameResults DEF SameInv
<1>4. OnTheWay'
  BY <1>1 DEF OnTheWay
<1>5. QED
  BY <1>1, <1>3, <1>4 DEF SameInv

LEMMA StartIsKept ==
    ASSUME AllSteps, PlaceInv', Place \in Again,
           UNCHANGED <<conf, noOptimize, optlevel, nonsliced>>, NEW t, Grows(t), Named
    PROVE  SameStart
<1>1. Place \in Remembering
  BY DEF Remembering
<1>2. files'[nonsliced] = files[nonsliced]
  BY <1>1, Known, RememberedStays DEF PlaceInv
<1>3. QED
  BY <1>2 DEF SameStart

LEMMA RanByOpt == ASSUME NEW passes, RunOpt(passes) PROVE Current' = Ran(Current, passes)
BY DEF RunOpt, Write, Ran, Current

LEMMA CalledSame ==
    ASSUME AllSteps, PlaceInv', SameInv, Next, caller = "prepare", pc \notin Rest
    PROVE  SameInv'
<1>0. TypeOK /\ OnTheWay /\ Current \in Linkable
  BY Known, CurrentType DEF SameInv
<1>1. PrepareSteps /\ Place \in Again
  <2>1. Place \in Again
    BY Known DEF PlaceInv, Linking, Place, Again, AfterLinking, Rest
  <2>2. QED
    BY <2>1, Known, OnlyPrepareSteps
<1>2. UNCHANGED <<conf, noOptimize, optlevel, caller, nonsliced>>
  <2>1. UNCHANGED <<conf, caller, nonsliced>>
    BY <1>1, PrepareEffect
  <2>2. UNCHANGED <<noOptimize, optlevel>>
    BY <1>1 DEF PrepareSteps, Raise, LinkRound, ActionsAfterSlicing, AfterSlicingPasses,
       LinkRest, OptimizeAfterSlicing, ReturnUnsliced, options
  <2>3. QED
    BY <2>1, <2>2
<1>3. ASSUME SameStart, OnTheWay', prepared' = prepared PROVE SameInv'
  <2>1. (\A i \in DOMAIN prepared : IsResult(prepared[i]))'
    BY <1>3, SameResults DEF SameInv
  <2>2. QED
    BY <1>2, <1>3, <2>1 DEF SameInv
<1>4. ~ReturnUnsliced => prepared' = prepared
  BY ResultsAreKept DEF HandOver
<1>5. CASE Raise
  <2>1. pc' = "raised" /\ files' = files /\ ~ReturnUnsliced
    BY <1>5 DEF Raise, ReturnUnsliced, Step
  <2>2. SameStart /\ OnTheWay'
    BY <1>2, <2>1 DEF SameStart, OnTheWay
  <2>3. QED
    BY <1>3, <1>4, <2>1, <2>2
<1>6. CASE ActionsAfterSlicing
  <2>1. /\ pc = "actions after slicing" /\ pc' = "after slicing"
        /\ RunOpt(SlicedUnrollPasses) /\ ~ReturnUnsliced
    BY <1>6 DEF ActionsAfterSlicing, ReturnUnsliced, Step
  <2>2. SameStart
    BY <1>0, <1>1, <1>2, <2>1, SlicedUnrollIsList, RunOptGrows, StartIsKept
  <2>3. Current' = Unrolled'
    BY <1>0, <2>1, <2>2, RanByOpt, SameEnds DEF OnTheWay, Unrolled
  <2>4. OnTheWay'
    BY <2>1, <2>3 DEF OnTheWay
  <2>5. QED
    BY <1>3, <1>4, <2>1, <2>2, <2>4
<1>7. CASE AfterSlicingPasses
  <2>1. /\ pc = "after slicing" /\ pc' = "link rest"
        /\ RunOpt(AfterSlicing) /\ ~ReturnUnsliced
    BY <1>7 DEF AfterSlicingPasses, ReturnUnsliced, Step
  <2>2. SameStart
    BY <1>0, <1>1, <1>2, <2>1, AfterSlicingIsList, RunOptGrows, StartIsKept
  <2>3. Current' = Revised'
    BY <1>0, <2>1, <2>2, RanByOpt, SameEnds DEF OnTheWay, Revised
  <2>4. OnTheWay'
    BY <2>1, <2>3 DEF OnTheWay
  <2>5. QED
    BY <1>3, <1>4, <2>1, <2>2, <2>4
<1>8. CASE LinkRest
  <2>1. /\ pc = "link rest" /\ pc' = "link" /\ UNCHANGED <<files, curfile>> /\ ~ReturnUnsliced
    BY <1>8 DEF LinkRest, LinkUndefined, ReturnUnsliced, Step
  <2>2. SameStart /\ Current' = Current
    BY <1>2, <2>1 DEF SameStart, Current
  <2>3. Reaches(Revised, Current)
    BY <1>0, <2>1, ReachesItself DEF OnTheWay
  <2>4. OnTheWay'
    BY <2>1, <2>2, <2>3, SameEnds DEF OnTheWay
  <2>5. QED
    BY <1>3, <1>4, <2>1, <2>2, <2>4
<1>9. CASE LinkRound
  <2> DEFINE funs == Current.undef \cap goal.only \cap Available
  <2>1. /\ pc = "link" /\ ~ReturnUnsliced /\ goal.then = "optimize after"
        /\ goal.only = Functions
    BY <1>1, <1>9, Known
       DEF LinkRound, ReturnUnsliced, Step, PlaceInv, Linking, Place, Again, AfterLinking
  <2>2. funs = Current.undef \cap Available
    BY <1>0, <2>1 DEF Linkable, Bitcode
  <2>3. Reaches(Revised, Current)
    BY <1>0, <2>1 DEF OnTheWay
  <2>4. CASE funs = {}
    <3>1. pc' = "optimize after" /\ UNCHANGED <<files, curfile>>
      BY <1>9, <2>1, <2>4 DEF LinkRound
    <3>2. SameStart /\ Current' = Current
      BY <1>2, <3>1 DEF SameStart, Current
    <3>3. LinkEnd(Current)
      BY <1>0, <2>2, <2>3, <2>4 DEF LinkEnd, IsLinked
    <3>4. OnTheWay'
      BY <3>1, <3>2, <3>3, SameEnds DEF OnTheWay
    <3>5. QED
      BY <1>3, <1>4, <2>1, <3>2, <3>4
  <2>5. CASE funs # {}
    <3>1. pc' = "link" /\ Write(Linked(curfile), WithDefinitions(Current, funs))
      BY <1>9, <2>1, <2>5 DEF LinkRound
    <3>2. SameStart
      BY <1>0, <1>1, <1>2, <3>1, DefinitionsGrow, StartIsKept
    <3>3. Current' = NextLinked(Current)
      BY <2>2, <3>1 DEF Write, Current, NextLinked
    <3>4. Reaches(Revised, Current')
      BY <2>2, <2>3, <2>5, <3>3, ReachesNext DEF IsLinked
    <3>5. OnTheWay'
      BY <3>1, <3>2, <3>4, SameEnds DEF OnTheWay
    <3>6. QED
      BY <1>3, <1>4, <2>1, <3>2, <3>5
  <2>6. QED
    BY <2>4, <2>5
<1>10. CASE OptimizeAfterSlicing
  <2>1. pc = "optimize after" /\ pc' = "finish" /\ Optimize(After) /\ ~ReturnUnsliced
    BY <1>10 DEF OptimizeAfterSlicing, ReturnUnsliced, Step
  <2>2. SameStart
    BY <1>0, <1>1, <1>2, <2>1, OptimizationsAreLists, OptimizeGrows, StartIsKept
  <2>3. Current' = AtLast(Current)
    BY <2>1 DEF Optimize, OptimizeWith, Write, AtLast, Current
  <2>4. IsResult(Current')
    BY <1>0, <2>1, <2>3 DEF OnTheWay, IsResult, LinkEnd
  <2>5. OnTheWay'
    BY <2>1, <2>2, <2>4, SameEnds DEF OnTheWay
  <2>6. QED
    BY <1>3, <1>4, <2>1, <2>2, <2>5
<1>11. CASE ReturnUnsliced
  <2>1. /\ pc = "finish" /\ pc' = "handed" /\ prepared' = Append(prepared, Current)
        /\ files' = files
    BY <1>11 DEF ReturnUnsliced, Step
  <2>2. SameStart /\ OnTheWay'
    BY <1>2, <2>1 DEF SameStart, OnTheWay
  <2>3. IsResult(Current)
    BY <1>0, <2>1 DEF OnTheWay
  <2>4. \A i \in DOMAIN prepared' : IsResult(prepared'[i])
    <3>1. prepared \in Seq(Bitcode) /\ Current \in Bitcode
      BY <1>0 DEF TypeOK, Linkable
    <3>2. QED
      BY <2>1, <2>3, <3>1, AppendedElement DEF SameInv
  <2>5. (\A i \in DOMAIN prepared : IsResult(prepared[i]))'
    BY <2>2, <2>4, SameResults
  <2>6. QED
    BY <1>2, <2>2, <2>5 DEF SameInv
<1>12. QED
  BY <1>1, <1>5, <1>6, <1>7, <1>8, <1>9, <1>10, <1>11 DEF PrepareSteps

LEMMA StepSame == AllSteps /\ PlaceInv' /\ SameInv /\ [Next]_vars => SameInv'
<1> SUFFICES ASSUME AllSteps, PlaceInv', SameInv, [Next]_vars PROVE SameInv'
  OBVIOUS
<1>1. CASE UNCHANGED vars
  <2>1. /\ UNCHANGED <<conf, noOptimize, optlevel, pc, caller, files, curfile, nonsliced>>
        /\ prepared' = prepared
    BY <1>1 DEF vars, options, control, results
  <2>2. SameStart /\ Current' = Current
    BY <2>1 DEF SameStart, Current
  <2>3. OnTheWay => OnTheWay'
    BY <2>1, <2>2, SameEnds DEF OnTheWay
  <2>4. (\A i \in DOMAIN prepared : IsResult(prepared[i]))'
    BY <2>1, <2>2, SameResults DEF SameInv
  <2>5. QED
    BY <2>1, <2>3, <2>4 DEF SameInv
<1>2. CASE Next /\ caller = "run"
  BY <1>2, Known, RunSame, CallSame
<1>3. CASE Next /\ caller = "prepare" /\ pc \notin Rest
  BY <1>3, CalledSame
<1>4. CASE Next /\ pc \in Rest
  BY <1>4, RestSteps, CallSame, DriverSame
<1>5. QED
  BY <1>1, <1>2, <1>3, <1>4, Known, Callers

LEMMA SameCorrect == Spec => [](SameInv /\ TypeOK)
<1>1. Init => SameInv
  BY DEF Init, SameInv
<1>2. AllSteps /\ AllSteps' /\ SameInv /\ [Next]_vars => SameInv'
  BY StepSame DEF AllSteps, All
<1>3. Spec => []SameInv
  BY <1>1, <1>2, StepsCorrect, PTL DEF Spec
<1>4. QED
  BY <1>3, TypeCorrect, PTL

(***************************************************************************)
(* However often the driver asks for the unsliced file, and whatever was   *)
(* made of other files in between, it gets the same bitcode.               *)
(***************************************************************************)
THEOREM PreparedIsTheSame == Spec => []PreparedSame
<1>1. ASSUME SameInv, TypeOK, NEW i \in DOMAIN prepared, NEW j \in DOMAIN prepared
      PROVE  prepared[i] = prepared[j]
  <2>1. PICK b \in Linkable : LinkEnd(b) /\ prepared[i] = AtLast(b)
    BY <1>1 DEF SameInv, IsResult
  <2>2. PICK d \in Linkable : LinkEnd(d) /\ prepared[j] = AtLast(d)
    BY <1>1 DEF SameInv, IsResult
  <2>3. b = d
    BY <1>1, <2>1, <2>2, RevisedType, OneEnd DEF LinkEnd
  <2>4. QED
    BY <2>1, <2>2, <2>3
<1>2. SameInv /\ TypeOK => PreparedSame
  BY <1>1 DEF PreparedSame
<1>3. QED
  BY <1>2, SameCorrect, PTL

=============================================================================
