-------------------------- MODULE PipelineContract --------------------------
(***************************************************************************)
(* Theorems about Pipeline: it implements Compiler, the contract that the  *)
(* driver relies on, and options.noslice tells whether the bitcode that    *)
(* run hands over was sliced.                                              *)
(***************************************************************************)
EXTENDS PipelineProofs

----------------------------------------------------------------------------
(***************************************************************************)
(* Which bitcode is sliced.                                                *)
(***************************************************************************)

\* The steps of run before the first slicing.
Early ==
    {"compile", "after compilation", "unroll", "link files", "prepare", "instrument",
     "after instrumentation", "optimize before", "actions before slicing",
     "link before slicing", "before slicing", "link atexit", "consdes", "slicing"}

\* Nothing is sliced before the slicer runs, the remembered file never, and
\* therefore nothing that is made of it.
NoneSliced ==
    /\ caller = "run" /\ Place \in Early => \A n \in DOMAIN files : ~IsSliced(files[n])
    /\ ~IsSliced(files[nonsliced])
    /\ caller = "prepare" /\ Place \in Again => ~IsSliced(Current)

\* Without repeated slicing, the option and the file go together from the
\* slicer on.
FlagFits ==
    /\ conf.repeatSlicing = 0 =>
          /\ pc \notin {"slice", "slice again"}
          /\ caller = "run" /\ Place \in Again => ~IsSliced(Current)
    /\ conf.repeatSlicing = 1 =>
          /\ pc # "slice again"
          /\ pc = "slice" => ~noslice /\ ~IsSliced(Current)
          /\ caller = "run" /\ Place \in Again => noslice = ~IsSliced(Current)

\* What was handed over is remembered.
Handed == caller = "prepare" \/ pc = "handed" => handed # NoFile

SlicedInv == NoneSliced /\ FlagFits /\ Handed

----------------------------------------------------------------------------
(***************************************************************************)
(* What a step does to the fact that bitcode is sliced.                    *)
(***************************************************************************)

LEMMA HasConcat ==
    ASSUME NEW s \in Seq(Done), NEW t \in Seq(Done), NEW p
    PROVE  Has(s \o t, p) <=> Has(s, p) \/ Has(t, p)
<1> DEFINE u == s \o t
<1>1. /\ Len(u) = Len(s) + Len(t) /\ Len(s) \in Nat /\ Len(t) \in Nat
      /\ DOMAIN u = 1..Len(u) /\ DOMAIN s = 1..Len(s) /\ DOMAIN t = 1..Len(t)
      /\ \A i \in 1..Len(u) : u[i] = IF i <= Len(s) THEN s[i] ELSE t[i - Len(s)]
  OBVIOUS
<1> HIDE DEF u
<1>2. ASSUME Has(u, p) PROVE Has(s, p) \/ Has(t, p)
  <2>1. PICK i \in 1..Len(u) : u[i] = p
    BY <1>1, <1>2 DEF Has
  <2>2. CASE i <= Len(s)
    BY <1>1, <2>1, <2>2 DEF Has
  <2>3. CASE i > Len(s)
    <3>1. i - Len(s) \in 1..Len(t) /\ t[i - Len(s)] = p
      BY <1>1, <2>1, <2>3
    <3>2. QED
      BY <1>1, <3>1 DEF Has
  <2>4. QED
    BY <1>1, <2>1, <2>2, <2>3
<1>3. ASSUME Has(s, p) PROVE Has(u, p)
  <2>1. PICK i \in 1..Len(s) : s[i] = p
    BY <1>1, <1>3 DEF Has
  <2>2. i \in 1..Len(u) /\ u[i] = p
    BY <1>1, <2>1
  <2>3. QED
    BY <1>1, <2>2 DEF Has
<1>4. ASSUME Has(t, p) PROVE Has(u, p)
  <2>1. PICK i \in 1..Len(t) : t[i] = p
    BY <1>1, <1>4 DEF Has
  <2>2. i + Len(s) \in 1..Len(u) /\ u[i + Len(s)] = p
    BY <1>1, <2>1
  <2>3. QED
    BY <1>1, <2>2 DEF Has
<1>5. QED
  BY <1>2, <1>3, <1>4 DEF u

\* The slicer is no pass of opt.
LEMMA NotByPasses == ASSUME NEW t \in Seq(Passes) PROVE t \in Seq(Done) /\ ~Has(t, "slice")
<1>1. "slice" \notin Passes /\ Passes \subseteq Done
  BY DEF Passes, Done
<1>2. QED
  BY <1>1 DEF Has

LEMMA SlicedByPasses ==
    ASSUME NEW s \in Seq(Done), NEW t \in Seq(Passes)
    PROVE  Has(s \o t, "slice") <=> Has(s, "slice")
BY HasConcat, NotByPasses

LEMMA SlicedByAppend ==
    ASSUME NEW s \in Seq(Done), NEW d \in Done
    PROVE  Has(Append(s, d), "slice") <=> Has(s, "slice") \/ d = "slice"
<1>1. Append(s, d) = s \o <<d>> /\ <<d>> \in Seq(Done)
  OBVIOUS
<1>2. Has(<<d>>, "slice") <=> d = "slice"
  BY DEF Has
<1>3. Has(s \o <<d>>, "slice") <=> Has(s, "slice") \/ Has(<<d>>, "slice")
  BY <1>1, HasConcat
<1>4. QED
  BY <1>1, <1>2, <1>3

LEMMA TransformedSliced ==
    ASSUME NEW b \in Linkable, NEW passes \in Seq(Passes)
    PROVE  IsSliced(Transformed(b, passes)) <=> IsSliced(b)
BY SlicedByPasses DEF IsSliced, Transformed, Linkable, Bitcode

LEMMA OptimizedSliced ==
    ASSUME NEW b \in Linkable, NEW passes \in Seq(Passes)
    PROVE  IsSliced([b EXCEPT !.steps = @ \o passes]) <=> IsSliced(b)
BY SlicedByPasses DEF IsSliced, Linkable, Bitcode

LEMMA WithDefinitionsSliced ==
    ASSUME NEW b \in Linkable, NEW funs
    PROVE  IsSliced(WithDefinitions(b, funs)) <=> IsSliced(b)
<1>1. "link" \in Done
  BY DEF Done
<1>2. QED
  BY <1>1, SlicedByAppend DEF IsSliced, WithDefinitions, Linkable, Bitcode

LEMMA WithChecksSliced ==
    ASSUME NEW b \in Linkable, NEW i
    PROVE  IsSliced(WithChecks(b, i)) <=> IsSliced(b)
<1>1. "instrument" \in Done
  BY DEF Done
<1>2. WithChecks(b, i).steps = Append(b.steps, "instrument")
  BY DEF WithChecks, Linkable, Bitcode
<1>3. QED
  BY <1>1, <1>2, SlicedByAppend DEF IsSliced, Linkable, Bitcode

\* A step that makes bitcode of the current one without slicing it, or none.
Alike ==
    /\ IsSliced(files'[curfile']) <=> IsSliced(Current)
    /\ \A n \in DOMAIN files' : n = curfile' \/ (n \in DOMAIN files /\ files'[n] = files[n])

LEMMA NothingWritten == UNCHANGED <<files, curfile>> => Alike
BY DEF Alike, Current

LEMMA WriteAlike ==
    ASSUME NEW n, NEW b, Write(n, b), IsSliced(b) <=> IsSliced(Current) PROVE Alike
BY DEF Write, Alike

LEMMA RunOptAlike ==
    ASSUME TypeOK, NEW passes \in Seq(Passes), RunOpt(passes) PROVE Alike
BY NothingWritten, WriteAlike, CurrentType, TransformedSliced DEF RunOpt

LEMMA OptimizeAlike ==
    ASSUME TypeOK, NEW passes \in Seq(Passes), Optimize(passes) PROVE Alike
BY NothingWritten, WriteAlike, CurrentType, OptimizedSliced DEF Optimize, OptimizeWith

LEMMA DefinitionsAlike ==
    ASSUME TypeOK, NEW funs, Write(Linked(curfile), WithDefinitions(Current, funs)) PROVE Alike
BY WriteAlike, CurrentType, WithDefinitionsSliced

----------------------------------------------------------------------------
(***************************************************************************)
(* SlicedInv is an invariant.  Most steps stay on one side of the slicer,  *)
(* or fail.                                                                *)
(***************************************************************************)
Unsliced == \A n \in DOMAIN files : ~IsSliced(files[n])

EarlyStep ==
    /\ Place \in Early /\ Place' \in Early /\ caller' = caller
    /\ Alike

LateStep ==
    /\ Place \in Again /\ Place' \in Again
    /\ Alike /\ UNCHANGED <<conf, noslice, caller, nonsliced, handed>>

FailStep ==
    /\ pc' \in {"raised", "proved"}
    /\ UNCHANGED <<conf, caller, nonsliced, handed, files>>

LEMMA Callers ==
    ASSUME PlaceInv
    PROVE  /\ caller \in {"run", "prepare"}
           /\ Place \in Early \cup ToSlicing => caller = "run"
BY DEF PlaceInv, TypeOK, Linking, Early, ToSlicing, Again

\* From the slicer on, run works on other names than the remembered one.
IsBeyond ==
    caller = "run" /\ Place \in ToSlicing \cup Again =>
        curfile # nonsliced /\ curfile # NoFile

LEMMA Beyond == PlaceInv => IsBeyond
<1> SUFFICES ASSUME PlaceInv, caller = "run", Place \in ToSlicing \cup Again
             PROVE  curfile # nonsliced /\ curfile # NoFile
  BY DEF IsBeyond
<1>1. /\ curfile.pr \in Nat /\ nonsliced.pr \in Nat /\ First \in Nat /\ Second \in Nat
  BY SuffixesOfWrites, ListWeights DEF PlaceInv
<1>2. curfile.pr > nonsliced.pr \/ curfile.pr > nonsliced.pr + First
         \/ curfile.pr > nonsliced.pr + First + Second
  BY DEF PlaceInv, Longer, Again, AtTheEnd
<1>3. curfile.pr > nonsliced.pr
  BY <1>1, <1>2
<1>4. NoFile.pr = 0
  BY DEF NoFile
<1>5. QED
  BY <1>1, <1>3, <1>4

LEMMA EarlyKeeps == ASSUME PlaceInv, PlaceInv', SlicedInv, EarlyStep PROVE SlicedInv'
<1>1. caller = "run" /\ caller' = "run" /\ Place' \notin Again \cup {"slice", "slice again", "handed"}
  BY Callers DEF EarlyStep, Early, Again
<1>2. pc' \notin {"slice", "slice again", "handed"}
  BY <1>1 DEF Place
<1>3. Unsliced
  BY <1>1 DEF EarlyStep, SlicedInv, NoneSliced, Unsliced
<1>4. curfile \in DOMAIN files /\ nonsliced' \in DOMAIN files'
  BY DEF PlaceInv, TypeOK
<1>5. \A n \in DOMAIN files' : ~IsSliced(files'[n])
  BY <1>3, <1>4 DEF EarlyStep, Alike, Unsliced, Current
<1>6. NoneSliced'
  BY <1>1, <1>4, <1>5 DEF NoneSliced
<1>7. FlagFits' /\ Handed'
  BY <1>1, <1>2 DEF FlagFits, Handed
<1>8. QED
  BY <1>6, <1>7 DEF SlicedInv

LEMMA LateKeeps == ASSUME PlaceInv, PlaceInv', SlicedInv, LateStep PROVE SlicedInv'
<1>1. /\ Place' \in Again /\ Place' \notin Early \cup {"slice", "slice again", "handed"}
      /\ Place \in Again /\ UNCHANGED <<conf, noslice, caller, nonsliced, handed>>
  BY DEF LateStep, Early, Again
<1>2. pc' \notin {"slice", "slice again", "handed"}
  BY <1>1 DEF Place
<1>3. nonsliced' \in DOMAIN files' /\ IsSliced(Current)' = IsSliced(Current)
  BY DEF LateStep, Alike, PlaceInv, TypeOK, Current, IsSliced, Has
<1>4. ~IsSliced(files'[nonsliced])
  <2>1. CASE caller = "run"
    <3>1. IsBeyond'
      BY Beyond, PTL
    <3>2. curfile' # nonsliced
      BY <1>1, <2>1, <3>1 DEF IsBeyond
    <3>3. QED
      BY <1>1, <1>3, <3>2 DEF LateStep, Alike, SlicedInv, NoneSliced
  <2>2. CASE caller = "prepare"
    BY <1>1, <1>3, <2>2 DEF LateStep, Alike, SlicedInv, NoneSliced, Current
  <2>3. QED
    BY <2>1, <2>2, Callers
<1>5. NoneSliced'
  BY <1>1, <1>3, <1>4 DEF SlicedInv, NoneSliced
<1>6. FlagFits' /\ Handed'
  BY <1>1, <1>2, <1>3 DEF SlicedInv, FlagFits, Handed
<1>7. QED
  BY <1>5, <1>6 DEF SlicedInv

LEMMA FailKeeps == ASSUME SlicedInv, FailStep PROVE SlicedInv'
<1>1. Place' \notin Early \cup Again /\ pc' \notin {"slice", "slice again", "handed"}
  BY DEF FailStep, Place, Early, Again
<1>2. NoneSliced'
  BY <1>1 DEF FailStep, SlicedInv, NoneSliced
<1>3. FlagFits'
  BY <1>1 DEF FlagFits
<1>4. Handed'
  BY <1>1 DEF FailStep, SlicedInv, Handed
<1>5. QED
  BY <1>2, <1>3, <1>4 DEF SlicedInv

(***************************************************************************)
(* The other steps around the slicer, and of the driver.                   *)
(***************************************************************************)

LEMMA CompileKeeps == ASSUME PlaceInv, SlicedInv, CompileSources PROVE SlicedInv'
<1>1. /\ pc = "compile" /\ pc' = "after compilation" /\ UNCHANGED <<caller, nonsliced, handed>>
  BY DEF CompileSources, Step, control, results
<1>2. caller = "run" /\ Place = "compile" /\ Place' = "after compilation"
  BY <1>1, Callers DEF Place, Early
<1>3. Unsliced
  BY <1>2 DEF SlicedInv, NoneSliced, Unsliced, Early
<1>4. PICK steps \in Seq(Done) :
         /\ ~Has(steps, "slice")
         /\ \E program \in Programs :
              Write(Code, [steps |-> steps, undef |-> program, defs |-> {}, errors |-> {"program"}])
  <2> DEFINE before == Preprocessing
             after  == When(Sanitizes(conf), "sanitize")
             steps  == before \o <<"compile">> \o after
  <2>1. {"transform", "compile", "sanitize"} \subseteq Done
    BY DEF Done
  <2>2. before \in Seq({"transform"}) /\ after \in Seq({"sanitize"})
    BY DEF Preprocessing, When
  <2>3. before \in Seq(Done) /\ after \in Seq(Done) /\ <<"compile">> \in Seq(Done)
    BY <2>1, <2>2
  <2>4. ~Has(before, "slice") /\ ~Has(after, "slice") /\ ~Has(<<"compile">>, "slice")
    BY <2>2 DEF Has
  <2>5. \E program \in Programs :
          Write(Code, [steps |-> steps, undef |-> program, defs |-> {}, errors |-> {"program"}])
    BY DEF CompileSources
  <2> HIDE DEF before, after
  <2>6. before \o <<"compile">> \in Seq(Done) /\ ~Has(before \o <<"compile">>, "slice")
    BY <2>3, <2>4, HasConcat, ConcatProperties
  <2>7. steps \in Seq(Done) /\ ~Has(steps, "slice")
    BY <2>3, <2>4, <2>6, HasConcat, ConcatProperties
  <2>8. QED
    BY <2>5, <2>7
<1>5. \A n \in DOMAIN files' : ~IsSliced(files'[n])
  BY <1>3, <1>4 DEF Write, IsSliced, Unsliced
<1>6. nonsliced' \in DOMAIN files'
  BY <1>1, <1>4 DEF Write, PlaceInv, TypeOK
<1>7. QED
  BY <1>1, <1>2, <1>5, <1>6 DEF SlicedInv, NoneSliced, FlagFits, Handed, Early, Again

\* Without a round of slicing nothing is written.
LEMMA UnslicedKeeps ==
    ASSUME PlaceInv, SlicedInv, NoSlicing \/ StartSlicing PROVE SlicedInv'
<1>1. /\ pc = "slicing" /\ UNCHANGED <<conf, noslice, caller, nonsliced, handed, files, curfile>>
      /\ pc' \in {"raised", "actions after slicing", "slice"}
      /\ pc' = "slice" => ~noslice /\ conf.repeatSlicing # 0
      /\ pc' = "actions after slicing" => noslice \/ conf.repeatSlicing = 0
  BY DEF NoSlicing, StartSlicing, options, control, results
<1>2. caller = "run" /\ Place = "slicing" /\ Place' = pc'
  BY <1>1, Callers DEF Place, Early
<1>3. ~IsSliced(Current)
  BY <1>2 DEF SlicedInv, NoneSliced, Early, PlaceInv, TypeOK, Current
<1>4. IsSliced(Current)' = IsSliced(Current)
  BY <1>1 DEF Current
<1>5. NoneSliced'
  BY <1>1, <1>2 DEF SlicedInv, NoneSliced, Early
<1>6. noslice' = TRUE \/ conf.repeatSlicing = 0 \/ pc' # "actions after slicing"
  BY <1>1 DEF PlaceInv, TypeOK
<1>7. Place' \in Again => pc' = "actions after slicing"
  BY <1>1, <1>2 DEF Again
<1>8. ~IsSliced(Current)'
  BY <1>3, <1>4
<1>9. FlagFits'
  <2>1. conf'.repeatSlicing = 0 => pc' \notin {"slice", "slice again"}
    BY <1>1
  <2>2. pc' # "slice again" /\ (pc' = "slice" => ~noslice')
    BY <1>1
  <2>3. conf'.repeatSlicing = 1 /\ pc' = "actions after slicing" => noslice' = TRUE
    <3>1. conf' = conf
      BY <1>1
    <3>2. conf'.repeatSlicing = 1 => conf.repeatSlicing # 0
      BY <3>1
    <3>3. QED
      BY <1>6, <3>2, Zenon
  <2>4. conf'.repeatSlicing = 1 /\ pc' = "actions after slicing" => noslice' = ~IsSliced(Current)'
    BY <1>8, <2>3
  <2>5. QED
    BY <1>7, <1>8, <2>1, <2>2, <2>4 DEF FlagFits
<1>10. Handed'
  BY <1>1, <1>2 DEF Handed
<1>11. QED
  BY <1>5, <1>9, <1>10 DEF SlicedInv

\* What run writes from the slicer on is not the remembered file.
LEMMA RememberedKept ==
    ASSUME PlaceInv, PlaceInv', SlicedInv, caller' = "run", Place' \in ToSlicing \cup Again,
           nonsliced' = nonsliced,
           \A n \in DOMAIN files' : n = curfile' \/ (n \in DOMAIN files /\ files'[n] = files[n])
    PROVE  ~IsSliced(files'[nonsliced'])
<1>1. IsBeyond'
  BY Beyond, PTL
<1>2. curfile' # nonsliced' /\ nonsliced' \in DOMAIN files'
  BY <1>1 DEF IsBeyond, PlaceInv, TypeOK
<1>3. QED
  BY <1>2 DEF SlicedInv, NoneSliced

LEMMA SliceKeeps ==
    ASSUME PlaceInv, PlaceInv', SlicedInv, Slice \/ GiveUpSlicing PROVE SlicedInv'
<1>1. /\ pc = "slice" /\ pc' = AfterRound
      /\ UNCHANGED <<conf, caller, nonsliced, handed>>
  BY DEF Slice, GiveUpSlicing, options, control, results
<1>2. /\ caller = "run" /\ caller' = "run" /\ Place' = pc'
      /\ pc' \in {"slice again", "actions after slicing"}
  BY <1>1, Callers DEF Place, ToSlicing, AfterRound
<1>3. Place' \in ToSlicing \cup Again /\ Place' \notin Early
  BY <1>2 DEF ToSlicing, Again, Early
<1>4. \A n \in DOMAIN files' : n = curfile' \/ (n \in DOMAIN files /\ files'[n] = files[n])
  BY DEF Slice, GiveUpSlicing, Write
<1>5. NoneSliced'
  BY <1>1, <1>2, <1>3, <1>4, RememberedKept DEF NoneSliced
<1>6. conf.repeatSlicing = 1 => noslice' = ~IsSliced(Current)'
  <2>1. SUFFICES ASSUME conf.repeatSlicing = 1 PROVE noslice' = ~IsSliced(Current)'
    OBVIOUS
  <2>2. ~noslice /\ ~IsSliced(Current)
    BY <1>1, <2>1 DEF SlicedInv, FlagFits
  <2>3. CASE Slice
    <3>1. "slice" \in Done
      BY DEF Done
    <3>2. Current' = [Current EXCEPT !.steps = Append(@, "slice")]
      BY <2>3 DEF Slice, Write, Current
    <3>3. Current' .steps = Append(Current.steps, "slice") /\ Current.steps \in Seq(Done)
      BY <3>2, CurrentType DEF PlaceInv, Linkable, Bitcode
    <3>4. IsSliced(Current)'
      BY <3>1, <3>3, SlicedByAppend DEF IsSliced
    <3>5. ~noslice'
      BY <2>2, <2>3 DEF Slice, options
    <3>6. noslice' \in BOOLEAN
      BY DEF PlaceInv, TypeOK
    <3>7. QED
      BY <3>4, <3>5, <3>6
  <2>4. CASE GiveUpSlicing
    <3>1. noslice' = TRUE /\ Current' = Current
      BY <2>4 DEF GiveUpSlicing, Current
    <3>2. QED
      BY <2>2, <3>1 DEF IsSliced
  <2>5. QED
    BY <2>3, <2>4
<1>7. conf.repeatSlicing # 0 /\ (conf.repeatSlicing = 1 => pc' = "actions after slicing")
  <2>1. conf.repeatSlicing # 0
    BY <1>1 DEF SlicedInv, FlagFits
  <2>2. conf.repeatSlicing = 1 => AfterRound = "actions after slicing"
    BY DEF AfterRound
  <2>3. QED
    BY <1>1, <2>1, <2>2
<1>8. FlagFits'
  BY <1>1, <1>2, <1>6, <1>7 DEF FlagFits
<1>9. QED
  BY <1>2, <1>5, <1>8 DEF SlicedInv, Handed

LEMMA SliceAgainKeeps ==
    ASSUME PlaceInv, PlaceInv', SlicedInv, SliceAgain PROVE SlicedInv'
<1>1. /\ pc = "slice again" /\ pc' \in {"slice", "actions after slicing"}
      /\ UNCHANGED <<conf, caller, nonsliced, handed>>
  BY DEF SliceAgain, options, results
<1>2. caller = "run" /\ caller' = "run" /\ Place' = pc'
  BY <1>1, Callers DEF Place, ToSlicing
<1>3. Place' \in ToSlicing \cup Again /\ Place' \notin Early
  BY <1>1, <1>2 DEF ToSlicing, Again, Early
<1>4. \A n \in DOMAIN files' : n = curfile' \/ (n \in DOMAIN files /\ files'[n] = files[n])
  <2>1. PICK passes \in Seq(Passes) : Optimize(passes)
    <3>1. <<"remove-infinite-loops">> \in Seq(Passes)
      BY OnePass DEF Passes
    <3>2. After \o <<"remove-infinite-loops">> \in Seq(Passes)
      BY <3>1, OptimizationsAreLists, MorePasses
    <3>3. QED
      BY <3>2 DEF SliceAgain
  <2>2. QED
    BY <2>1, OptimizeAlike DEF PlaceInv, Alike
<1>5. NoneSliced'
  BY <1>1, <1>2, <1>3, <1>4, RememberedKept DEF NoneSliced
<1>6. conf'.repeatSlicing \notin {0, 1}
  BY <1>1 DEF SlicedInv, FlagFits
<1>7. QED
  BY <1>1, <1>2, <1>5, <1>6 DEF SlicedInv, FlagFits, Handed

\* The steps at the border between run and the driver.
LEMMA BorderKeeps ==
    ASSUME PlaceInv, SlicedInv,
           HandOver \/ PrepareUnsliced \/ ReturnUnsliced \/ DriverUnslices
    PROVE  SlicedInv'
<1> USE DEF Step, options, control, results
<1>1. CASE HandOver
  <2>1. /\ pc = "finish" /\ caller = "run" /\ pc' = "handed" /\ handed' = curfile
        /\ UNCHANGED <<conf, caller, nonsliced, files>>
    BY <1>1 DEF HandOver
  <2>2. handed' # NoFile
    BY <2>1, Beyond DEF IsBeyond, Place, Again
  <2>3. Place' = "handed"
    BY <2>1 DEF Place
  <2>4. QED
    BY <2>1, <2>2, <2>3 DEF SlicedInv, NoneSliced, FlagFits, Handed, Early, Again
<1>2. CASE PrepareUnsliced
  <2>1. /\ pc = "handed" /\ pc' = "actions after slicing" /\ caller' = "prepare"
        /\ curfile' = nonsliced /\ UNCHANGED <<conf, nonsliced, handed, files>>
    BY <1>2 DEF PrepareUnsliced
  <2>2. Place' = "actions after slicing"
    BY <2>1 DEF Place
  <2>3. ~IsSliced(Current)'
    BY <2>1 DEF SlicedInv, NoneSliced, Current
  <2>4. QED
    BY <2>1, <2>2, <2>3 DEF SlicedInv, NoneSliced, FlagFits, Handed, Early, Again
<1>3. CASE ReturnUnsliced
  <2>1. /\ caller = "prepare" /\ pc' = "handed" /\ UNCHANGED <<conf, caller, nonsliced, handed, files>>
    BY <1>3 DEF ReturnUnsliced
  <2>2. Place' = "handed"
    BY <2>1 DEF Place
  <2>3. QED
    BY <2>1, <2>2 DEF SlicedInv, NoneSliced, FlagFits, Handed, Early, Again
<1>4. CASE DriverUnslices
  <2>1. /\ pc = "handed" /\ pc' = "handed" /\ UNCHANGED <<conf, caller, nonsliced, handed, files>>
    BY <1>4 DEF DriverUnslices
  <2>2. Place' = "handed"
    BY <2>1 DEF Place
  <2>3. QED
    BY <2>1, <2>2 DEF SlicedInv, NoneSliced, FlagFits, Handed, Early, Again
<1>5. QED
  BY <1>1, <1>2, <1>3, <1>4

\* The steps that neither slice nor start with slicing.
Plain ==
    \/ Raise \/ ActionsAfterCompilation \/ LinkRound \/ Unroll
    \/ PrepareForInstrumentation \/ AfterInstrumentation \/ BeforeSlicingPasses
    \/ LinkUnconditional \/ NothingToInstrument \/ Instrument
    \/ ProvedByInstrumentation \/ GiveUpInstrumentation \/ OptimizeBeforeSlicing
    \/ ActionsBeforeSlicing \/ LinkBeforeSlicing \/ LinkAtexit \/ ExplicitConsdes
    \/ NoCriterion \/ ActionsAfterSlicing \/ AfterSlicingPasses \/ LinkRest
    \/ OptimizeAfterSlicing

LEMMA PlainSteps ==
    ASSUME PlaceInv, Plain PROVE EarlyStep \/ LateStep \/ FailStep
<1> USE DEF Step, options, control, results, Early, Again, Place
<1> USE DEF EarlyStep, LateStep, FailStep
<1> USE DEF PlaceInv
<1>1. CASE Raise
  BY <1>1 DEF Raise
<1>2. CASE ActionsAfterCompilation
  BY <1>2, NothingWritten DEF ActionsAfterCompilation, LinkUndefined
<1>3. CASE LinkRound
  <2>1. goal \in [only : SUBSET Functions, then : Steps]
    BY DEF PlaceInv, TypeOK
  <2>2. Place' = Place /\ Place \in AfterLinking
    BY <1>3, <2>1 DEF LinkRound, PlaceInv, Linking
  <2>3. Alike
    BY <1>3, DefinitionsAlike, NothingWritten DEF LinkRound, PlaceInv
  <2>4. Place \in Early \cup Again
    BY <2>2 DEF AfterLinking
  <2>5. UNCHANGED <<conf, noslice, caller, nonsliced, handed>>
    BY <1>3 DEF LinkRound
  <2>6. QED
    BY <2>2, <2>3, <2>4, <2>5
<1>4. CASE Unroll
  BY <1>4, UnrollIsList, RunOptAlike DEF Unroll
<1>5. CASE PrepareForInstrumentation
  BY <1>5, PreparationIsList, RunOptAlike DEF PrepareForInstrumentation
<1>6. CASE AfterInstrumentation
  BY <1>6, MarkingIsList, RunOptAlike DEF AfterInstrumentation
<1>7. CASE BeforeSlicingPasses
  BY <1>7, BeforeSlicingIsList, RunOptAlike DEF BeforeSlicingPasses
<1>8. CASE LinkUnconditional
  <2>1. /\ pc = "link files" /\ pc' \in {"prepare", "raised"} /\ (pc' = "raised" => files' = files)
        /\ UNCHANGED <<conf, caller, nonsliced, handed>>
    BY <1>8 DEF LinkUnconditional
  <2>2. Alike
    BY <1>8, DefinitionsAlike, NothingWritten DEF LinkUnconditional
  <2>3. QED
    BY <2>1, <2>2
<1>9. CASE NothingToInstrument
  BY <1>9, NothingWritten DEF NothingToInstrument
<1>10. CASE Instrument
  BY <1>10, WriteAlike, CurrentType, WithChecksSliced DEF Instrument
<1>11. CASE ProvedByInstrumentation
  BY <1>11 DEF ProvedByInstrumentation
<1>12. CASE GiveUpInstrumentation
  BY <1>12, NothingWritten DEF GiveUpInstrumentation
<1>13. CASE OptimizeBeforeSlicing
  <2>1. Before \o ForSlicing \in Seq(Passes)
    BY OptimizationsAreLists, ForSlicingIsList, MorePasses
  <2>2. Alike
    BY <1>13, <2>1, OptimizeAlike DEF OptimizeBeforeSlicing
  <2>3. QED
    BY <1>13, <2>2 DEF OptimizeBeforeSlicing
<1>14. CASE ActionsBeforeSlicing
  BY <1>14, NothingWritten DEF ActionsBeforeSlicing, LinkUndefined
<1>15. CASE LinkBeforeSlicing
  BY <1>15, NothingWritten DEF LinkBeforeSlicing, LinkUndefined
<1>16. CASE LinkAtexit
  BY <1>16, NothingWritten DEF LinkAtexit, LinkUndefined
<1>17. CASE ExplicitConsdes
  <2>1. <<"explicit-consdes">> \in Seq(Passes)
    BY OnePass DEF Passes
  <2>2. Alike
    BY <1>17, <2>1, RunOptAlike DEF ExplicitConsdes
  <2>3. QED
    BY <1>17, <2>2 DEF ExplicitConsdes
<1>18. CASE NoCriterion
  BY <1>18 DEF NoCriterion
<1>19. CASE ActionsAfterSlicing
  BY <1>19, SlicedUnrollIsList, RunOptAlike DEF ActionsAfterSlicing
<1>20. CASE AfterSlicingPasses
  BY <1>20, AfterSlicingIsList, RunOptAlike DEF AfterSlicingPasses
<1>21. CASE LinkRest
  BY <1>21, NothingWritten DEF LinkRest, LinkUndefined
<1>22. CASE OptimizeAfterSlicing
  BY <1>22, OptimizationsAreLists, OptimizeAlike DEF OptimizeAfterSlicing
<1>23. QED
  BY <1>1, <1>2, <1>3, <1>4, <1>5, <1>6, <1>7, <1>8, <1>9, <1>10, <1>11, <1>12, <1>13, <1>14, <1>15, <1>16, <1>17, <1>18, <1>19, <1>20, <1>21, <1>22 DEF Plain

LEMMA StepSliced == PlaceInv /\ SlicedInv /\ [Next]_vars => SlicedInv'
<1> SUFFICES ASSUME PlaceInv, SlicedInv, [Next]_vars PROVE SlicedInv'
  OBVIOUS
<1>0. PlaceInv'
  BY StepPlace
<1>1. CASE Plain
  BY <1>0, <1>1, PlainSteps, EarlyKeeps, LateKeeps, FailKeeps
<1>2. CASE CompileSources
  BY <1>2, CompileKeeps
<1>3. CASE NoSlicing \/ StartSlicing
  BY <1>3, UnslicedKeeps
<1>4. CASE Slice \/ GiveUpSlicing
  BY <1>0, <1>4, SliceKeeps
<1>5. CASE SliceAgain
  BY <1>0, <1>5, SliceAgainKeeps
<1>6. CASE HandOver \/ PrepareUnsliced \/ ReturnUnsliced \/ DriverUnslices
  BY <1>6, BorderKeeps
<1>7. CASE UNCHANGED vars
  <2>1. UNCHANGED <<conf, noslice, pc, caller, goal, files, curfile, nonsliced, handed>>
    BY <1>7 DEF vars, options, control, results
  <2>2. Place' = Place /\ Current' = Current
    BY <2>1 DEF Place, Current
  <2>3. NoneSliced' /\ Handed'
    BY <2>1, <2>2 DEF SlicedInv, NoneSliced, Handed, IsSliced
  <2>4. FlagFits'
    BY <2>1, <2>2 DEF SlicedInv, FlagFits, IsSliced
  <2>5. QED
    BY <2>3, <2>4 DEF SlicedInv
<1>8. QED
  BY <1>1, <1>2, <1>3, <1>4, <1>5, <1>6, <1>7 DEF Next, Work, Plain

LEMMA SlicedCorrect == Spec => []SlicedInv
<1>1. Init => SlicedInv
  <2>1. SUFFICES ASSUME Init PROVE SlicedInv
    OBVIOUS
  <2>2. files[NoFile].steps = <<>> /\ DOMAIN files = {NoFile}
    BY <2>1 DEF Init
  <2>3. \A n \in DOMAIN files : ~IsSliced(files[n])
    BY <2>2 DEF IsSliced, Has
  <2>4. NoneSliced /\ FlagFits /\ Handed
    BY <2>1, <2>2, <2>3 DEF Init, NoneSliced, FlagFits, Handed, Place, Again
  <2>5. QED
    BY <2>4 DEF SlicedInv
<1>2. QED
  BY <1>1, StepSliced, PlaceCorrect, PTL DEF Spec

(***************************************************************************)
(* Without repeated slicing, options.noslice tells the driver whether the  *)
(* bitcode that run hands over was sliced, whatever failed on the way      *)
(* (transform.py:367, 545, 621).                                           *)
(***************************************************************************)
THEOREM FlagIsReliable == Spec => []FlagTellsSlicing
<1>1. SlicedInv => FlagTellsSlicing
  BY DEF SlicedInv, FlagFits, FlagTellsSlicing, Finished, Place, Again
<1>2. QED
  BY <1>1, SlicedCorrect, PTL

----------------------------------------------------------------------------
(***************************************************************************)
(* The refinement of Compiler.                                             *)
(***************************************************************************)
Status    == IF pc \in Rest THEN pc ELSE "working"
Forbidden == noslice /\ conf.repeatSlicing <= 1
Result    == IF handed = NoFile THEN <<>> ELSE <<Summary(files[handed])>>

Summaries(bs) == [i \in DOMAIN bs |-> Summary(bs[i])]

\* A call runs until it is done, fails, or the property is proved.  Meanwhile,
\* and by the driver, slicing can only be forbidden.
Goes ==
    /\ pc \in Rest => pc' = pc
    /\ pc \notin Rest /\ pc' \in Rest => pc' = "raised" \/ ProvedByInstrumentation
    /\ \/ noslice' = noslice
       \/ noslice' = TRUE /\ pc' \notin {"raised", "proved"}

LEMMA HowItGoes ==
    ASSUME TypeOK, Next, ~HandOver, ~PrepareUnsliced, ~ReturnUnsliced PROVE Goes
<1> USE DEF Goes, Rest, Step, options, control, results
<1>1. CASE Raise
  BY <1>1 DEF Raise
<1>2. CASE CompileSources
  BY <1>2 DEF CompileSources
<1>3. CASE ActionsAfterCompilation
  BY <1>3 DEF ActionsAfterCompilation, LinkUndefined
<1>4. CASE Unroll
  BY <1>4 DEF Unroll
<1>5. CASE LinkUnconditional
  BY <1>5 DEF LinkUnconditional
<1>6. CASE PrepareForInstrumentation
  BY <1>6 DEF PrepareForInstrumentation
<1>7. CASE NothingToInstrument
  BY <1>7 DEF NothingToInstrument
<1>8. CASE Instrument
  BY <1>8 DEF Instrument
<1>9. CASE ProvedByInstrumentation
  BY <1>9 DEF ProvedByInstrumentation
<1>10. CASE GiveUpInstrumentation
  BY <1>10 DEF GiveUpInstrumentation
<1>11. CASE AfterInstrumentation
  BY <1>11 DEF AfterInstrumentation
<1>12. CASE OptimizeBeforeSlicing
  BY <1>12 DEF OptimizeBeforeSlicing
<1>13. CASE ActionsBeforeSlicing
  BY <1>13 DEF ActionsBeforeSlicing, LinkUndefined
<1>14. CASE LinkBeforeSlicing
  BY <1>14 DEF LinkBeforeSlicing, LinkUndefined
<1>15. CASE BeforeSlicingPasses
  BY <1>15 DEF BeforeSlicingPasses
<1>16. CASE LinkAtexit
  BY <1>16 DEF LinkAtexit, LinkUndefined
<1>17. CASE ExplicitConsdes
  BY <1>17 DEF ExplicitConsdes
<1>18. CASE NoSlicing
  BY <1>18 DEF NoSlicing
<1>19. CASE StartSlicing
  BY <1>19 DEF StartSlicing
<1>20. CASE NoCriterion
  BY <1>20 DEF NoCriterion
<1>21. CASE Slice
  BY <1>21 DEF Slice, AfterRound
<1>22. CASE GiveUpSlicing
  BY <1>22 DEF GiveUpSlicing, AfterRound
<1>23. CASE SliceAgain
  BY <1>23 DEF SliceAgain
<1>24. CASE ActionsAfterSlicing
  BY <1>24 DEF ActionsAfterSlicing
<1>25. CASE AfterSlicingPasses
  BY <1>25 DEF AfterSlicingPasses
<1>26. CASE LinkRest
  BY <1>26 DEF LinkRest, LinkUndefined
<1>27. CASE OptimizeAfterSlicing
  BY <1>27 DEF OptimizeAfterSlicing
<1>28. CASE DriverUnslices
  BY <1>28 DEF DriverUnslices
<1>29. CASE LinkRound
  <2>1. goal.then \in Steps
    BY DEF TypeOK
  <2>2. pc = "link" /\ pc' \in {"link", goal.then} /\ noslice' = noslice
    BY <1>29 DEF LinkRound
  <2>3. QED
    BY <2>1, <2>2 DEF Steps
<1>30. QED
  BY <1>1, <1>2, <1>3, <1>4, <1>5, <1>6, <1>7, <1>8, <1>9, <1>10, <1>11, <1>12, <1>13, <1>14, <1>15, <1>16, <1>17, <1>18, <1>19, <1>20, <1>21, <1>22, <1>23, <1>24, <1>25, <1>26, <1>27, <1>28, <1>29 DEF Next, Work

\* One more summary.
LEMMA SummariesGrow ==
    ASSUME NEW s \in Seq(Bitcode), NEW b \in Bitcode
    PROVE  LET t == Summaries(Append(s, b)) IN
           /\ Len(t) = Len(Summaries(s)) + 1
           /\ Summaries(s) = [i \in DOMAIN Summaries(s) |-> t[i]]
           /\ t[Len(t)] = Summary(b)
<1> DEFINE a == Append(s, b)
           t == Summaries(a)
<1>1. a \in Seq(Bitcode) /\ Len(a) = Len(s) + 1 /\ a[Len(s) + 1] = b
      /\ \A i \in 1..Len(s) : a[i] = s[i]
  OBVIOUS
<1>2. Len(s) \in Nat /\ DOMAIN s = 1..Len(s) /\ DOMAIN a = 1..(Len(s) + 1)
  BY <1>1
<1> HIDE DEF a
<1>3. /\ DOMAIN t = 1..(Len(s) + 1) /\ DOMAIN Summaries(s) = 1..Len(s)
      /\ \A i \in 1..(Len(s) + 1) : t[i] = Summary(a[i])
      /\ \A i \in 1..Len(s) : Summaries(s)[i] = Summary(s[i])
  BY <1>2 DEF Summaries
<1>4. Len(t) = Len(s) + 1 /\ Len(Summaries(s)) = Len(s)
  BY <1>2 DEF Summaries
<1>5. Summaries(s) = [i \in DOMAIN Summaries(s) |-> t[i]]
  <2>1. Summaries(s) = [i \in 1..Len(s) |-> Summary(s[i])]
    BY <1>2 DEF Summaries
  <2>2. \A i \in 1..Len(s) : i \in 1..(Len(s) + 1) /\ t[i] = Summary(s[i])
    BY <1>1, <1>2, <1>3
  <2>3. QED
    BY <1>3, <2>1, <2>2
<1>6. t[Len(t)] = Summary(b)
  BY <1>1, <1>2, <1>3, <1>4
<1>7. QED
  BY <1>4, <1>5, <1>6 DEF a

All == PlaceInv /\ LinkedInv /\ SlicedInv

LEMMA AllCorrect == Spec => []All
<1>1. Init => LinkedInv
  BY DEF Init, LinkedInv
<1>2. QED
  BY <1>1, StepLinked, PlaceCorrect, SlicedCorrect, PTL DEF Spec, All

LEMMA SameResult == ASSUME All, [Next]_vars, handed' = handed PROVE Result' = Result
<1>1. Available' = Available /\ (handed # NoFile => files'[handed] = files[handed])
  BY ConfIsKept, StepKeepsHanded DEF All, Available
<1>2. QED
  BY <1>1 DEF Result, Summary, IsSliced, Has

LEMMA SameSummaries == ASSUME [Next]_vars, prepared' = prepared
                       PROVE  Summaries(prepared)' = Summaries(prepared)
<1>1. Available' = Available
  BY ConfIsKept DEF Available
<1>2. QED
  BY <1>1 DEF Summaries, Summary, IsSliced, Has

LEMMA Contracted ==
    /\ Contract!vars = <<Status, Forbidden, Result, Summaries(prepared)>>
    /\ Contract!vars' = <<Status', Forbidden', Result', Summaries(prepared)'>>
BY DEF Contract!vars, Status, Forbidden, Result, Summaries

(***************************************************************************)
(* What each step of the pipeline is in the contract.                      *)
(***************************************************************************)
LEMMA HandOverInContract == ASSUME All, Next, HandOver PROVE Contract!HandOver
<1>1. /\ pc = "finish" /\ pc' = "handed" /\ caller = "run" /\ handed' = curfile
      /\ UNCHANGED <<conf, noslice, files, prepared>>
  BY DEF HandOver, Step, options
<1>2. Status = "working" /\ Status' = "handed"
  BY <1>1 DEF Status, Rest
<1>3. handed = NoFile
  BY <1>1 DEF All, PlaceInv, Linking, Rest
<1>4. Result = <<>>
  BY <1>3 DEF Result
<1>5. curfile # NoFile
  BY <1>1, Beyond DEF All, IsBeyond, Place, Again
<1>6. Available' = Available
  BY <1>1 DEF Available
<1>7. Result' = <<Summary(Current)>>
  BY <1>1, <1>5, <1>6 DEF Result, Summary, IsSliced, Has, Current
<1>8. Summary(Current).missing = {}
  BY <1>1 DEF All, LinkedInv, IsLinked, Summary
<1>9. Forbidden => ~Summary(Current).sliced
  <2>1. SUFFICES ASSUME Forbidden PROVE ~IsSliced(Current)
    BY DEF Summary
  <2>2. conf.repeatSlicing \in Nat
    BY DEF All, PlaceInv, TypeOK, Configuration
  <2>3. conf.repeatSlicing = 0 \/ conf.repeatSlicing = 1
    BY <2>1, <2>2 DEF Forbidden
  <2>4. Place \in Again
    BY <1>1 DEF Place, Again
  <2>5. noslice
    BY <2>1 DEF Forbidden
  <2>6. QED
    BY <1>1, <2>3, <2>4, <2>5 DEF All, SlicedInv, FlagFits
<1>10. Len(Result') = 1 /\ Result'[1] = Summary(Current)
  BY <1>7
<1>11. Summaries(prepared)' = Summaries(prepared) /\ Forbidden' = Forbidden
  BY <1>1, SameSummaries DEF Forbidden
<1>12. QED
  BY <1>2, <1>4, <1>8, <1>9, <1>10, <1>11
     DEF Contract!HandOver, Contract!Complete, Status, Forbidden, Result, Summaries

LEMMA CallInContract == ASSUME All, Next, PrepareUnsliced PROVE Contract!Call
<1>1. /\ pc = "handed" /\ pc' = "actions after slicing"
      /\ UNCHANGED <<conf, noslice, handed, prepared>>
  BY DEF PrepareUnsliced, Step, options, results
<1>2. Status = "handed" /\ Status' = "working"
  BY <1>1 DEF Status, Rest
<1>3. Forbidden' = Forbidden /\ Result' = Result /\ Summaries(prepared)' = Summaries(prepared)
  BY <1>1, SameResult, SameSummaries DEF Forbidden
<1>4. QED
  BY <1>2, <1>3 DEF Contract!Call, Status, Forbidden, Result, Summaries

LEMMA GiveInContract == ASSUME All, Next, ReturnUnsliced PROVE Contract!Give
<1>1. /\ pc = "finish" /\ pc' = "handed" /\ caller = "prepare"
      /\ prepared' = Append(prepared, Current)
      /\ UNCHANGED <<conf, noslice, handed>>
  BY DEF ReturnUnsliced, Step, options
<1>2. Status = "working" /\ Status' = "handed"
  BY <1>1 DEF Status, Rest
<1>3. Result # <<>>
  BY <1>1 DEF All, SlicedInv, Handed, Result
<1>4. Forbidden' = Forbidden /\ Result' = Result
  BY <1>1, SameResult DEF Forbidden
<1>5. Available' = Available
  BY <1>1 DEF Available
<1>6. Summaries(prepared)' = Summaries(Append(prepared, Current))
  BY <1>1, <1>5 DEF Summaries, Summary, IsSliced, Has
<1>7. prepared \in Seq(Bitcode) /\ Current \in Bitcode
  BY CurrentType DEF All, PlaceInv, TypeOK, Linkable
<1>8. Summary(Current).missing = {}
  BY <1>1 DEF All, LinkedInv, IsLinked, Summary
<1>9. ~Summary(Current).sliced
  BY <1>1 DEF All, SlicedInv, NoneSliced, Place, Again, Summary
<1> DEFINE new == Summaries(prepared)'
<1>10. /\ Len(new) = Len(Summaries(prepared)) + 1
       /\ Summaries(prepared) = [i \in DOMAIN Summaries(prepared) |-> new[i]]
       /\ new[Len(new)] = Summary(Current)
  BY <1>6, <1>7, SummariesGrow
<1>11. Contract!Complete(new[Len(new)]) /\ ~new[Len(new)].sliced
  BY <1>8, <1>9, <1>10 DEF Contract!Complete
<1>12. QED
  BY <1>2, <1>3, <1>4, <1>10, <1>11 DEF Contract!Give, Status, Forbidden, Result, Summaries

LEMMA OtherInContract ==
    ASSUME All, Next, ~HandOver, ~PrepareUnsliced, ~ReturnUnsliced
    PROVE  [Contract!Next]_(Contract!vars)
<1>1. Goes
  BY HowItGoes DEF All, PlaceInv
<1>2. UNCHANGED <<handed, prepared>> /\ conf' = conf
  BY ResultsAreKept, ConfIsKept
<1>3. Result' = Result /\ Summaries(prepared)' = Summaries(prepared)
  BY <1>2, SameResult, SameSummaries
<1>4. noslice \in BOOLEAN /\ noslice' \in BOOLEAN /\ pc \in Rest \cup Steps
  BY StepType DEF All, PlaceInv, TypeOK
<1>5. CASE noslice' # noslice
  <2>1. noslice' = TRUE /\ noslice = FALSE /\ pc' \notin {"raised", "proved"}
    BY <1>1, <1>4, <1>5 DEF Goes
  <2>2. Status' = Status /\ Status \in {"working", "handed"}
    <3>1. CASE pc \in Rest
      BY <1>1, <2>1, <3>1 DEF Goes, Status, Rest
    <3>2. CASE pc \notin Rest
      <4>1. ~ProvedByInstrumentation
        BY <2>1 DEF ProvedByInstrumentation, Step
      <4>2. pc' \notin Rest
        BY <1>1, <2>1, <3>2, <4>1 DEF Goes
      <4>3. QED
        BY <3>2, <4>2 DEF Status
    <3>3. QED
      BY <3>1, <3>2
  <2>3. CASE conf.repeatSlicing <= 1
    <3>1. ~Forbidden /\ Forbidden'
      BY <1>2, <2>1, <2>3 DEF Forbidden
    <3>2. Contract!Forbid
      BY <1>3, <2>2, <3>1 DEF Contract!Forbid, Status, Forbidden, Result, Summaries
    <3>3. QED
      BY <3>2 DEF Contract!Next
  <2>4. CASE ~(conf.repeatSlicing <= 1)
    <3>1. Forbidden' = Forbidden
      BY <1>2, <2>4 DEF Forbidden
    <3>2. QED
      BY <1>3, <2>2, <3>1, Contracted
  <2>5. QED
    BY <2>3, <2>4
<1>6. CASE noslice' = noslice
  <2>1. Forbidden' = Forbidden
    BY <1>2, <1>6 DEF Forbidden
  <2>2. CASE Status' = Status
    BY <1>3, <2>1, <2>2, Contracted
  <2>3. CASE Status' # Status
    <3>1. pc \notin Rest /\ Status = "working" /\ pc' \in Rest /\ Status' = pc'
      BY <1>1, <2>3 DEF Goes, Status
    <3>2. CASE pc' = "raised"
      <4>1. Contract!Fail
        BY <1>3, <2>1, <3>1, <3>2 DEF Contract!Fail, Status, Forbidden, Result, Summaries
      <4>2. QED
        BY <4>1 DEF Contract!Next
    <3>3. CASE ProvedByInstrumentation
      <4>1. pc = "instrument" /\ pc' = "proved"
        BY <3>3 DEF ProvedByInstrumentation, Step
      <4>2. caller = "run"
        BY <4>1, Callers DEF All, Place, Early
      <4>3. Result = <<>>
        BY <3>1, <4>2 DEF All, PlaceInv, Linking, Result
      <4>4. Contract!Prove
        BY <1>3, <2>1, <3>1, <4>1, <4>3
           DEF Contract!Prove, Status, Forbidden, Result, Summaries
      <4>5. QED
        BY <4>4 DEF Contract!Next
    <3>4. QED
      BY <1>1, <3>1, <3>2, <3>3 DEF Goes
  <2>4. QED
    BY <2>2, <2>3
<1>7. QED
  BY <1>5, <1>6

(***************************************************************************)
(* The pipeline implements Compiler: however steps fail, one bitcode is    *)
(* handed over, complete and not sliced if that was forbidden, it is kept, *)
(* and each later unsliced file is complete and not sliced                 *)
(* (transform.py:734-919 and 675-690).                                     *)
(***************************************************************************)
THEOREM Refinement == Spec => KeepsContract
<1>1. Init => Contract!Init
  <2> SUFFICES ASSUME Init PROVE Contract!Init
    OBVIOUS
  <2>1. Status = "working" /\ Result = <<>>
    BY DEF Init, Status, Rest, Result
  <2>2. Forbidden \in BOOLEAN
    BY DEF Forbidden
  <2>3. Summaries(prepared) = <<>>
    BY DEF Init, Summaries
  <2>4. QED
    BY <2>1, <2>2, <2>3 DEF Contract!Init, Status, Forbidden, Result, Summaries
<1>2. All /\ [Next]_vars => [Contract!Next]_(Contract!vars)
  <2> SUFFICES ASSUME All, [Next]_vars PROVE [Contract!Next]_(Contract!vars)
    OBVIOUS
  <2>1. CASE Next /\ HandOver
    BY <2>1, HandOverInContract DEF Contract!Next
  <2>2. CASE Next /\ PrepareUnsliced
    BY <2>2, CallInContract DEF Contract!Next
  <2>3. CASE Next /\ ReturnUnsliced
    BY <2>3, GiveInContract DEF Contract!Next
  <2>4. CASE Next /\ ~HandOver /\ ~PrepareUnsliced /\ ~ReturnUnsliced
    BY <2>4, OtherInContract
  <2>5. CASE UNCHANGED vars
    <3>1. UNCHANGED <<conf, noslice, pc, handed, prepared>>
      BY <2>5 DEF vars, options, results
    <3>2. Result' = Result /\ Summaries(prepared)' = Summaries(prepared)
      BY <3>1, SameResult, SameSummaries
    <3>3. Status' = Status /\ Forbidden' = Forbidden
      BY <3>1 DEF Status, Forbidden
    <3>4. QED
      BY <3>2, <3>3, Contracted
  <2>6. QED
    BY <2>1, <2>2, <2>3, <2>4, <2>5
<1>3. QED
  BY <1>1, <1>2, AllCorrect, PTL DEF Spec, KeepsContract, Contract!Spec

=============================================================================
