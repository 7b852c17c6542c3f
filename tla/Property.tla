------------------------------ MODULE Property ------------------------------
(***************************************************************************)
(* What Symbiotic looks for: the classes of property.py and get_property,  *)
(* which makes one property out of the argument of --prp.  A line of a     *)
(* property file is a record: a keyword, a formula of the table of         *)
(* formulas, or a formula over the calls of one function.                  *)
(***************************************************************************)
EXTENDS Naturals, FiniteSets, Sequences, TLC

\* The classes, named by the predicate that they answer with True.
Kinds == {"assertions", "unreachcall", "memsafety", "memcleanup", "nullderef",
          "signedoverflow", "undefinedness", "termination", "coverBranches",
          "coverConditions", "coverStmts", "errorcall"}

Line(form, arg) == [form |-> form, arg |-> arg]

Class(kind, calls) == [kind |-> kind, calls |-> calls]

\* calls of the classes that have some.
DefaultCalls(kind) ==
    CASE kind = "assertions" -> {"__assert_fail", "__VERIFIER_error"}
      [] kind \in {"unreachcall", "errorcall"} -> {"reach_error"}
      [] OTHER -> {}

Default(kind) == Class(kind, DefaultCalls(kind))

\* supported_properties
Keywords ==
    [k \in {"assert", "assertions"} |-> "assertions"] @@
    [k \in {"valid-deref", "valid-free", "valid-memtrack", "memsafety"} |-> "memsafety"] @@
    [k \in {"undefined-behavior", "undef-behavior", "undefined"} |-> "undefinedness"] @@
    [k \in {"signed-overflow", "no-overflow"} |-> "signedoverflow"] @@
    [k \in {"coverage", "cover-statements"} |-> "coverStmts"] @@
    ("null-deref" :> "nullderef") @@ ("memcleanup" :> "memcleanup") @@
    ("termination" :> "termination") @@ ("cover-branches" :> "coverBranches") @@
    ("cover-conditions" :> "coverConditions") @@ ("cover-error" :> "errorcall")

\* supported_ltl_properties, without the two formulas over calls
Formulas ==
    [f \in {"G valid-free", "G valid-deref", "G valid-memtrack"} |-> "memsafety"] @@
    ("G valid-memcleanup" :> "memcleanup") @@ ("G ! overflow" :> "signedoverflow") @@
    ("G def-behavior" :> "undefinedness") @@ ("F end" :> "termination") @@
    ("COVER EDGES(@DECISIONEDGE)" :> "coverBranches") @@
    ("COVER EDGES(@CONDITIONEDGE)" :> "coverConditions") @@
    ("COVER EDGES(@BASICBLOCKENTRY)" :> "coverStmts")

\* The formulas over calls of __VERIFIER_error stand in the table, and what is
\* made of them there does not look at the function; PropertyErrorCall takes
\* the file of the property for the functions.
TabledCalls(l, prpfile) ==
    IF l.form = "G ! call" THEN Class("unreachcall", DefaultCalls("unreachcall"))
    ELSE Class("errorcall", IF prpfile = {} THEN DefaultCalls("errorcall") ELSE prpfile)

\* _get_parametrized_property
ParametrizedCalls(l) ==
    Class(IF l.form = "G ! call" THEN "unreachcall" ELSE "errorcall", {l.arg})

OverCalls == {"G ! call", "COVER EDGES(@CALL)"}

Supported(l) ==
    \/ l.form = "keyword" /\ l.arg \in DOMAIN Keywords
    \/ l.form = "formula" /\ l.arg \in DOMAIN Formulas
    \/ l.form \in OverCalls

PropertyOf(l, prpfile) ==
    CASE l.form = "keyword" -> Default(Keywords[l.arg])
      [] l.form = "formula" -> Default(Formulas[l.arg])
      [] l.form \in OverCalls /\ l.arg = "__VERIFIER_error" -> TabledCalls(l, prpfile)
      [] OTHER -> ParametrizedCalls(l)

\* _merge_memsafety_prop keeps the first one of them.
Merged(props) ==
    LET isFirst(i) == \A j \in 1..(i - 1) : props[j].kind # "memsafety"
    IN  {i \in DOMAIN props : props[i].kind = "memsafety" => isFirst(i)}

\* get_property: the lines of the file prpfile ({} for a keyword).  None of
\* the failures leaves a property to work with.
GetProperty(lines, prpfile) ==
    LET props == [i \in DOMAIN lines |-> PropertyOf(lines[i], prpfile)]
    IN  IF \E i \in DOMAIN lines : ~Supported(lines[i]) THEN Class("unsupported", {})
        ELSE IF Cardinality(Merged(props)) # 1 THEN Class("several", {})
        ELSE props[CHOOSE i \in Merged(props) : TRUE]

=============================================================================
