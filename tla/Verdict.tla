------------------------------ MODULE Verdict ------------------------------
(***************************************************************************)
(* What one run of Symbiotic promises about its answer.  The program under *)
(* verification has an error or not; the run answers once, and the answer  *)
(* rests on one version of the program: the sliced bitcode, the bitcode    *)
(* before slicing, or one replayed path of it.  A path proves nothing, and *)
(* an error found on more than the sliced bitcode is one of the program.   *)
(* A run that stops at an error of its own has no answer.                  *)
(***************************************************************************)

VARIABLES
    error,   \* Does the program violate its property?
    answer,
    basis

vars == <<error, answer, basis>>

Answers == {"true", "false", "undecided", "stopped"}
Bases   == {"none", "sliced", "unsliced", "path"}

Justified(a, b) ==
    /\ a = "true"  => ~error /\ b # "path"
    /\ a = "false" => (b \in {"unsliced", "path"} => error)

Init == error \in BOOLEAN /\ answer = "none" /\ basis = "none"

Decide ==
    /\ answer = "none"
    /\ answer' \in Answers
    /\ basis' \in Bases
    /\ Justified(answer', basis')
    /\ UNCHANGED error

Spec == Init /\ [][Decide]_vars /\ WF_vars(Decide)

=============================================================================
