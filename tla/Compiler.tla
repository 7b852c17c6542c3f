------------------------------ MODULE Compiler ------------------------------
(***************************************************************************)
(* What the driver relies on when it calls the compiler: run ends by       *)
(* handing over one bitcode, which stays what it is, by an answer or by an *)
(* error; each later call of prepare_unsliced_file gives a bitcode that is *)
(* not sliced; and once slicing is forbidden it is never allowed again.    *)
(* A bitcode is complete if it lacks no function that has a model.         *)
(***************************************************************************)
EXTENDS Naturals, Sequences

VARIABLES
    status,
    forbidden, \* Is slicing forbidden?
    result,    \* What was handed over, at most one bitcode.
    again      \* What prepare_unsliced_file gave.

vars == <<status, forbidden, result, again>>

Complete(b) == b.missing = {}

Init == status = "working" /\ forbidden \in BOOLEAN /\ result = <<>> /\ again = <<>>

\* By the pipeline at work, or by the driver.
Forbid ==
    /\ status \in {"working", "handed"}
    /\ ~forbidden /\ forbidden'
    /\ UNCHANGED <<status, result, again>>

HandOver ==
    /\ status = "working" /\ result = <<>>
    /\ status' = "handed"
    /\ Len(result') = 1
    /\ Complete(result'[1]) /\ (forbidden => ~result'[1].sliced)
    /\ UNCHANGED <<forbidden, again>>

\* The driver calls prepare_unsliced_file, which gives a file.
Call ==
    /\ status = "handed"
    /\ status' = "working"
    /\ UNCHANGED <<forbidden, result, again>>

Give ==
    /\ status = "working" /\ result # <<>>
    /\ status' = "handed"
    /\ Len(again') = Len(again) + 1
    /\ again = [i \in DOMAIN again |-> again'[i]]
    /\ LET b == again'[Len(again')] IN Complete(b) /\ ~b.sliced
    /\ UNCHANGED <<forbidden, result>>

Fail ==
    /\ status = "working"
    /\ status' = "raised"
    /\ UNCHANGED <<forbidden, result, again>>

Prove ==
    /\ status = "working" /\ result = <<>>
    /\ status' = "proved"
    /\ UNCHANGED <<forbidden, result, again>>

Next == Forbid \/ HandOver \/ Call \/ Give \/ Fail \/ Prove

Spec == Init /\ [][Next]_vars

=============================================================================
