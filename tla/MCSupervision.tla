--------------------------- MODULE MCSupervision ---------------------------
(* Two commands and two Ctrl-C: a command after one that failed, and a      *)
(* second interrupt while the first is handled.                             *)
EXTENDS Supervision
=============================================================================
