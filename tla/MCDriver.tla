------------------------------ MODULE MCDriver ------------------------------
(* Instances of Driver: options.tool_params with and without parameters.    *)
EXTENDS Driver

NoParams   == {<<>>}
SomeParams == {<<"user">>}
=============================================================================
