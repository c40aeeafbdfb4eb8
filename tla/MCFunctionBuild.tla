---------------------------- MODULE MCFunctionBuild ----------------------------
(* The instance of FunctionBuild that TLC checks. *)
EXTENDS FunctionBuild, TLC

CONSTANTS f1, f2

\* Two functions of one archive, and one function under more faults.
MCSettings ==
  {[functions |-> {f1, f2}, env |-> {"slow", "reset"}, faults |-> 1],
   [functions |-> {f1}, env |-> EnvKind, faults |-> 2]}
=============================================================================
