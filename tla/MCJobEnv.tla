------------------------------ MODULE MCJobEnv ------------------------------
(* TLC instances of JobEnv. *)
EXTENDS JobEnv, TLC

Shell(active, plug, dumpDir, other) ==
  [active |-> active, enabled |-> "unset", plug |-> plug, flag |-> FALSE,
   nccl |-> ("dumpDir" :> dumpDir @@ "other" :> other)]

\* Nothing set but the activation; all settings in SNCCLIPRECON_* variables;
\* the dump directory, the others, or a dump directory too long set by the user;
\* a shell that has not opted in.
Shells ==
  {Shell(TRUE, {}, None, None), Shell(TRUE, Vars, None, None),
   Shell(TRUE, {}, Short, None), Shell(TRUE, {}, None, Short),
   Shell(TRUE, {}, Long, None), Shell(FALSE, {}, None, None)}

PlainShell == {Shell(TRUE, {}, None, None)}

Given(enabled, given) == [enabled |-> enabled, given |-> given]

CommandLines == {Given("unset", {}), Given("unset", Vars), Given("0", {})}

\* Steps only occur in equality tests.
StepSymmetry == Permutations(Steps)
=============================================================================
