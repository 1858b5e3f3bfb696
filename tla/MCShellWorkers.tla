---------------------------- MODULE MCShellWorkers --------------------------
(* A worker with a radio, of which the user asks two things more.          *)
EXTENDS ShellWorkers

CONSTANT wifi

InOrder == <<wifi>>
TwoMore == [w \in Worker |-> 2]
=============================================================================
