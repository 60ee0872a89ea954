--------------------------- MODULE MCWorkflowRun ---------------------------
(***************************************************************************)
(* Two clients, each with a catalogue request or a run in progress, on two *)
(* natural keys and one workflow whose two steps name both; one of the     *)
(* steps halts, the other continues.                                       *)
(***************************************************************************)
EXTENDS WorkflowRun, TLC

CONSTANTS k1, k2
MCSteps == <<k1, k2>>
MCOnFailures == {<<"halt", "continue">>, <<"continue", "halt">>}
Symmetry == Permutations(Client)
=============================================================================
