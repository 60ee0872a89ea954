-------------------------- MODULE MCQueuedRecorder --------------------------
(***************************************************************************)
(* A small instance of QueuedRecorder: four records, one of them larger    *)
(* than the others, so that both the entry budget and the byte budget run  *)
(* out; two attempts instead of four.                                      *)
(***************************************************************************)
EXTENDS QueuedRecorder, TLC

CONSTANTS e1, e2, e3, e4
MCBytes == (e1 :> 1) @@ (e2 :> 1) @@ (e3 :> 1) @@ (e4 :> 3)
=============================================================================
