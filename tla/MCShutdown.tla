----------------------------- MODULE MCShutdown -----------------------------
(* The script's request and a plain one; a script that may make a call. *)
EXTENDS Shutdown
CONSTANTS script, plain, c1

MCRequest == {script, plain}
MCCall == {c1}
=============================================================================
