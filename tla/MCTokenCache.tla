---------------------------- MODULE MCTokenCache ----------------------------
(***************************************************************************)
(* A small instance of TokenCache: three attempts, of one call's retries   *)
(* or of several calls, and so up to six token requests.                   *)
(***************************************************************************)
EXTENDS TokenCache
=============================================================================
