------------------------------ MODULE MCCatalog ------------------------------
(***************************************************************************)
(* A small instance of Catalog: two requests at once on two natural keys,   *)
(* one workflow whose two steps name both, two ids and required versions.  *)
(***************************************************************************)
EXTENDS Catalog, TLC

CONSTANTS k1, k2
MCSteps == <<k1, k2>>
Symmetry == Permutations(Client)
=============================================================================
