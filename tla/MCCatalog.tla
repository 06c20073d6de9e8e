------------------------------ MODULE MCCatalog ------------------------------
(* The abstract catalogue with two contents.                                  *)
EXTENDS Catalog

CONSTANTS a, b
=============================================================================
