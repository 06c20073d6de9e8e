----------------------------- MODULE MCUpdates ------------------------------
(* LibraryUpdates with the items of MCIndex.                                  *)
EXTENDS MCIndex, LibraryUpdates
=============================================================================
