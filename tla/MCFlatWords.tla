------------------------------ MODULE MCFlatWords ------------------------------
(***************************************************************************)
(* FlatWords with lines of a few characters.  A .cfg cannot write the       *)
(* backslash.                                                               *)
(***************************************************************************)
EXTENDS FlatWords

MCTyped == {"a", " ", "'", "\"", "\\"}

=============================================================================
