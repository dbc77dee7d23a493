---------------------------- MODULE MCFlatShell ----------------------------
(***************************************************************************)
(* The flat shell with lines of a few bytes and two history slots.          *)
(***************************************************************************)
EXTENDS FlatShell

=============================================================================
