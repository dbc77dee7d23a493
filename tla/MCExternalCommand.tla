-------------------------- MODULE MCExternalCommand --------------------------
(* ExternalCommand on small process tables: see the .cfg files.              *)
EXTENDS ExternalCommand

==============================================================================
