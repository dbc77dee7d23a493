-------------------------------- MODULE MCRepl --------------------------------
(* Repl on small instances: see the .cfg files for the constants.  256 among *)
(* the exit codes is the smallest that Linux reduces to 0.                    *)
EXTENDS Repl

MCPrompt == <<"$">>

==============================================================================
