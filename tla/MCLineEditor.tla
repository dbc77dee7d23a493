----------------------------- MODULE MCLineEditor -----------------------------
(* LineEditor on a small instance: see the .cfg files for the constants.    *)
EXTENDS LineEditor

MCPrompt == <<"$">>

==============================================================================
