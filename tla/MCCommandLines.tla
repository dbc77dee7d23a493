---------------------------- MODULE MCCommandLines ----------------------------
(***************************************************************************)
(* CommandLines on small instances: every line of a few characters, and     *)
(* lines that run each builtin.                                             *)
(***************************************************************************)
EXTENDS CommandLines

\* A letter, and every character that quoting and redirection give a meaning.
MCTyped == {"n", "'", "\"", "\\", "|", ">", " "}

\* And what means something behind or before these.
MCTypedToo == MCTyped \cup {"2", "&", "#"}

\* White space that only the trimming takes for such.
MCTrimmed == {"n", " ", "\f", "VT"}

MCWords == SeqOf(MCTyped, 4) \cup SeqOf(MCTypedToo, 3) \cup SeqOf(MCTrimmed, 3)

\* Each builtin, with its flags, its errors and its ways to find something.
MCCalls ==
  {Text(call) : call \in {
     "echo n 2", "echo -n n", "echo -en \\tn", "echo -nx 2", "echo -E -- -e",
     "echo -e '\\x4' n", "echo -e '\\x4g'", "echo -e '\\0n' 2", "echo -e 'n\\c2' 2", "echo \"2\\nn\" 2",
     "echo -e '\\777\\q\\'", "echo -e '\\n\\8'", "echo - n > n",
     "printenv", "printenv PWD", "printenv HOME PWDX", "cat", "cat n - 2", "cat /n",
     "history", "help", "clear", "true", "false", "2 n",
     "exit", "exit -2", "exit n", "exit 2 2",
     "n 2>&n", "2>>n #'", "n<n 2>2", "'|'>n|>", "cd", "cd /n", "cd 2", "true | cd /n", "cd '/n' | true"}}

MCLines == MCWords \cup MCCalls
MCCutLines == MCCalls \cup SeqOf(MCTyped, 1)
MCFiles == Text("n") :> Text("n\n22\n222")
MCDirectories == (Text("/n") :> Text("/n")) @@ (Text("..") :> Text("/"))
MCEarlier == <<Text("true")>>

\* No PWD; and two, behind one that is only longer.
MCEnvironments == {<< >>, <<Text("PWDX=n"), Text("PWD=2"), Text("PWD=n")>>}

=============================================================================
