--------------------------------- MODULE Repl ---------------------------------
(***************************************************************************)
(* The read-eval-print loop of the Rust shell around the line editor:       *)
(* src/main.rs (the Linux shell) and src/bin/vibix.rs (the VIBIX shell),    *)
(* with exec::execute, the dispatch of the builtins, exit, cd, and the      *)
(* terminal's raw mode.                                                     *)
(*                                                                         *)
(* What a line says is left open: a recorded line may parse to any command  *)
(* of Commands or not parse at all.  A command is the first of its          *)
(* pipeline, the only one execute looks at.  Builtins that only print are   *)
(* one command, "print".  The exit code of a command that does not leave    *)
(* the shell is computed and dropped by the code, and is left out here.     *)
(***************************************************************************)
EXTENDS LineEditor, Integers

CONSTANTS
  Backends,   \* the builds: "linux" (src/main.rs), "vibix" (src/bin/vibix.rs)
  Dirs,       \* directories cd may be given
  NoDir,      \* the environment has no PWD
  ExitCodes   \* numeric arguments of exit

ASSUME ReplAssumption ==
  /\ Backends \subseteq {"linux", "vibix"}
  /\ Dirs # {}
  /\ NoDir \notin Dirs
  /\ ExitCodes \subseteq Int

VARIABLES
  backend,   \* which build this is; it never changes
  shell,     \* "starting", "running" or "exited"
  status,    \* the status the process exited with, -1 before
  ending,    \* why it exited (history variable)
  term,      \* mode of the controlling terminal
  original,  \* its mode when the shell started; RawMode.orig once entered
  input,     \* "open", "ended" once every read gives 0 bytes, "failed" once
             \* every read gives an error
  job,       \* what the loop does with the recorded line
  exists,    \* the directories that exist
  cwd,       \* the working directory of the process
  cwdGone,   \* it has been removed
  pwd,       \* the first PWD= entry of env, or NoDir
  moved      \* some cd has succeeded (history variable)

processVars == <<shell, status, ending, term, original, backend>>
dirVars == <<exists, cwd, cwdGone, pwd, moved>>
replVars == <<editorVars, processVars, input, job, dirVars>>

\* The commands a line can parse to, by the way they change the shell.
Commands ==
       [name : {"empty", "history", "print", "unknown", "cd-none", "exit-none",
                "exit-word", "exit-many"}]
  \cup [name : {"cd"}, dir : Dirs]
  \cup [name : {"exit"}, code : ExitCodes]

ReplInit ==
  /\ EditorInit
  /\ backend \in Backends
  /\ shell = "starting" /\ status = -1 /\ ending = "none"
  /\ original \in (IF backend = "linux" THEN {"cooked", "raw"} ELSE {"raw"})
  /\ term = original
  /\ input = "open"
  /\ job = "none"
  /\ exists = Dirs
  /\ cwd \in Dirs /\ cwdGone = FALSE
  /\ pwd \in (IF backend = "linux" THEN Dirs \cup {NoDir} ELSE {NoDir})
  /\ moved = FALSE

-----------------------------------------------------------------------------
(* Starting and ending the process. *)

\* process::exit and syscall_exit: no destructor runs.
ExitProcess(code, why) ==
  /\ shell' = "exited"
  /\ status' = code
  /\ ending' = why

\* A fault: the guard is dropped and the mode stays.
RestoreForgotten == UNCHANGED term

\* Drop for RawMode
RestoreTerminal == term' = IF backend = "linux" THEN original ELSE term

\* RawMode::enter fails: tcgetattr or tcsetattr refuses.
StartFails ==
  /\ shell = "starting" /\ backend = "linux"
  /\ ExitProcess(1, "start")
  /\ UNCHANGED <<editorVars, term, original, backend, input, job, dirVars>>

\* env::vars panics on a variable that is not Unicode; the guard is dropped.
StartPanics ==
  /\ shell = "starting" /\ backend = "linux"
  /\ ExitProcess(101, "panic")
  /\ RestoreTerminal
  /\ UNCHANGED <<editorVars, original, backend, input, job, dirVars>>

Start ==
  /\ shell = "starting"
  /\ shell' = "running"
  /\ term' = "raw"
  /\ UNCHANGED <<editorVars, status, ending, original, backend, input, job, dirVars>>

\* read_line returned Err(()).  On Linux the loop breaks and main returns,
\* which drops the guard; on VIBIX the process exits with 0.
EndOfSession ==
  /\ shell = "running" /\ phase = "closed"
  /\ ExitProcess(0, "eof")
  /\ RestoreTerminal
  /\ UNCHANGED <<editorVars, original, backend, input, job, dirVars>>

-----------------------------------------------------------------------------
(* Reading a line. *)

AtLoop == shell = "running" /\ job = "none"

PromptAndRead ==
  /\ AtLoop /\ Prompt
  /\ UNCHANGED <<processVars, input, job, dirVars>>

PressKey ==
  /\ AtLoop /\ input = "open" /\ Key
  /\ UNCHANGED <<processVars, input, job, dirVars>>

\* read_char gives None: StdinReader's after 0 bytes or an error that is no
\* interruption, VibixReader's after an error; after 0 bytes that one reads
\* again, and stays in read_char.
ReadCharGivesNone == input = "failed" \/ (input = "ended" /\ backend = "linux")

\* A fault: an escape sequence waits for its last byte.
ReadNothingInLine ==
  /\ AtLoop /\ ReadCharGivesNone
  /\ EndOfInput
  /\ UNCHANGED <<processVars, input, job, dirVars>>

\* The next read_char gives None, in a line or inside an escape sequence.
ReadNothing ==
  /\ AtLoop /\ ReadCharGivesNone
  /\ EndOfInput \/ EscapeOther
  /\ UNCHANGED <<processVars, input, job, dirVars>>

\* The line is recorded, unless it is blank, before it is parsed.
Accept ==
  /\ AtLoop /\ Record
  /\ job' = IF Blank(buf) THEN "none" ELSE "parse"
  /\ UNCHANGED <<processVars, input, dirVars>>

-----------------------------------------------------------------------------
(* Running a line. *)

ParseFails ==
  /\ shell = "running" /\ job = "parse"
  /\ job' = "none"
  /\ UNCHANGED <<editorVars, processVars, input, dirVars>>

\* exit::exit leaves the shell when it has no argument or one number.
Leaving(command) == command.name \in {"exit-none", "exit"}
ExitCode(command) == IF command.name = "exit" THEN command.code ELSE 0

\* The status a parent sees: Linux keeps the low byte.
Status(code) == IF backend = "linux" THEN code % 256 ELSE code

\* cd::change_dir, which the VIBIX build does not implement.
ChangeDirWorks(command) ==
  command.name = "cd" /\ backend = "linux" /\ command.dir \in exists

\* exec::execute on the parsed line.  A successful cd goes on to update_pwd.
Execute(command) ==
  /\ shell = "running" /\ job = "parse"
  /\ \/ /\ Leaving(command)
        /\ ExitProcess(Status(ExitCode(command)), "exit")
        /\ job' = "none"
        /\ UNCHANGED <<term, original, backend, dirVars>>
     \/ /\ ChangeDirWorks(command)
        /\ cwd' = command.dir /\ cwdGone' = FALSE /\ moved' = TRUE
        /\ job' = "update_pwd"
        /\ UNCHANGED <<processVars, exists, pwd>>
     \/ /\ ~ Leaving(command) /\ ~ ChangeDirWorks(command)
        /\ job' = "none"
        /\ UNCHANGED <<processVars, dirVars>>
  /\ UNCHANGED <<editorVars, input>>

\* A fault: PWD is replaced where it is and not added where it is missing.
UpdatePwdInPlace ==
  /\ shell = "running" /\ job = "update_pwd"
  /\ pwd' = IF cwdGone \/ pwd = NoDir THEN pwd ELSE cwd
  /\ job' = "none"
  /\ UNCHANGED <<editorVars, processVars, input, exists, cwd, cwdGone, moved>>

\* cd::update_pwd: getcwd fails if the directory is already gone.
UpdatePwd ==
  /\ shell = "running" /\ job = "update_pwd"
  /\ pwd' = IF cwdGone THEN pwd ELSE cwd
  /\ job' = "none"
  /\ UNCHANGED <<editorVars, processVars, input, exists, cwd, cwdGone, moved>>

-----------------------------------------------------------------------------
(* The outside: the input ends, other processes remove and make directories. *)

CloseInput ==
  /\ input # "failed"
  /\ input' \in {"ended", "failed"} \ {input}
  /\ UNCHANGED <<editorVars, processVars, job, dirVars>>

RemoveDir(d) ==
  /\ backend = "linux" /\ shell # "exited" /\ d \in exists
  /\ exists' = exists \ {d}
  /\ cwdGone' = (cwdGone \/ cwd = d)
  /\ UNCHANGED <<editorVars, processVars, input, job, cwd, pwd, moved>>

MakeDir(d) ==
  /\ backend = "linux" /\ shell # "exited" /\ d \notin exists
  /\ exists' = exists \cup {d}
  /\ UNCHANGED <<editorVars, processVars, input, job, cwd, cwdGone, pwd, moved>>

\* What the process does without waiting for anybody.
ProgramStep ==
  \/ Start \/ StartFails \/ StartPanics \/ EndOfSession
  \/ PromptAndRead \/ ReadNothing \/ Accept
  \/ ParseFails \/ UpdatePwd
  \/ \E command \in Commands : Execute(command)

ReplNext ==
  \/ ProgramStep
  \/ PressKey
  \/ CloseInput
  \/ \E d \in Dirs : RemoveDir(d) \/ MakeDir(d)

ReplSpec == ReplInit /\ [][ReplNext]_replVars

\* The scheduler runs a process that is ready to run.
FairReplSpec == ReplSpec /\ WF_replVars(ProgramStep)

-----------------------------------------------------------------------------
(* Properties. *)

ReplTypeOK ==
  /\ EditorTypeOK
  /\ backend \in Backends
  /\ shell \in {"starting", "running", "exited"}
  /\ status \in Int
  /\ ending \in {"none", "start", "panic", "eof", "exit"}
  /\ {term, original} \subseteq {"cooked", "raw"}
  /\ input \in {"open", "ended", "failed"}
  /\ job \in {"none", "parse", "update_pwd"}
  /\ exists \subseteq Dirs
  /\ cwd \in Dirs
  /\ pwd \in Dirs \cup {NoDir}
  /\ {cwdGone, moved} \subseteq BOOLEAN

\* main.rs:97, "Record in history BEFORE parsing": while a line is parsed or
\* run, it is the newest entry and no entry is left marked as browsed unless
\* it holds the same text, so that a line that fails can be recalled.
RecordedBeforeRun ==
  job # "none" =>
    /\ entries # << >> /\ Newest = buf
    /\ browse # NotBrowsing => entries[browse] = buf

\* The editor only ever reads from a terminal in raw mode, and a shell that
\* ended other than by the exit builtin left the terminal as it found it.
TerminalMode ==
  /\ phase = "reading" => term = "raw"
  /\ shell = "exited" /\ ending # "exit" => term = original

\* main.rs:62 and terminal.rs:5: the terminal is restored when the shell ends.
TerminalRestored == shell = "exited" => term = original

\* After a successful cd, PWD names the working directory, unless that
\* directory has been removed since.
PwdNamesCwd ==
  moved /\ job # "update_pwd" /\ ~ cwdGone => pwd = cwd

\* Once reads fail the shell ends, wherever it was: in a line, which is then
\* run, in an escape sequence, or running a command.  That reads give 0 bytes
\* does the same on Linux; runtime.rs:117 takes it for a task that was resumed.
ClosedInputEndsShell == ReadCharGivesNone ~> shell = "exited"

=============================================================================
