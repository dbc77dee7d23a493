------------------------------- MODULE ReplProofs -------------------------------
(***************************************************************************)
(* Proofs about the read-eval-print loop: it uses the line editor as the    *)
(* editor's specification says, so that what is proved of the editor holds   *)
(* in the loop; a line that is run is the newest entry; the terminal is in   *)
(* the mode it should be in; PWD names the working directory after a cd.     *)
(***************************************************************************)
EXTENDS Repl, LineEditorProofs

\* What the loop keeps besides the editor's state.
LoopVarsOK ==
  /\ backend \in Backends
  /\ shell \in {"starting", "running", "exited"}
  /\ status \in Int
  /\ ending \in {"none", "start", "panic", "eof", "exit"}
  /\ term \in {"cooked", "raw"} /\ original \in {"cooked", "raw"}
  /\ input \in {"open", "ended", "failed"}
  /\ job \in {"none", "parse", "update_pwd"}
  /\ exists \subseteq Dirs
  /\ cwd \in Dirs
  /\ pwd \in Dirs \cup {NoDir}
  /\ cwdGone \in BOOLEAN /\ moved \in BOOLEAN

\* The editor reads only while the shell runs and no line is being run.
EditorAtRest ==
  /\ shell # "running" => phase # "reading"
  /\ job # "none" => phase = "idle"

\* The terminal is raw while the shell runs and as it was found before; the
\* VIBIX terminal is never anything but raw.
TerminalState ==
  /\ shell = "starting" => term = original
  /\ shell = "running" => term = "raw"
  /\ backend = "vibix" => original = "raw"
  /\ shell = "exited" /\ ending # "exit" => term = original

\* The inductive invariant, relative to the editor's (EditorInv): TerminalMode
\* and RecordedBeforeRun need to know where the editor is while the loop is
\* elsewhere.
ReplInv ==
  /\ LoopVarsOK
  /\ EditorAtRest
  /\ TerminalState
  /\ RecordedBeforeRun
  /\ PwdNamesCwd

\* The steps of the loop in which the editor does something.
ReadingStep == PromptAndRead \/ PressKey \/ ReadNothing \/ Accept

-----------------------------------------------------------------------------

\* Every step of the loop is a step of the editor or leaves it alone.
LEMMA ReplStepIsEditorStep ==
  [ReplNext]_replVars => [EditorNext]_editorVars
<1>1. ReadingStep => EditorNext
  BY DEF ReadingStep, PromptAndRead, PressKey, ReadNothing, Accept, EditorNext, Key
<1>2. ReplNext => ReadingStep \/ UNCHANGED editorVars
  BY DEF ReplNext, ProgramStep, ReadingStep, Start, StartFails, StartPanics, EndOfSession,
         ParseFails, UpdatePwd, Execute, CloseInput, RemoveDir, MakeDir
<1> QED  BY <1>1, <1>2 DEF replVars

\* The loop's use of the editor is a behaviour of the editor's specification:
\* it never edits a line behind the editor's back, and records every line once.
THEOREM ReplUsesEditor == ReplSpec => EditorSpec
<1>1. ReplInit => EditorInit
  BY DEF ReplInit
<1> QED  BY <1>1, ReplStepIsEditorStep, PTL DEF ReplSpec, EditorSpec

\* What a command does depends on the part of Commands it is from.
LEMMA CommandArguments ==
  ASSUME NEW command \in Commands
  PROVE  /\ command.name = "cd" => command.dir \in Dirs
         /\ command.name = "exit" => command.code \in Int
<1>1. CASE command \in [name : {"empty", "history", "print", "unknown", "cd-none",
                                "exit-none", "exit-word", "exit-many"}]
  BY <1>1
<1>2. CASE command \in [name : {"cd"}, dir : Dirs]
  BY <1>2
<1>3. CASE command \in [name : {"exit"}, code : ExitCodes]
  BY <1>3, ReplAssumption
<1> QED  BY <1>1, <1>2, <1>3 DEF Commands

\* Recording a line before it is run leaves it as the newest entry, browsed at
\* most where its own text is.
LEMMA RecordedLineIsNewest ==
  ASSUME EditorInv, Record, ~ Blank(buf)
  PROVE  /\ entries' # << >> /\ Newest' = buf'
         /\ browse' # NotBrowsing => entries'[browse'] = buf'
<1>1. phase = "entered" /\ buf' = buf /\ Add(buf)
  BY DEF Record
<1>2. entries \in Seq(Lines) /\ buf \in Lines /\ buf # << >>
  BY DEF EditorInv, EditorVarsOK, Blank
<1>3. CASE UNCHANGED history /\ entries # << >> /\ Newest = buf
  BY <1>1, <1>2, <1>3 DEF history, Newest, EditorInv, BrowseTracksLine
<1>4. CASE ~ (entries # << >> /\ Newest = buf)
  <2> DEFINE kept == IF Len(entries) >= Capacity THEN Tail(entries) ELSE entries
  <2>1. entries' = Append(kept, buf) /\ browse' = NotBrowsing
    BY <1>1, <1>2, <1>4 DEF Add
  <2>2. kept \in Seq(Lines)
    BY <1>2, EmptySeq, EditorAssumption
  <2> HIDE DEF kept
  <2>3. entries' # << >> /\ entries'[Len(entries')] = buf
    BY <1>2, <2>1, <2>2, AppendProperties
  <2> QED  BY <1>1, <2>1, <2>3 DEF Newest
<1>5. entries # << >> /\ Newest = buf => UNCHANGED history
  BY <1>1 DEF Add
<1> QED  BY <1>3, <1>4, <1>5

\* Reading and recording a line.
LEMMA ReadingKeepsReplInv ==
  ASSUME ReplInv, EditorInv, ReadingStep
  PROVE  ReplInv'
<1>1. /\ shell = "running" /\ job = "none"
      /\ UNCHANGED <<processVars, dirVars, input>>
  BY DEF ReadingStep, PromptAndRead, PressKey, ReadNothing, Accept, AtLoop
<1>2. job' = "none" \/ (Accept /\ ~ Blank(buf) /\ job' = "parse")
  BY <1>1 DEF ReadingStep, PromptAndRead, PressKey, ReadNothing, Accept
<1>3. Accept => phase' = "idle"
  BY DEF Accept, Record
<1>4. LoopVarsOK' /\ TerminalState' /\ PwdNamesCwd' /\ EditorAtRest'
  BY <1>1, <1>2, <1>3
  DEF ReplInv, LoopVarsOK, TerminalState, PwdNamesCwd, EditorAtRest, processVars, dirVars
<1>5. RecordedBeforeRun'
  BY <1>2, RecordedLineIsNewest DEF Accept, RecordedBeforeRun, NotBrowsing
<1> QED  BY <1>4, <1>5 DEF ReplInv

\* Running a line.
LEMMA RunningKeepsReplInv ==
  ASSUME ReplInv,
         ParseFails \/ UpdatePwd \/ \E command \in Commands : Execute(command)
  PROVE  ReplInv'
<1>1. /\ shell = "running" /\ job # "none" /\ UNCHANGED editorVars /\ input' = input
  BY DEF ParseFails, UpdatePwd, Execute
<1>2. RecordedBeforeRun'
  BY <1>1 DEF ReplInv, RecordedBeforeRun, Newest, editorVars, history
<1>3. phase' = "idle"
  BY <1>1 DEF ReplInv, EditorAtRest, editorVars
<1>4. CASE ParseFails
  BY <1>1, <1>2, <1>3, <1>4
  DEF ReplInv, LoopVarsOK, EditorAtRest, TerminalState, PwdNamesCwd, ParseFails,
      processVars, dirVars
<1>5. CASE UpdatePwd
  BY <1>1, <1>2, <1>3, <1>5
  DEF ReplInv, LoopVarsOK, EditorAtRest, TerminalState, PwdNamesCwd, UpdatePwd, processVars
<1>6. ASSUME NEW command \in Commands, Execute(command)
      PROVE  ReplInv'
  <2>1. job = "parse"
    BY <1>6 DEF Execute
  <2>2. CASE /\ Leaving(command)
             /\ ExitProcess(Status(ExitCode(command)), "exit")
             /\ job' = "none"
             /\ UNCHANGED <<term, original, backend, dirVars>>
    <3>1. Status(ExitCode(command)) \in Int
      BY <2>2, CommandArguments DEF Status, ExitCode
    <3> QED  BY <1>1, <1>2, <1>3, <2>1, <2>2, <3>1
      DEF ReplInv, LoopVarsOK, EditorAtRest, TerminalState, PwdNamesCwd, ExitProcess, dirVars
  <2>3. CASE /\ ChangeDirWorks(command)
             /\ cwd' = command.dir /\ cwdGone' = FALSE /\ moved' = TRUE
             /\ job' = "update_pwd"
             /\ UNCHANGED <<processVars, exists, pwd>>
    <3>1. command.dir \in Dirs
      BY <2>3, CommandArguments DEF ChangeDirWorks
    <3> QED  BY <1>1, <1>2, <1>3, <2>1, <2>3, <3>1
      DEF ReplInv, LoopVarsOK, EditorAtRest, TerminalState, PwdNamesCwd, processVars
  <2>4. CASE job' = "none" /\ UNCHANGED <<processVars, dirVars>>
    BY <1>1, <1>2, <1>3, <2>1, <2>4
    DEF ReplInv, LoopVarsOK, EditorAtRest, TerminalState, PwdNamesCwd, processVars, dirVars
  <2> QED  BY <1>6, <2>2, <2>3, <2>4 DEF Execute
<1> QED  BY <1>4, <1>5, <1>6

\* Starting and ending the process.
LEMMA ProcessKeepsReplInv ==
  ASSUME ReplInv, Start \/ StartFails \/ StartPanics \/ EndOfSession
  PROVE  ReplInv'
<1>1. UNCHANGED <<editorVars, original, backend, input, job, dirVars>>
  BY DEF Start, StartFails, StartPanics, EndOfSession
<1>2. RecordedBeforeRun' /\ PwdNamesCwd'
  BY <1>1 DEF ReplInv, RecordedBeforeRun, PwdNamesCwd, Newest, editorVars, history, dirVars
<1>3. EditorAtRest'
  BY <1>1 DEF ReplInv, EditorAtRest, editorVars, Start, StartFails, StartPanics,
              EndOfSession, ExitProcess
<1>4. LoopVarsOK'
  BY <1>1 DEF ReplInv, LoopVarsOK, dirVars, Start, StartFails, StartPanics,
              EndOfSession, ExitProcess, RestoreTerminal
<1>5. TerminalState'
  <2>1. backend \in {"linux", "vibix"}
    BY ReplAssumption DEF ReplInv, LoopVarsOK
  <2> QED  BY <1>1, <2>1
    DEF ReplInv, TerminalState, Start, StartFails, StartPanics, EndOfSession,
        ExitProcess, RestoreTerminal
<1> QED  BY <1>2, <1>3, <1>4, <1>5 DEF ReplInv

\* What others do: the input closes, directories come and go.
LEMMA OutsideKeepsReplInv ==
  ASSUME ReplInv, CloseInput \/ \E d \in Dirs : RemoveDir(d) \/ MakeDir(d)
  PROVE  ReplInv'
<1>1. UNCHANGED <<editorVars, processVars, job, cwd, pwd, moved>>
  BY DEF CloseInput, RemoveDir, MakeDir, dirVars
<1>2. /\ input' \in {"open", "ended", "failed"} /\ exists' \subseteq Dirs
      /\ cwdGone' \in BOOLEAN /\ (cwdGone => cwdGone')
  BY DEF ReplInv, LoopVarsOK, CloseInput, RemoveDir, MakeDir, dirVars
<1>3. RecordedBeforeRun' /\ EditorAtRest' /\ TerminalState'
  BY <1>1 DEF ReplInv, RecordedBeforeRun, EditorAtRest, TerminalState, Newest, editorVars,
              history, processVars
<1>4. PwdNamesCwd'
  BY <1>1, <1>2 DEF ReplInv, PwdNamesCwd
<1>5. LoopVarsOK'
  BY <1>1, <1>2 DEF ReplInv, LoopVarsOK, processVars
<1> QED  BY <1>3, <1>4, <1>5 DEF ReplInv

\* The shell starts before its first line, in the mode it was given.
LEMMA ReplInvInit == ReplInit => ReplInv
<1> SUFFICES ASSUME ReplInit PROVE ReplInv
  OBVIOUS
<1>1. /\ original \in {"cooked", "raw"}
      /\ backend = "vibix" => original = "raw"
      /\ pwd \in Dirs \cup {NoDir}
  BY DEF ReplInit
<1>2. status \in Int /\ exists \subseteq Dirs /\ moved \in BOOLEAN /\ cwdGone \in BOOLEAN
  <2>1. status \in Int
    BY DEF ReplInit
  <2>2. exists \subseteq Dirs
    BY DEF ReplInit
  <2>3. moved \in BOOLEAN /\ cwdGone \in BOOLEAN
    BY DEF ReplInit
  <2> QED  BY <2>1, <2>2, <2>3
<1>3. backend \in Backends /\ term \in {"cooked", "raw"} /\ cwd \in Dirs
  BY <1>1 DEF ReplInit
<1>4. LoopVarsOK
  BY <1>1, <1>2, <1>3 DEF ReplInit, LoopVarsOK
<1> QED  BY <1>1, <1>4
  DEF ReplInit, EditorInit, ReplInv, EditorAtRest, TerminalState, RecordedBeforeRun, PwdNamesCwd

\* Every step of the loop and of what is around it keeps the invariant.
LEMMA ReplInvNext == ReplInv /\ EditorInv /\ [ReplNext]_replVars => ReplInv'
<1> SUFFICES ASSUME ReplInv, EditorInv, [ReplNext]_replVars PROVE ReplInv'
  OBVIOUS
<1>1. CASE UNCHANGED replVars
  BY <1>1 DEF ReplInv, LoopVarsOK, EditorAtRest, TerminalState, RecordedBeforeRun,
              PwdNamesCwd, Newest, replVars, editorVars, history, processVars, dirVars
<1> QED
  BY <1>1, ReadingKeepsReplInv, RunningKeepsReplInv, ProcessKeepsReplInv,
     OutsideKeepsReplInv
  DEF ReplNext, ProgramStep, ReadingStep

\* Every behaviour of the loop keeps the loop's and the editor's invariants.
THEOREM ReplInvariance == ReplSpec => [](ReplInv /\ EditorInv)
<1>1. ReplSpec => []EditorInv
  BY ReplUsesEditor, EditorInvariance, PTL
<1> QED  BY <1>1, ReplInvInit, ReplInvNext, PTL DEF ReplSpec

\* Type correctness of the loop and the editor in it.
THEOREM ReplTypeCorrect == ReplSpec => []ReplTypeOK
<1>1. ReplInv /\ EditorTypeOK => ReplTypeOK
  BY DEF ReplInv, LoopVarsOK, ReplTypeOK
<1> QED  BY <1>1, ReplInvariance, ReplUsesEditor, EditorTypeCorrect, PTL

\* Whatever a line does when it is parsed or run, it is already the newest
\* entry of the history.
THEOREM LineIsRecordedBeforeRun == ReplSpec => []RecordedBeforeRun
<1>1. ReplInv => RecordedBeforeRun
  BY DEF ReplInv
<1> QED  BY <1>1, ReplInvariance, PTL

\* The editor reads in raw mode only, and every way out of the shell but the
\* exit builtin leaves the terminal as it was found.
THEOREM TerminalModeKept == ReplSpec => []TerminalMode
<1>1. ReplInv => TerminalMode
  BY DEF ReplInv, LoopVarsOK, EditorAtRest, TerminalState, TerminalMode
<1> QED  BY <1>1, ReplInvariance, PTL

\* After a successful cd, PWD names the working directory for as long as that
\* exists, whatever directories other processes remove and make.
THEOREM PwdFollowsCd == ReplSpec => []PwdNamesCwd
<1>1. ReplInv => PwdNamesCwd
  BY DEF ReplInv
<1> QED  BY <1>1, ReplInvariance, PTL

=============================================================================
