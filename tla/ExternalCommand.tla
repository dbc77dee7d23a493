---------------------------- MODULE ExternalCommand ----------------------------
(***************************************************************************)
(* How the flat VIBIX shell runs a command that is not built in:            *)
(* try_find_and_exec of src/vibix/vish.asm and the end of dispatch_command  *)
(* that calls it.  The command is looked for in /bin and /sbin, or taken as *)
(* a path if it holds a slash; a child is forked to exec it, and the shell  *)
(* waits for exactly that child.                                            *)
(*                                                                         *)
(* One step of the shell is the code between two system calls.  A system    *)
(* call may clear every register but the stack pointer, so what the code    *)
(* needs afterwards it keeps in memory or on the stack.  The stack is that  *)
(* of the program, pushed and popped value by value: the registers of the   *)
(* caller, what the child is to find after the fork, and the place for the  *)
(* status of a wait are on it at the same time.                             *)
(*                                                                         *)
(* The kernel is external: a table of process slots, a file system that     *)
(* other processes change, and a waitpid that returns 0 when a blocked      *)
(* caller is woken, the PID when it reaps a zombie, and an error when the   *)
(* PID is no child of the caller.                                           *)
(***************************************************************************)
EXTENDS Naturals, FiniteSets, Sequences

CONSTANT
  Slots          \* process slots besides the shell's; a PID is its slot

ASSUME ExternalAssumption == IsFiniteSet(Slots)

VARIABLES
  pc,          \* where the shell is
  regs,        \* the registers a callee has to preserve
  saved,       \* saved_cmd_name, saved_argv, saved_envp, saved_child_pid
  pathBuffer,  \* the directory whose path is in path_buffer
  stack,       \* the stack from its top down to the return address
  openFds,     \* descriptors open()ed and not closed
  message,     \* what the shell printed about the last command
  result,      \* what try_find_and_exec returned last: 0 or 1
  found,       \* the place the command was looked up to be (history variable)
  stolen,      \* somebody else reaped the last command (history variable)
  proc,        \* the kernel's process table
  disk         \* where the command can be found now

shellVars == <<pc, regs, saved, pathBuffer, stack, openFds, message, result>>
ghostVars == <<found, stolen>>
externalVars == <<shellVars, ghostVars, proc, disk>>

-----------------------------------------------------------------------------
(* Values. *)

Places == {"bin", "sbin", "direct"}

\* Pointers.  Environment is what the loader passed in rdx; TableEnd is r15
\* in dispatch_command, which the search has moved to the end of the table.
Name == "name"
Argv == "argv_table"
Buffer == "path_buffer"
Environment == "environment"
TableEnd == "end of command_table"
Table == "command_table"
Argc == "argc"
ReturnAddress == "return address"
Junk == "junk"
Nil == "nil"
Values == {Name, Argv, Buffer, Environment, TableEnd, Table, Argc, ReturnAddress, Junk, Nil}

NoPid == "no pid"

Registers == [rbx : Values, r12 : Values, r13 : Values, r14 : Values, r15 : Values]
Cleared == [rbx |-> Junk, r12 |-> Junk, r13 |-> Junk, r14 |-> Junk, r15 |-> Junk]

\* The registers of dispatch_command when no builtin command has the name.
\* It goes on with them after the call: [r12] is in the error it prints.
Calling ==
  [rbx |-> Name, r12 |-> Argv, r13 |-> Argc, r14 |-> Table, r15 |-> TableEnd]

\* A process: Shell's child before exec, a program, a zombie, or none.
Free == [state |-> "free"]
Child(path, argv, envp) ==
  [state |-> "child", parent |-> "shell", path |-> path, argv |-> argv, envp |-> envp]
Other == [state |-> "program", parent |-> "other"]

Used(s) == proc[s].state # "free"
ShellsChild(s) == Used(s) /\ proc[s].parent = "shell"

\* The file a path pointer leads to.
Target(pointer) ==
  CASE pointer = Name -> "direct"
    [] pointer = Buffer -> pathBuffer
    [] OTHER -> Nil

ExternalInit ==
  /\ pc = "prompt"
  /\ regs = Calling
  /\ saved = [cmd |-> Nil, argv |-> Nil, envp |-> Environment, pid |-> NoPid]
  /\ pathBuffer = Nil
  /\ stack = <<ReturnAddress>>
  /\ openFds = 0
  /\ message = "none"
  /\ result = 0
  /\ found = Nil
  /\ stolen = FALSE
  /\ proc \in [Slots -> {Free, Other}]
  /\ disk \in SUBSET Places

-----------------------------------------------------------------------------
(* The shell. *)

\* A system call may or may not clear the registers.
AfterCall == {regs, Cleared}
Syscall == regs' \in AfterCall

\* The registers the code reloads from memory after a system call.
Reloaded(r) ==
  [r EXCEPT !.rbx = saved.cmd, !.r12 = saved.argv, !.r13 = saved.envp]

\* What .do_fork_exec pushes for the child: the path on top of argv and envp.
ForChild(r) == <<r.r14, r.r12, r.r13>>

\* try_find_and_exec drops the values on top, pops the registers that it
\* pushed at its start, and returns.
Return(value, text, dropped) ==
  LET left == SubSeq(stack, dropped + 1, Len(stack))
  IN  /\ regs' = [r15 |-> left[1], r14 |-> left[2], r13 |-> left[3],
                  r12 |-> left[4], rbx |-> left[5]]
      /\ stack' = SubSeq(left, 6, Len(left))
      /\ result' = value
      /\ message' = text
      /\ pc' = "prompt"

\* dispatch_command's .not_found and the start of try_find_and_exec, up to
\* the first system call: open, or fork for a name with a slash.
Enter(slash) ==
  LET entered == [Calling EXCEPT !.rbx = Name, !.r12 = Argv, !.r13 = TableEnd]
      pushed == <<Calling.r15, Calling.r14, Calling.r13, Calling.r12, Calling.rbx>>
      direct == [entered EXCEPT !.r14 = Name]
  IN  /\ pc = "prompt"
      /\ saved' = [saved EXCEPT !.cmd = Name, !.argv = Argv, !.envp = TableEnd]
      /\ message' = "none"
      /\ stolen' = FALSE
      /\ found' = IF slash THEN "direct" ELSE Nil
      /\ \/ /\ slash
            /\ regs' = direct
            /\ stack' = ForChild(direct) \o (pushed \o stack)
            /\ pc' = "fork"
            /\ UNCHANGED pathBuffer
         \/ /\ ~ slash
            /\ regs' = entered
            /\ stack' = pushed \o stack
            /\ pathBuffer' = "bin"
            /\ pc' = "open_bin"
      /\ UNCHANGED <<openFds, result, proc, disk>>

\* open(path_buffer) of .try_bin and .try_sbin when the file is there.
OpenFound(at, next) ==
  /\ pc = at
  /\ pathBuffer \in disk
  /\ openFds' = openFds + 1
  /\ Syscall
  /\ pc' = next
  /\ found' = pathBuffer
  /\ UNCHANGED <<saved, pathBuffer, stack, message, result, stolen, proc, disk>>

\* A fault: what open refused is closed.
OpenBinFailsAndCloses ==
  /\ pc = "open_bin"
  /\ pathBuffer \notin disk
  /\ regs' \in {Reloaded(r) : r \in AfterCall}
  /\ pathBuffer' = "sbin"
  /\ openFds' = openFds - 1
  /\ pc' = "open_sbin"
  /\ UNCHANGED <<saved, stack, message, result, ghostVars, proc, disk>>

\* /bin has no such file: the registers are reloaded and /sbin is tried.
OpenBinFails ==
  /\ pc = "open_bin"
  /\ pathBuffer \notin disk
  /\ regs' \in {Reloaded(r) : r \in AfterCall}
  /\ pathBuffer' = "sbin"
  /\ pc' = "open_sbin"
  /\ UNCHANGED <<saved, stack, openFds, message, result, ghostVars, proc, disk>>

\* Neither has /sbin: not found, and dispatch_command says so.
OpenSbinFails ==
  /\ pc = "open_sbin"
  /\ pathBuffer \notin disk
  /\ Return(1, "command not found", 0)
  /\ UNCHANGED <<saved, pathBuffer, openFds, ghostVars, proc, disk>>

\* A fault: the registers are used as the system call left them.
CloseTrustsRegisters ==
  /\ pc = "close"
  /\ openFds' = openFds - 1
  /\ Syscall
  /\ stack' = ForChild(regs') \o stack
  /\ pc' = "fork"
  /\ UNCHANGED <<saved, pathBuffer, message, result, ghostVars, proc, disk>>

\* close(fd); the registers are reloaded, r14 points to path_buffer, and what
\* the child needs is pushed before the fork.
Close ==
  /\ pc = "close"
  /\ openFds' = openFds - 1
  /\ regs' \in {[Reloaded(r) EXCEPT !.r14 = Buffer] : r \in AfterCall}
  /\ stack' = ForChild(regs') \o stack
  /\ pc' = "fork"
  /\ UNCHANGED <<saved, pathBuffer, message, result, ghostVars, proc, disk>>

\* A fault: the PID is kept in a register, which the next call clears.
ForkForgetsPid(s) ==
  /\ pc = "fork"
  /\ ~ Used(s)
  /\ proc' = [proc EXCEPT ![s] = Child(Target(stack[1]), stack[2], stack[3])]
  /\ stack' = <<Junk>> \o stack
  /\ Syscall
  /\ pc' = "wait"
  /\ UNCHANGED <<saved, pathBuffer, openFds, message, result, ghostVars, disk>>

\* fork: the child has a copy of memory and stack, and pops path, argv and
\* envp from it.  The parent stores the PID it will wait for, and makes room
\* for the status on its own stack.
Fork(s) ==
  /\ pc = "fork"
  /\ ~ Used(s)
  /\ proc' = [proc EXCEPT ![s] = Child(Target(stack[1]), stack[2], stack[3])]
  /\ stack' = <<Junk>> \o stack
  /\ Syscall
  /\ saved' = [saved EXCEPT !.pid = s]
  /\ pc' = "wait"
  /\ UNCHANGED <<pathBuffer, openFds, message, result, ghostVars, disk>>

\* fork returns an error: no free slot, or no memory for the copy.  What was
\* pushed for the child is dropped.
ForkFails ==
  /\ pc = "fork"
  /\ Return(0, "fork failed", 3)
  /\ UNCHANGED <<saved, pathBuffer, openFds, ghostVars, proc, disk>>

\* waitpid(saved_child_pid) finds the zombie and reaps it.  The status and
\* the three values for the child are dropped.
WaitReaps ==
  /\ pc = "wait"
  /\ \E s \in Slots :
       /\ s = saved.pid /\ ShellsChild(s) /\ proc[s].state = "zombie"
       /\ proc' = [proc EXCEPT ![s] = Free]
  /\ Return(0, message, 4)
  /\ UNCHANGED <<saved, pathBuffer, openFds, ghostVars, disk>>

\* A fault: an early answer of waitpid is taken for the end of the child.
WaitBlocksNot ==
  /\ pc = "wait"
  /\ \E s \in Slots :
       s = saved.pid /\ ShellsChild(s) /\ proc[s].state # "zombie"
  /\ Return(0, message, 4)
  /\ UNCHANGED <<saved, pathBuffer, openFds, ghostVars, proc, disk>>

\* The child is still there: the caller is blocked.
WaitBlocks ==
  /\ pc = "wait"
  /\ \E s \in Slots :
       s = saved.pid /\ ShellsChild(s) /\ proc[s].state # "zombie"
  /\ pc' = "blocked"
  /\ Syscall
  /\ UNCHANGED <<saved, pathBuffer, stack, openFds, message, result, ghostVars, proc, disk>>

\* A fault: the room for the status is made again for each try.
WakeKeepsStatus ==
  /\ pc = "blocked"
  /\ pc' = "wait"
  /\ stack' = <<Junk>> \o stack
  /\ UNCHANGED <<regs, saved, pathBuffer, openFds, message, result, ghostVars, proc, disk>>

\* The scheduler wakes the caller, for whatever reason; waitpid returns 0, the
\* status is dropped, and the code makes room for another and calls it again.
Wake ==
  /\ pc = "blocked"
  /\ pc' = "wait"
  /\ stack' = <<Junk>> \o Tail(stack)
  /\ UNCHANGED <<regs, saved, pathBuffer, openFds, message, result, ghostVars, proc, disk>>

\* A fault: an error of waitpid is tried again, like an early answer.
WaitFailsAgain ==
  /\ pc = "wait"
  /\ ~ \E s \in Slots : s = saved.pid /\ ShellsChild(s)
  /\ Syscall
  /\ UNCHANGED <<pc, stack, message, result, saved, pathBuffer, openFds, ghostVars, proc, disk>>

\* The PID is no child of the shell: waitpid returns an error.
WaitFails ==
  /\ pc = "wait"
  /\ ~ \E s \in Slots : s = saved.pid /\ ShellsChild(s)
  /\ Return(0, "waitpid failed", 4)
  /\ UNCHANGED <<saved, pathBuffer, openFds, ghostVars, proc, disk>>

-----------------------------------------------------------------------------
(* The child. *)

\* exec succeeds: the slot runs the program.
Exec(s) ==
  /\ ShellsChild(s) /\ proc[s].state = "child"
  /\ proc[s].path \in disk
  /\ proc' = [proc EXCEPT ![s].state = "program"]
  /\ UNCHANGED <<shellVars, ghostVars, disk>>

\* exec returns, because the file is gone or no executable: exit(1).
ExecFails(s) ==
  /\ ShellsChild(s) /\ proc[s].state = "child"
  /\ proc' = [proc EXCEPT ![s].state = "zombie"]
  /\ UNCHANGED <<shellVars, ghostVars, disk>>

-----------------------------------------------------------------------------
(* The rest of the system. *)

\* The command ends.
ProgramExits(s) ==
  /\ ShellsChild(s) /\ proc[s].state = "program"
  /\ proc' = [proc EXCEPT ![s].state = "zombie"]
  /\ UNCHANGED <<shellVars, ghostVars, disk>>

\* Other processes take and give back slots.
OtherStarts(s) ==
  /\ ~ Used(s)
  /\ proc' = [proc EXCEPT ![s] = Other]
  /\ UNCHANGED <<shellVars, ghostVars, disk>>

OtherEnds(s) ==
  /\ proc[s] = Other
  /\ proc' = [proc EXCEPT ![s] = Free]
  /\ UNCHANGED <<shellVars, ghostVars, disk>>

\* Somebody else reaps the shell's zombie, and the PID is free for others.
Steal(s) ==
  /\ ShellsChild(s) /\ proc[s].state = "zombie"
  /\ proc' = [proc EXCEPT ![s] = Free]
  /\ stolen' = TRUE
  /\ UNCHANGED <<shellVars, found, disk>>

ChangeDisk ==
  /\ disk' \in SUBSET Places
  /\ disk' # disk
  /\ UNCHANGED <<shellVars, ghostVars, proc>>

ShellStep ==
  \/ OpenFound("open_bin", "close") \/ OpenFound("open_sbin", "close")
  \/ OpenBinFails \/ OpenSbinFails \/ Close
  \/ ForkFails \/ WaitReaps \/ WaitBlocks \/ WaitFails
  \/ \E s \in Slots : Fork(s)

ChildStep(s) == Exec(s) \/ ExecFails(s)

ExternalNext ==
  \/ \E slash \in BOOLEAN : Enter(slash)
  \/ ShellStep
  \/ Wake
  \/ ChangeDisk
  \/ \E s \in Slots :
       ChildStep(s) \/ ProgramExits(s) \/ OtherStarts(s) \/ OtherEnds(s) \/ Steal(s)

ExternalSpec == ExternalInit /\ [][ExternalNext]_externalVars

\* The scheduler runs whoever can run, wakes a blocked parent, and commands
\* end.  Nothing is assumed of other processes.
FairExternalSpec ==
  /\ ExternalSpec
  /\ WF_externalVars(ShellStep)
  /\ WF_externalVars(Wake)
  /\ \A s \in Slots :
       WF_externalVars(ChildStep(s)) /\ WF_externalVars(ProgramExits(s))

-----------------------------------------------------------------------------
(* Properties. *)

Awaiting == pc \in {"wait", "blocked"}

ExternalTypeOK ==
  /\ pc \in {"prompt", "open_bin", "open_sbin", "close", "fork", "wait", "blocked"}
  /\ regs \in Registers
  /\ saved \in [cmd : Values, argv : Values, envp : Values, pid : Slots \cup {NoPid}]
  /\ pathBuffer \in Places \cup {Nil}
  /\ stack \in Seq(Values)
  /\ openFds \in Nat
  /\ message \in {"none", "command not found", "fork failed", "waitpid failed"}
  /\ result \in {0, 1}
  /\ found \in Places \cup {Nil}
  /\ stolen \in BOOLEAN
  /\ disk \subseteq Places
  /\ \A s \in Slots :
       \/ proc[s] \in {Free, Other}
       \/ proc[s] \in [state : {"child", "program", "zombie"}, parent : {"shell"},
                       path : Places \cup {Nil}, argv : Values, envp : Values]

\* tests/qemu_external_wait.py: however commands end, none of them is left in
\* the process table; the shell has a child only while it waits for it, and
\* that child is the one it waits for.
ChildrenAwaited ==
  \A s \in Slots : ShellsChild(s) => Awaiting /\ saved.pid = s

\* A child is about to run, or runs, the file that was looked up, with the
\* argument table, although every register may have been cleared on the way.
ChildRunsWhatWasFound ==
  \A s \in Slots : ShellsChild(s) =>
    /\ proc[s].argv = Argv
    /\ proc[s].path = found
    /\ found # Nil

\* vish.asm:1815, "Preserves: r12, r13, r14, r15, rbx": whether the command is
\* not found, cannot be forked, is waited for in several tries or is reaped by
\* somebody else, the caller gets its registers back from under what was
\* pushed since, and the return address is on top.  No descriptor is left
\* open, and a child inherits none.
NothingLeftBehind ==
  /\ pc = "prompt" => regs = Calling /\ stack = <<ReturnAddress>>
  /\ pc \in {"prompt", "fork", "wait", "blocked"} => openFds = 0

\* waitpid fails only if somebody else reaped the child of this command, and
\* then it does: the shell never takes a stranger in the same slot for it.
WaitFailsOnlyIfStolen ==
  pc = "prompt" => (message = "waitpid failed" <=> stolen)

\* Every command comes back to the prompt, whether or not it is found, can
\* be forked, or executes, and however often the wait is woken early.
CommandReturns == pc # "prompt" ~> pc = "prompt"

\* vish.asm:853, "r15 = envp": the child is given the environment that the
\* shell was started with.
ChildGetsEnvironment ==
  \A s \in Slots : ShellsChild(s) => proc[s].envp = Environment

=============================================================================
