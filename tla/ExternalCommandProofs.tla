-------------------------- MODULE ExternalCommandProofs --------------------------
(***************************************************************************)
(* Proofs about running an external command: with any number of process    *)
(* slots, whatever other processes do, whichever registers a system call    *)
(* clears and however often the wait is woken, the shell waits for its only *)
(* child, which runs what was found, and leaves nothing behind.             *)
(***************************************************************************)
EXTENDS ExternalCommand, SequenceTheorems, TLAPS

\* What try_find_and_exec pushes at its start, on top of where it returns to,
\* and a stack that has it under k values more.
Frame ==
  <<Calling.r15, Calling.r14, Calling.r13, Calling.r12, Calling.rbx, ReturnAddress>>

FrameUnder(s, k) == Len(s) = k + 6 /\ \A i \in 1 .. 6 : s[k + i] = Frame[i]

\* What is on the stack at each system call: the caller's registers, on top of
\* them what the child will pop, and on top of that the status of a wait.
StackState ==
  /\ pc = "prompt" => regs = Calling /\ stack = <<ReturnAddress>>
  /\ pc \in {"open_bin", "open_sbin", "close"} => FrameUnder(stack, 0)
  /\ pc = "fork" => FrameUnder(stack, 3)
  /\ Awaiting => FrameUnder(stack, 4)

ChildRecords ==
  [state : {"child", "program", "zombie"}, parent : {"shell"},
   path : Places \cup {Nil}, argv : Values, envp : Values]

ProcTable == [Slots -> {Free, Other} \cup ChildRecords]

\* What a try_find_and_exec that has not forked yet keeps where it needs it:
\* saved_argv survives the system calls, and the path and argv that the child
\* will pop have been reloaded before they are pushed.
SearchState ==
  /\ pc \in {"open_bin", "open_sbin", "close", "fork"} =>
       saved.argv = Argv /\ message = "none" /\ ~ stolen
  /\ pc \in {"open_bin", "open_sbin"} => pathBuffer \in Places
  /\ pc = "close" => pathBuffer \in Places /\ found = pathBuffer
  /\ pc = "fork" => /\ stack[2] = Argv
                    /\ found \in Places /\ Target(stack[1]) = found

\* While the shell waits, its child is in the slot it waits for, unless
\* somebody else has reaped it.
WaitState ==
  Awaiting =>
    /\ saved.pid \in Slots /\ message = "none"
    /\ stolen <=> ~ ShellsChild(saved.pid)

\* Each descriptor that was opened is closed before the fork.
Descriptors == openFds = IF pc = "close" THEN 1 ELSE 0

\* The inductive invariant.
ExternalInv ==
  /\ ExternalTypeOK /\ proc \in ProcTable
  /\ ChildrenAwaited /\ ChildRunsWhatWasFound
  /\ SearchState /\ WaitState /\ Descriptors
  /\ StackState
  /\ WaitFailsOnlyIfStolen

-----------------------------------------------------------------------------

\* Members of the process table are told apart by their states and parents.
LEMMA TableEntries ==
  ASSUME proc \in ProcTable, NEW s \in Slots
  PROVE  /\ ShellsChild(s) <=> proc[s] \in ChildRecords
         /\ Used(s) <=> proc[s] # Free
         /\ ~ ShellsChild(s) => proc[s] \in {Free, Other}
BY DEF ProcTable, ChildRecords, ShellsChild, Used, Free, Other

\* The values the program handles.
LEMMA ValuesInUse ==
  /\ {Name, Argv, Buffer, TableEnd, Table, Argc, ReturnAddress, Junk} \subseteq Values
  /\ Calling \in Registers /\ Cleared \in Registers
BY DEF Values, Calling, Cleared, Registers

\* A value pushed on the frame of the caller is on top of it, and the frame
\* stays what it was.
LEMMA PushKeepsFrame ==
  ASSUME NEW s \in Seq(Values), NEW k \in Nat, FrameUnder(s, k), NEW top \in Seq(Values),
         NEW n \in Nat, n = Len(top) + k
  PROVE  /\ top \o s \in Seq(Values)
         /\ FrameUnder(top \o s, n)
         /\ \A i \in 1 .. Len(top) : (top \o s)[i] = top[i]
<1>1. /\ top \o s \in Seq(Values) /\ Len(top \o s) = Len(top) + Len(s)
      /\ \A i \in 1 .. Len(top) + Len(s) :
           (top \o s)[i] = IF i <= Len(top) THEN top[i] ELSE s[i - Len(top)]
      /\ Len(top) \in Nat
  BY ConcatProperties, LenProperties
<1>2. Len(s) = k + 6 /\ \A i \in 1 .. 6 : s[k + i] = Frame[i]
  BY DEF FrameUnder
<1>3. ASSUME NEW i \in 1 .. 6 PROVE (top \o s)[n + i] = Frame[i]
  <2>1. /\ n + i \in 1 .. Len(top) + Len(s) /\ ~ (n + i <= Len(top))
        /\ (n + i) - Len(top) = k + i
    <3> DEFINE t == Len(top)
               l == Len(s)
    <3>1. t \in Nat /\ n = t + k /\ l = k + 6
      BY <1>1, <1>2
    <3> HIDE DEF t, l
    <3>2. n + i \in 1 .. t + l /\ ~ (n + i <= t) /\ (n + i) - t = k + i
      BY <3>1
    <3> QED  BY <3>2 DEF t, l
  <2>2. (top \o s)[n + i] = s[k + i]
    BY <1>1, <2>1
  <2> QED  BY <1>2, <2>2
<1>4. FrameUnder(top \o s, n)
  <2>1. Len(top \o s) = n + 6
    <3> DEFINE t == Len(top)
               l == Len(s)
    <3>1. t \in Nat /\ n = t + k /\ l = k + 6 /\ k \in Nat
      BY <1>1, <1>2
    <3>2. Len(top \o s) = t + l
      BY <1>1
    <3> HIDE DEF t, l
    <3> QED  BY <3>1, <3>2
  <2> QED  BY <1>3, <2>1, Zenon DEF FrameUnder
<1>5. ASSUME NEW i \in 1 .. Len(top) PROVE (top \o s)[i] = top[i]
  <2>1. i \in 1 .. Len(top) + Len(s) /\ i <= Len(top)
    BY <1>1, <1>2
  <2> QED  BY <1>1, <2>1
<1> QED  BY <1>1, <1>4, <1>5, Zenon

\* What is pushed for the child, and what is pushed for the status of a wait.
LEMMA PushForChild ==
  ASSUME NEW s \in Seq(Values), FrameUnder(s, 0), NEW r \in Registers
  PROVE  /\ ForChild(r) \o s \in Seq(Values) /\ FrameUnder(ForChild(r) \o s, 3)
         /\ (ForChild(r) \o s)[1] = r.r14 /\ (ForChild(r) \o s)[2] = r.r12
<1> DEFINE top == ForChild(r)
<1>1. top \in Seq(Values) /\ Len(top) = 3 /\ top[1] = r.r14 /\ top[2] = r.r12
  BY DEF ForChild, Registers
<1> HIDE DEF top
<1>2. 0 \in Nat /\ 3 \in Nat /\ 3 = Len(top) + 0
  BY <1>1
<1>3. /\ top \o s \in Seq(Values) /\ FrameUnder(top \o s, 3)
      /\ \A i \in 1 .. Len(top) : (top \o s)[i] = top[i]
  BY <1>1, <1>2, PushKeepsFrame, Zenon
<1> QED  BY <1>1, <1>3 DEF top

LEMMA PushStatus ==
  ASSUME NEW s \in Seq(Values), FrameUnder(s, 3)
  PROVE  <<Junk>> \o s \in Seq(Values) /\ FrameUnder(<<Junk>> \o s, 4)
<1> DEFINE top == <<Junk>>
<1>1. top \in Seq(Values) /\ Len(top) = 1
  BY ValuesInUse
<1> HIDE DEF top
<1>2. 3 \in Nat /\ 4 \in Nat /\ 4 = Len(top) + 3
  BY <1>1
<1>3. top \o s \in Seq(Values) /\ FrameUnder(top \o s, 4)
  BY <1>1, <1>2, PushKeepsFrame, Zenon
<1> QED  BY <1>3 DEF top

\* The status of a wait is popped from the values for the child.
LEMMA PopStatus ==
  ASSUME NEW s \in Seq(Values), FrameUnder(s, 4)
  PROVE  Tail(s) \in Seq(Values) /\ FrameUnder(Tail(s), 3)
<1>1. Len(s) = 10 /\ \A i \in 1 .. 6 : s[4 + i] = Frame[i]
  BY DEF FrameUnder
<1>2. s # << >>
  <2>1. Len(s) # 0 /\ Len(<< >>) = 0
    BY <1>1, EmptySeq
  <2> QED  BY <2>1, Zenon
<1>3. /\ Tail(s) \in Seq(Values) /\ Len(Tail(s)) = 9
      /\ \A i \in 1 .. 9 : Tail(s)[i] = s[i + 1]
  <2>1. /\ Tail(s) \in Seq(Values) /\ Len(Tail(s)) = Len(s) - 1
        /\ \A i \in 1 .. Len(Tail(s)) : Tail(s)[i] = s[i + 1]
    BY <1>2, HeadTailProperties
  <2>2. Len(Tail(s)) = 9
    BY <1>1, <2>1
  <2> QED  BY <2>1, <2>2, Zenon
<1>4. ASSUME NEW i \in 1 .. 6 PROVE Tail(s)[3 + i] = Frame[i]
  <2>1. 3 + i \in 1 .. 9 /\ (3 + i) + 1 = 4 + i
    OBVIOUS
  <2>2. Tail(s)[3 + i] = s[(3 + i) + 1]
    BY <1>3, <2>1
  <2> QED  BY <1>1, <2>1, <2>2
<1>5. Len(Tail(s)) = 3 + 6
  BY <1>3
<1> QED  BY <1>3, <1>4, <1>5, Zenon DEF FrameUnder

\* A return that drops exactly what lies on the frame gives the caller its
\* registers back, and finds the return address.
LEMMA ReturnRestores ==
  ASSUME stack \in Seq(Values), NEW k \in Nat, FrameUnder(stack, k),
         NEW value, NEW text, Return(value, text, k)
  PROVE  regs' = Calling /\ stack' = <<ReturnAddress>>
<1> DEFINE left == SubSeq(stack, k + 1, Len(stack))
<1>1. Len(stack) = k + 6 /\ \A i \in 1 .. 6 : stack[k + i] = Frame[i]
  BY DEF FrameUnder
<1>2. /\ left \in Seq(Values) /\ Len(left) = 6
      /\ \A i \in 1 .. 6 : left[i] = Frame[i]
  <2>1. \A i \in k + 1 .. k + 6 : stack[i] \in Values
    BY <1>1, ElementOfSeq
  <2>2. /\ left \in Seq(Values) /\ Len(left) = 6
        /\ \A i \in 1 .. 6 : left[i] = stack[k + i]
    <3>1. /\ SubSeq(stack, k + 1, k + 6) \in Seq(Values)
          /\ Len(SubSeq(stack, k + 1, k + 6)) =
               IF k + 1 <= k + 6 THEN (k + 6) - (k + 1) + 1 ELSE 0
          /\ \A i \in 1 .. (k + 6) - (k + 1) + 1 :
               SubSeq(stack, k + 1, k + 6)[i] = stack[(k + 1) + i - 1]
      BY <2>1, SubSeqProperties
    <3> QED  BY <1>1, <3>1
  <2> QED  BY <1>1, <2>2
<1> HIDE DEF left
<1>3. left[1] = Calling.r15 /\ left[2] = Calling.r14 /\ left[3] = Calling.r13
      /\ left[4] = Calling.r12 /\ left[5] = Calling.rbx /\ left[6] = ReturnAddress
  BY <1>2 DEF Frame
<1>4. regs' = Calling
  BY <1>3 DEF Return, Calling, left
<1>5. SubSeq(left, 6, 6) = <<ReturnAddress>>
  <2>1. /\ SubSeq(left, 6, 6) \in Seq(Values) /\ Len(SubSeq(left, 6, 6)) = 1
        /\ SubSeq(left, 6, 6)[1] = left[6]
    <3>1. \A i \in 6 .. 6 : left[i] \in Values
      BY <1>3, ValuesInUse
    <3>2. /\ SubSeq(left, 6, 6) \in Seq(Values)
          /\ Len(SubSeq(left, 6, 6)) = IF 6 <= 6 THEN 6 - 6 + 1 ELSE 0
          /\ \A i \in 1 .. 6 - 6 + 1 : SubSeq(left, 6, 6)[i] = left[6 + i - 1]
      BY <3>1, SubSeqProperties
    <3> QED  BY <3>2
  <2>2. <<ReturnAddress>> \in Seq(Values) /\ Len(<<ReturnAddress>>) = 1
        /\ <<ReturnAddress>>[1] = ReturnAddress
    BY ValuesInUse
  <2>3. \A i \in 1 .. 1 : SubSeq(left, 6, 6)[i] = <<ReturnAddress>>[i]
    BY <1>3, <2>1, <2>2
  <2> QED  BY <2>1, <2>2, <2>3, SeqEqual
<1>6. stack' = SubSeq(left, 6, 6)
  BY <1>2 DEF Return, left
<1> QED  BY <1>4, <1>5, <1>6

\* A path out of the search, of the fork or of the wait drops exactly what it
\* has pushed since the frame.
LEMMA EveryPathReturns ==
  ASSUME ExternalInv, OpenSbinFails \/ ForkFails \/ WaitReaps \/ WaitFails
  PROVE  pc' = "prompt" /\ regs' = Calling /\ stack' = <<ReturnAddress>>
<1>1. stack \in Seq(Values)
  BY DEF ExternalInv, ExternalTypeOK
<1>2. CASE OpenSbinFails
  <2>1. FrameUnder(stack, 0) /\ Return(1, "command not found", 0)
    BY <1>2 DEF ExternalInv, StackState, OpenSbinFails
  <2> QED  BY <1>1, <2>1, ReturnRestores DEF Return
<1>3. CASE ForkFails
  <2>1. FrameUnder(stack, 3) /\ Return(0, "fork failed", 3)
    BY <1>3 DEF ExternalInv, StackState, ForkFails
  <2> QED  BY <1>1, <2>1, ReturnRestores DEF Return
<1>4. CASE WaitReaps \/ WaitFails
  <2>1. FrameUnder(stack, 4)
    BY <1>4 DEF ExternalInv, StackState, Awaiting, WaitReaps, WaitFails
  <2>2. PICK text \in {message, "waitpid failed"} : Return(0, text, 4)
    BY <1>4 DEF WaitReaps, WaitFails
  <2> QED  BY <1>1, <2>1, <2>2, ReturnRestores DEF Return
<1> QED  BY <1>2, <1>3, <1>4

\* Entering the search pushes the caller's registers on the return address,
\* and a name with a slash goes on to what the child will pop.
LEMMA EnterPushes ==
  ASSUME ExternalInv, NEW slash \in BOOLEAN, Enter(slash)
  PROVE  /\ stack' \in Seq(Values) /\ regs' \in Registers
         /\ slash => pc' = "fork" /\ FrameUnder(stack', 3) /\ stack'[1] = Name /\ stack'[2] = Argv
         /\ ~ slash => pc' = "open_bin" /\ FrameUnder(stack', 0)
<1> DEFINE pushed == <<Calling.r15, Calling.r14, Calling.r13, Calling.r12, Calling.rbx>>
           entered == [Calling EXCEPT !.rbx = Name, !.r12 = Argv, !.r13 = TableEnd]
           direct == [entered EXCEPT !.r14 = Name]
<1>1. stack = <<ReturnAddress>>
  BY DEF ExternalInv, StackState, Enter
<1>2. entered \in Registers /\ direct \in Registers
      /\ direct.r14 = Name /\ direct.r12 = Argv
  BY ValuesInUse DEF Registers, Calling
<1>3. pushed \o stack \in Seq(Values) /\ FrameUnder(pushed \o stack, 0)
  <2>1. /\ pushed \in Seq(Values) /\ Len(pushed) = 5
        /\ stack \in Seq(Values) /\ Len(stack) = 1 /\ stack[1] = ReturnAddress
    BY <1>1, ValuesInUse DEF Registers
  <2> HIDE DEF pushed
  <2>2. /\ pushed \o stack \in Seq(Values) /\ Len(pushed \o stack) = 6
        /\ \A i \in 1 .. 6 : (pushed \o stack)[i] = IF i <= 5 THEN pushed[i] ELSE stack[i - 5]
    <3>1. /\ pushed \o stack \in Seq(Values) /\ Len(pushed \o stack) = Len(pushed) + Len(stack)
          /\ \A i \in 1 .. Len(pushed) + Len(stack) :
               (pushed \o stack)[i] = IF i <= Len(pushed) THEN pushed[i]
                                      ELSE stack[i - Len(pushed)]
      BY <2>1, ConcatProperties
    <3> QED  BY <2>1, <3>1
  <2>3. \A i \in 1 .. 6 : i \in {1, 2, 3, 4, 5} \/ i = 6
    OBVIOUS
  <2>4. \A i \in {1, 2, 3, 4, 5} : pushed[i] = Frame[i]
    BY DEF Frame, pushed
  <2>5. Frame[6] = ReturnAddress
    BY DEF Frame
  <2>6. \A i \in 1 .. 6 : (pushed \o stack)[0 + i] = Frame[i]
    <3> SUFFICES ASSUME NEW i \in 1 .. 6 PROVE (pushed \o stack)[0 + i] = Frame[i]
      OBVIOUS
    <3>1. 0 + i = i
      OBVIOUS
    <3>2. CASE i \in {1, 2, 3, 4, 5}
      <4>1. i <= 5
        BY <3>2
      <4>2. (pushed \o stack)[i] = pushed[i]
        BY <2>2, <4>1
      <4> QED  BY <2>4, <3>1, <3>2, <4>2
    <3>3. CASE i = 6
      <4>1. (pushed \o stack)[6] = stack[1]
        BY <2>2
      <4> QED  BY <2>1, <2>5, <3>1, <3>3, <4>1
    <3> QED  BY <2>3, <3>2, <3>3
  <2> QED  BY <2>2, <2>6 DEF FrameUnder
<1>4. CASE slash
  <2>1. stack' = ForChild(direct) \o (pushed \o stack) /\ pc' = "fork" /\ regs' = direct
    BY <1>4 DEF Enter
  <2> HIDE DEF pushed, direct
  <2>2. /\ stack' \in Seq(Values) /\ FrameUnder(stack', 3)
        /\ stack'[1] = direct.r14 /\ stack'[2] = direct.r12
    BY <1>2, <1>3, <2>1, PushForChild
  <2> QED  BY <1>2, <1>4, <2>1, <2>2
<1>5. CASE ~ slash
  BY <1>2, <1>3, <1>5 DEF Enter
<1> QED  BY <1>4, <1>5

\* What is pushed before the fork is what close left to be reloaded.
LEMMA ClosePushes ==
  ASSUME ExternalInv, Close
  PROVE  /\ stack' \in Seq(Values) /\ regs' \in Registers
         /\ FrameUnder(stack', 3) /\ stack'[1] = Buffer /\ stack'[2] = Argv
<1>1. PICK r \in {regs, Cleared} : regs' = [Reloaded(r) EXCEPT !.r14 = Buffer]
  BY DEF Close, AfterCall
<1>2. /\ r \in Registers /\ saved.argv = Argv /\ saved.cmd \in Values /\ saved.envp \in Values
      /\ stack \in Seq(Values) /\ FrameUnder(stack, 0)
  BY ValuesInUse DEF ExternalInv, ExternalTypeOK, SearchState, StackState, Close
<1>3. regs' \in Registers /\ regs'.r14 = Buffer /\ regs'.r12 = Argv
  BY <1>1, <1>2, ValuesInUse DEF Reloaded, Registers
<1>4. stack' = ForChild(regs') \o stack
  BY DEF Close
<1>5. /\ stack' \in Seq(Values) /\ FrameUnder(stack', 3)
      /\ stack'[1] = regs'.r14 /\ stack'[2] = regs'.r12
  BY <1>2, <1>3, <1>4, PushForChild
<1> QED  BY <1>3, <1>5

\* The steps from the prompt to the fork make no child, and keep what the fork
\* will need where a system call cannot clear it.
LEMMA SearchKeepsInv ==
  ASSUME ExternalInv,
         \/ \E slash \in BOOLEAN : Enter(slash)
         \/ OpenFound("open_bin", "close") \/ OpenFound("open_sbin", "close")
         \/ OpenBinFails \/ OpenSbinFails \/ Close \/ ForkFails
  PROVE  ExternalInv'
<1>1. proc' = proc /\ disk' = disk
  BY DEF Enter, OpenFound, OpenBinFails, OpenSbinFails, Close, ForkFails
<1>2. \A s \in Slots : ~ ShellsChild(s)
  BY DEF ExternalInv, ChildrenAwaited, Awaiting, Enter, OpenFound, OpenBinFails,
         OpenSbinFails, Close, ForkFails
<1>3. (\A s \in Slots : ~ ShellsChild(s))' /\ ~ Awaiting'
  BY <1>1, <1>2 DEF ShellsChild, Used, Awaiting, Enter, OpenFound, OpenBinFails,
         OpenSbinFails, Close, ForkFails, Return
<1>4. /\ ChildrenAwaited' /\ ChildRunsWhatWasFound' /\ WaitState' /\ (proc \in ProcTable)'
  BY <1>1, <1>3 DEF ChildrenAwaited, ChildRunsWhatWasFound, WaitState, ExternalInv
<1>5. ExternalTypeOK'
  <2>1. /\ saved \in [cmd : Values, argv : Values, envp : Values, pid : Slots \cup {NoPid}]
        /\ regs \in Registers /\ stack \in Seq(Values) /\ pathBuffer \in Places \cup {Nil}
        /\ openFds \in Nat /\ found \in Places \cup {Nil}
    BY DEF ExternalInv, ExternalTypeOK
  <2>2. saved' \in [cmd : Values, argv : Values, envp : Values, pid : Slots \cup {NoPid}]
    BY <2>1 DEF Enter, OpenFound, OpenBinFails, OpenSbinFails, Close, ForkFails,
                Values, Name, Argv, TableEnd
  <2>3. regs' \in Registers /\ stack' \in Seq(Values)
    <3>1. CASE \E slash \in BOOLEAN : Enter(slash)
      BY <3>1, EnterPushes
    <3>2. CASE OpenBinFails
      <4>1. PICK r \in {regs, Cleared} : regs' = Reloaded(r)
        BY <3>2 DEF OpenBinFails, AfterCall
      <4>2. r \in Registers
        BY <2>1, <4>1, ValuesInUse
      <4>3. regs' \in Registers
        BY <2>1, <4>1, <4>2 DEF Reloaded, Registers
      <4> QED  BY <2>1, <3>2, <4>3 DEF OpenBinFails
    <3>3. CASE OpenFound("open_bin", "close") \/ OpenFound("open_sbin", "close")
      BY <2>1, <3>3, ValuesInUse DEF OpenFound, Syscall, AfterCall
    <3>4. CASE OpenSbinFails \/ ForkFails
      <4>1. <<ReturnAddress>> \in Seq(Values)
        BY ValuesInUse
      <4> QED  BY <3>4, <4>1, EveryPathReturns, ValuesInUse
    <3>5. CASE Close
      BY <3>5, ClosePushes
    <3> QED  BY <3>1, <3>2, <3>3, <3>4, <3>5
  <2>4. openFds' \in Nat
    <3>1. Close => openFds = 1
      BY DEF ExternalInv, Descriptors, Close
    <3>2. openFds' = openFds \/ openFds' = openFds + 1 \/ (Close /\ openFds' = openFds - 1)
      BY DEF Enter, OpenFound, OpenBinFails, OpenSbinFails, Close, ForkFails
    <3> QED  BY <2>1, <3>1, <3>2
  <2>5. pathBuffer' \in Places \cup {Nil} /\ found' \in Places \cup {Nil}
    BY <2>1 DEF Enter, OpenFound, OpenBinFails, OpenSbinFails, Close, ForkFails, Places,
                ghostVars
  <2>6. /\ pc' \in {"prompt", "open_bin", "open_sbin", "close", "fork"}
        /\ message' \in {message, "none", "command not found", "fork failed"}
        /\ result' \in {result, 0, 1}
    BY DEF Enter, OpenFound, OpenBinFails, OpenSbinFails, Close, ForkFails, Return
  <2>7. stolen' \in {stolen, FALSE}
    BY DEF Enter, OpenFound, OpenBinFails, OpenSbinFails, Close, ForkFails, ghostVars
  <2> QED  BY <1>1, <2>2, <2>3, <2>4, <2>5, <2>6, <2>7 DEF ExternalInv, ExternalTypeOK
<1>6. SearchState'
  <2>1. CASE \E slash \in BOOLEAN : Enter(slash)
    <3>1. saved'.argv = Argv
      BY <2>1 DEF Enter, ExternalInv, ExternalTypeOK
    <3>2. message' = "none" /\ stolen' = FALSE
      BY <2>1 DEF Enter
    <3>3. \/ pc' = "fork" /\ stack'[2] = Argv /\ stack'[1] = Name /\ found' = "direct"
          \/ pc' = "open_bin" /\ pathBuffer' = "bin"
      BY <2>1, EnterPushes DEF Enter
    <3>4. ~ stolen'
      BY <3>2
    <3>5. stack'[1] = Name => Target(stack[1])' = "direct"
      BY DEF Target, Name, Buffer
    <3> QED  BY <3>1, <3>2, <3>3, <3>4, <3>5 DEF SearchState, Places
  <2>2. CASE OpenFound("open_bin", "close") \/ OpenFound("open_sbin", "close")
    BY <2>2 DEF ExternalInv, SearchState, OpenFound
  <2>3. CASE OpenBinFails
    BY <2>3 DEF ExternalInv, SearchState, OpenBinFails, ghostVars, Places
  <2>4. CASE Close
    BY <2>4, ClosePushes DEF ExternalInv, SearchState, Close, ghostVars, Target, Buffer, Name
  <2>5. CASE OpenSbinFails \/ ForkFails
    BY <2>5 DEF SearchState, OpenSbinFails, ForkFails, Return
  <2> QED  BY <2>1, <2>2, <2>3, <2>4, <2>5
<1>7. Descriptors' /\ StackState'
  <2>1. Descriptors'
    <3>1. CASE Close
      BY <3>1 DEF ExternalInv, Descriptors, Close
    <3>2. CASE ~ Close
      <4>1. \/ pc # "close" /\ pc' # "close" /\ openFds' = openFds
            \/ pc # "close" /\ pc' = "close" /\ openFds' = openFds + 1
        BY <3>2 DEF Enter, OpenFound, OpenBinFails, OpenSbinFails, ForkFails, Return
      <4> QED  BY <4>1 DEF ExternalInv, Descriptors
    <3> QED  BY <3>1, <3>2
  <2>2. StackState'
    <3>1. CASE \E slash \in BOOLEAN : Enter(slash)
      BY <1>3, <3>1, EnterPushes DEF StackState
    <3>2. CASE \/ OpenFound("open_bin", "close") \/ OpenFound("open_sbin", "close")
               \/ OpenBinFails
      BY <1>3, <3>2 DEF ExternalInv, StackState, OpenFound, OpenBinFails
    <3>3. CASE OpenSbinFails \/ ForkFails
      BY <1>3, <3>3, EveryPathReturns DEF StackState
    <3>4. CASE Close
      <4>1. pc' = "fork"
        BY <3>4 DEF Close
      <4> QED  BY <1>3, <3>4, <4>1, ClosePushes DEF StackState
    <3> QED  BY <3>1, <3>2, <3>3, <3>4
  <2> QED  BY <2>1, <2>2
<1>8. WaitFailsOnlyIfStolen'
  BY DEF ExternalInv, WaitFailsOnlyIfStolen, SearchState, Enter, OpenFound, OpenBinFails,
         OpenSbinFails, Close, ForkFails, Return, ghostVars
<1> QED  BY <1>4, <1>5, <1>6, <1>7, <1>8 DEF ExternalInv

\* The fork puts the only child into the slot the shell will wait for.
LEMMA ForkKeepsInv ==
  ASSUME ExternalInv, NEW s \in Slots, Fork(s)
  PROVE  ExternalInv'
<1> DEFINE child == Child(Target(stack[1]), stack[2], stack[3])
<1>1. /\ pc = "fork" /\ pc' = "wait"
      /\ proc' = [proc EXCEPT ![s] = child] /\ proc \in ProcTable
      /\ UNCHANGED <<pathBuffer, openFds, message, result, found, stolen, disk>>
  BY DEF Fork, ExternalInv, ghostVars
<1>2. /\ saved.argv = Argv /\ message = "none" /\ ~ stolen
      /\ found \in Places /\ Target(stack[1]) = found /\ stack[2] = Argv
  BY <1>1 DEF ExternalInv, SearchState
<1>3. /\ saved \in [cmd : Values, argv : Values, envp : Values, pid : Slots \cup {NoPid}]
      /\ regs \in Registers /\ stack \in Seq(Values) /\ FrameUnder(stack, 3) /\ stack[3] \in Values
  <2>1. /\ saved \in [cmd : Values, argv : Values, envp : Values, pid : Slots \cup {NoPid}]
        /\ regs \in Registers /\ stack \in Seq(Values) /\ FrameUnder(stack, 3)
    BY <1>1 DEF ExternalInv, ExternalTypeOK, StackState
  <2>2. Len(stack) = 9 /\ 3 \in 1 .. Len(stack)
    BY <2>1 DEF FrameUnder
  <2> QED  BY <2>1, <2>2, ElementOfSeq
<1>4. child \in ChildRecords /\ child.path = found /\ child.argv = Argv /\ child.parent = "shell"
      /\ child.state = "child"
  BY <1>2, <1>3, ValuesInUse DEF Child, ChildRecords
<1> HIDE DEF child
<1>5. /\ proc' \in ProcTable /\ proc'[s] = child
      /\ \A t \in Slots : t # s => proc'[t] = proc[t]
  BY <1>1, <1>4 DEF ProcTable
<1>6. \A t \in Slots : ~ ShellsChild(t)
  BY <1>1 DEF ExternalInv, ChildrenAwaited, Awaiting
<1>7. ShellsChild(s)' /\ \A t \in Slots : ShellsChild(t)' => t = s
  BY <1>4, <1>5, <1>6 DEF ShellsChild, Used
<1>8. /\ saved' \in [cmd : Values, argv : Values, envp : Values, pid : Slots \cup {NoPid}]
      /\ saved'.pid = s
  BY <1>3 DEF Fork
<1>9. regs' \in Registers
  BY <1>3, ValuesInUse DEF Fork, Syscall, AfterCall
<1>10. stack' \in Seq(Values) /\ FrameUnder(stack', 4)
  BY <1>3, PushStatus DEF Fork
<1>11. ExternalTypeOK'
  BY <1>1, <1>5, <1>8, <1>9, <1>10 DEF ExternalInv, ExternalTypeOK, ProcTable, ChildRecords
<1>12. ChildrenAwaited' /\ ChildRunsWhatWasFound'
  BY <1>1, <1>2, <1>4, <1>5, <1>7, <1>8
  DEF ChildrenAwaited, ChildRunsWhatWasFound, Awaiting, Places, Nil
<1>13. SearchState' /\ WaitState' /\ Descriptors' /\ StackState' /\ WaitFailsOnlyIfStolen'
  BY <1>1, <1>2, <1>7, <1>8, <1>10
  DEF ExternalInv, SearchState, WaitState, Descriptors, StackState, WaitFailsOnlyIfStolen
<1> QED  BY <1>5, <1>11, <1>12, <1>13 DEF ExternalInv

\* waitpid, whatever it returns: the shell comes back to the prompt only when
\* its child is gone.
LEMMA WaitKeepsInv ==
  ASSUME ExternalInv, WaitReaps \/ WaitBlocks \/ Wake \/ WaitFails
  PROVE  ExternalInv'
<1>1. /\ Awaiting /\ saved' = saved /\ found' = found /\ stolen' = stolen /\ disk' = disk
      /\ openFds' = openFds /\ pathBuffer' = pathBuffer
  BY DEF WaitReaps, WaitBlocks, Wake, WaitFails, Awaiting, ghostVars
<1>2. regs \in Registers /\ stack \in Seq(Values) /\ FrameUnder(stack, 4)
  BY <1>1 DEF ExternalInv, ExternalTypeOK, StackState
<1>3. <<ReturnAddress>> \in Seq(Values)
  BY ValuesInUse
<1>4. saved.pid \in Slots /\ message = "none" /\ (stolen <=> ~ ShellsChild(saved.pid))
  BY <1>1 DEF ExternalInv, WaitState
<1>5. CASE WaitBlocks \/ Wake
  <2>1. regs' \in Registers /\ stack' \in Seq(Values) /\ FrameUnder(stack', 4)
    <3>1. CASE WaitBlocks
      BY <1>2, <3>1, ValuesInUse DEF WaitBlocks, Syscall, AfterCall
    <3>2. CASE Wake
      BY <1>2, <3>2, PopStatus, PushStatus DEF Wake
    <3> QED  BY <1>5, <3>1, <3>2
  <2>2. proc' = proc /\ Awaiting' /\ message' = message /\ result' = result
    BY <1>5 DEF WaitBlocks, Wake, Awaiting
  <2>3. ExternalTypeOK'
    BY <1>1, <2>1, <2>2 DEF ExternalInv, ExternalTypeOK, Awaiting
  <2>4. \A t \in Slots : ShellsChild(t)' <=> ShellsChild(t)
    BY <2>2 DEF ShellsChild, Used
  <2>5. ChildrenAwaited' /\ ChildRunsWhatWasFound' /\ WaitState'
    BY <1>1, <1>4, <2>2, <2>4
    DEF ExternalInv, ChildrenAwaited, ChildRunsWhatWasFound, WaitState
  <2> QED  BY <1>1, <2>1, <2>2, <2>3, <2>5
    DEF ExternalInv, SearchState, Descriptors, StackState, WaitFailsOnlyIfStolen, Awaiting
<1>6. CASE WaitReaps
  <2>1. PICK s \in Slots : /\ s = saved.pid /\ ShellsChild(s)
                           /\ proc' = [proc EXCEPT ![s] = Free]
    BY <1>6 DEF WaitReaps
  <2>2. /\ proc' \in ProcTable /\ proc'[s] = Free
        /\ \A t \in Slots : t # s => proc'[t] = proc[t]
    BY <2>1 DEF ExternalInv, ProcTable
  <2>3. pc' = "prompt" /\ message' = "none" /\ result' = 0 /\ ~ stolen
        /\ regs' = Calling /\ stack' = <<ReturnAddress>>
    BY <1>4, <1>6, <2>1, EveryPathReturns DEF WaitReaps, Return
  <2>4. \A t \in Slots : ~ ShellsChild(t)'
    BY <2>1, <2>2 DEF ExternalInv, ChildrenAwaited, ShellsChild, Used, Free
  <2>5. ExternalTypeOK'
    BY <1>1, <1>3, <2>2, <2>3, ValuesInUse DEF ExternalInv, ExternalTypeOK, ProcTable, ChildRecords
  <2> QED  BY <1>1, <2>2, <2>3, <2>4, <2>5
    DEF ExternalInv, ChildrenAwaited, ChildRunsWhatWasFound, SearchState, WaitState,
        StackState, Descriptors, WaitFailsOnlyIfStolen, Awaiting
<1>7. CASE WaitFails
  <2>1. /\ pc' = "prompt" /\ message' = "waitpid failed" /\ result' = 0
        /\ proc' = proc /\ ~ ShellsChild(saved.pid) /\ stolen
        /\ regs' = Calling /\ stack' = <<ReturnAddress>>
    BY <1>4, <1>7, EveryPathReturns DEF WaitFails, Return
  <2>2. \A t \in Slots : ~ ShellsChild(t)'
    BY <2>1 DEF ExternalInv, ChildrenAwaited, ShellsChild, Used
  <2>3. ExternalTypeOK'
    BY <1>1, <1>3, <2>1, ValuesInUse DEF ExternalInv, ExternalTypeOK
  <2> QED  BY <1>1, <2>1, <2>2, <2>3
    DEF ExternalInv, ChildrenAwaited, ChildRunsWhatWasFound, SearchState, WaitState,
        StackState, Descriptors, WaitFailsOnlyIfStolen, Awaiting
<1> QED  BY <1>5, <1>6, <1>7

\* The child and the rest of the system: only a theft takes a child away, and
\* nobody else becomes one.
LEMMA SystemKeepsInv ==
  ASSUME ExternalInv, NEW s \in Slots,
         \/ ChildStep(s) \/ ProgramExits(s) \/ OtherStarts(s) \/ OtherEnds(s) \/ Steal(s)
  PROVE  ExternalInv'
<1>1. UNCHANGED shellVars /\ found' = found /\ disk' = disk
  BY DEF ChildStep, Exec, ExecFails, ProgramExits, OtherStarts, OtherEnds, Steal, ghostVars
<1>2. proc \in ProcTable
  BY DEF ExternalInv
<1>3. PICK entry \in {Free, Other} \cup ChildRecords : proc' = [proc EXCEPT ![s] = entry]
  <2>1. ASSUME ShellsChild(s), NEW st \in {"program", "zombie"}
        PROVE  [proc[s] EXCEPT !.state = st] \in ChildRecords
    BY <1>2, <2>1, TableEntries DEF ChildRecords
  <2> QED  BY <2>1 DEF ChildStep, Exec, ExecFails, ProgramExits, OtherStarts, OtherEnds, Steal
<1>4. /\ proc' \in ProcTable /\ proc'[s] = entry
      /\ \A t \in Slots : t # s => proc'[t] = proc[t]
  BY <1>2, <1>3 DEF ProcTable
<1>5. \A t \in Slots : t # s => (ShellsChild(t)' <=> ShellsChild(t))
  BY <1>4 DEF ShellsChild, Used
<1>6. /\ ShellsChild(s)' => /\ ShellsChild(s)
                            /\ proc'[s].argv = proc[s].argv /\ proc'[s].path = proc[s].path
      /\ ~ Steal(s) => (ShellsChild(s)' <=> ShellsChild(s)) /\ stolen' = stolen
      /\ Steal(s) => ShellsChild(s) /\ ~ ShellsChild(s)' /\ stolen' = TRUE
  <2>1. CASE ShellsChild(s) /\ ~ Steal(s)
    <3>1. PICK st \in {"program", "zombie"} : proc'[s] = [proc[s] EXCEPT !.state = st]
      BY <1>2, <2>1 DEF ProcTable, ChildStep, Exec, ExecFails, ProgramExits, OtherStarts,
                        OtherEnds, ShellsChild, Used, Other, Free
    <3>2. proc[s] \in ChildRecords
      BY <1>2, <2>1, TableEntries
    <3>3. proc'[s].parent = "shell" /\ proc'[s].state # "free"
          /\ proc'[s].argv = proc[s].argv /\ proc'[s].path = proc[s].path
      BY <3>1, <3>2 DEF ChildRecords
    <3> QED  BY <2>1, <3>3
      DEF ShellsChild, Used, ChildStep, Exec, ExecFails, ProgramExits, OtherStarts, OtherEnds,
          ghostVars
  <2>2. CASE Steal(s)
    BY <1>2, <2>2 DEF Steal, ProcTable, ShellsChild, Used, Free
  <2>3. CASE ~ ShellsChild(s)
    <3>1. proc'[s] \in {Free, Other} /\ stolen' = stolen
      BY <1>2, <2>3 DEF ProcTable, ChildStep, Exec, ExecFails, ProgramExits, OtherStarts,
                        OtherEnds, Steal, ghostVars
    <3>2. ~ ShellsChild(s)'
      BY <3>1 DEF ShellsChild, Used, Free, Other
    <3> QED  BY <2>3, <3>1, <3>2 DEF Steal
  <2> QED  BY <2>1, <2>2, <2>3
<1>7. ExternalTypeOK'
  <2>1. ExternalTypeOK /\ UNCHANGED <<shellVars, found, disk>>
    BY <1>1 DEF ExternalInv
  <2>2. stolen' \in BOOLEAN
    BY <1>6, <2>1 DEF ExternalTypeOK
  <2>3. \A t \in Slots : proc'[t] \in {Free, Other} \/ proc'[t] \in ChildRecords
    BY <1>4 DEF ProcTable
  <2> QED  BY <2>1, <2>2, <2>3, Zenon DEF ExternalTypeOK, ChildRecords, shellVars
<1>8. ChildrenAwaited' /\ ChildRunsWhatWasFound'
  BY <1>1, <1>4, <1>5, <1>6
  DEF ExternalInv, ChildrenAwaited, ChildRunsWhatWasFound, Awaiting, shellVars
<1>9. WaitState'
  <2>1. Steal(s) => Awaiting /\ saved.pid = s
    BY DEF ExternalInv, ChildrenAwaited, Steal
  <2> QED  BY <1>1, <1>5, <1>6, <2>1 DEF ExternalInv, WaitState, Awaiting, shellVars
<1>10. pc \notin {"wait", "blocked"} => stolen' = stolen
  BY <1>6 DEF ExternalInv, ChildrenAwaited, Awaiting
<1>11. SearchState'
  <2>1. stack' = stack /\ Target(stack[1])' = Target(stack[1]) /\ pc' = pc /\ saved' = saved
        /\ pathBuffer' = pathBuffer /\ message' = message
    BY <1>1 DEF shellVars, Target
  <2> QED  BY <1>1, <1>10, <2>1 DEF ExternalInv, SearchState
<1>12. Descriptors' /\ WaitFailsOnlyIfStolen' /\ StackState'
  <2>1. pc' = pc /\ openFds' = openFds /\ message' = message /\ stack' = stack /\ regs' = regs
    BY <1>1 DEF shellVars
  <2>2. WaitFailsOnlyIfStolen'
    BY <1>10, <2>1, Zenon DEF ExternalInv, WaitFailsOnlyIfStolen
  <2> QED  BY <2>1, <2>2 DEF ExternalInv, Descriptors, StackState, FrameUnder, Awaiting
<1> QED  BY <1>4, <1>7, <1>8, <1>9, <1>11, <1>12 DEF ExternalInv

\* The shell starts at its prompt with no child.
LEMMA ExternalInvInit == ExternalInit => ExternalInv
<1> SUFFICES ASSUME ExternalInit PROVE ExternalInv
  OBVIOUS
<1>1. <<ReturnAddress>> \in Seq(Values)
  BY ValuesInUse
<1>2. \A s \in Slots : proc[s] \in {Free, Other} /\ ~ ShellsChild(s)
  BY DEF ExternalInit, ShellsChild, Used, Free, Other
<1>3. regs \in Registers
  BY ValuesInUse DEF ExternalInit
<1>4. ExternalTypeOK
  BY <1>1, <1>2, <1>3 DEF ExternalInit, ExternalTypeOK, Values, Nil, Environment
<1> QED  BY <1>2, <1>4
  DEF ExternalInit, ExternalInv, ProcTable, ChildrenAwaited, ChildRunsWhatWasFound,
      SearchState, WaitState, Awaiting, Descriptors, StackState, WaitFailsOnlyIfStolen

\* Every step of the shell, of its child and of other processes keeps it.
LEMMA ExternalInvNext == ExternalInv /\ [ExternalNext]_externalVars => ExternalInv'
<1> SUFFICES ASSUME ExternalInv, [ExternalNext]_externalVars PROVE ExternalInv'
  OBVIOUS
<1>1. CASE UNCHANGED <<shellVars, ghostVars, proc>> /\ disk' \subseteq Places
  <2>1. UNCHANGED <<pc, regs, saved, pathBuffer, stack, openFds, message, result, found, stolen,
                    proc>>
    BY <1>1 DEF shellVars, ghostVars
  <2>2. ExternalTypeOK' /\ proc' \in ProcTable
    <3>1. ExternalTypeOK /\ proc \in ProcTable
      BY DEF ExternalInv
    <3>2. proc' \in ProcTable /\ disk' \subseteq Places
      BY <1>1, <2>1, <3>1
    <3>3. \A s \in Slots : proc'[s] \in {Free, Other} \cup ChildRecords
      BY <3>2 DEF ProcTable
    <3>4. /\ pc' \in {"prompt", "open_bin", "open_sbin", "close", "fork", "wait", "blocked"}
          /\ openFds' \in Nat /\ result' \in {0, 1} /\ stolen' \in BOOLEAN
          /\ message' \in {"none", "command not found", "fork failed", "waitpid failed"}
      BY <2>1, <3>1 DEF ExternalTypeOK
    <3>5. /\ regs' \in Registers /\ pathBuffer' \in Places \cup {Nil}
          /\ stack' \in Seq(Values) /\ found' \in Places \cup {Nil}
          /\ saved' \in [cmd : Values, argv : Values, envp : Values,
                        pid : Slots \cup {NoPid}]
      BY <2>1, <3>1, Zenon DEF ExternalTypeOK
    <3> QED  BY <3>2, <3>3, <3>4, <3>5, Zenon DEF ExternalTypeOK, ChildRecords
  <2>3. ChildrenAwaited' /\ WaitState'
    BY <2>1 DEF ExternalInv, ChildrenAwaited, WaitState, Awaiting, ShellsChild, Used
  <2>4. ChildRunsWhatWasFound'
    BY <2>1 DEF ExternalInv, ChildRunsWhatWasFound, ShellsChild, Used
  <2>5. SearchState'
    BY <2>1 DEF ExternalInv, SearchState, Target
  <2>6. Descriptors' /\ StackState' /\ WaitFailsOnlyIfStolen'
    BY <2>1 DEF ExternalInv, Descriptors, StackState, FrameUnder, Awaiting, WaitFailsOnlyIfStolen
  <2> QED  BY <2>2, <2>3, <2>4, <2>5, <2>6 DEF ExternalInv
<1>2. CASE ChangeDisk
  BY <1>1, <1>2 DEF ChangeDisk
<1>3. CASE UNCHANGED externalVars
  BY <1>1, <1>3 DEF externalVars, ExternalInv, ExternalTypeOK
<1>4. CASE \E s \in Slots : Fork(s)
  BY <1>4, ForkKeepsInv
<1>5. CASE \E s \in Slots :
             ChildStep(s) \/ ProgramExits(s) \/ OtherStarts(s) \/ OtherEnds(s) \/ Steal(s)
  BY <1>5, SystemKeepsInv
<1> QED  BY <1>2, <1>3, <1>4, <1>5, SearchKeepsInv, WaitKeepsInv DEF ExternalNext, ShellStep

\* Every behaviour of the shell and of the system around it keeps the
\* invariant, for every number of process slots.
THEOREM ExternalInvariance == ExternalSpec => []ExternalInv
<1> QED  BY ExternalInvInit, ExternalInvNext, PTL DEF ExternalSpec

\* Type correctness of the shell's state and of the process table.
THEOREM ExternalTypeCorrect == ExternalSpec => []ExternalTypeOK
<1>1. ExternalInv => ExternalTypeOK
  BY DEF ExternalInv
<1> QED  BY <1>1, ExternalInvariance, PTL

\* The shell has a child only while it waits for it, and no other one: no
\* command is left in the process table when the prompt is back.
THEOREM OnlyChildIsAwaited == ExternalSpec => []ChildrenAwaited
<1>1. ExternalInv => ChildrenAwaited
  BY DEF ExternalInv
<1> QED  BY <1>1, ExternalInvariance, PTL

\* The path and the argument table reach the child, although a system call
\* between the search and the fork may have cleared every register.
THEOREM ChildRunsCommand == ExternalSpec => []ChildRunsWhatWasFound
<1>1. ExternalInv => ChildRunsWhatWasFound
  BY DEF ExternalInv
<1> QED  BY <1>1, ExternalInvariance, PTL

\* Whichever path a command takes, and however often its wait is tried, the
\* caller has its registers, its stack and its descriptors back.
THEOREM StackAndDescriptorsBalanced == ExternalSpec => []NothingLeftBehind
<1>1. ExternalInv => NothingLeftBehind
  BY DEF ExternalInv, NothingLeftBehind, StackState, Descriptors
<1> QED  BY <1>1, ExternalInvariance, PTL

\* "waitpid failed" is printed for exactly the commands somebody else reaped.
THEOREM WaitFailsForTheftOnly == ExternalSpec => []WaitFailsOnlyIfStolen
<1>1. ExternalInv => WaitFailsOnlyIfStolen
  BY DEF ExternalInv
<1> QED  BY <1>1, ExternalInvariance, PTL

=============================================================================
