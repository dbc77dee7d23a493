--------------------------- MODULE AllocatorContract ---------------------------
(***************************************************************************)
(* What the Rust shell expects of its global allocator (GlobalAlloc, which  *)
(* src/vibix/allocator.rs implements): memory that is handed out is aligned *)
(* as asked, lies below the program break, is not shared with any other     *)
(* live allocation, and stays so until it is given back.                    *)
(***************************************************************************)
EXTENDS Integers

CONSTANTS
  BrkStarts,  \* where the program break may be when the shell starts
  Layouts     \* [size, align]: the layouts the shell asks for

VARIABLES
  live,       \* the live allocations: [ptr, size, align]
  brk,        \* the program break
  brkStart    \* where it was when the shell started

Memory(a) == a.ptr .. (a.ptr + a.size - 1)

ContractInit == live = {} /\ brkStart \in BrkStarts /\ brk = brkStart

\* The break may grow, whether or not memory is returned.
ContractAlloc(l) ==
  /\ brk' \in Nat /\ brk' >= brk /\ UNCHANGED brkStart
  /\ \/ live' = live
     \/ \E a \in live' :
          /\ a \notin live /\ live' = live \cup {a}
          /\ a.size = l.size /\ a.align = l.align
          /\ a.ptr % l.align = 0
          /\ a.ptr >= brkStart /\ a.ptr + a.size <= brk'
          /\ \A other \in live : a.ptr + a.size <= other.ptr \/ other.ptr + other.size <= a.ptr

ContractDealloc ==
  /\ \E a \in live : live' = live \ {a}
  /\ UNCHANGED <<brk, brkStart>>

ContractNext == ContractDealloc \/ \E l \in Layouts : ContractAlloc(l)

ContractSpec == ContractInit /\ [][ContractNext]_<<live, brk, brkStart>>

=============================================================================
