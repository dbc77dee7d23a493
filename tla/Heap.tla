---------------------------------- MODULE Heap ----------------------------------
(***************************************************************************)
(* The heap of the Rust shell on VIBIX: src/vibix/allocator.rs.  A first-fit *)
(* list of blocks in memory obtained from brk, with splitting, coalescing    *)
(* and alignment, in bytes as in the code.                                   *)
(*                                                                         *)
(* A block is its header and the memory after it; blocks is the linked list  *)
(* from head on.  The word before the memory that is handed out holds the    *)
(* address of the block: backLink.  The shell is one thread, so LOCK is      *)
(* never contended and is left out.  Sums of sizes stay far below 2^64 in    *)
(* every instance, so the saturating additions are plain ones.               *)
(*                                                                         *)
(* brk is external: the kernel moves the break to the address asked for, or, *)
(* beyond BrkSpace, leaves it alone and returns the old one.                 *)
(***************************************************************************)
EXTENDS Integers, Sequences

CONSTANTS
  BrkStarts,  \* where the program break may be when the shell starts
  BrkSpace,   \* the kernel grants no more than this many bytes
  Layouts     \* the layouts the shell asks for: [size, align]

ALIGN == 16
PAGE == 4096
Header == 32    \* size_of::<Block>(), a multiple of its alignment 16
Word == 8       \* size_of::<usize>()

ASSUME HeapAssumption ==
  /\ BrkStarts \subseteq Nat /\ BrkSpace \in Nat
  /\ Layouts \subseteq [size : Nat \ {0}, align : {1, 2, 4, 8, 16, 32, 64, 128}]

VARIABLES
  blocks,     \* the list of blocks: [base, span, free]
  backLink,   \* live pointer -> what the word before it holds
  live,       \* the live allocations: [ptr, size, align] (history variable)
  brk,        \* the program break
  brkStart    \* where it was when the shell started; it never changes

heapVars == <<blocks, backLink, live, brk, brkStart>>

MaxOf(a, b) == IF a >= b THEN a ELSE b
AlignUp(value, alignment) == ((value + alignment - 1) \div alignment) * alignment
AlignDown(value, alignment) == (value \div alignment) * alignment

End(b) == b.base + b.span

-----------------------------------------------------------------------------
(* Operations on the list. *)

Contiguous(b, next) == b.free /\ next.free /\ End(b) = next.base

\* Heap::coalesce on the i-th block
Coalesced(list, i) ==
  IF i \in 1 .. Len(list) - 1 /\ Contiguous(list[i], list[i + 1])
  THEN SubSeq(list, 1, i - 1)
         \o <<[list[i] EXCEPT !.span = @ + list[i + 1].span]>>
         \o SubSeq(list, i + 2, Len(list))
  ELSE list

\* A fault: what aligning the start took is not taken off the length.
WithWholeRegion(list, start, bytes) ==
  LET base == AlignUp(start, ALIGN)
      span == AlignDown(bytes, ALIGN)
  IN  IF span < Header + ALIGN
      THEN list
      ELSE Coalesced(Append(list, [base |-> base, span |-> span, free |-> TRUE]), Len(list))

\* A fault: the new region stays a block of its own.
WithSeparateRegion(list, start, bytes) ==
  LET base == AlignUp(start, ALIGN)
      span == AlignDown(bytes - (base - start), ALIGN)
  IN  IF span < Header + ALIGN
      THEN list
      ELSE Append(list, [base |-> base, span |-> span, free |-> TRUE])

\* Heap::add_region: a block at the end of the list, if it is large enough.
WithRegion(list, start, bytes) ==
  LET base == AlignUp(start, ALIGN)
      span == AlignDown(bytes - (base - start), ALIGN)
  IN  IF span < Header + ALIGN
      THEN list
      ELSE Coalesced(Append(list, [base |-> base, span |-> span, free |-> TRUE]), Len(list))

\* A fault: there is no room for the word that leads back to the block.
PayloadWithoutLink(b, l) == AlignUp(b.base + Header, MaxOf(l.align, ALIGN))

\* The pointer a block would hand out for a layout, and the bytes it takes.
Payload(b, l) == AlignUp(b.base + Header + Word, MaxOf(l.align, ALIGN))

Required(b, l) == AlignUp(Payload(b, l) + l.size - b.base, ALIGN)

\* A fault: a used block is as good as a free one.
FitsUsedOrFree(b, l) == Required(b, l) <= b.span
Fits(b, l) == b.free /\ Required(b, l) <= b.span

FirstFit(list, l, i) ==
  /\ i \in 1 .. Len(list) /\ Fits(list[i], l)
  /\ \A j \in 1 .. i - 1 : ~ Fits(list[j], l)

\* The block is used; what remains is split off if it can be a block.
Taken(list, i, l) ==
  LET b == list[i]
      need == Required(b, l)
      rest == b.span - need
      pieces ==
        IF rest >= Header + ALIGN
        THEN <<[base |-> b.base, span |-> need, free |-> FALSE],
               [base |-> b.base + need, span |-> rest, free |-> TRUE]>>
        ELSE <<[b EXCEPT !.free = FALSE]>>
  IN  SubSeq(list, 1, i - 1) \o pieces \o SubSeq(list, i + 1, Len(list))

\* A fault: the block is merged with the one after it only.
ReleasedForward(list, i) == Coalesced([list EXCEPT ![i].free = TRUE], i)

\* Heap::deallocate: the block is free, and is merged with its neighbours.
Released(list, i) ==
  Coalesced(Coalesced([list EXCEPT ![i].free = TRUE], i), i - 1)

-----------------------------------------------------------------------------
(* alloc and dealloc. *)

HeapInit ==
  /\ blocks = << >>
  /\ backLink = << >>
  /\ live = {}
  /\ brkStart \in BrkStarts
  /\ brk = brkStart

\* A fault: the word before the pointer is not written.
HandOutUnlinked(list, l) ==
  \E i \in 1 .. Len(list) :
    /\ FirstFit(list, l, i)
    /\ blocks' = Taken(list, i, l)
    /\ live' = live \cup {[ptr |-> Payload(list[i], l), size |-> l.size, align |-> l.align]}
    /\ UNCHANGED backLink

\* Heap::allocate succeeds on this list.
HandOut(list, l) ==
  \E i \in 1 .. Len(list) :
    /\ FirstFit(list, l, i)
    /\ LET p == Payload(list[i], l)
       IN  /\ blocks' = Taken(list, i, l)
           /\ backLink' = [q \in DOMAIN backLink \cup {p} |->
                             IF q = p THEN list[i].base ELSE backLink[q]]
           /\ live' = live \cup {[ptr |-> p, size |-> l.size, align |-> l.align]}

\* Heap::allocate finds no block in this list.
NoFit(list, l) == \A i \in 1 .. Len(list) : ~ Fits(list[i], l)

\* The bytes grow asks for.
GrowBytes(l) == AlignUp(MaxOf(l.size + l.align + Header + Word, PAGE), PAGE)

\* A block of the list is large enough.
AllocFromList(l) ==
  /\ HandOut(blocks, l)
  /\ UNCHANGED <<brk, brkStart>>

\* It is not, and the kernel does not move the break: null is returned.
AllocRefused(l) ==
  /\ NoFit(blocks, l)
  /\ brk + GrowBytes(l) > brkStart + BrkSpace
  /\ UNCHANGED <<blocks, backLink, live, brk, brkStart>>

\* It is not, the heap grows, and is searched once more; if that finds nothing
\* either (GrowBytes leaves out the rounding of Required), null is returned.
AllocAfterGrowth(l) ==
  LET grown == WithRegion(blocks, brk, GrowBytes(l))
  IN  /\ NoFit(blocks, l)
      /\ brk + GrowBytes(l) <= brkStart + BrkSpace
      /\ brk' = brk + GrowBytes(l)
      /\ UNCHANGED brkStart
      /\ \/ HandOut(grown, l)
         \/ /\ NoFit(grown, l)
            /\ blocks' = grown
            /\ UNCHANGED <<backLink, live>>

Alloc(l) == AllocFromList(l) \/ AllocRefused(l) \/ AllocAfterGrowth(l)

\* The block is the one whose address the word before the pointer holds.
Dealloc(a) ==
  \E i \in 1 .. Len(blocks) :
    /\ blocks[i].base = backLink[a.ptr]
    /\ blocks' = Released(blocks, i)
    /\ live' = live \ {a}
    /\ backLink' = [q \in DOMAIN backLink \ {a.ptr} |-> backLink[q]]
    /\ UNCHANGED <<brk, brkStart>>

HeapNext ==
  \/ \E l \in Layouts : Alloc(l)
  \/ \E a \in live : Dealloc(a)

HeapSpec == HeapInit /\ [][HeapNext]_heapVars

-----------------------------------------------------------------------------
(* Properties. *)

HeapTypeOK ==
  /\ blocks \in Seq([base : Nat, span : Nat, free : BOOLEAN])
  /\ live \subseteq [ptr : Nat, size : Nat, align : Nat]
  /\ DOMAIN backLink = {a.ptr : a \in live}
  /\ \A a \in live : backLink[a.ptr] \in Nat
  /\ brkStart \in BrkStarts /\ brk \in brkStart .. brkStart + BrkSpace

\* The blocks are aligned, large enough to be one, in the order of their
\* addresses, apart from each other, and inside the memory brk has granted.
BlocksApart ==
  /\ \A i \in 1 .. Len(blocks) :
       /\ blocks[i].base % ALIGN = 0 /\ blocks[i].span % ALIGN = 0
       /\ blocks[i].span >= Header + ALIGN
       /\ blocks[i].base >= brkStart /\ End(blocks[i]) <= brk
  /\ \A i, j \in 1 .. Len(blocks) : i < j => End(blocks[i]) <= blocks[j].base

\* Each live allocation lies in a used block of its own, behind the header
\* and the word that leads back to it, and each used block has one: dealloc
\* finds the right header, and no write to the memory can reach a header.
LiveInOwnBlock ==
  /\ \A a \in live : \E i \in 1 .. Len(blocks) :
       /\ blocks[i].base = backLink[a.ptr] /\ ~ blocks[i].free
       /\ blocks[i].base + Header + Word <= a.ptr
       /\ a.ptr + a.size <= End(blocks[i])
  /\ \A a, c \in live : backLink[a.ptr] = backLink[c.ptr] => a = c
  /\ \A i \in 1 .. Len(blocks) :
       ~ blocks[i].free => \E a \in live : backLink[a.ptr] = blocks[i].base

\* allocator.rs:191, "adjacent_free_blocks_coalesce": in whatever order
\* allocations were freed, no two free neighbours are left apart.
NoFreeNeighbours ==
  \A i \in 1 .. Len(blocks) - 1 : ~ Contiguous(blocks[i], blocks[i + 1])

\* The build plan, docs/superpowers/plans/2026-10-04-vish-bare-metal-build.md:73,
\* "does not monotonically leak": once everything is freed, all the memory
\* granted so far is one block again, provided that the break was aligned.
EmptyHeapIsWhole ==
  live = {} /\ brkStart % ALIGN = 0 =>
    \/ blocks = << >> /\ brk = brkStart
    \/ blocks = <<[base |-> brkStart, span |-> brk - brkStart, free |-> TRUE]>>

\* The heap does what the shell expects of its allocator.
Contract == INSTANCE AllocatorContract WITH live <- live, brk <- brk, brkStart <- brkStart
HeapMeetsContract == Contract!ContractSpec

=============================================================================
