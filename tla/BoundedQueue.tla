----------------------------- MODULE BoundedQueue -----------------------------
(***************************************************************************)
(* What both shells mean by their command history: a queue of at most       *)
(* Bound items.  Each time the shell has read a line the queue is ready for  *)
(* it once; the line goes in behind the others or is left out, and when     *)
(* there is no room the oldest item, and no other, makes room.              *)
(***************************************************************************)
EXTENDS Naturals, Sequences

CONSTANT Bound

VARIABLES
  queue,     \* oldest first
  accepting  \* an item that has not been decided on is at hand

queueVars == <<queue, accepting>>

QueueInit == queue = << >> /\ accepting = FALSE

\* What stays when one item comes in.
Kept == IF Len(queue) >= Bound THEN Tail(queue) ELSE queue

Push ==
  /\ accepting /\ ~ accepting'
  /\ queue' # << >>
  /\ queue' = Append(Kept, queue'[Len(queue')])

\* An item comes up, is left out, or none of that.
Wait == accepting' \in BOOLEAN /\ UNCHANGED queue

QueueNext == Push \/ Wait

QueueSpec == QueueInit /\ [][QueueNext]_queueVars

=============================================================================
