--------------------------- MODULE SerialExecutor ---------------------------
(***************************************************************************)
(* What a serial queue promises (crates/reims-vgpu-core/src/rt/queue.rs):  *)
(* its items take hold of the queue one at a time, in the order they were  *)
(* submitted, and every one of them does.  SerialQueue is shown to         *)
(* implement this.                                                         *)
(***************************************************************************)
EXTENDS Sequences

CONSTANTS
  Items,   \* what may be submitted: async blocks and sync callers
  None     \* nobody

VARIABLES
  queue,   \* the items submitted that have not begun, in order
  holder   \* the item that holds the queue, or None

Init == queue = <<>> /\ holder = None

Submit(i) == queue' = Append(queue, i) /\ UNCHANGED holder

\* A sync caller that finds nothing before it takes the queue at once.
Enter(i) == queue = <<>> /\ holder = None /\ holder' = i /\ UNCHANGED queue

Begin == /\ holder = None /\ queue # <<>>
         /\ holder' = Head(queue) /\ queue' = Tail(queue)

End == holder # None /\ holder' = None /\ UNCHANGED queue

\* An item that ends may give the queue straight to the next.
HandOver == /\ holder # None /\ queue # <<>>
            /\ holder' = Head(queue) /\ queue' = Tail(queue)

Next == \/ \E i \in Items : Submit(i) \/ Enter(i)
        \/ Begin \/ End \/ HandOver

Safety == Init /\ [][Next]_<<queue, holder>>

\* An item at the head of a free queue does not wait for ever, nor does one whose turn
\* has come keep the queue for ever (its block returns).
Spec == Safety /\ WF_<<queue, holder>>(Begin) /\ WF_<<queue, holder>>(End \/ HandOver)
=============================================================================
