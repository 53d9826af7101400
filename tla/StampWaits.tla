----------------------------- MODULE StampWaits -----------------------------
(***************************************************************************)
(* The barrier waits of the device's FIFOs                                  *)
(* (crates/reims-vgpu-core/src/device/waits.rs, and the signals of           *)
(* device/fifos.rs): a FIFO's thread waits until another FIFO's stamp slot  *)
(* reaches a value.  Waits are registered without a lock in a table and a    *)
(* word of bits, and a wait that closes a cycle of waits is refused with a   *)
(* raise; the wait itself is a condition variable's, timed once.             *)
(*                                                                          *)
(* Each FIFO runs commands whose stamps are consecutive values; each may    *)
(* carry one barrier.  A pushed stamp completes in its own time (StampQueue)*)
(* A FIFO may be quiesced (a pause, a suspend) or deleted by the device.    *)
(* The definitions named ..._bug are plausible mistakes in the one they     *)
(* precede, kept to show which property catches each.                       *)
(***************************************************************************)
EXTENDS Integers, FiniteSets

CONSTANTS
  N,          \* the FIFOs are 0..N-1; the stamp index of each is its number
  MaskBits,   \* a waiter's bit is its number modulo this (32 in the code)
  Span,       \* stamp values wrap here (2^32 in the code)
  Base,       \* the value every slot starts at
  MaxStamps,  \* bound: commands of each FIFO
  SelfWaits,  \* the FIFOs whose commands may wait for a later stamp of their own
  Quiescable, \* the FIFOs the device may quiesce
  Deletable   \* the FIFOs the device may delete

ASSUME StampWaitsAssumption ==
  /\ N \in Nat \ {0} /\ MaskBits \in Nat \ {0}
  /\ Span \in Nat /\ Span > 2 * MaxStamps /\ Base \in 0..(Span - 1)
  /\ MaxStamps \in Nat /\ SelfWaits \subseteq 0..(N - 1)
  /\ Quiescable \subseteq 0..(N - 1) /\ Deletable \subseteq 0..(N - 1)

Fifos == 0..(N - 1)
NotWaiting == N      \* NOT_WAITING (u32::MAX): an index past the table

VARIABLES
  slot,            \* the stamp memory
  last_pending,    \* waiting_info[f].last_pending_stamp: the value f pushed last
  next_index,      \* waiting_info[f].next_waiting_index
  next_value,      \* waiting_info[f].next_waiting_value
  waiting_stamps,  \* the word, as the set of its bits
  pc,              \* where each FIFO's thread is
  barrier,         \* the barrier of each thread's command
  curr, next,      \* the walk of each thread in add_wait
  raised,          \* did the wait of each thread's command raise?
  quiesced,        \* is each FIFO quiesced?
  deleting,        \* how far the device's delete of each FIFO is
  signal_owed,     \* a quiesce whose signal_fifos is still to come
  dead,            \* the fatal check that ended the process, or "no"
  cycled           \* history: the waits that have been part of a cycle of waits

table == <<next_index, next_value, waiting_stamps>>
vars  == <<slot, last_pending, table, pc, barrier, curr, next, raised, quiesced,
           deleting, signal_owed, dead, cycled>>

\* (slot - value) as i32 >= 0
reached_bug(s, value) == s = value
reached(s, value) == (s - value) % Span < Span \div 2

Value(k) == (Base + k) % Span
StampsPushed(f) == (last_pending[f] - Base) % Span
Stamps == {Value(k) : k \in 0..MaxStamps}

NoBarrier(f) == [index |-> f, value |-> Base]

PCs == {"idle", "check", "bit", "walk", "test", "uncycle", "wait", "timed", "untimed",
        "finish", "unlist", "push", "stopped"}

TypeOK ==
  /\ slot \in [Fifos -> Stamps] /\ last_pending \in [Fifos -> Stamps]
  /\ next_index \in [Fifos -> Fifos \cup {NotWaiting}]
  /\ next_value \in [Fifos -> Stamps]
  /\ waiting_stamps \subseteq 0..(MaskBits - 1)
  /\ pc \in [Fifos -> PCs]
  /\ barrier \in [Fifos -> [index : Fifos, value : Stamps]]
  /\ curr \in [Fifos -> Fifos] /\ next \in [Fifos -> Fifos \cup {NotWaiting}]
  /\ raised \in [Fifos -> BOOLEAN] /\ quiesced \in [Fifos -> BOOLEAN]
  /\ deleting \in [Fifos -> {"no", "taken", "stopped"}]
  /\ signal_owed \in BOOLEAN
  /\ dead \in {"no", "WaiterBitTaken", "WaiterBusy"}
  /\ cycled \subseteq Fifos

Init ==
  /\ slot = [f \in Fifos |-> Base] /\ last_pending = [f \in Fifos |-> Base]
  /\ next_index = [f \in Fifos |-> NotWaiting] /\ next_value = [f \in Fifos |-> Base]
  /\ waiting_stamps = {}
  /\ pc = [f \in Fifos |-> "idle"]
  /\ barrier = [f \in Fifos |-> NoBarrier(f)]
  /\ curr = [f \in Fifos |-> f] /\ next = [f \in Fifos |-> NotWaiting]
  /\ raised = [f \in Fifos |-> FALSE] /\ quiesced = [f \in Fifos |-> FALSE]
  /\ deleting = [f \in Fifos |-> "no"]
  /\ signal_owed = FALSE
  /\ dead = "no"
  /\ cycled = {}

-----------------------------------------------------------------------------
(* The waiter's table *)

Bit(waiter) == waiter % MaskBits

\* finish_wait's mask, sign-extended: the top bit's waiter clears all above it.
finish_wait_mask(waiter) ==
  {Bit(waiter)} \cup IF Bit(waiter) = MaskBits - 1 THEN {b \in Fifos : b >= MaskBits} ELSE {}

Goto(f, label) == pc' = [pc EXCEPT ![f] = label]

\* notify_all on signal_cond, with `f' moving on to `label'.
WakeAll == pc' = [g \in Fifos |-> IF pc[g] \in {"timed", "untimed"} THEN "wait" ELSE pc[g]]

-----------------------------------------------------------------------------
(* The FIFO's thread *)

\* The next command: without a barrier, or with one on some FIFO's stamp.
Command(f) ==
  /\ pc[f] = "idle"
  /\ \/ quiesced[f] /\ Goto(f, "stopped") /\ UNCHANGED barrier
     \/ ~quiesced[f] /\ StampsPushed(f) < MaxStamps /\ Goto(f, "push") /\ UNCHANGED barrier
     \/ /\ ~quiesced[f] /\ StampsPushed(f) < MaxStamps
        /\ \E g \in Fifos, k \in 1..MaxStamps :
             /\ g # f \/ f \in SelfWaits
             /\ barrier' = [barrier EXCEPT ![f] = [index |-> g, value |-> Value(k)]]
        /\ Goto(f, "check")
  /\ UNCHANGED <<slot, last_pending, table, curr, next, quiesced, deleting, signal_owed,
                 dead, cycled, raised>>

\* Thread f waits for a stamp that its FIFO has not pushed.
Blocked(f) == ~reached(last_pending[barrier[f].index], barrier[f].value)

InWait(f) == pc[f] \in {"bit", "walk", "test", "uncycle", "wait", "timed", "untimed",
                        "finish", "unlist"}

\* The threads of `waiting' that wait for one another in a cycle.
InCycles(waiting) ==
  UNION {S \in SUBSET {g \in waiting : Blocked(g)} : {barrier[g].index : g \in S} = S}

\* wait_stamp's first look at the slot, then add_wait's checks and its entry.
wait_stamp(f) ==
  /\ pc[f] = "check"
  /\ IF reached(slot[barrier[f].index], barrier[f].value)
     THEN /\ Goto(f, IF quiesced[f] THEN "stopped" ELSE "push")
          /\ UNCHANGED <<next_index, next_value, dead, cycled>>
     ELSE \/ /\ Bit(f) \in waiting_stamps /\ dead' = "WaiterBitTaken"
             /\ UNCHANGED <<pc, next_index, next_value, cycled>>
          \/ /\ Bit(f) \notin waiting_stamps /\ next_index[f] # NotWaiting
             /\ dead' = "WaiterBusy"
             /\ UNCHANGED <<pc, next_index, next_value, cycled>>
          \/ /\ Bit(f) \notin waiting_stamps /\ next_index[f] = NotWaiting
             /\ next_index' = [next_index EXCEPT ![f] = barrier[f].index]
             /\ next_value' = [next_value EXCEPT ![f] = barrier[f].value]
             /\ Goto(f, "bit")
             /\ cycled' = (cycled \ {f}) \cup InCycles({g \in Fifos : InWait(g)} \cup {f})
             /\ UNCHANGED dead
  /\ UNCHANGED <<slot, last_pending, waiting_stamps, barrier, curr, next, quiesced,
                 deleting, signal_owed, raised>>

\* add_wait: the bit is set once the entry is written, and the walk starts here.
add_wait_bug(f) ==  \* the walk before the bit
  /\ pc[f] = "bit"
  /\ UNCHANGED waiting_stamps
  /\ curr' = [curr EXCEPT ![f] = f]
  /\ Goto(f, "walk")
  /\ UNCHANGED <<slot, last_pending, next_index, next_value, barrier, next, quiesced,
                 deleting, signal_owed, dead, cycled, raised>>

add_wait(f) ==
  /\ pc[f] = "bit"
  /\ waiting_stamps' = waiting_stamps \cup {Bit(f)}
  /\ curr' = [curr EXCEPT ![f] = f]
  /\ Goto(f, "walk")
  /\ UNCHANGED <<slot, last_pending, next_index, next_value, barrier, next, quiesced,
                 deleting, signal_owed, dead, cycled, raised>>

\* One round of the walk: first the index the current entry waits on ...
WalkNext(f) ==
  /\ pc[f] = "walk"
  /\ next' = [next EXCEPT ![f] = next_index[curr[f]]]
  /\ Goto(f, "test")
  /\ UNCHANGED <<slot, last_pending, table, barrier, curr, quiesced, deleting,
                 signal_owed, dead, cycled, raised>>

\* ... then whether the chain goes on through it, and whether it has come round.
ChainEnds(f) ==
  \/ next[f] \notin Fifos
  \/ next[f] \notin waiting_stamps
  \/ reached(last_pending[next[f]], next_value[curr[f]])

WalkTest(f) ==
  /\ pc[f] = "test"
  /\ IF ChainEnds(f) THEN Goto(f, "wait") /\ UNCHANGED curr
     ELSE /\ curr' = [curr EXCEPT ![f] = next[f]]
          /\ Goto(f, IF next[f] = f THEN "uncycle" ELSE "walk")
  /\ UNCHANGED <<slot, last_pending, table, barrier, next, quiesced, deleting,
                 signal_owed, dead, cycled, raised>>

\* The wait loop with the signal lock: done, quiesced, or a timed wait.
WaitLoop(f) ==
  /\ pc[f] = "wait"
  /\ Goto(f, IF reached(slot[barrier[f].index], barrier[f].value) \/ quiesced[f]
             THEN "finish" ELSE "timed")
  /\ UNCHANGED <<slot, last_pending, table, barrier, curr, next, quiesced, deleting,
                 signal_owed, dead, cycled, raised>>

\* The 2 s are over: a last look, then a report and a wait without a timeout.
TimesOut(f) ==
  /\ pc[f] = "timed"
  /\ Goto(f, IF reached(slot[barrier[f].index], barrier[f].value) THEN "finish"
             ELSE "untimed")
  /\ UNCHANGED <<slot, last_pending, table, barrier, curr, next, quiesced, deleting,
                 signal_owed, dead, cycled, raised>>

\* finish_wait, after the wait or (uncycle) before the raise: the bit first ...
finish_wait(f) ==
  /\ pc[f] \in {"finish", "uncycle"}
  /\ waiting_stamps' = waiting_stamps \ finish_wait_mask(f)
  /\ Goto(f, "unlist")
  /\ raised' = [raised EXCEPT ![f] = pc[f] = "uncycle"]
  /\ UNCHANGED <<slot, last_pending, next_index, next_value, barrier, curr, next, quiesced,
                 deleting, signal_owed, dead, cycled>>

\* ... then the entry.  A wait that ends quiesced leaves its command unconsumed; a
\* raise and a barrier met both lead to the push.
AfterWait(f) == Goto(f, IF quiesced[f] /\ ~raised[f] THEN "stopped" ELSE "push")

Unlist_bug(f) ==  \* the entry stays
  /\ pc[f] = "unlist"
  /\ AfterWait(f)
  /\ UNCHANGED <<slot, last_pending, table, barrier, curr, next, raised, quiesced,
                 deleting, signal_owed, dead, cycled>>

Unlist(f) ==
  /\ pc[f] = "unlist"
  /\ next_index' = [next_index EXCEPT ![f] = NotWaiting]
  /\ AfterWait(f)
  /\ UNCHANGED <<slot, last_pending, next_value, waiting_stamps, barrier, curr, next,
                 raised, quiesced, deleting, signal_owed, dead, cycled>>

\* push_stamp, then the command's handler or its fault.
push_stamp(f) ==
  /\ pc[f] = "push"
  /\ last_pending' = [last_pending EXCEPT ![f] = (@ + 1) % Span]
  /\ Goto(f, "idle")
  /\ barrier' = [barrier EXCEPT ![f] = NoBarrier(f)]   \* the command's locals go
  /\ curr' = [curr EXCEPT ![f] = f] /\ next' = [next EXCEPT ![f] = NotWaiting]
  /\ raised' = [raised EXCEPT ![f] = FALSE]
  /\ UNCHANGED <<slot, table, quiesced, deleting, signal_owed, dead, cycled>>

-----------------------------------------------------------------------------
(* The device *)

\* The stamp queue publishes: the slot is written and every waiter woken, under
\* the signal lock.
signal_stamp(f) ==
  /\ slot[f] # last_pending[f]
  /\ slot' = [slot EXCEPT ![f] = (@ + 1) % Span]
  /\ WakeAll
  /\ UNCHANGED <<last_pending, table, barrier, curr, next, quiesced, deleting,
                 signal_owed, dead, cycled, raised>>

\* The quiesce of a pause or a suspend, and the signal_fifos that follows it.
quiesce(f) ==
  /\ f \in Quiescable /\ ~quiesced[f]
  /\ quiesced' = [quiesced EXCEPT ![f] = TRUE]
  /\ signal_owed' = TRUE
  /\ UNCHANGED <<slot, last_pending, table, pc, barrier, curr, next, deleting, dead,
                 cycled, raised>>

signal_fifos ==
  /\ signal_owed
  /\ signal_owed' = FALSE
  /\ WakeAll
  /\ UNCHANGED <<slot, last_pending, table, barrier, curr, next, quiesced, deleting,
                 dead, cycled, raised>>

\* delete_fifo: the FIFO is taken out and its wait finished, though its thread
\* may be anywhere in one; then it is stopped and the waiters are woken.
DeleteTakes(f) ==
  /\ f \in Deletable /\ deleting[f] = "no"
  /\ deleting' = [deleting EXCEPT ![f] = "taken"]
  /\ waiting_stamps' = waiting_stamps \ finish_wait_mask(f)
  /\ next_index' = [next_index EXCEPT ![f] = NotWaiting]
  /\ UNCHANGED <<slot, last_pending, next_value, pc, barrier, curr, next, quiesced,
                 signal_owed, dead, cycled, raised>>

DeleteStops(f) ==
  /\ deleting[f] = "taken"
  /\ deleting' = [deleting EXCEPT ![f] = "stopped"]
  /\ quiesced' = [quiesced EXCEPT ![f] = TRUE]
  /\ signal_owed' = TRUE
  /\ UNCHANGED <<slot, last_pending, table, pc, barrier, curr, next, dead, cycled, raised>>

Thread(f) ==
  /\ dead = "no"
  /\ \/ Command(f) \/ wait_stamp(f) \/ add_wait(f) \/ WalkNext(f) \/ WalkTest(f)
     \/ WaitLoop(f) \/ finish_wait(f) \/ Unlist(f) \/ push_stamp(f)

Next ==
  \/ \E f \in Fifos : Thread(f)
  \/ \E f \in Fifos : dead = "no" /\ TimesOut(f)
  \/ \E f \in Fifos : dead = "no" /\ signal_stamp(f)
  \/ \E f \in Fifos : dead = "no" /\ quiesce(f)
  \/ \E f \in Fifos : dead = "no" /\ DeleteTakes(f)
  \/ \E f \in Fifos : dead = "no" /\ DeleteStops(f)
  \/ dead = "no" /\ signal_fifos

Spec == Init /\ [][Next]_vars

\* The threads run on, pushed stamps complete, a delete that has begun goes on and a
\* quiesce is followed by its signal; no timeout need ever come.
Fairness ==
  /\ \A f \in Fifos : WF_vars(Thread(f)) /\ WF_vars(signal_stamp(f)) /\ WF_vars(DeleteStops(f))
  /\ WF_vars(signal_fifos)

FairSpec == Spec /\ Fairness

-----------------------------------------------------------------------------
(* Properties *)

Parked(f) == pc[f] \in {"timed", "untimed"}

\* No cycle of waits goes unnoticed: there is never a set of parked threads, none
\* of them being stopped, each waiting for a stamp that another of the set has
\* still to push (add_wait, whose registration and walk take no lock).
NoSilentDeadlock ==
  \A S \in (SUBSET Fifos) \ {{}} :
    ~ \A f \in S : Parked(f) /\ ~quiesced[f] /\ deleting[f] = "no"
                   /\ barrier[f].index \in S /\ Blocked(f)

\* A raise is only for a cycle: a wait that is refused has, since it was registered,
\* really waited through other waits for a stamp of its own FIFO, though the walk
\* reads entries that other threads change under it (two threads that close one
\* cycle together are both refused).
OnlyCyclesRaise == \A f \in Fifos : pc[f] = "uncycle" => f \in cycled

\* The checks of add_wait never end the process: no thread finds its own bit or
\* entry in use, a delete's finish_wait of a live wait included.
NoDeath == dead = "no"

\* Every wait ends, by its stamp, by a quiesce of its own FIFO or by the refusal of
\* a cycle, unless some other FIFO has been quiesced meanwhile.
WaitEnds ==
  \A f \in Fifos : InWait(f) ~> (~InWait(f) \/ \E g \in Fifos \ {f} : quiesced[g])
=============================================================================
