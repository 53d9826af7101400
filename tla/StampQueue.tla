----------------------------- MODULE StampQueue -----------------------------
(***************************************************************************)
(* The stamp queue of one FIFO (crates/reims-vgpu-core/src/fifo/stamps.rs): *)
(* the in-order record of the commands the FIFO has started and not yet     *)
(* published.  Every operation runs with the queue's lock held from its     *)
(* first read to its last store, so each is one step; a thread that waits   *)
(* on a condition variable leaves the step parked in `room' or `drained'.   *)
(*                                                                          *)
(* Environment.  FIFO threads push; the handler of a pushed command, on any *)
(* thread, completes it with a signal or a fault (`owed'); the guest        *)
(* resumes a fault whenever it likes; the device quiesces, drains and       *)
(* starts the FIFO again (pause and unpause).  Callers that keep to their   *)
(* side complete a command once, give no two pending commands one value,    *)
(* and start the FIFO only when no thread is about to drain it.  A command  *)
(* with a Sloppy value may be completed twice and its value reused while    *)
(* pending, and once there was one the FIFO may be started at any time.     *)
(***************************************************************************)
EXTENDS Integers, Sequences, FiniteSets

CONSTANTS
  Capacity,     \* STAMP_QUEUE_CAPACITY (128 in the code)
  CountSpan,    \* the counters wrap at this value (2^32 in the code)
  Values,       \* the stamp values the guest's commands carry
  Pushers,      \* the FIFO's threads
  Drainers,     \* the threads that quiesce and drain the FIFO
  Sloppy,       \* the values whose callers do not keep to their side (see Environment)
  MaxPushes,    \* bound: commands pushed in a behaviour
  NoValue       \* a thread that is not inside push_stamp

ASSUME StampQueueAssumption ==
  /\ Capacity \in Nat \ {0}
  /\ CountSpan \in Nat /\ CountSpan > Capacity
  /\ CountSpan % Capacity = 0
  /\ Sloppy \subseteq Values
  /\ MaxPushes \in Nat
  /\ NoValue \notin Values

VARIABLES
  slots, write_count, complete_count, faulted, quiesced,   \* QueueState
  last_pending,   \* the value pushed last, which the stamp waits read
  room, drained,  \* the threads parked on the two condition variables
  pushing,        \* the value each FIFO thread is pushing, or NoValue
  control,        \* what each draining thread does
  owed,           \* completions still to come, by value
  dead,           \* the fatal_unless! that ended the process, or "no"
  pushed,         \* history: every value pushed, in order
  published,      \* history: how many of them the sink has been told of
  last_signal,    \* history: the value of the last sink.signal
  ended,          \* history: the pushes (by position) marked by a completion
  reported        \* history: the pushes whose fault went to sink.fault

queue   == <<slots, write_count, complete_count, faulted, quiesced>>
threads == <<room, drained, pushing, control>>
history == <<pushed, published, last_signal, ended, reported>>
vars    == <<queue, last_pending, threads, owed, dead, history>>

Slot == [stamp_value : Values \cup {NoValue}, signaled : BOOLEAN, faulted : BOOLEAN]

EmptySlot == [stamp_value |-> NoValue, signaled |-> FALSE, faulted |-> FALSE]

TypeOK ==
  /\ slots \in [0..(Capacity - 1) -> Slot]
  /\ write_count \in 0..(CountSpan - 1)
  /\ complete_count \in 0..(CountSpan - 1)
  /\ faulted \in BOOLEAN
  /\ quiesced \in BOOLEAN
  /\ last_pending \in Values \cup {NoValue}
  /\ room \in SUBSET Pushers
  /\ drained \in SUBSET Drainers
  /\ pushing \in [Pushers -> Values \cup {NoValue}]
  /\ control \in [Drainers -> {"idle", "quiesced", "draining"}]
  /\ owed \in [Values -> Nat]
  /\ dead \in {"no", "SignalNothingPending", "SignalTwice", "SignalFaulted",
               "FaultNothingPending", "FaultSignalled", "FaultTwice",
               "QueueDrainUnquiesced"}
  /\ pushed \in Seq(Values)
  /\ published \in Nat
  /\ last_signal \in Values \cup {NoValue}
  /\ ended \in SUBSET (Nat \ {0})
  /\ reported \in SUBSET (Nat \ {0})

Init ==
  /\ slots = [i \in 0..(Capacity - 1) |-> EmptySlot]
  /\ write_count = 0
  /\ complete_count = 0
  /\ faulted = FALSE
  /\ quiesced = FALSE
  /\ last_pending = NoValue
  /\ room = {}
  /\ drained = {}
  /\ pushing = [t \in Pushers |-> NoValue]
  /\ control = [d \in Drainers |-> "idle"]
  /\ owed = [v \in Values |-> 0]
  /\ dead = "no"
  /\ pushed = << >>
  /\ published = 0
  /\ last_signal = NoValue
  /\ ended = {}
  /\ reported = {}

-----------------------------------------------------------------------------
(* The window of pending stamps.  The definitions named ..._bug are plausible  *)
(* mistakes in the one they precede, kept to show which property catches each. *)

\* The counters are u32 and wrap.
ring_wrapped_bug(count, n) == (count + n) % Capacity
wrapping_add(count, n) == (count + n) % CountSpan

\* pending_count: the wrapping difference of the counters.
Pending == (write_count - complete_count) % CountSpan

\* The ring index of the j-th pending stamp, the head being 0.
SlotAt(j) == ((complete_count + j) % CountSpan) % Capacity

\* The first pending stamp with value v is the j-th.
FirstAt(j, v) ==
  /\ slots[SlotAt(j)].stamp_value = v
  /\ \A i \in 0..(j - 1) : slots[SlotAt(i)].stamp_value # v

\* scan's at_head: every one of the first j pending stamps is signalled.
AllSignaledUpTo_bug(j) == \A i \in 0..j : slots[SlotAt(i)].signaled
AllSignaledBefore(j) == \A i \in 0..(j - 1) : slots[SlotAt(i)].signaled

\* A stamp the pump may publish: quiesced, a faulted one counts as completed.
AnyWhenQuiesced_bug(slot, q) == slot.signaled \/ q
SignaledOnly_bug(slot, q) == slot.signaled
Publishable(slot, q) == slot.signaled \/ (slot.faulted /\ q)

\* notify_one: one parked thread, if any, is taken off the condition variable.
NotifyNone_bug(waiters, waitersNext) == waitersNext = waiters
NotifyOne(waiters, waitersNext) ==
  \/ waiters = {} /\ waitersNext = {}
  \/ \E t \in waiters : waitersNext = waiters \ {t}

\* The pump, over the slots, latch and quiesced flag its caller has just stored:
\* publishes the longest publishable prefix with one signal, of its last value,
\* then reports a faulted head unless the latch says one is reported already.
\* `parking' is the thread, if any, that goes on to wait for the queue to empty.
Pump(sl, latch, q, parking) ==
  \E n \in 0..Pending :
    LET stopped == n < Pending
        reports == stopped /\ sl[SlotAt(n)].faulted /\ ~q /\ ~latch
    IN
    /\ \A j \in 0..(n - 1) : Publishable(sl[SlotAt(j)], q)
    /\ stopped => ~Publishable(sl[SlotAt(n)], q)
    /\ slots' = sl
    /\ quiesced' = q
    /\ complete_count' = wrapping_add(complete_count, n)
    /\ faulted' = (latch \/ reports)
    /\ published' = published + n
    /\ last_signal' = IF n > 0 THEN sl[SlotAt(n - 1)].stamp_value ELSE last_signal
    /\ reported' = IF reports THEN reported \cup {published + n + 1} ELSE reported
    /\ IF n > 0 THEN NotifyOne(room, room') ELSE UNCHANGED room
    /\ IF stopped THEN drained' = drained \cup parking ELSE NotifyOne(drained, drained')

-----------------------------------------------------------------------------
(* Operations *)

\* A FIFO thread has read a command with value v and enters push_stamp.
CallPush(t, v) ==
  /\ dead = "no"
  /\ pushing[t] = NoValue
  /\ Len(pushed) + Cardinality({s \in Pushers : pushing[s] # NoValue}) < MaxPushes
  /\ \/ v \in Sloppy
     \/ /\ owed[v] = 0
        /\ \A i \in 0..(Pending - 1) : slots[SlotAt(i)].stamp_value # v
        /\ \A s \in Pushers : pushing[s] # v
  /\ pushing' = [pushing EXCEPT ![t] = v]
  /\ UNCHANGED <<queue, last_pending, room, drained, control, owed, dead, history>>

\* push_stamp with the lock: full, it parks on `room' (again, after a wake).
WaitForRoom(t) ==
  /\ dead = "no"
  /\ pushing[t] # NoValue /\ t \notin room
  /\ Pending = Capacity
  /\ room' = room \cup {t}
  /\ UNCHANGED <<queue, last_pending, drained, pushing, control, owed, dead, history>>

\* push_stamp with the lock and room: the slot is written whole.
push_stamp(t) ==
  LET v == pushing[t] IN
  /\ dead = "no"
  /\ v # NoValue /\ t \notin room
  /\ Pending # Capacity
  /\ slots' = [slots EXCEPT ![write_count % Capacity] = [EmptySlot EXCEPT !.stamp_value = v]]
  /\ write_count' = wrapping_add(write_count, 1)
  /\ last_pending' = v
  /\ pushing' = [pushing EXCEPT ![t] = NoValue]
  /\ owed' = [owed EXCEPT ![v] = @ + (IF v \in Sloppy THEN 2 ELSE 1)]
  /\ pushed' = Append(pushed, v)
  /\ UNCHANGED <<complete_count, faulted, quiesced, room, drained, control, dead,
                 published, last_signal, ended, reported>>

\* fatal_unless!: the process ends.
Die(kind) ==
  /\ dead' = kind
  /\ UNCHANGED <<queue, last_pending, threads, history>>

\* The common half of a signal and a fault of value v, whose mark on the slot is
\* `marked' and whose deaths are the three kinds given.
CompleteStamp(v, marked(_), nothing, ifSignaled, ifFaulted) ==
  /\ dead = "no"
  /\ owed[v] > 0
  /\ owed' = [owed EXCEPT ![v] = @ - 1]
  /\ \/ Pending = 0 /\ Die(nothing)
     \/ \E j \in 0..(Pending - 1) :
          /\ FirstAt(j, v)
          /\ LET slot == slots[SlotAt(j)]
                 sl   == [slots EXCEPT ![SlotAt(j)] = marked(@)]
             IN \/ slot.signaled /\ Die(ifSignaled)
                \/ ~slot.signaled /\ slot.faulted /\ Die(ifFaulted)
                \/ /\ ~slot.signaled /\ ~slot.faulted
                   /\ ended' = ended \cup {published + j + 1}
                   /\ \/ AllSignaledBefore(j) /\ Pump(sl, faulted, quiesced, {})
                      \/ /\ ~AllSignaledBefore(j)
                         /\ slots' = sl
                         /\ UNCHANGED <<complete_count, faulted, quiesced, room, drained,
                                        published, last_signal, reported>>
                   /\ UNCHANGED <<write_count, last_pending, pushing, control, dead, pushed>>
     \/ \* the value is not in the window: nothing is marked
        /\ Pending > 0
        /\ \A j \in 0..(Pending - 1) : slots[SlotAt(j)].stamp_value # v
        /\ \/ AllSignaledBefore(Pending) /\ Pump(slots, faulted, quiesced, {})
           \/ ~AllSignaledBefore(Pending) /\ UNCHANGED <<slots, complete_count, faulted,
                 quiesced, room, drained, published, last_signal, reported>>
        /\ UNCHANGED <<write_count, last_pending, pushing, control, dead, pushed, ended>>

MarkSignaled(slot) == [slot EXCEPT !.signaled = TRUE]
MarkFaulted(slot) == [slot EXCEPT !.faulted = TRUE]

signal_stamp(v) ==
  CompleteStamp(v, MarkSignaled, "SignalNothingPending", "SignalTwice", "SignalFaulted")

\* The fault offset is data no property here tells apart.
fault_stamp(v) ==
  CompleteStamp(v, MarkFaulted, "FaultNothingPending", "FaultSignalled", "FaultTwice")

\* The guest resumes: a faulted slot at the head index counts as signalled and
\* the latch clears, a stale slot included when nothing is pending.
resume_from_fault ==
  LET head == slots[SlotAt(0)]
      sl   == [slots EXCEPT ![SlotAt(0)] = [@ EXCEPT !.faulted = FALSE, !.signaled = TRUE]]
  IN
  /\ dead = "no"
  /\ IF head.faulted THEN Pump(sl, FALSE, quiesced, {}) ELSE Pump(slots, faulted, quiesced, {})
  /\ UNCHANGED <<write_count, last_pending, pushing, control, owed, dead, pushed, ended>>

\* Fifo::quiesce by a pausing, stopping or suspending thread.
quiesce(d) ==
  /\ dead = "no"
  /\ control[d] = "idle"
  /\ control' = [control EXCEPT ![d] = "quiesced"]
  /\ Pump(slots, faulted, TRUE, {})
  /\ UNCHANGED <<write_count, last_pending, pushing, owed, dead, pushed, ended>>

\* drain: dies unless quiesced, pumps, then waits for every pending stamp.
drain(d) ==
  /\ dead = "no"
  /\ control[d] = "quiesced"
  /\ \/ ~quiesced /\ Die("QueueDrainUnquiesced") /\ UNCHANGED owed
     \/ /\ quiesced
        /\ Pump(slots, faulted, TRUE, {d})
        /\ control' = [control EXCEPT ![d] =
                         IF write_count = complete_count' THEN "idle" ELSE "draining"]
        /\ UNCHANGED <<write_count, last_pending, pushing, owed, dead, pushed, ended>>

\* The drain's loop, woken, with the lock again: parks once more, or returns.
WaitForDrained(d) ==
  /\ dead = "no"
  /\ control[d] = "draining" /\ d \notin drained
  /\ write_count # complete_count
  /\ drained' = drained \cup {d}
  /\ UNCHANGED <<queue, last_pending, room, pushing, control, owed, dead, history>>

DrainReturns(d) ==
  /\ dead = "no"
  /\ control[d] = "draining" /\ d \notin drained
  /\ write_count = complete_count
  /\ control' = [control EXCEPT ![d] = "idle"]
  /\ UNCHANGED <<queue, last_pending, room, drained, pushing, owed, dead, history>>

\* Somebody has not kept to their side.
Misused == \E i \in DOMAIN pushed : pushed[i] \in Sloppy

\* Fifo::start's clear: no pump, no wake, and the latch as it is.
clear_quiesced ==
  /\ dead = "no"
  /\ quiesced
  /\ ~Misused => \A d \in Drainers : control[d] = "idle"
  /\ quiesced' = FALSE
  /\ UNCHANGED <<slots, write_count, complete_count, faulted, last_pending, threads,
                 owed, dead, history>>

Next ==
  \/ \E t \in Pushers, v \in Values : CallPush(t, v)
  \/ \E t \in Pushers : WaitForRoom(t)
  \/ \E t \in Pushers : push_stamp(t)
  \/ \E v \in Values : signal_stamp(v)
  \/ \E v \in Values : fault_stamp(v)
  \/ resume_from_fault
  \/ \E d \in Drainers : quiesce(d)
  \/ \E d \in Drainers : drain(d)
  \/ \E d \in Drainers : WaitForDrained(d)
  \/ \E d \in Drainers : DrainReturns(d)
  \/ clear_quiesced

Spec == Init /\ [][Next]_vars

\* The code's threads run on; a handler completes its command; the guest
\* resumes a fault it has been told of.  Nobody is obliged to pause or start.
ResumeReported ==
  /\ published + 1 \in reported /\ slots[SlotAt(0)].faulted /\ Pending > 0
  /\ resume_from_fault

Fairness ==
  /\ \A t \in Pushers : WF_vars(WaitForRoom(t)) /\ WF_vars(push_stamp(t))
  /\ \A d \in Drainers :
       WF_vars(drain(d)) /\ WF_vars(WaitForDrained(d)) /\ WF_vars(DrainReturns(d))
  /\ \A v \in Values : WF_vars(signal_stamp(v) \/ fault_stamp(v))
  /\ WF_vars(ResumeReported)

FairSpec == Spec /\ Fairness

-----------------------------------------------------------------------------
(* Properties *)

\* The device is told of stamps in push order only: the value of the last
\* sink.signal is the one pushed at the position the published count has reached,
\* however the completions were ordered and however often the counters wrapped
\* (pump, stamps.rs).
PublishedInOrder ==
  published > 0 => published <= Len(pushed) /\ last_signal = pushed[published]

\* Nothing is published before its handler completed it (pump stops at the first
\* slot neither signalled nor, quiesced, faulted).
OnlyEndedPublished == \A k \in 1..published : k \in ended

\* No completed stamp is left behind: between operations the head of the window
\* is never publishable, so at_head in signal_stamp and fault_stamp never skips a
\* pump that was due.
NothingPublishableLeft ==
  Pending > 0 => ~Publishable(slots[SlotAt(0)], quiesced)

\* The ring index of the k-th push.
Ring(k) == (k - 1) % Capacity

\* The counters are the numbers of pushes and of published pushes, wrapped.
CountersWrap ==
  /\ published <= Len(pushed) /\ Len(pushed) <= published + Capacity
  /\ write_count = Len(pushed) % CountSpan
  /\ complete_count = published % CountSpan

\* Every pending push holds its slot, and a marked slot was marked by a
\* completion.
WindowHolds ==
  \A k \in (published + 1)..Len(pushed) :
    /\ slots[Ring(k)].stamp_value = pushed[k]
    /\ slots[Ring(k)].signaled \/ slots[Ring(k)].faulted => k \in ended

\* The inductive invariant behind the publishing order: the wrapped counters and
\* the ring always stand for the unbounded history of pushes.
OrderInv ==
  /\ CountersWrap
  /\ WindowHolds
  /\ OnlyEndedPublished
  /\ PublishedInOrder
  /\ NothingPublishableLeft

\* While its callers keep to their side no fatal_unless! of the queue fires.
NoDeath == ~Misused => dead = "no"

\* The module doc's reading of the latch: every faulted head of a running queue
\* has itself been reported to the device (stamps.rs, "reports a faulted head
\* once until the device resumes it").
FaultedHeadIsReported ==
  (Pending > 0 /\ ~quiesced /\ slots[SlotAt(0)].faulted) => published + 1 \in reported

\* A push does not stay blocked while handlers complete and the guest resumes
\* what it is told of: no pump makes room without waking it.  The one exception is
\* a head whose fault a stale latch keeps from the guest (FaultedHeadIsReported).
\* Callers that misuse the queue may end the process or lose a completion.
PushReturns ==
  \A t \in Pushers :
    pushing[t] # NoValue ~> pushing[t] = NoValue \/ ~FaultedHeadIsReported \/ Misused

\* A drain returns once every pending stamp completes: the pump that empties the
\* queue wakes it.
DrainEnds == \A d \in Drainers : control[d] = "draining" ~> control[d] = "idle" \/ Misused
=============================================================================
