------------------------------- MODULE Timer -------------------------------
(***************************************************************************)
(* The repeating timer (crates/reims-vgpu-core/src/rt/timer.rs) over the   *)
(* coalescing source it fires into: the timer's thread waits for each      *)
(* point of its schedule and merges the points passed, the handle cancels  *)
(* it or is dropped.  A source here is used by a timer, or by threads of   *)
(* its own as in CoalescingSignal.                                         *)
(*                                                                         *)
(* Its one user gives it the wall time, which may jump, back too.  The     *)
(* definitions named ..._bug are plausible mistakes in the one they        *)
(* precede, kept to show which property catches each.                      *)
(***************************************************************************)
EXTENDS CoalescingSignal

CONSTANTS
  TimerThread, Caller,  \* two of the Threads: the timer's own, and the one with the handle
  Start, Interval,      \* the schedule
  MaxTime, MaxJumps     \* bounds: the clock's range, and how often it is seen to move

ASSUME TimerAssumption ==
  /\ {TimerThread, Caller} \subseteq Threads /\ TimerThread # Caller
  /\ {Start, Interval, MaxTime, MaxJumps} \subseteq Nat
  \* the word and the merges suffice for every point of the clock's range
  /\ MaxTime < 2 ^ Bits - 1 /\ MaxTime < MaxMerges

VARIABLES
  use,          \* "timer" or "source"
  now, jumps,   \* the clock, and how often it has moved
  latest,       \* history: the latest time the clock has shown
  next, due,    \* the thread's next point, and the fires it is about to merge
  thread,       \* where the timer's thread is
  shared,       \* Shared::cancelled
  handle        \* what the caller has done with the handle

timer == <<now, jumps, latest, next, due, thread, shared, handle>>
timer_vars == <<vars, use, timer>>

TimerInit ==
  /\ Init /\ use \in {"timer", "source"} /\ (use = "timer" => kind = "Add")
  /\ now = 0 /\ jumps = 0 /\ latest = 0 /\ next = Start /\ due = 0 /\ thread = "check"
  /\ shared = FALSE /\ handle = "held"

-----------------------------------------------------------------------------
(* The timer's thread; it holds the lock of `shared` from a check that finds a point due to the *)
(* end of its fires_due, and gives it up while asleep.                                          *)

Step == IF Interval = 0 THEN 1 ELSE Interval

\* The points from `from` to `at`, and the next after them.
fires_due_bug(from, at) ==  \* one fire however late, and the next from now
  IF at < from THEN <<0, from>> ELSE <<1, at + Step>>
fires_due(from, at) ==
  IF at < from THEN <<0, from>>
  ELSE LET fires == (at - from) \div Step + 1 IN <<fires, from + fires * Step>>

Check ==
  /\ thread = "check"
  /\ thread' = IF shared THEN "ended" ELSE IF now < next THEN "asleep" ELSE "fire"
  /\ UNCHANGED <<vars, now, jumps, latest, next, due, shared, handle>>

\* wait_until's deadline.
Reached_bug(deadline) == now > deadline
Reached(deadline) == now >= deadline
WakesAtDeadline ==
  /\ thread = "asleep" /\ Reached(next) /\ thread' = "check"
  /\ UNCHANGED <<vars, now, jumps, latest, next, due, shared, handle>>

\* The clock is read again, and may have gone back.
Fire ==
  /\ thread = "fire" /\ thread' = "merge"
  /\ LET fires == fires_due(next, now) IN due' = fires[1] /\ next' = fires[2]
  /\ UNCHANGED <<vars, now, jumps, latest, shared, handle>>

MergeFires ==
  /\ \/ /\ thread = "merge" /\ due' = 0
        /\ \/ (due = 0 \/ cancelled) /\ thread' = "check" /\ UNCHANGED vars
           \/ due # 0 /\ merge(TimerThread, due)
              /\ thread' = IF TimerThread \in owes' THEN "submit" ELSE "check"
     \/ thread = "submit" /\ submit(TimerThread) /\ thread' = "check" /\ UNCHANGED due
  /\ UNCHANGED <<now, jumps, latest, next, shared, handle>>

run == Check \/ WakesAtDeadline \/ Fire \/ MergeFires

Tick ==
  /\ jumps < MaxJumps /\ jumps' = jumps + 1
  /\ now' \in 0..MaxTime \ {now}
  /\ latest' = IF now' > latest THEN now' ELSE latest
  /\ UNCHANGED <<vars, next, due, thread, shared, handle>>

-----------------------------------------------------------------------------
(* The handle *)

\* cancel: the flag under its lock, the source's cancel, then the wake.
SetCancelled ==
  /\ handle = "held" /\ thread # "fire" /\ handle' = "signal" /\ shared' = TRUE
  /\ UNCHANGED <<vars, thread>>
CancelSignal ==
  /\ \/ handle = "signal" /\ cancel(Caller)
        /\ handle' = IF Caller \in owes' THEN "submit" ELSE "notify"
     \/ handle = "submit" /\ submit(Caller) /\ handle' = "notify"
  /\ UNCHANGED <<shared, thread>>
NotifyAll_bug ==
  /\ handle = "notify" /\ handle' = "cancelled" /\ UNCHANGED <<vars, shared, thread>>
NotifyAll ==
  /\ handle = "notify" /\ handle' = "cancelled"
  /\ thread' = IF thread = "asleep" THEN "check" ELSE thread
  /\ UNCHANGED <<vars, shared>>

Cancelling == SetCancelled \/ CancelSignal \/ NotifyAll

\* drop without a cancel: the source is kept for good.
KeepForever == handle = "held" /\ handle' = "kept" /\ UNCHANGED <<vars, shared, thread>>

HandleStep == (Cancelling \/ KeepForever) /\ UNCHANGED <<now, jumps, latest, next, due>>

Fires(j) == JobStep(j) /\ UNCHANGED timer
TimerStep == run \/ Tick \/ HandleStep \/ \E j \in Jobs : Fires(j)
SourceStep == Next /\ UNCHANGED timer

TimerNext ==
  \/ use = "timer" /\ TimerStep /\ UNCHANGED use
  \/ use = "source" /\ SourceStep /\ UNCHANGED use

TimerSpec == TimerInit /\ [][TimerNext]_timer_vars

(* The timer's thread runs, and wakes at its deadline; a cancel that has begun goes on; the     *)
(* target runs what it is given.  The clock need not move and nobody need cancel.               *)
TimerFairness ==
  /\ WF_timer_vars(use = "timer" /\ run /\ UNCHANGED use)
  /\ WF_timer_vars(use = "timer" /\ handle # "held" /\ HandleStep /\ UNCHANGED use)
  /\ \A t \in Threads : WF_timer_vars(use = "source" /\ submit(t) /\ UNCHANGED <<timer, use>>)
  /\ \A j \in Jobs : WF_timer_vars(Fires(j) /\ UNCHANGED use)

FairTimerSpec == TimerSpec /\ TimerFairness

-----------------------------------------------------------------------------
TimerTypeOK ==
  /\ TypeOK /\ use \in {"timer", "source"}
  /\ {now, latest} \subseteq 0..MaxTime /\ jumps \in 0..MaxJumps
  /\ next \in Nat /\ due \in Nat /\ shared \in BOOLEAN
  /\ thread \in {"check", "asleep", "fire", "merge", "submit", "ended"}
  /\ handle \in {"held", "signal", "submit", "notify", "cancelled", "kept"}

PointsBefore(time) == (time - Start) \div Step

(* The fires merged, with those in the thread's hand, are the points of the schedule before the *)
(* next one, each once, however late a wake is, whenever the clock jumps, between the thread's  *)
(* two reads of it too; and no point is fired before the clock has shown it.                     *)
FiresFollowSchedule ==
  use = "timer" /\ ~cancelled =>
    /\ (merged + due) % 2 ^ Bits = PointsBefore(next)
    /\ (next - Start) % Step = 0
    /\ next > Start => next - Step <= latest

(* Every point passed reaches the handler, by a wake however late and through the source,       *)
(* unless the timer is cancelled; a timer dropped uncancelled keeps firing.                      *)
PointsDelivered ==
  []<>(use = "timer" => cancelled \/ (now < next /\ delivered = PointsBefore(next)))

(* A cancel ends the timer's thread, wherever it finds it and however far off its next point is. *)
CancelEndsThread == shared ~> thread = "ended"
=============================================================================
