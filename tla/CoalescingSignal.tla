-------------------------- MODULE CoalescingSignal --------------------------
(***************************************************************************)
(* A coalescing event source (crates/reims-vgpu-core/src/rt/signal.rs):    *)
(* merges fold into a pending word, one job on the target takes the word   *)
(* and runs the handler, and a cancel frees the handler on the target.     *)
(*                                                                         *)
(* The target is any Executor: the jobs it has been given start in its own *)
(* time, and nothing here relies on it to run them one by one.  Each       *)
(* action is one hold of the source's lock, or the call made after it.     *)
(* The definitions named ..._bug are plausible mistakes in the one they    *)
(* precede, kept to show which property catches each.                      *)
(***************************************************************************)
EXTENDS Integers, FiniteSets

CONSTANTS
  Bits,       \* the width of the word (64 in the code)
  Threads,    \* the threads that merge, cancel and release; a handler's code is one
  Jobs,       \* bound: the source's jobs that may exist at once on the target
  MaxMerges   \* bound: merges made

ASSUME CoalescingSignalAssumption ==
  /\ Bits \in Nat \ {0} /\ MaxMerges \in Nat
  /\ IsFiniteSet(Threads) /\ IsFiniteSet(Jobs)
  \* what the proofs take from the definition of 2 ^ b, which the provers do not know
  /\ \A b \in 0..(Bits - 1) : 2 ^ (b + 1) = 2 * 2 ^ b

Word == 0..(2 ^ Bits - 1)

VARIABLES
  kind,       \* how it merges, "Add" or "Or", set when it is made
  pending, scheduled, cancelled,  \* the source's State
  handler,    \* the handler is still set
  job,        \* where each job is: "none", "queued", "taken", "run", "callout", "freed"
  data,       \* the word each job took
  owes,       \* the threads about to submit a job
  merges,     \* how many merges have been made
  merged, delivered   \* history: all data merged before a cancel, all handed to the handler

source == <<kind, pending, scheduled, cancelled, handler>>
vars   == <<source, job, data, owes, merges, merged, delivered>>

TypeOK ==
  /\ kind \in {"Add", "Or"}
  /\ pending \in Word /\ scheduled \in BOOLEAN /\ cancelled \in BOOLEAN
  /\ handler \in BOOLEAN
  /\ job \in [Jobs -> {"none", "queued", "taken", "run", "callout", "freed"}]
  /\ data \in [Jobs -> Word]
  /\ owes \subseteq Threads
  /\ merges \in 0..MaxMerges /\ merged \in Word /\ delivered \in Word

Init ==
  /\ kind \in {"Add", "Or"}
  /\ pending = 0 /\ scheduled = FALSE /\ cancelled = FALSE /\ handler = TRUE
  /\ job = [j \in Jobs |-> "none"] /\ data = [j \in Jobs |-> 0]
  /\ owes = {} /\ merges = 0 /\ merged = 0 /\ delivered = 0

-----------------------------------------------------------------------------
BitsOf(w) == {b \in 0..(Bits - 1) : (w \div 2 ^ b) % 2 = 1}

\* How data combines: a wrapping add, or an or.
Fold(w, v) == IF kind = "Add" THEN (w + v) % 2 ^ Bits
              ELSE CHOOSE u \in Word : BitsOf(u) = BitsOf(w) \cup BitsOf(v)

Goto(j, label) == job' = [job EXCEPT ![j] = label]

\* merge(v), up to the unlock; merge(0) does nothing.
merge_bug(t, v) ==
  /\ t \notin owes /\ ~cancelled /\ merges < MaxMerges
  /\ pending' = Fold(pending, v)
  /\ owes' = IF pending' = 0 THEN owes ELSE owes \cup {t}
  /\ scheduled' = (scheduled \/ pending' # 0)
  /\ merges' = merges + 1 /\ merged' = Fold(merged, v)
  /\ UNCHANGED <<kind, cancelled, handler, job, data, delivered>>
merge(t, v) ==
  /\ t \notin owes /\ ~cancelled /\ merges < MaxMerges
  /\ pending' = Fold(pending, v)
  /\ owes' = IF scheduled \/ pending' = 0 THEN owes ELSE owes \cup {t}
  /\ scheduled' = (scheduled \/ pending' # 0)
  /\ merges' = merges + 1 /\ merged' = Fold(merged, v)
  /\ UNCHANGED <<kind, cancelled, handler, job, data, delivered>>

\* cancel, or the release of the last reference: once, up to the unlock.
cancel_bug(t) ==
  /\ t \notin owes /\ ~cancelled
  /\ cancelled' = TRUE /\ pending' = 0
  /\ UNCHANGED <<kind, scheduled, owes, handler, job, data, merges, merged, delivered>>
cancel(t) ==
  /\ t \notin owes /\ ~cancelled
  /\ cancelled' = TRUE /\ pending' = 0
  /\ owes' = IF scheduled THEN owes ELSE owes \cup {t}
  /\ scheduled' = TRUE
  /\ UNCHANGED <<kind, handler, job, data, merges, merged, delivered>>

\* Inner::submit: one more job on the target.
submit(t) ==
  /\ t \in owes /\ owes' = owes \ {t}
  /\ \E j \in Jobs : job[j] = "none" /\ Goto(j, "queued")
  /\ UNCHANGED <<source, data, merges, merged, delivered>>

\* fire, from its start to the unlock.
fire_bug(j) ==
  /\ job[j] = "queued"
  /\ \/ /\ cancelled /\ Goto(j, "callout") /\ UNCHANGED <<pending, scheduled, data>>
     \/ /\ ~cancelled
        /\ data' = [data EXCEPT ![j] = pending]
        /\ Goto(j, "taken") /\ UNCHANGED <<pending, scheduled>>
  /\ UNCHANGED <<kind, cancelled, handler, owes, merges, merged, delivered>>
fire(j) ==
  /\ job[j] = "queued"
  /\ \/ /\ cancelled /\ Goto(j, "callout") /\ UNCHANGED <<pending, scheduled, data>>
     \/ /\ ~cancelled /\ pending = 0
        /\ scheduled' = FALSE /\ Goto(j, "none") /\ UNCHANGED <<pending, data>>
     \/ /\ ~cancelled /\ pending # 0
        /\ data' = [data EXCEPT ![j] = pending] /\ pending' = 0
        /\ Goto(j, "taken") /\ UNCHANGED scheduled
  /\ UNCHANGED <<kind, cancelled, handler, owes, merges, merged, delivered>>

\* The handler is called, if it is still set.
CallHandler(j) ==
  /\ job[j] = "taken" /\ Goto(j, "run")
  /\ delivered' = IF handler THEN Fold(delivered, data[j]) ELSE delivered
  /\ UNCHANGED <<source, data, owes, merges, merged>>

\* The handler has returned: the callout, another invocation (submitted again by this
\* job, which nothing else can do meanwhile), or none.
HandlerReturns_bug(j) ==
  /\ job[j] = "run" /\ data' = [data EXCEPT ![j] = 0]
  /\ \/ cancelled /\ Goto(j, "callout") /\ UNCHANGED scheduled
     \/ ~cancelled /\ scheduled' = FALSE /\ Goto(j, "none")
  /\ UNCHANGED <<kind, pending, cancelled, handler, owes, merges, merged, delivered>>
HandlerReturns(j) ==
  /\ job[j] = "run" /\ data' = [data EXCEPT ![j] = 0]
  /\ \/ cancelled /\ Goto(j, "callout") /\ UNCHANGED scheduled
     \/ ~cancelled /\ pending # 0 /\ Goto(j, "queued") /\ UNCHANGED scheduled
     \/ ~cancelled /\ pending = 0 /\ scheduled' = FALSE /\ Goto(j, "none")
  /\ UNCHANGED <<kind, pending, cancelled, handler, owes, merges, merged, delivered>>

\* cancel_callout: takes the handler, then clears the schedule under the source's lock.
cancel_callout(j) ==
  /\ \/ /\ job[j] = "callout" /\ handler' = FALSE /\ Goto(j, "freed") /\ UNCHANGED scheduled
     \/ /\ job[j] = "freed" /\ scheduled' = FALSE /\ Goto(j, "none") /\ UNCHANGED handler
  /\ UNCHANGED <<kind, pending, cancelled, data, owes, merges, merged, delivered>>

ThreadStep(t) == (\E v \in Word \ {0} : merge(t, v)) \/ cancel(t) \/ submit(t)
JobStep(j) == fire(j) \/ CallHandler(j) \/ HandlerReturns(j) \/ cancel_callout(j)

Next == (\E t \in Threads : ThreadStep(t)) \/ (\E j \in Jobs : JobStep(j))

Spec == Init /\ [][Next]_vars

\* The target runs what it is given, handlers return, and a thread that has unlocked submits.
Fairness ==
  /\ \A t \in Threads : WF_vars(submit(t))
  /\ \A j \in Jobs : WF_vars(JobStep(j))

FairSpec == Spec /\ Fairness

-----------------------------------------------------------------------------
Live == {j \in Jobs : job[j] # "none"}

(* A source's handler is serial whatever its target: there is never more than one job,   *)
(* queued, running or about to be submitted, and exactly one while it is scheduled.      *)
OneInvocation == Cardinality(Live) + Cardinality(owes) = IF scheduled THEN 1 ELSE 0

(* Until a cancel nothing merged is lost and nothing is delivered twice: what has been     *)
(* merged is what was delivered, what an invocation has in hand, and what is pending.      *)
InHand == {j \in Jobs : job[j] = "taken"}
NothingLostOrRepeated ==
  ~cancelled => /\ \/ InHand = {} /\ merged = Fold(delivered, pending)
                   \/ \E j \in InHand : merged = Fold(Fold(delivered, data[j]), pending)
                /\ pending # 0 => scheduled

(* Everything pending reaches the handler or is dropped by a cancel.                      *)
PendingIsTaken == pending # 0 ~> pending = 0

(* A cancelled source frees its handler, and nothing is left scheduled, whether the       *)
(* cancel found it idle, with a job waiting on the target or with its handler running.    *)
CancelFreesHandler == cancelled ~> [](~handler /\ ~scheduled /\ Live = {})
=============================================================================
