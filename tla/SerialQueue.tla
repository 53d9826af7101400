---------------------------- MODULE SerialQueue ----------------------------
(***************************************************************************)
(* A serial queue (crates/reims-vgpu-core/src/rt/queue.rs): async blocks   *)
(* run on a worker thread that ends when idle and is started again on      *)
(* demand; sync blocks run on their caller's thread, which holds the queue *)
(* meanwhile.  Each action is one hold of the queue's lock, or one wake    *)
(* made after it is released.                                              *)
(*                                                                         *)
(* A sync by a thread that owns the queue already runs its block at once   *)
(* and touches nothing of the queue, so it has no action.  The worker's    *)
(* idle drain releases what its blocks held; a release there may submit to *)
(* the queue or sync onto it.  A worker that has ended is one more thread. *)
(* The definitions named ..._bug are plausible mistakes in the one they    *)
(* precede, kept to show which property catches each.                      *)
(***************************************************************************)
EXTENDS Integers, Sequences, FiniteSets

CONSTANTS
  Threads,    \* the threads that submit and sync, other than the worker
  Worker,     \* the queue's worker thread
  None,
  MaxBlocks   \* bound: async blocks submitted; block n is the n-th

ASSUME SerialQueueAssumption ==
  /\ Worker \notin Threads /\ None \notin Threads /\ None # Worker
  /\ MaxBlocks \in Nat /\ IsFiniteSet(Threads)
  /\ (1..MaxBlocks) \cap (Threads \cup {Worker, None}) = {}   \* an item is told by what it is

Actors == Threads \cup {Worker}
Blocks == 1..MaxBlocks

VARIABLES
  items,      \* blocks, and the callers waiting for their turn, by thread
  owner,      \* "Idle", "Worker" or "Caller"
  worker,     \* a worker thread is alive, or about to be
  released,   \* the last handle is gone
  given,      \* the callers whose turn has been given
  pc,         \* where each thread is
  running,    \* the block the worker runs, or None
  drained,    \* the worker's local: has it drained since it last stepped?
  owes,       \* the wake each thread makes next: "no", "notify" or "start"
  submitted   \* how many blocks have been submitted

state == <<items, owner, worker, released, given, running, submitted>>
vars  == <<state, pc, drained, owes>>

(* The worker is in its loop ("loop", "run", "parked", "expired"), in its idle *)
(* drain ("drain"), or in a sync the drain makes ("turn", "turnrun",           *)
(* "turnparked", "hold").                                                      *)
WorkerPCs == {"none", "loop", "run", "parked", "expired", "drain", "turn", "turnrun",
              "turnparked", "hold"}

TypeOK ==
  /\ items \in Seq(Blocks \cup Actors)
  /\ owner \in {"Idle", "Worker", "Caller"}
  /\ worker \in BOOLEAN /\ released \in BOOLEAN /\ drained \in BOOLEAN
  /\ given \subseteq Actors
  /\ \A t \in Threads : pc[t] \in {"out", "turn", "hold"}
  /\ pc[Worker] \in WorkerPCs
  /\ running \in Blocks \cup {None}
  /\ owes \in [Actors -> {"no", "notify", "start"}]
  /\ submitted \in 0..MaxBlocks

\* SerialQueue::new: the worker is started with the queue, by the thread that makes it.
Init ==
  /\ items = <<>> /\ owner = "Idle" /\ worker = TRUE /\ released = FALSE
  /\ given = {} /\ running = None /\ submitted = 0 /\ drained = TRUE
  /\ pc = [a \in Actors |-> IF a = Worker THEN "none" ELSE "out"]
  /\ \E t \in Threads : owes = [a \in Actors |-> IF a = t THEN "start" ELSE "no"]

-----------------------------------------------------------------------------
IdleAndEmpty == owner = "Idle" /\ items = <<>>
HeadIsCaller == items # <<>> /\ Head(items) \in Actors
Goto(a, label) == pc' = [pc EXCEPT ![a] = label]
Owe(a, wake)   == owes' = [owes EXCEPT ![a] = wake]

\* A thread that runs code of its own: outside the queue, or in a block of it.
Free(a) == owes[a] = "no" /\ pc[a] \in {"out", "hold", "run", "turnrun", "drain"}

\* submit: queues a block and starts or wakes the worker, once the lock is released.
submit_bug(a) ==
  /\ Free(a) /\ ~released /\ submitted < MaxBlocks
  /\ submitted' = submitted + 1
  /\ items' = Append(items, submitted + 1)
  /\ Owe(a, IF worker THEN "notify" ELSE "start")
  /\ UNCHANGED <<worker, owner, released, given, running, pc, drained>>
submit(a) ==
  /\ Free(a) /\ ~released /\ submitted < MaxBlocks
  /\ submitted' = submitted + 1
  /\ items' = Append(items, submitted + 1)
  /\ worker' = TRUE
  /\ Owe(a, IF worker THEN "notify" ELSE "start")
  /\ UNCHANGED <<owner, released, given, running, pc, drained>>

\* work.notify_one: only the worker ever waits on `work'.
notify_one(a) ==
  /\ owes[a] = "notify" /\ Owe(a, "no")
  /\ pc' = [pc EXCEPT ![Worker] = CASE @ = "parked" -> "loop"
                                    [] @ = "turnparked" -> "turn"
                                    [] OTHER -> @]
  /\ UNCHANGED <<state, drained>>

start_worker(a) ==
  /\ owes[a] = "start" /\ Owe(a, "no")
  /\ pc[Worker] = "none" /\ Goto(Worker, "loop")
  /\ drained' = TRUE
  /\ UNCHANGED state

\* Handle::drop of the last handle: nobody uses the queue any more, its blocks included.
drop_handle_bug(a) ==
  /\ Free(a) /\ ~released
  /\ \A t \in Threads : pc[t] = "out" /\ owes[t] = "no"
  /\ pc[Worker] \notin {"turn", "turnrun", "turnparked", "hold"}
  /\ released' = TRUE
  /\ UNCHANGED <<items, owner, worker, given, running, submitted, pc, drained, owes>>
drop_handle(a) ==
  /\ Free(a) /\ ~released
  /\ \A t \in Threads : pc[t] = "out" /\ owes[t] = "no"
  /\ pc[Worker] \notin {"turn", "turnrun", "turnparked", "hold"}
  /\ released' = TRUE
  /\ Owe(a, "notify")
  /\ UNCHANGED <<items, owner, worker, given, running, submitted, pc, drained>>

-----------------------------------------------------------------------------
(* sync *)

\* take_turn: at once on an idle, empty queue; else behind every item queued before.
take_turn(a) ==
  /\ Free(a) /\ pc[a] \in {"out", "drain"} /\ ~released
  /\ \/ /\ IdleAndEmpty /\ owner' = "Caller" /\ Goto(a, "hold") /\ UNCHANGED items
     \/ /\ ~IdleAndEmpty /\ items' = Append(items, a)
        /\ Goto(a, "turn") /\ UNCHANGED owner
  /\ UNCHANGED <<worker, released, given, running, submitted, drained, owes>>

\* Turn::wait, and on the worker the same test at the top of take_turn's loop.
TurnGiven(a) ==
  /\ pc[a] = "turn" /\ a \in given
  /\ given' = given \ {a} /\ Goto(a, "hold")
  /\ UNCHANGED <<items, owner, worker, released, running, submitted, drained, owes>>

\* Where a sync returns to: the caller's own code, which for the worker is its drain.
Resume(a) == IF a = Worker THEN "drain" ELSE "out"

\* give_up: the caller's block is done.
give_up_bug(a) ==
  /\ pc[a] = "hold" /\ owes[a] = "no"
  /\ \/ /\ HeadIsCaller
        /\ given' = given \cup {Head(items)} /\ items' = Tail(items)
        /\ UNCHANGED <<owner, owes>>
     \/ /\ ~HeadIsCaller /\ owner' = "Idle"
        /\ Owe(a, IF items # <<>> THEN "notify" ELSE "no")
        /\ UNCHANGED <<given, items>>
  /\ Goto(a, Resume(a))
  /\ UNCHANGED <<worker, released, running, submitted, drained>>
give_up(a) ==
  /\ pc[a] = "hold" /\ owes[a] = "no"
  /\ \/ /\ HeadIsCaller
        /\ given' = given \cup {Head(items)} /\ items' = Tail(items)
        /\ Owe(a, IF Head(items) = Worker THEN "notify" ELSE "no")
        /\ UNCHANGED owner
     \/ /\ ~HeadIsCaller /\ owner' = "Idle"
        /\ Owe(a, IF items # <<>> THEN "notify" ELSE "no")
        /\ UNCHANGED <<given, items>>
  /\ Goto(a, Resume(a))
  /\ UNCHANGED <<worker, released, running, submitted, drained>>

-----------------------------------------------------------------------------
(* The worker *)

CanStep == owner = "Idle" /\ items # <<>>

\* step: runs the block at the head (the worker is then at `inBlock'), or gives the
\* caller at the head its turn and goes on.
step(inBlock) ==
  /\ CanStep /\ items' = Tail(items)
  /\ \/ /\ ~HeadIsCaller
        /\ owner' = "Worker" /\ running' = Head(items) /\ Goto(Worker, inBlock)
        /\ UNCHANGED given
     \/ /\ HeadIsCaller
        /\ owner' = "Caller" /\ given' = given \cup {Head(items)}
        /\ UNCHANGED <<running, pc>>
  /\ UNCHANGED <<worker, released, submitted, owes>>

\* The block the worker ran returns to its loop, or to take_turn's.
BlockEnds ==
  /\ pc[Worker] \in {"run", "turnrun"} /\ owes[Worker] = "no"
  /\ owner' = "Idle" /\ running' = None
  /\ Goto(Worker, IF pc[Worker] = "run" THEN "loop" ELSE "turn")
  /\ UNCHANGED <<items, worker, released, given, submitted, drained, owes>>

WorkStep == pc[Worker] = "loop" /\ step("run") /\ drained' = FALSE

\* Nothing to step: the worker drains once, ends once released, or waits.
WorkIdles ==
  /\ pc[Worker] = "loop" /\ ~CanStep
  /\ \/ ~drained /\ Goto(Worker, "drain") /\ drained' = TRUE /\ UNCHANGED worker
     \/ /\ drained /\ IdleAndEmpty /\ released
        /\ Goto(Worker, "none") /\ worker' = FALSE /\ UNCHANGED drained
     \/ /\ drained /\ ~(IdleAndEmpty /\ released)
        /\ Goto(Worker, "parked") /\ UNCHANGED <<worker, drained>>
  /\ UNCHANGED <<items, owner, released, given, running, submitted, owes>>

\* IDLE_EXIT passes, and the worker takes the lock again.
IdleTimeout == pc[Worker] = "parked" /\ Goto(Worker, "expired") /\ UNCHANGED <<state, drained, owes>>

AfterTimeout ==
  /\ pc[Worker] = "expired"
  /\ \/ IdleAndEmpty /\ Goto(Worker, "none") /\ worker' = FALSE
     \/ ~IdleAndEmpty /\ Goto(Worker, "loop") /\ UNCHANGED worker
  /\ UNCHANGED <<items, owner, released, given, running, submitted, drained, owes>>

DrainIdleEnds ==
  /\ pc[Worker] = "drain" /\ owes[Worker] = "no" /\ Goto(Worker, "loop")
  /\ UNCHANGED <<state, drained, owes>>

\* take_turn's loop on the worker, whose turn has not been given: it takes its own
\* turn at the head of an idle queue, runs what is ahead of it, or waits.
WorkerTurn ==
  /\ pc[Worker] = "turn" /\ Worker \notin given
  /\ \/ /\ CanStep /\ Head(items) = Worker
        /\ items' = Tail(items) /\ owner' = "Caller" /\ Goto(Worker, "hold")
        /\ UNCHANGED <<worker, released, given, running, submitted, owes>>
     \/ CanStep /\ Head(items) # Worker /\ step("turnrun")
     \/ ~CanStep /\ Goto(Worker, "turnparked") /\ UNCHANGED <<state, owes>>
  /\ UNCHANGED drained

-----------------------------------------------------------------------------
WorkerNext == WorkStep \/ WorkIdles \/ AfterTimeout \/ BlockEnds \/ DrainIdleEnds \/ WorkerTurn

Next ==
  \/ \E a \in Actors : \/ submit(a) \/ notify_one(a) \/ start_worker(a) \/ drop_handle(a)
                       \/ take_turn(a) \/ TurnGiven(a) \/ give_up(a)
  \/ WorkerNext \/ IdleTimeout

Spec == Init /\ [][Next]_vars

(* Running threads go on: a worker with something to do does it, blocks      *)
(* return, drains end, and a wake is made once its lock is released.  Nobody  *)
(* has to submit, sync or release, and no idle worker's time has to run out.  *)
Fairness ==
  /\ WF_vars(WorkerNext)
  /\ \A a \in Actors : WF_vars(notify_one(a) \/ start_worker(a) \/ TurnGiven(a))
  /\ \A a \in Actors : WF_vars(give_up(a))

FairSpec == Spec /\ Fairness

-----------------------------------------------------------------------------
(* The threads in a block of the queue, or with a turn they have not noticed. *)
InBlock == {a \in Actors : pc[a] \in {"run", "turnrun", "hold"} \/ a \in given}

\* The block or the thread that holds the queue, or None.
Holder == CASE running # None -> running
            [] running = None /\ InBlock # {} -> CHOOSE a \in InBlock : TRUE
            [] OTHER -> None

\* What a client can see of the queue: its items, and who is in a block of it.
Executor == INSTANCE SerialExecutor
  WITH Items <- Blocks \cup Actors, queue <- items, holder <- Holder

(* A queued block always has a worker to come, though a queue that only sync callers  *)
(* use may have none; and two are never started (a submit racing an idle worker's end).*)
OneWorker ==
  /\ Cardinality({a \in Actors : owes[a] = "start"}) + (IF pc[Worker] = "none" THEN 0 ELSE 1)
       = (IF worker THEN 1 ELSE 0)
  /\ (\E i \in DOMAIN items : items[i] \in Blocks) => worker

(* The queue implements the executor: blocks and sync callers take it in the order    *)
(* they came, none skipped or repeated, a sync caller goes first only when nothing is   *)
(* before it, and everything submitted runs: the head of a free queue is always taken   *)
(* up in the end, without the worker's idle time-out having to come to its rescue.      *)
ImplementsExecutor == Executor!Spec

(* Once the last handle is gone the worker ends by itself, not 5 s later.             *)
ReleasedWorkerEnds == released ~> (~worker /\ items = <<>>)
=============================================================================
