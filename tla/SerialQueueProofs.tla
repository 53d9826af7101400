-------------------------- MODULE SerialQueueProofs --------------------------
(***************************************************************************)
(* Proofs about the serial queue, for every number of threads and blocks:   *)
(* it never has two workers, a queued block always has one to come, and its *)
(* steps are steps of the executor it promises to be.                       *)
(***************************************************************************)
EXTENDS SerialQueue, TLAPS, FiniteSetTheorems, SequenceTheorems

\* The type invariant, with pc as a function.
Typed == TypeOK /\ pc \in [Actors -> WorkerPCs \cup {"out"}]

\* One worker, or one thread about to start it, while `worker' holds, and neither while not.
WorkerInv ==
  /\ \A a, b \in Actors : owes[a] = "start" /\ owes[b] = "start" => a = b
  /\ \A a \in Actors : owes[a] = "start" => pc[Worker] = "none"
  /\ worker <=> (pc[Worker] # "none" \/ \E a \in Actors : owes[a] = "start")
  /\ \A i \in DOMAIN items : items[i] \in Blocks => worker

\* The owner says who is in a block: nobody, the worker in the one it runs, or one caller.
OwnerInv ==
  /\ owner = "Idle" <=> InBlock = {}
  /\ owner = "Worker" <=> pc[Worker] \in {"run", "turnrun"}
  /\ owner = "Worker" <=> running # None
  /\ \A a, b \in InBlock : a = b
  /\ \A a \in Actors : pc[a] \in {"hold", "run", "turnrun"} => a \notin given

IInv == Typed /\ WorkerInv /\ OwnerInv

\* What the assumptions say of the constants.
LEMMA Constants ==
  /\ Worker \in Actors /\ None \notin Actors /\ None \notin Blocks
  /\ Blocks \cap Actors = {} /\ Worker \notin Threads /\ IsFiniteSet(Actors)
<1>1. IsFiniteSet(Actors)
  BY SerialQueueAssumption, FS_AddElement DEF Actors
<1> QED
  BY <1>1, SerialQueueAssumption DEF Actors, Blocks

\* Taking the head off the queue, and adding to its end, add no other item.
LEMMA TailItems ==
  ASSUME Typed, items # <<>>
  PROVE  /\ Head(items) \in Blocks \cup Actors
         /\ Tail(items) \in Seq(Blocks \cup Actors)
         /\ \A i \in DOMAIN Tail(items) : i + 1 \in DOMAIN items /\ Tail(items)[i] = items[i + 1]
  BY HeadTailProperties, LenProperties DEF Typed, TypeOK

\* Adding to the end of the queue adds no other item.
LEMMA AppendItems ==
  ASSUME Typed, NEW x \in Blocks \cup Actors
  PROVE  /\ Append(items, x) \in Seq(Blocks \cup Actors)
         /\ \A i \in DOMAIN Append(items, x) :
              (i \in DOMAIN items /\ Append(items, x)[i] = items[i]) \/ Append(items, x)[i] = x
  BY AppendProperties, LenProperties DEF Typed, TypeOK

\* An idle and empty queue has no item.
LEMMA NoItems == IdleAndEmpty => DOMAIN items = {}
  BY DEF IdleAndEmpty

-----------------------------------------------------------------------------
\* A new queue has no worker, no owner and no items.
LEMMA InitInv == Init => IInv
<1> SUFFICES ASSUME Init PROVE IInv
  OBVIOUS
<1> USE Constants
<1>1. Typed
  <2>1. pc \in [Actors -> WorkerPCs \cup {"out"}] /\ pc[Worker] = "none"
    BY DEF Init, WorkerPCs
  <2>2. \A t \in Threads : pc[t] = "out"
    BY DEF Init, Actors
  <2>3. owes \in [Actors -> {"no", "notify", "start"}]
    BY DEF Init
  <2>4. submitted \in 0..MaxBlocks
    BY SerialQueueAssumption DEF Init
  <2>5. worker \in BOOLEAN /\ released \in BOOLEAN /\ drained \in BOOLEAN
    BY Zenon DEF Init
  <2>6. items \in Seq(Blocks \cup Actors) /\ given \subseteq Actors
    BY DEF Init
  <2> QED
    BY <2>1, <2>2, <2>3, <2>4, <2>5, <2>6 DEF Init, Typed, TypeOK, WorkerPCs
<1>2. WorkerInv
  BY DEF Init, WorkerInv, Actors
<1>3. OwnerInv
  BY DEF Init, OwnerInv, InBlock
<1> QED
  BY <1>1, <1>2, <1>3 DEF IInv

\* A step that keeps the queue's state as its clients see it, and where threads are in it.
LEMMA SubmitKeeps ==
  ASSUME IInv, NEW a \in Actors, submit(a)
  PROVE  IInv'
<1> USE Constants
<1>1. submitted + 1 \in Blocks /\ submitted' \in 0..MaxBlocks
  BY SerialQueueAssumption DEF IInv, Typed, TypeOK, submit, Blocks
<1>2. /\ items' = Append(items, submitted + 1) /\ items' \in Seq(Blocks \cup Actors)
  BY <1>1, AppendItems DEF IInv, submit
<1>3. Typed'
  BY <1>1, <1>2 DEF IInv, Typed, TypeOK, submit, Owe
<1>4. WorkerInv'
  BY DEF IInv, Typed, TypeOK, WorkerInv, submit, Owe, Free
<1>5. OwnerInv'
  BY DEF IInv, OwnerInv, submit, InBlock
<1> QED
  BY <1>3, <1>4, <1>5 DEF IInv

\* The wakes and the worker's start, made after the unlock, and the drop of a handle keep the invariant.
LEMMA WakesKeep ==
  ASSUME IInv, NEW a \in Actors, notify_one(a) \/ start_worker(a) \/ drop_handle(a)
  PROVE  IInv'
<1> USE Constants
<1>1. CASE notify_one(a)
  <2>1. Typed'
    BY <1>1 DEF IInv, Typed, TypeOK, notify_one, Owe, state, WorkerPCs, Actors
  <2>2. WorkerInv'
    BY <1>1 DEF IInv, Typed, TypeOK, WorkerInv, notify_one, Owe, state
  <2>3. OwnerInv'
    BY <1>1 DEF IInv, Typed, OwnerInv, notify_one, state, InBlock
  <2> QED
    BY <2>1, <2>2, <2>3 DEF IInv
<1>2. CASE start_worker(a)
  <2>1. Typed'
    BY <1>2 DEF IInv, Typed, TypeOK, start_worker, Owe, Goto, state, WorkerPCs, Actors
  <2>2. WorkerInv'
    BY <1>2 DEF IInv, Typed, TypeOK, WorkerInv, start_worker, Owe, Goto, state
  <2>3. OwnerInv'
    BY <1>2 DEF IInv, Typed, OwnerInv, start_worker, Goto, state, InBlock
  <2> QED
    BY <2>1, <2>2, <2>3 DEF IInv
<1>3. CASE drop_handle(a)
  <2>1. Typed'
    BY <1>3 DEF IInv, Typed, TypeOK, drop_handle, Owe
  <2>2. WorkerInv'
    BY <1>3 DEF IInv, Typed, TypeOK, WorkerInv, drop_handle, Owe, Free
  <2>3. OwnerInv'
    BY <1>3 DEF IInv, OwnerInv, drop_handle, InBlock
  <2> QED
    BY <2>1, <2>2, <2>3 DEF IInv
<1> QED
  BY <1>1, <1>2, <1>3

\* A sync that takes the queue, or waits its turn, keeps the invariant.
LEMMA TakeTurnKeeps ==
  ASSUME IInv, NEW a \in Actors, take_turn(a)
  PROVE  IInv'
<1> USE Constants
<1>1. a = Worker <=> pc[a] = "drain"
  BY DEF IInv, Typed, TypeOK, take_turn, Actors, WorkerPCs
<1>2. /\ items' \in Seq(Blocks \cup Actors)
      /\ \A i \in DOMAIN items' : (i \in DOMAIN items /\ items'[i] = items[i]) \/ items'[i] = a
  <2>1. /\ Append(items, a) \in Seq(Blocks \cup Actors)
        /\ \A i \in DOMAIN Append(items, a) :
             (i \in DOMAIN items /\ Append(items, a)[i] = items[i]) \/ Append(items, a)[i] = a
    BY AppendItems DEF IInv
  <2> QED
    BY <2>1 DEF IInv, Typed, TypeOK, take_turn
<1>3. Typed'
  BY <1>1, <1>2 DEF IInv, Typed, TypeOK, take_turn, Goto, WorkerPCs, Actors
<1>4. WorkerInv'
  BY <1>1, <1>2 DEF IInv, Typed, TypeOK, WorkerInv, take_turn, Goto
<1>5. OwnerInv'
  BY <1>1 DEF IInv, Typed, TypeOK, OwnerInv, take_turn, Goto, InBlock, IdleAndEmpty, Free
<1> QED
  BY <1>3, <1>4, <1>5 DEF IInv

\* A caller that finds its turn given keeps the invariant.
LEMMA TurnGivenKeeps ==
  ASSUME IInv, NEW a \in Actors, TurnGiven(a)
  PROVE  IInv'
<1> USE Constants
<1>1. Typed'
  BY DEF IInv, Typed, TypeOK, TurnGiven, Goto, WorkerPCs, Actors
<1>2. WorkerInv'
  BY DEF IInv, Typed, TypeOK, WorkerInv, TurnGiven, Goto
<1>3. OwnerInv'
  BY DEF IInv, Typed, TypeOK, OwnerInv, TurnGiven, Goto, InBlock
<1> QED
  BY <1>1, <1>2, <1>3 DEF IInv

\* A caller that gives up the queue hands it to one other, or to nobody.
LEMMA GiveUpKeeps ==
  ASSUME IInv, NEW a \in Actors, give_up(a)
  PROVE  IInv'
<1> USE Constants
<1>1. a \in InBlock /\ a \notin given /\ running = None /\ Resume(a) \in {"drain", "out"}
  BY DEF IInv, Typed, TypeOK, OwnerInv, give_up, InBlock, Resume, Actors
<1>2. CASE HeadIsCaller
  <2> DEFINE h == Head(items)
  <2>1. /\ h \in Actors /\ items' = Tail(items) /\ given' = given \cup {h}
        /\ pc' = [pc EXCEPT ![a] = Resume(a)]
        /\ owes' = [owes EXCEPT ![a] = IF h = Worker THEN "notify" ELSE "no"]
        /\ UNCHANGED <<owner, worker, released, running, submitted, drained>>
    BY <1>2 DEF give_up, HeadIsCaller, Goto, Owe
  <2>2. /\ Tail(items) \in Seq(Blocks \cup Actors)
        /\ \A i \in DOMAIN Tail(items) : i + 1 \in DOMAIN items /\ Tail(items)[i] = items[i + 1]
    BY <1>2, TailItems DEF IInv, HeadIsCaller
  <2> HIDE DEF h
  <2>3. Typed'
    BY <2>1, <2>2 DEF IInv, Typed, TypeOK, Resume, WorkerPCs, Actors
  <2>4. WorkerInv'
    BY <1>1, <2>1, <2>2 DEF IInv, Typed, TypeOK, WorkerInv, give_up
  <2>5. OwnerInv'
    BY <1>1, <2>1 DEF IInv, Typed, TypeOK, OwnerInv, InBlock
  <2> QED
    BY <2>3, <2>4, <2>5 DEF IInv
<1>3. CASE ~HeadIsCaller
  <2>1. /\ owner' = "Idle" /\ pc' = [pc EXCEPT ![a] = Resume(a)]
        /\ owes' = [owes EXCEPT ![a] = IF items # <<>> THEN "notify" ELSE "no"]
        /\ UNCHANGED <<items, given, worker, released, running, submitted, drained>>
    BY <1>3 DEF give_up, Goto, Owe
  <2>2. Typed'
    BY <2>1 DEF IInv, Typed, TypeOK, Resume, WorkerPCs, Actors
  <2>3. WorkerInv'
    BY <1>1, <2>1 DEF IInv, Typed, TypeOK, WorkerInv, give_up
  <2>4. OwnerInv'
    BY <1>1, <2>1 DEF IInv, Typed, TypeOK, OwnerInv, InBlock
  <2> QED
    BY <2>2, <2>3, <2>4 DEF IInv
<1> QED
  BY <1>2, <1>3

\* A step of the worker's loops: the block at the head starts, or the caller at the head gets
\* its turn.
LEMMA StepKeeps ==
  ASSUME IInv, NEW label \in {"run", "turnrun"}, pc[Worker] \in {"loop", "turn"},
         step(label), drained' \in BOOLEAN
  PROVE  IInv'
<1> USE Constants
<1>1. /\ owner = "Idle" /\ items # <<>> /\ items' = Tail(items) /\ running = None /\ InBlock = {}
      /\ UNCHANGED <<worker, released, submitted, owes>>
  BY DEF IInv, OwnerInv, step, CanStep
<1>2. /\ Head(items) \in Blocks \cup Actors
      /\ Tail(items) \in Seq(Blocks \cup Actors)
      /\ \A i \in DOMAIN Tail(items) : i + 1 \in DOMAIN items /\ Tail(items)[i] = items[i + 1]
  BY <1>1, TailItems DEF IInv
<1>3. CASE ~HeadIsCaller
  <2>1. /\ owner' = "Worker" /\ running' = Head(items) /\ running' \in Blocks
        /\ pc' = [pc EXCEPT ![Worker] = label] /\ given' = given
    BY <1>1, <1>2, <1>3 DEF step, HeadIsCaller, Goto
  <2>2. Typed'
    BY <1>1, <1>2, <2>1 DEF IInv, Typed, TypeOK, WorkerPCs, Actors
  <2>3. WorkerInv'
    BY <1>1, <1>2, <2>1 DEF IInv, Typed, TypeOK, WorkerInv
  <2>4. OwnerInv'
    BY <1>1, <2>1 DEF IInv, Typed, TypeOK, OwnerInv, InBlock
  <2> QED
    BY <2>2, <2>3, <2>4 DEF IInv
<1>4. CASE HeadIsCaller
  <2> DEFINE h == Head(items)
  <2>1. /\ owner' = "Caller" /\ given' = given \cup {h} /\ h \in Actors
        /\ UNCHANGED <<running, pc>>
    BY <1>4 DEF step, HeadIsCaller
  <2> HIDE DEF h
  <2>2. Typed'
    BY <1>1, <1>2, <2>1 DEF IInv, Typed, TypeOK
  <2>3. WorkerInv'
    BY <1>1, <1>2, <2>1 DEF IInv, Typed, TypeOK, WorkerInv
  <2>4. OwnerInv'
    BY <1>1, <2>1 DEF IInv, Typed, TypeOK, OwnerInv, InBlock
  <2> QED
    BY <2>2, <2>3, <2>4 DEF IInv
<1> QED
  BY <1>3, <1>4

\* The worker's steps, its idle time-out included, keep the invariant.
LEMMA WorkerKeeps ==
  ASSUME IInv, WorkerNext \/ IdleTimeout
  PROVE  IInv'
<1> USE Constants
<1>1. CASE WorkStep
  BY <1>1, StepKeeps DEF WorkStep
<1>2. CASE WorkIdles
  <2>1. Typed'
    BY <1>2 DEF IInv, Typed, TypeOK, WorkIdles, Goto, WorkerPCs, Actors
  <2>2. WorkerInv'
    <3>1. CASE IdleAndEmpty /\ worker' = FALSE /\ pc' = [pc EXCEPT ![Worker] = "none"]
      BY <1>2, <3>1, NoItems DEF IInv, Typed, TypeOK, WorkerInv, WorkIdles
    <3>2. CASE \E l \in {"drain", "parked"} : worker' = worker /\ pc' = [pc EXCEPT ![Worker] = l]
      BY <1>2, <3>2 DEF IInv, Typed, TypeOK, WorkerInv, WorkIdles
    <3> QED
      BY <1>2, <3>1, <3>2 DEF WorkIdles, Goto
  <2>3. OwnerInv'
    BY <1>2 DEF IInv, Typed, TypeOK, OwnerInv, WorkIdles, Goto, InBlock
  <2> QED
    BY <2>1, <2>2, <2>3 DEF IInv
<1>3. CASE AfterTimeout
  <2>1. Typed'
    BY <1>3 DEF IInv, Typed, TypeOK, AfterTimeout, Goto, WorkerPCs, Actors
  <2>2. WorkerInv'
    <3>1. CASE IdleAndEmpty
      BY <1>3, <3>1, NoItems DEF IInv, Typed, TypeOK, WorkerInv, AfterTimeout, Goto
    <3>2. CASE ~IdleAndEmpty
      BY <1>3, <3>2 DEF IInv, Typed, TypeOK, WorkerInv, AfterTimeout, Goto
    <3> QED
      BY <3>1, <3>2
  <2>3. OwnerInv'
    BY <1>3 DEF IInv, Typed, TypeOK, OwnerInv, AfterTimeout, Goto, InBlock
  <2> QED
    BY <2>1, <2>2, <2>3 DEF IInv
<1>4. CASE BlockEnds
  <2>1. Typed'
    BY <1>4 DEF IInv, Typed, TypeOK, BlockEnds, Goto, WorkerPCs, Actors
  <2>2. WorkerInv'
    BY <1>4 DEF IInv, Typed, TypeOK, WorkerInv, BlockEnds, Goto
  <2>3. OwnerInv'
    BY <1>4 DEF IInv, Typed, TypeOK, OwnerInv, BlockEnds, Goto, InBlock
  <2> QED
    BY <2>1, <2>2, <2>3 DEF IInv
<1>5. CASE DrainIdleEnds \/ IdleTimeout
  <2>1. Typed'
    BY <1>5 DEF IInv, Typed, TypeOK, DrainIdleEnds, IdleTimeout, Goto, state, WorkerPCs, Actors
  <2>2. WorkerInv'
    BY <1>5 DEF IInv, Typed, TypeOK, WorkerInv, DrainIdleEnds, IdleTimeout, Goto, state
  <2>3. OwnerInv'
    BY <1>5 DEF IInv, Typed, TypeOK, OwnerInv, DrainIdleEnds, IdleTimeout, Goto, state, InBlock
  <2> QED
    BY <2>1, <2>2, <2>3 DEF IInv
<1>6. CASE WorkerTurn
  <2>1. CASE CanStep /\ Head(items) # Worker
    <3>1. step("turnrun") /\ drained' = drained /\ pc[Worker] = "turn"
      BY <1>6, <2>1 DEF WorkerTurn
    <3> QED
      BY <3>1, StepKeeps DEF IInv, Typed, TypeOK
  <2>2. CASE CanStep /\ Head(items) = Worker
    <3>1. /\ items' = Tail(items) /\ owner' = "Caller" /\ pc' = [pc EXCEPT ![Worker] = "hold"]
          /\ pc[Worker] = "turn" /\ Worker \notin given
          /\ UNCHANGED <<worker, released, given, running, submitted, owes, drained>>
      BY <1>6, <2>2 DEF WorkerTurn, Goto
    <3>2. /\ Tail(items) \in Seq(Blocks \cup Actors)
          /\ \A i \in DOMAIN Tail(items) : i + 1 \in DOMAIN items /\ Tail(items)[i] = items[i + 1]
      BY <2>2, TailItems DEF IInv, CanStep
    <3>3. InBlock = {} /\ owner = "Idle"
      BY <2>2 DEF IInv, OwnerInv, CanStep
    <3>4. Typed'
      BY <3>1, <3>2 DEF IInv, Typed, TypeOK, WorkerPCs, Actors
    <3>5. WorkerInv'
      BY <3>1, <3>2 DEF IInv, Typed, TypeOK, WorkerInv
    <3>6. OwnerInv'
      BY <3>1, <3>3 DEF IInv, Typed, TypeOK, OwnerInv, InBlock
    <3> QED
      BY <3>4, <3>5, <3>6 DEF IInv
  <2>3. CASE ~CanStep
    <3>1. /\ pc' = [pc EXCEPT ![Worker] = "turnparked"] /\ pc[Worker] = "turn"
          /\ UNCHANGED <<state, owes, drained>>
      BY <1>6, <2>3 DEF WorkerTurn, Goto, step
    <3>2. Typed'
      BY <3>1 DEF IInv, Typed, TypeOK, state, WorkerPCs, Actors
    <3>3. WorkerInv'
      BY <3>1 DEF IInv, Typed, TypeOK, WorkerInv, state
    <3>4. OwnerInv'
      BY <3>1 DEF IInv, Typed, TypeOK, OwnerInv, InBlock, state
    <3> QED
      BY <3>2, <3>3, <3>4 DEF IInv
  <2> QED
    BY <2>1, <2>2, <2>3
<1> QED
  BY <1>1, <1>2, <1>3, <1>4, <1>5, <1>6 DEF WorkerNext

\* Every step keeps the invariant.
LEMMA NextInv == IInv /\ [Next]_vars => IInv'
<1> SUFFICES ASSUME IInv, [Next]_vars PROVE IInv'
  OBVIOUS
<1>1. CASE UNCHANGED vars
  BY <1>1 DEF IInv, Typed, TypeOK, WorkerInv, OwnerInv, InBlock, vars, state
<1>2. ASSUME NEW a \in Actors,
             \/ submit(a) \/ notify_one(a) \/ start_worker(a) \/ drop_handle(a)
             \/ take_turn(a) \/ TurnGiven(a) \/ give_up(a)
      PROVE  IInv'
  BY <1>2, SubmitKeeps, WakesKeep, TakeTurnKeeps, TurnGivenKeeps, GiveUpKeeps
<1>3. CASE WorkerNext \/ IdleTimeout
  BY <1>3, WorkerKeeps
<1> QED
  BY <1>1, <1>2, <1>3, Zenon DEF Next

-----------------------------------------------------------------------------
(* The queue's worker *)

\* The invariant holds in every reachable state.
LEMMA InvAlways == Spec => []IInv
<1>1. IInv /\ [Next]_vars => IInv'
  BY NextInv
<1> QED
  BY <1>1, InitInv, PTL DEF Spec

(* The variables of the queue keep their types (rt/queue.rs).                               *)
THEOREM QueueTypes == Spec => []TypeOK
<1>1. IInv => TypeOK
  BY DEF IInv, Typed
<1> QED
  BY <1>1, InvAlways, PTL

\* The invariant contains OneWorker, which counts workers and threads about to start one.
LEMMA OneWorkerFollows == IInv => OneWorker
<1> SUFFICES ASSUME IInv PROVE OneWorker
  OBVIOUS
<1> DEFINE Starters == {a \in Actors : owes[a] = "start"}
           alive == IF pc[Worker] = "none" THEN 0 ELSE 1
<1>1. Cardinality(Starters) + alive = IF worker THEN 1 ELSE 0
  <2>1. CASE Starters = {}
    <3>1. Cardinality(Starters) = 0
      BY <2>1, FS_EmptySet
    <3>2. worker <=> pc[Worker] # "none"
      BY <2>1 DEF IInv, WorkerInv
    <3> HIDE DEF Starters
    <3> QED
      BY <3>1, <3>2
  <2>2. CASE Starters # {}
    <3>1. PICK a \in Actors : owes[a] = "start"
      BY <2>2
    <3>2. Starters = {a} /\ pc[Worker] = "none" /\ worker
      BY <3>1 DEF IInv, WorkerInv
    <3>3. Cardinality(Starters) = 1
      BY <3>2, FS_Singleton, Zenon
    <3> HIDE DEF Starters
    <3> QED
      BY <3>2, <3>3
  <2> QED
    BY <2>1, <2>2
<1>2. (\E i \in DOMAIN items : items[i] \in Blocks) => worker
  BY DEF IInv, WorkerInv
<1> QED
  BY <1>1, <1>2, Zenon DEF OneWorker

(* A queued block has a worker to come and two workers are never started, for any number of  *)
(* threads that submit and sync while the idle worker ends (submit, start_worker and the end *)
(* of work of rt/queue.rs).                                                                  *)
THEOREM QueueHasOneWorker == Spec => []OneWorker
  BY InvAlways, OneWorkerFollows, PTL

-----------------------------------------------------------------------------
(* The executor *)

\* The item that holds the queue, by its owner.
HolderByOwner ==
  /\ owner = "Idle" => Holder = None
  /\ owner = "Worker" => Holder = running /\ running \in Blocks
  /\ owner = "Caller" => InBlock # {} /\ \A a \in InBlock : Holder = a

\* Who holds the executor, by the queue's owner.
LEMMA HolderFollows == IInv => HolderByOwner
<1> SUFFICES ASSUME IInv PROVE HolderByOwner
  OBVIOUS
<1>1. owner = "Idle" => Holder = None
  BY DEF IInv, OwnerInv, Holder
<1>2. owner = "Worker" => Holder = running /\ running \in Blocks
  BY DEF IInv, OwnerInv, Typed, TypeOK, Holder
<1>3. ASSUME owner = "Caller"
      PROVE  InBlock # {} /\ \A a \in InBlock : Holder = a
  <2>1. running = None /\ InBlock # {}
    BY <1>3 DEF IInv, OwnerInv
  <2>2. Holder = CHOOSE a \in InBlock : TRUE
    BY <2>1 DEF Holder
  <2>3. Holder \in InBlock
    BY <2>1, <2>2
  <2> QED
    BY <2>1, <2>3 DEF IInv, OwnerInv
<1> QED
  BY <1>1, <1>2, <1>3 DEF HolderByOwner

\* The same in the next state.
LEMMA HolderFollowsNext == IInv' => HolderByOwner'
  BY HolderFollows, PTL

\* A step that leaves the owner and who is in a block alone leaves the holder alone.
LEMMA HolderKept ==
  ASSUME IInv, IInv', owner' = owner, running' = running,
         owner = "Caller" => \E a \in InBlock : a \in InBlock'
  PROVE  Holder' = Holder
<1>1. HolderByOwner /\ HolderByOwner'
  BY HolderFollows, HolderFollowsNext
<1>2. owner \in {"Idle", "Worker", "Caller"}
  BY DEF IInv, Typed, TypeOK
<1> QED
  BY <1>1, <1>2 DEF HolderByOwner

\* The thread that holds the queue as a caller is its holder.
LEMMA CallerHolds ==
  ASSUME IInv, NEW a \in Actors, pc[a] = "hold"
  PROVE  owner = "Caller" /\ Holder = a /\ a \in InBlock
<1>1. a \in InBlock
  BY DEF InBlock
<1>2. owner = "Caller"
  BY <1>1, Constants DEF IInv, OwnerInv, Typed, TypeOK, InBlock
<1> QED
  BY <1>1, <1>2, HolderFollows DEF HolderByOwner

\* Every step of the queue is a step of the executor, or one that its clients cannot see.
LEMMA StepRefines ==
  ASSUME IInv, IInv', [Next]_vars
  PROVE  [Executor!Next]_<<items, Holder>>
<1> USE Constants
<1>1. HolderByOwner /\ HolderByOwner'
  BY HolderFollows, HolderFollowsNext
<1>2. CASE UNCHANGED vars
  <2>1. UNCHANGED <<items, owner, running, InBlock>>
    BY <1>2 DEF vars, state, InBlock
  <2>2. owner = "Caller" => \E a \in InBlock : a \in InBlock'
    BY <1>1, <2>1 DEF HolderByOwner
  <2> QED
    BY <2>1, <2>2, HolderKept
<1>3. ASSUME NEW a \in Actors, submit(a)
      PROVE  Executor!Next
  <2>1. submitted + 1 \in Blocks
    BY <1>3, SerialQueueAssumption DEF IInv, Typed, TypeOK, submit, Blocks
  <2>2. UNCHANGED <<owner, running, InBlock>>
    BY <1>3 DEF submit, InBlock
  <2>3. Holder' = Holder
    BY <1>1, <2>2, HolderKept DEF HolderByOwner
  <2>4. Executor!Submit(submitted + 1)
    BY <1>3, <2>3 DEF submit, Executor!Submit
  <2> QED
    BY <2>1, <2>4 DEF Executor!Next
<1>4. ASSUME NEW a \in Actors, notify_one(a) \/ start_worker(a) \/ drop_handle(a)
      PROVE  UNCHANGED <<items, Holder>>
  <2>1. UNCHANGED <<items, owner, running, InBlock>>
    BY <1>4 DEF IInv, Typed, notify_one, start_worker, drop_handle, Goto, state, InBlock
  <2> QED
    BY <1>1, <2>1, HolderKept DEF HolderByOwner
<1>5. ASSUME NEW a \in Actors, take_turn(a)
      PROVE  Executor!Next
  <2>1. CASE IdleAndEmpty
    <3>1. items = <<>> /\ Holder = None /\ items' = items /\ owner' = "Caller" /\ a \in InBlock'
      BY <1>1, <1>5, <2>1
        DEF IInv, Typed, take_turn, Goto, IdleAndEmpty, InBlock, HolderByOwner
    <3>2. Holder' = a
      BY <1>1, <3>1 DEF HolderByOwner
    <3>3. Executor!Enter(a)
      BY <3>1, <3>2 DEF Executor!Enter
    <3> QED
      BY <3>3 DEF Executor!Next
  <2>2. CASE ~IdleAndEmpty
    <3>1. /\ items' = Append(items, a) /\ pc' = [pc EXCEPT ![a] = "turn"]
          /\ pc[a] \in {"out", "drain"} /\ UNCHANGED <<owner, running, given>>
      BY <1>5, <2>2 DEF take_turn, Goto
    <3>2. InBlock' = InBlock
      BY <3>1 DEF IInv, Typed, InBlock
    <3>3. Holder' = Holder
      BY <1>1, <3>1, <3>2, HolderKept DEF HolderByOwner
    <3>4. Executor!Submit(a)
      BY <3>1, <3>3 DEF Executor!Submit
    <3> QED
      BY <3>4 DEF Executor!Next
  <2> QED
    BY <2>1, <2>2
<1>6. ASSUME NEW a \in Actors, TurnGiven(a)
      PROVE  UNCHANGED <<items, Holder>>
  <2>1. UNCHANGED <<items, owner, running, InBlock>>
    BY <1>6 DEF IInv, Typed, TurnGiven, Goto, InBlock
  <2> QED
    BY <1>1, <2>1, HolderKept DEF HolderByOwner
<1>7. ASSUME NEW a \in Actors, give_up(a)
      PROVE  Executor!Next
  <2>1. Holder = a /\ Holder # None
    BY <1>7, CallerHolds DEF give_up
  <2>2. CASE HeadIsCaller
    <3>1. /\ items # <<>> /\ items' = Tail(items) /\ owner' = "Caller" /\ Head(items) \in InBlock'
      BY <1>7, <2>2, CallerHolds DEF give_up, HeadIsCaller, InBlock
    <3>2. Holder' = Head(items)
      BY <1>1, <3>1 DEF HolderByOwner
    <3>3. Executor!HandOver
      BY <2>1, <3>1, <3>2 DEF Executor!HandOver
    <3> QED
      BY <3>3 DEF Executor!Next
  <2>3. CASE ~HeadIsCaller
    <3>1. Holder' = None /\ items' = items
      BY <1>1, <1>7, <2>3 DEF give_up, HolderByOwner
    <3>2. Executor!End
      BY <2>1, <3>1 DEF Executor!End
    <3> QED
      BY <3>2 DEF Executor!Next
  <2> QED
    BY <2>2, <2>3
<1>8. ASSUME NEW label \in {"run", "turnrun"}, step(label)
      PROVE  Executor!Next
  <2>1. items # <<>> /\ items' = Tail(items) /\ Holder = None
    BY <1>1, <1>8 DEF step, CanStep, HolderByOwner
  <2>2. CASE ~HeadIsCaller
    <3>1. Holder' = Head(items)
      BY <1>1, <1>8, <2>2 DEF step, HolderByOwner
    <3>2. Executor!Begin
      BY <2>1, <3>1 DEF Executor!Begin
    <3> QED
      BY <3>2 DEF Executor!Next
  <2>3. CASE HeadIsCaller
    <3>1. owner' = "Caller" /\ Head(items) \in InBlock'
      BY <1>8, <2>3 DEF step, HeadIsCaller, InBlock
    <3>2. Holder' = Head(items)
      BY <1>1, <3>1 DEF HolderByOwner
    <3>3. Executor!Begin
      BY <2>1, <3>2 DEF Executor!Begin
    <3> QED
      BY <3>3 DEF Executor!Next
  <2> QED
    BY <2>2, <2>3
<1>9. CASE WorkIdles \/ AfterTimeout \/ DrainIdleEnds \/ IdleTimeout
  <2>1. UNCHANGED <<items, owner, running, given>>
    BY <1>9 DEF WorkIdles, AfterTimeout, DrainIdleEnds, IdleTimeout, state
  <2>2. InBlock' = InBlock
    BY <1>9 DEF IInv, Typed, WorkIdles, AfterTimeout, DrainIdleEnds, IdleTimeout, Goto, state, InBlock
  <2>3. UNCHANGED <<items, Holder>>
    BY <1>1, <2>1, <2>2, HolderKept DEF HolderByOwner
  <2> QED
    BY <2>3
<1>10. CASE BlockEnds
  <2>1. Holder # None /\ Holder' = None /\ items' = items
    BY <1>1, <1>10 DEF IInv, OwnerInv, BlockEnds, HolderByOwner
  <2>2. Executor!End
    BY <2>1 DEF Executor!End
  <2> QED
    BY <2>2 DEF Executor!Next
<1>11. CASE WorkerTurn
  <2>1. CASE CanStep /\ Head(items) = Worker
    <3>1. /\ items # <<>> /\ items' = Tail(items) /\ owner' = "Caller" /\ Worker \in InBlock'
          /\ Holder = None
      BY <1>1, <1>11, <2>1 DEF IInv, Typed, WorkerTurn, Goto, CanStep, InBlock, HolderByOwner
    <3>2. Holder' = Head(items)
      BY <1>1, <2>1, <3>1 DEF HolderByOwner
    <3>3. Executor!Begin
      BY <3>1, <3>2 DEF Executor!Begin
    <3> QED
      BY <3>3 DEF Executor!Next
  <2>2. CASE CanStep /\ Head(items) # Worker
    BY <1>8, <1>11, <2>2 DEF WorkerTurn
  <2>3. CASE ~CanStep
    <3>1. /\ pc' = [pc EXCEPT ![Worker] = "turnparked"] /\ pc[Worker] = "turn"
          /\ UNCHANGED <<items, owner, running, given>>
      BY <1>11, <2>3 DEF WorkerTurn, Goto, step, state
    <3>2. InBlock' = InBlock
      BY <3>1 DEF IInv, Typed, InBlock
    <3>3. UNCHANGED <<items, Holder>>
      BY <1>1, <3>1, <3>2, HolderKept DEF HolderByOwner
    <3> QED
      BY <3>3
  <2> QED
    BY <2>1, <2>2, <2>3
<1>12. CASE WorkStep
  BY <1>8, <1>12 DEF WorkStep
<1> QED
  BY <1>2, <1>3, <1>4, <1>5, <1>6, <1>7, <1>9, <1>10, <1>11, <1>12 DEF Next, WorkerNext

(* The queue implements the executor's safety for any number of threads and blocks: blocks    *)
(* and sync callers take hold of it one at a time, in the order they came, none skipped or    *)
(* repeated (submit, take_turn, give_up and step of rt/queue.rs).                             *)
THEOREM QueueImplementsExecutor == Spec => Executor!Safety
<1>1. Init => Executor!Init
  <2> SUFFICES ASSUME Init PROVE Executor!Init
    OBVIOUS
  <2>1. HolderByOwner
    BY InitInv, HolderFollows
  <2> QED
    BY <2>1 DEF Init, HolderByOwner, Executor!Init
<1>2. IInv /\ IInv' /\ [Next]_vars => [Executor!Next]_<<items, Holder>>
  BY StepRefines
<1> QED
  BY <1>1, <1>2, InvAlways, PTL DEF Spec, Executor!Safety

=============================================================================
