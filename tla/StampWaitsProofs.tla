-------------------------- MODULE StampWaitsProofs --------------------------
(***************************************************************************)
(* Proofs about the stamp waits, for every number of FIFOs that the 32 bits *)
(* of a waiter's mask tell apart (waits.rs: waiters 32 apart share a bit,   *)
(* and a cycle among waiters of 32 and up is never found): no cycle of      *)
(* waits goes unnoticed, though no lock is taken for the registration and   *)
(* the walk, and the checks of add_wait never end the process.              *)
(***************************************************************************)
EXTENDS StampWaits, ModularCounters, TLAPS

\* Every FIFO has a bit of its own.
OwnBits == N <= MaskBits

Walking == {"walk", "test", "uncycle"}

\* A thread whose bit is set, and one in wait_stamp at all.
Registered(f) == pc[f] \in Walking \cup {"wait", "timed", "untimed", "finish"}

\* The stamps published and pushed, the next one's room while a command is under way, and a
\* barrier's value while it is waited for.
PushInv ==
  \A f \in Fifos :
    \E i \in 0..MaxStamps, j \in 0..MaxStamps :
      /\ i <= j /\ slot[f] = Value(i) /\ last_pending[f] = Value(j)
      /\ pc[f] \notin {"idle", "stopped"} => j < MaxStamps
BarrierInv ==
  \A f \in Fifos : InWait(f) \/ pc[f] = "check" => \E k \in 1..MaxStamps : barrier[f].value = Value(k)

\* Only a thread that waits has an entry and a bit; and it has them, unless it was deleted.
EntryInv ==
  \A f \in Fifos :
    /\ f \in waiting_stamps => Registered(f)
    /\ next_index[f] # NotWaiting => InWait(f)
HeldInv ==
  \A f \in Fifos : deleting[f] = "no" =>
    /\ InWait(f) => next_index[f] = barrier[f].index /\ next_value[f] = barrier[f].value
    /\ Registered(f) => f \in waiting_stamps

\* A registered thread that waits for a stamp its FIFO has not pushed.
Stuck(f) == Registered(f) /\ deleting[f] = "no" /\ Blocked(f)
Closed(S) == S # {} /\ \A f \in S : Stuck(f) /\ barrier[f].index \in S

\* Of the threads that all wait for one another, one is still walking, among them.
WalksIn(l, S) ==
  pc[l] \in Walking /\ curr[l] \in S /\ (pc[l] = "test" => next[l] = barrier[curr[l]].index)
CycleInv == \A S \in SUBSET Fifos : Closed(S) => \E l \in S : WalksIn(l, S)

IInv == TypeOK /\ PushInv /\ BarrierInv /\ EntryInv /\ HeldInv /\ CycleInv /\ dead = "no"

-----------------------------------------------------------------------------
(* Stamp values and bits *)

\* What the assumption says of the constants.
LEMMA Sizes ==
  /\ N \in Nat \ {0} /\ MaskBits \in Nat \ {0} /\ Span \in Nat \ {0} /\ MaxStamps \in Nat
  /\ Span > 2 * MaxStamps /\ Base \in 0..(Span - 1) /\ Fifos \subseteq Nat
  BY StampWaitsAssumption DEF Fifos

\* The values of the stamps, before and across the wrap.
LEMMA ValueFacts ==
  /\ \A k \in 0..MaxStamps : Value(k) \in Stamps /\ Value(k) \in Nat
  /\ Value(0) = Base
  /\ \A k \in 0..(MaxStamps - 1) : (Value(k) + 1) % Span = Value(k + 1) /\ k + 1 \in 0..MaxStamps
<1>1. \A k \in 0..MaxStamps : Base + k \in Int
  BY Sizes
<1>2. \A k \in 0..MaxStamps : Value(k) \in 0..(Span - 1)
  BY <1>1, Sizes, DivMod, Zenon DEF Value
<1>3. Value(0) = Base
  <2>1. Base + 0 = Base
    BY Sizes
  <2>2. Base % Span = Base
    BY Sizes, Z3
  <2> QED
    BY <2>1, <2>2 DEF Value
<1>4. ASSUME NEW k \in 0..(MaxStamps - 1) PROVE (Value(k) + 1) % Span = Value(k + 1)
  <2>1. Base + k \in Int /\ 1 \in Int /\ (Base + k) + 1 = Base + (k + 1)
    BY Sizes
  <2>2. (((Base + k) % Span) + 1) % Span = ((Base + k) + 1) % Span
    BY <2>1, Sizes, WrappingAdd, Zenon
  <2> QED
    BY <2>1, <2>2 DEF Value
<1> QED
  BY <1>2, <1>3, <1>4, Sizes DEF Stamps

\* Within half the span, reached compares the stamps.
LEMMA ReachedMeans ==
  ASSUME NEW j \in 0..MaxStamps, NEW k \in 1..MaxStamps
  PROVE  reached(Value(j), Value(k)) <=> j >= k
<1> DEFINE a == Base + j
           b == Base + k
<1>1. a \in Int /\ b \in Int /\ a - b = j - k /\ j \in Int /\ k \in Int
  BY Sizes
<1>2. CASE j >= k
  <2>1. b <= a /\ a - b < Span
    BY <1>1, <1>2, Sizes
  <2> HIDE DEF a, b
  <2>2. ((a % Span) - (b % Span)) % Span = a - b
    BY <1>1, <2>1, Sizes, WrappingSub, Zenon
  <2>3. (Value(j) - Value(k)) % Span = j - k
    BY <1>1, <2>2 DEF Value, a, b
  <2>4. j - k < Span \div 2
    BY <1>1, Sizes
  <2> QED
    BY <1>2, <2>3, <2>4 DEF reached
<1>3. CASE j < k
  <2> DEFINE c == a + Span
  <2>1. c \in Int /\ b <= c /\ c - b < Span /\ c - b = Span - (k - j)
    BY <1>1, <1>3, Sizes
  <2>2. c % Span = a % Span
    <3> DEFINE q == a \div Span
               r == a % Span
    <3>1. a = Span * q + r /\ r \in 0..(Span - 1) /\ q \in Int
      BY <1>1, Sizes, DivMod
    <3> HIDE DEF q, r, a
    <3> DEFINE p == q + 1
    <3>2. c = Span * p + r /\ p \in Int /\ c \in Int
      <4>1. Span * (q + 1) = Span * q + Span
        BY <3>1, Sizes, Z3
      <4> QED
        BY <2>1, <3>1, <4>1, Sizes
    <3> HIDE DEF c, p
    <3>3. c % Span = r
      BY <3>1, <3>2, Sizes, ModUnique, Zenon
    <3> QED
      BY <3>3 DEF r
  <2> HIDE DEF a, b, c
  <2>3. ((c % Span) - (b % Span)) % Span = c - b
    BY <1>1, <2>1, Sizes, WrappingSub, Zenon
  <2>4. (Value(j) - Value(k)) % Span = Span - (k - j)
    BY <2>1, <2>2, <2>3 DEF Value, a, b
  <2>5. ~(Span - (k - j) < Span \div 2)
    BY <1>1, Sizes
  <2> QED
    BY <1>1, <1>3, <2>4, <2>5 DEF reached
<1> QED
  BY <1>1, <1>2, <1>3

\* With a bit each, a waiter's bit is its number and its mask clears no other.
LEMMA Bits ==
  ASSUME OwnBits, NEW f \in Fifos
  PROVE  Bit(f) = f /\ finish_wait_mask(f) = {f}
<1>1. f \in 0..(MaskBits - 1) /\ f \in Int /\ f = MaskBits * 0 + f /\ 0 \in Int
  BY Sizes DEF Fifos, OwnBits
<1>2. f % MaskBits = f
  BY <1>1, Sizes, ModUnique, Zenon
<1>3. {b \in Fifos : b >= MaskBits} = {}
  BY Sizes DEF Fifos, OwnBits
<1> QED
  BY <1>2, <1>3 DEF Bit, finish_wait_mask

-----------------------------------------------------------------------------
(* What keeps the parts of the invariant *)

\* A step that leaves the stamps, the table and the barriers alone, and nobody in or out of a wait.
LEMMA SameWaits ==
  ASSUME PushInv, BarrierInv, EntryInv, HeldInv,
         UNCHANGED <<slot, last_pending, table, barrier>>,
         \A f \in Fifos :
           /\ deleting'[f] = "no" => deleting[f] = "no"
           /\ Registered(f)' <=> Registered(f)
           /\ InWait(f)' <=> InWait(f)
           /\ pc'[f] = "check" => pc[f] = "check"
           /\ pc'[f] \notin {"idle", "stopped"} => pc[f] \notin {"idle", "stopped"}
  PROVE  PushInv' /\ BarrierInv' /\ EntryInv' /\ HeldInv'
<1>1. UNCHANGED <<next_index, next_value, waiting_stamps>>
  BY DEF table
<1>2. PushInv'
  BY DEF PushInv
<1>3. BarrierInv'
  BY DEF BarrierInv
<1>4. EntryInv'
  BY <1>1 DEF EntryInv
<1>5. HeldInv'
  BY <1>1 DEF HeldInv
<1> QED
  BY <1>2, <1>3, <1>4, <1>5

\* A step after which no thread is stuck that was not, and none that is has walked on.
LEMMA SameCycles ==
  ASSUME CycleInv,
         \A f \in Fifos : Stuck(f)' =>
           /\ Stuck(f) /\ barrier'[f] = barrier[f]
           /\ pc[f] \in Walking => pc'[f] = pc[f] /\ curr'[f] = curr[f] /\ next'[f] = next[f]
  PROVE  CycleInv'
<1> SUFFICES ASSUME NEW S \in SUBSET Fifos, Closed(S)' PROVE \E l \in S : WalksIn(l, S)'
  BY DEF CycleInv
<1>1. \A f \in S : Stuck(f)'
  BY DEF Closed
<1>2. Closed(S)
  BY <1>1 DEF Closed
<1>3. PICK l \in S : WalksIn(l, S)
  BY <1>2 DEF CycleInv
<1>4. WalksIn(l, S)'
  BY <1>1, <1>3 DEF WalksIn
<1> QED
  BY <1>4

\* Blocked depends on the barriers and the stamps pushed.
LEMMA SameBlocked ==
  ASSUME NEW f, last_pending' = last_pending, barrier'[f] = barrier[f]
  PROVE  Blocked(f)' <=> Blocked(f)
  BY DEF Blocked

-----------------------------------------------------------------------------
(* The steps *)

\* The wait's own steps: a look at the slot, and the timeout.
LEMMA LooksKeep ==
  ASSUME IInv, NEW f \in Fifos, WaitLoop(f) \/ TimesOut(f)
  PROVE  IInv'
<1>1. TypeOK /\ PushInv /\ BarrierInv /\ EntryInv /\ HeldInv /\ CycleInv /\ dead = "no"
  BY DEF IInv
<1>2. /\ pc[f] \in {"wait", "timed"} /\ pc \in [Fifos -> PCs]
      /\ \E x \in {"finish", "timed", "untimed"} : pc' = [pc EXCEPT ![f] = x]
      /\ UNCHANGED <<slot, last_pending, table, barrier, curr, next, quiesced, deleting,
                     signal_owed, dead, cycled, raised>>
  BY <1>1 DEF WaitLoop, TimesOut, Goto, TypeOK
<1>3. PICK x \in {"finish", "timed", "untimed"} : pc' = [pc EXCEPT ![f] = x]
  BY <1>2
<1>4. \A g \in Fifos : pc'[g] = IF g = f THEN x ELSE pc[g]
  BY <1>2, <1>3
<1>5. \A g \in Fifos :
        /\ Registered(g)' <=> Registered(g)
        /\ InWait(g)' <=> InWait(g)
        /\ pc'[g] = "check" => pc[g] = "check"
        /\ pc'[g] \notin {"idle", "stopped"} => pc[g] \notin {"idle", "stopped"}
        /\ pc[g] \in Walking => pc'[g] = pc[g]
  BY <1>2, <1>4 DEF Registered, InWait, Walking
<1>6. TypeOK'
  <2>1. pc' \in [Fifos -> PCs]
    BY <1>2, <1>3 DEF PCs
  <2> QED
    BY <1>1, <1>2, <2>1 DEF TypeOK, table
<1>7. PushInv' /\ BarrierInv' /\ EntryInv' /\ HeldInv'
  BY <1>1, <1>2, <1>5, SameWaits
<1>8. CycleInv'
  <2>1. \A g \in Fifos : Stuck(g)' => Stuck(g)
    BY <1>2, <1>5, SameBlocked DEF Stuck
  <2> QED
    BY <1>1, <1>2, <1>5, <2>1, SameCycles
<1> QED
  BY <1>1, <1>2, <1>6, <1>7, <1>8 DEF IInv

\* The device quiesces or stops a FIFO, and wakes the waiters.
LEMMA QuiesceKeeps ==
  ASSUME IInv, signal_fifos \/ \E f \in Fifos : quiesce(f) \/ DeleteStops(f)
  PROVE  IInv'
<1>1. TypeOK /\ PushInv /\ BarrierInv /\ EntryInv /\ HeldInv /\ CycleInv /\ dead = "no"
  BY DEF IInv
<1>2. UNCHANGED <<slot, last_pending, table, barrier, curr, next, dead, cycled, raised>>
  BY DEF signal_fifos, quiesce, DeleteStops
<1>3. pc \in [Fifos -> PCs] /\ pc' \in [Fifos -> PCs]
  BY <1>1 DEF signal_fifos, quiesce, DeleteStops, WakeAll, TypeOK, PCs
<1>4. \A g \in Fifos : pc'[g] = pc[g] \/ (pc[g] \in {"timed", "untimed"} /\ pc'[g] = "wait")
  BY <1>3 DEF signal_fifos, quiesce, DeleteStops, WakeAll
<1>5. \A g \in Fifos :
        /\ Registered(g)' <=> Registered(g)
        /\ InWait(g)' <=> InWait(g)
        /\ pc'[g] = "check" => pc[g] = "check"
        /\ pc'[g] \notin {"idle", "stopped"} => pc[g] \notin {"idle", "stopped"}
        /\ pc[g] \in Walking => pc'[g] = pc[g]
  BY <1>4 DEF Registered, InWait, Walking
<1>6. /\ deleting' \in [Fifos -> {"no", "taken", "stopped"}]
      /\ \A g \in Fifos : deleting'[g] = "no" => deleting[g] = "no"
  BY <1>1 DEF signal_fifos, quiesce, DeleteStops, TypeOK
<1>7. TypeOK'
  <2>1. quiesced' \in [Fifos -> BOOLEAN] /\ signal_owed' \in BOOLEAN
    <3>1. quiesced \in [Fifos -> BOOLEAN] /\ signal_owed \in BOOLEAN
      BY <1>1 DEF TypeOK
    <3>2. \/ quiesced' = quiesced
          \/ \E f \in Fifos : quiesced' = [quiesced EXCEPT ![f] = TRUE]
      BY DEF signal_fifos, quiesce, DeleteStops
    <3>3. signal_owed' \in BOOLEAN
      BY <3>1 DEF signal_fifos, quiesce, DeleteStops
    <3> QED
      BY <3>1, <3>2, <3>3
  <2> QED
    BY <1>1, <1>2, <1>3, <1>6, <2>1 DEF TypeOK, table
<1>8. PushInv' /\ BarrierInv' /\ EntryInv' /\ HeldInv'
  BY <1>1, <1>2, <1>5, <1>6, SameWaits
<1>9. CycleInv'
  <2>1. \A g \in Fifos : Stuck(g)' => Stuck(g)
    BY <1>2, <1>5, <1>6, SameBlocked DEF Stuck
  <2> QED
    BY <1>1, <1>2, <1>5, <2>1, SameCycles
<1> QED
  BY <1>1, <1>2, <1>7, <1>8, <1>9 DEF IInv

\* A walk goes on; among threads that wait for one another it goes from one to the next.
LEMMA WalkKeeps ==
  ASSUME OwnBits, IInv, NEW f \in Fifos, WalkNext(f) \/ WalkTest(f)
  PROVE  IInv'
<1>1. TypeOK /\ PushInv /\ BarrierInv /\ EntryInv /\ HeldInv /\ CycleInv /\ dead = "no"
  BY DEF IInv
<1>2. /\ UNCHANGED <<slot, last_pending, table, barrier, quiesced, deleting, signal_owed, dead,
                     cycled, raised>>
      /\ UNCHANGED <<next_index, next_value, waiting_stamps>>
  BY DEF WalkNext, WalkTest, table
<1>3. /\ pc \in [Fifos -> PCs] /\ curr \in [Fifos -> Fifos] /\ next \in [Fifos -> Fifos \cup {NotWaiting}]
      /\ next_index \in [Fifos -> Fifos \cup {NotWaiting}] /\ pc[f] \in {"walk", "test"}
  BY <1>1 DEF TypeOK, WalkNext, WalkTest
<1>4. /\ \E x \in {"walk", "test", "uncycle", "wait"} : pc' = [pc EXCEPT ![f] = x]
      /\ \A g \in Fifos : g # f => curr'[g] = curr[g] /\ next'[g] = next[g]
      /\ curr' \in [Fifos -> Fifos] /\ next' \in [Fifos -> Fifos \cup {NotWaiting}]
  <2>1. CASE WalkNext(f)
    BY <1>3, <2>1 DEF WalkNext, Goto
  <2>2. CASE WalkTest(f)
    <3>1. CASE ChainEnds(f)
      BY <1>3, <2>2, <3>1 DEF WalkTest, Goto
    <3>2. CASE ~ChainEnds(f)
      <4>1. next[f] \in Fifos
        BY <3>2 DEF ChainEnds
      <4>2. /\ curr' = [curr EXCEPT ![f] = next[f]] /\ next' = next
            /\ pc' = [pc EXCEPT ![f] = IF next[f] = f THEN "uncycle" ELSE "walk"]
        BY <2>2, <3>2 DEF WalkTest, Goto
      <4> QED
        BY <1>3, <4>1, <4>2
    <3> QED
      BY <3>1, <3>2
  <2> QED
    BY <2>1, <2>2
<1>5. PICK x \in {"walk", "test", "uncycle", "wait"} : pc' = [pc EXCEPT ![f] = x]
  BY <1>4
<1>6. \A g \in Fifos : pc'[g] = IF g = f THEN x ELSE pc[g]
  BY <1>3, <1>5
<1>7. \A g \in Fifos :
        /\ Registered(g)' <=> Registered(g)
        /\ InWait(g)' <=> InWait(g)
        /\ pc'[g] = "check" => pc[g] = "check"
        /\ pc'[g] \notin {"idle", "stopped"} => pc[g] \notin {"idle", "stopped"}
  BY <1>3, <1>6 DEF Registered, InWait, Walking
<1>8. TypeOK'
  <2>1. pc' \in [Fifos -> PCs]
    BY <1>3, <1>5 DEF PCs
  <2> QED
    BY <1>1, <1>2, <1>4, <2>1 DEF TypeOK
<1>9. PushInv' /\ BarrierInv' /\ EntryInv' /\ HeldInv'
  BY <1>1, <1>2, <1>7, SameWaits
<1>10. CycleInv'
  <2> SUFFICES ASSUME NEW S \in SUBSET Fifos, Closed(S)' PROVE \E l \in S : WalksIn(l, S)'
    BY DEF CycleInv
  <2>1. \A g \in S : Stuck(g)
    <3>1. \A g \in S : Stuck(g)'
      BY DEF Closed
    <3> QED
      BY <1>2, <1>7, <3>1, SameBlocked DEF Stuck
  <2>2. Closed(S)
    BY <1>2, <2>1 DEF Closed
  <2>3. PICK l \in S : WalksIn(l, S)
    BY <1>1, <2>2 DEF CycleInv
  <2>4. CASE l # f
    <3>1. pc'[l] = pc[l] /\ curr'[l] = curr[l] /\ next'[l] = next[l]
      BY <1>4, <1>6, <2>4
    <3> QED
      BY <1>2, <2>3, <3>1 DEF WalksIn
  <2>5. CASE l = f
    <3>1. /\ curr[f] \in S /\ barrier[curr[f]].index \in S /\ Stuck(curr[f])
          /\ next_index[curr[f]] = barrier[curr[f]].index
          /\ next_value[curr[f]] = barrier[curr[f]].value
      <4>1. curr[f] \in S
        BY <2>3, <2>5 DEF WalksIn
      <4>2. Stuck(curr[f]) /\ barrier[curr[f]].index \in S
        BY <2>2, <4>1 DEF Closed
      <4>3. InWait(curr[f]) /\ deleting[curr[f]] = "no"
        BY <4>2 DEF Stuck, Registered, InWait, Walking
      <4> QED
        BY <1>1, <4>1, <4>2, <4>3 DEF HeldInv
    <3>2. CASE WalkNext(f)
      <4>1. next'[f] = barrier[curr[f]].index /\ curr' = curr /\ pc'[f] = "test"
        BY <1>3, <3>1, <3>2 DEF WalkNext, Goto
      <4>2. WalksIn(f, S)'
        BY <1>2, <3>1, <4>1 DEF WalksIn, Walking
      <4> QED
        BY <2>5, <4>2
    <3>3. CASE WalkTest(f)
      <4>1. next[f] = barrier[curr[f]].index /\ next[f] \in S
        BY <2>3, <2>5, <3>1, <3>3 DEF WalksIn, WalkTest
      <4>2. next[f] \in waiting_stamps
        <5>1. Stuck(next[f])
          BY <2>1, <4>1
        <5> QED
          BY <1>1, <4>1, <5>1 DEF Stuck, HeldInv
      <4>3. ~reached(last_pending[next[f]], next_value[curr[f]])
        BY <3>1, <4>1 DEF Stuck, Blocked
      <4>4. ~ChainEnds(f)
        BY <4>1, <4>2, <4>3 DEF ChainEnds
      <4>5. curr'[f] = next[f] /\ pc'[f] \in {"uncycle", "walk"}
        BY <1>3, <3>3, <4>4 DEF WalkTest, Goto
      <4>6. WalksIn(f, S)'
        BY <4>1, <4>5 DEF WalksIn, Walking
      <4> QED
        BY <2>5, <4>6
    <3> QED
      BY <3>2, <3>3
  <2> QED
    BY <2>4, <2>5
<1> QED
  BY <1>1, <1>2, <1>8, <1>9, <1>10 DEF IInv

\* The stamps a FIFO has pushed, counted from its wrapped value.
LEMMA PushedMeans ==
  ASSUME NEW f, NEW j \in 0..MaxStamps, last_pending[f] = Value(j)
  PROVE  StampsPushed(f) = j
<1> DEFINE a == Base + j
<1>1. a \in Int /\ Base \in Int /\ Base <= a /\ a - Base < Span /\ a - Base = j
  BY Sizes
<1> HIDE DEF a
<1>2. ((a % Span) - (Base % Span)) % Span = a - Base
  BY <1>1, Sizes, WrappingSub, Zenon
<1>3. Base % Span = Base
  BY Sizes, Z3
<1> QED
  BY <1>1, <1>2, <1>3 DEF StampsPushed, Value, a

\* The next command, or the end of a quiesced thread.
LEMMA CommandKeeps ==
  ASSUME IInv, NEW f \in Fifos, Command(f)
  PROVE  IInv'
<1>1. TypeOK /\ PushInv /\ BarrierInv /\ EntryInv /\ HeldInv /\ CycleInv /\ dead = "no"
  BY DEF IInv
<1>2. /\ pc[f] = "idle" /\ pc \in [Fifos -> PCs] /\ barrier \in [Fifos -> [index : Fifos, value : Stamps]]
      /\ UNCHANGED <<slot, last_pending, table, curr, next, quiesced, deleting, signal_owed, dead,
                     cycled, raised>>
      /\ UNCHANGED <<next_index, next_value, waiting_stamps>>
  BY <1>1 DEF Command, TypeOK, table
<1>3. /\ \E x \in {"stopped", "push", "check"} : pc' = [pc EXCEPT ![f] = x]
      /\ pc'[f] # "stopped" => StampsPushed(f) < MaxStamps
      /\ \/ barrier' = barrier /\ pc'[f] # "check"
         \/ \E g \in Fifos, k \in 1..MaxStamps :
              barrier' = [barrier EXCEPT ![f] = [index |-> g, value |-> Value(k)]]
  BY <1>2 DEF Command, Goto
<1>4. PICK x \in {"stopped", "push", "check"} : pc' = [pc EXCEPT ![f] = x]
  BY <1>3
<1>5. \A g \in Fifos : pc'[g] = IF g = f THEN x ELSE pc[g]
  BY <1>2, <1>4
<1>6. /\ \A g \in Fifos \ {f} : barrier'[g] = barrier[g]
      /\ barrier' \in [Fifos -> [index : Fifos, value : Stamps]]
      /\ pc'[f] = "check" => \E k \in 1..MaxStamps : barrier'[f].value = Value(k)
  <2>1. CASE barrier' = barrier /\ pc'[f] # "check"
    BY <1>2, <2>1
  <2>2. ASSUME NEW g \in Fifos, NEW k \in 1..MaxStamps,
               barrier' = [barrier EXCEPT ![f] = [index |-> g, value |-> Value(k)]]
        PROVE  /\ \A h \in Fifos \ {f} : barrier'[h] = barrier[h]
               /\ barrier' \in [Fifos -> [index : Fifos, value : Stamps]]
               /\ barrier'[f].value = Value(k)
    <3>1. Value(k) \in Stamps
      BY ValueFacts, Sizes
    <3> QED
      BY <1>2, <2>2, <3>1
  <2> QED
    BY <1>3, <2>1, <2>2
<1>7. TypeOK'
  <2>1. pc' \in [Fifos -> PCs]
    BY <1>2, <1>4 DEF PCs
  <2> QED
    BY <1>1, <1>2, <1>6, <2>1 DEF TypeOK
<1>8. PushInv'
  <2> SUFFICES ASSUME NEW g \in Fifos
               PROVE  \E i \in 0..MaxStamps, j \in 0..MaxStamps :
                        /\ i <= j /\ slot[g] = Value(i) /\ last_pending[g] = Value(j)
                        /\ pc'[g] \notin {"idle", "stopped"} => j < MaxStamps
    BY <1>2 DEF PushInv
  <2>1. PICK i \in 0..MaxStamps, j \in 0..MaxStamps :
          /\ i <= j /\ slot[g] = Value(i) /\ last_pending[g] = Value(j)
          /\ pc[g] \notin {"idle", "stopped"} => j < MaxStamps
    BY <1>1 DEF PushInv
  <2>2. pc'[g] \notin {"idle", "stopped"} => j < MaxStamps
    BY <1>3, <1>5, <2>1, PushedMeans
  <2> QED
    BY <2>1, <2>2
<1>9. BarrierInv'
  BY <1>1, <1>2, <1>5, <1>6 DEF BarrierInv, InWait
<1>10. \A g \in Fifos : /\ Registered(g)' <=> Registered(g)
                        /\ InWait(g)' <=> InWait(g)
                        /\ InWait(g) => g # f
  BY <1>2, <1>5 DEF Registered, InWait, Walking
<1>11. EntryInv'
  BY <1>1, <1>2, <1>10 DEF EntryInv
<1>12. HeldInv'
  BY <1>1, <1>2, <1>6, <1>10 DEF HeldInv
<1>13. CycleInv'
  <2>1. \A g \in Fifos : Registered(g) => g # f
    BY <1>2 DEF Registered, Walking
  <2>2. \A g \in Fifos : Stuck(g)' => Stuck(g) /\ g # f
    BY <1>2, <1>6, <1>10, <2>1, SameBlocked DEF Stuck
  <2> QED
    BY <1>1, <1>2, <1>5, <1>6, <2>2, SameCycles
<1> QED
  BY <1>1, <1>2, <1>7, <1>8, <1>9, <1>11, <1>12, <1>13 DEF IInv

\* A wait begins: the entry is written, and the checks before it hold.
LEMMA EntryKeeps ==
  ASSUME OwnBits, IInv, NEW f \in Fifos, wait_stamp(f)
  PROVE  IInv'
<1>1. TypeOK /\ PushInv /\ BarrierInv /\ EntryInv /\ HeldInv /\ CycleInv /\ dead = "no"
  BY DEF IInv
<1>2. /\ pc[f] = "check" /\ pc \in [Fifos -> PCs]
      /\ next_index \in [Fifos -> Fifos \cup {NotWaiting}] /\ next_value \in [Fifos -> Stamps]
      /\ barrier \in [Fifos -> [index : Fifos, value : Stamps]]
      /\ UNCHANGED <<slot, last_pending, waiting_stamps, barrier, curr, next, quiesced, deleting,
                     signal_owed, raised>>
  BY <1>1 DEF wait_stamp, TypeOK
<1>3. Bit(f) \notin waiting_stamps /\ next_index[f] = NotWaiting
  BY <1>1, <1>2, Bits DEF EntryInv, Registered, InWait, Walking
<1>4. /\ dead' = dead
      /\ \/ /\ \E x \in {"stopped", "push"} : pc' = [pc EXCEPT ![f] = x]
            /\ UNCHANGED <<next_index, next_value, cycled>>
         \/ /\ pc' = [pc EXCEPT ![f] = "bit"]
            /\ next_index' = [next_index EXCEPT ![f] = barrier[f].index]
            /\ next_value' = [next_value EXCEPT ![f] = barrier[f].value]
            /\ cycled' = (cycled \ {f}) \cup InCycles({g \in Fifos : InWait(g)} \cup {f})
  BY <1>3 DEF wait_stamp, Goto
<1>5. /\ \E x \in {"stopped", "push", "bit"} : pc' = [pc EXCEPT ![f] = x]
      /\ next_index' \in [Fifos -> Fifos \cup {NotWaiting}] /\ next_value' \in [Fifos -> Stamps]
      /\ \A g \in Fifos \ {f} : next_index'[g] = next_index[g] /\ next_value'[g] = next_value[g]
      /\ pc'[f] = "bit" => next_index'[f] = barrier[f].index /\ next_value'[f] = barrier[f].value
      /\ pc'[f] # "bit" => next_index'[f] = NotWaiting
  BY <1>2, <1>3, <1>4
<1>6. PICK x \in {"stopped", "push", "bit"} : pc' = [pc EXCEPT ![f] = x]
  BY <1>5
<1>7. \A g \in Fifos : pc'[g] = IF g = f THEN x ELSE pc[g]
  BY <1>2, <1>6
<1>8. TypeOK'
  <2>1. pc' \in [Fifos -> PCs]
    BY <1>2, <1>6 DEF PCs
  <2>2. cycled' \subseteq Fifos
    <3>1. InCycles({g \in Fifos : InWait(g)} \cup {f}) \subseteq Fifos
      BY DEF InCycles
    <3> QED
      BY <1>1, <1>4, <3>1 DEF TypeOK
  <2> QED
    BY <1>1, <1>2, <1>4, <1>5, <2>1, <2>2 DEF TypeOK
<1>9. PushInv'
  BY <1>1, <1>2, <1>7 DEF PushInv
<1>10. BarrierInv'
  BY <1>1, <1>2, <1>7 DEF BarrierInv, InWait
<1>11. \A g \in Fifos : /\ Registered(g)' <=> Registered(g)
                        /\ Registered(g) => g # f
                        /\ InWait(g)' <=> InWait(g) \/ (g = f /\ x = "bit")
  BY <1>2, <1>7 DEF Registered, InWait, Walking
<1>12. EntryInv'
  BY <1>1, <1>2, <1>5, <1>7, <1>11 DEF EntryInv
<1>13. HeldInv'
  <2>1. ~InWait(f)
    BY <1>2 DEF InWait
  <2> QED
    BY <1>1, <1>2, <1>5, <1>7, <1>11, <2>1 DEF HeldInv
<1>14. CycleInv'
  <2>1. \A g \in Fifos : Stuck(g)' => Stuck(g) /\ g # f
    BY <1>2, <1>11, SameBlocked DEF Stuck
  <2> QED
    BY <1>1, <1>2, <1>7, <2>1, SameCycles
<1> QED
  BY <1>1, <1>4, <1>8, <1>9, <1>10, <1>12, <1>13, <1>14 DEF IInv

\* The bit is set: whoever closes a cycle of waits is the one to walk it.
LEMMA BitKeeps ==
  ASSUME OwnBits, IInv, NEW f \in Fifos, add_wait(f)
  PROVE  IInv'
<1>1. TypeOK /\ PushInv /\ BarrierInv /\ EntryInv /\ HeldInv /\ CycleInv /\ dead = "no"
  BY DEF IInv
<1>2. /\ pc[f] = "bit" /\ pc \in [Fifos -> PCs] /\ curr \in [Fifos -> Fifos]
      /\ pc' = [pc EXCEPT ![f] = "walk"] /\ curr' = [curr EXCEPT ![f] = f]
      /\ waiting_stamps' = waiting_stamps \cup {f}
      /\ UNCHANGED <<slot, last_pending, next_index, next_value, barrier, next, quiesced, deleting,
                     signal_owed, dead, cycled, raised>>
  BY <1>1, Bits DEF add_wait, TypeOK, Goto
<1>3. \A g \in Fifos : /\ pc'[g] = IF g = f THEN "walk" ELSE pc[g]
                       /\ curr'[g] = IF g = f THEN f ELSE curr[g]
  BY <1>2
<1>4. TypeOK'
  <2>1. pc' \in [Fifos -> PCs] /\ curr' \in [Fifos -> Fifos]
    BY <1>2 DEF PCs
  <2>2. f \in 0..(MaskBits - 1)
    BY Sizes DEF Fifos, OwnBits
  <2> QED
    BY <1>1, <1>2, <2>1, <2>2 DEF TypeOK
<1>5. PushInv'
  BY <1>1, <1>2, <1>3 DEF PushInv
<1>6. \A g \in Fifos : /\ Registered(g)' <=> Registered(g) \/ g = f
                       /\ InWait(g)' <=> InWait(g)
                       /\ InWait(f)
  BY <1>2, <1>3 DEF Registered, InWait, Walking
<1>7. BarrierInv'
  BY <1>1, <1>2, <1>3, <1>6 DEF BarrierInv
<1>8. EntryInv'
  BY <1>1, <1>2, <1>6 DEF EntryInv
<1>9. HeldInv'
  BY <1>1, <1>2, <1>6 DEF HeldInv
<1>10. CycleInv'
  <2> SUFFICES ASSUME NEW S \in SUBSET Fifos, Closed(S)' PROVE \E l \in S : WalksIn(l, S)'
    BY DEF CycleInv
  <2>1. CASE f \in S
    <3>1. WalksIn(f, S)'
      BY <1>3, <2>1 DEF WalksIn, Walking
    <3> QED
      BY <2>1, <3>1
  <2>2. CASE f \notin S
    <3>1. \A g \in S : Stuck(g)'
      BY DEF Closed
    <3>2. \A g \in S : Stuck(g)
      BY <1>2, <1>6, <2>2, <3>1, SameBlocked DEF Stuck
    <3>3. Closed(S)
      BY <1>2, <3>2 DEF Closed
    <3>4. PICK l \in S : WalksIn(l, S)
      BY <1>1, <3>3 DEF CycleInv
    <3>5. WalksIn(l, S)'
      BY <1>2, <1>3, <2>2, <3>4 DEF WalksIn
    <3> QED
      BY <3>5
  <2> QED
    BY <2>1, <2>2
<1> QED
  BY <1>1, <1>2, <1>4, <1>5, <1>7, <1>8, <1>9, <1>10 DEF IInv

\* A wait ends: the bit goes first, then the entry.
LEMMA FinishKeeps ==
  ASSUME OwnBits, IInv, NEW f \in Fifos, finish_wait(f)
  PROVE  IInv'
<1>1. TypeOK /\ PushInv /\ BarrierInv /\ EntryInv /\ HeldInv /\ CycleInv /\ dead = "no"
  BY DEF IInv
<1>2. /\ pc[f] \in {"finish", "uncycle"} /\ pc \in [Fifos -> PCs]
      /\ pc' = [pc EXCEPT ![f] = "unlist"]
      /\ waiting_stamps' = waiting_stamps \ {f}
      /\ UNCHANGED <<slot, last_pending, next_index, next_value, barrier, curr, next, quiesced,
                     deleting, signal_owed, dead, cycled>>
  BY <1>1, Bits DEF finish_wait, TypeOK, Goto
<1>3. \A g \in Fifos : pc'[g] = IF g = f THEN "unlist" ELSE pc[g]
  BY <1>2
<1>4. TypeOK'
  <2>1. pc' \in [Fifos -> PCs]
    BY <1>2 DEF PCs
  <2>2. raised' \in [Fifos -> BOOLEAN]
    <3>1. raised \in [Fifos -> BOOLEAN] /\ (pc[f] = "uncycle") \in BOOLEAN
      BY <1>1 DEF TypeOK
    <3> QED
      BY <3>1, Zenon DEF finish_wait
  <2> QED
    BY <1>1, <1>2, <2>1, <2>2 DEF TypeOK
<1>5. PushInv'
  BY <1>1, <1>2, <1>3 DEF PushInv
<1>6. \A g \in Fifos : /\ Registered(g)' <=> Registered(g) /\ g # f
                       /\ InWait(g)' <=> InWait(g)
  BY <1>2, <1>3 DEF Registered, InWait, Walking
<1>7. BarrierInv'
  BY <1>1, <1>2, <1>3, <1>6 DEF BarrierInv
<1>8. EntryInv'
  BY <1>1, <1>2, <1>6 DEF EntryInv
<1>9. HeldInv'
  BY <1>1, <1>2, <1>6 DEF HeldInv
<1>10. CycleInv'
  <2>1. \A g \in Fifos : Stuck(g)' => Stuck(g) /\ g # f
    BY <1>2, <1>6, SameBlocked DEF Stuck
  <2> QED
    BY <1>1, <1>2, <1>3, <2>1, SameCycles
<1> QED
  BY <1>1, <1>2, <1>4, <1>5, <1>7, <1>8, <1>9, <1>10 DEF IInv

\* A FIFO's taking its entry out of the table keeps the invariant.
LEMMA UnlistKeeps ==
  ASSUME IInv, NEW f \in Fifos, Unlist(f)
  PROVE  IInv'
<1>1. TypeOK /\ PushInv /\ BarrierInv /\ EntryInv /\ HeldInv /\ CycleInv /\ dead = "no"
  BY DEF IInv
<1>2. /\ pc[f] = "unlist" /\ pc \in [Fifos -> PCs]
      /\ next_index \in [Fifos -> Fifos \cup {NotWaiting}]
      /\ next_index' = [next_index EXCEPT ![f] = NotWaiting]
      /\ \E x \in {"stopped", "push"} : pc' = [pc EXCEPT ![f] = x]
      /\ UNCHANGED <<slot, last_pending, next_value, waiting_stamps, barrier, curr, next, raised,
                     quiesced, deleting, signal_owed, dead, cycled>>
  BY <1>1 DEF Unlist, AfterWait, TypeOK, Goto
<1>3. PICK x \in {"stopped", "push"} : pc' = [pc EXCEPT ![f] = x]
  BY <1>2
<1>4. \A g \in Fifos : /\ pc'[g] = IF g = f THEN x ELSE pc[g]
                       /\ next_index'[g] = IF g = f THEN NotWaiting ELSE next_index[g]
  BY <1>2, <1>3
<1>5. TypeOK'
  <2>1. pc' \in [Fifos -> PCs] /\ next_index' \in [Fifos -> Fifos \cup {NotWaiting}]
    BY <1>2, <1>3 DEF PCs
  <2> QED
    BY <1>1, <1>2, <2>1 DEF TypeOK
<1>6. PushInv'
  BY <1>1, <1>2, <1>4 DEF PushInv
<1>7. \A g \in Fifos : /\ Registered(g)' <=> Registered(g)
                       /\ Registered(g) => g # f
                       /\ InWait(g)' <=> InWait(g) /\ g # f
  BY <1>2, <1>4 DEF Registered, InWait, Walking
<1>8. BarrierInv'
  BY <1>1, <1>2, <1>4, <1>7 DEF BarrierInv
<1>9. EntryInv'
  BY <1>1, <1>2, <1>4, <1>7 DEF EntryInv
<1>10. HeldInv'
  BY <1>1, <1>2, <1>4, <1>7 DEF HeldInv
<1>11. CycleInv'
  <2>1. \A g \in Fifos : Stuck(g)' => Stuck(g) /\ g # f
    BY <1>2, <1>7, SameBlocked DEF Stuck
  <2> QED
    BY <1>1, <1>2, <1>4, <2>1, SameCycles
<1> QED
  BY <1>1, <1>2, <1>5, <1>6, <1>8, <1>9, <1>10, <1>11 DEF IInv

\* A push unblocks waiters and blocks none.
LEMMA PushKeeps ==
  ASSUME IInv, NEW f \in Fifos, push_stamp(f)
  PROVE  IInv'
<1>1. TypeOK /\ PushInv /\ BarrierInv /\ EntryInv /\ HeldInv /\ CycleInv /\ dead = "no"
  BY DEF IInv
<1>2. /\ pc[f] = "push" /\ pc \in [Fifos -> PCs] /\ pc' = [pc EXCEPT ![f] = "idle"]
      /\ last_pending \in [Fifos -> Stamps]
      /\ last_pending' = [last_pending EXCEPT ![f] = (last_pending[f] + 1) % Span]
      /\ barrier \in [Fifos -> [index : Fifos, value : Stamps]]
      /\ barrier' = [barrier EXCEPT ![f] = NoBarrier(f)]
      /\ curr' = [curr EXCEPT ![f] = f] /\ next' = [next EXCEPT ![f] = NotWaiting]
      /\ curr \in [Fifos -> Fifos] /\ next \in [Fifos -> Fifos \cup {NotWaiting}]
      /\ UNCHANGED <<slot, table, quiesced, deleting, signal_owed, dead, cycled>>
      /\ UNCHANGED <<next_index, next_value, waiting_stamps>>
  BY <1>1 DEF push_stamp, TypeOK, Goto, table
<1>3. \A g \in Fifos :
        /\ pc'[g] = IF g = f THEN "idle" ELSE pc[g]
        /\ last_pending'[g] = IF g = f THEN (last_pending[f] + 1) % Span ELSE last_pending[g]
        /\ g # f => barrier'[g] = barrier[g] /\ curr'[g] = curr[g] /\ next'[g] = next[g]
  BY <1>2
<1>4. PICK i \in 0..MaxStamps, j \in 0..MaxStamps :
        /\ i <= j /\ slot[f] = Value(i) /\ last_pending[f] = Value(j) /\ j < MaxStamps
  BY <1>1, <1>2 DEF PushInv
<1>5. /\ last_pending'[f] = Value(j + 1) /\ j + 1 \in 0..MaxStamps /\ i <= j + 1
      /\ Value(j + 1) \in Stamps
  <2>1. j \in 0..(MaxStamps - 1) /\ i <= j + 1
    BY <1>4, Sizes
  <2>2. (Value(j) + 1) % Span = Value(j + 1) /\ j + 1 \in 0..MaxStamps
    BY <2>1, ValueFacts
  <2>3. Value(j + 1) \in Stamps
    BY <2>2, ValueFacts
  <2> QED
    BY <1>3, <1>4, <2>1, <2>2, <2>3
<1>6. TypeOK'
  <2>1. pc' \in [Fifos -> PCs] /\ last_pending' \in [Fifos -> Stamps]
    BY <1>2, <1>3, <1>5 DEF PCs
  <2>2. barrier' \in [Fifos -> [index : Fifos, value : Stamps]]
    <3>1. Base \in Stamps
      BY ValueFacts, Sizes
    <3> QED
      BY <1>2, <3>1 DEF NoBarrier
  <2>3. curr' \in [Fifos -> Fifos] /\ next' \in [Fifos -> Fifos \cup {NotWaiting}]
    BY <1>2
  <2>4. raised' \in [Fifos -> BOOLEAN]
    <3>1. raised \in [Fifos -> BOOLEAN]
      BY <1>1 DEF TypeOK
    <3> QED
      BY <3>1, Zenon DEF push_stamp
  <2> QED
    BY <1>1, <1>2, <2>1, <2>2, <2>3, <2>4 DEF TypeOK
<1>7. PushInv'
  <2> SUFFICES ASSUME NEW g \in Fifos
               PROVE  \E ii \in 0..MaxStamps, jj \in 0..MaxStamps :
                        /\ ii <= jj /\ slot[g] = Value(ii) /\ last_pending'[g] = Value(jj)
                        /\ pc'[g] \notin {"idle", "stopped"} => jj < MaxStamps
    BY <1>2 DEF PushInv
  <2>1. CASE g = f
    BY <1>3, <1>4, <1>5, <2>1
  <2>2. CASE g # f
    BY <1>1, <1>3, <2>2 DEF PushInv
  <2> QED
    BY <2>1, <2>2
<1>8. \A g \in Fifos : /\ Registered(g)' <=> Registered(g)
                       /\ Registered(g) => g # f
                       /\ InWait(g)' <=> InWait(g)
                       /\ InWait(g) => g # f
  BY <1>2, <1>3 DEF Registered, InWait, Walking
<1>9. BarrierInv'
  BY <1>1, <1>3, <1>8 DEF BarrierInv
<1>10. EntryInv'
  BY <1>1, <1>2, <1>8 DEF EntryInv
<1>11. HeldInv'
  BY <1>1, <1>2, <1>3, <1>8 DEF HeldInv
<1>12. CycleInv'
  <2>1. ASSUME NEW g \in Fifos, Registered(g), Blocked(g)' PROVE Blocked(g)
    <3>1. g # f /\ barrier'[g] = barrier[g] /\ barrier[g].index \in Fifos /\ InWait(g)
      BY <1>2, <1>3, <1>8, <2>1 DEF Registered, InWait, Walking
    <3>2. CASE barrier[g].index # f
      BY <1>3, <2>1, <3>1, <3>2 DEF Blocked
    <3>3. CASE barrier[g].index = f
      <4>1. PICK k \in 1..MaxStamps : barrier[g].value = Value(k)
        BY <1>1, <3>1 DEF BarrierInv
      <4>2. ~reached(Value(j + 1), Value(k))
        BY <1>5, <2>1, <3>1, <3>3, <4>1 DEF Blocked
      <4>3. ~(j + 1 >= k)
        BY <1>5, <4>2, ReachedMeans
      <4>4. ~(j >= k)
        BY <4>3, Sizes
      <4>5. ~reached(Value(j), Value(k))
        BY <4>4, ReachedMeans
      <4> QED
        BY <1>4, <3>3, <4>1, <4>5 DEF Blocked
    <3> QED
      BY <3>2, <3>3
  <2>2. \A g \in Fifos : Stuck(g)' => Stuck(g) /\ g # f
    BY <1>2, <1>8, <2>1 DEF Stuck
  <2> QED
    BY <1>1, <1>3, <2>2, SameCycles
<1> QED
  BY <1>1, <1>2, <1>6, <1>7, <1>9, <1>10, <1>11, <1>12 DEF IInv

\* A stamp is published: never past what was pushed.
LEMMA PublishKeeps ==
  ASSUME IInv, NEW f \in Fifos, signal_stamp(f)
  PROVE  IInv'
<1>1. TypeOK /\ PushInv /\ BarrierInv /\ EntryInv /\ HeldInv /\ CycleInv /\ dead = "no"
  BY DEF IInv
<1>2. /\ slot[f] # last_pending[f] /\ slot \in [Fifos -> Stamps]
      /\ slot' = [slot EXCEPT ![f] = (slot[f] + 1) % Span]
      /\ pc \in [Fifos -> PCs]
      /\ pc' = [g \in Fifos |-> IF pc[g] \in {"timed", "untimed"} THEN "wait" ELSE pc[g]]
      /\ UNCHANGED <<last_pending, table, barrier, curr, next, quiesced, deleting, signal_owed, dead,
                     cycled, raised>>
      /\ UNCHANGED <<next_index, next_value, waiting_stamps>>
  BY <1>1 DEF signal_stamp, WakeAll, TypeOK, table
<1>3. \A g \in Fifos :
        /\ Registered(g)' <=> Registered(g)
        /\ InWait(g)' <=> InWait(g)
        /\ pc'[g] = "check" => pc[g] = "check"
        /\ pc'[g] \notin {"idle", "stopped"} => pc[g] \notin {"idle", "stopped"}
        /\ pc[g] \in Walking => pc'[g] = pc[g]
  BY <1>2 DEF Registered, InWait, Walking
<1>4. PICK i \in 0..MaxStamps, j \in 0..MaxStamps :
        /\ i <= j /\ slot[f] = Value(i) /\ last_pending[f] = Value(j)
        /\ pc[f] \notin {"idle", "stopped"} => j < MaxStamps
  BY <1>1 DEF PushInv
<1>5. slot'[f] = Value(i + 1) /\ i + 1 \in 0..MaxStamps /\ i + 1 <= j /\ Value(i + 1) \in Stamps
  <2>1. i # j
    BY <1>2, <1>4
  <2>2. i \in 0..(MaxStamps - 1) /\ i + 1 <= j
    BY <1>4, <2>1, Sizes
  <2>3. (Value(i) + 1) % Span = Value(i + 1) /\ i + 1 \in 0..MaxStamps
    BY <2>2, ValueFacts
  <2>4. Value(i + 1) \in Stamps
    BY <2>3, ValueFacts
  <2> QED
    BY <1>2, <1>4, <2>2, <2>3, <2>4
<1>6. TypeOK'
  <2>1. pc' \in [Fifos -> PCs]
    BY <1>2 DEF PCs
  <2>2. slot' \in [Fifos -> Stamps]
    BY <1>2, <1>5
  <2> QED
    BY <1>1, <1>2, <2>1, <2>2 DEF TypeOK
<1>7. PushInv'
  <2> SUFFICES ASSUME NEW g \in Fifos
               PROVE  \E ii \in 0..MaxStamps, jj \in 0..MaxStamps :
                        /\ ii <= jj /\ slot'[g] = Value(ii) /\ last_pending[g] = Value(jj)
                        /\ pc'[g] \notin {"idle", "stopped"} => jj < MaxStamps
    BY <1>2 DEF PushInv
  <2>1. CASE g = f
    BY <1>3, <1>4, <1>5, <2>1
  <2>2. CASE g # f
    <3>1. slot'[g] = slot[g]
      BY <1>2, <2>2
    <3> QED
      BY <1>1, <1>3, <3>1 DEF PushInv
  <2> QED
    BY <2>1, <2>2
<1>8. BarrierInv'
  BY <1>1, <1>2, <1>3 DEF BarrierInv
<1>9. EntryInv' /\ HeldInv'
  BY <1>1, <1>2, <1>3 DEF EntryInv, HeldInv
<1>10. CycleInv'
  <2>1. \A g \in Fifos : Stuck(g)' => Stuck(g)
    BY <1>2, <1>3, SameBlocked DEF Stuck
  <2> QED
    BY <1>1, <1>2, <1>3, <2>1, SameCycles
<1> QED
  BY <1>1, <1>2, <1>6, <1>7, <1>8, <1>9, <1>10 DEF IInv

\* A delete finishes the FIFO's wait wherever its thread is.
LEMMA DeleteKeeps ==
  ASSUME OwnBits, IInv, NEW f \in Fifos, DeleteTakes(f)
  PROVE  IInv'
<1>1. TypeOK /\ PushInv /\ BarrierInv /\ EntryInv /\ HeldInv /\ CycleInv /\ dead = "no"
  BY DEF IInv
<1>2. /\ deleting \in [Fifos -> {"no", "taken", "stopped"}]
      /\ deleting' = [deleting EXCEPT ![f] = "taken"]
      /\ next_index \in [Fifos -> Fifos \cup {NotWaiting}]
      /\ next_index' = [next_index EXCEPT ![f] = NotWaiting]
      /\ waiting_stamps' = waiting_stamps \ {f}
      /\ UNCHANGED <<slot, last_pending, next_value, pc, barrier, curr, next, quiesced,
                     signal_owed, dead, cycled, raised>>
  BY <1>1, Bits DEF DeleteTakes, TypeOK
<1>3. \A g \in Fifos : /\ deleting'[g] = "no" => deleting[g] = "no" /\ g # f
                       /\ next_index'[g] = IF g = f THEN NotWaiting ELSE next_index[g]
                       /\ Registered(g)' <=> Registered(g)
                       /\ InWait(g)' <=> InWait(g)
  BY <1>2 DEF Registered, InWait
<1>4. TypeOK'
  <2>1. /\ deleting' \in [Fifos -> {"no", "taken", "stopped"}]
        /\ next_index' \in [Fifos -> Fifos \cup {NotWaiting}]
    BY <1>2
  <2> QED
    BY <1>1, <1>2, <2>1 DEF TypeOK
<1>5. PushInv' /\ BarrierInv'
  BY <1>1, <1>2, <1>3 DEF PushInv, BarrierInv
<1>6. EntryInv'
  BY <1>1, <1>2, <1>3 DEF EntryInv
<1>7. HeldInv'
  BY <1>1, <1>2, <1>3 DEF HeldInv
<1>8. CycleInv'
  <2>1. \A g \in Fifos : Stuck(g)' => Stuck(g)
    BY <1>2, <1>3, SameBlocked DEF Stuck
  <2> QED
    BY <1>1, <1>2, <2>1, SameCycles
<1> QED
  BY <1>1, <1>2, <1>4, <1>5, <1>6, <1>7, <1>8 DEF IInv

\* The initial state.
LEMMA InitInv ==
  ASSUME Init
  PROVE  IInv
<1>1. Value(0) = Base /\ Base \in Stamps /\ 0 \in 0..MaxStamps
  BY ValueFacts, Sizes
<1>2. TypeOK
  <2>1. /\ slot \in [Fifos -> Stamps] /\ last_pending \in [Fifos -> Stamps]
        /\ next_value \in [Fifos -> Stamps]
        /\ next_index \in [Fifos -> Fifos \cup {NotWaiting}]
        /\ pc \in [Fifos -> PCs] /\ deleting \in [Fifos -> {"no", "taken", "stopped"}]
        /\ curr \in [Fifos -> Fifos] /\ next \in [Fifos -> Fifos \cup {NotWaiting}]
        /\ barrier \in [Fifos -> [index : Fifos, value : Stamps]]
    BY <1>1 DEF Init, PCs, NoBarrier
  <2>2. raised \in [Fifos -> BOOLEAN] /\ quiesced \in [Fifos -> BOOLEAN] /\ signal_owed \in BOOLEAN
    BY Zenon DEF Init
  <2> QED
    BY <2>1, <2>2 DEF Init, TypeOK
<1>3. \A f \in Fifos : pc[f] = "idle" /\ slot[f] = Base /\ last_pending[f] = Base
                       /\ next_index[f] = NotWaiting
  BY DEF Init
<1>4. PushInv
  BY <1>1, <1>3 DEF PushInv
<1>5. \A f \in Fifos : ~Registered(f) /\ ~InWait(f) /\ pc[f] # "check"
  BY <1>3 DEF Registered, InWait, Walking
<1>6. BarrierInv
  BY <1>5 DEF BarrierInv
<1>7. EntryInv /\ HeldInv
  BY <1>3, <1>5 DEF Init, EntryInv, HeldInv
<1>8. CycleInv
  BY <1>5 DEF CycleInv, Closed, Stuck
<1> QED
  BY <1>2, <1>4, <1>6, <1>7, <1>8 DEF Init, IInv

\* Every step of the threads and the device.
LEMMA NextInv ==
  ASSUME OwnBits, IInv, [Next]_vars
  PROVE  IInv'
<1>1. ASSUME NEW f \in Fifos, Thread(f) PROVE IInv'
  <2>1. CASE Command(f)
    BY <2>1, CommandKeeps
  <2>2. CASE wait_stamp(f)
    BY <2>2, EntryKeeps
  <2>3. CASE add_wait(f)
    BY <2>3, BitKeeps
  <2>4. CASE WalkNext(f) \/ WalkTest(f)
    BY <2>4, WalkKeeps
  <2>5. CASE WaitLoop(f)
    BY <2>5, LooksKeep
  <2>6. CASE finish_wait(f)
    BY <2>6, FinishKeeps
  <2>7. CASE Unlist(f)
    BY <2>7, UnlistKeeps
  <2>8. CASE push_stamp(f)
    BY <2>8, PushKeeps
  <2> QED
    BY <1>1, <2>1, <2>2, <2>3, <2>4, <2>5, <2>6, <2>7, <2>8 DEF Thread
<1>2. ASSUME NEW f \in Fifos, TimesOut(f) PROVE IInv'
  BY <1>2, LooksKeep
<1>3. ASSUME NEW f \in Fifos, signal_stamp(f) PROVE IInv'
  BY <1>3, PublishKeeps
<1>4. ASSUME NEW f \in Fifos, DeleteTakes(f) PROVE IInv'
  BY <1>4, DeleteKeeps
<1>5. CASE signal_fifos \/ \E f \in Fifos : quiesce(f) \/ DeleteStops(f)
  BY <1>5, QuiesceKeeps
<1>6. CASE UNCHANGED vars
  <2>1. TypeOK /\ PushInv /\ BarrierInv /\ EntryInv /\ HeldInv /\ CycleInv /\ dead = "no"
    BY DEF IInv
  <2>2. /\ UNCHANGED <<slot, last_pending, table, pc, barrier, curr, next, raised, quiesced, deleting,
                       signal_owed, dead, cycled>>
        /\ UNCHANGED <<next_index, next_value, waiting_stamps>>
    BY <1>6 DEF vars, table
  <2>3. TypeOK'
    BY <2>1, <2>2 DEF TypeOK
  <2>4. \A g \in Fifos : (Registered(g)' <=> Registered(g)) /\ (InWait(g)' <=> InWait(g))
    BY <2>2 DEF Registered, InWait
  <2>5. PushInv' /\ BarrierInv' /\ EntryInv' /\ HeldInv'
    BY <2>1, <2>2, <2>4, SameWaits
  <2>6. CycleInv'
    <3>1. \A g \in Fifos : Stuck(g)' => Stuck(g)
      BY <2>2, <2>4, SameBlocked DEF Stuck
    <3> QED
      BY <2>1, <2>2, <3>1, SameCycles
  <2> QED
    BY <2>1, <2>2, <2>3, <2>5, <2>6 DEF IInv
<1> QED
  BY <1>1, <1>2, <1>3, <1>4, <1>5, <1>6 DEF Next

-----------------------------------------------------------------------------
(* The theorems *)

\* The inductive invariant: the stamps, the waiters' bits and entries, and the walker that every
\* closed set of waits has.
THEOREM WaitsInvariant ==
  ASSUME OwnBits
  PROVE  Spec => []IInv
<1>1. Init => IInv
  BY InitInv
<1>2. IInv /\ [Next]_vars => IInv'
  BY NextInv
<1> QED
  BY <1>1, <1>2, PTL DEF Spec

\* The types of the waiters' table, the threads and the device's side.
THEOREM StampWaitsTypes ==
  ASSUME OwnBits
  PROVE  Spec => []TypeOK
<1>1. IInv => TypeOK
  BY DEF IInv
<1> QED
  BY <1>1, WaitsInvariant, PTL

\* add_wait registers a wait and walks the chain it closes without a lock, and still no cycle of
\* waits is left with every thread of it parked.
THEOREM CyclesAreNoticed ==
  ASSUME OwnBits
  PROVE  Spec => []NoSilentDeadlock
<1>1. IInv => NoSilentDeadlock
  <2> SUFFICES ASSUME IInv, NEW S \in (SUBSET Fifos) \ {{}},
                      \A f \in S : Parked(f) /\ ~quiesced[f] /\ deleting[f] = "no"
                                   /\ barrier[f].index \in S /\ Blocked(f)
               PROVE  FALSE
    BY DEF NoSilentDeadlock
  <2>1. S \in SUBSET Fifos /\ S # {}
    OBVIOUS
  <2>2. \A f \in S : Stuck(f)
    BY DEF Stuck, Registered, Parked
  <2>3. PICK l \in S : WalksIn(l, S)
    BY <2>1, <2>2 DEF IInv, CycleInv, Closed
  <2> QED
    BY <2>3 DEF WalksIn, Walking, Parked
<1> QED
  BY <1>1, WaitsInvariant, PTL

\* The fatal checks of add_wait never find a waiter's bit or entry in use, though a delete finishes
\* the wait of a thread that is still in it.
THEOREM WaitsNeverDie ==
  ASSUME OwnBits
  PROVE  Spec => []NoDeath
<1>1. IInv => NoDeath
  BY DEF IInv, NoDeath
<1> QED
  BY <1>1, WaitsInvariant, PTL
=============================================================================
