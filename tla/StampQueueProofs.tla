-------------------------- MODULE StampQueueProofs --------------------------
(***************************************************************************)
(* Proofs about the stamp queue for every capacity, counter span, number of *)
(* threads and set of values.                                               *)
(***************************************************************************)
EXTENDS StampQueue, ModularCounters, SequenceTheorems

\* The wrapping arithmetic of pending_count and slot (stamps.rs), over a number
\* of pushes w and of published pushes c.
LEMMA WrappedWindow ==
  ASSUME NEW w \in Nat, NEW c \in Nat, c <= w, w <= c + Capacity
  PROVE  /\ ((w % CountSpan) - (c % CountSpan)) % CountSpan = w - c
         /\ \A j \in Nat : (((c % CountSpan) + j) % CountSpan) % Capacity = Ring(c + j + 1)
         /\ (w % CountSpan) % Capacity = Ring(w + 1)
<1>1. /\ Capacity \in Nat \ {0} /\ CountSpan \in Nat \ {0}
      /\ CountSpan % Capacity = 0
      /\ w \in Int /\ c \in Int /\ c <= w /\ w - c < CountSpan
      /\ (w + 1) - 1 = w
  BY StampQueueAssumption
<1>2. ((w % CountSpan) - (c % CountSpan)) % CountSpan = w - c
  BY <1>1, WrappingSub, Zenon
<1>3. ASSUME NEW j \in Nat
      PROVE  (((c % CountSpan) + j) % CountSpan) % Capacity = Ring(c + j + 1)
  <2>1. j \in Int /\ c + j \in Int /\ (c + j + 1) - 1 = c + j
    BY <1>1
  <2>2. ((c % CountSpan) + j) % CountSpan = (c + j) % CountSpan
    BY <1>1, <2>1, WrappingAdd, Zenon
  <2>3. ((c + j) % CountSpan) % Capacity = (c + j) % Capacity
    BY <1>1, <2>1, RingIndex, Zenon
  <2> QED
    BY <2>1, <2>2, <2>3, Zenon DEF Ring
<1>4. (w % CountSpan) % Capacity = w % Capacity
  BY <1>1, RingIndex, Zenon
<1>5. (w % CountSpan) % Capacity = Ring(w + 1)
  BY <1>1, <1>4, Zenon DEF Ring
<1> QED
  BY <1>2, <1>3, <1>5

\* The ring index of any position is an index of the ring.
LEMMA RingInRange ==
  ASSUME NEW k \in Nat
  PROVE  Ring(k) \in 0..(Capacity - 1)
<1>1. k - 1 \in Int /\ Capacity \in Nat \ {0}
  BY StampQueueAssumption
<1> QED
  BY <1>1, DivMod, Zenon DEF Ring

\* The counters find the pending pushes: their number, and the slot of each.
LEMMA WindowArithmetic ==
  ASSUME TypeOK, CountersWrap
  PROVE  /\ Len(pushed) \in Nat /\ published \in Nat
         /\ Pending = Len(pushed) - published
         /\ \A j \in Nat : SlotAt(j) = Ring(published + j + 1)
         /\ write_count % Capacity = Ring(Len(pushed) + 1)
<1>1. /\ Len(pushed) \in Nat /\ published \in Nat
      /\ published <= Len(pushed) /\ Len(pushed) <= published + Capacity
  BY DEF TypeOK, CountersWrap
<1>2. /\ ((Len(pushed) % CountSpan) - (published % CountSpan)) % CountSpan
           = Len(pushed) - published
      /\ \A j \in Nat : (((published % CountSpan) + j) % CountSpan) % Capacity
                          = Ring(published + j + 1)
      /\ (Len(pushed) % CountSpan) % Capacity = Ring(Len(pushed) + 1)
  BY <1>1, WrappedWindow, Zenon
<1> QED
  BY <1>1, <1>2, Zenon DEF Pending, SlotAt, CountersWrap

\* The same in the state a step leads to.
LEMMA WindowArithmeticNext ==
  ASSUME Len(pushed)' \in Nat, published' \in Nat, CountersWrap'
  PROVE  /\ Pending' = Len(pushed)' - published'
         /\ SlotAt(0)' = Ring(published' + 1)
<1>1. /\ published' <= Len(pushed)' /\ Len(pushed)' <= published' + Capacity
      /\ published' + 0 + 1 = published' + 1 /\ 0 \in Nat
  BY DEF CountersWrap
<1>2. /\ ((Len(pushed)' % CountSpan) - (published' % CountSpan)) % CountSpan
           = Len(pushed)' - published'
      /\ \A j \in Nat : (((published' % CountSpan) + j) % CountSpan) % Capacity
                          = Ring(published' + j + 1)
  BY <1>1, WrappedWindow, Zenon
<1>3. (((published' % CountSpan) + 0) % CountSpan) % Capacity = Ring(published' + 1)
  BY <1>1, <1>2, Zenon
<1> QED
  BY <1>2, <1>3, Zenon DEF Pending, SlotAt, CountersWrap

\* Two pushes less than a ring apart have slots of their own.
LEMMA SlotsDistinct ==
  ASSUME NEW k \in Nat, NEW m \in Nat, Ring(k) = Ring(m), k - m < Capacity, m - k < Capacity
  PROVE  k = m
<1> DEFINE a == k - 1
           b == m - 1
<1>1. a \in Int /\ b \in Int /\ a - b < Capacity /\ b - a < Capacity /\ Capacity \in Nat \ {0}
  BY StampQueueAssumption
<1>2. a % Capacity = b % Capacity
  BY DEF Ring
<1> HIDE DEF a, b
<1>3. a = b
  BY <1>1, <1>2, RingDistinct, Zenon
<1> QED
  BY <1>3 DEF a, b

\* What every pump preserves of the types.
LEMMA PumpTypes ==
  ASSUME TypeOK, CountersWrap,
         NEW sl \in [0..(Capacity - 1) -> Slot], NEW latch \in BOOLEAN,
         NEW q \in BOOLEAN, NEW parking \in SUBSET Drainers,
         Pump(sl, latch, q, parking)
  PROVE  /\ slots' = sl /\ quiesced' = q
         /\ complete_count' \in 0..(CountSpan - 1)
         /\ faulted' \in BOOLEAN
         /\ room' \in SUBSET Pushers /\ drained' \in SUBSET Drainers
         /\ published' \in Nat
         /\ last_signal' \in Values \cup {NoValue}
         /\ reported' \in SUBSET (Nat \ {0})
<1>1. PICK n \in 0..Pending :
        /\ slots' = sl /\ quiesced' = q
        /\ complete_count' = (complete_count + n) % CountSpan
        /\ faulted' = (latch \/ (n < Pending /\ sl[SlotAt(n)].faulted /\ ~q /\ ~latch))
        /\ published' = published + n
        /\ last_signal' = IF n > 0 THEN sl[SlotAt(n - 1)].stamp_value ELSE last_signal
        /\ \/ reported' = reported \cup {published + n + 1}
           \/ reported' = reported
        /\ IF n > 0 THEN NotifyOne(room, room') ELSE UNCHANGED room
        /\ IF n < Pending THEN drained' = drained \cup parking ELSE NotifyOne(drained, drained')
  BY Zenon DEF Pump, wrapping_add
<1>0. Pending = Len(pushed) - published /\ Len(pushed) \in Nat
  BY WindowArithmetic DEF TypeOK
<1>2. /\ published \in Nat
      /\ n \in Nat /\ published + n \in Nat /\ published + n + 1 \in Nat \ {0}
      /\ complete_count + n \in Int /\ CountSpan \in Nat \ {0}
  BY <1>0, StampQueueAssumption DEF TypeOK, CountersWrap
<1>3. complete_count' \in 0..(CountSpan - 1)
  BY <1>1, <1>2, DivMod
<1>4. faulted' \in BOOLEAN
  <2>1. faulted' = (latch \/ (n < Pending /\ sl[SlotAt(n)].faulted /\ ~q /\ ~latch))
    BY <1>1
  <2> QED
    BY <2>1, Zenon
<1>5. room' \in SUBSET Pushers /\ drained' \in SUBSET Drainers
  BY <1>1 DEF NotifyOne, TypeOK
<1>6. last_signal' \in Values \cup {NoValue}
  <2>1. ASSUME n > 0
        PROVE  sl[SlotAt(n - 1)].stamp_value \in Values \cup {NoValue}
    <3>1. n - 1 \in Nat /\ published + (n - 1) + 1 \in Nat
      BY <2>1, <1>2
    <3>2. SlotAt(n - 1) \in 0..(Capacity - 1)
      BY <3>1, WindowArithmetic, RingInRange
    <3>3. sl[SlotAt(n - 1)] \in Slot
      BY <3>2
    <3> QED
      BY <3>3 DEF Slot
  <2> QED
    BY <2>1, <1>1 DEF TypeOK
<1>7. reported' \in SUBSET (Nat \ {0})
  BY <1>1, <1>2 DEF TypeOK
<1> QED
  BY <1>1, <1>2, <1>3, <1>4, <1>5, <1>6, <1>7

\* A pump over slots that still hold the window publishes in order, publishes
\* completed pushes only, and leaves nothing publishable at the head.
LEMMA PumpOrder ==
  ASSUME TypeOK, CountersWrap, PublishedInOrder,
         NEW sl \in [0..(Capacity - 1) -> Slot], NEW latch \in BOOLEAN,
         NEW q \in BOOLEAN, NEW parking \in SUBSET Drainers,
         Pump(sl, latch, q, parking),
         pushed' = pushed, write_count' = write_count,
         \A k \in (published + 1)..Len(pushed) :
           /\ sl[Ring(k)].stamp_value = pushed[k]
           /\ sl[Ring(k)].signaled \/ sl[Ring(k)].faulted => k \in ended',
         \A k \in 1..published : k \in ended'
  PROVE  OrderInv'
<1>1. PICK n \in 0..Pending :
        /\ \A j \in 0..(n - 1) : Publishable(sl[SlotAt(j)], q)
        /\ n < Pending => ~Publishable(sl[SlotAt(n)], q)
        /\ slots' = sl /\ quiesced' = q
        /\ complete_count' = (complete_count + n) % CountSpan
        /\ published' = published + n
        /\ last_signal' = IF n > 0 THEN sl[SlotAt(n - 1)].stamp_value ELSE last_signal
  BY Zenon DEF Pump, wrapping_add
<1>2. /\ Len(pushed) \in Nat /\ published \in Nat
      /\ Pending = Len(pushed) - published
      /\ \A j \in Nat : SlotAt(j) = Ring(published + j + 1)
  BY WindowArithmetic
<1>3. /\ n \in Nat /\ published + n \in Nat /\ published + n <= Len(pushed)
      /\ Len(pushed) <= published + Capacity
  BY <1>1, <1>2 DEF CountersWrap
<1>4. CountersWrap'
  <2>1. published \in Int /\ n \in Int /\ CountSpan \in Nat \ {0} /\ Capacity \in Nat
    BY <1>2, <1>3, StampQueueAssumption
  <2>2. ((published % CountSpan) + n) % CountSpan = (published + n) % CountSpan
    BY <2>1, WrappingAdd, Zenon
  <2>3. complete_count' = published' % CountSpan
    BY <1>1, <2>2, Zenon DEF CountersWrap
  <2>4. published' <= Len(pushed') /\ Len(pushed') <= published' + Capacity
    BY <1>1, <1>2, <1>3, <2>1
  <2>5. write_count' = Len(pushed') % CountSpan
    BY Zenon DEF CountersWrap
  <2> QED
    BY <2>3, <2>4, <2>5 DEF CountersWrap
<1>5. WindowHolds'
  BY <1>1, <1>2, <1>3 DEF WindowHolds, Ring
<1>6. OnlyEndedPublished'
  <2> SUFFICES ASSUME NEW k \in 1..(published + n), k > published
               PROVE  k \in ended'
    BY <1>1, <1>2, <1>3 DEF OnlyEndedPublished
  <2>0. published \in Nat /\ n \in Nat /\ Len(pushed) \in Nat /\ published + n <= Len(pushed)
    BY <1>2, <1>3
  <2>1. PICK j \in 0..(n - 1) : j \in Nat /\ published + j + 1 = k
    <3> DEFINE i == k - (published + 1)
    <3>1. i \in 0..(n - 1) /\ i \in Nat /\ published + i + 1 = k
      BY <2>0
    <3> QED
      BY <3>1
  <2>2. SlotAt(j) = Ring(k)
    BY <1>2, <2>1
  <2>3. sl[Ring(k)].signaled \/ sl[Ring(k)].faulted
    BY <1>1, <2>1, <2>2 DEF Publishable
  <2>4. k \in (published + 1)..Len(pushed)
    BY <2>0
  <2> QED
    BY <2>3, <2>4
<1>7. PublishedInOrder'
  <2>1. CASE n = 0
    BY <2>1, <1>1, <1>2 DEF PublishedInOrder
  <2>2. CASE n > 0
    <3>1. n - 1 \in Nat /\ published + (n - 1) + 1 = published + n
          /\ published + n \in (published + 1)..Len(pushed)
      BY <2>2, <1>2, <1>3
    <3>2. SlotAt(n - 1) = Ring(published + n)
      BY <1>2, <3>1
    <3>3. last_signal' = pushed[published + n]
      BY <1>1, <2>2, <3>1, <3>2
    <3> QED
      BY <1>1, <1>2, <1>3, <3>3 DEF PublishedInOrder
  <2> QED
    BY <2>1, <2>2, <1>3
<1>8. NothingPublishableLeft'
  <2>1. Len(pushed)' = Len(pushed) /\ Len(pushed)' \in Nat /\ published' \in Nat
    BY <1>1, <1>2, <1>3
  <2>2. Pending' = Len(pushed) - (published + n) /\ SlotAt(0)' = Ring(published + n + 1)
    BY <2>1, <1>1, <1>4, WindowArithmeticNext
  <2>3. SlotAt(n) = Ring(published + n + 1)
    BY <1>2, <1>3
  <2>4. Pending' > 0 => n < Pending
    BY <2>2, <1>2, <1>3
  <2>5. Publishable(slots[SlotAt(0)], quiesced)' = Publishable(sl[SlotAt(n)], q)
    BY <1>1, <2>2, <2>3, Zenon DEF Publishable
  <2> QED
    BY <1>1, <2>4, <2>5 DEF NothingPublishableLeft
<1> QED
  BY <1>4, <1>5, <1>6, <1>7, <1>8 DEF OrderInv

-----------------------------------------------------------------------------
(* The operations *)

\* A pump over the queue as it stands, or with a changed latch or quiesced flag.
LEMMA PumpInPlace ==
  ASSUME TypeOK, OrderInv, NEW latch \in BOOLEAN, NEW q \in BOOLEAN,
         NEW parking \in SUBSET Drainers, Pump(slots, latch, q, parking),
         pushed' = pushed, write_count' = write_count, ended' = ended
  PROVE  OrderInv'
<1>1. /\ slots \in [0..(Capacity - 1) -> Slot] /\ CountersWrap /\ PublishedInOrder
      /\ \A k \in 1..published : k \in ended'
      /\ \A k \in (published + 1)..Len(pushed) :
           /\ slots[Ring(k)].stamp_value = pushed[k]
           /\ slots[Ring(k)].signaled \/ slots[Ring(k)].faulted => k \in ended'
  BY DEF OrderInv, TypeOK, WindowHolds, OnlyEndedPublished
<1> QED
  BY <1>1, PumpOrder

\* The marks of signal_stamp and fault_stamp on the j-th pending slot keep the
\* window: only that slot changes, and not its value.
LEMMA MarkKeepsWindow ==
  ASSUME TypeOK, OrderInv, NEW j \in 0..(Pending - 1), NEW slot \in Slot,
         slot.stamp_value = slots[SlotAt(j)].stamp_value,
         NEW sl, sl = [slots EXCEPT ![SlotAt(j)] = slot],
         ended' = ended \cup {published + j + 1}
  PROVE  /\ sl \in [0..(Capacity - 1) -> Slot]
         /\ published + j + 1 \in Nat \ {0}
         /\ published + j + 1 \in (published + 1)..Len(pushed)
         /\ \A k \in (published + 1)..Len(pushed) :
              /\ sl[Ring(k)].stamp_value = pushed[k]
              /\ sl[Ring(k)].signaled \/ sl[Ring(k)].faulted => k \in ended'
         /\ \A k \in 1..published : k \in ended'
<1>1. /\ Len(pushed) \in Nat /\ published \in Nat
      /\ Pending = Len(pushed) - published
      /\ \A i \in Nat : SlotAt(i) = Ring(published + i + 1)
      /\ Len(pushed) <= published + Capacity
  BY WindowArithmetic DEF OrderInv, CountersWrap
<1> DEFINE m == published + j + 1
<1>2. j \in Nat /\ m \in Nat \ {0} /\ m \in (published + 1)..Len(pushed)
  BY <1>1
<1>3. SlotAt(j) = Ring(m) /\ Ring(m) \in 0..(Capacity - 1)
  BY <1>1, <1>2, RingInRange
<1>4. sl \in [0..(Capacity - 1) -> Slot]
  BY <1>3 DEF TypeOK
<1>5. ASSUME NEW k \in (published + 1)..Len(pushed)
      PROVE  /\ sl[Ring(k)].stamp_value = pushed[k]
             /\ sl[Ring(k)].signaled \/ sl[Ring(k)].faulted => k \in ended'
  <2>1. /\ k \in Nat /\ Ring(k) \in 0..(Capacity - 1)
        /\ k - m < Capacity /\ m - k < Capacity
        /\ slots[Ring(k)].stamp_value = pushed[k]
        /\ slots[Ring(k)].signaled \/ slots[Ring(k)].faulted => k \in ended
    <3>1. k \in Nat /\ k - m < Capacity /\ m - k < Capacity
      <4>1. /\ Len(pushed) \in Nat /\ published \in Nat /\ Capacity \in Nat
            /\ Len(pushed) <= published + Capacity
            /\ m \in (published + 1)..Len(pushed)
        BY <1>1, <1>2, StampQueueAssumption
      <4> HIDE DEF m
      <4> QED
        BY <4>1
    <3> QED
      BY <3>1, RingInRange DEF OrderInv, WindowHolds
  <2>2. CASE k = m
    BY <2>1, <2>2, <1>3 DEF TypeOK
  <2>3. CASE k # m
    <3>1. Ring(k) # Ring(m)
      BY <2>1, <2>3, <1>2, SlotsDistinct
    <3>2. sl[Ring(k)] = slots[Ring(k)]
      BY <3>1, <2>1, <1>3 DEF TypeOK
    <3> QED
      BY <3>2, <2>1
  <2> QED
    BY <2>2, <2>3
<1> QED
  BY <1>2, <1>4, <1>5 DEF OrderInv, OnlyEndedPublished

\* Steps that touch neither the ring nor the history keep the order.
LEMMA OrderFrame ==
  ASSUME OrderInv,
         UNCHANGED <<slots, write_count, complete_count, pushed, published, ended, last_signal>>,
         quiesced' = quiesced \/ quiesced' = FALSE
  PROVE  OrderInv'
<1>1. CountersWrap' /\ WindowHolds' /\ OnlyEndedPublished' /\ PublishedInOrder'
  BY DEF OrderInv, CountersWrap, WindowHolds, OnlyEndedPublished, PublishedInOrder, Ring
<1>2. Pending' = Pending /\ SlotAt(0)' = SlotAt(0) /\ slots' = slots
  BY Zenon DEF Pending, SlotAt
<1>3. NothingPublishableLeft'
  BY <1>2 DEF OrderInv, NothingPublishableLeft, Publishable
<1> QED
  BY <1>1, <1>3 DEF OrderInv

\* push_stamp keeps the types and the order: the slot it writes lies outside the
\* pending window.
LEMMA PushKeeps ==
  ASSUME TypeOK, OrderInv, NEW t \in Pushers, push_stamp(t)
  PROVE  TypeOK' /\ OrderInv'
<1> DEFINE v == pushing[t]
           m == Len(pushed) + 1
           new == [EmptySlot EXCEPT !.stamp_value = v]
<1>1. /\ Len(pushed) \in Nat /\ published \in Nat
      /\ Pending = Len(pushed) - published
      /\ SlotAt(0) = Ring(published + 0 + 1)
      /\ write_count % Capacity = Ring(m)
  BY WindowArithmetic DEF OrderInv
<1>2. /\ v \in Values /\ Pending # Capacity
      /\ slots' = [slots EXCEPT ![Ring(m)] = new]
      /\ write_count' = (write_count + 1) % CountSpan
      /\ last_pending' = v
      /\ pushing' = [pushing EXCEPT ![t] = NoValue]
      /\ owed' = [owed EXCEPT ![v] = owed[v] + (IF v \in Sloppy THEN 2 ELSE 1)]
      /\ pushed' = Append(pushed, v)
      /\ UNCHANGED <<complete_count, faulted, quiesced, room, drained, control, dead,
                     published, last_signal, ended, reported>>
  BY <1>1 DEF push_stamp, TypeOK, wrapping_add
<1>3. /\ new \in Slot /\ new.stamp_value = v /\ new.signaled = FALSE /\ new.faulted = FALSE
  BY <1>2 DEF EmptySlot, Slot
<1>4. /\ Len(pushed') = m /\ pushed' \in Seq(Values)
      /\ \A k \in 1..Len(pushed) : pushed'[k] = pushed[k]
      /\ pushed'[m] = v
  BY <1>2, AppendProperties DEF TypeOK
<1>5. /\ published <= Len(pushed) /\ Len(pushed) < published + Capacity /\ Capacity \in Nat \ {0}
      /\ CountSpan \in Nat \ {0} /\ m \in Nat
  <2>1. published <= Len(pushed) /\ Len(pushed) <= published + Capacity
    BY Zenon DEF OrderInv, CountersWrap
  <2>2. Capacity \in Nat \ {0} /\ CountSpan \in Nat \ {0}
    BY StampQueueAssumption
  <2>3. Len(pushed) - published # Capacity
    BY <1>1, <1>2
  <2> QED
    BY <1>1, <2>1, <2>2, <2>3
<1>6. Ring(m) \in 0..(Capacity - 1)
  BY <1>5, RingInRange
<1>7. TypeOK'
  <2>1. write_count' \in 0..(CountSpan - 1)
    <3>1. write_count + 1 \in Int
      BY DEF TypeOK
    <3> QED
      BY <3>1, <1>2, <1>5, DivMod, Zenon
  <2>2. slots' \in [0..(Capacity - 1) -> Slot]
    BY <1>2, <1>3, <1>6 DEF TypeOK
  <2>3. pushing' \in [Pushers -> Values \cup {NoValue}] /\ owed' \in [Values -> Nat]
    BY <1>2 DEF TypeOK
  <2> HIDE DEF v, m, new
  <2> QED
    BY <2>1, <2>2, <2>3, <1>2, <1>4 DEF TypeOK
<1>8. CountersWrap'
  <2>1. ((Len(pushed) % CountSpan) + 1) % CountSpan = m % CountSpan
    <3>1. Len(pushed) \in Int /\ 1 \in Int
      BY <1>1
    <3> QED
      BY <3>1, <1>5, WrappingAdd, Zenon
  <2>2. write_count' = Len(pushed') % CountSpan /\ complete_count' = published' % CountSpan
    BY <1>2, <1>4, <2>1, Zenon DEF OrderInv, CountersWrap
  <2>3. published' <= Len(pushed') /\ Len(pushed') <= published' + Capacity
    BY <1>1, <1>2, <1>4, <1>5
  <2> QED
    BY <2>2, <2>3 DEF CountersWrap
<1>9. ASSUME NEW k \in (published + 1)..Len(pushed)
      PROVE  k \in Nat /\ Ring(k) # Ring(m) /\ slots'[Ring(k)] = slots[Ring(k)]
  <2>1. k \in Nat /\ k - m < Capacity /\ m - k < Capacity /\ k # m
    BY <1>1, <1>5
  <2>2. Ring(k) # Ring(m)
    BY <2>1, <1>5, SlotsDistinct
  <2>3. Ring(k) \in 0..(Capacity - 1)
    BY <2>1, RingInRange
  <2> QED
    BY <1>2, <1>6, <2>1, <2>2, <2>3 DEF TypeOK
<1>10. WindowHolds'
  <2> SUFFICES ASSUME NEW k \in (published + 1)..m
               PROVE  /\ slots'[Ring(k)].stamp_value = pushed'[k]
                      /\ slots'[Ring(k)].signaled \/ slots'[Ring(k)].faulted => k \in ended
    BY <1>2, <1>4 DEF WindowHolds, Ring
  <2>1. CASE k = m
    <3>1. slots'[Ring(m)] = new
      BY <1>2, <1>6 DEF TypeOK
    <3> QED
      BY <3>1, <2>1, <1>3, <1>4
  <2>2. CASE k # m
    <3>1. k \in (published + 1)..Len(pushed) /\ k \in 1..Len(pushed)
      BY <2>2, <1>1
    <3> QED
      BY <3>1, <1>4, <1>9 DEF OrderInv, WindowHolds
  <2> QED
    BY <2>1, <2>2
<1>11. OnlyEndedPublished'
  BY <1>2 DEF OrderInv, OnlyEndedPublished
<1>12. PublishedInOrder'
  BY <1>1, <1>2, <1>4, <1>5 DEF OrderInv, PublishedInOrder
<1>13. NothingPublishableLeft'
  <2>1. SlotAt(0)' = Ring(published + 1)
    <3>1. Len(pushed)' \in Nat /\ published' \in Nat /\ published' = published
      BY <1>1, <1>2, <1>4
    <3> QED
      BY <3>1, <1>8, WindowArithmeticNext
  <2>2. CASE Pending = 0
    <3>1. slots'[Ring(published + 1)] = new
      BY <2>2, <1>1, <1>2, <1>6 DEF TypeOK
    <3> QED
      BY <3>1, <2>1, <1>3 DEF NothingPublishableLeft, Publishable
  <2>3. CASE Pending # 0
    <3>1. published + 1 \in (published + 1)..Len(pushed) /\ Pending > 0
          /\ published + 0 + 1 = published + 1
      BY <2>3, <1>1, <1>5
    <3>2. slots'[Ring(published + 1)] = slots[SlotAt(0)]
      BY <3>1, <1>1, <1>9
    <3> QED
      BY <3>1, <3>2, <2>1, <1>2 DEF OrderInv, NothingPublishableLeft, Publishable
  <2> QED
    BY <2>2, <2>3
<1> QED
  BY <1>7, <1>8, <1>10, <1>11, <1>12, <1>13 DEF OrderInv

\* A signal or a fault that marks the j-th pending slot as `slot'.
LEMMA MarkKeeps ==
  ASSUME TypeOK, OrderInv, NEW v \in Values, NEW j \in 0..(Pending - 1), NEW slot \in Slot,
         slot.stamp_value = slots[SlotAt(j)].stamp_value,
         owed' \in [Values -> Nat],
         ended' = ended \cup {published + j + 1},
         \/ AllSignaledBefore(j) /\ Pump([slots EXCEPT ![SlotAt(j)] = slot], faulted, quiesced, {})
         \/ /\ ~AllSignaledBefore(j)
            /\ slots' = [slots EXCEPT ![SlotAt(j)] = slot]
            /\ UNCHANGED <<complete_count, faulted, quiesced, room, drained,
                           published, last_signal, reported>>,
         UNCHANGED <<write_count, last_pending, pushing, control, dead, pushed>>
  PROVE  TypeOK' /\ OrderInv'
<1> DEFINE sl == [slots EXCEPT ![SlotAt(j)] = slot]
<1>1. /\ sl \in [0..(Capacity - 1) -> Slot]
      /\ published + j + 1 \in Nat \ {0}
      /\ published + j + 1 \in (published + 1)..Len(pushed)
      /\ \A k \in (published + 1)..Len(pushed) :
           /\ sl[Ring(k)].stamp_value = pushed[k]
           /\ sl[Ring(k)].signaled \/ sl[Ring(k)].faulted => k \in ended'
      /\ \A k \in 1..published : k \in ended'
  BY MarkKeepsWindow
<1>2. ended' \in SUBSET (Nat \ {0})
  BY <1>1 DEF TypeOK
<1>3. CASE AllSignaledBefore(j) /\ Pump(sl, faulted, quiesced, {})
  <2> HIDE DEF sl
  <2>1. faulted \in BOOLEAN /\ quiesced \in BOOLEAN /\ {} \in SUBSET Drainers
        /\ CountersWrap /\ PublishedInOrder
    BY DEF TypeOK, OrderInv
  <2>2. OrderInv'
    BY <1>1, <1>3, <2>1, PumpOrder
  <2>3. /\ slots' = sl /\ quiesced' = quiesced
        /\ complete_count' \in 0..(CountSpan - 1)
        /\ faulted' \in BOOLEAN
        /\ room' \in SUBSET Pushers /\ drained' \in SUBSET Drainers
        /\ published' \in Nat
        /\ last_signal' \in Values \cup {NoValue}
        /\ reported' \in SUBSET (Nat \ {0})
    BY <1>1, <1>3, <2>1, PumpTypes
  <2>4. TypeOK'
    BY <1>1, <1>2, <2>1, <2>3 DEF TypeOK
  <2> QED
    BY <2>2, <2>4
<1>4. CASE /\ ~AllSignaledBefore(j)
           /\ slots' = sl
           /\ UNCHANGED <<complete_count, faulted, quiesced, room, drained,
                          published, last_signal, reported>>
  <2>1. TypeOK'
    <3> HIDE DEF sl
    <3> QED
      BY <1>1, <1>2, <1>4 DEF TypeOK
  <2>2. j # 0
    BY <1>4 DEF AllSignaledBefore
  <2>3. /\ Len(pushed) \in Nat /\ published \in Nat /\ j \in Nat
        /\ Pending = Len(pushed) - published
        /\ SlotAt(j) = Ring(published + j + 1) /\ SlotAt(0) = Ring(published + 1)
        /\ published <= Len(pushed) /\ Len(pushed) <= published + Capacity
    <3>1. CountersWrap
      BY DEF OrderInv
    <3>2. /\ Len(pushed) \in Nat /\ published \in Nat
          /\ Pending = Len(pushed) - published
          /\ \A i \in Nat : SlotAt(i) = Ring(published + i + 1)
          /\ published <= Len(pushed) /\ Len(pushed) <= published + Capacity
      BY <3>1, WindowArithmetic DEF CountersWrap
    <3>3. j \in Nat /\ published + 0 + 1 = published + 1
      BY <3>2
    <3> QED
      BY <3>2, <3>3
  <2>4. slots'[SlotAt(0)] = slots[SlotAt(0)]
    <3>1. /\ published + 1 \in Nat /\ published + j + 1 \in Nat
          /\ published + 1 # published + j + 1
          /\ (published + 1) - (published + j + 1) < Capacity
          /\ (published + j + 1) - (published + 1) < Capacity
      BY <2>2, <2>3, StampQueueAssumption
    <3>2. Ring(published + 1) # Ring(published + j + 1)
      BY <3>1, SlotsDistinct
    <3> QED
      BY <1>4, <2>3, <3>1, <3>2, RingInRange DEF TypeOK
  <2>5. Pending' = Pending /\ SlotAt(0)' = SlotAt(0)
    BY <1>4 DEF Pending, SlotAt
  <2>6. NothingPublishableLeft'
    BY <1>4, <2>4, <2>5 DEF OrderInv, NothingPublishableLeft, Publishable
  <2>7. CountersWrap' /\ OnlyEndedPublished' /\ PublishedInOrder'
    BY <1>1, <1>4 DEF OrderInv, CountersWrap, OnlyEndedPublished, PublishedInOrder
  <2>8. WindowHolds'
    <3> HIDE DEF sl
    <3> QED
      BY <1>1, <1>4 DEF WindowHolds, Ring
  <2> QED
    BY <2>1, <2>6, <2>7, <2>8 DEF OrderInv
<1> QED
  BY <1>3, <1>4

\* A pump in place, by an operation that changes nothing else of the ring.
LEMMA PumpInPlaceKeeps ==
  ASSUME TypeOK, OrderInv, NEW latch \in BOOLEAN, NEW q \in BOOLEAN,
         NEW parking \in SUBSET Drainers, Pump(slots, latch, q, parking),
         control' \in [Drainers -> {"idle", "quiesced", "draining"}],
         owed' \in [Values -> Nat],
         UNCHANGED <<write_count, last_pending, pushing, dead, pushed, ended>>
  PROVE  TypeOK' /\ OrderInv'
<1>1. OrderInv'
  BY PumpInPlace
<1>2. slots \in [0..(Capacity - 1) -> Slot] /\ CountersWrap
  BY DEF TypeOK, OrderInv
<1>3. /\ slots' = slots /\ quiesced' = q
      /\ complete_count' \in 0..(CountSpan - 1)
      /\ faulted' \in BOOLEAN
      /\ room' \in SUBSET Pushers /\ drained' \in SUBSET Drainers
      /\ published' \in Nat
      /\ last_signal' \in Values \cup {NoValue}
      /\ reported' \in SUBSET (Nat \ {0})
  BY <1>2, PumpTypes
<1> QED
  BY <1>1, <1>3 DEF TypeOK

\* A death changes neither the ring nor the history.
LEMMA DieKeeps ==
  ASSUME TypeOK, OrderInv, NEW kind, Die(kind), owed' \in [Values -> Nat],
         kind \in {"SignalNothingPending", "SignalTwice", "SignalFaulted",
                   "FaultNothingPending", "FaultSignalled", "FaultTwice",
                   "QueueDrainUnquiesced"}
  PROVE  TypeOK' /\ OrderInv'
<1>1. TypeOK'
  BY DEF TypeOK, Die, queue, threads, history
<1>2. OrderInv'
  BY OrderFrame DEF Die, queue, history
<1> QED
  BY <1>1, <1>2

\* A pending stamp's slot is a slot.
LEMMA PendingSlot ==
  ASSUME TypeOK, OrderInv, NEW j \in 0..(Pending - 1)
  PROVE  slots[SlotAt(j)] \in Slot
<1>1. /\ Len(pushed) \in Nat /\ published \in Nat
      /\ Pending = Len(pushed) - published
      /\ \A i \in Nat : SlotAt(i) = Ring(published + i + 1)
  BY WindowArithmetic DEF OrderInv
<1>2. j \in Nat /\ published + j + 1 \in Nat
  BY <1>1
<1>3. SlotAt(j) \in 0..(Capacity - 1)
  BY <1>1, <1>2, RingInRange
<1> QED
  BY <1>3 DEF TypeOK

\* signal_stamp keeps the types and the order, in each of its outcomes.
LEMMA SignalKeeps ==
  ASSUME TypeOK, OrderInv, NEW v \in Values, signal_stamp(v)
  PROVE  TypeOK' /\ OrderInv'
<1>1. owed' \in [Values -> Nat]
  BY DEF signal_stamp, CompleteStamp, TypeOK
<1>2. CASE Die("SignalNothingPending") \/ Die("SignalTwice") \/ Die("SignalFaulted")
  BY <1>1, <1>2, DieKeeps
<1>3. ASSUME NEW j \in 0..(Pending - 1),
             ended' = ended \cup {published + j + 1},
             \/ /\ AllSignaledBefore(j)
                /\ Pump([slots EXCEPT ![SlotAt(j)] = MarkSignaled(@)], faulted, quiesced, {})
             \/ /\ ~AllSignaledBefore(j)
                /\ slots' = [slots EXCEPT ![SlotAt(j)] = MarkSignaled(@)]
                /\ UNCHANGED <<complete_count, faulted, quiesced, room, drained,
                               published, last_signal, reported>>,
             UNCHANGED <<write_count, last_pending, pushing, control, dead, pushed>>
      PROVE  TypeOK' /\ OrderInv'
  <2> DEFINE slot == MarkSignaled(slots[SlotAt(j)])
  <2>1. slots[SlotAt(j)] \in Slot
    BY PendingSlot
  <2>2. slot \in Slot /\ slot.stamp_value = slots[SlotAt(j)].stamp_value
    BY <2>1 DEF MarkSignaled, Slot
  <2>3. [slots EXCEPT ![SlotAt(j)] = MarkSignaled(@)] = [slots EXCEPT ![SlotAt(j)] = slot]
    OBVIOUS
  <2> HIDE DEF slot
  <2> QED
    BY <1>1, <1>3, <2>2, <2>3, MarkKeeps
<1>4. CASE /\ AllSignaledBefore(Pending) /\ Pump(slots, faulted, quiesced, {})
           /\ UNCHANGED <<write_count, last_pending, pushing, control, dead, pushed, ended>>
  <2>1. /\ faulted \in BOOLEAN /\ quiesced \in BOOLEAN /\ {} \in SUBSET Drainers
        /\ control' \in [Drainers -> {"idle", "quiesced", "draining"}]
    BY <1>4 DEF TypeOK
  <2> QED
    BY <1>1, <1>4, <2>1, PumpInPlaceKeeps
<1>5. CASE /\ UNCHANGED <<slots, complete_count, faulted,
                 quiesced, room, drained, published, last_signal, reported>>
           /\ UNCHANGED <<write_count, last_pending, pushing, control, dead, pushed, ended>>
  <2>1. TypeOK'
    BY <1>1, <1>5 DEF TypeOK
  <2> QED
    BY <1>5, <2>1, OrderFrame
<1> QED
  BY <1>2, <1>3, <1>4, <1>5 DEF signal_stamp, CompleteStamp

\* fault_stamp keeps the types and the order, in each of its outcomes.
LEMMA FaultKeeps ==
  ASSUME TypeOK, OrderInv, NEW v \in Values, fault_stamp(v)
  PROVE  TypeOK' /\ OrderInv'
<1>1. owed' \in [Values -> Nat]
  BY DEF fault_stamp, CompleteStamp, TypeOK
<1>2. CASE Die("FaultNothingPending") \/ Die("FaultSignalled") \/ Die("FaultTwice")
  BY <1>1, <1>2, DieKeeps
<1>3. ASSUME NEW j \in 0..(Pending - 1),
             ended' = ended \cup {published + j + 1},
             \/ /\ AllSignaledBefore(j)
                /\ Pump([slots EXCEPT ![SlotAt(j)] = MarkFaulted(@)], faulted, quiesced, {})
             \/ /\ ~AllSignaledBefore(j)
                /\ slots' = [slots EXCEPT ![SlotAt(j)] = MarkFaulted(@)]
                /\ UNCHANGED <<complete_count, faulted, quiesced, room, drained,
                               published, last_signal, reported>>,
             UNCHANGED <<write_count, last_pending, pushing, control, dead, pushed>>
      PROVE  TypeOK' /\ OrderInv'
  <2> DEFINE slot == MarkFaulted(slots[SlotAt(j)])
  <2>1. slots[SlotAt(j)] \in Slot
    BY PendingSlot
  <2>2. slot \in Slot /\ slot.stamp_value = slots[SlotAt(j)].stamp_value
    BY <2>1 DEF MarkFaulted, Slot
  <2>3. [slots EXCEPT ![SlotAt(j)] = MarkFaulted(@)] = [slots EXCEPT ![SlotAt(j)] = slot]
    OBVIOUS
  <2> HIDE DEF slot
  <2> QED
    BY <1>1, <1>3, <2>2, <2>3, MarkKeeps
<1>4. CASE /\ AllSignaledBefore(Pending) /\ Pump(slots, faulted, quiesced, {})
           /\ UNCHANGED <<write_count, last_pending, pushing, control, dead, pushed, ended>>
  <2>1. /\ faulted \in BOOLEAN /\ quiesced \in BOOLEAN /\ {} \in SUBSET Drainers
        /\ control' \in [Drainers -> {"idle", "quiesced", "draining"}]
    BY <1>4 DEF TypeOK
  <2> QED
    BY <1>1, <1>4, <2>1, PumpInPlaceKeeps
<1>5. CASE /\ UNCHANGED <<slots, complete_count, faulted,
                 quiesced, room, drained, published, last_signal, reported>>
           /\ UNCHANGED <<write_count, last_pending, pushing, control, dead, pushed, ended>>
  <2>1. TypeOK'
    BY <1>1, <1>5 DEF TypeOK
  <2> QED
    BY <1>5, <2>1, OrderFrame
<1> QED
  BY <1>2, <1>3, <1>4, <1>5 DEF fault_stamp, CompleteStamp

\* A resume marks the head slot signalled; when it is pending it was faulted, so
\* its completion had come; when nothing is pending the slot is stale.
LEMMA ResumeKeeps ==
  ASSUME TypeOK, OrderInv, resume_from_fault
  PROVE  TypeOK' /\ OrderInv'
<1> DEFINE head == slots[SlotAt(0)]
           woken == [head EXCEPT !.faulted = FALSE, !.signaled = TRUE]
           sl == [slots EXCEPT ![SlotAt(0)] = woken]
<1>0. /\ UNCHANGED <<write_count, last_pending, pushing, control, owed, dead, pushed, ended>>
      /\ faulted \in BOOLEAN /\ quiesced \in BOOLEAN /\ {} \in SUBSET Drainers
      /\ CountersWrap /\ PublishedInOrder
      /\ slots \in [0..(Capacity - 1) -> Slot]
  BY DEF resume_from_fault, TypeOK, OrderInv
<1>1. CASE ~head.faulted
  <2>1. Pump(slots, faulted, quiesced, {})
    BY <1>1 DEF resume_from_fault
  <2> QED
    BY <1>0, <2>1, PumpInPlaceKeeps DEF TypeOK
<1>2. CASE head.faulted
  <2>1. Pump(sl, FALSE, quiesced, {})
    BY <1>2 DEF resume_from_fault
  <2>2. /\ Len(pushed) \in Nat /\ published \in Nat
        /\ Pending = Len(pushed) - published
        /\ \A j \in Nat : SlotAt(j) = Ring(published + j + 1)
    BY <1>0, WindowArithmetic
  <2>3. SlotAt(0) = Ring(published + 1) /\ published + 1 \in Nat
        /\ SlotAt(0) \in 0..(Capacity - 1)
    <3>1. 0 \in Nat /\ published + 0 + 1 = published + 1 /\ published + 1 \in Nat
      BY <2>2
    <3> QED
      BY <2>2, <3>1, RingInRange
  <2>4. woken \in Slot /\ woken.stamp_value = head.stamp_value
    BY <1>0, <2>3 DEF Slot
  <2>5. sl \in [0..(Capacity - 1) -> Slot]
    BY <1>0, <2>3, <2>4
  <2>6. ASSUME NEW k \in (published + 1)..Len(pushed)
        PROVE  /\ sl[Ring(k)].stamp_value = pushed[k]
               /\ sl[Ring(k)].signaled \/ sl[Ring(k)].faulted => k \in ended'
    <3>1. /\ slots[Ring(k)].stamp_value = pushed[k]
          /\ slots[Ring(k)].signaled \/ slots[Ring(k)].faulted => k \in ended'
      BY <1>0 DEF OrderInv, WindowHolds
    <3>2. Ring(k) \in 0..(Capacity - 1)
      <4>1. k \in Nat
        BY <2>2
      <4> QED
        BY <4>1, RingInRange
    <3>3. CASE Ring(k) = SlotAt(0)
      <4>1. sl[Ring(k)] = woken
        BY <1>0, <3>2, <3>3
      <4> QED
        BY <1>2, <3>1, <3>3, <4>1, <2>4
    <3>4. CASE Ring(k) # SlotAt(0)
      <4>1. sl[Ring(k)] = slots[Ring(k)]
        BY <1>0, <3>2, <3>4
      <4> QED
        BY <3>1, <4>1
    <3> QED
      BY <3>3, <3>4
  <2>7. \A k \in 1..published : k \in ended'
    BY <1>0 DEF OrderInv, OnlyEndedPublished
  <2> HIDE DEF sl
  <2>8. OrderInv'
    BY <1>0, <2>1, <2>5, <2>6, <2>7, PumpOrder
  <2>9. /\ slots' = sl /\ quiesced' = quiesced
        /\ complete_count' \in 0..(CountSpan - 1)
        /\ faulted' \in BOOLEAN
        /\ room' \in SUBSET Pushers /\ drained' \in SUBSET Drainers
        /\ published' \in Nat
        /\ last_signal' \in Values \cup {NoValue}
        /\ reported' \in SUBSET (Nat \ {0})
    BY <1>0, <2>1, <2>5, PumpTypes
  <2>10. TypeOK'
    BY <1>0, <2>5, <2>9 DEF TypeOK
  <2> QED
    BY <2>8, <2>10
<1> QED
  BY <1>1, <1>2

-----------------------------------------------------------------------------
(* The theorems *)

\* The empty queue (StampQueue::new) satisfies the invariant.
LEMMA InitKeeps == Init => TypeOK /\ OrderInv
<1> SUFFICES ASSUME Init PROVE TypeOK /\ OrderInv
  OBVIOUS
<1>1. EmptySlot \in Slot
  BY DEF EmptySlot, Slot
<1>2. TypeOK
  <2>1. slots \in [0..(Capacity - 1) -> Slot]
    BY <1>1 DEF Init
  <2>2. 0 \in 0..(CountSpan - 1)
    BY StampQueueAssumption
  <2>3. pushed \in Seq(Values) /\ published \in Nat
    BY DEF Init
  <2>4. pushing \in [Pushers -> Values \cup {NoValue}]
    BY DEF Init
  <2>5. owed \in [Values -> Nat]
    BY DEF Init
  <2>6. control \in [Drainers -> {"idle", "quiesced", "draining"}]
    BY DEF Init
  <2> QED
    BY <2>1, <2>2, <2>3, <2>4, <2>5, <2>6 DEF Init, TypeOK
<1>3. Len(pushed) = 0 /\ published = 0
  BY DEF Init
<1>4. CountersWrap
  <2>1. 0 % CountSpan = 0
    <3>1. CountSpan \in Nat \ {0} /\ 0 \in Int /\ 0 \in 0..(CountSpan - 1) /\ 0 = CountSpan * 0 + 0
      BY StampQueueAssumption
    <3> QED
      BY <3>1, ModUnique, Zenon
  <2>2. Capacity \in Nat
    BY StampQueueAssumption
  <2> QED
    BY <1>3, <2>1, <2>2 DEF Init, CountersWrap
<1>5. Pending = 0
  BY <1>2, <1>3, <1>4, WindowArithmetic
<1> QED
  BY <1>2, <1>3, <1>4, <1>5
     DEF OrderInv, WindowHolds, OnlyEndedPublished, PublishedInOrder, NothingPublishableLeft

\* Every operation of the queue keeps the types and the order.
LEMMA NextKeeps == TypeOK /\ OrderInv /\ [Next]_vars => TypeOK' /\ OrderInv'
<1> SUFFICES ASSUME TypeOK, OrderInv, [Next]_vars
             PROVE  TypeOK' /\ OrderInv'
  OBVIOUS
<1>1. ASSUME NEW t \in Pushers, NEW v \in Values, CallPush(t, v)
      PROVE  TypeOK' /\ OrderInv'
  <2>1. TypeOK'
    BY <1>1 DEF CallPush, TypeOK, queue, history
  <2>2. OrderInv'
    BY <1>1, OrderFrame DEF CallPush, queue, history
  <2> QED
    BY <2>1, <2>2
<1>2. ASSUME NEW t \in Pushers, WaitForRoom(t)
      PROVE  TypeOK' /\ OrderInv'
  <2>1. TypeOK'
    BY <1>2 DEF WaitForRoom, TypeOK, queue, history
  <2>2. OrderInv'
    BY <1>2, OrderFrame DEF WaitForRoom, queue, history
  <2> QED
    BY <2>1, <2>2
<1>3. ASSUME NEW t \in Pushers, push_stamp(t)
      PROVE  TypeOK' /\ OrderInv'
  BY <1>3, PushKeeps
<1>4. ASSUME NEW v \in Values, signal_stamp(v)
      PROVE  TypeOK' /\ OrderInv'
  BY <1>4, SignalKeeps
<1>5. ASSUME NEW v \in Values, fault_stamp(v)
      PROVE  TypeOK' /\ OrderInv'
  BY <1>5, FaultKeeps
<1>6. CASE resume_from_fault
  BY <1>6, ResumeKeeps
<1>7. ASSUME NEW d \in Drainers, quiesce(d)
      PROVE  TypeOK' /\ OrderInv'
  <2>1. /\ faulted \in BOOLEAN /\ TRUE \in BOOLEAN /\ {} \in SUBSET Drainers
        /\ control' \in [Drainers -> {"idle", "quiesced", "draining"}]
        /\ owed' \in [Values -> Nat]
        /\ Pump(slots, faulted, TRUE, {})
        /\ UNCHANGED <<write_count, last_pending, pushing, dead, pushed, ended>>
    BY <1>7 DEF TypeOK, quiesce
  <2> QED
    BY <2>1, PumpInPlaceKeeps
<1>8. ASSUME NEW d \in Drainers, drain(d)
      PROVE  TypeOK' /\ OrderInv'
  <2>1. CASE Die("QueueDrainUnquiesced") /\ UNCHANGED owed
    <3>1. owed' \in [Values -> Nat]
      BY <2>1 DEF TypeOK
    <3> QED
      BY <2>1, <3>1, DieKeeps
  <2>2. CASE ~Die("QueueDrainUnquiesced")
    <3>1. /\ faulted \in BOOLEAN /\ TRUE \in BOOLEAN /\ {d} \in SUBSET Drainers
          /\ control' \in [Drainers -> {"idle", "quiesced", "draining"}]
          /\ owed' \in [Values -> Nat]
          /\ Pump(slots, faulted, TRUE, {d})
          /\ UNCHANGED <<write_count, last_pending, pushing, dead, pushed, ended>>
      BY <1>8, <2>2 DEF TypeOK, drain
    <3> QED
      BY <3>1, PumpInPlaceKeeps
  <2> QED
    BY <1>8, <2>1, <2>2 DEF drain
<1>9. ASSUME NEW d \in Drainers, WaitForDrained(d)
      PROVE  TypeOK' /\ OrderInv'
  <2>1. TypeOK'
    BY <1>9 DEF WaitForDrained, TypeOK, queue, history
  <2>2. OrderInv'
    BY <1>9, OrderFrame DEF WaitForDrained, queue, history
  <2> QED
    BY <2>1, <2>2
<1>10. ASSUME NEW d \in Drainers, DrainReturns(d)
       PROVE  TypeOK' /\ OrderInv'
  <2>1. TypeOK'
    BY <1>10 DEF DrainReturns, TypeOK, queue, history
  <2>2. OrderInv'
    BY <1>10, OrderFrame DEF DrainReturns, queue, history
  <2> QED
    BY <2>1, <2>2
<1>11. CASE clear_quiesced
  <2>1. TypeOK'
    BY <1>11 DEF clear_quiesced, TypeOK, threads, history
  <2>2. OrderInv'
    BY <1>11, OrderFrame DEF clear_quiesced, threads, history
  <2> QED
    BY <2>1, <2>2
<1>12. CASE UNCHANGED vars
  <2>1. TypeOK'
    BY <1>12 DEF vars, queue, threads, history, TypeOK
  <2>2. OrderInv'
    BY <1>12, OrderFrame DEF vars, queue, history
  <2> QED
    BY <2>1, <2>2
<1> QED
  BY <1>1, <1>2, <1>3, <1>4, <1>5, <1>6, <1>7, <1>8, <1>9, <1>10, <1>11, <1>12 DEF Next

\* Type correctness of the stamp queue.
THEOREM StampQueueTypes == Spec => []TypeOK
<1>1. Spec => [](TypeOK /\ OrderInv)
  BY InitKeeps, NextKeeps, PTL DEF Spec
<1> QED
  BY <1>1, PTL

\* The wrapped counters and the ring stand for the unbounded history of pushes
\* in every reachable state (the inductive invariant).
THEOREM StampQueueOrder == Spec => []OrderInv
<1>1. Spec => [](TypeOK /\ OrderInv)
  BY InitKeeps, NextKeeps, PTL DEF Spec
<1> QED
  BY <1>1, PTL

\* The device is told of stamps in push order only (pump).
THEOREM StampsPublishedInOrder == Spec => []PublishedInOrder
<1>1. OrderInv => PublishedInOrder
  BY DEF OrderInv
<1> QED
  BY <1>1, StampQueueOrder, PTL

\* No stamp is published before a completion marked it (pump).
THEOREM OnlyCompletedStampsPublished == Spec => []OnlyEndedPublished
<1>1. OrderInv => OnlyEndedPublished
  BY DEF OrderInv
<1> QED
  BY <1>1, StampQueueOrder, PTL

\* The at_head test of signal_stamp and fault_stamp never skips a due pump.
THEOREM NoPublishableStampLeft == Spec => []NothingPublishableLeft
<1>1. OrderInv => NothingPublishableLeft
  BY DEF OrderInv
<1> QED
  BY <1>1, StampQueueOrder, PTL

-----------------------------------------------------------------------------
(* The queue's fatal checks, while its callers keep to their side *)

\* The positions of the pending pushes.
Window == (published + 1)..Len(pushed)

\* What holds until a misused value is pushed: a completion still to come is the only one of
\* its value and belongs to a pending push that nothing has completed; no two pushes pending
\* or about to be made have one value; and whoever is to drain the queue has it quiesced.
Calm ==
  /\ dead = "no"
  /\ \A v \in Values : owed[v] > 0 =>
       owed[v] = 1 /\ \E k \in Window : pushed[k] = v /\ k \notin ended
  /\ \A k, m \in Window : pushed[k] = pushed[m] => k = m
  /\ \A t \in Pushers : pushing[t] \notin Sloppy \cup {NoValue} =>
       owed[pushing[t]] = 0 /\ \A k \in Window : pushed[k] # pushing[t]
  /\ \A s, t \in Pushers :
       pushing[s] = pushing[t] /\ pushing[t] \notin Sloppy \cup {NoValue} => s = t
  /\ \A d \in Drainers : control[d] # "idle" => quiesced

UseInv == ended \subseteq 1..Len(pushed) /\ (~Misused => Calm)

\* A pump moves the published count forward only.
LEMMA PumpForward ==
  ASSUME TypeOK, OrderInv, NEW sl, NEW latch, NEW q, NEW parking, Pump(sl, latch, q, parking)
  PROVE  published <= published' /\ quiesced' = q
<1>1. Pending \in Int /\ published \in Nat
  BY WindowArithmetic DEF OrderInv
<1>2. PICK n \in 0..Pending : published' = published + n /\ quiesced' = q
  BY DEF Pump
<1> QED
  BY <1>1, <1>2

\* The pending push at distance j of the head, and its slot.
LEMMA PendingPush ==
  ASSUME TypeOK, OrderInv
  PROVE  /\ \A j \in 0..(Pending - 1) :
              /\ published + j + 1 \in Window
              /\ slots[SlotAt(j)].stamp_value = pushed[published + j + 1]
              /\ slots[SlotAt(j)].signaled \/ slots[SlotAt(j)].faulted => published + j + 1 \in ended
         /\ \A k \in Window : \E j \in 0..(Pending - 1) : k = published + j + 1
         /\ published \in Nat /\ Len(pushed) \in Nat /\ Window \subseteq 1..Len(pushed)
<1>1. /\ Len(pushed) \in Nat /\ published \in Nat
      /\ Pending = Len(pushed) - published
      /\ \A j \in Nat : SlotAt(j) = Ring(published + j + 1)
  BY WindowArithmetic DEF OrderInv
<1>2. ASSUME NEW j \in 0..(Pending - 1)
      PROVE  /\ published + j + 1 \in Window
             /\ slots[SlotAt(j)].stamp_value = pushed[published + j + 1]
             /\ slots[SlotAt(j)].signaled \/ slots[SlotAt(j)].faulted => published + j + 1 \in ended
  <2>1. j \in Nat /\ published + j + 1 \in (published + 1)..Len(pushed)
    BY <1>1
  <2>2. SlotAt(j) = Ring(published + j + 1)
    BY <1>1, <2>1
  <2> QED
    BY <2>1, <2>2 DEF OrderInv, WindowHolds, Window
<1>3. ASSUME NEW k \in Window PROVE \E j \in 0..(Pending - 1) : k = published + j + 1
  <2>1. k - published - 1 \in 0..(Pending - 1) /\ k = published + (k - published - 1) + 1
    BY <1>1 DEF Window
  <2> QED
    BY <2>1
<1>4. Window \subseteq 1..Len(pushed)
  BY <1>1 DEF Window
<1> QED
  BY <1>1, <1>2, <1>3, <1>4

\* What leaves the window at its low end.
LEMMA LeftBehind ==
  ASSUME NEW a \in Nat, NEW b \in Nat, NEW n \in Nat, NEW k \in (a + 1)..n, k \notin (b + 1)..n
  PROVE  k \in 1..b
  OBVIOUS

\* A step that pushes and completes nothing.
LEMMA UseFrame ==
  ASSUME TypeOK, OrderInv, OrderInv', UseInv, published' \in Nat, published <= published',
         UNCHANGED <<pushed, dead, owed, ended, pushing>>,
         ~Misused => \A d \in Drainers : control'[d] # "idle" => quiesced'
  PROVE  UseInv'
<1>1. Misused' <=> Misused
  BY DEF Misused
<1>2. published \in Nat /\ Len(pushed) \in Nat
  BY PendingPush
<1>3. Window' \subseteq Window /\ \A k \in Window : k \notin ended => k \in Window'
  <2>1. \A k \in 1..published' : k \in ended
    BY DEF OrderInv, OnlyEndedPublished
  <2>2. Window' = (published' + 1)..Len(pushed) /\ Window = (published + 1)..Len(pushed)
    BY DEF Window
  <2>3. Window' \subseteq Window
    BY <1>2, <2>2
  <2>4. ASSUME NEW k \in Window, k \notin Window' PROVE k \in 1..published'
    <3>1. k \in (published + 1)..Len(pushed) /\ k \notin (published' + 1)..Len(pushed)
      BY <2>2, <2>4
    <3> QED
      BY <1>2, <3>1, LeftBehind
  <2> QED
    BY <2>1, <2>3, <2>4
<1>4. ASSUME ~Misused PROVE Calm'
  <2>1. Calm
    BY <1>4 DEF UseInv
  <2>2. \A v \in Values : owed'[v] > 0 =>
          owed'[v] = 1 /\ \E k \in Window' : pushed'[k] = v /\ k \notin ended'
    BY <1>3, <2>1 DEF Calm
  <2>3. \A k, m \in Window' : pushed'[k] = pushed'[m] => k = m
    BY <1>3, <2>1 DEF Calm
  <2>4. \A t \in Pushers : pushing'[t] \notin Sloppy \cup {NoValue} =>
          owed'[pushing'[t]] = 0 /\ \A k \in Window' : pushed'[k] # pushing'[t]
    BY <1>3, <2>1 DEF Calm
  <2> QED
    BY <1>4, <2>1, <2>2, <2>3, <2>4 DEF Calm
<1> QED
  BY <1>1, <1>4 DEF UseInv

\* A thread enters push_stamp with a value nobody else uses, unless it is a misused one.
LEMMA CallPushUses ==
  ASSUME TypeOK, OrderInv, UseInv, NEW t \in Pushers, NEW v \in Values, CallPush(t, v)
  PROVE  UseInv'
<1>1. /\ pushing' = [pushing EXCEPT ![t] = v] /\ pushing[t] = NoValue
      /\ UNCHANGED <<slots, quiesced, control, owed, dead, pushed, published, ended>>
      /\ \/ v \in Sloppy
         \/ /\ owed[v] = 0
            /\ \A i \in 0..(Pending - 1) : slots[SlotAt(i)].stamp_value # v
            /\ \A s \in Pushers : pushing[s] # v
  BY DEF CallPush, queue, history
<1>2. Window' = Window /\ (Misused' <=> Misused)
  BY <1>1 DEF Window, Misused
<1>3. \A s \in Pushers : pushing'[s] = IF s = t THEN v ELSE pushing[s]
  BY <1>1 DEF TypeOK
<1>4. v \notin Sloppy => /\ owed[v] = 0 /\ (\A s \in Pushers : pushing[s] # v)
                         /\ \A k \in Window : pushed[k] # v
  BY <1>1, PendingPush
<1>5. ASSUME ~Misused PROVE Calm'
  <2>1. Calm
    BY <1>5 DEF UseInv
  <2>2. \A s \in Pushers : pushing'[s] \notin Sloppy \cup {NoValue} =>
          owed'[pushing'[s]] = 0 /\ \A k \in Window' : pushed'[k] # pushing'[s]
    <3>1. \A s \in Pushers : pushing'[s] \notin Sloppy \cup {NoValue} =>
            owed[pushing'[s]] = 0 /\ \A k \in Window : pushed[k] # pushing'[s]
      BY <1>3, <1>4, <2>1 DEF Calm
    <3> QED
      BY <1>1, <1>2, <3>1
  <2>3. \A r, s \in Pushers :
          pushing'[r] = pushing'[s] /\ pushing'[s] \notin Sloppy \cup {NoValue} => r = s
    BY <1>3, <1>4, <2>1 DEF Calm
  <2> QED
    BY <1>1, <1>2, <2>1, <2>2, <2>3 DEF Calm
<1> QED
  BY <1>1, <1>2, <1>5 DEF UseInv

\* The push: pending and owed one completion, with a value no other pending push has.
LEMMA PushUses ==
  ASSUME TypeOK, OrderInv, UseInv, NEW t \in Pushers, push_stamp(t)
  PROVE  UseInv'
<1> DEFINE v == pushing[t]
           n == Len(pushed) + 1
<1>1. /\ v # NoValue /\ pushing' = [pushing EXCEPT ![t] = NoValue]
      /\ owed' = [owed EXCEPT ![v] = @ + (IF v \in Sloppy THEN 2 ELSE 1)]
      /\ pushed' = Append(pushed, v) /\ UNCHANGED <<published, ended, dead, quiesced, control>>
  BY DEF push_stamp
<1>2. v \in Values /\ pushed \in Seq(Values) /\ Len(pushed) \in Nat /\ published \in Nat
      /\ published <= Len(pushed)
  BY <1>1 DEF TypeOK, OrderInv, CountersWrap
<1>3. n \in Nat /\ n \notin 1..Len(pushed) /\ n \notin ended
  BY <1>2 DEF UseInv
<1> HIDE DEF v
<1>4. /\ Len(pushed') = n /\ pushed'[n] = v
      /\ \A k \in 1..Len(pushed) : pushed'[k] = pushed[k]
      /\ DOMAIN pushed' = 1..n /\ DOMAIN pushed = 1..Len(pushed)
  BY <1>1, <1>2, AppendProperties, LenProperties
<1>5. Window' = Window \cup {n} /\ Window \subseteq 1..Len(pushed)
  BY <1>1, <1>2, <1>4 DEF Window
<1>6. ended' \subseteq 1..Len(pushed')
  BY <1>1, <1>2, <1>4 DEF UseInv
<1>7. ~Misused' => ~Misused /\ v \notin Sloppy
  <2>1. n \in 1..n /\ 1..Len(pushed) \subseteq 1..n
    BY <1>2
  <2>2. \A i \in 1..Len(pushed) : i \in DOMAIN pushed' /\ pushed'[i] = pushed[i]
    BY <1>4, <2>1
  <2>3. n \in DOMAIN pushed' /\ pushed'[n] = v
    BY <1>4, <2>1
  <2> QED
    BY <1>4, <2>2, <2>3 DEF Misused
<1>8. ASSUME ~Misused, v \notin Sloppy PROVE Calm'
  <2>1. Calm
    BY <1>8 DEF UseInv
  <2>2. owed[v] = 0 /\ \A k \in Window : pushed[k] # v
    BY <1>1, <1>8, <2>1 DEF Calm, v
  <2>3. \A w \in Values : owed'[w] = IF w = v THEN 1 ELSE owed[w]
    BY <1>1, <1>2, <1>8, <2>2 DEF TypeOK
  <2>4. \A s \in Pushers : pushing'[s] = IF s = t THEN NoValue ELSE pushing[s]
    BY <1>1 DEF TypeOK
  <2>5. \A k \in Window : pushed'[k] = pushed[k] /\ k # n
    BY <1>3, <1>4, <1>5
  <2>6. \A w \in Values : owed'[w] > 0 =>
          owed'[w] = 1 /\ \E k \in Window' : pushed'[k] = w /\ k \notin ended'
    <3> SUFFICES ASSUME NEW w \in Values, owed'[w] > 0
                 PROVE  owed'[w] = 1 /\ \E k \in Window' : pushed'[k] = w /\ k \notin ended
      BY <1>1
    <3>1. CASE w = v
      <4>1. n \in Window' /\ pushed'[n] = w /\ n \notin ended
        BY <1>3, <1>4, <1>5, <3>1
      <4> HIDE DEF n
      <4> QED
        BY <2>3, <3>1, <4>1
    <3>2. CASE w # v
      <4>1. PICK k \in Window : owed[w] = 1 /\ pushed[k] = w /\ k \notin ended
        BY <2>1, <2>3, <3>2 DEF Calm
      <4>2. k \in Window' /\ pushed'[k] = w
        BY <1>5, <2>5, <4>1
      <4> QED
        BY <2>3, <3>2, <4>1, <4>2
    <3> QED
      BY <3>1, <3>2
  <2>7. \A k, m \in Window' : pushed'[k] = pushed'[m] => k = m
    BY <1>4, <1>5, <2>1, <2>2, <2>5 DEF Calm
  <2>8. \A s \in Pushers : pushing'[s] \notin Sloppy \cup {NoValue} =>
          pushing'[s] = pushing[s] /\ pushing[s] # v /\ pushing[s] \in Values
    BY <1>1, <1>8, <2>1, <2>4 DEF Calm, v, TypeOK
  <2>9. \A s \in Pushers : pushing'[s] \notin Sloppy \cup {NoValue} =>
          owed'[pushing'[s]] = 0 /\ \A k \in Window' : pushed'[k] # pushing'[s]
    BY <1>4, <1>5, <2>1, <2>3, <2>5, <2>8 DEF Calm
  <2>10. \A r, s \in Pushers :
          pushing'[r] = pushing'[s] /\ pushing'[s] \notin Sloppy \cup {NoValue} => r = s
    BY <2>1, <2>4 DEF Calm
  <2> QED
    BY <1>1, <2>1, <2>6, <2>7, <2>9, <2>10 DEF Calm
<1> QED
  BY <1>6, <1>7, <1>8 DEF UseInv

\* A completion finds its push, and finds it unmarked.
LEMMA CompletionIsDue ==
  ASSUME TypeOK, OrderInv, Calm, NEW v \in Values, owed[v] > 0
  PROVE  /\ Pending # 0 /\ \E j \in 0..(Pending - 1) : slots[SlotAt(j)].stamp_value = v
         /\ \A j \in 0..(Pending - 1) : FirstAt(j, v) =>
              ~slots[SlotAt(j)].signaled /\ ~slots[SlotAt(j)].faulted
<1>1. PICK k \in Window : pushed[k] = v /\ k \notin ended
  BY DEF Calm
<1>2. PICK j \in 0..(Pending - 1) : k = published + j + 1
  BY PendingPush
<1>3. slots[SlotAt(j)].stamp_value = v
  BY <1>1, <1>2, PendingPush
<1>4. Pending # 0
  BY <1>2
<1>5. ASSUME NEW i \in 0..(Pending - 1), FirstAt(i, v)
      PROVE  ~slots[SlotAt(i)].signaled /\ ~slots[SlotAt(i)].faulted
  <2>1. slots[SlotAt(i)].stamp_value = v
    BY <1>5 DEF FirstAt
  <2>2. published + i + 1 \in Window /\ pushed[published + i + 1] = v
    BY <2>1, PendingPush
  <2>3. published + i + 1 = k
    BY <1>1, <2>2 DEF Calm
  <2>4. slots[SlotAt(i)].signaled \/ slots[SlotAt(i)].faulted => published + i + 1 \in ended
    BY PendingPush
  <2> QED
    BY <1>1, <2>3, <2>4
<1> QED
  BY <1>3, <1>4, <1>5

\* A completion that ends the process, or marks nothing, is a misuse.
LEMMA MisuseUses ==
  ASSUME UseInv, Misused, pushed' = pushed, ended' = ended
  PROVE  UseInv'
<1>1. Misused'
  BY DEF Misused
<1> QED
  BY <1>1 DEF UseInv

\* A completion marks its push, and is owed no more.
LEMMA MarkUses ==
  ASSUME TypeOK, OrderInv, OrderInv', UseInv, published' \in Nat, published <= published',
         NEW v \in Values, owed[v] > 0, owed' = [owed EXCEPT ![v] = @ - 1],
         NEW j \in 0..(Pending - 1), FirstAt(j, v), ended' = ended \cup {published + j + 1},
         UNCHANGED <<pushed, dead, pushing, control, quiesced>>
  PROVE  UseInv'
<1> DEFINE n == published + j + 1
<1>1. Misused' <=> Misused
  BY DEF Misused
<1>2. published \in Nat /\ Len(pushed) \in Nat /\ n \in Window /\ Window \subseteq 1..Len(pushed)
      /\ pushed[n] = v
  BY PendingPush DEF FirstAt
<1> HIDE DEF n
<1>3. ended' \subseteq 1..Len(pushed')
  BY <1>2 DEF UseInv, n
<1>4. Window' \subseteq Window /\ \A k \in Window : k \notin ended' => k \in Window'
  <2>1. \A k \in 1..published' : k \in ended'
    BY DEF OrderInv, OnlyEndedPublished
  <2>2. Window' = (published' + 1)..Len(pushed) /\ Window = (published + 1)..Len(pushed)
    BY DEF Window
  <2>3. Window' \subseteq Window
    BY <1>2, <2>2
  <2>4. ASSUME NEW k \in Window, k \notin Window' PROVE k \in 1..published'
    <3>1. k \in (published + 1)..Len(pushed) /\ k \notin (published' + 1)..Len(pushed)
      BY <2>2, <2>4
    <3> QED
      BY <1>2, <3>1, LeftBehind
  <2> QED
    BY <2>1, <2>3, <2>4
<1>5. ASSUME ~Misused PROVE Calm'
  <2>1. Calm
    BY <1>5 DEF UseInv
  <2>2. \A w \in Values : owed'[w] = IF w = v THEN 0 ELSE owed[w]
    <3>1. owed[v] = 1
      BY <2>1 DEF Calm
    <3> QED
      BY <3>1 DEF TypeOK
  <2>3. \A w \in Values : owed'[w] > 0 =>
          owed'[w] = 1 /\ \E k \in Window' : pushed'[k] = w /\ k \notin ended'
    <3> SUFFICES ASSUME NEW w \in Values, owed'[w] > 0
                 PROVE  owed'[w] = 1 /\ \E k \in Window' : pushed[k] = w /\ k \notin ended'
      OBVIOUS
    <3>1. w # v
      BY <2>2
    <3>2. PICK k \in Window : owed[w] = 1 /\ pushed[k] = w /\ k \notin ended
      BY <2>1, <2>2, <3>1 DEF Calm
    <3>3. k # n
      BY <1>2, <3>1, <3>2
    <3>4. k \notin ended'
      BY <3>2, <3>3 DEF n
    <3> QED
      BY <1>4, <2>2, <3>1, <3>2, <3>4
  <2>4. \A k, m \in Window' : pushed'[k] = pushed'[m] => k = m
    BY <1>4, <2>1 DEF Calm
  <2>5. \A t \in Pushers : pushing'[t] \notin Sloppy \cup {NoValue} =>
          owed'[pushing'[t]] = 0 /\ \A k \in Window' : pushed'[k] # pushing'[t]
    <3>1. \A t \in Pushers : pushing[t] \notin Sloppy \cup {NoValue} => pushing[t] \in Values
      BY DEF TypeOK
    <3> QED
      BY <1>4, <2>1, <2>2, <3>1 DEF Calm
  <2> QED
    BY <2>1, <2>3, <2>4, <2>5 DEF Calm
<1> QED
  BY <1>1, <1>3, <1>5 DEF UseInv

\* signal_stamp and fault_stamp.
LEMMA CompletionUses ==
  ASSUME TypeOK, OrderInv, TypeOK', OrderInv', UseInv, NEW v \in Values,
         signal_stamp(v) \/ fault_stamp(v)
  PROVE  UseInv'
<1>1. owed[v] > 0 /\ owed' = [owed EXCEPT ![v] = @ - 1] /\ published' \in Nat
  BY DEF signal_stamp, fault_stamp, CompleteStamp, TypeOK
<1>2. CASE Misused
  <2>1. pushed' = pushed
    BY DEF signal_stamp, fault_stamp, CompleteStamp, Die, history
  <2>2. Misused' /\ Window \subseteq 1..Len(pushed)
    BY <1>2, <2>1, PendingPush DEF Misused
  <2>3. ended' = ended \/ \E j \in 0..(Pending - 1) : ended' = ended \cup {published + j + 1}
    BY DEF signal_stamp, fault_stamp, CompleteStamp, Die, history
  <2>4. \A j \in 0..(Pending - 1) : published + j + 1 \in Window
    BY PendingPush
  <2> QED
    BY <2>1, <2>2, <2>3, <2>4 DEF UseInv
<1>3. CASE ~Misused
  <2>1. Calm
    BY <1>3 DEF UseInv
  <2>2. /\ Pending # 0 /\ \E j \in 0..(Pending - 1) : slots[SlotAt(j)].stamp_value = v
        /\ \A j \in 0..(Pending - 1) : FirstAt(j, v) =>
             ~slots[SlotAt(j)].signaled /\ ~slots[SlotAt(j)].faulted
    BY <1>1, <2>1, CompletionIsDue
  <2>3. PICK j \in 0..(Pending - 1) :
          /\ FirstAt(j, v) /\ ended' = ended \cup {published + j + 1}
          /\ \/ \E sl : Pump(sl, faulted, quiesced, {})
             \/ UNCHANGED <<quiesced, published>>
          /\ UNCHANGED <<pushing, control, dead, pushed>>
    BY <2>2, Zenon DEF signal_stamp, fault_stamp, CompleteStamp
  <2>4. published <= published' /\ quiesced' = quiesced
    <3>1. published <= published
      BY DEF TypeOK
    <3> QED
      BY <2>3, <3>1, PumpForward
  <2> QED
    BY <1>1, <2>3, <2>4, MarkUses
<1> QED
  BY <1>2, <1>3

\* A new queue has been used by nobody.
LEMMA InitUses == Init => UseInv
<1> SUFFICES ASSUME Init PROVE UseInv
  OBVIOUS
<1>1. Window = {} /\ ended = {}
  BY DEF Init, Window
<1> QED
  BY <1>1 DEF Init, UseInv, Calm

\* Every step keeps what the callers' discipline says of the stamps in use.
LEMMA NextUses == TypeOK /\ OrderInv /\ UseInv /\ [Next]_vars => UseInv'
<1> SUFFICES ASSUME TypeOK, OrderInv, UseInv, [Next]_vars
             PROVE  UseInv'
  OBVIOUS
<1>1. TypeOK' /\ OrderInv'
  BY NextKeeps
<1>2. published' \in Nat /\ published <= published /\ quiesced \in BOOLEAN
  BY <1>1 DEF TypeOK
<1>3. ~Misused => \A d \in Drainers : control[d] # "idle" => quiesced
  BY DEF UseInv, Calm
<1>4. ASSUME NEW t \in Pushers, NEW v \in Values, CallPush(t, v) PROVE UseInv'
  BY <1>4, CallPushUses
<1>5. ASSUME NEW t \in Pushers, push_stamp(t) PROVE UseInv'
  BY <1>5, PushUses
<1>6. ASSUME NEW v \in Values, signal_stamp(v) \/ fault_stamp(v) PROVE UseInv'
  BY <1>1, <1>6, CompletionUses
<1>7. ASSUME NEW t \in Pushers, WaitForRoom(t) PROVE UseInv'
  <2>1. UNCHANGED <<published, quiesced, control, pushed, dead, owed, ended, pushing>>
    BY <1>7 DEF WaitForRoom, queue, history
  <2> QED
    BY <1>1, <1>2, <1>3, <2>1, UseFrame
<1>8. CASE resume_from_fault
  <2>1. UNCHANGED <<control, pushed, dead, owed, ended, pushing>>
    BY <1>8 DEF resume_from_fault
  <2>2. \E sl, latch : Pump(sl, latch, quiesced, {})
    BY <1>8, Zenon DEF resume_from_fault
  <2>3. published <= published' /\ quiesced' = quiesced
    BY <2>2, PumpForward
  <2> QED
    BY <1>1, <1>2, <1>3, <2>1, <2>3, UseFrame
<1>9. ASSUME NEW d \in Drainers, quiesce(d) PROVE UseInv'
  <2>1. UNCHANGED <<pushed, dead, owed, ended, pushing>> /\ Pump(slots, faulted, TRUE, {})
    BY <1>9 DEF quiesce
  <2>2. published <= published' /\ quiesced' = TRUE
    BY <2>1, PumpForward
  <2> QED
    BY <1>1, <1>2, <2>1, <2>2, UseFrame
<1>10. ASSUME NEW d \in Drainers, drain(d) PROVE UseInv'
  <2>1. control[d] = "quiesced"
    BY <1>10 DEF drain
  <2>2. CASE Misused
    <3>1. pushed' = pushed /\ ended' = ended
      BY <1>10 DEF drain, Die, history
    <3> QED
      BY <2>2, <3>1, MisuseUses
  <2>3. CASE ~Misused
    <3>1. quiesced
      BY <1>3, <2>1, <2>3
    <3>2. UNCHANGED <<pushed, dead, owed, ended, pushing>> /\ Pump(slots, faulted, TRUE, {d})
      BY <1>10, <3>1 DEF drain
    <3>3. published <= published' /\ quiesced' = TRUE
      BY <3>2, PumpForward
    <3> QED
      BY <1>1, <1>2, <3>2, <3>3, UseFrame
  <2> QED
    BY <2>2, <2>3
<1>11. ASSUME NEW d \in Drainers, WaitForDrained(d) PROVE UseInv'
  <2>1. UNCHANGED <<published, quiesced, control, pushed, dead, owed, ended, pushing>>
    BY <1>11 DEF WaitForDrained, queue, history
  <2> QED
    BY <1>1, <1>2, <1>3, <2>1, UseFrame
<1>12. ASSUME NEW d \in Drainers, DrainReturns(d) PROVE UseInv'
  <2>1. /\ UNCHANGED <<published, quiesced, pushed, dead, owed, ended, pushing>>
        /\ control' = [control EXCEPT ![d] = "idle"]
    BY <1>12 DEF DrainReturns, queue, history
  <2>2. \A e \in Drainers : control'[e] # "idle" => control[e] # "idle"
    BY <2>1 DEF TypeOK
  <2> QED
    BY <1>1, <1>2, <1>3, <2>1, <2>2, UseFrame
<1>13. CASE clear_quiesced
  <2>1. UNCHANGED <<published, control, pushed, dead, owed, ended, pushing>>
    BY <1>13 DEF clear_quiesced, threads, history
  <2>2. ~Misused => \A d \in Drainers : control[d] = "idle"
    BY <1>13 DEF clear_quiesced
  <2> QED
    BY <1>1, <1>2, <2>1, <2>2, UseFrame
<1>14. CASE UNCHANGED vars
  <2>1. UNCHANGED <<published, quiesced, control, pushed, dead, owed, ended, pushing>>
    BY <1>14 DEF vars, queue, threads, history
  <2> QED
    BY <1>1, <1>2, <1>3, <2>1, UseFrame
<1> QED
  BY <1>4, <1>5, <1>6, <1>7, <1>8, <1>9, <1>10, <1>11, <1>12, <1>13, <1>14 DEF Next

\* No fatal check of the queue fires while its callers keep to their side: every
\* completion finds its push pending and unmarked, every drain a quiesced queue.
THEOREM StampQueueNeverDies == Spec => []NoDeath
<1>1. Spec => [](TypeOK /\ OrderInv /\ UseInv)
  BY InitKeeps, NextKeeps, InitUses, NextUses, PTL DEF Spec
<1>2. UseInv => NoDeath
  BY DEF UseInv, Calm, NoDeath
<1> QED
  BY <1>1, <1>2, PTL
=============================================================================
