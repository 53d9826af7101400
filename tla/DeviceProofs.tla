---------------------------- MODULE DeviceProofs ----------------------------
(***************************************************************************)
(* Proofs about the device, for every number of children, tasks, commands,  *)
(* threads and calls.                                                       *)
(*                                                                          *)
(* Its FIFOs and its lifecycle (DeviceFifos): as long as no suspend has met  *)
(* a define and no FifoEnable write a pause or a suspend (Orderly), no call  *)
(* meets a fatal check, a fault that is shown is announced, and a paused or  *)
(* suspended device is still.  The code lets both meetings happen, and each  *)
(* may end the process: what is proved is that nothing else does.           *)
(*                                                                          *)
(* Its root task (RootMappings): the allocator's list is canonical and its  *)
(* answers are first fit's, the address space is partitioned, and the host  *)
(* has mapped what the mappings cover.  These hold where no sum of an       *)
(* address and a length wraps (NoWrap), as none does at the code's widths.  *)
(***************************************************************************)
EXTENDS DeviceFifos, RootMappings, ModularCounters, SequenceTheorems, FiniteSetTheorems

\* The types, by what they are of.
FifoTyped ==
  /\ present \subseteq Fifos /\ node_running \subseteq Children
  /\ running \subseteq Fifos /\ quiesced \subseteq Fifos
  /\ head \in [Fifos -> {"none", "busy", "faulted"}] /\ latch \subseteq Fifos
  /\ fault_offset \subseteq Fifos /\ reporting \subseteq Fifos
SignalTyped ==
  /\ fault_mask \subseteq Fifos /\ interrupt_stamp \subseteq Fifos
  /\ signal_mutex \in {"free", "stamp", "report", "resume"}
  /\ irq \in BOOLEAN
Blocks == {Report(f) : f \in Fifos} \cup {Sync(a) : a \in Actors}
QueueTyped == fifo_q \in Seq(Blocks)
ControlTyped ==
  /\ pc \in [Actors -> HostPCs \cup GuestPCs \cup RootPCs]
  /\ pc["host"] \in HostPCs /\ pc["guest"] \in GuestPCs /\ pc["root"] \in RootPCs
  /\ at \in [Actors -> Fifos] /\ remaining \in 0..Tasks
RestTyped ==
  /\ run_state \in RunStates /\ stamp_memory \in BOOLEAN /\ blob \in Blob
  /\ commands \in 0..MaxCommands /\ calls \in 0..MaxCalls

Typed == FifoTyped /\ SignalTyped /\ QueueTyped /\ ControlTyped /\ RestTyped

\* A FIFO that neither runs nor has anything pending; one taken out but not yet drained.
Still(f) == f \notin running /\ head[f] = "none" /\ f \notin reporting
Deleting(a, f) == pc[a] \in {"stop", "drain"} /\ at[a] = f
BeingDeleted(f) == Deleting("guest", f) \/ Deleting("root", f)

\* The FIFOs out of their slots are still, or on their way; and none is in without the root.
SlotInv ==
  /\ \A f \in Fifos \ present : Still(f) \/ BeingDeleted(f)
  /\ \A a \in {"guest", "root"} : pc[a] \in {"stop", "drain"} => at[a] \notin present
  /\ \A a \in {"guest", "root"} : pc[a] = "drain" => at[a] \in quiesced
  /\ stamp_memory <=> Root \in present
  /\ Root \in present \/ (present = {} /\ Root \notin fault_offset)

\* What runs in guest memory's nodes is in its slot, but between a suspend and its resume.
Away == {"f_child", "f_root", "serialize", "suspended", "resume", "r_children"}
NodeInv ==
  /\ pc["host"] \in Away \/ \A c \in node_running :
       c \in present \/ \E a \in {"guest", "root"} : pc[a] = "stop" /\ at[a] = c
  /\ \/ Root \in present \/ node_running = {}
     \/ pc["host"] \in {"suspended", "resume"} /\ blob.root

\* The root's thread works for a command of its own, on a child.
RootInv ==
  pc["root"] # "idle" => Root \in running /\ at["root"] \in Children

\* No FifoEnable write has met a call of the host's; what each has done stays done.
GuestInv ==
  /\ EnableWritten => pc["host"] = "idle"
  /\ pc["guest"] = "drain_root" => Root \in quiesced /\ at["guest"] = Root
  /\ EnableWritten /\ pc["guest"] # "drain_root" => Still(Root)
  /\ EnableWritten /\ pc["guest"] # "mask" => Root \in present
  /\ pc["guest"] \in DeletePCs => at["guest"] \in Children
  /\ pc["guest"] \in {"delete", "take"} => \A c \in present : c = Root \/ c >= at["guest"]
  /\ pc["guest"] \in {"children", "stop", "drain", "tasks", "parked", "woken"} =>
       \A c \in present : c = Root \/ c > at["guest"]
  /\ pc["guest"] = "release" => present \subseteq {Root}
  /\ pc["guest"] = "mask" => present = {}

Stopped == {"f_child", "f_root", "serialize", "suspended", "resume", "r_children", "r_run"}
HostInv ==
  /\ run_state = "Paused" => pc["host"] = "paused"
  /\ pc["host"] \in Stopped => pc["guest"] = "idle" /\ ~vCPUsRun
  /\ pc["host"] \notin {"p_children", "p_children_drain", "s_children", "f_child"} =>
       at["host"] = Root
  /\ pc["host"] \in {"p_root", "s_children", "suspending", "f_child", "f_root"} =>
       (Root \in present => Root \in quiesced)
  /\ pc["host"] \in {"s_children", "suspending", "f_child", "f_root"} => NoDefine
  /\ pc["host"] \in {"p_children", "p_children_drain"} => Still(Root)
  /\ pc["host"] \in {"p_children", "s_children"} =>
       \A c \in present : c = Root \/ c > at["host"] \/ c \in quiesced
  /\ pc["host"] \in {"p_children_drain", "suspending", "f_child"} =>
       \A c \in present : c = Root \/ c \in quiesced
  /\ pc["host"] \in {"pausing", "paused", "serialize", "suspended", "resume", "r_children"} =>
       \A f \in Fifos : Still(f)
  /\ pc["host"] \in {"f_root", "serialize"} => present \subseteq {Root}
  /\ pc["host"] \in {"suspended", "resume"} => present = {}

\* Who has the FIFO queue, and that a report in progress has set its bit.
HeadIsOf(a) == fifo_q # << >> /\ Head(fifo_q) = Sync(a)
TurnInv ==
  /\ signal_mutex = "report" => fifo_q # << >> /\ Head(fifo_q).kind = "report"
  /\ pc["guest"] \in {"clear", "pump"} => HeadIsOf("guest")
  /\ pc["host"] = "u_root" => HeadIsOf("host")

\* A fault shown is in the mask, or its report is on its way and has not begun, or the guest's
\* resume is about to clear it.
Coming(f) == \E i \in DOMAIN fifo_q : fifo_q[i] = Report(f) /\ (i = 1 => signal_mutex # "report")
FaultInv ==
  \A f \in present \cap fault_offset :
    \/ f \in fault_mask \/ f \in reporting \/ Coming(f)
    \/ pc["guest"] = "clear" /\ at["guest"] = f

\* Whoever drains a FIFO found it quiesced, and past its thread's exit nobody starts it again.
InDrain == {"p_root", "p_children_drain", "f_child", "f_root", "drain_root", "drain"}
Past    == {"stamps", "parked", "woken"}
DrainInv ==
  /\ draining \in [Actors -> DrainPlaces]
  /\ \A a \in Actors : draining[a] # "no" => pc[a] \in InDrain /\ at[a] \in quiesced
  /\ \A a \in Actors : draining[a] \in Past => at[a] \notin running

\* The children behind the host's drains: those of a pause are still, those of a suspend gone.
HostDrains(c) == c = at["host"] /\ draining["host"] # "no"
WalkInv ==
  /\ pc["host"] = "p_children_drain" =>
       \A c \in present : c > at["host"] \/ Still(c) \/ HostDrains(c)
  /\ pc["host"] = "f_child" =>
       \A c \in present : c = Root \/ c > at["host"] \/ HostDrains(c)
  /\ pc["host"] = "f_child" /\ draining["host"] # "no" => at["host"] \in Children

IInv ==
  /\ Typed /\ SlotInv /\ NodeInv /\ RootInv /\ GuestInv /\ HostInv /\ TurnInv /\ FaultInv
  /\ DrainInv /\ WalkInv /\ dead = "no"

-----------------------------------------------------------------------------
(* Constants and the FIFO queue *)

\* The ids: the root's is not a child's, and all are numbers.
LEMMA Ids ==
  /\ Root \in Fifos /\ Root \notin Children /\ Children \subseteq Fifos /\ Fifos \subseteq Nat
  /\ \A c \in Children : c > Root
  /\ \A f \in Fifos : f = Root \/ f \in Children
  /\ Tasks \in Nat /\ MaxCommands \in Nat /\ MaxCalls \in Nat
  BY DeviceFifosAssumption DEF Root, Fifos

\* The first of some FIFOs is one of them, and none comes before it.
LEMMA FirstIs ==
  ASSUME NEW S \in SUBSET Fifos, S # {}
  PROVE  First(S) \in S /\ \A g \in S : First(S) <= g
<1>1. S \in SUBSET Nat
  BY Ids
<1>2. PICK x \in S : \A y \in S : ~(y < x)
  BY <1>1, LeastElement
<1>3. \A g \in S : x <= g
  BY <1>1, <1>2
<1> QED
  BY <1>3 DEF First

\* A block added to the end of the queue leaves what comes before it.
LEMMA Added ==
  ASSUME QueueTyped, NEW x \in Blocks, fifo_q' = Append(fifo_q, x)
  PROVE  /\ QueueTyped' /\ fifo_q' # << >>
         /\ fifo_q # << >> => Head(fifo_q') = Head(fifo_q)
         /\ TurnInv /\ signal_mutex' = signal_mutex =>
              \A f \in Fifos : Coming(f) \/ x = Report(f) => Coming(f)'
<1>1. /\ fifo_q' \in Seq(Blocks) /\ Len(fifo_q') = Len(fifo_q) + 1 /\ Len(fifo_q) \in Nat
      /\ \A i \in 1..Len(fifo_q) : fifo_q'[i] = fifo_q[i]
      /\ fifo_q'[Len(fifo_q) + 1] = x
  BY AppendProperties, LenProperties DEF QueueTyped
<1>2. DOMAIN fifo_q = 1..Len(fifo_q) /\ DOMAIN fifo_q' = 1..(Len(fifo_q) + 1)
  BY <1>1, LenProperties DEF QueueTyped
<1>3. fifo_q' # << >> /\ (fifo_q # << >> => Head(fifo_q') = Head(fifo_q))
  BY <1>1 DEF QueueTyped
<1>4. ASSUME TurnInv, signal_mutex' = signal_mutex, NEW f \in Fifos, Coming(f) \/ x = Report(f)
      PROVE  Coming(f)'
  <2>1. CASE Coming(f)
    <3>1. PICK i \in DOMAIN fifo_q : fifo_q[i] = Report(f) /\ (i = 1 => signal_mutex # "report")
      BY <2>1 DEF Coming
    <3>2. i \in DOMAIN fifo_q' /\ fifo_q'[i] = Report(f)
      BY <1>1, <1>2, <3>1
    <3> QED
      BY <1>4, <3>1, <3>2 DEF Coming
  <2>2. CASE x = Report(f)
    <3>1. Len(fifo_q) + 1 = 1 => fifo_q = << >>
      BY <1>1 DEF QueueTyped
    <3>2. Len(fifo_q) + 1 = 1 => signal_mutex # "report"
      BY <1>4, <3>1 DEF TurnInv
    <3>3. Len(fifo_q) + 1 \in DOMAIN fifo_q' /\ fifo_q'[Len(fifo_q) + 1] = Report(f)
      BY <1>1, <1>2, <2>2
    <3> QED
      BY <1>4, <3>2, <3>3 DEF Coming
  <2> QED
    BY <1>4, <2>1, <2>2
<1> QED
  BY <1>1, <1>3, <1>4 DEF QueueTyped

\* A block that ends leaves the reports behind it; it was no report, or its bit is set.
LEMMA Left ==
  ASSUME QueueTyped, fifo_q # << >>, fifo_q' = Tail(fifo_q)
  PROVE  /\ QueueTyped' /\ Head(fifo_q) \in Blocks
         /\ \A f \in Fifos :
              /\ Coming(f) /\ signal_mutex' # "report"
              /\ Head(fifo_q) # Report(f) \/ signal_mutex = "report"
              => Coming(f)'
<1>1. /\ Tail(fifo_q) \in Seq(Blocks) /\ Len(Tail(fifo_q)) = Len(fifo_q) - 1
      /\ Len(fifo_q) \in Nat /\ Len(fifo_q) >= 1 /\ Head(fifo_q) = fifo_q[1]
      /\ fifo_q[1] \in Blocks
      /\ \A i \in 1..(Len(fifo_q) - 1) : Tail(fifo_q)[i] = fifo_q[i + 1]
  BY HeadTailProperties, LenProperties DEF QueueTyped
<1>2. DOMAIN fifo_q = 1..Len(fifo_q) /\ DOMAIN Tail(fifo_q) = 1..(Len(fifo_q) - 1)
  BY <1>1, LenProperties DEF QueueTyped
<1>3. ASSUME NEW f \in Fifos, Coming(f), signal_mutex' # "report",
             Head(fifo_q) # Report(f) \/ signal_mutex = "report"
      PROVE  Coming(f)'
  <2>1. PICK i \in DOMAIN fifo_q : fifo_q[i] = Report(f) /\ (i = 1 => signal_mutex # "report")
    BY <1>3 DEF Coming
  <2>2. i # 1
    BY <1>1, <1>3, <2>1
  <2>3. i - 1 \in DOMAIN fifo_q' /\ fifo_q'[i - 1] = Report(f)
    BY <1>1, <1>2, <2>1, <2>2
  <2> QED
    BY <1>3, <2>3 DEF Coming
<1> QED
  BY <1>1, <1>3 DEF QueueTyped

\* A sync block is no report.
LEMMA Kinds ==
  /\ \A f \in Fifos : Report(f) \in Blocks /\ Report(f).kind = "report" /\ Report(f).of = f
  /\ \A a \in Actors : Sync(a) \in Blocks /\ Sync(a).kind = "sync" /\ Sync(a).of = a
  /\ \A f, a : Report(f) # Sync(a)
  /\ \A b \in Blocks : b.kind = "report" => b.of \in Fifos /\ b = Report(b.of)
  /\ "host" \in Actors /\ "guest" \in Actors /\ "root" \in Actors
  BY DEF Report, Sync, Blocks, Actors

-----------------------------------------------------------------------------
(* What the parts of several actions do *)

\* A FIFO with something to do is in its slot or being deleted, and the root FIFO is in its slot
\* with the stamp memory mapped: a completion may write its stamp.
LEMMA Alive ==
  ASSUME IInv, NEW f \in Fifos, ~Still(f)
  PROVE  /\ Root \in present /\ stamp_memory
         /\ f \in present \/ BeingDeleted(f)
         /\ f = Root => f \in present
<1> USE Ids
<1>1. ~Still(Root) => Root \in present
  BY DEF IInv, SlotInv, BeingDeleted, Deleting, RootInv, GuestInv, DeletePCs
<1>2. pc["root"] # "idle" => Root \in present
  BY <1>1 DEF IInv, RootInv, Still
<1>3. f \in present \/ BeingDeleted(f)
  BY DEF IInv, SlotInv
<1>4. f \in present => Root \in present
  BY DEF IInv, SlotInv
<1>5. BeingDeleted(f) => Root \in present
  BY <1>2 DEF BeingDeleted, Deleting, IInv, GuestInv, EnableWritten, TearingDown
<1> QED
  BY <1>1, <1>3, <1>4, <1>5 DEF IInv, SlotInv

\* While the root's thread is in a command, the root FIFO runs: nobody has drained it.
LEMMA RootWorks ==
  ASSUME IInv, pc["root"] # "idle"
  PROVE  /\ Root \in present /\ Root \in running /\ ~Still(Root)
         /\ pc["guest"] \notin DeletePCs \cup {"children", "release", "mask"}
         /\ pc["host"] \notin {"p_children", "p_children_drain", "pausing", "paused", "serialize",
                               "suspended", "resume", "r_children"}
<1>1. Root \in running /\ ~Still(Root)
  BY DEF IInv, RootInv, Still
<1>2. Root \in present
  BY <1>1, Ids, Alive
<1> QED
  BY <1>1, <1>2, Ids DEF IInv, GuestInv, EnableWritten, TearingDown, DeletePCs, HostInv

\* What others' steps may do to the drains: wake one, or let its thread exit.
SameDrains ==
  /\ draining' \in [Actors -> DrainPlaces]
  /\ \A a \in Actors :
       /\ draining'[a] = "no" <=> draining[a] = "no"
       /\ draining'[a] \in Past => draining[a] \in Past \/ at[a] \notin running'

LEMMA DrainsUnchanged ==
  ASSUME IInv, draining' = draining
  PROVE  SameDrains
  BY DEF IInv, DrainInv, SameDrains

\* A pump's wake-up.
LEMMA OneNotified ==
  ASSUME IInv, NEW f \in Fifos, NEW d \in Notified(f)
  PROVE  /\ d \in [Actors -> DrainPlaces]
         /\ \A a \in Actors : (d[a] = "no" <=> draining[a] = "no") /\ (d[a] \in Past <=> draining[a] \in Past)
<1>1. CASE d = draining
  BY <1>1 DEF IInv, DrainInv
<1>2. CASE \E a \in Parked(f) : d = [draining EXCEPT ![a] = "woken"]
  <2>1. PICK a \in Parked(f) : d = [draining EXCEPT ![a] = "woken"]
    BY <1>2
  <2>2. a \in Actors /\ draining[a] = "parked"
    BY DEF Parked
  <2> QED
    BY <2>1, <2>2 DEF IInv, DrainInv, DrainPlaces, Past
<1> QED
  BY <1>1, <1>2 DEF Notified

LEMMA NotifiedDrains ==
  ASSUME IInv, NEW f \in Fifos, draining' \in Notified(f)
  PROVE  SameDrains
  BY OneNotified DEF SameDrains

\* Steps that leave whoever drains where he is, and start nothing that is being drained.
LEMMA DrainsStay ==
  ASSUME IInv, SameDrains, running' \cap quiesced' \subseteq running,
         \A a \in Actors : draining[a] # "no" =>
           pc'[a] = pc[a] /\ at'[a] = at[a] /\ at[a] \in quiesced'
  PROVE  DrainInv'
<1>1. Past \subseteq DrainPlaces \ {"no"}
  BY DEF Past, DrainPlaces
<1>2. \A a \in Actors : draining'[a] # "no" => pc'[a] \in InDrain /\ at'[a] \in quiesced'
  BY DEF IInv, DrainInv, SameDrains
<1>3. ASSUME NEW a \in Actors, draining'[a] \in Past PROVE at'[a] \notin running'
  <2>1. draining[a] # "no" /\ at'[a] = at[a] /\ at[a] \in quiesced'
    BY <1>1, <1>3 DEF SameDrains
  <2> QED
    BY <1>3, <2>1 DEF IInv, DrainInv, SameDrains
<1> QED
  BY <1>2, <1>3 DEF DrainInv, SameDrains

\* The same, of a step of the guest or of the root's thread that does not drain.
LEMMA OthersDrain ==
  ASSUME IInv, SameDrains, NEW b \in {"guest", "root"}, draining[b] = "no" \/ UNCHANGED <<pc, at>>,
         \A a \in Actors \ {b} : pc'[a] = pc[a] /\ at'[a] = at[a],
         quiesced \subseteq quiesced', running' \subseteq running,
         \A g \in Fifos : Still(g) => Still(g)', present' \subseteq present
  PROVE  DrainInv' /\ WalkInv'
<1>1. DrainInv'
  <2>1. \A a \in Actors : draining[a] # "no" =>
          pc'[a] = pc[a] /\ at'[a] = at[a] /\ at[a] \in quiesced'
    BY DEF IInv, DrainInv
  <2> QED
    BY <2>1, DrainsStay
<1>2. WalkInv'
  <2>1. "host" \in Actors \ {b} /\ present \subseteq Fifos
    BY Kinds DEF IInv, Typed, FifoTyped
  <2> QED
    BY <2>1 DEF IInv, WalkInv, HostDrains, SameDrains
<1> QED
  BY <1>1, <1>2

\* A step of the host's that does not drain, but for the children behind its walk.
LEMMA HostDrainsNot ==
  ASSUME IInv, SameDrains, pc["host"] \notin InDrain \/ draining["host"] = "no",
         \A a \in Actors \ {"host"} : pc'[a] = pc[a] /\ at'[a] = at[a],
         quiesced \subseteq quiesced', running' \subseteq running
  PROVE  DrainInv' /\ (pc'["host"] \notin {"p_children_drain", "f_child"} => WalkInv')
<1>1. \A a \in Actors : draining[a] # "no" =>
        pc'[a] = pc[a] /\ at'[a] = at[a] /\ at[a] \in quiesced'
  BY DEF IInv, DrainInv
<1>2. DrainInv'
  BY <1>1, DrainsStay
<1> QED
  BY <1>2 DEF WalkInv

\* signal_stamp, of a FIFO with a command pending.
LEMMA Stamps ==
  ASSUME IInv, NEW f \in Fifos, ~Still(f), signal_stamp(f)
  PROVE  /\ dead' = "no" /\ interrupt_stamp' \subseteq Fifos
         /\ signal_mutex = "free" /\ signal_mutex' = "stamp"
  BY Alive DEF signal_stamp, IInv, Typed, SignalTyped

\* Fifo::quiesce: a still FIFO stays so, and nobody dies.
LEMMA Quiesces ==
  ASSUME IInv, NEW f \in Fifos, quiesce(f)
  PROVE  /\ dead' = "no" /\ interrupt_stamp' \subseteq Fifos
         /\ head' \in [Fifos -> {"none", "busy", "faulted"}]
         /\ quiesced' = quiesced \cup {f} /\ running' = running
         /\ latch' = latch /\ fault_offset' = fault_offset /\ reporting' = reporting
         /\ fault_mask' = fault_mask /\ irq' = irq
         /\ \/ signal_mutex' = signal_mutex
            \/ signal_mutex = "free" /\ signal_mutex' = "stamp"
         /\ SameDrains /\ \A g \in Fifos : Still(g) => Still(g)'
<1>0. SameDrains
  BY DrainsUnchanged, NotifiedDrains DEF quiesce
<1>1. CASE head[f] = "faulted"
  <2>1. ~Still(f)
    BY <1>1 DEF Still
  <2>2. signal_stamp(f) /\ HeadIs(f, "none")
    BY <1>1 DEF quiesce
  <2>3. /\ dead' = "no" /\ interrupt_stamp' \subseteq Fifos
        /\ signal_mutex = "free" /\ signal_mutex' = "stamp"
    BY <2>1, <2>2, Stamps
  <2> QED
    BY <1>0, <2>2, <2>3 DEF quiesce, HeadIs, Still, IInv, Typed, FifoTyped
<1>2. CASE head[f] # "faulted"
  BY <1>0, <1>2 DEF quiesce, Still, IInv, Typed, FifoTyped, SignalTyped
<1> QED
  BY <1>1, <1>2

\* Fifo::drain returns when the FIFO is still.
Returned(a) ==
  /\ draining' \in [Actors -> DrainPlaces] /\ draining'[a] = "no"
  /\ \A b \in Actors \ {a} :
       /\ draining'[b] = "no" <=> draining[b] = "no"
       /\ draining'[b] \in Past => draining[b] \in Past
LEMMA DrainEnds ==
  ASSUME IInv, NEW a \in Actors, at[a] \in Fifos, DrainReturns(a, at[a])
  PROVE  Still(at[a]) /\ dead' = "no" /\ draining[a] \in Past /\ Returned(a)
<1>1. draining[a] \in Past /\ Still(at[a]) /\ dead' = "no"
  BY DEF DrainReturns, Past, QueueFree, Still, IInv, DrainInv
<1>2. CASE DrainIs(a, "no")
  <2>1. draining \in [Actors -> DrainPlaces] /\ draining' = [draining EXCEPT ![a] = "no"]
    BY <1>2 DEF DrainIs, IInv, DrainInv
  <2>2. draining'[a] = "no" /\ \A b \in Actors \ {a} : draining'[b] = draining[b]
    BY <2>1
  <2>3. draining' \in [Actors -> DrainPlaces]
    BY <2>1 DEF DrainPlaces
  <2> QED
    BY <1>1, <2>2, <2>3 DEF Returned
<1>3. CASE \E d \in Notified(at[a]) : draining' = [d EXCEPT ![a] = "no"]
  <2>1. PICK d \in Notified(at[a]) : draining' = [d EXCEPT ![a] = "no"]
    BY <1>3
  <2>2. /\ d \in [Actors -> DrainPlaces]
        /\ \A b \in Actors : (d[b] = "no" <=> draining[b] = "no") /\ (d[b] \in Past <=> draining[b] \in Past)
    BY OneNotified
  <2>3. draining'[a] = "no" /\ \A b \in Actors \ {a} : draining'[b] = d[b]
    BY <2>1, <2>2
  <2>4. draining' \in [Actors -> DrainPlaces]
    BY <2>1, <2>2 DEF DrainPlaces
  <2> QED
    BY <1>1, <2>2, <2>3, <2>4 DEF Returned
<1> QED
  BY <1>1, <1>2, <1>3 DEF DrainReturns

\* After a return, whoever else drains is where he was.
LEMMA DrainsAfter ==
  ASSUME IInv, NEW a \in Actors, Returned(a), UNCHANGED <<running, quiesced>>,
         \A b \in Actors \ {a} : pc'[b] = pc[b] /\ at'[b] = at[b]
  PROVE  DrainInv'
<1>1. Past \subseteq DrainPlaces \ {"no"}
  BY DEF Past, DrainPlaces
<1> QED
  BY <1>1 DEF IInv, DrainInv, Returned

\* A drain of a quiesced FIFO that goes on: nobody dies, and nothing else happens.
LEMMA DrainWaiting ==
  ASSUME IInv, NEW a \in Actors, NEW f \in Fifos, f \in quiesced, draining[a] = "no" \/ at[a] = f,
         DrainGoesOn(a, f), at'[a] = f, pc[a] \in InDrain,
         \A b \in Actors \ {a} : at'[b] = at[b], UNCHANGED <<pc, running, quiesced>>
  PROVE  dead' = "no" /\ DrainInv' /\ draining'[a] # "no"
         /\ \A b \in Actors \ {a} : draining'[b] = draining[b]
<1>1. CASE EntersDrain(a, f)
  <2>1. /\ dead' = "no" /\ draining[a] = "no"
        /\ draining' = [draining EXCEPT ![a] = IF f \in running THEN "exit" ELSE "stamps"]
    BY <1>1 DEF EntersDrain, DrainIs, IInv
  <2> QED
    BY <2>1 DEF IInv, DrainInv, DrainPlaces, Past
<1>2. CASE DrainWaits(a, f)
  <2>1. /\ dead' = "no" /\ draining[a] \in Past /\ draining' = [draining EXCEPT ![a] = "parked"]
    BY <1>2 DEF DrainWaits, DrainIs, IInv, Past
  <2>2. draining[a] # "no" /\ at[a] = f
    BY <2>1 DEF Past
  <2> QED
    BY <2>1, <2>2 DEF IInv, DrainInv, DrainPlaces, Past
<1> QED
  BY <1>1, <1>2 DEF DrainGoesOn

\* The rest of the invariant then stays too.
LEMMA WaitingKeeps ==
  ASSUME IInv, NEW a \in Actors, NEW f \in Fifos, f \in quiesced, draining[a] = "no" \/ at[a] = f,
         DrainGoesOn(a, f), pc[a] \in InDrain, pc' = pc,
         \/ at' = at /\ at[a] = f
         \/ /\ a = "host" /\ pc["host"] \in {"p_children_drain", "f_child"}
            /\ at' = [at EXCEPT !["host"] = f] /\ \A c \in present : c > f \/ c = f \/ ~(c > at["host"]),
         draining["host"] = "no" \/ at' = at, a = "host" /\ pc["host"] = "f_child" => f \in Children,
         UNCHANGED <<Outside, fifo, interrupts, fifo_q, remaining, counts>>
  PROVE  IInv'
<1> USE Ids, Kinds
<1>1. /\ at'[a] = f /\ at' \in [Actors -> Fifos]
      /\ \A b \in Actors \ {a} : at'[b] = at[b]
      /\ at'["guest"] = at["guest"] /\ at'["root"] = at["root"]
      /\ at'["host"] = at["host"] \/ pc["host"] \in {"p_children_drain", "f_child"}
  BY DEF IInv, Typed, ControlTyped
<1>2. /\ dead' = "no" /\ DrainInv' /\ draining'[a] # "no"
      /\ \A b \in Actors \ {a} : draining'[b] = draining[b]
  <2>1. UNCHANGED <<pc, running, quiesced>>
    BY DEF fifo
  <2> QED
    BY <1>1, <2>1, DrainWaiting
<1>3. Typed'
  BY <1>1 DEF Outside, fifo, interrupts, counts, IInv, Typed, FifoTyped, SignalTyped, QueueTyped,
              ControlTyped, RestTyped
<1>4. SlotInv' /\ NodeInv' /\ RootInv'
  BY <1>1 DEF Outside, fifo, IInv, SlotInv, Still, BeingDeleted, Deleting, NodeInv, RootInv
<1>5. GuestInv'
  BY <1>1 DEF fifo, IInv, GuestInv, Still, EnableWritten, TearingDown
<1>6. HostInv'
  BY <1>1 DEF Outside, fifo, IInv, HostInv, Still, vCPUsRun, NoDefine
<1>7. TurnInv' /\ FaultInv'
  BY <1>1 DEF fifo, interrupts, IInv, TurnInv, HeadIsOf, FaultInv, Coming
<1>8. WalkInv'
  <2>1. present' = present /\ (\A g \in present : Still(g) => Still(g)')
    BY DEF fifo, Still
  <2>2. CASE at' = at
    <3>1. /\ draining["host"] # "no" => draining'["host"] # "no"
          /\ a # "host" => draining'["host"] = draining["host"]
      BY <1>2
    <3> QED
      BY <1>1, <2>1, <2>2, <3>1 DEF IInv, WalkInv, HostDrains
  <2>3. CASE draining["host"] = "no" /\ at'["host"] = f /\ a = "host" /\ \A c \in present : c > f \/ c = f \/ ~(c > at["host"])
    BY <1>2, <2>1, <2>3 DEF IInv, WalkInv, HostDrains
  <2> QED
    BY <1>1, <2>2, <2>3
<1> QED
  BY <1>2, <1>3, <1>4, <1>5, <1>6, <1>7, <1>8 DEF IInv

\* The device as it is made.
LEMMA InitInv == Init => IInv
<1> SUFFICES ASSUME Init PROVE IInv
  OBVIOUS
<1> USE Ids
<1>1. Typed
  <2>1. present \subseteq Fifos /\ Root \in present
    BY DEF Init, Fifos
  <2>2. FifoTyped
    BY <2>1 DEF Init, FifoTyped, Fifos
  <2>3. irq \in BOOLEAN /\ stamp_memory \in BOOLEAN
    BY Zenon DEF Init
  <2>4. SignalTyped /\ QueueTyped
    BY <2>3 DEF Init, SignalTyped, QueueTyped
  <2>5. ControlTyped
    BY DEF Init, ControlTyped, Actors, HostPCs, GuestPCs, RootPCs
  <2>6. blob \in Blob
    BY DEF Init, Blob
  <2>7. RestTyped
    BY <2>3, <2>6 DEF Init, RestTyped, RunStates
  <2> QED
    BY <2>2, <2>4, <2>5, <2>7 DEF Typed
<1>2. Root \in present /\ present \subseteq Fifos
  BY DEF Init, Fifos
<1>3. \A a \in Actors : pc[a] = "idle" /\ at[a] = Root
  BY DEF Init
<1>4. \A f \in Fifos \ present : Still(f)
  BY DEF Init, Still
<1>5. SlotInv /\ NodeInv /\ RootInv
  BY <1>2, <1>3, <1>4 DEF Init, Actors, SlotInv, NodeInv, RootInv
<1>6. GuestInv /\ HostInv
  BY <1>2, <1>3 DEF Init, Actors, GuestInv, EnableWritten, TearingDown, DeletePCs, HostInv, Stopped
<1>7. TurnInv /\ FaultInv /\ dead = "no"
  BY <1>3 DEF Init, Actors, TurnInv, FaultInv
<1>8. DrainInv /\ WalkInv
  BY <1>3 DEF Init, Actors, DrainInv, DrainPlaces, Past, WalkInv
<1> QED
  BY <1>1, <1>5, <1>6, <1>7, <1>8 DEF IInv

-----------------------------------------------------------------------------
(* Steps of the FIFOs, of the signal lock and of the queue's reports *)

\* Steps that move no actor, slot or quiesce, and wake no FIFO that is still.
LEMMA NobodyMoves ==
  ASSUME IInv,
         UNCHANGED <<run_state, stamp_memory, blob, present, node_running, quiesced, pc, at>>,
         \A g \in Fifos : Still(g) => Still(g)',
         pc["root"] # "idle" => Root \in running',
         Root \in fault_offset' => Root \in fault_offset \/ Root \in present,
         SameDrains, running' \subseteq running
  PROVE  /\ SlotInv' /\ NodeInv' /\ RootInv' /\ GuestInv' /\ HostInv'
         /\ DrainInv' /\ WalkInv'
<1> USE Ids
<1>1. SlotInv'
  BY DEF IInv, SlotInv, BeingDeleted, Deleting
<1>2. NodeInv'
  BY DEF IInv, NodeInv, Away
<1>3. RootInv'
  BY DEF IInv, RootInv
<1>4. GuestInv'
  BY DEF IInv, GuestInv, EnableWritten, TearingDown, DeletePCs
<1>5. HostInv'
  <2>1. present \subseteq Fifos
    BY DEF IInv, Typed, FifoTyped
  <2> QED
    BY <2>1 DEF IInv, HostInv, Stopped, vCPUsRun, NoDefine
<1>6. DrainInv' /\ WalkInv'
  BY OthersDrain
<1> QED
  BY <1>1, <1>2, <1>3, <1>4, <1>5, <1>6

\* A push: the root's may be of a define or a delete, which it begins.
LEMMA PushKeeps ==
  ASSUME IInv, NEW f \in Fifos, push(f)
  PROVE  IInv'
<1> USE Ids, Kinds
<1>1. /\ f \in running /\ f \notin quiesced /\ (f = Root => pc["root"] = "idle")
      /\ HeadIs(f, "busy") /\ commands < MaxCommands /\ commands' = commands + 1
      /\ UNCHANGED <<Outside, Slots, running, quiesced, latch, fault_offset, reporting,
                     interrupts, fifo_q, waits, dead, calls, remaining>>
      /\ pc'["host"] = pc["host"] /\ pc'["guest"] = pc["guest"] /\ ControlTyped'
      /\ \/ pc' = pc /\ at' = at
         \/ f = Root /\ pc' = [pc EXCEPT !["root"] = "define"]
            /\ \E c \in Children : at' = [at EXCEPT !["root"] = c]
         \/ f = Root /\ pc' = [pc EXCEPT !["root"] = "delete"]
            /\ \E c \in Children : at' = [at EXCEPT !["root"] = c]
  BY DEF push, Idle, Goto, control, IInv, Typed, ControlTyped, RootPCs, DeletePCs
<1>2. /\ at'["host"] = at["host"] /\ at'["guest"] = at["guest"]
      /\ \/ pc'["root"] = pc["root"] /\ at'["root"] = at["root"]
         \/ f = Root /\ pc'["root"] \in {"define", "delete"} /\ at'["root"] \in Children
  BY <1>1 DEF IInv, Typed, ControlTyped
<1>3. ~Still(f) /\ \A g \in Fifos : Still(g) => Still(g)'
  BY <1>1 DEF Still, HeadIs, IInv, Typed, FifoTyped
<1>4. f = Root => Root \in present
  BY <1>3, Alive
<1>5. Typed'
  <2>1. FifoTyped'
    BY <1>1 DEF Slots, IInv, Typed, FifoTyped, HeadIs
  <2>2. SignalTyped' /\ QueueTyped'
    BY <1>1 DEF interrupts, IInv, Typed, SignalTyped, QueueTyped
  <2>3. RestTyped'
    BY <1>1 DEF Outside, IInv, Typed, RestTyped
  <2> QED
    BY <1>1, <2>1, <2>2, <2>3 DEF Typed
<1>6. SlotInv'
  BY <1>1, <1>2, <1>3 DEF IInv, SlotInv, BeingDeleted, Deleting, Slots, Outside
<1>7. NodeInv'
  BY <1>1, <1>2 DEF IInv, NodeInv, Away, Slots, Outside
<1>8. RootInv'
  BY <1>1, <1>2 DEF IInv, RootInv
<1>9. GuestInv'
  BY <1>1, <1>2, <1>3 DEF IInv, GuestInv, EnableWritten, TearingDown, DeletePCs, Slots
<1>10. HostInv'
  <2>1. present \subseteq Fifos
    BY DEF IInv, Typed, FifoTyped
  <2>2. (f = Root /\ pc["host"] \in {"s_children", "suspending", "f_child", "f_root"}) => FALSE
    BY <1>1, <1>4 DEF IInv, HostInv
  <2> QED
    BY <1>1, <1>2, <1>3, <2>1, <2>2 DEF IInv, HostInv, Stopped, vCPUsRun, NoDefine, Slots, Outside
<1>11. TurnInv' /\ FaultInv' /\ dead' = "no"
  BY <1>1, <1>2 DEF IInv, TurnInv, FaultInv, Coming, HeadIsOf, interrupts, Slots
<1>12. DrainInv' /\ WalkInv'
  <2>1. /\ SameDrains /\ quiesced' = quiesced /\ running' = running /\ present' = present
        /\ \A a \in Actors \ {"root"} : pc'[a] = pc[a] /\ at'[a] = at[a]
    BY <1>1, <1>2, DrainsUnchanged DEF waits, Slots, Actors
  <2>2. draining["root"] = "no" \/ UNCHANGED <<pc, at>>
    BY <1>1 DEF IInv, DrainInv, InDrain
  <2> QED
    BY <1>3, <2>1, <2>2, OthersDrain
<1> QED
  BY <1>5, <1>6, <1>7, <1>8, <1>9, <1>10, <1>11, <1>12 DEF IInv

\* A command completes or faults: the signal lock is taken for a stamp, or the report is due.
LEMMA CompletesKeeps ==
  ASSUME IInv, NEW f \in Fifos, Completes(f) \/ Faults(f)
  PROVE  IInv'
<1> USE Ids, Kinds
<1>1. ~Still(f) /\ (f = Root => Root \in present)
  BY Alive DEF Completes, Faults, Still
<1>2. signal_stamp(f) => /\ dead' = "no" /\ interrupt_stamp' \subseteq Fifos
                         /\ signal_mutex = "free" /\ signal_mutex' = "stamp"
  BY <1>1, Stamps
<1>3. UNCHANGED <<Outside, Slots, running, quiesced, fault_mask, irq, fifo_q, control, counts>>
  BY DEF Completes, Faults
<1>10. SameDrains
  BY DrainsUnchanged, NotifiedDrains DEF Completes, Faults, NotifyOne, waits
<1>4. \/ /\ signal_stamp(f) /\ HeadIs(f, "none") /\ UNCHANGED <<latch, fault_offset, reporting>>
      \/ /\ HeadIs(f, "faulted") /\ latch' = latch \cup {f}
         /\ \/ UNCHANGED <<fault_offset, reporting>>
            \/ fault_offset' = fault_offset \cup {f} /\ reporting' = reporting \cup {f}
         /\ UNCHANGED <<interrupt_stamp, signal_mutex, dead>>
  BY DEF Completes, Faults
<1>5. \A g \in Fifos : Still(g) => Still(g)'
  BY <1>1, <1>3, <1>4 DEF Still, HeadIs, IInv, Typed, FifoTyped
<1>6. Typed'
  <2>1. FifoTyped'
    BY <1>3, <1>4 DEF Slots, HeadIs, IInv, Typed, FifoTyped
  <2>2. SignalTyped' /\ QueueTyped'
    BY <1>2, <1>3, <1>4 DEF IInv, Typed, SignalTyped, QueueTyped
  <2>3. ControlTyped' /\ RestTyped'
    BY <1>3 DEF Outside, control, counts, IInv, Typed, ControlTyped, RestTyped
  <2> QED
    BY <2>1, <2>2, <2>3 DEF Typed
<1>7. SlotInv' /\ NodeInv' /\ RootInv' /\ GuestInv' /\ HostInv' /\ DrainInv' /\ WalkInv'
  <2>1. UNCHANGED <<run_state, stamp_memory, blob, present, node_running, quiesced, pc, at>>
    BY <1>3 DEF Outside, Slots, control
  <2>2. pc["root"] # "idle" => Root \in running'
    BY <1>3 DEF IInv, RootInv
  <2>3. Root \in fault_offset' => Root \in fault_offset \/ Root \in present
    BY <1>1, <1>4
  <2>4. running' = running
    BY <1>3
  <2> QED
    BY <1>5, <1>10, <2>1, <2>2, <2>3, <2>4, NobodyMoves
<1>8. TurnInv' /\ dead' = "no"
  BY <1>2, <1>3, <1>4 DEF IInv, TurnInv, HeadIsOf, control
<1>9. FaultInv'
  <2>1. \A g \in Fifos : Coming(g) => Coming(g)'
    BY <1>2, <1>3, <1>4 DEF Coming
  <2> QED
    BY <1>3, <1>4, <2>1 DEF IInv, Typed, FifoTyped, FaultInv, Slots, control
<1> QED
  BY <1>6, <1>7, <1>8, <1>9 DEF IInv

\* The report of a fault is queued, and a thread that was quiesced exits.
LEMMA SinkKeeps ==
  ASSUME IInv, NEW f \in Fifos, SinkReports(f) \/ ThreadExits(f)
  PROVE  IInv'
<1> USE Ids, Kinds
<1>1. UNCHANGED <<Outside, Slots, quiesced, head, latch, fault_offset, interrupts, control, dead,
                  counts>>
  BY DEF SinkReports, ThreadExits
<1>2. \/ /\ f \in reporting /\ reporting' = reporting \ {f} /\ fifo_q' = Append(fifo_q, Report(f))
         /\ running' = running
      \/ /\ (f = Root => pc["root"] = "idle") /\ running' = running \ {f}
         /\ UNCHANGED <<reporting, fifo_q>>
  BY DEF SinkReports, ThreadExits, Idle
<1>3. \A g \in Fifos : Still(g) => Still(g)'
  BY <1>1, <1>2 DEF Still
<1>4. QueueTyped' /\ \A g \in Fifos : Coming(g) \/ g \in reporting => Coming(g)' \/ g \in reporting'
  <2>1. CASE fifo_q' = Append(fifo_q, Report(f)) /\ reporting' = reporting \ {f}
    <3>1. Report(f) \in Blocks /\ signal_mutex' = signal_mutex
      BY <1>1 DEF interrupts
    <3>2. QueueTyped' /\ \A g \in Fifos : Coming(g) \/ Report(f) = Report(g) => Coming(g)'
      BY <2>1, <3>1, Added DEF IInv, Typed
    <3> QED
      BY <2>1, <3>2
  <2>2. CASE UNCHANGED <<reporting, fifo_q>>
    BY <1>1, <2>2 DEF interrupts, Coming, IInv, Typed, QueueTyped
  <2> QED
    BY <1>2, <2>1, <2>2
<1>5. Typed'
  <2>1. FifoTyped'
    BY <1>1, <1>2 DEF Slots, IInv, Typed, FifoTyped
  <2>2. SignalTyped' /\ ControlTyped' /\ RestTyped'
    BY <1>1 DEF Outside, interrupts, control, counts, IInv, Typed, SignalTyped, ControlTyped, RestTyped
  <2> QED
    BY <1>4, <2>1, <2>2 DEF Typed
<1>6. SlotInv' /\ NodeInv' /\ RootInv' /\ GuestInv' /\ HostInv' /\ DrainInv' /\ WalkInv'
  <2>1. UNCHANGED <<run_state, stamp_memory, blob, present, node_running, quiesced, pc, at>>
    BY <1>1 DEF Outside, Slots, control
  <2>2. pc["root"] # "idle" => Root \in running'
    BY <1>2 DEF IInv, RootInv
  <2>3. Root \in fault_offset' => Root \in fault_offset \/ Root \in present
    BY <1>1
  <2>4. SameDrains /\ running' \subseteq running
    <3>1. CASE draining' = draining
      BY <1>2, <3>1, DrainsUnchanged
    <3>2. CASE /\ draining' = [a \in Actors |->
                    IF draining[a] = "exit" /\ at[a] = f THEN "stamps" ELSE draining[a]]
               /\ running' = running \ {f}
      <4>1. draining' \in [Actors -> DrainPlaces]
        BY <3>2 DEF IInv, DrainInv, DrainPlaces
      <4>2. \A a \in Actors : \/ draining'[a] = draining[a]
                              \/ draining'[a] = "stamps" /\ draining[a] = "exit" /\ at[a] = f
        BY <3>2
      <4> QED
        BY <3>2, <4>1, <4>2 DEF SameDrains
    <3> QED
      BY <3>1, <3>2 DEF SinkReports, ThreadExits, waits
  <2> QED
    BY <1>3, <2>1, <2>2, <2>3, <2>4, NobodyMoves
<1>7. TurnInv'
  <2>1. fifo_q # << >> => fifo_q' # << >> /\ Head(fifo_q') = Head(fifo_q)
    BY <1>2, Added DEF IInv, Typed
  <2> QED
    BY <1>1, <2>1 DEF IInv, TurnInv, HeadIsOf, interrupts, control
<1>8. FaultInv' /\ dead' = "no"
  BY <1>1, <1>4 DEF IInv, Typed, FifoTyped, FaultInv, Slots, control, interrupts
<1> QED
  BY <1>5, <1>6, <1>7, <1>8 DEF IInv

\* A report sets its bit and holds the lock over the interrupt, which ends its block.
LEMMA ReportKeeps ==
  ASSUME IInv, signal_fault_in_fifo \/ interrupt
  PROVE  IInv'
<1> USE Ids, Kinds
<1>1. UNCHANGED <<Outside, fifo, interrupt_stamp, control, waits, dead, counts>>
  BY DEF signal_fault_in_fifo, interrupt, Outside
<1>2. \A g \in Fifos : Still(g) => Still(g)'
  BY <1>1 DEF Still, fifo
<1>3. SlotInv' /\ NodeInv' /\ RootInv' /\ GuestInv' /\ HostInv' /\ DrainInv' /\ WalkInv'
  <2>1. UNCHANGED <<run_state, stamp_memory, blob, present, node_running, quiesced, pc, at>>
    BY <1>1 DEF Outside, fifo, control
  <2>2. pc["root"] # "idle" => Root \in running'
    BY <1>1 DEF IInv, RootInv, fifo
  <2>3. Root \in fault_offset' => Root \in fault_offset \/ Root \in present
    BY <1>1 DEF fifo
  <2>4. SameDrains /\ running' = running
    BY <1>1, DrainsUnchanged DEF waits, fifo
  <2> QED
    BY <1>2, <2>1, <2>2, <2>3, <2>4, NobodyMoves
<1>4. FifoTyped' /\ ControlTyped' /\ RestTyped'
  BY <1>1 DEF Outside, fifo, control, counts, IInv, Typed, FifoTyped, ControlTyped, RestTyped
<1>5. CASE signal_fault_in_fifo
  <2>1. /\ fifo_q # << >> /\ Head(fifo_q).kind = "report" /\ signal_mutex = "free"
        /\ fault_mask' = fault_mask \cup {Head(fifo_q).of} /\ signal_mutex' = "report"
        /\ irq' = irq /\ fifo_q' = fifo_q
    BY <1>5 DEF signal_fault_in_fifo
  <2>2. Head(fifo_q) \in Blocks /\ Head(fifo_q) = fifo_q[1]
    BY <2>1, HeadTailProperties DEF IInv, Typed, QueueTyped
  <2>3. Head(fifo_q).of \in Fifos /\ fifo_q[1] = Report(Head(fifo_q).of)
    BY <2>1, <2>2
  <2>4. SignalTyped' /\ QueueTyped'
    BY <1>1, <2>1, <2>3 DEF IInv, Typed, SignalTyped, QueueTyped
  <2>5. \A g \in Fifos : Coming(g) => Coming(g)' \/ g \in fault_mask'
    <3> SUFFICES ASSUME NEW g \in Fifos, Coming(g), g \notin fault_mask' PROVE Coming(g)'
      OBVIOUS
    <3>1. PICK i \in DOMAIN fifo_q : fifo_q[i] = Report(g)
      BY DEF Coming
    <3>2. i # 1
      BY <2>1, <2>3, <3>1
    <3> QED
      BY <2>1, <3>1, <3>2 DEF Coming
  <2>6. TurnInv'
    BY <1>1, <2>1 DEF IInv, TurnInv, HeadIsOf, control
  <2>7. FaultInv' /\ dead' = "no"
    BY <1>1, <2>1, <2>5 DEF IInv, Typed, FifoTyped, FaultInv, fifo, control
  <2> QED
    BY <1>3, <1>4, <2>4, <2>6, <2>7 DEF IInv, Typed
<1>6. CASE interrupt
  <2>1. /\ signal_mutex' = "free" /\ fault_mask' = fault_mask /\ irq' = Raised(irq)
        /\ \/ signal_mutex = "report" /\ fifo_q' = Tail(fifo_q)
           \/ signal_mutex # "report" /\ fifo_q' = fifo_q
    BY <1>6 DEF interrupt
  <2>2. irq' \in BOOLEAN
    BY <2>1, Zenon DEF Raised, IInv, Typed, SignalTyped
  <2>3. QueueTyped' /\ \A g \in Fifos : Coming(g) => Coming(g)'
    <3>1. CASE signal_mutex = "report" /\ fifo_q' = Tail(fifo_q)
      <4>1. fifo_q # << >>
        BY <3>1 DEF IInv, TurnInv
      <4> QED
        BY <2>1, <3>1, <4>1, Left DEF IInv, Typed
    <3>2. CASE fifo_q' = fifo_q
      BY <2>1, <3>2 DEF Coming, IInv, Typed, QueueTyped
    <3> QED
      BY <2>1, <3>1, <3>2
  <2>4. SignalTyped'
    BY <1>1, <2>1, <2>2 DEF IInv, Typed, SignalTyped
  <2>5. TurnInv'
    <3>1. CASE signal_mutex = "report"
      <4>1. \A a \in Actors : Head(fifo_q) # Sync(a)
        BY <3>1 DEF IInv, TurnInv
      <4> QED
        BY <1>1, <2>1, <4>1 DEF IInv, TurnInv, HeadIsOf, control
    <3>2. CASE signal_mutex # "report"
      BY <1>1, <2>1, <3>2 DEF IInv, TurnInv, HeadIsOf, control
    <3> QED
      BY <3>1, <3>2
  <2>6. FaultInv' /\ dead' = "no"
    BY <1>1, <2>1, <2>3 DEF IInv, Typed, FifoTyped, FaultInv, fifo, control
  <2> QED
    BY <1>3, <1>4, <2>3, <2>4, <2>5, <2>6 DEF IInv, Typed
<1> QED
  BY <1>5, <1>6

\* A task's completion, which wakes the delete that waits for the last.
LEMMA CountKeeps ==
  ASSUME IInv, count_down
  PROVE  IInv'
<1> USE Ids, Kinds
<1>1. UNCHANGED <<Outside, fifo, interrupts, fifo_q, at, waits, dead, counts>>
  BY DEF count_down
<1>2. \A a \in Actors : pc'[a] = pc[a] \/ (pc[a] = "parked" /\ pc'[a] = "woken")
  BY DEF count_down
<1>3. ControlTyped'
  <2>1. pc' \in [Actors -> HostPCs \cup GuestPCs \cup RootPCs]
    BY <1>2 DEF count_down, IInv, Typed, ControlTyped, GuestPCs, DeletePCs
  <2>2. remaining' \in 0..Tasks
    BY DEF count_down, IInv, Typed, ControlTyped
  <2> QED
    BY <1>1, <1>2, <2>1, <2>2
       DEF IInv, Typed, ControlTyped, Actors, HostPCs, GuestPCs, RootPCs, DeletePCs
<1>4. pc'["host"] = pc["host"] /\ pc["host"] # "parked"
  BY <1>2 DEF IInv, Typed, ControlTyped, HostPCs, Actors
<1>5. /\ pc'["guest"] = pc["guest"] \/ (pc["guest"] = "parked" /\ pc'["guest"] = "woken")
      /\ pc'["root"] = pc["root"] \/ (pc["root"] = "parked" /\ pc'["root"] = "woken")
  BY <1>2
<1>6. Typed'
  BY <1>1, <1>3 DEF Outside, fifo, interrupts, counts, IInv, Typed, FifoTyped, SignalTyped,
                    QueueTyped, RestTyped
<1>7. SlotInv' /\ NodeInv' /\ RootInv'
  BY <1>1, <1>4, <1>5 DEF Outside, fifo, IInv, SlotInv, Still, BeingDeleted, Deleting, NodeInv,
                          Away, RootInv
<1>8. GuestInv'
  BY <1>1, <1>4, <1>5 DEF fifo, IInv, GuestInv, Still, EnableWritten, TearingDown, DeletePCs
<1>9. HostInv'
  BY <1>1, <1>4, <1>5 DEF Outside, fifo, IInv, HostInv, Still, Stopped, vCPUsRun, NoDefine
<1>10. TurnInv' /\ FaultInv' /\ dead' = "no"
  BY <1>1, <1>4, <1>5 DEF fifo, interrupts, IInv, TurnInv, HeadIsOf, FaultInv, Coming
<1>11. DrainInv' /\ WalkInv'
  <2>1. \A a \in Actors : draining[a] # "no" => pc'[a] = pc[a]
    BY <1>2 DEF IInv, DrainInv, InDrain
  <2> QED
    BY <1>1, <1>4, <2>1 DEF fifo, waits, IInv, DrainInv, Past, WalkInv, HostDrains, Still
<1> QED
  BY <1>6, <1>7, <1>8, <1>9, <1>10, <1>11 DEF IInv

-----------------------------------------------------------------------------
(* Children, defined and deleted *)

\* A sync block that ends is no report, and nobody else had the queue.
LEMMA SyncEnds ==
  ASSUME IInv, NEW a \in Actors, Turn(a), Leave, signal_mutex' # "report"
  PROVE  /\ QueueTyped' /\ signal_mutex # "report"
         /\ \A f \in Fifos : Coming(f) => Coming(f)'
         /\ a # "guest" => pc["guest"] \notin {"clear", "pump"}
         /\ a # "host" => pc["host"] # "u_root"
<1> USE Kinds
<1>1. fifo_q # << >> /\ Head(fifo_q) = Sync(a) /\ fifo_q' = Tail(fifo_q)
  BY DEF Turn, Leave
<1>2. signal_mutex # "report"
  BY <1>1 DEF IInv, TurnInv
<1>3. \A b \in Actors : b # a => Sync(b) # Sync(a)
  OBVIOUS
<1>4. QueueTyped' /\ \A f \in Fifos : Coming(f) => Coming(f)'
  BY <1>1, Left DEF IInv, Typed
<1> QED
  BY <1>1, <1>2, <1>3, <1>4 DEF IInv, TurnInv, HeadIsOf

\* A sync block that is queued leaves the queue to whoever has it.
LEMMA SyncQueued ==
  ASSUME IInv, NEW a \in Actors, Queue(a), signal_mutex' = signal_mutex
  PROVE  /\ QueueTyped' /\ fifo_q' # << >>
         /\ fifo_q # << >> => Head(fifo_q') = Head(fifo_q)
         /\ \A f \in Fifos : Coming(f) => Coming(f)'
<1>1. Sync(a) \in Blocks /\ fifo_q' = Append(fifo_q, Sync(a))
  BY Kinds DEF Queue
<1> QED
  BY <1>1, Added DEF IInv, Typed

\* create_fifo, by the root's thread: the child it starts is nobody else's yet.
LEMMA CreateKeeps ==
  ASSUME IInv, create_fifo("root")
  PROVE  IInv'
<1> USE Ids, Kinds
<1> DEFINE c == at["root"]
<1>1. /\ pc["root"] \in {"define", "create"} /\ c \in Children
      /\ UNCHANGED <<Outside, interrupts, at, remaining, waits, dead, counts>>
  BY DEF create_fifo, IInv, RootInv
<1>2. /\ Root \in present /\ Root \in running
      /\ pc["guest"] \notin DeletePCs \cup {"children", "release", "mask"}
      /\ pc["host"] \notin {"p_children", "p_children_drain", "pausing", "paused", "serialize",
                            "suspended", "resume", "r_children", "s_children", "suspending",
                            "f_child", "f_root"}
  BY <1>1, RootWorks DEF IInv, HostInv, NoDefine
<1>5. \A b \in Actors : draining[b] # "no" => b # "root" /\ at[b] = Root
  <2>1. \A b \in Actors : draining[b] # "no" => pc[b] \in InDrain
    BY DEF IInv, DrainInv
  <2>2. draining["root"] = "no"
    BY <1>1, <2>1 DEF InDrain
  <2>3. draining["guest"] # "no" => at["guest"] = Root
    BY <1>2, <2>1 DEF InDrain, DeletePCs, IInv, GuestInv, Typed, ControlTyped, GuestPCs
  <2>4. draining["host"] # "no" => at["host"] = Root
    BY <1>2, <2>1 DEF InDrain, IInv, HostInv
  <2> QED
    BY <2>2, <2>3, <2>4 DEF Actors
<1>6. ASSUME pc'["host"] = pc["host"], pc'["guest"] = pc["guest"],
             running' \cap quiesced' \subseteq running, Root \in quiesced => Root \in quiesced'
      PROVE  DrainInv' /\ WalkInv'
  <2>1. /\ SameDrains
        /\ \A b \in Actors : draining[b] # "no" => pc'[b] = pc[b] /\ at'[b] = at[b] /\ at[b] \in quiesced'
    BY <1>1, <1>5, <1>6, DrainsUnchanged DEF waits, IInv, DrainInv, Actors
  <2> QED
    BY <1>2, <1>6, <2>1, DrainsStay DEF WalkInv
<1>3. CASE pc["root"] = "define" /\ Queue("root") /\ Goto("root", "create") /\ UNCHANGED fifo
  <2>1. /\ pc'["host"] = pc["host"] /\ pc'["guest"] = pc["guest"] /\ pc'["root"] = "create"
        /\ ControlTyped'
    BY <1>1, <1>3 DEF Goto, IInv, Typed, ControlTyped, RootPCs
  <2>2. /\ QueueTyped' /\ (fifo_q # << >> => fifo_q' # << >> /\ Head(fifo_q') = Head(fifo_q))
        /\ \A f \in Fifos : Coming(f) => Coming(f)'
    BY <1>1, <1>3, SyncQueued DEF interrupts
  <2>3. Typed'
    BY <1>1, <1>3, <2>1, <2>2 DEF Outside, fifo, interrupts, counts, IInv, Typed, FifoTyped,
                                  SignalTyped, RestTyped
  <2>4. SlotInv' /\ NodeInv' /\ RootInv'
    BY <1>1, <1>2, <1>3, <2>1 DEF Outside, fifo, IInv, SlotInv, Still, BeingDeleted, Deleting,
                                  NodeInv, Away, RootInv
  <2>5. GuestInv'
    BY <1>1, <1>3, <2>1 DEF fifo, IInv, GuestInv, Still, EnableWritten, TearingDown, DeletePCs
  <2>6. HostInv'
    BY <1>1, <1>2, <1>3, <2>1 DEF Outside, fifo, IInv, HostInv, Still, Stopped, vCPUsRun, NoDefine
  <2>7. TurnInv' /\ FaultInv' /\ dead' = "no"
    BY <1>1, <1>3, <2>1, <2>2 DEF fifo, interrupts, IInv, Typed, FifoTyped, TurnInv, HeadIsOf, FaultInv
  <2>8. DrainInv' /\ WalkInv'
    BY <1>3, <1>6, <2>1 DEF fifo
  <2> QED
    BY <2>3, <2>4, <2>5, <2>6, <2>7, <2>8 DEF IInv
<1>4. CASE /\ pc["root"] = "create" /\ Turn("root") /\ Leave /\ Goto("root", "idle")
           /\ \/ c \in present /\ UNCHANGED fifo
              \/ /\ c \notin present /\ present' = present \cup {c}
                 /\ fault_offset' = fault_offset \ {c} /\ latch' = latch \ {c}
                 /\ start({c}) /\ UNCHANGED <<head, reporting>>
  <2>1. /\ pc'["host"] = pc["host"] /\ pc'["guest"] = pc["guest"] /\ pc'["root"] = "idle"
        /\ ControlTyped'
    BY <1>1, <1>4 DEF Goto, IInv, Typed, ControlTyped, RootPCs
  <2>2. /\ QueueTyped' /\ (\A f \in Fifos : Coming(f) => Coming(f)') /\ signal_mutex # "report"
        /\ pc["guest"] \notin {"clear", "pump"} /\ pc["host"] # "u_root"
    <3>1. signal_mutex # "report"
      BY <1>4 DEF Turn, IInv, TurnInv
    <3> QED
      BY <1>1, <1>4, <3>1, SyncEnds DEF interrupts
  <2>3. CASE c \in present /\ UNCHANGED fifo
    <3>1. Typed'
      BY <1>1, <2>1, <2>2, <2>3 DEF Outside, fifo, interrupts, counts, IInv, Typed, FifoTyped,
                                    SignalTyped, RestTyped
    <3>2. SlotInv' /\ NodeInv' /\ RootInv'
      BY <1>1, <1>2, <1>4, <2>1, <2>3 DEF Outside, fifo, IInv, SlotInv, Still, BeingDeleted,
                                          Deleting, NodeInv, Away, RootInv
    <3>3. GuestInv'
      BY <1>1, <2>1, <2>3 DEF fifo, IInv, GuestInv, Still, EnableWritten, TearingDown, DeletePCs
    <3>4. HostInv'
      BY <1>1, <1>2, <2>1, <2>3 DEF Outside, fifo, IInv, HostInv, Still, Stopped, vCPUsRun, NoDefine
    <3>5. TurnInv' /\ FaultInv' /\ dead' = "no"
      BY <1>1, <2>1, <2>2, <2>3 DEF fifo, interrupts, IInv, Typed, FifoTyped, TurnInv, HeadIsOf,
                                    FaultInv
    <3>6. DrainInv' /\ WalkInv'
      BY <1>6, <2>1, <2>3 DEF fifo
    <3> QED
      BY <3>1, <3>2, <3>3, <3>4, <3>5, <3>6 DEF IInv
  <2>4. CASE /\ c \notin present /\ present' = present \cup {c}
             /\ fault_offset' = fault_offset \ {c} /\ latch' = latch \ {c}
             /\ start({c}) /\ UNCHANGED <<head, reporting>>
    <3>1. /\ quiesced' = quiesced \ {c} /\ running' = running \cup {c}
          /\ node_running' = node_running \cup {c} /\ c # Root
      BY <1>1, <2>4 DEF start
    <3>2. \A f \in Fifos \ {c} : Still(f) => Still(f)'
      BY <2>4, <3>1 DEF Still
    <3>3. Typed'
      <4>1. FifoTyped /\ c \in Children /\ c \in Fifos
        BY <1>1, <3>1 DEF IInv, Typed, ControlTyped, Fifos
      <4>2. FifoTyped'
        BY <2>4, <3>1, <4>1 DEF FifoTyped
      <4>3. SignalTyped' /\ RestTyped'
        BY <1>1 DEF Outside, interrupts, counts, IInv, Typed, SignalTyped, RestTyped
      <4> QED
        BY <2>1, <2>2, <4>2, <4>3 DEF Typed
    <3>4. SlotInv'
      BY <1>1, <1>2, <1>4, <2>1, <2>4, <3>1, <3>2 DEF Outside, IInv, SlotInv, BeingDeleted,
                                                      Deleting, DeletePCs
    <3>5. NodeInv' /\ RootInv'
      BY <1>1, <1>2, <1>4, <2>1, <2>4, <3>1 DEF Outside, IInv, NodeInv, Away, RootInv
    <3>6. GuestInv'
      BY <1>1, <1>2, <2>1, <2>4, <3>1, <3>2 DEF IInv, GuestInv, EnableWritten, TearingDown, DeletePCs
    <3>7. HostInv'
      BY <1>1, <1>2, <2>1, <2>4, <3>1, <3>2 DEF Outside, IInv, HostInv, Stopped, vCPUsRun, NoDefine
    <3>8. TurnInv' /\ FaultInv' /\ dead' = "no"
      BY <1>1, <2>1, <2>2, <2>4 DEF interrupts, IInv, Typed, FifoTyped, TurnInv, HeadIsOf, FaultInv
    <3>9. DrainInv' /\ WalkInv'
      BY <1>6, <2>1, <3>1
    <3> QED
      BY <3>3, <3>4, <3>5, <3>6, <3>7, <3>8, <3>9 DEF IInv
  <2> QED
    BY <1>4, <2>3, <2>4
<1> QED
  BY <1>3, <1>4 DEF create_fifo

\* Whoever deletes a child, the other is not deleting, and the host is elsewhere.
Apart(a) ==
  /\ a = "guest" => pc["root"] = "idle" /\ pc["host"] = "idle"
  /\ a = "root" =>
       /\ pc["guest"] \notin DeletePCs \cup {"children", "release", "mask"}
       /\ pc["host"] \notin {"p_children", "p_children_drain", "pausing", "paused", "serialize",
                             "suspended", "resume"}

LEMMA Deleter ==
  ASSUME IInv, NEW a \in {"guest", "root"}, pc[a] \in DeletePCs
  PROVE  at[a] \in Children /\ at[a] # Root /\ Root \in present /\ Apart(a)
<1> USE Ids
<1>1. CASE a = "root"
  <2>1. pc["root"] # "idle"
    BY <1>1 DEF DeletePCs
  <2> QED
    BY <1>1, <2>1, RootWorks DEF IInv, RootInv, Apart
<1>2. CASE a = "guest"
  <2>1. pc["root"] = "idle"
    BY <1>2, RootWorks
  <2>2. EnableWritten /\ pc["guest"] # "mask"
    BY <1>2 DEF EnableWritten, TearingDown, DeletePCs
  <2> QED
    BY <1>2, <2>1, <2>2 DEF IInv, GuestInv, Apart
<1> QED
  BY <1>1, <1>2

\* The delete's block is queued, and takes the child out of its slot.
LEMMA TakeKeeps ==
  ASSUME IInv, NEW a \in {"guest", "root"}, NEW then,
         (a = "guest" /\ then = "children") \/ (a = "root" /\ then = "idle"),
         \/ /\ pc[a] = "delete" /\ Queue(a) /\ Goto(a, "take")
            /\ UNCHANGED <<Outside, fifo, interrupts, at, remaining, waits, dead, counts>>
         \/ TakeOut(a, then)
  PROVE  IInv'
<1> USE Ids, Kinds
<1> DEFINE c == at[a]
<1>1. pc[a] \in {"delete", "take"} /\ pc[a] \in DeletePCs
  BY DEF TakeOut, DeletePCs
<1>2. c \in Children /\ c # Root /\ Root \in present /\ Apart(a)
  BY <1>1, Deleter
<1>3. /\ UNCHANGED <<Outside, node_running, running, quiesced, head, latch, fault_offset, reporting,
                     interrupt_stamp, signal_mutex, irq, at, remaining, waits, dead, counts>>
      /\ \/ pc[a] = "delete" /\ Queue(a) /\ Goto(a, "take") /\ UNCHANGED <<present, fault_mask>>
         \/ /\ pc[a] = "take" /\ Turn(a) /\ Leave /\ c \notin present /\ Goto(a, then)
            /\ UNCHANGED <<present, fault_mask>>
         \/ /\ pc[a] = "take" /\ Turn(a) /\ Leave /\ c \in present /\ Goto(a, "stop")
            /\ present' = present \ {c} /\ fault_mask' = fault_mask \ {c}
  BY DEF TakeOut, fifo, interrupts
<1>4. /\ ControlTyped' /\ \A b \in Actors \ {a} : pc'[b] = pc[b]
      /\ \/ pc[a] = "delete" /\ pc'[a] = "take" /\ present' = present /\ fault_mask' = fault_mask
         \/ /\ pc[a] = "take" /\ pc'[a] = then /\ c \notin present
            /\ present' = present /\ fault_mask' = fault_mask
         \/ /\ pc[a] = "take" /\ pc'[a] = "stop" /\ present' = present \ {c}
            /\ fault_mask' = fault_mask \ {c}
  BY <1>3 DEF Goto, IInv, Typed, ControlTyped, Actors, RootPCs, GuestPCs, DeletePCs
<1>5. /\ QueueTyped' /\ (\A f \in Fifos : Coming(f) => Coming(f)')
      /\ pc["guest"] \in {"clear", "pump"} => HeadIsOf("guest")'
      /\ pc["host"] = "u_root" => HeadIsOf("host")'
      /\ signal_mutex = "report" => fifo_q' # << >> /\ Head(fifo_q').kind = "report"
  <2>1. a \in Actors /\ signal_mutex' = signal_mutex
    BY <1>3 DEF Actors
  <2>2. CASE Queue(a)
    BY <2>1, <2>2, SyncQueued DEF IInv, TurnInv, HeadIsOf
  <2>3. CASE Turn(a) /\ Leave
    <3>1. signal_mutex' # "report"
      BY <2>1, <2>3 DEF Turn, IInv, TurnInv
    <3>2. pc["guest"] \notin {"clear", "pump"} /\ pc["host"] # "u_root"
      BY <1>1, <1>2, <2>1, <2>3, <3>1, SyncEnds DEF Apart, DeletePCs
    <3> QED
      BY <2>1, <2>3, <3>1, <3>2, SyncEnds
  <2> QED
    BY <1>3, <2>2, <2>3
<1>6. Typed'
  <2>1. FifoTyped' /\ SignalTyped'
    BY <1>3, <1>4 DEF IInv, Typed, FifoTyped, SignalTyped
  <2>2. RestTyped'
    BY <1>3 DEF Outside, counts, IInv, Typed, RestTyped
  <2> QED
    BY <1>4, <1>5, <2>1, <2>2 DEF Typed
<1>7. \A f \in Fifos : Still(f) => Still(f)'
  BY <1>3 DEF Still
<1>8. SlotInv'
  BY <1>1, <1>2, <1>3, <1>4, <1>7 DEF Outside, IInv, SlotInv, BeingDeleted, Deleting, Apart, DeletePCs
<1>9. NodeInv' /\ RootInv'
  BY <1>1, <1>2, <1>3, <1>4 DEF Outside, IInv, NodeInv, Away, RootInv, Apart, DeletePCs
<1>10. GuestInv'
  <2>1. \A d \in present : d \in Nat /\ c \in Nat
    BY <1>2 DEF IInv, Typed, FifoTyped
  <2>2. CASE a = "guest"
    <3>1. /\ \A d \in present : d = Root \/ d >= c
          /\ Still(Root) /\ Still(Root)' /\ pc["guest"] \in {"delete", "take"}
      BY <1>1, <1>7, <2>2 DEF IInv, GuestInv, EnableWritten, TearingDown
    <3>2. /\ pc'["guest"] \in {"take", "children", "stop"} /\ pc'["host"] = "idle"
          /\ Root \in present' /\ \A d \in present' : d = Root \/ d >= c
          /\ pc'["guest"] # "take" => c \notin present'
      BY <1>2, <1>4, <2>2, <3>1 DEF Actors, Apart
    <3>3. pc'["guest"] # "take" => \A d \in present' : d = Root \/ d > c
      BY <1>4, <2>1, <3>2
    <3> QED
      BY <1>2, <1>3, <2>2, <3>1, <3>2, <3>3 DEF GuestInv, EnableWritten, TearingDown, DeletePCs
  <2>3. CASE a = "root"
    BY <1>1, <1>2, <1>3, <1>4, <1>7, <2>1, <2>3
       DEF IInv, GuestInv, EnableWritten, TearingDown, DeletePCs, Apart, Actors
  <2> QED
    BY <2>2, <2>3
<1>11. HostInv'
  <2>1. present' \subseteq present /\ present \subseteq Fifos
    BY <1>4 DEF IInv, Typed, FifoTyped
  <2>2. pc'["host"] = pc["host"] /\ (NoDefine => NoDefine')
    BY <1>2, <1>4 DEF Actors, Apart, NoDefine
  <2>3. pc["host"] \in Stopped => pc'["guest"] = pc["guest"]
    BY <1>2, <1>4 DEF Apart, Stopped, Actors
  <2> QED
    BY <1>3, <1>7, <2>1, <2>2, <2>3 DEF Outside, IInv, HostInv, Stopped, vCPUsRun
<1>12. TurnInv'
  BY <1>2, <1>3, <1>4, <1>5 DEF TurnInv, Apart
<1>13. FaultInv' /\ dead' = "no"
  BY <1>2, <1>3, <1>4, <1>5 DEF IInv, Typed, FifoTyped, FaultInv, Apart, DeletePCs
<1>14. DrainInv' /\ WalkInv'
  <2>1. SameDrains /\ draining[a] = "no" /\ present' \subseteq present
    BY <1>1, <1>3, <1>4, DrainsUnchanged DEF waits, IInv, DrainInv, InDrain, Actors
  <2> QED
    BY <1>3, <1>4, <1>7, <2>1, OthersDrain
<1> QED
  BY <1>6, <1>8, <1>9, <1>10, <1>11, <1>12, <1>13, <1>14 DEF IInv

\* The taken child's drain, while it goes on and when it returns.
TakenWaits(a) ==
  /\ pc[a] = "drain" /\ DrainGoesOn(a, at[a])
  /\ UNCHANGED <<pc, remaining, Outside, fifo, interrupts, fifo_q, at, counts>>
TakenEnds(a, then) ==
  /\ pc[a] = "drain" /\ DrainReturns(a, at[a])
  /\ \/ Goto(a, "tasks") /\ remaining' = Tasks
     \/ a = "root" /\ Goto(a, then) /\ UNCHANGED remaining
  /\ UNCHANGED <<Outside, fifo, interrupts, fifo_q, at, counts>>

LEMMA TakenWaitsKeeps ==
  ASSUME IInv, NEW a \in {"guest", "root"}, TakenWaits(a)
  PROVE  IInv'
<1>1. a \in Actors /\ at[a] \in Fifos /\ at[a] \in quiesced /\ pc[a] \in InDrain /\ at' = at
  BY DEF TakenWaits, IInv, SlotInv, Typed, ControlTyped, Actors, InDrain
<1> QED
  BY <1>1, WaitingKeeps DEF TakenWaits

\* The rest of a delete, up to the tasks' completions.
LEMMA StopKeeps ==
  ASSUME IInv, NEW a \in {"guest", "root"}, NEW then,
         (a = "guest" /\ then = "children") \/ (a = "root" /\ then = "idle"),
         StopTaken(a) \/ TakenEnds(a, then) \/ WaitTasks(a, then)
  PROVE  IInv'
<1> USE Ids, Kinds
<1> DEFINE c == at[a]
<1>1. pc[a] \in DeletePCs \ {"delete", "take"}
  BY DEF StopTaken, TakenEnds, WaitTasks, DeletePCs
<1>2. c \in Children /\ c # Root /\ Root \in present /\ Apart(a) /\ c \in Fifos
  BY <1>1, Deleter
<1>3. /\ UNCHANGED <<Outside, present, running, latch, fault_offset, reporting, fault_mask, irq,
                     fifo_q, at, counts>>
      /\ dead' = "no" /\ interrupt_stamp' \subseteq Fifos
      /\ head' \in [Fifos -> {"none", "busy", "faulted"}]
      /\ \/ signal_mutex' = signal_mutex
         \/ signal_mutex = "free" /\ signal_mutex' = "stamp"
      /\ \A g \in Fifos : Still(g) => Still(g)'
      /\ \/ /\ pc[a] = "stop" /\ Goto(a, "drain") /\ quiesced' = quiesced \cup {c}
            /\ node_running' = node_running \ {c} /\ remaining' = remaining
         \/ /\ pc[a] = "drain" /\ Still(c) /\ quiesced' = quiesced
            /\ Goto(a, "tasks") \/ (a = "root" /\ Goto(a, then))
            /\ node_running' = node_running /\ remaining' \in {Tasks, remaining}
         \/ /\ pc[a] \in {"tasks", "woken"} /\ \E l \in {then, "parked"} : Goto(a, l)
            /\ quiesced' = quiesced /\ node_running' = node_running /\ remaining' = remaining
  <2>1. CASE StopTaken(a)
    BY <1>2, <2>1, Quiesces DEF StopTaken
  <2>2. CASE TakenEnds(a, then)
    <3>1. a \in Actors
      BY DEF Actors
    <3>2. Still(c) /\ dead' = "no"
      BY <1>2, <2>2, <3>1, DrainEnds DEF TakenEnds
    <3> QED
      BY <2>2, <3>2 DEF TakenEnds, fifo, interrupts, IInv, Typed, FifoTyped, SignalTyped, Still
  <2>3. CASE WaitTasks(a, then)
    BY <2>3 DEF WaitTasks, fifo, interrupts, IInv, Typed, FifoTyped, SignalTyped, Still
  <2> QED
    BY <2>1, <2>2, <2>3
<1>4. /\ ControlTyped' /\ \A b \in Actors \ {a} : pc'[b] = pc[b]
      /\ \/ pc[a] = "stop" /\ pc'[a] = "drain"
         \/ pc[a] = "drain" /\ (pc'[a] = "tasks" \/ (a = "root" /\ pc'[a] = then))
         \/ pc[a] \in {"tasks", "woken"} /\ pc'[a] \in {then, "parked"}
  BY <1>3 DEF Goto, IInv, Typed, ControlTyped, Actors, RootPCs, GuestPCs, DeletePCs
<1>5. Typed'
  <2>1. FifoTyped'
    BY <1>2, <1>3 DEF IInv, Typed, FifoTyped
  <2>3. SignalTyped'
    BY <1>3 DEF IInv, Typed, SignalTyped
  <2>2. RestTyped' /\ QueueTyped'
    BY <1>3 DEF Outside, counts, IInv, Typed, RestTyped, QueueTyped
  <2> QED
    BY <1>4, <2>1, <2>2, <2>3 DEF Typed
<1>6. SlotInv'
  BY <1>1, <1>2, <1>3, <1>4 DEF Outside, IInv, SlotInv, BeingDeleted, Deleting, Apart, DeletePCs
<1>7. NodeInv' /\ RootInv'
  BY <1>1, <1>2, <1>3, <1>4 DEF Outside, IInv, NodeInv, Away, RootInv, Apart, DeletePCs
<1>8. GuestInv'
  BY <1>1, <1>2, <1>3, <1>4 DEF IInv, GuestInv, EnableWritten, TearingDown, DeletePCs, Apart
<1>9. HostInv'
  <2>1. present' = present /\ present \subseteq Fifos /\ quiesced \subseteq quiesced'
    BY <1>3 DEF IInv, Typed, FifoTyped
  <2>2. pc'["host"] = pc["host"] /\ (NoDefine => NoDefine')
    BY <1>2, <1>4 DEF Actors, Apart, NoDefine
  <2>3. pc["host"] \in Stopped => pc'["guest"] = pc["guest"]
    BY <1>2, <1>4 DEF Apart, Stopped, Actors
  <2> QED
    BY <1>3, <2>1, <2>2, <2>3 DEF Outside, IInv, HostInv, Stopped, vCPUsRun
<1>10. TurnInv'
  BY <1>1, <1>2, <1>3, <1>4 DEF IInv, TurnInv, HeadIsOf, Apart, DeletePCs, Actors
<1>11. FaultInv'
  <2>1. \A f \in Fifos : Coming(f) => Coming(f)'
    BY <1>3 DEF Coming
  <2> QED
    BY <1>1, <1>2, <1>3, <1>4, <2>1 DEF IInv, Typed, FifoTyped, FaultInv, Apart, DeletePCs, Actors
<1>12. DrainInv' /\ WalkInv'
  <2>1. a \in Actors /\ quiesced \subseteq quiesced' /\ running' = running /\ present' = present /\ at' = at
    BY <1>3 DEF Actors
  <2>2. CASE TakenEnds(a, then)
    <3>1. Returned(a) /\ UNCHANGED <<running, quiesced>>
      BY <1>2, <2>1, <2>2, DrainEnds DEF TakenEnds, fifo
    <3>2. DrainInv'
      BY <1>4, <2>1, <3>1, DrainsAfter
    <3>3. pc'["host"] = pc["host"] /\ (draining'["host"] = "no" <=> draining["host"] = "no")
      BY <1>4, <3>1 DEF Returned, Actors
    <3>4. present \subseteq Fifos
      BY DEF IInv, Typed, FifoTyped
    <3> QED
      BY <1>3, <2>1, <3>2, <3>3, <3>4 DEF IInv, WalkInv, HostDrains
  <2>3. CASE StopTaken(a) \/ WaitTasks(a, then)
    <3>1. SameDrains
      BY <1>2, <2>3, Quiesces, DrainsUnchanged DEF StopTaken, WaitTasks, waits
    <3>2. draining[a] = "no"
      BY <2>1, <2>3 DEF StopTaken, WaitTasks, IInv, DrainInv, InDrain
    <3> QED
      BY <1>3, <1>4, <2>1, <3>1, <3>2, OthersDrain
  <2> QED
    BY <2>2, <2>3
<1> QED
  BY <1>3, <1>5, <1>6, <1>7, <1>8, <1>9, <1>10, <1>11, <1>12 DEF IInv

-----------------------------------------------------------------------------
(* The guest *)

\* Where the guest is while it handles an interrupt.
Reading == {"idle", "stamps", "fault", "look", "resume", "clear", "pump"}

\* Steps of the guest's interrupt move nobody else, and no slot.
LEMMA GuestMoves ==
  ASSUME IInv, pc["guest"] \in Reading, NEW l \in Reading, Goto("guest", l),
         \/ at' = at
         \/ \E f \in Fifos : at' = [at EXCEPT !["guest"] = f],
         UNCHANGED <<run_state, stamp_memory, blob, present, node_running, quiesced, running,
                     remaining>>,
         \A g \in Fifos : Still(g) => Still(g)',
         fault_offset' \subseteq fault_offset, SameDrains,
         pc["guest"] # "idle" \/ vCPUsRun
  PROVE  /\ SlotInv' /\ NodeInv' /\ RootInv' /\ GuestInv' /\ HostInv' /\ ControlTyped'
         /\ DrainInv' /\ WalkInv'
<1> USE Ids
<1>1. /\ pc'["host"] = pc["host"] /\ pc'["root"] = pc["root"] /\ pc'["guest"] = l
      /\ at'["host"] = at["host"] /\ at'["root"] = at["root"] /\ ControlTyped'
  BY DEF Goto, IInv, Typed, ControlTyped, Actors, Reading, GuestPCs
<1>2. SlotInv' /\ NodeInv' /\ RootInv'
  BY <1>1 DEF IInv, SlotInv, BeingDeleted, Deleting, NodeInv, Away, RootInv, Reading
<1>3. GuestInv'
  BY <1>1 DEF GuestInv, EnableWritten, TearingDown, DeletePCs, Reading
<1>4. HostInv'
  <2>1. present \subseteq Fifos
    BY DEF IInv, Typed, FifoTyped
  <2>2. pc["host"] \notin Stopped
    BY DEF IInv, HostInv
  <2> QED
    BY <1>1, <2>1, <2>2 DEF IInv, HostInv, Stopped, vCPUsRun, NoDefine
<1>5. DrainInv' /\ WalkInv'
  <2>1. draining["guest"] = "no" /\ \A a \in Actors \ {"guest"} : pc'[a] = pc[a] /\ at'[a] = at[a]
    BY <1>1 DEF IInv, DrainInv, InDrain, Reading, Actors
  <2> QED
    BY <2>1, OthersDrain
<1> QED
  BY <1>1, <1>2, <1>3, <1>4, <1>5

\* The guest goes on to the next FIFO, or is done.
LEMMA LooksOn ==
  ASSUME IInv, LookOn
  PROVE  /\ \E l \in {"idle", "look"} : Goto("guest", l)
         /\ at' = at \/ \E f \in Fifos : at' = [at EXCEPT !["guest"] = f]
<1>1. After(at["guest"]) \in SUBSET Fifos
  BY DEF After
<1>2. After(at["guest"]) # {} => First(After(at["guest"])) \in Fifos
  BY <1>1, FirstIs
<1> QED
  BY <1>2 DEF LookOn

\* The guest takes an interrupt, reads the registers and looks at the fault offsets.
LEMMA ReadsKeep ==
  ASSUME IInv, TakeInterrupt \/ ReadInterruptStamp \/ read_interrupt_fault \/ LookAtFault
  PROVE  IInv'
<1> USE Ids, Kinds
<1>1. /\ UNCHANGED <<Outside, fifo, fault_mask, signal_mutex, remaining, waits, dead, counts>>
      /\ interrupt_stamp' \subseteq Fifos /\ irq' \in {irq, FALSE}
      /\ pc["guest"] \in {"idle", "stamps", "fault", "look"}
      /\ pc["guest"] # "idle" \/ vCPUsRun
      /\ \E l \in Reading \ {"clear", "pump"} : Goto("guest", l)
      /\ at' = at \/ \E f \in Fifos : at' = [at EXCEPT !["guest"] = f]
      /\ fifo_q' = fifo_q \/ Queue("guest")
  <2>1. CASE TakeInterrupt
    BY <2>1 DEF TakeInterrupt, IInv, Typed, SignalTyped, Reading
  <2>2. CASE ReadInterruptStamp
    BY <2>2 DEF ReadInterruptStamp, Reading
  <2>3. CASE read_interrupt_fault
    BY <2>3 DEF read_interrupt_fault, interrupts, IInv, Typed, SignalTyped, Reading
  <2>4. CASE LookAtFault
    BY <2>4, LooksOn DEF LookAtFault, interrupts, IInv, Typed, SignalTyped, Reading
  <2> QED
    BY <2>1, <2>2, <2>3, <2>4
<1>2. PICK l \in Reading \ {"clear", "pump"} : Goto("guest", l)
  BY <1>1
<1>3. \A g \in Fifos : Still(g) => Still(g)'
  BY <1>1 DEF Still, fifo
<1>4. /\ SlotInv' /\ NodeInv' /\ RootInv' /\ GuestInv' /\ HostInv' /\ ControlTyped'
      /\ DrainInv' /\ WalkInv'
  <2>1. UNCHANGED <<run_state, stamp_memory, blob, present, node_running, quiesced, running,
                    remaining>>
    BY <1>1 DEF Outside, fifo
  <2>2. /\ fault_offset' \subseteq fault_offset /\ pc["guest"] \in Reading /\ l \in Reading
        /\ SameDrains
    BY <1>1, DrainsUnchanged DEF fifo, waits, Reading
  <2> QED
    BY <1>1, <1>2, <1>3, <2>1, <2>2, GuestMoves
<1>5. /\ QueueTyped' /\ (fifo_q # << >> => fifo_q' # << >> /\ Head(fifo_q') = Head(fifo_q))
      /\ \A f \in Fifos : Coming(f) => Coming(f)'
  <2>1. CASE fifo_q' = fifo_q
    BY <1>1, <2>1 DEF Coming, IInv, Typed, QueueTyped
  <2>2. CASE Queue("guest")
    BY <1>1, <2>2, SyncQueued
  <2> QED
    BY <1>1, <2>1, <2>2
<1>6. Typed'
  <2>1. irq' \in BOOLEAN
    BY <1>1, Zenon DEF IInv, Typed, SignalTyped
  <2>2. FifoTyped' /\ SignalTyped' /\ RestTyped'
    BY <1>1, <2>1 DEF Outside, fifo, counts, IInv, Typed, FifoTyped, SignalTyped, RestTyped
  <2> QED
    BY <1>4, <1>5, <2>2 DEF Typed
<1>7. pc'["guest"] = l /\ pc'["host"] = pc["host"]
  BY <1>2 DEF Goto, IInv, Typed, ControlTyped, Actors
<1>8. TurnInv'
  BY <1>1, <1>2, <1>5, <1>7 DEF IInv, TurnInv, HeadIsOf
<1>9. FaultInv' /\ dead' = "no"
  BY <1>1, <1>5 DEF fifo, IInv, Typed, FifoTyped, FaultInv
<1> QED
  BY <1>4, <1>6, <1>8, <1>9 DEF IInv

\* A resume clears the fault bit: from then on the guest stands for the fault.
LEMMA ClearBitKeeps ==
  ASSUME IInv, ClearFaultBit
  PROVE  IInv'
<1> USE Ids, Kinds
<1> DEFINE f == at["guest"]
<1>1. /\ UNCHANGED <<Outside, fifo, interrupt_stamp, irq, fifo_q, at, remaining, waits, dead, counts>>
      /\ pc["guest"] = "resume" /\ Turn("guest") /\ signal_mutex = "free"
      /\ fault_mask' \in {fault_mask, fault_mask \ {f}} /\ signal_mutex' \in {"resume", "free"}
      /\ Goto("guest", "clear")
  BY DEF ClearFaultBit
<1>2. \A g \in Fifos : (Still(g) => Still(g)') /\ (Coming(g) => Coming(g)')
  BY <1>1 DEF Still, fifo, Coming
<1>3. /\ SlotInv' /\ NodeInv' /\ RootInv' /\ GuestInv' /\ HostInv' /\ ControlTyped'
      /\ DrainInv' /\ WalkInv'
  <2>1. UNCHANGED <<run_state, stamp_memory, blob, present, node_running, quiesced, running,
                    remaining>>
    BY <1>1 DEF Outside, fifo
  <2>2. /\ fault_offset' \subseteq fault_offset /\ pc["guest"] \in Reading /\ "clear" \in Reading
        /\ SameDrains
    BY <1>1, DrainsUnchanged DEF fifo, waits, Reading
  <2> QED
    BY <1>1, <1>2, <2>1, <2>2, GuestMoves
<1>4. Typed'
  BY <1>1, <1>3 DEF Outside, fifo, counts, IInv, Typed, FifoTyped, SignalTyped, QueueTyped, RestTyped
<1>5. pc'["guest"] = "clear" /\ pc'["host"] = pc["host"]
  BY <1>1 DEF Goto, IInv, Typed, ControlTyped, Actors
<1>6. TurnInv'
  BY <1>1, <1>5 DEF IInv, TurnInv, HeadIsOf, Turn
<1>7. FaultInv' /\ dead' = "no"
  BY <1>1, <1>2, <1>5 DEF fifo, IInv, Typed, FifoTyped, FaultInv
<1> QED
  BY <1>3, <1>4, <1>6, <1>7 DEF IInv

\* A resume clears the fault offset, completes the faulted command, and ends its block.
LEMMA ResumeKeeps ==
  ASSUME IInv, ClearFaultOffset \/ resume_from_fault
  PROVE  IInv'
<1> USE Ids, Kinds
<1> DEFINE f == at["guest"]
<1>1. f \in Fifos
  BY DEF IInv, Typed, ControlTyped, Actors
<1>2. /\ UNCHANGED <<Outside, Slots, running, quiesced, reporting, fault_mask, irq, remaining, counts>>
      /\ pc["guest"] \in {"clear", "pump"}
      /\ \/ /\ pc["guest"] = "clear" /\ f \in present /\ fault_offset' = fault_offset \ {f}
            /\ Goto("guest", "pump") /\ UNCHANGED <<fifo_q, at>>
         \/ /\ pc["guest"] = "clear" => f \notin present
            /\ Leave /\ LookOn /\ UNCHANGED fault_offset
      /\ \/ UNCHANGED <<head, latch, interrupt_stamp, signal_mutex, dead>>
         \/ /\ head[f] = "faulted" /\ signal_stamp(f) /\ HeadIs(f, "none") /\ latch' = latch \ {f}
  BY DEF ClearFaultOffset, resume_from_fault, interrupts
<1>3. /\ dead' = "no" /\ interrupt_stamp' \subseteq Fifos /\ signal_mutex' # "report"
      /\ signal_mutex' \in {"free", "stamp", "resume"} /\ latch' \subseteq Fifos
      /\ head' \in [Fifos -> {"none", "busy", "faulted"}]
      /\ \A g \in Fifos : Still(g) => Still(g)'
  <2>1. signal_mutex # "report"
    BY <1>2 DEF IInv, TurnInv, HeadIsOf
  <2>2. CASE UNCHANGED <<head, latch, interrupt_stamp, signal_mutex, dead>>
    BY <1>2, <2>1, <2>2 DEF IInv, Typed, SignalTyped, FifoTyped, Still
  <2>3. CASE head[f] = "faulted" /\ signal_stamp(f) /\ HeadIs(f, "none") /\ latch' = latch \ {f}
    <3>1. ~Still(f)
      BY <2>3 DEF Still
    <3> QED
      BY <1>1, <1>2, <2>3, <3>1, Stamps DEF IInv, Typed, FifoTyped, Still, HeadIs
  <2> QED
    BY <1>2, <2>2, <2>3
<1>4. PICK l \in {"idle", "look", "pump"} : Goto("guest", l)
  BY <1>2, LooksOn
<1>5. /\ pc'["guest"] = l /\ pc'["host"] = pc["host"]
      /\ l = "pump" => /\ fifo_q' = fifo_q /\ fault_offset' = fault_offset \ {f}
      /\ l # "pump" => /\ Leave /\ fault_offset' = fault_offset
                       /\ (pc["guest"] = "clear" => f \notin present)
  BY <1>2, <1>4, LooksOn DEF Goto, IInv, Typed, ControlTyped, Actors
<1>6. /\ SlotInv' /\ NodeInv' /\ RootInv' /\ GuestInv' /\ HostInv' /\ ControlTyped'
      /\ DrainInv' /\ WalkInv'
  <2>1. UNCHANGED <<run_state, stamp_memory, blob, present, node_running, quiesced, running,
                    remaining>>
    BY <1>2 DEF Outside, Slots
  <2>2. /\ fault_offset' \subseteq fault_offset /\ pc["guest"] \in Reading /\ l \in Reading
        /\ pc["guest"] # "idle" /\ SameDrains
    BY <1>1, <1>2, DrainsUnchanged, NotifiedDrains DEF Reading, ClearFaultOffset, resume_from_fault, waits
  <2>3. at' = at \/ \E g \in Fifos : at' = [at EXCEPT !["guest"] = g]
    BY <1>2, LooksOn
  <2> QED
    BY <1>3, <1>4, <2>1, <2>2, <2>3, GuestMoves
<1>7. Turn("guest")
  BY <1>2 DEF IInv, TurnInv, HeadIsOf, Turn
<1>8. /\ QueueTyped' /\ (\A g \in Fifos : Coming(g) => Coming(g)') /\ pc["host"] # "u_root"
  <2>1. pc["host"] # "u_root"
    BY <1>7 DEF Turn, IInv, TurnInv, HeadIsOf
  <2>2. CASE l = "pump"
    BY <1>3, <1>5, <2>1, <2>2 DEF Coming, IInv, Typed, QueueTyped
  <2>3. CASE l # "pump"
    BY <1>3, <1>5, <1>7, <2>1, <2>3, SyncEnds
  <2> QED
    BY <2>2, <2>3
<1>9. Typed'
  <2>1. FifoTyped' /\ SignalTyped'
    BY <1>2, <1>3, <1>5 DEF Slots, IInv, Typed, FifoTyped, SignalTyped
  <2>2. RestTyped'
    BY <1>2 DEF Outside, counts, IInv, Typed, RestTyped
  <2> QED
    BY <1>6, <1>8, <2>1, <2>2 DEF Typed
<1>10. TurnInv'
  BY <1>3, <1>5, <1>7, <1>8 DEF TurnInv, HeadIsOf, Turn
<1>11. FaultInv'
  BY <1>2, <1>5, <1>8 DEF Slots, IInv, Typed, FifoTyped, FaultInv
<1> QED
  BY <1>3, <1>6, <1>9, <1>10, <1>11 DEF IInv

\* FifoEnable = 0 stops the root FIFO, and waits for it: from then on nobody defines a child.
RootEnds ==
  /\ pc["guest"] = "drain_root" /\ DrainReturns("guest", Root) /\ Goto("guest", "children")
  /\ UNCHANGED <<Outside, fifo, interrupts, fifo_q, at, remaining, counts>>

LEMMA DisableKeeps ==
  ASSUME IInv, Disable \/ RootEnds, Orderly'
  PROVE  IInv'
<1> USE Ids, Kinds
<1>1. /\ UNCHANGED <<Outside, Slots, running, latch, fault_offset, reporting, fault_mask, irq,
                     fifo_q, remaining, commands>>
      /\ dead' = "no" /\ interrupt_stamp' \subseteq Fifos /\ calls' \in 0..MaxCalls
      /\ head' \in [Fifos -> {"none", "busy", "faulted"}]
      /\ \/ signal_mutex' = signal_mutex
         \/ signal_mutex = "free" /\ signal_mutex' = "stamp"
      /\ \A g \in Fifos : Still(g) => Still(g)'
      /\ pc["host"] = "idle" /\ Root \in present
      /\ at' = [at EXCEPT !["guest"] = Root]
      /\ \/ /\ pc["guest"] = "idle" /\ Goto("guest", "drain_root")
            /\ quiesced' = quiesced \cup {Root} /\ SameDrains
         \/ /\ pc["guest"] = "drain_root" /\ Goto("guest", "children") /\ Still(Root)
            /\ quiesced' = quiesced /\ Returned("guest")
  <2>1. CASE Disable
    <3>1. calls' \in 0..MaxCalls
      BY <2>1 DEF Disable, Begins, IInv, Typed, RestTyped
    <3>2. pc["host"] = "idle"
      BY <2>1 DEF Disable, Meets, Orderly
    <3> QED
      BY <2>1, <3>1, <3>2, Quiesces DEF Disable
  <2>2. CASE RootEnds
    <3>1. /\ Root \in quiesced /\ Root \in present /\ pc["host"] = "idle" /\ at["guest"] = Root
          /\ at' = [at EXCEPT !["guest"] = Root]
      BY <2>2 DEF RootEnds, IInv, GuestInv, EnableWritten, TearingDown, Typed, ControlTyped
    <3>2. Still(Root) /\ dead' = "no" /\ Returned("guest")
      BY <2>2, <3>1, DrainEnds DEF RootEnds
    <3> QED
      BY <2>2, <3>1, <3>2 DEF RootEnds, fifo, Slots, interrupts, counts, IInv, Typed, FifoTyped,
                              SignalTyped, RestTyped, Still
  <2> QED
    BY <2>1, <2>2
<1>2. /\ ControlTyped' /\ pc'["host"] = "idle" /\ pc'["root"] = pc["root"]
      /\ at'["host"] = at["host"] /\ at'["root"] = at["root"]
      /\ \/ pc["guest"] = "idle" /\ pc'["guest"] = "drain_root"
         \/ pc["guest"] = "drain_root" /\ pc'["guest"] = "children"
      /\ at'["guest"] = Root
  BY <1>1 DEF Goto, IInv, Typed, ControlTyped, Actors, GuestPCs
<1>3. Typed'
  <2>1. FifoTyped'
    BY <1>1 DEF Slots, IInv, Typed, FifoTyped
  <2>2. SignalTyped'
    BY <1>1 DEF IInv, Typed, SignalTyped
  <2>3. RestTyped' /\ QueueTyped'
    BY <1>1 DEF Outside, IInv, Typed, RestTyped, QueueTyped
  <2> QED
    BY <1>2, <2>1, <2>2, <2>3 DEF Typed
<1>4. SlotInv' /\ NodeInv' /\ RootInv'
  BY <1>1, <1>2 DEF Outside, Slots, IInv, SlotInv, BeingDeleted, Deleting, NodeInv, Away, RootInv
<1>5. GuestInv'
  <2>1. \A c \in present : c = Root \/ c > Root
    BY DEF IInv, Typed, FifoTyped
  <2> QED
    BY <1>1, <1>2, <2>1 DEF Slots, GuestInv, EnableWritten, TearingDown, DeletePCs
<1>6. HostInv'
  BY <1>1, <1>2 DEF Outside, IInv, HostInv, Stopped
<1>7. TurnInv'
  BY <1>1, <1>2 DEF IInv, TurnInv
<1>8. FaultInv'
  <2>1. \A g \in Fifos : Coming(g) => Coming(g)'
    BY <1>1 DEF Coming
  <2> QED
    BY <1>1, <1>2, <2>1 DEF Slots, IInv, Typed, FifoTyped, FaultInv
<1>9. WalkInv'
  BY <1>2 DEF WalkInv
<1>10. DrainInv'
  <2>1. /\ running' = running /\ present' = present
        /\ \A a \in Actors \ {"guest"} : pc'[a] = pc[a] /\ at'[a] = at[a]
    BY <1>1, <1>2 DEF Slots, Actors
  <2>2. CASE pc["guest"] = "idle" /\ SameDrains /\ quiesced' = quiesced \cup {Root}
    <3>1. draining["guest"] = "no"
      BY <2>2 DEF IInv, DrainInv, InDrain
    <3> QED
      BY <1>1, <2>1, <2>2, <3>1, OthersDrain
  <2>3. CASE Returned("guest") /\ quiesced' = quiesced
    BY <2>1, <2>3, DrainsAfter
  <2> QED
    BY <1>1, <2>2, <2>3
<1> QED
  BY <1>1, <1>3, <1>4, <1>5, <1>6, <1>7, <1>8, <1>9, <1>10 DEF IInv

\* The teardown's drain of the root FIFO, while it goes on and when it returns.
LEMMA RootDrainKeeps ==
  ASSUME IInv, DrainRoot, Orderly'
  PROVE  IInv'
<1>1. Root \in quiesced /\ at["guest"] = Root /\ "guest" \in Actors /\ Root \in Fifos
  BY Ids DEF DrainRoot, IInv, GuestInv, Actors
<1>2. CASE DrainGoesOn("guest", Root) /\ UNCHANGED pc
  <2>1. pc["guest"] \in InDrain /\ at' = at
    BY DEF DrainRoot, InDrain
  <2> QED
    BY <1>1, <1>2, <2>1, WaitingKeeps DEF DrainRoot
<1>3. CASE RootEnds
  BY <1>3, DisableKeeps
<1> QED
  BY <1>2, <1>3 DEF DrainRoot, RootEnds

\* The teardown takes the children in order of their ids.
LEMMA NextChildKeeps ==
  ASSUME IInv, NextChild
  PROVE  IInv'
<1> USE Ids, Kinds
<1> DEFINE left == After(at["guest"]) \cap present
<1>1. /\ UNCHANGED <<Outside, fifo, interrupts, fifo_q, remaining, waits, dead, counts>>
      /\ pc["guest"] = "children"
      /\ \/ left = {} /\ Goto("guest", "release") /\ at' = at
         \/ /\ left # {} /\ Goto("guest", "delete")
            /\ at' = [at EXCEPT !["guest"] = First(left)]
  BY DEF NextChild
<1>2. /\ present \subseteq Fifos /\ at["guest"] \in Fifos
      /\ \A c \in present : c = Root \/ c \in left
  BY <1>1 DEF IInv, Typed, FifoTyped, ControlTyped, Actors, GuestInv, After
<1>3. left # {} => /\ First(left) \in Children /\ First(left) \in Fifos
                   /\ \A c \in present : c = Root \/ c >= First(left)
  <2> SUFFICES ASSUME left # {}
               PROVE  /\ First(left) \in Children /\ First(left) \in Fifos
                      /\ \A c \in present : c = Root \/ c >= First(left)
    OBVIOUS
  <2>1. left \in SUBSET Fifos
    BY <1>2
  <2>2. First(left) \in left /\ \A g \in left : First(left) <= g
    BY <2>1, FirstIs
  <2>3. Root \notin left
    <3>1. at["guest"] \in Nat
      BY <1>2
    <3> QED
      BY <3>1 DEF After, Root
  <2>4. \A c \in Fifos : c \in Nat /\ First(left) \in Nat
    BY <2>1, <2>2
  <2> QED
    BY <1>2, <2>1, <2>2, <2>3, <2>4
<1>4. /\ ControlTyped' /\ pc'["host"] = pc["host"] /\ pc'["root"] = pc["root"]
      /\ at'["host"] = at["host"] /\ at'["root"] = at["root"]
      /\ \/ left = {} /\ pc'["guest"] = "release"
         \/ left # {} /\ pc'["guest"] = "delete" /\ at'["guest"] = First(left)
  BY <1>1, <1>3 DEF Goto, IInv, Typed, ControlTyped, Actors, GuestPCs, DeletePCs
<1>5. Still(Root) /\ Still(Root)' /\ Root \in present /\ pc["host"] = "idle"
  BY <1>1 DEF IInv, GuestInv, EnableWritten, TearingDown, Still, fifo
<1>6. Typed'
  BY <1>1, <1>4 DEF Outside, fifo, interrupts, counts, IInv, Typed, FifoTyped, SignalTyped,
                    QueueTyped, RestTyped
<1>7. SlotInv' /\ NodeInv' /\ RootInv'
  BY <1>1, <1>4 DEF Outside, fifo, IInv, SlotInv, Still, BeingDeleted, Deleting, NodeInv, Away, RootInv
<1>8. GuestInv'
  BY <1>1, <1>2, <1>3, <1>4, <1>5 DEF fifo, GuestInv, EnableWritten, TearingDown, DeletePCs
<1>9. HostInv'
  BY <1>1, <1>4, <1>5 DEF Outside, IInv, HostInv, Stopped
<1>10. TurnInv' /\ FaultInv' /\ dead' = "no"
  BY <1>1, <1>4 DEF fifo, interrupts, IInv, TurnInv, HeadIsOf, FaultInv, Coming
<1>11. DrainInv' /\ WalkInv'
  <2>1. /\ SameDrains /\ draining["guest"] = "no"
        /\ \A a \in Actors \ {"guest"} : pc'[a] = pc[a] /\ at'[a] = at[a]
    BY <1>1, <1>4, DrainsUnchanged DEF waits, IInv, DrainInv, InDrain, Actors
  <2>2. /\ UNCHANGED <<running, quiesced, present>> /\ \A g \in Fifos : Still(g) => Still(g)'
    BY <1>1 DEF fifo, Still
  <2> QED
    BY <2>1, <2>2, OthersDrain
<1> QED
  BY <1>6, <1>7, <1>8, <1>9, <1>10, <1>11 DEF IInv

\* The teardown lets the root FIFO and the stamp memory go, when nothing is left to write a stamp.
LEMMA ReleaseKeeps ==
  ASSUME IInv, ReleaseRoot
  PROVE  IInv'
<1> USE Ids, Kinds
<1>1. /\ UNCHANGED <<run_state, blob, node_running, running, quiesced, head, latch, reporting,
                     interrupt_stamp, signal_mutex, irq, fifo_q, at, remaining, waits, dead, counts>>
      /\ \/ /\ pc["guest"] = "release" /\ Goto("guest", "mask")
            /\ stamp_memory' = FALSE /\ present' = present \ {Root}
            /\ fault_offset' = fault_offset \ {Root} /\ fault_mask' = fault_mask
         \/ /\ pc["guest"] = "mask" /\ Goto("guest", "idle") /\ fault_mask' = {}
            /\ UNCHANGED <<stamp_memory, present, fault_offset>>
  BY DEF ReleaseRoot
<1>2. /\ Still(Root) /\ pc["host"] = "idle" /\ pc["root"] = "idle"
      /\ pc["guest"] = "release" => present \subseteq {Root} /\ Root \in present
      /\ pc["guest"] = "mask" => present = {}
      /\ \A g \in Fifos : Still(g) => Still(g)'
  <2>1. pc["root"] = "idle"
    BY <1>1, RootWorks
  <2> QED
    BY <1>1, <2>1 DEF IInv, GuestInv, EnableWritten, TearingDown, Still
<1>3. present' = {} /\ fault_offset' \subseteq fault_offset /\ Root \notin fault_offset'
  BY <1>1, <1>2 DEF IInv, SlotInv
<1>4. /\ ControlTyped' /\ pc'["host"] = "idle" /\ pc'["root"] = "idle"
      /\ pc'["guest"] \in {"mask", "idle"}
  BY <1>1, <1>2 DEF Goto, IInv, Typed, ControlTyped, Actors, GuestPCs
<1>5. Typed'
  <2>1. FifoTyped' /\ QueueTyped'
    BY <1>1, <1>3 DEF IInv, Typed, FifoTyped, QueueTyped
  <2>2. SignalTyped'
    BY <1>1 DEF IInv, Typed, SignalTyped
  <2>3. stamp_memory' \in BOOLEAN
    BY <1>1, Zenon DEF IInv, Typed, RestTyped
  <2>4. RestTyped'
    BY <1>1, <2>3 DEF counts, IInv, Typed, RestTyped
  <2> QED
    BY <1>4, <2>1, <2>2, <2>4 DEF Typed
<1>6. SlotInv'
  <2>1. \A g \in Fifos : Still(g)
    BY <1>1, <1>2 DEF IInv, SlotInv, BeingDeleted, Deleting
  <2>2. ~stamp_memory'
    BY <1>1, <1>2 DEF IInv, SlotInv
  <2> QED
    BY <1>2, <1>3, <1>4, <2>1, <2>2 DEF SlotInv
<1>7. NodeInv' /\ RootInv'
  <2>1. node_running = {}
    BY <1>1, <1>2 DEF IInv, NodeInv, Away, Typed, FifoTyped
  <2> QED
    BY <1>1, <1>4, <2>1 DEF NodeInv, RootInv
<1>8. GuestInv'
  BY <1>2, <1>3, <1>4 DEF GuestInv, EnableWritten, TearingDown, DeletePCs
<1>9. HostInv'
  BY <1>1, <1>2, <1>4 DEF IInv, HostInv, Stopped
<1>10. TurnInv' /\ FaultInv' /\ dead' = "no"
  BY <1>1, <1>3, <1>4 DEF IInv, TurnInv, FaultInv
<1>11. DrainInv' /\ WalkInv'
  <2>1. \A a \in Actors : draining[a] = "no"
    BY <1>1, <1>2 DEF IInv, DrainInv, InDrain, Actors
  <2> QED
    BY <1>1, <1>4, <2>1 DEF waits, IInv, DrainInv, Past, WalkInv
<1> QED
  BY <1>5, <1>6, <1>7, <1>8, <1>9, <1>10, <1>11 DEF IInv

\* FifoEnable = 1 makes a new root FIFO, which shows no fault, and starts it.
LEMMA EnableKeeps ==
  ASSUME IInv, enable_fifo, Orderly'
  PROVE  IInv'
<1> USE Ids, Kinds
<1>1. /\ pc["host"] = "idle"
      /\ \/ /\ pc["guest"] = "idle" /\ Goto("guest", "enable") /\ Root \notin present
            /\ latch' = latch \ {Root} /\ running' = running
         \/ /\ pc["guest"] = "enable" /\ Goto("guest", "idle") /\ Root \in present
            /\ latch' = latch /\ running' = running \cup {Root} /\ stamp_memory' = stamp_memory
      /\ quiesced' = quiesced \ {Root} /\ node_running' = node_running
      /\ present' = present \cup {Root}
      /\ stamp_memory' = TRUE \/ stamp_memory' = stamp_memory
      /\ UNCHANGED <<run_state, blob, head, fault_offset, reporting, interrupts, fifo_q, at,
                     remaining, draining, dead, counts>>
  <2>1. CASE pc["guest"] = "idle"
    <3>1. pc["host"] = "idle"
      BY <2>1 DEF enable_fifo, Meets, Orderly
    <3> QED
      BY <2>1, <3>1 DEF enable_fifo
  <2>2. CASE pc["guest"] = "enable"
    <3>1. pc["host"] = "idle" /\ Root \in present
      BY <2>2 DEF IInv, GuestInv, EnableWritten, TearingDown
    <3>2. present \cap {Root} = {Root} /\ present' = present \cup {Root}
      BY <2>2, <3>1 DEF enable_fifo
    <3> QED
      BY <2>2, <3>1, <3>2 DEF enable_fifo, start
  <2> QED
    BY <2>1, <2>2 DEF enable_fifo
<1>2. /\ Still(Root) /\ pc["root"] = "idle"
      /\ Root \notin present => present = {} /\ Root \notin fault_offset
  <2>1. pc["guest"] = "idle" => pc["root"] = "idle"
    BY <1>1, RootWorks
  <2>2. Root \notin present => present = {} /\ Root \notin fault_offset
    BY DEF IInv, SlotInv
  <2>3. CASE pc["guest"] = "idle"
    BY <1>1, <2>1, <2>2, <2>3 DEF IInv, SlotInv, BeingDeleted, Deleting
  <2>4. CASE pc["guest"] = "enable"
    <3>1. Still(Root)
      BY <2>4 DEF IInv, GuestInv, EnableWritten
    <3> QED
      BY <2>2, <3>1 DEF Still, IInv, RootInv
  <2> QED
    BY <1>1, <2>3, <2>4
<1>3. /\ ControlTyped' /\ pc'["host"] = "idle" /\ pc'["root"] = "idle" /\ at' = at
      /\ \/ pc["guest"] = "idle" /\ pc'["guest"] = "enable" /\ Still(Root)'
         \/ pc["guest"] = "enable" /\ pc'["guest"] = "idle"
  BY <1>1, <1>2 DEF Goto, IInv, Typed, ControlTyped, Actors, GuestPCs, Still
<1>4. stamp_memory' = TRUE /\ present' = present \cup {Root}
  BY <1>1 DEF enable_fifo, IInv, SlotInv, Typed, RestTyped
<1>5. Typed'
  <2>1. FifoTyped'
    BY <1>1, <1>4 DEF IInv, Typed, FifoTyped
  <2>2. SignalTyped' /\ QueueTyped'
    BY <1>1 DEF interrupts, IInv, Typed, SignalTyped, QueueTyped
  <2>3. RestTyped'
    BY <1>1, <1>4 DEF counts, IInv, Typed, RestTyped
  <2> QED
    BY <1>3, <2>1, <2>2, <2>3 DEF Typed
<1>6. SlotInv'
  <2>1. \A f \in Fifos \ present' : Still(f)'
    BY <1>1, <1>2, <1>4 DEF IInv, SlotInv, Still, BeingDeleted, Deleting
  <2> QED
    BY <1>3, <1>4, <2>1 DEF SlotInv
<1>7. NodeInv' /\ RootInv'
  BY <1>1, <1>2, <1>3, <1>4 DEF IInv, NodeInv, Away, RootInv
<1>8. GuestInv' /\ HostInv'
  BY <1>1, <1>2, <1>3, <1>4 DEF IInv, GuestInv, EnableWritten, TearingDown, DeletePCs, HostInv, Stopped
<1>9. TurnInv' /\ FaultInv' /\ dead' = "no"
  <2>1. \A g \in Fifos : Coming(g) => Coming(g)'
    BY <1>1 DEF Coming, interrupts
  <2> QED
    BY <1>1, <1>2, <1>3, <1>4, <2>1 DEF interrupts, IInv, Typed, FifoTyped, TurnInv, FaultInv
<1>10. DrainInv' /\ WalkInv'
  <2>1. \A a \in Actors : draining[a] = "no"
    BY <1>1, <1>2 DEF IInv, DrainInv, InDrain, Actors
  <2> QED
    BY <1>1, <1>3, <2>1 DEF IInv, DrainInv, Past, WalkInv
<1> QED
  BY <1>5, <1>6, <1>7, <1>8, <1>9, <1>10 DEF IInv

-----------------------------------------------------------------------------
(* The host *)

\* Steps of the host that move nobody else, no slot and no node, and wake no FIFO.
LEMMA HostGoes ==
  ASSUME IInv, NEW l \in HostPCs \ {"u_root"}, Goto("host", l), ~EnableWritten,
         \/ at' = at
         \/ \E f \in Fifos : at' = [at EXCEPT !["host"] = f],
         UNCHANGED <<stamp_memory, blob, present, node_running, running, fault_offset, reporting,
                     fault_mask, remaining>>,
         quiesced \subseteq quiesced', \A g \in Fifos : Still(g) => Still(g)',
         pc["host"] \notin {"suspended", "resume"}, pc["host"] \notin Away \/ l \in Away,
         \/ fifo_q' = fifo_q
         \/ Queue("host") /\ signal_mutex' = signal_mutex,
         \/ signal_mutex' = signal_mutex
         \/ signal_mutex = "free" /\ signal_mutex' = "stamp"
  PROVE  /\ ControlTyped' /\ QueueTyped' /\ SlotInv' /\ NodeInv' /\ RootInv' /\ GuestInv'
         /\ TurnInv' /\ FaultInv'
         /\ pc'["host"] = l /\ pc'["guest"] = pc["guest"] /\ pc'["root"] = pc["root"]
<1> USE Ids, Kinds
<1>1. /\ pc'["host"] = l /\ pc'["guest"] = pc["guest"] /\ pc'["root"] = pc["root"]
      /\ at'["guest"] = at["guest"] /\ at'["root"] = at["root"] /\ ControlTyped'
  BY DEF Goto, IInv, Typed, ControlTyped, Actors
<1>2. /\ QueueTyped' /\ (fifo_q # << >> => fifo_q' # << >> /\ Head(fifo_q') = Head(fifo_q))
      /\ \A f \in Fifos : Coming(f) => Coming(f)'
  <2>1. CASE fifo_q' = fifo_q
    BY <2>1 DEF Coming, IInv, Typed, QueueTyped
  <2>2. CASE Queue("host") /\ signal_mutex' = signal_mutex
    BY <2>2, SyncQueued
  <2> QED
    BY <2>1, <2>2
<1>3. SlotInv'
  BY <1>1 DEF IInv, SlotInv, BeingDeleted, Deleting
<1>4. NodeInv'
  BY <1>1 DEF IInv, NodeInv, Away
<1>5. RootInv' /\ GuestInv'
  BY <1>1 DEF IInv, RootInv, GuestInv, EnableWritten, TearingDown, DeletePCs
<1>6. TurnInv'
  BY <1>1, <1>2 DEF IInv, TurnInv, HeadIsOf
<1>7. FaultInv'
  BY <1>1, <1>2 DEF IInv, Typed, FifoTyped, FaultInv
<1> QED
  BY <1>1, <1>2, <1>3, <1>4, <1>5, <1>6, <1>7

\* With the root FIFO drained and no teardown, the FIFOs out of their slots are all still.
LEMMA OthersStill ==
  ASSUME IInv, Still(Root), ~EnableWritten
  PROVE  \A f \in Fifos \ present : Still(f)
<1>1. pc["root"] = "idle"
  BY RootWorks
<1> QED
  BY <1>1 DEF IInv, SlotInv, BeingDeleted, Deleting, EnableWritten, TearingDown

\* The steps that only change the run state, and where the host is.
LEMMA HostTurnsKeep ==
  ASSUME IInv, \/ PauseBegins \/ PauseEnds \/ UnpauseBegins \/ SuspendBegins \/ FinishBegins
               \/ ResumeRuns \/ HostInterrupts("u_interrupt") \/ HostInterrupts("r_interrupt"),
         Orderly'
  PROVE  IInv'
<1> USE Ids, Kinds
<1>1. /\ UNCHANGED <<fifo, fault_mask, interrupt_stamp, signal_mutex, dead, stamp_memory, blob, at,
                     remaining, commands, draining>>
      /\ irq' \in {irq, Raised(irq)} /\ calls' \in 0..MaxCalls /\ run_state' \in RunStates
      /\ fifo_q' = fifo_q \/ Queue("host")
      /\ pc["host"] \in {"idle", "pausing", "paused", "suspending", "r_run", "u_interrupt",
                         "r_interrupt"}
  BY DEF PauseBegins, PauseEnds, UnpauseBegins, SuspendBegins, FinishBegins, ResumeRuns,
         HostInterrupts, Host, KeepRest, Begins, interrupts, waits, RunStates, IInv, Typed, RestTyped
<1>2. ~EnableWritten
  <2>1. CASE PauseBegins \/ SuspendBegins
    BY <2>1 DEF PauseBegins, SuspendBegins, Meets, Orderly
  <2>2. CASE ~(PauseBegins \/ SuspendBegins)
    BY <2>2 DEF PauseEnds, UnpauseBegins, FinishBegins, ResumeRuns, HostInterrupts, Host, IInv, GuestInv
  <2> QED
    BY <2>1, <2>2
<1>3. PICK l \in {"pause", "paused", "u_start", "suspend", "f_child", "r_start", "idle"} :
        /\ Goto("host", l)
        /\ l = "pause" => run_state' = "Running"
        /\ l = "paused" => pc["host"] = "pausing" /\ run_state' = "Paused"
        /\ l = "u_start" => run_state' = "Running"
        /\ l = "suspend" => run_state' = "EnteringSuspend" /\ pc["host"] \in {"idle", "paused"}
        /\ l = "f_child" => /\ pc["host"] = "suspending" /\ pc["guest"] = "idle"
                            /\ run_state' = "Suspended"
        /\ l = "r_start" => run_state' = "Running" /\ pc["host"] = "r_run"
        /\ l = "idle" => run_state' = run_state /\ pc["host"] \in {"u_interrupt", "r_interrupt"}
        /\ l = "f_child" \/ pc["host"] \notin Away
  BY DEF PauseBegins, PauseEnds, UnpauseBegins, SuspendBegins, FinishBegins, ResumeRuns,
         HostInterrupts, Host, Away
<1>4. \A g \in Fifos : Still(g) => Still(g)'
  BY <1>1 DEF Still, fifo
<1>5. /\ ControlTyped' /\ QueueTyped' /\ SlotInv' /\ NodeInv' /\ RootInv' /\ GuestInv'
      /\ TurnInv' /\ FaultInv'
      /\ pc'["host"] = l /\ pc'["guest"] = pc["guest"] /\ pc'["root"] = pc["root"]
  <2>1. UNCHANGED <<stamp_memory, blob, present, node_running, running, fault_offset, reporting,
                    fault_mask, remaining>> /\ quiesced' = quiesced /\ at' = at
    BY <1>1 DEF fifo
  <2>2. l \in HostPCs \ {"u_root"} /\ (pc["host"] \notin Away \/ l \in Away)
    BY <1>3 DEF HostPCs, Away
  <2> QED
    BY <1>1, <1>2, <1>3, <1>4, <2>1, <2>2, HostGoes
<1>6. Typed'
  <2>1. irq' \in BOOLEAN
    BY <1>1, Zenon DEF Raised, IInv, Typed, SignalTyped
  <2>2. FifoTyped' /\ SignalTyped' /\ RestTyped'
    BY <1>1, <2>1 DEF fifo, IInv, Typed, FifoTyped, SignalTyped, RestTyped
  <2> QED
    BY <1>5, <2>2 DEF Typed
<1>7. HostInv'
  <2>1. at["host"] = Root
    BY <1>1 DEF IInv, HostInv
  <2>2. present' = present /\ quiesced' = quiesced /\ at' = at
    BY <1>1 DEF fifo
  <2> QED
    BY <1>1, <1>3, <1>4, <1>5, <2>1, <2>2 DEF IInv, HostInv, Stopped, vCPUsRun, NoDefine
<1>8. DrainInv' /\ WalkInv'
  <2>1. /\ SameDrains /\ pc["host"] \notin InDrain /\ UNCHANGED <<quiesced, running, present>>
        /\ \A a \in Actors \ {"host"} : pc'[a] = pc[a] /\ at'[a] = at[a]
    BY <1>1, <1>5, DrainsUnchanged DEF fifo, InDrain, Actors
  <2>2. DrainInv' /\ (pc'["host"] # "f_child" => WalkInv')
    BY <1>5, <2>1, HostDrainsNot
  <2>3. pc'["host"] = "f_child" => WalkInv'
    <3>1. at'["host"] = Root /\ draining'["host"] = "no" /\ \A c \in present : c = Root \/ c > Root
      BY <1>1, <2>1 DEF IInv, HostInv, Typed, FifoTyped, DrainInv
    <3> QED
      BY <2>1, <3>1 DEF WalkInv
  <2> QED
    BY <2>2, <2>3
<1> QED
  BY <1>1, <1>5, <1>6, <1>7, <1>8 DEF IInv

\* The host quiesces the root FIFO, for a pause or for a suspend that meets no define.
LEMMA QuiesceRootKeeps ==
  ASSUME IInv, NEW from, NEW to, QuiesceRoot(from, to),
         \/ from = "pause" /\ to = "p_root"
         \/ from = "suspend" /\ to = "s_children" /\ NoDefine
  PROVE  IInv'
<1> USE Ids, Kinds
<1>1. /\ pc["host"] = from /\ Goto("host", to)
      /\ UNCHANGED <<run_state, Slots, calls, stamp_memory, blob, fifo_q, at, remaining, commands>>
      /\ UNCHANGED <<running, latch, fault_offset, reporting, fault_mask, irq>>
      /\ dead' = "no" /\ interrupt_stamp' \subseteq Fifos
      /\ head' \in [Fifos -> {"none", "busy", "faulted"}]
      /\ quiesced' \in {quiesced, quiesced \cup {Root}}
      /\ Root \in present => Root \in quiesced'
      /\ \/ signal_mutex' = signal_mutex
         \/ signal_mutex = "free" /\ signal_mutex' = "stamp"
      /\ SameDrains /\ \A g \in Fifos : Still(g) => Still(g)'
  <2>1. CASE Root \in present
    BY <2>1, Quiesces DEF QuiesceRoot, Host, KeepRest
  <2>2. CASE Root \notin present
    BY <2>2, DrainsUnchanged DEF QuiesceRoot, Host, KeepRest, interrupts, Still, IInv, Typed, FifoTyped, SignalTyped
  <2> QED
    BY <2>1, <2>2
<1>2. ~EnableWritten
  BY <1>1 DEF IInv, GuestInv
<1>3. /\ ControlTyped' /\ QueueTyped' /\ SlotInv' /\ NodeInv' /\ RootInv' /\ GuestInv'
      /\ TurnInv' /\ FaultInv'
      /\ pc'["host"] = to /\ pc'["guest"] = pc["guest"] /\ pc'["root"] = pc["root"]
  <2>1. /\ UNCHANGED <<stamp_memory, blob, present, node_running, running, fault_offset, reporting,
                       fault_mask, remaining>>
        /\ quiesced \subseteq quiesced'
    BY <1>1 DEF Slots
  <2>2. to \in HostPCs \ {"u_root"} /\ pc["host"] \notin Away /\ pc["host"] \notin {"suspended", "resume"}
    BY <1>1 DEF HostPCs, Away
  <2> QED
    BY <1>1, <1>2, <2>1, <2>2, HostGoes
<1>4. Typed'
  <2>1. FifoTyped'
    BY <1>1 DEF Slots, IInv, Typed, FifoTyped
  <2>2. SignalTyped'
    BY <1>1 DEF IInv, Typed, SignalTyped
  <2>3. RestTyped'
    BY <1>1 DEF IInv, Typed, RestTyped
  <2> QED
    BY <1>3, <2>1, <2>2, <2>3 DEF Typed
<1>5. HostInv'
  <2>1. at["host"] = Root /\ run_state' # "Paused" /\ present' = present
    BY <1>1 DEF IInv, HostInv, Slots
  <2>2. \A c \in present : c = Root \/ c > Root
    BY DEF IInv, Typed, FifoTyped
  <2> QED
    BY <1>1, <1>3, <2>1, <2>2 DEF HostInv, Stopped, NoDefine
<1>6. DrainInv' /\ WalkInv'
  <2>1. /\ pc["host"] \notin InDrain /\ pc'["host"] \notin {"p_children_drain", "f_child"}
        /\ \A a \in Actors \ {"host"} : pc'[a] = pc[a] /\ at'[a] = at[a]
    BY <1>1, <1>3 DEF InDrain, Actors
  <2> QED
    BY <1>1, <2>1, HostDrainsNot
<1> QED
  BY <1>1, <1>3, <1>4, <1>5, <1>6 DEF IInv

\* The host is done with the root FIFO: it is not there, or its drain returns.
RootDrained(from, to) ==
  /\ pc["host"] = from /\ Goto("host", to)
  /\ \/ draining["host"] = "no" /\ Root \notin present /\ UNCHANGED <<waits, dead>>
     \/ DrainReturns("host", Root)
  /\ UNCHANGED <<run_state, fifo, interrupts, calls>> /\ KeepRest

\* Nobody works for a root FIFO that is drained.
LEMMA RootDrainedKeeps ==
  ASSUME IInv, NEW from, NEW to, RootDrained(from, to),
         \/ from = "p_root" /\ to = "p_children"
         \/ from = "f_root" /\ to = "serialize"
  PROVE  IInv'
<1> USE Ids, Kinds
<1>1. /\ pc["host"] = from /\ Goto("host", to)
      /\ UNCHANGED <<run_state, fifo, interrupts, calls, stamp_memory, blob, fifo_q, at, remaining,
                     commands>>
  BY DEF RootDrained, KeepRest
<1>2. ~EnableWritten /\ at["host"] = Root
  BY <1>1 DEF IInv, GuestInv, HostInv
<1>8. \A a \in Actors \ {"host"} : pc'[a] = pc[a] /\ at'[a] = at[a]
  BY <1>1 DEF Goto, IInv, Typed, ControlTyped
<1>3. Still(Root) /\ dead' = "no" /\ DrainInv'
  <2>1. CASE DrainReturns("host", Root)
    <3>1. Still(Root) /\ dead' = "no" /\ Returned("host")
      BY <1>2, <2>1, DrainEnds
    <3> QED
      BY <1>1, <1>8, <3>1, DrainsAfter DEF fifo
  <2>2. CASE draining["host"] = "no" /\ Root \notin present /\ UNCHANGED <<waits, dead>>
    <3>1. Still(Root) /\ dead' = "no"
      BY <2>2, Alive DEF IInv
    <3>2. SameDrains
      BY <2>2, DrainsUnchanged DEF waits
    <3> QED
      BY <1>1, <1>8, <2>2, <3>1, <3>2, HostDrainsNot DEF fifo
  <2> QED
    BY <2>1, <2>2 DEF RootDrained
<1>4. \A g \in Fifos : Still(g) => Still(g)'
  BY <1>1 DEF Still, fifo
<1>5. /\ ControlTyped' /\ QueueTyped' /\ SlotInv' /\ NodeInv' /\ RootInv' /\ GuestInv'
      /\ TurnInv' /\ FaultInv'
      /\ pc'["host"] = to /\ pc'["guest"] = pc["guest"] /\ pc'["root"] = pc["root"]
  <2>1. /\ UNCHANGED <<stamp_memory, blob, present, node_running, running, fault_offset, reporting,
                       fault_mask, remaining, signal_mutex>>
        /\ quiesced' = quiesced
    BY <1>1 DEF fifo, interrupts
  <2>2. /\ to \in HostPCs \ {"u_root"} /\ (pc["host"] \notin Away \/ to \in Away)
        /\ pc["host"] \notin {"suspended", "resume"}
    BY <1>1 DEF HostPCs, Away
  <2> QED
    BY <1>1, <1>2, <1>4, <2>1, <2>2, HostGoes
<1>6. Typed'
  BY <1>1, <1>5 DEF fifo, interrupts, IInv, Typed, FifoTyped, SignalTyped, RestTyped
<1>7. HostInv'
  <2>1. at["host"] = Root /\ run_state # "Paused" /\ present' = present
    BY <1>1 DEF IInv, HostInv, fifo
  <2>2. \A c \in present : c = Root \/ c > Root
    BY DEF IInv, Typed, FifoTyped
  <2>3. to = "serialize" => /\ \A f \in Fifos : Still(f)' 
                            /\ present \subseteq {Root} /\ pc["guest"] = "idle" /\ ~vCPUsRun
    <3>1. pc["host"] = "f_root" => /\ present \subseteq {Root} /\ pc["guest"] = "idle"
                                   /\ ~vCPUsRun
      BY DEF IInv, HostInv, Stopped
    <3> QED
      BY <1>1, <1>2, <1>3, <1>4, <3>1, OthersStill
  <2> QED
    BY <1>1, <1>3, <1>4, <1>5, <2>1, <2>2, <2>3 DEF HostInv, Stopped, NoDefine, vCPUsRun
<1>9. WalkInv'
  BY <1>5 DEF WalkInv
<1> QED
  BY <1>3, <1>5, <1>6, <1>7, <1>9 DEF IInv

\* The host drains the root FIFO, which was quiesced.
LEMMA DrainRootKeeps ==
  ASSUME IInv, NEW from, NEW to, HostDrainsRoot(from, to),
         \/ from = "p_root" /\ to = "p_children"
         \/ from = "f_root" /\ to = "serialize"
  PROVE  IInv'
<1>1. CASE RootDrained(from, to)
  BY <1>1, RootDrainedKeeps
<1>2. CASE (draining["host"] # "no" \/ Root \in present) /\ DrainGoesOn("host", Root) /\ pc' = pc
  <2>1. /\ UNCHANGED <<Outside, fifo, interrupts, fifo_q, remaining, counts>> /\ at' = at
        /\ pc["host"] = from
    BY DEF HostDrainsRoot, KeepRest, Outside, counts
  <2>2. at["host"] = Root /\ Root \in quiesced /\ "host" \in Actors /\ Root \in Fifos
    BY <1>2, <2>1, Ids, Kinds DEF IInv, HostInv, DrainInv
  <2>3. pc["host"] \in InDrain /\ pc["host"] # "f_child"
    BY <2>1 DEF InDrain
  <2> QED
    BY <1>2, <2>1, <2>2, <2>3, WaitingKeeps
<1> QED
  BY <1>1, <1>2 DEF HostDrainsRoot, RootDrained

\* Where a walk over the children goes on: the first one present of those ahead of it.
LEMMA WalksOn ==
  ASSUME IInv
  PROVE  /\ Unvisited = {} => \A c \in present : ~(c > at["host"])
         /\ Unvisited # {} =>
              /\ First(Unvisited) \in present /\ First(Unvisited) \in Children
              /\ \A c \in present : c > First(Unvisited) \/ c = First(Unvisited) \/ ~(c > at["host"])
<1> USE Ids
<1>1. present \subseteq Fifos /\ at["host"] \in Fifos
  BY Kinds DEF IInv, Typed, FifoTyped, ControlTyped
<1>2. Unvisited \in SUBSET Fifos /\ \A c \in present : c \in Unvisited <=> c > at["host"]
  BY <1>1 DEF Unvisited, After
<1>3. CASE Unvisited = {}
  BY <1>2, <1>3
<1>4. CASE Unvisited # {}
  <2> DEFINE c == First(Unvisited)
  <2>1. c \in Unvisited /\ \A g \in Unvisited : c <= g
    BY <1>2, <1>4, FirstIs
  <2>2. c \in present /\ c \in Fifos /\ c > at["host"]
    BY <1>2, <2>1 DEF Unvisited, After
  <2>3. c \in Children
    <3>1. at["host"] \in Nat /\ c \in Nat
      BY <1>1, <2>2
    <3>2. c # 0
      BY <2>2, <3>1
    <3>3. c # Root
      BY <3>2 DEF Root
    <3> QED
      BY <2>2, <3>3
  <2>4. \A g \in present : g \in Nat /\ c \in Nat
    BY <1>1, <2>2
  <2>5. \A g \in present : g > c \/ g = c \/ ~(g > at["host"])
    BY <1>2, <2>1, <2>4
  <2> QED
    BY <1>4, <2>2, <2>3, <2>5
<1> QED
  BY <1>3, <1>4

\* The host quiesces the children in turn: those behind the walk stay quiesced.
LEMMA QuiesceChildrenKeeps ==
  ASSUME IInv, NEW from, NEW to, QuiesceChildren(from, to),
         \/ from = "p_children" /\ to = "p_children_drain"
         \/ from = "s_children" /\ to = "suspending"
  PROVE  IInv'
<1> USE Ids, Kinds
<1> DEFINE c == First(Unvisited)
<1>1. /\ pc["host"] = from
      /\ \/ /\ Unvisited = {} /\ Goto("host", to) /\ at' = [at EXCEPT !["host"] = Root]
            /\ at'["host"] = Root /\ \A g \in present : ~(g > at["host"])
         \/ /\ Unvisited # {} /\ Goto("host", from) /\ at' = [at EXCEPT !["host"] = c]
            /\ at'["host"] = c /\ c \in present /\ c \in Children
            /\ \A g \in present : g > c \/ g = c \/ ~(g > at["host"])
  <2>1. at \in [Actors -> Fifos] /\ "host" \in Actors
    BY DEF IInv, Typed, ControlTyped
  <2> QED
    BY <2>1, WalksOn DEF QuiesceChildren, Walk
<1>2. /\ UNCHANGED <<Outside, Slots, fifo_q, remaining, counts>>
      /\ UNCHANGED <<running, latch, fault_offset, reporting, fault_mask, irq>>
      /\ dead' = "no" /\ interrupt_stamp' \subseteq Fifos
      /\ head' \in [Fifos -> {"none", "busy", "faulted"}]
      /\ \/ Unvisited = {} /\ quiesced' = quiesced
         \/ Unvisited # {} /\ quiesced' = quiesced \cup {c} /\ c \in Fifos
      /\ \/ signal_mutex' = signal_mutex
         \/ signal_mutex = "free" /\ signal_mutex' = "stamp"
      /\ SameDrains /\ \A g \in Fifos : Still(g) => Still(g)'
  <2>1. CASE Unvisited # {}
    <3>1. c \in Fifos /\ quiesce(c)
      BY <1>1, <2>1 DEF QuiesceChildren
    <3> QED
      BY <2>1, <3>1, Quiesces DEF QuiesceChildren
  <2>2. CASE Unvisited = {}
    BY <2>2, DrainsUnchanged DEF QuiesceChildren, interrupts, Still, IInv, Typed, FifoTyped, SignalTyped
  <2> QED
    BY <2>1, <2>2
<1>3. ~EnableWritten
  BY <1>1 DEF IInv, GuestInv
<1>4. PICK l \in {from, to} : Goto("host", l) /\ (l = to <=> Unvisited = {})
  BY <1>1
<1>5. /\ ControlTyped' /\ QueueTyped' /\ SlotInv' /\ NodeInv' /\ RootInv' /\ GuestInv'
      /\ TurnInv' /\ FaultInv'
      /\ pc'["host"] = l /\ pc'["guest"] = pc["guest"] /\ pc'["root"] = pc["root"]
  <2>1. /\ UNCHANGED <<stamp_memory, blob, present, node_running, running, fault_offset, reporting,
                       fault_mask, remaining>>
        /\ quiesced \subseteq quiesced'
    BY <1>2 DEF Slots, Outside
  <2>2. l \in HostPCs \ {"u_root"} /\ pc["host"] \notin Away /\ pc["host"] \notin {"suspended", "resume"}
    BY <1>1, <1>4 DEF HostPCs, Away
  <2>3. \E f \in Fifos : at' = [at EXCEPT !["host"] = f]
    BY <1>1
  <2> QED
    BY <1>2, <1>3, <1>4, <2>1, <2>2, <2>3, HostGoes
<1>6. Typed'
  <2>1. FifoTyped'
    BY <1>2 DEF Slots, IInv, Typed, FifoTyped
  <2>2. SignalTyped'
    BY <1>2 DEF IInv, Typed, SignalTyped
  <2>3. RestTyped'
    BY <1>2 DEF Outside, counts, IInv, Typed, RestTyped
  <2> QED
    BY <1>5, <2>1, <2>2, <2>3 DEF Typed
<1>7. HostInv'
  <2>1. /\ run_state' # "Paused" /\ present' = present /\ quiesced \subseteq quiesced'
        /\ from = "p_children" => Still(Root) /\ Still(Root)'
        /\ from = "s_children" => NoDefine /\ (Root \in present => Root \in quiesced)
        /\ \A g \in present : g = Root \/ g > at["host"] \/ g \in quiesced
    BY <1>1, <1>2 DEF IInv, HostInv, Slots, Outside
  <2>2. l = to => at'["host"] = Root /\ \A g \in present : g = Root \/ g \in quiesced'
    BY <1>1, <1>4, <2>1
  <2>3. l = from => \A g \in present : g = Root \/ g > at'["host"] \/ g \in quiesced'
    BY <1>1, <1>2, <1>4, <2>1
  <2>4. \A g \in present : g = Root \/ g > Root
    BY DEF IInv, Typed, FifoTyped
  <2> QED
    BY <1>4, <1>5, <2>1, <2>2, <2>3, <2>4 DEF HostInv, Stopped, NoDefine
<1>8. DrainInv' /\ WalkInv'
  <2>1. /\ pc["host"] \notin InDrain /\ quiesced \subseteq quiesced' /\ present' = present
        /\ \A a \in Actors \ {"host"} : pc'[a] = pc[a] /\ at'[a] = at[a]
    BY <1>1, <1>2, <1>5 DEF InDrain, Actors, Slots, IInv, Typed, ControlTyped
  <2>2. DrainInv' /\ (pc'["host"] \notin {"p_children_drain", "f_child"} => WalkInv')
    BY <1>2, <2>1, HostDrainsNot
  <2>3. pc'["host"] # "f_child"
    BY <1>4, <1>5
  <2>4. pc'["host"] = "p_children_drain" => at'["host"] = Root /\ Still(Root)'
    BY <1>1, <1>2, <1>4, <1>5 DEF IInv, HostInv
  <2>5. \A g \in present : g = Root \/ g > Root
    BY DEF IInv, Typed, FifoTyped
  <2> QED
    BY <2>1, <2>2, <2>3, <2>4, <2>5 DEF WalkInv
<1> QED
  BY <1>2, <1>5, <1>6, <1>7, <1>8 DEF IInv

\* The steps of the host's walk of drains: a drain that begins or goes on, one that returns, and
\* the end of the walk.
WalkWaits ==
  \/ /\ Unvisited # {} /\ EntersDrain("host", First(Unvisited))
     /\ at' = [at EXCEPT !["host"] = First(Unvisited)] /\ UNCHANGED pc
  \/ DrainWaits("host", at["host"]) /\ UNCHANGED <<pc, at>>
WalkReturns == DrainReturns("host", at["host"]) /\ UNCHANGED <<pc, at>>
WalkEnds(to) ==
  /\ draining["host"] = "no" /\ Unvisited = {}
  /\ Goto("host", to) /\ at' = [at EXCEPT !["host"] = Root] /\ UNCHANGED <<waits, dead>>

\* While the walk waits nothing is dropped.
LEMMA WalkDropsNothing ==
  ASSUME IInv, WalkWaits
  PROVE  draining["host"] = "no" \/ draining'["host"] # "no"
<1>1. draining \in [Actors -> DrainPlaces] /\ "host" \in Actors
  BY Kinds DEF IInv, DrainInv
<1>2. draining["host"] # "no" => at["host"] \in quiesced
  BY <1>1 DEF IInv, DrainInv
<1> QED
  BY <1>1, <1>2 DEF WalkWaits, EntersDrain, DrainWaits, DrainIs

LEMMA WalkWaitsKeeps ==
  ASSUME IInv, pc["host"] \in {"p_children_drain", "f_child"}, WalkWaits,
         UNCHANGED <<Outside, fifo, interrupts, fifo_q, remaining, counts>>
  PROVE  IInv'
<1> USE Ids, Kinds
<1>1. pc["host"] \in InDrain /\ at["host"] \in Fifos
  BY DEF InDrain, IInv, Typed, ControlTyped
<1>2. CASE /\ Unvisited # {} /\ EntersDrain("host", First(Unvisited))
           /\ at' = [at EXCEPT !["host"] = First(Unvisited)] /\ UNCHANGED pc
  <2> DEFINE c == First(Unvisited)
  <2>1. /\ c \in present /\ c \in Children /\ c \in Fifos
        /\ \A g \in present : g > c \/ g = c \/ ~(g > at["host"])
    BY <1>2, WalksOn
  <2>2. c \in quiesced
    BY <2>1 DEF IInv, HostInv
  <2>3. DrainGoesOn("host", c) /\ draining["host"] = "no"
    BY <1>2 DEF DrainGoesOn, EntersDrain
  <2> HIDE DEF c
  <2>4. at' = [at EXCEPT !["host"] = c] /\ pc' = pc
    BY <1>2 DEF c
  <2> QED
    BY <1>1, <2>1, <2>2, <2>3, <2>4, WaitingKeeps
<1>3. CASE DrainWaits("host", at["host"]) /\ UNCHANGED <<pc, at>>
  <2>1. draining["host"] # "no"
    BY <1>3 DEF DrainWaits
  <2>2. at["host"] \in quiesced /\ (pc["host"] = "f_child" => at["host"] \in Children)
    BY <2>1 DEF IInv, DrainInv, WalkInv
  <2>3. DrainGoesOn("host", at["host"])
    BY <1>3 DEF DrainGoesOn
  <2> QED
    BY <1>1, <1>3, <2>2, <2>3, WaitingKeeps
<1> QED
  BY <1>2, <1>3 DEF WalkWaits

\* A pause drains the children in turn: those behind the walk stay still, and in the end all are.
LEMMA DrainChildrenKeeps ==
  ASSUME IInv, HostDrainsChildren("p_children_drain", "pausing")
  PROVE  IInv'
<1> USE Ids, Kinds
<1>1. /\ pc["host"] = "p_children_drain"
      /\ WalkEnds("pausing") \/ WalkWaits \/ WalkReturns
      /\ UNCHANGED <<Outside, fifo, interrupts, fifo_q, remaining, counts>>
  BY DEF HostDrainsChildren, DrainWalk, WalkEnds, WalkWaits, WalkReturns
<1>2. CASE WalkWaits
  BY <1>1, <1>2, WalkWaitsKeeps
<1>3. CASE WalkEnds("pausing") \/ WalkReturns
  <2> DEFINE l == IF WalkReturns THEN "p_children_drain" ELSE "pausing"
  <2>1. /\ dead' = "no" /\ Goto("host", l) /\ l \in {"p_children_drain", "pausing"}
        /\ \E f \in Fifos : at' = [at EXCEPT !["host"] = f]
        /\ l = "p_children_drain" => at'["host"] = at["host"] /\ Still(at["host"]) /\ Returned("host")
        /\ l = "pausing" => at'["host"] = Root /\ UNCHANGED waits /\ draining["host"] = "no" /\ Unvisited = {}
    <3>1. /\ at \in [Actors -> Fifos] /\ at["host"] \in Fifos
          /\ pc \in [Actors -> HostPCs \cup GuestPCs \cup RootPCs]
      BY DEF IInv, Typed, ControlTyped
    <3>2. CASE WalkReturns
      <4>1. dead' = "no" /\ Still(at["host"]) /\ Returned("host")
        BY <3>1, <3>2, DrainEnds DEF WalkReturns
      <4>2. pc' = pc /\ at' = at /\ at' = [at EXCEPT !["host"] = at["host"]]
        BY <3>1, <3>2 DEF WalkReturns
      <4>3. Goto("host", "p_children_drain")
        BY <1>1, <3>1, <4>2 DEF Goto
      <4> QED
        BY <3>1, <3>2, <4>1, <4>2, <4>3
    <3>3. CASE ~WalkReturns
      BY <1>3, <3>1, <3>3 DEF WalkEnds, IInv
    <3> QED
      BY <3>2, <3>3
  <2> HIDE DEF l
  <2>4. ~EnableWritten /\ \A g \in Fifos : Still(g) => Still(g)'
    BY <1>1 DEF IInv, GuestInv, Still, fifo
  <2>6. /\ ControlTyped' /\ QueueTyped' /\ SlotInv' /\ NodeInv' /\ RootInv' /\ GuestInv'
        /\ TurnInv' /\ FaultInv'
        /\ pc'["host"] = l /\ pc'["guest"] = pc["guest"] /\ pc'["root"] = pc["root"]
    <3>1. /\ UNCHANGED <<stamp_memory, blob, present, node_running, running, fault_offset, reporting,
                         fault_mask, remaining, signal_mutex>>
          /\ quiesced' = quiesced /\ fifo_q' = fifo_q
      BY <1>1 DEF fifo, interrupts, Outside
    <3>2. l \in HostPCs \ {"u_root"} /\ pc["host"] \notin Away /\ pc["host"] \notin {"suspended", "resume"}
      BY <1>1, <2>1 DEF HostPCs, Away
    <3> QED
      BY <2>1, <2>4, <3>1, <3>2, HostGoes
  <2>7. Typed'
    BY <1>1, <2>6 DEF fifo, interrupts, Outside, counts, IInv, Typed, FifoTyped, SignalTyped, RestTyped
  <2>8. /\ run_state' # "Paused" /\ present' = present /\ quiesced' = quiesced /\ running' = running
        /\ Still(Root) /\ Still(Root)' /\ present \subseteq Fifos
        /\ \A g \in present : g = Root \/ g \in quiesced
        /\ \A g \in present : g > at["host"] \/ Still(g) \/ HostDrains(g)
    BY <1>1, <2>4 DEF IInv, HostInv, WalkInv, fifo, Outside, Typed, FifoTyped
  <2>9. HostInv'
    <3>1. l = "pausing" => \A g \in Fifos : Still(g)'
      <4> SUFFICES ASSUME l = "pausing" PROVE \A g \in Fifos : Still(g)'
        OBVIOUS
      <4>1. \A g \in present : Still(g)
        BY <2>1, <2>8, WalksOn DEF HostDrains
      <4>2. \A g \in Fifos \ present : Still(g)
        BY <2>4, <2>8, OthersStill
      <4> QED
        BY <2>4, <4>1, <4>2
    <3> QED
      BY <2>1, <2>6, <2>8, <3>1 DEF HostInv, Stopped, NoDefine
  <2>10. DrainInv'
    <3>1. \A a \in Actors \ {"host"} : pc'[a] = pc[a] /\ at'[a] = at[a]
      BY <2>1, <2>6 DEF Actors, IInv, Typed, ControlTyped
    <3>2. CASE l = "p_children_drain"
      BY <2>1, <2>8, <3>1, <3>2, DrainsAfter
    <3>3. CASE l = "pausing"
      <4>1. SameDrains
        BY <2>1, <3>3, DrainsUnchanged DEF waits
      <4> QED
        BY <2>1, <2>8, <3>1, <3>3, <4>1, HostDrainsNot
    <3> QED
      BY <2>1, <3>2, <3>3
  <2>11. WalkInv'
    <3>1. l = "p_children_drain" => \A g \in present : g > at["host"] \/ Still(g)'
      BY <2>1, <2>4, <2>8 DEF HostDrains
    <3> QED
      BY <2>1, <2>6, <2>8, <3>1 DEF WalkInv
  <2> QED
    BY <2>1, <2>6, <2>7, <2>9, <2>10, <2>11 DEF IInv
<1> QED
  BY <1>1, <1>2, <1>3

\* What a start finds: whoever drains a FIFO then is the root's thread, with one out of its slot.
LEMMA NoneDrained ==
  ASSUME IInv, ~EnableWritten, pc["host"] \notin InDrain
  PROVE  \A a \in Actors : draining[a] # "no" => a = "root" /\ at[a] \notin present /\ at[a] \in Children
<1>1. \A a \in Actors : draining[a] # "no" => pc[a] \in InDrain
  BY DEF IInv, DrainInv
<1>2. draining["host"] = "no" /\ draining["guest"] = "no"
  BY <1>1, Kinds DEF InDrain, EnableWritten, TearingDown, IInv, Typed, ControlTyped, GuestPCs, DeletePCs
<1>3. draining["root"] # "no" => pc["root"] = "drain"
  BY <1>1, Kinds DEF InDrain, IInv, Typed, ControlTyped, RootPCs, DeletePCs
<1> QED
  BY <1>2, <1>3 DEF Actors, IInv, SlotInv, RootInv

\* The children are started, by an unpause that has the FIFO queue or by a resume.
LEMMA StartChildrenKeeps ==
  ASSUME IInv, NEW from, NEW to, StartChildren(from, to),
         \/ from = "u_start" /\ to = "u_root" /\ Turn("host")
         \/ from = "r_start" /\ to = "r_root"
  PROVE  IInv'
<1> USE Ids, Kinds
<1>1. /\ pc["host"] = from /\ Goto("host", to)
      /\ UNCHANGED <<run_state, present, head, latch, fault_offset, reporting, interrupts, waits,
                     dead, calls, stamp_memory, blob, fifo_q, at, remaining, commands>>
      /\ quiesced' = quiesced \ (present \ {Root}) /\ running' = running \cup (present \ {Root})
      /\ node_running' = node_running \cup (present \ {Root})
  BY DEF StartChildren, Host, KeepRest, start
<1>2. ~EnableWritten /\ at["host"] = Root /\ run_state # "Paused"
  BY <1>1 DEF IInv, GuestInv, HostInv
<1>3. /\ ControlTyped' /\ pc'["host"] = to /\ pc'["guest"] = pc["guest"] /\ pc'["root"] = pc["root"]
  BY <1>1 DEF Goto, IInv, Typed, ControlTyped, Actors, HostPCs
<1>4. \A f \in Fifos \ present : Still(f) => Still(f)'
  BY <1>1 DEF Still
<1>5. Typed'
  <2>1. FifoTyped'
    BY <1>1 DEF IInv, Typed, FifoTyped
  <2>2. SignalTyped' /\ QueueTyped' /\ RestTyped'
    BY <1>1 DEF interrupts, IInv, Typed, SignalTyped, QueueTyped, RestTyped
  <2> QED
    BY <1>3, <2>1, <2>2 DEF Typed
<1>6. SlotInv'
  BY <1>1, <1>3, <1>4 DEF IInv, SlotInv, BeingDeleted, Deleting
<1>7. NodeInv'
  <2>1. pc["host"] \notin Away
    BY <1>1 DEF Away
  <2>2. Root \notin present => present = {}
    BY DEF IInv, SlotInv
  <2> QED
    BY <1>1, <1>3, <2>1, <2>2 DEF IInv, NodeInv
<1>8. RootInv' /\ GuestInv'
  BY <1>1, <1>2, <1>3 DEF IInv, RootInv, GuestInv, EnableWritten, TearingDown, DeletePCs
<1>9. HostInv'
  BY <1>1, <1>2, <1>3 DEF HostInv, Stopped
<1>10. TurnInv' /\ FaultInv' /\ dead' = "no"
  BY <1>1, <1>3 DEF interrupts, IInv, TurnInv, HeadIsOf, Turn, FaultInv, Coming
<1>11. DrainInv' /\ WalkInv'
  <2>1. pc["host"] \notin InDrain /\ SameDrains
    BY <1>1, DrainsUnchanged DEF InDrain, waits
  <2>2. \A a \in Actors : draining[a] # "no" =>
          pc'[a] = pc[a] /\ at'[a] = at[a] /\ at[a] \in quiesced'
    BY <1>1, <1>2, <1>3, <2>1, NoneDrained DEF IInv, DrainInv
  <2>3. running' \cap quiesced' \subseteq running
    BY <1>1
  <2> QED
    BY <1>3, <2>1, <2>2, <2>3, DrainsStay DEF WalkInv
<1> QED
  BY <1>5, <1>6, <1>7, <1>8, <1>9, <1>10, <1>11 DEF IInv

\* The root FIFO is started last, and the unpause's block ends.
LEMMA StartRootKeeps ==
  ASSUME IInv, NEW from, NEW to, StartRoot(from, to),
         \/ from = "u_root" /\ to = "u_interrupt" /\ Leave
         \/ from = "r_root" /\ to = "r_interrupt" /\ UNCHANGED fifo_q
  PROVE  IInv'
<1> USE Ids, Kinds
<1>1. /\ pc["host"] = from /\ Goto("host", to)
      /\ UNCHANGED <<run_state, present, head, latch, fault_offset, reporting, interrupts, waits,
                     dead, calls, stamp_memory, blob, at, remaining, commands, node_running>>
      /\ quiesced' = quiesced \ (present \cap {Root}) /\ running' = running \cup (present \cap {Root})
  BY DEF StartRoot, Host, start
<1>2. ~EnableWritten /\ at["host"] = Root /\ run_state # "Paused"
  BY <1>1 DEF IInv, GuestInv, HostInv
<1>3. /\ ControlTyped' /\ pc'["host"] = to /\ pc'["guest"] = pc["guest"] /\ pc'["root"] = pc["root"]
  BY <1>1 DEF Goto, IInv, Typed, ControlTyped, Actors, HostPCs
<1>4. \A f \in Fifos \ present : Still(f) => Still(f)'
  BY <1>1 DEF Still
<1>5. /\ QueueTyped' /\ (\A f \in Fifos : Coming(f) => Coming(f)')
      /\ \/ fifo_q' = fifo_q
         \/ signal_mutex # "report" /\ pc["guest"] \notin {"clear", "pump"}
  <2>1. CASE from = "u_root" /\ Leave
    <3>1. Turn("host")
      BY <1>1, <2>1 DEF IInv, TurnInv, HeadIsOf, Turn
    <3>2. signal_mutex' # "report"
      BY <1>1, <3>1 DEF interrupts, Turn, IInv, TurnInv
    <3> QED
      BY <2>1, <3>1, <3>2, SyncEnds
  <2>2. CASE UNCHANGED fifo_q
    BY <1>1, <2>2 DEF interrupts, Coming, IInv, Typed, QueueTyped
  <2> QED
    BY <2>1, <2>2
<1>6. Typed'
  <2>1. FifoTyped'
    BY <1>1 DEF IInv, Typed, FifoTyped
  <2>2. SignalTyped' /\ RestTyped'
    BY <1>1 DEF interrupts, IInv, Typed, SignalTyped, RestTyped
  <2> QED
    BY <1>3, <1>5, <2>1, <2>2 DEF Typed
<1>7. SlotInv'
  BY <1>1, <1>3, <1>4 DEF IInv, SlotInv, BeingDeleted, Deleting
<1>8. NodeInv'
  <2>1. pc["host"] \notin Away
    BY <1>1 DEF Away
  <2> QED
    BY <1>1, <1>3, <2>1 DEF IInv, NodeInv, Away
<1>9. RootInv' /\ GuestInv'
  BY <1>1, <1>2, <1>3 DEF IInv, RootInv, GuestInv, EnableWritten, TearingDown, DeletePCs
<1>10. HostInv'
  BY <1>1, <1>2, <1>3 DEF HostInv, Stopped
<1>11. TurnInv' /\ FaultInv' /\ dead' = "no"
  BY <1>1, <1>3, <1>5 DEF interrupts, IInv, Typed, FifoTyped, TurnInv, HeadIsOf, FaultInv
<1>12. DrainInv' /\ WalkInv'
  <2>1. pc["host"] \notin InDrain /\ SameDrains
    BY <1>1, DrainsUnchanged DEF InDrain, waits
  <2>2. \A a \in Actors : draining[a] # "no" =>
          pc'[a] = pc[a] /\ at'[a] = at[a] /\ at[a] \in quiesced'
    BY <1>1, <1>2, <1>3, <2>1, NoneDrained DEF IInv, DrainInv
  <2>3. running' \cap quiesced' \subseteq running
    BY <1>1
  <2> QED
    BY <1>3, <2>1, <2>2, <2>3, DrainsStay DEF WalkInv
<1> QED
  BY <1>6, <1>7, <1>8, <1>9, <1>10, <1>11, <1>12 DEF IInv

\* finish_suspend drains each child, which its will_suspend has quiesced, and drops it.
LEMMA DropKeeps ==
  ASSUME IInv, DropChildren
  PROVE  IInv'
<1> USE Ids, Kinds
<1>1. /\ pc["host"] = "f_child"
      /\ UNCHANGED <<Outside, node_running, running, quiesced, head, latch, fault_offset, reporting,
                     interrupts, fifo_q, remaining, counts>>
      /\ WalkEnds("f_root") \/ WalkWaits \/ WalkReturns
      /\ present' = IF draining["host"] # "no" /\ draining'["host"] = "no"
                    THEN present \ {at["host"]} ELSE present
  BY DEF DropChildren, DrainWalk, WalkEnds, WalkWaits, WalkReturns
<1>2. CASE WalkWaits
  <2>1. present' = present
    BY <1>1, <1>2, WalkDropsNothing
  <2> QED
    BY <1>1, <1>2, <2>1, WalkWaitsKeeps DEF fifo
<1>3. CASE WalkEnds("f_root") \/ WalkReturns
  <2>1. /\ pc["guest"] = "idle" /\ ~vCPUsRun /\ present \subseteq Fifos /\ at["host"] \in Fifos
        /\ \A g \in present : g = Root \/ g \in quiesced
        /\ Root \in present => Root \in quiesced
        /\ \A g \in present : g = Root \/ g > at["host"] \/ HostDrains(g)
        /\ NoDefine /\ run_state # "Paused"
    BY <1>1 DEF IInv, HostInv, Stopped, WalkInv, Typed, FifoTyped, ControlTyped
  <2>2. \A a \in Actors \ {"host"} : pc'[a] = pc[a] /\ at'[a] = at[a]
    BY <1>3 DEF WalkEnds, WalkReturns, Goto, IInv, Typed, ControlTyped
  <2>3. /\ ControlTyped' /\ pc'["guest"] = pc["guest"] /\ pc'["root"] = pc["root"]
        /\ at'["guest"] = at["guest"] /\ at'["root"] = at["root"]
        /\ dead' = "no" /\ DrainInv' /\ present' \subseteq present
        /\ Root \in present <=> Root \in present'
        /\ \A g \in present \ present' : Still(g)
        /\ \/ pc'["host"] = "f_root" /\ at'["host"] = Root /\ present' \subseteq {Root}
           \/ /\ pc'["host"] = "f_child" /\ draining'["host"] = "no"
              /\ \A g \in present' : g = Root \/ g > at'["host"]
    <3>1. CASE WalkEnds("f_root")
      <4>1. present' = present /\ dead' = "no" /\ draining' = draining /\ draining["host"] = "no"
        BY <1>1, <3>1 DEF WalkEnds, waits, IInv
      <4>2. DrainInv'
        BY <1>1, <2>2, <4>1, HostDrainsNot, DrainsUnchanged
      <4>3. present \subseteq {Root}
        BY <2>1, <3>1, <4>1, WalksOn DEF WalkEnds, HostDrains
      <4>4. ControlTyped' /\ pc'["host"] = "f_root" /\ at'["host"] = Root
        BY <1>1, <3>1 DEF WalkEnds, Goto, IInv, Typed, ControlTyped, Actors, HostPCs
      <4> QED
        BY <2>2, <4>1, <4>2, <4>3, <4>4 DEF Actors
    <3>2. CASE WalkReturns
      <4>1. Still(at["host"]) /\ dead' = "no" /\ draining["host"] \in Past /\ Returned("host")
        BY <2>1, <3>2, DrainEnds DEF WalkReturns
      <4>2. draining["host"] # "no" /\ draining'["host"] = "no"
        BY <4>1 DEF Past, Returned
      <4>3. present' = present \ {at["host"]} /\ at["host"] \in Children
        BY <1>1, <4>2 DEF IInv, WalkInv
      <4>4. DrainInv'
        BY <1>1, <2>2, <4>1, DrainsAfter
      <4>5. pc' = pc /\ at' = at
        BY <3>2 DEF WalkReturns
      <4>6. \A g \in present' : g = Root \/ g > at'["host"]
        BY <2>1, <4>3, <4>5 DEF HostDrains
      <4>7. ControlTyped'
        BY <1>1, <4>5 DEF IInv, Typed, ControlTyped
      <4> QED
        BY <1>1, <4>1, <4>2, <4>3, <4>4, <4>5, <4>6, <4>7
    <3> QED
      BY <1>3, <3>1, <3>2
  <2>4. \A f \in Fifos : Still(f) => Still(f)'
    BY <1>1 DEF Still
  <2>5. Typed'
    <3>1. FifoTyped'
      BY <1>1, <2>3 DEF IInv, Typed, FifoTyped
    <3>2. SignalTyped' /\ QueueTyped' /\ RestTyped'
      BY <1>1 DEF Outside, interrupts, counts, IInv, Typed, SignalTyped, QueueTyped, RestTyped
    <3> QED
      BY <2>3, <3>1, <3>2 DEF Typed
  <2>6. SlotInv'
    BY <1>1, <2>3, <2>4 DEF Outside, IInv, SlotInv, BeingDeleted, Deleting
  <2>7. NodeInv' /\ RootInv'
    BY <1>1, <2>3 DEF Outside, IInv, NodeInv, Away, RootInv
  <2>8. GuestInv'
    BY <2>1, <2>3 DEF GuestInv, EnableWritten, TearingDown, DeletePCs
  <2>9. HostInv'
    BY <1>1, <2>1, <2>3 DEF Outside, HostInv, Stopped, vCPUsRun, NoDefine
  <2>10. TurnInv' /\ FaultInv'
    BY <1>1, <2>3 DEF interrupts, IInv, TurnInv, HeadIsOf, FaultInv, Coming
  <2>11. WalkInv'
    BY <2>3 DEF WalkInv
  <2> QED
    BY <2>3, <2>5, <2>6, <2>7, <2>8, <2>9, <2>10, <2>11 DEF IInv
<1> QED
  BY <1>1, <1>2, <1>3

\* Between a suspend and its resume nobody but the host has anything to do.
LEMMA Asleep ==
  ASSUME IInv, pc["host"] \in {"serialize", "suspended", "resume", "r_children"}
  PROVE  /\ pc["guest"] = "idle" /\ pc["root"] = "idle" /\ ~vCPUsRun /\ at["host"] = Root
         /\ \A f \in Fifos : Still(f)
         /\ ~EnableWritten /\ \A a \in Actors : draining[a] = "no"
<1>1. \A f \in Fifos : Still(f)
  BY DEF IInv, HostInv
<1>2. pc["root"] = "idle"
  BY <1>1, Ids, RootWorks
<1>3. pc["guest"] = "idle"
  BY DEF IInv, HostInv, Stopped
<1>4. \A a \in Actors : draining[a] = "no"
  BY <1>2, <1>3 DEF IInv, DrainInv, InDrain, Actors
<1> QED
  BY <1>1, <1>2, <1>4 DEF IInv, HostInv, Stopped, EnableWritten, TearingDown

\* The suspend serializes the root FIFO and lets it go; a new device takes the state, or not.
LEMMA SerializeKeeps ==
  ASSUME IInv, serialize_suspend_state \/ will_resume
  PROVE  IInv'
<1> USE Ids, Kinds
<1>1. /\ pc["host"] \in {"serialize", "suspended"}
      /\ UNCHANGED <<node_running, running, head, reporting, irq, at, remaining, waits, dead, counts>>
      /\ \E l \in {"suspended", "resume"} : Goto("host", l)
      /\ fault_offset' \subseteq fault_offset
  BY DEF serialize_suspend_state, will_resume, Host, interrupts, Slots
<1>2. /\ pc["guest"] = "idle" /\ pc["root"] = "idle" /\ ~vCPUsRun /\ at["host"] = Root
      /\ \A f \in Fifos : Still(f)
  BY <1>1, Asleep
<1>3. /\ ControlTyped' /\ pc'["host"] \in {"suspended", "resume"}
      /\ pc'["guest"] = "idle" /\ pc'["root"] = "idle"
  BY <1>1, <1>2 DEF Goto, IInv, Typed, ControlTyped, Actors, HostPCs
<1>4. \A f \in Fifos : Still(f)'
  BY <1>1, <1>2 DEF Still
<1>5. /\ present' = {} /\ Root \notin fault_offset' /\ ~stamp_memory' /\ stamp_memory' \in BOOLEAN
      /\ node_running = {} \/ blob'.root
      /\ blob' \in Blob
      /\ run_state' \notin {"Running", "Paused", "EnteringSuspend"} /\ run_state' \in RunStates
  <2>1. CASE serialize_suspend_state
    <3>1. /\ blob' = [stamp |-> interrupt_stamp, root |-> Root \in present,
                      fault |-> Root \in fault_offset]
          /\ stamp_memory' = FALSE /\ present' = present \ {Root}
          /\ fault_offset' = fault_offset \ {Root} /\ run_state' = run_state
          /\ pc["host"] = "serialize"
      BY <2>1 DEF serialize_suspend_state, Host
    <3>2. present \subseteq {Root}
      BY <3>1 DEF IInv, HostInv
    <3>3. Root \in present \/ node_running = {}
      BY <3>1 DEF IInv, NodeInv
    <3>4. (Root \in present) \in BOOLEAN /\ (Root \in fault_offset) \in BOOLEAN
      OBVIOUS
    <3>5. blob' \in Blob
      BY <3>1, <3>4 DEF Blob, IInv, Typed, SignalTyped
    <3> QED
      BY <1>2, <3>1, <3>2, <3>3, <3>5 DEF vCPUsRun, IInv, Typed, RestTyped
  <2>2. CASE will_resume
    <3>1. /\ run_state' = "LeavingSuspendEarly" /\ pc["host"] = "suspended"
          /\ UNCHANGED <<present, fault_offset, stamp_memory, blob>>
      BY <2>2 DEF will_resume, Host, Slots
    <3>2. present = {}
      BY <3>1 DEF IInv, HostInv
    <3> QED
      BY <3>1, <3>2 DEF IInv, SlotInv, NodeInv, Typed, RestTyped, RunStates
  <2> QED
    BY <2>1, <2>2
<1>6. Typed'
  <2>1. FifoTyped'
    <3>1. CASE serialize_suspend_state
      BY <1>5, <3>1 DEF serialize_suspend_state, IInv, Typed, FifoTyped
    <3>2. CASE will_resume
      BY <1>5, <3>2 DEF will_resume, Slots, IInv, Typed, FifoTyped
    <3> QED
      BY <3>1, <3>2
  <2>2. interrupt_stamp' \subseteq Fifos
    <3>1. blob.stamp \subseteq Fifos /\ interrupt_stamp \subseteq Fifos
      BY DEF IInv, Typed, SignalTyped, RestTyped, Blob
    <3>2. interrupt_stamp' = interrupt_stamp \/ interrupt_stamp' = blob.stamp
      BY DEF serialize_suspend_state, will_resume, interrupts
    <3> QED
      BY <3>1, <3>2
  <2>3. SignalTyped'
    <3>1. CASE serialize_suspend_state
      BY <3>1 DEF serialize_suspend_state, interrupts, IInv, Typed, SignalTyped
    <3>2. CASE will_resume
      BY <2>2, <3>2 DEF will_resume, IInv, Typed, SignalTyped
    <3> QED
      BY <3>1, <3>2
  <2>4. QueueTyped'
    <3>1. fifo_q' = fifo_q \/ fifo_q' = << >>
      BY DEF serialize_suspend_state, will_resume
    <3>2. << >> \in Seq(Blocks) /\ fifo_q \in Seq(Blocks)
      BY EmptySeq DEF IInv, Typed, QueueTyped
    <3> QED
      BY <3>1, <3>2 DEF QueueTyped
  <2>5. RestTyped'
    BY <1>1, <1>5 DEF counts, IInv, Typed, RestTyped
  <2> QED
    BY <1>3, <2>1, <2>3, <2>4, <2>5 DEF Typed
<1>7. SlotInv' /\ NodeInv' /\ RootInv'
  BY <1>1, <1>3, <1>4, <1>5 DEF SlotInv, NodeInv, Away, RootInv
<1>8. GuestInv' /\ HostInv'
  BY <1>1, <1>2, <1>3, <1>4, <1>5 DEF GuestInv, EnableWritten, TearingDown, DeletePCs, HostInv, Stopped, vCPUsRun
<1>9. TurnInv'
  <2>1. CASE serialize_suspend_state
    BY <1>3, <2>1 DEF serialize_suspend_state, interrupts, IInv, TurnInv
  <2>2. CASE will_resume
    BY <1>3, <2>2 DEF will_resume, TurnInv
  <2> QED
    BY <2>1, <2>2
<1>10. FaultInv' /\ dead' = "no"
  BY <1>1, <1>5 DEF IInv, FaultInv
<1>11. DrainInv' /\ WalkInv'
  <2>1. \A a \in Actors : draining[a] = "no"
    BY <1>1, Asleep
  <2> QED
    BY <1>1, <1>3, <2>1 DEF waits, IInv, DrainInv, Past, WalkInv
<1> QED
  BY <1>6, <1>7, <1>8, <1>9, <1>10, <1>11 DEF IInv

\* did_resume puts the root FIFO and the children back, each fault they show in the mask.
LEMMA RestoreKeeps ==
  ASSUME IInv, resume_root_fifo \/ resume_children
  PROVE  IInv'
<1> USE Ids, Kinds
<1>1. /\ \/ pc["host"] = "resume" /\ Goto("host", "r_children") /\ run_state' = "Resuming"
         \/ pc["host"] = "r_children" /\ Goto("host", "r_run") /\ run_state' = run_state
      /\ UNCHANGED <<node_running, running, quiesced, head, latch, reporting, interrupt_stamp,
                     signal_mutex, irq, fifo_q, at, remaining, waits, blob, dead, counts>>
  BY DEF resume_root_fifo, resume_children, Host, KeepRest, counts
<1>2. /\ pc["guest"] = "idle" /\ pc["root"] = "idle" /\ ~vCPUsRun /\ at["host"] = Root
      /\ \A f \in Fifos : Still(f)
  BY <1>1, Asleep
<1>3. /\ ControlTyped' /\ pc'["guest"] = "idle" /\ pc'["root"] = "idle"
      /\ \/ pc["host"] = "resume" /\ pc'["host"] = "r_children"
         \/ pc["host"] = "r_children" /\ pc'["host"] = "r_run"
  BY <1>1, <1>2 DEF Goto, IInv, Typed, ControlTyped, Actors, HostPCs
<1>4. \A f \in Fifos : Still(f)'
  BY <1>1, <1>2 DEF Still
<1>5. /\ present' \subseteq Fifos /\ fault_offset' \subseteq Fifos /\ fault_mask' \subseteq Fifos
      /\ stamp_memory' \in BOOLEAN /\ (stamp_memory' <=> Root \in present')
      /\ Root \in present' \/ (present' = {} /\ Root \notin fault_offset' /\ node_running = {})
      /\ pc'["host"] = "r_run" => node_running \subseteq present'
      /\ \A f \in present' \cap fault_offset' : f \in fault_mask' \/ (f \in present /\ f \in fault_offset)
      /\ fault_mask \subseteq fault_mask'
  <2>1. CASE resume_root_fifo
    <3>1. /\ present = {} /\ Root \notin fault_offset /\ ~stamp_memory
          /\ blob.root \/ node_running = {}
          /\ pc["host"] = "resume"
      BY <2>1 DEF resume_root_fifo, Host, IInv, HostInv, SlotInv, NodeInv
    <3>2. CASE blob.root
      <4>1. /\ present' = present \cup {Root} /\ stamp_memory' = TRUE
            /\ \/ fault_offset' = fault_offset \cup {Root} /\ fault_mask' = fault_mask \cup {Root}
               \/ fault_offset' = fault_offset /\ fault_mask' = fault_mask
        BY <2>1, <3>2 DEF resume_root_fifo
      <4> QED
        BY <1>3, <3>1, <4>1 DEF IInv, Typed, FifoTyped, SignalTyped
    <3>3. CASE ~blob.root
      <4>1. UNCHANGED <<present, stamp_memory, fault_offset, fault_mask>>
        BY <2>1, <3>3 DEF resume_root_fifo
      <4> QED
        BY <1>3, <3>1, <3>3, <4>1 DEF IInv, Typed, FifoTyped, SignalTyped, RestTyped
    <3> QED
      BY <3>2, <3>3
  <2>2. CASE resume_children
    <3>1. /\ present' = present \cup node_running /\ UNCHANGED <<fault_offset, stamp_memory>>
          /\ fault_mask' = fault_mask \cup (fault_offset \cap (present' \ {Root}))
          /\ pc["host"] = "r_children"
      BY <2>2 DEF resume_children, Host, KeepRest
    <3>2. Root \in present \/ (present = {} /\ Root \notin fault_offset /\ node_running = {})
      BY <3>1 DEF IInv, SlotInv, NodeInv
    <3>3. node_running \subseteq Children /\ (stamp_memory <=> Root \in present)
      BY DEF IInv, Typed, FifoTyped, SlotInv
    <3> QED
      BY <3>1, <3>2, <3>3 DEF IInv, Typed, FifoTyped, SignalTyped, RestTyped
  <2> QED
    BY <2>1, <2>2
<1>6. Typed'
  <2>1. FifoTyped' /\ SignalTyped' /\ QueueTyped'
    BY <1>1, <1>5 DEF IInv, Typed, FifoTyped, SignalTyped, QueueTyped
  <2>2. RestTyped'
    BY <1>1, <1>5 DEF counts, RunStates, IInv, Typed, RestTyped
  <2> QED
    BY <1>3, <2>1, <2>2 DEF Typed
<1>7. SlotInv' /\ NodeInv' /\ RootInv'
  BY <1>1, <1>3, <1>4, <1>5 DEF SlotInv, NodeInv, Away, RootInv
<1>8. GuestInv' /\ HostInv'
  BY <1>1, <1>2, <1>3, <1>4 DEF GuestInv, EnableWritten, TearingDown, DeletePCs, HostInv, Stopped, vCPUsRun
<1>9. TurnInv' /\ dead' = "no"
  BY <1>1, <1>3 DEF IInv, TurnInv
<1>10. FaultInv'
  <2>1. \A f \in Fifos : Coming(f) => Coming(f)'
    BY <1>1 DEF Coming
  <2> QED
    BY <1>1, <1>2, <1>5, <2>1 DEF IInv, Typed, FifoTyped, FaultInv
<1>11. DrainInv' /\ WalkInv'
  <2>1. \A a \in Actors : draining[a] = "no"
    BY <1>1, Asleep
  <2> QED
    BY <1>1, <1>3, <2>1 DEF waits, IInv, DrainInv, Past, WalkInv
<1> QED
  BY <1>6, <1>7, <1>8, <1>9, <1>10, <1>11 DEF IInv

-----------------------------------------------------------------------------
(* The theorems *)

\* Every step of the host.
LEMMA HostKeeps ==
  ASSUME IInv, HostSteps, Orderly'
  PROVE  IInv'
<1>1. CASE pause
  BY <1>1, HostTurnsKeep, QuiesceRootKeeps, DrainRootKeeps, QuiesceChildrenKeeps,
     DrainChildrenKeeps DEF pause
<1>2. CASE unpause
  BY <1>2, HostTurnsKeep, StartChildrenKeeps, StartRootKeeps DEF unpause
<1>3. CASE will_suspend
  <2>1. CASE QuiesceRoot("suspend", "s_children") /\ Meets("define", ~NoDefine)
    <3>1. NoDefine
      BY <2>1 DEF Meets, Orderly
    <3> QED
      BY <2>1, <3>1, QuiesceRootKeeps
  <2> QED
    BY <1>3, <2>1, HostTurnsKeep, QuiesceChildrenKeeps DEF will_suspend
<1>4. CASE finish_suspend
  BY <1>4, HostTurnsKeep, DropKeeps, DrainRootKeeps, SerializeKeeps DEF finish_suspend
<1>5. CASE will_resume
  BY <1>5, SerializeKeeps
<1>6. CASE did_resume
  BY <1>6, RestoreKeeps, HostTurnsKeep, StartChildrenKeeps, StartRootKeeps DEF did_resume
<1> QED
  BY <1>1, <1>2, <1>3, <1>4, <1>5, <1>6 DEF HostSteps

\* A delete, by the root FIFO's command or by the teardown.
LEMMA DeleteKeeps ==
  ASSUME IInv, NEW a \in {"guest", "root"}, NEW then, delete_fifo(a, then),
         (a = "guest" /\ then = "children") \/ (a = "root" /\ then = "idle")
  PROVE  IInv'
<1>1. CASE DrainTaken(a, then)
  <2>1. TakenWaits(a) \/ TakenEnds(a, then)
    BY <1>1 DEF DrainTaken, TakenWaits, TakenEnds
  <2> QED
    BY <2>1, TakenWaitsKeeps, StopKeeps
<1> QED
  BY <1>1, TakeKeeps, StopKeeps DEF delete_fifo

\* Every step of the guest and of the root FIFO's thread.
LEMMA GuestAndRootKeep ==
  ASSUME IInv, GuestSteps \/ RootSteps, Orderly'
  PROVE  IInv'
<1>1. CASE GuestSteps
  <2>1. CASE teardown_fifos
    BY <2>1, DisableKeeps, RootDrainKeeps, NextChildKeeps, DeleteKeeps, ReleaseKeeps
       DEF teardown_fifos
  <2> QED
    BY <1>1, <2>1, ReadsKeep, ClearBitKeeps, ResumeKeeps, EnableKeeps DEF GuestSteps
<1>2. CASE RootSteps
  BY <1>2, CreateKeeps, DeleteKeeps DEF RootSteps
<1> QED
  BY <1>1, <1>2

\* The invariant is inductive, for the steps after which the device is orderly.
LEMMA NextInv ==
  ASSUME IInv, [Next]_vars, Orderly'
  PROVE  IInv'
<1>1. CASE UNCHANGED vars
  <2> USE <1>1 DEF vars, fifo, interrupts, control, counts, waits
  <2>1. Typed'
    BY DEF IInv, Typed, FifoTyped, SignalTyped, QueueTyped, ControlTyped, RestTyped
  <2>2. SlotInv' /\ NodeInv' /\ RootInv'
    BY DEF IInv, SlotInv, Still, BeingDeleted, Deleting, NodeInv, Away, RootInv
  <2>3. GuestInv'
    BY DEF IInv, GuestInv, EnableWritten, TearingDown, Still
  <2>4. HostInv'
    BY DEF IInv, HostInv, vCPUsRun, NoDefine, Still
  <2>5. TurnInv' /\ FaultInv' /\ dead' = "no"
    BY DEF IInv, TurnInv, HeadIsOf, FaultInv, Coming
  <2>6. DrainInv' /\ WalkInv'
    BY DEF IInv, DrainInv, WalkInv, HostDrains, Still
  <2> QED
    BY <2>1, <2>2, <2>3, <2>4, <2>5, <2>6 DEF IInv
<1>2. CASE HostSteps
  BY <1>2, HostKeeps
<1>3. CASE GuestSteps \/ RootSteps
  BY <1>3, GuestAndRootKeep
<1>4. CASE count_down
  BY <1>4, CountKeeps
<1>5. CASE signal_fault_in_fifo \/ interrupt
  BY <1>5, ReportKeeps
<1>6. ASSUME NEW f \in Fifos, push(f) \/ FifoSteps(f)
      PROVE  IInv'
  BY <1>6, PushKeeps, CompletesKeeps, SinkKeeps DEF FifoSteps
<1> QED
  BY <1>1, <1>2, <1>3, <1>4, <1>5, <1>6 DEF Next

\* What has crossed stays crossed.
Meetings == {"define", "FifoEnable", "drains"}
Grows == crossed \subseteq crossed' /\ crossed' \subseteq crossed \cup Meetings

LEMMA MeetsGrows ==
  ASSUME NEW kind \in Meetings, NEW when, Meets(kind, when)
  PROVE  Grows
  BY DEF Meets, Grows

LEMMA StaysGrows ==
  ASSUME UNCHANGED crossed
  PROVE  Grows
  BY DEF Grows

LEMMA DrainsGrow ==
  ASSUME NEW a, NEW f, DrainGoesOn(a, f) \/ DrainReturns(a, f) \/ EntersDrain(a, f) \/ DrainWaits(a, f)
  PROVE  Grows
<1>1. "drains" \in Meetings
  BY DEF Meetings
<1> QED
  BY <1>1, MeetsGrows, StaysGrows DEF DrainGoesOn, DrainReturns, EntersDrain, DrainWaits, waits

LEMMA DeleteGrows ==
  ASSUME NEW a, NEW then, delete_fifo(a, then)
  PROVE  Grows
  BY DrainsGrow, StaysGrows DEF delete_fifo, TakeOut, StopTaken, DrainTaken, WaitTasks, waits

LEMMA HostGrows ==
  ASSUME HostSteps
  PROVE  Grows
<1> USE StaysGrows DEF waits
<1>1. "define" \in Meetings /\ "FifoEnable" \in Meetings
  BY DEF Meetings
<1>2. ASSUME NEW from, NEW to, HostDrainsRoot(from, to) \/ DrainWalk(from, to)
      PROVE  Grows
  BY <1>2, DrainsGrow DEF HostDrainsRoot, DrainWalk
<1>3. CASE pause
  BY <1>1, <1>2, <1>3, MeetsGrows
     DEF pause, PauseBegins, PauseEnds, QuiesceChildren, HostDrainsChildren
<1>4. CASE unpause
  BY <1>4 DEF unpause, UnpauseBegins, StartChildren, StartRoot, HostInterrupts
<1>5. CASE will_suspend
  BY <1>1, <1>5, MeetsGrows DEF will_suspend, SuspendBegins, QuiesceChildren
<1>6. CASE finish_suspend
  BY <1>2, <1>6 DEF finish_suspend, FinishBegins, DropChildren, serialize_suspend_state
<1>7. CASE will_resume
  BY <1>7 DEF will_resume
<1>8. CASE did_resume
  BY <1>8 DEF did_resume, resume_root_fifo, resume_children, ResumeRuns, StartChildren, StartRoot,
              HostInterrupts
<1> QED
  BY <1>3, <1>4, <1>5, <1>6, <1>7, <1>8 DEF HostSteps

LEMMA GuestGrows ==
  ASSUME GuestSteps \/ RootSteps
  PROVE  Grows
<1> USE StaysGrows DEF waits
<1>1. "FifoEnable" \in Meetings
  BY DEF Meetings
<1>2. CASE TakeInterrupt \/ ReadInterruptStamp \/ read_interrupt_fault \/ LookAtFault
           \/ ClearFaultBit \/ ClearFaultOffset \/ resume_from_fault
  BY <1>2 DEF TakeInterrupt, ReadInterruptStamp, read_interrupt_fault, LookAtFault, ClearFaultBit,
              ClearFaultOffset, resume_from_fault
<1>3. CASE teardown_fifos
  BY <1>1, <1>3, MeetsGrows, DrainsGrow, DeleteGrows
     DEF teardown_fifos, Disable, DrainRoot, NextChild, ReleaseRoot
<1>4. CASE enable_fifo
  BY <1>1, <1>4, MeetsGrows DEF enable_fifo
<1>5. CASE RootSteps
  BY <1>5, DeleteGrows DEF RootSteps, create_fifo
<1> QED
  BY <1>2, <1>3, <1>4, <1>5 DEF GuestSteps

LEMMA CrossedGrows ==
  ASSUME [Next]_vars
  PROVE  Grows
<1> USE StaysGrows DEF waits
<1>1. CASE UNCHANGED vars
  BY <1>1 DEF vars
<1>2. CASE count_down \/ signal_fault_in_fifo \/ interrupt
  BY <1>2 DEF count_down, signal_fault_in_fifo, interrupt
<1>3. ASSUME NEW f \in Fifos, push(f) \/ FifoSteps(f)
      PROVE  Grows
  BY <1>3 DEF push, FifoSteps, Completes, Faults, SinkReports, ThreadExits, NotifyOne
<1> QED
  BY <1>1, <1>2, <1>3, HostGrows, GuestGrows DEF Next

\* An orderly device keeps the invariant, whatever the interleaving of the host's calls, the guest's
\* registers, the root FIFO's commands and the FIFOs' pumps.  (The code lets a suspend meet a
\* define, and a FifoEnable write meet a pause or a suspend: from there on nothing is promised.)
THEOREM DeviceInvariant ==
  Spec => [](Orderly => IInv)
<1>1. Init => (Orderly => IInv)
  BY InitInv
<1>2. (Orderly => IInv) /\ [Next]_vars => (Orderly => IInv)'
  <2> SUFFICES ASSUME Orderly => IInv, [Next]_vars, Orderly' PROVE IInv'
    OBVIOUS
  <2>1. crossed \subseteq crossed'
    BY CrossedGrows DEF Grows
  <2>2. Orderly
    BY <2>1 DEF Orderly
  <2> QED
    BY <2>2, NextInv
<1> QED
  BY <1>1, <1>2, PTL DEF Spec

\* The types of an orderly device's slots, FIFOs, registers, FIFO queue, threads and drains.
THEOREM DeviceTypes ==
  Spec => [](Orderly => TypeOK)
<1> DEFINE Crossed == crossed \subseteq Meetings
<1>1. Init => Crossed
  BY DEF Init, Meetings
<1>2. Crossed /\ [Next]_vars => Crossed'
  BY CrossedGrows DEF Grows
<1>3. Crossed /\ (Orderly => IInv) => (Orderly => TypeOK)
  <2> SUFFICES ASSUME Crossed, IInv PROVE TypeOK
    OBVIOUS
  <2>1. pc \in [Actors -> HostPCs \cup GuestPCs \cup RootPCs]
    BY DEF IInv, Typed, ControlTyped
  <2>2. FifoTyped /\ SignalTyped /\ QueueTyped /\ RestTyped /\ dead = "no"
    BY DEF IInv, Typed
  <2>3. at \in [Actors -> Fifos] /\ remaining \in 0..Tasks
    BY DEF IInv, Typed, ControlTyped
  <2>4. draining \in [Actors -> DrainPlaces] /\ crossed \subseteq {"define", "FifoEnable", "drains"}
    BY DEF IInv, DrainInv, Meetings
  <2> QED
    BY <2>1, <2>2, <2>3, <2>4 DEF TypeOK, FifoTyped, SignalTyped, QueueTyped, Blocks, RestTyped
<1> HIDE DEF Crossed
<1> QED
  BY <1>1, <1>2, <1>3, DeviceInvariant, PTL DEF Spec

\* No FIFO of an orderly device is drained while it may run, whichever of a pause, a suspend, a
\* teardown and a delete drains it (thread.rs:98, stamps.rs:363), and no completion finds the stamp
\* memory gone.  So only the two meetings Orderly names can end the process here.
THEOREM DeviceNeverDies ==
  Spec => []NoDeath
<1>1. (Orderly => IInv) => NoDeath
  BY DEF IInv, NoDeath
<1> QED
  BY <1>1, DeviceInvariant, PTL

\* A fault offset in an orderly device's slots is in the mask of the fault register, or its report
\* is on its way there, or the guest is about to clear it: through deletes, teardowns, suspends
\* and resumes.
THEOREM FaultsAreShown ==
  Spec => []FaultIsShown
<1>1. (Orderly => IInv) => FaultIsShown
  BY DEF IInv, FaultInv, Coming, FaultIsShown, Announced
<1> QED
  BY <1>1, DeviceInvariant, PTL

\* Once pause has returned, and once a suspend has serialized the device, no FIFO's thread runs
\* and no FIFO has a command pending, the deleted and the not yet restored ones included: unless a
\* suspend met a define, or a FifoEnable write (which starts the root FIFO, root.rs:302) the call.
THEOREM PausedDeviceIsStill ==
  Spec => []PausedIsStill
<1>1. (Orderly => IInv) => PausedIsStill
  <2> SUFFICES ASSUME IInv, run_state = "Paused" \/ pc["host"] \in {"suspended", "resume"}
               PROVE  running = {} /\ \A f \in Fifos : head[f] = "none"
    BY DEF PausedIsStill
  <2>1. \A f \in Fifos : Still(f)
    BY DEF IInv, HostInv
  <2> QED
    BY <2>1 DEF Still, IInv, Typed, FifoTyped
<1> QED
  BY <1>1, DeviceInvariant, PTL

-----------------------------------------------------------------------------
(* The root task's address space: first fit *)

MapLengths == Lengths \cup {Page}

\* No sum of an address and a rounded length wraps: in the code the addresses end below 2^24, a
\* length is a u32 or a page's, and the sums are of 64 bits.
NoWrap == \A l \in MapLengths : LastVa + l + Granule <= Span

Aligned(n) == n % Granule = 0

\* The addresses of a free list.
RangesOf(l) == UNION {l[i].start..l[i].last : i \in DOMAIN l}

\* A sorted and coalesced free list of ranges that start at granules.
VaRange == [start : 0..LastVa, last : 0..LastVa]
GoodRange(r) == r.start <= r.last /\ Aligned(r.start)
Canonical(l) ==
  /\ l \in Seq(VaRange)
  /\ \A i \in 1..Len(l) : GoodRange(l[i])
  /\ \A i, j \in 1..Len(l) : i < j => l[i].last + 1 < l[j].start

\* What the assumptions say of the constants.
LEMMA VaSizes ==
  /\ Span \in Nat \ {0} /\ Granule \in Nat \ {0} /\ LastVa \in Nat /\ LastVa < Span
  /\ MapLengths \subseteq Nat /\ Page \in MapLengths
  BY FirstFitVaAssumption, RootMappingsAssumption DEF MapLengths

\* Wrapping stays in the span, and does nothing within it.
LEMMA WrapIs ==
  ASSUME NEW n \in Int
  PROVE  wrap(n) \in 0..(Span - 1) /\ (n \in 0..(Span - 1) => wrap(n) = n)
<1>1. Span \in Nat \ {0}
  BY VaSizes
<1>2. n % Span \in 0..(Span - 1)
  BY <1>1, DivMod, Zenon
<1>3. ASSUME n \in 0..(Span - 1) PROVE n % Span = n
  <2>1. n = Span * 0 + n /\ 0 \in Int
    BY <1>1
  <2> QED
    BY <1>1, <1>3, <2>1, ModUnique, Zenon
<1> QED
  BY <1>2, <1>3 DEF wrap

\* A multiple of the granule.
LEMMA MultipleAligned ==
  ASSUME NEW q \in Int
  PROVE  Granule * q \in Int /\ Aligned(Granule * q)
<1>1. Granule \in Nat \ {0}
  BY VaSizes
<1> DEFINE a == Granule * q
<1>2. a \in Int
  BY <1>1, Z3
<1>3. a = Granule * q + 0 /\ 0 \in 0..(Granule - 1)
  BY <1>1, <1>2
<1> HIDE DEF a
<1>4. a % Granule = 0
  BY <1>1, <1>2, <1>3, ModUnique, Zenon
<1> QED
  BY <1>2, <1>4 DEF Aligned, a

\* Sums of granules are granules.
LEMMA AlignedSum ==
  ASSUME NEW a \in Int, NEW b \in Int, Aligned(a), Aligned(b)
  PROVE  Aligned(a + b)
<1>1. Granule \in Nat \ {0}
  BY VaSizes
<1> DEFINE p == a \div Granule
           q == b \div Granule
<1>2. a = Granule * p + (a % Granule) /\ p \in Int
  BY <1>1, DivMod, Zenon
<1>3. b = Granule * q + (b % Granule) /\ q \in Int
  BY <1>1, DivMod, Zenon
<1>4. a % Granule = 0 /\ b % Granule = 0
  BY DEF Aligned
<1> HIDE DEF p, q
<1>5. a = Granule * p /\ b = Granule * q
  <2>1. Granule * p \in Int /\ Granule * q \in Int
    BY <1>1, <1>2, <1>3, Z3
  <2> QED
    BY <1>2, <1>3, <1>4, <2>1
<1>6. Granule * (p + q) = Granule * p + Granule * q
  BY <1>1, <1>2, <1>3, Z3
<1>7. p + q \in Int /\ a + b = Granule * (p + q)
  BY <1>2, <1>3, <1>5, <1>6
<1> QED
  BY <1>7, MultipleAligned

\* Rounding: to a granule, up by less than one, and not at all at one.
LEMMA RoundIs ==
  ASSUME NEW n \in Nat
  PROVE  /\ round(n) \in 0..(Span - 1)
         /\ n + Granule - 1 < Span =>
              /\ Aligned(round(n)) /\ n <= round(n) /\ round(n) < n + Granule
              /\ Aligned(n) => round(n) = n
<1>1. Granule \in Nat \ {0} /\ Span \in Nat \ {0}
  BY VaSizes
<1> DEFINE up == wrap(n + Granule - 1)
           q == up \div Granule
           r == up % Granule
<1>2. up \in 0..(Span - 1) /\ (n + Granule - 1 < Span => up = n + Granule - 1)
  <2>1. n + Granule - 1 \in Int /\ n + Granule - 1 >= 0
    BY <1>1
  <2> QED
    BY <1>1, <2>1, WrapIs
<1>3. round(n) = up - r
  BY DEF round
<1> HIDE DEF up
<1>4. up = Granule * q + r /\ r \in 0..(Granule - 1) /\ q \in Int
  <2>1. up \in Int
    BY <1>1, <1>2
  <2> QED
    BY <1>1, <2>1, DivMod, Zenon
<1> HIDE DEF q, r
<1>5. Granule * q \in Int
  BY <1>1, <1>4, Z3
<1>6. round(n) = Granule * q /\ Granule * q > -Granule /\ Granule * q <= up
  BY <1>1, <1>2, <1>3, <1>4, <1>5
<1>7. Granule * q >= 0
  <2>1. q <= -1 => Granule * q <= -Granule
    BY <1>1, <1>4, Z3
  <2>2. q >= 0 => Granule * q >= 0
    BY <1>1, <1>4, Z3
  <2> QED
    BY <1>1, <1>4, <1>5, <1>6, <2>1, <2>2
<1>8. round(n) \in 0..(Span - 1)
  BY <1>1, <1>2, <1>5, <1>6, <1>7
<1>9. Aligned(round(n))
  BY <1>4, <1>6, MultipleAligned
<1>10. ASSUME n + Granule - 1 < Span
       PROVE  n <= round(n) /\ round(n) < n + Granule
  BY <1>1, <1>2, <1>4, <1>5, <1>6, <1>10
<1>11. ASSUME n + Granule - 1 < Span, Aligned(n)
       PROVE  round(n) = n
  <2> DEFINE d == round(n) - n
             m == round(n)
  <2>1. m \in Int /\ n \in Int /\ m - n < Granule /\ n - m < Granule
    BY <1>1, <1>8, <1>10, <1>11
  <2>2. m % Granule = n % Granule
    BY <1>9, <1>11 DEF Aligned
  <2> HIDE DEF m
  <2>3. m = n
    BY <1>1, <2>1, <2>2, RingDistinct, Zenon
  <2> QED
    BY <2>3 DEF m
<1> QED
  BY <1>8, <1>9, <1>10, <1>11

\* The list with some of its ranges replaced.
Spliced(S, s, l, from, to, others) ==
  /\ s \in Seq(S) /\ Len(s) = Len(l) - (to - from + 1) + Len(others)
  /\ \A k \in 1..(from - 1) : s[k] = l[k]
  /\ \A k \in 1..Len(others) : s[from - 1 + k] = others[k]
  /\ \A k \in (to + 1)..Len(l) : s[from - 1 + Len(others) + (k - to)] = l[k]
LEMMA SpliceIs ==
  ASSUME NEW S, NEW l \in Seq(S), NEW from \in 1..(Len(l) + 1), NEW to \in (from - 1)..Len(l),
         NEW others \in Seq(S)
  PROVE  Spliced(S, Splice(l, from, to, others), l, from, to, others)
<1> DEFINE left == SubSeq(l, 1, from - 1)
           right == SubSeq(l, to + 1, Len(l))
           m == Len(others)
           s == (left \o others) \o right
<1>1. /\ Len(l) \in Nat /\ m \in Nat /\ from \in Int /\ to \in Int
      /\ \A i \in 1..Len(l) : l[i] \in S
  BY ElementOfSeq
<1>2. left \in Seq(S) /\ Len(left) = from - 1 /\ \A i \in 1..(from - 1) : left[i] = l[i]
  <2>1. 1 \in Int /\ from - 1 \in Int /\ \A i \in 1..(from - 1) : l[i] \in S
    BY <1>1
  <2>2. /\ left \in Seq(S) /\ Len(left) = IF 1 <= from - 1 THEN (from - 1) - 1 + 1 ELSE 0
        /\ \A i \in 1..((from - 1) - 1 + 1) : left[i] = l[1 + i - 1]
    BY <2>1, SubSeqProperties
  <2> HIDE DEF left
  <2> QED
    BY <1>1, <2>2
<1>3. /\ right \in Seq(S) /\ Len(right) = Len(l) - to
      /\ \A i \in 1..(Len(l) - to) : right[i] = l[to + i]
  <2>1. to + 1 \in Int /\ Len(l) \in Int /\ \A i \in (to + 1)..Len(l) : l[i] \in S
    BY <1>1
  <2>2. /\ right \in Seq(S) /\ Len(right) = IF to + 1 <= Len(l) THEN Len(l) - (to + 1) + 1 ELSE 0
        /\ \A i \in 1..(Len(l) - (to + 1) + 1) : right[i] = l[to + 1 + i - 1]
    BY <2>1, SubSeqProperties
  <2> HIDE DEF right
  <2> QED
    BY <1>1, <2>2
<1> HIDE DEF left, right
<1> DEFINE h == left \o others
<1>4. /\ h \in Seq(S) /\ Len(h) = from - 1 + m
      /\ \A i \in 1..(from - 1 + m) : h[i] = IF i <= from - 1 THEN left[i] ELSE others[i - (from - 1)]
  <2>1. /\ h \in Seq(S) /\ Len(h) = Len(left) + Len(others)
        /\ \A i \in 1..(Len(left) + Len(others)) :
             h[i] = IF i <= Len(left) THEN left[i] ELSE others[i - Len(left)]
    BY <1>2, ConcatProperties
  <2> HIDE DEF h
  <2> QED
    BY <1>1, <1>2, <2>1
<1> HIDE DEF h
<1>5. /\ s \in Seq(S) /\ Len(s) = (from - 1 + m) + (Len(l) - to)
      /\ \A i \in 1..((from - 1 + m) + (Len(l) - to)) :
           s[i] = IF i <= from - 1 + m THEN h[i] ELSE right[i - (from - 1 + m)]
  <2>1. /\ h \o right \in Seq(S) /\ Len(h \o right) = Len(h) + Len(right)
        /\ \A i \in 1..(Len(h) + Len(right)) :
             (h \o right)[i] = IF i <= Len(h) THEN h[i] ELSE right[i - Len(h)]
    BY <1>3, <1>4, ConcatProperties
  <2>2. s = h \o right
    BY DEF h
  <2> HIDE DEF s
  <2> QED
    BY <1>1, <1>3, <1>4, <2>1, <2>2
<1>6. Splice(l, from, to, others) = s
  BY DEF Splice, left, right
<1> HIDE DEF s, m
<1>7. ASSUME NEW k \in 1..(from - 1) PROVE s[k] = l[k]
  <2>1. k \in 1..(from - 1 + m) /\ k \in 1..((from - 1 + m) + (Len(l) - to)) /\ k <= from - 1 /\ k <= from - 1 + m
    BY <1>1
  <2> QED
    BY <1>2, <1>4, <1>5, <2>1
<1>8. ASSUME NEW k \in 1..m PROVE s[from - 1 + k] = others[k]
  <2> DEFINE i == from - 1 + k
  <2>1. /\ i \in 1..(from - 1 + m) /\ i \in 1..((from - 1 + m) + (Len(l) - to)) /\ ~(i <= from - 1)
        /\ i <= from - 1 + m /\ i - (from - 1) = k
    BY <1>1
  <2> HIDE DEF i
  <2>2. s[i] = others[k]
    BY <1>4, <1>5, <2>1
  <2> QED
    BY <2>2 DEF i
<1>9. ASSUME NEW k \in (to + 1)..Len(l) PROVE s[from - 1 + m + (k - to)] = l[k]
  <2> DEFINE i == from - 1 + m + (k - to)
  <2>1. /\ i \in 1..((from - 1 + m) + (Len(l) - to)) /\ ~(i <= from - 1 + m)
        /\ i - (from - 1 + m) = k - to /\ k - to \in 1..(Len(l) - to) /\ to + (k - to) = k
    BY <1>1
  <2> HIDE DEF i
  <2>2. s[i] = right[k - to]
    BY <1>5, <2>1
  <2>3. s[i] = l[k]
    BY <1>3, <2>1, <2>2
  <2> QED
    BY <2>3 DEF i
<1>10. Len(s) = Len(l) - (to - from + 1) + m
  BY <1>1, <1>5
<1> QED
  BY <1>5, <1>6, <1>7, <1>8, <1>9, <1>10 DEF m, Spliced

In(a, r) == a \in r.start..r.last

\* The addresses of a list, one range at a time.
LEMMA InRanges ==
  ASSUME NEW l \in Seq(VaRange), NEW a
  PROVE  a \in RangesOf(l) <=> \E k \in 1..Len(l) : In(a, l[k])
<1>1. DOMAIN l = 1..Len(l)
  BY LenProperties
<1> QED
  BY <1>1 DEF RangesOf, In

\* A range apart from the ranges of the list that come before `from' and after `to'.
Fits(l, from, to, r) ==
  /\ GoodRange(r)
  /\ \A k \in 1..(from - 1) : l[k].last + 1 < r.start
  /\ \A k \in (to + 1)..Len(l) : r.last + 1 < l[k].start

\* Replacing ranges of a canonical list by none, or by one that fits between those left.
LEMMA SpliceCanonical ==
  ASSUME NEW l, Canonical(l), NEW from \in 1..(Len(l) + 1), NEW to \in (from - 1)..Len(l),
         NEW others \in Seq(VaRange), Len(others) <= 1,
         Len(others) = 1 => Fits(l, from, to, others[1])
  PROVE  /\ Canonical(Splice(l, from, to, others))
         /\ \A a : a \in RangesOf(Splice(l, from, to, others)) <=>
              \/ \E k \in 1..(from - 1) : In(a, l[k])
              \/ Len(others) = 1 /\ In(a, others[1])
              \/ \E k \in (to + 1)..Len(l) : In(a, l[k])
<1> DEFINE s == Splice(l, from, to, others)
           m == Len(others)
           n == Len(s)
           past == from - 1 + m
<1>1. /\ l \in Seq(VaRange) /\ Len(l) \in Nat /\ m \in 0..1 /\ from \in Int /\ to \in Int
      /\ \A i \in 1..Len(l) : l[i] \in VaRange
  <2>1. l \in Seq(VaRange)
    BY DEF Canonical
  <2>2. Len(l) \in Nat /\ Len(others) \in Nat
    BY <2>1, LenProperties
  <2>3. \A i \in 1..Len(l) : l[i] \in VaRange
    BY <2>1, ElementOfSeq
  <2>4. m \in 0..1 /\ from \in Int /\ to \in Int
    BY <2>2
  <2> QED
    BY <2>1, <2>2, <2>3, <2>4
<1>2. /\ s \in Seq(VaRange) /\ n = Len(l) - (to - from + 1) + m
      /\ \A k \in 1..(from - 1) : s[k] = l[k]
      /\ \A k \in 1..m : s[from - 1 + k] = others[k]
      /\ \A k \in (to + 1)..Len(l) : s[from - 1 + m + (k - to)] = l[k]
  <2> HIDE DEF s, m, n
  <2>1. l \in Seq(VaRange)
    BY <1>1
  <2>2. Spliced(VaRange, Splice(l, from, to, others), l, from, to, others)
    BY <2>1, SpliceIs
  <2> QED
    BY <2>2 DEF s, m, n, Spliced
<1> HIDE DEF s, n
<1>3. \A k \in 1..n : \/ k \in 1..(from - 1) /\ s[k] = l[k]
                      \/ m = 1 /\ k = from /\ s[k] = others[1]
                      \/ k > past /\ k - past + to \in (to + 1)..Len(l) /\ s[k] = l[k - past + to]
  <2> SUFFICES ASSUME NEW k \in 1..n
               PROVE  \/ k \in 1..(from - 1) /\ s[k] = l[k]
                      \/ m = 1 /\ k = from /\ s[k] = others[1]
                      \/ k > past /\ k - past + to \in (to + 1)..Len(l) /\ s[k] = l[k - past + to]
    OBVIOUS
  <2>1. CASE k <= from - 1
    <3>1. k \in 1..(from - 1)
      BY <1>1, <2>1
    <3> QED
      BY <1>2, <3>1
  <2>2. CASE k > from - 1 /\ k <= past
    <3>1. m = 1 /\ k = from /\ 1 \in 1..m /\ from - 1 + 1 = from
      BY <1>1, <2>2
    <3> HIDE DEF m
    <3> QED
      BY <1>2, <3>1
  <2>3. CASE k > past
    <3> DEFINE j == k - past + to
    <3>1. j \in (to + 1)..Len(l) /\ from - 1 + m + (j - to) = k
      BY <1>1, <1>2, <2>3
    <3> HIDE DEF j
    <3>2. s[k] = l[j]
      BY <1>2, <3>1
    <3> QED
      BY <2>3, <3>1, <3>2 DEF j
  <2> QED
    BY <1>1, <2>1, <2>2, <2>3
<1>4. \A k \in (to + 1)..Len(l) : past + (k - to) \in 1..n /\ s[past + (k - to)] = l[k]
  <2> SUFFICES ASSUME NEW k \in (to + 1)..Len(l)
               PROVE  past + (k - to) \in 1..n /\ s[past + (k - to)] = l[k]
    OBVIOUS
  <2>1. past + (k - to) \in 1..n /\ past + (k - to) = from - 1 + m + (k - to)
    BY <1>1, <1>2
  <2> QED
    BY <1>2, <2>1
<1>5. \A k \in 1..(from - 1) : k \in 1..n
  BY <1>1, <1>2
<1>6. m = 1 => from \in 1..n /\ s[from] = others[1]
  <2> SUFFICES ASSUME m = 1 PROVE from \in 1..n /\ s[from] = others[1]
    OBVIOUS
  <2>1. from \in 1..n /\ 1 \in 1..m /\ from - 1 + 1 = from
    BY <1>1, <1>2
  <2> QED
    BY <1>2, <2>1
<1>7. /\ \A i \in 1..Len(l) : GoodRange(l[i])
      /\ \A i, j \in 1..Len(l) : i < j => l[i].last + 1 < l[j].start
  BY DEF Canonical
<1>8. (to + 1)..Len(l) \subseteq 1..Len(l) /\ 1..(from - 1) \subseteq 1..Len(l)
  BY <1>1
<1>9. \A i \in 1..n : GoodRange(s[i])
  BY <1>3, <1>7, <1>8 DEF Fits
<1>10. ASSUME NEW i \in 1..n, NEW j \in 1..n, i < j
       PROVE  s[i].last + 1 < s[j].start
  <2>1. CASE i \in 1..(from - 1) /\ s[i] = l[i]
    <3>1. CASE j \in 1..(from - 1) /\ s[j] = l[j]
      BY <1>7, <1>8, <1>10, <2>1, <3>1
    <3>2. CASE m = 1 /\ j = from /\ s[j] = others[1]
      BY <2>1, <3>2 DEF Fits
    <3>3. CASE j > past /\ j - past + to \in (to + 1)..Len(l) /\ s[j] = l[j - past + to]
      <4>1. i < j - past + to
        BY <1>1, <2>1, <3>3
      <4> QED
        BY <1>7, <1>8, <2>1, <3>3, <4>1
    <3> QED
      BY <1>3, <3>1, <3>2, <3>3
  <2>2. CASE m = 1 /\ i = from /\ s[i] = others[1]
    <3>1. j > past
      BY <1>1, <1>10, <2>2
    <3>2. j - past + to \in (to + 1)..Len(l) /\ s[j] = l[j - past + to]
      BY <1>1, <1>3, <2>2, <3>1
    <3> QED
      BY <2>2, <3>2 DEF Fits
  <2>3. CASE i > past /\ i - past + to \in (to + 1)..Len(l) /\ s[i] = l[i - past + to]
    <3>1. j > past
      BY <1>1, <1>10, <2>3
    <3>2. j - past + to \in (to + 1)..Len(l) /\ s[j] = l[j - past + to]
      BY <1>1, <1>3, <3>1
    <3>3. i - past + to < j - past + to
      BY <1>1, <1>10
    <3> QED
      BY <1>7, <1>8, <2>3, <3>2, <3>3
  <2> QED
    BY <1>3, <2>1, <2>2, <2>3
<1>11. Canonical(s)
  BY <1>2, <1>9, <1>10 DEF Canonical, n
<1>12. ASSUME NEW a
       PROVE  a \in RangesOf(s) <=>
                \/ \E k \in 1..(from - 1) : In(a, l[k])
                \/ m = 1 /\ In(a, others[1])
                \/ \E k \in (to + 1)..Len(l) : In(a, l[k])
  <2>1. a \in RangesOf(s) <=> \E k \in 1..n : In(a, s[k])
    BY <1>2, InRanges DEF n
  <2>2. ASSUME NEW k \in 1..n, In(a, s[k])
        PROVE  \/ \E j \in 1..(from - 1) : In(a, l[j])
               \/ m = 1 /\ In(a, others[1])
               \/ \E j \in (to + 1)..Len(l) : In(a, l[j])
    BY <1>3, <2>2
  <2>3. \A k \in 1..(from - 1) : In(a, l[k]) => \E j \in 1..n : In(a, s[j])
    BY <1>2, <1>5
  <2>4. m = 1 /\ In(a, others[1]) => \E j \in 1..n : In(a, s[j])
    BY <1>6
  <2>5. \A k \in (to + 1)..Len(l) : In(a, l[k]) => \E j \in 1..n : In(a, s[j])
    BY <1>4
  <2> QED
    BY <2>1, <2>2, <2>3, <2>4, <2>5
<1> QED
  BY <1>11, <1>12 DEF s

\* The least of a set of numbers.
LEMMA MinIs ==
  ASSUME NEW S \in SUBSET Nat, S # {}
  PROVE  Min(S) \in S /\ \A y \in S : Min(S) <= y
<1>1. PICK x \in S : \A y \in S : ~(y < x)
  BY LeastElement, Zenon
<1>2. \A y \in S : x <= y
  BY <1>1
<1> QED
  BY <1>2 DEF Min

\* A length that is mapped, rounded.
LEMMA LengthRounds ==
  ASSUME NoWrap, NEW size \in MapLengths, size # 0
  PROVE  /\ round(size) \in Nat \ {0} /\ Aligned(round(size)) /\ LastVa + round(size) < Span
         /\ \A n \in 0..LastVa : Aligned(n) => round(n) = n
<1>1. size \in Nat \ {0} /\ LastVa \in Nat /\ Granule \in Nat \ {0} /\ Span \in Nat
      /\ LastVa + size + Granule <= Span
  BY VaSizes DEF NoWrap
<1>2. size + Granule - 1 < Span
  BY <1>1
<1>3. round(size) \in 0..(Span - 1) /\ Aligned(round(size)) /\ size <= round(size) /\ round(size) < size + Granule
  BY <1>1, <1>2, RoundIs
<1>4. \A n \in 0..LastVa : n \in Nat /\ n + Granule - 1 < Span
  BY <1>1
<1> QED
  BY <1>1, <1>3, <1>4, RoundIs

\* Where a block would end in a range.
LEMMA EndIs ==
  ASSUME NoWrap, NEW size \in MapLengths, size # 0, NEW r \in VaRange, GoodRange(r)
  PROVE  round(r.start) = r.start /\ EndIn(r, size) = r.start + round(size) - 1
<1>1. /\ r.start \in 0..LastVa /\ Aligned(r.start) /\ round(r.start) = r.start
      /\ round(size) \in Nat \ {0} /\ LastVa + round(size) < Span
  BY LengthRounds DEF VaRange, GoodRange
<1>2. r.start + round(size) - 1 \in 0..(Span - 1)
  BY <1>1, VaSizes
<1>3. wrap(r.start + round(size) - 1) = r.start + round(size) - 1
  BY <1>2, WrapIs
<1> QED
  BY <1>1, <1>3 DEF EndIn

\* A range with room for a block.
Room(l, i, size) == l[i].start + round(size) - 1 <= l[i].last

LEMMA HoldingIs ==
  ASSUME NoWrap, NEW size \in MapLengths, size # 0, NEW l, Canonical(l)
  PROVE  Holding(l, size) = {i \in 1..Len(l) : Room(l, i, size)}
<1>1. l \in Seq(VaRange) /\ \A i \in 1..Len(l) : GoodRange(l[i])
  BY DEF Canonical
<1>2. \A i \in 1..Len(l) : l[i] \in VaRange
  BY <1>1, ElementOfSeq
<1>3. DOMAIN l = 1..Len(l)
  BY <1>1, LenProperties
<1>4. \A i \in 1..Len(l) : EndIn(l[i], size) = l[i].start + round(size) - 1
  BY <1>1, <1>2, EndIs
<1> QED
  BY <1>3, <1>4 DEF Holding, Room

\* What an allocation finds: the first range with room, or none.
Allocated(l, size) ==
  LET a == allocate(l, size) IN
  \/ /\ a.at = NoRoom /\ a.free = l
     /\ size = 0 \/ \A i \in 1..Len(l) : ~Room(l, i, size)
  \/ /\ size # 0
     /\ \E i \in 1..Len(l) :
          /\ a.at = l[i].start /\ Room(l, i, size) /\ \A k \in 1..(i - 1) : ~Room(l, k, size)
     /\ a.at \in 0..LastVa /\ Aligned(a.at)
     /\ Covers(a.at, size) \subseteq RangesOf(l)
     /\ Canonical(a.free)
     /\ \A x : x \in RangesOf(a.free) <=> x \in RangesOf(l) /\ x \notin Covers(a.at, size)

LEMMA Allocates ==
  ASSUME NoWrap, NEW size \in MapLengths, NEW l, Canonical(l)
  PROVE  Allocated(l, size)
<1>1. l \in Seq(VaRange) /\ Len(l) \in Nat /\ \A i \in 1..Len(l) : l[i] \in VaRange
  <2>1. l \in Seq(VaRange)
    BY DEF Canonical
  <2> QED
    BY <2>1, LenProperties, ElementOfSeq
<1>2. CASE size = 0
  <2>1. allocate(l, size) = [at |-> NoRoom, free |-> l]
    BY <1>2 DEF allocate
  <2> QED
    BY <1>2, <2>1 DEF Allocated
<1>3. CASE size # 0 /\ Holding(l, size) = {}
  <2>1. allocate(l, size) = [at |-> NoRoom, free |-> l]
    BY <1>3 DEF allocate
  <2>2. \A i \in 1..Len(l) : ~Room(l, i, size)
    BY <1>3, HoldingIs
  <2> QED
    BY <2>1, <2>2 DEF Allocated
<1>4. CASE size # 0 /\ Holding(l, size) # {}
  <2> DEFINE i == Min(Holding(l, size))
             r == l[i]
             end == EndIn(r, size)
             tail == IF end = r.last THEN << >> ELSE <<[start |-> wrap(end + 1), last |-> r.last]>>
  <2>1. Holding(l, size) = {k \in 1..Len(l) : Room(l, k, size)}
    BY <1>4, HoldingIs
  <2>2. i \in Holding(l, size) /\ \A k \in Holding(l, size) : i <= k
    <3>1. Holding(l, size) \in SUBSET Nat
      BY <1>1, <2>1
    <3> QED
      BY <1>4, <3>1, MinIs
  <2> HIDE DEF i
  <2>3. i \in 1..Len(l) /\ Room(l, i, size) /\ \A k \in 1..(i - 1) : ~Room(l, k, size)
    BY <1>1, <2>1, <2>2
  <2>4. /\ r \in VaRange /\ GoodRange(r) /\ r.start \in 0..LastVa /\ r.last \in 0..LastVa
        /\ r.start <= r.last /\ Aligned(r.start)
    BY <1>1, <2>3 DEF Canonical, GoodRange, VaRange
  <2> DEFINE c == round(size)
  <2>5. /\ round(r.start) = r.start /\ end = r.start + c - 1 /\ c \in Nat \ {0} /\ Aligned(c)
        /\ LastVa + c < Span /\ end <= r.last
    BY <1>4, <2>3, <2>4, EndIs, LengthRounds DEF Room
  <2>6. allocate(l, size) = [at |-> r.start, free |-> Splice(l, i, i, tail)]
    <3>1. << >> \o tail = tail
      <4>1. tail \in Seq([start : Int, last : Int])
        <5>1. end + 1 \in Int
          BY <2>4, <2>5
        <5>2. wrap(end + 1) \in Int /\ r.last \in Int
          BY <2>4, <5>1, VaSizes, WrapIs
        <5> HIDE DEF end, r
        <5>3. CASE end = r.last
          <6>1. tail = << >>
            BY <5>3
          <6> QED
            BY <6>1, EmptySeq
        <5>4. CASE end # r.last
          <6> DEFINE x == [start |-> wrap(end + 1), last |-> r.last]
          <6>1. x \in [start : Int, last : Int]
            BY <5>2
          <6>2. tail = <<x>>
            BY <5>4
          <6>3. <<x>> \in Seq([start : Int, last : Int])
            <7> HIDE DEF x, tail
            <7> QED
              BY <6>1
          <6> QED
            BY <6>2, <6>3
        <5> QED
          BY <5>3, <5>4
      <4> HIDE DEF tail
      <4> QED
        BY <4>1, ConcatEmptySeq
    <3>2. allocate(l, size) =
            [at |-> round(r.start),
             free |-> Splice(l, i, i,
               (IF round(r.start) = r.start THEN << >>
                ELSE <<[start |-> r.start, last |-> wrap(round(r.start) - 1)]>>) \o tail)]
      BY <1>4 DEF allocate, i
    <3> HIDE DEF tail, r
    <3> QED
      BY <2>5, <3>1, <3>2
  <2> HIDE DEF r, c, end
  <2>7. Covers(r.start, size) = r.start..(r.start + c - 1)
    BY DEF Covers, c
  <2>8. /\ tail \in Seq(VaRange) /\ Len(tail) <= 1 /\ Len(tail) \in Nat
        /\ Len(tail) = 1 => /\ tail[1].start = r.start + c /\ tail[1].last = r.last
                            /\ r.start + c <= r.last
        /\ Len(tail) # 1 => r.last = r.start + c - 1
    <3>1. CASE end = r.last
      <4>1. tail = << >>
        BY <3>1
      <4> HIDE DEF tail
      <4> QED
        BY <2>5, <3>1, <4>1
    <3>2. CASE end # r.last
      <4>1. end + 1 = r.start + c /\ r.start + c \in 0..LastVa /\ r.start + c <= r.last
            /\ end + 1 \in 0..(Span - 1)
        BY <2>4, <2>5, <3>2, VaSizes
      <4>2. wrap(end + 1) = r.start + c
        BY <4>1, WrapIs
      <4>3. tail = <<[start |-> r.start + c, last |-> r.last]>>
        BY <3>2, <4>2
      <4>4. [start |-> r.start + c, last |-> r.last] \in VaRange
        BY <2>4, <4>1 DEF VaRange
      <4> HIDE DEF tail
      <4> QED
        BY <4>1, <4>3, <4>4
    <3> QED
      BY <3>1, <3>2
  <2> HIDE DEF tail
  <2>9. Len(tail) = 1 => Fits(l, i, i, tail[1])
    <3> SUFFICES ASSUME Len(tail) = 1 PROVE Fits(l, i, i, tail[1])
      OBVIOUS
    <3>1. tail[1].start = r.start + c /\ tail[1].last = r.last /\ r.start + c <= r.last
      BY <2>8
    <3>2. Aligned(r.start + c)
      <4>1. r.start \in Int /\ c \in Int
        BY <2>4, <2>5, VaSizes
      <4> QED
        BY <2>4, <2>5, <4>1, AlignedSum, Zenon
    <3>3. \A k \in 1..(i - 1) : l[k].last + 1 < r.start /\ l[k].last \in Int
      <4> SUFFICES ASSUME NEW k \in 1..(i - 1) PROVE l[k].last + 1 < r.start /\ l[k].last \in Int
        OBVIOUS
      <4>1. k \in 1..Len(l) /\ k < i
        BY <1>1, <2>3
      <4>2. l[k].last \in 0..LastVa
        BY <1>1, <4>1 DEF VaRange
      <4> QED
        BY <2>3, <4>1, <4>2, VaSizes DEF Canonical, r
    <3>4. \A k \in (i + 1)..Len(l) : r.last + 1 < l[k].start
      BY <1>1, <2>3 DEF Canonical, r
    <3>5. \A k \in 1..(i - 1) : l[k].last + 1 < r.start + c
      BY <2>4, <2>5, <3>3
    <3> QED
      BY <3>1, <3>2, <3>4, <3>5 DEF Fits, GoodRange
  <2> DEFINE f == Splice(l, i, i, tail)
  <2>10. /\ Canonical(f)
         /\ \A a : a \in RangesOf(f) <=> \/ \E k \in 1..(i - 1) : In(a, l[k])
                                         \/ Len(tail) = 1 /\ In(a, tail[1])
                                         \/ \E k \in (i + 1)..Len(l) : In(a, l[k])
    <3>1. i \in 1..(Len(l) + 1) /\ i \in (i - 1)..Len(l)
      BY <1>1, <2>3
    <3> QED
      BY <2>8, <2>9, <3>1, SpliceCanonical
  <2>11. \A k \in 1..Len(l) : k # i => \A a : In(a, l[k]) => ~In(a, r)
    <3> SUFFICES ASSUME NEW k \in 1..Len(l), k # i, NEW a, In(a, l[k]), In(a, r) PROVE FALSE
      OBVIOUS
    <3>1. (k < i /\ l[k].last + 1 < r.start) \/ (i < k /\ r.last + 1 < l[k].start)
      BY <1>1, <2>3 DEF Canonical, r
    <3>2. l[k] \in VaRange
      BY <1>1
    <3> QED
      BY <2>4, <3>1, <3>2 DEF In, VaRange
  <2>12. \A a : a \in Covers(r.start, size) => In(a, r)
    BY <2>4, <2>5, <2>7 DEF In
  <2>13. \A a : In(a, r) <=> a \in Covers(r.start, size) \/ (Len(tail) = 1 /\ In(a, tail[1]))
    BY <2>4, <2>5, <2>7, <2>8 DEF In
  <2>14. Len(tail) = 1 => \A a : In(a, tail[1]) => a \notin Covers(r.start, size)
    BY <2>4, <2>5, <2>7, <2>8 DEF In
  <2>15. \A a : a \in RangesOf(l) <=> \E k \in 1..Len(l) : In(a, l[k])
    BY <1>1, InRanges
  <2>16. \A a : a \in RangesOf(f) <=> a \in RangesOf(l) /\ a \notin Covers(r.start, size)
    <3> SUFFICES ASSUME NEW a
                 PROVE  a \in RangesOf(f) <=> a \in RangesOf(l) /\ a \notin Covers(r.start, size)
      OBVIOUS
    <3>1. \A k \in 1..Len(l) : k \in 1..(i - 1) \/ k = i \/ k \in (i + 1)..Len(l)
      BY <1>1, <2>3
    <3>2. \A k \in 1..(i - 1) : k \in 1..Len(l) /\ k # i
      BY <1>1, <2>3
    <3>3. \A k \in (i + 1)..Len(l) : k \in 1..Len(l) /\ k # i
      BY <1>1, <2>3
    <3>4. r = l[i]
      BY DEF r
    <3> HIDE DEF f
    <3> QED
      BY <2>3, <2>10, <2>11, <2>12, <2>13, <2>14, <2>15, <3>1, <3>2, <3>3, <3>4
  <2>17. Covers(r.start, size) \subseteq RangesOf(l)
    BY <2>3, <2>12, <2>15 DEF r
  <2> HIDE DEF f
  <2>18. allocate(l, size).at = r.start /\ allocate(l, size).free = f
    BY <2>6 DEF f
  <2>19. \E k \in 1..Len(l) : /\ r.start = l[k].start /\ Room(l, k, size)
                              /\ \A j \in 1..(k - 1) : ~Room(l, j, size)
    BY <2>3 DEF r
  <2> QED
    BY <1>4, <2>4, <2>10, <2>16, <2>17, <2>18, <2>19 DEF Allocated
<1> QED
  BY <1>2, <1>3, <1>4

\* A granule-aligned block none of which is free is given back whole, and nothing else is.
LEMMA Deallocates ==
  ASSUME NoWrap, NEW size \in MapLengths, size # 0, NEW l, Canonical(l),
         NEW low \in 0..LastVa, Aligned(low),
         Covers(low, size) \subseteq 0..LastVa, Covers(low, size) \cap RangesOf(l) = {}
  PROVE  /\ Canonical(deallocate(l, low, size))
         /\ \A a : a \in RangesOf(deallocate(l, low, size)) <=>
                     a \in RangesOf(l) \/ a \in Covers(low, size)
<1> DEFINE c == round(size)
           e == low + c
<1>1. l \in Seq(VaRange) /\ Len(l) \in Nat /\ \A k \in 1..Len(l) : l[k] \in VaRange
  <2>1. l \in Seq(VaRange)
    BY DEF Canonical
  <2> QED
    BY <2>1, LenProperties, ElementOfSeq
<1>2. c \in Nat \ {0} /\ LastVa + c < Span /\ LastVa \in Nat /\ Span \in Nat
  BY LengthRounds, VaSizes
<1>3. Covers(low, size) = low..(e - 1)
  <2>1. low + c - 1 = e - 1
    BY <1>2
  <2> QED
    BY <2>1 DEF Covers
<1> HIDE DEF c
<1>4. e \in Nat /\ low < e /\ e - 1 <= LastVa /\ e \in 0..(Span - 1) /\ e - 1 \in 0..(Span - 1)
  <2>1. e - 1 \in low..(e - 1)
    BY <1>2
  <2>2. e - 1 \in 0..LastVa
    BY <1>3, <2>1
  <2> QED
    BY <1>2, <2>2
<1> HIDE DEF e
<1>5. /\ \A k \in 1..Len(l) : /\ l[k].start \in 0..LastVa /\ l[k].last \in 0..LastVa
                              /\ l[k].start <= l[k].last /\ Aligned(l[k].start)
      /\ \A j, k \in 1..Len(l) : j < k => l[j].last + 1 < l[k].start
  BY <1>1 DEF Canonical, VaRange, GoodRange
<1>6. \A a : a \in RangesOf(l) <=> \E k \in 1..Len(l) : In(a, l[k])
  BY <1>1, InRanges
<1>7. ASSUME NEW k \in 1..Len(l), l[k].start < low
      PROVE  l[k].last < low
  <2>1. low \in Covers(low, size)
    BY <1>3, <1>4
  <2>2. low \notin RangesOf(l)
    BY <2>1
  <2>3. ~In(low, l[k])
    BY <1>6, <2>2
  <2> QED
    BY <1>5, <1>7, <2>3 DEF In
<1>8. ASSUME NEW k \in 1..Len(l), l[k].start >= low
      PROVE  l[k].start >= e
  <2>1. In(l[k].start, l[k])
    BY <1>5 DEF In
  <2>2. l[k].start \notin Covers(low, size)
    BY <1>6, <2>1
  <2> QED
    BY <1>3, <1>4, <1>5, <1>8, <2>2
<1> DEFINE above == {k \in DOMAIN l : l[k].start >= low}
           i == IF above = {} THEN Len(l) + 1 ELSE Min(above)
           prev == i > 1 /\ low <= wrap(l[i - 1].last + 1)
           next == above # {} /\ e >= l[i].start
           joined == [start |-> IF prev THEN l[i - 1].start ELSE low,
                      last |-> IF next THEN l[i].last
                               ELSE IF prev /\ l[i - 1].last > e - 1 THEN l[i - 1].last
                               ELSE e - 1]
           from == IF prev THEN i - 1 ELSE i
           to == IF next THEN i ELSE i - 1
<1>9. deallocate(l, low, size) = Splice(l, from, to, <<joined>>)
  <2>1. wrap(low + round(size)) = e /\ wrap(e - 1) = e - 1
    BY <1>4, WrapIs DEF e, c
  <2> HIDE DEF Splice
  <2> QED
    BY <2>1 DEF deallocate
<1>10. above = {k \in 1..Len(l) : l[k].start >= low} /\ above \in SUBSET Nat
  BY <1>1, LenProperties
<1> HIDE DEF above
<1>11. /\ i \in 1..(Len(l) + 1) /\ (above # {} <=> i <= Len(l))
       /\ \A k \in 1..(i - 1) : l[k].start < low
       /\ \A k \in i..Len(l) : l[k].start >= low
  <2>1. CASE above = {}
    <3>1. i = Len(l) + 1
      BY <2>1
    <3>2. \A k \in 1..Len(l) : l[k].start < low
      BY <1>5, <1>10, <2>1
    <3> HIDE DEF i
    <3> QED
      BY <1>1, <2>1, <3>1, <3>2
  <2>2. CASE above # {}
    <3>1. i = Min(above)
      BY <2>2
    <3> HIDE DEF i
    <3>2. i \in above /\ \A k \in above : i <= k
      BY <1>10, <2>2, <3>1, MinIs
    <3>3. i \in 1..Len(l) /\ l[i].start >= low
      BY <1>10, <3>2
    <3>4. ASSUME NEW k \in 1..(i - 1) PROVE l[k].start < low
      <4>1. k \in 1..Len(l) /\ k \notin above
        BY <1>1, <3>2, <3>3
      <4> QED
        BY <1>5, <1>10, <4>1
    <3>5. ASSUME NEW k \in i..Len(l) PROVE l[k].start >= low
      <4>1. k \in 1..Len(l) /\ (k = i \/ i < k)
        BY <1>1, <3>3
      <4> QED
        BY <1>5, <3>3, <4>1
    <3> QED
      BY <1>1, <2>2, <3>3, <3>4, <3>5
  <2> QED
    BY <2>1, <2>2
<1> HIDE DEF i
<1>12. /\ \A k \in 1..(i - 1) : k \in 1..Len(l) /\ l[k].last < low
       /\ \A k \in i..Len(l) : k \in 1..Len(l) /\ l[k].start >= e
  <2>1. \A k \in 1..(i - 1) : k \in 1..Len(l)
    BY <1>1, <1>11
  <2>2. \A k \in i..Len(l) : k \in 1..Len(l)
    BY <1>1, <1>11
  <2> QED
    BY <1>7, <1>8, <1>11, <2>1, <2>2
<1>13. /\ prev <=> i > 1 /\ low = l[i - 1].last + 1
       /\ i > 1 => i - 1 \in 1..(i - 1) /\ i - 1 \in 1..Len(l)
  <2>1. i > 1 => i - 1 \in 1..(i - 1) /\ i - 1 \in 1..Len(l)
    BY <1>1, <1>11
  <2>2. i > 1 => l[i - 1].last \in 0..LastVa /\ l[i - 1].last < low
    BY <1>5, <1>12, <2>1
  <2>3. i > 1 => wrap(l[i - 1].last + 1) = l[i - 1].last + 1
    <3>1. i > 1 => l[i - 1].last + 1 \in 0..(Span - 1)
      BY <1>2, <2>2, VaSizes
    <3> QED
      BY <3>1, WrapIs
  <2> QED
    BY <2>1, <2>2, <2>3
<1>14. /\ next <=> i <= Len(l) /\ e = l[i].start
       /\ i <= Len(l) => i \in i..Len(l) /\ i \in 1..Len(l)
  <2>1. i <= Len(l) => i \in i..Len(l) /\ i \in 1..Len(l)
    BY <1>1, <1>11
  <2>2. i <= Len(l) => l[i].start \in 0..LastVa /\ l[i].start >= e
    BY <1>5, <1>12, <2>1
  <2> QED
    BY <1>4, <1>11, <2>1, <2>2
<1> HIDE DEF prev, next
<1>15. /\ joined.start = IF prev THEN l[i - 1].start ELSE low
       /\ joined.last = IF next THEN l[i].last ELSE e - 1
  <2>1. prev => ~(l[i - 1].last > e - 1)
    BY <1>4, <1>5, <1>13
  <2> QED
    BY <2>1
<1>16. joined \in VaRange
  <2>1. (IF prev THEN l[i - 1].start ELSE low) \in 0..LastVa
    BY <1>5, <1>13
  <2>2. (IF next THEN l[i].last ELSE e - 1) \in 0..LastVa
    BY <1>4, <1>5, <1>14
  <2>3. joined = [start |-> IF prev THEN l[i - 1].start ELSE low,
                  last |-> IF next THEN l[i].last ELSE e - 1]
    BY <1>15
  <2> HIDE DEF joined
  <2> QED
    BY <2>1, <2>2, <2>3 DEF VaRange
<1> HIDE DEF joined
<1>17. from \in 1..(Len(l) + 1) /\ to \in (from - 1)..Len(l) /\ from \in Int /\ to \in Int /\ i \in Int
  BY <1>1, <1>11, <1>13, <1>14
<1>18. Fits(l, from, to, joined)
  <2>1. GoodRange(joined)
    <3>1. Aligned(joined.start)
      BY <1>5, <1>13, <1>15
    <3>2. joined.start <= low
      BY <1>5, <1>13, <1>15
    <3>3. e - 1 <= joined.last
      BY <1>4, <1>5, <1>14, <1>15
    <3>4. joined.start \in Int /\ joined.last \in Int
      BY <1>16, VaSizes DEF VaRange
    <3> QED
      BY <1>4, <3>1, <3>2, <3>3, <3>4 DEF GoodRange
  <2>2. ASSUME NEW k \in 1..(from - 1) PROVE l[k].last + 1 < joined.start
    <3>1. CASE prev
      <4>1. k \in 1..Len(l) /\ i - 1 \in 1..Len(l) /\ k < i - 1
        BY <1>1, <1>11, <1>13, <3>1
      <4> QED
        BY <1>5, <1>15, <3>1, <4>1
    <3>2. CASE ~prev
      <4>1. k \in 1..(i - 1) /\ i > 1 /\ k \in 1..Len(l)
        BY <1>11, <1>12, <3>2
      <4>2. l[k].last < low /\ l[k].last \in 0..LastVa
        BY <1>5, <1>12, <4>1
      <4>3. CASE k = i - 1
        BY <1>13, <1>15, <3>2, <4>1, <4>2, <4>3
      <4>4. CASE k # i - 1
        <5>1. k < i - 1 /\ i - 1 \in 1..Len(l)
          BY <1>11, <1>13, <4>1, <4>4
        <5>2. l[k].last + 1 < l[i - 1].start /\ l[i - 1].start < low /\ l[i - 1].start \in 0..LastVa
          BY <1>5, <1>11, <1>13, <4>1, <5>1
        <5> QED
          BY <1>15, <3>2, <4>2, <5>2
      <4> QED
        BY <4>3, <4>4
    <3> QED
      BY <3>1, <3>2
  <2>3. ASSUME NEW k \in (to + 1)..Len(l) PROVE joined.last + 1 < l[k].start
    <3>1. CASE next
      <4>1. k \in 1..Len(l) /\ i \in 1..Len(l) /\ i < k
        BY <1>1, <1>11, <1>14, <3>1
      <4> QED
        BY <1>5, <1>15, <3>1, <4>1
    <3>2. CASE ~next
      <4>1. k \in i..Len(l) /\ i <= Len(l) /\ k \in 1..Len(l)
        BY <1>1, <1>11, <3>2
      <4>2. l[k].start >= e /\ l[k].start \in 0..LastVa
        BY <1>5, <1>12, <4>1
      <4>3. CASE k = i
        BY <1>4, <1>14, <1>15, <3>2, <4>1, <4>2, <4>3
      <4>4. CASE k # i
        <5>1. i < k /\ i \in 1..Len(l)
          BY <1>11, <1>14, <4>1, <4>4
        <5>2. l[i].last + 1 < l[k].start /\ l[i].start >= e /\ l[i].start <= l[i].last
              /\ l[i].start \in 0..LastVa /\ l[i].last \in 0..LastVa
          BY <1>5, <1>12, <1>14, <4>1, <5>1
        <5> QED
          BY <1>4, <1>15, <3>2, <4>2, <5>2
      <4> QED
        BY <4>3, <4>4
    <3> QED
      BY <3>1, <3>2
  <2> HIDE DEF from, to
  <2> QED
    BY <2>1, <2>2, <2>3 DEF Fits
<1> DEFINE one == <<joined>>
           s == Splice(l, from, to, one)
<1>19. one \in Seq(VaRange) /\ Len(one) = 1 /\ one[1] = joined
  BY <1>16
<1> HIDE DEF one
<1>20. /\ Canonical(s)
       /\ \A a : a \in RangesOf(s) <=>
              \/ \E k \in 1..(from - 1) : In(a, l[k])
              \/ In(a, joined)
              \/ \E k \in (to + 1)..Len(l) : In(a, l[k])
  <2> HIDE DEF from, to
  <2>1. Len(one) <= 1 /\ (Len(one) = 1 => Fits(l, from, to, one[1]))
    BY <1>18, <1>19
  <2> QED
    BY <1>17, <1>19, <2>1, SpliceCanonical
<1> HIDE DEF s
<1>21. \A a : In(a, joined) <=>
          a \in Covers(low, size) \/ (prev /\ In(a, l[i - 1])) \/ (next /\ In(a, l[i]))
  <2> SUFFICES ASSUME NEW a
               PROVE  In(a, joined) <=> a \in Covers(low, size) \/ (prev /\ In(a, l[i - 1]))
                                          \/ (next /\ In(a, l[i]))
    OBVIOUS
  <2>1. prev => l[i - 1].last + 1 = low /\ l[i - 1].start \in 0..LastVa /\ l[i - 1].last \in 0..LastVa
                /\ l[i - 1].start <= l[i - 1].last
    BY <1>5, <1>13
  <2>2. next => l[i].start = e /\ l[i].last \in 0..LastVa /\ l[i].start <= l[i].last
    BY <1>5, <1>14
  <2> QED
    BY <1>2, <1>3, <1>4, <1>15, <2>1, <2>2 DEF In
<1>22. \A a : a \in RangesOf(s) <=> a \in RangesOf(l) \/ a \in Covers(low, size)
  <2> SUFFICES ASSUME NEW a
               PROVE  a \in RangesOf(s) <=> a \in RangesOf(l) \/ a \in Covers(low, size)
    OBVIOUS
  <2>1. \A k \in 1..(from - 1) : k \in 1..Len(l)
    BY <1>1, <1>17
  <2>2. \A k \in (to + 1)..Len(l) : k \in 1..Len(l)
    BY <1>1, <1>17
  <2>3. \A k \in 1..Len(l) : \/ k \in 1..(from - 1) \/ k \in (to + 1)..Len(l)
                             \/ (prev /\ k = i - 1) \/ (next /\ k = i)
    BY <1>1, <1>11, <1>17
  <2>4. (prev => i - 1 \in 1..Len(l)) /\ (next => i \in 1..Len(l))
    BY <1>13, <1>14
  <2> HIDE DEF from, to
  <2> QED
    BY <1>6, <1>20, <1>21, <2>1, <2>2, <2>3, <2>4
<1> QED
  BY <1>9, <1>20, <1>22 DEF s, one

\* A block of free addresses lies in one range, since ranges that touch are joined.
LEMMA BlockInRange ==
  ASSUME NoWrap, NEW size \in MapLengths, size # 0, NEW l, Canonical(l),
         NEW a \in 0..LastVa, Covers(a, size) \subseteq RangesOf(l)
  PROVE  \E k \in 1..Len(l) : Room(l, k, size) /\ l[k].start <= a
<1> DEFINE c == round(size)
<1>1. l \in Seq(VaRange) /\ Len(l) \in Nat /\ \A k \in 1..Len(l) : l[k] \in VaRange
  <2>1. l \in Seq(VaRange)
    BY DEF Canonical
  <2> QED
    BY <2>1, LenProperties, ElementOfSeq
<1>2. c \in Nat \ {0} /\ LastVa \in Nat
  BY LengthRounds, VaSizes
<1>3. Covers(a, size) = a..(a + c - 1)
  BY DEF Covers
<1> HIDE DEF c
<1>4. /\ \A k \in 1..Len(l) : /\ l[k].start \in 0..LastVa /\ l[k].last \in 0..LastVa
                              /\ l[k].start <= l[k].last
      /\ \A j, k \in 1..Len(l) : j < k => l[j].last + 1 < l[k].start
  BY <1>1 DEF Canonical, VaRange, GoodRange
<1>5. \A x : x \in RangesOf(l) <=> \E k \in 1..Len(l) : In(x, l[k])
  BY <1>1, InRanges
<1>6. PICK k \in 1..Len(l) : In(a, l[k])
  <2>1. a \in Covers(a, size)
    BY <1>2, <1>3
  <2> QED
    BY <1>5, <2>1
<1>7. a + c - 1 <= l[k].last
  <2> SUFFICES ASSUME a + c - 1 > l[k].last PROVE FALSE
    BY <1>2, <1>4
  <2> DEFINE x == l[k].last + 1
  <2>1. x \in a..(a + c - 1)
    BY <1>2, <1>4, <1>6 DEF In
  <2>2. PICK j \in 1..Len(l) : In(x, l[j])
    BY <1>3, <1>5, <2>1
  <2>3. l[j].start <= x /\ x <= l[j].last
    BY <2>2 DEF In
  <2>4. CASE j < k
    <3>1. l[j].last + 1 < l[k].start
      BY <1>4, <2>4
    <3> QED
      BY <1>4, <2>3, <3>1
  <2>5. CASE k < j
    <3>1. l[k].last + 1 < l[j].start
      BY <1>4, <2>5
    <3> QED
      BY <1>4, <2>3, <3>1
  <2>6. CASE j = k
    BY <1>4, <2>3, <2>6
  <2> QED
    BY <1>1, <2>4, <2>5, <2>6
<1>8. l[k].start <= a /\ l[k].start + c - 1 <= l[k].last
  BY <1>2, <1>4, <1>6, <1>7 DEF In
<1> QED
  BY <1>8 DEF Room, c

\* The allocator finds what first fit would.
LEMMA AllocatesFirstFit ==
  ASSUME NoWrap, NEW size \in MapLengths, Canonical(free)
  PROVE  allocate(free, size).at = FirstFit(size)
<1> DEFINE starts == {a \in 0..LastVa : a % Granule = 0 /\ Covers(a, size) \subseteq FreeAddresses}
           found == allocate(free, size).at
<1>1. Allocated(free, size)
  BY Allocates
<1>2. FreeAddresses = RangesOf(free)
  BY DEF FreeAddresses, RangesOf
<1>3. FirstFit(size) = IF size = 0 \/ starts = {} THEN NoRoom ELSE Min(starts)
  BY DEF FirstFit
<1>4. free \in Seq(VaRange) /\ Len(free) \in Nat
  <2>1. free \in Seq(VaRange)
    BY DEF Canonical
  <2> QED
    BY <2>1, LenProperties
<1>5. ASSUME size # 0
      PROVE  \A a \in starts : \E k \in 1..Len(free) : Room(free, k, size) /\ free[k].start <= a
  <2> SUFFICES ASSUME NEW a \in starts
               PROVE  \E k \in 1..Len(free) : Room(free, k, size) /\ free[k].start <= a
    OBVIOUS
  <2>1. a \in 0..LastVa /\ Covers(a, size) \subseteq RangesOf(free)
    BY <1>2
  <2> QED
    BY <1>5, <2>1, BlockInRange
<1>6. CASE found = NoRoom /\ (size = 0 \/ \A i \in 1..Len(free) : ~Room(free, i, size))
  <2>1. size = 0 \/ starts = {}
    BY <1>5, <1>6
  <2> HIDE DEF starts
  <2> QED
    BY <1>3, <1>6, <2>1
<1>7. CASE /\ size # 0
           /\ \E i \in 1..Len(free) : /\ found = free[i].start /\ Room(free, i, size)
                                      /\ \A k \in 1..(i - 1) : ~Room(free, k, size)
           /\ found \in 0..LastVa /\ Aligned(found) /\ Covers(found, size) \subseteq RangesOf(free)
  <2> HIDE DEF found
  <2>1. found \in starts
    BY <1>2, <1>7 DEF Aligned
  <2>2. PICK i \in 1..Len(free) : /\ found = free[i].start
                                  /\ \A k \in 1..(i - 1) : ~Room(free, k, size)
    BY <1>7
  <2>3. ASSUME NEW b \in starts PROVE found <= b
    <3>1. PICK k \in 1..Len(free) : Room(free, k, size) /\ free[k].start <= b
      BY <1>5, <1>7
    <3>2. i = k \/ i < k
      BY <1>4, <2>2, <3>1
    <3>3. free[i] \in VaRange /\ free[k] \in VaRange /\ GoodRange(free[i])
      BY <1>4, ElementOfSeq DEF Canonical
    <3>4. i < k => free[i].last + 1 < free[k].start
      BY DEF Canonical
    <3>5. free[i].start <= free[k].start
      BY <3>2, <3>3, <3>4, VaSizes DEF VaRange, GoodRange
    <3>6. b \in 0..LastVa
      OBVIOUS
    <3> QED
      BY <2>2, <3>1, <3>3, <3>5, <3>6, VaSizes DEF VaRange
  <2>4. starts \in SUBSET Nat /\ starts # {}
    BY <2>1, VaSizes
  <2> HIDE DEF starts
  <2>5. Min(starts) \in starts /\ \A y \in starts : Min(starts) <= y
    BY <2>4, MinIs
  <2>6. Min(starts) = found
    <3>1. Min(starts) <= found /\ found <= Min(starts) /\ Min(starts) \in Nat /\ found \in Nat
      BY <2>1, <2>3, <2>4, <2>5
    <3> QED
      BY <3>1
  <2> QED
    BY <1>3, <1>7, <2>4, <2>6 DEF found
<1> QED
  BY <1>1, <1>6, <1>7 DEF Allocated

-----------------------------------------------------------------------------
(* The root task: types *)

\* Whatever is freed, the list is of ranges of 64-bit addresses, as is a block found.
LEMMA ListTypes ==
  ASSUME NEW l \in Seq(FreeRange), NEW size \in Nat
  PROVE  /\ allocate(l, size).free \in Seq(FreeRange)
         /\ allocate(l, size).at # NoRoom => allocate(l, size).at \in 0..(Span - 1)
         /\ \A low \in 0..(Span - 1) : deallocate(l, low, size) \in Seq(FreeRange)
<1>1. /\ Len(l) \in Nat /\ DOMAIN l = 1..Len(l) /\ \A k \in 1..Len(l) : l[k] \in FreeRange
  BY LenProperties, ElementOfSeq
<1>2. /\ \A k \in 1..Len(l) : l[k].start \in 0..(Span - 1) /\ l[k].last \in 0..(Span - 1)
      /\ Span \in Nat \ {0}
  BY <1>1, VaSizes DEF FreeRange
<1>3. round(size) \in 0..(Span - 1) /\ \A n \in 0..(Span - 1) : round(n) \in 0..(Span - 1)
  BY <1>2, RoundIs
<1>4. \A n \in Int : wrap(n) \in 0..(Span - 1)
  BY WrapIs
<1>5. /\ allocate(l, size).free \in Seq(FreeRange)
      /\ allocate(l, size).at # NoRoom => allocate(l, size).at \in 0..(Span - 1)
  <2>1. CASE size = 0 \/ Holding(l, size) = {}
    <3>1. allocate(l, size) = [at |-> NoRoom, free |-> l]
      BY <2>1 DEF allocate
    <3> QED
      BY <3>1
  <2>2. CASE size # 0 /\ Holding(l, size) # {}
    <3> DEFINE i == Min(Holding(l, size))
               r == l[i]
               al == round(r.start)
               end == EndIn(r, size)
               front == IF al = r.start THEN << >> ELSE <<[start |-> r.start, last |-> wrap(al - 1)]>>
               tail == IF end = r.last THEN << >> ELSE <<[start |-> wrap(end + 1), last |-> r.last]>>
    <3>1. allocate(l, size) = [at |-> al, free |-> Splice(l, i, i, front \o tail)]
      BY <2>2 DEF allocate
    <3>2. i \in 1..Len(l)
      <4>1. Holding(l, size) \in SUBSET Nat /\ Holding(l, size) \subseteq 1..Len(l)
        BY <1>1 DEF Holding
      <4> QED
        BY <2>2, <4>1, MinIs
    <3> HIDE DEF i
    <3>3. r.start \in 0..(Span - 1) /\ r.last \in 0..(Span - 1) /\ al \in 0..(Span - 1)
      BY <1>2, <1>3, <3>2
    <3> HIDE DEF r
    <3>4. end \in 0..(Span - 1)
      <4>1. round(r.start) + round(size) - 1 \in Int
        BY <1>2, <1>3, <3>3
      <4> QED
        BY <1>4, <4>1 DEF EndIn
    <3> HIDE DEF al, end
    <3>5. /\ [start |-> r.start, last |-> wrap(al - 1)] \in FreeRange
          /\ [start |-> wrap(end + 1), last |-> r.last] \in FreeRange
      <4>1. al - 1 \in Int /\ end + 1 \in Int
        BY <1>2, <3>3, <3>4
      <4> QED
        BY <1>4, <3>3, <4>1 DEF FreeRange
    <3>6. front \in Seq(FreeRange)
      <4>1. CASE al = r.start
        <5>1. front = << >>
          BY <4>1
        <5> QED
          BY <5>1, EmptySeq
      <4>2. CASE al # r.start
        <5> DEFINE x == [start |-> r.start, last |-> wrap(al - 1)]
        <5>1. front = <<x>> /\ x \in FreeRange
          BY <3>5, <4>2
        <5> HIDE DEF x, front, tail
        <5> QED
          BY <5>1
      <4> QED
        BY <4>1, <4>2
    <3>7. tail \in Seq(FreeRange)
      <4>1. CASE end = r.last
        <5>1. tail = << >>
          BY <4>1
        <5> QED
          BY <5>1, EmptySeq
      <4>2. CASE end # r.last
        <5> DEFINE x == [start |-> wrap(end + 1), last |-> r.last]
        <5>1. tail = <<x>> /\ x \in FreeRange
          BY <3>5, <4>2
        <5> HIDE DEF x, front, tail
        <5> QED
          BY <5>1
      <4> QED
        BY <4>1, <4>2
    <3> HIDE DEF front, tail
    <3>8. front \o tail \in Seq(FreeRange)
      BY <3>6, <3>7, ConcatProperties
    <3>9. i \in 1..(Len(l) + 1) /\ i \in (i - 1)..Len(l)
      BY <1>1, <3>2
    <3>10. Spliced(FreeRange, Splice(l, i, i, front \o tail), l, i, i, front \o tail)
      BY <3>8, <3>9, SpliceIs
    <3> QED
      BY <3>1, <3>3, <3>10 DEF Spliced
  <2> QED
    BY <2>1, <2>2
<1>6. ASSUME NEW low \in 0..(Span - 1) PROVE deallocate(l, low, size) \in Seq(FreeRange)
  <2> DEFINE e == wrap(low + round(size))
             last == wrap(e - 1)
             above == {k \in DOMAIN l : l[k].start >= low}
             i == IF above = {} THEN Len(l) + 1 ELSE Min(above)
             prev == i > 1 /\ low <= wrap(l[i - 1].last + 1)
             next == above # {} /\ e >= l[i].start
             first == IF prev THEN l[i - 1].start ELSE low
             final == IF next THEN l[i].last
                      ELSE IF prev /\ l[i - 1].last > last THEN l[i - 1].last
                      ELSE last
             joined == [start |-> first, last |-> final]
             from == IF prev THEN i - 1 ELSE i
             to == IF next THEN i ELSE i - 1
  <2>1. deallocate(l, low, size) = Splice(l, from, to, <<joined>>)
    BY DEF deallocate
  <2>2. last \in 0..(Span - 1)
    <3>1. low + round(size) \in Int
      BY <1>2, <1>3
    <3>2. e - 1 \in Int
      BY <1>2, <1>4, <3>1
    <3> QED
      BY <1>4, <3>2
  <2> HIDE DEF e, last
  <2>3. i \in 1..(Len(l) + 1) /\ (above # {} => i \in 1..Len(l))
    <3>1. above \in SUBSET Nat /\ above \subseteq 1..Len(l)
      BY <1>1
    <3> HIDE DEF above
    <3>2. above # {} => Min(above) \in 1..Len(l)
      BY <3>1, MinIs
    <3> QED
      BY <1>1, <3>2
  <2>4. (prev => i - 1 \in 1..Len(l)) /\ (next => i \in 1..Len(l))
    <3>1. i > 1 => i - 1 \in 1..Len(l)
      BY <1>1, <2>3
    <3> QED
      BY <2>3, <3>1
  <2> HIDE DEF i, prev, next
  <2>5. from \in 1..(Len(l) + 1) /\ to \in (from - 1)..Len(l)
    BY <1>1, <2>3, <2>4
  <2>6. first \in 0..(Span - 1) /\ final \in 0..(Span - 1)
    BY <1>2, <2>2, <2>4
  <2> HIDE DEF first, final, from, to
  <2>7. joined \in FreeRange
    BY <2>6 DEF FreeRange
  <2> HIDE DEF joined
  <2> DEFINE one == <<joined>>
  <2>8. one \in Seq(FreeRange)
    BY <2>7
  <2> HIDE DEF one
  <2>9. Spliced(FreeRange, Splice(l, from, to, one), l, from, to, one)
    BY <2>5, <2>8, SpliceIs
  <2> QED
    BY <2>1, <2>9 DEF Spliced, one
<1> QED
  BY <1>5, <1>6

\* Every thread is at a place of its own kind.
AnyPlace == UserPlaces \cup GuestPlaces
Placed ==
  /\ place \in [Threads -> AnyPlace]
  /\ place[Guest] \in GuestPlaces /\ \A t \in Users : place[t] \in UserPlaces
MapRecord == [va : Nat, length : Lengths \cup {Page, 0}, offset : 0..(Span - 1),
              task : 0..MaxRoots]

\* The type invariant in parts: the places, the root task's state, the mappings, the counters.
TaskTyped ==
  /\ task \in 0..MaxRoots /\ base \in Bases \cup {0}
  /\ destroyed \subseteq 1..MaxRoots /\ root_node \in BOOLEAN
SpaceTyped ==
  /\ free \in Seq(FreeRange) /\ mapping \in [Threads -> MapRecord]
  /\ mapped \subseteq (1..MaxRoots) \X Nat /\ lost \subseteq Nat
DropTyped == offset \in [Threads -> 0..LastVa] /\ strayed \in BOOLEAN /\ fatal \in BOOLEAN
CountTyped == roots \in 0..MaxRoots /\ maps \in 0..MaxMaps
RootParts == Placed /\ TaskTyped /\ SpaceTyped /\ DropTyped /\ CountTyped

LEMMA RootTypeParts == (RootTypeOK <=> RootParts) /\ (RootTypeOK <=> RootParts)'
  BY Zenon DEF RootTypeOK, RootParts, Placed, AnyPlace, MapRecord, TaskTyped, SpaceTyped, DropTyped,
     CountTyped

\* A thread goes to a place of its own kind, and the others stay.
Went(t, label) == place'[t] = label /\ \A u \in Threads \ {t} : place'[u] = place[u]
LEMMA Goes ==
  ASSUME Placed, NEW t \in Threads, NEW label, GoesTo(t, label),
         t = Guest => label \in GuestPlaces, t \in Users => label \in UserPlaces
  PROVE  Placed' /\ Went(t, label)
<1>1. Guest \notin Users /\ Users \subseteq Threads /\ Guest \in Threads
  BY RootMappingsAssumption DEF Threads
<1>2. t = Guest \/ t \in Users
  BY DEF Threads
<1>3. label \in AnyPlace
  BY <1>2 DEF AnyPlace
<1>4. place \in [Threads -> AnyPlace] /\ place' = [place EXCEPT ![t] = label]
  BY DEF Placed, GoesTo
<1>5. place' \in [Threads -> AnyPlace] /\ Went(t, label)
  BY <1>3, <1>4 DEF Went
<1>6. place'[Guest] \in GuestPlaces
  BY <1>1, <1>4 DEF Placed
<1>7. \A u \in Users : place'[u] \in UserPlaces
  BY <1>1, <1>4 DEF Placed
<1> QED
  BY <1>5, <1>6, <1>7 DEF Placed

\* What a mapping leaves: nothing changed, or the list after a refused one, or a new mapping.
LEMMA MapTypes ==
  ASSUME TaskTyped, SpaceTyped, NEW t \in Threads, NEW length \in MapLengths, NEW fails, NEW made,
         root_task_mapping(t, length, fails, made), lost' = lost
  PROVE  SpaceTyped' /\ (GoesTo(t, fails) \/ GoesTo(t, made))
<1> DEFINE a == allocate(free, length)
<1>1. /\ length \in Nat /\ free \in Seq(FreeRange) /\ mapping \in [Threads -> MapRecord]
      /\ mapped \subseteq (1..MaxRoots) \X Nat /\ lost \subseteq Nat
  BY VaSizes DEF SpaceTyped
<1>2. /\ a.free \in Seq(FreeRange) /\ (a.at # NoRoom => a.at \in 0..(Span - 1))
      /\ \A low \in 0..(Span - 1) : deallocate(a.free, low, length) \in Seq(FreeRange)
  BY <1>1, ListTypes
<1> HIDE DEF a
<1>3. \/ /\ UNCHANGED <<free, mapping, mapped>> /\ GoesTo(t, fails)
      \/ /\ a.at # NoRoom /\ free' = deallocate(a.free, a.at, length)
         /\ UNCHANGED <<mapping, mapped>> /\ GoesTo(t, fails)
      \/ /\ a.at # NoRoom /\ task # 0 /\ free' = a.free /\ GoesTo(t, made)
         /\ mapping' = [mapping EXCEPT ![t] = [va |-> base + a.at, length |-> length,
                                               offset |-> a.at, task |-> task]]
         /\ mapped' = mapped \cup ({task} \X Covers(a.at, length))
  BY DEF root_task_mapping, a
<1>4. CASE UNCHANGED <<free, mapping, mapped>> /\ GoesTo(t, fails)
  BY <1>1, <1>4 DEF SpaceTyped
<1>5. CASE /\ a.at # NoRoom /\ free' = deallocate(a.free, a.at, length)
           /\ UNCHANGED <<mapping, mapped>> /\ GoesTo(t, fails)
  <2>1. free' \in Seq(FreeRange)
    BY <1>2, <1>5
  <2> QED
    BY <1>1, <1>5, <2>1 DEF SpaceTyped
<1>6. CASE /\ a.at # NoRoom /\ task # 0 /\ free' = a.free /\ GoesTo(t, made)
           /\ mapping' = [mapping EXCEPT ![t] = [va |-> base + a.at, length |-> length,
                                                 offset |-> a.at, task |-> task]]
           /\ mapped' = mapped \cup ({task} \X Covers(a.at, length))
  <2>1. a.at \in 0..(Span - 1) /\ free' \in Seq(FreeRange)
    BY <1>2, <1>6
  <2>2. /\ base \in Nat /\ task \in 0..MaxRoots /\ task \in 1..MaxRoots /\ Span \in Nat
        /\ length \in Lengths \cup {Page, 0}
    BY <1>6, VaSizes, RootMappingsAssumption DEF TaskTyped, MapLengths
  <2>3. base + a.at \in Nat
    BY <2>1, <2>2
  <2>4. [va |-> base + a.at, length |-> length, offset |-> a.at, task |-> task] \in MapRecord
    BY <2>1, <2>2, <2>3 DEF MapRecord
  <2>5. mapping' \in [Threads -> MapRecord]
    BY <1>1, <1>6, <2>4
  <2>6. round(length) \in 0..(Span - 1)
    BY <1>1, RoundIs
  <2>7. Covers(a.at, length) \subseteq Nat
    BY <2>1, <2>2, <2>6 DEF Covers
  <2>8. {task} \X Covers(a.at, length) \subseteq (1..MaxRoots) \X Nat
    BY <2>2, <2>7
  <2>9. mapped' \subseteq (1..MaxRoots) \X Nat
    BY <1>1, <1>6, <2>8
  <2> QED
    BY <1>1, <1>6, <2>1, <2>5, <2>9 DEF SpaceTyped
<1> QED
  BY <1>3, <1>4, <1>5, <1>6

\* A drop, up to the lock and under it.
LEMMA DropTypes ==
  ASSUME TaskTyped, SpaceTyped, DropTyped, NEW t \in Threads, NEW from, NEW to, Drops(t, from, to)
  PROVE  SpaceTyped' /\ DropTyped' /\ (UNCHANGED place \/ GoesTo(t, "unmaps") \/ GoesTo(t, to))
<1>1. /\ free \in Seq(FreeRange) /\ mapping \in [Threads -> MapRecord]
      /\ mapped \subseteq (1..MaxRoots) \X Nat /\ lost \subseteq Nat
      /\ offset \in [Threads -> 0..LastVa] /\ strayed \in BOOLEAN /\ fatal \in BOOLEAN
  BY DEF SpaceTyped, DropTyped
<1>2. /\ LastVa \in Nat /\ LastVa < Span /\ base \in Nat /\ Span \in Nat \ {0} /\ Granule \in Nat \ {0}
      /\ MapLengths \subseteq Nat
  BY VaSizes, RootMappingsAssumption DEF TaskTyped
<1>3. /\ mapping[t] \in MapRecord /\ mapping[t].va \in Nat /\ mapping[t].length \in Nat
      /\ mapping[t].offset \in 0..(Span - 1)
  BY <1>1, <1>2 DEF MapRecord, MapLengths
<1>4. CASE DropBegins(t, from) /\ UNCHANGED <<free, mapping, mapped, lost>>
  <2> DEFINE off == wrap(mapping[t].va - base)
  <2>1. off \in 0..(Span - 1)
    BY <1>2, <1>3, WrapIs
  <2>2. /\ \/ fatal' = TRUE /\ UNCHANGED <<place, offset>>
           \/ off <= LastVa /\ GoesTo(t, "unmaps") /\ offset' = [offset EXCEPT ![t] = off] /\ UNCHANGED fatal
        /\ strayed' = (strayed \/ off # mapping[t].offset)
    BY <1>2, <1>4, <2>1 DEF DropBegins
  <2> HIDE DEF off
  <2>3. offset' \in [Threads -> 0..LastVa]
    <3>1. off <= LastVa => off \in 0..LastVa
      BY <1>2, <2>1
    <3> QED
      BY <1>1, <2>2, <3>1
  <2>6. fatal' \in BOOLEAN
    BY <1>1, <2>2, Zenon
  <2>4. strayed' \in BOOLEAN
    BY <2>2, Zenon
  <2>5. SpaceTyped'
    BY <1>1, <1>4 DEF SpaceTyped
  <2> QED
    BY <2>2, <2>3, <2>4, <2>5, <2>6 DEF DropTyped
<1>5. CASE unmap_range(t, to) /\ UNCHANGED <<offset, strayed, fatal>>
  <2> DEFINE m == mapping[t]
  <2>1. /\ GoesTo(t, to) /\ mapping' = [mapping EXCEPT ![t] = NoMapping]
        /\ \/ lost' = lost \cup Covers(m.offset, m.length) /\ UNCHANGED <<free, mapped>>
           \/ /\ mapped' = mapped \ ({task} \X Covers(offset[t], m.length))
              /\ free' = deallocate(free, offset[t], m.length) /\ UNCHANGED lost
    BY <1>5 DEF unmap_range
  <2>2. round(m.length) \in 0..(Span - 1) /\ m.offset \in Nat
    BY <1>2, <1>3, RoundIs
  <2>3. Covers(m.offset, m.length) \subseteq Nat
    BY <1>2, <2>2 DEF Covers
  <2>4. offset[t] \in 0..(Span - 1)
    BY <1>1, <1>2
  <2>5. deallocate(free, offset[t], m.length) \in Seq(FreeRange)
    BY <1>1, <1>3, <2>4, ListTypes
  <2>6. NoMapping \in MapRecord
    <3>1. 0 \in 0..(Span - 1) /\ 0 \in 0..MaxRoots
      BY <1>2, RootMappingsAssumption
    <3> QED
      BY <3>1 DEF NoMapping, MapRecord
  <2>7. mapping' \in [Threads -> MapRecord]
    BY <1>1, <2>1, <2>6
  <2>8. free' \in Seq(FreeRange) /\ lost' \subseteq Nat /\ mapped' \subseteq (1..MaxRoots) \X Nat
    BY <1>1, <2>1, <2>3, <2>5
  <2> QED
    BY <1>1, <1>5, <2>1, <2>7, <2>8 DEF SpaceTyped, DropTyped
<1> QED
  BY <1>4, <1>5 DEF Drops

LEMMA RootInitTyped == RootInit => RootTypeOK
<1> SUFFICES ASSUME RootInit PROVE RootParts
  BY RootTypeParts
<1>1. /\ LastVa \in Nat /\ LastVa < Span /\ Span \in Nat \ {0} /\ MaxRoots \in Nat /\ MaxMaps \in Nat
  BY VaSizes, RootMappingsAssumption
<1>2. NoMapping \in MapRecord
  BY <1>1 DEF NoMapping, MapRecord
<1>3. Placed
  BY RootMappingsAssumption DEF RootInit, Placed, AnyPlace, UserPlaces, GuestPlaces, Threads
<1>4. TaskTyped /\ CountTyped
  <2>1. /\ task = 0 /\ base = 0 /\ destroyed = {} /\ root_node = FALSE /\ roots = 0 /\ maps = 0
        /\ 0 \in 0..MaxRoots /\ 0 \in 0..MaxMaps
    BY <1>1 DEF RootInit
  <2>2. TaskTyped
    BY <2>1, Zenon DEF TaskTyped
  <2> QED
    BY <2>1, <2>2, Zenon DEF CountTyped
<1>8. DropTyped
  <2>1. offset = [t \in Threads |-> 0] /\ strayed = FALSE /\ fatal = FALSE /\ 0 \in 0..LastVa
    BY <1>1 DEF RootInit
  <2> QED
    BY <2>1 DEF DropTyped
<1>5. [start |-> 0, last |-> LastVa] \in FreeRange
  BY <1>1 DEF FreeRange
<1>6. free \in Seq(FreeRange)
  BY <1>5 DEF RootInit, new
<1>7. SpaceTyped
  BY <1>2, <1>6 DEF RootInit, SpaceTyped
<1> QED
  BY <1>3, <1>4, <1>7, <1>8 DEF RootParts

\* A thread that maps keeps the types.
LEMMA UserTyped ==
  ASSUME RootParts, NEW t \in Users, UserStep(t)
  PROVE  RootParts'
<1>1. t \in Threads /\ t # Guest /\ MaxMaps \in Nat
  BY RootMappingsAssumption DEF Threads
<1>2. Placed /\ TaskTyped /\ SpaceTyped /\ DropTyped /\ CountTyped
  BY DEF RootParts
<1>3. \A label \in UserPlaces : GoesTo(t, label) => Placed'
  BY <1>1, <1>2, Goes
<1>4. "asks" \in UserPlaces /\ "idle" \in UserPlaces /\ "has" \in UserPlaces /\ "unmaps" \in UserPlaces
  BY DEF UserPlaces
<1>5. CASE Asks(t)
  <2>1. Placed'
    BY <1>3, <1>4, <1>5 DEF Asks
  <2>2. CountTyped'
    BY <1>1, <1>2, <1>5 DEF Asks, CountTyped
  <2>3. TaskTyped' /\ SpaceTyped' /\ DropTyped'
    BY <1>2, <1>5 DEF Asks, TaskTyped, SpaceTyped, DropTyped
  <2> QED
    BY <2>1, <2>2, <2>3 DEF RootParts
<1>6. CASE Maps(t)
  <2>1. PICK length \in Lengths : root_task_mapping(t, length, "idle", "has")
    BY <1>6 DEF Maps
  <2>2. UNCHANGED <<task, base, destroyed, root_node, offset, lost, strayed, fatal, roots, maps>>
    BY <1>6 DEF Maps
  <2>3. length \in MapLengths /\ lost' = lost
    BY <2>2 DEF MapLengths
  <2>4. SpaceTyped' /\ (GoesTo(t, "idle") \/ GoesTo(t, "has"))
    BY <1>1, <1>2, <2>1, <2>3, MapTypes, Zenon
  <2>5. TaskTyped' /\ DropTyped' /\ CountTyped'
    BY <1>2, <2>2 DEF TaskTyped, DropTyped, CountTyped
  <2> QED
    BY <1>3, <1>4, <2>4, <2>5 DEF RootParts
<1>7. CASE LetsGo(t)
  <2>1. Drops(t, "has", "idle") /\ UNCHANGED <<task, base, destroyed, root_node, roots, maps>>
    BY <1>7 DEF LetsGo
  <2>2. /\ SpaceTyped' /\ DropTyped'
        /\ UNCHANGED place \/ GoesTo(t, "unmaps") \/ GoesTo(t, "idle")
    BY <1>1, <1>2, <2>1, DropTypes, Zenon
  <2>3. Placed'
    <3>1. CASE UNCHANGED place
      BY <1>2, <3>1 DEF Placed
    <3> QED
      BY <1>3, <1>4, <2>2, <3>1
  <2>4. TaskTyped' /\ CountTyped'
    BY <1>2, <2>1 DEF TaskTyped, CountTyped
  <2> QED
    BY <2>2, <2>3, <2>4 DEF RootParts
<1> QED
  BY <1>5, <1>6, <1>7 DEF UserStep

\* The root page write keeps the types.
LEMMA RootTyped ==
  ASSUME RootParts, RootStep
  PROVE  RootParts'
<1>1. Guest \in Threads /\ Guest \notin Users /\ MaxRoots \in Nat /\ Page \in MapLengths
  BY RootMappingsAssumption DEF Threads, MapLengths
<1>2. Placed /\ TaskTyped /\ SpaceTyped /\ DropTyped /\ CountTyped
  BY DEF RootParts
<1>3. \A label \in GuestPlaces : GoesTo(Guest, label) => Placed'
  BY <1>1, <1>2, Goes
<1>4. /\ "idle" \in GuestPlaces /\ "teardown" \in GuestPlaces /\ "node" \in GuestPlaces
      /\ "unmaps" \in GuestPlaces /\ "destroy" \in GuestPlaces /\ "make" \in GuestPlaces
      /\ "made" \in GuestPlaces /\ "map" \in GuestPlaces /\ "failed" \in GuestPlaces
      /\ "mapped" \in GuestPlaces
  BY DEF GuestPlaces
<1>5. RootRest => SpaceTyped' /\ DropTyped' /\ maps' = maps
  BY <1>2 DEF RootRest, SpaceTyped, DropTyped
<1>6. {task} \ {0} \subseteq 1..MaxRoots
  BY <1>1, <1>2 DEF TaskTyped
<1>7. CASE set_root_page
  <2>1. Placed' /\ RootRest
    BY <1>3, <1>4, <1>7 DEF set_root_page
  <2>2. TaskTyped'
    BY <1>2, <1>7 DEF set_root_page, TaskTyped
  <2>3. CountTyped'
    BY <1>1, <1>2, <1>5, <1>7, <2>1 DEF set_root_page, CountTyped
  <2> QED
    BY <1>5, <2>1, <2>2, <2>3 DEF RootParts
<1>8. CASE ClearRootNode
  <2>1. Placed' /\ RootRest
    BY <1>3, <1>4, <1>8 DEF ClearRootNode
  <2>2. TaskTyped' /\ CountTyped'
    BY <1>2, <1>5, <1>8, <2>1 DEF ClearRootNode, TaskTyped, CountTyped
  <2> QED
    BY <1>5, <2>1, <2>2 DEF RootParts
<1>9. CASE DropRootNode
  <2>1. /\ Drops(Guest, "node", "destroy")
        /\ UNCHANGED <<task, base, destroyed, root_node, roots, maps>>
    BY <1>9 DEF DropRootNode
  <2>2. /\ SpaceTyped' /\ DropTyped'
        /\ UNCHANGED place \/ GoesTo(Guest, "unmaps") \/ GoesTo(Guest, "destroy")
    BY <1>1, <1>2, <2>1, DropTypes, Zenon
  <2>3. Placed'
    <3>1. CASE UNCHANGED place
      BY <1>2, <3>1 DEF Placed
    <3> QED
      BY <1>3, <1>4, <2>2, <3>1
  <2>4. TaskTyped' /\ CountTyped'
    BY <1>2, <2>1 DEF TaskTyped, CountTyped
  <2> QED
    BY <2>2, <2>3, <2>4 DEF RootParts
<1>10. CASE DestroyTask
  <2>1. Placed' /\ RootRest
    BY <1>3, <1>4, <1>10 DEF DestroyTask
  <2>2. TaskTyped' /\ CountTyped'
    BY <1>1, <1>2, <1>5, <1>6, <1>10, <2>1 DEF DestroyTask, TaskTyped, CountTyped
  <2> QED
    BY <1>5, <2>1, <2>2 DEF RootParts
<1>11. CASE CreateTask
  <2>1. Placed' /\ RootRest
    BY <1>3, <1>4, <1>11 DEF CreateTask
  <2>2. TaskTyped' /\ CountTyped'
    BY <1>1, <1>2, <1>5, <1>11, <2>1 DEF CreateTask, TaskTyped, CountTyped
  <2> QED
    BY <1>5, <2>1, <2>2 DEF RootParts
<1>12. CASE MapRootNode
  <2>1. /\ root_task_mapping(Guest, Page, "failed", "mapped")
        /\ UNCHANGED <<task, base, destroyed, root_node, offset, lost, strayed, fatal, roots, maps>>
    BY <1>12 DEF MapRootNode
  <2>2. lost' = lost
    BY <2>1
  <2>3. SpaceTyped' /\ (GoesTo(Guest, "failed") \/ GoesTo(Guest, "mapped"))
    BY <1>1, <1>2, <2>1, <2>2, MapTypes, Zenon
  <2>4. TaskTyped' /\ DropTyped' /\ CountTyped'
    BY <1>2, <2>1 DEF TaskTyped, DropTyped, CountTyped
  <2> QED
    BY <1>3, <1>4, <2>3, <2>4 DEF RootParts
<1>13. CASE RootNodeFails
  <2>1. Placed' /\ RootRest
    BY <1>3, <1>4, <1>13 DEF RootNodeFails
  <2>2. TaskTyped' /\ CountTyped'
    BY <1>1, <1>2, <1>5, <1>6, <1>13, <2>1 DEF RootNodeFails, TaskTyped, CountTyped
  <2> QED
    BY <1>5, <2>1, <2>2 DEF RootParts
<1>14. CASE RootNodeMade
  <2>1. Placed' /\ RootRest
    BY <1>3, <1>4, <1>14 DEF RootNodeMade
  <2>2. TaskTyped' /\ CountTyped'
    BY <1>2, <1>5, <1>14, <2>1 DEF RootNodeMade, TaskTyped, CountTyped
  <2> QED
    BY <1>5, <2>1, <2>2 DEF RootParts
<1> QED
  BY <1>7, <1>8, <1>9, <1>10, <1>11, <1>12, <1>13, <1>14 DEF RootStep, teardown_root

LEMMA RootStutters == ASSUME RootParts, UNCHANGED root_vars PROVE RootParts'
<1>1. /\ UNCHANGED <<free, task, base, destroyed, root_node, mapping, place>>
      /\ UNCHANGED <<offset, mapped, lost, strayed, fatal, roots, maps>>
  BY DEF root_vars
<1> QED
  BY <1>1, Zenon DEF RootParts, Placed, TaskTyped, SpaceTyped, DropTyped, CountTyped

(* The free list, the mappings with their tasks, the places of the threads and the offsets they *)
(* unmap at stay what root.rs takes them for, whatever the interleaving of maps, drops and root *)
(* page writes, and also when the arithmetic on addresses wraps.                                *)
THEOREM RootTypes == RootSpec => []RootTypeOK
<1>1. RootInit => RootTypeOK
  BY RootInitTyped
<1>2. RootTypeOK /\ [RootNext]_root_vars => RootTypeOK'
  <2> SUFFICES ASSUME RootTypeOK, [RootNext]_root_vars PROVE RootParts'
    BY RootTypeParts
  <2>1. RootParts
    BY RootTypeParts
  <2>2. CASE RootNext
    BY <2>1, <2>2, RootTyped, UserTyped DEF RootNext
  <2>3. CASE UNCHANGED root_vars
    BY <2>1, <2>3, RootStutters
  <2> QED
    BY <2>2, <2>3
<1> QED
  BY <1>1, <1>2, PTL DEF RootSpec

-----------------------------------------------------------------------------
(* The root task: who holds a mapping, and which handles are in use *)

\* What a mapping under the lock does: nothing, or a refusal undone, or a mapping made.
Missed == UNCHANGED <<free, mapping, mapped>>
Refused(length) ==
  LET a == allocate(free, length) IN
  /\ a.at # NoRoom /\ free' = deallocate(a.free, a.at, length) /\ UNCHANGED <<mapping, mapped>>
Made(t, length) ==
  LET a == allocate(free, length) IN
  /\ a.at # NoRoom /\ task # 0 /\ free' = a.free
  /\ mapping' = [mapping EXCEPT ![t] = [va |-> base + a.at, length |-> length,
                                        offset |-> a.at, task |-> task]]
  /\ mapped' = mapped \cup ({task} \X Covers(a.at, length))
LEMMA MapCases ==
  ASSUME NEW t, NEW length, NEW fails, NEW made, root_task_mapping(t, length, fails, made)
  PROVE  \/ (Missed \/ Refused(length)) /\ GoesTo(t, fails)
         \/ Made(t, length) /\ GoesTo(t, made)
  BY DEF root_task_mapping, Missed, Refused, Made

\* What a drop does: its offset is found, or its range is lost, or freed.
Began(t) ==
  LET off == wrap(mapping[t].va - base) IN
  /\ UNCHANGED <<free, mapping, mapped, lost>>
  /\ strayed' = (strayed \/ off # mapping[t].offset)
  /\ \/ UNCHANGED <<place, offset>>
     \/ GoesTo(t, "unmaps") /\ offset' = [offset EXCEPT ![t] = off]
Lost(t) ==
  /\ task = 0 /\ lost' = lost \cup RangeOf(t) /\ UNCHANGED <<free, mapped>>
Freed(t) ==
  /\ task # 0 /\ mapped' = mapped \ ({task} \X Covers(offset[t], mapping[t].length))
  /\ free' = deallocate(free, offset[t], mapping[t].length) /\ UNCHANGED lost
Unmapped(t, to) ==
  /\ place[t] = "unmaps" /\ GoesTo(t, to) /\ mapping' = [mapping EXCEPT ![t] = NoMapping]
  /\ UNCHANGED <<offset, strayed>> /\ (Lost(t) \/ Freed(t))
LEMMA DropCases ==
  ASSUME NEW t, NEW from, NEW to, Drops(t, from, to)
  PROVE  \/ place[t] = from /\ Began(t)
         \/ Unmapped(t, to)
<1>1. CASE DropBegins(t, from) /\ UNCHANGED <<free, mapping, mapped, lost>>
  BY <1>1 DEF DropBegins, Began
<1>2. CASE unmap_range(t, to) /\ UNCHANGED <<offset, strayed, fatal>>
  BY <1>2 DEF unmap_range, Unmapped, Lost, Freed, RangeOf
<1> QED
  BY <1>1, <1>2 DEF Drops

\* The threads that hold a mapping, and the others none.
Has(t) ==
  IF t = Guest THEN \/ place[t] \in {"mapped", "teardown", "node", "unmaps"}
                    \/ place[t] = "idle" /\ root_node
  ELSE place[t] \in {"has", "unmaps"}
Held(t) ==
  /\ Has(t) => mapping[t].length \in MapLengths \ {0}
  /\ ~Has(t) => mapping[t] = NoMapping
GuestNode ==
  /\ root_node => place[Guest] \in {"idle", "teardown"}
  /\ place[Guest] = "teardown" => root_node
HoldInv == GuestNode /\ \A t \in Threads : Held(t)

\* Only the thread that moves has its hold changed.
LEMMA HoldMoves ==
  ASSUME HoldInv, NEW t \in Threads, Held(t)', GuestNode',
         \A u \in Threads \ {t} : mapping'[u] = mapping[u] /\ place'[u] = place[u],
         t # Guest => root_node' = root_node
  PROVE  HoldInv'
<1> SUFFICES ASSUME NEW u \in Threads, u # t PROVE Held(u)'
  BY DEF HoldInv
<1>1. mapping'[u] = mapping[u] /\ place'[u] = place[u] /\ Held(u)
  BY DEF HoldInv
<1>2. Has(u)' <=> Has(u)
  BY <1>1 DEF Has
<1> QED
  BY <1>1, <1>2 DEF Held

\* No handle above the newest has been used: the next root's is new while it is being made.
Remaking == {"teardown", "node", "unmaps", "destroy", "make", "made"}
Newest == IF place[Guest] \in Remaking THEN roots - 1 ELSE roots
FreshInv ==
  /\ task <= Newest
  /\ \A t \in Threads : mapping[t].task <= Newest
  /\ \A x \in mapped : x[1] <= Newest
LEMMA FreshMoves ==
  ASSUME RootParts, RootParts', FreshInv, Newest <= Newest', task' <= Newest',
         \A t \in Threads : mapping'[t].task \in {mapping[t].task, task, 0},
         \A x \in mapped' : x \in mapped \/ x[1] = task
  PROVE  FreshInv'
<1>1. Newest \in Int /\ Newest' \in Int
  BY DEF RootParts, CountTyped, Newest
<1>2. task \in Nat /\ \A x \in mapped : x[1] \in Nat
  BY DEF RootParts, TaskTyped, SpaceTyped
<1>3. \A t \in Threads : mapping[t].task \in Nat
  BY DEF RootParts, SpaceTyped, MapRecord
<1>4. \A t \in Threads : mapping'[t].task <= Newest'
  BY <1>1, <1>2, <1>3 DEF FreshInv
<1>5. \A x \in mapped' : x[1] <= Newest'
  BY <1>1, <1>2 DEF FreshInv
<1> HIDE DEF Newest
<1> QED
  BY <1>4, <1>5 DEF FreshInv

\* A mapping is made by a thread that holds none.
MapPlaces(t, fails, made) ==
  \/ t # Guest /\ place[t] = "asks" /\ fails = "idle" /\ made = "has"
  \/ t = Guest /\ place[t] = "map" /\ fails = "failed" /\ made = "mapped"
LEMMA MapHolds ==
  ASSUME RootParts, RootParts', HoldInv, FreshInv, NEW t \in Threads, NEW length \in MapLengths,
         NEW fails, NEW made, MapPlaces(t, fails, made),
         root_task_mapping(t, length, fails, made), UNCHANGED <<task, root_node, roots>>
  PROVE  HoldInv' /\ FreshInv' /\ mapping[t] = NoMapping
<1>1. /\ place \in [Threads -> AnyPlace] /\ mapping \in [Threads -> MapRecord]
      /\ roots \in Int /\ task \in Int /\ Guest \in Threads
  BY DEF RootParts, Placed, SpaceTyped, CountTyped, TaskTyped, Threads
<1>2. t = Guest => ~root_node
  BY DEF MapPlaces, HoldInv, GuestNode
<1>3. ~Has(t) /\ mapping[t] = NoMapping
  <2>1. ~Has(t)
    BY <1>2 DEF MapPlaces, Has
  <2> QED
    BY <2>1 DEF HoldInv, Held
<1>4. \/ (Missed \/ Refused(length)) /\ GoesTo(t, fails)
      \/ Made(t, length) /\ GoesTo(t, made)
  BY MapCases
<1>5. \A label : GoesTo(t, label) => Went(t, label)
  BY <1>1 DEF GoesTo, Went
<1>6. (GoesTo(t, fails) \/ GoesTo(t, made)) =>
        /\ Newest' = Newest /\ GuestNode'
        /\ \A u \in Threads \ {t} : place'[u] = place[u]
  <2> SUFFICES ASSUME NEW label \in {fails, made}, Went(t, label)
               PROVE  /\ Newest' = Newest /\ GuestNode'
                      /\ \A u \in Threads \ {t} : place'[u] = place[u]
    BY <1>5
  <2>1. place'[t] = label /\ \A u \in Threads \ {t} : place'[u] = place[u]
    BY DEF Went
  <2>2. CASE t = Guest
    BY <1>2, <2>1, <2>2 DEF MapPlaces, Newest, Remaking, GuestNode
  <2>3. CASE t # Guest
    BY <1>1, <2>1, <2>3 DEF HoldInv, Newest, GuestNode
  <2> QED
    BY <2>1, <2>2, <2>3
<1>7. task' <= Newest
  BY DEF FreshInv
<1>8. Newest \in Int
  BY <1>1 DEF Newest
<1>9. CASE (Missed \/ Refused(length)) /\ GoesTo(t, fails)
  <2>1. mapping' = mapping /\ mapped' = mapped
    BY <1>9 DEF Missed, Refused
  <2>2. ~Has(t)'
    BY <1>2, <1>5, <1>9 DEF MapPlaces, Has, Went
  <2>3. Held(t)'
    BY <1>3, <2>1, <2>2 DEF Held
  <2>4. HoldInv'
    BY <1>6, <1>9, <2>1, <2>3, HoldMoves
  <2>5. FreshInv'
    BY <1>6, <1>7, <1>8, <1>9, <2>1, FreshMoves
  <2> QED
    BY <1>3, <2>4, <2>5
<1>10. CASE Made(t, length) /\ GoesTo(t, made)
  <2> DEFINE a == allocate(free, length)
             new_mapping == [va |-> base + a.at, length |-> length, offset |-> a.at, task |-> task]
  <2>1. /\ a.at # NoRoom /\ mapping' = [mapping EXCEPT ![t] = new_mapping]
        /\ mapped' = mapped \cup ({task} \X Covers(a.at, length))
    BY <1>10 DEF Made
  <2>2. length # 0
    BY <2>1 DEF allocate
  <2>3. new_mapping.length = length /\ new_mapping.task = task
    OBVIOUS
  <2> HIDE DEF a, new_mapping
  <2>4. mapping'[t] = new_mapping /\ \A u \in Threads \ {t} : mapping'[u] = mapping[u]
    BY <1>1, <2>1
  <2>5. Has(t)'
    BY <1>5, <1>10 DEF MapPlaces, Has, Went
  <2>6. Held(t)'
    BY <2>2, <2>3, <2>4, <2>5 DEF Held
  <2>7. HoldInv'
    BY <1>6, <1>10, <2>4, <2>6, HoldMoves
  <2>8. \A u \in Threads : mapping'[u].task \in {mapping[u].task, task, 0}
    BY <2>3, <2>4
  <2>9. \A x \in mapped' : x \in mapped \/ x[1] = task
    BY <2>1
  <2>10. FreshInv'
    BY <1>6, <1>7, <1>8, <1>10, <2>8, <2>9, FreshMoves
  <2> QED
    BY <1>3, <2>7, <2>10
<1> QED
  BY <1>4, <1>9, <1>10

\* A mapping is dropped by a thread that holds it, and held no more once it is unmapped.
DropPlaces(t, from, to) ==
  \/ t # Guest /\ from = "has" /\ to = "idle"
  \/ t = Guest /\ from = "node" /\ to = "destroy"
LEMMA DropHolds ==
  ASSUME RootParts, RootParts', HoldInv, FreshInv, NEW t \in Threads, NEW from, NEW to,
         DropPlaces(t, from, to), Drops(t, from, to), UNCHANGED <<task, root_node, roots>>
  PROVE  HoldInv' /\ FreshInv'
<1>1. /\ place \in [Threads -> AnyPlace] /\ mapping \in [Threads -> MapRecord]
      /\ roots \in Int /\ task \in Int /\ Guest \in Threads
  BY DEF RootParts, Placed, SpaceTyped, CountTyped, TaskTyped, Threads
<1>2. place[t] \in {from, "unmaps"}
  BY DropCases DEF Unmapped
<1>3. t = Guest => ~root_node
  BY <1>2 DEF DropPlaces, HoldInv, GuestNode
<1>4. Has(t)
  BY <1>2 DEF DropPlaces, Has
<1>5. \A label : GoesTo(t, label) => Went(t, label)
  BY <1>1 DEF GoesTo, Went
<1>6. \A label \in {"unmaps", to} : Went(t, label) =>
        /\ Newest' = Newest /\ GuestNode'
        /\ \A u \in Threads \ {t} : place'[u] = place[u]
  <2> SUFFICES ASSUME NEW label \in {"unmaps", to}, Went(t, label)
               PROVE  /\ Newest' = Newest /\ GuestNode'
                      /\ \A u \in Threads \ {t} : place'[u] = place[u]
    OBVIOUS
  <2>1. place'[t] = label /\ \A u \in Threads \ {t} : place'[u] = place[u]
    BY DEF Went
  <2>2. CASE t = Guest
    BY <1>2, <1>3, <2>1, <2>2 DEF DropPlaces, Newest, Remaking, GuestNode
  <2>3. CASE t # Guest
    BY <1>1, <2>1, <2>3 DEF HoldInv, Newest, GuestNode
  <2> QED
    BY <2>1, <2>2, <2>3
<1>7. task' <= Newest
  BY DEF FreshInv
<1>8. Newest \in Int
  BY <1>1 DEF Newest
<1>9. CASE place[t] = from /\ Began(t)
  <2>1. mapping' = mapping /\ mapped' = mapped /\ (UNCHANGED place \/ GoesTo(t, "unmaps"))
    BY <1>9 DEF Began
  <2>2. CASE UNCHANGED place
    <3>1. Newest' = Newest /\ GuestNode' /\ Held(t)'
      BY <2>1, <2>2 DEF Newest, HoldInv, GuestNode, Held, Has
    <3>2. HoldInv'
      BY <2>1, <2>2, <3>1, HoldMoves
    <3>3. FreshInv'
      BY <1>7, <1>8, <2>1, <3>1, FreshMoves
    <3> QED
      BY <3>2, <3>3
  <2>3. CASE GoesTo(t, "unmaps")
    <3>1. Went(t, "unmaps")
      BY <1>5, <2>3
    <3>2. Has(t)'
      BY <3>1 DEF Has, Went
    <3>3. Held(t)'
      BY <1>4, <2>1, <3>2 DEF Held, HoldInv
    <3>4. HoldInv'
      BY <1>6, <2>1, <3>1, <3>3, HoldMoves
    <3>5. FreshInv'
      BY <1>6, <1>7, <1>8, <2>1, <3>1, FreshMoves
    <3> QED
      BY <3>4, <3>5
  <2> QED
    BY <2>1, <2>2, <2>3
<1>10. CASE Unmapped(t, to)
  <2>1. /\ mapping' = [mapping EXCEPT ![t] = NoMapping] /\ mapped' \subseteq mapped /\ Went(t, to)
    BY <1>5, <1>10 DEF Unmapped, Lost, Freed
  <2>2. ~Has(t)'
    BY <1>3, <2>1 DEF Has, Went, DropPlaces
  <2>3. mapping'[t] = NoMapping /\ \A u \in Threads \ {t} : mapping'[u] = mapping[u]
    BY <1>1, <2>1
  <2>4. Held(t)'
    BY <2>2, <2>3 DEF Held
  <2>5. HoldInv'
    BY <1>6, <2>1, <2>3, <2>4, HoldMoves
  <2>6. \A u \in Threads : mapping'[u].task \in {mapping[u].task, task, 0}
    BY <2>3 DEF NoMapping
  <2>7. FreshInv'
    BY <1>6, <1>7, <1>8, <2>1, <2>6, FreshMoves
  <2> QED
    BY <2>5, <2>7
<1> QED
  BY <1>9, <1>10, DropCases

\* A step of the root page write that maps and drops nothing.
LEMMA QuietHolds ==
  ASSUME RootParts, RootParts', HoldInv, FreshInv, NEW label, GoesTo(Guest, label), RootRest,
         Has(Guest)' <=> Has(Guest), GuestNode', Newest <= Newest', task' <= Newest'
  PROVE  HoldInv' /\ FreshInv'
<1>1. /\ place \in [Threads -> AnyPlace] /\ Guest \in Threads
      /\ mapping' = mapping /\ mapped' = mapped
  BY DEF RootParts, Placed, Threads, RootRest
<1>2. \A u \in Threads \ {Guest} : place'[u] = place[u]
  BY <1>1 DEF GoesTo
<1>3. Held(Guest)'
  BY <1>1 DEF HoldInv, Held
<1>4. HoldInv'
  BY <1>1, <1>2, <1>3, HoldMoves
<1>5. FreshInv'
  BY <1>1, FreshMoves
<1> QED
  BY <1>4, <1>5

\* Every step keeps who holds a mapping, and the handles used below the newest.
LEMMA StepHolds ==
  ASSUME RootParts, RootParts', HoldInv, FreshInv, RootNext
  PROVE  HoldInv' /\ FreshInv'
<1>1. /\ place \in [Threads -> AnyPlace] /\ mapping \in [Threads -> MapRecord]
      /\ roots \in Int /\ task \in Int /\ task >= 0 /\ Guest \in Threads /\ Guest \notin Users
      /\ Users \subseteq Threads /\ Page \in MapLengths /\ Lengths \subseteq MapLengths
  BY RootMappingsAssumption
     DEF RootParts, Placed, SpaceTyped, CountTyped, TaskTyped, Threads, MapLengths
<1>2. \A label : GoesTo(Guest, label) => place'[Guest] = label
  BY <1>1 DEF GoesTo
<1>3. GuestNode /\ task <= Newest
  BY DEF HoldInv, FreshInv
<1>4. Newest \in Int
  BY <1>1 DEF Newest
<1>5. ASSUME NEW t \in Users, Asks(t)
      PROVE  HoldInv' /\ FreshInv'
  <2>1. t \in Threads /\ t # Guest
    BY <1>1
  <2>2. /\ UNCHANGED <<task, root_node, mapping, mapped, roots>> /\ GoesTo(t, "asks")
        /\ place[t] = "idle"
    BY <1>5 DEF Asks
  <2>3. place'[t] = "asks" /\ \A u \in Threads \ {t} : place'[u] = place[u]
    BY <1>1, <2>1, <2>2 DEF GoesTo
  <2>4. place'[Guest] = place[Guest]
    BY <1>1, <2>1, <2>3
  <2>5. GuestNode' /\ Newest' = Newest
    BY <1>3, <2>2, <2>4 DEF GuestNode, Newest
  <2>6. ~Has(t) /\ ~Has(t)'
    BY <2>1, <2>2, <2>3 DEF Has
  <2>7. Held(t)'
    BY <2>1, <2>2, <2>6 DEF HoldInv, Held
  <2>8. HoldInv'
    BY <2>1, <2>2, <2>3, <2>5, <2>7, HoldMoves
  <2>9. FreshInv'
    BY <1>3, <1>4, <2>2, <2>5, FreshMoves
  <2> QED
    BY <2>8, <2>9
<1>6. ASSUME NEW t \in Users, Maps(t)
      PROVE  HoldInv' /\ FreshInv'
  <2>1. PICK length \in Lengths : root_task_mapping(t, length, "idle", "has")
    BY <1>6 DEF Maps
  <2>2. /\ MapPlaces(t, "idle", "has") /\ t \in Threads /\ length \in MapLengths
        /\ UNCHANGED <<task, root_node, roots>>
    BY <1>1, <1>6 DEF Maps, MapPlaces
  <2> QED
    BY <2>1, <2>2, MapHolds
<1>7. ASSUME NEW t \in Users, LetsGo(t)
      PROVE  HoldInv' /\ FreshInv'
  <2>1. /\ DropPlaces(t, "has", "idle") /\ t \in Threads /\ Drops(t, "has", "idle")
        /\ UNCHANGED <<task, root_node, roots>>
    BY <1>1, <1>7 DEF LetsGo, DropPlaces
  <2> QED
    BY <2>1, DropHolds
<1>8. CASE set_root_page
  <2>1. /\ place[Guest] = "idle" /\ roots' = roots + 1 /\ UNCHANGED <<task, root_node>> /\ RootRest
        /\ \/ root_node /\ GoesTo(Guest, "teardown")
           \/ ~root_node /\ GoesTo(Guest, "make")
    BY <1>8 DEF set_root_page
  <2>2. \/ place'[Guest] = "teardown" /\ root_node
        \/ place'[Guest] = "make" /\ ~root_node
    BY <1>2, <2>1
  <2>3. (Has(Guest)' <=> Has(Guest)) /\ GuestNode'
    BY <2>1, <2>2 DEF Has, GuestNode
  <2>4. Newest' = Newest
    BY <1>1, <2>1, <2>2 DEF Newest, Remaking
  <2>5. Newest <= Newest' /\ task' <= Newest'
    BY <1>3, <1>4, <2>1, <2>4
  <2> QED
    BY <2>1, <2>3, <2>5, QuietHolds
<1>9. CASE ClearRootNode
  <2>1. /\ place[Guest] = "teardown" /\ root_node' = FALSE /\ GoesTo(Guest, "node")
        /\ UNCHANGED <<task, roots>> /\ RootRest
    BY <1>9 DEF ClearRootNode
  <2>2. (Has(Guest)' <=> Has(Guest)) /\ GuestNode'
    BY <1>2, <2>1 DEF Has, GuestNode
  <2>3. Newest' = Newest
    BY <1>2, <2>1 DEF Newest, Remaking
  <2>4. Newest <= Newest' /\ task' <= Newest'
    BY <1>3, <1>4, <2>1, <2>3
  <2> QED
    BY <2>1, <2>2, <2>4, QuietHolds
<1>10. CASE DropRootNode
  <2>1. /\ DropPlaces(Guest, "node", "destroy") /\ Drops(Guest, "node", "destroy")
        /\ UNCHANGED <<task, root_node, roots>>
    BY <1>10 DEF DropRootNode, DropPlaces
  <2> QED
    BY <1>1, <2>1, DropHolds
<1>11. CASE DestroyTask
  <2>1. /\ place[Guest] = "destroy" /\ task' = 0 /\ UNCHANGED <<root_node, roots>> /\ RootRest
        /\ GoesTo(Guest, "make") \/ GoesTo(Guest, "idle")
    BY <1>11 DEF DestroyTask
  <2>2. ~root_node
    BY <1>3, <2>1 DEF GuestNode
  <2>3. (Has(Guest)' <=> Has(Guest)) /\ GuestNode'
    BY <1>2, <2>1, <2>2 DEF Has, GuestNode
  <2>4. Newest <= Newest'
    BY <1>1, <1>2, <2>1 DEF Newest, Remaking
  <2>5. task' <= Newest'
    <3>1. Newest' \in Int
      BY <1>1, <2>1 DEF Newest
    <3> QED
      BY <1>1, <1>3, <1>4, <2>1, <2>4, <3>1
  <2>6. PICK label : GoesTo(Guest, label)
    BY <2>1
  <2> QED
    BY <2>1, <2>3, <2>4, <2>5, <2>6, QuietHolds
<1>12. CASE CreateTask
  <2>1. /\ UNCHANGED <<root_node, roots>> /\ RootRest
        /\ \/ place[Guest] = "make" /\ GoesTo(Guest, "made") /\ UNCHANGED task
           \/ place[Guest] = "made" /\ task' \in {0, roots} /\ GoesTo(Guest, "map")
    BY <1>12 DEF CreateTask
  <2>2. ~root_node
    BY <1>3, <2>1 DEF GuestNode
  <2>3. (Has(Guest)' <=> Has(Guest)) /\ GuestNode'
    BY <1>2, <2>1, <2>2 DEF Has, GuestNode
  <2>4. Newest <= Newest' /\ task' <= Newest'
    <3>1. CASE place[Guest] = "make" /\ GoesTo(Guest, "made") /\ UNCHANGED task
      <4>1. Newest' = Newest
        BY <1>2, <2>1, <3>1 DEF Newest, Remaking
      <4> QED
        BY <1>3, <1>4, <3>1, <4>1
    <3>2. CASE place[Guest] = "made" /\ task' \in {0, roots} /\ GoesTo(Guest, "map")
      <4>1. Newest = roots - 1 /\ Newest' = roots
        BY <1>2, <2>1, <3>2 DEF Newest, Remaking
      <4> QED
        BY <1>1, <1>3, <3>2, <4>1
    <3> QED
      BY <2>1, <3>1, <3>2
  <2>5. PICK label : GoesTo(Guest, label)
    BY <2>1
  <2> QED
    BY <2>1, <2>3, <2>4, <2>5, QuietHolds
<1>13. CASE MapRootNode
  <2>1. /\ MapPlaces(Guest, "failed", "mapped") /\ UNCHANGED <<task, root_node, roots>>
        /\ root_task_mapping(Guest, Page, "failed", "mapped")
    BY <1>13 DEF MapRootNode, MapPlaces
  <2> QED
    BY <1>1, <2>1, MapHolds
<1>14. CASE RootNodeFails
  <2>1. /\ place[Guest] = "failed" /\ UNCHANGED <<task, root_node, roots>> /\ RootRest
        /\ GoesTo(Guest, "idle")
    BY <1>14 DEF RootNodeFails
  <2>2. ~root_node
    BY <1>3, <2>1 DEF GuestNode
  <2>3. (Has(Guest)' <=> Has(Guest)) /\ GuestNode' /\ Newest' = Newest
    BY <1>2, <2>1, <2>2 DEF Has, GuestNode, Newest, Remaking
  <2>4. Newest <= Newest' /\ task' <= Newest'
    BY <1>3, <1>4, <2>1, <2>3
  <2> QED
    BY <2>1, <2>3, <2>4, QuietHolds
<1>15. CASE RootNodeMade
  <2>1. /\ place[Guest] = "mapped" /\ root_node' = TRUE /\ UNCHANGED <<task, roots>> /\ RootRest
        /\ GoesTo(Guest, "idle")
    BY <1>15 DEF RootNodeMade
  <2>2. (Has(Guest)' <=> Has(Guest)) /\ GuestNode' /\ Newest' = Newest
    BY <1>2, <2>1 DEF Has, GuestNode, Newest, Remaking
  <2>3. Newest <= Newest' /\ task' <= Newest'
    BY <1>3, <1>4, <2>1, <2>2
  <2> QED
    BY <2>1, <2>2, <2>3, QuietHolds
<1> QED
  BY <1>5, <1>6, <1>7, <1>8, <1>9, <1>10, <1>11, <1>12, <1>13, <1>14, <1>15
     DEF RootNext, RootStep, teardown_root, UserStep

-----------------------------------------------------------------------------
(* The root task's address space, partitioned *)

\* The free addresses, the lost ones and each thread's share the space and nothing twice.
Parted(F, L, R) ==
  /\ F \subseteq 0..LastVa /\ L \subseteq 0..LastVa /\ \A t \in Threads : R[t] \subseteq 0..LastVa
  /\ F \cap L = {}
  /\ \A t \in Threads : R[t] \cap F = {} /\ R[t] \cap L = {}
  /\ \A t, u \in Threads : t # u => R[t] \cap R[u] = {}
  /\ \A a \in 0..LastVa : a \in F \/ a \in L \/ \E t \in Threads : a \in R[t]

\* A thread with nothing takes free addresses.
LEMMA PartTaken ==
  ASSUME NEW F, NEW L, NEW R, NEW R2, NEW F2, NEW t \in Threads, NEW C, Parted(F, L, R), R[t] = {},
         C \subseteq F, \A a : a \in F2 <=> a \in F /\ a \notin C,
         R2[t] = C, \A u \in Threads \ {t} : R2[u] = R[u]
  PROVE  Parted(F2, L, R2)
<1> DEFINE V == 0..LastVa
<1>1. /\ F \subseteq V /\ L \subseteq V /\ \A u \in Threads : R[u] \subseteq V
      /\ F \cap L = {}
      /\ \A u \in Threads : R[u] \cap F = {} /\ R[u] \cap L = {}
      /\ \A u, w \in Threads : u # w => R[u] \cap R[w] = {}
      /\ \A a \in V : a \in F \/ a \in L \/ \E u \in Threads : a \in R[u]
  BY Zenon DEF Parted
<1> HIDE DEF V
<1>2. F2 \subseteq V /\ L \subseteq V /\ \A u \in Threads : R2[u] \subseteq V
  BY <1>1
<1>3. F2 \cap L = {} /\ \A u \in Threads : R2[u] \cap F2 = {} /\ R2[u] \cap L = {}
  BY <1>1
<1>4. \A u, w \in Threads : u # w => R2[u] \cap R2[w] = {}
  BY <1>1
<1>5. ASSUME NEW a \in V PROVE a \in F2 \/ a \in L \/ \E u \in Threads : a \in R2[u]
  BY <1>1
<1> QED
  BY <1>2, <1>3, <1>4, <1>5, Zenon DEF Parted, V

\* A thread gives its addresses up, to the free ones or to the lost ones.
LEMMA PartGiven ==
  ASSUME NEW F, NEW L, NEW R, NEW R2, NEW F2, NEW L2, NEW t \in Threads, Parted(F, L, R),
         \/ L2 = L /\ \A a : a \in F2 <=> a \in F \/ a \in R[t]
         \/ F2 = F /\ L2 = L \cup R[t],
         R2[t] = {}, \A u \in Threads \ {t} : R2[u] = R[u]
  PROVE  Parted(F2, L2, R2)
<1> DEFINE V == 0..LastVa
<1>1. /\ F \subseteq V /\ L \subseteq V /\ \A u \in Threads : R[u] \subseteq V
      /\ F \cap L = {}
      /\ \A u \in Threads : R[u] \cap F = {} /\ R[u] \cap L = {}
      /\ \A u, w \in Threads : u # w => R[u] \cap R[w] = {}
      /\ \A a \in V : a \in F \/ a \in L \/ \E u \in Threads : a \in R[u]
  BY Zenon DEF Parted
<1> HIDE DEF V
<1>2. F2 \subseteq V /\ L2 \subseteq V /\ \A u \in Threads : R2[u] \subseteq V
  BY <1>1
<1>3. F2 \cap L2 = {} /\ \A u \in Threads : R2[u] \cap F2 = {} /\ R2[u] \cap L2 = {}
  BY <1>1
<1>4. \A u, w \in Threads : u # w => R2[u] \cap R2[w] = {}
  BY <1>1
<1>5. ASSUME NEW a \in V PROVE a \in F2 \/ a \in L2 \/ \E u \in Threads : a \in R2[u]
  BY <1>1
<1> QED
  BY <1>2, <1>3, <1>4, <1>5, Zenon DEF Parted, V

\* The range of every thread, empty for one that holds no mapping.
Ranges == [t \in Threads |-> RangeOf(t)]
LEMMA NoRange == NoWrap => Covers(NoMapping.offset, NoMapping.length) = {}
<1> SUFFICES ASSUME NoWrap PROVE Covers(0, 0) = {}
  BY DEF NoMapping
<1>1. Granule \in Nat \ {0} /\ Span \in Nat /\ 0 + Granule - 1 < Span
  BY VaSizes DEF NoWrap
<1>2. Aligned(0)
  BY <1>1 DEF Aligned
<1>3. round(0) = 0
  BY <1>1, <1>2, RoundIs
<1> QED
  BY <1>3 DEF Covers

LEMMA RangesChange ==
  ASSUME NEW t \in Threads, NEW m, mapping \in [Threads -> MapRecord],
         mapping' = [mapping EXCEPT ![t] = m]
  PROVE  Ranges'[t] = Covers(m.offset, m.length) /\ \A u \in Threads \ {t} : Ranges'[u] = Ranges[u]
  BY DEF Ranges, RangeOf

\* The host has mapped in the root task what the mappings made in it cover.
HostHas(a) == \E t \in Threads : mapping[t].task = task /\ a \in Ranges[t]
HostMapped == task # 0 => \A a \in Nat : <<task, a>> \in mapped <=> HostHas(a)

\* The space, as long as no mapping was dropped under another base than its own.
Placement(t) == mapping[t].offset \in 0..LastVa /\ Aligned(mapping[t].offset)
Spaced ==
  /\ Canonical(free) /\ Parted(RangesOf(free), lost, Ranges)
  /\ \A t \in Threads : Placement(t)
  /\ HostMapped

LEMMA MadeSpaced ==
  ASSUME NoWrap, RootParts, Spaced, NEW t \in Threads, mapping[t] = NoMapping,
         NEW length \in MapLengths, Made(t, length), UNCHANGED <<task, lost>>
  PROVE  Spaced'
<1> DEFINE a == allocate(free, length)
           m == [va |-> base + a.at, length |-> length, offset |-> a.at, task |-> task]
<1>1. /\ a.at # NoRoom /\ task # 0 /\ free' = a.free /\ mapping' = [mapping EXCEPT ![t] = m]
      /\ mapped' = mapped \cup ({task} \X Covers(a.at, length))
  BY DEF Made
<1>2. /\ a.at \in 0..LastVa /\ Aligned(a.at) /\ Covers(a.at, length) \subseteq RangesOf(free)
      /\ Canonical(a.free)
      /\ \A x : x \in RangesOf(a.free) <=> x \in RangesOf(free) /\ x \notin Covers(a.at, length)
  <2>1. Canonical(free)
    BY DEF Spaced
  <2>2. Allocated(free, length)
    BY <2>1, Allocates
  <2> QED
    BY <1>1, <2>2 DEF Allocated
<1>3. m.offset = a.at /\ m.length = length /\ m.task = task
  OBVIOUS
<1> HIDE DEF a, m
<1> DEFINE C == Covers(a.at, length)
<1>4. mapping \in [Threads -> MapRecord]
  BY DEF RootParts, SpaceTyped
<1>5. Ranges'[t] = C /\ \A u \in Threads \ {t} : Ranges'[u] = Ranges[u]
  BY <1>1, <1>3, <1>4, RangesChange
<1>6. Ranges[t] = {}
  BY NoRange DEF Ranges, RangeOf
<1>7. mapping'[t] = m /\ \A u \in Threads \ {t} : mapping'[u] = mapping[u]
  BY <1>1, <1>4
<1> HIDE DEF C
<1>8. Parted(RangesOf(free'), lost, Ranges')
  <2>1. C \subseteq RangesOf(free) /\ \A x : x \in RangesOf(free') <=> x \in RangesOf(free) /\ x \notin C
    BY <1>1, <1>2 DEF C
  <2>2. Parted(RangesOf(free), lost, Ranges)
    BY DEF Spaced
  <2> QED
    BY <1>5, <1>6, <2>1, <2>2, PartTaken
<1>9. \A u \in Threads : Placement(u)'
  <2>1. Placement(t)'
    BY <1>2, <1>3, <1>7 DEF Placement
  <2>2. ASSUME NEW u \in Threads, u # t PROVE Placement(u)'
    BY <1>7, <2>2 DEF Spaced, Placement
  <2> QED
    BY <2>1, <2>2
<1>10. HostMapped'
  <2> SUFFICES ASSUME NEW x \in Nat PROVE <<task, x>> \in mapped' <=> HostHas(x)'
    BY DEF HostMapped
  <2>1. <<task, x>> \in mapped <=> HostHas(x)
    BY <1>1 DEF Spaced, HostMapped
  <2>2. <<task, x>> \in mapped' <=> <<task, x>> \in mapped \/ x \in C
    BY <1>1 DEF C
  <2>3. HostHas(x)' <=> HostHas(x) \/ x \in C
    BY <1>3, <1>5, <1>6, <1>7 DEF HostHas
  <2> QED
    BY <2>1, <2>2, <2>3
<1>11. Canonical(free')
  BY <1>1, <1>2
<1> QED
  BY <1>8, <1>9, <1>10, <1>11 DEF Spaced

\* A refused mapping leaves the free addresses as they were.
LEMMA RefusedSpaced ==
  ASSUME NoWrap, RootParts, Spaced, NEW length \in MapLengths, Refused(length),
         UNCHANGED <<task, lost>>
  PROVE  Spaced'
<1> DEFINE a == allocate(free, length)
           C == Covers(a.at, length)
<1>1. a.at # NoRoom /\ free' = deallocate(a.free, a.at, length) /\ UNCHANGED <<mapping, mapped>>
  BY DEF Refused
<1>2. /\ length # 0
      /\ a.at \in 0..LastVa /\ Aligned(a.at) /\ C \subseteq RangesOf(free)
      /\ Canonical(a.free)
      /\ \A x : x \in RangesOf(a.free) <=> x \in RangesOf(free) /\ x \notin C
  <2>1. Canonical(free)
    BY DEF Spaced
  <2>2. Allocated(free, length)
    BY <2>1, Allocates
  <2> QED
    BY <1>1, <2>2 DEF Allocated
<1>3. RangesOf(free) \subseteq 0..LastVa
  BY DEF Spaced, Parted
<1> HIDE DEF a
<1>4. Covers(a.at, length) \subseteq 0..LastVa /\ Covers(a.at, length) \cap RangesOf(a.free) = {}
  BY <1>2, <1>3
<1>5. /\ Canonical(free')
      /\ \A x : x \in RangesOf(free') <=> x \in RangesOf(a.free) \/ x \in Covers(a.at, length)
  BY <1>1, <1>2, <1>4, Deallocates
<1> HIDE DEF C
<1>6. \A x : x \in RangesOf(free') <=> x \in RangesOf(free)
  BY <1>2, <1>5 DEF C
<1>7. RangesOf(free') = RangesOf(free)
  BY <1>6
<1>8. Ranges' = Ranges
  BY <1>1 DEF Ranges, RangeOf
<1>9. Parted(RangesOf(free'), lost', Ranges')
  BY <1>7, <1>8 DEF Spaced
<1>10. HostMapped' /\ \A t \in Threads : Placement(t)'
  BY <1>1, <1>8 DEF Spaced, HostMapped, HostHas, Placement
<1> QED
  BY <1>5, <1>9, <1>10 DEF Spaced

\* Unmapping a range frees it, or loses it when there is no root task.
LEMMA UnmappedSpaced ==
  ASSUME NoWrap, RootParts, Spaced, NEW t \in Threads, mapping[t].length \in MapLengths \ {0},
         offset[t] = mapping[t].offset, mapping' = [mapping EXCEPT ![t] = NoMapping],
         UNCHANGED task, Lost(t) \/ Freed(t)
  PROVE  Spaced'
<1> DEFINE off == mapping[t].offset
           length == mapping[t].length
           C == Covers(off, length)
<1>1. mapping \in [Threads -> MapRecord] /\ Parted(RangesOf(free), lost, Ranges) /\ Canonical(free)
  BY DEF RootParts, SpaceTyped, Spaced
<1>2. /\ Ranges[t] = C /\ Ranges'[t] = {}
      /\ \A u \in Threads \ {t} : Ranges'[u] = Ranges[u]
  BY <1>1, NoRange, RangesChange DEF Ranges, RangeOf
<1>3. mapping'[t] = NoMapping /\ \A u \in Threads \ {t} : mapping'[u] = mapping[u]
  BY <1>1
<1>4. off \in 0..LastVa /\ Aligned(off)
  BY DEF Spaced, Placement
<1>5. \A u \in Threads : Placement(u)'
  <2>1. Placement(t)'
    <3>1. 0 \in 0..LastVa /\ Aligned(0)
      BY VaSizes DEF Aligned
    <3> QED
      BY <1>3, <3>1 DEF Placement, NoMapping
  <2>2. ASSUME NEW u \in Threads, u # t PROVE Placement(u)'
    BY <1>3, <2>2 DEF Spaced, Placement
  <2> QED
    BY <2>1, <2>2
<1> HIDE DEF off, length
<1>6. CASE Lost(t)
  <2>1. task = 0 /\ lost' = lost \cup C /\ free' = free
    BY <1>6 DEF Lost, RangeOf, off, length
  <2> HIDE DEF C
  <2>2. Parted(RangesOf(free'), lost', Ranges')
    BY <1>1, <1>2, <2>1, PartGiven
  <2>3. HostMapped'
    BY <2>1 DEF HostMapped
  <2> QED
    BY <1>1, <1>5, <2>1, <2>2, <2>3 DEF Spaced
<1>7. CASE Freed(t)
  <2>1. /\ task # 0 /\ mapped' = mapped \ ({task} \X C) /\ lost' = lost
        /\ free' = deallocate(free, off, length)
    BY <1>7 DEF Freed, off, length
  <2>2. C \subseteq 0..LastVa /\ C \cap RangesOf(free) = {}
    <3> HIDE DEF C
    <3> QED
      BY <1>1, <1>2 DEF Parted
  <2>3. length \in MapLengths /\ length # 0
    BY DEF length
  <2>4. /\ Canonical(free')
        /\ \A x : x \in RangesOf(free') <=> x \in RangesOf(free) \/ x \in C
    BY <1>1, <1>4, <2>1, <2>2, <2>3, Deallocates
  <2> HIDE DEF C
  <2>5. Parted(RangesOf(free'), lost', Ranges')
    BY <1>1, <1>2, <2>1, <2>4, PartGiven
  <2>6. HostMapped'
    <3> SUFFICES ASSUME NEW x \in Nat PROVE <<task, x>> \in mapped' <=> HostHas(x)'
      BY DEF HostMapped
    <3>1. <<task, x>> \in mapped <=> HostHas(x)
      BY <2>1 DEF Spaced, HostMapped
    <3>2. <<task, x>> \in mapped' <=> <<task, x>> \in mapped /\ x \notin C
      BY <2>1
    <3>3. \A u \in Threads : u # t => Ranges[u] \cap C = {}
      BY <1>1, <1>2 DEF Parted
    <3>4. HostHas(x)' <=> HostHas(x) /\ x \notin C
      BY <1>2, <1>3, <3>3 DEF HostHas
    <3> QED
      BY <3>1, <3>2, <3>4
  <2> QED
    BY <1>5, <2>4, <2>5, <2>6 DEF Spaced
<1> QED
  BY <1>6, <1>7

\* A thread unmaps at the offset its mapping has.
Dropping(t) == place[t] = "unmaps" => offset[t] = mapping[t].offset
SpaceInv == ~strayed => Spaced /\ \A t \in Threads : Dropping(t)

\* A step that maps and drops nothing; a new root task has a handle not used before.
LEMMA QuietSpaced ==
  ASSUME RootParts, FreshInv, SpaceInv, NEW t \in Threads, NEW label, GoesTo(t, label),
         label # "unmaps", UNCHANGED <<free, mapping, offset, mapped, lost, strayed>>,
         \/ task' \in {task, 0}
         \/ task' = roots /\ place[Guest] \in Remaking
  PROVE  SpaceInv'
<1> SUFFICES ASSUME ~strayed PROVE Spaced' /\ \A u \in Threads : Dropping(u)'
  BY DEF SpaceInv
<1>1. Spaced /\ \A u \in Threads : Dropping(u)
  BY DEF SpaceInv
<1>2. place \in [Threads -> AnyPlace]
  BY DEF RootParts, Placed
<1>3. \A u \in Threads : Dropping(u)'
  BY <1>1, <1>2 DEF GoesTo, Dropping
<1>4. Ranges' = Ranges
  BY DEF Ranges, RangeOf
<1>5. HostMapped'
  <2>1. CASE task' = task
    BY <1>1, <1>4, <2>1 DEF Spaced, HostMapped, HostHas
  <2>2. CASE task' = 0
    BY <2>2 DEF HostMapped
  <2>3. CASE task' = roots /\ place[Guest] \in Remaking
    <3>1. Newest = roots - 1 /\ roots \in Int
      BY <2>3 DEF Newest, RootParts, CountTyped
    <3>2. \A u \in Threads : mapping[u].task \in Int /\ mapping[u].task <= roots - 1
      BY <3>1 DEF FreshInv, RootParts, SpaceTyped, MapRecord
    <3>3. \A x \in Nat : <<roots, x>> \notin mapped
      <4> SUFFICES ASSUME NEW x \in Nat, <<roots, x>> \in mapped PROVE FALSE
        OBVIOUS
      <4>1. <<roots, x>>[1] <= roots - 1
        BY <3>1 DEF FreshInv
      <4> QED
        BY <3>1, <4>1
    <3>4. \A u \in Threads : mapping[u].task # roots
      BY <3>1, <3>2
    <3> QED
      BY <2>3, <3>3, <3>4 DEF HostMapped, HostHas
  <2> QED
    BY <2>1, <2>2, <2>3
<1>6. Parted(RangesOf(free'), lost', Ranges') /\ Canonical(free')
  BY <1>1, <1>4 DEF Spaced
<1>7. \A u \in Threads : Placement(u)'
  BY <1>1 DEF Spaced, Placement
<1> QED
  BY <1>3, <1>5, <1>6, <1>7 DEF Spaced

LEMMA MapSpaced ==
  ASSUME NoWrap, RootParts, RootParts', HoldInv, FreshInv, SpaceInv, NEW t \in Threads,
         NEW length \in MapLengths, NEW fails, NEW made, MapPlaces(t, fails, made),
         root_task_mapping(t, length, fails, made),
         UNCHANGED <<task, root_node, roots, offset, lost, strayed>>
  PROVE  SpaceInv'
<1>1. /\ place \in [Threads -> AnyPlace] /\ mapping \in [Threads -> MapRecord]
      /\ mapping[t] = NoMapping /\ fails # "unmaps" /\ made # "unmaps"
  <2>1. mapping[t] = NoMapping
    BY MapHolds
  <2> QED
    BY <2>1 DEF RootParts, Placed, SpaceTyped, MapPlaces
<1>2. \/ (Missed \/ Refused(length)) /\ GoesTo(t, fails)
      \/ Made(t, length) /\ GoesTo(t, made)
  BY MapCases
<1>3. CASE Missed /\ GoesTo(t, fails)
  BY <1>1, <1>3, QuietSpaced DEF Missed
<1>4. CASE Refused(length) /\ GoesTo(t, fails)
  <2> SUFFICES ASSUME ~strayed PROVE Spaced' /\ \A u \in Threads : Dropping(u)'
    BY DEF SpaceInv
  <2>1. Spaced /\ \A u \in Threads : Dropping(u)
    BY DEF SpaceInv
  <2>2. Spaced'
    BY <1>4, <2>1, RefusedSpaced
  <2>3. mapping' = mapping
    BY <1>4 DEF Refused
  <2> QED
    BY <1>1, <1>4, <2>1, <2>2, <2>3 DEF GoesTo, Dropping
<1>5. CASE Made(t, length) /\ GoesTo(t, made)
  <2> SUFFICES ASSUME ~strayed PROVE Spaced' /\ \A u \in Threads : Dropping(u)'
    BY DEF SpaceInv
  <2>1. Spaced /\ \A u \in Threads : Dropping(u)
    BY DEF SpaceInv
  <2>2. Spaced'
    BY <1>1, <1>5, <2>1, MadeSpaced
  <2>3. \A u \in Threads \ {t} : mapping'[u] = mapping[u]
    BY <1>1, <1>5 DEF Made
  <2> QED
    BY <1>1, <1>5, <2>1, <2>2, <2>3 DEF GoesTo, Dropping
<1> QED
  BY <1>2, <1>3, <1>4, <1>5

LEMMA DropSpaced ==
  ASSUME NoWrap, RootParts, HoldInv, SpaceInv, NEW t \in Threads, NEW from, NEW to,
         DropPlaces(t, from, to), Drops(t, from, to), UNCHANGED task
  PROVE  SpaceInv'
<1> SUFFICES ASSUME ~strayed' PROVE Spaced' /\ \A u \in Threads : Dropping(u)'
  BY DEF SpaceInv
<1>1. /\ place \in [Threads -> AnyPlace] /\ mapping \in [Threads -> MapRecord]
      /\ offset \in [Threads -> 0..LastVa]
  BY DEF RootParts, Placed, SpaceTyped, DropTyped
<1>2. CASE Began(t)
  <2> DEFINE off == wrap(mapping[t].va - base)
  <2>1. /\ UNCHANGED <<free, mapping, mapped, lost>> /\ strayed' = (strayed \/ off # mapping[t].offset)
        /\ \/ UNCHANGED <<place, offset>>
           \/ GoesTo(t, "unmaps") /\ offset' = [offset EXCEPT ![t] = off]
    BY <1>2 DEF Began
  <2> HIDE DEF off
  <2>2. ~strayed /\ off = mapping[t].offset
    BY <2>1
  <2>3. Spaced /\ \A u \in Threads : Dropping(u)
    BY <2>2 DEF SpaceInv
  <2>4. Ranges' = Ranges
    BY <2>1 DEF Ranges, RangeOf
  <2>5. Parted(RangesOf(free'), lost', Ranges') /\ Canonical(free')
    BY <2>1, <2>3, <2>4 DEF Spaced
  <2>6. HostMapped' /\ \A u \in Threads : Placement(u)'
    BY <2>1, <2>3, <2>4 DEF Spaced, HostMapped, HostHas, Placement
  <2>7. \A u \in Threads : Dropping(u)'
    BY <1>1, <2>1, <2>2, <2>3 DEF GoesTo, Dropping
  <2> QED
    BY <2>5, <2>6, <2>7 DEF Spaced
<1>3. CASE Unmapped(t, to)
  <2>1. /\ place[t] = "unmaps" /\ GoesTo(t, to) /\ mapping' = [mapping EXCEPT ![t] = NoMapping]
        /\ UNCHANGED <<offset, strayed>> /\ (Lost(t) \/ Freed(t))
    BY <1>3 DEF Unmapped
  <2>2. Spaced /\ \A u \in Threads : Dropping(u)
    BY <2>1 DEF SpaceInv
  <2>3. mapping[t].length \in MapLengths \ {0} /\ offset[t] = mapping[t].offset
    <3>1. Has(t)
      BY <2>1 DEF Has
    <3> QED
      BY <2>1, <2>2, <3>1 DEF HoldInv, Held, Dropping
  <2>4. Spaced'
    BY <2>1, <2>2, <2>3, UnmappedSpaced
  <2>5. \A u \in Threads : Dropping(u)'
    BY <1>1, <2>1, <2>2 DEF GoesTo, Dropping, DropPlaces
  <2> QED
    BY <2>4, <2>5
<1> QED
  BY <1>2, <1>3, DropCases

\* Every step keeps the space partitioned until a mapping strays.
LEMMA StepSpaced ==
  ASSUME NoWrap, RootParts, RootParts', HoldInv, FreshInv, SpaceInv, RootNext
  PROVE  SpaceInv'
<1>1. /\ Guest \in Threads /\ Guest \notin Users /\ Users \subseteq Threads
      /\ Page \in MapLengths /\ Lengths \subseteq MapLengths
  BY RootMappingsAssumption DEF Threads, MapLengths
<1>2. ASSUME NEW t \in Users, Asks(t)
      PROVE  SpaceInv'
  <2>1. /\ GoesTo(t, "asks") /\ t \in Threads /\ task' = task
        /\ UNCHANGED <<free, mapping, offset, mapped, lost, strayed>>
    BY <1>1, <1>2 DEF Asks
  <2> QED
    BY <2>1, QuietSpaced
<1>3. ASSUME NEW t \in Users, Maps(t)
      PROVE  SpaceInv'
  <2>1. PICK length \in Lengths : root_task_mapping(t, length, "idle", "has")
    BY <1>3 DEF Maps
  <2>2. /\ MapPlaces(t, "idle", "has") /\ t \in Threads /\ length \in MapLengths
        /\ UNCHANGED <<task, root_node, roots, offset, lost, strayed>>
    BY <1>1, <1>3 DEF Maps, MapPlaces
  <2> QED
    BY <2>1, <2>2, MapSpaced
<1>4. ASSUME NEW t \in Users, LetsGo(t)
      PROVE  SpaceInv'
  <2>1. /\ DropPlaces(t, "has", "idle") /\ t \in Threads /\ Drops(t, "has", "idle")
        /\ UNCHANGED task
    BY <1>1, <1>4 DEF LetsGo, DropPlaces
  <2> QED
    BY <2>1, DropSpaced
<1>5. CASE set_root_page \/ ClearRootNode \/ DestroyTask \/ CreateTask \/ RootNodeFails \/ RootNodeMade
  <2>1. UNCHANGED <<free, mapping, offset, mapped, lost, strayed>>
    BY <1>5 DEF set_root_page, ClearRootNode, DestroyTask, CreateTask, RootNodeFails, RootNodeMade,
                RootRest
  <2>2. PICK label : GoesTo(Guest, label) /\ label # "unmaps"
    BY <1>5 DEF set_root_page, ClearRootNode, DestroyTask, CreateTask, RootNodeFails, RootNodeMade
  <2>3. task' \in {task, 0} \/ (task' = roots /\ place[Guest] \in Remaking)
    BY <1>5 DEF set_root_page, ClearRootNode, DestroyTask, CreateTask, RootNodeFails, RootNodeMade,
                Remaking
  <2> QED
    BY <1>1, <2>1, <2>2, <2>3, QuietSpaced
<1>6. CASE DropRootNode
  <2>1. /\ DropPlaces(Guest, "node", "destroy") /\ Drops(Guest, "node", "destroy")
        /\ UNCHANGED task
    BY <1>6 DEF DropRootNode, DropPlaces
  <2> QED
    BY <1>1, <2>1, DropSpaced
<1>7. CASE MapRootNode
  <2>1. /\ MapPlaces(Guest, "failed", "mapped")
        /\ UNCHANGED <<task, root_node, roots, offset, lost, strayed>>
        /\ root_task_mapping(Guest, Page, "failed", "mapped")
    BY <1>7 DEF MapRootNode, MapPlaces
  <2> QED
    BY <1>1, <2>1, MapSpaced
<1> QED
  BY <1>2, <1>3, <1>4, <1>5, <1>6, <1>7 DEF RootNext, RootStep, teardown_root, UserStep

LEMMA InitSpaced == NoWrap /\ RootInit => HoldInv /\ FreshInv /\ SpaceInv
<1> SUFFICES ASSUME NoWrap, RootInit PROVE HoldInv /\ FreshInv /\ SpaceInv
  OBVIOUS
<1>1. /\ Guest \in Threads /\ LastVa \in Nat
      /\ \A t \in Threads : mapping[t] = NoMapping /\ place[t] = "idle"
      /\ ~root_node /\ task = 0 /\ mapped = {} /\ lost = {} /\ roots = 0
      /\ free = <<[start |-> 0, last |-> LastVa]>>
  BY VaSizes DEF RootInit, Threads, new
<1>2. HoldInv
  BY <1>1 DEF HoldInv, GuestNode, Held, Has
<1>3. FreshInv
  BY <1>1 DEF FreshInv, Newest, Remaking, NoMapping
<1>4. \A t \in Threads : Ranges[t] = {}
  BY <1>1, NoRange DEF Ranges, RangeOf
<1>5. Aligned(0)
  BY VaSizes DEF Aligned
<1>6. Canonical(free)
  <2>1. [start |-> 0, last |-> LastVa] \in VaRange
    BY <1>1 DEF VaRange
  <2>2. free \in Seq(VaRange) /\ Len(free) = 1 /\ free[1] = [start |-> 0, last |-> LastVa]
    BY <1>1, <2>1
  <2>3. GoodRange(free[1])
    BY <1>1, <1>5, <2>2 DEF GoodRange
  <2> QED
    BY <2>2, <2>3 DEF Canonical
<1>7. RangesOf(free) = 0..LastVa
  <2>1. free \in Seq(VaRange) /\ Len(free) = 1 /\ free[1] = [start |-> 0, last |-> LastVa]
    BY <1>1, <1>6 DEF Canonical
  <2>2. \A a : In(a, free[1]) <=> a \in 0..LastVa
    BY <2>1 DEF In
  <2>3. \A a : a \in RangesOf(free) <=> \E k \in 1..1 : In(a, free[k])
    BY <2>1, InRanges
  <2>4. \A k \in 1..1 : k = 1
    OBVIOUS
  <2>5. \A a : a \in RangesOf(free) <=> a \in 0..LastVa
    BY <2>2, <2>3, <2>4
  <2> QED
    BY <2>5
<1>8. Parted(RangesOf(free), lost, Ranges)
  BY <1>1, <1>4, <1>7 DEF Parted
<1>9. \A t \in Threads : Placement(t) /\ Dropping(t)
  BY <1>1, <1>5 DEF Placement, Dropping, NoMapping
<1>10. HostMapped
  BY <1>1 DEF HostMapped
<1> QED
  BY <1>2, <1>3, <1>6, <1>8, <1>9, <1>10 DEF SpaceInv, Spaced

\* The inductive invariant of the root task.
MappingInv == RootTypeOK /\ HoldInv /\ FreshInv /\ SpaceInv

LEMMA MappingInductive == ASSUME NoWrap PROVE RootSpec => []MappingInv
<1>1. RootInit => MappingInv
  BY RootInitTyped, InitSpaced DEF MappingInv
<1>2. MappingInv /\ [RootNext]_root_vars => MappingInv'
  <2> SUFFICES ASSUME MappingInv, [RootNext]_root_vars PROVE MappingInv'
    OBVIOUS
  <2>1. RootParts /\ HoldInv /\ FreshInv /\ SpaceInv
    BY RootTypeParts DEF MappingInv
  <2>2. CASE RootNext
    <3>1. RootParts'
      BY <2>1, <2>2, RootTyped, UserTyped DEF RootNext
    <3>2. HoldInv' /\ FreshInv' /\ SpaceInv'
      BY <2>1, <2>2, <3>1, StepHolds, StepSpaced
    <3> QED
      BY <3>1, <3>2, RootTypeParts DEF MappingInv
  <2>3. CASE UNCHANGED root_vars
    <3>1. RootParts'
      BY <2>1, <2>3, RootStutters
    <3>2. UNCHANGED <<free, task, root_node, mapping, place, offset, mapped, lost, strayed, roots>>
      BY <2>3 DEF root_vars
    <3>3. HoldInv'
      BY <2>1, <3>2 DEF HoldInv, GuestNode, Held, Has
    <3>4. FreshInv'
      BY <2>1, <3>2 DEF FreshInv, Newest
    <3>5. SpaceInv'
      <4>1. Ranges' = Ranges
        BY <3>2 DEF Ranges, RangeOf
      <4> QED
        BY <2>1, <3>2, <4>1 DEF SpaceInv, Spaced, HostMapped, HostHas, Placement, Dropping
    <3> QED
      BY <3>1, <3>3, <3>4, <3>5, RootTypeParts DEF MappingInv
  <2> QED
    BY <2>2, <2>3
<1> QED
  BY <1>1, <1>2, PTL DEF RootSpec

(* Whatever is mapped, refused, dropped and torn down, until a mapping is dropped under another  *)
(* base than its own, the allocator's free list (first_fit.rs) stays sorted and coalesced, and   *)
(* allocates every length asked for at the lowest granule with room for it, or refuses when      *)
(* there is none.                                                                                *)
THEOREM FreeListCanonical == ASSUME NoWrap PROVE RootSpec => []FreeListIsCanonical
<1>1. MappingInv => FreeListIsCanonical
  <2> SUFFICES ASSUME MappingInv, ~strayed
               PROVE  /\ \A i \in DOMAIN free : free[i].start <= free[i].last
                      /\ \A i, j \in DOMAIN free : i < j => free[i].last + 1 < free[j].start
                      /\ \A size \in Lengths : allocate(free, size).at = FirstFit(size)
    BY DEF FreeListIsCanonical
  <2>1. Canonical(free)
    BY DEF MappingInv, SpaceInv, Spaced
  <2>2. DOMAIN free = 1..Len(free)
    BY <2>1, LenProperties DEF Canonical
  <2>3. \A size \in Lengths : allocate(free, size).at = FirstFit(size)
    BY <2>1, AllocatesFirstFit DEF MapLengths
  <2> QED
    BY <2>1, <2>2, <2>3 DEF Canonical, GoodRange
<1> QED
  BY <1>1, MappingInductive, PTL

\* A thread with a range holds a mapping.
LEMMA RangeIsLive ==
  ASSUME NoWrap, NEW t \in Threads, NEW a, a \in RangeOf(t)
  PROVE  t \in Live
  BY NoRange DEF Live, RangeOf

(* Until a mapping is dropped under another base than its own, every address of the root task is *)
(* free, or of exactly one live mapping, or lost with a mapping dropped while there was no root  *)
(* task: unmap_range and root_task_mapping give no range out twice and lose none, through        *)
(* refusals, teardowns and drops of mappings that outlived their root.                           *)
THEOREM SpacePartitioned == ASSUME NoWrap PROVE RootSpec => []SpaceIsPartitioned
<1>1. MappingInv => SpaceIsPartitioned
  <2> SUFFICES ASSUME MappingInv, ~strayed, NEW a \in 0..LastVa
               PROVE  Cardinality({t \in Live : a \in RangeOf(t)})
                        + (IF a \in FreeAddresses THEN 1 ELSE 0) + (IF a \in lost THEN 1 ELSE 0) = 1
    BY DEF SpaceIsPartitioned
  <2> DEFINE F == FreeAddresses
             owners == {t \in Live : a \in RangeOf(t)}
  <2>1. Parted(F, lost, Ranges)
    BY DEF MappingInv, SpaceInv, Spaced, FreeAddresses, RangesOf
  <2> HIDE DEF F
  <2>2. Live \subseteq Threads /\ \A t \in Threads : Ranges[t] = RangeOf(t)
    BY DEF Live, Ranges
  <2>3. CASE a \in F
    <3>1. a \notin lost /\ owners = {}
      BY <2>1, <2>2, <2>3 DEF Parted
    <3>2. Cardinality(owners) = 0
      BY <3>1, FS_EmptySet
    <3> QED
      BY <2>3, <3>1, <3>2 DEF F
  <2>4. CASE a \in lost
    <3>1. a \notin F /\ owners = {}
      BY <2>1, <2>2, <2>4 DEF Parted
    <3>2. Cardinality(owners) = 0
      BY <3>1, FS_EmptySet
    <3> QED
      BY <2>4, <3>1, <3>2 DEF F
  <2>5. CASE a \notin F /\ a \notin lost
    <3>1. PICK t \in Threads : a \in RangeOf(t)
      BY <2>1, <2>2, <2>5 DEF Parted
    <3>2. t \in Live
      BY <3>1, RangeIsLive
    <3>3. \A u \in Live : a \in RangeOf(u) => u = t
      BY <2>1, <2>2, <3>1 DEF Parted
    <3>4. owners = {t}
      BY <3>1, <3>2, <3>3
    <3>5. Cardinality(owners) = 1
      BY <3>4, FS_Singleton
    <3> QED
      BY <2>5, <3>5 DEF F
  <2> QED
    BY <2>3, <2>4, <2>5
<1> QED
  BY <1>1, MappingInductive, PTL

-----------------------------------------------------------------------------
(* What the host has mapped, also once a mapping has strayed *)

\* While its task lives, a mapping is dropped under the base it was made under; a task whose
\* base may change is gone; and all that is mapped in a live task is some live mapping's.
LiveTask == task # 0 /\ task \notin destroyed
OwnBase(t) ==
  LiveTask /\ mapping[t].task = task =>
    /\ mapping[t].va = base + mapping[t].offset
    /\ place[t] = "unmaps" => offset[t] = mapping[t].offset
TaskGone ==
  place[Guest] \in {"make", "made"} \/ (place[Guest] = "idle" /\ ~root_node) => ~LiveTask
Backed(a) == \E t \in Threads : mapping[t].task = task /\ a \in RangeOf(t)
HostBacked == LiveTask => \A a : <<task, a>> \in mapped => Backed(a)
OwnInv == TaskGone /\ HostBacked /\ \A t \in Threads : OwnBase(t)

\* A step that maps and drops nothing.
LEMMA QuietOwn ==
  ASSUME RootParts, FreshInv, OwnInv, NEW t \in Threads, NEW label, GoesTo(t, label),
         label # "unmaps", UNCHANGED <<mapping, offset, mapped>>, TaskGone',
         \/ UNCHANGED <<task, base, destroyed>>
         \/ ~LiveTask'
         \/ task' = roots /\ place[Guest] \in Remaking
  PROVE  OwnInv'
<1>1. place \in [Threads -> AnyPlace]
  BY DEF RootParts, Placed
<1>2. CASE UNCHANGED <<task, base, destroyed>>
  <2>1. HostBacked'
    BY <1>2 DEF OwnInv, HostBacked, LiveTask, Backed, RangeOf
  <2>2. ASSUME NEW u \in Threads PROVE OwnBase(u)'
    <3>1. place'[u] = "unmaps" => place[u] = "unmaps"
      BY <1>1 DEF GoesTo
    <3> QED
      BY <1>2, <3>1 DEF OwnInv, OwnBase, LiveTask
  <2> QED
    BY <2>1, <2>2 DEF OwnInv
<1>3. CASE ~LiveTask'
  BY <1>3 DEF OwnInv, HostBacked, OwnBase
<1>4. CASE task' = roots /\ place[Guest] \in Remaking
  <2>1. Newest = roots - 1 /\ roots \in Int
    BY <1>4 DEF Newest, RootParts, CountTyped
  <2>2. \A u \in Threads : mapping[u].task # roots
    BY <2>1 DEF FreshInv, RootParts, SpaceTyped, MapRecord
  <2>3. \A x : <<roots, x>> \notin mapped
    <3> SUFFICES ASSUME NEW x, <<roots, x>> \in mapped PROVE FALSE
      OBVIOUS
    <3>1. <<roots, x>>[1] <= roots - 1
      BY <2>1 DEF FreshInv
    <3> QED
      BY <2>1, <3>1
  <2> QED
    BY <1>4, <2>2, <2>3 DEF OwnInv, HostBacked, OwnBase
<1> QED
  BY <1>2, <1>3, <1>4

\* A map adds its own range, and its address is the base's.
LEMMA MapOwn ==
  ASSUME RootParts, OwnInv, NEW t \in Threads, mapping[t] = NoMapping, NEW length,
         NEW fails, NEW made, MapPlaces(t, fails, made), root_task_mapping(t, length, fails, made),
         UNCHANGED <<task, base, destroyed, root_node, offset>>
  PROVE  OwnInv'
<1>1. place \in [Threads -> AnyPlace] /\ mapping \in [Threads -> MapRecord]
  BY DEF RootParts, Placed, SpaceTyped
<1>2. PICK label \in {fails, made} : GoesTo(t, label)
  BY MapCases
<1>3. /\ label # "unmaps" /\ (t = Guest => label \in {"failed", "mapped"})
      /\ \A u \in Threads : place'[u] = IF u = t THEN label ELSE place[u]
  BY <1>1, <1>2 DEF MapPlaces, GoesTo
<1>4. LiveTask' <=> LiveTask
  BY DEF LiveTask
<1>5. TaskGone'
  <2>1. Guest \in Threads
    BY DEF Threads
  <2> QED
    BY <1>3, <1>4, <2>1 DEF OwnInv, TaskGone
<1>6. CASE UNCHANGED <<mapping, mapped>>
  <2>1. HostBacked'
    BY <1>4, <1>6 DEF OwnInv, HostBacked, Backed, RangeOf
  <2>2. \A u \in Threads : OwnBase(u)'
    BY <1>3, <1>4, <1>6 DEF OwnInv, OwnBase
  <2> QED
    BY <1>5, <2>1, <2>2 DEF OwnInv
<1>7. CASE Made(t, length)
  <2> DEFINE off == allocate(free, length).at
             m == [va |-> base + off, length |-> length, offset |-> off, task |-> task]
  <2>1. /\ mapping' = [mapping EXCEPT ![t] = m] /\ task # 0
        /\ mapped' = mapped \cup ({task} \X Covers(off, length))
    BY <1>7 DEF Made
  <2>2. m.va = base + m.offset /\ m.task = task /\ m.offset = off /\ m.length = length
    OBVIOUS
  <2> HIDE DEF off, m
  <2>3. mapping'[t] = m /\ \A u \in Threads \ {t} : mapping'[u] = mapping[u]
    BY <1>1, <2>1
  <2>4. RangeOf(t)' = Covers(off, length) /\ \A u \in Threads \ {t} : RangeOf(u)' = RangeOf(u)
    BY <2>2, <2>3 DEF RangeOf
  <2>5. ASSUME LiveTask', NEW a, <<task, a>> \in mapped' PROVE Backed(a)'
    <3>1. CASE a \in Covers(off, length)
      BY <2>2, <2>3, <2>4, <3>1 DEF Backed
    <3>2. CASE <<task, a>> \in mapped
      <4>1. PICK u \in Threads : mapping[u].task = task /\ a \in RangeOf(u)
        BY <1>4, <2>5, <3>2 DEF OwnInv, HostBacked, Backed
      <4>2. u # t
        BY <2>1, <4>1 DEF NoMapping
      <4> QED
        BY <2>3, <2>4, <4>1, <4>2 DEF Backed
    <3> QED
      BY <2>1, <2>5, <3>1, <3>2
  <2>6. HostBacked'
    BY <2>5 DEF HostBacked
  <2>7. ASSUME NEW u \in Threads PROVE OwnBase(u)'
    <3>1. CASE u = t
      BY <1>3, <2>2, <2>3, <3>1 DEF OwnBase
    <3>2. CASE u # t
      BY <1>3, <1>4, <2>3, <3>2 DEF OwnInv, OwnBase
    <3> QED
      BY <3>1, <3>2
  <2> QED
    BY <1>5, <2>6, <2>7 DEF OwnInv
<1> QED
  BY <1>6, <1>7, MapCases DEF Missed, Refused

\* A drop takes a mapping's whole range away from its own task, and from another what it may.
LEMMA DropOwn ==
  ASSUME RootParts, OwnInv, NEW t \in Threads, NEW from, NEW to, DropPlaces(t, from, to),
         Drops(t, from, to), UNCHANGED <<task, base, destroyed, root_node>>
  PROVE  OwnInv'
<1>1. /\ place \in [Threads -> AnyPlace] /\ mapping \in [Threads -> MapRecord]
      /\ offset \in [Threads -> 0..LastVa] /\ base \in Nat /\ Guest \in Threads
  BY RootMappingsAssumption DEF RootParts, Placed, SpaceTyped, DropTyped, TaskTyped, Threads
<1>2. LiveTask' <=> LiveTask
  BY DEF LiveTask
<1>3. CASE place[t] = from /\ Began(t)
  <2> DEFINE off == wrap(mapping[t].va - base)
  <2>1. /\ UNCHANGED <<mapping, mapped>>
        /\ \/ UNCHANGED <<place, offset>>
           \/ GoesTo(t, "unmaps") /\ offset' = [offset EXCEPT ![t] = off]
    BY <1>3 DEF Began
  <2>2. LiveTask /\ mapping[t].task = task => off = mapping[t].offset
    <3> SUFFICES ASSUME LiveTask, mapping[t].task = task PROVE off = mapping[t].offset
      OBVIOUS
    <3>1. mapping[t].va = base + mapping[t].offset
      BY DEF OwnInv, OwnBase
    <3>2. mapping[t].offset \in 0..(Span - 1) /\ Span \in Nat
      BY <1>1, VaSizes DEF MapRecord
    <3>3. mapping[t].va - base = mapping[t].offset
      BY <1>1, <3>1, <3>2
    <3> QED
      BY <3>2, <3>3 DEF wrap
  <2> HIDE DEF off
  <2>3. HostBacked'
    BY <1>2, <2>1 DEF OwnInv, HostBacked, Backed, RangeOf
  <2>4. TaskGone'
    BY <1>1, <1>2, <1>3, <2>1 DEF OwnInv, TaskGone, GoesTo, DropPlaces
  <2>5. ASSUME NEW u \in Threads PROVE OwnBase(u)'
    <3>1. OwnBase(u)
      BY DEF OwnInv
    <3>2. CASE UNCHANGED <<place, offset>>
      BY <1>2, <2>1, <3>1, <3>2 DEF OwnBase
    <3>3. CASE GoesTo(t, "unmaps") /\ offset' = [offset EXCEPT ![t] = off]
      BY <1>1, <1>2, <2>1, <2>2, <3>1, <3>3 DEF OwnBase, GoesTo
    <3> QED
      BY <2>1, <3>2, <3>3
  <2> QED
    BY <2>3, <2>4, <2>5 DEF OwnInv
<1>4. CASE Unmapped(t, to)
  <2>1. /\ place[t] = "unmaps" /\ GoesTo(t, to) /\ mapping' = [mapping EXCEPT ![t] = NoMapping]
        /\ offset' = offset /\ to # "unmaps"
    BY <1>4 DEF Unmapped, DropPlaces
  <2>2. \/ task = 0 /\ mapped' = mapped
        \/ mapped' = mapped \ ({task} \X Covers(offset[t], mapping[t].length))
    BY <1>4 DEF Unmapped, Lost, Freed
  <2>3. /\ mapping'[t] = NoMapping /\ place'[t] = to
        /\ \A u \in Threads \ {t} : /\ mapping'[u] = mapping[u] /\ place'[u] = place[u]
                                    /\ RangeOf(u)' = RangeOf(u)
    BY <1>1, <2>1 DEF GoesTo, RangeOf
  <2>4. ASSUME LiveTask, NEW a, <<task, a>> \in mapped' PROVE Backed(a)'
    <3>1. mapped' = mapped \ ({task} \X Covers(offset[t], mapping[t].length))
      BY <2>2, <2>4 DEF LiveTask
    <3>2. PICK u \in Threads : mapping[u].task = task /\ a \in RangeOf(u)
      BY <2>4, <3>1 DEF OwnInv, HostBacked, Backed
    <3>3. u # t
      <4> SUFFICES ASSUME u = t PROVE FALSE
        OBVIOUS
      <4>1. offset[t] = mapping[t].offset
        BY <2>1, <2>4, <3>2 DEF OwnInv, OwnBase
      <4>2. a \in Covers(offset[t], mapping[t].length)
        BY <3>2, <4>1 DEF RangeOf
      <4> QED
        BY <2>4, <3>1, <4>2
    <3> QED
      BY <2>3, <3>2, <3>3 DEF Backed
  <2>5. HostBacked'
    BY <1>2, <2>4 DEF HostBacked
  <2>6. TaskGone'
    BY <1>1, <1>2, <2>1, <2>3 DEF OwnInv, TaskGone, DropPlaces
  <2>7. ASSUME NEW u \in Threads PROVE OwnBase(u)'
    <3>1. CASE u = t
      BY <2>3, <3>1 DEF OwnBase, LiveTask, NoMapping
    <3>2. CASE u # t
      BY <1>2, <2>1, <2>3, <3>2 DEF OwnInv, OwnBase
    <3> QED
      BY <3>1, <3>2
  <2> QED
    BY <2>5, <2>6, <2>7 DEF OwnInv
<1> QED
  BY <1>3, <1>4, DropCases

\* Every step keeps it.
LEMMA StepOwn ==
  ASSUME RootParts, RootParts', HoldInv, FreshInv, OwnInv, RootNext
  PROVE  OwnInv'
<1>1. /\ Guest \in Threads /\ Guest \notin Users /\ Users \subseteq Threads
      /\ Page \in MapLengths /\ Lengths \subseteq MapLengths
      /\ place \in [Threads -> AnyPlace]
  BY RootMappingsAssumption DEF Threads, MapLengths, RootParts, Placed
<1>2. ASSUME NEW t \in Users, Asks(t)
      PROVE  OwnInv'
  <2>1. /\ GoesTo(t, "asks") /\ t \in Threads
        /\ UNCHANGED <<task, base, destroyed, root_node, mapping, offset, mapped>>
    BY <1>1, <1>2 DEF Asks
  <2>2. TaskGone'
    BY <1>1, <2>1 DEF OwnInv, TaskGone, LiveTask, GoesTo
  <2> QED
    BY <2>1, <2>2, QuietOwn
<1>3. ASSUME NEW t \in Users, Maps(t)
      PROVE  OwnInv'
  <2>1. PICK length \in Lengths : root_task_mapping(t, length, "idle", "has")
    BY <1>3 DEF Maps
  <2>2. /\ MapPlaces(t, "idle", "has") /\ t \in Threads /\ length \in MapLengths
        /\ UNCHANGED <<task, base, destroyed, root_node, roots, offset>>
    BY <1>1, <1>3 DEF Maps, MapPlaces
  <2>3. mapping[t] = NoMapping
    BY <2>1, <2>2, MapHolds
  <2> QED
    BY <2>1, <2>2, <2>3, MapOwn
<1>4. ASSUME NEW t \in Users, LetsGo(t)
      PROVE  OwnInv'
  <2>1. /\ DropPlaces(t, "has", "idle") /\ t \in Threads /\ Drops(t, "has", "idle")
        /\ UNCHANGED <<task, base, destroyed, root_node>>
    BY <1>1, <1>4 DEF LetsGo, DropPlaces
  <2> QED
    BY <2>1, DropOwn
<1>5. CASE set_root_page \/ ClearRootNode \/ DestroyTask \/ CreateTask \/ RootNodeFails \/ RootNodeMade
  <2>1. UNCHANGED <<mapping, offset, mapped>>
    BY <1>5 DEF set_root_page, ClearRootNode, DestroyTask, CreateTask, RootNodeFails, RootNodeMade,
                RootRest
  <2>2. PICK label : GoesTo(Guest, label) /\ label # "unmaps"
    BY <1>5 DEF set_root_page, ClearRootNode, DestroyTask, CreateTask, RootNodeFails, RootNodeMade
  <2>3. /\ \/ UNCHANGED <<task, base, destroyed>>
           \/ ~LiveTask'
           \/ task' = roots /\ place[Guest] \in Remaking
        /\ TaskGone'
    <3>1. CASE set_root_page
      BY <1>1, <3>1 DEF OwnInv, set_root_page, GoesTo, TaskGone, LiveTask
    <3>2. CASE ClearRootNode \/ RootNodeMade
      BY <1>1, <3>2 DEF ClearRootNode, RootNodeMade, GoesTo, TaskGone, LiveTask
    <3>3. CASE DestroyTask \/ RootNodeFails
      BY <1>1, <3>3 DEF DestroyTask, RootNodeFails, TaskGone, LiveTask
    <3>4. CASE CreateTask
      BY <1>1, <3>4 DEF OwnInv, CreateTask, GoesTo, TaskGone, LiveTask, Remaking
    <3> QED
      BY <1>5, <3>1, <3>2, <3>3, <3>4
  <2> QED
    BY <1>1, <2>1, <2>2, <2>3, QuietOwn
<1>6. CASE DropRootNode
  <2>1. /\ DropPlaces(Guest, "node", "destroy") /\ Drops(Guest, "node", "destroy")
        /\ UNCHANGED <<task, base, destroyed, root_node>>
    BY <1>6 DEF DropRootNode, DropPlaces
  <2> QED
    BY <1>1, <2>1, DropOwn
<1>7. CASE MapRootNode
  <2>1. /\ MapPlaces(Guest, "failed", "mapped")
        /\ UNCHANGED <<task, base, destroyed, root_node, roots, offset>>
        /\ root_task_mapping(Guest, Page, "failed", "mapped")
    BY <1>7 DEF MapRootNode, MapPlaces
  <2>2. mapping[Guest] = NoMapping
    BY <1>1, <2>1, MapHolds
  <2> QED
    BY <1>1, <2>1, <2>2, MapOwn
<1> QED
  BY <1>2, <1>3, <1>4, <1>5, <1>6, <1>7 DEF RootNext, RootStep, teardown_root, UserStep

\* The two invariants together.
LEMMA OwnInductive == ASSUME NoWrap PROVE RootSpec => [](MappingInv /\ OwnInv)
<1>1. RootInit => OwnInv
  BY DEF RootInit, OwnInv, TaskGone, HostBacked, OwnBase, LiveTask
<1>2. MappingInv /\ MappingInv' /\ OwnInv /\ [RootNext]_root_vars => OwnInv'
  <2> SUFFICES ASSUME MappingInv, MappingInv', OwnInv, [RootNext]_root_vars PROVE OwnInv'
    OBVIOUS
  <2>1. RootParts /\ RootParts' /\ HoldInv /\ FreshInv
    BY RootTypeParts DEF MappingInv
  <2>2. CASE RootNext
    BY <2>1, <2>2, StepOwn
  <2>3. CASE UNCHANGED root_vars
    <3>1. UNCHANGED <<task, base, destroyed, root_node, mapping, place, offset, mapped>>
      BY <2>3 DEF root_vars
    <3> QED
      BY <3>1 DEF OwnInv, TaskGone, HostBacked, Backed, RangeOf, OwnBase, LiveTask
  <2> QED
    BY <2>2, <2>3
<1> QED
  BY <1>1, <1>2, MappingInductive, PTL DEF RootSpec

(* The host has mapped in the live root task nothing but what live mappings made in it cover,    *)
(* whatever is dropped; and all of that, until a mapping is dropped under another base than its  *)
(* own.  From then on it may be less: unmap_range (root.rs:525) unmaps what lies at the offset   *)
(* it computes, which can be a live mapping's.                                                    *)
THEOREM HostMapsAgree == ASSUME NoWrap PROVE RootSpec => []HostMapsMatch
<1>1. MappingInv /\ OwnInv => HostMapsMatch
  <2> SUFFICES ASSUME MappingInv, OwnInv, task \notin destroyed PROVE HostMapsMatch
    BY DEF HostMapsMatch
  <2> DEFINE has == {a \in 0..LastVa : <<task, a>> \in mapped}
             there == {u \in Live : mapping[u].task = task /\ task # 0}
             covers == UNION {RangeOf(t) : t \in there}
  <2>1. RootParts /\ Live \subseteq Threads /\ \A t \in Threads : Ranges[t] = RangeOf(t)
    BY RootTypeParts DEF MappingInv, Live, Ranges
  <2>2. has \subseteq covers
    <3> SUFFICES ASSUME NEW a, <<task, a>> \in mapped PROVE a \in covers
      OBVIOUS
    <3>1. task # 0
      BY <2>1 DEF RootParts, SpaceTyped
    <3>2. PICK t \in Threads : mapping[t].task = task /\ a \in RangeOf(t)
      BY <3>1 DEF OwnInv, HostBacked, Backed, LiveTask
    <3>3. t \in there
      BY <3>1, <3>2 DEF Live, NoMapping
    <3> QED
      BY <3>2, <3>3
  <2>3. ASSUME ~strayed, NEW a \in covers PROVE a \in has
    <3>1. PICK t \in there : a \in RangeOf(t)
      BY <2>3
    <3>2. Spaced /\ t \in Threads /\ mapping[t].task = task /\ task # 0
      BY <2>1, <2>3, <3>1 DEF MappingInv, SpaceInv
    <3>3. a \in 0..LastVa
      BY <2>1, <3>1, <3>2 DEF Spaced, Parted
    <3>4. a \in Nat
      BY <3>3, VaSizes
    <3>5. HostHas(a)
      BY <2>1, <3>1, <3>2 DEF HostHas
    <3> QED
      BY <3>2, <3>3, <3>4, <3>5 DEF Spaced, HostMapped
  <2> QED
    BY <2>2, <2>3 DEF HostMapsMatch
<1> QED
  BY <1>1, OwnInductive, PTL
=============================================================================
