---------------------------- MODULE DeviceFifos ----------------------------
(***************************************************************************)
(* The device around its FIFOs (crates/reims-vgpu-core/src/device/fifos.rs *)
(* and lifecycle.rs, with root.rs where they meet the root FIFO): faults   *)
(* and their asynchronous reports, the guest's interrupt, children defined *)
(* and deleted, pause and unpause, suspend and resume, and the root FIFO's *)
(* teardown and enable.                                                    *)
(*                                                                         *)
(* FIFO 0 is the root.  A FIFO is what StampQueue and FifoThread show of   *)
(* it: a thread that runs until it is quiesced, and the head of its stamp  *)
(* queue with the fault latch, one command at a time.  The FIFO queue is   *)
(* the SerialExecutor: one block at a time, in order, a sync block on its  *)
(* caller's thread.  A FIFO's stamp index is its id.  A resume is of a new *)
(* device over the same guest memory (lifecycle.rs: in place it loses the  *)
(* root FIFO).  A start always finds its ring mapped, and a delete clears  *)
(* its own node only (its word of the next node's page list is left out).  *)
(* A task's raise ends the root's delete early (a teardown's delete dies of *)
(* it, which is left out).  create_fifo's check that the child is in no     *)
(* stamp wait is StampWaits' business.                                     *)
(*                                                                         *)
(* The host's calls and the guest's FifoEnable writes are each made one at  *)
(* a time, and overlap as they may: api.md allows any function on any       *)
(* thread.  The one order kept is that the vCPUs are stopped before         *)
(* finish_suspend.  `crossed` records the meetings the code has no answer   *)
(* to; once two calls have crossed, a thread started over a live one, and a *)
(* FIFO made again while the old one is drained, are not told apart.       *)
(* The definitions named ..._bug are plausible mistakes in the one they    *)
(* precede, kept to show which property catches each.                      *)
(***************************************************************************)
EXTENDS Integers, Sequences, FiniteSets

CONSTANTS
  Children,     \* the child FIFOs' ids
  Tasks,        \* how many tasks a delete tells
  MaxCommands,  \* bound: commands pushed
  MaxCalls,     \* bound: pauses, suspends and teardowns begun
  Calls         \* the calls among them this instance makes

ASSUME DeviceFifosAssumption ==
  /\ IsFiniteSet(Children) /\ Children \subseteq Nat \ {0}
  /\ Tasks \in Nat /\ MaxCommands \in Nat /\ MaxCalls \in Nat
  /\ Calls \subseteq {"pause", "suspend", "disable"}

Root  == 0
Fifos == {Root} \cup Children
Actors == {"host", "guest", "root"}   \* the host's thread, a vCPU, the root FIFO's thread

VARIABLES
  run_state,
  present,            \* the FIFOs in their slots, the root one's included
  node_running,       \* the children whose node says running, in guest memory
  running, quiesced,  \* each FIFO's thread
  head, latch,        \* the head of its stamp queue, and the queue's fault latch
  fault_offset,       \* the FIFOs that show a fault offset (a child's is in its node too)
  reporting,          \* the FIFOs whose pump is between the fault offset and the report
  fault_mask, interrupt_stamp,
  signal_mutex,       \* who raises the interrupt with the signal lock held, or "free"
  stamp_memory, irq,  \* is the stamp memory mapped; has the guest an interrupt to take
  fifo_q,             \* the blocks of the FIFO queue
  pc, at,             \* where each actor is, and the FIFO it works on
  draining,           \* where each actor is in the drain of that FIFO, which it holds
  crossed,            \* the kinds of meetings there have been: see Meets
  remaining,          \* the completions a delete waits for
  blob,               \* what finish_suspend serialized
  dead,               \* the fatal check that ended the process, or "no"
  commands, calls     \* how many commands and calls have been made

fifo == <<present, node_running, running, quiesced, head, latch, fault_offset, reporting>>
interrupts == <<fault_mask, interrupt_stamp, signal_mutex, irq>>
control == <<pc, at, remaining>>
counts == <<commands, calls>>
waits == <<draining, crossed>>
vars == <<run_state, fifo, interrupts, stamp_memory, fifo_q, control, waits, blob, dead, counts>>

RunStates == {"Running", "Paused", "EnteringSuspend", "Suspended", "LeavingSuspendEarly",
              "Resuming"}
Blob == [stamp : SUBSET Fifos, root : BOOLEAN, fault : BOOLEAN]

Report(f) == [kind |-> "report", of |-> f]
Sync(a)   == [kind |-> "sync", of |-> a]

\* A device at work: the root FIFO enabled, some children defined, and some of them in a command.
Init ==
  /\ run_state = "Running"
  /\ present \in {{Root} \cup c : c \in SUBSET Children}
  /\ node_running = present \ {Root} /\ running = present /\ quiesced = {}
  /\ \E busy \in SUBSET (present \ {Root}) :
       head = [f \in Fifos |-> IF f \in busy THEN "busy" ELSE "none"]
  /\ latch = {} /\ fault_offset = {} /\ reporting = {}
  /\ fault_mask = {} /\ interrupt_stamp = {} /\ signal_mutex = "free" /\ irq = FALSE
  /\ stamp_memory = TRUE /\ fifo_q = << >>
  /\ pc = [a \in Actors |-> "idle"] /\ at = [a \in Actors |-> Root] /\ remaining = 0
  /\ draining = [a \in Actors |-> "no"] /\ crossed = {}
  /\ blob = [stamp |-> {}, root |-> FALSE, fault |-> FALSE]
  /\ dead = "no" /\ commands = 0 /\ calls = 0

-----------------------------------------------------------------------------
(* The signal lock, the interrupt and the FIFO queue *)

Goto(a, label) == pc' = [pc EXCEPT ![a] = label]
Die(why) == dead' = why
Meets(kind, when) == crossed' = IF when THEN crossed \cup {kind} ELSE crossed

\* signal_stamp, up to the interrupt: the lock is held across it.  A stamp past its memory dies.
signal_stamp(f) ==
  /\ signal_mutex = "free" /\ signal_mutex' = "stamp"
  /\ interrupt_stamp' = interrupt_stamp \cup {f}
  /\ IF stamp_memory THEN UNCHANGED dead ELSE Die("StampWriteWithoutMemory")

\* interrupt: raised only while the device runs; then the lock goes, and a report's block ends.
Raised(i) == i \/ run_state = "Running"
interrupt ==
  /\ signal_mutex # "free" /\ signal_mutex' = "free"
  /\ irq' = Raised(irq)
  /\ fifo_q' = IF signal_mutex = "report" THEN Tail(fifo_q) ELSE fifo_q
  /\ UNCHANGED <<run_state, fifo, fault_mask, interrupt_stamp, stamp_memory, control, waits, blob,
                 dead, counts>>

\* on_fifo_queue: a sync block, which runs when those before it are done.
Queue(a) == fifo_q' = Append(fifo_q, Sync(a))
Turn(a)  == fifo_q # << >> /\ Head(fifo_q) = Sync(a)
Leave    == fifo_q' = Tail(fifo_q)

\* signal_fault_in_fifo's block.
signal_fault_in_fifo_bug ==  \* the interrupt is left to a stamp
  /\ fifo_q # << >> /\ Head(fifo_q).kind = "report" /\ signal_mutex = "free"
  /\ fault_mask' = fault_mask \cup {Head(fifo_q).of} /\ Leave
  /\ UNCHANGED <<run_state, fifo, interrupt_stamp, signal_mutex, irq, stamp_memory, control, waits,
                 blob, dead, counts>>
signal_fault_in_fifo ==
  /\ fifo_q # << >> /\ Head(fifo_q).kind = "report" /\ signal_mutex = "free"
  /\ fault_mask' = fault_mask \cup {Head(fifo_q).of}
  /\ signal_mutex' = "report"
  /\ UNCHANGED <<run_state, fifo, interrupt_stamp, irq, stamp_memory, fifo_q, control, waits, blob,
                 dead, counts>>

-----------------------------------------------------------------------------
(* A FIFO's thread and its stamp queue *)

Outside == <<run_state, stamp_memory, blob>>
Slots   == <<present, node_running>>
HeadIs(f, what) == head' = [head EXCEPT ![f] = what]

\* The FIFO's lock, which Fifo::resume holds, and the stamp queue's, which a pump holds.
Locked(f)    == pc["guest"] = "pump" /\ at["guest"] = f
QueueFree(f) == f \notin reporting /\ signal_mutex = "free"

\* A pump that leaves the queue empty wakes one of those parked in its drain.
Parked(f)    == {a \in Actors : draining[a] = "parked" /\ at[a] = f}
Notified_bug(f) ==  \* nobody is woken
  {draining}
Notified(f)  == IF Parked(f) = {} THEN {draining}
                ELSE {[draining EXCEPT ![a] = "woken"] : a \in Parked(f)}
NotifyOne(f) == draining' \in Notified(f) /\ UNCHANGED crossed

\* The root FIFO's commands define and delete children; what they push is still pending while
\* they run.
Idle(f) == f = Root => pc["root"] = "idle"
push(f) ==
  /\ f \in running \ quiesced /\ head[f] = "none" /\ Idle(f) /\ commands < MaxCommands
  /\ HeadIs(f, "busy") /\ commands' = commands + 1
  /\ \/ UNCHANGED control
     \/ /\ f = Root
        /\ \E c \in Children, what \in {"define", "delete"} :
             Goto("root", what) /\ at' = [at EXCEPT !["root"] = c] /\ UNCHANGED remaining
  /\ UNCHANGED <<Outside, Slots, running, quiesced, latch, fault_offset, reporting, interrupts,
                 fifo_q, waits, dead, calls>>

\* A command completes, on whatever thread its handler ends: the pump publishes it.
Completes(f) ==
  /\ head[f] = "busy" /\ Idle(f) /\ f \notin reporting
  /\ signal_stamp(f) /\ HeadIs(f, "none") /\ NotifyOne(f)
  /\ UNCHANGED <<Outside, Slots, running, quiesced, latch, fault_offset, reporting, fault_mask,
                 irq, fifo_q, control, counts>>

\* A command faults: a quiesced pump completes it, a latched one says nothing, and else the
\* sink sets the fault offset and, next, queues the report, with the stamp queue locked.
Faults(f) ==
  /\ head[f] = "busy" /\ Idle(f) /\ f \notin reporting
  /\ \/ /\ f \in quiesced /\ signal_stamp(f) /\ HeadIs(f, "none") /\ NotifyOne(f)
        /\ UNCHANGED <<latch, fault_offset, reporting>>
     \/ /\ f \notin quiesced /\ HeadIs(f, "faulted")
        /\ latch' = latch \cup {f}
        /\ IF f \in latch
           THEN UNCHANGED <<fault_offset, reporting>>
           ELSE fault_offset' = fault_offset \cup {f} /\ reporting' = reporting \cup {f}
        /\ UNCHANGED <<interrupt_stamp, signal_mutex, waits, dead>>
  /\ UNCHANGED <<Outside, Slots, running, quiesced, fault_mask, irq, fifo_q, control, counts>>

SinkReports(f) ==
  /\ f \in reporting /\ reporting' = reporting \ {f}
  /\ fifo_q' = Append(fifo_q, Report(f))
  /\ UNCHANGED <<Outside, Slots, running, quiesced, head, latch, fault_offset, interrupts, control,
                 waits, dead, counts>>

\* The thread's end, under the FIFO's lock, wakes every drain that waits for it.
ThreadExits(f) ==
  /\ f \in running \cap quiesced /\ Idle(f) /\ ~Locked(f)
  /\ running' = running \ {f}
  /\ draining' = [a \in Actors |->
                    IF draining[a] = "exit" /\ at[a] = f THEN "stamps" ELSE draining[a]]
  /\ UNCHANGED <<Outside, Slots, quiesced, head, latch, fault_offset, reporting, interrupts,
                 fifo_q, control, crossed, dead, counts>>

\* Fifo::quiesce: the pump completes a faulted head, and the latch stays.
quiesce(f) ==
  /\ f \notin reporting /\ ~Locked(f)
  /\ quiesced' = quiesced \cup {f}
  /\ IF head[f] = "faulted"
     THEN signal_stamp(f) /\ HeadIs(f, "none")
     ELSE UNCHANGED <<interrupt_stamp, signal_mutex, head, dead>>
  /\ draining' \in (IF head[f] = "busy" THEN {draining} ELSE Notified(f))
  /\ UNCHANGED <<running, latch, fault_offset, reporting, fault_mask, irq>>

\* Fifo::drain by a of the FIFO f it holds: one wait for the thread's exit, with no predicate,
\* then the stamp queue's drain, which pumps once and waits to be woken.
DrainIs(a, where) == draining' = [draining EXCEPT ![a] = where]
EntersDrain(a, f) ==
  /\ draining[a] = "no" /\ ~Locked(f) /\ UNCHANGED crossed
  /\ IF f \in quiesced
     THEN DrainIs(a, IF f \in running THEN "exit" ELSE "stamps") /\ UNCHANGED dead
     ELSE Die("DrainUnquiesced") /\ UNCHANGED draining
DrainWaits(a, f) ==
  \/ /\ draining[a] = "stamps" /\ f \notin quiesced /\ Die("QueueDrainUnquiesced")
     /\ UNCHANGED waits
  \/ /\ draining[a] = "woken" \/ (draining[a] = "stamps" /\ f \in quiesced)
     /\ QueueFree(f) /\ head[f] # "none" /\ DrainIs(a, "parked")
     /\ Meets("drains", Parked(f) # {}) /\ UNCHANGED dead
DrainReturns(a, f) ==
  /\ QueueFree(f) /\ head[f] = "none" /\ UNCHANGED <<crossed, dead>>
  /\ \/ draining[a] = "woken" /\ DrainIs(a, "no")
     \/ /\ draining[a] = "stamps" /\ f \in quiesced
        /\ \E d \in Notified(f) : draining' = [d EXCEPT ![a] = "no"]
DrainGoesOn(a, f) == EntersDrain(a, f) \/ DrainWaits(a, f)

\* Fifo::start, for the FIFOs fs, in turn; a child's node says running.
start(fs) ==
  /\ quiesced' = quiesced \ fs /\ running' = running \cup fs
  /\ node_running' = node_running \cup (fs \ {Root})

-----------------------------------------------------------------------------
(* Children, defined and deleted by the root FIFO's commands and by its teardown *)

\* create_fifo, on the FIFO queue: a new child clears its node's fault offset, and starts.
create_fifo(a) ==
  LET c == at[a] IN
  /\ \/ pc[a] = "define" /\ Queue(a) /\ Goto(a, "create") /\ UNCHANGED <<fifo>>
     \/ /\ pc[a] = "create" /\ Turn(a) /\ Leave /\ Goto(a, "idle")
        /\ \/ c \in present /\ UNCHANGED fifo
           \/ /\ c \notin present /\ present' = present \cup {c}
              /\ fault_offset' = fault_offset \ {c} /\ latch' = latch \ {c}
              /\ start({c}) /\ UNCHANGED <<head, reporting>>
  /\ UNCHANGED <<Outside, interrupts, at, remaining, waits, dead, counts>>

\* delete_fifo, the block: takes the child out and clears its fault bit.
TakeOut(a, then) ==
  LET c == at[a] IN
  /\ pc[a] = "take" /\ Turn(a) /\ Leave
  /\ \/ c \notin present /\ Goto(a, then) /\ UNCHANGED <<present, fault_mask>>
     \/ /\ c \in present /\ Goto(a, "stop")
        /\ present' = present \ {c} /\ fault_mask' = fault_mask \ {c}
  /\ UNCHANGED <<Outside, node_running, running, quiesced, head, latch, fault_offset, reporting,
                 interrupt_stamp, signal_mutex, irq, at, remaining, waits, dead, counts>>

\* The rest of the delete: stop, drain, then the tasks are told and their completions counted; a
\* task's raise ends it before the wait.
StopTaken(a) ==
  /\ pc[a] = "stop" /\ quiesce(at[a]) /\ node_running' = node_running \ {at[a]}
  /\ Goto(a, "drain")
  /\ UNCHANGED <<Outside, present, fifo_q, at, remaining, crossed, counts>>
DrainTaken(a, then) ==
  /\ pc[a] = "drain"
  /\ \/ DrainGoesOn(a, at[a]) /\ UNCHANGED <<pc, remaining>>
     \/ /\ DrainReturns(a, at[a])
        /\ \/ Goto(a, "tasks") /\ remaining' = Tasks
           \/ a = "root" /\ Goto(a, then) /\ UNCHANGED remaining
  /\ UNCHANGED <<Outside, fifo, interrupts, fifo_q, at, counts>>
WaitTasks(a, then) ==
  /\ \/ pc[a] = "tasks" /\ Goto(a, IF remaining = 0 THEN then ELSE "parked")
     \/ pc[a] = "woken" /\ remaining = 0 /\ Goto(a, then)
  /\ UNCHANGED <<Outside, fifo, interrupts, fifo_q, at, remaining, waits, dead, counts>>

\* count_down, on the thread of a task's reply; the last one wakes the wait.
count_down ==
  /\ remaining > 0 /\ remaining' = remaining - 1
  /\ pc' = [a \in Actors |-> IF remaining' = 0 /\ pc[a] = "parked" THEN "woken" ELSE pc[a]]
  /\ UNCHANGED <<Outside, fifo, interrupts, fifo_q, at, waits, dead, counts>>

delete_fifo(a, then) ==
  \/ /\ pc[a] = "delete" /\ Queue(a) /\ Goto(a, "take")
     /\ UNCHANGED <<Outside, fifo, interrupts, at, remaining, waits, dead, counts>>
  \/ TakeOut(a, then) \/ StopTaken(a) \/ DrainTaken(a, then) \/ WaitTasks(a, then)

-----------------------------------------------------------------------------
(* The guest: a vCPU's register accesses *)

After(f) == {g \in Fifos : g > f}
First(fs) == CHOOSE f \in fs : \A g \in fs : f <= g

\* The guest looks at every FIFO's fault offset in turn.
LookOn ==
  IF After(at["guest"]) = {} THEN Goto("guest", "idle") /\ UNCHANGED at
  ELSE Goto("guest", "look") /\ at' = [at EXCEPT !["guest"] = First(After(@))]

\* An interrupt: the stamp bits are read and cleared, then the fault register is read.
vCPUsRun == run_state \in {"Running", "Paused", "EnteringSuspend"}
TakeInterrupt ==
  /\ pc["guest"] = "idle" /\ vCPUsRun /\ irq
  /\ irq' = FALSE /\ Goto("guest", "stamps")
  /\ UNCHANGED <<Outside, fifo, fault_mask, interrupt_stamp, signal_mutex, fifo_q, at, remaining,
                 waits, dead, counts>>
ReadInterruptStamp ==
  /\ pc["guest"] = "stamps" /\ Goto("guest", "fault") /\ interrupt_stamp' = {}
  /\ UNCHANGED <<Outside, fifo, fault_mask, signal_mutex, irq, fifo_q, at, remaining, waits,
                 dead, counts>>
read_interrupt_fault ==
  /\ pc["guest"] = "fault" /\ Goto("guest", IF fault_mask # {} THEN "look" ELSE "idle")
  /\ at' = [at EXCEPT !["guest"] = Root]
  /\ UNCHANGED <<Outside, fifo, interrupts, fifo_q, remaining, waits, dead, counts>>

\* A FIFO that shows a fault offset is resumed, on the FIFO queue.
LookAtFault ==
  /\ pc["guest"] = "look"
  /\ IF at["guest"] \in present \cap fault_offset
     THEN Queue("guest") /\ Goto("guest", "resume") /\ UNCHANGED at
     ELSE LookOn /\ UNCHANGED fifo_q
  /\ UNCHANGED <<Outside, fifo, interrupts, remaining, waits, dead, counts>>

\* resume_child_fifo and resume_fifo, under the signal lock: the fault bit is cleared (the
\* root's only if it shows a fault) and the interrupt raised for the faults left.
ClearFaultBit ==
  LET f == at["guest"]
      faulted == f = Root => Root \in fault_offset \/ Root \notin present
  IN
  /\ pc["guest"] = "resume" /\ Turn("guest") /\ signal_mutex = "free"
  /\ fault_mask' = IF faulted THEN fault_mask \ {f} ELSE fault_mask
  /\ signal_mutex' = IF faulted /\ fault_mask' # {} THEN "resume" ELSE "free"
  /\ Goto("guest", "clear")
  /\ UNCHANGED <<Outside, fifo, interrupt_stamp, irq, fifo_q, at, remaining, waits, dead, counts>>

\* Fifo::resume, with the FIFO locked: the fault offset, then the stamp queue.
ClearFaultOffset ==
  LET f == at["guest"] IN
  /\ pc["guest"] = "clear" /\ signal_mutex = "free"
  /\ \/ /\ f \in present /\ fault_offset' = fault_offset \ {f}
        /\ Goto("guest", "pump") /\ UNCHANGED <<fifo_q, at>>
     \/ f \notin present /\ Leave /\ LookOn /\ UNCHANGED fault_offset
  /\ UNCHANGED <<Outside, Slots, running, quiesced, head, latch, reporting, interrupts, remaining,
                 waits, dead, counts>>
resume_from_fault ==
  LET f == at["guest"] IN
  /\ pc["guest"] = "pump" /\ f \notin reporting /\ Leave /\ LookOn
  /\ \/ /\ head[f] = "faulted" /\ signal_stamp(f) /\ HeadIs(f, "none") /\ latch' = latch \ {f}
     \/ /\ head[f] # "faulted" /\ UNCHANGED <<interrupt_stamp, signal_mutex, dead, head, latch>>
  /\ draining' \in (IF head[f] = "busy" THEN {draining} ELSE Notified(f)) /\ UNCHANGED crossed
  /\ UNCHANGED <<Outside, Slots, running, quiesced, fault_offset, reporting, fault_mask, irq,
                 remaining, counts>>

\* FifoEnable = 0, teardown_fifos: stops and drains the root FIFO, deletes the children, then
\* lets the root FIFO and the stamp memory go.
Begins(call) == call \in Calls /\ calls < MaxCalls /\ calls' = calls + 1
Disable ==
  /\ pc["guest"] = "idle" /\ vCPUsRun /\ Root \in present /\ Begins("disable")
  /\ quiesce(Root) /\ Goto("guest", "drain_root") /\ at' = [at EXCEPT !["guest"] = Root]
  /\ Meets("FifoEnable", pc["host"] # "idle")
  /\ UNCHANGED <<Outside, Slots, fifo_q, remaining, commands>>
DrainRoot ==
  /\ pc["guest"] = "drain_root"
  /\ \/ DrainGoesOn("guest", Root) /\ UNCHANGED pc
     \/ DrainReturns("guest", Root) /\ Goto("guest", "children")
  /\ UNCHANGED <<Outside, fifo, interrupts, fifo_q, at, remaining, counts>>
NextChild_bug ==  \* the children are left to be deleted later
  /\ pc["guest"] = "children" /\ Goto("guest", "release")
  /\ UNCHANGED <<Outside, fifo, interrupts, fifo_q, at, remaining, waits, dead, counts>>
NextChild ==
  LET left == After(at["guest"]) \cap present IN
  /\ pc["guest"] = "children"
  /\ IF left = {} THEN Goto("guest", "release") /\ UNCHANGED at
     ELSE Goto("guest", "delete") /\ at' = [at EXCEPT !["guest"] = First(left)]
  /\ UNCHANGED <<Outside, fifo, interrupts, fifo_q, remaining, waits, dead, counts>>
ReleaseRoot ==
  /\ \/ /\ pc["guest"] = "release" /\ Goto("guest", "mask")
        /\ stamp_memory' = FALSE /\ present' = present \ {Root}
        /\ fault_offset' = fault_offset \ {Root} /\ UNCHANGED fault_mask
     \/ /\ pc["guest"] = "mask" /\ Goto("guest", "idle") /\ fault_mask' = {}
        /\ UNCHANGED <<stamp_memory, present, fault_offset>>
  /\ UNCHANGED <<run_state, blob, node_running, running, quiesced, head, latch, reporting,
                 interrupt_stamp, signal_mutex, irq, fifo_q, at, remaining, waits, dead, counts>>

teardown_fifos == Disable \/ DrainRoot \/ NextChild \/ delete_fifo("guest", "children") \/ ReleaseRoot

\* FifoEnable = 1: create_root_fifo, then the start, whatever the device's state.
enable_fifo ==
  /\ \/ /\ pc["guest"] = "idle" /\ vCPUsRun /\ Root \notin present /\ Goto("guest", "enable")
        /\ present' = present \cup {Root} /\ stamp_memory' = TRUE
        /\ latch' = latch \ {Root} /\ quiesced' = quiesced \ {Root}
        /\ Meets("FifoEnable", pc["host"] # "idle") /\ UNCHANGED <<node_running, running>>
     \/ /\ pc["guest"] = "enable" /\ Goto("guest", "idle") /\ start(present \cap {Root})
        /\ UNCHANGED <<present, stamp_memory, latch, crossed>>
  /\ UNCHANGED <<run_state, blob, head, fault_offset, reporting, interrupts, fifo_q, at, remaining,
                 draining, dead, counts>>

\* Is a vCPU in a FifoEnable write?
TearingDown ==
  pc["guest"] \in {"drain_root", "children", "delete", "take", "stop", "drain", "tasks", "parked",
                   "woken", "release", "mask"}
EnableWritten == TearingDown \/ pc["guest"] = "enable"

GuestSteps ==
  \/ TakeInterrupt \/ ReadInterruptStamp \/ read_interrupt_fault \/ LookAtFault \/ ClearFaultBit
  \/ ClearFaultOffset \/ resume_from_fault \/ teardown_fifos \/ enable_fifo

-----------------------------------------------------------------------------
(* The host: pause and unpause, suspend and resume *)

Host(from, to) == pc["host"] = from /\ Goto("host", to)
KeepRest == UNCHANGED <<stamp_memory, blob, fifo_q, at, remaining, commands>>

\* The walk over the children: each one present, from the last visited on.
Unvisited == After(at["host"]) \cap present
Walk(from, to) ==
  /\ pc["host"] = from
  /\ IF Unvisited = {}
     THEN Goto("host", to) /\ at' = [at EXCEPT !["host"] = Root]
     ELSE Goto("host", from) /\ at' = [at EXCEPT !["host"] = First(Unvisited)]

QuiesceRoot(from, to) ==
  /\ Host(from, to)
  /\ IF Root \in present THEN quiesce(Root)
     ELSE UNCHANGED <<running, quiesced, head, latch, fault_offset, reporting, interrupts, draining,
                      dead>>
  /\ UNCHANGED <<run_state, Slots, calls>> /\ KeepRest
QuiesceChildren(from, to) ==
  /\ Walk(from, to)
  /\ IF Unvisited # {} THEN quiesce(First(Unvisited))
     ELSE UNCHANGED <<running, quiesced, head, latch, fault_offset, reporting, interrupts, draining,
                      dead>>
  /\ UNCHANGED <<Outside, Slots, fifo_q, remaining, crossed, counts>>

\* Drains: the host holds the FIFO it found in the slot, whatever the slot holds by the end.
HostDrainsRoot(from, to) ==
  /\ pc["host"] = from
  /\ \/ /\ draining["host"] = "no" /\ Root \notin present
        /\ Goto("host", to) /\ UNCHANGED <<waits, dead>>
     \/ /\ draining["host"] # "no" \/ Root \in present
        /\ DrainGoesOn("host", Root) /\ UNCHANGED pc
     \/ DrainReturns("host", Root) /\ Goto("host", to)
  /\ UNCHANGED <<run_state, fifo, interrupts, calls>> /\ KeepRest
DrainWalk(from, to) ==
  /\ pc["host"] = from
  /\ \/ /\ draining["host"] = "no" /\ Unvisited = {}
        /\ Goto("host", to) /\ at' = [at EXCEPT !["host"] = Root] /\ UNCHANGED <<waits, dead>>
     \/ /\ Unvisited # {} /\ EntersDrain("host", First(Unvisited))
        /\ at' = [at EXCEPT !["host"] = First(Unvisited)] /\ UNCHANGED pc
     \/ /\ DrainWaits("host", at["host"]) \/ DrainReturns("host", at["host"])
        /\ UNCHANGED <<pc, at>>
  /\ UNCHANGED <<Outside, interrupts, fifo_q, remaining, counts>>
HostDrainsChildren(from, to) == DrainWalk(from, to) /\ UNCHANGED fifo

\* pause: the root FIFO is quiesced and drained before the children, whose creator it is.
PauseBegins ==
  /\ run_state = "Running" /\ Begins("pause") /\ Host("idle", "pause")
  /\ Meets("FifoEnable", EnableWritten)
  /\ UNCHANGED <<run_state, fifo, interrupts, draining, dead>> /\ KeepRest
PauseEnds ==
  /\ Host("pausing", "paused") /\ run_state' = "Paused"
  /\ UNCHANGED <<fifo, interrupts, waits, dead, calls>> /\ KeepRest
pause_bug ==  \* the children first
  \/ PauseBegins \/ QuiesceChildren("pause", "p_children_drain")
  \/ HostDrainsChildren("p_children_drain", "p_root")
  \/ QuiesceRoot("p_root", "p_root_drain") /\ UNCHANGED crossed
  \/ HostDrainsRoot("p_root_drain", "pausing") \/ PauseEnds
pause ==
  \/ PauseBegins
  \/ QuiesceRoot("pause", "p_root") /\ UNCHANGED crossed
  \/ HostDrainsRoot("p_root", "p_children")
  \/ QuiesceChildren("p_children", "p_children_drain")
  \/ HostDrainsChildren("p_children_drain", "pausing") \/ PauseEnds

\* start_fifos: the children, then the root FIFO.
StartChildren(from, to) ==
  /\ Host(from, to) /\ start(present \ {Root})
  /\ UNCHANGED <<run_state, present, head, latch, fault_offset, reporting, interrupts, waits, dead,
                 calls>>
  /\ KeepRest
StartRoot(from, to) ==
  /\ Host(from, to) /\ start(present \cap {Root})
  /\ UNCHANGED <<run_state, present, head, latch, fault_offset, reporting, interrupts, waits, dead,
                 calls, stamp_memory, blob, at, remaining, commands>>
HostInterrupts(from) ==
  /\ Host(from, "idle") /\ irq' = Raised(irq)
  /\ UNCHANGED <<run_state, fifo, fault_mask, interrupt_stamp, signal_mutex, waits, dead, calls>>
  /\ KeepRest

\* unpause: runs, starts every FIFO on the FIFO queue, and interrupts once.
UnpauseBegins ==
  /\ Host("paused", "u_start") /\ run_state' = "Running" /\ Queue("host")
  /\ UNCHANGED <<fifo, interrupts, waits, dead, calls, stamp_memory, blob, at, remaining, commands>>
unpause ==
  \/ UnpauseBegins
  \/ Turn("host") /\ StartChildren("u_start", "u_root")
  \/ StartRoot("u_root", "u_interrupt") /\ Leave
  \/ HostInterrupts("u_interrupt")

\* will_suspend: quiesces every FIFO and waits for none, a root FIFO in a define included.
NoDefine == pc["root"] \notin {"define", "create"}
SuspendBegins ==
  /\ pc["host"] \in {"idle", "paused"} /\ Goto("host", "suspend") /\ Begins("suspend")
  /\ Meets("FifoEnable", EnableWritten)
  /\ run_state' = "EnteringSuspend"
  /\ UNCHANGED <<fifo, interrupts, draining, dead>> /\ KeepRest
will_suspend ==
  \/ SuspendBegins
  \/ QuiesceRoot("suspend", "s_children") /\ Meets("define", ~NoDefine)
  \/ QuiesceChildren("s_children", "suspending")

\* finish_suspend, the vCPUs being stopped: drains and drops the children, drains the root FIFO,
\* serializes, and drops the root FIFO and the stamp memory.
FinishBegins ==
  /\ Host("suspending", "f_child") /\ pc["guest"] = "idle" /\ run_state' = "Suspended"
  /\ UNCHANGED <<fifo, interrupts, waits, dead, calls>> /\ KeepRest
DropChildren ==
  LET drained == draining["host"] # "no" /\ draining'["host"] = "no" IN
  /\ DrainWalk("f_child", "f_root")
  /\ present' = IF drained THEN present \ {at["host"]} ELSE present
  /\ UNCHANGED <<node_running, running, quiesced, head, latch, fault_offset, reporting>>
serialize_suspend_state ==
  /\ Host("serialize", "suspended")
  /\ blob' = [stamp |-> interrupt_stamp, root |-> Root \in present, fault |-> Root \in fault_offset]
  /\ stamp_memory' = FALSE /\ present' = present \ {Root} /\ fault_offset' = fault_offset \ {Root}
  /\ UNCHANGED <<run_state, node_running, running, quiesced, head, latch, reporting, interrupts,
                 fifo_q, at, remaining, waits, dead, counts>>
finish_suspend ==
  \/ FinishBegins \/ DropChildren \/ HostDrainsRoot("f_root", "serialize")
  \/ serialize_suspend_state

\* will_resume, of a new device: the state is refused, or its registers are stored.
will_resume ==
  /\ \/ Host("suspended", "suspended") /\ UNCHANGED interrupt_stamp
     \/ Host("suspended", "resume") /\ interrupt_stamp' = blob.stamp
  /\ run_state' = "LeavingSuspendEarly"
  /\ quiesced' = {} /\ latch' = {} /\ fault_mask' = {} /\ fifo_q' = << >>
  /\ signal_mutex' = "free"
  /\ UNCHANGED <<Slots, running, head, fault_offset, reporting, irq, stamp_memory, blob, at,
                 remaining, waits, dead, counts>>

\* did_resume: the root FIFO if it was enabled, with its fault; the children their nodes say
\* run, with theirs; then the device runs, starts its FIFOs and interrupts once.
resume_root_fifo ==
  /\ Host("resume", "r_children") /\ run_state' = "Resuming"
  /\ IF blob.root
     THEN /\ present' = present \cup {Root} /\ stamp_memory' = TRUE
          /\ fault_offset' = IF blob.fault THEN fault_offset \cup {Root} ELSE fault_offset
          /\ fault_mask' = IF blob.fault THEN fault_mask \cup {Root} ELSE fault_mask
     ELSE UNCHANGED <<present, stamp_memory, fault_offset, fault_mask>>
  /\ UNCHANGED <<node_running, running, quiesced, head, latch, reporting, interrupt_stamp,
                 signal_mutex, irq, fifo_q, at, remaining, waits, blob, dead, counts>>
resume_children_bug ==  \* the mask is left to later reports
  /\ Host("r_children", "r_run") /\ present' = present \cup node_running
  /\ UNCHANGED <<run_state, node_running, running, quiesced, head, latch, fault_offset, reporting,
                 interrupts, waits, dead, calls>>
  /\ KeepRest
resume_children ==
  /\ Host("r_children", "r_run") /\ present' = present \cup node_running
  /\ fault_mask' = fault_mask \cup (fault_offset \cap (present' \ {Root}))
  /\ UNCHANGED <<run_state, node_running, running, quiesced, head, latch, fault_offset, reporting,
                 interrupt_stamp, signal_mutex, irq, waits, dead, calls>>
  /\ KeepRest
ResumeRuns ==
  /\ Host("r_run", "r_start") /\ run_state' = "Running"
  /\ UNCHANGED <<fifo, interrupts, waits, dead, calls>> /\ KeepRest
did_resume_bug ==  \* no interrupt
  \/ resume_root_fifo \/ resume_children \/ ResumeRuns \/ StartChildren("r_start", "r_root")
  \/ StartRoot("r_root", "idle") /\ UNCHANGED fifo_q
did_resume ==
  \/ resume_root_fifo \/ resume_children \/ ResumeRuns \/ StartChildren("r_start", "r_root")
  \/ StartRoot("r_root", "r_interrupt") /\ UNCHANGED fifo_q
  \/ HostInterrupts("r_interrupt")

HostSteps == pause \/ unpause \/ will_suspend \/ finish_suspend \/ will_resume \/ did_resume
RootSteps == create_fifo("root") \/ delete_fifo("root", "idle")
FifoSteps(f) == Completes(f) \/ Faults(f) \/ SinkReports(f) \/ ThreadExits(f)

Next ==
  /\ dead = "no"
  /\ \/ HostSteps \/ GuestSteps \/ RootSteps \/ count_down \/ signal_fault_in_fifo \/ interrupt
     \/ \E f \in Fifos : push(f) \/ FifoSteps(f)

Spec == Init /\ [][Next]_vars

(* Threads run, commands end, the guest takes its interrupts, and the host that paused or       *)
(* suspended the device unpauses or resumes it; no pause, suspend or teardown need ever begin.  *)
HostGoesOn == pc["host"] # "idle" /\ HostSteps
GuestGoesOn == GuestSteps /\ calls' = calls
Fairness ==
  /\ WF_vars(HostGoesOn) /\ WF_vars(GuestGoesOn) /\ WF_vars(RootSteps) /\ WF_vars(count_down)
  /\ WF_vars(signal_fault_in_fifo) /\ WF_vars(interrupt)
  /\ \A f \in Fifos : WF_vars(FifoSteps(f))

FairSpec == Spec /\ Fairness

-----------------------------------------------------------------------------
\* Where the actors may be.
HostPCs == {"idle", "pause", "p_root", "p_children", "p_children_drain", "pausing", "paused",
            "u_start", "u_root", "u_interrupt", "suspend", "s_children", "suspending", "f_child",
            "f_root", "serialize", "suspended", "resume", "r_children", "r_run", "r_start",
            "r_root", "r_interrupt"}
DeletePCs == {"delete", "take", "stop", "drain", "tasks", "parked", "woken"}
GuestPCs == {"idle", "stamps", "fault", "look", "resume", "clear", "pump", "drain_root",
             "children", "release", "mask", "enable"} \cup DeletePCs
RootPCs == {"idle", "define", "create"} \cup DeletePCs
DrainPlaces == {"no", "exit", "stamps", "parked", "woken"}
Deaths == {"StampWriteWithoutMemory", "DrainUnquiesced", "QueueDrainUnquiesced"}

TypeOK ==
  /\ run_state \in RunStates
  /\ present \subseteq Fifos /\ node_running \subseteq Children
  /\ running \subseteq Fifos /\ quiesced \subseteq Fifos
  /\ head \in [Fifos -> {"none", "busy", "faulted"}] /\ latch \subseteq Fifos
  /\ fault_offset \subseteq Fifos /\ reporting \subseteq Fifos
  /\ fault_mask \subseteq Fifos /\ interrupt_stamp \subseteq Fifos
  /\ signal_mutex \in {"free", "stamp", "report", "resume"}
  /\ stamp_memory \in BOOLEAN /\ irq \in BOOLEAN
  /\ fifo_q \in Seq({Report(f) : f \in Fifos} \cup {Sync(a) : a \in Actors})
  /\ pc \in [Actors -> HostPCs \cup GuestPCs \cup RootPCs]
  /\ at \in [Actors -> Fifos] /\ remaining \in 0..Tasks
  /\ draining \in [Actors -> DrainPlaces] /\ crossed \subseteq {"define", "FifoEnable", "drains"}
  /\ blob \in Blob /\ dead \in {"no"} \cup Deaths
  /\ commands \in 0..MaxCommands /\ calls \in 0..MaxCalls

(* Two meetings the code has no answer to: a suspend quiesces the root FIFO in the middle of a   *)
(* define, and a FifoEnable write overlaps a pause (until its unpause ended) or a suspend (until  *)
(* its resume ended).  Orderly: there was neither.  A third, two drains parked on one FIFO, of    *)
(* which a pump wakes one, costs a call and nothing else.                                         *)
Orderly == crossed \cap {"define", "FifoEnable"} = {}

(* What api.md's list of deaths says of calls made in the documented order, a suspend's among     *)
(* them: none ends the process.                                                                   *)
NeverDies == dead = "no"

(* An orderly device meets no fatal check: no FIFO is drained while it may run, whichever threads *)
(* define, delete, pause, suspend and tear down, and no stamp is written once its memory is gone. *)
(* (The two meetings excepted, thread.rs:98 and stamps.rs:363 do fire.)                           *)
NoDeath == Orderly => dead = "no"

(* A FIFO that shows a fault is announced: its bit is in the fault register's mask, or the      *)
(* report is on its way, or the guest's resume is about to clear it.                            *)
Announced(f) ==
  \/ f \in fault_mask \cup reporting
  \/ \E i \in DOMAIN fifo_q : fifo_q[i] = Report(f)
  \/ pc["guest"] = "clear" /\ at["guest"] = f
FaultIsShown == Orderly => \A f \in present \cap fault_offset : Announced(f)

(* A paused device is still: no FIFO runs, and no command is pending that could write guest     *)
(* memory or raise an interrupt; nor once a suspend has serialized it.  (Orderly excepts the     *)
(* FifoEnable = 1 that starts the root FIFO of a paused device, root.rs:302.)                    *)
PausedIsStill ==
  /\ Orderly
  /\ run_state = "Paused" \/ pc["host"] \in {"suspended", "resume"}
  => running = {} /\ \A f \in Fifos : head[f] = "none"

(* A stamp's bit is read by the guest, wherever a pause or a suspend comes between it and its   *)
(* interrupt: bits set while the device may not interrupt are announced when it runs again.     *)
(* Again and again no bit is left unread.  Calls that crossed (the drains too) may have hung or  *)
(* died, and promise nothing here or below.                                                      *)
StampIsSeen == []<>(interrupt_stamp = {} \/ crossed # {})

(* A fault a FIFO shows is handled: the guest is interrupted for it, finds it and resumes the    *)
(* FIFO, unless the FIFO goes first.  Again and again no fault is left shown.                    *)
FaultIsHandled == []<>(present \cap fault_offset = {} \/ crossed # {})

(* Every call returns, unless calls crossed: pauses, suspends and deletes wait for threads, for  *)
(* one drain's wake-up, for blocks of the FIFO queue and tasks that wait for none of them.       *)
CallsReturn == []<>(crossed # {} \/ \A a \in Actors : pc[a] = "idle")
=============================================================================
