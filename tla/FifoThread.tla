----------------------------- MODULE FifoThread -----------------------------
(***************************************************************************)
(* One FIFO's ring cursors and thread (crates/reims-vgpu-core/src/fifo/      *)
(* ring.rs and thread.rs) between the guest, which writes commands into the *)
(* ring, and the device, which starts, quiesces, drains and restores it.    *)
(*                                                                          *)
(* The ring is counted in cells: a header is one cell, a barrier list one,  *)
(* a payload any number.  The guest's stream of cells is a history; the     *)
(* ring holds, at each offset, the last cell of the stream written there.   *)
(* Counters are u32 in the code and wrap at CountSpan.                      *)
(*                                                                          *)
(* The stamp queue is used through what it promises (StampQueue): pushed    *)
(* stamps are pending, at most Capacity of them, and leave in order.        *)
(*                                                                          *)
(* The definitions named ..._bug are plausible mistakes in the one they      *)
(* precede, kept to show which property catches each.                        *)
(***************************************************************************)
EXTENDS Integers, Sequences

CONSTANTS
  Kinds,       \* whose rings: a subset of {"root", "child"}
  RingLength,  \* the ring's cells
  CountSpan,   \* the counters wrap here
  Lengths,     \* lengths of the guest's well-formed commands, in cells
  Malformed,   \* the frames of its malformed ones: a subset of {"skip", "fault"}
  Capacity,    \* pending stamps
  MaxCommands, \* bound: commands the guest writes
  MaxPauses    \* bound: times the device quiesces the FIFO

ASSUME FifoThreadAssumption ==
  /\ Kinds \subseteq {"root", "child"} /\ Kinds # {}
  /\ RingLength \in Nat \ {0}
  /\ CountSpan \in Nat /\ CountSpan > RingLength
  /\ Lengths \subseteq 1..RingLength
  /\ Malformed \subseteq {"skip", "fault"}
  /\ Capacity \in Nat \ {0}
  /\ MaxCommands \in Nat /\ MaxPauses \in Nat

VARIABLES
  kind,        \* the kind of this FIFO
  stream,      \* history: the cells the guest has published, in order, while stale = "no"
  unwritten,   \* cells of the guest's current command still to publish
  commands,    \* how many commands the guest has begun
  cut,         \* history: it has published one in part, or a malformed one
  written,     \* the guest's counter: the root's register, the child's node
  read,        \* the published counter: the root's `read', the node's read count
  poke_owed,   \* the guest has written to a child's node and not poked it yet
  read_offset, last_read_offset,                 \* both rings
  pending_advance,                               \* the root's
  read_count, last_read_count, cache_written,    \* the child's
  pc,          \* where the thread is; "off" when there is none
  part, want,  \* the read in progress: which part, and the cells left of it
  command,     \* the header last read
  raised,      \* did the command's barrier wait raise?
  quiesced, running, control, pauses,            \* the device's side
  pending,     \* stamps pushed and not yet published by the stamp queue
  pos,         \* history: cells of the stream consumed, as the cursor stands
  released,    \* history: cells of the stream whose room the guest has back
  stale,       \* history: what was wrong with the first cell copied that was not the next one
               \* published, or "no"; the other histories end there
  ran          \* history: the well-formed commands pushed, in order

guest   == <<kind, stream, unwritten, commands, cut, written, poke_owed>>
cursors == <<read, read_offset, last_read_offset, pending_advance,
             read_count, last_read_count, cache_written>>
reading == <<part, want, command, raised>>
device  == <<quiesced, running, control, pauses>>
history == <<pos, released, stale, ran>>
vars    == <<guest, cursors, pc, reading, device, pending, history>>

-----------------------------------------------------------------------------
(* Commands and cells *)

\* The loop's framing of a header: a length no command can have is skipped, one
\* too short for its barriers is faulted.
Frame(h) ==
  CASE h.length < 1 \/ h.length > RingLength -> "skip"
    [] h.length >= 1 /\ h.length <= RingLength /\ h.length - 1 < h.barriers -> "fault"
    [] OTHER -> "read"

Header(length, barriers, id) ==
  [tag |-> "header", length |-> length, barriers |-> barriers, id |-> id]

\* The guest's headers, well-formed and malformed.
Headers(id) ==
  {h \in {Header(n, b, id) : n \in Lengths, b \in {0, 1}} : Frame(h) = "read"} \cup
  {h \in {Header(0, 0, id), Header(RingLength + 1, 0, id), Header(1, 1, id)} :
     Frame(h) \in Malformed}

Body == [tag |-> "body", length |-> 0, barriers |-> 0, id |-> 0]

\* A command's cells: its header, then its barrier list and payload.
CellsOf(h) ==
  [i \in 1..(IF Frame(h) = "read" THEN h.length ELSE 1) |-> IF i = 1 THEN h ELSE Body]

IsHeader(cell) == cell.tag = "header"

\* The cell at an offset of the ring (from 0): the last one written there, or a
\* zeroed one, whose length of 0 is no command's.
Zeroed == Header(0, 0, 0)

RingCell(offset) ==
  LET there == {p \in 1..Len(stream) : (p - 1) % RingLength = offset} IN
  IF there = {} THEN Zeroed ELSE stream[CHOOSE p \in there : \A q \in there : q <= p]

wrapping_sub(a, b) == (a - b) % CountSpan
wrapping_add(a, b) == (a + b) % CountSpan

Least(a, b) == IF a < b THEN a ELSE b

-----------------------------------------------------------------------------

PCs == {"off", "loop", "read", "parked", "barrier", "advance", "push", "dispatch",
        "rewind", "exit"}

TypeOK ==
  /\ kind \in Kinds
  /\ written \in 0..(CountSpan - 1) /\ read \in 0..(CountSpan - 1)
  /\ read_count \in 0..(CountSpan - 1) /\ last_read_count \in 0..(CountSpan - 1)
  /\ cache_written \in 0..(CountSpan - 1)
  /\ read_offset \in 0..RingLength /\ last_read_offset \in 0..(RingLength - 1)
  /\ pending_advance \in 0..(CountSpan - 1)
  /\ pc \in PCs
  /\ part \in {"header", "barriers", "payload"} /\ want \in 0..RingLength
  /\ {raised, quiesced, running, poke_owed, cut} \subseteq BOOLEAN
  /\ stale \in {"no", "overrun", "astray"}
  /\ control \in {"started", "quiesced", "exited?", "stamps?", "stopped"}
  /\ pauses \in 0..MaxPauses /\ commands \in 0..MaxCommands
  /\ pending \in 0..Capacity

Init ==
  /\ kind \in Kinds
  /\ stream = << >> /\ unwritten = << >> /\ commands = 0 /\ cut = FALSE
  /\ written = 0 /\ read = 0 /\ poke_owed = FALSE
  /\ read_offset = 0 /\ last_read_offset = 0 /\ pending_advance = 0
  /\ read_count = 0 /\ last_read_count = 0 /\ cache_written = 0
  /\ pc = "off"
  /\ part = "header" /\ want = 0 /\ command = Zeroed /\ raised = FALSE
  /\ quiesced = FALSE /\ running = FALSE /\ control = "stopped" /\ pauses = 0
  /\ pending = 0
  /\ pos = 0 /\ released = 0 /\ stale = "no" /\ ran = << >>

-----------------------------------------------------------------------------
(* The guest *)

\* One notify_one on `bytes'.
WakeReader_bug == UNCHANGED pc
WakeReader == pc' = IF pc = "parked" THEN "read" ELSE pc

\* The guest publishes n more cells of its command: a root's register write
\* stores and wakes under the FIFO's lock, a child's node is plain memory.
Publish(cells, n) ==
  /\ stream' = IF stale = "no" THEN stream \o SubSeq(cells, 1, n) ELSE stream
  /\ unwritten' = SubSeq(cells, n + 1, Len(cells))
  /\ written' = wrapping_add(written, n)
  /\ IF kind = "root" THEN WakeReader /\ UNCHANGED poke_owed
                      ELSE poke_owed' = TRUE /\ UNCHANGED pc
  /\ UNCHANGED <<kind, cursors, reading, device, pending, history>>

\* A command is begun when the ring has room for all of it.  Its header comes alone or, a
\* root's, with the rest.
GuestWrites ==
  /\ unwritten = << >> /\ commands < MaxCommands
  /\ \E h \in Headers(commands + 1), whole \in BOOLEAN :
       LET n == IF whole THEN Len(CellsOf(h)) ELSE 1 IN
       /\ whole => kind = "root"
       /\ wrapping_sub(written, read) + Len(CellsOf(h)) <= RingLength
       /\ Publish(CellsOf(h), n)
       /\ cut' = (cut \/ n < Len(CellsOf(h)) \/ Frame(h) # "read")
  /\ commands' = commands + 1

GuestContinues ==
  /\ unwritten # << >>
  /\ Publish(unwritten, 1)
  /\ UNCHANGED <<commands, cut>>

\* The guest's doorbell for a child (wake_fifo on the FIFO queue).
poke ==
  /\ poke_owed
  /\ poke_owed' = FALSE
  /\ WakeReader
  /\ UNCHANGED <<kind, stream, unwritten, commands, cut, written, cursors, reading, device,
                 pending, history>>

-----------------------------------------------------------------------------
(* The thread: reading *)

\* What the ring offers a read of `want' cells.  The root compares with its
\* published counter, whatever this command has consumed; the child with what it
\* has copied, looking at the node only when its cached value falls short.
ChildAvailable_bug(w) == wrapping_sub(w, last_read_count)
ChildAvailable(w) == wrapping_sub(w, read_count)

Reloads == kind = "child" /\ want > ChildAvailable(cache_written)

Available ==
  IF kind = "root" THEN wrapping_sub(written, read)
  ELSE ChildAvailable(IF Reloads THEN written ELSE cache_written)

Reload == cache_written' = IF Reloads THEN written ELSE cache_written

\* The head of the loop: the FIFO quiesced ends it.
LoopHead ==
  /\ pc = "loop"
  /\ \/ quiesced /\ pc' = "rewind" /\ UNCHANGED reading
     \/ /\ ~quiesced
        /\ pc' = "read" /\ part' = "header" /\ want' = 1 /\ raised' = FALSE
        /\ UNCHANGED command
  /\ UNCHANGED <<guest, cursors, device, pending, history>>

\* The histories, when the thread copies count cells: they should be the stream's next ones.
Consumes(count) ==
  LET next == read_offset = pos % RingLength
      published == pos + count <= Len(stream)
      fine == stale = "no" /\ next /\ published
  IN
  /\ stale' = CASE fine -> "no"
               [] stale # "no" -> stale
               [] stale = "no" /\ ~next -> "astray"
               [] stale = "no" /\ next /\ ~published -> "overrun"
  /\ released' = IF stale' = "overrun" THEN 0 ELSE released
  /\ pos' = IF fine THEN pos + count ELSE released'
  /\ ran' = IF fine THEN ran ELSE << >>
  /\ stream' = IF fine THEN stream ELSE << >>

\* What the cell at an offset, read as a header, is taken for: bytes the guest wrote as no
\* header can be skipped, faulted or read.
TakenFor(offset) ==
  IF stale = "no" /\ IsHeader(RingCell(offset)) THEN {RingCell(offset)}
  ELSE {Zeroed, Header(1, 1, 0), Header(RingLength, 0, 0)}

\* An iteration of read_root or read_child that copies.
ReadCopies ==
  /\ pc = "read" /\ ~quiesced
  /\ read_offset # RingLength /\ want > 0 /\ Available > 0
  /\ LET count == Least(Available, Least(want, RingLength - read_offset)) IN
     /\ read_offset' = read_offset + count
     /\ want' = want - count
     /\ IF kind = "root"
        THEN /\ pending_advance' = wrapping_add(pending_advance, count)
             /\ UNCHANGED <<read_count, cache_written>>
        ELSE /\ read_count' = wrapping_add(read_count, count)
             /\ Reload
             /\ UNCHANGED pending_advance
     /\ IF part = "header" THEN command' \in TakenFor(read_offset)
                           ELSE UNCHANGED command
     /\ Consumes(count)
  /\ UNCHANGED <<kind, unwritten, commands, cut, written, poke_owed, read, last_read_offset,
                 last_read_count, pc, part, raised, device, pending>>

ReadWraps ==
  /\ pc = "read" /\ ~quiesced
  /\ read_offset = RingLength
  /\ read_offset' = 0
  /\ UNCHANGED <<guest, read, last_read_offset, pending_advance, read_count,
                 last_read_count, cache_written, pc, reading, device, pending, history>>

\* With the FIFO's lock: nothing to read and not quiesced, so the thread waits.
ReadParks ==
  /\ pc = "read" /\ ~quiesced
  /\ read_offset # RingLength /\ want > 0 /\ Available = 0
  /\ Reload
  /\ pc' = "parked"
  /\ UNCHANGED <<guest, read, read_offset, last_read_offset, pending_advance, read_count,
                 last_read_count, reading, device, pending, history>>

\* A finished read and what follows it: the framing of a header, the payload
\* after the barriers, the barrier wait or the advance after the payload.
ReadDone ==
  /\ pc = "read" /\ ~quiesced
  /\ read_offset # RingLength /\ want = 0
  /\ \/ part = "header" /\ Frame(command) = "skip" /\ pc' = "loop" /\ UNCHANGED <<part, want>>
     \/ part = "header" /\ Frame(command) = "fault" /\ pc' = "push" /\ UNCHANGED <<part, want>>
     \/ /\ part = "header" /\ Frame(command) = "read" /\ command.barriers # 0
        /\ part' = "barriers" /\ want' = 1 /\ UNCHANGED pc
     \/ /\ part = "header" /\ Frame(command) = "read" /\ command.barriers = 0
        /\ part' = "payload" /\ want' = command.length - 1 /\ UNCHANGED pc
     \/ /\ part = "barriers"
        /\ part' = "payload" /\ want' = command.length - 2 /\ UNCHANGED pc
     \/ /\ part = "payload"
        /\ pc' = IF command.barriers # 0 THEN "barrier" ELSE "advance"
        /\ UNCHANGED <<part, want>>
  /\ UNCHANGED <<guest, cursors, command, raised, device, pending, history>>

\* A quiesced read fails, even after its last cell: the barriers' leaves the
\* loop, the others go round to its head.
ReadQuiesced ==
  /\ pc = "read" /\ quiesced
  /\ pc' = IF part = "barriers" THEN "rewind" ELSE "loop"
  /\ UNCHANGED <<guest, cursors, reading, device, pending, history>>

-----------------------------------------------------------------------------
(* The thread: running a command, and its end *)

\* wait_barriers: quiesced, the command is left unconsumed; a raise consumes it.
wait_barriers ==
  /\ pc = "barrier"
  /\ \/ ~quiesced /\ pc' = "advance" /\ UNCHANGED raised
     \/ quiesced /\ pc' = "rewind" /\ UNCHANGED raised
     \/ pc' = "advance" /\ raised' = TRUE
  /\ UNCHANGED <<guest, cursors, part, want, command, device, pending, history>>

advance_bug ==  \* the rewind point is not saved
  /\ pc = "advance"
  /\ pc' = "push"
  /\ read' = IF kind = "root" THEN wrapping_add(read, pending_advance) ELSE read_count
  /\ pending_advance' = 0
  /\ released' = pos
  /\ UNCHANGED <<guest, read_offset, last_read_offset, read_count, last_read_count,
                 cache_written, reading, device, pending, pos, stale, ran>>

advance ==
  /\ pc = "advance"
  /\ pc' = "push"
  /\ read' = IF kind = "root" THEN wrapping_add(read, pending_advance) ELSE read_count
  /\ pending_advance' = 0
  /\ last_read_offset' = read_offset
  /\ last_read_count' = IF kind = "root" THEN last_read_count ELSE read_count
  /\ released' = pos
  /\ UNCHANGED <<guest, read_offset, read_count, cache_written, reading, device, pending,
                 pos, stale, ran>>

\* push_stamp waits for room; what follows is the command's handler, or a fault
\* of the stamp just pushed.
push_stamp ==
  /\ pc = "push" /\ pending < Capacity
  /\ pending' = pending + 1
  /\ ran' = IF Frame(command) = "fault" \/ stale # "no" THEN ran ELSE Append(ran, command.id)
  /\ pc' = IF raised \/ Frame(command) = "fault" THEN "loop" ELSE "dispatch"
  /\ UNCHANGED <<guest, cursors, reading, device, pos, released, stale>>

dispatch ==
  /\ pc = "dispatch" /\ pc' = "loop"
  /\ UNCHANGED <<guest, cursors, reading, device, pending, history>>

\* The handlers complete and the stamp queue publishes a pending stamp.
StampPublished ==
  /\ pending > 0 /\ pending' = pending - 1
  /\ UNCHANGED <<guest, cursors, pc, reading, device, history>>

\* The rewind of the loop's end, outside the FIFO's lock.
rewind_bug ==  \* the cursors stay
  /\ pc = "rewind" /\ pc' = "exit"
  /\ UNCHANGED <<guest, cursors, reading, device, pending, history>>

rewind ==
  /\ pc = "rewind" /\ pc' = "exit"
  /\ read_offset' = last_read_offset
  /\ pending_advance' = 0
  /\ read_count' = IF kind = "root" THEN read_count ELSE last_read_count
  /\ pos' = released
  /\ UNCHANGED <<guest, read, last_read_offset, last_read_count, cache_written, reading,
                 device, pending, released, stale, ran>>

\* With the lock: the ring unmapped, running cleared, a waiting drain woken.
ThreadExits ==
  /\ pc = "exit" /\ pc' = "off"
  /\ running' = FALSE
  /\ control' = IF control = "exited?" THEN "stamps?" ELSE control
  /\ UNCHANGED <<guest, cursors, reading, quiesced, pauses, pending, history>>

-----------------------------------------------------------------------------
(* The device *)

\* quiesce wakes no one.
quiesce ==
  /\ control = "started" /\ pauses < MaxPauses
  /\ quiesced' = TRUE /\ control' = "quiesced" /\ pauses' = pauses + 1
  /\ UNCHANGED <<guest, cursors, pc, reading, running, pending, history>>

\* drain, first half: with the lock, a running thread is woken from its wait for
\* bytes, and the drain waits once for the thread's exit.
drain_bug ==  \* the exit is not waited for
  /\ control = "quiesced"
  /\ control' = "stamps?" /\ WakeReader
  /\ UNCHANGED <<guest, cursors, reading, quiesced, running, pauses, pending, history>>

drain ==
  /\ control = "quiesced"
  /\ IF running THEN WakeReader /\ control' = "exited?"
                ELSE control' = "stamps?" /\ UNCHANGED pc
  /\ UNCHANGED <<guest, cursors, reading, quiesced, running, pauses, pending, history>>

\* drain, second half: the stamp queue's drain.
DrainReturns ==
  /\ control = "stamps?" /\ pending = 0
  /\ control' = "stopped"
  /\ UNCHANGED <<guest, cursors, pc, reading, quiesced, running, pauses, pending, history>>

\* The cursor at the published counter's offset.
CursorAtRead ==
  read_offset' = read % RingLength /\ last_read_offset' = read % RingLength

\* The root's ring is always mapped; a child maps its pages at each start and
\* takes its cursor from the node's counter.  (Pages that cannot be mapped refuse
\* the start and change nothing.)
map_ring ==
  IF kind = "root" THEN UNCHANGED <<read_offset, last_read_offset>> ELSE CursorAtRead

start ==
  /\ control = "stopped"
  /\ map_ring
  /\ control' = "started" /\ quiesced' = FALSE /\ running' = TRUE /\ pc' = "loop"
  /\ UNCHANGED <<guest, read, pending_advance, read_count, last_read_count, cache_written,
                 reading, pauses, pending, history>>

\* A restored child takes its counters from its node.
init_from_node ==
  /\ read_offset' = 0 /\ last_read_offset' = 0
  /\ read_count' = read /\ last_read_count' = read /\ cache_written' = written

\* A restored root takes them from the saved registers.
set_root_read == CursorAtRead /\ UNCHANGED <<read_count, last_read_count, cache_written>>

\* A suspend and a resume: the FIFO is dropped and made again.
Restored ==
  /\ control = "stopped" /\ quiesced
  /\ quiesced' = FALSE
  /\ pending_advance' = 0
  /\ IF kind = "root" THEN set_root_read ELSE init_from_node
  /\ UNCHANGED <<guest, read, pc, reading, running, control, pauses, pending, history>>

Thread ==
  \/ LoopHead \/ ReadCopies \/ ReadWraps \/ ReadParks \/ ReadDone \/ ReadQuiesced
  \/ wait_barriers \/ advance \/ push_stamp \/ dispatch \/ rewind \/ ThreadExits

Next ==
  \/ GuestWrites \/ GuestContinues \/ poke
  \/ Thread
  \/ StampPublished
  \/ quiesce \/ drain \/ DrainReturns \/ start \/ Restored

Spec == Init /\ [][Next]_vars

\* The thread runs on, the guest finishes and announces what it began, stamps
\* are published, and whoever quiesces the FIFO goes on to drain and start it.
Fairness ==
  /\ WF_vars(Thread) /\ WF_vars(StampPublished)
  /\ WF_vars(GuestContinues) /\ WF_vars(poke)
  /\ WF_vars(drain) /\ WF_vars(DrainReturns) /\ WF_vars(start)

FairSpec == Spec /\ Fairness

-----------------------------------------------------------------------------
(* Properties *)

\* The well-formed commands of the first n cells of the stream; the guest numbers its commands.
CommandsIn(n) ==
  {stream[p].id : p \in {q \in 1..Least(n, Len(stream)) :
                          IsHeader(stream[q]) /\ Frame(stream[q]) = "read"}}

\* Each of these commands once, and in the order written.
InOrder(ids, due) ==
  /\ \A i, j \in DOMAIN ids : i < j => ids[i] < ids[j]
  /\ {ids[i] : i \in DOMAIN ids} = due

\* A cursor taken from the wrapped counter (set_read, map_child_ring) is the stream's only
\* while the counter has not wrapped, or if the ring's length divides its span.
Wrapped == released >= CountSpan /\ CountSpan % RingLength # 0

\* The thread copies cells the guest has published, each from where the guest put it, across
\* wraps of the ring and of the counters, quiesces, rewinds, restarts and restores, with two
\* exceptions the code has.  "The root reads past `written' once `written != read'"
\* (fifo/tests.rs, never_waits_inside_a_command), so past a command published in part and,
\* a malformed one being consumed and not advanced over, past that.  And a restart of a
\* ring whose length does not divide 2^32 takes the wrong offset once the counter has wrapped
\* (read_root, read_child, rewind, map_child_ring, set_read).
OnlyPublishedCellsRead ==
  /\ stale = "overrun" => kind = "root" /\ cut
  /\ stale = "astray" => Wrapped

\* Until such a copy, well-formed commands run once each and in the order written: what has
\* been pushed is exactly what the guest has its room back for, but for a command that is
\* between its advance and its push.
RunOnceInOrder ==
  LET due == CommandsIn(released) IN
  stale = "no" =>
    \/ InOrder(ran, due)
    \/ pc = "push" /\ Frame(command) = "read" /\ InOrder(Append(ran, command.id), due)

\* Until such a copy, the published counter stands for a boundary between commands, never past
\* what the guest has written, and a restart reads on from it: from its cell, or from the one
\* the wrapped counter gives (advance, rewind, map_child_ring, set_read).
ReleasedAtBoundary ==
  stale = "no" =>
    /\ read = released % CountSpan
    /\ released <= pos /\ released <= Len(stream)
    /\ \/ control = "stopped"
       \/ last_read_offset = released % RingLength
       \/ last_read_offset = read % RingLength /\ Wrapped
    /\ released < Len(stream) => IsHeader(stream[released + 1])

\* When a drain has got past its wait for the exit the thread is gone, though that wait has no
\* predicate, and it stays gone until the next start (drain).
DrainedMeansStopped ==
  control \in {"stamps?", "stopped"} => pc = "off" /\ ~running

\* Every command the guest finishes writing is run or, malformed, passed over,
\* whatever pauses come between, until a cell is copied that is not the next one published.
EveryCommandRuns ==
  \A n \in 1..MaxCommands :
    n \in CommandsIn(Len(stream)) ~> stale # "no" \/ \E i \in DOMAIN ran : ran[i] = n

\* A drain returns, whatever the thread is reading.
DrainEnds == (control = "quiesced") ~> (control = "stopped")
=============================================================================
