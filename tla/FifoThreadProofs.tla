-------------------------- MODULE FifoThreadProofs --------------------------
(***************************************************************************)
(* Proofs about a FIFO's ring and thread, for every ring, span of the       *)
(* counters, set of lengths and number of commands and pauses: until the    *)
(* thread copies cells that are not the next ones published, what it        *)
(* releases is a boundary between commands and it runs every command once   *)
(* and in order; it copies such cells only from a root's ring that was      *)
(* published a command in part or a malformed one, or after a restart from  *)
(* a wrapped counter that the ring's length does not divide (map_child_ring *)
(* and set_read in ring.rs); and a drain that returns has stopped it.       *)
(***************************************************************************)
EXTENDS FifoThread, ModularCounters, SequenceTheorems

Cell == [tag : {"header", "body"}, length : Nat, barriers : Nat, id : Nat]

\* The cells a header stands for.
Size(h) == IF Frame(h) = "read" THEN h.length ELSE 1

\* The types, by who writes what.
GuestTyped ==
  /\ kind \in Kinds /\ stream \in Seq(Cell) /\ unwritten \in Seq(Cell)
  /\ commands \in 0..MaxCommands /\ written \in 0..(CountSpan - 1)
  /\ poke_owed \in BOOLEAN /\ cut \in BOOLEAN
CursorTyped ==
  /\ read \in 0..(CountSpan - 1) /\ read_count \in 0..(CountSpan - 1)
  /\ last_read_count \in 0..(CountSpan - 1) /\ cache_written \in 0..(CountSpan - 1)
  /\ pending_advance \in 0..(CountSpan - 1)
  /\ read_offset \in 0..RingLength /\ last_read_offset \in 0..(RingLength - 1)
ThreadTyped ==
  /\ pc \in PCs /\ part \in {"header", "barriers", "payload"} /\ want \in 0..RingLength
  /\ command \in Cell /\ raised \in BOOLEAN
DeviceTyped ==
  /\ quiesced \in BOOLEAN /\ running \in BOOLEAN /\ pauses \in 0..MaxPauses
  /\ control \in {"started", "quiesced", "exited?", "stamps?", "stopped"}
  /\ pending \in 0..Capacity
Typed == GuestTyped /\ CursorTyped /\ ThreadTyped /\ DeviceTyped /\ pos \in Nat /\ released \in Nat

\* The guest's stream is one command after another, the last perhaps not yet whole.
StreamInv ==
  /\ Len(stream) > 0 => IsHeader(stream[1])
  /\ \A p \in 1..Len(stream) : IsHeader(stream[p]) =>
       /\ p + Size(stream[p]) <= Len(stream) => IsHeader(stream[p + Size(stream[p])])
       /\ p + Size(stream[p]) > Len(stream) =>
            p + Size(stream[p]) - 1 = Len(stream) + Len(unwritten)
       /\ kind = "root" /\ ~cut => Frame(stream[p]) = "read"
  /\ kind = "root" /\ ~cut => unwritten = << >>
  /\ \A i \in 1..Len(unwritten) : ~IsHeader(unwritten[i])

\* A command has ended after p cells, and what follows, if anything, is a header.
Boundary(p) ==
  /\ p <= Len(stream)
  /\ p < Len(stream) => IsHeader(stream[p + 1])
  /\ p = Len(stream) => unwritten = << >>

\* The wrapped counters stand for the cells written, consumed and released.
CountInv ==
  /\ written = Len(stream) % CountSpan /\ read = released % CountSpan
  /\ released <= pos /\ pos <= Len(stream)
  /\ Len(stream) + Len(unwritten) <= released + RingLength
  /\ Boundary(released)
  /\ kind = "root" => pending_advance = pos - released
  /\ kind = "child" =>
       /\ read_count = pos % CountSpan /\ last_read_count = released % CountSpan
       /\ \E c \in pos..Len(stream) : cache_written = c % CountSpan

\* The cursors stand at their cells of the ring, or both where a restart has just put them, at the
\* wrapped counter's; a stopped child's are set when it starts.
InPlace ==
  /\ last_read_offset = released % RingLength
  /\ \/ read_offset = pos % RingLength
     \/ read_offset = RingLength /\ pos % RingLength = 0
Restarted ==
  last_read_offset = read % RingLength /\ read_offset = read % RingLength /\ pos = released
OffsetInv == kind = "root" \/ control # "stopped" => InPlace \/ Restarted

\* Inside a command: the header last read stands where its command began.
Rest == IF part = "barriers" THEN command.length - 2 ELSE 0
First == pos + want + Rest - command.length + 1
Inside ==
  /\ First \in 1..pos /\ stream[First] = command /\ IsHeader(command) /\ Frame(command) = "read"
  /\ part = "barriers" => command.barriers # 0
  /\ kind = "root" /\ ~cut => First = released + 1

\* Between commands: a root that was published only whole ones has released what it consumed.
Between == Boundary(pos) /\ (kind = "root" /\ ~cut => pos = released)

PlaceInv ==
  /\ pc \in {"off", "exit"} => pos = released
  /\ pc \in {"loop", "dispatch"} => quiesced \/ Between
  /\ pc \in {"read", "parked"} =>
       \/ part = "header" /\ want = 1 /\ Between
       \/ /\ part = "header" /\ want = 0 /\ pos >= 1 /\ command = stream[pos] /\ IsHeader(command)
          /\ kind = "root" /\ ~cut => pos = released + 1
       \/ part \in {"barriers", "payload"} /\ Inside
  /\ pc \in {"barrier", "advance"} =>
       Frame(command) = "read" /\ Boundary(pos) /\ read_offset # RingLength
  /\ pc = "push" => Between

ControlInv ==
  /\ running <=> pc # "off"
  /\ control \in {"stamps?", "stopped"} => pc = "off"

\* While every cell copied was the next one published.
Orderly ==
  /\ Typed /\ StreamInv /\ CountInv /\ OffsetInv /\ PlaceInv /\ ControlInv
  /\ stale = "no"

\* Before and after: a command with barriers has room for them, and a command read whole leaves
\* the cursor inside the ring.
PartInv ==
  /\ pc \in {"read", "parked"} /\ part = "barriers" => Frame(command) = "read" /\ command.barriers # 0
  /\ pc \in {"barrier", "advance"} => read_offset # RingLength

\* After, the histories stand still.
StaleInv ==
  /\ stale \in {"no", "overrun", "astray"}
  /\ OnlyPublishedCellsRead
  /\ stale # "no" => pos = released

IInv == Typed /\ ControlInv /\ PartInv /\ StaleInv /\ (stale = "no" => Orderly)

\* A cell that is the header of a command the thread runs.
Runs(cell) == IsHeader(cell) /\ Frame(cell) = "read"

\* A command's other cells are no headers, and the guest numbers its commands as it writes them.
BodyInv ==
  \A p, q \in 1..Len(stream) :
    IsHeader(stream[p]) /\ p < q /\ q < p + Size(stream[p]) => ~IsHeader(stream[q])
IdInv ==
  \A q \in 1..Len(stream) : IsHeader(stream[q]) =>
    /\ stream[q].id \in 1..commands
    /\ \A p \in 1..(q - 1) : IsHeader(stream[p]) => stream[p].id < stream[q].id

\* What was consumed since the last release, up to p, holds nothing to run.
Passed(p) == \A q \in (released + 1)..p : ~Runs(stream[q])

\* Where a command all of whose cells are read began.
Began == pos - command.length + 1

\* Only the command in hand is consumed and not yet released, unless it is about to be rewound.
OpenInv ==
  /\ pc \in {"loop", "dispatch"} => quiesced \/ Passed(pos)
  /\ pc \in {"read", "parked"} =>
       \/ part = "header" /\ want = 1 /\ Passed(pos)
       \/ part = "header" /\ want = 0 /\ pos > released /\ Passed(pos - 1)
       \/ part \in {"barriers", "payload"} /\ First > released /\ Passed(First - 1)
  /\ pc \in {"barrier", "advance"} =>
       /\ Began \in (released + 1)..pos /\ stream[Began] = command /\ Runs(command)
       /\ Passed(Began - 1)
  /\ pc = "push" => Frame(command) \in {"fault", "read"} /\ Passed(pos)

\* What has run, with the command that is between its advance and its push.
RanInv ==
  /\ ran \in Seq(Nat)
  /\ IF pc = "push" /\ Frame(command) = "read"
     THEN InOrder(Append(ran, command.id), CommandsIn(released))
     ELSE InOrder(ran, CommandsIn(released))

RunInv == BodyInv /\ IdInv /\ OpenInv /\ RanInv

-----------------------------------------------------------------------------
(* Arithmetic of the ring *)

\* What the assumption says of the constants.
LEMMA Sizes ==
  /\ RingLength \in Nat \ {0} /\ CountSpan \in Nat \ {0} /\ CountSpan > RingLength
  /\ Capacity \in Nat \ {0} /\ MaxCommands \in Nat /\ MaxPauses \in Nat
  /\ Kinds \subseteq {"root", "child"} /\ Lengths \subseteq 1..RingLength
  BY FifoThreadAssumption

\* A number below the modulus is its own remainder.
LEMMA SmallModulo ==
  ASSUME NEW n \in Nat \ {0}, NEW a \in 0..(n - 1)
  PROVE  a % n = a
  BY Z3

\* A cursor that moves on by c cells without passing the ring's end.
LEMMA CursorMoves ==
  ASSUME NEW p \in Nat, NEW c \in Nat, (p % RingLength) + c <= RingLength
  PROVE  \/ (p % RingLength) + c = (p + c) % RingLength
         \/ (p % RingLength) + c = RingLength /\ (p + c) % RingLength = 0
<1> DEFINE o == p % RingLength
           q == p \div RingLength
<1>1. RingLength \in Nat \ {0} /\ p \in Int /\ p + c \in Int
  BY Sizes
<1>2. p = RingLength * q + o /\ o \in 0..(RingLength - 1) /\ q \in Int
  BY <1>1, DivMod
<1> HIDE DEF o, q
<1>3. CASE o + c < RingLength
  <2> DEFINE r == o + c
             a == p + c
  <2>1. r \in 0..(RingLength - 1) /\ a = RingLength * q + r /\ a \in Int
    BY <1>1, <1>2, <1>3
  <2> HIDE DEF r, a
  <2>2. a % RingLength = r
    BY <1>1, <1>2, <2>1, ModUnique, Zenon
  <2> QED
    BY <2>2 DEF o, r, a
<1>4. CASE o + c = RingLength
  <2>1. 0 \in 0..(RingLength - 1) /\ p + c = RingLength * (q + 1) + 0 /\ q + 1 \in Int
    <3>1. RingLength * (q + 1) = RingLength * q + RingLength
      BY <1>1, <1>2, Z3
    <3> QED
      BY <1>1, <1>2, <1>4, <3>1
  <2>2. (p + c) % RingLength = 0
    BY <1>1, <2>1, ModUnique, Zenon
  <2> QED
    BY <1>4, <2>2 DEF o
<1>5. o + c <= RingLength
  BY DEF o
<1> QED
  BY <1>1, <1>2, <1>3, <1>4, <1>5

\* The cell after p, while no later one has been written over it.
LEMMA CellThere ==
  ASSUME stream \in Seq(Cell), NEW p \in Nat, p < Len(stream), Len(stream) <= p + RingLength
  PROVE  RingCell(p % RingLength) = stream[p + 1]
<1> DEFINE there == {q \in 1..Len(stream) : (q - 1) % RingLength = p % RingLength}
           best == CHOOSE q \in there : \A r \in there : r <= q
<1>1. Len(stream) \in Nat /\ RingLength \in Nat \ {0}
  BY Sizes
<1>2. p + 1 \in there
  <2>1. p + 1 \in 1..Len(stream) /\ (p + 1) - 1 = p
    BY <1>1
  <2> QED
    BY <2>1
<1>3. \A q \in there : q <= p + 1
  <2> SUFFICES ASSUME NEW q \in there, q > p + 1 PROVE FALSE
    BY <1>1
  <2> DEFINE a == q - 1
  <2>1. a \in Int /\ p \in Int /\ a - p < RingLength /\ p - a < RingLength /\ a # p
    BY <1>1
  <2>2. a % RingLength = p % RingLength
    OBVIOUS
  <2> HIDE DEF a, there
  <2> QED
    BY <1>1, <2>1, <2>2, RingDistinct, Zenon
<1>4. best \in there /\ \A r \in there : r <= best
  <2> HIDE DEF there
  <2> QED
    BY <1>2, <1>3
<1>5. best = p + 1
  BY <1>1, <1>2, <1>3, <1>4
<1>6. RingCell(p % RingLength) = stream[best]
  BY <1>2 DEF RingCell
<1> QED
  BY <1>5, <1>6

-----------------------------------------------------------------------------
(* Frames, headers and what the guest publishes *)

\* A header is skipped, faulted or read, and the size it takes up fits in the ring.
LEMMA FrameFacts ==
  ASSUME NEW h \in Cell
  PROVE  /\ Frame(h) \in {"skip", "fault", "read"}
         /\ Frame(h) = "read" => h.length \in 1..RingLength /\ h.barriers <= h.length - 1
         /\ Size(h) \in 1..RingLength
<1>1. h.length \in Nat /\ h.barriers \in Nat /\ RingLength \in Nat \ {0}
  BY Sizes DEF Cell
<1> QED
  BY <1>1 DEF Frame, Size

\* The headers a guest writes are header cells.
LEMMA HeaderFacts ==
  ASSUME NEW id \in Nat, NEW h \in Headers(id)
  PROVE  h \in Cell /\ IsHeader(h)
<1>1. \A n \in Nat, b \in Nat : Header(n, b, id) \in Cell /\ IsHeader(Header(n, b, id))
  BY DEF Header, Cell, IsHeader
<1>2. Lengths \subseteq Nat /\ RingLength + 1 \in Nat
  BY Sizes
<1>3. \/ h \in {Header(n, b, id) : n \in Lengths, b \in {0, 1}}
      \/ h \in {Header(0, 0, id), Header(RingLength + 1, 0, id), Header(1, 1, id)}
  BY DEF Headers
<1> QED
  BY <1>1, <1>2, <1>3

\* A command's cells are as many as its size says, the header first and no other header among them.
LEMMA CellsFacts ==
  ASSUME NEW h \in Cell, IsHeader(h)
  PROVE  /\ CellsOf(h) \in Seq(Cell) /\ Len(CellsOf(h)) = Size(h) /\ CellsOf(h)[1] = h
         /\ \A i \in 2..Size(h) : ~IsHeader(CellsOf(h)[i])
<1>1. Body \in Cell /\ ~IsHeader(Body)
  BY DEF Body, Cell, IsHeader
<1>2. Size(h) \in Nat \ {0}
  BY FrameFacts
<1>3. CellsOf(h) = [i \in 1..Size(h) |-> IF i = 1 THEN h ELSE Body]
  BY DEF CellsOf, Size
<1> QED
  BY <1>1, <1>2, <1>3

\* Publishing n cells moves them, in order, from what is unwritten to the end of the stream.
LEMMA PublishFacts ==
  ASSUME stale = "no", stream \in Seq(Cell), NEW cells \in Seq(Cell), NEW n \in 0..Len(cells),
         Publish(cells, n)
  PROVE  /\ stream' \in Seq(Cell) /\ unwritten' \in Seq(Cell)
         /\ Len(stream') = Len(stream) + n /\ Len(unwritten') = Len(cells) - n
         /\ \A k \in 1..Len(stream) : stream'[k] = stream[k]
         /\ \A k \in 1..n : stream'[Len(stream) + k] = cells[k]
         /\ \A k \in 1..(Len(cells) - n) : unwritten'[k] = cells[n + k]
<1>1. Len(cells) \in Nat /\ Len(stream) \in Nat /\ n \in Nat /\ \A i \in 1..Len(cells) : cells[i] \in Cell
  BY ElementOfSeq
<1> DEFINE new == SubSeq(cells, 1, n)
           left == SubSeq(cells, n + 1, Len(cells))
<1>2. stream' = stream \o new /\ unwritten' = left
  BY DEF Publish
<1>3. new \in Seq(Cell) /\ Len(new) = n /\ \A i \in 1..n : new[i] = cells[i]
  <2>1. 1 \in Int /\ n \in Int /\ \A i \in 1..n : cells[i] \in Cell
    BY <1>1
  <2>2. /\ new \in Seq(Cell) /\ Len(new) = IF 1 <= n THEN n - 1 + 1 ELSE 0
        /\ \A i \in 1..(n - 1 + 1) : new[i] = cells[1 + i - 1]
    BY <2>1, SubSeqProperties
  <2> HIDE DEF new
  <2> QED
    BY <1>1, <2>2
<1>4. left \in Seq(Cell) /\ Len(left) = Len(cells) - n /\ \A i \in 1..(Len(cells) - n) : left[i] = cells[n + i]
  <2>1. n + 1 \in Int /\ Len(cells) \in Int /\ \A i \in (n + 1)..Len(cells) : cells[i] \in Cell
    BY <1>1
  <2>2. /\ left \in Seq(Cell) /\ Len(left) = IF n + 1 <= Len(cells) THEN Len(cells) - (n + 1) + 1 ELSE 0
        /\ \A i \in 1..(Len(cells) - (n + 1) + 1) : left[i] = cells[n + 1 + i - 1]
    BY <2>1, SubSeqProperties
  <2> HIDE DEF left
  <2> QED
    BY <1>1, <2>2
<1> HIDE DEF new, left
<1>5. /\ stream' \in Seq(Cell) /\ Len(stream') = Len(stream) + n
      /\ \A i \in 1..(Len(stream) + n) :
           stream'[i] = IF i <= Len(stream) THEN stream[i] ELSE new[i - Len(stream)]
  BY <1>1, <1>2, <1>3, ConcatProperties
<1>6. \A k \in 1..n : stream'[Len(stream) + k] = cells[k]
  <2> SUFFICES ASSUME NEW k \in 1..n PROVE stream'[Len(stream) + k] = cells[k]
    OBVIOUS
  <2>1. /\ Len(stream) + k \in 1..(Len(stream) + n) /\ ~(Len(stream) + k <= Len(stream))
        /\ (Len(stream) + k) - Len(stream) = k
    BY <1>1
  <2>2. stream'[Len(stream) + k] = new[(Len(stream) + k) - Len(stream)]
    BY <1>5, <2>1
  <2> QED
    BY <1>3, <2>1, <2>2
<1> QED
  BY <1>1, <1>2, <1>4, <1>5, <1>6

-----------------------------------------------------------------------------
(* What keeps the parts of the invariant *)

\* The counters' differences are the cells between, none being further apart than the ring.
LEMMA Differences ==
  ASSUME Typed, CountInv
  PROVE  /\ Len(stream) \in Nat /\ Len(unwritten) \in Nat
         /\ wrapping_sub(written, read) = Len(stream) - released
         /\ \A c \in pos..Len(stream) : ((c % CountSpan) - (pos % CountSpan)) % CountSpan = c - pos
         /\ Len(stream) - released <= RingLength
<1>1. /\ Len(stream) \in Nat /\ Len(unwritten) \in Nat /\ released \in Nat /\ pos \in Nat
      /\ CountSpan \in Nat \ {0} /\ RingLength < CountSpan /\ RingLength \in Nat
  BY Sizes DEF Typed, GuestTyped
<1>2. /\ released <= pos /\ pos <= Len(stream) /\ Len(stream) - released <= RingLength
      /\ Len(stream) - released < CountSpan
  BY <1>1 DEF CountInv
<1>3. ((Len(stream) % CountSpan) - (released % CountSpan)) % CountSpan = Len(stream) - released
  <2>1. Len(stream) \in Int /\ released \in Int /\ released <= Len(stream)
    BY <1>1, <1>2
  <2> QED
    BY <1>1, <1>2, <2>1, WrappingSub, Zenon
<1>4. ASSUME NEW c \in pos..Len(stream)
      PROVE  ((c % CountSpan) - (pos % CountSpan)) % CountSpan = c - pos
  <2>1. c \in Int /\ pos \in Int /\ pos <= c /\ c - pos < CountSpan
    BY <1>1, <1>2
  <2> QED
    BY <1>1, <2>1, WrappingSub, Zenon
<1> QED
  BY <1>1, <1>2, <1>3, <1>4 DEF CountInv, wrapping_sub

\* Boundaries and the stream's shape, when the guest publishes nothing.
LEMMA SameStream ==
  ASSUME UNCHANGED <<kind, stream, unwritten, cut>>
  PROVE  (StreamInv => StreamInv') /\ \A p : Boundary(p)' <=> Boundary(p)
  BY DEF StreamInv, Boundary

\* The end of a command is a boundary.
LEMMA CommandEnds ==
  ASSUME Typed, StreamInv, CountInv, NEW p \in 1..pos, IsHeader(stream[p]),
         p + Size(stream[p]) - 1 = pos
  PROVE  Boundary(pos)
<1>1. Len(stream) \in Nat /\ Len(unwritten) \in Nat /\ pos \in Nat /\ pos <= Len(stream)
  BY Differences DEF Typed, CountInv
<1>2. p \in 1..Len(stream) /\ stream[p] \in Cell
  BY <1>1, ElementOfSeq DEF Typed, GuestTyped
<1>3. Size(stream[p]) \in Nat
  BY <1>2, FrameFacts, Sizes
<1>4. p + Size(stream[p]) = pos + 1
  BY <1>1, <1>3
<1>5. /\ pos + 1 <= Len(stream) => IsHeader(stream[pos + 1])
      /\ pos + 1 > Len(stream) => pos = Len(stream) + Len(unwritten)
  <2>1. /\ p + Size(stream[p]) <= Len(stream) => IsHeader(stream[p + Size(stream[p])])
        /\ p + Size(stream[p]) > Len(stream) =>
             p + Size(stream[p]) - 1 = Len(stream) + Len(unwritten)
    BY <1>2 DEF StreamInv
  <2> QED
    BY <1>4, <2>1
<1>6. pos = Len(stream) => Len(unwritten) = 0
  BY <1>1, <1>5
<1>7. Len(unwritten) = 0 => unwritten = << >>
  BY EmptySeq DEF Typed, GuestTyped
<1> QED
  BY <1>1, <1>5, <1>6, <1>7 DEF Boundary

\* A step of the thread or the device that leaves the guest's and the counters' state alone.
LEMMA StillKeeps ==
  ASSUME Orderly, UNCHANGED <<guest, cursors, pos, released, stale>>, ThreadTyped', DeviceTyped',
         control = "stopped" => control' = "stopped",
         PlaceInv', ControlInv'
  PROVE  Orderly'
<1>1. GuestTyped' /\ CursorTyped' /\ pos' \in Nat /\ released' \in Nat /\ stale' = "no"
  BY DEF Orderly, Typed, GuestTyped, CursorTyped, guest, cursors
<1>2. UNCHANGED <<kind, stream, unwritten, cut>>
  BY DEF guest
<1>3. StreamInv' /\ \A p : Boundary(p)' <=> Boundary(p)
  BY <1>2, SameStream DEF Orderly
<1>4. CountInv'
  BY <1>3 DEF Orderly, CountInv, guest, cursors
<1>5. OffsetInv'
  BY DEF Orderly, OffsetInv, InPlace, Restarted, guest, cursors
<1> QED
  BY <1>1, <1>3, <1>4, <1>5 DEF Orderly, Typed

\* A thread that stays where it is, or is woken.
LEMMA SamePlace ==
  ASSUME PlaceInv, UNCHANGED <<guest, cursors, reading, pos, released>>, quiesced => quiesced',
         pc' = pc \/ (pc = "parked" /\ pc' = "read")
  PROVE  PlaceInv'
<1>1. /\ UNCHANGED <<kind, stream, unwritten, cut, read_offset, part, want, command, pos, released>>
  BY DEF guest, cursors, reading
<1>2. \A p : Boundary(p)' <=> Boundary(p)
  BY <1>1, SameStream
<1>3. (Between' <=> Between) /\ (Inside' <=> Inside)
  BY <1>1, <1>2 DEF Between, Inside, First, Rest
<1> QED
  BY <1>1, <1>2, <1>3 DEF PlaceInv

-----------------------------------------------------------------------------
(* The steps *)

\* Steps of the device, the host and the stamp queue that leave the ring and the cursors alone.
LEMMA DeviceStill ==
  ASSUME Orderly, StampPublished \/ quiesce \/ drain \/ DrainReturns
  PROVE  Orderly'
<1>1. ThreadTyped /\ DeviceTyped /\ PlaceInv /\ ControlInv
  BY DEF Orderly, Typed
<1>2. UNCHANGED <<guest, cursors, reading, pos, released, stale, running>>
  BY DEF StampPublished, quiesce, drain, DrainReturns, device, history
<1>3. /\ pc' = pc \/ (pc = "parked" /\ pc' = "read")
      /\ quiesced => quiesced'
      /\ quiesced' \in BOOLEAN
  BY <1>1 DEF StampPublished, quiesce, drain, DrainReturns, device, WakeReader, DeviceTyped
<1>4. ThreadTyped'
  BY <1>1, <1>2, <1>3 DEF ThreadTyped, reading, PCs
<1>5. DeviceTyped'
  <2>1. pauses' \in 0..MaxPauses
    BY <1>1, Sizes DEF DeviceTyped, StampPublished, quiesce, drain, DrainReturns, device
  <2>2. pending' \in 0..Capacity
    BY <1>1, Sizes DEF DeviceTyped, StampPublished, quiesce, drain, DrainReturns
  <2>3. control' \in {"started", "quiesced", "exited?", "stamps?", "stopped"}
    BY <1>1 DEF DeviceTyped, StampPublished, quiesce, drain, DrainReturns, device
  <2>4. running' \in BOOLEAN
    BY <1>1, <1>2 DEF DeviceTyped
  <2> QED
    BY <1>3, <2>1, <2>2, <2>3, <2>4 DEF DeviceTyped
<1>6. ControlInv'
  BY <1>1, <1>2, <1>3 DEF ControlInv, StampPublished, quiesce, drain, DrainReturns, device
<1>7. control = "stopped" => control' = "stopped"
  BY DEF StampPublished, quiesce, drain, DrainReturns, device
<1> QED
  BY <1>1, <1>2, <1>3, <1>4, <1>5, <1>6, <1>7, SamePlace, StillKeeps

\* Steps of the thread that leave the ring and the cursors alone.
LEMMA ThreadStill ==
  ASSUME Orderly, LoopHead \/ ReadDone \/ ReadQuiesced \/ wait_barriers \/ push_stamp \/ dispatch
  PROVE  Orderly'
<1>1. ThreadTyped /\ DeviceTyped /\ PlaceInv /\ ControlInv /\ CountInv /\ StreamInv /\ Typed
  BY DEF Orderly, Typed
<1>2. UNCHANGED <<guest, cursors, device, pos, released, stale>>
  BY DEF LoopHead, ReadDone, ReadQuiesced, wait_barriers, push_stamp, dispatch, history
<1>3. UNCHANGED <<kind, stream, unwritten, cut, read_offset, quiesced, running, control, pauses>>
  BY <1>2 DEF guest, cursors, device
<1>4. \A p : Boundary(p)' <=> Boundary(p)
  BY <1>3, SameStream
<1>5. Between' <=> Between
  BY <1>2, <1>3, <1>4 DEF Between
<1>6. DeviceTyped'
  BY <1>1, <1>3, Sizes
     DEF DeviceTyped, LoopHead, ReadDone, ReadQuiesced, wait_barriers, push_stamp, dispatch
<1>7. ControlInv'
  <2>1. pc # "off" /\ pc' # "off"
    BY DEF LoopHead, ReadDone, ReadQuiesced, wait_barriers, push_stamp, dispatch
  <2> QED
    BY <1>1, <1>3, <2>1 DEF ControlInv
<1>8. pos \in Nat /\ released \in Nat /\ RingLength \in Nat \ {0} /\ command \in Cell
  BY <1>1, Sizes DEF Typed, ThreadTyped
<1>9. SUFFICES ThreadTyped' /\ PlaceInv'
  BY <1>2, <1>3, <1>6, <1>7, StillKeeps
<1>10. CASE LoopHead
  <2>1. ThreadTyped'
    <3>1. raised' \in BOOLEAN /\ command' = command
      BY <1>1, <1>10 DEF LoopHead, ThreadTyped, reading
    <3>2. pc' \in PCs /\ part' \in {"header", "barriers", "payload"} /\ want' \in 0..RingLength
      BY <1>1, <1>8, <1>10 DEF LoopHead, ThreadTyped, PCs, reading
    <3> QED
      BY <1>1, <3>1, <3>2 DEF ThreadTyped
  <2>2. PlaceInv'
    BY <1>1, <1>3, <1>5, <1>10 DEF LoopHead, PlaceInv
  <2> QED
    BY <2>1, <2>2
<1>11. CASE ReadDone
  <2>1. /\ pc = "read" /\ ~quiesced /\ read_offset # RingLength /\ want = 0
        /\ UNCHANGED <<command, raised>>
    BY <1>11 DEF ReadDone
  <2>2. CASE part = "header"
    <3>1. pos >= 1 /\ command = stream[pos] /\ IsHeader(command)
          /\ (kind = "root" /\ ~cut => pos = released + 1)
      BY <1>1, <2>1, <2>2 DEF PlaceInv
    <3>2. pos \in 1..Len(stream)
      BY <1>1, <1>8, <3>1, Differences DEF CountInv
    <3>3. kind = "root" /\ ~cut => Frame(command) = "read"
      BY <1>1, <3>1, <3>2 DEF StreamInv
    <3>4. CASE Frame(command) # "read"
      <4>1. Boundary(pos)
        <5>1. Size(stream[pos]) = 1 /\ pos \in 1..pos /\ pos + 1 - 1 = pos
          BY <1>8, <3>1, <3>4 DEF Size
        <5> QED
          BY <1>1, <3>1, <5>1, CommandEnds
      <4>2. Between
        BY <3>3, <3>4, <4>1 DEF Between
      <4>3. pc' \in {"loop", "push"} /\ part' = part /\ want' = want
        BY <1>11, <2>2, <3>4 DEF ReadDone
      <4>4. ThreadTyped'
        BY <1>1, <2>1, <4>3 DEF ThreadTyped, PCs
      <4>5. PlaceInv'
        BY <1>5, <4>2, <4>3 DEF PlaceInv
      <4> QED
        BY <4>4, <4>5
    <3>5. CASE Frame(command) = "read"
      <4>1. command.length \in 1..RingLength /\ command.barriers <= command.length - 1
            /\ command.barriers \in Nat
        BY <1>8, <3>5, FrameFacts DEF Cell
      <4>2. /\ pc' = "read"
            /\ \/ command.barriers # 0 /\ part' = "barriers" /\ want' = 1
               \/ part' = "payload" /\ want' = command.length - 1
        BY <1>11, <2>1, <2>2, <3>5 DEF ReadDone
      <4>3. want' \in 0..RingLength
        BY <1>8, <4>1, <4>2
      <4>4. ThreadTyped'
        BY <1>1, <2>1, <4>2, <4>3 DEF ThreadTyped, PCs
      <4>5. First' = pos
        BY <1>2, <1>8, <2>1, <4>1, <4>2 DEF First, Rest
      <4>6. Inside'
        <5>1. pos \in 1..pos
          BY <1>8, <3>1
        <5> QED
          BY <1>2, <1>3, <2>1, <3>1, <3>5, <4>2, <4>5, <5>1 DEF Inside
      <4>7. PlaceInv'
        BY <4>2, <4>6 DEF PlaceInv
      <4> QED
        BY <4>4, <4>7
    <3> QED
      BY <3>4, <3>5
  <2>3. CASE part # "header"
    <3>1. Inside
      BY <1>1, <2>1, <2>3 DEF PlaceInv
    <3>2. command.length \in 1..RingLength /\ command.barriers <= command.length - 1
          /\ command.barriers \in Nat
      BY <1>8, <3>1, FrameFacts DEF Cell, Inside
    <3>3. CASE part = "barriers"
      <4>1. pc' = "read" /\ part' = "payload" /\ want' = command.length - 2
        BY <1>11, <2>1, <3>3 DEF ReadDone
      <4>2. command.length >= 2
        BY <3>1, <3>2, <3>3 DEF Inside
      <4>3. want' \in 0..RingLength
        BY <1>8, <3>2, <4>1, <4>2
      <4>4. ThreadTyped'
        BY <1>1, <2>1, <4>1, <4>3 DEF ThreadTyped, PCs
      <4>5. First' = First
        BY <1>2, <1>8, <2>1, <3>2, <3>3, <4>1 DEF First, Rest
      <4>6. Inside'
        BY <1>2, <1>3, <2>1, <3>1, <4>1, <4>5 DEF Inside
      <4>7. PlaceInv'
        BY <4>1, <4>6 DEF PlaceInv
      <4> QED
        BY <4>4, <4>7
    <3>4. CASE part = "payload"
      <4>1. pc' \in {"barrier", "advance"} /\ part' = part /\ want' = want
        BY <1>11, <3>4 DEF ReadDone
      <4>2. Boundary(pos)
        <5>1. First + command.length - 1 = pos /\ First \in 1..pos
          BY <1>8, <2>1, <3>1, <3>2, <3>4 DEF Inside, First, Rest
        <5>2. stream[First] = command /\ Size(command) = command.length /\ IsHeader(command)
          BY <3>1 DEF Inside, Size
        <5> HIDE DEF First
        <5> QED
          BY <1>1, <5>1, <5>2, CommandEnds
      <4>3. ThreadTyped'
        BY <1>1, <2>1, <4>1 DEF ThreadTyped, PCs
      <4>4. PlaceInv'
        BY <1>2, <1>3, <1>4, <2>1, <3>1, <4>1, <4>2 DEF PlaceInv, Inside
      <4> QED
        BY <4>3, <4>4
    <3> QED
      BY <1>1, <2>3, <3>3, <3>4 DEF ThreadTyped
  <2> QED
    BY <2>2, <2>3
<1>12. CASE ReadQuiesced
  BY <1>1, <1>3, <1>12 DEF ReadQuiesced, ThreadTyped, PCs, reading, PlaceInv
<1>13. CASE wait_barriers
  <2>1. ThreadTyped'
    BY <1>1, <1>13 DEF wait_barriers, ThreadTyped, PCs
  <2>2. PlaceInv'
    BY <1>1, <1>2, <1>3, <1>4, <1>13 DEF wait_barriers, PlaceInv
  <2> QED
    BY <2>1, <2>2
<1>14. CASE push_stamp
  <2>1. ThreadTyped'
    BY <1>1, <1>14 DEF push_stamp, ThreadTyped, PCs, reading
  <2>2. PlaceInv'
    BY <1>1, <1>5, <1>14 DEF push_stamp, PlaceInv
  <2> QED
    BY <2>1, <2>2
<1>15. CASE dispatch
  BY <1>1, <1>3, <1>5, <1>15 DEF dispatch, ThreadTyped, PCs, reading, PlaceInv
<1> QED
  BY <1>10, <1>11, <1>12, <1>13, <1>14, <1>15

\* What a child's ring offers is no more than the guest has published, and what a root's does
\* that was published only whole commands.
LEMMA Offered ==
  ASSUME Orderly, ~(kind = "root" /\ cut), pc = "read", NEW n \in Nat, n > 0, n <= Available, n <= want
  PROVE  pos + n <= Len(stream)
<1>1. Typed /\ StreamInv /\ CountInv /\ PlaceInv /\ pos \in Nat /\ released \in Nat /\ want \in Nat
  BY Sizes DEF Orderly, Typed, ThreadTyped
<1>2. Len(stream) \in Nat /\ wrapping_sub(written, read) = Len(stream) - released
  BY <1>1, Differences
<1>3. CASE kind = "root"
  <2>1. Available = Len(stream) - released
    BY <1>2, <1>3 DEF Available
  <2>2. CASE part = "header"
    <3>1. pos = released
      BY <1>1, <1>3, <2>2 DEF PlaceInv, Between
    <3> QED
      BY <1>1, <1>2, <2>1, <3>1
  <2>3. CASE part # "header"
    <3>1. Inside
      BY <1>1, <2>3 DEF PlaceInv
    <3>2. command \in Cell /\ command.length \in 1..RingLength /\ command.barriers <= command.length - 1
          /\ command.barriers \in Nat
      BY <1>1, <3>1, FrameFacts DEF Cell, Inside, Typed, ThreadTyped
    <3>3. Rest \in Nat
      BY <3>1, <3>2 DEF Inside, Rest
    <3>4. First \in 1..pos /\ First + command.length - 1 = pos + want + Rest
      BY <1>1, <3>1, <3>2, <3>3 DEF Inside, First
    <3>5. /\ First \in 1..Len(stream) /\ stream[First] = command /\ IsHeader(command)
          /\ Size(command) = command.length
      <4>1. pos <= Len(stream)
        BY <1>1 DEF CountInv
      <4> QED
        BY <1>1, <1>2, <3>1, <3>4, <4>1 DEF Inside, Size
    <3>6. unwritten = << >>
      BY <1>1, <1>3 DEF StreamInv
    <3>7. Len(unwritten) = 0
      BY <3>6
    <3>8. First + command.length > Len(stream) =>
            First + command.length - 1 = Len(stream) + Len(unwritten)
      BY <1>1, <3>5 DEF StreamInv
    <3> HIDE DEF First, Rest
    <3>9. First + command.length - 1 <= Len(stream)
      BY <1>2, <3>2, <3>4, <3>5, <3>7, <3>8
    <3> QED
      BY <1>1, <1>2, <3>3, <3>4, <3>9
  <2> QED
    BY <2>2, <2>3
<1>4. CASE kind # "root"
  <2>1. kind = "child"
    BY <1>1, <1>4, Sizes DEF Typed, GuestTyped
  <2>2. PICK c \in pos..Len(stream) : cache_written = c % CountSpan
    BY <1>1, <2>1 DEF CountInv
  <2>3. read_count = pos % CountSpan /\ written = Len(stream) % CountSpan /\ pos <= Len(stream)
    BY <1>1, <2>1 DEF CountInv
  <2>4. \A d \in pos..Len(stream) : ChildAvailable(d % CountSpan) = d - pos
    BY <1>1, <2>3, Differences DEF ChildAvailable, wrapping_sub
  <2>5. Available \in {ChildAvailable(written), ChildAvailable(cache_written)}
    BY <1>4 DEF Available
  <2>6. Available \in {Len(stream) - pos, c - pos}
    <3>1. Len(stream) \in pos..Len(stream)
      BY <1>1, <1>2, <2>3
    <3> QED
      BY <2>2, <2>3, <2>4, <2>5, <3>1
  <2> QED
    BY <1>1, <1>2, <2>2, <2>6
<1> QED
  BY <1>3, <1>4

\* What the counters offer is a number of cells.
LEMMA AvailableType ==
  ASSUME Typed
  PROVE  Available \in Nat
<1>1. \A a, b \in Int : wrapping_sub(a, b) \in Nat
  <2> SUFFICES ASSUME NEW a \in Int, NEW b \in Int PROVE wrapping_sub(a, b) \in Nat
    OBVIOUS
  <2>1. a - b \in Int /\ CountSpan \in Nat \ {0}
    BY Sizes
  <2>2. (a - b) % CountSpan \in 0..(CountSpan - 1)
    BY <2>1, DivMod, Zenon
  <2> QED
    BY <2>1, <2>2 DEF wrapping_sub
<1>2. written \in Int /\ read \in Int /\ read_count \in Int /\ cache_written \in Int
  BY Sizes DEF Typed, GuestTyped, CursorTyped
<1> QED
  BY <1>1, <1>2 DEF Available, ChildAvailable

\* A copy of cells that are published, and are the ones that follow in the stream.
LEMMA CopyKeeps ==
  ASSUME Orderly, ReadCopies, stale' = "no"
  PROVE  Orderly'
<1> DEFINE count == Least(Available, Least(want, RingLength - read_offset))
<1>1. /\ Typed /\ GuestTyped /\ CursorTyped /\ ThreadTyped /\ DeviceTyped
      /\ StreamInv /\ CountInv /\ OffsetInv /\ PlaceInv /\ ControlInv /\ stale = "no"
  BY DEF Orderly, Typed
<1>2. /\ pos \in Nat /\ released \in Nat /\ want \in Nat /\ RingLength \in Nat \ {0}
      /\ CountSpan \in Nat \ {0} /\ RingLength < CountSpan
      /\ read_offset \in Nat /\ Available \in Nat /\ Len(stream) \in Nat
  BY <1>1, Sizes, AvailableType, Differences DEF Typed, ThreadTyped, CursorTyped
<1>3. /\ pc = "read" /\ ~quiesced /\ read_offset # RingLength /\ want > 0 /\ Available > 0
      /\ read_offset <= RingLength
  BY <1>1, <1>2 DEF ReadCopies, CursorTyped
<1>4. /\ count \in Nat /\ count > 0 /\ count <= Available /\ count <= want
      /\ read_offset + count <= RingLength
  BY <1>2, <1>3 DEF Least
<1>5. /\ read_offset' = read_offset + count /\ want' = want - count
      /\ IF kind = "root"
         THEN /\ pending_advance' = wrapping_add(pending_advance, count)
              /\ UNCHANGED <<read_count, cache_written>>
         ELSE /\ read_count' = wrapping_add(read_count, count)
              /\ cache_written' = IF Reloads THEN written ELSE cache_written
              /\ UNCHANGED pending_advance
      /\ IF part = "header" THEN command' \in TakenFor(read_offset) ELSE command' = command
      /\ Consumes(count)
      /\ UNCHANGED <<kind, unwritten, commands, cut, written, poke_owed, read, last_read_offset,
                     last_read_count, pc, part, raised, device, pending>>
  BY DEF ReadCopies, Reload
<1> HIDE DEF count
<1>6. /\ UNCHANGED <<kind, stream, unwritten, cut, written, quiesced, running, control, released>>
      /\ pos' = pos + count /\ pos + count <= Len(stream) /\ read_offset = pos % RingLength
  BY <1>1, <1>5 DEF Consumes, device
<1>7. pos + count <= Len(stream)
  BY <1>6
<1>8. read_offset = pos % RingLength
  BY <1>6
<1>9. \A p : Boundary(p)' <=> Boundary(p)
  BY <1>6, SameStream
<1>10. stale' = "no"
  OBVIOUS
<1>11. part = "header" => /\ want = 1 /\ count = 1 /\ Between /\ command' = stream[pos + 1]
                         /\ IsHeader(stream[pos + 1]) /\ stream[pos + 1] \in Cell
  <2> SUFFICES ASSUME part = "header"
               PROVE  /\ want = 1 /\ count = 1 /\ Between /\ command' = stream[pos + 1]
                      /\ IsHeader(stream[pos + 1]) /\ stream[pos + 1] \in Cell
    OBVIOUS
  <2>1. want = 1 /\ Between
    BY <1>1, <1>3 DEF PlaceInv
  <2>2. count = 1
    BY <1>4, <2>1
  <2>3. pos < Len(stream) /\ Len(stream) <= pos + RingLength /\ pos + 1 \in 1..Len(stream)
    <3>1. released <= pos /\ Len(stream) - released <= RingLength
      BY <1>1, Differences DEF CountInv
    <3> QED
      BY <1>2, <1>7, <2>2, <3>1
  <2>4. IsHeader(stream[pos + 1])
    BY <2>1, <2>3 DEF Between, Boundary
  <2>5. RingCell(read_offset) = stream[pos + 1]
    BY <1>1, <1>2, <1>8, <2>3, CellThere DEF GuestTyped
  <2>6. command' = stream[pos + 1]
    BY <1>1, <1>5, <2>4, <2>5 DEF TakenFor
  <2>7. stream[pos + 1] \in Cell
    BY <1>1, <2>3, ElementOfSeq DEF GuestTyped
  <2> QED
    BY <2>1, <2>2, <2>4, <2>6, <2>7
<1>12. ThreadTyped'
  <2>1. command' \in Cell
    BY <1>1, <1>5, <1>11 DEF ThreadTyped
  <2>2. want' \in 0..RingLength
    <3>1. want \in 0..RingLength
      BY <1>1 DEF ThreadTyped
    <3> QED
      BY <1>2, <1>4, <1>5, <3>1
  <2> QED
    BY <1>1, <1>5, <2>1, <2>2 DEF ThreadTyped
<1>13. GuestTyped' /\ DeviceTyped' /\ pos' \in Nat /\ released' \in Nat
  BY <1>1, <1>2, <1>4, <1>5, <1>6 DEF GuestTyped, DeviceTyped, guest, device
<1>14. \A a \in Nat : (a + count) % CountSpan \in 0..(CountSpan - 1)
  <2> SUFFICES ASSUME NEW a \in Nat PROVE (a + count) % CountSpan \in 0..(CountSpan - 1)
    OBVIOUS
  <2>1. a + count \in Int
    BY <1>4
  <2> QED
    BY <1>2, <2>1, DivMod, Zenon
<1>15. CursorTyped'
  <2>1. pending_advance' \in 0..(CountSpan - 1) /\ read_count' \in 0..(CountSpan - 1)
    <3>1. pending_advance \in Nat /\ read_count \in Nat
      BY <1>1, <1>2 DEF CursorTyped
    <3> QED
      BY <1>1, <1>5, <1>14, <3>1 DEF CursorTyped, wrapping_add
  <2>2. cache_written' \in 0..(CountSpan - 1)
    BY <1>1, <1>5 DEF CursorTyped, GuestTyped
  <2>3. read_offset' \in 0..RingLength
    BY <1>2, <1>4, <1>5
  <2> QED
    BY <1>1, <1>5, <2>1, <2>2, <2>3 DEF CursorTyped
<1>16. CountInv'
  <2>1. written' = Len(stream') % CountSpan /\ read' = released' % CountSpan /\ Boundary(released)'
    BY <1>1, <1>5, <1>6, <1>9 DEF CountInv
  <2>2. /\ released' <= pos' /\ pos' <= Len(stream')
        /\ Len(stream') + Len(unwritten') <= released' + RingLength
    BY <1>1, <1>2, <1>4, <1>5, <1>6, <1>7 DEF CountInv
  <2>3. ASSUME kind = "root" PROVE pending_advance' = pos' - released'
    <3>1. pending_advance = pos - released /\ released <= pos /\ Len(stream) - released <= RingLength
      BY <1>1, <2>3, Differences DEF CountInv
    <3> DEFINE a == pending_advance + count
    <3>2. /\ a \in 0..(CountSpan - 1) /\ a = pos' - released'
      BY <1>2, <1>4, <1>5, <1>6, <1>7, <3>1
    <3>3. pending_advance' = a % CountSpan
      BY <1>5, <2>3 DEF wrapping_add
    <3> HIDE DEF a
    <3>4. a % CountSpan = a
      BY <1>2, <3>2, SmallModulo, Zenon
    <3> QED
      BY <3>2, <3>3, <3>4
  <2>4. ASSUME kind = "child"
        PROVE  /\ read_count' = pos' % CountSpan /\ last_read_count' = released' % CountSpan
               /\ \E c \in pos'..Len(stream') : cache_written' = c % CountSpan
    <3>1. read_count = pos % CountSpan /\ last_read_count = released % CountSpan
      BY <1>1, <2>4 DEF CountInv
    <3>2. PICK c \in pos..Len(stream) : cache_written = c % CountSpan
      BY <1>1, <2>4 DEF CountInv
    <3>3. ((pos % CountSpan) + count) % CountSpan = (pos + count) % CountSpan
      <4>1. pos \in Int /\ count \in Int
        BY <1>2, <1>4
      <4> QED
        BY <1>2, <4>1, WrappingAdd, Zenon
    <3>4. read_count' = pos' % CountSpan
      BY <1>5, <1>6, <2>4, <3>1, <3>3 DEF wrapping_add
    <3>5. CASE Reloads
      <4>1. cache_written' = Len(stream) % CountSpan
        BY <1>1, <1>5, <2>4, <3>5 DEF CountInv
      <4>2. Len(stream) \in pos'..Len(stream')
        BY <1>2, <1>4, <1>5, <1>6, <1>7
      <4> QED
        BY <1>5, <1>6, <3>1, <3>4, <4>1, <4>2
    <3>6. CASE ~Reloads
      <4>1. cache_written' = c % CountSpan
        BY <1>5, <2>4, <3>2, <3>6
      <4>2. Available = c - pos
        <5>1. Available = ChildAvailable(cache_written)
          BY <2>4, <3>6 DEF Available
        <5> QED
          BY <1>1, <3>1, <3>2, <5>1, Differences DEF ChildAvailable, wrapping_sub
      <4>3. c \in pos'..Len(stream')
        BY <1>2, <1>4, <1>5, <1>6, <3>2, <4>2
      <4> QED
        BY <1>5, <1>6, <3>1, <3>4, <4>1, <4>3
    <3> QED
      BY <3>5, <3>6
  <2> QED
    BY <1>6, <2>1, <2>2, <2>3, <2>4 DEF CountInv
<1>17. OffsetInv'
  <2>1. \/ read_offset' = pos' % RingLength
        \/ read_offset' = RingLength /\ pos' % RingLength = 0
    BY <1>2, <1>4, <1>5, <1>6, <1>8, CursorMoves
  <2> QED
    BY <1>1, <1>5, <1>6, <2>1 DEF OffsetInv, InPlace, Restarted
<1>18. StreamInv'
  BY <1>1, <1>6, SameStream
<1>19. ControlInv'
  BY <1>1, <1>5, <1>6 DEF ControlInv
<1>20. PlaceInv'
  <2>1. CASE part = "header"
    <3>1. /\ part' = "header" /\ want' = 0 /\ pos' = pos + 1 /\ command' = stream'[pos'] /\ IsHeader(command')
          /\ pos' >= 1 /\ pc' = "read"
      BY <1>2, <1>3, <1>5, <1>6, <1>11, <2>1
    <3>2. kind' = "root" /\ ~cut' => pos' = released' + 1
      BY <1>5, <1>6, <1>11, <2>1, <3>1 DEF Between
    <3> QED
      BY <3>1, <3>2 DEF PlaceInv
  <2>2. CASE part # "header"
    <3>1. Inside /\ part' = part /\ command' = command /\ pc' = "read" /\ command.length \in Nat
      BY <1>1, <1>3, <1>5, <2>2 DEF PlaceInv, ThreadTyped, Cell
    <3>2. Rest' = Rest /\ Rest \in Int
      BY <3>1 DEF Rest
    <3>3. First' = First /\ First \in 1..pos
      <4>1. pos' + want' = pos + want
        BY <1>2, <1>4, <1>5, <1>6
      <4> QED
        BY <1>2, <3>1, <3>2, <4>1 DEF First, Inside
    <3>4. First \in 1..pos'
      BY <1>2, <1>4, <1>5, <1>6, <3>3
    <3>5. Inside'
      BY <1>5, <1>6, <3>1, <3>3, <3>4 DEF Inside
    <3> QED
      BY <1>1, <2>2, <3>1, <3>5 DEF PlaceInv, ThreadTyped
  <2> QED
    BY <2>1, <2>2
<1> QED
  BY <1>10, <1>12, <1>13, <1>15, <1>16, <1>17, <1>18, <1>19, <1>20 DEF Orderly, Typed

\* The initial state.
LEMMA InitInv ==
  ASSUME Init
  PROVE  Orderly
<1>1. /\ stream = << >> /\ unwritten = << >> /\ << >> \in Seq(Cell) /\ Len(<< >>) = 0
      /\ RingLength \in Nat \ {0} /\ CountSpan \in Nat \ {0} /\ Capacity \in Nat
      /\ MaxCommands \in Nat /\ MaxPauses \in Nat
  BY Sizes DEF Init
<1>2. 0 % CountSpan = 0 /\ 0 % RingLength = 0
  BY <1>1, SmallModulo
<1>3. Zeroed \in Cell
  BY DEF Zeroed, Header, Cell
<1>4. Typed
  <2>5. /\ poke_owed \in BOOLEAN /\ cut \in BOOLEAN /\ raised \in BOOLEAN /\ quiesced \in BOOLEAN /\ running \in BOOLEAN
        /\ kind \in Kinds
    BY Zenon DEF Init
  <2>1. GuestTyped /\ pos \in Nat /\ released \in Nat
    <3>1. commands \in 0..MaxCommands /\ written \in 0..(CountSpan - 1) /\ pos \in Nat /\ released \in Nat
      BY <1>1 DEF Init
    <3> QED
      BY <1>1, <2>5, <3>1 DEF GuestTyped
  <2>2. CursorTyped
    BY <1>1 DEF Init, CursorTyped
  <2>3. ThreadTyped
    <3>1. pc \in PCs /\ part \in {"header", "barriers", "payload"} /\ want \in 0..RingLength
      BY <1>1 DEF Init, PCs
    <3> QED
      BY <1>3, <2>5, <3>1 DEF Init, ThreadTyped
  <2>4. DeviceTyped
    <3>1. pauses \in 0..MaxPauses /\ pending \in 0..Capacity /\ control = "stopped"
      BY <1>1 DEF Init
    <3> QED
      BY <2>5, <3>1 DEF DeviceTyped
  <2> QED
    BY <2>1, <2>2, <2>3, <2>4 DEF Typed
<1>5. StreamInv
  BY <1>1 DEF StreamInv
<1>6. CountInv
  <2>1. Boundary(0)
    BY <1>1 DEF Boundary
  <2>2. 0 \in 0..Len(stream) /\ Len(stream) + Len(unwritten) <= 0 + RingLength
    BY <1>1
  <2> QED
    BY <1>1, <1>2, <2>1, <2>2 DEF Init, CountInv
<1>7. OffsetInv /\ PlaceInv /\ ControlInv /\ stale = "no"
  BY <1>2 DEF Init, OffsetInv, InPlace, Restarted, PlaceInv, ControlInv
<1> QED
  BY <1>4, <1>5, <1>6, <1>7 DEF Orderly

\* A read at the ring's end goes on at its start; one with nothing to copy waits.
LEMMA WrapsAndParks ==
  ASSUME Orderly, ReadWraps \/ ReadParks
  PROVE  Orderly'
<1>1. /\ Typed /\ GuestTyped /\ CursorTyped /\ ThreadTyped /\ DeviceTyped
      /\ StreamInv /\ CountInv /\ OffsetInv /\ PlaceInv /\ ControlInv /\ stale = "no"
  BY DEF Orderly, Typed
<1>2. /\ UNCHANGED <<guest, read, last_read_offset, pending_advance, read_count,
                     last_read_count, reading, device, pending, pos, released, stale>>
      /\ pc = "read" /\ pc' \in {"read", "parked"}
  BY DEF ReadWraps, ReadParks, history
<1>3. UNCHANGED <<kind, stream, unwritten, cut, written, part, want, command, raised, quiesced, running, control>>
  BY <1>2 DEF guest, reading, device
<1>4. /\ \/ read_offset' = read_offset
         \/ read_offset = RingLength /\ read_offset' = 0
      /\ cache_written' \in {written, cache_written}
  BY DEF ReadWraps, ReadParks, Reload
<1>5. StreamInv' /\ \A p : Boundary(p)' <=> Boundary(p)
  BY <1>1, <1>3, SameStream
<1>6. RingLength \in Nat \ {0} /\ pos \in Nat /\ released \in Nat /\ Len(stream) \in Nat
  BY <1>1, Sizes, Differences DEF Typed
<1>7. Typed'
  <2>1. GuestTyped' /\ DeviceTyped' /\ pos' \in Nat /\ released' \in Nat
    BY <1>1, <1>2, <1>6 DEF GuestTyped, DeviceTyped, guest, device
  <2>2. ThreadTyped'
    BY <1>1, <1>2, <1>3 DEF ThreadTyped, PCs
  <2>3. CursorTyped'
    <3>1. read_offset' \in 0..RingLength
      BY <1>1, <1>4, <1>6 DEF CursorTyped
    <3>2. cache_written' \in 0..(CountSpan - 1)
      BY <1>1, <1>4 DEF CursorTyped, GuestTyped
    <3> QED
      BY <1>1, <1>2, <3>1, <3>2 DEF CursorTyped
  <2> QED
    BY <2>1, <2>2, <2>3 DEF Typed
<1>8. CountInv'
  <2>1. ASSUME kind = "child"
        PROVE  \E c \in pos..Len(stream) : cache_written' = c % CountSpan
    <3>1. Len(stream) \in pos..Len(stream) /\ written = Len(stream) % CountSpan
      BY <1>1, <1>6 DEF CountInv
    <3>2. \E c \in pos..Len(stream) : cache_written = c % CountSpan
      BY <1>1, <2>1 DEF CountInv
    <3> QED
      BY <1>4, <3>1, <3>2
  <2> QED
    BY <1>1, <1>2, <1>3, <1>5, <2>1 DEF CountInv
<1>9. OffsetInv'
  <2>1. read % RingLength # RingLength
    <3>1. read \in Int
      BY <1>1, Sizes DEF CursorTyped
    <3>2. read % RingLength \in 0..(RingLength - 1)
      BY <1>6, <3>1, DivMod, Zenon
    <3> QED
      BY <1>6, <3>2
  <2>2. CASE InPlace
    BY <1>2, <1>3, <1>4, <1>6, <2>2 DEF OffsetInv, InPlace
  <2>3. CASE Restarted
    BY <1>2, <1>4, <2>1, <2>3 DEF OffsetInv, Restarted
  <2> QED
    BY <1>1, <1>2, <1>3, <1>4, <2>2, <2>3 DEF OffsetInv
<1>10. ControlInv'
  BY <1>1, <1>2, <1>3 DEF ControlInv
<1>11. PlaceInv'
  <2>1. (Between' <=> Between) /\ (Inside' <=> Inside)
    BY <1>2, <1>3, <1>5 DEF Between, Inside, First, Rest
  <2> QED
    BY <1>1, <1>2, <1>3, <2>1 DEF PlaceInv
<1> QED
  BY <1>1, <1>2, <1>5, <1>7, <1>8, <1>9, <1>10, <1>11 DEF Orderly

\* The advance gives the guest back the room of the command read.
LEMMA AdvanceKeeps ==
  ASSUME Orderly, advance
  PROVE  Orderly'
<1>1. /\ Typed /\ GuestTyped /\ CursorTyped /\ ThreadTyped /\ DeviceTyped
      /\ StreamInv /\ CountInv /\ OffsetInv /\ PlaceInv /\ ControlInv /\ stale = "no"
  BY DEF Orderly, Typed
<1>2. /\ pc = "advance" /\ pc' = "push" /\ released' = pos /\ pos' = pos /\ pending_advance' = 0
      /\ read' = IF kind = "root" THEN wrapping_add(read, pending_advance) ELSE read_count
      /\ last_read_offset' = read_offset
      /\ last_read_count' = IF kind = "root" THEN last_read_count ELSE read_count
      /\ UNCHANGED <<guest, read_offset, read_count, cache_written, reading, device, pending, stale>>
  BY DEF advance
<1>3. UNCHANGED <<kind, stream, unwritten, cut, written, part, want, command, raised, quiesced, running, control>>
  BY <1>2 DEF guest, reading, device
<1>4. /\ RingLength \in Nat \ {0} /\ CountSpan \in Nat \ {0} /\ pos \in Nat /\ released \in Nat
      /\ Len(stream) \in Nat /\ Len(unwritten) \in Nat
  BY <1>1, Sizes, Differences DEF Typed
<1>5. StreamInv' /\ \A p : Boundary(p)' <=> Boundary(p)
  BY <1>1, <1>3, SameStream
<1>6. control # "stopped" /\ Boundary(pos) /\ read_offset # RingLength
  BY <1>1, <1>2 DEF ControlInv, PlaceInv
<1>7. read' = pos % CountSpan
  <2>1. CASE kind = "root"
    <3>1. read = released % CountSpan /\ pending_advance = pos - released
      BY <1>1, <2>1 DEF CountInv
    <3> DEFINE d == pos - released
    <3>2. d \in Int /\ released \in Int /\ released + d = pos
      BY <1>4
    <3>3. pending_advance = d
      BY <3>1
    <3> HIDE DEF d
    <3>4. ((released % CountSpan) + d) % CountSpan = (released + d) % CountSpan
      BY <1>4, <3>2, WrappingAdd, Zenon
    <3> QED
      BY <1>2, <2>1, <3>1, <3>2, <3>3, <3>4 DEF wrapping_add
  <2>2. CASE kind # "root"
    <3>1. kind = "child"
      BY <1>1, <2>2, Sizes DEF GuestTyped
    <3> QED
      BY <1>1, <1>2, <2>2, <3>1 DEF CountInv
  <2> QED
    BY <2>1, <2>2
<1>8. pos % CountSpan \in 0..(CountSpan - 1)
  <2>1. pos \in Int
    BY <1>4
  <2> QED
    BY <1>4, <2>1, DivMod, Zenon
<1>9. Typed'
  <2>1. GuestTyped' /\ DeviceTyped' /\ pos' \in Nat /\ released' \in Nat
    BY <1>1, <1>2, <1>4 DEF GuestTyped, DeviceTyped, guest, device
  <2>2. ThreadTyped'
    BY <1>1, <1>2, <1>3 DEF ThreadTyped, PCs
  <2>3. CursorTyped'
    <3>1. last_read_offset' \in 0..(RingLength - 1)
      BY <1>1, <1>2, <1>4, <1>6 DEF CursorTyped
    <3>2. last_read_count' \in 0..(CountSpan - 1) /\ pending_advance' \in 0..(CountSpan - 1)
      BY <1>1, <1>2, <1>4 DEF CursorTyped
    <3> QED
      BY <1>1, <1>2, <1>7, <1>8, <3>1, <3>2 DEF CursorTyped
  <2> QED
    BY <2>1, <2>2, <2>3 DEF Typed
<1>10. CountInv'
  <2>1. /\ released' <= pos' /\ pos' <= Len(stream')
        /\ Len(stream') + Len(unwritten') <= released' + RingLength
    BY <1>1, <1>2, <1>3, <1>4 DEF CountInv
  <2>2. Boundary(released)'
    BY <1>2, <1>5, <1>6
  <2>3. pending_advance' = pos' - released'
    BY <1>2, <1>4
  <2>4. kind = "child" => last_read_count' = pos % CountSpan
    BY <1>1, <1>2 DEF CountInv
  <2> QED
    BY <1>1, <1>2, <1>3, <1>7, <2>1, <2>2, <2>3, <2>4 DEF CountInv
<1>11. OffsetInv'
  <2>1. CASE InPlace
    BY <1>2, <1>3, <1>6, <2>1 DEF OffsetInv, InPlace
  <2>2. CASE Restarted
    <3>1. read' = read
      BY <1>1, <1>7, <2>2 DEF Restarted, CountInv
    <3> QED
      BY <1>2, <2>2, <3>1 DEF OffsetInv, Restarted
  <2> QED
    BY <1>1, <1>6, <2>1, <2>2 DEF OffsetInv
<1>12. ControlInv'
  BY <1>1, <1>2, <1>3 DEF ControlInv
<1>13. PlaceInv'
  <2>1. Between'
    BY <1>2, <1>3, <1>5, <1>6 DEF Between
  <2> QED
    BY <1>2, <2>1 DEF PlaceInv
<1> QED
  BY <1>1, <1>2, <1>5, <1>9, <1>10, <1>11, <1>12, <1>13 DEF Orderly

\* The rewind puts the cursors back where the guest's room begins.
LEMMA RewindKeeps ==
  ASSUME Orderly, rewind
  PROVE  Orderly'
<1>1. /\ Typed /\ GuestTyped /\ CursorTyped /\ ThreadTyped /\ DeviceTyped
      /\ StreamInv /\ CountInv /\ OffsetInv /\ PlaceInv /\ ControlInv /\ stale = "no"
  BY DEF Orderly, Typed
<1>2. /\ pc = "rewind" /\ pc' = "exit" /\ released' = released /\ pos' = released
      /\ pending_advance' = 0 /\ read_offset' = last_read_offset
      /\ read_count' = IF kind = "root" THEN read_count ELSE last_read_count
      /\ UNCHANGED <<guest, read, last_read_offset, last_read_count, cache_written, reading,
                     device, pending, stale>>
  BY DEF rewind
<1>3. UNCHANGED <<kind, stream, unwritten, cut, written, part, want, command, raised, quiesced, running, control>>
  BY <1>2 DEF guest, reading, device
<1>4. /\ RingLength \in Nat \ {0} /\ CountSpan \in Nat \ {0} /\ pos \in Nat /\ released \in Nat
      /\ Len(stream) \in Nat /\ Len(unwritten) \in Nat
  BY <1>1, Sizes, Differences DEF Typed
<1>5. StreamInv' /\ \A p : Boundary(p)' <=> Boundary(p)
  BY <1>1, <1>3, SameStream
<1>6. Typed'
  <2>1. GuestTyped' /\ DeviceTyped' /\ pos' \in Nat /\ released' \in Nat
    BY <1>1, <1>2, <1>4 DEF GuestTyped, DeviceTyped, guest, device
  <2>2. ThreadTyped'
    BY <1>1, <1>2, <1>3 DEF ThreadTyped, PCs
  <2>3. CursorTyped'
    <3>1. read_offset' \in 0..RingLength /\ pending_advance' \in 0..(CountSpan - 1)
      BY <1>1, <1>2, <1>4 DEF CursorTyped
    <3> QED
      BY <1>1, <1>2, <3>1 DEF CursorTyped
  <2> QED
    BY <2>1, <2>2, <2>3 DEF Typed
<1>7. CountInv'
  <2>1. /\ released' <= pos' /\ pos' <= Len(stream')
        /\ Len(stream') + Len(unwritten') <= released' + RingLength
    BY <1>1, <1>2, <1>3, <1>4 DEF CountInv
  <2>2. Boundary(released)'
    BY <1>1, <1>2, <1>5 DEF CountInv
  <2>3. pending_advance' = pos' - released'
    BY <1>2, <1>4
  <2>4. ASSUME kind = "child"
        PROVE  /\ read_count' = released % CountSpan
               /\ \E c \in released..Len(stream) : cache_written = c % CountSpan
    <3>1. PICK c \in pos..Len(stream) : cache_written = c % CountSpan
      BY <1>1, <2>4 DEF CountInv
    <3>2. c \in released..Len(stream)
      BY <1>1, <1>4 DEF CountInv
    <3>3. read_count' = last_read_count /\ last_read_count = released % CountSpan
      BY <1>1, <1>2, <2>4 DEF CountInv
    <3> QED
      BY <3>1, <3>2, <3>3
  <2> QED
    BY <1>1, <1>2, <1>3, <2>1, <2>2, <2>3, <2>4 DEF CountInv
<1>8. OffsetInv'
  BY <1>1, <1>2, <1>3 DEF OffsetInv, InPlace, Restarted
<1>9. ControlInv' /\ PlaceInv'
  BY <1>1, <1>2, <1>3 DEF ControlInv, PlaceInv
<1> QED
  BY <1>1, <1>2, <1>5, <1>6, <1>7, <1>8, <1>9 DEF Orderly

\* The thread's exit.
LEMMA ExitKeeps ==
  ASSUME Orderly, ThreadExits
  PROVE  Orderly'
<1>1. ThreadTyped /\ DeviceTyped /\ PlaceInv /\ ControlInv
  BY DEF Orderly, Typed
<1>2. /\ pc = "exit" /\ pc' = "off" /\ running' = FALSE
      /\ control' = IF control = "exited?" THEN "stamps?" ELSE control
      /\ UNCHANGED <<guest, cursors, reading, quiesced, pauses, pending, pos, released, stale>>
  BY DEF ThreadExits, history
<1>3. ThreadTyped'
  BY <1>1, <1>2 DEF ThreadTyped, PCs, reading
<1>4. DeviceTyped'
  BY <1>1, <1>2 DEF DeviceTyped
<1>5. PlaceInv' /\ ControlInv' /\ (control = "stopped" => control' = "stopped")
  BY <1>1, <1>2 DEF PlaceInv, ControlInv
<1> QED
  BY <1>2, <1>3, <1>4, <1>5, StillKeeps

\* A start, and the FIFO made again: the cursor is taken from the wrapped counter.
LEMMA StartKeeps ==
  ASSUME Orderly, start \/ Restored
  PROVE  Orderly'
<1>1. /\ Typed /\ GuestTyped /\ CursorTyped /\ ThreadTyped /\ DeviceTyped
      /\ StreamInv /\ CountInv /\ OffsetInv /\ PlaceInv /\ ControlInv /\ stale = "no"
  BY DEF Orderly, Typed
<1>2. /\ control = "stopped"
      /\ UNCHANGED <<guest, read, reading, pauses, pending, pos, released, stale>>
  BY DEF start, Restored, history
<1>3. UNCHANGED <<kind, stream, unwritten, cut, written, part, want, command, raised>>
  BY <1>2 DEF guest, reading
<1>4. /\ RingLength \in Nat \ {0} /\ CountSpan \in Nat \ {0} /\ pos \in Nat /\ released \in Nat
      /\ Len(stream) \in Nat
  BY <1>1, Sizes, Differences DEF Typed
<1>5. StreamInv' /\ \A p : Boundary(p)' <=> Boundary(p)
  BY <1>1, <1>3, SameStream
<1>6. pc = "off" /\ pos = released /\ ~running
  BY <1>1, <1>2 DEF ControlInv, PlaceInv
<1>7. read % RingLength \in 0..(RingLength - 1)
  <2>1. read \in Int
    BY <1>1, Sizes DEF CursorTyped
  <2> QED
    BY <1>4, <2>1, DivMod, Zenon
<1>8. GuestTyped' /\ pos' \in Nat /\ released' \in Nat
  BY <1>1, <1>2, <1>4 DEF GuestTyped, guest
<1>9. ThreadTyped'
  <2>1. pc' \in PCs
    BY <1>1 DEF start, Restored, ThreadTyped, PCs
  <2> QED
    BY <1>1, <1>3, <2>1 DEF ThreadTyped
<1>10. DeviceTyped'
  <2>1. quiesced' \in BOOLEAN /\ running' \in BOOLEAN
    BY <1>1, Zenon DEF start, Restored, DeviceTyped
  <2>2. control' \in {"started", "stopped"}
    BY <1>2 DEF start, Restored
  <2> QED
    BY <1>1, <1>2, <2>1, <2>2 DEF DeviceTyped
<1>11. ControlInv'
  BY <1>1 DEF ControlInv, start, Restored
<1>12. PlaceInv'
  <2>1. Between'
    BY <1>1, <1>2, <1>3, <1>5, <1>6 DEF Between, CountInv
  <2>2. pc' \in {"off", "loop"}
    BY <1>6 DEF start, Restored
  <2> QED
    BY <1>2, <1>6, <2>1, <2>2 DEF PlaceInv
<1>13. CASE start
  <2>1. /\ UNCHANGED <<pending_advance, read_count, last_read_count, cache_written>>
        /\ kind = "root" => UNCHANGED <<read_offset, last_read_offset>>
        /\ kind # "root" => read_offset' = read % RingLength /\ last_read_offset' = read % RingLength
    BY <1>13 DEF start, map_ring, CursorAtRead
  <2>2. CursorTyped'
    <3>1. read_offset' \in 0..RingLength /\ last_read_offset' \in 0..(RingLength - 1)
      BY <1>1, <1>4, <1>7, <2>1 DEF CursorTyped
    <3> QED
      BY <1>1, <1>2, <2>1, <3>1 DEF CursorTyped
  <2>3. CountInv'
    BY <1>1, <1>2, <1>3, <1>5, <2>1 DEF CountInv
  <2>4. OffsetInv'
    BY <1>1, <1>2, <1>3, <1>6, <1>7, <2>1 DEF OffsetInv, InPlace, Restarted
  <2> QED
    BY <1>1, <1>2, <1>5, <1>8, <1>9, <1>10, <1>11, <1>12, <2>2, <2>3, <2>4 DEF Orderly, Typed
<1>14. CASE Restored
  <2>1. /\ pending_advance' = 0 /\ control' = "stopped"
        /\ kind = "root" =>
             /\ read_offset' = read % RingLength /\ last_read_offset' = read % RingLength
             /\ UNCHANGED <<read_count, last_read_count, cache_written>>
        /\ kind # "root" =>
             /\ read_offset' = 0 /\ last_read_offset' = 0
             /\ read_count' = read /\ last_read_count' = read /\ cache_written' = written
    BY <1>2, <1>14 DEF Restored, set_root_read, CursorAtRead, init_from_node
  <2>2. CursorTyped'
    <3>1. read_offset' \in 0..RingLength /\ last_read_offset' \in 0..(RingLength - 1)
      BY <1>4, <1>7, <2>1
    <3>2. /\ read_count' \in 0..(CountSpan - 1) /\ last_read_count' \in 0..(CountSpan - 1)
          /\ cache_written' \in 0..(CountSpan - 1)
      BY <1>1, <2>1 DEF CursorTyped, GuestTyped
    <3>3. pending_advance' \in 0..(CountSpan - 1)
      BY <1>4, <2>1
    <3> QED
      BY <1>1, <1>2, <3>1, <3>2, <3>3 DEF CursorTyped
  <2>3. CountInv'
    <3>1. pending_advance' = pos' - released'
      BY <1>2, <1>4, <1>6, <2>1
    <3>2. Len(stream) \in pos..Len(stream) /\ written = Len(stream) % CountSpan
      BY <1>1, <1>4 DEF CountInv
    <3>3. kind = "child" =>
            /\ read_count' = pos' % CountSpan /\ last_read_count' = released' % CountSpan
            /\ \E c \in pos'..Len(stream') : cache_written' = c % CountSpan
      BY <1>1, <1>2, <1>3, <1>6, <2>1, <3>2 DEF CountInv
    <3> QED
      BY <1>1, <1>2, <1>3, <1>5, <3>1, <3>3 DEF CountInv
  <2>4. OffsetInv'
    BY <1>2, <1>3, <1>6, <1>7, <2>1 DEF OffsetInv, InPlace, Restarted
  <2> QED
    BY <1>1, <1>2, <1>5, <1>8, <1>9, <1>10, <1>11, <1>12, <2>2, <2>3, <2>4 DEF Orderly, Typed
<1> QED
  BY <1>13, <1>14

\* The guest publishes cells of a command that has room, in a stream that keeps its shape.
LEMMA PublishKeeps ==
  ASSUME Orderly, NEW cells \in Seq(Cell), NEW n \in 1..Len(cells), Publish(cells, n),
         commands' \in 0..MaxCommands, cut' \in BOOLEAN, cut => cut', StreamInv',
         Len(stream) + Len(cells) <= released + RingLength,
         unwritten = << >> => IsHeader(cells[1])
  PROVE  Orderly'
<1>1. /\ Typed /\ GuestTyped /\ CursorTyped /\ ThreadTyped /\ DeviceTyped
      /\ StreamInv /\ CountInv /\ OffsetInv /\ PlaceInv /\ ControlInv /\ stale = "no"
  BY DEF Orderly, Typed
<1>2. /\ written' = wrapping_add(written, n)
      /\ pc' = pc \/ (pc = "parked" /\ pc' = "read")
      /\ poke_owed' \in BOOLEAN
      /\ UNCHANGED <<kind, cursors, reading, device, pending, pos, released, stale>>
  BY <1>1 DEF Publish, WakeReader, history, GuestTyped
<1>3. UNCHANGED <<read, read_offset, last_read_offset, pending_advance, read_count, last_read_count,
                  cache_written, part, want, command, raised, quiesced, running, control>>
  BY <1>2 DEF cursors, reading, device
<1>4. /\ RingLength \in Nat \ {0} /\ CountSpan \in Nat \ {0} /\ pos \in Nat /\ released \in Nat
      /\ Len(stream) \in Nat /\ Len(cells) \in Nat /\ n \in 0..Len(cells) /\ n >= 1
      /\ released <= pos /\ pos <= Len(stream)
  <2>1. Len(stream) \in Nat /\ Len(cells) \in Nat
    BY <1>1, Differences
  <2>2. /\ pos \in Nat /\ released \in Nat /\ released <= pos /\ pos <= Len(stream)
    BY <1>1 DEF Typed, CountInv
  <2> QED
    BY <2>1, <2>2, Sizes
<1>5. /\ stream' \in Seq(Cell) /\ unwritten' \in Seq(Cell)
      /\ Len(stream') = Len(stream) + n /\ Len(unwritten') = Len(cells) - n
      /\ \A k \in 1..Len(stream) : stream'[k] = stream[k]
      /\ stream'[Len(stream) + 1] = cells[1]
  <2>1. stream \in Seq(Cell)
    BY <1>1 DEF GuestTyped
  <2>2. /\ stream' \in Seq(Cell) /\ unwritten' \in Seq(Cell)
        /\ Len(stream') = Len(stream) + n /\ Len(unwritten') = Len(cells) - n
        /\ \A k \in 1..Len(stream) : stream'[k] = stream[k]
        /\ \A k \in 1..n : stream'[Len(stream) + k] = cells[k]
    BY <1>1, <1>4, <2>1, PublishFacts, Zenon
  <2>3. 1 \in 1..n
    BY <1>4
  <2> QED
    BY <2>2, <2>3
<1>6. \A p \in Nat : Boundary(p) => Boundary(p)'
  <2> SUFFICES ASSUME NEW p \in Nat, Boundary(p) PROVE Boundary(p)'
    OBVIOUS
  <2>1. p <= Len(stream) /\ p < Len(stream')
    BY <1>4, <1>5 DEF Boundary
  <2>2. CASE p < Len(stream)
    <3>1. p + 1 \in 1..Len(stream) /\ IsHeader(stream[p + 1])
      BY <1>4, <2>2 DEF Boundary
    <3>2. stream'[p + 1] = stream[p + 1]
      BY <1>5, <3>1
    <3> QED
      BY <1>4, <1>5, <2>1, <3>1, <3>2 DEF Boundary
  <2>3. CASE p = Len(stream)
    <3>1. IsHeader(stream'[p + 1])
      BY <1>5, <2>3 DEF Boundary
    <3> QED
      BY <1>4, <1>5, <2>1, <3>1 DEF Boundary
  <2> QED
    BY <1>4, <2>1, <2>2, <2>3
<1>7. written' = Len(stream') % CountSpan /\ written' \in 0..(CountSpan - 1)
  <2>1. Len(stream) \in Int /\ n \in Int /\ Len(stream) + n \in Int
    BY <1>4
  <2>2. ((Len(stream) % CountSpan) + n) % CountSpan = (Len(stream) + n) % CountSpan
    BY <1>4, <2>1, WrappingAdd, Zenon
  <2>3. (Len(stream) + n) % CountSpan \in 0..(CountSpan - 1)
    BY <1>4, <2>1, DivMod, Zenon
  <2> QED
    BY <1>1, <1>2, <1>5, <2>2, <2>3 DEF wrapping_add, CountInv
<1>8. Typed'
  <2>1. GuestTyped'
    BY <1>1, <1>2, <1>5, <1>7 DEF GuestTyped
  <2>2. CursorTyped' /\ DeviceTyped' /\ pos' \in Nat /\ released' \in Nat
    BY <1>1, <1>2, <1>3, <1>4 DEF CursorTyped, DeviceTyped, device
  <2>3. ThreadTyped'
    <3>1. pc' \in PCs
      BY <1>1, <1>2 DEF ThreadTyped, PCs
    <3> QED
      BY <1>1, <1>3, <3>1 DEF ThreadTyped
  <2> QED
    BY <2>1, <2>2, <2>3 DEF Typed
<1>9. CountInv'
  <2>1. /\ released' <= pos' /\ pos' <= Len(stream')
        /\ Len(stream') + Len(unwritten') <= released' + RingLength
    BY <1>2, <1>4, <1>5
  <2>2. Boundary(released)'
    BY <1>1, <1>2, <1>4, <1>6 DEF CountInv
  <2>3. ASSUME kind = "child"
        PROVE  \E c \in pos..Len(stream') : cache_written = c % CountSpan
    <3>1. PICK c \in pos..Len(stream) : cache_written = c % CountSpan
      BY <1>1, <2>3 DEF CountInv
    <3>2. c \in pos..Len(stream')
      BY <1>4, <1>5
    <3> QED
      BY <3>1, <3>2
  <2> QED
    BY <1>1, <1>2, <1>3, <1>7, <2>1, <2>2, <2>3 DEF CountInv
<1>10. OffsetInv' /\ ControlInv' /\ stale' = "no"
  BY <1>1, <1>2, <1>3 DEF OffsetInv, InPlace, Restarted, ControlInv
<1>11. PlaceInv'
  <2>1. Between => Between'
    BY <1>2, <1>4, <1>6 DEF Between
  <2>2. Inside => Inside'
    <3>1. First' = First /\ Rest' = Rest
      BY <1>2, <1>3 DEF First, Rest
    <3>2. ASSUME First \in 1..pos PROVE stream'[First] = stream[First]
      <4>1. First \in 1..Len(stream)
        BY <1>4, <3>2
      <4> QED
        BY <1>5, <4>1
    <3> QED
      BY <1>2, <1>3, <3>1, <3>2 DEF Inside
  <2>3. pos >= 1 => stream'[pos] = stream[pos]
    BY <1>4, <1>5
  <2>4. Boundary(pos) => Boundary(pos)'
    BY <1>2, <1>4, <1>6
  <2> QED
    BY <1>1, <1>2, <1>3, <2>1, <2>2, <2>3, <2>4 DEF PlaceInv
<1> QED
  BY <1>8, <1>9, <1>10, <1>11 DEF Orderly

\* A command begun: its header alone or, a root's, the whole of it.
Begins(h, whole) ==
  /\ whole => kind = "root"
  /\ wrapping_sub(written, read) + Len(CellsOf(h)) <= RingLength
  /\ Publish(CellsOf(h), IF whole THEN Len(CellsOf(h)) ELSE 1)
  /\ cut' = (cut \/ (IF whole THEN Len(CellsOf(h)) ELSE 1) < Len(CellsOf(h)) \/ Frame(h) # "read")

\* The guest begins a command.
LEMMA WriteKeeps ==
  ASSUME Orderly, GuestWrites
  PROVE  Orderly'
<1>1. Typed /\ GuestTyped /\ StreamInv /\ CountInv /\ stale = "no"
  BY DEF Orderly, Typed
<1>2. /\ unwritten = << >> /\ commands < MaxCommands /\ commands' = commands + 1
      /\ \E h \in Headers(commands + 1), whole \in BOOLEAN : Begins(h, whole)
  BY DEF GuestWrites, Begins
<1>3. commands' \in 0..MaxCommands /\ commands + 1 \in Nat
  BY <1>1, <1>2, Sizes DEF GuestTyped
<1>4. PICK h \in Headers(commands + 1), whole \in BOOLEAN : Begins(h, whole)
  BY <1>2
<1>5. h \in Cell /\ IsHeader(h)
  BY <1>3, HeaderFacts
<1> DEFINE cells == CellsOf(h)
           s == Size(h)
           n == IF whole THEN s ELSE 1
           L == Len(stream)
<1>6. /\ cells \in Seq(Cell) /\ Len(cells) = s /\ cells[1] = h /\ s \in Nat \ {0}
      /\ \A i \in 2..s : ~IsHeader(cells[i])
  BY <1>5, CellsFacts, FrameFacts, Sizes
<1>7. Publish(cells, n) /\ cut' = (cut \/ n < s \/ Frame(h) # "read")
  BY <1>4, <1>6 DEF Begins
<1>8. n \in 1..s /\ n \in 0..s /\ (~cut' => ~cut /\ n = s /\ Frame(h) = "read")
  <2>1. n \in 1..s /\ n \in 0..s /\ (~(n < s) => n = s)
    BY <1>6
  <2>2. ~cut' => ~cut /\ ~(n < s) /\ Frame(h) = "read"
    BY <1>7, Zenon
  <2> QED
    BY <2>1, <2>2
<1> HIDE DEF cells, s, n
<1>9. L \in Nat /\ released \in Nat /\ L - released + s <= RingLength
  BY <1>1, <1>4, <1>6, Differences DEF Typed, cells, Begins
<1>10. /\ unwritten' \in Seq(Cell)
       /\ Len(stream') = L + n /\ Len(unwritten') = s - n
       /\ \A k \in 1..L : stream'[k] = stream[k]
       /\ \A k \in 1..n : stream'[L + k] = cells[k]
       /\ \A k \in 1..(s - n) : unwritten'[k] = cells[n + k]
  <2>1. stream \in Seq(Cell) /\ n \in 0..Len(cells)
    BY <1>1, <1>6, <1>8 DEF GuestTyped
  <2> QED
    BY <1>1, <1>6, <1>7, <2>1, PublishFacts
<1>11. kind' = kind
  BY <1>7 DEF Publish
<1>12. stream'[L + 1] = h
  <2>1. 1 \in 1..n
    BY <1>6, <1>8
  <2> QED
    BY <1>6, <1>10, <2>1
<1> HIDE DEF L
<1>13. StreamInv'
  <2>1. ASSUME Len(stream') > 0 PROVE IsHeader(stream'[1])
    <3>1. CASE L > 0
      <4>1. 1 \in 1..L /\ IsHeader(stream[1])
        BY <1>1, <1>9, <3>1 DEF StreamInv, L
      <4> QED
        BY <1>10, <4>1
    <3>2. CASE L = 0
      BY <1>5, <1>12, <3>2
    <3> QED
      BY <1>9, <3>1, <3>2
  <2>2. ASSUME NEW p \in 1..Len(stream'), IsHeader(stream'[p])
        PROVE  /\ p + Size(stream'[p]) <= Len(stream') => IsHeader(stream'[p + Size(stream'[p])])
               /\ p + Size(stream'[p]) > Len(stream') =>
                    p + Size(stream'[p]) - 1 = Len(stream') + Len(unwritten')
               /\ kind' = "root" /\ ~cut' => Frame(stream'[p]) = "read"
    <3>1. CASE p \in 1..L
      <4>1. stream'[p] = stream[p] /\ stream[p] \in Cell
        BY <1>1, <1>10, <3>1, ElementOfSeq DEF GuestTyped, L
      <4> DEFINE z == Size(stream[p])
      <4>2. z \in Nat
        BY <4>1, FrameFacts, Sizes
      <4>3. /\ p + z <= L => IsHeader(stream[p + z])
            /\ p + z > L => p + z - 1 = L + 0
            /\ kind = "root" /\ ~cut => Frame(stream[p]) = "read"
        <5>1. Len(unwritten) = 0
          BY <1>2
        <5> QED
          BY <1>1, <2>2, <3>1, <4>1, <5>1 DEF StreamInv, L
      <4> HIDE DEF z
      <4>4. p + z <= L => stream'[p + z] = stream[p + z]
        <5>1. p + z <= L => p + z \in 1..L
          BY <1>9, <3>1, <4>2
        <5> QED
          BY <1>10, <5>1
      <4>5. p + z > L => p + z = L + 1 /\ p + z <= Len(stream')
        BY <1>6, <1>8, <1>9, <1>10, <3>1, <4>2, <4>3
      <4>6. IsHeader(stream'[p + z]) /\ p + z <= Len(stream')
        <5>1. CASE p + z <= L
          BY <1>6, <1>8, <1>9, <1>10, <3>1, <4>2, <4>3, <4>4, <5>1
        <5>2. CASE p + z > L
          BY <1>5, <1>12, <4>5, <5>2
        <5> QED
          BY <1>9, <3>1, <4>2, <5>1, <5>2
      <4>7. ~(p + z > Len(stream'))
        BY <1>6, <1>8, <1>9, <1>10, <4>2, <4>6
      <4> QED
        BY <1>8, <1>11, <4>1, <4>3, <4>6, <4>7 DEF z
    <3>2. CASE p \notin 1..L
      <4>1. p - L \in 1..n /\ L + (p - L) = p
        BY <1>8, <1>9, <1>10, <3>2
      <4>2. stream'[p] = cells[p - L]
        BY <1>10, <4>1
      <4>3. p = L + 1
        <5>1. p - L \in 2..s => ~IsHeader(cells[p - L])
          BY <1>6
        <5> QED
          BY <1>6, <1>8, <1>9, <2>2, <4>1, <4>2, <5>1
      <4>4. stream'[p] = h
        BY <1>12, <4>3
      <4>5. /\ ~(p + s <= Len(stream')) /\ p + s - 1 = Len(stream') + Len(unwritten')
        BY <1>6, <1>8, <1>9, <1>10, <4>3
      <4> QED
        BY <1>5, <1>8, <1>11, <4>4, <4>5 DEF s
    <3> QED
      BY <3>1, <3>2
  <2>3. kind' = "root" /\ ~cut' => unwritten' = << >>
    <3>1. ~cut' => Len(unwritten') = 0
      BY <1>6, <1>8, <1>10
    <3> QED
      BY <1>10, <1>11, <3>1, EmptySeq
  <2>4. ASSUME NEW i \in 1..Len(unwritten') PROVE ~IsHeader(unwritten'[i])
    <3>1. i \in 1..(s - n) /\ n + i \in 2..s
      BY <1>6, <1>8, <1>10
    <3> QED
      BY <1>6, <1>10, <3>1
  <2> QED
    BY <2>1, <2>2, <2>3, <2>4 DEF StreamInv
<1>14. L + s <= released + RingLength
  BY <1>6, <1>9, Sizes
<1>15. cut' \in BOOLEAN /\ (cut => cut')
  BY <1>7, Zenon
<1> QED
  BY <1>3, <1>5, <1>6, <1>7, <1>8, <1>13, <1>14, <1>15, PublishKeeps DEF L

\* The guest publishes another cell of its command.
LEMMA ContinueKeeps ==
  ASSUME Orderly, GuestContinues
  PROVE  Orderly'
<1>1. Typed /\ GuestTyped /\ StreamInv /\ CountInv /\ stale = "no"
  BY DEF Orderly, Typed
<1>2. unwritten # << >> /\ Publish(unwritten, 1) /\ commands' = commands /\ cut' = cut
  BY DEF GuestContinues
<1> DEFINE L == Len(stream)
           u == Len(unwritten)
<1>3. /\ L \in Nat /\ u \in Nat \ {0} /\ released \in Nat /\ stream \in Seq(Cell) /\ unwritten \in Seq(Cell)
      /\ L + u <= released + RingLength /\ released <= L
  <2>1. stream \in Seq(Cell) /\ unwritten \in Seq(Cell) /\ released \in Nat
    BY <1>1 DEF Typed, GuestTyped
  <2>2. Len(unwritten) # 0
    BY <1>2, <2>1, EmptySeq
  <2>3. L + u <= released + RingLength /\ released <= L
    BY <1>1 DEF CountInv, Boundary
  <2> QED
    BY <2>1, <2>2, <2>3
<1>4. L > 0
  <2>1. released = L => unwritten = << >>
    BY <1>1 DEF CountInv, Boundary
  <2> QED
    BY <1>2, <1>3, <2>1
<1>5. kind' = kind /\ ~(kind = "root" /\ ~cut)
  BY <1>1, <1>2 DEF Publish, StreamInv
<1>6. /\ unwritten' \in Seq(Cell)
      /\ Len(stream') = L + 1 /\ Len(unwritten') = u - 1
      /\ \A k \in 1..L : stream'[k] = stream[k]
      /\ stream'[L + 1] = unwritten[1]
      /\ \A k \in 1..(u - 1) : unwritten'[k] = unwritten[1 + k]
  <2>1. 1 \in 0..Len(unwritten) /\ 1 \in 1..1
    BY <1>3
  <2> QED
    BY <1>1, <1>2, <1>3, <2>1, PublishFacts
<1>7. \A i \in 1..u : ~IsHeader(unwritten[i])
  BY <1>1 DEF StreamInv
<1>8. StreamInv'
  <2>1. IsHeader(stream'[1])
    <3>1. 1 \in 1..L /\ IsHeader(stream[1])
      BY <1>1, <1>3, <1>4 DEF StreamInv
    <3> QED
      BY <1>6, <3>1
  <2>2. ASSUME NEW p \in 1..Len(stream'), IsHeader(stream'[p])
        PROVE  /\ p + Size(stream'[p]) <= Len(stream') => IsHeader(stream'[p + Size(stream'[p])])
               /\ p + Size(stream'[p]) > Len(stream') =>
                    p + Size(stream'[p]) - 1 = Len(stream') + Len(unwritten')
    <3>1. p \in 1..L
      <4>1. p # L + 1
        <5>1. 1 \in 1..u
          BY <1>3
        <5> QED
          BY <1>6, <1>7, <2>2, <5>1
      <4> QED
        BY <1>3, <1>6, <4>1
    <3>2. stream'[p] = stream[p] /\ stream[p] \in Cell
      BY <1>3, <1>6, <3>1, ElementOfSeq
    <3> DEFINE z == Size(stream[p])
    <3>3. z \in Nat
      BY <3>2, FrameFacts, Sizes
    <3>4. /\ p + z <= L => IsHeader(stream[p + z])
          /\ p + z > L => p + z - 1 = L + u
      BY <1>1, <2>2, <3>1, <3>2 DEF StreamInv
    <3> HIDE DEF z, L, u
    <3>5. CASE p + z <= L
      <4>1. p + z \in 1..L /\ ~(p + z > Len(stream'))
        BY <1>3, <1>6, <3>1, <3>3, <3>5
      <4>2. IsHeader(stream'[p + z])
        BY <1>6, <3>4, <3>5, <4>1
      <4> QED
        BY <3>2, <4>1, <4>2 DEF z
    <3>6. CASE p + z > L
      <4>1. ~(p + z <= Len(stream')) /\ p + z - 1 = Len(stream') + Len(unwritten')
        BY <1>3, <1>6, <3>1, <3>3, <3>4, <3>6
      <4> QED
        BY <3>2, <4>1 DEF z
    <3> QED
      BY <1>3, <3>1, <3>3, <3>5, <3>6
  <2>3. ASSUME NEW i \in 1..Len(unwritten') PROVE ~IsHeader(unwritten'[i])
    <3>1. i \in 1..(u - 1) /\ 1 + i \in 1..u
      BY <1>3, <1>6
    <3> QED
      BY <1>6, <1>7, <3>1
  <2> QED
    BY <1>2, <1>5, <2>1, <2>2, <2>3 DEF StreamInv
<1>9. 1 \in 1..Len(unwritten) /\ commands' \in 0..MaxCommands /\ cut' \in BOOLEAN /\ (cut => cut')
  BY <1>1, <1>2, <1>3 DEF GuestTyped
<1> QED
  BY <1>2, <1>3, <1>8, <1>9, PublishKeeps

\* The guest's doorbell.
LEMMA PokeKeeps ==
  ASSUME Orderly, poke
  PROVE  Orderly'
<1>1. /\ Typed /\ GuestTyped /\ CursorTyped /\ ThreadTyped /\ DeviceTyped
      /\ StreamInv /\ CountInv /\ OffsetInv /\ PlaceInv /\ ControlInv /\ stale = "no"
  BY DEF Orderly, Typed
<1>2. /\ poke_owed' = FALSE /\ (pc' = pc \/ (pc = "parked" /\ pc' = "read"))
      /\ UNCHANGED <<kind, stream, unwritten, commands, cut, written, cursors, reading, device,
                     pending, pos, released, stale>>
  BY DEF poke, WakeReader, history
<1>3. UNCHANGED <<read, read_offset, last_read_offset, pending_advance, read_count, last_read_count,
                  cache_written, part, want, command, raised, quiesced, running, control>>
  BY <1>2 DEF cursors, reading, device
<1>4. StreamInv' /\ \A p : Boundary(p)' <=> Boundary(p)
  BY <1>1, <1>2, SameStream
<1>5. Typed'
  <2>1. GuestTyped' /\ CursorTyped' /\ pos' \in Nat /\ released' \in Nat
    BY <1>1, <1>2, <1>3 DEF GuestTyped, CursorTyped, Typed
  <2>2. ThreadTyped'
    BY <1>1, <1>2, <1>3 DEF ThreadTyped, PCs
  <2>3. DeviceTyped'
    BY <1>1, <1>2 DEF DeviceTyped, device
  <2> QED
    BY <2>1, <2>2, <2>3 DEF Typed
<1>6. CountInv'
  BY <1>1, <1>2, <1>3, <1>4 DEF CountInv
<1>7. OffsetInv' /\ ControlInv' /\ stale' = "no"
  BY <1>1, <1>2, <1>3 DEF OffsetInv, InPlace, Restarted, ControlInv
<1>8. PlaceInv'
  <2>1. (Between' <=> Between) /\ (Inside' <=> Inside)
    BY <1>2, <1>3, <1>4 DEF Between, Inside, First, Rest
  <2> QED
    BY <1>1, <1>2, <1>3, <1>4, <2>1 DEF PlaceInv
<1> QED
  BY <1>4, <1>5, <1>6, <1>7, <1>8 DEF Orderly

\* Every step of the guest, the thread and the device.
LEMMA NextOrderly ==
  ASSUME Orderly, [Next]_vars, stale' = "no"
  PROVE  Orderly'
<1>1. CASE GuestWrites \/ GuestContinues \/ poke
  BY <1>1, WriteKeeps, ContinueKeeps, PokeKeeps
<1>2. CASE LoopHead \/ ReadDone \/ ReadQuiesced \/ wait_barriers \/ push_stamp \/ dispatch
  BY <1>2, ThreadStill
<1>3. CASE ReadCopies
  BY <1>3, CopyKeeps
<1>4. CASE ReadWraps \/ ReadParks
  BY <1>4, WrapsAndParks
<1>5. CASE advance
  BY <1>5, AdvanceKeeps
<1>6. CASE rewind \/ ThreadExits
  BY <1>6, RewindKeeps, ExitKeeps
<1>7. CASE StampPublished \/ quiesce \/ drain \/ DrainReturns
  BY <1>7, DeviceStill
<1>8. CASE start \/ Restored
  BY <1>8, StartKeeps
<1>9. CASE UNCHANGED vars
  <2>1. /\ UNCHANGED <<guest, cursors, reading, pos, released, stale, pc, quiesced>>
        /\ UNCHANGED <<part, want, command, raised, running, control, pauses, pending>>
    BY <1>9 DEF vars, guest, cursors, reading, device, history
  <2>2. ThreadTyped /\ DeviceTyped /\ PlaceInv /\ ControlInv
    BY DEF Orderly, Typed
  <2>3. ThreadTyped' /\ DeviceTyped' /\ ControlInv'
    BY <2>1, <2>2 DEF ThreadTyped, DeviceTyped, ControlInv
  <2> QED
    BY <2>1, <2>2, <2>3, SamePlace, StillKeeps
<1> QED
  BY <1>1, <1>2, <1>3, <1>4, <1>5, <1>6, <1>7, <1>8, <1>9 DEF Next, Thread

-----------------------------------------------------------------------------
(* What has run, and in which order *)

\* The well-formed commands of a published part of the stream.
LEMMA InCommands ==
  ASSUME NEW n \in Nat, Len(stream) \in Nat, n <= Len(stream), NEW x
  PROVE  x \in CommandsIn(n) <=> \E p \in 1..n : Runs(stream[p]) /\ x = stream[p].id
<1>1. Least(n, Len(stream)) = n
  BY DEF Least
<1> QED
  BY <1>1 DEF CommandsIn, Runs

\* The commands of a part of the stream stay the same as the stream grows.
LEMMA SameCommands ==
  ASSUME NEW n \in Nat, Len(stream) \in Nat, Len(stream') \in Nat,
         n <= Len(stream), Len(stream) <= Len(stream'),
         \A k \in 1..Len(stream) : stream'[k] = stream[k]
  PROVE  CommandsIn(n)' = CommandsIn(n)
<1>1. \A p \in 1..n : stream'[p] = stream[p]
  OBVIOUS
<1>2. Least(n, Len(stream)) = n /\ Least(n, Len(stream')) = n
  BY DEF Least
<1> DEFINE now == {q \in 1..n : IsHeader(stream[q]) /\ Frame(stream[q]) = "read"}
           next == {q \in 1..n : IsHeader(stream'[q]) /\ Frame(stream'[q]) = "read"}
<1>3. CommandsIn(n) = {stream[p].id : p \in now}
  BY <1>2 DEF CommandsIn
<1>4. CommandsIn(n)' = {stream'[p].id : p \in next}
  BY <1>2 DEF CommandsIn
<1>5. now = next
  BY <1>1
<1>6. \A p \in now : stream'[p] = stream[p]
  BY <1>1
<1> HIDE DEF now, next
<1> QED
  BY <1>3, <1>4, <1>5, <1>6

\* Steps that leave alone where the thread is in its command, what is released and what has run.
\* The stream may grow, and a reading thread park or be woken.
LEMMA SameOpen ==
  ASSUME Orderly, OpenInv, RanInv, Len(stream') \in Nat, Len(stream) <= Len(stream'),
         \A k \in 1..Len(stream) : stream'[k] = stream[k],
         UNCHANGED <<part, want, command, pos, released, ran>>,
         quiesced => quiesced', pc' = pc \/ {pc, pc'} \subseteq {"read", "parked"}
  PROVE  OpenInv' /\ RanInv'
<1>1. /\ Len(stream) \in Nat /\ pos \in Nat /\ released \in Nat /\ released <= pos /\ pos <= Len(stream)
      /\ command \in Cell /\ want \in Nat
  BY Differences, Sizes DEF Orderly, CountInv, Typed, ThreadTyped
<1>2. CommandsIn(released)' = CommandsIn(released)
  BY <1>1, SameCommands
<1>3. RanInv'
  BY <1>2 DEF RanInv
<1>4. ASSUME NEW p \in Int, p <= pos
      PROVE  Passed(p)' <=> Passed(p)
  <2>1. \A q \in (released + 1)..p : stream'[q] = stream[q]
    BY <1>1, <1>4
  <2> QED
    BY <2>1 DEF Passed
<1>5. First' = First /\ Began' = Began
  BY DEF First, Rest, Began
<1>6. pos \in Int /\ pos - 1 \in Int /\ pos - 1 <= pos /\ pos <= pos
  BY <1>1
<1>7. pc \in {"read", "parked"} /\ part \in {"barriers", "payload"} => First - 1 \in Int /\ First - 1 <= pos
  <2>1. pc \in {"read", "parked"} /\ part \in {"barriers", "payload"} => First \in 1..pos
    BY DEF Orderly, PlaceInv, Inside
  <2> QED
    BY <1>1, <2>1
<1>8. ASSUME pc \in {"barrier", "advance"}
      PROVE  /\ Began - 1 \in Int /\ Began - 1 <= pos /\ stream'[Began] = stream[Began]
  <2>1. Began \in (released + 1)..pos
    BY <1>8 DEF OpenInv
  <2> QED
    BY <1>1, <2>1
<1> HIDE DEF First, Began
<1>9. pc' \in {"loop", "dispatch"} => quiesced' \/ Passed(pos)'
  BY <1>4, <1>6 DEF OpenInv
<1>10. pc' \in {"read", "parked"} =>
       \/ part' = "header" /\ want' = 1 /\ Passed(pos)'
       \/ part' = "header" /\ want' = 0 /\ pos' > released' /\ Passed(pos - 1)'
       \/ part' \in {"barriers", "payload"} /\ First' > released' /\ Passed(First - 1)'
  <2> SUFFICES ASSUME pc' \in {"read", "parked"}
               PROVE  \/ part' = "header" /\ want' = 1 /\ Passed(pos)'
                      \/ part' = "header" /\ want' = 0 /\ pos' > released' /\ Passed(pos - 1)'
                      \/ part' \in {"barriers", "payload"} /\ First' > released' /\ Passed(First - 1)'
    OBVIOUS
  <2>1. \/ part = "header" /\ want = 1 /\ Passed(pos)
        \/ part = "header" /\ want = 0 /\ pos > released /\ Passed(pos - 1)
        \/ part \in {"barriers", "payload"} /\ First > released /\ Passed(First - 1)
    BY DEF OpenInv
  <2>2. part \in {"barriers", "payload"} /\ Passed(First - 1) => Passed(First - 1)'
    BY <1>4, <1>5, <1>7 DEF Passed
  <2> QED
    BY <1>4, <1>5, <1>6, <2>1, <2>2
<1>11. pc' \in {"barrier", "advance"} =>
         /\ Began' \in (released' + 1)..pos' /\ stream'[Began'] = command' /\ Runs(command')
         /\ Passed(Began - 1)'
  <2> SUFFICES ASSUME pc' \in {"barrier", "advance"}
               PROVE  /\ Began' \in (released' + 1)..pos' /\ stream'[Began'] = command'
                      /\ Runs(command') /\ Passed(Began - 1)'
    OBVIOUS
  <2>1. /\ pc \in {"barrier", "advance"} /\ Began \in (released + 1)..pos
        /\ stream[Began] = command /\ Runs(command) /\ Passed(Began - 1)
    BY DEF OpenInv
  <2>2. Passed(Began - 1)'
    BY <1>4, <1>5, <1>8, <2>1 DEF Passed
  <2> QED
    BY <1>5, <1>8, <2>1, <2>2
<1>12. pc' = "push" => Frame(command') \in {"fault", "read"} /\ Passed(pos)'
  BY <1>4, <1>6 DEF OpenInv
<1>13. OpenInv'
  BY <1>9, <1>10, <1>11, <1>12 DEF OpenInv
<1> QED
  BY <1>3, <1>13

\* The numbers and the bodies, when the guest publishes nothing.
LEMMA SameNumbers ==
  ASSUME BodyInv, IdInv, UNCHANGED <<stream, commands>>
  PROVE  BodyInv' /\ IdInv'
  BY DEF BodyInv, IdInv

\* The guest begins a command: its number is the next, and only its first cell is a header.
LEMMA WriteNumbers ==
  ASSUME Orderly, BodyInv, IdInv, GuestWrites
  PROVE  /\ BodyInv' /\ IdInv' /\ Len(stream') \in Nat /\ Len(stream) <= Len(stream')
         /\ \A k \in 1..Len(stream) : stream'[k] = stream[k]
<1>1. Typed /\ GuestTyped /\ StreamInv /\ stale = "no"
  BY DEF Orderly, Typed
<1>2. unwritten = << >> /\ commands' = commands + 1 /\ commands \in Nat
  BY <1>1, Sizes DEF GuestWrites, GuestTyped
<1>3. PICK h \in Headers(commands + 1), whole \in BOOLEAN :
           Publish(CellsOf(h), IF whole THEN Len(CellsOf(h)) ELSE 1)
  BY DEF GuestWrites
<1>4. h \in Cell /\ IsHeader(h) /\ h.id = commands + 1
  <2>1. h \in Cell /\ IsHeader(h)
    BY <1>2, <1>3, HeaderFacts
  <2>2. \A n, b : Header(n, b, commands + 1).id = commands + 1
    BY DEF Header
  <2>3. \/ h \in {Header(n, b, commands + 1) : n \in Lengths, b \in {0, 1}}
        \/ h \in {Header(0, 0, commands + 1), Header(RingLength + 1, 0, commands + 1),
                  Header(1, 1, commands + 1)}
    BY <1>3 DEF Headers
  <2> QED
    BY <2>1, <2>2, <2>3
<1> DEFINE cells == CellsOf(h)
           s == Size(h)
           n == IF whole THEN s ELSE 1
           L == Len(stream)
<1>5. /\ cells \in Seq(Cell) /\ Len(cells) = s /\ cells[1] = h /\ s \in Nat \ {0}
      /\ \A i \in 2..s : ~IsHeader(cells[i])
  BY <1>4, CellsFacts, FrameFacts, Sizes
<1>6. n \in 1..s /\ n \in 0..s /\ Publish(cells, n)
  BY <1>3, <1>5
<1> HIDE DEF cells, s, n
<1>7. L \in Nat
  BY <1>1 DEF GuestTyped
<1>8. /\ Len(stream') = L + n
      /\ \A k \in 1..L : stream'[k] = stream[k]
      /\ \A k \in 1..n : stream'[L + k] = cells[k]
  <2>1. stream \in Seq(Cell) /\ n \in 0..Len(cells)
    BY <1>1, <1>5, <1>6 DEF GuestTyped
  <2> QED
    BY <1>1, <1>5, <1>6, <2>1, PublishFacts
<1>9. ASSUME NEW p \in 1..Len(stream'), IsHeader(stream'[p]), p \notin 1..L
      PROVE  p = L + 1 /\ stream'[p] = h
  <2>1. p - L \in 1..n /\ L + (p - L) = p
    BY <1>5, <1>6, <1>7, <1>8, <1>9
  <2>2. stream'[p] = cells[p - L]
    BY <1>8, <2>1
  <2>3. p - L \in 2..s => ~IsHeader(cells[p - L])
    BY <1>5
  <2>4. p - L = 1
    BY <1>5, <1>6, <1>7, <1>9, <2>1, <2>2, <2>3
  <2> QED
    BY <1>5, <1>7, <2>2, <2>4
<1>10. ASSUME NEW p \in 1..L, IsHeader(stream[p])
       PROVE  Size(stream[p]) \in Nat /\ p + Size(stream[p]) <= L + 1
  <2>1. stream[p] \in Cell /\ Len(unwritten) = 0
    BY <1>1, <1>2, <1>10, ElementOfSeq DEF GuestTyped
  <2>2. Size(stream[p]) \in Nat
    BY <2>1, FrameFacts, Sizes
  <2>3. p + Size(stream[p]) > L => p + Size(stream[p]) - 1 = L + 0
    BY <1>1, <1>10, <2>1 DEF StreamInv
  <2> QED
    BY <1>7, <1>10, <2>2, <2>3
<1> HIDE DEF L
<1>11. BodyInv'
  <2> SUFFICES ASSUME NEW p \in 1..Len(stream'), NEW q \in 1..Len(stream'),
                      IsHeader(stream'[p]), p < q, q < p + Size(stream'[p]), IsHeader(stream'[q])
               PROVE  FALSE
    BY DEF BodyInv
  <2>1. CASE p \in 1..L
    <3>1. stream'[p] = stream[p]
      BY <1>8, <2>1
    <3>2. q < L + 1 /\ q \in 1..L
      BY <1>7, <1>10, <2>1, <3>1
    <3>3. stream'[q] = stream[q]
      BY <1>8, <3>2
    <3> QED
      BY <2>1, <3>1, <3>2, <3>3 DEF BodyInv, L
  <2>2. CASE p \notin 1..L
    <3>1. p = L + 1
      BY <1>9, <2>2 DEF L
    <3>2. q \notin 1..L
      BY <1>7, <3>1
    <3>3. q = L + 1
      BY <1>9, <3>2 DEF L
    <3> QED
      BY <1>7, <3>1, <3>3
  <2> QED
    BY <2>1, <2>2
<1>12. IdInv'
  <2> SUFFICES ASSUME NEW q \in 1..Len(stream'), IsHeader(stream'[q])
               PROVE  /\ stream'[q].id \in 1..commands'
                      /\ \A p \in 1..(q - 1) : IsHeader(stream'[p]) => stream'[p].id < stream'[q].id
    BY DEF IdInv
  <2>1. CASE q \in 1..L
    <3>1. stream'[q] = stream[q] /\ \A p \in 1..(q - 1) : stream'[p] = stream[p]
      BY <1>7, <1>8, <2>1
    <3>2. /\ stream[q].id \in 1..commands
          /\ \A p \in 1..(q - 1) : IsHeader(stream[p]) => stream[p].id < stream[q].id
      BY <2>1, <3>1 DEF IdInv, L
    <3> QED
      BY <1>2, <3>1, <3>2
  <2>2. CASE q \notin 1..L
    <3>1. q = L + 1 /\ stream'[q].id = commands + 1
      BY <1>4, <1>9, <2>2 DEF L
    <3>2. \A p \in 1..(q - 1) : p \in 1..L /\ stream'[p] = stream[p]
      BY <1>7, <1>8, <3>1
    <3>3. \A p \in 1..L : IsHeader(stream[p]) => stream[p].id \in 1..commands
      BY DEF IdInv, L
    <3>4. \A p \in 1..(q - 1) : IsHeader(stream'[p]) => stream'[p].id \in 1..commands
      BY <3>2, <3>3
    <3> QED
      BY <1>2, <3>1, <3>4
  <2> QED
    BY <2>1, <2>2
<1>13. Len(stream') \in Nat /\ L <= Len(stream')
  BY <1>5, <1>6, <1>7, <1>8
<1> QED
  BY <1>8, <1>11, <1>12, <1>13 DEF L

\* The guest publishes another cell of its command: no header.
LEMMA ContinueNumbers ==
  ASSUME Orderly, BodyInv, IdInv, GuestContinues
  PROVE  /\ BodyInv' /\ IdInv' /\ Len(stream') \in Nat /\ Len(stream) <= Len(stream')
         /\ \A k \in 1..Len(stream) : stream'[k] = stream[k]
<1>1. Typed /\ GuestTyped /\ StreamInv /\ stale = "no"
  BY DEF Orderly, Typed
<1>2. unwritten # << >> /\ Publish(unwritten, 1) /\ commands' = commands
  BY DEF GuestContinues
<1> DEFINE L == Len(stream)
<1>3. stream \in Seq(Cell) /\ unwritten \in Seq(Cell) /\ L \in Nat /\ Len(unwritten) \in Nat \ {0}
  <2>1. stream \in Seq(Cell) /\ unwritten \in Seq(Cell)
    BY <1>1 DEF GuestTyped
  <2> QED
    BY <1>2, <2>1, EmptySeq
<1>4. /\ Len(stream') = L + 1 /\ stream'[L + 1] = unwritten[1]
      /\ \A k \in 1..L : stream'[k] = stream[k]
  <2>1. 1 \in 0..Len(unwritten) /\ 1 \in 1..1
    BY <1>3
  <2> QED
    BY <1>1, <1>2, <1>3, <2>1, PublishFacts
<1>5. ~IsHeader(stream'[L + 1])
  <2>1. 1 \in 1..Len(unwritten)
    BY <1>3
  <2> QED
    BY <1>1, <1>4, <2>1 DEF StreamInv
<1>6. \A p \in 1..Len(stream') : IsHeader(stream'[p]) => p \in 1..L /\ stream'[p] = stream[p]
  BY <1>3, <1>4, <1>5
<1>7. BodyInv'
  <2> SUFFICES ASSUME NEW p \in 1..Len(stream'), NEW q \in 1..Len(stream'),
                      IsHeader(stream'[p]), p < q, q < p + Size(stream'[p]), IsHeader(stream'[q])
               PROVE  FALSE
    BY DEF BodyInv
  <2>1. p \in 1..L /\ q \in 1..L /\ stream'[p] = stream[p] /\ stream'[q] = stream[q]
    BY <1>6
  <2> QED
    BY <2>1 DEF BodyInv
<1>8. IdInv'
  <2> SUFFICES ASSUME NEW q \in 1..Len(stream'), IsHeader(stream'[q])
               PROVE  /\ stream'[q].id \in 1..commands'
                      /\ \A p \in 1..(q - 1) : IsHeader(stream'[p]) => stream'[p].id < stream'[q].id
    BY DEF IdInv
  <2>1. q \in 1..L /\ stream'[q] = stream[q]
    BY <1>6
  <2>2. \A p \in 1..(q - 1) : stream'[p] = stream[p]
    BY <1>3, <1>4, <2>1
  <2> QED
    BY <1>2, <2>1, <2>2 DEF IdInv
<1> QED
  BY <1>3, <1>4, <1>7, <1>8

\* The steps after which the thread is where it was in its command.
LEMMA QuietRuns ==
  ASSUME Orderly, RunInv,
         \/ GuestWrites \/ GuestContinues \/ poke \/ ReadWraps \/ ReadParks
         \/ StampPublished \/ quiesce \/ drain \/ DrainReturns \/ UNCHANGED vars
  PROVE  RunInv'
<1>1. BodyInv /\ IdInv /\ OpenInv /\ RanInv /\ Len(stream) \in Nat
  BY Differences DEF RunInv, Orderly
<1>2. /\ UNCHANGED <<part, want, command, pos, released, ran>>
      /\ (quiesced => quiesced') /\ (pc' = pc \/ {pc, pc'} \subseteq {"read", "parked"})
  <2>1. CASE GuestWrites
    BY <2>1 DEF GuestWrites, Publish, WakeReader, reading, history, device
  <2>2. CASE GuestContinues
    BY <2>2 DEF GuestContinues, Publish, WakeReader, reading, history, device
  <2>3. CASE poke
    BY <2>3 DEF poke, WakeReader, reading, history, device
  <2>4. CASE ReadWraps \/ ReadParks
    BY <2>4 DEF ReadWraps, ReadParks, reading, history, device
  <2>5. CASE StampPublished \/ quiesce \/ DrainReturns
    BY <2>5 DEF StampPublished, quiesce, DrainReturns, reading, history, device
  <2>6. CASE drain
    BY <2>6 DEF drain, WakeReader, reading, history, device
  <2>7. CASE UNCHANGED vars
    BY <2>7 DEF vars, reading, history, device
  <2> QED
    BY <2>1, <2>2, <2>3, <2>4, <2>5, <2>6, <2>7
<1>3. /\ BodyInv' /\ IdInv' /\ Len(stream') \in Nat /\ Len(stream) <= Len(stream')
      /\ \A k \in 1..Len(stream) : stream'[k] = stream[k]
  <2>1. CASE GuestWrites
    BY <1>1, <2>1, WriteNumbers
  <2>2. CASE GuestContinues
    BY <1>1, <2>2, ContinueNumbers
  <2>3. CASE ~GuestWrites /\ ~GuestContinues
    <3>1. stream' = stream /\ commands' = commands
      BY <2>3 DEF poke, ReadWraps, ReadParks, StampPublished, quiesce, drain, DrainReturns, vars, guest
    <3> QED
      BY <1>1, <3>1, SameNumbers
  <2> QED
    BY <2>1, <2>2, <2>3
<1>4. OpenInv' /\ RanInv'
  BY <1>1, <1>2, <1>3, SameOpen
<1> QED
  BY <1>3, <1>4 DEF RunInv

\* Steps of the thread that consume and release nothing.
LEMMA ThreadRuns ==
  ASSUME Orderly, RunInv, LoopHead \/ ReadDone \/ ReadQuiesced \/ wait_barriers \/ push_stamp \/ dispatch
  PROVE  RunInv'
<1>1. /\ BodyInv /\ IdInv /\ OpenInv /\ RanInv /\ Len(stream) \in Nat /\ pos \in Nat
      /\ released \in Nat /\ command \in Cell /\ ran \in Seq(Nat) /\ PlaceInv /\ ThreadTyped
      /\ released <= pos /\ pos <= Len(stream)
  BY Differences DEF RunInv, Orderly, Typed, ThreadTyped, RanInv, CountInv
<1>2. UNCHANGED <<stream, commands, pos, released, command, quiesced>>
  BY DEF LoopHead, ReadDone, ReadQuiesced, wait_barriers, push_stamp, dispatch, history, guest,
         reading, device
<1>3. BodyInv' /\ IdInv'
  BY <1>1, <1>2, SameNumbers
<1>4. /\ CommandsIn(released)' = CommandsIn(released)
      /\ \A p : Passed(p)' <=> Passed(p)
  BY <1>2 DEF CommandsIn, Passed
<1>5. SUFFICES OpenInv' /\ RanInv'
  BY <1>3 DEF RunInv
<1>6. CASE LoopHead
  <2>1. pc = "loop" /\ ran' = ran /\ pc' # "push"
        /\ \/ quiesced /\ pc' = "rewind"
           \/ ~quiesced /\ pc' = "read" /\ part' = "header" /\ want' = 1
    BY <1>6 DEF LoopHead, history
  <2>2. OpenInv'
    BY <1>1, <1>2, <1>4, <2>1 DEF OpenInv
  <2>3. RanInv'
    BY <1>1, <1>4, <2>1 DEF RanInv
  <2> QED
    BY <2>2, <2>3
<1>7. CASE ReadDone
  <2>1. pc = "read" /\ ~quiesced /\ want = 0 /\ ran' = ran
    BY <1>7 DEF ReadDone, history
  <2>2. CASE part = "header"
    <3>1. pos >= 1 /\ command = stream[pos] /\ IsHeader(command)
      BY <1>1, <2>1, <2>2 DEF PlaceInv
    <3>2. pos > released /\ Passed(pos - 1)
      BY <1>1, <2>1, <2>2 DEF OpenInv
    <3>3. CASE Frame(command) # "read"
      <4>1. /\ pc' \in {"loop", "push"} /\ (pc' = "push" => Frame(command) = "fault")
        BY <2>2, <3>3, <1>7 DEF ReadDone
      <4>2. Passed(pos)
        <5> SUFFICES ASSUME NEW q \in (released + 1)..pos, Runs(stream[q]) PROVE FALSE
          BY DEF Passed
        <5>1. q # pos
          BY <3>1, <3>3 DEF Runs
        <5>2. q \in (released + 1)..(pos - 1)
          BY <1>1, <5>1
        <5> QED
          BY <3>2, <5>2 DEF Passed
      <4>3. OpenInv'
        BY <1>2, <1>4, <4>1, <4>2 DEF OpenInv
      <4>4. RanInv'
        BY <1>1, <1>2, <1>4, <2>1, <3>3, <4>1 DEF RanInv
      <4> QED
        BY <4>3, <4>4
    <3>4. CASE Frame(command) = "read"
      <4>1. /\ pc' = "read"
            /\ \/ part' = "barriers" /\ want' = 1
               \/ part' = "payload" /\ want' = command.length - 1
        BY <1>7, <2>1, <2>2, <3>4 DEF ReadDone
      <4>2. command.length \in Nat
        BY <1>1 DEF Cell
      <4>3. First' = pos
        BY <1>1, <1>2, <4>1, <4>2 DEF First, Rest
      <4>4. OpenInv'
        <5>1. Passed(pos - 1)'
          BY <1>2, <3>2, <1>4 DEF Passed
        <5>2. Passed(First - 1)'
          BY <1>2, <4>3, <5>1 DEF Passed
        <5>3. First' > released' /\ part' \in {"barriers", "payload"}
          BY <1>2, <3>2, <4>1, <4>3
        <5> QED
          BY <4>1, <5>2, <5>3 DEF OpenInv
      <4>5. RanInv'
        BY <1>1, <1>4, <2>1, <4>1 DEF RanInv
      <4> QED
        BY <4>4, <4>5
    <3> QED
      BY <3>3, <3>4
  <2>3. CASE part # "header"
    <3>1. Inside /\ First > released /\ Passed(First - 1)
      BY <1>1, <2>1, <2>3 DEF PlaceInv, OpenInv
    <3>2. command.length \in Nat
      BY <1>1 DEF Cell
    <3>3. CASE part = "barriers"
      <4>1. pc' = "read" /\ part' = "payload" /\ want' = command.length - 2
        BY <1>7, <2>1, <3>3 DEF ReadDone
      <4>2. First' = First
        BY <1>1, <1>2, <2>1, <3>2, <3>3, <4>1 DEF First, Rest
      <4>3. OpenInv'
        <5>1. Passed(First - 1)'
          BY <1>2, <3>1, <4>2 DEF Passed
        <5>2. First' > released' /\ part' \in {"barriers", "payload"}
          BY <1>2, <3>1, <4>1, <4>2
        <5> QED
          BY <4>1, <5>1, <5>2 DEF OpenInv
      <4>4. RanInv'
        BY <1>1, <1>4, <2>1, <4>1 DEF RanInv
      <4> QED
        BY <4>3, <4>4
    <3>4. CASE part = "payload"
      <4>1. pc' \in {"barrier", "advance"}
        BY <1>7, <3>4 DEF ReadDone
      <4>2. Began' = First
        BY <1>1, <1>2, <2>1, <3>2, <3>4 DEF First, Rest, Began
      <4>3. First \in 1..pos /\ stream[First] = command /\ Runs(command)
        BY <3>1 DEF Inside, Runs
      <4>4. OpenInv'
        <5>1. Passed(Began - 1)'
          BY <1>2, <3>1, <4>2 DEF Passed
        <5> HIDE DEF First
        <5>2. Began' \in (released' + 1)..pos'
          BY <1>1, <1>2, <3>1, <4>2, <4>3
        <5>3. stream'[Began'] = command' /\ Runs(command')
          BY <1>2, <4>2, <4>3
        <5>4. Runs(command)'
          BY <5>3 DEF Runs
        <5> QED
          BY <4>1, <5>1, <5>2, <5>3, <5>4 DEF OpenInv
      <4>5. RanInv'
        BY <1>1, <1>4, <2>1, <4>1 DEF RanInv
      <4> QED
        BY <4>4, <4>5
    <3> QED
      BY <1>1, <2>3, <3>3, <3>4 DEF ThreadTyped
  <2> QED
    BY <2>2, <2>3
<1>8. CASE ReadQuiesced
  <2>1. pc = "read" /\ quiesced /\ pc' \in {"rewind", "loop"} /\ ran' = ran
    BY <1>8 DEF ReadQuiesced, history
  <2>2. OpenInv'
    BY <1>2, <2>1 DEF OpenInv
  <2>3. RanInv'
    BY <1>1, <1>4, <2>1 DEF RanInv
  <2> QED
    BY <2>2, <2>3
<1>9. CASE wait_barriers
  <2>1. pc = "barrier" /\ pc' \in {"advance", "rewind"} /\ ran' = ran
    BY <1>9 DEF wait_barriers, history
  <2>2. Began' = Began
    BY <1>2 DEF Began
  <2>3. OpenInv'
    <3>1. /\ Began \in (released + 1)..pos /\ stream[Began] = command /\ Runs(command)
          /\ Passed(Began - 1)
      BY <1>1, <2>1 DEF OpenInv
    <3>2. Passed(Began - 1)' /\ Runs(command)'
      BY <1>2, <2>2, <3>1 DEF Passed, Runs
    <3>3. Began' \in (released' + 1)..pos' /\ stream'[Began'] = command'
      BY <1>2, <2>2, <3>1
    <3> QED
      BY <2>1, <3>2, <3>3 DEF OpenInv
  <2>4. RanInv'
    BY <1>1, <1>4, <2>1 DEF RanInv
  <2> QED
    BY <2>3, <2>4
<1>10. CASE push_stamp
  <2>1. /\ pc = "push" /\ pc' \in {"loop", "dispatch"}
        /\ ran' = IF Frame(command) = "fault" THEN ran ELSE Append(ran, command.id)
    BY <1>10 DEF push_stamp, Orderly
  <2>2. Frame(command) \in {"fault", "read"} /\ Passed(pos)
    BY <1>1, <2>1 DEF OpenInv
  <2>3. OpenInv'
    <3>1. Passed(pos)'
      BY <1>2, <2>2 DEF Passed
    <3> QED
      BY <2>1, <3>1 DEF OpenInv
  <2>4. ran' \in Seq(Nat)
    <3>1. command.id \in Nat
      BY <1>1 DEF Cell
    <3> QED
      BY <1>1, <2>1, <3>1
  <2>5. InOrder(ran', CommandsIn(released))
    BY <1>1, <2>1, <2>2 DEF RanInv
  <2>6. RanInv'
    BY <1>4, <2>1, <2>4, <2>5 DEF RanInv, InOrder
  <2> QED
    BY <2>3, <2>6
<1>11. CASE dispatch
  <2>1. pc = "dispatch" /\ pc' = "loop" /\ ran' = ran
    BY <1>11 DEF dispatch, history
  <2>2. OpenInv'
    <3>1. Passed(pos) => Passed(pos)'
      BY <1>2 DEF Passed
    <3> QED
      BY <1>1, <1>2, <2>1, <3>1 DEF OpenInv
  <2>3. RanInv'
    BY <1>1, <1>4, <2>1 DEF RanInv
  <2> QED
    BY <2>2, <2>3
<1> QED
  BY <1>6, <1>7, <1>8, <1>9, <1>10, <1>11

\* A copy leaves the released cells, what has run and where the command began.
LEMMA CopyRuns ==
  ASSUME Orderly, RunInv, ReadCopies, Orderly'
  PROVE  RunInv'
<1>1. /\ BodyInv /\ IdInv /\ OpenInv /\ RanInv /\ pos \in Nat /\ released \in Nat /\ command \in Cell
      /\ released <= pos /\ want \in Nat /\ PlaceInv /\ PlaceInv' /\ part \in {"header", "barriers", "payload"}
  BY Sizes DEF RunInv, Orderly, Typed, ThreadTyped, CountInv
<1>2. pc = "read" /\ want > 0 /\ UNCHANGED <<stream, commands, released, ran, pc, part>>
  BY DEF ReadCopies, Consumes, Orderly
<1> DEFINE count == Least(Available, Least(want, RingLength - read_offset))
<1>3. want' = want - count /\ pos' = pos + count /\ (part # "header" => command' = command)
  BY DEF ReadCopies, Consumes, Orderly
<1> HIDE DEF count
<1>4. want' \in Nat /\ pos' \in Nat
  BY Sizes DEF Orderly, Typed, ThreadTyped
<1>5. BodyInv' /\ IdInv'
  BY <1>1, <1>2, SameNumbers
<1>6. RanInv'
  <2>1. CommandsIn(released)' = CommandsIn(released)
    BY <1>2 DEF CommandsIn
  <2> QED
    BY <1>1, <1>2, <2>1 DEF RanInv
<1>7. OpenInv'
  <2>1. CASE part = "header"
    <3>1. want = 1 /\ Passed(pos)
      BY <1>1, <1>2, <2>1 DEF OpenInv
    <3>2. Available \in Nat /\ Available > 0 /\ RingLength - read_offset > 0 /\ RingLength - read_offset \in Nat
      <4>1. read_offset \in 0..RingLength /\ RingLength \in Nat /\ read_offset # RingLength
        BY Sizes DEF Orderly, Typed, CursorTyped, ReadCopies
      <4>2. Available \in Nat /\ Available > 0
        BY AvailableType DEF Orderly, ReadCopies
      <4> QED
        BY <4>1, <4>2
    <3>3. count = 1
      BY <3>1, <3>2 DEF count, Least
    <3>4. want' = 0 /\ pos' = pos + 1 /\ pos' - 1 = pos
      BY <1>1, <1>3, <3>1, <3>3
    <3>5. Passed(pos - 1)'
      BY <1>2, <3>1, <3>4 DEF Passed
    <3>6. pos' > released'
      BY <1>1, <1>2, <3>4
    <3> QED
      BY <1>2, <2>1, <3>4, <3>5, <3>6 DEF OpenInv
  <2>2. CASE part # "header"
    <3>1. First > released /\ Passed(First - 1)
      BY <1>1, <1>2, <2>2 DEF OpenInv
    <3>2. First' = First
      <4>1. /\ want \in Int /\ pos \in Int /\ count \in Int /\ command.length \in Int
        <5>1. count = pos' - pos
          <6>1. \A c : pos + c \in Nat /\ c \in Int => c = (pos + c) - pos
            BY <1>1
          <6>2. count \in Int
            <7>1. Available \in Nat /\ RingLength \in Nat /\ read_offset \in 0..RingLength
              BY AvailableType, Sizes DEF Orderly, Typed, CursorTyped
            <7> QED
              BY <1>1, <7>1 DEF count, Least
          <6> QED
            BY <1>3, <1>4, <6>1, <6>2
        <5> QED
          BY <1>1, <1>4, <5>1 DEF Cell
      <4>2. Rest' = Rest /\ Rest \in Int
        BY <1>2, <1>3, <2>2, <4>1 DEF Rest
      <4> HIDE DEF Rest
      <4> QED
        BY <1>3, <2>2, <4>1, <4>2 DEF First
    <3>3. Passed(First - 1)'
      BY <1>2, <3>1, <3>2 DEF Passed
    <3>4. First' > released' /\ part' \in {"barriers", "payload"}
      BY <1>1, <1>2, <2>2, <3>1, <3>2
    <3> QED
      BY <1>2, <3>3, <3>4 DEF OpenInv
  <2> QED
    BY <2>1, <2>2
<1> QED
  BY <1>5, <1>6, <1>7 DEF RunInv

\* The command in hand is released: it comes after all that have run, and nothing else is due.
LEMMA AdvanceRuns ==
  ASSUME Orderly, RunInv, advance
  PROVE  RunInv'
<1>1. /\ BodyInv /\ IdInv /\ OpenInv /\ RanInv /\ Len(stream) \in Nat /\ pos \in Nat
      /\ released \in Nat /\ command \in Cell /\ ran \in Seq(Nat)
      /\ released <= pos /\ pos <= Len(stream)
  BY Differences DEF RunInv, Orderly, Typed, ThreadTyped, RanInv, CountInv
<1>2. /\ pc = "advance" /\ pc' = "push" /\ released' = pos
      /\ UNCHANGED <<stream, commands, pos, command, ran>>
  BY DEF advance, guest, reading
<1>3. BodyInv' /\ IdInv'
  BY <1>1, <1>2, SameNumbers
<1>4. /\ Began \in (released + 1)..pos /\ stream[Began] = command /\ Runs(command)
      /\ Passed(Began - 1)
  BY <1>1, <1>2 DEF OpenInv
<1>5. OpenInv'
  <2>1. Passed(pos)'
    BY <1>1, <1>2 DEF Passed
  <2>2. Frame(command') = "read"
    BY <1>2, <1>4 DEF Runs
  <2> QED
    BY <1>2, <2>1, <2>2 DEF OpenInv
<1> DEFINE f == Began
<1>6. /\ f \in Nat /\ released < f /\ f <= pos /\ f + command.length = pos + 1 /\ f \in 1..Len(stream)
  <2>1. command.length \in Nat
    BY <1>1 DEF Cell
  <2> QED
    BY <1>1, <1>4, <2>1 DEF Began
<1> HIDE DEF f
<1>7. stream[f] = command /\ \A q \in (released + 1)..(f - 1) : ~Runs(stream[q])
  BY <1>4 DEF f, Passed
<1>8. \A q \in (f + 1)..pos : ~Runs(stream[q])
  <2> SUFFICES ASSUME NEW q \in (f + 1)..pos, Runs(stream[q]) PROVE FALSE
    OBVIOUS
  <2>1. Size(stream[f]) = command.length /\ IsHeader(stream[f])
    BY <1>4, <1>7 DEF Size, Runs
  <2>2. q \in 1..Len(stream) /\ f < q /\ q < f + command.length
    BY <1>1, <1>6
  <2> QED
    BY <1>1, <1>6, <2>1, <2>2 DEF BodyInv, Runs
<1>9. \A x : x \in CommandsIn(pos) <=> x \in CommandsIn(released) \/ x = command.id
  <2> SUFFICES ASSUME NEW x PROVE x \in CommandsIn(pos) <=> x \in CommandsIn(released) \/ x = command.id
    OBVIOUS
  <2>1. x \in CommandsIn(pos) <=> \E p \in 1..pos : Runs(stream[p]) /\ x = stream[p].id
    BY <1>1, InCommands
  <2>2. x \in CommandsIn(released) <=> \E p \in 1..released : Runs(stream[p]) /\ x = stream[p].id
    BY <1>1, InCommands
  <2>3. \A p \in 1..pos : Runs(stream[p]) => p \in 1..released \/ p = f
    <3> SUFFICES ASSUME NEW p \in 1..pos, Runs(stream[p]) PROVE p \in 1..released \/ p = f
      OBVIOUS
    <3>1. p \notin (released + 1)..(f - 1) /\ p \notin (f + 1)..pos
      BY <1>7, <1>8
    <3> QED
      BY <1>1, <1>6, <3>1
  <2>4. f \in 1..pos /\ Runs(stream[f]) /\ 1..released \subseteq 1..pos
    BY <1>1, <1>4, <1>6, <1>7
  <2> QED
    BY <1>7, <2>1, <2>2, <2>3, <2>4
<1>10. InOrder(ran, CommandsIn(released))
  BY <1>1, <1>2 DEF RanInv
<1>11. \A i \in DOMAIN ran : ran[i] < command.id
  <2> SUFFICES ASSUME NEW i \in DOMAIN ran PROVE ran[i] < command.id
    OBVIOUS
  <2>1. ran[i] \in CommandsIn(released)
    BY <1>10 DEF InOrder
  <2>2. PICK p \in 1..released : Runs(stream[p]) /\ ran[i] = stream[p].id
    BY <1>1, <2>1, InCommands
  <2>3. p \in 1..(f - 1) /\ IsHeader(stream[p]) /\ IsHeader(stream[f])
    BY <1>1, <1>4, <1>6, <1>7, <2>2 DEF Runs
  <2> QED
    BY <1>1, <1>6, <1>7, <2>2, <2>3 DEF IdInv
<1>12. InOrder(Append(ran, command.id), CommandsIn(pos))
  <2> DEFINE ids == Append(ran, command.id)
             n == Len(ran)
  <2>1. n \in Nat /\ DOMAIN ran = 1..n /\ command.id \in Nat
    BY <1>1 DEF Cell
  <2>2. /\ DOMAIN ids = 1..(n + 1) /\ ids[n + 1] = command.id
        /\ \A i \in 1..n : ids[i] = ran[i]
    BY <1>1, <2>1
  <2> HIDE DEF ids, n
  <2>3. \A i, j \in DOMAIN ids : i < j => ids[i] < ids[j]
    <3> SUFFICES ASSUME NEW i \in 1..(n + 1), NEW j \in 1..(n + 1), i < j PROVE ids[i] < ids[j]
      BY <2>2
    <3>1. i \in 1..n /\ ids[i] = ran[i]
      BY <2>1, <2>2
    <3>2. CASE j = n + 1
      BY <1>11, <2>1, <2>2, <3>1, <3>2
    <3>3. CASE j # n + 1
      <4>1. j \in 1..n /\ ids[j] = ran[j]
        BY <2>1, <2>2, <3>3
      <4> QED
        BY <1>10, <2>1, <3>1, <4>1 DEF InOrder
    <3> QED
      BY <3>2, <3>3
  <2>4. {ids[i] : i \in DOMAIN ids} = CommandsIn(pos)
    <3>1. ASSUME NEW x PROVE x \in {ids[i] : i \in DOMAIN ids} <=> x \in CommandsIn(pos)
      <4>1. x \in {ids[i] : i \in DOMAIN ids} <=> (\E i \in 1..n : x = ran[i]) \/ x = command.id
        <5>1. \A i \in 1..(n + 1) : i \in 1..n \/ i = n + 1
          BY <2>1
        <5>2. n + 1 \in 1..(n + 1) /\ 1..n \subseteq 1..(n + 1)
          BY <2>1
        <5> QED
          BY <2>2, <5>1, <5>2
      <4>2. x \in CommandsIn(released) <=> \E i \in 1..n : x = ran[i]
        BY <1>10, <2>1 DEF InOrder
      <4> QED
        BY <1>9, <4>1, <4>2
    <3> QED
      BY <3>1
  <2> QED
    BY <2>3, <2>4 DEF InOrder, ids
<1>13. RanInv'
  <2>1. CommandsIn(released)' = CommandsIn(pos)
    BY <1>2 DEF CommandsIn
  <2>2. InOrder(Append(ran', command'.id), CommandsIn(released)')
    BY <1>2, <1>12, <2>1
  <2>3. ran' \in Seq(Nat) /\ pc' = "push" /\ Frame(command') = "read"
    BY <1>1, <1>2, <1>4 DEF Runs
  <2> QED
    BY <2>2, <2>3 DEF RanInv, InOrder
<1> QED
  BY <1>3, <1>5, <1>13 DEF RunInv

\* The ends of the thread, and the device's starts and restores: what was not released is rewound.
LEMMA RestartRuns ==
  ASSUME Orderly, RunInv, rewind \/ ThreadExits \/ start \/ Restored
  PROVE  RunInv'
<1>1. /\ BodyInv /\ IdInv /\ OpenInv /\ RanInv /\ PlaceInv /\ ControlInv /\ released \in Nat
  BY DEF RunInv, Orderly, Typed
<1>2. /\ UNCHANGED <<stream, commands, released, command, ran>>
  BY DEF rewind, ThreadExits, start, Restored, guest, reading, history
<1>3. BodyInv' /\ IdInv'
  BY <1>1, <1>2, SameNumbers
<1>4. pc \in {"rewind", "exit", "off"} /\ pc' \in {"exit", "off", "loop"}
  <2>1. Restored => pc = "off" /\ pc' = "off"
    BY <1>1 DEF ControlInv, Restored
  <2>2. start => pc = "off" /\ pc' = "loop"
    BY <1>1 DEF ControlInv, start
  <2> QED
    BY <2>1, <2>2 DEF rewind, ThreadExits
<1>5. RanInv'
  <2>1. CommandsIn(released)' = CommandsIn(released)
    BY <1>2 DEF CommandsIn
  <2> QED
    BY <1>1, <1>2, <1>4, <2>1 DEF RanInv
<1>6. pc' = "loop" => pos' = released'
  BY <1>1 DEF PlaceInv, ControlInv, rewind, ThreadExits, start, Restored, history
<1>7. pc' = "loop" => Passed(pos)'
  BY <1>1, <1>2, <1>6 DEF Passed
<1>8. OpenInv'
  BY <1>4, <1>7 DEF OpenInv
<1> QED
  BY <1>3, <1>5, <1>8 DEF RunInv

\* Every step of the guest, the thread and the device.
LEMMA NextRuns ==
  ASSUME Orderly, RunInv, [Next]_vars, stale' = "no"
  PROVE  RunInv'
<1>1. Orderly'
  BY NextOrderly
<1>2. CASE \/ GuestWrites \/ GuestContinues \/ poke \/ ReadWraps \/ ReadParks
           \/ StampPublished \/ quiesce \/ drain \/ DrainReturns \/ UNCHANGED vars
  BY <1>2, QuietRuns
<1>3. CASE LoopHead \/ ReadDone \/ ReadQuiesced \/ wait_barriers \/ push_stamp \/ dispatch
  BY <1>3, ThreadRuns
<1>4. CASE ReadCopies
  BY <1>1, <1>4, CopyRuns
<1>5. CASE advance
  BY <1>5, AdvanceRuns
<1>6. CASE rewind \/ ThreadExits \/ start \/ Restored
  BY <1>6, RestartRuns
<1> QED
  BY <1>2, <1>3, <1>4, <1>5, <1>6 DEF Next, Thread

-----------------------------------------------------------------------------
(* What holds after a copy of other cells too *)

\* What a publication leaves typed, whatever has been copied.
LEMMA PublishTypes ==
  ASSUME Typed, NEW cells \in Seq(Cell), NEW n \in 1..Len(cells), Publish(cells, n)
  PROVE  /\ stream' \in Seq(Cell) /\ unwritten' \in Seq(Cell) /\ written' \in 0..(CountSpan - 1)
         /\ poke_owed' \in BOOLEAN
<1>1. GuestTyped
  BY DEF Typed
<1>2. Len(cells) \in Nat /\ n \in Nat /\ \A i \in 1..Len(cells) : cells[i] \in Cell
  BY ElementOfSeq
<1>3. unwritten' \in Seq(Cell)
  <2>1. n + 1 \in Int /\ Len(cells) \in Int /\ \A i \in (n + 1)..Len(cells) : cells[i] \in Cell
    BY <1>2
  <2>2. SubSeq(cells, n + 1, Len(cells)) \in Seq(Cell)
    BY <2>1, SubSeqProperties
  <2> QED
    BY <2>2 DEF Publish
<1>4. stream' \in Seq(Cell)
  <2>1. CASE stale = "no"
    <3>1. stream \in Seq(Cell) /\ n \in 0..Len(cells)
      BY <1>1, <1>2 DEF GuestTyped
    <3> QED
      BY <2>1, <3>1, PublishFacts
  <2>2. CASE stale # "no"
    BY <1>1, <2>2 DEF Publish, GuestTyped
  <2> QED
    BY <2>1, <2>2
<1>5. written' \in 0..(CountSpan - 1)
  <2>1. written + n \in Int /\ CountSpan \in Nat \ {0}
    BY <1>1, <1>2, Sizes DEF GuestTyped
  <2>2. (written + n) % CountSpan \in 0..(CountSpan - 1)
    BY <2>1, DivMod, Zenon
  <2> QED
    BY <2>2 DEF Publish, wrapping_add
<1>6. poke_owed' \in BOOLEAN
  BY <1>1 DEF Publish, GuestTyped
<1> QED
  BY <1>3, <1>4, <1>5, <1>6

\* The guest's steps.
LEMMA GuestTypes ==
  ASSUME Typed, PartInv, GuestWrites \/ GuestContinues \/ poke
  PROVE  Typed' /\ PartInv'
<1>1. GuestTyped /\ CursorTyped /\ ThreadTyped /\ DeviceTyped /\ pos \in Nat /\ released \in Nat
  BY DEF Typed
<1>2. /\ pc' = pc \/ (pc = "parked" /\ pc' = "read")
      /\ UNCHANGED <<kind, cursors, reading, device, pending, pos, released>>
  BY DEF GuestWrites, GuestContinues, poke, Publish, WakeReader, history
<1>3. UNCHANGED <<read, read_offset, last_read_offset, pending_advance, read_count, last_read_count,
                  cache_written, part, want, command, raised, quiesced, running, control, pauses>>
  BY <1>2 DEF cursors, reading, device
<1>4. PartInv' /\ CursorTyped' /\ DeviceTyped' /\ pos' \in Nat /\ released' \in Nat
  BY <1>1, <1>2, <1>3 DEF PartInv, CursorTyped, DeviceTyped
<1>5. ThreadTyped'
  BY <1>1, <1>2, <1>3 DEF ThreadTyped, PCs
<1>6. SUFFICES GuestTyped'
  BY <1>4, <1>5 DEF Typed
<1>7. CASE GuestWrites
  <2>1. commands' \in 0..MaxCommands /\ commands + 1 \in Nat
    BY <1>1, <1>7, Sizes DEF GuestWrites, GuestTyped
  <2>2. PICK h \in Headers(commands + 1), whole \in BOOLEAN : Begins(h, whole)
    BY <1>7 DEF GuestWrites, Begins
  <2>3. h \in Cell /\ IsHeader(h)
    BY <2>1, HeaderFacts
  <2>4. CellsOf(h) \in Seq(Cell) /\ Len(CellsOf(h)) \in Nat \ {0}
    BY <2>3, CellsFacts, FrameFacts, Sizes
  <2> DEFINE n == IF whole THEN Len(CellsOf(h)) ELSE 1
  <2>5. Publish(CellsOf(h), n) /\ n \in 1..Len(CellsOf(h))
    BY <2>2, <2>4 DEF Begins
  <2> HIDE DEF n
  <2>6. /\ stream' \in Seq(Cell) /\ unwritten' \in Seq(Cell) /\ written' \in 0..(CountSpan - 1)
        /\ poke_owed' \in BOOLEAN
    BY <2>4, <2>5, PublishTypes
  <2>7. cut' \in BOOLEAN
    BY <2>2, Zenon DEF Begins
  <2> QED
    BY <1>1, <1>2, <2>1, <2>6, <2>7 DEF GuestTyped
<1>8. CASE GuestContinues
  <2>1. unwritten # << >> /\ Publish(unwritten, 1) /\ commands' = commands /\ cut' = cut
    BY <1>8 DEF GuestContinues
  <2>2. unwritten \in Seq(Cell) /\ 1 \in 1..Len(unwritten)
    <3>1. unwritten \in Seq(Cell)
      BY <1>1 DEF GuestTyped
    <3>2. Len(unwritten) # 0 /\ Len(unwritten) \in Nat
      BY <2>1, <3>1, EmptySeq
    <3> QED
      BY <3>1, <3>2
  <2>3. /\ stream' \in Seq(Cell) /\ unwritten' \in Seq(Cell) /\ written' \in 0..(CountSpan - 1)
        /\ poke_owed' \in BOOLEAN
    BY <2>1, <2>2, PublishTypes
  <2> QED
    BY <1>1, <1>2, <2>1, <2>3 DEF GuestTyped
<1>9. CASE poke
  BY <1>1, <1>9 DEF poke, GuestTyped
<1> QED
  BY <1>7, <1>8, <1>9

\* The thread's steps between its reads.
LEMMA ThreadTypes ==
  ASSUME Typed, PartInv, LoopHead \/ ReadDone \/ ReadQuiesced \/ wait_barriers \/ push_stamp \/ dispatch
  PROVE  Typed' /\ PartInv'
<1>1. /\ GuestTyped /\ CursorTyped /\ ThreadTyped /\ DeviceTyped /\ pos \in Nat /\ released \in Nat
      /\ RingLength \in Nat \ {0}
  BY Sizes DEF Typed
<1>2. UNCHANGED <<guest, cursors, device, pos, released, command>>
  BY DEF LoopHead, ReadDone, ReadQuiesced, wait_barriers, push_stamp, dispatch, history, reading
<1>3. GuestTyped' /\ CursorTyped' /\ pos' \in Nat /\ released' \in Nat
  BY <1>1, <1>2 DEF GuestTyped, CursorTyped, guest, cursors
<1>4. DeviceTyped'
  <2>1. pending' \in 0..Capacity
    BY <1>1, Sizes DEF DeviceTyped, LoopHead, ReadDone, ReadQuiesced, wait_barriers, push_stamp, dispatch
  <2> QED
    BY <1>1, <1>2, <2>1 DEF DeviceTyped, device
<1>5. raised' \in BOOLEAN
  BY <1>1, Zenon DEF LoopHead, ReadDone, ReadQuiesced, wait_barriers, push_stamp, dispatch, reading, ThreadTyped
<1>6. ASSUME Frame(command) = "read"
      PROVE  command.length \in 1..RingLength /\ command.barriers <= command.length - 1 /\ command.barriers \in Nat
  BY <1>1, <1>6, FrameFacts DEF ThreadTyped, Cell
<1>7. pc' \in PCs /\ part' \in {"header", "barriers", "payload"}
  BY <1>1 DEF LoopHead, ReadDone, ReadQuiesced, wait_barriers, push_stamp, dispatch, reading,
              ThreadTyped, PCs
<1>8. want' \in 0..RingLength
  <2>1. CASE ReadDone /\ part = "barriers"
    BY <1>1, <1>6, <2>1 DEF ReadDone, PartInv
  <2>2. CASE ReadDone /\ part # "barriers"
    BY <1>1, <1>6, <2>2 DEF ReadDone, ThreadTyped
  <2>3. CASE ~ReadDone
    BY <1>1, <2>3 DEF LoopHead, ReadQuiesced, wait_barriers, push_stamp, dispatch, reading, ThreadTyped
  <2> QED
    BY <2>1, <2>2, <2>3
<1>9. PartInv'
  <2>1. read_offset' = read_offset
    BY <1>2 DEF cursors
  <2>2. CASE ReadDone
    BY <1>2, <2>1, <2>2 DEF ReadDone, PartInv
  <2>3. CASE ~ReadDone
    BY <1>2, <2>1, <2>3 DEF LoopHead, ReadQuiesced, wait_barriers, push_stamp, dispatch, PartInv
  <2> QED
    BY <2>2, <2>3
<1> QED
  BY <1>1, <1>2, <1>3, <1>4, <1>5, <1>7, <1>8, <1>9 DEF Typed, ThreadTyped

\* A set of numbers up to n has a greatest.
LEMMA GreatestElement ==
  ASSUME NEW n \in Nat, NEW S \in SUBSET (1..n), S # {}
  PROVE  \E x \in S : \A y \in S : y <= x
<1> DEFINE T == {n - y : y \in S}
<1>1. T \in SUBSET Nat /\ T # {}
  <2>1. PICK y \in S : TRUE
    OBVIOUS
  <2>2. n - y \in T
    OBVIOUS
  <2> QED
    BY <2>2
<1>2. PICK t \in T : \A u \in T : ~(u < t)
  <2> HIDE DEF T
  <2> QED
    BY <1>1, LeastElement, Zenon
<1>3. PICK x \in S : t = n - x
  OBVIOUS
<1>4. \A y \in S : y <= x
  <2> SUFFICES ASSUME NEW y \in S PROVE y <= x
    OBVIOUS
  <2>1. ~(n - y < t)
    BY <1>2
  <2> QED
    BY <1>3, <2>1
<1> QED
  BY <1>4

\* A copy, of whatever cells.
LEMMA CopyTypes ==
  ASSUME Typed, PartInv, ReadCopies
  PROVE  Typed' /\ PartInv'
<1> DEFINE count == Least(Available, Least(want, RingLength - read_offset))
<1>1. /\ GuestTyped /\ CursorTyped /\ ThreadTyped /\ DeviceTyped /\ pos \in Nat /\ released \in Nat
  BY DEF Typed
<1>2. /\ want \in 0..RingLength /\ read_offset \in 0..RingLength /\ Available \in Nat
      /\ RingLength \in Nat \ {0} /\ CountSpan \in Nat \ {0}
  BY <1>1, Sizes, AvailableType DEF ThreadTyped, CursorTyped
<1>3. pc = "read" /\ read_offset # RingLength /\ want > 0 /\ Available > 0
  BY DEF ReadCopies
<1>4. count \in Nat /\ count > 0 /\ count <= want /\ read_offset + count <= RingLength
  BY <1>2, <1>3 DEF Least
<1>5. /\ read_offset' = read_offset + count /\ want' = want - count
      /\ IF kind = "root"
         THEN /\ pending_advance' = wrapping_add(pending_advance, count)
              /\ UNCHANGED <<read_count, cache_written>>
         ELSE /\ read_count' = wrapping_add(read_count, count)
              /\ cache_written' = IF Reloads THEN written ELSE cache_written
              /\ UNCHANGED pending_advance
      /\ IF part = "header" THEN command' \in TakenFor(read_offset) ELSE command' = command
      /\ Consumes(count)
      /\ UNCHANGED <<kind, unwritten, commands, cut, written, poke_owed, read, last_read_offset,
                     last_read_count, pc, part, raised, device, pending>>
  BY DEF ReadCopies, Reload
<1> HIDE DEF count
<1>6. pos' \in Nat /\ released' \in Nat /\ stream' \in Seq(Cell)
  <2>1. released' \in Nat /\ stream' \in {stream, << >>} /\ pos' \in {pos + count, released'}
    BY <1>1, <1>5 DEF Consumes
  <2> QED
    <3>1. << >> \in Seq(Cell)
      OBVIOUS
    <3>2. stream' \in Seq(Cell)
      BY <1>1, <2>1, <3>1 DEF GuestTyped
    <3>3. pos + count \in Nat
      BY <1>1, <1>4
    <3> QED
      BY <2>1, <3>2, <3>3
<1>7. command' \in Cell
  <2>1. CASE part = "header"
    <3>1. RingCell(read_offset) \in Cell
      <4> DEFINE there == {q \in 1..Len(stream) : (q - 1) % RingLength = read_offset}
                 best == CHOOSE q \in there : \A r \in there : r <= q
      <4>1. Zeroed \in Cell
        BY DEF Zeroed, Header, Cell
      <4>2. stream \in Seq(Cell) /\ Len(stream) \in Nat
        BY <1>1 DEF GuestTyped
      <4>3. ASSUME there # {} PROVE best \in there
        <5>1. \E q \in there : \A r \in there : r <= q
          BY <4>2, <4>3, GreatestElement
        <5> QED
          BY <5>1
      <4>4. there # {} => stream[best] \in Cell
        BY <4>2, <4>3, ElementOfSeq
      <4>5. RingCell(read_offset) = IF there = {} THEN Zeroed ELSE stream[best]
        BY DEF RingCell
      <4> QED
        BY <4>1, <4>4, <4>5
    <3>2. {Zeroed, Header(1, 1, 0), Header(RingLength, 0, 0)} \subseteq Cell
      BY <1>2 DEF Zeroed, Header, Cell
    <3> QED
      BY <1>5, <2>1, <3>1, <3>2 DEF TakenFor
  <2>2. CASE part # "header"
    BY <1>1, <1>5, <2>2 DEF ThreadTyped
  <2> QED
    BY <2>1, <2>2
<1>8. ThreadTyped'
  <2>1. want' \in 0..RingLength
    BY <1>2, <1>4, <1>5
  <2> QED
    BY <1>1, <1>5, <1>7, <2>1 DEF ThreadTyped
<1>9. \A a \in Nat : (a + count) % CountSpan \in 0..(CountSpan - 1)
  <2> SUFFICES ASSUME NEW a \in Nat PROVE (a + count) % CountSpan \in 0..(CountSpan - 1)
    OBVIOUS
  <2>1. a + count \in Int
    BY <1>4
  <2> QED
    BY <1>2, <2>1, DivMod, Zenon
<1>10. CursorTyped'
  <2>1. pending_advance' \in 0..(CountSpan - 1) /\ read_count' \in 0..(CountSpan - 1)
    <3>1. pending_advance \in Nat /\ read_count \in Nat
      BY <1>1, <1>2 DEF CursorTyped
    <3> QED
      BY <1>1, <1>5, <1>9, <3>1 DEF CursorTyped, wrapping_add
  <2>2. cache_written' \in 0..(CountSpan - 1)
    BY <1>1, <1>5 DEF CursorTyped, GuestTyped
  <2>3. read_offset' \in 0..RingLength
    BY <1>2, <1>4, <1>5
  <2> QED
    BY <1>1, <1>5, <2>1, <2>2, <2>3 DEF CursorTyped
<1>11. GuestTyped' /\ DeviceTyped'
  BY <1>1, <1>5, <1>6 DEF GuestTyped, DeviceTyped, device
<1>12. PartInv'
  BY <1>3, <1>5 DEF PartInv
<1> QED
  BY <1>6, <1>8, <1>10, <1>11, <1>12 DEF Typed

\* The steps that move the cursors otherwise.
LEMMA CursorTypes ==
  ASSUME Typed, PartInv, ReadWraps \/ ReadParks \/ advance \/ rewind
  PROVE  Typed' /\ PartInv'
<1>1. /\ GuestTyped /\ CursorTyped /\ ThreadTyped /\ DeviceTyped /\ pos \in Nat /\ released \in Nat
      /\ RingLength \in Nat \ {0} /\ CountSpan \in Nat \ {0}
  BY Sizes DEF Typed
<1>2. UNCHANGED <<guest, reading, device, pending>>
  BY DEF ReadWraps, ReadParks, advance, rewind
<1>3. GuestTyped' /\ DeviceTyped'
  BY <1>1, <1>2 DEF GuestTyped, DeviceTyped, guest, device
<1>4. pos' \in Nat /\ released' \in Nat
  BY <1>1 DEF ReadWraps, ReadParks, advance, rewind, history
<1>5. ThreadTyped' /\ PartInv'
  <2>1. pc' \in PCs
    BY <1>1 DEF ReadWraps, ReadParks, advance, rewind, ThreadTyped, PCs
  <2>2. ThreadTyped'
    BY <1>1, <1>2, <2>1 DEF ThreadTyped, reading
  <2>3. pc \in {"barrier"} => FALSE
    BY DEF ReadWraps, ReadParks, advance, rewind
  <2>4. PartInv'
    BY <1>2 DEF ReadWraps, ReadParks, advance, rewind, PartInv, reading
  <2> QED
    BY <2>2, <2>4
<1>6. CursorTyped'
  <2>1. CASE ReadWraps \/ ReadParks
    <3>1. read_offset' \in 0..RingLength
      BY <1>1, <2>1 DEF ReadWraps, ReadParks, CursorTyped
    <3>2. cache_written' \in 0..(CountSpan - 1)
      BY <1>1, <2>1 DEF ReadWraps, ReadParks, Reload, CursorTyped, GuestTyped
    <3> QED
      BY <1>1, <2>1, <3>1, <3>2 DEF ReadWraps, ReadParks, CursorTyped
  <2>2. CASE advance
    <3>1. last_read_offset' \in 0..(RingLength - 1)
      BY <1>1, <2>2 DEF advance, CursorTyped, PartInv
    <3>2. read' \in 0..(CountSpan - 1)
      <4>1. read + pending_advance \in Int
        BY <1>1 DEF CursorTyped
      <4>2. (read + pending_advance) % CountSpan \in 0..(CountSpan - 1)
        BY <1>1, <4>1, DivMod, Zenon
      <4> QED
        BY <1>1, <2>2, <4>2 DEF advance, wrapping_add, CursorTyped
    <3>3. last_read_count' \in 0..(CountSpan - 1) /\ pending_advance' \in 0..(CountSpan - 1)
      BY <1>1, <2>2 DEF advance, CursorTyped
    <3> QED
      BY <1>1, <2>2, <3>1, <3>2, <3>3 DEF advance, CursorTyped
  <2>3. CASE rewind
    <3>1. read_offset' \in 0..RingLength /\ pending_advance' \in 0..(CountSpan - 1)
          /\ read_count' \in 0..(CountSpan - 1)
      BY <1>1, <2>3 DEF rewind, CursorTyped
    <3> QED
      BY <1>1, <2>3, <3>1 DEF rewind, CursorTyped
  <2> QED
    BY <2>1, <2>2, <2>3
<1> QED
  BY <1>3, <1>4, <1>5, <1>6 DEF Typed

\* The thread's exit, the stamp queue's and the device's steps.
LEMMA DeviceTypes ==
  ASSUME Typed, PartInv, ControlInv,
         ThreadExits \/ StampPublished \/ quiesce \/ drain \/ DrainReturns \/ start \/ Restored
  PROVE  Typed' /\ PartInv'
<1>1. /\ GuestTyped /\ CursorTyped /\ ThreadTyped /\ DeviceTyped /\ pos \in Nat /\ released \in Nat
      /\ RingLength \in Nat \ {0} /\ CountSpan \in Nat \ {0}
  BY Sizes DEF Typed
<1>2. UNCHANGED <<guest, reading, pos, released>>
  BY DEF ThreadExits, StampPublished, quiesce, drain, DrainReturns, start, Restored, history
<1>3. GuestTyped' /\ pos' \in Nat /\ released' \in Nat
  BY <1>1, <1>2 DEF GuestTyped, guest
<1>4. /\ pc' \in PCs
      /\ \/ pc' \in {"off", "loop"}
         \/ (pc' = pc \/ (pc = "parked" /\ pc' = "read")) /\ UNCHANGED cursors
  BY <1>1 DEF ThreadExits, StampPublished, quiesce, drain, DrainReturns, start, Restored, WakeReader,
              ThreadTyped, PCs, ControlInv
<1>5. ThreadTyped' /\ PartInv'
  BY <1>1, <1>2, <1>4 DEF ThreadTyped, PartInv, reading, cursors
<1>6. DeviceTyped'
  <2>1. quiesced' \in BOOLEAN /\ running' \in BOOLEAN
    BY <1>1, Zenon DEF ThreadExits, StampPublished, quiesce, drain, DrainReturns, start, Restored,
                       DeviceTyped, device
  <2>2. pauses' \in 0..MaxPauses
    BY <1>1, Sizes DEF DeviceTyped, ThreadExits, StampPublished, quiesce, drain, DrainReturns, start,
                       Restored, device
  <2>3. pending' \in 0..Capacity
    BY <1>1, Sizes DEF DeviceTyped, ThreadExits, StampPublished, quiesce, drain, DrainReturns, start,
                       Restored
  <2>4. control' \in {"started", "quiesced", "exited?", "stamps?", "stopped"}
    BY <1>1 DEF DeviceTyped, ThreadExits, StampPublished, quiesce, drain, DrainReturns, start,
                Restored, device
  <2> QED
    BY <2>1, <2>2, <2>3, <2>4 DEF DeviceTyped
<1>7. CursorTyped'
  <2>1. read % RingLength \in 0..(RingLength - 1)
    <3>1. read \in Int
      BY <1>1 DEF CursorTyped
    <3> QED
      BY <1>1, <3>1, DivMod, Zenon
  <2>2. 0 \in 0..(CountSpan - 1) /\ 0 \in 0..(RingLength - 1) /\ 0..(RingLength - 1) \subseteq 0..RingLength
    BY <1>1
  <2>3. CASE start
    BY <1>1, <2>1, <2>2, <2>3 DEF start, map_ring, CursorAtRead, CursorTyped
  <2>4. CASE Restored
    BY <1>1, <2>1, <2>2, <2>4 DEF Restored, set_root_read, init_from_node, CursorAtRead, CursorTyped,
                                  GuestTyped
  <2>5. CASE ~start /\ ~Restored
    BY <1>1, <2>5 DEF ThreadExits, StampPublished, quiesce, drain, DrainReturns, cursors, CursorTyped
  <2> QED
    BY <2>3, <2>4, <2>5
<1> QED
  BY <1>3, <1>5, <1>6, <1>7 DEF Typed

\* Where the thread and a drain stand to each other.
LEMMA NextControl ==
  ASSUME ControlInv, [Next]_vars
  PROVE  ControlInv'
<1>1. CASE GuestWrites \/ GuestContinues \/ poke
  <2>1. UNCHANGED device /\ (pc' = pc \/ (pc = "parked" /\ pc' = "read"))
    BY <1>1 DEF GuestWrites, GuestContinues, poke, Publish, WakeReader
  <2> QED
    BY <2>1 DEF ControlInv, device
<1>2. CASE \/ LoopHead \/ ReadCopies \/ ReadWraps \/ ReadParks \/ ReadDone \/ ReadQuiesced
           \/ wait_barriers \/ advance \/ push_stamp \/ dispatch \/ rewind
  <2>1. UNCHANGED device /\ pc # "off" /\ pc' # "off"
    BY <1>2 DEF LoopHead, ReadCopies, ReadWraps, ReadParks, ReadDone, ReadQuiesced, wait_barriers,
                advance, push_stamp, dispatch, rewind
  <2> QED
    BY <2>1 DEF ControlInv, device
<1>3. CASE ThreadExits
  BY <1>3 DEF ControlInv, ThreadExits
<1>4. CASE StampPublished \/ UNCHANGED vars
  BY <1>4 DEF ControlInv, StampPublished, vars, device
<1>5. CASE quiesce \/ drain \/ DrainReturns
  BY <1>5 DEF ControlInv, quiesce, drain, DrainReturns, WakeReader
<1>6. CASE start \/ Restored
  BY <1>6 DEF ControlInv, start, Restored
<1> QED
  BY <1>1, <1>2, <1>3, <1>4, <1>5, <1>6 DEF Next, Thread

\* A restart puts the cursor at the stream's cell, unless the counter has wrapped and the ring's
\* length does not divide its span.
LEMMA RestartOffset ==
  ASSUME released \in Nat, ~Wrapped
  PROVE  (released % CountSpan) % RingLength = released % RingLength
<1>1. RingLength \in Nat \ {0} /\ CountSpan \in Nat \ {0} /\ released \in Int
  BY Sizes
<1>2. CASE released < CountSpan
  <2>1. released \in 0..(CountSpan - 1)
    BY <1>1, <1>2
  <2>2. released % CountSpan = released
    BY <1>1, <2>1, SmallModulo, Zenon
  <2> QED
    BY <2>2
<1>3. CASE CountSpan % RingLength = 0
  BY <1>1, <1>3, RingIndex, Zenon
<1> QED
  BY <1>1, <1>2, <1>3 DEF Wrapped

\* A copy of other cells than the next ones published is one of the two exceptions.
LEMMA CopyStale ==
  ASSUME IInv, ReadCopies
  PROVE  StaleInv'
<1> DEFINE count == Least(Available, Least(want, RingLength - read_offset))
<1>1. Typed /\ ControlInv /\ StaleInv /\ (stale = "no" => Orderly) /\ pos \in Nat /\ released \in Nat
  BY DEF IInv, Typed
<1>2. /\ want \in 0..RingLength /\ read_offset \in 0..RingLength /\ Available \in Nat
      /\ RingLength \in Nat \ {0}
  BY <1>1, Sizes, AvailableType DEF Typed, ThreadTyped, CursorTyped
<1>3. pc = "read" /\ read_offset # RingLength /\ want > 0 /\ Available > 0
  BY DEF ReadCopies
<1>4. count \in Nat /\ count > 0 /\ count <= want /\ count <= Available
  BY <1>2, <1>3 DEF Least
<1>5. Consumes(count) /\ kind' = kind /\ cut' = cut
  BY DEF ReadCopies
<1> HIDE DEF count
<1>6. stale' # "no" => pos' = released'
  BY <1>1, <1>5 DEF Consumes, StaleInv
<1>7. CASE stale # "no"
  <2>1. stale' = stale /\ (stale = "astray" => released' = released)
    BY <1>1, <1>5, <1>7 DEF Consumes, StaleInv
  <2> QED
    BY <1>1, <1>5, <1>6, <2>1 DEF StaleInv, OnlyPublishedCellsRead, Wrapped
<1>8. CASE stale = "no"
  <2>1. Orderly /\ OffsetInv /\ CountInv
    BY <1>1, <1>8 DEF Orderly
  <2>2. ASSUME read_offset # pos % RingLength PROVE Wrapped
    <3>1. control # "stopped"
      BY <1>1, <1>3 DEF ControlInv
    <3>2. read_offset = read % RingLength /\ pos = released /\ read = released % CountSpan
      BY <1>3, <2>1, <2>2, <3>1 DEF OffsetInv, InPlace, Restarted, CountInv
    <3> QED
      BY <1>1, <2>2, <3>2, RestartOffset
  <2>3. ASSUME ~(pos + count <= Len(stream)) PROVE kind = "root" /\ cut
    BY <1>3, <1>4, <2>1, <2>3, Offered
  <2>4. \/ stale' = "no"
        \/ stale' = "astray" /\ released' = released /\ read_offset # pos % RingLength
        \/ stale' = "overrun" /\ ~(pos + count <= Len(stream))
    BY <1>5, <1>8 DEF Consumes
  <2> QED
    BY <1>5, <1>6, <2>2, <2>3, <2>4 DEF StaleInv, OnlyPublishedCellsRead, Wrapped
<1> QED
  BY <1>7, <1>8

\* No other step touches the history of it.
LEMMA StaleStays ==
  ASSUME StaleInv, [Next]_vars, ~ReadCopies
  PROVE  StaleInv' /\ stale' = stale
<1>1. stale' = stale /\ kind' = kind
  BY DEF Next, Thread, vars, history, guest, GuestWrites, GuestContinues, Publish, poke, LoopHead,
         ReadWraps, ReadParks, ReadDone, ReadQuiesced, wait_barriers, advance, push_stamp,
         dispatch, rewind, ThreadExits, StampPublished, quiesce, drain, DrainReturns, start, Restored
<1>2. cut => cut'
  BY DEF Next, Thread, vars, guest, GuestWrites, GuestContinues, poke, LoopHead,
         ReadWraps, ReadParks, ReadDone, ReadQuiesced, wait_barriers, advance, push_stamp,
         dispatch, rewind, ThreadExits, StampPublished, quiesce, drain, DrainReturns, start, Restored
<1>3. \/ UNCHANGED <<pos, released>>
      \/ released' = pos /\ pos' = pos
      \/ released' = released /\ pos' = released
  BY DEF Next, Thread, vars, history, GuestWrites, GuestContinues, Publish, poke, LoopHead,
         ReadWraps, ReadParks, ReadDone, ReadQuiesced, wait_barriers, advance, push_stamp,
         dispatch, rewind, ThreadExits, StampPublished, quiesce, drain, DrainReturns, start, Restored
<1>4. stale # "no" => released' = released /\ pos' = released'
  BY <1>3 DEF StaleInv
<1> QED
  BY <1>1, <1>2, <1>4 DEF StaleInv, OnlyPublishedCellsRead, Wrapped

\* Every step.
LEMMA NextInv ==
  ASSUME IInv, [Next]_vars
  PROVE  IInv'
<1>1. Typed /\ ControlInv /\ PartInv /\ StaleInv /\ (stale = "no" => Orderly)
  BY DEF IInv
<1>2. Typed' /\ PartInv'
  <2>1. CASE GuestWrites \/ GuestContinues \/ poke
    BY <1>1, <2>1, GuestTypes
  <2>2. CASE LoopHead \/ ReadDone \/ ReadQuiesced \/ wait_barriers \/ push_stamp \/ dispatch
    BY <1>1, <2>2, ThreadTypes
  <2>3. CASE ReadCopies
    BY <1>1, <2>3, CopyTypes
  <2>4. CASE ReadWraps \/ ReadParks \/ advance \/ rewind
    BY <1>1, <2>4, CursorTypes
  <2>5. CASE ThreadExits \/ StampPublished \/ quiesce \/ drain \/ DrainReturns \/ start \/ Restored
    BY <1>1, <2>5, DeviceTypes
  <2>6. CASE UNCHANGED vars
    BY <1>1, <2>6 DEF vars, guest, cursors, reading, device, history, Typed, GuestTyped, CursorTyped,
                      ThreadTyped, DeviceTyped, PartInv
  <2> QED
    BY <2>1, <2>2, <2>3, <2>4, <2>5, <2>6 DEF Next, Thread
<1>3. ControlInv'
  BY <1>1, NextControl
<1>4. StaleInv' /\ (stale' = "no" => stale = "no")
  <2>1. CASE ReadCopies
    <3>1. stale' = "no" => stale = "no"
      BY <2>1 DEF ReadCopies, Consumes
    <3> QED
      BY <2>1, <3>1, CopyStale
  <2>2. CASE ~ReadCopies
    BY <1>1, <2>2, StaleStays
  <2> QED
    BY <2>1, <2>2
<1>5. stale' = "no" => Orderly'
  BY <1>1, <1>4, NextOrderly
<1> QED
  BY <1>2, <1>3, <1>4, <1>5 DEF IInv

-----------------------------------------------------------------------------
(* The theorems *)

\* The inductive invariant: until a copy of other cells than the next ones published, the stream's
\* shape, the counters, the cursors and the thread's place in it; and when there can be such a copy.
\* For every ring length and span of the counters, and a guest that also publishes malformed
\* headers and, in a root's ring, commands in part.
THEOREM RingInvariant == Spec => []IInv
<1>1. Init => IInv
  <2> SUFFICES ASSUME Init PROVE IInv
    OBVIOUS
  <2>1. Orderly
    BY InitInv
  <2>2. PartInv /\ StaleInv
    BY DEF Init, PartInv, StaleInv, OnlyPublishedCellsRead
  <2> QED
    BY <2>1, <2>2 DEF IInv, Orderly
<1>2. IInv /\ [Next]_vars => IInv'
  BY NextInv
<1> QED
  BY <1>1, <1>2, PTL DEF Spec

\* The types of the ring's cursors, the thread and the device's side: read_offset never passes the
\* ring's end, a want is never more than the ring, pending stamps never more than the capacity.
THEOREM FifoTypes == Spec => []TypeOK
<1>1. IInv => TypeOK
  <2> SUFFICES ASSUME IInv PROVE TypeOK
    OBVIOUS
  <2>1. GuestTyped /\ CursorTyped /\ ThreadTyped /\ DeviceTyped /\ stale \in {"no", "overrun", "astray"}
    BY DEF IInv, Typed, StaleInv
  <2>2. {raised, quiesced, running, poke_owed, cut} \subseteq BOOLEAN
    BY <2>1, Zenon DEF ThreadTyped, DeviceTyped, GuestTyped
  <2> QED
    BY <2>1, <2>2 DEF TypeOK, GuestTyped, CursorTyped, ThreadTyped, DeviceTyped
<1> QED
  BY <1>1, RingInvariant, PTL

\* read_root and read_child copy cells the guest has published, each from where the guest put it,
\* across wraps of the ring and of the counters, quiesces, rewinds, restarts and restores, of a ring
\* of any length; but for a root published a command in part or a malformed one, and a restart of
\* a ring whose length does not divide the span once the counter has wrapped.
THEOREM ThreadReadsPublishedCells == Spec => []OnlyPublishedCellsRead
<1>1. IInv => OnlyPublishedCellsRead
  BY DEF IInv, StaleInv
<1> QED
  BY <1>1, RingInvariant, PTL

\* Until such a copy, the published counter stands for a boundary between commands, never past what
\* the guest has written, and a restart reads on from its cell or from the wrapped counter's
\* (advance, rewind, map_child_ring, set_read).
THEOREM RoomIsReleasedAtBoundaries == Spec => []ReleasedAtBoundary
<1>1. IInv => ReleasedAtBoundary
  <2> SUFFICES ASSUME IInv, stale = "no" PROVE ReleasedAtBoundary
    BY DEF ReleasedAtBoundary
  <2>1. CountInv /\ OffsetInv /\ kind \in {"root", "child"} /\ released \in Nat
    BY Sizes DEF IInv, Orderly, Typed, GuestTyped
  <2>2. \/ control = "stopped"
        \/ last_read_offset = released % RingLength
        \/ last_read_offset = read % RingLength /\ Wrapped
    <3>1. CASE Wrapped
      BY <2>1, <3>1 DEF OffsetInv, InPlace, Restarted
    <3>2. CASE ~Wrapped
      <4>1. read % RingLength = released % RingLength
        BY <2>1, <3>2, RestartOffset DEF CountInv
      <4> QED
        BY <2>1, <4>1 DEF OffsetInv, InPlace, Restarted
    <3> QED
      BY <3>1, <3>2
  <2> QED
    BY <2>1, <2>2 DEF CountInv, ReleasedAtBoundary, Boundary
<1> QED
  BY <1>1, RingInvariant, PTL

\* A drain that has got past its wait for the exit has stopped the thread, though that wait has no
\* predicate: of any ring, and whatever the guest writes.
THEOREM DrainStopsTheThread == Spec => []DrainedMeansStopped
<1>1. Init => ControlInv
  BY DEF Init, ControlInv
<1>2. ControlInv /\ [Next]_vars => ControlInv'
  BY NextControl
<1>3. ControlInv => DrainedMeansStopped
  BY DEF ControlInv, DrainedMeansStopped
<1> QED
  BY <1>1, <1>2, <1>3, PTL DEF Spec

\* Until such a copy, well-formed commands run once each and in the order written: what has been
\* pushed is what the guest has its room back for, but for a command between its advance and its
\* push.  A quiesce, a failed read, a rewind, a restart or a restore neither runs a command again
\* nor passes over one, of a ring of any length (advance, rewind, push_stamp).
THEOREM CommandsRunOnceInOrder == Spec => []RunOnceInOrder
<1> DEFINE InStep == stale = "no" => RunInv
<1>1. Init => InStep
  <2> SUFFICES ASSUME Init PROVE RunInv
    OBVIOUS
  <2>1. stream = << >> /\ ran = << >> /\ pc = "off" /\ released = 0
    BY DEF Init
  <2>2. CommandsIn(released) = {}
    BY <2>1 DEF CommandsIn, Least
  <2>3. RanInv
    BY <2>1, <2>2 DEF RanInv, InOrder
  <2>4. BodyInv /\ IdInv /\ OpenInv
    BY <2>1 DEF BodyInv, IdInv, OpenInv
  <2> QED
    BY <2>3, <2>4 DEF RunInv
<1>2. IInv /\ InStep /\ [Next]_vars => InStep'
  <2> SUFFICES ASSUME IInv, InStep, [Next]_vars, stale' = "no" PROVE RunInv'
    OBVIOUS
  <2>1. stale = "no"
    <3>1. CASE ReadCopies
      BY <3>1 DEF ReadCopies, Consumes
    <3>2. CASE ~ReadCopies
      BY <3>2, StaleStays DEF IInv
    <3> QED
      BY <3>1, <3>2
  <2> QED
    BY <2>1, NextRuns DEF IInv
<1>3. InStep => RunOnceInOrder
  BY DEF RunInv, RanInv, RunOnceInOrder
<1> QED
  BY <1>1, <1>2, <1>3, RingInvariant, PTL DEF Spec

=============================================================================
