# Verification of reims-vgpu's concurrent core

TLA+ models, TLC runs and TLAPS proofs for the part of reims-vgpu that schedules, orders and
completes the guest's work. Paths are relative to `crates/reims-vgpu-core/src/` unless they
start with `docs/` or another crate.

## 1. The system

A macOS guest drives the virtual GPU through memory-mapped registers and rings in its own memory.
The device reads commands from the rings, runs them against *tasks* (one per guest process that
uses the GPU), and reports progress by writing stamp values and raising interrupts.

```
 guest ──ring──> FIFO thread ──pushes──> stamp queue ──signal/fault──> device ──interrupt──> guest
                    │  ▲ waits for other FIFOs' stamps (stamp waits)
                    └──command──> task: local, or isolated
                                     host side ──connection queue──> service (GPU work)
                                     host side <────link queue────── service
```

### Inventory

| component | state | operations | correct when |
|---|---|---|---|
| stamp queue (`fifo/stamps.rs`) | ring of 128 pending stamps, two wrapping counters, fault latch, quiesced flag | push, signal, fault, resume, quiesce, clear, drain | stamps are published once, in push order, only when completed; nobody waits for nothing |
| FIFO (`fifo/ring.rs`, `fifo/thread.rs`, `fifo/wire.rs`) | cursors, published counters, one thread | poke, read, advance, rewind, quiesce, drain, start, restore | each well-formed command runs once, in order, whatever pause comes between; the thread reads what was published |
| stamp waits (`device/waits.rs`) | a table of waits, a word of bits, a condition variable | wait, register, walk, finish | a cycle of waits is refused, any other wait ends |
| device FIFOs and lifecycle (`device/fifos.rs`, `device/lifecycle.rs`) | run state, FIFO slots, fault mask, stamp bits, the FIFO queue | create, delete, stamp, report a fault, resume it, pause, unpause, suspend, resume | no fault or stamp goes unseen across them, a paused device is still, every call returns |
| root page and registers (`device/root.rs`, `device/mmio.rs`) | root node, root task, its allocator, the root FIFO's enable | root page write, enable, map, unmap | no address of the root task is given twice or lost; the host has mapped what is live |
| serial queue (`rt/queue.rs`) | items, owner, worker | async, sync, release | one block at a time, in order; every one runs |
| coalescing signal (`rt/signal.rs`) | pending word, scheduled, cancelled | merge, cancel, fire | one invocation at a time, nothing merged is lost or repeated |
| timer (`rt/timer.rs`) | next point, cancelled flag, a thread | start, fire, cancel, drop | every point fires once and not early; a cancel ends it |
| pool, held, once, threads (`rt/*`) | scoped releases | | |
| locks (`sync/rwlock.rs`, `sync/staged.rs`) | readers, writers, stages | | a waiting writer is preferred |
| isolated task (`tasks/remote.rs`, `tasks/remote/*`, `tasks/isolation/*`) | tokens, table of replies, two queues, life | forward, exec, complete, crash, drop, send, relay, end, invalidate, die | every token is answered once, a task ends and its death is told |
| service of an isolated task (`gpu_task/*`) | GPU work, surfaces | exec, round trips | the answer and the completion of an exec are made once each |
| local task, object lists, shared textures (`tasks/*`) | resources by id | commands | |
| deserializer, resources (`deserializer/*`, `resources/*`) | GPU objects | decoding, paging | |
| guest memory (`memory/*`), collections (`collections/*`) | mappings, page tables, trackers, free ranges, containers | map, unmap, allocate, free, lookup | |
| displays (`display*`, `device/displays.rs`), IOSurface device (`iosurface/*`) | frames, modes, surface table | present, ring commands | |
| raise, death, logging, numbers, guest ABI, host interface | none or per process | | |
| Vulkan and Metal back ends, window, Rust and C interfaces, `reims-ctl`, firmware, `xtask` | | | |

What is hard about it: every FIFO has a thread of its own; completions come from GPU callbacks, the
link's queue and the FIFO thread itself; pauses, suspends and deletes meet all of them at any point;
the counters wrap; waits are registered without a lock; and an isolated task may die at any moment
with the host holding tokens, replies and references to it. `PROJECT.json` lists these hazards at
the lines where they bite, each with the properties that would catch it.

## 2. Modules

Each module has the state of its component as variables under the source's names, and one action
per operation, or per hold of a lock and per call made after it where an operation unlocks in
between. Operators named `..._bug` are plausible mistakes in the definition they precede; no
specification uses them. They show that each property can fail.

| module | of | main correspondence |
|---|---|---|
| `StampQueue` | `fifo/stamps.rs` | each operation holds the queue's lock throughout, so each is one action; a thread in a condition variable is in `room` or `drained`. History variables number the pushes without wrapping. |
| `ModularCounters` | | lemmas: wrapping sums, differences and ring indices against unbounded ones, quotients, least elements, induction up to a bound |
| `FifoThread` | `fifo/ring.rs`, `fifo/thread.rs`, `fifo.rs`, `fifo/wire.rs`, with what `device/lifecycle.rs` and `device/fifos.rs` do to one FIFO | the ring is counted in cells (header, barrier list, payload); `Kind` chooses the root's or a child's cursors; the thread's `pc` follows `Fifo::run`; the stamp queue is used through its promise (pending stamps, at most `Capacity`) |
| `StampWaits` | `device/waits.rs`, `signal_fifos` and the delete of `device/fifos.rs` | the walk takes one step per entry it reads, since nothing is locked; the condition variable's wait is parked in `timed` or `untimed`; a waiter's bit wraps at `MaskBits` |
| `SerialExecutor` | what `rt/queue.rs` promises | items take the queue one at a time, in order, and each in the end |
| `SerialQueue` | `rt/queue.rs` | one action per hold of the lock; the wakes made after an unlock are `owes`; the worker's syncs onto its own queue from its idle drain are included |
| `CoalescingSignal` | `rt/signal.rs` | merge and cancel up to the unlock, the submission after it, the job's parts |
| `Timer` | `rt/timer.rs`, over `CoalescingSignal` | the thread's check, sleep, fire and merge, with the lock of `shared` between them; the cancel's three steps; the clock moves forward and back (`Tick`, external). In `use = "source"` the signal is used by threads of its own instead |
| `DeviceFifos` | `device/fifos.rs`, `device/lifecycle.rs`, and `device/root.rs` where they meet the root FIFO | a FIFO is reduced to what `FifoThread` and `StampQueue` show of it: a thread that runs until it is quiesced, and the head of its queue with the latch. `fifo_q` is a `SerialExecutor`. The host's, the guest's and the root thread's calls are split where another thread can come between: at each lock, wait and block of the queue. A drain holds the FIFO it found and is where its thread is (`draining`): waiting for the exit, parked, woken by the one notify. Nothing keeps the calls apart; `crossed` records the meetings the code has no answer to |
| `FirstFitVa` | `collections/first_fit.rs` | `allocate` and `deallocate` as operators on the sorted list of free ranges, whose arithmetic wraps; the code's cases are one replacement of ranges by others (`Splice`) |
| `RootMappings` | `device/root.rs` (root page write, root task), `memory/mapping.rs` | one action per hold of the root task's lock, and one for the unlocked reads before it; a mapping keeps the address it was made at and computes its offset again when it is dropped |
| `RemoteTask` | `tasks/remote.rs`, `tasks/remote/completions.rs`, `tasks/remote/endpoint.rs`, `tasks/isolation/link.rs`, `tasks/isolation/life.rs`; `gpu_task/exec.rs` and `gpu_task/surfaces.rs` as far as the host sees them | the connection's and the link's queues are sequences of what they still have to run (they are `SerialQueue`s); a reply is named by the token it completes; the last reference to the task may go on a FIFO thread or on the link's queue |

Every `MC...` module extends one of these for TLC, and every `...Proofs` module the one it proves
theorems about: `TimerProofs` is also about `CoalescingSignal`, and `DeviceProofs` is about
`DeviceFifos` and, in a second part, `RootMappings` with `FirstFitVa`.

How they fit together: `FifoThread` relies on `StampQueue`, and `StampWaits` on both, through what
they promise (a pushed stamp completes and is published in order); `DeviceFifos` puts several of
their FIFOs together with the device's own state; `RemoteTask` and `DeviceFifos` rely on
`SerialQueue` through `SerialExecutor`'s promise (a queue runs its items in order, one at a time);
`Timer` is composed with `CoalescingSignal` itself, and `RootMappings` with `FirstFitVa`.

Abstractions common to all: payloads are left out; a value is a member of a small set; a fatal
check that ends the process sets `dead`, after which nothing happens; logging and formatting are
left out.

## 3. What is checked

| run | instance | shows |
|---|---|---|
| `stamp_queue` | two slots, counters wrapping at 4, four pushes of three values, one of whose callers also misuse the queue | `PublishedInOrder`, `OnlyEndedPublished`, `NothingPublishableLeft`: what is published is in order and completed, and no due pump is skipped, even if a command is completed twice, a value reused or the FIFO started during a drain. While nobody misuses it: `NoDeath`, no fatal check fires; `PushReturns`, `DrainEnds`, no wake-up is lost |
| `stamp_queue_latch` | as above, smaller | expected violation, see 5 |
| `stamp_queue_two_drains` | one slot, two drains | expected violation, see 5 |
| `fifo` | a root or a child with a ring of three cells, counters wrapping at 4, three commands of one or three cells or malformed, published whole or in parts, one pause or suspend | `OnlyPublishedCellsRead`, `RunOnceInOrder`, `ReleasedAtBoundary`, `DrainedMeansStopped`; `EveryCommandRuns`, `DrainEnds` |
| `stamp_waits` | two FIFOs, two commands each, one FIFO that may also wait for itself, be quiesced and be deleted, values crossing the wrap | `NoSilentDeadlock`, `NoDeath`, `WaitEnds` |
| `stamp_waits_false_cycle` | two FIFOs, two commands each | expected violation, see 5 |
| `device_fifos` | the root FIFO and one child, which may be in a command at the start; one command more (a define or a delete among them) and two of pauses, suspends and disables of the FIFOs, overlapping as they may (653,050 states) | on an orderly device (below) `NoDeath`; `FaultIsShown` and `FaultIsHandled`: a fault shown is announced and in the end handled, wherever a pause, a delete or a resume on a new device falls between the fault and its report; `StampIsSeen`; `PausedIsStill`; `CallsReturn` |
| `device_suspend` | two commands and one suspend, `NeverDies` | expected violation, see 5 |
| `serial_queue` | three threads and the worker, four blocks | `ImplementsExecutor` (refinement of `SerialExecutor` with its fairness: one block at a time, in order, each in the end), `OneWorker`, `ReleasedWorkerEnds` |
| `timer` | two threads and a word of wrapping bits, adding and or-ing; or a timer whose clock jumps | `OneInvocation`, `NothingLostOrRepeated`, `PendingIsTaken`, `CancelFreesHandler`; `FiresFollowSchedule`, `PointsDelivered`, `CancelEndsThread` |
| `remote_task` | one FIFO thread, three tokens (an exec takes two) | `SignalledOnce`, `CrashAnswersAll`, `EndComesLast`; `EveryTokenAnswered`, `TaskGoes`, `DeathIsTold` |
| `root_mappings` | three root page writes, three mappings by two threads in an address space of four granules, two bases | `FreeListIsCanonical` (the list is sorted and coalesced, and allocates as the definition of first fit does), `SpaceIsPartitioned`, `HostMapsMatch` (the host has nothing mapped but what live mappings cover, and all of that until one is dropped under another base) |

**Bounds.** `MaxPushes`, `MaxCommands`, `MaxPauses`, `MaxCalls`, `MaxStamps`, `MaxBlocks`, `MaxMerges`,
`MaxTokens`, `MaxRoots`, `MaxMaps`, `MaxTime` and `MaxJumps` cap what a behaviour may do, in the guards.
Where something is filled, the bound is past its size (a ring of two slots gets four pushes, so its
counters wrap and a slot is used again; a ring of three cells gets up to nine). `Jobs` is larger than
the one job a signal may have, so that a second could appear. The ring of `fifo` has a
length that does not divide the counters' span, so that a restart does go astray behind the wrap. Larger
instances were run by hand and hold too: `DeviceFifos` with two commands and one call (603,279 states) and, its
invariants, with three commands (2,045,183 states) and with two children (4,839,735 states); `RootMappings` with
three threads and two lengths (3,780,331 states); `RemoteTask` with two FIFO threads and two tokens (29,299 states).
`RootMappings` uses the symmetry of its threads, which no action tells apart; no liveness is checked there. The runs with `CHECK_DEADLOCK FALSE` stop when their bounds are used up.

**Fairness.** Weak fairness only, of threads that have something to do: a running thread goes on, a
queue runs what it was given, a handler completes its command, the guest finishes the command it
began, pokes, and takes its interrupts, the host that paused or suspended the device unpauses or
resumes it. `PushReturns` also needs the guest to resume a fault it has been told of. Nobody has to
pause, cancel, submit or die, and no timeout has to come but the timer's own: the runs show that the
code never depends on one to recover a lost wake-up. The service answers what it is given (a GPU that
hangs for ever hangs its exec, in the code too).

**Assumptions and exceptions.**
- `PushReturns` leaves out a head whose fault a stale latch hides (finding 1); `StampQueue`'s liveness
  and `NoDeath` hold while no caller misuses it (`Misused`).
- `FifoThread`: the properties say where the code goes past them. The root reads past `written` behind a
  command published in part or a malformed one (`cut`; `fifo/tests.rs`, `never_waits_inside_a_command`, records the read), and a
  restart takes the wrong offset once the counter has wrapped in a ring whose length does not divide its
  span (`Wrapped`). `OnlyPublishedCellsRead` says that nothing else makes the thread copy another cell than
  the next one published; the others hold until it has (`stale`).
- `EveryTokenAnswered`, `TaskGoes` and `DeathIsTold` leave out `LinkStuck`: the task dropping on the
  link's own queue with tokens outstanding, which the repository's test
  `the_completion_goes_before_the_drop_blocks_in_drain` (`tasks/remote.rs`) records. The first two also leave
  out the completion of an exec that got no command buffer (`unbuffered`, see 5).
- `WaitEnds` leaves out a FIFO waited for that has been quiesced: it pushes nothing until it is started.
- `DeviceFifos`: the host makes its calls one after another, and so does the guest its `FifoEnable` writes; a
  host call, a write and the root FIFO's commands overlap as they may (`docs/api.md` allows any function on
  any thread). Three meetings go wrong in the code, and `crossed` records them: a suspend quiesces the root
  FIFO in the middle of a define (finding 4); a `FifoEnable` write overlaps a pause or a suspend, up to the
  end of its unpause or resume (see 5); two drains are parked on one FIFO (finding 2). A device is `Orderly` without the first
  two; the invariants are about an orderly device, the liveness properties about one without the third too.
  After a meeting the model goes on, but does not tell a second thread started over a live one
  from the first, nor a FIFO made again from the old one still being drained.
- `DeviceFifos`: the vCPUs are stopped from `finish_suspend` until the device runs again; a resume is of a new
  device over the same guest memory, since in place the root FIFO is lost (as `device/lifecycle.rs` documents);
  a FIFO's stamp index is its id; a raise out of a task's `FifoDeleted` ends the root's delete before its
  wait (a teardown's delete dies of it, which is left out); `create_fifo`'s check that its child is in no stamp wait is
  left to `StampWaits`.
- `RootMappings`: the host refuses to map into a task it has destroyed. `FreeListIsCanonical`,
  `SpaceIsPartitioned` and the second half of `HostMapsMatch` end with the first mapping dropped under
  another base than it was made under (`strayed`, see 5); that nothing is left mapped in the root task beyond
  its live mappings holds after that too.

## 4. What is proved

TLAPS checks these theorems for every value of the constants that satisfies the modules' assumptions.
A type theorem (`Spec => []TypeOK`, of `DeviceFifos` while it is `Orderly`) goes with each module and is not repeated. Each inductive invariant
was checked by TLC on small instances before it was proved.

**`StampQueueProofs`**: every capacity, and every counter span that is a larger multiple of it (128 and
2^32 in the code), any number of threads, any set of values, disciplined callers or not.
`StampsPublishedInOrder`, `OnlyCompletedStampsPublished`, `NoPublishableStampLeft` (`PublishedInOrder`,
`OnlyEndedPublished`, `NothingPublishableLeft`) and `StampQueueNeverDies` (`NoDeath`).
The invariants are not inductive: they say nothing of where a pending stamp is kept. `OrderInv`
adds that the wrapped counters are the numbers of pushes and of published pushes modulo the span, that
no more than `Capacity` are pending (`CountersWrap`), and that the k-th push is in slot
`(k - 1) % Capacity`, marked only if it was completed (`WindowHolds`). Pending slots are
distinct because the window is no longer than the ring (`SlotsDistinct`); a push writes a slot outside
the window (`PushKeeps`); a mark changes one slot and a pump publishes a prefix of marked ones
(`MarkKeeps`, `PumpOrder`); and a completion that does not pump has an unmarked slot before it, so the
head is still not publishable (`SignalKeeps`, `FaultKeeps`). `UseInv` adds, for `NoDeath`, that while
nobody misused the queue the values handlers still hold are just those of the unmarked pending slots.

**`FifoThreadProofs`**: every ring length and counter span, set of command lengths, number of commands and pauses,
whatever the guest writes and in whatever parts. `ThreadReadsPublishedCells` (`OnlyPublishedCellsRead`),
`RoomIsReleasedAtBoundaries` (`ReleasedAtBoundary`), `CommandsRunOnceInOrder` (`RunOnceInOrder`), `DrainStopsTheThread`
(`DrainedMeansStopped`) and `RingInvariant`, without a premise: the two exceptions are in the properties. Until a cell is
copied that is not the next one published (`stale`), the invariant relates the counters and cursors to positions in the
unbounded stream (`CountInv`, `OffsetInv`: in place, or where a restart has just put them from the wrapped counter),
says that the stream is one command after another (`StreamInv`), and says for each
place of the thread how far into which command it is (`PlaceInv`): what remains to be read of a command always
ends where the next header is, so a rewind, a restart and a restore all come back to a boundary, and a root
that was given whole, well-formed commands only has released all it consumed, so its comparison with the
published counter is right. After such a copy it keeps that the histories stand still (`StaleInv`).
`RunOnceInOrder` compares the commands pushed with the headers in the released part of the stream, so it needs
`RunInv` beside them: a command's other cells are no headers and headers are numbered upwards (`BodyInv`,
`IdInv`), nothing that should run lies between the released boundary and the command in hand (`OpenInv`), and what
has run is the well-formed commands released, but for the one between its advance and its push (`RanInv`). So a
release adds exactly the command in hand, and a rewind, which goes back to the released boundary, repeats none.

**`StampWaitsProofs`**: every number of FIFOs up to the bits of the mask (premise `OwnBits`; the
code documents that waiters 32 apart share a bit), any values across the wrap. `CyclesAreNoticed`
(`NoSilentDeadlock`), `WaitsNeverDie` (`NoDeath`), `WaitsInvariant`. The heart of it is `CycleInv`: of any set of
registered threads that wait for one another, one is still walking, and at an entry of the set. A
thread closes a set only by registering its wait, and then it walks itself; a walker in a closed set
stays in it, since the entries of the set cannot change; and the only way it ends there is to come
back to its own entry, which it refuses.

**`SerialQueueProofs`**: any number of threads and blocks. `QueueHasOneWorker` (`OneWorker`), from
`WorkerInv`: while `worker` is set there is one worker or one thread that owes its start; and
`QueueImplementsExecutor`, `Spec => Executor!Safety`: under the mapping `Holder` every step is a
hand-over of the executor or a stutter. `OwnerInv` says that `owner` tells who is in a block.

**`TimerProofs`**: every width of the word, number of threads and jobs, interval and clock.
`SourceIsSerial` (`OneInvocation`), `SourceLosesNothing` (`NothingLostOrRepeated`) and
`TimerFollowsSchedule` (`FiresFollowSchedule`), of `TimerSpec`, whose steps are shown to be steps of the
source under it (`TimerStepsSource`). The lossless merge needs that sums wrap associatively and that the or of words
is the union of their bits; that a word is its bits is an induction over the width, done with
`SegmentInduction` of `ModularCounters`, which is about a set of numbers instead of a predicate.
The prover has no theory of powers, so `CoalescingSignalAssumption` states `2^(b+1) = 2 * 2^b` for the bits
of the word; TLC evaluates it.

**`RemoteTaskProofs`**: any number of FIFO threads and tokens. `TokensAreSignalledOnce`
(`SignalledOnce`), `CrashLeavesNobody` (`CrashAnswersAll`), `NothingBehindTheEnd` (`EndComesLast`). `TokenInv`: an issued
token is in the table, or signalled, or in exactly one pair of hands that took it out of the table;
a crash empties the table. `EndInv`: once an end is on the link's queue the connection has ended and adds
no more than the invalidation's end.

**`DeviceProofs`, the FIFOs**: any number of children, tasks, commands and calls of every kind, overlapping as they may.
`DeviceNeverDies` (`NoDeath`), `FaultsAreShown` (`FaultIsShown`), `PausedDeviceIsStill` (`PausedIsStill`), and `DeviceInvariant`,
`Spec => [](Orderly => IInv)`: a step of an orderly device keeps the invariant unless it makes one of the two meetings
itself. Without `Orderly` the three are false of the code (finding 4 and section 5). Two drains of one FIFO are within them. The
theorems are about a device whose starts find their rings mapped and whose deletes write their own node
only (see 6). `NoDeath` is not inductive: a drain is safe because of what other threads did some
steps before. The invariant adds that a FIFO out of its slot is still or in the hands of the one thread
that deletes it (`SlotInv`), and that nothing is in a slot without the root FIFO, so that whatever is
pending finds the stamp memory (`Alive`); that the root's thread works only while the root FIFO runs
(`RootInv`), so a drained root defines and deletes nothing behind a walk; that what a
teardown or a host call has quiesced, deleted or drained stays so until it has ended, and each walk with what is behind it
(`GuestInv`, `HostInv`, `WalkInv`); that whoever is in a drain holds a quiesced FIFO, which past its thread's exit nobody
starts again (`DrainInv`);
which node says running while the host is between a suspend and its resume (`NodeInv`); and who
has the FIFO queue (`TurnInv`), so that no sync block ends in the middle of a report. `FaultInv` is `FaultIsShown`
with reports that have not begun: one that has begun has set its bit.

**`DeviceProofs`, the root task**: any threads, lengths, bases, number of roots and of mappings, any granule and
size of the address space. `FreeListCanonical` (`FreeListIsCanonical`), `SpacePartitioned`
(`SpaceIsPartitioned`) and `HostMapsAgree` (`HostMapsMatch`) have the premise `NoWrap`: no sum of an address, a
length that is mapped and a granule reaches 2^64. In the code the addresses end at `ROOT_TASK_VA_LAST`
(`0xff_ffff`, `device.rs`) and every caller maps a page or a length of 32 bits. `RootTypes` needs no premise. The argument has two halves.
Of the operators: on a list that is sorted, coalesced and starts its ranges at granules (`Canonical`),
`allocate` takes the first block of a range with room from the free addresses and nothing else (`Allocates`), which is first
fit over the set of addresses (`AllocatesFirstFit`: a block within the free addresses lies in one range, since the ranges do not
touch); `deallocate` of an aligned block that is not free adds just that block, and joins it so that the list is canonical again
(`Deallocates`); both come down to what replacing ranges by one that fits between their neighbours does
(`SpliceCanonical`). Of the threads: `MappingInv` adds to the properties which places hold a mapping (`HoldInv`), so
a map starts from none and an unmap has one to drop; that no handle above the newest has been used
(`FreshInv`), so a new root task starts with nothing mapped though older mappings live on; that a thread unmaps at its mapping's own
offset; and that the host's part follows the partition (`HostMapped`): a late drop under the same base takes its own range away
from the new root task, where no other mapping can have it. `OwnInv` goes on past a stray drop: a mapping of the live task is
never dropped under another base, because the base changes only while there is no live task, so its own drop
unmaps all of it, and what is mapped in the live task is always some live mapping's (`HostBacked`).

**Only model-checked.** Liveness, and the fairness half of `ImplementsExecutor`: the prover does not handle
fairness. Every invariant that a passing run checks is proved. Two premises are left, `OwnBits` and `NoWrap`, and the
paragraphs above say why the code meets them or what happens when it does not; the exceptions of `FifoThread`
and `DeviceFifos` (`cut`, `Wrapped`, `Orderly`) are in the properties themselves, where TLC checks them too.

## 5. Where code and documentation differ

1. `stamp_queue_latch`. A pause that consumes a reported fault leaves the latch set
   (`fifo/stamps.rs`, `pump` and `clear_quiesced`). After the unpause the next faulted head is not
   reported, so the guest does not resume it and the FIFO stops there.
2. `stamp_queue_two_drains`. The pump that empties a queue wakes one drain. A second drain of the same
   queue stays parked although every stamp has completed.
3. `stamp_waits_false_cycle`. The unlocked walk can join two different waits of one FIFO and raise
   `CircularWait` for a wait that was never part of a cycle.
4. `device_suspend`. `will_suspend` quiesces the root FIFO without draining it and walks the child
   slots once. A child that the root's thread is defining meanwhile is put in its slot behind the walk
   and started; `finish_suspend` then drains a FIFO nobody quiesced and the process dies
   (`DrainUnquiesced`). `pause` drains the root first and does not meet this.

Seen while modelling, without a run of their own:

- a malformed header that is pushed and faulted is rewound by a pause and faulted again after the
  restart (`fifo/thread.rs`, `Framing::Fault` and the rewind at the thread's exit); skipped and faulted
  headers give the guest its room back only with the next command that advances;
- the root reads past `written` inside a command published in part and after a malformed one
  (`fifo/ring.rs`, `read_root`, which compares with the published counter; in the model, and excepted by name);
- a restarted child's or a restored root's offset is right across the wrap of its counter only if the
  ring's length divides 2^32 (likewise);
- waiters 32 apart share a bit of the word of waits, and clearing waiter 31's clears all above it
  (`device/waits.rs`, documented there);
- a guest that resumes a FIFO it sees faulted before the report of that fault has run, and a delete that
  overtakes a report, leave a bit in the fault mask with no fault behind it, though
  `read_interrupt_fault` says "Whether any FIFO is faulted."; the root's stale bit stays until its
  next fault is resumed or the FIFOs are torn down;
- `FifoEnable` writes are not kept out of pauses and suspends, though `docs/api.md` allows calls from any
  thread: a `FifoEnable = 0` that meets an unpause can drain a FIFO the unpause has just started; a pause reads the root's slot again between its
  quiesce and its drain, and dies if the guest has disabled and enabled the FIFOs in between (`DrainUnquiesced`
  both times; `DeviceFifos` reaches the second with a pause and a disable and no command,
  if `NeverDies` is checked); and `FifoEnable = 1` starts the root FIFO of a paused device;
- two drains of one FIFO (finding 2) meet in `DeviceFifos` too: the call whose wake-up is lost never returns;
- an exec for which the command queue gives no command buffer is answered with 1, and no completion
  handler was added (`gpu_task/exec.rs:217`): unless a paging-out completes its token, the token, and the task's drop,
  wait for good;
- a timer's job that took its data before the cancel calls the handler after `cancel` has returned,
  where `rt/timer.rs` says "no handler call starts after it";
- a mapping that outlives its root task, dropped under a root task at another base, dies
  (`UnmapOutsideRootTask`) or unmaps and frees a range that is not its own, a live mapping's perhaps; after a root page write that failed the
  base is 0, so such a drop dies where the doc of `unmap_range` says the range leaks;
- `rt/block_env.rs` says that a `sync` onto a queue the thread owns dies, where `rt/queue.rs` runs the
  block at once.

## 6. Not modelled

Most of the repository's lines are the Vulkan and Metal back ends, the deserializer, the resources and
the shader work: the sequential translation of one command after another into calls of a platform's
API. What could go wrong there is in tables, fields and formats of data that a model leaves out and a
model checker cannot enumerate; what they share with other threads goes through the FIFOs, queues and
tasks modelled here. The same holds for windowing, the interfaces and tools, the launch handshake and the
encoding of messages. The models therefore cover the core crate's scheduling and little of the
repository by lines.

Modelled in part: the service of an isolated task (only when it answers); the lifecycle (not its tasks,
displays and EFI registers); the root page and registers (not the register table); guest memory (the
life of mappings, not page tables and trackers); collections (the allocator, not the ordered maps,
which reproduce an iteration order). In `RemoteTask` the FIFO's shared event values, the surfaces of the
device link and a status other than success, failure or crash are left out. In `DeviceFifos` a start
that fails, a creation that is refused and the word a delete clears in the next node's page list are
left out, so its instance has one child. In `RootMappings` a raise out of the host's `mapMemory`, which
leaves the range allocated (as `root_task_mapping` documents), is left out.

The locks (`sync/rwlock.rs`, `sync/staged.rs`) are not modelled: the models use a lock as exclusive and
depend on no preference. Displays and the IOSurface device are left out: they mostly pass frames and
requests on to the host.

## 7. Plan

What would come next: the walks of `StampWaits` for FIFOs that share a bit of the mask, where the
theorems stop; a start that fails and the delete's write into the next node in `DeviceFifos`; the tasks'
page tables and trackers (`memory/page_table.rs`, `memory/tracker.rs`); the displays.
