---------------------------- MODULE RootMappings ----------------------------
(***************************************************************************)
(* The root task and the mappings made in it                               *)
(* (crates/reims-vgpu-core/src/device/root.rs, memory/mapping.rs): a root  *)
(* page write tears the live root down and makes the next one, while       *)
(* threads map ranges of the root task's address space and let them go,    *)
(* also after the root they were made in.                                  *)
(*                                                                         *)
(* The device has no memory map of its own (with one, no root task is      *)
(* used).  A host refuses to map into a task it has destroyed.  Each       *)
(* action is one hold of the root task's lock or the unlocked reads before *)
(* it; the definitions named ..._bug are plausible mistakes in the one     *)
(* they precede, kept to show which property catches each.                 *)
(***************************************************************************)
EXTENDS FirstFitVa

CONSTANTS
  Users,      \* the threads that map: FIFOs, tasks, displays
  Guest,      \* the thread of the root page write
  Page,       \* the root node's length
  Lengths,    \* the lengths mapped
  Bases,      \* the addresses the host may give a root task
  MaxRoots,   \* bound: root page writes
  MaxMaps     \* bound: mappings asked for

ASSUME RootMappingsAssumption ==
  /\ Guest \notin Users
  /\ Lengths \subseteq Nat /\ Page \in Nat \ {0} /\ {MaxRoots, MaxMaps} \subseteq Nat
  /\ Bases \subseteq Nat \ 0..LastVa

VARIABLES
  free,         \* the root task's allocator
  task, base,   \* the root task's handle, 0 for none, and its base
  destroyed,    \* the tasks the host has destroyed
  root_node,    \* the root node is set
  mapping,      \* the mapping each thread has, or NoMapping; the Guest's is the root node's
  place,        \* where each thread is
  offset,       \* the offset it has computed for an unmap
  mapped,       \* external: what the host has mapped
  lost,         \* history: the addresses of mappings dropped with no root task
  strayed,      \* history: a mapping was dropped under another base than its own
  fatal, roots, maps

Threads == Users \cup {Guest}
root_vars == <<free, task, base, destroyed, root_node, mapping, place, offset, mapped, lost, strayed,
               fatal, roots, maps>>

NoMapping == [va |-> 0, length |-> 0, offset |-> 0, task |-> 0]
Covers(at, size) == at..(at + round(size) - 1)

RootInit ==
  /\ free = new /\ task = 0 /\ base = 0 /\ destroyed = {} /\ root_node = FALSE
  /\ mapping = [t \in Threads |-> NoMapping] /\ place = [t \in Threads |-> "idle"]
  /\ offset = [t \in Threads |-> 0] /\ mapped = {} /\ lost = {} /\ strayed = FALSE
  /\ fatal = FALSE /\ roots = 0 /\ maps = 0

GoesTo(t, label) == place' = [place EXCEPT ![t] = label]

-----------------------------------------------------------------------------
(* A mapping of the root task, made and released *)

\* root_task_mapping, under the root task's lock: no task, no room, refused or made.
root_task_mapping_bug(t, length, fails, made) ==
  LET a == allocate(free, length) IN
  \/ /\ task = 0 \/ a.at = NoRoom
     /\ GoesTo(t, fails) /\ UNCHANGED <<free, mapping, mapped>>
  \/ /\ task # 0 /\ a.at # NoRoom
     /\ free' = a.free /\ GoesTo(t, fails) /\ UNCHANGED <<mapping, mapped>>
  \/ /\ task \notin destroyed \cup {0} /\ a.at # NoRoom
     /\ free' = a.free /\ GoesTo(t, made)
     /\ mapping' = [mapping EXCEPT ![t] = [va |-> base + a.at, length |-> length,
                                           offset |-> a.at, task |-> task]]
     /\ mapped' = mapped \cup ({task} \X Covers(a.at, length))
root_task_mapping(t, length, fails, made) ==
  LET a == allocate(free, length) IN
  \/ /\ task = 0 \/ a.at = NoRoom
     /\ GoesTo(t, fails) /\ UNCHANGED <<free, mapping, mapped>>
  \/ /\ task # 0 /\ a.at # NoRoom
     /\ free' = deallocate(a.free, a.at, length) /\ GoesTo(t, fails) /\ UNCHANGED <<mapping, mapped>>
  \/ /\ task \notin destroyed \cup {0} /\ a.at # NoRoom
     /\ free' = a.free /\ GoesTo(t, made)
     /\ mapping' = [mapping EXCEPT ![t] = [va |-> base + a.at, length |-> length,
                                           offset |-> a.at, task |-> task]]
     /\ mapped' = mapped \cup ({task} \X Covers(a.at, length))

\* Mapping::drop and unmap_range, up to the lock: the base is read and the offset checked.
DropBegins(t, from) ==
  LET at == wrap(mapping[t].va - base) IN
  /\ place[t] = from /\ mapping[t] # NoMapping
  /\ IF at > LastVa THEN fatal' = TRUE /\ UNCHANGED <<place, offset>>
     ELSE GoesTo(t, "unmaps") /\ offset' = [offset EXCEPT ![t] = at] /\ UNCHANGED fatal
  /\ strayed' = (strayed \/ at # mapping[t].offset)

\* unmap_range, under the lock: with no root task the range is lost.
unmap_range_bug(t, to) ==
  LET m == mapping[t] IN
  /\ place[t] = "unmaps" /\ GoesTo(t, to)
  /\ mapping' = [mapping EXCEPT ![t] = NoMapping]
  /\ IF task = 0 THEN lost' = lost \cup Covers(m.offset, m.length) /\ UNCHANGED <<free, mapped>>
     ELSE /\ free' = deallocate(free, offset[t], m.length)
          /\ UNCHANGED <<lost, mapped>>
unmap_range(t, to) ==
  LET m == mapping[t] IN
  /\ place[t] = "unmaps" /\ GoesTo(t, to)
  /\ mapping' = [mapping EXCEPT ![t] = NoMapping]
  /\ IF task = 0 THEN lost' = lost \cup Covers(m.offset, m.length) /\ UNCHANGED <<free, mapped>>
     ELSE /\ mapped' = mapped \ ({task} \X Covers(offset[t], m.length))
          /\ free' = deallocate(free, offset[t], m.length)
          /\ UNCHANGED lost

Drops(t, from, to) ==
  \/ DropBegins(t, from) /\ UNCHANGED <<free, mapping, mapped, lost>>
  \/ unmap_range(t, to) /\ UNCHANGED <<offset, strayed, fatal>>

-----------------------------------------------------------------------------
(* The threads that map: at any time, a root page or none, each maps and later drops its mapping *)

Asks(t) ==
  /\ place[t] = "idle" /\ maps < MaxMaps /\ maps' = maps + 1 /\ GoesTo(t, "asks")
  /\ UNCHANGED <<free, task, base, destroyed, root_node, mapping, offset, mapped, lost, strayed,
                 fatal, roots>>
Maps(t) ==
  /\ place[t] = "asks" /\ \E length \in Lengths : root_task_mapping(t, length, "idle", "has")
  /\ UNCHANGED <<task, base, destroyed, root_node, offset, lost, strayed, fatal, roots, maps>>
LetsGo(t) ==
  /\ Drops(t, "has", "idle")
  /\ UNCHANGED <<task, base, destroyed, root_node, roots, maps>>

-----------------------------------------------------------------------------
(* The root page *)

RootRest == UNCHANGED <<free, mapping, offset, mapped, lost, strayed, fatal, maps>>

\* set_root_page: with a root node, its teardown first.
set_root_page ==
  /\ place[Guest] = "idle" /\ roots < MaxRoots /\ roots' = roots + 1
  /\ \/ root_node /\ GoesTo(Guest, "teardown")
     \/ ~root_node /\ GoesTo(Guest, "make")
  /\ UNCHANGED <<task, base, destroyed, root_node>> /\ RootRest

\* teardown_root: the root node is unset, its mapping dropped, and the task destroyed with its
\* base kept.
ClearRootNode ==
  /\ place[Guest] = "teardown" /\ root_node' = FALSE /\ GoesTo(Guest, "node")
  /\ UNCHANGED <<task, base, destroyed, roots>> /\ RootRest
DropRootNode ==
  /\ Drops(Guest, "node", "destroy")
  /\ UNCHANGED <<task, base, destroyed, root_node, roots, maps>>
DestroyTask ==
  /\ place[Guest] = "destroy" /\ destroyed' = destroyed \cup ({task} \ {0}) /\ task' = 0
  /\ \/ GoesTo(Guest, "make") \/ GoesTo(Guest, "idle")  \* the page written was 0
  /\ UNCHANGED <<base, root_node, roots>> /\ RootRest
teardown_root == ClearRootNode \/ DropRootNode \/ DestroyTask

\* create_task: the base is stored, then the handle, or a null one, neither under the lock.
CreateTask ==
  /\ \/ place[Guest] = "make" /\ base' \in Bases /\ GoesTo(Guest, "made") /\ UNCHANGED task
     \/ /\ place[Guest] = "made" /\ task' \in {0, roots} /\ GoesTo(Guest, "map") /\ UNCHANGED base
  /\ UNCHANGED <<destroyed, root_node, roots>> /\ RootRest
MapRootNode ==
  /\ place[Guest] = "map" /\ root_task_mapping(Guest, Page, "failed", "mapped")
  /\ UNCHANGED <<task, base, destroyed, root_node, offset, lost, strayed, fatal, roots, maps>>
\* Without its node the task is destroyed and the base cleared; the handle is kept.
RootNodeFails ==
  /\ place[Guest] = "failed" /\ destroyed' = destroyed \cup ({task} \ {0}) /\ base' = 0
  /\ GoesTo(Guest, "idle")
  /\ UNCHANGED <<task, root_node, roots>> /\ RootRest
RootNodeMade ==
  /\ place[Guest] = "mapped" /\ root_node' = TRUE /\ GoesTo(Guest, "idle")
  /\ UNCHANGED <<task, base, destroyed, roots>> /\ RootRest

UserStep(t) == Asks(t) \/ Maps(t) \/ LetsGo(t)
RootStep == set_root_page \/ teardown_root \/ CreateTask \/ MapRootNode \/ RootNodeFails \/ RootNodeMade

RootNext == ~fatal /\ (RootStep \/ \E t \in Users : UserStep(t))

RootSpec == RootInit /\ [][RootNext]_root_vars

-----------------------------------------------------------------------------
UserPlaces == {"idle", "asks", "has", "unmaps"}
GuestPlaces == {"idle", "teardown", "node", "unmaps", "destroy", "make", "made", "map", "failed",
                "mapped"}

RootTypeOK ==
  /\ free \in Seq(FreeRange) /\ task \in 0..MaxRoots /\ base \in Bases \cup {0}
  /\ destroyed \subseteq 1..MaxRoots /\ root_node \in BOOLEAN
  /\ mapping \in [Threads -> [va : Nat, length : Lengths \cup {Page, 0}, offset : 0..(Span - 1),
                             task : 0..MaxRoots]]
  /\ place \in [Threads -> UserPlaces \cup GuestPlaces]
  /\ place[Guest] \in GuestPlaces /\ \A t \in Users : place[t] \in UserPlaces
  /\ offset \in [Threads -> 0..LastVa]
  /\ mapped \subseteq (1..MaxRoots) \X Nat /\ lost \subseteq Nat
  /\ strayed \in BOOLEAN /\ fatal \in BOOLEAN
  /\ roots \in 0..MaxRoots /\ maps \in 0..MaxMaps

FreeAddresses == UNION {free[i].start..free[i].last : i \in DOMAIN free}
Live == {t \in Threads : mapping[t] # NoMapping}
RangeOf(t) == Covers(mapping[t].offset, mapping[t].length)

(* The allocator's list is sorted and coalesced, and it allocates as first fit does: at the     *)
(* lowest granule with room, or not at all.                                                      *)
FirstFit(size) ==
  LET starts == {a \in 0..LastVa : a % Granule = 0 /\ Covers(a, size) \subseteq FreeAddresses}
  IN IF size = 0 \/ starts = {} THEN NoRoom ELSE Min(starts)
FreeListIsCanonical ==
  ~strayed =>
    /\ \A i \in DOMAIN free : free[i].start <= free[i].last
    /\ \A i, j \in DOMAIN free : i < j => free[i].last + 1 < free[j].start
    /\ \A size \in Lengths : allocate(free, size).at = FirstFit(size)

(* Every address of the root task is free, or of one live mapping, or lost for the device's     *)
(* life with a mapping that outlived its root task: no range is given twice and no other is      *)
(* lost, through failed maps, teardowns and drops under a later root task, as long as no         *)
(* mapping is dropped under another base than its own.                                           *)
SpaceIsPartitioned ==
  ~strayed =>
    \A a \in 0..LastVa :
      Cardinality({t \in Live : a \in RangeOf(t)})
        + (IF a \in FreeAddresses THEN 1 ELSE 0) + (IF a \in lost THEN 1 ELSE 0) = 1

(* The host has nothing mapped in the root task but what mappings made in it and still held      *)
(* cover, whatever earlier roots' mappings are dropped and under whatever base.  And it has all  *)
(* of that, until a mapping is dropped under another base than its own: that one's offset is     *)
(* then another's (root.rs:525-540), and a live mapping may lose its range.                      *)
HostMapsMatch ==
  task \notin destroyed =>
    LET has == {a \in 0..LastVa : <<task, a>> \in mapped}
        covers == UNION {RangeOf(t) : t \in {u \in Live : mapping[u].task = task /\ task # 0}}
    IN has \subseteq covers /\ (~strayed => covers \subseteq has)
====
