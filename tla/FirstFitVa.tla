----------------------------- MODULE FirstFitVa -----------------------------
(***************************************************************************)
(* First fit over a sorted free list                                       *)
(* (crates/reims-vgpu-core/src/collections/first_fit.rs), as operators on  *)
(* the list: what allocate and deallocate return, in arithmetic that wraps *)
(* at Span.  The definitions named ..._bug are plausible mistakes in the   *)
(* one they precede, kept to show which property catches each.             *)
(***************************************************************************)
EXTENDS Integers, Sequences, FiniteSetsExt

CONSTANTS
  Span,     \* addresses wrap here (2^64 in the code)
  LastVa,     \* the last address
  Granule   \* what sizes and starts round up to, a power of two

ASSUME FirstFitVaAssumption ==
  /\ Span \in Nat /\ Granule \in Nat \ {0} /\ Span % Granule = 0
  /\ LastVa \in 0..(Span - 1)

FreeRange == [start : 0..(Span - 1), last : 0..(Span - 1)]
NoRoom == -1

new == <<[start |-> 0, last |-> LastVa]>>

wrap(n) == n % Span
round(size) == LET up == wrap(size + Granule - 1) IN up - (up % Granule)

\* Where a block would start and end in a range, and the ranges that hold it.
EndIn(r, size) == wrap(round(r.start) + round(size) - 1)
Holding(free, size) == {i \in DOMAIN free : EndIn(free[i], size) <= free[i].last}

\* The list with its ranges from..to replaced by others.
Splice(free, from, to, others) ==
  SubSeq(free, 1, from - 1) \o others \o SubSeq(free, to + 1, Len(free))

\* The block's start, or NoRoom, and the list left: the range's head, its tail, both or neither.
allocate(free, size) ==
  IF size = 0 \/ Holding(free, size) = {} THEN [at |-> NoRoom, free |-> free]
  ELSE
    LET i == Min(Holding(free, size))
        r == free[i]
        al == round(r.start)
        end == EndIn(r, size)
        head == IF al = r.start THEN << >> ELSE <<[start |-> r.start, last |-> wrap(al - 1)]>>
        tail == IF end = r.last THEN << >> ELSE <<[start |-> wrap(end + 1), last |-> r.last]>>
    IN [at |-> al, free |-> Splice(free, i, i, head \o tail)]

\* The list with the range freed, joined with the ranges it touches: one that reaches past the
\* next range's end still takes that range's.
deallocate_bug(free, start, size) ==  \* nothing is joined
  LET below == {i \in DOMAIN free : free[i].start < start}
      i == Cardinality(below) + 1
  IN Splice(free, i, i - 1, <<[start |-> start, last |-> wrap(start + round(size) - 1)]>>)
deallocate(free, start, size) ==
  LET end  == wrap(start + round(size))
      last == wrap(end - 1)
      above == {i \in DOMAIN free : free[i].start >= start}
      i == IF above = {} THEN Len(free) + 1 ELSE Min(above)
      touches_prev == i > 1 /\ start <= wrap(free[i - 1].last + 1)
      touches_next == above # {} /\ end >= free[i].start
      joined == [start |-> IF touches_prev THEN free[i - 1].start ELSE start,
                 last |-> IF touches_next THEN free[i].last
                          ELSE IF touches_prev /\ free[i - 1].last > last THEN free[i - 1].last
                          ELSE last]
  IN Splice(free, IF touches_prev THEN i - 1 ELSE i, IF touches_next THEN i ELSE i - 1, <<joined>>)
=============================================================================
