---------------------------- MODULE TimerProofs ----------------------------
(***************************************************************************)
(* Proofs about the coalescing source and the timer over it, for every      *)
(* width of the word, number of threads and jobs, and schedule.             *)
(***************************************************************************)
EXTENDS Timer, ModularCounters, FiniteSetTheorems

-----------------------------------------------------------------------------
(* Words: how data combines, whichever way the source merges *)

\* The powers of two up to the word's.
LEMMA Powers == \A b \in 0..Bits : 2 ^ b \in Nat \ {0}
<1> DEFINE S == {b \in Nat : 2 ^ b \in Nat \ {0}}
<1>1. Bits \in Nat /\ \A b \in 0..(Bits - 1) : 2 ^ (b + 1) = 2 * 2 ^ b
  BY CoalescingSignalAssumption
<1>2. 0 \in S
  <2>1. 2 ^ 0 = 1
    OBVIOUS
  <2> QED
    BY <2>1
<1>3. ASSUME NEW k \in 0..(Bits - 1), k \in S
      PROVE  k + 1 \in S
  <2>1. 2 ^ (k + 1) = 2 * 2 ^ k /\ 2 ^ k \in Nat \ {0}
    BY <1>1, <1>3
  <2> QED
    BY <2>1, <1>1
<1> HIDE DEF S
<1>4. \A k \in 0..Bits : k \in S
  BY <1>1, <1>2, <1>3, SegmentInduction
<1> QED
  BY <1>4 DEF S

Bit(u, b) == (u \div 2 ^ b) % 2 = 1

\* A word's lowest bit is its parity, and its other bits are those of its half.
LEMMA BitOfHalf ==
  ASSUME NEW u \in Nat
  PROVE  /\ Bit(u, 0) <=> u % 2 = 1
         /\ \A b \in 0..(Bits - 1) : Bit(u, b + 1) <=> Bit(u \div 2, b)
<1>1. Bit(u, 0) <=> u % 2 = 1
  <2>1. 2 ^ 0 = 1 /\ u \div 1 = u
    OBVIOUS
  <2> QED
    BY <2>1 DEF Bit
<1>2. ASSUME NEW b \in 0..(Bits - 1)
      PROVE  Bit(u, b + 1) <=> Bit(u \div 2, b)
  <2> DEFINE m == 2 ^ b
             n == 2 ^ (b + 1)
  <2>1. m \in Nat \ {0} /\ n = 2 * m /\ n \in Nat
    BY Powers, CoalescingSignalAssumption
  <2> HIDE DEF m, n
  <2>2. u \div n = (u \div 2) \div m
    BY <2>1, Halving, Zenon
  <2> QED
    BY <2>2 DEF Bit, m, n
<1> QED
  BY <1>1, <1>2

\* A word is its bits, ...
LEMMA BitsTellWords ==
  ASSUME NEW u \in Word, NEW v \in Word, BitsOf(u) = BitsOf(v)
  PROVE  u = v
<1> DEFINE Agree(n, x, y) == \A b \in 0..(n - 1) : Bit(x, b) <=> Bit(y, b)
           S == {n \in Nat : \A x, y \in 0..(2 ^ n - 1) : Agree(n, x, y) => x = y}
<1>1. Bits \in Nat /\ \A b \in 0..(Bits - 1) : 2 ^ (b + 1) = 2 * 2 ^ b
  BY CoalescingSignalAssumption
<1>2. 0 \in S
  <2>1. 2 ^ 0 = 1
    OBVIOUS
  <2> QED
    BY <2>1
<1>3. ASSUME NEW k \in 0..(Bits - 1), k \in S
      PROVE  k + 1 \in S
  <2> SUFFICES ASSUME NEW x \in 0..(2 ^ (k + 1) - 1), NEW y \in 0..(2 ^ (k + 1) - 1),
                      Agree(k + 1, x, y)
               PROVE  x = y
    BY <1>1
  <2>1. 2 ^ (k + 1) = 2 * 2 ^ k /\ 2 ^ k \in Nat
    BY <1>1, Powers
  <2>2. /\ x \in Nat /\ y \in Nat
        /\ x \div 2 \in 0..(2 ^ k - 1) /\ y \div 2 \in 0..(2 ^ k - 1)
    BY <2>1
  <2>3. Agree(k, x \div 2, y \div 2)
    <3> SUFFICES ASSUME NEW b \in 0..(k - 1)
                 PROVE  Bit(x \div 2, b) <=> Bit(y \div 2, b)
      OBVIOUS
    <3>1. b \in 0..(Bits - 1) /\ b + 1 \in 0..((k + 1) - 1)
      BY <1>1
    <3>2. Bit(x, b + 1) <=> Bit(y, b + 1)
      BY <3>1
    <3> QED
      BY <2>2, <3>1, <3>2, BitOfHalf
  <2>4. x \div 2 = y \div 2
    BY <1>3, <2>2, <2>3
  <2>5. x % 2 = 1 <=> y % 2 = 1
    <3>1. 0 \in 0..((k + 1) - 1)
      BY <1>1
    <3>2. Bit(x, 0) <=> Bit(y, 0)
      BY <3>1
    <3> QED
      BY <2>2, <3>2, BitOfHalf
  <2> QED
    BY <2>2, <2>4, <2>5
<1>4. \A k \in 0..Bits : k \in S
  <2> HIDE DEF S
  <2> QED
    BY <1>1, <1>2, <1>3, SegmentInduction
<1>5. Agree(Bits, u, v)
  BY DEF BitsOf, Bit
<1> QED
  BY <1>1, <1>4, <1>5 DEF Word

\* ... and every set of bits is a word's.
LEMMA WordOfBits ==
  ASSUME NEW A \in SUBSET (0..(Bits - 1))
  PROVE  \E u \in Word : BitsOf(u) = A
<1> DEFINE Has(n, x, B) == \A b \in 0..(n - 1) : Bit(x, b) <=> b \in B
           S == {n \in Nat : \A B \in SUBSET (0..(n - 1)) : \E x \in 0..(2 ^ n - 1) : Has(n, x, B)}
<1>1. Bits \in Nat /\ \A b \in 0..(Bits - 1) : 2 ^ (b + 1) = 2 * 2 ^ b
  BY CoalescingSignalAssumption
<1>2. 0 \in S
  <2>1. 2 ^ 0 = 1
    OBVIOUS
  <2> QED
    BY <2>1
<1>3. ASSUME NEW k \in 0..(Bits - 1), k \in S
      PROVE  k + 1 \in S
  <2> SUFFICES ASSUME NEW B \in SUBSET (0..((k + 1) - 1))
               PROVE  \E x \in 0..(2 ^ (k + 1) - 1) : Has(k + 1, x, B)
    BY <1>1
  <2>1. 2 ^ (k + 1) = 2 * 2 ^ k /\ 2 ^ k \in Nat
    BY <1>1, Powers
  <2> DEFINE C == {b \in 0..(k - 1) : b + 1 \in B}
  <2>2. PICK y \in 0..(2 ^ k - 1) : Has(k, y, C)
    BY <1>3
  <2> DEFINE x == 2 * y + (IF 0 \in B THEN 1 ELSE 0)
  <2>3. /\ x \in 0..(2 ^ (k + 1) - 1) /\ x \in Nat /\ x \div 2 = y
        /\ x % 2 = 1 <=> 0 \in B
    BY <2>1, <2>2
  <2> HIDE DEF x
  <2>4. Has(k + 1, x, B)
    <3> SUFFICES ASSUME NEW b \in 0..((k + 1) - 1)
                 PROVE  Bit(x, b) <=> b \in B
      OBVIOUS
    <3>1. CASE b = 0
      BY <2>3, <3>1, BitOfHalf
    <3>2. CASE b # 0
      <4>1. b - 1 \in 0..(k - 1) /\ b - 1 \in 0..(Bits - 1) /\ b = (b - 1) + 1
        BY <3>2, <1>1
      <4>2. Bit(x, b) <=> Bit(y, b - 1)
        BY <2>3, <4>1, BitOfHalf
      <4> QED
        BY <2>2, <4>1, <4>2
    <3> QED
      BY <3>1, <3>2
  <2> QED
    BY <2>3, <2>4
<1>4. \A k \in 0..Bits : k \in S
  <2> HIDE DEF S
  <2> QED
    BY <1>1, <1>2, <1>3, SegmentInduction
<1>5. PICK u \in Word : Has(Bits, u, A)
  BY <1>1, <1>4 DEF Word
<1>6. BitsOf(u) = A
  BY <1>5 DEF BitsOf, Bit
<1> QED
  BY <1>6

\* An or of words, and the two ways of merging, with the kind as an argument.
Or(w, v) == CHOOSE u \in Word : BitsOf(u) = BitsOf(w) \cup BitsOf(v)
FoldBy(k, w, v) == IF k = "Add" THEN (w + v) % 2 ^ Bits ELSE Or(w, v)

\* The or of two words has the bits of both.
LEMMA OrOfBits ==
  ASSUME NEW w \in Word, NEW v \in Word
  PROVE  Or(w, v) \in Word /\ BitsOf(Or(w, v)) = BitsOf(w) \cup BitsOf(v)
<1>1. BitsOf(w) \cup BitsOf(v) \in SUBSET (0..(Bits - 1))
  BY DEF BitsOf
<1>2. \E u \in Word : BitsOf(u) = BitsOf(w) \cup BitsOf(v)
  BY <1>1, WordOfBits, Zenon
<1> QED
  BY <1>2, Zenon DEF Or

\* Merging stays within the word and 0 is neutral, ...
LEMMA FoldAlgebra ==
  ASSUME NEW k, NEW w \in Word, NEW v \in Word
  PROVE  /\ 0 \in Word
         /\ FoldBy(k, w, v) \in Word
         /\ FoldBy(k, w, 0) = w
<1> DEFINE M == 2 ^ Bits
<1>1. M \in Nat \ {0} /\ Bits \in Nat
  BY Powers, CoalescingSignalAssumption
<1>2. Word = 0..(M - 1)
  BY DEF Word
<1> HIDE DEF M
<1>3. 0 \in Word
  BY <1>1, <1>2
<1>4. CASE k = "Add"
  <2>1. FoldBy(k, w, v) = (w + v) % M /\ FoldBy(k, w, 0) = (w + 0) % M
    BY <1>4 DEF FoldBy, M
  <2>2. (w + v) % M \in Word
    BY <1>1, <1>2, DivMod
  <2>3. (w + 0) % M = w
    BY <1>1, <1>2
  <2> QED
    BY <1>3, <2>1, <2>2, <2>3, Zenon
<1>5. CASE k # "Add"
  <2>1. FoldBy(k, w, v) = Or(w, v) /\ FoldBy(k, w, 0) = Or(w, 0)
    BY <1>5 DEF FoldBy
  <2>2. BitsOf(0) = {}
    <3>1. \A b \in 0..(Bits - 1) : 2 ^ b \in Nat \ {0}
      BY <1>1, Powers
    <3>2. \A m \in Nat \ {0} : 0 \div m = 0
      OBVIOUS
    <3>3. \A b \in 0..(Bits - 1) : (0 \div 2 ^ b) % 2 # 1
      BY <3>1, <3>2
    <3> QED
      BY <3>3 DEF BitsOf
  <2>3. Or(w, 0) \in Word /\ BitsOf(Or(w, 0)) = BitsOf(w) \cup BitsOf(0)
    BY <1>3, OrOfBits, Zenon
  <2>4. BitsOf(Or(w, 0)) = BitsOf(w)
    BY <2>2, <2>3
  <2>5. Or(w, 0) = w
    BY <2>3, <2>4, BitsTellWords
  <2>6. Or(w, v) \in Word
    BY OrOfBits, Zenon
  <2> QED
    BY <1>3, <2>1, <2>5, <2>6, Zenon
<1> QED
  BY <1>4, <1>5

\* ... and it is associative: what is folded piece by piece is the fold of the whole.
LEMMA FoldAssoc ==
  ASSUME NEW k, NEW w \in Word, NEW v \in Word, NEW x \in Word
  PROVE  FoldBy(k, FoldBy(k, w, v), x) = FoldBy(k, w, FoldBy(k, v, x))
<1>1. CASE k = "Add"
  <2> DEFINE M == 2 ^ Bits
  <2>1. M \in Nat \ {0} /\ Word = 0..(M - 1)
    BY Powers, CoalescingSignalAssumption DEF Word
  <2>2. \A a, b : FoldBy(k, a, b) = (a + b) % M
    BY <1>1 DEF FoldBy
  <2> HIDE DEF M
  <2>3. w \in Int /\ v \in Int /\ x \in Int /\ w + v \in Int /\ v + x \in Int
    BY <2>1
  <2>4. (((w + v) % M) + x) % M = ((w + v) + x) % M
    BY <2>1, <2>3, WrappingAdd, Zenon
  <2>5. (((v + x) % M) + w) % M = ((v + x) + w) % M
    BY <2>1, <2>3, WrappingAdd, Zenon
  <2>6. (v + x) % M \in Int
    BY <2>1, <2>3, DivMod
  <2>7. /\ (v + x) + w = (w + v) + x
        /\ ((v + x) % M) + w = w + ((v + x) % M)
    BY <2>3, <2>6
  <2>8. /\ FoldBy(k, w, v) = (w + v) % M /\ FoldBy(k, v, x) = (v + x) % M
        /\ FoldBy(k, (w + v) % M, x) = (((w + v) % M) + x) % M
        /\ FoldBy(k, w, (v + x) % M) = (w + ((v + x) % M)) % M
    BY <2>2, Zenon
  <2> QED
    BY <2>4, <2>5, <2>7, <2>8, Zenon
<1>2. CASE k # "Add"
  <2>1. \A a, b : FoldBy(k, a, b) = Or(a, b)
    BY <1>2 DEF FoldBy
  <2>2. /\ Or(w, v) \in Word /\ BitsOf(Or(w, v)) = BitsOf(w) \cup BitsOf(v)
        /\ Or(v, x) \in Word /\ BitsOf(Or(v, x)) = BitsOf(v) \cup BitsOf(x)
    BY OrOfBits, Zenon
  <2>3. /\ Or(Or(w, v), x) \in Word
        /\ BitsOf(Or(Or(w, v), x)) = BitsOf(Or(w, v)) \cup BitsOf(x)
    BY <2>2, OrOfBits, Zenon
  <2>4. /\ Or(w, Or(v, x)) \in Word
        /\ BitsOf(Or(w, Or(v, x))) = BitsOf(w) \cup BitsOf(Or(v, x))
    BY <2>2, OrOfBits, Zenon
  <2>5. BitsOf(Or(Or(w, v), x)) = BitsOf(Or(w, Or(v, x)))
    BY <2>2, <2>3, <2>4
  <2>6. Or(Or(w, v), x) = Or(w, Or(v, x))
    BY <2>3, <2>4, <2>5, BitsTellWords, Zenon
  <2>7. /\ FoldBy(k, w, v) = Or(w, v) /\ FoldBy(k, v, x) = Or(v, x)
        /\ FoldBy(k, Or(w, v), x) = Or(Or(w, v), x)
        /\ FoldBy(k, w, Or(v, x)) = Or(w, Or(v, x))
    BY <2>1, Zenon
  <2> QED
    BY <2>6, <2>7, Zenon
<1> QED
  BY <1>1, <1>2

-----------------------------------------------------------------------------
(* The source *)

\* One thread about to submit or one job, while the source is scheduled, and neither while not.
OneActor ==
  /\ \A t, u \in owes : t = u
  /\ \A i, j \in Jobs : job[i] # "none" /\ job[j] # "none" => i = j
  /\ owes # {} => \A j \in Jobs : job[j] = "none"
  /\ scheduled <=> (owes # {} \/ \E j \in Jobs : job[j] # "none")

\* The handler is there, and no job is past it, until a cancel.
HandlerSet == ~cancelled => handler /\ \A j \in Jobs : job[j] \notin {"callout", "freed"}

\* NothingLostOrRepeated, by cases on the job that has data in hand.
Accounted ==
  ~cancelled =>
    /\ (\A j \in Jobs : job[j] # "taken") => merged = FoldBy(kind, delivered, pending)
    /\ \A j \in Jobs : job[j] = "taken" =>
         merged = FoldBy(kind, FoldBy(kind, delivered, data[j]), pending)
    /\ pending # 0 => scheduled

SourceInv == TypeOK /\ OneActor /\ HandlerSet /\ Accounted

\* The fold of a merge, by the kind of the source.
LEMMA FoldIs == \A w, v : Fold(w, v) = FoldBy(kind, w, v)
  BY DEF Fold, FoldBy, Or

\* The invariant says what the properties say.
LEMMA SourceInvImplies == SourceInv => OneInvocation /\ NothingLostOrRepeated
<1> SUFFICES ASSUME SourceInv PROVE OneInvocation /\ NothingLostOrRepeated
  OBVIOUS
<1>1. OneInvocation
  <2>1. CASE ~scheduled
    <3>1. Live = {} /\ owes = {}
      BY <2>1 DEF SourceInv, OneActor, Live
    <3> QED
      BY <2>1, <3>1, FS_EmptySet DEF OneInvocation
  <2>2. CASE scheduled /\ owes # {}
    <3>1. PICK t \in owes : TRUE
      BY <2>2
    <3>2. Live = {} /\ owes = {t}
      BY <2>2, <3>1 DEF SourceInv, OneActor, Live
    <3>3. Cardinality(Live) = 0 /\ Cardinality(owes) = 1
      BY <3>2, FS_EmptySet, FS_Singleton, Zenon
    <3> QED
      BY <2>2, <3>3 DEF OneInvocation
  <2>3. CASE scheduled /\ owes = {}
    <3>1. PICK j \in Jobs : job[j] # "none"
      BY <2>3 DEF SourceInv, OneActor
    <3>2. Live = {j}
      BY <2>3, <3>1 DEF SourceInv, OneActor, Live
    <3>3. Cardinality(Live) = 1 /\ Cardinality(owes) = 0
      BY <2>3, <3>2, FS_EmptySet, FS_Singleton, Zenon
    <3> QED
      BY <2>3, <3>3 DEF OneInvocation
  <2> QED
    BY <2>1, <2>2, <2>3
<1>2. NothingLostOrRepeated
  <2> SUFFICES ASSUME ~cancelled
               PROVE  /\ \/ InHand = {} /\ merged = Fold(delivered, pending)
                         \/ \E j \in InHand : merged = Fold(Fold(delivered, data[j]), pending)
                      /\ pending # 0 => scheduled
    BY DEF NothingLostOrRepeated
  <2>1. CASE InHand = {}
    BY <2>1, FoldIs, Zenon DEF SourceInv, Accounted, InHand
  <2>2. CASE InHand # {}
    <3>1. PICK j \in Jobs : job[j] = "taken"
      BY <2>2 DEF InHand
    <3>2. merged = Fold(Fold(delivered, data[j]), pending)
      BY <3>1, FoldIs, Zenon DEF SourceInv, Accounted
    <3> QED
      BY <3>1, <3>2, Zenon DEF SourceInv, Accounted, InHand
  <2> QED
    BY <2>1, <2>2
<1> QED
  BY <1>1, <1>2

\* A new source has nothing pending and no job.
LEMMA SourceInitInv == Init => SourceInv
<1> SUFFICES ASSUME Init PROVE SourceInv
  OBVIOUS
<1>1. 0 \in Word
  BY Powers, CoalescingSignalAssumption DEF Word
<1>2. MaxMerges \in Nat
  BY CoalescingSignalAssumption
<1>3. TypeOK
  <2>1. job \in [Jobs -> {"none", "queued", "taken", "run", "callout", "freed"}]
    BY DEF Init
  <2>2. data \in [Jobs -> Word]
    BY <1>1 DEF Init
  <2>3. merges \in 0..MaxMerges
    BY <1>2 DEF Init
  <2>4. scheduled \in BOOLEAN /\ cancelled \in BOOLEAN /\ handler \in BOOLEAN
    BY Zenon DEF Init
  <2>5. owes \subseteq Threads /\ kind \in {"Add", "Or"}
    BY DEF Init
  <2> QED
    BY <1>1, <2>1, <2>2, <2>3, <2>4, <2>5, Zenon DEF Init, TypeOK
<1>4. FoldBy(kind, 0, 0) = 0
  BY <1>1, FoldAlgebra, Zenon
<1>5. OneActor
  BY DEF Init, OneActor
<1>6. HandlerSet
  BY DEF Init, HandlerSet
<1>7. Accounted
  BY <1>4 DEF Init, Accounted
<1> QED
  BY <1>3, <1>5, <1>6, <1>7 DEF SourceInv

\* A merge adds its word to what is pending, and schedules a job only if none is.
LEMMA MergeKeeps ==
  ASSUME SourceInv, NEW t \in Threads, NEW v \in Word, merge(t, v)
  PROVE  SourceInv'
<1>1. /\ pending' = FoldBy(kind, pending, v) /\ merged' = FoldBy(kind, merged, v)
      /\ kind' = kind
  BY FoldIs, Zenon DEF merge
<1>2. /\ pending \in Word /\ merged \in Word /\ delivered \in Word
      /\ \A j \in Jobs : data[j] \in Word
  BY DEF SourceInv, TypeOK
<1>3. pending' \in Word /\ merged' \in Word /\ kind' \in {"Add", "Or"}
  BY <1>1, <1>2, FoldAlgebra, Zenon DEF SourceInv, TypeOK
<1>4. TypeOK'
  <2>1. owes' \subseteq Threads /\ scheduled' \in BOOLEAN
    BY DEF SourceInv, TypeOK, merge
  <2>2. merges' \in 0..MaxMerges
    BY CoalescingSignalAssumption DEF SourceInv, TypeOK, merge
  <2>3. UNCHANGED <<cancelled, handler, job, data, delivered>>
    BY DEF merge
  <2> QED
    BY <1>3, <2>1, <2>2, <2>3 DEF SourceInv, TypeOK
<1>5. OneActor'
  BY DEF SourceInv, TypeOK, OneActor, merge
<1>6. HandlerSet'
  BY DEF SourceInv, HandlerSet, merge
<1>7. Accounted'
  <2> SUFFICES ASSUME ~cancelled'
               PROVE  /\ (\A j \in Jobs : job'[j] # "taken") => merged' = FoldBy(kind', delivered', pending')
                      /\ \A j \in Jobs : job'[j] = "taken" =>
                           merged' = FoldBy(kind', FoldBy(kind', delivered', data'[j]), pending')
                      /\ pending' # 0 => scheduled'
    BY DEF Accounted
  <2>1. ~cancelled /\ UNCHANGED <<job, data, delivered>>
    BY DEF merge
  <2>2. pending' # 0 => scheduled'
    BY DEF merge
  <2>3. ASSUME \A j \in Jobs : job[j] # "taken"
        PROVE  merged' = FoldBy(kind, delivered, pending')
    <3>1. merged = FoldBy(kind, delivered, pending)
      BY <2>1, <2>3 DEF SourceInv, Accounted
    <3>2. FoldBy(kind, FoldBy(kind, delivered, pending), v)
            = FoldBy(kind, delivered, FoldBy(kind, pending, v))
      BY <1>2, FoldAssoc, Zenon
    <3> QED
      BY <3>1, <3>2, <1>1, Zenon
  <2>4. ASSUME NEW j \in Jobs, job[j] = "taken"
        PROVE  merged' = FoldBy(kind, FoldBy(kind, delivered, data[j]), pending')
    <3> DEFINE got == FoldBy(kind, delivered, data[j])
    <3>1. merged = FoldBy(kind, got, pending)
      BY <2>1, <2>4 DEF SourceInv, Accounted
    <3>2. got \in Word
      BY <1>2, FoldAlgebra, Zenon
    <3> HIDE DEF got
    <3>3. FoldBy(kind, FoldBy(kind, got, pending), v) = FoldBy(kind, got, FoldBy(kind, pending, v))
      BY <3>2, <1>2, FoldAssoc
    <3>4. merged' = FoldBy(kind, got, pending')
      BY <3>1, <3>3, <1>1, Zenon
    <3> QED
      BY <3>4 DEF got
  <2> QED
    BY <1>1, <2>1, <2>2, <2>3, <2>4, Zenon
<1> QED
  BY <1>4, <1>5, <1>6, <1>7 DEF SourceInv

\* A cancel keeps the source's invariant.
LEMMA CancelKeeps ==
  ASSUME SourceInv, NEW t \in Threads, cancel(t)
  PROVE  SourceInv'
<1>1. 0 \in Word
  BY FoldAlgebra, Zenon DEF SourceInv, TypeOK
<1>2. TypeOK'
  BY <1>1 DEF SourceInv, TypeOK, cancel
<1>3. OneActor'
  BY DEF SourceInv, TypeOK, OneActor, cancel
<1>4. HandlerSet' /\ Accounted'
  BY DEF HandlerSet, Accounted, cancel
<1> QED
  BY <1>2, <1>3, <1>4 DEF SourceInv

\* The submission after the unlock makes the one scheduled job appear.
LEMMA SubmitKeeps ==
  ASSUME SourceInv, NEW t \in Threads, submit(t)
  PROVE  SourceInv'
<1>1. PICK j \in Jobs : /\ job[j] = "none" /\ job' = [job EXCEPT ![j] = "queued"]
                        /\ t \in owes /\ owes' = owes \ {t}
                        /\ UNCHANGED <<source, data, merges, merged, delivered>>
  BY DEF submit, Goto
<1>2. TypeOK'
  BY <1>1 DEF SourceInv, TypeOK, source
<1>3. OneActor'
  BY <1>1 DEF SourceInv, TypeOK, OneActor, source
<1>4. HandlerSet'
  BY <1>1 DEF SourceInv, TypeOK, HandlerSet, source
<1>5. Accounted'
  BY <1>1 DEF SourceInv, TypeOK, Accounted, source
<1> QED
  BY <1>2, <1>3, <1>4, <1>5 DEF SourceInv

\* A job that takes the pending word takes all of it.
LEMMA FireKeeps ==
  ASSUME SourceInv, NEW j \in Jobs, fire(j)
  PROVE  SourceInv'
<1> USE DEF Goto
<1>1. 0 \in Word
  BY FoldAlgebra, Zenon DEF SourceInv, TypeOK
<1>2. TypeOK'
  BY <1>1 DEF SourceInv, TypeOK, fire
<1>3. OneActor'
  BY DEF SourceInv, TypeOK, OneActor, fire
<1>4. HandlerSet'
  BY DEF SourceInv, TypeOK, HandlerSet, fire
<1>5. Accounted'
  <2>1. CASE cancelled
    BY <2>1 DEF Accounted, fire
  <2>2. CASE ~cancelled /\ pending = 0
    BY <2>2 DEF SourceInv, TypeOK, Accounted, fire
  <2>3. CASE ~cancelled /\ pending # 0
    <3>1. /\ data' = [data EXCEPT ![j] = pending] /\ pending' = 0
          /\ job' = [job EXCEPT ![j] = "taken"] /\ job[j] = "queued"
          /\ UNCHANGED <<kind, scheduled, merged, delivered>>
      BY <2>3 DEF fire
    <3>2. \A i \in Jobs : i # j => job[i] = "none"
      BY <3>1 DEF SourceInv, OneActor
    <3>3. merged = FoldBy(kind, delivered, pending)
      BY <2>3, <3>1, <3>2 DEF SourceInv, Accounted
    <3>4. FoldBy(kind, FoldBy(kind, delivered, pending), 0) = FoldBy(kind, delivered, pending)
      <4>1. FoldBy(kind, delivered, pending) \in Word
        BY FoldAlgebra, Zenon DEF SourceInv, TypeOK
      <4> QED
        BY <4>1, FoldAlgebra, Zenon
    <3>5. data'[j] = pending /\ job'[j] = "taken" /\ \A i \in Jobs : i # j => job'[i] = "none"
      BY <3>1, <3>2 DEF SourceInv, TypeOK
    <3> QED
      BY <3>1, <3>3, <3>4, <3>5 DEF Accounted
  <2> QED
    BY <2>1, <2>2, <2>3
<1> QED
  BY <1>2, <1>3, <1>4, <1>5 DEF SourceInv

\* A call of the handler delivers what its job took.
LEMMA CallHandlerKeeps ==
  ASSUME SourceInv, NEW j \in Jobs, CallHandler(j)
  PROVE  SourceInv'
<1> USE DEF Goto
<1>1. delivered' = IF handler THEN FoldBy(kind, delivered, data[j]) ELSE delivered
  BY FoldIs, Zenon DEF CallHandler
<1>2. delivered' \in Word
  <2>1. FoldBy(kind, delivered, data[j]) \in Word
    <3>1. delivered \in Word /\ data[j] \in Word
      BY DEF SourceInv, TypeOK
    <3> QED
      BY <3>1, FoldAlgebra, Zenon
  <2> QED
    BY <1>1, <2>1 DEF SourceInv, TypeOK
<1>3. TypeOK'
  BY <1>2 DEF SourceInv, TypeOK, CallHandler, source
<1>4. OneActor'
  BY DEF SourceInv, TypeOK, OneActor, CallHandler, source
<1>5. HandlerSet'
  BY DEF SourceInv, TypeOK, HandlerSet, CallHandler, source
<1>6. Accounted'
  <2>1. CASE cancelled
    BY <2>1 DEF Accounted, CallHandler, source
  <2>2. CASE ~cancelled
    <3>1. /\ job[j] = "taken" /\ job' = [job EXCEPT ![j] = "run"] /\ handler
          /\ UNCHANGED <<kind, pending, scheduled, cancelled, data, merged>>
      BY <2>2 DEF CallHandler, source, SourceInv, HandlerSet
    <3>2. \A i \in Jobs : job'[i] # "taken"
      BY <3>1 DEF SourceInv, TypeOK, OneActor
    <3>3. merged = FoldBy(kind, FoldBy(kind, delivered, data[j]), pending)
      BY <2>2, <3>1 DEF SourceInv, Accounted
    <3>4. pending # 0 => scheduled
      BY <2>2 DEF SourceInv, Accounted
    <3> QED
      BY <1>1, <3>1, <3>2, <3>3, <3>4 DEF Accounted
  <2> QED
    BY <2>1, <2>2
<1> QED
  BY <1>3, <1>4, <1>5, <1>6 DEF SourceInv

\* A return of the handler keeps the source's invariant.
LEMMA HandlerReturnsKeeps ==
  ASSUME SourceInv, NEW j \in Jobs, HandlerReturns(j)
  PROVE  SourceInv'
<1> USE DEF Goto
<1>1. 0 \in Word
  BY FoldAlgebra, Zenon DEF SourceInv, TypeOK
<1>2. TypeOK'
  BY <1>1 DEF SourceInv, TypeOK, HandlerReturns
<1>3. OneActor'
  BY DEF SourceInv, TypeOK, OneActor, HandlerReturns
<1>4. HandlerSet'
  BY DEF SourceInv, TypeOK, HandlerSet, HandlerReturns
<1>5. Accounted'
  BY DEF SourceInv, TypeOK, OneActor, Accounted, HandlerReturns
<1> QED
  BY <1>2, <1>3, <1>4, <1>5 DEF SourceInv

\* The cancel's callout frees a handler nobody is in.
LEMMA CalloutKeeps ==
  ASSUME SourceInv, NEW j \in Jobs, cancel_callout(j)
  PROVE  SourceInv'
<1> USE DEF Goto
<1>1. cancelled /\ cancelled'
  BY DEF SourceInv, HandlerSet, cancel_callout
<1>2. TypeOK'
  BY DEF SourceInv, TypeOK, cancel_callout
<1>3. OneActor'
  BY DEF SourceInv, TypeOK, OneActor, cancel_callout
<1>4. HandlerSet' /\ Accounted'
  BY <1>1 DEF HandlerSet, Accounted
<1> QED
  BY <1>2, <1>3, <1>4 DEF SourceInv

\* Every step of a source keeps the invariant, whoever takes it.
LEMMA SourceNextInv == SourceInv /\ [Next]_vars => SourceInv'
<1> SUFFICES ASSUME SourceInv, [Next]_vars PROVE SourceInv'
  OBVIOUS
<1>1. CASE UNCHANGED vars
  BY <1>1, Zenon DEF SourceInv, TypeOK, OneActor, HandlerSet, Accounted, vars, source
<1>2. ASSUME NEW t \in Threads, ThreadStep(t)
      PROVE  SourceInv'
  BY <1>2, MergeKeeps, CancelKeeps, SubmitKeeps, Zenon DEF ThreadStep
<1>3. ASSUME NEW j \in Jobs, JobStep(j)
      PROVE  SourceInv'
  BY <1>3, FireKeeps, CallHandlerKeeps, HandlerReturnsKeeps, CalloutKeeps, Zenon DEF JobStep
<1> QED
  BY <1>1, <1>2, <1>3, Zenon DEF Next

-----------------------------------------------------------------------------
(* The timer *)

\* The thread is at a point of the schedule: the k-th, which the clock has shown but for the
\* last step, with k fires merged or in hand.
AtPoint(k) ==
  /\ next = Start + k * Step
  /\ k > 0 => next - Step <= latest
  /\ ~cancelled => (merged + due) % 2 ^ Bits = k

TimerInv ==
  /\ TimerTypeOK
  /\ due <= MaxTime + 1 /\ (thread # "merge" => due = 0)
  /\ now <= latest
  /\ use = "timer" => kind = "Add" /\ \E k \in 0..(MaxTime + 1) : AtPoint(k)

\* The schedule moves forward.
LEMMA StepIsPositive == Step \in Nat \ {0}
  BY TimerAssumption DEF Step

\* The bounds leave room: every count of points is a word.
LEMMA CountsAreWords ==
  /\ 2 ^ Bits \in Nat \ {0} /\ MaxTime \in Nat /\ Start \in Nat
  /\ \A k \in 0..(MaxTime + 1) : k \in Word /\ k % 2 ^ Bits = k
<1> DEFINE M == 2 ^ Bits
<1>1. M \in Nat \ {0} /\ MaxTime \in Nat /\ Start \in Nat /\ MaxTime < M - 1
  BY Powers, CoalescingSignalAssumption, TimerAssumption
<1>2. Word = 0..(M - 1)
  BY DEF Word
<1> HIDE DEF M
<1>3. \A k \in 0..(MaxTime + 1) : k \in Word /\ k % M = k
  BY <1>1, <1>2
<1> QED
  BY <1>1, <1>3 DEF M

\* fires_due counts the points from the next one to now, and goes to the one after them.
LEMMA FiresDue ==
  ASSUME NEW from \in Nat, NEW at \in Nat, NEW fires \in Nat, NEW after \in Nat,
         fires_due(from, at)[1] = fires, fires_due(from, at)[2] = after
  PROVE  /\ after = from + fires * Step
         /\ fires = 0 <=> at < from
         /\ fires > 0 => after - Step <= at
<1>1. Step \in Nat \ {0}
  BY StepIsPositive
<1>2. CASE at < from
  <2>1. fires = 0 /\ after = from
    BY <1>2 DEF fires_due
  <2> QED
    BY <1>1, <1>2, <2>1
<1>3. CASE ~(at < from)
  <2> DEFINE q == (at - from) \div Step
             r == (at - from) % Step
  <2>1. at - from = Step * q + r /\ r \in 0..(Step - 1) /\ q \in Int
    <3>1. at - from \in Int
      OBVIOUS
    <3> QED
      BY <1>1, <3>1, DivMod, Zenon
  <2>2. q >= 0
    <3>1. q <= -1 => Step * q <= -Step
      BY <1>1, <2>1, Z3
    <3> QED
      BY <1>1, <1>3, <2>1, <3>1
  <2>3. fires = q + 1 /\ after = from + fires * Step
    BY <1>3 DEF fires_due
  <2> HIDE DEF q, r
  <2>4. fires * Step = Step * q + Step
    BY <1>1, <2>1, <2>3, Z3
  <2> DEFINE sq == Step * q
  <2>5. sq \in Int /\ at - from = sq + r /\ after = from + (sq + Step)
    BY <1>1, <2>1, <2>3, <2>4
  <2> HIDE DEF sq
  <2>6. after - Step <= at
    BY <1>1, <2>1, <2>5
  <2> QED
    BY <1>3, <2>2, <2>3, <2>1, <2>6
<1> QED
  BY <1>2, <1>3

\* A step of the timer is a step of its source, or leaves it alone.
LEMMA TimerStepsSource == TimerInv /\ [TimerNext]_timer_vars => [Next]_vars
<1> SUFFICES ASSUME TimerInv, [TimerNext]_timer_vars PROVE [Next]_vars
  OBVIOUS
<1>1. CASE UNCHANGED timer_vars
  BY <1>1, Zenon DEF timer_vars
<1>2. CASE SourceStep
  BY <1>2, Zenon DEF SourceStep
<1>3. CASE run
  <2>1. CASE Check \/ WakesAtDeadline \/ Fire
    BY <2>1, Zenon DEF Check, WakesAtDeadline, Fire
  <2>2. CASE MergeFires
    <3>1. TimerThread \in Threads
      BY TimerAssumption
    <3>2. due \in Word
      BY CountsAreWords DEF TimerInv, TimerTypeOK
    <3>3. due # 0 /\ merge(TimerThread, due) => Next
      BY <3>1, <3>2 DEF Next, ThreadStep
    <3>4. submit(TimerThread) => Next
      BY <3>1, Zenon DEF Next, ThreadStep
    <3> QED
      BY <2>2, <3>3, <3>4, Zenon DEF MergeFires
  <2> QED
    BY <1>3, <2>1, <2>2 DEF run
<1>4. CASE Tick
  BY <1>4, Zenon DEF Tick
<1>5. CASE HandleStep
  <2>1. Caller \in Threads
    BY TimerAssumption
  <2>2. cancel(Caller) \/ submit(Caller) => Next
    BY <2>1, Zenon DEF Next, ThreadStep
  <2> QED
    BY <1>5, <2>2, Zenon DEF HandleStep, Cancelling, SetCancelled, CancelSignal, NotifyAll, KeepForever
<1>6. CASE \E j \in Jobs : Fires(j)
  BY <1>6, Zenon DEF Fires, Next
<1> QED
  BY <1>1, <1>2, <1>3, <1>4, <1>5, <1>6, Zenon DEF TimerNext, TimerStep

\* A timer just started is at its first point and has fired nothing.
LEMMA TimerInitInv == TimerInit => TimerInv
<1> SUFFICES ASSUME TimerInit PROVE TimerInv
  OBVIOUS
<1>1. TypeOK /\ Init
  BY SourceInitInv DEF TimerInit, SourceInv
<1>2. {Start, MaxTime, MaxJumps} \subseteq Nat
  BY TimerAssumption
<1>3. TimerTypeOK
  <2>1. now \in 0..MaxTime /\ latest \in 0..MaxTime /\ jumps \in 0..MaxJumps
    BY <1>2 DEF TimerInit
  <2>2. next \in Nat /\ due \in Nat
    BY <1>2 DEF TimerInit
  <2>3. shared \in BOOLEAN
    BY Zenon DEF TimerInit
  <2> QED
    BY <1>1, <2>1, <2>2, <2>3 DEF TimerInit, TimerTypeOK
<1>4. due <= MaxTime + 1 /\ due = 0 /\ now <= latest
  BY <1>2 DEF TimerInit
<1>5. AtPoint(0)
  <2>1. merged + due = 0 /\ 0 % 2 ^ Bits = 0
    BY <1>1, CountsAreWords DEF Init, TimerInit
  <2>2. next = Start + 0 * Step
    BY <1>2, StepIsPositive DEF TimerInit
  <2> QED
    BY <2>1, <2>2 DEF AtPoint
<1>6. 0 \in 0..(MaxTime + 1)
  BY <1>2
<1> QED
  BY <1>3, <1>4, <1>5, <1>6, Zenon DEF TimerInv, TimerInit

\* A step that neither merges nor moves the schedule, though it may cancel or show a later time.
LEMMA PointKept ==
  ASSUME NEW k \in 0..(MaxTime + 1), AtPoint(k), TimerTypeOK,
         next' = next, merged' = merged, due' = due, latest' >= latest, latest' \in Nat,
         cancelled => cancelled'
  PROVE  AtPoint(k)'
<1>1. k > 0 => next' - Step <= latest'
  <2>1. next \in Nat /\ latest \in Nat /\ Step \in Nat
    BY StepIsPositive, CountsAreWords DEF TimerTypeOK
  <2> QED
    BY <2>1 DEF AtPoint
<1>2. next' = Start + k * Step
  BY DEF AtPoint
<1>3. ~cancelled' => (merged' + due') % 2 ^ Bits = k
  BY DEF AtPoint
<1> QED
  BY <1>1, <1>2, <1>3, Zenon DEF AtPoint, Step

\* The arithmetic of a fire: f points on from the k-th is the (k + f)-th, and the bound on the
\* clock bounds the points.
LEMMA PointsAdvance ==
  ASSUME NEW k \in Nat, NEW f \in Nat, NEW m \in Nat, m = k + f,
         NEW step \in Nat \ {0}, NEW start \in Nat, NEW top \in Nat, NEW bound \in Nat,
         NEW from \in Nat, NEW after \in Nat,
         from = start + k * step, after = from + f * step, top <= bound, k <= bound + 1,
         k > 0 => from - step <= top, f > 0 => after - step <= top
  PROVE  /\ after = start + m * step
         /\ m > 0 => after - step <= top
         /\ m <= bound + 1 /\ f <= bound + 1
<1>1. after = start + m * step
  <2>1. m * step = k * step + f * step
    BY Z3
  <2>2. k * step \in Nat /\ f * step \in Nat
    OBVIOUS
  <2> QED
    BY <2>1, <2>2
<1>2. m > 0 => after - step <= top
  <2>1. CASE f > 0
    BY <2>1
  <2>2. CASE f = 0
    <3>1. after = from /\ m = k
      BY <2>2
    <3> QED
      BY <3>1
  <2> QED
    BY <2>1, <2>2
<1>3. m <= bound + 1
  <2> SUFFICES ASSUME m > 0 PROVE m <= bound + 1
    OBVIOUS
  <2>1. m - 1 \in Nat
    OBVIOUS
  <2>2. (m - 1) * step = m * step - step /\ m - 1 <= (m - 1) * step /\ m * step \in Nat
    <3> DEFINE d == m - 1
    <3>1. d \in Nat /\ m = d + 1
      BY <2>1
    <3> HIDE DEF d
    <3>2. d * step = m * step - step /\ d <= d * step /\ m * step \in Nat
      BY <3>1, Z3
    <3> QED
      BY <3>2 DEF d
  <2> DEFINE ms == m * step
             ds == (m - 1) * step
  <2>3. ms \in Nat /\ ds = ms - step /\ m - 1 <= ds /\ after = start + ms
    BY <1>1, <2>2
  <2> HIDE DEF ms, ds
  <2> QED
    BY <2>1, <2>3, <1>2
<1> QED
  BY <1>1, <1>2, <1>3

\* A fire moves the timer from one point of its schedule to a later one.
LEMMA FireKeepsPoints ==
  ASSUME TimerInv, SourceInv, Fire, NEW k \in 0..(MaxTime + 1), AtPoint(k)
  PROVE  /\ next' \in Nat /\ due' \in 0..(MaxTime + 1)
         /\ \E m \in 0..(MaxTime + 1) : AtPoint(m)'
<1> DEFINE M == 2 ^ Bits
<1>1. /\ M \in Nat \ {0} /\ MaxTime \in Nat /\ Start \in Nat
      /\ \A m \in 0..(MaxTime + 1) : m \in Word /\ m % M = m
  BY CountsAreWords
<1>2. Step \in Nat \ {0} /\ k \in Nat
  BY StepIsPositive, <1>1
<1>3. next \in Nat /\ now \in Nat /\ latest \in 0..MaxTime /\ now <= latest /\ due = 0
  BY <1>1 DEF TimerInv, TimerTypeOK, Fire
<1>4. due' = fires_due(next, now)[1] /\ next' = fires_due(next, now)[2]
  BY DEF Fire
<1>5. due' \in Nat /\ next' \in Nat
  <2>1. CASE now < next
    BY <1>3, <1>4, <2>1 DEF fires_due
  <2>2. CASE ~(now < next)
    <3> DEFINE f == (now - next) \div Step + 1
    <3>1. f \in Nat
      <4>1. now - next \in Nat
        BY <1>3, <2>2
      <4>2. \A a \in Nat, n \in Nat \ {0} : (a \div n) \in Nat
        BY Z3
      <4> QED
        BY <4>1, <4>2, <1>2
    <3>2. due' = f /\ next' = next + f * Step
      BY <1>4, <2>2 DEF fires_due
    <3> HIDE DEF f
    <3>3. f * Step \in Nat
      BY <3>1, <1>2
    <3> QED
      BY <3>1, <3>2, <3>3, <1>3
  <2> QED
    BY <2>1, <2>2
<1>6. /\ next' = next + due' * Step
      /\ due' > 0 => next' - Step <= now
  <2>1. fires_due(next, now)[1] = due' /\ fires_due(next, now)[2] = next'
    BY <1>4
  <2> QED
    BY <1>3, <1>5, <2>1, FiresDue
<1> DEFINE f == due'
           after == next'
<1>7. /\ f \in Nat /\ after \in Nat /\ after = next + f * Step
      /\ f > 0 => after - Step <= latest
      /\ next = Start + k * Step /\ (k > 0 => next - Step <= latest) /\ k <= MaxTime + 1
      /\ latest \in Nat /\ latest <= MaxTime
  <2>1. f > 0 => after - Step <= latest
    <3>1. latest \in Int /\ now \in Int /\ now <= latest /\ Step \in Int /\ after \in Int
      BY <1>1, <1>2, <1>3, <1>5
    <3>2. f > 0 => after - Step <= now
      BY <1>6
    <3> HIDE DEF f, after
    <3> QED
      BY <3>1, <3>2
  <2>2. latest \in Nat /\ latest <= MaxTime /\ k <= MaxTime + 1
    BY <1>1, <1>3
  <2> QED
    BY <1>5, <1>6, <2>1, <2>2 DEF AtPoint
<1> HIDE DEF f, after
<1>8. PICK m \in Nat : m = k + f
  BY <1>2, <1>7
<1>9. /\ after = Start + m * Step
      /\ m > 0 => after - Step <= latest
      /\ m <= MaxTime + 1 /\ f <= MaxTime + 1
  BY <1>1, <1>2, <1>3, <1>7, <1>8, PointsAdvance
<1>10. m \in 0..(MaxTime + 1) /\ f \in 0..(MaxTime + 1)
  BY <1>1, <1>7, <1>8, <1>9
<1>11. ~cancelled' => (merged' + due') % M = m
  <2> SUFFICES ASSUME ~cancelled' PROVE (merged + due') % M = m
    BY DEF Fire, vars
  <2>1. merged \in Int /\ due' \in Int
    BY <1>1, <1>5 DEF SourceInv, TypeOK, Word
  <2>2. merged % M = k
    <3>1. (merged + due) % M = k
      BY DEF AtPoint, Fire, vars, source
    <3> QED
      BY <3>1, <1>3, <2>1
  <2>3. ((merged % M) + due') % M = (merged + due') % M
    BY <1>1, <2>1, WrappingAdd, Zenon
  <2> QED
    BY <2>2, <2>3, <1>1, <1>8, <1>10 DEF f
<1>12. latest' = latest
  BY DEF Fire
<1>13. AtPoint(m)'
  BY <1>9, <1>11, <1>12, Zenon DEF AtPoint, Step, after
<1> QED
  BY <1>5, <1>10, <1>13 DEF f

\* A source keeps its kind, and a cancelled one stays cancelled.
LEMMA KindKept == [Next]_vars => kind' = kind /\ (cancelled => cancelled')
<1> USE DEF vars, source
<1> SUFFICES ASSUME [Next]_vars PROVE kind' = kind /\ (cancelled => cancelled')
  OBVIOUS
<1>1. ASSUME NEW t \in Threads, ThreadStep(t)
      PROVE  kind' = kind /\ (cancelled => cancelled')
  BY <1>1 DEF ThreadStep, merge, cancel, submit
<1>2. ASSUME NEW j \in Jobs, JobStep(j)
      PROVE  kind' = kind /\ (cancelled => cancelled')
  BY <1>2 DEF JobStep, fire, CallHandler, HandlerReturns, cancel_callout
<1> QED
  BY <1>1, <1>2 DEF Next

\* Jobs deliver, they do not merge.
LEMMA JobsMergeNothing == \A j \in Jobs : JobStep(j) => merged' = merged
  BY Zenon DEF JobStep, fire, CallHandler, HandlerReturns, cancel_callout, source

\* Every step of the timer, or of the source under it, keeps the timer's invariant.
LEMMA TimerNextInv == TimerInv /\ SourceInv /\ [TimerNext]_timer_vars => TimerInv'
<1> SUFFICES ASSUME TimerInv, SourceInv, [TimerNext]_timer_vars PROVE TimerInv'
  OBVIOUS
<1>1. /\ TypeOK' /\ kind' = kind /\ (cancelled => cancelled')
  BY TimerStepsSource, SourceNextInv, KindKept, Zenon DEF SourceInv
<1>2. /\ MaxTime \in Nat /\ MaxJumps \in Nat /\ next \in Nat /\ due \in Nat
      /\ now \in 0..MaxTime /\ latest \in 0..MaxTime /\ now <= latest
  BY TimerAssumption DEF TimerInv, TimerTypeOK
<1>3. CASE UNCHANGED timer_vars
  <2>1. UNCHANGED <<use, kind, cancelled, merged, now, jumps, latest, next, due, thread, shared, handle>>
    BY <1>3 DEF timer_vars, timer, vars, source
  <2>2. \A k : AtPoint(k)' <=> AtPoint(k)
    BY <2>1, Zenon DEF AtPoint, Step
  <2> QED
    BY <1>1, <2>1, <2>2, Zenon DEF TimerInv, TimerTypeOK
<1>4. CASE use = "source" /\ SourceStep /\ UNCHANGED use
  <2>1. UNCHANGED <<timer, use>>
    BY <1>4 DEF SourceStep
  <2> QED
    BY <1>1, <1>4, <2>1 DEF TimerInv, TimerTypeOK, timer
<1>5. CASE use = "timer" /\ TimerStep /\ UNCHANGED use
  <2>1. PICK k \in 0..(MaxTime + 1) : AtPoint(k)
    BY <1>5 DEF TimerInv
  <2>2. kind = "Add" /\ kind' = "Add" /\ use' = "timer"
    BY <1>1, <1>5 DEF TimerInv
  \* what is left to show, for the steps that keep the point
  <2>3. ASSUME AtPoint(k)', TimerTypeOK', due' <= MaxTime + 1,
               thread' # "merge" => due' = 0, now' <= latest'
        PROVE  TimerInv'
    BY <2>1, <2>2, <2>3, Zenon DEF TimerInv
  <2>4. ASSUME UNCHANGED <<next, due, now, latest, jumps>>, merged' = merged,
               thread' \in {"check", "asleep", "fire", "merge", "submit", "ended"},
               handle' \in {"held", "signal", "submit", "notify", "cancelled", "kept"},
               shared' \in BOOLEAN, thread' = "merge" <=> thread = "merge"
        PROVE  TimerInv'
    <3>1. latest' >= latest /\ latest' \in Nat
      BY <1>2, <2>4
    <3>2. AtPoint(k)'
      BY <1>1, <2>1, <2>4, <3>1, PointKept DEF TimerInv
    <3>3. TimerTypeOK'
      BY <1>1, <2>2, <2>4 DEF TimerInv, TimerTypeOK
    <3>4. due' <= MaxTime + 1 /\ (thread' # "merge" => due' = 0) /\ now' <= latest'
      BY <2>4 DEF TimerInv
    <3> QED
      BY <2>3, <3>2, <3>3, <3>4, Zenon
  <2>5. CASE Check
    BY <2>4, <2>5 DEF Check, TimerInv, TimerTypeOK, vars
  <2>6. CASE WakesAtDeadline
    BY <2>4, <2>6 DEF WakesAtDeadline, TimerInv, TimerTypeOK, vars
  <2>7. CASE Fire
    <3>1. next' \in Nat /\ due' \in 0..(MaxTime + 1) /\ \E m \in 0..(MaxTime + 1) : AtPoint(m)'
      BY <2>1, <2>7, FireKeepsPoints
    <3>2. due' \in Nat /\ due' <= MaxTime + 1
      BY <1>2, <3>1
    <3>3. UNCHANGED <<now, latest, jumps, shared, handle>> /\ thread' = "merge"
      BY <2>7 DEF Fire
    <3>4. TimerTypeOK'
      BY <1>1, <2>2, <3>1, <3>2, <3>3 DEF TimerInv, TimerTypeOK
    <3> QED
      BY <1>2, <2>2, <3>1, <3>2, <3>3, <3>4, Zenon DEF TimerInv
  <2>8. CASE MergeFires
    <3>1. UNCHANGED <<now, jumps, latest, next, shared, handle>>
      BY <2>8 DEF MergeFires
    <3>2. due' = 0 /\ thread' \in {"check", "submit"}
      BY <2>8 DEF MergeFires, TimerInv
    <3>3. TimerTypeOK'
      BY <1>1, <2>2, <3>1, <3>2 DEF TimerInv, TimerTypeOK
    <3>4. AtPoint(k)'
      <4>1. CASE cancelled'
        BY <2>1, <3>1, <4>1, Zenon DEF AtPoint, Step
      <4>2. CASE ~cancelled' /\ merged' = merged /\ due = 0
        <5>1. ~cancelled
          BY <1>1, <4>2
        <5> QED
          BY <2>1, <3>1, <3>2, <4>2, <5>1, Zenon DEF AtPoint, Step
      <4>3. CASE ~cancelled' /\ merge(TimerThread, due)
        <5>1. merged' = (merged + due) % 2 ^ Bits
          BY <2>2, <4>3 DEF merge, Fold
        <5>2. merged' = k
          BY <1>1, <2>1, <4>3, <5>1 DEF AtPoint
        <5>3. k + 0 = k /\ k % 2 ^ Bits = k
          BY <1>2, <2>1, CountsAreWords
        <5>4. (merged' + due') % 2 ^ Bits = k
          BY <3>2, <5>2, <5>3
        <5> QED
          BY <2>1, <3>1, <5>4, Zenon DEF AtPoint, Step
      <4>4. \/ cancelled'
            \/ ~cancelled' /\ merged' = merged /\ due = 0
            \/ ~cancelled' /\ merge(TimerThread, due)
        <5>1. CASE thread = "submit"
          BY <1>1, <2>8, <5>1 DEF MergeFires, submit, TimerInv
        <5>2. CASE thread = "merge"
          BY <1>1, <2>8, <5>2, Zenon DEF MergeFires, vars
        <5> QED
          BY <2>8, <5>1, <5>2 DEF MergeFires
      <4> QED
        BY <4>1, <4>2, <4>3, <4>4
    <3> QED
      BY <1>2, <2>3, <3>1, <3>2, <3>3, <3>4
  <2>9. CASE Tick
    <3>1. /\ jumps' \in 0..MaxJumps /\ now' \in 0..MaxTime /\ latest' \in 0..MaxTime
          /\ now' <= latest' /\ latest' >= latest /\ latest' \in Nat
      BY <1>2, <2>9 DEF Tick, TimerInv, TimerTypeOK
    <3>2. UNCHANGED <<next, due, thread, shared, handle, merged>>
      BY <2>9 DEF Tick, vars
    <3>3. AtPoint(k)'
      BY <1>1, <2>1, <3>1, <3>2, PointKept DEF TimerInv
    <3>4. TimerTypeOK'
      BY <1>1, <2>2, <3>1, <3>2 DEF TimerInv, TimerTypeOK
    <3> QED
      BY <2>3, <3>1, <3>2, <3>3, <3>4, Zenon DEF TimerInv
  <2>10. CASE HandleStep
    <3>1. UNCHANGED <<now, jumps, latest, next, due>>
      BY <2>10 DEF HandleStep
    <3>2. merged' = merged
      BY <2>10, Zenon DEF HandleStep, Cancelling, SetCancelled, CancelSignal, NotifyAll,
                          KeepForever, cancel, submit, vars
    <3>3. shared' \in BOOLEAN
      BY <2>10 DEF HandleStep, Cancelling, SetCancelled, CancelSignal, NotifyAll,
                   KeepForever, TimerInv, TimerTypeOK
    <3>4. /\ thread' = thread \/ (thread = "asleep" /\ thread' = "check")
          /\ handle' \in {"held", "signal", "submit", "notify", "cancelled", "kept"}
      BY <2>10 DEF HandleStep, Cancelling, SetCancelled, CancelSignal, NotifyAll, KeepForever
    <3> QED
      BY <2>4, <3>1, <3>2, <3>3, <3>4 DEF TimerInv, TimerTypeOK
  <2>11. CASE \E j \in Jobs : Fires(j)
    <3>1. merged' = merged /\ UNCHANGED timer
      BY <2>11, JobsMergeNothing, Zenon DEF Fires
    <3> QED
      BY <2>4, <3>1 DEF timer, TimerInv, TimerTypeOK
  <2> QED
    BY <1>5, <2>5, <2>6, <2>7, <2>8, <2>9, <2>10, <2>11 DEF TimerStep, run
<1> QED
  BY <1>3, <1>4, <1>5 DEF TimerNext

\* The invariant gives the schedule: the k-th point, exactly.
LEMMA TimerInvImplies == TimerInv => FiresFollowSchedule
<1> SUFFICES ASSUME TimerInv, use = "timer", ~cancelled
             PROVE  /\ (merged + due) % 2 ^ Bits = PointsBefore(next)
                    /\ (next - Start) % Step = 0
                    /\ next > Start => next - Step <= latest
  BY DEF FiresFollowSchedule
<1>1. PICK k \in 0..(MaxTime + 1) : AtPoint(k)
  BY DEF TimerInv
<1>2. Step \in Nat \ {0} /\ k \in Int /\ Start \in Int
  BY StepIsPositive, CountsAreWords
<1> DEFINE a == next - Start
<1>3. a = Step * k + 0 /\ a \in Int /\ 0 \in 0..(Step - 1)
  BY <1>1, <1>2 DEF AtPoint
<1> HIDE DEF a
<1>4. a \div Step = k /\ a % Step = 0
  BY <1>2, <1>3, DivUnique, ModUnique, Zenon
<1>5. next > Start => k > 0
  <2>1. k = 0 => a = 0
    BY <1>2, <1>3
  <2> QED
    BY <1>1, <1>2, <2>1, CountsAreWords DEF a, TimerInv, TimerTypeOK
<1> QED
  BY <1>1, <1>4, <1>5, Zenon DEF AtPoint, PointsBefore, a

-----------------------------------------------------------------------------
\* Both invariants hold in every reachable state.
LEMMA TimerCorrect == TimerSpec => [](TimerInv /\ SourceInv)
<1>1. TimerInit => TimerInv /\ SourceInv
  BY TimerInitInv, SourceInitInv, Zenon DEF TimerInit
<1>2. TimerInv /\ SourceInv /\ [TimerNext]_timer_vars => (TimerInv /\ SourceInv)'
  BY TimerNextInv, TimerStepsSource, SourceNextInv, Zenon
<1> QED
  BY <1>1, <1>2, PTL DEF TimerSpec

(* The variables of the timer and of its source keep their types, the word its width among  *)
(* them (rt/timer.rs, rt/signal.rs).                                                       *)
THEOREM TimerTypes == TimerSpec => []TimerTypeOK
<1>1. TimerInv => TimerTypeOK
  BY Zenon DEF TimerInv
<1> QED
  BY <1>1, TimerCorrect, PTL

(* A source's handler is serial on any target, whichever threads merge and cancel: fire and  *)
(* submit (rt/signal.rs) leave one job or one thread about to submit while it is scheduled.  *)
THEOREM SourceIsSerial == TimerSpec => []OneInvocation
  BY TimerCorrect, SourceInvImplies, PTL

(* Until a cancel every word merged is delivered, in hand or pending, once, for sources that *)
(* add and for sources that or (merge and fire of rt/signal.rs).                             *)
THEOREM SourceLosesNothing == TimerSpec => []NothingLostOrRepeated
  BY TimerCorrect, SourceInvImplies, PTL

(* A timer fires each point of its schedule once and none before its time, however late the  *)
(* thread wakes and however the clock jumps (run and fires_due of rt/timer.rs).              *)
THEOREM TimerFollowsSchedule == TimerSpec => []FiresFollowSchedule
  BY TimerCorrect, TimerInvImplies, PTL

=============================================================================
