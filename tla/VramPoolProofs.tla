--------------------------- MODULE VramPoolProofs ---------------------------
(***************************************************************************)
(* Proofs about VramPool, for pools, requests and tables of every size.    *)
(***************************************************************************)
EXTENDS VramPool, FiniteSetTheorems, TLAPS

\* Division with remainder, in the form the steps below use.
LEMMA DivMod ==
    ASSUME NEW x \in Int, NEW a \in Nat \ {0}
    PROVE  /\ x \div a \in Int
           /\ x % a \in 0 .. a - 1
           /\ x = a * (x \div a) + (x % a)
BY Z3

\* The quotient of a multiple is the factor.
LEMMA MultipleMod ==
    ASSUME NEW q \in Int, NEW a \in Nat \ {0}
    PROVE  (a * q) % a = 0
<1>1. a * q \in Int
  BY Z3
<1> DEFINE r == (a * q) % a
           d == (a * q) \div a
<1>2. r \in 0 .. a - 1 /\ a * q = a * d + r /\ d \in Int
  BY <1>1, DivMod
<1>3. a * (q - d) = r
  BY <1>2, Z3
<1>4. CASE q - d <= -1
  <2>1. a * (q - d) < 0
     BY <1>4, <1>2, Z3
  <2> QED BY <2>1, <1>2, <1>3
<1>5. CASE q - d >= 1
  <2>1. a * (q - d) >= a
     BY <1>5, <1>2, Z3
  <2> QED BY <2>1, <1>2, <1>3
<1>6. CASE q - d = 0
  BY <1>3, <1>2, <1>6, Z3
<1> QED BY <1>4, <1>5, <1>6, <1>2

\* Two multiples of a are equal or at least a apart.
LEMMA MultiplesApart ==
    ASSUME NEW x \in Int, NEW y \in Int, NEW a \in Nat \ {0},
           x % a = 0, y % a = 0, x < y
    PROVE  x + a <= y
<1> DEFINE p == x \div a
           q == y \div a
<1>1. p \in Int /\ q \in Int /\ x = a * p /\ y = a * q
  BY DivMod, Z3
<1>2. a * (q - p) = y - x
  BY <1>1, Z3
<1>3. CASE q - p <= 0
  <2>1. a * (q - p) <= 0
    BY <1>1, <1>3, Z3
  <2> QED BY <2>1, <1>2
<1>4. CASE q - p >= 1
  <2>1. a * (q - p) >= a
    BY <1>1, <1>4, Z3
  <2> QED BY <2>1, <1>2
<1> QED BY <1>1, <1>3, <1>4

\* align_up gives the smallest multiple of a that is not below v.
LEMMA AlignUp ==
    ASSUME NEW v \in Nat, NEW a \in Nat \ {0}
    PROVE  /\ align_up(v, a) \in Nat
           /\ v <= align_up(v, a)
           /\ align_up(v, a) <= v + a - 1
           /\ align_up(v, a) % a = 0
           /\ \A x \in Nat : x >= v /\ x % a = 0 => x >= align_up(v, a)
<1> DEFINE w == v + a - 1
           r == w % a
           d == w \div a
           u == align_up(v, a)
<1>0. w \in Nat /\ w = v + a - 1 /\ a - 1 \in Nat
  OBVIOUS
<1>2. u = w - r
  BY DEF align_up
<1> HIDE DEF w, u
<1>1. w \in Int /\ r \in 0 .. a - 1 /\ d \in Int /\ w = a * d + r
  BY <1>0, Z3
<1> HIDE DEF r, d
<1>3. u \in Nat /\ v <= u /\ u <= v + a - 1
  BY <1>0, <1>1, <1>2
<1>4. u = a * d
  BY <1>1, <1>2, Z3
<1>5. u % a = 0
  BY <1>1, <1>4, MultipleMod
<1>6. ASSUME NEW x \in Nat, x >= v, x % a = 0, x < u
      PROVE  FALSE
  <2>1. x + a <= u
    <3>1. x \in Int /\ u \in Int
      BY <1>3
    <3> QED BY <3>1, <1>5, <1>6, MultiplesApart
  <2> QED BY <2>1, <1>6, <1>3
<1> QED BY <1>3, <1>5, <1>6 DEF u

\* When align_up fails there is no aligned u64 value left to find.
LEMMA AlignUpFails ==
    ASSUME NEW v \in U64, NEW a \in U64, alignment_valid(a), align_up_fails(v, a),
           NEW x \in U64, x >= v, x % a = 0
    PROVE  FALSE
<1> DEFINE y == U64Max + 1
<1>1. a \in Nat \ {0} /\ y % a = 0 /\ y \in Int
  BY WidthAssumption, PageAssumption DEF alignment_valid, U64
<1>2. x < y /\ x + a > y /\ x \in Int
  BY <1>1, WidthAssumption DEF align_up_fails, U64
<1> HIDE DEF y
<1>3. x + a <= y
  BY <1>1, <1>2, MultiplesApart
<1> QED BY <1>1, <1>2, <1>3

-----------------------------------------------------------------------------
(* The table as a set of cells. *)

\* A free place is clear of every live allocation.
LEMMA RoomIsClear ==
    ASSUME TypeOK, InsidePool, bytes > 0, NEW o \in Nat, Room(o),
           NEW s \in Slots, Busy(s)
    PROVE  \/ o + bytes <= allocations[s].offset
           \/ allocations[s].offset + allocations[s].size <= o
<1> DEFINE off == allocations[s].offset
           len == allocations[s].size
<1>1. off \in Nat /\ len \in Nat /\ len > 0 /\ off + len <= size /\ size \in U64
  BY WidthAssumption DEF TypeOK, Allocation, InsidePool, U64
<1>2. bytes \in Nat /\ o + bytes <= size
  BY DEF TypeOK, Room
<1> HIDE DEF off, len
<1>3. ASSUME off < o + bytes, o < off + len
      PROVE  FALSE
  <2> DEFINE x == IF off <= o THEN o ELSE off
  <2>1. x \in o .. o + bytes - 1 /\ off <= x /\ x < off + len /\ x \in U64
    BY <1>1, <1>2, <1>3, WidthAssumption DEF U64
  <2>2. x \in Cells(s)
    BY <2>1 DEF Cells, off, len
  <2>3. x \in OwnedCells
    BY <2>2 DEF OwnedCells
  <2> QED BY <2>1, <2>3 DEF Room
<1> QED BY <1>1, <1>2, <1>3 DEF off, len

\* The cells of one allocation are an interval of its size.
LEMMA CellsInterval ==
    ASSUME TypeOK, InsidePool, NEW s \in Slots, Busy(s)
    PROVE  /\ Cells(s) = allocations[s].offset ..
                          allocations[s].offset + allocations[s].size - 1
           /\ Cells(s) \subseteq 0 .. size - 1
           /\ IsFiniteSet(Cells(s))
           /\ Cardinality(Cells(s)) = allocations[s].size
<1> DEFINE off == allocations[s].offset
           len == allocations[s].size
<1>1. off \in Nat /\ len \in Nat /\ len > 0 /\ off + len <= size
      /\ size \in Nat /\ size <= U64Max
  BY WidthAssumption DEF TypeOK, Allocation, InsidePool, U64
<1>2. Cells(s) = off .. off + len - 1
  BY <1>1, WidthAssumption DEF Cells, U64
<1>3. Cells(s) \subseteq 0 .. size - 1
  BY <1>1, <1>2
<1> HIDE DEF off, len
<1>4. IsFiniteSet(off .. off + len - 1)
      /\ Cardinality(off .. off + len - 1) = len
  BY <1>1, FS_Interval
<1> QED BY <1>2, <1>3, <1>4 DEF off, len

\* A slot that is not busy covers nothing.
LEMMA CellsOfFree ==
    ASSUME NEW s \in Slots, ~Busy(s)
    PROVE  Cells(s) = {}
BY DEF Cells

\* The cells of the whole table lie in the pool, so there are finitely many
\* and no more than the pool has.
LEMMA OwnedCellsFinite ==
    ASSUME TypeOK, InsidePool
    PROVE  /\ OwnedCells \subseteq 0 .. size - 1
           /\ IsFiniteSet(OwnedCells)
           /\ Cardinality(OwnedCells) \in Nat
           /\ Cardinality(OwnedCells) <= size
<1>1. size \in Nat
  BY WidthAssumption DEF TypeOK, U64
<1>2. OwnedCells \subseteq 0 .. size - 1
  BY CellsInterval, CellsOfFree DEF OwnedCells
<1>3. IsFiniteSet(0 .. size - 1) /\ Cardinality(0 .. size - 1) = size
  BY <1>1, FS_Interval
<1> QED BY <1>2, <1>3, FS_Subset, FS_CardinalityType

\* The early refusal by the used counter is sound: b cells beside those of
\* a set C of a range of n leave room for at most n - b in C.
LEMMA RoomFitsUsed ==
    ASSUME NEW C, NEW n \in Nat, NEW o \in Nat, NEW b \in Nat,
           C \subseteq 0 .. n - 1, o + b <= n, \A x \in o .. o + b - 1 : x \notin C
    PROVE  Cardinality(C) + b <= n
<1> DEFINE I == o .. o + b - 1
<1>1. IsFiniteSet(I) /\ Cardinality(I) = b
  BY FS_Interval
<1>2. IsFiniteSet(0 .. n - 1) /\ Cardinality(0 .. n - 1) = n
  BY FS_Interval
<1>3. I \cap C = {} /\ I \cup C \subseteq 0 .. n - 1
  OBVIOUS
<1> HIDE DEF I
<1>4. IsFiniteSet(C) /\ Cardinality(C) \in Nat
  BY <1>2, FS_Subset, FS_CardinalityType
<1>5. /\ IsFiniteSet(I \cup C)
      /\ Cardinality(I \cup C) = Cardinality(I) + Cardinality(C) - Cardinality(I \cap C)
  BY <1>1, <1>4, FS_Union
<1>6. Cardinality(I \cap C) = 0
  BY <1>3, FS_EmptySet
<1>7. Cardinality(I \cup C) <= n
  BY <1>2, <1>3, FS_Subset
<1> QED BY <1>1, <1>4, <1>5, <1>6, <1>7

-----------------------------------------------------------------------------
(* The inductive invariant. *)

\* The table is not yet initialised and holds nothing.
LEMMA InitInv == Init => IndInv
<1> SUFFICES ASSUME Init PROVE IndInv
  OBVIOUS
<1>1. TypeOK
  BY WidthAssumption, HandleAssumption DEF Init, TypeOK, Allocation, Free, U64
<1>2. \A s \in Slots : ~Busy(s)
  BY DEF Init, Busy, Free
<1>3. OwnedCells = {}
  BY <1>2, CellsOfFree DEF OwnedCells
<1>4. UsedExact
  BY <1>3, FS_EmptySet DEF UsedExact, Init
<1>5. PoolRange
  BY WidthAssumption DEF PoolRange, Init
<1> QED BY <1>1, <1>2, <1>4, <1>5
        DEF IndInv, InsidePool, Disjoint, HandlesUnique, SearchInv, RefusalJustified, Init

\* A table whose slots are all free satisfies what concerns the table.
LEMMA PoolInitInv ==
    ASSUME IndInv, NEW args \in InitArgs, PoolInit(args[1], args[2], args[3])
    PROVE  IndInv'
<1>0. args[1] \in U64 /\ args[2] \in U64 /\ args[3] \in U64
  BY InputAssumption
<1>1. CASE UNCHANGED pool
  <2>1. TypeOK'
    BY <1>1, WidthAssumption, HandleAssumption
       DEF PoolInit, IndInv, TypeOK, Return, NoRequest, pool, U64
  <2>2. reply'.op = "init" /\ pc' = "idle"
    BY DEF PoolInit, Return
  <2> QED BY <1>1, <2>1, <2>2
          DEF IndInv, pool, InsidePool, Disjoint, HandlesUnique, UsedExact, PoolRange,
              SearchInv, RefusalJustified, Busy, Holds, OwnedCells, Cells
<1>2. CASE PoolArgsValid(args[1], args[2], args[3])
           /\ ~UNCHANGED pool
  <2>1. /\ phys' = args[1] /\ va' = args[2] /\ size' = args[3]
        /\ used' = 0 /\ next_handle' = 1
        /\ allocations' = [s \in Slots |-> Free]
        /\ Return("init", 0, 0) /\ NoRequest
    BY <1>2 DEF PoolInit
  <2>2. TypeOK'
    BY <2>1, <1>0, WidthAssumption, HandleAssumption
       DEF TypeOK, Allocation, Free, U64, Return, NoRequest
  <2>3. \A s \in Slots : ~Busy(s)'
    BY <2>1 DEF Busy, Free
  <2>4. OwnedCells' = {}
    BY <2>3 DEF OwnedCells, Cells
  <2>5. UsedExact'
    BY <2>4, <2>1, FS_EmptySet DEF UsedExact
  <2>6. PoolRange'
    BY <1>2, <2>1, <1>0, WidthAssumption DEF PoolRange, PoolArgsValid, span_valid, U64
  <2> QED BY <2>1, <2>2, <2>3, <2>5, <2>6
          DEF IndInv, InsidePool, Disjoint, HandlesUnique, SearchInv, RefusalJustified, Return
<1> QED BY <1>1, <1>2 DEF PoolInit

\* A step that leaves the pool alone and returns from an alloc call with a
\* refusal keeps the invariant when no place was free.
LEMMA RefuseInv ==
    ASSUME IndInv, UNCHANGED pool, Return("alloc", -2, 0),
           bytes' \in Nat, alignment' \in U64,
           NoSlot \/ NoHandle \/ \A o \in U64 : ~Room(o)'
    PROVE  IndInv'
<1>1. TypeOK'
  BY WidthAssumption, HandleAssumption DEF IndInv, TypeOK, Return, pool, U64
<1>2. NoSlot' = NoSlot /\ NoHandle' = NoHandle
  BY DEF NoSlot, NoHandle, Busy, pool
<1>3. RefusalJustified'
  BY <1>2 DEF RefusalJustified
<1> QED BY <1>1, <1>3
        DEF IndInv, pool, InsidePool, Disjoint, HandlesUnique, UsedExact, PoolRange,
            SearchInv, Busy, Holds, OwnedCells, Cells, Return

\* nv_vram_alloc up to the loop.
LEMMA AllocEnterInv ==
    ASSUME IndInv, NEW r \in Requests, AllocEnter(r[1], r[2])
    PROVE  IndInv'
<1> DEFINE b == r[1]
           a == r[2]
<1>0. b \in U64 /\ a \in U64 /\ AllocEnter(b, a)
  BY InputAssumption
<1> HIDE DEF b, a
<1>1. /\ bytes' = align_up(b, PAGE_BYTES) /\ alignment' = a /\ UNCHANGED pool
      /\ b \in Nat /\ PAGE_BYTES \in Nat \ {0} /\ a \in Nat
  BY <1>0, WidthAssumption, PageAssumption DEF AllocEnter, U64
<1>2. bytes' \in Nat /\ b <= bytes' /\ bytes' <= b + PAGE_BYTES - 1
  BY <1>1, AlignUp
<1>3. /\ va \in Nat /\ size \in Nat /\ va + size <= U64Max /\ used \in Nat /\ used <= size
      /\ size \in U64 /\ va \in U64 /\ U64Max \in Nat
  BY OwnedCellsFinite, WidthAssumption DEF IndInv, TypeOK, PoolRange, UsedExact, U64
<1>4. /\ TypeOK' => InsidePool' /\ Disjoint' /\ HandlesUnique' /\ UsedExact' /\ PoolRange'
      /\ OwnedCells' = OwnedCells /\ va' = va /\ size' = size /\ used' = used
  BY <1>1 DEF IndInv, pool, InsidePool, Disjoint, HandlesUnique, UsedExact, PoolRange,
              Busy, Holds, OwnedCells, Cells
<1>5. CASE BadRequest(b, a) /\ Return("alloc", -1, 0)
  <2>1. TypeOK'
    BY <1>0, <1>1, <1>2, <1>5, WidthAssumption, HandleAssumption
       DEF IndInv, TypeOK, Return, pool, U64
  <2> QED BY <2>1, <1>4, <1>5 DEF IndInv, SearchInv, RefusalJustified, Return
<1>6. CASE /\ ~BadRequest(b, a)
           /\ \/ NoHandle
              \/ used > size
              \/ bytes' > Wrap(size - used)
              \/ NoSlot
              \/ align_up_fails(va, a)
           /\ Return("alloc", -2, 0)
  <2>1. alignment_valid(a)
    BY <1>6 DEF BadRequest
  <2>2. ASSUME NEW o \in U64, Room(o)', bytes' > Wrap(size - used)
        PROVE  FALSE
    <3>1. /\ o + bytes' <= size /\ o \in Nat
          /\ \A x \in o .. o + bytes' - 1 : x \notin OwnedCells
      BY <2>2, <1>3, <1>4 DEF Room, U64
    <3>2. OwnedCells \subseteq 0 .. size - 1
      BY OwnedCellsFinite DEF IndInv
    <3>3. Cardinality(OwnedCells) + bytes' <= size
      BY <3>1, <3>2, <1>2, <1>3, RoomFitsUsed
    <3>4. Wrap(size - used) = size - used
      BY <1>3 DEF Wrap
    <3> QED BY <2>2, <3>3, <3>4, <1>2, <1>3 DEF IndInv, UsedExact
  <2>3. ASSUME NEW o \in U64, Room(o)', align_up_fails(va, a)
        PROVE  FALSE
    <3>1. (va + o) % a = 0
      BY <1>1, <1>4, <2>3 DEF Room
    <3>2. o + bytes' <= size /\ o \in Nat
      BY <1>4, <1>3, <2>3 DEF Room, U64
    <3>3. va + o \in U64 /\ va + o >= va
      <4>1. bytes' \in Nat /\ size \in Nat
        BY <1>2, <1>3
      <4> DEFINE n == bytes'
      <4>2. n \in Nat /\ o + n <= size /\ o \in Nat
        BY <4>1, <3>2
      <4> HIDE DEF n
      <4>3. o <= size
        BY <4>1, <4>2
      <4> QED BY <4>3, <3>2, <1>3 DEF U64
    <3> QED BY <2>1, <2>3, <3>1, <3>3, <1>0, <1>3, AlignUpFails
  <2>4. NoSlot \/ NoHandle \/ \A o \in U64 : ~Room(o)'
    BY <1>6, <1>3, <2>2, <2>3
  <2> QED BY <1>0, <1>1, <1>2, <1>6, <2>4, RefuseInv
<1>7. CASE /\ ~BadRequest(b, a)
           /\ ~NoHandle /\ used <= size /\ bytes' <= Wrap(size - used)
           /\ ~align_up_fails(va, a)
           /\ \E s \in Slots : /\ ~Busy(s)
                               /\ \A t \in 0 .. s - 1 : Busy(t)
                               /\ slot' = s
           /\ candidate' = Wrap(align_up(va, a) - va)
           /\ pc' = "search"
           /\ UNCHANGED reply
  <2>1. alignment_valid(a) /\ b # 0 /\ a \in Nat \ {0}
    BY <1>1, <1>7, PageAssumption DEF BadRequest, alignment_valid
  <2> DEFINE u == align_up(va, a)
  <2>2. /\ u \in Nat /\ va <= u /\ u <= va + a - 1 /\ u % a = 0
        /\ \A x \in Nat : x >= va /\ x % a = 0 => x >= u
    BY <1>3, <2>1, AlignUp
  <2> HIDE DEF u
  <2>3. u <= U64Max
    BY <1>7, <2>1, <2>2, <1>3, <1>1 DEF align_up_fails
  <2>4. candidate' = u - va /\ candidate' \in U64 /\ va + candidate' = u
    BY <1>7, <1>3, <2>2, <2>3 DEF Wrap, U64, u
  <2>5. bytes' <= size /\ bytes' > 0
    BY <1>7, <1>2, <1>3, <2>1, <1>1 DEF Wrap
  <2>6. slot' \in Slots /\ ~Busy(slot)' /\ ~NoHandle'
    BY <1>1, <1>7 DEF pool, Busy, NoHandle
  <2>7. TypeOK'
    BY <1>0, <1>1, <1>2, <1>7, <2>4, <2>6, SlotAssumption, WidthAssumption
       DEF IndInv, TypeOK, pool, Slots, U64
  <2>8. ASSUME NEW o \in 0 .. candidate' - 1, Room(o)'
        PROVE  FALSE
    <3>1. (va + o) % a = 0 /\ va + o \in Nat /\ va + o >= va /\ va + o < u
      BY <1>1, <1>3, <1>4, <2>2, <2>4, <2>8 DEF Room
    <3> QED BY <3>1, <2>2
  <2>9. SearchInv'
    BY <1>1, <1>4, <2>1, <2>2, <2>3, <2>4, <2>5, <2>6, <2>8 DEF SearchInv
  <2> QED BY <2>7, <2>9, <1>4, <1>7 DEF IndInv, RefusalJustified
<1> QED BY <1>0, <1>5, <1>6, <1>7 DEF AllocEnter

\* In the loop no sum wraps.
LEMMA SearchArith ==
    ASSUME IndInv, pc = "search"
    PROVE  /\ va \in Nat /\ size \in Nat /\ candidate \in Nat /\ bytes \in Nat
           /\ U64Max \in Nat /\ va + size <= U64Max /\ va + candidate <= U64Max
           /\ bytes > 0 /\ bytes <= size
           /\ alignment \in U64 /\ alignment \in Nat \ {0} /\ alignment_valid(alignment)
           /\ InRange <=> candidate + bytes <= size
           /\ InRange => Wrap(candidate + bytes) = candidate + bytes
           /\ \A s \in Slots : Busy(s) =>
                 /\ allocations[s].offset \in Nat /\ allocations[s].size \in Nat
                 /\ End(s) = allocations[s].offset + allocations[s].size
                 /\ End(s) <= size /\ allocations[s].size > 0
<1>1. /\ va \in Nat /\ size \in Nat /\ candidate \in Nat /\ bytes \in Nat
      /\ U64Max \in Nat /\ va + size <= U64Max /\ va + candidate <= U64Max
      /\ bytes > 0 /\ bytes <= size
  BY WidthAssumption DEF IndInv, TypeOK, PoolRange, SearchInv, U64
<1>2. alignment \in U64 /\ alignment \in Nat \ {0} /\ alignment_valid(alignment)
  BY WidthAssumption, PageAssumption DEF IndInv, TypeOK, SearchInv, U64, alignment_valid
<1>3. InRange <=> candidate + bytes <= size
  BY <1>1 DEF InRange, Wrap
<1>4. InRange => Wrap(candidate + bytes) = candidate + bytes
  BY <1>1, <1>3 DEF Wrap
<1>5. ASSUME NEW s \in Slots, Busy(s)
      PROVE  /\ allocations[s].offset \in Nat /\ allocations[s].size \in Nat
             /\ End(s) = allocations[s].offset + allocations[s].size
             /\ End(s) <= size /\ allocations[s].size > 0
  <2>1. /\ allocations[s].offset \in Nat /\ allocations[s].size \in Nat
        /\ allocations[s].offset + allocations[s].size <= size /\ allocations[s].size > 0
    BY <1>5, WidthAssumption DEF IndInv, TypeOK, InsidePool, Allocation, U64
  <2> QED BY <2>1, <1>1 DEF End, Wrap
<1> QED BY <1>1, <1>2, <1>3, <1>4, <1>5

\* The loop gives up past the end of the pool.
LEMMA PastEndInv ==
    ASSUME IndInv, pc = "search", PastEnd
    PROVE  IndInv'
<1>1. /\ UNCHANGED pool /\ bytes' = bytes /\ alignment' = alignment
      /\ Return("alloc", -2, 0) /\ ~InRange
  BY DEF PastEnd
<1>2. \A o : Room(o)' <=> Room(o)
  BY <1>1 DEF Room, pool, OwnedCells, Cells, Busy
<1>3. ASSUME NEW o \in U64, Room(o)
      PROVE  FALSE
  <2>1. o + bytes <= size /\ o \in Nat
    BY <1>3, SearchArith DEF Room, U64
  <2>2. o < candidate
    BY <2>1, <1>1, SearchArith
  <2> QED BY <1>3, <2>1, <2>2, SearchArith DEF IndInv, SearchInv
<1> QED BY <1>1, <1>2, <1>3, RefuseInv, SearchArith

\* Skipping to the farthest blocking end passes over no place that fits.
LEMMA SkipBlockingInv ==
    ASSUME IndInv, pc = "search", SkipBlocking
    PROVE  IndInv'
<1>1. /\ UNCHANGED pool /\ bytes' = bytes /\ alignment' = alignment /\ InRange
  BY DEF SkipBlocking
<1> PICK s \in Blocking :
         /\ End(s) > candidate
         /\ \A t \in Blocking : End(t) <= End(s)
         /\ LET next == Wrap(va + End(s)) IN
              \/ /\ align_up_fails(next, alignment)
                 /\ Return("alloc", -2, 0)
              \/ /\ ~align_up_fails(next, alignment)
                 /\ candidate' = Wrap(align_up(next, alignment) - va)
                 /\ UNCHANGED <<pc, slot, reply>>
  BY DEF SkipBlocking
<1> DEFINE e == End(s)
           next == va + e
<1>2. /\ s \in Slots /\ Busy(s)
      /\ allocations[s].offset < candidate + bytes /\ candidate < e
      /\ e \in Nat /\ e <= size /\ allocations[s].offset \in Nat
      /\ e = allocations[s].offset + allocations[s].size
  BY <1>1, SearchArith DEF Blocking
<1>3. Wrap(va + End(s)) = next /\ next \in U64 /\ next \in Nat
  BY <1>2, SearchArith DEF Wrap, U64
<1>4. \A o : Room(o)' <=> Room(o)
  BY <1>1 DEF Room, pool, OwnedCells, Cells, Busy
<1> HIDE DEF e, next
\* A place at or above the candidate and below the end meets s.
<1>5. ASSUME NEW o \in Nat, Room(o), o < e
      PROVE  FALSE
  <2>1. CASE o < candidate
    BY <1>5, <2>1, SearchArith DEF IndInv, SearchInv
  <2>2. CASE o >= candidate
    <3>1. \/ o + bytes <= allocations[s].offset
          \/ allocations[s].offset + allocations[s].size <= o
      BY <1>5, <1>2, SearchArith, RoomIsClear DEF IndInv
    <3> QED BY <3>1, <2>2, <1>2, <1>5, SearchArith
  <2> QED BY <2>1, <2>2, <1>5, SearchArith
<1>6. ASSUME NEW o \in Nat, Room(o)
      PROVE  /\ (va + o) % alignment = 0
             /\ va + o \in U64 /\ va + o \in Nat /\ va + o >= next
  <2>1. (va + o) % alignment = 0
    BY <1>6 DEF Room
  <2>2. o + bytes <= size /\ o >= e
    BY <1>5, <1>6, <1>2 DEF Room
  <2>3. va + o \in U64 /\ va + o \in Nat /\ va + o >= next
    BY <2>2, <1>2, <1>6, SearchArith DEF U64, next
  <2> QED BY <2>1, <2>3
<1>7. CASE align_up_fails(next, alignment) /\ Return("alloc", -2, 0)
  <2>1. ASSUME NEW o \in U64, Room(o)
        PROVE  FALSE
    <3>1. o \in Nat
      BY <2>1, SearchArith DEF U64
    <3> QED BY <3>1, <2>1, <1>3, <1>6, <1>7, SearchArith, AlignUpFails
  <2> QED BY <2>1, <1>1, <1>4, <1>7, SearchArith, RefuseInv
<1>8. CASE /\ ~align_up_fails(next, alignment)
           /\ candidate' = Wrap(align_up(next, alignment) - va)
           /\ UNCHANGED <<pc, slot, reply>>
  <2> DEFINE u == align_up(next, alignment)
  <2>1. /\ u \in Nat /\ next <= u /\ u <= next + alignment - 1 /\ u % alignment = 0
        /\ \A x \in Nat : x >= next /\ x % alignment = 0 => x >= u
    BY <1>3, SearchArith, AlignUp
  <2>2. candidate' = Wrap(u - va)
    BY <1>8
  <2> HIDE DEF u
  <2>3. u <= U64Max /\ va <= u
    BY <1>8, <1>2, <1>3, <2>1, SearchArith DEF align_up_fails, next
  <2>4. candidate' = u - va /\ candidate' \in U64 /\ va + candidate' = u
    BY <2>1, <2>2, <2>3, SearchArith DEF Wrap, U64
  <2>5. ASSUME NEW o \in 0 .. candidate' - 1, Room(o)
        PROVE  FALSE
    <3>1. o \in Nat /\ va + o < u
      BY <2>4, <2>5, <2>1, <2>3, SearchArith
    <3>2. va + o >= u
      BY <3>1, <2>5, <2>1, <1>6
    <3> QED BY <3>1, <3>2, <2>1, SearchArith
  <2>6. TypeOK'
    BY <1>1, <1>8, <2>4 DEF IndInv, TypeOK, pool
  <2>7. va' = va /\ size' = size /\ (\A t \in Slots : Busy(t)' = Busy(t)) /\ NoHandle' = NoHandle
    BY <1>1 DEF pool, Busy, NoHandle
  <2>8. SearchInv'
    <3>1. slot' \in Slots /\ ~Busy(slot)' /\ ~NoHandle'
      BY <1>1, <1>8, <2>7 DEF IndInv, SearchInv, pool, Busy
    <3>2. alignment_valid(alignment') /\ bytes' > 0 /\ bytes' <= size'
      BY <1>1, <2>7, SearchArith
    <3>3. va' + candidate' <= U64Max /\ (va' + candidate') % alignment' = 0
      BY <1>1, <2>7, <2>4, <2>3, <2>1
    <3>4. \A o \in 0 .. candidate' - 1 : ~Room(o)'
      BY <2>5, <1>4
    <3> QED BY <3>1, <3>2, <3>3, <3>4 DEF SearchInv
  <2> QED BY <1>1, <1>8, <2>6, <2>8
          DEF IndInv, pool, InsidePool, Disjoint, HandlesUnique, UsedExact, PoolRange,
              RefusalJustified, Busy, Holds, OwnedCells, Cells
<1> QED BY <1>3, <1>7, <1>8

\* Taking a free candidate: it meets no live allocation.
LEMMA TakeInv ==
    ASSUME IndInv, pc = "search", Take
    PROVE  IndInv'
<1> DEFINE new == [handle |-> next_handle, offset |-> candidate, size |-> bytes]
           I   == candidate .. candidate + bytes - 1
<1>1. /\ InRange /\ \A s \in Blocking : End(s) <= candidate
      /\ allocations' = [allocations EXCEPT ![slot] = new]
      /\ next_handle' = next_handle + 1
      /\ used' = Wrap(used + bytes)
      /\ Return("alloc", 0, next_handle)
      /\ bytes' = 0 /\ alignment' = 0
      /\ UNCHANGED <<phys, va, size>>
  BY DEF Take, NoRequest, NewAllocation
<1>2. /\ slot \in Slots /\ ~Busy(slot) /\ next_handle # 0 /\ next_handle # HandleMax
      /\ next_handle \in Nat /\ next_handle + 1 <= HandleMax /\ HandleMax \in Nat
      /\ allocations \in [Slots -> Allocation]
  BY HandleAssumption DEF IndInv, SearchInv, NoHandle, TypeOK
<1>3. candidate + bytes <= size /\ candidate \in U64 /\ bytes \in U64
  BY <1>1, SearchArith DEF U64
<1> PICK k \in Slots : k = slot
  BY <1>2
<1>4. new \in Allocation /\ new.handle # 0
  BY <1>2, <1>3 DEF Allocation
<1>5. /\ \A s \in Slots : s # k => allocations'[s] = allocations[s] /\ Busy(s)' = Busy(s)
      /\ allocations'[k] = new /\ Busy(k)'
  <2>1. /\ \A s \in Slots : s # k => allocations'[s] = allocations[s]
        /\ allocations'[k] = new
    BY <1>1, <1>2
  <2> QED BY <2>1, <1>4 DEF Busy
<1>6. ASSUME NEW s \in Slots, Busy(s)
      PROVE  \/ candidate + bytes <= allocations[s].offset
             \/ allocations[s].offset + allocations[s].size <= candidate
  BY <1>1, <1>6, SearchArith DEF Blocking
<1>7. InsidePool'
  BY <1>1, <1>3, <1>5, SearchArith DEF IndInv, InsidePool
<1>8. Disjoint'
  BY <1>5, <1>6 DEF IndInv, Disjoint
<1>9. HandlesUnique'
  <2>1. \A s \in Slots : s # k /\ Busy(s) => allocations[s].handle < next_handle
    BY DEF IndInv, HandlesUnique
  <2>2. \A s \in Slots : allocations[s].handle \in Nat
    BY <1>2, HandleAssumption DEF Allocation
  <2> QED BY <1>1, <1>2, <1>5, <2>1, <2>2 DEF IndInv, HandlesUnique, Holds, Busy
<1>10. OwnedCells' = OwnedCells \cup I
  <2>1. \A s \in Slots : s # k => Cells(s)' = Cells(s)
    BY <1>5 DEF Cells
  <2>2. Cells(k)' = I
    BY <1>3, <1>5, SearchArith DEF Cells, U64
  <2>3. Cells(k) = {}
    BY <1>2, CellsOfFree
  <2> QED BY <2>1, <2>2, <2>3, <1>2 DEF OwnedCells
<1>11. OwnedCells \cap I = {}
  <2>1. ASSUME NEW s \in Slots, NEW x \in Cells(s), x \in I
        PROVE  FALSE
    BY <2>1, <1>6, SearchArith DEF Cells, U64
  <2> QED BY <2>1 DEF OwnedCells
<1>12. IsFiniteSet(I) /\ Cardinality(I) = bytes
  <2>1. candidate \in Nat /\ bytes \in Nat
    BY SearchArith
  <2> QED BY <2>1, FS_Interval
<1>13. I \subseteq 0 .. size - 1
  BY <1>3, SearchArith
<1> HIDE DEF I, new
<1>14. IsFiniteSet(OwnedCells) /\ Cardinality(OwnedCells) = used /\ used \in Nat
       /\ OwnedCells \subseteq 0 .. size - 1
  BY OwnedCellsFinite DEF IndInv, UsedExact
<1>15. Cardinality(OwnedCells \cup I) = used + bytes
  <2>1. Cardinality(OwnedCells \cup I)
          = Cardinality(OwnedCells) + Cardinality(I) - Cardinality(OwnedCells \cap I)
    BY <1>12, <1>14, FS_Union
  <2>2. Cardinality(OwnedCells \cap I) = 0
    BY <1>11, FS_EmptySet
  <2> QED BY <2>1, <2>2, <1>12, <1>14, SearchArith
<1>16. used + bytes <= size
  <2>1. IsFiniteSet(0 .. size - 1) /\ Cardinality(0 .. size - 1) = size
    <3>1. size \in Nat
      BY SearchArith
    <3> QED BY <3>1, FS_Interval
  <2>2. OwnedCells \cup I \subseteq 0 .. size - 1
    BY <1>13, <1>14
  <2> QED BY <2>1, <2>2, <1>15, FS_Subset
<1>17. used' = used + bytes /\ used' \in U64
  BY <1>1, <1>14, <1>16, SearchArith DEF Wrap, U64
<1>18. UsedExact'
  BY <1>10, <1>15, <1>17 DEF UsedExact
<1>19. TypeOK'
  <2>1. allocations' \in [Slots -> Allocation]
    BY <1>1, <1>2, <1>4
  <2>2. reply' \in [op : {"none", "init", "alloc", "free"},
                    code : {0, -1, -2}, handle : 0 .. HandleMax]
    BY <1>1, <1>2 DEF Return
  <2> QED BY <1>1, <1>2, <1>17, <2>1, <2>2, WidthAssumption DEF IndInv, TypeOK, Return, U64
<1>20. PoolRange' /\ SearchInv' /\ RefusalJustified'
  BY <1>1 DEF IndInv, PoolRange, SearchInv, RefusalJustified, Return
<1> QED BY <1>7, <1>8, <1>9, <1>18, <1>19, <1>20 DEF IndInv

\* nv_vram_free gives back exactly the cells of one allocation.
LEMMA FreeInv ==
    ASSUME IndInv, NEW h \in 0 .. HandleMax, FreeHandle(h)
    PROVE  IndInv'
<1>0. pc' = "idle" /\ reply'.op = "free" /\ UNCHANGED <<phys, va, size, next_handle>>
  BY DEF FreeHandle, Return, pool
<1>1. CASE UNCHANGED pool
  <2>1. TypeOK'
    BY <1>1, WidthAssumption, HandleAssumption
       DEF FreeHandle, IndInv, TypeOK, Return, NoRequest, pool, U64
  <2> QED BY <1>0, <1>1, <2>1
          DEF IndInv, pool, InsidePool, Disjoint, HandlesUnique, UsedExact, PoolRange,
              SearchInv, RefusalJustified, Busy, Holds, OwnedCells, Cells
<1>2. ASSUME h # 0, Return("free", 0, 0), NoRequest,
             NEW s \in Slots, Holds(s, h),
             used' = Wrap(used - allocations[s].size),
             allocations' = [allocations EXCEPT ![s] = Free]
      PROVE  IndInv'
  <2>1. Busy(s) /\ allocations \in [Slots -> Allocation]
    BY <1>2 DEF Busy, Holds, IndInv, TypeOK
  <2>2. /\ \A t \in Slots : t # s => allocations'[t] = allocations[t] /\ Busy(t)' = Busy(t)
        /\ allocations'[s] = Free /\ ~Busy(s)'
    BY <1>2, <2>1 DEF Busy, Free
  <2>3. Free \in Allocation
    BY WidthAssumption, HandleAssumption DEF Free, Allocation, U64
  <2>4. InsidePool' /\ Disjoint' /\ HandlesUnique'
    BY <1>0, <2>2 DEF IndInv, InsidePool, Disjoint, HandlesUnique, Holds, Busy
  <2>5. OwnedCells' = OwnedCells \ Cells(s)
    <3>1. \A t \in Slots : t # s => Cells(t)' = Cells(t)
      BY <2>2 DEF Cells
    <3>2. Cells(s)' = {}
      BY <2>2 DEF Cells
    <3>3. \A t \in Slots : t # s => Cells(t) \cap Cells(s) = {}
      <4>1. ASSUME NEW t \in Slots, t # s, NEW x \in Cells(t), x \in Cells(s)
            PROVE  FALSE
        <5>1. /\ allocations[t].offset \in Nat /\ allocations[t].size \in Nat
              /\ allocations[s].offset \in Nat /\ allocations[s].size \in Nat
          BY <2>1, WidthAssumption DEF Allocation, U64
        <5> QED BY <4>1, <5>1, WidthAssumption DEF Cells, IndInv, Disjoint, U64
      <4> QED BY <4>1
    <3> QED BY <3>1, <3>2, <3>3 DEF OwnedCells
  <2>6. /\ Cells(s) \subseteq OwnedCells /\ IsFiniteSet(Cells(s))
        /\ Cardinality(Cells(s)) = allocations[s].size /\ allocations[s].size \in Nat
    BY <2>1, CellsInterval, WidthAssumption DEF OwnedCells, IndInv, Allocation, U64
  <2>7. /\ IsFiniteSet(OwnedCells) /\ Cardinality(OwnedCells) = used /\ used \in Nat
        /\ used <= size /\ size \in Nat /\ size <= U64Max
    BY OwnedCellsFinite, WidthAssumption DEF IndInv, UsedExact, TypeOK, U64
  <2>8. Cardinality(OwnedCells \ Cells(s)) = used - allocations[s].size
    <3>1. OwnedCells \cap Cells(s) = Cells(s)
      BY <2>6
    <3>2. Cardinality(OwnedCells \ Cells(s))
            = Cardinality(OwnedCells) - Cardinality(OwnedCells \cap Cells(s))
      BY <2>7, FS_Difference
    <3> QED BY <3>1, <3>2, <2>6, <2>7
  <2>9. allocations[s].size <= used
    BY <2>6, <2>7, FS_Subset
  <2>10. used' = used - allocations[s].size /\ used' \in U64
    BY <1>2, <2>6, <2>7, <2>9, WidthAssumption DEF Wrap, U64
  <2>11. UsedExact'
    BY <2>5, <2>8, <2>10 DEF UsedExact
  <2>12. TypeOK'
    <3>1. allocations' \in [Slots -> Allocation]
      BY <1>2, <2>1, <2>3
    <3> QED BY <1>0, <1>2, <2>10, <3>1, WidthAssumption, HandleAssumption
            DEF IndInv, TypeOK, Return, NoRequest, U64
  <2>13. PoolRange' /\ SearchInv' /\ RefusalJustified'
    BY <1>0 DEF IndInv, PoolRange, SearchInv, RefusalJustified
  <2> QED BY <2>4, <2>11, <2>12, <2>13 DEF IndInv
<1> QED BY <1>1, <1>2 DEF FreeHandle, FirstHolding, UsedWithout

\* No operation of vram.c breaks the invariant, nor does a step between them.
LEMMA NextInv == IndInv /\ [Next]_vars => IndInv'
<1> SUFFICES ASSUME IndInv, [Next]_vars PROVE IndInv'
  OBVIOUS
<1>1. ASSUME NEW args \in InitArgs, PoolInit(args[1], args[2], args[3])
      PROVE  IndInv'
  BY <1>1, PoolInitInv
<1>2. ASSUME NEW r \in Requests, AllocEnter(r[1], r[2])
      PROVE  IndInv'
  BY <1>2, AllocEnterInv
<1>3. CASE AllocSearch
  BY <1>3, TakeInv, SkipBlockingInv, PastEndInv DEF AllocSearch
<1>4. ASSUME NEW h \in 0 .. HandleMax, FreeHandle(h)
      PROVE  IndInv'
  BY <1>4, FreeInv
<1>5. CASE UNCHANGED vars
  BY <1>5 DEF vars, IndInv, TypeOK, InsidePool, Disjoint, HandlesUnique, UsedExact,
              PoolRange, SearchInv, RefusalJustified, Busy, Holds, OwnedCells, Cells,
              Room, NoSlot, NoHandle
<1> QED BY <1>1, <1>2, <1>3, <1>4, <1>5 DEF Next

\* The inductive invariant holds in every reachable state of every pool.
THEOREM Invariance == Spec => []IndInv
BY InitInv, NextInv, PTL DEF Spec

\* The table, the counters and the locals always have their types: no sum
\* or difference of vram.c ever leaves the u64 range.
THEOREM TypeCorrect == Spec => []TypeOK
<1>1. IndInv => TypeOK
  BY DEF IndInv
<1> QED BY <1>1, Invariance, PTL

\* Live allocations never share a byte of VRAM.
THEOREM AllocationsDisjoint == Spec => []Disjoint
<1>1. IndInv => Disjoint
  BY DEF IndInv
<1> QED BY <1>1, Invariance, PTL

\* The used counter of nv_vram_alloc is the number of bytes handed out.
THEOREM UsedIsExact == Spec => []UsedExact
<1>1. IndInv => UsedExact
  BY DEF IndInv
<1> QED BY <1>1, Invariance, PTL

\* A refused request really had no aligned hole, or the table or the handles
\* had run out: the first-fit loop skips over no place that fits.
THEOREM RefusalsJustified == Spec => []RefusalJustified
<1>1. IndInv => RefusalJustified
  BY DEF IndInv
<1> QED BY <1>1, Invariance, PTL

\* What nv_vram_resolve returns for a byte of a buffer: the slot is the one
\* that holds the handle, and neither of its sums wraps.
LEMMA ResolvedPlace ==
    ASSUME IndInv, NEW h \in 1 .. HandleMax, NEW o \in U64, Resolves(h, o, 1)
    PROVE  \E s \in Slots :
             /\ Busy(s) /\ allocations[s].handle = h
             /\ o < allocations[s].size
             /\ ResolvedOffset(h, o) = va + allocations[s].offset + o
             /\ allocations[s].offset + allocations[s].size <= size
<1>1. PICK s \in Slots : /\ FirstHolding(s, h)
                         /\ o <= allocations[s].size
                         /\ 1 <= Wrap(allocations[s].size - o)
  BY DEF Resolves
<1>2. Busy(s) /\ allocations[s].handle = h
  BY <1>1 DEF FirstHolding, Holds, Busy
<1>3. allocations[s].size \in U64 /\ allocations[s].offset \in U64
  BY DEF IndInv, TypeOK, Allocation
<1>4. allocations[s].offset + allocations[s].size <= size
  BY <1>2 DEF IndInv, InsidePool
<1>5. o < allocations[s].size
  BY <1>1, <1>3, WidthAssumption DEF Wrap, U64
<1>6. (CHOOSE t \in Slots : FirstHolding(t, h)) = s
  <2>1. \A t \in Slots : FirstHolding(t, h) => t = s
    BY <1>2 DEF IndInv, HandlesUnique, FirstHolding, Holds
  <2> QED BY <2>1, <1>1
<1>7. ResolvedOffset(h, o) = Wrap(Wrap(va + allocations[s].offset) + o)
  BY <1>6 DEF ResolvedOffset
<1>8. va \in U64 /\ size \in U64 /\ va + size <= U64Max
  BY DEF IndInv, TypeOK, PoolRange
<1>9. Wrap(Wrap(va + allocations[s].offset) + o) = va + allocations[s].offset + o
  BY <1>3, <1>4, <1>5, <1>8, WidthAssumption DEF Wrap, U64
<1> QED BY <1>2, <1>4, <1>5, <1>7, <1>9

\* An address inside a range is not inside one that begins behind it.
LEMMA OneAddress ==
    ASSUME NEW v \in Nat, NEW a \in Nat, NEW n \in Nat, NEW x \in Nat,
           NEW b \in Nat, NEW y \in Nat, x < n, v + a + x = v + b + y
    PROVE  ~(a + n <= b)
OBVIOUS

\* Two handles never resolve to the same GPU address, nor to one outside the
\* pool: nv_vram_resolve gives nobody access to the buffer of another.
THEOREM HandlesDoNotAlias == Spec => []NoAliasing
<1>1. IndInv => NoAliasing
  <2> SUFFICES ASSUME IndInv, NEW h \in 1 .. HandleMax
               PROVE  /\ Reach(h) \subseteq va .. va + size - 1
                      /\ \A g \in 1 .. HandleMax : g # h => Reach(g) \cap Reach(h) = {}
    BY DEF NoAliasing
  <2>1. va \in Nat /\ size \in Nat
    BY WidthAssumption DEF IndInv, TypeOK, U64
  <2>2. \A s \in Slots : allocations[s].offset \in Nat /\ allocations[s].size \in Nat
    BY WidthAssumption DEF IndInv, TypeOK, Allocation, U64
  <2>3. Reach(h) \subseteq va .. va + size - 1
    <3> SUFFICES ASSUME NEW x \in U64, Resolves(h, x, 1)
                 PROVE  ResolvedOffset(h, x) \in va .. va + size - 1
      BY DEF Reach
    <3>1. x \in Nat
      BY WidthAssumption DEF U64
    <3> QED BY ResolvedPlace, <2>1, <2>2, <3>1
  <2>4. ASSUME NEW g \in 1 .. HandleMax, g # h
        PROVE  Reach(g) \cap Reach(h) = {}
    <3> SUFFICES ASSUME NEW x \in U64, Resolves(g, x, 1),
                        NEW y \in U64, Resolves(h, y, 1),
                        ResolvedOffset(g, x) = ResolvedOffset(h, y)
                 PROVE  FALSE
      BY DEF Reach
    <3>1. x \in Nat /\ y \in Nat
      BY WidthAssumption DEF U64
    <3>2. PICK s \in Slots : /\ Busy(s) /\ allocations[s].handle = g
                             /\ x < allocations[s].size
                             /\ ResolvedOffset(g, x) = va + allocations[s].offset + x
      BY ResolvedPlace
    <3>3. PICK t \in Slots : /\ Busy(t) /\ allocations[t].handle = h
                             /\ y < allocations[t].size
                             /\ ResolvedOffset(h, y) = va + allocations[t].offset + y
      BY ResolvedPlace
    <3>4. s # t
      BY <2>4, <3>2, <3>3
    <3>5. \/ allocations[s].offset + allocations[s].size <= allocations[t].offset
          \/ allocations[t].offset + allocations[t].size <= allocations[s].offset
      BY <3>2, <3>3, <3>4 DEF IndInv, Disjoint
    <3>6. va + allocations[s].offset + x = va + allocations[t].offset + y
      BY <3>2, <3>3
    <3>7. ~(allocations[s].offset + allocations[s].size <= allocations[t].offset)
      BY <2>1, <2>2, <3>1, <3>2, <3>3, <3>6, OneAddress
    <3>8. ~(allocations[t].offset + allocations[t].size <= allocations[s].offset)
      BY <2>1, <2>2, <3>1, <3>2, <3>3, <3>6, OneAddress
    <3> QED BY <3>5, <3>7, <3>8
  <2> QED BY <2>3, <2>4
<1> QED BY <1>1, Invariance, PTL
-----------------------------------------------------------------------------
(* The pool implements BufferStore. *)

Live == {allocations[s] : s \in {t \in Slots : Busy(t)}}

\* What the refinement needs besides IndInv: handles start at 1 when the pool
\* opens, and the loop serves a request of a caller.
Asked ==
    \E r \in Requests :
        /\ r[1] > 0 /\ alignment = r[2]
        /\ bytes = align_up(r[1], PAGE_BYTES) /\ ~align_up_fails(r[1], PAGE_BYTES)
StoreInv ==
    /\ size # 0 => next_handle # 0
    /\ pc = "search" => Asked

\* The buffers are as many as the busy slots: no two slots hold the same.
LEMMA LiveCount ==
    ASSUME IndInv
    PROVE  /\ Cardinality(Live) \in Nat
           /\ NoSlot => Cardinality(Live) = MAX_ALLOCS
           /\ ~NoSlot => Cardinality(Live) < MAX_ALLOCS
<1> DEFINE B == {t \in Slots : Busy(t)}
           f == [s \in B |-> allocations[s]]
<1>1. IsFiniteSet(Slots) /\ Cardinality(Slots) = MAX_ALLOCS
  <2>1. 0 \in Int /\ MAX_ALLOCS - 1 \in Int /\ MAX_ALLOCS \in Nat
    BY SlotAssumption
  <2> QED BY <2>1, FS_Interval DEF Slots
<1>2. B \subseteq Slots
  OBVIOUS
<1>3. /\ IsFiniteSet(B) /\ Cardinality(B) \in Nat
      /\ Cardinality(B) <= MAX_ALLOCS
      /\ Cardinality(B) = MAX_ALLOCS => B = Slots
  BY <1>1, <1>2, FS_Subset, FS_CardinalityType
<1>4. f \in Surjection(B, Live)
  BY DEF Surjection, Live
<1>5. f \in Injection(B, Live)
  <2>1. \A s, t \in B : allocations[s] = allocations[t] => s = t
    BY DEF IndInv, HandlesUnique, Holds
  <2>2. f \in [B -> Live]
    BY <1>4 DEF Surjection
  <2> QED BY <2>1, <2>2 DEF Injection, IsInjective
<1> HIDE DEF f
<1>6. Cardinality(Live) = Cardinality(B)
  BY <1>3, <1>4, <1>5, FS_Surjection
<1>7. NoSlot <=> B = Slots
  BY DEF NoSlot
<1> HIDE DEF B
<1> QED BY <1>1, <1>3, <1>6, <1>7, SlotAssumption

LEMMA SameCount ==
    ASSUME NEW S
    PROVE  Store!Cardinality(S) = Cardinality(S)
BY DEF Store!Cardinality, Cardinality

LEMMA StoreInvStep == IndInv /\ StoreInv /\ [Next]_vars => StoreInv'
<1> SUFFICES ASSUME IndInv, StoreInv, [Next]_vars
             PROVE  StoreInv'
  OBVIOUS
<1>1. ASSUME NEW args \in InitArgs, PoolInit(args[1], args[2], args[3])
      PROVE  StoreInv'
  BY <1>1 DEF PoolInit, StoreInv, Return, pool
<1>2. ASSUME NEW r \in Requests, AllocEnter(r[1], r[2])
      PROVE  StoreInv'
  <2>1. /\ UNCHANGED pool
        /\ bytes' = align_up(r[1], PAGE_BYTES) /\ alignment' = r[2]
    BY <1>2 DEF AllocEnter
  <2>2. pc' = "search" => ~BadRequest(r[1], r[2])
    BY <1>2 DEF AllocEnter, Return
  <2>3. ASSUME pc' = "search"
        PROVE  Asked'
    <3>1. /\ r[1] \in Nat /\ r[1] > 0 /\ PAGE_BYTES \in Nat \ {0} /\ U64Max \in Nat
          /\ r[1] <= U64Max - (PAGE_BYTES - 1)
      BY <2>2, <2>3, InputAssumption, PageAssumption, WidthAssumption
         DEF BadRequest, align_up_fails, U64
    <3> QED BY <2>1, <3>1 DEF Asked, align_up_fails
  <2> QED BY <2>1, <2>3 DEF StoreInv, pool
<1>3. CASE AllocSearch /\ Take
  <2>1. next_handle' = next_handle + 1 /\ pc' = "idle"
    BY <1>3 DEF Take, Return
  <2>2. next_handle \in Nat
    BY HandleAssumption DEF IndInv, TypeOK
  <2> QED BY <2>1, <2>2 DEF StoreInv
<1>4. CASE AllocSearch /\ (SkipBlocking \/ PastEnd)
  <2>1. UNCHANGED pool /\ bytes' = bytes /\ alignment' = alignment /\ pc = "search"
    BY <1>4 DEF AllocSearch, SkipBlocking, PastEnd
  <2> QED BY <2>1 DEF StoreInv, Asked, pool
<1>5. ASSUME NEW h \in 0 .. HandleMax, FreeHandle(h)
      PROVE  StoreInv'
  BY <1>5 DEF FreeHandle, StoreInv, Return, pool
<1>6. CASE UNCHANGED vars
  BY <1>6 DEF vars, StoreInv, Asked
<1> QED BY <1>1, <1>2, <1>3, <1>4, <1>5, <1>6 DEF Next, AllocSearch

\* A place of the abstract pool is one of the table.
LEMMA PlaceIsRoom ==
    ASSUME TypeOK, NEW o \in Nat
    PROVE  Store!Place(o, bytes, alignment) <=> Room(o)
<1>1. \A x \in U64 : Store!Taken(x) <=> x \in OwnedCells
  BY DEF Store!Taken, OwnedCells, Cells
<1>2. o + bytes <= size => o .. o + bytes - 1 \subseteq U64
  <2>1. bytes \in Nat /\ size \in Nat /\ size <= U64Max /\ U64Max \in Nat
    BY WidthAssumption DEF TypeOK, U64
  <2> QED BY <2>1 DEF U64
<1> QED BY <1>1, <1>2 DEF Store!Place, Room

\* The search refuses what the abstract pool may refuse.
LEMMA RefusalIsAbstract ==
    ASSUME IndInv, StoreInv, IndInv', UNCHANGED pool, size # 0,
           Return("alloc", -2, 0), NEW b \in Nat, b > 0, b <= U64Max - (PAGE_BYTES - 1),
           bytes' = align_up(b, PAGE_BYTES),
           NEW a \in U64, alignment' = a, a >= PAGE_BYTES
    PROVE  Store!Alloc(b, a)
<1>1. /\ U64Max \in Nat /\ PAGE_BYTES \in Nat \ {0} /\ size \in Nat /\ size <= U64Max
      /\ bytes' \in Nat /\ 0 .. size \subseteq U64
  BY WidthAssumption, PageAssumption DEF IndInv, TypeOK, U64
<1>2. /\ b <= bytes' /\ bytes' <= b + PAGE_BYTES - 1 /\ bytes' % PAGE_BYTES = 0
  BY <1>1, AlignUp
<1>3. Store!IsRounded(bytes', b)
  BY <1>1, <1>2 DEF Store!IsRounded
<1>4. bytes' \in PAGE_BYTES .. U64Max
  <2>1. bytes' <= U64Max
    BY <1>1, <1>2
  <2>2. bytes' >= PAGE_BYTES
    <3>1. 0 \in Int /\ bytes' \in Int /\ 0 % PAGE_BYTES = 0 /\ 0 < bytes'
      BY <1>1, <1>2
    <3>2. 0 + PAGE_BYTES <= bytes'
      BY <1>1, <1>2, <3>1, MultiplesApart
    <3> QED BY <1>1, <3>2
  <2> QED BY <1>1, <2>1, <2>2
<1>5. \/ \A o \in 0 .. size : ~Store!Place(o, bytes', a)
      \/ Store!Cardinality(Live) = MAX_ALLOCS
      \/ next_handle - 1 + 1 = HandleMax
  <2>1. NoSlot' \/ NoHandle' \/ \A o \in U64 : ~Room(o)'
    BY DEF IndInv, RefusalJustified, Return
  <2>2. CASE NoSlot'
    <3>1. NoSlot
      BY <2>2 DEF NoSlot, Busy, pool
    <3>2. Cardinality(Live) = MAX_ALLOCS
      BY <3>1, LiveCount
    <3> QED BY <3>2, SameCount
  <2>3. CASE NoHandle'
    BY <2>3, HandleAssumption DEF NoHandle, pool, StoreInv, IndInv, TypeOK
  <2>4. CASE \A o \in U64 : ~Room(o)'
    <3>1. ASSUME NEW o \in 0 .. size
          PROVE  Store!Place(o, bytes', a) => Room(o)'
      <4>1. o \in Nat /\ o \in U64
        BY <1>1
      <4>2. \A x \in U64 : x \in OwnedCells' => Store!Taken(x)
        BY DEF Store!Taken, OwnedCells, Cells, Busy, pool
      <4>3. o + bytes' <= size => o .. o + bytes' - 1 \subseteq U64
        BY <1>1, <4>1 DEF U64
      <4> QED BY <4>2, <4>3 DEF Store!Place, Room, pool
    <3> QED BY <1>1, <2>4, <3>1
  <2> QED BY <2>1, <2>2, <2>3, <2>4
<1>6. Store!Refuse(bytes', a)
  BY <1>5 DEF Store!Refuse, Store!Answer, Return, pool, Live, Busy
<1> QED BY <1>1, <1>3, <1>4, <1>6 DEF Store!Alloc

\* Taking the candidate is granting the lowest place.
LEMMA TakeIsGrant ==
    ASSUME IndInv, StoreInv, pc = "search", Take
    PROVE  \E r \in Requests : Store!Alloc(r[1], r[2])
<1>1. PICK r \in Requests : /\ r[1] > 0 /\ alignment = r[2]
                            /\ bytes = align_up(r[1], PAGE_BYTES)
  BY DEF StoreInv, Asked
<1>2. /\ r[1] \in Nat /\ PAGE_BYTES \in Nat \ {0} /\ U64Max \in Nat
      /\ size \in Nat /\ size > 0 /\ candidate \in Nat /\ bytes \in Nat
      /\ candidate + bytes <= size
  BY InputAssumption, PageAssumption, WidthAssumption, SearchArith DEF Take, U64
<1>3. r[1] <= bytes /\ bytes <= r[1] + PAGE_BYTES - 1 /\ bytes % PAGE_BYTES = 0
  BY <1>1, <1>2, AlignUp
<1>4. Store!IsRounded(bytes, r[1])
  BY <1>2, <1>3 DEF Store!IsRounded
<1>5. bytes \in PAGE_BYTES .. U64Max
  <2>1. 0 \in Int /\ bytes \in Int /\ 0 % PAGE_BYTES = 0 /\ 0 < bytes
    BY <1>1, <1>2, <1>3
  <2>2. 0 + PAGE_BYTES <= bytes
    BY <1>2, <1>3, <2>1, MultiplesApart
  <2>3. bytes <= U64Max
    BY SearchArith
  <2> QED BY <1>2, <2>2, <2>3
<1>6. Room(candidate)
  <2>1. ASSUME NEW x \in candidate .. candidate + bytes - 1, x \in OwnedCells
        PROVE  FALSE
    <3>1. PICK s \in Slots : x \in Cells(s)
      BY <2>1 DEF OwnedCells
    <3>2. /\ Busy(s) /\ allocations[s].offset <= x
          /\ x < allocations[s].offset + allocations[s].size
          /\ allocations[s].offset \in Nat /\ allocations[s].size \in Nat
          /\ End(s) = allocations[s].offset + allocations[s].size
      BY <3>1, SearchArith DEF Cells
    <3>3. Wrap(candidate + bytes) = candidate + bytes
      BY SearchArith DEF Take
    <3>4. s \in Blocking
      BY <1>2, <2>1, <3>2, <3>3 DEF Blocking
    <3> QED BY <1>2, <2>1, <3>2, <3>4 DEF Take
  <2>2. (va + candidate) % alignment = 0
    BY DEF IndInv, SearchInv
  <2> QED BY <1>2, <2>1, <2>2 DEF Room
<1>7. Store!Place(candidate, bytes, r[2])
  <2>1. Store!Place(candidate, bytes, alignment)
    BY <1>2, <1>6, PlaceIsRoom DEF IndInv
  <2> QED BY <1>1, <2>1 DEF Store!Place
<1>8. \A p \in 0 .. candidate - 1 : ~Store!Place(p, bytes, r[2])
  <2>1. \A p \in 0 .. candidate - 1 : p \in Nat
    BY <1>2
  <2>2. \A p \in 0 .. candidate - 1 : ~Room(p)
    BY DEF IndInv, SearchInv
  <2>3. \A p \in 0 .. candidate - 1 : ~Store!Place(p, bytes, alignment)
    BY <2>1, <2>2, PlaceIsRoom DEF IndInv
  <2> QED BY <1>1, <2>3 DEF Store!Place
<1>9. Store!Cardinality(Live) < MAX_ALLOCS
  <2>1. ~NoSlot
    BY DEF IndInv, SearchInv, NoSlot
  <2>2. Cardinality(Live) < MAX_ALLOCS
    BY <2>1, LiveCount
  <2> QED BY <2>2, SameCount
<1>10. next_handle \in Nat /\ next_handle # 0 /\ next_handle < HandleMax
  BY HandleAssumption DEF IndInv, SearchInv, NoHandle, TypeOK
<1>11. /\ next_handle - 1 + 1 = next_handle /\ next_handle + 1 - 1 = next_handle
       /\ next_handle - 1 + 1 < HandleMax
  BY <1>10, HandleAssumption
<1>12. Live' = Live \cup {[handle |-> next_handle, offset |-> candidate, size |-> bytes]}
  <2> DEFINE new == [handle |-> next_handle, offset |-> candidate, size |-> bytes]
  <2>1. /\ allocations' = [allocations EXCEPT ![slot] = new]
        /\ slot \in Slots /\ ~Busy(slot) /\ allocations \in [Slots -> Allocation]
    BY DEF Take, NewAllocation, IndInv, SearchInv, TypeOK
  <2>2. new.handle # 0
    BY <1>10
  <2> HIDE DEF new
  <2>3. /\ \A s \in Slots \ {slot} : allocations'[s] = allocations[s]
        /\ allocations'[slot] = new
    BY <2>1
  <2>4. \A x : x \in Live' <=> x \in Live \/ x = new
    BY <2>1, <2>2, <2>3 DEF Live, Busy
  <2>5. Live' = Live \cup {new}
    BY <2>4
  <2> QED BY <2>5 DEF new
<1>13. Store!Grant(candidate, bytes, r[2])
  <2>1. /\ next_handle' = next_handle + 1 /\ va' = va /\ size' = size
        /\ reply' = [op |-> "alloc", code |-> 0, handle |-> next_handle]
    BY DEF Take, Return, NewAllocation
  <2>2. /\ Live' = Live \cup {[handle |-> next_handle - 1 + 1, offset |-> candidate, size |-> bytes]}
        /\ next_handle' - 1 = next_handle - 1 + 1
        /\ reply' = [op |-> "alloc", code |-> 0, handle |-> next_handle - 1 + 1]
    <3>1. next_handle' - 1 = next_handle
      BY <1>10, <2>1
    <3> QED BY <1>11, <1>12, <2>1, <3>1
  <2> QED BY <1>7, <1>8, <1>9, <1>11, <2>1, <2>2, Zenon DEF Store!Grant, Store!Answer, Live
<1>14. candidate \in 0 .. size
  BY <1>2
<1>15. r[2] >= PAGE_BYTES
  BY <1>1 DEF IndInv, SearchInv, alignment_valid
<1>16. Store!Alloc(r[1], r[2])
  <2>1. \E o \in 0 .. size : Store!Grant(o, bytes, r[2])
    BY <1>13, <1>14
  <2> QED BY <1>1, <1>2, <1>4, <1>5, <1>15, <2>1 DEF Store!Alloc
<1> QED BY <1>16

\* A step of the pool is a step of the abstract one, or none it can see.
LEMMA StoreStep ==
    IndInv /\ StoreInv /\ IndInv' /\ [Next]_vars
        => [Store!Next]_<<va, size, Live, next_handle - 1, reply>>
<1> SUFFICES ASSUME IndInv, StoreInv, IndInv', [Next]_vars
             PROVE  Store!Next \/ UNCHANGED <<va, size, Live, next_handle - 1, reply>>
  OBVIOUS
<1>0. UNCHANGED pool => UNCHANGED <<va, size, Live, next_handle - 1>>
  BY DEF pool, Live, Busy
<1>1. ASSUME NEW args \in InitArgs, PoolInit(args[1], args[2], args[3])
      PROVE  Store!Next
  <2>1. CASE PoolArgsValid(args[1], args[2], args[3])
    <3>1. /\ size = 0 /\ va' = args[2] /\ size' = args[3] /\ next_handle' = 1
          /\ allocations' = [s \in Slots |-> Free]
          /\ reply' = [op |-> "init", code |-> 0, handle |-> 0]
      BY <1>1, <2>1 DEF PoolInit, Return
    <3>2. args[3] > 0 /\ args[2] + args[3] <= U64Max
      BY <2>1, InputAssumption, WidthAssumption DEF PoolArgsValid, span_valid, U64
    <3>3. Live = {}
      <4>1. ASSUME NEW s \in Slots, Busy(s)
            PROVE  FALSE
        <5>1. allocations[s].offset \in Nat /\ allocations[s].size \in Nat
          BY WidthAssumption DEF IndInv, TypeOK, Allocation, U64
        <5> QED BY <3>1, <4>1, <5>1 DEF IndInv, InsidePool
      <4> QED BY <4>1 DEF Live
    <3>4. Live' = {}
      BY <3>1 DEF Live, Busy, Free
    <3>5. Store!Open(args[2], args[3])
      BY <3>1, <3>2, <3>3, <3>4 DEF Store!Open, Store!Answer, Live
    <3> QED BY <3>5 DEF Store!Next
  <2>2. CASE ~PoolArgsValid(args[1], args[2], args[3])
    <3>1. UNCHANGED pool /\ reply' = [op |-> "init", code |-> -1, handle |-> 0]
      BY <1>1, <2>2 DEF PoolInit, Return
    <3>2. Store!Reject("init")
      BY <1>0, <3>1 DEF Store!Reject, Store!Answer, Live
    <3> QED BY <3>2 DEF Store!Next
  <2> QED BY <2>1, <2>2
<1>2. ASSUME NEW r \in Requests, AllocEnter(r[1], r[2])
      PROVE  Store!Next \/ UNCHANGED <<va, size, Live, next_handle - 1, reply>>
  <2>1. /\ UNCHANGED pool
        /\ bytes' = align_up(r[1], PAGE_BYTES) /\ alignment' = r[2]
    BY <1>2 DEF AllocEnter
  <2>2. CASE BadRequest(r[1], r[2])
    <3>1. reply' = [op |-> "alloc", code |-> -1, handle |-> 0]
      BY <1>2, <2>2 DEF AllocEnter, Return
    <3>2. Store!Reject("alloc")
      BY <1>0, <2>1, <3>1 DEF Store!Reject, Store!Answer, Live
    <3> QED BY <3>2 DEF Store!Next
  <2>3. CASE ~BadRequest(r[1], r[2]) /\ Return("alloc", -2, 0)
    <3>1. r[1] \in Nat /\ U64Max \in Nat /\ PAGE_BYTES \in Nat
      BY InputAssumption, WidthAssumption, PageAssumption DEF U64
    <3>2. /\ r[1] # 0 /\ size # 0
          /\ ~(r[1] > U64Max - (PAGE_BYTES - 1)) /\ r[2] >= PAGE_BYTES
      BY <2>3 DEF BadRequest, align_up_fails, alignment_valid
    <3>3. r[1] > 0 /\ r[1] <= U64Max - (PAGE_BYTES - 1)
      BY <3>1, <3>2
    <3>4. r[2] \in U64
      BY InputAssumption
    <3>5. Store!Alloc(r[1], r[2])
      BY <2>1, <2>3, <3>1, <3>2, <3>3, <3>4, RefusalIsAbstract
    <3> QED BY <3>5 DEF Store!Next
  <2>4. CASE UNCHANGED reply
    BY <1>0, <2>1, <2>4
  <2> QED BY <1>2, <2>2, <2>3, <2>4 DEF AllocEnter
<1>3. CASE pc = "search" /\ Take
  BY <1>3, TakeIsGrant DEF Store!Next
<1>4. CASE pc = "search" /\ (SkipBlocking \/ PastEnd)
  <2>1. UNCHANGED pool /\ bytes' = bytes /\ alignment' = alignment
    BY <1>4 DEF SkipBlocking, PastEnd
  <2>2. CASE Return("alloc", -2, 0)
    <3>1. PICK r \in Requests : /\ r[1] > 0 /\ alignment = r[2]
                                /\ bytes = align_up(r[1], PAGE_BYTES)
                                /\ ~align_up_fails(r[1], PAGE_BYTES)
      BY <1>4 DEF StoreInv, Asked
    <3>2. r[1] \in Nat /\ size # 0 /\ alignment >= PAGE_BYTES
      BY <1>4, InputAssumption, SearchArith DEF U64, alignment_valid
    <3>3. PAGE_BYTES \in Nat \ {0} /\ U64Max \in Nat
      BY PageAssumption, WidthAssumption
    <3>4. r[1] <= U64Max - (PAGE_BYTES - 1)
      BY <3>1, <3>2, <3>3 DEF align_up_fails
    <3>5. /\ r[2] \in U64 /\ alignment' = r[2] /\ r[2] >= PAGE_BYTES
          /\ bytes' = align_up(r[1], PAGE_BYTES)
      BY <2>1, <3>1, <3>2, InputAssumption
    <3>6. Store!Alloc(r[1], r[2])
      BY <2>1, <2>2, <3>1, <3>2, <3>4, <3>5, RefusalIsAbstract
    <3> QED BY <3>6 DEF Store!Next
  <2>3. CASE UNCHANGED reply
    BY <1>0, <2>1, <2>3
  <2> QED BY <1>4, <2>2, <2>3 DEF SkipBlocking, PastEnd
<1>5. ASSUME NEW h \in 0 .. HandleMax, FreeHandle(h)
      PROVE  Store!Next
  <2>1. CASE UNCHANGED pool /\ Return("free", -1, 0)
    <3>1. Store!Reject("free")
      BY <1>0, <2>1 DEF Store!Reject, Store!Answer, Live, Return
    <3> QED BY <3>1 DEF Store!Next
  <2>2. ASSUME h # 0, NEW s \in Slots, FirstHolding(s, h),
               allocations' = [allocations EXCEPT ![s] = Free],
               Return("free", 0, 0), UNCHANGED <<phys, va, size, next_handle>>
        PROVE  Store!Next
    <3>1. /\ allocations \in [Slots -> Allocation] /\ allocations[s].handle = h /\ Busy(s)
      BY <2>2 DEF IndInv, TypeOK, FirstHolding, Holds, Busy
    <3>2. \A t \in Slots : t # s /\ Busy(t) => allocations[t] # allocations[s]
      BY <3>1 DEF IndInv, HandlesUnique, Holds
    <3>3. /\ \A t \in Slots \ {s} : allocations'[t] = allocations[t]
          /\ allocations'[s].handle = 0
      BY <2>2, <3>1 DEF Free
    <3>4. \A x : x \in Live' <=> x \in Live /\ x # allocations[s]
      BY <3>1, <3>2, <3>3 DEF Live, Busy
    <3>5. Live' = Live \ {allocations[s]} /\ allocations[s] \in Live
      BY <3>1, <3>4 DEF Live
    <3>6. Store!Release(h)
      BY <2>2, <3>1, <3>5 DEF Store!Release, Store!Answer, Return, Live
    <3>7. h \in 1 .. HandleMax
      BY <2>2, HandleAssumption
    <3> QED BY <3>6, <3>7 DEF Store!Next
  <2> QED BY <1>5, <2>1, <2>2 DEF FreeHandle
<1>6. CASE UNCHANGED vars
  BY <1>0, <1>6 DEF vars, pool
<1> QED BY <1>1, <1>2, <1>3, <1>4, <1>5, <1>6 DEF Next, AllocSearch

\* Table, counter and search behave like the abstract set of buffers: an
\* allocation is one step that takes the lowest aligned free place, and is
\* refused only for want of a place, a slot or a handle.
THEOREM PoolIsStore == Spec => ImplementsStore
<1>1. Init => Store!Init /\ StoreInv
  BY DEF Init, Store!Init, StoreInv, Busy, Free
<1>2. IndInv /\ StoreInv /\ [Next]_vars => StoreInv'
  BY StoreInvStep
<1>3. IndInv /\ StoreInv /\ IndInv' /\ [Next]_vars => [Store!Next]_(Store!vars)
  BY StoreStep DEF Store!vars, Live
<1> QED BY <1>1, <1>2, <1>3, Invariance, PTL DEF Spec, ImplementsStore, Store!Spec
=============================================================================
