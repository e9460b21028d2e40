------------------------------ MODULE VramPool ------------------------------
(***************************************************************************)
(* The pool of application VRAM: driver/gsp/vram.c, nv_vram_pool_init,     *)
(* nv_vram_alloc, nv_vram_free and nv_vram_resolve.                        *)
(*                                                                         *)
(* One caller at a time uses a pool (vram.h: the owner serialises), so an  *)
(* operation is a step of its own, except nv_vram_alloc, whose first-fit   *)
(* loop is kept: AllocEnter is the part before the loop and AllocSearch    *)
(* one iteration of it.  Amounts are u64 values: sums and differences wrap *)
(* at U64Max, so that an unguarded sum would be seen to wrap.              *)
(***************************************************************************)
EXTENDS Integers, FiniteSets

CONSTANTS
    U64Max,      \* UINT64_MAX, the largest address, length or offset
    HandleMax,   \* UINT64_MAX as the limit of next_handle
    PAGE_BYTES,  \* NV_VRAM_PAGE_BYTES
    MAX_ALLOCS,  \* NV_VRAM_MAX_ALLOCS, the slots of the table
    InitArgs,    \* the <<phys, va, size>> a caller may pass to pool_init
    Requests     \* the <<bytes, alignment>> a caller may pass to alloc

U64 == 0 .. U64Max

IsPowerOfTwo(a) == a > 0 /\ \A d \in 1 .. a : a % d = 0 => d = 1 \/ d % 2 = 0

\* U64Max + 1 is a power of two: every smaller one divides it.
ASSUME WidthAssumption  == /\ U64Max \in Nat
                           /\ \A a \in U64 : IsPowerOfTwo(a) => (U64Max + 1) % a = 0
ASSUME HandleAssumption == HandleMax \in Nat \ {0}
ASSUME PageAssumption   == PAGE_BYTES \in 1 .. U64Max
ASSUME SlotAssumption   == MAX_ALLOCS \in Nat
ASSUME InputAssumption  == /\ InitArgs \subseteq U64 \X U64 \X U64
                           /\ Requests \subseteq U64 \X U64

VARIABLES
    phys, va, size,   \* the pool's range in VRAM and in the GPU's VA space
    used,             \* bytes handed out
    next_handle,      \* the handle the next allocation gets
    allocations,      \* the table, a slot with handle 0 is free
    pc,               \* "idle", or "search" inside the loop of alloc
    bytes, alignment, \* the request being served (bytes after rounding)
    slot, candidate,  \* locals of alloc
    reply             \* what the last operation returned

pool == <<phys, va, size, used, next_handle, allocations>>
vars == <<phys, va, size, used, next_handle, allocations,
          pc, bytes, alignment, slot, candidate, reply>>

Slots == 0 .. MAX_ALLOCS - 1

\* A sum or difference of two u64 values.
Wrap(x) == IF x > U64Max THEN x - (U64Max + 1)
           ELSE IF x < 0 THEN x + (U64Max + 1) ELSE x

span_valid(base, len) == len # 0 /\ len <= U64Max - base

alignment_valid(a) == a >= PAGE_BYTES /\ IsPowerOfTwo(a)

\* Mutant: the guard refuses one value too many.
align_up_fails_Early(v, a) == v >= U64Max - (a - 1)

\* align_up fails when the sum it starts from does not fit.
align_up_fails(v, a) == v > U64Max - (a - 1)
align_up(v, a)       == (v + a - 1) - ((v + a - 1) % a)

Free == [handle |-> 0, offset |-> 0, size |-> 0]

Init ==
    /\ phys = 0 /\ va = 0 /\ size = 0 /\ used = 0 /\ next_handle = 0
    /\ allocations = [s \in Slots |-> Free]
    /\ pc = "idle" /\ bytes = 0 /\ alignment = 0 /\ slot = 0 /\ candidate = 0
    /\ reply = [op |-> "none", code |-> 0, handle |-> 0]

\* A return: the locals are gone.
Return(op, code, handle) ==
    /\ pc' = "idle" /\ slot' = 0 /\ candidate' = 0
    /\ reply' = [op |-> op, code |-> code, handle |-> handle]

NoRequest == bytes' = 0 /\ alignment' = 0

-----------------------------------------------------------------------------
(* nv_vram_pool_init, called once for a pool (vram.h). *)

PoolArgsValid(ph, v, n) ==
    /\ ph % PAGE_BYTES = 0 /\ v % PAGE_BYTES = 0 /\ n % PAGE_BYTES = 0
    /\ span_valid(ph, n)
    /\ span_valid(v, n)

PoolInit(ph, v, n) ==
    /\ pc = "idle" /\ size = 0
    /\ IF PoolArgsValid(ph, v, n)
         THEN /\ phys' = ph /\ va' = v /\ size' = n
              /\ used' = 0 /\ next_handle' = 1
              /\ allocations' = [s \in Slots |-> Free]
              /\ Return("init", 0, 0)
         ELSE /\ Return("init", -1, 0)
              /\ UNCHANGED pool
    /\ NoRequest

-----------------------------------------------------------------------------
(* nv_vram_alloc *)

Busy(s) == allocations[s].handle # 0
End(s)  == Wrap(allocations[s].offset + allocations[s].size)

BadRequest(b, a) ==
    size = 0 \/ b = 0 \/ ~alignment_valid(a) \/ align_up_fails(b, PAGE_BYTES)

NoHandle == next_handle = 0 \/ next_handle = HandleMax
NoSlot   == \A s \in Slots : Busy(s)

\* The part before the loop: every early return, then the first candidate,
\* which is where the GPU address, and not the offset, is aligned.
AllocEnter(b, a) ==
    /\ pc = "idle"
    /\ bytes' = align_up(b, PAGE_BYTES)
    /\ alignment' = a
    /\ UNCHANGED pool
    /\ \/ /\ BadRequest(b, a)
          /\ Return("alloc", -1, 0)
       \/ /\ ~BadRequest(b, a)
          /\ \/ NoHandle
             \/ used > size
             \/ bytes' > Wrap(size - used)
             \/ NoSlot
             \/ align_up_fails(va, a)
          /\ Return("alloc", -2, 0)
       \/ /\ ~BadRequest(b, a)
          /\ ~NoHandle /\ used <= size /\ bytes' <= Wrap(size - used)
          /\ ~align_up_fails(va, a)
          /\ \E s \in Slots : /\ ~Busy(s)
                              /\ \A t \in 0 .. s - 1 : Busy(t)
                              /\ slot' = s
          /\ candidate' = Wrap(align_up(va, a) - va)
          /\ pc' = "search"
          /\ UNCHANGED reply

\* Mutant: only what covers the candidate itself is seen.
Blocking_AtStart == {s \in Slots : /\ Busy(s)
                                   /\ candidate < End(s)
                                   /\ allocations[s].offset <= candidate}

\* The allocations that the candidate range runs into.
Blocking == {s \in Slots : /\ Busy(s)
                           /\ candidate < End(s)
                           /\ allocations[s].offset < Wrap(candidate + bytes)}

\* Mutant: off by one.
InRange_Strict == candidate <= size /\ bytes < Wrap(size - candidate)

InRange == candidate <= size /\ bytes <= Wrap(size - candidate)

NewAllocation == [handle |-> next_handle, offset |-> candidate, size |-> bytes]

\* The candidate is free: take it.
Take ==
    /\ InRange
    /\ \A s \in Blocking : End(s) <= candidate
    /\ allocations' = [allocations EXCEPT ![slot] = NewAllocation]
    /\ next_handle' = next_handle + 1
    /\ used' = Wrap(used + bytes)
    /\ Return("alloc", 0, NewAllocation.handle)
    /\ NoRequest
    /\ UNCHANGED <<phys, va, size>>

\* It is not: go on from the farthest end of what is in the way.
SkipBlocking ==
    /\ InRange
    /\ \E s \in Blocking :
         /\ End(s) > candidate
         /\ \A t \in Blocking : End(t) <= End(s)
         /\ LET next == Wrap(va + End(s)) IN
              \/ /\ align_up_fails(next, alignment)
                 /\ Return("alloc", -2, 0)
              \/ /\ ~align_up_fails(next, alignment)
                 /\ candidate' = Wrap(align_up(next, alignment) - va)
                 /\ UNCHANGED <<pc, slot, reply>>
    /\ UNCHANGED <<bytes, alignment>>
    /\ UNCHANGED pool

PastEnd ==
    /\ ~InRange
    /\ Return("alloc", -2, 0)
    /\ UNCHANGED <<bytes, alignment>>
    /\ UNCHANGED pool

\* Mutant: the search does not move on from what is in the way.
AllocSearch_Stuck ==
    /\ pc = "search"
    /\ Take \/ PastEnd \/ (InRange /\ Blocking # {} /\ UNCHANGED vars)

AllocSearch == pc = "search" /\ (Take \/ SkipBlocking \/ PastEnd)

-----------------------------------------------------------------------------
(* nv_vram_free: the first slot that holds the handle. *)

Holds(s, h) == allocations[s].handle = h
FirstHolding(s, h) == Holds(s, h) /\ \A t \in 0 .. s - 1 : ~Holds(t, h)

\* Mutant: the counter is forgotten.
UsedWithout_Kept(s) == used

UsedWithout(s) == Wrap(used - allocations[s].size)

FreeHandle(h) ==
    /\ pc = "idle"
    /\ \/ /\ h # 0
          /\ \E s \in Slots :
               /\ FirstHolding(s, h)
               /\ used' = UsedWithout(s)
               /\ allocations' = [allocations EXCEPT ![s] = Free]
          /\ Return("free", 0, 0)
          /\ UNCHANGED <<phys, va, size, next_handle>>
       \/ /\ h = 0 \/ \A s \in Slots : ~Holds(s, h)
          /\ Return("free", -1, 0)
          /\ UNCHANGED pool
    /\ NoRequest

-----------------------------------------------------------------------------
(* nv_vram_resolve reads the table only: the range of GPU addresses        *)
(* [va, va + n) it resolves to, or none.                                   *)

\* Mutant: the offset is not taken off the length that is left.
Resolves_NoOffset(h, o, n) ==
    /\ h # 0 /\ n # 0
    /\ \E s \in Slots : FirstHolding(s, h) /\ n <= allocations[s].size

Resolves(h, o, n) ==
    /\ h # 0 /\ n # 0
    /\ \E s \in Slots : /\ FirstHolding(s, h)
                        /\ o <= allocations[s].size
                        /\ n <= Wrap(allocations[s].size - o)

ResolvedOffset(h, o) ==
    LET s == CHOOSE t \in Slots : FirstHolding(t, h)
    IN  Wrap(Wrap(va + allocations[s].offset) + o)

-----------------------------------------------------------------------------
Next ==
    \/ \E args \in InitArgs : PoolInit(args[1], args[2], args[3])
    \/ \E r \in Requests : AllocEnter(r[1], r[2])
    \/ AllocSearch
    \/ \E h \in 0 .. HandleMax : FreeHandle(h)

Spec == Init /\ [][Next]_vars

\* The loop ends: its owner waits for the call to return.
FairSpec == Spec /\ WF_vars(AllocSearch)

-----------------------------------------------------------------------------
(* Properties *)

Allocation == [handle : 0 .. HandleMax, offset : U64, size : U64]

TypeOK ==
    /\ phys \in U64 /\ va \in U64 /\ size \in U64 /\ used \in U64
    /\ next_handle \in 0 .. HandleMax
    /\ allocations \in [Slots -> Allocation]
    /\ pc \in {"idle", "search"}
    /\ bytes \in Nat /\ alignment \in U64
    /\ slot \in Nat /\ candidate \in U64
    /\ reply \in [op : {"none", "init", "alloc", "free"},
                  code : {0, -1, -2}, handle : 0 .. HandleMax]

\* The bytes of the pool that live allocations cover, as offsets.
Cells(s) == {x \in U64 : /\ Busy(s)
                         /\ allocations[s].offset <= x
                         /\ x < allocations[s].offset + allocations[s].size}
OwnedCells == UNION {Cells(s) : s \in Slots}

\* Every live allocation lies inside the pool (nv_vram_alloc's loop bound).
InsidePool ==
    \A s \in Slots : Busy(s) =>
        /\ allocations[s].size > 0
        /\ allocations[s].offset + allocations[s].size <= size

\* No byte of VRAM ever belongs to two live allocations.
Disjoint ==
    \A s, t \in Slots : s # t /\ Busy(s) /\ Busy(t) =>
        \/ allocations[s].offset + allocations[s].size <= allocations[t].offset
        \/ allocations[t].offset + allocations[t].size <= allocations[s].offset

\* A live handle names one allocation and is older than the next one.
HandlesUnique ==
    \A s, t \in Slots : Busy(s) =>
        /\ allocations[s].handle < next_handle
        /\ Holds(t, allocations[s].handle) => s = t

\* used, the counter nv_vram_alloc refuses by, is exactly what is live.
UsedExact == used = Cardinality(OwnedCells)

\* The offsets where the last request could be placed.
Room(o) == /\ o + bytes <= size
           /\ (va + o) % alignment = 0
           /\ \A x \in o .. o + bytes - 1 : x \notin OwnedCells

\* "No space" (-2) is never a false alarm of the search, the used counter or
\* the overflow guards: no aligned hole of that size exists, unless the
\* table or the handles have run out.
RefusalJustified ==
    pc = "idle" /\ reply.op = "alloc" /\ reply.code = -2
        => NoSlot \/ NoHandle \/ \A o \in U64 : ~Room(o)

\* The pool's GPU range is a range of u64 values (span_valid in pool_init).
PoolRange == va + size <= U64Max

\* What the loop of nv_vram_alloc keeps true: its candidate is aligned and
\* nothing below it can hold the request.
SearchInv ==
    pc = "search" =>
        /\ slot \in Slots /\ ~Busy(slot) /\ ~NoHandle
        /\ alignment_valid(alignment)
        /\ bytes > 0 /\ bytes <= size
        /\ va + candidate <= U64Max
        /\ (va + candidate) % alignment = 0
        /\ \A o \in 0 .. candidate - 1 : ~Room(o)

\* The inductive invariant of the pool.
IndInv ==
    /\ TypeOK
    /\ InsidePool
    /\ Disjoint
    /\ HandlesUnique
    /\ UsedExact
    /\ PoolRange
    /\ SearchInv
    /\ RefusalJustified

\* GPU addresses that resolving a handle can give.
Reach(h) == {ResolvedOffset(h, o) : o \in {x \in U64 : Resolves(h, x, 1)}}

\* Two handles never resolve to the same GPU address, nor to one outside
\* the pool: what one buffer may touch is nobody else's.
NoAliasing ==
    \A h \in 1 .. HandleMax :
        /\ Reach(h) \subseteq va .. va + size - 1
        /\ \A g \in 1 .. HandleMax : g # h => Reach(g) \cap Reach(h) = {}

\* The table, the counter and the search together behave like a set of
\* buffers from which the lowest free place is taken in one step.
Store == INSTANCE BufferStore WITH
    live <- {allocations[s] : s \in {t \in Slots : Busy(t)}},
    issued <- next_handle - 1
ImplementsStore == Store!Spec

\* Every request is answered: each pass of nv_vram_alloc's loop moves on.
AllocReturns == pc = "search" ~> pc = "idle"
=============================================================================
