---------------------------- MODULE BufferStore -----------------------------
(***************************************************************************)
(* What the pool of application VRAM promises its owner, without tables,   *)
(* counters or a search: a set of live buffers, each a range of the pool   *)
(* under a handle of its own.  An allocation is one step that takes the    *)
(* lowest place whose GPU address is aligned, and is refused only when     *)
(* there is no such place or a limit of the table is reached.              *)
(***************************************************************************)
EXTENDS Integers, FiniteSets

CONSTANTS U64Max, HandleMax, PAGE_BYTES, MAX_ALLOCS, InitArgs, Requests

VARIABLES va, size, live, issued, reply

vars == <<va, size, live, issued, reply>>

Answer(op, code, handle) == reply' = [op |-> op, code |-> code, handle |-> handle]

\* issued is the number of handles given out; -1 before the pool is open.
Init == /\ va = 0 /\ size = 0 /\ live = {} /\ issued = -1
        /\ reply = [op |-> "none", code |-> 0, handle |-> 0]

Open(v, n) ==
    /\ size = 0 /\ n > 0 /\ v + n <= U64Max
    /\ va' = v /\ size' = n /\ issued' = 0
    /\ Answer("init", 0, 0)
    /\ UNCHANGED live

\* A byte of the pool is taken when a live buffer covers it.
Taken(x) == \E b \in live : b.offset <= x /\ x < b.offset + b.size

Place(o, n, a) == /\ o + n <= size
                  /\ (va + o) % a = 0
                  /\ \A x \in o .. o + n - 1 : ~Taken(x)

\* The length a request is rounded to: whole pages.
IsRounded(n, b) == n % PAGE_BYTES = 0 /\ b <= n /\ n < b + PAGE_BYTES

Grant(o, n, a) ==
    /\ Place(o, n, a)
    /\ \A p \in 0 .. o - 1 : ~Place(p, n, a)
    /\ Cardinality(live) < MAX_ALLOCS
    /\ issued + 1 < HandleMax
    /\ live' = live \cup {[handle |-> issued + 1, offset |-> o, size |-> n]}
    /\ issued' = issued + 1
    /\ Answer("alloc", 0, issued + 1)
    /\ UNCHANGED <<va, size>>

Refuse(n, a) ==
    /\ \/ \A o \in 0 .. size : ~Place(o, n, a)
       \/ Cardinality(live) = MAX_ALLOCS
       \/ issued + 1 = HandleMax
    /\ Answer("alloc", -2, 0)
    /\ UNCHANGED <<va, size, live, issued>>

Alloc(b, a) ==
    \E n \in PAGE_BYTES .. U64Max :
        /\ size > 0 /\ b > 0 /\ a >= PAGE_BYTES /\ IsRounded(n, b)
        /\ \/ \E o \in 0 .. size : Grant(o, n, a)
           \/ Refuse(n, a)

Release(h) ==
    /\ \E b \in live : b.handle = h /\ live' = live \ {b}
    /\ Answer("free", 0, 0)
    /\ UNCHANGED <<va, size, issued>>

\* An operation with arguments it does not accept changes nothing.
Reject(op) == Answer(op, -1, 0) /\ UNCHANGED <<va, size, live, issued>>

Next ==
    \/ \E args \in InitArgs : Open(args[2], args[3])
    \/ \E r \in Requests : Alloc(r[1], r[2])
    \/ \E h \in 1 .. HandleMax : Release(h)
    \/ \E op \in {"init", "alloc", "free"} : Reject(op)

Spec == Init /\ [][Next]_vars
=============================================================================
