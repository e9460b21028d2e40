----------------------------- MODULE GmmuLayout -----------------------------
(***************************************************************************)
(* The geometry of the GPU's page tables and the layout of the tables for  *)
(* a range, nv_gmmu_range_plan of driver/gsp/gmmu.c.                       *)
(*                                                                         *)
(* Addresses, virtual and physical, are page numbers.  A table of any      *)
(* level takes one page.  The shifts and masks of the code are quotients   *)
(* and remainders: all spans and sizes are powers of two.                  *)
(***************************************************************************)
EXTENDS Integers

CONSTANTS
    Levels,    \* NV_GMMU_LEVELS, from PD3 at 0 to the SPT
    Entries,   \* range_entries: entries of a table of each level
    Span,      \* 1 << (range_shift - 12): pages a table of each level covers
    PhysEnd    \* PRAMIN_PHYS_END

Level == 0 .. Levels - 1
Leaf  == Levels - 1

ASSUME LevelAssumption ==
    /\ Levels \in Nat \ {0, 1} /\ PhysEnd \in Nat
    /\ Entries \in [Level -> Nat \ {0}] /\ Span \in [Level -> Nat \ {0}]
ASSUME SpanAssumption ==
    /\ Span[Leaf] = Entries[Leaf]
    /\ \A l \in 0 .. Leaf - 1 : Span[l] = Entries[l] * Span[l + 1]

VaEnd == Span[0]

\* Mutant: a range that is not aligned to the table gets one too few.
TableCount_Size(va, n, l) == (n - 1) \div Span[l] + 1

\* The tables of a level that n pages from va need.
TableCount(va, n, l) == (va + n - 1) \div Span[l] - va \div Span[l] + 1

\* Tables above level l.
TablesAbove(va, n, l) ==
    LET sum[k \in 0 .. Levels] == IF k = 0 THEN 0 ELSE sum[k - 1] + TableCount(va, n, k - 1)
    IN  sum[l]

TableBytes(va, n) == TablesAbove(va, n, Levels)

\* Arguments the plan refuses, table_bytes of the result included.
RangeInvalid(va, n, tab) ==
    \/ n = 0 \/ va >= VaEnd \/ n > VaEnd - va
    \/ n > PhysEnd \/ tab >= PhysEnd
    \/ TableBytes(va, n) > PhysEnd - tab

\* The level tables one after another from tab.
range_plan(va, n, tab) ==
    [va |-> va, n |-> n, table_phys |-> tab, table_bytes |-> TableBytes(va, n),
     level_phys  |-> [l \in Level |-> tab + TablesAbove(va, n, l)],
     level_count |-> [l \in Level |-> TableCount(va, n, l)]]
=============================================================================
