-------------------------------- MODULE Gmmu --------------------------------
(***************************************************************************)
(* Page tables built by the host in VRAM: nv_gmmu_range_plan and           *)
(* nv_gmmu_range_build for the driver's own address space, and the         *)
(* one-branch nv_gmmu_map_range, both of driver/gsp/gmmu.c, against the    *)
(* walk the GPU makes over them.                                           *)
(*                                                                         *)
(* VRAM is a map from words of 64 bit to values and holds junk that looks  *)
(* like valid entries: tables count only if they were cleared first.  The  *)
(* encoding of entries is kept: address, valid bit and aperture.           *)
(***************************************************************************)
EXTENDS GmmuLayout

CONSTANTS
    Vas, Sizes,  \* first pages and numbers of pages that are mapped
    Places       \* where tables and data are put

ASSUME InputAssumption == /\ Vas \subseteq Nat /\ Sizes \subseteq Nat /\ Places \subseteq Nat
                          /\ 0 \in Places

VARIABLES
    vram,              \* [page, word] -> value
    range, phys,       \* nv_gmmu_range, and where its data is
    one_branch,        \* nv_gmmu_map_range: one table per level
    pc, level, i,      \* progress of the build
    rc

gvars == <<vram, range, phys, one_branch, pc, level, i, rc>>

-----------------------------------------------------------------------------
(* Entries *)

\* phys >> 4 with the flags: bit 0 valid, bits 2:1 aperture (1 for a table in
\* VRAM, 0 for a page there).
make_pte_vram(p) == 256 * p + 1
make_pde_vram(p) == 256 * p + 2

Junk == 3          \* both bits set, address 0

\* PD0, the level above the leaf, has entries of two words; the small page
\* half is the second.
Stride(l)   == IF l = Leaf - 1 THEN 2 ELSE 1
SmallOff(l) == IF l = Leaf - 1 THEN 1 ELSE 0

Words == 0 .. 2 * (CHOOSE m \in {Entries[l] : l \in Level} : \A l \in Level : Entries[l] <= m) - 1
Word(page, l, index) == <<page, index * Stride(l) + SmallOff(l)>>

-----------------------------------------------------------------------------
(* The GPU's walk (external): -1 is a fault.                               *)

Fault == -1
Below(l) == IF l = Leaf THEN 1 ELSE Span[l + 1]
IndexOf(v, l) == (v \div Below(l)) % Entries[l]

Walk(v) ==
    LET entry(t, l) == vram[Word(t, l, IndexOf(v, l))]
        table[l \in Level] ==
            IF l = 0 THEN range.table_phys
            ELSE LET up == table[l - 1]
                 IN  IF up # Fault /\ (entry(up, l - 1) \div 2) % 4 = 1
                     THEN entry(up, l - 1) \div 256 ELSE Fault
        t == table[Leaf]
    IN  IF t # Fault /\ entry(t, Leaf) % 2 = 1 THEN entry(t, Leaf) \div 256 ELSE Fault

-----------------------------------------------------------------------------
NoRange == [va |-> 0, n |-> 0, table_phys |-> 0, table_bytes |-> 0,
            level_phys |-> [l \in Level |-> 0], level_count |-> [l \in Level |-> 0]]

GmmuInit ==
    /\ vram = [w \in (0 .. PhysEnd - 1) \X Words |-> Junk]
    /\ range = NoRange /\ phys = 0 /\ one_branch = FALSE
    /\ pc = "idle" /\ level = 0 /\ i = 0 /\ rc = 0

Overlaps(a, n, b, k) == a < b + k /\ b < a + n

\* nv_gmmu_range_plan, with the room there is for tables.
RangePlan(va, n, tab, capacity) ==
    /\ pc = "idle"
    /\ IF RangeInvalid(va, n, tab)
       THEN range' = NoRange /\ rc' = -1 /\ UNCHANGED pc
       ELSE /\ range' = range_plan(va, n, tab)
            /\ rc' = IF capacity < TableBytes(va, n) THEN -2 ELSE 0
            /\ pc' = IF rc' = 0 THEN "planned" ELSE "idle"
    /\ UNCHANGED <<vram, phys, one_branch, level, i>>

\* nv_gmmu_range_build is given a plan as it was made; what else it checks.
BuildInvalid(ph) ==
    \/ ph >= PhysEnd \/ range.n > PhysEnd - ph
    \/ Overlaps(ph, range.n, range.table_phys, range.table_bytes)

RangeBuild(ph) ==
    /\ pc = "planned"
    /\ IF BuildInvalid(ph)
       THEN pc' = "idle" /\ rc' = -1 /\ UNCHANGED <<phys, level, i>>
       ELSE pc' = "zero" /\ rc' = 0 /\ phys' = ph /\ level' = 0 /\ i' = 0
    /\ UNCHANGED <<vram, range, one_branch>>

CrossesLeaf(va, n) == IndexOf(va, Leaf) + n > Entries[Leaf]

\* nv_gmmu_map_range: five tables, one behind the other; bring-up puts them
\* behind the data.
MapRange(va, n, ph) ==
    /\ pc = "idle" /\ n > 0 /\ ph + n + Levels <= PhysEnd
    /\ IF CrossesLeaf(va, n)
       THEN rc' = -1 /\ UNCHANGED <<range, phys, one_branch, pc, level, i>>
       ELSE /\ range' = [va |-> va, n |-> n, table_phys |-> ph + n, table_bytes |-> Levels,
                         level_phys |-> [l \in Level |-> ph + n + l],
                         level_count |-> [l \in Level |-> 1]]
            /\ phys' = ph /\ one_branch' = TRUE
            /\ pc' = "zero" /\ level' = 0 /\ i' = 0 /\ rc' = 0
    /\ UNCHANGED vram

\* The words cleared in the next table: all of the page, or as many as the
\* level has entries.
ZeroWords ==
    LET p == range.table_phys + i
    IN  IF one_branch THEN {<<p, w>> : w \in 0 .. Entries[i] * Stride(i) - 1}
                      ELSE {<<p, w>> : w \in Words}

ZeroTable ==
    /\ pc = "zero" /\ i < range.table_bytes
    /\ vram' = [w \in DOMAIN vram |-> IF w \in ZeroWords THEN 0 ELSE vram[w]]
    /\ i' = i + 1
    /\ UNCHANGED <<range, phys, one_branch, pc, level, rc>>

ZeroDone ==
    /\ pc = "zero" /\ i = range.table_bytes
    /\ pc' = "pde" /\ level' = 1 /\ i' = 0
    /\ UNCHANGED <<vram, range, phys, one_branch, rc>>

\* The table above the n-th one of a level: by the interval that one covers.
ParentTable(child, n) ==
    LET first == range.va \div Span[child]
    IN  range.level_phys[child - 1]
          + ((first + n) * Span[child]) \div Span[child - 1] - range.va \div Span[child - 1]

ParentIndex(child, n) == (range.va \div Span[child] + n) % Entries[child - 1]

\* The entry that points at the i-th table of the level.
WritePde ==
    /\ pc = "pde" /\ level < Levels /\ ~one_branch
    /\ vram' = [vram EXCEPT ![Word(ParentTable(level, i), level - 1, ParentIndex(level, i))] =
                   make_pde_vram(range.level_phys[level] + i)]
    /\ IF i + 1 < range.level_count[level]
       THEN i' = i + 1 /\ UNCHANGED level
       ELSE i' = 0 /\ level' = level + 1
    /\ UNCHANGED <<range, phys, one_branch, pc, rc>>

\* gmmu_write_pde_chain: one entry per level, by the address alone; the other
\* half of the double entry of PD0 is cleared once more.
WritePdeChain ==
    /\ pc = "pde" /\ level < Levels /\ one_branch
    /\ LET up == range.level_phys[level - 1]
           w  == Word(up, level - 1, IndexOf(range.va, level - 1))
       IN  vram' = [x \in DOMAIN vram |->
                      IF x = w THEN make_pde_vram(range.level_phys[level])
                      ELSE IF level = Leaf /\ x = <<up, w[2] - 1>> THEN 0 ELSE vram[x]]
    /\ level' = level + 1
    /\ UNCHANGED <<range, phys, one_branch, pc, i, rc>>

PdeDone ==
    /\ pc = "pde" /\ level = Levels
    /\ pc' = "pte" /\ i' = 0
    /\ UNCHANGED <<vram, range, phys, one_branch, level, rc>>

LeafTable(v) == range.level_phys[Leaf] + v \div Span[Leaf] - range.va \div Span[Leaf]

WritePte ==
    /\ pc = "pte" /\ i < range.n
    /\ LET v == range.va + i IN
         vram' = [vram EXCEPT ![Word(LeafTable(v), Leaf, IndexOf(v, Leaf))] =
                     make_pte_vram(phys + i)]
    /\ i' = i + 1
    /\ UNCHANGED <<range, phys, one_branch, pc, level, rc>>

PteDone ==
    /\ pc = "pte" /\ i = range.n /\ pc' = "built"
    /\ UNCHANGED <<vram, range, phys, one_branch, level, i, rc>>

Step ==
    ZeroTable \/ ZeroDone \/ WritePde \/ WritePdeChain \/ PdeDone \/ WritePte \/ PteDone

\* Ranges and places of any kind, as the unit tests give them.
GmmuNext ==
    \/ \E va \in Vas, n \in Sizes, tab \in Places, short \in {0, 1} :
         RangePlan(va, n, tab, TableBytes(va, n) - short)
    \/ \E ph \in Places : RangeBuild(ph)
    \/ \E va \in Vas, n \in Sizes, ph \in Places : va < VaEnd /\ MapRange(va, n, ph)
    \/ Step

-----------------------------------------------------------------------------
(* Properties *)

InRange(v) == range.va <= v /\ v < range.va + range.n

\* The finished tables translate every page of the range to its page of VRAM
\* and fault everywhere else, across every boundary between tables.  From the
\* moment the tables are cleared, no walk over the half built ones gets to a
\* wrong page: it faults, or gets to the right one.
MappedExactly ==
    pc \in {"pde", "pte", "built"} =>
        \A v \in 0 .. VaEnd - 1 :
            \/ InRange(v) /\ Walk(v) = phys + (v - range.va)
            \/ (InRange(v) => pc # "built") /\ Walk(v) = Fault
=============================================================================
