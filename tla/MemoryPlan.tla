----------------------------- MODULE MemoryPlan -----------------------------
(***************************************************************************)
(* Where the driver's video memory comes from: nv_gsp_memory_plan          *)
(* (driver/gsp/gsp_memory.c) with its first-fit search nv_vram_find_range  *)
(* (driver/gsp/vram.c), and the older choice of a single megabyte in       *)
(* nv_gsp_bringup; then the page tables of module Gmmu on top.             *)
(*                                                                         *)
(* As in Gmmu, addresses and sizes are pages.  What the firmware reports   *)
(* is a sequence of regions [base, limit, reserved, prot].                 *)
(***************************************************************************)
EXTENDS Gmmu, Sequences, FiniteSetsExt

CONSTANTS
    ServicePages,   \* NV_GSP_SERVICE_BYTES
    ChannelPages,   \* NV_GSP_CHANNEL_BYTES
    AppVa,          \* NV_GSP_APP_VA_BASE
    MinApp, MaxApp, \* limits on the size of the pool
    Align,          \* 0x10000, the alignment of what is searched for
    LowEnd,         \* 0x20000000, the end of what display and console use
    Deep,           \* 0x10000000, how far up the older choice looks first
    MaxRegions,     \* NV_GSP_FBREGION_MAX
    U64Max,         \* the largest address
    RegionLists,    \* what the firmware may report
    AppSizes,       \* sizes of the pool that are asked for
    Extras          \* the console's area, of size 0 if there is none

ASSUME SizeAssumption ==
    /\ {ServicePages, ChannelPages, Align} \subseteq Nat \ {0}
    /\ {AppVa, MinApp, MaxApp, Deep, MaxRegions, U64Max} \subseteq Nat
    /\ AppVa < VaEnd /\ LowEnd \in 1 .. U64Max /\ (U64Max + 1) % Align = 0

\* A report of regions, and an area of video memory.
Reports == Seq([base : 0 .. U64Max, limit : 0 .. U64Max, reserved : BOOLEAN, prot : BOOLEAN])
Spans   == [base : 0 .. U64Max, size : 0 .. U64Max]

ASSUME ListAssumption ==
    (\A rs \in RegionLists : rs \in Reports) /\ Extras \subseteq Spans /\ AppSizes \subseteq Nat

VARIABLES
    mpc,            \* "idle", "check", "search", "planned", "refused"; "legacy", "none"
    regions, app, extra,   \* the arguments
    available,      \* usable spans, in the firmware's order
    k, candidate,   \* progress of the loops
    owned           \* where the driver's memory begins

mvars == <<mpc, regions, app, extra, available, k, candidate, owned>>
vars  == <<gvars, mvars>>

Init ==
    /\ GmmuInit
    /\ mpc = "idle" /\ regions = <<>> /\ app = 0 /\ extra = [base |-> 0, size |-> 0]
    /\ available = <<>> /\ k = 0 /\ candidate = 0 /\ owned = 0

-----------------------------------------------------------------------------
(* nv_gsp_memory_plan *)

mapped == ServicePages + app
total  == mapped + TableBytes(AppVa, mapped) + ChannelPages

BadPlan(rs, n) ==
    \/ Len(rs) \notin 1 .. MaxRegions
    \/ n < MinApp \/ n > MaxApp \/ n % Align # 0
    \/ RangeInvalid(AppVa, ServicePages + n, 0)

Refuse(code) == mpc' = "refused" /\ rc' = code

PlanMemory(rs, n, e) ==
    /\ mpc = "idle" /\ pc = "idle" /\ range = NoRange
    /\ regions' = rs /\ app' = n /\ extra' = e
    /\ IF BadPlan(rs, n) THEN Refuse(-1) /\ UNCHANGED k
       ELSE mpc' = "check" /\ k' = 1 /\ UNCHANGED rc
    /\ UNCHANGED <<vram, range, phys, one_branch, pc, level, i, available, candidate, owned>>

\* A report that makes no sense is not used at all.
Inconsistent(r) ==
    \/ r.base > r.limit \/ r.limit >= PhysEnd
    \/ \E j \in 1 .. k - 1 : r.base <= regions[j].limit /\ regions[j].base <= r.limit

Usable(r) == ~r.reserved /\ ~r.prot

CheckRegion ==
    /\ mpc = "check" /\ k <= Len(regions)
    /\ LET r == regions[k] IN
         IF Inconsistent(r) THEN Refuse(-1) /\ UNCHANGED <<available, k>>
         ELSE /\ available' = IF Usable(r)
                                THEN Append(available, [base |-> r.base,
                                                        size |-> r.limit - r.base + 1])
                                ELSE available
              /\ k' = k + 1 /\ UNCHANGED <<mpc, rc>>
    /\ UNCHANGED <<vram, range, phys, one_branch, pc, level, i, regions, app, extra, candidate,
                   owned>>

-----------------------------------------------------------------------------
(* nv_vram_find_range *)

span_valid(s) == s.size # 0 /\ s.size <= U64Max - s.base

align_up_fails(v) == v > U64Max - (Align - 1)
align_up(v) == ((v + Align - 1) \div Align) * Align

excluded == {[base |-> 0, size |-> LowEnd]} \cup (IF extra.size > 0 THEN {extra} ELSE {})

\* The arguments are looked at, then the first span is entered.
FindRange ==
    /\ mpc = "check" /\ k > Len(regions)
    /\ IF available = <<>> THEN Refuse(-2) /\ UNCHANGED <<k, candidate>>
       ELSE IF \E s \in excluded : ~span_valid(s) THEN Refuse(-1) /\ UNCHANGED <<k, candidate>>
       ELSE mpc' = "search" /\ k' = 1 /\ candidate' = align_up(available[1].base) /\ UNCHANGED rc
    /\ UNCHANGED <<vram, range, phys, one_branch, pc, level, i, regions, app, extra, available,
                   owned>>

SpanEnd == available[k].base + available[k].size

\* Mutant: a place that ends where the span ends is not taken.
Fits_Strict == candidate <= SpanEnd /\ total < SpanEnd - candidate

Fits == candidate <= SpanEnd /\ total <= SpanEnd - candidate

\* Mutant: an area inside the candidate is not seen.
Hit_AtStart == {s \in excluded : candidate < s.base + s.size /\ s.base <= candidate}

Hit == {s \in excluded : candidate < s.base + s.size /\ s.base < candidate + total}

\* What was found is cut: service pages, application, tables, channel; the
\* tables are planned where they are to be.
Take ==
    /\ mpc = "search" /\ Fits /\ Hit = {}
    /\ owned' = candidate /\ mpc' = "planned"
    /\ range' = range_plan(AppVa, mapped, candidate + mapped)
    /\ rc' = 0 /\ pc' = "planned"
    /\ UNCHANGED <<vram, phys, one_branch, level, i, regions, app, extra, available, k, candidate>>

\* The search moves on, behind what is in the way; if that is out of reach it
\* goes on to the next span as at the end of one.
NextSpan ==
    IF k < Len(available)
    THEN k' = k + 1 /\ candidate' = align_up(available[k + 1].base) /\ UNCHANGED <<mpc, rc>>
    ELSE Refuse(-2) /\ UNCHANGED <<k, candidate>>

SkipExcluded ==
    /\ mpc = "search" /\ Fits /\ Hit # {}
    /\ LET next == Max({s.base + s.size : s \in Hit})
       IN  IF align_up_fails(next) THEN NextSpan
           ELSE candidate' = align_up(next) /\ UNCHANGED <<mpc, k, rc>>
    /\ UNCHANGED <<vram, range, phys, one_branch, pc, level, i, regions, app, extra, available,
                   owned>>

LeaveSpan ==
    /\ mpc = "search" /\ ~Fits
    /\ NextSpan
    /\ UNCHANGED <<vram, range, phys, one_branch, pc, level, i, regions, app, extra, available,
                   owned>>

service_phys == owned
app_phys     == owned + ServicePages
channel_phys == range.table_phys + range.table_bytes

-----------------------------------------------------------------------------
(* Without a pool: one megabyte of the first usable region with room, well   *)
(* inside it if possible; its tables go behind it.                           *)

Base(r)       == ((r.base + ServicePages - 1) \div ServicePages) * ServicePages
RoomAt(r, at) == at + ServicePages - 1 <= r.limit
HasRoom(r)    == Usable(r) /\ RoomAt(r, Base(r))

ChooseLegacy(rs) ==
    /\ mpc = "idle" /\ pc = "idle" /\ range = NoRange
    /\ regions' = rs
    /\ \/ \E j \in 1 .. Len(rs) :
            /\ HasRoom(rs[j]) /\ \A x \in 1 .. j - 1 : ~HasRoom(rs[x])
            /\ owned' = IF RoomAt(rs[j], Base(rs[j]) + Deep) THEN Base(rs[j]) + Deep
                                                            ELSE Base(rs[j])
            /\ mpc' = "legacy"
       \/ (\A j \in 1 .. Len(rs) : ~HasRoom(rs[j])) /\ mpc' = "none" /\ UNCHANGED owned
    /\ UNCHANGED <<gvars, app, extra, available, k, candidate>>

-----------------------------------------------------------------------------
\* Ranges of any kind, or one the firmware's report led to.
Next ==
    \/ mpc = "idle" /\ GmmuNext /\ UNCHANGED mvars
    \/ \E rs \in RegionLists, n \in AppSizes, e \in Extras : PlanMemory(rs, n, e)
    \/ \E rs \in RegionLists : ChooseLegacy(rs)
    \/ CheckRegion \/ FindRange \/ Take \/ SkipExcluded \/ LeaveSpan
    \/ mpc = "planned" /\ (RangeBuild(service_phys) \/ Step) /\ UNCHANGED mvars
    \/ mpc = "legacy" /\ (MapRange(AppVa, ServicePages, owned) \/ Step) /\ UNCHANGED mvars

Spec == Init /\ [][Next]_vars

-----------------------------------------------------------------------------
(* Properties *)

Parts == {<<service_phys, ServicePages>>, <<app_phys, app>>,
          <<range.table_phys, range.table_bytes>>, <<channel_phys, ChannelPages>>}

GoodRegions == {r \in {regions[j] : j \in 1 .. Len(regions)} : ~r.reserved /\ ~r.prot}

\* The four parts of the driver's memory are apart from each other, inside one
\* usable region, and clear of the low memory and of the console; and the
\* build that follows accepts them.  Without a pool that much is true of the
\* megabyte alone.
LayoutIsSafe ==
    /\ mpc = "planned" =>
         /\ \A p, q \in Parts : p # q => ~Overlaps(p[1], p[2], q[1], q[2])
         /\ \A p \in Parts : \A s \in excluded : ~Overlaps(p[1], p[2], s.base, s.size)
         /\ \E r \in GoodRegions : \A p \in Parts : r.base <= p[1] /\ p[1] + p[2] - 1 <= r.limit
         /\ rc = 0
    /\ mpc = "legacy" =>
         \E r \in GoodRegions : r.base <= owned /\ owned + ServicePages - 1 <= r.limit

\* That there is no room (-2) is said only if no aligned place in any usable
\* region is free for all of it, and a sound report is never thrown away.
NoSpaceJustified ==
    mpc = "refused" =>
        /\ rc = -2 => \A c \in 0 .. PhysEnd - 1 : \A r \in GoodRegions :
              c % Align = 0 /\ r.base <= c /\ c + total - 1 <= r.limit
                => \E s \in excluded : Overlaps(c, total, s.base, s.size)
        /\ rc = -1 /\ ~BadPlan(regions, app) =>
              \/ extra.size # 0 /\ ~span_valid(extra)
              \/ \E a, b \in 1 .. Len(regions) :
                   \/ regions[a].base > regions[a].limit \/ regions[a].limit >= PhysEnd
                   \/ a # b /\ regions[a].base <= regions[b].limit
                            /\ regions[b].base <= regions[a].limit
=============================================================================
