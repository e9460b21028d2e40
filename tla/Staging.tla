------------------------------- MODULE Staging -------------------------------
(***************************************************************************)
(* What GSP-RM finds when it starts, built by nv_gsp_bringup before: the   *)
(* arena in system memory with the firmware image, the three-level list of *)
(* its pages, the log buffers and the shared queues (driver/gsp/nv_dma.h,  *)
(* gsp_fw.c, gsp_rpc.c); and the plan of the protected region at the top   *)
(* of VRAM (fb_layout.c, gsp_fw.c).                                        *)
(*                                                                         *)
(* The arena is measured in cells of one 64-bit entry, PerPage to a page.  *)
(* The plan of VRAM is measured in units of 256 bytes, with the sizes of   *)
(* the code; its 64-bit arithmetic wraps at Wraps, which is larger than    *)
(* twice any VRAM or file.                                                 *)
(***************************************************************************)
EXTENDS Integers, Sequences

CONSTANTS
    PerPage,        \* NV_GSP_RADIX3_ENTRIES_PER_PAGE
    Images,         \* sizes of the firmware image
    Capacities,     \* sizes of the arena
    CodeCells,      \* size of the buffers for FWSEC and the Booter
    LogPages,       \* NV_GSP_LIBOS_LOG_SIZE
    QueuePages,     \* NV_GSP_QUEUE_SIZE
    FbSizes,        \* NV_USABLE_FB_SIZE_IN_MB
    Workspaces,     \* the VGA workspace, back from the end of VRAM; 0: none
    BootSizes, ElfSizes,
    Wraps

Up(n, d)   == (n + d - 1) \div d
MiB == 4096
KiB == 4
Queues     == 2 * QueuePages

ASSUME StagingAssumption ==
    /\ {PerPage, CodeCells, LogPages, QueuePages, Wraps} \subseteq Nat \ {0}
    /\ Images \subseteq Nat \ {0}
    /\ (Capacities \cup FbSizes \cup Workspaces \cup BootSizes \cup ElfSizes) \subseteq Nat
    /\ PerPage >= 4                         \* four libos arguments fit a page
    /\ Up(Queues + Up(Queues, PerPage), PerPage) = Up(Queues, PerPage)
    /\ Wraps >= 1024 * MiB
    /\ \A n \in {fb * MiB : fb \in FbSizes} \cup BootSizes \cup ElfSizes : 2 * n <= Wraps

VARIABLES
    spc,     \* where the preparation is
    arena,   \* the cells of the arena
    cap, off, \* nv_dma_arena_t
    at,      \* the regions allocated so far: name to first cell
    image,   \* fwimage_size
    lay      \* nv_gsp_fb_layout_t, with what it was computed from

svars == <<spc, arena, cap, off, at, image, lay>>

Garbage == -1
NoLayout == <<>>

StagingInit ==
    /\ spc = "idle" /\ arena = <<>> /\ cap = 0 /\ off = 0 /\ at = <<>> /\ image = 0
    /\ lay = NoLayout

-----------------------------------------------------------------------------
(* The arena *)

\* Mutant: a last page that is not full is forgotten.
ImagePages_Whole == image \div PerPage

ImagePages == Up(image, PerPage)
lvl2_pages == Up(ImagePages, PerPage)

\* nv_gsp_radix3_levels: the list of the lists must fit one page.
Radix3Levels(n, c) ==
    /\ spc = "idle"
    /\ image' = n /\ cap' = c
    /\ arena' = [x \in 0 .. c - 1 |-> Garbage]
    /\ spc' = IF lvl2_pages' > PerPage THEN "too_large" ELSE "alloc"
    /\ UNCHANGED <<off, at, lay>>

ptes_nr   == Queues + Up(Queues, PerPage)
ptes_size == Up(ptes_nr, PerPage) * PerPage

\* What is allocated, in the order of the code, and how large.
Regions ==
    <<"fwsec", "booter", "fwimg", "lvl2", "lvl1", "lvl0", "bl", "sig", "meta", "libos",
      "loginit", "logintr", "logrm", "rmargs", "shm", "vbios">>

Bytes(r) ==
    CASE r \in {"fwsec", "booter", "vbios"}              -> CodeCells
      [] r = "fwimg"                                     -> image
      [] r = "lvl2"                                      -> lvl2_pages * PerPage
      [] r \in {"bl", "sig"}                             -> 1
      [] r \in {"loginit", "logintr", "logrm"}           -> LogPages * PerPage
      [] r = "shm"                                       -> ptes_size + Queues * PerPage
      [] r \in {"lvl1", "lvl0", "meta", "libos", "rmargs"} -> PerPage

Done == DOMAIN at

\* nv_dma_alloc: the end is rounded up to a page.
NextOff(n) == Up(off + n, PerPage) * PerPage

Alloc ==
    /\ spc = "alloc"
    /\ \E j \in 1 .. Len(Regions) :
         /\ Regions[j] \notin Done /\ \A x \in 1 .. j - 1 : Regions[x] \in Done
         /\ LET n == NextOff(Bytes(Regions[j])) IN
              IF n > cap THEN spc' = "oom" /\ UNCHANGED <<off, at>>
              ELSE /\ off' = n
                   /\ at' = [r \in Done \cup {Regions[j]} |-> IF r \in Done THEN at[r] ELSE off]
                   /\ spc' = IF j = Len(Regions) THEN "fill" ELSE "alloc"
    /\ UNCHANGED <<arena, cap, image, lay>>

\* Memory m with list[x] in cell a + x, and with region r cleared.
Put(m, a, list) == [c \in DOMAIN m |-> IF c - a \in DOMAIN list THEN list[c - a] ELSE m[c]]
Clear(m, r)     == Put(m, at[r], [x \in 0 .. Bytes(r) - 1 |-> 0])

\* The content of a cell of the image; no address looks like it.
Content(x) == -2 - x

Fill(from, to, m) == spc = from /\ spc' = to /\ arena' = m /\ UNCHANGED <<cap, off, at, image, lay>>

\* The image is copied and the levels are cleared; what becomes of signature
\* and boot loader is not followed.
CopyImage ==
    Fill("fill", "lvl2",
         LET m == Put(arena, at["fwimg"], [x \in 0 .. image - 1 |-> Content(x)])
         IN  Clear(Clear(Clear(m, "lvl0"), "lvl1"), "lvl2"))

\* n consecutive pages from cell a on.
PageList(a, n) == [x \in 0 .. n - 1 |-> a + x * PerPage]

\* nv_gsp_radix3_fill, level by level.
FillLvl2 == Fill("lvl2", "lvl1", Put(arena, at["lvl2"], PageList(at["fwimg"], ImagePages)))
FillLvl1 == Fill("lvl1", "lvl0", Put(arena, at["lvl1"], PageList(at["lvl2"], lvl2_pages)))
FillLvl0 == Fill("lvl0", "meta", Put(arena, at["lvl0"], PageList(at["lvl1"], 1)))

\* nv_gsp_wpr_meta_build: of the arena it names the top of the tree.
BuildMeta ==
    Fill("meta", "libos", Put(Clear(arena, "meta"), at["meta"], [x \in {0} |-> at["lvl0"]]))

\* nv_gsp_libos_build_args, in the order the firmware expects.
LibosArgs == <<"loginit", "logintr", "logrm", "rmargs">>

BuildLibos ==
    Fill("libos", "logs", Put(Clear(arena, "libos"), at["libos"] - 1,
                              [x \in 1 .. Len(LibosArgs) |-> at[LibosArgs[x]]]))

\* nv_gsp_pte_array_fill: each log buffer lists its own pages behind its first
\* cell.
WithPages(m, r) == Put(Clear(m, r), at[r] + 1, PageList(at[r], LogPages))

FillLogs ==
    Fill("logs", "shm", WithPages(WithPages(WithPages(arena, "loginit"), "logintr"), "logrm"))

\* nv_gsp_shm_init and nv_gsp_rmargs_build.
InitShm ==
    Fill("shm", "staged",
         LET m == Put(Clear(arena, "shm"), at["shm"], PageList(at["shm"], ptes_nr))
         IN  Put(Clear(m, "rmargs"), at["rmargs"] - 1,
                 <<at["shm"], ptes_nr, ptes_size, ptes_size + QueuePages * PerPage>>))

-----------------------------------------------------------------------------
(* The plan of VRAM, in units of 256 bytes *)

Down(v, a)  == v - (v % a)
Minus(a, b) == (a - b) % Wraps

\* nv_fb_compute_frts; a workspace the register puts too low is not believed.
vga_start(fb, w) ==
    IF w = 0 THEN fb - MiB ELSE IF w > MiB THEN fb - 128 * KiB ELSE fb - w

FrtsEnd(fb, w) == Down(vga_start(fb, w), 128 * KiB)
NoFrts(fb, w)  == fb < MiB \/ FrtsEnd(fb, w) < MiB

HeapWanted(fb) ==
    LET heap == 28 * MiB + Up(96 * KiB * Up(fb, 1024 * MiB), MiB) * MiB + 96 * MiB
    IN  IF heap < 84 * MiB THEN 84 * MiB ELSE heap

\* nv_gsp_fb_layout, from the top down; the heap gets what rounding leaves.
Plan(fb, w, boot, elf) ==
    LET frts == FrtsEnd(fb, w) - MiB
        b    == Down(Minus(frts, boot), 4 * KiB)
        e    == Down(Minus(b, elf), 64 * KiB)
        h    == Down(Minus(e, HeapWanted(fb)), MiB)
        s    == Down(Minus(h, 1), MiB)
    IN  [fb |-> fb, vga |-> vga_start(fb, w), boot_size |-> boot, elf_size |-> elf,
         frts_addr |-> frts, boot_addr |-> b, elf_addr |-> e, heap_addr |-> h,
         heap_size |-> Down(Minus(e, h), MiB), wpr2_addr |-> s, nonwpr_heap_addr |-> Minus(s, MiB)]

Sane(p) ==
    /\ p.frts_addr + MiB <= p.fb
    /\ p.nonwpr_heap_addr < p.wpr2_addr /\ p.wpr2_addr <= p.heap_addr
    /\ p.heap_addr < p.elf_addr /\ p.elf_addr < p.boot_addr /\ p.boot_addr < p.frts_addr

\* Nothing to put there is an error of its own.
NoSizes(boot, elf) == boot = 0 \/ elf = 0

Layout(fb, w, boot, elf) ==
    /\ spc = "idle"
    /\ IF NoFrts(fb, w) \/ NoSizes(boot, elf) THEN spc' = "refused" /\ UNCHANGED lay
       ELSE /\ lay' = Plan(fb, w, boot, elf)
            /\ spc' = IF Sane(lay') THEN "planned" ELSE "no_room"
    /\ UNCHANGED <<arena, cap, off, at, image>>

StagingNext ==
    \/ \E n \in Images, c \in Capacities : Radix3Levels(n, c)
    \/ Alloc \/ CopyImage \/ FillLvl2 \/ FillLvl1 \/ FillLvl0 \/ BuildMeta \/ BuildLibos
    \/ FillLogs \/ InitShm
    \/ \E fb \in FbSizes, w \in Workspaces, b \in BootSizes, e \in ElfSizes :
         Layout(fb * MiB, w, b, e)

StagingSpec == StagingInit /\ [][StagingNext]_svars

-----------------------------------------------------------------------------
(* Property *)

\* A read by the GPU, which may be sent anywhere.
Read(a) == IF a \in DOMAIN arena THEN arena[a] ELSE Garbage

\* How the Booter finds cell x of the image, from the meta data alone.
Follow(x) ==
    LET page == x \div PerPage
        lvl1 == Read(Read(at["meta"]))
        lvl2 == Read(lvl1 + (page \div PerPage))
    IN  Read(Read(lvl2 + (page % PerPage)) + (x % PerPage))

ImageReachable == \A x \in 0 .. image - 1 : Follow(x) = Content(x)

\* From the libos arguments the firmware finds the logs with all their pages,
\* and the queues, whose pages are all on the list and begin with its own.
ListsComplete ==
    LET Arg(x) == Read(at["libos"] + x)
        args   == [x \in 0 .. 3 |-> Read(Arg(3) + x)]
    IN  /\ \A x \in 0 .. 2 : \A p \in 0 .. LogPages - 1 : Read(Arg(x) + 1 + p) = Arg(x) + p * PerPage
        /\ \A p \in 0 .. args[1] - 1 : Read(args[0] + p) = args[0] + p * PerPage
        /\ {args[2] + p : p \in 0 .. Queues * PerPage - 1} \subseteq args[1] .. args[1] * PerPage - 1
        /\ args[3] = args[2] + QueuePages * PerPage

RegionsApart ==
    /\ \A r \in Done : at[r] % PerPage = 0 /\ at[r] + Bytes(r) <= cap
    /\ \A r, q \in Done : r # q => at[r] + Bytes(r) <= at[q] \/ at[q] + Bytes(q) <= at[r]

\* The parts of the protected region lie one above the other with their whole
\* sizes, below the VGA workspace and above the start of VRAM.
WprFits(p) ==
    /\ 0 <= p.nonwpr_heap_addr /\ p.nonwpr_heap_addr + MiB <= p.wpr2_addr
    /\ p.wpr2_addr + 1 <= p.heap_addr
    /\ p.heap_size >= HeapWanted(p.fb) /\ p.heap_addr + p.heap_size <= p.elf_addr
    /\ p.elf_addr + p.elf_size <= p.boot_addr
    /\ p.boot_addr + p.boot_size <= p.frts_addr
    /\ p.frts_addr + MiB <= p.vga /\ p.vga <= p.fb

\* What the parts need, rounding included, is more than there is.
WprTooLarge(p) ==
    p.frts_addr < p.boot_size + p.elf_size + HeapWanted(p.fb) + 3 * MiB + 68 * KiB

\* The firmware finds all that was prepared for it: the image through the three
\* levels, every page of logs and queues, in regions that do not overlap; and
\* the plan of the protected region is accepted only if its parts fit in order,
\* and refused only if VRAM is too small for them with their rounding, also where
\* the unsigned differences wrap.
StagedRight ==
    /\ spc \in {"alloc", "fill", "staged", "oom"} => RegionsApart
    /\ spc = "staged" => ImageReachable /\ ListsComplete
    /\ spc = "planned" => WprFits(lay)
    /\ spc = "no_room" => WprTooLarge(lay)
=============================================================================
