---------------------------- MODULE DisplayMode ----------------------------
(***************************************************************************)
(* The arithmetic of a mode (driver/gsp/gsp_disp.c): from the eighteen     *)
(* bytes of a monitor's detailed timing to the raster words of a head, and *)
(* from a channel's handle to the descriptor of a surface.                 *)
(*                                                                         *)
(* A register with two halves is [lo, hi].  A handle is the set of its one *)
(* bits, a slot of the hash table likewise: both exceed TLC's integers or  *)
(* are only ever folded.                                                   *)
(***************************************************************************)
EXTENDS Integers, FiniteSets, Sequences

Lo8(n) == n % 256
Hi(n)  == n \div 256

\* External: how a monitor writes its timing (byte i of the descriptor is [i + 1]).
Dtd(t) ==
    << Lo8(t.pclk), Hi(t.pclk),
       Lo8(t.hact), Lo8(t.hblank), Hi(t.hact) * 16 + Hi(t.hblank),
       Lo8(t.vact), Lo8(t.vblank), Hi(t.vact) * 16 + Hi(t.vblank),
       Lo8(t.hoff), Lo8(t.hsync), (t.voff % 16) * 16 + (t.vsync % 16),
       Hi(t.hoff) * 64 + Hi(t.hsync) * 16 + (t.voff \div 16) * 4 + (t.vsync \div 16),
       0, 0, 0, 0, 0,
       24 + (IF t.hpos THEN 2 ELSE 0) + (IF t.vpos THEN 4 ELSE 0) >>

\* Bits [from, to) of a byte, in place.
Field(byte, from, to) == ((byte % 2^to) \div 2^from) * 2^from

\* Mutant: the high bits of the sync offset are taken two places too low.
nv_edid_parse_dtd_Shift(d) ==
    [pclk   |-> d[1] + d[2] * 256,
     hact   |-> d[3] + Field(d[5], 4, 8) * 16,  hblank |-> d[4] + Field(d[5], 0, 4) * 256,
     vact   |-> d[6] + Field(d[8], 4, 8) * 16,  vblank |-> d[7] + Field(d[8], 0, 4) * 256,
     hoff   |-> d[9] + Field(d[12], 6, 8),      hsync  |-> d[10] + Field(d[12], 4, 6) * 16,
     voff   |-> (d[11] \div 16) + Field(d[12], 2, 4) * 4,
     vsync  |-> (d[11] % 16) + Field(d[12], 0, 2) * 16,
     hpos   |-> Field(d[18], 1, 2) # 0,         vpos   |-> Field(d[18], 2, 3) # 0]

nv_edid_parse_dtd(d) ==
    [pclk   |-> d[1] + d[2] * 256,
     hact   |-> d[3] + Field(d[5], 4, 8) * 16,  hblank |-> d[4] + Field(d[5], 0, 4) * 256,
     vact   |-> d[6] + Field(d[8], 4, 8) * 16,  vblank |-> d[7] + Field(d[8], 0, 4) * 256,
     hoff   |-> d[9] + Field(d[12], 6, 8) * 4,  hsync  |-> d[10] + Field(d[12], 4, 6) * 16,
     voff   |-> (d[11] \div 16) + Field(d[12], 2, 4) * 4,
     vsync  |-> (d[11] % 16) + Field(d[12], 0, 2) * 16,
     hpos   |-> Field(d[18], 1, 2) # 0,         vpos   |-> Field(d[18], 2, 3) # 0]

\* A descriptor without a clock is no timing.
IsTiming(t) == t.pclk # 0

\* a | (b << 16) of 32-bit unsigned values; one below zero has all high bits set.
Word(a, b) == [lo |-> a % 2^16, hi |-> IF a < 0 THEN 2^16 - 1 ELSE b % 2^16]

\* The raster part of nv_gsp_disp_build_core_modeset (the clock has 16 bits, so
\* that its mask of 31 bits takes nothing away).
BlankEnd(blank, off) == blank - off - 1

Raster(t) ==
    LET hbe == BlankEnd(t.hblank, t.hoff)
        vbe == BlankEnd(t.vblank, t.voff)
    IN  [view  |-> Word(t.hact, t.vact),
         size  |-> Word(t.hact + t.hblank, t.vact + t.vblank),
         sync  |-> Word(t.hsync - 1, t.vsync - 1),
         bend  |-> Word(hbe, vbe),
         bstart |-> Word(hbe + t.hact, vbe + t.vact),
         hertz |-> t.pclk * 10000]

\* External: one axis of what a head makes of these words.  Its line starts at
\* the sync pulse; the picture lies between the end and the start of blanking.
Scanned(r, half) ==
    [act   |-> r.bstart[half] - r.bend[half],
     blank |-> r.size[half] - (r.bstart[half] - r.bend[half]),
     sync  |-> r.sync[half] + 1,
     off   |-> r.size[half] - r.bstart[half] - 1]

-----------------------------------------------------------------------------
(* Finding a surface: RAMHT and the context word.                          *)

RamhtBits   == 10
CtxdmaOff   == 8192

\* NV_DISP_HANDLE_VRAM = 0xcaf00002, and the bits of the window channel's id.
HandleVram    == {1, 20, 21, 22, 23, 25, 27, 30, 31}
ChannelId     == 1
Client        == 0    \* the low 14 bits of the RM client's handle

\* Mutant: the sizes of the table on earlier chips.
nv_disp_ramht_hash_9(chid, handle) ==
    {j \in 0 .. 8 : (Cardinality({i \in handle : i % 9 = j})
                       + (IF j - 5 \in chid THEN 1 ELSE 0)) % 2 = 1}

\* Bit j is the parity of the handle's bits at distance RamhtBits, with the
\* channel folded in at the top.
nv_disp_ramht_hash(chid, handle) ==
    {j \in 0 .. RamhtBits - 1 : (Cardinality({i \in handle : i % RamhtBits = j})
                       + (IF j - (RamhtBits - 4) \in chid THEN 1 ELSE 0)) % 2 = 1}

nv_gsp_disp_ramht_entry(chid, client, offset) ==
    chid * 2^25 + client + offset * 2^9

\* External: the table has a size of its own, known to the hardware.
HardwareSlot == {1, 2, 3, 5, 6, 7}
Decoded(context) == [chid   |-> context \div 2^25,
                     client |-> context % 2^14,
                     offset |-> ((context % 2^25) \div 2^14) * 32]

nv_gsp_disp_build_ctxdma_desc(start, limit, target) ==
    [target |-> target, start |-> start \div 256, limit |-> limit \div 256]
=============================================================================
