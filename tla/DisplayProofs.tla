---------------------------- MODULE DisplayProofs ----------------------------
(***************************************************************************)
(* Proofs about layer 5, for any number of outputs and output resources,   *)
(* every timing that a descriptor can hold and every surface the platform  *)
(* may hand out.                                                           *)
(*                                                                         *)
(* Once an output is chosen the methods of the four phases are fixed, and  *)
(* what the hardware has fetched of them says what it may have in its      *)
(* three states: up to the update of phase 2 only what the EFI firmware    *)
(* left, after it that or all of ours.                                     *)
(***************************************************************************)
EXTENDS Display, TLAPS, FiniteSetTheorems, SequenceTheorems

-----------------------------------------------------------------------------
(* The tree of objects.                                                    *)

Modesetting == {"ctxdma", "copy", "kick", "poll", "confirm"}
Layer3 == {"static", "client", "device", "subdevice", "engines", "vaspace", "memory", "tables"}
Layer4 == {"channel", "schedule", "ce", "class", "layer5"}
Steps  == Layer3 \cup Layer4 \cup Modesetting
            \cup {"common", "heads", "connect", "scan", "core", "assign", "mode", "end"}

\* A handle that a step to come names is held; what is held is there.
HandlesHeld ==
    /\ held \subseteq objects /\ ~orphan
    /\ dpc \notin {"static", "client", "end"} => "client" \in held
    /\ dpc \notin {"static", "client", "device", "end"} => "device" \in held
    /\ dpc \notin {"static", "client", "device", "subdevice", "end"} => "subdevice" \in held
    /\ dpc \in {"tables", "channel", "schedule", "ce", "class"} => "vaspace" \in held
    /\ dpc \in {"schedule", "ce", "class"} => "channel" \in held
    /\ dpc = "class" => "ce" \in held
    /\ dpc \in {"heads", "connect", "scan", "core", "assign", "mode"} => "common" \in held
    /\ dpc \in {"core", "assign"} => "root" \in held

\* A control for the firmware's own subdevice misses it only without its handles.
InternalInv == (alien => ~si) /\ (dpc = "static" => ~alien)

-----------------------------------------------------------------------------
(* The output chosen.                                                      *)

EdidType == [first : Outputs \cup {0}, of : Outputs \cup {0}, kind : Protocols \cup {Unread},
             t : Timings \cup {NoTiming}]

ChoiceType ==
    /\ dpc \in Steps /\ did \in Nat /\ edid \in EdidType
    /\ md \in [did : Outputs \cup {0}, proto : Protocols \cup {Unread}, sor : Sors \cup {NoSor},
               edid : EdidType]
    /\ sors \in [Outputs -> Sors \cup {NoSor}]

\* The EDID kept is the chosen output's own, and so is its resource.
ChoiceInv ==
    /\ ChoiceType
    /\ md.did # 0 => /\ md.edid.first = md.did /\ md.edid.of = md.did
                     /\ md.proto \in {md.edid.kind, Unread}
    /\ md.sor # NoSor => /\ md.did # 0 /\ sors[md.did] = md.sor
                         /\ phase = 0 => dpc \in Modesetting \cup {"assign", "mode", "end"}
                         /\ dpc = "assign" => md.did < did
    /\ dpc \in Modesetting \cup {"mode"} => md.sor # NoSor
    /\ dpc \in Modesetting => IsTiming(md.edid.t)
    /\ phase # 0 => md.sor # NoSor /\ IsTiming(md.edid.t)

PhaseInv ==
    /\ phase \in 0 .. 4
    /\ dpc \in {"copy", "kick", "poll"} => phase # 0
    /\ dpc = "confirm" => phase = 4
    /\ phase # 0 => dpc \in (Modesetting \ {"ctxdma"}) \cup {"end"}
    /\ phase \in 1 .. 3 => dpc # "end"

-----------------------------------------------------------------------------
(* What is written, and what of it is fetched.                             *)

Copied == IF dpc = "copy" THEN phase - 1 ELSE phase

LengthAt(n, c) ==
    IF c = "core"
    THEN CASE n = 0 -> 0 [] n = 1 -> 2 [] n = 2 -> 5 [] OTHER -> 7
    ELSE IF n = 4 THEN 2 ELSE 0

WrittenAt(n, c) ==
    IF c = "core"
    THEN CASE n = 0 -> <<>>
           [] n = 1 -> Batch(1)
           [] n = 2 -> Batch(1) \o Batch(2)
           [] OTHER -> (Batch(1) \o Batch(2)) \o Batch(3)
    ELSE IF n = 4 THEN Batch(4) ELSE <<>>

Length(c)  == LengthAt(Copied, c)
Written(c) == WrittenAt(Copied, c)

\* The same, method by method.
CoreMethods   == <<Plain("init"), Plain("update"), CoreSor[1], CoreModeset[1], Plain("update"),
                   Plain("depth"), Plain("update")>>
WindowMethods == <<WindowImage[1], Plain("flip")>>
MethodAt(c, i) == IF c = "core" THEN CoreMethods[i] ELSE WindowMethods[i]

PushInv ==
    /\ ~stray
    /\ pb = [c \in Channels |-> Written(c)]
    /\ put \in [Channels -> Nat] /\ get \in [Channels -> Nat]
    /\ \A c \in Channels : get[c] <= put[c] /\ put[c] <= Length(c)

-----------------------------------------------------------------------------
(* The core channel's three states.                                        *)

SorStates  == [Sors -> (0 .. 1) \X (0 .. 8)]
HeadStates == {<<>>} \cup {<<Raster(t)>> : t \in Timings \cup {NoTiming}}
States     == [sor : SorStates, head : HeadStates, depth : BOOLEAN]

Theirs(s) == s.sor = EfiState(efi).sor /\ s.head = EfiState(efi).head
OurSor(s) == s.sor[md.sor] = <<1, md.proto>>
Ours(s)   == OurSor(s) /\ s.head = <<Raster(Timing)>>

\* By the number of methods fetched: the assembly state, what was latched of it
\* and what is armed.
EngineIs(g, a, l, r) ==
    /\ a \in States /\ r \in States /\ (l = <<>> \/ (l = <<l[1]>> /\ l[1] \in States))
    /\ g <= 2 => Theirs(a)
    /\ g = 3 => OurSor(a) /\ a.head = EfiState(efi).head
    /\ g >= 4 => Ours(a)
    /\ g < 5 => Theirs(r) /\ (l # <<>> => Theirs(l[1]))
    /\ g >= 5 => /\ Theirs(r) \/ Ours(r)
                 /\ l # <<>> => Theirs(l[1]) \/ Ours(l[1])
                 /\ l # <<>> /\ Ours(r) /\ efi # md.sor => Ours(l[1])

EngineInv == efi \in Sors \cup {NoSor} /\ EngineIs(get["core"], asy, latched, armed)

-----------------------------------------------------------------------------
(* The surface and the window.                                             *)

Placed == dpc \in Modesetting \/ phase # 0

SurfaceInv ==
    /\ Placed => fb.at \in Nat /\ fb.at % 256 = 0
    /\ Placed /\ dpc # "ctxdma" =>
         /\ inst.slot = HardwareSlot
         /\ Decoded(inst.context) = [chid |-> ChannelId, client |-> Client, offset |-> inst.at]
         /\ inst.desc = nv_gsp_disp_build_ctxdma_desc(fb.at, fb.at + FbSize - 1, fb.target)

NoImage  == [fb |-> NoDesc, pitch |-> 0, w |-> 0, h |-> 0]
Found    == IF inst.known THEN inst.desc ELSE NoDesc
OurImage == [fb |-> Found, w |-> Timing.hact, h |-> Timing.vact,
             pitch |-> ((Pitch \div 64) % 2^13) * 64]

WindowInv ==
    /\ wasy = NoImage \/ (get["window"] > 0 /\ wasy = OurImage)
    /\ warmed = NoImage \/ (get["window"] > 0 /\ warmed = OurImage)
    /\ DOMAIN scan = {"ok", "noted", "fb", "w", "h", "pitch"}
    /\ scan.noted => phase # 0 /\ scan.pitch = Pitch

ReportInv == scan.ok => phase # 0 /\ (efi # md.sor => Ours(armed))

IndInv == HandlesHeld /\ InternalInv /\ ChoiceInv /\ PhaseInv /\ PushInv /\ EngineInv
            /\ SurfaceInv /\ WindowInv /\ ReportInv

-----------------------------------------------------------------------------
(* The eighteen bytes and the raster words.                                *)

LEMMA FieldWidths ==
    /\ \A n \in Bits(16) : n \in Int /\ 0 <= n /\ n < 65536
    /\ \A n \in Bits(12) : n \in Int /\ 0 <= n /\ n < 4096
    /\ \A n \in Bits(10) : n \in Int /\ 0 <= n /\ n < 1024
    /\ \A n \in Bits(6)  : n \in Int /\ 0 <= n /\ n < 64
<1>1. ASSUME NEW n \in Bits(16) PROVE n \in Int /\ 0 <= n /\ n < 65536
  BY SMT DEF Bits
<1>2. ASSUME NEW n \in Bits(12) PROVE n \in Int /\ 0 <= n /\ n < 4096
  BY SMT DEF Bits
<1>3. ASSUME NEW n \in Bits(10) PROVE n \in Int /\ 0 <= n /\ n < 1024
  BY SMT DEF Bits
<1>4. ASSUME NEW n \in Bits(6) PROVE n \in Int /\ 0 <= n /\ n < 64
  BY SMT DEF Bits
<1> QED BY <1>1, <1>2, <1>3, <1>4

LEMMA TimingType ==
    ASSUME NEW t \in TimingFields
    PROVE  /\ t.pclk \in Bits(16) /\ t.hact \in Bits(12) /\ t.hblank \in Bits(12)
           /\ t.vact \in Bits(12) /\ t.vblank \in Bits(12) /\ t.hoff \in Bits(10)
           /\ t.hsync \in Bits(10) /\ t.voff \in Bits(6) /\ t.vsync \in Bits(6)
           /\ t.hpos \in BOOLEAN /\ t.vpos \in BOOLEAN
           /\ t = [pclk |-> t.pclk, hact |-> t.hact, hblank |-> t.hblank,
                   vact |-> t.vact, vblank |-> t.vblank, hoff |-> t.hoff, hsync |-> t.hsync,
                   voff |-> t.voff, vsync |-> t.vsync, hpos |-> t.hpos, vpos |-> t.vpos]
BY SMT DEF TimingFields

LEMMA FieldsOfBytes ==
    ASSUME NEW a \in 0 .. 15, NEW b \in 0 .. 15, NEW e, e = a * 16 + b
    PROVE  Field(e, 4, 8) = a * 16 /\ Field(e, 0, 4) = b
BY SMT DEF Field

LEMMA FieldsOfPairs ==
    ASSUME NEW a \in 0 .. 3, NEW b \in 0 .. 3, NEW c \in 0 .. 3, NEW d \in 0 .. 3,
           NEW e, e = a * 64 + b * 16 + c * 4 + d
    PROVE  /\ Field(e, 6, 8) = a * 64 /\ Field(e, 4, 6) = b * 16
           /\ Field(e, 2, 4) = c * 4 /\ Field(e, 0, 2) = d
BY SMT DEF Field

LEMMA FieldsOfFlags ==
    ASSUME NEW a \in BOOLEAN, NEW b \in BOOLEAN
    PROVE  LET e == 24 + (IF a THEN 2 ELSE 0) + (IF b THEN 4 ELSE 0)
           IN  (Field(e, 1, 2) # 0 <=> a) /\ (Field(e, 2, 3) # 0 <=> b)
BY SMT DEF Field

\* A field over a byte and a part of another.
LEMMA Split256 ==
    ASSUME NEW n \in Int, 0 <= n
    PROVE  /\ Hi(n) \in Int /\ Lo8(n) \in Int /\ 0 <= Hi(n) /\ Hi(n) * 256 + Lo8(n) = n
           /\ n < 4096 => Hi(n) \in 0 .. 15
BY SMT DEF Hi, Lo8

LEMMA SmallHigh ==
    ASSUME NEW n \in Bits(10)
    PROVE  Hi(n) \in 0 .. 3
BY FieldWidths, SMT DEF Hi

LEMMA Split16 ==
    ASSUME NEW n \in Bits(6)
    PROVE  (n \div 16) * 16 + (n % 16) = n /\ n \div 16 \in 0 .. 3 /\ n % 16 \in 0 .. 15
BY FieldWidths, SMT

\* What nv_edid_parse_dtd reads is what the monitor wrote.
LEMMA DescriptorRead ==
    ASSUME NEW t \in TimingFields, NEW d, d = Dtd(t), NEW p, p = nv_edid_parse_dtd(d)
    PROVE  p = t
<1>1. /\ d[1] = Lo8(t.pclk) /\ d[2] = Hi(t.pclk) /\ d[3] = Lo8(t.hact) /\ d[4] = Lo8(t.hblank)
      /\ d[5] = Hi(t.hact) * 16 + Hi(t.hblank) /\ d[6] = Lo8(t.vact) /\ d[7] = Lo8(t.vblank)
      /\ d[8] = Hi(t.vact) * 16 + Hi(t.vblank) /\ d[9] = Lo8(t.hoff) /\ d[10] = Lo8(t.hsync)
      /\ d[11] = (t.voff % 16) * 16 + (t.vsync % 16)
      /\ d[12] = Hi(t.hoff) * 64 + Hi(t.hsync) * 16 + (t.voff \div 16) * 4 + (t.vsync \div 16)
      /\ d[18] = 24 + (IF t.hpos THEN 2 ELSE 0) + (IF t.vpos THEN 4 ELSE 0)
  BY SMT DEF Dtd
<1>2. /\ t.pclk \in Int /\ 0 <= t.pclk
      /\ t.hact \in Int /\ 0 <= t.hact /\ t.hact < 4096
      /\ t.hblank \in Int /\ 0 <= t.hblank /\ t.hblank < 4096
      /\ t.vact \in Int /\ 0 <= t.vact /\ t.vact < 4096
      /\ t.vblank \in Int /\ 0 <= t.vblank /\ t.vblank < 4096
      /\ t.hoff \in Int /\ 0 <= t.hoff /\ t.hoff < 1024
      /\ t.hsync \in Int /\ 0 <= t.hsync /\ t.hsync < 1024
      /\ t.voff \in Int /\ 0 <= t.voff /\ t.voff < 64
      /\ t.vsync \in Int /\ 0 <= t.vsync /\ t.vsync < 64
  BY TimingType, FieldWidths, SMT
<1>3. p = [pclk |-> d[1] + d[2] * 256,
           hact |-> d[3] + Field(d[5], 4, 8) * 16,  hblank |-> d[4] + Field(d[5], 0, 4) * 256,
           vact |-> d[6] + Field(d[8], 4, 8) * 16,  vblank |-> d[7] + Field(d[8], 0, 4) * 256,
           hoff |-> d[9] + Field(d[12], 6, 8) * 4,  hsync |-> d[10] + Field(d[12], 4, 6) * 16,
           voff |-> (d[11] \div 16) + Field(d[12], 2, 4) * 4,
           vsync |-> (d[11] % 16) + Field(d[12], 0, 2) * 16,
           hpos |-> Field(d[18], 1, 2) # 0,         vpos |-> Field(d[18], 2, 3) # 0]
  BY SMT DEF nv_edid_parse_dtd
<1>4. d[1] + d[2] * 256 = t.pclk
  BY <1>1, <1>2, Split256, SMT
<1>5. d[3] + Field(d[5], 4, 8) * 16 = t.hact /\ d[4] + Field(d[5], 0, 4) * 256 = t.hblank
  <2>1. Hi(t.hact) \in 0 .. 15 /\ Hi(t.hblank) \in 0 .. 15
    BY <1>2, Split256, SMT
  <2>2. Field(d[5], 4, 8) = Hi(t.hact) * 16 /\ Field(d[5], 0, 4) = Hi(t.hblank)
    BY <1>1, <2>1, FieldsOfBytes, SMT
  <2>3. /\ Hi(t.hact) * 256 + Lo8(t.hact) = t.hact /\ Lo8(t.hact) \in Int
        /\ Hi(t.hblank) * 256 + Lo8(t.hblank) = t.hblank /\ Lo8(t.hblank) \in Int
    BY <1>2, Split256, SMT
  <2> QED BY <1>1, <2>1, <2>2, <2>3, SMT
<1>6. d[6] + Field(d[8], 4, 8) * 16 = t.vact /\ d[7] + Field(d[8], 0, 4) * 256 = t.vblank
  <2>1. Hi(t.vact) \in 0 .. 15 /\ Hi(t.vblank) \in 0 .. 15
    BY <1>2, Split256, SMT
  <2>2. Field(d[8], 4, 8) = Hi(t.vact) * 16 /\ Field(d[8], 0, 4) = Hi(t.vblank)
    BY <1>1, <2>1, FieldsOfBytes, SMT
  <2>3. /\ Hi(t.vact) * 256 + Lo8(t.vact) = t.vact /\ Lo8(t.vact) \in Int
        /\ Hi(t.vblank) * 256 + Lo8(t.vblank) = t.vblank /\ Lo8(t.vblank) \in Int
    BY <1>2, Split256, SMT
  <2> QED BY <1>1, <2>1, <2>2, <2>3, SMT
<1>7. /\ Field(d[12], 6, 8) = Hi(t.hoff) * 64 /\ Field(d[12], 4, 6) = Hi(t.hsync) * 16
      /\ Field(d[12], 2, 4) = (t.voff \div 16) * 4 /\ Field(d[12], 0, 2) = t.vsync \div 16
  <2>1. Hi(t.hoff) \in 0 .. 3 /\ Hi(t.hsync) \in 0 .. 3
    BY TimingType, SmallHigh
  <2>2. t.voff \div 16 \in 0 .. 3 /\ t.vsync \div 16 \in 0 .. 3
    <3>1. t.voff \in Bits(6) /\ t.vsync \in Bits(6)
      BY TimingType
    <3> QED BY <3>1, Split16
  <2>3. PICK a \in 0 .. 3, b \in 0 .. 3, c \in 0 .. 3, e \in 0 .. 3 :
            a = Hi(t.hoff) /\ b = Hi(t.hsync) /\ c = t.voff \div 16 /\ e = t.vsync \div 16
    BY <2>1, <2>2
  <2>4. d[12] = a * 64 + b * 16 + c * 4 + e
    BY <1>1, <2>3, SMT
  <2>5. /\ Field(d[12], 6, 8) = a * 64 /\ Field(d[12], 4, 6) = b * 16
        /\ Field(d[12], 2, 4) = c * 4 /\ Field(d[12], 0, 2) = e
    BY <2>4, FieldsOfPairs, SMT
  <2> QED BY <2>3, <2>5, SMT
<1>8. d[9] + Field(d[12], 6, 8) * 4 = t.hoff /\ d[10] + Field(d[12], 4, 6) * 16 = t.hsync
  BY <1>1, <1>2, <1>7, Split256, SMT
<1>9. /\ (d[11] \div 16) + Field(d[12], 2, 4) * 4 = t.voff
      /\ (d[11] % 16) + Field(d[12], 0, 2) * 16 = t.vsync
  <2>1. t.voff % 16 \in 0 .. 15 /\ t.vsync % 16 \in 0 .. 15
    BY TimingType, Split16, SMT
  <2>2. d[11] \div 16 = t.voff % 16 /\ d[11] % 16 = t.vsync % 16
    BY <1>1, <2>1, SMT
  <2> QED BY TimingType, <1>7, <2>2, Split16, SMT
<1>10. (Field(d[18], 1, 2) # 0) = t.hpos /\ (Field(d[18], 2, 3) # 0) = t.vpos
  BY <1>1, TimingType, FieldsOfFlags, SMT
<1> QED BY <1>3, <1>4, <1>5, <1>6, <1>8, <1>9, <1>10, TimingType, SMT

\* One axis of the raster: no word of it overflows or wraps.
LEMMA AxisFits ==
    ASSUME NEW act \in Bits(12), NEW blank \in Bits(12), NEW sync \in Bits(10), 0 < sync,
           NEW off \in Bits(10), off < blank, NEW be, be = BlankEnd(blank, off)
    PROVE  /\ be \in Bits(16) /\ act \in Bits(16) /\ act + blank \in Bits(16)
           /\ sync - 1 \in Bits(16) /\ be + act \in Bits(16)
           /\ (be + act) - be = act /\ (act + blank) - act = blank
           /\ (act + blank) - (be + act) - 1 = off /\ (sync - 1) + 1 = sync
<1>1. /\ act \in Int /\ 0 <= act /\ act < 4096 /\ blank \in Int /\ blank < 4096
      /\ sync \in Int /\ sync < 1024 /\ off \in Int /\ 0 <= off
  BY FieldWidths, SMT
<1>2. \A n \in Int : 0 <= n /\ n < 65536 => n \in Bits(16)
  BY SMT DEF Bits
<1>3. be \in Int /\ be = blank - off - 1
  BY <1>1, SMT DEF BlankEnd
<1> QED BY <1>1, <1>2, <1>3, SMT

LEMMA WordsApart ==
    ASSUME NEW a \in Bits(16), NEW b \in Bits(16)
    PROVE  Word(a, b) = [lo |-> a, hi |-> b]
<1>1. 2^16 = 65536 /\ a \in Int /\ b \in Int /\ 0 <= a /\ 0 <= b /\ a < 65536 /\ b < 65536
  BY FieldWidths, SMT
<1> QED BY <1>1, SMT DEF Word

LEMMA RasterScanned ==
    ASSUME NEW t \in TimingFields, Sound(t), NEW r, r = Raster(t)
    PROVE  /\ Scanned(r, "lo") = [act |-> t.hact, blank |-> t.hblank, sync |-> t.hsync, off |-> t.hoff]
           /\ Scanned(r, "hi") = [act |-> t.vact, blank |-> t.vblank, sync |-> t.vsync, off |-> t.voff]
           /\ r.view = [lo |-> t.hact, hi |-> t.vact] /\ r.hertz = t.pclk * 10000
<1>1. PICK he, ve : he = BlankEnd(t.hblank, t.hoff) /\ ve = BlankEnd(t.vblank, t.voff)
  OBVIOUS
<1>2. 0 < t.hsync /\ 0 < t.vsync /\ t.hoff < t.hblank /\ t.voff < t.vblank
  BY TimingType, FieldWidths, SMT DEF Sound
<1>3. Bits(6) \subseteq Bits(10)
  BY SMT DEF Bits
<1>4. /\ he \in Bits(16) /\ t.hact \in Bits(16) /\ t.hact + t.hblank \in Bits(16)
      /\ t.hsync - 1 \in Bits(16) /\ he + t.hact \in Bits(16)
      /\ (he + t.hact) - he = t.hact /\ (t.hact + t.hblank) - t.hact = t.hblank
      /\ (t.hact + t.hblank) - (he + t.hact) - 1 = t.hoff /\ (t.hsync - 1) + 1 = t.hsync
  BY <1>1, <1>2, TimingType, AxisFits
<1>5. /\ ve \in Bits(16) /\ t.vact \in Bits(16) /\ t.vact + t.vblank \in Bits(16)
      /\ t.vsync - 1 \in Bits(16) /\ ve + t.vact \in Bits(16)
      /\ (ve + t.vact) - ve = t.vact /\ (t.vact + t.vblank) - t.vact = t.vblank
      /\ (t.vact + t.vblank) - (ve + t.vact) - 1 = t.voff /\ (t.vsync - 1) + 1 = t.vsync
  BY <1>1, <1>2, <1>3, TimingType, AxisFits
<1>6. /\ Word(t.hact, t.vact) = [lo |-> t.hact, hi |-> t.vact]
      /\ Word(t.hact + t.hblank, t.vact + t.vblank)
           = [lo |-> t.hact + t.hblank, hi |-> t.vact + t.vblank]
      /\ Word(t.hsync - 1, t.vsync - 1) = [lo |-> t.hsync - 1, hi |-> t.vsync - 1]
      /\ Word(he, ve) = [lo |-> he, hi |-> ve]
      /\ Word(he + t.hact, ve + t.vact) = [lo |-> he + t.hact, hi |-> ve + t.vact]
  BY <1>4, <1>5, WordsApart
<1>7. /\ r.view = [lo |-> t.hact, hi |-> t.vact]
      /\ r.size = [lo |-> t.hact + t.hblank, hi |-> t.vact + t.vblank]
      /\ r.sync = [lo |-> t.hsync - 1, hi |-> t.vsync - 1]
      /\ r.bend = [lo |-> he, hi |-> ve]
      /\ r.bstart = [lo |-> he + t.hact, hi |-> ve + t.vact]
      /\ r.hertz = t.pclk * 10000
  BY <1>1, <1>6, SMT DEF Raster
<1> QED BY <1>4, <1>5, <1>7, SMT DEF Scanned

-----------------------------------------------------------------------------
(* Finding the surface.                                                    *)

LEMMA OneMore ==
    ASSUME NEW S, IsFiniteSet(S), NEW x, x \notin S, NEW T, T = S \cup {x}
    PROVE  IsFiniteSet(T) /\ Cardinality(T) = Cardinality(S) + 1
BY FS_AddElement

\* The driver's hash of the handle is the slot in which the hardware looks.
LEMMA HashIsSlot == nv_disp_ramht_hash({0}, HandleVram) = HardwareSlot
<1> DEFINE bits(j) == {i \in HandleVram : i % 10 = j}
<1>1. /\ bits(0) = {20, 30} /\ bits(1) = {1, 21, 31} /\ bits(2) = {22} /\ bits(3) = {23}
      /\ bits(4) = {} /\ bits(5) = {25} /\ bits(6) = {} /\ bits(7) = {27}
      /\ bits(8) = {} /\ bits(9) = {}
  <2>1. /\ 1 % 10 = 1 /\ 20 % 10 = 0 /\ 21 % 10 = 1 /\ 22 % 10 = 2 /\ 23 % 10 = 3
        /\ 25 % 10 = 5 /\ 27 % 10 = 7 /\ 30 % 10 = 0 /\ 31 % 10 = 1
    BY SMT
  <2>2. \A i : i \in HandleVram <=> i \in {1, 20, 21, 22, 23, 25, 27, 30, 31}
    BY DEF HandleVram
  <2>3. bits(0) = {20, 30} /\ bits(1) = {1, 21, 31}
    BY <2>1, <2>2, SMT
  <2>4. bits(2) = {22} /\ bits(3) = {23} /\ bits(5) = {25} /\ bits(7) = {27}
    BY <2>1, <2>2, SMT
  <2>5. bits(4) = {} /\ bits(6) = {} /\ bits(8) = {} /\ bits(9) = {}
    BY <2>1, <2>2, SMT
  <2> QED BY <2>3, <2>4, <2>5
<1>2. /\ Cardinality(bits(0)) = 2 /\ Cardinality(bits(1)) = 3 /\ Cardinality(bits(2)) = 1
      /\ Cardinality(bits(3)) = 1 /\ Cardinality(bits(4)) = 0 /\ Cardinality(bits(5)) = 1
      /\ Cardinality(bits(6)) = 0 /\ Cardinality(bits(7)) = 1 /\ Cardinality(bits(8)) = 0
      /\ Cardinality(bits(9)) = 0
  <2>1. Cardinality({}) = 0 /\ Cardinality({1}) = 1 /\ Cardinality({20, 30}) = 2 /\ Cardinality({1, 21, 31}) = 3
    <3>1. Cardinality({}) = 0
      BY FS_EmptySet
    <3>2. IsFiniteSet({20}) /\ Cardinality({20}) = 1 /\ IsFiniteSet({1}) /\ Cardinality({1}) = 1
      BY FS_Singleton
    <3>3. {20, 30} = {20} \cup {30} /\ 30 \notin {20} /\ {1, 21} = {1} \cup {21} /\ 21 \notin {1}
      BY SMT
    <3>4. {1, 21, 31} = {1, 21} \cup {31} /\ 31 \notin {1, 21}
      BY SMT
    <3>5. Cardinality({20, 30}) = Cardinality({20}) + 1
      BY <3>2, <3>3, OneMore
    <3>6. IsFiniteSet({1, 21}) /\ Cardinality({1, 21}) = Cardinality({1}) + 1
      BY <3>2, <3>3, OneMore
    <3>7. Cardinality({1, 21, 31}) = Cardinality({1, 21}) + 1
      BY <3>4, <3>6, OneMore
    <3> QED BY <3>1, <3>2, <3>5, <3>6, <3>7
  <2>2. /\ Cardinality({22}) = 1 /\ Cardinality({23}) = 1 /\ Cardinality({25}) = 1 /\ Cardinality({27}) = 1
    BY FS_Singleton
  <2> QED BY <1>1, <2>1, <2>2
<1> DEFINE bit(j) == (Cardinality(bits(j)) + (IF j - 6 \in {0} THEN 1 ELSE 0)) % 2
<1>3. nv_disp_ramht_hash({0}, HandleVram) = {j \in 0 .. 9 : bit(j) = 1}
  BY SMT DEF nv_disp_ramht_hash, RamhtBits
<1>4. /\ bit(0) = 0 /\ bit(1) = 1 /\ bit(2) = 1 /\ bit(3) = 1 /\ bit(4) = 0
      /\ bit(5) = 1 /\ bit(6) = 1 /\ bit(7) = 1 /\ bit(8) = 0 /\ bit(9) = 0
  <2> HIDE DEF bits
  <2> QED BY <1>2, SMT
<1>5. 0 .. 9 = {0, 1, 2, 3, 4, 5, 6, 7, 8, 9}
  BY SMT
<1> HIDE DEF bit
<1> QED BY <1>3, <1>4, <1>5, SMT DEF HardwareSlot

\* The context word carries channel, client and place of the descriptor.
LEMMA ContextWord ==
    Decoded(nv_gsp_disp_ramht_entry(ChannelId, Client, CtxdmaOff))
      = [chid |-> ChannelId, client |-> Client, offset |-> CtxdmaOff]
<1>1. 2^25 = 33554432 /\ 2^9 = 512 /\ 2^14 = 16384
  BY SMT
<1>2. nv_gsp_disp_ramht_entry(ChannelId, Client, CtxdmaOff) = 37748736
  BY <1>1, SMT DEF nv_gsp_disp_ramht_entry, ChannelId, Client, CtxdmaOff
<1>3. /\ 37748736 \div 33554432 = 1 /\ 37748736 % 16384 = 0
      /\ ((37748736 % 33554432) \div 16384) * 32 = 8192
  BY SMT
<1> QED BY <1>1, <1>2, <1>3, SMT DEF Decoded, ChannelId, Client, CtxdmaOff

\* Rows of the window as the hardware counts them.
LEMMA RowsFit ==
    ASSUME NEW w \in Bits(12), NEW h \in Bits(12), h > 0, NEW p, p = (((w * 4) \div 64) % 2^13) * 64
    PROVE  /\ p \in Int /\ 0 <= p /\ p <= w * 4 /\ (w % 16 = 0 => p = w * 4)
           /\ (h - 1) * p + w * 4 <= (w * 4) * h
<1>1. w \in Int /\ 0 <= w /\ w < 4096 /\ h \in Int /\ 2^13 = 8192
  BY FieldWidths, SMT
<1>2. PICK q \in Int : q = (w * 4) \div 64 /\ 0 <= q /\ q < 256 /\ q * 64 <= w * 4
                       /\ (w % 16 = 0 => q * 64 = w * 4)
  BY <1>1, SMT
<1>3. p = q * 64
  BY <1>1, <1>2, SMT
<1>4. (h - 1) * p <= (h - 1) * (w * 4)
  BY <1>1, <1>2, <1>3, SMT
<1>5. (w * 4) * h = (h - 1) * (w * 4) + w * 4
  BY <1>1, SMT
<1>6. p \in Int /\ (h - 1) * p \in Int /\ (h - 1) * (w * 4) \in Int
  BY <1>1, <1>2, <1>3, SMT
<1> QED BY <1>1, <1>2, <1>3, <1>4, <1>5, <1>6, SMT

-----------------------------------------------------------------------------
(* The tree of objects: one step of the pass each.                         *)

LEMMA AllocKeeps ==
    ASSUME HandlesHeld, NEW o, Names[o] \subseteq held, RmAlloc(o)
    PROVE  held \subseteq held' /\ held' \subseteq objects' /\ ~orphan'
<1>1. held \subseteq objects /\ ~orphan
  BY DEF HandlesHeld
<1>2. ~orphan'
  BY <1>1 DEF RmAlloc, Address
<1>3. PICK answer \in Answers :
        /\ held' = IF Success(answer) THEN held \cup {o} ELSE held
        /\ objects' \in CASE answer = "ok"      -> {objects \cup {o}}
                          [] answer = "refused" -> {objects}
                          [] answer = "lost"    -> {objects, objects \cup {o}}
  BY DEF RmAlloc
<1>4. objects \subseteq objects' /\ (answer = "ok" => o \in objects')
  BY <1>3 DEF Answers
<1> QED BY <1>1, <1>2, <1>3, <1>4 DEF Success

LEMMA AddressKeeps ==
    ASSUME HandlesHeld, NEW names, names \subseteq held, Address(names)
    PROVE  ~orphan'
BY DEF HandlesHeld, Address

LEMMA RmStepHandles ==
    ASSUME HandlesHeld, RmStep
    PROVE  HandlesHeld'
<1>1. CASE StaticInfo
  BY <1>1 DEF StaticInfo, To, HandlesHeld
<1>2. CASE Chain
  <2>1. Names["client"] = {} /\ Names["device"] = {"client"} /\ Names["subdevice"] = {"client", "device"}
    BY DEF Names
  <2>2. Names[dpc] \subseteq held
    BY <1>2, <2>1 DEF Chain, HandlesHeld
  <2>3. held \subseteq held' /\ held' \subseteq objects' /\ ~orphan'
    BY <1>2, <2>2, AllocKeeps DEF Chain
  <2>4. \/ dpc' = "end"
        \/ dpc = "client" /\ dpc' = "device" /\ "client" \in held'
        \/ dpc = "device" /\ dpc' = "subdevice" /\ "device" \in held'
        \/ dpc = "subdevice" /\ dpc' = "engines" /\ "subdevice" \in held'
    BY <1>2 DEF Chain
  <2> QED BY <2>3, <2>4 DEF HandlesHeld
<1>3. CASE Engines
  <2>1. {"client", "subdevice"} \subseteq held /\ Address({"client", "subdevice"})
    BY <1>3 DEF Engines, To, HandlesHeld
  <2>2. ~orphan'
    BY <2>1, AddressKeeps
  <2> QED BY <1>3, <2>2 DEF Engines, To, HandlesHeld
<1>4. CASE Vaspace
  <2>1. Names["vaspace"] \subseteq held
    BY <1>4 DEF Vaspace, To, HandlesHeld, Names
  <2>2. held \subseteq held' /\ held' \subseteq objects' /\ ~orphan'
    BY <1>4, <2>1, AllocKeeps DEF Vaspace
  <2> QED BY <1>4, <2>2 DEF Vaspace, To, HandlesHeld
<1>5. CASE MemoryList
  <2>1. Names["memory"] \subseteq held
    BY <1>5 DEF MemoryList, HandlesHeld, Names
  <2>2. held \subseteq held' /\ held' \subseteq objects' /\ ~orphan'
    <3>1. CASE RmAlloc("memory")
      BY <2>1, <3>1, AllocKeeps
    <3>2. CASE UNCHANGED rmvars
      BY <3>2 DEF rmvars, HandlesHeld
    <3> QED BY <1>5, <3>1, <3>2 DEF MemoryList
  <2> QED BY <1>5, <2>2 DEF MemoryList, HandlesHeld
<1>6. CASE PageDirectory
  <2>1. dpc = "tables" /\ dpc' \in {"channel", "layer5"}
    BY <1>6 DEF PageDirectory
  <2>2. held' = held /\ objects' = objects
    BY <1>6 DEF PageDirectory, RmControl, rmvars
  <2>3. ~orphan'
    <3>1. {"client", "device", "vaspace"} \subseteq held
      BY <2>1 DEF HandlesHeld
    <3>2. Address({"client", "device", "vaspace"}) \/ orphan' = orphan
      BY <1>6 DEF PageDirectory, RmControl, rmvars
    <3> QED BY <3>1, <3>2, AddressKeeps DEF HandlesHeld
  <2> QED BY <2>1, <2>2, <2>3 DEF HandlesHeld
<1>7. CASE ChannelAlloc
  <2>1. Names["channel"] \subseteq held
    BY <1>7 DEF ChannelAlloc, HandlesHeld, Names
  <2>2. held \subseteq held' /\ held' \subseteq objects' /\ ~orphan'
    BY <1>7, <2>1, AllocKeeps DEF ChannelAlloc
  <2> QED BY <1>7, <2>2 DEF ChannelAlloc, HandlesHeld
<1>8. CASE Schedule
  <2>1. {"client", "channel"} \subseteq held /\ Address({"client", "channel"})
    BY <1>8 DEF Schedule, RmControl, HandlesHeld
  <2>2. ~orphan'
    BY <2>1, AddressKeeps
  <2> QED BY <1>8, <2>2 DEF Schedule, RmControl, HandlesHeld
<1>9. CASE CeObject
  <2>1. Names["ce"] \subseteq held
    BY <1>9 DEF CeObject, HandlesHeld, Names
  <2>2. held \subseteq held' /\ held' \subseteq objects' /\ ~orphan'
    BY <1>9, <2>1, AllocKeeps DEF CeObject
  <2> QED BY <1>9, <2>2 DEF CeObject, HandlesHeld
<1>10. CASE ClassEngineId
  <2>1. {"client", "channel", "ce"} \subseteq held /\ Address({"client", "channel", "ce"})
    BY <1>10 DEF ClassEngineId, RmControl, To, HandlesHeld
  <2>2. ~orphan'
    BY <2>1, AddressKeeps
  <2> QED BY <1>10, <2>2 DEF ClassEngineId, RmControl, To, HandlesHeld
<1>11. CASE OutOfScope
  BY <1>11 DEF OutOfScope, To, HandlesHeld
<1> QED BY <1>1, <1>2, <1>3, <1>4, <1>5, <1>6, <1>7, <1>8, <1>9, <1>10, <1>11 DEF RmStep

LEMMA HandlesStep ==
    ASSUME HandlesHeld, [DisplayNext]_dvars
    PROVE  HandlesHeld'
<1>1. CASE Layers3And4
  BY <1>1, RmStepHandles DEF Layers3And4
<1>2. CASE Common
  <2>1. Names["common"] \subseteq held
    BY <1>2 DEF Common, HandlesHeld, Names
  <2>2. held \subseteq held' /\ held' \subseteq objects' /\ ~orphan'
    BY <1>2, <2>1, AllocKeeps DEF Common
  <2> QED BY <1>2, <2>2 DEF Common, HandlesHeld
<1>3. CASE Heads
  <2>1. {"client", "common"} \subseteq held /\ Address({"client", "common"})
    BY <1>3 DEF Heads, RmControl, HandlesHeld
  <2>2. ~orphan'
    BY <2>1, AddressKeeps
  <2> QED BY <1>3, <2>2 DEF Heads, RmControl, HandlesHeld
<1>4. CASE ConnectState
  <2>1. {"client", "common"} \subseteq held /\ Address({"client", "common"})
    BY <1>4 DEF ConnectState, RmControl, To, HandlesHeld
  <2>2. ~orphan'
    BY <2>1, AddressKeeps
  <2> QED BY <1>4, <2>2 DEF ConnectState, RmControl, To, HandlesHeld
<1>5. CASE ScanOutput
  BY <1>5 DEF ScanOutput, rmvars, HandlesHeld
<1>6. CASE Root
  <2>1. Names["root"] \subseteq held
    BY <1>6 DEF Root, HandlesHeld, Names
  <2>2. held \subseteq held' /\ held' \subseteq objects' /\ ~orphan'
    BY <1>6, <2>1, AllocKeeps DEF Root
  <2> QED BY <1>6, <2>2 DEF Root, HandlesHeld
<1>7. CASE CoreChannel
  <2>1. Names["core"] \subseteq held
    BY <1>7 DEF CoreChannel, HandlesHeld, Names
  <2>2. held \subseteq held' /\ held' \subseteq objects' /\ ~orphan'
    BY <1>7, <2>1, AllocKeeps DEF CoreChannel, ChannelDma
  <2> QED BY <1>7, <2>2 DEF CoreChannel, HandlesHeld
<1>8. CASE AssignSor
  <2>1. {"client", "common"} \subseteq held /\ Address({"client", "common"})
    BY <1>8 DEF AssignSor, HandlesHeld
  <2>2. ~orphan'
    BY <2>1, AddressKeeps
  <2> QED BY <1>8, <2>2 DEF AssignSor, HandlesHeld
<1>9. CASE WindowChannel
  <2>1. Names["window"] \subseteq held
    BY <1>9 DEF WindowChannel, HandlesHeld, Names
  <2>2. held \subseteq held' /\ held' \subseteq objects' /\ ~orphan'
    BY <1>9, <2>1, AllocKeeps DEF WindowChannel, ChannelDma
  <2> QED BY <1>9, <2>2 DEF WindowChannel, HandlesHeld
<1>10. CASE Mode
  <2>1. {"client", "common"} \subseteq held /\ (Address({"client", "common"}) \/ orphan' = orphan)
    BY <1>10 DEF Mode, HandlesHeld
  <2>2. ~orphan'
    BY <2>1, AddressKeeps DEF HandlesHeld
  <2>3. held' = held /\ objects' = objects /\ dpc = "mode" /\ dpc' \in {"ctxdma", "end"}
    BY <1>10 DEF Mode
  <2> QED BY <2>2, <2>3 DEF HandlesHeld
<1>11. CASE CtxDma
  BY <1>11 DEF CtxDma, To, rmvars, HandlesHeld
<1>12. CASE CopyMethods
  BY <1>12 DEF CopyMethods, To, rmvars, HandlesHeld
<1>13. CASE Kick
  BY <1>13 DEF Kick, To, rmvars, HandlesHeld
<1>14. CASE PollGet
  BY <1>14 DEF PollGet, rmvars, HandlesHeld
<1>15. CASE Confirm
  BY <1>15 DEF Confirm, To, rmvars, HandlesHeld
<1>16. ASSUME NEW c \in Channels, Fetch(c) PROVE HandlesHeld'
  BY <1>16 DEF Fetch, rmvars, HandlesHeld
<1>17. CASE Supervisor \/ FlipDone \/ UNCHANGED dvars
  <2>1. UNCHANGED <<dpc, rmvars>>
    BY <1>17 DEF Supervisor, FlipDone, dvars
  <2> QED BY <2>1 DEF rmvars, HandlesHeld
<1> QED BY <1>1, <1>2, <1>3, <1>4, <1>5, <1>6, <1>7, <1>8, <1>9, <1>10, <1>11, <1>12, <1>13,
           <1>14, <1>15, <1>16, <1>17 DEF DisplayNext

\* Only three steps send a control to the firmware's own subdevice, and only the
\* first step of all gets its handles.
LEMMA InternalStep ==
    ASSUME InternalInv, [DisplayNext]_dvars
    PROVE  InternalInv'
<1>1. CASE UNCHANGED <<alien, si>> /\ (dpc' = "static" => dpc = "static")
  BY <1>1 DEF InternalInv
<1>2. CASE Layers3And4
  <2>1. alien' = alien
    BY <1>2 DEF Layers3And4, given
  <2>2. CASE StaticInfo
    BY <2>1, <2>2 DEF StaticInfo, To, InternalInv
  <2>3. CASE RmStep /\ ~StaticInfo
    BY <1>1, <2>1, <2>3 DEF RmStep, Chain, Engines, Vaspace, MemoryList, PageDirectory, ChannelAlloc,
                            Schedule, CeObject, ClassEngineId, OutOfScope, RmAlloc, RmControl, To, rmvars
  <2> QED BY <1>2, <2>2, <2>3 DEF Layers3And4
<1>3. CASE Root \/ CoreChannel \/ WindowChannel
  <2>1. PICK right \in BOOLEAN : (si => right) /\ alien' = (alien \/ ~right)
    BY <1>3 DEF Root, CoreChannel, WindowChannel, ChannelDma, Internal
  <2>2. si' = si /\ dpc' # "static"
    BY <1>3 DEF Root, CoreChannel, WindowChannel, ChannelDma, RmAlloc
  <2> QED BY <2>1, <2>2 DEF InternalInv
<1>4. CASE Common \/ Heads \/ ConnectState \/ ScanOutput \/ AssignSor \/ Mode
  BY <1>1, <1>4 DEF Common, Heads, ConnectState, ScanOutput, AssignSor, Mode, RmAlloc, RmControl,
                    To, rmvars, given
<1>5. CASE CtxDma \/ CopyMethods \/ Kick \/ PollGet \/ Confirm
  BY <1>1, <1>5 DEF CtxDma, CopyMethods, Kick, PollGet, Confirm, To, rmvars, given
<1>6. CASE (\E c \in Channels : Fetch(c)) \/ Supervisor \/ FlipDone \/ UNCHANGED dvars
  BY <1>1, <1>6 DEF Fetch, Supervisor, FlipDone, dvars, rmvars, given
<1> QED BY <1>2, <1>3, <1>4, <1>5, <1>6 DEF DisplayNext

-----------------------------------------------------------------------------
(* The output chosen, and the phases.                                      *)

LEMMA OutputNumbers ==
    /\ \A o \in Outputs : o \in Nat /\ o # 0
    /\ NoSor \notin Sors /\ \A s \in Sors : s \in Nat
<1>1. Cardinality(Outputs) \in Nat
  BY OutputAssumption, FS_CardinalityType
<1>2. Outputs = 1 .. Cardinality(Outputs)
  BY OutputAssumption
<1>3. \A o \in Outputs : o \in Nat /\ o # 0
  BY <1>1, <1>2
<1>4. NoSor \notin Sors /\ \A s \in Sors : s \in Nat
  BY OutputAssumption DEF NoSor
<1> QED BY <1>3, <1>4

LEMMA RmStepMoves ==
    ASSUME RmStep
    PROVE  dpc \in Layer3 \cup Layer4 /\ dpc' \in Layer3 \cup Layer4 \cup {"common", "end"}
BY DEF RmStep, StaticInfo, Chain, Engines, Vaspace, MemoryList, PageDirectory, ChannelAlloc,
       Schedule, CeObject, ClassEngineId, OutOfScope, To, Layer3, Layer4

\* Before the output resources are assigned there is none.
LEMMA NoSorYet ==
    ASSUME ChoiceInv, PhaseInv, dpc \notin Modesetting \cup {"assign", "mode", "end"}
    PROVE  md.sor = NoSor /\ phase = 0
BY DEF ChoiceInv, PhaseInv, Modesetting

LEMMA FourFields ==
    ASSUME NEW A, NEW B, NEW C, NEW D, NEW e \in [first : A, of : B, kind : C, t : D],
           NEW a \in A, NEW b \in B, NEW c \in C, NEW d \in D
    PROVE  [e EXCEPT !.first = a, !.of = b, !.kind = c, !.t = d]
             \in [first : A, of : B, kind : C, t : D]
OBVIOUS

LEMMA ScanChoice ==
    ASSUME ChoiceInv, PhaseInv, ScanOutput
    PROVE  ChoiceInv' /\ PhaseInv'
<1>1. /\ dpc = "scan" /\ dpc' = dpc /\ did \in Outputs /\ did' = did + 1 /\ sors' = sors
      /\ phase' = phase
  BY DEF ScanOutput, pushing
<1>2. md.sor = NoSor /\ phase = 0 /\ did \in Nat /\ did # 0
  BY <1>1, NoSorYet, OutputNumbers DEF Modesetting
<1>9. PICK kind \in Protocols, known \in BOOLEAN : \E size \in {0, 8, 128}, t \in Timings \cup {NoTiming} :
        /\ edid' = IF did \in conn THEN Filled(did, kind, size, t) ELSE edid
        /\ md' = IF did \in conn /\ Usable(size) /\ Better(IF known THEN kind ELSE Unread)
                 THEN [did |-> did, proto |-> IF known THEN kind ELSE Unread, sor |-> NoSor,
                       edid |-> edid']
                 ELSE md
  BY DEF ScanOutput
<1>3. PICK size \in {0, 8, 128}, t \in Timings \cup {NoTiming} :
        /\ edid' = IF did \in conn THEN Filled(did, kind, size, t) ELSE edid
        /\ md' = IF did \in conn /\ Usable(size) /\ Better(IF known THEN kind ELSE Unread)
                 THEN [did |-> did, proto |-> IF known THEN kind ELSE Unread, sor |-> NoSor,
                       edid |-> edid']
                 ELSE md
  BY <1>9
<1>4. /\ edid.first \in Outputs \cup {0} /\ edid.of \in Outputs \cup {0}
      /\ edid.kind \in Protocols \cup {Unread} /\ edid.t \in Timings \cup {NoTiming}
  BY DEF ChoiceInv, ChoiceType, EdidType
<1>5. Filled(did, kind, size, t) \in EdidType
  <2>1. edid \in EdidType
    BY DEF ChoiceInv, ChoiceType
  <2>2. PICK a \in Outputs \cup {0}, b \in Outputs \cup {0}, c \in Protocols \cup {Unread},
             d \in Timings \cup {NoTiming} :
          /\ a = (IF size > 0 THEN did ELSE edid.first) /\ b = (IF size >= 128 THEN did ELSE edid.of)
          /\ c = (IF size >= 128 THEN kind ELSE edid.kind) /\ d = (IF size >= 128 THEN t ELSE edid.t)
    BY <1>1, <1>4
  <2>3. Filled(did, kind, size, t)
          = [edid EXCEPT !.first = a, !.of = b, !.kind = c, !.t = d]
    BY <2>2 DEF Filled
  <2>4. [edid EXCEPT !.first = a, !.of = b, !.kind = c, !.t = d] \in EdidType
    BY <2>1, FourFields DEF EdidType
  <2> QED BY <2>3, <2>4
<1>6. edid' \in EdidType
  BY <1>3, <1>5 DEF ChoiceInv, ChoiceType
<1>7. CASE did \in conn /\ Usable(size) /\ Better(IF known THEN kind ELSE Unread)
  <2>1. size = 128
    BY <1>7, SMT DEF Usable
  <2>2. edid'.first = did /\ edid'.of = did /\ edid'.kind = kind
    BY <1>3, <1>7, <2>1 DEF Filled, ChoiceInv, ChoiceType, EdidType
  <2>3. /\ md'.did = did /\ md'.proto = (IF known THEN kind ELSE Unread) /\ md'.sor = NoSor
        /\ md'.edid = edid'
        /\ md' \in [did : Outputs \cup {0}, proto : Protocols \cup {Unread}, sor : Sors \cup {NoSor},
                    edid : EdidType]
    BY <1>1, <1>3, <1>6, <1>7
  <2>4. ChoiceType'
    BY <1>1, <1>2, <1>6, <2>3 DEF ChoiceInv, ChoiceType
  <2> QED BY <1>1, <1>2, <2>2, <2>3, <2>4 DEF ChoiceInv, PhaseInv, Modesetting
<1>8. CASE ~(did \in conn /\ Usable(size) /\ Better(IF known THEN kind ELSE Unread))
  <2>1. md' = md
    BY <1>3, <1>8
  <2>2. ChoiceType'
    BY <1>1, <1>2, <1>6, <2>1 DEF ChoiceInv, ChoiceType
  <2> QED BY <1>1, <1>2, <2>1, <2>2 DEF ChoiceInv, PhaseInv, Modesetting
<1> QED BY <1>7, <1>8

LEMMA AssignChoice ==
    ASSUME ChoiceInv, PhaseInv, AssignSor
    PROVE  ChoiceInv' /\ PhaseInv'
<1>1. PICK s \in {NoSor} \cup (Sors \ Range(sors)) :
        /\ sors' = [sors EXCEPT ![did] = s]
        /\ md' = IF did \in conn /\ s # NoSor /\ Mine(did) THEN [md EXCEPT !.sor = s] ELSE md
  BY DEF AssignSor
<1>2. /\ dpc = "assign" /\ dpc' = dpc /\ did \in Outputs /\ did' = did + 1 /\ edid' = edid
      /\ phase' = phase
  BY DEF AssignSor, pushing
<1>3. phase = 0 /\ did \in Nat /\ did # 0
  BY <1>2, OutputNumbers DEF PhaseInv, Modesetting
<1>4. ChoiceType'
  BY <1>1, <1>2, <1>3 DEF ChoiceInv, ChoiceType
<1>5. CASE did \in conn /\ s # NoSor /\ Mine(did)
  <2>1. md' = [md EXCEPT !.sor = s] /\ did = md.did /\ sors'[did] = s
    BY <1>1, <1>2, <1>5 DEF Mine, ChoiceInv, ChoiceType
  <2>2. /\ md'.did = did /\ md'.sor = s /\ md'.edid = md.edid /\ md'.proto = md.proto
    BY <2>1 DEF ChoiceInv, ChoiceType
  <2> QED BY <1>2, <1>3, <1>4, <2>1, <2>2 DEF ChoiceInv, PhaseInv, Modesetting
<1>6. CASE ~(did \in conn /\ s # NoSor /\ Mine(did))
  <2>1. md' = md
    BY <1>1, <1>6
  <2>2. md.sor # NoSor => sors'[md.did] = sors[md.did] /\ md.did < did'
    <3> SUFFICES ASSUME md.sor # NoSor PROVE sors'[md.did] = sors[md.did] /\ md.did < did'
      OBVIOUS
    <3>1. md.did < did /\ md.did \in Outputs
      BY <1>2 DEF ChoiceInv, ChoiceType
    <3>2. md.did \in Nat /\ md.did # did
      BY <1>3, <3>1, OutputNumbers
    <3> QED BY <1>1, <1>2, <1>3, <3>1, <3>2 DEF ChoiceInv, ChoiceType
  <2> QED BY <1>2, <1>3, <1>4, <2>1, <2>2 DEF ChoiceInv, PhaseInv, Modesetting
<1> QED BY <1>5, <1>6

LEMMA ChosenTiming ==
    ASSUME ChoiceType
    PROVE  /\ md.edid.t \in TimingFields /\ md.edid.t \in Timings \cup {NoTiming}
           /\ Timing = md.edid.t
           /\ IsTiming(md.edid.t) => Sound(md.edid.t)
<1>1. NoTiming \in TimingFields
  <2>1. 0 \in Bits(16) /\ 0 \in Bits(12) /\ 0 \in Bits(10) /\ 0 \in Bits(6)
    BY SMT DEF Bits
  <2> QED BY <2>1, SMT DEF NoTiming, TimingFields
<1>2. md.edid.t \in Timings \cup {NoTiming}
  BY DEF ChoiceType, EdidType
<1>3. md.edid.t \in TimingFields /\ (IsTiming(md.edid.t) => Sound(md.edid.t))
  <2>1. CASE md.edid.t \in Timings
    BY <2>1, TimingAssumption
  <2>2. CASE md.edid.t = NoTiming
    BY <1>1, <2>2, SMT DEF IsTiming, NoTiming
  <2> QED BY <1>2, <2>1, <2>2
<1>4. Timing = md.edid.t
  <2>1. PICK t, d : t = md.edid.t /\ d = Dtd(t)
    OBVIOUS
  <2>2. nv_edid_parse_dtd(d) = t
    BY <1>3, <2>1, DescriptorRead
  <2> QED BY <2>1, <2>2 DEF Timing
<1> QED BY <1>2, <1>3, <1>4

LEMMA ChoiceStep ==
    ASSUME ChoiceInv, PhaseInv, [DisplayNext]_dvars
    PROVE  ChoiceInv' /\ PhaseInv'
<1>1. CASE Layers3And4
  <2>1. /\ dpc \in Layer3 \cup Layer4 /\ dpc' \in Layer3 \cup Layer4 \cup {"common", "end"}
        /\ UNCHANGED <<did, edid, md, sors, phase>>
    BY <1>1, RmStepMoves DEF Layers3And4, picked, pushing
  <2>2. md.sor = NoSor /\ phase = 0
    BY <2>1, NoSorYet DEF Layer3, Layer4, Modesetting
  <2> QED BY <2>1, <2>2 DEF ChoiceInv, ChoiceType, PhaseInv, Steps, Layer3, Layer4, Modesetting
<1>2. CASE Common \/ Heads
  <2>1. /\ dpc \in {"common", "heads"} /\ dpc' \in {"heads", "connect", "end"}
        /\ UNCHANGED <<did, edid, md, sors, phase>>
    BY <1>2 DEF Common, Heads, picked, pushing
  <2>2. md.sor = NoSor /\ phase = 0
    BY <2>1, NoSorYet DEF Modesetting
  <2> QED BY <2>1, <2>2 DEF ChoiceInv, ChoiceType, PhaseInv, Steps, Modesetting
<1>3. CASE ConnectState \/ Root \/ CoreChannel
  <2>1. /\ dpc \in {"connect", "scan", "core"} /\ dpc' \in {"scan", "core", "assign", "end"}
        /\ UNCHANGED <<md, sors, phase>>
    BY <1>3 DEF ConnectState, Root, CoreChannel, To, pushing
  <2>2. did' \in {1, did} /\ edid' \in {NoEdid, edid}
    BY <1>3 DEF ConnectState, Root, CoreChannel
  <2>3. md.sor = NoSor /\ phase = 0
    BY <2>1, NoSorYet DEF Modesetting
  <2>4. NoEdid \in EdidType
    BY DEF NoEdid, EdidType
  <2>5. ChoiceType'
    BY <2>1, <2>2, <2>4 DEF ChoiceInv, ChoiceType, Steps
  <2> QED BY <2>1, <2>3, <2>5 DEF ChoiceInv, PhaseInv, Modesetting
<1>4. CASE WindowChannel
  <2>1. /\ dpc = "assign" /\ dpc' \in {"mode", "end"} /\ did' = 0
        /\ UNCHANGED <<edid, md, sors, phase>>
        /\ dpc' = "mode" => md.did # 0 /\ md.sor # NoSor
    BY <1>4 DEF WindowChannel, pushing
  <2>2. phase = 0
    BY <2>1 DEF PhaseInv, Modesetting
  <2>3. ChoiceType'
    BY <2>1 DEF ChoiceInv, ChoiceType, Steps
  <2> QED BY <2>1, <2>2, <2>3 DEF ChoiceInv, PhaseInv, Modesetting
<1>5. CASE Mode
  <2>1. /\ dpc = "mode" /\ dpc' \in {"ctxdma", "end"}
        /\ dpc' = "ctxdma" => IsTiming(Timing)
        /\ UNCHANGED <<did, edid, md, sors, phase>>
    BY <1>5 DEF Mode, picked, pushing
  <2>2. phase = 0 /\ (dpc' = "ctxdma" => IsTiming(md.edid.t))
    BY <2>1, ChosenTiming DEF ChoiceInv, PhaseInv, Modesetting
  <2>3. ChoiceType'
    BY <2>1 DEF ChoiceInv, ChoiceType, Steps, Modesetting
  <2> QED BY <2>1, <2>2, <2>3 DEF ChoiceInv, PhaseInv, Modesetting
<1>6. CASE CtxDma \/ CopyMethods \/ Kick \/ PollGet \/ Confirm
  <2>1. UNCHANGED <<did, edid, md, sors>>
    BY <1>6 DEF CtxDma, CopyMethods, Kick, PollGet, Confirm, picked
  <2>2. /\ phase \in 0 .. 4
        /\ \/ dpc = "ctxdma" /\ dpc' = "copy" /\ phase' = 1
           \/ dpc = "copy" /\ dpc' = "kick" /\ phase' = phase
           \/ dpc = "kick" /\ dpc' = "poll" /\ phase' = phase
           \/ dpc = "poll" /\ dpc' = "copy" /\ phase < 4 /\ phase' = phase + 1
           \/ dpc = "poll" /\ dpc' = "confirm" /\ ~(phase < 4) /\ phase' = phase
           \/ dpc = "confirm" /\ dpc' = "end" /\ phase' = phase
    BY <1>6 DEF CtxDma, CopyMethods, Kick, PollGet, Confirm, To, pushing, PhaseInv
  <2>3. PhaseInv'
    BY <2>2 DEF PhaseInv, Modesetting
  <2>4. dpc \in Modesetting /\ dpc' \in (Modesetting \ {"ctxdma"}) \cup {"end"}
    BY <2>2 DEF Modesetting
  <2>5. ChoiceType'
    BY <2>1, <2>4 DEF ChoiceInv, ChoiceType, Steps, Modesetting
  <2> QED BY <2>1, <2>3, <2>4, <2>5 DEF ChoiceInv, Modesetting
<1>7. CASE UNCHANGED <<dpc, picked, phase>>
  BY <1>7 DEF picked, ChoiceInv, ChoiceType, PhaseInv
<1>8. CASE Supervisor \/ FlipDone \/ (\E c \in Channels : Fetch(c)) \/ UNCHANGED dvars
  BY <1>7, <1>8 DEF Supervisor, FlipDone, Fetch, dvars, pushing
<1> QED BY <1>1, <1>2, <1>3, <1>4, <1>5, <1>6, <1>8, ScanChoice, AssignChoice DEF DisplayNext

-----------------------------------------------------------------------------
(* What is written and what is fetched.                                    *)

\* After the surface is described only the four phases and the hardware are left.
LEMMA PhaseSteps ==
    ASSUME PhaseInv, phase # 0, [DisplayNext]_dvars
    PROVE  \/ CopyMethods \/ Kick \/ PollGet \/ Confirm
           \/ \E c \in Channels : Fetch(c)
           \/ Supervisor \/ FlipDone \/ UNCHANGED dvars
<1>1. dpc \in (Modesetting \ {"ctxdma"}) \cup {"end"}
  BY DEF PhaseInv
<1>2. ~RmStep
  BY <1>1, RmStepMoves DEF Layer3, Layer4, Modesetting
<1>3. ~(Common \/ Heads \/ ConnectState \/ ScanOutput \/ Root \/ CoreChannel \/ AssignSor
          \/ WindowChannel \/ Mode \/ CtxDma)
  BY <1>1 DEF Common, Heads, ConnectState, ScanOutput, Root, CoreChannel, AssignSor, WindowChannel,
              Mode, CtxDma, To, Modesetting
<1> QED BY <1>2, <1>3 DEF DisplayNext, Layers3And4

\* Before it nothing is written, and nothing the hardware has changes but by itself.
LEMMA EarlySteps ==
    ASSUME PhaseInv, phase = 0, [DisplayNext]_dvars
    PROVE  \/ UNCHANGED <<efi, pb, put, cdone, scan, hwvars>> /\ phase' = 0 /\ dpc' # "copy"
           \/ CtxDma
           \/ \E c \in Channels : Fetch(c)
           \/ Supervisor \/ FlipDone
<1>1. CASE Layers3And4
  BY <1>1, RmStepMoves DEF Layers3And4, pushing, options, Layer3, Layer4
<1>2. CASE Common \/ Heads \/ ConnectState \/ ScanOutput \/ Root
  BY <1>2 DEF Common, Heads, ConnectState, ScanOutput, Root, To, pushing, options
<1>3. CASE CoreChannel \/ AssignSor \/ WindowChannel \/ Mode
  BY <1>3 DEF CoreChannel, AssignSor, WindowChannel, Mode, pushing, options
<1>4. CASE CopyMethods \/ Kick \/ PollGet \/ Confirm
  BY <1>4 DEF CopyMethods, Kick, PollGet, Confirm, To, PhaseInv
<1>5. CASE UNCHANGED dvars
  BY <1>5 DEF dvars, pushing, options, PhaseInv
<1> QED BY <1>1, <1>2, <1>3, <1>4, <1>5 DEF DisplayNext

LEMMA Settled ==
    ASSUME PhaseInv, phase # 0, [DisplayNext]_dvars
    PROVE  md' = md /\ sors' = sors /\ efi' = efi /\ fb' = fb /\ inst' = inst /\ phase' # 0
<1>1. UNCHANGED <<md, sors, efi, fb, inst>>
  BY PhaseSteps DEF CopyMethods, Kick, PollGet, Confirm, Fetch, Supervisor, FlipDone, dvars,
                    picked, options
<1>2. phase \in 1 .. 4
  BY DEF PhaseInv
<1>3. phase' = phase \/ phase' = phase + 1
  <2>1. CASE CopyMethods \/ Kick \/ PollGet \/ Confirm
    BY <2>1 DEF CopyMethods, Kick, PollGet, Confirm, pushing
  <2>2. CASE (\E c \in Channels : Fetch(c)) \/ Supervisor \/ FlipDone \/ UNCHANGED dvars
    BY <2>2 DEF Fetch, Supervisor, FlipDone, dvars, pushing
  <2> QED BY <2>1, <2>2, PhaseSteps
<1> QED BY <1>1, <1>2, <1>3

\* The concatenations, word by word.
IsPair(u, S, a, b)      == u \in Seq(S) /\ Len(u) = 2 /\ u[1] = a /\ u[2] = b
IsTriple(u, S, a, b, c) == u \in Seq(S) /\ Len(u) = 3 /\ u[1] = a /\ u[2] = b /\ u[3] = c
IsFive(u, S, a, b, c, d, e) ==
    u \in Seq(S) /\ Len(u) = 5 /\ u[1] = a /\ u[2] = b /\ u[3] = c /\ u[4] = d /\ u[5] = e
IsSeven(u, S, a, b, c, d, e, f, g) ==
    /\ u \in Seq(S) /\ Len(u) = 7 /\ u[1] = a /\ u[2] = b /\ u[3] = c /\ u[4] = d /\ u[5] = e
    /\ u[6] = f /\ u[7] = g

LEMMA Joined ==
    ASSUME NEW S, NEW s \in Seq(S), NEW t \in Seq(S)
    PROVE  /\ s \o t \in Seq(S) /\ Len(s \o t) = Len(s) + Len(t)
           /\ \A i \in 1 .. Len(s) : (s \o t)[i] = s[i]
           /\ \A i \in 1 .. Len(t) : (s \o t)[Len(s) + i] = t[i]
BY ConcatProperties

LEMMA Pair ==
    ASSUME NEW S, NEW a \in S, NEW b \in S
    PROVE  IsPair(<<a>> \o <<b>>, S, a, b)
<1>1. PICK p, q : p = <<a>> /\ q = <<b>>
  OBVIOUS
<1>2. p \in Seq(S) /\ Len(p) = 1 /\ p[1] = a /\ q \in Seq(S) /\ Len(q) = 1 /\ q[1] = b
  BY <1>1
<1>3. /\ p \o q \in Seq(S) /\ Len(p \o q) = Len(p) + Len(q)
      /\ \A i \in 1 .. Len(p) : (p \o q)[i] = p[i]
      /\ \A i \in 1 .. Len(q) : (p \o q)[Len(p) + i] = q[i]
  BY ONLY <1>2, Joined
<1>4. (p \o q)[1] = p[1] /\ (p \o q)[1 + 1] = q[1]
  BY ONLY <1>2, <1>3
<1> QED BY <1>1, <1>2, <1>3, <1>4 DEF IsPair

LEMMA Triple ==
    ASSUME NEW S, NEW a \in S, NEW b \in S, NEW c \in S
    PROVE  IsTriple((<<a>> \o <<b>>) \o <<c>>, S, a, b, c)
<1>1. PICK p, q : p = <<a>> \o <<b>> /\ q = <<c>>
  OBVIOUS
<1>2. IsPair(p, S, a, b)
  BY ONLY a \in S, b \in S, Pair, <1>1, Zenon
<1>3. p \in Seq(S) /\ Len(p) = 2 /\ p[1] = a /\ p[2] = b
  BY ONLY <1>2 DEF IsPair
<1>4. q \in Seq(S) /\ Len(q) = 1 /\ q[1] = c
  BY <1>1
<1>5. /\ p \o q \in Seq(S) /\ Len(p \o q) = Len(p) + Len(q)
      /\ \A i \in 1 .. Len(p) : (p \o q)[i] = p[i]
      /\ \A i \in 1 .. Len(q) : (p \o q)[Len(p) + i] = q[i]
  BY ONLY <1>3, <1>4, Joined
<1>6. (p \o q)[1] = p[1] /\ (p \o q)[2] = p[2] /\ (p \o q)[2 + 1] = q[1]
  BY ONLY <1>3, <1>4, <1>5
<1>7. IsTriple(p \o q, S, a, b, c)
  BY ONLY <1>3, <1>4, <1>5, <1>6 DEF IsTriple
<1> QED BY ONLY <1>1, <1>7, Zenon

LEMMA Five ==
    ASSUME NEW S, NEW s, NEW t, NEW a, NEW b, NEW c, NEW d, NEW e,
           IsPair(s, S, a, b), IsTriple(t, S, c, d, e)
    PROVE  IsFive(s \o t, S, a, b, c, d, e)
<1>9. s \in Seq(S) /\ t \in Seq(S)
  BY DEF IsPair, IsTriple
<1>1. Len(s) = 2 /\ Len(t) = 3
  BY DEF IsPair, IsTriple
<1>2. /\ s \o t \in Seq(S) /\ Len(s \o t) = Len(s) + Len(t)
      /\ \A i \in 1 .. Len(s) : (s \o t)[i] = s[i]
      /\ \A i \in 1 .. Len(t) : (s \o t)[Len(s) + i] = t[i]
  BY ONLY <1>9, Joined
<1>3. PICK z : z = s \o t
  OBVIOUS
<1>4. /\ z \in Seq(S) /\ Len(z) = Len(s) + Len(t)
      /\ \A i \in 1 .. Len(s) : z[i] = s[i]
      /\ \A i \in 1 .. Len(t) : z[Len(s) + i] = t[i]
  BY ONLY <1>2, <1>3, Zenon
<1>5. z[1] = s[1] /\ z[2] = s[2]
  BY ONLY <1>1, <1>4
<1>6. z[2 + 1] = t[1] /\ z[2 + 2] = t[2] /\ z[2 + 3] = t[3]
  BY ONLY <1>1, <1>4
<1>7. Len(z) = 5
  BY ONLY <1>1, <1>4
<1>8. IsFive(z, S, a, b, c, d, e)
  BY <1>4, <1>5, <1>6, <1>7 DEF IsPair, IsTriple, IsFive
<1> QED BY ONLY <1>3, <1>8, Zenon

LEMMA Seven ==
    ASSUME NEW S, NEW s, NEW t, NEW a, NEW b, NEW c, NEW d, NEW e, NEW f, NEW g,
           IsFive(s, S, a, b, c, d, e), IsPair(t, S, f, g)
    PROVE  IsSeven(s \o t, S, a, b, c, d, e, f, g)
<1>9. s \in Seq(S) /\ t \in Seq(S)
  BY DEF IsPair, IsFive
<1>1. Len(s) = 5 /\ Len(t) = 2
  BY DEF IsPair, IsFive
<1>2. /\ s \o t \in Seq(S) /\ Len(s \o t) = Len(s) + Len(t)
      /\ \A i \in 1 .. Len(s) : (s \o t)[i] = s[i]
      /\ \A i \in 1 .. Len(t) : (s \o t)[Len(s) + i] = t[i]
  BY ONLY <1>9, Joined
<1>3. PICK z : z = s \o t
  OBVIOUS
<1>4. /\ z \in Seq(S) /\ Len(z) = Len(s) + Len(t)
      /\ \A i \in 1 .. Len(s) : z[i] = s[i]
      /\ \A i \in 1 .. Len(t) : z[Len(s) + i] = t[i]
  BY ONLY <1>2, <1>3, Zenon
<1>5. \A i \in 1 .. 5 : z[i] = s[i]
  BY ONLY <1>1, <1>4
<1>6. z[5 + 1] = t[1] /\ z[5 + 2] = t[2]
  BY ONLY <1>1, <1>4
<1>7. Len(z) = 7
  BY ONLY <1>1, <1>4
<1>8. IsSeven(z, S, a, b, c, d, e, f, g)
  BY <1>4, <1>5, <1>6, <1>7 DEF IsPair, IsFive, IsSeven
<1> QED BY ONLY <1>3, <1>8, Zenon

LEMMA WrittenMethods ==
    ASSUME NEW n \in 0 .. 4, NEW c \in Channels
    PROVE  Len(WrittenAt(n, c)) = LengthAt(n, c) /\ \A i \in 1 .. LengthAt(n, c) : WrittenAt(n, c)[i] = MethodAt(c, i)
<1>1. PICK a, b, d, e, f, g, h : /\ a = Plain("init") /\ b = Plain("update") /\ d = CoreSor[1]
                                 /\ e = CoreModeset[1] /\ f = Plain("depth") /\ g = WindowImage[1]
                                 /\ h = Plain("flip")
  OBVIOUS
<1>2. PICK S : S = {a, b, d, e, f, g, h}
  OBVIOUS
<1>3. /\ Batch(1) = <<a>> \o <<b>> /\ Batch(2) = (<<d>> \o <<e>>) \o <<b>>
      /\ Batch(3) = <<f>> \o <<b>> /\ Batch(4) = <<g>> \o <<h>>
  <2>1. /\ CoreInit = <<a>> /\ CoreUpdate = <<b>> /\ CoreSor = <<d>> /\ CoreModeset = <<e>>
        /\ OutputResource = <<f>> /\ WindowImage = <<g>> /\ WindowUpdate = <<h>>
    BY <1>1 DEF CoreInit, CoreUpdate, CoreSor, CoreModeset, OutputResource, WindowImage, WindowUpdate
  <2> QED BY <2>1 DEF Batch
<1>4. /\ IsPair(Batch(1), S, a, b) /\ IsTriple(Batch(2), S, d, e, b) /\ IsPair(Batch(3), S, f, b)
      /\ IsPair(Batch(4), S, g, h)
  BY <1>2, <1>3, Pair, Triple
<1>5. IsFive(Batch(1) \o Batch(2), S, a, b, d, e, b)
  BY <1>4, Five
<1>6. IsSeven((Batch(1) \o Batch(2)) \o Batch(3), S, a, b, d, e, b, f, b)
  BY <1>4, <1>5, Seven
<1>7. /\ CoreMethods[1] = a /\ CoreMethods[2] = b /\ CoreMethods[3] = d /\ CoreMethods[4] = e
      /\ CoreMethods[5] = b /\ CoreMethods[6] = f /\ CoreMethods[7] = b
      /\ WindowMethods[1] = g /\ WindowMethods[2] = h
  BY <1>1 DEF CoreMethods, WindowMethods
<1>8. CASE c = "core"
  <2>1. CASE n = 0
    BY <1>8, <2>1 DEF WrittenAt, LengthAt
  <2>2. CASE n = 1
    BY <1>4, <1>7, <1>8, <2>2 DEF WrittenAt, LengthAt, MethodAt, IsPair
  <2>3. CASE n = 2
    BY <1>5, <1>7, <1>8, <2>3 DEF WrittenAt, LengthAt, MethodAt, IsFive
  <2>4. CASE n \in 3 .. 4
    <3>1. PICK w : w = WrittenAt(n, c)
      OBVIOUS
    <3>2. IsSeven(w, S, a, b, d, e, b, f, b) /\ LengthAt(n, c) = 7
      BY <1>6, <1>8, <2>4, <3>1 DEF WrittenAt, LengthAt
    <3>3. Len(w) = 7 /\ \A i \in 1 .. 7 : w[i] = CoreMethods[i]
      BY <1>7, <3>2 DEF IsSeven
    <3> QED BY <1>8, <3>1, <3>2, <3>3 DEF MethodAt
  <2> QED BY <2>1, <2>2, <2>3, <2>4
<1>9. CASE c # "core"
  <2>1. CASE n = 4
    BY <1>4, <1>7, <1>9, <2>1 DEF WrittenAt, LengthAt, MethodAt, IsPair
  <2>2. CASE n # 4
    BY <1>9, <2>2 DEF WrittenAt, LengthAt
  <2> QED BY <2>1, <2>2
<1> QED BY <1>8, <1>9

\* The sequences behind a phase, method names included.
LEMMA MethodNames ==
    ASSUME NEW c \in Channels, NEW i \in 1 .. LengthAt(4, c)
    PROVE  /\ MethodAt(c, i).m # "garbage"
           /\ c = "core" => MethodAt(c, i).m \notin {"image", "flip"}
           /\ c = "window" => MethodAt(c, i).m \notin {"update", "sor", "mode", "depth"}
<1>1. /\ CoreMethods[1].m = "init" /\ CoreMethods[2].m = "update" /\ CoreMethods[3].m = "sor"
      /\ CoreMethods[4].m = "mode" /\ CoreMethods[5].m = "update" /\ CoreMethods[6].m = "depth"
      /\ CoreMethods[7].m = "update" /\ WindowMethods[1].m = "image" /\ WindowMethods[2].m = "flip"
  BY DEF CoreMethods, WindowMethods, CoreSor, CoreModeset, WindowImage, Plain, Method
<1>2. CASE c = "core"
  <2>1. i \in 1 .. 7 /\ MethodAt(c, i) = CoreMethods[i]
    BY <1>2 DEF LengthAt, MethodAt
  <2> QED BY <1>1, <1>2, <2>1
<1>3. CASE c = "window"
  <2>1. i \in 1 .. 2 /\ MethodAt(c, i) = WindowMethods[i]
    BY <1>3 DEF LengthAt, MethodAt
  <2> QED BY <1>1, <1>3, <2>1
<1> QED BY <1>2, <1>3 DEF Channels

LEMMA NextBatch ==
    ASSUME NEW n \in 1 .. 4
    PROVE  /\ WrittenAt(n - 1, Channel(n)) \o Batch(n) = WrittenAt(n, Channel(n))
           /\ \A c \in Channels : c # Channel(n) => WrittenAt(n - 1, c) = WrittenAt(n, c)
           /\ \A c \in Channels : LengthAt(n - 1, c) <= LengthAt(n, c)
<1>1. <<>> \o Batch(1) = Batch(1) /\ <<>> \o Batch(4) = Batch(4)
  <2>1. PICK a, b, g, h : a = Plain("init") /\ b = Plain("update") /\ g = WindowImage[1] /\ h = Plain("flip")
    OBVIOUS
  <2>2. PICK S : S = {a, b, g, h}
    OBVIOUS
  <2>3. CoreInit = <<a>> /\ CoreUpdate = <<b>> /\ WindowImage = <<g>> /\ WindowUpdate = <<h>>
    BY <2>1 DEF CoreInit, CoreUpdate, WindowImage, WindowUpdate
  <2>4. Batch(1) = <<a>> \o <<b>> /\ Batch(4) = <<g>> \o <<h>>
    BY <2>3 DEF Batch
  <2>5. IsPair(Batch(1), S, a, b) /\ IsPair(Batch(4), S, g, h)
    BY <2>2, <2>4, Pair
  <2>6. Batch(1) \in Seq(S) /\ Batch(4) \in Seq(S)
    BY <2>5 DEF IsPair
  <2> QED BY ONLY <2>6, ConcatEmptySeq
<1>2. CASE n = 1
  BY <1>1, <1>2 DEF WrittenAt, LengthAt, Channel, Channels
<1>3. CASE n = 2
  BY <1>3 DEF WrittenAt, LengthAt, Channel, Channels
<1>4. CASE n = 3
  BY <1>4 DEF WrittenAt, LengthAt, Channel, Channels
<1>5. CASE n = 4
  BY <1>1, <1>5 DEF WrittenAt, LengthAt, Channel, Channels
<1> QED BY <1>2, <1>3, <1>4, <1>5

LEMMA WrittenKept ==
    ASSUME md' = md, NEW n, NEW c
    PROVE  WrittenAt(n, c)' = WrittenAt(n, c)
<1>1. Timing' = Timing /\ Pitch' = Pitch /\ CoreSor' = CoreSor
  BY DEF Timing, Pitch, CoreSor
<1>2. CoreModeset' = CoreModeset /\ WindowImage' = WindowImage
  BY <1>1 DEF CoreModeset, WindowImage
<1>3. Batch(1)' = Batch(1) /\ Batch(2)' = Batch(2) /\ Batch(3)' = Batch(3) /\ Batch(4)' = Batch(4)
  BY <1>1, <1>2 DEF Batch, CoreInit, CoreUpdate, OutputResource, WindowUpdate
<1> QED BY <1>3 DEF WrittenAt

\* What the hardware fetches is the method that is next.
LEMMA FetchedMethod ==
    ASSUME PhaseInv, PushInv, NEW c \in Channels, Fetch(c)
    PROVE  /\ phase # 0 /\ get[c] \in Nat /\ get[c] < LengthAt(4, c) /\ get[c] < Length(c)
           /\ get'[c] = get[c] + 1 /\ (\A k \in Channels : k # c => get'[k] = get[k])
           /\ Execute(MethodAt(c, get[c] + 1))
<1>1. /\ get[c] \in Nat /\ put[c] \in Nat /\ get[c] < put[c] /\ put[c] <= Length(c)
      /\ pb[c] = Written(c) /\ get' = [get EXCEPT ![c] = @ + 1]
  BY DEF Fetch, PushInv
<1>2. Copied \in 0 .. 4 /\ (phase = 0 => Copied = 0)
  BY DEF PhaseInv, Copied
<1>3. Length(c) \in Nat /\ Length(c) <= LengthAt(4, c) /\ (Copied = 0 => Length(c) = 0)
  BY <1>2 DEF Length, LengthAt
<1>4. get[c] < Length(c) /\ get[c] + 1 \in 1 .. Length(c)
  BY <1>1, <1>3
<1>5. Len(pb[c]) = Length(c) /\ pb[c][get[c] + 1] = MethodAt(c, get[c] + 1)
  BY <1>1, <1>2, <1>4, WrittenMethods DEF Length, Written
<1>6. Execute(IF get[c] < Len(pb[c]) THEN pb[c][get[c] + 1] ELSE Plain("garbage"))
  BY DEF Fetch
<1>7. Execute(MethodAt(c, get[c] + 1))
  BY <1>4, <1>5, <1>6
<1>8. get'[c] = get[c] + 1 /\ \A k \in Channels : k # c => get'[k] = get[k]
  BY <1>1 DEF PushInv
<1>9. phase # 0 /\ get[c] < LengthAt(4, c)
  <2>1. Length(c) \in Nat /\ LengthAt(4, c) \in Nat /\ Length(c) <= LengthAt(4, c)
    BY <1>3 DEF LengthAt
  <2>2. get[c] < LengthAt(4, c)
    BY <1>1, <1>4, <2>1
  <2>3. Length(c) # 0
    BY <1>1, <1>4
  <2> QED BY <1>2, <1>3, <2>2, <2>3
<1> QED BY <1>1, <1>3, <1>4, <1>7, <1>8, <1>9, Zenon

LEMMA PushStep ==
    ASSUME PhaseInv, PhaseInv', PushInv, [DisplayNext]_dvars
    PROVE  PushInv'
<1>1. ASSUME NEW c \in Channels, Fetch(c) PROVE PushInv'
  <2>1. UNCHANGED <<dpc, phase, pb, put, md>>
    BY <1>1 DEF Fetch, pushing, picked
  <2>2. /\ get[c] \in Nat /\ get[c] < LengthAt(4, c) /\ get'[c] = get[c] + 1
        /\ \A k \in Channels : k # c => get'[k] = get[k]
        /\ Execute(MethodAt(c, get[c] + 1))
    BY <1>1, FetchedMethod
  <2>3. get' \in [Channels -> Nat] /\ get'[c] <= put[c]
    BY <1>1, <2>2 DEF Fetch, PushInv
  <2>4. LengthAt(4, c) \in Nat
    BY DEF LengthAt
  <2>5. MethodAt(c, get[c] + 1).m # "garbage"
    BY <2>2, <2>4, MethodNames
  <2>6. ~stray'
    BY <2>2, <2>5 DEF Execute, PushInv
  <2>7. \A k \in Channels : Written(k)' = Written(k) /\ Length(k)' = Length(k)
    BY <2>1, WrittenKept DEF Written, Length, Copied
  <2> QED BY <2>1, <2>2, <2>3, <2>6, <2>7 DEF PushInv
<1>2. CASE phase = 0
  <2>1. Copied = 0
    BY <1>2 DEF PhaseInv, Copied
  <2>2. \A c \in Channels : Written(c) = <<>> /\ Length(c) = 0
    BY <2>1 DEF Written, WrittenAt, Length, LengthAt, Channels
  <2>3. ~(\E c \in Channels : Fetch(c))
    BY <1>2, FetchedMethod
  <2>4. UNCHANGED <<pb, put, get, stray>> /\ Copied' = 0
    <3>1. CASE UNCHANGED <<efi, pb, put, cdone, scan, hwvars>> /\ phase' = 0 /\ dpc' # "copy"
      BY <3>1 DEF hwvars, Copied
    <3>2. CASE CtxDma
      BY <3>2 DEF CtxDma, To, hwvars, Copied
    <3>3. CASE Supervisor \/ FlipDone
      BY <1>2, <2>1, <3>3 DEF Supervisor, FlipDone, pushing, Copied
    <3> QED BY <1>2, <2>3, <3>1, <3>2, <3>3, EarlySteps
  <2>5. \A c \in Channels : Written(c)' = <<>> /\ Length(c)' = 0
    BY <2>4 DEF Written, WrittenAt, Length, LengthAt, Channels
  <2> QED BY <2>2, <2>4, <2>5 DEF PushInv
<1>3. CASE phase # 0
  <2>1. md' = md /\ phase \in 1 .. 4
    BY <1>3, Settled DEF PhaseInv
  <2>2. CASE CopyMethods
    <3>1. /\ Copied = phase - 1 /\ Copied' = phase /\ UNCHANGED <<put, get, stray>>
          /\ pb' = [pb EXCEPT ![Channel(phase)] = @ \o Batch(phase)]
      BY <2>2 DEF CopyMethods, To, Copied, hwvars
    <3>2. /\ WrittenAt(phase - 1, Channel(phase)) \o Batch(phase) = WrittenAt(phase, Channel(phase))
          /\ \A c \in Channels : c # Channel(phase) => WrittenAt(phase - 1, c) = WrittenAt(phase, c)
          /\ \A c \in Channels : LengthAt(phase - 1, c) <= LengthAt(phase, c)
      BY <2>1, NextBatch
    <3>3. \A c \in Channels : Written(c)' = WrittenAt(phase, c)
      BY <2>1, <3>1, WrittenKept DEF Written
    <3>4. Channel(phase) \in Channels
      BY DEF Channel, Channels
    <3>5. pb' = [c \in Channels |-> Written(c)']
      BY <3>1, <3>2, <3>3, <3>4 DEF PushInv, Written
    <3>6. \A c \in Channels : Length(c) <= Length(c)'
      BY <3>1, <3>2 DEF Length
    <3>7. \A c \in Channels : put[c] \in Nat /\ Length(c) \in Nat /\ Length(c)' \in Nat
      BY <3>1, <2>1 DEF PushInv, Length, LengthAt
    <3>8. \A c \in Channels : get[c] <= put[c] /\ put[c] <= Length(c)'
      <4> SUFFICES ASSUME NEW c \in Channels PROVE get[c] <= put[c] /\ put[c] <= Length(c)'
        OBVIOUS
      <4>1. get[c] <= put[c] /\ put[c] <= Length(c)
        BY DEF PushInv
      <4> QED BY <3>6, <3>7, <4>1
    <3>9. ~stray' /\ put' = put /\ get' = get
      BY <3>1 DEF PushInv
    <3> QED BY <3>5, <3>8, <3>9 DEF PushInv
  <2>3. CASE Kick
    <3>1. /\ Copied' = Copied /\ UNCHANGED <<pb, get, stray>>
          /\ put' = [put EXCEPT ![Channel(phase)] = Offset(Channel(phase))]
      BY <2>3 DEF Kick, To, Copied, hwvars
    <3>2. Channel(phase) \in Channels /\ Copied \in 0 .. 4
      BY <2>1 DEF Channel, Channels, Copied
    <3>3. Offset(Channel(phase)) = Length(Channel(phase))
      BY <3>2, WrittenMethods DEF Offset, PushInv, Written, Length
    <3>4. \A c \in Channels : Written(c)' = Written(c) /\ Length(c)' = Length(c) /\ Length(c) \in Nat
      BY <2>1, <3>1, WrittenKept DEF Written, Length, LengthAt
    <3>5. put' \in [Channels -> Nat]
          /\ \A c \in Channels : put'[c] <= Length(c) /\ get[c] <= put'[c]
      <4>1. PICK k \in Channels : k = Channel(phase)
        BY <3>2
      <4>2. put' = [put EXCEPT ![k] = Length(k)] /\ Length(k) \in Nat
        BY <3>1, <3>3, <3>4, <4>1
      <4>3. \A c \in Channels : /\ put[c] \in Nat /\ get[c] \in Nat /\ get[c] <= put[c]
                               /\ put[c] <= Length(c) /\ Length(c) \in Nat
        BY <3>4 DEF PushInv
      <4>4. put \in [Channels -> Nat]
        BY DEF PushInv
      <4> QED BY <4>2, <4>3, <4>4
    <3> QED BY <3>1, <3>4, <3>5 DEF PushInv
  <2>4. CASE UNCHANGED <<pb, put, get, stray>> /\ Copied' = Copied
    <3>1. \A c \in Channels : Written(c)' = Written(c) /\ Length(c)' = Length(c)
      BY <2>1, <2>4, WrittenKept DEF Written, Length
    <3> QED BY <2>4, <3>1 DEF PushInv
  <2>5. CASE PollGet \/ Confirm
    BY <2>1, <2>4, <2>5 DEF PollGet, Confirm, To, hwvars, pushing, Copied
  <2>6. CASE Supervisor \/ FlipDone \/ UNCHANGED dvars
    BY <2>4, <2>6 DEF Supervisor, FlipDone, dvars, hwvars, pushing, Copied
  <2> QED BY <1>1, <1>3, <2>2, <2>3, <2>5, <2>6, PhaseSteps
<1> QED BY <1>2, <1>3

-----------------------------------------------------------------------------
(* The states of the core channel.                                         *)

LEMMA ThreeFields ==
    ASSUME NEW A, NEW B, NEW C, NEW x \in [sor : A, head : B, depth : C],
           NEW a \in A, NEW b \in B, NEW c \in C
    PROVE  /\ [x EXCEPT !.sor = a] \in [sor : A, head : B, depth : C]
           /\ [x EXCEPT !.sor = a].sor = a /\ [x EXCEPT !.sor = a].head = x.head
           /\ [x EXCEPT !.head = b] \in [sor : A, head : B, depth : C]
           /\ [x EXCEPT !.head = b].sor = x.sor /\ [x EXCEPT !.head = b].head = b
           /\ [x EXCEPT !.depth = c] \in [sor : A, head : B, depth : C]
           /\ [x EXCEPT !.depth = c].sor = x.sor /\ [x EXCEPT !.depth = c].head = x.head
OBVIOUS

\* What the seven methods do.
LEMMA CoreEffect ==
    ASSUME ChoiceInv, phase # 0, asy \in States, NEW g \in 0 .. 6, Execute(MethodAt("core", g + 1))
    PROVE  /\ wasy' = wasy /\ asy' \in States
           /\ g \in {1, 4, 6} => latched = <<>> /\ latched' = <<asy>> /\ asy' = asy
           /\ g \notin {1, 4, 6} => latched' = latched
           /\ g = 0 => asy' = asy
           /\ g = 2 => asy'.head = asy.head /\ OurSor(asy')
           /\ g = 3 => asy'.sor = asy.sor /\ asy'.head = <<Raster(Timing)>>
           /\ g = 5 => asy'.sor = asy.sor /\ asy'.head = asy.head
<1>1. PICK m : m = MethodAt("core", g + 1)
  OBVIOUS
<1>2. /\ g = 0 => m.m = "init"
      /\ g \in {1, 4, 6} => m.m = "update"
      /\ g = 2 => m.m = "sor" /\ m.sor = <<md.sor, 1, md.proto>>
      /\ g = 3 => m.m = "mode" /\ m.t = <<Raster(Timing)>>
      /\ g = 5 => m.m = "depth"
  <2>1. /\ CoreMethods[1].m = "init" /\ CoreMethods[2].m = "update"
        /\ CoreMethods[3].m = "sor" /\ CoreMethods[3].sor = <<md.sor, 1, md.proto>>
        /\ CoreMethods[4].m = "mode" /\ CoreMethods[4].t = <<Raster(Timing)>>
        /\ CoreMethods[5].m = "update" /\ CoreMethods[6].m = "depth" /\ CoreMethods[7].m = "update"
    BY DEF CoreMethods, CoreSor, CoreModeset, Plain, Method
  <2>2. m = CoreMethods[g + 1]
    BY <1>1 DEF MethodAt
  <2> QED BY <2>1, <2>2
<1>3. /\ asy' = CASE m.m = "sor"   -> [asy EXCEPT !.sor[m.sor[1]] = Tail(m.sor)]
                  [] m.m = "mode"  -> [asy EXCEPT !.head = m.t]
                  [] m.m = "depth" -> IF armed.head # <<>> THEN [asy EXCEPT !.depth = TRUE] ELSE asy
                  [] OTHER         -> asy
      /\ IF m.m = "update" THEN latched = <<>> /\ latched' = <<asy>> ELSE UNCHANGED latched
      /\ m.m # "image" => wasy' = wasy
  <2>1. Execute(m)
    BY <1>1
  <2>2. /\ asy' = CASE m.m = "sor"   -> [asy EXCEPT !.sor[m.sor[1]] = Tail(m.sor)]
                    [] m.m = "mode"  -> [asy EXCEPT !.head = m.t]
                    [] m.m = "depth" -> IF armed.head # <<>> THEN [asy EXCEPT !.depth = TRUE] ELSE asy
                    [] OTHER         -> asy
        /\ IF m.m = "update" THEN latched = <<>> /\ latched' = <<asy>> ELSE UNCHANGED latched
    BY ONLY <2>1, Zenon DEF Execute
  <2>3. m.m # "image" => wasy' = wasy
    BY ONLY <2>1 DEF Execute
  <2> QED BY <2>2, <2>3
<1>4. asy.sor \in SorStates /\ asy.head \in HeadStates /\ asy.depth \in BOOLEAN
  BY DEF States
<1>5. CASE g \in {0, 1, 4, 6}
  BY <1>2, <1>3, <1>5
<1>6. CASE g = 2
  <2>1. md.sor \in Sors /\ md.proto \in {0, 1, 8}
    BY DEF ChoiceInv, ChoiceType, Protocols, Unread
  <2>2. PICK a : a = [asy.sor EXCEPT ![md.sor] = <<1, md.proto>>]
    OBVIOUS
  <2>3. a \in SorStates /\ a[md.sor] = <<1, md.proto>>
    BY <1>4, <2>1, <2>2 DEF SorStates
  <2>4. PICK p, q : p = md.sor /\ q = md.proto
    OBVIOUS
  <2>5. Tail(<<p, 1, q>>) = <<1, q>> /\ <<p, 1, q>>[1] = p
    OBVIOUS
  <2>6. m.sor[1] = md.sor /\ Tail(m.sor) = <<1, md.proto>>
    BY <1>2, <1>6, <2>4, <2>5
  <2>7. asy' = [asy EXCEPT !.sor[m.sor[1]] = Tail(m.sor)] /\ latched' = latched
    BY <1>2, <1>3, <1>6
  <2>8. asy' = [asy EXCEPT !.sor = a]
    BY <2>2, <2>6, <2>7
  <2>9. asy' \in States /\ asy'.sor = a /\ asy'.head = asy.head
    BY <1>4, <2>3, <2>8, ThreeFields DEF States
  <2> QED BY <1>2, <1>3, <1>6, <2>3, <2>7, <2>9 DEF OurSor
<1>7. CASE g = 3
  <2>1. Timing \in Timings \cup {NoTiming}
    BY ChosenTiming DEF ChoiceInv
  <2>2. <<Raster(Timing)>> \in HeadStates
    BY <2>1 DEF HeadStates
  <2>3. asy' = [asy EXCEPT !.head = <<Raster(Timing)>>] /\ latched' = latched
    BY <1>2, <1>3, <1>7
  <2> QED BY <1>2, <1>3, <1>4, <1>7, <2>2, <2>3, ThreeFields DEF States
<1>8. CASE g = 5
  <2>1. asy' = asy \/ asy' = [asy EXCEPT !.depth = TRUE]
    BY <1>2, <1>3, <1>8
  <2> QED BY <1>2, <1>3, <1>4, <1>8, <2>1, ThreeFields DEF States
<1> QED BY <1>5, <1>6, <1>7, <1>8

\* The window's methods leave them alone.
LEMMA WindowEffect ==
    ASSUME NEW g \in 0 .. 1, Execute(MethodAt("window", g + 1))
    PROVE  /\ asy' = asy /\ latched' = latched
           /\ g = 0 => wasy' = [fb |-> Lookup, w |-> Timing.hact, h |-> Timing.vact,
                                pitch |-> ((Pitch \div 64) % 2^13) * 64]
           /\ g = 1 => wasy' = wasy
<1>1. PICK m : m = MethodAt("window", g + 1)
  OBVIOUS
<1>2. /\ g = 0 => m.m = "image" /\ m.w = <<Timing.hact, Timing.vact, (Pitch \div 64) % 2^13>>
      /\ g = 1 => m.m = "flip"
  <2>1. /\ WindowMethods[1].m = "image" /\ WindowMethods[2].m = "flip"
        /\ WindowMethods[1].w = <<Timing.hact, Timing.vact, (Pitch \div 64) % 2^13>>
    BY DEF WindowMethods, WindowImage, Plain, Method
  <2>2. m = WindowMethods[g + 1]
    BY <1>1 DEF MethodAt
  <2> QED BY <2>1, <2>2
<1>3. /\ m.m \notin {"sor", "mode", "depth"} => asy' = asy
      /\ m.m # "update" => latched' = latched
      /\ wasy' = IF m.m = "image"
                 THEN [fb |-> Lookup, w |-> m.w[1], h |-> m.w[2], pitch |-> m.w[3] * 64] ELSE wasy
  <2>1. Execute(m)
    BY <1>1
  <2>2. wasy' = IF m.m = "image"
                THEN [fb |-> Lookup, w |-> m.w[1], h |-> m.w[2], pitch |-> m.w[3] * 64] ELSE wasy
    BY ONLY <2>1, Zenon DEF Execute
  <2>3. m.m \notin {"sor", "mode", "depth"} => asy' = asy
    BY ONLY <2>1 DEF Execute
  <2>4. m.m # "update" => latched' = latched
    BY ONLY <2>1, Zenon DEF Execute
  <2> QED BY <2>2, <2>3, <2>4
<1>4. CASE g = 0
  <2>1. PICK a, b, c : a = Timing.hact /\ b = Timing.vact /\ c = (Pitch \div 64) % 2^13
    OBVIOUS
  <2>2. m.w[1] = a /\ m.w[2] = b /\ m.w[3] = c
    BY <1>2, <1>4, <2>1
  <2>3. wasy' = [fb |-> Lookup, w |-> a, h |-> b, pitch |-> c * 64]
    BY <1>2, <1>3, <1>4, <2>2
  <2> QED BY <1>2, <1>3, <1>4, <2>1, <2>3
<1>5. CASE g = 1
  BY <1>2, <1>3, <1>5
<1> QED BY <1>4, <1>5

\* Owner and protocol of both at once, only where the firmware had the same.
LEMMA NotBoth ==
    ASSUME ChoiceInv, phase # 0, efi # md.sor, NEW x, Theirs(x)
    PROVE  ~OurSor(x) /\ x.sor[md.sor] = Dark
<1>1. md.sor \in Sors
  BY DEF ChoiceInv, ChoiceType
<1>2. x.sor[md.sor] = Dark
  BY <1>1 DEF Theirs, EfiState
<1>3. Dark[1] = 0
  BY DEF Dark
<1>4. \A p : <<1, p>>[1] = 1
  OBVIOUS
<1>5. <<1, md.proto>> # Dark
  BY <1>3, <1>4
<1> QED BY <1>2, <1>5 DEF OurSor

LEMMA EngineKept ==
    ASSUME md' = md, efi' = efi, NEW g, NEW a, NEW l, NEW r
    PROVE  EngineIs(g, a, l, r)' <=> EngineIs(g, a, l, r)
<1>1. Timing' = Timing
  BY DEF Timing
<1>2. \A x : (Theirs(x)' <=> Theirs(x)) /\ (OurSor(x)' <=> OurSor(x)) /\ (Ours(x)' <=> Ours(x))
  BY <1>1 DEF Theirs, OurSor, Ours
<1> QED BY <1>2 DEF EngineIs

LEMMA EngineStep ==
    ASSUME ChoiceInv, PhaseInv, PushInv, EngineInv, [DisplayNext]_dvars
    PROVE  EngineInv'
<1> DEFINE core == get["core"]
<1>1. /\ core \in Nat /\ "core" \in Channels /\ "window" \in Channels
      /\ EngineIs(core, asy, latched, armed) /\ efi \in Sors \cup {NoSor}
  BY DEF EngineInv, PushInv, Channels
<1>2. PICK g, a, l, r : g \in Nat /\ g = core /\ a = asy /\ l = latched /\ r = armed /\ EngineIs(g, a, l, r)
  BY <1>1
<1>3. PICK a2, l2, r2 : a2 = asy' /\ l2 = latched' /\ r2 = armed'
  OBVIOUS
<1>4. ASSUME Fetch("core") PROVE EngineInv'
  <2>1. /\ phase # 0 /\ g \in 0 .. 6 /\ core' = g + 1 /\ Execute(MethodAt("core", g + 1))
    BY <1>1, <1>2, <1>4, FetchedMethod DEF LengthAt
  <2>2. /\ a2 \in States
        /\ g \in {1, 4, 6} => l = <<>> /\ l2 = <<a>> /\ a2 = a
        /\ g \notin {1, 4, 6} => l2 = l
        /\ g = 0 => a2 = a
        /\ g = 2 => a2.head = a.head /\ OurSor(a2)
        /\ g = 3 => a2.sor = a.sor /\ a2.head = <<Raster(Timing)>>
        /\ g = 5 => a2.sor = a.sor /\ a2.head = a.head
    <3>1. asy \in States
      BY <1>1 DEF EngineIs
    <3> QED BY <1>2, <1>3, <2>1, <3>1, CoreEffect
  <2>3. md' = md /\ efi' = efi /\ r2 = r
    BY <1>2, <1>3, <1>4 DEF Fetch, picked, options
  <2>4. a \in States /\ <<a>>[1] = a /\ <<a>> # <<>>
    BY <1>2 DEF EngineIs
  <2>5. EngineIs(g + 1, a2, l2, r2)
    <3>1. CASE g \in {0, 1}
      BY <1>2, <2>2, <2>3, <2>4, <3>1 DEF EngineIs
    <3>2. CASE g = 2
      BY <1>2, <2>2, <2>3, <2>4, <3>2 DEF EngineIs, Theirs
    <3>3. CASE g = 3
      BY <1>2, <2>2, <2>3, <2>4, <3>3 DEF EngineIs, Ours, OurSor
    <3>4. CASE g = 4
      BY <1>2, <2>2, <2>3, <2>4, <3>4 DEF EngineIs
    <3>5. CASE g = 5
      BY <1>2, <2>2, <2>3, <2>4, <3>5 DEF EngineIs, Ours, OurSor
    <3>6. CASE g = 6
      BY <1>2, <2>2, <2>3, <2>4, <3>6 DEF EngineIs
    <3> QED BY <2>1, <3>1, <3>2, <3>3, <3>4, <3>5, <3>6
  <2> QED BY <1>1, <1>3, <2>1, <2>3, <2>5, EngineKept DEF EngineInv
<1>5. ASSUME Fetch("window") PROVE EngineInv'
  <2>1. get["window"] \in 0 .. 1 /\ core' = core /\ Execute(MethodAt("window", get["window"] + 1))
    BY <1>1, <1>5, FetchedMethod DEF LengthAt
  <2>2. asy' = asy /\ latched' = latched
    BY <2>1, WindowEffect
  <2>3. md' = md /\ efi' = efi /\ armed' = armed
    BY <1>5 DEF Fetch, picked, options
  <2> QED BY <1>1, <1>2, <2>1, <2>2, <2>3, EngineKept DEF EngineInv
<1>6. CASE Supervisor
  <2>1. l # <<>> /\ r2 = l[1] /\ l2 = <<>> /\ a2 = a /\ core' = g /\ md' = md /\ efi' = efi
    BY <1>2, <1>3, <1>6 DEF Supervisor, picked, options
  <2>2. EngineIs(g, a2, l2, r2)
    BY <1>2, <2>1 DEF EngineIs
  <2> QED BY <1>1, <1>3, <2>1, <2>2, EngineKept DEF EngineInv
<1>7. CASE UNCHANGED <<md, efi, get, asy, latched, armed>>
  BY <1>1, <1>2, <1>7, EngineKept DEF EngineInv
<1>8. CASE FlipDone \/ UNCHANGED dvars
  BY <1>7, <1>8 DEF FlipDone, dvars, picked, options, hwvars
<1>9. CASE phase = 0
  <2>1. core = 0
    <3>1. Copied = 0
      BY <1>9 DEF PhaseInv, Copied
    <3> QED BY <1>1, <3>1 DEF PushInv, Length, LengthAt
  <2>2. CASE UNCHANGED <<efi, hwvars>>
    <3>1. Theirs(asy)' /\ Theirs(armed)' /\ (latched # <<>> => Theirs(latched[1])')
      BY <1>1, <2>1, <2>2 DEF EngineIs, Theirs, hwvars
    <3>2. core' = 0 /\ asy' = asy /\ latched' = latched /\ armed' = armed /\ efi' = efi
      BY <2>1, <2>2 DEF hwvars
    <3>3. /\ asy' \in States /\ armed' \in States
          /\ latched' = <<>> \/ (latched' = <<latched'[1]>> /\ latched'[1] \in States)
      BY <1>1, <3>2 DEF EngineIs
    <3>4. EngineIs(core, asy, latched, armed)'
      BY <3>1, <3>2, <3>3 DEF EngineIs
    <3> QED BY <1>1, <3>2, <3>4 DEF EngineInv
  <2>3. CASE CtxDma
    BY <2>2, <2>3 DEF CtxDma, options
  <2> QED BY <1>4, <1>5, <1>6, <1>8, <1>9, <2>2, <2>3, EarlySteps DEF Channels
<1>10. CASE phase # 0
  <2>1. CASE CopyMethods \/ Kick \/ PollGet \/ Confirm
    BY <1>7, <2>1 DEF CopyMethods, Kick, PollGet, Confirm, picked, options, hwvars
  <2> QED BY <1>4, <1>5, <1>6, <1>8, <1>10, <2>1, PhaseSteps DEF Channels
<1> QED BY <1>9, <1>10

-----------------------------------------------------------------------------
(* The surface, the window and the report.                                 *)

LEMMA SurfaceStep ==
    ASSUME PhaseInv, SurfaceInv, [DisplayNext]_dvars
    PROVE  SurfaceInv'
<1>1. CASE UNCHANGED <<dpc, phase, fb, inst, md>>
  <2>1. Placed' = Placed /\ FbSize' = FbSize
    BY <1>1 DEF Placed, FbSize, Pitch, Timing
  <2> QED BY <1>1, <2>1 DEF SurfaceInv
<1>2. CASE Supervisor \/ FlipDone \/ (\E c \in Channels : Fetch(c)) \/ UNCHANGED dvars
  BY <1>1, <1>2 DEF Supervisor, FlipDone, Fetch, dvars, picked, pushing
<1>3. CASE Mode
  <2>1. /\ dpc = "mode" /\ dpc' \in {"ctxdma", "end"} /\ phase' = phase
        /\ dpc' = "ctxdma" => fb' = Fixed \/ fb' \in Surfaces
    BY <1>3 DEF Mode, pushing
  <2>2. phase = 0
    BY <2>1 DEF PhaseInv, Modesetting
  <2>3. Fixed.at \in Nat /\ Fixed.at % 256 = 0
    BY SMT DEF Fixed
  <2>4. dpc' = "ctxdma" => fb'.at \in Nat /\ fb'.at % 256 = 0
    BY <2>1, <2>3, SurfaceAssumption
  <2> QED BY <2>1, <2>2, <2>4 DEF SurfaceInv, Placed, Modesetting
<1>4. CASE CtxDma
  <2>1. /\ Placed /\ fb' = fb /\ md' = md /\ dpc' = "copy"
        /\ inst' = [known   |-> inst.known,
                    slot    |-> nv_disp_ramht_hash({0}, HandleVram),
                    context |-> nv_gsp_disp_ramht_entry(ChannelId, Client, CtxdmaOff),
                    at      |-> CtxdmaOff,
                    desc    |-> nv_gsp_disp_build_ctxdma_desc(fb.at, fb.at + FbSize - 1, fb.target)]
    BY <1>4 DEF CtxDma, To, Placed, Modesetting, picked
  <2>2. FbSize' = FbSize
    BY <2>1 DEF FbSize, Pitch, Timing
  <2>3. PICK d, w, k : /\ d = nv_gsp_disp_build_ctxdma_desc(fb.at, fb.at + FbSize - 1, fb.target)
                       /\ w = nv_gsp_disp_ramht_entry(ChannelId, Client, CtxdmaOff)
                       /\ k = inst.known
    OBVIOUS
  <2>4. inst' = [known |-> k, slot |-> HardwareSlot, context |-> w, at |-> CtxdmaOff, desc |-> d]
    BY <2>1, <2>3, HashIsSlot, Zenon
  <2>5. inst'.slot = HardwareSlot /\ inst'.context = w /\ inst'.at = CtxdmaOff /\ inst'.desc = d
    BY ONLY <2>4
  <2>6. Decoded(w) = [chid |-> ChannelId, client |-> Client, offset |-> CtxdmaOff]
    BY <2>3, ContextWord, Zenon
  <2> QED BY <2>1, <2>2, <2>3, <2>5, <2>6 DEF SurfaceInv
<1>5. CASE phase # 0
  <2>1. UNCHANGED <<fb, inst, md>> /\ Placed /\ dpc # "ctxdma"
    BY <1>5, Settled DEF Placed, PhaseInv, Modesetting
  <2>2. FbSize' = FbSize
    BY <2>1 DEF FbSize, Pitch, Timing
  <2> QED BY <2>1, <2>2 DEF SurfaceInv
<1>6. CASE phase' = 0 /\ dpc' \notin Modesetting
  BY <1>6 DEF SurfaceInv, Placed
<1>7. CASE phase = 0 /\ Layers3And4
  BY <1>6, <1>7, RmStepMoves DEF Layers3And4, pushing, Layer3, Layer4, Modesetting
<1>8. CASE phase = 0 /\ (Common \/ Heads \/ ConnectState \/ ScanOutput \/ Root \/ CoreChannel \/ AssignSor
                         \/ WindowChannel)
  BY <1>6, <1>8 DEF Common, Heads, ConnectState, ScanOutput, Root, CoreChannel, AssignSor,
                    WindowChannel, To, pushing, Modesetting
<1>9. CASE phase = 0 /\ (CopyMethods \/ Kick \/ PollGet \/ Confirm)
  BY <1>9 DEF CopyMethods, Kick, PollGet, Confirm, To, PhaseInv
<1> QED BY <1>2, <1>3, <1>4, <1>5, <1>7, <1>8, <1>9 DEF DisplayNext

LEMMA NothingFetched ==
    ASSUME PhaseInv, PushInv, phase = 0
    PROVE  \A c \in Channels : get[c] = 0
<1>1. Copied = 0
  BY DEF PhaseInv, Copied
<1> QED BY <1>1 DEF PushInv, Length, LengthAt

LEMMA WindowStep ==
    ASSUME ChoiceInv, PhaseInv, PushInv, EngineInv, SurfaceInv, WindowInv, [DisplayNext]_dvars
    PROVE  WindowInv'
<1>1. /\ get["window"] \in Nat /\ "core" \in Channels /\ "window" \in Channels
      /\ wasy = NoImage \/ (get["window"] > 0 /\ wasy = OurImage)
      /\ warmed = NoImage \/ (get["window"] > 0 /\ warmed = OurImage)
      /\ DOMAIN scan = {"ok", "noted", "fb", "w", "h", "pitch"}
  BY DEF PushInv, WindowInv, Channels
<1>2. CASE phase = 0
  <2>1. get["window"] = 0 /\ wasy = NoImage /\ warmed = NoImage /\ ~scan.noted
    BY <1>1, <1>2, NothingFetched DEF WindowInv
  <2>2. ~ \E c \in Channels : Fetch(c)
    BY <1>2, FetchedMethod
  <2>3. scan' = scan /\ wasy' = NoImage /\ warmed' = NoImage
    BY <1>2, <2>1, <2>2, EarlySteps DEF hwvars, CtxDma, Supervisor, FlipDone
  <2> QED BY <1>1, <2>1, <2>3 DEF WindowInv
<1>3. CASE phase # 0
  <2>1. /\ md' = md /\ inst' = inst /\ phase' # 0
    BY <1>3, Settled
  <2>2. Pitch' = Pitch /\ OurImage' = OurImage
    BY <2>1 DEF OurImage, Found, Pitch, Timing
  <2>3. ASSUME UNCHANGED <<get, wasy, warmed>>, DOMAIN scan' = DOMAIN scan,
               \/ scan'.pitch = Pitch
               \/ scan'.noted = scan.noted /\ scan'.pitch = scan.pitch
        PROVE  WindowInv'
    BY <1>1, <2>1, <2>2, <2>3 DEF WindowInv
  <2>4. CASE CopyMethods \/ Kick \/ UNCHANGED dvars \/ Supervisor
    BY <2>3, <2>4 DEF CopyMethods, Kick, dvars, Supervisor, hwvars
  <2>5. CASE PollGet
    <3>1. PICK x : x = fb
      OBVIOUS
    <3>2. PICK w, h, p : w = Timing.hact /\ h = Timing.vact /\ p = Pitch
      OBVIOUS
    <3>3. scan' = scan \/ scan' = [scan EXCEPT !.noted = TRUE, !.fb = x, !.w = w, !.h = h, !.pitch = p]
      BY <2>5, <3>1, <3>2 DEF PollGet
    <3>4. DOMAIN scan' = DOMAIN scan /\ (scan' = scan \/ scan'.pitch = p)
      BY ONLY <1>1, <3>3
    <3>5. UNCHANGED <<get, wasy, warmed>>
      BY <2>5 DEF PollGet, hwvars
    <3> QED BY <2>3, <3>2, <3>4, <3>5
  <2>6. CASE Confirm
    <3>1. PICK k : k = (cdone /\ Proven)
      OBVIOUS
    <3>2. scan' = [scan EXCEPT !.ok = k]
      BY <2>6, <3>1 DEF Confirm
    <3>3. DOMAIN scan' = DOMAIN scan /\ scan'.noted = scan.noted /\ scan'.pitch = scan.pitch
      BY ONLY <1>1, <3>2
    <3>4. UNCHANGED <<get, wasy, warmed>>
      BY <2>6 DEF Confirm, hwvars
    <3> QED BY <2>3, <3>3, <3>4
  <2>7. ASSUME Fetch("core") PROVE WindowInv'
    <3>1. /\ get["core"] \in 0 .. 6 /\ get'["window"] = get["window"]
          /\ Execute(MethodAt("core", get["core"] + 1))
      BY <1>1, <2>7, FetchedMethod DEF LengthAt
    <3>2. asy \in States
      BY DEF EngineInv, EngineIs
    <3>3. wasy' = wasy
      BY <1>3, <3>1, <3>2, CoreEffect
    <3>4. warmed' = warmed /\ scan' = scan
      BY <2>7 DEF Fetch
    <3> QED BY <1>1, <2>1, <2>2, <3>1, <3>3, <3>4 DEF WindowInv
  <2>8. ASSUME Fetch("window") PROVE WindowInv'
    <3>1. /\ get["window"] \in 0 .. 1 /\ get'["window"] = get["window"] + 1
          /\ Execute(MethodAt("window", get["window"] + 1))
      BY <1>1, <2>8, FetchedMethod DEF LengthAt
    <3>2. Lookup = Found
      BY <1>3 DEF Lookup, Found, SurfaceInv, Placed, PhaseInv, Modesetting
    <3>3. wasy' = OurImage \/ wasy' = wasy
      BY <3>1, <3>2, WindowEffect DEF OurImage
    <3>4. warmed' = warmed /\ scan' = scan
      BY <2>8 DEF Fetch
    <3> QED BY <1>1, <2>1, <2>2, <3>1, <3>3, <3>4 DEF WindowInv
  <2>9. CASE FlipDone
    <3>1. UNCHANGED <<get, wasy, scan>> /\ warmed' = wasy
      BY <2>9 DEF FlipDone
    <3> QED BY <1>1, <2>1, <2>2, <3>1 DEF WindowInv
  <2> QED BY <1>3, <2>4, <2>5, <2>6, <2>7, <2>8, <2>9, PhaseSteps DEF Channels
<1> QED BY <1>2, <1>3

LEMMA ReportStep ==
    ASSUME ChoiceInv, PhaseInv, PushInv, EngineInv, WindowInv, ReportInv, [DisplayNext]_dvars
    PROVE  ReportInv'
<1>1. CASE phase = 0
  <2>1. ~(\E c \in Channels : Fetch(c)) /\ ~scan.ok
    BY <1>1, FetchedMethod DEF ReportInv
  <2>2. scan' = scan
    BY <1>1, <2>1, EarlySteps DEF CtxDma, Supervisor, FlipDone
  <2> QED BY <2>1, <2>2 DEF ReportInv
<1>2. CASE phase # 0
  <2>1. md' = md /\ efi' = efi /\ phase' # 0 /\ Timing' = Timing
    BY <1>2, Settled DEF Timing
  <2>2. ASSUME efi # md.sor PROVE armed.sor[md.sor] # Dark => Ours(armed)
    <3>1. Theirs(armed) \/ Ours(armed)
      BY DEF EngineInv, EngineIs, PushInv, Channels
    <3> QED BY <1>2, <2>2, <3>1, NotBoth
  <2>3. CASE armed' = armed /\ (scan'.ok => scan.ok)
    BY <2>1, <2>3 DEF ReportInv, Ours, OurSor
  <2>4. CASE CopyMethods \/ Kick \/ UNCHANGED dvars \/ FlipDone \/ \E c \in Channels : Fetch(c)
    BY <2>3, <2>4 DEF CopyMethods, Kick, dvars, FlipDone, Fetch, hwvars
  <2>5. CASE PollGet
    <3>1. PICK x, w, h, p : x = fb /\ w = Timing.hact /\ h = Timing.vact /\ p = Pitch
      OBVIOUS
    <3>2. scan' = scan \/ scan' = [scan EXCEPT !.noted = TRUE, !.fb = x, !.w = w, !.h = h, !.pitch = p]
      BY <2>5, <3>1 DEF PollGet
    <3>3. DOMAIN scan = {"ok", "noted", "fb", "w", "h", "pitch"}
      BY DEF WindowInv
    <3>4. scan'.ok = scan.ok
      BY ONLY <3>2, <3>3
    <3>5. armed' = armed
      BY <2>5 DEF PollGet, hwvars
    <3> QED BY <2>3, <3>4, <3>5
  <2>6. CASE Confirm
    <3>1. PICK k : k = (cdone /\ Proven)
      OBVIOUS
    <3>2. scan' = [scan EXCEPT !.ok = k] /\ armed' = armed
      BY <2>6, <3>1 DEF Confirm, hwvars
    <3>3. DOMAIN scan = {"ok", "noted", "fb", "w", "h", "pitch"}
      BY DEF WindowInv
    <3>4. scan'.ok = k
      BY ONLY <3>2, <3>3
    <3>5. scan'.ok => armed.sor[md.sor] # Dark
      BY <3>1, <3>4 DEF Proven
    <3>6. scan'.ok /\ efi # md.sor => Ours(armed)
      BY <2>2, <3>5
    <3> QED BY <2>1, <3>2, <3>6 DEF ReportInv, Ours, OurSor
  <2>7. CASE Supervisor
    <3>1. latched # <<>> /\ armed' = latched[1] /\ scan' = scan
      BY <2>7 DEF Supervisor
    <3>2. ASSUME scan.ok, efi # md.sor PROVE Ours(latched[1])
      <4>1. Ours(armed) /\ ~Theirs(armed)
        BY <1>2, <3>2, NotBoth DEF ReportInv, Ours
      <4>2. get["core"] \in Nat
        BY DEF PushInv, Channels
      <4> QED BY <3>1, <3>2, <4>1, <4>2 DEF EngineInv, EngineIs
    <3> QED BY <2>1, <3>1, <3>2 DEF ReportInv, Ours, OurSor
  <2> QED BY <1>2, <2>4, <2>5, <2>6, <2>7, PhaseSteps
<1> QED BY <1>1, <1>2

-----------------------------------------------------------------------------
(* Together.                                                               *)

LEMMA InitInv == DisplayInit => IndInv
<1> SUFFICES ASSUME DisplayInit PROVE IndInv
  OBVIOUS
<1>1. /\ dpc = "static" /\ RmInit /\ did = 0 /\ edid = NoEdid /\ md = NoOutput /\ phase = 0
      /\ sors = [o \in Outputs |-> NoSor] /\ pb = [c \in Channels |-> <<>>]
      /\ put = [c \in Channels |-> 0] /\ get = [c \in Channels |-> 0]
      /\ efi \in Sors \cup {NoSor} /\ asy = EfiState(efi) /\ armed = asy /\ latched = <<>>
      /\ stray = FALSE /\ scan = NoScan
  BY DEF DisplayInit
<1>2. HandlesHeld /\ InternalInv
  BY <1>1 DEF HandlesHeld, RmInit, InternalInv, DisplayInit
<1>3. ChoiceInv
  <2>1. NoEdid \in EdidType
    BY DEF NoEdid, EdidType
  <2>2. NoOutput.did = 0 /\ NoOutput.sor = NoSor
    BY DEF NoOutput
  <2>3. NoOutput \in [did : Outputs \cup {0}, proto : Protocols \cup {Unread}, sor : Sors \cup {NoSor},
                      edid : EdidType]
    BY <2>1 DEF NoOutput
  <2>4. ChoiceType
    BY <1>1, <2>1, <2>3 DEF ChoiceType, Steps, Layer3
  <2> QED BY <1>1, <2>2, <2>4 DEF ChoiceInv, Modesetting
<1>4. PhaseInv
  BY <1>1 DEF PhaseInv, Modesetting
<1>5. PushInv
  <2>1. Copied = 0
    BY <1>1 DEF Copied
  <2>2. \A c \in Channels : Written(c) = <<>> /\ Length(c) = 0
    BY <2>1 DEF Written, WrittenAt, Length, LengthAt, Channels
  <2> QED BY <1>1, <2>2 DEF PushInv
<1>6. EngineInv
  <2>1. PICK x : x = EfiState(efi)
    OBVIOUS
  <2>2. [o \in Sors |-> IF o = efi THEN <<1, 1>> ELSE Dark] \in SorStates
    BY DEF SorStates, Dark
  <2>3. (IF efi \in Sors THEN <<Raster(NoTiming)>> ELSE <<>>) \in HeadStates
    BY DEF HeadStates
  <2>4. x \in States
    BY <2>1, <2>2, <2>3 DEF EfiState, States
  <2>5. Theirs(x)
    BY <2>1 DEF Theirs
  <2>6. get["core"] = 0
    BY <1>1 DEF Channels
  <2>7. EngineIs(0, x, <<>>, x)
    BY <2>4, <2>5 DEF EngineIs
  <2> QED BY <1>1, <2>1, <2>6, <2>7 DEF EngineInv
<1>7. SurfaceInv
  BY <1>1 DEF SurfaceInv, Placed, Modesetting
<1>8. WindowInv /\ ReportInv
  <2>1. wasy = NoImage /\ warmed = NoImage
    BY DEF DisplayInit, NoImage
  <2>2. ~NoScan.noted /\ ~NoScan.ok /\ DOMAIN NoScan = {"ok", "noted", "fb", "w", "h", "pitch"}
    BY DEF NoScan
  <2> QED BY <1>1, <2>1, <2>2 DEF WindowInv, ReportInv
<1> QED BY <1>2, <1>3, <1>4, <1>5, <1>6, <1>7, <1>8 DEF IndInv

\* In every reachable state of layer 5 the conjuncts above hold together, for
\* any outputs, resources, timings and surfaces.
THEOREM Invariance == DisplaySpec => []IndInv
<1>1. DisplayInit => IndInv
  BY InitInv
<1>2. IndInv /\ [DisplayNext]_dvars => IndInv'
  <2> SUFFICES ASSUME IndInv, [DisplayNext]_dvars PROVE IndInv'
    OBVIOUS
  <2>1. /\ HandlesHeld /\ ChoiceInv /\ PhaseInv /\ PushInv /\ EngineInv /\ SurfaceInv /\ WindowInv
        /\ ReportInv /\ InternalInv
    BY DEF IndInv
  <2>2. HandlesHeld' /\ InternalInv' /\ ChoiceInv' /\ PhaseInv'
    BY <2>1, HandlesStep, InternalStep, ChoiceStep
  <2>3. PushInv' /\ EngineInv' /\ SurfaceInv'
    BY <2>1, <2>2, PushStep, EngineStep, SurfaceStep
  <2>4. WindowInv' /\ ReportInv'
    BY <2>1, WindowStep, ReportStep
  <2> QED BY <2>2, <2>3, <2>4 DEF IndInv
<1> QED BY <1>1, <1>2, PTL DEF DisplaySpec

\* Whatever the firmware refuses or whatever reply is lost, no call names an
\* object of the driver's tree that was not made: RM_ALLOC and RM_CONTROL of
\* layers 3 to 5.  The firmware's own subdevice is missed only after the request
\* for its handles has failed.
THEOREM HandlesAreKnown == DisplaySpec => []NoOrphans
<1>1. IndInv => NoOrphans
  BY DEF IndInv, HandlesHeld, InternalInv, NoOrphans
<1> QED BY <1>1, Invariance, PTL

\* Resource, protocol and EDID that are sent are those of one output.
THEOREM ChoiceIsOne == DisplaySpec => []OneOutput
<1>1. IndInv => OneOutput
  <2> SUFFICES ASSUME IndInv, NEW i \in 1 .. Len(pb["core"]), pb["core"][i].m = "sor"
               PROVE  /\ md.edid.first = md.did /\ md.edid.of = md.did
                      /\ pb["core"][i].sor = <<sors[md.did], 1, md.proto>>
                      /\ md.proto \in {md.edid.kind, Unread}
    BY DEF OneOutput
  <2>1. Copied \in 0 .. 4 /\ (phase = 0 => Copied = 0) /\ "core" \in Channels
    BY DEF IndInv, PhaseInv, Copied, Channels
  <2>2. /\ pb["core"] = WrittenAt(Copied, "core") /\ Len(pb["core"]) = LengthAt(Copied, "core")
        /\ i \in 1 .. LengthAt(Copied, "core") /\ pb["core"][i] = MethodAt("core", i)
    BY <2>1, WrittenMethods DEF IndInv, PushInv, Written
  <2>3. i \in 1 .. 7 /\ phase # 0
    BY <2>1, <2>2 DEF LengthAt
  <2>4. /\ CoreMethods[1].m = "init" /\ CoreMethods[2].m = "update" /\ CoreMethods[4].m = "mode"
        /\ CoreMethods[3].sor = <<md.sor, 1, md.proto>> /\ CoreMethods[5].m = "update"
        /\ CoreMethods[6].m = "depth" /\ CoreMethods[7].m = "update"
    BY DEF CoreMethods, CoreSor, CoreModeset, Plain, Method
  <2>5. pb["core"][i] = CoreMethods[i] /\ i = 3
    BY <2>2, <2>3, <2>4 DEF MethodAt
  <2>6. /\ md.sor # NoSor /\ md.did # 0 /\ sors[md.did] = md.sor
        /\ md.edid.first = md.did /\ md.edid.of = md.did /\ md.proto \in {md.edid.kind, Unread}
    BY <2>3 DEF IndInv, ChoiceInv
  <2> QED BY <2>4, <2>5, <2>6
<1> QED BY <1>1, Invariance, PTL

\* The hardware fetches what was written and nothing behind it.
THEOREM OnlyWrittenMethods == DisplaySpec => []NoUnwrittenMethod
<1>1. IndInv => NoUnwrittenMethod
  BY DEF IndInv, PushInv, NoUnwrittenMethod
<1> QED BY <1>1, Invariance, PTL

\* scan->ok is said of our mode on our output resource and of no other.
THEOREM ConfirmationIsTrue == DisplaySpec => []ConfirmedIsOurs
<1>1. IndInv => ConfirmedIsOurs
  BY DEF IndInv, ReportInv, Ours, OurSor, ConfirmedIsOurs
<1> QED BY <1>1, Invariance, PTL

\* The head shows what the monitor's eighteen bytes say, for every sound timing
\* they can hold (TimingAssumption); the driver does not check that one is.
THEOREM ModeIsMonitors == DisplaySpec => []ModeAsAdvertised
<1>1. IndInv => ModeAsAdvertised
  <2> SUFFICES ASSUME IndInv, armed.head \notin {<<>>, EfiState(efi).head},
                      NEW t, t = md.edid.t, NEW k, k = armed.head[1]
               PROVE  /\ Scanned(k, "lo") = [act |-> t.hact, blank |-> t.hblank, sync |-> t.hsync, off |-> t.hoff]
                      /\ Scanned(k, "hi") = [act |-> t.vact, blank |-> t.vblank, sync |-> t.vsync, off |-> t.voff]
                      /\ k.view = [lo |-> t.hact, hi |-> t.vact]
                      /\ k.hertz = t.pclk * 10000
    BY DEF ModeAsAdvertised
  <2>1. get["core"] \in Nat /\ (Theirs(armed) \/ Ours(armed)) /\ (get["core"] < 5 => Theirs(armed))
    BY DEF IndInv, EngineInv, EngineIs, PushInv, Channels
  <2>2. Ours(armed) /\ get["core"] # 0
    BY <2>1 DEF Theirs
  <2>3. phase # 0
    BY <2>2, NothingFetched DEF IndInv, Channels
  <2>4. PICK r : r = Raster(t)
    OBVIOUS
  <2>5. t \in TimingFields /\ Timing = t /\ Sound(t)
    BY <2>3, <2>4, ChosenTiming DEF IndInv, ChoiceInv
  <2>6. armed.head = <<r>> /\ <<r>>[1] = r
    BY <2>2, <2>4, <2>5 DEF Ours
  <2>7. /\ Scanned(r, "lo") = [act |-> t.hact, blank |-> t.hblank, sync |-> t.hsync, off |-> t.hoff]
        /\ Scanned(r, "hi") = [act |-> t.vact, blank |-> t.vblank, sync |-> t.vsync, off |-> t.voff]
        /\ r.view = [lo |-> t.hact, hi |-> t.vact] /\ r.hertz = t.pclk * 10000
    BY <2>4, <2>5, RasterScanned
  <2>8. armed.head[1] = r
    BY <2>6
  <2>9. k = r
    BY <2>8
  <2> QED BY ONLY <2>7, <2>9
<1> QED BY <1>1, Invariance, PTL

\* The window reads the surface and nothing outside it if the firmware has the
\* instance memory, and nothing at all otherwise.
THEOREM WindowOnSurface == DisplaySpec => []WindowReadsSurface
<1>1. IndInv => WindowReadsSurface
  <2> SUFFICES ASSUME IndInv, warmed.pitch # 0 PROVE WindowReadsSurface
    BY DEF WindowReadsSurface
  <2>1. get["window"] > 0 /\ warmed = OurImage
    BY DEF IndInv, WindowInv, NoImage
  <2>2. phase # 0
    BY <2>1, NothingFetched DEF IndInv, Channels
  <2>3. PICK t : t = md.edid.t
    OBVIOUS
  <2>4. t \in TimingFields /\ Timing = t /\ Sound(t)
    BY <2>2, <2>3, ChosenTiming DEF IndInv, ChoiceInv
  <2>5. PICK w, h, p : w = t.hact /\ h = t.vact /\ p = (((w * 4) \div 64) % 2^13) * 64
    OBVIOUS
  <2>6. w \in Bits(12) /\ h \in Bits(12) /\ h > 0
    BY <2>4, <2>5, TimingType DEF Sound
  <2>7. /\ p \in Int /\ 0 <= p /\ p <= w * 4 /\ (w % 16 = 0 => p = w * 4)
        /\ (h - 1) * p + w * 4 <= (w * 4) * h
    BY <2>5, <2>6, RowsFit
  <2>8. Pitch = w * 4 /\ FbSize = (w * 4) * h
    BY <2>4, <2>5 DEF Pitch, FbSize
  <2>9. warmed.fb = Found /\ warmed.w = w /\ warmed.h = h /\ warmed.pitch = p
    BY <2>1, <2>4, <2>5, <2>8 DEF OurImage
  <2>10. fb.at \in Nat /\ fb.at % 256 = 0
         /\ inst.desc = nv_gsp_disp_build_ctxdma_desc(fb.at, fb.at + FbSize - 1, fb.target)
    BY <2>2 DEF IndInv, SurfaceInv, PhaseInv, Placed, Modesetting
  <2>11. /\ inst.known => /\ warmed.fb.target = fb.target /\ warmed.fb.start = fb.at \div 256
                           /\ warmed.fb.limit = (fb.at + FbSize - 1) \div 256
         /\ ~inst.known => warmed.fb = NoDesc
    BY <2>9, <2>10 DEF Found, nv_gsp_disp_build_ctxdma_desc
  <2>12. (fb.at \div 256) * 256 = fb.at
    BY <2>10, SMT
  <2>13. scan.noted => scan.pitch = Pitch
    BY DEF IndInv, WindowInv
  <2> QED BY <2>3, <2>5, <2>7, <2>8, <2>9, <2>11, <2>12, <2>13 DEF WindowReadsSurface
<1> QED BY <1>1, Invariance, PTL
=============================================================================
