------------------------------ MODULE Display ------------------------------
(***************************************************************************)
(* Layer 5 of bring-up in detail (driver/gsp/gsp_bringup.c 871-1370 with   *)
(* driver/gsp/gsp_disp.c): the outputs are listed, one is chosen, the two  *)
(* display channels are made, and a mode and a surface are sent through    *)
(* them in four phases.  Bringup holds the same steps by their outcomes.   *)
(*                                                                         *)
(* The display hardware (external) runs on its own: it fetches methods up  *)
(* to PUT, an update method latches the assembly state, and the supervisor *)
(* commits what was latched at some later time, or never.  What the EFI    *)
(* firmware had lit stays armed until a commit replaces it.                *)
(***************************************************************************)
EXTENDS RmObjects, DisplayMode, SequencesExt

CONSTANTS
    Outputs,    \* 1 .. n: the bits of the mask of supported displays, in order
    Sors,       \* output resources
    Timings,    \* what the monitors may advertise
    Surfaces    \* where the platform may put the scanout buffer: [at, target]

ASSUME OutputAssumption ==
    IsFiniteSet(Outputs) /\ Outputs = 1 .. Cardinality(Outputs) /\ Sors \subseteq 0 .. 3

\* What eighteen bytes can say.  A real timing has lines and sync pulses, and
\* a pulse begins inside the blanking.
Bits(n) == 0 .. 2^n - 1
TimingFields ==
    [pclk : Bits(16), hact : Bits(12), hblank : Bits(12), vact : Bits(12), vblank : Bits(12),
     hoff : Bits(10), hsync : Bits(10), voff : Bits(6), vsync : Bits(6),
     hpos : BOOLEAN, vpos : BOOLEAN]
Sound(t) == t.vact > 0 /\ t.hsync > 0 /\ t.vsync > 0 /\ t.hoff < t.hblank /\ t.voff < t.vblank

ASSUME TimingAssumption  == Timings \subseteq {t \in TimingFields : IsTiming(t) => Sound(t)}
ASSUME SurfaceAssumption == \A s \in Surfaces : s.at \in Nat /\ s.at % 256 = 0

Unread   == 0
Protocols == {1, 8}          \* TMDS_A; DP_A
IsTmds(p) == p \in {1, 2, 5}
NoSor    == -1
NoTiming == [pclk |-> 0, hact |-> 0, hblank |-> 0, vact |-> 0, vblank |-> 0, hoff |-> 0,
             hsync |-> 0, voff |-> 0, vsync |-> 0, hpos |-> FALSE, vpos |-> FALSE]
NoSurface == [at |-> 0, target |-> "none"]
Fixed     == [at |-> 335544320, target |-> "vram"]      \* 0x14000000

VARIABLES
    efi,       \* the output resource the EFI firmware drives, or NoSor
    fbp,       \* "none" (Linux), "skip" (skip_modeset) or "alloc"
    plugged,   \* monitors
    conn,      \* outputs the driver takes for connected
    did,       \* the output the loop over the mask is at
    edid,      \* the EDID buffer: whose first bytes, whose timing, its protocol
    md,        \* md_*: the output chosen, and its EDID
    sors,      \* the output resource the firmware gave each output
    backed,    \* channels with a push buffer
    alien,     \* a control for the firmware's own subdevice did not name it
    inst,      \* display instance memory: known to the firmware; RAMHT entry, descriptor
    fb,        \* the surface
    phase,     \* 1 .. 4
    pb, put, get,   \* by channel: methods written, PUT, GET
    asy, latched, armed,    \* state of the core channel
    wasy, wlatched, warmed, \* state of the window
    stray,     \* the hardware has fetched a word nobody wrote
    cdone,     \* GET reached PUT in phase 2
    scan       \* nv_gsp_scanout_t

options == <<efi, fbp>>
hwvars  == <<asy, latched, armed, wasy, wlatched, warmed, stray, get>>
picked  == <<plugged, conn, did, edid, md, sors>>
pushing == <<phase, pb, put, cdone>>
given   == <<alien, backed>>
dvars   == <<dpc, rmvars, efi, fbp, picked, given, inst, fb, pushing, scan, hwvars>>

Channels == {"core", "window"}
NoEdid   == [first |-> 0, of |-> 0, kind |-> Unread, t |-> NoTiming]
NoOutput == [did |-> 0, proto |-> Unread, sor |-> NoSor, edid |-> NoEdid]
NoScan   == [ok |-> FALSE, noted |-> FALSE, fb |-> NoSurface, w |-> 0, h |-> 0, pitch |-> 0]
NoDesc   == [target |-> "none", start |-> 0, limit |-> 0]

\* A SOR's control is <<owner mask, protocol>>; a head without a mode is <<>>.
Dark == <<0, 0>>
EfiState(s) == [sor  |-> [o \in Sors |-> IF o = s THEN <<1, 1>> ELSE Dark],
                head |-> IF s \in Sors THEN <<Raster(NoTiming)>> ELSE <<>>,
                depth |-> FALSE]

DisplayInit ==
    /\ dpc = "static" /\ RmInit
    /\ fbp \in {"none", "skip", "alloc"}
    /\ plugged \in SUBSET Outputs /\ conn = {} /\ did = 0 /\ edid = NoEdid /\ md = NoOutput
    /\ sors = [o \in Outputs |-> NoSor]
    /\ alien = FALSE /\ backed = {} /\ fb = NoSurface /\ phase = 0
    /\ inst = [known |-> FALSE, slot |-> {}, context |-> 0, at |-> 0, desc |-> NoDesc]
    /\ pb = [c \in Channels |-> <<>>]
    /\ put = [c \in Channels |-> 0] /\ get = [c \in Channels |-> 0]
    /\ efi \in Sors \cup {NoSor} /\ asy = EfiState(efi) /\ armed = asy
    /\ latched = <<>> /\ wlatched = FALSE
    /\ wasy = [fb |-> NoDesc, pitch |-> 0, w |-> 0, h |-> 0] /\ warmed = wasy
    /\ stray = FALSE /\ cdone = FALSE /\ scan = NoScan

-----------------------------------------------------------------------------
(* Which output: A0 and B.                                                 *)

\* NV04_DISPLAY_COMMON; then heads and supported displays, which must both be
\* known (the mask of heads is only logged).
Common ==
    /\ dpc = "common"
    /\ RmAlloc("common")
    /\ dpc' = IF "common" \in held' THEN "heads" ELSE "end"
    /\ UNCHANGED <<options, picked, given, inst, fb, pushing, scan, hwvars>>

Heads ==
    /\ dpc = "heads"
    /\ \E answer \in Answers :
         /\ RmControl({"client", "common"}, answer)
         /\ dpc' = IF Success(answer) THEN "connect" ELSE "end"
    /\ UNCHANGED <<options, picked, given, inst, fb, pushing, scan, hwvars>>

\* GET_CONNECT_STATE: its result is not looked at.  The mask asked about is in
\* the place of the answer, so a refusal reads as every output connected.
ConnectState ==
    /\ To("connect", "scan")
    /\ \E answer \in Answers :
         /\ RmControl({"client", "common"}, answer)
         /\ conn' = CASE answer = "ok" -> plugged [] answer = "refused" -> Outputs [] answer = "lost" -> {}
    /\ did' = 1
    /\ UNCHANGED <<options, plugged, edid, md, sors, given, inst, fb, pushing, scan, hwvars>>

\* Mutant: any answer counts, whatever its length.
Usable_Short(size) == size >= 8

\* erc == NV_GSP_RM_OK && est == 0 && esz >= 128.
Usable(size) == size >= 128

\* The first output with an EDID; a later TMDS one replaces a DP one (protocol
\* numbers from 8 up).
Better(proto) == md.did = 0 \/ (IsTmds(proto) /\ md.proto >= 8)

\* nv_gsp_disp_get_edid: the buffer keeps what a short answer does not reach.
Filled(o, kind, size, t) ==
    [edid EXCEPT !.first = IF size > 0 THEN o ELSE @,
                 !.of    = IF size >= 128 THEN o ELSE @,
                 !.kind  = IF size >= 128 THEN kind ELSE @,
                 !.t     = IF size >= 128 THEN t ELSE @]

\* One turn of the loop over the mask: OR_GET_INFO, and for a connected output
\* the EDID.  A failed question leaves the protocol at 0.
ScanOutput ==
    /\ dpc = "scan" /\ did \in Outputs
    /\ \E kind \in Protocols, known \in BOOLEAN :
         LET proto == IF known THEN kind ELSE Unread IN
         \E size \in {0, 8, 128}, t \in Timings \cup {NoTiming} :
           /\ size > 0 => did \in plugged
           /\ size = 0 => t = NoTiming /\ kind = 1
           /\ edid' = IF did \in conn THEN Filled(did, kind, size, t) ELSE edid
           /\ md' = IF did \in conn /\ Usable(size) /\ Better(proto)
                    THEN [did |-> did, proto |-> proto, sor |-> NoSor, edid |-> edid']
                    ELSE md
    /\ did' = did + 1
    /\ UNCHANGED <<dpc, rmvars, options, plugged, conn, sors, given, inst, fb, pushing, scan, hwvars>>

\* A control on the client and subdevice the firmware keeps for itself.  Their
\* handles came with the static information; if that request failed, they are
\* what was on the stack, which may be anything.  The answer is only logged, so
\* that all there is to it is whether the firmware has carried it out.
Internal(done) ==
    \E right \in BOOLEAN :
      /\ (si => right) /\ (done => right)
      /\ alien' = (alien \/ ~right)

\* C.1: instance memory is cleared and given to the firmware; then the display's
\* root object.
Root ==
    /\ dpc = "scan" /\ did \notin Outputs
    /\ \E done \in BOOLEAN : Internal(done) /\ inst' = [inst EXCEPT !.known = done]
    /\ RmAlloc("root")
    /\ dpc' = IF "root" \in held' THEN "core" ELSE "end"
    /\ plugged' = {} /\ edid' = NoEdid       \* neither is read any more
    /\ UNCHANGED <<options, conn, did, md, sors, backed, fb, pushing, scan, hwvars>>

\* nv_gsp_disp_channel_pushbuffer and the channel.  A channel without a push
\* buffer fetches nothing.
ChannelDma(c) ==
    /\ RmAlloc(c)
    /\ \E done \in BOOLEAN :
         Internal(done) /\ backed' = IF done THEN backed \cup {c} ELSE backed

CoreChannel ==
    /\ dpc = "core"
    /\ ChannelDma("core")
    /\ dpc' = IF "core" \in held' THEN "assign" ELSE "end"
    /\ did' = 1
    /\ UNCHANGED <<options, plugged, conn, edid, md, sors, inst, fb, pushing, scan, hwvars>>

Mine(o) == o = md.did

\* C.3: nv_gsp_disp_assign_sor for every connected output.  The firmware gives
\* each a resource of its own or none.
AssignSor ==
    /\ dpc = "assign" /\ did \in Outputs
    /\ \E s \in {NoSor} \cup (Sors \ Range(sors)) :
         LET asked == did \in conn
         IN  /\ asked \/ s = NoSor
             /\ sors' = [sors EXCEPT ![did] = s]
             /\ md' = IF asked /\ s # NoSor /\ Mine(did) THEN [md EXCEPT !.sor = s] ELSE md
    /\ did' = did + 1
    /\ Address({"client", "common"})
    /\ UNCHANGED <<dpc, si, objects, held, engine>>
    /\ UNCHANGED <<options, plugged, conn, edid, given, inst, fb, pushing, scan, hwvars>>

\* C.4a, and the condition of C.4d; on Linux a test picture goes to Fixed.
WindowChannel ==
    /\ dpc = "assign" /\ did \notin Outputs
    /\ ChannelDma("window")
    /\ dpc' = IF fbp # "skip" /\ "window" \in held' /\ md.did # 0 /\ md.sor # NoSor
              THEN "mode" ELSE "end"
    /\ did' = 0 /\ conn' = {}
    /\ UNCHANGED <<options, plugged, edid, md, sors, inst, fb, pushing, scan, hwvars>>

-----------------------------------------------------------------------------
(* The mode and the surface: C.4d and C.4e.                                *)

Timing == nv_edid_parse_dtd(Dtd(md.edid.t))
Pitch  == Timing.hact * 4
FbSize == Pitch * Timing.vact

\* No timing, no modeset.  HDMI signalling is switched on, whatever comes back.
\* Then the provider is asked, and may refuse.
Mode ==
    /\ dpc = "mode"
    /\ IF IsTiming(Timing)
       THEN /\ Address({"client", "common"})
            /\ \/ fbp = "none" /\ fb' = Fixed /\ dpc' = "ctxdma"
               \/ fbp = "alloc" /\ \E s \in Surfaces : fb' = s /\ dpc' = "ctxdma"
               \/ fbp = "alloc" /\ dpc' = "end" /\ UNCHANGED fb
       ELSE dpc' = "end" /\ UNCHANGED <<fb, orphan>>
    /\ UNCHANGED <<si, objects, held, engine, options, picked, given, inst, pushing, scan, hwvars>>

\* Descriptor and RAMHT entry of the surface.
CtxDma ==
    /\ To("ctxdma", "copy")
    /\ inst' = [known   |-> inst.known,
                slot    |-> nv_disp_ramht_hash({0}, HandleVram),
                context |-> nv_gsp_disp_ramht_entry(ChannelId, Client, CtxdmaOff),
                at      |-> CtxdmaOff,
                desc    |-> nv_gsp_disp_build_ctxdma_desc(fb.at, fb.at + FbSize - 1, fb.target)]
    /\ phase' = 1
    /\ UNCHANGED <<rmvars, options, picked, given, fb, pb, put, cdone, scan, hwvars>>

\* The methods, by what they carry.
Method(name, sor, t, w) == [m |-> name, sor |-> sor, t |-> t, w |-> w]
Plain(name) == Method(name, <<>>, <<>>, <<>>)

CoreUpdate  == <<Plain("update")>>
CoreInit    == <<Plain("init")>>
CoreSor     == <<Method("sor", <<md.sor, 1, md.proto>>, <<>>, <<>>)>>
CoreModeset == <<Method("mode", <<>>, <<Raster(Timing)>>, <<>>)>>
OutputResource == <<Plain("depth")>>
WindowImage == <<Method("image", <<>>, <<>>, <<Timing.hact, Timing.vact, (Pitch \div 64) % 2^13>>)>>
WindowUpdate == <<Plain("flip")>>

\* Mutant: the output resource is bound in an update of its own.
Batch_Split(p) ==
    CASE p = 1 -> CoreInit \o CoreUpdate
      [] p = 2 -> CoreSor \o CoreUpdate \o CoreModeset \o CoreUpdate
      [] p = 3 -> OutputResource \o CoreUpdate
      [] p = 4 -> WindowImage \o WindowUpdate

Batch(p) ==
    CASE p = 1 -> CoreInit \o CoreUpdate
      [] p = 2 -> CoreSor \o CoreModeset \o CoreUpdate
      [] p = 3 -> OutputResource \o CoreUpdate
      [] p = 4 -> WindowImage \o WindowUpdate

Channel(p) == IF p = 4 THEN "window" ELSE "core"

\* The methods are written behind those of the phase before.
CopyMethods ==
    /\ To("copy", "kick")
    /\ pb' = [pb EXCEPT ![Channel(phase)] = @ \o Batch(phase)]
    /\ UNCHANGED <<rmvars, options, picked, given, inst, fb, phase, put, cdone, scan, hwvars>>

\* Mutant: PUT is one method ahead.
Offset_Ahead(c) == Len(pb[c]) + 1

Offset(c) == Len(pb[c])

Kick ==
    /\ To("kick", "poll")
    /\ put' = [put EXCEPT ![Channel(phase)] = Offset(Channel(phase))]
    /\ UNCHANGED <<rmvars, options, picked, given, inst, fb, phase, pb, cdone, scan, hwvars>>

\* 500 looks at GET; the next phase follows either way.  Phase 2 decides whether
\* the geometry is noted for the platform.
PollGet ==
    /\ dpc = "poll"
    /\ LET taken == get[Channel(phase)] = put[Channel(phase)] IN
         IF phase = 2
         THEN /\ cdone' = taken
              /\ scan' = IF taken
                         THEN [scan EXCEPT !.noted = TRUE, !.fb = fb, !.w = Timing.hact,
                                           !.h = Timing.vact, !.pitch = Pitch]
                         ELSE scan
         ELSE UNCHANGED <<cdone, scan>>
    /\ phase' = IF phase < 4 THEN phase + 1 ELSE phase
    /\ dpc' = IF phase < 4 THEN "copy" ELSE "confirm"
    /\ UNCHANGED <<rmvars, options, picked, given, inst, fb, pb, put, hwvars>>

\* vline moves on head 0, and the armed state of the output resource is not empty.
Proven == armed.head # <<>> /\ armed.sor[md.sor] # Dark

Confirm ==
    /\ To("confirm", "end")
    /\ scan' = [scan EXCEPT !.ok = cdone /\ Proven]
    /\ UNCHANGED <<rmvars, options, picked, given, inst, fb, pushing, hwvars>>

-----------------------------------------------------------------------------
(* The hardware (external).                                                *)

\* What the window finds under its handle: nothing, if the firmware was not told
\* where the table is.
Lookup ==
    LET d == Decoded(inst.context)
    IN  IF /\ inst.known /\ inst.slot = HardwareSlot
           /\ d = [chid |-> ChannelId, client |-> Client, offset |-> inst.at]
        THEN inst.desc ELSE NoDesc

\* An update waits until the one before it is committed; a depth for a head
\* that is not up is an invalid argument and is dropped.
Execute(m) ==
    /\ asy' = CASE m.m = "sor"   -> [asy EXCEPT !.sor[m.sor[1]] = Tail(m.sor)]
                [] m.m = "mode"  -> [asy EXCEPT !.head = m.t]
                [] m.m = "depth" -> IF armed.head # <<>> THEN [asy EXCEPT !.depth = TRUE] ELSE asy
                [] OTHER         -> asy
    /\ IF m.m = "update" THEN latched = <<>> /\ latched' = <<asy>> ELSE UNCHANGED latched
    /\ wasy' = IF m.m = "image"
               THEN [fb |-> Lookup, w |-> m.w[1], h |-> m.w[2], pitch |-> m.w[3] * 64] ELSE wasy
    /\ wlatched' = (wlatched \/ m.m = "flip")
    /\ stray' = (stray \/ m.m = "garbage")

Fetch(c) ==
    /\ c \in backed \cap objects /\ get[c] < put[c]
    /\ Execute(IF get[c] < Len(pb[c]) THEN pb[c][get[c] + 1] ELSE Plain("garbage"))
    /\ get' = [get EXCEPT ![c] = @ + 1]
    /\ UNCHANGED <<dpc, rmvars, options, picked, given, inst, fb, pushing, scan, armed, warmed>>

Supervisor ==
    /\ latched # <<>> /\ armed' = latched[1] /\ latched' = <<>>
    /\ UNCHANGED <<dpc, rmvars, options, picked, given, inst, fb, pushing, scan>>
    /\ UNCHANGED <<asy, wasy, wlatched, warmed, stray, get>>

FlipDone ==
    /\ wlatched /\ armed.head # <<>> /\ warmed' = wasy /\ wlatched' = FALSE
    /\ UNCHANGED <<dpc, rmvars, options, picked, given, inst, fb, pushing, scan>>
    /\ UNCHANGED <<asy, latched, armed, wasy, stray, get>>

-----------------------------------------------------------------------------
Layers3And4 == RmStep /\ UNCHANGED <<options, picked, given, inst, fb, pushing, scan, hwvars>>

DisplayNext ==
    \/ Layers3And4
    \/ Common \/ Heads \/ ConnectState \/ ScanOutput \/ Root \/ CoreChannel \/ AssignSor
    \/ WindowChannel \/ Mode \/ CtxDma \/ CopyMethods \/ Kick \/ PollGet \/ Confirm
    \/ \E c \in Channels : Fetch(c)
    \/ Supervisor \/ FlipDone

DisplaySpec == DisplayInit /\ [][DisplayNext]_dvars

-----------------------------------------------------------------------------
(* Properties *)

\* Through all the partial failures of the two ladders of objects, no call
\* names an object the firmware refused to make or never made: every handle of
\* the driver's tree was reported good by transport and firmware.  The only
\* calls that may go astray are those for the firmware's own subdevice, after
\* the request for its handles has failed.
NoOrphans == ~orphan /\ (alien => ~si)

\* Whatever of the listing failed, output resource, protocol and timing that
\* are sent belong to one output: the EDID was read whole from the monitor at
\* that output although the buffer is shared by all of them, the resource is
\* the one the firmware gave it, and the protocol is its own or was not known.
\* (The EDID is its first block: a second one may be another monitor's after an
\* answer of 128 to 255 bytes, but nothing reads it or hands it on.)
OneOutput ==
    \A i \in 1 .. Len(pb["core"]) : pb["core"][i].m = "sor" =>
        LET o == md.did
        IN  /\ md.edid.first = o /\ md.edid.of = o
            /\ pb["core"][i].sor = <<sors[o], 1, md.proto>>
            /\ md.proto \in {md.edid.kind, Unread}

\* The hardware never runs past the methods that were written, although phases
\* that were not taken in time pile up in the same buffer.
NoUnwrittenMethod == ~stray

\* The buffer is handed out only for a picture of ours: if the output resource
\* was dark before, scan->ok means that the supervisor has committed our owner,
\* our protocol and our mode, and all of them together.
ConfirmedIsOurs ==
    scan.ok /\ efi # md.sor =>
        armed.sor[md.sor] = <<1, md.proto>> /\ armed.head = <<Raster(Timing)>>

\* The picture, the blanking, the sync pulse and the clock of the head are those
\* the monitor put into its EDID: eighteen packed bytes, nine split fields and
\* the "minus one" of four raster words lose nothing.
ModeAsAdvertised ==
    armed.head \notin {<<>>, EfiState(efi).head} =>
        LET t == md.edid.t
            r == armed.head[1]
        IN  /\ Scanned(r, "lo") = [act |-> t.hact, blank |-> t.hblank, sync |-> t.hsync, off |-> t.hoff]
            /\ Scanned(r, "hi") = [act |-> t.vact, blank |-> t.vblank, sync |-> t.vsync, off |-> t.voff]
            /\ r.view = [lo |-> t.hact, hi |-> t.vact]
            /\ r.hertz = t.pclk * 10000

\* The window, which knows only a handle, finds the surface under it whenever
\* the firmware has the instance memory, and reads nothing if it has not: the
\* first row is at the surface's start, the last one inside it.  Its rows are as
\* long as the caller is told, if the width is a multiple of 16 pixels (the
\* hardware's unit is 64 bytes, and nothing rounds the published pitch).
WindowReadsSurface ==
    warmed.pitch # 0 =>
        /\ ~inst.known => warmed.fb = NoDesc
        /\ inst.known  => /\ warmed.fb.target = fb.target /\ warmed.fb.start * 256 = fb.at
                          /\ warmed.fb.limit = (fb.at + FbSize - 1) \div 256
        /\ warmed.w = md.edid.t.hact /\ warmed.h = md.edid.t.vact
        /\ (warmed.h - 1) * warmed.pitch + warmed.w * 4 <= FbSize
        /\ scan.noted /\ md.edid.t.hact % 16 = 0 => warmed.pitch = scan.pitch
=============================================================================
