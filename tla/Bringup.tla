------------------------------ MODULE Bringup ------------------------------
(***************************************************************************)
(* nv_gsp_bringup (driver/gsp/gsp_bringup.c): the one pass that boots      *)
(* GSP-RM and builds layers 3 to 5 on top of it.                           *)
(*                                                                         *)
(* The pass is sequential; what the firmware, the display and the          *)
(* platform answer is a choice at every step.  A step is named by bpc and  *)
(* stands for the block of the function between two such answers.  The     *)
(* platform takes part through the frame buffer provider (fbp), which is   *)
(* called in the middle of layer 5 and may move the PRAMIN window, and     *)
(* through what it does with the results once the function has returned.   *)
(***************************************************************************)
EXTENDS Falcon

CONSTANTS
    Surfaces,    \* places a scanout buffer can be at: [at, target]
    NoSurface,   \* the display still shows what the EFI firmware set up
    FixedVram    \* the surface used when there is no provider

ASSUME SurfaceAssumption == /\ NoSurface \notin Surfaces
                            /\ FixedVram \in Surfaces /\ FixedVram.target = "vram"
                            /\ \A s \in Surfaces : s.at \in Nat /\ s.target \in {"vram", "sysmem"}

VARIABLES
    bpc,        \* where the pass is
    fbp,        \* "none" (Linux), "skip" (skip_modeset) or "alloc"
    ext,        \* external_vmm: a pool was asked for
    rc,         \* the result
    blobs,      \* firmware files in memory
    l2,         \* layer 2: what the boot has shown
    l3,         \* layer 3: the outcomes that decide about a later step
    l4,         \* layer 4: likewise
    l5,         \* layer 5: likewise
    usable,     \* the VRAM range taken lies in a region the firmware reported usable
    gpu,        \* nv_gsp_gpu_ctx_t: ok, selftest_ok, pool_selftest_ok
    scan_ok,    \* scan->ok
    fb,         \* the surface the modeset is made with
    shown,      \* the surface the display's window shows
    submitted,  \* display channels the driver has put methods into
    window,     \* NV_PBUS_BAR0_WINDOW
    win,        \* the orchestrator's copy of it
    stray       \* an access through the window has hit another place

bvars == <<bpc, fbp, ext, rc, blobs, l2, l3, l4, l5, usable, gpu, scan_ok, fb, shown,
           submitted, window, win, stray>>

Layer2 == [booter |-> FALSE, active |-> FALSE, got |-> FALSE, sig |-> FALSE]
Layer3 == [static |-> FALSE, chain |-> FALSE, vaspace |-> FALSE, phys |-> FALSE,
           vram |-> FALSE, map |-> FALSE]
Layer4 == [ce |-> FALSE, sched |-> FALSE, ce_obj |-> FALSE, class_id |-> FALSE, exec |-> FALSE]
Layer5 == [edid |-> FALSE, sor |-> FALSE, window |-> FALSE, cdone |-> FALSE]
NoGpu  == [ok |-> FALSE, selftest |-> FALSE, pool |-> FALSE]

BringupInit ==
    /\ bpc = "idle" /\ fbp \in {"none", "skip", "alloc"} /\ ext \in BOOLEAN /\ rc = 0
    /\ blobs = {} /\ FalconInit
    /\ l2 = Layer2 /\ l3 = Layer3 /\ l4 = Layer4 /\ l5 = Layer5
    /\ usable = TRUE /\ gpu = NoGpu /\ scan_ok = FALSE
    /\ fb = NoSurface /\ shown = NoSurface /\ submitted = {}
    /\ window = "efi" /\ win = "none" /\ stray = FALSE

-----------------------------------------------------------------------------
(* The PRAMIN window.                                                      *)

\* pramin_aim: the register is written only if the copy says it must be.
Aim(cached, frame) ==
    /\ win' = frame
    /\ window' = IF cached = frame THEN window ELSE frame
    /\ stray' = (stray \/ window' # frame)

NoAccess == UNCHANGED <<window, win, stray>>

-----------------------------------------------------------------------------
(* Layer 2: firmware into memory, FWSEC, Booter, events of the boot.       *)

Goto(from, to) == bpc = from /\ bpc' = to
Return(code)   == bpc' = "returned" /\ rc' = code

layers  == <<l2, l3, l4, l5, usable, gpu, scan_ok>>
screen  == <<fb, shown, submitted>>
options == <<fbp, ext>>

\* The outputs are reset, then the GPU's own boot and its memory are looked at.
Begin ==
    /\ bpc = "begin"
    /\ gpu' = NoGpu /\ scan_ok' = FALSE
    /\ \/ Goto("begin", "gsp_blob") /\ UNCHANGED rc
       \/ Return(-1)
    /\ UNCHANGED <<options, blobs, fvars, l2, l3, l4, l5, usable, screen>> /\ NoAccess

GetGsp ==
    /\ bpc = "gsp_blob"
    /\ \/ Return(-1) /\ UNCHANGED blobs            \* not there, or no ELF and freed
       \/ Goto("gsp_blob", "bl_blob") /\ blobs' = {"gsp"} /\ UNCHANGED rc
    /\ UNCHANGED <<options, fvars, layers, screen>> /\ NoAccess

GetBootloader ==
    /\ bpc = "bl_blob"
    /\ \/ Return(-1) /\ blobs' = {}                \* not there, bad, or too large
       \/ Goto("bl_blob", "arena") /\ blobs' = blobs \cup {"bootloader"} /\ UNCHANGED rc
    /\ UNCHANGED <<options, fvars, layers, screen>> /\ NoAccess

ArenaAlloc ==
    /\ bpc = "arena"
    /\ \/ Return(-1) /\ blobs' = {}
       \/ Goto("arena", "fwsec") /\ UNCHANGED <<rc, blobs>>
    /\ UNCHANGED <<options, fvars, layers, screen>> /\ NoAccess

\* do_fwsec_frts: FWSEC is found in the VBIOS, patched and signed in the arena.
FwsecPrepare ==
    /\ bpc = "fwsec"
    /\ \/ Return(-1) /\ blobs' = {} /\ UNCHANGED fvars
       \/ Goto("fwsec", "fwsec_run") /\ Drive("gsp", "reset") /\ UNCHANGED <<rc, blobs>>
    /\ UNCHANGED <<options, layers, screen>> /\ NoAccess

\* Every use of an engine, step by step.
EngineStep ==
    /\ bpc \in {"fwsec_run", "riscv", "booter_run", "events"}
    /\ FalconStep(IF bpc = "fwsec_run" THEN "zero" ELSE "meta")
    /\ UNCHANGED <<bpc, options, rc, blobs, layers, screen>> /\ NoAccess

\* Whether it has halted is not asked: the mailbox, which held zero before the
\* start, and the protected region decide.
FwsecOk == fpc # "failed" /\ falcon["gsp"].mbox = "zero" /\ wpr2

FwsecEnd ==
    /\ bpc = "fwsec_run" /\ fpc \in {"failed", "halted", "timed_out"} /\ Release
    /\ \/ FwsecOk /\ bpc' = "staging" /\ UNCHANGED <<rc, blobs>>
       \/ ~FwsecOk /\ Return(-1) /\ blobs' = {}
    /\ UNCHANGED <<options, layers, screen>> /\ NoAccess

\* The images are copied into the arena and freed; then tables, metadata,
\* queues and the first two commands are built there.
Staging ==
    /\ bpc = "staging" /\ blobs' = {}
    /\ \/ Return(-1) /\ UNCHANGED fvars
       \/ Goto("staging", "riscv") /\ Drive("gsp", "rv_reset") /\ UNCHANGED rc
    /\ UNCHANGED <<options, layers, screen>> /\ NoAccess

\* After the GSP's reset booter_load is fetched, signed and freed again.
GetBooter ==
    /\ bpc = "riscv" /\ fpc \in {"failed", "rv_done"}
    /\ \/ Return(-1) /\ Release
       \/ fpc = "rv_done" /\ Goto("riscv", "booter_run") /\ Drive("sec2", "reset") /\ UNCHANGED rc
    /\ UNCHANGED <<options, blobs, layers, screen>> /\ NoAccess

\* The Booter was not loaded, or has run; what it said is only noted.
BooterEnd ==
    /\ bpc = "booter_run" /\ Release
    /\ \/ fpc = "failed" /\ Return(-1) /\ UNCHANGED l2
       \/ /\ fpc \in {"halted", "timed_out"} /\ bpc' = "active" /\ UNCHANGED rc
          /\ l2' = [l2 EXCEPT !.booter = fpc = "halted" /\ falcon["sec2"].mbox = "zero"]
    /\ UNCHANGED <<options, blobs, l3, l4, l5, usable, gpu, scan_ok, screen>> /\ NoAccess

\* The RISC-V core is looked for.
LookForGsp ==
    /\ bpc = "active"
    /\ l2' = [l2 EXCEPT !.active = RiscvActive]
    /\ bpc' = IF RiscvActive THEN "events" ELSE "layer3"
    /\ UNCHANGED <<fvars, options, rc, blobs, l3, l4, l5, usable, gpu, scan_ok, screen>>
    /\ NoAccess

\* The events of the boot, which only a running firmware sends: a request to
\* the CPU sequencer, of which a failure is only noted, and GSP_INIT_DONE.  The
\* others are skipped.
SequencerEvent ==
    /\ bpc = "events" /\ RiscvActive
    /\ \E p \in Programs : RunSequencer(p)
    /\ UNCHANGED <<bpc, options, rc, blobs, layers, screen>> /\ NoAccess

SequencerEnd ==
    /\ bpc = "events" /\ SequencerOver /\ Release
    /\ UNCHANGED <<bpc, options, rc, blobs, layers, screen>> /\ NoAccess

InitDone ==
    /\ bpc = "events" /\ fpc = "idle" /\ RiscvActive /\ bpc' = "layer3"
    /\ \E s \in BOOLEAN : l2' = [l2 EXCEPT !.got = TRUE, !.sig = s]
    /\ UNCHANGED <<fvars, options, rc, blobs, l3, l4, l5, usable, gpu, scan_ok, screen>>
    /\ NoAccess

\* The time for the boot is up.
BootTimeout ==
    /\ bpc = "events" /\ fpc = "idle" /\ bpc' = "layer3"
    /\ UNCHANGED <<fvars, options, rc, blobs, layers, screen>> /\ NoAccess

-----------------------------------------------------------------------------
(* Layer 3: static information, client, device and subdevice, address      *)
(* space, video memory, page tables.                                       *)

\* GET_GSP_STATIC_INFO and the chain of three objects; without the chain
\* neither layer 4 nor layer 5 is tried.
Objects ==
    /\ bpc = "layer3"
    /\ \/ /\ l2.got
          /\ \E s, c \in BOOLEAN :
               /\ l3' = [l3 EXCEPT !.static = s, !.chain = c]
               /\ bpc' = IF c THEN "space" ELSE "result"
       \/ ~l2.got /\ bpc' = "result" /\ UNCHANGED l3
    /\ UNCHANGED <<options, rc, blobs, fvars, l2, l4, l5, usable, gpu, scan_ok, screen>> /\ NoAccess

\* The engines, the frame buffer's data and the address space.
Space ==
    /\ Goto("space", "memory")
    /\ \E ce, v \in BOOLEAN :
         /\ l4' = [l4 EXCEPT !.ce = ce]
         /\ l3' = [l3 EXCEPT !.vaspace = v]
    /\ UNCHANGED <<options, rc, blobs, fvars, l2, l5, usable, gpu, scan_ok, screen>> /\ NoAccess

\* The range is looked for in the regions of the static information.  If that
\* request failed, the record holds what was on the stack: nothing may be
\* found, or a range anywhere.
Memory ==
    /\ bpc = "memory"
    /\ \E p, m, u \in BOOLEAN :
         /\ m => p
         /\ l3.static \/ ~p => u
         /\ l3' = [l3 EXCEPT !.phys = p, !.vram = m]
         /\ usable' = u
    /\ bpc' = IF l3'.vram /\ l3.vaspace THEN "tables" ELSE "layer5"
    /\ UNCHANGED <<options, rc, blobs, fvars, l2, l4, l5, gpu, scan_ok, screen>> /\ NoAccess

\* The tables are built through the window, given to the firmware, and the
\* first entry is read back.
Tables ==
    /\ bpc = "tables"
    /\ \E m \in BOOLEAN :
         /\ l3' = [l3 EXCEPT !.map = m]
         /\ bpc' = IF m /\ l4.ce THEN "channel" ELSE "layer5"
    /\ Aim("none", "service")
    /\ UNCHANGED <<options, rc, blobs, fvars, l2, l4, l5, usable, gpu, scan_ok, screen>>

-----------------------------------------------------------------------------
(* Layer 4: the channel, its first command, and the copy engine's tests.   *)

\* What follows the allocation: binding (only noted), scheduling, and if
\* scheduled the copy object and its engine id.
Channel ==
    /\ bpc = "channel"
    /\ \E sched, obj, id \in BOOLEAN :
         /\ (obj => sched) /\ (id => obj)
         /\ l4' = [l4 EXCEPT !.sched = sched, !.ce_obj = obj, !.class_id = id]
         /\ bpc' = IF sched THEN "exec" ELSE "layer5"
    /\ Aim(win, "service")
    /\ UNCHANGED <<options, rc, blobs, fvars, l2, l3, l5, usable, gpu, scan_ok, screen>>

\* Mutant: the context is handed out before the first command is back.
GpuOk_Unproven(exec) == l4.ce_obj /\ l4.class_id

GpuOk(exec) == exec /\ l4.ce_obj /\ l4.class_id

\* The semaphore release is waited for; then the context is handed out.
Exec ==
    /\ Goto("exec", "selftest")
    /\ \E e \in BOOLEAN :
         /\ l4' = [l4 EXCEPT !.exec = e]
         /\ gpu' = [gpu EXCEPT !.ok = GpuOk(e)]
    /\ Aim(win, "service")
    /\ UNCHANGED <<options, rc, blobs, fvars, l2, l3, l5, usable, scan_ok, screen>>

\* A copy that is not reported back takes the context away; one that moved
\* wrong data does not, unless a pool was asked for.  With a pool, its far
\* end must have been reached.
SelfTest ==
    /\ Goto("selftest", "layer5")
    /\ IF gpu.ok
       THEN \E back, same, pool \in BOOLEAN :
              /\ same => back
              /\ pool => ext /\ same
              /\ gpu' = [ok |-> back /\ (ext => pool), selftest |-> same, pool |-> pool]
              /\ Aim(win, "service")
       ELSE UNCHANGED gpu /\ NoAccess
    /\ UNCHANGED <<options, rc, blobs, fvars, l2, l3, l4, l5, usable, scan_ok, screen>>

-----------------------------------------------------------------------------
(* Layer 5: the display's objects and channels, and the modeset.           *)

\* The display is enumerated and an output with an EDID is chosen.
Outputs ==
    /\ bpc = "layer5"
    /\ \E d, e \in BOOLEAN :
         /\ e => d
         /\ l5' = [l5 EXCEPT !.edid = e]
         /\ bpc' = IF d THEN "channels" ELSE "result"
    /\ UNCHANGED <<options, rc, blobs, fvars, l2, l3, l4, usable, gpu, scan_ok, screen>> /\ NoAccess

WantsModeset == fbp # "skip" /\ l5'.window /\ l5'.edid /\ l5'.sor

\* Instance memory, display root, core channel, an output resource for the
\* chosen output, window channel: each is tried if the one before it worked.
\* All three buffers lie in the display's frame.
DisplayChannels ==
    /\ bpc = "channels"
    /\ \E s, w \in BOOLEAN :
         /\ s => l5.edid
         /\ l5' = [l5 EXCEPT !.sor = s, !.window = w]
    /\ Aim("none", "display")
    /\ bpc' = IF WantsModeset THEN "mode" ELSE "result"
    /\ UNCHANGED <<options, rc, blobs, fvars, l2, l3, l4, usable, gpu, scan_ok, screen>>

\* The mode is taken from the EDID.  With a provider the buffer comes from the
\* platform; without one it is at a fixed place and is painted white.
Mode ==
    /\ bpc = "mode"
    /\ \/ bpc' = "result" /\ UNCHANGED fb /\ NoAccess                  \* no timing in the EDID
       \/ fbp = "alloc" /\ bpc' = "provider" /\ UNCHANGED fb /\ NoAccess
       \/ fbp = "none" /\ bpc' = "ctxdma" /\ fb' = FixedVram /\ Aim(win, "surface")
    /\ UNCHANGED <<options, rc, blobs, fvars, layers, shown, submitted>>

\* Mutant: a buffer that was refused is replaced by the fixed one.
Accept_Fixed(ok, s) == bpc' = "ctxdma" /\ fb' = IF ok THEN s ELSE FixedVram

\* An answer with address 0 counts as a refusal; after one nothing more is
\* done to the display.
Accept(ok, s) ==
    IF ok /\ s.at # 0
    THEN bpc' = "ctxdma" /\ fb' = s
    ELSE bpc' = "result" /\ UNCHANGED fb

\* fbp->alloc has returned.
ProviderAnswers(ok, s) ==
    /\ bpc = "provider"
    /\ Accept(ok, s)
    /\ UNCHANGED <<options, rc, blobs, fvars, layers, shown, submitted, win, stray>>

\* The descriptor of the surface and its RAMHT entry.
CtxDma ==
    /\ Goto("ctxdma", "core_init")
    /\ Aim(win, "display")
    /\ UNCHANGED <<options, rc, blobs, fvars, layers, screen>>

\* Phases 1 and 2 on the core channel; a phase that is not taken in time does
\* not keep the next from being sent.
CoreInit ==
    /\ Goto("core_init", "core_mode")
    /\ submitted' = submitted \cup {"core"}
    /\ Aim(win, "display")
    /\ UNCHANGED <<options, rc, blobs, fvars, layers, fb, shown>>

CoreMode ==
    /\ Goto("core_mode", "flip")
    /\ \E c \in BOOLEAN : l5' = [l5 EXCEPT !.cdone = c]
    /\ Aim(win, "display")
    /\ UNCHANGED <<options, rc, blobs, fvars, l2, l3, l4, usable, gpu, scan_ok, screen>>

\* Phases 3 and 4: output resource, then the window is told to show the
\* surface.  What its channel has taken when the wait is over is only logged.
Flip ==
    /\ Goto("flip", "confirm")
    /\ submitted' = submitted \cup {"window"}
    /\ Aim(win, "display")
    /\ UNCHANGED <<options, rc, blobs, fvars, layers, fb, shown>>

\* The display takes what the window was sent: in the wait, later, or never.
WindowFlips ==
    /\ "window" \in submitted /\ shown # fb
    /\ shown' = fb
    /\ UNCHANGED <<bpc, options, rc, blobs, layers, fb, submitted>> /\ NoAccess

Confirmed(h) == l5.cdone /\ h

\* The line counter is read twice and the armed state of the output once: both
\* speak of the head and its output, neither of the window.
Confirm ==
    /\ Goto("confirm", "result")
    /\ \E h \in BOOLEAN : scan_ok' = Confirmed(h)
    /\ UNCHANGED <<options, rc, blobs, fvars, l2, l3, l4, l5, usable, gpu, screen>>
    /\ NoAccess

\* What the caller is told does not depend on layers 3 to 5.
ResultCode == IF ~l2.booter \/ ~l2.active THEN -1 ELSE IF l2.sig THEN 0 ELSE 1

Result ==
    /\ bpc = "result"
    /\ Return(ResultCode)
    /\ UNCHANGED <<options, blobs, fvars, layers, screen>> /\ NoAccess

-----------------------------------------------------------------------------
\* One step of the pass, the provider's part left out.
BringupStep ==
    \/ Begin \/ GetGsp \/ GetBootloader \/ ArenaAlloc
    \/ FwsecPrepare \/ EngineStep \/ FwsecEnd \/ Staging \/ GetBooter \/ BooterEnd \/ LookForGsp
    \/ SequencerEvent \/ SequencerEnd \/ InitDone \/ BootTimeout
    \/ Objects \/ Space \/ Memory \/ Tables \/ Channel \/ Exec \/ SelfTest
    \/ Outputs \/ DisplayChannels \/ Mode \/ CtxDma \/ CoreInit \/ CoreMode \/ Flip \/ Confirm
    \/ Result

\* The caller enters the pass.
Call ==
    /\ Goto("idle", "begin")
    /\ UNCHANGED <<options, rc, blobs, fvars, layers, screen>> /\ NoAccess

-----------------------------------------------------------------------------
(* Properties *)

\* However the pass ends, its results hold.  No firmware image is left in kernel
\* memory: the dozen early returns and the oom label all free what was read so
\* far.  A context that is handed out stands on a finished command: the channel
\* runs, the copy object is on it and the release came back; with a pool, its
\* far end was reached too.
ResultsHold ==
    bpc = "returned" =>
        /\ blobs = {}
        /\ gpu.ok => /\ l2.got /\ l3.map /\ l4.sched /\ l4.exec /\ l4.ce_obj /\ l4.class_id
                     /\ ext => gpu.selftest /\ gpu.pool

\* The comment at the choice of memory: the range comes from a region the
\* firmware reported usable.
RangeIsUsable == l3.phys => usable
=============================================================================
