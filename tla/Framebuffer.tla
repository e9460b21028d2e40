---------------------------- MODULE Framebuffer ----------------------------
(***************************************************************************)
(* The kext's frame buffer driver, driver/macos/MilcorixFB.cpp: start,     *)
(* teardown and stop around the bring-up pass of module Bringup, and the   *)
(* scanout buffer it provides in the middle of that pass.                  *)
(*                                                                         *)
(* The question is what the host may take back, and when: the DMA arena,   *)
(* which the firmware goes on using after a failed start, and the scanout  *)
(* buffer, which the display goes on reading.  Memory that was given back  *)
(* belongs to the kernel again.                                            *)
(***************************************************************************)
EXTENDS Bringup

CONSTANTS
    Console,     \* offsets in BAR1 of the EFI console, -1 if it is not known
    SysmemAt     \* physical addresses a buffer in system memory can be at

ASSUME AddressAssumption ==
    /\ Console \subseteq Nat \cup {-1} /\ -1 \in Console /\ SysmemAt \subseteq Nat \ {0}
    /\ \A c \in Console : [at |-> IF c = -1 THEN 0 ELSE c, target |-> "vram"] \in Surfaces
    /\ \A a \in SysmemAt : [at |-> a, target |-> "sysmem"] \in Surfaces

VARIABLES
    kpc,            \* where start, stop or free is
    fStage,         \* 1: bring-up only, 2: full; 0: the Linux tool, not the kext
    fFbMode,        \* "auto", "bar1" or "sysmem"
    bars,           \* what is mapped: BARs, and the arena in the IOMMU
    console,        \* consoleFbOffsetInBar1, -1 for ~0
    identity,       \* whether BAR1 shows the same bytes as the window does
    fDmaBuf,        \* the arena is held
    fGspRunning,
    fFbBuf,         \* the surface in system memory that is held
    fScanoutLive,
    fAperture,      \* what the kext would publish: fApertureCpuPhys by its surface
    fModeset,
    journal,        \* mfb_klog is open
    fGpuLock        \* the lock exists

kvars == <<kpc, fStage, fFbMode, bars, console, identity, fDmaBuf, fGspRunning, fFbBuf,
           fScanoutLive, fAperture, fModeset, journal, fGpuLock>>
vars  == <<bvars, fvars, kvars>>

boot_args == <<fStage, fFbMode, console, identity>>
scanout   == <<fFbBuf, fScanoutLive, fAperture>>

Init ==
    /\ BringupInit
    /\ kpc = "off" /\ fStage \in {0, 1, 2} /\ fFbMode \in {"auto", "bar1", "sysmem"}
    /\ fbp = CASE fStage = 0 -> "none" [] fStage = 1 -> "skip" [] fStage = 2 -> "alloc"
    /\ console \in Console /\ identity \in BOOLEAN
    /\ fStage # 2 => fFbMode = "auto" /\ console = -1 /\ ~identity    \* nobody asks
    /\ bars = {} /\ fDmaBuf = FALSE /\ fGspRunning = FALSE
    /\ fFbBuf = NoSurface /\ fScanoutLive = FALSE /\ fAperture = NoSurface
    /\ fModeset = FALSE /\ journal = FALSE /\ fGpuLock = FALSE

-----------------------------------------------------------------------------
(* Scanout buffer *)

FreesBuffer == ~fScanoutLive

freeScanoutFb ==
    /\ fFbBuf' = IF FreesBuffer THEN NoSurface ELSE fFbBuf
    /\ fAperture' = NoSurface

\* Mutant: the probe leaves the window where it was last aimed.
WindowAfterProbe_Moved == "surface"

\* probeBar1Identity aims the window at both ends of the buffer behind the
\* orchestrator's back, and puts the register back.
WindowAfterProbe == window

\* The two ways to a buffer; the first is tried if BAR1 is there and allowed,
\* and is taken if the probe has found the marks it wrote.
Bar1Surface == [at |-> IF console = -1 THEN 0 ELSE console, target |-> "vram"]
TriesBar1   == fFbMode # "sysmem" /\ "bar1" \in bars
TakesBar1   == TriesBar1 /\ identity

LiveOnAlloc == fScanoutLive' = TRUE

\* What allocScanoutFb holds once BAR1 was taken: nothing of its own.
BufferKept == IF FreesBuffer THEN NoSurface ELSE fFbBuf

\* allocScanoutFb: through BAR1, in system memory, or not at all (the mode is
\* too large, BAR1 only was asked for, no contiguous memory).
AllocBar1 ==
    /\ bpc = "provider" /\ TakesBar1
    /\ fFbBuf' = BufferKept
    /\ fAperture' = Bar1Surface /\ LiveOnAlloc
    /\ window' = WindowAfterProbe
    /\ ProviderAnswers(TRUE, Bar1Surface)
    /\ UNCHANGED <<kpc, boot_args, bars, fDmaBuf, fGspRunning, fModeset, journal, fGpuLock>>

AllocSysmem ==
    /\ bpc = "provider" /\ ~TakesBar1 /\ fFbMode # "bar1"
    /\ \E a \in SysmemAt :
         LET s == [at |-> a, target |-> "sysmem"] IN
         /\ fFbBuf' = s /\ fAperture' = s /\ LiveOnAlloc
         /\ window' = IF TriesBar1 THEN WindowAfterProbe ELSE window
         /\ ProviderAnswers(TRUE, s)
    /\ UNCHANGED <<kpc, boot_args, bars, fDmaBuf, fGspRunning, fModeset, journal, fGpuLock>>

AllocRefused ==
    /\ bpc = "provider"
    /\ freeScanoutFb /\ UNCHANGED fScanoutLive
    /\ window' = IF TriesBar1 THEN WindowAfterProbe ELSE window
    /\ ProviderAnswers(FALSE, NoSurface)
    /\ UNCHANGED <<kpc, boot_args, bars, fDmaBuf, fGspRunning, fModeset, journal, fGpuLock>>

-----------------------------------------------------------------------------
(* start, teardown, stop *)

Goes(from, to) == kpc = from /\ kpc' = to

FreesArena == ~fGspRunning

teardown ==
    /\ gpu' = [gpu EXCEPT !.ok = FALSE]
    /\ freeScanoutFb
    /\ fDmaBuf' = IF FreesArena THEN FALSE ELSE fDmaBuf
    /\ bars' = {}

\* A start that fails flushes the journal, tears down and closes the journal;
\* stop does the same.
Undo(to) ==
    /\ kpc' = to /\ teardown /\ journal' = FALSE
    /\ UNCHANGED <<boot_args, fGspRunning, fScanoutLive, fModeset, fGpuLock>>
    /\ UNCHANGED <<bpc, fbp, ext, rc, blobs, fvars, l2, l3, l4, l5, usable, scan_ok, screen,
                   window, win, stray>>

\* The journal is opened, then the BARs are mapped (BAR1 need not be there)
\* and the lock is made.  The provider is a PCI device: the kext matches no
\* other.
Start ==
    /\ Goes("off", "mapped") /\ fStage # 0
    /\ journal' = TRUE
    /\ \E b \in {{"bar0"}, {"bar0", "bar1"}} : bars' = b
    /\ fGpuLock' = TRUE
    /\ UNCHANGED <<boot_args, fDmaBuf, fGspRunning, scanout, fModeset, bvars, fvars>>

\* BAR0 or the lock cannot be had: what was there is undone at once.
StartFailsEarly ==
    /\ Goes("off", "failed") /\ fStage # 0
    /\ UNCHANGED <<boot_args, bars, fDmaBuf, fGspRunning, scanout, fModeset, journal, fGpuLock,
                   bvars, fvars>>

AllocArena ==
    /\ Goes("mapped", "arena")
    /\ fDmaBuf' = TRUE
    /\ UNCHANGED <<boot_args, bars, fGspRunning, scanout, fModeset, journal, fGpuLock, bvars, fvars>>

\* No arena, or (after it) a boot argument out of range.
ArenaFails == kpc \in {"mapped", "arena"} /\ Undo("failed")

\* Mutant: the flag is set when bring-up has succeeded.
MarksRunning_After == UNCHANGED fGspRunning

\* The flag is set before the first command: a pass that fails half-way may
\* have left an engine running.
MarksRunning == fGspRunning' = TRUE

CallBringup ==
    /\ Goes("arena", "bringup") /\ MarksRunning
    /\ Call
    /\ UNCHANGED <<boot_args, bars, fDmaBuf, scanout, fModeset, journal, fGpuLock>>

InBringup == kpc = "bringup" /\ BringupStep /\ UNCHANGED kvars

\* The engines and the display go on, whatever has become of the pass that
\* started them.
Hardware ==
    \/ FalconHardware /\ UNCHANGED <<bvars, kvars>>
    \/ WindowFlips /\ UNCHANGED <<fvars, kvars>>

\* The other caller, tools/gsp_boot_linux.c, has no lock, no journal and no
\* provider; its arena is reached through the IOMMU, and when the pass is over
\* it is unmapped there before it is given back.
ToolStart ==
    /\ Goes("off", "bringup") /\ fStage = 0
    /\ bars' = {"bar0", "iommu"} /\ fDmaBuf' = TRUE
    /\ Call
    /\ UNCHANGED <<boot_args, fGspRunning, scanout, fModeset, journal, fGpuLock>>

ToolExit ==
    /\ bpc = "returned" /\ fStage = 0 /\ Goes("bringup", "exited")
    /\ fDmaBuf' = FALSE /\ bars' = {}
    /\ UNCHANGED <<boot_args, fGspRunning, scanout, fModeset, journal, fGpuLock>>
    /\ UNCHANGED <<bvars, fvars>>

\* gspBringUp after the call, and the checks of start that follow.
BringupFailed ==
    /\ kpc = "bringup" /\ bpc = "returned" /\ fStage # 0 /\ rc # 0
    /\ Undo("failed")

BringupDone ==
    /\ bpc = "returned" /\ fStage # 0 /\ rc = 0 /\ Goes("bringup", "decide")
    /\ fModeset' = (scan_ok /\ fAperture # NoSurface)
    /\ UNCHANGED <<boot_args, bars, fDmaBuf, fGspRunning, scanout, journal, fGpuLock, bvars, fvars>>

\* Mutant: a frame buffer without a confirmed picture is published.
Presentable_Aperture == fAperture # NoSurface

Presentable == fModeset /\ fAperture # NoSurface

\* The diagnostic stage ends here; so does a full start without a picture, and
\* one that IOFramebuffer::start refuses.
StartGivesUp == kpc = "decide" /\ Undo("failed")

Publish ==
    /\ Goes("decide", "published")
    /\ fStage = 2 /\ Presentable
    /\ UNCHANGED <<boot_args, bars, fDmaBuf, fGspRunning, scanout, fModeset, journal, fGpuLock,
                   bvars, fvars>>

stop == kpc = "published" /\ Undo("stopped")

\* free: the lock goes last.
Free ==
    /\ kpc \in {"failed", "stopped"} /\ kpc' = "freed"
    /\ fGpuLock' = FALSE
    /\ UNCHANGED <<boot_args, bars, fDmaBuf, fGspRunning, scanout, fModeset, journal, bvars, fvars>>

Next ==
    \/ Start \/ StartFailsEarly \/ AllocArena \/ ArenaFails \/ CallBringup \/ InBringup
    \/ ToolStart \/ ToolExit \/ Hardware
    \/ AllocBar1 \/ AllocSysmem \/ AllocRefused
    \/ BringupFailed \/ BringupDone \/ StartGivesUp \/ Publish \/ stop \/ Free

Spec == Init /\ [][Next]_vars

-----------------------------------------------------------------------------
(* Properties *)

\* Memory the hardware may access is never given back to the kernel, through
\* every failure of the pass, teardown and stop: the arena as long as an engine
\* reaches it (teardown keeps it once fGspRunning is set), and a surface in
\* system memory that the window shows, be it that it was turned to it only
\* after the start had failed.
HardwareMemoryKept ==
    /\ (\E f \in DOMAIN falcon : Reaching(f)) /\ (fStage = 0 => "iommu" \in bars) => fDmaBuf
    /\ shown # NoSurface /\ shown.target = "sysmem" => fFbBuf = shown

\* A frame buffer is published on a confirmed output only, and it is the one
\* the window was told to show: the probe of BAR1, a refused buffer, a mode
\* that could not be set and a failed pass lie between the two.
PublishedIsConfirmed ==
    kpc = "published" =>
        /\ fAperture = fb /\ "window" \in submitted /\ scan_ok
        /\ fb.target = "vram" => identity

\* The comment at the acceptance of layer 5: by the fact, not by the submission,
\* the aperture is given away only if the hardware confirms the output, or the
\* user would be left with a black screen.
PublishedIsShown == kpc = "published" => shown = fAperture

\* The picture the firmware left is touched only when there is another to
\* offer: never on the diagnostic stage, and in the kext only with the buffer
\* it has handed out itself (a refusal ends layer 5).
PictureKept ==
    submitted # {} =>
        /\ fStage # 1 /\ fb # NoSurface
        /\ fStage = 2 /\ kpc = "bringup" => fb = fAperture

\* No access of the orchestrator through the window goes astray, although the
\* kext moves the window under its cached copy.
NoStrayAccess == ~stray
=============================================================================
