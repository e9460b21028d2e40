# RTXmacOC in TLA+

RTXmacOC drives an NVIDIA RTX (Ada) card under macOS on a PC: it boots the
card's own firmware (GSP-RM), talks to it by messages, builds page tables and a
copy channel, sets a display mode, and offers the card's memory and copy engine
to user processes. This directory holds TLA+ modules of the parts of that
driver that keep state, TLC configurations that check them on small instances,
and TLAPS proofs about the allocator, the copy channel, the compute service, the
RPC transport, bring-up with its hosts, the journal and the display. Paths below are relative to the repository.

Contents: 1 inventory, 2 plan, 3 modules and code, 4 runs, 5 fairness,
6 proofs, 7 where code and comments disagree, 8 what is left out, 9 how to run.

## 1. Inventory

The driver is a stack of layers. Layers 2 to 5 are one C core
(`driver/gsp/`) that two hosts call: the kext (`driver/macos/`) and a Linux tool
over VFIO (`tools/gsp_boot_linux.c`).

| Component | State | Operations | Talks to |
|---|---|---|---|
| Bring-up pass `gsp_bringup.c` | firmware images held, PRAMIN window, results, `gpu` context | `nv_gsp_bringup`: layer 2 (Falcon, FWSEC, booter, GSP boot), 3 (RM objects, memory, tables), 4 (channel), 6 self tests, 5 (display) | everything below; calls back the frame buffer provider in the middle of layer 5 |
| GSP RPC `gsp_rm.c`, `gsp_rpc.c` | two rings in DMA memory, four pointers, a sequence number | `nv_gsp_rpc_call` | firmware, which answers and sends events at its own pace |
| Memory choice `gsp_memory.c`, `vram.c` | firmware's report of regions | `nv_gsp_memory_plan`, `nv_vram_find_range` | bring-up |
| Page tables `gmmu.c` | words of VRAM | `nv_gmmu_range_plan`, `nv_gmmu_range_build`, `nv_gmmu_map_range` | GPU, which walks them |
| Copy channel `gsp_exec.c`, `gsp_fifo.c` | pushbuffer, ring of entries, semaphore, `seq`, `ok` | `nv_gsp_gpu_copy`, `nv_gsp_gpu_pool_test` | GPU, which fetches and copies at its own pace |
| VRAM pool `vram.c` | table of allocations, `used`, `next_handle` | init, alloc, free, resolve | compute service |
| Compute service `MilcorixUserClient.cpp` and the `gpu*` methods of `MilcorixFB.cpp` | connections, single client slot, pool, two locks | open, close, eight selectors, GPU operations | processes on several threads; provider's teardown |
| Frame buffer driver `MilcorixFB.cpp` | DMA arena, BAR mappings, scanout buffer, stage flags | `start`, `gspBringUp`, `allocScanoutFb`, `teardown`, `stop`, `free` | IOKit, bring-up pass |
| Journal `mfb_klog.cpp` | buffer, length, length written, tries | log, flush, lazy flush | any thread; the file system, absent at first |
| Falcon control `falcon.c`, CPU sequencer `gsp_bringup.c` | two engines, GSP and SEC2: memory, core, mailbox | reset, choice of core, DMA load, start, wait; opcodes the firmware sends | bring-up; engines that finish at their own pace |
| Firmware staging `gsp_fw.c`, `gsp_rpc.c`, `fb_layout.c`, DMA arena `nv_dma.h` | arena pointer, contents of the arena | allocate, fill page lists, meta data, queues; plan of the protected region | bring-up; the firmware, which follows the addresses |
| RM objects `gsp_rm.c`, `gsp_fifo.c`, `gsp_gr.c` | tree of objects in the firmware; the handles the driver believes in | RM_ALLOC and RM_CONTROL of layers 3 to 5 | firmware, which may refuse or not answer |
| Display `gsp_disp.c`, layer 5 of `gsp_bringup.c` | chosen output, mode, two pushbuffers with PUT, instance memory | list, choose, parse EDID, make channels, four phases of methods, confirm | display engine, which fetches, latches and commits at its own pace |
| Image readers `fwsec_locate.c`, `fwsec_patch.c`, `booter.c`, signature choice of `falcon.c` | none | locate, patch, select a signature | bring-up and the tools below |
| Programs of their own `tools/fwsec_run_linux.c`, `booter_run_linux.c`, `vbios_dump.c`, `RTXProbe`, `RTXProbeDext` | what they hold of the system: VFIO handles, BAR mapping, DMA buffer | take, run microcode, report, give back | Falcon, image readers, IOKit or VFIO |
| Unit tests, register probe, client program | none of their own | | |

What is hard in it, and what must therefore hold:

* **The GPU and the firmware are later than the host's timeouts.** A copy may
  land, and a reply may arrive, after the host gave up. So: a context that was
  given up is never used again and its memory is not touched; a late reply is
  not taken for another; a reply is used once; memory the firmware or the
  display may still use is never given back; no core is started on memory that
  is still being cleared or filled.
* **External methods of a client run on any thread, and the provider can be
  stopped at any step.** So: no register access after the BAR is unmapped, no
  work in a buffer somebody freed, locks and the one client slot come back.
* **Buffers pass from process to process.** So: cleared before they are handed
  out, and nobody reads another's data, through a copy still running included.
* **The pass has some thirty places to fail, and half of them must go on.** So:
  images are freed on every path, `gpu` is set only with proof that the page
  tables work, the picture of the EFI firmware stays until there is another,
  an aperture is published only behind a confirmed output.
* **Two things can say no to a request, the transport and the firmware, and a
  lost reply says nothing of what was done.** So: no handle is used that the
  firmware does not know, and a channel without its parts gets no methods.
* **The display takes what was pushed later, or only in part.** So: nothing is
  fetched beyond what was written, one output throughout all phases, the
  confirmation is of this driver's picture, and the mode is the monitor's.
* **Images come from a ROM and from files.** So: FWSEC is found behind every
  variant of headers, only the command and the signature are changed, the
  signature is the one the fuses ask for, and nothing is read outside a damaged image.
* **A small program fails at any of its steps with hardware still running.** So:
  all it took is given back in the reverse order, and success is reported only
  of microcode that ended.
* **Address arithmetic.** Sums of u64 values that may wrap, ranges that touch
  or overlap by one, an exact fit, tables over every boundary, a firmware report
  that contradicts itself. So: allocations inside and apart, counters exact,
  refusals justified, tables that map exactly the range asked for.
* **The journal's file system does not exist when it starts, and two threads
  write its one file.** So: what was reported written is in the file.

`PROJECT.json` lists these as hazards, each at its line, with the properties
that would catch it.

## 2. Plan

Done, in this order of importance:

1. `VramPool` with `BufferStore` and its proofs: what layer 6 stands on.
2. `GpuChannel` and `CopyEngine`: the channel and what it promises.
3. `GpuService` on top of both promises: threads, locks, teardown.
4. `GspRpc`: the transport every request of layers 3 to 5 uses.
5. `Bringup` and `Framebuffer`: the pass and its two hosts.
6. `Klog`; `GmmuLayout`, `Gmmu` and `MemoryPlan`.
7. `Falcon` with the boot events and the CPU sequencer, composed into `Bringup`;
   `Staging`.
8. `RmObjects`, `DisplayMode` and `Display`: layer 5 in detail.
9. `Microcode` and `Hosts`: the image readers and the programs that use them.

10. Proofs for the allocator, the channel, the service, the transport, bring-up
   with its engines and hosts, the programs that run microcode on their own, the journal, the
   display, the choice of memory with its page tables, and the staging of the firmware
   (section 6), the refinements of `BufferStore` and `CopyEngine` among them.

Every safety property that a passing run checks is proved, except `FindsFwsec` (section 6).

## 3. Modules and code

All modules abstract data in the same way: a transfer, page or message is one
value or cell, an address is a small number; every test, early return, loop and
order of writes that some other actor can see is kept. `PROJECT.json` gives the
lines of each definition. A definition named `X_Something` above a definition
`X` is the form a plausible mistake would give `X`; nothing in the modules uses
it. It is there to show that the property aimed at `X` notices.

**VramPool** (`driver/gsp/vram.c`). `allocations`, `used` and `next_handle` are
the fields of the pool. `PoolInit`, `FreeHandle` are one step each, since the
owner serialises; `nv_vram_alloc` is `AllocEnter` and one `AllocSearch` per pass
of its loop, with `candidate` the loop's variable. All sums wrap at `U64Max`.
`Resolves` and `ResolvedOffset` are `nv_vram_resolve`. **BufferStore** is the
promise: a set of live buffers from which the lowest fitting place is taken in
one step.

**GpuChannel** (`gsp_exec.c`, layer 6 self test of `gsp_bringup.c`, the method
list of `gsp_fifo.c`). Host steps are the writes of `nv_gsp_gpu_copy` in program
order: `ResetSem`, `WritePushbuffer`, `WriteRing`, `Kick`, then polls. The GPU
(external) fetches, moves and releases between any two of them, through page
tables `vmap` that may be wrong. **CopyEngine** is the promise: one job at a
time, a completed job has landed, a lost job may land later and then the engine
is not used.

**GpuService** (`MilcorixUserClient.cpp`, `MilcorixFB.cpp`). A call is a thread
with a request; it waits for `fResourceLock`, is refused or gets `work`, the
list of GPU operations of the method's loops (the clearing of a new buffer, whose
copies double what is clear, is given copy by copy by `ZeroNext`). Each operation waits for
`fGpuLock`, checks the region, aims PRAMIN and transfers, or submits and polls.
`TeardownEnter` and `TeardownExit` are the locked part of `teardown`. Allocation
follows `BufferStore`, and the copies are shown to be a use of `CopyEngine`.

**GspRpc** (`gsp_rm.c`, `gsp_rpc.c`). `WriteCommand` and `PublishCommand` are
the send half of `nv_gsp_rpc_call`; `Poll`, `Skip`, `CopyOut`, `Finish`, `Again`,
`Bounds` and `Timeout` its receive loop with all exits. The firmware (external)
takes commands in order, answers when it pleases, and sends events between.

**Falcon** (`falcon.c`, `gsp_bringup.c` 78-154). `falcon` holds both engines, `fpc`
is where the driver is with engine `eng`. One action per register sequence up to
the next wait; `Wait` ends well or at its limit. The opcodes of a sequencer
program (`prog`) are the `Seq` actions; a program is a constant, since the
firmware sends it, and of it `LoadsFirst` is assumed: between a reset of the GSP and
its start there is a load, or the opcode that hands the core to the Booter. `ScrubEnds`, `TransferEnds`, `Halts`, `FwsecProtects`,
`BooterStartsGsp` and the like are the hardware (external), at any moment, also
after the driver gave up waiting.

**Bringup** (`gsp_bringup.c`) EXTENDS it. One action per block of `nv_gsp_bringup` between
two answers from outside; `bpc` names the block. What firmware, display and
platform answer is a choice. `Flip` submits the window's flip and `WindowFlips`
(external) is the display that takes it, in the wait for it, later or never. `FwsecPrepare` to `FwsecEnd`, `GetBooter`,
`BooterEnd`, `LookForGsp` and the boot events drive the engines of `Falcon`
through `EngineStep`. `blobs` are the images held, `window` is where
PRAMIN points and `win` the orchestrator's copy of it.
**Framebuffer** (`MilcorixFB.cpp`, `tools/gsp_boot_linux.c`) EXTENDS it with the
two hosts: `start`, `gspBringUp`, the buffer provider (`AllocBar1`,
`AllocSysmem`, `AllocRefused`), `teardown`, `stop`, and the tool as `fStage` 0.

**Klog** (`mfb_klog.cpp`). A line is its length. Of the file `file` are the positions
that hold their byte of the journal, `note` those that hold the note on an overflow.
`Flush`, `FlushLazy` start a flush; `Open`, `Snapshot`, `Write`, `WriteFails`,
`Written`, `WriteNote`, `Close`, `Record` are its steps, and those of two flushers mix.
At the start the buffer holds the line that `start` logs first.

**GmmuLayout**, **Gmmu** (`gmmu.c`). Plan of tables for a range; then one action
per word written: clearing, directory entries, page entries. `Walk` is the GPU
(external). **MemoryPlan** (`gsp_memory.c`, `nv_vram_find_range`, lines 553 ff.
of `gsp_bringup.c`) EXTENDS `Gmmu` and chooses, from the regions reported, where
the tables, the channel and the pool go, with one action per pass of the search.

**Staging** (`nv_dma.h`, `gsp_fw.c`, `gsp_rpc.c`, `fb_layout.c`). The arena is a
function from cells to contents: `Alloc` is one call of `nv_dma_alloc`, then each
structure is written by one action. `Layout` is `nv_fb_compute_frts` followed by
`nv_gsp_fb_layout` with the sizes of the code; a size of zero is refused there
(`NoSizes`). `MCMemoryPlan` puts it in front of
`MemoryPlan`, as bring-up does.

**RmObjects** (`gsp_rm.c`, `gsp_fifo.c`, `gsp_gr.c`, the calls in
`gsp_bringup.c`). `objects` is the tree the firmware keeps, `held` the handles the
driver goes on with. Each request ends in one of three ways: done and answered,
refused, or unanswered, in which case the object may exist all the same.
**DisplayMode** (`gsp_disp.c`) holds the pure part: the timing read from an EDID's
eighteen bytes, the raster words made of it, the hash of a handle and the
descriptor of a surface, each with the hardware's reading of it beside (external).
**Display** (layer 5 of `gsp_bringup.c` with `gsp_disp.c`) EXTENDS both: outputs are
listed, one is chosen, channels are made, and in four phases `CopyMethods` writes
to a pushbuffer and `Kick` moves PUT. The engine (external) fetches up to PUT, an
update latches the assembly state, and a commit follows at some time or never.
`Internal` is a control for the subdevice the firmware keeps for itself: its handles
are those of the static information, or, without it, anything (`alien` then says
that a control went astray). Whether `WRITE_INST_MEM` was carried out is
`inst.known`, and without it `Lookup` finds nothing.
`Bringup` keeps the same steps by their outcomes, since it follows the whole pass.

**Microcode** (`fwsec_locate.c`, `fwsec_patch.c`, `booter.c`, `falcon.c` 116-141). An
image is a function from addresses to cells, each one structure; a reader
returns the set of its results, empty when it refuses.
**Hosts** (`tools/`, `driver/RTXProbe`, `driver/RTXProbeDext`) EXTENDS it and `Falcon`.
`WellBuilt` is what the vendor's build promises of FWSEC.
`host` is the program, `owned` what it holds; `Take` and `Give` are the way in and
out of the Linux tools, and the two IOKit drivers have `start`, the run of FWSEC
and `stop` as actions. `do_fwsec_frts` of the bring-up is there for comparison.

## 4. Runs

| Run | Checks | Bounds, and why they are enough |
|---|---|---|
| `vram_pool` | `IndInv`, `Disjoint`, `RefusalJustified`, `NoAliasing`, `AllocReturns`, `ImplementsStore` | 4-bit addresses, pages of 2, three slots, five handles, five pools (one at the top of the address space, one not aligned to the largest alignment) and ten requests. Sums wrap, the table and the handles run out, holes open between live buffers. |
| `gpu_channel` | `UsableMeansQuiet`, `NoChannelFault`, `VerifiedPoolIsMapped`, `ImplementsEngine` | ring of three, sequence numbers that wrap at two, three cells and all 27 page tables, seven calls: ring and sequence wrap with copies left to land late. |
| `gpu_service` | `MmioWhileMapped`, `WorkInLiveBuffers`, `NoForeignData` | two threads (three would only wait for the same lock), two connections in turn (the second sees what the first left), three pages with transfers of two (every loop has two passes), two handles, every selector, teardown at any step. |
| `gpu_service_live` | `LockGivenBack`, `SlotGivenBack`, `UsesEngine` | two pages and four requests, no symmetry: temporal properties. |
| `framebuffer` | `StartsReady`, `ResultsHold`, `HardwareMemoryKept`, `PublishedIsConfirmed`, `PictureKept`, `NoStrayAccess`, `ReportedIsInFile` | all options, every outcome of every step; the console at offset 0, above, or unknown; one address of system memory; images of two blocks for code and for data (a first and a last block of each); a program with every opcode that touches an engine, one that polls, one with an unknown opcode, in any number and order. The journal: six bytes, lines of one and three (a full buffer with and without a remainder), a note of two (it covers less and more than what lies behind a shorter flush), three tries, two flushing threads. |
| `memory` | `StagedRight`, `MappedExactly`, `LayoutIsSafe`, `NoSpaceJustified` | four levels of two entries, 16 pages of addresses, 32 of memory, 13 reports of regions (hole, exact fit, odd bounds, protected, reserved, contradictory, too many), exclusions that touch, overlap and overflow; for tables alone every crossing of boundaries and table places that overlap the data. Before it: pages of four entries and images up to one cell more than three levels hold, four sizes of the arena; VRAM of every size around the smallest that is enough, and of real cards. |
| `display` | `OwnReply`, `CommandsIntact`, `NoOrphans`, `OneOutput`, `NoUnwrittenMethod`, `ConfirmedIsOurs`, `ModeAsAdvertised`, `WindowReadsSurface` | three outputs for two output resources (one may go without), both protocols, with and without a picture of the EFI firmware; three descriptors: a usual timing, one with every split field near its largest value and a width that is no multiple of 16, and none at all; the provider's surface or the fixed one. Every request may be refused or lost, the static information and the controls that rest on it included. The transport: rings of four slots, messages of one and two slots, four calls of two functions, an event: messages wrap, rings fill, calls overlap late replies. |
| `hosts` | `FindsFwsec`, `LoadedIsSigned`, `GivenBack`, `ReportIsTrue` | ROMs with and without an EFI image, an extension header and NVIDIA's own signature, with one and several signed versions; ROMs cut short, with one damaged link, or with a token, pointer or entry redirected, into the microcode among others; containers with one and three signatures; every fuse value; all six programs, failing at every step. |
| `gsp_rpc_late`, `bringup_range`, `framebuffer_blank`, `klog_tries` | one property each, violated | the instances of the runs above, for the transport a smaller one; see section 7. |

`framebuffer` and `display` each check two parts that share no variable, and say
so in their MC modules: while the steps of one part go on, the other rests in its
initial state. The journal goes with the kext that writes it, the transport with the
requests it carries; the reachable states are those of the two parts side by side,
not their product, and each part runs through all of its own.

What the less obvious properties say:

* `UsableMeansQuiet`: while the context counts as usable, the GPU is idle up to
  the moment a new copy is published, whatever timed out before.
* `VerifiedPoolIsMapped`: if the self tests pass, the page tables reach the
  cells the tests claim to have checked; no wrong table passes.
* `NoForeignData`: in managed mode a process reads zero or its own data, never
  what an earlier client left, by a late copy either, and a buffer is clean at
  the moment it is handed out.
* `OwnReply`: the reader always stands on the header of a message, and as long as
  no call was given up, each call returns the reply to its own command.
* `WorkInLiveBuffers`: every page that a method still has to touch, as the source
  or the destination of any of its operations, belongs to a buffer its connection holds, one that is
  still being cleared included.
* `RefusalJustified`: "no space" is never a false alarm.
* `HardwareMemoryKept`: neither the arena nor the scanout buffer returns to the
  kernel while somebody else reads or writes it.
* `ResultsHold`: when the pass ends, whichever way, no image is still held, and a
  GPU context was published only with proof that its tables work.
* `StartsReady`: whenever a core executes, its memory is clean and complete and
  its mailbox holds what it needs, however late the hardware was.
* `StagedRight`: the firmware, following only the addresses it is given, finds
  the whole image, its logs and its queues; the plan of the protected region is
  accepted only if its parts fit in order, and refused only if VRAM is too small
  for them, their rounding included, where the unsigned differences wrap as well.
  A VRAM between the two, within the rounding, may be refused.
* `PictureKept`: no method goes to the display before there is a buffer to show.
* `MappedExactly`: the finished tables map the range asked for and nothing else,
  and at no moment of a build, over memory that held junk that looks like valid
  entries, does the finished part map an address elsewhere.
* `PublishedIsConfirmed`: what is published is the surface that the window was told
  to show, behind an output that was confirmed, and a buffer in BAR1
  is published only if the probe found video memory behind it.
* `ReportedIsInFile`: two flushes may truncate and write the one file at once; when
  both have ended all that either has reported is there. After an overflow the note
  of one may lie over what the other wrote (section 7).
* `NoOrphans`: no request names an object of the driver's tree that the firmware does
  not have, whatever was refused or lost before; those for the firmware's own
  subdevice miss it only after its handles could not be had (section 7).
* `OneOutput`: timing, output resource and protocol that are sent belong to one
  output, although the EDID buffer is shared by all of them. An answer of 128 to 255
  bytes leaves another monitor's second block in it; only the first is used.
* `NoUnwrittenMethod`: the engine never runs past the methods written, though
  phases it did not take in time pile up in the same buffer.
* `ConfirmedIsOurs`: when the pass reports a picture on an output resource that
  was dark before, what is armed is this driver's owner, protocol and mode.
* `ModeAsAdvertised`, `WindowReadsSurface`: bytes of the EDID through to raster
  words say what the monitor said; the handle given to the window is found by the
  engine's own hash and describes the surface that was handed out; if the firmware
  did not take the instance memory, the window reads nothing.
* `FindsFwsec`: in a sound ROM the reader returns the descriptor of the production
  FWSEC, wherever headers move it; a damaged one is refused or
  followed wherever its pointers lead, but not out of the image, and what the dump
  tool reports is what the driver finds.
* `LoadedIsSigned`: what an engine is given differs from the image only by the
  command and by the signature of the version that the fuses ask for (the Booter,
  when nothing is burned: its last one). No copy of the tools or the kext, of
  microcode or of a signature, reads past the end of the image.

Deadlock is checked only for the pool, which has no end. In the other modules
the bounds on calls, the end of the pass and the stopped provider are real ends.

## 5. Fairness

* `VramPool`: weak fairness of a pass of the search; a thread in a loop runs.
* `GpuService`: weak fairness of each thread's steps, of the end of open, close
  and teardown, which IOKit runs to completion. None of the GPU or of clients. `LockGivenBack`
  says that a holder gives its lock up, not that a given waiter gets it, so that no
  fair lock is assumed.
* `GpuChannel`, `GspRpc`, `Framebuffer`, `Display` and `Hosts` have no liveness
  property and assume no fairness: all their waits are bounded loops of the host,
  and what matters is what holds when one gives up.
* `Klog`: weak fairness of a flush under way and of the lazy flush, which
  IOFramebuffer's methods call again and again. None of `Mount`: `JournalReachesDisk`
  starts where the root is there, and is violated all the same (section 7).

## 6. Proofs

Each proof module names an inductive invariant `IndInv`, proves that it holds at the
start and that every action keeps it (`Invariance`), and derives the properties
from it. TLC has checked each `IndInv` as an invariant of the component's run before
the proof. The only assumptions are the ASSUMEs of the modules, which TLC
evaluates on every run; those that are more than the type of a constant are
named below.

**`VramPoolProofs`**, for every `U64Max` with `U64Max + 1` a power of two, page
size, table size, limit of handles and set of requests: `TypeCorrect`,
`AllocationsDisjoint`, `UsedIsExact`, `RefusalsJustified`, `HandlesDoNotAlias`,
`PoolIsStore`.

`Disjoint`, `UsedExact` and `RefusalJustified` are not inductive by themselves.
`IndInv` adds `InsidePool`, `HandlesUnique` (a free takes away one allocation,
not two), `PoolRange` (`va + size` does not wrap, so that no sum in the loop
does) and `SearchInv`, the invariant of the loop: the candidate is aligned, and
nothing below it can hold the request. That conjunct makes both ends of the loop
right. `TakeInv` shows that a place the loop takes keeps allocations apart and the
counter exact; `SkipBlockingInv` that moving past a blocking allocation to the
next aligned offset passes no place; `PastEndInv` that stopping at the end is a
justified refusal; `AllocEnterInv` that a refusal by the counter is justified
too, because a hole of that size would fit beside what is used (`RoomFitsUsed`,
a cardinality argument). In `HandlesDoNotAlias` the slot that resolve finds is the
only one with the handle, its sums do not wrap (`ResolvedPlace`), and `Disjoint`
does the rest. `PoolIsStore` is the refinement: the loop's last pass is the
store's one step (`TakeIsGrant`), all others stutter. It needs `StoreInv`, that
the number of live slots is the number of buffers in the store (`LiveCount`).

**`GpuChannelProofs`**, for every ring of two or more entries, every modulus of
the sequence number, any set of cells and of page tables: `UsableIsQuiet`,
`ChannelNeverFaults`, `VerifiedIsMapped`, `ChannelIsEngine`.

`ChannelInv` is the protocol: at most one copy is in flight, and it is the one
polled for or the one on which the context was lost; GP_PUT runs ahead of the
published index only between the write of the entry and its publication; the
class is bound by the first copy that ends; the semaphore is 0 from the reset to
the release and holds the payload only behind it. `TestInv` follows the three
self tests: before test `n` its pattern is nowhere, and once its copy has moved the
target shows the pattern only if the tables reach that target. `ChannelIsEngine`
maps every host step and every move of the GPU to a step of `CopyEngine` or to none.
That a payload is never 0 (`PayloadIsNotZero`) is what makes the reset meaningful.

**`GpuServiceProofs`**, for any number of threads, connections, pages, handles and
requests and any size of transfer: `NoAccessAfterStop`, `NoFreeInBetween`,
`OwnDataOnly`, `ServiceUsesEngine`.

`LockInv`: one connection is alive, a method that is inside holds its connection's
`fResourceLock`, and a thread at the card holds `fGpuLock` and has seen `ok`, so
that the BAR is mapped. `WorkInv`: handles name one buffer each, every operation
left in `work` stays within buffers of the connection, and a pending job is that
of the thread that polls, or the context is lost. `DataInv`: while the context is
usable, buffers hold zero or their owner's data, except the one being cleared,
whose pages are zero up to where the next copy goes (`ClearNext` is the doubling);
a buffer whose handle is returned is zero throughout. The three hold each other
up: no free can take a buffer a copy still uses, because the lock is held until the
copy has ended or the context is lost.

**`GspRpcProofs`**, for every ring of three or more slots, all functions, lengths of
replies and events: `ReplyIsOwn`, `LateByGivenUp`, `CommandsAreIntact`.

`Framed`: between the reader and the writer of the message queue lie whole
messages, wrapped or not, and the reader stands on the first slot of one.
`OrderInv`: replies in the queue and replies still owed are in the order of
their commands, and none is older than `Oldest`, the last command less the calls
given up; the commands not yet taken are the last ones, in order. That part holds
as long as fewer than `MsgCount - 1` calls were given up (`Spared`): the host does
not look at the firmware's pointer, and after that many the ring is overwritten.
`LateByGivenUp` says what happens in between: a reply is at most as many calls old
as were given up.

**`FramebufferProofs`**, for every size of image, every set of sequencer programs
that satisfy `LoadsFirst`, every place of the console and of system memory:
`CoresStartReady`, `PassResults`, `MemoryKept`, `PublishedPicture`,
`FirmwarePictureKept`, `WindowTrusted`.

Three invariants meet in `bpc`, the place of the pass. `EngineInv` is about the
engines. `Running`: a core that was started was ready, and stays so; while a
Booter runs the GSP rests on its RISC-V core with its arguments, and starting the
GSP is the last the Booter does. `AtEngine` says for each step of a register
sequence what the engine looks like there, whatever the hardware has finished
meanwhile: emptied after the reset, then scrubbed, then with as many blocks as
were sent, the one under way excepted (`Arrived`). `AtPass` says which engine is
driven at each block and that SEC2 is cold until the Booter's turn. `Sequencing`
follows a program of the firmware: what is left of it gives code before it starts
(`Covered`), or the GSP can be started as it is (`Startable`). `PassInv`:
`ResultInv` keeps what each block stands on, and `WindowInv` that the copy of the
window's place is right whenever there is one. `ShownInv`: until there is a surface
nothing is submitted or shown, then only that one, and what has been confirmed
was submitted to the window before (`PictureInv`); it is the fixed
one, or the one the kext holds (`SurfaceInv`); once the pass has been entered the
kext has marked the firmware as running and keeps the arena, and the tool keeps
it until it is out of the IOMMU (`HostInv`). `MemoryKept` needs two of them: an engine
that reaches memory means that the pass was entered, and then the arena is held.

Two assumptions are about the world. `ProgramAssumption` (`LoadsFirst`) is
about the firmware: `exec_cpu_sequencer` does not check it, and a program that
starts a core it has reset and not loaded would be executed as it is.
`SurfaceAssumption`: without a provider the surface is in video memory, as the
address in the code is.

In the same module, for the stand-alone programs of `Hosts`, every set of images, every
fuse and every buffer size: `TakenIsGivenBack`, `MicrocodeIsSigned`, `ReportsTrue`.
`HostsInv` has three parts. `OwnedInv` says what a program holds at each place: what a
Linux tool has taken is always a beginning of `VfioOrder` (`ToolOwns`), so that giving
back the last one each time keeps a mapping's memory and a device's container to the
end. `HostEngines`: the engine a program does not use is never started, the one it uses
stays off until `Launch`, and a core that has halted stays so (`HardwareKept`), which
is why a report remains true behind it. `ImageInv`: from the patch on the buffer holds
the image's microcode. `FrtsIs` shows that `nv_fwsec_patch_frts` writes two places,
`SignatureRight` that the index counted from the versions is the one of the burned
version (at most one is burned, `FuseOne`), `BooterIsIntact` the same of a container,
whose last signature is taken when nothing is burned.
`RomAssumption` and `ContainerAssumption` say what the vendor's build promises: the
microcode's tables lead to the places that its descriptor knows of, and signatures lie
in the order of their versions. Images that are damaged need not satisfy it: of them
only that no copy leaves them is claimed. `TakenIsGivenBack` has the exception of the
code: a probe kext whose `start` fails after the mapping of BAR0 keeps it.

**`KlogProofs`**, for every size of the journal, lines, tries and flushing threads:
`ReportIsKept`. A position that was reported is in the file or under a note, or some
flusher is about to read the whole buffer, or one is writing it (`Covered`); all of
them write from 0 what they have read, and the buffer only grows. Without an overflow
there is no note.

**`DisplayProofs`**, for any number of outputs, output resources, every descriptor
`TimingAssumption` admits and every surface: `HandlesAreKnown`, `ChoiceIsOne`,
`OnlyWrittenMethods`, `ConfirmationIsTrue`, `ModeIsMonitors`, `WindowOnSurface`.

`HandlesHeld` lists for every step the handles a later step names; each is held,
and what is held is in the firmware's tree (a lost reply leaves objects that
nobody holds, never the reverse). `InternalInv`: a control for the firmware's own
subdevice misses it only if its handles could not be had. `ChoiceInv` ties the EDID kept, the chosen output
and its resource together. `PushInv`: once the output is chosen, what each
pushbuffer holds is fixed by the phases copied; PUT is never beyond it. So the
engine's state can be given by the number of methods it has fetched (`EngineInv`):
before the fifth core method the armed state is the EFI firmware's, later it may
be either, and on a resource that was dark only the driver's own can be lit.
`SurfaceInv` and `WindowInv` follow the descriptor through the hash and the
context word. The bit arithmetic is proved as lemmas: reading the bytes of a
descriptor gives the descriptor (`DescriptorRead`), the head's reading of the raster
words gives the timing (`RasterScanned`), hash and context word are what the
engine computes (`HashIsSlot`, `ContextWord`), and a row of pixels fits its pitch
(`RowsFit`).

Two assumptions there say something about the world. `TimingAssumption`: a
descriptor with a pixel clock has lines and pulses, and a pulse begins inside the
blanking. Nothing in the code checks it, and without it the raster words wrap
(section 7). `SurfaceAssumption`: the surface lies at a multiple of 256, as pages do.

**`MemoryPlanProofs`**, for page tables of any number of levels, entries and spans,
VRAM and regions of any size, every alignment and every console, and for firmware,
logs, queues and arenas of any size: `PlanIsTyped`, `LayoutSafe`, `NoRoomIsTrue`,
`TablesMapExactly`, `FirmwareStaged`. `IndInv` has three parts.

`PlanInv` is about the choice. `CheckInv`: the spans are the usable ones among the
regions looked at, and those make sense together. `SearchInv`: no aligned place
in the spans left behind is free, nor one of this span below the candidate.
`PassSpan` and `SkipExcludedStep` carry it over the loop (`AlignUp`: rounding up
passes no multiple; `AlignUpFails`: an address that cannot be rounded up has no
multiple above it, which is where `U64Max + 1` being a multiple of `Align` is
needed), so that when no span is left there is no room (`NoRoom`). `PlannedInv`:
what was taken is inside a usable region and hits nothing, from which
`LayoutFromPlan` gets the four parts, and that the build does not refuse them
(`PlannedPlace`).

`GmmuInv` is about the tables. `Geometry`: the tables of a level follow those of
the level above, without overlap and inside VRAM. The entries of a level are
numbered through all its tables, and `Filled` says of every cell of every table
that it holds the entry of its number if that was written yet (`Written`) and zero
if not. It needs `Cleared`, because memory holds junk that looks like entries.
`CellOfEntry` says that no two entries share a cell, double entries included,
`PlaceOfNumber` that an entry is where its number puts it. The three ways the code
finds a cell are shown to be the same place: by the interval a table covers
(`ParentPlace`), by the address (`ChainPlace`, `LeafPlace`). The GPU's walk for a page of
the range then passes the tables of that page or meets zero (`WalkStaysInRange`),
and outside the range it meets zero at the latest at the leaf (`WalkIsRight`). `LinkInv`
says that no tables are under way while memory is chosen.

The walk and the number of tables above a level are recursive functions. What
they are for every argument is an induction, which is done with sets instead:
`NatMin` says that a set of numbers has a least one, `Climb` and `Descend` that a
property carried from each level to the next holds for all (`SumsExist`, `PathExists`).

Assumed are the geometry (`SpanAssumption`: a table covers what its entries cover),
and in `SizeAssumption` that the driver's addresses begin inside the GPU's, that the
low area is not empty and that the address space is a whole number of `Align`.

`FirmwareStaged` is about `StagingSpec`. `StagingInv` says with `Placed` that the
regions allocated so far lie on pages of their own below the arena's pointer, and
with `Ready` which of them are finished before each step. `Want` is what the firmware
looks for in a region, a list with a distance; `Holds` that it is there. Every action
writes one list into one region after clearing it, so that two lemmas carry the
invariant over all of them: what is put inside a region leaves the others
(`PutKeeps`), and what is put where it is looked for is found (`PutList`);
`WantInside` shows that each list fits its region, by the divisions of `StagedSizes`.
At the end `ImageIsReachable` follows the GPU through three lists by
quotients and remainders (`PageBelow`), `ListsAreComplete` through the libos
arguments. `PlanIsRight` is the plan of the protected region: each difference is
either the true one or wrapped (`MinusWraps`); the checks of `nv_gsp_fb_layout`
hold only if none has wrapped, and fail only if the sizes with their
roundings exceed what is there. This needs that twice a size or VRAM does
not exceed the width of the arithmetic, and a width above one gigabyte of VRAM
(`StagingAssumption`): with 64 bits both hold of any file and any card.

Only model-checked: all liveness (`AllocReturns`, `LockGivenBack`, `SlotGivenBack`),
which needs fairness and ENABLED; and `FindsFwsec`, which is
about a walk through a given ROM: what it finds is an induction over the image.

## 7. Where code and comments disagree

Four runs expect a violation; the counterexample is what the code does.

* `gsp_rpc_late`: `nv_gsp_rpc_call` recognises its reply by the function number.
  After a call timed out, the next of the same function takes the late reply.
* `bringup_range`: if the request for static information fails, the memory of
  layer 3 is chosen from a record on the stack that was never written.
* `framebuffer_blank`: layer 5 is accepted by the head and the output resource; what
  became of the window's flip is only logged (`gsp_bringup.c` 1281-1295), so that an
  aperture is published that the display does not show, or not yet.
* `klog_tries`: lazy flushes are counted before they are tried (165). If there are
  enough of them before the root is mounted, the journal never gets to the disk.

Seen while modelling, without a run:

* The controls for instance memory and for the addresses of pushbuffers (`gsp_bringup.c`
  952, 970, 1005) go to the handles of the same record; if the request for static
  information failed they name whatever lay on the stack, and layer 5 goes on
  (`alien` in `Display`).
* The note on an overflow is written where its own flush ended (`mfb_klog.cpp` 127-132).
  A flush with an older copy that ends last puts it over what another flush has
  reported, against line 75 ("the beginning is kept"); `ReportedIsInFile` counts such
  a position as under a note.
* A lazy flush records a length it reads again after the flush (`mfb_klog.cpp` 167),
  lines logged in between included. They reach the file with the next full
  flush, for which there may be no occasion.
* `gsp_bringup.h` line 163 documents the result as 0 or negative; the pass also
  returns 1. Line 70 says of `gpu->ok` that the channel is bound; line 806 of
  `gsp_bringup.c` does not look at the result of the bind.
* The comment at `gsp_bringup.c` 1351-1354 says that the EFI picture stays when
  the modeset fails; a failure after the core channel accepted the mode does not
  restore it. `PictureKept` is about what comes before the first method.
* A buffer at offset 0 of BAR1 is handed out with success and marked live
  (`MilcorixFB.cpp` 305), and the caller takes address 0 for a refusal
  (`gsp_bringup.c` 1097). It needs a console that does not lie there.
* A confirmation looks at the armed state of the chosen output resource. If the EFI
  firmware had lit the same one and the commit is late, the old state confirms;
  `ConfirmedIsOurs` therefore leaves that resource out.
* The pitch goes to the window in units of 64 bytes (`gsp_disp.c` 390). A width
  that is no multiple of 16, such as 1366, is cut down there although
  `gsp_bringup.h` 34-36 hands out the unrounded pitch.
* A horizontal sync offset not below the blanking makes `gsp_disp.c` 293 wrap; such
  a descriptor is no valid timing.
* A TMDS output is not preferred when the question about the first candidate's
  resource failed, against the comment at `gsp_bringup.c` 933.
* The answers to the writes of instance memory and pushbuffer addresses are not
  looked at (the window then finds no surface); a refused question for connected outputs leaves the mask asked about.
* The comment at `gsp_bringup.c` 1134 says 0x1000 where the code has 0x2000; the
  header of `RTXProbe.cpp` (line 11) describes an older state of that driver.
* `vbios_dump.c` (107) accepts images with the signature 0xAA55 only, while those of
  FWSEC may begin with 0x4E56 (`fwsec_locate.c` 9-16), so the tool can miss them.
* `do_fwsec_frts` compares neither microcode nor signatures with the end of the
  ROM, which the tools do; the container of the Booter is used without a check of
  its data size. Patches are bounded by the DMA buffer, not by the microcode.
  The signature index is not compared with the number of signatures.
* The probe kext gives its DMA buffer back after a transfer or run that timed
  out, and keeps its BAR mapping when `start` fails after it was made.
* A line that does not fit into the journal is dropped, and a later, shorter
  one is still appended.
* In the older layout without a pool the tables (`gsp_bringup.c` 598) and the
  channel (658) lie behind the megabyte chosen and are compared neither with the
  limit of the region nor with the display's addresses. `MemoryPlan` keeps the
  choice as it is; `LayoutIsSafe` asks of it only what the code checks.
* A reply that wraps around the ring is refused (`gsp_rm.c` 67) and stays
  unread, so that later calls meet it again.
* Layers 3 to 5 run even when the booter reported a bad status.
* `do_fwsec_frts` does not look at the result of the wait (`gsp_bringup.c` 72):
  the mailbox held zero before the start, so a FWSEC that has created the region
  and is still running counts as finished. The reset that follows stops it.
* After a sequencer program that failed, `active` still says what was seen before
  it; the pass can end with 1 ("GSP-RM loaded, RISC-V active") and a stopped core.
* A VGA workspace above the end of VRAM is noticed by `nv_gsp_fb_layout` only,
  after FWSEC has run with it. `Workspaces` are inside VRAM.
* `nv_gsp_shm_compute` counts the pages for its list before it adds them to it;
  `StagingAssumption` states that this is enough, as it is for the code's sizes.
* `fResourceLock` and the single client slot already keep clients apart;
  `fGpuLock` matters only against teardown.

## 8. What is left out

* The ELF reader (`elf64.c`): a section found by comparing names; success or failure
  is a choice.
* What register opcodes of the sequencer write, except code for the GSP.
* The layout of RM parameters and the bits of display methods that no property
  reads; the words of pushbuffers, except order and flush.
* In `Display` a reply comes in time or never: late ones are the subject of
  `GspRpc`. Different outputs get different output resources. The platform's
  surface is at one address of system memory, or absent.
* In `Hosts` finding the PCI device, turning bus mastering on and reading a file
  are one yes or no each.
* Reading files, mapping BARs and PCI configuration: I/O with a yes or no.
* `nv_gsp_rm_vmem_ctor` and `nv_gsp_rm_map_memory_dma`, which nothing calls, the
  parsing in `gsp_gr.c`, whose results are only logged, the register probe, unit
  tests and the command line client.
* Memory order of the CPU: the code issues its barriers before the doorbell and
  x86 keeps stores in order; writes are seen in program order.

## 9. How to run

In this directory `tlc -config MCVramPool.cfg MCVramPool` and so on; the pairs
are in `PROJECT.json` under `runs`, the longest takes about three minutes on two cores.
`tlapm VramPoolProofs.tla` checks the proofs of the pool, and likewise for
`GpuChannelProofs`, `GpuServiceProofs`, `GspRpcProofs`, `FramebufferProofs`, `KlogProofs`,
`DisplayProofs` and `MemoryPlanProofs`.
