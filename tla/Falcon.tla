------------------------------- MODULE Falcon -------------------------------
(***************************************************************************)
(* The two microcontrollers of bring-up, GSP and SEC2, and the code that   *)
(* drives them: driver/gsp/falcon.c, and the CPU sequencer of              *)
(* driver/gsp/gsp_bringup.c that the firmware asks for while it boots.     *)
(*                                                                         *)
(* The hardware (external) scrubs memory after a reset, switches cores,    *)
(* transfers blocks and runs microcode at its own pace; every wait of the  *)
(* driver has a limit and may give up while the hardware goes on.          *)
(***************************************************************************)
EXTENDS Integers, Sequences

CONSTANTS
    Blocks,     \* transfers a part of an image takes
    Programs    \* what the firmware may ask the CPU sequencer to do

\* "load" stands for the register writes by which a program puts code into the GSP.
Opcodes == {"reg", "poll", "load", "core_reset", "core_start", "core_wait_halt",
            "core_resume", "unknown"}

\* A program that resets the GSP gives it code, or hands it over to the Booter,
\* before it starts it.
LoadsFirst(p) ==
    \A i, j \in 1 .. Len(p) :
        i < j /\ p[i] = "core_reset" /\ p[j] = "core_start"
            => \E k \in i + 1 .. j - 1 : p[k] \in {"load", "core_resume"}

ASSUME BlockAssumption   == Blocks \in Nat \ {0}
ASSUME ProgramAssumption == \A p \in Programs : p \in Seq(Opcodes) /\ LoadsFirst(p)

VARIABLES
    falcon,    \* the state of each engine
    wpr2,      \* the protected region of VRAM exists
    eng, fpc,  \* the engine the driver is busy with, and where it is
    sent,      \* blocks it has sent there
    prog       \* what is left of the sequencer's program, the current opcode first

fvars == <<falcon, wpr2, eng, fpc, sent, prog>>

\* scrub: memory is being cleared; imem, dmem: blocks that have arrived; trf:
\* the memory a transfer is under way to; mbox: what mailbox 0 holds.
Cold(c) == [scrub |-> FALSE, core |-> c, imem |-> 0, dmem |-> 0, trf |-> "none",
            cpu |-> "off", mbox |-> "none"]

\* Earlier firmware may have left the GSP on its RISC-V core.
FalconInit ==
    /\ \E c \in {"falcon", "riscv"} : falcon = [gsp |-> Cold(c), sec2 |-> Cold("falcon")]
    /\ wpr2 = FALSE /\ eng = "gsp" /\ fpc = "idle" /\ sent = 0 /\ prog = <<>>

Engine       == falcon[eng]
RiscvActive  == falcon["gsp"].core = "riscv" /\ falcon["gsp"].cpu = "running"
Steps(to)    == fpc' = to /\ UNCHANGED <<eng, sent, prog>>
Update(f, e) == falcon' = [falcon EXCEPT ![f] = e] /\ UNCHANGED wpr2

\* The driver turns to an engine, and is done with it.
Drive(f, step) == eng' = f /\ fpc' = step /\ sent' = 0 /\ UNCHANGED <<falcon, wpr2, prog>>
Release == eng' = "gsp" /\ fpc' = "idle" /\ sent' = 0 /\ prog' = <<>> /\ UNCHANGED <<falcon, wpr2>>

\* A wait ends when the hardware is ready, or with an error at its limit.
Wait(from, ready, to) ==
    /\ fpc = from /\ Steps(IF ready THEN to ELSE "failed")
    /\ UNCHANGED <<falcon, wpr2>>

-----------------------------------------------------------------------------
(* Reset, for the Falcon core and for the RISC-V core of the GSP.          *)

\* nv_falcon_reset_engine; what was in the engine is gone.
ResetEngine ==
    /\ fpc \in {"reset", "rv_reset"}
    /\ Update(eng, [Cold(Engine.core) EXCEPT !.scrub = TRUE])
    /\ Steps(IF fpc = "reset" THEN "scrub" ELSE "rv_scrub")

\* nv_falcon_wait_mem_scrubbing, in both kinds of reset.
WaitScrub ==
    \/ Wait("scrub", ~Engine.scrub, "select")
    \/ Wait("rv_scrub", ~Engine.scrub, "rv_select")

SelectCore ==
    /\ fpc = "select"
    /\ \/ Engine.core = "riscv" /\ Steps("valid") /\ Update(eng, [Engine EXCEPT !.core = "switching"])
       \/ Engine.core # "riscv" /\ Steps("rescrub") /\ UNCHANGED <<falcon, wpr2>>

WaitValid == Wait("valid", Engine.core = "falcon", "rescrub")

\* Scrubbing is waited for once more behind the choice of the core.
WaitRescrub == Wait("rescrub", ~Engine.scrub, IF prog = <<>> THEN "load" ELSE "opcode_done")

\* nv_falcon_gsp_reset_riscv selects the other core; its callers leave the
\* address of the libos arguments in the mailbox.
SelectRiscv ==
    /\ fpc = "rv_select"
    /\ Update(eng, [Engine EXCEPT !.core = "riscv", !.mbox = "libos"])
    /\ Steps(IF prog = <<>> THEN "rv_done" ELSE "resume")

-----------------------------------------------------------------------------
(* Loading and starting microcode.                                         *)

\* nv_falcon_dma_wr: code first, then data, block by block.  An address that is
\* not aligned is refused before the first block of a part.
Part == IF sent < Blocks THEN "imem" ELSE "dmem"

LoadBlock ==
    /\ fpc = "load"
    /\ \/ /\ Update(eng, [Engine EXCEPT !.trf = Part])
          /\ fpc' = "transfer" /\ sent' = sent + 1 /\ UNCHANGED <<eng, prog>>
       \/ sent \in {0, Blocks} /\ Steps("failed") /\ UNCHANGED <<falcon, wpr2>>

\* Mutant: the engine is taken to be as fast as the driver.
TransferIdle_Assumed == TRUE

TransferIdle == Engine.trf = "none"

\* Behind the last block the boot ROM and the start address are programmed.
WaitTransfer == Wait("transfer", TransferIdle, IF sent = 2 * Blocks THEN "start" ELSE "load")

\* nv_falcon_start; a core that is running does not notice.
Started(e) == [e EXCEPT !.cpu = IF @ \in {"off", "halted"} THEN "running" ELSE @]

\* nv_falcon_boot: mailbox, start, wait for the halt.
Launch(argument) ==
    /\ fpc = "start"
    /\ Update(eng, Started([Engine EXCEPT !.mbox = argument]))
    /\ Steps("running")

WaitHalted ==
    /\ fpc = "running"
    /\ Steps(IF Engine.cpu = "halted" THEN "halted" ELSE "timed_out")
    /\ UNCHANGED <<falcon, wpr2>>

-----------------------------------------------------------------------------
(* exec_cpu_sequencer on the GSP; the first failure ends the program.      *)

RunSequencer(p) ==
    /\ fpc = "idle" /\ fpc' = "opcode" /\ prog' = p
    /\ UNCHANGED <<falcon, wpr2, eng, sent>>

Fetch(ops) == fpc = "opcode" /\ prog # <<>> /\ Head(prog) \in ops

OpcodeDone ==
    /\ fpc = "opcode_done" /\ fpc' = "opcode" /\ prog' = Tail(prog)
    /\ UNCHANGED <<falcon, wpr2, eng, sent>>

\* Writes, delays and stores leave the engines alone, except the writes by
\* which a program has code put into the GSP.  A poll may time out.
SeqRegister ==
    /\ Fetch({"reg", "load"})
    /\ IF Head(prog) = "load"
       THEN Update("gsp", [falcon["gsp"] EXCEPT !.imem = Blocks, !.dmem = Blocks])
       ELSE UNCHANGED <<falcon, wpr2>>
    /\ Steps("opcode_done")

SeqPoll ==
    /\ Fetch({"poll"})
    /\ \E to \in {"opcode_done", "failed"} : Steps(to)
    /\ UNCHANGED <<falcon, wpr2>>

SeqUnknown == Fetch({"unknown"}) /\ Steps("failed") /\ UNCHANGED <<falcon, wpr2>>

SeqReset == Fetch({"core_reset"}) /\ Steps("reset") /\ UNCHANGED <<falcon, wpr2>>

SeqStart ==
    /\ Fetch({"core_start"}) /\ Steps("opcode_done")
    /\ Update("gsp", Started(falcon["gsp"]))

SeqWaitHalt ==
    /\ Fetch({"core_wait_halt"})
    /\ Steps(IF falcon["gsp"].cpu = "halted" THEN "opcode_done" ELSE "failed")
    /\ UNCHANGED <<falcon, wpr2>>

\* seq_core_resume: after the reset for RISC-V the Booter that is still in SEC2
\* is started again; then the handover flag (set by hardware at any time, if at
\* all), its mailbox and the core are looked at.
SeqResume == Fetch({"core_resume"}) /\ Steps("rv_reset") /\ UNCHANGED <<falcon, wpr2>>

RestartBooter ==
    /\ fpc = "resume" /\ Steps("resumed")
    /\ Update("sec2", Started(falcon["sec2"]))

Resumed ==
    /\ fpc = "resumed"
    /\ \/ falcon["sec2"].mbox = "zero" /\ RiscvActive /\ Steps("opcode_done")
       \/ Steps("failed")
    /\ UNCHANGED <<falcon, wpr2>>

SequencerOver == fpc = "failed" \/ (fpc = "opcode" /\ prog = <<>>)

\* One step of the driver at an engine.
FalconStep(argument) ==
    \/ ResetEngine \/ WaitScrub \/ SelectCore \/ WaitValid \/ WaitRescrub \/ SelectRiscv
    \/ LoadBlock \/ WaitTransfer \/ Launch(argument) \/ WaitHalted
    \/ OpcodeDone \/ SeqRegister \/ SeqPoll \/ SeqUnknown \/ SeqReset \/ SeqStart
    \/ SeqWaitHalt \/ SeqResume \/ RestartBooter \/ Resumed

-----------------------------------------------------------------------------
(* The hardware and its microcode (external).                              *)

Executing(f) == falcon[f].cpu \in {"running", "ending"}

\* An engine finishes what it was told to do.
ScrubEnds(f)    == falcon[f].scrub /\ Update(f, [falcon[f] EXCEPT !.scrub = FALSE])
CoreSwitches(f) == falcon[f].core = "switching" /\ Update(f, [falcon[f] EXCEPT !.core = "falcon"])
TransferEnds(f) ==
    /\ falcon[f].trf # "none"
    /\ Update(f, [falcon[f] EXCEPT !.trf = "none", ![falcon[f].trf] = @ + 1])

\* Microcode on a Falcon core leaves its result in the mailbox and halts.
Halts(f) ==
    /\ falcon[f].core = "falcon" /\ Executing(f)
    /\ \E m \in {"zero", "error"} : Update(f, [falcon[f] EXCEPT !.cpu = "halted", !.mbox = m])

\* FWSEC on the GSP creates the protected region before it halts.
FwsecProtects ==
    /\ falcon["gsp"].core = "falcon" /\ falcon["gsp"].cpu = "running"
    /\ ~wpr2 /\ wpr2' = TRUE /\ UNCHANGED falcon

\* The Booter on SEC2 starts the GSP, whatever that is set to, and comes to its
\* end.
BooterStartsGsp ==
    /\ falcon["sec2"].cpu = "running" /\ UNCHANGED wpr2
    /\ falcon' = [falcon EXCEPT !["gsp"] = Started(@), !["sec2"].cpu = "ending"]

FalconHardware ==
    /\ \/ \E f \in {"gsp", "sec2"} :
            ScrubEnds(f) \/ CoreSwitches(f) \/ TransferEnds(f) \/ Halts(f)
       \/ FwsecProtects
       \/ BooterStartsGsp
    /\ UNCHANGED <<eng, fpc, sent, prog>>

\* An engine can reach the DMA arena.
Reaching(f) == falcon[f].trf # "none" \/ Executing(f)

-----------------------------------------------------------------------------
(* Property *)

\* No core executes before everything it needs is there, however the waits of
\* the driver interleave with the hardware and with a sequencer program that
\* was given up: its memory is clean and complete, the Booter finds the
\* protected region, and RISC-V finds the address of its arguments.
StartsReady ==
    \A f \in DOMAIN falcon :
        Executing(f) =>
            /\ ~falcon[f].scrub /\ falcon[f].trf = "none"
            /\ f = "sec2" => wpr2
            /\ IF falcon[f].core = "riscv"
               THEN f = "gsp" /\ falcon[f].mbox = "libos"
               ELSE /\ falcon[f].core = "falcon"
                    /\ falcon[f].imem = Blocks /\ falcon[f].dmem = Blocks
=============================================================================
