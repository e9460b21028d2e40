-------------------------- MODULE FramebufferProofs --------------------------
(***************************************************************************)
(* What the hosts of the bring-up pass may rely on, for every number of    *)
(* blocks, every sequencer program that loads before it starts, every      *)
(* place of the surface.                                                   *)
(*                                                                         *)
(* Three invariants follow three actors: the engines and the driver's      *)
(* place in their register sequences; the results of the pass; what the    *)
(* host holds.  They meet in bpc, the place of the pass.                   *)
(*                                                                         *)
(* The stand-alone programs of module Hosts drive the same engines; three  *)
(* further invariants, for every well-built image, follow what they own,   *)
(* the engine, and the microcode in the buffer.                            *)
(***************************************************************************)
EXTENDS Framebuffer, Hosts, SequenceTheorems, FiniteSetTheorems, TLAPS

-----------------------------------------------------------------------------
(* The engines. *)

EngineState == [scrub : BOOLEAN, core : {"falcon", "riscv", "switching"}, imem : Nat, dmem : Nat,
                trf : {"none", "imem", "dmem"}, cpu : {"off", "running", "ending", "halted"},
                mbox : {"none", "zero", "meta", "error", "libos"}]

Gsp  == falcon["gsp"]
Sec2 == falcon["sec2"]

Clean(e)       == ~e.scrub /\ e.trf = "none"
FalconReady(e) == Clean(e) /\ e.core = "falcon" /\ e.imem = Blocks /\ e.dmem = Blocks
RiscvReady(e)  == Clean(e) /\ e.core = "riscv" /\ e.mbox = "libos"
Emptied(e)     == e.cpu = "off" /\ e.trf = "none" /\ e.imem = 0 /\ e.dmem = 0

\* The GSP is set to its RISC-V core and waits for the Booter to start it.
Resting == Gsp.cpu = "off" /\ RiscvReady(Gsp)

EngineType ==
    /\ falcon \in [{"gsp", "sec2"} -> EngineState] /\ wpr2 \in BOOLEAN
    /\ eng \in {"gsp", "sec2"} /\ sent \in Nat /\ prog \in Seq(Opcodes)

\* A core that has been started was ready, and stays so, halted or not.  A
\* Booter that runs finds the GSP at rest; starting it is the last it does.
Running ==
    /\ Gsp.cpu # "off" => FalconReady(Gsp) \/ RiscvReady(Gsp)
    /\ Gsp.core = "riscv" => Gsp.cpu \in {"off", "running"}
    /\ Sec2.cpu # "off" => FalconReady(Sec2) /\ wpr2
    /\ Sec2.cpu = "running" => Resting

\* Blocks of an image that have arrived, and the one under way.
Arrived(e) ==
    LET n == IF e.trf = "none" THEN sent ELSE sent - 1 IN
    /\ e.imem = (IF n <= Blocks THEN n ELSE Blocks)
    /\ e.dmem = (IF n <= Blocks THEN 0 ELSE n - Blocks)
    /\ e.trf # "none" => sent > 0 /\ e.trf = (IF sent <= Blocks THEN "imem" ELSE "dmem")
    /\ sent <= 2 * Blocks

\* The engine the driver is busy with, by the step it has come to.
Loading == {"reset", "scrub", "select", "valid", "rescrub", "load", "transfer", "start",
            "running", "halted", "timed_out", "failed"}
Handing == {"rv_reset", "rv_scrub", "rv_select", "rv_done", "failed"}
Asking  == {"idle", "opcode", "opcode_done", "reset", "scrub", "select", "valid", "rescrub",
            "rv_reset", "rv_scrub", "rv_select", "resume", "resumed", "failed"}

AtEngine ==
    /\ fpc \notin {"load", "transfer", "start", "running", "halted", "timed_out", "failed"} => sent = 0
    /\ fpc = "reset" => Engine.core # "switching"
    /\ fpc \in {"scrub", "rv_scrub"} => Emptied(Engine)
    /\ fpc = "scrub" => Engine.core # "switching"
    /\ fpc \in {"select", "valid", "rescrub", "rv_select"} => Emptied(Engine) /\ ~Engine.scrub
    /\ fpc = "select" => Engine.core # "switching"
    /\ fpc = "valid" => Engine.core # "riscv"
    /\ fpc = "rescrub" => Engine.core = "falcon"
    /\ fpc \in {"load", "transfer"} =>
         /\ Engine.cpu = "off" /\ ~Engine.scrub /\ Engine.core = "falcon" /\ Arrived(Engine)
         /\ fpc = "load" => Engine.trf = "none" /\ sent < 2 * Blocks
    /\ fpc = "start" => Engine.cpu = "off" /\ FalconReady(Engine)
    /\ fpc \in {"rv_done", "resume"} => Resting

\* Behind its current opcode a program gives the GSP code before it starts it.
Covered(p) ==
    \A j \in 1 .. Len(p) : p[j] = "core_start" => \E k \in 1 .. j - 1 : p[k] \in {"load", "core_resume"}

Startable == FalconReady(Gsp) \/ (RiscvReady(Gsp) /\ Gsp.cpu = "running")

InProgram == fpc \notin {"idle", "failed"}

Sequencing ==
    /\ fpc \in Asking /\ eng = "gsp" /\ LoadsFirst(prog)
    /\ fpc \notin {"idle", "failed", "opcode"} => prog # <<>>
    /\ fpc = "idle" => prog = <<>>
    /\ InProgram /\ fpc # "resumed" => Sec2.cpu # "running"
    /\ fpc \in {"opcode", "opcode_done"} => Clean(Gsp) /\ (Gsp.core = "falcon" \/ Startable)
    /\ fpc = "opcode" => Startable \/ Covered(prog)
    /\ fpc = "opcode_done" => Startable \/ Covered(Tail(prog))
    /\ fpc \in {"reset", "scrub", "select", "valid", "rescrub"} => Head(prog) = "core_reset"

Before == {"idle", "begin", "gsp_blob", "bl_blob", "arena", "fwsec"}
Driven == {"fwsec_run", "riscv", "booter_run", "events"}

\* Where the pass is says which engine is driven, and what has been done to both.
AtPass ==
    /\ bpc \in Before => Gsp.cpu = "off" /\ Gsp.trf = "none" /\ Gsp.core # "switching"
    /\ bpc \in Before \cup {"fwsec_run", "staging", "riscv"} => Sec2 = Cold("falcon")
    /\ bpc \in {"staging", "riscv", "booter_run"} => wpr2
    /\ bpc = "fwsec_run" => fpc \in Loading /\ eng = "gsp"
    /\ bpc = "riscv" => fpc \in Handing /\ eng = "gsp"
    /\ bpc = "booter_run" => /\ fpc \in Loading /\ eng = "sec2"
                           /\ IF fpc \in {"running", "halted", "timed_out"}
                              THEN Sec2.cpu # "off"
                              ELSE Sec2.cpu = "off" /\ Resting
    /\ bpc \in {"active", "events"} => Sec2.cpu # "off"
    /\ bpc \in Driven \ {"events"} => prog = <<>>
    /\ bpc \notin Driven => fpc = "idle" /\ eng = "gsp" /\ prog = <<>>

EngineInv == EngineType /\ Running /\ AtEngine /\ AtPass /\ (bpc = "events" => Sequencing)

-----------------------------------------------------------------------------
(* The results of the pass. *)

AfterTest == {"layer5", "channels", "mode", "provider", "ctxdma", "core_init", "core_mode",
              "flip", "confirm", "result", "returned"}
Layer34   == {"space", "memory", "tables", "channel", "exec", "selftest"}

ResultType ==
    /\ l2 \in [booter : BOOLEAN, active : BOOLEAN, got : BOOLEAN, sig : BOOLEAN]
    /\ l3 \in [static : BOOLEAN, chain : BOOLEAN, vaspace : BOOLEAN, phys : BOOLEAN,
               vram : BOOLEAN, map : BOOLEAN]
    /\ l4 \in [ce : BOOLEAN, sched : BOOLEAN, ce_obj : BOOLEAN, class_id : BOOLEAN, exec : BOOLEAN]
    /\ gpu \in [ok : BOOLEAN, selftest : BOOLEAN, pool : BOOLEAN]
    /\ ext \in BOOLEAN

\* What a block stands on was found by the blocks before it, and stays.
ResultInv ==
    /\ blobs # {} => bpc \in {"bl_blob", "arena", "fwsec", "fwsec_run", "staging"}
    /\ bpc \in Layer34 => l2.got
    /\ bpc \in {"channel", "exec", "selftest"} => l3.map
    /\ bpc \in {"exec", "selftest"} => l4.sched
    /\ gpu.ok => /\ bpc \in AfterTest \cup {"selftest"}
                 /\ l2.got /\ l3.map /\ l4.sched /\ l4.exec /\ l4.ce_obj /\ l4.class_id
                 /\ bpc # "selftest" /\ ext => gpu.selftest /\ gpu.pool

\* The copy of the window's place is right whenever there is one.
WindowInv == ~stray /\ (win # "none" => window = win)

-----------------------------------------------------------------------------
(* The picture and the host. *)

Modesetting == {"ctxdma", "core_init", "core_mode", "flip", "confirm"}

\* Until it has a surface the pass shows nothing; then the display shows that
\* one or still what it showed before, whatever has been confirmed.
PictureInv ==
    /\ bpc \notin Modesetting \cup {"result", "returned"} => fb = NoSurface
    /\ bpc \in Modesetting => fb # NoSurface
    /\ fb = NoSurface => submitted = {} /\ shown = NoSurface
    /\ shown \in {NoSurface, fb}
    /\ bpc = "confirm" \/ scan_ok => "window" \in submitted
    /\ bpc \notin {"result", "returned"} => ~scan_ok

\* The surface is the fixed one, or the one the kext has handed out and holds.
SurfaceInv ==
    /\ fStage \in {0, 1, 2} /\ console \in Console
    /\ fbp = CASE fStage = 0 -> "none" [] fStage = 1 -> "skip" [] fStage = 2 -> "alloc"
    /\ bpc \in Modesetting \cup {"mode", "provider"} => fbp # "skip"
    /\ bpc = "provider" => fbp = "alloc"
    /\ fb # NoSurface =>
         /\ fStage # 1 /\ (fStage = 0 => fb = FixedVram)
         /\ fStage = 2 => /\ fb.target = "vram" => identity
                          /\ fb.target = "sysmem" => fFbBuf = fb /\ fScanoutLive
                          /\ kpc \in {"bringup", "decide", "published"} => fAperture = fb

\* What the host holds while the pass runs and after it.
HostInv ==
    /\ kpc \in {"off", "mapped", "arena"} => bpc = "idle"
    /\ bpc \notin {"idle", "returned"} => kpc = "bringup"
    /\ kpc = "arena" => fDmaBuf
    /\ kpc = "bringup" => bpc # "idle" /\ fDmaBuf
    /\ bpc # "idle" /\ fStage # 0 => fGspRunning /\ fDmaBuf
    /\ bpc # "idle" /\ fStage = 0 => kpc \in {"bringup", "exited"}
    /\ kpc = "exited" => bars = {}
    /\ kpc \in {"decide", "published"} => bpc = "returned"
    /\ fModeset => scan_ok /\ bpc = "returned"
    /\ kpc = "published" => fModeset /\ fStage = 2

PassInv  == ResultType /\ ResultInv /\ WindowInv
ShownInv == PictureInv /\ SurfaceInv /\ HostInv

IndInv == EngineInv /\ PassInv /\ ShownInv

-----------------------------------------------------------------------------
(* The driver's steps at an engine. *)

LEMMA Types ==
    ASSUME EngineType
    PROVE  /\ Gsp \in EngineState /\ Sec2 \in EngineState /\ Engine \in EngineState
           /\ Engine = IF eng = "gsp" THEN Gsp ELSE Sec2
  BY DEF EngineType, Gsp, Sec2, Engine

LEMMA StartedIs ==
    ASSUME NEW e \in EngineState
    PROVE  /\ Started(e) \in EngineState
           /\ Started(e).cpu = IF e.cpu \in {"off", "halted"} THEN "running" ELSE e.cpu
  BY DEF EngineState, Started

LEMMA TailOf ==
    ASSUME NEW p \in Seq(Opcodes), p # <<>>
    PROVE  /\ Head(p) \in Opcodes /\ Head(p) = p[1] /\ Len(p) \in Nat /\ Len(p) > 0
           /\ Tail(p) \in Seq(Opcodes) /\ Len(Tail(p)) = Len(p) - 1
           /\ \A i \in 1 .. Len(p) - 1 : Tail(p)[i] = p[i + 1]
  OBVIOUS

\* What is left of a program that loads before it starts does so, too.
LEMMA NextOpcode ==
    ASSUME NEW p \in Seq(Opcodes), p # <<>>
    PROVE  /\ LoadsFirst(p) => LoadsFirst(Tail(p))
           /\ LoadsFirst(p) /\ Head(p) = "core_reset" => Covered(Tail(p))
           /\ Covered(p) => Head(p) # "core_start"
           /\ Covered(p) /\ Head(p) \notin {"load", "core_resume"} => Covered(Tail(p))
<1>1. LoadsFirst(p) => LoadsFirst(Tail(p))
  <2> SUFFICES ASSUME LoadsFirst(p), NEW i \in 1 .. Len(Tail(p)), NEW j \in 1 .. Len(Tail(p)), i < j,
                      Tail(p)[i] = "core_reset", Tail(p)[j] = "core_start"
               PROVE  \E k \in i + 1 .. j - 1 : Tail(p)[k] \in {"load", "core_resume"}
      BY DEF LoadsFirst
  <2>1. PICK k \in i + 2 .. j : p[k] \in {"load", "core_resume"}
      BY TailOf, i + 1 \in 1 .. Len(p), j + 1 \in 1 .. Len(p) DEF LoadsFirst
  <2>2. k - 1 \in i + 1 .. j - 1 /\ Tail(p)[k - 1] = p[k]
      BY <2>1, TailOf
  <2> QED BY <2>1, <2>2
<1>2. ASSUME LoadsFirst(p), Head(p) = "core_reset" PROVE Covered(Tail(p))
  <2> SUFFICES ASSUME NEW j \in 1 .. Len(Tail(p)), Tail(p)[j] = "core_start"
               PROVE  \E k \in 1 .. j - 1 : Tail(p)[k] \in {"load", "core_resume"}
      BY DEF Covered
  <2>1. PICK k \in 2 .. j : p[k] \in {"load", "core_resume"}
      BY <1>2, TailOf, 1 \in 1 .. Len(p), j + 1 \in 1 .. Len(p) DEF LoadsFirst
  <2>2. k - 1 \in 1 .. j - 1 /\ Tail(p)[k - 1] = p[k]
      BY <2>1, TailOf
  <2> QED BY <2>1, <2>2
<1>3. Covered(p) => Head(p) # "core_start"
    BY TailOf DEF Covered
<1>4. ASSUME Covered(p), Head(p) \notin {"load", "core_resume"} PROVE Covered(Tail(p))
  <2> SUFFICES ASSUME NEW j \in 1 .. Len(Tail(p)), Tail(p)[j] = "core_start"
               PROVE  \E k \in 1 .. j - 1 : Tail(p)[k] \in {"load", "core_resume"}
      BY DEF Covered
  <2>1. PICK k \in 1 .. j : p[k] \in {"load", "core_resume"}
      BY <1>4, TailOf, j + 1 \in 1 .. Len(p) DEF Covered
  <2>2. k - 1 \in 1 .. j - 1 /\ Tail(p)[k - 1] = p[k]
      BY <1>4, <2>1, TailOf
  <2> QED BY <2>1, <2>2
<1> QED BY <1>1, <1>2, <1>3, <1>4

\* A register opcode changes nothing but the GSP's code.
LEMMA CodePut ==
    ASSUME EngineType, SeqRegister
    PROVE  /\ Sec2' = Sec2 /\ Gsp' \in EngineState /\ wpr2' = wpr2 /\ EngineType'
           /\ Gsp'.scrub = Gsp.scrub /\ Gsp'.core = Gsp.core /\ Gsp'.trf = Gsp.trf
           /\ Gsp'.cpu = Gsp.cpu /\ Gsp'.mbox = Gsp.mbox
           /\ Gsp' = Gsp \/ (Head(prog) = "load" /\ Gsp'.imem = Blocks /\ Gsp'.dmem = Blocks)
           /\ Head(prog) = "load" => Gsp'.imem = Blocks /\ Gsp'.dmem = Blocks
<1> USE DEF SeqRegister, Fetch, Steps, EngineType, Gsp, Sec2
<1>1. CASE Head(prog) = "load"
  <2> DEFINE e == [Gsp EXCEPT !.imem = Blocks, !.dmem = Blocks]
  <2>1. Gsp \in EngineState
      OBVIOUS
  <2>2. /\ e \in EngineState /\ e.imem = Blocks /\ e.dmem = Blocks
        /\ e.scrub = Gsp.scrub /\ e.core = Gsp.core /\ e.trf = Gsp.trf
        /\ e.cpu = Gsp.cpu /\ e.mbox = Gsp.mbox
      BY ONLY <2>1, BlockAssumption DEF EngineState
  <2>3. falcon' = [falcon EXCEPT !["gsp"] = e] /\ wpr2' = wpr2
      BY <1>1 DEF Update
  <2> HIDE DEF e
  <2> QED BY <1>1, <2>2, <2>3
<1>2. CASE Head(prog) # "load"
    BY <1>2
<1> QED BY <1>1, <1>2

\* The steps of the driver, with the argument each engine is given.
Argument == IF bpc = "fwsec_run" THEN "zero" ELSE "meta"

LEMMA DriverType == EngineInv /\ EngineStep => EngineType'
<1> SUFFICES ASSUME EngineInv, bpc \in Driven, bpc' = bpc, FalconStep(Argument) PROVE EngineType'
    BY DEF EngineStep, Argument, Driven
<1> USE DEF Gsp, Sec2, Engine, Update, Steps, EngineType, EngineState, EngineInv
<1>1. CASE ResetEngine
    BY <1>1 DEF ResetEngine, Cold
<1>2. CASE WaitScrub
    BY <1>2 DEF WaitScrub, Wait
<1>3. CASE SelectCore
    BY <1>3 DEF SelectCore
<1>4. CASE WaitValid
    BY <1>4 DEF WaitValid, Wait
<1>5. CASE WaitRescrub
    BY <1>5 DEF WaitRescrub, Wait
<1>6. CASE SelectRiscv
    BY <1>6 DEF SelectRiscv
<1>7. CASE LoadBlock
  <2>1. [Engine EXCEPT !.trf = Part] \in EngineState
      BY DEF Part
  <2> QED BY <1>7, <2>1 DEF LoadBlock
<1>8. CASE WaitTransfer
    BY <1>8 DEF WaitTransfer, Wait, TransferIdle
<1>9. CASE Launch(Argument)
  <2>1. [Engine EXCEPT !.mbox = Argument] \in EngineState
      BY DEF Argument
  <2>2. Started([Engine EXCEPT !.mbox = Argument]) \in EngineState
      BY ONLY <2>1, StartedIs
  <2> QED BY <1>9, <2>2 DEF Launch
<1>10. CASE WaitHalted
    BY <1>10 DEF WaitHalted
<1>11. CASE OpcodeDone
    BY <1>11, TailOf DEF OpcodeDone, AtPass, Sequencing, Driven, Loading, Handing
<1>12. CASE SeqRegister
    BY <1>12, CodePut
<1>13. CASE SeqPoll
    BY <1>13 DEF SeqPoll, Fetch
<1>14. CASE SeqUnknown
    BY <1>14 DEF SeqUnknown, Fetch
<1>15. CASE SeqReset
    BY <1>15 DEF SeqReset, Fetch
<1>16. CASE SeqStart
    BY <1>16 DEF SeqStart, Fetch, Started
<1>17. CASE SeqWaitHalt
    BY <1>17 DEF SeqWaitHalt, Fetch
<1>18. CASE SeqResume
    BY <1>18 DEF SeqResume, Fetch
<1>19. CASE RestartBooter
    BY <1>19 DEF RestartBooter, Started
<1>20. CASE Resumed
    BY <1>20 DEF Resumed, RiscvActive
<1> QED BY <1>1, <1>2, <1>3, <1>4, <1>5, <1>6, <1>7, <1>8, <1>9, <1>10, <1>11, <1>12, <1>13, <1>14,
           <1>15, <1>16, <1>17, <1>18, <1>19, <1>20 DEF FalconStep

LEMMA DriverRunning == EngineInv /\ EngineStep => Running'
<1> SUFFICES ASSUME EngineInv, bpc \in Driven, bpc' = bpc, FalconStep(Argument) PROVE Running'
    BY DEF EngineStep, Argument, Driven
<1> USE DEF Gsp, Sec2, Engine, Update, Steps, EngineType, EngineState, Cold, EngineInv, AtPass,
            Driven, Loading, Handing, Asking, Sequencing, InProgram, Running, FalconReady,
            RiscvReady, Clean, Resting, Emptied, AtEngine, Startable
<1>1. CASE ResetEngine
    BY <1>1 DEF ResetEngine, Cold
<1>2. CASE WaitScrub
    BY <1>2 DEF WaitScrub, Wait
<1>3. CASE SelectCore
    BY <1>3 DEF SelectCore
<1>4. CASE WaitValid
    BY <1>4 DEF WaitValid, Wait
<1>5. CASE WaitRescrub
    BY <1>5 DEF WaitRescrub, Wait
<1>6. CASE SelectRiscv
    BY <1>6 DEF SelectRiscv
<1>7. CASE LoadBlock
    BY <1>7 DEF LoadBlock, Part
<1>8. CASE WaitTransfer
    BY <1>8 DEF WaitTransfer, Wait, TransferIdle
<1>9. CASE Launch(Argument)
    BY <1>9 DEF Launch, Started, Argument
<1>10. CASE WaitHalted
    BY <1>10 DEF WaitHalted
<1>11. CASE OpcodeDone
    BY <1>11 DEF OpcodeDone
<1>12. CASE SeqRegister
    BY <1>12, CodePut, NextOpcode DEF SeqRegister, Fetch
<1>13. CASE SeqPoll
    BY <1>13 DEF SeqPoll, Fetch
<1>14. CASE SeqUnknown
    BY <1>14 DEF SeqUnknown, Fetch
<1>15. CASE SeqReset
    BY <1>15 DEF SeqReset, Fetch
<1>16. CASE SeqStart
    BY <1>16, NextOpcode DEF SeqStart, Fetch, Started
<1>17. CASE SeqWaitHalt
    BY <1>17 DEF SeqWaitHalt, Fetch
<1>18. CASE SeqResume
    BY <1>18 DEF SeqResume, Fetch
<1>19. CASE RestartBooter
    BY <1>19 DEF RestartBooter, Started
<1>20. CASE Resumed
    BY <1>20 DEF Resumed, RiscvActive
<1> QED BY <1>1, <1>2, <1>3, <1>4, <1>5, <1>6, <1>7, <1>8, <1>9, <1>10, <1>11, <1>12, <1>13, <1>14,
           <1>15, <1>16, <1>17, <1>18, <1>19, <1>20 DEF FalconStep

LEMMA DriverAtEngine == EngineInv /\ EngineStep => AtEngine'
<1> SUFFICES ASSUME EngineInv, bpc \in Driven, bpc' = bpc, FalconStep(Argument) PROVE AtEngine'
    BY DEF EngineStep, Argument, Driven
<1> USE DEF Gsp, Sec2, Engine, Update, Steps, EngineType, EngineState, Cold, EngineInv, AtPass,
            Driven, Loading, Handing, Asking, Sequencing, InProgram, Running, FalconReady,
            RiscvReady, Clean, Resting, Emptied, AtEngine, Startable, Arrived
<1>1. CASE ResetEngine
    BY <1>1, BlockAssumption DEF ResetEngine, Cold
<1>2. CASE WaitScrub
    BY <1>2, BlockAssumption DEF WaitScrub, Wait
<1>3. CASE SelectCore
    BY <1>3, BlockAssumption DEF SelectCore
<1>4. CASE WaitValid
    BY <1>4, BlockAssumption DEF WaitValid, Wait
<1>5. CASE WaitRescrub
    BY <1>5, BlockAssumption DEF WaitRescrub, Wait
<1>6. CASE SelectRiscv
    BY <1>6, BlockAssumption DEF SelectRiscv
<1>7. CASE LoadBlock
  <2>1. CASE fpc' = "transfer"
    <3>1. /\ sent' = sent + 1 /\ eng' = eng /\ Engine' = [Engine EXCEPT !.trf = Part]
        BY <1>7, <2>1 DEF LoadBlock
    <3>2. /\ Engine'.trf = Part /\ Engine'.cpu = "off" /\ ~Engine'.scrub
          /\ Engine'.core = "falcon" /\ Engine'.imem = Engine.imem /\ Engine'.dmem = Engine.dmem
        BY <1>7, <3>1 DEF LoadBlock
    <3>3. Arrived(Engine)'
      <4>1. Arrived(Engine) /\ Engine.trf = "none" /\ sent \in Nat /\ sent < 2 * Blocks
          BY <1>7 DEF LoadBlock
      <4> QED BY ONLY <3>1, <3>2, <4>1, BlockAssumption DEF Arrived, Part
    <3> QED BY ONLY <2>1, <3>2, <3>3 DEF AtEngine
  <2>2. CASE fpc' = "failed"
      BY <1>7, <2>2 DEF LoadBlock
  <2> QED BY <1>7, <2>1, <2>2 DEF LoadBlock
<1>8. CASE WaitTransfer
    BY <1>8, BlockAssumption DEF WaitTransfer, Wait, TransferIdle
<1>9. CASE Launch(Argument)
    BY <1>9, BlockAssumption DEF Launch, Started, Argument
<1>10. CASE WaitHalted
    BY <1>10, BlockAssumption DEF WaitHalted
<1>11. CASE OpcodeDone
    BY <1>11, BlockAssumption DEF OpcodeDone
<1>12. CASE SeqRegister
    BY <1>12, CodePut, NextOpcode DEF SeqRegister, Fetch
<1>13. CASE SeqPoll
    BY <1>13, BlockAssumption DEF SeqPoll, Fetch
<1>14. CASE SeqUnknown
    BY <1>14, BlockAssumption DEF SeqUnknown, Fetch
<1>15. CASE SeqReset
    BY <1>15, BlockAssumption DEF SeqReset, Fetch
<1>16. CASE SeqStart
    BY <1>16, BlockAssumption DEF SeqStart, Fetch, Started
<1>17. CASE SeqWaitHalt
    BY <1>17, BlockAssumption DEF SeqWaitHalt, Fetch
<1>18. CASE SeqResume
    BY <1>18, BlockAssumption DEF SeqResume, Fetch
<1>19. CASE RestartBooter
    BY <1>19, BlockAssumption DEF RestartBooter, Started
<1>20. CASE Resumed
    BY <1>20, BlockAssumption DEF Resumed, RiscvActive
<1> QED BY <1>1, <1>2, <1>3, <1>4, <1>5, <1>6, <1>7, <1>8, <1>9, <1>10, <1>11, <1>12, <1>13, <1>14,
           <1>15, <1>16, <1>17, <1>18, <1>19, <1>20 DEF FalconStep

LEMMA DriverAtPass == EngineInv /\ EngineStep => AtPass'
<1> SUFFICES ASSUME EngineType, Running, AtEngine, AtPass, bpc \in Driven, bpc' = bpc,
                    bpc = "events" => Sequencing, FalconStep(Argument)
             PROVE  AtPass'
    BY DEF EngineStep, Argument, Driven, EngineInv
<1> USE DEF Gsp, Sec2, Engine, Update, Steps, EngineType, EngineState, Cold, AtPass, Driven,
            Loading, Handing, Clean, RiscvReady, Resting, Before, Running, AtEngine
<1>1. CASE ResetEngine
  <2>1. CASE bpc = "fwsec_run"
      BY <1>1, <2>1 DEF ResetEngine
  <2>2. CASE bpc = "riscv"
      BY <1>1, <2>2 DEF ResetEngine
  <2>3. CASE bpc = "booter_run"
      BY <1>1, <2>3 DEF ResetEngine
  <2>4. CASE bpc = "events"
    <3>1. Sec2' = Sec2
        BY <1>1, <2>4 DEF ResetEngine, Sequencing
    <3> QED BY ONLY <2>4, <3>1, bpc' = bpc, AtPass DEF AtPass, Before, Driven
  <2> QED BY <2>1, <2>2, <2>3, <2>4
<1>2. CASE WaitScrub
    BY <1>2 DEF WaitScrub, Wait
<1>3. CASE SelectCore
  <2>1. CASE bpc = "fwsec_run"
      BY <1>3, <2>1 DEF SelectCore
  <2>2. CASE bpc = "riscv"
      BY <1>3, <2>2 DEF SelectCore
  <2>3. CASE bpc = "booter_run"
    <3>0. eng = "sec2"
        BY <2>3
    <3>1. /\ Gsp' = Gsp /\ Sec2'.cpu = Sec2.cpu /\ UNCHANGED <<wpr2, prog, eng>>
          /\ fpc = "select" /\ fpc' \in {"valid", "rescrub"}
        BY ONLY <3>0, <1>3, EngineType
           DEF SelectCore, EngineType, EngineState, Gsp, Sec2, Engine, Update, Steps
    <3> QED BY ONLY <2>3, <3>1, bpc' = bpc, AtPass
            DEF AtPass, Before, Driven, Loading, Resting, RiscvReady, Clean
  <2>4. CASE bpc = "events"
    <3>1. Sec2' = Sec2
        BY <1>3, <2>4 DEF SelectCore, Sequencing
    <3> QED BY ONLY <2>4, <3>1, bpc' = bpc, AtPass DEF AtPass, Before, Driven
  <2> QED BY <2>1, <2>2, <2>3, <2>4
<1>4. CASE WaitValid
    BY <1>4 DEF WaitValid, Wait
<1>5. CASE WaitRescrub
    BY <1>5 DEF WaitRescrub, Wait
<1>6. CASE SelectRiscv
    BY <1>6 DEF SelectRiscv
<1>7. CASE LoadBlock
    BY <1>7 DEF LoadBlock, Part
<1>8. CASE WaitTransfer
    BY <1>8 DEF WaitTransfer, Wait, TransferIdle
<1>9. CASE Launch(Argument)
    BY <1>9 DEF Launch, Started, Argument
<1>10. CASE WaitHalted
    BY <1>10 DEF WaitHalted
<1>11. CASE OpcodeDone
    BY <1>11 DEF OpcodeDone
<1>12. CASE SeqRegister
    BY <1>12 DEF SeqRegister, Fetch
<1>13. CASE SeqPoll
    BY <1>13 DEF SeqPoll, Fetch
<1>14. CASE SeqUnknown
    BY <1>14 DEF SeqUnknown, Fetch
<1>15. CASE SeqReset
    BY <1>15 DEF SeqReset, Fetch
<1>16. CASE SeqStart
    BY <1>16 DEF SeqStart, Fetch, Started
<1>17. CASE SeqWaitHalt
    BY <1>17 DEF SeqWaitHalt, Fetch
<1>18. CASE SeqResume
    BY <1>18 DEF SeqResume, Fetch
<1>19. CASE RestartBooter
    BY <1>19 DEF RestartBooter, Started
<1>20. CASE Resumed
    BY <1>20 DEF Resumed, RiscvActive
<1> QED BY <1>1, <1>2, <1>3, <1>4, <1>5, <1>6, <1>7, <1>8, <1>9, <1>10, <1>11, <1>12, <1>13, <1>14,
           <1>15, <1>16, <1>17, <1>18, <1>19, <1>20 DEF FalconStep

LEMMA DriverSequencing == EngineInv /\ EngineStep => (bpc' = "events" => Sequencing')
<1> SUFFICES ASSUME EngineType, Running, AtEngine, Sec2.cpu # "off", Sequencing, FalconStep(Argument)
             PROVE  Sequencing'
    BY DEF EngineStep, Argument, Driven, EngineInv, AtPass
<1> USE DEF Gsp, Sec2, Engine, Update, Steps, EngineType, EngineState, Cold, Sequencing, Asking,
            InProgram, Startable, FalconReady, RiscvReady, Clean, Resting, Running, AtEngine,
            Emptied
<1>1. CASE ResetEngine
    BY <1>1, NextOpcode, TailOf DEF ResetEngine
<1>2. CASE WaitScrub
    BY <1>2, NextOpcode, TailOf DEF WaitScrub, Wait
<1>3. CASE SelectCore
    BY <1>3, NextOpcode, TailOf DEF SelectCore
<1>4. CASE WaitValid
    BY <1>4, NextOpcode, TailOf DEF WaitValid, Wait
<1>5. CASE WaitRescrub
    BY <1>5, NextOpcode, TailOf DEF WaitRescrub, Wait
<1>6. CASE SelectRiscv
    BY <1>6, NextOpcode, TailOf DEF SelectRiscv
<1>7. CASE LoadBlock
    BY <1>7, NextOpcode, TailOf DEF LoadBlock, Part
<1>8. CASE WaitTransfer
    BY <1>8, NextOpcode, TailOf DEF WaitTransfer, Wait, TransferIdle
<1>9. CASE Launch(Argument)
    BY <1>9, NextOpcode, TailOf DEF Launch, Started, Argument
<1>10. CASE WaitHalted
    BY <1>10, NextOpcode, TailOf DEF WaitHalted
<1>11. CASE OpcodeDone
    BY <1>11, NextOpcode, TailOf DEF OpcodeDone
<1>12. CASE SeqRegister
    BY <1>12, CodePut, NextOpcode, TailOf DEF SeqRegister, Fetch
<1>13. CASE SeqPoll
    BY <1>13, NextOpcode, TailOf DEF SeqPoll, Fetch
<1>14. CASE SeqUnknown
    BY <1>14, NextOpcode, TailOf DEF SeqUnknown, Fetch
<1>15. CASE SeqReset
    BY <1>15, NextOpcode, TailOf DEF SeqReset, Fetch
<1>16. CASE SeqStart
    BY <1>16, NextOpcode, TailOf DEF SeqStart, Fetch, Started
<1>17. CASE SeqWaitHalt
    BY <1>17, NextOpcode, TailOf DEF SeqWaitHalt, Fetch
<1>18. CASE SeqResume
    BY <1>18, NextOpcode, TailOf DEF SeqResume, Fetch
<1>19. CASE RestartBooter
    BY <1>19, NextOpcode, TailOf DEF RestartBooter, Started
<1>20. CASE Resumed
    BY <1>20, NextOpcode, TailOf DEF Resumed, RiscvActive
<1> QED BY <1>1, <1>2, <1>3, <1>4, <1>5, <1>6, <1>7, <1>8, <1>9, <1>10, <1>11, <1>12, <1>13, <1>14,
           <1>15, <1>16, <1>17, <1>18, <1>19, <1>20 DEF FalconStep

\* The hardware at its own pace.
\* A block has arrived.
OneMore(r) == [r EXCEPT !.trf = "none", ![r.trf] = @ + 1]

LEMMA OneMoreBlock ==
    ASSUME NEW r \in EngineState, r.trf # "none"
    PROVE  LET d == OneMore(r) IN
           /\ d \in EngineState /\ d.trf = "none" /\ d.scrub = r.scrub /\ d.core = r.core
           /\ d.cpu = r.cpu /\ d.mbox = r.mbox
           /\ d.imem = r.imem + (IF r.trf = "imem" THEN 1 ELSE 0)
           /\ d.dmem = r.dmem + (IF r.trf = "dmem" THEN 1 ELSE 0)
<1> DEFINE I(n) == [r EXCEPT !.trf = "none", !.imem = n]
           D(n) == [r EXCEPT !.trf = "none", !.dmem = n]
<1>1. r.imem \in Nat /\ r.dmem \in Nat /\ r.trf \in {"imem", "dmem"}
    BY DEF EngineState
<1>2. \A n \in Nat : LET d == I(n) IN
        /\ d \in EngineState /\ d.trf = "none" /\ d.imem = n /\ d.dmem = r.dmem
        /\ d.scrub = r.scrub /\ d.core = r.core /\ d.cpu = r.cpu /\ d.mbox = r.mbox
    BY DEF EngineState
<1>3. \A n \in Nat : LET d == D(n) IN
        /\ d \in EngineState /\ d.trf = "none" /\ d.dmem = n /\ d.imem = r.imem
        /\ d.scrub = r.scrub /\ d.core = r.core /\ d.cpu = r.cpu /\ d.mbox = r.mbox
    BY DEF EngineState
<1>4. CASE r.trf = "imem"
  <2>1. PICK n \in Nat : n = r.imem + 1
      BY <1>1
  <2>2. OneMore(r) = I(n)
      BY <1>4, <2>1 DEF OneMore, EngineState
  <2> HIDE DEF I, D
  <2> QED BY <1>1, <1>2, <1>4, <2>1, <2>2
<1>5. CASE r.trf = "dmem"
  <2>1. PICK n \in Nat : n = r.dmem + 1
      BY <1>1
  <2>2. OneMore(r) = D(n)
      BY <1>5, <2>1 DEF OneMore, EngineState
  <2> HIDE DEF I, D
  <2> QED BY <1>1, <1>3, <1>5, <2>1, <2>2
<1> QED BY <1>1, <1>4, <1>5

LEMMA TransferLands ==
    ASSUME EngineType, NEW f \in {"gsp", "sec2"}, TransferEnds(f)
    PROVE  /\ falcon[f] \in EngineState /\ falcon[f].trf \in {"imem", "dmem"} /\ wpr2' = wpr2
           /\ falcon' = [falcon EXCEPT ![f] = OneMore(falcon[f])]
           /\ falcon'[f] = OneMore(falcon[f]) /\ OneMore(falcon[f]) \in EngineState
           /\ \A g \in {"gsp", "sec2"} \ {f} : falcon'[g] = falcon[g]
<1>1. falcon[f] \in EngineState /\ falcon[f].trf \in {"imem", "dmem"}
    BY DEF EngineType, EngineState, TransferEnds
<1>2. falcon' = [falcon EXCEPT ![f] = OneMore(falcon[f])] /\ wpr2' = wpr2
    BY DEF TransferEnds, Update, OneMore
<1> QED BY <1>1, <1>2, OneMoreBlock DEF EngineType

\* What the hardware leaves alone.
HardwareLeaves ==
    /\ (wpr2 => wpr2')
    /\ Sec2 = Cold("falcon") => Sec2' = Sec2
    /\ (Sec2.cpu = "off") <=> (Sec2.cpu = "off")'
    /\ Sec2.cpu # "running" => Sec2'.cpu # "running"
    /\ Gsp.cpu = "off" /\ Sec2.cpu # "running" => Gsp'.cpu = "off"
    /\ Gsp.trf = "none" => Gsp'.trf = "none"
    /\ Sec2.trf = "none" => Sec2'.trf = "none"
    /\ ~Gsp.scrub => ~Gsp'.scrub
    /\ ~Sec2.scrub => ~Sec2'.scrub
    /\ Gsp.core = Gsp'.core \/ (Gsp.core = "switching" /\ Gsp'.core = "falcon")
    /\ Sec2.core = Sec2'.core \/ (Sec2.core = "switching" /\ Sec2'.core = "falcon")
    /\ Gsp.trf = "none" => Gsp'.imem = Gsp.imem /\ Gsp'.dmem = Gsp.dmem
    /\ Sec2.trf = "none" => Sec2'.imem = Sec2.imem /\ Sec2'.dmem = Sec2.dmem
    /\ Gsp.core = "riscv" => Gsp'.mbox = Gsp.mbox
    /\ Gsp.core = "riscv" /\ Gsp.cpu = "running" => Gsp'.cpu = "running"

LEMMA HardwareKeepsEngines ==
    ASSUME EngineType, Running, FalconHardware
    PROVE  EngineType' /\ Running' /\ HardwareLeaves
<1> USE DEF Gsp, Sec2, EngineType, EngineState, Cold, Running, FalconReady, RiscvReady, Clean,
            Resting, Executing
<1>0. UNCHANGED <<eng, fpc, sent, prog>>
    BY DEF FalconHardware
<1>1. ASSUME NEW f \in {"gsp", "sec2"}, ScrubEnds(f) PROVE EngineType' /\ Running' /\ HardwareLeaves
  <2>1. EngineType'
      BY <1>0, <1>1 DEF ScrubEnds, Update
  <2>2. Running'
      BY <1>1 DEF ScrubEnds, Update
  <2>3. HardwareLeaves
      BY <1>1 DEF ScrubEnds, Update, HardwareLeaves
  <2> QED BY <2>1, <2>2, <2>3
<1>2. ASSUME NEW f \in {"gsp", "sec2"}, CoreSwitches(f) PROVE EngineType' /\ Running' /\ HardwareLeaves
  <2>1. EngineType'
      BY <1>0, <1>2 DEF CoreSwitches, Update
  <2>2. Running'
      BY <1>2 DEF CoreSwitches, Update
  <2>3. HardwareLeaves
      BY <1>2 DEF CoreSwitches, Update, HardwareLeaves
  <2> QED BY <2>1, <2>2, <2>3
<1>3. ASSUME NEW f \in {"gsp", "sec2"}, TransferEnds(f) PROVE EngineType' /\ Running' /\ HardwareLeaves
  <2>1. EngineType'
      BY <1>0, <1>3, TransferLands, OneMoreBlock
  <2>2. Running'
      BY <1>3, TransferLands, OneMoreBlock
  <2>3. HardwareLeaves
      BY <1>3, TransferLands, OneMoreBlock DEF HardwareLeaves
  <2> QED BY <2>1, <2>2, <2>3
<1>4. ASSUME NEW f \in {"gsp", "sec2"}, Halts(f) PROVE EngineType' /\ Running' /\ HardwareLeaves
  <2>1. PICK m \in {"zero", "error"} : Update(f, [falcon[f] EXCEPT !.cpu = "halted", !.mbox = m])
      BY <1>4 DEF Halts
  <2>2. EngineType'
      BY <1>0, <2>1 DEF Update
  <2>3. Running'
      BY <1>4, <2>1 DEF Halts, Update
  <2>4. HardwareLeaves
      BY <1>4, <2>1 DEF Halts, Update, HardwareLeaves
  <2> QED BY <2>2, <2>3, <2>4
<1>5. CASE FwsecProtects
    BY <1>0, <1>5 DEF FwsecProtects, HardwareLeaves
<1>6. CASE BooterStartsGsp
  <2>1. EngineType'
      BY <1>0, <1>6 DEF BooterStartsGsp, Started
  <2>2. Running'
      BY <1>6 DEF BooterStartsGsp, Started
  <2>3. HardwareLeaves
      BY <1>6 DEF BooterStartsGsp, Started, HardwareLeaves
  <2> QED BY <2>1, <2>2, <2>3
<1> QED BY <1>1, <1>2, <1>3, <1>4, <1>5, <1>6 DEF FalconHardware

\* A block that arrives is counted where the driver expects it.
LEMMA ArrivedKept ==
    ASSUME EngineType, FalconHardware, Arrived(Engine)
    PROVE  Arrived(Engine)'
<1>0. UNCHANGED <<eng, sent>> /\ Engine \in EngineState /\ eng \in {"gsp", "sec2"}
    BY DEF FalconHardware, Engine, EngineType
<1>1. ASSUME NEW f \in {"gsp", "sec2"}, TransferEnds(f) PROVE Arrived(Engine)'
  <2>1. CASE f = eng
    <3>1. Engine' = OneMore(Engine) /\ Engine.trf # "none"
        BY <1>0, <1>1, <2>1, TransferLands DEF Engine
    <3>2. /\ Engine'.trf = "none"
          /\ Engine'.imem = Engine.imem + (IF Engine.trf = "imem" THEN 1 ELSE 0)
          /\ Engine'.dmem = Engine.dmem + (IF Engine.trf = "dmem" THEN 1 ELSE 0)
        BY ONLY <1>0, <3>1, OneMoreBlock
    <3>3. sent \in Nat
        BY DEF EngineType
    <3> QED BY ONLY <1>0, <3>1, <3>2, <3>3, BlockAssumption, Arrived(Engine) DEF Arrived
  <2>2. CASE f # eng
    <3>1. Engine' = Engine
        BY <1>0, <1>1, <2>2, TransferLands DEF Engine
    <3> QED BY <1>0, <3>1 DEF Arrived
  <2> QED BY <2>1, <2>2
<1>2. CASE /\ Engine'.trf = Engine.trf /\ Engine'.imem = Engine.imem /\ Engine'.dmem = Engine.dmem
    BY <1>0, <1>2 DEF Arrived
<1>3. ASSUME NEW f \in {"gsp", "sec2"}, ScrubEnds(f) \/ CoreSwitches(f) \/ Halts(f)
      PROVE  Engine'.trf = Engine.trf /\ Engine'.imem = Engine.imem /\ Engine'.dmem = Engine.dmem
  <2> USE DEF Update, EngineType, EngineState, Engine
  <2>1. CASE ScrubEnds(f)
      BY <1>0, <2>1 DEF ScrubEnds
  <2>2. CASE CoreSwitches(f)
      BY <1>0, <2>2 DEF CoreSwitches
  <2>3. CASE Halts(f)
    <3>1. PICK m \in {"zero", "error"} : Update(f, [falcon[f] EXCEPT !.cpu = "halted", !.mbox = m])
        BY <2>3 DEF Halts
    <3> QED BY <1>0, <3>1
  <2> QED BY <1>3, <2>1, <2>2, <2>3
<1>4. CASE FwsecProtects \/ BooterStartsGsp
    BY <1>0, <1>2, <1>4 DEF FwsecProtects, BooterStartsGsp, Started, EngineType, EngineState, Engine
<1> QED BY <1>1, <1>2, <1>3, <1>4 DEF FalconHardware

LEMMA HardwareKeeps ==
    ASSUME EngineInv, FalconHardware, bpc' = bpc
    PROVE  EngineInv'
<1>1. EngineType' /\ Running' /\ HardwareLeaves /\ UNCHANGED <<eng, fpc, sent, prog>>
    BY HardwareKeepsEngines DEF EngineInv, FalconHardware
<1> USE DEF Gsp, Sec2, Engine, EngineType, EngineState, HardwareLeaves, Clean, RiscvReady, Resting
<1>2. AtEngine'
  <2>1. Engine.trf = "none" => Engine'.trf = "none" /\ Engine'.imem = Engine.imem /\ Engine'.dmem = Engine.dmem
      BY <1>1 DEF EngineInv
  <2>2. /\ ~Engine.scrub => ~Engine'.scrub
        /\ Engine.core = Engine'.core \/ (Engine.core = "switching" /\ Engine'.core = "falcon")
        /\ Engine.cpu = "off" => Engine'.cpu = "off" \/ (eng = "gsp" /\ Sec2.cpu = "running")
      BY <1>1 DEF EngineInv
  <2>3. CASE Sec2.cpu = "running" /\ eng = "gsp" /\ fpc # "idle"
      BY <1>1, <2>2, <2>3, ArrivedKept DEF EngineInv, AtEngine, AtPass, Running, Sequencing, Asking,
         InProgram, Loading, Handing, Driven, Before, Cold
  <2>4. CASE ~(Sec2.cpu = "running" /\ eng = "gsp" /\ fpc # "idle")
    <3>1. fpc \in {"rv_done", "resume"} => eng = "gsp"
        BY DEF EngineInv, AtPass, Sequencing, Loading, Driven
    <3>2. fpc # "idle" /\ Engine.cpu = "off" => Engine'.cpu = "off"
        BY <2>2, <2>4
    <3>3. fpc \in {"rv_done", "resume"} => Resting'
        BY <1>1, <2>1, <2>2, <2>4, <3>1, <3>2 DEF EngineInv, AtEngine
    <3>4. fpc \in {"load", "transfer"} => Arrived(Engine)'
        BY ArrivedKept DEF EngineInv, AtEngine
    <3>5. /\ EngineType /\ EngineType' /\ AtEngine
        BY <1>1 DEF EngineInv
    <3> HIDE DEF Engine, EngineType, Resting
    <3> QED BY <1>1, <2>1, <2>2, <3>2, <3>3, <3>4, <3>5 DEF AtEngine, Emptied, FalconReady
  <2> QED BY <2>3, <2>4
<1>3. AtPass'
    BY <1>1 DEF EngineInv, AtPass, Running, Before, Loading, Handing, Driven, Cold
<1>4. bpc = "events" => Sequencing'
    BY <1>1 DEF EngineInv, AtPass, Running, Sequencing, Startable, FalconReady, InProgram
<1> QED BY <1>1, <1>2, <1>3, <1>4 DEF EngineInv

-----------------------------------------------------------------------------
(* The pass between its uses of an engine. *)

Later == {"layer3", "space", "memory", "tables", "channel", "exec", "selftest", "layer5",
          "channels", "mode", "provider", "ctxdma", "core_init", "core_mode", "flip", "confirm",
          "result"}

\* Blocks of the pass that leave the engines alone.
EarlySteps   == Begin \/ GetGsp \/ GetBootloader \/ ArenaAlloc
Layer34Steps == Objects \/ Space \/ Memory \/ Tables \/ Channel \/ Exec \/ SelfTest
Layer5Steps  == \/ Outputs \/ DisplayChannels \/ Mode \/ CtxDma \/ CoreInit \/ CoreMode \/ Flip
                \/ Confirm \/ Result
EngineSteps  == \/ FwsecPrepare \/ FwsecEnd \/ Staging \/ GetBooter \/ BooterEnd \/ LookForGsp
                \/ SequencerEvent \/ SequencerEnd \/ InitDone \/ BootTimeout

LEMMA StepKinds ==
    BringupStep <=> EarlySteps \/ EngineSteps \/ EngineStep \/ Layer34Steps \/ Layer5Steps
  BY DEF BringupStep, EarlySteps, EngineSteps, Layer34Steps, Layer5Steps

LEMMA EarlyMoves ==
    EarlySteps => /\ bpc \in Before \ {"idle", "fwsec"} /\ UNCHANGED fvars
                  /\ bpc' \in (Before \ {"idle"}) \cup {"returned"}
  BY DEF EarlySteps, Begin, GetGsp, GetBootloader, ArenaAlloc, Goto, Return, Before

LEMMA Layer34Moves ==
    Layer34Steps => bpc \in Later /\ bpc' \in Later /\ UNCHANGED fvars
<1> USE DEF Later, Goto
<1>1. CASE Objects \/ Space \/ Memory
    BY <1>1 DEF Objects, Space, Memory
<1>2. CASE Tables \/ Channel
    BY <1>2 DEF Tables, Channel
<1>3. CASE Exec \/ SelfTest
    BY <1>3 DEF Exec, SelfTest
<1> QED BY <1>1, <1>2, <1>3 DEF Layer34Steps

LEMMA Layer5Moves ==
    Layer5Steps => bpc \in Later /\ bpc' \in Later \cup {"returned"} /\ UNCHANGED fvars
<1> USE DEF Later, Goto
<1>1. CASE Outputs \/ DisplayChannels \/ Mode
    BY <1>1 DEF Outputs, DisplayChannels, Mode
<1>2. CASE CtxDma \/ CoreInit \/ CoreMode
    BY <1>2 DEF CtxDma, CoreInit, CoreMode
<1>3. CASE Flip \/ Confirm \/ Result
    BY <1>3 DEF Flip, Confirm, Result, Return
<1> QED BY <1>1, <1>2, <1>3 DEF Layer5Steps

LEMMA QuietKeeps ==
    ASSUME EngineInv, UNCHANGED fvars,
           \/ bpc \in Before /\ bpc' \in Before \cup {"returned"}
           \/ bpc \notin Before \cup Driven /\ bpc' \in Later \cup {"returned"}
           \/ bpc' = bpc
    PROVE  EngineInv'
<1> USE DEF fvars, Gsp, Sec2, Engine
<1>1. EngineType' /\ Running' /\ AtEngine'
    BY DEF EngineInv, EngineType, Running, AtEngine, Arrived, FalconReady, RiscvReady, Clean,
       Resting, Emptied
<1>2. AtPass'
    BY DEF EngineInv, AtPass, Before, Driven, Later, Resting, RiscvReady, Clean, Cold
<1>3. bpc' = "events" => Sequencing'
    BY DEF EngineInv, Sequencing, Before, Driven, Later, InProgram, Startable, FalconReady,
       RiscvReady, Clean
<1> QED BY <1>1, <1>2, <1>3 DEF EngineInv

\* A drive that begins, and one that has ended.
LEMMA DriveBegins ==
    ASSUME EngineInv, NEW f \in {"gsp", "sec2"}, NEW s \in {"reset", "rv_reset"}, Drive(f, s),
           \/ f = "gsp" /\ s = "reset" /\ bpc = "fwsec" /\ bpc' = "fwsec_run"
           \/ f = "gsp" /\ s = "rv_reset" /\ bpc = "staging" /\ bpc' = "riscv"
           \/ f = "sec2" /\ s = "reset" /\ bpc = "riscv" /\ fpc = "rv_done" /\ bpc' = "booter_run"
    PROVE  EngineInv'
<1> USE DEF Drive, Gsp, Sec2, Engine
<1>1. EngineType' /\ Running'
    BY DEF EngineInv, EngineType, Running, FalconReady, RiscvReady, Clean, Resting
<1>2. AtEngine'
    BY DEF EngineInv, AtEngine, AtPass, Before, Cold
<1>3. AtPass'
    BY DEF EngineInv, AtPass, AtEngine, Before, Driven, Loading, Handing, Resting, RiscvReady,
       Clean, Cold
<1> QED BY <1>1, <1>2, <1>3 DEF EngineInv

LEMMA DriveEnds ==
    ASSUME EngineInv, Release, bpc \in Driven,
           \/ bpc' = "returned"
           \/ bpc = "fwsec_run" /\ bpc' = "staging" /\ wpr2
           \/ bpc = "booter_run" /\ bpc' = "active" /\ fpc \in {"halted", "timed_out"}
           \/ bpc = "events" /\ bpc' = "events"
    PROVE  EngineInv'
<1> USE DEF Release, Gsp, Sec2, Engine
<1>1. EngineType' /\ Running'
    BY DEF EngineInv, EngineType, Running, FalconReady, RiscvReady, Clean, Resting
<1>2. AtEngine'
    BY DEF AtEngine
<1>3. AtPass'
    BY DEF EngineInv, AtPass, Before, Driven, Loading, Handing, Cold
<1>4. bpc' = "events" => Sequencing'
    BY DEF Sequencing, Asking, LoadsFirst, InProgram
<1> QED BY <1>1, <1>2, <1>3, <1>4 DEF EngineInv

LEMMA ProgramBegins ==
    ASSUME EngineInv, bpc = "events", bpc' = "events", RiscvActive, NEW p \in Programs, RunSequencer(p)
    PROVE  EngineInv'
<1> USE DEF RunSequencer, Gsp, Sec2, Engine
<1>1. EngineType' /\ Running'
    BY ProgramAssumption DEF EngineInv, EngineType, Running, FalconReady, RiscvReady, Clean, Resting
<1>2. AtEngine'
    BY DEF EngineInv, AtEngine
<1>3. AtPass'
    BY DEF EngineInv, AtPass, Before, Driven
<1>4. Sequencing'
  <2>1. Startable /\ Clean(Gsp) /\ Sec2.cpu # "running" /\ eng = "gsp"
      BY DEF EngineInv, Running, RiscvActive, Startable, Sequencing, Resting, FalconReady, RiscvReady
  <2>2. Startable' /\ Clean(Gsp)' /\ Sec2'.cpu # "running"
      BY <2>1 DEF Startable, Clean, FalconReady, RiscvReady
  <2> QED BY <2>1, <2>2, ProgramAssumption DEF Sequencing, Asking, InProgram
<1> QED BY <1>1, <1>2, <1>3, <1>4 DEF EngineInv

LEMMA EventsKeep ==
    ASSUME EngineInv, UNCHANGED fvars,
           \/ bpc = "active" /\ bpc' = "events" /\ RiscvActive
           \/ bpc = "active" /\ bpc' = "layer3"
           \/ bpc = "events" /\ bpc' = "layer3" /\ fpc = "idle"
    PROVE  EngineInv'
<1> USE DEF fvars, Gsp, Sec2, Engine
<1>1. EngineType' /\ Running' /\ AtEngine'
    BY DEF EngineInv, EngineType, Running, AtEngine, Arrived, FalconReady, RiscvReady, Clean,
       Resting, Emptied
<1>2. AtPass'
    BY DEF EngineInv, AtPass, Sequencing, Before, Driven
<1>3. bpc' = "events" => Sequencing'
    BY DEF EngineInv, AtPass, Sequencing, Driven, Asking, LoadsFirst, InProgram
<1> QED BY <1>1, <1>2, <1>3 DEF EngineInv

LEMMA BringupEngines == ASSUME EngineInv, BringupStep PROVE EngineInv'
<1>1. CASE EarlySteps
    BY <1>1, EarlyMoves, QuietKeeps
<1>2. CASE EngineStep
    BY <1>2, DriverType, DriverRunning, DriverAtEngine, DriverAtPass, DriverSequencing DEF EngineInv
<1>3. CASE Layer34Steps \/ Layer5Steps
    BY <1>3, Layer34Moves, Layer5Moves, QuietKeeps DEF Later, Before, Driven
<1>4. CASE FwsecPrepare
    BY <1>4, QuietKeeps, DriveBegins DEF FwsecPrepare, Goto, Return, Before
<1>5. CASE FwsecEnd
    BY <1>5, DriveEnds DEF FwsecEnd, FwsecOk, Return, Driven
<1>6. CASE Staging
    BY <1>6, QuietKeeps, DriveBegins DEF Staging, Goto, Return, Before, Driven
<1>7. CASE GetBooter
    BY <1>7, DriveEnds, DriveBegins DEF GetBooter, Goto, Return, Driven
<1>8. CASE BooterEnd
    BY <1>8, DriveEnds DEF BooterEnd, Return, Driven
<1>9. CASE LookForGsp
    BY <1>9, EventsKeep DEF LookForGsp
<1>10. CASE SequencerEvent
    BY <1>10, ProgramBegins DEF SequencerEvent
<1>11. CASE SequencerEnd
    BY <1>11, DriveEnds DEF SequencerEnd, Driven
<1>12. CASE InitDone \/ BootTimeout
    BY <1>12, EventsKeep DEF InitDone, BootTimeout
<1> QED BY <1>1, <1>2, <1>3, <1>4, <1>5, <1>6, <1>7, <1>8, <1>9, <1>10, <1>11, <1>12, StepKinds
        DEF EngineSteps

-----------------------------------------------------------------------------
(* The host's steps. *)

HostSteps == Start \/ StartFailsEarly \/ AllocArena \/ ToolExit \/ BringupDone \/ Publish \/ Free
UndoSteps == ArenaFails \/ BringupFailed \/ StartGivesUp \/ stop
CallSteps == CallBringup \/ ToolStart
Provides  == AllocBar1 \/ AllocSysmem \/ AllocRefused

LEMMA NextKinds ==
    [Next]_vars <=> \/ HostSteps \/ UndoSteps \/ CallSteps \/ Provides \/ InBringup \/ Hardware
                    \/ UNCHANGED vars
  BY DEF Next, HostSteps, UndoSteps, CallSteps, Provides

LEMMA HostMoves ==
    /\ HostSteps => UNCHANGED bvars /\ UNCHANGED fvars
    /\ UndoSteps => /\ UNCHANGED <<bpc, fbp, ext, rc, blobs, fvars, l2, l3, l4, l5, usable, scan_ok,
                                   screen, window, win, stray>>
                    /\ teardown /\ kpc' \in {"failed", "stopped"}
                    /\ UNCHANGED <<boot_args, fGspRunning, fScanoutLive, fModeset, fGpuLock>>
    /\ CallSteps => Call
    /\ Provides  => /\ bpc = "provider" /\ bpc' \in {"ctxdma", "result"} /\ window' = window
                    /\ UNCHANGED <<options, rc, blobs, fvars, layers, shown, submitted, win, stray>>
<1>1. HostSteps => UNCHANGED bvars /\ UNCHANGED fvars
    BY DEF HostSteps, Start, StartFailsEarly, AllocArena, ToolExit, BringupDone, Publish, Free
<1>2. UndoSteps => \E to \in {"failed", "stopped"} : Undo(to)
    BY DEF UndoSteps, ArenaFails, BringupFailed, StartGivesUp, stop
<1>3. CallSteps => Call
    BY DEF CallSteps, CallBringup, ToolStart
<1>4. Provides => /\ window' = window /\ \E b \in BOOLEAN : \E s : ProviderAnswers(b, s)
    BY DEF Provides, AllocBar1, AllocSysmem, AllocRefused, WindowAfterProbe
<1>5. Provides  => /\ bpc = "provider" /\ bpc' \in {"ctxdma", "result"} /\ window' = window
                   /\ UNCHANGED <<options, rc, blobs, fvars, layers, shown, submitted, win, stray>>
    BY <1>4 DEF ProviderAnswers, Accept
<1> QED BY <1>1, <1>2, <1>3, <1>5 DEF Undo

LEMMA EnginesStep == EngineInv /\ [Next]_vars => EngineInv'
<1> SUFFICES ASSUME EngineInv, [Next]_vars PROVE EngineInv'
    OBVIOUS
<1>1. CASE HostSteps \/ UndoSteps \/ UNCHANGED vars
    BY <1>1, HostMoves, QuietKeeps DEF bvars, vars
<1>2. CASE CallSteps
    BY <1>2, HostMoves, QuietKeeps DEF Call, Goto, Before
<1>3. CASE Provides
    BY <1>3, HostMoves, QuietKeeps DEF Before, Driven, Later
<1>4. CASE InBringup
    BY <1>4, BringupEngines DEF InBringup
<1>5. CASE Hardware
  <2>1. CASE FalconHardware /\ UNCHANGED <<bvars, kvars>>
      BY <2>1, HardwareKeeps DEF bvars
  <2>2. CASE WindowFlips /\ UNCHANGED <<fvars, kvars>>
      BY <2>2, QuietKeeps DEF WindowFlips
  <2> QED BY <1>5, <2>1, <2>2 DEF Hardware
<1> QED BY <1>1, <1>2, <1>3, <1>4, <1>5, NextKinds

-----------------------------------------------------------------------------
(* The results of the pass, and the window. *)

\* Aiming leaves the window where it was aimed, whatever the copy said, as
\* long as that was right or the window is aimed afresh.
LEMMA AimRight ==
    ASSUME WindowInv, NEW cached \in {win, "none"}, NEW frame \in {"service", "display", "surface"},
           Aim(cached, frame)
    PROVE  WindowInv'
  BY DEF WindowInv, Aim

LEMMA WindowStep == WindowInv /\ [Next]_vars => WindowInv'
<1> SUFFICES ASSUME WindowInv, [Next]_vars PROVE WindowInv'
    OBVIOUS
<1>1. CASE UNCHANGED <<window, win, stray>>
    BY <1>1 DEF WindowInv
<1>2. HostSteps \/ UndoSteps \/ Provides \/ CallSteps \/ Hardware \/ UNCHANGED vars
        => UNCHANGED <<window, win, stray>>
    BY HostMoves DEF Call, NoAccess, Hardware, WindowFlips, bvars, vars
<1>3. EarlySteps \/ EngineSteps \/ EngineStep => UNCHANGED <<window, win, stray>>
  <2> USE DEF NoAccess
  <2>1. EarlySteps => UNCHANGED <<window, win, stray>>
      BY DEF EarlySteps, Begin, GetGsp, GetBootloader, ArenaAlloc
  <2>2. FwsecPrepare \/ FwsecEnd \/ Staging \/ GetBooter \/ BooterEnd => UNCHANGED <<window, win, stray>>
      BY DEF FwsecPrepare, FwsecEnd, Staging, GetBooter, BooterEnd
  <2>3. LookForGsp \/ SequencerEvent \/ SequencerEnd \/ InitDone \/ BootTimeout \/ EngineStep
          => UNCHANGED <<window, win, stray>>
      BY DEF LookForGsp, SequencerEvent, SequencerEnd, InitDone, BootTimeout, EngineStep
  <2> QED BY <2>1, <2>2, <2>3 DEF EngineSteps
<1>4. Layer34Steps => WindowInv'
    BY <1>1, AimRight DEF Layer34Steps, Objects, Space, Memory, Tables, Channel, Exec, SelfTest,
       NoAccess
<1>5. Layer5Steps => WindowInv'
    BY <1>1, AimRight DEF Layer5Steps, Outputs, DisplayChannels, Mode, CtxDma, CoreInit, CoreMode,
                          Flip, Confirm, Result, NoAccess
<1> QED BY <1>1, <1>2, <1>3, <1>4, <1>5, NextKinds, StepKinds DEF InBringup

LEMMA ResultKept ==
    ASSUME ResultType, ResultInv, UNCHANGED <<l2, l3, l4, gpu, ext>>, blobs' \in {blobs, {}},
           \/ bpc' = bpc
           \/ bpc \notin Layer34 \cup AfterTest /\ bpc' \notin Layer34 \cup (AfterTest \ {"returned"})
           \/ bpc \in AfterTest /\ bpc' \in AfterTest,
           blobs' # {} => bpc' \in {"bl_blob", "arena", "fwsec", "fwsec_run", "staging"}
    PROVE  ResultType' /\ ResultInv'
  BY DEF ResultType, ResultInv, Layer34, AfterTest

LEMMA ResultStep == ResultType /\ ResultInv /\ [Next]_vars => ResultType' /\ ResultInv'
<1> SUFFICES ASSUME ResultType, ResultInv, [Next]_vars PROVE ResultType' /\ ResultInv'
    OBVIOUS
<1>1. CASE HostSteps \/ Hardware \/ UNCHANGED vars
    BY <1>1, HostMoves, ResultKept DEF bvars, vars, Hardware, WindowFlips, options, layers, ResultInv
<1>2. CASE UndoSteps
    BY <1>2, HostMoves DEF teardown, ResultType, ResultInv
<1>3. CASE CallSteps
    BY <1>3, HostMoves, ResultKept DEF Call, Goto, options, layers, ResultInv, Layer34, AfterTest
<1>4. CASE Provides
    BY <1>4, HostMoves, ResultKept DEF options, layers, ResultInv, Layer34, AfterTest
<1>5. CASE EarlySteps
  <2>1. Begin => ResultType' /\ ResultInv'
      BY DEF Begin, Goto, Return, options, NoGpu, ResultType, ResultInv, Layer34, AfterTest
  <2>2. GetGsp \/ GetBootloader \/ ArenaAlloc => /\ UNCHANGED layers /\ UNCHANGED options
                                               /\ bpc \in Before
                                               /\ \/ bpc' \in {"bl_blob", "arena", "fwsec"}
                                                  \/ bpc' = "returned" /\ (blobs' = blobs \/ blobs' = {})
      BY DEF GetGsp, GetBootloader, ArenaAlloc, Goto, Return, Before
  <2>3. GetGsp => bpc' = "bl_blob" \/ blobs' = {}
      BY DEF GetGsp, Goto, Return, ResultInv
  <2>4. GetBootloader \/ ArenaAlloc => bpc' \in {"arena", "fwsec"} \/ blobs' = {}
      BY DEF GetBootloader, ArenaAlloc, Goto, Return
  <2>5. GetGsp \/ GetBootloader \/ ArenaAlloc => ~gpu.ok
      BY <2>2 DEF Before, ResultInv, AfterTest
  <2>6. GetGsp \/ GetBootloader \/ ArenaAlloc => ResultType' /\ ResultInv'
      BY <2>2, <2>3, <2>4, <2>5 DEF options, layers, ResultType, ResultInv, Layer34, Before
  <2> QED BY <1>5, <2>1, <2>6 DEF EarlySteps
<1>6. CASE EngineStep
    BY <1>6, ResultKept DEF EngineStep, options, layers, ResultInv
<1>7. CASE FwsecPrepare \/ FwsecEnd \/ Staging \/ GetBooter \/ SequencerEvent \/ SequencerEnd \/ BootTimeout
    BY <1>7, ResultKept DEF FwsecPrepare, FwsecEnd, Staging, GetBooter, SequencerEvent, SequencerEnd,
        BootTimeout, Goto, Return, options, layers, ResultInv, Layer34, AfterTest
<1>8. CASE BooterEnd \/ LookForGsp \/ InitDone
  <2>1. BooterEnd => ResultType' /\ ResultInv'
      BY DEF BooterEnd, Return, options, ResultType, ResultInv, Layer34, AfterTest
  <2>2. LookForGsp => ResultType' /\ ResultInv'
    <3> SUFFICES ASSUME LookForGsp PROVE ResultType' /\ ResultInv'
        OBVIOUS
    <3> DEFINE a == RiscvActive
    <3>1. a \in BOOLEAN
        BY DEF RiscvActive
    <3>2. /\ bpc = "active" /\ bpc' \in {"events", "layer3"} /\ l2' = [l2 EXCEPT !.active = a]
          /\ UNCHANGED <<options, blobs, l3, l4, gpu>>
        BY DEF LookForGsp
    <3> HIDE DEF a
    <3> QED BY <3>1, <3>2 DEF options, ResultType, ResultInv, Layer34, AfterTest
  <2>3. InitDone => ResultType' /\ ResultInv'
      BY DEF InitDone, options, ResultType, ResultInv, Layer34, AfterTest
  <2> QED BY <1>8, <2>1, <2>2, <2>3
<1>9. CASE Objects \/ Space \/ Memory
  <2> USE DEF Objects, Space, Memory, Goto, options
  <2>1. Objects => ResultType'
      BY DEF ResultType
  <2>2. Objects => ResultInv'
      BY DEF ResultType, ResultInv, Layer34, AfterTest
  <2>3. Space => ResultType'
      BY DEF ResultType
  <2>4. Space => ResultInv'
      BY DEF ResultType, ResultInv, Layer34, AfterTest
  <2>5. Memory => ResultType'
      BY DEF ResultType
  <2>6. Memory => ResultInv'
      BY DEF ResultType, ResultInv, Layer34, AfterTest
  <2> QED BY <1>9, <2>1, <2>2, <2>3, <2>4, <2>5, <2>6
<1>10. CASE Tables \/ Channel
  <2> USE DEF Tables, Channel, options
  <2>1. Tables => ResultType'
      BY DEF ResultType
  <2>2. Tables => ResultInv'
      BY DEF ResultType, ResultInv, Layer34, AfterTest
  <2>3. Channel => ResultType'
      BY DEF ResultType
  <2>4. Channel => ResultInv'
      BY DEF ResultType, ResultInv, Layer34, AfterTest
  <2> QED BY <1>10, <2>1, <2>2, <2>3, <2>4
<1>11. CASE Exec \/ SelfTest
    BY <1>11 DEF Exec, SelfTest, GpuOk, Goto, options, ResultType, ResultInv, Layer34, AfterTest
<1>12. CASE Layer5Steps
    BY <1>12, ResultKept DEF Layer5Steps, Outputs, DisplayChannels, Mode, CtxDma, CoreInit, CoreMode,
        Flip, Confirm, Result, Goto, Return, options, layers, ResultInv, Layer34, AfterTest
<1> QED BY <1>1, <1>2, <1>3, <1>4, <1>5, <1>6, <1>7, <1>8, <1>9, <1>10, <1>11, <1>12, NextKinds,
           StepKinds
        DEF InBringup, EngineSteps, Layer34Steps

-----------------------------------------------------------------------------
(* The picture and the host. *)

\* What a step of the pass must leave alone for the host to keep its account.
LEMMA HostKept ==
    ASSUME HostInv, UNCHANGED <<kpc, fStage, bars, fDmaBuf, fGspRunning, fModeset>>,
           bpc \notin {"idle", "returned"}, bpc' # "idle"
    PROVE  HostInv'
  BY DEF HostInv

\* Until it has a mode the pass leaves the screen alone.
LEMMA BeforeTheMode ==
    EarlySteps \/ EngineSteps \/ EngineStep \/ Layer34Steps \/ Outputs \/ DisplayChannels
      => /\ UNCHANGED <<fb, shown, submitted, fbp>> /\ scan_ok' \in {scan_ok, FALSE}
         /\ bpc \notin Modesetting \cup {"idle", "mode", "provider", "result", "returned"}
         /\ bpc' \notin Modesetting \cup {"idle", "provider"}
         /\ bpc' = "mode" => fbp # "skip"
<1> USE DEF Modesetting, Goto, Return, options, screen, layers
<1>1. CASE EarlySteps
    BY <1>1 DEF EarlySteps, Begin, GetGsp, GetBootloader, ArenaAlloc
<1>2. CASE EngineStep
    BY <1>2 DEF EngineStep
<1>3. CASE FwsecPrepare \/ FwsecEnd \/ Staging
    BY <1>3 DEF FwsecPrepare, FwsecEnd, Staging
<1>4. CASE GetBooter \/ BooterEnd \/ LookForGsp
    BY <1>4 DEF GetBooter, BooterEnd, LookForGsp
<1>5. CASE SequencerEvent \/ SequencerEnd \/ InitDone \/ BootTimeout
    BY <1>5 DEF SequencerEvent, SequencerEnd, InitDone, BootTimeout
<1>6. CASE Objects \/ Space \/ Memory
    BY <1>6 DEF Objects, Space, Memory
<1>7. CASE Tables \/ Channel
    BY <1>7 DEF Tables, Channel
<1>8. CASE Exec \/ SelfTest
    BY <1>8 DEF Exec, SelfTest
<1>9. CASE Outputs \/ DisplayChannels
    BY <1>9 DEF Outputs, DisplayChannels, WantsModeset
<1> QED BY <1>1, <1>2, <1>3, <1>4, <1>5, <1>6, <1>7, <1>8, <1>9 DEF EngineSteps, Layer34Steps

LEMMA PassKeepsPicture ==
    ASSUME ShownInv, BringupStep, UNCHANGED kvars
    PROVE  ShownInv'
<1> USE DEF kvars
<1>1. bpc \notin {"idle", "returned"} /\ bpc' # "idle"
  <2>1. Layer5Steps => bpc \notin {"idle", "returned"} /\ bpc' # "idle"
      BY Layer5Moves DEF Later
  <2> QED BY <2>1, BeforeTheMode, StepKinds
<1>2. HostInv'
    BY <1>1, HostKept DEF ShownInv
<1>3. CASE EarlySteps \/ EngineSteps \/ EngineStep \/ Layer34Steps \/ Outputs \/ DisplayChannels
  <2>1. ~scan_ok'
    <3>1. scan_ok' = scan_ok \/ scan_ok' = FALSE
        BY <1>3, BeforeTheMode
    <3>2. ~scan_ok
        BY <1>3, BeforeTheMode DEF ShownInv, PictureInv
    <3> QED BY ONLY <3>1, <3>2, Zenon
  <2>2. PictureInv'
      BY <1>3, <2>1, BeforeTheMode DEF ShownInv, PictureInv, Modesetting
  <2>3. SurfaceInv'
      BY <1>3, BeforeTheMode DEF ShownInv, PictureInv, SurfaceInv, Modesetting
  <2> QED BY <1>2, <2>2, <2>3 DEF ShownInv
<1>4. CASE Mode
  <2>1. PictureInv'
      BY <1>4, SurfaceAssumption DEF Mode, options, layers, ShownInv, PictureInv, Modesetting
  <2>2. SurfaceInv'
      BY <1>4 DEF Mode, options, ShownInv, PictureInv, SurfaceInv, Modesetting
  <2> QED BY <1>2, <2>1, <2>2 DEF ShownInv
<1>5. CASE CtxDma \/ CoreInit \/ CoreMode
  <2> USE DEF CtxDma, CoreInit, CoreMode, Goto, options, layers, screen
  <2>1. CtxDma \/ CoreMode => PictureInv'
      BY DEF ShownInv, PictureInv, Modesetting
  <2>2. CoreInit => PictureInv'
      BY DEF ShownInv, PictureInv, Modesetting
  <2>3. SurfaceInv'
      BY <1>5 DEF ShownInv, SurfaceInv, Modesetting
  <2> QED BY <1>2, <1>5, <2>1, <2>2, <2>3 DEF ShownInv
<1>6. CASE Flip \/ Confirm \/ Result
  <2> USE DEF Flip, Confirm, Confirmed, Result, Goto, Return, options, layers, screen
  <2>1. PictureInv'
      BY <1>6 DEF ShownInv, PictureInv, Modesetting
  <2>2. SurfaceInv'
      BY <1>6 DEF ShownInv, SurfaceInv, Modesetting
  <2> QED BY <1>2, <2>1, <2>2 DEF ShownInv
<1> QED BY <1>3, <1>4, <1>5, <1>6, StepKinds DEF Layer5Steps

LEMMA ProviderKeepsPicture ==
    ASSUME ShownInv, Provides
    PROVE  ShownInv'
<1> USE DEF options, layers, boot_args
<1>1. /\ bpc = "provider" /\ bpc' \in {"ctxdma", "result"}
      /\ UNCHANGED <<fbp, scan_ok, shown, submitted>>
      /\ UNCHANGED <<kpc, fStage, console, identity, bars, fDmaBuf, fGspRunning, fModeset>>
    BY HostMoves DEF Provides, AllocBar1, AllocSysmem, AllocRefused
<1>2. /\ fb = NoSurface /\ fStage = 2 /\ kpc = "bringup" /\ fbp = "alloc" /\ console \in Console
    BY <1>1 DEF ShownInv, PictureInv, SurfaceInv, HostInv, Modesetting
<1>3. HostInv'
    BY <1>1, HostKept DEF ShownInv
<1>4. \/ bpc' = "result" /\ fb' = NoSurface
      \/ /\ bpc' = "ctxdma" /\ fb' \in Surfaces /\ fAperture' = fb'
         /\ fb'.target = "vram" => identity
         /\ fb'.target = "sysmem" => fFbBuf' = fb' /\ fScanoutLive'
  <2>1. CASE AllocBar1
    <3>1. Bar1Surface \in Surfaces /\ Bar1Surface.target = "vram"
        BY <1>2, AddressAssumption DEF Bar1Surface
    <3>2. identity /\ fAperture' = Bar1Surface /\ Accept(TRUE, Bar1Surface)
        BY <2>1 DEF AllocBar1, TakesBar1, ProviderAnswers
    <3> QED BY <1>2, <3>1, <3>2 DEF Accept
  <2>2. CASE AllocSysmem
    <3>1. PICK a \in SysmemAt :
            LET s == [at |-> a, target |-> "sysmem"] IN
              fFbBuf' = s /\ fAperture' = s /\ fScanoutLive' /\ Accept(TRUE, s)
        BY <2>2 DEF AllocSysmem, LiveOnAlloc, ProviderAnswers
    <3>2. [at |-> a, target |-> "sysmem"] \in Surfaces
        BY AddressAssumption
    <3> QED BY <1>2, <3>1, <3>2 DEF Accept
  <2>3. CASE AllocRefused
      BY <1>2, <2>3 DEF AllocRefused, ProviderAnswers, Accept
  <2> QED BY <2>1, <2>2, <2>3 DEF Provides
<1>5. PictureInv'
    BY <1>1, <1>2, <1>4, SurfaceAssumption DEF ShownInv, PictureInv, Modesetting
<1>6. SurfaceInv'
    BY <1>1, <1>2, <1>4 DEF ShownInv, SurfaceInv, Modesetting
<1> QED BY <1>3, <1>5, <1>6 DEF ShownInv

LEMMA HostKeepsPicture ==
    ASSUME ShownInv, HostSteps \/ UndoSteps \/ CallSteps \/ Hardware \/ UNCHANGED vars
    PROVE  ShownInv'
<1>1. CASE Hardware \/ UNCHANGED vars
  <2>1. CASE WindowFlips /\ UNCHANGED kvars
      BY <2>1 DEF WindowFlips, options, layers, kvars, ShownInv, PictureInv, SurfaceInv, HostInv
  <2>2. CASE UNCHANGED <<bvars, kvars>>
      BY <2>2 DEF bvars, kvars, ShownInv, PictureInv, SurfaceInv, HostInv
  <2> QED BY <1>1, <2>1, <2>2 DEF Hardware, vars
<1>2. CASE HostSteps
  <2>1. PictureInv'
      BY <1>2, HostMoves DEF bvars, ShownInv, PictureInv
  <2>2. /\ UNCHANGED <<fStage, identity, console, fFbBuf, fScanoutLive, fAperture>>
        /\ kpc' \in {"decide", "published"} => kpc \in {"bringup", "decide"}
        /\ kpc' # "bringup"
      BY <1>2 DEF HostSteps, Start, StartFailsEarly, AllocArena, ToolExit, BringupDone, Publish, Free,
                  Goes, boot_args, scanout
  <2>3. SurfaceInv'
      BY <1>2, <2>2, HostMoves DEF bvars, ShownInv, SurfaceInv
  <2> USE DEF bvars, boot_args, Goes
  <2>4. Start \/ StartFailsEarly \/ AllocArena => HostInv'
      BY DEF Start, StartFailsEarly, AllocArena, ShownInv, HostInv
  <2>5. ToolExit => HostInv'
      BY DEF ToolExit, ShownInv, HostInv
  <2>7. BringupDone => HostInv'
    <3> SUFFICES ASSUME BringupDone PROVE HostInv'
        OBVIOUS
    <3>1. /\ bpc = "returned" /\ bpc' = bpc /\ fStage # 0 /\ kpc = "bringup" /\ kpc' = "decide"
          /\ fModeset' => scan_ok
          /\ UNCHANGED <<fStage, bars, fDmaBuf, fGspRunning, scan_ok>>
        BY DEF BringupDone
    <3> QED BY <3>1 DEF ShownInv, HostInv
  <2>6. Publish \/ Free => HostInv'
      BY DEF Publish, Presentable, Free, ShownInv, HostInv
  <2> QED BY <1>2, <2>1, <2>3, <2>4, <2>5, <2>6, <2>7 DEF HostSteps, ShownInv
<1>3. CASE UndoSteps
  <2>1. PictureInv'
      BY <1>3, HostMoves DEF screen, ShownInv, PictureInv
  <2>2. SurfaceInv'
      BY <1>3, HostMoves DEF teardown, freeScanoutFb, FreesBuffer, boot_args, screen, ShownInv,
         SurfaceInv
  <2>3. /\ kpc \in {"mapped", "arena", "decide", "published"} \/ (bpc = "returned" /\ fStage # 0)
        /\ bars' = {} /\ fDmaBuf' = (IF fGspRunning THEN fDmaBuf ELSE FALSE)
      BY <1>3, HostMoves DEF UndoSteps, ArenaFails, BringupFailed, StartGivesUp, stop, teardown,
         FreesArena
  <2>4. HostInv'
      BY <1>3, <2>3, HostMoves DEF boot_args, ShownInv, HostInv
  <2> QED BY <2>1, <2>2, <2>4 DEF ShownInv
<1>4. CASE CallSteps
  <2> USE DEF Call, Goto, Goes, options, layers, screen, boot_args, scanout
  <2>1. PictureInv'
      BY <1>4, HostMoves DEF ShownInv, PictureInv, Modesetting
  <2>2. SurfaceInv'
      BY <1>4 DEF CallSteps, CallBringup, ToolStart, ShownInv, PictureInv, SurfaceInv, Modesetting
  <2>3. HostInv'
      BY <1>4 DEF CallSteps, CallBringup, ToolStart, MarksRunning, ShownInv, HostInv
  <2> QED BY <2>1, <2>2, <2>3 DEF ShownInv
<1> QED BY <1>1, <1>2, <1>3, <1>4

LEMMA ShownStep == ShownInv /\ [Next]_vars => ShownInv'
  BY NextKinds, PassKeepsPicture, ProviderKeepsPicture, HostKeepsPicture DEF InBringup

-----------------------------------------------------------------------------
(* The invariant. *)

LEMMA InitInv == Init => IndInv
<1> SUFFICES ASSUME Init PROVE IndInv
    OBVIOUS
<1> USE DEF Init, BringupInit
<1>1. EngineInv
  <2>1. PICK c \in {"falcon", "riscv"} : falcon = [gsp |-> Cold(c), sec2 |-> Cold("falcon")]
      BY DEF FalconInit
  <2>2. /\ Gsp = Cold(c) /\ Sec2 = Cold("falcon") /\ Engine = Gsp
        /\ wpr2 = FALSE /\ eng = "gsp" /\ fpc = "idle" /\ sent = 0 /\ prog = <<>>
      BY <2>1 DEF FalconInit, Gsp, Sec2, Engine
  <2>3. EngineType
    <3>1. Cold(c) \in EngineState /\ Cold("falcon") \in EngineState
        BY DEF Cold, EngineState
    <3>2. falcon \in [{"gsp", "sec2"} -> EngineState]
        BY <2>1, <3>1
    <3>3. sent \in Nat /\ eng \in {"gsp", "sec2"}
        BY ONLY <2>2
    <3>4. wpr2 \in BOOLEAN
        BY ONLY <2>2, Zenon
    <3>5. prog \in Seq(Opcodes)
        BY ONLY <2>2, <<>> \in Seq(Opcodes)
    <3> QED BY ONLY <3>2, <3>3, <3>4, <3>5 DEF EngineType
  <2>4. Running /\ AtEngine
      BY <2>2 DEF Running, AtEngine, Cold
  <2>5. AtPass
      BY <2>2 DEF AtPass, Before, Driven, Cold
  <2> QED BY <2>3, <2>4, <2>5 DEF EngineInv
<1>2. PassInv
    BY DEF PassInv, ResultType, ResultInv, WindowInv, Layer2, Layer3, Layer4, NoGpu, Layer34
<1>3. ShownInv
    BY DEF ShownInv, PictureInv, SurfaceInv, HostInv, Modesetting
<1> QED BY <1>1, <1>2, <1>3 DEF IndInv

LEMMA IndStep == IndInv /\ [Next]_vars => IndInv'
  BY EnginesStep, ResultStep, WindowStep, ShownStep DEF IndInv, PassInv

\* Engines, results, window, picture and host keep the account of each other
\* that the properties below follow from.
THEOREM Invariance == Spec => []IndInv
<1>1. Init => IndInv
    BY InitInv
<1>2. IndInv /\ [Next]_vars => IndInv'
    BY IndStep
<1> QED BY <1>1, <1>2, PTL DEF Spec

\* falcon.c, booter.c, cpu_seq.c: no core of the GPU executes before its memory
\* is clean and complete, nor the Booter without the protected region, nor
\* RISC-V without its arguments, whatever wait was given up and whatever
\* program the firmware has sent.
THEOREM CoresStartReady == Spec => []StartsReady
<1>1. IndInv => StartsReady
  <2> SUFFICES ASSUME IndInv, NEW f \in DOMAIN falcon, Executing(f)
               PROVE  /\ ~falcon[f].scrub /\ falcon[f].trf = "none"
                      /\ f = "sec2" => wpr2
                      /\ IF falcon[f].core = "riscv"
                         THEN f = "gsp" /\ falcon[f].mbox = "libos"
                         ELSE /\ falcon[f].core = "falcon"
                              /\ falcon[f].imem = Blocks /\ falcon[f].dmem = Blocks
      BY DEF StartsReady
  <2>1. f \in {"gsp", "sec2"} /\ Running
      BY DEF IndInv, EngineInv, EngineType
  <2> QED BY <2>1 DEF Executing, Running, Gsp, Sec2, FalconReady, RiscvReady, Clean
<1> QED BY <1>1, Invariance, PTL

\* gsp_bringup.c: wherever the pass ends, no firmware image stays in kernel
\* memory, and a context that is handed out stands on a finished command of a
\* running channel, with a pool also on its far end.
THEOREM PassResults == Spec => []ResultsHold
<1>1. IndInv => ResultsHold
    BY DEF IndInv, PassInv, ResultInv, ResultsHold
<1> QED BY <1>1, Invariance, PTL

\* MilcorixFB.cpp teardown, stop, free and the end of gsp_boot_linux.c: the
\* arena is not given back while an engine can reach it, nor a surface in
\* system memory that the display shows, however late it has turned to it.
THEOREM MemoryKept == Spec => []HardwareMemoryKept
<1>1. IndInv => HardwareMemoryKept
  <2> SUFFICES ASSUME IndInv PROVE HardwareMemoryKept
      OBVIOUS
  <2>1. ASSUME NEW f \in DOMAIN falcon, Reaching(f) PROVE bpc # "idle"
    <3>1. f \in {"gsp", "sec2"} /\ AtPass
        BY DEF IndInv, EngineInv, EngineType
    <3> QED BY <2>1, <3>1 DEF AtPass, Before, Reaching, Executing, Gsp, Sec2, Cold
  <2>2. bpc # "idle" /\ (fStage = 0 => "iommu" \in bars) => fDmaBuf
      BY DEF IndInv, ShownInv, HostInv
  <2>3. shown # NoSurface /\ shown.target = "sysmem" => fFbBuf = shown
      BY SurfaceAssumption DEF IndInv, ShownInv, PictureInv, SurfaceInv
  <2> QED BY <2>1, <2>2, <2>3 DEF HardwareMemoryKept
<1> QED BY <1>1, Invariance, PTL

\* MilcorixFB.cpp start: what is published is the surface the window was told to
\* show, behind an output that was confirmed.  That the window shows it does not
\* follow (PublishedIsShown), only that it shows this one or what it did before.
THEOREM PublishedPicture == Spec => [](PublishedIsConfirmed /\ shown \in {NoSurface, fb})
<1>1. IndInv => PublishedIsConfirmed /\ shown \in {NoSurface, fb}
    BY DEF IndInv, ShownInv, PictureInv, SurfaceInv, HostInv, PublishedIsConfirmed
<1> QED BY <1>1, Invariance, PTL

\* gsp_bringup.c, layer 5: no method reaches the display on the diagnostic stage,
\* or before there is a surface; in the kext that is the one it handed out.
THEOREM FirmwarePictureKept == Spec => []PictureKept
<1>1. IndInv => PictureKept
    BY DEF IndInv, ShownInv, PictureInv, SurfaceInv, PictureKept
<1> QED BY <1>1, Invariance, PTL

\* gsp_bringup.c pramin_aim: the copy of the window's place that the pass keeps
\* is never wrong where it is trusted.
THEOREM WindowTrusted == Spec => []NoStrayAccess
<1>1. IndInv => NoStrayAccess
    BY DEF IndInv, PassInv, WindowInv, NoStrayAccess
<1> QED BY <1>1, Invariance, PTL

-----------------------------------------------------------------------------
(* The programs that run microcode on their own (module Hosts). *)

\* Where each of them can be.
Places(h) ==
    CASE h = "fwsec_tool"  -> {"take", "gfw", "file", "locate", "patch", "run", "give", "done"}
      [] h = "booter_tool" -> {"take", "gfw", "file", "booter", "run", "give", "done"}
      [] h = "kext"        -> {"open", "bar0", "gfw", "file", "locate", "buffer", "prepare", "patch",
                               "run", "give", "close", "refused", "registered", "done"}
      [] h = "dext"        -> {"open", "bar0", "refused", "registered", "done"}
      [] h = "bringup"     -> {"locate", "patch", "run", "give", "done"}
      [] h = "dump"        -> {"enable", "dump_read", "done"}

\* A tool takes things in an order, and has given back the later ones whenever
\* it gives one back; its file is gone before anything else.
ToolOwns ==
    /\ \E n \in 0 .. 6 : /\ Taken = 1 .. n
                         /\ hpc = "take" => n < 6
                         /\ hpc = "done" => n = 0
    /\ owned \subseteq {VfioOrder[i] : i \in 1 .. 6} \cup {"file"}
    /\ "file" \in owned => hpc \in {"locate", "patch", "booter"}

KextOwns ==
    owned \subseteq
        CASE hpc \in {"open", "done"}                 -> {}
          [] hpc \in {"refused", "registered"}        -> {"bar0"}
          [] hpc \in {"bar0", "gfw", "file", "close"} -> {"pci", "bar0"}
          [] OTHER -> {"pci", "bar0", "file", "buffer", "prepared"}

OthersOwn ==
    owned \subseteq
        CASE host = "dext" /\ hpc \in {"bar0", "registered"} -> {"pci"}
          [] host = "dump" /\ hpc # "done"                   -> {"rom"}
          [] OTHER -> {}

OwnedInv ==
    /\ host \in Hosts /\ hpc \in Places(host)
    /\ host \in Tools => ToolOwns
    /\ host = "kext" => KextOwns
    /\ host \notin Tools \cup {"kext"} => OthersOwn

\* The engine a program drives; the other one it never starts.
Used == IF host = "booter_tool" THEN "sec2" ELSE "gsp"

\* Before it gets there.
Ahead == {"take", "open", "bar0", "gfw", "file", "locate", "buffer", "prepare", "patch", "booter",
          "enable", "dump_read"}

StillOff(f) == falcon[f].cpu = "off" /\ falcon[f].trf = "none"

\* What the engine can be at, by the driver's place.
AtRun ==
    /\ eng = Used
    /\ fpc \in Loading
    /\ fpc \in {"reset", "scrub", "select", "valid", "rescrub", "load", "start"} => StillOff(Used)
    /\ fpc = "transfer" => falcon[Used].cpu = "off"
    /\ fpc = "running" => falcon[Used].trf = "none"
    /\ fpc = "halted" => falcon[Used].trf = "none" /\ falcon[Used].cpu = "halted"

Reported ==
    result = "ok" /\ host \notin {"bringup", "dump"} =>
        /\ hpc \in {"give", "close", "refused", "registered", "done"}
        /\ falcon[Used].trf = "none" /\ falcon[Used].cpu = "halted"
        /\ host \in {"kext", "fwsec_tool"} => wpr2 /\ falcon["gsp"].mbox = "zero"

HostEngines ==
    /\ falcon \in [{"gsp", "sec2"} -> EngineState] /\ prog = <<>>
    /\ \A f \in {"gsp", "sec2"} : f # Used => StillOff(f)
    /\ hpc \in Ahead => StillOff(Used)
    /\ hpc = "run" => AtRun
    /\ Reported

\* What the engine is given is the patched copy of the image, from the patch on;
\* the other engine is given nothing.
Given == hpc = "run" \/ falcon[Used].cpu # "off"

ImageInv ==
    /\ fuses \in Fuses /\ image \in IF host = "booter_tool" THEN Containers ELSE Roms
    /\ \A p \in found : Usable(p)
    /\ \A p, q \in found : p = q
    /\ host # "bringup" => ~outside
    /\ Given => IF host = "booter_tool" THEN BooterIntact ELSE image.well => \A p \in found : Intact(p)

HostsInv == OwnedInv /\ HostEngines /\ ImageInv

LEMMA OrderOfTaking ==
    /\ Len(VfioOrder) = 6 /\ DOMAIN VfioOrder = 1 .. 6
    /\ Taken = {i \in 1 .. 6 : VfioOrder[i] \in owned}
    /\ \A i, j \in 1 .. 6 : VfioOrder[i] = VfioOrder[j] => i = j
    /\ \A i \in 1 .. 6 : VfioOrder[i] # "file"
<1>1. Len(VfioOrder) = 6 /\ DOMAIN VfioOrder = 1 .. 6
  BY DEF VfioOrder
<1>2. /\ VfioOrder[1] = "container" /\ VfioOrder[2] = "group" /\ VfioOrder[3] = "device"
      /\ VfioOrder[4] = "bar0" /\ VfioOrder[5] = "buffer" /\ VfioOrder[6] = "iommu"
  BY DEF VfioOrder
<1>3. 1 .. 6 = {1, 2, 3, 4, 5, 6}
  OBVIOUS
<1> QED BY <1>1, <1>2, <1>3 DEF Taken

\* What happens between the taking and the giving back concerns the file only.
LEMMA ToolsKeep ==
    ASSUME ToolOwns, owned' \in {owned, owned \cup {"file"}, owned \ {"file"}},
           "file" \in owned' => hpc' \in {"locate", "patch", "booter"},
           hpc' \notin {"take", "done"}
    PROVE  ToolOwns'
<1>1. Taken = {i \in 1 .. 6 : VfioOrder[i] \in owned} /\ Taken' = {i \in 1 .. 6 : VfioOrder[i] \in owned'}
  <2>1. DOMAIN VfioOrder = 1 .. 6
    BY OrderOfTaking
  <2> QED BY <2>1 DEF Taken
<1>2. Taken' = Taken
  BY <1>1, OrderOfTaking
<1>3. PICK n \in 0 .. 6 : Taken = 1 .. n
  BY DEF ToolOwns
<1>4. owned' \subseteq {VfioOrder[i] : i \in 1 .. 6} \cup {"file"}
  BY DEF ToolOwns
<1> QED BY <1>2, <1>3, <1>4 DEF ToolOwns

\* Only a program's place and its things matter to what it owns.
LEMMA OwnedKept ==
    ASSUME OwnedInv, UNCHANGED <<host, hpc, owned>>
    PROVE  OwnedInv'
  BY DEF OwnedInv, ToolOwns, KextOwns, OthersOwn, Taken, Places

LEMMA TakeStep ==
    ASSUME OwnedInv, Take
    PROVE  OwnedInv'
<1>1. /\ hpc = "take" /\ host' = host /\ host \in Tools /\ ToolOwns
  <2>1. hpc = "take" /\ host' = host
    BY DEF Take, Moves
  <2>2. host \in Tools
    BY <2>1 DEF OwnedInv, Places, Hosts, Tools
  <2> QED BY <2>1, <2>2 DEF OwnedInv
<1>2. PICK n \in 0 .. 5 : Taken = 1 .. n
  <2>1. PICK z \in 0 .. 6 : Taken = 1 .. z /\ z < 6
    BY <1>1 DEF ToolOwns
  <2>2. z \in 0 .. 5
    BY <2>1
  <2> QED BY <2>1, <2>2
<1>3. Cardinality(Taken) + 1 = n + 1
  <2>1. n \in Int /\ 1 \in Int
    OBVIOUS
  <2>2. Cardinality(1 .. n) = IF 1 > n THEN 0 ELSE n - 1 + 1
    BY <2>1, FS_Interval
  <2> QED BY <1>2, <2>2
<1>4. \/ /\ hpc' = (IF n + 1 = 6 THEN "gfw" ELSE "take")
         /\ owned' = owned \cup {VfioOrder[n + 1]}
      \/ hpc' = "give" /\ owned' = owned
  BY <1>3, OrderOfTaking DEF Take, Moves
<1>5. "file" \notin owned
  BY <1>1 DEF ToolOwns
<1>6. CASE hpc' = "give" /\ owned' = owned
  <2>1. ToolOwns'
    BY <1>1, <1>5, <1>6, ToolsKeep
  <2> QED BY <1>1, <1>6, <2>1 DEF OwnedInv, Places, Hosts, Tools
<1>7. CASE /\ hpc' = (IF n + 1 = 6 THEN "gfw" ELSE "take")
           /\ owned' = owned \cup {VfioOrder[n + 1]}
  <2>1. Taken' = {i \in 1 .. 6 : VfioOrder[i] \in owned'}
    <3>1. DOMAIN VfioOrder = 1 .. 6
      BY OrderOfTaking
    <3> QED BY <3>1 DEF Taken
  <2>2. n + 1 \in 1 .. 6
    OBVIOUS
  <2>3. Taken' = Taken \cup {n + 1}
    BY <1>7, <2>1, <2>2, OrderOfTaking
  <2>4. Taken' = 1 .. n + 1
    BY <1>2, <2>3
  <2>5. owned' \subseteq {VfioOrder[i] : i \in 1 .. 6} \cup {"file"} /\ "file" \notin owned'
    BY <1>1, <1>5, <1>7, <2>2, OrderOfTaking DEF ToolOwns
  <2>6. ToolOwns'
    <3>1. PICK z \in 0 .. 6 : z = n + 1
      OBVIOUS
    <3>2. Taken' = 1 .. z /\ (hpc' = "take" => z < 6) /\ hpc' # "done"
      BY <1>7, <2>4, <3>1
    <3> QED BY <3>2, <2>5 DEF ToolOwns
  <2> QED BY <1>1, <1>7, <2>6 DEF OwnedInv, Places, Hosts, Tools
<1> QED BY <1>4, <1>6, <1>7

LEMMA GiveStep ==
    ASSUME OwnedInv, Give
    PROVE  OwnedInv'
<1>1. /\ hpc = "give" /\ host' = host /\ host \in Tools /\ ToolOwns
  BY DEF Give, Moves, OwnedInv
<1>2. PICK n \in 0 .. 6 : Taken = 1 .. n
  BY <1>1 DEF ToolOwns
<1>3. "file" \notin owned /\ owned \subseteq {VfioOrder[i] : i \in 1 .. 6} \cup {"file"}
  BY <1>1 DEF ToolOwns
<1>4. Taken' = {i \in 1 .. 6 : VfioOrder[i] \in owned'}
  <2>1. DOMAIN VfioOrder = 1 .. 6
    BY OrderOfTaking
  <2> QED BY <2>1 DEF Taken
<1>5. CASE Taken = {}
  <2>1. hpc' = "done" /\ owned' = owned
    BY <1>5 DEF Give, Moves
  <2>2. Taken' = {}
    BY <1>4, <1>5, <2>1, OrderOfTaking
  <2>3. PICK z \in 0 .. 6 : z = 0
    OBVIOUS
  <2>4. Taken' = 1 .. z
    BY <2>2, <2>3
  <2>5. ToolOwns'
    BY <1>3, <2>1, <2>3, <2>4 DEF ToolOwns
  <2> QED BY <1>1, <2>1, <2>5 DEF OwnedInv, Places, Hosts, Tools
<1>6. CASE Taken # {}
  <2>1. hpc' = "give" /\ owned' = owned \ {VfioOrder[NextToGive]}
    BY <1>6 DEF Give, Moves
  <2>2. n \in 1 .. 6
    BY <1>2, <1>6
  <2>3. NextToGive = n
    <3>1. n \in Taken /\ \A j \in Taken : j <= n
      BY <1>2, <2>2
    <3>2. NextToGive \in Taken /\ \A j \in Taken : j <= NextToGive
      BY <3>1 DEF NextToGive
    <3> QED BY <1>2, <3>1, <3>2
  <2>4. Taken' = Taken \ {n}
    BY <1>4, <2>1, <2>2, <2>3, OrderOfTaking
  <2>5. PICK z \in 0 .. 6 : z = n - 1
    BY <2>2
  <2>6. Taken' = 1 .. z
    BY <1>2, <2>4, <2>5
  <2>7. ToolOwns'
    BY <1>3, <2>1, <2>6 DEF ToolOwns
  <2> QED BY <1>1, <2>1, <2>7 DEF OwnedInv, Places, Hosts, Tools
<1> QED BY <1>5, <1>6

\* Between the taking and the giving back a tool only comes by its file.
LEMMA ToolsMove ==
    ASSUME OwnedInv, host \in Tools, host' = host, hpc' \in Places(host),
           owned' \in {owned, owned \cup {"file"}, owned \ {"file"}},
           "file" \in owned' => hpc' \in {"locate", "patch", "booter"},
           hpc' \notin {"take", "done"}
    PROVE  OwnedInv'
<1>1. ToolOwns'
  BY ToolsKeep DEF OwnedInv
<1>2. host' \in Hosts /\ hpc' \in Places(host)' /\ host' # "kext"
  BY DEF OwnedInv, Tools, Places
<1> QED BY <1>1, <1>2 DEF OwnedInv

LEMMA KextMoves ==
    ASSUME OwnedInv, host = "kext", host' = host, hpc' \in Places(host), KextOwns'
    PROVE  OwnedInv'
  BY DEF OwnedInv, Tools, Places

LEMMA OthersMove ==
    ASSUME OwnedInv, host \notin Tools \cup {"kext"}, host' = host, hpc' \in Places(host), OthersOwn'
    PROVE  OwnedInv'
  BY DEF OwnedInv, Tools, Places

\* The steps that concern more than one kind of program.
Shared == WaitGfw \/ GetFile \/ Locate \/ Patch \/ BooterPatch \/ Run \/ Report

LEMMA ToolsShared ==
    ASSUME OwnedInv, host \in Tools, Shared
    PROVE  OwnedInv'
<1>1. hpc \in Places(host) /\ ("file" \in owned => hpc \in {"locate", "patch", "booter"})
  BY DEF OwnedInv, ToolOwns
<1>2. host' = host
  BY DEF Shared, WaitGfw, GetFile, Locate, Patch, BooterPatch, Run, Report, Moves, Refuse, hvars
<1> USE DEF Tools, Places, Moves, Refuse
<1>3. CASE WaitGfw
  BY <1>1, <1>2, <1>3, ToolsMove DEF WaitGfw
<1>4. CASE GetFile
  BY <1>1, <1>2, <1>4, ToolsMove DEF GetFile
<1>5. CASE Locate
  BY <1>1, <1>2, <1>5, ToolsMove DEF Locate
<1>6. CASE Patch
  BY <1>1, <1>2, <1>6, ToolsMove DEF Patch
<1>7. CASE BooterPatch
  BY <1>1, <1>2, <1>7, ToolsMove DEF BooterPatch
<1>8. CASE Run
  BY <1>1, <1>2, <1>8, ToolsMove DEF Run, hvars
<1>9. CASE Report
  BY <1>1, <1>2, <1>9, ToolsMove DEF Report
<1> QED BY <1>3, <1>4, <1>5, <1>6, <1>7, <1>8, <1>9 DEF Shared

Probing == Open \/ MapBar0 \/ Close \/ Stop \/ KextRelease \/ KextBuffer

LEMMA KextSteps ==
    ASSUME OwnedInv, host = "kext", Probing \/ Shared
    PROVE  OwnedInv'
<1>1. hpc \in Places(host) /\ KextOwns
  BY DEF OwnedInv
<1>2. host' = host
  BY DEF Probing, Open, MapBar0, Close, Stop, KextRelease, KextBuffer,
         Shared, WaitGfw, GetFile, Locate, Patch, BooterPatch, Run, Report, Moves, Refuse, hvars
<1> USE DEF Places, Moves, Refuse, KextOwns
<1>3. CASE Open
  BY <1>1, <1>2, <1>3, KextMoves DEF Open
<1>4. CASE MapBar0
  BY <1>1, <1>2, <1>4, KextMoves DEF MapBar0
<1>5. CASE Close
  BY <1>1, <1>2, <1>5, KextMoves DEF Close
<1>6. CASE Stop
  BY <1>1, <1>2, <1>6, KextMoves DEF Stop
<1>7. CASE KextRelease
  BY <1>1, <1>2, <1>7, KextMoves DEF KextRelease
<1>8. CASE KextBuffer
  BY <1>1, <1>2, <1>8, KextMoves DEF KextBuffer
<1>9. CASE WaitGfw
  BY <1>1, <1>2, <1>9, KextMoves DEF WaitGfw
<1>10. CASE GetFile
  BY <1>1, <1>2, <1>10, KextMoves DEF GetFile
<1>11. CASE Locate
  BY <1>1, <1>2, <1>11, KextMoves DEF Locate
<1>12. CASE Patch
  BY <1>1, <1>2, <1>12, KextMoves DEF Patch
<1>13. CASE BooterPatch
  BY <1>1, <1>2, <1>13 DEF BooterPatch
<1>14. CASE Run
  BY <1>1, <1>2, <1>14, KextMoves DEF Run, hvars
<1>15. CASE Report
  BY <1>1, <1>2, <1>15, KextMoves DEF Report
<1> QED BY <1>3, <1>4, <1>5, <1>6, <1>7, <1>8, <1>9, <1>10, <1>11, <1>12, <1>13, <1>14, <1>15
        DEF Shared, Probing

Reading == Open \/ DextRead \/ Stop \/ BringupReturns \/ DumpRead \/ DumpAnalyze

LEMMA OthersSteps ==
    ASSUME OwnedInv, host \notin Tools \cup {"kext"}, Reading \/ Shared
    PROVE  OwnedInv'
<1>1. host \in {"dext", "bringup", "dump"} /\ hpc \in Places(host) /\ OthersOwn
  BY DEF OwnedInv, Hosts, Tools
<1>2. host' = host
  BY DEF Reading, Open, DextRead, Stop, BringupReturns, DumpRead, DumpAnalyze,
         Shared, WaitGfw, GetFile, Locate, Patch, BooterPatch, Run, Report, Moves, Refuse, hvars
<1> USE DEF Places, Moves, Refuse, OthersOwn
<1>3. CASE Open
  BY <1>1, <1>2, <1>3, OthersMove DEF Open
<1>4. CASE DextRead
  BY <1>1, <1>2, <1>4, OthersMove DEF DextRead
<1>5. CASE Stop
  BY <1>1, <1>2, <1>5, OthersMove DEF Stop
<1>6. CASE BringupReturns
  BY <1>1, <1>2, <1>6, OthersMove DEF BringupReturns
<1>7. CASE DumpRead
  BY <1>1, <1>2, <1>7, OthersMove DEF DumpRead
<1>8. CASE DumpAnalyze
  BY <1>1, <1>2, <1>8, OthersMove DEF DumpAnalyze
<1>9. CASE WaitGfw
  BY <1>1, <1>2, <1>9 DEF WaitGfw
<1>10. CASE GetFile
  BY <1>1, <1>2, <1>10 DEF GetFile
<1>11. CASE Locate
  BY <1>1, <1>2, <1>11, OthersMove DEF Locate
<1>12. CASE Patch
  BY <1>1, <1>2, <1>12, OthersMove DEF Patch
<1>13. CASE BooterPatch
  BY <1>1, <1>2, <1>13 DEF BooterPatch
<1>14. CASE Run
  BY <1>1, <1>2, <1>14, OthersMove DEF Run, hvars
<1>15. CASE Report
  BY <1>1, <1>2, <1>15, OthersMove DEF Report
<1> QED BY <1>3, <1>4, <1>5, <1>6, <1>7, <1>8, <1>9, <1>10, <1>11, <1>12, <1>13, <1>14, <1>15
        DEF Shared, Reading

\* Every step leaves the program the place and the things it may have.
LEMMA OwnedStep ==
    ASSUME OwnedInv, HostsNext
    PROVE  OwnedInv'
<1>1. host \in Hosts /\ hpc \in Places(host)
  BY DEF OwnedInv
<1>2. CASE Take
  BY <1>2, TakeStep
<1>3. CASE Give
  BY <1>3, GiveStep
<1>4. CASE HostsHardware
  <2>1. UNCHANGED <<host, hpc, owned>>
    BY <1>4 DEF HostsHardware, hvars
  <2> QED BY <2>1, OwnedKept
<1>5. CASE Shared
  BY <1>5, ToolsShared, KextSteps, OthersSteps
<1>6. CASE Probing \/ Reading
  <2>1. host \notin Tools
    BY <1>1, <1>6 DEF Probing, Reading, Open, MapBar0, Close, Stop, KextRelease, KextBuffer,
       DextRead, BringupReturns, DumpRead, DumpAnalyze, Tools, Places
  <2>2. CASE host = "kext"
    <3>1. Probing
      BY <1>1, <1>6, <2>2 DEF Probing, Reading, DextRead, BringupReturns, DumpRead, DumpAnalyze, Places
    <3> QED BY <2>2, <3>1, KextSteps
  <2>3. CASE host # "kext"
    <3>1. Reading
      BY <1>1, <1>6, <2>1, <2>3 DEF Probing, Reading, MapBar0, Close, KextRelease, KextBuffer, Places,
         Hosts, Tools
    <3> QED BY <2>1, <2>3, <3>1, OthersSteps
  <2> QED BY <2>2, <2>3
<1> QED BY <1>2, <1>3, <1>4, <1>5, <1>6 DEF HostsNext, Shared, Probing, Reading

\* A program that is not at its engine leaves it as it is.
Over == {"give", "close", "refused", "registered", "done"}

LEMMA AwayFromEngines ==
    ASSUME HostEngines, UNCHANGED <<falcon, wpr2, prog, host>>, hpc' # "run",
           hpc' \in Ahead => hpc \in Ahead, hpc \in Over => hpc' \in Over,
           result' = "ok" => result = "ok" \/ host \in {"bringup", "dump"}
    PROVE  HostEngines'
<1>1. Used' = Used
  BY DEF Used
<1>2. \A f \in {"gsp", "sec2"} : StillOff(f)' <=> StillOff(f)
  BY DEF StillOff
<1>3. Used \in {"gsp", "sec2"}
  BY DEF Used
<1>4. Reported'
  BY <1>1 DEF HostEngines, Reported, Over
<1> QED BY <1>1, <1>2, <1>3, <1>4 DEF HostEngines

LEMMA AwaySteps ==
    ASSUME OwnedInv, HostEngines,
           Take \/ Give \/ Probing \/ Reading \/ WaitGfw \/ GetFile \/ Locate
    PROVE  HostEngines'
<1>1. hpc \in Places(host)
  BY DEF OwnedInv
<1> USE AwayFromEngines DEF Moves, fvars, Ahead, Over
<1>2. CASE Take
  BY <1>2 DEF Take
<1>3. CASE Give
  BY <1>3 DEF Give
<1>4. CASE Open
  BY <1>4 DEF Open
<1>5. CASE MapBar0
  BY <1>5 DEF MapBar0
<1>6. CASE Close
  BY <1>6 DEF Close
<1>7. CASE Stop
  BY <1>7 DEF Stop
<1>8. CASE KextRelease
  BY <1>8 DEF KextRelease
<1>9. CASE KextBuffer
  BY <1>9 DEF KextBuffer
<1>10. CASE DextRead
  BY <1>10 DEF DextRead
<1>11. CASE BringupReturns
  BY <1>11 DEF BringupReturns
<1>12. CASE DumpRead
  BY <1>12 DEF DumpRead
<1>13. CASE DumpAnalyze
  <2>1. host = "dump"
    BY <1>1, <1>13 DEF DumpAnalyze, OwnedInv, Hosts, Tools, Places
  <2> QED BY <1>13, <2>1 DEF DumpAnalyze
<1>14. CASE WaitGfw
  BY <1>14 DEF WaitGfw
<1>15. CASE GetFile
  BY <1>15 DEF GetFile
<1>16. CASE Locate
  BY <1>16 DEF Locate, Refuse
<1> QED BY <1>2, <1>3, <1>4, <1>5, <1>6, <1>7, <1>8, <1>9, <1>10, <1>11, <1>12, <1>13, <1>14, <1>15,
           <1>16 DEF Probing, Reading

\* It comes to its engine while that is off.
LEMMA PatchSteps ==
    ASSUME OwnedInv, HostEngines, Patch \/ BooterPatch
    PROVE  HostEngines'
<1>1. host \in Hosts /\ hpc \in Places(host)
  BY DEF OwnedInv
<1>2. CASE hpc' = "run"
  <2>1. /\ eng' = Used /\ fpc' = "reset" /\ UNCHANGED <<falcon, wpr2, prog, host, result>>
        /\ hpc \in Ahead
    BY <1>1, <1>2 DEF Patch, BooterPatch, Drive, Refuse, Moves, Used, Hosts, Tools, Places, Ahead
  <2>2. Used' = Used /\ Used \in {"gsp", "sec2"}
    BY <2>1 DEF Used
  <2>3. \A f \in {"gsp", "sec2"} : StillOff(f)' <=> StillOff(f)
    BY <2>1 DEF StillOff
  <2>4. AtRun'
    BY <2>1, <2>2, <2>3 DEF AtRun, Loading, HostEngines
  <2>5. Reported'
    BY <1>2, <2>1 DEF HostEngines, Reported, Ahead
  <2> QED BY <1>2, <2>1, <2>2, <2>3, <2>4, <2>5 DEF HostEngines, Ahead
<1>3. CASE hpc' # "run"
  BY <1>3, AwayFromEngines DEF Patch, BooterPatch, Refuse, Moves, fvars, Ahead, Over
<1> QED BY <1>2, <1>3

\* What it reports is what it finds at the halt.
LEMMA ReportStep ==
    ASSUME OwnedInv, HostEngines, Report
    PROVE  HostEngines'
<1>1. /\ UNCHANGED <<falcon, wpr2, host>> /\ hpc' = "give" /\ prog' = <<>>
      /\ hpc = "run" /\ result' = (IF Succeeded THEN "ok" ELSE "error")
  BY DEF Report, Release
<1>2. Used' = Used /\ Used \in {"gsp", "sec2"} /\ host \in Hosts
  BY <1>1 DEF Used, OwnedInv
<1>3. \A f \in {"gsp", "sec2"} : StillOff(f)' <=> StillOff(f)
  BY <1>1 DEF StillOff
<1>4. Reported'
  <2> SUFFICES ASSUME Succeeded, host \notin {"bringup", "dump"}
               PROVE  /\ falcon[Used].trf = "none" /\ falcon[Used].cpu = "halted"
                      /\ host \in {"kext", "fwsec_tool"} => wpr2 /\ falcon["gsp"].mbox = "zero"
    BY <1>1, <1>2 DEF Reported
  <2>1. fpc = "halted" /\ (host # "booter_tool" => wpr2 /\ falcon["gsp"].mbox = "zero")
    BY DEF Succeeded
  <2> QED BY <1>1, <2>1 DEF HostEngines, AtRun
<1> QED BY <1>1, <1>2, <1>3, <1>4 DEF HostEngines, Ahead

\* The driver's steps at the engine: the core is off until it is started, and
\* it is started when the last transfer has come to its end.
LEMMA RunStep ==
    ASSUME HostEngines, Run
    PROVE  HostEngines'
<1>1. /\ FalconStep("zero") /\ UNCHANGED <<host, hpc, result>> /\ hpc = "run"
  BY DEF Run, hvars
<1>2. PICK u \in {"gsp", "sec2"} : u = Used
  BY DEF Used
<1>3. Used' = u
  BY <1>1, <1>2 DEF Used
<1>4. /\ falcon \in [{"gsp", "sec2"} -> EngineState] /\ prog = <<>> /\ eng = u /\ fpc \in Loading
      /\ \A f \in {"gsp", "sec2"} : f # u => StillOff(f)
      /\ fpc \in {"reset", "scrub", "select", "valid", "rescrub", "load", "start"} => StillOff(u)
      /\ fpc = "transfer" => falcon[u].cpu = "off"
      /\ fpc = "running" => falcon[u].trf = "none"
  BY <1>1, <1>2 DEF HostEngines, AtRun
<1>5. result = "ok" => host \in {"bringup", "dump"}
  BY <1>1 DEF HostEngines, Reported
<1> DEFINE Rightly ==
        /\ falcon' \in [{"gsp", "sec2"} -> EngineState] /\ prog' = <<>>
        /\ \A f \in {"gsp", "sec2"} : f # u => falcon'[f] = falcon[f]
        /\ eng' = u /\ fpc' \in Loading
        /\ (fpc' \in {"reset", "scrub", "select", "valid", "rescrub", "load", "start"} =>
             falcon'[u].cpu = "off" /\ falcon'[u].trf = "none")
        /\ fpc' = "transfer" => falcon'[u].cpu = "off"
        /\ fpc' = "running" => falcon'[u].trf = "none"
        /\ fpc' = "halted" => falcon'[u].trf = "none" /\ falcon'[u].cpu = "halted"
<1>6. SUFFICES Rightly
  <2>1. AtRun'
    BY <1>3 DEF AtRun, StillOff
  <2>2. Reported'
    BY <1>1, <1>5 DEF Reported
  <2>3. \A f \in {"gsp", "sec2"} : f # u => StillOff(f)'
    BY <1>4 DEF StillOff
  <2> QED BY <1>1, <1>3, <2>1, <2>2, <2>3 DEF HostEngines, Ahead
<1> USE <1>4 DEF Loading, StillOff, Update, Steps, Engine
<1>7. falcon[u] \in EngineState
  OBVIOUS
<1>8. CASE ResetEngine
  <2>1. [Cold(falcon[u].core) EXCEPT !.scrub = TRUE] \in EngineState
    BY <1>7 DEF Cold, EngineState
  <2> QED BY <1>8, <2>1 DEF ResetEngine, Cold
<1>9. CASE WaitScrub
  BY <1>9 DEF WaitScrub, Wait
<1>10. CASE SelectCore
  <2>1. [falcon[u] EXCEPT !.core = "switching"] \in EngineState
    BY <1>7 DEF EngineState
  <2> QED BY <1>7, <1>10, <2>1 DEF SelectCore, EngineState
<1>11. CASE WaitValid
  BY <1>11 DEF WaitValid, Wait
<1>12. CASE WaitRescrub
  BY <1>12 DEF WaitRescrub, Wait
<1>13. CASE LoadBlock
  <2>1. [falcon[u] EXCEPT !.trf = Part] \in EngineState
    BY <1>7 DEF EngineState, Part
  <2> QED BY <1>7, <1>13, <2>1 DEF LoadBlock, EngineState
<1>14. CASE WaitTransfer
  BY <1>14 DEF WaitTransfer, Wait, TransferIdle
<1>15. CASE Launch("zero")
  <2>1. PICK e : e = [falcon[u] EXCEPT !.mbox = "zero"]
    OBVIOUS
  <2>2. e \in EngineState /\ e.trf = falcon[u].trf
    BY <1>7, <2>1 DEF EngineState
  <2>3. Started(e) \in EngineState /\ Started(e).trf = e.trf
    BY <2>2 DEF Started, EngineState
  <2>4. falcon' = [falcon EXCEPT ![u] = Started(e)] /\ fpc = "start" /\ fpc' = "running"
        /\ UNCHANGED <<eng, prog>>
    BY <1>15, <2>1 DEF Launch
  <2> QED BY <2>2, <2>3, <2>4
<1>16. CASE WaitHalted
  BY <1>16 DEF WaitHalted
<1>17. fpc \notin {"rv_scrub", "rv_select", "opcode", "opcode_done", "resume", "resumed"}
  OBVIOUS
<1>18. CASE SelectRiscv \/ RestartBooter \/ Resumed \/ OpcodeDone
  BY <1>17, <1>18 DEF SelectRiscv, RestartBooter, Resumed, OpcodeDone
<1>19. CASE SeqRegister \/ SeqPoll \/ SeqUnknown \/ SeqReset \/ SeqStart \/ SeqWaitHalt \/ SeqResume
  BY <1>17, <1>19 DEF SeqRegister, SeqPoll, SeqUnknown, SeqReset, SeqStart, SeqWaitHalt, SeqResume, Fetch
<1> QED BY <1>1, <1>8, <1>9, <1>10, <1>11, <1>12, <1>13, <1>14, <1>15, <1>16, <1>18, <1>19 DEF FalconStep

\* What the hardware does to an engine by itself: it stops nothing that has not
\* been started, and starts nothing; a core that has halted is done.
HardwareKept(f) ==
    /\ falcon'[f].cpu = falcon[f].cpu \/ falcon[f].cpu \in {"running", "ending"}
    /\ falcon'[f].trf \in {falcon[f].trf, "none"}
    /\ falcon[f].cpu = "halted" => falcon'[f].mbox = falcon[f].mbox

LEMMA HardwareRespects ==
    ASSUME HostEngines, HostsHardware
    PROVE  /\ wpr2 => wpr2'
           /\ falcon' \in [{"gsp", "sec2"} -> EngineState]
           /\ \A g \in {"gsp", "sec2"} : HardwareKept(g)
<1>1. /\ FalconHardware /\ UNCHANGED <<host, hpc, result, eng, fpc, prog>>
      /\ host = "booter_tool" => falcon'["gsp"] = falcon["gsp"]
  BY DEF HostsHardware, FalconHardware, hvars
<1>2. PICK u \in {"gsp", "sec2"} : u = Used
  BY DEF Used
<1>3. Used' = u
  BY <1>1, <1>2 DEF Used
<1>4. falcon \in [{"gsp", "sec2"} -> EngineState]
  BY DEF HostEngines
<1>5. \A f \in {"gsp", "sec2"} : f # u => falcon[f].cpu = "off" /\ falcon[f].trf = "none"
  BY <1>2 DEF HostEngines, StillOff
<1>6. ASSUME NEW f \in {"gsp", "sec2"},
             ScrubEnds(f) \/ CoreSwitches(f) \/ TransferEnds(f) \/ Halts(f)
      PROVE  /\ wpr2' = wpr2 /\ falcon' \in [{"gsp", "sec2"} -> EngineState]
             /\ \A g \in {"gsp", "sec2"} : HardwareKept(g)
  <2>1. PICK e \in EngineState :
           /\ falcon' = [falcon EXCEPT ![f] = e] /\ wpr2' = wpr2
           /\ e.cpu = falcon[f].cpu \/ falcon[f].cpu \in {"running", "ending"}
           /\ e.trf \in {falcon[f].trf, "none"}
           /\ falcon[f].cpu = "halted" => e.mbox = falcon[f].mbox
    <3>1. falcon[f] \in EngineState
      BY <1>4
    <3> USE DEF Update
    <3>2. CASE ScrubEnds(f)
      <4>1. PICK e : e = [falcon[f] EXCEPT !.scrub = FALSE]
        OBVIOUS
      <4>2. /\ e \in EngineState /\ e.cpu = falcon[f].cpu /\ e.trf = falcon[f].trf
            /\ e.mbox = falcon[f].mbox
        BY <3>1, <4>1 DEF EngineState
      <4> QED BY <3>2, <4>1, <4>2 DEF ScrubEnds
    <3>3. CASE CoreSwitches(f)
      <4>1. PICK e : e = [falcon[f] EXCEPT !.core = "falcon"]
        OBVIOUS
      <4>2. /\ e \in EngineState /\ e.cpu = falcon[f].cpu /\ e.trf = falcon[f].trf
            /\ e.mbox = falcon[f].mbox
        BY <3>1, <4>1 DEF EngineState
      <4> QED BY <3>3, <4>1, <4>2 DEF CoreSwitches
    <3>4. CASE TransferEnds(f)
      <4>1. PICK e : e = OneMore(falcon[f])
        OBVIOUS
      <4>2. /\ e \in EngineState /\ e.cpu = falcon[f].cpu /\ e.trf = "none"
            /\ e.mbox = falcon[f].mbox
        BY <3>1, <3>4, <4>1, OneMoreBlock DEF TransferEnds
      <4> QED BY <3>4, <4>1, <4>2 DEF TransferEnds, OneMore
    <3>5. CASE Halts(f)
      <4>1. PICK m \in {"zero", "error"} :
               falcon' = [falcon EXCEPT ![f] = [falcon[f] EXCEPT !.cpu = "halted", !.mbox = m]]
        BY <3>5 DEF Halts
      <4>2. PICK e : e = [falcon[f] EXCEPT !.cpu = "halted", !.mbox = m]
        OBVIOUS
      <4>3. e \in EngineState /\ e.trf = falcon[f].trf
        BY <3>1, <4>2 DEF EngineState
      <4>4. falcon[f].cpu \in {"running", "ending"} /\ wpr2' = wpr2
        BY <3>5 DEF Halts, Executing
      <4> QED BY <4>1, <4>2, <4>3, <4>4
    <3> QED BY <1>6, <3>2, <3>3, <3>4, <3>5
  <2> QED BY <1>4, <2>1 DEF HardwareKept
<1>7. ~BooterStartsGsp
  <2> SUFFICES ASSUME BooterStartsGsp PROVE FALSE
    OBVIOUS
  <2>1. falcon["sec2"].cpu = "running"
    BY DEF BooterStartsGsp
  <2>2. u = "sec2" /\ host = "booter_tool"
    BY <1>2, <1>5, <2>1 DEF Used
  <2>3. falcon'["gsp"] = Started(falcon["gsp"])
    BY <1>4 DEF BooterStartsGsp
  <2>4. Started(falcon["gsp"]).cpu = "running"
    BY <1>4, <1>5, <2>2, StartedIs
  <2> QED BY <1>1, <1>5, <2>2, <2>3, <2>4
<1>8. CASE FwsecProtects
  BY <1>4, <1>8 DEF FwsecProtects, HardwareKept
<1> QED BY <1>1, <1>6, <1>7, <1>8 DEF FalconHardware

LEMMA HardwareStep ==
    ASSUME HostEngines, HostsHardware
    PROVE  HostEngines'
<1>1. /\ FalconHardware /\ UNCHANGED <<host, hpc, result, eng, fpc, prog>>
      /\ host = "booter_tool" => falcon'["gsp"] = falcon["gsp"]
  BY DEF HostsHardware, FalconHardware, hvars
<1>2. PICK u \in {"gsp", "sec2"} : u = Used
  BY DEF Used
<1>3. Used' = u
  BY <1>1, <1>2 DEF Used
<1>5. \A f \in {"gsp", "sec2"} : f # u => falcon[f].cpu = "off" /\ falcon[f].trf = "none"
  BY <1>2 DEF HostEngines, StillOff
<1>8. /\ wpr2 => wpr2'
      /\ falcon' \in [{"gsp", "sec2"} -> EngineState]
      /\ \A g \in {"gsp", "sec2"} : HardwareKept(g)
  BY HardwareRespects
<1>9. \A f \in {"gsp", "sec2"} : StillOff(f) => StillOff(f)'
  BY <1>8 DEF HardwareKept, StillOff
<1>10. AtRun => AtRun'
  BY <1>1, <1>2, <1>3, <1>8, <1>9 DEF AtRun, HardwareKept
<1>11. Reported'
  <2> SUFFICES ASSUME result = "ok", host \notin {"bringup", "dump"}
               PROVE  /\ hpc \in {"give", "close", "refused", "registered", "done"}
                      /\ falcon'[u].trf = "none" /\ falcon'[u].cpu = "halted"
                      /\ host \in {"kext", "fwsec_tool"} => wpr2' /\ falcon'["gsp"].mbox = "zero"
    BY <1>1, <1>3 DEF Reported
  <2>1. /\ hpc \in {"give", "close", "refused", "registered", "done"}
        /\ falcon[u].trf = "none" /\ falcon[u].cpu = "halted"
        /\ host \in {"kext", "fwsec_tool"} => wpr2 /\ falcon["gsp"].mbox = "zero"
    BY <1>2 DEF HostEngines, Reported
  <2>2. host \in {"kext", "fwsec_tool"} => u = "gsp"
    BY <1>2 DEF Used
  <2>3. HardwareKept(u) /\ (u = "gsp" => HardwareKept("gsp"))
    BY <1>8
  <2>4. falcon'[u].trf = "none" /\ falcon'[u].cpu = "halted"
    BY <2>1, <2>3 DEF HardwareKept
  <2>5. host \in {"kext", "fwsec_tool"} => falcon'["gsp"].mbox = "zero"
    BY <2>1, <2>2, <2>3 DEF HardwareKept
  <2>6. host \in {"kext", "fwsec_tool"} => wpr2'
    BY <1>8, <2>1
  <2> QED BY <2>1, <2>4, <2>5, <2>6
<1>12. prog' = <<>> /\ \A f \in {"gsp", "sec2"} : f # u => StillOff(f)'
  BY <1>1, <1>5, <1>9 DEF HostEngines, StillOff
<1>13. hpc \in Ahead => StillOff(u)'
  BY <1>2, <1>9 DEF HostEngines
<1>14. hpc = "run" => AtRun'
  BY <1>10 DEF HostEngines
<1> QED BY <1>1, <1>3, <1>8, <1>11, <1>12, <1>13, <1>14 DEF HostEngines

\* At most one version is burned for a microcode.
LEMMA FuseOne ==
    ASSUME fuses \in Fuses, NEW e, NEW id, NEW v \in FuseVersion(fuses, e, id),
           NEW w \in FuseVersion(fuses, e, id)
    PROVE  v = w
<1>1. <<e, id>> \in DOMAIN fuses /\ fuses[<<e, id>>] \subseteq Nat
  <2>1. <<e, id>> \in DOMAIN fuses
    BY DEF FuseVersion
  <2> QED BY <2>1, FuseAssumption
<1>2. PICK bits \in SUBSET Nat : bits = fuses[<<e, id>>]
  BY <1>1
<1>3. v \in 0 .. 16 /\ IF v = 0 THEN bits = {} ELSE v - 1 \in bits /\ \A b \in bits : b < v
  BY <1>2 DEF FuseVersion
<1>4. w \in 0 .. 16 /\ IF w = 0 THEN bits = {} ELSE w - 1 \in bits /\ \A b \in bits : b < w
  BY <1>2 DEF FuseVersion
<1> QED BY <1>3, <1>4

LEMMA FuseRange ==
    ASSUME NEW f, NEW e, NEW id, NEW v \in FuseVersion(f, e, id)
    PROVE  v \in Nat
<1>1. v \in 0 .. 16
  BY DEF FuseVersion
<1> QED BY <1>1

\* The signature chosen is the one for the version that is burned.
LEMMA SignatureRight ==
    ASSUME fuses \in Fuses, NEW c, NEW p \in Nat, NEW d, d = c[p], WellBuilt(c, p),
           NEW s \in Signatures(d, p)
    PROVE  s \in DOMAIN c /\ {c[s].version} = FuseVersion(fuses, d.engine, d.id)
<1>1. PICK v \in FuseVersion(fuses, d.engine, d.id) :
         \E i \in nv_fwsec_select_signature_index(d, v) : s = p + 1 + i
  BY DEF Signatures
<1>2. v \in d.versions /\ s = p + 1 + Cardinality({b \in d.versions : b < v})
  BY <1>1 DEF nv_fwsec_select_signature_index
<1>3. s \in DOMAIN c /\ c[s].version = v
  BY <1>2 DEF WellBuilt
<1>4. \A w \in FuseVersion(fuses, d.engine, d.id) : w = v
  BY <1>1, FuseOne
<1> QED BY <1>1, <1>3, <1>4

\* The places of a well-built microcode that the patches are for.
LEMMA PatchPlaces ==
    ASSUME NEW c, NEW p \in Nat, NEW d, d = c[p], WellBuilt(c, p)
    PROVE  /\ d.hdr \in Nat /\ d.imem \in Nat /\ d.dmem \in Nat
           /\ \A x \in {d.interface, d.mapper, d.command, d.pkc} :
                x \in Nat /\ d.imem + x \in 0 .. d.imem + d.dmem - 1
           /\ d.mapper # d.command /\ d.pkc # d.mapper /\ d.pkc # d.command
           /\ \A i \in 0 .. d.imem + d.dmem - 1 : p + d.hdr + i \in DOMAIN c
<1>1. /\ d.hdr \in Nat /\ d.imem \in Nat /\ d.dmem \in Nat
      /\ \A x \in {d.interface, d.mapper, d.command, d.pkc} : x \in 0 .. d.dmem - 1
      /\ p .. p + d.hdr + d.imem + d.dmem - 1 \subseteq DOMAIN c
      /\ d.mapper # d.command /\ d.pkc # d.mapper /\ d.pkc # d.command
  BY DEF WellBuilt
<1> QED BY <1>1

\* nv_fwsec_patch_frts writes the mapper and the command, and nothing else.
LEMMA FrtsIs ==
    ASSUME NEW c, NEW p \in Nat, NEW d, d = c[p], WellBuilt(c, p),
           NEW D, NEW u, u = [i \in D |-> u[i]],
           \A i \in 0 .. d.imem + d.dmem - 1 : i \in D /\ u[i] = c[p + d.hdr + i],
           NEW b \in nv_fwsec_patch_frts(u, d)
    PROVE  /\ b = [i \in D |-> b[i]]
           /\ \A i \in D : i \notin {d.imem + d.mapper, d.imem + d.command} => b[i] = u[i]
           /\ b[d.imem + d.mapper].init = "frts" /\ b[d.imem + d.command].region = "frts"
<1>1. /\ d.hdr \in Nat /\ d.imem \in Nat /\ d.dmem \in Nat /\ d.mapper # d.command
      /\ \A x \in {d.interface, d.mapper, d.command} : x \in Nat /\ d.imem + x \in 0 .. d.imem + d.dmem - 1
  BY PatchPlaces
<1>2. PICK h : h = d.imem + d.interface
  OBVIOUS
<1>3. h \in D /\ u[h] = c[p + d.hdr + d.imem + d.interface]
  <2>1. h \in 0 .. d.imem + d.dmem - 1
    BY <1>1, <1>2
  <2>2. h \in D /\ u[h] = c[p + d.hdr + h]
    BY <2>1
  <2>3. p + d.hdr + h = p + d.hdr + d.imem + d.interface
    BY <1>1, <1>2
  <2> QED BY <2>2, <2>3
<1>4. Lookup(u[h].entries, "dmemmapper") = {d.mapper}
  BY <1>3 DEF WellBuilt
<1>5. PICK m0 : m0 = d.imem + d.mapper
  OBVIOUS
<1>6. m0 \in D /\ u[m0].kind = "mapper" /\ u[m0].cmd_in = d.command
  <2>1. m0 \in 0 .. d.imem + d.dmem - 1
    BY <1>1, <1>5
  <2>2. m0 \in D /\ u[m0] = c[p + d.hdr + m0]
    BY <2>1
  <2>3. p + d.hdr + m0 = p + d.hdr + d.imem + d.mapper
    BY <1>1, <1>5
  <2>4. c[p + d.hdr + d.imem + d.mapper].kind = "mapper" /\ c[p + d.hdr + d.imem + d.mapper].cmd_in = d.command
    BY DEF WellBuilt, At
  <2> QED BY <2>2, <2>3, <2>4
<1>7. PICK m : /\ m = m0
               /\ b = [u EXCEPT ![m] = [kind |-> "mapper", cmd_in |-> d.command, init |-> "frts"],
                                ![d.imem + d.command] = [kind |-> "cmd", region |-> "frts"]]
  <2>1. PICK m : /\ m \in {d.imem + x : x \in IF At(u, h, "appif") /\ u[h].version = 1
                                             THEN Lookup(u[h].entries, "dmemmapper") ELSE {}}
                 /\ b = [u EXCEPT ![m] = [kind |-> "mapper",
                                          cmd_in |-> (IF u[m].kind = "mapper" THEN u[m].cmd_in ELSE 0),
                                          init |-> "frts"],
                                  ![d.imem + (IF u[m].kind = "mapper" THEN u[m].cmd_in ELSE 0)] =
                                         [kind |-> "cmd", region |-> "frts"]]
    BY <1>2 DEF nv_fwsec_patch_frts
  <2>2. m = m0
    BY <1>4, <1>5, <2>1
  <2>3. (IF u[m].kind = "mapper" THEN u[m].cmd_in ELSE 0) = d.command
    BY <1>6, <2>2
  <2> QED BY <2>1, <2>2, <2>3
<1>8. PICK k : k = d.imem + d.command
  OBVIOUS
<1>9. k \in D /\ k # m0
  <2>1. d.mapper \in Nat /\ d.command \in Nat /\ d.imem + d.command \in 0 .. d.imem + d.dmem - 1
    BY <1>1
  <2>2. k # m0
    BY <1>1, <1>5, <1>8, <2>1
  <2> QED BY <1>8, <2>1, <2>2
<1>10. PICK x, y : x = [kind |-> "mapper", cmd_in |-> d.command, init |-> "frts"]
                   /\ y = [kind |-> "cmd", region |-> "frts"]
  OBVIOUS
<1>11. x.init = "frts" /\ y.region = "frts"
  BY <1>10
<1>12. b = [u EXCEPT ![m0] = x, ![k] = y]
  BY <1>7, <1>8, <1>10
<1>13. b = [i \in D |-> IF i = k THEN y ELSE IF i = m0 THEN x ELSE u[i]]
  BY <1>6, <1>9, <1>12
<1> QED BY <1>5, <1>6, <1>8, <1>9, <1>11, <1>13

\* Patching leaves the microcode of a well-built ROM intact, but for the command
\* and the signature.
LEMMA PatchedIsIntact ==
    ASSUME fuses \in Fuses, image \in Roms, image.well, NEW p, Usable(p), NEW b \in Patched(p),
           NEW d, d = Desc(p)
    PROVE  /\ \A i \in 0 .. UcodeSize(p) - 1 :
                b[i] # image.cells[UcodeAt(p) + i] =>
                    i \in {d.imem + d.mapper, d.imem + d.command}
                             \cup (IF d.count = 0 THEN {} ELSE {d.imem + d.pkc})
           /\ b[d.imem + d.mapper].init = "frts" /\ b[d.imem + d.command].region = "frts"
           /\ d.count # 0 => {b[d.imem + d.pkc].version} = FuseVersion(fuses, d.engine, d.id)
<1>1. PICK c : c = image.cells
  OBVIOUS
<1>2. d = c[p] /\ UcodeSize(p) = d.imem + d.dmem /\ UcodeAt(p) = p + d.hdr
  BY <1>1 DEF Desc, UcodeSize, UcodeAt
<1>3. p \in Nat /\ WellBuilt(c, p) /\ DOMAIN c \subseteq Nat
  <2>1. p \in DOMAIN c /\ c[p].kind = "desc"
    BY <1>1 DEF Usable, nv_fwsec_desc_parse, At
  <2> QED BY <1>1, <2>1, RomAssumption
<1>4. PICK cap : cap = IF host = "kext" THEN UcodeSize(p) ELSE Cap
  OBVIOUS
<1>5. cap \in Nat /\ d.imem + d.dmem <= cap
  <2>1. host = "kext" \/ UcodeSize(p) <= Cap
    BY DEF Usable, UcodeFits
  <2>2. d.imem + d.dmem \in Nat
    BY <1>2, <1>3, PatchPlaces
  <2> QED BY <1>2, <1>4, <2>1, <2>2, CapAssumption
<1>6. PICK u : u = Cells(c, p + d.hdr, d.imem + d.dmem, cap)
  OBVIOUS
<1>7. PICK D : D = 0 .. cap - 1
  OBVIOUS
<1>8. /\ u = [i \in D |-> u[i]]
      /\ \A i \in 0 .. d.imem + d.dmem - 1 : i \in D /\ u[i] = c[p + d.hdr + i]
  <2>0. /\ d.hdr \in Nat /\ d.imem \in Nat /\ d.dmem \in Nat
        /\ \A i \in 0 .. d.imem + d.dmem - 1 : p + d.hdr + i \in DOMAIN c
    BY <1>2, <1>3, PatchPlaces
  <2>1. PICK a \in Int, n \in Nat, k \in Nat : a = p + d.hdr /\ n = d.imem + d.dmem /\ k = cap
    BY <1>3, <1>5, <2>0
  <2>2. n <= k /\ \A i \in 0 .. n - 1 : a + i \in DOMAIN c
    BY <1>5, <2>0, <2>1
  <2>3. u = Cells(c, a, n, k)
    BY <1>6, <2>1
  <2>4. /\ u = [i \in 0 .. k - 1 |-> u[i]]
        /\ \A i \in 0 .. n - 1 : i \in 0 .. k - 1 /\ u[i] = c[a + i]
    BY <2>2, <2>3 DEF Cells
  <2>5. u = [i \in D |-> u[i]]
    BY <1>7, <2>1, <2>4
  <2>6. ASSUME NEW i \in 0 .. d.imem + d.dmem - 1 PROVE i \in D /\ u[i] = c[p + d.hdr + i]
    <3>1. i \in 0 .. n - 1
      BY <2>0, <2>1
    <3>2. i \in 0 .. k - 1 /\ u[i] = c[a + i]
      BY <2>4, <3>1
    <3> QED BY <1>7, <2>1, <3>2
  <2> QED BY <2>5, <2>6
<1>9. IF d.count = 0 THEN b \in nv_fwsec_patch_frts(u, d)
      ELSE \E w \in nv_fwsec_patch_frts(u, d), s \in Signatures(d, p) :
              b \in nv_fwsec_patch_signature(w, d, Cells(c, s, 1, 1)[0])
  BY <1>1, <1>2, <1>4, <1>6 DEF Patched, Commanded, Copied
<1>10. ASSUME NEW w \in nv_fwsec_patch_frts(u, d)
       PROVE  /\ w = [i \in D |-> w[i]]
              /\ \A i \in D : i \notin {d.imem + d.mapper, d.imem + d.command} => w[i] = u[i]
              /\ w[d.imem + d.mapper].init = "frts" /\ w[d.imem + d.command].region = "frts"
  BY <1>2, <1>3, <1>8, <1>10, FrtsIs
<1> DEFINE Rest == {d.imem + d.mapper, d.imem + d.command} \cup (IF d.count = 0 THEN {} ELSE {d.imem + d.pkc})
           RightIn == /\ \A i \in 0 .. d.imem + d.dmem - 1 : b[i] # c[p + d.hdr + i] => i \in Rest
                      /\ b[d.imem + d.mapper].init = "frts" /\ b[d.imem + d.command].region = "frts"
                      /\ d.count # 0 => {b[d.imem + d.pkc].version} = FuseVersion(fuses, d.engine, d.id)
<1>11. ASSUME d.count = 0 PROVE RightIn
  <2>1. b \in nv_fwsec_patch_frts(u, d)
    BY <1>9, <1>11
  <2>2. /\ \A i \in D : i \notin {d.imem + d.mapper, d.imem + d.command} => b[i] = u[i]
        /\ b[d.imem + d.mapper].init = "frts" /\ b[d.imem + d.command].region = "frts"
    BY <1>10, <2>1
  <2> QED BY <1>1, <1>8, <1>11, <2>2
<1>12. ASSUME d.count # 0 PROVE RightIn
  <2>1. PICK w \in nv_fwsec_patch_frts(u, d), s \in Signatures(d, p) :
           b \in nv_fwsec_patch_signature(w, d, Cells(c, s, 1, 1)[0])
    BY ONLY <1>9, <1>12
  <2>2. s \in DOMAIN c /\ {c[s].version} = FuseVersion(fuses, d.engine, d.id)
    BY <1>2, <1>3, SignatureRight
  <2>3. Cells(c, s, 1, 1)[0] = c[s]
    <3>1. s \in Int
      BY <1>3, <2>2
    <3>2. s + 0 = s
      BY <3>1
    <3> QED BY <2>2, <3>2 DEF Cells
  <2>4. PICK k : k = d.imem + d.pkc
    OBVIOUS
  <2>5. k \in D /\ k # d.imem + d.mapper /\ k # d.imem + d.command
    <3>1. /\ d.imem \in Nat /\ d.mapper \in Nat /\ d.command \in Nat /\ d.pkc \in Nat
          /\ d.pkc # d.mapper /\ d.pkc # d.command /\ d.imem + d.pkc \in 0 .. d.imem + d.dmem - 1
      BY <1>2, <1>3, PatchPlaces
    <3>2. k \in D
      BY <1>8, <2>4, <3>1
    <3> QED BY <2>4, <3>1, <3>2
  <2>6. /\ w = [i \in D |-> w[i]]
        /\ \A i \in D : i \notin {d.imem + d.mapper, d.imem + d.command} => w[i] = u[i]
        /\ w[d.imem + d.mapper].init = "frts" /\ w[d.imem + d.command].region = "frts"
    BY <1>10, <2>1
  <2>7. b = [w EXCEPT ![k] = c[s]]
    BY <2>1, <2>3, <2>4 DEF nv_fwsec_patch_signature
  <2>8. b[k] = c[s] /\ \A i \in D : i # k => b[i] = w[i]
    BY <2>5, <2>6, <2>7
  <2>9. {d.imem + d.mapper, d.imem + d.command} \subseteq D
    <3>1. /\ d.imem + d.mapper \in 0 .. d.imem + d.dmem - 1
          /\ d.imem + d.command \in 0 .. d.imem + d.dmem - 1
      BY <1>2, <1>3, PatchPlaces
    <3> QED BY <1>8, <3>1
  <2>10. b[d.imem + d.mapper].init = "frts" /\ b[d.imem + d.command].region = "frts"
    BY <2>5, <2>6, <2>8, <2>9
  <2>11. {b[d.imem + d.pkc].version} = FuseVersion(fuses, d.engine, d.id)
    BY <2>2, <2>4, <2>8
  <2>12. ASSUME NEW i \in 0 .. d.imem + d.dmem - 1, b[i] # c[p + d.hdr + i]
         PROVE  i \in {d.imem + d.mapper, d.imem + d.command} \cup {d.imem + d.pkc}
    BY <1>8, <2>4, <2>6, <2>8, <2>12
  <2> QED BY <1>1, <1>12, <2>10, <2>11, <2>12
<1>13. ASSUME RightIn, NEW i \in 0 .. UcodeSize(p) - 1, b[i] # image.cells[UcodeAt(p) + i]
       PROVE  i \in Rest
  <2>1. d.imem \in Nat /\ d.dmem \in Nat /\ d.hdr \in Nat
    BY <1>2, <1>3, PatchPlaces
  <2>2. i \in 0 .. d.imem + d.dmem - 1 /\ b[i] # c[p + d.hdr + i]
    BY <1>1, <1>2, <1>13, <2>1
  <2> QED BY <1>13, <2>2
<1> QED BY <1>11, <1>12, <1>13

\* So does patching a container's data.
LEMMA BooterIsIntact ==
    ASSUME fuses \in Fuses, image \in Containers, NEW b \in BooterPatched
    PROVE  /\ \A i \in 0 .. image.size - 1 \ {image.patch_loc} : b[i] = image.cells[image.data + i]
           /\ \A v \in FuseVersion(fuses, image.engine, image.id) :
                 /\ v # 0 => b[image.patch_loc].version = v
                 /\ v = 0 => b[image.patch_loc] = image.cells[image.sig + (image.num_sig - 1)]
<1>1. PICK d, v, i :
         /\ d \in nv_booter_parse(image) /\ v \in FuseVersion(fuses, image.engine, image.id)
         /\ i \in nv_booter_select_signature(d, v)
         /\ d.size <= Cap /\ d.sig + i < image.len /\ d.patch_loc < d.size
         /\ b = [Cells(image.cells, d.data, d.size, Cap) EXCEPT ![d.patch_loc] = image.cells[d.sig + i]]
  <2>1. PICK d \in nv_booter_parse(image) :
          b \in {[Cells(image.cells, d.data, d.size, Cap) EXCEPT ![d.patch_loc] = image.cells[d.sig + i]] :
                   i \in {i \in UNION {nv_booter_select_signature(d, v) :
                                         v \in FuseVersion(fuses, d.engine, d.id)} :
                            /\ d.size <= Cap /\ d.sig + i < image.len /\ d.patch_loc < d.size}}
    BY DEF BooterPatched
  <2>2. d.engine = image.engine /\ d.id = image.id
    BY DEF nv_booter_parse
  <2>3. PICK i \in UNION {nv_booter_select_signature(d, v) : v \in FuseVersion(fuses, d.engine, d.id)} :
           /\ d.size <= Cap /\ d.sig + i < image.len /\ d.patch_loc < d.size
           /\ b = [Cells(image.cells, d.data, d.size, Cap) EXCEPT ![d.patch_loc] = image.cells[d.sig + i]]
    BY <2>1
  <2>4. PICK v \in FuseVersion(fuses, d.engine, d.id) : i \in nv_booter_select_signature(d, v)
    BY <2>3
  <2> QED BY <2>2, <2>3, <2>4
<1>2. /\ d.data = image.data /\ d.size = image.size /\ d.sig = image.sig /\ d.num_sig = image.num_sig
      /\ d.patch_loc = image.patch_loc /\ d.fuse_ver = image.fuse_ver
      /\ image.data + image.size <= image.len
  BY <1>1 DEF nv_booter_parse
<1>3. /\ image.len \in Nat /\ image.data \in Nat /\ image.size \in Nat /\ image.sig \in Nat
      /\ image.num_sig \in Nat /\ image.patch_loc \in Nat /\ image.fuse_ver \in Nat
      /\ DOMAIN image.cells = 0 .. image.len - 1
      /\ \A j \in 0 .. image.num_sig - 1 :
           image.sig + j < image.len => image.cells[image.sig + j].version = image.fuse_ver - j
  BY ContainerAssumption
<1>4. PICK u : u = Cells(image.cells, image.data, image.size, Cap)
  OBVIOUS
<1>5. /\ u = [j \in 0 .. Cap - 1 |-> u[j]]
      /\ \A j \in 0 .. image.size - 1 : j \in 0 .. Cap - 1 /\ u[j] = image.cells[image.data + j]
  <2>1. /\ image.data \in Int /\ image.size <= Cap
        /\ \A j \in 0 .. image.size - 1 : image.data + j \in DOMAIN image.cells
    <3>1. image.size <= Cap /\ image.data + image.size <= image.len
      <4>1. d.size <= Cap
        BY ONLY <1>1
      <4> QED BY ONLY <1>2, <4>1
    <3>2. \A j \in 0 .. image.size - 1 : image.data + j \in 0 .. image.len - 1
      BY <1>3, <3>1
    <3> QED BY <1>3, <3>1, <3>2
  <2>2. PICK a \in Int, n \in Nat, k \in Nat : a = image.data /\ n = image.size /\ k = Cap
    BY <1>3, CapAssumption
  <2>3. n <= k /\ \A j \in 0 .. n - 1 : a + j \in DOMAIN image.cells
    BY <1>3, <2>1, <2>2
  <2>4. u = Cells(image.cells, a, n, k)
    BY <1>4, <2>2
  <2>5. PICK c : c = image.cells
    OBVIOUS
  <2>6. u = [j \in 0 .. k - 1 |-> IF j < n /\ a + j \in DOMAIN c THEN c[a + j] ELSE Zero]
    BY <2>4, <2>5 DEF Cells
  <2>7. \A j \in 0 .. n - 1 : j \in 0 .. k - 1 /\ u[j] = image.cells[a + j]
    BY <2>3, <2>5, <2>6
  <2> QED BY <2>2, <2>6, <2>7
<1>6. PICK l, x : l = image.patch_loc /\ x = image.cells[image.sig + i]
  OBVIOUS
<1>7. l \in 0 .. image.size - 1
  BY <1>1, <1>2, <1>3, <1>6
<1>8. b = [u EXCEPT ![l] = x]
  BY <1>1, <1>2, <1>4, <1>6
<1>9. b[l] = x /\ \A j \in 0 .. image.size - 1 : j # l => b[j] = u[j]
  BY <1>5, <1>7, <1>8
<1>10. i \in 0 .. image.num_sig - 1 /\ x.version = image.fuse_ver - i
       /\ (v # 0 => i = image.fuse_ver - v) /\ (v = 0 => i = image.num_sig - 1)
  BY <1>1, <1>2, <1>3, <1>6 DEF nv_booter_select_signature
<1>11. ASSUME NEW w \in FuseVersion(fuses, image.engine, image.id), w # 0
       PROVE  b[image.patch_loc].version = w
  <2>1. w = v
    BY <1>1, FuseOne
  <2>2. v \in Int
    BY <1>1, FuseRange
  <2> QED BY <1>3, <1>6, <1>9, <1>10, <1>11, <2>1, <2>2
<1>12. ASSUME 0 \in FuseVersion(fuses, image.engine, image.id)
       PROVE  b[image.patch_loc] = image.cells[image.sig + (image.num_sig - 1)]
  <2>1. v = 0
    BY <1>1, <1>12, FuseOne
  <2> QED BY <1>6, <1>9, <1>10, <2>1
<1> QED BY <1>5, <1>6, <1>9, <1>11, <1>12

\* A step that leaves image and buffer alone.
LEMMA ImageKept ==
    ASSUME ImageInv, UNCHANGED <<host, image, fuses, found, buf, outside>>, Given' => Given
    PROVE  ImageInv'
<1>1. \A p : Usable(p)' <=> Usable(p)
  BY DEF Usable, UcodeFits, UcodeSize, UcodeAt, InRom, Desc
<1>2. \A p : Intact(p)' <=> Intact(p)
  BY DEF Intact, UcodeSize, UcodeAt, Desc
<1>3. BooterIntact' <=> BooterIntact
  BY DEF BooterIntact
<1> QED BY <1>1, <1>2, <1>3 DEF ImageInv

LEMMA ImageStep ==
    ASSUME OwnedInv, HostEngines, ImageInv, HostEngines', HostsNext
    PROVE  ImageInv'
<1>1. host \in Hosts /\ hpc \in Places(host)
  BY DEF OwnedInv
<1>2. CASE Locate
  <2>1. CASE hpc' = "give"
    <3>1. UNCHANGED <<falcon, host, image, fuses, found, buf, outside>>
      BY <1>2, <2>1 DEF Locate, Refuse, Moves, fvars
    <3>2. Given' => Given
      BY <2>1, <3>1 DEF Given, Used
    <3> QED BY <3>1, <3>2, ImageKept
  <2>2. CASE hpc' # "give"
    <3>1. PICK p \in nv_fwsec_locate(image.cells) :
             /\ Usable(p) /\ found' = {p} /\ hpc' # "run"
             /\ UNCHANGED <<falcon, host, image, fuses, outside>>
      BY <1>2, <2>2 DEF Locate, Refuse, Moves, fvars
    <3>2. ~Given'
      <4>1. falcon[Used].cpu = "off"
        BY <1>2 DEF HostEngines, StillOff, Ahead, Locate
      <4> QED BY <3>1, <4>1 DEF Given, Used
    <3>3. Usable(p)'
      BY <3>1 DEF Usable, UcodeFits, UcodeSize, UcodeAt, InRom, Desc
    <3> QED BY <3>1, <3>2, <3>3 DEF ImageInv
  <2> QED BY <2>1, <2>2
<1>3. CASE Patch
  <2>1. PICK p \in found :
           /\ outside' = \/ ~InRom(UcodeAt(p), UcodeSize(p))
                         \/ Commanded(p) # {} /\ \E s \in Copied(p) : ~InRom(s, 1)
           /\ hpc' = "run" => buf' \in Patched(p)
    BY <1>3 DEF Patch
  <2>2. UNCHANGED <<falcon, host, image, fuses, found>> /\ host # "booter_tool" /\ hpc' \in {"run", "give"}
    BY <1>1, <1>3 DEF Patch, Drive, fvars, Places
  <2>3. Usable(p) /\ fuses \in Fuses /\ image \in Roms /\ found = {p}
    BY <2>1, <2>2 DEF ImageInv
  <2>4. host # "bringup" => ~outside'
    BY <2>1, <2>3 DEF Usable, UcodeFits, Copied
  <2>5. \A q : Usable(q)' <=> Usable(q)
    BY <2>2 DEF Usable, UcodeFits, UcodeSize, UcodeAt, InRom, Desc
  <2>6. Given' => hpc' = "run"
    <3>1. falcon[Used].cpu = "off"
      BY <1>3 DEF HostEngines, StillOff, Ahead, Patch
    <3> QED BY <2>2, <3>1 DEF Given, Used
  <2>7. ASSUME hpc' = "run", image.well PROVE Intact(p)'
    <3>1. PICK b : b = buf'
      OBVIOUS
    <3>2. PICK d : d = Desc(p)
      OBVIOUS
    <3>3. b \in Patched(p)
      BY <2>1, <2>7, <3>1
    <3>4. /\ \A i \in 0 .. UcodeSize(p) - 1 :
                b[i] # image.cells[UcodeAt(p) + i] =>
                    i \in {d.imem + d.mapper, d.imem + d.command}
                             \cup (IF d.count = 0 THEN {} ELSE {d.imem + d.pkc})
          /\ b[d.imem + d.mapper].init = "frts" /\ b[d.imem + d.command].region = "frts"
          /\ d.count # 0 => {b[d.imem + d.pkc].version} = FuseVersion(fuses, d.engine, d.id)
      BY <2>3, <2>7, <3>2, <3>3, PatchedIsIntact
    <3>5. Desc(p)' = d /\ UcodeSize(p)' = UcodeSize(p) /\ UcodeAt(p)' = UcodeAt(p)
      BY <2>2, <3>2 DEF Desc, UcodeSize, UcodeAt
    <3>6. \A i \in 0 .. UcodeSize(p)' - 1 :
             buf'[i] # image'.cells[UcodeAt(p)' + i] =>
                 i \in {d.imem + d.mapper, d.imem + d.command}
                          \cup (IF d.count = 0 THEN {} ELSE {d.imem + d.pkc})
      BY <2>2, <3>1, <3>4, <3>5
    <3>7. fuses' = fuses
      BY <2>2
    <3> QED BY <3>1, <3>4, <3>5, <3>6, <3>7 DEF Intact
  <2> QED BY <2>2, <2>3, <2>4, <2>5, <2>6, <2>7 DEF ImageInv
<1>4. CASE BooterPatch
  <2>1. CASE hpc' = "run"
    <3>1. UNCHANGED <<host, image, fuses, found, outside>> /\ host = "booter_tool" /\ buf' \in BooterPatched
      BY <1>1, <1>4, <2>1 DEF BooterPatch, Refuse, Moves, Places, Hosts, Tools
    <3>2. fuses \in Fuses /\ image \in Containers
      BY <3>1 DEF ImageInv
    <3>3. PICK b : b = buf'
      OBVIOUS
    <3>4. /\ \A i \in 0 .. image.size - 1 \ {image.patch_loc} : b[i] = image.cells[image.data + i]
          /\ \A v \in FuseVersion(fuses, image.engine, image.id) :
                /\ v # 0 => b[image.patch_loc].version = v
                /\ v = 0 => b[image.patch_loc] = image.cells[image.sig + (image.num_sig - 1)]
      BY <3>1, <3>2, <3>3, BooterIsIntact
    <3>5. BooterIntact'
      BY <3>1, <3>3, <3>4 DEF BooterIntact
    <3>6. \A p : Usable(p)' <=> Usable(p)
      BY <3>1 DEF Usable, UcodeFits, UcodeSize, UcodeAt, InRom, Desc
    <3> QED BY <3>1, <3>2, <3>5, <3>6 DEF ImageInv
  <2>2. CASE hpc' # "run"
    <3>1. UNCHANGED <<falcon, host, image, fuses, found, buf, outside>>
      BY <1>4, <2>2 DEF BooterPatch, Refuse, Moves, fvars
    <3>2. Given' => Given
      BY <2>2, <3>1 DEF Given, Used
    <3> QED BY <3>1, <3>2, ImageKept
  <2> QED BY <2>1, <2>2
<1>5. CASE Run
  <2>1. UNCHANGED <<host, image, fuses, found, buf, outside, hpc>> /\ Given
    BY <1>5 DEF Run, hvars, Given
  <2> QED BY <2>1, ImageKept
<1>6. CASE HostsHardware
  <2>1. UNCHANGED <<host, image, fuses, found, buf, outside, hpc>>
    BY <1>6 DEF HostsHardware, hvars
  <2>2. Used' = Used
    BY <2>1 DEF Used
  <2>3. falcon[Used].cpu = "off" => falcon'[Used].cpu = "off"
    BY <1>6, HardwareRespects DEF HardwareKept, Used
  <2>4. Given' => Given
    BY <2>1, <2>2, <2>3 DEF Given
  <2> QED BY <2>1, <2>4, ImageKept
<1>7. CASE Report
  <2>1. UNCHANGED <<falcon, host, image, fuses, found, buf, outside>> /\ hpc' = "give"
    BY <1>7 DEF Report, Release
  <2>2. Given' => Given
    BY <2>1 DEF Given, Used
  <2> QED BY <2>1, <2>2, ImageKept
<1>8. CASE Take \/ Give \/ Probing \/ Reading \/ WaitGfw \/ GetFile
  <2>1. UNCHANGED <<falcon, host, image, fuses, found, buf, outside>> /\ hpc' # "run"
    BY <1>8 DEF Take, Give, Probing, Reading, WaitGfw, GetFile, Open, MapBar0, Close, Stop, KextRelease,
       KextBuffer, DextRead, BringupReturns, DumpRead, DumpAnalyze, Moves, fvars
  <2>2. Given' => Given
    BY <2>1 DEF Given, Used
  <2> QED BY <2>1, <2>2, ImageKept
<1> QED BY <1>2, <1>3, <1>4, <1>5, <1>6, <1>7, <1>8 DEF HostsNext, Probing, Reading

LEMMA HostsStart ==
    ASSUME HostsInit
    PROVE  HostsInv
<1>1. /\ host \in Hosts /\ hpc = FirstStep[host] /\ owned = {} /\ result = "none"
  BY DEF HostsInit, Hosts, Tools
<1>2. OwnedInv
  <2>1. hpc \in Places(host) /\ (host \in Tools => hpc = "take")
    BY <1>1 DEF Hosts, Tools, Places, FirstStep
  <2>2. host \in Tools => ToolOwns
    <3>1. Taken = {}
      BY <1>1 DEF Taken
    <3>2. PICK z \in 0 .. 6 : z = 0
      OBVIOUS
    <3>3. Taken = 1 .. z
      BY <3>1, <3>2
    <3> QED BY <1>1, <2>1, <3>2, <3>3 DEF ToolOwns
  <2> QED BY <1>1, <2>1, <2>2 DEF OwnedInv, KextOwns, OthersOwn
<1>3. StillOff("gsp") /\ StillOff("sec2") /\ falcon \in [{"gsp", "sec2"} -> EngineState] /\ prog = <<>>
  <2>1. PICK c \in {"falcon", "riscv"} : falcon = [gsp |-> Cold(c), sec2 |-> Cold("falcon")]
    BY DEF HostsInit, FalconInit
  <2>2. Cold(c) \in EngineState /\ Cold("falcon") \in EngineState
    BY DEF Cold, EngineState
  <2>3. StillOff("gsp") /\ StillOff("sec2")
    BY <2>1 DEF StillOff, Cold
  <2> QED BY <2>1, <2>2, <2>3 DEF HostsInit, FalconInit
<1>4. hpc # "run"
  BY <1>1 DEF Hosts, Tools, FirstStep
<1>5. HostEngines
  BY <1>1, <1>3, <1>4 DEF HostEngines, Used, Reported
<1>6. ImageInv
  <2>1. ~Given
    BY <1>3, <1>4 DEF Given, Used, StillOff
  <2>2. fuses \in Fuses /\ image \in IF host = "booter_tool" THEN Containers ELSE Roms
    BY DEF HostsInit
  <2> QED BY <2>1, <2>2 DEF HostsInit, ImageInv
<1> QED BY <1>2, <1>5, <1>6 DEF HostsInv

LEMMA HostsStep == HostsInv /\ [HostsNext]_<<fvars, hvars>> => HostsInv'
<1>1. ASSUME HostsInv, HostsNext PROVE HostsInv'
  <2>1. OwnedInv /\ HostEngines /\ ImageInv
    BY <1>1 DEF HostsInv
  <2>2. OwnedInv'
    BY <1>1, <2>1, OwnedStep
  <2>3. HostEngines'
    BY <1>1, <2>1, AwaySteps, PatchSteps, ReportStep, RunStep, HardwareStep
       DEF HostsNext, Probing, Reading
  <2>4. ImageInv'
    BY <1>1, <2>1, <2>3, ImageStep
  <2> QED BY <2>2, <2>3, <2>4 DEF HostsInv
<1>2. ASSUME HostsInv, UNCHANGED <<fvars, hvars>> PROVE HostsInv'
  <2>1. UNCHANGED <<host, hpc, owned, result, falcon, wpr2, eng, fpc, prog>>
    BY <1>2 DEF fvars, hvars
  <2>2. OwnedInv'
    BY <1>2, <2>1, OwnedKept DEF HostsInv
  <2>3. HostEngines'
    BY <1>2, <2>1 DEF HostsInv, HostEngines, StillOff, AtRun, Reported, Used
  <2>4. ImageInv'
    <3>1. UNCHANGED <<host, image, fuses, found, buf, outside>>
      BY <1>2 DEF hvars
    <3>2. Given' => Given
      BY <2>1 DEF Given, Used
    <3> QED BY <1>2, <3>1, <3>2, ImageKept DEF HostsInv
  <2> QED BY <2>2, <2>3, <2>4 DEF HostsInv
<1> QED BY <1>1, <1>2

\* Whatever is refused or fails in a stand-alone program, in whatever order,
\* leaves it where the invariant has it.
THEOREM HostsInvariance == HostsSpec => []HostsInv
<1>1. HostsInit => HostsInv
  BY HostsStart
<1> QED BY <1>1, HostsStep, PTL DEF HostsSpec

\* Every way out of vfio_open, main, RTXProbe and the dext gives back what was
\* taken, and the tools the later before the earlier; one exception is the
\* program's own: RTXProbe::start that fails after mapping BAR0 (the mapping or
\* the card's answer is bad) leaves the mapping, and stop is never called.
THEOREM TakenIsGivenBack == HostsSpec => []GivenBack
<1>1. ASSUME HostsInv PROVE GivenBack
  <2> USE <1>1 DEF HostsInv, OwnedInv
  <2>1. CASE host \in Tools
    <3>1. PICK n \in 0 .. 6 : Taken = 1 .. n /\ (hpc = "done" => n = 0)
      BY <2>1 DEF ToolOwns
    <3>2. ASSUME NEW i \in Taken, NEW j \in DOMAIN VfioOrder, j < i PROVE VfioOrder[j] \in owned
      <4>1. j \in Taken
        BY <3>1, <3>2, OrderOfTaking
      <4> QED BY <4>1 DEF Taken
    <3>3. ASSUME hpc = "done" PROVE owned = {}
      <4>1. Taken = {}
        BY <3>1, <3>3
      <4>2. owned \subseteq {VfioOrder[i] : i \in 1 .. 6}
        BY <2>1, <3>3 DEF ToolOwns
      <4> QED BY <4>1, <4>2, OrderOfTaking
    <3>4. hpc # "refused"
      BY <2>1 DEF Tools, Places
    <3> QED BY <3>2, <3>3, <3>4 DEF GivenBack
  <2>2. CASE host = "kext"
    BY <2>2 DEF KextOwns, GivenBack, Tools
  <2>3. CASE host \notin Tools \cup {"kext"}
    BY <2>3 DEF OthersOwn, GivenBack, Hosts, Tools, Places
  <2> QED BY <2>1, <2>2, <2>3
<1> QED BY <1>1, HostsInvariance, PTL

\* "FWSEC/Booter ran" is said only of an engine that has halted and reaches no
\* memory any more: nv_falcon_boot waited, and nothing starts it again.
THEOREM ReportsTrue == HostsSpec => []ReportIsTrue
<1>1. ASSUME HostsInv PROVE ReportIsTrue
  <2> SUFFICES ASSUME result = "ok", host \notin {"bringup", "dump"}
               PROVE  /\ \A f \in DOMAIN falcon : ~Reaching(f)
                      /\ host = "kext" \/ host = "fwsec_tool" => wpr2 /\ falcon["gsp"].mbox = "zero"
    BY DEF ReportIsTrue
  <2>1. /\ DOMAIN falcon = {"gsp", "sec2"}
        /\ \A f \in {"gsp", "sec2"} : f # Used => StillOff(f)
        /\ falcon[Used].trf = "none" /\ falcon[Used].cpu = "halted"
        /\ host \in {"kext", "fwsec_tool"} => wpr2 /\ falcon["gsp"].mbox = "zero"
    BY <1>1 DEF HostsInv, HostEngines, Reported
  <2> QED BY <2>1 DEF Reaching, Executing, StillOff
<1> QED BY <1>1, HostsInvariance, PTL

\* What either engine executes is the image's own microcode, patched as the FRTS
\* command and the burned version ask for (the Booter with nothing burned: its
\* last signature); outside the bring-up no copy of microcode or signature left
\* the image for it.
THEOREM MicrocodeIsSigned == HostsSpec => []LoadedIsSigned
<1>1. ASSUME HostsInv PROVE LoadedIsSigned
  <2>1. ImageInv /\ \A f \in {"gsp", "sec2"} : f # Used => falcon[f].cpu = "off"
    BY <1>1 DEF HostsInv, HostEngines, StillOff
  <2>2. ASSUME Executing("gsp"), image.well PROVE \A p \in found : Intact(p)
    <3>1. Used = "gsp" /\ host # "booter_tool"
      BY <2>1, <2>2 DEF Executing, Used
    <3>2. Given
      BY <2>2, <3>1 DEF Executing, Given
    <3> QED BY <2>1, <2>2, <3>1, <3>2 DEF ImageInv
  <2>3. ASSUME Executing("sec2") PROVE BooterIntact
    <3>1. Used = "sec2" /\ host = "booter_tool"
      BY <2>1, <2>3 DEF Executing, Used
    <3>2. Given
      BY <2>3, <3>1 DEF Executing, Given
    <3> QED BY <2>1, <3>1, <3>2 DEF ImageInv
  <2>4. host # "bringup" => ~outside
    BY <2>1 DEF ImageInv
  <2> QED BY <2>2, <2>3, <2>4 DEF LoadedIsSigned
<1> QED BY <1>1, HostsInvariance, PTL
=============================================================================
