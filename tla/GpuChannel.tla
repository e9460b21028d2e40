----------------------------- MODULE GpuChannel -----------------------------
(***************************************************************************)
(* The execution context that bring-up leaves behind (nv_gsp_gpu_ctx_t)    *)
(* and the work sent through it: nv_gsp_gpu_copy and nv_gsp_gpu_pool_test  *)
(* of driver/gsp/gsp_exec.c, with the layer 6 self-test of                 *)
(* driver/gsp/gsp_bringup.c that runs them first.                          *)
(*                                                                         *)
(* The host writes one pushbuffer, one semaphore and a ring whose entries  *)
(* all point at that pushbuffer; the GPU (external) works on them at its   *)
(* own pace, between any two host steps, and may be later than the host's  *)
(* timeout.  The caller holds the lock of the context, so there is one     *)
(* host call at a time.                                                    *)
(*                                                                         *)
(* A cell of mem stands for a transfer-sized piece of VRAM.  The CPU       *)
(* reaches it by physical address, the GPU through its page tables, vmap,  *)
(* which may be wrong: that is what the self-tests are for.                *)
(***************************************************************************)
EXTENDS Integers

CONSTANTS
    RingEntries,  \* gpfifo_entries
    SeqMod,       \* the payload carries seq & 0xffff
    Cells,        \* the cells of the application's memory
    Source, SelfTarget, Boundary, Last,
                  \* where the self-test and the two probes of the pool go
    Values,       \* what clients write
    VMaps,        \* the page tables bring-up may have built
    MaxCalls      \* bound on the number of copies sent

Zero == 0
Pattern(n) == 100 + n                 \* test patterns, no client value
Junk       == 99                      \* what VRAM holds at power-up
Data       == Values \cup {Zero, Junk} \cup {Pattern(n) : n \in 0 .. 2}

ASSUME RingAssumption  == RingEntries \in Nat \ {0, 1}
ASSUME SeqAssumption   == SeqMod \in Nat \ {0}
ASSUME CellAssumption  == Cells \subseteq Nat /\ {Source, SelfTarget, Boundary, Last} \subseteq Cells
ASSUME ProbeAssumption == Source \notin {SelfTarget, Boundary, Last}
ASSUME ValueAssumption == Values \subseteq 1 .. 98
ASSUME MapAssumption   == VMaps \subseteq [Cells -> Cells]
ASSUME CallAssumption  == MaxCalls \in Nat

VARIABLES
    ok, external_vmm, selftest_ok, pool_selftest_ok, object_bound, seq, gp_put,
                    \* the context
    phase,          \* what bring-up or the platform is doing with it
    pc, req, reply, \* the call of nv_gsp_gpu_copy in progress
    sem, pb, ring, userd_put, doorbell,
                    \* what host and GPU share
    gpu,            \* the GPU: next ring entry, state, fetched methods
    mem, vmap

ctx    == <<ok, external_vmm, selftest_ok, pool_selftest_ok, object_bound, seq, gp_put>>
call   == <<pc, req, reply>>
shared == <<sem, pb, ring, userd_put, doorbell>>
vars   == <<ok, external_vmm, selftest_ok, pool_selftest_ok, object_bound, seq, gp_put,
            phase, pc, req, reply, sem, pb, ring, userd_put, doorbell, gpu, mem, vmap>>

\* 0xC0DE0000 | (seq & 0xffff): never the 0 the semaphore is reset to.
Payload == 1 + (seq % SeqMod)

\* Mutant: the launch does not flush before it releases the semaphore.
ce_copy_NoFlush(set_obj, s, d, p) ==
    [set_obj |-> set_obj, src |-> s, dst |-> d, payload |-> p, flush |-> FALSE]

\* nv_gsp_fifo_build_ce_copy: bind the class if asked to, copy, flush, then
\* release the semaphore with the payload.
ce_copy(set_obj, s, d, p) ==
    [set_obj |-> set_obj, src |-> s, dst |-> d, payload |-> p, flush |-> TRUE]

NoMethods == ce_copy(FALSE, Source, Source, 0)

NextEntry(e) == (e + 1) % RingEntries

\* Layer 4 has run its first command: slot 0 of the ring is used, GP_PUT is
\* 1 and the GPU has caught up with it.
Init ==
    /\ ok = TRUE /\ external_vmm \in BOOLEAN
    /\ selftest_ok = FALSE /\ pool_selftest_ok = FALSE
    /\ object_bound = FALSE /\ seq = 0 /\ gp_put = 1
    /\ phase = "selftest"
    /\ pc = "idle" /\ req = [src |-> Source, dst |-> Source] /\ reply = 0
    /\ sem = 0 /\ pb = NoMethods /\ doorbell = FALSE /\ userd_put = 1
    /\ ring = [e \in 0 .. RingEntries - 1 |-> IF e = 0 THEN "pb" ELSE "empty"]
    /\ gpu = [get |-> 1, st |-> "idle", cur |-> NoMethods, bound |-> FALSE]
    /\ mem = [c \in Cells |-> Junk]
    /\ vmap \in VMaps

-----------------------------------------------------------------------------
(* nv_gsp_gpu_copy, from the first write to the poll.                      *)

\* Reset the semaphore.  Refusals (a lost context) happen in the callers'
\* steps below: Copy is entered only with ok.
Enter(s, d) ==
    /\ pc' = "sem" /\ req' = [src |-> s, dst |-> d]
    /\ seq' = seq + 1

ResetSem ==
    /\ pc = "sem" /\ pc' = "push"
    /\ sem' = 0
    /\ UNCHANGED <<ctx, phase, req, reply, pb, ring, userd_put, doorbell, gpu, mem, vmap>>

WritePushbuffer ==
    /\ pc = "push" /\ pc' = "ring"
    /\ pb' = ce_copy(~object_bound, req.src, req.dst, Payload)
    /\ UNCHANGED <<ctx, phase, req, reply, sem, ring, userd_put, doorbell, gpu, mem, vmap>>

\* Mutant: the entry goes to the slot after the one that is published.
RingSlot_Next == NextEntry(gp_put)

RingSlot == gp_put % RingEntries

WriteRing ==
    /\ pc = "ring" /\ pc' = "kick"
    /\ ring' = [ring EXCEPT ![RingSlot] = "pb"]
    /\ gp_put' = NextEntry(gp_put)
    /\ UNCHANGED <<ok, external_vmm, selftest_ok, pool_selftest_ok, object_bound, seq,
                   phase, req, reply, sem, pb, userd_put, doorbell, gpu, mem, vmap>>

Kick ==
    /\ pc = "kick" /\ pc' = "poll"
    /\ userd_put' = gp_put
    /\ doorbell' = TRUE
    /\ UNCHANGED <<ctx, phase, req, reply, sem, pb, ring, gpu, mem, vmap>>

\* The semaphore has the payload: the copy is done.
PollDone ==
    /\ pc = "poll" /\ sem = Payload
    /\ pc' = "idle" /\ reply' = 0
    /\ object_bound' = TRUE
    /\ UNCHANGED <<ok, external_vmm, selftest_ok, pool_selftest_ok, seq, gp_put,
                   phase, req, shared, gpu, mem, vmap>>

\* Mutant: the context survives a timeout.
PollTimeout_KeepsContext ==
    /\ pc = "poll" /\ sem # Payload
    /\ pc' = "idle" /\ reply' = -1
    /\ UNCHANGED <<ctx, phase, req, shared, gpu, mem, vmap>>

\* The loop ran out: the context is lost.
PollTimeout ==
    /\ pc = "poll" /\ sem # Payload
    /\ pc' = "idle" /\ reply' = -1
    /\ ok' = FALSE
    /\ UNCHANGED <<external_vmm, selftest_ok, pool_selftest_ok, object_bound, seq, gp_put,
                   phase, req, shared, gpu, mem, vmap>>

-----------------------------------------------------------------------------
(* The tests bring-up runs: one copy inside the first pieces of the area,  *)
(* then, for a driver-owned address space, two probes of the pool.         *)

Test(n)   == CASE n = 0 -> "selftest" [] n = 1 -> "boundary" [] n = 2 -> "last"
Testing(n) == CASE n = 0 -> "selftest?" [] n = 1 -> "boundary?" [] n = 2 -> "last?"
Target(n) == CASE n = 0 -> SelfTarget [] n = 1 -> Boundary [] n = 2 -> Last

\* The CPU writes a pattern of its own to the source and clears the target.
TestStart(n) ==
    /\ phase = Test(n) /\ pc = "idle" /\ ok
    /\ mem' = [mem EXCEPT ![Source] = Pattern(n), ![Target(n)] = Zero]
    /\ Enter(Source, Target(n))
    /\ phase' = Testing(n)
    /\ UNCHANGED <<ok, external_vmm, selftest_ok, pool_selftest_ok, object_bound, gp_put,
                   reply, shared, gpu, vmap>>

\* Mutant: a probe passes when the copy returned.
TestPassed_NoCompare(n) == reply = 0

TestPassed(n) == reply = 0 /\ mem[Target(n)] = Pattern(n)

SelfTestEnd ==
    /\ phase = "selftest?" /\ pc = "idle"
    /\ selftest_ok' = TestPassed(0)
    /\ phase' = IF external_vmm /\ selftest_ok' THEN "boundary" ELSE "service"
    /\ ok' = (ok /\ (external_vmm => selftest_ok'))
    /\ UNCHANGED <<external_vmm, pool_selftest_ok, object_bound, seq, gp_put,
                   call, shared, gpu, mem, vmap>>

ProbeEnd(n) ==
    /\ n \in {1, 2} /\ phase = Testing(n) /\ pc = "idle"
    /\ phase' = IF TestPassed(n) /\ n = 1 THEN "last" ELSE "service"
    /\ pool_selftest_ok' = (TestPassed(n) /\ n = 2)
    /\ ok' = (ok /\ TestPassed(n))
    /\ UNCHANGED <<external_vmm, selftest_ok, object_bound, seq, gp_put,
                   call, shared, gpu, mem, vmap>>

-----------------------------------------------------------------------------
(* The platform's use of the context, under its lock.                      *)

\* MilcorixFB::gpuCopy: two ranges that do not overlap.
ClientCopy(s, d) ==
    /\ phase = "service" /\ pc = "idle" /\ ok /\ seq < MaxCalls
    /\ s # d
    /\ Enter(s, d)
    /\ UNCHANGED <<ok, external_vmm, selftest_ok, pool_selftest_ok, object_bound, gp_put,
                   phase, reply, shared, gpu, mem, vmap>>

ClientWrite(c, v) ==
    /\ phase = "service" /\ pc = "idle" /\ ok
    /\ mem' = [mem EXCEPT ![c] = v]
    /\ UNCHANGED <<ctx, phase, call, shared, gpu, vmap>>

-----------------------------------------------------------------------------
(* The GPU (external).  A doorbell makes it look at GP_PUT; it fetches the *)
(* pushbuffer when it gets to an entry, not when the entry was written.    *)

GpuFetch ==
    /\ gpu.st = "idle" /\ doorbell /\ gpu.get # userd_put
    /\ gpu' = IF ring[gpu.get] = "pb"
                THEN [gpu EXCEPT !.get = (@ + 1) % RingEntries, !.st = "run", !.cur = pb]
                ELSE [gpu EXCEPT !.st = "fault"]
    /\ UNCHANGED <<ctx, phase, call, shared, mem, vmap>>

GpuCatchUp ==
    /\ gpu.st = "idle" /\ doorbell /\ gpu.get = userd_put
    /\ doorbell' = FALSE
    /\ UNCHANGED <<ctx, phase, call, sem, pb, ring, userd_put, gpu, mem, vmap>>

GpuMove ==
    /\ gpu.st \in {"run", "released"}
    /\ IF gpu.bound \/ gpu.cur.set_obj
         THEN /\ mem' = [mem EXCEPT ![vmap[gpu.cur.dst]] = mem[vmap[gpu.cur.src]]]
              /\ gpu' = [gpu EXCEPT !.st = IF @ = "run" THEN "moved" ELSE "idle",
                                    !.bound = TRUE]
         ELSE /\ gpu' = [gpu EXCEPT !.st = "fault"]
              /\ UNCHANGED mem
    /\ UNCHANGED <<ctx, phase, call, shared, vmap>>

\* Without a flush the semaphore may overtake the data.
GpuRelease ==
    /\ gpu.st \in (IF gpu.cur.flush THEN {"moved"} ELSE {"moved", "run"})
    /\ gpu' = [gpu EXCEPT !.st = IF @ = "moved" THEN "idle" ELSE "released"]
    /\ sem' = gpu.cur.payload
    /\ UNCHANGED <<ctx, phase, call, pb, ring, userd_put, doorbell, mem, vmap>>

-----------------------------------------------------------------------------
HostStep ==
    \/ ResetSem \/ WritePushbuffer \/ WriteRing \/ Kick
    \/ PollDone \/ PollTimeout

Tests ==
    \/ \E n \in 0 .. 2 : TestStart(n)
    \/ SelfTestEnd
    \/ \E n \in 1 .. 2 : ProbeEnd(n)

GpuStep == GpuFetch \/ GpuCatchUp \/ GpuMove \/ GpuRelease

Next ==
    \/ HostStep
    \/ Tests
    \/ \E s, d \in Cells : ClientCopy(s, d)
    \/ \E c \in Cells, v \in Values : ClientWrite(c, v)
    \/ GpuStep

Spec == Init /\ [][Next]_vars

-----------------------------------------------------------------------------
(* Properties *)

Quiet == gpu.st = "idle" /\ gpu.get = userd_put

\* A context that still counts as usable has nothing in flight between two
\* calls: the one pushbuffer and the one semaphore are the caller's again.
UsableMeansQuiet == ok /\ pc \in {"idle", "sem", "push", "ring", "kick"} => Quiet

\* The GPU never fetches an entry that was not written, nor a copy for a
\* subchannel without its class.
NoChannelFault == gpu.st # "fault"

\* A verified pool is one whose page tables are right at the places probed.
VerifiedPoolIsMapped ==
    pool_selftest_ok => \A c \in {Source, Boundary, Last} : vmap[c] = c

-----------------------------------------------------------------------------
(* Refinement of CopyEngine: the job of the abstract engine is pending from *)
(* the doorbell to the move of the data, done until the poll has seen it.   *)

JobState ==
    IF gpu.get # userd_put \/ gpu.st = "run" THEN "pending"
    ELSE IF pc = "poll" THEN "done" ELSE "none"

Job == IF JobState = "none" THEN [st |-> "none", src |-> 0, dst |-> 0, n |-> 0]
       ELSE [st |-> JobState, src |-> vmap[req.src], dst |-> vmap[req.dst], n |-> 1]

Engine == INSTANCE CopyEngine WITH job <- Job

\* The channel is a copy engine: what the host does step by step and the GPU
\* in its own time adds up to jobs that complete after they land, one at a
\* time, until a timeout loses the engine.
ImplementsEngine == Engine!Spec
=============================================================================
