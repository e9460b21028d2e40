-------------------------- MODULE GpuChannelProofs --------------------------
(***************************************************************************)
(* Proofs about the copy channel, for every size of the ring, width of the *)
(* sequence number, number of copies and set of page tables: a usable      *)
(* context is quiet between calls, the GPU never faults, a pool that       *)
(* passed the self-tests is mapped right, and the channel implements       *)
(* CopyEngine.                                                             *)
(***************************************************************************)
EXTENDS GpuChannel, TLAPS

Entries == 0 .. RingEntries - 1
Methods == [set_obj : BOOLEAN, src : Cells, dst : Cells, payload : Nat, flush : BOOLEAN]
Phases  == {"selftest", "selftest?", "boundary", "boundary?", "last", "last?", "service"}

TypeOK ==
    /\ ok \in BOOLEAN /\ external_vmm \in BOOLEAN /\ selftest_ok \in BOOLEAN
    /\ pool_selftest_ok \in BOOLEAN /\ object_bound \in BOOLEAN
    /\ seq \in Nat /\ gp_put \in Entries
    /\ phase \in Phases
    /\ pc \in {"idle", "sem", "push", "ring", "kick", "poll"}
    /\ req \in [src : Cells, dst : Cells] /\ reply \in {0, -1}
    /\ sem \in Nat /\ pb \in Methods
    /\ ring \in [Entries -> {"pb", "empty"}]
    /\ userd_put \in Entries /\ doorbell \in BOOLEAN
    /\ gpu \in [get : Entries, st : {"idle", "run", "moved", "released", "fault"},
                cur : Methods, bound : BOOLEAN]
    /\ mem \in [Cells -> Data] /\ vmap \in [Cells -> Cells]

-----------------------------------------------------------------------------
(* A copy on its way: published and not fetched, or fetched and not        *)
(* released.                                                               *)

Published == gpu.st = "idle" /\ userd_put = NextEntry(gpu.get) /\ ring[gpu.get] = "pb"
Fetched   == gpu.st \in {"run", "moved"} /\ gpu.get = userd_put /\ gpu.cur = pb
InFlight  == Published \/ Fetched

PbReady == pb = ce_copy(~object_bound, req.src, req.dst, Payload)

\* A copy in flight is the one that is polled for, or was when the context was
\* lost; the pushbuffer is left alone until it has ended.
OneInFlight ==
    /\ Quiet \/ InFlight
    /\ InFlight => (pc = "poll" \/ ~ok) /\ PbReady
    /\ pc \in {"ring", "kick"} => PbReady
    /\ pc # "idle" => ok

\* The entry is written before it is published, and GP_PUT runs ahead only
\* between the two.
RingInOrder ==
    /\ gp_put = IF pc = "kick" THEN NextEntry(userd_put) ELSE userd_put
    /\ pc = "kick" => ring[userd_put] = "pb"

\* The class is bound by the first copy that comes to its end.
BoundInOrder ==
    /\ object_bound => gpu.bound
    /\ gpu.st = "moved" => gpu.bound

\* The payload appears in the semaphore when the copy has ended, not before.
SemaphoreIsLast ==
    /\ pc \in {"push", "ring", "kick"} => sem = 0
    /\ pc = "poll" => IF Quiet THEN sem = Payload /\ gpu.bound ELSE sem = 0

ChannelInv == TypeOK /\ OneInFlight /\ RingInOrder /\ BoundInOrder /\ SemaphoreIsLast

-----------------------------------------------------------------------------
(* The tests.                                                              *)

\* The copy of this call has not moved its data.
Unmoved ==
    \/ pc \in {"sem", "push", "ring", "kick"}
    \/ pc = "poll" /\ (Published \/ gpu.st = "run")

Mapped(n) == vmap[Source] = Source /\ vmap[Target(n)] = Target(n)

\* No pattern of a test still to come is anywhere in memory.
Unused(n) == \A c \in Cells, m \in n .. 2 : mem[c] # Pattern(m)

BeforeTest(n) == phase = Test(n) => pc = "idle" /\ ok /\ Unused(n)

\* Before the move only the source has the pattern; after it the target has it
\* only if the tables are right.
DuringTest(n) ==
    phase = Testing(n) =>
        /\ req = [src |-> Source, dst |-> Target(n)]
        /\ pc = "idle" /\ reply = 0 => ok
        /\ Unused(n + 1)
        /\ ok /\ Unmoved => \A c \in Cells : mem[c] = Pattern(n) <=> c = Source
        /\ ok /\ ~Unmoved /\ mem[Target(n)] = Pattern(n) => Mapped(n)

TestInv ==
    /\ \A n \in 0 .. 2 : BeforeTest(n) /\ DuringTest(n)
    /\ phase \in {"last", "last?"} => Mapped(1)
    /\ pool_selftest_ok => Mapped(1) /\ Mapped(2)

IndInv == ChannelInv /\ TestInv

-----------------------------------------------------------------------------
(* The ring, the payload and the names of the tests.                       *)

LEMMA RingSteps ==
    ASSUME NEW e \in Entries
    PROVE  /\ e % RingEntries = e
           /\ NextEntry(e) = IF e = RingEntries - 1 THEN 0 ELSE e + 1
           /\ NextEntry(e) \in Entries /\ NextEntry(e) # e
<1>1. e % RingEntries = e
  BY RingAssumption, Z3 DEF Entries
<1>2. NextEntry(e) = IF e = RingEntries - 1 THEN 0 ELSE e + 1
  BY RingAssumption, Z3 DEF Entries, NextEntry
<1> QED BY <1>1, <1>2, RingAssumption DEF Entries

\* The payload is never the 0 that the semaphore is reset to.
LEMMA PayloadIsNotZero ==
    ASSUME seq \in Nat
    PROVE  Payload \in Nat \ {0}
BY SeqAssumption, Z3 DEF Payload

LEMMA TestNames ==
    /\ Test(0) = "selftest" /\ Test(1) = "boundary" /\ Test(2) = "last"
    /\ Testing(0) = "selftest?" /\ Testing(1) = "boundary?" /\ Testing(2) = "last?"
    /\ Target(0) = SelfTarget /\ Target(1) = Boundary /\ Target(2) = Last
BY DEF Test, Testing, Target

LEMMA TestsApart ==
    ASSUME NEW n \in 0 .. 2
    PROVE  /\ Test(n) \in Phases /\ Testing(n) \in Phases
           /\ Target(n) \in Cells /\ Target(n) # Source /\ Source \in Cells
           /\ Pattern(n) \in Data /\ Pattern(n) # Zero /\ Pattern(n) # Junk
           /\ Pattern(n) \notin Values
           /\ \A m \in 0 .. 2 : Test(n) # Testing(m)
           /\ \A m \in 0 .. 2 : m # n => /\ Test(n) # Test(m) /\ Testing(n) # Testing(m)
                                         /\ Pattern(n) # Pattern(m)
<1>1. n = 0 \/ n = 1 \/ n = 2
  OBVIOUS
<1>2. /\ Pattern(n) \in Data /\ Pattern(n) # Zero /\ Pattern(n) # Junk
      /\ Pattern(n) \notin Values
  BY <1>1, ValueAssumption DEF Pattern, Data, Zero, Junk
<1>3. \A m \in 0 .. 2 : m # n => Pattern(n) # Pattern(m)
  BY DEF Pattern
<1>4. Target(n) \in Cells /\ Target(n) # Source /\ Source \in Cells
  BY <1>1, TestNames, CellAssumption, ProbeAssumption
<1>5. Test(n) \in Phases /\ Testing(n) \in Phases
  BY <1>1, TestNames DEF Phases
<1>6. ASSUME NEW m \in 0 .. 2
      PROVE  /\ Test(n) # Testing(m)
             /\ m # n => Test(n) # Test(m) /\ Testing(n) # Testing(m)
  <2>1. m = 0 \/ m = 1 \/ m = 2
    OBVIOUS
  <2> QED BY <1>1, <2>1, TestNames
<1> QED BY <1>2, <1>3, <1>4, <1>5, <1>6

-----------------------------------------------------------------------------
(* Types.                                                                  *)

LEMMA InitInv == Init => IndInv
<1> SUFFICES ASSUME Init PROVE IndInv
  OBVIOUS
<1>1. 0 \in Entries /\ 1 \in Entries
  BY RingAssumption DEF Entries
<1>2. NoMethods \in Methods
  BY CellAssumption DEF NoMethods, ce_copy, Methods
<1>3. TypeOK
  <2>1. mem \in [Cells -> Data]
    BY DEF Init, Data
  <2>2. ring \in [Entries -> {"pb", "empty"}]
    BY DEF Init, Entries
  <2>3. req \in [src : Cells, dst : Cells]
    BY CellAssumption DEF Init
  <2> QED BY <1>1, <1>2, <2>1, <2>2, <2>3, MapAssumption DEF Init, TypeOK, Phases
<1>4. OneInFlight /\ RingInOrder /\ BoundInOrder /\ SemaphoreIsLast
  <2>1. Quiet /\ ~InFlight
    BY <1>1, RingSteps DEF Init, Quiet, InFlight, Published, Fetched
  <2> QED BY <2>1 DEF Init, OneInFlight, RingInOrder, BoundInOrder, SemaphoreIsLast
<1>5. TestInv
  <2>1. phase = Test(0) /\ \A n \in 1 .. 2 : phase # Test(n)
    BY TestNames, TestsApart DEF Init
  <2>2. \A n \in 0 .. 2 : phase # Testing(n)
    BY <2>1, TestsApart
  <2>3. Unused(0)
    BY TestsApart DEF Unused, Init
  <2>4. pc = "idle" /\ ok /\ pool_selftest_ok = FALSE /\ phase = "selftest"
    BY DEF Init
  <2>5. \A n \in 0 .. 2 : BeforeTest(n) /\ DuringTest(n)
    BY <2>1, <2>2, <2>3, <2>4 DEF BeforeTest, DuringTest
  <2> QED BY <2>4, <2>5 DEF TestInv
<1> QED BY <1>3, <1>4, <1>5 DEF IndInv, ChannelInv

LEMMA TypeInv == ChannelInv /\ [Next]_vars => TypeOK'
<1> SUFFICES ASSUME ChannelInv, [Next]_vars PROVE TypeOK'
  OBVIOUS
<1> USE DEF ChannelInv, TypeOK
<1>1. CASE ResetSem
  BY <1>1 DEF ResetSem, ctx
<1>2. CASE WritePushbuffer
  <2>1. ce_copy(~object_bound, req.src, req.dst, Payload) \in Methods
    BY PayloadIsNotZero DEF ce_copy, Methods
  <2> QED BY <1>2, <2>1 DEF WritePushbuffer, ctx
<1>3. CASE WriteRing
  BY <1>3, RingSteps DEF WriteRing, RingSlot
<1>4. CASE Kick
  BY <1>4 DEF Kick, ctx
<1>5. CASE PollDone
  BY <1>5 DEF PollDone, shared
<1>6. CASE PollTimeout
  BY <1>6 DEF PollTimeout, shared
<1>7. ASSUME NEW n \in 0 .. 2, TestStart(n) PROVE TypeOK'
  <2>1. mem' \in [Cells -> Data]
    BY <1>7, TestsApart DEF TestStart, Data
  <2>2. req' \in [src : Cells, dst : Cells] /\ phase' \in Phases
    BY <1>7, TestsApart DEF TestStart, Enter
  <2> QED BY <1>7, <2>1, <2>2 DEF TestStart, Enter, shared
<1>8. CASE SelfTestEnd
  <2>1. selftest_ok' \in BOOLEAN /\ ok' \in BOOLEAN
    BY <1>8, Zenon DEF SelfTestEnd, TestPassed
  <2> QED BY <1>8, <2>1 DEF SelfTestEnd, call, shared, Phases
<1>9. ASSUME NEW n \in 1 .. 2, ProbeEnd(n) PROVE TypeOK'
  <2>1. pool_selftest_ok' \in BOOLEAN /\ ok' \in BOOLEAN
    BY <1>9, Zenon DEF ProbeEnd, TestPassed
  <2> QED BY <1>9, <2>1 DEF ProbeEnd, call, shared, Phases
<1>10. ASSUME NEW s \in Cells, NEW d \in Cells, ClientCopy(s, d) PROVE TypeOK'
  BY <1>10 DEF ClientCopy, Enter, shared
<1>11. ASSUME NEW c \in Cells, NEW v \in Values, ClientWrite(c, v) PROVE TypeOK'
  <2>1. v \in Data
    BY DEF Data
  <2> QED BY <1>11, <2>1 DEF ClientWrite, ctx, call, shared
<1>12. CASE GpuFetch
  BY <1>12, RingSteps DEF GpuFetch, NextEntry, ctx, call, shared
<1>13. CASE GpuCatchUp
  BY <1>13 DEF GpuCatchUp, ctx, call
<1>14. CASE GpuMove
  <2>1. gpu.cur.dst \in Cells /\ gpu.cur.src \in Cells
    BY DEF Methods
  <2>2. mem' \in [Cells -> Data]
    BY <1>14, <2>1 DEF GpuMove
  <2>3. gpu' \in [get : Entries, st : {"idle", "run", "moved", "released", "fault"},
                  cur : Methods, bound : BOOLEAN]
    BY <1>14 DEF GpuMove
  <2> QED BY <1>14, <2>2, <2>3 DEF GpuMove, ctx, call, shared
<1>15. CASE GpuRelease
  <2>1. gpu.cur.payload \in Nat
    BY DEF Methods
  <2> QED BY <1>15, <2>1 DEF GpuRelease, ctx, call
<1>16. CASE UNCHANGED vars
  BY <1>16 DEF vars
<1> QED BY <1>1, <1>2, <1>3, <1>4, <1>5, <1>6, <1>7, <1>8, <1>9, <1>10, <1>11, <1>12,
           <1>13, <1>14, <1>15, <1>16 DEF Next, HostStep, Tests, GpuStep

-----------------------------------------------------------------------------
(* The channel.                                                            *)

LEMMA ChannelStep == ChannelInv /\ [Next]_vars => ChannelInv'
<1> SUFFICES ASSUME ChannelInv, [Next]_vars PROVE ChannelInv'
  OBVIOUS
<1>0. TypeOK /\ TypeOK'
  BY TypeInv DEF ChannelInv
<1>a. Payload \in Nat \ {0}
  BY <1>0, PayloadIsNotZero DEF TypeOK
<1>b. /\ userd_put \in Entries /\ NextEntry(userd_put) \in Entries
      /\ NextEntry(userd_put) # userd_put
  BY <1>0, RingSteps DEF TypeOK
<1> SUFFICES (OneInFlight /\ RingInOrder /\ BoundInOrder /\ SemaphoreIsLast)'
  BY <1>0 DEF ChannelInv
<1> USE DEF ChannelInv, OneInFlight, RingInOrder, BoundInOrder, SemaphoreIsLast
<1>1. CASE ResetSem
  BY <1>1 DEF ResetSem, ctx, Quiet, InFlight, Published, Fetched, PbReady, Payload
<1>2. CASE WritePushbuffer
  BY <1>2, <1>b DEF WritePushbuffer, ctx, Quiet, InFlight, Published, Fetched, PbReady, Payload
<1>3. CASE WriteRing
  <2>1. RingSlot = userd_put
    BY <1>3, <1>b, RingSteps DEF WriteRing, RingSlot
  <2>2. Quiet' /\ ~InFlight'
    BY <1>3, <1>b DEF WriteRing, Quiet, InFlight, Published, Fetched
  <2>3. ring'[userd_put] = "pb"
    BY <1>0, <1>3, <1>b, <2>1 DEF WriteRing, TypeOK
  <2> QED BY <1>3, <2>2, <2>3 DEF WriteRing, PbReady, Payload
<1>4. CASE Kick
  <2>1. ~Quiet' /\ Published'
    BY <1>4, <1>b DEF Kick, Quiet, InFlight, Published, Fetched
  <2> QED BY <1>4, <2>1 DEF Kick, ctx, InFlight, PbReady, Payload
<1>5. CASE PollDone
  <2>1. Quiet /\ gpu.bound
    BY <1>5, <1>a DEF PollDone
  <2>2. Quiet' /\ ~InFlight'
    BY <1>5, <2>1, <1>b DEF PollDone, shared, Quiet, InFlight, Published, Fetched
  <2> QED BY <1>5, <2>1, <2>2 DEF PollDone, shared, PbReady, Payload
<1>6. CASE PollTimeout
  BY <1>6 DEF PollTimeout, shared, Quiet, InFlight, Published, Fetched, PbReady, Payload
<1>7. ASSUME NEW n \in 0 .. 2, TestStart(n)
      PROVE  (OneInFlight /\ RingInOrder /\ BoundInOrder /\ SemaphoreIsLast)'
  BY <1>7 DEF TestStart, Enter, shared, Quiet, InFlight, Published, Fetched
<1>8. CASE SelfTestEnd
  BY <1>8 DEF SelfTestEnd, call, shared, Quiet, InFlight, Published, Fetched, PbReady, Payload
<1>9. ASSUME NEW n \in 1 .. 2, ProbeEnd(n)
      PROVE  (OneInFlight /\ RingInOrder /\ BoundInOrder /\ SemaphoreIsLast)'
  BY <1>9 DEF ProbeEnd, call, shared, Quiet, InFlight, Published, Fetched, PbReady, Payload
<1>10. ASSUME NEW s \in Cells, NEW d \in Cells, ClientCopy(s, d)
       PROVE  (OneInFlight /\ RingInOrder /\ BoundInOrder /\ SemaphoreIsLast)'
  BY <1>10 DEF ClientCopy, Enter, shared, Quiet, InFlight, Published, Fetched
<1>11. ASSUME NEW c \in Cells, NEW v \in Values, ClientWrite(c, v)
       PROVE  (OneInFlight /\ RingInOrder /\ BoundInOrder /\ SemaphoreIsLast)'
  BY <1>11 DEF ClientWrite, ctx, call, shared, Quiet, InFlight, Published, Fetched, PbReady, Payload
<1>12. CASE GpuFetch
  <2>1. Published
    BY <1>12 DEF GpuFetch, Quiet, InFlight, Fetched
  <2>2. gpu' = [gpu EXCEPT !.get = NextEntry(gpu.get), !.st = "run", !.cur = pb]
    BY <1>12, <2>1 DEF GpuFetch, Published, NextEntry
  <2>3. /\ gpu'.get = NextEntry(gpu.get) /\ gpu'.st = "run" /\ gpu'.cur = pb
        /\ gpu'.bound = gpu.bound
    BY <1>0, <2>2 DEF TypeOK
  <2>4. Fetched' /\ ~Quiet' /\ ~Published'
    BY <1>12, <2>1, <2>3 DEF GpuFetch, Fetched, Quiet, Published, shared
  <2>5. ~Quiet
    BY <1>12 DEF GpuFetch, Quiet
  <2> QED BY <1>12, <2>1, <2>3, <2>4, <2>5
          DEF GpuFetch, ctx, call, shared, InFlight, PbReady, Payload
<1>13. CASE GpuCatchUp
  BY <1>13 DEF GpuCatchUp, ctx, call, Quiet, InFlight, Published, Fetched, PbReady, Payload
<1>14. CASE GpuMove
  <2>1. Fetched /\ gpu.st = "run"
    BY <1>14 DEF GpuMove, Quiet, InFlight, Published, Fetched
  <2>2. gpu.bound \/ gpu.cur.set_obj
    <3>1. gpu.cur.set_obj = ~object_bound
      BY <2>1 DEF Fetched, InFlight, PbReady, ce_copy
    <3> QED BY <3>1, Zenon
  <2>3. gpu' = [gpu EXCEPT !.st = "moved", !.bound = TRUE]
    BY <1>14, <2>1, <2>2 DEF GpuMove
  <2>4. /\ gpu'.get = gpu.get /\ gpu'.st = "moved" /\ gpu'.cur = gpu.cur
        /\ gpu'.bound = TRUE
    BY <1>0, <2>3 DEF TypeOK
  <2>5. Fetched' /\ ~Quiet' /\ ~Published'
    BY <1>14, <2>1, <2>4 DEF GpuMove, Fetched, Quiet, Published, shared
  <2>6. ~Quiet
    BY <2>1 DEF Quiet
  <2> QED BY <1>14, <2>1, <2>4, <2>5, <2>6
          DEF GpuMove, ctx, call, shared, InFlight, PbReady, Payload
<1>15. CASE GpuRelease
  <2>1. Fetched
    BY <1>15 DEF GpuRelease, Quiet, InFlight, Published
  <2>2. gpu.cur.flush /\ gpu.cur.payload = Payload
    BY <2>1 DEF Fetched, InFlight, PbReady, ce_copy
  <2>3. gpu.st = "moved" /\ gpu.bound
    BY <1>15, <2>2 DEF GpuRelease
  <2>4. gpu'.get = gpu.get /\ gpu'.st = "idle" /\ gpu'.bound = gpu.bound
    BY <1>0, <1>15, <2>3 DEF TypeOK, GpuRelease
  <2>5. Quiet' /\ ~InFlight'
    BY <1>15, <1>b, <2>1, <2>4 DEF GpuRelease, Quiet, InFlight, Published, Fetched
  <2>6. Payload' = Payload /\ (pc' = "poll" \/ ~ok')
    BY <1>15, <2>1 DEF GpuRelease, ctx, call, Payload, InFlight
  <2> QED BY <1>15, <2>1, <2>2, <2>3, <2>4, <2>5, <2>6 DEF GpuRelease, ctx, call, InFlight
<1>16. CASE UNCHANGED vars
  BY <1>16 DEF vars, Quiet, InFlight, Published, Fetched, PbReady, Payload
<1> QED BY <1>1, <1>2, <1>3, <1>4, <1>5, <1>6, <1>7, <1>8, <1>9, <1>10, <1>11, <1>12,
           <1>13, <1>14, <1>15, <1>16 DEF Next, HostStep, Tests, GpuStep

-----------------------------------------------------------------------------
(* The tests.                                                              *)

\* Copies within memory bring no new value.
LEMMA UnusedKept ==
    ASSUME TypeOK, NEW n \in 0 .. 3, Unused(n),
           \A c \in Cells : \E d \in Cells : mem'[c] = mem[d]
    PROVE  Unused(n)'
BY DEF Unused

\* Steps that leave memory, tables and the tests' state as they are.
LEMMA TestUntouched ==
    ASSUME TypeOK, TestInv, vmap' = vmap, mem' = mem, phase' = phase, ok' = ok, req' = req,
           pool_selftest_ok' = pool_selftest_ok,
           phase # "service" => (Unmoved' <=> Unmoved),
           (pc' = pc /\ reply' = reply) \/ (pc # "idle" /\ pc' # "idle")
    PROVE  TestInv'
<1> USE DEF TestInv
<1>1. ASSUME NEW n \in 0 .. 2 PROVE BeforeTest(n)'
  BY DEF BeforeTest, Unused
<1>2. ASSUME NEW n \in 0 .. 2 PROVE DuringTest(n)'
  <2>1. Testing(n) # "service"
    BY TestNames
  <2> QED BY <2>1 DEF DuringTest, Unused, Mapped
<1> QED BY <1>1, <1>2 DEF Mapped

\* Once the tests are over, only their verdict counts.
LEMMA TestsOver ==
    ASSUME TestInv, phase' = "service", vmap' = vmap,
           pool_selftest_ok' => pool_selftest_ok \/ (Mapped(1) /\ Mapped(2))
    PROVE  TestInv'
<1>1. \A n \in 0 .. 2 : Test(n) # "service" /\ Testing(n) # "service"
  <2> TAKE n \in 0 .. 2
  <2>1. n = 0 \/ n = 1 \/ n = 2
    OBVIOUS
  <2> QED BY <2>1, TestNames
<1>2. \A n \in 0 .. 2 : BeforeTest(n)' /\ DuringTest(n)'
  BY <1>1 DEF BeforeTest, DuringTest
<1> QED BY <1>2 DEF TestInv, Mapped

\* Neither a copy still to be written nor a finished one has data to move.
LEMMA MovedOrNot ==
    ASSUME ChannelInv, Quiet
    PROVE  Unmoved <=> pc \in {"sem", "push", "ring", "kick"}
<1>1. gpu.get \in Entries /\ NextEntry(gpu.get) # gpu.get
  BY RingSteps DEF ChannelInv, TypeOK
<1> QED BY <1>1 DEF Quiet, Unmoved, Published

LEMMA TestStartInv ==
    ASSUME IndInv, NEW n \in 0 .. 2, TestStart(n)
    PROVE  TestInv'
<1> USE DEF IndInv, ChannelInv, TestInv
<1>1. Unused(n) /\ BeforeTest(n)
  BY DEF TestStart, BeforeTest
<1>2. /\ phase' = Testing(n) /\ pc' = "sem" /\ vmap' = vmap /\ ok'
      /\ req' = [src |-> Source, dst |-> Target(n)]
      /\ mem' = [mem EXCEPT ![Source] = Pattern(n), ![Target(n)] = Zero]
      /\ pool_selftest_ok' = pool_selftest_ok
  BY DEF TestStart, Enter
<1>3. /\ Source \in Cells /\ Target(n) \in Cells /\ Target(n) # Source
      /\ mem \in [Cells -> Data]
  BY TestsApart DEF TypeOK
<1>4. \A c \in Cells : mem'[c] = IF c = Source THEN Pattern(n)
                                 ELSE IF c = Target(n) THEN Zero ELSE mem[c]
  BY <1>2, <1>3
<1>5. \A c \in Cells : mem'[c] = Pattern(n) <=> c = Source
  BY <1>1, <1>3, <1>4, TestsApart DEF Unused
<1>6. Unused(n + 1)'
  <2> SUFFICES ASSUME NEW c \in Cells, NEW m \in n + 1 .. 2
               PROVE  mem'[c] # Pattern(m)
    BY DEF Unused
  <2>1. m \in 0 .. 2 /\ m # n /\ m \in n .. 2
    OBVIOUS
  <2> QED BY <2>1, <1>1, <1>4, TestsApart DEF Unused
<1>7. DuringTest(n)'
  BY <1>2, <1>5, <1>6 DEF DuringTest, Unmoved
<1>8. ASSUME NEW m \in 0 .. 2 PROVE BeforeTest(m)' /\ DuringTest(m)'
  <2>1. phase' # Test(m) /\ (m # n => phase' # Testing(m))
    BY <1>2, TestsApart
  <2> QED BY <1>7, <2>1 DEF BeforeTest, DuringTest
<1>9. phase' \in {"last", "last?"} => phase = "last"
  <2>1. n = 0 \/ n = 1 \/ n = 2
    OBVIOUS
  <2> QED BY <1>2, <2>1, TestNames DEF TestStart
<1> QED BY <1>2, <1>8, <1>9 DEF Mapped

\* A test that passed was run to its end on a usable channel.
LEMMA PassedMeansMapped ==
    ASSUME IndInv, NEW n \in 0 .. 2, phase = Testing(n), pc = "idle", TestPassed(n)
    PROVE  ok /\ Mapped(n) /\ Unused(n + 1)
<1>1. DuringTest(n)
  BY DEF IndInv, TestInv
<1>2. ~Unmoved
  BY DEF Unmoved
<1> QED BY <1>1, <1>2 DEF DuringTest, TestPassed

LEMMA SelfTestEndInv ==
    ASSUME IndInv, SelfTestEnd
    PROVE  TestInv'
<1>1. phase = Testing(0) /\ pc = "idle" /\ pc' = pc
  BY TestNames DEF SelfTestEnd, call
<1>2. vmap' = vmap /\ mem' = mem /\ pool_selftest_ok' = pool_selftest_ok
  BY DEF SelfTestEnd
<1>3. CASE TestPassed(0) /\ external_vmm
  <2>1. ok /\ Unused(1)
    BY <1>1, <1>3, PassedMeansMapped
  <2>2. selftest_ok'
    BY <1>3 DEF SelfTestEnd
  <2>3. ok' /\ phase' = "boundary"
    BY <1>3, <2>1, <2>2 DEF SelfTestEnd
  <2>4. BeforeTest(1)'
    BY <1>1, <1>2, <2>1, <2>3 DEF BeforeTest, Unused
  <2>5. ASSUME NEW n \in 0 .. 2 PROVE BeforeTest(n)' /\ DuringTest(n)'
    <3>1. phase' # Testing(n) /\ (n # 1 => phase' # Test(n))
      BY <2>3, TestNames, TestsApart
    <3> QED BY <2>4, <3>1 DEF BeforeTest, DuringTest
  <2> QED BY <1>2, <2>3, <2>5 DEF IndInv, TestInv, Mapped
<1>4. CASE ~(TestPassed(0) /\ external_vmm)
  <2>1. phase' = "service"
    BY <1>4 DEF SelfTestEnd
  <2>2. pool_selftest_ok' => pool_selftest_ok
    BY <1>2
  <2>3. TestInv
    BY DEF IndInv
  <2> QED BY <1>2, <2>1, <2>2, <2>3, TestsOver, Zenon
<1> QED BY <1>3, <1>4

LEMMA ProbeEndInv ==
    ASSUME IndInv, NEW n \in 1 .. 2, ProbeEnd(n)
    PROVE  TestInv'
<1>1. n \in 0 .. 2 /\ phase = Testing(n) /\ pc = "idle" /\ pc' = pc
  BY DEF ProbeEnd, call
<1>2. vmap' = vmap /\ mem' = mem
  BY DEF ProbeEnd
<1>3. CASE TestPassed(n) /\ n = 1
  <2>1. ok /\ Mapped(1) /\ Unused(2)
    BY <1>1, <1>3, PassedMeansMapped
  <2>2. ok' /\ phase' = "last" /\ ~pool_selftest_ok'
    <3>1. n # 2
      BY <1>3
    <3>2. pool_selftest_ok' = (TestPassed(n) /\ n = 2) /\ ok' = (ok /\ TestPassed(n))
      BY DEF ProbeEnd
    <3>3. ok' /\ ~pool_selftest_ok'
      BY <1>3, <2>1, <3>1, <3>2, Zenon
    <3> QED BY <1>3, <3>3 DEF ProbeEnd
  <2>3. BeforeTest(2)'
    BY <1>1, <1>2, <2>1, <2>2 DEF BeforeTest, Unused
  <2>4. ASSUME NEW m \in 0 .. 2 PROVE BeforeTest(m)' /\ DuringTest(m)'
    <3>1. phase' # Testing(m) /\ (m # 2 => phase' # Test(m))
      BY <2>2, TestNames, TestsApart
    <3> QED BY <2>3, <3>1 DEF BeforeTest, DuringTest
  <2> QED BY <1>2, <2>1, <2>2, <2>4 DEF TestInv, Mapped
<1>4. CASE ~(TestPassed(n) /\ n = 1)
  <2>1. phase' = "service"
    BY <1>4 DEF ProbeEnd
  <2>2. ASSUME pool_selftest_ok' PROVE Mapped(1) /\ Mapped(2)
    <3>1. TestPassed(n) /\ n = 2
      BY <2>2 DEF ProbeEnd
    <3>2. Mapped(2)
      BY <1>1, <3>1, PassedMeansMapped
    <3>3. phase = "last?"
      BY <1>1, <3>1, TestNames
    <3> QED BY <3>2, <3>3 DEF IndInv, TestInv
  <2> QED BY <1>2, <2>1, <2>2, TestsOver DEF IndInv
<1> QED BY <1>3, <1>4

LEMMA GpuMoveInv ==
    ASSUME IndInv, TypeOK', GpuMove
    PROVE  TestInv'
<1> USE DEF IndInv, ChannelInv
<1>1. Fetched /\ gpu.st = "run" /\ PbReady /\ ~Quiet
  BY DEF GpuMove, OneInFlight, Quiet, InFlight, Published, Fetched
<1>2. gpu.cur.src = req.src /\ gpu.cur.dst = req.dst /\ req.src \in Cells /\ req.dst \in Cells
  BY <1>1 DEF Fetched, PbReady, ce_copy, TypeOK
<1>3. \/ mem' = [mem EXCEPT ![vmap[req.dst]] = mem[vmap[req.src]]]
      \/ mem' = mem
  BY <1>2 DEF GpuMove
<1>4. /\ ok' = ok /\ pc' = pc /\ reply' = reply /\ req' = req /\ phase' = phase
      /\ vmap' = vmap /\ pool_selftest_ok' = pool_selftest_ok /\ userd_put' = userd_put
  BY DEF GpuMove, ctx, call, shared
<1>5. \A c \in Cells : \E d \in Cells : mem'[c] = mem[d]
  BY <1>2, <1>3 DEF TypeOK
<1>6. pc = "poll" \/ ~ok
  BY <1>1 DEF OneInFlight, InFlight
<1>7. ok => Unmoved /\ ~Unmoved'
  <2>1. gpu'.st # "run" /\ gpu'.get = gpu.get
    <3>1. \/ gpu' = [gpu EXCEPT !.st = "moved", !.bound = TRUE]
          \/ gpu' = [gpu EXCEPT !.st = "fault"]
      BY <1>1 DEF GpuMove
    <3>2. gpu \in [get : Entries, st : {"idle", "run", "moved", "released", "fault"},
                   cur : Methods, bound : BOOLEAN]
      BY DEF TypeOK
    <3>3. CASE gpu' = [gpu EXCEPT !.st = "moved", !.bound = TRUE]
      BY <3>2, <3>3
    <3>4. CASE gpu' = [gpu EXCEPT !.st = "fault"]
      BY <3>2, <3>4
    <3> QED BY <3>1, <3>3, <3>4
  <2>2. ~Published'
    BY <1>1, <1>4, <2>1, RingSteps DEF Published, Fetched, TypeOK
  <2> QED BY <1>1, <1>4, <1>6, <2>1, <2>2 DEF Unmoved
<1>8. ASSUME NEW n \in 0 .. 2 PROVE BeforeTest(n)'
  BY <1>4, <1>6 DEF TestInv, BeforeTest
<1>9. ASSUME NEW n \in 0 .. 2, phase = Testing(n) PROVE DuringTest(n)'
  <2>1. DuringTest(n)
    BY DEF TestInv
  <2>2. Unused(n + 1)'
    BY <1>5, <1>9, <2>1, UnusedKept DEF DuringTest
  <2>3. ASSUME ok, mem'[Target(n)] = Pattern(n) PROVE Mapped(n)'
    <3>1. /\ req.src = Source /\ req.dst = Target(n)
          /\ \A c \in Cells : mem[c] = Pattern(n) <=> c = Source
      BY <1>7, <1>9, <2>1, <2>3 DEF DuringTest
    <3>2. Target(n) \in Cells /\ Target(n) # Source /\ Source \in Cells
      BY TestsApart
    <3>3. mem' = [mem EXCEPT ![vmap[Target(n)]] = mem[vmap[Source]]]
      BY <1>3, <2>3, <3>1, <3>2
    <3>4. vmap[Target(n)] = Target(n)
      BY <2>3, <3>1, <3>2, <3>3 DEF TypeOK
    <3>5. mem[vmap[Source]] = Pattern(n)
      BY <2>3, <3>2, <3>3, <3>4 DEF TypeOK
    <3>6. vmap[Source] = Source
      BY <3>1, <3>2, <3>5 DEF TypeOK
    <3> QED BY <1>4, <3>4, <3>6 DEF Mapped
  <2>4. ok' => ~Unmoved'
    BY <1>4, <1>7
  <2> QED BY <1>4, <1>9, <2>1, <2>2, <2>3, <2>4 DEF DuringTest
<1>10. ASSUME NEW n \in 0 .. 2 PROVE DuringTest(n)'
  BY <1>4, <1>9 DEF DuringTest
<1> QED BY <1>4, <1>8, <1>10 DEF TestInv, Mapped

LEMMA TestStep == IndInv /\ [Next]_vars => TestInv'
<1> SUFFICES ASSUME IndInv, [Next]_vars PROVE TestInv'
  OBVIOUS
<1>0. TypeOK /\ TestInv /\ ChannelInv /\ TypeOK' /\ ChannelInv'
  BY ChannelStep DEF IndInv, ChannelInv
<1>a. Quiet => (Unmoved <=> pc \in {"sem", "push", "ring", "kick"})
  BY <1>0, MovedOrNot
<1>1. CASE ResetSem \/ WritePushbuffer \/ WriteRing
  <2>1. /\ pc \in {"sem", "push", "ring"} /\ pc' \in {"push", "ring", "kick"}
        /\ vmap' = vmap /\ mem' = mem /\ phase' = phase /\ ok' = ok /\ req' = req
        /\ pool_selftest_ok' = pool_selftest_ok
    BY <1>1 DEF ResetSem, WritePushbuffer, WriteRing, ctx
  <2>2. Unmoved /\ Unmoved'
    BY <2>1 DEF Unmoved
  <2> QED BY <1>0, <2>1, <2>2, TestUntouched
<1>2. CASE Kick
  <2>1. /\ pc = "kick" /\ pc' = "poll" /\ ~Quiet'
        /\ vmap' = vmap /\ mem' = mem /\ phase' = phase /\ ok' = ok /\ req' = req
        /\ pool_selftest_ok' = pool_selftest_ok
    <3>1. ok /\ gp_put # userd_put /\ gpu.get = userd_put
      BY <1>0, <1>2, RingSteps
         DEF Kick, ChannelInv, OneInFlight, RingInOrder, InFlight, Quiet, TypeOK
    <3> QED BY <1>2, <3>1 DEF Kick, ctx, Quiet
  <2>2. gpu'.st # "moved"
    BY <1>0, <1>2 DEF Kick, ChannelInv, OneInFlight, InFlight, Quiet
  <2>3. Unmoved /\ Unmoved'
    BY <1>0, <2>1, <2>2 DEF Unmoved, ChannelInv, OneInFlight, InFlight, Fetched
  <2> QED BY <1>0, <2>1, <2>3, TestUntouched
<1>3. CASE PollDone
  <2>1. Quiet /\ ok
    BY <1>0, <1>3, PayloadIsNotZero
       DEF PollDone, ChannelInv, SemaphoreIsLast, OneInFlight, TypeOK
  <2>2. /\ pc = "poll" /\ pc' = "idle" /\ ok' = ok /\ mem' = mem /\ vmap' = vmap
        /\ phase' = phase /\ req' = req /\ pool_selftest_ok' = pool_selftest_ok
    BY <1>3 DEF PollDone
  <2>3. ~Unmoved /\ ~Unmoved'
    BY <1>a, <2>1, <2>2 DEF Unmoved
  <2>4. ASSUME NEW n \in 0 .. 2 PROVE BeforeTest(n)' /\ DuringTest(n)'
    BY <1>0, <2>1, <2>2, <2>3 DEF TestInv, BeforeTest, DuringTest, Unused, Mapped
  <2> QED BY <1>0, <2>2, <2>4 DEF TestInv, Mapped
<1>4. CASE PollTimeout
  <2>1. /\ pc = "poll" /\ pc' = "idle" /\ ~ok' /\ reply' = -1 /\ mem' = mem /\ vmap' = vmap
        /\ phase' = phase /\ req' = req /\ pool_selftest_ok' = pool_selftest_ok
    BY <1>4 DEF PollTimeout
  <2>2. ASSUME NEW n \in 0 .. 2 PROVE BeforeTest(n)' /\ DuringTest(n)'
    BY <1>0, <2>1 DEF TestInv, BeforeTest, DuringTest, Unused, Mapped
  <2> QED BY <1>0, <2>1, <2>2 DEF TestInv, Mapped
<1>5. ASSUME NEW n \in 0 .. 2, TestStart(n) PROVE TestInv'
  BY <1>5, TestStartInv
<1>6. CASE SelfTestEnd
  BY <1>6, SelfTestEndInv
<1>7. ASSUME NEW n \in 1 .. 2, ProbeEnd(n) PROVE TestInv'
  BY <1>7, ProbeEndInv
<1>8. ASSUME NEW s \in Cells, NEW d \in Cells, ClientCopy(s, d) PROVE TestInv'
  <2>1. phase' = "service" /\ vmap' = vmap /\ pool_selftest_ok' = pool_selftest_ok
    BY <1>8 DEF ClientCopy
  <2> QED BY <1>0, <2>1, TestsOver
<1>9. ASSUME NEW c \in Cells, NEW v \in Values, ClientWrite(c, v) PROVE TestInv'
  <2>1. phase' = "service" /\ vmap' = vmap /\ pool_selftest_ok' = pool_selftest_ok
    BY <1>9 DEF ClientWrite, ctx
  <2> QED BY <1>0, <2>1, TestsOver
<1>10. CASE GpuFetch
  <2>1. /\ vmap' = vmap /\ mem' = mem /\ phase' = phase /\ ok' = ok /\ req' = req
        /\ pool_selftest_ok' = pool_selftest_ok /\ pc' = pc /\ reply' = reply
    BY <1>10 DEF GpuFetch, ctx, call
  <2>2. Published
    BY <1>0, <1>10 DEF GpuFetch, ChannelInv, OneInFlight, InFlight, Quiet, Fetched
  <2>3. gpu'.st = "run"
    BY <1>0, <1>10, <2>2 DEF GpuFetch, Published, TypeOK
  <2>4. Unmoved' <=> Unmoved
    BY <2>1, <2>2, <2>3 DEF Unmoved
  <2> QED BY <1>0, <2>1, <2>4, TestUntouched
<1>11. CASE GpuCatchUp
  <2>1. /\ vmap' = vmap /\ mem' = mem /\ phase' = phase /\ ok' = ok /\ req' = req
        /\ pool_selftest_ok' = pool_selftest_ok /\ pc' = pc /\ reply' = reply
        /\ gpu' = gpu /\ userd_put' = userd_put /\ ring' = ring
    BY <1>11 DEF GpuCatchUp, ctx, call
  <2>2. Unmoved' <=> Unmoved
    BY <2>1 DEF Unmoved, Published
  <2> QED BY <1>0, <2>1, <2>2, TestUntouched
<1>12. CASE GpuMove
  BY <1>0, <1>12, GpuMoveInv
<1>13. CASE GpuRelease
  <2>1. /\ vmap' = vmap /\ mem' = mem /\ phase' = phase /\ ok' = ok /\ req' = req
        /\ pool_selftest_ok' = pool_selftest_ok /\ pc' = pc /\ reply' = reply
        /\ userd_put' = userd_put /\ ring' = ring
    BY <1>13 DEF GpuRelease, ctx, call
  <2>2. Fetched /\ gpu.st = "moved"
    BY <1>0, <1>13
       DEF GpuRelease, ChannelInv, OneInFlight, InFlight, Quiet, Published, Fetched, PbReady, ce_copy
  <2>3. gpu'.st = "idle" /\ gpu'.get = userd_put
    BY <1>0, <1>13, <2>2 DEF GpuRelease, Fetched, TypeOK
  <2>4. ~Published /\ ~Published'
    BY <1>0, <2>1, <2>2, <2>3, RingSteps DEF Published, TypeOK
  <2>5. Unmoved' <=> Unmoved
    BY <2>1, <2>2, <2>3, <2>4 DEF Unmoved
  <2> QED BY <1>0, <2>1, <2>5, TestUntouched
<1>14. CASE UNCHANGED vars
  <2>1. /\ vmap' = vmap /\ mem' = mem /\ phase' = phase /\ ok' = ok /\ req' = req
        /\ pool_selftest_ok' = pool_selftest_ok /\ pc' = pc /\ reply' = reply
        /\ gpu' = gpu /\ userd_put' = userd_put /\ ring' = ring
    BY <1>14 DEF vars
  <2>2. Unmoved' <=> Unmoved
    BY <2>1 DEF Unmoved, Published
  <2> QED BY <1>0, <2>1, <2>2, TestUntouched
<1> QED BY <1>1, <1>2, <1>3, <1>4, <1>5, <1>6, <1>7, <1>8, <1>9, <1>10, <1>11, <1>12,
           <1>13, <1>14 DEF Next, HostStep, Tests, GpuStep

-----------------------------------------------------------------------------
\* The invariant holds of every behaviour of the channel, whatever page tables
\* bring-up built.
THEOREM Invariance == Spec => []IndInv
<1>1. IndInv /\ [Next]_vars => IndInv'
  BY ChannelStep, TestStep DEF IndInv
<1> QED BY <1>1, InitInv, PTL DEF Spec

\* Between two calls of nv_gsp_gpu_copy a context that was not given up has
\* nothing in flight: pushbuffer and semaphore may be written again.
THEOREM UsableIsQuiet == Spec => []UsableMeansQuiet
<1>1. IndInv => UsableMeansQuiet
  BY DEF IndInv, ChannelInv, OneInFlight, UsableMeansQuiet
<1> QED BY <1>1, Invariance, PTL

\* The GPU never reaches a ring entry that was not written, nor a copy before
\* the class of its subchannel is bound, after a timeout either.
THEOREM ChannelNeverFaults == Spec => []NoChannelFault
<1>1. IndInv => NoChannelFault
  BY DEF IndInv, ChannelInv, OneInFlight, Quiet, InFlight, Published, Fetched, NoChannelFault
<1> QED BY <1>1, Invariance, PTL

\* If nv_gsp_gpu_pool_test passes, the page tables are right at all places it
\* is about, whichever tables were built.
THEOREM VerifiedIsMapped == Spec => []VerifiedPoolIsMapped
<1>1. IndInv => VerifiedPoolIsMapped
  BY TestNames DEF IndInv, TestInv, Mapped, VerifiedPoolIsMapped
<1> QED BY <1>1, Invariance, PTL

-----------------------------------------------------------------------------
(* The channel implements CopyEngine.                                      *)

Moving == Published \/ gpu.st = "run"
JobOf(st) == [st |-> st, src |-> vmap[req.src], dst |-> vmap[req.dst], n |-> 1]

LEMMA JobIs ==
    ASSUME ChannelInv
    PROVE  Job = IF Moving THEN JobOf("pending")
                 ELSE IF pc = "poll" THEN JobOf("done") ELSE Engine!NoJob
<1>1. gpu.get # userd_put \/ gpu.st = "run" <=> Moving
  <2>1. gpu.get \in Entries /\ NextEntry(gpu.get) # gpu.get
    BY RingSteps DEF ChannelInv, TypeOK
  <2> QED BY <2>1 DEF Moving, ChannelInv, OneInFlight, Quiet, InFlight, Published, Fetched
<1> QED BY <1>1 DEF Job, JobState, JobOf, Engine!NoJob

\* The same after a step.
LEMMA JobIsNext ==
    ASSUME ChannelInv'
    PROVE  Job' = IF Moving' THEN JobOf("pending")'
                  ELSE IF pc' = "poll" THEN JobOf("done")' ELSE Engine!NoJob
<1>1. gpu'.get # userd_put' \/ gpu'.st = "run" <=> Moving'
  <2>1. gpu'.get \in Entries /\ NextEntry(gpu'.get) # gpu'.get
    BY RingSteps DEF ChannelInv, TypeOK
  <2> QED BY <2>1 DEF Moving, ChannelInv, OneInFlight, Quiet, InFlight, Published, Fetched
<1> QED BY <1>1 DEF Job, JobState, JobOf, Engine!NoJob

\* Steps the abstract engine does not see.
LEMMA EngineStutters ==
    ASSUME ChannelInv, ChannelInv', ok' = ok, mem' = mem, vmap' = vmap,
           req' = req \/ ~(Moving \/ pc = "poll"), Moving' <=> Moving,
           pc' = "poll" <=> pc = "poll"
    PROVE  UNCHANGED <<ok, mem, Job>>
<1>1. Job' = IF Moving' THEN JobOf("pending")'
             ELSE IF pc' = "poll" THEN JobOf("done")' ELSE Engine!NoJob
  BY JobIsNext
<1>2. Job = IF Moving THEN JobOf("pending")
            ELSE IF pc = "poll" THEN JobOf("done") ELSE Engine!NoJob
  BY JobIs
<1>3. req' = req => JobOf("pending")' = JobOf("pending") /\ JobOf("done")' = JobOf("done")
  BY DEF JobOf
<1>4. Job' = Job
  BY <1>1, <1>2, <1>3
<1> QED BY <1>4

LEMMA EngineStep == IndInv /\ IndInv' /\ [Next]_vars => [Engine!Next]_<<ok, mem, Job>>
<1> SUFFICES ASSUME IndInv, IndInv', [Next]_vars
             PROVE  Engine!Next \/ UNCHANGED <<ok, mem, Job>>
  OBVIOUS
<1>0. TypeOK /\ TypeOK' /\ ChannelInv /\ ChannelInv'
  BY DEF IndInv, ChannelInv
<1>a. Job = IF Moving THEN JobOf("pending")
            ELSE IF pc = "poll" THEN JobOf("done") ELSE Engine!NoJob
  BY <1>0, JobIs
<1>b. Job' = IF Moving' THEN JobOf("pending")'
             ELSE IF pc' = "poll" THEN JobOf("done")' ELSE Engine!NoJob
  BY <1>0, JobIsNext
<1>c. ok /\ pc # "poll" => Quiet /\ ~Moving
  BY <1>0, RingSteps
     DEF ChannelInv, OneInFlight, InFlight, Published, Fetched, Quiet, Moving, TypeOK
<1>1. CASE ResetSem \/ WritePushbuffer \/ WriteRing
  <2>1. /\ ok /\ pc # "poll" /\ pc' # "poll"
        /\ ok' = ok /\ mem' = mem /\ vmap' = vmap /\ req' = req /\ ok'
    BY <1>0, <1>1 DEF ResetSem, WritePushbuffer, WriteRing, ctx, ChannelInv, OneInFlight
  <2>2. ~Moving /\ ~Moving'
    BY <1>0, <1>1, <1>c, <2>1, RingSteps
       DEF ResetSem, WritePushbuffer, WriteRing, Moving, Quiet, Published, TypeOK
  <2> QED BY <1>0, <2>1, <2>2, EngineStutters
<1>2. CASE Kick
  <2>1. ok /\ Job = Engine!NoJob
    BY <1>0, <1>2, <1>a, <1>c DEF Kick, ChannelInv, OneInFlight
  <2>2. /\ ok' = ok /\ mem' = mem /\ vmap' = vmap /\ req' = req
        /\ gpu' = gpu /\ userd_put' = gp_put /\ ring' = ring
    BY <1>2 DEF Kick, ctx
  <2>3. Moving'
    <3>1. Quiet /\ gp_put = NextEntry(userd_put) /\ ring[userd_put] = "pb"
      BY <1>0, <1>2, <1>c, <2>1 DEF Kick, ChannelInv, RingInOrder
    <3> QED BY <2>2, <3>1 DEF Quiet, Moving, Published
  <2>4. Job' = [st |-> "pending", src |-> vmap[req.src], dst |-> vmap[req.dst], n |-> 1]
    BY <1>b, <2>2, <2>3 DEF JobOf
  <2>5. vmap[req.src] \in Cells /\ vmap[req.dst] \in Cells
    BY <1>0 DEF TypeOK
  <2>6. Engine!Submit(vmap[req.src], vmap[req.dst], 1)
    BY <2>1, <2>2, <2>4 DEF Engine!Submit, Engine!NoJob
  <2> QED BY <2>5, <2>6 DEF Engine!Next
<1>3. CASE PollDone
  <2>1. Quiet /\ ok /\ ~Moving
    BY <1>0, <1>3, PayloadIsNotZero, RingSteps
       DEF PollDone, ChannelInv, SemaphoreIsLast, OneInFlight, TypeOK, Quiet, Moving, Published
  <2>2. ~Moving' /\ pc' = "idle" /\ ok' = ok /\ mem' = mem /\ pc = "poll"
    BY <1>3, <2>1 DEF PollDone, Moving, Published, shared
  <2>3. Job = JobOf("done") /\ Job' = Engine!NoJob
    BY <1>a, <1>b, <2>1, <2>2
  <2> QED BY <2>1, <2>2, <2>3 DEF Engine!Next, Engine!Complete, Engine!NoJob, JobOf
<1>4. CASE PollTimeout
  <2>1. /\ ok /\ pc = "poll" /\ pc' = "idle" /\ ok' = FALSE /\ mem' = mem /\ vmap' = vmap
        /\ req' = req
    BY <1>0, <1>4 DEF PollTimeout, ChannelInv, OneInFlight
  <2>2. Moving' <=> Moving
    BY <1>4 DEF PollTimeout, Moving, Published, shared
  <2>3. JobOf("pending")' = JobOf("pending")
    BY <2>1 DEF JobOf
  <2>4. Job' = IF Job.st = "pending" THEN Job ELSE Engine!NoJob
    BY <1>a, <1>b, <2>1, <2>2, <2>3 DEF JobOf
  <2> QED BY <2>1, <2>4 DEF Engine!Next, Engine!Lose, Engine!NoJob
<1>5. ASSUME NEW n \in 0 .. 2, TestStart(n)
      PROVE  Engine!Next
  <2>1. ok /\ Job = Engine!NoJob /\ ok' = ok
    BY <1>5, <1>a, <1>c DEF TestStart
  <2>2. ~Moving'
    BY <1>5, <1>c DEF TestStart, shared, Moving, Published
  <2>3. Job' = Job
    BY <1>5, <1>b, <2>1, <2>2 DEF TestStart, Enter
  <2>4. mem' \in [Cells -> Data]
    BY <1>0 DEF TypeOK
  <2> QED BY <2>1, <2>3, <2>4 DEF Engine!Next, Engine!HostWrite, Engine!NoJob
<1>6. ASSUME NEW c \in Cells, NEW v \in Values, ClientWrite(c, v)
      PROVE  Engine!Next
  <2>1. ok /\ Job = Engine!NoJob /\ ok' = ok
    BY <1>6, <1>a, <1>c DEF ClientWrite, ctx
  <2>2. ~Moving' /\ pc' = "idle"
    BY <1>6, <1>c DEF ClientWrite, ctx, call, shared, Moving, Published
  <2>3. Job' = Job
    BY <1>b, <2>1, <2>2
  <2>4. mem' \in [Cells -> Data]
    BY <1>0 DEF TypeOK
  <2> QED BY <2>1, <2>3, <2>4 DEF Engine!Next, Engine!HostWrite, Engine!NoJob
<1>7. ASSUME NEW s \in Cells, NEW d \in Cells, ClientCopy(s, d)
      PROVE  UNCHANGED <<ok, mem, Job>>
  <2>1. ok /\ pc = "idle" /\ pc' = "sem" /\ ok' = ok /\ mem' = mem /\ vmap' = vmap
    BY <1>7 DEF ClientCopy, Enter
  <2>2. ~Moving /\ ~Moving'
    BY <1>7, <1>c, <2>1 DEF ClientCopy, shared, Moving, Published
  <2> QED BY <1>0, <2>1, <2>2, EngineStutters
<1>8. ASSUME \/ SelfTestEnd
             \/ \E n \in 1 .. 2 : ProbeEnd(n)
      PROVE  Engine!Next \/ UNCHANGED <<ok, mem, Job>>
  <2>1. /\ pc = "idle" /\ pc' = pc /\ mem' = mem /\ vmap' = vmap /\ req' = req
        /\ gpu' = gpu /\ userd_put' = userd_put /\ ring' = ring
    BY <1>8 DEF SelfTestEnd, ProbeEnd, call, shared
  <2>2. Moving' <=> Moving
    BY <2>1 DEF Moving, Published
  <2>3. ok' => ok
    BY <1>8, Zenon DEF SelfTestEnd, ProbeEnd
  <2>4. CASE ok' = ok
    BY <1>0, <2>1, <2>2, <2>4, EngineStutters
  <2>5. CASE ok' # ok
    <3>1. ok /\ ok' = FALSE
      BY <1>0, <2>3, <2>5 DEF TypeOK
    <3>2. Job = Engine!NoJob /\ Job' = Engine!NoJob
      BY <1>a, <1>b, <1>c, <2>1, <2>2, <3>1
    <3> QED BY <2>1, <3>1, <3>2 DEF Engine!Next, Engine!Lose, Engine!NoJob
  <2> QED BY <2>4, <2>5
<1>9. CASE GpuFetch
  <2>1. Published
    BY <1>0, <1>9 DEF GpuFetch, ChannelInv, OneInFlight, InFlight, Quiet, Fetched
  <2>2. gpu'.st = "run"
    BY <1>0, <1>9, <2>1 DEF GpuFetch, Published, TypeOK
  <2>3. ok' = ok /\ mem' = mem /\ vmap' = vmap /\ req' = req /\ pc' = pc
    BY <1>9 DEF GpuFetch, ctx, call
  <2> QED BY <1>0, <2>1, <2>2, <2>3, EngineStutters DEF Moving
<1>10. CASE GpuCatchUp
  <2>1. /\ ok' = ok /\ mem' = mem /\ vmap' = vmap /\ req' = req /\ pc' = pc
        /\ gpu' = gpu /\ userd_put' = userd_put /\ ring' = ring
    BY <1>10 DEF GpuCatchUp, ctx, call
  <2>2. Moving' <=> Moving
    BY <2>1 DEF Moving, Published
  <2> QED BY <1>0, <2>1, <2>2, EngineStutters
<1>11. CASE GpuMove
  <2> DEFINE from == vmap[req.src]
             to   == vmap[req.dst]
  <2>1. Fetched /\ gpu.st = "run" /\ PbReady /\ (pc = "poll" \/ ~ok)
    BY <1>0, <1>11 DEF GpuMove, ChannelInv, OneInFlight, Quiet, InFlight, Published, Fetched
  <2>2. gpu.cur.src = req.src /\ gpu.cur.dst = req.dst
    BY <2>1 DEF Fetched, PbReady, ce_copy
  <2>3. gpu.bound \/ gpu.cur.set_obj
    <3>1. gpu.cur.set_obj = ~object_bound
      BY <2>1 DEF Fetched, PbReady, ce_copy
    <3> QED BY <1>0, <3>1, Zenon DEF ChannelInv, BoundInOrder
  <2>4. /\ mem' = [mem EXCEPT ![to] = mem[from]]
        /\ gpu'.st = "moved"
    BY <1>0, <1>11, <2>1, <2>2, <2>3 DEF GpuMove, TypeOK
  <2>5. from \in Cells /\ to \in Cells /\ Cells \subseteq Nat /\ mem \in [Cells -> Data]
    BY <1>0, CellAssumption DEF TypeOK
  <2>6. /\ ok' = ok /\ pc' = pc /\ vmap' = vmap /\ req' = req
    BY <1>11 DEF GpuMove, ctx, call
  <2>7. Moving /\ ~Moving'
    BY <2>1, <2>4 DEF Moving, Published
  <2>8. Job = [st |-> "pending", src |-> from, dst |-> to, n |-> 1]
    BY <1>a, <2>7 DEF JobOf
  <2>9. Job' = IF pc = "poll" THEN [st |-> "done", src |-> from, dst |-> to, n |-> 1]
               ELSE Engine!NoJob
    BY <1>b, <2>6, <2>7 DEF JobOf
  <2>10. pc = "poll" <=> ok
    BY <1>0, <2>1 DEF ChannelInv, OneInFlight
  <2>11. mem' = [c \in Cells |-> IF c \in to .. to + 1 - 1 THEN mem[from + (c - to)] ELSE mem[c]]
    <3>0. from \in Nat /\ to \in Nat
      BY <2>5
    <3> HIDE DEF from, to
    <3>1. to .. to + 1 - 1 = {to} /\ from + (to - to) = from
      BY <3>0
    <3> QED BY <2>4, <2>5, <3>1
  <2> HIDE DEF from, to
  <2>12. Engine!Land
    BY <2>6, <2>8, <2>9, <2>10, <2>11 DEF Engine!Land, Engine!NoJob
  <2> QED BY <2>12 DEF Engine!Next
<1>12. CASE GpuRelease
  <2>1. Fetched /\ gpu.st = "moved"
    BY <1>0, <1>12
       DEF GpuRelease, ChannelInv, OneInFlight, InFlight, Quiet, Published, Fetched, PbReady, ce_copy
  <2>2. gpu'.st = "idle" /\ gpu'.get = userd_put
    BY <1>0, <1>12, <2>1 DEF GpuRelease, Fetched, TypeOK
  <2>3. /\ ok' = ok /\ mem' = mem /\ vmap' = vmap /\ req' = req /\ pc' = pc
        /\ userd_put' = userd_put
    BY <1>12 DEF GpuRelease, ctx, call
  <2>4. ~Moving /\ ~Moving'
    BY <1>0, <2>1, <2>2, <2>3, RingSteps DEF Moving, Published, TypeOK
  <2> QED BY <1>0, <2>3, <2>4, EngineStutters
<1>13. CASE UNCHANGED vars
  <2>1. /\ ok' = ok /\ mem' = mem /\ vmap' = vmap /\ req' = req /\ pc' = pc
        /\ gpu' = gpu /\ userd_put' = userd_put /\ ring' = ring
    BY <1>13 DEF vars
  <2>2. Moving' <=> Moving
    BY <2>1 DEF Moving, Published
  <2> QED BY <1>0, <2>1, <2>2, EngineStutters
<1> QED BY <1>1, <1>2, <1>3, <1>4, <1>5, <1>6, <1>7, <1>8, <1>9, <1>10, <1>11, <1>12,
           <1>13 DEF Next, HostStep, Tests, GpuStep

\* The writes of nv_gsp_gpu_copy and the GPU's steps in between add up to jobs
\* that complete after they landed, one at a time; after a timeout the job may
\* still land, and the host touches neither engine nor memory again.
THEOREM ChannelIsEngine == Spec => ImplementsEngine
<1>1. Init => Engine!Init
  <2> SUFFICES ASSUME Init PROVE Engine!Init
    OBVIOUS
  <2>1. ChannelInv
    BY InitInv DEF IndInv
  <2>2. ~Moving /\ pc # "poll"
    BY <2>1, RingSteps DEF Init, Moving, Published, ChannelInv, TypeOK
  <2>3. Job = Engine!NoJob
    BY <2>1, <2>2, JobIs
  <2> QED BY <2>1, <2>3 DEF Engine!Init, Engine!NoJob, Init, ChannelInv, TypeOK
<1> QED BY <1>1, EngineStep, Invariance, PTL DEF Spec, ImplementsEngine, Engine!Spec, Engine!vars
=============================================================================
