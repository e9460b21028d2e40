----------------------------- MODULE GpuService -----------------------------
(***************************************************************************)
(* The layer 6 service of the kext: connections (MilcorixUserClient) that  *)
(* offer buffers of VRAM to processes, and the GPU operations of           *)
(* MilcorixFB they are made of (gpuWrite, gpuRead, gpuCopy), while the     *)
(* provider may be stopped at any moment.                                  *)
(*                                                                         *)
(* External methods run on the caller's thread and are not serialised by   *)
(* IOKit: fResourceLock, one per connection, is held for a whole method;   *)
(* fGpuLock, one per provider, for one GPU operation.  A method is the     *)
(* list of GPU operations its loops perform (work); each of them takes the *)
(* lock, checks the region, aims the PRAMIN window and transfers, or sends *)
(* a copy to the GPU and polls for it.                                     *)
(*                                                                         *)
(* Allocation is the one of BufferStore, which VramPool implements; what   *)
(* nv_gsp_gpu_copy does with the channel is in GpuChannel.  Here a copy is *)
(* a job that lands when the GPU pleases, after the host's timeout too.    *)
(* The content of a page is Zero, what VRAM held before (Junk), or the     *)
(* connection that wrote it.                                               *)
(***************************************************************************)
EXTENDS Integers, Sequences, FiniteSets, FiniteSetsExt

CONSTANTS
    Threads,     \* threads of client processes
    Conns,       \* connections that may be made, one after another
    NumPages,    \* pages in the pool
    MaxXfer,     \* pages in one GPU copy
    MaxHandle,   \* bound on the handles of one connection
    Requests,    \* what clients ask for: selector and two arguments
    None         \* no thread, no owner

Pages == 0 .. NumPages - 1
Raw       == {"Write", "Read", "Copy"}
OnBuffers == {"WriteBuffer", "ReadBuffer", "CopyBuffer"}
Selectors == Raw \cup OnBuffers \cup {"Alloc", "Free"}

Ctl   == -1      \* the window on pushbuffer, ring, semaphore and USERD
Zero  == "zero"
Junk  == "junk"
Stop  == "stop"  \* the thread that stops the provider

ASSUME PageAssumption   == NumPages \in Nat \ {0} /\ MaxXfer \in Nat \ {0}
ASSUME HandleAssumption == MaxHandle \in Nat
ASSUME RequestAssumption ==
    \A r \in Requests :
        /\ r[1] \in Selectors /\ r[2] \in Nat /\ r[3] \in Nat
        /\ r[1] \in Raw => r[2] \in Pages /\ r[3] \in Pages
        /\ r[1] = "Alloc" => r[2] \in 1 .. NumPages
ASSUME NameAssumption   == /\ None \notin Threads \cup Conns \cup {Stop}
                           /\ Stop \notin Threads
                           /\ Conns \cap {Zero, Junk} = {}

VARIABLES
    ok, verified, bar0, fGpuClients, fGpuLock, provider,   \* MilcorixFB
    conn, fManaged, bufs, next_handle, fResourceLock,      \* MilcorixUserClient
    th,                                                    \* the threads
    pramin, mem, job                                       \* the card

fb   == <<ok, verified, bar0, fGpuClients, fGpuLock, provider>>
uc   == <<conn, fManaged, bufs, next_handle, fResourceLock>>
card == <<pramin, mem, job>>
vars == <<ok, verified, bar0, fGpuClients, fGpuLock, provider, conn, fManaged, bufs,
          next_handle, fResourceLock, th, pramin, mem, job>>

Idle  == [pc |-> "idle", c |-> None, sel |-> "Free", x |-> 0, y |-> 0, work |-> <<>>]
NoJob == [st |-> "none", src |-> 0, dst |-> 0, n |-> 0]

\* bring-up has left a context; its pool is verified in managed mode only.
Init ==
    /\ ok = TRUE /\ verified \in BOOLEAN /\ bar0 = TRUE
    /\ fGpuClients = 0 /\ fGpuLock = None /\ provider = "up"
    /\ conn = [c \in Conns |-> "none"]
    /\ fManaged = [c \in Conns |-> FALSE]
    /\ bufs = [c \in Conns |-> {}]
    /\ next_handle = [c \in Conns |-> 1]
    /\ fResourceLock = [c \in Conns |-> None]
    /\ th = [t \in Threads |-> Idle]
    /\ pramin = Ctl /\ mem = [p \in Pages |-> Junk] /\ job = NoJob

-----------------------------------------------------------------------------
(* The life of a connection. *)

SlotFree == fGpuClients = 0

\* start: gpuClientOpen, under fGpuLock.  When it refuses, nothing is left of
\* the connection.
OpenSlot(c) ==
    /\ conn[c] = "none" /\ fGpuLock = None
    /\ SlotFree /\ ok
    /\ fGpuClients' = 1
    /\ conn' = [conn EXCEPT ![c] = "starting"]
    /\ UNCHANGED <<ok, verified, bar0, fGpuLock, provider, fManaged, bufs, next_handle,
                   fResourceLock, th, card>>

\* gpuPoolVerified, read without the lock.
gpuPoolVerified == ok /\ verified

\* The rest of start.  nv_vram_pool_init accepts the area of a context that
\* was ok a moment ago: it is not empty and made of pages.
OpenFinish(c) ==
    /\ conn[c] = "starting"
    /\ conn' = [conn EXCEPT ![c] = "open"]
    /\ fManaged' = [fManaged EXCEPT ![c] = gpuPoolVerified]
    /\ UNCHANGED <<fb, bufs, next_handle, fResourceLock, th, card>>

\* clientClose, or termination by IOKit: the object becomes inactive.
Close(c) ==
    /\ conn[c] = "open"
    /\ conn' = [conn EXCEPT ![c] = "inactive"]
    /\ UNCHANGED <<fb, fManaged, bufs, next_handle, fResourceLock, th, card>>

\* IOKit calls free when no thread holds a reference (external).
FreeAllowed(c) == conn[c] = "inactive" /\ \A t \in Threads : th[t].c # c

\* Mutant: the slot is not given back.
gpuClientClose_Kept == UNCHANGED fGpuClients

gpuClientClose == fGpuClients' = IF fGpuClients > 0 THEN fGpuClients - 1 ELSE 0

FreeConn(c) ==
    /\ FreeAllowed(c) /\ fGpuLock = None
    /\ conn' = [conn EXCEPT ![c] = "freed"]
    /\ bufs' = [bufs EXCEPT ![c] = {}]
    /\ gpuClientClose
    /\ UNCHANGED <<ok, verified, bar0, fGpuLock, provider, fManaged, next_handle,
                   fResourceLock, th, card>>

\* MilcorixFB::stop: teardown, under fGpuLock.  The lock outlives it.
TeardownEnter ==
    /\ provider = "up" /\ fGpuLock = None
    /\ provider' = "stopping" /\ fGpuLock' = Stop
    /\ ok' = FALSE
    /\ UNCHANGED <<verified, bar0, fGpuClients, uc, th, card>>

TeardownExit ==
    /\ provider = "stopping"
    /\ provider' = "stopped" /\ fGpuLock' = None
    /\ bar0' = FALSE
    /\ UNCHANGED <<ok, verified, fGpuClients, uc, th, card>>

-----------------------------------------------------------------------------
(* GPU operations a method performs.                                       *)

wr(p, v)     == [k |-> "wr", src |-> p, dst |-> p, n |-> 1, val |-> v]
rd(p)        == [k |-> "rd", src |-> p, dst |-> p, n |-> 1, val |-> Zero]
cp(s, d, n)  == [k |-> "cp", src |-> s, dst |-> d, n |-> n, val |-> Zero]

\* A transfer goes over a buffer page by page.
Chunks(b) == [i \in 1 .. b.n |-> b.off + i - 1]

\* methodAlloc clears the first page, then lets the GPU copy what is already
\* clear over the rest: the copy that follows operation o in an area of n
\* pages, if one does.
ZeroNext(o, n) ==
    LET filled == o.dst + o.n - o.src
        chunk  == Min({n - filled, filled, MaxXfer})
    IN  IF filled < n THEN <<cp(o.src, o.src + filled, chunk)>> ELSE <<>>

PagesOf(b) == b.off .. b.off + b.n - 1

\* BufferStore: where n pages are free.  The lowest such place is taken.
FreePlaces(c, n) ==
    {o \in Pages : /\ o + n <= NumPages
                   /\ \A b \in bufs[c] : PagesOf(b) \cap (o .. o + n - 1) = {}}

\* nv_vram_resolve finds the handle among the live buffers of the connection.
HasBuffer(c, h) == \E b \in bufs[c] : b.handle = h
Buffer(c, h)    == CHOOSE b \in bufs[c] : b.handle = h

-----------------------------------------------------------------------------
(* externalMethod *)

\* The checks before the lock; x and y are pages, handles or a size.
Call(t, c, sel, x, y) ==
    /\ th[t].pc = "idle"
    /\ conn[c] = "open"
    /\ th' = [th EXCEPT ![t] = [pc |-> "lockR", c |-> c, sel |-> sel, x |-> x, y |-> y,
                                work |-> <<>>]]
    /\ UNCHANGED <<fb, uc, card>>

\* Mutant: Free does not wait for the method that is running.
ResourceLockFree_NotForFree(t) ==
    fResourceLock[th[t].c] = None \/ th[t].sel = "Free"

ResourceLockFree(t) == fResourceLock[th[t].c] = None

\* The thread gets fResourceLock and looks at the connection under it.
Entered(t) == th[t].pc = "lockR" /\ ResourceLockFree(t)

\* Mutant: the selectors of the raw area stay open in managed mode.
Refused_RawAllowed(t) == conn[th[t].c] = "inactive"

Refused(t) ==
    \/ conn[th[t].c] = "inactive"
    \/ fManaged[th[t].c] /\ th[t].sel \in Raw

\* The method unlocks and returns to the caller.
Return(t) ==
    /\ fResourceLock' = [fResourceLock EXCEPT ![th[t].c] = None]
    /\ th' = [th EXCEPT ![t] = Idle]

\* The arguments of the method do not name what it needs.
BadArgument(t) ==
    LET c == th[t].c
    IN  \/ th[t].sel \in OnBuffers \cup {"Free"} /\ ~HasBuffer(c, th[t].x)
        \/ th[t].sel = "CopyBuffer" /\ ~HasBuffer(c, th[t].y)
        \/ th[t].sel = "Alloc" /\ \/ ~gpuPoolVerified
                                  \/ FreePlaces(c, th[t].x) = {}
                                  \/ next_handle[c] > MaxHandle

Refuse(t) ==
    /\ Entered(t)
    /\ Refused(t) \/ BadArgument(t)
    /\ Return(t)
    /\ UNCHANGED <<fb, conn, fManaged, bufs, next_handle, card>>

\* The method goes on, lock held, to its first GPU operation.
Begin(t, work) ==
    /\ fResourceLock' = [fResourceLock EXCEPT ![th[t].c] = t]
    /\ th' = [th EXCEPT ![t].pc = "lockG", ![t].work = work]

\* The operations of a transfer.  A buffer is copied from its first page to
\* the last page of the other.
TransferWork(t) ==
    LET c == th[t].c
        x == th[t].x
        y == th[t].y
        pages == Chunks(Buffer(c, x))
        first(h) == Buffer(c, h).off
        last(h)  == Buffer(c, h).off + Buffer(c, h).n - 1
    IN  CASE th[t].sel = "Write"       -> <<wr(x, c)>>
          [] th[t].sel = "Read"        -> <<rd(x)>>
          [] th[t].sel = "Copy"        -> <<cp(x, y, 1)>>
          [] th[t].sel = "WriteBuffer" -> [i \in DOMAIN pages |-> wr(pages[i], c)]
          [] th[t].sel = "ReadBuffer"  -> [i \in DOMAIN pages |-> rd(pages[i])]
          [] th[t].sel = "CopyBuffer"  -> <<cp(first(x), last(y), 1)>>

\* methodWrite, methodRead and methodCopy resolve and start.
Transfer(t) ==
    /\ Entered(t) /\ th[t].sel \in Raw \cup OnBuffers
    /\ ~Refused(t) /\ ~BadArgument(t)
    /\ Begin(t, TransferWork(t))
    /\ UNCHANGED <<fb, conn, fManaged, bufs, next_handle, card>>

\* methodAlloc takes the place and starts to clear it.
Alloc(t) ==
    LET c == th[t].c
        places == FreePlaces(c, th[t].x)
    IN  /\ Entered(t) /\ th[t].sel = "Alloc"
        /\ ~Refused(t) /\ ~BadArgument(t)
        /\ \E o \in places :
             /\ \A p \in places : o <= p
             /\ bufs' = [bufs EXCEPT ![c] =
                           @ \cup {[handle |-> next_handle[c], off |-> o, n |-> th[t].x]}]
             /\ Begin(t, <<wr(o, Zero)>>)
        /\ next_handle' = [next_handle EXCEPT ![c] = @ + 1]
        /\ UNCHANGED <<fb, conn, fManaged, card>>

\* The handle an allocation in progress was given: the newest.
NewHandle(t) == next_handle[th[t].c] - 1

Release(c, h) == bufs' = [bufs EXCEPT ![c] = {b \in @ : b.handle # h}]

\* methodFree.
Free(t) ==
    /\ Entered(t) /\ th[t].sel = "Free"
    /\ ~Refused(t) /\ ~BadArgument(t)
    /\ Release(th[t].c, th[t].x)
    /\ Return(t)
    /\ UNCHANGED <<fb, conn, fManaged, next_handle, card>>

-----------------------------------------------------------------------------
(* gpuWrite, gpuRead and gpuCopy: the head of the thread's work.           *)

Op(t) == Head(th[t].work)

GpuLockFree == fGpuLock = None

\* Mutant: the region is checked without the state of the context.
gpuRegionOk_Ranges(p, n) == p + n <= NumPages

gpuRegionOk(p, n) == ok /\ p + n <= NumPages

Overlap(o) == o.src < o.dst + o.n /\ o.dst < o.src + o.n

OpAllowed(t) ==
    /\ gpuRegionOk(Op(t).src, Op(t).n) /\ gpuRegionOk(Op(t).dst, Op(t).n)
    /\ Op(t).k = "cp" => ~Overlap(Op(t))

\* The method ends because one of its operations failed; an allocation is
\* taken back.
Fail(t) ==
    /\ Return(t)
    /\ IF th[t].sel = "Alloc" THEN Release(th[t].c, NewHandle(t)) ELSE UNCHANGED bufs

\* The thread gets fGpuLock and checks under it.
CheckFails(t) ==
    /\ th[t].pc = "lockG" /\ GpuLockFree /\ ~OpAllowed(t)
    /\ Fail(t)
    /\ UNCHANGED <<fb, conn, fManaged, next_handle, card>>

\* Memory of the client or of the kernel that the next chunk needs cannot be
\* had.
HostFails(t) ==
    /\ th[t].pc = "lockG" /\ Op(t).k \in {"wr", "rd"}
    /\ Fail(t)
    /\ UNCHANGED <<fb, conn, fManaged, next_handle, card>>

LockGpu(t) ==
    /\ th[t].pc = "lockG" /\ GpuLockFree /\ OpAllowed(t)
    /\ fGpuLock' = t
    /\ th' = [th EXCEPT ![t].pc = "aim"]
    /\ UNCHANGED <<ok, verified, bar0, fGpuClients, provider, uc, card>>

\* The page the operation reaches through the window.
Wanted(t) == IF Op(t).k = "cp" THEN Ctl ELSE Op(t).dst

\* pramin_aim: the cache of the window starts empty in every operation.
Aim(t) ==
    /\ th[t].pc = "aim"
    /\ pramin' = Wanted(t)
    /\ th' = [th EXCEPT ![t].pc = IF Op(t).k = "cp" THEN "submit" ELSE "access"]
    /\ UNCHANGED <<fb, uc, mem, job>>

\* What follows the operation at the head of the thread's work.
WorkLeft(t) == IF th[t].sel = "Alloc" THEN ZeroNext(Op(t), th[t].x) ELSE Tail(th[t].work)

\* The operation is done: the lock is released; then the next one.
OpDone(t) ==
    /\ fGpuLock' = None
    /\ th' = [th EXCEPT ![t].work = WorkLeft(t),
                        ![t].pc = IF WorkLeft(t) = <<>> THEN "done" ELSE "lockG"]

\* The transfer through the window, wherever that is.
Access(t) ==
    /\ th[t].pc = "access"
    /\ mem' = IF Op(t).k = "wr" /\ pramin \in Pages
                THEN [mem EXCEPT ![pramin] = Op(t).val] ELSE mem
    /\ OpDone(t)
    /\ UNCHANGED <<ok, verified, bar0, fGpuClients, provider, uc, pramin, job>>

\* nv_gsp_gpu_copy: pushbuffer, ring and doorbell.
Submit(t) ==
    /\ th[t].pc = "submit"
    /\ job' = [st |-> "pending", src |-> Op(t).src, dst |-> Op(t).dst, n |-> Op(t).n]
    /\ th' = [th EXCEPT ![t].pc = "poll"]
    /\ UNCHANGED <<fb, uc, pramin, mem>>

PollDone(t) ==
    /\ th[t].pc = "poll" /\ job.st = "done"
    /\ job' = NoJob
    /\ OpDone(t)
    /\ UNCHANGED <<ok, verified, bar0, fGpuClients, provider, uc, pramin, mem>>

\* Mutant: the context stays usable after a timeout.
AfterTimeout_Kept == UNCHANGED ok

AfterTimeout == ok' = FALSE

\* Mutant: the poll has no bound.
PollTimeout_Never(t) == FALSE /\ UNCHANGED vars

PollTimeout(t) ==
    /\ th[t].pc = "poll" /\ job.st = "pending"
    /\ AfterTimeout
    /\ fGpuLock' = None
    /\ Fail(t)
    /\ UNCHANGED <<verified, bar0, fGpuClients, provider, conn, fManaged, next_handle,
                   card>>

\* All operations succeeded.
Done(t) ==
    /\ th[t].pc = "done"
    /\ fManaged' = IF th[t].sel = "Alloc" THEN [fManaged EXCEPT ![th[t].c] = TRUE]
                                          ELSE fManaged
    /\ Return(t)
    /\ UNCHANGED <<fb, conn, bufs, next_handle, card>>

-----------------------------------------------------------------------------
\* The GPU (external): it gets to the copy at some time.
Land ==
    /\ job.st = "pending"
    /\ mem' = [p \in Pages |-> IF p \in job.dst .. job.dst + job.n - 1
                                 THEN mem[job.src + (p - job.dst)] ELSE mem[p]]
    /\ job' = [job EXCEPT !.st = "done"]
    /\ UNCHANGED <<fb, uc, th, pramin>>

MethodStep(t) ==
    \/ Refuse(t) \/ Transfer(t) \/ Alloc(t) \/ Free(t)
    \/ HostFails(t) \/ LockGpu(t) \/ CheckFails(t) \/ Aim(t) \/ Access(t) \/ Submit(t)
    \/ PollDone(t) \/ PollTimeout(t) \/ Done(t)

Next ==
    \/ \E c \in Conns : OpenSlot(c) \/ OpenFinish(c) \/ Close(c) \/ FreeConn(c)
    \/ TeardownEnter \/ TeardownExit
    \/ \E t \in Threads, c \in Conns, r \in Requests : Call(t, c, r[1], r[2], r[3])
    \/ \E t \in Threads : MethodStep(t)
    \/ Land

\* The kernel schedules threads that can run, and IOKit frees an object whose
\* last reference is gone.  Nothing is assumed of clients or of the GPU.
Fairness ==
    /\ \A t \in Threads : WF_vars(MethodStep(t))
    /\ \A c \in Conns : WF_vars(OpenFinish(c)) /\ WF_vars(FreeConn(c))
    /\ WF_vars(TeardownExit)

Spec == Init /\ [][Next]_vars /\ Fairness

-----------------------------------------------------------------------------
(* Properties *)

\* Where a thread is touching the card.
OnCard == {"aim", "access", "submit", "poll"}

\* No thread reaches for a register once teardown has unmapped BAR0.
MmioWhileMapped == \A t \in Threads : th[t].pc \in OnCard => bar0

\* The pages an operation reads or writes.
Touched(o) == (o.src .. o.src + o.n - 1) \cup (o.dst .. o.dst + o.n - 1)

\* A page that a method of the buffer interface is about to touch belongs to
\* a live buffer of its connection: no Free gets in between.
WorkInLiveBuffers ==
    \A t \in Threads : th[t].sel \in OnBuffers \cup {"Alloc"} =>
        \A i \in 1 .. Len(th[t].work) :
            \A p \in Touched(th[t].work[i]) :
                \E b \in bufs[th[t].c] : p \in PagesOf(b)

\* What a managed connection reads is zero or its own: never what another
\* connection left in VRAM, nor what was there before.  A handle is returned
\* only when every page behind it is clear.
NoForeignData ==
    \A t \in Threads :
        /\ th[t].pc = "access" /\ Op(t).k = "rd" /\ fManaged[th[t].c]
            => pramin \in Pages /\ mem[pramin] \in {Zero, th[t].c}
        /\ th[t].pc = "done" /\ th[t].sel = "Alloc" =>
            \A p \in PagesOf(Buffer(th[t].c, NewHandle(t))) : mem[p] = Zero

\* Every method that got its lock gives it back, whatever the GPU does and
\* even when the provider is stopped under it.
LockGivenBack ==
    \A t \in Threads, c \in Conns : fResourceLock[c] = t ~> fResourceLock[c] # t

\* A closed connection makes room for the next one.
SlotGivenBack == \A c \in Conns : conn[c] = "inactive" ~> conn[c] = "freed" /\ fGpuClients = 0

-----------------------------------------------------------------------------
(* Use of CopyEngine: a job that nobody polls for any more counts as gone   *)
(* once it has landed.                                                      *)

Job == IF job.st = "done" /\ \A t \in Threads : th[t].pc # "poll" THEN NoJob ELSE job

Engine == INSTANCE CopyEngine WITH Cells <- Pages, Data <- Conns \cup {Zero, Junk},
                                   job <- Job

\* Taken together, the threads use the engine as it wants to be used: one job
\* at a time, no transfer while a job is under way, nothing after it is lost.
UsesEngine == Engine!Spec
=============================================================================
