-------------------------- MODULE GpuServiceProofs --------------------------
(***************************************************************************)
(* Proofs about GpuService, for any number of threads, connections, pages  *)
(* and handles, and any size of transfer.                                  *)
(*                                                                         *)
(* The argument: the provider has one slot for a connection, so only one   *)
(* connection is alive; its lock lets one thread into a method; and the    *)
(* lock of the GPU is held by that thread, or by teardown, while the card  *)
(* is touched.  What is left is sequential: what a clearing has cleared,   *)
(* and what the buffers hold while the context is usable.                  *)
(***************************************************************************)
EXTENDS GpuService, SequenceTheorems, TLAPS

Operation == [k : {"wr", "rd", "cp"}, src : Nat, dst : Nat, n : Nat \ {0}, val : Conns \cup {Zero}]
Buf == [handle : Nat, off : Nat, n : Nat]
Inside == OnCard \cup {"lockG", "done"}
Thread == [pc : Inside \cup {"idle", "lockR"}, c : Conns \cup {None}, sel : Selectors,
           x : Nat, y : Nat, work : Seq(Operation)]
JobType == [st : {"none", "pending", "done"}, src : Nat, dst : Nat, n : Nat]

TypeOK ==
    /\ ok \in BOOLEAN /\ verified \in BOOLEAN /\ bar0 \in BOOLEAN
    /\ fGpuClients \in Nat /\ fGpuLock \in Threads \cup {Stop, None}
    /\ provider \in {"up", "stopping", "stopped"}
    /\ conn \in [Conns -> {"none", "starting", "open", "inactive", "freed"}]
    /\ fManaged \in [Conns -> BOOLEAN]
    /\ bufs \in [Conns -> SUBSET Buf] /\ next_handle \in [Conns -> Nat]
    /\ fResourceLock \in [Conns -> Threads \cup {None}]
    /\ th \in [Threads -> Thread]
    /\ pramin \in Pages \cup {Ctl} /\ mem \in [Pages -> Conns \cup {Zero, Junk}]
    /\ job \in JobType

-----------------------------------------------------------------------------
(* One connection, one method, one operation on the card. *)

Alive(c) == conn[c] \in {"starting", "open", "inactive"}

OneConnection ==
    /\ \A c, d \in Conns : Alive(c) /\ Alive(d) => c = d
    /\ SlotFree => \A c \in Conns : ~Alive(c)

InMethod(t) == th[t].pc \in Inside

CallsAlive ==
    \A t \in Threads :
        /\ th[t].pc = "idle" => th[t] = Idle
        /\ th[t].pc # "idle" => th[t].c \in Conns /\ conn[th[t].c] \in {"open", "inactive"}
        /\ InMethod(t) => fResourceLock[th[t].c] = t

CardGuarded ==
    /\ \A t \in Threads : th[t].pc \in OnCard => fGpuLock = t /\ ok
    /\ provider = "stopping" => fGpuLock = Stop
    /\ ok => provider = "up"
    /\ provider # "stopped" => bar0

LockInv == TypeOK /\ OneConnection /\ CallsAlive /\ CardGuarded

-----------------------------------------------------------------------------
(* What is left to do, and on which buffers. *)

BuffersNamed ==
    \A c \in Conns : \A b \in bufs[c] :
        /\ b.handle < next_handle[c]
        /\ b.n > 0 /\ b.off + b.n <= NumPages
        /\ \A d \in bufs[c] : d.handle = b.handle => d = b

\* Buffers belong to managed connections, and a connection is managed from
\* its start or the pool is never usable again.
BuffersManaged ==
    \A c \in Conns :
        /\ bufs[c] # {} => conn[c] \in {"open", "inactive"} /\ fManaged[c]
        /\ conn[c] \in {"open", "inactive"} /\ ~fManaged[c] => ~(ok /\ verified)

InBuffers(c, p) == \E b \in bufs[c] : p \in PagesOf(b)

TransferOp(c, o) == /\ o.n = 1 /\ (o.k = "wr" => o.val = c)
                    /\ InBuffers(c, o.src) /\ InBuffers(c, o.dst)

\* The next operation of a clearing: what is below its target is clear.
ClearOp(b, o) == /\ o.k \in {"wr", "cp"} /\ o.src = b.off /\ o.src <= o.dst
                 /\ o.n > 0 /\ o.dst + o.n <= b.off + b.n
                 /\ o.k = "wr" => o.dst = o.src /\ o.n = 1 /\ o.val = Zero
                 /\ o.k = "cp" => o.n <= o.dst - o.src

WorkOf(t) ==
    /\ th[t].work = <<>> <=> th[t].pc \in {"idle", "lockR", "done"}
    /\ th[t].sel \in Raw => th[t].x \in Pages /\ th[t].y \in Pages
    /\ th[t].sel = "Alloc" => th[t].x \in 1 .. NumPages
    /\ InMethod(t) =>
         /\ th[t].sel # "Free"
         /\ th[t].sel \in Raw => ~fManaged[th[t].c]
         /\ th[t].sel \in OnBuffers =>
              \A i \in 1 .. Len(th[t].work) : TransferOp(th[t].c, th[t].work[i])
         /\ th[t].sel = "Alloc" =>
              \E b \in bufs[th[t].c] :
                  /\ b.handle = NewHandle(t) /\ b.n = th[t].x
                  /\ th[t].pc # "done" => Len(th[t].work) = 1 /\ ClearOp(b, th[t].work[1])
WorkKnown == \A t \in Threads : WorkOf(t)

\* The operation on the card is inside the pool, the window is where it was
\* aimed, and the job is the one that is polled for.
CardOf(t) ==
    /\ th[t].pc \in OnCard => /\ Op(t).src + Op(t).n <= NumPages
                              /\ Op(t).dst + Op(t).n <= NumPages
                              /\ Op(t).k = "cp" => ~Overlap(Op(t))
    /\ th[t].pc = "access" => pramin = Op(t).dst /\ Op(t).k # "cp"
    /\ th[t].pc \in {"submit", "poll"} => Op(t).k = "cp"
    /\ th[t].pc = "poll" => /\ job.st \in {"pending", "done"}
                            /\ job.src = Op(t).src /\ job.dst = Op(t).dst
                            /\ job.n = Op(t).n
JobInv ==
    /\ job.st = "pending" => /\ job.src + job.n <= NumPages
                             /\ job.dst + job.n <= NumPages
                             /\ ok => \E t \in Threads : th[t].pc = "poll"
                             /\ \A t \in Threads : th[t].pc # "done"
    /\ job.st = "none" => job = NoJob
CardInv == (\A t \in Threads : CardOf(t)) /\ JobInv

WorkInv == BuffersNamed /\ BuffersManaged /\ WorkKnown /\ CardInv

-----------------------------------------------------------------------------
(* What the pages hold. *)

\* t is clearing the buffer.
Clears(t, c, b) == /\ InMethod(t) /\ th[t].pc # "done" /\ th[t].sel = "Alloc"
                   /\ th[t].c = c /\ b.handle = NewHandle(t)

OwnData ==
    ok => \A c \in Conns : \A b \in bufs[c] :
            (\A t \in Threads : ~Clears(t, c, b)) =>
                \A p \in PagesOf(b) : mem[p] \in {Zero, c}

ClearedSoFar ==
    ok => \A t \in Threads : InMethod(t) /\ th[t].pc # "done" /\ th[t].sel = "Alloc" =>
            /\ \A p \in Op(t).src .. Op(t).dst - 1 : mem[p] = Zero
            /\ th[t].pc = "poll" /\ job.st = "done" =>
                 \A p \in Op(t).dst .. Op(t).dst + Op(t).n - 1 : mem[p] = Zero

HandedOutClear ==
    \A t \in Threads : th[t].pc = "done" /\ th[t].sel = "Alloc" =>
        \A b \in bufs[th[t].c] : b.handle = NewHandle(t) =>
            \A p \in PagesOf(b) : mem[p] = Zero

DataInv == OwnData /\ ClearedSoFar /\ HandedOutClear

IndInv == LockInv /\ WorkInv /\ DataInv

-----------------------------------------------------------------------------
(* Operators of the model. *)

LEMMA MinOfThree ==
    ASSUME NEW a \in Nat, NEW b \in Nat, NEW c \in Nat
    PROVE  Min({a, b, c}) \in {a, b, c} /\ Min({a, b, c}) <= a /\ Min({a, b, c}) <= b
           /\ Min({a, b, c}) <= c
<1>1. \E x \in {a, b, c} : \A y \in {a, b, c} : x =< y
  <2>1. CASE a <= b /\ a <= c
    BY <2>1
  <2>2. CASE b <= a /\ b <= c
    BY <2>2
  <2>3. CASE c <= a /\ c <= b
    BY <2>3
  <2> QED BY <2>1, <2>2, <2>3
<1> QED BY <1>1 DEF Min

\* A clearing goes on where it is, or has reached the end of the buffer.
LEMMA ClearNext ==
    ASSUME NEW b \in Buf, NEW o \in Operation, ClearOp(b, o)
    PROVE  \/ ZeroNext(o, b.n) = <<>> /\ o.dst + o.n = b.off + b.n
           \/ \E q \in Operation : /\ ZeroNext(o, b.n) = <<q>> /\ ClearOp(b, q)
                                   /\ q.src = o.src /\ q.dst = o.dst + o.n
<1> DEFINE filled == o.dst + o.n - o.src
           chunk  == Min({b.n - filled, filled, MaxXfer})
           q      == cp(o.src, o.src + filled, chunk)
<1>1. /\ o.src \in Nat /\ o.dst \in Nat /\ o.n \in Nat /\ b.off \in Nat /\ b.n \in Nat
      /\ o.src = b.off /\ o.src <= o.dst /\ o.n > 0 /\ o.dst + o.n <= b.off + b.n
      /\ MaxXfer \in Nat /\ MaxXfer > 0
  BY PageAssumption DEF Operation, Buf, ClearOp
<1>2. filled \in Nat /\ filled > 0 /\ filled <= b.n /\ o.src + filled = o.dst + o.n
  BY <1>1
<1>3. CASE filled = b.n
  <2>1. ZeroNext(o, b.n) = <<>>
    BY <1>2, <1>3 DEF ZeroNext
  <2> QED BY <1>1, <1>2, <1>3, <2>1
<1>4. CASE filled < b.n
  <2>1. b.n - filled \in Nat /\ b.n - filled > 0
    BY <1>1, <1>2, <1>4
  <2>2. ZeroNext(o, b.n) = <<q>>
    BY <1>4 DEF ZeroNext
  <2> HIDE DEF filled
  <2>3. chunk \in Nat /\ chunk > 0 /\ chunk <= filled /\ chunk <= b.n - filled
    BY <1>1, <1>2, <2>1, MinOfThree
  <2> HIDE DEF chunk
  <2>4. q \in Operation
    BY <1>1, <1>2, <2>3 DEF Operation, cp
  <2>5. /\ q.k = "cp" /\ q.src = o.src /\ q.dst = o.src + filled /\ q.n = chunk
    BY DEF cp
  <2> HIDE DEF q
  <2>6. ClearOp(b, q)
    BY <1>1, <1>2, <2>1, <2>3, <2>5 DEF ClearOp
  <2> QED BY <1>2, <2>2, <2>4, <2>5, <2>6
<1> QED BY <1>2, <1>3, <1>4, <1>1

\* A handle that is found names a buffer of the connection.
LEMMA BufferFound ==
    ASSUME NEW c \in Conns, NEW h, HasBuffer(c, h)
    PROVE  Buffer(c, h) \in bufs[c] /\ Buffer(c, h).handle = h
BY DEF HasBuffer, Buffer

\* The work of a transfer is not empty and stays inside the buffers.
LEMMA TransferWorkOk ==
    ASSUME TypeOK, BuffersNamed, NEW t \in Threads, th[t].c \in Conns,
           th[t].sel \in Raw \cup OnBuffers, ~BadArgument(t)
    PROVE  /\ TransferWork(t) \in Seq(Operation) /\ TransferWork(t) # <<>>
           /\ th[t].sel \in OnBuffers =>
                \A i \in 1 .. Len(TransferWork(t)) : TransferOp(th[t].c, TransferWork(t)[i])
<1> DEFINE c == th[t].c
           x == th[t].x
           y == th[t].y
           b == Buffer(c, x)
           d == Buffer(c, y)
           w == TransferWork(t)
<1>0. c \in Conns /\ x \in Nat /\ y \in Nat
  BY DEF TypeOK, Thread
<1>1. CASE th[t].sel = "Write"
  <2>1. w = <<wr(x, c)>>
    BY <1>1 DEF TransferWork
  <2>2. wr(x, c) \in Operation
    BY <1>0 DEF wr, Operation
  <2> QED BY <1>1, <2>1, <2>2 DEF OnBuffers
<1>2. CASE th[t].sel = "Read"
  <2>1. w = <<rd(x)>>
    BY <1>2 DEF TransferWork
  <2>2. rd(x) \in Operation
    BY <1>0 DEF rd, Operation
  <2> QED BY <1>2, <2>1, <2>2 DEF OnBuffers
<1>3. CASE th[t].sel = "Copy"
  <2>1. w = <<cp(x, y, 1)>>
    BY <1>3 DEF TransferWork
  <2>2. cp(x, y, 1) \in Operation
    BY <1>0 DEF cp, Operation
  <2> QED BY <1>3, <2>1, <2>2 DEF OnBuffers
<1>4. CASE th[t].sel \in OnBuffers
  <2>1. b \in bufs[c] /\ b \in Buf /\ b.n > 0 /\ b.off \in Nat /\ b.n \in Nat
    BY <1>0, <1>4, BufferFound DEF BadArgument, TypeOK, BuffersNamed, Buf
  <2>2. \A p \in b.off .. b.off + b.n - 1 : InBuffers(c, p) /\ p \in Nat
    BY <2>1 DEF InBuffers, PagesOf
  <2>3. DOMAIN Chunks(b) = 1 .. b.n
    BY DEF Chunks
  <2>4. \A i \in 1 .. b.n : Chunks(b)[i] \in b.off .. b.off + b.n - 1
    BY <2>1 DEF Chunks
  <2>5. CASE th[t].sel = "WriteBuffer"
    <3>1. w = [i \in 1 .. b.n |-> wr(Chunks(b)[i], c)]
      BY <2>3, <2>5 DEF TransferWork
    <3>2. \A p \in b.off .. b.off + b.n - 1 : wr(p, c) \in Operation /\ TransferOp(c, wr(p, c))
      BY <1>0, <2>2 DEF wr, Operation, TransferOp
    <3>3. w \in [1 .. b.n -> Operation]
      BY <2>4, <3>1, <3>2
    <3>4. w \in Seq(Operation) /\ Len(w) = b.n
      BY <2>1, <3>3, SeqDef
    <3> QED BY <2>1, <2>4, <3>1, <3>2, <3>4
  <2>6. CASE th[t].sel = "ReadBuffer"
    <3>1. w = [i \in 1 .. b.n |-> rd(Chunks(b)[i])]
      BY <2>3, <2>6 DEF TransferWork
    <3>2. \A p \in b.off .. b.off + b.n - 1 : rd(p) \in Operation /\ TransferOp(c, rd(p))
      BY <1>0, <2>2 DEF rd, Operation, TransferOp
    <3>3. w \in [1 .. b.n -> Operation]
      BY <2>4, <3>1, <3>2
    <3>4. w \in Seq(Operation) /\ Len(w) = b.n
      BY <2>1, <3>3, SeqDef
    <3> QED BY <2>1, <2>4, <3>1, <3>2, <3>4
  <2>7. CASE th[t].sel = "CopyBuffer"
    <3>1. d \in bufs[c] /\ d \in Buf /\ d.n > 0 /\ d.off \in Nat /\ d.n \in Nat
      BY <1>0, <2>7, BufferFound DEF BadArgument, TypeOK, BuffersNamed, Buf
    <3>2. w = <<cp(b.off, d.off + d.n - 1, 1)>>
      BY <2>7 DEF TransferWork
    <3>3. b.off \in PagesOf(b) /\ d.off + d.n - 1 \in PagesOf(d) /\ d.off + d.n - 1 \in Nat
      BY <2>1, <3>1 DEF PagesOf
    <3> DEFINE o == cp(b.off, d.off + d.n - 1, 1)
    <3>4. o \in Operation
      BY <2>1, <3>3 DEF cp, Operation
    <3>5. TransferOp(c, o)
      BY <2>1, <3>1, <3>3 DEF cp, TransferOp, InBuffers
    <3> HIDE DEF o
    <3> QED BY <3>2, <3>4, <3>5 DEF o
  <2> QED BY <1>4, <2>5, <2>6, <2>7 DEF OnBuffers
<1> QED BY <1>1, <1>2, <1>3, <1>4 DEF Raw

-----------------------------------------------------------------------------
(* Steps of a thread. *)

LEMMA NewPc ==
    ASSUME TypeOK, NEW t \in Threads, NEW p \in Inside, th' = [th EXCEPT ![t].pc = p]
    PROVE  /\ th' \in [Threads -> Thread]
           /\ th'[t].pc = p /\ th'[t].c = th[t].c /\ th'[t].sel = th[t].sel
           /\ th'[t].x = th[t].x /\ th'[t].y = th[t].y /\ th'[t].work = th[t].work
           /\ \A u \in Threads : u # t => th'[u] = th[u]
<1>1. th \in [Threads -> Thread] /\ th[t] \in Thread
  BY DEF TypeOK
<1>2. th'[t] = [th[t] EXCEPT !.pc = p] /\ \A u \in Threads : u # t => th'[u] = th[u]
  BY <1>1
<1>3. /\ th'[t].pc = p /\ th'[t].c = th[t].c /\ th'[t].sel = th[t].sel
      /\ th'[t].x = th[t].x /\ th'[t].y = th[t].y /\ th'[t].work = th[t].work
      /\ th'[t] \in Thread
  BY <1>1, <1>2 DEF Thread
<1>4. th' = [u \in Threads |-> IF u = t THEN th'[t] ELSE th[u]]
  BY <1>1
<1> QED BY <1>1, <1>2, <1>3, <1>4

LEMMA NewWork ==
    ASSUME TypeOK, NEW t \in Threads, NEW p \in Inside, NEW w \in Seq(Operation),
           \/ th' = [th EXCEPT ![t].pc = p, ![t].work = w]
           \/ th' = [th EXCEPT ![t].work = w, ![t].pc = p]
    PROVE  /\ th' \in [Threads -> Thread]
           /\ th'[t].pc = p /\ th'[t].c = th[t].c /\ th'[t].sel = th[t].sel
           /\ th'[t].x = th[t].x /\ th'[t].y = th[t].y /\ th'[t].work = w
           /\ \A u \in Threads : u # t => th'[u] = th[u]
<1>1. th \in [Threads -> Thread] /\ th[t] \in Thread
  BY DEF TypeOK
<1>2. /\ \/ th'[t] = [[th[t] EXCEPT !.pc = p] EXCEPT !.work = w]
         \/ th'[t] = [[th[t] EXCEPT !.work = w] EXCEPT !.pc = p]
      /\ \A u \in Threads : u # t => th'[u] = th[u]
  BY <1>1
<1>3. /\ th'[t].pc = p /\ th'[t].c = th[t].c /\ th'[t].sel = th[t].sel
      /\ th'[t].x = th[t].x /\ th'[t].y = th[t].y /\ th'[t].work = w
      /\ th'[t] \in Thread
  BY <1>1, <1>2 DEF Thread
<1>4. th' = [u \in Threads |-> IF u = t THEN th'[t] ELSE th[u]]
  BY <1>1
<1> QED BY <1>1, <1>2, <1>3, <1>4

LEMMA IdleThread == Idle \in Thread /\ Idle.pc = "idle" /\ Idle.work = <<>> /\ Idle.sel = "Free"
BY DEF Idle, Thread, Inside, OnCard, Selectors

LEMMA Returns ==
    ASSUME TypeOK, NEW t \in Threads, th[t].c \in Conns, Return(t)
    PROVE  /\ th' \in [Threads -> Thread] /\ th'[t] = Idle /\ th'[t].pc = "idle"
           /\ \A u \in Threads : u # t => th'[u] = th[u]
           /\ fResourceLock' \in [Conns -> Threads \cup {None}]
           /\ fResourceLock'[th[t].c] = None
           /\ \A c \in Conns : c # th[t].c => fResourceLock'[c] = fResourceLock[c]
<1>1. th \in [Threads -> Thread] /\ fResourceLock \in [Conns -> Threads \cup {None}]
  BY DEF TypeOK
<1> QED BY <1>1, IdleThread DEF Return

\* Only one thread is inside a method.
LEMMA OneMethod ==
    ASSUME LockInv, NEW t \in Threads, NEW u \in Threads, InMethod(t), InMethod(u)
    PROVE  t = u
<1>1. th[t].pc # "idle" /\ th[u].pc # "idle"
  BY DEF InMethod, Inside, OnCard
<1>2. th[t].c = th[u].c
  BY <1>1 DEF LockInv, CallsAlive, OneConnection, Alive
<1> QED BY <1>2 DEF LockInv, CallsAlive

\* A thread that gets the lock of its connection finds nobody inside.
LEMMA EnteredAlone ==
    ASSUME LockInv, NEW t \in Threads, Entered(t), NEW u \in Threads, InMethod(u)
    PROVE  FALSE
<1>1. th[t].pc # "idle" /\ th[u].pc # "idle"
  BY DEF InMethod, Inside, OnCard, Entered
<1>2. th[t].c = th[u].c
  BY <1>1 DEF LockInv, CallsAlive, OneConnection, Alive
<1> QED BY <1>2, NameAssumption DEF LockInv, CallsAlive, Entered, ResourceLockFree

\* What the rest of a method's work may be.
LEMMA WorkLeftOk ==
    ASSUME LockInv, WorkInv, NEW t \in Threads, th[t].pc \in OnCard
    PROVE  /\ th[t].work \in Seq(Operation) /\ th[t].work # <<>> /\ Op(t) \in Operation
           /\ WorkLeft(t) \in Seq(Operation)
<1>1. InMethod(t) /\ th[t].work \in Seq(Operation) /\ th[t].work # <<>> /\ th[t].c \in Conns
  BY DEF InMethod, Inside, OnCard, LockInv, TypeOK, Thread, WorkInv, WorkKnown, WorkOf, CallsAlive
<1>2. Op(t) \in Operation /\ Tail(th[t].work) \in Seq(Operation)
  BY <1>1, HeadTailProperties DEF Op
<1>3. CASE th[t].sel = "Alloc"
  <2>1. PICK b \in bufs[th[t].c] : b.n = th[t].x /\ ClearOp(b, th[t].work[1])
    BY <1>1, <1>3 DEF WorkInv, WorkKnown, WorkOf, OnCard
  <2>2. th[t].work[1] = Op(t) /\ b \in Buf
    BY <1>1 DEF Op, LockInv, TypeOK
  <2>3. ClearOp(b, Op(t))
    BY <2>1, <2>2
  <2>4. ZeroNext(Op(t), b.n) \in Seq(Operation)
    <3>1. CASE ZeroNext(Op(t), b.n) = <<>>
      BY <3>1
    <3>2. CASE \E q \in Operation : ZeroNext(Op(t), b.n) = <<q>>
      BY <3>2
    <3> QED BY <1>2, <2>2, <2>3, <3>1, <3>2, ClearNext
  <2> QED BY <1>1, <1>2, <1>3, <2>1, <2>4 DEF WorkLeft
<1>4. CASE th[t].sel # "Alloc"
  BY <1>1, <1>2, <1>4 DEF WorkLeft
<1> QED BY <1>3, <1>4

-----------------------------------------------------------------------------
(* The locks. *)

LEMMA Alone ==
    ASSUME LockInv, NEW t \in Threads, Entered(t) \/ InMethod(t)
    PROVE  /\ \A u \in Threads : u # t => ~InMethod(u)
           /\ th[t].pc # "idle" /\ th[t].c \in Conns
<1>1. th[t].pc # "idle"
  BY DEF InMethod, Inside, OnCard, Entered
<1> QED BY <1>1, OneMethod, EnteredAlone DEF LockInv, CallsAlive

\* What every step of a method does with the locks.
LEMMA MethodLocks ==
    ASSUME LockInv, TypeOK', NEW t \in Threads, Entered(t) \/ InMethod(t),
           conn' = conn, provider' = provider, bar0' = bar0, fGpuClients' = fGpuClients,
           ok' => ok, fGpuLock' = fGpuLock \/ provider # "stopping",
           \A u \in Threads : u # t => th'[u] = th[u],
           \/ th'[t] = Idle
           \/ th'[t].pc \in Inside /\ th'[t].c = th[t].c /\ fResourceLock'[th[t].c] = t,
           th'[t].pc \in OnCard => fGpuLock' = t /\ ok'
    PROVE  LockInv'
<1>1. /\ \A u \in Threads : u # t => ~InMethod(u)
      /\ th[t].pc # "idle" /\ th[t].c \in Conns /\ conn[th[t].c] \in {"open", "inactive"}
  BY Alone DEF LockInv, CallsAlive
<1>2. OneConnection'
  BY DEF LockInv, OneConnection, Alive, SlotFree
<1>3. CallsAlive'
  <2> SUFFICES ASSUME NEW u \in Threads
               PROVE  /\ th'[u].pc = "idle" => th'[u] = Idle
                      /\ th'[u].pc # "idle" => /\ th'[u].c \in Conns
                                               /\ conn'[th'[u].c] \in {"open", "inactive"}
                      /\ InMethod(u)' => fResourceLock'[th'[u].c] = u
    BY DEF CallsAlive
  <2>1. CASE u # t
    BY <1>1, <2>1 DEF LockInv, CallsAlive, InMethod
  <2>2. CASE u = t
    BY <1>1, <2>2, IdleThread DEF InMethod, Inside, OnCard
  <2> QED BY <2>1, <2>2
<1>4. CardGuarded'
  <2>1. ASSUME NEW u \in Threads, th'[u].pc \in OnCard
        PROVE  fGpuLock' = u /\ ok'
    BY <1>1, <2>1 DEF InMethod, Inside
  <2> QED BY <2>1 DEF LockInv, CardGuarded
<1> QED BY <1>2, <1>3, <1>4 DEF LockInv

LEMMA PcsInside == OnCard \subseteq Inside /\ {"lockG", "done", "aim", "access", "submit", "poll"} \subseteq Inside
BY DEF OnCard, Inside

\* The GPU lock is held by the thread that is on the card: not by teardown.
LEMMA NotStopping ==
    ASSUME LockInv, NEW t \in Threads, th[t].pc \in OnCard
    PROVE  fGpuLock = t /\ ok /\ provider # "stopping"
BY NameAssumption DEF LockInv, CardGuarded

LEMMA ReleaseType ==
    ASSUME TypeOK, NEW c \in Conns, NEW h, Release(c, h)
    PROVE  /\ bufs' \in [Conns -> SUBSET Buf]
           /\ bufs'[c] = {b \in bufs[c] : b.handle # h}
           /\ \A d \in Conns : d # c => bufs'[d] = bufs[d]
<1>1. bufs \in [Conns -> SUBSET Buf]
  BY DEF TypeOK
<1> QED BY <1>1 DEF Release

\* Methods that return.
LEMMA ReturnLocks ==
    ASSUME LockInv, NEW t \in Threads, Entered(t) \/ InMethod(t), Return(t),
           conn' = conn, provider' = provider, bar0' = bar0, fGpuClients' = fGpuClients,
           verified' = verified, next_handle' = next_handle, UNCHANGED card,
           ok' \in BOOLEAN, ok' => ok, fManaged' \in [Conns -> BOOLEAN],
           fGpuLock' = fGpuLock \/ (provider # "stopping" /\ fGpuLock' = None),
           bufs' \in [Conns -> SUBSET Buf]
    PROVE  LockInv'
<1>1. TypeOK /\ th[t].c \in Conns
  BY Alone DEF LockInv
<1>2. /\ th' \in [Threads -> Thread] /\ th'[t] = Idle /\ th'[t].pc = "idle"
      /\ \A u \in Threads : u # t => th'[u] = th[u]
      /\ fResourceLock' \in [Conns -> Threads \cup {None}]
  BY <1>1, Returns
<1>3. TypeOK'
  BY <1>1, <1>2 DEF TypeOK, card
<1> QED BY <1>2, <1>3, MethodLocks DEF OnCard

\* Steps of a method that change the thread's program counter only.
LEMMA PcLocks ==
    ASSUME LockInv, NEW t \in Threads, InMethod(t), NEW p \in Inside,
           th' = [th EXCEPT ![t].pc = p], UNCHANGED uc, mem' = mem,
           UNCHANGED <<ok, verified, bar0, fGpuClients, provider>>,
           pramin' \in Pages \cup {Ctl}, job' \in JobType,
           \/ fGpuLock' = fGpuLock /\ th[t].pc \in OnCard
           \/ fGpuLock = None /\ fGpuLock' = t /\ ok
    PROVE  LockInv'
<1>1. TypeOK /\ th[t].c \in Conns /\ fResourceLock[th[t].c] = t
  BY Alone DEF LockInv, CallsAlive
<1>2. /\ th' \in [Threads -> Thread]
      /\ th'[t].pc = p /\ th'[t].c = th[t].c /\ \A u \in Threads : u # t => th'[u] = th[u]
  BY <1>1, NewPc
<1>3. TypeOK'
  BY <1>1, <1>2 DEF TypeOK, uc
<1>4. fGpuLock' = t /\ ok' /\ provider # "stopping"
  BY NotStopping, NameAssumption DEF LockInv, CardGuarded
<1> QED BY <1>1, <1>2, <1>3, <1>4, MethodLocks DEF uc

\* Steps that end an operation.
LEMMA OpDoneLocks ==
    ASSUME LockInv, WorkInv, NEW t \in Threads, th[t].pc \in OnCard, OpDone(t), UNCHANGED uc,
           UNCHANGED <<ok, verified, bar0, fGpuClients, provider, pramin>>,
           mem' \in [Pages -> Conns \cup {Zero, Junk}], job' \in JobType
    PROVE  LockInv'
<1>1. TypeOK /\ InMethod(t) /\ th[t].c \in Conns /\ fResourceLock[th[t].c] = t
  BY Alone DEF LockInv, CallsAlive, InMethod, Inside
<1>2. WorkLeft(t) \in Seq(Operation)
  BY WorkLeftOk
<1> DEFINE p == IF WorkLeft(t) = <<>> THEN "done" ELSE "lockG"
<1>3. p \in Inside /\ p \notin OnCard
  BY DEF Inside, OnCard
<1>4. th' = [th EXCEPT ![t].work = WorkLeft(t), ![t].pc = p] /\ fGpuLock' = None
  BY DEF OpDone
<1> HIDE DEF p
<1>5. /\ th' \in [Threads -> Thread]
      /\ th'[t].pc = p /\ th'[t].c = th[t].c /\ \A u \in Threads : u # t => th'[u] = th[u]
  BY <1>1, <1>2, <1>3, <1>4, NewWork
<1>6. TypeOK'
  BY <1>1, <1>4, <1>5 DEF TypeOK, uc
<1>7. provider # "stopping"
  BY NotStopping
<1> QED BY <1>1, <1>3, <1>5, <1>6, <1>7, MethodLocks DEF uc

\* Steps that begin the work of a method.
LEMMA BeginLocks ==
    ASSUME LockInv, NEW t \in Threads, Entered(t), NEW w \in Seq(Operation), Begin(t, w),
           UNCHANGED <<fb, conn, fManaged, card>>,
           bufs' \in [Conns -> SUBSET Buf], next_handle' \in [Conns -> Nat]
    PROVE  LockInv'
<1>1. TypeOK /\ th[t].c \in Conns
  BY Alone DEF LockInv
<1>2. /\ th' = [th EXCEPT ![t].pc = "lockG", ![t].work = w]
      /\ fResourceLock' = [fResourceLock EXCEPT ![th[t].c] = t]
  BY DEF Begin
<1>3. /\ th' \in [Threads -> Thread]
      /\ th'[t].pc = "lockG" /\ th'[t].c = th[t].c /\ \A u \in Threads : u # t => th'[u] = th[u]
  BY <1>1, <1>2, NewWork, PcsInside
<1>4. /\ fResourceLock' \in [Conns -> Threads \cup {None}] /\ fResourceLock'[th[t].c] = t
  BY <1>1, <1>2 DEF TypeOK
<1>5. TypeOK'
  BY <1>1, <1>3, <1>4 DEF TypeOK, fb, card
<1> QED BY <1>3, <1>4, <1>5, MethodLocks, PcsInside DEF fb, OnCard

LEMMA LandType ==
    ASSUME LockInv, WorkInv, Land
    PROVE  mem' \in [Pages -> Conns \cup {Zero, Junk}] /\ job' \in JobType
<1>1. /\ job \in JobType /\ mem \in [Pages -> Conns \cup {Zero, Junk}]
      /\ job.src + job.n <= NumPages /\ NumPages \in Nat /\ job.st = "pending"
  BY PageAssumption DEF LockInv, TypeOK, WorkInv, CardInv, JobInv, Land
<1>2. job.src \in Nat /\ job.dst \in Nat /\ job.n \in Nat
  BY <1>1 DEF JobType
<1>3. \A p \in Pages : p \in job.dst .. job.dst + job.n - 1 => job.src + (p - job.dst) \in Pages
  BY <1>1, <1>2 DEF Pages
<1>4. mem' = [p \in Pages |-> IF p \in job.dst .. job.dst + job.n - 1
                                THEN mem[job.src + (p - job.dst)] ELSE mem[p]]
  BY DEF Land
<1>5. job' \in JobType
  BY <1>1 DEF Land, JobType
<1> QED BY <1>1, <1>3, <1>4, <1>5

LEMMA LockStep == LockInv /\ WorkInv /\ [Next]_vars => LockInv'
<1> SUFFICES ASSUME LockInv, WorkInv, [Next]_vars
             PROVE  LockInv'
  OBVIOUS
<1>0. TypeOK /\ conn \in [Conns -> {"none", "starting", "open", "inactive", "freed"}]
  BY DEF LockInv, TypeOK
<1>1. ASSUME NEW c \in Conns, OpenSlot(c)
      PROVE  LockInv'
  <2>1. /\ conn[c] = "none" /\ conn' = [conn EXCEPT ![c] = "starting"] /\ fGpuClients' = 1
        /\ SlotFree /\ UNCHANGED <<ok, verified, bar0, fGpuLock, provider, fManaged, bufs,
                                   next_handle, fResourceLock, th, pramin, mem, job>>
    BY <1>1 DEF OpenSlot, card
  <2>2. /\ conn' \in [Conns -> {"none", "starting", "open", "inactive", "freed"}]
        /\ conn'[c] = "starting" /\ \A d \in Conns : d # c => conn'[d] = conn[d]
    BY <1>0, <2>1
  <2>3. TypeOK'
    BY <1>0, <2>1, <2>2 DEF TypeOK
  <2>4. OneConnection'
    BY <2>1, <2>2 DEF LockInv, OneConnection, Alive, SlotFree
  <2>5. CallsAlive'
    BY <2>1, <2>2 DEF LockInv, CallsAlive, InMethod
  <2> QED BY <2>1, <2>3, <2>4, <2>5 DEF LockInv, CardGuarded
<1>2. ASSUME NEW c \in Conns, OpenFinish(c) \/ Close(c)
      PROVE  LockInv'
  <2>1. /\ Alive(c) /\ UNCHANGED <<fb, bufs, next_handle, fResourceLock, th, card>>
        /\ \E v \in {"open", "inactive"} : conn' = [conn EXCEPT ![c] = v]
        /\ fManaged' = fManaged \/ fManaged' = [fManaged EXCEPT ![c] = gpuPoolVerified]
    BY <1>2 DEF OpenFinish, Close, Alive
  <2>2. /\ conn' \in [Conns -> {"none", "starting", "open", "inactive", "freed"}]
        /\ conn'[c] \in {"open", "inactive"} /\ \A d \in Conns : d # c => conn'[d] = conn[d]
    BY <1>0, <2>1
  <2>3. gpuPoolVerified \in BOOLEAN /\ fManaged \in [Conns -> BOOLEAN]
    BY <1>0 DEF gpuPoolVerified, TypeOK
  <2>4. fManaged' \in [Conns -> BOOLEAN]
    BY <2>1, <2>3
  <2>5. TypeOK'
    BY <1>0, <2>1, <2>2, <2>4 DEF TypeOK, fb, card
  <2>6. OneConnection'
    BY <2>1, <2>2 DEF LockInv, OneConnection, Alive, SlotFree, fb
  <2>7. CallsAlive'
    BY <2>1, <2>2 DEF LockInv, CallsAlive, InMethod
  <2> QED BY <2>1, <2>5, <2>6, <2>7 DEF LockInv, CardGuarded, fb
<1>3. ASSUME NEW c \in Conns, FreeConn(c)
      PROVE  LockInv'
  <2>1. /\ conn[c] = "inactive" /\ conn' = [conn EXCEPT ![c] = "freed"]
        /\ bufs' = [bufs EXCEPT ![c] = {}] /\ \A t \in Threads : th[t].c # c
        /\ fGpuClients' = IF fGpuClients > 0 THEN fGpuClients - 1 ELSE 0
        /\ UNCHANGED <<ok, verified, bar0, fGpuLock, provider, fManaged, next_handle,
                       fResourceLock, th, pramin, mem, job>>
    BY <1>3 DEF FreeConn, FreeAllowed, gpuClientClose, card
  <2>2. /\ conn' \in [Conns -> {"none", "starting", "open", "inactive", "freed"}]
        /\ conn'[c] = "freed" /\ \A d \in Conns : d # c => conn'[d] = conn[d]
    BY <1>0, <2>1
  <2>3. fGpuClients' \in Nat
    BY <1>0, <2>1 DEF TypeOK
  <2>4. bufs' \in [Conns -> SUBSET Buf]
    BY <1>0, <2>1 DEF TypeOK
  <2>5. TypeOK'
    BY <1>0, <2>1, <2>2, <2>3, <2>4 DEF TypeOK
  <2>6. OneConnection'
    BY <2>1, <2>2 DEF LockInv, OneConnection, Alive
  <2>7. CallsAlive'
    BY <2>1, <2>2 DEF LockInv, CallsAlive, InMethod
  <2> QED BY <2>1, <2>5, <2>6, <2>7 DEF LockInv, CardGuarded
<1>4. CASE TeardownEnter
  <2>1. /\ fGpuLock = None /\ fGpuLock' = Stop /\ provider = "up" /\ provider' = "stopping"
        /\ ok' = FALSE /\ UNCHANGED <<verified, bar0, fGpuClients, uc, th, card>>
    BY <1>4 DEF TeardownEnter
  <2>2. TypeOK'
    BY <1>0, <2>1 DEF TypeOK, uc, card
  <2>3. \A t \in Threads : th[t].pc \notin OnCard
    BY <2>1, NameAssumption DEF LockInv, CardGuarded
  <2>4. CardGuarded'
    BY <2>1, <2>3 DEF LockInv, CardGuarded
  <2> QED BY <2>1, <2>2, <2>4 DEF LockInv, OneConnection, CallsAlive, InMethod, Alive, SlotFree, uc
<1>5. CASE TeardownExit
  <2>1. /\ provider = "stopping" /\ provider' = "stopped" /\ fGpuLock' = None /\ bar0' = FALSE
        /\ UNCHANGED <<ok, verified, fGpuClients, uc, th, card>>
    BY <1>5 DEF TeardownExit
  <2>2. TypeOK'
    BY <1>0, <2>1 DEF TypeOK, uc, card
  <2>3. (\A t \in Threads : th[t].pc \notin OnCard) /\ ~ok
    BY <2>1, NameAssumption DEF LockInv, CardGuarded
  <2>4. CardGuarded'
    BY <2>1, <2>3 DEF LockInv, CardGuarded
  <2> QED BY <2>1, <2>2, <2>4 DEF LockInv, OneConnection, CallsAlive, InMethod, Alive, SlotFree, uc
<1>6. ASSUME NEW t \in Threads, NEW c \in Conns, NEW r \in Requests, Call(t, c, r[1], r[2], r[3])
      PROVE  LockInv'
  <2> DEFINE rec == [pc |-> "lockR", c |-> c, sel |-> r[1], x |-> r[2], y |-> r[3], work |-> <<>>]
  <2>1. /\ conn[c] = "open" /\ th' = [th EXCEPT ![t] = rec] /\ UNCHANGED <<fb, uc, card>>
    BY <1>6 DEF Call
  <2>2. r[1] \in Selectors /\ r[2] \in Nat /\ r[3] \in Nat
    BY RequestAssumption
  <2>3. rec \in Thread /\ rec.pc = "lockR" /\ rec.c = c
    <3>1. <<>> \in Seq(Operation)
      OBVIOUS
    <3> QED BY <2>2, <3>1 DEF Thread
  <2> HIDE DEF rec
  <2>4. /\ th' \in [Threads -> Thread] /\ th'[t] = rec
        /\ \A u \in Threads : u # t => th'[u] = th[u]
    BY <1>0, <2>1, <2>3 DEF TypeOK
  <2>5. TypeOK'
    BY <1>0, <2>1, <2>4 DEF TypeOK, fb, uc, card
  <2>6. CallsAlive'
    <3> SUFFICES ASSUME NEW u \in Threads
                 PROVE  /\ th'[u].pc = "idle" => th'[u] = Idle
                        /\ th'[u].pc # "idle" => /\ th'[u].c \in Conns
                                                 /\ conn'[th'[u].c] \in {"open", "inactive"}
                        /\ InMethod(u)' => fResourceLock'[th'[u].c] = u
      BY DEF CallsAlive
    <3>1. CASE u # t
      BY <2>1, <2>4, <3>1 DEF LockInv, CallsAlive, InMethod, uc
    <3>2. CASE u = t
      BY <2>1, <2>3, <2>4, <3>2 DEF InMethod, Inside, OnCard, uc
    <3> QED BY <3>1, <3>2
  <2>7. CardGuarded'
    <3>1. ASSUME NEW u \in Threads, th'[u].pc \in OnCard
          PROVE  fGpuLock' = u /\ ok'
      BY <2>1, <2>3, <2>4, <3>1 DEF LockInv, CardGuarded, OnCard, fb
    <3> QED BY <2>1, <3>1 DEF LockInv, CardGuarded, fb
  <2> QED BY <2>1, <2>5, <2>6, <2>7 DEF LockInv, OneConnection, Alive, SlotFree, fb, uc
<1>7. ASSUME NEW t \in Threads, Refuse(t)
      PROVE  LockInv'
  <2>1. Entered(t) /\ Return(t) /\ UNCHANGED <<fb, conn, fManaged, bufs, next_handle, card>>
    BY <1>7 DEF Refuse
  <2> QED BY <1>0, <2>1, ReturnLocks DEF fb, TypeOK
<1>8. ASSUME NEW t \in Threads, Transfer(t)
      PROVE  LockInv'
  <2>1. /\ Entered(t) /\ Begin(t, TransferWork(t)) /\ ~BadArgument(t)
        /\ th[t].sel \in Raw \cup OnBuffers
        /\ UNCHANGED <<fb, conn, fManaged, bufs, next_handle, card>>
    BY <1>8 DEF Transfer
  <2>2. TransferWork(t) \in Seq(Operation)
    BY <1>0, <2>1, Alone, TransferWorkOk DEF WorkInv
  <2> QED BY <1>0, <2>1, <2>2, BeginLocks DEF TypeOK
<1>9. ASSUME NEW t \in Threads, Alloc(t)
      PROVE  LockInv'
  <2>1. th[t].c \in Conns /\ Entered(t) /\ th[t].x \in Nat
    BY <1>0, <1>9, Alone DEF Alloc, TypeOK, Thread
  <2>2. PICK o \in Pages :
          /\ bufs' = [bufs EXCEPT ![th[t].c] =
                        @ \cup {[handle |-> next_handle[th[t].c], off |-> o, n |-> th[t].x]}]
          /\ Begin(t, <<wr(o, Zero)>>)
    BY <1>9 DEF Alloc, FreePlaces
  <2>3. o \in Nat
    BY PageAssumption DEF Pages
  <2>4. next_handle' \in [Conns -> Nat]
    BY <1>0, <1>9, <2>1 DEF Alloc, TypeOK
  <2>5. [handle |-> next_handle[th[t].c], off |-> o, n |-> th[t].x] \in Buf
    BY <1>0, <2>1, <2>3 DEF TypeOK, Buf
  <2>6. bufs' \in [Conns -> SUBSET Buf]
    BY <1>0, <2>1, <2>2, <2>5 DEF TypeOK
  <2>7. wr(o, Zero) \in Operation
    BY <2>3 DEF wr, Operation
  <2>8. <<wr(o, Zero)>> \in Seq(Operation)
    BY <2>7
  <2>9. UNCHANGED <<fb, conn, fManaged, card>>
    BY <1>9 DEF Alloc
  <2> QED BY <2>1, <2>2, <2>4, <2>6, <2>8, <2>9, BeginLocks
<1>10. ASSUME NEW t \in Threads, Free(t)
       PROVE  LockInv'
  <2>1. /\ Entered(t) /\ Return(t) /\ Release(th[t].c, th[t].x)
        /\ UNCHANGED <<fb, conn, fManaged, next_handle, card>>
    BY <1>10 DEF Free
  <2>2. bufs' \in [Conns -> SUBSET Buf]
    BY <1>0, <2>1, Alone, ReleaseType
  <2> QED BY <1>0, <2>1, <2>2, ReturnLocks DEF fb, TypeOK
<1>11. ASSUME NEW t \in Threads, CheckFails(t) \/ HostFails(t)
       PROVE  LockInv'
  <2>1. /\ InMethod(t) /\ Fail(t) /\ UNCHANGED <<fb, conn, fManaged, next_handle, card>>
    BY <1>11 DEF CheckFails, HostFails, InMethod, Inside
  <2>2. bufs' \in [Conns -> SUBSET Buf]
    BY <1>0, <2>1, Alone, ReleaseType DEF Fail, TypeOK
  <2> QED BY <1>0, <2>1, <2>2, ReturnLocks DEF fb, TypeOK, Fail
<1>12. ASSUME NEW t \in Threads, LockGpu(t)
       PROVE  LockInv'
  <2>1. /\ InMethod(t) /\ fGpuLock = None /\ fGpuLock' = t /\ ok
        /\ th' = [th EXCEPT ![t].pc = "aim"]
        /\ UNCHANGED <<ok, verified, bar0, fGpuClients, provider>> /\ UNCHANGED uc
        /\ UNCHANGED card
    BY <1>12 DEF LockGpu, InMethod, Inside, GpuLockFree, OpAllowed, gpuRegionOk
  <2> QED BY <1>0, <2>1, PcLocks, PcsInside DEF TypeOK, card
<1>13. ASSUME NEW t \in Threads, Aim(t)
       PROVE  LockInv'
  <2> DEFINE p == IF Op(t).k = "cp" THEN "submit" ELSE "access"
  <2>1. /\ th[t].pc = "aim" /\ th' = [th EXCEPT ![t].pc = p]
        /\ UNCHANGED <<ok, verified, bar0, fGpuClients, provider, fGpuLock>> /\ UNCHANGED uc
        /\ mem' = mem /\ job' = job /\ pramin' = Wanted(t)
    BY <1>13 DEF Aim, fb
  <2>2. th[t].pc \in OnCard /\ InMethod(t) /\ p \in Inside
    BY <2>1 DEF OnCard, InMethod, Inside
  <2>3. Wanted(t) \in Pages \cup {Ctl}
    <3>1. Op(t) \in Operation /\ Op(t).dst + Op(t).n <= NumPages /\ NumPages \in Nat
      BY <2>2, WorkLeftOk, PageAssumption DEF WorkInv, CardInv, CardOf
    <3>2. Op(t).dst \in Nat /\ Op(t).n \in Nat \ {0}
      BY <3>1 DEF Operation
    <3>3. Op(t).dst \in Pages
      BY <3>1, <3>2 DEF Pages
    <3> QED BY <3>3 DEF Wanted
  <2> HIDE DEF p
  <2> QED BY <1>0, <2>1, <2>2, <2>3, PcLocks DEF TypeOK
<1>14. ASSUME NEW t \in Threads, Access(t)
       PROVE  LockInv'
  <2>1. /\ th[t].pc = "access" /\ OpDone(t) /\ UNCHANGED uc
        /\ UNCHANGED <<ok, verified, bar0, fGpuClients, provider, pramin>> /\ job' = job
        /\ mem' = IF Op(t).k = "wr" /\ pramin \in Pages
                    THEN [mem EXCEPT ![pramin] = Op(t).val] ELSE mem
    BY <1>14 DEF Access
  <2>2. th[t].pc \in OnCard
    BY <2>1 DEF OnCard
  <2>3. Op(t).val \in Conns \cup {Zero}
    BY <2>2, WorkLeftOk DEF Operation
  <2>4. mem' \in [Pages -> Conns \cup {Zero, Junk}] /\ job' \in JobType
    BY <1>0, <2>1, <2>3 DEF TypeOK
  <2> QED BY <2>1, <2>2, <2>4, OpDoneLocks
<1>15. ASSUME NEW t \in Threads, Submit(t)
       PROVE  LockInv'
  <2>1. /\ th[t].pc = "submit" /\ th' = [th EXCEPT ![t].pc = "poll"]
        /\ UNCHANGED <<ok, verified, bar0, fGpuClients, provider, fGpuLock>> /\ UNCHANGED uc
        /\ mem' = mem /\ pramin' = pramin
        /\ job' = [st |-> "pending", src |-> Op(t).src, dst |-> Op(t).dst, n |-> Op(t).n]
    BY <1>15 DEF Submit, fb
  <2>2. th[t].pc \in OnCard /\ InMethod(t)
    BY <2>1 DEF OnCard, InMethod, Inside
  <2>3. Op(t) \in Operation
    BY <2>2, WorkLeftOk
  <2>4. job' \in JobType
    BY <2>1, <2>3 DEF Operation, JobType
  <2> QED BY <1>0, <2>1, <2>2, <2>4, PcLocks, PcsInside DEF TypeOK
<1>16. ASSUME NEW t \in Threads, PollDone(t)
       PROVE  LockInv'
  <2>1. /\ th[t].pc = "poll" /\ OpDone(t) /\ UNCHANGED uc
        /\ UNCHANGED <<ok, verified, bar0, fGpuClients, provider, pramin>> /\ job' = NoJob
        /\ mem' = mem
    BY <1>16 DEF PollDone
  <2>2. th[t].pc \in OnCard
    BY <2>1 DEF OnCard
  <2>3. NoJob \in JobType
    BY DEF NoJob, JobType
  <2> QED BY <1>0, <2>1, <2>2, <2>3, OpDoneLocks DEF TypeOK
<1>17. ASSUME NEW t \in Threads, PollTimeout(t)
       PROVE  LockInv'
  <2>1. /\ th[t].pc = "poll" /\ Fail(t) /\ fGpuLock' = None /\ ok' = FALSE
        /\ UNCHANGED <<verified, bar0, fGpuClients, provider, conn, fManaged, next_handle, card>>
    BY <1>17 DEF PollTimeout, AfterTimeout
  <2>2. th[t].pc \in OnCard /\ InMethod(t) /\ provider # "stopping"
    BY <2>1, NotStopping DEF OnCard, InMethod, Inside
  <2>3. bufs' \in [Conns -> SUBSET Buf]
    BY <1>0, <2>1, <2>2, Alone, ReleaseType DEF Fail, TypeOK
  <2> QED BY <1>0, <2>1, <2>2, <2>3, ReturnLocks DEF TypeOK, Fail
<1>18. ASSUME NEW t \in Threads, Done(t)
       PROVE  LockInv'
  <2>1. /\ InMethod(t) /\ Return(t) /\ UNCHANGED <<fb, conn, bufs, next_handle, card>>
        /\ fManaged' = IF th[t].sel = "Alloc" THEN [fManaged EXCEPT ![th[t].c] = TRUE]
                                             ELSE fManaged
    BY <1>18 DEF Done, InMethod, Inside
  <2>2. fManaged' \in [Conns -> BOOLEAN]
    BY <1>0, <2>1 DEF TypeOK
  <2> QED BY <1>0, <2>1, <2>2, ReturnLocks DEF fb, TypeOK
<1>19. CASE Land
  <2>1. UNCHANGED <<fb, uc, th, pramin>>
    BY <1>19 DEF Land
  <2>2. TypeOK'
    BY <1>0, <1>19, <2>1, LandType DEF TypeOK, fb, uc
  <2> QED BY <2>1, <2>2 DEF LockInv, OneConnection, CallsAlive, CardGuarded, InMethod, Alive,
                            SlotFree, fb, uc
<1>20. CASE UNCHANGED vars
  BY <1>0, <1>20 DEF vars, LockInv, TypeOK, OneConnection, CallsAlive, CardGuarded, InMethod,
                     Alive, SlotFree
<1> QED BY <1>1, <1>2, <1>3, <1>4, <1>5, <1>6, <1>7, <1>8, <1>9, <1>10, <1>11, <1>12, <1>13,
           <1>14, <1>15, <1>16, <1>17, <1>18, <1>19, <1>20 DEF Next, MethodStep

-----------------------------------------------------------------------------
(* The work. *)

\* While a thread is inside, or enters, the others have no work.
LEMMA MethodWork ==
    ASSUME LockInv, WorkInv, NEW t \in Threads, Entered(t) \/ InMethod(t),
           \A u \in Threads : u # t => th'[u] = th[u],
           WorkOf(t)', CardOf(t)'
    PROVE  WorkKnown' /\ \A u \in Threads : CardOf(u)'
<1>1. \A u \in Threads : u # t => ~InMethod(u) /\ ~InMethod(u)' /\ WorkOf(u)
  BY Alone DEF InMethod, WorkInv, WorkKnown
<1>2. ASSUME NEW u \in Threads, u # t
      PROVE  WorkOf(u)' /\ CardOf(u)'
  <2>1. th'[u] = th[u] /\ ~InMethod(u) /\ ~InMethod(u)' /\ WorkOf(u)
    BY <1>1, <1>2
  <2>2. th'[u].pc \notin OnCard
    BY <2>1 DEF InMethod, Inside
  <2> QED BY <2>1, <2>2 DEF WorkOf, CardOf, OnCard
<1> QED BY <1>2 DEF WorkKnown

\* The job is under way only for the thread that polls.
LEMMA NotPending ==
    ASSUME LockInv, WorkInv, NEW t \in Threads, Entered(t) \/ InMethod(t), th[t].pc # "poll", ok
    PROVE  job.st # "pending"
<1>1. \A u \in Threads : th[u].pc # "poll"
  BY Alone DEF InMethod, Inside, OnCard
<1> QED BY <1>1 DEF WorkInv, CardInv, JobInv

LEMMA ReturnWork ==
    ASSUME LockInv, WorkInv, NEW t \in Threads, Entered(t) \/ InMethod(t),
           th'[t] = Idle, \A u \in Threads : u # t => th'[u] = th[u],
           conn' = conn, next_handle' = next_handle, UNCHANGED card, verified' = verified,
           ok' => ok, th[t].pc = "poll" => ~ok',
           \A c \in Conns : bufs'[c] \subseteq bufs[c] /\ (fManaged[c] => fManaged'[c])
    PROVE  WorkInv'
<1>1. WorkOf(t)' /\ CardOf(t)'
  BY IdleThread DEF WorkOf, CardOf, InMethod, Inside, OnCard, Raw
<1>2. WorkKnown' /\ \A u \in Threads : CardOf(u)'
  BY <1>1, MethodWork
<1>3. BuffersNamed'
  BY DEF WorkInv, BuffersNamed
<1>4. BuffersManaged'
  BY DEF WorkInv, BuffersManaged
<1>5. JobInv'
  <2>1. job' = job /\ th'[t].pc = "idle"
    BY IdleThread DEF card
  <2>2. job.st = "pending" => ~ok'
    BY NotPending
  <2> QED BY <2>1, <2>2 DEF WorkInv, CardInv, JobInv
<1> QED BY <1>2, <1>3, <1>4, <1>5 DEF WorkInv, CardInv

\* A step from one point of a method to another on the card.
LEMMA PcWork ==
    ASSUME LockInv, WorkInv, NEW t \in Threads, th[t].pc \in OnCard \cup {"lockG"},
           NEW p \in OnCard, th' = [th EXCEPT ![t].pc = p], UNCHANGED uc, ok' = ok,
           verified' = verified, CardOf(t)', JobInv'
    PROVE  WorkInv'
<1>1. /\ th'[t].pc = p /\ th'[t].c = th[t].c /\ th'[t].sel = th[t].sel
      /\ th'[t].x = th[t].x /\ th'[t].y = th[t].y /\ th'[t].work = th[t].work
      /\ \A u \in Threads : u # t => th'[u] = th[u]
  BY NewPc, PcsInside DEF LockInv
<1>2. InMethod(t) /\ InMethod(t)' /\ th'[t].pc \notin {"idle", "lockR", "done"}
      /\ th[t].pc \notin {"idle", "lockR", "done"}
  BY <1>1 DEF InMethod, Inside, OnCard
<1>3. WorkOf(t)
  BY DEF WorkInv, WorkKnown
<1>4. NewHandle(t)' = NewHandle(t)
  BY <1>1 DEF NewHandle, uc
<1>5. WorkOf(t)'
  BY <1>1, <1>2, <1>3, <1>4 DEF WorkOf, TransferOp, InBuffers, uc
<1>6. WorkKnown' /\ \A u \in Threads : CardOf(u)'
  BY <1>1, <1>2, <1>5, MethodWork
<1>7. BuffersNamed' /\ BuffersManaged'
  BY DEF WorkInv, BuffersNamed, BuffersManaged, uc
<1> QED BY <1>6, <1>7 DEF WorkInv, CardInv

\* The end of an operation.
LEMMA OpDoneWork ==
    ASSUME LockInv, WorkInv, NEW t \in Threads, th[t].pc \in OnCard, OpDone(t), UNCHANGED uc,
           ok' = ok, verified' = verified, JobInv'
    PROVE  WorkInv'
<1> DEFINE p == IF WorkLeft(t) = <<>> THEN "done" ELSE "lockG"
<1>1. InMethod(t) /\ th[t].c \in Conns /\ WorkOf(t) /\ TypeOK
  BY Alone DEF InMethod, Inside, WorkInv, WorkKnown, LockInv
<1>2. /\ th[t].work \in Seq(Operation) /\ th[t].work # <<>> /\ Op(t) \in Operation
      /\ WorkLeft(t) \in Seq(Operation)
  BY WorkLeftOk
<1>3. p \in Inside /\ p \notin OnCard /\ (p = "done" <=> WorkLeft(t) = <<>>)
      /\ p \notin {"idle", "lockR"}
  BY DEF Inside, OnCard
<1>4. th' = [th EXCEPT ![t].work = WorkLeft(t), ![t].pc = p]
  BY DEF OpDone
<1> HIDE DEF p
<1>5. /\ th'[t].pc = p /\ th'[t].c = th[t].c /\ th'[t].sel = th[t].sel
      /\ th'[t].x = th[t].x /\ th'[t].y = th[t].y /\ th'[t].work = WorkLeft(t)
      /\ \A u \in Threads : u # t => th'[u] = th[u]
  <2> DEFINE w == WorkLeft(t)
  <2>1. TypeOK /\ p \in Inside /\ w \in Seq(Operation)
    BY <1>1, <1>2, <1>3
  <2>2. th' = [th EXCEPT ![t].work = w, ![t].pc = p]
    BY <1>4
  <2> HIDE DEF w
  <2>3. /\ th'[t].pc = p /\ th'[t].c = th[t].c
        /\ \A u \in Threads : u # t => th'[u] = th[u]
    BY <2>1, <2>2, NewWork
  <2>4. th'[t].sel = th[t].sel /\ th'[t].x = th[t].x /\ th'[t].y = th[t].y
    BY <2>1, <2>2, NewWork
  <2>5. th'[t].work = w
    <3>1. th[t] \in Thread /\ th \in [Threads -> Thread]
      BY <2>1 DEF TypeOK
    <3>2. th'[t] = [[th[t] EXCEPT !.work = w] EXCEPT !.pc = p]
      BY <2>2, <3>1
    <3> QED BY <3>1, <3>2 DEF Thread
  <2> QED BY <2>3, <2>4, <2>5 DEF w
<1>6. NewHandle(t)' = NewHandle(t) /\ bufs' = bufs /\ fManaged' = fManaged
  BY <1>5 DEF NewHandle, uc
<1>7. ASSUME th[t].sel = "Alloc"
      PROVE  WorkOf(t)'
  <2>1. PICK b \in bufs[th[t].c] :
          b.handle = NewHandle(t) /\ b.n = th[t].x /\ ClearOp(b, th[t].work[1])
    BY <1>1, <1>7 DEF WorkOf, OnCard
  <2>2. th[t].work[1] = Op(t) /\ b \in Buf
    BY <1>1, <1>2 DEF Op, TypeOK
  <2>3. ClearOp(b, Op(t))
    BY <2>1, <2>2
  <2>4. WorkLeft(t) = ZeroNext(Op(t), b.n)
    BY <1>7, <2>1 DEF WorkLeft
  <2>5. WorkLeft(t) # <<>> => Len(WorkLeft(t)) = 1 /\ ClearOp(b, WorkLeft(t)[1])
    <3>1. ASSUME NEW q \in Operation, WorkLeft(t) = <<q>>, ClearOp(b, q)
          PROVE  Len(WorkLeft(t)) = 1 /\ ClearOp(b, WorkLeft(t)[1])
      BY <3>1
    <3> QED BY <1>2, <2>2, <2>3, <2>4, <3>1, ClearNext
  <2>6. b \in bufs'[th'[t].c] /\ b.handle = NewHandle(t)' /\ b.n = th'[t].x
    BY <1>5, <1>6, <2>1
  <2>7. th'[t].pc # "done" => Len(th'[t].work) = 1 /\ ClearOp(b, th'[t].work[1])
    BY <1>3, <1>5, <2>5
  <2>8. th'[t].sel = "Alloc" /\ th'[t].x \in 1 .. NumPages
    BY <1>1, <1>5, <1>7 DEF WorkOf
  <2>9. th'[t].work = <<>> <=> th'[t].pc \in {"idle", "lockR", "done"}
    BY <1>3, <1>5
  <2> QED BY <2>6, <2>7, <2>8, <2>9 DEF WorkOf, Raw, OnBuffers
<1>8. ASSUME th[t].sel # "Alloc"
      PROVE  WorkOf(t)'
  <2>1. WorkLeft(t) = Tail(th[t].work)
    BY <1>8 DEF WorkLeft
  <2>2. ASSUME th[t].sel \in OnBuffers, NEW i \in 1 .. Len(WorkLeft(t))
        PROVE  TransferOp(th[t].c, th[t].work[i])'
    <3>1. i + 1 \in 1 .. Len(th[t].work) /\ WorkLeft(t)[i] = th[t].work[i + 1]
      BY <1>2, <2>1, <2>2
    <3>2. TransferOp(th[t].c, th[t].work[i + 1])
      BY <1>1, <2>2, <3>1 DEF WorkOf
    <3>3. th'[t].work[i] = th[t].work[i + 1] /\ th'[t].c = th[t].c
      BY <1>5, <3>1
    <3> QED BY <1>6, <3>2, <3>3 DEF TransferOp, InBuffers
  <2> QED BY <1>1, <1>3, <1>5, <1>6, <1>8, <2>2 DEF WorkOf
<1>9. CardOf(t)'
  BY <1>3, <1>5 DEF CardOf, OnCard
<1>10. WorkKnown' /\ \A u \in Threads : CardOf(u)'
  BY <1>1, <1>5, <1>7, <1>8, <1>9, MethodWork
<1>11. BuffersNamed' /\ BuffersManaged'
  BY DEF WorkInv, BuffersNamed, BuffersManaged, uc
<1> QED BY <1>10, <1>11 DEF WorkInv, CardInv

LEMMA Begins ==
    ASSUME TypeOK, NEW t \in Threads, th[t].c \in Conns, NEW w \in Seq(Operation), Begin(t, w)
    PROVE  /\ th'[t].pc = "lockG" /\ th'[t].c = th[t].c /\ th'[t].sel = th[t].sel
           /\ th'[t].x = th[t].x /\ th'[t].y = th[t].y /\ th'[t].work = w
           /\ \A u \in Threads : u # t => th'[u] = th[u]
<1>1. th[t] \in Thread /\ th \in [Threads -> Thread]
  BY DEF TypeOK
<1>2. /\ th'[t] = [[th[t] EXCEPT !.pc = "lockG"] EXCEPT !.work = w]
      /\ \A u \in Threads : u # t => th'[u] = th[u]
  BY <1>1 DEF Begin
<1> QED BY <1>1, <1>2 DEF Thread

LEMMA TransferStep ==
    ASSUME LockInv, WorkInv, NEW t \in Threads, Transfer(t)
    PROVE  WorkInv'
<1>1. /\ Entered(t) /\ ~Refused(t) /\ ~BadArgument(t) /\ th[t].sel \in Raw \cup OnBuffers
      /\ Begin(t, TransferWork(t)) /\ UNCHANGED <<fb, conn, fManaged, bufs, next_handle, card>>
  BY DEF Transfer
<1>2. th[t].c \in Conns /\ WorkOf(t) /\ TypeOK
  BY <1>1, Alone DEF WorkInv, WorkKnown, LockInv
<1>3. PICK w \in Seq(Operation) :
        /\ w = TransferWork(t) /\ w # <<>>
        /\ th[t].sel \in OnBuffers => \A i \in 1 .. Len(w) : TransferOp(th[t].c, w[i])
  BY <1>1, <1>2, TransferWorkOk DEF WorkInv
<1>4. Begin(t, w)
  BY <1>1, <1>3 DEF Begin
<1>5. /\ th'[t].pc = "lockG" /\ th'[t].c = th[t].c /\ th'[t].sel = th[t].sel
      /\ th'[t].x = th[t].x /\ th'[t].y = th[t].y /\ th'[t].work = w
      /\ \A u \in Threads : u # t => th'[u] = th[u]
  BY <1>2, <1>4, Begins
<1>6. WorkOf(t)'
  <2>1. th[t].sel \in Raw => ~fManaged'[th'[t].c]
    BY <1>1, <1>5 DEF Refused
  <2>2. th[t].sel # "Free" /\ th[t].sel # "Alloc"
    BY <1>1 DEF Raw, OnBuffers
  <2>3. th[t].sel \in OnBuffers => \A i \in 1 .. Len(w) : TransferOp(th[t].c, w[i])'
    BY <1>1, <1>3, <1>5 DEF TransferOp, InBuffers
  <2> QED BY <1>2, <1>3, <1>5, <2>1, <2>2, <2>3 DEF WorkOf
<1>7. CardOf(t)'
  BY <1>5 DEF CardOf, OnCard
<1>8. WorkKnown' /\ \A u \in Threads : CardOf(u)'
  BY <1>1, <1>5, <1>6, <1>7, MethodWork
<1>9. BuffersNamed' /\ BuffersManaged'
  BY <1>1 DEF WorkInv, BuffersNamed, BuffersManaged, fb
<1>10. JobInv'
  <2>1. job.st = "pending" => ~ok
    BY <1>1, NotPending DEF Entered
  <2> QED BY <1>1, <1>5, <2>1 DEF WorkInv, CardInv, JobInv, fb, card
<1> QED BY <1>8, <1>9, <1>10 DEF WorkInv, CardInv

LEMMA AllocStep ==
    ASSUME LockInv, WorkInv, NEW t \in Threads, Alloc(t)
    PROVE  WorkInv'
<1> DEFINE c == th[t].c
           n == th[t].x
<1>1. /\ Entered(t) /\ th[t].sel = "Alloc" /\ ~Refused(t) /\ ~BadArgument(t)
      /\ next_handle' = [next_handle EXCEPT ![c] = @ + 1]
      /\ UNCHANGED <<fb, conn, fManaged, card>>
  BY DEF Alloc
<1>2. c \in Conns /\ WorkOf(t) /\ TypeOK /\ conn[c] \in {"open", "inactive"}
  BY <1>1, Alone DEF WorkInv, WorkKnown, LockInv, CallsAlive
<1>3. n \in 1 .. NumPages /\ n \in Nat /\ n > 0 /\ NumPages \in Nat
  BY <1>1, <1>2, PageAssumption DEF WorkOf
<1>4. PICK o \in FreePlaces(c, n) :
        /\ bufs' = [bufs EXCEPT ![c] = @ \cup {[handle |-> next_handle[c], off |-> o, n |-> n]}]
        /\ Begin(t, <<wr(o, Zero)>>)
  BY DEF Alloc
<1>5. o \in Nat /\ o + n <= NumPages
  BY <1>3, <1>4 DEF FreePlaces, Pages
<1> DEFINE new == [handle |-> next_handle[c], off |-> o, n |-> n]
           q   == wr(o, Zero)
<1>6. /\ bufs'[c] = bufs[c] \cup {new} /\ \A d \in Conns : d # c => bufs'[d] = bufs[d]
      /\ next_handle'[c] = next_handle[c] + 1
      /\ \A d \in Conns : d # c => next_handle'[d] = next_handle[d]
      /\ next_handle[c] \in Nat /\ bufs[c] \subseteq Buf
  BY <1>1, <1>2, <1>4 DEF TypeOK
<1>7. q \in Operation /\ ClearOp(new, q)
  BY <1>3, <1>5 DEF wr, Operation, ClearOp
<1>8. /\ th'[t].pc = "lockG" /\ th'[t].c = c /\ th'[t].sel = "Alloc"
      /\ th'[t].x = n /\ th'[t].work = <<q>>
      /\ \A u \in Threads : u # t => th'[u] = th[u]
  <2> HIDE DEF q
  <2>1. <<q>> \in Seq(Operation)
    BY <1>7
  <2>2. Begin(t, <<q>>)
    BY <1>4 DEF q
  <2> QED BY <1>1, <1>2, <2>1, <2>2, Begins
<1>9. new.handle = next_handle[c] /\ new.off = o /\ new.n = n
  OBVIOUS
<1> HIDE DEF new, q
<1>10. WorkOf(t)'
  <2>1. new \in bufs'[th'[t].c] /\ new.handle = NewHandle(t)' /\ new.n = th'[t].x
    BY <1>6, <1>8, <1>9 DEF NewHandle
  <2>2. Len(th'[t].work) = 1 /\ ClearOp(new, th'[t].work[1])
    BY <1>7, <1>8
  <2> QED BY <1>3, <1>8, <2>1, <2>2 DEF WorkOf, Raw, OnBuffers
<1>11. CardOf(t)'
  BY <1>8 DEF CardOf, OnCard
<1>12. WorkKnown' /\ \A u \in Threads : CardOf(u)'
  BY <1>1, <1>8, <1>10, <1>11, MethodWork
<1>13. BuffersNamed'
  <2>1. ASSUME NEW b \in bufs[c]
        PROVE  b.handle \in Nat /\ b.handle < next_handle[c]
    BY <1>2, <1>6, <2>1 DEF WorkInv, BuffersNamed, Buf
  <2> SUFFICES ASSUME NEW d \in Conns, NEW b \in bufs'[d]
               PROVE  /\ b.handle < next_handle'[d] /\ b.n > 0 /\ b.off + b.n <= NumPages
                      /\ \A e \in bufs'[d] : e.handle = b.handle => e = b
    BY DEF BuffersNamed
  <2>2. CASE d # c
    BY <1>6, <2>2 DEF WorkInv, BuffersNamed
  <2>3. CASE d = c /\ b # new
    BY <1>2, <1>6, <1>9, <2>1, <2>3 DEF WorkInv, BuffersNamed
  <2>4. CASE d = c /\ b = new
    BY <1>3, <1>5, <1>6, <1>9, <2>1, <2>4
  <2> QED BY <2>2, <2>3, <2>4
<1>14. BuffersManaged'
  <2>1. fManaged[c]
    BY <1>1, <1>2 DEF BadArgument, gpuPoolVerified, WorkInv, BuffersManaged
  <2> QED BY <1>1, <1>2, <1>6, <2>1 DEF WorkInv, BuffersManaged, fb
<1>15. JobInv'
  <2>1. job.st = "pending" => ~ok
    BY <1>1, NotPending DEF Entered
  <2> QED BY <1>1, <1>8, <2>1 DEF WorkInv, CardInv, JobInv, fb, card
<1> QED BY <1>12, <1>13, <1>14, <1>15 DEF WorkInv, CardInv

\* The life of a connection does not concern the threads that are inside.
LEMMA ConnWork ==
    ASSUME LockInv, WorkInv, NEW c \in Conns,
           OpenSlot(c) \/ OpenFinish(c) \/ Close(c) \/ FreeConn(c)
    PROVE  WorkInv'
<1>0. TypeOK
  BY DEF LockInv
<1>1. /\ UNCHANGED <<ok, verified, next_handle, th, pramin, mem, job>>
      /\ \A d \in Conns : d # c => /\ conn'[d] = conn[d] /\ fManaged'[d] = fManaged[d]
                                  /\ bufs'[d] = bufs[d]
  <2>1. CASE OpenSlot(c)
    BY <1>0, <2>1 DEF OpenSlot, card, TypeOK
  <2>2. CASE OpenFinish(c)
    BY <1>0, <2>2 DEF OpenFinish, fb, card, TypeOK
  <2>3. CASE Close(c)
    BY <1>0, <2>3 DEF Close, fb, card, TypeOK
  <2>4. CASE FreeConn(c)
    BY <1>0, <2>4 DEF FreeConn, fb, card, TypeOK
  <2> QED BY <2>1, <2>2, <2>3, <2>4
<1>2. \/ bufs'[c] = {} /\ conn'[c] \in {"starting", "freed"}
      \/ bufs'[c] = {} /\ conn'[c] = "open" /\ fManaged'[c] = gpuPoolVerified
      \/ /\ conn[c] = "open" /\ conn'[c] = "inactive"
         /\ bufs'[c] = bufs[c] /\ fManaged'[c] = fManaged[c]
  <2>1. CASE OpenSlot(c)
    BY <1>0, <2>1 DEF OpenSlot, TypeOK, WorkInv, BuffersManaged
  <2>2. CASE OpenFinish(c)
    BY <1>0, <2>2 DEF OpenFinish, TypeOK, WorkInv, BuffersManaged
  <2>3. CASE Close(c)
    BY <1>0, <2>3 DEF Close, TypeOK
  <2>4. CASE FreeConn(c)
    BY <1>0, <2>4 DEF FreeConn, TypeOK
  <2> QED BY <2>1, <2>2, <2>3, <2>4
<1>3. ASSUME NEW t \in Threads, InMethod(t)
      PROVE  fManaged'[th[t].c] = fManaged[th[t].c] /\ bufs'[th[t].c] = bufs[th[t].c]
  <2>1. th[t].c \in Conns /\ conn[th[t].c] \in {"open", "inactive"}
    BY <1>3, Alone DEF LockInv, CallsAlive
  <2>2. CASE OpenSlot(c)
    BY <2>2 DEF OpenSlot
  <2>3. CASE OpenFinish(c)
    <3>1. th[t].c # c
      BY <2>1, <2>3 DEF OpenFinish
    <3> QED BY <1>1, <2>1, <3>1
  <2>4. CASE Close(c)
    BY <2>4 DEF Close
  <2>5. CASE FreeConn(c)
    <3>1. th[t].c # c
      BY <2>5 DEF FreeConn, FreeAllowed
    <3> QED BY <1>1, <2>1, <3>1
  <2> QED BY <2>2, <2>3, <2>4, <2>5
<1>4. WorkKnown'
  <2>1. ASSUME NEW t \in Threads
        PROVE  WorkOf(t)'
    <3>1. WorkOf(t) /\ th' = th /\ next_handle' = next_handle
      BY <1>1 DEF WorkInv, WorkKnown
    <3>2. CASE InMethod(t)
      BY <1>3, <3>1, <3>2 DEF WorkOf, InMethod, TransferOp, InBuffers, NewHandle
    <3>3. CASE ~InMethod(t)
      BY <3>1, <3>3 DEF WorkOf, InMethod
    <3> QED BY <3>2, <3>3
  <2> QED BY <2>1 DEF WorkKnown
<1>5. CardInv'
  BY <1>1 DEF WorkInv, CardInv, CardOf, JobInv, Op
<1>6. BuffersNamed'
  BY <1>1, <1>2 DEF WorkInv, BuffersNamed
<1>7. BuffersManaged'
  BY <1>1, <1>2 DEF WorkInv, BuffersManaged, gpuPoolVerified
<1> QED BY <1>4, <1>5, <1>6, <1>7 DEF WorkInv

LEMMA CallWork ==
    ASSUME LockInv, WorkInv, NEW t \in Threads, NEW c \in Conns, NEW r \in Requests,
           Call(t, c, r[1], r[2], r[3])
    PROVE  WorkInv'
<1>1. /\ th[t].pc = "idle" /\ UNCHANGED <<fb, uc, card>>
      /\ th' = [th EXCEPT ![t] = [pc |-> "lockR", c |-> c, sel |-> r[1], x |-> r[2], y |-> r[3],
                                 work |-> <<>>]]
  BY DEF Call
<1>2. /\ th'[t].pc = "lockR" /\ th'[t].sel = r[1] /\ th'[t].x = r[2] /\ th'[t].y = r[3]
      /\ th'[t].work = <<>> /\ \A u \in Threads : u # t => th'[u] = th[u]
  BY <1>1 DEF LockInv, TypeOK
<1>3. ASSUME NEW u \in Threads
      PROVE  WorkOf(u)' /\ CardOf(u)'
  <2>1. CASE u = t
    BY <1>2, <2>1, RequestAssumption DEF WorkOf, CardOf, InMethod, Inside, OnCard
  <2>2. CASE u # t
    <3>1. th'[u] = th[u] /\ WorkOf(u) /\ CardOf(u) /\ UNCHANGED <<bufs, fManaged, next_handle, pramin, job>>
      BY <1>1, <1>2, <2>2 DEF WorkInv, WorkKnown, CardInv, uc, card
    <3>2. WorkOf(u)'
      BY <3>1 DEF WorkOf, InMethod, TransferOp, InBuffers, NewHandle
    <3>3. CardOf(u)'
      BY <3>1 DEF CardOf, Op
    <3> QED BY <3>2, <3>3
  <2> QED BY <2>1, <2>2
<1>4. JobInv'
  <2>1. \A u \in Threads : (th'[u].pc = "poll" <=> th[u].pc = "poll")
                          /\ (th'[u].pc = "done" <=> th[u].pc = "done")
    BY <1>1, <1>2
  <2> QED BY <1>1, <2>1 DEF WorkInv, CardInv, JobInv, fb, card
<1>5. BuffersNamed' /\ BuffersManaged'
  BY <1>1 DEF WorkInv, BuffersNamed, BuffersManaged, fb, uc
<1> QED BY <1>3, <1>4, <1>5 DEF WorkInv, WorkKnown, CardInv

\* Nothing of a method changes, but the job or the state of the provider.
LEMMA OutsideWork ==
    ASSUME WorkInv, UNCHANGED <<uc, th, pramin, verified>>, ok' => ok, JobInv',
           \A t \in Threads : CardOf(t)'
    PROVE  WorkInv'
<1>1. WorkKnown'
  BY DEF WorkInv, WorkKnown, WorkOf, InMethod, TransferOp, InBuffers, NewHandle, uc
<1>2. BuffersNamed' /\ BuffersManaged'
  BY DEF WorkInv, BuffersNamed, BuffersManaged, uc
<1> QED BY <1>1, <1>2 DEF WorkInv, CardInv

LEMMA WorkStep == LockInv /\ WorkInv /\ [Next]_vars => WorkInv'
<1> SUFFICES ASSUME LockInv, WorkInv, [Next]_vars
             PROVE  WorkInv'
  OBVIOUS
<1>0. TypeOK
  BY DEF LockInv
<1>1. CASE TeardownEnter \/ TeardownExit
  <2>1. UNCHANGED <<uc, th, card, verified>> /\ (ok' => ok)
    BY <1>1 DEF TeardownEnter, TeardownExit
  <2>2. JobInv' /\ \A t \in Threads : CardOf(t)'
    BY <2>1 DEF WorkInv, CardInv, JobInv, CardOf, Op, card
  <2> QED BY <2>1, <2>2, OutsideWork DEF card
<1>2. ASSUME NEW t \in Threads, Refuse(t)
      PROVE  WorkInv'
  <2>1. /\ Entered(t) /\ Return(t) /\ UNCHANGED <<fb, conn, fManaged, bufs, next_handle, card>>
    BY <1>2 DEF Refuse
  <2> QED BY <1>0, <2>1, Alone, Returns, ReturnWork DEF fb, Entered
<1>3. ASSUME NEW t \in Threads, Free(t)
      PROVE  WorkInv'
  <2>1. /\ Entered(t) /\ Return(t) /\ Release(th[t].c, th[t].x) /\ th[t].c \in Conns
        /\ UNCHANGED <<fb, conn, fManaged, next_handle, card>>
    BY <1>3, Alone DEF Free
  <2>2. \A c \in Conns : bufs'[c] \subseteq bufs[c]
    BY <1>0, <2>1, ReleaseType
  <2> QED BY <1>0, <2>1, <2>2, Returns, ReturnWork DEF fb, Entered
<1>4. ASSUME NEW t \in Threads, CheckFails(t) \/ HostFails(t)
      PROVE  WorkInv'
  <2>1. /\ InMethod(t) /\ th[t].pc = "lockG" /\ Fail(t)
        /\ UNCHANGED <<fb, conn, fManaged, next_handle, card>>
    BY <1>4 DEF CheckFails, HostFails, InMethod, Inside
  <2>2. Return(t) /\ th[t].c \in Conns
    BY <2>1, Alone DEF Fail
  <2>3. \A c \in Conns : bufs'[c] \subseteq bufs[c]
    BY <1>0, <2>1, <2>2, ReleaseType DEF Fail
  <2> QED BY <1>0, <2>1, <2>2, <2>3, Returns, ReturnWork DEF fb
<1>5. ASSUME NEW t \in Threads, PollTimeout(t)
      PROVE  WorkInv'
  <2>1. /\ InMethod(t) /\ Fail(t) /\ ok' = FALSE
        /\ UNCHANGED <<verified, conn, fManaged, next_handle, card>>
    BY <1>5 DEF PollTimeout, AfterTimeout, InMethod, Inside, OnCard
  <2>2. Return(t) /\ th[t].c \in Conns
    BY <2>1, Alone DEF Fail
  <2>3. \A c \in Conns : bufs'[c] \subseteq bufs[c]
    BY <1>0, <2>1, <2>2, ReleaseType DEF Fail
  <2> QED BY <1>0, <2>1, <2>2, <2>3, Returns, ReturnWork
<1>6. ASSUME NEW t \in Threads, Done(t)
      PROVE  WorkInv'
  <2>1. /\ InMethod(t) /\ th[t].pc = "done" /\ Return(t) /\ th[t].c \in Conns
        /\ UNCHANGED <<fb, conn, bufs, next_handle, card>>
        /\ fManaged' = IF th[t].sel = "Alloc" THEN [fManaged EXCEPT ![th[t].c] = TRUE]
                                             ELSE fManaged
    BY <1>6, Alone DEF Done, InMethod, Inside
  <2>2. \A c \in Conns : fManaged[c] => fManaged'[c]
    BY <1>0, <2>1 DEF TypeOK
  <2> QED BY <1>0, <2>1, <2>2, Returns, ReturnWork DEF fb
<1>7. ASSUME NEW t \in Threads, LockGpu(t)
      PROVE  WorkInv'
  <2>1. /\ th[t].pc = "lockG" /\ OpAllowed(t) /\ th' = [th EXCEPT ![t].pc = "aim"]
        /\ UNCHANGED <<ok, verified>> /\ UNCHANGED uc /\ UNCHANGED card
    BY <1>7 DEF LockGpu
  <2>2. /\ th'[t].pc = "aim" /\ th'[t].work = th[t].work
        /\ \A u \in Threads : u # t => th'[u] = th[u]
    BY <1>0, <2>1, NewPc, PcsInside
  <2>3. CardOf(t)'
    BY <2>1, <2>2 DEF CardOf, OpAllowed, gpuRegionOk, Op
  <2>4. JobInv'
    <3>1. job.st = "pending" => ~ok
      BY <2>1, NotPending DEF InMethod, Inside
    <3> QED BY <2>1, <2>2, <3>1 DEF WorkInv, CardInv, JobInv, card
  <2> QED BY <2>1, <2>3, <2>4, PcWork DEF OnCard
<1>8. ASSUME NEW t \in Threads, Aim(t)
      PROVE  WorkInv'
  <2> DEFINE p == IF Op(t).k = "cp" THEN "submit" ELSE "access"
  <2>1. /\ th[t].pc = "aim" /\ th' = [th EXCEPT ![t].pc = p] /\ pramin' = Wanted(t)
        /\ UNCHANGED <<ok, verified>> /\ UNCHANGED uc /\ job' = job
    BY <1>8 DEF Aim, fb
  <2>2. p \in OnCard /\ p \in Inside /\ p # "poll" /\ p # "done" /\ (p = "access" <=> Op(t).k # "cp")
    BY DEF OnCard, Inside
  <2> HIDE DEF p
  <2>3. /\ th'[t].pc = p /\ th'[t].work = th[t].work
        /\ \A u \in Threads : u # t => th'[u] = th[u]
    BY <1>0, <2>1, <2>2, NewPc
  <2>4. CardOf(t) /\ th[t].pc \in OnCard
    BY <2>1 DEF WorkInv, CardInv, OnCard
  <2>5. CardOf(t)'
    BY <2>1, <2>2, <2>3, <2>4 DEF CardOf, Op, Wanted
  <2>6. JobInv'
    <3>1. job.st = "pending" => ~ok
      BY <2>1, NotPending DEF InMethod, Inside, OnCard
    <3> QED BY <2>1, <2>2, <2>3, <3>1 DEF WorkInv, CardInv, JobInv
  <2> QED BY <2>1, <2>2, <2>4, <2>5, <2>6, PcWork
<1>9. ASSUME NEW t \in Threads, Submit(t)
      PROVE  WorkInv'
  <2>1. /\ th[t].pc = "submit" /\ th' = [th EXCEPT ![t].pc = "poll"]
        /\ UNCHANGED <<ok, verified>> /\ UNCHANGED uc
        /\ job' = [st |-> "pending", src |-> Op(t).src, dst |-> Op(t).dst, n |-> Op(t).n]
    BY <1>9 DEF Submit, fb
  <2>2. /\ th'[t].pc = "poll" /\ th'[t].work = th[t].work
        /\ \A u \in Threads : u # t => th'[u] = th[u]
    BY <1>0, <2>1, NewPc, PcsInside
  <2>3. CardOf(t) /\ th[t].pc \in OnCard
    BY <2>1 DEF WorkInv, CardInv, OnCard
  <2>4. CardOf(t)'
    BY <2>1, <2>2, <2>3 DEF CardOf, Op
  <2>5. JobInv'
    <3>1. \A u \in Threads : u # t => th'[u].pc # "done"
      BY <2>2, <2>3, Alone DEF InMethod, Inside
    <3> QED BY <2>1, <2>2, <2>3, <3>1 DEF JobInv, CardOf
  <2> QED BY <2>1, <2>3, <2>4, <2>5, PcWork DEF OnCard
<1>10. ASSUME NEW t \in Threads, Access(t)
       PROVE  WorkInv'
  <2>1. /\ th[t].pc = "access" /\ OpDone(t) /\ UNCHANGED uc /\ UNCHANGED <<ok, verified>>
        /\ job' = job
    BY <1>10 DEF Access
  <2>2. th[t].pc \in OnCard /\ InMethod(t) /\ ok
    BY <2>1, NotStopping DEF OnCard, InMethod, Inside
  <2>3. job.st # "pending"
    BY <2>1, <2>2, NotPending
  <2>4. JobInv'
    BY <2>1, <2>3 DEF WorkInv, CardInv, JobInv
  <2> QED BY <2>1, <2>2, <2>4, OpDoneWork
<1>11. ASSUME NEW t \in Threads, PollDone(t)
       PROVE  WorkInv'
  <2>1. /\ th[t].pc = "poll" /\ OpDone(t) /\ UNCHANGED uc /\ UNCHANGED <<ok, verified>>
        /\ job' = NoJob
    BY <1>11 DEF PollDone
  <2>2. JobInv'
    BY <2>1 DEF JobInv, NoJob
  <2> QED BY <2>1, <2>2, OpDoneWork DEF OnCard
<1>12. CASE Land
  <2>1. /\ UNCHANGED <<uc, th, pramin>> /\ UNCHANGED <<ok, verified>>
        /\ job.st = "pending" /\ job' = [job EXCEPT !.st = "done"]
    BY <1>12 DEF Land, fb
  <2>2. /\ job'.st = "done" /\ job'.src = job.src /\ job'.dst = job.dst /\ job'.n = job.n
    BY <1>0, <2>1 DEF TypeOK, JobType
  <2>3. JobInv' /\ \A t \in Threads : CardOf(t)'
    BY <2>1, <2>2 DEF WorkInv, CardInv, JobInv, CardOf, Op
  <2> QED BY <2>1, <2>3, OutsideWork
<1>13. CASE UNCHANGED vars
  <2>1. UNCHANGED <<uc, th, card, verified>> /\ ok' = ok
    BY <1>13 DEF vars, uc, card
  <2>2. JobInv' /\ \A t \in Threads : CardOf(t)'
    BY <2>1 DEF WorkInv, CardInv, JobInv, CardOf, Op, card
  <2> QED BY <2>1, <2>2, OutsideWork DEF card
<1> QED BY <1>1, <1>2, <1>3, <1>4, <1>5, <1>6, <1>7, <1>8, <1>9, <1>10, <1>11, <1>12, <1>13,
           ConnWork, CallWork, TransferStep, AllocStep DEF Next, MethodStep

-----------------------------------------------------------------------------
(* The data. *)

\* All buffers are those of the connection whose method runs.
LEMMA BuffersOfOne ==
    ASSUME LockInv, WorkInv, NEW t \in Threads, Entered(t) \/ InMethod(t),
           NEW d \in Conns, bufs[d] # {}
    PROVE  d = th[t].c
<1>1. th[t].c \in Conns /\ Alive(th[t].c)
  BY Alone DEF LockInv, CallsAlive, Alive
<1>2. Alive(d)
  BY DEF WorkInv, BuffersManaged, Alive
<1> QED BY <1>1, <1>2 DEF LockInv, OneConnection

\* While a method of the raw area runs there are no buffers.
LEMMA RawAlone ==
    ASSUME LockInv, WorkInv, NEW t \in Threads, InMethod(t), th[t].sel \in Raw,
           NEW d \in Conns
    PROVE  bufs[d] = {}
<1>1. ~fManaged[th[t].c] /\ th[t].c \in Conns
  BY Alone DEF WorkInv, WorkKnown, WorkOf
<1>2. bufs[th[t].c] = {}
  BY <1>1 DEF WorkInv, BuffersManaged
<1> QED BY <1>2, BuffersOfOne

\* The method of an allocation works on the buffer it has taken.
LEMMA AllocBuffer ==
    ASSUME LockInv, WorkInv, NEW t \in Threads, InMethod(t), th[t].pc # "done",
           th[t].sel = "Alloc"
    PROVE  \E b \in bufs[th[t].c] :
             /\ b \in Buf /\ b.handle = NewHandle(t) /\ b.n = th[t].x
             /\ Op(t) \in Operation /\ ClearOp(b, Op(t))
             /\ \A d \in bufs[th[t].c] : d.handle = NewHandle(t) => d = b
<1>1. th[t].c \in Conns /\ WorkOf(t) /\ th[t].work \in Seq(Operation) /\ bufs[th[t].c] \subseteq Buf
  BY Alone DEF WorkInv, WorkKnown, LockInv, TypeOK, Thread
<1>2. PICK b \in bufs[th[t].c] : /\ b.handle = NewHandle(t) /\ b.n = th[t].x
                                 /\ Len(th[t].work) = 1 /\ ClearOp(b, th[t].work[1])
  BY <1>1 DEF WorkOf
<1>3. Op(t) = th[t].work[1] /\ Op(t) \in Operation
  BY <1>1, <1>2 DEF Op
<1>4. \A d \in bufs[th[t].c] : d.handle = NewHandle(t) => d = b
  BY <1>1, <1>2 DEF WorkInv, BuffersNamed
<1> QED BY <1>1, <1>2, <1>3, <1>4

LEMMA ReturnData ==
    ASSUME IndInv, NEW t \in Threads, Entered(t) \/ InMethod(t),
           th'[t] = Idle, \A u \in Threads : u # t => th'[u] = th[u],
           mem' = mem, ok' => ok,
           \A c \in Conns : /\ bufs'[c] \subseteq bufs[c]
                            /\ \A b \in bufs'[c] : ~Clears(t, c, b)
    PROVE  DataInv'
<1>1. /\ \A u \in Threads : u # t => ~InMethod(u)
      /\ \A u \in Threads : ~InMethod(u)' /\ th'[u].pc # "done"
  BY Alone, IdleThread DEF IndInv, InMethod, Inside, OnCard
<1>2. OwnData'
  <2>1. \A c \in Conns : \A b \in bufs'[c] : \A u \in Threads : ~Clears(u, c, b)
    BY <1>1 DEF Clears
  <2> QED BY <2>1 DEF IndInv, DataInv, OwnData
<1>3. ClearedSoFar' /\ HandedOutClear'
  BY <1>1 DEF ClearedSoFar, HandedOutClear
<1> QED BY <1>2, <1>3 DEF DataInv

\* A step from one point of a method to another.
LEMMA PcData ==
    ASSUME IndInv, NEW t \in Threads, th[t].pc \in OnCard \cup {"lockG"},
           NEW p \in OnCard, th' = [th EXCEPT ![t].pc = p], UNCHANGED uc, ok' = ok, mem' = mem,
           p = "poll" => job'.st = "pending"
    PROVE  DataInv'
<1>1. /\ th'[t].pc = p /\ th'[t].c = th[t].c /\ th'[t].sel = th[t].sel
      /\ th'[t].work = th[t].work /\ \A u \in Threads : u # t => th'[u] = th[u]
  BY NewPc, PcsInside DEF IndInv, LockInv
<1>2. /\ InMethod(t) /\ InMethod(t)' /\ th[t].pc # "done" /\ th'[t].pc # "done"
      /\ Op(t)' = Op(t) /\ NewHandle(t)' = NewHandle(t) /\ next_handle' = next_handle
      /\ bufs' = bufs
  BY <1>1 DEF InMethod, Inside, OnCard, Op, NewHandle, uc
<1>3. \A u \in Threads : u # t => ~InMethod(u) /\ ~InMethod(u)' /\ th'[u].pc # "done"
  BY <1>1, <1>2, Alone DEF IndInv, InMethod, Inside
<1>4. OwnData'
  <2>1. \A c \in Conns : \A b \in bufs[c] : \A u \in Threads : Clears(u, c, b)' <=> Clears(u, c, b)
    BY <1>1, <1>2, <1>3 DEF Clears
  <2> QED BY <1>2, <2>1 DEF IndInv, DataInv, OwnData
<1>5. ClearedSoFar'
  BY <1>1, <1>2, <1>3 DEF IndInv, DataInv, ClearedSoFar
<1>6. HandedOutClear'
  BY <1>2, <1>3 DEF HandedOutClear
<1> QED BY <1>4, <1>5, <1>6 DEF DataInv

\* The end of an operation that has left in the buffers what it may, and has
\* cleared its target if the method clears.
LEMMA OpDoneData ==
    ASSUME IndInv, NEW t \in Threads, th[t].pc \in OnCard, OpDone(t), UNCHANGED uc, ok' = ok,
           \A c \in Conns : \A b \in bufs[c] : \A p \in PagesOf(b) :
             mem[p] \in {Zero, c} => mem'[p] \in {Zero, c},
           th[t].sel = "Alloc" =>
             \A p \in Op(t).src .. Op(t).dst + Op(t).n - 1 : mem'[p] = Zero
    PROVE  DataInv'
<1> DEFINE p == IF WorkLeft(t) = <<>> THEN "done" ELSE "lockG"
           w == WorkLeft(t)
<1>1. /\ LockInv /\ WorkInv /\ InMethod(t) /\ th[t].c \in Conns /\ TypeOK /\ th[t].pc # "done"
      /\ ok
  BY Alone, NotStopping DEF IndInv, InMethod, Inside, LockInv, OnCard
<1>2. w \in Seq(Operation)
  BY <1>1, WorkLeftOk
<1>3. p \in Inside /\ p \notin OnCard /\ (p = "done" <=> w = <<>>) /\ p # "poll"
  BY DEF Inside, OnCard
<1>4. th' = [th EXCEPT ![t].work = w, ![t].pc = p]
  BY DEF OpDone
<1>5. w = WorkLeft(t)
  OBVIOUS
<1> HIDE DEF p, w
<1>6. /\ th'[t].pc = p /\ th'[t].c = th[t].c /\ th'[t].sel = th[t].sel
      /\ \A u \in Threads : u # t => th'[u] = th[u]
  BY <1>1, <1>2, <1>3, <1>4, NewWork
<1>7. th'[t].work = w
  <2>1. th[t] \in Thread /\ th \in [Threads -> Thread]
    BY <1>1 DEF TypeOK
  <2>2. th'[t] = [[th[t] EXCEPT !.work = w] EXCEPT !.pc = p]
    BY <1>4, <2>1
  <2> QED BY <2>1, <2>2 DEF Thread
<1>8. /\ InMethod(t)' /\ NewHandle(t)' = NewHandle(t) /\ next_handle' = next_handle /\ bufs' = bufs
  BY <1>3, <1>6 DEF InMethod, NewHandle, uc
<1>9. \A u \in Threads : u # t => ~InMethod(u) /\ ~InMethod(u)' /\ th'[u].pc # "done"
  BY <1>1, <1>6, <1>8, Alone DEF InMethod, Inside
<1>10. \A c \in Conns : \A b \in bufs[c] : \A u \in Threads :
         Clears(u, c, b)' <=> Clears(u, c, b) /\ p # "done"
  <2>1. ASSUME NEW c \in Conns, NEW b \in bufs[c], NEW u \in Threads
        PROVE  Clears(u, c, b)' <=> Clears(u, c, b) /\ p # "done"
    <3>1. CASE u = t
      BY <1>1, <1>6, <1>8, <3>1 DEF Clears
    <3>2. CASE u # t
      BY <1>9, <3>2 DEF Clears
    <3> QED BY <3>1, <3>2
  <2> QED BY <2>1
<1>11. CASE th[t].sel = "Alloc"
  <2>1. PICK b \in bufs[th[t].c] :
          /\ b \in Buf /\ b.handle = NewHandle(t) /\ b.n = th[t].x
          /\ Op(t) \in Operation /\ ClearOp(b, Op(t))
          /\ \A d \in bufs[th[t].c] : d.handle = NewHandle(t) => d = b
    BY <1>1, <1>11, AllocBuffer
  <2>2. w = ZeroNext(Op(t), b.n)
    BY <1>5, <1>11, <2>1 DEF WorkLeft
  <2>3. \/ w = <<>> /\ Op(t).dst + Op(t).n = b.off + b.n
        \/ \E q \in Operation : w = <<q>> /\ ClearOp(b, q) /\ q.src = Op(t).src
                                /\ q.dst = Op(t).dst + Op(t).n
    BY <2>1, <2>2, ClearNext
  <2>4. p = "done" => \A a \in PagesOf(b) : mem'[a] = Zero
    <3>1. SUFFICES ASSUME p = "done" PROVE \A a \in PagesOf(b) : mem'[a] = Zero
      OBVIOUS
    <3>2. w = <<>>
      BY <1>3, <3>1
    <3>3. Op(t).dst + Op(t).n = b.off + b.n /\ Op(t).src = b.off
      BY <2>1, <2>3, <3>2 DEF ClearOp
    <3>4. PagesOf(b) = Op(t).src .. Op(t).dst + Op(t).n - 1
      BY <2>1, <3>3 DEF PagesOf, Buf, Operation
    <3> QED BY <1>11, <3>4
  <2>5. OwnData'
    <3>1. ASSUME NEW c \in Conns, NEW e \in bufs[c], \A u \in Threads : ~Clears(u, c, e)',
                 NEW a \in PagesOf(e)
          PROVE  mem'[a] \in {Zero, c}
      <4>1. CASE \A u \in Threads : ~Clears(u, c, e)
        BY <1>1, <3>1, <4>1 DEF IndInv, DataInv, OwnData
      <4>2. CASE \E u \in Threads : Clears(u, c, e)
        <5>1. p = "done" /\ c = th[t].c /\ e.handle = NewHandle(t)
          BY <1>9, <1>10, <3>1, <4>2 DEF Clears
        <5> QED BY <2>1, <2>4, <3>1, <5>1
      <4> QED BY <4>1, <4>2
    <3> QED BY <1>8, <3>1 DEF OwnData
  <2>6. ClearedSoFar'
    <3>1. ASSUME p # "done"
          PROVE  \A a \in Op(t)'.src .. Op(t)'.dst - 1 : mem'[a] = Zero
      <4>1. PICK q \in Operation : w = <<q>> /\ q.src = Op(t).src /\ q.dst = Op(t).dst + Op(t).n
        BY <1>3, <2>3, <3>1
      <4>2. Op(t)' = q
        BY <1>7, <4>1 DEF Op
      <4>3. Op(t)'.src .. Op(t)'.dst - 1 = Op(t).src .. Op(t).dst + Op(t).n - 1
        BY <2>1, <4>1, <4>2 DEF Operation
      <4> QED BY <1>11, <4>3
    <3>2. ASSUME NEW u \in Threads, InMethod(u)', th'[u].pc # "done", th'[u].sel = "Alloc"
          PROVE  u = t /\ p # "done" /\ th'[u].pc # "poll"
      BY <1>3, <1>6, <1>9, <3>2
    <3> QED BY <3>1, <3>2 DEF ClearedSoFar
  <2>7. HandedOutClear'
    BY <1>6, <1>8, <1>9, <2>1, <2>4 DEF HandedOutClear
  <2> QED BY <2>5, <2>6, <2>7 DEF DataInv
<1>12. CASE th[t].sel # "Alloc"
  <2>1. OwnData'
    <3>1. \A c \in Conns : \A b \in bufs[c] : \A u \in Threads : ~Clears(u, c, b)
      BY <1>9, <1>12 DEF Clears
    <3> QED BY <1>1, <1>8, <3>1 DEF IndInv, DataInv, OwnData
  <2>2. \A u \in Threads : ~(InMethod(u)' /\ th'[u].sel = "Alloc")
    BY <1>6, <1>9, <1>12
  <2>3. ClearedSoFar' /\ HandedOutClear'
    BY <2>2, <1>6, <1>9, <1>12 DEF ClearedSoFar, HandedOutClear
  <2> QED BY <2>1, <2>3 DEF DataInv
<1> QED BY <1>11, <1>12

\* Beginning a method: nothing is cleared yet, and an allocation's buffer is
\* the only one that need not be.
LEMMA BeginData ==
    ASSUME IndInv, NEW t \in Threads, Entered(t), th'[t].pc = "lockG",
           th'[t].c = th[t].c, th'[t].sel = th[t].sel,
           \A u \in Threads : u # t => th'[u] = th[u], ok' = ok, mem' = mem,
           \A c \in Conns : \A b \in bufs'[c] : b \in bufs[c] \/ Clears(t, c, b)',
           th[t].sel = "Alloc" => Op(t)' \in Operation /\ Op(t)'.dst = Op(t)'.src
    PROVE  DataInv'
<1>1. \A u \in Threads : ~InMethod(u)
  BY EnteredAlone DEF IndInv
<1>2. \A u \in Threads : u # t => ~InMethod(u)' /\ th'[u].pc # "done"
  BY <1>1, Alone DEF IndInv, InMethod, Inside
<1>3. OwnData'
  <2>1. \A c \in Conns : \A b \in bufs[c] : \A u \in Threads : ~Clears(u, c, b)
    BY <1>1 DEF Clears
  <2> QED BY <2>1 DEF IndInv, DataInv, OwnData
<1>4. ClearedSoFar'
  <2>1. ASSUME th[t].sel = "Alloc"
        PROVE  \A p \in Op(t)'.src .. Op(t)'.dst - 1 : mem'[p] = Zero
    BY <2>1 DEF Operation
  <2> QED BY <1>2, <2>1 DEF ClearedSoFar
<1>5. HandedOutClear'
  BY <1>2 DEF HandedOutClear
<1> QED BY <1>3, <1>4, <1>5 DEF DataInv

\* Steps outside the methods that leave the memory alone.
LEMMA OutsideData ==
    ASSUME IndInv, mem' = mem, job' = job, ok' => ok, next_handle' = next_handle,
           \A c \in Conns : bufs'[c] \subseteq bufs[c],
           \A t \in Threads : th'[t] = th[t] \/ (~InMethod(t) /\ th'[t].pc = "lockR")
    PROVE  DataInv'
<1>1. \A t \in Threads : InMethod(t)' => th'[t] = th[t] /\ InMethod(t)
  BY DEF InMethod, Inside, OnCard
<1>2. \A t \in Threads : InMethod(t) => th'[t] = th[t] /\ InMethod(t)'
  BY DEF InMethod
<1>3. OwnData'
  <2>1. ASSUME NEW c \in Conns, NEW b \in bufs'[c], NEW t \in Threads, Clears(t, c, b)
        PROVE  Clears(t, c, b)'
    BY <1>2, <2>1 DEF Clears, NewHandle
  <2> QED BY <2>1 DEF IndInv, DataInv, OwnData
<1>4. ClearedSoFar'
  BY <1>1 DEF IndInv, DataInv, ClearedSoFar, Op
<1>5. HandedOutClear'
  <2>1. ASSUME NEW t \in Threads, th'[t].pc = "done"
        PROVE  th'[t] = th[t] /\ th[t].c \in Conns /\ NewHandle(t)' = NewHandle(t)
    <3>1. InMethod(t)'
      BY <2>1 DEF InMethod, Inside
    <3> QED BY <1>1, <3>1, Alone DEF IndInv, NewHandle
  <2> QED BY <2>1 DEF IndInv, DataInv, HandedOutClear
<1> QED BY <1>3, <1>4, <1>5 DEF DataInv

\* What a copy or a transfer of a running method may leave in the buffers.
LEMMA TargetOk ==
    ASSUME IndInv, NEW t \in Threads, InMethod(t), th[t].pc # "done", ok,
           NEW c \in Conns, NEW b \in bufs[c], NEW p \in PagesOf(b), NEW v,
           th[t].sel \in OnBuffers => v \in {Zero, th[t].c},
           th[t].sel = "Alloc" => v = Zero
    PROVE  v \in {Zero, c}
<1>1. c = th[t].c /\ th[t].sel \notin Raw
  BY BuffersOfOne, RawAlone DEF IndInv
<1>2. th[t].sel \in Raw \cup OnBuffers \cup {"Alloc"}
  BY DEF IndInv, LockInv, TypeOK, Thread, Selectors, WorkInv, WorkKnown, WorkOf
<1> QED BY <1>1, <1>2

\* What a method on buffers finds in the pages it touches.
LEMMA SourceOk ==
    ASSUME IndInv, NEW t \in Threads, InMethod(t), ok, th[t].sel \in OnBuffers,
           NEW p, InBuffers(th[t].c, p)
    PROVE  mem[p] \in {Zero, th[t].c}
<1>1. th[t].c \in Conns
  BY Alone DEF IndInv
<1>2. \A c \in Conns : \A b \in bufs[c] : \A u \in Threads : ~Clears(u, c, b)
  BY Alone DEF IndInv, Clears, OnBuffers
<1> QED BY <1>1, <1>2 DEF IndInv, DataInv, OwnData, InBuffers

LEMMA AccessData ==
    ASSUME IndInv, NEW t \in Threads, Access(t)
    PROVE  DataInv'
<1>1. /\ th[t].pc = "access" /\ OpDone(t) /\ UNCHANGED uc /\ ok' = ok
      /\ mem' = IF Op(t).k = "wr" /\ pramin \in Pages
                  THEN [mem EXCEPT ![pramin] = Op(t).val] ELSE mem
  BY DEF Access
<1>2. /\ LockInv /\ WorkInv /\ TypeOK /\ th[t].pc \in OnCard /\ InMethod(t) /\ th[t].pc # "done"
      /\ ok /\ Op(t) \in Operation
  BY <1>1, NotStopping, WorkLeftOk DEF IndInv, LockInv, OnCard, InMethod, Inside
<1>3. /\ pramin = Op(t).dst /\ Op(t).k # "cp" /\ Op(t).dst + Op(t).n <= NumPages
      /\ Op(t).dst \in Pages
  BY <1>1, <1>2, PageAssumption DEF WorkInv, CardInv, CardOf, Operation, Pages
<1>4. mem \in [Pages -> Conns \cup {Zero, Junk}]
  BY <1>2 DEF TypeOK
<1>5. /\ Op(t).k = "wr" => /\ mem'[Op(t).dst] = Op(t).val
                           /\ \A p \in Pages : p # Op(t).dst => mem'[p] = mem[p]
      /\ Op(t).k # "wr" => mem' = mem
  BY <1>1, <1>3, <1>4
<1>6. /\ th[t].sel = "Alloc" => Op(t).k = "wr" /\ Op(t).val = Zero /\ Op(t).src = Op(t).dst
                               /\ Op(t).n = 1
      /\ th[t].sel \in OnBuffers => (Op(t).k = "wr" => Op(t).val = th[t].c)
  <2>1. CASE th[t].sel = "Alloc"
    BY <1>2, <1>3, <2>1, AllocBuffer DEF ClearOp, OnBuffers
  <2>2. CASE th[t].sel \in OnBuffers
    <3>1. Op(t) = th[t].work[1] /\ 1 \in 1 .. Len(th[t].work)
      BY <1>2, WorkLeftOk DEF Op
    <3> QED BY <1>2, <2>2, <3>1 DEF WorkInv, WorkKnown, WorkOf, TransferOp, OnBuffers
  <2> QED BY <2>1, <2>2
<1>7. ASSUME NEW c \in Conns, NEW b \in bufs[c], NEW p \in PagesOf(b), mem[p] \in {Zero, c}
      PROVE  mem'[p] \in {Zero, c}
  <2>1. p \in Pages
    BY <1>2, PageAssumption DEF PagesOf, Pages, TypeOK, Buf, WorkInv, BuffersNamed
  <2>2. CASE Op(t).k = "wr" /\ p = Op(t).dst
    BY <1>2, <1>5, <1>6, <2>2, TargetOk
  <2>3. CASE ~(Op(t).k = "wr" /\ p = Op(t).dst)
    BY <1>5, <1>7, <2>1, <2>3
  <2> QED BY <2>2, <2>3
<1>8. ASSUME th[t].sel = "Alloc"
      PROVE  \A p \in Op(t).src .. Op(t).dst + Op(t).n - 1 : mem'[p] = Zero
  <2>1. Op(t).src .. Op(t).dst + Op(t).n - 1 = {Op(t).dst}
    BY <1>2, <1>6, <1>8 DEF Operation
  <2> QED BY <1>5, <1>6, <1>8, <2>1
<1> QED BY <1>1, <1>2, <1>7, <1>8, OpDoneData

LEMMA PollDoneData ==
    ASSUME IndInv, NEW t \in Threads, PollDone(t)
    PROVE  DataInv'
<1>1. /\ th[t].pc = "poll" /\ job.st = "done" /\ OpDone(t) /\ UNCHANGED uc /\ ok' = ok
      /\ mem' = mem
  BY DEF PollDone
<1>2. /\ LockInv /\ WorkInv /\ th[t].pc \in OnCard /\ InMethod(t) /\ th[t].pc # "done"
      /\ ok /\ Op(t) \in Operation
  BY <1>1, NotStopping, WorkLeftOk DEF IndInv, OnCard, InMethod, Inside
<1>3. ASSUME th[t].sel = "Alloc", NEW p \in Op(t).src .. Op(t).dst + Op(t).n - 1
      PROVE  mem'[p] = Zero
  <2>1. \/ p \in Op(t).src .. Op(t).dst - 1
        \/ p \in Op(t).dst .. Op(t).dst + Op(t).n - 1
    BY <1>2, <1>3 DEF Operation
  <2> QED BY <1>1, <1>2, <1>3, <2>1 DEF IndInv, DataInv, ClearedSoFar
<1> QED BY <1>1, <1>2, <1>3, OpDoneData

\* A copy lands.  While the context is usable it is the one that is polled
\* for: it copies within the buffers, or what is clear.
LEMMA LandData ==
    ASSUME IndInv, Land
    PROVE  DataInv'
<1>1. /\ job.st = "pending" /\ UNCHANGED fb /\ UNCHANGED uc /\ th' = th /\ ok' = ok
      /\ mem' = [p \in Pages |-> IF p \in job.dst .. job.dst + job.n - 1
                                   THEN mem[job.src + (p - job.dst)] ELSE mem[p]]
  BY DEF Land, fb
<1>2. LockInv /\ WorkInv /\ TypeOK /\ JobInv /\ bufs' = bufs /\ next_handle' = next_handle
  BY <1>1 DEF IndInv, LockInv, WorkInv, CardInv, uc
<1>3. HandedOutClear'
  BY <1>1, <1>2 DEF JobInv, HandedOutClear
<1>4. CASE ~ok
  BY <1>1, <1>3, <1>4 DEF DataInv, OwnData, ClearedSoFar
<1>5. CASE ok
  <2>1. PICK t \in Threads : th[t].pc = "poll"
    BY <1>1, <1>2, <1>5 DEF JobInv
  <2>2. /\ InMethod(t) /\ th[t].pc \in OnCard /\ th[t].pc # "done" /\ th[t].c \in Conns
        /\ \A u \in Threads : u # t => ~InMethod(u)
    BY <1>2, <2>1, Alone DEF InMethod, Inside, OnCard
  <2>3. Op(t) \in Operation /\ th[t].work # <<>> /\ th[t].work \in Seq(Operation)
    BY <1>2, <2>2, WorkLeftOk
  <2>4. PICK o \in Operation : o = Op(t)
    BY <2>3
  <2>5. /\ o.src \in Nat /\ o.dst \in Nat /\ o.n \in Nat /\ o.n > 0
        /\ o.src + o.n <= NumPages /\ o.dst + o.n <= NumPages /\ NumPages \in Nat
        /\ job.src = o.src /\ job.dst = o.dst /\ job.n = o.n /\ o.k = "cp"
    BY <1>2, <2>1, <2>2, <2>4, PageAssumption DEF WorkInv, CardInv, CardOf, Operation
  <2>6. /\ \A p \in o.dst .. o.dst + o.n - 1 :
             p \in Pages /\ mem'[p] = mem[o.src + (p - o.dst)]
        /\ \A p \in Pages : p \notin o.dst .. o.dst + o.n - 1 => mem'[p] = mem[p]
    <3>1. mem' = [p \in Pages |-> IF p \in o.dst .. o.dst + o.n - 1
                                    THEN mem[o.src + (p - o.dst)] ELSE mem[p]]
      BY <1>1, <2>5
    <3>2. \A p \in o.dst .. o.dst + o.n - 1 : p \in Pages
      BY <2>5 DEF Pages
    <3> QED BY <3>1, <3>2
  <2>7. ASSUME th[t].sel = "Alloc"
        PROVE  /\ \A p \in o.src .. o.dst - 1 : p \in Pages /\ mem[p] = Zero /\ mem'[p] = Zero
               /\ \A p \in o.dst .. o.dst + o.n - 1 : mem'[p] = Zero
    <3>1. o.n <= o.dst - o.src
      BY <1>2, <2>2, <2>4, <2>5, <2>7, AllocBuffer DEF ClearOp
    <3>2. \A p \in o.src .. o.dst - 1 : mem[p] = Zero
      BY <1>5, <2>2, <2>4, <2>7 DEF IndInv, DataInv, ClearedSoFar
    <3>3. \A p \in o.src .. o.dst - 1 : p \in Pages /\ p \notin o.dst .. o.dst + o.n - 1
      BY <2>5 DEF Pages
    <3>4. \A p \in o.dst .. o.dst + o.n - 1 : o.src + (p - o.dst) \in o.src .. o.dst - 1
      BY <2>5, <3>1
    <3> QED BY <2>6, <3>2, <3>3, <3>4
  <2>8. ASSUME th[t].sel \in OnBuffers, NEW p \in o.dst .. o.dst + o.n - 1
        PROVE  mem'[p] \in {Zero, th[t].c}
    <3>1. o = th[t].work[1] /\ 1 \in 1 .. Len(th[t].work)
      BY <2>3, <2>4 DEF Op
    <3>2. o.n = 1 /\ InBuffers(th[t].c, o.src)
      BY <1>2, <2>2, <2>8, <3>1 DEF WorkInv, WorkKnown, WorkOf, TransferOp
    <3>3. mem[o.src] \in {Zero, th[t].c}
      BY <1>5, <2>2, <2>8, <3>2, SourceOk
    <3>4. p = o.dst /\ o.src + (p - o.dst) = o.src
      BY <2>5, <2>8, <3>2
    <3> QED BY <2>6, <3>3, <3>4
  <2>9. ASSUME NEW c \in Conns, NEW b \in bufs[c], NEW p \in PagesOf(b), mem[p] \in {Zero, c}
        PROVE  mem'[p] \in {Zero, c}
    <3>1. p \in Pages
      BY <1>2, PageAssumption DEF PagesOf, Pages, TypeOK, Buf, WorkInv, BuffersNamed
    <3>2. CASE p \in o.dst .. o.dst + o.n - 1
      BY <1>5, <2>2, <2>7, <2>8, <3>2, TargetOk
    <3>3. CASE p \notin o.dst .. o.dst + o.n - 1
      BY <2>6, <2>9, <3>1, <3>3
    <3> QED BY <3>2, <3>3
  <2>10. OwnData'
    <3>1. \A c \in Conns : \A b \in bufs[c] : \A u \in Threads : Clears(u, c, b)' <=> Clears(u, c, b)
      BY <1>1, <1>2 DEF Clears, InMethod, NewHandle
    <3> QED BY <1>2, <1>5, <2>9, <3>1 DEF IndInv, DataInv, OwnData
  <2>11. ClearedSoFar'
    BY <1>1, <2>2, <2>4, <2>7 DEF ClearedSoFar, InMethod, Op
  <2> QED BY <1>3, <2>10, <2>11 DEF DataInv
<1> QED BY <1>4, <1>5

LEMMA DataStep == IndInv /\ [Next]_vars => DataInv'
<1> SUFFICES ASSUME IndInv, [Next]_vars
             PROVE  DataInv'
  OBVIOUS
<1>0. LockInv /\ WorkInv /\ TypeOK
  BY DEF IndInv, LockInv
<1>1. CASE TeardownEnter \/ TeardownExit \/ UNCHANGED vars
  <2>1. UNCHANGED <<uc, th, card>> /\ (ok' => ok)
    BY <1>1 DEF TeardownEnter, TeardownExit, vars, uc, card
  <2> QED BY <2>1, OutsideData DEF uc, card
<1>2. ASSUME NEW c \in Conns, OpenSlot(c) \/ OpenFinish(c) \/ Close(c) \/ FreeConn(c)
      PROVE  DataInv'
  <2>1. UNCHANGED <<ok, next_handle, th, mem, job>>
    BY <1>2 DEF OpenSlot, OpenFinish, Close, FreeConn, fb, card
  <2>2. \A d \in Conns : bufs'[d] \subseteq bufs[d]
    BY <1>0, <1>2 DEF OpenSlot, OpenFinish, Close, FreeConn, TypeOK
  <2> QED BY <2>1, <2>2, OutsideData
<1>3. ASSUME NEW t \in Threads, NEW c \in Conns, NEW r \in Requests,
             Call(t, c, r[1], r[2], r[3])
      PROVE  DataInv'
  <2>1. /\ th[t].pc = "idle" /\ th'[t].pc = "lockR" /\ UNCHANGED <<fb, uc, card>>
        /\ \A u \in Threads : u # t => th'[u] = th[u]
    BY <1>0, <1>3 DEF Call, TypeOK
  <2>2. ~InMethod(t)
    BY <2>1 DEF InMethod, Inside, OnCard
  <2> QED BY <2>1, <2>2, OutsideData DEF fb, uc, card
<1>4. ASSUME NEW t \in Threads, Refuse(t)
      PROVE  DataInv'
  <2>1. Entered(t) /\ Return(t) /\ th[t].c \in Conns /\ ~InMethod(t)
        /\ UNCHANGED <<fb, bufs, card>>
    BY <1>0, <1>4, Alone, EnteredAlone DEF Refuse
  <2>2. th'[t] = Idle /\ \A u \in Threads : u # t => th'[u] = th[u]
    BY <1>0, <2>1, Returns
  <2> QED BY <2>1, <2>2, ReturnData DEF fb, card, Clears
<1>5. ASSUME NEW t \in Threads, Free(t)
      PROVE  DataInv'
  <2>1. Entered(t) /\ Return(t) /\ th[t].c \in Conns /\ ~InMethod(t)
        /\ Release(th[t].c, th[t].x) /\ UNCHANGED <<fb, card>>
    BY <1>0, <1>5, Alone, EnteredAlone DEF Free
  <2>2. th'[t] = Idle /\ \A u \in Threads : u # t => th'[u] = th[u]
    BY <1>0, <2>1, Returns
  <2>3. \A c \in Conns : bufs'[c] \subseteq bufs[c]
    BY <1>0, <2>1, ReleaseType
  <2> QED BY <2>1, <2>2, <2>3, ReturnData DEF fb, card, Clears
<1>6. ASSUME NEW t \in Threads, CheckFails(t) \/ HostFails(t) \/ PollTimeout(t)
      PROVE  DataInv'
  <2>1. InMethod(t) /\ Fail(t) /\ Return(t) /\ th[t].c \in Conns /\ mem' = mem /\ (ok' => ok)
    BY <1>0, <1>6, Alone DEF CheckFails, HostFails, PollTimeout, AfterTimeout, InMethod, Inside,
                          OnCard, Fail, fb, card
  <2>2. th'[t] = Idle /\ \A u \in Threads : u # t => th'[u] = th[u]
    BY <1>0, <2>1, Returns
  <2>3. CASE th[t].sel = "Alloc"
    <3>1. Release(th[t].c, NewHandle(t))
      BY <2>1, <2>3 DEF Fail
    <3>2. /\ bufs'[th[t].c] = {b \in bufs[th[t].c] : b.handle # NewHandle(t)}
          /\ \A d \in Conns : d # th[t].c => bufs'[d] = bufs[d]
      BY <1>0, <2>1, <3>1, ReleaseType
    <3>3. \A c \in Conns : /\ bufs'[c] \subseteq bufs[c]
                           /\ \A b \in bufs'[c] : ~Clears(t, c, b)
      BY <3>2 DEF Clears
    <3> QED BY <2>1, <2>2, <3>3, ReturnData
  <2>4. CASE th[t].sel # "Alloc"
    <3>1. bufs' = bufs
      BY <2>1, <2>4 DEF Fail
    <3> QED BY <2>1, <2>2, <2>4, <3>1, ReturnData DEF Clears
  <2> QED BY <2>3, <2>4
<1>7. ASSUME NEW t \in Threads, Done(t)
      PROVE  DataInv'
  <2>1. InMethod(t) /\ th[t].pc = "done" /\ Return(t) /\ th[t].c \in Conns
        /\ UNCHANGED <<fb, bufs, card>>
    BY <1>0, <1>7, Alone DEF Done, InMethod, Inside
  <2>2. th'[t] = Idle /\ \A u \in Threads : u # t => th'[u] = th[u]
    BY <1>0, <2>1, Returns
  <2> QED BY <2>1, <2>2, ReturnData DEF fb, card, Clears
<1>8. ASSUME NEW t \in Threads, Transfer(t)
      PROVE  DataInv'
  <2>1. /\ Entered(t) /\ ~BadArgument(t) /\ th[t].sel \in Raw \cup OnBuffers
        /\ Begin(t, TransferWork(t)) /\ UNCHANGED <<fb, bufs, card>> /\ th[t].c \in Conns
    BY <1>0, <1>8, Alone DEF Transfer
  <2>2. PICK w \in Seq(Operation) : w = TransferWork(t)
    BY <1>0, <2>1, TransferWorkOk DEF WorkInv
  <2>3. Begin(t, w)
    BY <2>1, <2>2 DEF Begin
  <2>4. /\ th'[t].pc = "lockG" /\ th'[t].c = th[t].c /\ th'[t].sel = th[t].sel
        /\ \A u \in Threads : u # t => th'[u] = th[u]
    BY <1>0, <2>1, <2>3, Begins
  <2>5. th[t].sel # "Alloc"
    BY <2>1 DEF Raw, OnBuffers
  <2> QED BY <2>1, <2>4, <2>5, BeginData DEF fb, card
<1>9. ASSUME NEW t \in Threads, Alloc(t)
      PROVE  DataInv'
  <2>1. /\ Entered(t) /\ th[t].sel = "Alloc" /\ UNCHANGED <<fb, card>>
        /\ next_handle' = [next_handle EXCEPT ![th[t].c] = @ + 1]
    BY <1>9 DEF Alloc
  <2>2. PICK c \in Conns : c = th[t].c
    BY <1>0, <2>1, Alone
  <2>3. PICK o \in FreePlaces(c, th[t].x) :
          /\ bufs' = [bufs EXCEPT ![c] =
                        @ \cup {[handle |-> next_handle[c], off |-> o, n |-> th[t].x]}]
          /\ Begin(t, <<wr(o, Zero)>>)
    BY <1>9, <2>2 DEF Alloc
  <2>4. PICK new : new = [handle |-> next_handle[c], off |-> o, n |-> th[t].x]
    OBVIOUS
  <2> DEFINE q == wr(o, Zero)
  <2>5. q \in Operation /\ q.dst = q.src
    BY PageAssumption, <2>3 DEF wr, Operation, FreePlaces, Pages
  <2>6. /\ bufs'[c] = bufs[c] \cup {new} /\ \A d \in Conns : d # c => bufs'[d] = bufs[d]
        /\ next_handle'[c] = next_handle[c] + 1 /\ next_handle[c] \in Nat
        /\ new.handle = next_handle[c]
    BY <1>0, <2>1, <2>2, <2>3, <2>4 DEF TypeOK
  <2>7. Begin(t, <<q>>)
    BY <2>3
  <2> HIDE DEF q
  <2>8. <<q>> \in Seq(Operation)
    BY <2>5
  <2>9. /\ th'[t].pc = "lockG" /\ th'[t].c = c /\ th'[t].sel = "Alloc"
        /\ th'[t].work = <<q>> /\ \A u \in Threads : u # t => th'[u] = th[u]
    BY <1>0, <2>1, <2>2, <2>7, <2>8, Begins
  <2>10. Op(t)' \in Operation /\ Op(t)'.dst = Op(t)'.src
    BY <2>5, <2>9 DEF Op
  <2>11. Clears(t, c, new)'
    <3>1. th'[t].pc \in Inside /\ th'[t].pc # "done"
      BY <2>9 DEF Inside
    <3>2. new.handle = next_handle'[th'[t].c] - 1
      BY <2>6, <2>9
    <3> QED BY <2>9, <3>1, <3>2 DEF Clears, InMethod, NewHandle
  <2>12. \A d \in Conns : \A b \in bufs'[d] : b \in bufs[d] \/ Clears(t, d, b)'
    <3>1. \A d \in Conns : \A b \in bufs'[d] : b \in bufs[d] \/ (d = c /\ b = new)
      BY <2>6
    <3> QED BY <2>11, <3>1
  <2> QED BY <2>1, <2>2, <2>9, <2>10, <2>12, BeginData DEF fb, card
<1>10. ASSUME NEW t \in Threads, LockGpu(t)
       PROVE  DataInv'
  BY <1>10, PcData DEF LockGpu, OnCard, card
<1>11. ASSUME NEW t \in Threads, Aim(t)
       PROVE  DataInv'
  <2> DEFINE p == IF Op(t).k = "cp" THEN "submit" ELSE "access"
  <2>1. p \in OnCard /\ p # "poll"
    BY DEF OnCard
  <2>2. /\ th[t].pc \in OnCard \cup {"lockG"} /\ th' = [th EXCEPT ![t].pc = p]
        /\ UNCHANGED <<fb, uc, mem, job>>
    BY <1>11 DEF Aim, OnCard
  <2> HIDE DEF p
  <2> QED BY <2>1, <2>2, PcData DEF fb
<1>12. ASSUME NEW t \in Threads, Submit(t)
       PROVE  DataInv'
  <2>1. /\ th[t].pc \in OnCard \cup {"lockG"} /\ "poll" \in OnCard
        /\ th' = [th EXCEPT ![t].pc = "poll"] /\ UNCHANGED <<fb, uc, pramin, mem>>
        /\ job'.st = "pending"
    BY <1>12 DEF Submit, OnCard
  <2> QED BY <2>1, PcData DEF fb
<1> QED BY <1>1, <1>2, <1>3, <1>4, <1>5, <1>6, <1>7, <1>8, <1>9, <1>10, <1>11, <1>12,
           AccessData, PollDoneData, LandData DEF Next, MethodStep

-----------------------------------------------------------------------------
(* The theorems. *)

LEMMA InitInv == Init => IndInv
<1> SUFFICES ASSUME Init
             PROVE  IndInv
  OBVIOUS
<1>1. \A t \in Threads : th[t] = Idle /\ ~InMethod(t) /\ th[t].pc = "idle"
  BY IdleThread DEF Init, InMethod, Inside, OnCard
<1>2. TypeOK
  <2>1. th \in [Threads -> Thread]
    BY IdleThread DEF Init
  <2>2. job \in JobType
    BY DEF Init, NoJob, JobType
  <2>3. mem \in [Pages -> Conns \cup {Zero, Junk}] /\ pramin \in Pages \cup {Ctl}
    BY DEF Init
  <2>4. conn \in [Conns -> {"none", "starting", "open", "inactive", "freed"}]
    BY DEF Init
  <2>5. fManaged \in [Conns -> BOOLEAN]
    BY Zenon DEF Init
  <2>6. bufs \in [Conns -> SUBSET Buf] /\ next_handle \in [Conns -> Nat]
    BY DEF Init
  <2>7. fResourceLock \in [Conns -> Threads \cup {None}]
    BY DEF Init
  <2> QED BY <2>1, <2>2, <2>3, <2>4, <2>5, <2>6, <2>7 DEF Init, TypeOK
<1>3. OneConnection /\ CallsAlive /\ CardGuarded
  BY <1>1 DEF Init, OneConnection, Alive, CallsAlive, CardGuarded, OnCard
<1>4. BuffersNamed /\ BuffersManaged
  BY DEF Init, BuffersNamed, BuffersManaged
<1>5. WorkKnown
  BY <1>1, IdleThread DEF WorkKnown, WorkOf, Raw
<1>6. CardInv
  BY <1>1 DEF Init, CardInv, CardOf, JobInv, NoJob, OnCard
<1>7. DataInv
  BY <1>1 DEF Init, DataInv, OwnData, ClearedSoFar, HandedOutClear
<1> QED BY <1>2, <1>3, <1>4, <1>5, <1>6, <1>7 DEF IndInv, LockInv, WorkInv

\* The inductive invariant holds for any threads, connections and pages.
THEOREM Invariance == Spec => []IndInv
<1>1. IndInv /\ [Next]_vars => IndInv'
  BY LockStep, WorkStep, DataStep DEF IndInv
<1> QED BY InitInv, <1>1, PTL DEF Spec

\* MilcorixFB::stop unmaps BAR0 under fGpuLock: no thread is between the
\* lock and the card then, nor gets there later.
THEOREM NoAccessAfterStop == Spec => []MmioWhileMapped
<1>1. IndInv => MmioWhileMapped
  <2> SUFFICES ASSUME IndInv, NEW t \in Threads, th[t].pc \in OnCard
               PROVE  bar0
    BY DEF MmioWhileMapped
  <2>1. ok /\ provider = "up"
    BY DEF IndInv, LockInv, CardGuarded
  <2> QED BY <2>1 DEF IndInv, LockInv, CardGuarded
<1> QED BY Invariance, <1>1, PTL

\* Between the operations of a method on buffers no other call frees the
\* buffer under it: fResourceLock is held over all of them.
THEOREM NoFreeInBetween == Spec => []WorkInLiveBuffers
<1>1. IndInv => WorkInLiveBuffers
  <2> SUFFICES ASSUME IndInv, NEW t \in Threads, th[t].sel \in OnBuffers \cup {"Alloc"},
                      NEW i \in 1 .. Len(th[t].work), NEW p \in Touched(th[t].work[i])
               PROVE  InBuffers(th[t].c, p)
    BY DEF WorkInLiveBuffers, InBuffers
  <2>0. PICK o : o = th[t].work[i]
    OBVIOUS
  <2>1. /\ LockInv /\ WorkInv /\ TypeOK /\ WorkOf(t)
        /\ th[t].work \in Seq(Operation) /\ th[t].pc \in Inside \cup {"idle", "lockR"}
    BY DEF IndInv, LockInv, TypeOK, Thread, WorkInv, WorkKnown
  <2>2. th[t].work # <<>> /\ o \in Operation
    BY <2>0, <2>1
  <2>3. InMethod(t) /\ th[t].pc # "done"
    BY <2>1, <2>2 DEF WorkOf, InMethod
  <2>4. /\ o.src \in Nat /\ o.dst \in Nat /\ o.n \in Nat /\ o.n > 0
        /\ p \in (o.src .. o.src + o.n - 1) \cup (o.dst .. o.dst + o.n - 1)
    BY <2>0, <2>2 DEF Touched, Operation
  <2>5. CASE th[t].sel \in OnBuffers
    <3>1. TransferOp(th[t].c, o)
      BY <2>0, <2>1, <2>3, <2>5 DEF WorkOf
    <3>2. o.n = 1 /\ InBuffers(th[t].c, o.src) /\ InBuffers(th[t].c, o.dst)
      BY <3>1 DEF TransferOp
    <3>3. p = o.src \/ p = o.dst
      BY <2>4, <3>2
    <3> QED BY <3>2, <3>3
  <2>6. CASE th[t].sel = "Alloc"
    <3>1. PICK b \in bufs[th[t].c] : Len(th[t].work) = 1 /\ ClearOp(b, th[t].work[1])
      BY <2>1, <2>3, <2>6 DEF WorkOf
    <3>2. b \in Buf /\ ClearOp(b, o)
      BY <2>0, <2>1, <2>3, <3>1, Alone DEF TypeOK
    <3>3. /\ b.off \in Nat /\ b.n \in Nat /\ o.src = b.off /\ o.src <= o.dst
          /\ o.dst + o.n <= b.off + b.n
      BY <3>2 DEF ClearOp, Buf
    <3>4. p \in Nat /\ b.off <= p /\ p <= b.off + b.n - 1
      <4>1. CASE p \in o.src .. o.src + o.n - 1
        BY <2>4, <3>3, <4>1
      <4>2. CASE p \in o.dst .. o.dst + o.n - 1
        BY <2>4, <3>3, <4>2
      <4> QED BY <2>4, <4>1, <4>2
    <3>5. p \in PagesOf(b)
      BY <3>3, <3>4 DEF PagesOf
    <3> QED BY <3>1, <3>5 DEF InBuffers
  <2> QED BY <2>5, <2>6
<1> QED BY Invariance, <1>1, PTL

\* methodRead hands a managed connection zeroes or what it wrote itself, and
\* methodAlloc returns a handle only when every page behind it is clear:
\* whatever earlier connections left in VRAM, and whenever late copies land.
THEOREM OwnDataOnly == Spec => []NoForeignData
<1>1. IndInv => NoForeignData
  <2> SUFFICES ASSUME IndInv, NEW t \in Threads
               PROVE  /\ th[t].pc = "access" /\ Op(t).k = "rd" /\ fManaged[th[t].c]
                           => pramin \in Pages /\ mem[pramin] \in {Zero, th[t].c}
                      /\ th[t].pc = "done" /\ th[t].sel = "Alloc" =>
                           \A p \in PagesOf(Buffer(th[t].c, NewHandle(t))) : mem[p] = Zero
    BY DEF NoForeignData
  <2>1. LockInv /\ WorkInv /\ DataInv /\ TypeOK /\ WorkOf(t) /\ th[t] \in Thread
    BY DEF IndInv, LockInv, TypeOK, WorkInv, WorkKnown
  <2>2. ASSUME th[t].pc = "access", Op(t).k = "rd", fManaged[th[t].c]
        PROVE  pramin \in Pages /\ mem[pramin] \in {Zero, th[t].c}
    <3>1. /\ InMethod(t) /\ th[t].pc \in OnCard /\ th[t].pc # "done" /\ ok
          /\ Op(t) \in Operation /\ th[t].work # <<>> /\ th[t].work \in Seq(Operation)
      BY <2>1, <2>2, NotStopping, WorkLeftOk DEF InMethod, Inside, OnCard
    <3>2. th[t].sel # "Alloc"
      BY <2>1, <2>2, <3>1, AllocBuffer DEF ClearOp
    <3>3. th[t].sel \in OnBuffers
      BY <2>1, <2>2, <3>1, <3>2 DEF WorkOf, Thread, Selectors
    <3>4. Op(t) = th[t].work[1] /\ 1 \in 1 .. Len(th[t].work)
      BY <3>1 DEF Op
    <3>5. InBuffers(th[t].c, Op(t).dst) /\ Op(t).n = 1
      BY <2>1, <3>1, <3>3, <3>4 DEF WorkOf, TransferOp
    <3>6. pramin = Op(t).dst /\ Op(t).dst + Op(t).n <= NumPages
      BY <2>1, <2>2, <3>1 DEF WorkInv, CardInv, CardOf
    <3>7. pramin \in Pages
      BY <3>1, <3>5, <3>6, PageAssumption DEF Pages, Operation
    <3>8. mem[Op(t).dst] \in {Zero, th[t].c}
      BY <3>1, <3>3, <3>5, SourceOk
    <3> QED BY <3>6, <3>7, <3>8
  <2>3. ASSUME th[t].pc = "done", th[t].sel = "Alloc"
        PROVE  \A p \in PagesOf(Buffer(th[t].c, NewHandle(t))) : mem[p] = Zero
    <3>1. InMethod(t)
      BY <2>3 DEF InMethod, Inside
    <3>2. PICK b \in bufs[th[t].c] : b.handle = NewHandle(t)
      BY <2>1, <2>3, <3>1 DEF WorkOf
    <3>3. HasBuffer(th[t].c, NewHandle(t)) /\ th[t].c \in Conns
      BY <2>1, <3>1, <3>2, Alone DEF HasBuffer
    <3>4. /\ Buffer(th[t].c, NewHandle(t)) \in bufs[th[t].c]
          /\ Buffer(th[t].c, NewHandle(t)).handle = NewHandle(t)
      BY <3>3, BufferFound
    <3> QED BY <2>1, <2>3, <3>4 DEF DataInv, HandedOutClear
  <2> QED BY <2>2, <2>3
<1> QED BY Invariance, <1>1, PTL

-----------------------------------------------------------------------------
(* The engine below. *)

Polling == \E t \in Threads : th[t].pc = "poll"

\* A step that neither starts, ends nor gives up a copy is none of the engine.
LEMMA EngineStutters ==
    ASSUME ok' = ok, mem' = mem, job' = job, Polling' <=> Polling
    PROVE  UNCHANGED <<ok, mem, Job>>
BY DEF Job, Polling

\* A method step that leaves its thread off the poll, as it was.
LEMMA PollingKept ==
    ASSUME NEW t \in Threads, th[t].pc # "poll", th'[t].pc # "poll",
           \A u \in Threads : u # t => th'[u] = th[u]
    PROVE  Polling' <=> Polling
BY DEF Polling

\* While a thread is on the card before its doorbell, the engine is free.
LEMMA EngineFree ==
    ASSUME IndInv, NEW t \in Threads, th[t].pc \in OnCard, th[t].pc # "poll"
    PROVE  ok /\ ~Polling /\ Job = Engine!NoJob /\ job.st # "pending"
<1>1. /\ LockInv /\ WorkInv /\ InMethod(t) /\ ok /\ job \in JobType
      /\ job.st = "none" => job = NoJob
  BY NotStopping DEF IndInv, LockInv, TypeOK, InMethod, Inside, WorkInv, CardInv, JobInv
<1>2. job.st # "pending"
  BY <1>1, NotPending
<1>3. ~Polling
  BY <1>1, Alone DEF Polling, InMethod, Inside, OnCard
<1> QED BY <1>1, <1>2, <1>3 DEF Job, JobType, Polling, NoJob, Engine!NoJob

LEMMA EngineStep == IndInv /\ IndInv' /\ [Next]_vars => [Engine!Next]_<<ok, mem, Job>>
<1> SUFFICES ASSUME IndInv, IndInv', [Next]_vars
             PROVE  Engine!Next \/ UNCHANGED <<ok, mem, Job>>
  OBVIOUS
<1>0. /\ LockInv /\ WorkInv /\ TypeOK /\ TypeOK' /\ JobInv /\ job \in JobType
      /\ mem' \in [Pages -> Conns \cup {Zero, Junk}]
  BY DEF IndInv, LockInv, TypeOK, WorkInv, CardInv
<1>1. CASE TeardownEnter
  <2>1. /\ fGpuLock = None /\ ok' = FALSE /\ UNCHANGED <<uc, th, card>>
    BY <1>1 DEF TeardownEnter
  <2>2. ~Polling /\ ~Polling'
    BY <1>0, <2>1, NameAssumption DEF Polling, LockInv, CardGuarded, OnCard
  <2>3. CASE ok
    <3>1. Job = Engine!NoJob /\ Job' = Engine!NoJob
      BY <1>0, <2>1, <2>2, <2>3 DEF Job, Polling, JobInv, JobType, card, NoJob, Engine!NoJob
    <3> QED BY <2>1, <2>3, <3>1 DEF Engine!Next, Engine!Lose, Engine!NoJob, card
  <2>4. CASE ~ok
    <3>1. ok' = ok
      BY <1>0, <2>1, <2>4 DEF TypeOK
    <3> QED BY <2>1, <2>2, <3>1, EngineStutters DEF card
  <2> QED BY <2>3, <2>4
<1>2. CASE TeardownExit
  <2>1. ok' = ok /\ UNCHANGED <<th, card>>
    BY <1>2 DEF TeardownExit
  <2> QED BY <2>1, EngineStutters DEF card, Polling
<1>3. ASSUME NEW c \in Conns, OpenSlot(c) \/ OpenFinish(c) \/ Close(c) \/ FreeConn(c)
      PROVE  UNCHANGED <<ok, mem, Job>>
  <2>1. ok' = ok /\ UNCHANGED <<th, card>>
    BY <1>3 DEF OpenSlot, OpenFinish, Close, FreeConn, fb
  <2> QED BY <2>1, EngineStutters DEF card, Polling
<1>4. ASSUME NEW t \in Threads, NEW c \in Conns, NEW r \in Requests,
             Call(t, c, r[1], r[2], r[3])
      PROVE  UNCHANGED <<ok, mem, Job>>
  <2>1. /\ th[t].pc = "idle" /\ th'[t].pc = "lockR" /\ UNCHANGED <<fb, card>>
        /\ \A u \in Threads : u # t => th'[u] = th[u]
    BY <1>0, <1>4 DEF Call, TypeOK
  <2> QED BY <2>1, PollingKept, EngineStutters DEF fb, card
<1>5. ASSUME NEW t \in Threads,
             Refuse(t) \/ Free(t) \/ CheckFails(t) \/ HostFails(t) \/ Done(t)
      PROVE  UNCHANGED <<ok, mem, Job>>
  <2>1. /\ Entered(t) \/ InMethod(t)
        /\ th[t].pc # "poll" /\ Return(t) /\ UNCHANGED fb /\ UNCHANGED card
    BY <1>5 DEF Refuse, Free, CheckFails, HostFails, Done, Entered, Fail, InMethod, Inside
  <2>2. th[t].c \in Conns
    BY <1>0, <2>1, Alone
  <2>3. th'[t].pc = "idle" /\ \A u \in Threads : u # t => th'[u] = th[u]
    BY <1>0, <2>1, <2>2, Returns
  <2> QED BY <2>1, <2>3, PollingKept, EngineStutters DEF fb, card
<1>6. ASSUME NEW t \in Threads, Transfer(t) \/ Alloc(t)
      PROVE  UNCHANGED <<ok, mem, Job>>
  <2>1. Entered(t) /\ UNCHANGED fb /\ UNCHANGED card /\ th[t].pc # "poll" /\ th[t] \in Thread
    BY <1>0, <1>6 DEF Transfer, Alloc, Entered, TypeOK
  <2>2. PICK w : Begin(t, w)
    BY <1>6 DEF Transfer, Alloc
  <2>3. /\ th'[t] = [[th[t] EXCEPT !.pc = "lockG"] EXCEPT !.work = w]
        /\ \A u \in Threads : u # t => th'[u] = th[u]
    BY <1>0, <2>2 DEF Begin, TypeOK
  <2>4. th'[t].pc = "lockG"
    BY <2>1, <2>3 DEF Thread
  <2> QED BY <2>1, <2>3, <2>4, PollingKept, EngineStutters DEF fb, card
<1>7. ASSUME NEW t \in Threads, LockGpu(t) \/ Aim(t)
      PROVE  UNCHANGED <<ok, mem, Job>>
  <2>1. /\ th[t].pc \in {"lockG", "aim"} /\ ok' = ok /\ mem' = mem /\ job' = job
    BY <1>7 DEF LockGpu, Aim, fb, card
  <2>2. PICK p \in {"aim", "submit", "access"} : th' = [th EXCEPT ![t].pc = p]
    BY <1>7 DEF LockGpu, Aim
  <2>3. p \in Inside
    BY <2>2 DEF Inside, OnCard
  <2>4. th'[t].pc = p /\ \A u \in Threads : u # t => th'[u] = th[u]
    BY <1>0, <2>2, <2>3, NewPc
  <2> QED BY <2>1, <2>2, <2>4, PollingKept, EngineStutters
<1>8. ASSUME NEW t \in Threads, Access(t)
      PROVE  Engine!HostWrite
  <2>1. /\ th[t].pc = "access" /\ OpDone(t) /\ ok' = ok /\ job' = job
    BY <1>8 DEF Access
  <2>2. th[t].pc \in OnCard
    BY <2>1 DEF OnCard
  <2>3. ok /\ ~Polling /\ Job = Engine!NoJob
    BY <2>1, <2>2, EngineFree
  <2>4. \A u \in Threads : u # t => th'[u] = th[u]
    BY <1>0, <2>1 DEF OpDone, TypeOK
  <2>5. th'[t].pc # "poll"
    <3> DEFINE p == IF WorkLeft(t) = <<>> THEN "done" ELSE "lockG"
    <3>1. th'[t] = [[th[t] EXCEPT !.work = WorkLeft(t)] EXCEPT !.pc = p] /\ th[t] \in Thread
      BY <1>0, <2>1 DEF OpDone, TypeOK
    <3>2. p # "poll"
      OBVIOUS
    <3> HIDE DEF p
    <3>3. th'[t].pc = p
      BY <3>1 DEF Thread
    <3> QED BY <3>2, <3>3
  <2>6. Polling' <=> Polling
    BY <2>1, <2>4, <2>5, PollingKept
  <2>7. Job' = Job
    BY <2>1, <2>6 DEF Job, Polling
  <2> QED BY <1>0, <2>1, <2>3, <2>7 DEF Engine!HostWrite
<1>9. ASSUME NEW t \in Threads, Submit(t)
      PROVE  Engine!Next
  <2>1. /\ th[t].pc = "submit" /\ th' = [th EXCEPT ![t].pc = "poll"] /\ ok' = ok /\ mem' = mem
        /\ job' = [st |-> "pending", src |-> Op(t).src, dst |-> Op(t).dst, n |-> Op(t).n]
    BY <1>9 DEF Submit, fb
  <2>2. th[t].pc \in OnCard
    BY <2>1 DEF OnCard
  <2>3. ok /\ Job = Engine!NoJob
    BY <2>1, <2>2, EngineFree
  <2>4. PICK o \in Operation : o = Op(t)
    BY <1>0, <2>2, WorkLeftOk
  <2>5. /\ o.k = "cp" /\ ~Overlap(o) /\ o.src + o.n <= NumPages /\ o.dst + o.n <= NumPages
        /\ o.src \in Nat /\ o.dst \in Nat /\ o.n \in Nat /\ o.n > 0 /\ NumPages \in Nat
    BY <1>0, <2>1, <2>2, <2>4, PageAssumption DEF WorkInv, CardInv, CardOf, Operation
  <2>6. o.src \in Pages /\ o.dst \in Pages
    BY <2>5 DEF Pages
  <2>7. o.n \in Pages
    BY <2>5 DEF Pages, Overlap
  <2>8. Job' = [st |-> "pending", src |-> o.src, dst |-> o.dst, n |-> o.n]
    BY <2>1, <2>4 DEF Job
  <2>9. Engine!Submit(o.src, o.dst, o.n)
    BY <2>1, <2>3, <2>8 DEF Engine!Submit, Engine!NoJob
  <2> QED BY <2>6, <2>7, <2>9 DEF Engine!Next
<1>10. ASSUME NEW t \in Threads, PollDone(t)
       PROVE  Engine!Complete
  <2>1. /\ th[t].pc = "poll" /\ job.st = "done" /\ job' = NoJob /\ ok' = ok /\ mem' = mem
    BY <1>10 DEF PollDone
  <2>2. ok /\ Polling
    BY <1>0, <2>1, NotStopping DEF OnCard, Polling
  <2>3. Job = job
    BY <2>2 DEF Job, Polling
  <2>4. Job' = NoJob
    BY <2>1 DEF Job, NoJob
  <2> QED BY <2>1, <2>2, <2>3, <2>4 DEF Engine!Complete, NoJob, Engine!NoJob
<1>11. ASSUME NEW t \in Threads, PollTimeout(t)
       PROVE  Engine!Lose
  <2>1. /\ th[t].pc = "poll" /\ job.st = "pending" /\ ok' = FALSE /\ job' = job /\ mem' = mem
    BY <1>11 DEF PollTimeout, AfterTimeout, card
  <2>2. ok
    BY <1>0, <2>1, NotStopping DEF OnCard
  <2>3. Job = job /\ Job' = job
    BY <2>1 DEF Job
  <2> QED BY <2>1, <2>2, <2>3 DEF Engine!Lose
<1>12. CASE Land
  <2>1. /\ job.st = "pending" /\ ok' = ok /\ th' = th /\ job' = [job EXCEPT !.st = "done"]
        /\ mem' = [p \in Pages |-> IF p \in job.dst .. job.dst + job.n - 1
                                     THEN mem[job.src + (p - job.dst)] ELSE mem[p]]
    BY <1>12 DEF Land, fb
  <2>2. Job = job /\ job'.st = "done"
    BY <1>0, <2>1 DEF Job, JobType
  <2>3. CASE ok
    <3>1. Polling'
      BY <1>0, <2>1, <2>3 DEF JobInv, Polling
    <3>2. Job' = job'
      BY <3>1 DEF Job, Polling
    <3> QED BY <2>1, <2>2, <2>3, <3>2 DEF Engine!Next, Engine!Land
  <2>4. CASE ~ok
    <3>1. ~Polling'
      BY <1>0, <2>1, <2>4, NotStopping DEF Polling, OnCard
    <3>2. Job' = NoJob
      BY <2>2, <3>1 DEF Job, Polling
    <3> QED BY <2>1, <2>2, <2>4, <3>2 DEF Engine!Next, Engine!Land, NoJob, Engine!NoJob
  <2> QED BY <2>3, <2>4
<1>13. CASE UNCHANGED vars
  BY <1>13, EngineStutters DEF vars, Polling
<1> QED BY <1>1, <1>2, <1>3, <1>4, <1>5, <1>6, <1>7, <1>8, <1>9, <1>10, <1>11, <1>12, <1>13
        DEF Next, MethodStep, Engine!Next

\* The locks of the kext give the engine what it demands: one job at a time,
\* no transfer through the window while a job is under way, and neither after
\* a job was given up.  GpuChannel implements the same engine below.
THEOREM ServiceUsesEngine == Spec => UsesEngine
<1>1. Init => Engine!Init
  <2> SUFFICES ASSUME Init PROVE Engine!Init
    OBVIOUS
  <2>1. Job = Engine!NoJob
    BY DEF Init, Job, NoJob, Engine!NoJob
  <2>2. mem \in [Pages -> Conns \cup {Zero, Junk}]
    BY DEF Init
  <2> QED BY <2>1, <2>2 DEF Engine!Init, Init, Engine!NoJob
<1> QED BY <1>1, EngineStep, Invariance, PTL DEF Spec, UsesEngine, Engine!Spec, Engine!vars
=============================================================================
