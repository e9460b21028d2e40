---------------------------- MODULE GspRpcProofs ----------------------------
(***************************************************************************)
(* Proofs about GspRpc, for any length of the rings, any messages and any  *)
(* number of calls and events.                                             *)
(*                                                                         *)
(* The argument: between the host's read pointer and the firmware's write  *)
(* pointer lie whole messages, so that the host, which reads their counts, *)
(* goes from one start to the next.  Replies lie there in the order of the *)
(* commands, and each call takes at most one: every call that was given up *)
(* leaves at most one behind.  So the host is at most one command per      *)
(* call given up, and its own, ahead of the firmware.                      *)
(***************************************************************************)
EXTENDS GspRpc, TLAPS

Msg == [fn : Functions \cup {EventFn}, id : Int, ec : Nat, hdr : BOOLEAN]

TypeOK ==
    /\ cmdq \in [Slots -> Msg] /\ cmdq_writeptr \in Slots
    /\ msgq \in [Slots -> Msg] /\ msgq_writeptr \in Slots
    /\ cmdq_wptr \in Slots /\ seq \in Nat /\ msgq_rptr \in Slots /\ msgq_readptr = msgq_rptr
    /\ pc \in {"idle", "publish", "poll", "scan", "consume"}
    /\ fn \in Functions \cup {EventFn} /\ wptr \in Slots /\ got \in Int
    /\ rc \in {"none", "bounds", "ok", "timeout"}
    /\ gspget \in Slots /\ taken \in Nat /\ owed \in Seq(Msg) /\ events \in Nat
    /\ given_up \in Nat

\* How far q is behind p on the ring.
Dist(p, q) == IF p <= q THEN q - p ELSE q - p + MsgCount

-----------------------------------------------------------------------------
(* The message queue as the host finds it. *)

Used == Dist(msgq_rptr, msgq_writeptr)
Seen == Dist(msgq_rptr, wptr)
At(i) == msgq[Advance(msgq_rptr, i)]

\* A message that starts at i ends before the write pointer, and the next one
\* starts behind it.
WholeMessage(i) ==
    /\ At(i).ec > 0 /\ i + At(i).ec <= Used
    /\ i + At(i).ec < Used => At(i + At(i).ec).hdr
    /\ \A k \in 1 .. At(i).ec - 1 : ~At(i + k).hdr

Framed ==
    /\ Used > 0 => At(0).hdr
    /\ \A i \in 0 .. Used - 1 : At(i).hdr => WholeMessage(i)
    /\ pc \in {"scan", "consume"} => Seen <= Used /\ (Seen < Used => At(Seen).hdr)
    /\ pc = "consume" => Seen > 0 /\ fn # EventFn /\ Matches
    /\ pc \in {"publish", "poll", "scan"} => fn # EventFn
    /\ rc = "ok" => pc = "idle"

-----------------------------------------------------------------------------
(* Commands and replies, while the host has not given up too often. *)

Waiting == pc \in {"poll", "scan", "consume"}

\* Replies to older commands have been read.
Oldest == seq - given_up - (IF Waiting THEN 1 ELSE 0)

Reply(i) == At(i).hdr /\ At(i).fn # EventFn

RepliesInOrder ==
    /\ \A i \in 0 .. Used - 1 : Reply(i) =>
         /\ At(i).id \in Oldest .. taken - 1
         /\ \A j \in 0 .. Used - 1 : i < j /\ Reply(j) => At(i).id < At(j).id
         /\ \A k \in 1 .. Len(owed) : At(i).id < owed[k].id
    /\ \A k \in 1 .. Len(owed) :
         /\ owed[k].id \in Oldest .. taken - 1
         /\ \A l \in 1 .. Len(owed) : k < l => owed[k].id < owed[l].id

CommandsInOrder ==
    /\ Oldest <= taken /\ taken <= seq
    /\ cmdq_writeptr = Advance(gspget, seq - taken)
    /\ cmdq_wptr = IF pc = "publish" THEN Advance(cmdq_writeptr, 1) ELSE cmdq_writeptr
    /\ \A k \in 0 .. seq - taken - 1 :
         cmdq[Advance(gspget, k)].hdr /\ cmdq[Advance(gspget, k)].id = taken + k
    /\ pc = "publish" => cmdq[cmdq_writeptr].hdr /\ cmdq[cmdq_writeptr].id = seq

\* Calls given up that the command queue can bear.
Spared == given_up < MsgCount - 1

\* The reply a call found is no older than the calls given up account for.
ReplyAge == Spared /\ (pc = "consume" \/ rc = "ok") => got \in MyId - given_up .. MyId

OrderInv == Spared => RepliesInOrder /\ CommandsInOrder

IndInv == TypeOK /\ Framed /\ OrderInv /\ ReplyAge

-----------------------------------------------------------------------------
(* Positions on a ring. *)

LEMMA AdvanceIs ==
    ASSUME NEW p \in Slots, NEW n \in 0 .. MsgCount
    PROVE  /\ Advance(p, n) = IF p + n < MsgCount THEN p + n ELSE p + n - MsgCount
           /\ Advance(p, n) \in Slots
<1>1. /\ MsgCount \in Nat \ {0} /\ p \in Nat /\ n \in Nat /\ p < MsgCount /\ n <= MsgCount
  BY CountAssumption DEF Slots
<1> DEFINE a == p + n
<1>2. a \in Nat /\ a < MsgCount + MsgCount
  BY <1>1
<1> HIDE DEF a
<1>3. ASSUME a < MsgCount
      PROVE  a % MsgCount = a
  BY <1>1, <1>2, <1>3, Z3
<1>4. ASSUME a >= MsgCount
      PROVE  a % MsgCount = a - MsgCount
  BY <1>1, <1>2, <1>4, Z3
<1>5. Advance(p, n) = IF a < MsgCount THEN a ELSE a - MsgCount
  BY <1>1, <1>2, <1>3, <1>4 DEF Advance, a
<1> QED BY <1>1, <1>5 DEF a, Slots

LEMMA AdvanceAdds ==
    ASSUME NEW p \in Slots, NEW n \in Nat, NEW k \in Nat, n + k <= MsgCount
    PROVE  Advance(Advance(p, n), k) = Advance(p, n + k)
<1>1. MsgCount \in Nat /\ p \in Nat /\ p < MsgCount /\ n \in 0 .. MsgCount
      /\ k \in 0 .. MsgCount /\ n + k \in 0 .. MsgCount
  BY CountAssumption DEF Slots
<1>2. Advance(p, n) \in Slots
      /\ Advance(p, n) = IF p + n < MsgCount THEN p + n ELSE p + n - MsgCount
  BY <1>1, AdvanceIs
<1>3. Advance(p, n + k) = IF p + (n + k) < MsgCount THEN p + (n + k) ELSE p + (n + k) - MsgCount
  BY <1>1, AdvanceIs
<1>4. PICK q \in Slots : q = Advance(p, n)
  BY <1>2
<1>5. Advance(q, k) = IF q + k < MsgCount THEN q + k ELSE q + k - MsgCount
  BY <1>1, AdvanceIs
<1> QED BY <1>1, <1>2, <1>3, <1>4, <1>5

LEMMA AdvanceApart ==
    ASSUME NEW p \in Slots, NEW i \in 0 .. MsgCount - 1, NEW j \in 0 .. MsgCount - 1,
           Advance(p, i) = Advance(p, j)
    PROVE  i = j
<1>1. MsgCount \in Nat /\ p \in Nat /\ p < MsgCount /\ i \in 0 .. MsgCount /\ j \in 0 .. MsgCount
  BY CountAssumption DEF Slots
<1> QED BY <1>1, AdvanceIs

LEMMA DistIs ==
    ASSUME NEW p \in Slots, NEW q \in Slots
    PROVE  /\ Dist(p, q) \in 0 .. MsgCount - 1 /\ Advance(p, Dist(p, q)) = q
           /\ Dist(p, q) = 0 <=> p = q
<1>1. MsgCount \in Nat /\ p \in Nat /\ p < MsgCount /\ q \in Nat /\ q < MsgCount
  BY CountAssumption DEF Slots
<1>2. Dist(p, q) \in 0 .. MsgCount - 1 /\ (Dist(p, q) = 0 <=> p = q)
  BY <1>1 DEF Dist
<1>3. Dist(p, q) \in 0 .. MsgCount
  BY <1>1, <1>2
<1>4. Advance(p, Dist(p, q)) = IF p + Dist(p, q) < MsgCount THEN p + Dist(p, q)
                               ELSE p + Dist(p, q) - MsgCount
  BY <1>3, AdvanceIs
<1>5. Advance(p, Dist(p, q)) = q
  BY <1>1, <1>4 DEF Dist
<1> QED BY <1>2, <1>5

LEMMA DistAdvance ==
    ASSUME NEW p \in Slots, NEW n \in 0 .. MsgCount - 1
    PROVE  Dist(p, Advance(p, n)) = n
<1>1. MsgCount \in Nat /\ p \in Nat /\ p < MsgCount /\ n \in 0 .. MsgCount
  BY CountAssumption DEF Slots
<1>2. Advance(p, n) = IF p + n < MsgCount THEN p + n ELSE p + n - MsgCount
  BY <1>1, AdvanceIs
<1> QED BY <1>1, <1>2 DEF Dist

\* Going n slots on brings q as much nearer.
LEMMA DistNearer ==
    ASSUME NEW p \in Slots, NEW q \in Slots, NEW n \in Nat, n <= Dist(p, q)
    PROVE  Dist(Advance(p, n), q) = Dist(p, q) - n
<1>1. MsgCount \in Nat /\ p \in Nat /\ p < MsgCount /\ q \in Nat /\ q < MsgCount
  BY CountAssumption DEF Slots
<1>2. Dist(p, q) \in 0 .. MsgCount - 1
  BY DistIs
<1>3. n \in 0 .. MsgCount
  BY <1>1, <1>2
<1>4. Advance(p, n) = IF p + n < MsgCount THEN p + n ELSE p + n - MsgCount
  BY <1>3, AdvanceIs
<1> QED BY <1>1, <1>4 DEF Dist

\* The firmware leaves one slot free behind what the host has not read.
LEMMA RoomIs == TypeOK => Room = MsgCount - 1 - Used
<1> SUFFICES ASSUME TypeOK PROVE Room = MsgCount - 1 - Used
  OBVIOUS
<1>1. /\ MsgCount \in Nat \ {0} /\ msgq_rptr \in Nat /\ msgq_rptr < MsgCount
      /\ msgq_writeptr \in Nat /\ msgq_writeptr < MsgCount /\ msgq_readptr = msgq_rptr
  BY CountAssumption DEF Slots, TypeOK
<1> DEFINE a == msgq_rptr - msgq_writeptr - 1
<1>2. Room = a % MsgCount
  BY <1>1 DEF Room
<1>3. a \in Int /\ a < MsgCount /\ 0 - MsgCount <= a
  BY <1>1
<1>4. Used = IF a < 0 THEN 0 - a - 1 ELSE MsgCount - 1 - a
  BY <1>1 DEF Used, Dist
<1> HIDE DEF a
<1>5. ASSUME a >= 0
      PROVE  a % MsgCount = a
  BY <1>1, <1>3, <1>5, Z3
<1>6. ASSUME a < 0
      PROVE  a % MsgCount = a + MsgCount
  BY <1>1, <1>3, <1>6, Z3
<1> QED BY <1>1, <1>2, <1>3, <1>4, <1>5, <1>6

-----------------------------------------------------------------------------
(* Types. *)

LEMMA HdrIsMsg ==
    ASSUME NEW f \in Functions \cup {EventFn}, NEW id \in Int, NEW n \in Nat
    PROVE  /\ Hdr(f, id, n) \in Msg /\ Hdr(f, id, n).hdr /\ Hdr(f, id, n).fn = f
           /\ Hdr(f, id, n).id = id /\ Hdr(f, id, n).ec = n
BY DEF Hdr, Msg

LEMMA RestIsMsg == Rest \in Msg /\ ~Rest.hdr /\ Rest.fn = EventFn
BY DEF Rest, Msg

\* A message sent leaves the queue a queue of messages.
LEMMA SendType ==
    ASSUME TypeOK, NEW m \in Msg, m.ec \in 1 .. MsgCount - 1, GspSend(m)
    PROVE  msgq' \in [Slots -> Msg] /\ msgq_writeptr' \in Slots
<1>1. m.ec \in 0 .. MsgCount
  BY CountAssumption
<1> QED BY <1>1, AdvanceIs, RestIsMsg DEF TypeOK, GspSend

LEMMA TypeStep == TypeOK /\ [Next]_vars => TypeOK'
<1> SUFFICES ASSUME TypeOK, [Next]_vars
             PROVE  TypeOK'
  OBVIOUS
<1>0. MsgCount \in Nat /\ MsgCount > 2 /\ 1 \in 0 .. MsgCount
  BY CountAssumption
<1>1. ASSUME NEW f \in Functions, WriteCommand(f)
      PROVE  TypeOK'
  <2>1. Hdr(f, seq, 1) \in Msg
    BY HdrIsMsg DEF TypeOK
  <2>2. Advance(cmdq_wptr, 1) \in Slots
    BY <1>0, AdvanceIs DEF TypeOK
  <2> QED BY <1>1, <2>1, <2>2 DEF TypeOK, WriteCommand, CommandSlot, gsp
<1>2. CASE PublishCommand
  BY <1>2 DEF TypeOK, PublishCommand, gsp
<1>3. CASE Poll
  BY <1>3 DEF TypeOK, Poll, queues, chan, gsp
<1>4. ASSUME Skip \/ Finish
      PROVE  TypeOK'
  <2>1. Elems \in 0 .. MsgCount
    BY <1>0 DEF Elems
  <2>2. Advance(msgq_rptr, Elems) \in Slots
    BY <2>1, AdvanceIs DEF TypeOK
  <2> QED BY <1>4, <2>2 DEF TypeOK, Skip, Finish, Consume, call, gsp
<1>5. CASE Bounds \/ Timeout \/ Again
  BY <1>5 DEF TypeOK, Bounds, Timeout, Again, queues, chan, gsp
<1>6. CASE CopyOut
  <2>1. Message \in Msg
    BY DEF TypeOK, Message
  <2>2. Message.id \in Int
    BY <2>1 DEF Msg
  <2> QED BY <1>6, <2>2 DEF TypeOK, CopyOut, queues, chan, gsp
<1>7. CASE GspTake
  <2>1. Advance(gspget, 1) \in Slots
    BY <1>0, AdvanceIs DEF TypeOK
  <2>2. Append(owed, cmdq[gspget]) \in Seq(Msg)
    BY DEF TypeOK
  <2> QED BY <1>7, <2>1, <2>2 DEF TypeOK, GspTake, queues, chan, call
<1>8. CASE GspReply
  <2>1. PICK n \in ReplyElems : GspSend(Hdr(Head(owed).fn, Head(owed).id, n))
    BY <1>8 DEF GspReply
  <2>2. Head(owed) \in Msg /\ Tail(owed) \in Seq(Msg) /\ n \in 1 .. MsgCount - 1
    BY <1>8, ElemAssumption DEF GspReply, TypeOK
  <2>3. PICK m \in Msg : m = Hdr(Head(owed).fn, Head(owed).id, n) /\ m.ec = n
    <3>1. Head(owed).fn \in Functions \cup {EventFn} /\ Head(owed).id \in Int /\ n \in Nat
      BY <2>2 DEF Msg
    <3> QED BY <3>1, HdrIsMsg
  <2>4. GspSend(m)
    BY <2>1, <2>3
  <2>5. msgq' \in [Slots -> Msg] /\ msgq_writeptr' \in Slots
    BY <2>2, <2>3, <2>4, SendType
  <2> QED BY <1>8, <2>2, <2>4, <2>5 DEF TypeOK, GspReply, GspSend, chan, call
<1>9. CASE GspEvent
  <2>1. PICK n \in EventElems : GspSend(Hdr(EventFn, -1, n))
    BY <1>9 DEF GspEvent
  <2>2. n \in 1 .. MsgCount - 1
    BY ElemAssumption
  <2>3. PICK m \in Msg : m = Hdr(EventFn, -1, n) /\ m.ec = n
    BY <2>2, HdrIsMsg
  <2>4. GspSend(m)
    BY <2>1, <2>3
  <2>5. msgq' \in [Slots -> Msg] /\ msgq_writeptr' \in Slots
    BY <2>2, <2>3, <2>4, SendType
  <2> QED BY <1>9, <2>4, <2>5 DEF TypeOK, GspEvent, GspSend, chan, call
<1>10. CASE UNCHANGED vars
  BY <1>10 DEF TypeOK, vars
<1> QED BY <1>1, <1>2, <1>3, <1>4, <1>5, <1>6, <1>7, <1>8, <1>9, <1>10 DEF Next, HostStep

-----------------------------------------------------------------------------
(* What the queue becomes. *)

\* Facts about the positions that every proof below starts from.
LEMMA Positions ==
    ASSUME TypeOK
    PROVE  /\ MsgCount \in Nat /\ MsgCount > 2
           /\ Used \in 0 .. MsgCount - 1 /\ Seen \in 0 .. MsgCount - 1
           /\ msgq_writeptr = Advance(msgq_rptr, Used) /\ wptr = Advance(msgq_rptr, Seen)
           /\ Used = 0 <=> msgq_rptr = msgq_writeptr
           /\ Seen = 0 <=> msgq_rptr = wptr
           /\ \A i \in 0 .. MsgCount : At(i) \in Msg
           /\ Message = At(0)
<1>1. MsgCount \in Nat /\ MsgCount > 2 /\ 0 \in 0 .. MsgCount
  BY CountAssumption
<1>2. Advance(msgq_rptr, 0) = msgq_rptr
  BY <1>1, AdvanceIs DEF TypeOK, Slots
<1>3. \A i \in 0 .. MsgCount : At(i) \in Msg
  BY AdvanceIs DEF At, TypeOK
<1> QED BY <1>1, <1>2, <1>3, DistIs DEF Used, Seen, TypeOK, At, Message

\* The host reads on behind the first message.
LEMMA AfterConsume ==
    ASSUME TypeOK, Framed, Used > 0, Consume, msgq' = msgq, msgq_writeptr' = msgq_writeptr
    PROVE  \E e \in 1 .. Used :
             /\ e = At(0).ec /\ WholeMessage(0) /\ Used' = Used - e
             /\ \A i \in 0 .. MsgCount - e : At(i)' = At(i + e)
             /\ e <= Seen /\ wptr' = wptr => Seen' = Seen - e
<1>1. /\ MsgCount \in Nat /\ Used \in 0 .. MsgCount - 1 /\ Seen \in 0 .. MsgCount - 1
      /\ At(0) \in Msg /\ Message = At(0) /\ msgq_rptr \in Slots /\ msgq_writeptr \in Slots
      /\ wptr \in Slots
  BY Positions DEF TypeOK
<1>2. WholeMessage(0)
  BY <1>1 DEF Framed
<1>3. PICK e \in Nat : e = At(0).ec
  BY <1>1 DEF Msg
<1>4. e \in 1 .. Used
  BY <1>1, <1>2, <1>3 DEF WholeMessage
<1>5. msgq_rptr' = Advance(msgq_rptr, e)
  BY <1>1, <1>3, <1>4 DEF Consume, Elems
<1>6. Used' = Used - e
  BY <1>1, <1>4, <1>5, DistNearer DEF Used
<1>7. ASSUME NEW i \in 0 .. MsgCount - e
      PROVE  At(i)' = At(i + e)
  <2>1. Advance(Advance(msgq_rptr, e), i) = Advance(msgq_rptr, e + i) /\ e + i = i + e
    BY <1>1, <1>4, AdvanceAdds
  <2> QED BY <1>5, <2>1 DEF At
<1>8. e <= Seen /\ wptr' = wptr => Seen' = Seen - e
  BY <1>1, <1>4, <1>5, DistNearer DEF Seen
<1> QED BY <1>2, <1>3, <1>4, <1>6, <1>7, <1>8

\* The firmware writes behind what the host has not read.
LEMMA AfterSend ==
    ASSUME TypeOK, NEW m \in Msg, m.ec \in 1 .. MsgCount - 1, GspSend(m)
    PROVE  \E u \in 0 .. MsgCount - 1 :
             /\ u = Used /\ Used' = u + m.ec /\ u + m.ec < MsgCount
             /\ \A i \in 0 .. u - 1 : At(i)' = At(i)
             /\ At(u)' = m
             /\ \A k \in 1 .. m.ec - 1 : At(u + k)' = Rest
<1>1. /\ MsgCount \in Nat /\ MsgCount > 2 /\ Used \in 0 .. MsgCount - 1
      /\ msgq_writeptr = Advance(msgq_rptr, Used) /\ msgq_rptr \in Slots
  BY Positions DEF TypeOK
<1>2. PICK u \in 0 .. MsgCount - 1 : u = Used
  BY <1>1
<1>3. PICK n \in 1 .. MsgCount - 1 : n = m.ec
  OBVIOUS
<1>4. u + n < MsgCount
  BY <1>1, <1>2, <1>3, RoomIs DEF GspSend
<1>5. /\ msgq' = [i \in Slots |->
                   IF i = Advance(msgq_rptr, u) THEN m
                   ELSE IF \E k \in 1 .. n - 1 : i = Advance(Advance(msgq_rptr, u), k) THEN Rest
                   ELSE msgq[i]]
      /\ msgq_writeptr' = Advance(Advance(msgq_rptr, u), n) /\ msgq_rptr' = msgq_rptr
  BY <1>1, <1>2, <1>3 DEF GspSend, chan
<1>6. \A k \in 1 .. n : Advance(Advance(msgq_rptr, u), k) = Advance(msgq_rptr, u + k)
  BY <1>1, <1>4, AdvanceAdds
<1>7. \A i \in 0 .. MsgCount - 1 : Advance(msgq_rptr, i) \in Slots
  BY <1>1, AdvanceIs
<1>8. Used' = u + n
  <2>1. u + n \in 0 .. MsgCount - 1 /\ msgq_writeptr' = Advance(msgq_rptr, u + n)
    BY <1>1, <1>4, <1>5, <1>6
  <2> QED BY <1>1, <1>5, <2>1, DistAdvance DEF Used
<1>9. ASSUME NEW i \in 0 .. u - 1
      PROVE  At(i)' = At(i)
  <2>1. i \in 0 .. MsgCount - 1 /\ Advance(msgq_rptr, i) \in Slots
    BY <1>1, <1>7
  <2>2. Advance(msgq_rptr, i) # Advance(msgq_rptr, u)
    BY <1>1, <2>1, AdvanceApart
  <2>3. ASSUME NEW k \in 1 .. n - 1
        PROVE  Advance(msgq_rptr, i) # Advance(Advance(msgq_rptr, u), k)
    <3>1. u + k \in 0 .. MsgCount - 1 /\ i # u + k
      BY <1>4, <1>1
    <3> QED BY <1>1, <1>6, <2>1, <3>1, AdvanceApart
  <2> QED BY <1>5, <2>1, <2>2, <2>3 DEF At
<1>10. At(u)' = m
  BY <1>5, <1>7 DEF At
<1>11. ASSUME NEW k \in 1 .. n - 1
       PROVE  At(u + k)' = Rest
  <2>1. u + k \in 0 .. MsgCount - 1 /\ u # u + k
    BY <1>1, <1>4
  <2>2. Advance(msgq_rptr, u + k) # Advance(msgq_rptr, u)
    BY <1>1, <2>1, AdvanceApart
  <2>3. Advance(msgq_rptr, u + k) = Advance(Advance(msgq_rptr, u), k)
    BY <1>6
  <2> QED BY <1>5, <1>7, <2>1, <2>2, <2>3 DEF At
<1> QED BY <1>2, <1>3, <1>4, <1>8, <1>9, <1>10, <1>11

-----------------------------------------------------------------------------
(* Whole messages. *)

LEMMA FramedStep == TypeOK /\ Framed /\ [Next]_vars => Framed'
<1> SUFFICES ASSUME TypeOK, Framed, [Next]_vars
             PROVE  Framed'
  OBVIOUS
<1>0. /\ MsgCount \in Nat /\ MsgCount > 2
      /\ Used \in 0 .. MsgCount - 1 /\ Seen \in 0 .. MsgCount - 1
      /\ \A i \in 0 .. MsgCount : At(i) \in Msg
      /\ Message = At(0)
      /\ Used = 0 <=> msgq_rptr = msgq_writeptr
      /\ Seen = 0 <=> msgq_rptr = wptr
  BY Positions
<1>1. ASSUME UNCHANGED <<msgq, msgq_rptr, msgq_writeptr>>
      PROVE  /\ Used' = Used /\ \A i : At(i)' = At(i)
             /\ Used > 0 => At(0).hdr
             /\ \A i \in 0 .. Used - 1 : At(i).hdr => WholeMessage(i)
             /\ \A i : WholeMessage(i)' <=> WholeMessage(i)
             /\ Message' = Message
  BY <1>1 DEF Used, At, Framed, WholeMessage, Message
<1>2. ASSUME NEW f \in Functions, WriteCommand(f)
      PROVE  Framed'
  BY <1>1, <1>2, FunctionAssumption DEF WriteCommand, Framed
<1>3. CASE PublishCommand
  BY <1>1, <1>3 DEF PublishCommand, Framed
<1>4. CASE Poll
  <2>1. Seen' = Used
    BY <1>4 DEF Poll, queues, chan, Seen, Used
  <2>2. Used' = Used /\ Seen' <= Used' /\ ~(Seen' < Used')
    BY <1>0, <1>1, <1>4, <2>1 DEF Poll, queues, chan
  <2>3. pc = "poll" /\ pc' = "scan" /\ fn' = fn /\ rc' = rc
    BY <1>4 DEF Poll
  <2> QED BY <1>1, <1>4, <2>2, <2>3 DEF Poll, queues, chan, Framed
<1>5. CASE Bounds \/ Timeout \/ Again
  BY <1>1, <1>5 DEF Bounds, Timeout, Again, queues, chan, Framed
<1>6. CASE CopyOut
  <2>1. Seen' = Seen /\ Seen > 0 /\ fn' = fn
    BY <1>0, <1>6 DEF CopyOut, queues, chan, Seen
  <2> QED BY <1>0, <1>1, <1>6, <2>1 DEF CopyOut, queues, chan, Framed, Matches
<1>7. CASE Skip \/ Finish
  <2>1. /\ Used > 0 /\ Consume /\ msgq' = msgq /\ msgq_writeptr' = msgq_writeptr
        /\ wptr' = wptr /\ fn' = fn
        /\ Seen > 0 /\ Seen <= Used /\ (Seen < Used => At(Seen).hdr)
    BY <1>0, <1>7 DEF Skip, Finish, Framed, call
  <2>2. PICK e \in 1 .. Used :
          /\ e = At(0).ec /\ WholeMessage(0) /\ Used' = Used - e
          /\ \A i \in 0 .. MsgCount - e : At(i)' = At(i + e)
          /\ e <= Seen /\ wptr' = wptr => Seen' = Seen - e
    BY <2>1, AfterConsume
  <2>3. Used' \in 0 .. MsgCount - 1 /\ e < MsgCount
    BY <1>0, <2>2
  <2>4. Used' > 0 => At(0)'.hdr
    <3>1. At(0)' = At(0 + e)
      BY <1>0, <2>2, <2>3
    <3> QED BY <1>0, <2>2, <3>1 DEF WholeMessage
  <2>5. ASSUME NEW i \in 0 .. Used' - 1, At(i)'.hdr
        PROVE  WholeMessage(i)'
    <3>1. /\ i \in Nat /\ i + e \in 0 .. Used - 1 /\ At(i)' = At(i + e)
      BY <1>0, <2>2, <2>3, <2>5
    <3>2. WholeMessage(i + e) /\ At(i + e) \in Msg
      BY <1>0, <2>5, <3>1 DEF Framed
    <3>3. PICK n \in Nat : n = At(i + e).ec
      BY <3>2 DEF Msg
    <3>4. /\ n > 0 /\ (i + e) + n <= Used /\ ((i + e) + n < Used => At((i + e) + n).hdr)
          /\ \A k \in 1 .. n - 1 : ~At((i + e) + k).hdr
      BY <3>2, <3>3 DEF WholeMessage
    <3>5. At(i)'.ec = n
      BY <3>1, <3>3
    <3>6. i + n <= Used'
      BY <1>0, <2>2, <3>1, <3>4
    <3>7. i + n < Used' => At(i + n)'.hdr
      <4>1. i + n \in 0 .. MsgCount - e /\ (i + n) + e = (i + e) + n
        BY <1>0, <2>2, <3>1, <3>6
      <4> QED BY <1>0, <2>2, <3>4, <4>1
    <3>8. ASSUME NEW k \in 1 .. n - 1
          PROVE  ~At(i + k)'.hdr
      <4>1. i + k \in 0 .. MsgCount - e /\ (i + k) + e = (i + e) + k
        BY <1>0, <2>2, <3>1, <3>6
      <4> QED BY <2>2, <3>4, <4>1
    <3> QED BY <3>4, <3>5, <3>6, <3>7, <3>8 DEF WholeMessage
  <2>6. CASE Skip
    <3>1. e <= Seen
      <4>1. ASSUME Seen < e
            PROVE  FALSE
        <5>1. PICK d \in 1 .. e - 1 : d = Seen /\ d < Used
          BY <1>0, <2>1, <2>2, <4>1
        <5>2. ~At(0 + d).hdr
          BY <2>2, <5>1 DEF WholeMessage
        <5>3. 0 + d = d /\ At(d).hdr
          BY <2>1, <5>1
        <5> QED BY <5>2, <5>3
      <4> QED BY <1>0, <2>2, <4>1
    <3>2. PICK d \in Nat : d = Seen - e
      BY <1>0, <2>2, <3>1
    <3>3. Seen' = d /\ Seen = d + e
      BY <1>0, <2>1, <2>2, <3>1, <3>2
    <3>4. d <= Used' /\ (d < Used' => At(d)'.hdr)
      <4>1. d <= Used' /\ (d < Used' => Seen < Used)
        BY <1>0, <2>1, <2>2, <3>2, <3>3
      <4>2. d < Used' => At(d)' = At(d + e)
        BY <1>0, <2>2, <3>2, <2>3
      <4> QED BY <2>1, <3>3, <4>1, <4>2
    <3>5. Seen' <= Used' /\ (Seen' < Used' => At(Seen)'.hdr)
      BY <3>3, <3>4 DEF At
    <3>6. pc' = "scan" /\ fn' # EventFn /\ rc' # "ok"
      BY <2>6 DEF Skip, call, Framed
    <3> QED BY <2>4, <2>5, <3>5, <3>6 DEF Framed
  <2>7. CASE Finish
    BY <2>4, <2>5, <2>7 DEF Finish, Framed
  <2> QED BY <1>7, <2>6, <2>7
<1>8. ASSUME GspReply \/ GspEvent
      PROVE  Framed'
  <2>1. PICK f \in Functions \cup {EventFn}, id \in Int, n \in 1 .. MsgCount - 1 :
          GspSend(Hdr(f, id, n))
    <3>1. CASE GspReply
      <4>1. PICK h \in Msg : h = Head(owed)
        BY <3>1 DEF GspReply, TypeOK
      <4>2. h.fn \in Functions \cup {EventFn} /\ h.id \in Int
        BY DEF Msg
      <4> QED BY <3>1, <4>1, <4>2, ElemAssumption DEF GspReply
    <3>2. CASE GspEvent
      <4>1. PICK n \in EventElems : GspSend(Hdr(EventFn, -1, n))
        BY <3>2 DEF GspEvent
      <4>2. n \in 1 .. MsgCount - 1
        BY ElemAssumption
      <4> QED BY <4>1, <4>2
    <3> QED BY <1>8, <3>1, <3>2
  <2>2. PICK m \in Msg : m = Hdr(f, id, n) /\ m.ec = n /\ m.hdr
    BY <1>0, HdrIsMsg
  <2>3. GspSend(m)
    BY <2>1, <2>2
  <2>4. PICK u \in 0 .. MsgCount - 1 :
          /\ u = Used /\ Used' = u + n /\ u + n < MsgCount
          /\ \A i \in 0 .. u - 1 : At(i)' = At(i)
          /\ At(u)' = m
          /\ \A k \in 1 .. n - 1 : At(u + k)' = Rest
    <3>1. m.ec \in 1 .. MsgCount - 1
      BY <2>2
    <3>2. \E u \in 0 .. MsgCount - 1 :
             /\ u = Used /\ Used' = u + m.ec /\ u + m.ec < MsgCount
             /\ \A i \in 0 .. u - 1 : At(i)' = At(i)
             /\ At(u)' = m
             /\ \A k \in 1 .. m.ec - 1 : At(u + k)' = Rest
      BY <2>3, <3>1, AfterSend
    <3> QED BY <2>2, <3>2
  <2>5. /\ UNCHANGED <<pc, fn, wptr, got, rc, msgq_rptr>>
        /\ Seen' = Seen
    BY <2>3 DEF GspSend, chan, call, Seen
  <2>6. Used' > 0 => At(0)'.hdr
    <3>1. CASE u = 0
      BY <2>2, <2>4, <3>1
    <3>2. CASE u > 0
      <4>1. 0 \in 0 .. u - 1
        BY <3>2
      <4> QED BY <1>0, <2>4, <3>2, <4>1 DEF Framed
    <3> QED BY <3>1, <3>2
  <2>7. ASSUME NEW i \in 0 .. Used' - 1, At(i)'.hdr
        PROVE  WholeMessage(i)'
    <3>1. i \in 0 .. u + n - 1
      BY <2>4
    <3>2. CASE i < u
      <4>1. i \in 0 .. u - 1 /\ At(i)' = At(i)
        BY <2>4, <3>1, <3>2
      <4>2. WholeMessage(i) /\ At(i) \in Msg
        BY <1>0, <2>4, <2>7, <4>1 DEF Framed
      <4>3. PICK l \in Nat : l = At(i).ec
        BY <4>2 DEF Msg
      <4>4. /\ l > 0 /\ i + l <= u /\ (i + l < u => At(i + l).hdr)
            /\ \A k \in 1 .. l - 1 : ~At(i + k).hdr
        BY <2>4, <4>2, <4>3 DEF WholeMessage
      <4>5. At(i)'.ec = l
        BY <4>1, <4>3
      <4>6. At(i + l)'.hdr
        <5>1. CASE i + l < u
          <6>1. i + l \in 0 .. u - 1
            BY <4>1, <5>1
          <6> QED BY <2>4, <4>4, <5>1, <6>1
        <5>2. CASE i + l = u
          BY <2>2, <2>4, <5>2
        <5> QED BY <4>1, <4>4, <5>1, <5>2
      <4>7. ASSUME NEW k \in 1 .. l - 1
            PROVE  ~At(i + k)'.hdr
        <5>1. i + k \in 0 .. u - 1
          BY <4>1, <4>4
        <5> QED BY <2>4, <4>4, <5>1
      <4>8. i + l <= Used'
        BY <2>4, <4>1, <4>4
      <4> QED BY <4>4, <4>5, <4>6, <4>7, <4>8 DEF WholeMessage
    <3>3. CASE i = u
      <4>1. At(i)'.ec = n /\ n > 0 /\ i + n = Used'
        BY <2>2, <2>4, <3>3
      <4>2. \A k \in 1 .. n - 1 : ~At(i + k)'.hdr
        BY <2>4, <3>3, RestIsMsg
      <4> QED BY <4>1, <4>2 DEF WholeMessage
    <3>4. CASE i > u
      <4>1. PICK k \in 1 .. n - 1 : i = u + k
        <5>1. i - u \in 1 .. n - 1 /\ i = u + (i - u)
          BY <3>1, <3>4
        <5> QED BY <5>1
      <4> QED BY <2>4, <2>7, <4>1, RestIsMsg
    <3> QED BY <3>1, <3>2, <3>3, <3>4
  <2>8. ASSUME pc' \in {"scan", "consume"}
        PROVE  Seen' <= Used' /\ (Seen' < Used' => At(Seen)'.hdr)
    <3>1. PICK d \in 0 .. MsgCount - 1 : d = Seen
      BY <1>0
    <3>2. d <= u /\ (d < u => At(d).hdr)
      BY <2>4, <2>5, <2>8, <3>1 DEF Framed
    <3>3. d <= Used'
      BY <2>4, <3>2
    <3>4. At(d)'.hdr
      <4>1. CASE d < u
        <5>1. d \in 0 .. u - 1
          BY <4>1
        <5> QED BY <2>4, <3>2, <4>1, <5>1
      <4>2. CASE d = u
        BY <2>2, <2>4, <4>2
      <4> QED BY <3>2, <4>1, <4>2
    <3> QED BY <2>5, <3>1, <3>3, <3>4 DEF At
  <2>9. pc' = "consume" => Seen' > 0 /\ fn' # EventFn /\ Matches'
    <3>1. SUFFICES ASSUME pc = "consume" PROVE Seen > 0 /\ fn # EventFn /\ Matches'
      BY <2>5
    <3>2. Seen > 0 /\ fn # EventFn /\ Matches /\ Seen <= Used
      BY <3>1 DEF Framed
    <3>3. At(0)' = At(0)
      <4>1. 0 \in 0 .. u - 1
        BY <1>0, <2>4, <3>2
      <4> QED BY <2>4, <4>1
    <3>4. Message' = At(0)'
      <4>1. TypeOK'
        BY TypeStep
      <4>2. Advance(msgq_rptr, 0) = msgq_rptr
        BY <1>0, AdvanceIs DEF TypeOK, Slots
      <4> QED BY <2>5, <4>2 DEF Message, At
    <3> QED BY <1>0, <2>5, <3>2, <3>3, <3>4 DEF Matches
  <2> QED BY <2>5, <2>6, <2>7, <2>8, <2>9 DEF Framed
<1>9. CASE GspTake
  BY <1>1, <1>9 DEF GspTake, queues, chan, call, Framed, Seen, Matches
<1>10. CASE UNCHANGED vars
  BY <1>1, <1>10 DEF vars, Framed, Seen, Matches
<1> QED BY <1>2, <1>3, <1>4, <1>5, <1>6, <1>7, <1>8, <1>9, <1>10 DEF Next, HostStep

-----------------------------------------------------------------------------
(* Commands and replies in order. *)

LEMMA RepliesKept ==
    ASSUME RepliesInOrder, UNCHANGED <<msgq, msgq_rptr, msgq_writeptr, owed, taken>>,
           Oldest' = Oldest
    PROVE  RepliesInOrder'
<1>1. Used' = Used /\ \A i : At(i)' = At(i)
  BY DEF Used, At
<1> QED BY <1>1 DEF RepliesInOrder, Reply

LEMMA CommandsKept ==
    ASSUME CommandsInOrder, UNCHANGED <<cmdq, cmdq_writeptr, cmdq_wptr, gspget, taken, seq>>,
           Oldest' <= taken, pc' # "publish", pc # "publish"
    PROVE  CommandsInOrder'
BY DEF CommandsInOrder

\* The host is no further ahead than the calls it gave up and its own.
LEMMA Ahead ==
    ASSUME TypeOK, CommandsInOrder, Spared
    PROVE  \E n \in 0 .. MsgCount - 1 :
             /\ n = seq - taken /\ (~Waiting => n < MsgCount - 1)
             /\ n = 0 <=> gspget = cmdq_writeptr
<1>1. MsgCount \in Nat /\ MsgCount > 2 /\ seq \in Nat /\ taken \in Nat /\ given_up \in Nat
  BY CountAssumption DEF TypeOK
<1>2. seq - taken \in 0 .. MsgCount - 1 /\ (~Waiting => seq - taken < MsgCount - 1)
  BY <1>1 DEF CommandsInOrder, Oldest, Spared
<1>3. PICK n \in 0 .. MsgCount - 1 : n = seq - taken
  BY <1>2
<1>4. cmdq_writeptr = Advance(gspget, n) /\ gspget = Advance(gspget, 0)
  BY <1>1, <1>3, AdvanceIs DEF CommandsInOrder, TypeOK, Slots
<1>5. gspget = cmdq_writeptr => n = 0
  BY <1>1, <1>4, AdvanceApart DEF TypeOK
<1> QED BY <1>2, <1>3, <1>4, <1>5

LEMMA WriteInOrder ==
    ASSUME TypeOK, OrderInv, Spared, NEW f \in Functions, WriteCommand(f)
    PROVE  RepliesInOrder' /\ CommandsInOrder'
<1>1. /\ pc = "idle" /\ pc' = "publish" /\ Oldest' = Oldest
      /\ cmdq' = [cmdq EXCEPT ![cmdq_wptr] = Hdr(f, seq, 1)]
      /\ cmdq_wptr' = Advance(cmdq_wptr, 1)
      /\ UNCHANGED <<cmdq_writeptr, msgq, msgq_writeptr, msgq_rptr, seq, gspget, taken, owed>>
  BY DEF WriteCommand, CommandSlot, gsp, Oldest, Waiting
<1>2. RepliesInOrder'
  BY <1>1, RepliesKept DEF OrderInv
<1>3. CommandsInOrder /\ ~Waiting /\ cmdq_wptr = cmdq_writeptr
  BY <1>1 DEF OrderInv, CommandsInOrder, Waiting
<1>4. PICK n \in 0 .. MsgCount - 1 : n = seq - taken /\ n < MsgCount - 1
  BY <1>3, Ahead
<1>5. cmdq_writeptr = Advance(gspget, n) /\ gspget \in Slots /\ cmdq_writeptr \in Slots
  BY <1>3, <1>4 DEF CommandsInOrder, TypeOK
<1>6. ASSUME NEW k \in 0 .. n - 1
      PROVE  cmdq'[Advance(gspget, k)].hdr /\ cmdq'[Advance(gspget, k)].id = taken + k
  <2>1. k \in 0 .. MsgCount - 1 /\ k # n /\ k \in 0 .. MsgCount
    BY <1>4, CountAssumption
  <2>2. Advance(gspget, k) \in Slots /\ Advance(gspget, k) # cmdq_wptr
    BY <1>3, <1>5, <2>1, AdvanceIs, AdvanceApart
  <2>3. cmdq'[Advance(gspget, k)] = cmdq[Advance(gspget, k)]
    BY <1>1, <2>2 DEF TypeOK
  <2> QED BY <1>3, <1>4, <2>3 DEF CommandsInOrder
<1>7. cmdq'[cmdq_writeptr].hdr /\ cmdq'[cmdq_writeptr].id = seq
  <2>1. cmdq'[cmdq_writeptr] = Hdr(f, seq, 1)
    BY <1>1, <1>3, <1>5 DEF TypeOK
  <2> QED BY <2>1, HdrIsMsg DEF TypeOK
<1>8. CommandsInOrder'
  BY <1>1, <1>3, <1>4, <1>6, <1>7 DEF CommandsInOrder
<1> QED BY <1>2, <1>8

LEMMA PublishInOrder ==
    ASSUME TypeOK, OrderInv, Spared, PublishCommand
    PROVE  RepliesInOrder' /\ CommandsInOrder'
<1>1. /\ pc = "publish" /\ pc' = "poll" /\ seq' = seq + 1 /\ cmdq_writeptr' = cmdq_wptr
      /\ UNCHANGED <<cmdq, cmdq_wptr, msgq, msgq_writeptr, msgq_rptr, gspget, taken, owed,
                     given_up>>
      /\ seq \in Nat /\ given_up \in Nat /\ taken \in Nat /\ gspget \in Slots
      /\ cmdq_writeptr \in Slots
  BY DEF PublishCommand, gsp, TypeOK
<1>2. Oldest' = Oldest
  BY <1>1 DEF Oldest, Waiting
<1>3. RepliesInOrder'
  BY <1>1, <1>2, RepliesKept DEF OrderInv
<1>4. CommandsInOrder /\ ~Waiting /\ cmdq_wptr = Advance(cmdq_writeptr, 1)
  BY <1>1 DEF OrderInv, CommandsInOrder, Waiting
<1>5. PICK n \in 0 .. MsgCount - 1 : n = seq - taken /\ n < MsgCount - 1
  BY <1>4, Ahead
<1>6. cmdq_writeptr = Advance(gspget, n) /\ MsgCount \in Nat /\ n \in Nat
  BY <1>4, <1>5, CountAssumption DEF CommandsInOrder
<1>7. cmdq_writeptr' = Advance(gspget, n + 1)
  <2>1. n + 1 <= MsgCount /\ 1 \in Nat
    BY <1>5, <1>6
  <2> QED BY <1>1, <1>4, <1>6, <2>1, AdvanceAdds
<1>8. n + 1 = seq' - taken' /\ Oldest' <= taken' /\ taken' <= seq'
  BY <1>1, <1>2, <1>4, <1>5 DEF CommandsInOrder
<1>9. ASSUME NEW k \in 0 .. n
      PROVE  cmdq[Advance(gspget, k)].hdr /\ cmdq[Advance(gspget, k)].id = taken + k
  <2>1. CASE k < n
    BY <1>4, <1>5, <2>1 DEF CommandsInOrder
  <2>2. CASE k = n
    BY <1>1, <1>4, <1>5, <1>6, <2>2 DEF CommandsInOrder
  <2> QED BY <1>6, <2>1, <2>2
<1>10. CommandsInOrder'
  <2>1. seq' - taken' - 1 = n
    BY <1>1, <1>5, <1>6, <1>8
  <2> QED BY <1>1, <1>7, <1>8, <1>9, <2>1 DEF CommandsInOrder
<1> QED BY <1>3, <1>10

LEMMA TakeInOrder ==
    ASSUME TypeOK, OrderInv, Spared, GspTake
    PROVE  RepliesInOrder' /\ CommandsInOrder'
<1>1. /\ gspget # cmdq_writeptr /\ owed' = Append(owed, cmdq[gspget]) /\ taken' = taken + 1
      /\ gspget' = Advance(gspget, 1) /\ Oldest' = Oldest /\ pc' = pc
      /\ UNCHANGED <<cmdq, cmdq_writeptr, cmdq_wptr, msgq, msgq_writeptr, msgq_rptr, seq>>
  BY DEF GspTake, queues, chan, call, Oldest, Waiting
<1>2. /\ RepliesInOrder /\ CommandsInOrder /\ taken \in Nat /\ seq \in Nat /\ owed \in Seq(Msg)
      /\ gspget \in Slots /\ MsgCount \in Nat /\ MsgCount > 2 /\ Oldest \in Int
  BY CountAssumption DEF OrderInv, TypeOK, Oldest
<1>3. PICK n \in 0 .. MsgCount - 1 : n = seq - taken /\ n > 0
  BY <1>1, <1>2, Ahead
<1>4. cmdq[gspget].hdr /\ cmdq[gspget].id = taken
  <2>1. 0 \in 0 .. seq - taken - 1 /\ Advance(gspget, 0) = gspget
    BY <1>2, <1>3, AdvanceIs DEF Slots
  <2> QED BY <1>2, <2>1 DEF CommandsInOrder
<1>5. Used' = Used /\ \A i : At(i)' = At(i)
  BY <1>1 DEF Used, At
<1>6. /\ Len(owed') = Len(owed) + 1 /\ owed'[Len(owed) + 1].id = taken /\ Len(owed) \in Nat
      /\ \A k \in 1 .. Len(owed) : owed'[k] = owed[k]
  BY <1>1, <1>2, <1>4
<1>7. Oldest <= taken
  BY <1>2 DEF CommandsInOrder
<1>8. ASSUME NEW i \in 0 .. Used - 1, Reply(i)
      PROVE  /\ At(i).id \in Oldest .. taken
             /\ \A j \in 0 .. Used - 1 : i < j /\ Reply(j) => At(i).id < At(j).id
             /\ \A k \in 1 .. Len(owed') : At(i).id < owed'[k].id
  BY <1>2, <1>6, <1>8 DEF RepliesInOrder
<1>9. ASSUME NEW k \in 1 .. Len(owed')
      PROVE  /\ owed'[k].id \in Oldest .. taken
             /\ \A l \in 1 .. Len(owed') : k < l => owed'[k].id < owed'[l].id
  <2>1. CASE k = Len(owed) + 1
    BY <1>2, <1>6, <1>7, <2>1
  <2>2. CASE k \in 1 .. Len(owed)
    BY <1>2, <1>6, <2>2 DEF RepliesInOrder
  <2> QED BY <1>6, <2>1, <2>2
<1>10. RepliesInOrder'
  <2>1. taken' - 1 = taken
    BY <1>1, <1>2
  <2> QED BY <1>1, <1>5, <1>8, <1>9, <2>1 DEF RepliesInOrder, Reply
<1>11. ASSUME NEW k \in 0 .. MsgCount - 1
       PROVE  Advance(gspget', k) = Advance(gspget, k + 1)
  <2>1. 1 + k = k + 1 /\ 1 + k <= MsgCount /\ 1 \in Nat /\ k \in Nat
    BY <1>2
  <2> QED BY <1>1, <1>2, <2>1, AdvanceAdds
<1>12. CommandsInOrder'
  <2>1. seq' - taken' = n - 1 /\ n - 1 \in 0 .. MsgCount - 1
    BY <1>1, <1>2, <1>3
  <2>2. cmdq_writeptr' = Advance(gspget', n - 1)
    BY <1>1, <1>2, <1>3, <1>11, <2>1 DEF CommandsInOrder
  <2>3. ASSUME NEW k \in 0 .. n - 1 - 1
        PROVE  cmdq'[Advance(gspget', k)].hdr /\ cmdq'[Advance(gspget', k)].id = taken' + k
    <3>1. k \in 0 .. MsgCount - 1 /\ k + 1 \in 0 .. seq - taken - 1
      BY <1>2, <1>3
    <3>2. cmdq[Advance(gspget, k + 1)].hdr /\ cmdq[Advance(gspget, k + 1)].id = taken + (k + 1)
      BY <1>2, <3>1 DEF CommandsInOrder
    <3>3. cmdq'[Advance(gspget', k)] = cmdq[Advance(gspget, k + 1)]
      BY <1>1, <1>11, <3>1
    <3>4. taken' + k = taken + (k + 1)
      BY <1>1, <1>2, <3>1
    <3> QED BY <3>2, <3>3, <3>4
  <2>4. Oldest' <= taken' /\ taken' <= seq'
    BY <1>1, <1>2, <1>3, <1>7
  <2> QED BY <1>1, <1>2, <2>1, <2>2, <2>3, <2>4 DEF CommandsInOrder
<1> QED BY <1>10, <1>12

LEMMA ReadInOrder ==
    ASSUME TypeOK, Framed, OrderInv, Spared, Skip \/ Finish
    PROVE  RepliesInOrder' /\ CommandsInOrder'
<1>1. /\ UNCHANGED <<cmdq, cmdq_writeptr, cmdq_wptr, gspget, taken, seq, owed, given_up, fn,
                     wptr, msgq, msgq_writeptr>>
      /\ Consume /\ pc' # "publish" /\ pc # "publish"
      /\ taken \in Nat /\ seq \in Nat /\ given_up \in Nat
  BY DEF Skip, Finish, gsp, call, TypeOK
<1>2. /\ RepliesInOrder /\ CommandsInOrder /\ MsgCount \in Nat /\ Used \in 0 .. MsgCount - 1
      /\ Seen \in 0 .. MsgCount - 1 /\ Oldest \in Int /\ At(0) \in Msg
      /\ Message = At(0)
  BY Positions DEF OrderInv, Oldest, TypeOK
<1>3. Used > 0
  BY <1>2, Positions DEF Skip, Finish, Framed
<1>4. PICK e \in 1 .. Used :
        /\ e = At(0).ec /\ Used' = Used - e
        /\ \A i \in 0 .. MsgCount - e : At(i)' = At(i + e)
  BY <1>1, <1>3, AfterConsume
<1>5. Oldest' = Oldest \/ (Finish /\ Oldest' = Oldest + 1)
  BY <1>1 DEF Skip, Finish, call, Oldest, Waiting
<1>6. Finish => Reply(0)
  BY <1>2, <1>3 DEF Finish, Framed, Matches, Reply
<1>7. \A i \in 0 .. Used' - 1 : i + e \in 1 .. Used - 1 /\ At(i)' = At(i + e)
  BY <1>2, <1>4
<1>8. ASSUME NEW i \in 1 .. Used - 1, Reply(i)
      PROVE  At(i).id \in Oldest' .. taken - 1
  <2>1. At(i).id \in Oldest .. taken - 1
    BY <1>8 DEF RepliesInOrder, OrderInv
  <2>2. Finish => At(0).id < At(i).id /\ At(0).id \in Oldest .. taken - 1
    BY <1>2, <1>3, <1>6, <1>8 DEF RepliesInOrder
  <2> QED BY <1>1, <1>2, <1>5, <2>1, <2>2
<1>9. ASSUME NEW k \in 1 .. Len(owed)
      PROVE  owed[k].id \in Oldest' .. taken - 1
  <2>1. owed[k].id \in Oldest .. taken - 1
    BY <1>2, <1>9 DEF RepliesInOrder
  <2>2. Finish => At(0).id < owed[k].id /\ At(0).id \in Oldest .. taken - 1
    BY <1>2, <1>3, <1>6, <1>9 DEF RepliesInOrder
  <2> QED BY <1>1, <1>2, <1>5, <2>1, <2>2
<1>10. RepliesInOrder'
  <2>1. ASSUME NEW i \in 0 .. Used' - 1, Reply(i)'
        PROVE  /\ At(i)'.id \in Oldest' .. taken - 1
               /\ \A j \in 0 .. Used' - 1 : i < j /\ Reply(j)' => At(i)'.id < At(j)'.id
               /\ \A k \in 1 .. Len(owed) : At(i)'.id < owed[k].id
    <3>1. i + e \in 1 .. Used - 1 /\ At(i)' = At(i + e) /\ Reply(i + e)
      BY <1>7, <2>1 DEF Reply
    <3>2. /\ \A j \in 0 .. Used - 1 : i + e < j /\ Reply(j) => At(i + e).id < At(j).id
          /\ \A k \in 1 .. Len(owed) : At(i + e).id < owed[k].id
      BY <1>2, <3>1 DEF RepliesInOrder
    <3>3. ASSUME NEW j \in 0 .. Used' - 1, i < j, Reply(j)'
          PROVE  At(i)'.id < At(j)'.id
      <4>1. j + e \in 0 .. Used - 1 /\ i + e < j + e /\ At(j)' = At(j + e) /\ Reply(j + e)
        BY <1>2, <1>4, <1>7, <3>3 DEF Reply
      <4> QED BY <3>1, <3>2, <4>1
    <3> QED BY <1>8, <3>1, <3>2, <3>3
  <2> QED BY <1>1, <1>2, <1>9, <2>1 DEF RepliesInOrder
<1>11. Oldest' <= taken
  <2>1. Finish => At(0).id \in Oldest .. taken - 1
    BY <1>2, <1>3, <1>6 DEF RepliesInOrder
  <2>2. Oldest <= taken
    BY <1>2 DEF CommandsInOrder
  <2> QED BY <1>1, <1>2, <1>5, <2>1, <2>2
<1>12. CommandsInOrder'
  BY <1>1, <1>2, <1>11, CommandsKept
<1> QED BY <1>10, <1>12

\* What the firmware sends keeps the order: events are not replies, and a
\* reply is to the oldest command it owes one.
LEMMA SendInOrder ==
    ASSUME TypeOK, OrderInv, Spared, GspReply \/ GspEvent
    PROVE  RepliesInOrder' /\ CommandsInOrder'
<1>1. /\ UNCHANGED <<cmdq, cmdq_writeptr, cmdq_wptr, gspget, taken, seq, pc, given_up>>
      /\ Oldest' = Oldest /\ taken \in Nat /\ seq \in Nat /\ given_up \in Nat
      /\ owed \in Seq(Msg) /\ RepliesInOrder /\ CommandsInOrder /\ MsgCount \in Nat
      /\ Oldest \in Int
  BY CountAssumption
     DEF GspReply, GspEvent, GspSend, chan, call, TypeOK, Oldest, Waiting, OrderInv
<1>2. CommandsInOrder'
  BY <1>1 DEF CommandsInOrder
<1>3. PICK m \in Msg :
        /\ m.ec \in 1 .. MsgCount - 1 /\ GspSend(m)
        /\ \/ m.fn = EventFn /\ owed' = owed
           \/ owed # <<>> /\ m.id = owed[1].id /\ owed' = Tail(owed)
  <2>1. CASE GspReply
    <3>1. PICK n \in ReplyElems : GspSend(Hdr(Head(owed).fn, Head(owed).id, n))
      BY <2>1 DEF GspReply
    <3>2. owed # <<>> /\ owed' = Tail(owed) /\ Head(owed) = owed[1] /\ Head(owed) \in Msg
      BY <1>1, <2>1 DEF GspReply
    <3>3. /\ Head(owed).fn \in Functions \cup {EventFn} /\ Head(owed).id \in Int
          /\ n \in 1 .. MsgCount - 1 /\ n \in Nat
      BY <1>1, <3>2, ElemAssumption DEF Msg
    <3>4. PICK m \in Msg : m = Hdr(Head(owed).fn, Head(owed).id, n) /\ m.ec = n
                           /\ m.id = Head(owed).id
      BY <3>3, HdrIsMsg
    <3>5. m.ec \in 1 .. MsgCount - 1 /\ GspSend(m) /\ m.id = owed[1].id
      BY <3>1, <3>2, <3>3, <3>4
    <3> QED BY <3>2, <3>5
  <2>2. CASE GspEvent
    <3>1. PICK n \in EventElems : GspSend(Hdr(EventFn, -1, n))
      BY <2>2 DEF GspEvent
    <3>2. n \in 1 .. MsgCount - 1 /\ n \in Nat
      BY <1>1, ElemAssumption
    <3>3. PICK m \in Msg : m = Hdr(EventFn, -1, n) /\ m.ec = n /\ m.fn = EventFn
      BY <3>2, HdrIsMsg
    <3>4. m.ec \in 1 .. MsgCount - 1 /\ GspSend(m) /\ owed' = owed
      BY <2>2, <3>1, <3>2, <3>3 DEF GspEvent
    <3> QED BY <3>3, <3>4
  <2> QED BY <2>1, <2>2
<1>4. PICK u \in 0 .. MsgCount - 1 :
        /\ u = Used /\ Used' = u + m.ec /\ u + m.ec < MsgCount
        /\ \A i \in 0 .. u - 1 : At(i)' = At(i)
        /\ At(u)' = m
        /\ \A k \in 1 .. m.ec - 1 : At(u + k)' = Rest
  BY <1>3, AfterSend
<1>5. PICK n \in 1 .. MsgCount - 1 : n = m.ec
  BY <1>3
<1>6. ASSUME NEW i \in 0 .. Used' - 1, Reply(i)'
      PROVE  \/ i \in 0 .. u - 1 /\ At(i)' = At(i) /\ Reply(i)
             \/ i = u /\ At(i)' = m /\ owed # <<>> /\ m.id = owed[1].id /\ owed' = Tail(owed)
  <2>1. CASE i < u
    <3>1. i \in 0 .. u - 1
      BY <1>6, <2>1
    <3> QED BY <1>4, <1>6, <3>1 DEF Reply
  <2>2. CASE i = u
    BY <1>3, <1>4, <1>6, <2>2 DEF Reply
  <2>3. CASE i > u
    <3>1. i - u \in 1 .. n - 1 /\ i = u + (i - u)
      BY <1>4, <1>5, <1>6, <2>3
    <3>2. At(i)' = Rest
      BY <1>4, <1>5, <3>1
    <3> QED BY <1>6, <3>2, RestIsMsg DEF Reply
  <2> QED BY <1>4, <1>5, <1>6, <2>1, <2>2, <2>3
<1>7. \A k \in 1 .. Len(owed') : \E l \in 1 .. Len(owed) : owed'[k] = owed[l]
  <2>1. CASE owed' = owed
    BY <2>1
  <2>2. CASE owed' = Tail(owed) /\ owed # <<>>
    <3>1. \A k \in 1 .. Len(owed') : k + 1 \in 1 .. Len(owed) /\ owed'[k] = owed[k + 1]
      BY <1>1, <2>2
    <3> QED BY <3>1
  <2> QED BY <1>3, <2>1, <2>2
<1>8. ASSUME NEW i \in 0 .. Used' - 1, Reply(i)'
      PROVE  /\ At(i)'.id \in Oldest .. taken - 1
             /\ \A j \in 0 .. Used' - 1 : i < j /\ Reply(j)' => At(i)'.id < At(j)'.id
             /\ \A k \in 1 .. Len(owed') : At(i)'.id < owed'[k].id
  <2>1. owed # <<>> => 1 \in 1 .. Len(owed)
    BY <1>1
  <2>2. CASE i \in 0 .. u - 1 /\ At(i)' = At(i) /\ Reply(i)
    <3>1. /\ At(i).id \in Oldest .. taken - 1
          /\ \A j \in 0 .. u - 1 : i < j /\ Reply(j) => At(i).id < At(j).id
          /\ \A k \in 1 .. Len(owed) : At(i).id < owed[k].id
      BY <1>1, <1>4, <2>2 DEF RepliesInOrder
    <3>2. ASSUME NEW j \in 0 .. Used' - 1, i < j, Reply(j)'
          PROVE  At(i)'.id < At(j)'.id
      BY <1>6, <2>1, <2>2, <3>1, <3>2
    <3>3. ASSUME NEW k \in 1 .. Len(owed')
          PROVE  At(i)'.id < owed'[k].id
      <4>1. PICK l \in 1 .. Len(owed) : owed'[k] = owed[l]
        BY <1>7, <3>3
      <4> QED BY <2>2, <3>1, <4>1
    <3> QED BY <2>2, <3>1, <3>2, <3>3
  <2>3. CASE i = u /\ At(i)' = m /\ owed # <<>> /\ m.id = owed[1].id /\ owed' = Tail(owed)
    <3>1. /\ m.id \in Oldest .. taken - 1
          /\ \A l \in 1 .. Len(owed) : 1 < l => m.id < owed[l].id
      BY <1>1, <2>1, <2>3 DEF RepliesInOrder
    <3>2. \A j \in 0 .. Used' - 1 : Reply(j)' => ~(i < j)
      BY <1>6, <2>3
    <3>3. ASSUME NEW k \in 1 .. Len(owed')
          PROVE  At(i)'.id < owed'[k].id
      <4>1. k + 1 \in 1 .. Len(owed) /\ 1 < k + 1 /\ owed'[k] = owed[k + 1]
        BY <1>1, <2>3, <3>3
      <4> QED BY <2>3, <3>1, <4>1
    <3> QED BY <2>3, <3>1, <3>2, <3>3
  <2> QED BY <1>6, <1>8, <2>2, <2>3
<1>9. ASSUME NEW k \in 1 .. Len(owed')
      PROVE  /\ owed'[k].id \in Oldest .. taken - 1
             /\ \A l \in 1 .. Len(owed') : k < l => owed'[k].id < owed'[l].id
  <2>1. CASE owed' = owed
    BY <1>1, <1>9, <2>1 DEF RepliesInOrder
  <2>2. CASE owed' = Tail(owed) /\ owed # <<>>
    <3>1. \A l \in 1 .. Len(owed') : l + 1 \in 1 .. Len(owed) /\ owed'[l] = owed[l + 1]
      BY <1>1, <2>2
    <3>2. owed[k + 1].id \in Oldest .. taken - 1
      BY <1>1, <1>9, <3>1 DEF RepliesInOrder
    <3>3. ASSUME NEW l \in 1 .. Len(owed'), k < l
          PROVE  owed[k + 1].id < owed[l + 1].id
      <4>1. k + 1 \in 1 .. Len(owed) /\ l + 1 \in 1 .. Len(owed) /\ k + 1 < l + 1
        BY <1>1, <1>9, <3>1, <3>3
      <4> QED BY <1>1, <4>1 DEF RepliesInOrder
    <3> QED BY <1>9, <3>1, <3>2, <3>3
  <2> QED BY <1>3, <2>1, <2>2
<1>10. RepliesInOrder'
  BY <1>1, <1>8, <1>9 DEF RepliesInOrder
<1> QED BY <1>2, <1>10

LEMMA OrderStep == TypeOK /\ Framed /\ OrderInv /\ [Next]_vars => OrderInv'
<1> SUFFICES ASSUME TypeOK, Framed, OrderInv, [Next]_vars, Spared'
             PROVE  RepliesInOrder' /\ CommandsInOrder'
  BY DEF OrderInv
<1>0. given_up \in Nat /\ MsgCount \in Nat /\ seq \in Nat
  BY CountAssumption DEF TypeOK
<1>1. Spared
  <2>1. given_up' = given_up \/ given_up' = given_up + 1
    BY DEF Next, HostStep, WriteCommand, PublishCommand, Poll, Skip, Bounds, CopyOut, Finish,
           Again, Timeout, GspTake, GspReply, GspEvent, GspSend, vars
  <2> QED BY <1>0, <2>1 DEF Spared
<1>2. RepliesInOrder /\ CommandsInOrder
  BY <1>1 DEF OrderInv
<1>3. CASE Poll \/ Bounds \/ CopyOut \/ Again \/ Timeout
  <2>1. Oldest' = Oldest
    BY <1>0, <1>3 DEF Poll, Bounds, CopyOut, Again, Timeout, chan, Oldest, Waiting
  <2>2. /\ UNCHANGED <<msgq, msgq_rptr, msgq_writeptr, owed, taken, cmdq, cmdq_writeptr,
                       cmdq_wptr, gspget, seq>>
        /\ pc # "publish" /\ pc' # "publish"
    BY <1>3 DEF Poll, Bounds, CopyOut, Again, Timeout, chan, queues, gsp
  <2>3. Oldest' <= taken
    BY <1>2, <2>1 DEF CommandsInOrder
  <2> QED BY <1>2, <2>1, <2>2, <2>3, RepliesKept, CommandsKept
<1>4. CASE UNCHANGED vars
  <2>1. Oldest' = Oldest
    BY <1>4 DEF vars, Oldest, Waiting
  <2>2. RepliesInOrder'
    BY <1>2, <1>4, <2>1, RepliesKept DEF vars
  <2>3. CommandsInOrder'
    BY <1>2, <1>4, <2>1 DEF vars, CommandsInOrder
  <2> QED BY <2>2, <2>3
<1> QED BY <1>1, <1>3, <1>4, WriteInOrder, PublishInOrder, TakeInOrder, ReadInOrder, SendInOrder
        DEF Next, HostStep

LEMMA AgeStep == IndInv /\ [Next]_vars => ReplyAge'
<1> SUFFICES ASSUME IndInv, [Next]_vars, Spared', pc' = "consume" \/ rc' = "ok"
             PROVE  got' \in (seq' - 1) - given_up' .. seq' - 1
  BY DEF ReplyAge, MyId
<1>0. TypeOK /\ Framed /\ OrderInv /\ ReplyAge /\ given_up \in Nat /\ seq \in Nat
  BY DEF IndInv, TypeOK
<1>1. CASE CopyOut
  <2>1. /\ got' = Message.id /\ seq' = seq /\ given_up' = given_up /\ Spared
        /\ pc = "scan" /\ msgq_rptr # wptr /\ Matches
    BY <1>1 DEF CopyOut, chan, Spared
  <2>2. /\ MsgCount \in Nat /\ MsgCount > 2 /\ Message = At(0) /\ Used \in 0 .. MsgCount - 1
        /\ Seen \in 0 .. MsgCount - 1 /\ Seen # 0 /\ At(0) \in Msg
    BY <1>0, <2>1, Positions
  <2>3. Used > 0 /\ Reply(0)
    BY <1>0, <2>1, <2>2 DEF Framed, Matches, Reply
  <2>4. RepliesInOrder /\ CommandsInOrder
    BY <1>0, <2>1 DEF OrderInv
  <2>5. /\ At(0).id \in Oldest .. taken - 1 /\ Oldest = seq - given_up - 1
        /\ taken <= seq /\ taken \in Nat
    BY <1>0, <2>1, <2>2, <2>3, <2>4 DEF RepliesInOrder, CommandsInOrder, Oldest, Waiting, TypeOK
  <2> QED BY <1>0, <2>1, <2>2, <2>5
<1>2. CASE Finish
  BY <1>0, <1>2 DEF Finish, ReplyAge, MyId, Spared
<1>3. ASSUME NEW f \in Functions, WriteCommand(f)
      PROVE  FALSE
  BY <1>3 DEF WriteCommand
<1>4. CASE PublishCommand \/ Poll \/ Skip \/ Bounds \/ Again \/ Timeout
  <2>1. pc' # "consume" /\ (rc' = "ok" => rc = "ok" /\ pc # "idle")
    BY <1>4 DEF PublishCommand, Poll, Skip, Bounds, Again, Timeout, call
  <2> QED BY <1>0, <2>1 DEF Framed
<1>5. CASE GspTake \/ GspReply \/ GspEvent \/ UNCHANGED vars
  BY <1>0, <1>5 DEF GspTake, GspReply, GspEvent, GspSend, chan, call, vars, ReplyAge, MyId, Spared
<1> QED BY <1>1, <1>2, <1>3, <1>4, <1>5 DEF Next, HostStep

-----------------------------------------------------------------------------
(* The theorems. *)

LEMMA InitInv == Init => IndInv
<1> SUFFICES ASSUME Init
             PROVE  IndInv
  OBVIOUS
<1>0. MsgCount \in Nat /\ MsgCount > 2 /\ Preboot \in Slots /\ Preboot = 2
  BY CountAssumption DEF Slots, Preboot
<1>1. TypeOK
  BY <1>0, RestIsMsg DEF Init, TypeOK
<1>2. Used = 0
  BY <1>1, Positions DEF Init
<1>3. Framed
  BY <1>2 DEF Init, Framed
<1>4. RepliesInOrder
  BY <1>2 DEF Init, RepliesInOrder
<1>5. CommandsInOrder
  <2>1. Advance(gspget, 0) = gspget
    BY <1>0, <1>1, AdvanceIs DEF TypeOK, Slots
  <2>2. seq - taken = 0 /\ Oldest = 2
    BY <1>0 DEF Init, Oldest, Waiting
  <2> QED BY <1>0, <2>1, <2>2 DEF Init, CommandsInOrder
<1>6. ReplyAge
  BY DEF Init, ReplyAge
<1> QED BY <1>1, <1>3, <1>4, <1>5, <1>6 DEF IndInv, OrderInv

\* The inductive invariant holds for rings of any length.
THEOREM Invariance == Spec => []IndInv
<1>1. IndInv /\ [Next]_vars => IndInv'
  BY TypeStep, FramedStep, OrderStep, AgeStep DEF IndInv
<1> QED BY InitInv, <1>1, PTL DEF Spec

\* nv_gsp_rpc_call reads counts and functions only where a message starts,
\* and returns the reply to its own command as long as none was given up.
THEOREM ReplyIsOwn == Spec => []OwnReply
<1>1. IndInv => OwnReply
  <2> SUFFICES ASSUME IndInv
               PROVE  /\ pc \in {"scan", "consume"} /\ msgq_rptr # wptr => Message.hdr
                      /\ rc = "ok" /\ given_up = 0 => got = MyId
    BY DEF OwnReply
  <2>1. TypeOK /\ Framed /\ ReplyAge
    BY DEF IndInv
  <2>2. ASSUME pc \in {"scan", "consume"}, msgq_rptr # wptr
        PROVE  Message.hdr
    BY <2>1, <2>2, Positions DEF Framed
  <2>3. ASSUME rc = "ok", given_up = 0
        PROVE  got = MyId
    BY <2>1, <2>3, CountAssumption DEF ReplyAge, Spared, MyId, TypeOK
  <2> QED BY <2>2, <2>3
<1> QED BY Invariance, <1>1, PTL

\* A call given up leaves its reply to be taken for that of a later call of
\* the same function; but however late the firmware is, the reply a call
\* returns is at most as many commands old as calls were given up.
THEOREM LateByGivenUp ==
    Spec => [](Spared /\ rc = "ok" => got \in MyId - given_up .. MyId)
<1>1. IndInv => (Spared /\ rc = "ok" => got \in MyId - given_up .. MyId)
  BY DEF IndInv, ReplyAge
<1> QED BY Invariance, <1>1, PTL

\* nv_gsp_cmdq_write does not look at the firmware's read pointer, and need
\* not: the firmware finds every command whole and in its turn until as many
\* calls were given up as the ring has slots to spare.
THEOREM CommandsAreIntact == Spec => []CommandsIntact
<1>1. IndInv => CommandsIntact
  <2> SUFFICES ASSUME IndInv, given_up < MsgCount - 1, gspget # cmdq_writeptr
               PROVE  cmdq[gspget].hdr /\ cmdq[gspget].id = taken
    BY DEF CommandsIntact
  <2>1. TypeOK /\ Spared /\ CommandsInOrder /\ taken \in Nat /\ gspget \in Slots
    BY DEF IndInv, OrderInv, Spared, TypeOK
  <2>2. PICK n \in 0 .. MsgCount - 1 : n = seq - taken /\ n # 0
    BY <2>1, Ahead
  <2>3. 0 \in 0 .. seq - taken - 1 /\ Advance(gspget, 0) = gspget
    BY <2>1, <2>2, CountAssumption, AdvanceIs DEF Slots
  <2> QED BY <2>1, <2>3 DEF CommandsInOrder
<1> QED BY Invariance, <1>1, PTL
=============================================================================
