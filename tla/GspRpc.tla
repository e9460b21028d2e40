------------------------------- MODULE GspRpc -------------------------------
(***************************************************************************)
(* The two-way RPC to GSP-RM: nv_gsp_rpc_call (driver/gsp/gsp_rm.c) over   *)
(* the command and message queues of driver/gsp/gsp_rpc.c, from the point  *)
(* where bring-up has drained the boot events (GSP_INIT_DONE).             *)
(*                                                                         *)
(* Both queues are rings of MsgCount page-sized slots in memory the        *)
(* firmware reads and writes by DMA.  The firmware (external) takes        *)
(* commands in order, answers each of them when it pleases and sends       *)
(* events of its own in between; it sees doorbells whenever it likes, so   *)
(* they are not modelled.  A message is known by its function and by the   *)
(* command it answers (id, the sequence number of that command); the host  *)
(* looks only at the function.                                             *)
(***************************************************************************)
EXTENDS Integers, Sequences

CONSTANTS
    MsgCount,    \* msg_count: slots of a queue
    Functions,   \* RPC functions the driver calls
    EventFn,     \* the function of an asynchronous event
    ReplyElems,  \* slots a reply may take
    EventElems,  \* slots an event may take
    MaxCalls,    \* bound on the number of calls
    MaxEvents    \* bound on the number of events

ASSUME CountAssumption    == MsgCount \in Nat \ {0, 1, 2}
ASSUME FunctionAssumption == EventFn \notin Functions
ASSUME ElemAssumption     == ReplyElems \cup EventElems \subseteq 1 .. MsgCount - 1
ASSUME BoundAssumption    == MaxCalls \in Nat /\ MaxEvents \in Nat

Slots == 0 .. MsgCount - 1
Preboot == 2     \* SET_SYSTEM_INFO and SET_REGISTRY, written before boot

\* The first slot of a message, and a slot that is none: free, or the rest of
\* a longer message, where the host would read a count of 0.
Hdr(fn, id, ec) == [fn |-> fn, id |-> id, ec |-> ec, hdr |-> TRUE]
Rest            == [fn |-> EventFn, id |-> -1, ec |-> 0, hdr |-> FALSE]

VARIABLES
    cmdq, cmdq_writeptr,                   \* commands, the host writes
    msgq, msgq_writeptr, msgq_readptr,     \* messages, the firmware writes
    cmdq_wptr, seq, msgq_rptr,             \* nv_gsp_rpc_chan
    pc, fn, wptr, got, rc,                 \* the call in progress
    gspget, taken, owed, events,           \* the firmware
    given_up                               \* history: calls that failed

chan   == <<cmdq_wptr, seq, msgq_rptr>>
call   == <<pc, fn, wptr, got, rc>>
queues == <<cmdq, cmdq_writeptr, msgq, msgq_writeptr, msgq_readptr>>
gsp    == <<gspget, taken, owed, events>>
vars   == <<cmdq, cmdq_writeptr, msgq, msgq_writeptr, msgq_readptr, cmdq_wptr, seq,
            msgq_rptr, pc, fn, wptr, got, rc, gspget, taken, owed, events, given_up>>

\* After the drain: the firmware has taken the two commands of pre-boot, and
\* the host has read all events up to some slot of the ring.
Init ==
    /\ cmdq = [i \in Slots |-> Rest] /\ cmdq_writeptr = Preboot
    /\ msgq = [i \in Slots |-> Rest]
    /\ msgq_writeptr \in Slots /\ msgq_readptr = msgq_writeptr
    /\ cmdq_wptr = Preboot /\ seq = Preboot /\ msgq_rptr = msgq_writeptr
    /\ pc = "idle" /\ fn = EventFn /\ wptr = msgq_writeptr /\ got = -1 /\ rc = "none"
    /\ gspget = Preboot /\ taken = Preboot /\ owed = <<>> /\ events = 0
    /\ given_up = 0

\* The pointers are brought back into the ring by subtraction.
Advance(p, n) == (p + n) % MsgCount

-----------------------------------------------------------------------------
(* nv_gsp_rpc_call *)

\* Mutant: the command goes to the slot behind the write pointer.
CommandSlot_Next == Advance(cmdq_wptr, 1)

CommandSlot == cmdq_wptr

\* nv_gsp_cmdq_write: every request of the driver fits one slot.
WriteCommand(f) ==
    /\ pc = "idle" /\ seq < Preboot + MaxCalls
    /\ cmdq' = [cmdq EXCEPT ![CommandSlot] = Hdr(f, seq, 1)]
    /\ cmdq_wptr' = Advance(cmdq_wptr, 1)
    /\ fn' = f /\ pc' = "publish" /\ got' = -1 /\ rc' = "none"
    /\ UNCHANGED <<cmdq_writeptr, msgq, msgq_writeptr, msgq_readptr, seq, msgq_rptr,
                   wptr, gsp, given_up>>

\* nv_gsp_cmdq_set_writeptr and the doorbell.
PublishCommand ==
    /\ pc = "publish" /\ pc' = "poll"
    /\ cmdq_writeptr' = cmdq_wptr
    /\ seq' = seq + 1
    /\ UNCHANGED <<cmdq, msgq, msgq_writeptr, msgq_readptr, cmdq_wptr, msgq_rptr,
                   fn, wptr, got, rc, gsp, given_up>>

\* The command of the call that is waiting.
MyId == seq - 1

\* One look at the write pointer per round; the messages up to it are read
\* without another.
Poll ==
    /\ pc = "poll" /\ pc' = "scan"
    /\ wptr' = msgq_writeptr
    /\ UNCHANGED <<queues, chan, fn, got, rc, gsp, given_up>>

Message == msgq[msgq_rptr]

\* Mutant: a message is taken to be one slot long.
Elems_One == 1

\* The count of the message; one out of range is read as 1.
Elems == IF Message.ec \in 1 .. MsgCount THEN Message.ec ELSE 1

Matches == Message.fn = fn

Consume ==
    /\ msgq_rptr' = Advance(msgq_rptr, Elems)
    /\ msgq_readptr' = msgq_rptr'

\* Another message: an event, skipped.
Skip ==
    /\ pc = "scan" /\ msgq_rptr # wptr /\ ~Matches
    /\ Consume
    /\ UNCHANGED <<cmdq, cmdq_writeptr, msgq, msgq_writeptr, cmdq_wptr, seq, call, gsp,
                   given_up>>

\* The reply would run past the end of the ring: it is left where it is.
Bounds ==
    /\ pc = "scan" /\ msgq_rptr # wptr /\ Matches
    /\ msgq_rptr + Elems > MsgCount
    /\ pc' = "idle" /\ rc' = "bounds"
    /\ given_up' = given_up + 1
    /\ UNCHANGED <<queues, chan, fn, wptr, got, gsp>>

\* The payload is copied out, then the slots are given back.
CopyOut ==
    /\ pc = "scan" /\ msgq_rptr # wptr /\ Matches
    /\ msgq_rptr + Elems <= MsgCount
    /\ got' = Message.id /\ pc' = "consume"
    /\ UNCHANGED <<queues, chan, fn, wptr, rc, gsp, given_up>>

Finish ==
    /\ pc = "consume" /\ pc' = "idle"
    /\ Consume
    /\ rc' = "ok"
    /\ UNCHANGED <<cmdq, cmdq_writeptr, msgq, msgq_writeptr, cmdq_wptr, seq, fn, wptr, got,
                   gsp, given_up>>

\* All read: look again, or give up.
Again ==
    /\ pc = "scan" /\ msgq_rptr = wptr /\ pc' = "poll"
    /\ UNCHANGED <<queues, chan, fn, wptr, got, rc, gsp, given_up>>

Timeout ==
    /\ pc = "scan" /\ msgq_rptr = wptr
    /\ pc' = "idle" /\ rc' = "timeout"
    /\ given_up' = given_up + 1
    /\ UNCHANGED <<queues, chan, fn, wptr, got, gsp>>

-----------------------------------------------------------------------------
(* The firmware (external).                                                *)

\* It reads commands up to the host's write pointer.
GspTake ==
    /\ gspget # cmdq_writeptr
    /\ owed' = Append(owed, cmdq[gspget])
    /\ taken' = taken + 1
    /\ gspget' = Advance(gspget, 1)
    /\ UNCHANGED <<queues, chan, call, events, given_up>>

\* One slot stays free, so that a full queue does not look empty.
Room == (msgq_readptr - msgq_writeptr - 1) % MsgCount

GspSend(m) ==
    /\ m.ec <= Room
    /\ msgq' = [i \in Slots |->
                  IF i = msgq_writeptr THEN m
                  ELSE IF \E k \in 1 .. m.ec - 1 : i = Advance(msgq_writeptr, k) THEN Rest
                  ELSE msgq[i]]
    /\ msgq_writeptr' = Advance(msgq_writeptr, m.ec)
    /\ UNCHANGED <<cmdq, cmdq_writeptr, msgq_readptr, chan, call, gspget, taken, given_up>>

GspReply ==
    /\ owed # <<>>
    /\ \E n \in ReplyElems : GspSend(Hdr(Head(owed).fn, Head(owed).id, n))
    /\ owed' = Tail(owed) /\ UNCHANGED events

GspEvent ==
    /\ events < MaxEvents /\ events' = events + 1
    /\ \E n \in EventElems : GspSend(Hdr(EventFn, -1, n))
    /\ UNCHANGED owed

-----------------------------------------------------------------------------
HostStep ==
    \/ PublishCommand \/ Poll \/ Skip \/ Bounds \/ CopyOut \/ Finish
    \/ Again \/ Timeout

Next ==
    \/ \E f \in Functions : WriteCommand(f)
    \/ HostStep
    \/ GspTake \/ GspReply \/ GspEvent

Spec == Init /\ [][Next]_vars

-----------------------------------------------------------------------------
(* Properties *)

\* The host reads counts and functions only where a message starts, also
\* after messages of several slots and around the end of the ring; and as long
\* as every call was answered in time, the reply a call returns is the reply to
\* its own command.
OwnReply ==
    /\ pc \in {"scan", "consume"} /\ msgq_rptr # wptr => Message.hdr
    /\ rc = "ok" /\ given_up = 0 => got = MyId

\* Commands reach the firmware in order and complete: the host does not look
\* at the firmware's read pointer, and need not until it has given up on as
\* many calls as the ring has slots to spare.
CommandsIntact ==
    given_up < MsgCount - 1 /\ gspget # cmdq_writeptr =>
        cmdq[gspget].hdr /\ cmdq[gspget].id = taken

\* The answer written back to the caller is the answer to its command
\* (docs/gsp-layer3-rpc.md).
ReplyAnswersTheCall == rc = "ok" => got = MyId
=============================================================================
