----------------------------- MODULE KlogProofs -----------------------------
(***************************************************************************)
(* Proof that what the journal reports as written is in the file, for any  *)
(* number of flushing threads, size of the buffer and lengths of lines.    *)
(*                                                                         *)
(* Every flush truncates the file, under the feet of the others too.  What *)
(* makes up for it is that it reads the length after it truncated, and     *)
(* writes from 0: whoever truncates last writes at least what any other    *)
(* flush had read before.  A note may come to lie over bytes of another    *)
(* flush, but leaves no hole, and there is none before an overflow.        *)
(***************************************************************************)
EXTENDS Klog, TLAPS

TypeOK ==
    /\ gLen \in Nat /\ gOverflow \in BOOLEAN /\ gTriesLeft \in Nat /\ gFlushedLen \in Nat
    /\ file \subseteq Nat /\ note \subseteq Nat /\ mounted \in BOOLEAN
    /\ pc \in [Flushers -> {"idle", "open", "snapshot", "write", "note", "close", "record"}]
    /\ len \in [Flushers -> Nat] /\ off \in [Flushers -> Nat]
    /\ flushes \in Nat /\ failed \in BOOLEAN /\ reported \in Nat

\* The steps of a flush that has read a length.
Writing == {"write", "note", "close"}

\* A position is written, or a flush that is under way will write it.
Covered(p) ==
    \/ p \in file \cup note
    \/ \E t \in Flushers : pc[t] = "snapshot"
    \/ \E t \in Flushers : pc[t] = "write" /\ off[t] <= p /\ p < len[t]

\* The buffer only grows: no flush knows of more than it holds.
LengthsKnown ==
    /\ reported <= gLen
    /\ \A t \in Flushers : pc[t] \in Writing => off[t] <= len[t] /\ len[t] <= gLen
    /\ \A t \in Flushers : pc[t] \in {"note", "close"} => off[t] = len[t]

\* Notes are written after an overflow only.
NotesOnOverflow ==
    ~gOverflow => note = {} /\ \A t \in Flushers : pc[t] # "note"

\* What was reported, and what a flush has behind it, is covered.
AllCovered ==
    ~failed => /\ \A p \in Nat : p < reported => Covered(p)
               /\ \A t \in Flushers : pc[t] \in Writing =>
                      \A p \in Nat : p < off[t] => Covered(p)

IndInv == TypeOK /\ LengthsKnown /\ NotesOnOverflow /\ AllCovered

LEMMA InitInv == KlogInit => IndInv
<1> SUFFICES ASSUME KlogInit PROVE IndInv
  OBVIOUS
<1>1. TypeOK
  BY TriesAssumption, SizeAssumption DEF KlogInit, TypeOK
<1>2. LengthsKnown /\ NotesOnOverflow /\ AllCovered
  BY SizeAssumption DEF KlogInit, LengthsKnown, NotesOnOverflow, AllCovered, Writing
<1> QED BY <1>1, <1>2 DEF IndInv

LEMMA TypeInv == TypeOK /\ [KlogNext]_jvars => TypeOK'
<1> SUFFICES ASSUME TypeOK, [KlogNext]_jvars PROVE TypeOK'
  OBVIOUS
<1> USE SizeAssumption, ThreadAssumption DEF TypeOK
<1>1. ASSUME NEW n \in LineLengths, Log(n) PROVE TypeOK'
  <2>1. n \in Nat
    OBVIOUS
  <2>2. CASE Fits(n)
    BY <1>1, <2>1, <2>2 DEF Log
  <2>3. CASE ~Fits(n)
    BY <1>1, <2>3 DEF Log
  <2> QED BY <2>2, <2>3
<1>2. CASE Mount
  BY <1>2 DEF Mount
<1>3. CASE FlushLazy
  BY <1>3 DEF FlushLazy
<1>4. ASSUME NEW t \in Flushers, Flush(t) PROVE TypeOK'
  BY <1>4 DEF Flush
<1>5. ASSUME NEW t \in Flushers, Step(t) PROVE TypeOK'
  <2>1. CASE Open(t)
    BY <2>1 DEF Open
  <2>2. CASE Snapshot(t)
    BY <2>2 DEF Snapshot, From
  <2>3. CASE Write(t)
    <3>1. PICK n \in 1 .. len[t] - off[t] :
            /\ file' = file \cup off[t] .. off[t] + n - 1
            /\ note' = note \ (off[t] .. off[t] + n - 1)
            /\ off' = [off EXCEPT ![t] = @ + n]
      BY <2>3 DEF Write
    <3>2. off[t] \in Nat /\ len[t] \in Nat /\ n \in Nat
      OBVIOUS
    <3>3. file' \subseteq Nat /\ note' \subseteq Nat
      <4>1. off[t] .. off[t] + n - 1 \subseteq Nat
        BY <3>2
      <4> QED BY <3>1, <4>1
    <3>4. off' \in [Flushers -> Nat]
      BY <3>1, <3>2
    <3> QED BY <2>3, <3>3, <3>4 DEF Write
  <2>4. CASE WriteFails(t)
    BY <2>4 DEF WriteFails
  <2>5. CASE Written(t)
    BY <2>5 DEF Written
  <2>6. CASE WriteNote(t)
    <3>1. PICK n \in 0 .. NoteLength :
            /\ note' = note \cup off[t] .. off[t] + n - 1
            /\ file' = file \ (off[t] .. off[t] + n - 1)
      BY <2>6 DEF WriteNote
    <3>2. off[t] \in Nat /\ n \in Nat
      OBVIOUS
    <3>3. off[t] .. off[t] + n - 1 \subseteq Nat
      BY <3>2
    <3>4. file' \subseteq Nat /\ note' \subseteq Nat
      BY <3>1, <3>3
    <3> QED BY <2>6, <3>4 DEF WriteNote
  <2>7. CASE Close(t)
    BY <2>7 DEF Close
  <2>8. CASE Record
    BY <2>8 DEF Record
  <2> QED BY <1>5, <2>1, <2>2, <2>3, <2>4, <2>5, <2>6, <2>7, <2>8 DEF Step
<1>6. CASE UNCHANGED jvars
  BY <1>6 DEF jvars
<1> QED BY <1>1, <1>2, <1>3, <1>4, <1>5, <1>6 DEF KlogNext

\* Steps that leave file, snapshots and writes as they are.
LEMMA OthersInv ==
    ASSUME IndInv, TypeOK', file' = file, note' = note, reported' = reported,
           failed' = failed, len' = len, off' = off, gLen' >= gLen, gOverflow => gOverflow',
           \A t \in Flushers : pc'[t] = pc[t] \/ {pc[t], pc'[t]} \subseteq {"idle", "open", "record"}
    PROVE  IndInv'
<1> USE DEF IndInv, TypeOK
<1>1. \A t \in Flushers : \A q \in {"snapshot"} \cup Writing : pc'[t] = q <=> pc[t] = q
  BY DEF Writing
<1>2. LengthsKnown' /\ NotesOnOverflow'
  BY <1>1 DEF LengthsKnown, NotesOnOverflow, Writing
<1>3. \A p \in Nat : Covered(p) => Covered(p)'
  BY <1>1 DEF Covered, Writing
<1>4. AllCovered'
  BY <1>1, <1>3 DEF AllCovered, Writing
<1> QED BY <1>2, <1>4

LEMMA OpenInv ==
    ASSUME IndInv, TypeOK', NEW t \in Flushers, Open(t)
    PROVE  IndInv'
<1>1. CASE ~mounted
  BY <1>1, OthersInv DEF Open, IndInv, TypeOK
<1>2. CASE mounted
  <2> USE <1>2 DEF IndInv, TypeOK, Open
  <2>1. pc'[t] = "snapshot"
    OBVIOUS
  <2>2. LengthsKnown' /\ NotesOnOverflow'
    BY DEF LengthsKnown, NotesOnOverflow, Writing
  <2>3. AllCovered'
    BY <2>1 DEF AllCovered, Covered
  <2> QED BY <2>2, <2>3
<1> QED BY <1>1, <1>2

LEMMA SnapshotInv ==
    ASSUME IndInv, TypeOK', NEW t \in Flushers, Snapshot(t)
    PROVE  IndInv'
<1> USE DEF IndInv, TypeOK, Snapshot, From
<1>1. LengthsKnown' /\ NotesOnOverflow'
  BY DEF LengthsKnown, NotesOnOverflow, Writing
<1>2. \A p \in Nat : p < gLen => Covered(p)'
  BY DEF Covered
<1>3. \A u \in Flushers : pc'[u] \in Writing => off'[u] <= gLen
  BY <1>1 DEF LengthsKnown
<1>4. AllCovered'
  BY <1>1, <1>2, <1>3 DEF AllCovered, LengthsKnown
<1> QED BY <1>1, <1>4

LEMMA WriteInv ==
    ASSUME IndInv, TypeOK', NEW t \in Flushers, Write(t)
    PROVE  IndInv'
<1> USE DEF IndInv, TypeOK
<1>1. PICK n \in 1 .. len[t] - off[t] :
        /\ file' = file \cup off[t] .. off[t] + n - 1
        /\ note' = note \ (off[t] .. off[t] + n - 1)
        /\ off' = [off EXCEPT ![t] = @ + n]
  BY DEF Write
<1>2. /\ pc' = pc /\ len' = len /\ gLen' = gLen /\ reported' = reported /\ failed' = failed
      /\ pc[t] = "write" /\ gOverflow' = gOverflow
  BY DEF Write
<1>3. LengthsKnown' /\ NotesOnOverflow'
  BY <1>1, <1>2 DEF LengthsKnown, NotesOnOverflow, Writing
<1>4. \A p \in Nat : Covered(p) => Covered(p)'
  BY <1>1, <1>2 DEF Covered
<1>5. \A p \in Nat : p < off'[t] => p < off[t] \/ p \in file'
  BY <1>1
<1>6. AllCovered'
  BY <1>1, <1>2, <1>4, <1>5 DEF AllCovered, Covered, Writing
<1> QED BY <1>3, <1>6

LEMMA WrittenInv ==
    ASSUME IndInv, TypeOK', NEW t \in Flushers, Written(t)
    PROVE  IndInv'
<1> USE DEF IndInv, TypeOK, Written, Writing
<1>1. LengthsKnown' /\ NotesOnOverflow'
  BY DEF LengthsKnown, NotesOnOverflow
<1>2. \A p \in Nat : Covered(p) => Covered(p)'
  BY DEF Covered
<1>3. AllCovered'
  BY <1>2 DEF AllCovered
<1> QED BY <1>1, <1>3

\* The note covers as much as it takes away.
LEMMA NoteInv ==
    ASSUME IndInv, TypeOK', NEW t \in Flushers, WriteNote(t)
    PROVE  IndInv'
<1> USE DEF IndInv, TypeOK, Writing
<1>1. PICK n \in 0 .. NoteLength : /\ note' = note \cup off[t] .. off[t] + n - 1
                                  /\ file' = file \ (off[t] .. off[t] + n - 1)
  BY DEF WriteNote
<1>2. /\ pc' = [pc EXCEPT ![t] = "close"] /\ pc[t] = "note"
      /\ len' = len /\ off' = off /\ gLen' = gLen /\ reported' = reported /\ failed' = failed
      /\ gOverflow' = gOverflow
  BY DEF WriteNote
<1>3. LengthsKnown' /\ NotesOnOverflow'
  BY <1>2 DEF LengthsKnown, NotesOnOverflow
<1>4. \A p \in Nat : Covered(p) => Covered(p)'
  BY <1>1, <1>2 DEF Covered
<1>5. AllCovered'
  BY <1>2, <1>4 DEF AllCovered
<1> QED BY <1>3, <1>5

LEMMA CloseInv ==
    ASSUME IndInv, TypeOK', NEW t \in Flushers, Close(t)
    PROVE  IndInv'
<1> USE DEF IndInv, TypeOK, Close, Writing
<1>1. LengthsKnown' /\ NotesOnOverflow'
  BY DEF LengthsKnown, NotesOnOverflow
<1>2. \A p \in Nat : Covered(p) => Covered(p)'
  BY DEF Covered
<1>3. \A p \in Nat : p < reported' => p < reported \/ p < off[t]
  BY DEF LengthsKnown
<1>4. AllCovered'
  BY <1>2, <1>3 DEF AllCovered
<1> QED BY <1>1, <1>4

LEMMA NextInv == IndInv /\ [KlogNext]_jvars => IndInv'
<1> SUFFICES ASSUME IndInv, [KlogNext]_jvars PROVE IndInv'
  OBVIOUS
<1>0. TypeOK /\ TypeOK'
  BY TypeInv DEF IndInv
<1> USE <1>0
<1>1. ASSUME NEW n \in LineLengths, Log(n) PROVE IndInv'
  BY <1>1, OthersInv, SizeAssumption DEF Log, TypeOK
<1>2. CASE Mount
  BY <1>2, OthersInv DEF Mount, TypeOK
<1>3. CASE FlushLazy
  BY <1>3, OthersInv, ThreadAssumption DEF FlushLazy, TypeOK
<1>4. ASSUME NEW t \in Flushers, Flush(t) PROVE IndInv'
  BY <1>4, OthersInv DEF Flush, TypeOK
<1>5. ASSUME NEW t \in Flushers, WriteFails(t) PROVE IndInv'
  BY <1>5 DEF WriteFails, IndInv, TypeOK, LengthsKnown, NotesOnOverflow, AllCovered, Writing
<1>6. CASE Record
  BY <1>6, OthersInv, ThreadAssumption DEF Record, TypeOK
<1>7. CASE UNCHANGED jvars
  BY <1>7, OthersInv DEF jvars, TypeOK
<1> QED BY <1>1, <1>2, <1>3, <1>4, <1>5, <1>6, <1>7, OpenInv, SnapshotInv, WriteInv,
        WrittenInv, NoteInv, CloseInv DEF KlogNext, Step

\* Whatever flushes overlap, when all have ended and no write has failed, the
\* bytes that mfb_klog_flush recorded as written are in the file, and after an
\* overflow a note has at most come to lie over some: there are no holes.
THEOREM ReportIsKept == KlogSpec => []ReportedIsInFile
<1>1. IndInv => ReportedIsInFile
  <2> SUFFICES ASSUME IndInv, Resting, ~failed, NEW p \in 0 .. reported - 1
               PROVE  p \in IF gOverflow THEN file \cup note ELSE file
    BY DEF ReportedIsInFile
  <2>1. p \in file \cup note
    BY DEF IndInv, TypeOK, AllCovered, Covered, Resting
  <2> QED BY <2>1 DEF IndInv, NotesOnOverflow
<1> QED BY <1>1, InitInv, NextInv, PTL DEF KlogSpec
=============================================================================
