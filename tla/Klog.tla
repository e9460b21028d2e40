-------------------------------- MODULE Klog --------------------------------
(***************************************************************************)
(* The journal of the kext, driver/macos/mfb_klog.cpp: lines are appended  *)
(* to a buffer under gLock from any thread; the buffer is written to       *)
(* lastboot.log by mfb_klog_flush, called by start and stop, and by        *)
(* mfb_klog_flush_lazy, called from methods of IOFramebuffer.  start may   *)
(* still be in its last flush when the first of these methods comes, and   *)
(* clients log while either is writing.                                    *)
(*                                                                         *)
(* A line is its length.  The buffer only grows, so that a byte of the     *)
(* journal is known by its position, and the file by the positions that    *)
(* hold their byte and those that hold the note on an overflow, which each *)
(* flush puts where its own copy ended.                                    *)
(***************************************************************************)
EXTENDS Integers, FiniteSets

CONSTANTS
    KLOG_SIZE,     \* bytes of the buffer
    KLOG_TRIES,    \* lazy flushes that may go to disk
    LineLengths,   \* lengths of lines
    NoteLength,    \* bytes of the note on an overflow
    Flushers,      \* threads that flush: those of start and stop, and
    Lazy,          \* the thread of IOFramebuffer's methods
    MaxFlushes     \* bound on the flushes start and stop make

ASSUME SizeAssumption   == KLOG_SIZE \in Nat \ {0} /\ LineLengths \subseteq Nat \ {0}
                           /\ NoteLength \in Nat
ASSUME ThreadAssumption == Lazy \in Flushers
ASSUME TriesAssumption  == KLOG_TRIES \in Nat /\ MaxFlushes \in Nat

VARIABLES
    gLen, gOverflow, gTriesLeft, gFlushedLen,
    file, note,          \* positions in the file: of the journal, of a note
    mounted,             \* the root file system is there
    pc, len, off,        \* of every flusher: step, bytes to write, bytes written
    flushes,             \* explicit flushes so far
    failed, reported     \* history: a write has failed; bytes reported written

jvars == <<gLen, gOverflow, gTriesLeft, gFlushedLen, file, note, mounted, pc, len, off,
          flushes, failed, reported>>

\* mfb_klog_init, and the line start writes before it does anything else.
KlogInit ==
    /\ gLen \in {n \in LineLengths : n + 1 < KLOG_SIZE} /\ gOverflow = FALSE
    /\ gTriesLeft = KLOG_TRIES /\ gFlushedLen = 0
    /\ file = {} /\ note = {} /\ mounted = FALSE
    /\ pc = [t \in Flushers |-> "idle"]
    /\ len = [t \in Flushers |-> 0] /\ off = [t \in Flushers |-> 0]
    /\ flushes = 0 /\ failed = FALSE /\ reported = 0

Fits(n) == gLen + n + 1 < KLOG_SIZE

\* mfb_klog_vprintf: a line that does not fit is dropped and that is noted.
Log(n) ==
    /\ IF Fits(n)
       THEN gLen' = gLen + n /\ UNCHANGED gOverflow
       ELSE gOverflow' = TRUE /\ UNCHANGED gLen
    /\ UNCHANGED <<gTriesLeft, gFlushedLen, file, note, mounted, pc, len, off, flushes, failed,
                   reported>>

Mount ==
    /\ ~mounted /\ mounted' = TRUE
    /\ UNCHANGED <<gLen, gOverflow, gTriesLeft, gFlushedLen, file, note, pc, len, off, flushes,
                   failed, reported>>

-----------------------------------------------------------------------------
(* mfb_klog_flush, with its two callers.                                   *)

Flush(t) ==
    /\ t # Lazy /\ pc[t] = "idle" /\ flushes < MaxFlushes
    /\ flushes' = flushes + 1
    /\ pc' = [pc EXCEPT ![t] = "open"]
    /\ UNCHANGED <<gLen, gOverflow, gTriesLeft, gFlushedLen, file, note, mounted, len, off,
                   failed, reported>>

\* All of it is in the file already.
NothingNew == gLen = gFlushedLen /\ gFlushedLen # 0

\* mfb_klog_flush_lazy: an attempt is counted before it is made.
FlushLazy ==
    /\ pc[Lazy] = "idle" /\ gTriesLeft > 0 /\ ~NothingNew
    /\ gTriesLeft' = gTriesLeft - 1
    /\ pc' = [pc EXCEPT ![Lazy] = "open"]
    /\ UNCHANGED <<gLen, gOverflow, gFlushedLen, file, note, mounted, len, off, flushes, failed,
                   reported>>

\* The file is truncated as it is opened.
Open(t) ==
    /\ pc[t] = "open"
    /\ IF mounted
       THEN pc' = [pc EXCEPT ![t] = "snapshot"] /\ file' = {} /\ note' = {}
       ELSE pc' = [pc EXCEPT ![t] = "idle"] /\ UNCHANGED <<file, note>>
    /\ UNCHANGED <<gLen, gOverflow, gTriesLeft, gFlushedLen, mounted, len, off, flushes, failed,
                   reported>>

\* Mutant: what is written is what was new.
From_Flushed == gFlushedLen

\* The first byte written.
From == 0

\* The length is read under the lock, after the file was emptied.
Snapshot(t) ==
    /\ pc[t] = "snapshot" /\ pc' = [pc EXCEPT ![t] = "write"]
    /\ len' = [len EXCEPT ![t] = gLen] /\ off' = [off EXCEPT ![t] = From]
    /\ UNCHANGED <<gLen, gOverflow, gTriesLeft, gFlushedLen, file, note, mounted, flushes,
                   failed, reported>>

\* A write may come back short; it goes on where that one ended.
Write(t) ==
    /\ pc[t] = "write" /\ off[t] < len[t]
    /\ \E n \in 1 .. len[t] - off[t] :
         /\ file' = file \cup off[t] .. off[t] + n - 1
         /\ note' = note \ (off[t] .. off[t] + n - 1)
         /\ off' = [off EXCEPT ![t] = @ + n]
    /\ UNCHANGED <<gLen, gOverflow, gTriesLeft, gFlushedLen, mounted, pc, len, flushes,
                   failed, reported>>

WriteFails(t) ==
    /\ pc[t] = "write" /\ off[t] < len[t]
    /\ pc' = [pc EXCEPT ![t] = "idle"] /\ failed' = TRUE
    /\ UNCHANGED <<gLen, gOverflow, gTriesLeft, gFlushedLen, file, note, mounted, len, off,
                   flushes, reported>>

\* All that was read is written.
Written(t) ==
    /\ pc[t] = "write" /\ off[t] >= len[t]
    /\ pc' = [pc EXCEPT ![t] = IF gOverflow THEN "note" ELSE "close"]
    /\ UNCHANGED <<gLen, gOverflow, gTriesLeft, gFlushedLen, file, note, mounted, len, off,
                   flushes, failed, reported>>

\* The note goes where this flush has ended, which another flush may have
\* written beyond; how much of it was taken is not looked at.
WriteNote(t) ==
    /\ pc[t] = "note" /\ pc' = [pc EXCEPT ![t] = "close"]
    /\ \E n \in 0 .. NoteLength :
         /\ note' = note \cup off[t] .. off[t] + n - 1
         /\ file' = file \ (off[t] .. off[t] + n - 1)
    /\ UNCHANGED <<gLen, gOverflow, gTriesLeft, gFlushedLen, mounted, len, off, flushes, failed,
                   reported>>

\* The file is closed and the length recorded.
Close(t) ==
    /\ pc[t] = "close" /\ gFlushedLen' = len[t]
    /\ reported' = IF len[t] > reported THEN len[t] ELSE reported
    /\ pc' = [pc EXCEPT ![t] = IF t = Lazy THEN "record" ELSE "idle"]
    /\ UNCHANGED <<gLen, gOverflow, gTriesLeft, file, note, mounted, len, off, flushes, failed>>

\* The lazy flush records once more, the length the buffer has by now.
Record ==
    /\ pc[Lazy] = "record" /\ pc' = [pc EXCEPT ![Lazy] = "idle"]
    /\ gFlushedLen' = gLen
    /\ UNCHANGED <<gLen, gOverflow, gTriesLeft, file, note, mounted, len, off, flushes, failed,
                   reported>>

Step(t) ==
    \/ Open(t) \/ Snapshot(t) \/ Write(t) \/ WriteFails(t) \/ Written(t) \/ WriteNote(t) \/ Close(t)
    \/ t = Lazy /\ Record

KlogNext ==
    \/ \E n \in LineLengths : Log(n)
    \/ Mount \/ FlushLazy
    \/ \E t \in Flushers : Flush(t) \/ Step(t)

\* A flush that was begun is carried through, and IOFramebuffer's methods are
\* called again and again.
Fairness ==
    /\ \A t \in Flushers : WF_jvars(Step(t))
    /\ WF_jvars(FlushLazy)

KlogSpec == KlogInit /\ [][KlogNext]_jvars /\ Fairness

-----------------------------------------------------------------------------
(* Properties *)

Resting == \A t \in Flushers : pc[t] \in {"idle", "record"}

\* Two flushes may truncate and write one file at the same time.  When both
\* have ended and no write has failed, all that either has reported as written
\* is there, without holes; once the buffer has overflowed, a note of another
\* flush may lie over some of it.
ReportedIsInFile ==
    Resting /\ ~failed =>
        0 .. reported - 1 \subseteq IF gOverflow THEN file \cup note ELSE file

\* "Only those are counted that really went to disk" (26), "root not mounted
\* yet - try again later" (107): the journal gets to the disk once the root is
\* there, unless a write fails.
JournalReachesDisk == mounted ~> reported > 0 \/ failed
=============================================================================
