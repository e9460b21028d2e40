----------------------------- MODULE CopyEngine -----------------------------
(***************************************************************************)
(* What the copy engine promises the code above it, without channel, ring  *)
(* or semaphore: one job at a time; a job that completed has landed; one   *)
(* that was given up may land at any later time, but then the engine is    *)
(* lost, and the host touches neither it nor its memory again.             *)
(*                                                                         *)
(* GpuChannel implements it, and GpuService uses its copies in this way.   *)
(***************************************************************************)
EXTENDS Integers

CONSTANTS Cells, Data

VARIABLES ok, mem, job

vars == <<ok, mem, job>>

NoJob == [st |-> "none", src |-> 0, dst |-> 0, n |-> 0]

Init == ok = TRUE /\ mem \in [Cells -> Data] /\ job = NoJob

HostWrite ==
    /\ ok /\ job = NoJob
    /\ mem' \in [Cells -> Data]
    /\ UNCHANGED <<ok, job>>

Submit(s, d, n) ==
    /\ ok /\ job = NoJob
    /\ job' = [st |-> "pending", src |-> s, dst |-> d, n |-> n]
    /\ UNCHANGED <<ok, mem>>

Land ==
    /\ job.st = "pending"
    /\ mem' = [c \in Cells |-> IF c \in job.dst .. job.dst + job.n - 1
                                 THEN mem[job.src + (c - job.dst)] ELSE mem[c]]
    /\ job' = IF ok THEN [job EXCEPT !.st = "done"] ELSE NoJob
    /\ UNCHANGED ok

Complete ==
    /\ ok /\ job.st = "done"
    /\ job' = NoJob
    /\ UNCHANGED <<ok, mem>>

Lose ==
    /\ ok /\ ok' = FALSE
    /\ job' = IF job.st = "pending" THEN job ELSE NoJob
    /\ UNCHANGED mem

Next ==
    \/ HostWrite
    \/ \E s, d, n \in Cells \cup {1} : Submit(s, d, n)
    \/ Land \/ Complete \/ Lose

Spec == Init /\ [][Next]_vars
=============================================================================
