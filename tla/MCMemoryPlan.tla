---------------------------- MODULE MCMemoryPlan ----------------------------
(* Four levels of tables over sixteen pages of addresses and every range in *)
(* them; thirty-two pages of VRAM in one to three regions.                  *)
EXTENDS MemoryPlan, Staging

MCEntries == [l \in 0 .. 3 |-> 2]
MCSpan    == [l \in 0 .. 3 |-> 2 ^ (4 - l)]

Region(b, l) == [base |-> b, limit |-> l, reserved |-> FALSE, prot |-> FALSE]
Prot(b, l)   == [base |-> b, limit |-> l, reserved |-> FALSE, prot |-> TRUE]
Res(b, l)    == [base |-> b, limit |-> l, reserved |-> TRUE, prot |-> FALSE]

\* One region, a hole, an exact fit, regions too small or of the wrong kind, odd bounds, and
\* reports that contradict themselves.
MCRegionLists ==
    {<<>>, <<Region(0, 31)>>, <<Region(1, 14), Region(17, 31)>>, <<Region(18, 31), Region(0, 17)>>,
     <<Prot(0, 15), Region(16, 31)>>, <<Res(0, 31)>>, <<Region(3, 20), Res(21, 31)>>, <<Region(4, 13)>>,
     <<Region(4, 9), Region(10, 15), Region(16, 31)>>,
     <<Region(0, 32)>>, <<Region(9, 8)>>, <<Region(0, 20), Prot(24, 31), Region(20, 23)>>,
     <<Region(0, 9), Region(10, 19), Region(20, 25), Region(26, 31)>>}

MCExtras == {[base |-> b, size |-> n] : b \in {0, 8}, n \in {0, 3}}
            \cup {[base |-> 14, size |-> 1], [base |-> 20, size |-> 42], [base |-> 20, size |-> 44]}

\* Sizes at the edges of a page, of a list and of what three levels can hold, for arenas with
\* and without room.
MCImages  == {1, 3, 4, 5, 8, 15, 16, 17, 31, 32, 33, 63, 64, 65}
MCFbSizes == (0 .. 3) \cup (120 .. 175) \cup {1024, 1025, 12282, 24576}

\* Bring-up prepares the firmware before it has anybody to ask for memory.  What it prepared has
\* no part in that choice.
MCInit == Init /\ StagingInit
MCNext == \/ spc = "idle" /\ Next /\ UNCHANGED svars
          \/ mpc = "idle" /\ pc = "idle" /\ range = NoRange /\ StagingNext /\ UNCHANGED vars
MCSpec == MCInit /\ [][MCNext]_<<vars, svars>>
=============================================================================
