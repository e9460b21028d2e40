----------------------------- MODULE MCDisplay -----------------------------
(* Three outputs for two output resources; a usual timing, one with every  *)
(* field near its largest and a width that is no multiple of 16, and a     *)
(* descriptor without a timing.  Beside it the transport of the requests:  *)
(* a ring of four slots, two functions, messages of one and two slots.     *)
EXTENDS Display, GspRpc

MCTimings ==
    {NoTiming,
     [pclk |-> 14850, hact |-> 1920, hblank |-> 280, vact |-> 1080, vblank |-> 45,
      hoff |-> 88, hsync |-> 44, voff |-> 4, vsync |-> 5, hpos |-> TRUE, vpos |-> TRUE],
     [pclk |-> 65535, hact |-> 4095, hblank |-> 4095, vact |-> 4095, vblank |-> 1024,
      hoff |-> 1023, hsync |-> 1023, voff |-> 63, vsync |-> 63, hpos |-> FALSE, vpos |-> TRUE]}
MCSurfaces == {[at |-> 4096, target |-> "sysmem"]}

\* Of the transport Display knows that an answer comes or does not, and GspRpc
\* nothing of what is asked; each is at rest while the other moves.
TransportRests == Init /\ msgq_writeptr = 0
DisplayRests   == DisplayInit /\ fbp = "none" /\ plugged = {} /\ efi = NoSor

MCInit == DisplayInit /\ Init
MCNext == \/ TransportRests /\ DisplayNext /\ UNCHANGED vars
          \/ DisplayRests /\ Next /\ UNCHANGED dvars
MCSpec == MCInit /\ [][MCNext]_<<dvars, vars>>
=============================================================================
