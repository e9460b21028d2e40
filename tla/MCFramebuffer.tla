--------------------------- MODULE MCFramebuffer ---------------------------
(* The kext and its journal.  The console at the start of BAR1, further up, *)
(* or unknown; a journal of a few bytes.                                   *)
EXTENDS Framebuffer, Klog

MCConsole  == {-1, 0, 1}
MCSysmemAt == {2}
MCSurfaces == {[at |-> a, target |-> "vram"] : a \in {0, 1}} \cup {[at |-> 2, target |-> "sysmem"]}
MCFixed    == [at |-> 1, target |-> "vram"]
MCPrograms == {<<"reg", "core_reset", "load", "core_start", "core_wait_halt", "core_resume">>,
               <<"poll">>, <<"unknown">>}
MCNone     == [at |-> 0, target |-> "none"]

\* Nothing the kext does depends on its journal, so that they need not move at
\* the same time: one of them stays where a run of it begins.
JournalRests == KlogInit /\ gLen = 1
KextRests    == Init /\ fStage = 0 /\ ~ext /\ falcon["gsp"].core = "falcon"

MCInit == Init /\ KlogInit
MCNext == \/ JournalRests /\ Next /\ UNCHANGED jvars
          \/ KextRests /\ KlogNext /\ UNCHANGED vars
MCSpec == MCInit /\ [][MCNext]_<<vars, jvars>>
=============================================================================
