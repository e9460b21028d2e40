----------------------------- MODULE RmObjects -----------------------------
(***************************************************************************)
(* The driver as a client of GSP-RM (driver/gsp/gsp_rm.c, gsp_fifo.c,      *)
(* gsp_gr.c): a tree of objects the firmware keeps, built by RM_ALLOC and  *)
(* addressed by RM_CONTROL.  Two things can say no: the transport (rc) and *)
(* the firmware (status); the driver goes on only when neither did.        *)
(*                                                                         *)
(* The firmware (external) makes an object under a parent it has.  A call  *)
(* whose reply is lost may or may not have been carried out.               *)
(***************************************************************************)
EXTENDS Naturals, FiniteSets

VARIABLES
    dpc,       \* where the pass is
    si,        \* GET_GSP_STATIC_INFO was answered: the internal handles are known
    objects,   \* what the firmware has
    held,      \* the handles the driver takes for good
    engine,    \* the copy engine was found in the table of engines
    orphan     \* a call has named an object the firmware does not have

rmvars == <<si, objects, held, engine, orphan>>

\* The handles each allocation names besides its own.
Names == [client    |-> {},
          device    |-> {"client"},
          subdevice |-> {"client", "device"},
          vaspace   |-> {"client", "device"},
          memory    |-> {"client", "device"},
          channel   |-> {"client", "device", "vaspace"},
          ce        |-> {"client", "channel"},
          common    |-> {"client", "device"},
          root      |-> {"client", "device"},
          core      |-> {"client", "root"},
          window    |-> {"client", "root"}]

Objects == DOMAIN Names

RmInit == si = FALSE /\ objects = {} /\ held = {} /\ engine = FALSE /\ orphan = FALSE

Answers == {"ok", "refused", "lost"}

\* Mutant: the status in the reply is not looked at.
Success_NoStatus(answer) == answer # "lost"

\* rc == NV_GSP_RM_OK && status == 0.
Success(answer) == answer = "ok"

Address(names) == orphan' = (orphan \/ ~(names \subseteq objects))

\* nv_gsp_rm_alloc and the constructors on top of it.
RmAlloc(o) ==
    /\ Address(Names[o])
    /\ \E answer \in Answers :
         /\ answer = "ok" => Names[o] \subseteq objects
         /\ held' = IF Success(answer) THEN held \cup {o} ELSE held
         /\ objects' \in CASE answer = "ok"      -> {objects \cup {o}}
                           [] answer = "refused" -> {objects}
                           [] answer = "lost"    -> {objects, objects \cup {o}}
    /\ UNCHANGED <<si, engine>>

\* nv_gsp_rm_control: whatever an object that is not there is asked, the
\* firmware refuses.
RmControl(names, answer) ==
    /\ Address(names)
    /\ answer = "ok" => names \subseteq objects
    /\ UNCHANGED <<si, objects, held, engine>>

To(from, next) == dpc = from /\ dpc' = next

-----------------------------------------------------------------------------
(* Layer 3.                                                                *)

\* nv_gsp_get_static_info, with the two questions about graphics and
\* interrupts that follow it; a count of regions out of range is an error.
StaticInfo ==
    /\ To("static", "client")
    /\ si' \in BOOLEAN
    /\ UNCHANGED <<objects, held, engine, orphan>>

\* client, device, subdevice: each only on top of the one before it.
Chain ==
    /\ dpc \in {"client", "device", "subdevice"}
    /\ RmAlloc(dpc)
    /\ dpc' = IF dpc \notin held' THEN "end"
              ELSE CASE dpc = "client"    -> "device"
                     [] dpc = "device"    -> "subdevice"
                     [] dpc = "subdevice" -> "engines"

\* The table of engines is asked for the copy engine, the memory for its
\* sizes; a failure of either is only noted.
Engines ==
    /\ To("engines", "vaspace")
    /\ \E found \in BOOLEAN :
         /\ found => {"client", "subdevice"} \subseteq objects
         /\ engine' = found
    /\ Address({"client", "subdevice"}) /\ UNCHANGED <<si, objects, held>>

Vaspace == To("vaspace", "memory") /\ RmAlloc("vaspace")

\* The range is registered if one was found.
MemoryList ==
    /\ dpc = "memory"
    /\ RmAlloc("memory") \/ UNCHANGED rmvars
    /\ dpc' = IF {"memory", "vaspace"} \subseteq held' THEN "tables" ELSE "layer5"

\* The tables are built, or not; their root is given to the firmware
\* (set_page_directory, or copy_pdes for an address space the firmware owns);
\* then an entry is read back and may differ.
PageDirectory ==
    /\ dpc = "tables"
    /\ \/ dpc' = "layer5" /\ UNCHANGED rmvars
       \/ \E answer \in Answers, same \in BOOLEAN :
            /\ RmControl({"client", "device", "vaspace"}, answer)
            /\ dpc' = IF Success(answer) /\ same /\ engine THEN "channel" ELSE "layer5"

-----------------------------------------------------------------------------
(* Layer 4.                                                                *)

ChannelAlloc ==
    /\ dpc = "channel"
    /\ RmAlloc("channel")
    /\ dpc' = IF "channel" \in held' THEN "schedule" ELSE "layer5"

\* Binding to the engine and scheduling; the first is only noted.
Schedule ==
    /\ dpc = "schedule"
    /\ \E answer \in Answers :
         /\ RmControl({"client", "channel"}, answer)
         /\ dpc' = IF Success(answer) THEN "ce" ELSE "layer5"

CeObject ==
    /\ dpc = "ce"
    /\ RmAlloc("ce")
    /\ dpc' = IF "ce" \in held' THEN "class" ELSE "layer5"

ClassEngineId ==
    /\ To("class", "layer5")
    /\ \E answer \in Answers : RmControl({"client", "channel", "ce"}, answer)

\* The handles of layers 3 and 4 go out of scope; what nobody can name any more
\* is left out of the model.
OutOfScope ==
    /\ To("layer5", "common")
    /\ held' = held \cap {"client", "device", "subdevice"} /\ objects' = objects \cap held'
    /\ engine' = FALSE /\ UNCHANGED <<si, orphan>>

RmStep ==
    \/ StaticInfo \/ Chain \/ Engines \/ Vaspace \/ MemoryList \/ PageDirectory
    \/ ChannelAlloc \/ Schedule \/ CeObject \/ ClassEngineId \/ OutOfScope
=============================================================================
