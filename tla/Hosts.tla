-------------------------------- MODULE Hosts --------------------------------
(***************************************************************************)
(* The programs that run microcode on their own, next to the whole         *)
(* bring-up: the FWSEC and Booter tools for Linux (tools/                  *)
(* fwsec_run_linux.c, booter_run_linux.c), the probe kext and dext         *)
(* (driver/RTXProbe, driver/RTXProbeDext) and, for comparison,             *)
(* do_fwsec_frts of the bring-up itself; and tools/vbios_dump.c, which     *)
(* only reads.                                                             *)
(*                                                                         *)
(* Each takes hold of the device and of memory, reads an image, patches    *)
(* the microcode of it in a DMA buffer, drives an engine (module Falcon)   *)
(* and lets everything go.  What the platform answers is a choice.         *)
(***************************************************************************)
EXTENDS Falcon, Microcode

CONSTANTS
    Roms,        \* VBIOS images: [cells, place (of the descriptor), well]
    Containers,  \* Booter containers
    Fuses,       \* what may be burned: a set of bits for each engine and microcode
    Cap          \* cells of a tool's DMA buffer

\* Microcode whose own tables lead to the places its descriptor at p knows of,
\* with a signature for every version the descriptor names.
WellBuilt(c, p) ==
    LET d == c[p] data == p + d.hdr + d.imem IN
    /\ {d.hdr, d.imem, d.dmem} \subseteq Nat
    /\ {d.interface, d.mapper, d.command, d.pkc} \subseteq 0 .. d.dmem - 1
    /\ d.mapper # d.command /\ d.pkc \notin {d.mapper, d.command}
    /\ p .. data + d.dmem - 1 \subseteq DOMAIN c
    /\ At(c, data + d.interface, "appif") /\ c[data + d.interface].version = 1
    /\ Lookup(c[data + d.interface].entries, "dmemmapper") = {d.mapper}
    /\ At(c, data + d.mapper, "mapper") /\ c[data + d.mapper].cmd_in = d.command
    /\ \A v \in d.versions :
          LET s == p + 1 + Cardinality({b \in d.versions : b < v}) IN
          s \in DOMAIN c /\ c[s].version = v

\* What the build of a ROM promises; a damaged one may hold anything.
ASSUME RomAssumption ==
    \A r \in Roms : r.well =>
        /\ DOMAIN r.cells \subseteq Nat
        /\ \A p \in DOMAIN r.cells : r.cells[p].kind = "desc" => WellBuilt(r.cells, p)

\* A container's sizes are unsigned; its signatures are for falling versions.
ASSUME ContainerAssumption ==
    \A b \in Containers :
        /\ {b.len, b.data, b.size, b.sig, b.num_sig, b.patch_loc, b.fuse_ver} \subseteq Nat
        /\ DOMAIN b.cells = 0 .. b.len - 1
        /\ \A i \in 0 .. b.num_sig - 1 :
              b.sig + i < b.len => b.cells[b.sig + i].version = b.fuse_ver - i

ASSUME FuseAssumption == \A f \in Fuses : \A x \in DOMAIN f : f[x] \subseteq Nat
ASSUME CapAssumption  == Cap \in Nat

VARIABLES
    host,    \* the program
    image,   \* what it reads: the ROM or the container
    fuses,   \* what is burned
    hpc,     \* where it is
    owned,   \* what it has taken and not given back
    found,   \* the descriptor's place: a set of at most one
    buf,     \* the DMA buffer
    outside, \* a copy has read past the end of its source
    result   \* what it reports

hvars == <<host, image, fuses, hpc, owned, found, buf, outside, result>>

Tools == {"fwsec_tool", "booter_tool"}
Hosts == Tools \cup {"kext", "dext", "bringup", "dump"}

FirstStep == [fwsec_tool |-> "take", booter_tool |-> "take", kext |-> "open",
              dext |-> "open", bringup |-> "locate", dump |-> "enable"]

HostsInit ==
    /\ FalconInit /\ fuses \in Fuses
    /\ \/ host \in Hosts \ {"booter_tool"} /\ image \in Roms
       \/ host = "booter_tool" /\ image \in Containers
    /\ hpc = FirstStep[host] /\ owned = {} /\ found = {} /\ buf = <<>>
    /\ outside = FALSE /\ result = "none"

\* A step that changes where the program is and what it owns.
Moves(to, owns) ==
    /\ hpc' = to /\ owned' = owns
    /\ UNCHANGED <<fvars, host, image, fuses, found, buf, outside>>

-----------------------------------------------------------------------------
(* The tools: VFIO, the buffer, its mapping in the IOMMU.                  *)

\* In the order in which main and vfio_open take them.
VfioOrder == <<"container", "group", "device", "bar0", "buffer", "iommu">>

Taken == {i \in DOMAIN VfioOrder : VfioOrder[i] \in owned}

\* One of them, or the way out.  Bus mastering is turned on when the device is
\* there; that it failed shows as a transfer that does not end.
Take ==
    /\ hpc = "take" /\ UNCHANGED result
    /\ LET i == Cardinality(Taken) + 1 IN
       \/ Moves(IF i = Len(VfioOrder) THEN "gfw" ELSE "take", owned \cup {VfioOrder[i]})
       \/ Moves("give", owned)

\* Mutant: what was taken first is given back first.
Next_InOrder == CHOOSE i \in Taken : \A j \in Taken : i <= j

\* The mapping, the buffer, then vfio_close.
NextToGive == CHOOSE i \in Taken : \A j \in Taken : j <= i

Give ==
    /\ host \in Tools /\ hpc = "give" /\ UNCHANGED result
    /\ \/ Taken # {} /\ Moves("give", owned \ {VfioOrder[NextToGive]})
       \/ Taken = {} /\ Moves("done", owned)

-----------------------------------------------------------------------------
(* The probes.                                                             *)

\* RTXProbe::start and the dext's Start open the device.
Open ==
    /\ hpc = "open" /\ UNCHANGED result
    /\ \/ Moves("bar0", {"pci"})
       \/ Moves("refused", {})

\* mapBar0AndReadBoot0: no mapping; a mapping without an answer behind it;
\* another generation of GPU; an Ada.
MapBar0 ==
    /\ host = "kext" /\ hpc = "bar0"
    /\ \/ Moves("close", owned) /\ result' = "failed"
       \/ Moves("close", owned \cup {"bar0"}) /\ result' \in {"failed", "none"}
       \/ Moves("gfw", owned \cup {"bar0"}) /\ UNCHANGED result

\* The device is closed again whatever came of it; with no answer from the card
\* start fails, and stop will not be called.
Close ==
    /\ host = "kext" /\ hpc = "close" /\ UNCHANGED result
    /\ Moves(IF result = "failed" THEN "refused" ELSE "registered", owned \ {"pci"})

\* The dext reads through the device and keeps it open.
DextRead ==
    /\ host = "dext" /\ hpc = "bar0" /\ UNCHANGED result
    /\ \/ Moves("refused", owned \ {"pci"})
       \/ Moves("registered", owned)

Stop ==
    /\ hpc = "registered" /\ UNCHANGED result
    /\ Moves("done", owned \ {IF host = "kext" THEN "bar0" ELSE "pci"})

\* fwsec_patch_and_run has returned: buffer and ROM copy go, the device next.
KextRelease ==
    /\ host = "kext" /\ hpc = "give" /\ UNCHANGED result
    /\ Moves("close", owned \ {"prepared", "buffer", "file"})

-----------------------------------------------------------------------------
(* Reading and patching.                                                   *)

\* The GPU's own boot, the place of the protected region, SEC2's answer.
WaitGfw ==
    /\ hpc = "gfw" /\ UNCHANGED result
    /\ \/ Moves("file", owned) \/ Moves("give", owned)

\* The copy of the ROM, or the Booter's file.
GetFile ==
    /\ hpc = "file" /\ UNCHANGED result
    /\ \/ Moves(IF host = "booter_tool" THEN "booter" ELSE "locate", owned \cup {"file"})
       \/ Moves("give", owned)

\* A refusal gives the file back first.
Refuse == Moves("give", owned \ {"file"}) /\ UNCHANGED result

\* Cells of an image from a place on; what lies past its end is taken as zero.
Cells(c, at, n, cap) ==
    [i \in 0 .. cap - 1 |-> IF i < n /\ at + i \in DOMAIN c THEN c[at + i] ELSE Zero]

Desc(p)      == image.cells[p]
UcodeSize(p) == Desc(p).imem + Desc(p).dmem
UcodeAt(p)   == p + Desc(p).hdr
InRom(at, n) == at + n - 1 \in DOMAIN image.cells

\* The bring-up does not compare it; the kext makes a buffer that fits.
UcodeFits(p) ==
    /\ host = "bringup" \/ (UcodeSize(p) # 0 /\ InRom(UcodeAt(p), UcodeSize(p)))
    /\ host = "kext" \/ UcodeSize(p) <= Cap

\* Only descriptors of version 3 are used.
Usable(p) == \E d \in nv_fwsec_desc_parse(image.cells, p) : d.version = 3 /\ UcodeFits(p)

Locate ==
    /\ hpc = "locate"
    /\ LET at == {p \in nv_fwsec_locate(image.cells) : Usable(p)} IN
       \/ /\ \E p \in at : found' = {p}
          /\ hpc' = IF host = "kext" THEN "buffer" ELSE "patch"
          /\ UNCHANGED <<fvars, host, image, fuses, owned, buf, outside, result>>
       \/ at = {} /\ Refuse

\* The kext's buffer, made for the microcode at hand, and its preparation.
KextBuffer ==
    /\ hpc \in {"buffer", "prepare"} /\ UNCHANGED result
    /\ \/ hpc = "buffer" /\ Moves("prepare", owned \cup {"buffer"})
       \/ hpc = "prepare" /\ Moves("patch", owned \cup {"prepared"})
       \/ Moves("give", owned)

\* The signature that the fuses ask for; the bring-up does not ask whether it
\* lies in the ROM.
Signatures(d, p) ==
    {p + 1 + i : i \in UNION {nv_fwsec_select_signature_index(d, v) :
                                v \in FuseVersion(fuses, d.engine, d.id)}}

Copied(p) == {s \in Signatures(Desc(p), p) : host = "bringup" \/ InRom(s, 1)}

\* The copy of the microcode with the command in it, unless that is refused.
Commanded(p) ==
    nv_fwsec_patch_frts(Cells(image.cells, UcodeAt(p), UcodeSize(p),
                              IF host = "kext" THEN UcodeSize(p) ELSE Cap), Desc(p))

\* And with a signature, when the descriptor has any: the buffers that may come
\* of it, none when a step refuses.
Patched(p) ==
    IF Desc(p).count = 0 THEN Commanded(p)
    ELSE UNION {nv_fwsec_patch_signature(u, Desc(p), Cells(image.cells, s, 1, 1)[0]) :
                  u \in Commanded(p), s \in Copied(p)}

\* The tool frees its ROM copy before it goes on, the kext at the end.
Patch ==
    /\ hpc = "patch"
    /\ \E p \in found :
        /\ outside' = \/ ~InRom(UcodeAt(p), UcodeSize(p))
                      \/ Commanded(p) # {} /\ \E s \in Copied(p) : ~InRom(s, 1)
        /\ \/ /\ buf' \in Patched(p) /\ Drive("gsp", "reset") /\ hpc' = "run"
              /\ owned' = IF host = "kext" THEN owned ELSE owned \ {"file"}
              /\ UNCHANGED <<host, image, fuses, found, result>>
           \/ /\ Patched(p) = {} /\ hpc' = "give"
              /\ owned' = IF host = "kext" THEN owned ELSE owned \ {"file"}
              /\ UNCHANGED <<fvars, host, image, fuses, found, buf, result>>

\* The Booter: container, size, signature, its place in the data.
BooterPatched ==
    UNION {{[Cells(image.cells, d.data, d.size, Cap) EXCEPT ![d.patch_loc] = image.cells[d.sig + i]] :
              i \in {i \in UNION {nv_booter_select_signature(d, v) :
                                    v \in FuseVersion(fuses, d.engine, d.id)} :
                       /\ d.size <= Cap /\ d.sig + i < image.len /\ d.patch_loc < d.size}} :
            d \in nv_booter_parse(image)}

BooterPatch ==
    /\ hpc = "booter"
    /\ \/ /\ buf' \in BooterPatched /\ Drive("sec2", "reset")
          /\ hpc' = "run" /\ owned' = owned \ {"file"}
          /\ UNCHANGED <<host, image, fuses, found, outside, result>>
       \/ BooterPatched = {} /\ Refuse

-----------------------------------------------------------------------------
(* The engine, and the report.                                             *)

Run ==
    /\ hpc = "run" /\ FalconStep("zero") /\ UNCHANGED hvars

\* Mutant: a time-out is no failure, as in the bring-up.
Succeeded_Unhalted == fpc \in {"halted", "timed_out"} /\ falcon["gsp"].mbox = "zero" /\ wpr2

\* What counts as success.  The Booter has no description of the firmware here:
\* an error of its own is expected, and that it came to a halt is enough.
Succeeded ==
    CASE host = "booter_tool" -> fpc = "halted"
      [] host = "bringup"     -> fpc # "failed" /\ falcon["gsp"].mbox = "zero" /\ wpr2
      [] OTHER                -> fpc = "halted" /\ falcon["gsp"].mbox = "zero" /\ wpr2

Report ==
    /\ hpc = "run" /\ fpc \in {"failed", "halted", "timed_out"}
    /\ Release /\ hpc' = "give" /\ result' = IF Succeeded THEN "ok" ELSE "error"
    /\ UNCHANGED <<host, image, fuses, owned, found, buf, outside>>

BringupReturns == host = "bringup" /\ hpc = "give" /\ Moves("done", owned) /\ UNCHANGED result

-----------------------------------------------------------------------------
(* vbios_dump: the ROM is enabled in sysfs, read and disabled again, unless *)
(* it is read from a file.                                                 *)

DumpRead ==
    /\ hpc = "enable" /\ UNCHANGED result
    /\ \/ Moves("dump_read", {"rom"}) \/ Moves("dump_read", {})

DumpAnalyze ==
    /\ hpc = "dump_read" /\ Moves("done", owned \ {"rom"})
    /\ result' \in {"unreadable", IF analyze_fwsec(image.cells) # {} THEN "ok" ELSE "error"}

-----------------------------------------------------------------------------

HostsHardware ==
    /\ FalconHardware /\ UNCHANGED hvars
    /\ host = "booter_tool" => falcon'["gsp"] = falcon["gsp"]    \* nothing to start

HostsNext ==
    \/ Take \/ Give \/ Open \/ MapBar0 \/ Close \/ DextRead \/ Stop \/ KextRelease
    \/ WaitGfw \/ GetFile \/ Locate \/ KextBuffer \/ Patch \/ BooterPatch
    \/ Run \/ Report \/ BringupReturns \/ DumpRead \/ DumpAnalyze
    \/ HostsHardware

HostsSpec == HostsInit /\ [][HostsNext]_<<fvars, hvars>>

-----------------------------------------------------------------------------
(* Properties *)

\* The search through images, extension headers, tokens and tables ends at the
\* descriptor the ROM was built with.  In a damaged ROM a redirected pointer or
\* entry is believed: the search is refused or ends wherever it leads, but in
\* the ROM.  What the dump tool reports is what the driver finds, although they
\* walk the images differently: damaged or not, they agree on the descriptor.
FindsFwsec ==
    host # "booter_tool" =>
        LET at == nv_fwsec_locate(image.cells) IN
        /\ image.well => at = {image.place}
        /\ at \subseteq DOMAIN image.cells
        /\ host = "dump" /\ result = "ok" => at = analyze_fwsec(image.cells)

\* The microcode at p with nothing changed but what the patches are for.  (A
\* descriptor's mapper and command are places its microcode's own tables lead
\* to; the code does not read them from there.)
Intact(p) ==
    LET d == Desc(p) m == d.imem + d.mapper IN
    /\ \A i \in 0 .. UcodeSize(p) - 1 :
          buf[i] # image.cells[UcodeAt(p) + i] =>
              i \in {m, d.imem + d.command} \cup (IF d.count = 0 THEN {} ELSE {d.imem + d.pkc})
    /\ buf[m].init = "frts" /\ buf[d.imem + d.command].region = "frts"
    /\ d.count # 0 => {buf[d.imem + d.pkc].version} = FuseVersion(fuses, d.engine, d.id)

BooterIntact ==
    /\ \A i \in 0 .. image.size - 1 \ {image.patch_loc} : buf[i] = image.cells[image.data + i]
    /\ \A v \in FuseVersion(fuses, image.engine, image.id) :
          /\ v # 0 => buf[image.patch_loc].version = v
          /\ v = 0 => buf[image.patch_loc] = image.cells[image.sig + (image.num_sig - 1)]

\* What an engine executes is the microcode of the image with nothing changed
\* but the FRTS command and the signature, and the signature is the one for the
\* version that is burned (the Booter: the last one when nothing is).  No copy
\* by the tools or the kext, of microcode or signature, reads past the end of a
\* ROM that was cut short or redirected.
LoadedIsSigned ==
    /\ Executing("gsp") /\ image.well => \A p \in found : Intact(p)
    /\ Executing("sec2") => BooterIntact
    /\ host # "bringup" => ~outside

\* Everything taken is given back on every way out, the IOMMU's mapping before
\* the memory it maps and the device before its container; only a probe kext
\* that could not read the card, whose stop is never called, keeps its mapping
\* of BAR0.
GivenBack ==
    /\ host \in Tools => \A i \in Taken, j \in DOMAIN VfioOrder : j < i => VfioOrder[j] \in owned
    /\ hpc = "done" => owned = {}
    /\ hpc = "refused" => owned \subseteq {"bar0"}

\* Success is reported only of microcode that has come to its end: it does not
\* run on behind a buffer that is given back, and FWSEC has left the protected
\* region.  (The bring-up keeps its buffer and does not ask for the end.)
ReportIsTrue ==
    result = "ok" /\ host \notin {"bringup", "dump"} =>
        /\ \A f \in DOMAIN falcon : ~Reaching(f)
        /\ host = "kext" \/ host = "fwsec_tool" => wpr2 /\ falcon["gsp"].mbox = "zero"
=============================================================================
