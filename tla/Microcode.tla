------------------------------ MODULE Microcode ------------------------------
(***************************************************************************)
(* The readers of firmware images: the search for FWSEC in the VBIOS       *)
(* (driver/gsp/fwsec_locate.c), its patches (fwsec_patch.c), the choice    *)
(* of a signature by the fuses (falcon.c) and the container of the Booter  *)
(* (booter.c).                                                             *)
(*                                                                         *)
(* An image is a function from addresses to cells; a cell stands for one   *)
(* structure (a header, a table, a signature) or for a piece of code or    *)
(* data.  A reader returns the set of its results, which is empty when it  *)
(* refuses the image, so that the steps of a search compose.               *)
(***************************************************************************)
EXTENDS Integers, SequencesExt

\* Bytes that mean nothing to any reader; memory the driver has cleared.
Zero == [kind |-> "zero"]

\* The first entry of a table under a name, as what it points to.
Lookup(entries, id) ==
    {entries[i].at : i \in {SelectInSeq(entries, LAMBDA e : e.id = id)} \ {0}}

At(c, p, kind) == p \in DOMAIN c /\ c[p].kind = kind

-----------------------------------------------------------------------------
(* FWSEC in the VBIOS.                                                     *)

\* Mutant: the extension is not looked at.
image_size_and_last_Pcir(h) == [size |-> h.size, last |-> h.type = "nbsi" \/ h.last]

\* An NVIDIA extension with a size of its own decides about size and end; an
\* NBSI image always ends the ROM.
image_size_and_last(h) ==
    LET own == h.npde.size # 0 IN
    [size |-> IF own THEN h.npde.size ELSE h.size,
     last |-> h.type = "nbsi" \/ (IF own THEN h.npde.last ELSE h.last)]

MaxImages == 32

\* Image behind image, until one is no image, has no size or calls itself last.
ImageChain(c, signatures) ==
    LET Walk[p \in DOMAIN c] ==
            IF c[p].kind # "header" \/ c[p].sig \notin signatures THEN <<>>
            ELSE LET m    == image_size_and_last(c[p])
                     next == p + m.size
                     this == <<[off |-> p, size |-> m.size, type |-> c[p].type]>>
                 IN  IF m.size = 0 \/ m.last \/ next \notin DOMAIN c THEN this
                     ELSE this \o Walk[next]
        found == Walk[0]
    IN  SubSeq(found, 1, IF Len(found) > MaxImages THEN MaxImages ELSE Len(found))

\* NVIDIA's own images carry another signature than those of the PCI standard.
walk_images(c) == ImageChain(c, {"pci", "nv"})

FirstImage(images, type) ==
    {images[i] : i \in {SelectInSeq(images, LAMBDA m : m.type = type)} \ {0}}

\* The first "BIT" of an image.
find_bit(c, image) ==
    LET at == {p \in image.off .. image.off + image.size - 1 : At(c, p, "bit")}
    IN  {p \in at : \A q \in at : p <= q}

\* Pointers count as if FWSEC followed the PC-AT image at once.
Behind(c, pci_at, fwsec, pointer) ==
    {p \in DOMAIN c : pointer >= pci_at.size /\ p = fwsec.off + pointer - pci_at.size}

\* BIT token, pointer to the table of falcon images, the entry of FWSEC.
Descriptor(c, pci_at, fwsec) ==
    LET tokens == UNION {Lookup(c[b].entries, "falcon_data") : b \in find_bit(c, pci_at)}
        words  == {pci_at.off + t : t \in {t \in tokens : t < pci_at.size}}
        tables == UNION {Behind(c, pci_at, fwsec, c[w].value) : w \in {w \in words : At(c, w, "word")}}
        ucodes == UNION {Lookup(c[t].entries, "fwsec_prod") : t \in {t \in tables : At(c, t, "table")}}
    IN  UNION {Behind(c, pci_at, fwsec, u) : u \in ucodes}

FwsecIn(c, images) ==
    UNION {Descriptor(c, p[1], p[2]) :
             p \in {a \in FirstImage(images, "pciat") : a.off + a.size - 1 \in DOMAIN c}
                   \X FirstImage(images, "fwsec")}

nv_fwsec_locate(c) == FwsecIn(c, walk_images(c))

\* Version 2 has no signatures, and every caller refuses it.
nv_fwsec_desc_parse(c, p) == {c[q] : q \in {q \in {p} : At(c, q, "desc") /\ c[q].version \in {2, 3}}}

\* tools/vbios_dump.c walks a ROM by itself and knows one signature only; the
\* rest of its search is the driver's.
DumpImages(c)    == ImageChain(c, {"pci"})
analyze_fwsec(c) == {p \in FwsecIn(c, DumpImages(c)) : nv_fwsec_desc_parse(c, p) # {}}

-----------------------------------------------------------------------------
(* The patches; u is the copy of the microcode in the DMA buffer.          *)

\* Code, then data; the command is what the data's mapper points to.
nv_fwsec_patch_frts(u, d) ==
    LET hdr     == d.imem + d.interface
        mappers == {d.imem + b : b \in
                      IF At(u, hdr, "appif") /\ u[hdr].version = 1
                      THEN Lookup(u[hdr].entries, "dmemmapper") ELSE {}}
        CmdIn(m) == IF u[m].kind = "mapper" THEN u[m].cmd_in ELSE 0
    IN  {[u EXCEPT ![m] = [kind |-> "mapper", cmd_in |-> CmdIn(m), init |-> "frts"],
                   ![d.imem + CmdIn(m)] = [kind |-> "cmd", region |-> "frts"]] :
            m \in {m \in mappers \cap DOMAIN u : d.imem + CmdIn(m) \in DOMAIN u}}

\* nv_falcon_signature_fuse_version_ga102: the highest bit burned, from 1, in
\* the register of the engine and the microcode.
FuseVersion(fuses, engine, id) ==
    LET bits == fuses[<<engine, id>>] IN
    {v \in 0 .. 16 : /\ <<engine, id>> \in DOMAIN fuses
                     /\ IF v = 0 THEN bits = {} ELSE v - 1 \in bits /\ \A b \in bits : b < v}

\* Mutant: the fuse's own bit is counted too.
select_signature_index_Past(d, v) ==
    {Cardinality({b \in d.versions : b <= w}) : w \in {w \in {v} : d.count # 0 /\ w \in d.versions}}

\* The descriptor has one signature for every bit of its versions, in order.
nv_fwsec_select_signature_index(d, v) ==
    {Cardinality({b \in d.versions : b < w}) : w \in {w \in {v} : d.count # 0 /\ w \in d.versions}}

nv_fwsec_patch_signature(u, d, sig) ==
    {[u EXCEPT ![p] = sig] : p \in {d.imem + d.pkc} \cap DOMAIN u}

-----------------------------------------------------------------------------
(* The Booter.                                                             *)

MaxApps == 8

\* b: the container with its headers read; a field at a bad place is refused
\* with the container.
nv_booter_parse(b) ==
    {[data |-> b.data, size |-> b.size, sig |-> b.sig, num_sig |-> b.num_sig,
      patch_loc |-> b.patch_loc, fuse_ver |-> b.fuse_ver, engine |-> b.engine, id |-> b.id,
      pkc |-> b.patch_loc - b.os_data.at] :
        x \in {y \in {b} : /\ b.magic /\ b.data + b.size <= b.len
                           /\ b.sig + b.sig_size <= b.len /\ b.num_sig = b.sig_size
                           /\ b.meta /\ b.apps <= MaxApps
                           /\ b.os_code.at + b.os_code.size <= b.size
                           /\ b.os_data.at + b.os_data.size <= b.size
                           /\ b.os_data.at <= b.patch_loc}}

\* Signatures are for falling versions; an unburned fuse takes the last.
nv_booter_select_signature(d, v) ==
    {i \in 0 .. d.num_sig - 1 : i = IF v = 0 THEN d.num_sig - 1 ELSE d.fuse_ver - v}
=============================================================================
