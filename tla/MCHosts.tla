------------------------------- MODULE MCHosts -------------------------------
(* ROMs with and without an EFI image, an extension header, NVIDIA's own    *)
(* signature and microcode in a second FWSEC image; damaged ROMs, some with *)
(* pointers that lead elsewhere; Booter containers with one and with three  *)
(* signatures.                                                             *)
EXTENDS Hosts

Put(c, changes) == [p \in DOMAIN c \cup DOMAIN changes |-> IF p \in DOMAIN changes THEN changes[p] ELSE c[p]]

NoNpde == [size |-> 0, last |-> FALSE]
Header(type, sig, size, last) ==
    [kind |-> "header", type |-> type, sig |-> sig, size |-> size, last |-> last, npde |-> NoNpde]

\* PC-AT image (4 cells), EFI (2), FWSEC with the table (3), FWSEC with the
\* descriptor at its second cell, its signatures and the microcode.
Built(efi, npde, sig, versions) ==
    LET f    == IF efi THEN 6 ELSE 4
        d    == f + 4
        n    == Cardinality(versions)
        u    == d + 1 + n
        pci  == Header("pciat", "pci", 4, FALSE)
        head == IF npde THEN [pci EXCEPT !.size = 1, !.last = TRUE, !.npde = [size |-> 4, last |-> FALSE]]
                ELSE pci
        free == [p \in 0 .. u + 5 |-> Zero]
        nth(i) == CHOOSE v \in versions : Cardinality({w \in versions : w < v}) = i
        parts == [p \in {0, 1, 2} |->
                    CASE p = 0 -> head
                      [] p = 1 -> [kind |-> "bit", entries |-> <<[id |-> "other", at |-> 3],
                                                                [id |-> "falcon_data", at |-> 2]>>]
                      [] p = 2 -> [kind |-> "word", value |-> 5]]
        second == [p \in {f, f + 1, f + 3, d} |->
                    CASE p = f     -> Header("fwsec", sig, 3, FALSE)
                      [] p = f + 1 -> [kind |-> "table", entries |-> <<[id |-> "other", at |-> 4],
                                                                     [id |-> "fwsec_prod", at |-> 8]>>]
                      [] p = f + 3 -> Header("fwsec", sig, 9, TRUE)
                      [] p = d     -> [kind |-> "desc", version |-> 3, hdr |-> 1 + n, imem |-> 2, dmem |-> 4,
                                       interface |-> 0, mapper |-> 1, command |-> 2, pkc |-> 3,
                                       engine |-> "gsp", id |-> 2, count |-> n, versions |-> versions]]
        sigs == [p \in d + 1 .. d + n |-> [kind |-> "sig", version |-> nth(p - d - 1)]]
        ucode == [p \in u .. u + 5 |->
                    CASE p = u + 2 -> [kind |-> "appif", version |-> 1,
                                       entries |-> <<[id |-> "dmemmapper", at |-> 1]>>]
                      [] p = u + 3 -> [kind |-> "mapper", cmd_in |-> 2, init |-> "none"]
                      [] OTHER     -> [kind |-> "code", of |-> p - u]]
        c0 == Put(Put(Put(Put(free, parts), second), sigs), ucode)
    IN  [cells |-> IF efi THEN Put(c0, [p \in {4} |-> Header("efi", "pci", 2, FALSE)]) ELSE c0,
         place |-> d, well |-> TRUE]

Good == {Built(efi, npde, sig, vs) : efi \in BOOLEAN, npde \in BOOLEAN, sig \in {"pci", "nv"},
                                     vs \in {{0, 2, 3}}}
        \cup {Built(TRUE, TRUE, "nv", {}), Built(FALSE, FALSE, "pci", {1})}

\* Damage to one ROM: a cell lost, a descriptor of the old version, a mapper
\* behind the microcode, the end missing.
Sample  == Built(TRUE, TRUE, "nv", {0, 2, 3})
Top     == Cardinality(DOMAIN Sample.cells) - 1
Damaged(c) == [Sample EXCEPT !.cells = c, !.well = FALSE]
Bad ==
    {Damaged([Sample.cells EXCEPT ![p] = Zero]) : p \in {0, 1, 2, 6, 7, 10, 16, 17}}
    \cup {Damaged([Sample.cells EXCEPT ![10].version = 2])}
    \cup {Damaged([Sample.cells EXCEPT ![16].entries = <<[id |-> "dmemmapper", at |-> 5]>>])}
    \cup {Damaged([p \in 0 .. n |-> Sample.cells[p]]) : n \in {Top - 1, 12, 8}}

\* Pointers that lead elsewhere: the token, the pointer to the table, the entry
\* of FWSEC (pointers of 4 and more are counted from cell 6).
Astray(c) ==
    {[c EXCEPT ![1].entries[2].at = t] : t \in {1, 3, 4}}
    \cup {[c EXCEPT ![2].value = v] : v \in {3, 4, 6, 40}}
    \cup {[c EXCEPT ![7].entries[2].at = u] : u \in {3, 4, 10, 40}}

\* An entry that leads into the microcode, taken for a descriptor there: of no
\* signature, or of signatures of which the last lies behind a ROM cut short.
Taken15(n) == [Sample.cells EXCEPT
    ![7].entries[2].at = 13,
    ![15] = [Sample.cells[10] EXCEPT !.hdr = 1, !.imem = 0, !.dmem = 3, !.pkc = 0,
                                     !.count = n, !.versions = 0 .. n - 1]]
Redirected ==
    Astray(Sample.cells) \cup Astray(Built(TRUE, TRUE, "pci", {0, 2, 3}).cells)
    \cup {Taken15(n) : n \in {0, 4}}
    \cup {[p \in 0 .. top |-> Taken15(4)[p]] : top \in {17, 18}}
MCRoms == Good \cup Bad \cup {Damaged(c) : c \in Redirected}

\* data: two of code, two of data with the room for the signature; versions fall.
Container(n) ==
    [magic |-> TRUE, len |-> 5 + n, data |-> 1, size |-> 4, sig |-> 5, sig_size |-> n, num_sig |-> n,
     patch_loc |-> 3, meta |-> TRUE, apps |-> 1, fuse_ver |-> 3, engine |-> "sec2", id |-> 1,
     os_code |-> [at |-> 0, size |-> 2], os_data |-> [at |-> 2, size |-> 2], well |-> TRUE,
     cells |-> [p \in 0 .. 4 + n |-> IF p < 5 THEN [kind |-> "code", of |-> p]
                                     ELSE [kind |-> "sig", version |-> 8 - p]]]
MCContainers ==
    {Container(1), Container(3), [Container(3) EXCEPT !.num_sig = 4],
     [Container(3) EXCEPT !.patch_loc = 4], [Container(3) EXCEPT !.patch_loc = 1]}

MCFuses == {[x \in {"gsp", "sec2"} \X {1, 2} |-> IF x \in {<<"gsp", 2>>, <<"sec2", 1>>} THEN b ELSE {3}] :
              b \in {{}, {0}, {0, 1}, {1}, {0, 1, 2}}}
MCPrograms == {}
=============================================================================
