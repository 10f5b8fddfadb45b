------------------------------- MODULE MCAurix -------------------------------
(* Maps and layouts for aurix_get_memmap(): the memory in which kernel,    *)
(* parameters and map lie, whole or in pieces, and a few entries above it; *)
(* and layouts in which the regions lie anywhere.                          *)
EXTENDS AurixCarve

E(b, s, t) == [base |-> b, size |-> s, type |-> t]
G(b, s) == [base |-> b, size |-> s]
MCTypes == {"Usable", "Reserved", "Firmware", "ACPINVS"}

(* The usable entry of the regions, and how firmware may report it.        *)
Ram == E(4, 9, "Usable")
Pieces == {<<E(4, 3, "Usable"), E(7, 6, "Usable")>>,
           <<E(4, 2, "Usable"), E(6, 3, "Usable"), E(9, 4, "Usable")>>}
Low == E(1, 2, "ACPINVS")
High == E(16, 3, "Usable")

Hosts == {<<Ram>>, <<E(0, 4, "Reserved"), Ram>>, <<Low, Ram, High>>,
          <<Ram, E(13, 2, "Reserved"), High>>} \union {<<Low>> \o p \o <<High>> : p \in Pieces}

Places == {G(b, s) : b \in 5 .. 11, s \in 1 .. 2}

(* Regions of one or two frames, one behind the other, and strictly inside *)
(* the usable entry.                                                       *)
Ascending(k, p, m) ==
  /\ k.base + k.size <= p.base /\ p.base + p.size <= m.base
  /\ m.base + m.size < Ram.base + Ram.size
Triples == {t \in Places \X Places \X Places : Ascending(t[1], t[2], t[3])}

Layout(h, t, c, f) ==
  [host |-> h, kernel |-> t[1], params |-> t[2], mmap |-> t[3], cmdline |-> c, fb |-> f]

Benign == {Layout(h, t, c, G(0, 0)) : h \in Hosts, t \in Triples, c \in {G(0, 1), G(12, 1)}}

(* A framebuffer in the gap behind the entry that holds the regions.       *)
Gap == {Layout(h, t, G(0, 1), G(14, 2)) :
          h \in {x \in Hosts : x[1] = Low}, t \in Triples}

(* Up to three more entries above the memory: in ascending order, and in   *)
(* any order, for the UEFI specification asks for none.                    *)
Bases == 15 .. 21
MapsOf(n) == [1 .. n -> [base : Bases, size : 1 .. 2, type : MCTypes \ {"ACPINVS"}]]
InRange(m) == \A k \in 1 .. Len(m) : m[k].base + m[k].size <= 22
AscendingMaps == {m \in UNION {MapsOf(n) : n \in 1 .. 3} : InRange(m) /\ Sorted(m)}
UnorderedMaps == {m \in MapsOf(2) : InRange(m) /\ ~Sorted(m)}

(* Neighbours that are too large together for the size field.              *)
Large == {<<E(15, 12, "Reserved"), E(27, s, "Reserved")>> : s \in 3 .. 5}

Extended == {<<Ram>> \o m : m \in AscendingMaps \union UnorderedMaps \union Large}
Above == {Layout(h, <<G(5, 2), G(8, 1), G(9, 2)>>, G(0, 1), G(0, 0)) : h \in Extended}

(* Regions in any order, in one entry or several, at an entry's edge or    *)
(* across it, and a framebuffer anywhere.                                  *)
Scattered ==
  {Layout(h, <<G(k, 1), G(p, 2), G(m, 1)>>, c, f) :
     h \in {<<Ram>>, <<E(4, 4, "Usable"), E(9, 4, "Usable")>>, <<Low, Ram, High>>,
            <<Ram, E(13, 2, "Reserved"), High>>},
     k \in {5, 9, 12}, p \in {5, 7, 10}, m \in {6, 9, 17},
     c \in {G(0, 1), G(7, 1), G(135, 1)}, f \in {G(0, 0), G(13, 1), G(20, 2)}}
MCLayouts == Benign \union Gap \union Above \union Scattered
MCInputs == {l.host : l \in MCLayouts}

(* Kernel in the first usable entry, parameters and map in the second.     *)
MCTwoEntries ==
  {Layout(<<Ram, E(14, 6, "Usable")>>, <<G(6, 2), G(15, 1), G(17, 1)>>, G(0, 1), G(0, 0))}
MCTwoInputs == {l.host : l \in MCTwoEntries}

MCGarbage == {E(0, 0, "RESERVED"), E(40, 3, "USABLE")}
MCFrames == 0 .. 31
=============================================================================
