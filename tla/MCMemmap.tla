------------------------------- MODULE MCMemmap -------------------------------
(* Firmware for the run of MemmapTranslate: how it may behave, and what    *)
(* its map may say.                                                        *)
EXTENDS MemmapTranslate

(* Two descriptors for a reallocation and the events around it.            *)
WithinSpare == {[alloc |-> 3, realloc |-> 2, event |-> 0],
                [alloc |-> 3, realloc |-> 1, event |-> 1],
                [alloc |-> 1, realloc |-> 0, event |-> 2]}

Types == <<"Reserved", "LoaderCode", "LoaderData", "BootServicesCode",
           "BootServicesData", "RuntimeServicesCode", "RuntimeServicesData",
           "Conventional", "Unusable", "ACPIReclaim", "ACPINVS", "MMIO", "MMIOPort",
           "PalCode", "Persistent", "Unaccepted">>

MCFrames == 0 .. 2 * (MaxDesc + 2) - 1
D(k, pages, t) == [start |-> 2 * (k - 1), pages |-> pages, type |-> t]

(* Every pair of types, in two sizes; and every type in a map of any       *)
(* length.                                                                 *)
Pairs == {<<D(1, p, Types[s]), D(2, 3 - p, Types[t])>> :
            p \in 1 .. 2, s \in DOMAIN Types, t \in DOMAIN Types}
Cycles(n) == {[k \in 1 .. n |-> D(k, 1 + (k % 2), Types[1 + ((k + s) % 16)])] : s \in {0, 5, 10}}


(* The same, with one descriptor empty.                                    *)
Emptied(m) == {[m EXCEPT ![e].pages = 0] : e \in DOMAIN m}

MCContents == [n \in 1 .. MaxDesc + 2 |->
  (IF n = 2 THEN Pairs ELSE Cycles(n)) \union
  (IF n \in 2 .. 4 THEN UNION {Emptied(m) : m \in Cycles(n)} ELSE {})]

(* Zeroes, one descriptor over and over, and an empty one between two that *)
(* overlap.                                                                *)
MCJunk == [n \in 1 .. MaxDesc + 2 |->
  {[k \in 1 .. n |-> D(1, p, "Reserved")] : p \in 0 .. 1}
    \union {[k \in 1 .. n |-> D(1, (k + 1) % 3, Types[1 + (k % 16)])]}]
=============================================================================
