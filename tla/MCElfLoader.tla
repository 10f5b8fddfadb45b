----------------------------- MODULE MCElfLoader -----------------------------
(* Images with pages of four bytes: headers in any order of address, that  *)
(* are skipped, empty, whole pages or begin and end anywhere in a page,    *)
(* alone in their pages or not, and four segments that end inside a page.  *)
EXTENDS ElfLoader

H(type, vaddr, memsz, filesz, align, write, exec) ==
  [type |-> type, vaddr |-> vaddr, memsz |-> memsz, filesz |-> filesz,
   align |-> align, write |-> write, exec |-> exec]

MCMemory == 0 .. 79
MCVirts == 0 .. 12

Text == {H("LOAD", v, n, n, a, FALSE, TRUE) : v \in {16, 19}, n \in {0, 3, 4, 6}, a \in {0, 1, 4, 8}}
Data == {H("LOAD", v, n, m, 4, TRUE, FALSE) : v \in {4, 18, 28}, n \in {1, 4, 6, 9}, m \in {0, 1, 5}}
Note == {H("NOTE", 20, 3, 3, 4, FALSE, FALSE)}
Whole == {H("LOAD", 0, 4, 4, 4, FALSE, FALSE)}
Bss == {H("LOAD", v, n, 0, 4, TRUE, FALSE) : v \in {36, 41}, n \in {1, 5}}

Fits(h) == h.filesz <= h.memsz

Headers ==
  {<<t>> : t \in Text} \union {<<t, d>> : t \in Text, d \in Data}
    \union {<<d, n, t>> : d \in Data, n \in Note, t \in Text}
    \union {<<w, t, d>> : w \in Whole, t \in Text, d \in {x \in Data : x.vaddr = 28}}
    \union {<<t, d, b>> : t \in Text, d \in {x \in Data : x.vaddr = 4}, b \in Bss}
    \union {<<b, d, t, c>> : b \in Bss, d \in {x \in Data : x.vaddr = 28}, c \in Bss,
                             t \in {x \in Text : x.vaddr = 19}}

MCImages ==
  {[machine |-> "AMD64", ph |-> p] : p \in {q \in Headers : \A k \in DOMAIN q : Fits(q[k])}}
    \union {[machine |-> "386", ph |-> <<>>], [machine |-> "AARCH64", ph |-> <<>>]}

MCBlocks == {0, 8, 9, 14}
=============================================================================
