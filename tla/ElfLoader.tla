------------------------------ MODULE ElfLoader ------------------------------
(***************************************************************************)
(* elf_load() of src/common/loader/elf.c: one block for all segments of    *)
(* the kernel, which are put into it one behind the other, each from the   *)
(* beginning of a page, and mapped to where the file wants them.           *)
(*                                                                         *)
(* Addresses and sizes are in bytes, of which a page has Page. The mapping *)
(* is the one that module AddressSpace promises of map_pages().            *)
(***************************************************************************)
EXTENDS Integers, Sequences, FiniteSets

CONSTANTS
  Page,      \* bytes of a page
  Images,    \* [machine, ph]: files that may be given to elf_load()
  Memory,    \* bytes of physical memory
  Virts,     \* virtual pages
  Blocks,    \* addresses at which mem_alloc() may place the block
  NULL

ASSUME ElfAssumption ==
  /\ Page \in Nat \ {0}
  /\ Memory \subseteq Nat /\ Virts \subseteq Nat /\ Blocks \subseteq Nat
  /\ NULL \notin Blocks
  /\ \A f \in Images :
       /\ Len(f.ph) \in Nat /\ DOMAIN f.ph = 1 .. Len(f.ph)
       /\ \A k \in DOMAIN f.ph :
            /\ {f.ph[k].vaddr, f.ph[k].memsz, f.ph[k].filesz, f.ph[k].align} \subseteq Nat
            /\ f.ph[k].filesz <= f.ph[k].memsz  \* as ELF demands, and so is the next
            /\ f.ph[k].align = 0 \/ \E e \in 0 .. 63 : f.ph[k].align = 2 ^ e

VARIABLES
  file,         \* the image
  pc,           \* "identify", "measure", "alloc", "load", "done"
  i,            \* the program header the loop is at
  kernel_size,  \* sum of the segments' sizes
  block,        \* what mem_alloc() returned
  phys,         \* where the next segment goes
  mem,          \* physical byte -> what was written there, or Old
  space,        \* virtual page -> [to, flags]
  entry         \* what is returned: NULL for a failure

vars == <<file, pc, i, kernel_size, block, phys, mem, space, entry>>

Old == <<"old">>
Zero == <<"zero">>
Unmapped == [to |-> 0, flags |-> {}]

RoundDown(a) == a - (a % Page)
RoundUp(a) == RoundDown(a + Page - 1)

ph == file.ph[i]
Load(h) == h.type = "LOAD" /\ h.memsz > 0

-----------------------------------------------------------------------------
Init == /\ file \in Images
        /\ pc = "identify" /\ i = 1
        /\ kernel_size = 0 /\ block = NULL /\ phys = 0
        /\ mem = [c \in Memory |-> Old]
        /\ space = [v \in Virts |-> Unmapped]
        /\ entry = NULL

(* Only an image for AMD64 is loaded; elf32_load() is a stub that fails.   *)
Identify ==
  /\ pc = "identify"
  /\ pc' = IF file.machine = "AMD64" THEN "measure" ELSE "done"
  /\ UNCHANGED <<file, i, kernel_size, block, phys, mem, space, entry>>

(* Mutant: what the file does not hold is not counted.                     *)
Measure_filesz ==
  /\ pc = "measure"
  /\ IF i <= Len(file.ph)
     THEN /\ kernel_size' = kernel_size + (IF ph.type = "LOAD" THEN ph.filesz ELSE 0)
          /\ i' = i + 1
          /\ UNCHANGED pc
     ELSE pc' = "alloc" /\ i' = 1 /\ UNCHANGED kernel_size
  /\ UNCHANGED <<file, block, phys, mem, space, entry>>

Measure ==
  /\ pc = "measure"
  /\ IF i <= Len(file.ph)
     THEN /\ kernel_size' = kernel_size + (IF ph.type = "LOAD" THEN ph.memsz ELSE 0)
          /\ i' = i + 1
          /\ UNCHANGED pc
     ELSE pc' = "alloc" /\ i' = 1 /\ UNCHANGED kernel_size
  /\ UNCHANGED <<file, block, phys, mem, space, entry>>

(* Mutant: no spare page for the second segment's rounding.                *)
block_size_tight == RoundUp(kernel_size)

block_size == RoundUp(kernel_size) + Page

(* The address of the block is cut to a page; 0 is taken for a failure.    *)
Alloc ==
  /\ pc = "alloc"
  /\ \E a \in Blocks \union {NULL} :
       /\ block' = a
       /\ IF a = NULL \/ RoundDown(a) = 0
          THEN pc' = "done" /\ UNCHANGED phys
          ELSE pc' = "load" /\ phys' = RoundDown(a)
  /\ UNCHANGED <<file, i, kernel_size, mem, space, entry>>

(* p_vaddr & ~(p_align - 1): an alignment of 0 leaves nothing of it.       *)
Aligned(h) == IF h.align = 0 THEN 0 ELSE h.vaddr - (h.vaddr % h.align)

Flags(h) == {"present"} \union (IF h.write THEN {"writable"} ELSE {})
                        \union (IF h.exec THEN {} ELSE {"nx"})

(* Mutant: the last page of a segment is mapped only if it is full.        *)
Map_down(h) ==
  LET first == Aligned(h) \div Page
      pages == h.memsz \div Page
  IN [v \in Virts |-> IF v \in first .. first + pages - 1
                      THEN [to |-> phys \div Page + (v - first), flags |-> Flags(h)]
                      ELSE space[v]]

(* map_pages() from the aligned address, for as many pages as the size of  *)
(* the segment fills.                                                      *)
First(h) == Aligned(h) \div Page
Pages(h) == RoundUp(h.memsz) \div Page
Covered(h) == First(h) .. First(h) + Pages(h) - 1

Map(h) ==
  [v \in Virts |-> IF v \in Covered(h)
                   THEN [to |-> phys \div Page + (v - First(h)), flags |-> Flags(h)]
                   ELSE space[v]]

(* The segment's bytes: those of the file, then zeroes.                    *)
Skew(h) == h.vaddr - Aligned(h)

Place(h, k) ==
  LET virt == phys + Skew(h)
  IN [c \in Memory |-> IF c \in virt .. virt + h.memsz - 1
                       THEN IF c - virt < h.filesz THEN <<k, c - virt>> ELSE Zero
                       ELSE mem[c]]

(* Mutant: the next segment begins behind this one, not at a page.         *)
LoadSegment_packed ==
  /\ pc = "load" /\ i <= Len(file.ph)
  /\ IF Load(ph)
     THEN space' = Map(ph) /\ mem' = Place(ph, i) /\ phys' = phys + ph.memsz
     ELSE UNCHANGED <<space, mem, phys>>
  /\ i' = i + 1
  /\ UNCHANGED <<file, pc, kernel_size, block, entry>>

LoadSegment ==
  /\ pc = "load" /\ i <= Len(file.ph)
  /\ IF Load(ph)
     THEN space' = Map(ph) /\ mem' = Place(ph, i) /\ phys' = RoundUp(phys + ph.memsz)
     ELSE UNCHANGED <<space, mem, phys>>
  /\ i' = i + 1
  /\ UNCHANGED <<file, pc, kernel_size, block, entry>>

Return ==
  /\ pc = "load" /\ i > Len(file.ph)
  /\ pc' = "done" /\ entry' = "entry"
  /\ UNCHANGED <<file, i, kernel_size, block, phys, mem, space>>

Ended == pc = "done" /\ UNCHANGED vars

Next == Identify \/ Measure \/ Alloc \/ LoadSegment \/ Return \/ Ended

Spec == Init /\ [][Next]_vars

-----------------------------------------------------------------------------
Segments == {k \in DOMAIN file.ph : Load(file.ph[k])}

(* The block has room for two segments that end inside a page: one more    *)
(* page than the sum of the sizes fills. For each further one, elf64_load()*)
(* may need a page that it did not allocate.                               *)
Partial(k) == k \in Segments /\ file.ph[k].memsz % Page # 0
over == LET n == Cardinality({k \in 1 .. Len(file.ph) : Partial(k)})
        IN IF n > 2 THEN n - 2 ELSE 0

(* What aurix_get_memmap() makes of the address and size it is given.      *)
marked_size(addr) == RoundUp(addr - RoundDown(addr) + kernel_size) + Page

(* What the kernel finds at a virtual address.                             *)
Translate(v) == space[v \div Page].to * Page + (v % Page)

(* A kernel that is entered finds a byte of a segment where it was linked  *)
(* to, with the permissions its header asks for, if the header's alignment *)
(* is one of pages, the byte lies in the pages that the segment's size     *)
(* fills, counted from the aligned address, and no later segment has the   *)
(* same page. Only the last of these is lost through another segment: what *)
(* elf64_load() writes for one is never over such a byte, wherever in its  *)
(* page each of them begins and ends and in whatever order they come.      *)
ImageInPlace ==
  entry # NULL =>
    \A k \in Segments : \A b \in 0 .. file.ph[k].memsz - 1 :
      LET h == file.ph[k]
          v == (h.vaddr + b) \div Page
      IN /\ Aligned(h) % Page = 0
         /\ v \in Covered(h)
         /\ \A j \in Segments : j > k => v \notin Covered(file.ph[j])
         => /\ space[v].flags = Flags(h)
            /\ mem[Translate(h.vaddr + b)] = IF b < h.filesz THEN <<k, b>> ELSE Zero

(* How far the writes of elf64_load() can leave the block it allocated:    *)
(* they begin at the page in which the block does, and end no further      *)
(* behind its size than the pages of the third and later segments that end *)
(* inside a page, and the distance of this segment from its aligned        *)
(* address. With a block that begins at a page, two such segments and      *)
(* aligned addresses they stay in it.                                      *)
WritesBlock ==
  \A c \in Memory : mem'[c] # mem[c] =>
    LET addr == RoundDown(block)
    IN c \in addr .. addr + block_size + Page * over + Skew(ph) - 1

WritesInBlock == [][WritesBlock]_vars

(* The region that aurix_get_memmap() marks as the kernel's, from the size *)
(* and address that elf_load() gave it, has all pages that were mapped for *)
(* the kernel, but for those that the block has no room for either: none   *)
(* of the others is given to the kernel as free memory.                    *)
RegionCovers ==
  LET addr == RoundDown(block)
      end == addr + marked_size(addr) + Page * over
  IN entry # NULL => \A v \in Virts : space[v] # Unmapped =>
       addr <= space[v].to * Page /\ space[v].to * Page + Page <= end
=============================================================================
