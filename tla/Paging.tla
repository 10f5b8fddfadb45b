------------------------------- MODULE Paging -------------------------------
(***************************************************************************)
(* The page tables of src/arch/x86_64/common/mm/paging.c, and of aarch64,  *)
(* which differs by a flag: create_pagemap(), map_pages() and _map(), in   *)
(* memory that mem_alloc() hands out.                                      *)
(*                                                                         *)
(* Memory is counted in table entries, of 8 bytes: a table, a page and the *)
(* block that is allocated for a table are Fanout entries. Virtual and     *)
(* physical addresses of the mapping are page numbers.                     *)
(***************************************************************************)
EXTENDS Integers

CONSTANTS
  Levels,    \* 4 in the source
  Fanout,    \* 512 in the source
  Span,      \* levels -> pages that an entry so far above them stands for
  Memory,    \* cells of memory: entries
  Pool,      \* addresses at which mem_alloc() may place a block
  Junk,      \* entries that memory may hold before it is cleared
  Forced,    \* flags that _map() adds: none, or "present" on aarch64
  Requests,  \* [virt, phys, pages, flags]: the calls of map_pages()
  MaxCalls   \* bound on their number

ASSUME PagingAssumption ==
  /\ Levels \in Nat \ {0} /\ Fanout \in Nat \ {0, 1}
  /\ Span \in [0 .. Levels -> Nat]
  /\ Span[0] = 1 /\ \A k \in 1 .. Levels : Span[k] = Span[k - 1] * Fanout
  /\ Pool \subseteq Nat /\ MaxCalls \in Nat
  /\ \A a \in Pool : a >= Fanout /\ a .. a + Fanout - 1 \subseteq Memory
  /\ 0 .. Fanout - 1 \subseteq Memory

ASSUME EntryAssumption ==
  /\ \A j \in Junk : j.to \in Nat
  /\ Requests \subseteq [virt : Nat, phys : Nat, pages : Nat, flags : SUBSET STRING]

VARIABLES
  mem,     \* cell -> entry
  used,    \* addresses of the blocks in use
  todo,    \* what is left of the call in progress: [virt, phys, pages, flags]
  level,   \* level of the table that _map() looks at
  table,   \* its address
  calls

vars == <<mem, used, todo, level, table, calls>>

Empty == [to |-> 0, flags |-> {}]
root == 0                        \* create_pagemap() rounds its block up to a page
Virts == 0 .. Span[Levels] - 1

-----------------------------------------------------------------------------
Block(a) == a .. a + Fanout - 1
RoundDown(a) == a - (a % Fanout)

Free(a) == \A b \in used \union {root} : Block(a) \cap Block(b) = {}

(* Mutant: the index of the level above.                                   *)
Index_above(v, l) == (v \div Span[Levels - l + 1]) % Fanout

(* pml4_idx is Index(v, 1), pml1_idx is Index(v, 4).                       *)
Index(v, l) == (v \div Span[Levels - l]) % Fanout

Init ==
  /\ \E j \in Junk : mem = [c \in Memory |-> IF c \in Block(root) THEN Empty ELSE j]
  /\ used = {}
  /\ todo = [virt |-> 0, phys |-> 0, pages |-> 0, flags |-> {}]
  /\ level = 1 /\ table = root /\ calls = 0

map_pages(r) ==
  /\ todo.pages = 0 /\ calls < MaxCalls
  /\ todo' = r
  /\ calls' = calls + 1
  /\ UNCHANGED <<mem, used, level, table>>

slot == table + Index(todo.virt, level)

(* _map() goes one table down.                                             *)
Follow ==
  /\ todo.pages > 0 /\ level < Levels
  /\ "present" \in mem[slot].flags
  /\ table' = RoundDown(mem[slot].to)
  /\ level' = level + 1
  /\ UNCHANGED <<mem, used, todo, calls>>

(* Mutant: the new table is not cleared.                                   *)
AddTable_dirty ==
  /\ todo.pages > 0 /\ level < Levels
  /\ "present" \notin mem[slot].flags
  /\ \E a \in Pool :
       /\ Free(a)
       /\ used' = used \union {a}
       /\ mem' = [mem EXCEPT ![slot] = [to |-> a, flags |-> {"present", "writable"}]]
       /\ table' = RoundDown(a)
  /\ level' = level + 1
  /\ UNCHANGED <<todo, calls>>

(* There is no table yet: a block is cleared and entered, and the pointer  *)
(* to it is cut to a page. (No caller looks at mem_alloc()'s failure.)     *)
AddTable ==
  /\ todo.pages > 0 /\ level < Levels
  /\ "present" \notin mem[slot].flags
  /\ \E a \in Pool :
       /\ Free(a)
       /\ used' = used \union {a}
       /\ mem' = [[c \in Memory |-> IF c \in Block(a) THEN Empty ELSE mem[c]]
                    EXCEPT ![slot] = [to |-> a, flags |-> {"present", "writable"}]]
       /\ table' = RoundDown(a)
  /\ level' = level + 1
  /\ UNCHANGED <<todo, calls>>

(* On aarch64 every page becomes present, whatever the caller asked for.   *)
page_flags(flags) == flags \union Forced

(* The entry of the page itself; then map_pages() goes on to the next one. *)
SetPage ==
  /\ todo.pages > 0 /\ level = Levels
  /\ mem' = [mem EXCEPT ![slot] = [to |-> todo.phys, flags |-> page_flags(todo.flags)]]
  /\ todo' = [todo EXCEPT !.virt = todo.virt + 1, !.phys = todo.phys + 1,
                          !.pages = todo.pages - 1]
  /\ level' = 1 /\ table' = root
  /\ UNCHANGED <<used, calls>>

Stop == todo.pages = 0 /\ calls = MaxCalls /\ UNCHANGED vars

Next == Follow \/ AddTable \/ SetPage \/ Stop \/ \E r \in Requests : map_pages(r)

Spec == Init /\ [][Next]_vars

-----------------------------------------------------------------------------
(* What the processor finds for a page in memory m: the table it reaches   *)
(* at each level, or None, and the entry of the page.                      *)
None == -1

(* Where there is no memory, nothing is present.                           *)
Cell(m, c) == IF c \in Memory THEN m[c] ELSE Empty
Present(e) == "present" \in e.flags

TableAt(m, v, n) ==
  LET t[l \in 1 .. Levels] ==
        IF l = 1 THEN root
        ELSE LET up == t[l - 1]
                 e  == Cell(m, up + Index(v, l - 1))
             IN  IF up # None /\ Present(e) THEN RoundDown(e.to) ELSE None
  IN t[n]

Lookup(m, v) ==
  LET t == TableAt(m, v, Levels)
      e == Cell(m, t + Index(v, Levels))
  IN  IF t # None /\ Present(e) THEN e ELSE Empty

A == INSTANCE AddressSpace WITH Unmapped <- Empty, space <- [v \in Virts |-> Lookup(mem, v)]

-----------------------------------------------------------------------------
(* The tables implement the abstract address space: each page is found     *)
(* where it was mapped last, and setting one page, or adding a table,      *)
(* moves no other page. It rests on blocks that begin at a page.           *)
AddressSpaceSpec == A!SpaceSpec

(* So far, every block from mem_alloc() has begun at a page. None is given *)
(* back, so that this was true of every earlier state as well.             *)
Tidy == \A a \in used : a % Fanout = 0

WritesTables ==
  \A c \in Memory : mem'[c] # mem[c] => \E a \in used' \union {root} : c \in Block(a)

(* Mapping writes to the tables it owns, the new one among them, and to    *)
(* nothing else in memory, as long as no block has begun inside a page.    *)
OnlyTablesWritten == [][Tidy' => WritesTables]_vars

(* A page that was just mapped is found where it was mapped - if the blocks *)
(* begin at a page, which nothing asks the firmware for.                   *)
PageIsMapped ==
  level = 1 /\ todo.virt > 0 /\ todo.pages = 0 /\ "present" \in todo.flags =>
    Lookup(mem, todo.virt - 1) = [to |-> todo.phys - 1, flags |-> page_flags(todo.flags)]
=============================================================================
