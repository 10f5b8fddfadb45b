-------------------------------- MODULE Mman --------------------------------
(***************************************************************************)
(* The allocator of axboot, src/common/mm/mman.c, in its UEFI build: a     *)
(* fixed table that records the size of every block taken from the         *)
(* firmware's pool, so that mem_realloc() knows how much to copy.          *)
(*                                                                         *)
(* The loader is one thread and UEFI calls do not return into it, so one   *)
(* call is one action. What the firmware answers is nondeterministic:      *)
(* AllocatePool() may fail at any time and FreePool() may refuse a block.  *)
(***************************************************************************)
EXTENDS Integers, FiniteSets

CONSTANTS
  Addrs,            \* addresses the firmware's pool can hand out
  NULL,             \* the null pointer
  Sizes,            \* sizes the callers ask for
  Tags,             \* contents the callers store
  MAX_ALLOCATIONS,  \* slots of allocation_list (64 in the source)
  MaxLive           \* most blocks the firmware has memory for at one time

ASSUME MmanAssumption ==
  /\ NULL \notin Addrs
  /\ IsFiniteSet(Addrs)
  /\ Sizes \subseteq Nat
  /\ MAX_ALLOCATIONS \in Nat \ {0}
  /\ MaxLive \in Nat

VARIABLES
  allocation_list,  \* the table: slot -> [addr, size]
  pool,             \* the firmware's memory, block by block
  call,             \* the latest call: its name and its pointer
  ret               \* what it returned

vars == <<allocation_list, pool, call, ret>>

Slots == 0 .. MAX_ALLOCATIONS - 1
Known == {a \in Addrs : \E i \in Slots : allocation_list[i].addr = a}

H == INSTANCE Heap WITH blocks <- pool, known <- Known, Capacity <- MAX_ALLOCATIONS

Entry == [addr : Addrs \cup {NULL}, size : Nat]
Unused == [addr |-> NULL, size |-> 0]

Live == H!Live(pool)

-----------------------------------------------------------------------------
(* The table.                                                              *)

(* Mutant: the search stops one slot early.                                *)
find_alloc_short(list, addr) ==
  IF \E i \in 0 .. MAX_ALLOCATIONS - 2 : list[i].addr = addr
    THEN CHOOSE i \in Slots : /\ list[i].addr = addr
                              /\ \A j \in 0 .. i - 1 : list[j].addr # addr
    ELSE -1

(* The first slot with this address, or -1. With NULL: the first free one. *)
find_alloc(list, addr) ==
  IF \E i \in Slots : list[i].addr = addr
    THEN CHOOSE i \in Slots : /\ list[i].addr = addr
                              /\ \A j \in 0 .. i - 1 : list[j].addr # addr
    ELSE -1

(* A block that finds no free slot is not recorded; no caller looks at the *)
(* 0 that add_alloc() then returns.                                        *)
add_alloc(list, addr, size) ==
  LET i == find_alloc(list, NULL)
  IN  IF i = -1 THEN list
                ELSE [list EXCEPT ![i] = [addr |-> addr, size |-> size]]

(* Mutant: only the size of the slot is cleared.                           *)
remove_alloc_size_only(list, addr) ==
  LET i == find_alloc(list, addr)
  IN  IF i = -1 THEN list ELSE [list EXCEPT ![i].size = 0]

remove_alloc(list, addr) ==
  LET i == find_alloc(list, addr)
  IN  IF i = -1 THEN list ELSE [list EXCEPT ![i] = Unused]

-----------------------------------------------------------------------------
(* The firmware.                                                           *)

(* AllocatePool() fails, or hands out an address that is not in use.       *)
AllocatePool == {NULL} \cup (IF Cardinality(Live) < MaxLive THEN Addrs \ Live ELSE {})

(* FreePool() releases the block, or reports an error and keeps it.        *)
FreePool(a) == {pool[a], H!FreeBlock}

-----------------------------------------------------------------------------
(* The calls.                                                              *)

Init == /\ allocation_list = [i \in Slots |-> Unused]
        /\ pool = [a \in Addrs |-> H!FreeBlock]
        /\ call = <<"none", NULL>>
        /\ ret = NULL

hand_out(n) ==
  \E a \in AllocatePool :
    /\ ret' = a
    /\ IF a = NULL
         THEN UNCHANGED <<allocation_list, pool>>
         ELSE /\ pool' = [pool EXCEPT ![a] = H!Fresh(n)]
              /\ allocation_list' = add_alloc(allocation_list, a, n)

mem_alloc(n) == call' = <<"alloc", NULL>> /\ hand_out(n)

(* The address is not in the table, or is NULL: a new block, with nothing  *)
(* copied and nothing freed.                                               *)
mem_realloc_unknown(addr, n) ==
  /\ call' = <<"realloc", addr>>
  /\ addr = NULL \/ find_alloc(allocation_list, addr) = -1
  /\ hand_out(n)

(* Mutant: the larger of the two sizes is copied.                          *)
mem_realloc_known_larger(addr, n) ==
  LET i == find_alloc(allocation_list, addr)
      old_size == allocation_list[i].size
      copy_size == IF old_size < n THEN n ELSE old_size
  IN  /\ call' = <<"realloc", addr>>
      /\ addr # NULL /\ i # -1
      /\ \E a \in AllocatePool, left \in FreePool(addr) :
           /\ a # NULL
           /\ ret' = a
           /\ pool' = [pool EXCEPT ![a] = H!Moved(pool[addr], n, copy_size),
                                   ![addr] = left]
           /\ allocation_list' = remove_alloc(add_alloc(allocation_list, a, n), addr)

(* The block is known: allocate, copy the smaller of the recorded size and *)
(* the new one, free the old block. A failed allocation returns NULL and   *)
(* leaves the old block; a refused FreePool() leaves the block and its slot. *)
mem_realloc_known(addr, n) ==
  LET i == find_alloc(allocation_list, addr)
      copy_size == H!Smaller(allocation_list[i].size, n)
  IN  /\ call' = <<"realloc", addr>>
      /\ addr # NULL /\ i # -1
      /\ \E a \in AllocatePool :
           /\ ret' = a
           /\ IF a = NULL
                THEN UNCHANGED <<allocation_list, pool>>
                ELSE LET added == add_alloc(allocation_list, a, n)
                     IN \E left \in FreePool(addr) :
                          /\ pool' = [pool EXCEPT
                                        ![a] = H!Moved(pool[addr], n, copy_size),
                                        ![addr] = left]
                          /\ allocation_list' = IF left.live THEN added
                                                ELSE remove_alloc(added, addr)

(* Mutant: the slot outlives the block.                                    *)
mem_free_keeps_slot(addr) ==
  /\ call' = <<"free", addr>> /\ ret' = NULL
  /\ \E left \in IF addr = NULL THEN {H!FreeBlock} ELSE FreePool(addr) :
       pool' = IF addr = NULL THEN pool ELSE [pool EXCEPT ![addr] = left]
  /\ UNCHANGED allocation_list

mem_free(addr) ==
  /\ call' = <<"free", addr>> /\ ret' = NULL
  /\ IF addr = NULL
       THEN UNCHANGED <<allocation_list, pool>>
       ELSE \E left \in FreePool(addr) :
              /\ pool' = [pool EXCEPT ![addr] = left]
              /\ allocation_list' = IF left.live THEN allocation_list
                                    ELSE remove_alloc(allocation_list, addr)

(* The owner of a block fills it.                                          *)
Store(addr, t) ==
  /\ pool' = [pool EXCEPT ![addr].tag = t, ![addr].len = pool[addr].size]
  /\ call' = <<"store", addr>> /\ ret' = NULL
  /\ UNCHANGED allocation_list

Next == \/ \E n \in Sizes : mem_alloc(n)
        \/ \E a \in Live \cup {NULL}, n \in Sizes : mem_realloc_unknown(a, n)
        \/ \E a \in Live, n \in Sizes : mem_realloc_known(a, n)
        \/ \E a \in Live \cup {NULL} : mem_free(a)
        \/ \E a \in Live, t \in Tags : Store(a, t)

Spec == Init /\ [][Next]_vars

-----------------------------------------------------------------------------
(* Type invariant of the table, of the pool and of the returned pointer.   *)
TypeOK == /\ allocation_list \in [Slots -> Entry]
          /\ pool \in [Addrs -> H!Block \cup {H!FreeBlock}]
          /\ ret \in Addrs \cup {NULL}
          /\ call \in {"none", "alloc", "realloc", "free", "store"} \X (Addrs \cup {NULL})

(* A slot in use names a live block with that block's size: a slot is      *)
(* never left behind by a free, so an address the firmware hands out again *)
(* is not copied with the size of its former block.                        *)
SlotsNameLiveBlocks ==
  \A i \in Slots : allocation_list[i].addr # NULL =>
    /\ allocation_list[i].addr \in Live
    /\ allocation_list[i].size = pool[allocation_list[i].addr].size

(* No block is recorded twice, although add_alloc() never looks for an     *)
(* earlier record: a second slot would survive the block's remove_alloc(). *)
NoBlockTwice ==
  \A i, j \in Slots :
    allocation_list[i].addr = allocation_list[j].addr =>
      i = j \/ allocation_list[i].addr = NULL

(* No copy runs past the end of the block it writes (the comment "prevent  *)
(* overflow" of mem_realloc()): whatever size the table has for the old    *)
(* block, at most the new size is copied.                                  *)
NoOverflow == \A a \in Live : pool[a].len <= pool[a].size

(* The calls keep the promise of module Heap: mem_realloc() hands back the *)
(* content of the block it was given, unless that block was handed out     *)
(* while the table was full; and no block drops out of the table before it *)
(* is freed.                                                               *)
HeapSpec == H!HeapSpec
=============================================================================
