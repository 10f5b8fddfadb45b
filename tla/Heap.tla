-------------------------------- MODULE Heap --------------------------------
(***************************************************************************)
(* What a caller of mem_alloc(), mem_realloc() and mem_free() gets from    *)
(* them (src/include/mm/mman.h, src/common/mm/mman.c), with no table and   *)
(* no firmware: a block keeps its size and what its owner stored until it  *)
(* is freed, and a reallocation moves both, cut to the new size. Of all    *)
(* blocks, Capacity at a time are known; one that was handed out when that *)
(* many were known never is, and reallocating it yields an unrelated block.*)
(*                                                                         *)
(* The content of a block is abstracted to the owner's tag and the number  *)
(* of leading bytes that still carry it.                                   *)
(***************************************************************************)
EXTENDS Naturals, FiniteSets

CONSTANTS
  Addrs,     \* addresses the firmware's pool can hand out
  NULL,      \* the null pointer
  Sizes,     \* sizes the callers ask for
  Tags,      \* contents the callers store
  Capacity   \* blocks that can be known at a time

VARIABLES
  blocks,    \* blocks[a] is the block at a, or FreeBlock
  known,     \* blocks that can be reallocated with their content
  call,      \* the latest call: its name and its pointer
  ret        \* what it returned

heapVars == <<blocks, known, call, ret>>

Smaller(m, n) == IF m < n THEN m ELSE n

NoTag == "none"
Block == [live : {TRUE}, size : Sizes, tag : Tags \cup {NoTag}, len : Nat]
FreeBlock == [live |-> FALSE, size |-> 0, tag |-> NoTag, len |-> 0]

Fresh(n) == [live |-> TRUE, size |-> n, tag |-> NoTag, len |-> 0]
Moved(b, n, c) == [Fresh(n) EXCEPT !.tag = b.tag, !.len = Smaller(b.len, c)]

Live(bs) == {a \in Addrs : bs[a].live}

HeapInit == /\ blocks = [a \in Addrs |-> FreeBlock]
            /\ known = {}
            /\ call = <<"none", NULL>>
            /\ ret = NULL

-----------------------------------------------------------------------------
With(a) == IF Cardinality(known) < Capacity THEN known \cup {a} ELSE known

(* A call that fails returns NULL and leaves every block as it was.        *)
Fail == ret' = NULL /\ UNCHANGED <<blocks, known>>

HandOut(n) ==
  \E a \in Addrs \ Live(blocks) :
    /\ blocks' = [blocks EXCEPT ![a] = Fresh(n)]
    /\ known' = With(a)
    /\ ret' = a

(* The block moves to a fresh address with the content that still fits.    *)
(* The firmware may refuse to release the old address (kept).              *)
Move(old, n) ==
  \E a \in Addrs \ Live(blocks), kept \in BOOLEAN :
    /\ blocks' = [blocks EXCEPT ![a] = Moved(blocks[old], n, n),
                                ![old] = IF kept THEN @ ELSE FreeBlock]
    /\ known' = IF kept THEN With(a) ELSE With(a) \ {old}
    /\ ret' = a

Alloc(n) == /\ call' = <<"alloc", NULL>>
            /\ Fail \/ HandOut(n)

Realloc(old, n) ==
  /\ call' = <<"realloc", old>>
  /\ \/ Fail
     \/ old \in known /\ Move(old, n)
     \/ old \notin known /\ HandOut(n)

Free(a) ==
  /\ call' = <<"free", a>>
  /\ \/ Fail
     \/ /\ a \in Live(blocks)
        /\ blocks' = [blocks EXCEPT ![a] = FreeBlock]
        /\ known' = known \ {a}
        /\ ret' = NULL

Store(a, t) ==
  /\ call' = <<"store", a>>
  /\ blocks' = [blocks EXCEPT ![a].tag = t, ![a].len = blocks[a].size]
  /\ ret' = NULL
  /\ UNCHANGED known

HeapNext == \/ \E n \in Sizes : Alloc(n)
            \/ \E a \in Live(blocks) \cup {NULL}, n \in Sizes : Realloc(a, n)
            \/ \E a \in Live(blocks) \cup {NULL} : Free(a)
            \/ \E a \in Live(blocks), t \in Tags : Store(a, t)

HeapSpec == HeapInit /\ [][HeapNext]_heapVars
=============================================================================
