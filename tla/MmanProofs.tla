----------------------------- MODULE MmanProofs -----------------------------
(***************************************************************************)
(* Proofs about Mman for every number of addresses, slots and blocks.      *)
(*                                                                         *)
(* TableOK is the inductive invariant, as a predicate of a table and a     *)
(* pool, so that each call is a composition of the lemmas on add_alloc()   *)
(* and remove_alloc().                                                     *)
(***************************************************************************)
EXTENDS Mman, FiniteSetTheorems, WellFoundedInduction, TLAPS

(* Every non-empty set of naturals has a least element.                    *)
LEMMA LeastExists ==
  ASSUME NEW T, T \subseteq Nat, T # {}
  PROVE  \E x \in T : \A y \in T : x <= y
<1>1. PICK x \in T : \A y \in T : <<y, x>> \notin OpToRel(<, Nat)
  BY NatLessThanWellFounded, WFMin
<1>2. \A y \in T : y < x => <<y, x>> \in OpToRel(<, Nat)
  BY DEF OpToRel
<1>3. \A y \in T : ~ (y < x)
  BY <1>1, <1>2, Zenon
<1>4. QED
  BY <1>3

-----------------------------------------------------------------------------

TableType(list) == list \in [Slots -> Entry]
PoolType(p) == p \in [Addrs -> H!Block \cup {H!FreeBlock}]

NamesLive(list, p) ==
  \A i \in Slots : list[i].addr # NULL =>
    list[i].addr \in H!Live(p) /\ list[i].size = p[list[i].addr].size

Distinct(list) ==
  \A i, j \in Slots : list[i].addr = list[j].addr => i = j \/ list[i].addr = NULL

TableOK(list, p) ==
  TableType(list) /\ PoolType(p) /\ NamesLive(list, p) /\ Distinct(list)

IInv == TableOK(allocation_list, pool) /\ ret \in Addrs \cup {NULL}

-----------------------------------------------------------------------------
(* find_alloc() finds a slot with the address exactly if there is one.     *)
LEMMA FindAlloc ==
  ASSUME NEW list, TableType(list), NEW addr
  PROVE  \/ /\ find_alloc(list, addr) = -1
            /\ \A i \in Slots : list[i].addr # addr
         \/ /\ find_alloc(list, addr) \in Slots
            /\ list[find_alloc(list, addr)].addr = addr
<1> DEFINE Hits == {i \in Slots : list[i].addr = addr}
<1>1. CASE Hits = {}
  BY <1>1 DEF find_alloc
<1>2. CASE Hits # {}
  <2>1. Hits \subseteq Nat
    BY MmanAssumption DEF Slots
  <2>2. \E i \in Hits : \A j \in Hits : i <= j
    <3> HIDE DEF Hits
    <3> QED  BY <1>2, <2>1, LeastExists
  <2>3. \E i \in Slots : /\ list[i].addr = addr
                         /\ \A j \in 0 .. i - 1 : list[j].addr # addr
    BY <2>2, MmanAssumption DEF Slots
  <2>4. QED
    BY <1>2, <2>3 DEF find_alloc
<1>3. QED
  BY <1>1, <1>2

(* Recording a fresh block keeps the table right.                          *)
LEMMA AddKeeps ==
  ASSUME NEW list, NEW p, TableOK(list, p),
         NEW a \in Addrs \ H!Live(p), NEW b \in H!Block
  PROVE  TableOK(add_alloc(list, a, b.size), [p EXCEPT ![a] = b])
<1> DEFINE i == find_alloc(list, NULL)
           q == [p EXCEPT ![a] = b]
           l == add_alloc(list, a, b.size)
<1>1. PoolType(q) /\ H!Live(q) = H!Live(p) \cup {a}
  BY DEF TableOK, PoolType, H!Live, H!Block, H!FreeBlock
<1>2. b.size \in Nat
  BY MmanAssumption DEF H!Block
<1>3. \A j \in Slots : list[j].addr # a
  BY MmanAssumption DEF TableOK, NamesLive
<1>4. CASE i = -1
  <2>1. l = list
    BY <1>4 DEF add_alloc
  <2>2. NamesLive(list, q)
    BY <1>1, <1>3 DEF TableOK, NamesLive, PoolType, H!Live
  <2>3. QED
    BY <1>1, <2>1, <2>2 DEF TableOK
<1>5. CASE i # -1
  <2>1. i \in Slots /\ list[i].addr = NULL
    BY <1>5, FindAlloc DEF TableOK
  <2>2. l = [list EXCEPT ![i] = [addr |-> a, size |-> b.size]]
    BY <1>5 DEF add_alloc
  <2> HIDE DEF i, l, q
  <2>3. TableType(l)
    BY <1>2, <2>1, <2>2 DEF TableOK, TableType, Entry
  <2>4. \A j \in Slots : l[j] = IF j = i THEN [addr |-> a, size |-> b.size] ELSE list[j]
    BY <2>1, <2>2 DEF TableOK, TableType
  <2>5. NamesLive(l, q)
    BY <1>1, <1>3, <2>4 DEF TableOK, NamesLive, PoolType, H!Live, q
  <2>6. Distinct(l)
    BY <1>3, <2>4 DEF TableOK, Distinct
  <2>7. QED
    BY <1>1, <2>3, <2>5, <2>6 DEF TableOK, q, l
<1>6. QED
  BY <1>4, <1>5

(* Releasing a block and its slot keeps the table right.                   *)
LEMMA RemoveKeeps ==
  ASSUME NEW list, NEW p, TableOK(list, p), NEW a \in Addrs
  PROVE  TableOK(remove_alloc(list, a), [p EXCEPT ![a] = H!FreeBlock])
<1> DEFINE i == find_alloc(list, a)
           q == [p EXCEPT ![a] = H!FreeBlock]
           l == remove_alloc(list, a)
<1>1. PoolType(q) /\ H!Live(q) = H!Live(p) \ {a}
  BY DEF TableOK, PoolType, H!Live, H!Block, H!FreeBlock
<1>2. CASE i = -1
  <2>1. l = list /\ \A j \in Slots : list[j].addr # a
    BY <1>2, FindAlloc DEF remove_alloc, TableOK, Slots
  <2>2. NamesLive(list, q)
    BY <1>1, <2>1 DEF TableOK, NamesLive, PoolType, H!Live
  <2>3. QED
    BY <1>1, <2>1, <2>2 DEF TableOK
<1>3. CASE i # -1
  <2>1. i \in Slots /\ list[i].addr = a
    BY <1>3, FindAlloc DEF TableOK
  <2>2. l = [list EXCEPT ![i] = Unused]
    BY <1>3 DEF remove_alloc
  <2> HIDE DEF i, l, q
  <2>3. \A j \in Slots : l[j] = IF j = i THEN Unused ELSE list[j]
    BY <2>1, <2>2 DEF TableOK, TableType
  <2>4. TableType(l)
    BY <2>1, <2>2 DEF TableOK, TableType, Entry, Unused
  <2>5. \A j \in Slots : l[j].addr # NULL => list[j].addr # a /\ l[j] = list[j]
    BY <2>1, <2>3, MmanAssumption DEF TableOK, Distinct, Unused
  <2>6. NamesLive(l, q)
    BY <1>1, <2>5 DEF TableOK, NamesLive, PoolType, H!Live, q
  <2>7. Distinct(l)
    BY <2>5 DEF TableOK, Distinct
  <2>8. QED
    BY <1>1, <2>4, <2>6, <2>7 DEF TableOK, q, l
<1>4. QED
  BY <1>2, <1>3

-----------------------------------------------------------------------------
(* The blocks that are put into the pool are blocks.                       *)
LEMMA NewBlocks ==
  ASSUME NEW n \in Sizes
  PROVE  /\ H!Fresh(n) \in H!Block /\ H!Fresh(n).size = n
         /\ \A b \in H!Block, c \in Nat :
              H!Moved(b, n, c) \in H!Block /\ H!Moved(b, n, c).size = n
BY MmanAssumption DEF H!Fresh, H!Moved, H!Block, H!NoTag, H!Smaller

(* What AllocatePool() may hand out is not in use, and there is room.      *)
LEMMA AllocatePoolFresh ==
  ASSUME NEW a \in AllocatePool, a # NULL
  PROVE  a \in Addrs \ H!Live(pool) /\ Cardinality(H!Live(pool)) < MaxLive
BY DEF AllocatePool, Live

(* A known address has its slot, and the recorded size is the block's.     *)
LEMMA KnownSize ==
  ASSUME IInv, NEW addr, addr # NULL, find_alloc(allocation_list, addr) # -1
  PROVE  /\ addr \in H!Live(pool)
         /\ pool[addr] \in H!Block
         /\ allocation_list[find_alloc(allocation_list, addr)].size = pool[addr].size
BY FindAlloc DEF IInv, TableOK, NamesLive, PoolType, H!Live, H!FreeBlock

LEMMA InitIInv == Init => IInv
BY MmanAssumption DEF Init, IInv, TableOK, TableType, PoolType, NamesLive,
   Distinct, Entry, Unused

LEMMA AllocIInv ==
  ASSUME IInv, NEW n \in Sizes, hand_out(n)
  PROVE  IInv'
<1>1. PICK a \in AllocatePool :
        /\ ret' = a
        /\ IF a = NULL
             THEN UNCHANGED <<allocation_list, pool>>
             ELSE /\ pool' = [pool EXCEPT ![a] = H!Fresh(n)]
                  /\ allocation_list' = add_alloc(allocation_list, a, n)
  BY DEF hand_out
<1>2. CASE a = NULL
  BY <1>1, <1>2 DEF IInv
<1>3. CASE a # NULL
  <2>1. TableOK(add_alloc(allocation_list, a, n), [pool EXCEPT ![a] = H!Fresh(n)])
    BY <1>3, AllocatePoolFresh, AddKeeps, NewBlocks DEF IInv
  <2>2. QED
    BY <1>1, <1>3, <2>1, AllocatePoolFresh DEF IInv
<1>4. QED
  BY <1>2, <1>3

LEMMA ReallocIInv ==
  ASSUME IInv, NEW addr \in Live, NEW n \in Sizes, mem_realloc_known(addr, n)
  PROVE  IInv'
<1> DEFINE i == find_alloc(allocation_list, addr)
           copy_size == H!Smaller(allocation_list[i].size, n)
<1>1. PICK a \in AllocatePool :
        /\ ret' = a
        /\ IF a = NULL
             THEN UNCHANGED <<allocation_list, pool>>
             ELSE LET added == add_alloc(allocation_list, a, n)
                  IN \E left \in FreePool(addr) :
                       /\ pool' = [pool EXCEPT
                                     ![a] = H!Moved(pool[addr], n, copy_size),
                                     ![addr] = left]
                       /\ allocation_list' = IF left.live THEN added
                                             ELSE remove_alloc(added, addr)
  BY DEF mem_realloc_known
<1>2. CASE a = NULL
  BY <1>1, <1>2 DEF IInv
<1>3. CASE a # NULL
  <2> DEFINE b == H!Moved(pool[addr], n, copy_size)
             p == [pool EXCEPT ![a] = b]
             added == add_alloc(allocation_list, a, n)
  <2>1. pool[addr] \in H!Block /\ copy_size \in Nat /\ addr # NULL /\ i # -1
    BY KnownSize, MmanAssumption DEF mem_realloc_known, H!Smaller, H!Block
  <2>2. b \in H!Block /\ b.size = n
    BY <2>1, NewBlocks
  <2>3. a \in Addrs \ H!Live(pool) /\ addr \in H!Live(pool) /\ addr \in Addrs /\ a # addr
    BY <1>3, AllocatePoolFresh DEF Live, H!Live
  <2>4. TableOK(added, p)
    BY <2>2, <2>3, AddKeeps DEF IInv
  <2>5. TableOK(remove_alloc(added, addr), [p EXCEPT ![addr] = H!FreeBlock])
    BY <2>3, <2>4, RemoveKeeps
  <2>6. p[addr] = pool[addr] /\ [p EXCEPT ![addr] = pool[addr]] = p
    BY <2>3 DEF IInv, TableOK, PoolType
  <2>7. \A left : [pool EXCEPT ![a] = b, ![addr] = left] = [p EXCEPT ![addr] = left]
    OBVIOUS
  <2>8. PICK left \in FreePool(addr) :
          /\ pool' = [p EXCEPT ![addr] = left]
          /\ allocation_list' = IF left.live THEN added ELSE remove_alloc(added, addr)
    BY <1>1, <1>3, <2>7
  <2> HIDE DEF p, added
  <2>9. TableOK(allocation_list', pool')
    <3>1. CASE left = pool[addr]
      <4>1. left.live
        BY <3>1, <2>3 DEF H!Live
      <4>2. QED
        BY <3>1, <4>1, <2>4, <2>6, <2>8
    <3>2. CASE left = H!FreeBlock
      <4>1. ~left.live
        BY <3>2 DEF H!FreeBlock
      <4>2. QED
        BY <3>2, <4>1, <2>5, <2>8
    <3>3. QED
      BY <3>1, <3>2 DEF FreePool
  <2>10. QED
    BY <1>1, <1>3, <2>3, <2>9 DEF IInv
<1>4. QED
  BY <1>2, <1>3

LEMMA FreeIInv ==
  ASSUME IInv, NEW addr \in Live \cup {NULL}, mem_free(addr)
  PROVE  IInv'
<1>1. CASE addr = NULL
  BY <1>1 DEF mem_free, IInv
<1>2. CASE addr # NULL
  <2>1. addr \in Addrs /\ pool[addr].live
    BY <1>2 DEF Live, H!Live
  <2>2. PICK left \in FreePool(addr) :
          /\ pool' = [pool EXCEPT ![addr] = left]
          /\ allocation_list' = IF left.live THEN allocation_list
                                ELSE remove_alloc(allocation_list, addr)
    BY <1>2 DEF mem_free
  <2>3. CASE left = pool[addr]
    BY <2>1, <2>2, <2>3 DEF mem_free, IInv, TableOK, PoolType
  <2>4. CASE left = H!FreeBlock
    <3>1. ~left.live
      BY <2>4 DEF H!FreeBlock
    <3>2. QED
      BY <2>1, <2>2, <2>4, <3>1, RemoveKeeps DEF mem_free, IInv
  <2>5. QED
    BY <2>2, <2>3, <2>4 DEF FreePool
<1>3. QED
  BY <1>1, <1>2

LEMMA StoreIInv ==
  ASSUME IInv, NEW addr \in Live, NEW t \in Tags, Store(addr, t)
  PROVE  IInv'
<1>1. addr \in Addrs /\ pool[addr] \in H!Block
  BY DEF Live, H!Live, IInv, TableOK, PoolType, H!FreeBlock
<1> DEFINE b == [pool[addr] EXCEPT !.tag = t, !.len = pool[addr].size]
<1>2. b \in H!Block /\ b.size = pool[addr].size
  BY <1>1, MmanAssumption DEF H!Block
<1>3. pool' = [pool EXCEPT ![addr] = b]
  BY DEF Store
<1>4. PoolType(pool') /\ H!Live(pool') = H!Live(pool)
  BY <1>1, <1>2, <1>3 DEF IInv, TableOK, PoolType, H!Live, H!Block
<1>5. \A a \in Addrs : pool'[a].size = pool[a].size
  BY <1>1, <1>2, <1>3 DEF IInv, TableOK, PoolType
<1>6. NamesLive(allocation_list, pool')
  BY <1>4, <1>5 DEF IInv, TableOK, NamesLive, H!Live
<1>7. QED
  BY <1>4, <1>6 DEF Store, IInv, TableOK

LEMMA NextIInv == IInv /\ [Next]_vars => IInv'
<1>1. SUFFICES ASSUME IInv, [Next]_vars  PROVE IInv'
  OBVIOUS
<1>2. CASE \E n \in Sizes : mem_alloc(n)
  BY <1>1, <1>2, AllocIInv DEF mem_alloc
<1>3. CASE \E a \in Live \cup {NULL}, n \in Sizes : mem_realloc_unknown(a, n)
  BY <1>1, <1>3, AllocIInv DEF mem_realloc_unknown
<1>4. CASE \E a \in Live, n \in Sizes : mem_realloc_known(a, n)
  BY <1>1, <1>4, ReallocIInv
<1>5. CASE \E a \in Live \cup {NULL} : mem_free(a)
  BY <1>1, <1>5, FreeIInv
<1>6. CASE \E a \in Live, t \in Tags : Store(a, t)
  BY <1>1, <1>6, StoreIInv
<1>7. CASE UNCHANGED vars
  BY <1>1, <1>7 DEF vars, IInv
<1>8. QED
  BY <1>1, <1>2, <1>3, <1>4, <1>5, <1>6, <1>7 DEF Next

LEMMA Invariance == Spec => []IInv
BY InitIInv, NextIInv, PTL DEF Spec

-----------------------------------------------------------------------------
(* The table, the pool and the returned pointer keep their types.          *)
THEOREM TypeCorrect == Spec => []TypeOK
<1> DEFINE CInv == call \in {"none", "alloc", "realloc", "free", "store"} \X (Addrs \cup {NULL})
<1>1. Init => CInv
  BY DEF Init
<1>2. CInv /\ [Next]_vars => CInv'
  <2>1. SUFFICES ASSUME CInv, [Next]_vars  PROVE CInv'
    OBVIOUS
  <2>2. CASE \E n \in Sizes : mem_alloc(n)
    BY <2>2 DEF mem_alloc
  <2>3. CASE \E a \in Live \cup {NULL}, n \in Sizes : mem_realloc_unknown(a, n)
    BY <2>3 DEF mem_realloc_unknown, Live, H!Live
  <2>4. CASE \E a \in Live, n \in Sizes : mem_realloc_known(a, n)
    BY <2>4 DEF mem_realloc_known, Live, H!Live
  <2>5. CASE \E a \in Live \cup {NULL} : mem_free(a)
    BY <2>5 DEF mem_free, Live, H!Live
  <2>6. CASE \E a \in Live, t \in Tags : Store(a, t)
    BY <2>6 DEF Store, Live, H!Live
  <2>7. CASE UNCHANGED vars
    BY <2>1, <2>7 DEF vars
  <2>8. QED
    BY <2>1, <2>2, <2>3, <2>4, <2>5, <2>6, <2>7 DEF Next
<1>3. IInv /\ CInv => TypeOK
  BY DEF IInv, TableOK, TableType, PoolType, TypeOK
<1>4. QED
  BY <1>1, <1>2, <1>3, Invariance, PTL DEF Spec

(* A slot in use always names a live block with its size, however many     *)
(* blocks the table could not record.                                      *)
THEOREM SlotsAreRight == Spec => []SlotsNameLiveBlocks
<1>1. IInv => SlotsNameLiveBlocks
  BY DEF IInv, TableOK, NamesLive, SlotsNameLiveBlocks, Live
<1>2. QED
  BY <1>1, Invariance, PTL

(* No block is ever recorded in two slots.                                 *)
THEOREM RecordedOnce == Spec => []NoBlockTwice
<1>1. IInv => NoBlockTwice
  BY DEF IInv, TableOK, Distinct, NoBlockTwice
<1>2. QED
  BY <1>1, Invariance, PTL

-----------------------------------------------------------------------------
(* What a block holds fits into it.                                        *)
Fits(p) == \A a \in Addrs : p[a].len <= p[a].size

FInv == IInv /\ Fits(pool)

LEMMA MovedFits ==
  ASSUME NEW n \in Sizes, NEW b \in H!Block, NEW c \in Nat, c <= n
  PROVE  H!Moved(b, n, c).len <= n
BY MmanAssumption DEF H!Moved, H!Fresh, H!Smaller, H!Block

LEMMA AllocFits ==
  ASSUME FInv, NEW n \in Sizes, hand_out(n)
  PROVE  Fits(pool')
<1>1. PICK a \in AllocatePool : IF a = NULL THEN UNCHANGED pool
                                ELSE pool' = [pool EXCEPT ![a] = H!Fresh(n)]
  BY DEF hand_out
<1>2. H!Fresh(n).len <= H!Fresh(n).size
  BY MmanAssumption DEF H!Fresh
<1>3. QED
  BY <1>1, <1>2 DEF FInv, IInv, TableOK, PoolType, Fits

LEMMA ReallocFits ==
  ASSUME FInv, NEW addr \in Live, NEW n \in Sizes, mem_realloc_known(addr, n)
  PROVE  Fits(pool')
<1> DEFINE i == find_alloc(allocation_list, addr)
           copy_size == H!Smaller(allocation_list[i].size, n)
           b == H!Moved(pool[addr], n, copy_size)
<1>1. PICK a \in AllocatePool :
        IF a = NULL
          THEN UNCHANGED pool
          ELSE \E left \in FreePool(addr) :
                 pool' = [pool EXCEPT ![a] = b, ![addr] = left]
  BY DEF mem_realloc_known
<1>2. /\ pool[addr] \in H!Block
      /\ allocation_list[i].size = pool[addr].size
  BY KnownSize DEF FInv, mem_realloc_known
<1>3. copy_size \in Nat /\ copy_size <= n
  <2>1. allocation_list[i].size \in Nat /\ n \in Nat
    BY <1>2, MmanAssumption DEF H!Block
  <2> HIDE DEF i
  <2>2. QED
    BY <2>1 DEF H!Smaller
<1>4. b.len <= b.size
  BY <1>2, <1>3, MovedFits, NewBlocks
<1>5. CASE a = NULL
  BY <1>1, <1>5 DEF FInv
<1>6. CASE a # NULL
  <2>1. a \in Addrs /\ addr \in Addrs
    BY <1>6, AllocatePoolFresh DEF Live, H!Live
  <2>2. PICK left \in FreePool(addr) : pool' = [pool EXCEPT ![a] = b, ![addr] = left]
    BY <1>1, <1>6
  <2> HIDE DEF b
  <2>3. left.len <= left.size
    BY <2>1 DEF FreePool, H!FreeBlock, FInv, Fits
  <2>4. \A c \in Addrs : pool'[c] = IF c = addr THEN left ELSE IF c = a THEN b ELSE pool[c]
    BY <2>1, <2>2 DEF FInv, IInv, TableOK, PoolType
  <2>5. QED
    BY <1>4, <2>3, <2>4 DEF FInv, Fits
<1>7. QED
  BY <1>5, <1>6

LEMMA NextFInv == FInv /\ [Next]_vars => FInv'
<1>1. SUFFICES ASSUME FInv, [Next]_vars  PROVE Fits(pool')
  BY NextIInv DEF FInv
<1>2. CASE \E n \in Sizes : mem_alloc(n)
  BY <1>1, <1>2, AllocFits DEF mem_alloc
<1>3. CASE \E a \in Live \cup {NULL}, n \in Sizes : mem_realloc_unknown(a, n)
  BY <1>1, <1>3, AllocFits DEF mem_realloc_unknown
<1>4. CASE \E a \in Live, n \in Sizes : mem_realloc_known(a, n)
  BY <1>1, <1>4, ReallocFits
<1>5. CASE \E a \in Live \cup {NULL} : mem_free(a)
  BY <1>1, <1>5 DEF mem_free, FreePool, H!FreeBlock, Live, H!Live,
     FInv, IInv, TableOK, PoolType, Fits
<1>6. CASE \E a \in Live, t \in Tags : Store(a, t)
  <2>1. PICK a \in Live, t \in Tags : Store(a, t)
    BY <1>6
  <2>2. a \in Addrs /\ pool[a] \in H!Block
    BY <1>1 DEF Live, H!Live, FInv, IInv, TableOK, PoolType, H!FreeBlock
  <2>3. pool'[a].len <= pool'[a].size
    <3>1. pool'[a].len = pool[a].size /\ pool'[a].size = pool[a].size /\ pool[a].size \in Nat
      BY <1>1, <2>1, <2>2, MmanAssumption DEF Store, FInv, IInv, TableOK, PoolType, H!Block
    <3>2. QED
      BY <3>1
  <2>4. \A c \in Addrs : c # a => pool'[c] = pool[c]
    BY <1>1, <2>1, <2>2 DEF Store, FInv, IInv, TableOK, PoolType
  <2>5. QED
    BY <1>1, <2>3, <2>4 DEF FInv, Fits
<1>7. CASE UNCHANGED vars
  BY <1>1, <1>7 DEF vars, FInv
<1>8. QED
  BY <1>1, <1>2, <1>3, <1>4, <1>5, <1>6, <1>7 DEF Next

LEMMA InitFInv == Init => FInv
BY InitIInv DEF Init, FInv, Fits, H!FreeBlock

(* No reallocation copies more than the new block holds.                   *)
THEOREM CopiesFit == Spec => []NoOverflow
<1>1. FInv => NoOverflow
  BY DEF FInv, Fits, NoOverflow, Live, H!Live
<1>2. QED
  BY <1>1, InitFInv, NextFInv, PTL DEF Spec

-----------------------------------------------------------------------------
(* The table as a set of known blocks.                                     *)
KnownOf(list) == {a \in Addrs : \E i \in Slots : list[i].addr = a}

(* There is a free slot exactly if fewer blocks are known than there are   *)
(* slots: the slots in use name distinct blocks.                           *)
LEMMA FreeSlotCount ==
  ASSUME NEW list, NEW p, TableOK(list, p)
  PROVE  find_alloc(list, NULL) # -1 <=> Cardinality(KnownOf(list)) < MAX_ALLOCATIONS
<1> DEFINE K == KnownOf(list)
           f == [i \in Slots |-> list[i].addr]
<1>1. IsFiniteSet(Slots) /\ Cardinality(Slots) = MAX_ALLOCATIONS
  BY FS_Interval, MmanAssumption DEF Slots
<1>2. \A i \in Slots : list[i].addr \in Addrs \cup {NULL}
  BY DEF TableOK, TableType, Entry
<1>3. CASE find_alloc(list, NULL) = -1
  <2>1. \A i \in Slots : list[i].addr # NULL
    BY <1>3, FindAlloc DEF TableOK, Slots
  <2>2. f \in Bijection(Slots, K)
    BY <1>2, <2>1 DEF Bijection, Injection, Surjection, IsInjective, KnownOf, TableOK, Distinct
  <2>3. ExistsBijection(Slots, K)
    BY <2>2 DEF ExistsBijection
  <2> HIDE DEF f, K
  <2>4. Cardinality(K) = Cardinality(Slots)
    BY <1>1, <2>3, FS_Bijection
  <2>5. QED
    BY <1>1, <1>3, <2>4, MmanAssumption DEF K
<1>4. CASE find_alloc(list, NULL) # -1
  <2>1. PICK z \in Slots : list[z].addr = NULL
    BY <1>4, FindAlloc DEF TableOK
  <2> DEFINE S == Slots \ {z}
             g == [i \in S |-> list[i].addr]
             T == {g[i] : i \in S}
  <2>2. IsFiniteSet(S) /\ Cardinality(S) = MAX_ALLOCATIONS - 1
    BY <1>1, FS_RemoveElement
  <2>3. K \subseteq T
    BY <2>1, MmanAssumption DEF KnownOf
  <2>4. g \in Surjection(S, T)
    BY DEF Surjection
  <2> HIDE DEF g, K, S, T
  <2>5. IsFiniteSet(T) /\ Cardinality(T) <= Cardinality(S)
    BY <2>2, <2>4, FS_Surjection
  <2>6. Cardinality(K) <= Cardinality(T) /\ IsFiniteSet(K)
    BY <2>3, <2>5, FS_Subset
  <2>a. Cardinality(K) \in Nat /\ Cardinality(T) \in Nat /\ MAX_ALLOCATIONS \in Nat
    BY <2>5, <2>6, FS_CardinalityType, MmanAssumption
  <2>7. Cardinality(K) < MAX_ALLOCATIONS
    BY <2>2, <2>5, <2>6, <2>a
  <2>8. QED
    BY <1>4, <2>7 DEF K
<1>5. QED
  BY <1>3, <1>4

(* A new block becomes known if there is a free slot.                      *)
LEMMA AddKnown ==
  ASSUME NEW list, NEW p, TableOK(list, p), NEW a \in Addrs, NEW n
  PROVE  KnownOf(add_alloc(list, a, n)) =
           IF Cardinality(KnownOf(list)) < MAX_ALLOCATIONS THEN KnownOf(list) \cup {a}
           ELSE KnownOf(list)
<1> DEFINE i == find_alloc(list, NULL)
<1>1. CASE i = -1
  BY <1>1, FreeSlotCount DEF add_alloc
<1>2. CASE i # -1
  <2>1. i \in Slots /\ list[i].addr = NULL
    BY <1>2, FindAlloc DEF TableOK
  <2>2. \A j \in Slots : add_alloc(list, a, n)[j]
                           = IF j = i THEN [addr |-> a, size |-> n] ELSE list[j]
    BY <1>2, <2>1 DEF add_alloc, TableOK, TableType
  <2> DEFINE l == add_alloc(list, a, n)
  <2> HIDE DEF i, l
  <2>3. KnownOf(l) = KnownOf(list) \cup {a}
    <3>1. \A j \in Slots : l[j] = IF j = i THEN [addr |-> a, size |-> n] ELSE list[j]
      BY <2>2 DEF l
    <3>2. l[i].addr = a
      BY <2>1, <3>1
    <3>3. \A j \in Slots : j # i => l[j].addr = list[j].addr
      BY <3>1
    <3>4. QED
      BY <2>1, <3>2, <3>3, MmanAssumption DEF KnownOf
  <2>4. QED
    BY <1>2, <2>3, FreeSlotCount DEF i, l
<1>3. QED
  BY <1>1, <1>2

(* A block that is released is no longer known, and no other is forgotten. *)
LEMMA RemoveKnown ==
  ASSUME NEW list, NEW p, TableOK(list, p), NEW a \in Addrs
  PROVE  KnownOf(remove_alloc(list, a)) = KnownOf(list) \ {a}
<1> DEFINE i == find_alloc(list, a)
           l == remove_alloc(list, a)
<1>1. CASE i = -1
  BY <1>1, FindAlloc DEF remove_alloc, KnownOf, TableOK, Slots
<1>2. CASE i # -1
  <2>1. i \in Slots /\ list[i].addr = a
    BY <1>2, FindAlloc DEF TableOK
  <2>2. \A j \in Slots : l[j] = IF j = i THEN Unused ELSE list[j]
    BY <1>2, <2>1 DEF remove_alloc, TableOK, TableType
  <2>3. a # NULL
    BY MmanAssumption
  <2> HIDE DEF i, l
  <2>4. l[i].addr = NULL
    BY <2>1, <2>2 DEF Unused
  <2>5. \A j \in Slots : j # i => l[j].addr = list[j].addr /\ list[j].addr # a
    BY <2>1, <2>2, <2>3 DEF TableOK, Distinct
  <2>6. KnownOf(l) = KnownOf(list) \ {a}
    BY <2>1, <2>3, <2>4, <2>5, MmanAssumption DEF KnownOf
  <2>7. QED
    BY <2>6 DEF l
<1>3. QED
  BY <1>1, <1>2

LEMMA SameCardinality == \A S : H!Cardinality(S) = Cardinality(S)
BY Zenon DEF H!Cardinality, Cardinality

LEMMA KnownIs == Known = KnownOf(allocation_list) /\ Known' = KnownOf(allocation_list')
BY DEF Known, KnownOf

-----------------------------------------------------------------------------
(* Each call is a call of the abstract heap.                               *)
LEMMA AllocImplements ==
  ASSUME IInv, NEW n \in Sizes, hand_out(n)
  PROVE  H!Fail \/ H!HandOut(n)
<1>1. PICK a \in AllocatePool :
        /\ ret' = a
        /\ IF a = NULL
             THEN UNCHANGED <<allocation_list, pool>>
             ELSE /\ pool' = [pool EXCEPT ![a] = H!Fresh(n)]
                  /\ allocation_list' = add_alloc(allocation_list, a, n)
  BY DEF hand_out
<1>2. CASE a = NULL
  BY <1>1, <1>2, KnownIs DEF H!Fail
<1>3. CASE a # NULL
  <2>1. a \in Addrs \ H!Live(pool)
    BY <1>3, AllocatePoolFresh
  <2>2. Known' = H!With(a)
    BY <1>1, <1>3, <2>1, AddKnown, KnownIs, SameCardinality DEF IInv, H!With
  <2>3. QED
    BY <1>1, <1>3, <2>1, <2>2 DEF H!HandOut
<1>4. QED
  BY <1>2, <1>3

LEMMA ReallocImplements ==
  ASSUME FInv, NEW addr \in Live, NEW n \in Sizes, mem_realloc_known(addr, n)
  PROVE  H!Realloc(addr, n)
<1> DEFINE i == find_alloc(allocation_list, addr)
           copy_size == H!Smaller(allocation_list[i].size, n)
<1>1. PICK a \in AllocatePool :
        /\ ret' = a
        /\ IF a = NULL
             THEN UNCHANGED <<allocation_list, pool>>
             ELSE LET added == add_alloc(allocation_list, a, n)
                  IN \E left \in FreePool(addr) :
                       /\ pool' = [pool EXCEPT ![a] = H!Moved(pool[addr], n, copy_size),
                                               ![addr] = left]
                       /\ allocation_list' = IF left.live THEN added
                                             ELSE remove_alloc(added, addr)
  BY DEF mem_realloc_known
<1>a. call' = <<"realloc", addr>>
  BY DEF mem_realloc_known
<1>2. CASE a = NULL
  BY <1>1, <1>2, <1>a, KnownIs DEF H!Realloc, H!Fail
<1>3. CASE a # NULL
  <2>1. pool[addr] \in H!Block /\ allocation_list[i].size = pool[addr].size
    BY KnownSize DEF FInv, mem_realloc_known
  <2>2. a \in Addrs \ H!Live(pool) /\ addr \in H!Live(pool) /\ addr \in Addrs
    BY <1>3, AllocatePoolFresh DEF Live, H!Live
  <2>a. addr \in Known
    <3>1. i \in Slots /\ allocation_list[i].addr = addr
      BY FindAlloc DEF mem_realloc_known, FInv, IInv, TableOK
    <3>2. QED
      BY <2>2, <3>1 DEF Known
  <2> DEFINE added == add_alloc(allocation_list, a, n)
  <2>3. PICK left \in FreePool(addr) :
          /\ pool' = [pool EXCEPT ![a] = H!Moved(pool[addr], n, copy_size), ![addr] = left]
          /\ allocation_list' = IF left.live THEN added ELSE remove_alloc(added, addr)
    BY <1>1, <1>3
  <2>b. KnownOf(added) = H!With(a)
    BY <2>2, AddKnown, KnownIs, SameCardinality DEF FInv, IInv, H!With
  <2>c. KnownOf(remove_alloc(added, addr)) = H!With(a) \ {addr}
    <3>1. TableOK(added, [pool EXCEPT ![a] = H!Fresh(n)])
      BY <2>2, AddKeeps, NewBlocks DEF FInv, IInv
    <3> HIDE DEF added
    <3>2. QED
      BY <2>2, <2>b, <3>1, RemoveKnown
  <2>4. pool[addr].len <= pool[addr].size
    BY <2>2 DEF FInv, Fits
  <2>5. H!Smaller(pool[addr].len, copy_size) = H!Smaller(pool[addr].len, n)
    <3>1. /\ pool[addr].len \in Nat /\ allocation_list[i].size \in Nat /\ n \in Nat
          /\ pool[addr].len <= allocation_list[i].size
      BY <2>1, <2>4, MmanAssumption DEF H!Block
    <3> HIDE DEF i
    <3>2. QED
      BY <3>1 DEF H!Smaller
  <2>6. H!Moved(pool[addr], n, copy_size) = H!Moved(pool[addr], n, n)
    BY <2>5 DEF H!Moved
  <2> HIDE DEF added
  <2>7. CASE left = pool[addr]
    <3>1. a # addr /\ left.live
      BY <2>2, <2>7 DEF H!Live
    <3>2. [pool EXCEPT ![a] = H!Moved(pool[addr], n, n), ![addr] = left]
            = [pool EXCEPT ![a] = H!Moved(pool[addr], n, n),
                           ![addr] = IF TRUE THEN @ ELSE H!FreeBlock]
      BY <2>2, <2>7, <3>1 DEF FInv, IInv, TableOK, PoolType, H!Live
    <3>3. Known' = H!With(a)
      BY <2>3, <2>b, <3>1, KnownIs
    <3>4. H!Move(addr, n)
      BY <1>1, <2>2, <2>3, <2>6, <3>2, <3>3 DEF H!Move
    <3>5. QED
      BY <1>a, <2>a, <3>4 DEF H!Realloc
  <2>8. CASE left = H!FreeBlock
    <3>1. pool' = [pool EXCEPT ![a] = H!Moved(pool[addr], n, n),
                               ![addr] = IF FALSE THEN @ ELSE H!FreeBlock]
      BY <2>3, <2>6, <2>8
    <3>2. Known' = H!With(a) \ {addr}
      BY <2>3, <2>8, <2>c, KnownIs DEF H!FreeBlock
    <3>3. H!Move(addr, n)
      BY <1>1, <2>2, <3>1, <3>2 DEF H!Move
    <3>4. QED
      BY <1>a, <2>a, <3>3 DEF H!Realloc
  <2>9. QED
    BY <2>3, <2>7, <2>8 DEF FreePool
<1>4. QED
  BY <1>2, <1>3

LEMMA UnknownImplements ==
  ASSUME IInv, NEW addr \in Live \cup {NULL}, NEW n \in Sizes, mem_realloc_unknown(addr, n)
  PROVE  H!Realloc(addr, n)
<1>1. addr \notin Known
  <2>1. CASE addr = NULL
    BY <2>1, MmanAssumption DEF Known
  <2>2. CASE addr # NULL
    BY <2>2, FindAlloc DEF mem_realloc_unknown, IInv, TableOK, Known, Slots
  <2>3. QED
    BY <2>1, <2>2
<1>2. H!Fail \/ H!HandOut(n)
  BY AllocImplements DEF mem_realloc_unknown
<1>3. QED
  BY <1>1, <1>2 DEF H!Realloc, mem_realloc_unknown

LEMMA FreeImplements ==
  ASSUME IInv, NEW addr \in Live \cup {NULL}, mem_free(addr)
  PROVE  H!Free(addr)
<1>1. CASE addr = NULL
  BY <1>1, KnownIs DEF mem_free, H!Free, H!Fail
<1>2. CASE addr # NULL
  <2>1. addr \in H!Live(pool) /\ addr \in Addrs
    BY <1>2 DEF Live, H!Live
  <2>2. PICK left \in FreePool(addr) :
          /\ pool' = [pool EXCEPT ![addr] = left]
          /\ allocation_list' = IF left.live THEN allocation_list
                                ELSE remove_alloc(allocation_list, addr)
    BY <1>2 DEF mem_free
  <2>3. CASE left = pool[addr]
    <3>1. pool' = pool
      BY <2>1, <2>2, <2>3 DEF IInv, TableOK, PoolType, H!Live
    <3>2. allocation_list' = allocation_list
      BY <2>1, <2>2, <2>3 DEF H!Live
    <3>3. QED
      BY <3>1, <3>2, KnownIs DEF mem_free, H!Free, H!Fail
  <2>4. CASE left = H!FreeBlock
    <3>1. allocation_list' = remove_alloc(allocation_list, addr)
      BY <2>2, <2>4 DEF H!FreeBlock
    <3>2. Known' = Known \ {addr}
      BY <2>1, <3>1, RemoveKnown, KnownIs DEF IInv
    <3>3. QED
      BY <2>1, <2>2, <2>4, <3>2 DEF mem_free, H!Free
  <2>5. QED
    BY <2>2, <2>3, <2>4 DEF FreePool
<1>3. QED
  BY <1>1, <1>2

(* mem_alloc(), mem_realloc() and mem_free() implement the abstract heap,  *)
(* for every number of blocks and slots.                                   *)
THEOREM Implements == Spec => HeapSpec
<1>1. Init => H!HeapInit
  BY MmanAssumption DEF Init, H!HeapInit, Known, Unused
<1>2. FInv /\ [Next]_vars => [H!HeapNext]_H!heapVars
  <2>1. SUFFICES ASSUME FInv, [Next]_vars  PROVE [H!HeapNext]_H!heapVars
    OBVIOUS
  <2>2. CASE \E n \in Sizes : mem_alloc(n)
    BY <2>1, <2>2, AllocImplements DEF FInv, mem_alloc, H!Alloc, H!HeapNext
  <2>3. CASE \E a \in Live \cup {NULL}, n \in Sizes : mem_realloc_unknown(a, n)
    BY <2>1, <2>3, UnknownImplements DEF FInv, Live, H!HeapNext
  <2>4. CASE \E a \in Live, n \in Sizes : mem_realloc_known(a, n)
    BY <2>1, <2>4, ReallocImplements DEF Live, H!HeapNext
  <2>5. CASE \E a \in Live \cup {NULL} : mem_free(a)
    BY <2>1, <2>5, FreeImplements DEF FInv, Live, H!HeapNext
  <2>6. CASE \E a \in Live, t \in Tags : Store(a, t)
    BY <2>6, KnownIs DEF Store, Live, H!HeapNext, H!Store
  <2>7. CASE UNCHANGED vars
    BY <2>7, KnownIs DEF vars, H!heapVars
  <2>8. QED
    BY <2>1, <2>2, <2>3, <2>4, <2>5, <2>6, <2>7 DEF Next
<1>3. QED
  BY <1>1, <1>2, InitFInv, NextFInv, PTL DEF Spec, HeapSpec, H!HeapSpec
=============================================================================
