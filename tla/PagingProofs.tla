---------------------------- MODULE PagingProofs ----------------------------
(***************************************************************************)
(* Proofs about Paging for any number of levels and entries, any memory    *)
(* and pool of blocks that begin at pages, and any calls of map_pages():   *)
(* the tables implement the abstract address space of AddressSpace.        *)
(***************************************************************************)
EXTENDS Paging, WellFoundedInduction, TLAPS

-----------------------------------------------------------------------------
(* Induction on the naturals, for sets.                                    *)
LEMMA SetInduction ==
  ASSUME NEW T, 0 \in T, \A n \in Nat : n \in T => n + 1 \in T
  PROVE  Nat \subseteq T
<1> DEFINE R == Nat \ T
<1>1. SUFFICES ASSUME R # {}  PROVE FALSE
  OBVIOUS
<1>2. PICK m \in R : \A n \in R : <<n, m>> \notin OpToRel(<, Nat)
  <2> HIDE DEF R
  <2>1. R \subseteq Nat
    BY DEF R
  <2>2. QED
    BY <1>1, <2>1, NatLessThanWellFounded, WFMin
<1>3. m # 0 /\ m - 1 \in Nat /\ m - 1 < m
  OBVIOUS
<1>4. <<m - 1, m>> \in OpToRel(<, Nat)
  BY <1>3 DEF OpToRel
<1>5. m - 1 \in T
  BY <1>2, <1>3, <1>4, Zenon
<1>6. QED
  BY <1>3, <1>5

-----------------------------------------------------------------------------
(* Addresses.                                                              *)

(* Quotient and remainder.                                                 *)
LEMMA DivisionOfInt == \A n, d \in Int : d > 0 => n = d * (n \div d) + (n % d)
OBVIOUS

LEMMA Division ==
  ASSUME NEW n \in Nat, NEW d \in Nat \ {0}
  PROVE  /\ n \div d \in Nat /\ n % d \in 0 .. d - 1
         /\ n = d * (n \div d) + (n % d)
<1>1. n \div d \in Nat /\ n % d \in 0 .. d - 1
  OBVIOUS
<1>2. n = d * (n \div d) + (n % d)
  BY DivisionOfInt
<1>3. QED
  BY <1>1, <1>2

LEMMA SameParts ==
  ASSUME NEW n \in Nat, NEW m \in Nat, NEW d \in Nat \ {0},
         n \div d = m \div d, n % d = m % d
  PROVE  n = m
<1>1. n = d * (n \div d) + (n % d)
  BY DivisionOfInt
<1>2. m = d * (m \div d) + (m % d)
  BY DivisionOfInt
<1>3. QED
  BY <1>1, <1>2, Zenon

LEMMA Quotient ==
  ASSUME NEW n \in Nat, NEW d \in Nat \ {0}, NEW q \in Nat, NEW r \in 0 .. d - 1,
         n = d * q + r
  PROVE  n \div d = q /\ n % d = r
OBVIOUS

(* Dividing twice is dividing by the product.                              *)
LEMMA DivideTwice ==
  ASSUME NEW n \in Nat, NEW d \in Nat \ {0}, NEW f \in Nat \ {0}
  PROVE  (n \div d) \div f = n \div (d * f)
<1> DEFINE q == n \div d
           r == n % d
           p == q \div f
           s == q % f
<1>1. q \in Nat /\ r \in 0 .. d - 1 /\ n = d * q + r
  BY Division
<1>2. p \in Nat /\ s \in 0 .. f - 1 /\ q = f * p + s
  BY <1>1, Division
<1> HIDE DEF p, q, r, s
<1>3. n = (d * f) * p + (d * s + r)
  <2>1. d * q = d * (f * p) + d * s
    BY <1>1, <1>2
  <2>2. d * (f * p) = (d * f) * p
    BY <1>1, <1>2
  <2>3. d * f \in Nat /\ d * s \in Nat /\ (d * f) * p \in Nat
    BY <1>1, <1>2
  <2>4. QED
    BY <1>1, <2>1, <2>2, <2>3
<1>4. d * s + r \in 0 .. (d * f) - 1 /\ d * f \in Nat \ {0}
  <2>1. d * s \in Nat /\ d * s <= d * (f - 1)
    BY <1>2
  <2>2. d * (f - 1) = d * f - d /\ d * f \in Nat
    OBVIOUS
  <2>3. d * f > 0
    OBVIOUS
  <2>4. QED
    BY <1>1, <2>1, <2>2, <2>3
<1>5. n \div (d * f) = p
  <2> DEFINE m == d * f
             u == d * s + r
  <2> HIDE DEF m, u
  <2>1. m \in Nat \ {0} /\ u \in 0 .. m - 1 /\ n = m * p + u
    BY <1>3, <1>4 DEF m, u
  <2>2. n \div m = p
    BY <1>2, <2>1, Quotient
  <2>3. QED
    BY <2>2 DEF m
<1>6. QED
  BY <1>5 DEF p, q

(* What the levels below an entry hold.                                    *)
LEMMA SpanIs ==
  /\ \A k \in 0 .. Levels : Span[k] \in Nat \ {0}
  /\ \A k \in 0 .. Levels - 1 : Span[k + 1] = Span[k] * Fanout
<1> DEFINE T == {k \in Nat : k <= Levels => Span[k] \in Nat \ {0}}
<1>1. \A k \in 0 .. Levels - 1 : Span[k + 1] = Span[k] * Fanout
  BY PagingAssumption
<1>2. 0 \in T
  BY PagingAssumption
<1>3. ASSUME NEW n \in Nat, n \in T  PROVE n + 1 \in T
  <2>1. SUFFICES ASSUME n + 1 <= Levels  PROVE Span[n + 1] \in Nat \ {0}
    OBVIOUS
  <2>2. Span[n] \in Nat \ {0} /\ Span[n + 1] = Span[n] * Fanout
    BY <1>1, <1>3, <2>1, PagingAssumption
  <2>3. QED
    BY <2>2, PagingAssumption
<1>4. Nat \subseteq T
  <2> HIDE DEF T
  <2> QED  BY <1>2, <1>3, SetInduction
<1>5. QED
  BY <1>1, <1>4, PagingAssumption

(* The table at level l on the way to page v is chosen by the indices of   *)
(* the levels above it.                                                    *)
Prefix(v, l) == v \div Span[Levels - l + 1]

LEMMA IndexIs ==
  ASSUME NEW v \in Nat, NEW l \in 1 .. Levels
  PROVE  Index(v, l) \in 0 .. Fanout - 1 /\ Index(v, l) \in Nat
<1>1. Levels - l \in 0 .. Levels /\ Span[Levels - l] \in Nat \ {0}
  BY SpanIs, PagingAssumption
<1> DEFINE q == v \div Span[Levels - l]
<1>2. q \in Nat
  BY <1>1, Division
<1>3. q % Fanout \in 0 .. Fanout - 1
  <2> HIDE DEF q
  <2> QED  BY <1>2, Division, PagingAssumption
<1>4. QED
  BY <1>3, PagingAssumption DEF Index

LEMMA PrefixOfRoot ==
  ASSUME NEW v \in Virts
  PROVE  Prefix(v, 1) = 0
<1>1. Span[Levels] \in Nat \ {0} /\ v \in 0 .. Span[Levels] - 1
  BY SpanIs, PagingAssumption DEF Virts
<1>2. v = Span[Levels] * 0 + v
  BY <1>1
<1>3. v \div Span[Levels] = 0
  BY <1>1, <1>2, Quotient
<1>4. QED
  BY <1>3, PagingAssumption DEF Prefix

LEMMA PrefixBelow ==
  ASSUME NEW v \in Nat, NEW w \in Nat, NEW l \in 1 .. Levels - 1,
         Prefix(v, l) = Prefix(w, l), Index(v, l) = Index(w, l)
  PROVE  Prefix(v, l + 1) = Prefix(w, l + 1)
<1> DEFINE s == Span[Levels - l]
           a == v \div s
           b == w \div s
<1>1. s \in Nat \ {0} /\ Fanout \in Nat \ {0} /\ Span[Levels - l + 1] = s * Fanout
  <2>1. Levels - l \in 0 .. Levels - 1
    BY PagingAssumption
  <2>2. Span[(Levels - l) + 1] = Span[Levels - l] * Fanout
    BY <2>1, SpanIs, Zenon
  <2>3. QED
    BY <2>1, <2>2, SpanIs, PagingAssumption
<1>2. a \in Nat /\ b \in Nat
  BY <1>1, Division
<1>3. a \div Fanout = b \div Fanout
  BY <1>1, DivideTwice DEF Prefix
<1>4. a % Fanout = b % Fanout
  BY DEF Index
<1>5. a = b
  <2> HIDE DEF a, b, s
  <2>1. QED
    BY <1>1, <1>2, <1>3, <1>4, SameParts
<1>6. Levels - (l + 1) + 1 = Levels - l
  BY PagingAssumption
<1>7. QED
  BY <1>5, <1>6 DEF Prefix

(* All indices together tell pages apart.                                  *)
LEMMA PageIs ==
  ASSUME NEW v \in Nat, NEW w \in Nat,
         Prefix(v, Levels) = Prefix(w, Levels), Index(v, Levels) = Index(w, Levels)
  PROVE  v = w
<1>1. Span[1] = Fanout /\ Span[0] = 1 /\ Levels - Levels + 1 = 1 /\ Levels - Levels = 0
  BY SpanIs, PagingAssumption
<1>2. v \div 1 = v /\ w \div 1 = w
  OBVIOUS
<1>3. v \div Fanout = w \div Fanout /\ v % Fanout = w % Fanout
  BY <1>1, <1>2 DEF Prefix, Index
<1>4. QED
  BY <1>3, SameParts, PagingAssumption

(* The beginning of the page.                                              *)
LEMMA RoundedDown ==
  ASSUME NEW n \in Nat
  PROVE  RoundDown(n) \in Nat /\ (n % Fanout = 0 => RoundDown(n) = n)
<1>1. Fanout \in Nat \ {0}
  BY PagingAssumption
<1> DEFINE q == n \div Fanout
           r == n % Fanout
<1>2. q \in Nat /\ r \in Nat /\ n = Fanout * q + r
  BY <1>1, Division
<1> HIDE DEF q, r
<1>3. n - r \in Nat /\ (r = 0 => n - r = n)
  <2>1. Fanout * q \in Nat
    BY <1>1, <1>2
  <2>2. QED
    BY <1>2, <2>1
<1>4. QED
  BY <1>3 DEF RoundDown, r

(* Blocks that begin at a page share a cell only if they are one.          *)
LEMMA CellOfOne ==
  ASSUME NEW a \in Nat, NEW b \in Nat, a % Fanout = 0, b % Fanout = 0,
         NEW x \in 0 .. Fanout - 1, NEW y \in 0 .. Fanout - 1, a + x = b + y
  PROVE  a = b /\ x = y
<1>1. Fanout \in Nat \ {0}
  BY PagingAssumption
<1>2. /\ a \div Fanout \in Nat /\ a = Fanout * (a \div Fanout)
      /\ b \div Fanout \in Nat /\ b = Fanout * (b \div Fanout)
  BY <1>1, Division
<1>3. (a + x) \div Fanout = a \div Fanout /\ (b + y) \div Fanout = b \div Fanout
  BY <1>1, <1>2, Quotient
<1>4. QED
  BY <1>2, <1>3

-----------------------------------------------------------------------------
(* The walk of the processor, one level at a time.                         *)
Below(m, v, up, l) ==
  LET e == Cell(m, up + Index(v, l))
  IN  IF up # None /\ Present(e) THEN RoundDown(e.to) ELSE None

(* The recursive definition of TableAt has a solution.                     *)
LEMMA WalkExists ==
  ASSUME NEW m, NEW v
  PROVE  \E t : t = [l \in 1 .. Levels |->
                       IF l = 1 THEN root ELSE Below(m, v, t[l - 1], l - 1)]
<1> DEFINE Walk(t, n) == t = [l \in 1 .. n |->
                                IF l = 1 THEN root ELSE Below(m, v, t[l - 1], l - 1)]
           T == {n \in Nat : \E t : Walk(t, n)}
<1>1. 0 \in T
  <2>1. Walk([l \in 1 .. 0 |-> root], 0)
    OBVIOUS
  <2>2. QED
    BY <2>1
<1>2. ASSUME NEW n \in Nat, n \in T  PROVE n + 1 \in T
  <2>1. PICK t : Walk(t, n)
    BY <1>2
  <2> DEFINE new == IF n + 1 = 1 THEN root ELSE Below(m, v, t[n], n)
             u == [l \in 1 .. n + 1 |-> IF l = n + 1 THEN new ELSE t[l]]
  <2> HIDE DEF new
  <2>2. \A l \in 1 .. n : t[l] = IF l = 1 THEN root ELSE Below(m, v, t[l - 1], l - 1)
    BY <2>1
  <2>3. \A l \in 1 .. n + 1 :
          u[l] = IF l = 1 THEN root ELSE Below(m, v, u[l - 1], l - 1)
    <3>1. SUFFICES ASSUME NEW l \in 1 .. n + 1
                   PROVE  u[l] = IF l = 1 THEN root ELSE Below(m, v, u[l - 1], l - 1)
      OBVIOUS
    <3>2. l # 1 => u[l - 1] = t[l - 1]
      OBVIOUS
    <3>3. CASE l = n + 1
      BY <3>2, <3>3 DEF new
    <3>4. CASE l \in 1 .. n
      BY <2>2, <3>2, <3>4
    <3>5. QED
      BY <3>3, <3>4
  <2>4. Walk(u, n + 1)
    <3> DEFINE w == [l \in 1 .. n + 1 |->
                       IF l = 1 THEN root ELSE Below(m, v, u[l - 1], l - 1)]
    <3>1. \A l \in 1 .. n + 1 : u[l] = w[l]
      BY <2>3
    <3>2. u = w
      BY <3>1
    <3>3. QED
      BY <3>2
  <2>5. \E s : Walk(s, n + 1)
    <3> HIDE DEF u, Walk
    <3> QED  BY <2>4
  <2>6. QED
    BY <2>5
<1>3. Nat \subseteq T
  <2> HIDE DEF T
  <2> QED  BY <1>1, <1>2, SetInduction
<1>4. Levels \in T
  BY <1>3, PagingAssumption
<1>5. QED
  BY <1>4

LEMMA TableAtIs ==
  ASSUME NEW m, NEW v
  PROVE  /\ TableAt(m, v, 1) = root
         /\ \A l \in 1 .. Levels - 1 :
              TableAt(m, v, l + 1) = Below(m, v, TableAt(m, v, l), l)
<1> DEFINE Def(t) == [l \in 1 .. Levels |->
                        IF l = 1 THEN root ELSE Below(m, v, t[l - 1], l - 1)]
           t0 == CHOOSE t : t = Def(t)
<1>1. \E t : t = Def(t)
  BY WalkExists
<1>2. t0 = Def(t0)
  BY <1>1
<1>3. \A n : TableAt(m, v, n) = t0[n]
  BY DEF TableAt, Below
<1> HIDE DEF t0
<1>4. \A l \in 1 .. Levels : t0[l] = IF l = 1 THEN root ELSE Below(m, v, t0[l - 1], l - 1)
  BY <1>2
<1>5. t0[1] = root
  BY <1>4, PagingAssumption
<1>6. ASSUME NEW l \in 1 .. Levels - 1
      PROVE  t0[l + 1] = Below(m, v, t0[l], l)
  <2>1. l + 1 \in 1 .. Levels /\ l + 1 # 1 /\ (l + 1) - 1 = l
    BY PagingAssumption
  <2>2. t0[l + 1] = Below(m, v, t0[(l + 1) - 1], (l + 1) - 1)
    BY <1>4, <2>1
  <2>3. QED
    BY <2>1, <2>2
<1>7. QED
  BY <1>3, <1>5, <1>6, Zenon
-----------------------------------------------------------------------------
(* Every table is the root or a block in use, and is reached at one level  *)
(* and by one choice of the indices above it.                              *)
Tables(m, U) ==
  \A v \in Virts, l \in 1 .. Levels : TableAt(m, v, l) \in U \union {root, None}

OneWay(m) ==
  \A v, w \in Virts, l, k \in 1 .. Levels :
    TableAt(m, v, l) # None /\ TableAt(m, v, l) = TableAt(m, w, k) =>
      l = k /\ Prefix(v, l) = Prefix(w, l)

Aligned(U) == U \subseteq Pool /\ \A a \in U : a % Fanout = 0

(* The cell that the walk reads lies in the block of its table.            *)
LEMMA CellOfTable ==
  ASSUME NEW m, NEW U, Aligned(U), Tables(m, U),
         NEW v \in Virts, NEW l \in 1 .. Levels, TableAt(m, v, l) # None
  PROVE  /\ TableAt(m, v, l) \in Nat /\ TableAt(m, v, l) % Fanout = 0
         /\ TableAt(m, v, l) \in U \union {root}
         /\ TableAt(m, v, l) + Index(v, l) \in Block(TableAt(m, v, l))
         /\ TableAt(m, v, l) + Index(v, l) \in Memory
         /\ Cell(m, TableAt(m, v, l) + Index(v, l)) = m[TableAt(m, v, l) + Index(v, l)]
<1> DEFINE t == TableAt(m, v, l)
           i == Index(v, l)
<1>1. t \in U \union {root} /\ t # None
  BY DEF Tables
<1>2. v \in Nat
  BY SpanIs, PagingAssumption DEF Virts
<1>3. i \in 0 .. Fanout - 1
  BY <1>2, IndexIs
<1> HIDE DEF t, i
<1>4. t \in Nat /\ t % Fanout = 0 /\ t .. t + Fanout - 1 \subseteq Memory
  <2>1. CASE t \in U
    BY <2>1, PagingAssumption DEF Aligned
  <2>2. CASE t = root
    BY <2>2, PagingAssumption DEF root
  <2>3. QED
    BY <1>1, <2>1, <2>2
<1>5. t + i \in Block(t)
  BY <1>3, <1>4, PagingAssumption DEF Block
<1>6. t + i \in Memory
  BY <1>4, <1>5 DEF Block
<1>7. Cell(m, t + i) = m[t + i]
  BY <1>6 DEF Cell
<1>8. QED
  BY <1>1, <1>4, <1>5, <1>6, <1>7 DEF t, i

(* Two walks read one cell only at one level, and then take the same way.  *)
LEMMA SameCell ==
  ASSUME NEW m, NEW U, Aligned(U), Tables(m, U), OneWay(m),
         NEW v \in Virts, NEW l \in 1 .. Levels, TableAt(m, v, l) # None,
         NEW w \in Virts, NEW k \in 1 .. Levels, TableAt(m, w, k) # None,
         TableAt(m, v, l) + Index(v, l) = TableAt(m, w, k) + Index(w, k)
  PROVE  /\ l = k /\ TableAt(m, v, l) = TableAt(m, w, k)
         /\ l < Levels => Prefix(v, l + 1) = Prefix(w, l + 1)
         /\ l = Levels => v = w
<1>1. v \in Nat /\ w \in Nat
  BY SpanIs, PagingAssumption DEF Virts
<1>2. /\ TableAt(m, v, l) \in Nat /\ TableAt(m, v, l) % Fanout = 0
      /\ TableAt(m, w, k) \in Nat /\ TableAt(m, w, k) % Fanout = 0
  BY CellOfTable
<1>3. Index(v, l) \in 0 .. Fanout - 1 /\ Index(w, k) \in 0 .. Fanout - 1
  BY <1>1, IndexIs
<1>4. TableAt(m, v, l) = TableAt(m, w, k) /\ Index(v, l) = Index(w, k)
  BY <1>2, <1>3, CellOfOne
<1>5. l = k /\ Prefix(v, l) = Prefix(w, l)
  BY <1>4 DEF OneWay
<1>6. l < Levels => Prefix(v, l + 1) = Prefix(w, l + 1)
  <2>1. l < Levels => l \in 1 .. Levels - 1
    BY PagingAssumption
  <2>2. QED
    BY <1>1, <1>4, <1>5, <2>1, PrefixBelow
<1>7. l = Levels => v = w
  BY <1>1, <1>4, <1>5, PageIs
<1>8. QED
  BY <1>4, <1>5, <1>6, <1>7

(* Memory in which the walk finds the root empty maps nothing.             *)
LEMMA NothingMapped ==
  ASSUME NEW m, \A c \in Block(root) : m[c] = Empty, NEW v \in Virts
  PROVE  /\ \A l \in 1 .. Levels : TableAt(m, v, l) = IF l = 1 THEN root ELSE None
         /\ Lookup(m, v) = Empty
<1> DEFINE T == {n \in Nat : n \in 1 .. Levels =>
                               TableAt(m, v, n) = IF n = 1 THEN root ELSE None}
<1>1. v \in Nat
  BY SpanIs, PagingAssumption DEF Virts
<1>2. ASSUME NEW l \in 1 .. Levels
      PROVE  Cell(m, root + Index(v, l)) = Empty
  <2>1. Index(v, l) \in 0 .. Fanout - 1
    BY <1>1, IndexIs
  <2>2. root + Index(v, l) \in Block(root) /\ root + Index(v, l) \in Memory
    <3>1. Fanout \in Nat /\ root = 0 /\ Block(root) \subseteq Memory
      BY PagingAssumption DEF root, Block
    <3>2. root + Index(v, l) \in Block(root)
      BY <2>1, <3>1 DEF Block
    <3>3. QED
      BY <3>1, <3>2
  <2>3. QED
    BY <2>2 DEF Cell
<1>3. ~ Present(Empty) /\ root # None
  BY DEF Present, Empty, root, None
<1>4. 0 \in T
  OBVIOUS
<1>5. ASSUME NEW n \in Nat, n \in T  PROVE n + 1 \in T
  <2>1. SUFFICES ASSUME n + 1 \in 1 .. Levels
                 PROVE  TableAt(m, v, n + 1) = IF n + 1 = 1 THEN root ELSE None
    OBVIOUS
  <2>2. CASE n = 0
    BY <2>2, TableAtIs
  <2>3. CASE n # 0
    <3>1. n \in 1 .. Levels - 1 /\ n \in 1 .. Levels
      BY <2>1, <2>3, PagingAssumption
    <3>2. TableAt(m, v, n + 1) = Below(m, v, TableAt(m, v, n), n)
      BY <3>1, TableAtIs
    <3>3. TableAt(m, v, n) \in {root, None}
      BY <1>5, <3>1
    <3>4. Below(m, v, TableAt(m, v, n), n) = None
      BY <1>2, <1>3, <3>1, <3>3 DEF Below
    <3>5. QED
      BY <2>3, <3>2, <3>4
  <2>4. QED
    BY <2>2, <2>3
<1>6. Nat \subseteq T
  <2> HIDE DEF T
  <2> QED  BY <1>4, <1>5, SetInduction
<1>7. \A l \in 1 .. Levels : TableAt(m, v, l) = IF l = 1 THEN root ELSE None
  BY <1>6
<1>8. Lookup(m, v) = Empty
  <2>1. Levels \in 1 .. Levels
    BY PagingAssumption
  <2>2. TableAt(m, v, Levels) \in {root, None}
    BY <1>7, <2>1
  <2>3. QED
    BY <1>2, <1>3, <2>1, <2>2 DEF Lookup
<1>9. QED
  BY <1>7, <1>8
-----------------------------------------------------------------------------
(* m2 is m with a new table at block a, entered on the way to page v0 in   *)
(* its table of level l0, where nothing was present.                       *)
Added(m, m2, v0, l0, a) ==
  m2 = [[c \in Memory |-> IF c \in Block(a) THEN Empty ELSE m[c]]
          EXCEPT ![TableAt(m, v0, l0) + Index(v0, l0)] =
                    [to |-> a, flags |-> {"present", "writable"}]]

CanAdd(m, U, v0, l0, a) ==
  /\ Aligned(U) /\ Tables(m, U) /\ OneWay(m)
  /\ v0 \in Virts /\ l0 \in 1 .. Levels - 1 /\ TableAt(m, v0, l0) # None
  /\ ~ Present(m[TableAt(m, v0, l0) + Index(v0, l0)])
  /\ a \in Pool /\ a % Fanout = 0 /\ \A b \in U \union {root} : Block(a) \cap Block(b) = {}

(* The table found at level l on the way to page v is as before, or it is  *)
(* the new one.                                                            *)
Grown(m, m2, v0, l0, a, v, l) ==
  \/ TableAt(m2, v, l) = TableAt(m, v, l)
  \/ /\ TableAt(m, v, l) = None /\ TableAt(m2, v, l) = a
     /\ l = l0 + 1 /\ Prefix(v, l) = Prefix(v0, l)

(* The new table is found where it was entered, and all others as before.  *)
LEMMA Growing ==
  ASSUME NEW m, NEW m2, NEW U, NEW v0, NEW l0, NEW a,
         CanAdd(m, U, v0, l0, a), Added(m, m2, v0, l0, a)
  PROVE  /\ \A v \in Virts, l \in 1 .. Levels : Grown(m, m2, v0, l0, a, v, l)
         /\ TableAt(m2, v0, l0 + 1) = a
         /\ \A v \in Virts : Lookup(m2, v) = Lookup(m, v)
<1> DEFINE Same(v, l) == TableAt(m2, v, l) = TableAt(m, v, l)
           New(v, l) == /\ TableAt(m, v, l) = None /\ TableAt(m2, v, l) = a
                        /\ l = l0 + 1 /\ Prefix(v, l) = Prefix(v0, l)
           s0 == TableAt(m, v0, l0) + Index(v0, l0)
           entry == [to |-> a, flags |-> {"present", "writable"}]
<1>0. /\ Aligned(U) /\ Tables(m, U) /\ OneWay(m)
      /\ v0 \in Virts /\ l0 \in 1 .. Levels - 1 /\ TableAt(m, v0, l0) # None
      /\ ~ Present(m[TableAt(m, v0, l0) + Index(v0, l0)])
      /\ a \in Pool /\ a % Fanout = 0 /\ \A b \in U \union {root} : Block(a) \cap Block(b) = {}
  BY DEF CanAdd
<1> USE <1>0
<1>1. l0 \in 1 .. Levels /\ l0 + 1 \in 1 .. Levels /\ l0 < Levels
  BY PagingAssumption
<1>2. a \in Nat /\ a % Fanout = 0 /\ a # None /\ RoundDown(a) = a
  BY PagingAssumption DEF None, RoundDown
<1>3. /\ s0 \in Memory /\ s0 \in Block(TableAt(m, v0, l0)) /\ s0 \notin Block(a)
      /\ m2[s0] = entry /\ Cell(m, s0) = m[s0] /\ Cell(m2, s0) = entry
  <2>1. /\ s0 \in Memory /\ s0 \in Block(TableAt(m, v0, l0))
        /\ TableAt(m, v0, l0) \in U \union {root} /\ Cell(m, s0) = m[s0]
    BY <1>1, CellOfTable
  <2> HIDE DEF s0
  <2>2. m2[s0] = entry
    BY <2>1 DEF Added, s0
  <2>3. QED
    BY <2>1, <2>2 DEF Cell
(* An entry of the new table is clear.                                     *)
<1>4. ASSUME NEW v \in Virts, NEW l \in 1 .. Levels
      PROVE  ~ Present(Cell(m2, a + Index(v, l)))
  <2>1. v \in Nat
    BY SpanIs, PagingAssumption DEF Virts
  <2>2. Index(v, l) \in 0 .. Fanout - 1
    BY <2>1, IndexIs
  <2>3. a + Index(v, l) \in Block(a) /\ a + Index(v, l) \in Memory
    <3> DEFINE i == Index(v, l)
    <3>1. a \in Nat /\ i \in 0 .. Fanout - 1 /\ a .. a + Fanout - 1 \subseteq Memory
      BY <2>2, PagingAssumption
    <3> HIDE DEF i
    <3>2. a + i \in a .. a + Fanout - 1
      BY <3>1, PagingAssumption
    <3>3. a + i \in Block(a) /\ a + i \in Memory
      BY <3>1, <3>2 DEF Block
    <3>4. QED
      BY <3>3 DEF i
  <2>4. a + Index(v, l) # s0
    BY <1>3, <2>3
  <2> HIDE DEF s0
  <2>5. m2[a + Index(v, l)] = Empty
    BY <2>3, <2>4 DEF Added, s0
  <2>6. QED
    BY <2>3, <2>5 DEF Cell, Present, Empty
(* An entry of an old table is as before, or is the one that was set.      *)
<1>5. ASSUME NEW v \in Virts, NEW l \in 1 .. Levels, TableAt(m, v, l) # None,
             TableAt(m, v, l) + Index(v, l) # s0
      PROVE  Cell(m2, TableAt(m, v, l) + Index(v, l)) =
             Cell(m, TableAt(m, v, l) + Index(v, l))
  <2> DEFINE c == TableAt(m, v, l) + Index(v, l)
  <2>1. /\ c \in Memory /\ c \in Block(TableAt(m, v, l)) /\ Cell(m, c) = m[c]
        /\ TableAt(m, v, l) \in U \union {root}
    BY <1>5, CellOfTable
  <2>2. c # s0 /\ c \notin Block(a)
    BY <1>5, <2>1
  <2> HIDE DEF c, s0
  <2>3. m2[c] = m[c]
    BY <2>1, <2>2 DEF Added, s0
  <2>4. Cell(m2, c) = Cell(m, c)
    BY <2>1, <2>3 DEF Cell
  <2>5. QED
    BY <2>4 DEF c
<1>6. ~ Present(m[s0]) /\ Present(entry)
  BY DEF Present
<1> HIDE DEF s0
<1>7. ASSUME NEW v \in Virts, NEW l \in 1 .. Levels - 1, Same(v, l) \/ New(v, l)
      PROVE  Same(v, l + 1) \/ New(v, l + 1)
  <2> DEFINE c == TableAt(m, v, l) + Index(v, l)
  <2>1. l \in 1 .. Levels
    BY PagingAssumption
  <2>2. /\ TableAt(m, v, l + 1) = Below(m, v, TableAt(m, v, l), l)
        /\ TableAt(m2, v, l + 1) = Below(m2, v, TableAt(m2, v, l), l)
    BY TableAtIs
  <2>3. CASE TableAt(m, v, l) = None
    <3>1. TableAt(m, v, l + 1) = None
      BY <2>2, <2>3 DEF Below
    <3>2. Below(m2, v, TableAt(m2, v, l), l) = None
      <4>1. CASE TableAt(m2, v, l) = None
        BY <4>1 DEF Below
      <4>2. CASE TableAt(m2, v, l) = a
        BY <1>4, <2>1, <4>2 DEF Below
      <4>3. QED
        BY <1>7, <2>3, <4>1, <4>2
    <3>3. QED
      BY <2>2, <3>1, <3>2
  <2>4. CASE TableAt(m, v, l) # None /\ c # s0
    <3>1. TableAt(m2, v, l) = TableAt(m, v, l)
      BY <1>7, <2>4
    <3>2. Cell(m2, c) = Cell(m, c)
      BY <1>5, <2>1, <2>4
    <3>3. Below(m2, v, TableAt(m, v, l), l) = Below(m, v, TableAt(m, v, l), l)
      BY <3>2 DEF Below
    <3>4. QED
      BY <2>2, <3>1, <3>3
  <2>5. CASE TableAt(m, v, l) # None /\ c = s0
    <3>1. TableAt(m2, v, l) = TableAt(m, v, l)
      BY <1>7, <2>5
    <3>2. l = l0 /\ Prefix(v, l + 1) = Prefix(v0, l0 + 1)
      <4>1. l = l0 /\ (l < Levels => Prefix(v, l + 1) = Prefix(v0, l0 + 1))
        BY <1>1, <2>1, <2>5, SameCell DEF s0
      <4>2. QED
        BY <1>1, <4>1
    <3>3. Below(m, v, TableAt(m, v, l), l) = None
      BY <1>3, <1>6, <2>5 DEF Below
    <3>4. Below(m2, v, TableAt(m2, v, l), l) = a
      <4>1. Cell(m2, TableAt(m2, v, l) + Index(v, l)) = entry
        BY <1>3, <2>5, <3>1
      <4>2. entry.to = a /\ TableAt(m2, v, l) # None
        BY <2>5, <3>1
      <4> HIDE DEF entry
      <4>3. QED
        BY <1>2, <1>6, <4>1, <4>2, Zenon DEF Below
    <3>5. QED
      BY <2>2, <3>2, <3>3, <3>4
  <2>6. QED
    BY <2>3, <2>4, <2>5
<1> DEFINE T == {n \in Nat : n \in 1 .. Levels => \A v \in Virts : Same(v, n) \/ New(v, n)}
<1>8. 0 \in T
  OBVIOUS
<1>9. ASSUME NEW n \in Nat, n \in T  PROVE n + 1 \in T
  <2>1. SUFFICES ASSUME n + 1 \in 1 .. Levels, NEW v \in Virts
                 PROVE  Same(v, n + 1) \/ New(v, n + 1)
    OBVIOUS
  <2>2. CASE n = 0
    <3>1. TableAt(m, v, 1) = root /\ TableAt(m2, v, 1) = root
      BY TableAtIs
    <3>2. QED
      BY <2>2, <3>1
  <2>3. CASE n # 0
    <3>1. n \in 1 .. Levels - 1 /\ n \in 1 .. Levels
      BY <2>1, <2>3, PagingAssumption
    <3>2. Same(v, n) \/ New(v, n)
      BY <1>9, <3>1
    <3> HIDE DEF Same, New
    <3>3. QED
      BY <1>7, <3>1, <3>2
  <2>4. QED
    BY <2>2, <2>3
<1>10. Nat \subseteq T
  <2> HIDE DEF T
  <2> QED  BY <1>8, <1>9, SetInduction
<1>11. \A v \in Virts, l \in 1 .. Levels : Same(v, l) \/ New(v, l)
  <2> HIDE DEF Same, New
  <2> QED  BY <1>10
<1>12. TableAt(m2, v0, l0 + 1) = a
  <2>1. TableAt(m2, v0, l0) = TableAt(m, v0, l0)
    BY <1>1, <1>11
  <2>2. TableAt(m2, v0, l0 + 1) = Below(m2, v0, TableAt(m2, v0, l0), l0)
    BY TableAtIs
  <2>3. Cell(m2, TableAt(m2, v0, l0) + Index(v0, l0)) = entry
    BY <1>3, <2>1 DEF s0
  <2>4. QED
    BY <1>2, <1>6, <2>1, <2>2, <2>3 DEF Below
<1>13. ASSUME NEW v \in Virts  PROVE Lookup(m2, v) = Lookup(m, v)
  <2>1. Levels \in 1 .. Levels
    BY PagingAssumption
  <2>2. CASE TableAt(m, v, Levels) = None
    <3>1. TableAt(m2, v, Levels) \in {None, a}
      BY <1>11, <2>1, <2>2
    <3>2. ~ Present(Cell(m2, a + Index(v, Levels)))
      BY <1>4, <2>1
    <3>3. QED
      BY <2>2, <3>1, <3>2 DEF Lookup
  <2>3. CASE TableAt(m, v, Levels) # None
    <3>1. TableAt(m2, v, Levels) = TableAt(m, v, Levels)
      BY <1>11, <2>1, <2>3
    <3>2. TableAt(m, v, Levels) + Index(v, Levels) # s0
      <4>1. TableAt(m, v, Levels) + Index(v, Levels) = s0 => Levels = l0
        BY <1>1, <2>1, <2>3, SameCell DEF s0
      <4>2. QED
        BY <1>1, <4>1, PagingAssumption
    <3>3. Cell(m2, TableAt(m, v, Levels) + Index(v, Levels)) =
          Cell(m, TableAt(m, v, Levels) + Index(v, Levels))
      BY <1>5, <2>1, <2>3, <3>2
    <3>4. QED
      BY <3>1, <3>3 DEF Lookup
  <2>4. QED
    BY <2>2, <2>3
<1>14. \A v \in Virts, l \in 1 .. Levels : Grown(m, m2, v0, l0, a, v, l)
  BY <1>11 DEF Grown
<1>15. QED
  BY <1>12, <1>13, <1>14, Zenon

(* One way stays one way.                                                  *)
LEMMA WaysOf ==
  ASSUME NEW m, OneWay(m), NEW v \in Virts, NEW w \in Virts,
         NEW l \in 1 .. Levels, NEW k \in 1 .. Levels,
         TableAt(m, v, l) # None, TableAt(m, v, l) = TableAt(m, w, k)
  PROVE  l = k /\ Prefix(v, l) = Prefix(w, l)
BY DEF OneWay

LEMMA ShapeAfterAdding ==
  ASSUME NEW m, NEW m2, NEW U, Tables(m, U), OneWay(m), NEW v0, NEW l0,
         NEW a, a \notin U \union {root, None},
         \A v \in Virts, l \in 1 .. Levels : Grown(m, m2, v0, l0, a, v, l)
  PROVE  Tables(m2, U \union {a}) /\ OneWay(m2)
<1>1. Tables(m2, U \union {a})
  BY DEF Tables, Grown
<1>2. ASSUME NEW v \in Virts, NEW w \in Virts, NEW l \in 1 .. Levels, NEW k \in 1 .. Levels,
             TableAt(m2, v, l) # None, TableAt(m2, v, l) = TableAt(m2, w, k)
      PROVE  l = k /\ Prefix(v, l) = Prefix(w, l)
  <2>1. TableAt(m, v, l) # a /\ TableAt(m, w, k) # a
    BY DEF Tables
  <2>2. Grown(m, m2, v0, l0, a, v, l) /\ Grown(m, m2, v0, l0, a, w, k)
    OBVIOUS
  <2>3. CASE TableAt(m2, v, l) = TableAt(m, v, l)
    <3>1. TableAt(m2, w, k) = TableAt(m, w, k)
      BY <1>2, <2>1, <2>2, <2>3 DEF Grown
    <3>2. TableAt(m, v, l) # None /\ TableAt(m, v, l) = TableAt(m, w, k)
      BY <1>2, <2>3, <3>1
    <3>3. QED
      BY <3>2, WaysOf
  <2>4. CASE TableAt(m2, v, l) # TableAt(m, v, l)
    <3>1. TableAt(m2, w, k) # TableAt(m, w, k)
      BY <1>2, <2>1, <2>2, <2>4 DEF Grown
    <3>2. QED
      BY <2>2, <2>4, <3>1 DEF Grown
  <2>5. QED
    BY <2>3, <2>4
<1>3. QED
  BY <1>1, <1>2 DEF OneWay

-----------------------------------------------------------------------------
(* m2 is m with the entry of page v0 set.                                  *)
Mapped(m, m2, v0, e) ==
  m2 = [m EXCEPT ![TableAt(m, v0, Levels) + Index(v0, Levels)] = e]

CanSet(m, U, v0) ==
  /\ Aligned(U) /\ Tables(m, U) /\ OneWay(m) /\ m = [c \in Memory |-> m[c]]
  /\ v0 \in Virts /\ TableAt(m, v0, Levels) # None

(* No table moves, and no page but the one whose entry was set.            *)
LEMMA Setting ==
  ASSUME NEW m, NEW m2, NEW U, NEW v0, NEW e, CanSet(m, U, v0), Mapped(m, m2, v0, e)
  PROVE  /\ \A v \in Virts, l \in 1 .. Levels : TableAt(m2, v, l) = TableAt(m, v, l)
         /\ \A v \in Virts :
              Lookup(m2, v) = IF v # v0 THEN Lookup(m, v) ELSE IF Present(e) THEN e ELSE Empty
<1> DEFINE s0 == TableAt(m, v0, Levels) + Index(v0, Levels)
           Same(v, l) == TableAt(m2, v, l) = TableAt(m, v, l)
<1> USE DEF CanSet
<1>1. Levels \in 1 .. Levels
  BY PagingAssumption
<1>2. s0 \in Memory
  BY <1>1, CellOfTable
<1>3. Cell(m2, s0) = e
  <2> HIDE DEF s0
  <2>1. m2[s0] = e
    BY <1>2 DEF Mapped, s0
  <2>2. QED
    BY <1>2, <2>1 DEF Cell
<1>4. ASSUME NEW c, c # s0  PROVE Cell(m2, c) = Cell(m, c)
  <2> HIDE DEF s0
  <2>1. c \in Memory => m2[c] = m[c]
    BY <1>2, <1>4 DEF Mapped, s0
  <2>2. QED
    BY <2>1 DEF Cell
<1>5. ASSUME NEW v \in Virts, NEW l \in 1 .. Levels, TableAt(m, v, l) # None,
             TableAt(m, v, l) + Index(v, l) = s0
      PROVE  l = Levels /\ v = v0
  <2>1. l = Levels /\ (l = Levels => v = v0)
    BY <1>1, <1>5, SameCell
  <2>2. QED
    BY <2>1
<1> HIDE DEF s0
<1> DEFINE T == {n \in Nat : n \in 1 .. Levels => \A v \in Virts : Same(v, n)}
<1>6. 0 \in T
  OBVIOUS
<1>7. ASSUME NEW n \in Nat, n \in T  PROVE n + 1 \in T
  <2>1. SUFFICES ASSUME n + 1 \in 1 .. Levels, NEW v \in Virts
                 PROVE  TableAt(m2, v, n + 1) = TableAt(m, v, n + 1)
    OBVIOUS
  <2>2. CASE n = 0
    <3>1. TableAt(m, v, 1) = root /\ TableAt(m2, v, 1) = root
      BY TableAtIs
    <3>2. QED
      BY <2>2, <3>1
  <2>3. CASE n # 0
    <3>1. n \in 1 .. Levels - 1 /\ n \in 1 .. Levels /\ n # Levels
      BY <2>1, <2>3, PagingAssumption
    <3>2. TableAt(m2, v, n) = TableAt(m, v, n)
      BY <1>7, <3>1
    <3>3. /\ TableAt(m, v, n + 1) = Below(m, v, TableAt(m, v, n), n)
          /\ TableAt(m2, v, n + 1) = Below(m2, v, TableAt(m2, v, n), n)
      BY <3>1, TableAtIs
    <3>4. CASE TableAt(m, v, n) = None
      BY <3>2, <3>3, <3>4 DEF Below
    <3>5. CASE TableAt(m, v, n) # None
      <4>1. TableAt(m, v, n) + Index(v, n) # s0
        BY <1>5, <3>1, <3>5
      <4>2. Cell(m2, TableAt(m, v, n) + Index(v, n)) = Cell(m, TableAt(m, v, n) + Index(v, n))
        BY <1>4, <4>1
      <4>3. Below(m2, v, TableAt(m, v, n), n) = Below(m, v, TableAt(m, v, n), n)
        BY <4>2 DEF Below
      <4>4. QED
        BY <3>2, <3>3, <4>3
    <3>6. QED
      BY <3>4, <3>5
  <2>4. QED
    BY <2>2, <2>3
<1>8. Nat \subseteq T
  <2> HIDE DEF T
  <2> QED  BY <1>6, <1>7, SetInduction
<1>9. \A v \in Virts, l \in 1 .. Levels : TableAt(m2, v, l) = TableAt(m, v, l)
  BY <1>8
<1>10. ASSUME NEW v \in Virts
       PROVE  Lookup(m2, v) = IF v # v0 THEN Lookup(m, v) ELSE IF Present(e) THEN e ELSE Empty
  <2>1. TableAt(m2, v, Levels) = TableAt(m, v, Levels)
    BY <1>1, <1>9
  <2>2. CASE v = v0
    <3>1. Cell(m2, TableAt(m2, v, Levels) + Index(v, Levels)) = e
      BY <1>3, <2>1, <2>2 DEF s0
    <3>2. TableAt(m2, v, Levels) # None
      BY <2>1, <2>2
    <3>3. QED
      BY <2>2, <3>1, <3>2 DEF Lookup
  <2>3. CASE v # v0 /\ TableAt(m, v, Levels) = None
    BY <2>1, <2>3 DEF Lookup
  <2>4. CASE v # v0 /\ TableAt(m, v, Levels) # None
    <3>1. TableAt(m, v, Levels) + Index(v, Levels) # s0
      BY <1>1, <1>5, <2>4
    <3>2. Cell(m2, TableAt(m, v, Levels) + Index(v, Levels)) =
          Cell(m, TableAt(m, v, Levels) + Index(v, Levels))
      BY <1>4, <3>1
    <3>3. QED
      BY <2>1, <2>4, <3>2 DEF Lookup
  <2>5. QED
    BY <2>2, <2>3, <2>4
<1>11. QED
  BY <1>9, <1>10
-----------------------------------------------------------------------------
(* The ranges that are asked for lie in what the tables can map.           *)
RequestsFit == \A r \in Requests : r.virt + r.pages <= Span[Levels]

(* Memory holds entries.                                                   *)
Entries(m) == m = [c \in Memory |-> m[c]] /\ \A c \in Memory : m[c].to \in Nat

(* The walk of _map() is the walk of the processor, so far.                *)
Walking ==
  /\ todo \in [virt : Nat, phys : Nat, pages : Nat, flags : SUBSET STRING]
  /\ todo.pages > 0 => todo.virt + todo.pages <= Span[Levels]
  /\ level \in 1 .. Levels /\ (todo.pages = 0 => level = 1)
  /\ table = TableAt(mem, todo.virt, level) /\ table # None

PInv ==
  /\ Entries(mem)
  /\ used \subseteq Pool
  /\ Walking
  /\ Tables(mem, used) /\ OneWay(mem)

LEMMA RootIs == TableAt(mem, todo.virt, 1) = root /\ root # None
BY TableAtIs DEF root, None

LEMMA PInvInit ==
  ASSUME Init
  PROVE  PInv
<1>1. PICK j \in Junk : mem = [c \in Memory |-> IF c \in Block(root) THEN Empty ELSE j]
  BY DEF Init
<1>2. \A c \in Block(root) : mem[c] = Empty
  <2>1. \A c \in Block(root) : c \in Memory
    BY PagingAssumption DEF Block, root
  <2>2. QED
    BY <1>1, <2>1
<1>3. Entries(mem)
  BY <1>1, EntryAssumption DEF Entries, Empty
<1>4. \A v \in Virts, l \in 1 .. Levels : TableAt(mem, v, l) = IF l = 1 THEN root ELSE None
  BY <1>2, NothingMapped
<1>5. Tables(mem, used)
  BY <1>4 DEF Tables
<1>6. OneWay(mem)
  <2>1. ASSUME NEW v \in Virts, NEW w \in Virts, NEW l \in 1 .. Levels, NEW k \in 1 .. Levels,
               TableAt(mem, v, l) # None, TableAt(mem, v, l) = TableAt(mem, w, k)
        PROVE  l = k /\ Prefix(v, l) = Prefix(w, k)
    <3>1. l = 1 /\ k = 1
      BY <1>4, <2>1
    <3>2. QED
      BY <3>1, PrefixOfRoot
  <2>2. \A v, w \in Virts, l, k \in 1 .. Levels :
          TableAt(mem, v, l) # None /\ TableAt(mem, v, l) = TableAt(mem, w, k) =>
            l = k /\ Prefix(v, l) = Prefix(w, l)
    BY <2>1
  <2>3. QED
    BY <2>2 DEF OneWay
<1>7. Walking
  BY RootIs, PagingAssumption DEF Init, Walking
<1>8. QED
  BY <1>3, <1>5, <1>6, <1>7 DEF PInv, Init

LEMMA VirtIs ==
  ASSUME PInv, todo.pages > 0
  PROVE  todo.virt \in Virts /\ todo.virt \in Nat
<1>1. todo.virt \in Nat /\ todo.pages \in Nat /\ todo.virt + todo.pages <= Span[Levels]
  BY DEF PInv, Walking
<1>2. Span[Levels] \in Nat
  BY SpanIs, PagingAssumption
<1>3. QED
  BY <1>1, <1>2 DEF Virts

(* The slot that _map() looks at.                                          *)
LEMMA SlotIs ==
  ASSUME PInv, Tidy, todo.pages > 0
  PROVE  /\ slot = TableAt(mem, todo.virt, level) + Index(todo.virt, level)
         /\ slot \in Memory /\ slot \in Block(table) /\ Cell(mem, slot) = mem[slot]
         /\ table \in used \union {root}
<1>1. todo.virt \in Virts
  BY VirtIs
<1>2. Aligned(used)
  BY DEF PInv, Tidy, Aligned
<1>3. table = TableAt(mem, todo.virt, level) /\ level \in 1 .. Levels /\ table # None
  BY DEF PInv, Walking
<1>4. Tables(mem, used)
  BY DEF PInv
<1>5. QED
  BY <1>1, <1>2, <1>3, <1>4, CellOfTable DEF slot

LEMMA PInvFollow ==
  ASSUME PInv, Tidy, Follow
  PROVE  PInv'
<1>1. todo.pages > 0 /\ level < Levels /\ level \in 1 .. Levels
  BY DEF Follow, PInv, Walking
<1>2. level \in 1 .. Levels - 1 /\ level + 1 \in 1 .. Levels
  BY <1>1, PagingAssumption
<1>3. TableAt(mem, todo.virt, level + 1) = Below(mem, todo.virt, table, level)
  BY <1>2, TableAtIs DEF PInv, Walking
<1>4. Cell(mem, table + Index(todo.virt, level)) = mem[slot]
  BY <1>1, SlotIs DEF slot
<1>5. TableAt(mem, todo.virt, level + 1) = table'
  BY <1>3, <1>4 DEF Follow, Below, Present, PInv, Walking
<1>6. table' # None
  <2>1. mem[slot].to \in Nat
    BY <1>1, SlotIs DEF PInv, Entries
  <2>2. table' = RoundDown(mem[slot].to)
    BY DEF Follow
  <2>3. table' \in Nat
    BY <2>1, <2>2, RoundedDown
  <2>4. QED
    BY <2>3 DEF None
<1>7. QED
  BY <1>1, <1>2, <1>5, <1>6 DEF PInv, Walking, Follow

(* The facts of a step of _map() that adds a table.                        *)
LEMMA AddTableIs ==
  ASSUME PInv, Tidy', AddTable
  PROVE  /\ todo.virt \in Virts /\ level \in 1 .. Levels - 1
         /\ \A v \in Virts : Lookup(mem', v) = Lookup(mem, v)
         /\ Tables(mem', used') /\ OneWay(mem')
         /\ table' = TableAt(mem', todo.virt, level + 1) /\ table' # None
         /\ used' \subseteq Pool
         /\ Entries(mem')
         /\ \A c \in Memory : mem'[c] # mem[c] => \E b \in used' \union {root} : c \in Block(b)
<1>1. PICK a \in Pool :
        /\ Free(a)
        /\ used' = used \union {a}
        /\ mem' = [[c \in Memory |-> IF c \in Block(a) THEN Empty ELSE mem[c]]
                     EXCEPT ![slot] = [to |-> a, flags |-> {"present", "writable"}]]
        /\ table' = RoundDown(a)
  BY DEF AddTable
<1>2. todo.pages > 0 /\ level < Levels /\ ~ Present(mem[slot])
  BY DEF AddTable, Present
<1>. Tidy
  BY <1>1 DEF Tidy
<1>3. todo.virt \in Virts
  BY <1>2, VirtIs
<1>4. level \in 1 .. Levels - 1
  BY <1>2, PagingAssumption DEF PInv, Walking
<1>5. Aligned(used) /\ Tables(mem, used) /\ OneWay(mem) /\ a % Fanout = 0
  BY <1>1 DEF PInv, Tidy, Aligned
<1>6. /\ slot = TableAt(mem, todo.virt, level) + Index(todo.virt, level)
      /\ slot \in Memory /\ slot \in Block(table) /\ table \in used \union {root}
      /\ TableAt(mem, todo.virt, level) # None
  BY <1>2, SlotIs DEF PInv, Walking
<1>7. Added(mem, mem', todo.virt, level, a)
  BY <1>1, <1>6 DEF Added
<1>8. \A b \in used \union {root} : Block(a) \cap Block(b) = {}
  BY <1>1 DEF Free
<1>9. ~ Present(mem[TableAt(mem, todo.virt, level) + Index(todo.virt, level)])
  BY <1>2, <1>6
<1>10. /\ \A v \in Virts, l \in 1 .. Levels : Grown(mem, mem', todo.virt, level, a, v, l)
       /\ TableAt(mem', todo.virt, level + 1) = a
       /\ \A v \in Virts : Lookup(mem', v) = Lookup(mem, v)
  <2> DEFINE m2 == mem'
  <2> HIDE DEF m2
  <2>1. Added(mem, m2, todo.virt, level, a)
    BY <1>7 DEF m2
  <2>2. CanAdd(mem, used, todo.virt, level, a)
    BY <1>3, <1>4, <1>5, <1>6, <1>8, <1>9, Zenon DEF CanAdd
  <2>3. /\ \A v \in Virts, l \in 1 .. Levels : Grown(mem, m2, todo.virt, level, a, v, l)
        /\ TableAt(m2, todo.virt, level + 1) = a
        /\ \A v \in Virts : Lookup(m2, v) = Lookup(mem, v)
    BY <2>1, <2>2, Growing
  <2>4. QED
    BY <2>3 DEF m2
<1>11. a \in Nat /\ a # None /\ RoundDown(a) = a /\ a \in Block(a) /\ Block(a) \subseteq Memory
  <2>1. a \in Nat /\ a % Fanout = 0 /\ a >= Fanout
    BY <1>5, PagingAssumption
  <2>2. QED
    BY <2>1, PagingAssumption DEF None, RoundDown, Block
<1>12. a \notin used \union {root, None}
  BY <1>8, <1>11
<1>13. Tables(mem', used \union {a}) /\ OneWay(mem')
  BY <1>5, <1>10, <1>12, ShapeAfterAdding
<1>14. Entries(mem')
  <2> DEFINE e == [to |-> a, flags |-> {"present", "writable"}]
             clear == [c \in Memory |-> IF c \in Block(a) THEN Empty ELSE mem[c]]
  <2>1. e.to \in Nat /\ Empty.to \in Nat
    BY <1>11 DEF Empty
  <2>2. mem' = [clear EXCEPT ![slot] = e]
    BY <1>1
  <2> HIDE DEF e
  <2>3. \A c \in Memory : mem'[c] = IF c = slot THEN e ELSE IF c \in Block(a) THEN Empty ELSE mem[c]
    BY <2>2
  <2>4. mem' = [c \in Memory |-> mem'[c]]
    BY <2>2
  <2>5. \A c \in Memory : mem[c].to \in Nat
    BY DEF PInv, Entries
  <2>6. \A c \in Memory : mem'[c].to \in Nat
    BY <2>1, <2>3, <2>5
  <2>7. QED
    BY <2>4, <2>6 DEF Entries
<1>15. ASSUME NEW c \in Memory, mem'[c] # mem[c]
       PROVE  \E b \in used' \union {root} : c \in Block(b)
  <2>1. c \in Block(a) \/ c = slot
    BY <1>1, <1>15
  <2>2. QED
    BY <1>1, <1>6, <2>1
<1>16. used' \subseteq Pool
  BY <1>1 DEF PInv
<1>17. table' = TableAt(mem', todo.virt, level + 1) /\ table' # None
  BY <1>1, <1>10, <1>11
<1>18. QED
  BY <1>1, <1>3, <1>4, <1>10, <1>13, <1>14, <1>15, <1>16, <1>17

LEMMA PInvAddTable ==
  ASSUME PInv, Tidy', AddTable
  PROVE  PInv'
<1>1. level + 1 \in 1 .. Levels
  <2>1. level \in 1 .. Levels - 1
    BY AddTableIs
  <2>2. QED
    BY <2>1, PagingAssumption
<1>2. todo' = todo /\ level' = level + 1 /\ todo.pages > 0
  BY DEF AddTable
<1>3. Walking'
  BY <1>1, <1>2, AddTableIs DEF PInv, Walking
<1>4. QED
  BY <1>3, AddTableIs DEF PInv

(* The facts of a step of _map() that sets a page's entry.                 *)
NewEntry == [to |-> todo.phys, flags |-> page_flags(todo.flags)]

LEMMA SetPageIs ==
  ASSUME PInv, Tidy, SetPage
  PROVE  /\ todo.virt \in Virts
         /\ \A v \in Virts, l \in 1 .. Levels : TableAt(mem', v, l) = TableAt(mem, v, l)
         /\ \A v \in Virts :
              Lookup(mem', v) = IF v # todo.virt THEN Lookup(mem, v)
                                ELSE IF Present(NewEntry) THEN NewEntry ELSE Empty
         /\ Entries(mem')
         /\ \A c \in Memory : mem'[c] # mem[c] => \E b \in used' \union {root} : c \in Block(b)
<1>1. /\ todo.pages > 0 /\ level = Levels /\ used' = used
      /\ mem' = [mem EXCEPT ![slot] = NewEntry]
  BY DEF SetPage, NewEntry
<1>2. todo.virt \in Virts
  BY <1>1, VirtIs
<1>3. Aligned(used) /\ Tables(mem, used) /\ OneWay(mem) /\ mem = [c \in Memory |-> mem[c]]
  BY DEF PInv, Tidy, Aligned, Entries
<1>4. /\ slot = TableAt(mem, todo.virt, Levels) + Index(todo.virt, Levels)
      /\ slot \in Memory /\ slot \in Block(table) /\ table \in used \union {root}
      /\ TableAt(mem, todo.virt, Levels) # None
  BY <1>1, SlotIs DEF PInv, Walking
<1>5. Mapped(mem, mem', todo.virt, NewEntry)
  BY <1>1, <1>4 DEF Mapped
<1>6. /\ \A v \in Virts, l \in 1 .. Levels : TableAt(mem', v, l) = TableAt(mem, v, l)
      /\ \A v \in Virts :
           Lookup(mem', v) = IF v # todo.virt THEN Lookup(mem, v)
                             ELSE IF Present(NewEntry) THEN NewEntry ELSE Empty
  <2> DEFINE m2 == mem'
             e == NewEntry
  <2> HIDE DEF m2, e
  <2>1. Mapped(mem, m2, todo.virt, e)
    BY <1>5 DEF m2, e
  <2>2. CanSet(mem, used, todo.virt)
    BY <1>2, <1>3, <1>4, Zenon DEF CanSet
  <2>3. /\ \A v \in Virts, l \in 1 .. Levels : TableAt(m2, v, l) = TableAt(mem, v, l)
        /\ \A v \in Virts :
             Lookup(m2, v) = IF v # todo.virt THEN Lookup(mem, v)
                             ELSE IF Present(e) THEN e ELSE Empty
    BY <2>1, <2>2, Setting
  <2>4. QED
    BY <2>3 DEF m2, e
<1>7. Entries(mem')
  <2>1. NewEntry.to \in Nat
    BY DEF NewEntry, PInv, Walking
  <2>2. mem' = [c \in Memory |-> mem'[c]]
    BY <1>1, <1>3
  <2>3. \A c \in Memory : mem'[c] = IF c = slot THEN NewEntry ELSE mem[c]
    BY <1>1, <1>3
  <2>4. \A c \in Memory : mem'[c].to \in Nat
    BY <2>1, <2>3 DEF PInv, Entries
  <2>5. QED
    BY <2>2, <2>4 DEF Entries
<1>8. ASSUME NEW c \in Memory, mem'[c] # mem[c]
      PROVE  \E b \in used' \union {root} : c \in Block(b)
  <2>1. c = slot
    BY <1>1, <1>3, <1>8
  <2>2. QED
    BY <1>1, <1>4, <2>1
<1>9. QED
  BY <1>2, <1>6, <1>7, <1>8

LEMMA PInvSetPage ==
  ASSUME PInv, Tidy, SetPage
  PROVE  PInv'
<1>1. /\ todo.pages > 0 /\ level = Levels /\ used' = used /\ level' = 1 /\ table' = root
      /\ todo' = [todo EXCEPT !.virt = todo.virt + 1, !.phys = todo.phys + 1,
                              !.pages = todo.pages - 1]
  BY DEF SetPage
<1>2. \A v \in Virts, l \in 1 .. Levels : TableAt(mem', v, l) = TableAt(mem, v, l)
  BY SetPageIs
<1>3. Tables(mem', used)
  BY <1>2 DEF PInv, Tables
<1>4. OneWay(mem')
  <2>1. ASSUME NEW v \in Virts, NEW w \in Virts, NEW l \in 1 .. Levels, NEW k \in 1 .. Levels,
               TableAt(mem', v, l) # None, TableAt(mem', v, l) = TableAt(mem', w, k)
        PROVE  l = k /\ Prefix(v, l) = Prefix(w, l)
    <3>1. TableAt(mem, v, l) # None /\ TableAt(mem, v, l) = TableAt(mem, w, k)
      BY <1>2, <2>1
    <3>2. OneWay(mem)
      BY DEF PInv
    <3>3. QED
      BY <3>1, <3>2, WaysOf
  <2>2. QED
    BY <2>1 DEF OneWay
<1>5. Walking'
  <2> DEFINE new == todo'
  <2>1. /\ todo \in [virt : Nat, phys : Nat, pages : Nat, flags : SUBSET STRING]
        /\ todo.pages > 0 => todo.virt + todo.pages <= Span[Levels]
    BY DEF PInv, Walking
  <2>2. /\ new.virt = todo.virt + 1 /\ new.pages = todo.pages - 1
        /\ new \in [virt : Nat, phys : Nat, pages : Nat, flags : SUBSET STRING]
    <3> DEFINE v == todo.virt + 1
               p == todo.phys + 1
               n == todo.pages - 1
    <3>1. v \in Nat /\ p \in Nat /\ n \in Nat
      BY <1>1, <2>1
    <3>2. new = [todo EXCEPT !.virt = v, !.phys = p, !.pages = n]
      BY <1>1
    <3> HIDE DEF v, p, n, new
    <3>3. /\ new.virt = v /\ new.pages = n
          /\ new \in [virt : Nat, phys : Nat, pages : Nat, flags : SUBSET STRING]
      BY <2>1, <3>1, <3>2
    <3>4. QED
      BY <3>3 DEF v, n
  <2>3. new.pages > 0 => new.virt + new.pages <= Span[Levels]
    <3>1. Span[Levels] \in Nat
      BY SpanIs, PagingAssumption
    <3>2. QED
      BY <1>1, <2>1, <2>2, <3>1
  <2>4. 1 \in 1 .. Levels
    BY PagingAssumption
  <2>5. TableAt(mem', new.virt, 1) = root /\ root # None
    BY TableAtIs DEF root, None
  <2> HIDE DEF new
  <2>6. QED
    BY <1>1, <2>2, <2>3, <2>4, <2>5 DEF Walking, new
<1>6. QED
  BY <1>1, <1>3, <1>4, <1>5, SetPageIs DEF PInv

LEMMA PInvAsk ==
  ASSUME PInv, RequestsFit, NEW r \in Requests, map_pages(r)
  PROVE  PInv'
<1>1. /\ todo' = r /\ level' = 1 /\ level = 1 /\ table' = table
      /\ mem' = mem /\ used' = used /\ table = root
  BY TableAtIs DEF map_pages, PInv, Walking
<1>2. /\ r \in [virt : Nat, phys : Nat, pages : Nat, flags : SUBSET STRING]
      /\ r.virt + r.pages <= Span[Levels]
  BY EntryAssumption DEF RequestsFit
<1>3. TableAt(mem, r.virt, 1) = root /\ root # None /\ 1 \in 1 .. Levels
  BY TableAtIs, PagingAssumption DEF root, None
<1>4. Walking'
  BY <1>1, <1>2, <1>3 DEF Walking
<1>5. QED
  BY <1>1, <1>4 DEF PInv

(* No block is ever given back: what is aligned now always was.            *)
LEMMA TidyBefore ==
  ASSUME [Next]_vars, Tidy'
  PROVE  Tidy
BY DEF Tidy, Next, Follow, AddTable, SetPage, Stop, map_pages, vars

LEMMA PInvNext ==
  ASSUME PInv, RequestsFit, [Next]_vars, Tidy'
  PROVE  PInv'
<1>. Tidy
  BY TidyBefore
<1>1. CASE Follow
  BY <1>1, PInvFollow
<1>2. CASE AddTable
  BY <1>2, PInvAddTable
<1>3. CASE SetPage
  BY <1>3, PInvSetPage
<1>4. ASSUME NEW r \in Requests, map_pages(r)  PROVE PInv'
  BY <1>4, PInvAsk
<1>5. CASE Stop \/ UNCHANGED vars
  BY <1>5 DEF Stop, vars, PInv, Walking
<1>6. QED
  BY <1>1, <1>2, <1>3, <1>4, <1>5 DEF Next

-----------------------------------------------------------------------------
(* The tables implement the address space that callers count on: every     *)
(* page is found where it was mapped last, whatever tables had to be added *)
(* for it or for others on the way.                                        *)
LEMMA SpaceBegins ==
  ASSUME Init
  PROVE  A!SpaceInit
<1>1. PICK j \in Junk : mem = [c \in Memory |-> IF c \in Block(root) THEN Empty ELSE j]
  BY DEF Init
<1>2. \A c \in Block(root) : mem[c] = Empty
  <2>1. \A c \in Block(root) : c \in Memory
    BY PagingAssumption DEF Block, root
  <2>2. QED
    BY <1>1, <2>1
<1>3. \A v \in Virts : Lookup(mem, v) = Empty
  BY <1>2, NothingMapped
<1>4. QED
  BY <1>3 DEF Init, A!SpaceInit, A!Nothing

LEMMA SpaceStep ==
  ASSUME PInv, [Next]_vars, Tidy'
  PROVE  [A!Ask \/ A!MapOne]_(A!spaceVars)
<1>. Tidy
  BY TidyBefore
<1>1. CASE Follow \/ Stop \/ UNCHANGED vars
  BY <1>1 DEF Follow, Stop, vars, A!spaceVars
<1>2. CASE AddTable
  <2>1. todo' = todo
    BY <1>2 DEF AddTable
  <2>2. \A v \in Virts : Lookup(mem', v) = Lookup(mem, v)
    BY <1>2, AddTableIs
  <2>3. [v \in Virts |-> Lookup(mem', v)] = [v \in Virts |-> Lookup(mem, v)]
    BY <2>2
  <2>4. QED
    BY <2>1, <2>3 DEF A!spaceVars
<1>3. CASE SetPage
  <2>1. /\ todo.pages > 0
        /\ todo' = [todo EXCEPT !.virt = todo.virt + 1, !.phys = todo.phys + 1,
                                !.pages = todo.pages - 1]
    BY <1>3 DEF SetPage
  <2> DEFINE page == A!Page(todo.phys, todo.flags \union Forced)
             old == [v \in Virts |-> Lookup(mem, v)]
             new == [v \in Virts |-> Lookup(mem', v)]
  <2>2. page = IF Present(NewEntry) THEN NewEntry ELSE Empty
    BY DEF A!Page, NewEntry, Present, page_flags
  <2>3. \A v \in Virts : Lookup(mem', v) = IF v # todo.virt THEN Lookup(mem, v) ELSE page
    BY <1>3, <2>2, SetPageIs
  <2>4. new = [old EXCEPT ![todo.virt] = page]
    <3> HIDE DEF page
    <3> QED  BY <2>3
  <2>5. A!MapOne
    BY <2>1, <2>4 DEF A!MapOne
  <2>6. QED
    BY <2>5
<1>4. ASSUME NEW r \in Requests, map_pages(r)  PROVE A!Ask
  BY <1>4 DEF map_pages, A!Ask
<1>5. QED
  BY <1>1, <1>2, <1>3, <1>4 DEF Next

(* Wherever mem_alloc() may place a block: in every run in which those     *)
(* that became tables happen to begin at a page, the tables implement the  *)
(* abstract address space.                                                 *)
THEOREM TablesImplementSpace ==
  ASSUME RequestsFit
  PROVE  Spec /\ []Tidy => AddressSpaceSpec
<1>1. Init => PInv
  BY PInvInit
<1>2. PInv /\ [Next]_vars /\ Tidy' => PInv'
  BY PInvNext
<1>3. Init => A!SpaceInit
  BY SpaceBegins
<1>4. PInv /\ [Next]_vars /\ Tidy' => [A!Ask \/ A!MapOne]_(A!spaceVars)
  BY SpaceStep
<1>5. QED
  BY <1>1, <1>2, <1>3, <1>4, PTL DEF Spec, AddressSpaceSpec, A!SpaceSpec

(* The first write to memory that is no table comes with, or after, a      *)
(* block that does not begin at a page, and never before it.               *)
THEOREM WritesStayInTables ==
  ASSUME RequestsFit
  PROVE  Spec => OnlyTablesWritten
<1>1. Init => (Tidy => PInv)
  BY PInvInit
<1>2. (Tidy => PInv) /\ [Next]_vars => (Tidy => PInv)'
  BY PInvNext, TidyBefore
<1>3. (Tidy => PInv) /\ [Next]_vars => [Tidy' => WritesTables]_vars
  <2>1. SUFFICES ASSUME Tidy => PInv, Next, Tidy'  PROVE WritesTables
    OBVIOUS
  <2>2. PInv /\ Tidy
    BY <2>1, TidyBefore
  <2>3. CASE AddTable
    BY <2>1, <2>2, <2>3, AddTableIs DEF WritesTables
  <2>4. CASE SetPage
    BY <2>2, <2>4, SetPageIs DEF WritesTables
  <2>5. CASE Follow \/ Stop \/ \E r \in Requests : map_pages(r)
    BY <2>5 DEF Follow, Stop, map_pages, vars, WritesTables
  <2>6. QED
    BY <2>1, <2>3, <2>4, <2>5 DEF Next
<1>4. QED
  BY <1>1, <1>2, <1>3, PTL DEF Spec, OnlyTablesWritten

(* So each page that was just mapped is found where it was mapped, if no   *)
(* call asks for no page at all and no block has begun inside a page; once *)
(* one has, it need not be.                                                *)
THEOREM MappedPageIsFound ==
  ASSUME RequestsFit, \A r \in Requests : r.pages > 0
  PROVE  Spec => [](Tidy => PageIsMapped)
<1>1. Init => (Tidy => PInv /\ PageIsMapped)
  <2>1. SUFFICES ASSUME Init  PROVE PageIsMapped
    BY PInvInit
  <2>2. ~ (todo.virt > 0)
    BY <2>1 DEF Init
  <2>3. QED
    BY <2>2 DEF PageIsMapped
<1>2. (Tidy => PInv /\ PageIsMapped) /\ [Next]_vars => (Tidy => PInv /\ PageIsMapped)'
  <2>1. SUFFICES ASSUME PInv, PageIsMapped, [Next]_vars, Tidy, Tidy'  PROVE PageIsMapped'
    BY PInvNext, TidyBefore
  <2>2. CASE Follow \/ AddTable
    <3>1. todo' = todo /\ todo.pages > 0 /\ todo.pages \in Nat
      BY <2>1, <2>2 DEF Follow, AddTable, PInv, Walking
    <3>2. todo'.pages # 0
      BY <3>1
    <3>3. QED
      BY <3>2 DEF PageIsMapped
  <2>3. CASE SetPage
    <3>1. todo.virt \in Nat /\ todo.phys \in Nat
      BY <2>1 DEF PInv, Walking
    <3>2. /\ todo'.virt - 1 = todo.virt /\ todo'.phys - 1 = todo.phys
          /\ todo'.flags = todo.flags
      BY <2>1, <2>3, <3>1 DEF SetPage, PInv, Walking
    <3>3. Lookup(mem', todo.virt) = IF Present(NewEntry) THEN NewEntry ELSE Empty
      BY <2>1, <2>3, SetPageIs
    <3>4. "present" \in todo.flags => Present(NewEntry)
      BY DEF Present, NewEntry, page_flags
    <3>5. QED
      BY <3>2, <3>3, <3>4 DEF PageIsMapped, NewEntry
  <2>4. ASSUME NEW r \in Requests, map_pages(r)  PROVE PageIsMapped'
    <3>1. todo' = r /\ r.pages > 0
      BY <2>4 DEF map_pages
    <3>2. r.pages # 0
      BY <3>1, EntryAssumption
    <3>3. QED
      BY <3>1, <3>2 DEF PageIsMapped
  <2>5. CASE Stop \/ UNCHANGED vars
    BY <2>1, <2>5 DEF Stop, vars, PageIsMapped
  <2>6. QED
    BY <2>1, <2>2, <2>3, <2>4, <2>5 DEF Next
<1>3. QED
  BY <1>1, <1>2, PTL DEF Spec
=============================================================================
