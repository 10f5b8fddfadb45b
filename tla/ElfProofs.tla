------------------------------ MODULE ElfProofs ------------------------------
(***************************************************************************)
(* Proofs about ElfLoader for images of any number of segments, of any     *)
(* size and at any address, blocks that begin anywhere and pages of any    *)
(* size.                                                                   *)
(***************************************************************************)
EXTENDS ElfLoader, FiniteSetTheorems, TLAPS

-----------------------------------------------------------------------------
(* Pages.                                                                  *)
LEMMA DivisionOfInt == \A n, d \in Int : d > 0 => n = d * (n \div d) + (n % d)
OBVIOUS

LEMMA Division ==
  ASSUME NEW n \in Nat
  PROVE  /\ n \div Page \in Nat /\ n % Page \in 0 .. Page - 1
         /\ n = Page * (n \div Page) + (n % Page)
<1>1. Page \in Nat \ {0}
  BY ElfAssumption
<1>2. n \div Page \in Nat /\ n % Page \in 0 .. Page - 1
  BY <1>1
<1>3. n = Page * (n \div Page) + (n % Page)
  BY <1>1, DivisionOfInt
<1>4. QED
  BY <1>2, <1>3

LEMMA QuotientOf ==
  ASSUME NEW n \in Nat, NEW d \in Nat \ {0}, NEW q \in Nat, NEW x \in 0 .. d - 1,
         n = d * q + x
  PROVE  n \div d = q /\ n % d = x
OBVIOUS

LEMMA Quotient ==
  ASSUME NEW n \in Nat, NEW q \in Nat, NEW x \in 0 .. Page - 1, n = Page * q + x
  PROVE  n \div Page = q /\ n % Page = x
BY ElfAssumption, QuotientOf

LEMMA Products == \A p, q \in Nat : p * q \in Nat
OBVIOUS

LEMMA PageIsNat == Page \in Nat /\ Page \in Int /\ Page > 0
BY ElfAssumption

LEMMA Distributes == \A p, x, y \in Int : p * (x + y) = p * x + p * y
OBVIOUS

(* Rounding up gives the least multiple of a page, also behind a page.     *)
LEMMA Rounded ==
  ASSUME NEW n \in Nat
  PROVE  /\ RoundUp(n) \in Nat /\ n <= RoundUp(n)
         /\ RoundUp(n) = Page * (RoundUp(n) \div Page)
         /\ RoundUp(n) \div Page \in Nat
         /\ \A q \in Nat : RoundUp(Page * q + n) = Page * q + RoundUp(n)
<1> DEFINE m == n + Page - 1
           d == m \div Page
           x == m % Page
<1>1. Page \in Nat \ {0} /\ m \in Nat
  BY ElfAssumption
<1>2. d \in Nat /\ x \in 0 .. Page - 1 /\ m = Page * d + x
  BY <1>1, Division
<1>3. RoundUp(n) = m - x
  BY DEF RoundUp, RoundDown
<1> HIDE DEF d, x
<1>4. RoundUp(n) = Page * d
  <2>1. Page * d \in Nat
    BY <1>1, <1>2
  <2> HIDE DEF m
  <2>2. QED
    BY <1>1, <1>2, <1>3, <2>1
<1>5. RoundUp(n) \in Nat /\ n <= RoundUp(n)
  <2>1. RoundUp(n) \in Nat
    BY <1>1, <1>2, <1>4
  <2>2. QED
    BY <1>1, <1>2, <1>3, <2>1
<1>6. RoundUp(n) \div Page = d
  <2>1. RoundUp(n) = Page * d + 0 /\ 0 \in 0 .. Page - 1
    BY <1>1, <1>2, <1>4
  <2>2. QED
    BY <1>2, <1>5, <2>1, Quotient
<1>7. ASSUME NEW q \in Nat  PROVE RoundUp(Page * q + n) = Page * q + RoundUp(n)
  <2> DEFINE p == Page * q
  <2>1. p \in Nat
    BY <1>1, Products
  <2>2. Page * (q + d) = p + Page * d /\ q + d \in Nat /\ Page * d \in Nat
    <3>1. q \in Int /\ d \in Int /\ d \in Nat /\ Page \in Int /\ Page \in Nat
      BY <1>1, <1>2
    <3>2. Page * (q + d) = p + Page * d
      BY <3>1, Distributes
    <3>3. Page * d \in Nat
      BY <3>1, Products
    <3>4. QED
      BY <3>1, <3>2, <3>3
  <2> DEFINE z == p + n + Page - 1
  <2>3. RoundUp(p + n) = z - (z % Page)
    BY DEF RoundUp, RoundDown
  <2> HIDE DEF p
  <2>4. z = p + m
    BY <1>1, <2>1
  <2> HIDE DEF m, z
  <2>5. p + m \in Nat /\ p + m = Page * (q + d) + x
    BY <1>1, <1>2, <2>1, <2>2
  <2>6. (p + m) % Page = x
    BY <1>2, <2>2, <2>5, Quotient
  <2>7. RoundUp(p + n) = (p + m) - x
    <3>1. z % Page = x
      BY <2>4, <2>6, Zenon
    <3>2. QED
      BY <2>3, <2>4, <3>1, Zenon
  <2>8. QED
    BY <1>1, <1>2, <1>3, <2>1, <2>7 DEF p
<1>8. QED
  BY <1>2, <1>4, <1>5, <1>6, <1>7

LEMMA Cancels ==
  ASSUME NEW x \in Nat, NEW y \in Nat, Page * x < Page * y
  PROVE  x < y
<1>1. Page \in Nat
  BY ElfAssumption
<1>2. ASSUME y <= x  PROVE FALSE
  <2>1. x - y \in Nat /\ y + (x - y) = x
    BY <1>2
  <2>2. Page * (y + (x - y)) = Page * y + Page * (x - y)
    BY <1>1, <2>1, Distributes
  <2>3. Page * x = Page * y + Page * (x - y)
    BY <2>1, <2>2, Zenon
  <2>4. Page * y \in Nat /\ Page * (x - y) \in Nat /\ Page * x \in Nat
    BY <1>1, <2>1, Products
  <2>5. QED
    BY <2>3, <2>4
<1>3. QED
  BY <1>2

(* What rounding up adds is less than a page, and nothing to whole pages.  *)
LEMMA RoundingAdds ==
  ASSUME NEW n \in Nat
  PROVE  /\ RoundUp(n) <= n + Page - 1
         /\ n % Page = 0 => RoundUp(n) = n
<1>1. Page \in Nat \ {0} /\ n + Page - 1 \in Nat
  BY ElfAssumption
<1>2. RoundUp(n) <= n + Page - 1
  <2> DEFINE m == n + Page - 1
             x == m % Page
  <2>1. x \in 0 .. Page - 1 /\ m \in Nat
    BY <1>1, Division
  <2>2. RoundUp(n) = m - x
    BY DEF RoundUp, RoundDown
  <2> HIDE DEF x, m
  <2>3. m - x <= m
    BY <1>1, <2>1
  <2>4. QED
    BY <2>2, <2>3 DEF m
<1>3. ASSUME n % Page = 0  PROVE RoundUp(n) = n
  <2> DEFINE d == n \div Page
             r == RoundUp(n) \div Page
  <2>1. d \in Nat /\ n = Page * d + (n % Page)
    BY Division
  <2>2. r \in Nat /\ RoundUp(n) = Page * r /\ RoundUp(n) \in Nat /\ n <= RoundUp(n)
    BY Rounded
  <2> HIDE DEF d, r
  <2>3. n = Page * d
    <3>1. Page * d \in Nat
      BY <1>1, <2>1, Products
    <3>2. n = Page * d + 0
      BY <1>3, <2>1, Zenon
    <3>3. QED
      BY <3>1, <3>2
  <2>4. r < d + 1
    <3>1. Page * (d + 1) = Page * d + Page
      <4>1. Page * (d + 1) = Page * d + Page * 1
        BY <1>1, <2>1, Distributes
      <4>2. QED
        BY <1>1, <4>1
    <3>2. Page * r < Page * (d + 1)
      <4> DEFINE a == Page * r
                 e == Page * d
      <4>1. a \in Nat /\ e \in Nat
        BY <1>1, <2>1, <2>2, Products
      <4>2. a <= e + Page - 1 /\ Page * (d + 1) = e + Page
        BY <1>2, <2>2, <2>3, <3>1
      <4> HIDE DEF a, e
      <4>3. QED
        BY <1>1, <4>1, <4>2 DEF a
    <3>3. QED
      BY <1>1, <2>1, <2>2, <3>2, Cancels
  <2>5. d <= r
    <3>1. Page * d < Page * (r + 1)
      <4> DEFINE a == Page * r
                 e == Page * d
      <4>1. a \in Nat /\ e \in Nat /\ e <= a
        BY <1>1, <2>1, <2>2, <2>3, Products
      <4>2. Page * (r + 1) = a + Page * 1
        BY <1>1, <2>2, Distributes
      <4> HIDE DEF a, e
      <4>3. QED
        BY <1>1, <4>1, <4>2 DEF e
    <3>2. d < r + 1
      BY <1>1, <2>1, <2>2, <3>1, Cancels
    <3>3. QED
      BY <2>1, <2>2, <3>2
  <2>6. d = r
    BY <2>1, <2>2, <2>4, <2>5
  <2>7. QED
    BY <2>2, <2>3, <2>6
<1>4. QED
  BY <1>2, <1>3

(* An offset from a page's beginning.                                      *)
LEMMA Behind ==
  ASSUME NEW p \in Nat, NEW o \in Nat
  PROVE  /\ (Page * p + o) \div Page = p + (o \div Page)
         /\ (Page * p + o) % Page = o % Page
<1> DEFINE d == o \div Page
           x == o % Page
<1>1. d \in Nat /\ x \in 0 .. Page - 1 /\ o = Page * d + x /\ Page \in Nat
  BY Division, ElfAssumption
<1> HIDE DEF d, x
<1>2. Page * (p + d) = Page * p + Page * d
  BY <1>1, Distributes
<1>3. Page * p \in Nat /\ Page * d \in Nat
  BY <1>1, Products
<1>4. Page * p + o \in Nat /\ p + d \in Nat /\ Page * p + o = Page * (p + d) + x
  BY <1>1, <1>2, <1>3
<1>5. (Page * p + o) \div Page = p + d /\ (Page * p + o) % Page = x
  BY <1>1, <1>4, Quotient
<1>6. QED
  BY <1>5 DEF d, x

LEMMA Within ==
  ASSUME NEW q \in Nat, NEW o \in Nat, o < Page * q
  PROVE  o \div Page < q
<1> DEFINE d == o \div Page
           x == o % Page
<1>1. d \in Nat /\ x \in 0 .. Page - 1 /\ o = Page * d + x /\ Page \in Nat
  BY Division, ElfAssumption
<1> HIDE DEF d, x
<1>2. ASSUME q <= d  PROVE FALSE
  <2>1. d - q \in Nat /\ q + (d - q) = d
    BY <1>1, <1>2
  <2>2. Page * (q + (d - q)) = Page * q + Page * (d - q)
    BY <1>1, <2>1, Distributes
  <2>3. Page * d = Page * q + Page * (d - q)
    BY <2>1, <2>2, Zenon
  <2>4. Page * q \in Nat /\ Page * (d - q) \in Nat /\ Page * d \in Nat
    BY <1>1, <2>1, Products
  <2>5. QED
    BY <1>1, <2>3, <2>4
<1>3. QED
  BY <1>1, <1>2 DEF d

-----------------------------------------------------------------------------
(* The pages that the first segments fill, of which q[k] are in front of   *)
(* the segment behind the k-th, and those of them that end inside a page.  *)
Room(k) == IF Load(file.ph[k]) THEN Pages(file.ph[k]) ELSE 0
Partials(m) == {k \in 1 .. m : Partial(k)}

Rooms(m, q) ==
  /\ q \in [Nat -> Nat] /\ q[0] = 0
  /\ \A k \in 1 .. m : q[k] = q[k - 1] + Room(k)
  /\ \A k \in 0 .. m : q[k] <= q[m]
  /\ LET n == Cardinality(Partials(m)) IN Page * q[m] + n <= kernel_size + Page * n

(* The segments before the loop's are mapped to where they were put, one   *)
(* behind the other, and their bytes are there.                            *)
Base == block \div Page
Loading == pc = "load" \/ entry # NULL

Mapped(k, q) ==
  LET h == file.ph[k]
  IN \A v \in Covered(h) \cap Virts :
       (\A j \in k + 1 .. i - 1 : Load(file.ph[j]) => v \notin Covered(file.ph[j]))
       => space[v] = [to |-> Base + q[k - 1] + (v - First(h)), flags |-> Flags(h)]

Filled(k, q) ==
  LET h == file.ph[k]
  IN \A b \in 0 .. h.memsz - 1 :
       LET c == Page * (Base + q[k - 1]) + (Skew(h) + b)
       IN Skew(h) + b < Page * Pages(h) /\ c \in Memory
          => mem[c] = IF b < h.filesz THEN <<k, b>> ELSE Zero

Typed ==
  /\ file \in Images /\ i \in 1 .. Len(file.ph) + 1
  /\ kernel_size \in Nat
  /\ mem = [c \in Memory |-> mem[c]] /\ space = [v \in Virts |-> space[v]]

(* The sizes that have been added, and where the next segment goes.        *)
Counted(q) ==
  /\ pc \in {"identify", "measure", "alloc", "load", "done"}
  /\ pc = "identify" => i = 1 /\ kernel_size = 0
  /\ pc \in {"identify", "measure"} => Rooms(i - 1, q)
  /\ pc \in {"identify", "measure", "alloc"} => entry = NULL /\ space = [v \in Virts |-> Unmapped]
  /\ pc = "alloc" => i = 1
  /\ pc = "alloc" \/ Loading => Rooms(Len(file.ph), q)
  /\ Loading => block \in Blocks /\ phys = Page * (Base + q[i - 1])
  /\ entry # NULL => pc = "done" /\ i = Len(file.ph) + 1

Laid(q) ==
  Loading =>
    /\ \A k \in 1 .. i - 1 :
         Load(file.ph[k]) => Mapped(k, q) /\ Filled(k, q) /\ q[k] <= q[i - 1]
    /\ \A v \in Virts :
         space[v] # Unmapped => \E x \in Nat : x < q[i - 1] /\ space[v].to = Base + x

IInv == Typed /\ \E q : Counted(q) /\ Laid(q)

-----------------------------------------------------------------------------
(* Headers.                                                                *)
LEMMA HeaderOf ==
  ASSUME Typed, NEW k \in 1 .. Len(file.ph)
  PROVE  LET h == file.ph[k]
         IN /\ Len(file.ph) \in Nat /\ DOMAIN file.ph = 1 .. Len(file.ph)
            /\ h.vaddr \in Nat /\ h.memsz \in Nat /\ h.filesz \in Nat
            /\ Aligned(h) \in Nat /\ Aligned(h) <= h.vaddr
            /\ Skew(h) \in Nat /\ First(h) \in Nat /\ Pages(h) \in Nat
            /\ RoundUp(h.memsz) = Page * Pages(h) /\ h.memsz <= Page * Pages(h)
            /\ Room(k) \in Nat
<1> DEFINE h == file.ph[k]
<1>1. Len(file.ph) \in Nat /\ DOMAIN file.ph = 1 .. Len(file.ph) /\ file \in Images
  BY ElfAssumption DEF Typed
<1>2. h.vaddr \in Nat /\ h.memsz \in Nat /\ h.filesz \in Nat /\ h.align \in Nat
  <2>1. {h.vaddr, h.memsz, h.filesz, h.align} \subseteq Nat
    BY <1>1, ElfAssumption
  <2>2. QED
    BY <2>1
<1> HIDE DEF h
<1>3. Aligned(h) \in Nat /\ Aligned(h) <= h.vaddr
  <2>1. CASE h.align = 0
    BY <1>2, <2>1 DEF Aligned
  <2>2. CASE h.align # 0
    <3> DEFINE x == h.vaddr % h.align
               d == h.vaddr \div h.align
    <3>1. h.align \in Nat \ {0}
      BY <1>2, <2>2
    <3>2. x \in Nat /\ d \in Nat
      BY <1>2, <3>1
    <3>3. h.vaddr = h.align * d + x
      <4>1. h.vaddr \in Int /\ h.align \in Int /\ h.align > 0
        BY <1>2, <3>1
      <4>2. QED
        BY <4>1, DivisionOfInt, Zenon
    <3>4. h.align * d \in Nat
      BY <3>1, <3>2, Products
    <3>5. Aligned(h) = h.vaddr - x
      BY <2>2 DEF Aligned
    <3> HIDE DEF x, d
    <3>6. QED
      BY <1>2, <3>2, <3>3, <3>4, <3>5
  <2>3. QED
    BY <2>1, <2>2
<1>4. Skew(h) \in Nat
  BY <1>2, <1>3 DEF Skew
<1>5. First(h) \in Nat
  BY <1>3, Division DEF First
<1>6. Pages(h) \in Nat /\ RoundUp(h.memsz) = Page * Pages(h) /\ h.memsz <= Page * Pages(h)
  <2>1. /\ RoundUp(h.memsz) \div Page \in Nat /\ h.memsz <= RoundUp(h.memsz)
        /\ RoundUp(h.memsz) = Page * (RoundUp(h.memsz) \div Page)
    BY <1>2, Rounded
  <2>2. QED
    BY <2>1, Zenon DEF Pages
<1>7. Room(k) \in Nat
  BY <1>6 DEF Room, h
<1>8. QED
  BY <1>1, <1>2, <1>3, <1>4, <1>5, <1>6, <1>7 DEF h

(* One more segment is partial or it is not.                               *)
LEMMA PartialsAre ==
  ASSUME Typed
  PROVE  /\ Cardinality(Partials(0)) = 0
         /\ \A k \in 1 .. Len(file.ph) :
              /\ Cardinality(Partials(k - 1)) \in Nat
              /\ Cardinality(Partials(k)) = Cardinality(Partials(k - 1)) + (IF Partial(k) THEN 1 ELSE 0)
         /\ Cardinality(Partials(Len(file.ph))) \in Nat
<1>1. Len(file.ph) \in Nat
  BY ElfAssumption DEF Typed
<1>2. ASSUME NEW m \in Nat  PROVE IsFiniteSet(Partials(m)) /\ Cardinality(Partials(m)) \in Nat
  <2>1. IsFiniteSet(1 .. m)
    BY FS_Interval
  <2>2. Partials(m) \subseteq 1 .. m
    BY DEF Partials
  <2>3. IsFiniteSet(Partials(m))
    BY <2>1, <2>2, FS_Subset
  <2>4. QED
    BY <2>3, FS_CardinalityType
<1>3. Cardinality(Partials(0)) = 0
  <2>1. Partials(0) = {}
    BY DEF Partials
  <2>2. QED
    BY <2>1, FS_EmptySet
<1>4. ASSUME NEW k \in 1 .. Len(file.ph)
      PROVE  /\ Cardinality(Partials(k - 1)) \in Nat
             /\ Cardinality(Partials(k)) = Cardinality(Partials(k - 1)) + (IF Partial(k) THEN 1 ELSE 0)
  <2>1. IsFiniteSet(Partials(k - 1)) /\ Cardinality(Partials(k - 1)) \in Nat
    <3>1. k - 1 \in Nat
      BY <1>1
    <3>2. QED
      BY <1>2, <3>1
  <2>2. CASE Partial(k)
    <3>1. Partials(k) = Partials(k - 1) \union {k} /\ k \notin Partials(k - 1)
      BY <1>1, <2>2 DEF Partials
    <3>2. Cardinality(Partials(k)) = Cardinality(Partials(k - 1)) + 1
      BY <2>1, <3>1, FS_AddElement
    <3>3. QED
      BY <2>1, <2>2, <3>2
  <2>3. CASE ~ Partial(k)
    <3>1. Partials(k) = Partials(k - 1)
      BY <1>1, <2>3 DEF Partials
    <3>2. QED
      BY <2>1, <2>3, <3>1
  <2>4. QED
    BY <2>2, <2>3
<1>5. QED
  BY <1>1, <1>2, <1>3, <1>4

(* The first loop adds a segment to the size as it is and in whole pages.  *)
LEMMA MeasureExtends ==
  ASSUME Typed, NEW q, i \in 1 .. Len(file.ph), Rooms(i - 1, q), NEW size \in Nat,
         size = kernel_size + (IF file.ph[i].type = "LOAD" THEN file.ph[i].memsz ELSE 0)
  PROVE  LET r == [q EXCEPT ![i] = q[i - 1] + Room(i)]
             n == Cardinality(Partials(i))
         IN /\ r \in [Nat -> Nat] /\ r[0] = 0
            /\ \A k \in 1 .. i : r[k] = r[k - 1] + Room(k)
            /\ \A k \in 0 .. i : r[k] <= r[i]
            /\ Page * r[i] + n <= size + Page * n
<1> DEFINE r == [q EXCEPT ![i] = q[i - 1] + Room(i)]
           p == Cardinality(Partials(i - 1))
           n == Cardinality(Partials(i))
           h == file.ph[i]
<1>1. /\ q \in [Nat -> Nat] /\ q[0] = 0 /\ \A k \in 1 .. i - 1 : q[k] = q[k - 1] + Room(k)
      /\ \A k \in 0 .. i - 1 : q[k] <= q[i - 1]
      /\ Page * q[i - 1] + p <= kernel_size + Page * p
  BY DEF Rooms
<1>2. /\ Len(file.ph) \in Nat /\ Room(i) \in Nat /\ h.memsz \in Nat /\ Pages(h) \in Nat
      /\ RoundUp(h.memsz) = Page * Pages(h) /\ DOMAIN file.ph = 1 .. Len(file.ph)
  BY HeaderOf
<1>3. i \in Nat \ {0} /\ i - 1 \in Nat /\ q[i - 1] \in Nat /\ kernel_size \in Nat /\ Page \in Nat \ {0}
  <2>1. i \in Nat \ {0} /\ i - 1 \in Nat
    BY <1>2
  <2>2. q[i - 1] \in Nat
    BY <1>1, <2>1
  <2>3. QED
    BY <2>1, <2>2, ElfAssumption DEF Typed
<1>4. p \in Nat /\ n = p + (IF Partial(i) THEN 1 ELSE 0)
  BY PartialsAre
<1> HIDE DEF h, p, n
<1>5. /\ r \in [Nat -> Nat] /\ r[i] = q[i - 1] + Room(i) /\ r[i] \in Nat
      /\ \A k \in 0 .. i - 1 : r[k] = q[k]
  <2>1. q[i - 1] + Room(i) \in Nat /\ i \in Nat
    BY <1>2, <1>3
  <2>2. r \in [Nat -> Nat] /\ r[i] = q[i - 1] + Room(i)
    BY <1>1, <2>1
  <2>3. ASSUME NEW k \in 0 .. i - 1  PROVE r[k] = q[k]
    <3>1. k \in Nat /\ k # i
      BY <1>3
    <3>2. QED
      BY <1>1, <3>1
  <2>4. QED
    BY <2>1, <2>2, <2>3
<1> HIDE DEF r
<1>6. \A k \in 1 .. i : r[k] = r[k - 1] + Room(k)
  <2>1. ASSUME NEW k \in 1 .. i  PROVE r[k] = r[k - 1] + Room(k)
    <3>1. CASE k = i
      <4>1. r[i - 1] = q[i - 1]
        <5>1. i - 1 \in 0 .. i - 1
          BY <1>3
        <5>2. QED
          BY <1>5, <5>1
      <4>2. QED
        BY <1>5, <3>1, <4>1
    <3>2. CASE k # i
      <4>1. k \in 1 .. i - 1 /\ k \in 0 .. i - 1 /\ k - 1 \in 0 .. i - 1
        BY <1>3, <3>2
      <4>2. QED
        BY <1>1, <1>5, <4>1
    <3>3. QED
      BY <3>1, <3>2
  <2>2. QED
    BY <2>1
<1>7. \A k \in 0 .. i : r[k] <= r[i]
  <2>1. ASSUME NEW k \in 0 .. i  PROVE r[k] <= r[i]
    <3>1. CASE k = i
      BY <1>5, <3>1
    <3>2. CASE k # i
      <4>1. k \in 0 .. i - 1
        BY <1>3, <3>2
      <4>2. r[k] = q[k] /\ q[k] <= q[i - 1]
        BY <1>1, <1>5, <4>1
      <4>3. q[k] \in Nat
        <5>1. k \in Nat
          BY <1>3, <4>1
        <5>2. QED
          BY <1>1, <5>1
      <4>4. q[k] <= q[i - 1] + Room(i)
        BY <1>2, <1>3, <4>2, <4>3
      <4>5. QED
        BY <1>5, <4>2, <4>4, Zenon
    <3>3. QED
      BY <3>1, <3>2
  <2>2. QED
    BY <2>1
<1>8. Page * r[i] + n <= size + Page * n
  <2> DEFINE a == Page * q[i - 1]
             e == Page * p
             w == Page * Pages(h)
  <2>1. a \in Nat /\ e \in Nat /\ w \in Nat
    BY <1>2, <1>3, <1>4, Products
  <2>2. a + p <= kernel_size + e
    BY <1>1
  <2>3. CASE ~ Load(h)
    <3>1. Room(i) = 0 /\ ~ Partial(i) /\ size = kernel_size
      <4>1. size = kernel_size
        BY <1>2, <1>3, <2>3 DEF Load, h
      <4>2. QED
        BY <2>3, <4>1 DEF Room, Partial, Segments, h
    <3>2. r[i] = q[i - 1] /\ n = p
      BY <1>3, <1>4, <1>5, <3>1
    <3>3. QED
      BY <2>2, <3>1, <3>2
  <2>4. CASE Load(h)
    <3>1. Room(i) = Pages(h) /\ size = kernel_size + h.memsz
      BY <2>4 DEF Room, Load, h
    <3>2. Page * r[i] = a + w
      <4>1. Page * (q[i - 1] + Pages(h)) = a + w
        BY <1>2, <1>3, Distributes
      <4>2. QED
        BY <1>5, <3>1, <4>1, Zenon
    <3>3. CASE h.memsz % Page = 0
      <4>1. w = h.memsz
        BY <1>2, <3>3, RoundingAdds
      <4>2. n = p
        <5>1. ~ Partial(i)
          BY <3>3 DEF Partial, h
        <5>2. QED
          BY <1>4, <5>1
      <4> HIDE DEF a, e, w
      <4>3. a + w + p <= size + e
        <5>1. size = kernel_size + w
          BY <3>1, <4>1, Zenon
        <5>2. QED
          BY <1>3, <1>4, <2>1, <2>2, <5>1
      <4>4. QED
        BY <3>2, <4>2, <4>3, Zenon DEF e
    <3>4. CASE h.memsz % Page # 0
      <4>1. w <= h.memsz + Page - 1
        BY <1>2, RoundingAdds
      <4>2. n = p + 1
        <5>1. Partial(i)
          BY <1>2, <2>4, <3>4 DEF Partial, Segments, h
        <5>2. QED
          BY <1>4, <5>1
      <4>3. Page * (p + 1) = e + Page
        <5>1. Page * (p + 1) = e + Page * 1
          BY <1>3, <1>4, Distributes
        <5>2. QED
          BY <1>3, <5>1
      <4> HIDE DEF a, e, w
      <4>4. a + w + (p + 1) <= size + (e + Page)
        BY <1>2, <1>3, <1>4, <2>1, <2>2, <3>1, <4>1
      <4>5. QED
        BY <3>2, <4>2, <4>3, <4>4, Zenon
    <3>5. QED
      BY <3>3, <3>4
  <2>5. QED
    BY <2>3, <2>4
<1>9. r[0] = 0
  BY <1>1, <1>3, <1>5
<1>10. QED
  BY <1>5, <1>6, <1>7, <1>8, <1>9 DEF r, n

(* The spare page makes up for two segments that end inside a page.        *)
LEMMA RoomFor ==
  ASSUME Typed, NEW q, Rooms(Len(file.ph), q)
  PROVE  /\ over \in Nat /\ RoundUp(kernel_size) \div Page \in Nat
         /\ \A k \in 0 .. Len(file.ph) :
              q[k] \in Nat /\ q[k] <= RoundUp(kernel_size) \div Page + 1 + over
<1> DEFINE n == Cardinality(Partials(Len(file.ph)))
           t == RoundUp(kernel_size) \div Page
           z == q[Len(file.ph)]
<1>1. n \in Nat /\ Len(file.ph) \in Nat
  BY PartialsAre, ElfAssumption DEF Typed
<1>2. over = IF n > 2 THEN n - 2 ELSE 0
  BY DEF over, Partials
<1>3. over \in Nat
  BY <1>1, <1>2
<1>4. kernel_size \in Nat /\ t \in Nat /\ kernel_size <= RoundUp(kernel_size) /\ RoundUp(kernel_size) = Page * t
  BY Rounded DEF Typed
<1>5. /\ z \in Nat /\ \A k \in 0 .. Len(file.ph) : q[k] \in Nat /\ q[k] <= z
      /\ Page * z + n <= kernel_size + Page * n
  BY <1>1 DEF Rooms
<1>6. Page \in Nat \ {0}
  BY ElfAssumption
<1> HIDE DEF n, t, z
<1>7. z < t + n + 1 /\ (n > 0 => z < t + n)
  <2> DEFINE a == Page * z
             e == Page * n
             u == Page * t
  <2>1. a \in Nat /\ e \in Nat /\ u \in Nat /\ t + n \in Nat
    BY <1>1, <1>4, <1>5, <1>6, Products
  <2>2. Page * (t + n) = u + e /\ Page * ((t + n) + 1) = (u + e) + Page
    <3>1. Page * (t + n) = u + e
      BY <1>1, <1>4, <1>6, Distributes
    <3>2. Page * ((t + n) + 1) = Page * (t + n) + Page * 1
      BY <1>6, <2>1, Distributes
    <3>3. QED
      BY <1>6, <3>1, <3>2
  <2>3. a + n <= kernel_size + e /\ kernel_size <= u
    BY <1>4, <1>5
  <2> HIDE DEF a, e, u
  <2>4. a < (u + e) + Page
    BY <1>1, <1>4, <1>6, <2>1, <2>3
  <2>5. n > 0 => a < u + e
    BY <1>1, <1>4, <1>6, <2>1, <2>3
  <2>6. z < (t + n) + 1
    <3>1. Page * z < Page * ((t + n) + 1)
      BY <2>2, <2>4, Zenon DEF a
    <3>2. (t + n) + 1 \in Nat
      BY <2>1
    <3>3. QED
      BY <1>5, <3>1, <3>2, Cancels
  <2>7. ASSUME n > 0  PROVE z < t + n
    <3>1. a < u + e
      BY <2>5, <2>7
    <3>2. Page * z < Page * (t + n)
      BY <2>2, <3>1, Zenon DEF a
    <3>3. QED
      BY <1>5, <2>1, <3>2, Cancels
  <2>8. QED
    BY <2>6, <2>7
<1>8. z <= t + 1 + over
  BY <1>1, <1>2, <1>4, <1>5, <1>7
<1>9. ASSUME NEW k \in 0 .. Len(file.ph)  PROVE q[k] \in Nat /\ q[k] <= t + 1 + over
  BY <1>3, <1>4, <1>5, <1>8
<1>10. QED
  BY <1>3, <1>4, <1>9 DEF t

-----------------------------------------------------------------------------
(* Where a page begins.                                                    *)
LEMMA PageOf ==
  ASSUME NEW x \in Nat
  PROVE  /\ Page * x \in Nat /\ (Page * x) \div Page = x
         /\ \A y \in Nat : RoundUp(Page * x + y) = Page * x + RoundUp(y)
<1>1. Page * x \in Nat /\ Page * x = Page * x + 0 /\ 0 \in 0 .. Page - 1
  <2>1. Page \in Nat \ {0}
    BY ElfAssumption
  <2>2. Page * x \in Nat
    BY <2>1, Products
  <2> DEFINE a == Page * x
  <2> HIDE DEF a
  <2>3. a \in Nat => a = a + 0
    OBVIOUS
  <2>4. QED
    BY <2>1, <2>2, <2>3 DEF a
<1>2. (Page * x) \div Page = x
  BY <1>1, Quotient
<1>3. QED
  BY <1>1, <1>2, Rounded

LEMMA RoundedDown ==
  ASSUME NEW a \in Nat
  PROVE  RoundDown(a) = Page * (a \div Page) /\ a \div Page \in Nat
<1> DEFINE d == a \div Page
           x == a % Page
<1>1. d \in Nat /\ x \in 0 .. Page - 1 /\ a = Page * d + x /\ Page \in Nat
  BY Division, ElfAssumption
<1>2. RoundDown(a) = a - x
  BY DEF RoundDown
<1> HIDE DEF d, x
<1>3. Page * d \in Nat
  BY <1>1, Products
<1>4. RoundDown(a) = Page * d
  BY <1>1, <1>2, <1>3
<1>5. QED
  BY <1>1, <1>4 DEF d

(* The loop over the headers: a segment's bytes are written behind all     *)
(* pages of the earlier ones, and its pages go to those that they are in.  *)
LEMMA LoadKeeps ==
  ASSUME Typed, NEW q, Counted(q), Laid(q), LoadSegment, Load(ph)
  PROVE  Typed' /\ Counted(q)' /\ Laid(q)' /\ WritesBlock
<1> DEFINE h == file.ph[i]
           n == Len(file.ph)
           x == Base + q[i - 1]
<1>1. /\ pc = "load" /\ pc' = pc /\ i <= n /\ i' = i + 1
      /\ file' = file /\ kernel_size' = kernel_size /\ block' = block /\ entry' = entry
      /\ space' = Map(h) /\ mem' = Place(h, i) /\ phys' = RoundUp(phys + h.memsz) /\ Load(h)
  BY DEF LoadSegment, ph
<1>2. /\ Rooms(n, q) /\ block \in Blocks /\ phys = Page * x /\ entry = NULL
  BY <1>1 DEF Counted, Loading
<1>3. n \in Nat /\ i \in 1 .. n /\ DOMAIN file.ph = 1 .. n
  BY <1>1, ElfAssumption DEF Typed
<1>4. /\ h.memsz \in Nat /\ h.filesz \in Nat /\ Skew(h) \in Nat
      /\ First(h) \in Nat /\ Pages(h) \in Nat
      /\ RoundUp(h.memsz) = Page * Pages(h) /\ h.memsz <= Page * Pages(h)
  BY <1>3, HeaderOf
<1>5. /\ q \in [Nat -> Nat] /\ Base \in Nat /\ block \in Nat /\ RoundDown(block) = Page * Base
      /\ x \in Nat /\ phys \in Nat /\ phys \div Page = x
  <2>1. q \in [Nat -> Nat]
    BY <1>2 DEF Rooms
  <2>2. block \in Nat
    BY <1>2, ElfAssumption
  <2>3. Base \in Nat /\ RoundDown(block) = Page * Base
    BY <2>2, RoundedDown DEF Base
  <2>4. x \in Nat
    <3>1. i - 1 \in Nat
      BY <1>3
    <3>2. q[i - 1] \in Nat
      BY <2>1, <3>1
    <3>3. QED
      BY <2>3, <3>2
  <2>5. QED
    BY <1>2, <2>1, <2>2, <2>3, <2>4, PageOf
<1>6. q[i] = q[i - 1] + Pages(h) /\ q[i - 1] \in Nat /\ q[i] \in Nat
  <2>1. q[i] = q[i - 1] + Room(i)
    BY <1>2, <1>3 DEF Rooms
  <2>2. Room(i) = Pages(h)
    BY <1>1 DEF Room
  <2>3. q[i - 1] \in Nat /\ q[i] \in Nat
    <3>1. i - 1 \in Nat /\ i \in Nat
      BY <1>3
    <3>2. QED
      BY <1>5, <3>1
  <2>4. QED
    BY <2>1, <2>2, <2>3
<1>7. phys' = Page * (Base + q[i])
  <2>1. phys' = phys + RoundUp(h.memsz)
    <3> HIDE DEF x, h
    <3>1. RoundUp(Page * x + h.memsz) = Page * x + RoundUp(h.memsz)
      BY <1>4, <1>5, PageOf
    <3>2. QED
      BY <1>1, <1>2, <3>1, Zenon
  <2>2. Page * (x + Pages(h)) = Page * x + Page * Pages(h)
    <3> HIDE DEF x, h
    <3>1. Page \in Int /\ x \in Int /\ Pages(h) \in Int
      BY <1>4, <1>5, PageIsNat
    <3>2. QED
      BY <3>1, Distributes, Zenon
  <2>3. x + Pages(h) = Base + q[i]
    BY <1>4, <1>5, <1>6
  <2>4. QED
    BY <1>2, <1>4, <2>1, <2>2, <2>3, Zenon
<1>8. space' = [v \in Virts |-> IF v \in Covered(h)
                               THEN [to |-> x + (v - First(h)), flags |-> Flags(h)]
                               ELSE space[v]]
  BY <1>1, <1>5, Zenon DEF Map
<1>9. mem' = [c \in Memory |->
                IF c \in phys + Skew(h) .. phys + Skew(h) + h.memsz - 1
                THEN IF c - (phys + Skew(h)) < h.filesz THEN <<i, c - (phys + Skew(h))>> ELSE Zero
                ELSE mem[c]]
  BY <1>1 DEF Place
<1>10. i' - 1 = i
  BY <1>1, <1>3
<1>11. Base' = Base /\ Loading' /\ file'.ph = file.ph
  BY <1>1 DEF Base, Loading
<1> HIDE DEF h, n, x
<1>12. Typed'
  <2>1. file' \in Images /\ i' \in 1 .. Len(file'.ph) + 1 /\ kernel_size' \in Nat
    BY <1>1, <1>3 DEF Typed, n
  <2>2. mem' = [c \in Memory |-> mem'[c]] /\ space' = [v \in Virts |-> space'[v]]
    BY <1>8, <1>9
  <2>3. QED
    BY <2>1, <2>2 DEF Typed
<1>13. Counted(q)'
  <2>1. Rooms(n, q)' /\ n' = n
    BY <1>1, <1>2, <1>11 DEF Rooms, Partials, Partial, Segments, Room, n
  <2>2. QED
    BY <1>1, <1>2, <1>7, <1>10, <1>11, <2>1 DEF Counted, n
<1>14. ASSUME NEW v \in Virts, v \in Covered(h)
       PROVE  space'[v] = [to |-> x + (v - First(h)), flags |-> Flags(h)]
  BY <1>8, <1>14
<1>15. ASSUME NEW v \in Virts, v \notin Covered(h)
       PROVE  space'[v] = space[v]
  BY <1>8, <1>15
<1>16. ASSUME NEW k, k = i  PROVE Mapped(k, q)' /\ Filled(k, q)'
  <2>1. ASSUME NEW v \in Covered(h) \cap Virts
        PROVE  space'[v] = [to |-> Base + q[i - 1] + (v - First(h)), flags |-> Flags(h)]
    BY <1>14, <2>1 DEF x
  <2>2. ASSUME NEW b \in 0 .. h.memsz - 1, Page * x + (Skew(h) + b) \in Memory
        PROVE  mem'[Page * x + (Skew(h) + b)] = IF b < h.filesz THEN <<i, b>> ELSE Zero
    <3> DEFINE c == phys + (Skew(h) + b)
    <3>1. /\ c \in phys + Skew(h) .. phys + Skew(h) + h.memsz - 1 /\ c - (phys + Skew(h)) = b
      BY <1>4, <1>5
    <3>2. c = Page * x + (Skew(h) + b)
      BY <1>2
    <3> HIDE DEF c
    <3>3. c \in Memory
      BY <2>2, <3>2
    <3>4. QED
      BY <1>9, <3>1, <3>2, <3>3
  <2>3. /\ \A v \in Covered(h) \cap Virts :
             space'[v] = [to |-> Base + q[i - 1] + (v - First(h)), flags |-> Flags(h)]
        /\ \A b \in 0 .. h.memsz - 1 :
             LET c == Page * (Base + q[i - 1]) + (Skew(h) + b)
             IN Skew(h) + b < Page * Pages(h) /\ c \in Memory
                => mem'[c] = IF b < h.filesz THEN <<i, b>> ELSE Zero
    BY <2>1, <2>2 DEF x
  <2>4. Mapped(k, q)'
    BY <1>11, <1>16, <2>3, Zenon DEF Mapped, h
  <2>5. Filled(k, q)'
    BY <1>11, <1>16, <2>3, Zenon DEF Filled, h
  <2>6. QED
    BY <2>4, <2>5
<1>17. ASSUME NEW k \in 1 .. i - 1, Load(file.ph[k])
       PROVE  Mapped(k, q)' /\ Filled(k, q)' /\ q[k] <= q[i]
  <2> DEFINE g == file.ph[k]
             y == Base + q[k - 1]
  <2>1. Mapped(k, q) /\ Filled(k, q) /\ q[k] <= q[i - 1]
    BY <1>1, <1>17 DEF Laid, Loading
  <2>2. k \in 1 .. n /\ k - 1 \in Nat /\ k \in Nat /\ k # i
    BY <1>3
  <2>3. g.memsz \in Nat /\ Skew(g) \in Nat /\ Pages(g) \in Nat
    BY <2>2, HeaderOf DEF n
  <2>4. q[k] = q[k - 1] + Pages(g) /\ q[k] \in Nat /\ q[k - 1] \in Nat
    <3>1. q[k] = q[k - 1] + Room(k)
      BY <1>2, <2>2 DEF Rooms
    <3>2. QED
      BY <1>5, <1>17, <2>2, <3>1 DEF Room
  <2>5. q[k] <= q[i]
    BY <1>4, <1>6, <2>1, <2>4
  <2> HIDE DEF g
  <2>6. ASSUME NEW v \in Covered(g) \cap Virts,
               \A j \in k + 1 .. i : Load(file.ph[j]) => v \notin Covered(file.ph[j])
        PROVE  space'[v] = [to |-> Base + q[k - 1] + (v - First(g)), flags |-> Flags(g)]
    <3>1. v \notin Covered(h)
      <4>1. i \in k + 1 .. i
        BY <1>3
      <4>2. QED
        BY <1>1, <2>6, <4>1 DEF h
    <3>2. \A j \in k + 1 .. i - 1 : Load(file.ph[j]) => v \notin Covered(file.ph[j])
      <4>1. \A j \in k + 1 .. i - 1 : j \in k + 1 .. i
        BY <1>3
      <4>2. QED
        BY <2>6, <4>1
    <3>3. space[v] = [to |-> Base + q[k - 1] + (v - First(g)), flags |-> Flags(g)]
      BY <2>1, <3>2 DEF Mapped, g
    <3>4. QED
      BY <1>15, <3>1, <3>3
  <2>7. ASSUME NEW b \in 0 .. g.memsz - 1, Skew(g) + b < Page * Pages(g),
               Page * y + (Skew(g) + b) \in Memory
        PROVE  mem'[Page * y + (Skew(g) + b)] = IF b < g.filesz THEN <<k, b>> ELSE Zero
    <3> DEFINE o == Skew(g) + b
               c == Page * y + o
    <3>1. y \in Nat /\ o \in Nat /\ o < Page * Pages(g)
      BY <1>5, <2>3, <2>4, <2>7
    <3>2. Page * (y + Pages(g)) = Page * y + Page * Pages(g)
      BY <2>3, <3>1, ElfAssumption, Distributes
    <3>3. y + Pages(g) \in Nat /\ x - (y + Pages(g)) \in Nat
      BY <1>5, <1>6, <2>1, <2>3, <2>4 DEF x
    <3> DEFINE w == x - (y + Pages(g))
               z == y + Pages(g)
    <3>4. z + w = x
      BY <1>5, <3>3
    <3>5. Page * x = Page * z + Page * w
      <4>1. z \in Int /\ w \in Int /\ Page \in Int
        BY <3>3, ElfAssumption
      <4> HIDE DEF z, w
      <4>2. QED
        BY <3>4, <4>1, Distributes
    <3>6. Page * z \in Nat /\ Page * w \in Nat /\ Page * y \in Nat /\ Page * Pages(g) \in Nat
      BY <2>3, <3>1, <3>3, ElfAssumption, Products
    <3>7. c < phys /\ c \in Nat
      <4> DEFINE e == Page * y
                 u == Page * Pages(g)
                 t == Page * w
      <4>1. phys = (e + u) + t /\ e \in Nat /\ u \in Nat /\ t \in Nat /\ o < u /\ o \in Nat
        BY <1>2, <3>1, <3>2, <3>5, <3>6
      <4>2. c = e + o
        OBVIOUS
      <4> HIDE DEF e, u, t, c, o
      <4>3. QED
        BY <4>1, <4>2
    <3>8. mem[c] = IF b < g.filesz THEN <<k, b>> ELSE Zero
      BY <2>1, <2>7 DEF Filled, g
    <3> HIDE DEF c
    <3>9. c \notin phys + Skew(h) .. phys + Skew(h) + h.memsz - 1
      BY <1>4, <1>5, <3>7
    <3>10. mem'[c] = mem[c]
      <4>1. c \in Memory
        BY <2>7 DEF c
      <4>2. QED
        BY <1>9, <3>9, <4>1
    <3>11. QED
      BY <3>8, <3>10 DEF c
  <2>8. Mapped(k, q)'
    <3>1. \A v \in Covered(g) \cap Virts :
            (\A j \in k + 1 .. i : Load(file.ph[j]) => v \notin Covered(file.ph[j]))
            => space'[v] = [to |-> Base + q[k - 1] + (v - First(g)), flags |-> Flags(g)]
      BY <2>6
    <3>2. QED
      BY <1>10, <1>11, <3>1, Zenon DEF Mapped, g
  <2>9. Filled(k, q)'
    <3>1. \A b \in 0 .. g.memsz - 1 :
            LET c == Page * (Base + q[k - 1]) + (Skew(g) + b)
            IN Skew(g) + b < Page * Pages(g) /\ c \in Memory
               => mem'[c] = IF b < g.filesz THEN <<k, b>> ELSE Zero
      BY <2>7
    <3>2. QED
      BY <1>11, <3>1, Zenon DEF Filled, g
  <2>10. QED
    BY <2>5, <2>8, <2>9
<1>18. ASSUME NEW v \in Virts, space'[v] # Unmapped
       PROVE  \E z \in Nat : z < q[i] /\ space'[v].to = Base + z
  <2>1. CASE v \in Covered(h)
    <3> DEFINE z == q[i - 1] + (v - First(h))
    <3>1. v - First(h) \in 0 .. Pages(h) - 1
      BY <1>4, <2>1, ElfAssumption DEF Covered
    <3>2. z \in Nat /\ z < q[i] /\ x + (v - First(h)) = Base + z
      BY <1>4, <1>5, <1>6, <3>1 DEF x
    <3>3. space'[v].to = x + (v - First(h))
      <4> DEFINE to == x + (v - First(h))
      <4>1. space'[v] = [to |-> to, flags |-> Flags(h)]
        BY <1>14, <2>1
      <4> HIDE DEF to
      <4>2. space'[v].to = to
        BY <4>1
      <4>3. QED
        BY <4>2 DEF to
    <3> HIDE DEF z
    <3>4. space'[v].to = Base + z
      BY <3>2, <3>3
    <3>5. QED
      BY <3>2, <3>4
  <2>2. CASE v \notin Covered(h)
    <3>1. space'[v] = space[v]
      BY <1>15, <2>2
    <3>2. PICK z \in Nat : z < q[i - 1] /\ space[v].to = Base + z
      BY <1>1, <1>18, <3>1 DEF Laid, Loading
    <3>3. z < q[i]
      BY <1>4, <1>6, <3>2
    <3>4. QED
      BY <3>1, <3>2, <3>3
  <2>3. QED
    BY <2>1, <2>2
<1>19. Laid(q)'
  <2>1. ASSUME NEW k \in 1 .. i, Load(file.ph[k])
        PROVE  Mapped(k, q)' /\ Filled(k, q)' /\ q[k] <= q[i]
    <3>1. CASE k = i
      <4>1. q[i] <= q[i]
        BY <1>6
      <4>2. Mapped(k, q)' /\ Filled(k, q)'
        BY <1>16, <3>1
      <4>3. QED
        BY <3>1, <4>1, <4>2
    <3>2. CASE k # i
      <4>1. k \in 1 .. i - 1
        BY <1>3, <3>2
      <4>2. QED
        BY <1>17, <2>1, <4>1
    <3>3. QED
      BY <3>1, <3>2
  <2>2. QED
    BY <1>10, <1>11, <1>18, <2>1 DEF Laid
<1>20. WritesBlock
  <2> SUFFICES ASSUME NEW c \in Memory, mem'[c] # mem[c]
               PROVE  LET addr == RoundDown(block)
                      IN c \in addr .. addr + block_size + Page * over + Skew(ph) - 1
    BY DEF WritesBlock
  <2> DEFINE t == RoundUp(kernel_size) \div Page
             addr == Page * Base
             size == Page * (t + 1 + over)
  <2>1. c \in phys + Skew(h) .. phys + Skew(h) + h.memsz - 1
    BY <1>9
  <2>2. over \in Nat /\ t \in Nat /\ q[i] <= t + 1 + over
    <3>1. i \in 0 .. n
      BY <1>3
    <3>2. QED
      BY <1>2, <3>1, RoomFor DEF n
  <2>3. block_size + Page * over = size /\ size \in Nat
    <3>1. RoundUp(kernel_size) = Page * t /\ RoundUp(kernel_size) \in Nat
      BY Rounded DEF Typed
    <3> HIDE DEF t
    <3>2. t + 1 \in Nat /\ over \in Int /\ Page \in Nat
      BY <2>2, PageIsNat
    <3>3. size = Page * (t + 1) + Page * over
      BY <3>2, Distributes
    <3>4. Page * (t + 1) = Page * t + Page
      <4>1. Page * (t + 1) = Page * t + Page * 1
        BY <2>2, <3>2, Distributes
      <4>2. QED
        BY <3>2, <4>1
    <3>5. block_size = Page * (t + 1)
      BY <3>1, <3>4 DEF block_size
    <3>6. size \in Nat
      BY <2>2, <3>2, Products
    <3>7. QED
      BY <3>3, <3>5, <3>6
  <2> HIDE DEF t
  <2>4. phys = addr + Page * q[i - 1] /\ addr \in Nat /\ Page * q[i - 1] \in Nat
    <3>1. Page * (Base + q[i - 1]) = Page * Base + Page * q[i - 1]
      <4>1. Base \in Int /\ q[i - 1] \in Int
        BY <1>5, <1>6
      <4>2. QED
        BY <4>1, PageIsNat, Distributes, Zenon
    <3>2. QED
      BY <1>2, <1>5, <1>6, <3>1, PageIsNat, Products DEF x
  <2>5. Page * q[i - 1] + h.memsz <= size
    <3> DEFINE w == (t + 1 + over) - q[i]
    <3>1. w \in Nat /\ (q[i - 1] + Pages(h)) + w = t + 1 + over
      BY <1>4, <1>6, <2>2
    <3>2. q[i - 1] + Pages(h) \in Nat /\ w \in Nat /\ Page \in Nat
      BY <1>4, <1>6, <3>1, PageIsNat
    <3> HIDE DEF w
    <3>3. size = Page * (q[i - 1] + Pages(h)) + Page * w
      BY <3>1, <3>2, Distributes
    <3>4. Page * (q[i - 1] + Pages(h)) = Page * q[i - 1] + Page * Pages(h)
      <4>1. Page \in Int /\ Pages(h) \in Int /\ q[i - 1] \in Int
        BY <1>4, <1>6, <3>2
      <4>2. QED
        BY <4>1, Distributes, Zenon
    <3>5. Page * w \in Nat /\ Page * Pages(h) \in Nat
      BY <1>4, <3>2, Products
    <3> HIDE DEF size
    <3>6. QED
      BY <1>4, <2>3, <2>4, <3>3, <3>4, <3>5
  <2> HIDE DEF addr, size
  <2>6. c \in addr .. addr + size + Skew(h) - 1
    <3> DEFINE a == Page * q[i - 1]
    <3>1. a \in Nat /\ phys = addr + a /\ a + h.memsz <= size
      BY <2>4, <2>5
    <3> HIDE DEF a
    <3>2. QED
      BY <1>4, <2>1, <2>3, <2>4, <3>1
  <2>7. RoundDown(block) = addr /\ ph = h
    BY <1>5 DEF addr, ph, h
  <2>8. addr + block_size + Page * over + Skew(h) - 1 = addr + size + Skew(h) - 1
    <3>1. block_size \in Int /\ Page * over \in Int
      <4>1. block_size \in Nat
        <5>1. RoundUp(kernel_size) \in Nat /\ Page \in Nat
          BY Rounded, ElfAssumption DEF Typed
        <5>2. QED
          BY <5>1 DEF block_size
      <4>2. Page * over \in Nat
        BY <2>2, ElfAssumption, Products
      <4>3. QED
        BY <4>1, <4>2
    <3>2. addr + block_size + Page * over = addr + (block_size + Page * over)
      BY <2>4, <3>1
    <3>3. QED
      BY <2>3, <3>2, Zenon
  <2>9. QED
    BY <2>6, <2>7, <2>8, Zenon
<1>21. QED
  BY <1>12, <1>13, <1>19, <1>20

(* Every other step.                                                       *)
LEMMA MeasureKeeps ==
  ASSUME Typed, NEW q, Counted(q), Measure
  PROVE  IInv' /\ mem' = mem
<1> DEFINE n == Len(file.ph)
<1>1. /\ pc = "measure" /\ entry = NULL /\ Rooms(i - 1, q) /\ space = [v \in Virts |-> Unmapped]
      /\ <<file, block, phys, mem, space, entry>>' = <<file, block, phys, mem, space, entry>>
  BY DEF Measure, Counted
<1>2. n \in Nat /\ i \in 1 .. n + 1 /\ kernel_size \in Nat
  BY ElfAssumption DEF Typed
<1>3. /\ \A k : Room(k)' = Room(k) /\ Partials(k)' = Partials(k)
      /\ n' = n
  BY <1>1 DEF Room, Partials, Partial, Segments
<1>4. CASE i <= n
  <2> DEFINE size == kernel_size + (IF file.ph[i].type = "LOAD" THEN file.ph[i].memsz ELSE 0)
  <2>1. pc' = pc /\ i' = i + 1 /\ i \in 1 .. n /\ kernel_size' = size
    BY <1>2, <1>4 DEF Measure, ph
  <2>2. size \in Nat
    <3>1. file.ph[i].memsz \in Nat
      BY <2>1, HeaderOf
    <3>2. QED
      BY <1>2, <3>1
  <2> HIDE DEF n, size
  <2>3. PICK r : r = [q EXCEPT ![i] = q[i - 1] + Room(i)]
    OBVIOUS
  <2>4. PICK m : m = i
    OBVIOUS
  <2>5. LET z == [q EXCEPT ![i] = q[i - 1] + Room(i)]
            p == Cardinality(Partials(i))
        IN /\ z \in [Nat -> Nat] /\ z[0] = 0
           /\ \A k \in 1 .. i : z[k] = z[k - 1] + Room(k)
           /\ \A k \in 0 .. i : z[k] <= z[i]
           /\ Page * z[i] + p <= size + Page * p
    BY <1>1, <2>1, <2>2, MeasureExtends DEF n, size
  <2>6. /\ r \in [Nat -> Nat] /\ r[0] = 0
        /\ \A k \in 1 .. m : r[k] = r[k - 1] + Room(k)
        /\ \A k \in 0 .. m : r[k] <= r[m]
        /\ Page * r[m] + Cardinality(Partials(m)) <= kernel_size' + Page * Cardinality(Partials(m))
    BY <2>1, <2>3, <2>4, <2>5, Zenon
  <2>7. Rooms(m, r)'
    BY <1>3, <2>6, Zenon DEF Rooms
  <2>8. Counted(r)'
    <3>1. i' - 1 = m
      BY <2>1, <2>4
    <3>2. Rooms(i - 1, r)'
      BY <2>7, <3>1
    <3>3. QED
      BY <1>1, <2>1, <3>2 DEF Counted, Loading
  <2>9. Laid(r)'
    BY <1>1, <2>1 DEF Laid, Loading
  <2>10. Typed'
    BY <1>1, <1>2, <2>1, <2>2 DEF Typed, n
  <2>11. QED
    BY <1>1, <2>8, <2>9, <2>10 DEF IInv
<1>5. CASE ~ i <= n
  <2>1. pc' = "alloc" /\ i' = 1 /\ kernel_size' = kernel_size
    BY <1>5 DEF Measure
  <2>2. Rooms(n, q)'
    <3>1. i - 1 = n
      BY <1>2, <1>5
    <3>2. Rooms(n, q)
      BY <1>1, <3>1
    <3> HIDE DEF n
    <3>3. QED
      BY <1>3, <2>1, <3>2 DEF Rooms
  <2>3. Counted(q)'
    BY <1>1, <1>3, <2>1, <2>2 DEF Counted, Loading
  <2>4. Laid(q)'
    BY <1>1, <2>1 DEF Laid, Loading
  <2>5. Typed'
    BY <1>1, <1>2, <2>1 DEF Typed
  <2>6. QED
    BY <1>1, <2>3, <2>4, <2>5 DEF IInv
<1>6. QED
  BY <1>4, <1>5

LEMMA OthersKeep ==
  ASSUME Typed, NEW q, Counted(q), Laid(q),
         Identify \/ Alloc \/ (LoadSegment /\ ~ Load(ph)) \/ Return \/ UNCHANGED vars
  PROVE  Typed' /\ Counted(q)' /\ Laid(q)' /\ mem' = mem
<1> DEFINE n == Len(file.ph)
<1>1. n \in Nat /\ i \in 1 .. n + 1 /\ kernel_size \in Nat /\ file' = file /\ kernel_size' = kernel_size
  BY ElfAssumption DEF Typed, Identify, Alloc, LoadSegment, Return, vars
<1>2. /\ n' = n /\ \A m : Rooms(m, q)' <=> Rooms(m, q)
  BY <1>1 DEF Rooms, Room, Partials, Partial, Segments
<1> HIDE DEF n
<1>3. CASE Identify
  <2>1. /\ pc = "identify" /\ pc' \in {"measure", "done"} /\ i = 1 /\ kernel_size = 0
        /\ entry = NULL /\ Rooms(i - 1, q) /\ space = [v \in Virts |-> Unmapped]
        /\ <<i, kernel_size, block, phys, mem, space, entry>>' =
             <<i, kernel_size, block, phys, mem, space, entry>>
    BY <1>3 DEF Identify, Counted
  <2>2. Typed'
    BY <1>1, <2>1 DEF Typed
  <2>3. Counted(q)'
    <3>1. Rooms(i - 1, q)'
      BY <1>2, <2>1
    <3>2. QED
      BY <1>1, <2>1, <3>1 DEF Counted, Loading
  <2>4. Laid(q)'
    BY <2>1 DEF Laid, Loading
  <2>5. QED
    BY <2>1, <2>2, <2>3, <2>4
<1>4. CASE Alloc
  <2>1. /\ pc = "alloc" /\ entry = NULL /\ i = 1 /\ Rooms(n, q) /\ space = [v \in Virts |-> Unmapped]
        /\ <<file, i, kernel_size, mem, space, entry>>' = <<file, i, kernel_size, mem, space, entry>>
    BY <1>4 DEF Alloc, Counted, n
  <2>2. \/ pc' = "done"
        \/ pc' = "load" /\ block' \in Blocks /\ phys' = RoundDown(block')
    BY <1>4 DEF Alloc
  <2>3. Typed'
    BY <1>1, <2>1 DEF Typed, n
  <2>4. CASE pc' = "done"
    <3>1. Counted(q)'
      BY <2>1, <2>4 DEF Counted, Loading
    <3>2. Laid(q)'
      BY <2>1, <2>4 DEF Laid, Loading
    <3>3. QED
      BY <2>1, <2>3, <3>1, <3>2
  <2>5. CASE pc' = "load" /\ block' \in Blocks /\ phys' = RoundDown(block')
    <3>1. phys' = Page * Base' /\ Base' \in Nat
      <4>1. block' \in Nat
        BY <2>5, ElfAssumption
      <4>2. RoundDown(block') = Page * (block' \div Page) /\ block' \div Page \in Nat
        BY <4>1, RoundedDown
      <4>3. QED
        BY <2>5, <4>2, Zenon DEF Base
    <3>2. i' - 1 = 0 /\ q[0] = 0
      BY <2>1 DEF Rooms
    <3>3. phys' = Page * (Base' + q[i' - 1])
      <4>1. Base' + q[i' - 1] = Base'
        BY <3>1, <3>2
      <4>2. QED
        BY <3>1, <4>1, Zenon
    <3>4. Rooms(n, q)'
      <4>1. \A m : m = n => Rooms(m, q)'
        BY <1>2, <2>1
      <4>2. QED
        BY <1>2, <4>1
    <3>5. Counted(q)'
      BY <2>1, <2>5, <3>3, <3>4 DEF Counted, n, Loading
    <3>6. Laid(q)'
      <4>1. \A k \in 1 .. i' - 1 : FALSE
        BY <3>2
      <4>2. \A v \in Virts : space'[v] = Unmapped
        BY <2>1
      <4>3. QED
        BY <4>1, <4>2 DEF Laid
    <3>7. QED
      BY <2>1, <2>3, <3>5, <3>6
  <2>6. QED
    BY <2>2, <2>4, <2>5
<1>5. CASE LoadSegment /\ ~ Load(ph)
  <2>1. /\ pc = "load" /\ i <= n /\ i' = i + 1 /\ entry = NULL
        /\ block \in Blocks /\ phys = Page * (Base + q[i - 1]) /\ Rooms(n, q)
        /\ <<file, pc, kernel_size, block, phys, mem, space, entry>>' =
             <<file, pc, kernel_size, block, phys, mem, space, entry>>
    BY <1>5 DEF LoadSegment, Counted, Loading, n
  <2>2. i \in 1 .. n /\ i' - 1 = i /\ ~ Load(file.ph[i])
    BY <1>1, <1>5, <2>1 DEF ph
  <2>3. q[i] = q[i - 1]
    <3>1. q[i] = q[i - 1] + Room(i) /\ q \in [Nat -> Nat]
      BY <2>1, <2>2 DEF Rooms
    <3>2. Room(i) = 0
      BY <2>2 DEF Room
    <3>3. q[i - 1] \in Nat
      <4>1. i - 1 \in Nat
        BY <1>1, <2>2
      <4>2. QED
        BY <3>1, <4>1
    <3>4. QED
      BY <3>1, <3>2, <3>3
  <2>4. Typed'
    BY <1>1, <2>1, <2>2 DEF Typed, n
  <2>5. Counted(q)'
    <3>1. phys' = Page * (Base' + q[i' - 1])
      BY <2>1, <2>2, <2>3, Zenon DEF Base
    <3>2. Rooms(n, q)'
      <4>1. \A m : m = n => Rooms(m, q)'
        BY <1>2, <2>1
      <4>2. QED
        BY <1>2, <4>1
    <3>3. QED
      BY <2>1, <2>2, <3>1, <3>2 DEF Counted, Loading, n
  <2>6. Laid(q)'
    <3>1. ASSUME NEW k \in 1 .. i, Load(file.ph[k])
          PROVE  Mapped(k, q)' /\ Filled(k, q)' /\ q[k] <= q[i]
      <4>1. k \in 1 .. i - 1
        BY <1>1, <2>2, <3>1
      <4>2. Mapped(k, q) /\ Filled(k, q) /\ q[k] <= q[i]
        BY <2>1, <2>3, <3>1, <4>1 DEF Laid, Loading
      <4>3. Mapped(k, q)'
        <5>1. ASSUME NEW j \in k + 1 .. i - 1  PROVE j \in k + 1 .. i
          BY <1>1, <2>2
        <5>2. QED
          BY <2>1, <2>2, <4>2, <5>1 DEF Mapped, Base
      <4>4. Filled(k, q)'
        BY <2>1, <4>2 DEF Filled, Base
      <4>5. QED
        BY <4>2, <4>3, <4>4
    <3>2. \A v \in Virts :
            space[v] # Unmapped => \E x \in Nat : x < q[i] /\ space[v].to = Base + x
      BY <2>1, <2>3 DEF Laid, Loading
    <3>3. QED
      BY <2>1, <2>2, <3>1, <3>2 DEF Laid, Base
  <2>7. QED
    BY <2>1, <2>4, <2>5, <2>6
<1>6. CASE Return \/ UNCHANGED vars
  <2>1. /\ <<file, i, kernel_size, block, phys, mem, space>>' =
             <<file, i, kernel_size, block, phys, mem, space>>
        /\ Loading' => Loading
    BY <1>6 DEF Return, vars, Loading, Counted
  <2>2. Base' = Base
    BY <2>1 DEF Base
  <2>3. Typed'
    BY <2>1 DEF Typed
  <2>4. Laid(q)'
    BY <2>1, <2>2 DEF Laid, Mapped, Filled
  <2>5. Counted(q)'
    <3>1. CASE UNCHANGED vars
      <4>1. \A m : Rooms(m, q)' <=> Rooms(m, q)
        BY <1>2
      <4>2. /\ Rooms(i - 1, q)' <=> Rooms(i - 1, q)
            /\ Rooms(Len(file.ph), q)' <=> Rooms(Len(file.ph), q)
        BY <2>1, <4>1
      <4>3. pc' = pc /\ entry' = entry
        BY <3>1 DEF vars
      <4>4. QED
        BY <2>1, <2>2, <4>2, <4>3 DEF Counted, Loading
    <3>2. CASE Return
      <4>1. pc = "load" /\ i > n /\ pc' = "done" /\ i = n + 1
        BY <1>1, <3>2 DEF Return, n
      <4>2. Rooms(n, q)'
        <5>1. \A m : m = n => Rooms(m, q)'
          BY <1>2, <4>1 DEF Counted, Loading, n
        <5>2. QED
          BY <1>2, <5>1
      <4>3. QED
        BY <2>1, <2>2, <4>1, <4>2 DEF Counted, Loading, n
    <3>3. QED
      BY <1>6, <3>1, <3>2
  <2>6. QED
    BY <2>1, <2>3, <2>4, <2>5
<1>7. QED
  BY <1>3, <1>4, <1>5, <1>6

LEMMA InitIInv == Init => IInv
<1> SUFFICES ASSUME Init  PROVE IInv
  OBVIOUS
<1> DEFINE q == [k \in Nat |-> 0]
<1>1. /\ file \in Images /\ pc = "identify" /\ i = 1 /\ kernel_size = 0 /\ entry = NULL
      /\ mem = [c \in Memory |-> Old] /\ space = [v \in Virts |-> Unmapped]
  BY DEF Init
<1>2. Typed
  <2>1. Len(file.ph) \in Nat
    BY <1>1, ElfAssumption
  <2>2. QED
    BY <1>1, <2>1 DEF Typed
<1>3. Rooms(0, q)
  <2>1. Cardinality(Partials(0)) = 0
    BY <1>2, PartialsAre
  <2>2. Page * 0 + 0 <= 0 + Page * 0
    BY ElfAssumption
  <2>3. q \in [Nat -> Nat] /\ q[0] = 0
    OBVIOUS
  <2> HIDE DEF q
  <2>4. QED
    BY <1>1, <2>1, <2>2, <2>3 DEF Rooms
<1> HIDE DEF q
<1>4. Counted(q)
  <2>1. Rooms(i - 1, q)
    <3>1. i - 1 = 0
      BY <1>1
    <3>2. QED
      BY <1>3, <3>1
  <2>2. QED
    BY <1>1, <2>1 DEF Counted, Loading
<1>5. Laid(q)
  BY <1>1 DEF Laid, Loading
<1>6. QED
  BY <1>2, <1>4, <1>5 DEF IInv

LEMMA NextIInv == IInv /\ [Next]_vars => IInv' /\ (WritesBlock \/ mem' = mem)
<1> SUFFICES ASSUME IInv, [Next]_vars  PROVE IInv' /\ (WritesBlock \/ mem' = mem)
  OBVIOUS
<1>1. Typed
  BY DEF IInv
<1>2. PICK q : Counted(q) /\ Laid(q)
  BY DEF IInv
<1>3. ASSUME Typed' /\ Counted(q)' /\ Laid(q)'  PROVE IInv'
  BY <1>3 DEF IInv
<1>4. CASE LoadSegment /\ Load(ph)
  <2>1. Typed' /\ Counted(q)' /\ Laid(q)' /\ WritesBlock
    BY <1>1, <1>2, <1>4, LoadKeeps
  <2>2. QED
    BY <1>3, <2>1
<1>5. CASE Identify \/ Alloc \/ (LoadSegment /\ ~ Load(ph)) \/ Return \/ UNCHANGED vars
  <2>1. Typed' /\ Counted(q)' /\ Laid(q)' /\ mem' = mem
    BY <1>1, <1>2, <1>5, OthersKeep
  <2>2. QED
    BY <1>3, <2>1
<1>6. CASE Measure
  BY <1>1, <1>2, <1>6, MeasureKeeps
<1>7. QED
  BY <1>4, <1>5, <1>6 DEF Next, Ended

LEMMA Invariance == Spec => []IInv
<1>1. IInv /\ [Next]_vars => IInv'
  BY NextIInv
<1>2. QED
  BY <1>1, InitIInv, PTL DEF Spec

(* Where a byte of a loaded segment is found, if its page is one of those  *)
(* that the segment fills and no later one has it.                         *)
LEMMA ByteAt ==
  ASSUME Typed, NEW q, Counted(q), Laid(q), entry # NULL, Memory = Nat, Virts = Nat,
         NEW k \in Segments, NEW b \in 0 .. file.ph[k].memsz - 1,
         Aligned(file.ph[k]) % Page = 0,
         (file.ph[k].vaddr + b) \div Page \in Covered(file.ph[k]),
         \A j \in Segments : j > k => (file.ph[k].vaddr + b) \div Page \notin Covered(file.ph[j])
  PROVE  LET h == file.ph[k]
         IN /\ space[(h.vaddr + b) \div Page].flags = Flags(h)
            /\ mem[Translate(h.vaddr + b)] = IF b < h.filesz THEN <<k, b>> ELSE Zero
<1> DEFINE h == file.ph[k]
           n == Len(file.ph)
           o == Skew(h) + b
           v == (h.vaddr + b) \div Page
           x == Base + q[k - 1]
<1>1. n \in Nat /\ k \in 1 .. n /\ Load(h) /\ i = n + 1 /\ DOMAIN file.ph = 1 .. n
  <2>1. n \in Nat /\ DOMAIN file.ph = 1 .. n
    BY ElfAssumption DEF Typed
  <2>2. QED
    BY <2>1 DEF Segments, Counted
<1>2. /\ h.vaddr \in Nat /\ h.memsz \in Nat /\ Aligned(h) \in Nat /\ Aligned(h) <= h.vaddr
      /\ Skew(h) \in Nat /\ First(h) \in Nat /\ Pages(h) \in Nat
  BY <1>1, HeaderOf
<1>3. Mapped(k, q) /\ Filled(k, q)
  <2>1. k \in 1 .. i - 1
    BY <1>1
  <2>2. QED
    BY <1>1, <2>1 DEF Laid, Loading
<1>4. q \in [Nat -> Nat] /\ block \in Nat
  BY ElfAssumption DEF Counted, Loading, Rooms
<1>5. x \in Nat
  <2>1. k - 1 \in Nat
    BY <1>1
  <2>2. q[k - 1] \in Nat /\ Base \in Nat
    BY <1>4, <2>1, Division DEF Base
  <2>3. QED
    BY <2>2
<1>6. b \in Nat /\ o \in Nat /\ h.vaddr + b = Aligned(h) + o
  <2> HIDE DEF h
  <2>1. b \in Nat
    BY <1>2 DEF h
  <2>2. QED
    BY <1>2, <2>1 DEF Skew
<1>7. Aligned(h) = Page * First(h)
  <2>1. Aligned(h) = Page * First(h) + (Aligned(h) % Page)
    BY <1>2, Division DEF First
  <2>2. Aligned(h) = Page * First(h) + 0
    BY <2>1, Zenon
  <2>3. Page * First(h) \in Nat
    BY <1>2, ElfAssumption, Products
  <2> HIDE DEF h
  <2>4. QED
    BY <2>2, <2>3
<1> DEFINE d == o \div Page
<1>8. v = First(h) + d /\ (h.vaddr + b) % Page = o % Page
  <2> HIDE DEF o, h
  <2>1. (Page * First(h) + o) \div Page = First(h) + d /\ (Page * First(h) + o) % Page = o % Page
    BY <1>2, <1>6, Behind
  <2>2. QED
    BY <1>6, <1>7, <2>1, Zenon
<1>9. d \in Nat /\ o = Page * d + (o % Page) /\ o % Page \in 0 .. Page - 1
  <2> HIDE DEF o
  <2>1. QED
    BY <1>6, Division
<1>10. v \in Covered(h)
  OBVIOUS
<1> HIDE DEF d, v, x
<1>11. d < Pages(h) /\ v - First(h) = d
  <2> HIDE DEF h
  <2>1. QED
    BY <1>2, <1>8, <1>9, <1>10 DEF Covered
<1>12. space[v] = [to |-> x + d, flags |-> Flags(h)]
  <2>1. \A j \in k + 1 .. i - 1 : Load(file.ph[j]) => v \notin Covered(file.ph[j])
    <3>1. \A j \in k + 1 .. i - 1 : j \in DOMAIN file.ph /\ j > k
      BY <1>1
    <3>2. QED
      BY <3>1 DEF v, Segments
  <2>2. v \in Nat
    BY <1>2, <1>8, <1>9
  <2>3. space[v] = [to |-> x + (v - First(h)), flags |-> Flags(h)]
    BY <1>3, <1>10, <2>1, <2>2 DEF Mapped, x
  <2>4. QED
    BY <1>11, <2>3
<1> HIDE DEF h, o
<1>13. Page * Pages(h) \in Nat /\ o < Page * Pages(h)
  <2>1. Page * Pages(h) \in Nat
    BY <1>2, ElfAssumption, Products
  <2> DEFINE w == Pages(h) - (d + 1)
  <2>2. w \in Nat /\ Pages(h) = (d + 1) + w
    BY <1>2, <1>9, <1>11
  <2> HIDE DEF w
  <2>3. Page * Pages(h) = Page * (d + 1) + Page * w
    <3>1. d + 1 \in Int /\ w \in Int /\ Page \in Int
      BY <1>9, <2>2, ElfAssumption
    <3>2. Page * ((d + 1) + w) = Page * (d + 1) + Page * w
      BY <3>1, Distributes, Zenon
    <3>3. QED
      BY <2>2, <3>2, Zenon
  <2>4. Page * (d + 1) = Page * d + Page
    <3>1. Page * (d + 1) = Page * d + Page * 1
      BY <1>9, ElfAssumption, Distributes
    <3>2. QED
      BY <3>1, ElfAssumption
  <2>5. Page * w \in Nat /\ Page * d \in Nat
    BY <1>9, <2>2, ElfAssumption, Products
  <2> DEFINE e == Page * d
             u == Page * w
             y == o % Page
  <2>6. o = e + y /\ y \in 0 .. Page - 1 /\ Page * Pages(h) = (e + Page) + u
    BY <1>9, <2>3, <2>4
  <2> HIDE DEF e, u, y
  <2>7. QED
    BY <2>1, <2>5, <2>6, ElfAssumption DEF e, u
<1>14. Translate(h.vaddr + b) = Page * x + o
  <2> DEFINE y == o % Page
  <2>1. Translate(h.vaddr + b) = (x + d) * Page + y
    <3>1. space[v].to = x + d
      BY <1>12
    <3>2. QED
      BY <1>8, <3>1 DEF Translate, v
  <2> HIDE DEF y
  <2>2. (x + d) * Page = Page * x + Page * d
    <3>1. x \in Int /\ d \in Int /\ Page \in Int
      BY <1>5, <1>9, ElfAssumption
    <3>2. Page * (x + d) = Page * x + Page * d
      BY <3>1, Distributes, Zenon
    <3>3. (x + d) * Page = Page * (x + d)
      BY <3>1
    <3>4. QED
      BY <3>2, <3>3, Zenon
  <2>3. Page * x \in Nat /\ Page * d \in Nat
    BY <1>5, <1>9, ElfAssumption, Products
  <2>4. y \in Nat /\ o = Page * d + y
    BY <1>9, ElfAssumption DEF y
  <2> DEFINE e == Page * x
             u == Page * d
  <2>5. e \in Nat /\ u \in Nat /\ o = u + y
    BY <2>3, <2>4
  <2>6. Translate(h.vaddr + b) = (e + u) + y
    BY <2>1, <2>2, Zenon
  <2> HIDE DEF e, u
  <2>7. (e + u) + y = e + (u + y)
    BY <2>4, <2>5
  <2>8. QED
    BY <2>5, <2>6, <2>7, Zenon DEF e
<1>15. mem[Page * x + o] = IF b < h.filesz THEN <<k, b>> ELSE Zero
  <2>1. Page * x + o \in Memory
    <3>1. Page * x \in Nat
      BY <1>5, ElfAssumption, Products
    <3>2. QED
      BY <1>6, <3>1
  <2>2. \A c \in 0 .. h.memsz - 1 :
          LET a == Page * x + (Skew(h) + c)
          IN Skew(h) + c < Page * Pages(h) /\ a \in Memory
             => mem[a] = IF c < h.filesz THEN <<k, c>> ELSE Zero
    BY <1>3, Zenon DEF Filled, h, x
  <2>3. b \in 0 .. h.memsz - 1
    BY DEF h
  <2>4. QED
    BY <1>13, <2>1, <2>2, <2>3, Zenon DEF o
<1>16. space[v].flags = Flags(h)
  BY <1>12
<1>17. QED
  BY <1>14, <1>15, <1>16, Zenon DEF h, v

-----------------------------------------------------------------------------
(* The kernel is entered with every byte that a segment's header puts into *)
(* the segment's own pages where it was linked to, and with the header's   *)
(* permissions: elf64_load() puts no segment over another one's pages in   *)
(* memory, for any image and any block. Physical memory and the virtual    *)
(* addresses are without an end.                                           *)
THEOREM ImageIsInPlace ==
  ASSUME Memory = Nat, Virts = Nat
  PROVE  Spec => []ImageInPlace
<1>1. IInv => ImageInPlace
  <2> SUFFICES ASSUME IInv, entry # NULL, NEW k \in Segments,
                      NEW b \in 0 .. file.ph[k].memsz - 1,
                      Aligned(file.ph[k]) % Page = 0,
                      (file.ph[k].vaddr + b) \div Page \in Covered(file.ph[k]),
                      \A j \in Segments :
                        j > k => (file.ph[k].vaddr + b) \div Page \notin Covered(file.ph[j])
               PROVE  LET h == file.ph[k]
                      IN /\ space[(h.vaddr + b) \div Page].flags = Flags(h)
                         /\ mem[Translate(h.vaddr + b)] = IF b < h.filesz THEN <<k, b>> ELSE Zero
    BY Zenon DEF ImageInPlace
  <2>1. PICK q : Counted(q) /\ Laid(q)
    BY DEF IInv
  <2>2. Typed
    BY DEF IInv
  <2>3. QED
    BY <2>1, <2>2, ByteAt
<1>2. Spec => []IInv
  BY Invariance
<1>3. QED
  BY <1>1, <1>2, PTL

(* The region that aurix_get_memmap() marks as the kernel's has all pages  *)
(* that are mapped for the kernel, but for one page for each segment after *)
(* the second that ends inside a page.                                     *)
THEOREM RegionIsWhole == Spec => []RegionCovers
<1>1. IInv => RegionCovers
  <2> SUFFICES ASSUME IInv, entry # NULL, NEW v \in Virts, space[v] # Unmapped
               PROVE  LET addr == RoundDown(block)
                          end == addr + marked_size(addr) + Page * over
                      IN addr <= space[v].to * Page /\ space[v].to * Page + Page <= end
    BY DEF RegionCovers
  <2>1. PICK q : Counted(q) /\ Laid(q)
    BY DEF IInv
  <2>2. Typed
    BY DEF IInv
  <2> DEFINE t == RoundUp(kernel_size) \div Page
             addr == RoundDown(block)
  <2>3. Rooms(Len(file.ph), q) /\ block \in Nat /\ i - 1 = Len(file.ph) /\ Len(file.ph) \in Nat
    BY <2>1, <2>2, ElfAssumption DEF Counted, Loading, Typed
  <2>4. addr = Page * Base /\ Base \in Nat
    BY <2>3, RoundedDown DEF Base
  <2>5. PICK x \in Nat : x < q[i - 1] /\ space[v].to = Base + x
    BY <2>1 DEF Laid, Loading
  <2>6. over \in Nat /\ t \in Nat /\ x + 1 <= t + 1 + over
    <3>1. i - 1 \in 0 .. Len(file.ph)
      BY <2>3
    <3>2. over \in Nat /\ t \in Nat /\ q[i - 1] \in Nat /\ q[i - 1] <= t + 1 + over
      BY <2>2, <2>3, <3>1, RoomFor
    <3> HIDE DEF t
    <3>3. QED
      BY <2>5, <3>2
  <2>7. marked_size(addr) = Page * t + Page
    <3>1. RoundDown(addr) = addr
      <4>1. addr \in Nat /\ addr \div Page = Base
        BY <2>4, PageOf
      <4> HIDE DEF addr
      <4>2. RoundDown(addr) = Page * (addr \div Page)
        BY <4>1, RoundedDown
      <4>3. QED
        BY <2>4, <4>1, <4>2, Zenon
    <3>2. addr - addr + kernel_size = kernel_size
      <4>1. addr \in Nat /\ kernel_size \in Nat
        BY <2>2, <2>4, PageOf DEF Typed
      <4> HIDE DEF addr
      <4>2. QED
        BY <4>1
    <3>3. RoundUp(kernel_size) = Page * t
      BY <2>2, Rounded DEF Typed
    <3> HIDE DEF addr, t
    <3>4. QED
      BY <3>1, <3>2, <3>3, Zenon DEF marked_size
  <2> HIDE DEF t, addr
  <2>8. space[v].to * Page = addr + Page * x /\ addr \in Nat /\ Page * x \in Nat
    <3>1. Base \in Int /\ x \in Int /\ Page \in Int
      BY <2>4, <2>5, ElfAssumption
    <3>2. Page * (Base + x) = Page * Base + Page * x
      BY <3>1, Distributes, Zenon
    <3>3. (Base + x) * Page = Page * (Base + x)
      BY <3>1
    <3>4. Page * Base \in Nat /\ Page * x \in Nat
      BY <2>4, <2>5, PageOf
    <3>5. QED
      BY <2>4, <2>5, <3>2, <3>3, <3>4, Zenon
  <2>9. Page * x + Page <= Page * t + Page + Page * over
    <3> DEFINE w == (t + over) - x
    <3>1. w \in Nat /\ x + w = t + over
      BY <2>5, <2>6
    <3>2. x \in Int /\ w \in Int /\ t \in Int /\ over \in Int /\ Page \in Int
      BY <2>5, <2>6, <3>1, ElfAssumption
    <3> HIDE DEF w
    <3>3. Page * (x + w) = Page * x + Page * w /\ Page * (t + over) = Page * t + Page * over
      BY <3>2, Distributes, Zenon
    <3>4. Page * x + Page * w = Page * t + Page * over
      BY <3>1, <3>3, Zenon
    <3>5. Page * x \in Nat /\ Page * w \in Nat /\ Page * t \in Nat /\ Page * over \in Nat /\ Page \in Nat
      BY <2>5, <2>6, <3>1, ElfAssumption, Products
    <3>6. QED
      BY <3>4, <3>5
  <2>10. Page * x \in Nat /\ Page * t \in Nat /\ Page * over \in Nat /\ Page \in Nat
    BY <2>5, <2>6, ElfAssumption, Products
  <2> DEFINE a == Page * x
             e == Page * t
             u == Page * over
  <2>11. addr <= addr + a /\ (addr + a) + Page <= (addr + (e + Page)) + u
    <3>1. a \in Nat /\ e \in Nat /\ u \in Nat /\ a + Page <= e + Page + u /\ addr \in Nat /\ Page \in Nat
      BY <2>8, <2>9, <2>10
    <3> HIDE DEF a, e, u
    <3>2. QED
      BY <3>1
  <2>12. QED
    BY <2>7, <2>8, <2>11, Zenon DEF addr
<1>2. Spec => []IInv
  BY Invariance
<1>3. QED
  BY <1>1, <1>2, PTL

(* elf64_load() leaves the block that it allocated only by the page that a *)
(* block's beginning is cut to, the pages of the third and later segments  *)
(* that end inside a page, and a segment's distance from its aligned       *)
(* address.                                                                *)
THEOREM WritesStayInBlock == Spec => WritesInBlock
<1>1. IInv /\ [Next]_vars => [WritesBlock]_vars
  <2>1. mem' = mem => WritesBlock
    BY DEF WritesBlock
  <2>2. QED
    BY <2>1, NextIInv
<1>2. Spec => []IInv
  BY Invariance
<1>3. QED
  BY <1>1, <1>2, PTL DEF Spec, WritesInBlock
=============================================================================
