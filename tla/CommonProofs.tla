---------------------------- MODULE CommonProofs ----------------------------
(***************************************************************************)
(* The parts of src/common that call no other: proofs about Menu for every *)
(* list of pointer devices, every number of screen modes, and clocks and   *)
(* keys without a bound; about Lists for every set of addresses, every     *)
(* data and any number of calls; and about Strings for every set of        *)
(* characters and of delimiters, and blocks of every size.                 *)
(***************************************************************************)
EXTENDS Menu, Lists, Strings, FiniteSetTheorems, SequenceTheorems, WellFoundedInduction, TLAPS

(* The pointer that was found is a device of the list that passed the test *)
(* of its horizontal resolution, and what is kept of its resolution is the *)
(* lower 16 bits.                                                          *)
PInv ==
  /\ devices \in DeviceLists
  /\ at = "pointer" => i \in Nat \ {0}
  /\ pointer # 0 =>
       /\ devices[pointer].x \in Nat /\ devices[pointer].x < 65536
       /\ res.x = devices[pointer].x % 65536
       /\ res.y = devices[pointer].y % 65536
  /\ OnlyBadAxesTrap

LEMMA KeepsSixteenBits ==
  ASSUME NEW n \in Nat, n < 65536
  PROVE  n % 65536 = n
OBVIOUS

LEMMA NextPInv == PInv /\ [Next]_vars => PInv'
<1>1. SUFFICES ASSUME PInv, [Next]_vars  PROVE PInv'
  OBVIOUS
<1> USE DEF PInv, OnlyBadAxesTrap
<1>2. CASE TryDevice
  <2>1. devices \in Seq([x : Nat, y : Nat])
    BY <1>1, MenuAssumption
  <2>2. at = "pointer" /\ i \in 1 .. Len(devices) /\ devices' = devices
    BY <1>1, <1>2, <2>1 DEF TryDevice
  <2>3. devices[i] \in [x : Nat, y : Nat]
    BY <2>1, <2>2, ElementOfSeq, Zenon
  <2>4. CASE i' = i + 1 /\ UNCHANGED <<at, pointer, res>>
    BY <1>1, <2>2, <2>4
  <2>5. CASE /\ Fits(devices[i]) /\ at' = "native" /\ pointer' = i
             /\ res' = [x |-> devices[i].x % 65536, y |-> devices[i].y % 65536]
    <3>1. devices[i].x \in Nat /\ devices[i].x < 65536
      BY <2>3, <2>5 DEF Fits
    <3>2. /\ res'.x = devices'[pointer'].x % 65536
          /\ res'.y = devices'[pointer'].y % 65536
      BY <2>2, <2>5
    <3>3. QED
      BY <1>1, <2>2, <2>5, <3>1, <3>2
  <2>6. CASE at' = "fault" /\ UNCHANGED <<i, pointer, res>>
    BY <1>1, <2>2, <2>6
  <2>7. QED
    BY <1>2, <2>4, <2>5, <2>6 DEF TryDevice
<1>3. CASE NoDevice
  BY <1>1, <1>3 DEF NoDevice, pointer_vars
<1>4. CASE get_mouse
  <2>1. /\ at = "mouse" /\ UNCHANGED <<devices, pointer, res, i>>
        /\ at' = "key" \/ (at' = "trap" /\ pointer # 0 /\ 0 \in {res.x, res.y})
    BY <1>4 DEF get_mouse, pointer_vars
  <2>2. CASE at' = "key"
    BY <1>1, <2>1, <2>2
  <2>3. CASE at' = "trap" /\ pointer # 0 /\ 0 \in {res.x, res.y}
    <3>1. devices[pointer].x % 65536 = 0 \/ devices[pointer].y % 65536 = 0
      BY <1>1, <2>3
    <3>2. devices[pointer].x % 65536 = devices[pointer].x
      BY <1>1, <2>3, KeepsSixteenBits
    <3>3. QED
      BY <1>1, <2>1, <2>3, <3>1, <3>2
  <2>4. QED
    BY <2>1, <2>2, <2>3
<1>5. CASE QueryNative \/ QueryMode
  BY <1>1, <1>5 DEF QueryNative, QueryMode, pointer_vars
<1>6. CASE StartInterface \/ get_datetime
  BY <1>1, <1>6 DEF StartInterface, get_datetime, pointer_vars
<1>7. CASE get_keypress \/ Dispatch
  BY <1>1, <1>7 DEF get_keypress, Dispatch, pointer_vars
<1>8. CASE Interrupt \/ Clock \/ Press
  BY <1>1, <1>8 DEF Interrupt, Clock, Press, pointer_vars
<1>9. CASE Ended \/ UNCHANGED vars
  BY <1>1, <1>9 DEF Ended, vars, pointer_vars
<1>10. QED
  BY <1>1, <1>2, <1>3, <1>4, <1>5, <1>6, <1>7, <1>8, <1>9
     DEF Next, Loader, uefi_entry, get_framebuffer, ui_init

(* Whatever devices the firmware lists, in whatever order and however many *)
(* of them, and whichever cannot be opened: a movement is divided by zero  *)
(* only if the one that was found lacks its horizontal axis, or 16 bits    *)
(* keep nothing of its vertical resolution.                                *)
THEOREM PointerIsSafe == Spec => []OnlyBadAxesTrap
<1>1. Init => PInv
  BY DEF Init, PInv, OnlyBadAxesTrap
<1>2. PInv /\ [Next]_vars => PInv'
  BY NextPInv
<1>3. PInv => OnlyBadAxesTrap
  BY DEF PInv
<1>4. QED
  BY <1>1, <1>2, <1>3, PTL DEF Spec

-----------------------------------------------------------------------------
(* The list of modes: entry n describes mode n, unless the query of that   *)
(* mode failed; mode_info starts as the current mode.                      *)
SInv ==
  /\ gop \in [started : BOOLEAN, mode : Nat, max : Nat] /\ gop.mode < gop.max
  /\ missed \in BOOLEAN
  /\ at = "modes" => gop.started
  /\ at = "unlisted" => ~gop.started
  /\ at \in {"pointer", "native"} => modes = << >>
  /\ at = "native" => i = 0
  /\ at = "modes" =>
       /\ i \in Nat /\ i <= gop.max
       /\ modes \in Seq(Nat) /\ Len(modes) = i
       /\ (gop.mode < i /\ ~missed) => modes[gop.mode + 1] = gop.mode
       /\ info \in Nat
  /\ at \notin {"pointer", "native", "unlisted", "modes", "halt", "fault"} =>
       (gop.started /\ ~missed => screen = gop.mode)

LEMMA NextSInv == SInv /\ [Next]_vars => SInv'
<1>1. SUFFICES ASSUME SInv, [Next]_vars  PROVE SInv'
  OBVIOUS
<1> USE DEF SInv
<1>2. CASE uefi_entry
  BY <1>1, <1>2 DEF uefi_entry, TryDevice, NoDevice, screen_vars
<1>3. CASE QueryNative
  BY <1>1, <1>3 DEF QueryNative
<1>4. CASE QueryMode
  <2>1. /\ at = "modes" /\ at' = "modes" /\ i \in Nat /\ i' = i + 1 /\ i' <= gop.max
        /\ gop.started /\ gop' = gop /\ gop.mode \in Nat
        /\ modes \in Seq(Nat) /\ Len(modes) = i /\ modes' = Append(modes, info')
    BY <1>1, <1>4 DEF QueryMode
  <2>2. info' \in Nat /\ missed' \in BOOLEAN
    BY <1>1, <1>4, <2>1 DEF QueryMode
  <2>3. /\ modes' \in Seq(Nat) /\ Len(modes') = i + 1 /\ modes'[i + 1] = info'
        /\ \A n \in 1 .. i : modes'[n] = modes[n]
    BY <2>1, <2>2
  <2>4. ASSUME gop.mode < i + 1, ~missed'
        PROVE  modes'[gop.mode + 1] = gop.mode
    <3>1. ~missed /\ (gop.mode = i => info' = i)
      <4>1. CASE info' = i /\ missed' = missed
        BY <2>4, <4>1
      <4>2. CASE missed' = (missed \/ i = gop.mode)
        BY <2>4, <4>2, Zenon
      <4>3. QED
        BY <1>4, <4>1, <4>2 DEF QueryMode
    <3>2. CASE gop.mode = i
      BY <2>3, <3>1, <3>2
    <3>3. CASE gop.mode < i
      BY <1>1, <2>1, <2>3, <3>1, <3>3
    <3>4. QED
      BY <2>1, <2>4, <3>2, <3>3
  <2>5. QED
    BY <1>1, <2>1, <2>2, <2>3, <2>4
<1>5. CASE StartInterface
  <2>1. at' = "time" /\ UNCHANGED <<gop, missed>>
    BY <1>5 DEF StartInterface
  <2>2. gop.started /\ ~missed => screen' = gop.mode
    <3>1. CASE at = "unlisted"
      BY <1>1, <3>1
    <3>2. CASE at = "modes" /\ i = gop.max
      BY <1>1, <1>5, <3>2 DEF StartInterface
    <3>3. QED
      BY <1>5, <3>1, <3>2 DEF StartInterface
  <2>3. QED
    BY <1>1, <2>1, <2>2
<1>6. CASE get_datetime \/ get_mouse
  BY <1>1, <1>6 DEF get_datetime, get_mouse, screen_vars
<1>7. CASE get_keypress \/ Dispatch
  BY <1>1, <1>7 DEF get_keypress, Dispatch, screen_vars
<1>8. CASE Interrupt \/ Clock \/ Press
  BY <1>1, <1>8 DEF Interrupt, Clock, Press, screen_vars, Rounds
<1>9. CASE Ended \/ UNCHANGED vars
  BY <1>1, <1>9 DEF Ended, vars, screen_vars
<1>10. QED
  BY <1>1, <1>2, <1>3, <1>4, <1>5, <1>6, <1>7, <1>8, <1>9
     DEF Next, Loader, get_framebuffer, ui_init

(* The interface takes its size from the entry of the current mode in the  *)
(* list, for any number of modes of which any but that one could not be    *)
(* queried.                                                                *)
THEOREM ScreenIsRight == Spec => []ScreenIsCurrent
<1>1. Init => SInv
  <2>1. SUFFICES ASSUME Init  PROVE SInv
    OBVIOUS
  <2>2. at = "pointer" /\ modes = << >> /\ missed = FALSE
    BY <2>1 DEF Init
  <2>3. gop \in [started : BOOLEAN, mode : Nat, max : Nat] /\ gop.mode < gop.max
    <3>1. PICK n \in ModeCounts : gop \in [started : BOOLEAN, mode : 0 .. n - 1, max : {n}]
      BY <2>1 DEF Init
    <3>2. n \in Nat \ {0}
      BY MenuAssumption
    <3>3. QED
      BY <3>1, <3>2
  <2>4. QED
    BY <2>2, <2>3 DEF SInv
<1>2. SInv => ScreenIsCurrent
  BY DEF SInv, ScreenIsCurrent, Rounds
<1>3. QED
  BY <1>1, <1>2, NextSInv, PTL DEF Spec
-----------------------------------------------------------------------------
(***************************************************************************)
(* The list: what it does to its nodes implements ListContract.            *)
(***************************************************************************)

(* p[0], p[1], ... are n nodes of memory m, each pointing to its           *)
(* neighbours.                                                             *)
Chain(m, p, n) ==
  /\ p \in [0 .. n - 1 -> Addresses]
  /\ \A j, k \in 0 .. n - 1 : p[j] = p[k] => j = k
  /\ \A k \in 0 .. n - 1 :
       /\ m[p[k]].next = IF k < n - 1 THEN p[k + 1] ELSE NULL
       /\ m[p[k]].prev = IF k > 0 THEN p[k - 1] ELSE NULL
       /\ m[p[k]].data \in Data

Nodes == [prev : Addresses \union {NULL}, next : Addresses \union {NULL}, data : Data \union {NULL}]

(* The list is the chain p, and its nodes are all that is allocated.       *)
ListIs(p) ==
  /\ count \in Nat /\ node \in [Addresses -> Nodes]
  /\ live \subseteq Addresses /\ IsFiniteSet(live) /\ Cardinality(live) = count
  /\ Chain(node, p, count) /\ \A k \in 0 .. count - 1 : p[k] \in live
  /\ root = IF count > 0 THEN p[0] ELSE NULL

LInv == \E p : ListIs(p)

Listed(p) == [k \in 1 .. count |-> node[p[k - 1]].data]

(* Induction on the naturals, for sets.                                    *)
LEMMA SetInduction ==
  ASSUME NEW T, 0 \in T, \A n \in Nat : n \in T => n + 1 \in T
  PROVE  Nat \subseteq T
<1> DEFINE R == Nat \ T
<1>1. SUFFICES ASSUME R # {}  PROVE FALSE
  OBVIOUS
<1>2. PICK m \in R : \A n \in R : <<n, m>> \notin OpToRel(<, Nat)
  <2> HIDE DEF R
  <2>1. R \subseteq Nat
    BY DEF R
  <2>2. QED
    BY <1>1, <2>1, NatLessThanWellFounded, WFMin
<1>3. m # 0 /\ m - 1 \in Nat /\ m - 1 < m
  OBVIOUS
<1>4. <<m - 1, m>> \in OpToRel(<, Nat)
  BY <1>3 DEF OpToRel
<1>5. m - 1 \in T
  BY <1>2, <1>3, <1>4, Zenon
<1>6. QED
  BY <1>3, <1>5

(* Following the pointers from the root meets the nodes in order.          *)
NthIs == \A p : ListIs(p) => \A k \in Nat : Nth(k) = IF k < count THEN p[k] ELSE NULL

LEMMA NthFollows == NthIs
<1> SUFFICES ASSUME NEW p, ListIs(p)
             PROVE  \A k \in Nat : Nth(k) = IF k < count THEN p[k] ELSE NULL
  BY DEF NthIs
<1> DEFINE Def(t) == [k \in Nat |-> IF k = 0 THEN root
                                   ELSE IF t[k - 1] = NULL THEN NULL ELSE node[t[k - 1]].next]
           c0 == CHOOSE t : t = Def(t)
           at0 == [k \in Nat |-> IF k < count THEN p[k] ELSE NULL]
<1>1. /\ count \in Nat /\ root = IF count > 0 THEN p[0] ELSE NULL
      /\ \A k \in 0 .. count - 1 :
           p[k] # NULL /\ node[p[k]].next = IF k < count - 1 THEN p[k + 1] ELSE NULL
  BY ListsAssumption DEF ListIs, Chain
<1>2. ASSUME NEW t, NEW k \in Nat, t = (IF k < count THEN p[k] ELSE NULL)
      PROVE  (IF t = NULL THEN NULL ELSE node[t].next) = IF k + 1 < count THEN p[k + 1] ELSE NULL
  BY <1>1, <1>2
<1>3. at0 = Def(at0)
  <2>1. ASSUME NEW k \in Nat
        PROVE  at0[k] = IF k = 0 THEN root
                        ELSE IF at0[k - 1] = NULL THEN NULL ELSE node[at0[k - 1]].next
    <3>1. CASE k = 0
      BY <1>1, <3>1
    <3>2. CASE k # 0
      <4>1. k - 1 \in Nat /\ (k - 1) + 1 = k /\ at0[k - 1] = IF k - 1 < count THEN p[k - 1] ELSE NULL
        BY <3>2
      <4>2. (IF at0[k - 1] = NULL THEN NULL ELSE node[at0[k - 1]].next)
              = IF k < count THEN p[k] ELSE NULL
        <5> HIDE DEF at0
        <5>1. (IF at0[k - 1] = NULL THEN NULL ELSE node[at0[k - 1]].next)
              = IF (k - 1) + 1 < count THEN p[(k - 1) + 1] ELSE NULL
          BY <1>2, <4>1
        <5>2. QED
          BY <4>1, <5>1, Zenon
      <4>3. QED
        BY <3>2, <4>2
    <3>3. QED
      BY <3>1, <3>2
  <2>2. QED
    BY <2>1
<1>4. c0 = Def(c0)
  <2> HIDE DEF at0
  <2>1. \E t : t = Def(t)
    BY <1>3
  <2>2. QED
    BY <2>1
<1>5. \A k : Nth(k) = c0[k]
  BY DEF Nth
<1> DEFINE T == {k \in Nat : c0[k] = IF k < count THEN p[k] ELSE NULL}
<1> HIDE DEF c0
<1>6. \A k \in Nat : c0[k] = IF k = 0 THEN root
                             ELSE IF c0[k - 1] = NULL THEN NULL ELSE node[c0[k - 1]].next
  BY <1>4
<1>7. 0 \in T
  BY <1>1, <1>6
<1>8. ASSUME NEW k \in Nat, k \in T  PROVE k + 1 \in T
  <2>1. k + 1 \in Nat /\ k + 1 # 0 /\ (k + 1) - 1 = k
    OBVIOUS
  <2>2. c0[k + 1] = IF c0[k] = NULL THEN NULL ELSE node[c0[k]].next
    <3>1. c0[k + 1] = IF c0[(k + 1) - 1] = NULL THEN NULL ELSE node[c0[(k + 1) - 1]].next
      BY <1>6, <2>1, Zenon
    <3>2. QED
      BY <2>1, <3>1, Zenon
  <2>3. c0[k] = IF k < count THEN p[k] ELSE NULL
    BY <1>8
  <2>4. c0[k + 1] = IF k + 1 < count THEN p[k + 1] ELSE NULL
    BY <1>2, <2>2, <2>3
  <2>5. QED
    BY <2>1, <2>4
<1>9. Nat \subseteq T
  <2> HIDE DEF T
  <2>1. QED
    BY <1>7, <1>8, SetInduction
<1>10. QED
  BY <1>5, <1>9

(* So the list holds the data of these nodes in order.                     *)
ItemsAre == \A p : ListIs(p) => Items = Listed(p)

LEMMA ItemsFollow == ItemsAre
<1> SUFFICES ASSUME NEW p, ListIs(p)  PROVE Items = Listed(p)
  BY DEF ItemsAre
<1>1. ASSUME NEW k \in 1 .. count
      PROVE  (IF Nth(k - 1) = NULL THEN NULL ELSE node[Nth(k - 1)].data) = node[p[k - 1]].data
  <2>1. k - 1 \in Nat /\ k - 1 < count /\ k - 1 \in 0 .. count - 1
    BY DEF ListIs
  <2>2. Nth(k - 1) = p[k - 1]
    BY <2>1, NthFollows DEF NthIs
  <2>3. p[k - 1] # NULL
    BY <2>1, ListsAssumption DEF ListIs, Chain
  <2>4. QED
    BY <2>2, <2>3
<1>2. QED
  BY <1>1 DEF Items, Listed

-----------------------------------------------------------------------------
(* list_add() on memory: a node behind the last one.                       *)
Made(m, new, d) == [m EXCEPT ![new] = [prev |-> NULL, next |-> NULL, data |-> d]]
Longer(p, n, new) == [k \in 0 .. n |-> IF k < n THEN p[k] ELSE new]

LEMMA ChainGrows ==
  ASSUME NEW m \in [Addresses -> Nodes], NEW n \in Nat, NEW p, Chain(m, p, n),
         NEW new \in Addresses, \A k \in 0 .. n - 1 : p[k] # new, NEW d \in Data,
         NEW m2, n = 0 => m2 = Made(m, new, d),
         n # 0 => m2 = [Made(m, new, d) EXCEPT ![p[n - 1]].next = new, ![new].prev = p[n - 1]]
  PROVE  /\ m2 \in [Addresses -> Nodes] /\ Chain(m2, Longer(p, n, new), n + 1)
         /\ m2[new].data = d /\ \A k \in 0 .. n - 1 : m2[p[k]].data = m[p[k]].data
<1> DEFINE q == Longer(p, n, new)
           made == Made(m, new, d)
<1>1. /\ made \in [Addresses -> Nodes] /\ made[new] = [prev |-> NULL, next |-> NULL, data |-> d]
      /\ \A a \in Addresses : a # new => made[a] = m[a]
  BY DEF Made, Nodes
<1>2. p \in [0 .. n - 1 -> Addresses] /\ \A j, k \in 0 .. n - 1 : p[j] = p[k] => j = k
  BY DEF Chain
<1>3. /\ q \in [0 .. (n + 1) - 1 -> Addresses] /\ q[n] = new
      /\ \A k \in 0 .. n - 1 : q[k] = p[k]
      /\ \A j, k \in 0 .. (n + 1) - 1 : q[j] = q[k] => j = k
  <2>1. q \in [0 .. (n + 1) - 1 -> Addresses] /\ q[n] = new /\ \A k \in 0 .. n - 1 : q[k] = p[k]
    BY <1>2 DEF Longer
  <2> HIDE DEF q
  <2>2. ASSUME NEW j \in 0 .. (n + 1) - 1, NEW k \in 0 .. (n + 1) - 1, q[j] = q[k]  PROVE j = k
    <3>1. (j = n \/ j \in 0 .. n - 1) /\ (k = n \/ k \in 0 .. n - 1)
      OBVIOUS
    <3>2. QED
      BY <1>2, <2>1, <2>2, <3>1
  <2>3. QED
    BY <2>1, <2>2
<1> HIDE DEF q, made
<1>4. CASE n = 0
  <2>1. m2 = made
    BY <1>4 DEF made
  <2>2. \A k \in 0 .. (n + 1) - 1 :
          /\ m2[q[k]].next = IF k < (n + 1) - 1 THEN q[k + 1] ELSE NULL
          /\ m2[q[k]].prev = IF k > 0 THEN q[k - 1] ELSE NULL
          /\ m2[q[k]].data \in Data
    BY <1>1, <1>3, <1>4, <2>1
  <2>3. QED
    BY <1>1, <1>3, <1>4, <2>1, <2>2 DEF Chain, q
<1>5. CASE n # 0
  <2> DEFINE t == p[n - 1]
  <2>1. t \in Addresses /\ t # new /\ n - 1 \in 0 .. n - 1
    BY <1>2, <1>5
  <2>2. m2 = [made EXCEPT ![t].next = new, ![new].prev = t]
    BY <1>5 DEF made
  <2> HIDE DEF t
  <2>3. /\ m2 \in [Addresses -> Nodes]
        /\ m2[t] = [made[t] EXCEPT !.next = new] /\ m2[new] = [made[new] EXCEPT !.prev = t]
        /\ \A a \in Addresses : a # t /\ a # new => m2[a] = made[a]
    BY <1>1, <2>1, <2>2 DEF Nodes
  <2>4. /\ m2[t].next = new /\ m2[t].prev = m[t].prev /\ m2[t].data = m[t].data
        /\ m2[new].next = NULL /\ m2[new].prev = t /\ m2[new].data = d
        /\ \A a \in Addresses : a # t /\ a # new => m2[a] = m[a]
    <3>1. made[t] = m[t] /\ m[t] \in Nodes
      BY <1>1, <2>1
    <3>2. QED
      BY <1>1, <2>1, <2>3, <3>1 DEF Nodes
  <2>5. ASSUME NEW k \in 0 .. n - 1
        PROVE  /\ m2[p[k]].next = q[k + 1] /\ m2[p[k]].prev = m[p[k]].prev
               /\ m2[p[k]].data = m[p[k]].data
    <3>1. CASE k = n - 1
      BY <1>3, <2>4, <3>1 DEF t
    <3>2. CASE k # n - 1
      <4>1. p[k] # t /\ p[k] # new /\ p[k] \in Addresses
        BY <1>2, <2>1, <3>2 DEF t
      <4>2. k + 1 \in 0 .. n - 1 /\ k < n - 1
        BY <3>2
      <4>3. m[p[k]].next = p[k + 1]
        BY <4>2 DEF Chain
      <4>4. q[k + 1] = p[k + 1]
        BY <1>3, <4>2
      <4>5. QED
        BY <2>4, <4>1, <4>3, <4>4
    <3>3. QED
      BY <3>1, <3>2
  <2>6. ASSUME NEW k \in 0 .. (n + 1) - 1
        PROVE  /\ m2[q[k]].next = IF k < (n + 1) - 1 THEN q[k + 1] ELSE NULL
               /\ m2[q[k]].prev = IF k > 0 THEN q[k - 1] ELSE NULL
               /\ m2[q[k]].data \in Data
    <3>1. CASE k = n
      <4>1. q[k] = new /\ q[k - 1] = t /\ k > 0 /\ ~ (k < (n + 1) - 1)
        BY <1>3, <1>5, <2>1, <3>1 DEF t
      <4>2. QED
        BY <2>4, <4>1
    <3>2. CASE k # n
      <4>1. k \in 0 .. n - 1 /\ k < (n + 1) - 1 /\ q[k] = p[k]
        BY <1>3, <3>2
      <4>2. m[p[k]].prev = (IF k > 0 THEN p[k - 1] ELSE NULL) /\ m[p[k]].data \in Data
        BY <4>1 DEF Chain
      <4>3. k > 0 => q[k - 1] = p[k - 1]
        BY <1>3, <4>1
      <4>4. QED
        BY <2>5, <4>1, <4>2, <4>3
    <3>3. QED
      BY <3>1, <3>2
  <2>7. Chain(m2, q, n + 1)
    BY <1>3, <2>6 DEF Chain
  <2>8. QED
    BY <2>3, <2>4, <2>5, <2>7 DEF q
<1>6. QED
  BY <1>4, <1>5

(* list_remove_at() on memory: the neighbours point past the node.         *)
Without(p, n, idx) == [k \in 0 .. n - 2 |-> IF k < idx THEN p[k] ELSE p[k + 1]]

LEMMA ChainShrinks ==
  ASSUME node \in [Addresses -> Nodes], NEW n \in Nat, NEW p, Chain(node, p, n),
         NEW idx \in 0 .. n - 1
  PROVE  LET m2 == Unlinked(p[idx])
             q == Without(p, n, idx)
         IN /\ m2 \in [Addresses -> Nodes] /\ Chain(m2, q, n - 1)
            /\ \A k \in 0 .. n - 1 : m2[p[k]].data = node[p[k]].data
            /\ m2[p[idx]].next = node[p[idx]].next
            /\ \A k \in 0 .. n - 2 : q[k] # p[idx]
<1> DEFINE m == node
           m2 == Unlinked(p[idx])
           q == Without(p, n, idx)
           b == IF idx > 0 THEN p[idx - 1] ELSE NULL
           e == IF idx < n - 1 THEN p[idx + 1] ELSE NULL
<1>1. /\ p \in [0 .. n - 1 -> Addresses] /\ \A j, k \in 0 .. n - 1 : p[j] = p[k] => j = k
      /\ m[p[idx]].prev = b /\ m[p[idx]].next = e
      /\ NULL \notin Addresses
  BY ListsAssumption DEF Chain
<1>2. /\ b # NULL => idx > 0 /\ b = p[idx - 1] /\ b \in Addresses
      /\ b = NULL => idx = 0
      /\ e # NULL => idx < n - 1 /\ e = p[idx + 1] /\ e \in Addresses
      /\ e = NULL => idx = n - 1
  BY <1>1
<1>3. \A k \in 0 .. n - 1 : (p[k] = b <=> k = idx - 1) /\ (p[k] = e <=> k = idx + 1)
  <2>1. ASSUME NEW k \in 0 .. n - 1  PROVE (p[k] = b <=> k = idx - 1) /\ (p[k] = e <=> k = idx + 1)
    <3>1. p[k] = b <=> k = idx - 1
      <4>1. CASE idx > 0
        <5>1. idx - 1 \in 0 .. n - 1
          BY <4>1
        <5>2. QED
          BY <1>1, <4>1, <5>1
      <4>2. CASE ~ idx > 0
        BY <1>1, <4>2
      <4>3. QED
        BY <4>1, <4>2
    <3>2. p[k] = e <=> k = idx + 1
      <4>1. CASE idx < n - 1
        <5>1. idx + 1 \in 0 .. n - 1
          BY <4>1
        <5>2. QED
          BY <1>1, <4>1, <5>1
      <4>2. CASE ~ idx < n - 1
        BY <1>1, <4>2
      <4>3. QED
        BY <4>1, <4>2
    <3>3. QED
      BY <3>1, <3>2
  <2>2. QED
    BY <2>1
<1>4. /\ m2 \in [Addresses -> Nodes]
      /\ \A a \in Addresses :
           /\ m2[a].data = m[a].data
           /\ m2[a].next = IF a = b THEN e ELSE m[a].next
           /\ m2[a].prev = IF a = e THEN b ELSE m[a].prev
  <2> DEFINE m1 == IF b = NULL THEN m ELSE [m EXCEPT ![b].next = e]
  <2>1. m2 = IF e = NULL THEN m1 ELSE [m1 EXCEPT ![e].prev = b]
    <3> HIDE DEF b, e
    <3>1. QED
      BY <1>1, Zenon DEF Unlinked
  <2>2. b \in Addresses \union {NULL} /\ e \in Addresses \union {NULL}
    BY <1>2
  <2> HIDE DEF b, e, m2
  <2>3. /\ m1 \in [Addresses -> Nodes]
        /\ \A a \in Addresses : /\ m1[a].data = m[a].data /\ m1[a].prev = m[a].prev
                                 /\ m1[a].next = IF a = b THEN e ELSE m[a].next
    <3>1. CASE b = NULL
      BY <1>1, <2>2, <3>1
    <3>2. CASE b # NULL
      <4>1. b \in Addresses /\ m1 = [m EXCEPT ![b].next = e]
        BY <2>2, <3>2
      <4>2. m1 \in [Addresses -> Nodes]
        BY <2>2, <4>1 DEF Nodes
      <4>3. ASSUME NEW a \in Addresses
            PROVE  /\ m1[a].data = m[a].data /\ m1[a].prev = m[a].prev
                   /\ m1[a].next = IF a = b THEN e ELSE m[a].next
        BY <2>2, <4>1 DEF Nodes
      <4>4. QED
        BY <4>2, <4>3
    <3>3. QED
      BY <3>1, <3>2
  <2> HIDE DEF m1
  <2>4. CASE e = NULL
    BY <1>1, <2>1, <2>3, <2>4
  <2>5. CASE e # NULL
    <3>1. e \in Addresses /\ m2 = [m1 EXCEPT ![e].prev = b]
      BY <2>1, <2>2, <2>5
    <3>2. m2 \in [Addresses -> Nodes]
      BY <2>2, <2>3, <3>1 DEF Nodes
    <3>3. ASSUME NEW a \in Addresses
          PROVE  /\ m2[a].data = m1[a].data /\ m2[a].next = m1[a].next
                 /\ m2[a].prev = IF a = e THEN b ELSE m1[a].prev
      BY <2>2, <2>3, <3>1 DEF Nodes
    <3>4. QED
      BY <2>3, <3>2, <3>3
  <2>6. QED
    BY <2>4, <2>5
<1>5. /\ q \in [0 .. (n - 1) - 1 -> Addresses]
      /\ \A k \in 0 .. n - 2 : q[k] = (IF k < idx THEN p[k] ELSE p[k + 1])
      /\ \A k \in 0 .. n - 2 : k \in 0 .. n - 1 /\ k + 1 \in 0 .. n - 1
  <2>1. (n - 1) - 1 = n - 2
    OBVIOUS
  <2>2. \A k \in 0 .. n - 2 : k \in 0 .. n - 1 /\ k + 1 \in 0 .. n - 1
    OBVIOUS
  <2>3. QED
    BY <1>1, <2>1, <2>2 DEF Without
<1> HIDE DEF m2, q, b, e
<1>6. ASSUME NEW j \in 0 .. (n - 1) - 1, NEW k \in 0 .. (n - 1) - 1, q[j] = q[k]  PROVE j = k
  <2>1. /\ j \in 0 .. n - 2 /\ k \in 0 .. n - 2
        /\ j \in 0 .. n - 1 /\ j + 1 \in 0 .. n - 1 /\ k \in 0 .. n - 1 /\ k + 1 \in 0 .. n - 1
    BY <1>5
  <2>2. CASE j < idx /\ k < idx
    BY <1>1, <1>5, <1>6, <2>1, <2>2
  <2>3. CASE j < idx /\ ~ k < idx
    BY <1>1, <1>5, <1>6, <2>1, <2>3
  <2>4. CASE ~ j < idx /\ k < idx
    BY <1>1, <1>5, <1>6, <2>1, <2>4
  <2>5. CASE ~ j < idx /\ ~ k < idx
    BY <1>1, <1>5, <1>6, <2>1, <2>5
  <2>6. QED
    BY <2>2, <2>3, <2>4, <2>5
<1>7. ASSUME NEW k \in 0 .. (n - 1) - 1
      PROVE  /\ m2[q[k]].next = IF k < (n - 1) - 1 THEN q[k + 1] ELSE NULL
             /\ m2[q[k]].prev = IF k > 0 THEN q[k - 1] ELSE NULL
             /\ m2[q[k]].data \in Data
             /\ q[k] # p[idx]
  <2>1. k \in 0 .. n - 2 /\ k \in 0 .. n - 1 /\ k + 1 \in 0 .. n - 1 /\ (n - 1) - 1 = n - 2
    BY <1>5
  <2> DEFINE x == IF k < idx THEN k ELSE k + 1
  <2>2. q[k] = p[x] /\ x \in 0 .. n - 1 /\ x # idx /\ p[x] \in Addresses
    BY <1>1, <1>5, <2>1
  <2>3. /\ m[p[x]].next = (IF x < n - 1 THEN p[x + 1] ELSE NULL)
        /\ m[p[x]].prev = (IF x > 0 THEN p[x - 1] ELSE NULL)
        /\ m[p[x]].data \in Data
    BY <2>2 DEF Chain
  <2>4. /\ m2[p[x]].data = m[p[x]].data
        /\ m2[p[x]].next = IF x = idx - 1 THEN e ELSE m[p[x]].next
        /\ m2[p[x]].prev = IF x = idx + 1 THEN b ELSE m[p[x]].prev
    <3> HIDE DEF x
    <3>1. (p[x] = b <=> x = idx - 1) /\ (p[x] = e <=> x = idx + 1)
      BY <1>3, <2>2
    <3>2. QED
      BY <1>4, <2>2, <3>1
  <2>5. q[k] # p[idx]
    <3> HIDE DEF x
    <3>1. QED
      BY <1>1, <2>2
  <2>6. m2[p[x]].next = IF k < n - 2 THEN q[k + 1] ELSE NULL
    <3>1. CASE x = idx - 1
      <4>1. m2[p[x]].next = e /\ k = idx - 1 /\ k < idx
        BY <2>1, <2>4, <3>1
      <4>2. e = IF k < n - 2 THEN p[k + 2] ELSE NULL
        <5>1. k + 2 = idx + 1 /\ (k < n - 2 <=> idx < n - 1)
          BY <2>1, <4>1
        <5>2. QED
          BY <5>1 DEF e
      <4>3. k < n - 2 => q[k + 1] = p[k + 2]
        <5>1. ASSUME k < n - 2  PROVE q[k + 1] = p[k + 2]
          <6>1. k + 1 \in 0 .. n - 2 /\ ~ (k + 1 < idx) /\ (k + 1) + 1 = k + 2
            BY <2>1, <4>1, <5>1
          <6>2. q[k + 1] = p[(k + 1) + 1]
            BY <1>5, <6>1
          <6>3. QED
            BY <6>1, <6>2, Zenon
        <5>2. QED
          BY <5>1
      <4>4. QED
        BY <4>1, <4>2, <4>3
    <3>2. CASE x # idx - 1
      <4>1. m2[p[x]].next = IF x < n - 1 THEN p[x + 1] ELSE NULL
        BY <2>3, <2>4, <3>2
      <4>2. CASE k < idx
        <5>1. x = k /\ k + 1 < idx /\ k < n - 2 /\ k < n - 1 /\ k + 1 \in 0 .. n - 2
          BY <2>1, <3>2, <4>2
        <5>2. q[k + 1] = p[k + 1]
          BY <1>5, <5>1
        <5>3. QED
          BY <4>1, <5>1, <5>2
      <4>3. CASE ~ k < idx
        <5>1. x = k + 1 /\ (x < n - 1 <=> k < n - 2)
          BY <2>1, <4>3
        <5>2. k < n - 2 => q[k + 1] = p[x + 1]
          <6>1. ASSUME k < n - 2  PROVE q[k + 1] = p[x + 1]
            <7>1. k + 1 \in 0 .. n - 2 /\ ~ (k + 1 < idx)
              BY <2>1, <4>3, <6>1
            <7>2. q[k + 1] = p[(k + 1) + 1]
              BY <1>5, <7>1
            <7>3. QED
              BY <5>1, <7>2, Zenon
          <6>2. QED
            BY <6>1
        <5> HIDE DEF x
        <5>3. QED
          BY <4>1, <5>1, <5>2
      <4>4. QED
        BY <4>2, <4>3
    <3>3. QED
      BY <3>1, <3>2
  <2>7. m2[p[x]].prev = IF k > 0 THEN q[k - 1] ELSE NULL
    <3>1. CASE x = idx + 1
      <4>1. m2[p[x]].prev = b /\ k = idx
        BY <2>1, <2>4, <3>1
      <4>2. k > 0 => q[k - 1] = p[idx - 1]
        <5>1. ASSUME k > 0  PROVE q[k - 1] = p[idx - 1]
          <6>1. k - 1 \in 0 .. n - 2 /\ k - 1 < idx
            BY <2>1, <4>1, <5>1
          <6>2. QED
            BY <1>5, <4>1, <6>1
        <5>2. QED
          BY <5>1
      <4>3. QED
        BY <4>1, <4>2 DEF b
    <3>2. CASE x # idx + 1
      <4>1. m2[p[x]].prev = IF x > 0 THEN p[x - 1] ELSE NULL
        BY <2>3, <2>4, <3>2
      <4>2. CASE k < idx
        <5>1. x = k
          BY <4>2
        <5>2. k > 0 => q[k - 1] = p[k - 1]
          <6>1. ASSUME k > 0  PROVE q[k - 1] = p[k - 1]
            <7>1. k - 1 \in 0 .. n - 2 /\ k - 1 < idx
              BY <2>1, <4>2, <6>1
            <7>2. QED
              BY <1>5, <7>1
          <6>2. QED
            BY <6>1
        <5> HIDE DEF x
        <5>3. QED
          BY <4>1, <5>1, <5>2
      <4>3. CASE ~ k < idx
        <5>1. x = k + 1 /\ k > idx /\ k > 0 /\ x > 0 /\ x - 1 = k
          BY <2>1, <3>2, <4>3
        <5>2. q[k - 1] = p[k]
          <6>1. k - 1 \in 0 .. n - 2 /\ ~ (k - 1 < idx) /\ (k - 1) + 1 = k
            BY <2>1, <5>1
          <6>2. q[k - 1] = p[(k - 1) + 1]
            BY <1>5, <6>1
          <6>3. QED
            BY <6>1, <6>2, Zenon
        <5> HIDE DEF x
        <5>3. QED
          BY <4>1, <5>1, <5>2
      <4>4. QED
        BY <4>2, <4>3
    <3>3. QED
      BY <3>1, <3>2
  <2> HIDE DEF x
  <2>8. QED
    BY <2>1, <2>2, <2>3, <2>4, <2>5, <2>6, <2>7
<1>8. Chain(m2, q, n - 1)
  <2>1. n - 1 \in Int
    OBVIOUS
  <2>2. QED
    BY <1>5, <1>6, <1>7 DEF Chain
<1>9. m2[p[idx]].next = m[p[idx]].next
  BY <1>1, <1>3, <1>4
<1>10. \A k \in 0 .. n - 2 : q[k] # p[idx]
  <2>1. (n - 1) - 1 = n - 2
    OBVIOUS
  <2>2. QED
    BY <1>7, <2>1
<1>11. QED
  BY <1>1, <1>4, <1>8, <1>9, <1>10 DEF m2, q

-----------------------------------------------------------------------------
(* A function on 1 .. n is the sequence that the contract speaks of.       *)
LEMMA FunctionIsSeq ==
  ASSUME NEW n \in Nat, NEW S, NEW f \in [1 .. n -> S]
  PROVE  f \in Seq(S) /\ Len(f) = n
OBVIOUS

LEMMA Appended ==
  ASSUME NEW n \in Nat, NEW f \in [1 .. n -> Data], NEW d \in Data, NEW g \in [1 .. n + 1 -> Data],
         g[n + 1] = d, \A k \in 1 .. n : g[k] = f[k]
  PROVE  g = Append(f, d)
<1>1. f \in Seq(Data) /\ Len(f) = n
  BY FunctionIsSeq
<1>2. n + 1 \in Nat
  OBVIOUS
<1>3. g \in Seq(Data) /\ Len(g) = n + 1
  BY <1>2, FunctionIsSeq
<1>4. /\ Append(f, d) \in Seq(Data) /\ Len(Append(f, d)) = n + 1
      /\ \A k \in 1 .. n : Append(f, d)[k] = f[k]
      /\ Append(f, d)[n + 1] = d
  BY <1>1, AppendProperties
<1>5. \A k \in 1 .. n + 1 : g[k] = Append(f, d)[k]
  <2>1. ASSUME NEW k \in 1 .. n + 1  PROVE g[k] = Append(f, d)[k]
    <3>1. k = n + 1 \/ k \in 1 .. n
      OBVIOUS
    <3>2. QED
      BY <1>4, <3>1
  <2>2. QED
    BY <2>1
<1>6. QED
  BY <1>3, <1>4, <1>5, SeqEqual

LEMMA Removed ==
  ASSUME NEW n \in Nat, NEW f \in [1 .. n -> Data], NEW idx \in 0 .. n - 1,
         NEW g \in [1 .. n - 1 -> Data],
         \A k \in 1 .. n - 1 : g[k] = IF k <= idx THEN f[k] ELSE f[k + 1]
  PROVE  g = SubSeq(f, 1, (idx + 1) - 1) \o SubSeq(f, (idx + 1) + 1, Len(f))
<1> DEFINE a == SubSeq(f, 1, idx)
           z == SubSeq(f, idx + 2, n)
<1>1. f \in Seq(Data) /\ Len(f) = n
  BY FunctionIsSeq
<1>2. n - 1 \in Nat
  OBVIOUS
<1>3. g \in Seq(Data) /\ Len(g) = n - 1
  BY <1>2, FunctionIsSeq
<1>4. a \in Seq(Data) /\ Len(a) = idx /\ \A k \in 1 .. idx : a[k] = f[k]
  <2>1. \A k \in 1 .. idx : f[k] \in Data
    OBVIOUS
  <2>2. /\ SubSeq(f, 1, idx) \in Seq(Data)
        /\ Len(SubSeq(f, 1, idx)) = IF 1 <= idx THEN idx - 1 + 1 ELSE 0
        /\ \A k \in 1 .. idx - 1 + 1 : SubSeq(f, 1, idx)[k] = f[1 + k - 1]
    BY <2>1, SubSeqProperties
  <2> HIDE DEF a
  <2>3. ASSUME NEW k \in 1 .. idx  PROVE SubSeq(f, 1, idx)[k] = f[k]
    <3>1. k \in 1 .. idx - 1 + 1 /\ 1 + k - 1 = k
      OBVIOUS
    <3>2. QED
      BY <2>2, <3>1
  <2>4. Len(SubSeq(f, 1, idx)) = idx
    BY <2>2
  <2>5. QED
    BY <2>2, <2>3, <2>4 DEF a
<1>5. z \in Seq(Data) /\ Len(z) = n - 1 - idx /\ \A k \in 1 .. n - 1 - idx : z[k] = f[idx + 1 + k]
  <2>1. \A k \in idx + 2 .. n : f[k] \in Data
    OBVIOUS
  <2>2. idx + 2 \in Int /\ n \in Int
    OBVIOUS
  <2>3. /\ SubSeq(f, idx + 2, n) \in Seq(Data)
        /\ Len(SubSeq(f, idx + 2, n)) = IF idx + 2 <= n THEN n - (idx + 2) + 1 ELSE 0
        /\ \A k \in 1 .. n - (idx + 2) + 1 : SubSeq(f, idx + 2, n)[k] = f[idx + 2 + k - 1]
    BY <2>1, <2>2, SubSeqProperties
  <2> HIDE DEF z
  <2>4. ASSUME NEW k \in 1 .. n - 1 - idx  PROVE SubSeq(f, idx + 2, n)[k] = f[idx + 1 + k]
    <3>1. k \in 1 .. n - (idx + 2) + 1 /\ idx + 2 + k - 1 = idx + 1 + k
      OBVIOUS
    <3>2. SubSeq(f, idx + 2, n)[k] = f[idx + 2 + k - 1]
      BY <2>3, <3>1
    <3>3. QED
      BY <3>1, <3>2, Zenon
  <2>5. Len(SubSeq(f, idx + 2, n)) = n - 1 - idx
    BY <2>3
  <2>6. QED
    BY <2>3, <2>4, <2>5 DEF z
<1> HIDE DEF a, z
<1>6. /\ a \o z \in Seq(Data) /\ Len(a \o z) = n - 1
      /\ \A k \in 1 .. n - 1 : (a \o z)[k] = IF k <= idx THEN a[k] ELSE z[k - idx]
  <2>1. /\ a \o z \in Seq(Data) /\ Len(a \o z) = Len(a) + Len(z)
        /\ \A k \in 1 .. Len(a) + Len(z) : (a \o z)[k] = IF k <= Len(a) THEN a[k] ELSE z[k - Len(a)]
    BY <1>4, <1>5, ConcatProperties
  <2>2. Len(a) + Len(z) = n - 1 /\ Len(a) = idx
    BY <1>4, <1>5
  <2>3. QED
    BY <2>1, <2>2
<1>7. ASSUME NEW k \in 1 .. n - 1  PROVE g[k] = (a \o z)[k]
  <2>1. CASE k <= idx
    BY <1>4, <1>6, <1>7, <2>1
  <2>2. CASE ~ k <= idx
    <3>1. k - idx \in 1 .. n - 1 - idx /\ idx + 1 + (k - idx) = k + 1
      BY <2>2
    <3>2. z[k - idx] = f[idx + 1 + (k - idx)]
      BY <1>5, <3>1
    <3>3. z[k - idx] = f[k + 1]
      BY <3>1, <3>2, Zenon
    <3>4. QED
      BY <1>6, <2>2, <3>3
  <2>3. QED
    BY <2>1, <2>2
<1>8. g = a \o z
  BY <1>3, <1>6, <1>7, SeqEqual
<1>9. (idx + 1) - 1 = idx /\ (idx + 1) + 1 = idx + 2
  OBVIOUS
<1>10. QED
  BY <1>1, <1>8, <1>9, Zenon DEF a, z

-----------------------------------------------------------------------------
LEMMA ItemsNext == ItemsAre'
BY ItemsFollow, PTL

LEMMA ListedIs ==
  ASSUME NEW p, ListIs(p)
  PROVE  /\ Items = Listed(p) /\ Items \in [1 .. count -> Data] /\ Len(Items) = count
         /\ \A k \in 1 .. count : Items[k] = node[p[k - 1]].data
<1>1. Items = Listed(p) /\ count \in Nat
  BY ItemsFollow DEF ItemsAre, ListIs
<1>2. \A k \in 1 .. count : node[p[k - 1]].data \in Data
  <2>1. ASSUME NEW k \in 1 .. count  PROVE node[p[k - 1]].data \in Data
    <3>1. k - 1 \in 0 .. count - 1
      BY <1>1
    <3>2. QED
      BY <3>1 DEF ListIs, Chain
  <2>2. QED
    BY <2>1
<1>3. Items \in [1 .. count -> Data] /\ \A k \in 1 .. count : Items[k] = node[p[k - 1]].data
  BY <1>1, <1>2 DEF Listed
<1>4. QED
  BY <1>1, <1>3, FunctionIsSeq

(* The same list, however the call ends.                                   *)
LEMMA NothingMoves ==
  ASSUME LInv, UNCHANGED <<root, count, node, live>>
  PROVE  LInv' /\ Items' = Items
<1>1. PICK p : ListIs(p)
  BY DEF LInv
<1>2. ListIs(p)'
  BY <1>1 DEF ListIs
<1>3. Items' = Listed(p)' /\ Items = Listed(p)
  BY <1>1, <1>2, ItemsFollow, ItemsNext DEF ItemsAre
<1>4. Listed(p)' = Listed(p)
  BY DEF Listed
<1>5. QED
  BY <1>2, <1>3, <1>4 DEF LInv

LEMMA TailIs ==
  ASSUME NEW p, ListIs(p), count > 0
  PROVE  Tail0 = p[count - 1]
<1> DEFINE n == Cardinality(Addresses)
           W == {Nth(k) : k \in 0 .. n} \ {NULL}
<1>1. n \in Nat /\ count <= n /\ count \in Nat
  BY ListsAssumption, FS_Subset, FS_CardinalityType DEF ListIs
<1>2. \A k \in Nat : Nth(k) = IF k < count THEN p[k] ELSE NULL
  BY NthFollows DEF NthIs
<1>3. /\ \A k \in 0 .. count - 1 : p[k] \in Addresses /\ p[k] # NULL
      /\ \A k \in 0 .. count - 1 : node[p[k]].next = IF k < count - 1 THEN p[k + 1] ELSE NULL
  BY ListsAssumption DEF ListIs, Chain
<1>4. p[count - 1] \in W /\ node[p[count - 1]].next = NULL
  <2>1. count - 1 \in 0 .. n /\ count - 1 \in 0 .. count - 1 /\ count - 1 < count
    BY <1>1
  <2>2. Nth(count - 1) = p[count - 1]
    BY <1>2, <2>1
  <2>3. QED
    BY <1>3, <2>1, <2>2
<1>5. ASSUME NEW w \in W, node[w].next = NULL  PROVE w = p[count - 1]
  <2>1. PICK k \in 0 .. n : w = Nth(k) /\ w # NULL
    OBVIOUS
  <2>2. k < count /\ w = p[k] /\ k \in 0 .. count - 1
    BY <1>1, <1>2, <2>1
  <2>3. ~ k < count - 1
    <3>1. ASSUME k < count - 1  PROVE FALSE
      <4>1. k + 1 \in 0 .. count - 1 /\ node[w].next = p[k + 1]
        BY <1>1, <1>3, <2>2, <3>1
      <4>2. QED
        BY <1>3, <1>5, <4>1
    <3>2. QED
      BY <3>1
  <2>4. QED
    BY <1>1, <2>2, <2>3
<1>6. Tail0 = CHOOSE w \in W : node[w].next = NULL
  BY DEF Tail0
<1> HIDE DEF W
<1>7. QED
  BY <1>4, <1>5, <1>6

(* list_add().                                                             *)
LEMMA AddKeeps ==
  ASSUME LInv, NEW d \in Data, list_add(d)
  PROVE  LInv' /\ Contract!Add(d)
<1>1. CASE ret' = FALSE /\ UNCHANGED <<root, count, node, live>>
  BY <1>1, NothingMoves DEF Contract!Add
<1>2. ASSUME NEW new \in Addresses \ live,
             live' = live \union {new}, count' = count + 1, ret' = TRUE,
             IF root = NULL THEN root' = new /\ node' = Made(node, new, d)
             ELSE /\ node' = [Made(node, new, d) EXCEPT ![Tail0].next = new, ![new].prev = Tail0]
                  /\ root' = root
      PROVE  LInv' /\ Contract!Add(d)
  <2>1. PICK p : ListIs(p)
    BY DEF LInv
  <2>2. PICK n : n = count
    OBVIOUS
  <2>3. PICK q : q = Longer(p, n, new)
    OBVIOUS
  <2> DEFINE m2 == node'
  <2>4. /\ n \in Nat /\ node \in [Addresses -> Nodes] /\ Chain(node, p, n)
        /\ live \subseteq Addresses /\ IsFiniteSet(live) /\ Cardinality(live) = n
        /\ \A k \in 0 .. n - 1 : p[k] \in live
        /\ root = IF n > 0 THEN p[0] ELSE NULL
    BY <2>2, <2>1 DEF ListIs
  <2>5. root = NULL <=> n = 0
    <3>1. n > 0 => p[0] \in Addresses
      BY <2>4 DEF Chain
    <3>2. QED
      BY <2>4, <3>1, ListsAssumption
  <2>6. /\ n = 0 => m2 = Made(node, new, d)
        /\ n # 0 => m2 = [Made(node, new, d) EXCEPT ![p[n - 1]].next = new, ![new].prev = p[n - 1]]
    <3>1. n # 0 => Tail0 = p[n - 1]
      BY <2>2, <2>1, <2>4, TailIs
    <3>2. QED
      BY <1>2, <2>5, <3>1, Zenon
  <2>7. \A k \in 0 .. n - 1 : p[k] # new
    BY <2>4
  <2> HIDE DEF m2
  <2>8. /\ m2 \in [Addresses -> Nodes] /\ Chain(m2, q, n + 1)
        /\ m2[new].data = d /\ \A k \in 0 .. n - 1 : m2[p[k]].data = node[p[k]].data
    BY <2>3, <2>4, <2>6, <2>7, ChainGrows
  <2>9. /\ live' \subseteq Addresses /\ IsFiniteSet(live') /\ Cardinality(live') = n + 1
    BY <1>2, <2>4, FS_AddElement
  <2>10. /\ \A k \in 0 .. n - 1 : q[k] = p[k]
        /\ q[n] = new
    BY <2>3, <2>4 DEF Longer
  <2>11. root' = q[0]
    <3>1. CASE n = 0
      BY <1>2, <2>5, <2>10, <3>1
    <3>2. CASE n # 0
      BY <1>2, <2>4, <2>5, <2>10, <3>2
    <3>3. QED
      BY <3>1, <3>2
  <2>12. \A k \in 0 .. (n + 1) - 1 : q[k] \in live'
    BY <1>2, <2>4, <2>10
  <2>13. ListIs(q)'
    <3>1. /\ count' = n + 1 /\ n + 1 \in Nat /\ n + 1 > 0
      BY <1>2, <2>2, <2>4
    <3>2. QED
      BY <2>8, <2>9, <2>11, <2>12, <3>1 DEF ListIs, m2
  <2>14. Items' = Append(Items, d)
    <3>1. /\ Items \in [1 .. n -> Data] /\ \A k \in 1 .. n : Items[k] = node[p[k - 1]].data
      BY <2>2, <2>1, ListedIs
    <3>2. Items' = Listed(q)'
      BY <2>13, ItemsNext DEF ItemsAre
    <3>3. Items' = [k \in 1 .. n + 1 |-> m2[q[k - 1]].data]
      BY <1>2, <2>2, <3>2 DEF Listed, m2
    <3>4. ASSUME NEW k \in 1 .. n  PROVE m2[q[k - 1]].data = Items[k]
      <4>1. k - 1 \in 0 .. n - 1
        BY <2>4
      <4>2. QED
        BY <2>8, <2>10, <3>1, <4>1
    <3>5. m2[q[(n + 1) - 1]].data = d
      BY <2>4, <2>8, <2>10
    <3> DEFINE g == [k \in 1 .. n + 1 |-> m2[q[k - 1]].data]
    <3>6. g[n + 1] = d /\ \A k \in 1 .. n : g[k] = Items[k]
      BY <2>4, <3>4, <3>5
    <3>7. g \in [1 .. n + 1 -> Data]
      <4>1. ASSUME NEW k \in 1 .. n + 1  PROVE m2[q[k - 1]].data \in Data
        <5>1. k = n + 1 \/ k \in 1 .. n
          BY <2>4
        <5>2. QED
          BY <3>1, <3>4, <3>5, <5>1
      <4>2. QED
        BY <4>1
    <3> HIDE DEF g
    <3>8. g = Append(Items, d)
      BY <2>4, <3>1, <3>6, <3>7, Appended
    <3>9. QED
      BY <3>3, <3>8 DEF g
  <2>15. LInv'
    BY <2>13 DEF LInv
  <2>16. Cardinality(live') = Cardinality(live) + 1
    BY <2>2, <2>4, <2>9
  <2>17. Contract!Add(d)
    BY <1>2, <2>14, <2>16 DEF Contract!Add
  <2>18. QED
    BY <2>15, <2>17
<1>3. QED
  BY <1>1, <1>2 DEF list_add, Made

(* list_get_at(), and list_remove_at() behind the end.                     *)
LEMMA AtIndex ==
  ASSUME NEW p, ListIs(p), NEW idx \in Indices
  PROVE  /\ idx \in Nat /\ (idx >= count \/ Nth(idx) = NULL) <=> ~ idx < Len(Items)
         /\ idx < Len(Items) => /\ idx \in 0 .. count - 1 /\ Nth(idx) = p[idx]
                                /\ node[p[idx]].data = Items[idx + 1]
<1>1. idx \in Nat /\ count \in Nat /\ Len(Items) = count
  BY ListsAssumption, ListedIs DEF ListIs
<1>2. Nth(idx) = IF idx < count THEN p[idx] ELSE NULL
  BY <1>1, NthFollows DEF NthIs
<1>3. idx < count => idx \in 0 .. count - 1 /\ p[idx] # NULL /\ node[p[idx]].data = Items[idx + 1]
  <2>1. ASSUME idx < count
        PROVE  idx \in 0 .. count - 1 /\ p[idx] # NULL /\ node[p[idx]].data = Items[idx + 1]
    <3>1. idx \in 0 .. count - 1 /\ idx + 1 \in 1 .. count /\ (idx + 1) - 1 = idx
      BY <1>1, <2>1
    <3>2. p[idx] # NULL
      BY <3>1, ListsAssumption DEF ListIs, Chain
    <3>3. Items[idx + 1] = node[p[(idx + 1) - 1]].data
      BY <3>1, ListedIs
    <3>4. QED
      BY <3>1, <3>2, <3>3, Zenon
  <2>2. QED
    BY <2>1
<1>4. QED
  BY <1>1, <1>2, <1>3

LEMMA GetKeeps ==
  ASSUME LInv, NEW idx \in Indices, list_get_at(idx)
  PROVE  LInv' /\ Contract!GetAt(idx)
<1>1. LInv' /\ Items' = Items /\ Cardinality(live') = Cardinality(live)
  BY NothingMoves DEF list_get_at
<1>2. PICK p : ListIs(p)
  BY DEF LInv
<1>3. ret' = IF idx < Len(Items) THEN Items[idx + 1] ELSE NULL
  BY <1>2, AtIndex DEF list_get_at
<1>4. QED
  BY <1>1, <1>3 DEF Contract!GetAt

LEMMA RemoveKeeps ==
  ASSUME LInv, NEW idx \in Indices, list_remove_at(idx)
  PROVE  LInv' /\ Contract!RemoveAt0(idx)
<1>1. PICK p : ListIs(p)
  BY DEF LInv
<1>2. CASE ~ idx < Len(Items)
  <2>1. ret' = NULL /\ UNCHANGED <<root, count, node, live>>
    BY <1>1, <1>2, AtIndex DEF list_remove_at
  <2>2. LInv' /\ Items' = Items
    BY <2>1, NothingMoves
  <2>3. QED
    BY <1>2, <2>1, <2>2 DEF Contract!RemoveAt0
<1>3. CASE idx < Len(Items)
  <2>1. /\ idx \in Nat /\ idx \in 0 .. count - 1 /\ Nth(idx) = p[idx]
        /\ node[p[idx]].data = Items[idx + 1] /\ ~ (idx >= count \/ Nth(idx) = NULL)
    BY <1>1, <1>3, AtIndex
  <2>2. PICK n : n = count
    OBVIOUS
  <2>3. PICK q : q = Without(p, n, idx)
    OBVIOUS
  <2>4. PICK cur : cur = p[idx]
    OBVIOUS
  <2> DEFINE m2 == node'
  <2>5. /\ ret' = Items[idx + 1] /\ m2 = Unlinked(cur)
        /\ root' = IF idx = 0 THEN m2[cur].next ELSE root
        /\ live' = live \ {cur} /\ count' = n - 1
    <3>1. Nth(idx) = cur
      BY <2>1, <2>4
    <3>2. QED
      BY <2>1, <2>2, <2>4, <3>1 DEF list_remove_at
  <2>6. /\ n \in Nat /\ node \in [Addresses -> Nodes] /\ Chain(node, p, n)
        /\ live \subseteq Addresses /\ IsFiniteSet(live) /\ Cardinality(live) = n
        /\ \A k \in 0 .. n - 1 : p[k] \in live
        /\ root = IF n > 0 THEN p[0] ELSE NULL
        /\ idx \in 0 .. n - 1 /\ n - 1 \in Nat
    BY <1>1, <2>1, <2>2 DEF ListIs
  <2> HIDE DEF m2
  <2>7. /\ m2 \in [Addresses -> Nodes] /\ Chain(m2, q, n - 1)
        /\ \A k \in 0 .. n - 1 : m2[p[k]].data = node[p[k]].data
        /\ m2[cur].next = node[cur].next
        /\ \A k \in 0 .. n - 2 : q[k] # cur
    BY <2>3, <2>4, <2>5, <2>6, ChainShrinks
  <2>8. IsFiniteSet(live') /\ Cardinality(live') = n - 1 /\ live' \subseteq Addresses
    <3>1. cur \in live
      BY <2>4, <2>6
    <3>2. QED
      BY <2>5, <2>6, <3>1, FS_RemoveElement
  <2>9. \A k \in 0 .. n - 2 : /\ q[k] = (IF k < idx THEN p[k] ELSE p[k + 1])
                               /\ k \in 0 .. n - 1 /\ k + 1 \in 0 .. n - 1
    <3>1. \A k \in 0 .. n - 2 : k \in 0 .. n - 1 /\ k + 1 \in 0 .. n - 1
      BY <2>6
    <3>2. QED
      BY <2>3, <3>1 DEF Without
  <2>10. \A k \in 0 .. (n - 1) - 1 : q[k] \in live'
    <3>1. (n - 1) - 1 = n - 2
      BY <2>6
    <3>2. QED
      BY <2>5, <2>6, <2>7, <2>9, <3>1
  <2>11. root' = IF n - 1 > 0 THEN q[0] ELSE NULL
    <3>1. n - 1 > 0 => 0 \in 0 .. n - 2
      BY <2>6
    <3>2. CASE idx = 0
      <4>1. node[p[0]].next = IF 0 < n - 1 THEN p[0 + 1] ELSE NULL
        BY <2>6, <3>2 DEF Chain
      <4>2. root' = node[p[0]].next
        BY <2>4, <2>5, <2>7, <3>2
      <4>3. n - 1 > 0 => q[0] = p[0 + 1]
        BY <2>9, <3>1, <3>2
      <4>4. QED
        BY <2>6, <4>1, <4>2, <4>3
    <3>3. CASE idx # 0
      <4>1. n - 1 > 0 /\ 0 < idx /\ n > 0
        BY <2>6, <3>3
      <4>2. root' = p[0] /\ q[0] = p[0]
        BY <2>5, <2>6, <2>9, <3>1, <3>3, <4>1
      <4>3. QED
        BY <4>1, <4>2
    <3>4. QED
      BY <3>2, <3>3
  <2>12. ListIs(q)'
    BY <2>5, <2>6, <2>7, <2>8, <2>10, <2>11 DEF ListIs, m2
  <2>13. Items' = SubSeq(Items, 1, (idx + 1) - 1) \o SubSeq(Items, (idx + 1) + 1, Len(Items))
    <3>1. /\ Items \in [1 .. n -> Data] /\ \A k \in 1 .. n : Items[k] = node[p[k - 1]].data
      BY <1>1, <2>2, ListedIs
    <3>2. Items' = Listed(q)'
      BY <2>12, ItemsNext DEF ItemsAre
    <3> DEFINE g == [k \in 1 .. n - 1 |-> m2[q[k - 1]].data]
    <3>3. Items' = g
      BY <2>5, <3>2 DEF Listed, m2
    <3>4. ASSUME NEW k \in 1 .. n - 1
          PROVE  m2[q[k - 1]].data = IF k <= idx THEN Items[k] ELSE Items[k + 1]
      <4>1. /\ k - 1 \in 0 .. n - 2 /\ k \in 1 .. n /\ k + 1 \in 1 .. n
            /\ (k - 1) + 1 = k /\ (k + 1) - 1 = k /\ k \in 0 .. n - 1 /\ k - 1 \in 0 .. n - 1
        BY <2>6
      <4>2. CASE k <= idx
        <5>1. q[k - 1] = p[k - 1]
          BY <2>6, <2>9, <4>1, <4>2
        <5>2. m2[p[k - 1]].data = node[p[k - 1]].data
          BY <2>7, <4>1
        <5>3. QED
          BY <3>1, <4>1, <4>2, <5>1, <5>2
      <4>3. CASE ~ k <= idx
        <5>1. q[k - 1] = p[(k - 1) + 1]
          BY <2>6, <2>9, <4>1, <4>3
        <5>2. q[k - 1] = p[k]
          BY <4>1, <5>1, Zenon
        <5>3. m2[p[k]].data = node[p[k]].data
          BY <2>7, <4>1
        <5>4. Items[k + 1] = node[p[k]].data
          <6>1. Items[k + 1] = node[p[(k + 1) - 1]].data
            BY <3>1, <4>1
          <6>2. QED
            BY <4>1, <6>1, Zenon
        <5>5. QED
          BY <4>3, <5>2, <5>3, <5>4
      <4>4. QED
        BY <4>2, <4>3
    <3>5. \A k \in 1 .. n - 1 : g[k] = IF k <= idx THEN Items[k] ELSE Items[k + 1]
      BY <3>4
    <3>6. g \in [1 .. n - 1 -> Data]
      <4>1. ASSUME NEW k \in 1 .. n - 1  PROVE m2[q[k - 1]].data \in Data
        <5>1. k \in 1 .. n /\ k + 1 \in 1 .. n
          BY <2>6
        <5>2. QED
          BY <3>1, <3>4, <5>1
      <4>2. QED
        BY <4>1
    <3> HIDE DEF g
    <3>7. g = SubSeq(Items, 1, (idx + 1) - 1) \o SubSeq(Items, (idx + 1) + 1, Len(Items))
      BY <2>6, <3>1, <3>5, <3>6, Removed
    <3>8. QED
      BY <3>3, <3>7
  <2>14. LInv'
    BY <2>12 DEF LInv
  <2>15. Cardinality(live') = Cardinality(live) - 1
    BY <2>6, <2>8
  <2>16. Contract!RemoveAt0(idx)
    BY <1>3, <2>5, <2>13, <2>15 DEF Contract!RemoveAt0, Contract!RemoveAt
  <2>17. QED
    BY <2>14, <2>16
<1>4. QED
  BY <1>2, <1>3

-----------------------------------------------------------------------------
LEMMA InitLInv ==
  ASSUME ListInit
  PROVE  LInv /\ Contract!Init
<1>1. /\ root = NULL /\ count = 0 /\ live = {} /\ ret = NULL
      /\ node \in [Addresses -> [prev : {NULL}, next : {NULL}, data : {NULL}]]
  BY DEF ListInit
<1>2. PICK p : p = [k \in 0 .. 0 - 1 |-> NULL]
  OBVIOUS
<1>3. Chain(node, p, 0)
  BY <1>2 DEF Chain
<1>4. ListIs(p)
  <2>1. node \in [Addresses -> Nodes]
    BY <1>1 DEF Nodes
  <2>2. QED
    BY <1>1, <1>3, <2>1, FS_EmptySet DEF ListIs
<1>5. Items = << >>
  <2>1. Items \in [1 .. 0 -> Data] /\ Len(Items) = 0
    BY <1>1, <1>4, ListedIs
  <2>2. Items \in Seq(Data)
    BY <2>1, FunctionIsSeq
  <2>3. QED
    BY <2>1, <2>2, EmptySeq
<1>6. QED
  BY <1>1, <1>4, <1>5, FS_EmptySet DEF LInv, Contract!Init

LEMMA NextLInv ==
  ASSUME LInv, [ListNext]_list_vars
  PROVE  LInv' /\ [Contract!Next]_<<Items, Cardinality(live), ret>>
<1>1. ASSUME NEW d \in Data, list_add(d)  PROVE LInv' /\ Contract!Next
  BY <1>1, AddKeeps DEF Contract!Next
<1>2. ASSUME NEW idx \in Indices, list_remove_at(idx)  PROVE LInv' /\ Contract!Next
  BY <1>2, RemoveKeeps DEF Contract!Next
<1>3. ASSUME NEW idx \in Indices, list_get_at(idx)  PROVE LInv' /\ Contract!Next
  BY <1>3, GetKeeps DEF Contract!Next
<1>4. CASE UNCHANGED list_vars
  <2>1. UNCHANGED <<root, count, node, live>> /\ ret' = ret
    BY <1>4 DEF list_vars
  <2>2. LInv' /\ Items' = Items
    BY <2>1, NothingMoves
  <2>3. QED
    BY <2>1, <2>2
<1>5. QED
  BY <1>1, <1>2, <1>3, <1>4 DEF ListNext

(* The linked list is the sequence that list.h offers: whatever order the  *)
(* calls come in, whichever allocations fail, and wherever a node lies.    *)
THEOREM ListIsSequence == LinkedList => ListSpec
<1>1. ListInit => LInv /\ Contract!Init
  BY InitLInv
<1>2. LInv /\ [ListNext]_list_vars => LInv' /\ [Contract!Next]_<<Items, Cardinality(live), ret>>
  BY NextLInv
<1>3. QED
  BY <1>1, <1>2, PTL DEF LinkedList, ListSpec, Contract!Spec

-----------------------------------------------------------------------------
(* A set of numbers has a least one, and a bounded one a greatest.         *)
LEMMA LeastIs ==
  ASSUME NEW S, S \subseteq Nat, S # {}
  PROVE  \E m \in S : \A n \in S : m <= n
<1>1. PICK m \in S : \A n \in S : <<n, m>> \notin OpToRel(<, Nat)
  BY NatLessThanWellFounded, WFMin
<1>2. ASSUME NEW n \in S  PROVE m <= n
  <2>1. n \in Nat /\ m \in Nat
    OBVIOUS
  <2>2. ~(n < m)
    BY <1>1, <2>1 DEF OpToRel
  <2>3. QED
    BY <2>1, <2>2
<1>3. QED
  BY <1>2

LEMMA GreatestIs ==
  ASSUME NEW N \in Nat, NEW S, S \subseteq 0 .. N, S # {}
  PROVE  \E m \in S : \A n \in S : n <= m
<1> DEFINE R == {r \in 0 .. N : N - r \in S}
<1>1. R \subseteq Nat /\ R # {}
  <2>1. PICK n \in S : TRUE
    OBVIOUS
  <2>2. N - n \in R
    <3>1. n \in 0 .. N /\ N - n \in 0 .. N /\ N - (N - n) = n
      BY <2>1
    <3>2. QED
      BY <3>1
  <2>3. QED
    BY <2>2
<1>2. PICK r \in R : \A q \in R : r <= q
  <2> HIDE DEF R
  <2>1. QED
    BY <1>1, LeastIs
<1>3. ASSUME NEW n \in S  PROVE n <= N - r
  <2>1. n \in 0 .. N /\ N - n \in 0 .. N /\ N - (N - n) = n
    BY <1>3
  <2>2. N - n \in R
    BY <2>1
  <2>3. r <= N - n /\ r \in 0 .. N
    BY <1>2, <2>2
  <2>4. QED
    BY <2>1, <2>3
<1>4. QED
  BY <1>2, <1>3

-----------------------------------------------------------------------------
(* A loop stops at the first offset at which it does not go on.            *)
StopsAt(go, k, e) == e \in k .. Size /\ e \notin go /\ \A j \in k .. e - 1 : j \in go

LEMMA StopIs ==
  ASSUME NEW go, go \subseteq Offsets, NEW k \in 0 .. Size
  PROVE  StopsAt(go, k, Stop(go, k))
<1> DEFINE Def(t) == [j \in 0 .. Size |-> IF j \in go THEN t[j + 1] ELSE j]
           c0 == CHOOSE t : t = Def(t)
           w0 == [j \in 0 .. Size |-> CHOOSE e \in 0 .. Size : StopsAt(go, j, e)]
<1>0. Size \in Nat \ {0} /\ Size \notin go /\ \A j \in go : j \in 0 .. Size /\ j + 1 \in 0 .. Size
  BY StringsAssumption DEF Offsets
<1>1. ASSUME NEW j \in 0 .. Size  PROVE \E e \in 0 .. Size : StopsAt(go, j, e)
  <2> DEFINE out == {e \in j .. Size : e \notin go}
  <2>1. out \subseteq Nat /\ out # {}
    <3>1. Size \in out
      BY <1>0
    <3>2. QED
      BY <1>0, <3>1
  <2>2. PICK e \in out : \A n \in out : e <= n
    <3> HIDE DEF out
    <3>1. QED
      BY <2>1, LeastIs
  <2>3. ASSUME NEW n \in j .. e - 1  PROVE n \in go
    <3>1. n \in j .. Size /\ ~(e <= n)
      BY <1>0, <2>2
    <3>2. QED
      BY <2>2, <3>1
  <2>4. e \in 0 .. Size
    BY <1>0, <2>2
  <2>5. QED
    BY <2>2, <2>3, <2>4 DEF StopsAt
<1>2. ASSUME NEW j \in 0 .. Size, NEW e \in 0 .. Size, NEW f \in 0 .. Size,
             StopsAt(go, j, e), StopsAt(go, j, f)
      PROVE  e = f
  BY <1>0, <1>2 DEF StopsAt
<1>3. ASSUME NEW j \in 0 .. Size  PROVE w0[j] \in 0 .. Size /\ StopsAt(go, j, w0[j])
  BY <1>1
<1>4. w0 = Def(w0)
  <2>1. ASSUME NEW j \in 0 .. Size  PROVE w0[j] = IF j \in go THEN w0[j + 1] ELSE j
    <3>1. CASE j \in go
      <4>1. j + 1 \in 0 .. Size /\ w0[j + 1] \in 0 .. Size /\ StopsAt(go, j + 1, w0[j + 1])
        BY <1>0, <1>3, <3>1
      <4>2. StopsAt(go, j, w0[j + 1])
        BY <1>0, <3>1, <4>1 DEF StopsAt
      <4>3. QED
        BY <1>2, <1>3, <3>1, <4>1, <4>2
    <3>2. CASE j \notin go
      <4>1. StopsAt(go, j, j)
        BY <1>0, <3>2 DEF StopsAt
      <4>2. QED
        BY <1>2, <1>3, <3>2, <4>1
    <3>3. QED
      BY <3>1, <3>2
  <2>2. w0 = [j \in 0 .. Size |-> w0[j]]
    OBVIOUS
  <2>3. Def(w0) = [j \in 0 .. Size |-> IF j \in go THEN w0[j + 1] ELSE j]
    OBVIOUS
  <2>4. QED
    <3> HIDE DEF w0, Def
    <3>1. QED
      BY <2>1, <2>2, <2>3
<1>5. c0 = Def(c0)
  <2> HIDE DEF w0, Def
  <2>1. QED
    BY <1>4
<1>6. Stop(go, k) = c0[k]
  BY DEF Stop
<1>7. ASSUME NEW j \in 0 .. Size  PROVE c0[j] = IF j \in go THEN c0[j + 1] ELSE j
  <2> HIDE DEF c0
  <2>1. QED
    BY <1>5
<1>8. c0[k] = w0[k]
  <2> HIDE DEF c0, Def
  <2> DEFINE e == w0[k]
             T == {n \in Nat : n <= e - k => c0[e - n] = e}
  <2>1. e \in k .. Size /\ e \notin go /\ \A j \in k .. e - 1 : j \in go
    BY <1>3 DEF StopsAt
  <2> HIDE DEF e
  <2>2. 0 \in T
    <3>1. e \in 0 .. Size /\ e - 0 = e
      BY <1>0, <2>1
    <3>2. QED
      BY <1>7, <2>1, <3>1
  <2>3. ASSUME NEW n \in Nat, n \in T  PROVE n + 1 \in T
    <3>1. SUFFICES ASSUME n + 1 <= e - k  PROVE c0[e - (n + 1)] = e
      OBVIOUS
    <3> DEFINE j == e - (n + 1)
    <3>2. j \in k .. e - 1 /\ j \in 0 .. Size /\ j + 1 = e - n /\ n <= e - k
      BY <1>0, <2>1, <3>1
    <3>3. c0[e - n] = e
      BY <2>3, <3>2
    <3>4. j \in go
      BY <2>1, <3>2
    <3> HIDE DEF j
    <3>5. c0[j] = e
      BY <1>7, <3>2, <3>3, <3>4
    <3>6. QED
      BY <3>5 DEF j
  <2>4. Nat \subseteq T
    <3> HIDE DEF T
    <3>1. QED
      BY <2>2, <2>3, SetInduction
  <2>5. e - k \in Nat /\ e - (e - k) = k
    BY <1>0, <2>1
  <2>6. e - k \in T
    BY <2>4, <2>5
  <2>7. c0[e - (e - k)] = e
    BY <2>5, <2>6
  <2>8. QED
    BY <2>5, <2>7 DEF e
<1>9. QED
  BY <1>3, <1>6, <1>8

-----------------------------------------------------------------------------
(* Texts.                                                                  *)
LEMMA PrefixIs ==
  ASSUME NEW S, NEW s, NEW n \in Nat, \A k \in 1 .. n : s[k] \in S
  PROVE  /\ SubSeq(s, 1, n) \in Seq(S) /\ Len(SubSeq(s, 1, n)) = n
         /\ DOMAIN SubSeq(s, 1, n) = 1 .. n
         /\ \A k \in 1 .. n : SubSeq(s, 1, n)[k] = s[k]
<1>1. /\ SubSeq(s, 1, n) \in Seq(S)
      /\ Len(SubSeq(s, 1, n)) = IF 1 <= n THEN n - 1 + 1 ELSE 0
      /\ \A x \in 1 .. n - 1 + 1 : SubSeq(s, 1, n)[x] = s[1 + x - 1]
  BY SubSeqProperties
<1>2. Len(SubSeq(s, 1, n)) = n /\ n - 1 + 1 = n
  BY <1>1
<1>3. DOMAIN SubSeq(s, 1, n) = 1 .. n
  BY <1>1, <1>2, LenProperties
<1>4. ASSUME NEW k \in 1 .. n  PROVE SubSeq(s, 1, n)[k] = s[k]
  <2>1. k \in 1 .. n - 1 + 1 /\ 1 + k - 1 = k
    OBVIOUS
  <2>2. QED
    BY <1>1, <2>1
<1>5. QED
  BY <1>1, <1>2, <1>3, <1>4

LEMMA CellIs ==
  ASSUME NEW s \in Blocks
  PROVE  /\ Size \in Nat \ {0} /\ s[Size] = 0
         /\ \A k \in 1 .. Size : s[k] \in Chars \union {0} /\ s[k] \in 0 .. 255
         /\ \A k \in Offsets : At(s, k) = s[k + 1] /\ k + 1 \in 1 .. Size
<1>1. Size \in Nat \ {0} /\ s[Size] = 0 /\ s \in [1 .. Size -> Chars \union {0}]
  BY StringsAssumption DEF Blocks
<1>2. Chars \union {0} \subseteq 0 .. 255
  BY StringsAssumption
<1>3. \A k \in Offsets : At(s, k) = s[k + 1] /\ k + 1 \in 1 .. Size
  BY <1>1 DEF Offsets, At
<1>4. QED
  BY <1>1, <1>2, <1>3

LEMMA TextIs ==
  ASSUME NEW s \in Blocks
  PROVE  /\ Text(s) \in Seq(Chars) /\ Len(Text(s)) \in Offsets
         /\ DOMAIN Text(s) = 1 .. Len(Text(s))
         /\ \A k \in 1 .. Len(Text(s)) : Text(s)[k] = s[k] /\ s[k] \in Chars /\ s[k] # 0
         /\ s[Len(Text(s)) + 1] = 0
<1> DEFINE zeros == {n \in 1 .. Size : s[n] = 0}
           End(n) == n \in 1 .. Size /\ s[n] = 0 /\ \A k \in 1 .. n - 1 : s[k] # 0
           m == CHOOSE n \in 1 .. Size : s[n] = 0 /\ \A k \in 1 .. n - 1 : s[k] # 0
<1>1. \E n \in 1 .. Size : End(n)
  <2>1. zeros \subseteq Nat /\ zeros # {}
    BY CellIs
  <2>2. PICK n \in zeros : \A k \in zeros : n <= k
    <3> HIDE DEF zeros
    <3>1. QED
      BY <2>1, LeastIs
  <2>3. ASSUME NEW k \in 1 .. n - 1  PROVE s[k] # 0
    <3>1. k \in 1 .. Size /\ ~(n <= k)
      BY CellIs
    <3>2. QED
      BY <2>2, <3>1
  <2>4. QED
    BY <2>3
<1>2. End(m)
  BY <1>1
<1>3. Text(s) = SubSeq(s, 1, m - 1)
  BY DEF Text
<1> HIDE DEF m
<1>4. /\ m - 1 \in Nat /\ m - 1 \in Offsets /\ s[m - 1 + 1] = 0
      /\ \A k \in 1 .. m - 1 : s[k] \in Chars /\ s[k] # 0
  BY <1>2, CellIs DEF Offsets
<1>5. /\ Text(s) \in Seq(Chars) /\ Len(Text(s)) = m - 1 /\ DOMAIN Text(s) = 1 .. m - 1
      /\ \A k \in 1 .. m - 1 : Text(s)[k] = s[k]
  BY <1>3, <1>4, PrefixIs
<1>6. QED
  BY <1>4, <1>5

LEMMA TextEnds ==
  ASSUME NEW s \in Blocks, NEW e \in Offsets, s[e + 1] = 0, \A k \in 1 .. e : s[k] # 0
  PROVE  Len(Text(s)) = e
<1>1. /\ Len(Text(s)) \in Offsets /\ s[Len(Text(s)) + 1] = 0
      /\ \A k \in 1 .. Len(Text(s)) : s[k] # 0
  BY TextIs
<1> DEFINE n == Len(Text(s))
<1>2. n \in Nat /\ e \in Nat
  BY <1>1, StringsAssumption DEF Offsets
<1> HIDE DEF n
<1>3. ~(n < e)
  <2>1. ASSUME n < e  PROVE n + 1 \in 1 .. e
    BY <1>2, <2>1
  <2>2. QED
    BY <1>1, <2>1 DEF n
<1>4. ~(e < n)
  <2>1. ASSUME e < n  PROVE e + 1 \in 1 .. n
    BY <1>2, <2>1
  <2>2. QED
    BY <1>1, <2>1 DEF n
<1>5. QED
  BY <1>2, <1>3, <1>4 DEF n

(* Where a loop that goes on at characters only stops: in the block.       *)
LEMMA StopInText ==
  ASSUME NEW s \in Blocks, NEW go, NEW k \in Offsets, go \subseteq {j \in Offsets : At(s, j) # 0}
  PROVE  /\ Stop(go, k) \in Offsets /\ Stop(go, k) >= k /\ Stop(go, k) \notin go
         /\ \A j \in k .. Stop(go, k) - 1 : j \in go
<1> DEFINE e == Stop(go, k)
<1>1. k \in 0 .. Size /\ go \subseteq Offsets /\ Size - 1 \in Offsets /\ At(s, Size - 1) = 0
  BY CellIs DEF Offsets, At
<1>2. StopsAt(go, k, e)
  BY <1>1, StopIs
<1>3. Size - 1 \notin go
  BY <1>1
<1> HIDE DEF e
<1>4. e # Size
  <2>1. ASSUME e = Size  PROVE Size - 1 \in k .. e - 1
    BY <1>1, <2>1, StringsAssumption DEF Offsets
  <2>2. QED
    BY <1>2, <1>3, <2>1 DEF StopsAt
<1>5. e \in Offsets /\ e >= k
  BY <1>1, <1>2, <1>4, StringsAssumption DEF Offsets, StopsAt
<1>6. QED
  BY <1>2, <1>5 DEF StopsAt, e

-----------------------------------------------------------------------------
(* The comparisons and the searches.                                       *)
(* The least offset behind the first cell at which there is a 0, or Size.  *)
LEMMA StrlenIs ==
  ASSUME NEW s \in Blocks
  PROVE  /\ strlen(s) = 1 + Len(Text(Behind(s)))
         /\ s[1] # 0 => strlen(s) = Len(Text(s))
<1> DEFINE go == {k \in Offsets : At(s, k) # 0}
           e == Stop(go, 1)
           t == Behind(s)
<1>1. Size \in Nat \ {0} /\ s[Size] = 0 /\ s \in [1 .. Size -> Chars \union {0}]
  BY CellIs DEF Blocks
<1>2. StopsAt(go, 1, e)
  <2>1. go \subseteq Offsets /\ 1 \in 0 .. Size
    BY <1>1
  <2> HIDE DEF go
  <2>2. QED
    BY <2>1, StopIs
<1>3. strlen(s) = e
  BY DEF strlen
<1>4. /\ e \in 1 .. Size /\ (e < Size => s[e + 1] = 0)
      /\ \A k \in 2 .. e : s[k] # 0
  <2> HIDE DEF e
  <2>1. e \in 1 .. Size /\ e \notin go /\ \A j \in 1 .. e - 1 : j \in go
    BY <1>2 DEF StopsAt
  <2>2. ASSUME e < Size  PROVE s[e + 1] = 0
    <3>1. e \in Offsets
      BY <1>1, <2>1, <2>2 DEF Offsets
    <3>2. QED
      BY <2>1, <3>1 DEF At
  <2>3. ASSUME NEW k \in 2 .. e  PROVE s[k] # 0
    <3>1. k - 1 \in 1 .. e - 1 /\ k - 1 + 1 = k
      BY <1>1, <2>1
    <3>2. k - 1 \in go
      BY <2>1, <3>1
    <3>3. QED
      BY <3>1, <3>2 DEF At
  <2>4. QED
    BY <2>1, <2>2, <2>3
<1> HIDE DEF e, go
<1>5. /\ t \in Blocks /\ t[Size] = 0
      /\ \A k \in 1 .. Size - 1 : t[k] = s[k + 1]
  <2>1. \A k \in 1 .. Size : t[k] = IF k < Size THEN s[k + 1] ELSE 0
    BY DEF Behind
  <2>2. t[Size] = 0
    BY <1>1, <2>1
  <2>3. t \in [1 .. Size -> Chars \union {0}]
    <3>1. ASSUME NEW k \in 1 .. Size
          PROVE  (IF k < Size THEN s[k + 1] ELSE 0) \in Chars \union {0}
      <4>1. CASE k < Size
        <5>1. k + 1 \in 1 .. Size
          BY <1>1, <4>1
        <5>2. QED
          BY <1>1, <4>1, <5>1
      <4>2. CASE ~(k < Size)
        BY <4>2
      <4>3. QED
        BY <4>1, <4>2
    <3>2. QED
      BY <3>1 DEF Behind
  <2>4. \A k \in 1 .. Size - 1 : t[k] = s[k + 1]
    <3>1. ASSUME NEW k \in 1 .. Size - 1  PROVE k \in 1 .. Size /\ k < Size
      BY <1>1
    <3>2. QED
      BY <2>1, <3>1
  <2>5. QED
    BY <2>2, <2>3, <2>4 DEF Blocks
<1>6. strlen(s) = 1 + Len(Text(t))
  <2> HIDE DEF t
  <2>1. e - 1 \in Offsets /\ e - 1 + 1 = e
    BY <1>1, <1>4 DEF Offsets
  <2>2. t[e - 1 + 1] = 0
    <3>1. CASE e = Size
      BY <1>5, <2>1, <3>1
    <3>2. CASE e # Size
      <4>1. e \in 1 .. Size - 1 /\ e < Size
        BY <1>1, <1>4, <3>2
      <4>2. QED
        BY <1>4, <1>5, <2>1, <4>1
    <3>3. QED
      BY <3>1, <3>2
  <2>3. ASSUME NEW k \in 1 .. e - 1  PROVE t[k] # 0
    <3>1. k \in 1 .. Size - 1 /\ k + 1 \in 2 .. e
      BY <1>1, <1>4
    <3>2. QED
      BY <1>4, <1>5, <3>1
  <2>4. Len(Text(t)) = e - 1
    BY <1>5, <2>1, <2>2, <2>3, TextEnds
  <2>5. QED
    BY <1>3, <1>4, <2>4
<1>7. ASSUME s[1] # 0  PROVE strlen(s) = Len(Text(s))
  <2>1. e \in Offsets /\ s[e + 1] = 0
    <3>1. ASSUME e = Size  PROVE FALSE
      <4>1. Size = 1 \/ Size \in 2 .. e
        BY <1>1, <3>1
      <4>2. QED
        BY <1>1, <1>4, <1>7, <4>1
    <3>2. QED
      BY <1>1, <1>4, <3>1 DEF Offsets
  <2>2. ASSUME NEW k \in 1 .. e  PROVE s[k] # 0
    <3>1. k = 1 \/ k \in 2 .. e
      BY <1>4
    <3>2. QED
      BY <1>4, <1>7, <3>1
  <2>3. QED
    BY <1>3, <2>1, <2>2, TextEnds
<1>8. QED
  BY <1>6, <1>7

LEMMA OrderOfEquals ==
  ASSUME NEW a, NEW b, \A k \in DOMAIN a : a[k] = b[k]
  PROVE  Order(a, b) = 0
BY DEF Order

LEMMA OrderIs ==
  ASSUME NEW a, NEW b, NEW n \in Nat, DOMAIN a = 1 .. n, NEW k \in 1 .. n, a[k] # b[k],
         \A j \in 1 .. k - 1 : a[j] = b[j]
  PROVE  Order(a, b) = IF a[k] > b[k] THEN 1 ELSE -1
<1> DEFINE diff == {j \in DOMAIN a : a[j] # b[j]}
           m == CHOOSE j \in diff : \A l \in diff : j <= l
<1>1. k \in diff
  OBVIOUS
<1>2. ASSUME NEW j \in diff  PROVE k <= j
  <2>1. j \in 1 .. n /\ j \notin 1 .. k - 1
    OBVIOUS
  <2>2. QED
    BY <2>1
<1>3. m \in diff /\ \A l \in diff : m <= l
  <2> HIDE DEF diff
  <2>1. QED
    BY <1>1, <1>2
<1>4. m = k
  <2> HIDE DEF m
  <2>1. m <= k /\ k <= m /\ m \in 1 .. n
    BY <1>1, <1>2, <1>3
  <2>2. QED
    BY <2>1
<1>5. diff # {}
  BY <1>1
<1>6. Order(a, b) = IF diff = {} THEN 0 ELSE IF a[m] > b[m] THEN 1 ELSE -1
  BY DEF Order
<1>7. QED
  <2> HIDE DEF diff, m
  <2>1. QED
    BY <1>4, <1>5, <1>6

LEMMA StrcmpIs ==
  ASSUME NEW s \in Blocks, NEW b \in Blocks
  PROVE  Sign(strcmp(s, b)) = Order(Padded(Text(s)), Padded(Text(b)))
<1> DEFINE go == {k \in Offsets : At(s, k) # 0 /\ At(s, k) = At(b, k)}
           e == Stop(go, 0)
           p == Padded(Text(s))
           q == Padded(Text(b))
<1>1. 0 \in Offsets
  BY CellIs DEF Offsets
<1>2. /\ e \in Offsets /\ e >= 0 /\ e \notin go
      /\ \A j \in 0 .. e - 1 : j \in go
  BY <1>1, StopInText
<1>3. strcmp(s, b) = At(s, e) - At(b, e)
  BY DEF strcmp
<1> HIDE DEF e
<1>4. /\ Size \in Nat \ {0} /\ e \in Nat /\ e + 1 \in 1 .. Size
      /\ s[e + 1] \in 0 .. 255 /\ b[e + 1] \in 0 .. 255
  BY <1>2, CellIs DEF Offsets
<1>5. ASSUME NEW k \in 1 .. e  PROVE s[k] # 0 /\ s[k] = b[k]
  <2>1. k - 1 \in 0 .. e - 1 /\ k - 1 + 1 = k
    BY <1>4
  <2>2. k - 1 \in go
    BY <1>2, <2>1
  <2>3. QED
    BY <2>1, <2>2 DEF At
<1>6. ASSUME NEW r \in Blocks, \A k \in 1 .. e : r[k] # 0
      PROVE  /\ DOMAIN Padded(Text(r)) = 1 .. Size
             /\ \A k \in 1 .. e + 1 : Padded(Text(r))[k] = r[k]
             /\ r[e + 1] = 0 => \A k \in 1 .. Size : k > e => Padded(Text(r))[k] = 0
  <2> DEFINE n == Len(Text(r))
  <2>1. n \in Offsets /\ r[n + 1] = 0 /\ \A k \in 1 .. n : Text(r)[k] = r[k]
    BY TextIs
  <2>2. n \in Nat /\ n + 1 \in 1 .. Size
    BY <2>1, CellIs DEF Offsets
  <2>3. Padded(Text(r)) = [k \in 1 .. Size |-> IF k <= n THEN Text(r)[k] ELSE 0]
    BY DEF Padded
  <2> HIDE DEF n
  <2>4. n >= e
    <3>1. ASSUME n < e  PROVE n + 1 \in 1 .. e
      BY <1>4, <2>2, <3>1
    <3>2. QED
      BY <1>4, <1>6, <2>1, <2>2, <3>1
  <2>5. ASSUME NEW k \in 1 .. e + 1  PROVE Padded(Text(r))[k] = r[k]
    <3>1. k \in 1 .. Size
      BY <1>4
    <3>2. CASE k <= n
      <4>1. k \in 1 .. n
        BY <2>2, <3>2
      <4>2. QED
        BY <2>1, <2>3, <3>1, <3>2, <4>1
    <3>3. CASE ~(k <= n)
      <4>1. k = n + 1
        BY <1>4, <2>2, <2>4, <3>3
      <4>2. QED
        BY <2>1, <2>3, <3>1, <3>3, <4>1
    <3>4. QED
      BY <3>2, <3>3
  <2>6. ASSUME r[e + 1] = 0  PROVE n = e
    BY <1>2, <1>6, <2>6, TextEnds DEF n
  <2>7. ASSUME r[e + 1] = 0, NEW k \in 1 .. Size, k > e  PROVE Padded(Text(r))[k] = 0
    <3>1. ~(k <= n)
      BY <1>4, <2>2, <2>6, <2>7
    <3>2. QED
      BY <2>3, <3>1
  <2>8. QED
    BY <2>3, <2>5, <2>7
<1>7. /\ DOMAIN p = 1 .. Size /\ \A k \in 1 .. e + 1 : p[k] = s[k] /\ q[k] = b[k]
      /\ s[e + 1] = 0 => \A k \in 1 .. Size : k > e => p[k] = 0
      /\ b[e + 1] = 0 => \A k \in 1 .. Size : k > e => q[k] = 0
  BY <1>5, <1>6
<1> HIDE DEF p, q
<1>8. At(s, e) = s[e + 1] /\ At(b, e) = b[e + 1]
  BY DEF At
<1>9. CASE s[e + 1] = b[e + 1]
  <2>1. s[e + 1] = 0
    BY <1>2, <1>8, <1>9
  <2>2. ASSUME NEW k \in DOMAIN p  PROVE p[k] = q[k]
    <3>1. k \in 1 .. Size
      BY <1>7
    <3>2. CASE k > e
      BY <1>7, <1>9, <2>1, <3>1, <3>2
    <3>3. CASE ~(k > e)
      <4>1. k \in 1 .. e /\ k \in 1 .. e + 1
        BY <1>4, <3>1, <3>3
      <4>2. QED
        BY <1>5, <1>7, <4>1
    <3>4. QED
      BY <3>2, <3>3
  <2>3. Order(p, q) = 0
    BY <2>2, OrderOfEquals
  <2>4. QED
    BY <1>3, <1>4, <1>8, <1>9, <2>3 DEF Sign, p, q
<1>10. CASE s[e + 1] # b[e + 1]
  <2>1. e + 1 \in 1 .. e + 1
    BY <1>4
  <2>2. p[e + 1] = s[e + 1] /\ q[e + 1] = b[e + 1]
    BY <1>7, <2>1
  <2>3. ASSUME NEW k \in 1 .. (e + 1) - 1  PROVE p[k] = q[k]
    <3>1. k \in 1 .. e /\ k \in 1 .. e + 1
      BY <1>4
    <3>2. QED
      BY <1>5, <1>7, <3>1
  <2>4. Order(p, q) = IF p[e + 1] > q[e + 1] THEN 1 ELSE -1
    BY <1>4, <1>7, <1>10, <2>2, <2>3, OrderIs
  <2>5. Sign(strcmp(s, b)) = IF s[e + 1] > b[e + 1] THEN 1 ELSE -1
    <3>1. ASSUME NEW x \in 0 .. 255, NEW y \in 0 .. 255, x # y
          PROVE  Sign(x - y) = IF x > y THEN 1 ELSE -1
      BY <3>1 DEF Sign
    <3>2. strcmp(s, b) = s[e + 1] - b[e + 1]
      BY <1>3, <1>8
    <3>3. QED
      BY <1>4, <1>10, <3>1, <3>2
  <2>6. Sign(strcmp(s, b)) = Order(p, q)
    BY <2>2, <2>4, <2>5
  <2>7. QED
    BY <2>6 DEF p, q
<1>11. QED
  BY <1>9, <1>10

LEMMA MemcmpIs ==
  ASSUME NEW s \in Blocks, NEW b \in Blocks, NEW len \in 0 .. Size
  PROVE  memcmp(s, b, len) = Order(SubSeq(s, 1, len), SubSeq(b, 1, len))
<1> DEFINE go == {k \in Offsets : k < len /\ At(s, k) = At(b, k)}
           e == Stop(go, 0)
           p == SubSeq(s, 1, len)
           q == SubSeq(b, 1, len)
<1>1. 0 \in 0 .. Size /\ go \subseteq Offsets /\ Size \in Nat \ {0}
  BY CellIs
<1>2. StopsAt(go, 0, e)
  BY <1>1, StopIs
<1>3. memcmp(s, b, len) = IF e = len THEN 0 ELSE IF At(s, e) > At(b, e) THEN 1 ELSE -1
  BY DEF memcmp
<1> HIDE DEF e
<1>4. /\ e \in Nat /\ len \in Nat /\ e <= Size
      /\ \A k \in 0 .. e - 1 : k < len /\ At(s, k) = At(b, k)
  BY <1>1, <1>2 DEF StopsAt
<1>5. e <= len
  <2>1. ASSUME e > len  PROVE len \in 0 .. e - 1
    BY <1>4, <2>1
  <2>2. QED
    BY <1>4, <2>1
<1>6. ASSUME NEW k \in 1 .. e  PROVE s[k] = b[k]
  <2>1. k - 1 \in 0 .. e - 1 /\ k - 1 + 1 = k
    BY <1>4
  <2>2. QED
    BY <1>4, <2>1 DEF At
<1>7. /\ DOMAIN p = 1 .. len /\ \A k \in 1 .. len : p[k] = s[k]
      /\ \A k \in 1 .. len : q[k] = b[k]
  <2>1. \A k \in 1 .. len : s[k] \in 0 .. 255 /\ b[k] \in 0 .. 255
    BY CellIs
  <2>2. QED
    BY <1>4, <2>1, PrefixIs
<1> HIDE DEF p, q
<1>8. CASE e = len
  <2>1. \A k \in DOMAIN p : p[k] = q[k]
    BY <1>6, <1>7, <1>8
  <2>2. QED
    BY <1>3, <1>8, <2>1, OrderOfEquals DEF p, q
<1>9. CASE e # len
  <2>1. e < len /\ e \in Offsets /\ e + 1 \in 1 .. len
    BY <1>1, <1>4, <1>5, <1>9 DEF Offsets
  <2>2. s[e + 1] # b[e + 1]
    BY <1>2, <2>1 DEF StopsAt, At
  <2>3. ASSUME NEW k \in 1 .. (e + 1) - 1  PROVE p[k] = q[k]
    <3>1. k \in 1 .. e /\ k \in 1 .. len
      BY <1>4, <2>1
    <3>2. QED
      BY <1>6, <1>7, <3>1
  <2>4. p[e + 1] = s[e + 1] /\ q[e + 1] = b[e + 1]
    BY <1>7, <2>1
  <2>5. Order(p, q) = IF p[e + 1] > q[e + 1] THEN 1 ELSE -1
    BY <1>4, <1>7, <2>1, <2>2, <2>3, <2>4, OrderIs
  <2>6. memcmp(s, b, len) = IF s[e + 1] > b[e + 1] THEN 1 ELSE -1
    BY <1>3, <1>9 DEF At
  <2>7. memcmp(s, b, len) = Order(p, q)
    BY <2>4, <2>5, <2>6
  <2>8. QED
    BY <2>7 DEF p, q
<1>10. QED
  BY <1>8, <1>9

LEMMA StrchrIs ==
  ASSUME NEW s \in Blocks, NEW c, NEW cs,
         cs = {k \in DOMAIN Text(s) : Char(s[k]) = c}
  PROVE  /\ strchr(s, c) \in Int
         /\ IF cs = {} THEN strchr(s, c) = -1
            ELSE strchr(s, c) + 1 \in cs /\ \A k \in cs : strchr(s, c) <= k - 1
<1> DEFINE go == {k \in Offsets : At(s, k) # 0 /\ Char(At(s, k)) # c}
           e == Stop(go, 0)
           n == Len(Text(s))
<1>1. 0 \in Offsets
  BY CellIs DEF Offsets
<1>2. /\ e \in Offsets /\ e >= 0 /\ e \notin go
      /\ \A j \in 0 .. e - 1 : j \in go
  BY <1>1, StopInText
<1>3. strchr(s, c) = IF At(s, e) = 0 THEN -1 ELSE e
  BY DEF strchr
<1> HIDE DEF e
<1>4. /\ e \in Nat /\ At(s, e) = s[e + 1]
      /\ s[e + 1] = 0 \/ Char(s[e + 1]) = c
  BY <1>2, CellIs, StringsAssumption DEF Offsets
<1>5. ASSUME NEW k \in 1 .. e  PROVE s[k] # 0 /\ Char(s[k]) # c
  <2>1. k - 1 \in 0 .. e - 1 /\ k - 1 + 1 = k
    BY <1>4
  <2>2. k - 1 \in go
    BY <1>2, <2>1
  <2>3. QED
    BY <2>1, <2>2 DEF At
<1>6. /\ n \in Nat /\ DOMAIN Text(s) = 1 .. n /\ s[n + 1] = 0
      /\ \A k \in 1 .. n : s[k] # 0
  BY TextIs, StringsAssumption DEF Offsets
<1>7. CASE s[e + 1] = 0
  <2>1. n = e
    BY <1>2, <1>5, <1>7, TextEnds
  <2> HIDE DEF n
  <2>2. cs = {}
    BY <1>5, <1>6, <2>1
  <2>3. QED
    BY <1>3, <1>4, <1>7, <2>2
<1>8. CASE s[e + 1] # 0
  <2> HIDE DEF n
  <2>1. n > e
    <3>1. ASSUME n <= e  PROVE n + 1 \in 1 .. e \/ n = e
      BY <1>4, <1>6, <3>1
    <3>2. QED
      BY <1>4, <1>5, <1>6, <1>8, <3>1
  <2>2. e + 1 \in cs
    BY <1>4, <1>6, <1>8, <2>1
  <2>3. ASSUME NEW k \in cs  PROVE e <= k - 1
    <3>1. k \in 1 .. n /\ Char(s[k]) = c
      BY <1>6
    <3>2. k \notin 1 .. e
      BY <1>5, <3>1
    <3>3. QED
      BY <1>4, <1>6, <3>1, <3>2
  <2>4. strchr(s, c) = e
    BY <1>3, <1>4, <1>8
  <2>5. cs # {}
    BY <2>2
  <2> HIDE DEF go
  <2>6. QED
    BY <1>4, <2>2, <2>3, <2>4, <2>5
<1>9. QED
  BY <1>7, <1>8

LEMMA StrrchrIs ==
  ASSUME NEW s \in Blocks, NEW c, NEW cs,
         cs = {k \in DOMAIN Text(s) : Char(s[k]) = Cut(c)}
  PROVE  /\ strrchr(s, c) \in Int
         /\ IF cs = {} THEN strrchr(s, c) = -1
            ELSE strrchr(s, c) + 1 \in cs /\ \A k \in cs : k - 1 <= strrchr(s, c)
<1> DEFINE go == {k \in Offsets : At(s, k) # 0}
           e == Stop(go, 0)
           n == Len(Text(s))
           Def(t) == [k \in 0 .. Size |-> IF k = 0 THEN -1 ELSE
                        IF Char(At(s, k - 1)) = Cut(c) THEN k - 1 ELSE t[k - 1]]
           c0 == CHOOSE t : t = Def(t)
           Last(k, m) == \/ m = -1 /\ \A j \in 0 .. k - 1 : Char(At(s, j)) # Cut(c)
                         \/ /\ m \in 0 .. k - 1 /\ Char(At(s, m)) = Cut(c)
                            /\ \A j \in m + 1 .. k - 1 : Char(At(s, j)) # Cut(c)
           w0 == [k \in 0 .. Size |-> CHOOSE m \in Int : Last(k, m)]
<1>1. 0 \in Offsets /\ Size \in Nat \ {0}
  BY CellIs DEF Offsets
<1>2. /\ e \in Offsets /\ e >= 0 /\ e \notin go
      /\ \A j \in 0 .. e - 1 : j \in go
  BY <1>1, StopInText
<1>3. strrchr(s, c) = c0[e]
  BY DEF strrchr
<1> HIDE DEF e
<1>4. e \in Nat /\ e \in 0 .. Size /\ e + 1 \in 1 .. Size /\ s[e + 1] = 0
  BY <1>2, CellIs DEF Offsets
<1>5. ASSUME NEW k \in 1 .. e  PROVE s[k] # 0
  <2>1. k - 1 \in 0 .. e - 1 /\ k - 1 + 1 = k
    BY <1>4
  <2>2. k - 1 \in go
    BY <1>2, <2>1
  <2>3. QED
    BY <2>1, <2>2 DEF At
<1>6. n = e /\ DOMAIN Text(s) = 1 .. e
  BY <1>2, <1>4, <1>5, TextEnds, TextIs
<1> HIDE DEF n
<1>7. ASSUME NEW k \in Nat  PROVE \E m \in Int : Last(k, m)
  <2> DEFINE R == {j \in 0 .. k - 1 : Char(At(s, j)) = Cut(c)}
  <2>1. CASE R = {}
    <3>1. Last(k, -1)
      BY <2>1
    <3>2. QED
      BY <3>1
  <2>2. CASE R # {}
    <3>1. R \subseteq 0 .. k
      OBVIOUS
    <3>2. PICK m \in R : \A j \in R : j <= m
      <4> HIDE DEF R
      <4>1. QED
        BY <2>2, <3>1, GreatestIs
    <3>3. ASSUME NEW j \in m + 1 .. k - 1  PROVE Char(At(s, j)) # Cut(c)
      <4>1. j \in 0 .. k - 1 /\ ~(j <= m)
        OBVIOUS
      <4>2. QED
        BY <3>2, <4>1
    <3>4. QED
      BY <3>3
  <2>3. QED
    BY <2>1, <2>2
<1>8. ASSUME NEW k \in Nat, NEW m \in Int, NEW l \in Int, Last(k, m), Last(k, l)
      PROVE  m = l
  BY <1>8
<1>9. ASSUME NEW k \in Nat, NEW m \in Int, Last(k, m)
      PROVE  Last(k + 1, IF Char(At(s, k)) = Cut(c) THEN k ELSE m)
  <2>1. \A j \in 0 .. k : j = k \/ j \in 0 .. k - 1
    OBVIOUS
  <2>2. CASE Char(At(s, k)) = Cut(c)
    BY <2>2
  <2>3. CASE Char(At(s, k)) # Cut(c)
    BY <1>9, <2>1, <2>3
  <2>4. QED
    BY <2>2, <2>3
<1>10. Last(0, -1)
  OBVIOUS
<1> HIDE DEF Last
<1>11. ASSUME NEW k \in 0 .. Size  PROVE w0[k] \in Int /\ Last(k, w0[k])
  BY <1>7
<1>12. w0 = Def(w0)
  <2>1. ASSUME NEW k \in 0 .. Size
        PROVE  w0[k] = IF k = 0 THEN -1 ELSE IF Char(At(s, k - 1)) = Cut(c) THEN k - 1 ELSE w0[k - 1]
    <3> HIDE DEF w0
    <3>1. CASE k = 0
      BY <1>8, <1>10, <1>11, <3>1
    <3>2. CASE k # 0
      <4>1. k - 1 \in 0 .. Size /\ k - 1 \in Nat /\ k - 1 + 1 = k
        BY <1>1, <3>2
      <4>2. Last(k - 1, w0[k - 1]) /\ w0[k - 1] \in Int
        BY <1>11, <4>1
      <4> DEFINE x == IF Char(At(s, k - 1)) = Cut(c) THEN k - 1 ELSE w0[k - 1]
      <4>3. Last(k - 1 + 1, x)
        BY <1>9, <4>1, <4>2
      <4>4. Last(k, x) /\ x \in Int
        BY <4>1, <4>2, <4>3
      <4> HIDE DEF x
      <4>5. w0[k] = x
        BY <1>8, <1>11, <4>4
      <4>6. QED
        BY <3>2, <4>5 DEF x
    <3>3. QED
      BY <3>1, <3>2
  <2>2. w0 = [k \in 0 .. Size |-> w0[k]]
    OBVIOUS
  <2>3. Def(w0) = [k \in 0 .. Size |-> IF k = 0 THEN -1 ELSE
                     IF Char(At(s, k - 1)) = Cut(c) THEN k - 1 ELSE w0[k - 1]]
    OBVIOUS
  <2>4. QED
    <3> HIDE DEF w0, Def
    <3>1. QED
      BY <2>1, <2>2, <2>3
<1>13. c0 = Def(c0)
  <2> HIDE DEF w0, Def
  <2>1. QED
    BY <1>12
<1>14. ASSUME NEW k \in 0 .. Size
       PROVE  c0[k] = IF k = 0 THEN -1 ELSE IF Char(At(s, k - 1)) = Cut(c) THEN k - 1 ELSE c0[k - 1]
  <2> HIDE DEF c0
  <2>1. QED
    BY <1>13
<1> HIDE DEF c0
<1>15. Last(e, c0[e]) /\ c0[e] \in Int
  <2> DEFINE T == {k \in Nat : k <= Size => c0[k] \in Int /\ Last(k, c0[k])}
  <2>1. 0 \in T
    <3>1. 0 \in 0 .. Size
      BY <1>1
    <3>2. c0[0] = -1
      BY <1>14, <3>1
    <3>3. QED
      BY <1>10, <3>2
  <2>2. ASSUME NEW k \in Nat, k \in T  PROVE k + 1 \in T
    <3>1. SUFFICES ASSUME k + 1 <= Size  PROVE c0[k + 1] \in Int /\ Last(k + 1, c0[k + 1])
      OBVIOUS
    <3>2. /\ k + 1 \in 0 .. Size /\ k + 1 # 0 /\ k + 1 - 1 = k /\ k <= Size
          /\ c0[k] \in Int /\ Last(k, c0[k])
      BY <1>1, <2>2, <3>1
    <3>3. c0[k + 1] = IF k + 1 = 0 THEN -1 ELSE
                        IF Char(At(s, k + 1 - 1)) = Cut(c) THEN k + 1 - 1 ELSE c0[k + 1 - 1]
      BY <1>14, <3>2
    <3>4. c0[k + 1] = IF Char(At(s, k)) = Cut(c) THEN k ELSE c0[k]
      BY <3>2, <3>3
    <3>5. QED
      BY <1>9, <3>2, <3>4
  <2>3. Nat \subseteq T
    <3> HIDE DEF T
    <3>1. QED
      BY <2>1, <2>2, SetInduction
  <2>4. QED
    BY <1>4, <2>3
<1>16. ASSUME NEW k \in cs  PROVE k \in 1 .. e /\ k - 1 \in 0 .. e - 1 /\ Char(At(s, k - 1)) = Cut(c)
  <2>1. k \in 1 .. e /\ Char(s[k]) = Cut(c)
    BY <1>6
  <2>2. k - 1 + 1 = k
    BY <2>1
  <2>3. QED
    BY <1>4, <2>1, <2>2 DEF At
<1>17. CASE c0[e] = -1
  <2>1. \A j \in 0 .. e - 1 : Char(At(s, j)) # Cut(c)
    BY <1>15, <1>17 DEF Last
  <2>2. cs = {}
    BY <1>16, <2>1
  <2>3. QED
    BY <1>3, <1>17, <2>2
<1>18. CASE c0[e] # -1
  <2>1. /\ c0[e] \in 0 .. e - 1 /\ Char(At(s, c0[e])) = Cut(c)
        /\ \A j \in c0[e] + 1 .. e - 1 : Char(At(s, j)) # Cut(c)
    BY <1>15, <1>18 DEF Last
  <2>2. c0[e] + 1 \in cs
    <3>1. c0[e] + 1 \in 1 .. e /\ Char(s[c0[e] + 1]) = Cut(c)
      BY <1>4, <2>1 DEF At
    <3>2. QED
      BY <1>6, <3>1
  <2>3. ASSUME NEW k \in cs  PROVE k - 1 <= c0[e]
    <3>1. k - 1 \in 0 .. e - 1 /\ k - 1 \notin c0[e] + 1 .. e - 1
      BY <1>16, <2>1
    <3>2. QED
      BY <2>1, <3>1
  <2>4. cs # {}
    BY <2>2
  <2>5. QED
    BY <1>15, <1>3, <2>2, <2>3, <2>4
<1>19. QED
  BY <1>17, <1>18

(* The comparisons and the searches find what they are to find, in every   *)
(* block.                                                                  *)
LEMMA ComparesAll ==
  ASSUME block \in Blocks, NEW b \in Blocks
  PROVE  Compared(b)
<1> SUFFICES /\ strlen(block) = 1 + Len(Text(Behind(block)))
             /\ block[1] # 0 => strlen(block) = Len(Text(block))
             /\ Sign(strcmp(block, b)) = Order(Padded(Text(block)), Padded(Text(b)))
             /\ \A len \in 0 .. Size :
                  memcmp(block, b, len) = Order(SubSeq(block, 1, len), SubSeq(b, 1, len))
             /\ \A c \in Chars \union {Char(d) : d \in Chars} :
                  LET here == {k \in DOMAIN Text(block) : Char(block[k]) = c}
                      cut == {k \in DOMAIN Text(block) : Char(block[k]) = Cut(c)}
                  IN  /\ IF here = {} THEN strchr(block, c) = -1
                         ELSE /\ strchr(block, c) + 1 \in here
                              /\ \A k \in here : strchr(block, c) <= k - 1
                      /\ IF cut = {} THEN strrchr(block, c) = -1
                         ELSE /\ strrchr(block, c) + 1 \in cut
                              /\ \A k \in cut : k - 1 <= strrchr(block, c)
  BY DEF Compared
<1>1. /\ strlen(block) = 1 + Len(Text(Behind(block)))
      /\ block[1] # 0 => strlen(block) = Len(Text(block))
      /\ Sign(strcmp(block, b)) = Order(Padded(Text(block)), Padded(Text(b)))
      /\ \A len \in 0 .. Size :
           memcmp(block, b, len) = Order(SubSeq(block, 1, len), SubSeq(b, 1, len))
  BY StrlenIs, StrcmpIs, MemcmpIs
<1>2. \A c \in Chars \union {Char(d) : d \in Chars} :
       LET here == {k \in DOMAIN Text(block) : Char(block[k]) = c}
           cut == {k \in DOMAIN Text(block) : Char(block[k]) = Cut(c)}
       IN  /\ IF here = {} THEN strchr(block, c) = -1
              ELSE /\ strchr(block, c) + 1 \in here
                   /\ \A k \in here : strchr(block, c) <= k - 1
           /\ IF cut = {} THEN strrchr(block, c) = -1
              ELSE /\ strrchr(block, c) + 1 \in cut
                   /\ \A k \in cut : k - 1 <= strrchr(block, c)
  <2> TAKE c \in Chars \union {Char(d) : d \in Chars}
  <2>1. LET here == {k \in DOMAIN Text(block) : Char(block[k]) = c}
        IN  IF here = {} THEN strchr(block, c) = -1
            ELSE strchr(block, c) + 1 \in here /\ \A k \in here : strchr(block, c) <= k - 1
    BY StrchrIs
  <2>2. LET cut == {k \in DOMAIN Text(block) : Char(block[k]) = Cut(c)}
        IN  IF cut = {} THEN strrchr(block, c) = -1
            ELSE strrchr(block, c) + 1 \in cut /\ \A k \in cut : k - 1 <= strrchr(block, c)
    BY StrrchrIs
  <2>3. QED
    BY <2>1, <2>2
<1>3. QED
  BY <1>1, <1>2

-----------------------------------------------------------------------------
(* The copies.                                                             *)
LEMMA PartsEqual ==
  ASSUME NEW S, NEW a, NEW b, NEW m \in Int, NEW n \in Int,
         \A x \in m .. n : a[x] = b[x] /\ a[x] \in S
  PROVE  SubSeq(a, m, n) = SubSeq(b, m, n)
<1>1. /\ SubSeq(a, m, n) \in Seq(S) /\ SubSeq(b, m, n) \in Seq(S)
      /\ Len(SubSeq(a, m, n)) = IF m <= n THEN n - m + 1 ELSE 0
      /\ Len(SubSeq(b, m, n)) = IF m <= n THEN n - m + 1 ELSE 0
      /\ \A x \in 1 .. n - m + 1 : SubSeq(a, m, n)[x] = a[m + x - 1]
      /\ \A x \in 1 .. n - m + 1 : SubSeq(b, m, n)[x] = b[m + x - 1]
  BY SubSeqProperties
<1>2. ASSUME NEW x \in 1 .. Len(SubSeq(a, m, n))
      PROVE  SubSeq(a, m, n)[x] = SubSeq(b, m, n)[x]
  <2>1. x \in 1 .. n - m + 1 /\ m + x - 1 \in m .. n
    BY <1>1
  <2>2. QED
    BY <1>1, <2>1
<1>3. Len(SubSeq(a, m, n)) = Len(SubSeq(b, m, n))
  BY <1>1
<1>4. QED
  BY <1>1, <1>2, <1>3, SeqEqual

LEMMA RestIs ==
  ASSUME NEW a, NEW b \in Blocks, NEW n \in Nat, \A k \in 1 .. Size : k > n => a[k] = b[k]
  PROVE  From(a, n) = From(b, n)
<1>1. \A k \in n + 1 .. Size : a[k] = b[k] /\ a[k] \in 0 .. 255
  BY CellIs
<1>2. n + 1 \in Int /\ Size \in Int
  BY CellIs
<1>3. QED
  BY <1>1, <1>2, PartsEqual DEF From

LEMMA TextsEqual ==
  ASSUME NEW r \in Blocks, NEW s \in Blocks, NEW e \in Offsets, r[e + 1] = 0, e <= Len(Text(s)),
         \A k \in 1 .. e : r[k] = s[k]
  PROVE  Text(r) = SubSeq(Text(s), 1, e)
<1> DEFINE t == Text(s)
<1>1. /\ t \in Seq(Chars) /\ e \in Nat /\ 1 .. e \subseteq 1 .. Len(t)
      /\ \A k \in 1 .. Len(t) : t[k] = s[k] /\ s[k] \in Chars /\ s[k] # 0
  BY TextIs, StringsAssumption DEF Offsets
<1> HIDE DEF t
<1>2. Len(Text(r)) = e
  BY <1>1, TextEnds
<1>3. Text(r) \in Seq(Chars) /\ \A k \in 1 .. e : Text(r)[k] = r[k]
  BY <1>2, TextIs
<1>4. \A k \in 1 .. e : t[k] \in Chars
  BY <1>1
<1>5. /\ SubSeq(t, 1, e) \in Seq(Chars) /\ Len(SubSeq(t, 1, e)) = e
      /\ \A k \in 1 .. e : SubSeq(t, 1, e)[k] = t[k]
  BY <1>1, <1>4, PrefixIs
<1>6. \A k \in 1 .. Len(Text(r)) : Text(r)[k] = SubSeq(t, 1, e)[k]
  BY <1>1, <1>2, <1>3, <1>5
<1>7. Text(r) = SubSeq(t, 1, e)
  BY <1>2, <1>3, <1>5, <1>6, SeqEqual
<1>8. QED
  BY <1>7 DEF t

LEMMA CopyIs ==
  ASSUME NEW dest \in Blocks, NEW s \in Blocks, NEW n \in 0 .. Size
  PROVE  /\ Copy(dest, s, n) \in Blocks
         /\ \A k \in 1 .. Size : Copy(dest, s, n)[k] = IF k <= n THEN s[k] ELSE dest[k]
<1>1. \A k \in 1 .. Size : Copy(dest, s, n)[k] = IF k <= n THEN s[k] ELSE dest[k]
  BY DEF Copy
<1>2. Copy(dest, s, n) \in [1 .. Size -> Chars \union {0}]
  <2>1. \A k \in 1 .. Size : (IF k <= n THEN s[k] ELSE dest[k]) \in Chars \union {0}
    BY CellIs
  <2>2. QED
    BY <2>1 DEF Copy
<1>3. Copy(dest, s, n)[Size] = 0
  BY <1>1, CellIs
<1>4. QED
  BY <1>1, <1>2, <1>3 DEF Blocks

LEMMA StrncpyIs ==
  ASSUME NEW dest \in Blocks, NEW s \in Blocks, NEW n \in 0 .. Size
  PROVE  /\ n > 0 => Text(strncpy(dest, s, n)) =
                       SubSeq(Text(s), 1, IF Len(Text(s)) < n THEN Len(Text(s)) ELSE n - 1)
         /\ From(strncpy(dest, s, n), n) = From(dest, n)
<1>1. CASE n = 0
  BY <1>1 DEF strncpy
<1>2. CASE n # 0
  <2> DEFINE go == {k \in Offsets : At(s, k) # 0 /\ k < n - 1}
             e == Stop(go, 0)
             copy == Copy(dest, s, e)
             r == Put(copy, e, 0)
             l == Len(Text(s))
  <2>1. 0 \in Offsets
    BY CellIs DEF Offsets
  <2>2. /\ e \in Offsets /\ e >= 0 /\ e \notin go
        /\ \A j \in 0 .. e - 1 : j \in go
    BY <2>1, StopInText
  <2>3. strncpy(dest, s, n) = r
    BY <1>2 DEF strncpy
  <2> HIDE DEF e
  <2>4. /\ Size \in Nat \ {0} /\ n \in Nat /\ e \in Nat /\ e \in 0 .. Size /\ e + 1 \in 1 .. Size
        /\ At(s, e) = s[e + 1]
    BY <2>2, CellIs DEF Offsets
  <2>5. ASSUME NEW k \in 1 .. e  PROVE s[k] # 0
    <3>1. k - 1 \in 0 .. e - 1 /\ k - 1 + 1 = k
      BY <2>4
    <3>2. k - 1 \in go
      BY <2>2, <3>1
    <3>3. QED
      BY <3>1, <3>2 DEF At
  <2>6. e <= n - 1
    <3>1. ASSUME e > n - 1  PROVE FALSE
      <4>1. n - 1 \in 0 .. e - 1
        BY <1>2, <2>4, <3>1
      <4>2. QED
        BY <2>2, <4>1
    <3>2. QED
      BY <2>4, <3>1
  <2>7. /\ copy \in Blocks
        /\ \A k \in 1 .. Size : copy[k] = IF k <= e THEN s[k] ELSE dest[k]
    BY <2>4, CopyIs
  <2> HIDE DEF copy
  <2>8. /\ r \in [1 .. Size -> Chars \union {0}]
        /\ \A k \in 1 .. Size : r[k] = IF k = e + 1 THEN 0 ELSE copy[k]
    BY <2>4, <2>7 DEF Put, Blocks
  <2> HIDE DEF r
  <2>9. r \in Blocks
    <3>1. copy[Size] = 0
      BY <2>7, CellIs
    <3>2. QED
      BY <2>4, <2>8, <3>1 DEF Blocks
  <2>10. /\ r[e + 1] = 0 /\ \A k \in 1 .. e : r[k] = s[k]
         /\ \A k \in 1 .. Size : k > n => r[k] = dest[k]
    BY <2>4, <2>6, <2>7, <2>8
  <2>11. l \in Nat /\ s[l + 1] = 0
    BY TextIs, StringsAssumption DEF Offsets
  <2>12. e <= l
    <3>1. ASSUME l < e  PROVE FALSE
      <4>1. l + 1 \in 1 .. e
        BY <2>4, <2>11, <3>1
      <4>2. QED
        BY <2>5, <2>11, <4>1
    <3>2. QED
      BY <2>4, <2>11, <3>1
  <2>13. e = IF l < n THEN l ELSE n - 1
    <3>1. CASE s[e + 1] = 0
      <4>1. l = e
        BY <2>2, <2>5, <3>1, TextEnds
      <4>2. QED
        BY <2>4, <2>6, <4>1
    <3>2. CASE s[e + 1] # 0
      <4>1. e = n - 1
        BY <2>2, <2>4, <2>6, <3>2
      <4>2. l # e
        BY <2>11, <3>2
      <4>3. QED
        BY <2>4, <2>11, <2>12, <4>1, <4>2
    <3>3. QED
      BY <3>1, <3>2
  <2>14. Text(r) = SubSeq(Text(s), 1, e)
    BY <2>2, <2>9, <2>10, <2>12, TextsEqual DEF l
  <2>15. From(r, n) = From(dest, n)
    BY <2>4, <2>10, RestIs
  <2>16. QED
    BY <2>3, <2>13, <2>14, <2>15
<1>3. QED
  BY <1>1, <1>2

LEMMA MbstowcsIs ==
  ASSUME NEW dest \in Blocks, NEW s \in Blocks, NEW n \in 0 .. Size, NEW wide,
         wide = {k \in 1 .. n : k <= Len(Text(s)) /\ Text(s)[k] >= 128}
  PROVE  /\ From(mbstowcs(dest, s, n).dest, n) = From(dest, n)
         /\ mbstowcs(dest, s, n).ret = IF wide # {} THEN -1
                                       ELSE IF Len(Text(s)) < n THEN Len(Text(s)) ELSE n
         /\ wide = {} /\ Len(Text(s)) < n => Text(mbstowcs(dest, s, n).dest) = Text(s)
<1> DEFINE go == {k \in Offsets : k < n /\ At(s, k) # 0 /\ At(s, k) < 128}
           e == Stop(go, 0)
           l == Len(Text(s))
           w == mbstowcs(dest, s, n)
<1>1. 0 \in Offsets /\ go \subseteq {j \in Offsets : At(s, j) # 0}
  BY CellIs DEF Offsets
<1>2. /\ e \in Offsets /\ e >= 0 /\ e \notin go
      /\ \A j \in 0 .. e - 1 : j \in go
  BY <1>1, StopInText
<1>3. w = IF e = n THEN [ret |-> n, dest |-> Copy(dest, s, n)]
          ELSE [ret |-> IF At(s, e) = 0 THEN e ELSE -1, dest |-> Copy(dest, s, e + 1)]
  BY DEF mbstowcs
<1> HIDE DEF e, w
<1>4. /\ Size \in Nat \ {0} /\ n \in Nat /\ e \in Nat /\ e + 1 \in 1 .. Size
      /\ At(s, e) = s[e + 1] /\ s[e + 1] \in 0 .. 255
  BY <1>2, CellIs DEF Offsets
<1>0. \A x \in 0 .. 255 : x >= 128 <=> ~(x < 128)
  OBVIOUS
<1>5. ASSUME NEW k \in 1 .. e  PROVE s[k] # 0 /\ s[k] < 128 /\ s[k] \in 0 .. 255 /\ k <= n
  <2>1. k - 1 \in 0 .. e - 1 /\ k - 1 + 1 = k
    BY <1>4
  <2>2. k - 1 \in go
    BY <1>2, <2>1
  <2>3. At(s, k - 1) = s[k]
    BY <2>1 DEF At
  <2>4. s[k] # 0 /\ s[k] < 128 /\ k - 1 < n
    BY <2>2, <2>3
  <2>5. k \in 1 .. Size /\ k <= n
    BY <1>4, <2>1, <2>4
  <2>6. s[k] \in 0 .. 255
    BY <2>5, CellIs
  <2>7. QED
    BY <2>4, <2>5, <2>6
<1>6. e <= n
  <2>1. ASSUME e > n  PROVE FALSE
    <3>1. e \in 1 .. e
      BY <1>4, <2>1
    <3>2. QED
      BY <1>4, <1>5, <2>1, <3>1
  <2>2. QED
    BY <1>4, <2>1
<1>7. /\ l \in Nat /\ s[l + 1] = 0 /\ Text(s) \in Seq(Chars)
      /\ \A k \in 1 .. l : Text(s)[k] = s[k]
  BY TextIs, StringsAssumption DEF Offsets
<1>8. e <= l
  <2>1. ASSUME l < e  PROVE FALSE
    <3>1. l + 1 \in 1 .. e
      BY <1>4, <1>7, <2>1
    <3>2. QED
      BY <1>5, <1>7, <3>1
  <2>2. QED
    BY <1>4, <1>7, <2>1
<1>9. wide = {k \in 1 .. n : k <= l /\ s[k] >= 128}
  <2>1. ASSUME NEW k \in 1 .. n  PROVE (k <= l /\ Text(s)[k] >= 128) <=> (k <= l /\ s[k] >= 128)
    <3>1. k <= l => k \in 1 .. l
      BY <1>7
    <3>2. QED
      BY <1>7, <3>1
  <2> HIDE DEF l
  <2>2. QED
    BY <2>1 DEF l
<1>10. CASE e = n
  <2>1. w.ret = n /\ w.dest = Copy(dest, s, n)
    BY <1>3, <1>10
  <2>2. \A k \in 1 .. Size : k > n => Copy(dest, s, n)[k] = dest[k]
    BY <1>4, CopyIs
  <2>3. From(w.dest, n) = From(dest, n)
    BY <1>4, <2>1, <2>2, RestIs
  <2>4. wide = {}
    <3>1. ASSUME NEW k \in wide  PROVE FALSE
      <4>1. k \in 1 .. e /\ s[k] >= 128
        BY <1>9, <1>10
      <4>2. s[k] < 128 /\ s[k] \in 0 .. 255
        BY <1>5, <4>1
      <4>3. QED
        BY <1>0, <4>1, <4>2
    <3>2. QED
      BY <3>1
  <2> HIDE DEF l
  <2>5. ~(l < n)
    BY <1>4, <1>7, <1>8, <1>10
  <2>6. QED
    BY <2>1, <2>3, <2>4, <2>5 DEF l, w
<1>11. CASE e # n
  <2>1. /\ w.ret = IF s[e + 1] = 0 THEN e ELSE -1
        /\ w.dest = Copy(dest, s, e + 1)
    BY <1>3, <1>4, <1>11
  <2>2. e < n /\ e + 1 \in 0 .. Size /\ e + 1 <= n /\ ~(s[e + 1] # 0 /\ s[e + 1] < 128)
    BY <1>2, <1>4, <1>6, <1>11
  <2>3. /\ Copy(dest, s, e + 1) \in Blocks
        /\ \A k \in 1 .. Size : Copy(dest, s, e + 1)[k] = IF k <= e + 1 THEN s[k] ELSE dest[k]
    BY <2>2, CopyIs
  <2>4. From(w.dest, n) = From(dest, n)
    <3>1. \A k \in 1 .. Size : k > n => Copy(dest, s, e + 1)[k] = dest[k]
      BY <1>4, <2>2, <2>3
    <3>2. QED
      BY <1>4, <2>1, <3>1, RestIs
  <2>5. CASE s[e + 1] = 0
    <3>1. l = e
      BY <1>2, <1>5, <2>5, TextEnds
    <3>2. wide = {}
      <4>1. ASSUME NEW k \in wide  PROVE FALSE
        <5>1. k \in 1 .. e /\ s[k] >= 128
          BY <1>4, <1>7, <1>9, <3>1
        <5>2. s[k] < 128 /\ s[k] \in 0 .. 255
          BY <1>5, <5>1
        <5>3. QED
          BY <1>0, <5>1, <5>2
      <4>2. QED
        BY <4>1
    <3>3. /\ Copy(dest, s, e + 1)[e + 1] = 0 /\ \A k \in 1 .. e : Copy(dest, s, e + 1)[k] = s[k]
      BY <1>4, <2>3, <2>5
    <3>4. Text(w.dest) = SubSeq(Text(s), 1, e)
      BY <1>2, <1>8, <2>1, <2>3, <3>3, TextsEqual
    <3>5. SubSeq(Text(s), 1, e) = Text(s)
      BY <1>7, <3>1, SubSeqFull
    <3> HIDE DEF l
    <3>6. QED
      BY <2>1, <2>2, <2>4, <2>5, <3>1, <3>2, <3>4, <3>5 DEF l, w
  <2>6. CASE s[e + 1] # 0
    <3>1. l # e
      BY <1>7, <2>6
    <3> HIDE DEF l
    <3>2. e + 1 \in 1 .. n /\ e + 1 <= l /\ s[e + 1] >= 128
      <4>1. e + 1 \in 1 .. n /\ e + 1 <= l
        BY <1>4, <1>7, <1>8, <2>2, <3>1
      <4>2. s[e + 1] >= 128
        BY <1>0, <1>4, <2>2, <2>6
      <4>3. QED
        BY <4>1, <4>2
    <3>3. wide # {}
      BY <1>9, <3>2
    <3>4. QED
      BY <2>1, <2>4, <2>6, <3>3 DEF w
  <2>7. QED
    BY <2>5, <2>6
<1>12. QED
  BY <1>10, <1>11

(* The copies keep within the room that they are told of, and keep the     *)
(* text, for every block.                                                  *)
LEMMA CopiesAll ==
  ASSUME block \in Blocks, NEW dest \in Blocks
  PROVE  Copied(dest)
<1> SUFFICES ASSUME NEW n \in 0 .. Size,
                    NEW t, t = Text(block),
                    NEW wide, wide = {k \in 1 .. n : k <= Len(t) /\ t[k] >= 128}
             PROVE  LET kept == IF n = 0 THEN 0 ELSE IF Len(t) < n THEN Len(t) ELSE n - 1
                        w == mbstowcs(dest, block, n)
                    IN  /\ n > 0 => Text(strncpy(dest, block, n)) = SubSeq(t, 1, kept)
                        /\ From(strncpy(dest, block, n), n) = From(dest, n)
                        /\ From(w.dest, n) = From(dest, n)
                        /\ w.ret = IF wide # {} THEN -1 ELSE IF Len(t) < n THEN Len(t) ELSE n
                        /\ wide = {} /\ Len(t) < n => Text(w.dest) = t
  BY DEF Copied
<1>1. n > 0 => n # 0
  BY StringsAssumption
<1>2. /\ n > 0 => Text(strncpy(dest, block, n)) =
                    SubSeq(t, 1, IF Len(t) < n THEN Len(t) ELSE n - 1)
      /\ From(strncpy(dest, block, n), n) = From(dest, n)
  BY StrncpyIs
<1>3. /\ From(mbstowcs(dest, block, n).dest, n) = From(dest, n)
      /\ mbstowcs(dest, block, n).ret = IF wide # {} THEN -1 ELSE IF Len(t) < n THEN Len(t) ELSE n
      /\ wide = {} /\ Len(t) < n => Text(mbstowcs(dest, block, n).dest) = t
  <2>1. wide = {k \in 1 .. n : k <= Len(Text(block)) /\ Text(block)[k] >= 128}
    OBVIOUS
  <2>2. /\ From(mbstowcs(dest, block, n).dest, n) = From(dest, n)
        /\ mbstowcs(dest, block, n).ret = IF wide # {} THEN -1
                                          ELSE IF Len(Text(block)) < n THEN Len(Text(block)) ELSE n
        /\ wide = {} /\ Len(Text(block)) < n
             => Text(mbstowcs(dest, block, n).dest) = Text(block)
    BY <2>1, MbstowcsIs
  <2>3. QED
    BY <2>2
<1>4. QED
  BY <1>1, <1>2, <1>3

-----------------------------------------------------------------------------
(* Fields.                                                                 *)
LEMMA SpanIs ==
  ASSUME NEW b \in Blocks, NEW k \in Offsets, NEW s, s = k + strspn(b, k, Delims)
  PROVE  /\ s \in Offsets /\ s >= k /\ b[s + 1] \notin Delims
         /\ \A j \in k + 1 .. s : b[j] \in Delims
<1> DEFINE go == {j \in Offsets : At(b, j) \in Delims}
<1>1. go \subseteq {j \in Offsets : At(b, j) # 0}
  BY StringsAssumption
<1>2. /\ Stop(go, k) \in Offsets /\ Stop(go, k) >= k /\ Stop(go, k) \notin go
      /\ \A j \in k .. Stop(go, k) - 1 : j \in go
  BY <1>1, StopInText
<1>3. strspn(b, k, Delims) = Stop(go, k) - k
  BY DEF strspn
<1> HIDE DEF go
<1>4. k \in Nat /\ Stop(go, k) \in Nat
  BY <1>2, StringsAssumption DEF Offsets
<1>5. s = Stop(go, k)
  BY <1>3, <1>4
<1>6. b[s + 1] \notin Delims
  BY <1>2, <1>5 DEF go, At
<1>7. ASSUME NEW j \in k + 1 .. s  PROVE b[j] \in Delims
  <2>1. j - 1 \in k .. s - 1 /\ j - 1 + 1 = j
    BY <1>4, <1>5
  <2>2. j - 1 \in go
    BY <1>2, <1>5, <2>1
  <2>3. QED
    BY <2>1, <2>2 DEF go, At
<1>8. QED
  BY <1>2, <1>5, <1>6, <1>7

LEMMA CspanIs ==
  ASSUME NEW b \in Blocks, NEW k \in Offsets, NEW e, e = k + strcspn(b, k, Delims)
  PROVE  /\ e \in Offsets /\ e >= k /\ b[e + 1] \in Delims \union {0}
         /\ \A j \in k + 1 .. e : b[j] \notin Delims \union {0}
<1> DEFINE go == {j \in Offsets : At(b, j) \notin Delims \union {0}}
<1>1. go \subseteq {j \in Offsets : At(b, j) # 0}
  OBVIOUS
<1>2. /\ Stop(go, k) \in Offsets /\ Stop(go, k) >= k /\ Stop(go, k) \notin go
      /\ \A j \in k .. Stop(go, k) - 1 : j \in go
  BY <1>1, StopInText
<1>3. strcspn(b, k, Delims) = Stop(go, k) - k
  BY DEF strcspn
<1> HIDE DEF go
<1>4. k \in Nat /\ Stop(go, k) \in Nat
  BY <1>2, StringsAssumption DEF Offsets
<1>5. e = Stop(go, k)
  BY <1>3, <1>4
<1>6. b[e + 1] \in Delims \union {0}
  BY <1>2, <1>5 DEF go, At
<1>7. ASSUME NEW j \in k + 1 .. e  PROVE b[j] \notin Delims \union {0}
  <2>1. j - 1 \in k .. e - 1 /\ j - 1 + 1 = j
    BY <1>4, <1>5
  <2>2. j - 1 \in go
    BY <1>2, <1>5, <2>1
  <2>3. QED
    BY <2>1, <2>2 DEF go, At
<1>8. QED
  BY <1>2, <1>5, <1>6, <1>7

LEMMA RankIs ==
  ASSUME NEW t \in Seq(Chars)
  PROVE  /\ Starts(t) \subseteq 1 .. Len(t) /\ IsFiniteSet(Starts(t))
         /\ \A k \in Int : /\ IsFiniteSet({j \in Starts(t) : j <= k})
                           /\ Rank(t, k) \in Nat /\ Rank(t, k) <= Cardinality(Starts(t))
         /\ \A j, k \in Starts(t) : Rank(t, j) = Rank(t, k) => j = k
<1>1. Starts(t) \subseteq 1 .. Len(t) /\ Len(t) \in Nat
  BY DEF Starts, Kept
<1>2. IsFiniteSet(Starts(t))
  <2>1. Starts(t) \in SUBSET (1 .. Len(t)) /\ IsFiniteSet(1 .. Len(t))
    BY <1>1, FS_Interval
  <2>2. QED
    BY <2>1, FS_Subset
<1>3. ASSUME NEW k \in Int
      PROVE  /\ IsFiniteSet({j \in Starts(t) : j <= k})
             /\ Rank(t, k) \in Nat /\ Rank(t, k) <= Cardinality(Starts(t))
  <2>1. {j \in Starts(t) : j <= k} \in SUBSET Starts(t)
    OBVIOUS
  <2>2. /\ IsFiniteSet({j \in Starts(t) : j <= k})
        /\ Cardinality({j \in Starts(t) : j <= k}) <= Cardinality(Starts(t))
    BY <1>2, <2>1, FS_Subset
  <2>3. QED
    BY <2>2, FS_CardinalityType DEF Rank
<1>4. ASSUME NEW j \in Starts(t), NEW k \in Starts(t), Rank(t, j) = Rank(t, k), j < k  PROVE FALSE
  <2> DEFINE A == {x \in Starts(t) : x <= j}
             B == {x \in Starts(t) : x <= k}
  <2>1. j \in Int /\ k \in Int /\ \A x \in Starts(t) : x \in Int
    BY <1>1
  <2>2. A \in SUBSET B
    <3>1. ASSUME NEW x \in Starts(t), x <= j  PROVE x <= k
      BY <1>4, <2>1, <3>1
    <3>2. QED
      BY <3>1
  <2>3. k \in B /\ k \notin A
    BY <1>4, <2>1
  <2>4. IsFiniteSet(B) /\ Cardinality(A) = Cardinality(B)
    BY <1>3, <1>4, <2>1 DEF Rank
  <2> HIDE DEF A, B
  <2>5. A = B
    BY <2>2, <2>4, FS_Subset
  <2>6. QED
    BY <2>3, <2>5
<1>5. ASSUME NEW j \in Starts(t), NEW k \in Starts(t), Rank(t, j) = Rank(t, k)  PROVE j = k
  <2>1. j \in Int /\ k \in Int /\ ~(j < k) /\ ~(k < j)
    BY <1>1, <1>4, <1>5
  <2>2. QED
    BY <2>1
<1>6. QED
  BY <1>1, <1>2, <1>3, <1>5

(* The first m fields of a text; and that strtok() goes on in b, which it  *)
(* has cut up, from offset p of text t, with got found so far.             *)
First(t, m) == [n \in 1 .. m |-> FieldAt(t, CHOOSE k \in Starts(t) : Rank(t, k) = n)]

Place(t, b, p, got) ==
  /\ p \in 0 .. Len(t)
  /\ p = 0 \/ p = Len(t) \/ t[p] \in Delims
  /\ \A k \in p + 1 .. Len(t) + 1 : b[k] = IF k <= Len(t) THEN t[k] ELSE 0
  /\ got = First(t, Rank(t, p))

(* strtok() finds no further field: it has found them all.                 *)
LEMMA PlaceEnds ==
  ASSUME NEW t \in Seq(Chars), NEW b \in Blocks, NEW p, NEW got, Place(t, b, p, got),
         NEW s \in Nat, s >= p, \A k \in p + 1 .. s : b[k] \in Delims, b[s + 1] = 0
  PROVE  got = Fields(t)
<1>1. /\ Len(t) \in Nat /\ p \in 0 .. Len(t) /\ DOMAIN t = 1 .. Len(t)
      /\ \A k \in 1 .. Len(t) : t[k] \in Chars
      /\ \A k \in p + 1 .. Len(t) + 1 : b[k] = IF k <= Len(t) THEN t[k] ELSE 0
      /\ got = First(t, Rank(t, p))
  BY DEF Place
<1>2. s >= Len(t)
  <2>1. ASSUME s < Len(t)  PROVE FALSE
    <3>1. s + 1 \in p + 1 .. Len(t) + 1 /\ s + 1 <= Len(t) /\ s + 1 \in 1 .. Len(t)
      BY <1>1, <2>1
    <3>2. b[s + 1] \in Chars
      BY <1>1, <3>1
    <3>3. QED
      BY <3>2, StringsAssumption
  <2>2. QED
    BY <1>1, <2>1
<1>3. ASSUME NEW k \in Starts(t)  PROVE k <= p
  <2>1. ASSUME k > p  PROVE FALSE
    <3>1. k \in 1 .. Len(t) /\ t[k] \notin Delims
      BY <1>1 DEF Starts, Kept
    <3>2. k \in p + 1 .. s /\ k \in p + 1 .. Len(t) + 1 /\ k <= Len(t)
      BY <1>1, <1>2, <2>1, <3>1
    <3>3. b[k] = t[k] /\ b[k] \in Delims
      BY <1>1, <3>2
    <3>4. QED
      BY <3>1, <3>3
  <2>2. k \in Int
    BY <1>1 DEF Starts, Kept
  <2>3. QED
    BY <1>1, <2>1, <2>2
<1>4. {k \in Starts(t) : k <= p} = Starts(t)
  BY <1>3
<1>5. QED
  BY <1>1, <1>4 DEF Rank, First, Fields

(* It finds one more: the next field of the text, and goes on behind it.   *)
LEMMA PlaceMoves ==
  ASSUME NEW t \in Seq(Chars), NEW b \in Blocks, Len(t) \in Offsets,
         NEW p, NEW got, Place(t, b, p, got),
         NEW s \in Offsets, s >= p, \A k \in p + 1 .. s : b[k] \in Delims, b[s + 1] \notin Delims,
         b[s + 1] # 0,
         NEW e \in Offsets, e >= s, \A k \in s + 1 .. e : b[k] \notin Delims \union {0},
         b[e + 1] \in Delims \union {0},
         NEW q, q = IF b[e + 1] # 0 THEN e + 1 ELSE e
  PROVE  /\ e > s /\ q \in Offsets /\ e <= q
         /\ Place(t, Put(b, e, 0), q, Append(got, SubSeq(b, s + 1, e)))
<1> DEFINE n == Len(t)
           m == Rank(t, p)
           c == Put(b, e, 0)
           f == SubSeq(b, s + 1, e)
<1>1. /\ n \in Nat /\ p \in 0 .. n /\ DOMAIN t = 1 .. n /\ n + 1 \in 1 .. Size
      /\ \A k \in 1 .. n : t[k] \in Chars /\ t[k] # 0
      /\ \A k \in p + 1 .. n + 1 : b[k] = IF k <= n THEN t[k] ELSE 0
      /\ got = First(t, m) /\ (p = 0 \/ p = n \/ t[p] \in Delims)
      /\ Size \in Nat \ {0} /\ s \in Nat /\ e \in Nat /\ 0 \notin Delims /\ e + 1 \in 1 .. Size
  BY StringsAssumption DEF Place, Offsets
<1> HIDE DEF n, m, c, f
<1>2. b[n + 1] = 0
  BY <1>1
<1>3. s < n
  <2>1. s # n
    BY <1>2
  <2>2. ASSUME s > n  PROVE FALSE
    <3>1. n + 1 \in p + 1 .. s
      BY <1>1, <2>2
    <3>2. QED
      BY <1>1, <1>2, <3>1
  <2>3. QED
    BY <1>1, <2>1, <2>2
<1>4. e > s
  <2>1. e # s
    OBVIOUS
  <2>2. QED
    BY <1>1, <2>1
<1>5. e <= n
  <2>1. ASSUME e > n  PROVE FALSE
    <3>1. n + 1 \in s + 1 .. e
      BY <1>1, <1>3, <2>1
    <3>2. QED
      BY <1>2, <3>1
  <2>2. QED
    BY <1>1, <2>1
<1>6. /\ q \in 0 .. n /\ e <= q /\ q <= e + 1 /\ q \in Offsets
      /\ q = n \/ t[q] \in Delims
  <2>1. CASE b[e + 1] # 0
    <3>1. e # n /\ q = e + 1
      BY <1>2, <2>1
    <3>2. e + 1 \in p + 1 .. n + 1 /\ e + 1 <= n
      BY <1>1, <1>4, <1>5, <3>1
    <3>3. t[q] \in Delims
      BY <1>1, <2>1, <3>1, <3>2
    <3>4. QED
      BY <1>1, <3>1, <3>2, <3>3 DEF Offsets
  <2>2. CASE b[e + 1] = 0
    <3>1. q = e
      BY <2>2
    <3>2. e = n
      <4>1. ASSUME e < n  PROVE FALSE
        <5>1. e + 1 \in p + 1 .. n + 1 /\ e + 1 <= n /\ e + 1 \in 1 .. n
          BY <1>1, <1>4, <4>1
        <5>2. QED
          BY <1>1, <2>2, <5>1
      <4>2. QED
        BY <1>1, <1>5, <4>1
    <3>3. QED
      BY <1>1, <3>1, <3>2
  <2>3. QED
    BY <2>1, <2>2
<1>7. \A k \in q + 1 .. n + 1 : c[k] = IF k <= n THEN t[k] ELSE 0
  <2>1. ASSUME NEW k \in q + 1 .. n + 1  PROVE c[k] = b[k] \/ (b[k] = 0 /\ c[k] = 0)
    <3>1. k \in 1 .. Size /\ DOMAIN b = 1 .. Size
      BY <1>1, <1>6 DEF Blocks
    <3>2. CASE k = e + 1
      <4>1. q = e
        BY <1>1, <1>6, <3>2
      <4>2. b[e + 1] = 0
        BY <1>1, <4>1
      <4>3. QED
        BY <3>1, <3>2, <4>2 DEF c, Put
    <3>3. CASE k # e + 1
      BY <3>1, <3>3 DEF c, Put
    <3>4. QED
      BY <3>2, <3>3
  <2>2. ASSUME NEW k \in q + 1 .. n + 1  PROVE k \in p + 1 .. n + 1
    BY <1>1, <1>4, <1>6
  <2>3. \A k \in q + 1 .. n + 1 : c[k] = b[k]
    BY <2>1
  <2>4. QED
    BY <1>1, <2>2, <2>3
<1>8. \A k \in p + 1 .. n : b[k] = t[k]
  BY <1>1
<1>9. /\ (s + 1 .. e) \subseteq Kept(t) /\ e + 1 \notin Kept(t)
      /\ \A k \in p + 1 .. s : k \notin Kept(t)
      /\ s \notin Kept(t)
  <2>1. ASSUME NEW k \in s + 1 .. e  PROVE k \in Kept(t)
    <3>1. k \in 1 .. n /\ k \in p + 1 .. n
      BY <1>1, <1>3, <1>5
    <3>2. QED
      BY <1>1, <1>8, <3>1 DEF Kept
  <2>2. e + 1 \notin Kept(t)
    <3>1. CASE e = n
      BY <1>1, <3>1 DEF Kept
    <3>2. CASE e # n
      <4>1. e + 1 \in p + 1 .. n /\ e + 1 \in 1 .. n
        BY <1>1, <1>4, <1>5, <3>2
      <4>2. t[e + 1] \in Delims
        BY <1>1, <1>8, <4>1
      <4>3. QED
        BY <4>2 DEF Kept
    <3>3. QED
      BY <3>1, <3>2
  <2>3. ASSUME NEW k \in p + 1 .. s  PROVE k \notin Kept(t)
    <3>1. k \in p + 1 .. n
      BY <1>1, <1>3
    <3>2. QED
      BY <1>8, <3>1 DEF Kept
  <2>4. s \notin Kept(t)
    <3>1. CASE s = p
      <4>1. p = 0 \/ t[p] \in Delims
        BY <1>1, <1>3, <3>1
      <4>2. QED
        BY <1>1, <3>1, <4>1 DEF Kept
    <3>2. CASE s # p
      <4>1. s \in p + 1 .. s
        BY <1>1, <3>2
      <4>2. QED
        BY <2>3, <4>1
    <3>3. QED
      BY <3>1, <3>2
  <2>5. QED
    BY <2>1, <2>2, <2>3, <2>4
<1>10. s + 1 \in Starts(t)
  <2>1. s + 1 \in s + 1 .. e /\ s + 1 - 1 = s
    BY <1>1, <1>4
  <2>2. s + 1 \in Kept(t) /\ s + 1 - 1 \notin Kept(t)
    BY <1>9, <2>1
  <2>3. \A k \in Int : k \in Kept(t) /\ k - 1 \notin Kept(t) => k \in Starts(t)
    BY Zenon DEF Starts
  <2>4. QED
    BY <1>1, <2>2, <2>3
<1>11. ASSUME NEW k \in Starts(t), k > p, k <= q  PROVE k = s + 1
  <2>1. k \in 1 .. n /\ k \in Kept(t) /\ k - 1 \notin Kept(t)
    BY <1>1 DEF Starts, Kept
  <2>2. k \notin p + 1 .. s /\ k # e + 1 /\ k - 1 \notin s + 1 .. e
    BY <1>9, <2>1
  <2>3. QED
    BY <1>1, <1>6, <1>11, <2>1, <2>2
<1>12. m \in Nat /\ Rank(t, s + 1) = m + 1 /\ Rank(t, q) = m + 1
  <2> DEFINE A == {k \in Starts(t) : k <= p}
  <2>1. p \in Int /\ \A k \in Starts(t) : k \in Int
    BY <1>1 DEF Starts, Kept
  <2>2. {k \in Starts(t) : k <= q} = A \union {s + 1}
    <3>1. ASSUME NEW k \in Starts(t)  PROVE k <= q <=> (k <= p \/ k = s + 1)
      BY <1>1, <1>4, <1>6, <1>11, <2>1
    <3>2. QED
      BY <1>10, <3>1
  <2>3. {k \in Starts(t) : k <= s + 1} = A \union {s + 1}
    <3>1. ASSUME NEW k \in Starts(t)  PROVE k <= s + 1 <=> (k <= p \/ k = s + 1)
      BY <1>1, <1>4, <1>6, <1>11, <2>1
    <3>2. QED
      BY <1>10, <3>1
  <2>4. s + 1 \notin A
    BY <1>1
  <2>5. IsFiniteSet(A) /\ Cardinality(A) = m /\ m \in Nat
    BY <2>1, RankIs DEF Rank, m
  <2> HIDE DEF A
  <2>6. Cardinality(A \union {s + 1}) = m + 1
    BY <2>4, <2>5, FS_AddElement
  <2>7. QED
    BY <2>2, <2>3, <2>5, <2>6 DEF Rank
<1>13. (CHOOSE k \in Starts(t) : Rank(t, k) = m + 1) = s + 1
  <2> DEFINE k0 == CHOOSE k \in Starts(t) : Rank(t, k) = m + 1
  <2>1. k0 \in Starts(t) /\ Rank(t, k0) = m + 1
    BY <1>10, <1>12
  <2> HIDE DEF k0
  <2>2. k0 = s + 1
    BY <1>10, <1>12, <2>1, RankIs
  <2>3. QED
    BY <2>2 DEF k0
<1>14. FieldAt(t, s + 1) = f
  <2> DEFINE Ends(x) == (s + 1 .. x) \subseteq Kept(t) /\ x + 1 \notin Kept(t)
             e0 == CHOOSE x \in s + 1 .. Len(t) : Ends(x)
  <2>1. e \in s + 1 .. Len(t) /\ Ends(e)
    <3>1. e \in s + 1 .. n
      BY <1>1, <1>4, <1>5
    <3>2. QED
      BY <1>9, <3>1 DEF n
  <2>2. e0 \in s + 1 .. Len(t) /\ Ends(e0)
    BY <2>1
  <2>3. FieldAt(t, s + 1) = SubSeq(t, s + 1, e0)
    BY DEF FieldAt
  <2> HIDE DEF e0
  <2>4. e0 = e
    <3>1. ASSUME e0 < e  PROVE FALSE
      <4>1. e0 + 1 \in s + 1 .. e
        BY <1>1, <2>2, <3>1
      <4>2. QED
        BY <2>1, <2>2, <4>1
    <3>2. ASSUME e < e0  PROVE FALSE
      <4>1. e + 1 \in s + 1 .. e0
        BY <1>1, <1>4, <2>2, <3>2
      <4>2. QED
        BY <2>1, <2>2, <4>1
    <3>3. QED
      BY <1>1, <2>2, <3>1, <3>2
  <2>5. \A k \in s + 1 .. e : t[k] = b[k] /\ t[k] \in Chars
    <3>1. ASSUME NEW k \in s + 1 .. e  PROVE k \in p + 1 .. n /\ k \in 1 .. n
      BY <1>1, <1>5
    <3>2. QED
      BY <1>1, <1>8, <3>1
  <2>6. SubSeq(t, s + 1, e) = SubSeq(b, s + 1, e)
    <3>1. s + 1 \in Int /\ e \in Int
      BY <1>1
    <3>2. QED
      BY <2>5, <3>1, PartsEqual
  <2>7. QED
    BY <2>3, <2>4, <2>6 DEF f
<1>15. Append(got, f) = First(t, m + 1)
  <2> DEFINE F == [x \in 1 .. m + 1 |-> FieldAt(t, CHOOSE k \in Starts(t) : Rank(t, k) = x)]
             S == {FieldAt(t, CHOOSE k \in Starts(t) : Rank(t, k) = x) : x \in 1 .. m + 1}
  <2>1. First(t, m + 1) = F /\ got = [x \in 1 .. m |-> F[x]]
    BY <1>1, <1>12 DEF First
  <2>2. F[m + 1] = f
    BY <1>12, <1>13, <1>14
  <2>3. F \in [1 .. m + 1 -> S]
    OBVIOUS
  <2> HIDE DEF F, S
  <2>4. got \in [1 .. m -> S] /\ f \in S
    BY <1>12, <2>1, <2>2, <2>3
  <2>5. /\ got \in Seq(S) /\ Len(got) = m
        /\ F \in Seq(S) /\ Len(F) = m + 1
    BY <1>12, <2>3, <2>4, FunctionIsSeq
  <2>6. /\ Append(got, f) \in Seq(S) /\ Len(Append(got, f)) = m + 1
        /\ \A x \in 1 .. m : Append(got, f)[x] = got[x]
        /\ Append(got, f)[m + 1] = f
    BY <2>4, <2>5, AppendProperties
  <2>7. ASSUME NEW x \in 1 .. Len(F)  PROVE F[x] = Append(got, f)[x]
    <3>1. x \in 1 .. m \/ x = m + 1
      BY <1>12, <2>5
    <3>2. QED
      BY <2>1, <2>2, <2>6, <3>1
  <2>8. F = Append(got, f)
    BY <2>5, <2>6, <2>7, SeqEqual
  <2>9. QED
    BY <2>1, <2>8
<1>16. QED
  BY <1>1, <1>4, <1>6, <1>7, <1>12, <1>15 DEF Place, n, c, f

-----------------------------------------------------------------------------
(* strtok().                                                               *)
TokInv ==
  /\ block \in Blocks /\ text \in Blocks /\ last \in Offsets \union {-1}
  /\ last = -1 => found = << >>
  /\ last # -1 => Place(Text(text), block, last, found)
  /\ done /\ last # -1 => found = Fields(Text(text))

(* No field is left, when it says so.                                      *)
LEMMA NoFieldIs ==
  ASSUME NEW b \in Blocks, NEW t \in Seq(Chars), NEW k \in Offsets, NEW got,
         Place(t, b, k, got), NoField(b, k)
  PROVE  got = Fields(t)
<1> DEFINE s == k + strspn(b, k, Delims)
<1>1. /\ s \in Offsets /\ s >= k /\ \A j \in k + 1 .. s : b[j] \in Delims
      /\ At(b, s) = 0
  BY SpanIs DEF NoField
<1> HIDE DEF s
<1>2. s \in Nat /\ b[s + 1] = 0
  BY <1>1, CellIs, StringsAssumption DEF Offsets
<1>3. QED
  BY <1>1, <1>2, PlaceEnds

(* Otherwise the next one is found, and the place is behind it.            *)
LEMMA StepKeeps ==
  ASSUME NEW b \in Blocks, NEW t \in Seq(Chars), Len(t) \in Offsets, NEW str, NEW got,
         NEW k \in Offsets, Place(t, b, k, got), strtok(b, k, str, got)
  PROVE  /\ block' \in Blocks /\ last' \in Offsets /\ done' = FALSE /\ text' = str
         /\ Place(t, block', last', found')
<1> DEFINE s == k + strspn(b, k, Delims)
           e == s + strcspn(b, s, Delims)
<1>1. /\ At(b, s) # 0
      /\ block' = Put(b, e, 0)
      /\ last' = IF At(b, e) # 0 THEN e + 1 ELSE e
      /\ found' = Append(got, SubSeq(b, s + 1, e))
      /\ done' = FALSE /\ text' = str
  BY DEF strtok
<1>2. /\ s \in Offsets /\ s >= k /\ b[s + 1] \notin Delims
      /\ \A j \in k + 1 .. s : b[j] \in Delims
  BY SpanIs
<1> HIDE DEF s
<1>3. /\ e \in Offsets /\ e >= s /\ b[e + 1] \in Delims \union {0}
      /\ \A j \in s + 1 .. e : b[j] \notin Delims \union {0}
  BY <1>2, CspanIs
<1> HIDE DEF e
<1>4. s \in Nat /\ e \in Nat /\ At(b, s) = b[s + 1] /\ At(b, e) = b[e + 1]
  BY <1>2, <1>3, CellIs DEF Offsets
<1> DEFINE q == IF b[e + 1] # 0 THEN e + 1 ELSE e
<1>5. b[s + 1] # 0 /\ last' = q
  BY <1>1, <1>4
<1>6. /\ q \in Offsets
      /\ Place(t, Put(b, e, 0), q, Append(got, SubSeq(b, s + 1, e)))
  BY <1>2, <1>3, <1>5, PlaceMoves
<1>7. block' \in Blocks
  <2>1. e + 1 \in 1 .. Size /\ b \in [1 .. Size -> Chars \union {0}] /\ b[Size] = 0
    BY <1>3, CellIs DEF Blocks
  <2>2. Put(b, e, 0) = [b EXCEPT ![e + 1] = 0]
    BY DEF Put
  <2>3. /\ Put(b, e, 0) \in [1 .. Size -> Chars \union {0}]
        /\ \A j \in 1 .. Size : Put(b, e, 0)[j] = IF j = e + 1 THEN 0 ELSE b[j]
    BY <2>1, <2>2
  <2>4. Size \in 1 .. Size
    BY CellIs
  <2>5. Put(b, e, 0)[Size] = 0
    BY <2>1, <2>3, <2>4
  <2>6. QED
    BY <1>1, <2>3, <2>5 DEF Blocks
<1> HIDE DEF q
<1>8. QED
  BY <1>1, <1>5, <1>6, <1>7

(* A string that is given is all in front of the first call.               *)
LEMMA PlaceStarts ==
  ASSUME NEW b \in Blocks
  PROVE  /\ Text(b) \in Seq(Chars) /\ Len(Text(b)) \in Offsets /\ 0 \in Offsets
         /\ Place(Text(b), b, 0, << >>)
<1> DEFINE t == Text(b)
<1>1. /\ t \in Seq(Chars) /\ Len(t) \in Offsets /\ b[Len(t) + 1] = 0
      /\ \A k \in 1 .. Len(t) : t[k] = b[k]
      /\ 0 \in Offsets /\ Len(t) \in Nat
  BY TextIs, StringsAssumption DEF Offsets
<1> HIDE DEF t
<1>2. {j \in Starts(t) : j <= 0} = {}
  BY <1>1 DEF Starts, Kept
<1>3. Rank(t, 0) = 0
  BY <1>2, FS_EmptySet DEF Rank
<1>4. First(t, Rank(t, 0)) = << >>
  BY <1>3 DEF First
<1>5. \A k \in 0 + 1 .. Len(t) + 1 : b[k] = IF k <= Len(t) THEN t[k] ELSE 0
  <2>1. ASSUME NEW k \in 0 + 1 .. Len(t) + 1
        PROVE  k \in 1 .. Len(t) \/ (k = Len(t) + 1 /\ ~(k <= Len(t)))
    BY <1>1
  <2>2. \A k \in 1 .. Len(t) : k <= Len(t)
    BY <1>1
  <2>3. QED
    BY <1>1, <2>1, <2>2
<1>6. Place(t, b, 0, << >>)
  BY <1>1, <1>4, <1>5 DEF Place
<1>7. QED
  BY <1>1, <1>6 DEF t

LEMMA InitTokInv == StringInit => TokInv
BY DEF StringInit, TokInv

LEMMA NextTokInv == TokInv /\ [StringNext]_string_vars => TokInv'
<1> SUFFICES ASSUME TokInv, [StringNext]_string_vars  PROVE TokInv'
  OBVIOUS
<1>1. /\ block \in Blocks /\ text \in Blocks /\ last \in Offsets \union {-1}
      /\ last = -1 => found = << >>
      /\ last # -1 => Place(Text(text), block, last, found)
      /\ done /\ last # -1 => found = Fields(Text(text))
  BY DEF TokInv
<1>2. \A k \in Offsets : k # -1
  BY StringsAssumption DEF Offsets
<1>3. CASE UNCHANGED string_vars
  BY <1>1, <1>3 DEF TokInv, string_vars
<1>4. CASE Start
  <2>1. PICK b \in Blocks : strtok(b, 0, b, << >>) \/ UNCHANGED string_vars
    BY <1>4 DEF Start
  <2>2. ASSUME strtok(b, 0, b, << >>)  PROVE TokInv'
    <3>1. /\ block' \in Blocks /\ last' \in Offsets /\ done' = FALSE /\ text' = b
          /\ Place(Text(b), block', last', found')
      BY <2>2, PlaceStarts, StepKeeps
    <3>2. QED
      BY <1>2, <3>1 DEF TokInv
  <2>3. QED
    BY <1>3, <2>1, <2>2
<1>5. CASE last # -1 /\ strtok(block, last, text, found)
  <2>1. Text(text) \in Seq(Chars) /\ Len(Text(text)) \in Offsets
    BY <1>1, TextIs
  <2>2. /\ block' \in Blocks /\ last' \in Offsets /\ done' = FALSE /\ text' = text
        /\ Place(Text(text), block', last', found')
    BY <1>1, <1>5, <2>1, StepKeeps
  <2>3. QED
    BY <1>1, <1>2, <2>2 DEF TokInv
<1>6. CASE (last # -1 => NoField(block, last)) /\ done' = TRUE /\ UNCHANGED <<block, text, last, found>>
  <2>1. ASSUME last # -1  PROVE found = Fields(Text(text))
    <3>1. Text(text) \in Seq(Chars)
      BY <1>1, TextIs
    <3>2. QED
      BY <1>1, <1>6, <2>1, <3>1, NoFieldIs
  <2>2. QED
    BY <1>1, <1>6, <2>1 DEF TokInv
<1>7. QED
  BY <1>3, <1>4, <1>5, <1>6 DEF StringNext, Continue

(* src/common/lib/string.c: in blocks of any length and for any set of     *)
(* characters, the string functions do what StringsAgree says of them      *)
(* (strchr() without the conversion of its character, strlen() without a   *)
(* look at the first), and strtok() finds every field, whatever calls went *)
(* before.                                                                 *)
THEOREM StringsDoAgree == StringSpec => []StringsAgree
<1>1. TokInv => StringsAgree
  <2>1. ASSUME NEW b \in Blocks, NoField(b, 0)  PROVE Fields(Text(b)) = << >>
    BY <2>1, PlaceStarts, NoFieldIs
  <2>2. TokInv => block \in Blocks /\ text \in Blocks /\ Parted
    BY <2>1 DEF TokInv, Parted
  <2>3. QED
    BY <2>2, ComparesAll, CopiesAll DEF StringsAgree
<1>2. QED
  BY <1>1, InitTokInv, NextTokInv, PTL DEF StringSpec

=============================================================================
