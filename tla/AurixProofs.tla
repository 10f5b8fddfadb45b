---------------------------- MODULE AurixProofs ----------------------------
(***************************************************************************)
(* Proofs about AurixMerge and AurixCarve for maps of every length.        *)
(***************************************************************************)
EXTENDS AurixCarve, FiniteSetTheorems, WellFoundedInduction, TLAPS

(* One merge, of any map: its length and entries, and no earlier pair of   *)
(* neighbours becomes mergeable.                                           *)
LEMMA MergedShape ==
  ASSUME NEW m \in Seq(Entry), NEW k \in Nat, Mergeable(m, k)
  PROVE  /\ Merged(m, k) \in Seq(Entry)
         /\ Len(Merged(m, k)) = Len(m) - 1
         /\ [m[k] EXCEPT !.size = m[k].size + m[k + 1].size] \in Entry
         /\ \A j \in 1 .. Len(m) - 1 :
              Merged(m, k)[j] =
                IF j < k THEN m[j]
                ELSE IF j = k THEN [m[k] EXCEPT !.size = m[k].size + m[k + 1].size]
                ELSE m[j + 1]
         /\ \A j \in 1 .. k - 1 : Mergeable(Merged(m, k), j) => Mergeable(m, j)
<1> DEFINE n == Merged(m, k)
           both == [m[k] EXCEPT !.size = m[k].size + m[k + 1].size]
<1>1. /\ k \in 1 .. Len(m) - 1 /\ Len(m) \in Nat
      /\ m[k].base + m[k].size >= m[k + 1].base
      /\ m[k].type = m[k + 1].type
  BY DEF Mergeable
<1>2. \A j \in 1 .. Len(m) : /\ m[j] \in Entry /\ m[j].base \in Nat
                             /\ m[j].size \in Nat /\ m[j].type \in Types
  <2>1. \A j \in 1 .. Len(m) : m[j] \in Entry
    OBVIOUS
  <2>2. \A e \in Entry : e.base \in Nat /\ e.size \in Nat /\ e.type \in Types
    BY DEF Entry
  <2>3. QED
    BY <2>1, <2>2
<1>a. /\ k \in 1 .. Len(m) /\ k + 1 \in 1 .. Len(m)
      /\ m[k].base \in Nat /\ m[k].size \in Nat /\ m[k].type \in Types
      /\ m[k + 1].base \in Nat /\ m[k + 1].size \in Nat /\ m[k + 1].type \in Types
  <2>1. k \in 1 .. Len(m) /\ k + 1 \in 1 .. Len(m)
    BY <1>1
  <2>2. QED
    BY <1>2, <2>1
<1>3. /\ both \in Entry /\ both.base = m[k].base /\ both.type = m[k].type
      /\ both.size = m[k].size + m[k + 1].size
  <2>1. m[k] \in Entry /\ m[k].size + m[k + 1].size \in Nat
    BY <1>2, <1>a
  <2>2. \A e \in Entry, z \in Nat :
          /\ [e EXCEPT !.size = z] \in Entry
          /\ [e EXCEPT !.size = z].base = e.base
          /\ [e EXCEPT !.size = z].size = z
          /\ [e EXCEPT !.size = z].type = e.type
    BY DEF Entry
  <2>3. QED
    BY <2>1, <2>2
<1>4. /\ n \in Seq(Entry) /\ Len(n) = Len(m) - 1
      /\ \A j \in 1 .. Len(m) - 1 :
           n[j] = IF j < k THEN m[j] ELSE IF j = k THEN both ELSE m[j + 1]
  <2>1. \A j \in 1 .. Len(m) - 1 :
          (IF j < k THEN m[j] ELSE IF j = k THEN both ELSE m[j + 1]) \in Entry
    BY <1>1, <1>2, <1>3
  <2>2. n = [j \in 1 .. Len(m) - 1 |->
               IF j < k THEN m[j] ELSE IF j = k THEN both ELSE m[j + 1]]
    BY DEF Merged
  <2> HIDE DEF n, both
  <2>3. QED
    BY <1>1, <2>1, <2>2
<1> HIDE DEF n, both
<1>5. ASSUME NEW j \in 1 .. k - 1, Mergeable(n, j)  PROVE Mergeable(m, j)
  <2>1. j \in 1 .. Len(m) - 1 /\ n[j] = m[j]
    BY <1>1, <1>4
  <2>2. /\ n[j].base + n[j].size >= n[j + 1].base
        /\ n[j].type = n[j + 1].type
    BY <1>5 DEF Mergeable
  <2>3. n[j + 1].base = m[j + 1].base /\ n[j + 1].type = m[j + 1].type
    <3>1. j + 1 \in 1 .. Len(m) - 1 /\ (j + 1 < k \/ j + 1 = k)
      BY <1>1
    <3>2. CASE j + 1 < k
      <4>1. n[j + 1] = m[j + 1]
        BY <1>4, <3>1, <3>2
      <4>2. QED
        BY <4>1
    <3>3. CASE j + 1 = k
      <4>1. n[j + 1] = both
        BY <1>4, <3>1, <3>3
      <4>2. QED
        BY <1>3, <3>3, <4>1
    <3>4. QED
      BY <3>1, <3>2, <3>3
  <2>4. QED
    BY <2>1, <2>2, <2>3 DEF Mergeable
<1>6. QED
  BY <1>3, <1>4, <1>5 DEF n, both

(* One merge of a sorted map keeps what the map says and keeps it sorted.  *)
LEMMA MergedKeeps ==
  ASSUME NEW m \in Seq(Entry), Sorted(m), NEW k \in Nat, Mergeable(m, k)
  PROVE  /\ Sorted(Merged(m, k))
         /\ \A f \in Nat, t \in Types : Covers(Merged(m, k), f, t) <=> Covers(m, f, t)
<1> DEFINE n == Merged(m, k)
           both == [m[k] EXCEPT !.size = m[k].size + m[k + 1].size]
<1>1. /\ k \in 1 .. Len(m) - 1 /\ Len(m) \in Nat
      /\ m[k].base + m[k].size >= m[k + 1].base
      /\ m[k].type = m[k + 1].type
  BY DEF Mergeable
<1>2. \A j \in 1 .. Len(m) : /\ m[j] \in Entry /\ m[j].base \in Nat
                             /\ m[j].size \in Nat /\ m[j].type \in Types
  <2>1. \A j \in 1 .. Len(m) : m[j] \in Entry
    OBVIOUS
  <2>2. \A e \in Entry : e.base \in Nat /\ e.size \in Nat /\ e.type \in Types
    BY DEF Entry
  <2>3. QED
    BY <2>1, <2>2
<1>a. /\ k \in 1 .. Len(m) /\ k + 1 \in 1 .. Len(m)
      /\ m[k].base \in Nat /\ m[k].size \in Nat /\ m[k].type \in Types
      /\ m[k + 1].base \in Nat /\ m[k + 1].size \in Nat /\ m[k + 1].type \in Types
  <2>1. k \in 1 .. Len(m) /\ k + 1 \in 1 .. Len(m)
    BY <1>1
  <2>2. QED
    BY <1>2, <2>1
<1>3. m[k].base + m[k].size = m[k + 1].base
  <2>1. m[k].base + m[k].size <= m[k + 1].base
    BY <1>1 DEF Sorted
  <2>2. QED
    BY <1>1, <1>a, <2>1
<1>4. /\ both.base = m[k].base /\ both.type = m[k].type
      /\ both.size = m[k].size + m[k + 1].size
  <2>1. \A e \in Entry, z \in Nat :
          /\ [e EXCEPT !.size = z].base = e.base
          /\ [e EXCEPT !.size = z].size = z
          /\ [e EXCEPT !.size = z].type = e.type
    BY DEF Entry
  <2>2. m[k] \in Entry /\ m[k].size + m[k + 1].size \in Nat
    BY <1>2, <1>a
  <2>3. QED
    BY <2>1, <2>2
<1>5. /\ n \in Seq(Entry) /\ Len(n) = Len(m) - 1
      /\ \A j \in 1 .. Len(m) - 1 :
           n[j] = IF j < k THEN m[j] ELSE IF j = k THEN both ELSE m[j + 1]
  BY MergedShape
<1> HIDE DEF n, both
<1>6. Sorted(n)
  <2>1. ASSUME NEW j \in 1 .. Len(n) - 1
        PROVE  n[j].base + n[j].size <= n[j + 1].base
    <3>1. j + 1 \in 1 .. Len(m) - 1
      BY <1>1, <1>5
    <3>2. CASE j + 1 < k
      <4>1. n[j] = m[j] /\ n[j + 1] = m[j + 1] /\ j \in 1 .. Len(m) - 1
        BY <1>1, <1>5, <3>1, <3>2
      <4>2. QED
        BY <4>1 DEF Sorted
    <3>3. CASE j + 1 = k
      BY <1>1, <1>4, <1>5, <3>1, <3>3 DEF Sorted
    <3>4. CASE j = k
      <4>1. m[k + 1].base + m[k + 1].size <= m[k + 2].base
        BY <1>1, <3>1, <3>4 DEF Sorted
      <4>2. n[j] = both /\ n[j + 1] = m[k + 2]
        BY <1>1, <1>5, <3>1, <3>4
      <4>3. k + 1 \in 1 .. Len(m) /\ k + 2 \in 1 .. Len(m)
        BY <1>1, <3>1, <3>4
      <4>4. /\ m[k].base \in Nat /\ m[k].size \in Nat /\ m[k + 1].base \in Nat
            /\ m[k + 1].size \in Nat /\ m[k + 2].base \in Nat
        BY <1>1, <1>2, <4>3
      <4>5. QED
        BY <1>3, <1>4, <4>1, <4>2, <4>4
    <3>5. CASE j > k
      <4>1. n[j] = m[j + 1] /\ n[j + 1] = m[(j + 1) + 1]
        <5>1. j \in 1 .. Len(m) - 1 /\ ~(j < k) /\ j # k /\ ~(j + 1 < k) /\ j + 1 # k
          BY <1>1, <3>1, <3>5
        <5>2. QED
          BY <1>5, <3>1, <5>1
      <4>2. j + 1 \in 1 .. Len(m) - 1
        BY <3>1
      <4>3. m[j + 1].base + m[j + 1].size <= m[(j + 1) + 1].base
        BY <4>2 DEF Sorted
      <4>4. QED
        BY <4>1, <4>3
    <3>6. QED
      BY <1>1, <3>2, <3>3, <3>4, <3>5
  <2>2. QED
    BY <2>1 DEF Sorted
<1>7. ASSUME NEW f \in Nat, NEW t \in Types
      PROVE  Covers(n, f, t) <=> Covers(m, f, t)
  <2>1. Says(both, f, t) <=> Says(m[k], f, t) \/ Says(m[k + 1], f, t)
    <3>1. /\ m[k].base \in Nat /\ m[k].size \in Nat
          /\ m[k + 1].base \in Nat /\ m[k + 1].size \in Nat
      BY <1>1, <1>2
    <3>2. QED
      BY <1>1, <1>3, <1>4, <3>1 DEF Says
  <2>2. ASSUME Covers(n, f, t)  PROVE Covers(m, f, t)
    <3>1. PICK j \in 1 .. Len(n) : Says(n[j], f, t)
      BY <2>2 DEF Covers
    <3>2. CASE j < k
      <4>1. j \in 1 .. Len(m) /\ n[j] = m[j]
        BY <1>1, <1>5, <3>2
      <4>2. QED
        BY <3>1, <4>1 DEF Covers
    <3>3. CASE j = k
      <4>1. n[j] = both /\ k \in 1 .. Len(m) /\ k + 1 \in 1 .. Len(m)
        BY <1>1, <1>5, <3>3
      <4>2. QED
        BY <2>1, <3>1, <4>1 DEF Covers
    <3>4. CASE j > k
      <4>1. j + 1 \in 1 .. Len(m) /\ n[j] = m[j + 1]
        BY <1>1, <1>5, <3>4
      <4>2. QED
        BY <3>1, <4>1 DEF Covers
    <3>5. QED
      BY <1>1, <3>2, <3>3, <3>4
  <2>3. ASSUME Covers(m, f, t)  PROVE Covers(n, f, t)
    <3>1. PICK j \in 1 .. Len(m) : Says(m[j], f, t)
      BY <2>3 DEF Covers
    <3>2. CASE j < k
      <4>1. j \in 1 .. Len(n) /\ n[j] = m[j]
        BY <1>1, <1>5, <3>2
      <4>2. QED
        BY <3>1, <4>1 DEF Covers
    <3>3. CASE j = k \/ j = k + 1
      <4>1. k \in 1 .. Len(n) /\ n[k] = both
        BY <1>1, <1>5
      <4>2. QED
        BY <2>1, <3>1, <3>3, <4>1 DEF Covers
    <3>4. CASE j > k + 1
      <4>1. j - 1 \in 1 .. Len(n) /\ n[j - 1] = m[j]
        BY <1>1, <1>5, <3>4
      <4>2. QED
        BY <3>1, <4>1 DEF Covers
    <3>5. QED
      BY <1>1, <3>2, <3>3, <3>4
  <2>4. QED
    BY <2>2, <2>3
<1>8. QED
  BY <1>6, <1>7 DEF n

-----------------------------------------------------------------------------
(* Up to the counter nothing is left to merge.                             *)
IInv ==
  /\ input \in Inputs
  /\ mmap \in Seq(Entry)
  /\ i \in Nat /\ i <= Len(mmap) - 1
  /\ Sorted(input) =>
       /\ Sorted(mmap)
       /\ \A f \in Nat, t \in Types : Covers(mmap, f, t) <=> Covers(input, f, t)
  /\ \A k \in 1 .. i : ~Mergeable(mmap, k)
  /\ pc # "merge" => i = Len(mmap) - 1

LEMMA InitIInv == Init => IInv
<1>1. SUFFICES ASSUME Init  PROVE IInv
  OBVIOUS
<1>2. mmap \in Seq(Entry) /\ mmap # << >>
  BY <1>1, MergeAssumption DEF Init
<1>3. Len(mmap) >= 1
  BY <1>2
<1>4. QED
  BY <1>1, <1>2, <1>3 DEF Init, IInv

LEMMA NextIInv == IInv /\ [Next]_vars => IInv'
<1>1. SUFFICES ASSUME IInv, [Next]_vars  PROVE IInv'
  OBVIOUS
<1>2. CASE Merge
  <2>1. mmap' = Merged(mmap, i + 1) /\ Mergeable(mmap, i + 1) /\ i' = i
        /\ pc' = pc /\ pc = "merge" /\ input' = input /\ i < Len(mmap) - 1
    BY <1>2 DEF Merge
  <2>a. i + 1 \in Nat /\ (i + 1) - 1 = i /\ mmap \in Seq(Entry)
    BY <1>1 DEF IInv
  <2>2. /\ mmap' \in Seq(Entry) /\ Len(mmap') = Len(mmap) - 1
        /\ \A j \in 1 .. i : Mergeable(mmap', j) => Mergeable(mmap, j)
    BY <2>1, <2>a, MergedShape
  <2>b. ASSUME Sorted(input)
        PROVE  /\ Sorted(mmap')
               /\ \A f \in Nat, t \in Types : Covers(mmap', f, t) <=> Covers(input, f, t)
    <3>1. /\ Sorted(mmap)
          /\ \A f \in Nat, t \in Types : Covers(mmap, f, t) <=> Covers(input, f, t)
      BY <1>1, <2>b DEF IInv
    <3>2. /\ Sorted(mmap')
          /\ \A f \in Nat, t \in Types : Covers(mmap', f, t) <=> Covers(mmap, f, t)
      BY <2>1, <2>a, <3>1, MergedKeeps
    <3>3. QED
      BY <3>1, <3>2
  <2>3. i <= Len(mmap') - 1
    BY <1>1, <2>1, <2>2 DEF IInv
  <2>4. QED
    BY <1>1, <2>1, <2>2, <2>b, <2>3 DEF IInv
<1>3. CASE Advance
  <2>1. i' = i + 1 /\ mmap' = mmap /\ input' = input /\ pc' = "merge"
        /\ ~Mergeable(mmap, i + 1) /\ i < Len(mmap) - 1
    BY <1>3 DEF Advance
  <2>2. i' \in Nat /\ i' <= Len(mmap') - 1
    BY <1>1, <2>1 DEF IInv
  <2>3. \A k \in 1 .. i' : ~Mergeable(mmap', k)
    <3>1. \A k \in 1 .. i' : k \in 1 .. i \/ k = i + 1
      BY <1>1, <2>1 DEF IInv
    <3>2. QED
      BY <1>1, <2>1, <3>1 DEF IInv
  <2>4. QED
    BY <1>1, <2>1, <2>2, <2>3 DEF IInv
<1>4. CASE Copy
  BY <1>1, <1>4 DEF Copy, IInv
<1>5. CASE Ended \/ UNCHANGED vars
  BY <1>1, <1>5 DEF Ended, vars, IInv
<1>6. QED
  BY <1>1, <1>2, <1>3, <1>4, <1>5 DEF Next

(* For ascending maps of every length, merging changes no frame's type.    *)
THEOREM MergeIsSafe == Spec => []MergeKeepsMap
<1>1. IInv => MergeKeepsMap
  BY MergeAssumption DEF IInv, MergeKeepsMap
<1>2. Init => IInv
  BY InitIInv
<1>3. QED
  BY <1>1, <1>2, NextIInv, PTL DEF Spec

(* When the loop ends no two neighbours could still be merged, in whatever *)
(* order the map was.                                                      *)
THEOREM MergeLeavesNothing == Spec => []MergeIsComplete
<1>1. IInv => MergeIsComplete
  BY DEF IInv, MergeIsComplete
<1>2. Init => IInv
  BY InitIInv
<1>3. QED
  BY <1>1, <1>2, NextIInv, PTL DEF Spec

-----------------------------------------------------------------------------
(* The map for the kernel, once it is made.                                *)
Translated(m) == [k \in 1 .. Len(m) |-> [base |-> m[k].base, size |-> m[k].size % SizeMod,
                                         type |-> aurix_type(m[k].type)]]

CopyInv == IInv /\ (pc = "done" => params = Translated(mmap))

LEMMA SmallSizesStay ==
  ASSUME NEW n \in Nat, n < SizeMod
  PROVE  n % SizeMod = n
BY MergeAssumption

(* A copy whose sizes are not cut says of a frame what the map says, in    *)
(* other words.                                                            *)
LEMMA TranslatedSays ==
  ASSUME NEW m \in Seq(Entry), \A k \in DOMAIN m : m[k].size < SizeMod, NEW f \in Nat, NEW u
  PROVE  Covers(Translated(m), f, u) <=> \E t \in Types : Covers(m, f, t) /\ aurix_type(t) = u
<1> DEFINE p == Translated(m)
<1>1. Len(m) \in Nat /\ DOMAIN m = 1 .. Len(m)
  OBVIOUS
<1>2. Len(p) = Len(m)
  BY <1>1 DEF Translated
<1>3. ASSUME NEW k \in 1 .. Len(m)
      PROVE  /\ Says(p[k], f, u) <=> \E t \in Types : Says(m[k], f, t) /\ aurix_type(t) = u
  <2>1. m[k] \in Entry
    BY <1>1
  <2>2. m[k].base \in Nat /\ m[k].size \in Nat /\ m[k].type \in Types
    BY <2>1 DEF Entry
  <2>3. m[k].size % SizeMod = m[k].size
    BY <1>1, <2>2, SmallSizesStay
  <2>4. p[k] = [base |-> m[k].base, size |-> m[k].size, type |-> aurix_type(m[k].type)]
    BY <2>3 DEF Translated
  <2>5. p[k].base = m[k].base /\ p[k].size = m[k].size /\ p[k].type = aurix_type(m[k].type)
    BY <2>4
  <2> HIDE DEF p
  <2>6. QED
    BY <2>2, <2>5 DEF Says
<1> HIDE DEF p
<1>4. QED
  BY <1>2, <1>3 DEF Covers, p

LEMMA NextCopyInv == CopyInv /\ [Next]_vars => CopyInv'
<1>1. SUFFICES ASSUME CopyInv, [Next]_vars  PROVE CopyInv'
  OBVIOUS
<1>2. IInv'
  BY <1>1, NextIInv DEF CopyInv
<1>3. ASSUME pc' = "done"  PROVE params' = Translated(mmap)'
  <2>1. CASE Merge \/ Advance
    BY <1>3, <2>1 DEF Merge, Advance
  <2>2. CASE Copy
    BY <1>3, <2>2 DEF Copy, Translated
  <2>3. CASE Ended \/ UNCHANGED vars
    BY <1>1, <1>3, <2>3 DEF Ended, vars, CopyInv, Translated
  <2>4. QED
    BY <1>1, <2>1, <2>2, <2>3 DEF Next
<1>4. QED
  BY <1>2, <1>3 DEF CopyInv

(* The kernel's map says of each frame what an ascending firmware's map    *)
(* said, for maps of every length, as long as the sizes fit: CopyKeepsMap. *)
THEOREM CopyIsFaithful == Spec => []CopyKeepsMap
<1>1. CopyInv => CopyKeepsMap
  <2> SUFFICES ASSUME CopyInv, pc = "done", Sorted(input),
                      \A k \in DOMAIN mmap : mmap[k].size < SizeMod,
                      NEW f \in Frames, NEW u \in {aurix_type(t) : t \in Types}
               PROVE  Covers(params, f, u)
                        <=> \E t \in Types : Covers(input, f, t) /\ aurix_type(t) = u
    BY DEF CopyKeepsMap
  <2>1. params = Translated(mmap) /\ mmap \in Seq(Entry) /\ f \in Nat
    BY MergeAssumption DEF CopyInv, IInv
  <2>2. \A t \in Types : Covers(mmap, f, t) <=> Covers(input, f, t)
    BY <2>1 DEF CopyInv, IInv
  <2>3. QED
    BY <2>1, <2>2, TranslatedSays
<1>2. Init => CopyInv
  BY InitIInv DEF Init, CopyInv
<1>3. QED
  BY <1>1, <1>2, NextCopyInv, PTL DEF Spec

-----------------------------------------------------------------------------
LEMMA GetStepIsStep == [GetNext]_<<merge_vars, carve_vars>> => [Next]_vars
BY DEF GetNext, MergeStep, CopyMap, NextEntry, Framebuffer, Over, Mark, Pass, Next, merge_vars

(* aurix_get_memmap() merges and copies as AurixMerge says, and what it    *)
(* does afterwards leaves the merged map alone: what was proved of merging *)
(* holds of the whole.                                                     *)
THEOREM CarveImplementsMerge == GetSpec => Spec
<1>1. GetInit => Init
  BY DEF GetInit
<1>2. QED
  BY <1>1, GetStepIsStep, PTL DEF GetSpec, Spec

THEOREM GetMergeIsSafe == GetSpec => [](MergeKeepsMap /\ MergeIsComplete /\ CopyKeepsMap)
BY CarveImplementsMerge, MergeIsSafe, MergeLeavesNothing, CopyIsFaithful, PTL

-----------------------------------------------------------------------------
(* The array of the map, of which the entries 0 .. n - 1 are in use.       *)
Typed(A, n) == \A x \in 0 .. n - 1 : A[x].base \in Nat /\ A[x].size \in Nat
Ascends(A, n) == \A x, y \in 0 .. n - 1 : x < y => Last(A[x]) <= A[y].base
Tells(A, n, f, u) == \E x \in 0 .. n - 1 : In(f, A[x]) /\ A[x].type = u

Rec(g, type) == [base |-> g.base, size |-> g.size, type |-> type]

(* B is A with entry a cut off where g begins, followed by g and the rest. *)
IsCut(A, B, n, a, g, type) ==
  /\ \A x \in 0 .. a - 1 : B[x] = A[x]
  /\ B[a] = [base |-> A[a].base, size |-> g.base - A[a].base, type |-> "USABLE"]
  /\ B[a + 1] = Rec(g, type)
  /\ B[a + 2] = [base |-> Last(g), size |-> Last(A[a]) - Last(g), type |-> "USABLE"]
  /\ \A x \in a + 1 .. n - 1 : B[x + 2] = A[x]

(* B is A with g behind entry a.                                           *)
IsPut(A, B, n, a, g, type) ==
  \A x \in 0 .. n :
    B[x] = CASE x <= a -> A[x] [] x = a + 1 -> Rec(g, type) [] x > a + 1 -> A[x - 1]

(* A map as the source keeps it: t.arr runs to D, t.cnt entries are in use *)
Keeps(t, D) == DOMAIN t = {"arr", "cnt", "at"} /\ t.arr = [x \in 0 .. D |-> t.arr[x]]

(* Records and their fields.                                               *)
LEMMA Fields ==
  ASSUME NEW t, DOMAIN t = {"arr", "cnt", "at"}, NEW v
  PROVE  /\ DOMAIN [t EXCEPT !.at = v] = {"arr", "cnt", "at"}
         /\ [t EXCEPT !.at = v].at = v /\ [t EXCEPT !.at = v].cnt = t.cnt
         /\ [t EXCEPT !.at = v].arr = t.arr
OBVIOUS

LEMMA InsertBlank ==
  ASSUME NEW t, NEW D \in Nat, Keeps(t, D)
  PROVE  /\ Keeps(mmap_insert_blank(t), D)
         /\ mmap_insert_blank(t).cnt = t.cnt + 1 /\ mmap_insert_blank(t).at = t.at
         /\ \A x \in 0 .. D : mmap_insert_blank(t).arr[x] =
              IF t.at < x /\ x <= t.cnt + 1 THEN t.arr[x - 1] ELSE t.arr[x]
<1> DEFINE A2 == [j \in DOMAIN t.arr |->
                    IF t.at < j /\ j <= t.cnt + 1 THEN t.arr[j - 1] ELSE t.arr[j]]
           t2 == [t EXCEPT !.cnt = t.cnt + 1, !.arr = A2]
<1>1. DOMAIN t.arr = 0 .. D /\ DOMAIN t = {"arr", "cnt", "at"}
  BY DEF Keeps
<1>2. /\ A2 = [x \in 0 .. D |-> A2[x]]
      /\ \A x \in 0 .. D : A2[x] = IF t.at < x /\ x <= t.cnt + 1 THEN t.arr[x - 1] ELSE t.arr[x]
  BY <1>1
<1> HIDE DEF A2
<1>3. DOMAIN t2 = {"arr", "cnt", "at"} /\ t2.arr = A2 /\ t2.cnt = t.cnt + 1 /\ t2.at = t.at
  BY <1>1
<1>4. mmap_insert_blank(t) = t2
  BY DEF mmap_insert_blank, A2
<1> HIDE DEF t2
<1>5. QED
  BY <1>2, <1>3, <1>4 DEF Keeps

LEMMA PutIs ==
  ASSUME NEW t, NEW D \in Nat, Keeps(t, D), t.at \in 0 .. D,
         NEW base, NEW size \in Nat, size < SizeMod, NEW type
  PROVE  /\ Keeps(Put(t, base, size, type), D)
         /\ Put(t, base, size, type).cnt = t.cnt /\ Put(t, base, size, type).at = t.at
         /\ \A x \in 0 .. D : Put(t, base, size, type).arr[x] =
              IF x = t.at THEN [base |-> base, size |-> size, type |-> type] ELSE t.arr[x]
<1> DEFINE e == [base |-> base, size |-> size, type |-> type]
           A2 == [t.arr EXCEPT ![t.at] = e]
           t2 == [t EXCEPT !.arr = A2]
<1>1. DOMAIN t.arr = 0 .. D /\ DOMAIN t = {"arr", "cnt", "at"}
  BY DEF Keeps
<1>2. Put(t, base, size, type) = t2
  BY SmallSizesStay DEF Put
<1> HIDE DEF e
<1>3. /\ A2 = [x \in 0 .. D |-> A2[x]]
      /\ \A x \in 0 .. D : A2[x] = IF x = t.at THEN e ELSE t.arr[x]
  BY <1>1
<1> HIDE DEF A2
<1>4. DOMAIN t2 = {"arr", "cnt", "at"} /\ t2.arr = A2 /\ t2.cnt = t.cnt /\ t2.at = t.at
  BY <1>1
<1> HIDE DEF t2
<1>5. QED
  BY <1>2, <1>3, <1>4 DEF Keeps, e

LEMMA InsertShape ==
  ASSUME NEW t, NEW D \in Nat, Keeps(t, D), t.cnt \in Nat, t.cnt + 1 <= D,
         t.at \in 0 .. t.cnt - 1,
         NEW g \in [base : Nat, size : Nat], g.size < SizeMod, NEW type
  PROVE  /\ Keeps(Insert(t, g, type), D)
         /\ Insert(t, g, type).cnt = t.cnt + 1 /\ Insert(t, g, type).at = t.at + 1
         /\ IsPut(t.arr, Insert(t, g, type).arr, t.cnt, t.at, g, type)
<1> DEFINE t1 == [t EXCEPT !.at = t.at + 1]
           t2 == mmap_insert_blank(t1)
           t3 == Put(t2, g.base, g.size, type)
<1>1. Keeps(t1, D) /\ t1.at = t.at + 1 /\ t1.cnt = t.cnt /\ t1.arr = t.arr
  BY Fields DEF Keeps
<1>2. Insert(t, g, type) = t3
  BY DEF Insert
<1> HIDE DEF t1
<1>3. /\ Keeps(t2, D) /\ t2.cnt = t.cnt + 1 /\ t2.at = t.at + 1
      /\ \A x \in 0 .. D : t2.arr[x] =
           IF t.at + 1 < x /\ x <= t.cnt + 1 THEN t.arr[x - 1] ELSE t.arr[x]
  BY <1>1, InsertBlank
<1> HIDE DEF t2
<1>4. /\ Keeps(t3, D) /\ t3.cnt = t2.cnt /\ t3.at = t2.at
      /\ \A x \in 0 .. D : t3.arr[x] = IF x = t2.at THEN Rec(g, type) ELSE t2.arr[x]
  BY <1>3, PutIs DEF Rec
<1> HIDE DEF t3
<1>5. IsPut(t.arr, t3.arr, t.cnt, t.at, g, type)
  BY <1>3, <1>4 DEF IsPut
<1>6. QED
  BY <1>2, <1>3, <1>4, <1>5

LEMMA SplitShape ==
  ASSUME NEW t, NEW D \in Nat, Keeps(t, D), t.cnt \in Nat, t.cnt + 2 <= D,
         t.at \in 0 .. t.cnt - 1, NEW b \in Nat, NEW z \in Nat, z < SizeMod,
         t.arr[t.at] = [base |-> b, size |-> z, type |-> "USABLE"],
         NEW g \in [base : Nat, size : Nat], b <= g.base, Last(g) < b + z, NEW type
  PROVE  /\ Keeps(Split(t, g, type), D)
         /\ Split(t, g, type).cnt = t.cnt + 2 /\ Split(t, g, type).at = t.at + 2
         /\ IsCut(t.arr, Split(t, g, type).arr, t.cnt, t.at, g, type)
<1> DEFINE a == t.at
           n == t.cnt
           host == t.arr[a]
           t1 == Insert(t, g, type)
           short == [base |-> b, size |-> g.base - b, type |-> "USABLE"]
           rest == [base |-> Last(g), size |-> b + z - Last(g), type |-> "USABLE"]
           A2 == [t1.arr EXCEPT ![a].size = (g.base - b) % SizeMod]
           t2 == [t1 EXCEPT !.at = a + 2, !.arr[a].size = (g.base - b) % SizeMod]
           t3 == mmap_insert_blank(t2)
           size3 == z - (g.base - b) - g.size
           t4 == Put(t3, g.base + g.size, size3, "USABLE")
<1>1. /\ g.base \in Nat /\ g.size \in Nat /\ g.base + g.size < b + z /\ b <= g.base
      /\ n \in Nat /\ a \in 0 .. n - 1 /\ n + 2 <= D
  BY DEF Last
<1>2. /\ host.base = b /\ host.size = z /\ host.type = "USABLE"
      /\ host = [base |-> b, size |-> z, type |-> "USABLE"]
  OBVIOUS
<1>3. g.size < SizeMod /\ (g.base - b) % SizeMod = g.base - b /\ size3 \in Nat /\ size3 < SizeMod
  <2>1. g.base - b \in Nat /\ g.base - b < SizeMod
    BY <1>1, MergeAssumption
  <2>2. (g.base - b) % SizeMod = g.base - b
    BY <2>1, SmallSizesStay
  <2>3. g.size < SizeMod /\ size3 \in Nat /\ size3 < SizeMod
    BY <1>1, MergeAssumption
  <2>4. QED
    BY <2>2, <2>3
<1>4. /\ Keeps(t1, D) /\ t1.cnt = n + 1 /\ t1.at = a + 1
      /\ IsPut(t.arr, t1.arr, n, a, g, type)
  BY <1>1, <1>3, InsertShape
<1>5. t1.arr[a] = host
  <2>1. a \in 0 .. n /\ a <= a
    BY <1>1
  <2>2. QED
    BY <1>4, <2>1 DEF IsPut
<1> HIDE DEF t1, size3, a, n
<1>6. /\ A2 = [x \in 0 .. D |-> A2[x]]
      /\ \A x \in 0 .. D : A2[x] = IF x = a THEN short ELSE t1.arr[x]
  <2>1. DOMAIN t1.arr = 0 .. D
    BY <1>4 DEF Keeps
  <2>2. A2 = [t1.arr EXCEPT ![a] = [t1.arr[a] EXCEPT !.size = g.base - b]]
    BY <1>3
  <2>3. [t1.arr[a] EXCEPT !.size = g.base - b] = short
    BY <1>2, <1>5
  <2>4. A2 = [t1.arr EXCEPT ![a] = short]
    BY <2>2, <2>3
  <2> HIDE DEF A2, short
  <2>5. QED
    BY <2>1, <2>4
<1>7. DOMAIN t2 = {"arr", "cnt", "at"} /\ t2.arr = A2 /\ t2.cnt = n + 1 /\ t2.at = a + 2
  <2>1. DOMAIN t1 = {"arr", "cnt", "at"}
    BY <1>4 DEF Keeps
  <2>2. t2 = [t1 EXCEPT !.at = a + 2, !.arr = A2]
    OBVIOUS
  <2> HIDE DEF A2
  <2>3. QED
    BY <1>4, <2>1, <2>2
<1> HIDE DEF A2
<1>8. Keeps(t2, D)
  BY <1>6, <1>7 DEF Keeps
<1>9. Split(t, g, type) = t4
  <2>1. host.base + host.size > g.base + g.size
    BY <1>1, <1>2
  <2>2. Split(t, g, type) = Put(mmap_insert_blank(t2), g.base + g.size,
                                host.size - (g.base - host.base) - g.size, "USABLE")
    BY <1>2, <2>1 DEF Split, a, t1
  <2>3. QED
    BY <1>2, <2>2 DEF size3
<1> HIDE DEF t2
<1>10. /\ Keeps(t3, D) /\ t3.cnt = n + 2 /\ t3.at = a + 2
       /\ \A x \in 0 .. D : t3.arr[x] =
            IF a + 2 < x /\ x <= n + 2 THEN A2[x - 1] ELSE A2[x]
  BY <1>1, <1>7, <1>8, InsertBlank
<1> HIDE DEF t3
<1>11. /\ Keeps(t4, D) /\ t4.cnt = n + 2 /\ t4.at = a + 2
       /\ \A x \in 0 .. D : t4.arr[x] =
            IF x = a + 2 THEN [base |-> g.base + g.size, size |-> size3, type |-> "USABLE"]
            ELSE t3.arr[x]
  <2>1. t3.at \in 0 .. D
    BY <1>1, <1>10
  <2>2. QED
    BY <1>3, <1>10, <2>1, PutIs
<1>12. [base |-> g.base + g.size, size |-> size3, type |-> "USABLE"] = rest
  <2>1. size3 = b + z - Last(g)
    BY <1>1 DEF size3, Last
  <2>2. QED
    BY <2>1 DEF Last
<1> HIDE DEF t4, rest, short
<1>a. ASSUME NEW x \in 0 .. n + 1
      PROVE  /\ x = a + 2 => t4.arr[x] = rest
             /\ x > a + 2 => t4.arr[x] = A2[x - 1]
             /\ x < a + 2 => t4.arr[x] = A2[x]
  <2>1. x \in 0 .. D /\ x <= n + 2 /\ n \in Int /\ a \in Int
    BY <1>1
  <2>2. x = a + 2 => t4.arr[x] = rest
    BY <1>11, <1>12, <2>1
  <2>3. x # a + 2 => t4.arr[x] = t3.arr[x]
    BY <1>11, <2>1
  <2>4. t3.arr[x] = IF a + 2 < x /\ x <= n + 2 THEN A2[x - 1] ELSE A2[x]
    BY <1>10, <2>1
  <2>5. x > a + 2 => t3.arr[x] = A2[x - 1]
    BY <2>1, <2>4
  <2>6. x < a + 2 => t3.arr[x] = A2[x]
    BY <2>1, <2>4
  <2>7. QED
    BY <2>1, <2>2, <2>3, <2>5, <2>6
<1>b. ASSUME NEW y \in 0 .. n
      PROVE  /\ y = a => A2[y] = short
             /\ y < a => A2[y] = t.arr[y]
             /\ y = a + 1 => A2[y] = Rec(g, type)
             /\ y > a + 1 => A2[y] = t.arr[y - 1]
  <2>1. y \in 0 .. D /\ n \in Int /\ a \in Int
    BY <1>1
  <2>2. A2[y] = IF y = a THEN short ELSE t1.arr[y]
    BY <1>6, <2>1
  <2>3. t1.arr[y] = CASE y <= a -> t.arr[y] [] y = a + 1 -> Rec(g, type) [] y > a + 1 -> t.arr[y - 1]
    BY <1>4 DEF IsPut
  <2>4. QED
    BY <2>1, <2>2, <2>3
<1>13. ASSUME NEW x \in 0 .. n + 1
       PROVE  t4.arr[x] = CASE x < a     -> t.arr[x]
                            [] x = a     -> short
                            [] x = a + 1 -> Rec(g, type)
                            [] x = a + 2 -> rest
                            [] x > a + 2 -> t.arr[x - 2]
  <2>1. n \in Int /\ a \in Int /\ a + 1 <= n
    BY <1>1
  <2>2. CASE x < a + 2
    <3>1. x \in 0 .. n /\ t4.arr[x] = A2[x]
      BY <1>a, <2>1, <2>2
    <3>2. QED
      BY <1>b, <2>1, <2>2, <3>1
  <2>3. CASE x = a + 2
    BY <1>a, <2>1, <2>3
  <2>4. CASE x > a + 2
    <3>1. x - 1 \in 0 .. n /\ x - 1 > a + 1 /\ (x - 1) - 1 = x - 2
      BY <1>1, <2>1, <2>4
    <3>2. t4.arr[x] = A2[x - 1] /\ A2[x - 1] = t.arr[x - 2]
      BY <1>a, <1>b, <2>4, <3>1
    <3>3. QED
      BY <2>1, <2>4, <3>1, <3>2
  <2>5. QED
    BY <2>1, <2>2, <2>3, <2>4
<1>14. IsCut(t.arr, t4.arr, n, a, g, type)
  <2>1. short = [base |-> host.base, size |-> g.base - host.base, type |-> "USABLE"]
    BY <1>2 DEF short
  <2>2. rest = [base |-> Last(g), size |-> Last(host) - Last(g), type |-> "USABLE"]
    BY <1>2 DEF rest, Last
  <2>3. a \in 0 .. n + 1 /\ a + 1 \in 0 .. n + 1 /\ a + 2 \in 0 .. n + 1
    BY <1>1
  <2>4. t4.arr[a] = short /\ t4.arr[a + 1] = Rec(g, type) /\ t4.arr[a + 2] = rest
    BY <1>1, <1>13, <2>3
  <2>5. ASSUME NEW x \in 0 .. a - 1  PROVE t4.arr[x] = t.arr[x]
    BY <1>1, <1>13
  <2>6. ASSUME NEW x \in a + 1 .. n - 1  PROVE t4.arr[x + 2] = t.arr[x]
    <3>1. x + 2 \in 0 .. n + 1 /\ x + 2 > a + 2 /\ (x + 2) - 2 = x
      BY <1>1
    <3>2. t4.arr[x + 2] = t.arr[(x + 2) - 2]
      BY <1>1, <1>13, <3>1
    <3>3. QED
      BY <3>1, <3>2
  <2>7. QED
    BY <2>1, <2>2, <2>4, <2>5, <2>6 DEF IsCut
<1>15. QED
  BY <1>9, <1>11, <1>14 DEF a, n

(* Cutting usable memory keeps the order, and what the map tells of every  *)
(* frame that is not cut out.                                              *)
Hosts(A, n, a, g) ==
  /\ a \in 0 .. n - 1 /\ A[a].base \in Nat /\ A[a].size \in Nat /\ A[a].type = "USABLE"
  /\ g \in [base : Nat, size : Nat] /\ A[a].base <= g.base /\ Last(g) <= Last(A[a])

Cuttable(A, n, a, g) == Typed(A, n) /\ Hosts(A, n, a, g)

(* Every entry after the cut lies in one from before.                      *)
LEMMA CutWithin ==
  ASSUME NEW A, NEW B, NEW n, n \in Nat, NEW a, NEW g, NEW type,
         Cuttable(A, n, a, g), IsCut(A, B, n, a, g, type), NEW x, x \in 0 .. n + 1
  PROVE  LET y == IF x <= a THEN x ELSE IF x <= a + 2 THEN a ELSE x - 2
         IN  /\ y \in 0 .. n - 1 /\ A[y].base <= B[x].base /\ Last(B[x]) <= Last(A[y])
             /\ B[x].base \in Nat /\ B[x].size \in Nat
<1>1. /\ a \in 0 .. n - 1 /\ A[a].base \in Nat /\ A[a].size \in Nat
      /\ g.base \in Nat /\ g.size \in Nat /\ A[a].base <= g.base /\ Last(g) <= Last(A[a])
  BY DEF Cuttable, Hosts
<1>c. /\ \A y \in 0 .. a - 1 : B[y] = A[y]
      /\ B[a] = [base |-> A[a].base, size |-> g.base - A[a].base, type |-> "USABLE"]
      /\ B[a + 1] = Rec(g, type)
      /\ B[a + 2] = [base |-> Last(g), size |-> Last(A[a]) - Last(g), type |-> "USABLE"]
      /\ \A y \in a + 1 .. n - 1 : B[y + 2] = A[y]
  BY DEF IsCut
<1>2. CASE x < a
  BY <1>1, <1>2, <1>c DEF Cuttable, Typed, Last
<1>3. CASE x = a
  <2>1. B[x] = [base |-> A[a].base, size |-> g.base - A[a].base, type |-> "USABLE"]
    BY <1>1, <1>3, <1>c
  <2>2. B[x].base = A[a].base /\ B[x].size = g.base - A[a].base
    BY <2>1
  <2>3. QED
    BY <1>1, <1>3, <2>2 DEF Last
<1>4. CASE x = a + 1
  <2>1. B[x] = Rec(g, type)
    BY <1>1, <1>4, <1>c
  <2>2. B[x].base = g.base /\ B[x].size = g.size
    BY <2>1 DEF Rec
  <2>3. QED
    BY <1>1, <1>4, <2>2 DEF Last
<1>5. CASE x = a + 2
  <2>1. B[x] = [base |-> Last(g), size |-> Last(A[a]) - Last(g), type |-> "USABLE"]
    BY <1>1, <1>5, <1>c
  <2>2. B[x].base = Last(g) /\ B[x].size = Last(A[a]) - Last(g)
    BY <2>1
  <2>3. QED
    BY <1>1, <1>5, <2>2 DEF Last
<1>6. CASE x > a + 2
  <2>1. x - 2 \in a + 1 .. n - 1 /\ (x - 2) + 2 = x
    BY <1>1, <1>6
  <2>2. B[x] = A[x - 2]
    BY <1>1, <2>1, <1>c
  <2>3. A[x - 2].base \in Nat /\ A[x - 2].size \in Nat /\ x - 2 \in 0 .. n - 1
    BY <1>1, <2>1 DEF Cuttable, Typed
  <2>4. QED
    BY <1>1, <1>6, <2>2, <2>3 DEF Last
<1>7. QED
  BY <1>1, <1>2, <1>3, <1>4, <1>5, <1>6

LEMMA CutAscends ==
  ASSUME NEW A, NEW B, NEW n, n \in Nat, NEW a, NEW g, NEW type,
         Cuttable(A, n, a, g), IsCut(A, B, n, a, g, type), Ascends(A, n)
  PROVE  Typed(B, n + 2) /\ Ascends(B, n + 2)
<1>1. /\ a \in 0 .. n - 1 /\ A[a].base \in Nat /\ A[a].size \in Nat
      /\ g.base \in Nat /\ g.size \in Nat
  BY DEF Cuttable, Hosts
<1>c. /\ \A y \in 0 .. a - 1 : B[y] = A[y]
      /\ B[a] = [base |-> A[a].base, size |-> g.base - A[a].base, type |-> "USABLE"]
      /\ B[a + 1] = Rec(g, type)
      /\ B[a + 2] = [base |-> Last(g), size |-> Last(A[a]) - Last(g), type |-> "USABLE"]
      /\ \A y \in a + 1 .. n - 1 : B[y + 2] = A[y]
  BY DEF IsCut
<1> DEFINE Old(x) == IF x <= a THEN x ELSE IF x <= a + 2 THEN a ELSE x - 2
<1>2. ASSUME NEW x, x \in 0 .. n + 1
      PROVE  /\ Old(x) \in 0 .. n - 1 /\ A[Old(x)].base <= B[x].base /\ Last(B[x]) <= Last(A[Old(x)])
             /\ B[x].base \in Nat /\ B[x].size \in Nat
  BY <1>2, CutWithin
<1>3. Typed(B, n + 2)
  BY <1>2 DEF Typed
<1>4. ASSUME NEW x \in 0 .. n + 1, NEW y \in 0 .. n + 1, x < y
      PROVE  Last(B[x]) <= B[y].base
  <2>1. CASE Old(x) < Old(y)
    <3> DEFINE p == Old(x)
               q == Old(y)
    <3>1. /\ p \in 0 .. n - 1 /\ q \in 0 .. n - 1 /\ p < q
          /\ Last(B[x]) <= Last(A[p]) /\ A[q].base <= B[y].base
          /\ B[x].base \in Nat /\ B[x].size \in Nat /\ B[y].base \in Nat
      BY <1>2, <2>1
    <3> HIDE DEF p, q
    <3>2. Last(A[p]) <= A[q].base
      BY <3>1 DEF Ascends
    <3>3. /\ A[p].base \in Nat /\ A[p].size \in Nat /\ A[q].base \in Nat
      BY <3>1 DEF Cuttable, Typed
    <3>4. QED
      BY <3>1, <3>2, <3>3 DEF Last
  <2>2. CASE x = a /\ y \in {a + 1, a + 2}
    <3>1. /\ B[a].base = A[a].base /\ B[a].size = g.base - A[a].base
          /\ B[a + 1].base = g.base /\ B[a + 2].base = Last(g)
      BY <1>1, <1>c DEF Rec
    <3>2. QED
      BY <1>1, <2>2, <3>1 DEF Last
  <2>3. CASE x = a + 1 /\ y = a + 2
    <3>1. B[a + 1].base = g.base /\ B[a + 1].size = g.size /\ B[a + 2].base = Last(g)
      BY <1>1, <1>c DEF Rec
    <3>2. QED
      BY <1>1, <2>3, <3>1 DEF Last
  <2>4. QED
    BY <1>1, <1>4, <2>1, <2>2, <2>3
<1>5. QED
  BY <1>3, <1>4 DEF Ascends

LEMMA CutTells ==
  ASSUME NEW A, NEW B, NEW n, n \in Nat, NEW a, NEW g, NEW type,
         Hosts(A, n, a, g), IsCut(A, B, n, a, g, type),
         NEW f \in Nat, ~ In(f, g), NEW u
  PROVE  Tells(B, n + 2, f, u) <=> Tells(A, n, f, u)
<1>1. /\ a \in 0 .. n - 1 /\ A[a].base \in Nat /\ A[a].size \in Nat /\ A[a].type = "USABLE"
      /\ g.base \in Nat /\ g.size \in Nat /\ A[a].base <= g.base /\ Last(g) <= Last(A[a])
  BY DEF Hosts
<1>c. /\ \A y \in 0 .. a - 1 : B[y] = A[y]
      /\ B[a] = [base |-> A[a].base, size |-> g.base - A[a].base, type |-> "USABLE"]
      /\ B[a + 1] = Rec(g, type)
      /\ B[a + 2] = [base |-> Last(g), size |-> Last(A[a]) - Last(g), type |-> "USABLE"]
      /\ \A y \in a + 1 .. n - 1 : B[y + 2] = A[y]
  BY DEF IsCut
<1>2. /\ B[a].base = A[a].base /\ B[a].size = g.base - A[a].base /\ B[a].type = "USABLE"
      /\ B[a + 1].base = g.base /\ B[a + 1].size = g.size
      /\ B[a + 2].base = Last(g) /\ B[a + 2].size = Last(A[a]) - Last(g)
      /\ B[a + 2].type = "USABLE"
  BY <1>1, <1>c DEF Rec
<1>3. /\ ~ In(f, B[a + 1])
      /\ In(f, A[a]) <=> In(f, B[a]) \/ In(f, B[a + 2])
  BY <1>1, <1>2 DEF In, Last
<1>4. ASSUME Tells(B, n + 2, f, u)  PROVE Tells(A, n, f, u)
  <2>1. PICK x \in 0 .. n + 1 : In(f, B[x]) /\ B[x].type = u
    BY <1>4 DEF Tells
  <2>2. CASE x < a
    <3>1. B[x] = A[x] /\ x \in 0 .. n - 1
      BY <1>1, <2>2, <1>c
    <3>2. QED
      BY <2>1, <3>1 DEF Tells
  <2>3. CASE x \in {a, a + 1, a + 2}
    <3>1. In(f, A[a]) /\ A[a].type = u
      BY <1>1, <1>2, <1>3, <2>1, <2>3
    <3>2. QED
      BY <1>1, <3>1 DEF Tells
  <2>4. CASE x > a + 2
    <3>1. x - 2 \in a + 1 .. n - 1 /\ (x - 2) + 2 = x /\ x - 2 \in 0 .. n - 1
      BY <1>1, <2>4
    <3>2. B[x] = A[x - 2]
      BY <1>1, <3>1, <1>c
    <3>3. QED
      BY <2>1, <3>1, <3>2 DEF Tells
  <2>5. QED
    BY <1>1, <2>2, <2>3, <2>4
<1>5. ASSUME Tells(A, n, f, u)  PROVE Tells(B, n + 2, f, u)
  <2>1. PICK x \in 0 .. n - 1 : In(f, A[x]) /\ A[x].type = u
    BY <1>5 DEF Tells
  <2>2. CASE x < a
    <3>1. B[x] = A[x] /\ x \in 0 .. n + 1
      BY <1>1, <2>2, <1>c
    <3>2. QED
      BY <2>1, <3>1 DEF Tells
  <2>3. CASE x = a
    <3>1. a \in 0 .. n + 1 /\ a + 2 \in 0 .. n + 1
      BY <1>1
    <3>2. \E y \in {a, a + 2} : In(f, B[y]) /\ B[y].type = u
      BY <1>1, <1>2, <1>3, <2>1, <2>3
    <3>3. QED
      BY <3>1, <3>2 DEF Tells
  <2>4. CASE x > a
    <3>1. x \in a + 1 .. n - 1 /\ x + 2 \in 0 .. n + 1
      BY <1>1, <2>4
    <3>2. B[x + 2] = A[x]
      BY <1>1, <3>1, <1>c
    <3>3. QED
      BY <2>1, <3>1, <3>2 DEF Tells
  <2>5. QED
    BY <1>1, <2>2, <2>3, <2>4
<1>6. QED
  BY <1>4, <1>5

(* Putting something between two entries does the same.                    *)
Puttable(A, n, a, g) ==
  /\ a \in 0 .. n - 1 /\ Typed(A, n) /\ Ascends(A, n)
  /\ g \in [base : Nat, size : Nat] /\ Last(A[a]) <= g.base
  /\ a + 1 < n => Last(g) <= A[a + 1].base

LEMMA PutEntries ==
  ASSUME NEW A, NEW B, NEW n, n \in Nat, NEW a, NEW g, NEW type,
         a \in 0 .. n - 1, IsPut(A, B, n, a, g, type)
  PROVE  /\ \A x \in 0 .. a : B[x] = A[x]
         /\ B[a + 1] = Rec(g, type)
         /\ \A x \in a + 1 .. n - 1 : B[x + 1] = A[x]
         /\ \A x \in a + 2 .. n : B[x] = A[x - 1] /\ x - 1 \in a + 1 .. n - 1
<1>1. ASSUME NEW x \in 0 .. a  PROVE B[x] = A[x]
  <2>1. x \in 0 .. n /\ x <= a
    OBVIOUS
  <2>2. QED
    BY <2>1 DEF IsPut
<1>2. B[a + 1] = Rec(g, type)
  <2>1. a + 1 \in 0 .. n /\ ~ (a + 1 <= a)
    OBVIOUS
  <2>2. QED
    BY <2>1 DEF IsPut
<1>3. ASSUME NEW x \in a + 2 .. n  PROVE B[x] = A[x - 1] /\ x - 1 \in a + 1 .. n - 1
  <2>1. x \in 0 .. n /\ ~ (x <= a) /\ x # a + 1 /\ x > a + 1 /\ x - 1 \in a + 1 .. n - 1
    OBVIOUS
  <2>2. QED
    BY <2>1 DEF IsPut
<1>4. ASSUME NEW x \in a + 1 .. n - 1  PROVE B[x + 1] = A[x]
  <2>1. x + 1 \in a + 2 .. n /\ (x + 1) - 1 = x
    OBVIOUS
  <2>2. QED
    BY <1>3, <2>1
<1>5. QED
  BY <1>1, <1>2, <1>3, <1>4

LEMMA PutAscends ==
  ASSUME NEW A, NEW B, NEW n, n \in Nat, NEW a, NEW g, NEW type,
         Puttable(A, n, a, g), IsPut(A, B, n, a, g, type)
  PROVE  Typed(B, n + 1) /\ Ascends(B, n + 1)
<1>1. /\ a \in 0 .. n - 1 /\ g.base \in Nat /\ g.size \in Nat /\ Last(A[a]) <= g.base
      /\ a + 1 < n => Last(g) <= A[a + 1].base
  BY DEF Puttable
<1>2. \A x \in 0 .. n - 1 : A[x].base \in Nat /\ A[x].size \in Nat
  BY DEF Puttable, Typed
<1>3. /\ \A x \in 0 .. a : B[x] = A[x]
      /\ B[a + 1] = Rec(g, type)
      /\ \A x \in a + 2 .. n : B[x] = A[x - 1] /\ x - 1 \in a + 1 .. n - 1
  BY <1>1, PutEntries
<1>4. B[a + 1].base = g.base /\ B[a + 1].size = g.size
  BY <1>3 DEF Rec
<1>5. \A x \in 0 .. n : x \in 0 .. a \/ x = a + 1 \/ x \in a + 2 .. n
  BY <1>1
<1>6. Typed(B, n + 1)
  BY <1>1, <1>2, <1>3, <1>4, <1>5 DEF Typed
<1>7. ASSUME NEW x \in 0 .. a  PROVE Last(A[x]) <= g.base
  <2>1. CASE x = a
    BY <1>1, <2>1
  <2>2. CASE x < a
    <3>1. Last(A[x]) <= A[a].base
      BY <1>1, <2>2 DEF Puttable, Ascends
    <3>2. /\ A[x].base \in Nat /\ A[x].size \in Nat
          /\ A[a].base \in Nat /\ A[a].size \in Nat
      BY <1>1, <1>2
    <3>3. QED
      BY <1>1, <3>1, <3>2 DEF Last
  <2>3. QED
    BY <1>1, <2>1, <2>2
<1>8. ASSUME NEW x \in a + 1 .. n - 1  PROVE Last(g) <= A[x].base
  <2>1. a + 1 < n /\ Last(g) <= A[a + 1].base /\ a + 1 \in 0 .. n - 1 /\ x \in 0 .. n - 1
    BY <1>1
  <2>2. CASE x = a + 1
    BY <2>1, <2>2
  <2>3. CASE x > a + 1
    <3>1. Last(A[a + 1]) <= A[x].base
      BY <2>1, <2>3 DEF Puttable, Ascends
    <3>2. /\ A[x].base \in Nat /\ A[a + 1].base \in Nat /\ A[a + 1].size \in Nat
      BY <1>2, <2>1
    <3>3. QED
      BY <1>1, <2>1, <3>1, <3>2 DEF Last
  <2>4. QED
    BY <1>1, <2>2, <2>3
<1>9. ASSUME NEW x \in 0 .. n, NEW y \in 0 .. n, x < y
      PROVE  Last(B[x]) <= B[y].base
  <2>1. CASE x \in 0 .. a /\ y \in 0 .. a
    <3>1. x \in 0 .. n - 1 /\ y \in 0 .. n - 1
      BY <1>1, <2>1
    <3>2. QED
      BY <1>3, <1>9, <2>1, <3>1 DEF Puttable, Ascends
  <2>2. CASE x \in 0 .. a /\ y = a + 1
    BY <1>3, <1>4, <1>7, <2>2
  <2>3. CASE x \in 0 .. a /\ y \in a + 2 .. n
    <3>1. x \in 0 .. n - 1 /\ y - 1 \in 0 .. n - 1 /\ x < y - 1
      BY <1>1, <2>3
    <3>2. Last(A[x]) <= A[y - 1].base
      BY <3>1 DEF Puttable, Ascends
    <3>3. QED
      BY <1>3, <2>3, <3>2
  <2>4. CASE x = a + 1 /\ y \in a + 2 .. n
    <3>1. B[y] = A[y - 1] /\ Last(g) <= A[y - 1].base
      BY <1>3, <1>8, <2>4
    <3>2. QED
      BY <1>4, <2>4, <3>1 DEF Last
  <2>5. CASE x \in a + 2 .. n /\ y \in a + 2 .. n
    <3>1. x - 1 \in 0 .. n - 1 /\ y - 1 \in 0 .. n - 1 /\ x - 1 < y - 1
      BY <1>1, <1>9, <2>5
    <3>2. Last(A[x - 1]) <= A[y - 1].base
      BY <3>1 DEF Puttable, Ascends
    <3>3. QED
      BY <1>3, <2>5, <3>2
  <2>6. QED
    BY <1>1, <1>5, <1>9, <2>1, <2>2, <2>3, <2>4, <2>5
<1>10. QED
  BY <1>6, <1>9 DEF Ascends

LEMMA PutTells ==
  ASSUME NEW A, NEW B, NEW n, n \in Nat, NEW a, NEW g, NEW type,
         a \in 0 .. n - 1, IsPut(A, B, n, a, g, type),
         NEW f \in Nat, ~ In(f, g), NEW u
  PROVE  Tells(B, n + 1, f, u) <=> Tells(A, n, f, u)
<1>1. a \in 0 .. n - 1
  OBVIOUS
<1>2. /\ \A x \in 0 .. a : B[x] = A[x]
      /\ B[a + 1] = Rec(g, type)
      /\ \A x \in a + 1 .. n - 1 : B[x + 1] = A[x]
      /\ \A x \in a + 2 .. n : B[x] = A[x - 1] /\ x - 1 \in a + 1 .. n - 1
  BY <1>1, PutEntries
<1>3. ~ In(f, B[a + 1])
  BY <1>2 DEF Rec, In
<1>4. ASSUME Tells(B, n + 1, f, u)  PROVE Tells(A, n, f, u)
  <2>1. PICK x \in 0 .. n : In(f, B[x]) /\ B[x].type = u
    BY <1>4 DEF Tells
  <2>2. x \in 0 .. a \/ x \in a + 2 .. n
    BY <1>1, <1>3, <2>1
  <2>3. \E y \in 0 .. n - 1 : B[x] = A[y]
    BY <1>1, <1>2, <2>2
  <2>4. QED
    BY <2>1, <2>3 DEF Tells
<1>5. ASSUME Tells(A, n, f, u)  PROVE Tells(B, n + 1, f, u)
  <2>1. PICK x \in 0 .. n - 1 : In(f, A[x]) /\ A[x].type = u
    BY <1>5 DEF Tells
  <2>2. x \in 0 .. a \/ x \in a + 1 .. n - 1
    BY <1>1
  <2>3. \E y \in 0 .. n : B[y] = A[x]
    <3>1. x \in 0 .. n /\ x + 1 \in 0 .. n
      OBVIOUS
    <3>2. QED
      BY <1>2, <2>2, <3>1
  <2>4. QED
    BY <2>1, <2>3 DEF Tells
<1>6. QED
  BY <1>4, <1>5

-----------------------------------------------------------------------------
RegionNames == {"kernel", "params", "mmap"}

(* Entries inserted so far, and the merged map's entry, from 0, that the   *)
(* loop is at.                                                             *)
Shift == map.cnt - Len(mmap)
Origin == map.at - Shift
InEntry == look \in {"kernel", "params", "mmap", "cmdline", "framebuffer"}

(* The regions that have their entries, where what is left of entry k      *)
(* begins, and how many entries its regions have added, if the loop is     *)
(* inside it.                                                              *)
Found(k) ==
  IF Origin >= k THEN Wanted
  ELSE IF Origin # k - 1 THEN {}
  ELSE CASE look = "params" -> {"kernel"}
         [] look = "mmap" -> {"kernel", "params"}
         [] look \in {"cmdline", "framebuffer"} -> RegionNames
         [] OTHER -> {}

Reach(k) ==
  CASE look = "params" -> Last(layout.kernel)
    [] look = "mmap" -> Last(layout.params)
    [] look \in {"cmdline", "framebuffer"} -> Last(layout.mmap)
    [] OTHER -> mmap[k].base

Cut(k) ==
  CASE look = "params" -> 2 [] look = "mmap" -> 4
    [] look \in {"cmdline", "framebuffer"} -> 6 [] OTHER -> 0

Counted(k) ==
  /\ map.cnt \in Nat /\ map.at \in Nat /\ Shift \in 0 .. 7 /\ Origin \in 0 .. Len(mmap)
  /\ Origin < k - 1 => Shift = 0
  /\ Origin = k - 1 => Shift = Cut(k)
  /\ Origin >= k => Shift = Added
  /\ InEntry => Origin < Len(mmap)
  /\ look = "done" => map.at >= Len(mmap)

Outside(f) == \A name \in Wanted : ~ In(f, layout[name])

(* What the loop has yet to look at is as it was copied.                   *)
Ahead ==
  \A x \in 0 .. map.cnt - 1 :
    x > map.at \/ (x = map.at /\ look = "next") => map.arr[x] = params[x - Shift + 1]

(* The entry the loop is in: as it was copied, or what is left of it.      *)
Current(k) ==
  InEntry =>
    /\ seen.base = params[Origin + 1].base /\ seen.size = params[Origin + 1].size
    /\ Origin # k - 1 => map.arr[map.at] = params[Origin + 1]
    /\ Origin = k - 1 =>
         map.arr[map.at] =
           [base |-> Reach(k), size |-> Last(mmap[k]) - Reach(k), type |-> "USABLE"]

Record(name) == Rec(layout[name], Kind(name))

Carved(k) ==
  /\ Keeps(map, Len(mmap) + Memory) /\ Counted(k)
  /\ Typed(map.arr, map.cnt) /\ Ascends(map.arr, map.cnt)
  /\ \A f \in Nat : Outside(f) =>
       \A u : Tells(map.arr, map.cnt, f, u) <=> Covers(params, f, u)
  /\ Ahead /\ Current(k)
  /\ \A name \in Found(k) : \E x \in 0 .. map.at - 1 : map.arr[x] = Record(name)

(* The invariant of the carving.                                           *)
CarveInv ==
  /\ CopyInv /\ layout \in Layouts
  /\ look \in {"merge", "failed"} => map.cnt = 0
  /\ look = "merge" => pc = "merge" /\ params = << >>
  /\ look = "failed" => pc = "failed"
  /\ look \notin {"merge", "failed"} => pc = "done"
  /\ \A k \in Nat : Home(k) /\ Regular /\ look \notin {"merge", "failed"} => Carved(k)

(* The map is copied, and one entry of it holds the regions.               *)
Ready(k) == CopyInv /\ layout \in Layouts /\ pc = "done" /\ Home(k) /\ Regular

-----------------------------------------------------------------------------
(* Induction on the naturals, for sets.                                    *)
LEMMA SetInduction ==
  ASSUME NEW T, 0 \in T, \A n \in Nat : n \in T => n + 1 \in T
  PROVE  Nat \subseteq T
<1> DEFINE R == Nat \ T
<1>1. SUFFICES ASSUME R # {}  PROVE FALSE
  OBVIOUS
<1>2. PICK m \in R : \A n \in R : <<n, m>> \notin OpToRel(<, Nat)
  <2> HIDE DEF R
  <2>1. R \subseteq Nat
    BY DEF R
  <2>2. QED
    BY <1>1, <2>1, NatLessThanWellFounded, WFMin
<1>3. m # 0 /\ m - 1 \in Nat /\ m - 1 < m
  OBVIOUS
<1>4. <<m - 1, m>> \in OpToRel(<, Nat)
  BY <1>3 DEF OpToRel
<1>5. m - 1 \in T
  BY <1>2, <1>3, <1>4, Zenon
<1>6. QED
  BY <1>3, <1>5

(* In a sorted map every entry lies before all that follow it.             *)
LEMMA SortedPairs ==
  ASSUME NEW m \in Seq(Entry), Sorted(m)
  PROVE  \A x, y \in 1 .. Len(m) : x < y => Last(m[x]) <= m[y].base
<1> DEFINE T == {d \in Nat : \A x \in 1 .. Len(m) :
                   x + 1 + d \in 1 .. Len(m) => Last(m[x]) <= m[x + 1 + d].base}
<1>1. \A x \in 1 .. Len(m) : m[x].base \in Nat /\ m[x].size \in Nat
  <2>1. \A x \in 1 .. Len(m) : m[x] \in Entry
    OBVIOUS
  <2>2. QED
    BY <2>1 DEF Entry
<1>2. \A x \in 1 .. Len(m) : x + 1 \in 1 .. Len(m) => Last(m[x]) <= m[x + 1].base
  BY DEF Sorted, Last
<1>3. 0 \in T
  <2>1. \A x \in 1 .. Len(m) : x + 1 + 0 = x + 1
    OBVIOUS
  <2>2. QED
    BY <1>2, <2>1
<1>4. ASSUME NEW n \in Nat, n \in T  PROVE n + 1 \in T
  <2>1. SUFFICES ASSUME NEW x \in 1 .. Len(m), x + 1 + (n + 1) \in 1 .. Len(m)
                 PROVE  Last(m[x]) <= m[x + 1 + (n + 1)].base
    OBVIOUS
  <2> DEFINE y == x + 1 + n
  <2>2. y \in 1 .. Len(m) /\ y + 1 \in 1 .. Len(m) /\ y + 1 = x + 1 + (n + 1)
    BY <2>1
  <2>3. Last(m[x]) <= m[y].base
    BY <1>4, <2>2
  <2> HIDE DEF y
  <2>4. Last(m[y]) <= m[y + 1].base
    BY <1>2, <2>2
  <2>5. /\ m[x].base \in Nat /\ m[x].size \in Nat /\ m[y].base \in Nat /\ m[y].size \in Nat
        /\ m[y + 1].base \in Nat
    BY <1>1, <2>2
  <2>6. Last(m[x]) <= m[y + 1].base
    BY <2>3, <2>4, <2>5 DEF Last
  <2>7. QED
    BY <2>2, <2>6
<1>5. Nat \subseteq T
  <2> HIDE DEF T
  <2> QED  BY <1>3, <1>4, SetInduction
<1>6. ASSUME NEW x \in 1 .. Len(m), NEW y \in 1 .. Len(m), x < y
      PROVE  Last(m[x]) <= m[y].base
  <2>1. y - x - 1 \in Nat /\ x + 1 + (y - x - 1) = y
    BY <1>6
  <2>2. y - x - 1 \in T
    BY <1>5, <2>1
  <2>3. QED
    BY <2>1, <2>2
<1>7. QED
  BY <1>6

(* What is known of the copied map once it is there.                       *)
Copied(k) ==
  /\ Len(mmap) \in Nat /\ Len(params) = Len(mmap) /\ k \in 1 .. Len(mmap)
  /\ \A j \in 1 .. Len(mmap) :
       /\ params[j].base \in Nat /\ params[j].size \in Nat /\ params[j].size > 0
       /\ mmap[j].base = params[j].base /\ mmap[j].size = params[j].size
  /\ \A x, y \in 1 .. Len(mmap) : x < y => Last(params[x]) <= params[y].base
  /\ params[k] = [base |-> mmap[k].base, size |-> mmap[k].size, type |-> "USABLE"]
  /\ mmap[k].base \in Nat /\ mmap[k].size \in Nat /\ mmap[k].size < SizeMod
  /\ \A name \in {"kernel", "params", "mmap", "cmdline", "fb"} :
       layout[name] \in [base : Nat, size : Nat]

LEMMA ReadyCopied == ASSUME NEW k \in Nat, Ready(k)  PROVE Copied(k)
<1>1. /\ mmap \in Seq(Entry) /\ params = Translated(mmap) /\ Sorted(mmap)
      /\ k \in 1 .. Len(mmap) /\ mmap[k].type = "Usable"
      /\ \A j \in 1 .. Len(mmap) : mmap[j].size > 0
      /\ \A j \in 1 .. Len(mmap) : mmap[j].size < SizeMod
  BY DEF Ready, CopyInv, IInv, Regular, Home
<1>2. Len(mmap) \in Nat /\ Len(params) = Len(mmap)
  BY <1>1 DEF Translated
<1>3. ASSUME NEW j \in 1 .. Len(mmap)
      PROVE  /\ mmap[j].base \in Nat /\ mmap[j].size \in Nat
             /\ params[j] = [base |-> mmap[j].base, size |-> mmap[j].size,
                             type |-> aurix_type(mmap[j].type)]
  <2>1. mmap[j] \in Entry
    BY <1>1
  <2>2. mmap[j].base \in Nat /\ mmap[j].size \in Nat
    BY <2>1 DEF Entry
  <2>3. mmap[j].size % SizeMod = mmap[j].size
    BY <1>1, <2>2, SmallSizesStay
  <2>4. QED
    BY <1>1, <1>2, <2>2, <2>3 DEF Translated
<1>4. \A j \in 1 .. Len(mmap) :
        /\ params[j].base = mmap[j].base /\ params[j].size = mmap[j].size
        /\ params[j].base \in Nat /\ params[j].size \in Nat
  <2>1. ASSUME NEW j \in 1 .. Len(mmap)
        PROVE  /\ params[j].base = mmap[j].base /\ params[j].size = mmap[j].size
               /\ params[j].base \in Nat /\ params[j].size \in Nat
    <3>1. params[j] = [base |-> mmap[j].base, size |-> mmap[j].size,
                       type |-> aurix_type(mmap[j].type)]
      BY <1>3
    <3>2. params[j].base = mmap[j].base /\ params[j].size = mmap[j].size
      BY <3>1
    <3>3. mmap[j].base \in Nat /\ mmap[j].size \in Nat
      BY <1>3
    <3>4. QED
      BY <3>2, <3>3
  <2>2. QED
    BY <2>1
<1>5. \A x, y \in 1 .. Len(mmap) : x < y => Last(params[x]) <= params[y].base
  BY <1>1, <1>4, SortedPairs DEF Last
<1>6. aurix_type("Usable") = "USABLE"
  BY DEF aurix_type
<1>7. \A name \in {"kernel", "params", "mmap", "cmdline", "fb"} :
        layout[name] \in [base : Nat, size : Nat]
  BY CarveAssumption DEF Ready
<1>8. params[k] = [base |-> mmap[k].base, size |-> mmap[k].size, type |-> "USABLE"]
  BY <1>1, <1>3, <1>6
<1>9. QED
  BY <1>1, <1>2, <1>3, <1>4, <1>5, <1>7, <1>8 DEF Copied

(* The places of the regions.                                              *)
LEMMA Lies ==
  ASSUME NEW k \in Nat, Ready(k)
  PROVE  /\ \A name \in RegionNames :
              /\ layout[name].base \in Nat /\ layout[name].size \in Nat
              /\ layout[name].size > 0
              /\ mmap[k].base < layout[name].base /\ Last(layout[name]) < Last(mmap[k])
              /\ layout[name].size < SizeMod
         /\ layout.fb.base \in Nat /\ layout.fb.size \in Nat /\ layout.fb.size < SizeMod
         /\ Last(layout.kernel) <= layout.params.base
         /\ Last(layout.params) <= layout.mmap.base
<1>1. Copied(k)
  BY ReadyCopied
<1>2. /\ layout.kernel.base \in Nat /\ layout.kernel.size \in Nat
      /\ layout.params.base \in Nat /\ layout.params.size \in Nat
      /\ layout.mmap.base \in Nat /\ layout.mmap.size \in Nat
      /\ layout.fb.base \in Nat /\ layout.fb.size \in Nat
  BY <1>1 DEF Copied
<1>3. mmap[k].base \in Nat /\ mmap[k].size \in Nat /\ mmap[k].size < SizeMod
  BY <1>1 DEF Copied
<1>4. /\ mmap[k].base < layout.kernel.base /\ layout.kernel.size > 0
      /\ Last(layout.kernel) <= layout.params.base /\ layout.params.size > 0
      /\ Last(layout.params) <= layout.mmap.base /\ layout.mmap.size > 0
      /\ Last(layout.mmap) < Last(mmap[k])
  BY DEF Ready, Home
<1>5. SizeMod \in Nat
  BY MergeAssumption
<1>6. layout.fb.size < SizeMod
  BY <1>5, <1>3 DEF Ready, Home
<1>7. ASSUME NEW name \in RegionNames
      PROVE  /\ layout[name].base \in Nat /\ layout[name].size \in Nat
             /\ layout[name].size > 0
             /\ mmap[k].base < layout[name].base /\ Last(layout[name]) < Last(mmap[k])
             /\ layout[name].size < SizeMod
  BY <1>2, <1>3, <1>4, <1>5 DEF RegionNames, Last
<1>8. QED
  BY <1>2, <1>4, <1>6, <1>7

(* What a predicate of the layout says before a step it says after it.     *)
LEMMA Steady ==
  ASSUME UNCHANGED <<merge_vars, layout>>
  PROVE  /\ input' = input /\ mmap' = mmap /\ params' = params /\ pc' = pc /\ layout' = layout
         /\ Wanted' = Wanted
         /\ \A f : Outside(f)' <=> Outside(f)
         /\ \A name : Record(name)' = Record(name)
         /\ \A f, u : Covers(params, f, u)' <=> Covers(params, f, u)
<1>1. input' = input /\ mmap' = mmap /\ params' = params /\ pc' = pc /\ layout' = layout
  BY DEF merge_vars, vars
<1>2. Wanted' = Wanted
  BY <1>1 DEF Wanted
<1>3. QED
  BY <1>1, <1>2 DEF Outside, Record, Covers, Rec, Says

(* Only the entry that holds the regions is found to hold one.             *)
LEMMA MatchesAtHome ==
  ASSUME NEW k \in Nat, Ready(k), Carved(k), NEW name \in RegionNames, look = name
  PROVE  Matches(name) <=> Origin = k - 1
<1>1. Copied(k)
  BY ReadyCopied
<1> DEFINE o == Origin + 1
           g == layout[name]
<1>2. o \in 1 .. Len(mmap) /\ Origin = o - 1 /\ o \in Int
  BY <1>1 DEF Carved, Counted, InEntry, RegionNames, Copied
<1>3. seen.base = params[o].base /\ seen.size = params[o].size
  BY DEF Carved, Current, InEntry, RegionNames
<1>4. /\ g.base \in Nat /\ g.size \in Nat /\ g.size > 0
      /\ mmap[k].base < g.base /\ Last(g) < Last(mmap[k])
  BY Lies
<1>5. Matches(name) <=> Contains(g)
  BY DEF Matches, Place, RegionNames
<1> HIDE DEF o, g
<1>6. /\ k \in 1 .. Len(mmap) /\ params[o].base \in Nat /\ params[o].size \in Nat
      /\ params[k].base \in Nat /\ params[k].size \in Nat
      /\ mmap[k].base = params[k].base /\ mmap[k].size = params[k].size
  BY <1>1, <1>2 DEF Copied
<1>7. CASE o = k
  <2>1. Contains(g)
    BY <1>3, <1>4, <1>6, <1>7 DEF Contains, Last
  <2>2. QED
    BY <1>2, <1>5, <1>6, <1>7, <2>1
<1>8. CASE o < k
  <2>1. Last(params[o]) <= params[k].base
    BY <1>1, <1>2, <1>6, <1>8 DEF Copied
  <2>2. ~ Contains(g)
    BY <1>3, <1>4, <1>6, <2>1 DEF Contains, Last
  <2>3. QED
    BY <1>2, <1>5, <1>6, <1>8, <2>2
<1>9. CASE o > k
  <2>1. Last(params[k]) <= params[o].base
    BY <1>1, <1>2, <1>6, <1>9 DEF Copied
  <2>2. ~ Contains(g)
    BY <1>3, <1>4, <1>6, <2>1 DEF Contains, Last
  <2>3. QED
    BY <1>2, <1>5, <1>6, <1>9, <2>2
<1>10. QED
  BY <1>2, <1>6, <1>7, <1>8, <1>9

LEMMA NoBootArguments ==
  ASSUME NEW k \in Nat, Ready(k), Carved(k), look = "cmdline"
  PROVE  ~ Matches("cmdline")
<1>1. Copied(k)
  BY ReadyCopied
<1> DEFINE o == Origin + 1
           g == Place("cmdline")
<1>2. o \in 1 .. Len(mmap)
  BY <1>1 DEF Carved, Counted, InEntry, Copied
<1>3. seen.base = mmap[o].base /\ seen.size = mmap[o].size
  BY <1>1, <1>2 DEF Carved, Current, InEntry, Copied
<1>4. layout.cmdline.base = 0 => g.base = 0
  BY DEF Place
<1>5. layout.cmdline.base # 0 => ~ (mmap[o].base <= g.base /\ g.base <= Last(mmap[o]))
  BY <1>2 DEF Ready, Home
<1> HIDE DEF o, g
<1>6. Matches("cmdline") => Contains(g) /\ g.base # 0
  BY DEF Matches, g
<1>7. Contains(g) => mmap[o].base <= g.base /\ Last(mmap[o]) >= g.base
  BY <1>3 DEF Contains, Last
<1>8. QED
  BY <1>4, <1>5, <1>6, <1>7

-----------------------------------------------------------------------------
(* The steps of the loop, one by one.                                      *)

(* What Carved says of the map alone.                                      *)
LEMMA Unmoved ==
  ASSUME NEW k \in Nat, Carved(k), UNCHANGED <<merge_vars, layout, map>>
  PROVE  /\ Keeps(map, Len(mmap) + Memory)'
         /\ Typed(map.arr, map.cnt)' /\ Ascends(map.arr, map.cnt)'
         /\ \A f \in Nat : Outside(f)' =>
              \A u : Tells(map.arr, map.cnt, f, u)' <=> Covers(params, f, u)'
         /\ Shift' = Shift /\ Origin' = Origin /\ Added' = Added
<1>1. map' = map /\ mmap' = mmap
  BY DEF merge_vars, vars
<1>2. \A f, u : Tells(map.arr, map.cnt, f, u)' <=> Tells(map.arr, map.cnt, f, u)
  BY <1>1 DEF Tells, In
<1>3. /\ Keeps(map, Len(mmap) + Memory)'
      /\ Typed(map.arr, map.cnt)' /\ Ascends(map.arr, map.cnt)'
  BY <1>1 DEF Carved, Keeps, Typed, Ascends, Last
<1>4. \A f \in Nat : Outside(f)' =>
        \A u : Tells(map.arr, map.cnt, f, u)' <=> Covers(params, f, u)'
  BY <1>2, Steady DEF Carved
<1>5. Shift' = Shift /\ Origin' = Origin /\ Added' = Added
  BY <1>1 DEF Shift, Origin, Added
<1>6. QED
  BY <1>3, <1>4, <1>5

LEMMA NextEntryCarves ==
  ASSUME NEW k \in Nat, Ready(k), Carved(k), NextEntry
  PROVE  Carved(k)'
<1>1. /\ UNCHANGED <<merge_vars, layout, map>>
      /\ map' = map /\ mmap' = mmap /\ params' = params /\ layout' = layout
      /\ Wanted' = Wanted /\ \A name : Record(name)' = Record(name)
  BY Steady DEF NextEntry
<1>2. /\ Keeps(map, Len(mmap) + Memory)'
      /\ Typed(map.arr, map.cnt)' /\ Ascends(map.arr, map.cnt)'
      /\ \A f \in Nat : Outside(f)' =>
           \A u : Tells(map.arr, map.cnt, f, u)' <=> Covers(params, f, u)'
      /\ Shift' = Shift /\ Origin' = Origin /\ Added' = Added
  BY <1>1, Unmoved
<1>3. Copied(k) /\ Len(mmap) \in Nat /\ k \in 1 .. Len(mmap)
  BY ReadyCopied DEF Copied
<1>4. /\ map.cnt = Len(mmap) + Shift /\ map.at = Origin + Shift
      /\ Shift \in 0 .. 7 /\ Origin \in 0 .. Len(mmap)
      /\ map.cnt \in Nat /\ map.at \in Nat
      /\ Origin < k - 1 => Shift = 0
  BY <1>3 DEF Carved, Counted, Shift, Origin
<1>5. look = "next" /\ look' \in {"kernel", "done"}
  BY DEF NextEntry
<1>6. Cut(k) = 0 /\ Cut(k)' = 0
  BY <1>5 DEF Cut
<1>7. (look' = "kernel" <=> map.at < Len(mmap)) /\ (look' = "done" <=> ~ (map.at < Len(mmap)))
  BY DEF NextEntry
<1>8. Counted(k)'
  <2>1. InEntry' <=> look' = "kernel"
    BY <1>5 DEF InEntry
  <2>2. Origin = k - 1 => Shift = 0
    BY <1>6 DEF Carved, Counted
  <2>3. InEntry' => Origin < Len(mmap)
    BY <1>3, <1>4, <1>7, <2>1
  <2>4. look' = "done" => map.at >= Len(mmap)
    BY <1>3, <1>4, <1>7
  <2>5. Origin >= k => Shift = Added
    BY DEF Carved, Counted
  <2>6. QED
    BY <1>1, <1>2, <1>4, <1>6, <2>2, <2>3, <2>4, <2>5 DEF Counted
<1>9. Ahead'
  BY <1>1, <1>2, <1>5 DEF Carved, Ahead
<1>10. Current(k)'
  <2>1. SUFFICES ASSUME look' = "kernel"  PROVE Current(k)'
    BY <1>5 DEF Current, InEntry
  <2>2. map.at < Len(mmap) /\ seen'.base = map.arr[map.at].base /\ seen'.size = map.arr[map.at].size
    BY <1>5, <1>7, <2>1 DEF NextEntry
  <2>3. map.at \in 0 .. map.cnt - 1 /\ map.at - Shift = Origin
    BY <1>3, <1>4, <2>2
  <2>4. map.arr[map.at] = params[Origin + 1]
    BY <1>5, <2>3 DEF Carved, Ahead
  <2>5. ASSUME Origin = k - 1
        PROVE  params[Origin + 1] =
                 [base |-> mmap[k].base, size |-> Last(mmap[k]) - mmap[k].base, type |-> "USABLE"]
    <3>1. Origin + 1 = k /\ params[k] = [base |-> mmap[k].base, size |-> mmap[k].size, type |-> "USABLE"]
      BY <1>3, <2>5 DEF Copied
    <3>2. Last(mmap[k]) - mmap[k].base = mmap[k].size
      BY <1>3 DEF Copied, Last
    <3>3. QED
      BY <3>1, <3>2
  <2>6. Reach(k)' = mmap[k].base
    BY <1>1, <2>1 DEF Reach
  <2>7. QED
    BY <1>1, <1>2, <2>2, <2>4, <2>5, <2>6 DEF Current, Last
<1>11. \A name \in Found(k)' : \E x \in 0 .. map'.at - 1 : map'.arr[x] = Record(name)'
  <2>1. Found(k)' = Found(k)
    BY <1>1, <1>2, <1>5 DEF Found
  <2>2. QED
    BY <1>1, <2>1 DEF Carved
<1>12. QED
  BY <1>2, <1>8, <1>9, <1>10, <1>11 DEF Carved

LEMMA PassCarves ==
  ASSUME NEW k \in Nat, Ready(k), Carved(k),
         NEW name \in RegionNames \union {"cmdline"}, Pass(name)
  PROVE  Carved(k)'
<1>1. /\ UNCHANGED <<merge_vars, layout, map>> /\ seen' = seen
      /\ map' = map /\ mmap' = mmap /\ params' = params /\ layout' = layout
      /\ Wanted' = Wanted /\ \A n : Record(n)' = Record(n)
  BY Steady DEF Pass
<1>2. /\ Keeps(map, Len(mmap) + Memory)'
      /\ Typed(map.arr, map.cnt)' /\ Ascends(map.arr, map.cnt)'
      /\ \A f \in Nat : Outside(f)' =>
           \A u : Tells(map.arr, map.cnt, f, u)' <=> Covers(params, f, u)'
      /\ Shift' = Shift /\ Origin' = Origin /\ Added' = Added
  BY <1>1, Unmoved
<1>3. InEntry /\ InEntry' /\ look' # "next" /\ look' # "done"
  BY DEF Pass, After, InEntry, RegionNames
<1>4. Origin # k - 1 \/ (look = "cmdline" /\ look' = "framebuffer")
  BY MatchesAtHome DEF Pass, After
<1>5. Origin = k - 1 => Cut(k)' = Cut(k) /\ Reach(k)' = Reach(k)
  BY <1>1, <1>4 DEF Cut, Reach, Last
<1>6. Counted(k)'
  BY <1>1, <1>2, <1>3, <1>5 DEF Carved, Counted
<1>7. Ahead'
  BY <1>1, <1>2, <1>3 DEF Carved, Ahead
<1>8. Current(k)'
  BY <1>1, <1>2, <1>3, <1>5 DEF Carved, Current, Last
<1>9. Found(k)' = Found(k)
  BY <1>1, <1>2, <1>4 DEF Found
<1>10. \A n \in Found(k)' : \E x \in 0 .. map'.at - 1 : map'.arr[x] = Record(n)'
  BY <1>1, <1>9 DEF Carved
<1>11. QED
  BY <1>2, <1>6, <1>7, <1>8, <1>10 DEF Carved

LEMMA MarkCarves ==
  ASSUME NEW k \in Nat, Ready(k), Carved(k), NEW name \in RegionNames, Mark(name)
  PROVE  Carved(k)'
<1> DEFINE g == layout[name]
           D == Len(mmap) + Memory
           n == map.cnt
           a == map.at
           b == Reach(k)
           z == Last(mmap[k]) - Reach(k)
           m2 == map'
<1>1. /\ mmap' = mmap /\ params' = params /\ layout' = layout /\ seen' = seen
      /\ Wanted' = Wanted /\ \A x : Record(x)' = Record(x)
      /\ \A f : Outside(f)' <=> Outside(f)
      /\ \A f, u : Covers(params, f, u)' <=> Covers(params, f, u)
  <2>1. UNCHANGED <<merge_vars, layout>> /\ seen' = seen
    BY DEF Mark
  <2>2. QED
    BY <2>1, Steady
<1>2. look = name /\ look' = After(name) /\ Matches(name) /\ m2 = Split(map, g, Kind(name))
  BY DEF Mark, Place, RegionNames
<1>3. Origin = k - 1 /\ InEntry
  BY <1>2, MatchesAtHome DEF InEntry, RegionNames
<1>4. /\ Len(mmap) \in Nat /\ k \in 1 .. Len(mmap)
      /\ mmap[k].base \in Nat /\ mmap[k].size \in Nat /\ mmap[k].size < SizeMod
  BY ReadyCopied DEF Copied
<1>5. /\ g.base \in Nat /\ g.size \in Nat /\ g.size > 0 /\ g.size < SizeMod
      /\ mmap[k].base < g.base /\ Last(g) < Last(mmap[k])
  BY Lies
<1>a. g \in [base : Nat, size : Nat]
  BY ReadyCopied DEF Copied, RegionNames
<1>6. Cut(k) \in {0, 2, 4} /\ Cut(k)' = Cut(k) + 2
  BY <1>2 DEF RegionNames, Cut, After
<1>7. Shift = Cut(k) /\ n = Len(mmap) + Cut(k) /\ a = k - 1 + Cut(k) /\ n \in Nat /\ a \in Nat
  <2>1. Shift = Cut(k) /\ n \in Nat /\ a \in Nat
    BY <1>3 DEF Carved, Counted
  <2>2. QED
    BY <1>3, <1>4, <1>6, <2>1 DEF Shift, Origin
<1>8. b \in Nat /\ mmap[k].base <= b /\ b <= g.base /\ Reach(k)' = Last(g)
  <2>1. CASE name = "kernel"
    <3>1. b = mmap[k].base
      BY <1>2, <2>1 DEF Reach
    <3>2. Reach(k)' = Last(g)
      BY <1>1, <1>2, <2>1 DEF Reach, After, Last
    <3>3. QED
      BY <1>4, <1>5, <3>1, <3>2
  <2>2. CASE name = "params"
    <3>1. b = Last(layout.kernel)
      BY <1>2, <2>2 DEF Reach
    <3>2. Reach(k)' = Last(g)
      BY <1>1, <1>2, <2>2 DEF Reach, After, Last
    <3>3. /\ layout.kernel.base \in Nat /\ layout.kernel.size \in Nat
          /\ mmap[k].base < layout.kernel.base /\ Last(layout.kernel) <= layout.params.base
      BY Lies DEF RegionNames
    <3>4. QED
      BY <1>4, <1>5, <2>2, <3>1, <3>2, <3>3 DEF Last
  <2>3. CASE name = "mmap"
    <3>1. b = Last(layout.params)
      BY <1>2, <2>3 DEF Reach
    <3>2. Reach(k)' = Last(g)
      BY <1>1, <1>2, <2>3 DEF Reach, After, Last
    <3>3. /\ layout.params.base \in Nat /\ layout.params.size \in Nat
          /\ mmap[k].base < layout.params.base /\ Last(layout.params) <= layout.mmap.base
      BY Lies DEF RegionNames
    <3>4. QED
      BY <1>4, <1>5, <2>3, <3>1, <3>2, <3>3 DEF Last
  <2>4. QED
    BY <2>1, <2>2, <2>3 DEF RegionNames
<1>9. /\ z \in Nat /\ z < SizeMod /\ b + z = Last(mmap[k]) /\ Last(g) < b + z
  BY <1>4, <1>5, <1>8, MergeAssumption DEF Last
<1>10. map.arr[a] = [base |-> b, size |-> z, type |-> "USABLE"]
  BY <1>3 DEF Carved, Current
<1>11. Keeps(map, D) /\ Typed(map.arr, n) /\ Ascends(map.arr, n)
  BY DEF Carved
<1> HIDE DEF g, n, a, b, z, m2
<1>12. D \in Nat /\ n + 2 <= D /\ a \in 0 .. n - 1
  <2>1. Cut(k) \in Nat /\ Cut(k) <= 4
    BY <1>6
  <2>2. n = Len(mmap) + Cut(k) /\ a = k - 1 + Cut(k) /\ Len(mmap) \in Nat /\ k \in 1 .. Len(mmap)
    BY <1>4, <1>7
  <2>3. Memory \in Nat /\ Memory >= 9
    BY CarveAssumption
  <2>4. QED
    BY <2>1, <2>2, <2>3
<1> HIDE DEF D
<1>13. /\ Keeps(m2, D) /\ m2.cnt = n + 2 /\ m2.at = a + 2
       /\ IsCut(map.arr, m2.arr, n, a, g, Kind(name))
  <2>1. map.arr[map.at] = [base |-> b, size |-> z, type |-> "USABLE"] /\ map.cnt \in Nat
        /\ map.cnt + 2 <= D /\ map.at \in 0 .. map.cnt - 1
    BY <1>7, <1>10, <1>12 DEF n, a
  <2>2. /\ Keeps(Split(map, g, Kind(name)), D)
        /\ Split(map, g, Kind(name)).cnt = map.cnt + 2
        /\ Split(map, g, Kind(name)).at = map.at + 2
        /\ IsCut(map.arr, Split(map, g, Kind(name)).arr, map.cnt, map.at, g, Kind(name))
    BY <1>a, <1>8, <1>9, <1>11, <1>12, <2>1, SplitShape
  <2>3. QED
    BY <1>2, <2>2 DEF n, a
<1>14. map.arr[a].base = b /\ map.arr[a].size = z /\ map.arr[a].type = "USABLE"
  BY <1>10
<1>15. Cuttable(map.arr, n, a, g)
  BY <1>a, <1>5, <1>8, <1>9, <1>11, <1>12, <1>14 DEF Cuttable, Hosts, Typed, Last
<1>16. Typed(m2.arr, n + 2) /\ Ascends(m2.arr, n + 2)
  BY <1>7, <1>11, <1>13, <1>15, CutAscends
<1>17. ASSUME NEW f \in Nat, Outside(f), NEW u
       PROVE  Tells(m2.arr, n + 2, f, u) <=> Covers(params, f, u)
  <2>1. ~ In(f, g)
    BY <1>17 DEF Outside, Wanted, RegionNames, g
  <2>2. Tells(m2.arr, n + 2, f, u) <=> Tells(map.arr, n, f, u)
    BY <1>7, <1>13, <1>15, <2>1, CutTells DEF Cuttable
  <2>3. Tells(map.arr, n, f, u) <=> Covers(params, f, u)
    BY <1>17 DEF Carved, n
  <2>4. QED
    BY <2>2, <2>3
<1>18. /\ \A x \in 0 .. a - 1 : m2.arr[x] = map.arr[x]
       /\ m2.arr[a + 1] = Rec(g, Kind(name))
       /\ m2.arr[a + 2] = [base |-> Last(g), size |-> Last(map.arr[a]) - Last(g), type |-> "USABLE"]
       /\ \A x \in a + 1 .. n - 1 : m2.arr[x + 2] = map.arr[x]
  BY <1>13 DEF IsCut
<1>19. Shift' = Cut(k) + 2 /\ Origin' = k - 1 /\ m2.cnt \in Nat /\ m2.at \in Nat
  <2>1. m2.cnt = Len(mmap) + Cut(k) + 2 /\ m2.at = k - 1 + Cut(k) + 2
    BY <1>4, <1>6, <1>7, <1>13
  <2>2. Shift' = m2.cnt - Len(mmap) /\ Origin' = m2.at - Shift'
    BY <1>1 DEF Shift, Origin, m2
  <2>3. QED
    BY <1>4, <1>6, <2>1, <2>2
<1>20. InEntry' /\ look' # "next" /\ look' # "done"
  BY <1>2 DEF InEntry, After, RegionNames
<1>21. Counted(k)'
  <2>1. /\ Shift' \in 0 .. 7 /\ Origin' \in 0 .. Len(mmap) /\ Shift' = Cut(k)'
        /\ Origin' < Len(mmap) /\ ~ (Origin' < k - 1) /\ ~ (Origin' >= k)
    BY <1>4, <1>6, <1>19
  <2>2. QED
    BY <1>1, <1>19, <1>20, <2>1 DEF Counted, m2
<1>22. Ahead'
  <2>1. ASSUME NEW x \in 0 .. n + 1, x > a + 2
        PROVE  m2.arr[x] = params[x - Shift' + 1]
    <3>1. x - 2 \in a + 1 .. n - 1 /\ x - 2 \in 0 .. n - 1 /\ x - 2 > a /\ (x - 2) + 2 = x
      BY <1>7, <1>12, <2>1
    <3>2. m2.arr[x] = map.arr[x - 2]
      BY <1>18, <3>1
    <3>3. map.arr[x - 2] = params[(x - 2) - Shift + 1]
      BY <3>1 DEF Carved, Ahead, n, a
    <3>4. (x - 2) - Shift + 1 = x - Shift' + 1
      <4>1. Shift' = Shift + 2 /\ Shift \in Int
        BY <1>6, <1>7, <1>19
      <4>2. x \in Int
        BY <1>7
      <4>3. QED
        BY <4>1, <4>2
    <3>5. QED
      BY <3>2, <3>3, <3>4
  <2>2. m2.cnt - 1 = n + 1
    BY <1>7, <1>13
  <2>3. QED
    BY <1>1, <1>13, <1>20, <2>1, <2>2 DEF Ahead, m2
<1>23. Current(k)'
  <2>1. seen.base = params[Origin + 1].base /\ seen.size = params[Origin + 1].size
    BY <1>3 DEF Carved, Current
  <2>2. Last(map.arr[a]) = Last(mmap[k])
    BY <1>9, <1>14 DEF Last
  <2>3. m2.arr[m2.at] = [base |-> Last(g), size |-> Last(mmap[k]) - Last(g), type |-> "USABLE"]
    BY <1>13, <1>18, <2>2
  <2>4. Origin' = Origin
    BY <1>3, <1>19
  <2>5. QED
    BY <1>1, <1>3, <1>8, <2>1, <2>3, <2>4 DEF Current, m2, Last
<1>24. \A x \in Found(k)' : \E y \in 0 .. m2.at - 1 : m2.arr[y] = Record(x)'
  <2>1. Found(k)' \subseteq Found(k) \union {name}
    <3>1. ~ (Origin' >= k) /\ ~ (Origin >= k) /\ Origin' = k - 1 /\ Origin = k - 1
      BY <1>3, <1>4, <1>19
    <3>2. QED
      BY <1>2, <3>1 DEF Found, After, RegionNames
  <2>2. ASSUME NEW x \in Found(k)  PROVE \E y \in 0 .. m2.at - 1 : m2.arr[y] = Record(x)
    <3>1. PICK y \in 0 .. a - 1 : map.arr[y] = Record(x)
      BY DEF Carved, a
    <3>2. m2.arr[y] = Record(x) /\ y \in 0 .. m2.at - 1
      BY <1>7, <1>13, <1>18, <3>1
    <3>3. QED
      BY <3>2
  <2>3. m2.arr[a + 1] = Record(name) /\ a + 1 \in 0 .. m2.at - 1
    BY <1>7, <1>13, <1>18 DEF Record, g
  <2>4. QED
    BY <1>1, <2>1, <2>2, <2>3
<1>25. Keeps(m2, Len(mmap') + Memory) /\ Typed(m2.arr, m2.cnt) /\ Ascends(m2.arr, m2.cnt)
  BY <1>1, <1>13, <1>16 DEF D
<1>26. ASSUME NEW f \in Nat, Outside(f)', NEW u
       PROVE  Tells(map.arr, map.cnt, f, u)' <=> Covers(params, f, u)'
  <2>1. Tells(m2.arr, m2.cnt, f, u) <=> Covers(params, f, u)
    BY <1>1, <1>13, <1>17, <1>26
  <2>2. Tells(map.arr, map.cnt, f, u)' <=> Tells(m2.arr, m2.cnt, f, u)
    BY DEF Tells, m2, In
  <2>3. QED
    BY <1>1, <2>1, <2>2
<1>27. Keeps(map, Len(mmap) + Memory)' /\ Typed(map.arr, map.cnt)' /\ Ascends(map.arr, map.cnt)'
  BY <1>25 DEF m2, Keeps, Typed, Ascends, Last
<1>28. QED
  BY <1>21, <1>22, <1>23, <1>24, <1>26, <1>27 DEF Carved, m2

(* A framebuffer is found to lie behind the regions' entry, and behind no  *)
(* other.                                                                  *)
LEMMA GapAtHome ==
  ASSUME NEW k \in Nat, Ready(k), Carved(k), look = "framebuffer"
  PROVE  InGap(layout.fb) <=> layout.fb.size > 0 /\ Origin = k - 1
<1> DEFINE o == Origin + 1
           g == layout.fb
           next == map.arr[map.at + 1]
<1>1. /\ Copied(k) /\ Len(mmap) \in Nat /\ k \in 1 .. Len(mmap)
      /\ \A j \in 1 .. Len(mmap) :
           params[j].base \in Nat /\ params[j].size \in Nat /\ params[j].size > 0
      /\ Last(mmap[k]) = Last(params[k])
  BY ReadyCopied DEF Copied, Last
<1>2. g.base \in Nat /\ g.size \in Nat
  BY Lies
<1>3. o \in 1 .. Len(mmap) /\ Origin = o - 1
  BY <1>1 DEF Carved, Counted, InEntry
<1>4. /\ Shift \in 0 .. 7 /\ map.cnt = Len(mmap) + Shift /\ map.at = o - 1 + Shift
      /\ o < k => Shift = 0
      /\ o = k => Shift = 6
  <2>1. /\ Shift \in 0 .. 7 /\ (Origin < k - 1 => Shift = 0) /\ (Origin = k - 1 => Shift = Cut(k))
    BY DEF Carved, Counted
  <2>2. Cut(k) = 6
    BY DEF Cut
  <2>3. map.cnt = Len(mmap) + Shift /\ map.at = Origin + Shift
    BY <1>1 DEF Carved, Counted, Shift, Origin
  <2>4. QED
    BY <1>1, <1>3, <2>1, <2>2, <2>3
<1>5. seen.base = params[o].base /\ seen.size = params[o].size
  BY DEF Carved, Current, InEntry
<1> HIDE DEF o
<1>6. o < Len(mmap) => next = params[o + 1]
  <2>1. SUFFICES ASSUME o < Len(mmap)  PROVE next = params[o + 1]
    OBVIOUS
  <2>2. map.at + 1 \in 0 .. map.cnt - 1 /\ map.at + 1 > map.at /\ (map.at + 1) - Shift + 1 = o + 1
    BY <1>1, <1>3, <1>4, <2>1
  <2>3. QED
    BY <2>2 DEF Carved, Ahead
<1>7. InGap(g) <=> /\ Last(params[o]) <= g.base
                   /\ map.at = Len(mmap) - 1 \/ next.base >= Last(g)
  BY <1>5 DEF InGap, Last
<1>8. \/ g.base = 0 /\ g.size = 0
      \/ /\ g.size > 0 /\ Last(params[k]) <= g.base
         /\ k < Len(mmap) /\ Last(g) <= params[k + 1].base
  <2>1. \A j \in 1 .. Len(mmap) : mmap[j].base = params[j].base
    BY <1>1 DEF Copied
  <2>2. \/ g.base = 0 /\ g.size = 0
        \/ /\ g.size \in 1 .. SizeMod - 1 /\ Last(mmap[k]) <= g.base
           /\ k < Len(mmap) /\ Last(g) <= mmap[k + 1].base
    BY DEF Ready, Home
  <2>3. k < Len(mmap) => mmap[k + 1].base = params[k + 1].base
    BY <1>1, <2>1
  <2>4. QED
    BY <1>1, <1>2, <2>2, <2>3, MergeAssumption
<1>9. \A x, y \in 1 .. Len(mmap) : x < y => Last(params[x]) <= params[y].base
  BY <1>1 DEF Copied
<1> HIDE DEF g, next
<1>10. /\ params[o].base \in Nat /\ params[o].size \in Nat /\ params[o].size > 0
       /\ params[k].base \in Nat /\ params[k].size \in Nat /\ params[k].size > 0
  BY <1>1, <1>3
<1>11. CASE g.base = 0 /\ g.size = 0
  BY <1>2, <1>7, <1>10, <1>11 DEF Last, g
<1>12. CASE /\ g.size > 0 /\ Last(params[k]) <= g.base
            /\ k < Len(mmap) /\ Last(g) <= params[k + 1].base
  <2>1. CASE o = k
    <3>1. next = params[k + 1]
      BY <1>6, <1>12, <2>1
    <3>2. InGap(g)
      BY <1>1, <1>2, <1>7, <1>12, <2>1, <3>1 DEF Last
    <3>3. QED
      BY <1>1, <1>3, <1>12, <2>1, <3>2 DEF g
  <2>2. CASE o < k
    <3>1. next = params[o + 1] /\ o + 1 \in 1 .. Len(mmap) /\ (o + 1 < k \/ o + 1 = k)
      BY <1>1, <1>3, <1>6, <2>2
    <3>2. o + 1 < k => Last(params[o + 1]) <= params[k].base
      BY <1>1, <1>9, <3>1
    <3>3. next.base <= params[k].base
      <4>1. params[o + 1].base \in Nat /\ params[o + 1].size \in Nat
        BY <1>1, <3>1
      <4>2. QED
        BY <1>10, <3>1, <3>2, <4>1 DEF Last
    <3>4. next.base \in Nat /\ map.at # Len(mmap) - 1
      BY <1>1, <1>3, <1>4, <2>2, <3>1
    <3>5. ~ InGap(g)
      BY <1>2, <1>7, <1>10, <1>12, <3>3, <3>4 DEF Last
    <3>6. QED
      BY <1>1, <1>3, <2>2, <3>5 DEF g
  <2>3. CASE o > k
    <3>1. params[k + 1].base <= params[o].base /\ params[k + 1].base \in Nat
      <4>1. k + 1 \in 1 .. Len(mmap) /\ (k + 1 < o \/ k + 1 = o)
        BY <1>1, <1>3, <2>3
      <4>2. params[k + 1].base \in Nat /\ params[k + 1].size \in Nat
        BY <1>1, <4>1
      <4>3. k + 1 < o => Last(params[k + 1]) <= params[o].base
        BY <1>3, <1>9, <4>1
      <4>4. QED
        BY <1>10, <4>1, <4>2, <4>3 DEF Last
    <3>2. ~ InGap(g)
      BY <1>2, <1>7, <1>10, <1>12, <3>1 DEF Last
    <3>3. QED
      BY <1>1, <1>3, <2>3, <3>2 DEF g
  <2>4. QED
    BY <1>1, <1>3, <2>1, <2>2, <2>3
<1>13. QED
  BY <1>8, <1>11, <1>12

LEMMA FramebufferPasses ==
  ASSUME NEW k \in Nat, Ready(k), Carved(k), Framebuffer, ~ InGap(layout.fb)
  PROVE  Carved(k)'
<1> DEFINE m2 == map'
           a == map.at
<1>1. /\ mmap' = mmap /\ params' = params /\ layout' = layout /\ seen' = seen
      /\ Wanted' = Wanted /\ \A x : Record(x)' = Record(x)
      /\ \A f : Outside(f)' <=> Outside(f)
      /\ \A f, u : Covers(params, f, u)' <=> Covers(params, f, u)
  <2>1. UNCHANGED <<merge_vars, layout>> /\ seen' = seen
    BY DEF Framebuffer
  <2>2. QED
    BY <2>1, Steady
<1>2. look = "framebuffer" /\ look' = "next" /\ m2 = [map EXCEPT !.at = a + 1]
  BY DEF Framebuffer
<1>3. Keeps(map, Len(mmap) + Memory)
  BY DEF Carved
<1>4. /\ DOMAIN m2 = {"arr", "cnt", "at"} /\ m2.at = a + 1 /\ m2.cnt = map.cnt
      /\ m2.arr = map.arr
  BY <1>2, <1>3, Fields DEF Keeps
<1>5. Len(mmap) \in Nat /\ k \in 1 .. Len(mmap)
  BY ReadyCopied DEF Copied
<1> HIDE DEF m2, a
<1>6. /\ Shift \in 0 .. 7 /\ map.cnt = Len(mmap) + Shift /\ a = Origin + Shift
      /\ Origin \in 0 .. Len(mmap) - 1 /\ a \in Nat /\ map.cnt \in Nat
      /\ Origin < k - 1 => Shift = 0
  BY <1>2, <1>5 DEF Carved, Counted, InEntry, Shift, Origin, a
<1>7. Shift' = Shift /\ Origin' = Origin + 1
  <2>1. Shift' = m2.cnt - Len(mmap) /\ Origin' = m2.at - Shift' /\ Shift = map.cnt - Len(mmap)
    BY <1>1 DEF Shift, Origin, m2
  <2>2. QED
    BY <1>4, <1>6, <2>1
<1>8. layout.fb.size \in Nat /\ (Origin = k - 1 => layout.fb.size = 0)
  BY <1>2, Lies, GapAtHome
<1>9. Counted(k)'
  <2>1. Cut(k)' = 0 /\ ~ InEntry' /\ look' # "done"
    BY <1>2 DEF Cut, InEntry
  <2>2. /\ Shift' \in 0 .. 7 /\ Origin' \in 0 .. Len(mmap)
        /\ Origin' < k => Shift' = 0
        /\ m2.cnt \in Nat /\ m2.at \in Nat
    BY <1>4, <1>5, <1>6, <1>7
  <2>3. (Origin' < k - 1 => Shift' = 0) /\ (Origin' = k - 1 => Shift' = Cut(k)')
    BY <1>5, <2>1, <2>2
  <2>4. Origin' >= k => Shift' = Added'
    <3>1. Added' = Added /\ (layout.fb.size = 0 => Added = 6)
      BY <1>1 DEF Added
    <3>2. Origin = k - 1 => Shift = 6
      BY <1>2 DEF Carved, Counted, Cut
    <3>3. Origin >= k => Shift = Added
      BY DEF Carved, Counted
    <3>4. Origin' >= k => Origin >= k \/ Origin = k - 1
      BY <1>5, <1>6, <1>7
    <3>5. QED
      BY <1>7, <1>8, <3>1, <3>2, <3>3, <3>4
  <2>5. QED
    BY <1>1, <2>1, <2>2, <2>3, <2>4 DEF Counted, m2
<1>10. Ahead'
  <2>1. ASSUME NEW x \in 0 .. map.cnt - 1, x > a + 1 \/ x = a + 1
        PROVE  map.arr[x] = params[x - Shift + 1]
    <3>1. x > a
      BY <1>6, <2>1
    <3>2. QED
      BY <3>1 DEF Carved, Ahead, a
  <2>2. QED
    BY <1>1, <1>4, <1>7, <2>1 DEF Ahead, m2
<1>11. Current(k)'
  BY <1>2 DEF Current, InEntry
<1>12. \A x \in Found(k)' : \E y \in 0 .. m2.at - 1 : m2.arr[y] = Record(x)'
  <2>1. Found(k)' \subseteq Found(k)
    <3>1. CASE Origin' >= k
      <4>1. Found(k)' = Wanted
        BY <1>1, <3>1 DEF Found
      <4>2. CASE Origin >= k
        BY <4>1, <4>2 DEF Found
      <4>3. CASE ~ (Origin >= k)
        <5>1. Origin = k - 1
          BY <1>5, <1>6, <1>7, <3>1, <4>3
        <5>2. Wanted = RegionNames
          BY <1>8, <5>1 DEF Wanted, RegionNames
        <5>3. Found(k) = RegionNames
          BY <1>2, <4>3, <5>1 DEF Found
        <5>4. QED
          BY <4>1, <5>2, <5>3
      <4>4. QED
        BY <4>2, <4>3
    <3>2. CASE ~ (Origin' >= k)
      BY <1>2, <3>2 DEF Found
    <3>3. QED
      BY <3>1, <3>2
  <2>2. ASSUME NEW x \in Found(k)  PROVE \E y \in 0 .. m2.at - 1 : m2.arr[y] = Record(x)
    <3>1. PICK y \in 0 .. a - 1 : map.arr[y] = Record(x)
      BY DEF Carved, a
    <3>2. y \in 0 .. m2.at - 1
      BY <1>4, <1>6
    <3>3. QED
      BY <1>4, <3>1, <3>2
  <2>3. QED
    BY <1>1, <2>1, <2>2
<1>13. Keeps(map, Len(mmap) + Memory)' /\ Typed(map.arr, map.cnt)' /\ Ascends(map.arr, map.cnt)'
  <2>1. Typed(map.arr, map.cnt) /\ Ascends(map.arr, map.cnt)
    BY DEF Carved
  <2>2. Keeps(m2, Len(mmap') + Memory) /\ Typed(m2.arr, m2.cnt) /\ Ascends(m2.arr, m2.cnt)
    BY <1>1, <1>3, <1>4, <2>1 DEF Keeps
  <2>3. QED
    BY <2>2 DEF m2, Keeps, Typed, Ascends, Last
<1>14. ASSUME NEW f \in Nat, Outside(f)', NEW u
       PROVE  Tells(map.arr, map.cnt, f, u)' <=> Covers(params, f, u)'
  <2>1. Tells(m2.arr, m2.cnt, f, u) <=> Covers(params, f, u)
    BY <1>1, <1>4, <1>14 DEF Carved
  <2>2. Tells(map.arr, map.cnt, f, u)' <=> Tells(m2.arr, m2.cnt, f, u)
    BY DEF Tells, m2, In
  <2>3. QED
    BY <1>1, <2>1, <2>2
<1>15. QED
  BY <1>9, <1>10, <1>11, <1>12, <1>13, <1>14 DEF Carved, m2

LEMMA FramebufferMarks ==
  ASSUME NEW k \in Nat, Ready(k), Carved(k), Framebuffer, InGap(layout.fb)
  PROVE  Carved(k)'
<1> DEFINE g == layout.fb
           D == Len(mmap) + Memory
           n == map.cnt
           a == map.at
           m1 == Insert(map, g, "FRAMEBUFFER")
           m2 == map'
<1>1. /\ mmap' = mmap /\ params' = params /\ layout' = layout /\ seen' = seen
      /\ Wanted' = Wanted /\ \A x : Record(x)' = Record(x)
      /\ \A f : Outside(f)' <=> Outside(f)
      /\ \A f, u : Covers(params, f, u)' <=> Covers(params, f, u)
  <2>1. UNCHANGED <<merge_vars, layout>> /\ seen' = seen
    BY DEF Framebuffer
  <2>2. QED
    BY <2>1, Steady
<1>2. look = "framebuffer" /\ look' = "next" /\ m2 = [m1 EXCEPT !.at = m1.at + 1]
  BY DEF Framebuffer
<1>3. Origin = k - 1 /\ g.size > 0
  BY <1>2, GapAtHome
<1>4. /\ Copied(k) /\ mmap[k].base \in Nat /\ mmap[k].size \in Nat
      /\ g \in [base : Nat, size : Nat]
  BY ReadyCopied DEF Copied
<1>a. Len(mmap) \in Nat /\ k \in 1 .. Len(mmap)
  BY <1>4 DEF Copied
<1>5. g.base \in Nat /\ g.size \in Nat /\ g.size < SizeMod
  BY Lies
<1>6. /\ Last(mmap[k]) <= g.base /\ k < Len(mmap) /\ Last(g) <= mmap[k + 1].base
  BY <1>3, <1>4, <1>5, <1>a DEF Ready, Home
<1>7. Shift = 6 /\ n = Len(mmap) + 6 /\ a = k - 1 + 6 /\ n \in Nat /\ a \in Nat
  <2>1. Shift = 6 /\ n \in Nat /\ a \in Nat
    BY <1>2, <1>3 DEF Carved, Counted, Cut
  <2>2. QED
    BY <1>3, <1>a, <2>1 DEF Shift, Origin
<1>8. D \in Nat /\ n + 1 <= D /\ a \in 0 .. n - 1 /\ a + 1 \in 0 .. n - 1
  BY <1>6, <1>7, <1>a, CarveAssumption
<1>9. Keeps(map, D) /\ Typed(map.arr, n) /\ Ascends(map.arr, n)
  BY DEF Carved
<1>10. /\ Keeps(m1, D) /\ m1.cnt = n + 1 /\ m1.at = a + 1
       /\ IsPut(map.arr, m1.arr, n, a, g, "FRAMEBUFFER")
  BY <1>4, <1>5, <1>7, <1>8, <1>9, InsertShape
<1> HIDE DEF g, D, n, a, m1
<1>11. DOMAIN m2 = {"arr", "cnt", "at"} /\ m2.at = a + 2 /\ m2.cnt = n + 1 /\ m2.arr = m1.arr
  <2>1. /\ DOMAIN m2 = {"arr", "cnt", "at"} /\ m2.at = m1.at + 1 /\ m2.cnt = m1.cnt
        /\ m2.arr = m1.arr
    <3>1. DOMAIN m1 = {"arr", "cnt", "at"}
      BY <1>10 DEF Keeps
    <3>2. QED
      BY <1>2, <3>1, Fields
  <2> HIDE DEF m2
  <2>2. m1.at + 1 = a + 2
    BY <1>7, <1>10
  <2>3. QED
    BY <1>10, <2>1, <2>2
<1> HIDE DEF m2
<1>12. Keeps(m2, D) /\ IsPut(map.arr, m2.arr, n, a, g, "FRAMEBUFFER")
  BY <1>10, <1>11 DEF Keeps
<1>13. Puttable(map.arr, n, a, g)
  <2>1. Last(map.arr[a]) <= g.base
    <3>1. map.arr[a] = [base |-> Reach(k), size |-> Last(mmap[k]) - Reach(k), type |-> "USABLE"]
      BY <1>2, <1>3 DEF Carved, Current, InEntry, a
    <3>2. Reach(k) = Last(layout.mmap)
      BY <1>2 DEF Reach
    <3>3. layout.mmap.base \in Nat /\ layout.mmap.size \in Nat
      BY Lies DEF RegionNames
    <3>4. Last(map.arr[a]) = Last(mmap[k])
      BY <1>4, <3>1, <3>2, <3>3 DEF Last
    <3>5. QED
      BY <1>6, <3>4
  <2>2. Last(g) <= map.arr[a + 1].base
    <3>1. map.arr[a + 1] = params[(a + 1) - Shift + 1]
      <4>1. a + 1 > a
        BY <1>7
      <4>2. QED
        BY <1>8, <4>1 DEF Carved, Ahead, n, a
    <3>2. (a + 1) - Shift + 1 = k + 1 /\ k + 1 \in 1 .. Len(mmap)
      BY <1>a, <1>6, <1>7
    <3>3. mmap[k + 1].base = params[k + 1].base
      BY <1>4, <3>2 DEF Copied
    <3>4. QED
      BY <1>6, <3>1, <3>2, <3>3
  <2>3. QED
    BY <1>4, <1>8, <1>9, <2>1, <2>2 DEF Puttable, g
<1>14. Typed(m2.arr, n + 1) /\ Ascends(m2.arr, n + 1)
  BY <1>7, <1>12, <1>13, PutAscends
<1>15. ASSUME NEW f \in Nat, Outside(f), NEW u
       PROVE  Tells(m2.arr, n + 1, f, u) <=> Covers(params, f, u)
  <2>1. ~ In(f, g)
    BY <1>3, <1>15 DEF Outside, Wanted, g
  <2>2. Tells(m2.arr, n + 1, f, u) <=> Tells(map.arr, n, f, u)
    BY <1>7, <1>12, <1>13, <2>1, PutTells DEF Puttable
  <2>3. Tells(map.arr, n, f, u) <=> Covers(params, f, u)
    BY <1>15 DEF Carved, n
  <2>4. QED
    BY <2>2, <2>3
<1>16. /\ \A x \in 0 .. a : m2.arr[x] = map.arr[x]
       /\ m2.arr[a + 1] = Rec(g, "FRAMEBUFFER")
       /\ \A x \in a + 2 .. n : m2.arr[x] = map.arr[x - 1] /\ x - 1 \in a + 1 .. n - 1
  <2>1. n \in Nat /\ a \in 0 .. n - 1
    BY <1>7, <1>8
  <2>2. IsPut(map.arr, m2.arr, n, a, g, "FRAMEBUFFER")
    BY <1>12
  <2>3. ASSUME NEW A, NEW B, IsPut(A, B, n, a, g, "FRAMEBUFFER")
        PROVE  /\ \A x \in 0 .. a : B[x] = A[x]
               /\ B[a + 1] = Rec(g, "FRAMEBUFFER")
               /\ \A x \in a + 2 .. n : B[x] = A[x - 1] /\ x - 1 \in a + 1 .. n - 1
    BY <2>1, <2>3, PutEntries
  <2>4. QED
    BY <2>2, <2>3
<1>17. Shift' = 7 /\ Origin' = k
  <2>1. Shift' = m2.cnt - Len(mmap) /\ Origin' = m2.at - Shift'
    BY <1>1 DEF Shift, Origin, m2
  <2>2. QED
    BY <1>a, <1>7, <1>11, <2>1
<1>18. Counted(k)'
  <2>1. ~ InEntry' /\ look' # "done"
    BY <1>2 DEF InEntry
  <2>2. /\ Origin' \in 0 .. Len(mmap) /\ Shift' \in 0 .. 7 /\ ~ (Origin' < k - 1) /\ Origin' # k - 1
        /\ m2.cnt \in Nat /\ m2.at \in Nat
    BY <1>a, <1>7, <1>11, <1>17
  <2>3. Added' = 7
    <3>1. layout' = layout /\ layout.fb.size > 0
      BY <1>1, <1>3 DEF g
    <3>2. QED
      BY <3>1 DEF Added
  <2>4. QED
    BY <1>1, <1>17, <2>1, <2>2, <2>3 DEF Counted, m2
<1>19. Ahead'
  <2>1. ASSUME NEW x \in 0 .. n, x > a + 2 \/ x = a + 2
        PROVE  m2.arr[x] = params[x - Shift' + 1]
    <3>1. x \in a + 2 .. n /\ x - 1 > a /\ x - 1 \in 0 .. n - 1
      BY <1>7, <1>8, <2>1
    <3>2. m2.arr[x] = map.arr[x - 1]
      BY <1>16, <3>1
    <3>3. map.arr[x - 1] = params[(x - 1) - Shift + 1]
      BY <3>1 DEF Carved, Ahead, n, a
    <3>4. (x - 1) - Shift + 1 = x - Shift' + 1
      BY <1>7, <1>17
    <3>5. QED
      BY <3>2, <3>3, <3>4
  <2>2. m2.cnt - 1 = n
    BY <1>7, <1>11
  <2>3. QED
    BY <1>1, <1>11, <2>1, <2>2 DEF Ahead, m2
<1>20. Current(k)'
  BY <1>2 DEF Current, InEntry
<1>21. \A x \in Found(k)' : \E y \in 0 .. m2.at - 1 : m2.arr[y] = Record(x)'
  <2>1. Found(k)' = RegionNames \union {"fb"} /\ Found(k) = RegionNames
    <3>1. Origin' >= k /\ ~ (Origin >= k)
      BY <1>3, <1>a, <1>17
    <3>2. Found(k)' = Wanted
      BY <1>1, <3>1 DEF Found
    <3>3. Wanted = RegionNames \union {"fb"}
      BY <1>3 DEF Wanted, RegionNames, g
    <3>4. Found(k) = RegionNames
      BY <1>2, <1>3, <3>1 DEF Found
    <3>5. QED
      BY <3>2, <3>3, <3>4
  <2>2. ASSUME NEW x \in RegionNames  PROVE \E y \in 0 .. m2.at - 1 : m2.arr[y] = Record(x)
    <3>1. PICK y \in 0 .. a - 1 : map.arr[y] = Record(x)
      BY <2>1 DEF Carved, a
    <3>2. m2.arr[y] = Record(x) /\ y \in 0 .. m2.at - 1
      BY <1>7, <1>11, <1>16, <3>1
    <3>3. QED
      BY <3>2
  <2>3. m2.arr[a + 1] = Record("fb") /\ a + 1 \in 0 .. m2.at - 1
    BY <1>7, <1>11, <1>16 DEF Record, Kind, g
  <2>4. QED
    BY <1>1, <2>1, <2>2, <2>3
<1>22. Keeps(map, Len(mmap) + Memory)' /\ Typed(map.arr, map.cnt)' /\ Ascends(map.arr, map.cnt)'
  <2>1. Keeps(m2, Len(mmap') + Memory) /\ Typed(m2.arr, m2.cnt) /\ Ascends(m2.arr, m2.cnt)
    BY <1>1, <1>11, <1>12, <1>14 DEF D
  <2>2. QED
    BY <2>1 DEF m2, Keeps, Typed, Ascends, Last
<1>23. ASSUME NEW f \in Nat, Outside(f)', NEW u
       PROVE  Tells(map.arr, map.cnt, f, u)' <=> Covers(params, f, u)'
  <2>1. Tells(m2.arr, m2.cnt, f, u) <=> Covers(params, f, u)
    BY <1>1, <1>11, <1>15, <1>23
  <2>2. Tells(map.arr, map.cnt, f, u)' <=> Tells(m2.arr, m2.cnt, f, u)
    BY DEF Tells, m2, In
  <2>3. QED
    BY <1>1, <2>1, <2>2
<1>24. QED
  BY <1>18, <1>19, <1>20, <1>21, <1>22, <1>23 DEF Carved, m2

CopiedOnceReady == \A k \in Nat : Ready(k) => Copied(k)

LEMMA ReadyMapsAreCopied == CopiedOnceReady
BY ReadyCopied DEF CopiedOnceReady

LEMMA CopyMapCarves ==
  ASSUME NEW k \in Nat, CopyMap, look' = "next", Ready(k)'
  PROVE  Carved(k)'
<1> DEFINE p == params'
           n == Len(mmap')
           m2 == map'
           D == n + Memory
<1>1. Copied(k)'
  <2>1. CopiedOnceReady'
    BY ReadyMapsAreCopied, PTL
  <2>2. QED
    BY <2>1 DEF CopiedOnceReady
<1>2. /\ n \in Nat /\ Len(p) = n /\ k \in 1 .. n
      /\ \A j \in 1 .. n : p[j].base \in Nat /\ p[j].size \in Nat
      /\ \A x, y \in 1 .. n : x < y => Last(p[x]) <= p[y].base
  BY <1>1 DEF Copied, Last
<1>3. PICK g \in Garbage :
        m2 = [arr |-> [j \in 0 .. Len(p) + Memory |-> IF j < Len(p) THEN p[j + 1] ELSE g],
              cnt |-> Len(p), at |-> 0]
  BY DEF CopyMap
<1>4. DOMAIN m2 = {"arr", "cnt", "at"} /\ m2.cnt = n /\ m2.at = 0
      /\ m2.arr = [j \in 0 .. D |-> IF j < n THEN p[j + 1] ELSE g]
  BY <1>2, <1>3
<1>5. D \in Nat /\ n <= D
  BY <1>2, CarveAssumption
<1> HIDE DEF p, n, m2, D
<1>6. /\ m2.arr = [j \in 0 .. D |-> m2.arr[j]]
      /\ \A x \in 0 .. n - 1 : m2.arr[x] = p[x + 1] /\ x + 1 \in 1 .. n
  BY <1>2, <1>4, <1>5
<1>7. Shift' = 0 /\ Origin' = 0
  <2>1. Shift' = m2.cnt - n /\ Origin' = m2.at - Shift'
    BY DEF Shift, Origin, m2, n
  <2>2. QED
    BY <1>2, <1>4, <2>1
<1>8. Counted(k)'
  <2>1. Cut(k)' = 0 /\ ~ InEntry' /\ look' # "done"
    BY DEF Cut, InEntry
  <2>2. m2.cnt \in Nat /\ m2.at \in Nat /\ Origin' \in 0 .. n /\ Shift' \in 0 .. 7
    BY <1>2, <1>4, <1>7
  <2>3. ~ (Origin' >= k)
    BY <1>2, <1>7
  <2>4. QED
    BY <1>7, <2>1, <2>2, <2>3 DEF Counted, m2, n
<1>9. Ahead'
  <2>1. ASSUME NEW x \in 0 .. n - 1  PROVE m2.arr[x] = p[x - Shift' + 1]
    <3>1. x - Shift' + 1 = x + 1
      BY <1>2, <1>7
    <3>2. QED
      BY <1>6, <3>1
  <2>2. QED
    BY <1>4, <2>1 DEF Ahead, m2, p
<1>10. Current(k)'
  BY DEF Current, InEntry
<1>11. Found(k)' = {}
  <2>1. ~ (Origin' >= k)
    BY <1>2, <1>7
  <2>2. QED
    BY <2>1 DEF Found
<1>12. Typed(m2.arr, n)
  BY <1>2, <1>6 DEF Typed
<1>13. Ascends(m2.arr, n)
  <2>1. ASSUME NEW x \in 0 .. n - 1, NEW y \in 0 .. n - 1, x < y
        PROVE  Last(m2.arr[x]) <= m2.arr[y].base
    <3>1. x + 1 \in 1 .. n /\ y + 1 \in 1 .. n /\ x + 1 < y + 1
      BY <1>2, <2>1
    <3>2. Last(p[x + 1]) <= p[y + 1].base
      BY <1>2, <3>1
    <3>3. QED
      BY <1>6, <3>2
  <2>2. QED
    BY <2>1 DEF Ascends
<1>14. ASSUME NEW f \in Nat, NEW u
       PROVE  Tells(map.arr, map.cnt, f, u)' <=> Covers(params, f, u)'
  <2>1. Tells(m2.arr, n, f, u) <=> \E x \in 0 .. n - 1 : In(f, p[x + 1]) /\ p[x + 1].type = u
    BY <1>6 DEF Tells
  <2>2. Covers(p, f, u) <=> \E x \in 1 .. n : In(f, p[x]) /\ p[x].type = u
    BY <1>2 DEF Covers, Says, In
  <2>3. ASSUME NEW x \in 1 .. n  PROVE x - 1 \in 0 .. n - 1 /\ (x - 1) + 1 = x
    BY <1>2
  <2>4. \A x \in 0 .. n - 1 : x + 1 \in 1 .. n
    BY <1>2
  <2>5. Tells(m2.arr, n, f, u) <=> Covers(p, f, u)
    BY <2>1, <2>2, <2>3, <2>4
  <2>6. /\ Tells(map.arr, map.cnt, f, u)' <=> Tells(m2.arr, n, f, u)
        /\ Covers(params, f, u)' <=> Covers(p, f, u)
    BY <1>4 DEF Tells, m2, In, Covers, Says, p
  <2>7. QED
    BY <2>5, <2>6
<1>15. Keeps(map, Len(mmap) + Memory)' /\ Typed(map.arr, map.cnt)' /\ Ascends(map.arr, map.cnt)'
  <2>1. Keeps(m2, D) /\ Typed(m2.arr, m2.cnt) /\ Ascends(m2.arr, m2.cnt)
    BY <1>4, <1>6, <1>12, <1>13 DEF Keeps
  <2>2. QED
    BY <2>1 DEF m2, D, n, Keeps, Typed, Ascends, Last
<1>16. QED
  BY <1>8, <1>9, <1>10, <1>11, <1>14, <1>15 DEF Carved

LEMMA InitCarveInv == GetInit => CarveInv
<1>1. SUFFICES ASSUME GetInit  PROVE CarveInv
  OBVIOUS
<1>2. CopyInv
  BY <1>1, InitIInv DEF GetInit, Init, CopyInv
<1>3. QED
  BY <1>1, <1>2 DEF GetInit, Init, CarveInv

LEMMA NextCarveInv == CarveInv /\ [GetNext]_<<merge_vars, carve_vars>> => CarveInv'
<1>1. SUFFICES ASSUME CarveInv, [GetNext]_<<merge_vars, carve_vars>>  PROVE CarveInv'
  OBVIOUS
<1>2. CopyInv'
  BY <1>1, GetStepIsStep, NextCopyInv DEF CarveInv
<1>3. layout' \in Layouts
  BY <1>1 DEF CarveInv, GetNext, MergeStep, CopyMap, NextEntry, Framebuffer, Over, Mark, Pass, carve_vars
<1>4. CASE MergeStep
  <2>1. UNCHANGED carve_vars /\ pc = "merge" /\ pc' = "merge" /\ params' = params
    BY <1>4 DEF MergeStep, Merge, Advance
  <2>2. look = "merge" /\ look' = "merge" /\ map' = map
    BY <1>1, <2>1 DEF CarveInv, carve_vars
  <2>3. QED
    BY <1>1, <1>2, <1>3, <2>1, <2>2 DEF CarveInv
<1>5. CASE CopyMap
  <2>1. /\ pc' = "done" \/ (pc' = "failed" /\ params' = params)
        /\ look' = IF pc' = "done" THEN "next" ELSE "failed"
        /\ map'.cnt = Len(params')
    BY <1>5 DEF CopyMap, Copy
  <2>2. pc = "merge"
    BY <1>5 DEF CopyMap, Copy
  <2>3. look = "merge" /\ params = << >>
    BY <1>1, <2>2 DEF CarveInv
  <2>4. look' = "failed" => map'.cnt = 0
    BY <2>1, <2>3
  <2>5. ASSUME NEW k \in Nat, Home(k)', Regular', look' \notin {"merge", "failed"}
        PROVE  Carved(k)'
    <3>1. look' = "next" /\ pc' = "done"
      BY <2>1, <2>5
    <3>2. Ready(k)'
      BY <1>2, <1>3, <2>5, <3>1 DEF Ready
    <3>3. QED
      BY <1>5, <3>1, <3>2, CopyMapCarves
  <2>6. QED
    BY <1>2, <1>3, <2>1, <2>4, <2>5 DEF CarveInv
<1>6. ASSUME UNCHANGED <<merge_vars, layout>>, look \notin {"merge", "failed"},
             look' \notin {"merge", "failed"},
             \A k \in Nat : Ready(k) /\ Carved(k) => Carved(k)'
      PROVE  CarveInv'
  <2>1. pc = "done" /\ pc' = "done"
    BY <1>1, <1>6, Steady DEF CarveInv
  <2>2. ASSUME NEW k \in Nat, Home(k)', Regular'
        PROVE  Carved(k)'
    <3>1. Home(k) /\ Regular
      BY <1>6, <2>2, Steady DEF Home, Place, Regular, Last, Sorted
    <3>2. Ready(k) /\ Carved(k)
      BY <1>1, <1>6, <2>1, <3>1 DEF CarveInv, Ready
    <3>3. QED
      BY <1>6, <3>2
  <2>3. QED
    BY <1>2, <1>3, <1>6, <2>1, <2>2 DEF CarveInv
<1>7. CASE NextEntry
  <2>1. UNCHANGED <<merge_vars, layout>> /\ look = "next" /\ look' \in {"kernel", "done"}
    BY <1>7 DEF NextEntry
  <2>2. QED
    BY <1>6, <1>7, <2>1, NextEntryCarves
<1>8. CASE Framebuffer
  <2>1. UNCHANGED <<merge_vars, layout>> /\ look = "framebuffer" /\ look' = "next"
    BY <1>8 DEF Framebuffer
  <2>2. QED
    BY <1>6, <1>8, <2>1, FramebufferPasses, FramebufferMarks
<1>9. ASSUME NEW j \in DOMAIN Regions, Mark(Regions[j]) \/ Pass(Regions[j])
      PROVE  CarveInv'
  <2> DEFINE name == Regions[j]
  <2>1. name \in RegionNames \union {"cmdline"}
    BY DEF Regions, RegionNames
  <2> HIDE DEF name
  <2>2. Mark(name) \/ Pass(name)
    BY <1>9 DEF name
  <2>3. /\ UNCHANGED <<merge_vars, layout>> /\ look = name /\ look' = After(name)
        /\ look \notin {"merge", "failed"} /\ look' \notin {"merge", "failed"}
    BY <2>1, <2>2 DEF Mark, Pass, RegionNames, After
  <2>4. ASSUME NEW k \in Nat, Ready(k), Carved(k)  PROVE Carved(k)'
    <3>1. CASE Pass(name)
      BY <2>1, <2>4, <3>1, PassCarves
    <3>2. CASE Mark(name)
      <4>1. name # "cmdline"
        BY <2>4, <3>2, NoBootArguments DEF Mark
      <4>2. QED
        BY <2>1, <2>4, <3>2, <4>1, MarkCarves
    <3>3. QED
      BY <2>2, <3>1, <3>2
  <2>5. QED
    BY <1>6, <2>3, <2>4
<1>10. CASE Over \/ UNCHANGED <<merge_vars, carve_vars>>
  <2>1. UNCHANGED <<merge_vars, carve_vars>>
    BY <1>10 DEF Over
  <2>2. /\ UNCHANGED <<merge_vars, layout, map>> /\ seen' = seen /\ look' = look /\ map' = map
    BY <2>1 DEF carve_vars
  <2>3. CASE look \in {"merge", "failed"}
    BY <1>1, <1>2, <1>3, <2>2, <2>3, Steady DEF CarveInv
  <2>4. CASE look \notin {"merge", "failed"}
    <3>1. ASSUME NEW k \in Nat, Carved(k)  PROVE Carved(k)'
      BY <2>2, <3>1, Steady, Unmoved
         DEF Carved, Counted, Ahead, Current, Found, Cut, Reach, InEntry, Last
    <3>2. QED
      BY <1>6, <2>2, <2>4, <3>1
  <2>5. QED
    BY <2>3, <2>4
<1>11. QED
  BY <1>1, <1>4, <1>5, <1>7, <1>8, <1>9, <1>10 DEF GetNext

-----------------------------------------------------------------------------
(* What the kernel's map says when one usable entry holds the regions one  *)
(* behind the other, and the framebuffer is the next: the layouts of the   *)
(* run AurixMap, but for maps of every length. Nothing in the code, or in  *)
(* the firmware, promises such a layout; what holds in any is              *)
(* CutsAreAlwaysClean, below.                                              *)

THEOREM CarvingIsCarved == GetSpec => []CarveInv
BY InitCarveInv, NextCarveInv, PTL DEF GetSpec

LEMMA HomeIsSomewhere == OneHome => \E k \in Nat : Home(k)
<1>1. \A k : Home(k) => k \in Nat
  BY DEF Home
<1>2. QED
  BY <1>1 DEF OneHome

LEMMA CarvedIfReady ==
  ASSUME CarveInv, Regular, look \notin {"merge", "failed"}, NEW k \in Nat, Home(k)
  PROVE  Ready(k) /\ Carved(k)
BY DEF CarveInv, Ready

(* At every moment the entries are in ascending order and do not overlap.  *)
THEOREM MapStaysInOrder == GetSpec => [](OneHome /\ Regular => Ordered)
<1>1. ASSUME CarveInv, OneHome, Regular,
             NEW x \in 0 .. map.cnt - 2
      PROVE  map.arr[x].base + map.arr[x].size <= map.arr[x + 1].base
  <2>1. PICK k \in Nat : Home(k)
    BY <1>1, HomeIsSomewhere
  <2>2. CASE look \in {"merge", "failed"}
    BY <1>1, <2>2 DEF CarveInv
  <2>3. CASE look \notin {"merge", "failed"}
    <3>1. Carved(k)
      BY <1>1, <2>1, <2>3, CarvedIfReady
    <3>2. map.cnt \in Nat /\ Ascends(map.arr, map.cnt)
      BY <3>1 DEF Carved, Counted
    <3>3. x \in 0 .. map.cnt - 1 /\ x + 1 \in 0 .. map.cnt - 1 /\ x < x + 1
      BY <3>2
    <3>4. QED
      BY <3>2, <3>3 DEF Ascends, Last
  <2>4. QED
    BY <2>2, <2>3
<1>2. CarveInv => (OneHome /\ Regular => Ordered)
  BY <1>1 DEF Ordered
<1>3. QED
  BY <1>2, CarvingIsCarved, PTL

(* OtherFramesKept: at every moment a frame outside the regions is of the  *)
(* type that the firmware reported for it, and of no other.                *)
THEOREM OthersAreKept == GetSpec => []OtherFramesKept
<1>1. ASSUME CarveInv, OneHome, look \notin {"merge", "failed"}, Regular,
             NEW f \in Frames, \A name \in Wanted : ~ In(f, layout[name])
      PROVE  TypesOf(f) = {aurix_type(t) : t \in {u \in Types : Covers(input, f, u)}}
  <2>1. PICK k \in Nat : Home(k)
    BY <1>1, HomeIsSomewhere
  <2>2. Ready(k) /\ Carved(k)
    BY <1>1, <2>1, CarvedIfReady
  <2>3. f \in Nat /\ Outside(f)
    BY <1>1, MergeAssumption DEF Outside
  <2>4. /\ mmap \in Seq(Entry) /\ params = Translated(mmap)
        /\ \A j \in DOMAIN mmap : mmap[j].size < SizeMod
        /\ \A t \in Types : Covers(mmap, f, t) <=> Covers(input, f, t)
    BY <2>2, <2>3 DEF Ready, CopyInv, IInv, Regular
  <2>5. ASSUME NEW u
        PROVE  Tells(map.arr, map.cnt, f, u)
                 <=> \E t \in Types : Covers(input, f, t) /\ aurix_type(t) = u
    <3>1. Tells(map.arr, map.cnt, f, u) <=> Covers(params, f, u)
      BY <2>2, <2>3 DEF Carved
    <3>2. Covers(params, f, u) <=> \E t \in Types : Covers(mmap, f, t) /\ aurix_type(t) = u
      BY <2>3, <2>4, TranslatedSays
    <3>3. QED
      BY <2>4, <3>1, <3>2
  <2>6. ASSUME NEW u
        PROVE  u \in TypesOf(f) <=> Tells(map.arr, map.cnt, f, u)
    BY DEF TypesOf, Entries, Tells
  <2>7. ASSUME NEW u
        PROVE  u \in {aurix_type(t) : t \in {v \in Types : Covers(input, f, v)}}
                 <=> \E t \in Types : Covers(input, f, t) /\ aurix_type(t) = u
    OBVIOUS
  <2>8. QED
    BY <2>5, <2>6, <2>7
<1>2. CarveInv => OtherFramesKept
  BY <1>1 DEF OtherFramesKept
<1>3. QED
  BY <1>2, CarvingIsCarved, PTL

(* MarkedAtHome: when the loop has ended, the kernel, the parameters,      *)
(* the map and a framebuffer have one entry each.                          *)
THEOREM RegionsAreMarked == GetSpec => []MarkedAtHome
<1>1. ASSUME CarveInv, OneHome, look = "done", Regular, NEW name \in Wanted
      PROVE  MarkedOnce(layout[name], Kind(name))
  <2> DEFINE A == map.arr
             n == map.cnt
             r == Record(name)
             S == {x \in 0 .. n - 1 : A[x] = r}
  <2>1. PICK k \in Nat : Home(k)
    BY <1>1, HomeIsSomewhere
  <2>2. Ready(k) /\ Carved(k)
    BY <1>1, <2>1, CarvedIfReady
  <2>3. Len(mmap) \in Nat /\ k \in 1 .. Len(mmap)
    BY <2>2, ReadyCopied DEF Copied
  <2>4. n \in Nat /\ map.at \in Nat /\ n = Len(mmap) + Shift /\ map.at = Origin + Shift
        /\ Shift \in 0 .. 7 /\ Origin \in 0 .. Len(mmap) /\ map.at >= Len(mmap)
    BY <1>1, <2>2, <2>3 DEF Carved, Counted, Shift, Origin
  <2>5. Origin < k - 1 => Shift = 0
    BY <2>2 DEF Carved, Counted
  <2>6. Origin = k - 1 => Shift = 0
    BY <1>1, <2>2 DEF Carved, Counted, Cut
  <2>7. Origin >= k
    BY <2>3, <2>4, <2>5, <2>6
  <2>8. PICK x \in 0 .. map.at - 1 : A[x] = r
    BY <2>2, <2>7 DEF Carved, Found
  <2>9. x \in 0 .. n - 1
    BY <2>4
  <2>10. r.base \in Nat /\ r.size \in Nat /\ r.size > 0
    <3>1. r.base = layout[name].base /\ r.size = layout[name].size
      BY DEF Record, Rec
    <3>2. CASE name \in RegionNames
      BY <2>2, <3>1, <3>2, Lies
    <3>3. CASE name \notin RegionNames
      <4>1. name = "fb" /\ layout.fb.size > 0
        BY <3>3 DEF Wanted, RegionNames
      <4>2. QED
        BY <2>2, <3>1, <4>1, Lies
    <3>4. QED
      BY <3>2, <3>3
  <2> HIDE DEF r
  <2>11. ASSUME NEW y \in 0 .. n - 1, NEW w \in 0 .. n - 1, y < w, A[y] = r, A[w] = r
         PROVE  FALSE
    <3>1. Last(A[y]) <= A[w].base
      BY <2>2, <2>11 DEF Carved, Ascends
    <3>2. QED
      BY <2>10, <2>11, <3>1 DEF Last
  <2>12. S = {x}
    <3>1. \A y \in 0 .. n - 1 : A[y] = r => ~ (y < x) /\ ~ (x < y)
      BY <2>8, <2>9, <2>11
    <3>2. \A y \in 0 .. n - 1 : A[y] = r => y = x
      BY <2>4, <2>9, <3>1
    <3>3. QED
      BY <2>8, <2>9, <3>2
  <2>13. Cardinality(S) = 1
    BY <2>12, FS_Singleton
  <2>14. QED
    BY <2>13 DEF MarkedOnce, Quantify, r, Record, Rec
<1>2. CarveInv => MarkedAtHome
  BY <1>1 DEF EveryRegionMarked, MarkedAtHome
<1>3. QED
  BY <1>2, CarvingIsCarved, PTL

(* EntriesAdded: what the loop adds for the regions, and no more.          *)
THEOREM AddedAreCounted == GetSpec => []EntriesAdded
<1>1. ASSUME CarveInv, OneHome, look = "done", Regular
      PROVE  map.cnt = Len(mmap) + Added
  <2>1. PICK k \in Nat : Home(k)
    BY <1>1, HomeIsSomewhere
  <2>2. Ready(k) /\ Carved(k)
    BY <1>1, <2>1, CarvedIfReady
  <2>3. Len(mmap) \in Nat /\ k \in 1 .. Len(mmap)
    BY <2>2, ReadyCopied DEF Copied
  <2>4. /\ map.cnt \in Nat /\ map.cnt = Len(mmap) + Shift /\ map.at = Origin + Shift
        /\ Origin \in 0 .. Len(mmap) /\ map.at >= Len(mmap)
        /\ Origin < k - 1 => Shift = 0
    BY <1>1, <2>2, <2>3 DEF Carved, Counted, Shift, Origin
  <2>5. Origin = k - 1 => Shift = 0
    BY <1>1, <2>2 DEF Carved, Counted, Cut
  <2>6. Origin >= k => Shift = Added
    BY <2>2 DEF Carved, Counted
  <2>7. QED
    BY <2>3, <2>4, <2>5, <2>6
<1>2. CarveInv => EntriesAdded
  BY <1>1 DEF EntriesAdded
<1>3. QED
  BY <1>2, CarvingIsCarved, PTL

-----------------------------------------------------------------------------
(* CutsAreClean: every single step of the loop, for every map and every    *)
(* place of the regions. First, that the map stays an array of entries,    *)
(* whatever is written into it.                                            *)
LEMMA PutKeeps ==
  ASSUME NEW t, NEW D \in Nat, Keeps(t, D), NEW base, NEW size, NEW type
  PROVE  /\ Keeps(Put(t, base, size, type), D)
         /\ Put(t, base, size, type).cnt = t.cnt /\ Put(t, base, size, type).at = t.at
<1> DEFINE e == [base |-> base, size |-> size % SizeMod, type |-> type]
           A2 == [t.arr EXCEPT ![t.at] = e]
           t2 == [t EXCEPT !.arr = A2]
<1>1. DOMAIN t.arr = 0 .. D /\ DOMAIN t = {"arr", "cnt", "at"}
  BY DEF Keeps
<1>2. Put(t, base, size, type) = t2
  BY DEF Put
<1> HIDE DEF e
<1>3. A2 = [x \in 0 .. D |-> A2[x]]
  BY <1>1
<1> HIDE DEF A2
<1>4. DOMAIN t2 = {"arr", "cnt", "at"} /\ t2.arr = A2 /\ t2.cnt = t.cnt /\ t2.at = t.at
  BY <1>1
<1> HIDE DEF t2
<1>5. QED
  BY <1>2, <1>3, <1>4 DEF Keeps

LEMMA InsertKeeps ==
  ASSUME NEW t, NEW D \in Nat, Keeps(t, D), NEW g, NEW type
  PROVE  /\ Keeps(Insert(t, g, type), D)
         /\ Insert(t, g, type).cnt = t.cnt + 1 /\ Insert(t, g, type).at = t.at + 1
<1> DEFINE t1 == [t EXCEPT !.at = t.at + 1]
           t2 == mmap_insert_blank(t1)
<1>1. Keeps(t1, D) /\ t1.at = t.at + 1 /\ t1.cnt = t.cnt
  BY Fields DEF Keeps
<1>2. Insert(t, g, type) = Put(t2, g.base, g.size, type)
  BY DEF Insert
<1> HIDE DEF t1
<1>3. Keeps(t2, D) /\ t2.cnt = t.cnt + 1 /\ t2.at = t.at + 1
  BY <1>1, InsertBlank
<1> HIDE DEF t2
<1>4. QED
  BY <1>2, <1>3, PutKeeps

LEMMA SplitKeeps ==
  ASSUME NEW t, NEW D \in Nat, Keeps(t, D), t.cnt \in Nat, t.at \in Nat, NEW g, NEW type
  PROVE  /\ Keeps(Split(t, g, type), D)
         /\ Split(t, g, type).cnt \in Nat /\ Split(t, g, type).at \in Nat
<1> DEFINE a == t.at
           host == t.arr[a]
           t1 == Insert(t, g, type)
           z == (g.base - host.base) % SizeMod
           A2 == [t1.arr EXCEPT ![a].size = z]
           t2 == [t1 EXCEPT !.at = a + 2, !.arr[a].size = z]
           t3 == mmap_insert_blank(t2)
           size3 == host.size - (g.base - host.base) - g.size
           t4 == Put(t3, g.base + g.size, size3, "USABLE")
<1>1. Keeps(t1, D) /\ t1.cnt = t.cnt + 1
  BY InsertKeeps
<1>2. Split(t, g, type) \in {t2, t4}
  BY DEF Split
<1> HIDE DEF t1, z, size3, host, a
<1>3. DOMAIN t1.arr = 0 .. D /\ DOMAIN t1 = {"arr", "cnt", "at"}
  BY <1>1 DEF Keeps
<1>4. A2 = [x \in 0 .. D |-> A2[x]]
  BY <1>3
<1>5. DOMAIN t2 = {"arr", "cnt", "at"} /\ t2.arr = A2 /\ t2.cnt = t1.cnt /\ t2.at = a + 2
  <2>1. t2 = [t1 EXCEPT !.at = a + 2, !.arr = A2]
    OBVIOUS
  <2> HIDE DEF A2
  <2>2. QED
    BY <1>3, <2>1
<1> HIDE DEF A2
<1>6. Keeps(t2, D)
  BY <1>4, <1>5 DEF Keeps
<1> HIDE DEF t2
<1>7. Keeps(t3, D) /\ t3.cnt = t2.cnt + 1 /\ t3.at = t2.at
  BY <1>6, InsertBlank
<1> HIDE DEF t3
<1>8. Keeps(t4, D) /\ t4.cnt = t3.cnt /\ t4.at = t3.at
  BY <1>7, PutKeeps
<1> HIDE DEF t4
<1>9. t2.cnt \in Nat /\ t2.at \in Nat /\ t4.cnt \in Nat /\ t4.at \in Nat
  BY <1>1, <1>5, <1>7, <1>8 DEF a
<1>10. QED
  BY <1>2, <1>6, <1>8, <1>9

ArrayInv ==
  look \notin {"merge", "failed"} =>
    /\ \E D \in Nat : Keeps(map, D)
    /\ map.cnt \in Nat /\ map.at \in Nat

LEMMA CopyMapKeeps ==
  ASSUME CarveInv, CopyMap
  PROVE  ArrayInv'
<1>1. SUFFICES ASSUME look' \notin {"merge", "failed"}
               PROVE  /\ \E D \in Nat : Keeps(map, D)'
                      /\ map'.cnt \in Nat /\ map'.at \in Nat
  BY DEF ArrayInv
<1>2. PICK g \in Garbage :
        map' = [arr |-> [j \in 0 .. Len(params') + Memory |->
                           IF j < Len(params') THEN params'[j + 1] ELSE g],
                cnt |-> Len(params'),
                at  |-> 0]
  BY DEF CopyMap
<1> DEFINE n == Len(params')
           A == [j \in 0 .. n + Memory |-> IF j < n THEN params'[j + 1] ELSE g]
<1>3. n \in Nat
  <2>1. pc' = "done" /\ Copy
    BY <1>1 DEF CopyMap
  <2>2. params' = [k \in 1 .. Len(mmap) |->
                     [base |-> mmap[k].base, size |-> mmap[k].size % SizeMod,
                      type |-> aurix_type(mmap[k].type)]]
    BY <2>1 DEF Copy
  <2>3. Len(mmap) \in Nat
    BY DEF CarveInv, CopyInv, IInv
  <2>4. QED
    BY <2>2, <2>3
<1>4. PICK D \in Nat : D = n + Memory
  BY <1>3, CarveAssumption
<1>5. map'.arr = A /\ map'.cnt = n /\ map'.at = 0 /\ DOMAIN map' = {"arr", "cnt", "at"}
  BY <1>2
<1>6. A = [x \in 0 .. D |-> A[x]]
  BY <1>4
<1> HIDE DEF n, A
<1>7. Keeps(map, D)'
  BY <1>5, <1>6 DEF Keeps
<1>8. QED
  BY <1>3, <1>4, <1>5, <1>7

LEMMA NextArrayInv == CarveInv /\ ArrayInv /\ [GetNext]_<<merge_vars, carve_vars>> => ArrayInv'
<1>1. SUFFICES ASSUME CarveInv, ArrayInv, [GetNext]_<<merge_vars, carve_vars>>
               PROVE  ArrayInv'
  OBVIOUS
<1>2. CASE MergeStep
  <2>1. UNCHANGED carve_vars
    BY <1>2 DEF MergeStep
  <2>2. look' = look /\ map' = map
    BY <2>1 DEF carve_vars
  <2>3. QED
    BY <1>1, <2>2 DEF ArrayInv, Keeps
<1>3. CASE CopyMap
  BY <1>1, <1>3, CopyMapKeeps
<1>4. CASE NextEntry
  BY <1>1, <1>4 DEF NextEntry, ArrayInv, Keeps
<1>5. CASE Framebuffer
  <2> DEFINE t == IF InGap(layout.fb) THEN Insert(map, layout.fb, "FRAMEBUFFER") ELSE map
  <2>1. look = "framebuffer" /\ map' = [t EXCEPT !.at = t.at + 1]
    BY <1>5 DEF Framebuffer
  <2>2. PICK D \in Nat : Keeps(map, D)
    BY <1>1, <2>1 DEF ArrayInv
  <2>3. map.cnt \in Nat /\ map.at \in Nat
    BY <1>1, <2>1 DEF ArrayInv
  <2>4. Keeps(t, D) /\ t.cnt \in Nat /\ t.at \in Nat
    BY <2>2, <2>3, InsertKeeps
  <2> HIDE DEF t
  <2>5. /\ DOMAIN map' = {"arr", "cnt", "at"} /\ map'.arr = t.arr
        /\ map'.cnt = t.cnt /\ map'.at = t.at + 1
    BY <2>1, <2>4, Fields DEF Keeps
  <2>6. Keeps(map, D)'
    BY <2>4, <2>5 DEF Keeps
  <2>7. QED
    BY <2>4, <2>5, <2>6 DEF ArrayInv
<1>6. ASSUME NEW k \in DOMAIN Regions, Mark(Regions[k]) \/ Pass(Regions[k])
      PROVE  ArrayInv'
  <2> DEFINE name == Regions[k]
  <2>1. look \notin {"merge", "failed"} /\ look = name
    BY <1>6 DEF Regions, Mark, Pass
  <2> HIDE DEF name
  <2>2. CASE Pass(name)
    BY <1>1, <2>1, <2>2 DEF Pass, ArrayInv, Keeps
  <2>3. CASE Mark(name)
    <3>1. map' = Split(map, Place(name), Kind(name))
      BY <2>3 DEF Mark
    <3>2. PICK D \in Nat : Keeps(map, D)
      BY <1>1, <2>1 DEF ArrayInv
    <3>3. map.cnt \in Nat /\ map.at \in Nat
      BY <1>1, <2>1 DEF ArrayInv
    <3>4. Keeps(map', D) /\ map'.cnt \in Nat /\ map'.at \in Nat
      BY <3>1, <3>2, <3>3, SplitKeeps
    <3>5. Keeps(map, D)'
      BY <3>4 DEF Keeps
    <3>6. QED
      BY <3>4, <3>5 DEF ArrayInv
  <2>4. QED
    BY <1>6, <2>2, <2>3 DEF name
<1>7. CASE Over \/ UNCHANGED <<merge_vars, carve_vars>>
  <2>1. UNCHANGED carve_vars
    BY <1>7 DEF Over
  <2>2. look' = look /\ map' = map
    BY <2>1 DEF carve_vars
  <2>3. QED
    BY <1>1, <2>2 DEF ArrayInv, Keeps
<1>8. QED
  BY <1>1, <1>2, <1>3, <1>4, <1>5, <1>6, <1>7 DEF GetNext

(* TypesOf() is what the array tells.                                      *)
LEMMA TypesAreTold ==
  ASSUME NEW f, NEW u
  PROVE  /\ u \in TypesOf(f) <=> Tells(map.arr, map.cnt, f, u)
         /\ (u \in TypesOf(f))' <=> Tells(map'.arr, map'.cnt, f, u)
BY DEF TypesOf, Entries, Tells, In

(* Cutting keeps the order of neighbours, whatever the rest of the map is. *)
LEMMA CutKeepsOrder ==
  ASSUME NEW A, NEW B, NEW n \in Nat, NEW a, NEW g, NEW type,
         Hosts(A, n, a, g), IsCut(A, B, n, a, g, type),
         \A x \in 0 .. n - 2 : Last(A[x]) <= A[x + 1].base,
         NEW x \in 0 .. n
  PROVE  Last(B[x]) <= B[x + 1].base
<1>1. /\ a \in 0 .. n - 1 /\ A[a].base \in Nat /\ A[a].size \in Nat
      /\ g.base \in Nat /\ g.size \in Nat /\ A[a].base <= g.base /\ Last(g) <= Last(A[a])
  BY DEF Hosts
<1>2. /\ \A y \in 0 .. a - 1 : B[y] = A[y]
      /\ B[a] = [base |-> A[a].base, size |-> g.base - A[a].base, type |-> "USABLE"]
      /\ B[a + 1] = Rec(g, type)
      /\ B[a + 2] = [base |-> Last(g), size |-> Last(A[a]) - Last(g), type |-> "USABLE"]
      /\ \A y \in a + 1 .. n - 1 : B[y + 2] = A[y]
  BY DEF IsCut
<1>3. /\ B[a].base = A[a].base /\ Last(B[a]) = g.base
      /\ B[a + 1].base = g.base /\ Last(B[a + 1]) = Last(g)
      /\ B[a + 2].base = Last(g) /\ Last(B[a + 2]) = Last(A[a])
  <2>1. B[a].base = A[a].base /\ B[a].size = g.base - A[a].base
    BY <1>2
  <2>2. B[a + 1].base = g.base /\ B[a + 1].size = g.size
    BY <1>2 DEF Rec
  <2>3. B[a + 2].base = Last(g) /\ B[a + 2].size = Last(A[a]) - Last(g)
    BY <1>2
  <2>4. QED
    BY <1>1, <2>1, <2>2, <2>3 DEF Last
<1>4. CASE x < a - 1
  <2>1. x \in 0 .. a - 1 /\ x + 1 \in 0 .. a - 1 /\ x \in 0 .. n - 2
    BY <1>1, <1>4
  <2>2. QED
    BY <1>2, <2>1
<1>5. CASE x = a - 1
  <2>1. x \in 0 .. a - 1 /\ x + 1 = a /\ x \in 0 .. n - 2
    BY <1>1, <1>5
  <2>2. Last(A[x]) <= A[a].base /\ B[x] = A[x]
    BY <1>2, <2>1
  <2>3. QED
    BY <1>3, <2>1, <2>2
<1>6. CASE x = a \/ x = a + 1
  <2>1. x + 1 = a + 1 \/ x + 1 = a + 2
    BY <1>1, <1>6
  <2>2. g.base <= g.base /\ Last(g) <= Last(g)
    BY <1>1 DEF Last
  <2>3. QED
    BY <1>1, <1>3, <1>6, <2>2
<1>7. CASE x = a + 2
  <2>1. a + 1 \in a + 1 .. n - 1 /\ a \in 0 .. n - 2 /\ (a + 1) + 2 = x + 1
    BY <1>1, <1>7
  <2>2. B[x + 1] = A[a + 1] /\ Last(A[a]) <= A[a + 1].base
    BY <1>2, <2>1
  <2>3. QED
    BY <1>3, <1>7, <2>2
<1>8. CASE x > a + 2
  <2>1. /\ x - 2 \in a + 1 .. n - 1 /\ x - 1 \in a + 1 .. n - 1 /\ x - 2 \in 0 .. n - 2
        /\ (x - 2) + 2 = x /\ (x - 1) + 2 = x + 1 /\ (x - 2) + 1 = x - 1
    BY <1>1, <1>8
  <2>2. B[x] = A[x - 2] /\ B[x + 1] = A[x - 1]
    BY <1>2, <2>1
  <2>3. Last(A[x - 2]) <= A[x - 1].base
    BY <2>1
  <2>4. QED
    BY <2>2, <2>3
<1>9. QED
  BY <1>1, <1>4, <1>5, <1>6, <1>7, <1>8

LEMMA CutClean ==
  ASSUME ArrayInv, layout \in Layouts, NEW k \in DOMAIN Regions, Mark(Regions[k]),
         Holding(Regions[k])
  PROVE  CutIsClean(Regions[k])
<1> DEFINE name == Regions[k]
           g == Place(name)
           n == map.cnt
           a == map.at
           host == map.arr[a]
           m2 == map'
<1>1. /\ look = name /\ name \in {"kernel", "params", "mmap", "cmdline"}
      /\ m2 = Split(map, g, Kind(name))
  BY DEF Regions, Mark
<1>2. g \in [base : Nat, size : Nat]
  <2>1. layout[name] \in [base : Nat, size : Nat]
    BY <1>1, CarveAssumption
  <2>2. CASE g = layout[name]
    BY <2>1, <2>2
  <2>3. CASE g = [layout.cmdline EXCEPT !.base = (layout.cmdline.base - Hhdm) % Word]
    <3>1. layout.cmdline \in [base : Nat, size : Nat]
      BY CarveAssumption
    <3>2. (layout.cmdline.base - Hhdm) % Word \in Nat
      BY <3>1, CarveAssumption
    <3>3. QED
      BY <2>3, <3>1, <3>2
  <2>4. QED
    BY <2>2, <2>3 DEF Place
<1>3. /\ a < n /\ n + 2 \in DOMAIN map.arr
      /\ host \in [base : Nat, size : 0 .. SizeMod - 1, type : {"USABLE"}]
      /\ host.base <= g.base /\ g.base + g.size < host.base + host.size
  BY DEF Holding
<1>4. n \in Nat /\ a \in Nat
  BY <1>1 DEF ArrayInv
<1>5. PICK D \in Nat : Keeps(map, D)
  BY <1>1 DEF ArrayInv
<1>6. n + 2 <= D /\ a \in 0 .. n - 1
  <2>1. DOMAIN map.arr = 0 .. D
    BY <1>5 DEF Keeps
  <2>2. QED
    BY <1>3, <1>4, <2>1
<1> DEFINE b == host.base
           z == host.size
<1>7. b \in Nat /\ z \in Nat /\ z < SizeMod /\ host = [base |-> b, size |-> z, type |-> "USABLE"]
  BY <1>3, MergeAssumption
<1>8. b <= g.base /\ Last(g) < b + z
  BY <1>3 DEF Last
<1>9. g.base \in Nat /\ g.size \in Nat
  BY <1>2
<1> HIDE DEF name, g, n, a, m2, b, z
<1>10. /\ m2.cnt = n + 2
       /\ IsCut(map.arr, m2.arr, n, a, g, Kind(name))
  <2>1. /\ map.arr[map.at] = [base |-> b, size |-> z, type |-> "USABLE"] /\ map.cnt \in Nat
        /\ map.cnt + 2 <= D /\ map.at \in 0 .. map.cnt - 1
    BY <1>4, <1>6, <1>7 DEF n, a
  <2>2. /\ Split(map, g, Kind(name)).cnt = map.cnt + 2
        /\ IsCut(map.arr, Split(map, g, Kind(name)).arr, map.cnt, map.at, g, Kind(name))
    BY <1>2, <1>5, <1>7, <1>8, <2>1, SplitShape
  <2>3. QED
    BY <1>1, <2>2 DEF n, a
<1>11. Hosts(map.arr, n, a, g)
  <2>1. map.arr[a].base = b /\ map.arr[a].size = z /\ map.arr[a].type = "USABLE"
    BY <1>7
  <2>2. Last(g) <= b + z
    BY <1>7, <1>8, <1>9 DEF Last
  <2>3. QED
    BY <1>2, <1>6, <1>7, <1>8, <2>1, <2>2 DEF Hosts, Last
<1>12. Clean(g)
  <2>1. ASSUME NEW f \in Frames, ~ In(f, g), NEW u
        PROVE  (u \in TypesOf(f))' <=> u \in TypesOf(f)
    <3>1. f \in Nat
      BY MergeAssumption
    <3>2. Tells(m2.arr, n + 2, f, u) <=> Tells(map.arr, n, f, u)
      BY <1>4, <1>10, <1>11, <2>1, <3>1, CutTells
    <3>3. QED
      BY <1>10, <3>2, TypesAreTold DEF m2, n
  <2>2. ASSUME NEW f \in Frames, ~ In(f, g)  PROVE TypesOf(f)' = TypesOf(f)
    <3>1. \A u : u \in TypesOf(f)' <=> u \in TypesOf(f)
      BY <2>1, <2>2
    <3>2. QED
      BY <3>1 DEF TypesOf
  <2>3. QED
    BY <2>2 DEF Clean
<1>13. ASSUME NEW f \in Frames, In(f, g)  PROVE Kind(name) \in TypesOf(f)'
  <2>1. m2.arr[a + 1] = Rec(g, Kind(name)) /\ a + 1 \in 0 .. m2.cnt - 1
    BY <1>4, <1>6, <1>10 DEF IsCut
  <2>2. In(f, m2.arr[a + 1]) /\ m2.arr[a + 1].type = Kind(name)
    BY <1>13, <2>1 DEF In, Rec
  <2>3. Tells(m2.arr, m2.cnt, f, Kind(name))
    BY <2>1, <2>2 DEF Tells
  <2>4. QED
    BY <2>3, TypesAreTold DEF m2
<1>14. ASSUME Ordered  PROVE Ordered'
  <2>1. \A x \in 0 .. n - 2 : Last(map.arr[x]) <= map.arr[x + 1].base
    BY <1>14 DEF Ordered, Last, n
  <2>2. \A x \in 0 .. n : Last(m2.arr[x]) <= m2.arr[x + 1].base
    BY <1>4, <1>10, <1>11, <2>1, CutKeepsOrder
  <2>3. m2.cnt - 2 = n
    BY <1>4, <1>10
  <2>4. QED
    BY <2>2, <2>3 DEF Ordered, Last, m2
<1>15. QED
  BY <1>12, <1>13, <1>14 DEF CutIsClean, g, name

LEMMA PutClean ==
  ASSUME ArrayInv, layout \in Layouts, Framebuffer, Standing
  PROVE  Clean(layout.fb)
<1> DEFINE g == layout.fb
           t == Insert(map, g, "FRAMEBUFFER")
           n == map.cnt
           a == map.at
<1>1. /\ g \in [base : Nat, size : Nat] /\ g.size < SizeMod
      /\ a < n /\ n + 1 \in DOMAIN map.arr /\ look = "framebuffer"
  BY CarveAssumption DEF Standing, Framebuffer
<1>2. n \in Nat /\ a \in Nat
  BY <1>1 DEF ArrayInv
<1>3. PICK D \in Nat : Keeps(map, D)
  BY <1>1 DEF ArrayInv
<1>4. n + 1 <= D /\ a \in 0 .. n - 1
  <2>1. DOMAIN map.arr = 0 .. D
    BY <1>3 DEF Keeps
  <2>2. QED
    BY <1>1, <1>2, <2>1
<1>5. /\ Keeps(t, D) /\ t.cnt = n + 1
      /\ IsPut(map.arr, t.arr, n, a, g, "FRAMEBUFFER")
  BY <1>1, <1>2, <1>3, <1>4, InsertShape
<1> HIDE DEF g, t, n, a
<1>6. ASSUME NEW f \in Frames, ~ In(f, g), NEW u
      PROVE  (u \in TypesOf(f))' <=> u \in TypesOf(f)
  <2>1. f \in Nat
    BY MergeAssumption
  <2>2. Tells(t.arr, n + 1, f, u) <=> Tells(map.arr, n, f, u)
    BY <1>2, <1>4, <1>5, <1>6, <2>1, PutTells
  <2>3. CASE InGap(g)
    <3>1. map' = [t EXCEPT !.at = t.at + 1]
      BY <2>3 DEF Framebuffer, t, g
    <3>2. map'.arr = t.arr /\ map'.cnt = n + 1
      BY <1>5, <3>1, Fields DEF Keeps
    <3>3. QED
      BY <2>2, <3>2, TypesAreTold DEF n
  <2>4. CASE ~ InGap(g)
    <3>1. map' = [map EXCEPT !.at = map.at + 1]
      BY <2>4 DEF Framebuffer, g
    <3>2. map'.arr = map.arr /\ map'.cnt = map.cnt
      BY <1>3, <3>1, Fields DEF Keeps
    <3>3. QED
      BY <3>2, TypesAreTold
  <2>5. QED
    BY <2>3, <2>4
<1>7. ASSUME NEW f \in Frames, ~ In(f, g)  PROVE TypesOf(f)' = TypesOf(f)
  <2>1. \A u : u \in TypesOf(f)' <=> u \in TypesOf(f)
    BY <1>6, <1>7
  <2>2. QED
    BY <2>1 DEF TypesOf
<1>8. QED
  BY <1>7 DEF Clean, g

(* For every map, ascending or not, every place of the regions, in one     *)
(* entry or many and in any order, and any size of the allocation: a step  *)
(* that cuts a region out of an entry that holds it changes no other       *)
(* frame, gives the region's frames its type, and keeps the order.         *)
THEOREM CutsAreAlwaysClean == GetSpec => CutsAreClean
<1>1. GetInit => ArrayInv
  BY DEF GetInit, ArrayInv
<1>2. CarveInv /\ ArrayInv /\ [GetNext]_<<merge_vars, carve_vars>> => ArrayInv'
  BY NextArrayInv
<1> DEFINE Step == /\ \A k \in DOMAIN Regions :
                        look = Regions[k] /\ Holding(Regions[k]) => CutIsClean(Regions[k])
                   /\ look = "framebuffer" /\ Standing => Clean(layout.fb)
<1>3. CarveInv /\ ArrayInv /\ [GetNext]_<<merge_vars, carve_vars>>
        => [Step]_<<merge_vars, carve_vars>>
  <2>1. SUFFICES ASSUME CarveInv, ArrayInv, GetNext  PROVE Step
    OBVIOUS
  <2>2. layout \in Layouts
    BY <2>1 DEF CarveInv
  <2>3. ASSUME map' = map, NEW g  PROVE Clean(g)
    BY <2>3 DEF Clean, TypesOf, Entries, In
  <2>4. map' = map => (Ordered => Ordered')
    BY DEF Ordered
  <2>5. ASSUME NEW k \in DOMAIN Regions, look = Regions[k], Holding(Regions[k])
        PROVE  CutIsClean(Regions[k])
    <3>1. CASE Mark(Regions[k])
      BY <2>1, <2>2, <2>5, <3>1, CutClean
    <3>2. CASE ~ Mark(Regions[k])
      <4>1. map' = map
        <5>1. look \in {"kernel", "params", "mmap", "cmdline"}
          BY <2>5 DEF Regions
        <5>2. CASE MergeStep \/ CopyMap
          <6>1. look = "merge" \/ look = "failed"
            BY <2>1, <5>2 DEF MergeStep, CopyMap, Merge, Advance, Copy, CarveInv
          <6>2. QED
            BY <5>1, <6>1
        <5>3. CASE NextEntry \/ Framebuffer \/ Over
          BY <5>1, <5>3 DEF NextEntry, Framebuffer, Over, carve_vars
        <5>4. ASSUME NEW j \in DOMAIN Regions, Mark(Regions[j]) \/ Pass(Regions[j])
              PROVE  map' = map
          <6>1. look = Regions[j]
            BY <5>4 DEF Mark, Pass
          <6>2. ~ Mark(Regions[j])
            BY <2>5, <3>2, <6>1
          <6>3. QED
            BY <5>4, <6>2 DEF Pass
        <5>5. QED
          BY <2>1, <5>2, <5>3, <5>4 DEF GetNext
      <4>2. QED
        BY <2>3, <2>4, <3>2, <4>1 DEF CutIsClean
    <3>3. QED
      BY <3>1, <3>2
  <2>6. ASSUME look = "framebuffer", Standing  PROVE Clean(layout.fb)
    <3>1. CASE Framebuffer
      BY <2>1, <2>2, <2>6, <3>1, PutClean
    <3>2. CASE ~ Framebuffer
      <4>1. map' = map
        <5>1. CASE MergeStep \/ CopyMap
          <6>1. look = "merge" \/ look = "failed"
            BY <2>1, <5>1 DEF MergeStep, CopyMap, Merge, Advance, Copy, CarveInv
          <6>2. QED
            BY <2>6, <6>1
        <5>2. CASE NextEntry \/ Over
          BY <5>2 DEF NextEntry, Over, carve_vars
        <5>3. ~ \E j \in DOMAIN Regions : Mark(Regions[j]) \/ Pass(Regions[j])
          BY <2>6 DEF Mark, Pass, Regions
        <5>4. QED
          BY <2>1, <3>2, <5>1, <5>2, <5>3 DEF GetNext
      <4>2. QED
        BY <2>3, <4>1
    <3>3. QED
      BY <3>1, <3>2
  <2>7. QED
    BY <2>5, <2>6
<1>4. QED
  BY <1>1, <1>2, <1>3, CarvingIsCarved, PTL DEF GetSpec, CutsAreClean
=============================================================================
