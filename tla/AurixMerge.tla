----------------------------- MODULE AurixMerge -----------------------------
(***************************************************************************)
(* First half of aurix_get_memmap() (src/common/proto/aurix.c): neighbours *)
(* of one type are merged in place, then the map is copied, with its types *)
(* translated, into the map that the kernel is given.                      *)
(*                                                                         *)
(* Addresses and sizes are in page frames. Entry i of the source is        *)
(* mmap[i + 1] here, and Len(mmap) is mmap_entries: what the shifting      *)
(* leaves behind the last entry is never looked at again.                  *)
(***************************************************************************)
EXTENDS Integers, Sequences

CONSTANTS
  Frames,   \* frames the maps are compared on
  Types,    \* types of memory the maps hold
  Inputs,   \* the maps that get_memmap() may return
  SizeMod   \* frames that the 32-bit size of struct aurix_memmap can count

Entry == [base : Nat, size : Nat, type : Types]

ASSUME MergeAssumption ==
  /\ Frames \subseteq Nat
  /\ \A m \in Inputs : m \in Seq(Entry) /\ m # << >>
  /\ SizeMod \in Nat \ {0}

VARIABLES
  input,    \* the map as it was handed over
  mmap,     \* the map while it is merged
  i,        \* loop counter
  pc,
  params    \* the map for the kernel

vars == <<input, mmap, i, pc, params>>

-----------------------------------------------------------------------------
(* Entry e of a map says that frame f is of type t.                        *)
Says(e, f, t) == e.base <= f /\ f < e.base + e.size /\ e.type = t
Covers(m, f, t) == \E k \in 1 .. Len(m) : Says(m[k], f, t)

Sorted(m) == \A k \in 1 .. Len(m) - 1 : m[k].base + m[k].size <= m[k + 1].base

(* Mutant: the types of the neighbours are not compared.                   *)
Mergeable_any(m, k) ==
  k \in 1 .. Len(m) - 1 /\ m[k].base + m[k].size >= m[k + 1].base

(* Neighbours of one type, the first of which reaches the second's base.   *)
Mergeable(m, k) ==
  /\ k \in 1 .. Len(m) - 1
  /\ m[k].base + m[k].size >= m[k + 1].base
  /\ m[k].type = m[k + 1].type

Merged(m, k) ==
  [j \in 1 .. Len(m) - 1 |->
     IF j < k THEN m[j]
     ELSE IF j = k THEN [m[k] EXCEPT !.size = m[k].size + m[k + 1].size]
     ELSE m[j + 1]]

aurix_type(t) ==
  CASE t \in {"Reserved", "Faulty", "Firmware"} -> "RESERVED"
    [] t = "ACPIReclaimable" -> "ACPI_RECLAIMABLE"
    [] t = "ACPIMappedIO" -> "ACPI_MAPPED_IO"
    [] t = "ACPIMappedIOPortSpace" -> "ACPI_MAPPED_IO_PORTSPACE"
    [] t = "ACPINVS" -> "ACPI_NVS"
    [] t = "Usable" -> "USABLE"
    [] OTHER -> "RESERVED"

Init == /\ input \in Inputs
        /\ mmap = input
        /\ i = 0 /\ pc = "merge" /\ params = << >>

(* Mutant: the counter moves on after a merge.                             *)
Merge_moves_on ==
  /\ pc = "merge" /\ i < Len(mmap) - 1
  /\ Mergeable(mmap, i + 1)
  /\ mmap' = Merged(mmap, i + 1)
  /\ i' = i + 1
  /\ UNCHANGED <<input, pc, params>>

(* A neighbour is swallowed; i-- and i++ look at the same entry again.     *)
Merge ==
  /\ pc = "merge" /\ i < Len(mmap) - 1
  /\ Mergeable(mmap, i + 1)
  /\ mmap' = Merged(mmap, i + 1)
  /\ UNCHANGED <<input, i, pc, params>>

Advance ==
  /\ pc = "merge" /\ i < Len(mmap) - 1
  /\ ~Mergeable(mmap, i + 1)
  /\ i' = i + 1
  /\ UNCHANGED <<input, mmap, pc, params>>

(* Mutant: the copy stops one entry early.                                 *)
Copy_short ==
  /\ pc = "merge" /\ i = Len(mmap) - 1
  /\ params' = [k \in 1 .. Len(mmap) - 1 |->
                  [base |-> mmap[k].base, size |-> mmap[k].size % SizeMod,
                   type |-> aurix_type(mmap[k].type)]]
  /\ pc' = "done"
  /\ UNCHANGED <<input, mmap, i>>

(* The last entry ends the loop. Sizes are cut to the width of the kernel's*)
(* structure. (Without memory for the copy the boot stops.)                *)
Copy ==
  /\ pc = "merge" /\ i = Len(mmap) - 1
  /\ \/ /\ params' = [k \in 1 .. Len(mmap) |->
                        [base |-> mmap[k].base, size |-> mmap[k].size % SizeMod,
                         type |-> aurix_type(mmap[k].type)]]
        /\ pc' = "done"
     \/ pc' = "failed" /\ UNCHANGED params
  /\ UNCHANGED <<input, mmap, i>>

Ended == pc \in {"done", "failed"} /\ UNCHANGED vars

Next == Merge \/ Advance \/ Copy \/ Ended

Spec == Init /\ [][Next]_vars

-----------------------------------------------------------------------------
(* Merging a map in ascending order loses no frame, adds none and changes  *)
(* no frame's type, while it goes on. (Only in that order does the test on *)
(* the neighbour's base mean that the two touch.)                          *)
MergeKeepsMap ==
  Sorted(input) => \A f \in Frames, t \in Types : Covers(mmap, f, t) <=> Covers(input, f, t)

(* When the loop ends no two neighbours are left that could be merged,     *)
(* although every merge shifts the entries under the counter, and whatever *)
(* the order of the entries.                                               *)
MergeIsComplete ==
  pc # "merge" => \A k \in 1 .. Len(mmap) - 1 : ~Mergeable(mmap, k)

(* The kernel's map says of each frame what an ascending firmware's map    *)
(* said, in the types of the boot protocol, if the 32-bit field holds the  *)
(* sizes that merging has made.                                            *)
CopyKeepsMap ==
  pc = "done" /\ Sorted(input) /\ (\A k \in DOMAIN mmap : mmap[k].size < SizeMod) =>
    \A f \in Frames, u \in {aurix_type(t) : t \in Types} :
      Covers(params, f, u) <=> \E t \in Types : Covers(input, f, t) /\ aurix_type(t) = u
=============================================================================
