----------------------------- MODULE AurixCarve -----------------------------
(***************************************************************************)
(* All of aurix_get_memmap() (src/common/proto/aurix.c): the map is merged *)
(* and copied (module AurixMerge), and then the kernel, the boot           *)
(* parameters, the map itself, the boot arguments and the framebuffer are  *)
(* carved out of the copy, in place.                                       *)
(*                                                                         *)
(* Addresses and sizes are in page frames, those of the regions as the     *)
(* code rounds them before the loop. Entries of the copy are numbered from *)
(* 0. No configuration lists modules, so the loop over them is empty.      *)
(***************************************************************************)
EXTENDS AurixMerge, FiniteSetsExt

CONSTANTS
  Layouts,  \* [host, kernel, params, mmap, cmdline, fb]: a map and the
            \* places of the regions
  Garbage,  \* entries that fresh pool memory may hold
  Memory,   \* entries of memory after the copied ones that are modelled
  Word,     \* frames a 64-bit address can count
  Hhdm      \* frame of the higher half direct map

ASSUME CarveAssumption ==
  /\ \A l \in Layouts :
       /\ l.host \in Inputs
       /\ \A name \in {"kernel", "params", "mmap", "cmdline", "fb"} :
            l[name] \in [base : Nat, size : Nat]
  /\ {Memory, Word, Hhdm} \subseteq Nat /\ Word > Hhdm
  /\ Memory >= 9    \* two entries for each region, one for the framebuffer

VARIABLES
  layout,
  map,      \* [arr, cnt, at]: params->mmap, params->mmap_entries, i
  seen,     \* base and size of the entry this iteration looks at
  look      \* "merge", "next", "framebuffer", "done", "failed" or the
            \* region to look for

merge_vars == vars
carve_vars == <<layout, map, seen, look>>

-----------------------------------------------------------------------------
(* The entries from index on move up by one. What lies behind the last one *)
(* moves with them.                                                        *)
mmap_insert_blank(t) ==
  [t EXCEPT !.cnt = t.cnt + 1,
            !.arr = [j \in DOMAIN t.arr |->
                       IF t.at < j /\ j <= t.cnt + 1 THEN t.arr[j - 1] ELSE t.arr[j]]]

Put(t, base, size, type) ==
  [t EXCEPT !.arr[t.at] = [base |-> base, size |-> size % SizeMod, type |-> type]]

(* The new entry goes in behind entry at.                                  *)
Insert(t, g, type) ==
  Put(mmap_insert_blank([t EXCEPT !.at = t.at + 1]), g.base, g.size, type)

(* Mutant: the entry that is split keeps its size.                         *)
Split_uncut(t, g, type) ==
  LET host == t.arr[t.at]
      cut  == [Insert(t, g, type) EXCEPT !.at = t.at + 2]
  IN IF host.base + host.size > g.base + g.size
     THEN Put(mmap_insert_blank(cut), g.base + g.size,
              host.size - (g.base - host.base) - g.size, "USABLE")
     ELSE cut

(* Mutant: what is left behind the region gets no entry.                   *)
Split_no_rest(t, g, type) ==
  LET host == t.arr[t.at]
  IN [Insert(t, g, type) EXCEPT !.at = t.at + 2,
                                !.arr[t.at].size = (g.base - host.base) % SizeMod]

(* Mutant: the loop goes on at the region's entry.                         *)
Split_stays(t, g, type) ==
  LET host == t.arr[t.at]
      cut  == [Insert(t, g, type) EXCEPT !.at = t.at + 2,
                                         !.arr[t.at].size = (g.base - host.base) % SizeMod]
      rest == Put(mmap_insert_blank(cut), g.base + g.size,
                  host.size - (g.base - host.base) - g.size, "USABLE")
  IN IF host.base + host.size > g.base + g.size
     THEN [rest EXCEPT !.at = t.at + 1]
     ELSE cut

(* Entry at ends where the region begins; what is left behind the region   *)
(* becomes a usable entry, at which the loop goes on.                      *)
Split(t, g, type) ==
  LET host == t.arr[t.at]
      cut  == [Insert(t, g, type) EXCEPT !.at = t.at + 2,
                                         !.arr[t.at].size = (g.base - host.base) % SizeMod]
  IN IF host.base + host.size > g.base + g.size
     THEN Put(mmap_insert_blank(cut), g.base + g.size,
              host.size - (g.base - host.base) - g.size, "USABLE")
     ELSE cut

-----------------------------------------------------------------------------
Regions == <<"kernel", "params", "mmap", "cmdline">>
Kind(name) ==
  CASE name = "kernel" -> "KERNEL"
    [] name = "fb"     -> "FRAMEBUFFER"
    [] OTHER           -> "BOOTLOADER_RECLAIMABLE"

After(name) ==
  CASE name = "kernel"  -> "params"
    [] name = "params"  -> "mmap"
    [] name = "mmap"    -> "cmdline"
    [] name = "cmdline" -> "framebuffer"

(* Where the loop looks for a region. The address of the boot arguments is *)
(* a physical one, from which hhdm_offset is subtracted all the same.      *)
Place(name) ==
  IF name = "cmdline" /\ layout.cmdline.base # 0
  THEN [layout.cmdline EXCEPT !.base = (layout.cmdline.base - Hhdm) % Word]
  ELSE layout[name]

GetInit ==
  /\ layout \in Layouts /\ input = layout.host
  /\ Init
  /\ map = [arr |-> << >>, cnt |-> 0, at |-> 0]
  /\ seen = [base |-> 0, size |-> 0]
  /\ look = "merge"

MergeStep == (Merge \/ Advance) /\ UNCHANGED carve_vars

(* The copied entries, with what the allocation held behind them.          *)
CopyMap ==
  /\ Copy
  /\ look' = IF pc' = "done" THEN "next" ELSE "failed"
  /\ \E g \in Garbage :
       map' = [arr |-> [j \in 0 .. Len(params') + Memory |->
                          IF j < Len(params') THEN params'[j + 1] ELSE g],
               cnt |-> Len(params'),
               at  |-> 0]
  /\ UNCHANGED <<layout, seen>>

(* The bound of the loop is the number of entries before any insertion.    *)
NextEntry ==
  /\ look = "next"
  /\ IF map.at < Len(mmap)
     THEN /\ seen' = [base |-> map.arr[map.at].base, size |-> map.arr[map.at].size]
          /\ look' = "kernel"
     ELSE look' = "done" /\ UNCHANGED seen
  /\ UNCHANGED <<merge_vars, layout, map>>

(* seen is not read again after an earlier region has split the entry.     *)
Contains(g) == seen.base <= g.base /\ seen.base + seen.size >= g.base
Matches(name) == Contains(Place(name)) /\ (name = "cmdline" => Place(name).base # 0)

Mark(name) ==
  /\ look = name /\ Matches(name)
  /\ map' = Split(map, Place(name), Kind(name))
  /\ look' = After(name)
  /\ UNCHANGED <<merge_vars, layout, seen>>

Pass(name) ==
  /\ look = name /\ ~Matches(name)
  /\ look' = After(name)
  /\ UNCHANGED <<merge_vars, layout, map, seen>>

(* The framebuffer lies behind the entry and before the next one.          *)
InGap(g) ==
  /\ seen.base + seen.size <= g.base
  /\ \/ map.at = Len(mmap) - 1
     \/ map.arr[map.at + 1].base >= g.base + g.size

Framebuffer ==
  /\ look = "framebuffer"
  /\ LET t == IF InGap(layout.fb) THEN Insert(map, layout.fb, "FRAMEBUFFER") ELSE map
     IN map' = [t EXCEPT !.at = t.at + 1]
  /\ look' = "next"
  /\ UNCHANGED <<merge_vars, layout, seen>>

Over == look \in {"done", "failed"} /\ UNCHANGED <<merge_vars, carve_vars>>

GetNext ==
  \/ MergeStep \/ CopyMap \/ NextEntry \/ Framebuffer \/ Over
  \/ \E k \in DOMAIN Regions : Mark(Regions[k]) \/ Pass(Regions[k])

GetSpec == GetInit /\ [][GetNext]_<<merge_vars, carve_vars>>

-----------------------------------------------------------------------------
Entries == {map.arr[k] : k \in 0 .. map.cnt - 1}
In(f, g) == g.base <= f /\ f < g.base + g.size
Wanted == {"kernel", "params", "mmap"} \union IF layout.fb.size > 0 THEN {"fb"} ELSE {}

(* The firmware's map ascends, and the kernel's size field can hold what   *)
(* merging has made of it.                                                 *)
Regular == Sorted(input) /\ \A k \in DOMAIN mmap : mmap[k].size < SizeMod

MarkedOnce(g, type) ==
  Quantify(0 .. map.cnt - 1,
           LAMBDA k : map.arr[k] = [base |-> g.base, size |-> g.size, type |-> type]) = 1

(* The kernel, the boot parameters, the map and a framebuffer outside the  *)
(* memory each get one entry, of their own place and type. It fails when   *)
(* they lie in two entries, of which the loop does not reach the second.   *)
EveryRegionMarked ==
  look = "done" /\ Regular => \A name \in Wanted : MarkedOnce(layout[name], Kind(name))

Last(g) == g.base + g.size

(* Entry k of the merged map is usable memory; the regions lie inside it,  *)
(* one behind the other; the framebuffer lies directly behind it or is not *)
(* there; where the boot arguments are looked for, there is no memory.     *)
Home(k) ==
  /\ k \in 1 .. Len(mmap) /\ mmap[k].type = "Usable"
  /\ \A j \in 1 .. Len(mmap) : mmap[j].size > 0
  /\ mmap[k].base < layout.kernel.base /\ layout.kernel.size > 0
  /\ Last(layout.kernel) <= layout.params.base /\ layout.params.size > 0
  /\ Last(layout.params) <= layout.mmap.base /\ layout.mmap.size > 0
  /\ Last(layout.mmap) < Last(mmap[k])
  /\ \/ layout.fb.base = 0 /\ layout.fb.size = 0
     \/ /\ layout.fb.size \in 1 .. SizeMod - 1 /\ Last(mmap[k]) <= layout.fb.base
        /\ k < Len(mmap) /\ Last(layout.fb) <= mmap[k + 1].base
  /\ layout.cmdline.base # 0 =>
       \A j \in 1 .. Len(mmap) :
         ~ (mmap[j].base <= Place("cmdline").base /\ Place("cmdline").base <= Last(mmap[j]))

OneHome == \E k \in DOMAIN mmap : Home(k)

(* With all regions at home in one entry each gets its own, although every *)
(* entry that is inserted moves those that are still to be looked at.      *)
MarkedAtHome == OneHome => EveryRegionMarked

(* What the map says of frame f.                                           *)
TypesOf(f) == {e.type : e \in {x \in Entries : In(f, x)}}

(* From the firmware's map to the kernel's, at every moment of the         *)
(* carving of regions that are at home in one entry: a frame outside all   *)
(* of them is of the type that the firmware reported, in the kernel's      *)
(* terms, and of no other.                                                 *)
OtherFramesKept ==
  look \notin {"merge", "failed"} /\ Regular /\ OneHome =>
    \A f \in Frames :
      (\A name \in Wanted : ~In(f, layout[name]))
        => TypesOf(f) = {aurix_type(t) : t \in {u \in Types : Covers(input, f, u)}}

(* Kernel, parameters and map at home in one entry part it in three each,  *)
(* and a framebuffer has one of its own; the loop adds no other, although  *)
(* the neighbours of the entry are looked at as well. So the room for five *)
(* more in the allocation is too little, by one entry or two, and by one   *)
(* more for what each insertion moves behind the last.                     *)
Added == IF layout.fb.size > 0 THEN 7 ELSE 6

EntriesAdded == look = "done" /\ Regular /\ OneHome => map.cnt = Len(mmap) + Added

(* Entries are in ascending order and do not overlap.                      *)
Ordered ==
  \A k \in 0 .. map.cnt - 2 : map.arr[k].base + map.arr[k].size <= map.arr[k + 1].base

(* The entry at which the loop stands is usable and holds the region, with *)
(* something left behind it, and there is room for two more. The code      *)
(* tests where the region begins only, and against the entry as it was     *)
(* before an earlier region split it.                                      *)
Holding(name) ==
  LET host == map.arr[map.at]
      g    == Place(name)
  IN /\ map.at < map.cnt /\ map.cnt + 2 \in DOMAIN map.arr
     /\ host \in [base : Nat, size : 0 .. SizeMod - 1, type : {"USABLE"}]
     /\ host.base <= g.base /\ g.base + g.size < host.base + host.size

(* The framebuffer goes in behind an entry of the map, and there is room.  *)
Standing ==
  map.at < map.cnt /\ map.cnt + 1 \in DOMAIN map.arr /\ layout.fb.size < SizeMod

Clean(g) == \A f \in Frames : ~In(f, g) => TypesOf(f)' = TypesOf(f)

CutIsClean(name) ==
  /\ Clean(Place(name))
  /\ Mark(name) => \A f \in Frames : In(f, Place(name)) => Kind(name) \in TypesOf(f)'
  /\ Ordered => Ordered'

(* Whatever the map and wherever the regions lie: as long as an entry      *)
(* holds the region that is cut out of it, the region's frames get its     *)
(* type, no other frame changes its own, and no frame becomes both usable  *)
(* and the kernel's. So frames are lost, by regions in descending order,   *)
(* say, only where an entry is split that does not hold the region.        *)
CutsAreClean ==
  [][/\ \A k \in DOMAIN Regions :
          look = Regions[k] /\ Holding(Regions[k]) => CutIsClean(Regions[k])
     /\ look = "framebuffer" /\ Standing => Clean(layout.fb)]_<<merge_vars, carve_vars>>
=============================================================================
