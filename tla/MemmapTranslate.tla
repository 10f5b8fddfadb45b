--------------------------- MODULE MemmapTranslate ---------------------------
(***************************************************************************)
(* All of get_memmap() of src/platform/uefi/mm/memmap.c: the fetch (module *)
(* MemmapFetch) and, between its steps Check and Use, what is done with    *)
(* the firmware's map, or with what the buffer holds when the fetch was    *)
(* given up. The memory is identity-mapped into the page table of the      *)
(* kernel, then the map is translated entry by entry. Both loops count     *)
(* with i and walk the descriptors with a cursor of their own.             *)
(*                                                                         *)
(* Addresses and sizes are in page frames.                                 *)
(***************************************************************************)
EXTENDS MemmapFetch, Sequences, EfiMemoryType

CONSTANTS
  Frames,     \* frames that descriptors may speak of
  Contents,   \* what a map of n descriptors may say: Contents[n]
  Junk        \* what may be read as n descriptors from memory that was never
              \* filled, or from address 0

FramesOf(base, size_) == base .. base + size_ - 1

Descriptors == [start : Nat, pages : Nat, type : STRING]

(* Firmware reports no frame twice. It should not report empty descriptors *)
(* either, but the code looks for them. Junk may say anything.             *)
ASSUME TranslateAssumption ==
  \A n \in 1 .. MaxDesc + 2 :
    /\ \A m \in Contents[n] \union Junk[n] :
         /\ m \in Seq(Descriptors) /\ Len(m) = n
         /\ \A k \in 1 .. n : FramesOf(m[k].start, m[k].pages) \subseteq Frames
    /\ \A m \in Contents[n] : \A j, k \in 1 .. n : j # k =>
         FramesOf(m[j].start, m[j].pages) \intersect FramesOf(m[k].start, m[k].pages) = {}

VARIABLES
  entries,    \* what the buffer holds
  pm,         \* frame -> flags of the page it is mapped to
  map,        \* the translated map
  phase,      \* "fetch", one of the loops, or how the function ended
  i,          \* counter of both loops
  cur_entry   \* the descriptor under the cursor

fetch_vars == vars
translate_vars == <<entries, pm, map, phase, i, cur_entry>>

Blank == [base |-> 0, size |-> 0, type |-> "Reserved"]  \* what memset() leaves

-----------------------------------------------------------------------------
GetInit == /\ Init
           /\ entries = << >>
           /\ pm = [f \in Frames |-> {}]
           /\ map = << >>
           /\ phase = "fetch" /\ i = 0 /\ cur_entry = 1

entry_count == Len(entries)
d == entries[cur_entry]

(* The calls before the loops. Every return among them is a failure.       *)
FetchStep ==
  /\ phase = "fetch"
  /\ AskSize \/ Allocate \/ Fetch \/ Grow \/ Check
  /\ phase' = IF pc' = "done" THEN "done" ELSE "fetch"
  /\ UNCHANGED <<entries, pm, map, i, cur_entry>>

(* The loop over the buffer begins, whichever way the fetch was left. When *)
(* it was given up, the pointer is null or the buffer was never filled.    *)
Enter ==
  /\ phase = "fetch"
  /\ Leave
  /\ \/ status = "success" /\ entries' \in Contents[size] /\ phase' = "map"
     \/ status # "success" /\ entries' \in Junk[size] /\ phase' = "map"
     \/ status # "success" /\ phase' = "fault" /\ UNCHANGED entries
  /\ UNCHANGED <<pm, map, i, cur_entry>>

(* One round of the first loop: map_pages() of the descriptor, which       *)
(* allocates page tables.                                                  *)
MapEntry ==
  /\ phase = "map" /\ i < entry_count
  /\ Loops
  /\ pm' = [f \in Frames |-> IF f \in FramesOf(d.start, d.pages) THEN MapFlags(d.type)
                             ELSE pm[f]]
  /\ i' = i + 1
  /\ cur_entry' = cur_entry + 1
  /\ UNCHANGED <<entries, map, phase>>

(* Allocate and clear the translated map. A failure is not noticed before  *)
(* address 0 is cleared.                                                   *)
AllocMap ==
  /\ phase = "map" /\ i = entry_count
  /\ Loops
  /\ \/ map' = [k \in 1 .. entry_count |-> Blank] /\ phase' = "translate"
     \/ phase' = "fault" /\ UNCHANGED map
  /\ i' = 0 /\ cur_entry' = 1
  /\ UNCHANGED <<entries, pm>>

(* Mutant: the cursor is advanced before the descriptor is read.           *)
TranslateEntry_next ==
  /\ phase = "translate" /\ i < entry_count
  /\ LET n == entries[IF cur_entry < entry_count THEN cur_entry + 1 ELSE cur_entry]
     IN  map' = [map EXCEPT ![i + 1] = [base |-> n.start, size |-> n.pages,
                                        type |-> efi_type_to_axboot(n.type)]]
  /\ cur_entry' = cur_entry + 1
  /\ i' = i + 1
  /\ UNCHANGED <<fetch_vars, entries, pm, phase>>

(* One round of the second loop. An empty descriptor is passed over by     *)
(* continue, with the cursor left where it is.                             *)
TranslateEntry ==
  /\ phase = "translate" /\ i < entry_count
  /\ IF d.pages = 0
       THEN UNCHANGED <<map, cur_entry>>
       ELSE /\ map' = [map EXCEPT ![i + 1] = [base |-> d.start, size |-> d.pages,
                                              type |-> efi_type_to_axboot(d.type)]]
            /\ cur_entry' = cur_entry + 1
  /\ i' = i + 1
  /\ UNCHANGED <<fetch_vars, entries, pm, phase>>

Return ==
  /\ phase = "translate" /\ i = entry_count
  /\ Use
  /\ phase' = "done"
  /\ UNCHANGED <<entries, pm, map, i, cur_entry>>

Over == phase \in {"done", "fault"} /\ UNCHANGED <<fetch_vars, translate_vars>>

GetNext == FetchStep \/ Enter \/ MapEntry \/ AllocMap \/ TranslateEntry \/ Return \/ Over

GetSpec == GetInit /\ [][GetNext]_<<fetch_vars, translate_vars>>

(* One thread, and every firmware call returns.                            *)
FairGetSpec == GetSpec /\ WF_<<fetch_vars, translate_vars>>(GetNext)

-----------------------------------------------------------------------------
(* The type the firmware's map, and the translated map, give to a frame.   *)
EfiTypeOf(f) == {entries[k].type : k \in {k \in 1 .. entry_count :
                   f \in FramesOf(entries[k].start, entries[k].pages)}}
TypeOf(f) == {map[k].type : k \in {k \in 1 .. Len(map) :
                   f \in FramesOf(map[k].base, map[k].size)}}

Mapped == result > 0

(* get_memmap() ends, however the map changes under it.                    *)
Returns == <>(phase \in {"done", "fault"})

(* Each step of get_memmap() brings it to a later phase or closer to the   *)
(* end of one: a round of the fetch is three calls, of which MAX_TRIES are *)
(* made at most, and a loop over the map ends at its last descriptor, for  *)
(* however long a map the firmware has by then.                            *)
Stage == [fetch |-> 3, map |-> 2, translate |-> 1, done |-> 0, fault |-> 0][phase]
Left ==
  LET rounds == 3 * (MAX_TRIES - tries) IN
  IF phase = "fetch"
  THEN [size |-> rounds + 2, alloc |-> rounds + 1, fetch |-> rounds, grow |-> rounds - 1,
        check |-> rounds - 2, use |-> 0][pc]
  ELSE entry_count - i

Closer == /\ Left' \in Nat
          /\ Stage' < Stage \/ (Stage' = Stage /\ Left' < Left)
GetAdvances == [][Closer]_<<fetch_vars, translate_vars>>

(* The descriptors that the second loop reads: those before the first      *)
(* empty one, where its cursor stays.                                      *)
Read == {k \in 1 .. entry_count : \A j \in 1 .. k : entries[j].pages > 0}

(* The translated map has as many entries as the caller is told, and says  *)
(* of every frame what the descriptors before the first empty one say of   *)
(* it, and nothing of any other frame. Without events, these descriptors   *)
(* are the ones the firmware wrote, all of them, in a call that succeeded. *)
MapIsTranslated ==
  Mapped => /\ Len(map) = result
            /\ growth.event = 0 => status = "success" /\ written = result
            /\ \A f \in Frames : TypeOf(f) =
                 {efi_type_to_axboot(entries[k].type) : k \in {k \in Read :
                    f \in FramesOf(entries[k].start, entries[k].pages)}}

(* Two tables of types, written apart, agree, when the fetch succeeded.    *)
(* Memory that is handed over as usable is mapped and writable in the page *)
(* table that is handed over with it (except EfiPalCode, a type of Itanium *)
(* firmware, on which they disagree); and memory that the firmware's       *)
(* runtime services need is neither called usable nor mapped.              *)
UsableIsMapped ==
  Mapped /\ status = "success" => \A f \in Frames :
    /\ "Usable" \in TypeOf(f) /\ "PalCode" \notin EfiTypeOf(f) =>
         {"present", "writable"} \subseteq pm[f]
    /\ EfiTypeOf(f) \intersect {"RuntimeServicesCode", "RuntimeServicesData"} # {} =>
         "Usable" \notin TypeOf(f) /\ pm[f] = {}
=============================================================================
