----------------------------- MODULE MemmapFetch -----------------------------
(***************************************************************************)
(* How get_memmap() of src/platform/uefi/mm/memmap.c obtains the firmware's *)
(* memory map: ask for its size, allocate, fetch, and on a buffer that is  *)
(* too small grow it and fetch again, at most MAX_TRIES times.             *)
(*                                                                         *)
(* Allocating changes the very map that is fetched, and so may the events  *)
(* that the firmware handles between two calls. Sizes are counted in       *)
(* descriptors (desc_size is 1). How many of them a step may add is chosen *)
(* with the initial state; the map may also shrink.                        *)
(***************************************************************************)
EXTENDS Integers

CONSTANTS
  MAX_TRIES,  \* rounds of the loop (10 in the source)
  Growths,    \* how the firmware may behave: the most descriptors that the
              \* first mem_alloc(), a mem_realloc() and the events behind a
              \* GetMemoryMap() add
  MaxDesc     \* bound on the length of the firmware's map

ASSUME FetchAssumption ==
  /\ MAX_TRIES \in Nat \ {0} /\ MaxDesc \in Nat \ {0}
  /\ Growths \subseteq [alloc : Nat, realloc : Nat, event : Nat]

VARIABLES
  pc,       \* the call get_memmap() makes next
  growth,   \* the one of Growths that this firmware keeps to
  fw,       \* length of the firmware's map
  efi_map,  \* capacity of the buffer, or NoBuffer for a null pointer
  size,     \* the in/out argument of GetMemoryMap()
  status,   \* what the latest GetMemoryMap() answered
  written,  \* descriptors the firmware has put into the buffer
  tries,
  owned,    \* buffers allocated and not freed
  result    \* what get_memmap() returned: 0, or the number of entries

vars == <<pc, growth, fw, efi_map, size, status, written, tries, owned, result>>

NoBuffer == -1
Calls == {"size", "alloc", "fetch", "grow", "check", "use", "loops", "done"}

Init == /\ pc = "size"
        /\ growth \in Growths /\ fw \in 1 .. MaxDesc
        /\ efi_map = NoBuffer /\ size = 0 /\ written = 0
        /\ status = "none"
        /\ tries = 0 /\ owned = 0 /\ result = 0

-----------------------------------------------------------------------------
(* The map after something that added at most n descriptors.               *)
MapChanges(n) == fw' \in {d \in 1 .. MaxDesc : d <= fw + n}

(* GetMemoryMap() with a buffer said to hold size descriptors. It trusts   *)
(* size: the buffer's true capacity is unknown to it. After a call that    *)
(* failed, the map may change before the next one.                         *)
GetMemoryMap ==
  \/ /\ size < fw
     /\ status' = "too_small" /\ size' = fw /\ UNCHANGED written
     /\ MapChanges(growth.event)
  \/ /\ size >= fw /\ efi_map = NoBuffer
     /\ status' = "invalid" /\ UNCHANGED <<size, written>>
     /\ MapChanges(growth.event)
  \/ /\ size >= fw /\ efi_map # NoBuffer
     /\ status' = "success" /\ size' = fw /\ written' = fw
     /\ UNCHANGED fw

(* The first call, with no buffer, asks for the size.                      *)
AskSize ==
  /\ pc = "size"
  /\ GetMemoryMap
  /\ pc' = "alloc"
  /\ UNCHANGED <<growth, efi_map, tries, owned, result>>

Allocate ==
  /\ pc = "alloc"
  /\ MapChanges(growth.alloc)
  /\ \/ efi_map' = size /\ written' = 0 /\ owned' = owned + 1 /\ pc' = "fetch"
     \/ pc' = "done" /\ UNCHANGED <<efi_map, written, owned>>
  /\ UNCHANGED <<growth, size, status, tries, result>>

(* Mutant: any other error goes back to the top of the loop.               *)
Fetch_retries ==
  /\ pc = "fetch"
  /\ GetMemoryMap
  /\ pc' = CASE status' = "success"   -> "use"
             [] status' = "too_small" -> "grow"
             [] OTHER                 -> "fetch"
  /\ UNCHANGED <<growth, efi_map, tries, owned, result>>

(* Top of the loop: leave with the map, grow the buffer, or give up (and   *)
(* return 0) on any other error.                                           *)
Fetch ==
  /\ pc = "fetch"
  /\ GetMemoryMap
  /\ pc' = CASE status' = "success"   -> "use"
             [] status' = "too_small" -> "grow"
             [] OTHER                 -> "done"
  /\ UNCHANGED <<growth, efi_map, tries, owned, result>>

(* Mutant: the buffer is reallocated before size is raised.                *)
Grow_early ==
  /\ pc = "grow"
  /\ MapChanges(growth.realloc)
  /\ size' = size + 2
  /\ written' = 0
  /\ efi_map' = size /\ owned' = IF efi_map = NoBuffer THEN owned + 1 ELSE owned
  /\ pc' = "check"
  /\ UNCHANGED <<growth, status, tries, result>>

(* Two more descriptors, for what the reallocation itself adds. A failed   *)
(* mem_realloc() keeps the old buffer, but its pointer is overwritten.     *)
Grow ==
  /\ pc = "grow"
  /\ MapChanges(growth.realloc)
  /\ size' = size + 2
  /\ written' = 0
  /\ \/ efi_map' = size' /\ owned' = IF efi_map = NoBuffer THEN owned + 1 ELSE owned
     \/ efi_map' = NoBuffer /\ UNCHANGED owned
  /\ pc' = "check"
  /\ UNCHANGED <<growth, status, tries, result>>

(* Mutant: no loop, the entries are used after the first check.            *)
Check_once ==
  /\ pc = "check"
  /\ GetMemoryMap
  /\ tries' = tries + 1
  /\ pc' = "use"
  /\ UNCHANGED <<growth, efi_map, owned, result>>

(* The "double check", then the loop condition.                            *)
Check ==
  /\ pc = "check"
  /\ GetMemoryMap
  /\ tries' = tries + 1
  /\ pc' = IF status' # "success" /\ tries' < MAX_TRIES THEN "fetch" ELSE "use"
  /\ UNCHANGED <<growth, efi_map, owned, result>>

(* The loop is left, whichever way, and the map in the buffer looked at.   *)
Leave ==
  /\ pc = "use"
  /\ pc' = "loops"
  /\ UNCHANGED <<growth, fw, efi_map, size, status, written, tries, owned, result>>

(* The entries are mapped and translated (module MemmapTranslate). The     *)
(* page tables and the translated map are allocated from the memory that   *)
(* the buffer describes, so the firmware's map moves on under them.        *)
Loops ==
  /\ pc = "loops"
  /\ fw' \in 1 .. MaxDesc
  /\ UNCHANGED <<pc, growth, efi_map, size, status, written, tries, owned, result>>

(* Mutant: the buffer is not freed.                                        *)
Use_keeps ==
  /\ pc = "loops"
  /\ result' = size
  /\ pc' = "done"
  /\ UNCHANGED <<growth, fw, efi_map, size, status, written, tries, owned>>

(* The buffer is freed and the number of its entries returned.             *)
Use ==
  /\ pc = "loops"
  /\ owned' = IF efi_map = NoBuffer THEN owned ELSE owned - 1
  /\ fw' \in 1 .. MaxDesc
  /\ result' = size
  /\ pc' = "done"
  /\ UNCHANGED <<growth, efi_map, size, status, written, tries>>

Done == pc = "done" /\ UNCHANGED vars

Next == AskSize \/ Allocate \/ Fetch \/ Grow \/ Check \/ Leave \/ Loops \/ Use \/ Done

Spec == Init /\ [][Next]_vars

-----------------------------------------------------------------------------
(* The firmware never writes past the end of the buffer. It relies on the  *)
(* "double check" succeeding: where that check answers "too small", size   *)
(* is left larger than the buffer for the next fetch.                      *)
NoOverrun == efi_map # NoBuffer => written <= efi_map

(* Without events, the entries that are about to be translated are the     *)
(* whole map as the firmware has it at that moment, read by a call that    *)
(* succeeded, and never a buffer that no call filled, although the loop    *)
(* ends by its count as well. (The map that the caller gets is an older    *)
(* one than the firmware's at the return: the loops allocate.)             *)
MapIsComplete ==
  growth.event = 0 /\ pc = "use" => /\ status = "success" /\ efi_map # NoBuffer
                /\ written = size /\ size = fw

(* Without events, a map that is handed to the caller leaves no firmware   *)
(* buffer behind. (With them, a mem_realloc() that failed and one that     *)
(* worked in the next round leave the first buffer allocated.)             *)
NothingLeftOnSuccess == growth.event = 0 /\ pc = "done" /\ result > 0 => owned = 0
=============================================================================
