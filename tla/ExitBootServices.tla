-------------------------- MODULE ExitBootServices --------------------------
(***************************************************************************)
(* uefi_exit_bs() of src/platform/uefi/entry.c, which aurix_load() calls   *)
(* last before it hands over to the kernel (src/common/proto/aurix.c).     *)
(*                                                                         *)
(* ExitBootServices() wants the key of the current memory map. The events  *)
(* that the firmware handles between GetMemoryMap() and that call change   *)
(* the map, and so the key; the loader then starts over.                   *)
(***************************************************************************)
EXTENDS Integers

CONSTANTS
  EXIT_BS_MAX_TRIES,  \* 10 in the source
  KeyWithTooSmall,    \* does the firmware give the key with BUFFER_TOO_SMALL?
  MaxEvents,          \* bound: events that change the memory map
  MaxErrors           \* bound: calls that fail for another reason

ASSUME ExitAssumption ==
  /\ EXIT_BS_MAX_TRIES \in Nat \ {0}
  /\ KeyWithTooSmall \in BOOLEAN
  /\ MaxEvents \in Nat /\ MaxErrors \in Nat

VARIABLES
  pc,        \* the call the loader makes next, or where it ended
  key,       \* key of the firmware's memory map: raised by every change
  map_key,   \* the loader's copy
  tries,
  errors,    \* calls that failed although the key was right, or that gave none
  services   \* boot services: "running" or "exited"

vars == <<pc, key, map_key, tries, errors, services>>

Init == /\ pc = "get_map" /\ key = 1 /\ map_key = 0
        /\ tries = 0 /\ errors = 0 /\ services = "running"

-----------------------------------------------------------------------------
(* The firmware handles an event that changes its memory map.              *)
Event == /\ services = "running" /\ pc \in {"get_map", "exit"}
         /\ key <= MaxEvents
         /\ key' = key + 1
         /\ UNCHANGED <<pc, map_key, tries, errors, services>>

(* Mutant: the loop ends one try early.                                    *)
AfterFailure_early(try) == IF try < EXIT_BS_MAX_TRIES - 1 THEN "get_map" ELSE "reboot"

(* A failed try: continue goes to the condition of the do-while, and after *)
(* the last try status still holds the error.                              *)
AfterFailure(try) == IF try <= EXIT_BS_MAX_TRIES THEN "get_map" ELSE "reboot"

(* One try, first half: forget the old key and ask for the current one,    *)
(* with no buffer, so that the expected answer is BUFFER_TOO_SMALL. Any    *)
(* other error ends the try.                                               *)
GetMemoryMap ==
  /\ pc = "get_map"
  /\ tries' = tries + 1
  /\ \/ /\ map_key' = IF KeyWithTooSmall THEN key ELSE 0
        /\ pc' = "exit"
        /\ UNCHANGED errors
     \/ /\ errors < MaxErrors
        /\ errors' = errors + 1
        /\ map_key' = 0
        /\ pc' = AfterFailure(tries')
  /\ UNCHANGED <<key, services>>

(* Mutant: the answer of ExitBootServices() is not looked at.              *)
ExitBS_unchecked ==
  /\ pc = "exit"
  /\ services' = IF map_key = key THEN "exited" ELSE "running"
  /\ pc' = "handoff"
  /\ UNCHANGED <<key, map_key, tries, errors>>

(* Mutant: a failed exit is repeated with the same key.                    *)
ExitBS_same_key ==
  /\ pc = "exit"
  /\ services' = IF map_key = key THEN "exited" ELSE "running"
  /\ pc' = IF map_key = key THEN "handoff" ELSE "exit"
  /\ UNCHANGED <<key, map_key, tries, errors>>

(* One try, second half: it succeeds exactly with the current key, unless  *)
(* the firmware fails for a reason of its own.                             *)
ExitBS ==
  /\ pc = "exit"
  /\ \/ map_key = key /\ services' = "exited" /\ pc' = "handoff" /\ UNCHANGED errors
     \/ map_key # key /\ pc' = AfterFailure(tries) /\ UNCHANGED <<errors, services>>
     \/ /\ map_key = key /\ errors < MaxErrors
        /\ errors' = errors + 1
        /\ pc' = AfterFailure(tries)
        /\ UNCHANGED services
  /\ UNCHANGED <<key, map_key, tries>>

(* aurix_arch_handoff() and platform_reboot() do not come back.            *)
Ended == pc \in {"handoff", "reboot"} /\ UNCHANGED vars

Loader == GetMemoryMap \/ ExitBS

Next == Event \/ Loader \/ Ended

Spec == Init /\ [][Next]_vars

-----------------------------------------------------------------------------
(* Type invariant; the body of the loop runs at most once more than        *)
(* EXIT_BS_MAX_TRIES.                                                      *)
TypeOK ==
  /\ pc \in {"get_map", "exit", "handoff", "reboot"}
  /\ key \in 1 .. MaxEvents + 1 /\ map_key \in 0 .. key
  /\ tries \in 0 .. EXIT_BS_MAX_TRIES + 1
  /\ errors \in 0 .. MaxErrors
  /\ services \in {"running", "exited"}

(* The kernel is entered exactly when boot services are gone, and they     *)
(* went with the memory map as it then was.                                *)
HandoffAfterExit ==
  /\ pc = "handoff" <=> services = "exited"
  /\ services = "exited" => map_key = key

(* The machine is rebooted only after something went wrong in each of the  *)
(* EXIT_BS_MAX_TRIES + 1 rounds: a round that neither an event nor an      *)
(* error disturbs boots, so fewer disturbances never cost the boot.        *)
RebootNeedsRaces == pc = "reboot" => (key - 1) + errors > EXIT_BS_MAX_TRIES

(* It ends, in the kernel or in a reboot.                                  *)
Ends == <>(pc \in {"handoff", "reboot"})
=============================================================================
