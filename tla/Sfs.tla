--------------------------------- MODULE Sfs ---------------------------------
(***************************************************************************)
(* Files: sfs_read() and sfs_write() of src/common/fs/uefi_sfs.c, which    *)
(* vfs_read() and vfs_write() (src/common/vfs/vfs.c) pass every call to.   *)
(*                                                                         *)
(* One action is one call to the firmware or to the allocator, any of      *)
(* which may fail. The content of a file is abstracted to its length.      *)
(***************************************************************************)
EXTENDS Integers

CONSTANTS
  Files,      \* names the callers use
  MaxLen,     \* bound on the length of a file
  Buffers     \* what callers may pass in *buffer: "NULL", "caller's"

ASSUME SfsAssumption == MaxLen \in Nat \ {0} /\ Buffers \subseteq {"NULL", "caller's"}

VARIABLES
  disk,     \* file -> its length, or Absent
  pc,       \* next call of the function, or "idle" outside it
  op, file, \* the call in progress, or the latest one
  given,    \* what *buffer was when it was made
  buffer,   \* the caller's *buffer: "NULL", "caller's" or "block"
  handle,   \* the function's file: "closed" or "open"
  owned,    \* blocks it allocated and did not free
  len,      \* length of the file, as the firmware told it
  total_read,
  status,   \* answer of the latest firmware call: "ok" or "error"
  returned

sfs_vars == <<disk, pc, op, file, given, buffer, handle, owned, len, total_read, status, returned>>
data == <<disk, op, file, given, len, total_read>>

Absent == -1

SfsInit ==
  /\ disk \in [Files -> {Absent} \union 0 .. MaxLen]
  /\ pc = "idle" /\ op = "read" /\ file \in Files
  /\ given = "NULL" /\ buffer = "NULL" /\ handle = "closed" /\ owned = {}
  /\ len = 0 /\ total_read = 0 /\ status = "ok" /\ returned = 0

-----------------------------------------------------------------------------
(* A call. The caller has disposed of the buffer of the call before.       *)
Call(o, f, b) ==
  /\ pc = "idle"
  /\ op' = o /\ file' = f /\ given' = b /\ buffer' = b
  /\ handle' = "closed" /\ owned' = {}
  /\ len' = 0 /\ total_read' = 0 /\ status' = "ok" /\ returned' = 0
  /\ pc' = "widen"
  /\ UNCHANGED disk

(* The function returns n, with the blocks keep still allocated.           *)
Return(n, keep) == pc' = "idle" /\ returned' = n /\ owned' = keep
Close == handle' = "closed"

(* The name is copied into wide characters.                                *)
Widen ==
  /\ pc = "widen"
  /\ \/ pc' = "open" /\ owned' = owned \union {"wfilename"} /\ UNCHANGED returned
     \/ Return(0, owned)
  /\ UNCHANGED <<data, buffer, handle, status>>

(* Open() creates a file only for a writer; the name is freed either way.  *)
Open ==
  /\ pc = "open"
  /\ \/ /\ op = "write" \/ disk[file] # Absent
        /\ status' = "ok" /\ handle' = "open" /\ owned' = owned \ {"wfilename"}
        /\ disk' = [disk EXCEPT ![file] = IF disk[file] = Absent THEN 0 ELSE disk[file]]
        /\ pc' = IF op = "read" THEN "info_size" ELSE "write"
        /\ UNCHANGED returned
     \/ /\ status' = "error" /\ Return(0, owned \ {"wfilename"})
        /\ UNCHANGED <<disk, handle>>
  /\ UNCHANGED <<op, file, given, len, total_read, buffer>>

(* GetInfo() without a buffer is expected to ask for one.                  *)
InfoSize ==
  /\ pc = "info_size"
  /\ \/ status' = "ok" /\ pc' = "info_alloc" /\ UNCHANGED <<returned, owned, handle>>
     \/ status' = "error" /\ Return(0, owned) /\ Close
  /\ UNCHANGED <<data, buffer>>

InfoAlloc ==
  /\ pc = "info_alloc"
  /\ \/ pc' = "info" /\ owned' = owned \union {"fileinfo"} /\ UNCHANGED <<returned, handle>>
     \/ Return(0, owned) /\ Close
  /\ UNCHANGED <<data, buffer, status>>

(* Mutant: the file info is freed on the error path only.                  *)
Info_keeps ==
  /\ pc = "info"
  /\ \/ /\ status' = "ok" /\ len' = disk[file]
        /\ IF disk[file] = 0
           THEN Return(0, owned) /\ Close /\ buffer' = "NULL"
           ELSE /\ pc' = "alloc"
                /\ UNCHANGED <<returned, owned, handle, buffer>>
     \/ /\ status' = "error" /\ Return(0, owned \ {"fileinfo"}) /\ Close
        /\ UNCHANGED <<len, buffer>>
  /\ UNCHANGED <<disk, op, file, given, total_read>>

(* An empty file is not read, and looks like a failure.                    *)
Info ==
  /\ pc = "info"
  /\ \/ /\ status' = "ok" /\ len' = disk[file]
        /\ IF disk[file] = 0
           THEN Return(0, owned \ {"fileinfo"}) /\ Close /\ buffer' = "NULL"
           ELSE /\ pc' = "alloc" /\ owned' = owned \ {"fileinfo"}
                /\ UNCHANGED <<returned, handle, buffer>>
     \/ /\ status' = "error" /\ Return(0, owned \ {"fileinfo"}) /\ Close
        /\ UNCHANGED <<len, buffer>>
  /\ UNCHANGED <<disk, op, file, given, total_read>>

(* What *buffer held is overwritten, also by a failed allocation.          *)
Alloc ==
  /\ pc = "alloc"
  /\ \/ /\ pc' = "read" /\ buffer' = "block" /\ owned' = owned \union {"buffer"}
        /\ UNCHANGED <<returned, handle>>
     \/ Return(0, owned) /\ Close /\ buffer' = "NULL"
  /\ UNCHANGED <<data, status>>

Closing == handle' = "closed" /\ UNCHANGED <<disk, op, file, given, len>>

(* Read() failed, or delivered nothing.                                    *)
ReadFails ==
  /\ pc = "read"
  /\ status' \in {"ok", "error"}
  /\ Return(0, owned \ {"buffer"}) /\ buffer' = "NULL"
  /\ Closing /\ UNCHANGED total_read

(* Mutant: a part that was delivered ends the reading.                     *)
Read_once(n) ==
  /\ pc = "read" /\ n <= len - total_read
  /\ status' = "ok"
  /\ total_read' = total_read + n
  /\ Return(total_read', owned) /\ Closing
  /\ UNCHANGED buffer

(* Mutant: every round asks for the whole file again.                      *)
Read_restarts(n) ==
  /\ pc = "read" /\ n <= len - total_read
  /\ status' = "ok"
  /\ total_read' = n
  /\ IF total_read' < len
     THEN UNCHANGED <<pc, returned, owned, handle, disk, op, file, given, len>>
     ELSE Return(total_read', owned) /\ Closing
  /\ UNCHANGED buffer

(* Read() delivers n bytes, perhaps fewer than it was asked for.           *)
Read(n) ==
  /\ pc = "read" /\ n <= len - total_read
  /\ status' = "ok"
  /\ total_read' = total_read + n
  /\ IF total_read' < len
     THEN UNCHANGED <<pc, returned, owned, handle, disk, op, file, given, len>>
     ELSE Return(total_read', owned) /\ Closing
  /\ UNCHANGED buffer

(* The bytes are appended. A failed Write() leaves the file open; and a    *)
(* write that worked returns len, which is 0 as well.                      *)
Write ==
  /\ pc = "write"
  /\ \/ /\ status' = "ok" /\ disk[file] < MaxLen
        /\ disk' = [disk EXCEPT ![file] = disk[file] + 1]
        /\ Close
     \/ status' = "error" /\ UNCHANGED <<disk, handle>>
  /\ Return(0, owned)
  /\ UNCHANGED <<op, file, given, len, total_read, buffer>>

SfsStep ==
  \/ Widen \/ Open \/ InfoSize \/ InfoAlloc \/ Info \/ Alloc \/ ReadFails \/ Write
  \/ \E n \in 1 .. MaxLen : Read(n)

SfsNext ==
  \/ SfsStep
  \/ \E o \in {"read", "write"}, f \in Files, b \in Buffers : Call(o, f, b)

SfsSpec == SfsInit /\ [][SfsNext]_sfs_vars

(* Firmware calls return.                                                  *)
FairSfsSpec == SfsSpec /\ WF_sfs_vars(SfsStep)

-----------------------------------------------------------------------------
(* Type invariant; no more is read than the block has room for.            *)
TypeOK ==
  /\ disk \in [Files -> {Absent} \union 0 .. MaxLen]
  /\ pc \in {"idle", "widen", "open", "info_size", "info_alloc", "info", "alloc",
             "read", "write"}
  /\ op \in {"read", "write"} /\ file \in Files
  /\ given \in Buffers \union {"NULL"} /\ buffer \in {"NULL", "caller's", "block"}
  /\ handle \in {"closed", "open"}
  /\ owned \subseteq {"wfilename", "fileinfo", "buffer"}
  /\ len \in 0 .. MaxLen /\ total_read \in 0 .. len /\ returned \in 0 .. MaxLen
  /\ status \in {"ok", "error"}

(* A read that is called as vfs.h:44 asks, without a buffer, hands over a  *)
(* block with the whole file, however the firmware cuts it up, or returns  *)
(* 0 and no block.                                                         *)
ReadAllOrNothing ==
  pc = "idle" /\ op = "read" /\ given = "NULL" =>
    \/ (returned > 0 /\ returned = disk[file] /\ total_read = returned /\ buffer = "block")
    \/ (returned = 0 /\ buffer = "NULL")

(* vfs.h:44, "Passing a non-NULL value will result in an error." It is     *)
(* overwritten instead, and the read succeeds.                             *)
BufferIsRefused == pc = "idle" /\ op = "read" /\ given # "NULL" => returned = 0

(* Whichever of the calls fails, the function leaves nothing behind but    *)
(* the block it hands over - except for the file of a write that failed.   *)
NothingLeft ==
  pc = "idle" =>
    /\ owned = IF buffer = "block" THEN {"buffer"} ELSE {}
    /\ handle = "open" => op = "write" /\ status = "error"

(* Each step brings the function closer to its return, by one of the six   *)
(* before the reading or by bytes that are read: a file of len bytes takes *)
(* at most len + 6 of them, however small the parts that it comes in.      *)
Left ==
  IF pc = "read" THEN len - total_read
  ELSE [widen |-> MaxLen + 6, open |-> MaxLen + 5, info_size |-> MaxLen + 4,
        info_alloc |-> MaxLen + 3, info |-> MaxLen + 2, alloc |-> MaxLen + 1,
        write |-> 1, idle |-> 0][pc]

CallAdvances == [][pc # "idle" => Left' \in 0 .. Left - 1]_sfs_vars

(* Every call returns.                                                     *)
Returns == pc # "idle" ~> pc = "idle"
=============================================================================
