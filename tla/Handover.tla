------------------------------ MODULE Handover ------------------------------
(***************************************************************************)
(* The end of aurix_load() (src/common/proto/aurix.c): the parameters that *)
(* come from the firmware - boot arguments, RSDP, SMBIOS -, the exit of    *)
(* the boot services (module ExitBootServices), and aurix_arch_handoff()   *)
(* of src/arch/x86_64/common/proto/aurix/handoff.c.                        *)
(*                                                                         *)
(* A configuration table of the firmware is named by its position, a value *)
(* of the boot-args variable by its length and its revision.               *)
(***************************************************************************)
EXTENDS ExitBootServices, Sequences

CONSTANTS
  TableLists,   \* kinds of the firmware's configuration tables, in order
  Lengths,      \* of boot-args; 0 if there is no such variable
  MaxChanges,   \* bound: how often boot-args changes while it is read
  Allocations   \* operand of the assembly -> register the compiler gives it

Kinds == {"acpi10", "acpi20", "smbios", "smbios3", "other"}   \* of tables
Operands == {"stack_top", "pm", "parameters", "entry"}
General == {"rbx", "rcx", "rdi", "rsi"}   \* registers operands may be in

(* All that a compiler promises of the registers is that no two operands   *)
(* share one.                                                              *)
ASSUME HandoverAssumption ==
  /\ \A list \in TableLists : list \in Seq(Kinds)
  /\ Lengths \subseteq Nat /\ MaxChanges \in Nat
  /\ Allocations \subseteq [Operands -> General]
  /\ \A a \in Allocations : \A o, p \in Operands : o # p => a[o] # a[p]

VARIABLES
  step,      \* the function that runs
  tables, i, \* the firmware's tables, and the counter of the two lookups
  bootargs,  \* the variable
  cmdline,   \* [room, text]: the block, or Null
  size,      \* of boot-args, as the first GetVariable() told it
  owned,     \* is there a block that no one has freed?
  rsdp, smbios,
  operands,  \* the allocation, once the operands are in their registers
  regs       \* registers as the kernel finds them

exit_vars == vars
handover_vars == <<step, tables, i, bootargs, cmdline, size, owned, rsdp, smbios,
                   operands, regs>>

Null == [room |-> 0, text |-> [len |-> 0, rev |-> 0]]

HandoverInit ==
  /\ Init
  /\ step = "length" /\ tables \in TableLists /\ i = 1
  /\ bootargs \in [len : Lengths, rev : {1}]
  /\ cmdline = Null /\ size = 0 /\ owned = FALSE
  /\ rsdp = 0 /\ smbios = 0
  /\ operands = << >>
  /\ regs = [r \in General \union {"rsp", "cr3"} |-> "loader's"]

-----------------------------------------------------------------------------
(* aurix_get_cmdline().                                                    *)

(* An event of the firmware sets or deletes the variable.                  *)
BootargsChange ==
  /\ step \in {"alloc", "read"} /\ bootargs.rev <= MaxChanges
  /\ bootargs' \in [len : Lengths, rev : {bootargs.rev + 1}]
  /\ UNCHANGED <<exit_vars, step, tables, i, cmdline, size, owned, rsdp, smbios, operands, regs>>

(* GetVariable() without a buffer tells the length. Any other error, one   *)
(* of the firmware's own or that there is no variable, ends the function.  *)
ReadLength ==
  /\ step = "length"
  /\ \/ bootargs.len > 0 /\ size' = bootargs.len /\ step' = "alloc"
     \/ step' = "rsdp" /\ UNCHANGED size
  /\ UNCHANGED <<exit_vars, tables, i, bootargs, cmdline, owned, rsdp, smbios, operands, regs>>

AllocCmdline ==
  /\ step = "alloc"
  /\ \/ cmdline' = [Null EXCEPT !.room = size] /\ owned' = TRUE /\ step' = "read"
     \/ step' = "rsdp" /\ UNCHANGED <<cmdline, owned>>
  /\ UNCHANGED <<exit_vars, tables, i, bootargs, size, rsdp, smbios, operands, regs>>

(* Mutant: the variable is taken to be what it was.                        *)
ReadCmdline_unbounded ==
  /\ step = "read"
  /\ cmdline' = [cmdline EXCEPT !.text = bootargs]
  /\ step' = "rsdp"
  /\ UNCHANGED <<exit_vars, tables, i, bootargs, size, owned, rsdp, smbios, operands, regs>>

(* The second call gets what is there by now, if it fits.                  *)
ReadCmdline ==
  /\ step = "read"
  /\ \/ /\ bootargs.len \in 1 .. size
        /\ cmdline' = [cmdline EXCEPT !.text = bootargs]
        /\ UNCHANGED owned
     \/ cmdline' = Null /\ owned' = FALSE
  /\ step' = "rsdp"
  /\ UNCHANGED <<exit_vars, tables, i, bootargs, size, rsdp, smbios, operands, regs>>

-----------------------------------------------------------------------------
(* platform_get_rsdp() and platform_get_smbios(): an older table is noted  *)
(* and overwritten by later ones, a newer one ends the search.             *)
platform_get_rsdp ==
  /\ step = "rsdp"
  /\ IF i > Len(tables) THEN step' = "smbios" /\ i' = 1 /\ UNCHANGED rsdp
     ELSE /\ rsdp' = IF tables[i] \in {"acpi10", "acpi20"} THEN i ELSE rsdp
          /\ IF tables[i] = "acpi20" THEN step' = "smbios" /\ i' = 1
                                     ELSE i' = i + 1 /\ UNCHANGED step
  /\ UNCHANGED <<exit_vars, tables, bootargs, cmdline, size, owned, smbios, operands, regs>>

platform_get_smbios ==
  /\ step = "smbios"
  /\ IF i > Len(tables) THEN step' = "exit" /\ UNCHANGED <<i, smbios>>
     ELSE /\ smbios' = IF tables[i] \in {"smbios", "smbios3"} THEN i ELSE smbios
          /\ IF tables[i] = "smbios3" THEN step' = "exit" /\ UNCHANGED i
                                      ELSE i' = i + 1 /\ UNCHANGED step
  /\ UNCHANGED <<exit_vars, tables, bootargs, cmdline, size, owned, rsdp, operands, regs>>

-----------------------------------------------------------------------------
uefi_exit_bs == step = "exit" /\ Loader /\ UNCHANGED handover_vars
FirmwareEvent == step = "exit" /\ Event /\ UNCHANGED handover_vars

(* Mutant: the entry is loaded first.                                      *)
Moves_entry_first(a) ==
  << <<"rsp", a.stack_top>>, <<"cr3", a.pm>>, <<"rsi", a.entry>>, <<"rdi", a.parameters>> >>

(* The assembly, whose operands lie in registers that it also writes to    *)
(* and of which it declares only rax: destination and source of each move. *)
Moves(a) ==
  << <<"rsp", a.stack_top>>, <<"cr3", a.pm>>, <<"rdi", a.parameters>>, <<"rsi", a.entry>> >>

Move(r, m) == [r EXCEPT ![m[1]] = r[m[2]]]
Loaded(a) ==
  [r \in DOMAIN regs |-> IF \E o \in Operands : a[o] = r
                         THEN CHOOSE o \in Operands : a[o] = r ELSE regs[r]]

(* aurix_arch_handoff(): the moves, the cleared registers, and the call of *)
(* what is in rsi.                                                         *)
aurix_arch_handoff ==
  /\ step = "exit" /\ pc = "handoff"
  /\ \E a \in Allocations :
       LET m == Moves(a)
           r == Move(Move(Move(Move(Loaded(a), m[1]), m[2]), m[3]), m[4])
       IN  regs' = [r EXCEPT !["rbx"] = "0", !["rcx"] = "0"] /\ operands' = a
  /\ step' = IF regs'["rsi"] = "entry" THEN "kernel" ELSE "lost"
  /\ UNCHANGED <<exit_vars, tables, i, bootargs, cmdline, size, owned, rsdp, smbios>>

Over == (step \in {"kernel", "lost"} \/ pc = "reboot") /\ UNCHANGED <<exit_vars, handover_vars>>

aurix_get_cmdline == ReadLength \/ AllocCmdline \/ ReadCmdline
aurix_load == aurix_get_cmdline \/ platform_get_rsdp \/ platform_get_smbios
              \/ uefi_exit_bs \/ aurix_arch_handoff

HandoverNext == aurix_load \/ BootargsChange \/ FirmwareEvent \/ Over

HandoverSpec == HandoverInit /\ [][HandoverNext]_<<exit_vars, handover_vars>>

(* The loader's thread runs whenever it can; events need not happen.       *)
FairHandoverSpec == HandoverSpec /\ WF_<<exit_vars, handover_vars>>(aurix_load)

-----------------------------------------------------------------------------
LastIndex(kind) == LET at == {n \in DOMAIN tables : tables[n] = kind}
                   IN  IF at = {} THEN 0 ELSE CHOOSE n \in at : \A k \in at : k <= n
FirstIndex(kind) == LET at == {n \in DOMAIN tables : tables[n] = kind}
                    IN  CHOOSE n \in at : \A k \in at : n <= k
Preferred(new, old) ==
  IF \E n \in DOMAIN tables : tables[n] = new THEN FirstIndex(new) ELSE LastIndex(old)

(* Each step of the loader's own brings it to a later function or closer   *)
(* to the end of one, past a table or a half of a try, whatever events the *)
(* firmware handles in between.                                            *)
Stage == [length |-> 6, alloc |-> 5, read |-> 4, rsdp |-> 3, smbios |-> 2, exit |-> 1,
          kernel |-> 0, lost |-> 0][step]
Left ==
  LET rounds == 2 * (EXIT_BS_MAX_TRIES + 1 - tries) IN
  IF step \in {"exit", "kernel", "lost"}
  THEN [get_map |-> rounds, exit |-> rounds + 1, handoff |-> 0, reboot |-> 0][pc]
  ELSE Len(tables) + 1 - i

Closer == /\ Left' \in Nat
          /\ Stage' < Stage \/ (Stage' = Stage /\ Left' < Left)
LoaderAdvances ==
  [][bootargs' = bootargs /\ key' = key => Closer]_<<exit_vars, handover_vars>>

(* What the kernel is told of the firmware is right: the tables of the     *)
(* newer version wherever they stand, and boot arguments that one call has *)
(* read whole into a block with room for them, although the variable may   *)
(* have grown or gone since its length was asked for - or none, and then   *)
(* no block stays behind.                                                  *)
ParametersAreRight ==
  step \in {"exit", "kernel", "lost"} =>
    /\ rsdp = Preferred("acpi20", "acpi10") /\ smbios = Preferred("smbios3", "smbios")
    /\ cmdline.text.len <= cmdline.room
    /\ cmdline # Null => cmdline.text = bootargs
    /\ owned <=> cmdline # Null

(* Whichever registers the compiler has put the operands into, the stack,  *)
(* the page tables and the parameters are the kernel's after the moves, and *)
(* the boot services are gone. It is the kernel's entry that is called     *)
(* exactly if that was not in rdi, which is written to before the entry is *)
(* read: nothing tells the compiler so, and with it there the parameters   *)
(* are called.                                                             *)
KernelGetsItsOperands ==
  step \in {"kernel", "lost"} =>
    /\ services = "exited"
    /\ regs = [rsp |-> "stack_top", cr3 |-> "pm", rdi |-> "parameters",
               rsi |-> IF operands["entry"] = "rdi" THEN "parameters" ELSE "entry",
               rbx |-> "0", rcx |-> "0"]
    /\ step = "kernel" <=> operands["entry"] # "rdi"
=============================================================================
