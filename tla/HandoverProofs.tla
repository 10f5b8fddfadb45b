--------------------------- MODULE HandoverProofs ---------------------------
(***************************************************************************)
(* Proofs about ExitBootServices for every number of tries, events and     *)
(* errors, and about Handover, which is shown to implement it, for every   *)
(* list of firmware tables, every course of boot-args and every allocation *)
(* of registers.                                                           *)
(***************************************************************************)
EXTENDS Handover, TLAPS

Disturbances == (key - 1) + errors

(* Each failed try has a disturbance of its own: an event that made the    *)
(* copied key stale, or an error.                                          *)
IInv ==
  /\ pc \in {"get_map", "exit", "handoff", "reboot"}
  /\ key \in Nat \ {0} /\ map_key \in Nat /\ tries \in Nat /\ errors \in Nat
  /\ services \in {"running", "exited"}
  /\ key <= MaxEvents + 1 /\ map_key <= key
  /\ tries <= EXIT_BS_MAX_TRIES + 1 /\ errors <= MaxErrors
  /\ pc = "get_map" => tries <= EXIT_BS_MAX_TRIES
  /\ services = "exited" <=> pc = "handoff"
  /\ pc = "handoff" => map_key = key

RInv ==
  /\ IInv
  /\ pc = "get_map" => tries <= Disturbances
  /\ pc = "exit" => tries <= Disturbances + (IF map_key = key THEN 1 ELSE 0)
  /\ RebootNeedsRaces

LEMMA InitIInv == Init => IInv
BY ExitAssumption DEF Init, IInv

LEMMA NextIInv == IInv /\ [Next]_vars => IInv'
<1>1. SUFFICES ASSUME IInv, [Next]_vars  PROVE IInv'
  OBVIOUS
<1> USE ExitAssumption DEF IInv
<1>2. CASE Event
  BY <1>1, <1>2 DEF Event
<1>3. CASE GetMemoryMap
  BY <1>1, <1>3 DEF GetMemoryMap, AfterFailure
<1>4. CASE ExitBS
  BY <1>1, <1>4 DEF ExitBS, AfterFailure
<1>5. CASE Ended \/ UNCHANGED vars
  BY <1>1, <1>5 DEF Ended, vars
<1>6. QED
  BY <1>1, <1>2, <1>3, <1>4, <1>5 DEF Next, Loader

(* Types, and the bound on the number of tries.                            *)
THEOREM TypeCorrect == Spec => []TypeOK
<1>1. IInv => TypeOK
  BY ExitAssumption DEF IInv, TypeOK
<1>2. QED
  BY <1>1, InitIInv, NextIInv, PTL DEF Spec

(* The kernel is entered exactly after boot services were left with the    *)
(* key of the memory map as it was then.                                   *)
THEOREM HandoffIsSafe == Spec => []HandoffAfterExit
<1>1. IInv => HandoffAfterExit
  BY DEF IInv, HandoffAfterExit
<1>2. QED
  BY <1>1, InitIInv, NextIInv, PTL DEF Spec

-----------------------------------------------------------------------------
LEMMA NextRInv ==
  ASSUME KeyWithTooSmall
  PROVE  RInv /\ [Next]_vars => RInv'
<1>1. SUFFICES ASSUME RInv, [Next]_vars  PROVE RInv'
  OBVIOUS
<1>2. IInv /\ IInv'
  BY <1>1, NextIInv DEF RInv
<1> USE ExitAssumption DEF RInv, Disturbances, RebootNeedsRaces
<1>3. CASE Event
  BY <1>1, <1>2, <1>3 DEF Event, IInv
<1>4. CASE GetMemoryMap
  <2>1. pc = "get_map" /\ tries' = tries + 1 /\ key' = key
    BY <1>4 DEF GetMemoryMap
  <2>2. CASE map_key' = (IF KeyWithTooSmall THEN key ELSE 0) /\ pc' = "exit" /\ errors' = errors
    <3>1. map_key' = key
      BY <2>2
    <3>2. QED
      BY <1>1, <1>2, <2>1, <2>2, <3>1 DEF IInv
  <2>3. CASE errors' = errors + 1 /\ pc' = AfterFailure(tries')
    BY <1>1, <1>2, <2>1, <2>3 DEF AfterFailure, IInv
  <2>4. QED
    BY <1>4, <2>2, <2>3 DEF GetMemoryMap
<1>5. CASE ExitBS
  <2>1. pc = "exit" /\ tries' = tries /\ key' = key /\ map_key' = map_key
    BY <1>5 DEF ExitBS
  <2>2. CASE pc' = "handoff" /\ errors' = errors
    BY <1>1, <1>2, <2>2
  <2>3. CASE map_key # key /\ pc' = AfterFailure(tries) /\ errors' = errors
    BY <1>1, <1>2, <2>1, <2>3 DEF AfterFailure, IInv
  <2>4. CASE map_key = key /\ pc' = AfterFailure(tries) /\ errors' = errors + 1
    BY <1>1, <1>2, <2>1, <2>4 DEF AfterFailure, IInv
  <2>5. QED
    BY <1>5, <2>2, <2>3, <2>4 DEF ExitBS
<1>6. CASE Ended \/ UNCHANGED vars
  BY <1>1, <1>2, <1>6 DEF Ended, vars
<1>7. QED
  BY <1>1, <1>3, <1>4, <1>5, <1>6 DEF Next, Loader

(* With a firmware that gives the key along with BUFFER_TOO_SMALL, a       *)
(* reboot means more disturbances than EXIT_BS_MAX_TRIES.                  *)
THEOREM RebootIsEarned ==
  ASSUME KeyWithTooSmall
  PROVE  Spec => []RebootNeedsRaces
<1>1. Init => RInv
  BY InitIInv, ExitAssumption DEF Init, RInv, Disturbances, RebootNeedsRaces
<1>2. RInv /\ [Next]_vars => RInv'
  BY NextRInv
<1>3. RInv => RebootNeedsRaces
  BY DEF RInv
<1>4. QED
  BY <1>1, <1>2, <1>3, PTL DEF Spec

-----------------------------------------------------------------------------
(* Handover: its steps are steps of ExitBootServices, or leave it alone.   *)
LEMMA StepsOfExit == [HandoverNext]_<<exit_vars, handover_vars>> => [Next]_vars
<1> USE DEF exit_vars
<1>1. aurix_get_cmdline => UNCHANGED vars
  BY DEF aurix_get_cmdline, ReadLength, AllocCmdline, ReadCmdline
<1>2. BootargsChange \/ platform_get_rsdp \/ platform_get_smbios => UNCHANGED vars
  BY DEF BootargsChange, platform_get_rsdp, platform_get_smbios
<1>3. aurix_arch_handoff \/ Over => UNCHANGED vars
  BY DEF aurix_arch_handoff, Over
<1>4. uefi_exit_bs \/ FirmwareEvent => Next
  BY DEF uefi_exit_bs, FirmwareEvent, Next
<1>5. QED
  BY <1>1, <1>2, <1>3, <1>4 DEF HandoverNext, aurix_load

(* What leads up to the exit of the boot services, and what follows it,    *)
(* does not disturb it: the hand-over implements ExitBootServices, so that *)
(* all that is proved of the one holds of the other.                       *)
THEOREM HandoverImplementsExit == HandoverSpec => Spec
<1>1. HandoverInit => Init
  BY DEF HandoverInit
<1>2. QED
  BY <1>1, StepsOfExit, PTL DEF HandoverSpec, Spec

(* So the whole hand-over enters the kernel exactly after an exit with the *)
(* key of the memory map as it then was.                                   *)
THEOREM HandoverIsSafe == HandoverSpec => []HandoffAfterExit
BY HandoverImplementsExit, HandoffIsSafe, PTL

(* And it does not reboot for fewer disturbances than it has tries.        *)
THEOREM HandoverRebootIsEarned ==
  ASSUME KeyWithTooSmall
  PROVE  HandoverSpec => []RebootNeedsRaces
BY HandoverImplementsExit, RebootIsEarned, PTL

-----------------------------------------------------------------------------
(* The two look-ups. No table of the newer version stands before i, and r  *)
(* is the last of the older version before i, or 0.                        *)
Searched(new, old, r) ==
  /\ i \in 1 .. Len(tables) + 1
  /\ r \in 0 .. i - 1
  /\ r # 0 => tables[r] = old
  /\ \A n \in 1 .. i - 1 : tables[n] # new /\ (r < n => tables[n] # old)

(* What a look-up returns that has seen all the tables.                    *)
LEMMA SearchFails ==
  ASSUME tables \in Seq(Kinds), NEW new, NEW old, NEW r,
         Searched(new, old, r), i > Len(tables)
  PROVE  r = Preferred(new, old)
<1> DEFINE at == {n \in DOMAIN tables : tables[n] = old}
<1>1. i = Len(tables) + 1 /\ DOMAIN tables = 1 .. Len(tables) /\ Len(tables) \in Nat
  BY DEF Searched
<1>2. ~ \E n \in DOMAIN tables : tables[n] = new
  BY <1>1 DEF Searched
<1>3. \A n \in at : n <= r
  BY <1>1 DEF Searched
<1>4. r = LastIndex(old)
  <2>1. CASE r = 0
    BY <2>1, <1>1, <1>3 DEF LastIndex
  <2>2. CASE r # 0
    <3>1. r \in at /\ at # {}
      BY <2>2, <1>1 DEF Searched
    <3>2. \A n \in at : (\A k \in at : k <= n) => n = r
      BY <3>1, <1>1, <1>3
    <3>3. r = CHOOSE n \in at : \A k \in at : k <= n
      BY <3>1, <3>2, <1>3
    <3>4. QED
      BY <3>1, <3>3 DEF LastIndex
  <2>3. QED
    BY <2>1, <2>2
<1>5. QED
  BY <1>2, <1>4 DEF Preferred

(* What a look-up returns that finds the newer version at i.               *)
LEMMA SearchSucceeds ==
  ASSUME tables \in Seq(Kinds), NEW new, NEW old, NEW r,
         Searched(new, old, r), i <= Len(tables), tables[i] = new
  PROVE  i = Preferred(new, old)
<1> DEFINE at == {n \in DOMAIN tables : tables[n] = new}
<1>1. DOMAIN tables = 1 .. Len(tables) /\ Len(tables) \in Nat /\ i \in 1 .. Len(tables)
  BY DEF Searched
<1>2. i \in at /\ \A k \in at : i <= k
  BY <1>1 DEF Searched
<1>3. \A n \in at : (\A k \in at : n <= k) => n = i
  BY <1>1, <1>2
<1>4. i = CHOOSE n \in at : \A k \in at : n <= k
  BY <1>2, <1>3
<1>5. QED
  BY <1>1, <1>2, <1>4 DEF Preferred, FirstIndex

-----------------------------------------------------------------------------
(* The block with the boot arguments once aurix_get_cmdline() is over.     *)
CmdlineIsRight ==
  /\ cmdline.text.len <= cmdline.room
  /\ cmdline # Null => cmdline.text = bootargs
  /\ owned <=> cmdline # Null

Reading == {"length", "alloc", "read"}   \* steps of aurix_get_cmdline()
Told == {"exit", "kernel", "lost"}       \* steps after the look-ups

(* Where each step finds the block, the tables and the registers.          *)
HInv ==
  /\ step \in Reading \union {"rsdp", "smbios"} \union Told
  /\ tables \in Seq(Kinds)
  /\ bootargs \in [len : Nat, rev : Nat] /\ size \in Nat
  /\ step \in Reading => i = 1 /\ rsdp = 0 /\ smbios = 0
  /\ step \in {"length", "alloc"} => cmdline = Null /\ owned = FALSE
  /\ step \in {"alloc", "read"} => size > 0
  /\ step = "read" => cmdline = [Null EXCEPT !.room = size] /\ owned = TRUE
  /\ step \notin Reading => CmdlineIsRight
  /\ step = "rsdp" => Searched("acpi20", "acpi10", rsdp) /\ smbios = 0
  /\ step \in {"smbios"} \union Told => rsdp = Preferred("acpi20", "acpi10")
  /\ step = "smbios" => Searched("smbios3", "smbios", smbios)
  /\ step \in Told => smbios = Preferred("smbios3", "smbios")

LEMMA InitHInv == HandoverInit => HInv
BY HandoverAssumption DEF HandoverInit, HInv, Reading, Told

(* The right answers do not depend on how far a look-up has come.          *)
LEMMA SearchStart ==
  ASSUME tables \in Seq(Kinds), i = 1, NEW new, NEW old
  PROVE  Searched(new, old, 0)
BY DEF Searched

LEMMA ReadingSteps ==
  ASSUME HInv, aurix_get_cmdline \/ BootargsChange
  PROVE  HInv'
<1> USE DEF HInv, Reading, Told
<1>1. i' = i /\ tables' = tables /\ rsdp' = rsdp /\ smbios' = smbios /\ step \in Reading
  BY DEF aurix_get_cmdline, BootargsChange, ReadLength, AllocCmdline, ReadCmdline
<1>2. step' \in Reading \union {"rsdp"}
  BY DEF aurix_get_cmdline, BootargsChange, ReadLength, AllocCmdline, ReadCmdline
<1>3. Searched("acpi20", "acpi10", rsdp)'
  BY <1>1, SearchStart DEF Searched
<1>4. CASE ReadLength
  BY <1>1, <1>2, <1>3, <1>4 DEF ReadLength, CmdlineIsRight, Null
<1>5. CASE AllocCmdline
  BY <1>1, <1>2, <1>3, <1>5 DEF AllocCmdline, CmdlineIsRight, Null
<1>6. CASE ReadCmdline
  <2>1. step' = "rsdp" /\ UNCHANGED <<bootargs, size>>
    BY <1>6 DEF ReadCmdline
  <2>2. cmdline = [room |-> size, text |-> [len |-> 0, rev |-> 0]] /\ size > 0 /\ size \in Nat
    BY <1>6 DEF ReadCmdline, Null
  <2>3. CASE bootargs.len \in 1 .. size /\ cmdline' = [cmdline EXCEPT !.text = bootargs]
             /\ owned' = owned
    <3>1. cmdline'.room = size /\ cmdline'.text = bootargs
      BY <2>2, <2>3
    <3>2. owned' = TRUE
      BY <1>6, <2>3 DEF ReadCmdline
    <3>3. CmdlineIsRight'
      BY <2>1, <2>2, <2>3, <3>1, <3>2 DEF CmdlineIsRight, Null
    <3>4. QED
      BY <1>1, <1>3, <2>1, <3>3
  <2>4. CASE cmdline' = Null /\ owned' = FALSE
    <3>1. CmdlineIsRight'
      BY <2>4 DEF CmdlineIsRight, Null
    <3>2. QED
      BY <1>1, <1>3, <2>1, <3>1
  <2>5. QED
    BY <1>6, <2>3, <2>4 DEF ReadCmdline
<1>7. CASE BootargsChange
  <2>1. UNCHANGED <<step, tables, i, cmdline, size, owned, rsdp, smbios>>
    BY <1>7 DEF BootargsChange
  <2>2. step \in {"alloc", "read"}
    BY <1>7 DEF BootargsChange
  <2>3. bootargs' \in [len : Nat, rev : Nat]
    BY <1>7, HandoverAssumption DEF BootargsChange
  <2>4. QED
    BY <2>1, <2>2, <2>3
<1>8. QED
  BY <1>4, <1>5, <1>6, <1>7 DEF aurix_get_cmdline

LEMMA RsdpSteps ==
  ASSUME HInv, platform_get_rsdp
  PROVE  HInv'
<1> USE DEF HInv, Reading, Told
<1>1. step = "rsdp" /\ Searched("acpi20", "acpi10", rsdp) /\ smbios = 0
  BY DEF platform_get_rsdp
<1>2. UNCHANGED <<tables, bootargs, cmdline, size, owned, smbios>>
  BY DEF platform_get_rsdp
<1>3. tables \in Seq(Kinds) /\ CmdlineIsRight /\ Len(tables) \in Nat
  BY <1>1
<1>4. CmdlineIsRight' /\ \A new, old : Preferred(new, old)' = Preferred(new, old)
  BY <1>2, <1>3 DEF CmdlineIsRight, Preferred, FirstIndex, LastIndex
<1>5. i' = 1 => Searched("smbios3", "smbios", smbios)'
  BY <1>1, <1>2, <1>3 DEF Searched
<1>6. CASE i > Len(tables)
  <2>1. step' = "smbios" /\ i' = 1 /\ rsdp' = rsdp
    BY <1>6 DEF platform_get_rsdp
  <2>2. rsdp = Preferred("acpi20", "acpi10")
    BY <1>1, <1>3, <1>6, SearchFails
  <2>3. QED
    BY <1>1, <1>2, <1>3, <1>4, <1>5, <2>1, <2>2
<1>7. CASE i <= Len(tables) /\ tables[i] = "acpi20"
  <2>1. step' = "smbios" /\ i' = 1 /\ rsdp' = i
    BY <1>1, <1>3, <1>7 DEF platform_get_rsdp, Searched
  <2>2. i = Preferred("acpi20", "acpi10")
    BY <1>1, <1>3, <1>7, SearchSucceeds
  <2>3. QED
    BY <1>1, <1>2, <1>3, <1>4, <1>5, <2>1, <2>2
<1>8. CASE i <= Len(tables) /\ tables[i] # "acpi20"
  <2>1. step' = "rsdp" /\ i' = i + 1 /\ i \in Nat
    BY <1>1, <1>3, <1>8 DEF platform_get_rsdp, Searched
  <2>2. rsdp' = IF tables[i] = "acpi10" THEN i ELSE rsdp
    BY <1>1, <1>3, <1>8 DEF platform_get_rsdp, Searched
  <2>3. Searched("acpi20", "acpi10", rsdp)'
    BY <1>1, <1>2, <1>3, <1>8, <2>1, <2>2 DEF Searched
  <2>4. QED
    BY <1>1, <1>2, <1>3, <1>4, <2>1, <2>3
<1>9. i \in Nat
  BY <1>1, <1>3 DEF Searched
<1> HIDE DEF HInv
<1>10. QED
  BY <1>3, <1>6, <1>7, <1>8, <1>9

LEMMA SmbiosSteps ==
  ASSUME HInv, platform_get_smbios
  PROVE  HInv'
<1> USE DEF HInv, Reading, Told
<1>1. step = "smbios" /\ Searched("smbios3", "smbios", smbios)
  BY DEF platform_get_smbios
<1>2. UNCHANGED <<tables, bootargs, cmdline, size, owned, rsdp>>
  BY DEF platform_get_smbios
<1>3. tables \in Seq(Kinds) /\ CmdlineIsRight /\ Len(tables) \in Nat
  BY <1>1
<1>4. CmdlineIsRight' /\ \A new, old : Preferred(new, old)' = Preferred(new, old)
  BY <1>2, <1>3 DEF CmdlineIsRight, Preferred, FirstIndex, LastIndex
<1>5. CASE i > Len(tables)
  <2>1. step' = "exit" /\ smbios' = smbios
    BY <1>5 DEF platform_get_smbios
  <2>2. smbios = Preferred("smbios3", "smbios")
    BY <1>1, <1>3, <1>5, SearchFails
  <2>3. QED
    BY <1>1, <1>2, <1>3, <1>4, <2>1, <2>2
<1>6. CASE i <= Len(tables) /\ tables[i] = "smbios3"
  <2>1. step' = "exit" /\ smbios' = i
    BY <1>1, <1>3, <1>6 DEF platform_get_smbios, Searched
  <2>2. i = Preferred("smbios3", "smbios")
    BY <1>1, <1>3, <1>6, SearchSucceeds
  <2>3. QED
    BY <1>1, <1>2, <1>3, <1>4, <2>1, <2>2
<1>7. CASE i <= Len(tables) /\ tables[i] # "smbios3"
  <2>1. step' = "smbios" /\ i' = i + 1 /\ i \in Nat
    BY <1>1, <1>3, <1>7 DEF platform_get_smbios, Searched
  <2>2. smbios' = IF tables[i] = "smbios" THEN i ELSE smbios
    BY <1>1, <1>3, <1>7 DEF platform_get_smbios, Searched
  <2>3. Searched("smbios3", "smbios", smbios)'
    BY <1>1, <1>2, <1>3, <1>7, <2>1, <2>2 DEF Searched
  <2>4. QED
    BY <1>1, <1>2, <1>3, <1>4, <2>1, <2>3
<1>8. i \in Nat
  BY <1>1, <1>3 DEF Searched
<1> HIDE DEF HInv
<1>9. QED
  BY <1>3, <1>5, <1>6, <1>7, <1>8

LEMMA LastSteps ==
  ASSUME HInv,
         uefi_exit_bs \/ FirmwareEvent \/ aurix_arch_handoff \/ Over
           \/ UNCHANGED <<exit_vars, handover_vars>>
  PROVE  HInv'
<1>1. UNCHANGED <<tables, i, bootargs, cmdline, size, owned, rsdp, smbios>>
  BY DEF uefi_exit_bs, FirmwareEvent, aurix_arch_handoff, Over, handover_vars
<1>2. step' = step \/ (step \in Told /\ step' \in Told)
  BY DEF uefi_exit_bs, FirmwareEvent, aurix_arch_handoff, Over, handover_vars, Told
<1>3. CmdlineIsRight' = CmdlineIsRight
  BY <1>1 DEF CmdlineIsRight
<1>4. \A new, old, r : /\ Preferred(new, old)' = Preferred(new, old)
                       /\ Searched(new, old, r)' = Searched(new, old, r)
  BY <1>1 DEF Preferred, FirstIndex, LastIndex, Searched
<1>5. QED
  BY <1>1, <1>2, <1>3, <1>4 DEF HInv, Reading, Told

LEMMA NextHInv == HInv /\ [HandoverNext]_<<exit_vars, handover_vars>> => HInv'
BY ReadingSteps, RsdpSteps, SmbiosSteps, LastSteps DEF HandoverNext, aurix_load

(* The kernel is told of the right tables whatever the firmware's list,    *)
(* and of boot arguments that were read whole into a block with room for   *)
(* them, whatever becomes of the variable while it is read.                *)
THEOREM ParametersReachTheKernel == HandoverSpec => []ParametersAreRight
<1>1. HInv => ParametersAreRight
  BY DEF HInv, ParametersAreRight, CmdlineIsRight, Told, Reading
<1>2. QED
  BY <1>1, InitHInv, NextHInv, PTL DEF HandoverSpec

-----------------------------------------------------------------------------
(* One move: the value of the source, found in the destination.            *)
LEMMA MoveIs ==
  ASSUME NEW r, NEW d, NEW s, NEW v, r[s] = v
  PROVE  Move(r, <<d, s>>) = [r EXCEPT ![d] = v]
BY DEF Move

(* The assembly, with its operands in registers of their own: what is read *)
(* from a register is what the compiler has put there, although the moves  *)
(* before it have written to rdi, unless that was the entry.               *)
LEMMA AssemblyIs ==
  ASSUME NEW a \in Allocations,
         DOMAIN regs = General \union {"rsp", "cr3"}
  PROVE  LET m == Moves(a)
             r == Move(Move(Move(Move(Loaded(a), m[1]), m[2]), m[3]), m[4])
         IN  [r EXCEPT !["rbx"] = "0", !["rcx"] = "0"]
             = [rsp |-> "stack_top", cr3 |-> "pm", rdi |-> "parameters",
                rsi |-> IF a["entry"] = "rdi" THEN "parameters" ELSE "entry",
                rbx |-> "0", rcx |-> "0"]
<1> DEFINE m == Moves(a)
           L == Loaded(a)
           R == {"rbx", "rcx", "rdi", "rsi", "rsp", "cr3"}
           stack == a["stack_top"]
           pm == a["pm"]
           params == a["parameters"]
           entry == a["entry"]
           called == IF entry = "rdi" THEN "parameters" ELSE "entry"
<1>1. a \in [Operands -> General] /\ DOMAIN regs = R
  BY HandoverAssumption DEF General
<1>2. /\ {stack, pm, params, entry} \subseteq General
      /\ entry # stack /\ entry # pm /\ entry # params
      /\ stack # pm /\ stack # params /\ pm # params
  BY <1>1, HandoverAssumption DEF Operands
<1>3. \A o \in Operands : L[a[o]] = o
  <2>1. SUFFICES ASSUME NEW o \in Operands  PROVE L[a[o]] = o
    OBVIOUS
  <2>2. a[o] \in DOMAIN regs
    BY <1>1 DEF General
  <2>3. \A p \in Operands : a[p] = a[o] => p = o
    BY HandoverAssumption
  <2>4. (CHOOSE p \in Operands : a[p] = a[o]) = o
    BY <2>3
  <2>5. QED
    BY <2>2, <2>4 DEF Loaded
<1>4. L[stack] = "stack_top" /\ L[pm] = "pm" /\ L[params] = "parameters" /\ L[entry] = "entry"
  BY <1>3 DEF Operands
<1>5. m[1] = <<"rsp", stack>> /\ m[2] = <<"cr3", pm>> /\ m[3] = <<"rdi", params>>
      /\ m[4] = <<"rsi", entry>>
  BY <1>1 DEF Moves, Operands
<1>6. DOMAIN L = R
  BY <1>1 DEF Loaded
<1> HIDE DEF L, m, stack, pm, params, entry, called
<1> DEFINE L1 == Move(L, m[1])
           L2 == Move(L1, m[2])
           L3 == Move(L2, m[3])
           L4 == Move(L3, m[4])
<1>7. L1 = [L EXCEPT !["rsp"] = "stack_top"]
  BY <1>4, <1>5, MoveIs
<1>8. L2 = [L1 EXCEPT !["cr3"] = "pm"]
  <2>1. L1[pm] = "pm"
    BY <1>2, <1>4, <1>6, <1>7 DEF General
  <2>2. QED
    BY <1>5, <2>1, MoveIs
<1>9. L3 = [L2 EXCEPT !["rdi"] = "parameters"]
  <2>1. L2[params] = "parameters"
    BY <1>2, <1>4, <1>6, <1>7, <1>8 DEF General
  <2>2. QED
    BY <1>5, <2>1, MoveIs
<1>10. L4 = [L3 EXCEPT !["rsi"] = called]
  <2>1. L3[entry] = called
    BY <1>2, <1>4, <1>6, <1>7, <1>8, <1>9 DEF General, called
  <2>2. QED
    BY <1>5, <2>1, MoveIs
<1> HIDE DEF L1, L2, L3, L4
<1>11. [L4 EXCEPT !["rbx"] = "0", !["rcx"] = "0"]
       = [rsp |-> "stack_top", cr3 |-> "pm", rdi |-> "parameters", rsi |-> called,
          rbx |-> "0", rcx |-> "0"]
  <2> DEFINE K == [L4 EXCEPT !["rbx"] = "0", !["rcx"] = "0"]
             E == [rsp |-> "stack_top", cr3 |-> "pm", rdi |-> "parameters", rsi |-> called,
                   rbx |-> "0", rcx |-> "0"]
  <2>1. L = [x \in R |-> L[x]]
    BY <1>1 DEF L, Loaded
  <2>2. K = [x \in R |-> K[x]]
    BY <2>1, <1>7, <1>8, <1>9, <1>10
  <2>3. /\ K["rsp"] = "stack_top" /\ K["cr3"] = "pm" /\ K["rdi"] = "parameters"
        /\ K["rsi"] = called /\ K["rbx"] = "0" /\ K["rcx"] = "0"
    BY <1>6, <1>7, <1>8, <1>9, <1>10
  <2>4. E = [x \in R |-> E[x]]
    OBVIOUS
  <2>5. \A x \in R : K[x] = E[x]
    BY <2>3
  <2>6. [x \in R |-> K[x]] = [x \in R |-> E[x]]
    BY <2>5
  <2>7. QED
    BY <2>2, <2>4, <2>6
<1>12. QED
  BY <1>11 DEF L, L1, L2, L3, L4, m, called, entry

(* Registers, and the exit of the boot services, until the call.           *)
Called == {"kernel", "lost"}

KInv ==
  /\ IInv
  /\ step \notin Called => DOMAIN regs = General \union {"rsp", "cr3"}
  /\ step \in Called => pc = "handoff"
  /\ KernelGetsItsOperands

LEMMA NextRegs == KInv /\ [HandoverNext]_<<exit_vars, handover_vars>> => KInv'
<1>1. SUFFICES ASSUME KInv, [HandoverNext]_<<exit_vars, handover_vars>>
               PROVE  KInv'
  OBVIOUS
<1>2. IInv /\ IInv'
  BY <1>1, NextIInv, StepsOfExit DEF KInv
<1>3. CASE aurix_arch_handoff
  <2>1. PICK a \in Allocations :
          LET m == Moves(a)
              r == Move(Move(Move(Move(Loaded(a), m[1]), m[2]), m[3]), m[4])
          IN  regs' = [r EXCEPT !["rbx"] = "0", !["rcx"] = "0"] /\ operands' = a
    BY <1>3 DEF aurix_arch_handoff
  <2>2. /\ step = "exit" /\ pc' = "handoff"
        /\ step' = IF regs'["rsi"] = "entry" THEN "kernel" ELSE "lost"
    BY <1>3 DEF aurix_arch_handoff, exit_vars, vars
  <2>3. /\ operands' = a
        /\ regs' = [rsp |-> "stack_top", cr3 |-> "pm", rdi |-> "parameters",
                    rsi |-> IF a["entry"] = "rdi" THEN "parameters" ELSE "entry",
                    rbx |-> "0", rcx |-> "0"]
    BY <1>1, <2>1, <2>2, AssemblyIs DEF KInv, Called
  <2>4. step' \in Called /\ (step' = "kernel" <=> a["entry"] # "rdi")
    BY <2>2, <2>3 DEF Called
  <2>5. QED
    BY <1>2, <2>2, <2>3, <2>4 DEF KInv, KernelGetsItsOperands, IInv
<1>4. CASE ~ aurix_arch_handoff
  <2>1. /\ regs' = regs /\ operands' = operands
        /\ step' = step \/ (step \notin Called /\ step' \notin Called)
    BY <1>1, <1>4 DEF HandoverNext, aurix_load, aurix_get_cmdline, ReadLength, AllocCmdline,
       ReadCmdline, BootargsChange, platform_get_rsdp, platform_get_smbios,
       uefi_exit_bs, FirmwareEvent, Over, handover_vars, Called
  <2>2. step \in Called => UNCHANGED vars
    BY <1>1, <1>4 DEF HandoverNext, aurix_load, aurix_get_cmdline, ReadLength, AllocCmdline,
       ReadCmdline, BootargsChange, platform_get_rsdp, platform_get_smbios,
       uefi_exit_bs, FirmwareEvent, Over, exit_vars, Called
  <2>3. QED
    BY <1>1, <1>2, <2>1, <2>2 DEF KInv, KernelGetsItsOperands, vars, Called
<1>5. QED
  BY <1>3, <1>4

(* Whatever registers the compiler gives the operands, the kernel's stack, *)
(* page tables and parameters are in place after the boot services are     *)
(* gone, and its entry is called exactly if that was not in rdi.           *)
THEOREM OperandsReachTheKernel == HandoverSpec => []KernelGetsItsOperands
<1>1. HandoverInit => KInv
  BY InitIInv DEF HandoverInit, KInv, KernelGetsItsOperands, Called
<1>2. KInv /\ [HandoverNext]_<<exit_vars, handover_vars>> => KInv'
  BY NextRegs
<1>3. KInv => KernelGetsItsOperands
  BY DEF KInv
<1>4. QED
  BY <1>1, <1>2, <1>3, PTL DEF HandoverSpec

-----------------------------------------------------------------------------
(* What a step of the loader leaves to be done.                            *)
LEMMA LoaderComesCloser ==
  ASSUME HInv, IInv, IInv', aurix_load
  PROVE  Closer
<1>1. Len(tables) \in Nat
  BY DEF HInv
<1> DEFINE N == Len(tables)
<1> HIDE DEF N
<1>2. /\ pc \in {"get_map", "exit", "handoff", "reboot"} /\ tries \in 0 .. EXIT_BS_MAX_TRIES + 1
      /\ pc = "get_map" => tries <= EXIT_BS_MAX_TRIES
      /\ EXIT_BS_MAX_TRIES \in Nat
  BY ExitAssumption DEF IInv
<1>4. CASE aurix_get_cmdline
  <2>1. /\ step \in {"length", "alloc", "read"} /\ i = 1 /\ i' = i /\ tables' = tables
    BY <1>4 DEF aurix_get_cmdline, ReadLength, AllocCmdline, ReadCmdline, HInv, Reading
  <2>2. /\ step' \in {"alloc", "read", "rsdp"}
        /\ step = "alloc" => step' \in {"read", "rsdp"}
        /\ step = "read" => step' = "rsdp"
    BY <1>4 DEF aurix_get_cmdline, ReadLength, AllocCmdline, ReadCmdline
  <2>3. Left' = N + 1 - 1
    BY <2>1, <2>2 DEF Left, N
  <2>4. Stage' < Stage
    BY <1>4 DEF aurix_get_cmdline, ReadLength, AllocCmdline, ReadCmdline, Stage
  <2>5. QED
    BY <1>1, <2>3, <2>4 DEF Closer, N
<1>5. CASE platform_get_rsdp
  <2>1. step = "rsdp" /\ tables' = tables /\ i \in 1 .. N + 1
    BY <1>5 DEF platform_get_rsdp, HInv, Searched, N
  <2>2. \/ step' = "smbios" /\ i' = 1
        \/ step' = "rsdp" /\ i' = i + 1 /\ i <= N
    BY <1>1, <1>5, <2>1 DEF platform_get_rsdp, N
  <2>3. Left = N + 1 - i /\ Left' = N + 1 - i'
    BY <2>1, <2>2 DEF Left, N
  <2>4. \/ Stage' = 2 /\ Stage = 3
        \/ Stage' = 3 /\ Stage = 3 /\ i' = i + 1 /\ i <= N
    BY <2>1, <2>2 DEF Stage
  <2>5. N \in Nat
    BY <1>1 DEF N
  <2>6. QED
    BY <2>1, <2>2, <2>3, <2>4, <2>5 DEF Closer
<1>6. CASE platform_get_smbios
  <2>1. step = "smbios" /\ tables' = tables /\ i \in 1 .. N + 1 /\ exit_vars' = exit_vars
    BY <1>6 DEF platform_get_smbios, HInv, Searched, N
  <2>2. \/ step' = "exit"
        \/ step' = "smbios" /\ i' = i + 1 /\ i <= N
    BY <1>1, <1>6, <2>1 DEF platform_get_smbios, N
  <2>3. N \in Nat
    BY <1>1 DEF N
  <2>4. CASE step' = "exit"
    <3>1. Stage' = 1 /\ Stage = 2
      BY <2>1, <2>4 DEF Stage
    <3>2. pc' = pc /\ tries' = tries
      BY <2>1 DEF exit_vars, vars
    <3>3. Left' \in Nat
      BY <1>2, <2>4, <3>2 DEF Left
    <3>4. QED
      BY <3>1, <3>3 DEF Closer
  <2>5. CASE step' = "smbios" /\ i' = i + 1 /\ i <= N
    <3>1. Stage' = Stage
      BY <2>1, <2>5 DEF Stage
    <3>2. Left = N + 1 - i /\ Left' = N + 1 - i'
      BY <2>1, <2>5 DEF Left, N
    <3>3. QED
      BY <2>1, <2>3, <2>5, <3>1, <3>2 DEF Closer
  <2>6. QED
    BY <2>2, <2>4, <2>5
<1>7. CASE uefi_exit_bs
  <2>1. step = "exit" /\ step' = step /\ (GetMemoryMap \/ ExitBS)
    BY <1>7 DEF uefi_exit_bs, Loader, handover_vars
  <2>2. Stage' = Stage
    BY <2>1 DEF Stage
  <2>3. CASE GetMemoryMap
    <3>1. /\ pc = "get_map" /\ tries' = tries + 1
          /\ pc' = "exit" \/ pc' = AfterFailure(tries + 1)
      BY <2>3 DEF GetMemoryMap
    <3>2. Left' \in Nat /\ Left' < Left
      BY <1>2, <2>1, <3>1 DEF Left, AfterFailure
    <3>3. QED
      BY <2>2, <3>2 DEF Closer
  <2>4. CASE ExitBS
    <3>1. /\ pc = "exit" /\ tries' = tries
          /\ pc' = "handoff" \/ pc' = AfterFailure(tries)
      BY <2>4 DEF ExitBS
    <3>2. Left' \in Nat /\ Left' < Left
      BY <1>2, <2>1, <3>1 DEF Left, AfterFailure
    <3>3. QED
      BY <2>2, <3>2 DEF Closer
  <2>5. QED
    BY <2>1, <2>3, <2>4
<1>8. CASE aurix_arch_handoff
  <2>1. step = "exit" /\ step' \in {"kernel", "lost"} /\ pc' = "handoff"
    BY <1>8 DEF aurix_arch_handoff, exit_vars, vars
  <2>2. QED
    BY <2>1 DEF Closer, Stage, Left
<1>9. QED
  BY <1>4, <1>5, <1>6, <1>7, <1>8 DEF aurix_load

(* LoaderAdvances: whatever the firmware's tables, variables and events    *)
(* are, the loader comes to the kernel or to a reboot unless it is kept    *)
(* from running.                                                           *)
THEOREM LoaderEnds == HandoverSpec => LoaderAdvances
<1>1. ASSUME HInv, IInv, IInv', [HandoverNext]_<<exit_vars, handover_vars>>,
             <<exit_vars, handover_vars>>' # <<exit_vars, handover_vars>>,
             bootargs' = bootargs, key' = key
      PROVE  Closer
  <2>1. ~ Over
    BY <1>1 DEF Over
  <2>2. ~ FirmwareEvent
    BY <1>1 DEF FirmwareEvent, Event, IInv
  <2>3. ~ BootargsChange
    BY <1>1, HandoverAssumption DEF BootargsChange, HInv
  <2>4. aurix_load
    BY <1>1, <2>1, <2>2, <2>3 DEF HandoverNext
  <2>5. QED
    BY <1>1, <2>4, LoaderComesCloser
<1>2. HInv /\ IInv /\ IInv' /\ [HandoverNext]_<<exit_vars, handover_vars>>
        => [bootargs' = bootargs /\ key' = key => Closer]_<<exit_vars, handover_vars>>
  BY <1>1
<1>3. HandoverSpec => []IInv
  BY HandoverImplementsExit, InitIInv, NextIInv, PTL DEF Spec
<1>4. QED
  BY <1>2, <1>3, InitHInv, NextHInv, PTL DEF HandoverSpec, LoaderAdvances
=============================================================================
