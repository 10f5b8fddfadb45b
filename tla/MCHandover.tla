----------------------------- MODULE MCHandover -----------------------------
(* Firmware tables and register allocations for Handover.                  *)
EXTENDS Handover

(* Both versions of a table in either order, one of them twice, or none.   *)
MCTableLists ==
  {<< >>, <<"acpi10", "smbios">>, <<"other", "acpi20", "acpi10", "smbios">>,
   <<"smbios3", "acpi10", "acpi20", "smbios", "acpi10">>,
   <<"acpi10", "smbios", "smbios3", "acpi10", "acpi20", "smbios3", "acpi20">>}

(* Every way to give the operands a register each.                         *)
MCAllocations ==
  {a \in [Operands -> General] : \A o, p \in Operands : o # p => a[o] # a[p]}
=============================================================================
