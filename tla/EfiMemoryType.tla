---------------------------- MODULE EfiMemoryType ----------------------------
(***************************************************************************)
(* The two readings that src/platform/uefi/mm/memmap.c has of the memory   *)
(* types of the firmware: what the kernel may use a frame for, and how the *)
(* frame is mapped for it.                                                 *)
(***************************************************************************)

(* Mutant: runtime services are given away as usable memory.               *)
efi_type_to_axboot_runtime(t) ==
  CASE t = "LoaderCode" -> "Firmware"
    [] t = "Unusable" -> "Faulty"
    [] OTHER -> "Usable"

efi_type_to_axboot(t) ==
  CASE t \in {"RuntimeServicesCode", "RuntimeServicesData", "LoaderCode"} -> "Firmware"
    [] t = "Unusable" -> "Faulty"
    [] t = "ACPIReclaim" -> "ACPIReclaimable"
    [] t = "ACPINVS" -> "ACPINVS"
    [] t = "MMIO" -> "ACPIMappedIO"
    [] t = "MMIOPort" -> "ACPIMappedIOPortSpace"
    [] t \in {"PalCode", "Persistent", "Conventional", "LoaderData",
              "BootServicesCode", "BootServicesData"} -> "Usable"
    [] OTHER -> "Reserved"

(* Mutant: the data of the boot services is left out of the mapping.       *)
MapFlags_code_only(t) ==
  CASE t \in {"Conventional", "BootServicesCode", "LoaderData", "LoaderCode"}
         -> {"present", "writable"}
    [] OTHER -> {}

(* The flags of the identity mapping; none at all leaves a page unmapped.  *)
MapFlags(t) ==
  CASE t \in {"Conventional", "BootServicesCode", "BootServicesData",
              "LoaderData", "LoaderCode"} -> {"present", "writable"}
    [] t \in {"Unusable", "Reserved", "PalCode", "RuntimeServicesCode",
              "RuntimeServicesData"} -> {}
    [] OTHER -> {"present", "writable", "nx"}
=============================================================================
