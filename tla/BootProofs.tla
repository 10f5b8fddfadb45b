----------------------------- MODULE BootProofs -----------------------------
(***************************************************************************)
(* The invariants of module Boot, for every number of slots, of tables and *)
(* of configuration files, and of module Sfs, which reads the files.       *)
(***************************************************************************)
EXTENDS Boot, Sfs, FiniteSetTheorems, TLAPS

-----------------------------------------------------------------------------
(* Places, by what has happened when they are reached.                     *)
Early == {"volume", "fs", "fsdata", "drive", "unmount"}
Config == {"bootlog", "config", "free_config", "timeout"}
Menu == {"menu", "font", "select", "events", "no_callback"}
Loaded == {"free_kbuf", "cmdline", "framebuffer", "map_fb", "modules", "kernel_map"}
Leaving == {"hhdm", "kernel", "reboot"}
ToElf == {"map_pm", "stack", "map_stack", "elf"}
Map == {"size", "fetch", "identity", "map", "free_buffer"}
Running == Early \union Config \union Menu \union {"kernel_file", "pagemap"}
             \union Map \union ToElf \union {"segments"} \union Loaded \union Leaving
Places == Running \union {"halt", "fault"}

Usable == {"present", "writable"}

(* Types, and where blocks lie: before the map is fetched in the loader's  *)
(* own memory; afterwards whatever is allocated can be written to.         *)
Data ==
  /\ memory \in [Blocks \union Image ->
                   {Nowhere, "LoaderData", "LoaderCode", "Conventional", "BootServicesData"}]
  /\ space \in [Blocks \union Image -> SUBSET {"present", "writable", "nx"}]
  /\ fetched \in BOOLEAN
  /\ memory["code"] = "LoaderCode" /\ memory["params"] = "BootServicesData"
  /\ ~fetched => \A b \in Live : memory[b] = "LoaderData"
  /\ fetched => \A b \in Live \union Image : Usable \subseteq space[b]

(* The map is fetched on the way to the end of get_memmap().               *)
Control ==
  /\ at \in Places
  /\ at \in Early \union Config \union Menu \union {"kernel_file", "pagemap", "size", "fetch",
                                                    "identity"} => ~fetched
  /\ at \in {"map", "free_buffer"} \union Leaving => fetched

(* Blocks that are there.                                                  *)
Has ==
  /\ at \in Map \union ToElf \union {"segments"} \union Loaded \union Leaving => "pm" \in Live
  /\ at \in {"map_stack", "elf", "segments"} \union Loaded \union Leaving => "stack" \in Live
  /\ at \in {"segments"} \union Loaded \union Leaving => "kernel" \in Live
  /\ at \in Leaving => "mmap" \in Live

(* Blocks that are not there.                                              *)
Gone ==
  /\ at \in {"volume", "fs"} => Live = {}
  /\ at = "fsdata" => Live \subseteq {"fs"}
  /\ at \in {"drive", "unmount"} => Live \subseteq {"fs", "fsdata"}
  /\ at \in Running \ {"free_config"} => "config" \notin Live
  /\ at \in Early \union Config \union Menu \union {"kernel_file"}
             \union (Loaded \ {"free_kbuf"}) \union Leaving => "kbuf" \notin Live
  /\ \/ at \in Early \union Config \union Menu \union {"kernel_file", "pagemap", "size"}
     \/ at \in ToElf \union {"segments"} \union Loaded \union Leaving /\ fetched
     => "efi_map" \notin Live
  /\ at \in Early \union Config \union {"menu", "font"} \/ "font" \in failed => "font" \notin Live
  /\ at = "halt" /\ failed \intersect {"fs", "fsdata", "drive"} # {} => Live = {}

(* What may have failed.                                                   *)
Failures ==
  /\ at \in Early \ {"unmount"} => failed = {}
  /\ at = "unmount" => failed \intersect {"fsdata", "drive"} # {}
  /\ at \in Config \union {"menu", "font", "select", "events"} => failed \subseteq {"bootlog"}
  /\ at = "no_callback" => "font" \in failed
  /\ at \in {"no_callback", "kernel_file"} => failed \subseteq {"bootlog", "font"}
  /\ at \in {"pagemap", "size", "fetch", "identity", "map", "free_buffer"} =>
       failed \subseteq {"bootlog", "font", "kbuf"}
  /\ at \in {"pagemap"} \union Map \union ToElf /\ "kbuf" \in failed => "kbuf" \notin Live
  /\ at \in ToElf => failed \subseteq {"bootlog", "font", "kbuf", "efi_map", "fetch"}
  /\ at \in {"segments"} \union Loaded \union Leaving =>
       failed \subseteq Optional \union {"efi_map", "fetch"}
  /\ at \in ToElf \union {"segments"} \union Loaded \union Leaving =>
       (fetched <=> failed \intersect {"efi_map", "fetch"} = {})
  /\ at = "halt" => ~(failed \subseteq Optional)
  /\ at = "fault" => ~(failed \subseteq Dispensable)

IInv == Data /\ Control /\ Has /\ Gone /\ Failures

-----------------------------------------------------------------------------
(* Every step, by the actions it is made of.                               *)
Step ==
  \/ OpenVolume
  \/ Take("fs", "fs", "fsdata", "halt") \/ Take("fsdata", "fsdata", "drive", "unmount")
  \/ Take("drive", "drive", "bootlog", "unmount") \/ Unmount
  \/ Take("bootlog", "bootlog", "config", "config") \/ FindConfig \/ FreeConfig \/ Timeout
  \/ Screen \/ font_init \/ Round
  \/ Take("kbuf", "kernel_file", "pagemap", "pagemap")
  \/ Take("pm", "pagemap", "size", "halt") \/ Take("efi_map", "size", "fetch", "map_pm")
  \/ Fetch \/ MapMemory \/ Take("map", "map", "free_buffer", "fault") \/ FreeBuffer
  \/ Stack \/ elf_load \/ FreeKernelFile
  \/ Take("cmdline", "cmdline", "framebuffer", "framebuffer") \/ Framebuffer
  \/ Take("modules", "modules", "kernel_map", "kernel_map") \/ aurix_get_memmap
  \/ MapMore("hhdm", {"kernel", "reboot"})

LEMMA NextIsStep == Next => Step \/ UNCHANGED vars
BY DEF Next, Step, vfs_init, sfs_init, config_init, Bootlog, ui_init, loader_load, aurix_load,
       ReadKernel, create_pagemap, get_memmap, AllocBuffer, TranslateMap, Cmdline, Modules,
       Handoff, Ended

LEMMA FlagsOfMemory ==
  /\ \A t \in {"LoaderData", "LoaderCode", "Conventional", "BootServicesData"} :
       MapFlags(t) \subseteq {"present", "writable", "nx"} /\ Usable \subseteq MapFlags(t)
BY DEF MapFlags, Usable

(* What a step may do to memory keeps the types.                           *)
LEMMA AllocData ==
  ASSUME Data, NEW b \in Blocks, mem_alloc(b), fetched' = fetched
  PROVE  Data'
<1>1. PICK o \in Origins : /\ memory' = [memory EXCEPT ![b] = o]
                           /\ space' = [space EXCEPT ![b] = IF fetched THEN MapFlags(o) ELSE {}]
  BY DEF mem_alloc
<1>2. o \in {"LoaderData", "Conventional", "BootServicesData"} /\ (~fetched => o = "LoaderData")
  BY <1>1 DEF Origins
<1>3. MapFlags(o) \subseteq {"present", "writable", "nx"} /\ Usable \subseteq MapFlags(o)
  BY <1>2, FlagsOfMemory
<1>4. b \notin Image
  BY DEF Blocks, Image
<1>5. QED
  BY <1>1, <1>2, <1>3, <1>4 DEF Data, Live, Nowhere, Image

LEMMA FreeData ==
  ASSUME Data, NEW bs \in SUBSET Blocks, mem_free(bs), fetched' = fetched
  PROVE  Data'
<1>1. \A b \in Image : b \notin bs
  BY DEF Blocks, Image
<1>2. QED
  BY <1>1 DEF Data, Live, Nowhere, Image, mem_free

LEMMA MapData ==
  ASSUME Data, NEW b \in Blocks, NEW f \in SUBSET {"present", "writable", "nx"},
         Usable \subseteq f, space' = [space EXCEPT ![b] = f],
         memory' = memory, fetched' = fetched
  PROVE  Data'
BY DEF Data, Live

LEMMA SameData ==
  ASSUME Data, UNCHANGED <<memory, space, fetched>>
  PROVE  Data'
BY DEF Data, Live

LEMMA FetchData ==
  ASSUME Data, ~fetched, MapMemory
  PROVE  Data'
<1>1. CASE UNCHANGED <<memory, space, fetched>>
  BY <1>1, SameData
<1>2. CASE /\ fetched' = TRUE /\ memory' = memory /\ ~fetched
           /\ space' = [b \in DOMAIN memory |->
                          IF memory[b] = Nowhere THEN {} ELSE MapFlags(memory[b])]
  <2>1. \A b \in Live \union Image : memory[b] # Nowhere /\ Usable \subseteq MapFlags(memory[b])
    BY <1>2, FlagsOfMemory DEF Data, Live, Image, Nowhere
  <2>2. \A b \in DOMAIN memory : MapFlags(memory[b]) \subseteq {"present", "writable", "nx"}
                                 \/ memory[b] = Nowhere
    BY FlagsOfMemory DEF Data
  <2>3. QED
    BY <1>2, <2>1, <2>2 DEF Data, Live
<1>3. QED
  BY <1>1, <1>2 DEF MapMemory

(* Each action by itself.                                                  *)
LEMMA DataStep ==
  ASSUME Data, Control, Step
  PROVE  Data'
<1> USE DEF Take, Fail
<1>1. CASE \/ Take("fs", "fs", "fsdata", "halt") \/ Take("fsdata", "fsdata", "drive", "unmount")
           \/ Take("drive", "drive", "bootlog", "unmount")
           \/ Take("bootlog", "bootlog", "config", "config")
           \/ Take("kbuf", "kernel_file", "pagemap", "pagemap")
           \/ Take("pm", "pagemap", "size", "halt") \/ Take("efi_map", "size", "fetch", "map_pm")
           \/ Take("map", "map", "free_buffer", "fault")
           \/ Take("cmdline", "cmdline", "framebuffer", "framebuffer")
           \/ Take("modules", "modules", "kernel_map", "kernel_map")
  BY <1>1, AllocData, SameData DEF Blocks
<1>2. CASE OpenVolume \/ Timeout \/ Round \/ Fetch \/ MapMore("hhdm", {"kernel", "reboot"})
  BY <1>2, SameData DEF OpenVolume, Timeout, Round, Fetch, MapMore
<1>3. CASE Unmount \/ FreeConfig \/ FreeBuffer \/ FreeKernelFile
  BY <1>3, FreeData DEF Unmount, FreeConfig, FreeBuffer, FreeKernelFile, Blocks
<1>4. CASE FindConfig \/ Screen
  BY <1>4, AllocData, SameData DEF FindConfig, Screen, Blocks
<1>5. CASE font_init
  BY <1>5, AllocData, FreeData, SameData DEF font_init, Blocks
<1>6. CASE MapMemory
  BY <1>6, FetchData DEF MapMemory, Control
<1>7. CASE Stack
  BY <1>7, AllocData, MapData, SameData DEF Stack, map_pages, Blocks, Usable
<1>8. CASE elf_load \/ Framebuffer \/ aurix_get_memmap
  BY <1>8, AllocData, SameData DEF elf_load, Framebuffer, aurix_get_memmap, MapMore, Blocks
<1>9. QED
  BY <1>1, <1>2, <1>3, <1>4, <1>5, <1>6, <1>7, <1>8 DEF Step

LEMMA ControlStep ==
  ASSUME Control, Step
  PROVE  Control'
<1> USE DEF Control, Places, Running, Early, Config, Menu, Loaded, Leaving, ToElf, Map
<1>1. CASE \/ Take("fs", "fs", "fsdata", "halt") \/ Take("fsdata", "fsdata", "drive", "unmount")
           \/ Take("drive", "drive", "bootlog", "unmount")
           \/ Take("bootlog", "bootlog", "config", "config")
           \/ Take("kbuf", "kernel_file", "pagemap", "pagemap")
           \/ Take("pm", "pagemap", "size", "halt") \/ Take("efi_map", "size", "fetch", "map_pm")
           \/ Take("map", "map", "free_buffer", "fault")
           \/ Take("cmdline", "cmdline", "framebuffer", "framebuffer")
           \/ Take("modules", "modules", "kernel_map", "kernel_map")
  BY <1>1 DEF Take
<1>2. CASE OpenVolume \/ Timeout \/ Round \/ Fetch \/ MapMore("hhdm", {"kernel", "reboot"})
  BY <1>2 DEF OpenVolume, Timeout, Round, Fetch, MapMore
<1>3. CASE Unmount \/ FreeConfig \/ FreeBuffer \/ FreeKernelFile
  BY <1>3 DEF Unmount, FreeConfig, FreeBuffer, FreeKernelFile
<1>4. CASE FindConfig \/ Screen \/ font_init
  BY <1>4 DEF FindConfig, Screen, font_init, Take
<1>5. CASE MapMemory
  BY <1>5 DEF MapMemory
<1>6. CASE Stack \/ elf_load \/ Framebuffer \/ aurix_get_memmap
  BY <1>6 DEF Stack, map_pages, elf_load, Framebuffer, aurix_get_memmap, MapMore, Take
<1>7. QED
  BY <1>1, <1>2, <1>3, <1>4, <1>5, <1>6 DEF Step

(* The blocks that are there, after each kind of step.                     *)
LEMMA AllocLive ==
  ASSUME Data, NEW b \in Blocks, mem_alloc(b)
  PROVE  Live' = Live \union {b} /\ failed' = failed
<1>1. PICK o \in Origins : memory' = [memory EXCEPT ![b] = o]
  BY DEF mem_alloc
<1>2. o # Nowhere
  BY DEF Origins, Nowhere
<1>3. QED
  BY <1>1, <1>2 DEF Live, Data, mem_alloc

LEMMA FreeLive ==
  ASSUME Data, NEW bs \in SUBSET Blocks, mem_free(bs)
  PROVE  Live' = Live \ bs
BY DEF Live, Data, mem_free

LEMMA FailLive ==
  ASSUME NEW what, Fail(what)
  PROVE  Live' = Live /\ failed' = failed \union {what}
BY DEF Live, Fail

LEMMA SameLive ==
  ASSUME UNCHANGED memory
  PROVE  Live' = Live
BY DEF Live

LEMMA HasStep ==
  ASSUME Data, Control, Has, Step
  PROVE  Has'
<1> USE AllocLive, FreeLive, FailLive, SameLive
<1> USE DEF Has, Early, Config, Menu, Loaded, Leaving, ToElf, Map, Blocks
<1>1. CASE \/ Take("fs", "fs", "fsdata", "halt") \/ Take("fsdata", "fsdata", "drive", "unmount")
           \/ Take("drive", "drive", "bootlog", "unmount")
           \/ Take("bootlog", "bootlog", "config", "config")
           \/ Take("kbuf", "kernel_file", "pagemap", "pagemap")
  BY <1>1 DEF Take
<1>2. CASE \/ Take("pm", "pagemap", "size", "halt") \/ Take("efi_map", "size", "fetch", "map_pm")
           \/ Take("map", "map", "free_buffer", "fault")
           \/ Take("cmdline", "cmdline", "framebuffer", "framebuffer")
           \/ Take("modules", "modules", "kernel_map", "kernel_map")
  BY <1>2 DEF Take
<1>3. CASE OpenVolume \/ Timeout \/ Round \/ Fetch \/ MapMore("hhdm", {"kernel", "reboot"})
  BY <1>3 DEF OpenVolume, Timeout, Round, Fetch, MapMore
<1>4. CASE Unmount \/ FreeConfig \/ FreeBuffer \/ FreeKernelFile
  BY <1>4 DEF Unmount, FreeConfig, FreeBuffer, FreeKernelFile
<1>5. CASE FindConfig \/ Screen \/ font_init
  BY <1>5 DEF FindConfig, Screen, font_init, Take
<1>6. CASE MapMemory
  BY <1>6 DEF MapMemory
<1>7. CASE Stack \/ elf_load
  BY <1>7 DEF Stack, map_pages, elf_load, MapMore, Take
<1>8. CASE Framebuffer \/ aurix_get_memmap
  BY <1>8 DEF Framebuffer, aurix_get_memmap, MapMore, Take
<1>9. QED
  BY <1>1, <1>2, <1>3, <1>4, <1>5, <1>6, <1>7, <1>8 DEF Step

LEMMA GoneStep ==
  ASSUME Data, Control, Gone, Failures, Step
  PROVE  Gone'
<1> USE AllocLive, FreeLive, FailLive, SameLive
<1> USE DEF Control, Gone, Failures, Dispensable, Optional, Running, Early, Config, Menu, Loaded, Leaving,
            ToElf, Map, Blocks
<1>1. CASE \/ Take("fs", "fs", "fsdata", "halt") \/ Take("fsdata", "fsdata", "drive", "unmount")
           \/ Take("drive", "drive", "bootlog", "unmount")
           \/ Take("bootlog", "bootlog", "config", "config")
           \/ Take("kbuf", "kernel_file", "pagemap", "pagemap")
  BY <1>1 DEF Take
<1>2. CASE \/ Take("pm", "pagemap", "size", "halt") \/ Take("efi_map", "size", "fetch", "map_pm")
           \/ Take("map", "map", "free_buffer", "fault")
           \/ Take("cmdline", "cmdline", "framebuffer", "framebuffer")
           \/ Take("modules", "modules", "kernel_map", "kernel_map")
  BY <1>2 DEF Take
<1>3. CASE OpenVolume \/ Timeout \/ Round \/ Fetch \/ MapMore("hhdm", {"kernel", "reboot"})
  BY <1>3 DEF OpenVolume, Timeout, Round, Fetch, MapMore
<1>4. CASE Unmount \/ FreeConfig \/ FreeBuffer \/ FreeKernelFile
  BY <1>4 DEF Unmount, FreeConfig, FreeBuffer, FreeKernelFile
<1>5. CASE FindConfig \/ Screen \/ font_init
  <2>1. CASE FindConfig
    BY <2>1 DEF FindConfig
  <2>2. CASE Screen
    BY <2>2 DEF Screen, Take
  <2>3. CASE font_init
    BY <2>3 DEF font_init, Take
  <2>4. QED
    BY <1>5, <2>1, <2>2, <2>3
<1>6. CASE MapMemory
  BY <1>6 DEF MapMemory
<1>7. CASE Stack \/ elf_load
  BY <1>7 DEF Stack, map_pages, elf_load, MapMore, Take
<1>8. CASE Framebuffer \/ aurix_get_memmap
  <2>1. CASE Framebuffer
    BY <2>1 DEF Framebuffer, MapMore, Take
  <2>2. CASE aurix_get_memmap
    BY <2>2 DEF aurix_get_memmap, Take
  <2>3. QED
    BY <1>8, <2>1, <2>2
<1>9. QED
  BY <1>1, <1>2, <1>3, <1>4, <1>5, <1>6, <1>7, <1>8 DEF Step

LEMMA FailuresStep ==
  ASSUME Data, Control, Gone, Failures, Step
  PROVE  Failures'
<1> USE AllocLive, FreeLive, FailLive, SameLive
<1> USE DEF Control, Gone, Failures, Dispensable, Optional, Running, Early, Config, Menu, Loaded, Leaving,
            ToElf, Map, Blocks
<1>1. CASE \/ Take("fs", "fs", "fsdata", "halt") \/ Take("fsdata", "fsdata", "drive", "unmount")
           \/ Take("drive", "drive", "bootlog", "unmount")
           \/ Take("bootlog", "bootlog", "config", "config")
           \/ Take("kbuf", "kernel_file", "pagemap", "pagemap")
  BY <1>1 DEF Take
<1>2. CASE \/ Take("pm", "pagemap", "size", "halt") \/ Take("efi_map", "size", "fetch", "map_pm")
           \/ Take("map", "map", "free_buffer", "fault")
           \/ Take("cmdline", "cmdline", "framebuffer", "framebuffer")
           \/ Take("modules", "modules", "kernel_map", "kernel_map")
  BY <1>2 DEF Take
<1>3. CASE OpenVolume \/ Timeout \/ Round \/ Fetch \/ MapMore("hhdm", {"kernel", "reboot"})
  BY <1>3 DEF OpenVolume, Timeout, Round, Fetch, MapMore
<1>4. CASE Unmount \/ FreeConfig \/ FreeBuffer \/ FreeKernelFile
  BY <1>4 DEF Unmount, FreeConfig, FreeBuffer, FreeKernelFile
<1>5. CASE FindConfig \/ Screen \/ font_init
  <2>1. CASE FindConfig
    BY <2>1 DEF FindConfig
  <2>2. CASE Screen
    BY <2>2 DEF Screen, Take
  <2>3. CASE font_init
    BY <2>3 DEF font_init, Take
  <2>4. QED
    BY <1>5, <2>1, <2>2, <2>3
<1>6. CASE MapMemory
  BY <1>6 DEF MapMemory
<1>7. CASE Stack \/ elf_load
  BY <1>7 DEF Stack, map_pages, elf_load, MapMore, Take
<1>8. CASE Framebuffer \/ aurix_get_memmap
  <2>1. CASE Framebuffer
    BY <2>1 DEF Framebuffer, MapMore, Take
  <2>2. CASE aurix_get_memmap
    BY <2>2 DEF aurix_get_memmap, Take
  <2>3. QED
    BY <1>8, <2>1, <2>2
<1>9. QED
  BY <1>1, <1>2, <1>3, <1>4, <1>5, <1>6, <1>7, <1>8 DEF Step

LEMMA IInvInit == Init => IInv
<1> SUFFICES ASSUME Init PROVE IInv
  OBVIOUS
<1>1. /\ at = "volume" /\ ~fetched /\ failed = {} /\ fetched \in BOOLEAN
      /\ space \in [Blocks \union Image -> SUBSET {"present", "writable", "nx"}]
  BY DEF Init
<1>2. \A b \in Blocks \union Image :
        memory[b] \in {Nowhere, "LoaderData", "LoaderCode", "Conventional", "BootServicesData"}
  BY DEF Init
<1>3. \A b \in Blocks : memory[b] = Nowhere
  BY DEF Init, Blocks
<1>4. memory["code"] = "LoaderCode" /\ memory["params"] = "BootServicesData"
  BY DEF Init, Image
<1>5. memory \in [Blocks \union Image ->
                   {Nowhere, "LoaderData", "LoaderCode", "Conventional", "BootServicesData"}]
  BY <1>2 DEF Init
<1>6. Live = {}
  BY <1>3 DEF Live
<1>7. Data /\ Control
  BY <1>1, <1>4, <1>5, <1>6 DEF Data, Control, Places, Running, Early, Config, Menu, Map,
     ToElf, Leaving
<1>8. Has /\ Gone /\ Failures
  BY <1>1, <1>6 DEF Has, Gone, Failures, Running, Early, Config, Menu, Map, ToElf, Loaded,
     Leaving
<1>9. QED
  BY <1>7, <1>8 DEF IInv

LEMMA IInvStep ==
  ASSUME IInv, [Next]_vars
  PROVE  IInv'
<1>1. CASE UNCHANGED vars
  BY <1>1 DEF vars, IInv, Data, Control, Has, Gone, Failures, Live
<1>2. CASE Step
  BY <1>2, DataStep, ControlStep, HasStep, GoneStep, FailuresStep DEF IInv
<1>3. QED
  BY <1>1, <1>2, NextIsStep

LEMMA Invariance == Spec => []IInv
BY IInvInit, IInvStep, PTL DEF Spec

-----------------------------------------------------------------------------
(* A kernel that is entered can reach all it is handed, whatever failed    *)
(* before and wherever the firmware placed the blocks: they are allocated  *)
(* in writable memory before get_memmap() maps it, or in memory that it    *)
(* has mapped already.                                                     *)
THEOREM KernelsAreReady == Spec => []KernelIsReady
<1>1. IInv => KernelIsReady
  BY DEF IInv, Data, Control, Has, KernelIsReady, Leaving, Usable, Image, Live
<1>2. QED
  BY <1>1, Invariance, PTL

(* Files and the firmware's map are freed on every way to the kernel, the  *)
(* font when the menu cannot use it, and the volume when it is not         *)
(* mounted: NothingForgotten.                                              *)
THEOREM FilesAreFreed == Spec => []NothingForgotten
<1>1. IInv => NothingForgotten
  BY DEF IInv, Control, Gone, NothingForgotten, Leaving, Running, Live, Blocks
<1>2. QED
  BY <1>1, Invariance, PTL

(* A part that the kernel needs always stops the boot, and one that it can *)
(* do without never does, but for a fault after a font or a framebuffer    *)
(* that failed: OnlyNeededPartsStop.                                       *)
THEOREM NeededPartsStop == Spec => []OnlyNeededPartsStop
<1>1. IInv => OnlyNeededPartsStop
  BY DEF IInv, Control, Failures, OnlyNeededPartsStop, Dispensable, Optional, Leaving
<1>2. QED
  BY <1>1, Invariance, PTL

-----------------------------------------------------------------------------
(* GrowFindsBuffer rests on another invariant: only blocks are recorded,   *)
(* and no page tables before get_memmap() maps the memory.                 *)
Unmapped == Early \union Config \union Menu
              \union {"kernel_file", "pagemap", "size", "fetch", "identity"}
Slots ==
  /\ at \in Places
  /\ recorded \in SUBSET Blocks
  /\ at \in Unmapped => tables = 0
  /\ GrowFindsBuffer

LEMMA FiveAreFinite ==
  ASSUME NEW a, NEW b, NEW c, NEW d, NEW e
  PROVE  IsFiniteSet({a, b, c, d, e})
<1>1. IsFiniteSet({a})
  BY FS_Singleton
<1>2. IsFiniteSet({a} \union {b})
  BY <1>1, FS_AddElement
<1>3. IsFiniteSet(({a} \union {b}) \union {c})
  BY <1>2, FS_AddElement
<1>4. IsFiniteSet((({a} \union {b}) \union {c}) \union {d})
  BY <1>3, FS_AddElement
<1>5. IsFiniteSet(((({a} \union {b}) \union {c}) \union {d}) \union {e})
  BY <1>4, FS_AddElement
<1>6. {a, b, c, d, e} = ((({a} \union {b}) \union {c}) \union {d}) \union {e}
  OBVIOUS
<1>7. QED
  BY <1>5, <1>6

LEMMA BlocksAreFinite == IsFiniteSet(Blocks)
<1> DEFINE A == {"fs", "fsdata", "drive", "bootlog", "config"}
           B == {"ui_modes", "font", "kbuf", "pm", "efi_map"}
           C == {"map", "stack", "kernel", "cmdline", "modes"}
           D == {"modules", "mmap", "mmap", "mmap", "mmap"}
<1>1. IsFiniteSet(A) /\ IsFiniteSet(B) /\ IsFiniteSet(C) /\ IsFiniteSet(D)
  BY FiveAreFinite
<1>2. Blocks = ((A \union B) \union C) \union D
  BY DEF Blocks
<1> HIDE DEF A, B, C, D
<1>3. IsFiniteSet(A \union B)
  BY <1>1, FS_Union
<1>4. IsFiniteSet((A \union B) \union C)
  BY <1>1, <1>3, FS_Union
<1>5. IsFiniteSet(((A \union B) \union C) \union D)
  BY <1>1, <1>4, FS_Union
<1>6. QED
  BY <1>2, <1>5

(* A table with a slot for each block has one for the next block.          *)
LEMMA SlotForNext ==
  ASSUME MAX_ALLOCATIONS >= Cardinality(Blocks), recorded \in SUBSET Blocks, tables = 0,
         NEW b \in Blocks, b \notin recorded
  PROVE  Room > 0
<1>1. recorded \union {b} \in SUBSET Blocks
  OBVIOUS
<1>2. IsFiniteSet(recorded) /\ IsFiniteSet(recorded \union {b})
  BY <1>1, BlocksAreFinite, FS_Subset
<1>3. Cardinality(recorded \union {b}) <= Cardinality(Blocks)
  BY <1>1, BlocksAreFinite, FS_Subset
<1>4. Cardinality(recorded \union {b}) = Cardinality(recorded) + 1
  BY <1>2, FS_AddElement
<1>5. Cardinality(recorded) \in Nat /\ Cardinality(Blocks) \in Nat
  BY <1>2, BlocksAreFinite, FS_CardinalityType
<1>6. QED
  BY <1>3, <1>4, <1>5, BootAssumption DEF Room

LEMMA RecordedStays ==
  ASSUME NEW b \in Blocks, recorded \in SUBSET Blocks, mem_alloc(b)
  PROVE  recorded' \in SUBSET Blocks /\ recorded \subseteq recorded'
BY DEF mem_alloc

LEMMA SlotsStep ==
  ASSUME MAX_ALLOCATIONS >= Cardinality(Blocks), Slots, Step
  PROVE  Slots'
<1> USE RecordedStays
<1> USE DEF Slots, GrowFindsBuffer, Places, Running, Unmapped, Early, Config, Menu, Loaded,
            Leaving, ToElf, Map, Blocks
<1>1. CASE \/ Take("fs", "fs", "fsdata", "halt") \/ Take("fsdata", "fsdata", "drive", "unmount")
           \/ Take("drive", "drive", "bootlog", "unmount")
           \/ Take("bootlog", "bootlog", "config", "config")
           \/ Take("kbuf", "kernel_file", "pagemap", "pagemap")
  BY <1>1 DEF Take, Fail
<1>2. CASE \/ Take("pm", "pagemap", "size", "halt")
           \/ Take("map", "map", "free_buffer", "fault")
           \/ Take("cmdline", "cmdline", "framebuffer", "framebuffer")
           \/ Take("modules", "modules", "kernel_map", "kernel_map")
  BY <1>2 DEF Take, Fail
<1>3. CASE Take("efi_map", "size", "fetch", "map_pm")
  <2>1. CASE mem_alloc("efi_map") /\ at = "size" /\ at' = "fetch" /\ UNCHANGED tables
    <3>1. "efi_map" \notin recorded => Room > 0
      BY <2>1, SlotForNext
    <3>2. "efi_map" \in recorded'
      BY <2>1, <3>1 DEF mem_alloc
    <3>3. QED
      BY <2>1, <3>2
  <2>2. CASE Fail("efi_map") /\ at' = "map_pm"
    BY <2>2 DEF Fail
  <2>3. QED
    BY <1>3, <2>1, <2>2 DEF Take
<1>4. CASE OpenVolume \/ Timeout \/ Round \/ Fetch \/ MapMore("hhdm", {"kernel", "reboot"})
  BY <1>4 DEF OpenVolume, Timeout, Round, Fetch, MapMore
<1>5. CASE Unmount \/ FreeConfig \/ FreeBuffer \/ FreeKernelFile
  BY <1>5 DEF Unmount, FreeConfig, FreeBuffer, FreeKernelFile, mem_free
<1>6. CASE FindConfig
  BY <1>6 DEF FindConfig, Fail
<1>7. CASE Screen
  BY <1>7 DEF Screen, Take, Fail
<1>8. CASE font_init
  BY <1>8 DEF font_init, Take, Fail, mem_free
<1>9. CASE MapMemory
  BY <1>9 DEF MapMemory
<1>10. CASE Stack
  BY <1>10 DEF Stack, map_pages, Take, Fail
<1>11. CASE elf_load
  BY <1>11 DEF elf_load, MapMore, Fail
<1>12. CASE Framebuffer
  BY <1>12 DEF Framebuffer, MapMore, Take, Fail
<1>13. CASE aurix_get_memmap
  BY <1>13 DEF aurix_get_memmap, Take, Fail
<1>14. QED
  BY <1>1, <1>2, <1>3, <1>4, <1>5, <1>6, <1>7, <1>8, <1>9, <1>10, <1>11, <1>12, <1>13 DEF Step

(* In a table with a slot for each block of the loader, the buffer of the  *)
(* firmware's map is recorded when it may have to grow, however many page  *)
(* tables are allocated later: GrowFindsBuffer.                            *)
THEOREM BufferIsRecorded ==
  ASSUME MAX_ALLOCATIONS >= Cardinality(Blocks)
  PROVE  Spec => []GrowFindsBuffer
<1>1. Init => Slots
  BY DEF Init, Slots, GrowFindsBuffer, Places, Running, Early
<1>2. Slots /\ [Next]_vars => Slots'
  <2>1. CASE UNCHANGED vars
    BY <2>1 DEF vars, Slots, GrowFindsBuffer
  <2>2. CASE Slots /\ Step
    BY <2>2, SlotsStep
  <2>3. QED
    BY <2>1, <2>2, NextIsStep
<1>3. Slots => GrowFindsBuffer
  BY DEF Slots
<1>4. QED
  BY <1>1, <1>2, <1>3, PTL DEF Spec

-----------------------------------------------------------------------------
(* The files that the boot reads: module Sfs, for files of every length    *)
(* and any set of names.                                                   *)
InFile == {"info_size", "info_alloc", "info", "alloc", "read", "write"}
InRead == {"info_size", "info_alloc", "info", "alloc", "read"}

(* What is allocated, open and known at each point of the two functions.   *)
Held ==
  CASE pc = "open" -> {"wfilename"}
    [] pc = "info" -> {"fileinfo"}
    [] pc = "read" -> {"buffer"}
    [] pc = "idle" -> IF buffer = "block" THEN {"buffer"} ELSE {}
    [] OTHER -> {}

FileInv ==
  /\ TypeOK
  /\ owned = Held
  /\ given # "block"
  /\ pc \in InFile => handle = "open"
  /\ pc \in {"widen", "open"} => handle = "closed"
  /\ pc = "idle" /\ handle = "open" => op = "write" /\ status = "error"
  /\ pc \in InRead => op = "read" /\ disk[file] # Absent
  /\ pc = "write" => op = "write" /\ disk[file] # Absent
  /\ pc \notin {"read", "idle"} => buffer = given /\ total_read = 0
  /\ pc # "idle" => returned = 0
  /\ pc \in {"alloc", "read"} => len = disk[file] /\ len > 0
  /\ pc = "read" => buffer = "block" /\ total_read < len
  /\ pc = "idle" /\ op = "write" => buffer = given
  /\ ReadAllOrNothing

LEMMA InitFileInv == SfsInit => FileInv
BY SfsAssumption DEF SfsInit, FileInv, TypeOK, Held, InFile, InRead, ReadAllOrNothing, Absent

LEMMA NextFileInv == FileInv /\ [SfsNext]_sfs_vars => FileInv'
<1>1. SUFFICES ASSUME FileInv, [SfsNext]_sfs_vars  PROVE FileInv'
  OBVIOUS
<1> USE SfsAssumption DEF FileInv, TypeOK, Held, InFile, InRead, ReadAllOrNothing, Absent
<1>2. ASSUME NEW o \in {"read", "write"}, NEW f \in Files, NEW b \in Buffers, Call(o, f, b)
      PROVE  FileInv'
  BY <1>1, <1>2 DEF Call
<1>3. CASE Widen
  <2>1. /\ pc = "widen" /\ owned = {}
        /\ UNCHANGED <<disk, op, file, given, len, total_read, buffer, handle, status>>
    BY <1>1, <1>3 DEF Widen, data
  <2>2. \/ pc' = "open" /\ owned' = {"wfilename"} /\ returned' = returned
        \/ pc' = "idle" /\ owned' = {} /\ returned' = 0
    BY <2>1, <1>3 DEF Widen, Return
  <2>3. QED
    BY <1>1, <2>1, <2>2
<1>4. CASE Open
  BY <1>1, <1>4 DEF Open, Return
<1>5. CASE InfoSize
  BY <1>1, <1>5 DEF InfoSize, Return, Close, data
<1>6. CASE InfoAlloc
  BY <1>1, <1>6 DEF InfoAlloc, Return, Close, data
<1>7. CASE Info
  BY <1>1, <1>7 DEF Info, Return, Close
<1>8. CASE Alloc
  BY <1>1, <1>8 DEF Alloc, Return, Close, data
<1>9. CASE ReadFails
  BY <1>1, <1>9 DEF ReadFails, Return, Closing
<1>10. ASSUME NEW n \in 1 .. MaxLen, Read(n)  PROVE FileInv'
  BY <1>1, <1>10 DEF Read, Return, Closing
<1>11. CASE Write
  BY <1>1, <1>11 DEF Write, Return, Close
<1>12. CASE UNCHANGED sfs_vars
  BY <1>1, <1>12 DEF sfs_vars
<1>13. QED
  BY <1>1, <1>2, <1>3, <1>4, <1>5, <1>6, <1>7, <1>8, <1>9, <1>10, <1>11, <1>12
     DEF SfsNext, SfsStep

LEMMA FilesInvariance == SfsSpec => []FileInv
BY InitFileInv, NextFileInv, PTL DEF SfsSpec

(* The variables keep their types, and no read overruns its block.         *)
THEOREM FilesKeepTypes == SfsSpec => []TypeOK
<1>1. FileInv => TypeOK
  BY DEF FileInv
<1>2. QED
  BY <1>1, FilesInvariance, PTL

(* A read hands over the whole file, or nothing.                           *)
THEOREM ReadsAreWhole == SfsSpec => []ReadAllOrNothing
<1>1. FileInv => ReadAllOrNothing
  BY DEF FileInv
<1>2. QED
  BY <1>1, FilesInvariance, PTL

(* Nothing stays allocated or open, whichever call fails.                  *)
THEOREM NothingIsLeft == SfsSpec => []NothingLeft
<1>1. FileInv => NothingLeft
  BY DEF FileInv, NothingLeft, Held, InFile
<1>2. QED
  BY <1>1, FilesInvariance, PTL

(* CallAdvances: no call takes more steps than a file has bytes and six.   *)
THEOREM CallsEnd == SfsSpec => CallAdvances
<1>1. ASSUME FileInv, [SfsNext]_sfs_vars, pc # "idle", sfs_vars' # sfs_vars
      PROVE  Left' \in 0 .. Left - 1
  <2>1. SfsStep
    <3>1. SfsNext
      BY <1>1
    <3>2. QED
      BY <1>1, <3>1 DEF SfsNext, Call
  <2>2. /\ len \in 0 .. MaxLen /\ MaxLen \in Nat
        /\ pc \in {"alloc", "read"} => len > 0
        /\ pc = "read" => total_read \in 0 .. len - 1
        /\ pc \in InRead \ {"read"} => total_read = 0
    BY <1>1, SfsAssumption DEF FileInv, TypeOK, InRead
  <2>3. CASE Widen
    BY <2>2, <2>3 DEF Widen, Return, Left
  <2>4. CASE Open
    BY <2>2, <2>4 DEF Open, Return, Left
  <2>5. CASE InfoSize
    BY <2>2, <2>5 DEF InfoSize, Return, Left
  <2>6. CASE InfoAlloc
    BY <2>2, <2>6 DEF InfoAlloc, Return, Left
  <2>7. CASE Info
    BY <2>2, <2>7 DEF Info, Return, Left
  <2>8. CASE Alloc
    BY <2>2, <2>8 DEF Alloc, Return, Left, data, InRead
  <2>9. CASE ReadFails
    BY <2>2, <2>9 DEF ReadFails, Return, Left
  <2>10. ASSUME NEW n \in 1 .. MaxLen, Read(n)  PROVE Left' \in 0 .. Left - 1
    BY <2>2, <2>10 DEF Read, Return, Closing, Left
  <2>11. CASE Write
    BY <2>2, <2>11 DEF Write, Return, Left
  <2>12. QED
    BY <2>1, <2>3, <2>4, <2>5, <2>6, <2>7, <2>8, <2>9, <2>10, <2>11 DEF SfsStep
<1>2. FileInv /\ [SfsNext]_sfs_vars => [pc # "idle" => Left' \in 0 .. Left - 1]_sfs_vars
  BY <1>1
<1>3. QED
  BY <1>2, FilesInvariance, PTL DEF SfsSpec, CallAdvances
=============================================================================
