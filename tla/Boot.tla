-------------------------------- MODULE Boot --------------------------------
(***************************************************************************)
(* From axboot_init() to the kernel: src/common/init.c, sfs_init() of      *)
(* src/common/fs/uefi_sfs.c, src/common/config/config.c, ui_init() of      *)
(* src/common/ui/ui.c, loader.c and aurix_load() of                        *)
(* src/common/proto/aurix.c, with the built-in entries and no modules.     *)
(*                                                                         *)
(* The components that have modules of their own are one or a few actions  *)
(* here. What the parts share is kept: the blocks that are allocated, the  *)
(* slots of the allocation table (module Mman), the moment at which memory *)
(* is mapped (module MemmapTranslate), and every failure.                  *)
(***************************************************************************)
EXTENDS Integers, FiniteSets, EfiMemoryType

CONSTANTS
  MAX_ALLOCATIONS,  \* slots of the allocation table
  TableCounts,      \* page tables that one call of map_pages() may need
  ConfigPaths,      \* files that config_init() tries
  Timeouts          \* of the menu: 0 in the source, 30 once the menu is ready

ASSUME BootAssumption ==
  /\ MAX_ALLOCATIONS \in Nat \ {0}
  /\ TableCounts \subseteq Nat
  /\ ConfigPaths \in Nat \ {0}
  /\ Timeouts \subseteq Nat

VARIABLES
  at,        \* the call that comes next, or where it ended
  path,      \* number of the configuration file
  memory,    \* block -> type of its memory when the map was fetched
  recorded,  \* blocks with a slot in the allocation table
  tables,    \* slots that page tables have
  space,     \* block -> flags of its identity mapping
  fetched,   \* has get_memmap() mapped the memory?
  failed     \* what has failed so far

vars == <<at, path, memory, recorded, tables, space, fetched, failed>>

Nowhere == "none"
Blocks == {"fs", "fsdata", "drive", "bootlog", "config", "ui_modes", "font", "kbuf", "pm",
           "efi_map", "map", "stack", "kernel", "cmdline", "modes", "modules", "mmap"}
Image  == {"code", "params"}  \* the loader itself: its code, and the parameters on its stack

Live == {b \in Blocks : memory[b] # Nowhere}
Room == MAX_ALLOCATIONS - (Cardinality(recorded) + tables)

-----------------------------------------------------------------------------
(* What the steps are made of.                                             *)

(* Where a block may lie: in memory that was free when the map was         *)
(* fetched, or that the firmware has freed since.                          *)
Origins == IF fetched THEN {"Conventional", "BootServicesData"} ELSE {"LoaderData"}

mem_alloc(b) ==
  /\ \E o \in Origins :
       /\ memory' = [memory EXCEPT ![b] = o]
       /\ space' = [space EXCEPT ![b] = IF fetched THEN MapFlags(o) ELSE {}]
  /\ recorded' = IF Room > 0 THEN recorded \union {b} ELSE recorded
  /\ UNCHANGED failed

Fail(what) == failed' = failed \union {what} /\ UNCHANGED <<memory, recorded, space>>

mem_free(bs) ==
  /\ memory' = [b \in DOMAIN memory |-> IF b \in bs THEN Nowhere ELSE memory[b]]
  /\ recorded' = recorded \ bs
  /\ space' = [b \in DOMAIN space |-> IF b \in bs THEN {} ELSE space[b]]

(* One allocation: next if it works, and without if not.                   *)
Take(b, here, next, without) ==
  /\ at = here
  /\ \/ mem_alloc(b) /\ at' = next
     \/ Fail(b) /\ at' = without
  /\ UNCHANGED <<path, tables, fetched>>

(* map_pages() may need new tables; those that find a slot are recorded.   *)
Tables == \E n \in TableCounts : tables' = tables + (IF n < Room THEN n ELSE Room)

(* map_pages() for block b. A table that cannot be allocated is cleared    *)
(* all the same, at address 0.                                             *)
map_pages(b, flags, here, next) ==
  /\ at = here
  /\ \/ /\ Tables /\ at' = next
        /\ space' = [space EXCEPT ![b] = flags]
        /\ UNCHANGED failed
     \/ at' = "fault" /\ failed' = failed \union {"table"} /\ UNCHANGED <<tables, space>>
  /\ UNCHANGED <<path, memory, recorded, fetched>>

(* The same for what no block here stands for.                             *)
MapMore(here, nexts) ==
  /\ at = here
  /\ \/ Tables /\ at' \in nexts /\ UNCHANGED failed
     \/ at' = "fault" /\ failed' = failed \union {"table"} /\ UNCHANGED tables
  /\ UNCHANGED <<path, memory, recorded, space, fetched>>

-----------------------------------------------------------------------------
Init ==
  /\ at = "volume" /\ path = 1 /\ recorded = {} /\ tables = 0
  /\ memory = [b \in Blocks \union Image |->
                 CASE b = "code" -> "LoaderCode"
                   [] b = "params" -> "BootServicesData"
                   [] OTHER -> Nowhere]
  /\ space = [b \in Blocks \union Image |-> {}]
  /\ fetched = FALSE /\ failed = {}

(* sfs_init(): three calls of the firmware, then three blocks. Without     *)
(* them vfs_init() fails, and axboot_init() halts.                         *)
OpenVolume ==
  /\ at = "volume"
  /\ \/ at' = "fs" /\ UNCHANGED failed
     \/ at' = "halt" /\ failed' = failed \union {"volume"}
  /\ UNCHANGED <<path, memory, recorded, tables, space, fetched>>

(* A failure takes back what the earlier steps have allocated.            *)
Unmount ==
  /\ at = "unmount"
  /\ mem_free({"fs", "fsdata"})
  /\ at' = "halt"
  /\ UNCHANGED <<path, tables, fetched, failed>>

sfs_init == \/ OpenVolume
            \/ Take("fs", "fs", "fsdata", "halt")
            \/ Take("fsdata", "fsdata", "drive", "unmount")
            \/ Take("drive", "drive", "bootlog", "unmount")
            \/ Unmount

(* vfs_init() has nothing but the boot volume.                             *)
vfs_init == sfs_init

(* Mutant: no boot without a name for the log.                             *)
Bootlog_needed == Take("bootlog", "bootlog", "config", "halt")

(* config_init(): a name for the log, if there is memory for it.           *)
Bootlog == Take("bootlog", "bootlog", "config", "config")

(* The first file that can be read ends the search; its content is not     *)
(* looked at. Without any, config_init() never returns.                    *)
FindConfig ==
  /\ at = "config"
  /\ \/ mem_alloc("config") /\ at' = "free_config" /\ UNCHANGED path
     \/ path < ConfigPaths /\ path' = path + 1
        /\ UNCHANGED <<at, memory, recorded, space, failed>>
     \/ path = ConfigPaths /\ at' = "halt" /\ Fail("config") /\ UNCHANGED path
  /\ UNCHANGED <<tables, fetched>>

(* Mutant: it is freed only if it was the first path.                      *)
FreeConfig_first ==
  /\ at = "free_config"
  /\ mem_free(IF path = 1 THEN {"config"} ELSE {})
  /\ at' = "timeout" /\ path' = 1
  /\ UNCHANGED <<tables, fetched, failed>>

FreeConfig ==
  /\ at = "free_config"
  /\ mem_free({"config"})
  /\ at' = "timeout" /\ path' = 1
  /\ UNCHANGED <<tables, fetched, failed>>

config_init == Bootlog \/ FindConfig \/ FreeConfig

-----------------------------------------------------------------------------
(* Without a timeout the default entry is booted straight away.            *)
Timeout ==
  /\ at = "timeout"
  /\ \E t \in Timeouts : at' = IF t < 1 THEN "kernel_file" ELSE "menu"
  /\ UNCHANGED <<path, memory, recorded, tables, space, fetched, failed>>

(* ui_init() needs a framebuffer; see Framebuffer for its failures.        *)
Screen ==
  \/ Take("ui_modes", "menu", "font", "fault")
  \/ /\ at = "menu"
     /\ failed' = failed \union {"screen"} /\ at' \in {"halt", "fault"}
     /\ UNCHANGED <<path, memory, recorded, tables, space, fetched>>

(* font_init(): the file, then its selection; a file that will not do is   *)
(* freed. Without a font there is no callback for the events.              *)
font_init ==
  \/ Take("font", "font", "select", "no_callback")
  \/ /\ at = "select"
     /\ \/ at' = "events" /\ UNCHANGED <<memory, recorded, space, failed>>
        \/ /\ mem_free({"font"})
           /\ failed' = failed \union {"font"}
           /\ at' = "no_callback"
     /\ UNCHANGED <<path, tables, fetched>>

(* One round of the event loop. Enter boots the selection, which no key    *)
(* moves from the default entry; any other event goes to the callback.     *)
Round ==
  /\ \/ at = "events" /\ at' \in {"events", "kernel_file"}
     \/ at = "no_callback" /\ at' \in {"no_callback", "fault", "kernel_file"}
  /\ UNCHANGED <<path, memory, recorded, tables, space, fetched, failed>>

ui_init == Screen \/ font_init \/ Round

-----------------------------------------------------------------------------
(* aurix_load(). The result of vfs_read() is not looked at.                *)
ReadKernel == Take("kbuf", "kernel_file", "pagemap", "pagemap")

(* Mutant: the tables are allocated along with the page map.               *)
create_pagemap_full ==
  /\ at = "pagemap"
  /\ tables' = Room - 1
  /\ mem_alloc("pm") /\ at' = "size"
  /\ UNCHANGED <<path, fetched>>

create_pagemap == Take("pm", "pagemap", "size", "halt")

(* get_memmap(): a buffer for the firmware's map, and the calls that fill  *)
(* it. Any error but a buffer too small leaves the caller with no entries  *)
(* and the buffer allocated. What grows the buffer is in MemmapFetch.      *)
AllocBuffer == Take("efi_map", "size", "fetch", "map_pm")

Fetch ==
  /\ at = "fetch"
  /\ \/ at' = "identity" /\ UNCHANGED failed
     \/ at' = "map_pm" /\ failed' = failed \union {"fetch"}
  /\ UNCHANGED <<path, memory, recorded, tables, space, fetched>>

(* The memory is mapped as the fetched map has it, blocks and all.         *)
MapMemory ==
  /\ at = "identity"
  /\ \/ /\ Tables /\ at' = "map" /\ fetched' = TRUE
        /\ space' = [b \in DOMAIN memory |->
                       IF memory[b] = Nowhere THEN {} ELSE MapFlags(memory[b])]
        /\ UNCHANGED failed
     \/ /\ at' = "fault" /\ failed' = failed \union {"table"}
        /\ UNCHANGED <<tables, space, fetched>>
  /\ UNCHANGED <<path, memory, recorded>>

(* The translated map; a failure to allocate it is not noticed before it   *)
(* is cleared, at address 0.                                               *)
TranslateMap == Take("map", "map", "free_buffer", "fault")

FreeBuffer ==
  /\ at = "free_buffer"
  /\ mem_free({"efi_map"})
  /\ at' = "map_pm"
  /\ UNCHANGED <<path, tables, fetched, failed>>

get_memmap == AllocBuffer \/ Fetch \/ MapMemory \/ TranslateMap \/ FreeBuffer

Stack == \/ map_pages("pm", {"present", "writable"}, "map_pm", "stack")
         \/ Take("stack", "stack", "map_stack", "halt")
         \/ map_pages("stack", {"present", "writable", "nx"}, "map_stack", "elf")

(* elf_load() may fail before it allocates or after, for the file's sake.  *)
(* Without a file it reads at address 0: there is no ELF magic, or no      *)
(* memory.                                                                 *)
elf_load ==
  \/ /\ at = "elf"
     /\ \/ "kbuf" \in Live /\ mem_alloc("kernel") /\ at' = "segments"
        \/ Fail("elf") /\ at' = "halt"
        \/ "kbuf" \notin Live /\ Fail("elf") /\ at' = "fault"
     /\ UNCHANGED <<path, tables, fetched>>
  \/ MapMore("segments", {"free_kbuf"})

FreeKernelFile ==
  /\ at = "free_kbuf"
  /\ mem_free({"kbuf"})
  /\ at' = "cmdline"
  /\ UNCHANGED <<path, tables, fetched, failed>>

(* aurix_get_cmdline(): the variable may be missing, or change between the *)
(* two calls that read it; its block is then freed.                        *)
Cmdline == Take("cmdline", "cmdline", "framebuffer", "framebuffer")

(* get_framebuffer() reports no framebuffer, or allocates its list of      *)
(* modes and fills it, whether or not it was allocated. A framebuffer      *)
(* without a protocol is looked up at address 0.                           *)
Framebuffer ==
  \/ Take("modes", "framebuffer", "map_fb", "fault")
  \/ /\ at = "framebuffer"
     /\ Fail("framebuffer") /\ at' \in {"map_fb", "fault"}
     /\ UNCHANGED <<path, tables, fetched>>
  \/ MapMore("map_fb", {"modules"})

Modules == Take("modules", "modules", "kernel_map", "kernel_map")

(* No entries are an invalid parameter.                                    *)
aurix_get_memmap ==
  \/ fetched /\ Take("mmap", "kernel_map", "hhdm", "halt")
  \/ /\ at = "kernel_map" /\ ~fetched
     /\ at' = "halt"
     /\ UNCHANGED <<path, memory, recorded, tables, space, fetched, failed>>

(* The higher half map, then uefi_exit_bs() and the hand-over.             *)
Handoff == MapMore("hhdm", {"kernel", "reboot"})

aurix_load == \/ ReadKernel \/ create_pagemap \/ get_memmap \/ Stack
              \/ elf_load \/ FreeKernelFile \/ Cmdline \/ Framebuffer
              \/ Modules \/ aurix_get_memmap \/ Handoff

(* The built-in entry has the protocol of Aurix; nothing comes back.       *)
loader_load == aurix_load

Ended == at \in {"kernel", "reboot", "halt", "fault"} /\ UNCHANGED vars

Next == vfs_init \/ config_init \/ Timeout \/ ui_init \/ loader_load \/ Ended

Spec == Init /\ [][Next]_vars

-----------------------------------------------------------------------------
(* A kernel that is entered was read and loaded, and what it is handed can *)
(* be read and written where the loader saw it: also the blocks that were  *)
(* allocated after the memory had been mapped, in memory that was not the  *)
(* loader's then, and what the hand-over itself runs on.                   *)
KernelIsReady ==
  at = "kernel" =>
    /\ fetched
    /\ {"pm", "stack", "kernel", "mmap"} \subseteq Live
    /\ \A b \in Image \union ({"pm", "stack", "mmap", "cmdline"} \intersect Live) :
         {"present", "writable"} \subseteq space[b]

(* Only what the kernel needs, or the loader to its end, stays allocated:  *)
(* every file and the firmware's map are freed, whichever attempt and      *)
(* whichever failure came before; so is a font that the menu cannot use,   *)
(* and a volume that is not mounted.                                       *)
NothingForgotten ==
  /\ at = "kernel" =>
       /\ Live \intersect {"config", "kbuf", "efi_map"} = {}
       /\ "font" \in failed => "font" \notin Live
  /\ at = "halt" /\ failed \intersect {"fs", "fsdata", "drive"} # {} => Live = {}

(* The log's name, the command line and the modules never stop the boot by *)
(* failing, and a part that the kernel needs always does. Without a font   *)
(* or a framebuffer the loader does not give up, but it may go through a   *)
(* null pointer; nothing else does, and nothing does unless a part failed. *)
Dispensable == {"bootlog", "cmdline", "modules"}
Optional == Dispensable \union {"font", "framebuffer"}
OnlyNeededPartsStop ==
  /\ at = "kernel" => failed \subseteq Optional
  /\ at = "halt" => ~(failed \subseteq Optional)
  /\ at = "fault" => ~(failed \subseteq Dispensable)

(* ui.c:262, "Failed to initialize text UI, booting default selection...": *)
(* without a font the default selection is booted. It is not: the event    *)
(* loop calls the callback that was not set.                               *)
BootsWithoutFont == failed = {"font"} => at # "fault"

(* When the buffer of the firmware's map has to grow, the allocation table *)
(* still knows it: the page tables, of which there are more than the table *)
(* has slots, come later.                                                  *)
GrowFindsBuffer == at = "fetch" => "efi_map" \in recorded
=============================================================================
