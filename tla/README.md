# axboot in TLA+

AxBoot is the boot loader of AurixOS: a UEFI application (x86_64, and in part
aarch64 and BIOS) that reads a kernel from the boot volume, builds page tables
and a memory map for it, leaves the firmware's boot services and jumps to it.
This directory holds TLA+ models of its logic, the TLC runs that check them and
the theorems about them that TLAPS has proved. Paths below are those of the
repository; `file.c:n` is a line of it.

    tlc -workers 2 -config MmanCalls.cfg Mman     # a run: see "Runs"
    tlapm MmanProofs.tla                          # the proofs of a module

`PROJECT.json` lists, for every definition, the lines it models, for every
property a mutation of the code that breaks it, and the hazards the properties
are for. Definitions whose comment begins with "Mutant:" are those mutations;
no specification uses them.

Contents: [Inventory](#inventory) - [Plan](#plan) -
[Modules and code](#modules-and-code) - [Runs](#runs) - [Fairness](#fairness) -
[Proofs](#proofs) - [Limits of the code](#limits-of-the-code) -
[What is not modelled](#what-is-not-modelled)

## Inventory

The loader is one thread and keeps nothing between boots: `vfs_write()` has no
caller yet. What makes it hard is its surroundings: every firmware call may fail, the
firmware changes the memory map that the loader is reading, and a boot loader
has no debugger, no second attempt and hardly a test (the repository has none).
The order of the parts is that of a boot.

| part | sources | state | operations |
|---|---|---|---|
| UEFI entry and exit | `platform/uefi/entry.c`, `power.c` | system table, image handle; the key of the memory map | `uefi_entry()`, `uefi_exit_bs()`, `platform_reboot()` |
| boot sequence | `common/init.c`, `common/loader/loader.c` | none of its own | `axboot_init()`, `loader_load()` |
| allocator | `common/mm/mman.c` | `allocation_list`, 64 slots of address and size | `mem_alloc()`, `mem_realloc()`, `mem_free()` |
| files | `common/vfs/vfs.c`, `common/fs/uefi_sfs.c` | the mounted drive | `vfs_init()`, `vfs_read()`, `vfs_write()` |
| configuration | `common/config/config.c` | built-in entries, default, timeout, name of the log | `config_init()`, getters |
| firmware memory map | `platform/uefi/mm/memmap.c` | buffer, its size, the map key | `get_memmap()` |
| page tables | `arch/*/common/mm/paging.c` | the tree of tables | `create_pagemap()`, `map_pages()`, `map_page()`, `_map()` |
| ELF loader | `common/loader/elf.c` | the kernel's block and its mapping | `elf_load()` |
| Aurix protocol | `common/proto/aurix.c` | boot parameters, kernel's memory map | `aurix_load()`, `aurix_get_memmap()`, `mmap_insert_blank()`, `mmap_add_entry()` |
| hand-over | `arch/*/common/proto/aurix/handoff.c` | processor registers | `aurix_arch_handoff()` |
| menu | `common/ui/*.c`, `platform/uefi/ui/*.c` | selection, last time and mouse, screen | `ui_init()` and its event loop |
| devices | `platform/uefi/entry.c`, `ui/*.c`, `time/datetime.c` | the pointer and its resolution, the screen's mode | search for a pointer, `get_framebuffer()`, `get_keypress()`, `get_mouse()`, `get_datetime()` |
| lookups | `platform/uefi/acpi.c`, `driver.c`, `mount.c` | none | RSDP, SMBIOS, drivers |
| helpers | `common/lib`, `common/data`, `common/print.c`, `common/i18n` | the place of `strtok()` | strings, lists, formatting |

How they interact:

- Everything is a direct call. `axboot_init()` mounts the volume, looks for a
  configuration file and, with the built-in timeout of 0, passes the default
  entry to `aurix_load()`, which does not come back.
- All blocks come from `mem_alloc()` and so from the firmware's `AllocatePool()`.
  The allocator's table is shared: page tables, files and maps compete for its
  slots, and only `mem_realloc()`, which `get_memmap()` alone calls, needs them.
- The firmware's memory map is read twice: by `get_memmap()` for its content,
  which becomes the identity mapping and, after merging and carving, the
  kernel's map; and by `uefi_exit_bs()` for its key. Every allocation and every
  event between two calls changes it.
- `elf_load()` returns an address and a size, from which `aurix_get_memmap()`
  works out again which pages are the kernel's.

What is hard, and what makes each part correct:

| part | hard | correct when |
|---|---|---|
| allocator | a full table; a refused `FreePool()`; an address handed out again | blocks keep content and size, whatever fails, for as long as the table can know them; no copy overruns |
| map: fetch | growing the buffer grows the map; the loop ends by its count too | the firmware never writes past the buffer; what is used was filled by a call that succeeded; it returns |
| map: translation | a counter and a cursor; two switch statements over one type | every frame keeps its meaning; usable memory is mapped; the runtime services' memory is left alone |
| exit of boot services | events between the two calls; a bound on the tries | the kernel is entered exactly if the services are gone; no reboot without cause; it ends |
| merge, copy | deleting from the array that is walked; 32-bit sizes | no frame lost, added or retyped; nothing left to merge |
| carving | inserting into the array that is walked | every region is marked once; everything else stays as it was, in order |
| page tables | sharing, extending and replacing tables | each page is found where it was mapped last; no other page moves; only tables are written |
| files | eight calls that fail, each with its own things to undo; short reads | all of a file or nothing; nothing left behind; it returns |
| ELF loader | three computations of one layout | every byte in place with its permissions, inside the block, and marked |
| hand-over | a variable of the firmware that changes between its length and its content; assembly with undeclared registers | the kernel is told of the right tables and of whole boot arguments; it starts at its entry, on its stack and tables |
| menu | keys between two looks at them; comparisons with values that only some paths set; devices without an axis, modes without a description | Enter boots, the time is shown, nothing is divided by zero, the size is that of the screen |
| helpers | pointers into nodes that are used again; strings that are cut up under a kept place | the list is a sequence; each function agrees with what its name promises |
| boot | a dozen allocations, of which some are looked at | a kernel that is entered can reach what it is handed; only needed parts stop the boot; nothing is forgotten |

## Plan

The order is by what a failure would cost. Steps 1 to 13 are done.

1. `Heap`, `Mman`: the allocator and its promise; proofs.
2. `ExitBootServices`: the one race with the firmware; proofs.
3. `MemmapFetch`, and on it `MemmapTranslate`, which is all of `get_memmap()`;
   proofs of both.
4. `AurixMerge`, and on it `AurixCarve`, which is all of `aurix_get_memmap()`;
   proofs of the merge and the copy.
5. `AddressSpace`, `Paging`: the tables and their promise; proofs.
6. `Sfs`: files; proofs.
7. `ElfLoader`: the kernel's layout.
8. `Boot`: the sequence, with what its parts share; proofs.
9. `Handover`, on `ExitBootServices`: what the kernel is told, and its first
   registers.
10. `Menu`: devices, events and the loop that waits for them.
11. `ListContract`, `Lists`, `Strings`: the helpers.
12. More proofs: the tables of `Paging` implement `AddressSpace`; the carving;
    the layout of `ElfLoader`; `Handover` and `Menu`; `Lists` implements
    `ListContract`; `Strings`; a measure for each call that must return. Done.
13. The carving step by step, for regions anywhere. Done (`CutsAreClean`); that
    all of them are found is what the code does not give (`CarveTwoEntries`).
14. The loop over the modules of `aurix_get_memmap()`, once a configuration can
    list some.

Abstract specifications: `Heap`, `AddressSpace` and `ListContract`, all checked
as properties of the modules that implement them and proved of them; and the modules that are extended by a larger one, which implements
them by proof: `MemmapFetch` (`MemmapTranslate`), `ExitBootServices`
(`Handover`) and `AurixMerge` (`AurixCarve`). A boot has none: it
is a sequence with failures, and its promise is the invariants of `Boot`.
`ElfLoader` and `Boot` take from `map_pages()` what `AddressSpace` promises.

## Modules and code

| module | extends or instantiates | models |
|---|---|---|
| `Heap` | | what callers of the allocator may count on |
| `Mman` | `Heap` as `H` | `mman.c`, UEFI build |
| `MemmapFetch` | | `get_memmap()` to the end of its loop, and its return |
| `EfiMemoryType` | | its two switch statements over memory types |
| `MemmapTranslate` | `MemmapFetch`, `EfiMemoryType` | all of `get_memmap()` |
| `ExitBootServices` | | `uefi_exit_bs()` |
| `Handover` | `ExitBootServices` | `aurix_get_cmdline()`, `acpi.c`, the end of `aurix_load()`, `aurix_arch_handoff()` |
| `AurixMerge` | | first half of `aurix_get_memmap()` |
| `AurixCarve` | `AurixMerge` | all of it, with the two helpers that insert |
| `AddressSpace` | | what callers of `map_pages()` count on |
| `Paging` | `AddressSpace` as `A` | `paging.c` of both architectures |
| `Sfs` | | `sfs_read()` and `sfs_write()` behind the VFS |
| `ElfLoader` | | `elf.c` |
| `Boot` | `EfiMemoryType` | `init.c`, `config_init()`, `sfs_init()`, `ui_init()`, `aurix_load()` |
| `Menu` | | the search for a pointer in `entry.c`, `platform/uefi/ui`, `datetime.c`, `ui_init()` and `tui_draw()` of `ui.c` |
| `ListContract` | | what `list.h` offers |
| `Lists` | `ListContract` | `list.c` |
| `Strings` | | `string.c` |
| `MCLibrary` | `Menu`, `Sfs`, `Lists`, `Strings` | one of the four at a time |
| `MC*` | the module of that component | finite inputs for TLC |
| `*Proofs` | the modules of that component | lemmas and theorems; `MemmapProofs` for both parts of `get_memmap()`, `AurixProofs` for both of `aurix_get_memmap()`, `HandoverProofs` for the exit too, `BootProofs` for `Sfs` too, `CommonProofs` for `Menu`, `Lists` and `Strings` |

What is common to them:

- An action is a stretch of code between two points at which something else can
  happen or be told apart: a firmware call and what is done with its answer, or
  one round of a loop. `pc` (or `at`) names the next one, with the source's
  order of calls. Where nothing happens in between, as in the allocator, a whole
  function is one action.
- A module that goes on where another ends extends it: its actions are the
  other's, conjoined with what becomes of its own variables, and a variable
  (`phase`, `step`) says which of the two has the word. The invariants of the
  first are checked of the whole.
- A firmware call that may fail is a disjunction. A null pointer that is
  written through is a state `fault` (`Boot`, `MemmapTranslate`, `Menu`).
- Sizes are in the unit in which they matter: bytes (`Heap`, `ElfLoader`),
  descriptors (`MemmapFetch`), page frames (maps), table entries (`Paging`).
- A violated assumption of the code is a parameter, not left out: `Growths`,
  `Contents`, `Junk`, `Pool`, `Blocks`, `Layouts`, `DeviceLists` and `Allocations`
  say what the firmware, the compiler or the memory does. Where the code goes
  wrong for some of these, the property says for which and how far, and the runs
  have them; what is left to a condition is given under
  [Limits of the code](#limits-of-the-code).

`Mman`. `allocation_list` is the table and `pool` the firmware's memory: per
address, whether a block is live, its size, and its content as the owner's tag
with the number of leading bytes that still carry it. `find_alloc()` finds the
*first* slot, as the loop does. `mem_realloc()` is two actions, for an address
the table knows and for one it does not; the latter allocates afresh and
neither copies nor frees. `Store` is an owner filling a block. `call` and `ret`
are the interface that `Heap` shares.

`MemmapFetch`. `fw` is the length of the firmware's map, `size` the in/out
argument of `GetMemoryMap()`, `efi_map` the true capacity of the buffer, which
the firmware does not know, `written` what it wrote there. `Check` is the
"double check" at the bottom of the loop. `growth`, chosen with the initial
state, says how many descriptors the allocation, a reallocation and the events
between two calls add at most.

`MemmapTranslate`. `FetchStep` is a call before the loops, `Enter` the moment at
which the buffer is looked at: `entries` is then one of the maps of that length
in `Contents`, if the last call succeeded, and otherwise what happens to be
there (`Junk`), or a fault at address 0. Both loops have their `i` and
`cur_entry`, of which an empty descriptor steps only the first. One call of
`map_pages()` is a function update of `pm`. It allocates tables, and so changes
the firmware's own map (`Loops` of `MemmapFetch`), as does the allocation of the
translated map. `Return` is `Use` of `MemmapFetch`.

`ExitBootServices`. `key` is the firmware's, `map_key` the loader's copy.
`Event` is the firmware at a timer tick: it may change the map between any two
calls. `errors` counts failures with the right key.

`Handover`. `bootargs` is the firmware's variable, which `BootargsChange` may
change between the two calls that read it; `cmdline` the block with its room and
its text. A firmware table is its kind at its position. `Allocations` are the
ways in which the compiler may have put the operands of the assembly into
registers; `Moves` are its instructions in order. A call of anything but the
kernel's entry ends in the step `lost`.

`AurixMerge`, `AurixCarve`. The arrays and loop counters of the code. `Merged`
is the deletion of an entry; `Advance` the round that deletes nothing. In
`AurixCarve`, `map` carries the array with what lies behind it (`Garbage`), the
count and the index, which `mmap_add_entry()` all change through pointers;
`seen` is the pair of locals that a round reads once. A layout gives the places
of kernel, parameters, kernel's map, boot arguments and framebuffer; `Word` is
the wrap of addresses and `Hhdm` the offset that is subtracted from one of them. The condition of
`NextEntry` uses the original number of entries, as the code does.

`Paging`. Memory is an array of table entries. `_map()` walks down a level per
action (`Follow`, `AddTable`), then writes the page's entry (`SetPage`).
`TableAt` and `Lookup` are the processor's walk over the same memory, and are
what the refinement mapping is made of. `Span` is how many pages a table of each
height maps, a power of `Fanout` that the constant gives level by level. `Forced` is `{}` on x86_64 and
`{"present"}` on aarch64.

`Sfs`. An action per firmware or allocator call; `owned` and `handle` are what
the function must give back on each of its error paths.

`ElfLoader`. `Measure` is the first pass over the headers, `Alloc` the block
and the rounding of its address, `LoadSegment` the second pass. `mem` records
for every byte of physical memory which byte of which segment was written to
it. `marked_size` is the computation in `aurix.c`. `Covered` are the pages that
are mapped for a segment, `over` the number of segments, from the third on,
that end inside a page and so may need one more than the block has.

`Boot`. A block is a name; `memory` says in which kind of memory it lies,
`recorded` which blocks have a slot in the allocator's table, `tables` how many
slots page tables have taken, `space` how each block is mapped. Blocks
allocated before the fetch lie in memory that the fetched map calls loader
data; later ones in memory that it calls free or the boot services'. `Timeouts` are
the builds: 0, which the sources set, and the 30 that `config.c:38` says is to
come back, with which the menu is shown first. The end is
`kernel`, `reboot`, `halt` (a loop the code enters on purpose) or `fault`. The
components with modules of their own appear as their calls and outcomes only.

`Menu`. `at` is the call that comes next. From the sixth handle on (`Handles`)
`TryDevice` may fault or go on, as it stores behind the array. A mode is described by its own number
and `info` is the mode that the description in hand belongs to, so that a
description kept from an earlier query is seen. A moment of the clock is a
number. `Clock`, `Press` and `Interrupt` are the world; `Dispatch` is the end of
a round, with the callback or the `hlt`.

`Lists`, `Strings`. A node is an address, which a removed node gives back and a
later one may get. A block of characters is a sequence of codes that ends in 0; `Char` is what a
code is as a signed `char`, `Cut` what an `int` is when it is cut to one. A loop of
a string function is known by the offsets at which it goes on; `Stop` follows it,
offset by offset, to where it ends. `StringsAgree` compares the functions with
definitions without loops.

## Runs

All pass except the four marked *violation*. State counts are distinct states.

| run | module | instance | states |
|---|---|---|---|
| `MmanCalls` | `Mman` | 4 addresses, 2 slots, at most 3 blocks, sizes 0, 1, 2 | 275324 |
| `MemmapTables` | `MCMemmap` | 3 tries, maps of up to 8 descriptors, three kinds of firmware; all pairs of the 16 types, all types at every length, any one descriptor empty, three kinds of junk | 1695372 |
| `HandsOver` | `MCHandover` | the real 10 tries, 12 events, 2 errors; 5 lists of tables, 3 lengths of the boot arguments, all 24 allocations of registers | 742367 |
| `AurixMap` | `MCAurix` | all ascending maps of 1 to 3 entries, all pairs in any order; all ascending places of three regions in an entry of 9 frames, whole or in 2 or 3 pieces, with and without a framebuffer; regions in any order in one entry or two, at an edge, across it or outside, a framebuffer anywhere | 190274 |
| `CarveTwoEntries` | `MCAurix` | *violation* of `EveryRegionMarked` | |
| `PagingAligned` | `MCPaging` | 3 levels of 2 entries, 2 calls out of 9, blocks that begin at a page | 337388 |
| `PagingUnaligned` | `MCPaging` | *violation* of `PageIsMapped`: blocks that begin anywhere | |
| `SfsBuffer` | `Sfs` | *violation* of `BufferIsRefused`: a caller's buffer | |
| `ElfLoads` | `MCElfLoader` | pages of 4 bytes, images of up to 4 headers that begin and end anywhere, blocks at a page and inside one | 146724 |
| `BootSequence` | `Boot` | 64 slots, 4 paths, with and without menu, a mapping takes 0, 1 or 64 new tables | 192067 |
| `FontFails` | `Boot` | *violation* of `BootsWithoutFont`: with the menu | |
| `Library` | `MCLibrary` | menu: no pointer, or seven, two of which do not fit, three with an axis missing or cut to zero; 1 or 3 modes, 2 moments, 2 keys at a time, 1 failing read. Files: 2 of up to 3 bytes, callers with and without a buffer. Lists of up to 3 nodes and 2 data. All pairs of strings of up to 4 characters out of 2 | 258881 |

What they show, and why the bounds are enough:

**MmanCalls.** One block more than slots makes the full table an ordinary case:
blocks with and without a slot coexist, slots are freed and reused in every
order. Three sizes let a reallocation shrink, grow and keep, and 0 is the empty
block. `SlotsNameLiveBlocks`: a slot names a live block, with its size.
`NoBlockTwice`: no block has two slots, although `add_alloc()` never looks for an
earlier record. `NoOverflow`: a copy stays in the block it writes.
`HeapSpec`: the calls implement `Heap`, in which a known block is always
reallocated with its content, and never becomes unknown before it is freed or
moved.

**MemmapTables.** Three tries are enough to leave the loop by success, by
another error and by its count. The firmwares are the corners of what two spare
descriptors allow: a reallocation that needs both, one each for the
reallocation and an event, two for events. `NoOverrun`: the firmware never
writes past the buffer. `MapIsComplete`: without events, the entries that are about to
be translated are those of the map as the firmware has it at that moment.
`NothingLeftOnSuccess`: then no buffer is left behind either. `Returns`: it
returns, which `GetAdvances` refines, by a measure proved to shrink
([Proofs](#proofs)). Two descriptors tell a cursor that is off by one from one
that is not; every pair of types covers both switch statements.
`MapIsTranslated` compares the caller's map, frame by frame, with the
descriptors before the first empty one, at which the cursor stays; without
events these are what one successful call has read, though no longer what the
firmware has, for the loops allocate. The junk (all the same, overlapping, empty
in between) is what is walked when the fetch was given up. `UsableIsMapped` (but
for EfiPalCode, and when the fetch succeeded) compares the two readings of a
type, and keeps the memory of the runtime services out of both.

**HandsOver.** More events than tries, so that every try can be spoilt.
`HandoffAfterExit`: the kernel is entered if and only if boot services are gone,
and they went with the current key. `RebootNeedsRaces`: a reboot means that
each of the eleven rounds was disturbed. `Ends`: kernel or reboot
(and, proved, `LoaderAdvances`: each step of the loader itself is one closer to
it, with any events in between). The lists of
tables have either version first, one twice, or none. The boot arguments are
none, two or three long and change at most once, which is all that two calls can
see. `ParametersAreRight`: the newer table wins wherever it stands, and the
command line is what one call has read whole, in a block with room for it, or
null and nothing allocated. `KernelGetsItsOperands`: in whichever registers the
operands were, the kernel's stack, page tables and parameters are in place when
the call is made; and the call is of the kernel's entry exactly if that was not
in rdi, which the third instruction overwrites and the fourth reads.

**AurixMap.** Three entries are the least in which a merge must be followed by
another at the same index; sizes of 1 and 2 give gaps and contacts, and the
three maps of two large entries a merged size that fits, just fits and does not.
`MergeKeepsMap` for ascending maps, `MergeIsComplete` for all, `CopyKeepsMap`
for ascending maps whose sizes fit. The regions lie, in the order in which the
code looks for them, in one entry, with neighbours before and behind; they touch
or leave gaps. The firmware reports the entry whole or in pieces, so the merge
has to have worked for the carving to find it. The framebuffer is in the gap
between two entries. What is expected of such a layout has `OneHome`, which
describes it, as its condition: `MarkedAtHome` counts entries at the end, the
framebuffer's among them; `OtherFramesKept` holds at every step; `EntriesAdded`: the map ends with six
entries more than it had, or seven with a framebuffer: none was counted twice or
lost, and the room of `aurix.c:119` is short by that much.

The rest of the layouts have regions in descending order, in two entries, one
across an entry's edge, one outside of all, a command line whose address wraps
around, a framebuffer behind any entry. Much of this the code gets wrong, and
`CutsAreClean` says where it can: a step that splits an entry which does hold the
region marks the region's frames, touches no others and keeps ascending entries
so, and a framebuffer that is put in changes no other frame. So a frame is lost
only where the entry under the moved index is not the one that holds the region.

**PagingAligned.** Three levels are one more than root and leaf, so a table in the
middle is both child and parent; two entries per table make the ranges of the
requests cross tables at every level; two calls replace, extend and unmap what
the first has mapped. Memory holds junk that looks like a present entry.
`AddressSpaceSpec`: the tables implement `AddressSpace`. `OnlyTablesWritten`:
mapping writes to its tables alone.

**ElfLoads.** Segments of 0 to 9 bytes against pages of 4 begin and end at a page
and inside one, share pages or do not, come in any order, with alignments of
nothing, a byte, one page and two; headers that are not loaded stand between
them, and up to four of them end inside a page. Blocks begin at a page or inside
one, or are refused. `ImageInPlace` looks at each byte through the mapping: those
that lie in the pages which their segment's size fills, and that no later
segment's mapping replaces. `WritesInBlock` is an action property: writes begin at
the page in which the block does, and end where the roundings of `elf.c:68` and
`elf.c:91` can put them at most. `RegionCovers` compares the mapped pages with
the size that is marked in the kernel's map, with the same allowance.

**BootSequence.** 64 slots and up to 64 new tables per call: the table is empty,
nearly full or full at each step. `KernelIsReady`: what the kernel is handed is
live and mapped present and writable, including what was allocated after the
memory was mapped. `NothingForgotten`: files and the firmware's map are freed
on every path to the kernel. `OnlyNeededPartsStop`: an optional part never
halts the boot, a needed one never fails unnoticed, and a fault needs a failure:
of a needed part, or of the font or the framebuffer, which the kernel could do
without (`FontFails`). `GrowFindsBuffer`: the
only caller of `mem_realloc()` comes before the tables fill the allocator's
table.

**Library.** Four parts that share nothing, of which a behaviour looks at one; the
fairness is that of `Menu` and of `Sfs`.

In the menu two moments and two keys are the least in which one overtakes the
other; a failing read lets a key be seen a round late. The devices have
a resolution that is zero in 16 bits and one that is not, in front of one that
fits; devices without one axis or the other, and with a vertical resolution that
16 bits cut to zero; two devices more in all than `spp[5]` has room for. With three
modes the current one may be first, in the middle or last.
`OnlyBadAxesTrap`: a movement is divided by zero only for a pointer without a
horizontal axis, or with a vertical one of which 16 bits keep nothing; the test
of `entry.c:123` is enough for the horizontal axis where there is one. `ScreenIsCurrent`: the
interface has the size of the screen's mode, whichever other modes could not be
queried. `EnterBoots`: Enter leads to a boot even if it is pressed between the
look at the keys and the `hlt`. `ClockIsShown`: a time that was read is shown or
followed by another, also with some other event in every round. Both end at the
trap of such a pointer, too.

In its files three bytes let `Read()` deliver in one, two or three parts.
`ReadAllOrNothing` is about callers who pass no buffer, as `vfs.h:44` asks;
`SfsBuffer` is about the others. `NothingLeft` and `Returns` are about both.
Proved only: `TypeOK`, which
includes that no more is read than the block holds, and `CallAdvances`: each step
brings a call closer to its return, by a step or by bytes.

In the list three nodes have a first, a middle and a last; an address that was
freed is used again. `ListSpec`: the list implements `ListContract`, contents
and memory. `StringsAgree`: comparison, search, copies and parting agree with
definitions by sequences and sets, and `strtok()` finds every field in turn,
also when it starts again in a string that it has cut up. The second string of
what takes two is `text`, any string before the first call. Four characters give
two fields with delimiters around them; 195 is a byte beyond ASCII, on which
`mbstowcs()` gives up, which `strrchr()` finds in either form and `strchr()` as a
negative number only. Of an empty string, `strlen()` tells one more than the
length of what lies behind its 0.

**CarveTwoEntries** (finding, `aurix.c:193`). The loop's bound is the number of
entries before insertion. The kernel in one usable entry pushes the next one
beyond the bound, and the parameters in it are never marked; the kernel is told
that they lie in free memory.

**SfsBuffer** (finding, `uefi_sfs.c:185`). `vfs.h:44` calls a buffer that is not
null an error; it is overwritten, and the read succeeds.

**FontFails** (finding, `ui.c:321`). The log says "booting default selection"
when no interface could be started; the event loop calls the callback that was
not set. This is behind the timeout of 0, which `config.c:37` says is to be set
back to 30.

**PagingUnaligned** (finding, `paging.c:44`). Tables come from the pool, whose
blocks begin at a multiple of 8 bytes; the pointer is cut to a page before it is used.
A table then begins before its block, in memory that was not cleared, and what
lies there is taken for entries.

Every run with a place to stop has a stuttering action for it (`Ended`, `Done`,
`Stop`), so that TLC's deadlock detection stays on everywhere.

## Fairness

- `MemmapTranslate`: weak fairness of its next-state relation. One thread; every
  firmware call returns.
- `Handover`: weak fairness of `aurix_load`, the loader's own steps. `Event` and
  `BootargsChange` have none: a firmware need not disturb, and `Ends` holds
  however often it does, within the bound and by the loop's count.
- `Sfs`: `WF_sfs_vars(SfsStep)`: a call in progress goes on. Callers need not call.
- `Menu`: `WF_vars(Loader)` and `WF_vars(Interrupt)`. The firmware's timer ticks
  for as long as boot services are there, which is what ends a `hlt`. `Clock`,
  `Press` and the mouse have none: nobody has to come.

No other module has liveness properties; the code in them runs from one end to
the other, or ends in a loop on purpose (`halt` in `Boot`).

## Proofs

For every value of the constants allowed by the assumption of each module
(`MmanAssumption` and so on, which TLC also evaluates).

| module | theorem | says | under |
|---|---|---|---|
| `MmanProofs` | `TypeCorrect`, `SlotsAreRight`, `RecordedOnce`, `CopiesFit` | `Spec => []` `TypeOK`, `SlotsNameLiveBlocks`, `NoBlockTwice`, `NoOverflow` | |
| | `Implements` | `Spec => HeapSpec` | |
| `MemmapProofs` | `FetchNeverOverruns` | `NoOverrun` | a reallocation and the events around it add at most 2 |
| | `FetchIsComplete`, `FetchLeavesNothing` | `MapIsComplete`, `NothingLeftOnSuccess` | that, and `MAX_TRIES > 1` |
| | `FetchIsRefined` | `GetSpec => Spec`: all of `get_memmap()` implements the fetch | |
| | `TranslationIsFaithful` | `MapIsTranslated`, for maps of every length, empty descriptors and junk | as `FetchIsComplete`, for the part about maps that no event changes |
| | `TablesAgree` | `UsableIsMapped`, for the same | |
| | `GetEnds` | `GetAdvances`, for maps of every length, any growth and any number of tries | |
| `HandoverProofs` | `TypeCorrect`, `HandoffIsSafe` | `TypeOK`, `HandoffAfterExit`, of `uefi_exit_bs()` | |
| | `RebootIsEarned` | `RebootNeedsRaces` | the firmware gives the key with `BUFFER_TOO_SMALL` |
| | `HandoverImplementsExit` | `HandoverSpec => Spec`: the whole hand-over implements the exit | |
| | `HandoverIsSafe`, `HandoverRebootIsEarned` | the same two of the whole | the second as `RebootIsEarned` |
| | `ParametersReachTheKernel` | `ParametersAreRight`, for boot arguments and tables of every length | |
| | `LoaderEnds` | `LoaderAdvances`, for any number of tries, tables and events | |
| | `OperandsReachTheKernel` | `KernelGetsItsOperands`, for every allocation that keeps the operands apart | |
| `AurixProofs` | `MergeIsSafe`, `MergeLeavesNothing`, `CopyIsFaithful` | `MergeKeepsMap`, `MergeIsComplete`, `CopyKeepsMap`, for maps of every length | |
| | `CarveImplementsMerge`, `GetMergeIsSafe` | `GetSpec => Spec`: all of `aurix_get_memmap()` implements merge and copy, and keeps the three | |
| | `CutsAreAlwaysClean` | `CutsAreClean`, for any map, regions and framebuffer anywhere | |
| `PagingProofs` | `TablesImplementSpace` | `Spec /\ []Tidy => AddressSpaceSpec`, for any number of levels, entries and calls: what is implemented as long as the blocks that were handed out began at a page | `RequestsFit`: calls stay in the address space |
| | `WritesStayInTables` | `OnlyTablesWritten`: no other memory is written before the first block that does not | the same |
| | `MappedPageIsFound` | `Spec => [](Tidy => PageIsMapped)`; `PagingUnaligned` violates the second half | the same, and no call is for 0 pages |
| `ElfProofs` | `ImageIsInPlace` | `ImageInPlace`, for any number of segments of any size, anywhere in pages of any size, and any block | memory and addresses without an end |
| | `RegionIsWhole`, `WritesStayInBlock` | `RegionCovers`, `WritesInBlock`, for the same | |
| `CommonProofs` | `PointerIsSafe` | `OnlyBadAxesTrap`, for any devices and any number of them | |
| | `ScreenIsRight` | `ScreenIsCurrent`, for any modes | |
| | `ListIsSequence` | `LinkedList => ListSpec`, for any addresses, data and number of calls | |
| | `StringsDoAgree` | `StringsAgree`, for any characters and delimiters, blocks of any size and any number of calls of `strtok()` | |
| `BootProofs` | `KernelsAreReady`, `FilesAreFreed`, `NeededPartsStop` | `KernelIsReady`, `NothingForgotten`, `OnlyNeededPartsStop` | |
| | `BufferIsRecorded` | `GrowFindsBuffer` | the table has a slot for each of the 17 blocks of the loader |
| | `FilesKeepTypes`, `ReadsAreWhole`, `NothingIsLeft` | `TypeOK`, `ReadAllOrNothing`, `NothingLeft` of `Sfs`, for files of every length | |
| | `CallsEnd` | `CallAdvances`, for the same | |

The hypotheses are what the code leaves to its surroundings: how much a firmware's
map grows, that it gives the key with an error, that callers stay in the address
space, that the table is as large as the one in the sources is, that a segment does not
run into the end of memory. None of them is
about how the compiler, the pool or a user's devices and images may turn out:
there the properties themselves say what follows from what.

`AurixProofs` also holds `MapStaysInOrder`, `OthersAreKept`, `RegionsAreMarked` and
`AddedAreCounted`. They are the run `AurixMap` without its bounds: for maps of
every length, but for its layouts only (`OneHome`: kernel, parameters and map in
ascending order inside one usable entry, the framebuffer in the gap behind it),
which is a condition of these properties.
Nothing promises such a layout, and so they say of the code only that what the
run sees is not due to its small maps.

The arguments:

- *Allocator.* The invariant `TableOK` says of the table and the pool together
  that slots name live blocks with their sizes and that no address is in two
  slots; `FInv` adds that no block's content is longer than the block. Neither
  half is inductive alone: that `remove_alloc()` leaves no stale slot needs that there
  is only one, and that `add_alloc()` makes no second one needs that an address
  that is not live has none. Lemmas say of `find_alloc()`, `add_alloc()` and
  `remove_alloc()` what they do to the set of recorded addresses. The
  refinement needs that set's cardinality: there is a free slot exactly if
  fewer than `MAX_ALLOCATIONS` addresses are known, which is a bijection between
  used slots and known addresses.
- *Fetch.* `BInv` relates `size` to the true capacity at each call: they are
  equal, or there is no buffer, whenever the firmware is about to write. This
  is where two spare descriptors are needed: at `grow`, `fw <= size + event`,
  so after the reallocation `fw <= size + 2` and the double check cannot answer
  "too small". `CInv` adds, for a map that does not change by itself, that a
  second round can only follow a failed reallocation. `OInv` adds the number of
  buffers that are owned: one, from the allocation to the end of the loop.
- *Translation.* `FetchIsRefined` carries `SizeInv` and `MapIsComplete` over to
  the composition. `LoopInv` says what a loop has done when `i` descriptors are
  behind it: the frames of these descriptors have the flags of their types, and
  the entries up to `i` are theirs, with the cursor one ahead of the counter, or
  at the first empty descriptor, whichever comes first. For the mapping it
  needs that descriptors do not overlap, or a later one would undo an earlier
  one, and so that the fetch succeeded.
- *Exit.* `IInv` ties `services` to `pc` and the key. `RInv` counts: on
  entering a round, at most as many tries were made as there were disturbances;
  in the middle of it one more if the copied key is still current.
- *Hand-over.* A step of the composition is a step of `uefi_exit_bs()` or leaves
  its variables alone, so the invariants of the exit carry over.
  `ParametersReachTheKernel` knows at each step what has been asked of the
  firmware and what of it may have changed since: the length in hand is that of
  an earlier variable, and what makes the text fit is that the second call is
  told the room of the block. `OperandsReachTheKernel` follows the four moves
  one by one: what a register must still hold at each of them, and in the one case
  in which it does not, what it holds instead.
- *Merge.* `IInv` says that the array covers what the input covered, and that no
  pair before the counter can be merged; `MergedShape` and `MergedKeeps` are the
  facts about deleting an entry. Ascending order is preserved, and is what turns
  the code's test on the neighbour's base into contact. `CopyInv` adds that what
  was copied is the translation of the merged array; sizes below the modulus are
  not changed by it.
- *Carving.* `CarveInv` says, for the entry `k` that holds the regions, how many
  entries have been added (`Shift`) and so which entry of the merged map the
  loop is at (`Origin`), although the index has been moved; what the array holds
  before it, at it and behind it (`Found`, `Reach`, `Cut`: which regions have
  their entries, and where what is left of entry `k` begins); and what the two
  locals of the round still say of an entry that has since been cut. That the locals
  are stale is where `OneHome` is needed: regions in ascending order lie behind
  what has been cut off, so that the index and the locals agree. `Counted` is the
  part about the number of entries: two for each region behind the loop, one for
  the framebuffer, so that past entry `k` all of `Added` has been added. All this is
  for the layouts of the run. For any layout there is `ArrayInv`, which only says
  that the array has entries as far as the count goes, and what is proved of the
  helpers alone: `IsCut` for an entry split around a region and `IsPut` for one put
  behind another, in any array. From these, `CutsAreAlwaysClean` is a matter of one
  step: which frames the old entries cover and which the new (`CutClean`,
  `PutClean`), and that a region inside its entry leaves what is before and behind
  it in order (`CutKeepsOrder`).
- *Page tables.* `PInv` ties the walk of `_map()` to the processor's: `table` is
  the table at `level` on the way to the page at hand. `Tables` says that every
  table that a walk reaches is a block in use; `OneWay` that no entry is reached
  by two ways, so that a new table under one entry, or a page written at the
  end of one walk, changes no other walk. Both are shown to survive a new, empty
  table (`Added`) and a page (`Mapped`) by induction over the levels. The
  refinement mapping is the walk: adding a table is a stutter of `AddressSpace`,
  setting a page is its step. All of it holds as long as every block so far has
  begun at a page (`Tidy`); as no block is given back, a step after which that is
  so comes from a state in which it was, and the invariant is `Tidy => PInv`.
- *ELF.* The invariant has a witness `q`: how many pages the first segments fill,
  which says where the second pass puts each. `Rooms` compares it with
  `kernel_size`, the sum of the sizes, as the first pass goes on: rounding each
  size up adds less than a page for each that is no multiple of one, and nothing
  for the others, of which the rounding of the sum and the spare page make up for
  two; the rest is `over`. `Laid` says of every segment behind the loop that its
  pages are mapped to where it lies, unless a later segment has taken them
  (`Mapped`), and that its bytes are there (`Filled`). A later segment is placed
  behind the pages of the earlier ones, and its bytes begin no earlier than that;
  so no byte in a segment's own pages is overwritten.
- *Menu.* Of a pointer: what is chosen has been reset and tested, and its
  resolutions are those of the device, cut to 16 bits. Of the screen:
  which mode the description in hand belongs to, mode by mode.
- *List.* `LInv`: the allocated nodes, `count` of them, are the members of a
  chain `p[0]`, `p[1]`, ..., each pointing to its neighbours, and the root points
  to the first. That a node is in no two places, and that none but these are
  allocated, is what keeps a new node from being an old one and a removal from
  changing a third. `NthFollows` shows, by induction with the library's theorem
  on well-founded relations, that `k` steps from the root lead to `p[k]`;
  `ChainGrows` and `ChainShrinks` are about the pointers alone, `Appended` and
  `Removed` about the sequence. The refinement mapping is the data along the
  chain.
- *Boot.* `IInv` has five parts, each proved by a lemma of its own. `Data`: until
  the map is fetched every block lies in loader data, which is what makes the
  mapping of that moment right for it; afterwards every block is writable.
  `Control`: which places are before and which behind that moment. `Has` and
  `Gone`: which blocks are there, and not there, at each place. `Failures`: what
  can have failed by then; it needs `Gone` (without a kernel file there is no
  way past `elf_load()`), and `Gone` needs it (the volume is taken back only on
  the way that its failure opens). `Slots`, for `BufferIsRecorded`, is separate:
  it counts, by the cardinality theorems of the library.
- *Files.* The invariant says per `pc` which blocks are owned and whether the
  file is open.
- *Strings.* `StopIs` says where a loop stops: at the first offset at which it
  does not go on. `Stop` is a recursive function, so this takes a witness for it,
  and induction over the distance to the end, with the library's theorem on
  well-founded relations. From there comparisons, searches and copies are
  about first places at which something differs or ends. `TokInv` is for
  `strtok()`: from the place it keeps on, the block is still as it was given;
  what was found are the first fields of the text, as many as start before that
  place (`Place`); and, once a field was found, the block begins with one
  (`HasField`), without which a string that is started again might keep the old
  place and mix two strings up. `PlaceMoves` is one call: the fields that start
  before the new place are those before the old one and one more.
- *Endings.* `GetAdvances`, `LoaderAdvances` and `CallAdvances` are the measures
  behind `Returns` and `Ends`: pairs of numbers, of which the first never grows
  and the second shrinks while the first stays. That the bounds of the loops hold
  (`tries` at its limit, cursors within their maps, bytes within the file) is
  the invariant they need: `WInv` of the fetch and the loops, `HInv` and `IInv`
  of the hand-over, `FileInv` of the files.

Only model-checked: the five liveness properties (`Returns` of `MemmapTranslate`
and of `Sfs`, `Ends`, `EnterBoots`, `ClockIsShown`), because fairness and ENABLED
are beyond TLAPS. For the first three the theorems on measures leave only that
the loader goes on, which is the fairness assumed. Every other property of a
passing run is proved.

## Limits of the code

What was met while modelling, and is not one of the four findings. Where a
parameter shows it, the parameter is named.

- *Full table* (`mman.c:118`; comment at `mman.c:29`). The comment tells
  the reader to raise `MAX_ALLOCATIONS` when allocations fail. None does: the block after the
  64th merely has no slot, and reallocating it would lose its content and leak
  it. A block that is reallocated while the table is full moves to one without a
  slot. `Heap` states this weaker promise. The page tables alone need more than 64 blocks; it does no
  harm because the only reallocation comes earlier (`GrowFindsBuffer`).
- *More than two new descriptors* (`memmap.c:113`). After a double check that
  answers "too small", `size` is what the firmware wants and the buffer is
  smaller; the next `GetMemoryMap()` may write past it. Shown by a growth with
  `realloc |-> 3`. With events in the map's way, a failed reallocation can also
  leave a buffer behind.
- *Empty descriptor* (`memmap.c:163`). `continue` skips the step of the cursor;
  the rest of the map is lost, as `MapIsTranslated` says. UEFI reports none, though
  the code tests for one.
- *EfiPalCode* (`memmap.c:141`) is usable and not mapped. Itanium only.
- *aarch64* (`paging.c:41`). `_map()` adds the present flag to everything, so what
  `get_memmap()` wants unmapped is mapped (`Forced`); and `elf_load()` accepts
  only images for AMD64.
- *Eleven tries* (`entry.c:180`), where the log at `entry.c:160` says ten.
- *Maps that do not ascend* (`aurix.c:105`). The test for neighbours merges
  entries that do not touch.
- *Sizes of 4 GiB* (`aurix.c:130`) and more are cut to 32 bits.
- *Room in the kernel's map* (`aurix.c:119`). Three regions inside entries and a
  framebuffer need seven more entries (`EntriesAdded`, proved as
  `AddedAreCounted`); five are allocated. As `mmap_insert_blank()` also moves the
  last entry into the cell behind the map, that is room for four. `AurixCarve`
  gives the array more room. The read of the entry behind the last one
  (`aurix.c:109`) is harmless.
- *Carving.* Regions in descending order (`aurix.c:204`) are cut out of the wrong
  entry, with sizes that wrap around; a framebuffer above all entries is
  missed when something was inserted before, and with six or more entries between
  the regions' and the end one further up is put behind an entry in the middle,
  out of order (`aurix.c:223` compares the moved index with the old count;
  `CutsAreClean` says of it only that other frames keep their types); the
  address of the
  boot arguments has `hhdm_offset` subtracted that was never added
  (`aurix.c:190`), so no entry contains them.
- *ELF layout.* The block has one spare page, and every segment is rounded up to
  a page: a third segment that ends inside one may be written behind the block
  and lie outside the marked region (`elf.c:68`; `over`). The block's address is
  cut down to a page, below the block (`elf.c:69`). A segment that does not begin
  at a page, or is aligned to more than one and does not begin at its alignment,
  reaches behind its mapping (`elf.c:91`, `elf.c:104`; `Skew` and `Covered`). The
  three properties allow for exactly this, and the run has such images.
- *The kernel's map is old* (`aurix.c:340`). It is fetched before stack, kernel and
  parameters are allocated. Stack, page tables and boot arguments are called
  usable, and what the firmware takes for its runtime services afterwards is not
  seen.
- *Results that nobody looks at*: of `vfs_read()` (`aurix.c:329`), after which
  `elf_load()` reads at address 0; of the allocations at `paging.c:44`,
  `memmap.c:156` and `framebuffer.c:67`. They are `fault` in `Boot`. When the
  screen's mode must be set first, no modes are listed and
  `aurix_get_framebuffer()` uses an uninitialised index (`framebuffer.c:54`);
  the menu then takes its size from an empty allocation (`Junk` in `Menu`).
- *Files.* A failed write leaves the file open (`uefi_sfs.c:263`), and an empty
  file looks like a failure.
- *Registers* (`handoff.c:65`). The assembly declares that it changes rax only. If
  the compiler puts the kernel's entry into rdi, it is overwritten before it is
  read, and the parameters are called in its place (step `lost` of `Handover`).
- *aarch64 hand-over*. Its `handoff.c` holds the assembly of x86-64.
- *Pointers* (`entry.c:123`). Only the horizontal resolution is tested before both
  are cut to 16 bits; a vertical one of a multiple of 65536, or an axis that the
  device does not have, makes `get_mouse()` divide by zero (`OnlyBadAxesTrap` says
  that nothing else does). The handles go into
  an array of five (`entry.c:107`), however many there are; what a sixth overwrites
  is not followed beyond a fault.
- *Clock* (`datetime.c:40`). On an error the log says 1970, and nothing is set:
  what is shown is what was there, at first what was on the stack.
- *Mouse* (`ui.c:284`). Nothing sets `last_mouse`, so a pointer away from where it
  began makes every round busy, and `hlt` is not reached.
- *Strings* (`string.c`). `strlen("")` is at least 1, because the first character
  is not looked at; `strchr()` compares a signed `char` with an `int` that
  `strrchr()` cuts to one (lines 231, 248), and so never finds a code from 0x80 up
  that is given as such; `strncmp()`, which has no caller, answers 0 when
  only the last character of its count differs, and looks one further when none
  does; a `strtok()` that
  finds nothing keeps its old place.
- *Name of the log* (`config.c:77`). It is cut at 32 characters, and nothing writes
  to it.
- *No configuration file* (`config.c:102`): the loader spins, although it uses
  nothing of the file.
- *Menu.* An entry that is chain-loaded runs into `UNREACHABLE()`.
- *Modules* (`aurix.c:413`): the inner loop never uses its counter, and the outer
  one compares the last module with what lies behind it. No configuration lists
  any.

## What is not modelled

- What the menu draws and the terminal: layout of text by the widths of a font.
- Power and the boot volume: single calls, which appear in `ExitBootServices` and
  `Boot` as their outcome.
- Drivers: what would load them is commented out in the source.
- Modules and protocols that no configuration can name: see above.
- Formatting and languages: a vendored library, and one table of texts that
  nothing exchanges.
- Copies without a decision of their own (`strcpy()`, `strdup()`, `memcpy()`,
  `memset()`), and `da_append()` of `data/da.h`, which has no caller.
- The serial port: output of the log.
- BIOS stage 1 and the i686 and Raspberry Pi builds: stubs that do not yet load
  the rest.
- The content of files, of the parameters and of the framebuffer, and the wording
  of messages.

By lines, most of the sources is none of this: `include/aurix_logo.h` is 12572
lines of image data, `include/ui/ssfn.h` (2304) and `ext/nanoprintf.h` (1238) are
libraries of others. About 5900 lines are the loader's own, a good part of them
declarations of the UEFI and ELF formats, licences and log messages; the parts
above that decide something are modelled, and the shares that "map" states are
shares of all lines together.
