# TinyBIOS in TLA+

A verification development kept beside TinyBIOS: TLA+ models of its components,
TLC configurations that check them on small instances, and theorems checked by
TLAPS for every value of the constants. `PROJECT.json` lists the components, the
runs, the source lines behind every definition, the hazards of the code and the
theorems.

    tlc -workers 2 -config HeapContract.cfg HeapContract.tla     # a run
    tlapm HeapProofs.tla                                         # a proof

## The system

TinyBIOS runs on one CPU. `reset.S` and `init.S` switch to long mode with a page
table at address 0, copy the code to 0x70000 and call `c_main()`, which sets up
the heap, the IDT and then every device in turn (`post_and_init()`), enables
interrupts and halts. Drivers poll; interrupts are on only at the very end. What
makes the code hard is therefore not threads but hardware that answers late, or
never, or something else; arithmetic at boundaries; and a heap whose clients
bring it, by legal calls, into states its author did not think of.

| Component | State it keeps | Operations | Talks to | Hard parts | Correct when |
|---|---|---|---|---|---|
| Heap (`mm/malloc.c`) | headers in the heap, links, flags | malloc, calloc, realloc, free; search, split, coalesce | clients; the page table at address 0, which a NULL link leads to | long call sequences, unsigned wrap, links to NULL | blocks tile the heap, nobody shares bytes, walks end |
| Slab (`mm/slab.c`, `slab.h`, `bitmap.h`) | header, bitmap, objects in one region | init_slab, slab_alloc, slab_free | clients | integer rounding, 16-bit fields, last entry | objects inside the region and apart, bitmap = objects held |
| 8042 (`drivers/kbdctl/8042.c`) | `keyboard_controller_status` | init, self-test, rollback, A20, enable ports | controller, keyboard | late or missing answers, scancodes as answers | reported configuration is the real one, calls end |
| PCI (`drivers/pci`) | `pci_device_array` | enumeration of devices and functions, the printed tree | configuration space, heap; ATA and framebuffer read the array | counter widths, array bound, tables of names | every device found once and named right, scan ends |
| PIC, PIT, IDT (`drivers/pic_8259`, `drivers/pit`, `interrupts`) | mask, request and service registers, the timer's count, vector table | initialise, unmask, end of interrupt, read registers; set the timer; install handlers | CPU; `c_main()` enables interrupts | an interrupt between any two steps, spurious requests | every open line has a handler, every tick is served |
| CMOS/RTC (`drivers/cmos`) | `cmos_data` | `cmos_init()`, memory registers | clock | update between two reads, unbounded wait | what is read was there; the wait ends |
| Memory map (`memory_init_late.c`, `fwcfg.c`, `cmos.h`) | `memory_map`, 128 entries | fw_cfg read, CMOS fallback | fw_cfg, heap, paging | 8-bit count, no bound, a list given up half way | entries fit the table and come from one source |
| Paging (`mm/paging.c`, `cpu/init.S`) | the tables at address 0, three new ones, CR3 | `setup_paging`, `init_paging()` | memory map, heap, IDT | truncated counts, unaligned root | what runs stays mapped, writes stay in the tables |
| ATA (`drivers/ata`) | `ata_ide_array`, `ata_bus.active_drive`, `drive_array` | controller and bus init, drive selection, IDENTIFY, status waits | PCI array, heap, drives | cached selection, a selection that is trusted, waits that give up, frees that damage the heap | records are answers of a drive that is there, none lost |
| Serial, console (`drivers/serial`, `console.c`) | UART, default console | set up, transmit with retries; formats | UART; every driver prints | full transmitter, unbounded retries, swapped arguments | the line is the text, in order, once |
| itoa, string (`stdlib`) | none | conversions, copies, comparison | console, fw_cfg | bases, leading zeros | equals a reference conversion |
| Boot, device, panic (`c_entry.c`, `post.c`, `device.h`, `panic.c`) | `device.status` | `initialize_device()`, `switch_output_device()`, dump | all drivers | order, failed devices, what is unwound | it ends in the idle loop or in `panic()` |
| Reset and mode switch (`reset.S`, `cpu`) | MTRRs, stack, descriptors | cache as RAM, protected and long mode | | a return address of the wrong width | the stack keeps its memory, code stays reachable |
| romcall, contexts | call table, saved context | dispatch | a payload (none is loaded) | | not modelled |
| super I/O, framebuffer | | straight-line register writes | | | not modelled |

## What is modelled

**`Heap.tla`** is `malloc.c`. Memory is a partial function `mem` from addresses to
`memory_header` records; `pc` and `call` are the running call and its locals;
`owned` and `given` record what clients were handed. One action is one call's
entry (`CallMalloc`, `CallFree`, `CallReallocInPlace`, `CallReallocMove`), one
turn of the search loop (`SearchNext`, with its ends `SearchFail`, `FinishMalloc`,
`MoveContent`) or one turn of the two coalescing loops (`FuseNext`,
`FusePrevious` and their ends). `insert_new_block()` and `fuse_blocks()` are
operators that assign in the code's order, since the headers they write may be
the same. `calloc()` is `malloc()` here: contents are not modelled.

A header is one element of `mem`. In the program a header may also be written partly
over another one, and `memset()` and `memcpy()` may go over live headers; the model
has neither, so the specifications below make a call only where neither can happen,
and `HeadersApart` states, checks and proves that it does not. One call of the
firmware is left out by this, the `realloc()` of `ata.c:215`: 48 bytes with its header
in a block of 64, whose new header lands in the middle of the one behind. It is
modelled where it is made, in `Ata`.

The list reaches address 0, because `hdr_addr_is_valid()` has no lower bound. The
bytes there are the page table of `init.S`, so the model gives address 0, and the
three addresses its `next` field can read as, the values of those bytes, and lets
the CPU's Accessed and Dirty bits change them. `PageFault` is the reset that
follows once entry 0 is overwritten. The boot page table stays in use: the root
`init_paging()` loads leads back to it (see `AddressSpace`).

**`HeapContract.tla`** is the same heap under the discipline it can bear: sizes
that do not leave a remainder smaller than a header (`NoTightFit`), frees of
blocks without a free neighbour (`NoFreeNeighbour`), shrinking in place only
(`ShrinkIsSafe`). No caller keeps to it on purpose; it is where the code's
correctness ends, and each clause has a reason at a line of `malloc.c`. Double
frees stay in, as the code tests for them. **`Allocator.tla`** is what clients are
promised: pointers to bytes nobody else holds.

`LastCallSpec`, in the same module, goes one call past the discipline. From every list
the discipline leads to, any pointer may be freed and any block resized or moved, with
two free neighbours or with the page table for one; that call runs to its end over the
list it breaks, and it is the last one: what a broken list does to later calls depends
on bytes that are no headers. **`MCHeap.tla`** has the instances with one clause of the
discipline dropped.

**`Slab.tla`** is `init_slab()`, `slab_alloc()`, `slab_free()` and the bitmap. A byte
of the bitmap is the set of its 1 bits; memory starts all zeroes or all ones.
**`Pool.tla`** is what a slab promises. Nothing calls the slab yet.

**`KeyboardController.tla`** is `8042.c`: one action per poll of the driver, each
of which finds the controller ready or gives up; the controller, which takes
commands and answers in its own time; and the keyboard, which may put a scancode
into the output buffer whenever that is empty. Bytes are the sets of their 1 bits.
The controller side is external, modelled from the commands the driver sends it.

**`Pci.tla`** is `enumerate_pci_buses()` with `pci_add_devices_from_bus()`: one action
per slot looked at (`EmptySlot`, `AddDevice`, `OutOfMemory`), one for the end of a bus
and one per function tried. `system` is what is plugged in, any subset of
`Systems`; a configuration read is `Plugged`. `addr`, which the first scan runs on
and the search for buses goes on with, is `device` and `function`; the copy further
scans run on is `bus` and `slot`. What the search finds as functions of the device
the first scan ended at, it takes for buses: `Last` and `Reached` say so in the
properties. `cacheline` records the register `pci_start_selftest()` really writes.
**`PciHeader.tla`** is the header of a function: the structs it is read through, whose
layout TLC computes from their fields (**`Structs.tla`**, which `Ata` uses as well) to see
that the registers `pci_read_header()` copies fit and land where PCI has them, and the
tables and the switch that make a class and a subclass a name. **`PciTree.tla`**
composes the enumeration with `pci_print_devtree()`, a step per line. A subclass
past the end of the table of names is a read behind the array: the line then names
something else, or the machine is lost (`PrintBeyond`). **`MCPci.tla`** enumerates
devices on two buses, with headers of each kind, and functions of the two devices
that matter.

**`Boot.tla`** is the firmware as a whole, from the reset vector to the idle loop,
one action per step of `reset.S`, `c_main()` and `post_and_init()` and per turn of
a loop, with the interrupt lines and the clock running beside it. It composes
three modules of operators. **`Interrupts.tla`** has the two 8259 chips (what a port
write does to a chip, which request reaches the processor), the timer, and the
drivers as the sequences of port writes they make; **`MemoryMap.tla`** what a region
of the E820 file or the CMOS registers become in the map; **`AddressSpace.tla`** the
tables at address 0 and the processor's walk from a root. The last matters, as
`init_paging()` loads an unaligned pointer: the processor drops the low twelve
bits and walks from the start of the page, which lies in the middle of the
interrupt descriptor table. The bytes of a gate read as an entry that is present
and leads to page 0, where the boot page table then serves as every level below, so
that the first megabyte still means itself. Which gate it is depends on every allocation before, which is why
`Boot` keeps the place of the heap: the next address at its end (`heap.top`), the block of the
fwcfg_file that `memory_init_late.c:99` gives back and the page tables are then put
into, first fit (`heap.hole`), whether the list still goes on to the end of the heap
(`heap.ended`), and the first four entries of the boot page table (`heap.low`), which
are the bytes of the header at address 0.

Two calls of `free()` cut the list. That of the fwcfg_file, when the firmware's list had no
RAM and no map entry was allocated behind it, and that of the record of a drive that is
not there (`ata.c:131`): the freed block is the last one, what follows is the free tail, and
`fuse_walkthrough()` goes on from there through address 0. It zeroes the header there,
which is the way to every page; the machine runs on what the TLB holds, until
some walk of the tables resets it (`PageFault`). No allocation succeeds any more: the
entries of the CMOS fallback are written through NULL over the same bytes (`AddEntries`),
and the tables of `init_paging()` get no memory, which panics. A third way is a map so long
that the first page table fills the hole to the byte (`FillsHole`); that panics too.

The heap's failures that are tested for, the result of the 8042
driver and of the two bus drivers are nondeterministic here; their own modules say
what they are. **`MCBoot.tla`** has five contents of fw_cfg.

**`Ata.tla`** is `init_ata_controllers()` down to the single reads of a status wait.
The machine side is the drives of each bus, which of the two is selected and how
far IDENTIFY is; `SelectDrive` writes the byte the driver writes, and
`DriveOf` is the drive that byte selects. What the address register reads afterwards
is anything (`AddressBits`): few drives have it, and at 0x3F7 a floppy controller answers;
so drive 1 may be taken for selected while drive 0 answers for it. Of the heap the module
has what the driver does to it: `blocks` counts allocated drive records; `list` says
whether the list is sound, ended or overlaid; `page0` whether the page table survived.
`FreeRecord` is the `free()` of `ata.c:131`: the record is the last block in front of the
free tail, so it goes through address 0 as above, unless the record had taken the
tail whole. `StoreIde` is the `realloc()` of `ata.c:215`, which leaves the array where it is and
writes a header over the `ata_ide` behind it. The next `ata_ide` is allocated over the one
before (`OverwriteIde`); what the driver does with the two laid over each other is bytes, and
the module ends there. Two assumptions are arithmetic on the source that
TLC evaluates: 512 words of IDENTIFY fit the unpacked header structure and put
the model name where drives do, and no port belongs to two buses. **`MCAta.tla`**
has the drives and controllers.

**`Console.tla`** is `blogf()` with its format strings, escapes and widths, `itoah()`
and `itoa()`, the register dump, and `serial_tx()` with its waits against a UART
that holds one byte. The console may be switched on between any two messages.
Properties compare the bytes on the line with the text a message stands for,
computed from its items by a definition of its own (`NumberText`, which divides where
`itoah()` shifts). **`MCConsole.tla`**
has programs with the formats of the firmware.

## Runs and what they show

| Run | Shows |
|---|---|
| `heap_contract` | Under the discipline: the blocks tile the heap (`ListTiles`), flags say who holds what (`FlagsMatchOwners`), entry 0 of the page table is never written (`PageTableKept`), a double free panics (`DoubleFreeCaught`), malloc() fails only when no block fits (`FailsOnlyWhenNoneFits`), calls return, and clients see `Allocator`. |
| `heap_last_call` | One call outside the discipline, from every list within it: headers and clients' bytes never share a byte, nor do headers and what is zeroed or copied (`HeadersApart`), as long as no split falls within a header of a block's exact size; no client is handed memory behind NULL (`NullNeverHanded`); the call ends, in a panic or a reset if need be (`LastCallEnds`). |
| `heap_fuse` | Expected violation: `fuse_blocks()` does not combine neighbours. |
| `heap_realloc` | Expected violation: the block a moving `realloc()` returns is still marked free. |
| `heap_region` | Expected violation: the heap hands out memory past the region it was given. |
| `slab` | A slab is a `Pool`; objects lie inside the region and apart; the bitmap matches the clients. |
| `kbd` | What the driver reports of the controller is so, despite late answers and scancodes; data bytes are taken for what they are meant; A20 is on in the end if reported; every call returns or panics. |
| `pci` | Indices stay in the array while one bus is scanned (`InArray`); across buses the array has no hole, duplicate or stranger (`ListedInOrder`); the count returned covers exactly what the scanned slots hold (`FoundAsCounted`); the printed tree has a line for each device found, with its name wherever the table and the switch agree and a self-test noted where one was started (`TreeSound`); enumeration and printing end unless every function of the device the search looks at is there (`TreeEnds`). |
| `pci_slot31` | Expected violation: a device in the last slot is not found. |
| `boot` | The stack keeps its memory and all code its segment until long mode (`StartupSafe`); the first megabyte stays mapped, with the unaligned root too, unless a `free()` cut the heap's list, and the machine is reset for no other reason (`FirmwareMapped`); the memory map fits its table and comes whole from one source, wherever it is used (`MapSound`); `init_paging()` writes inside its tables (`TablesInBounds`); once interrupts are on, every open line has a handler and a vector of its own (`OpenLinesHandled`); the boot ends, and never in the idle loop after a list without RAM (`BootEnds`); each tick is acknowledged and finished, or the firmware panics for a spurious interrupt or is reset (`TickServed`). |
| `ata` | Every record is the answer of drive 0 of its bus, which is there and is what the record says (`AnsweredByDriveZero`); until the machine is reset every allocated record is kept, none lost or freed twice (`DrivesKept`); the driver ends or the machine is reset, whatever drives do (`InitReturns`). |
| `console` | The line carries the text of the messages, byte for byte and once (`LineIsMessage`); the writes with swapped arguments miss every port another driver writes (`StrayMissesDrivers`); all of it is sent in the end (`MessageSent`). |

### Bounds

Heap: `HDR` is the real 32. `HeapStartSize` 2 stands for 16 (it only shifts `Start`)
and the region has 384 bytes, so that up to five blocks exist and the third
request no longer fits. The three malloc sizes become 64, 96 and 192 bytes with
their header: exact fits, fits that split and requests for which the walk passes
the last block all occur. `NullSize` 67 keeps 0x2003's odd remainder, and the page
table addresses keep their order below the heap. `heap_last_call` has four sizes for
`realloc()`, which shrink, fit as they are, and have to move, to free blocks in
front and behind. `heap_contract` has no bound on calls: its state space is finite, and so is that of `heap_last_call`.

Slab: `U16` 16 stands for 2^16 and lets the count of one region wrap; the five
regions have one or two bitmap bytes, sizes that do and do not divide the
overhead, and one that fits to the byte.

8042: two initial configurations (translation and both interrupts on; one whose
masked form is itself); scancodes that look like a configuration, like the value
just written and like a passed self-test, the ones that can fool the driver. The
5000 reads of a poll are one step that may give up whenever the controller is not
ready.

PCI: 4 slots, 3 functions, 4 entries and counters below 16 stand for 32, 8, 32 and
256 and keep what matters of them: a bus fits the array, two may not, and all
scanned slots of all buses (8 * 31 = 248) stay below the counters' width. The
systems include every set of devices on bus 0, two more buses, host bridges with
and without functions, and a device all of whose functions are there, where the
3-bit counter wraps. The headers have classes with and without names, subclasses
without one inside the table and past its end, co-processors, and self-tests.

Boot: the table has 33 entries for 128, which the longest list needs: 29 regions, the
first of them of five entries, for which the page table fills the freed block to the byte. It is
more than the five of the CMOS fallback. `FirmwarePages` are the pages the walk is asked
for: those of the tables, the stack and the heap's first blocks, of the code, and of the ROM;
2 attempts for 0x500, so that `cmos_init()` succeeds at
the first, at the second and not at all; a month that is right and one, 19, that is
taken for none; lines 1 and 8, one of each chip, besides the timer's. fw_cfg is
absent, lacks the file, has a list without RAM, lists RAM at 0, an empty
region and RAM above, or is the long list. The CMOS registers are the smallest and the largest values.
The 8-bit count of the map and the 128 entries are as far as `BootAssumption` goes: the
firmware is handed a list that fits.

ATA: two buses for four, 2 reads of a wait for 50; every pair of drives on the first
bus, with a busy drive that answers before, between and after the reads; a
controller of another kind, before and behind one that is stored, one in native mode and two
that share the legacy buses.

Console: 2 reads of a wait for 50000, so that a wait gives up and is repeated in the
middle of a line end; widths none, 4, 8 and 16 and numbers of one to eight digits, 0
among them; every conversion and the escape. The UART's identification register
reads as two values: with and without the bit that is masked.

### Fairness

There is one CPU and no preemption while these calls run, so a call that has been
made runs on: `WF(Run)` in the heap, `WF(Driver)` in the 8042 model, `WF(Enumerating \/ PrintStep)` in PCI. Which call a
client makes, and whether, is never fair. `WF(Controller)` is an assumption about
hardware - a written byte is taken in the end, but only once the controller's own
answer has been read - and only `A20Follows` needs it. Keyboard and page faults
are not fair.

In `Boot` the processor runs on (`WF(Run)`) and takes an interrupt it has enabled
(`WF(TakeInterrupt)`). The clock's updates end (`WF(ClockUpdates)`), and the poll of its
flag, which has no bound, is met by an idle clock in the end (`SF(CmosPoll)`): a clock
updates for two milliseconds in a second, so that a loop of reads cannot miss the
rest for ever. Without it the boot may hang at `cmos.c:65`. No line has to rise.
`Ata` needs the processor only (`WF(Driver)`): `InitReturns` must hold with drives
that never answer. A reset for want of a page table (`PageFault`, `Reset`) is never fair: it may
stay away for ever, in `Heap` too. `Console` has `WF(Firmware)` and `WF(UartSends)`, as the transmit
shift register runs on its own clock; that a console is ever switched on is not
assumed.

## What is proved

Every invariant the runs check and every safety property
of a step hold for all values of the constants; eight modules hold the proofs.

`HeapProofs.tla` proves, for every heap size, header size, set of requests and any
number of calls of `ContractSpec`: `TypeOK`, `ListTiles`, `FlagsMatchOwners`,
`PageTableKept`, `DoubleFreeCaught`, `FailsOnlyWhenNoneFits`, and that the heap implements `Allocator`.
Assumed is `HeapAssumption`: the page table lies below the heap, a header is
positive, the heap has room for three.

None of the invariants is inductive alone. `HeapInv` adds what lies at address 0
(`SystemHeaders`; the split of the first block merges with it, exactly once), that
no two free blocks are neighbours within the walk (`NoFreePairs`; so a later split
merges nothing) and what a call in progress may rely on (`CallInProgress`). The
proof follows the code: one lemma for each of `insert_new_block()`'s parts, first
split and later splits apart, then one step per action. For `FailsOnlyWhenNoneFits` a second invariant on top of it, `NonePassed`, says that a block
that would do lies at the search's cursor or behind it. The refinement reads the
disjointness of two clients' bytes off `ListTiles` and `FlagsMatchOwners`.

The last part of `HeapProofs.tla` proves `HeadersApart` and `NullNeverHanded` of
`LastCallSpec`, up to the end of the call that breaks the list. Nothing of the tiling survives
that call; what does is `LastCallInv`: every link, forward or back, of every header that is
there leads to an address that holds a header (`ListSound`), zeroed ones included; the call
in progress works on blocks of the heap, not on the page table (`CallSound`); the search
still runs over a sound list; and the bytes a moving `realloc()` copies to hold no header
(`CopyTargetApart`), although the block it copies to stays free and is fused.
`EachTurnUsesUpAFreeHeader` is the argument behind `LastCallEnds`: a turn of either coalescing loop
clears a header that was free and makes none free, so that the loops take at most as many
turns as there are headers, whatever the list looks like. It rests on headers not being
written partly over each other, which is what `HeadersApart` says. The last inference, that a
finite set cannot shrink for ever under fairness, is left to TLC.

`SlabProofs.tla` proves `TypeOK`, `ObjectsInRegion` and `BitmapMatchesHeld` for every
region that satisfies `SlabAssumption`, which needs the arithmetic of rounding up
to whole objects, that `slab_index()` inverts `slab_mem()` also where 16 bits
truncate; and that the slab implements `Pool`: an allocation returns an object nobody
holds, and NULL only when all are held, as the bitmap says who holds what.

`PciProofs.tla` proves `TypeOK`, `InArray`, `ListedInOrder` and `FoundAsCounted` for
whatever is plugged in. Its invariant `PciInv` says where the enumeration is
(`Place`), that the index is at most what the slots passed so far allow, so that
no 8-bit counter wraps (`Counted`: `Functions * (Slots - 1) < U8`, which
`PciAssumption` asks for, is what makes this true), and that the array lists the
devices passed, in order (`Listed`). All of it needs that the search for buses ends
(`EndsSomewhere`); without that only `TypeOK` and `InArray` hold. On top of it `TreeInv`
proves `TreeSound` of the enumeration with its tree (`TreeSpec`, whose steps of the
enumeration are those of `Pci`): every entry describes its device, also after a
self-test overwrote a register (`Described`), and the lines printed are those of the
first entries of an array that no longer changes (`TreePlace`). `TreeKeepsTheArray`
states the four invariants of the enumeration for `TreeSpec` too.

`KeyboardProofs.tla` proves all three invariants of the 8042 driver, for every initial
configuration and every set of scancodes: `TypeOK`, `ConfigAsReported`,
`DataHasPurpose`. `KeyboardInv` adds the handshake of a two-byte command
(which of its bytes is under way, and that the controller cannot take one for the
other), where each wait leads (`Targets`) and what is known of the configuration
before it is reported (`Settled`, `ConfigPending`): a scancode may be read in place of
the answer, but then the values differ and the driver rolls back or panics.

`AtaProofs.tla` proves `TypeOK`, `AnsweredByDriveZero` and `DrivesKept` for any list of
functions, drives, readings of the address register and number of reads. The driver sets bit 3 of the drive register where
the drive looks at bit 4, so drive 0 is always the selected one (`OnlyDriveZero`) and
whatever is recorded, also in `drive_array[1]`, is its answer: it is recorded only when a
signature or the ready bit was read, which a drive that is not there never shows. For
`DrivesKept`, the records of a bus in work are those of finished drives
(`NotYetRecorded`), the number of blocks follows the cardinality of the set of records
through every `free()`, and once the list has ended nothing is identified any more
(`ListPlace`), so that the block that is freed is always the last one.

`BootProofs.tla` proves all six invariants of the boot. `MapSound` and `TablesInBounds`
hold for every list of regions that fits, every table of at most 128 entries and every
value of the CMOS registers. `ListRead` says
what the loop over the list has put into the map so far and counts its
entries; `SizeBounded` that `memory_size_in_megabytes()` counts at most a megabyte
an entry, because its sum is compared after each entry. Hence at most 128 MB are
mapped, one table of each level is enough, and the offsets that nothing bounds stay 0.

`TypeOK`, `StartupSafe` and `OpenLinesHandled` come from `BootInv`, for every set of
lines that may rise: what the MTRR register is when its low half becomes part of a
return address (`StartupPlace`); which words the chips have taken and which lines are
masked at each point, computed word by word through `pic_initialize()`, so that
between `pic_unmask_irq()` and the handler's end of interrupt nothing but the timer can
be in service (`ChipsReady`, `InterruptPlace`); how many attempts the clock has had
(`ClockPlace`); and where the heap and its freed block are (`HeapPlace`).

`FirmwareMapped` is proved for lists of at most 18 regions (`ShortLists`), which make a
map of at most 22 entries: then `pml4`, of which at most one page table goes into the
freed block in front, begins in the tenth page, at whose start lies the
middle of gate 221, whose bytes read as an entry that leads to page 0. The bound is
the code's: from 23 entries on `pml4` lies in the next
page, whose first bytes are no such gate, and the firmware would lose its own pages
with the load of CR3. QEMU hands over fewer than ten regions. The property leaves out
what a cut list does to the page table, and says that nothing else ends in a reset.

`ConsoleProofs.tla` proves `StrayMissesDrivers` for every value the UART's identification
register can have while no interrupt is pending (`NothingPending`; nothing enables
one), and that every newline on the line follows its carriage return
(`NewlinesReturn`), for every program of messages, every width and every wait that
gives up between the two bytes and is repeated. `NewlineInv` has what the transmitter
remembers of the two bytes agree with the last byte that went out or is held.

It also proves `LineIsMessage`: for every program of messages, every moment the console
may be switched on at and a UART of any speed, the line has the text of the messages.
`Console` says of a program only what the code takes for granted (`Messages`): strings of
characters without a NUL, numbers an `int` holds, `%d` below 16, widths up to sixteen,
and a register printed as `panic()` prints it. The argument has three layers.

* `ConsoleTextProofs.tla`, on numbers: the sixteen digits of `itoah()`, shifted out from the
  right, without the zeros in front, are the digits that repeated division by 16 gives
  (`HexText`); and `bputint()`, which goes back into the zeros of its buffer for the
  width, prints them with as many zeros as it was asked for (`HexIsNumber`,
  `DecIsNumber`).
* On a message, which is a sequence of units, a unit being a character or a conversion
  (`Units`): the format string, the arguments, the text and the count `vfblogf()` returns
  are those of the units, one behind the other (`MessageFormat`, `MessageArgs`,
  `MessageTextIs`, `RegisterTally`); and a turn of the loop that stands between two
  units reads the next one and hands on its text, an escaped character in two turns
  (`TurnConversion`, `TurnCharacter`).
* `ConsoleProofs.tla`, on the line: `LineInv` says that the printer is between two units
  (`AtFormat`), behind a backslash (`AtEscape`), or in the middle of the text of one
  (`AtTx`) or of the space after a register (`AtPadding`), and that the line with the
  transmitter has what that place means, up to the carriage return of a newline that is
  not sent yet (`InTransit`). `LineIsMessage` alone is not inductive: it does not know
  where in the format the loop is, nor which byte of a text comes next.

The digits, the fields of the format and the joined texts are recursive functions and
folds. What they compute is proved by an induction over sets of numbers
(`SetInduction`, from the library's theorem that < is well-founded on Nat), which needs no
operator as a parameter: first that a function as the definition demands it exists
(`RecursionExists`, `FlattensExists`, `DigitsExist`), then what it is.

The assumptions on constants are named in the modules that declare them:
`HeapAssumption`, `SlabAssumption`, `PciAssumption`, `BootAssumption` (a list that fits
the table, at most one region at 0), `AtaAssumption`, `ConsoleAssumption`, `ProgramsAssumption`, and two
`HeaderAssumption`s and `PortsAssumption` about the source's own numbers.

Only model-checked: all liveness (`CallsReturn`, `LastCallEnds`, `A20Follows`,
`TreeEnds`, `BootEnds`, `TickServed`, `InitReturns`, `MessageSent`), which TLAPS
cannot prove under fairness.

## Disagreements between code and comments

* `malloc.c:126` "combine two consecutive memory blocks together": `malloc.c:133`
  grows the higher header and zeroes the lower one (`heap_fuse`).
* `malloc.c:318` "Pointer to reallocated memory": nothing marks it as taken
  (`heap_realloc`).
* `malloc.c:46` "the amount of bytes we can use": `malloc.c:49` adds
  `sizeof(heap_start)` headers, not bytes, so the heap ends 480 bytes further on, in
  the code copied to 0x70000 (`heap_region`).
* `pci.c:122` "all pci devices we have plugged in": `pci.c:85` stops before device
  number 31 (`pci_slot31`).
* `pci_util.c:68` "Start device self test": `pci_util.c:78` writes the start bit to the
  lowest byte of register 0x0C, the cache line size, where it starts nothing, and
  the function returns true. Modelled (`cacheline`), without a run.

Met while modelling and part of the modules' behaviour, without a run of their own:

* `pic.c:195` `pic_read_isr()` and `pic.c:208` `pic_read_irr()` send each other's command.
* `serial.h:121-167` hands `outb()` its arguments in the wrong order: the baud rate,
  "Set baud rate for device" at `serial.h:159`, is never set; only the line control,
  written the right way round, reaches the UART. `StrayMissesDrivers` says where the
  other bytes go.
* `itoa.c` in base 10 is right below 16 only; nothing in the firmware prints `%d`, and
  `Console`'s programs stay below.
* `vfblogf()` returns 4 plus the width for a number, whatever it wrote; one caller
  (`panic.c`) uses the result, and its test works for registers of two and three letters.
* `console.c:82` takes a number as `int`: 64-bit registers are printed sign-extended
  from their low half.
* `free()` of the last block in front of the free tail clears the first four entries of the
  page table (`malloc.c:151-156`, `malloc.c:141`) and ends the list: `memory_init_late.c:99` when
  the firmware's list has no RAM, `ata.c:131` for every drive that is not there or reports an
  error. The machine lives on what its TLB holds. After the first, the fallback
  announced at `post.c:92` writes its entries to address 0, and `init_paging()` panics.
* `ata.c:215` grows the array by a `realloc()` whose new header is written over the `ata_ide`
  behind it, and a second controller's `ata_ide` is then allocated over the first one's. The moved
  pointer, if it moved, would reach only a local variable.
* `ata_select_drive()` "true if drive got selected" (`ata_util.c:110`): it writes the select
  bit one position too low, so drive 0 stays selected, and trusts the address register, so that it
  returns true for drive 1 wherever that reads as 0. A slow packet drive whose ready bit is on while it is
  busy is recorded as ATA, as `ata.c:99` does not look at the busy bit.
* Two controllers in compatibility mode are probed on the same buses.
* `memory_init_late.c` gives the fixed entries an end address where the others have
  a size; `memory_size_in_megabytes()` counts a megabyte an entry, whatever its size.
* `paging.c:116` loads CR3 with a pointer that is not aligned; the tables it filled are
  never walked.
* The comments in `pci.h` on the offsets of subclass names ("Simple comms - 24", "base
  system - 31", "input - 37"), which the switch at `pci.c:173` follows, are off by one, two
  and one: the names start at 23, 29 and 36. A PIC is printed as "timer".
* `pci.c:206` does not compare the subclass with the number of names of its class:
  a subclass without a name takes one of the next class, and in the last class
  whatever lies behind the table. `pci.c:161` looks for the class of a co-processor in
  the cache line size.

## Not modelled

* Functions nothing calls at this commit: `pic_mask_irq()` (whose read of the mask is
  wrong, `pic.c:156`), `pit_read_count()`, `rtc_enable_nmi()`, `cmos_read_timedate()`
  (which puts the month into `year`), `fwcfg_read_file()`, `ata_bus_reset()`,
  `serial_rx()`, `serial_device_is_faulty()`, `map_address()`, `kbdctl_disable_ports()`,
  `kbdctl_reset_device()`, `switch_to_unreal`. Without a caller there is no state in which
  the program calls them, and a property of them would be about an invented client.
* ROM calls and 16-bit contexts: `find_and_exec_roms()` and `exec_in_ctx16()` have no
  callers either, and no payload is in the repository.
* Super I/O and the Bochs framebuffer: register writes in a fixed order, nothing read back.
* The wording of names (a name is the codes it stands for) and drive models; the BARs of
  PCI devices, which only the framebuffer looks at; contents of memory blocks;
  single-instruction accessors, which are the reads and writes of the driver models.
* Failure, for want of room, of the allocations nothing tests: a map entry in `add_from_to()` or
  `add_entry()`, and the two arrays of `post.c:148` and `post.c:151`. In a list that goes on
  to the end of the heap they have room, as less than a tenth of it is used by then and 128
  entries take 8 KB. In a list that was cut they fail: for map entries that is modelled
  (`AddEntries`); the arrays come after `init_paging()`, which panics on such a list.
* The text of a drive's model name and the block of it that `ata.c:143` allocates and nothing
  frees; what two `ata_ide` structures laid over each other lead to, see `Ata`.
* Calls to a heap whose list is broken, beyond the one that broke it, and `realloc()` to a size
  within a header of the block's: there headers and contents share bytes. What the firmware
  itself does of this kind is in `Boot` and `Ata`, followed to the panic, the reset or the
  overwritten structure it ends in.
* Lists of regions longer than the map's table, and slab regions too small for their
  header: the code does not test for them, and the assumptions exclude them.

## Plan

Ordered by what the rest of the firmware depends on. All steps are done.

1. Heap: `Heap`, `HeapContract`, `Allocator`, `MCHeap`, `HeapProofs`.
2. Slab: `Pool`, `Slab`, `MCSlab`, `SlabProofs`.
3. 8042: `KeyboardController`, `KeyboardProofs`.
4. PCI: `PciHeader`, `Pci`, `PciTree`, `MCPci`, `PciProofs`.
5. Interrupts: `Interrupts`, composed in `Boot`.
6. Memory map, paging, clock: `MemoryMap`, `AddressSpace`, `Boot`, `MCBoot`, `BootProofs`.
7. ATA: `Ata`, `MCAta`, `AtaProofs`.
8. Serial, console, conversions: `Console`, `MCConsole`, `ConsoleTextProofs`, `ConsoleProofs`; the boot sequence: `Boot`.

Left to prove: nothing of what the runs check that the prover reaches. What a later
change could add: the exact number of map entries, between 22 and 128, for which
`FirmwareMapped` fails; and `NewlinesReturn` as a consequence of `LineInv`, in place of
an invariant of its own.
