-------------------------------- MODULE Boot --------------------------------
(***************************************************************************)
(* The firmware from the reset vector to its idle loop: reset.S,           *)
(* cpu/cache.S and cpu/init.S, then c_main() and post_and_init() (post.c), *)
(* with the clock, the timer and the interrupt lines running beside it.    *)
(* Interrupts, MemoryMap and AddressSpace say what the single operations   *)
(* do; the heap, the 8042 driver and the bus drivers have modules of their *)
(* own and are here what they may return.                                  *)
(*                                                                         *)
(* Interrupts stay off until c_main() has finished, so a driver's calls    *)
(* are one action up to its next loop; the loops take a turn at a time.    *)
(***************************************************************************)
EXTENDS Interrupts, MemoryMap, AddressSpace

CONSTANTS FwCfgs,         \* what fw_cfg may hold: a set of sequences of files, or {} in it
          CmosSizes,      \* <<low, high>>: registers 0x30 and 0x31
          MapEntries,     \* memory_map.entry, 128
          Attempts,       \* the bound of cmos_init(), 0x500
          Months,         \* what the clock's month register may hold
          Formats,        \* what its status register B may hold, as a byte
          ExtraLines      \* lines other than the timer's that may be raised

Devices == {"uart", "memory", "pic", "keyboard", "cmos", "pit"}
Status  == {"unknown", "not_present", "present", "faulty", "initialised"}

(* The firmware has no more RAM regions than its table takes: a region at  *)
(* 0 gets five entries, and there is one such region.                      *)
ASSUME BootAssumption ==
  /\ MapEntries \in Nat /\ MapEntries <= 128 /\ 3 <= MapEntries
  /\ \A files \in FwCfgs : \A f \in DOMAIN files :
       /\ files[f].regions \in Seq([addr : Nat, size : Nat, type : Nat])
       /\ Len(files[f].regions) + 4 <= MapEntries
       /\ \A i, j \in DOMAIN files[f].regions :
            files[f].regions[i].addr = 0 /\ files[f].regions[j].addr = 0 => i = j
  /\ CmosSizes \subseteq (0..255) \X (0..255)
  /\ Attempts \in Nat \ {0}
  /\ ExtraLines \subseteq Lines \ {TIMER_LINE, CASCADE}
  /\ FirmwarePages \subseteq 0..255

VARIABLES
  pc,         \* what the processor executes next
  deftype,    \* the bits of MTRR_DEFTYPE_REG0
  nofill,     \* the cache is a memory of its own (CR0)
  stack,      \* what backs the stack
  target,     \* the high half of the address switch_to_protected jumps to
  segment,    \* the descriptor the code segment register holds
  cr3,        \* the root of the tables, 0 while paging is off
  interrupts, \* the interrupt flag
  heap,       \* what the boot has done to the heap, and the heap to page 0
  status,     \* the status of each device structure
  files,      \* fw_cfg: its directory, << >> if the device is not there
  region,     \* the next region of the file that is read
  map,        \* the entries of memory_map
  size,       \* memory_size_in_megabytes(): its locals
  tables,     \* init_paging(): its locals
  pic, pit, idt,
  rtc,        \* the clock: what its registers hold
  cmos,       \* cmos_data, and the month cmos_init() read first
  vector      \* the last vector taken

startup == <<deftype, nofill, stack, target>>
mode    == <<segment, cr3>>
memory  == <<files, region, map, size, tables>>
chips   == <<pic, pit, idt>>
clock   == <<rtc, cmos>>
vars    == <<pc, startup, mode, interrupts, heap, status, memory, chips, clock, vector>>

(* The heap the boot begins with: the next block is put at top; hole is the *)
(* size of the block behind the devices, once it was given back, or 0;      *)
(* ended: the list was cut and ends in front of top; low: the first entries *)
(* of the boot page table, Accessed and Dirty bits left out.                *)
Heaps == [top : Nat, hole : Nat, ended : BOOLEAN, low : [LOW -> Nat]]

FirstHeap == [top |-> HEAP_START, hole |-> 0, ended |-> FALSE, low |-> BootLow]

ResetChip == [expects |-> 0, base |-> {}, cascade |-> {}, mode |-> {}, imr |-> {},
              irr |-> {}, isr |-> {}, level |-> {}, reads |-> "irr"]

Init ==
  /\ pc = "reset"
  /\ deftype = {} /\ nofill = FALSE /\ stack = "none" /\ target = {} /\ segment = "real"
  /\ cr3 = 0
  /\ interrupts = FALSE /\ heap = FirstHeap /\ vector = -1
  /\ status = [d \in Devices |-> "unknown"]
  /\ files \in FwCfgs /\ region = 1 /\ map = << >>
  /\ size = [entry |-> 1, sum |-> 0, mb |-> 0]
  /\ tables = [page |-> 0, pdpt_off |-> 0, pml4_off |-> 0, pml4 |-> 0]
  /\ pic = [c \in Chips |-> ResetChip]
  /\ pit \in [mode : {"any"}, access : {"any"}, count : {0}, running : BOOLEAN]
  /\ idt = NoIdt
  /\ rtc \in [updating : BOOLEAN, month : Months, format : Formats]
  /\ cmos = [iodelay |-> 0, month |-> 0, bcd |-> FALSE, half_day |-> FALSE]

-----------------------------------------------------------------------------
(* cpu/cache.S, cpu/init.S, reset.S. MTRR_ENABLE is bit 11.                 *)
MTRR_ENABLE == 11

(* entry, with cpu/cache.S: the stack is the cache; main_memory_init returns *)
CacheAsRam ==
  /\ pc = "reset"
  /\ deftype' = deftype \cup {MTRR_ENABLE} /\ nofill' = TRUE /\ stack' = "cache"
  /\ pc' = "main_memory_init"
  /\ UNCHANGED <<target, mode, interrupts, heap, status, memory, chips, clock, vector>>

(* Mutant: the stack stays where it is. *)
StackLeftInCache ==
  /\ pc = "main_memory_init"
  /\ pc' = "mtrr"
  /\ UNCHANGED <<startup, mode, interrupts, heap, status, memory, chips, clock, vector>>

MoveStack ==
  /\ pc = "main_memory_init"
  /\ stack' = "ram" /\ pc' = "mtrr"
  /\ UNCHANGED <<deftype, nofill, target, mode, interrupts, heap, status, memory, chips, clock, vector>>

DisableMtrr ==
  /\ pc = "mtrr"
  /\ deftype' = deftype \ {MTRR_ENABLE} /\ pc' = "init_cpu"
  /\ UNCHANGED <<nofill, stack, target, mode, interrupts, heap, status, memory, chips, clock, vector>>

(* cpu/gdt.S: the descriptor a selector names; the first one is null        *)
Gdt == << "null", "code32", "code64", "data64" >>
Descriptor(selector) == Gdt[selector \div 8 + 1]

(* init_cpu pushes eax, the register DisableMtrr wrote, and calls           *)
(* switch_to_protected, which pops a 32-bit return address where 16 bits    *)
(* were pushed: its high half is the low half of eax, OR 0xf.               *)
SwitchToProtected ==
  /\ pc = "init_cpu"
  /\ target' = (deftype \cap (0..15)) \cup (0..3)
  /\ pc' = IF target' = 0..3 THEN "setup_paging" ELSE "lost"
  /\ segment' = Descriptor(8)
  /\ UNCHANGED <<deftype, nofill, stack, cr3, interrupts, heap, status, memory, chips, clock, vector>>

(* setup_paging, the copy of the C code to 0x70000, superio_init(), heap_init() *)
SetupPaging ==
  /\ pc = "setup_paging"
  /\ cr3' = BOOT_PML4 /\ segment' = Descriptor(16) /\ pc' = "init_idt"
  /\ UNCHANGED <<startup, interrupts, heap, status, memory, chips, clock, vector>>

-----------------------------------------------------------------------------
(* c_main() and post_and_init(). An allocation the code tests may fail.     *)

Panic == pc' = "panic"

(* the heap after bytes were taken from its end *)
Grown(h, bytes) == [h EXCEPT !.top = @ + bytes]

(* The heap after free() of its last block: the block that follows is free, *)
(* and fuse_walkthrough() goes on from there through address 0, clears the  *)
(* header it finds there and leaves a list that ends at the block; no later *)
(* malloc() finds anything (malloc.c:126-156).                              *)
LastFreed(h) == [h EXCEPT !.ended = TRUE, !.low = [n \in LOW |-> 0]]

InitIdt ==
  /\ pc = "init_idt"
  /\ \/ idt' = init_idt /\ heap' = Grown(heap, AlignedSize(SIZEOF_int_desc_table)) /\ pc' = "devices"
     \/ Panic /\ UNCHANGED <<idt, heap>>
  /\ UNCHANGED <<startup, mode, interrupts, status, memory, pic, pit, clock, vector>>

(* new_device() allocates the structure and the driver's data *)
NewDevice(d) == AlignedSize(SIZEOF_device) + AlignedSize(SIZEOF_data[d])

DeviceBlocks == NewDevice("uart") + NewDevice("memory") + NewDevice("pic")
                + NewDevice("cmos") + NewDevice("keyboard") + NewDevice("pit")

(* where the boot's blocks begin *)
AfterIdt     == HEAP_START + AlignedSize(SIZEOF_int_desc_table)
AfterDevices == AfterIdt + DeviceBlocks
FileBlock    == AlignedSize(SIZEOF_fwcfg_file)
EntryBlock   == AlignedSize(SIZEOF_e820_e)

(* new_device() for every device, and switch_output_device() for the UART,  *)
(* whose serial_init_device() cannot fail                                   *)
NewDevices ==
  /\ pc = "devices"
  /\ \/ /\ heap' = Grown(heap, DeviceBlocks)
        /\ status' = [status EXCEPT !["uart"] = "initialised"]
        /\ pc' = "fwcfg"
     \/ Panic /\ UNCHANGED <<heap, status>>
  /\ UNCHANGED <<startup, mode, interrupts, memory, chips, clock, vector>>

(* The entries of the map are allocated one by one, and no result is tested.*)
(* In a list that goes on to the end of the heap there is room for them; in *)
(* one that was cut none gets memory, every entry is written to address 0,  *)
(* over the first entries of the page table, and all of them read as the    *)
(* last one written (cmos.h:144).                                           *)
AddEntries(entries) ==
  IF ~heap.ended
    THEN /\ map' = map \o entries
         /\ heap' = Grown(heap, Len(entries) * EntryBlock)
    ELSE LET last == entries[Len(entries)] IN
         /\ map' = [i \in DOMAIN entries |-> last]
         /\ heap' = [heap EXCEPT !.low = [n \in LOW |->
              IF n = 0 THEN last.addr ELSE IF n = 1 THEN last.size
              ELSE IF n = 2 THEN last.type ELSE heap.low[n]]]

qemu_fwcfg_present == files # << >>

E820 == fwcfg_find_file_entry(files, E820_FILE)

(* mainboard_specific_memory_init() up to its loop; without fw_cfg nothing  *)
(* is allocated, without the file the fwcfg_file is never freed; it may     *)
(* also not be allocated at all                                             *)
FindE820 ==
  /\ pc = "fwcfg"
  /\ \/ /\ qemu_fwcfg_present
        /\ heap' = Grown(heap, FileBlock)
        /\ pc' = IF E820 \in DOMAIN files THEN "e820" ELSE "cmos_memory"
     \/ pc' = "cmos_memory" /\ UNCHANGED heap
  /\ UNCHANGED <<startup, mode, interrupts, status, memory, chips, clock, vector>>

(* qemu_fwcfg_insb() from the file that was selected                        *)
NextRegion == files[E820].regions[region]

ReadRegion ==
  /\ pc = "e820" /\ region <= Len(files[E820].regions)
  /\ AddEntries(EntriesFor(NextRegion))
  /\ region' = region + 1
  /\ UNCHANGED <<pc, startup, mode, interrupts, status, files, size, tables, chips, clock, vector>>

(* the rest of init_memory_map(): free(f), where f lies in front of the     *)
(* entries of the map, or at the end of the list if there are none          *)
MapRead ==
  /\ pc = "e820" /\ region > Len(files[E820].regions)
  /\ IF map # << >>
       THEN /\ status' = [status EXCEPT !["memory"] = "initialised"] /\ pc' = "size"
            /\ heap' = [heap EXCEPT !.hole = FileBlock]
       ELSE pc' = "cmos_memory" /\ heap' = LastFreed(heap) /\ UNCHANGED status
  /\ UNCHANGED <<startup, mode, interrupts, memory, chips, clock, vector>>

MapFromCmos ==
  /\ pc = "cmos_memory"
  /\ \E c \in CmosSizes : AddEntries(cmos_read_memory_info(c[1], c[2]))
  /\ status' = [status EXCEPT !["memory"] = "faulty"] /\ pc' = "size"
  /\ UNCHANGED <<startup, mode, interrupts, files, region, size, tables, chips, clock, vector>>

-----------------------------------------------------------------------------
(* init_paging() *)

(* memory_size_in_megabytes() *)
MemorySize ==
  /\ pc = "size"
  /\ IF size.entry <= Len(map)
       THEN LET sum == size.sum + map[size.entry].size
                mb  == MegabytesIn(sum)
            IN size' = [entry |-> size.entry + 1, sum |-> IF mb = 0 THEN sum ELSE 0,
                        mb |-> size.mb + mb] /\ UNCHANGED pc
       ELSE pc' = "tables" /\ UNCHANGED size
  /\ UNCHANGED <<startup, mode, interrupts, heap, status, files, region, map, tables, chips, clock, vector>>

Pages     == PagesToMap(size.mb)
PdptCount == TableCount(Pages)
Pml4Count == TableCount(Pages \div 1024)

TableBlock(n) == AlignedSize(n * SIZEOF_page_table_entry)

(* Where a table goes, first fit: into the hole, all of which it takes as   *)
(* what is left is no block of its own, or to the end.                      *)
InHole(h, bytes) == bytes <= h.hole
FirstFit(h, bytes)  == IF InHole(h, bytes) THEN [h EXCEPT !.hole = 0] ELSE Grown(h, bytes)
Place(h, bytes)  == IF InHole(h, bytes) THEN AfterDevices ELSE h.top

WithPages(h) == FirstFit(h, TableBlock(Pages))
WithPdpt(h)  == FirstFit(WithPages(h), TableBlock(PdptCount))

(* A table that fills the hole to the byte has the header of a split put on *)
(* the block behind the hole, an entry of the map, where it is taken for    *)
(* the free follower and cleared; its address goes into the first entry of  *)
(* the page table (malloc.c:203-221), and the list ends there.              *)
FillsHole(h, bytes) == h.hole # 0 /\ bytes = h.hole
HoleFilled(h) ==
  [h EXCEPT !.ended = TRUE, !.low = [h.low EXCEPT ![0] = AfterDevices + h.hole]]

AllocateTables ==
  /\ pc = "tables"
  /\ \/ /\ ~heap.ended /\ ~FillsHole(heap, TableBlock(Pages))
        /\ heap' = FirstFit(WithPdpt(heap), TableBlock(Pml4Count))
        /\ tables' = [tables EXCEPT !.pml4 = Pointer(Place(WithPdpt(heap), TableBlock(Pml4Count)))]
        /\ pc' = "pages"
     \/ /\ Panic
        /\ heap' = IF ~heap.ended /\ FillsHole(heap, TableBlock(Pages)) THEN HoleFilled(heap) ELSE heap
        /\ UNCHANGED tables
  /\ UNCHANGED <<startup, mode, interrupts, status, files, region, map, size, chips, clock, vector>>

(* a turn of the loop over the pages *)
MapPage ==
  /\ pc = "pages" /\ tables.page < Pages
  /\ LET pdpt == tables.pdpt_off + IF tables.page # 0 /\ tables.page % 1024 = 0 THEN 1 ELSE 0
         pml4 == tables.pml4_off + IF pdpt # 0 /\ pdpt % 1024 = 0 THEN 1 ELSE 0
     IN tables' = [tables EXCEPT !.page = @ + 1, !.pdpt_off = pdpt, !.pml4_off = pml4]
  /\ UNCHANGED <<pc, startup, mode, interrupts, heap, status, files, region, map, size, chips, clock, vector>>

(* set_pml4() loads the pointer as it is *)
SetPml4 ==
  /\ pc = "pages" /\ tables.page >= Pages
  /\ cr3' = tables.pml4 /\ pc' = "pic"
  /\ UNCHANGED <<startup, segment, interrupts, heap, status, memory, chips, clock, vector>>

-----------------------------------------------------------------------------
(* initialize_device() for the four devices. None of them is critical: a    *)
(* failure is recorded, and the boot goes on.                               *)

Initialise(device, result) == status' = [status EXCEPT ![device] = result]

InitPic ==
  /\ pc = "pic"
  /\ pic' = pic_initialize(pic)
  /\ Initialise("pic", "initialised") /\ pc' = "keyboard"
  /\ UNCHANGED <<startup, mode, interrupts, heap, memory, pit, idt, clock, vector>>

(* kbdctl_set_default_init(): what it returns, see KeyboardController       *)
InitKeyboard ==
  /\ pc = "keyboard"
  /\ \/ \E r \in {"unknown", "faulty", "initialised"} : Initialise("keyboard", r) /\ pc' = "cmos_poll"
     \/ Panic /\ UNCHANGED status
  /\ UNCHANGED <<startup, mode, interrupts, heap, memory, chips, clock, vector>>

(* cmos_init(). The clock's registers are anything while it updates them.   *)
MonthRead == IF rtc.updating THEN Months \cup {0, 255} ELSE {rtc.month}

(* Mutant: the attempts have no bound. *)
CmosPollUnbounded ==
  /\ pc = "cmos_poll" /\ ~rtc.updating
  /\ pc' = "cmos_month"
  /\ UNCHANGED <<startup, mode, interrupts, heap, status, memory, chips, clock, vector>>

CmosPoll ==
  /\ pc = "cmos_poll" /\ cmos.iodelay < Attempts /\ ~rtc.updating
  /\ pc' = "cmos_month"
  /\ UNCHANGED <<startup, mode, interrupts, heap, status, memory, chips, clock, vector>>

rtc_in_bcd_mode(format)  == 2 \notin format
rtc_in_12hr_mode(format) == 1 \notin format

(* Mutant: a month that cannot be is not an attempt. *)
AttemptNotCounted == pc' = "cmos_poll" /\ UNCHANGED cmos

NextAttempt == pc' = "cmos_poll" /\ cmos' = [cmos EXCEPT !.iodelay = @ + 1]

CmosMonth ==
  /\ pc = "cmos_month"
  /\ \E v \in MonthRead :
       IF v = 0 \/ v > 18                                          \* 0x12
         THEN NextAttempt
         ELSE cmos' = [cmos EXCEPT !.month = v] /\ pc' = "cmos_again"
  /\ UNCHANGED <<startup, mode, interrupts, heap, status, memory, chips, rtc, vector>>

CmosAgain ==
  /\ pc = "cmos_again"
  /\ \E v \in MonthRead :
       IF v = cmos.month
         THEN /\ cmos' = [cmos EXCEPT !.bcd = rtc_in_bcd_mode(rtc.format),
                                     !.half_day = rtc_in_12hr_mode(rtc.format)]
              /\ Initialise("cmos", "initialised") /\ pc' = "pit"
         ELSE NextAttempt /\ UNCHANGED status
  /\ UNCHANGED <<startup, mode, interrupts, heap, memory, chips, rtc, vector>>

CmosGivesUp ==
  /\ pc = "cmos_poll" /\ cmos.iodelay >= Attempts
  /\ Initialise("cmos", "faulty") /\ pc' = "pit"
  /\ UNCHANGED <<startup, mode, interrupts, heap, memory, chips, clock, vector>>

InitPit ==
  /\ pc = "pit"
  /\ pit' = pit_init(pit)
  /\ idt' = add_interrupt_handler(idt, TIMER_VECTOR, "pit_int_handler")
  /\ Initialise("pit", "initialised") /\ pc' = "buses"
  /\ UNCHANGED <<startup, mode, interrupts, heap, memory, pic, clock, vector>>

(* The PCI and ATA drivers, see Pci and Ata: they allocate and may panic.   *)
(* Where their blocks lie does not matter any more, but a drive that cannot *)
(* be initialised has its record freed, the last block of the list          *)
(* (ata.c:131). Ata follows the drivers up to a second IDE controller.      *)
ProbeBuses ==
  /\ pc = "buses"
  /\ \/ pc' = "unmask" /\ UNCHANGED heap
     \/ pc' = "unmask" /\ heap' = LastFreed(heap)
     \/ Panic /\ heap' \in {heap, LastFreed(heap)}
  /\ UNCHANGED <<startup, mode, interrupts, status, memory, chips, clock, vector>>

(* the end of c_main(): pic_unmask_irq(0), sti, halt()                      *)
EnableInterrupts ==
  /\ pc = "unmask"
  /\ pic' = pic_unmask_irq(pic, TIMER_LINE)
  /\ interrupts' = TRUE /\ pc' = "halt"
  /\ UNCHANGED <<startup, mode, heap, status, memory, pit, idt, clock, vector>>

-----------------------------------------------------------------------------
(* The interrupt lines, the clock and the processor's side of an interrupt. *)

(* a line rises: the timer's while it counts, another device's at any time  *)
LineRises ==
  /\ \E line \in ExtraLines \cup (IF pit.running THEN {TIMER_LINE} ELSE {}) :
       InputOf(line) \notin pic[ChipOf(line)].irr /\ pic' = Raised(pic, line)
  /\ UNCHANGED <<pc, startup, mode, interrupts, heap, status, memory, pit, idt, clock, vector>>

ClockUpdates ==
  /\ \/ ~rtc.updating /\ rtc' = [rtc EXCEPT !.updating = TRUE]
     \/ rtc.updating /\ \E m \in Months : rtc' = [rtc EXCEPT !.updating = FALSE, !.month = m]
  /\ UNCHANGED <<pc, startup, mode, interrupts, heap, status, memory, chips, cmos, vector>>

(* the selector of a gate: segment_selector has the index in its low bits,  *)
(* where the processor has privilege and table, and is given the selector   *)
GATE_SELECTOR == 16

(* the processor leaves the code it runs for the gate of a vector           *)
Enter(v) ==
  /\ vector' = v /\ interrupts' = FALSE /\ segment' = Descriptor(GATE_SELECTOR)
  /\ pc' = IF idt[v] \in Handlers \ {"none"} THEN idt[v] ELSE "lost"

TakeInterrupt ==
  /\ interrupts /\ Requests(pic) # {}
  /\ pic' = Acknowledged(pic)
  /\ Enter(Vector(pic, AcknowledgedLine(pic)))
  /\ UNCHANGED <<startup, cr3, heap, status, memory, pit, idt, clock>>

(* the request went away before it was acknowledged                         *)
TakeSpurious ==
  /\ interrupts /\ Requests(pic) # {}
  /\ LET line == AcknowledgedLine(pic) IN
       /\ pic' = [pic EXCEPT ![ChipOf(line)].irr = @ \ {InputOf(line)}]
       /\ Enter(Number(pic["primary"].base) + SPURIOUS)
  /\ UNCHANGED <<startup, cr3, heap, status, memory, pit, idt, clock>>

(* pit_int_handler(); the return from it restores the interrupt flag        *)
PitHandler ==
  /\ pc = "pit_int_handler"
  /\ pic' = pic_send_eoi(pic, 0)
  /\ interrupts' = TRUE /\ pc' = "halt"
  /\ UNCHANGED <<startup, mode, heap, status, memory, pit, idt, clock, vector>>

(* The first entries of the page table are on the way to every page: with   *)
(* them gone the firmware runs on what the TLB still holds, and the first   *)
(* walk of the tables resets the machine, at any moment.                    *)
PageFault ==
  /\ cr3 # 0 /\ ~IdentityMapped(heap.low, idt, cr3)
  /\ pc # "fault" /\ pc' = "fault" /\ interrupts' = FALSE
  /\ UNCHANGED <<startup, mode, heap, status, memory, chips, clock, vector>>

(* default_int_handler(): both registers are read, then panic()             *)
DefaultHandler ==
  /\ pc = "default_int_handler"
  /\ pic' = pic_read_irq(pic_read_irq(pic, PIC_READ_ISR_OCW), PIC_READ_IRR_OCW)
  /\ Panic
  /\ UNCHANGED <<startup, mode, interrupts, heap, status, memory, pit, idt, clock, vector>>

Startup == CacheAsRam \/ MoveStack \/ DisableMtrr \/ SwitchToProtected \/ SetupPaging

MemoryInit == \/ FindE820 \/ ReadRegion \/ MapRead \/ MapFromCmos
              \/ MemorySize \/ AllocateTables \/ MapPage \/ SetPml4

DeviceInit == \/ InitPic \/ InitKeyboard \/ CmosMonth \/ CmosAgain \/ CmosGivesUp
              \/ InitPit \/ ProbeBuses

(* every step of the processor but the poll of the clock                    *)
Run == \/ Startup \/ InitIdt \/ NewDevices \/ MemoryInit \/ DeviceInit \/ EnableInterrupts
       \/ PitHandler \/ DefaultHandler

Next == Run \/ CmosPoll \/ TakeInterrupt \/ TakeSpurious \/ PageFault \/ LineRises \/ ClockUpdates

(* The processor runs on and takes the interrupts it enabled; the clock     *)
(* ends its updates, and is idle so much longer than it updates that the    *)
(* poll meets it idle. Nothing is assumed of the lines.                     *)
Spec == /\ Init /\ [][Next]_vars
        /\ WF_vars(Run) /\ WF_vars(TakeInterrupt) /\ WF_vars(ClockUpdates) /\ SF_vars(CmosPoll)

-----------------------------------------------------------------------------
Steps == {"reset", "main_memory_init", "mtrr", "init_cpu", "setup_paging", "init_idt", "devices",
          "fwcfg", "e820", "cmos_memory", "size", "tables", "pages", "pic", "keyboard", "cmos_poll",
          "cmos_month", "cmos_again", "pit", "buses", "unmask", "halt",
          "pit_int_handler", "default_int_handler", "panic", "fault", "lost"}

(* where nothing more is done *)
Stopped == {"panic", "fault"}

(* Every variable keeps its type; the offsets into the tables are numbers,  *)
(* a device's status is one of DEVICE_STATUS, the chips hold bytes.         *)
TypeOK ==
  /\ pc \in Steps /\ deftype \subseteq 0..31 /\ target \subseteq 0..15
  /\ nofill \in BOOLEAN /\ interrupts \in BOOLEAN /\ stack \in {"none", "cache", "ram"}
  /\ segment \in {"real"} \cup ToSet(Gdt)
  /\ heap \in Heaps
  /\ cr3 \in Nat /\ vector \in Vectors \cup {-1}
  /\ status \in [Devices -> Status]
  /\ region \in Nat \ {0} /\ \A i \in DOMAIN map : map[i].size \in Nat
  /\ size \in [entry : Nat \ {0}, sum : Nat, mb : Nat]
  /\ tables \in [page : Nat, pdpt_off : Nat, pml4_off : Nat, pml4 : Nat]
  /\ pic \in [Chips -> Chip]
  /\ pit \in Pit /\ idt \in [Vectors -> Handlers]
  /\ cmos.iodelay \in 0..Attempts

(* The way into protected mode: while the stack is the cache, the cache     *)
(* stays a memory of its own (reset.S moves the stack before it turns the   *)
(* MTRRs off), and the 32-bit return address that switch_to_protected pops  *)
(* lies in the firmware, which it does only because the register pushed     *)
(* before the call is the MTRR register with nothing left in its low half.  *)
(* All C code runs in the 64-bit code segment, the handlers too, although   *)
(* the driver lays out a selector another way than the processor.           *)
StartupSafe ==
  /\ stack = "cache" => nofill /\ MTRR_ENABLE \in deftype
  /\ pc # "lost" /\ (cr3 # 0 => segment = "code64")

(* From the moment paging is on, every page of the first megabyte means     *)
(* itself: with the tables of setup_paging, and still after init_paging()   *)
(* loaded a pointer that is not aligned to a page (mm/paging.c:116). It     *)
(* stays so unless a free() cut the heap's list and cleared the way to all  *)
(* pages: that of the fwcfg_file of a list without RAM, or that of a record *)
(* of a drive; the machine resets for no other reason.                      *)
FirmwareMapped ==
  /\ cr3 # 0 /\ ~heap.ended => IdentityMapped(heap.low, idt, cr3)
  /\ pc = "fault" => heap.ended

(* The map comes from one source and fits memory_map.entry. If the memory   *)
(* device is initialised, every RAM region of the file is in it, however    *)
(* the list goes on, and no entry is empty; if it is faulty, the map that   *)
(* paging is set up from is what the CMOS registers say. After a list       *)
(* without RAM it is not, as its entries got no memory: that map is never   *)
(* used, for the tables get none either.                                    *)
MapSound ==
  /\ Len(map) <= MapEntries
  /\ status["memory"] = "initialised" =>
       /\ \A i \in DOMAIN files[E820].regions : LET e == files[E820].regions[i] IN
            e.size > 0 /\ e.type = RAM =>
              Region(IF e.addr = 0 THEN SIXTEEN_MB ELSE e.addr, e.size, RAM) \in ToSet(map)
       /\ map # << >> /\ \A e \in ToSet(map) : e.size > 0
  /\ status["memory"] = "faulty" /\ (heap.ended => tables.pml4 # 0) =>
       \E c \in CmosSizes : map = cmos_read_memory_info(c[1], c[2])

(* init_paging() writes only to entries of the tables it allocated: the     *)
(* size it maps is a megabyte an entry at most, so that the offsets into    *)
(* pdpt and pml4, which nothing bounds, stay at their first entry.          *)
TablesInBounds ==
  pc = "pages" => /\ tables.page <= Pages
                  /\ tables.pdpt_off < PdptCount /\ tables.pml4_off < Pml4Count

(* a line whose request reaches the processor *)
Open(line) ==
  /\ line # CASCADE /\ InputOf(line) \notin pic[ChipOf(line)].imr
  /\ ChipOf(line) = "secondary" => CASCADE \notin pic["primary"].imr

(* Once the firmware takes interrupts, every line that is open in the masks *)
(* has a vector of its own, above the exceptions, with a handler that is    *)
(* not the one that panics, and no input is left in service while it idles. *)
OpenLinesHandled ==
  interrupts =>
    /\ \A line \in {l \in Lines : Open(l)} :
         /\ Vector(pic, line) >= 32 /\ idt[Vector(pic, line)] = "pit_int_handler"
         /\ \A other \in Lines \ {line} : Vector(pic, line) # Vector(pic, other)
    /\ pc = "halt" /\ pic["primary"].isr = {}

Ended == pc \in {"halt", "pit_int_handler", "default_int_handler", "panic", "fault"}

(* The boot comes to its idle loop or to panic(), however the clock ticks:  *)
(* the poll of cmos_rtc_update_ongoing() has no bound (cmos.c:65). It may   *)
(* be reset before, and after a list without RAM it never comes to idle.    *)
BootEnds ==
  /\ <>Ended
  /\ pc \in {"size", "tables"} /\ heap.ended ~> pc \in Stopped

(* Every tick of the timer is served while the firmware idles: the request  *)
(* is acknowledged and its end is reported, or the firmware panics for a    *)
(* spurious interrupt, for which there is only the default handler, or a    *)
(* damaged page table resets it.                                            *)
TickServed ==
  /\ pit.running /\ interrupts /\ 0 \in pic["primary"].irr
       ~> 0 \in pic["primary"].isr \/ pc \in Stopped
  /\ 0 \in pic["primary"].isr ~> 0 \notin pic["primary"].isr \/ pc = "fault"
-----------------------------------------------------------------------------
(* What MapSound and TablesInBounds rest on.                                *)

(* the steps before the loop over the list of the firmware *)
BeforeMap == {"reset", "main_memory_init", "mtrr", "init_cpu", "setup_paging", "init_idt",
              "devices", "fwcfg"}

RegionList == files[E820].regions

(* the regions passed so far are in the map, which has an entry for each at *)
(* most, and four more for the one that starts at 0                         *)
ListRead ==
  /\ region \in 1..(Len(RegionList) + 1)
  /\ \A i \in 1..(region - 1) : LET e == RegionList[i] IN
       ~Skipped(e) => Region(IF e.addr = 0 THEN SIXTEEN_MB ELSE e.addr, e.size, RAM) \in ToSet(map)
  /\ \A e \in ToSet(map) : e.size > 0
  /\ Len(map) <= region - 1 + (IF \E i \in 1..(region - 1) : RegionList[i].addr = 0 THEN 4 ELSE 0)

(* where the loops over list, map and tables are *)
MapPlace ==
  /\ files \in FwCfgs /\ map \in Seq([addr : Nat, size : Nat, type : Nat])
  /\ status \in [Devices -> Status] /\ heap \in Heaps
  /\ pc \in BeforeMap \cup {"e820"} => ~heap.ended
  /\ pc \in BeforeMap => map = << >> /\ region = 1
  /\ pc = "cmos_memory" => map = << >>
  /\ pc \in BeforeMap \cup {"e820", "cmos_memory"} => status["memory"] = "unknown"
  /\ pc = "e820" => E820 \in DOMAIN files /\ ListRead

(* A megabyte an entry at most: the loop over the pages never starts a      *)
(* second table.                                                            *)
SizeBounded ==
  /\ size.entry \in Nat /\ size.mb \in Nat
  /\ size.mb < size.entry /\ size.entry <= Len(map) + 1
  /\ tables.page \in Nat /\ tables.pdpt_off = 0 /\ tables.pml4_off = 0
  /\ pc \in BeforeMap \cup {"e820", "cmos_memory", "size", "tables"} =>
       tables.page = 0 /\ tables.pml4 = 0

MapInv == MapPlace /\ SizeBounded /\ MapSound /\ TablesInBounds

-----------------------------------------------------------------------------
(* What TypeOK, StartupSafe and OpenLinesHandled rest on: what each stretch *)
(* of the boot has set up for the ones behind it. panic() may come at any.  *)

InRealMode == {"reset", "main_memory_init", "mtrr", "init_cpu", "setup_paging"}
BeforeIdt  == InRealMode \cup {"init_idt"}
BeforePic  == BeforeMap \cup {"e820", "cmos_memory", "size", "tables", "pages", "pic"}
BeforePit  == BeforePic \cup {"keyboard", "cmos_poll", "cmos_month", "cmos_again", "pit"}
BeforeHalt == BeforePit \cup {"buses", "unmask"}

(* the stack is the cache for one step, the MTRR register is clear when its *)
(* value is pushed, and what runs after setup_paging runs in 64-bit mode    *)
StartupPlace ==
  /\ deftype \subseteq {MTRR_ENABLE} /\ (pc = "init_cpu" => deftype = {})
  /\ stack = "cache" => pc = "main_memory_init" /\ nofill /\ MTRR_ENABLE \in deftype
  /\ IF pc \in InRealMode THEN cr3 = 0 ELSE segment = "code64"
  /\ pc # "lost"

(* both chips as pic_initialize() leaves them, and which inputs are open    *)
ChipsReady(open) ==
  /\ \A c \in Chips : pic[c].expects = 0 /\ pic[c].base = ICW2[c]
  /\ pic["primary"].imr = (0..7) \ open /\ pic["secondary"].imr = 0..7

(* every gate panics but the timer's, which may have its handler already    *)
Handled == \A v \in Vectors :
  idt[v] = "default_int_handler" \/ (v = TIMER_VECTOR /\ idt[v] = "pit_int_handler")

(* interrupts are on in the idle loop alone, with a handler in every gate   *)
(* and one input open besides the cascade, on which nothing ever arrives    *)
InterruptPlace ==
  /\ interrupts => pc = "halt"
  /\ pc \notin BeforeIdt \cup Stopped => Handled
  /\ pc \notin BeforePic \cup Stopped =>
       /\ ChipsReady(IF pc \in BeforeHalt THEN {CASCADE} ELSE {CASCADE, TIMER_LINE})
       /\ pic["primary"].isr = IF pc = "pit_int_handler" THEN {0} ELSE {}
  /\ pc \notin BeforePit \cup Stopped => idt[TIMER_VECTOR] = "pit_int_handler"
  /\ CASCADE \notin pic["primary"].irr

ClockPlace ==
  /\ cmos \in [iodelay : 0..Attempts, month : Months \cup {0, 255},
               bcd : BOOLEAN, half_day : BOOLEAN]
  /\ rtc \in [updating : BOOLEAN, month : Months, format : Formats]
  /\ pc \in {"cmos_month", "cmos_again"} => cmos.iodelay < Attempts

(* Where the next block of the heap begins: after the table of interrupts,   *)
(* the devices, the fwcfg_file, and a block for each entry of the map. Of    *)
(* the page tables only one comes before pml4 there if there is a hole.      *)
AfterMap == AfterDevices..(AfterDevices + FileBlock + Len(map) * EntryBlock)

HeapPlace ==
  /\ pc \in BeforeIdt => heap = FirstHeap
  /\ pc = "devices" => heap = Grown(FirstHeap, AfterIdt - HEAP_START)
  /\ pc = "fwcfg" => heap = Grown(FirstHeap, AfterDevices - HEAP_START)
  /\ pc \in {"e820", "cmos_memory", "size", "tables"} /\ ~heap.ended =>
       /\ heap.top \in AfterMap /\ heap.hole \in {0, FileBlock}
       /\ pc \in {"size", "tables"} /\ heap.hole = 0 => Len(map) <= 5
  /\ heap.ended \/ heap.low = BootLow

BootInv == MapInv /\ TypeOK /\ StartupPlace /\ InterruptPlace /\ ClockPlace /\ HeapPlace

(* What FirmwareMapped rests on besides: a list of 18 regions at most. The   *)
(* blocks of such a map end so soon that pml4 begins in the tenth page, at   *)
(* the start of which lies the middle of gate 221 of the interrupt table.    *)
(* From 23 entries of the map on it begins in the next page.                 *)
ShortLists == \A fwcfg \in FwCfgs : \A f \in DOMAIN fwcfg : Len(fwcfg[f].regions) <= 18

SPLIT_GATE == 221

Mapped ==
  /\ Len(map) <= 22
  /\ pc = "pages" => Frame(tables.pml4) = 9 * PAGE
  /\ cr3 \in {0, BOOT_PML4} \/ (Frame(cr3) = 9 * PAGE /\ idt[SPLIT_GATE] # "none")
  /\ pc = "fault" => heap.ended
=============================================================================
