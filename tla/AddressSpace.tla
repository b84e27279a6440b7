----------------------------- MODULE AddressSpace -----------------------------
(***************************************************************************)
(* What an address means once paging is on: the tables setup_paging builds *)
(* at address 0 (cpu/init.S), the root that init_paging() loads later      *)
(* (mm/paging.c), and what the processor finds when it walks from a root.  *)
(*                                                                         *)
(* An entry is its number: bit 0 says present, the frame is what is above  *)
(* bit 11. init_paging() loads the pointer to its pml4 as it is, and the   *)
(* processor drops the low twelve bits: it walks from the start of the     *)
(* page the heap put pml4 in. That page begins in the middle of the        *)
(* interrupt descriptor table, so the walk reads a gate as an entry.       *)
(***************************************************************************)
EXTENDS Integers

CONSTANT FirmwarePages  \* pages of the first megabyte: tables, stack, heap, code and ROM

PAGE == 4096

(* sizes of what the boot allocates; the packed page_table_entry has 9 bytes *)
SIZEOF_device           == 17
SIZEOF_int_desc_table   == 4106
SIZEOF_memory_map       == 1032
SIZEOF_fwcfg_file       == 64
SIZEOF_e820_e           == 20
SIZEOF_page_table_entry == 9
SIZEOF_idt_entry        == 16
SIZEOF_serial_uart_device     == 6
SIZEOF_pic_full_configuration == 56
SIZEOF_cmos_data              == 4
SIZEOF_ps2_8042_status        == 12

SIZEOF_data == [uart |-> SIZEOF_serial_uart_device, memory |-> SIZEOF_memory_map,
                pic |-> SIZEOF_pic_full_configuration, cmos |-> SIZEOF_cmos_data,
                keyboard |-> SIZEOF_ps2_8042_status, pit |-> 0]

(* the heap: blocks one after the other, from the first header after        *)
(* heap_init() (see Heap, whose AlignedSize this is)                       *)
HDR        == 32
HEAP_START == 32768 + 16 * HDR      \* 0x8000, and sizeof(heap_start) headers
AlignedSize(n) == n + HDR + (HDR - (n % HDR))
Pointer(block) == block + HDR

-----------------------------------------------------------------------------
(* cpu/init.S: two tables of 1024 entries, then one entry as the root *)
BOOT_PDPT == 2 * PAGE               \* 0x2000, what is pushed before .loop_pd
BOOT_PML4 == 4 * PAGE               \* 0x4000

(* what .loop_pt and .loop_pd store: eax counts up from 3 by 0x1000 *)
LoopEntry(n) == (n % 1024) * PAGE + 3

(* interrupts/idt.h: an int_desc_table at the first pointer of the heap; a  *)
(* gate's offset_mid is followed by zeroes, and its handler lies in the    *)
(* .rom_int_handler section, at 0xF0000 and above (linker.conf)            *)
IDT_ENTRIES == Pointer(HEAP_START) + 10
HANDLER_MID == 15
GateFromMid(handler) == IF handler = "none" THEN 0 ELSE HANDLER_MID

(* The first four entries share their bytes with the memory_header that the *)
(* heap reads at address 0, and it writes them (see Heap and Boot); the     *)
(* entries it uses as headers from 0x1003 on map nothing below 2 MB.        *)
LOW == 0..3
BootLow == [n \in LOW |-> LoopEntry(n)]

(* the eight bytes at an aligned address, as an entry; low: the first four  *)
EntryAt(low, idt, a) ==
  CASE a \div 8 \in LOW -> low[a \div 8]
    [] a \div 8 \notin LOW /\ a < BOOT_PML4 -> LoopEntry(a \div 8)
    [] a = BOOT_PML4 -> BOOT_PDPT + 3
    [] /\ IDT_ENTRIES <= a /\ a < IDT_ENTRIES + 256 * SIZEOF_idt_entry
       /\ (a - IDT_ENTRIES) % SIZEOF_idt_entry = 6
         -> GateFromMid(idt[(a - IDT_ENTRIES) \div SIZEOF_idt_entry])
    [] OTHER -> 0

Present(e) == e % 2 = 1
Frame(e)   == (e \div PAGE) * PAGE
NoFrame    == -1

(* the page table of the first two megabytes, walked from the root in cr3 *)
PageTable(low, idt, cr3) ==
  LET pml4e == EntryAt(low, idt, Frame(cr3))
      pdpte == EntryAt(low, idt, Frame(pml4e))
      pde   == EntryAt(low, idt, Frame(pdpte))
  IN IF \A e \in {pml4e, pdpte, pde} : Present(e) THEN Frame(pde) ELSE NoFrame

IdentityMapped(low, idt, cr3) ==
  LET pt == PageTable(low, idt, cr3) IN
  /\ pt # NoFrame
  /\ \A page \in FirmwarePages : LET pte == EntryAt(low, idt, pt + 8 * page) IN
       Present(pte) /\ Frame(pte) = page * PAGE

-----------------------------------------------------------------------------
(* mm/paging.c *)

(* a turn of memory_size_in_megabytes(): at most one for an entry *)
MegabytesIn(sum) == IF sum >= 1048576 THEN 1 ELSE 0

(* Mutant: the kilobytes are divided by the 4 of a page. *)
KilobytesAsPages(mb) == (mb * 1024) \div 4

PagesToMap(mb)   == (mb * 1024) \div 4096
TableCount(n)    == IF n \div 1024 = 0 THEN 1 ELSE n \div 1024
=============================================================================
