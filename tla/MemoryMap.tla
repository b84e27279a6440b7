------------------------------ MODULE MemoryMap ------------------------------
(***************************************************************************)
(* Where the memory map comes from: the files of QEMU's fw_cfg device      *)
(* (mainboards/qemu/fwcfg, mainboards/qemu/memory_init_late.c) and, when   *)
(* they say nothing, two CMOS registers (include/drivers/cmos/cmos.h).     *)
(* Operators on the map; Boot runs the loops they belong to.               *)
(***************************************************************************)
EXTENDS Integers, Sequences, SequencesExt

RAM == 1
RESERVED == 2
MMIO == 3

(* e820_e *)
Region(addr, size, type) == [addr |-> addr, size |-> size, type |-> type]

(* the bounds of the fixed entries *)
LOW_RAM_SIZE     == 131071          \* 0x0001FFFF
ISA_HOLE         == 655360          \* 0x000A0000
ISA_HOLE_SIZE    == 1048575         \* 0x000FFFFF
ONE_MB           == 1048576         \* 0x00100000
LOW_EXTENDED     == 15728639        \* 0x00EFFFFF
HOLE_15MB        == 15728640        \* 0x00F00000, memory_addr_past_isa_hole
HOLE_15MB_SIZE   == 16777215        \* 0x00FFFFFF
SIXTEEN_MB       == 16777216        \* 0x01000000

E820_FILE == "etc/e820"

(* whether the names differ, not in how many bytes: nothing uses the count  *)
strncmp(s1, s2) == IF s1 = s2 THEN 0 ELSE 1

(* fwcfg_find_file_entry(): the first file of the directory by that name *)
fwcfg_find_file_entry(files, name) ==
  SelectInSeq(files, LAMBDA f : strncmp(f.name, name) = 0)

(* Mutant: the entries to skip are the ones that are kept. *)
SkippedWrongly(e) == e.size = 0 /\ e.type # RAM

Skipped(e) == e.size = 0 \/ e.type # RAM

(* what a region that starts at 0 becomes; its size is taken as it is *)
LowEntries(e) ==
  << Region(0, LOW_RAM_SIZE, RAM), Region(ISA_HOLE, ISA_HOLE_SIZE, MMIO),
     Region(ONE_MB, LOW_EXTENDED, RAM), Region(HOLE_15MB, HOLE_15MB_SIZE, RESERVED),
     Region(SIXTEEN_MB, e.size, e.type) >>

(* the entries a turn of the loop of mainboard_specific_memory_init() adds *)
EntriesFor(e) ==
  CASE Skipped(e)                -> << >>
    [] ~Skipped(e) /\ e.addr = 0 -> LowEntries(e)
    [] ~Skipped(e) /\ e.addr # 0 -> << e >>

(* cmos_read_memory_info(): registers 0x30 and 0x31 *)
cmos_read_memory_info(low_kb, high_kb) ==
  LET total == high_kb * 16384 + low_kb * 64 + 16384
      rest  == total - ISA_HOLE
  IN IF total < ISA_HOLE THEN << Region(0, total, RAM) >>
     ELSE << Region(0, 65535, RAM), Region(ISA_HOLE, ISA_HOLE_SIZE, MMIO) >>
            \o IF rest < HOLE_15MB
                 THEN << Region(ONE_MB, rest, RAM) >>
                 ELSE << Region(65536, LOW_EXTENDED, RAM),
                         Region(HOLE_15MB, HOLE_15MB_SIZE, RESERVED),
                         Region(SIXTEEN_MB, rest - SIXTEEN_MB, RAM) >>
=============================================================================
