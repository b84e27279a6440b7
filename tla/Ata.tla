--------------------------------- MODULE Ata ---------------------------------
(***************************************************************************)
(* The ATA driver (drivers/ata): init_ata_controllers() goes through the   *)
(* functions PCI found, probes the legacy buses for every controller in    *)
(* compatibility mode, and keeps what it found in an array that grows.     *)
(* Of the heap the module has what free() and realloc() do to the list that *)
(* is there when the driver starts: ata_ide_array, then what the driver     *)
(* allocates, then the free tail (see Heap for the functions themselves).   *)
(*                                                                         *)
(* Two drives may hang on a bus, of which the drive/head register selects  *)
(* one. The registers of a selected drive that is not there read as zero,  *)
(* and a bus without drives reads as ones or zeros. A drive takes its time *)
(* over IDENTIFY; while it is busy only the busy bit means something.      *)
(***************************************************************************)
EXTENDS Integers, FiniteSets, Sequences, SequencesExt, Structs

CONSTANTS Bases,       \* how many entries of ata_ide_compability_base_addrs are probed, 4
          Polls,       \* the last argument of ata_waitfor_status(), 50
          FunctionLists,  \* what enumerate_pci_buses() may have found
          DriveLists   \* the drives that may be on the buses

(* include/drivers/pci/pci.h: class and subclasses of what this driver drives *)
pci_class_mass_storage_controller == 1
IdeSubclasses == {1, 5, 6}                     \* ide, ata, sata
NATIVE_ENABLED == 0                            \* pci_primary_native_enabled

DriveIds  == {0, 1}                            \* ata_drive_selection
DriveKind == {"none", "ata", "sata", "atapi"}
BusIds    == 1..Bases

ASSUME AtaAssumption ==
  /\ Bases \in 1..4 /\ Polls \in Nat \ {0}
  /\ \A l \in FunctionLists :
       l \in Seq([class_code : 0..255, subclass : 0..255, interface : SUBSET (0..7)])
  /\ DriveLists \subseteq [BusIds -> [DriveIds -> DriveKind]]

(* enum ata_drive_id; the signatures drives leave in the lba registers      *)
ata_drive_id_not_ata == -1
ata_drive_id_ata     == 1
ata_drive_id_sata    == 15555                  \* 0x3cc3
ata_drive_id_atapi   == 5355                   \* 0x14eb

(* ata_status_register *)
ERROR == 0
DATA == 3
READY == 6
BUSY == 7
(* ata_drive_head_register: always_set, always_set_2, and where the driver  *)
(* has drive_selection; the register itself has it at bit 4                *)
ALWAYS_SET      == {5, 7}
DRIVE_SELECTION == 3
DEVICE_BIT      == 4

(* ata_drive_header, which is not packed *)
HeaderToModel ==
  << Fields(2, 4), Fields(4, 1), Fields(2, 1), Fields(1, 6 + 20 + 6 + 8) >>
HeaderFromModel ==
  << Fields(1, 40 + 2), Fields(2, 3), Fields(4, 1), Fields(1, 2), Fields(2, 3), Fields(4, 1),
     Fields(1, 2), Fields(4, 1), Fields(2, 1), Fields(1, 4), Fields(2, 5), Fields(1, 10),
     Fields(2, 1), Fields(4, 1), Fields(2, 4), Fields(1, 6 + 6 + 2), Fields(2, 2), Fields(1, 2),
     Fields(2, 2), Fields(1, 2), Fields(2, 3), Fields(4, 1), Fields(8, 1), Fields(2, 4),
     Fields(8, 2), Fields(2, 3), Fields(4, 3), Fields(2, 2), Fields(1, 62), Fields(2, 1),
     Fields(1, 14), Fields(2, 2), Fields(8, 1), Fields(4, 1), Fields(1, 60), Fields(2, 1),
     Fields(4, 1), Fields(2, 1), Fields(4, 2), Fields(2, 1), Fields(4, 1), Fields(2, 3),
     Fields(1, 1), Fields(2, 1), Fields(4, 1 + 3), Fields(8, 1), Fields(4, 1), Fields(1, 38 + 2) >>

WORDS == 256                                   \* what init_ata_drive() reads

(* The words a drive sends fit the block that is allocated for them, and    *)
(* the model name is where drives put it, words 27 to 46: the padding the   *)
(* compiler adds comes after it.                                            *)
ASSUME HeaderAssumption ==
  /\ Padded(OffsetAfter(HeaderToModel \o HeaderFromModel), 8) >= 2 * WORDS
  /\ OffsetAfter(HeaderToModel) = 2 * 27

(* The ports of the registers of a bus; registers with two uses have one.   *)
(* ata_comp_base_to_dcr() ORs; no base address has a bit of 0x206.          *)
BASE_ADDRS == << 496, 368, 488, 360 >>         \* 0x1f0, 0x170, 0x1e8, 0x168
ata_comp_base_to_dcr(addr) == addr + 518       \* 0x206
Registers(b) == {BASE_ADDRS[b] + r : r \in 0..7}
                  \cup {ata_comp_base_to_dcr(BASE_ADDRS[b]) + r : r \in {0, 1}}

(* No port belongs to two buses, so that what is written for one drive      *)
(* reaches no other bus: the machine below is an array of buses.            *)
ASSUME PortsAssumption ==
  \A b, c \in BusIds : b # c => Registers(b) \cap Registers(c) = {}

VARIABLES
  functions,   \* the functions in pci_device_array
  drives,      \* machine: the drives on each bus
  ones,        \* machine: a register nothing answers for reads as ones
  selected,    \* machine: the drive each bus has selected
  command,     \* machine: how far IDENTIFY is on each bus
  pc,
  offset,      \* init_ata_controllers(): the function it looks at
  base,        \* ata_init_all_buses(): the bus it looks at
  bus,         \* init_ata_bus(): its ata_bus
  drive,       \* the drive that is being initialised
  waits,       \* ata_waitfor_status(): reads left
  buses,       \* ata_init_all_buses(): bus_array
  ides,        \* what was stored in ata_ide_array
  list,        \* the list of the heap: sound, ended or overlaid
  page0,       \* machine: the page table maps the first pages
  blocks       \* the number of ata_drive blocks that are allocated

machine == <<functions, drives, ones>>
bound   == <<selected, command>>
probe   == <<base, bus, drive, waits, buses>>
heap    == <<list, page0, blocks>>
result  == <<ides, heap>>
vars    == <<machine, bound, pc, offset, probe, result>>

NoDrive == [id |-> 0, of |-> -1]
NewBus(b) == [base |-> b, active |-> 0, drive_array |-> [d \in DriveIds |-> NoDrive]]

Init ==
  /\ functions \in FunctionLists /\ drives \in DriveLists /\ ones \in BOOLEAN
  /\ selected \in [BusIds -> {0}]
  /\ command = [b \in BusIds |-> "none"]
  /\ pc = "function" /\ offset = 1 /\ base = 1 /\ bus = NewBus(1) /\ drive = 0 /\ waits = 0
  /\ buses = << >> /\ ides = << >>
  /\ list = "sound" /\ page0 = TRUE /\ blocks = 0

-----------------------------------------------------------------------------
(* The machine *)

Empty(b)  == \A d \in DriveIds : drives[b][d] = "none"
Target(b) == drives[b][selected[b]]

(* IDENTIFY ends: a packet drive aborts it, as a SATA device may, and       *)
(* leaves its signature                                                     *)
DriveAnswers ==
  /\ \E b \in BusIds : command[b] = "busy" /\ command' = [command EXCEPT ![b] = "done"]
  /\ UNCHANGED <<machine, selected, pc, offset, probe, result>>

StatusBits(b) ==
  CASE Empty(b) /\ ones                                 -> {0..7}
    [] Target(b) = "none" /\ ~(Empty(b) /\ ones)        -> {{}}
    [] Target(b) # "none" /\ command[b] = "none"        -> {{READY}}
    [] Target(b) # "none" /\ command[b] = "busy"        -> {{BUSY}, {BUSY, READY}}
    [] Target(b) = "ata" /\ command[b] = "done"         -> {{READY, DATA}}
    [] Target(b) \in {"sata", "atapi"} /\ command[b] = "done" -> {{READY, ERROR}}

(* ata_try_read_id() *)
LbaRegisters(b) ==
  CASE command[b] # "done" \/ Target(b) \in {"none", "ata"}  -> 0
    [] command[b] = "done" /\ Target(b) = "sata"            -> ata_drive_id_sata
    [] command[b] = "done" /\ Target(b) = "atapi"           -> ata_drive_id_atapi

(* ata_drive_address_register, where the bit of the selected drive should   *)
(* be 0: few drives have it, and at 0x3f7 a floppy controller answers, so   *)
(* that the bits may read as anything                                      *)
AddressBits == SUBSET DriveIds

-----------------------------------------------------------------------------
(* init_ata_controllers() *)

pcidev_is_ata_ide(f) ==
  f.class_code = pci_class_mass_storage_controller /\ f.subclass \in IdeSubclasses

PassOver ==
  /\ pc = "function" /\ offset <= Len(functions) /\ ~pcidev_is_ata_ide(functions[offset])
  /\ offset' = offset + 1
  /\ UNCHANGED <<machine, bound, pc, probe, result>>

IsIde == pc = "function" /\ offset <= Len(functions) /\ pcidev_is_ata_ide(functions[offset])

(* ata_init_ide(), ata_init_all_buses(): in native mode no bus is probed    *)
InitIde ==
  /\ IsIde /\ list = "sound"
  /\ pc' = IF NATIVE_ENABLED \in functions[offset].interface THEN "store" ELSE "bus"
  /\ base' = 1 /\ buses' = << >>
  /\ UNCHANGED <<machine, bound, offset, bus, drive, waits, result>>

(* the ata_ide cannot be allocated: the function is passed over             *)
NoIde ==
  /\ IsIde /\ list # "overlaid"
  /\ offset' = offset + 1
  /\ UNCHANGED <<machine, bound, pc, probe, result>>

(* In an overlaid list the ata_ide is allocated, and cleared, in the block  *)
(* that lies over the one before it, which is lost with its buses: the      *)
(* module ends here.                                                       *)
OverwriteIde ==
  /\ IsIde /\ list = "overlaid"
  /\ pc' = "overwritten"
  /\ UNCHANGED <<machine, bound, offset, probe, result>>

(* The entry, then realloc() to two elements: 48 bytes with the header, of  *)
(* the 64 that the array has. The difference wraps in space_for_new_blk()   *)
(* (malloc.c:196), so the array stays where it is, and a free block's       *)
(* header is written over the one of the ata_ide behind the array.          *)
StoreIde ==
  /\ pc = "store"
  /\ ides' = Append(ides, buses) /\ list' = "overlaid"
  /\ offset' = offset + 1 /\ pc' = "function" /\ buses' = << >>
  /\ UNCHANGED <<machine, bound, base, bus, drive, waits, page0, blocks>>

Finish ==
  /\ pc = "function" /\ offset > Len(functions)
  /\ pc' = "done"
  /\ UNCHANGED <<machine, bound, offset, probe, result>>

-----------------------------------------------------------------------------
(* ata_init_all_buses(), init_ata_bus() *)

(* ata_no_drives_in_bus(), or no memory for the ata_bus                     *)
SkipBus ==
  /\ pc = "bus" /\ base <= Bases
  /\ base' = base + 1
  /\ UNCHANGED <<machine, bound, pc, offset, bus, drive, waits, buses, result>>

TakeBus ==
  /\ pc = "bus" /\ base <= Bases /\ ~(Empty(base) /\ ones) /\ list = "sound"
  /\ bus' = NewBus(base) /\ drive' = 1 /\ pc' = "select"
  /\ UNCHANGED <<machine, bound, offset, base, waits, buses, result>>

BusesDone ==
  /\ pc = "bus" /\ base > Bases
  /\ pc' = "store"
  /\ UNCHANGED <<machine, bound, offset, probe, result>>

(* Mutant: the loop stays at its bus. *)
AfterDriveSameBus(b) ==
  IF drive = 1
    THEN drive' = 0 /\ pc' = "select" /\ bus' = b /\ UNCHANGED <<base, buses>>
    ELSE pc' = "bus" /\ buses' = Append(buses, b) /\ UNCHANGED <<base, bus, drive>>

(* drive 1 is tried before drive 0 *)
AfterDrive(b) ==
  IF drive = 1
    THEN drive' = 0 /\ pc' = "select" /\ bus' = b /\ UNCHANGED <<base, buses>>
    ELSE pc' = "bus" /\ base' = base + 1 /\ buses' = Append(buses, b) /\ UNCHANGED <<bus, drive>>

(* what ata_select_drive() writes, and which drive that selects             *)
DriveHead(d) == ALWAYS_SET \cup (IF d = 1 THEN {DRIVE_SELECTION} ELSE {})
DriveOf(b)   == IF DEVICE_BIT \in b THEN 1 ELSE 0

(* ata_select_drive(): nothing is written when the drive is active already; *)
(* it is active once its bit reads as 0, whichever drive is selected        *)
SelectDrive ==
  /\ pc = "select"
  /\ IF bus.active = drive THEN pc' = "allocate" /\ UNCHANGED <<selected, bus, drive, base, buses>>
     ELSE /\ selected' = [selected EXCEPT ![base] = DriveOf(DriveHead(drive))]
          /\ \E bits \in AddressBits :
               IF drive \notin bits
                 THEN bus' = [bus EXCEPT !.active = drive] /\ pc' = "allocate" /\ UNCHANGED <<drive, base, buses>>
                 ELSE AfterDrive(bus)
  /\ UNCHANGED <<machine, command, offset, waits, result>>

-----------------------------------------------------------------------------
(* init_ata_drive(), ata_identify_drive() *)

(* the ata_drive, then ata_clear_sc_lba() and IDENTIFY                      *)
SendIdentify ==
  /\ pc = "allocate"
  /\ \/ /\ list = "sound" /\ blocks' = blocks + 1
        /\ command' = [command EXCEPT ![base] = IF Target(base) = "none" THEN @ ELSE "busy"]
        /\ pc' = "id" /\ UNCHANGED <<base, bus, drive, buses>>
     \/ AfterDrive(bus) /\ UNCHANGED <<command, blocks>>
  /\ UNCHANGED <<machine, selected, offset, waits, ides, list, page0>>

(* Mutant: the ata_drive of a drive that is not there is kept. *)
NotFreed == UNCHANGED heap

(* free(): fuse_walkthrough() goes from the freed block to the tail, from   *)
(* there through address 0, whose memory_header is the first entries of the *)
(* page table, and clears both: nothing can be allocated any more. Only a   *)
(* block that took the tail whole has nothing free behind it.               *)
FreeRecord ==
  /\ blocks' = blocks - 1
  /\ \/ list' = "ended" /\ page0' = FALSE
     \/ UNCHANGED <<list, page0>>

NotAta == AfterDrive(bus) /\ FreeRecord

(* a drive that was quick shows its signature at once                       *)
ReadId ==
  /\ pc = "id"
  /\ IF LbaRegisters(base) \in {ata_drive_id_sata, ata_drive_id_atapi}
       THEN AfterDrive([bus EXCEPT !.drive_array[drive] = [id |-> LbaRegisters(base), of |-> selected[base]]])
       ELSE pc' = "idle" /\ UNCHANGED <<base, bus, drive, buses>>
  /\ UNCHANGED <<machine, bound, offset, waits, result>>

(* the wait for no bit at all: only the error bit of the first read counts  *)
WaitIdle ==
  /\ pc = "idle"
  /\ \E s \in StatusBits(base) :
       IF ERROR \in s THEN NotAta
       ELSE pc' = "id again" /\ UNCHANGED <<base, bus, drive, buses, heap>>
  /\ UNCHANGED <<machine, bound, offset, waits, ides>>

ReadIdAgain ==
  /\ pc = "id again"
  /\ IF LbaRegisters(base) # 0
       THEN NotAta /\ UNCHANGED waits
       ELSE pc' = "ready" /\ waits' = Polls /\ UNCHANGED <<base, bus, drive, buses, heap>>
  /\ UNCHANGED <<machine, bound, offset, ides>>

(* Mutant: the reads are not counted. *)
WaitsUncounted == UNCHANGED waits

WaitCounted == waits' = waits - 1

(* Mutant: the wait is for a drive that is not busy. *)
NotBusy(s) == BUSY \notin s

DriveReady(s) == READY \in s

(* a read of the wait for drive_ready; 256 words are read once it is set    *)
WaitReady ==
  /\ pc = "ready" /\ waits > 0
  /\ \E s \in StatusBits(base) :
       CASE ERROR \in s -> NotAta /\ UNCHANGED waits
         [] ERROR \notin s /\ DriveReady(s) ->
              /\ AfterDrive([bus EXCEPT !.drive_array[drive] = [id |-> ata_drive_id_ata, of |-> selected[base]]])
              /\ UNCHANGED <<waits, heap>>
         [] ERROR \notin s /\ ~DriveReady(s) ->
              WaitCounted /\ UNCHANGED <<pc, base, bus, drive, buses, heap>>
  /\ UNCHANGED <<machine, bound, offset, ides>>

GiveUp ==
  /\ pc = "ready" /\ waits = 0
  /\ NotAta
  /\ UNCHANGED <<machine, bound, offset, waits, ides>>

(* Without its first pages the machine runs on what the TLB still holds,    *)
(* and is reset by the first walk of the tables, at any moment.             *)
Reset ==
  /\ ~page0 /\ pc # "reset" /\ pc' = "reset"
  /\ UNCHANGED <<machine, bound, offset, probe, result>>

Driver == \/ PassOver \/ InitIde \/ NoIde \/ OverwriteIde \/ StoreIde \/ Finish \/ SkipBus \/ TakeBus
          \/ BusesDone \/ SelectDrive \/ SendIdentify \/ ReadId \/ WaitIdle \/ ReadIdAgain \/ WaitReady
          \/ GiveUp

Next == Driver \/ DriveAnswers \/ Reset

(* The processor runs on; no drive has to answer.                           *)
Spec == Init /\ [][Next]_vars /\ WF_vars(Driver)

-----------------------------------------------------------------------------
Identifying == pc \in {"id", "idle", "id again", "ready"}
Probing     == pc \in {"select", "allocate"} \/ Identifying
Ended       == pc \in {"done", "overwritten", "reset"}
OfDrive     == [id : {0, ata_drive_id_ata, ata_drive_id_sata, ata_drive_id_atapi}, of : {-1, 0, 1}]
AtaBus      == [base : BusIds, active : DriveIds, drive_array : [DriveIds -> OfDrive]]

(* Every variable keeps its type; ata_ide.bus_array takes the buses found,  *)
(* each of them once and in the order of the base addresses.                *)
TypeOK ==
  /\ pc \in {"function", "bus", "store"} \/ Probing \/ Ended
  /\ selected \in [BusIds -> DriveIds] /\ command \in [BusIds -> {"none", "busy", "done"}]
  /\ offset \in 1..(Len(functions) + 1) /\ base \in 1..(Bases + 1)
  /\ bus \in AtaBus /\ drive \in DriveIds /\ waits \in 0..Polls
  /\ buses \in Seq(AtaBus) /\ ides \in Seq(Seq(AtaBus)) /\ Len(buses) <= Bases
  /\ \A i, j \in DOMAIN buses : i < j => buses[i].base < buses[j].base
  /\ list \in {"sound", "ended", "overlaid"} /\ page0 \in BOOLEAN /\ blocks \in Nat

(* the buses that are recorded, or being probed                             *)
Known == {buses[i] : i \in DOMAIN buses} \cup (IF Probing THEN {bus} ELSE {})
           \cup UNION {{ides[i][j] : j \in DOMAIN ides[i]} : i \in DOMAIN ides}

(* what drive_array may say of a drive of a bus: it is there, and left the  *)
(* signature that is recorded                                              *)
SaysOf(record, kind) ==
  /\ kind # "none"
  /\ record.id = ata_drive_id_sata => kind = "sata"
  /\ record.id = ata_drive_id_atapi => kind = "atapi"

(* Every record, the ones in drive_array[1] too, is the answer of drive 0   *)
(* of its bus, which is there and is what its signature says: the driver    *)
(* sets the wrong bit to select drive 1 and may take it for selected        *)
(* (ata_util.c:116-121), but never records a drive that does not answer.    *)
AnsweredByDriveZero ==
  \A b \in Known : \A d \in DriveIds :
    b.drive_array[d] # NoDrive =>
      b.drive_array[d].of = 0 /\ SaysOf(b.drive_array[d], drives[b.base][0])

(* the buses of each controller that is stored, and of the one in work      *)
Lists == Append(ides, IF Probing THEN Append(buses, bus) ELSE buses)

(* controller, bus and drive of every record that is kept                   *)
Records(lists) ==
  {r \in (DOMAIN lists) \X BusIds \X DriveIds :
     r[2] <= Len(lists[r[1]]) /\ lists[r[1]][r[2]].drive_array[r[3]] # NoDrive}

(* Until the machine is reset, every ata_drive that is allocated is in some *)
(* drive_array or in work: the ones of drives that are not there, that time *)
(* out or that report an error are freed. The first free() that damages the *)
(* list ends the search: the drives that are kept were found before it.     *)
DrivesKept ==
  pc # "reset" =>
    /\ blocks = Cardinality(Records(Lists)) + (IF Identifying THEN 1 ELSE 0)
    /\ ~page0 => ~Identifying

(* The driver comes to an end whatever the drives answer, or do not, unless *)
(* the machine is reset before: all its waits give up.                      *)
InitReturns == <>Ended
-----------------------------------------------------------------------------
(* What the invariants rest on.                                             *)

(* the driver's place: a controller in work is one of the functions, and    *)
(* the buses found lie below the one that is probed                         *)
Place ==
  /\ functions \in FunctionLists /\ drives \in DriveLists /\ ones \in BOOLEAN
  /\ pc \in {"bus", "store"} \/ Probing => offset <= Len(functions)
  /\ pc \in {"function", "done", "overwritten"} => buses = << >>
  /\ Len(buses) < base /\ \A i \in DOMAIN buses : buses[i].base < base
  /\ Probing => base <= Bases /\ bus.base = base

(* The select bit is written where the drive does not look: drive 0 is the  *)
(* one that is selected.                                                    *)
OnlyDriveZero == \A b \in BusIds : selected[b] = 0

(* what is not identified yet is not recorded                               *)
NotYetRecorded ==
  Probing => \A d \in DriveIds : d <= drive => bus.drive_array[d] = NoDrive

(* the list and the page table are damaged together, while nothing is       *)
(* being identified                                                        *)
ListPlace ==
  /\ page0 => list # "ended"
  /\ ~page0 => list # "sound"
  /\ Identifying => list = "sound"

AtaInv ==
  /\ TypeOK /\ AnsweredByDriveZero /\ DrivesKept
  /\ pc # "reset" => IsFiniteSet(Records(Lists))
  /\ Place /\ OnlyDriveZero /\ NotYetRecorded /\ ListPlace
=============================================================================
