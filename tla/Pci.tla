--------------------------------- MODULE Pci ---------------------------------
(***************************************************************************)
(* PCI enumeration (src/drivers/pci/pci.c, pci_util.c): the devices of bus *)
(* 0, and of further buses if the host bridge has several functions.       *)
(*                                                                         *)
(* A configuration read of a function that is not plugged in returns all   *)
(* ones. The first scan runs on the caller's own address, which the search *)
(* for further buses then uses as the scan left it.                        *)
(***************************************************************************)
EXTENDS PciHeader

CONSTANTS Slots,       \* device numbers per bus, 32 (5 bits)
          Functions,   \* function numbers per device, 8 (3 bits)
          ArraySize,   \* entries post.c allocates for pci_device_array, 32
          U8,          \* 2^8, the width of the counters
          Systems      \* what may be plugged in

Location == (0..(Functions - 1)) \X (0..(Slots - 1)) \X (0..(Functions - 1))

ASSUME PciAssumption ==
  /\ Slots \in Nat /\ 2 < Slots /\ Functions \in Nat /\ 1 < Functions
  /\ ArraySize \in Nat /\ Slots <= ArraySize
  /\ U8 \in Nat /\ Functions * (Slots - 1) < U8
  /\ \A s \in Systems : DOMAIN s \subseteq Location /\ s \in [DOMAIN s -> Header]

VARIABLES
  system,      \* what is plugged in: location -> Header
  cacheline,   \* functions whose cache line register was overwritten
  pc,
  multibus,    \* multibus_system
  device,      \* addr.device of enumerate_pci_buses()
  function,    \* addr.function
  bus, slot,   \* where pci_add_devices_from_bus() is
  offset,      \* its next index
  count,       \* devices it added
  dev_cnt,
  array        \* pci_device_array: index -> entry

vars == <<system, cacheline, pc, multibus, device, function, bus, slot,
          offset, count, dev_cnt, array>>

NoDevice == [at |-> <<>>, type |-> "none", bist_executed |-> FALSE]

Plugged(b, d, f) == <<b, d, f>> \in DOMAIN system

Init ==
  /\ system \in Systems
  /\ cacheline = {}
  /\ pc = "start" /\ multibus = FALSE
  /\ device = 0 /\ function = 0
  /\ bus = 0 /\ slot = 0 /\ offset = 0 /\ count = 0
  /\ dev_cnt = 0
  /\ array = [i \in {} |-> NoDevice]

NoHostBridge ==
  /\ pc = "start" /\ ~Plugged(0, 0, 0)
  /\ pc' = "done"
  /\ UNCHANGED <<system, cacheline, multibus, device, function, bus, slot,
                 offset, count, dev_cnt, array>>

(* the header type has pci_mf_hdr set when there are functions beyond 0 *)
FirstBus ==
  /\ pc = "start" /\ Plugged(0, 0, 0)
  /\ multibus' = \E f \in 1..(Functions - 1) : Plugged(0, 0, f)
  /\ pc' = "scan"
  /\ UNCHANGED <<system, cacheline, device, function, bus, slot,
                 offset, count, dev_cnt, array>>

(* the loop of pci_add_devices_from_bus() *)
InLoop == slot < Slots - 1

(* addr->device = i, which for bus 0 is the address the caller goes on with. *)
(* Once the function counter has wrapped, bus 0 is scanned through           *)
(* current_addr instead, which leaves the caller the same device in the end. *)
AtSlot == device' = IF bus = 0 THEN slot ELSE device

EmptySlot ==
  /\ pc = "scan" /\ InLoop /\ ~Plugged(bus, slot, 0)
  /\ AtSlot
  /\ slot' = slot + 1
  /\ UNCHANGED <<system, cacheline, pc, multibus, function, bus,
                 offset, count, dev_cnt, array>>

Entry(at) ==
  [at |-> at, bist_executed |-> system[at].bist_capable,
   type |-> IF pci_dev_is_bridge(system[at]) THEN "bridge" ELSE "mmio"]

Store(entry) == array' = [i \in DOMAIN array \cup {offset} |->
                            IF i = offset THEN entry ELSE array[i]]

(* Mutant: the index is wider than the parameter it is passed in. *)
AddDeviceWide ==
  /\ pc = "scan" /\ InLoop /\ Plugged(bus, slot, 0)
  /\ AtSlot
  /\ Store(Entry(<<bus, slot, 0>>))
  /\ slot' = slot + 1 /\ count' = (count + 1) % U8 /\ offset' = offset + 1
  /\ UNCHANGED <<system, cacheline, pc, multibus, function, bus, dev_cnt>>

(* pci_start_selftest() writes the BIST byte into the lowest byte of the   *)
(* register, where the cache line size is, and reports the test as started. *)
pci_start_selftest(at) ==
  cacheline' = IF system[at].bist_capable THEN cacheline \cup {at} ELSE cacheline

AddDevice ==
  /\ pc = "scan" /\ InLoop /\ Plugged(bus, slot, 0)
  /\ AtSlot
  /\ Store(Entry(<<bus, slot, 0>>))
  /\ pci_start_selftest(<<bus, slot, 0>>)
  /\ slot' = slot + 1 /\ count' = (count + 1) % U8 /\ offset' = (offset + 1) % U8
  /\ UNCHANGED <<system, pc, multibus, function, bus, dev_cnt>>

(* calloc() failed; the entry may be NULL or have no data *)
OutOfMemory ==
  /\ pc = "scan" /\ InLoop /\ Plugged(bus, slot, 0)
  /\ AtSlot
  /\ Store(NoDevice)
  /\ pc' = "panic"
  /\ UNCHANGED <<system, cacheline, multibus, function, bus, slot,
                 offset, count, dev_cnt>>

(* Mutant: the devices of earlier buses are forgotten. *)
BusDoneForgetting ==
  /\ pc = "scan" /\ ~InLoop
  /\ dev_cnt' = count
  /\ pc' = IF multibus THEN "next" ELSE "done"
  /\ UNCHANGED <<system, cacheline, multibus, device, function, bus, slot,
                 offset, count, array>>

BusDone ==
  /\ pc = "scan" /\ ~InLoop
  /\ dev_cnt' = (dev_cnt + count) % U8
  /\ pc' = IF multibus THEN "next" ELSE "done"
  /\ UNCHANGED <<system, cacheline, multibus, device, function, bus, slot,
                 offset, count, array>>

(* current_addr goes on to the bus of the next function *)
ScanBus(b, index) ==
  /\ bus' = b /\ slot' = 0 /\ count' = 0 /\ offset' = index
  /\ pc' = "scan"

(* Mutants: no look at whether the function is there; every bus is stored  *)
(* from index 0 on.                                                        *)
NextFunctionUnchecked ==
  /\ pc = "next"
  /\ function' = (function + 1) % Functions
  /\ ScanBus(function', dev_cnt)
  /\ UNCHANGED <<system, cacheline, multibus, device, dev_cnt, array>>

NextFunctionFromZero ==
  /\ pc = "next"
  /\ function' = (function + 1) % Functions
  /\ IF Plugged(0, device, function')
       THEN ScanBus(function', 0)
       ELSE pc' = "done" /\ UNCHANGED <<bus, slot, count, offset>>
  /\ UNCHANGED <<system, cacheline, multibus, device, dev_cnt, array>>

(* addr.function++ in 3 bits: the loop condition, below 8, always holds *)
NextFunction ==
  /\ pc = "next"
  /\ function' = (function + 1) % Functions
  /\ IF Plugged(0, device, function')
       THEN ScanBus(function', dev_cnt)
       ELSE pc' = "done" /\ UNCHANGED <<bus, slot, count, offset>>
  /\ UNCHANGED <<system, cacheline, multibus, device, dev_cnt, array>>

(* enumeration has returned, or panic() hangs *)
Finished == pc \in {"done", "panic"} /\ UNCHANGED vars

Enumerate ==
  \/ NoHostBridge \/ FirstBus
  \/ EmptySlot \/ AddDevice \/ OutOfMemory
  \/ BusDone \/ NextFunction

Next == Enumerate \/ Finished

Spec == Init /\ [][Next]_vars /\ WF_vars(Enumerate)

-----------------------------------------------------------------------------
(* Counters keep to their width, and entries are what they should be.      *)
TypeOK ==
  /\ DOMAIN system \subseteq Location /\ system \in [DOMAIN system -> Header]
  /\ cacheline \subseteq DOMAIN system
  /\ pc \in {"start", "scan", "next", "done", "panic"}
  /\ multibus \in BOOLEAN
  /\ device \in 0..(Slots - 1) /\ function \in 0..(Functions - 1)
  /\ bus \in 0..(Functions - 1) /\ slot \in 0..(Slots - 1)
  /\ offset \in 0..(U8 - 1) /\ count \in 0..(U8 - 1) /\ dev_cnt \in 0..(U8 - 1)
  /\ array \in [DOMAIN array ->
                  [at : {<<>>} \cup Location, type : {"none", "bridge", "mmio"},
                   bist_executed : BOOLEAN]]
  /\ DOMAIN array \subseteq 0..(U8 - 1)

(* the last device scanned on bus 0, whose functions stand for buses *)
Last == Slots - 2

(* The search for buses ends only at a function that is not there.         *)
EndsSomewhere == \E f \in 1..(Functions - 1) : ~Plugged(0, Last, f)

(* Only bus 0 is scanned.                                                  *)
OneBus == ~Plugged(0, Last, 1)

(* The allocation of 32 entries in post.c is enough as long as one bus is  *)
(* scanned: neither the index nor the count passed back exceeds it.        *)
InArray ==
  OneBus => DOMAIN array \subseteq 0..(ArraySize - 1) /\ dev_cnt <= ArraySize

Before(a, b) == a[1] < b[1] \/ (a[1] = b[1] /\ a[2] < b[2])

(* Every index below offset has been stored, each with a device that is    *)
(* there and comes after those before it: across buses nothing is listed   *)
(* twice or overwritten, and the 8-bit counters never wrap.                *)
ListedInOrder ==
  EndsSomewhere /\ pc # "panic" =>
    /\ DOMAIN array = 0..(offset - 1)
    /\ \A i \in DOMAIN array : array[i].at \in DOMAIN system
    /\ \A i, j \in DOMAIN array : i < j => Before(array[i].at, array[j].at)

(* the buses that are scanned once the enumeration is over *)
Reached == {b \in 0..(Functions - 1) :
              b = 0 \/ (multibus /\ \A f \in 1..b : Plugged(0, Last, f))}

(* On return the count covers the devices found, which are those in the    *)
(* scanned slots of the scanned buses, neither more nor less.              *)
FoundAsCounted ==
  EndsSomewhere /\ pc = "done" =>
    {array[i].at : i \in 0..(dev_cnt - 1)}
      = {at \in DOMAIN system : /\ Plugged(0, 0, 0) /\ at[1] \in Reached
                                /\ at[2] <= Last /\ at[3] = 0}

(* "Fetch headers for all pci devices we have plugged in" (pci.c:122): at  *)
(* the end every device of bus 0 is in the array.                          *)
AllDevicesFound ==
  pc = "done" =>
    \A d \in 0..(Slots - 1) :
      Plugged(0, 0, 0) /\ Plugged(0, d, 0)
        => \E i \in DOMAIN array : array[i].at = <<0, d, 0>>
-----------------------------------------------------------------------------
(* The inductive invariant of PciProofs: where the enumeration is ...      *)
Passed(at) == at[3] = 0 /\ at[2] <= Last /\ (at[1] < bus \/ (at[1] = bus /\ at[2] < slot))

Place ==
  /\ pc = "start" => bus = 0 /\ slot = 0 /\ device = 0 /\ offset = 0 /\ count = 0 /\ dev_cnt = 0
  /\ pc # "done" => bus = function
  /\ pc = "scan" => /\ Plugged(0, 0, 0)
                    /\ device = IF bus > 0 THEN Last ELSE IF slot = 0 THEN 0 ELSE slot - 1
  /\ pc = "next" => slot = Slots - 1 /\ device = Last /\ multibus /\ Plugged(0, 0, 0)
  /\ pc = "done" => IF Plugged(0, 0, 0)
                      THEN slot = Slots - 1 /\ (multibus => ~Plugged(0, Last, bus + 1))
                      ELSE bus = 0 /\ slot = 0
  /\ bus > 0 => multibus
  /\ \A f \in 1..bus : Plugged(0, Last, f)

(* ... how far the counters are, which keeps them from wrapping ...        *)
Counted ==
  /\ offset = IF pc = "scan" THEN dev_cnt + count ELSE dev_cnt
  /\ offset <= bus * (Slots - 1) + slot
  /\ DOMAIN array = 0..(offset - 1)

(* ... and that the array lists what has been passed, in order.            *)
Listed ==
  /\ {array[i].at : i \in DOMAIN array} = {at \in DOMAIN system : Passed(at)}
  /\ \A i, j \in DOMAIN array : i < j => Before(array[i].at, array[j].at)

PciInv ==
  /\ TypeOK /\ InArray
  /\ EndsSomewhere /\ pc # "panic" => Place /\ Counted /\ Listed
=============================================================================
