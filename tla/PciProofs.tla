------------------------------ MODULE PciProofs ------------------------------
(***************************************************************************)
(* The enumeration of whatever is plugged in: it stays within the array    *)
(* as long as one bus is scanned, and what it lists is in order, complete  *)
(* for the slots it looks at, and counted.                                 *)
(***************************************************************************)
EXTENDS PciTree, TLAPS

-----------------------------------------------------------------------------
(* A bus has Slots - 1 scanned slots, so the counters stay below U8.       *)
LEMMA Room ==
  ASSUME NEW b \in Nat, NEW f \in Nat, b < f, NEW s \in Nat
  PROVE  /\ b * s \in Nat /\ f * s \in Nat
         /\ (b + 1) * s = b * s + s /\ b * s + s <= f * s
<1>1. b * s \in Nat /\ f * s \in Nat /\ (b + 1) * s = b * s + s
  OBVIOUS
<1>2. PICK d \in Nat : f = b + 1 + d
  <2>1. f - b - 1 \in Nat /\ f = b + 1 + (f - b - 1)
    OBVIOUS
  <2> QED
    BY <2>1
<1>3. f * s = b * s + s + d * s /\ d * s \in Nat
  BY <1>2
<1> QED
  BY <1>1, <1>3

LEMMA ModSmall ==
  ASSUME NEW x \in Nat, NEW d \in Nat, x < d
  PROVE  (x % d) = x
OBVIOUS

LEMMA ModRange ==
  ASSUME NEW x \in Nat, NEW d \in Nat, 0 < d
  PROVE  (x % d) \in 0..(d - 1)
OBVIOUS

(* The numbers, without what may be plugged in.                            *)
LEMMA Sizes ==
  /\ Slots \in Nat /\ 2 < Slots /\ Functions \in Nat /\ 1 < Functions
  /\ ArraySize \in Nat /\ Slots <= ArraySize /\ U8 \in Nat /\ 0 < U8
<1>1. /\ Slots \in Nat /\ 2 < Slots /\ Functions \in Nat /\ 1 < Functions
      /\ ArraySize \in Nat /\ Slots <= ArraySize /\ U8 \in Nat
      /\ Functions * (Slots - 1) < U8
  BY PciAssumption
<1>2. Functions * (Slots - 1) \in Nat
  BY <1>1
<1> QED
  BY <1>1, <1>2

(* The bound on the counters in a state, and one bus further.              *)
LEMMA Bounded ==
  TypeOK => /\ bus * (Slots - 1) \in Nat /\ (bus + 1) * (Slots - 1) = bus * (Slots - 1) + (Slots - 1)
            /\ bus * (Slots - 1) + (Slots - 1) < U8
<1> SUFFICES ASSUME TypeOK
             PROVE  /\ bus * (Slots - 1) \in Nat
                    /\ (bus + 1) * (Slots - 1) = bus * (Slots - 1) + (Slots - 1)
                    /\ bus * (Slots - 1) + (Slots - 1) < U8
  OBVIOUS
<1> DEFINE s == Slots - 1
<1>1. s \in Nat /\ Functions \in Nat /\ U8 \in Nat /\ Functions * s < U8
  BY PciAssumption
<1>2. bus \in Nat /\ bus < Functions
  BY PciAssumption DEF TypeOK
<1> HIDE DEF s
<1>3. /\ bus * s \in Nat /\ Functions * s \in Nat
      /\ (bus + 1) * s = bus * s + s /\ bus * s + s <= Functions * s
  BY <1>1, <1>2, Room
<1>4. bus * s \in Nat /\ (bus + 1) * s = bus * s + s /\ bus * s + s < U8
  BY <1>1, <1>3
<1> QED
  BY <1>4 DEF s

-----------------------------------------------------------------------------
LEMMA InitTypeOK == Init => TypeOK
<1> SUFFICES ASSUME Init PROVE TypeOK
  OBVIOUS
<1>1. DOMAIN system \subseteq Location /\ system \in [DOMAIN system -> Header]
  BY PciAssumption DEF Init
<1>2. DOMAIN array = {}
  BY DEF Init
<1>3. /\ array \in [DOMAIN array ->
                     [at : {<<>>} \cup Location, type : {"none", "bridge", "mmio"},
                      bist_executed : BOOLEAN]]
      /\ DOMAIN array \subseteq 0..(U8 - 1)
  BY <1>2 DEF Init
<1>4. /\ device \in 0..(Slots - 1) /\ function \in 0..(Functions - 1)
      /\ bus \in 0..(Functions - 1) /\ slot \in 0..(Slots - 1)
  BY Sizes DEF Init
<1>5. offset \in 0..(U8 - 1) /\ count \in 0..(U8 - 1) /\ dev_cnt \in 0..(U8 - 1)
  BY Sizes DEF Init
<1>6. /\ cacheline \subseteq DOMAIN system
      /\ pc \in {"start", "scan", "next", "done", "panic"} /\ multibus \in BOOLEAN
  BY DEF Init
<1> QED
  BY <1>1, <1>3, <1>4, <1>5, <1>6 DEF TypeOK

(* The ranges of the counters.                                             *)
LEMMA Numbers ==
  ASSUME TypeOK
  PROVE  /\ Slots \in Nat /\ 2 < Slots /\ Functions \in Nat /\ U8 \in Nat
         /\ slot \in Nat /\ slot <= Slots - 1 /\ device \in Nat /\ device <= Slots - 1
         /\ bus \in Nat /\ bus < Functions
         /\ offset \in Nat /\ offset < U8 /\ count \in Nat /\ count < U8
         /\ dev_cnt \in Nat /\ dev_cnt < U8
BY Sizes DEF TypeOK

(* What is stored is an entry at offset.                                   *)
LEMMA StoreOK ==
  ASSUME TypeOK,
         NEW entry \in [at : {<<>>} \cup Location, type : {"none", "bridge", "mmio"},
                        bist_executed : BOOLEAN],
         Store(entry)
  PROVE  /\ array' \in [DOMAIN array' ->
                          [at : {<<>>} \cup Location, type : {"none", "bridge", "mmio"},
                           bist_executed : BOOLEAN]]
         /\ DOMAIN array' = DOMAIN array \cup {offset}
         /\ DOMAIN array' \subseteq 0..(U8 - 1)
BY DEF TypeOK, Store

LEMMA EntryOK ==
  ASSUME TypeOK, Plugged(bus, slot, 0)
  PROVE  /\ <<bus, slot, 0>> \in Location
         /\ system[<<bus, slot, 0>>] \in Header
         /\ Entry(<<bus, slot, 0>>)
              \in [at : {<<>>} \cup Location, type : {"none", "bridge", "mmio"},
                   bist_executed : BOOLEAN]
<1>1. <<bus, slot, 0>> \in DOMAIN system
  BY DEF Plugged
<1>2. <<bus, slot, 0>> \in Location /\ system[<<bus, slot, 0>>] \in Header
  BY <1>1 DEF TypeOK
<1>3. system[<<bus, slot, 0>>].bist_capable \in BOOLEAN
  BY <1>2 DEF Header
<1> QED
  BY <1>2, <1>3 DEF Entry

LEMMA NextTypeOK == TypeOK /\ [Next]_vars => TypeOK'
<1> SUFFICES ASSUME TypeOK, [Next]_vars PROVE TypeOK'
  OBVIOUS
<1> USE DEF TypeOK
<1>1. CASE NoHostBridge
  BY <1>1 DEF NoHostBridge
<1>2. CASE FirstBus
  BY <1>2 DEF FirstBus
<1>3. CASE EmptySlot
  <2>1. slot' \in 0..(Slots - 1) /\ device' \in 0..(Slots - 1)
    BY <1>3, Sizes DEF EmptySlot, AtSlot, InLoop
  <2> QED
    BY <1>3, <2>1 DEF EmptySlot
<1>4. CASE AddDevice
  <2>1. /\ UNCHANGED <<system, pc, multibus, function, bus, dev_cnt>>
        /\ slot' \in 0..(Slots - 1) /\ device' \in 0..(Slots - 1)
    <3>1. /\ UNCHANGED <<system, pc, multibus, function, bus, dev_cnt>>
          /\ slot' = slot + 1 /\ InLoop /\ AtSlot
      BY <1>4 DEF AddDevice
    <3>2. slot + 1 \in 0..(Slots - 1) /\ slot \in 0..(Slots - 1) /\ device \in 0..(Slots - 1)
      BY <3>1, Numbers DEF InLoop
    <3> QED
      BY <3>1, <3>2 DEF AtSlot
  <2>2. count' \in 0..(U8 - 1) /\ offset' \in 0..(U8 - 1)
    <3> HIDE DEF TypeOK
    <3>1. count + 1 \in Nat /\ offset + 1 \in Nat /\ U8 \in Nat /\ 0 < U8
      BY Numbers
    <3>2. ((count + 1) % U8) \in 0..(U8 - 1) /\ ((offset + 1) % U8) \in 0..(U8 - 1)
      BY <3>1, ModRange
    <3> QED
      BY <1>4, <3>2 DEF AddDevice
  <2>3. cacheline' \subseteq DOMAIN system
    BY <1>4 DEF AddDevice, Plugged, pci_start_selftest
  <2>4. /\ array' \in [DOMAIN array' ->
                         [at : {<<>>} \cup Location, type : {"none", "bridge", "mmio"},
                          bist_executed : BOOLEAN]]
        /\ DOMAIN array' \subseteq 0..(U8 - 1)
    <3> HIDE DEF TypeOK
    <3>1. Plugged(bus, slot, 0) /\ Store(Entry(<<bus, slot, 0>>))
      BY <1>4 DEF AddDevice
    <3> QED
      BY <3>1, EntryOK, StoreOK
  <2> QED
    BY <2>1, <2>2, <2>3, <2>4
<1>5. CASE OutOfMemory
  <2>1. NoDevice \in [at : {<<>>} \cup Location, type : {"none", "bridge", "mmio"},
                      bist_executed : BOOLEAN]
    BY DEF NoDevice
  <2>2. /\ array' \in [DOMAIN array' ->
                         [at : {<<>>} \cup Location, type : {"none", "bridge", "mmio"},
                          bist_executed : BOOLEAN]]
        /\ DOMAIN array' \subseteq 0..(U8 - 1)
    <3> HIDE DEF TypeOK
    <3>1. Store(NoDevice)
      BY <1>5 DEF OutOfMemory
    <3> QED
      BY <3>1, <2>1, StoreOK
  <2> QED
    BY <1>5, <2>2 DEF OutOfMemory, AtSlot
<1>6. CASE BusDone
  <2>1. dev_cnt' \in 0..(U8 - 1)
    <3>1. dev_cnt + count \in Nat /\ U8 \in Nat /\ 0 < U8
      BY Sizes
    <3>2. ((dev_cnt + count) % U8) \in 0..(U8 - 1)
      BY <3>1, ModRange
    <3> QED
      BY <1>6, <3>2 DEF BusDone
  <2> QED
    BY <1>6, <2>1 DEF BusDone
<1>7. CASE NextFunction
  <2>1. function' \in 0..(Functions - 1)
    <3>1. function + 1 \in Nat /\ Functions \in Nat /\ 0 < Functions
      BY Sizes
    <3>2. ((function + 1) % Functions) \in 0..(Functions - 1)
      BY <3>1, ModRange
    <3> QED
      BY <1>7, <3>2 DEF NextFunction
  <2>2. /\ bus' \in 0..(Functions - 1) /\ slot' \in 0..(Slots - 1)
        /\ count' \in 0..(U8 - 1) /\ offset' \in 0..(U8 - 1)
        /\ pc' \in {"scan", "done"}
    <3> HIDE DEF TypeOK
    <3>1. CASE ScanBus(function', dev_cnt)
      <4>1. bus' = function' /\ slot' = 0 /\ count' = 0 /\ offset' = dev_cnt /\ pc' = "scan"
        BY <3>1 DEF ScanBus
      <4>2. 0 \in 0..(Slots - 1) /\ 0 \in 0..(U8 - 1) /\ dev_cnt \in 0..(U8 - 1)
        BY Numbers
      <4> QED
        BY <2>1, <4>1, <4>2
    <3>2. CASE pc' = "done" /\ UNCHANGED <<bus, slot, count, offset>>
      <4>1. /\ bus \in 0..(Functions - 1) /\ slot \in 0..(Slots - 1)
            /\ count \in 0..(U8 - 1) /\ offset \in 0..(U8 - 1)
        BY DEF TypeOK
      <4> QED
        BY <3>2, <4>1
    <3> QED
      BY <1>7, <3>1, <3>2 DEF NextFunction
  <2> QED
    BY <1>7, <2>1, <2>2 DEF NextFunction
<1>8. CASE UNCHANGED vars
  BY <1>8 DEF vars
<1> QED
  BY <1>1, <1>2, <1>3, <1>4, <1>5, <1>6, <1>7, <1>8 DEF Next, Enumerate, Finished

(* The number of functions, slots and entries is never exceeded.           *)
THEOREM PciTypeCorrect == Spec => []TypeOK
<1> QED
  BY InitTypeOK, NextTypeOK, PTL DEF Spec

-----------------------------------------------------------------------------
(* The part of the invariant that needs the search for buses to end.       *)
Tracked == EndsSomewhere /\ pc # "panic" => Place /\ Counted /\ Listed

(* What has been listed while one bus is scanned fits the array.           *)
LEMMA FitsOneBus == TypeOK /\ Tracked /\ pc # "panic" => InArray
<1> SUFFICES ASSUME TypeOK, Tracked, pc # "panic", OneBus
             PROVE  DOMAIN array \subseteq 0..(ArraySize - 1) /\ dev_cnt <= ArraySize
  BY DEF InArray
<1>1. EndsSomewhere
  BY Sizes DEF OneBus, EndsSomewhere
<1>2. Place /\ Counted
  BY <1>1 DEF Tracked
<1>3. bus = 0
  BY <1>2 DEF Place, OneBus, TypeOK
<1>4. 0 * (Slots - 1) + slot = slot
  BY Numbers
<1>5. DOMAIN array = 0..(offset - 1) /\ offset <= slot
  BY <1>2, <1>3, <1>4 DEF Counted
<1>6. dev_cnt <= offset
  BY <1>2, Numbers DEF Counted
<1> QED
  BY <1>5, <1>6, Sizes, Numbers

LEMMA InitTracked == Init => Tracked
<1> SUFFICES ASSUME Init PROVE Place /\ Counted /\ Listed
  BY DEF Tracked
<1>1. Place
  BY DEF Init, Place
<1>2. DOMAIN array = {} /\ bus = 0 /\ slot = 0 /\ offset = 0 /\ dev_cnt = 0 /\ pc = "start"
  BY DEF Init
<1>3. bus * (Slots - 1) = 0
  BY <1>2, Sizes
<1>4. Counted
  BY <1>2, <1>3 DEF Counted
<1>5. {at \in DOMAIN system : Passed(at)} = {}
  <2>1. DOMAIN system \subseteq Location
    BY InitTypeOK DEF TypeOK
  <2> QED
    BY <1>2, <2>1, Sizes DEF Passed, Location
<1>6. Listed
  BY <1>2, <1>5 DEF Listed
<1> QED
  BY <1>1, <1>4, <1>6

(* What is passed stays where it is while the place does.                  *)
LEMMA SamePlace ==
  ASSUME TypeOK, Place, Counted, Listed,
         UNCHANGED <<system, bus, slot, offset, array>>
  PROVE  Listed'
BY DEF Listed, Passed, Before, Last

LEMMA NoHostBridgeTracked ==
  ASSUME TypeOK, Place, Counted, Listed, NoHostBridge
  PROVE  Place' /\ Counted' /\ Listed'
<1>1. Place'
  BY DEF Place, NoHostBridge, Plugged, Last
<1>2. Counted'
  BY Numbers DEF Counted, Place, NoHostBridge
<1>3. Listed'
  BY SamePlace DEF NoHostBridge
<1> QED
  BY <1>1, <1>2, <1>3

LEMMA FirstBusTracked ==
  ASSUME TypeOK, Place, Counted, Listed, FirstBus
  PROVE  Place' /\ Counted' /\ Listed'
<1>1. Place'
  BY DEF Place, FirstBus, Plugged, Last
<1>2. Counted'
  BY Numbers DEF Counted, Place, FirstBus
<1>3. Listed'
  BY SamePlace DEF FirstBus
<1> QED
  BY <1>1, <1>2, <1>3

LEMMA EmptySlotTracked ==
  ASSUME TypeOK, Place, Counted, Listed, EmptySlot
  PROVE  Place' /\ Counted' /\ Listed'
<1>1. /\ pc = "scan" /\ slot < Slots - 1 /\ slot' = slot + 1 /\ ~Plugged(bus, slot, 0)
      /\ UNCHANGED <<system, pc, multibus, function, bus, offset, count, dev_cnt, array>>
      /\ device' = IF bus = 0 THEN slot ELSE device
  BY DEF EmptySlot, InLoop, AtSlot
<1>2. Place'
  BY <1>1, Numbers DEF Place, Plugged, Last
<1>3. Counted'
  <2> DEFINE before == bus * (Slots - 1)
  <2>1. before \in Nat /\ offset <= before + slot
    BY Bounded DEF Counted
  <2> HIDE DEF before
  <2>2. offset <= before + (slot + 1)
    BY <2>1, Numbers
  <2> USE DEF before
  <2> QED
    BY <1>1, <2>2 DEF Counted
<1>4. Listed'
  <2>1. ASSUME NEW at \in DOMAIN system
        PROVE  Passed(at) <=> Passed(at)'
    <3>1. at \in Location
      BY DEF TypeOK
    <3>2. at # <<bus, slot, 0>>
      BY <1>1 DEF Plugged
    <3>3. at[1] \in Nat /\ at[2] \in Nat /\ ~(at[1] = bus /\ at[2] = slot /\ at[3] = 0)
      BY <3>1, <3>2, Sizes DEF Location
    <3> QED
      BY <1>1, <3>3, Numbers DEF Passed, Last
  <2> QED
    BY <1>1, <2>1 DEF Listed, Before
<1> QED
  BY <1>2, <1>3, <1>4

LEMMA AddDeviceTracked ==
  ASSUME TypeOK, Place, Counted, Listed, AddDevice
  PROVE  Place' /\ Counted' /\ Listed'
<1> DEFINE here == <<bus, slot, 0>>
<1>1. /\ pc = "scan" /\ slot < Slots - 1 /\ slot' = slot + 1 /\ Plugged(bus, slot, 0)
      /\ UNCHANGED <<system, pc, multibus, function, bus, dev_cnt>>
      /\ device' = IF bus = 0 THEN slot ELSE device
      /\ Store(Entry(here))
      /\ offset' = (offset + 1) % U8 /\ count' = (count + 1) % U8
  BY DEF AddDevice, InLoop, AtSlot
<1>2. Place'
  BY <1>1, Numbers DEF Place, Plugged, Last
<1>3. /\ offset = dev_cnt + count /\ offset + 1 <= bus * (Slots - 1) + (slot + 1)
      /\ offset + 1 < U8 /\ count + 1 < U8
  <2> DEFINE before == bus * (Slots - 1)
  <2>1. before \in Nat /\ before + (Slots - 1) < U8 /\ offset <= before + slot
    BY Bounded DEF Counted
  <2>2. offset = dev_cnt + count /\ slot < Slots - 1
    BY <1>1 DEF Counted
  <2> HIDE DEF before
  <2>3. offset + 1 <= before + (slot + 1) /\ offset + 1 < U8 /\ count + 1 < U8
    BY <2>1, <2>2, Numbers
  <2> USE DEF before
  <2> QED
    BY <2>2, <2>3
<1>4. offset' = offset + 1 /\ count' = count + 1
  BY <1>1, <1>3, ModSmall, Numbers
<1>5. DOMAIN array = 0..(offset - 1) /\ DOMAIN array' = 0..offset
  <2>1. DOMAIN array = 0..(offset - 1) /\ DOMAIN array' = DOMAIN array \cup {offset}
    BY <1>1 DEF Counted, Store
  <2> QED
    BY <2>1, Numbers
<1>6. Counted'
  <2>1. offset' = dev_cnt' + count' /\ pc' = "scan"
    BY <1>1, <1>3, <1>4, Numbers
  <2>2. offset' <= bus' * (Slots - 1) + slot'
    BY <1>1, <1>3, <1>4
  <2>3. DOMAIN array' = 0..(offset' - 1)
    BY <1>4, <1>5, Numbers
  <2> QED
    BY <2>1, <2>2, <2>3 DEF Counted
<1>7. /\ \A i \in 0..(offset - 1) : array'[i] = array[i]
      /\ array'[offset].at = here
  BY <1>1, <1>5, Numbers DEF Store, Entry
<1>8. here \in DOMAIN system
  BY <1>1 DEF Plugged
<1>9. ASSUME NEW at \in DOMAIN system
      PROVE  /\ at[1] \in Nat /\ at[2] \in Nat
             /\ Passed(at)' <=> Passed(at) \/ at = here
  <2>1. at \in Location
    BY DEF TypeOK
  <2>2. /\ at[1] \in Nat /\ at[2] \in Nat
        /\ (at[1] = bus /\ at[2] = slot /\ at[3] = 0) <=> at = here
    BY <2>1, Sizes DEF Location
  <2> QED
    BY <1>1, <2>2, Numbers DEF Passed, Last
<1>10. {array'[i].at : i \in DOMAIN array'} = {array[i].at : i \in DOMAIN array} \cup {here}
  <2>1. \A i \in DOMAIN array : i \in DOMAIN array' /\ array'[i] = array[i]
    BY <1>5, <1>7, Numbers
  <2>2. DOMAIN array' = DOMAIN array \cup {offset}
    BY <1>5, Numbers
  <2>3. ASSUME NEW at, at \in {array[i].at : i \in DOMAIN array} \cup {here}
        PROVE  at \in {array'[i].at : i \in DOMAIN array'}
    <3>1. CASE at = here
      BY <1>7, <2>2, <3>1
    <3>2. CASE at \in {array[i].at : i \in DOMAIN array}
      BY <2>1, <3>2
    <3> QED
      BY <2>3, <3>1, <3>2
  <2>4. ASSUME NEW i \in DOMAIN array'
        PROVE  array'[i].at \in {array[k].at : k \in DOMAIN array} \cup {here}
    <3>1. CASE i = offset
      BY <1>7, <3>1
    <3>2. CASE i \in DOMAIN array
      BY <2>1, <3>2
    <3> QED
      BY <2>2, <3>1, <3>2
  <2> QED
    BY <2>3, <2>4
<1>11. {array'[i].at : i \in DOMAIN array'} = {at \in DOMAIN system' : Passed(at)'}
  BY <1>1, <1>8, <1>9, <1>10 DEF Listed
<1>12. ASSUME NEW i \in DOMAIN array', NEW j \in DOMAIN array', i < j
       PROVE  Before(array'[i].at, array'[j].at)
  <2>1. i \in DOMAIN array /\ array'[i] = array[i]
    BY <1>5, <1>7, <1>12, Numbers
  <2>2. CASE j = offset
    <3>1. array[i].at \in DOMAIN system /\ Passed(array[i].at)
      BY <2>1 DEF Listed
    <3>2. Before(array[i].at, here)
      BY <3>1, <1>9, Numbers DEF Passed, Before
    <3> QED
      BY <2>1, <2>2, <3>2, <1>7
  <2>3. CASE j # offset
    <3>1. j \in DOMAIN array /\ array'[j] = array[j]
      BY <1>5, <1>7, <2>3, Numbers
    <3> QED
      BY <2>1, <3>1, <1>12 DEF Listed
  <2> QED
    BY <2>2, <2>3
<1>13. Listed'
  BY <1>11, <1>12 DEF Listed, Before
<1> QED
  BY <1>2, <1>6, <1>13

LEMMA BusDoneTracked ==
  ASSUME TypeOK, Place, Counted, Listed, BusDone
  PROVE  Place' /\ Counted' /\ Listed'
<1>1. /\ pc = "scan" /\ pc' = (IF multibus THEN "next" ELSE "done") /\ ~(slot < Slots - 1)
      /\ UNCHANGED <<system, multibus, device, function, bus, slot, offset, count, array>>
      /\ dev_cnt' = (dev_cnt + count) % U8
  BY DEF BusDone, InLoop
<1>2. slot = Slots - 1
  BY <1>1, Numbers
<1>3. dev_cnt' = dev_cnt + count /\ offset = dev_cnt + count
  <2>1. offset = dev_cnt + count
    BY <1>1 DEF Counted
  <2>2. dev_cnt + count \in Nat /\ dev_cnt + count < U8
    BY <2>1, Numbers
  <2>3. ((dev_cnt + count) % U8) = dev_cnt + count
    BY <2>2, ModSmall, Numbers
  <2> QED
    BY <1>1, <2>1, <2>3
<1>4. Place'
  BY <1>1, <1>2, Numbers DEF Place, Plugged, Last
<1>5. Counted'
  <2>1. pc' # "scan" /\ offset' = offset /\ DOMAIN array = 0..(offset - 1)
    BY <1>1 DEF Counted
  <2>2. offset' <= bus' * (Slots - 1) + slot'
    BY <1>1 DEF Counted
  <2> QED
    BY <1>1, <1>3, <2>1, <2>2 DEF Counted
<1>6. Listed'
  BY <1>1, SamePlace
<1> QED
  BY <1>4, <1>5, <1>6

LEMMA NextFunctionTracked ==
  ASSUME TypeOK, EndsSomewhere, Place, Counted, Listed, NextFunction
  PROVE  Place' /\ Counted' /\ Listed'
<1>1. /\ pc = "next" /\ function = bus /\ slot = Slots - 1 /\ device = Last /\ multibus
      /\ Plugged(0, 0, 0) /\ offset = dev_cnt /\ DOMAIN array = 0..(offset - 1)
      /\ \A f \in 1..bus : Plugged(0, Last, f)
  BY DEF NextFunction, Place, Counted
<1>2. bus + 1 < Functions
  <2>1. PICK f \in 1..(Functions - 1) : ~Plugged(0, Last, f)
    BY DEF EndsSomewhere
  <2> QED
    BY <1>1, <2>1, Numbers
<1>3. function' = bus + 1
  <2>1. ((bus + 1) % Functions) = bus + 1
    BY <1>2, ModSmall, Numbers
  <2> QED
    BY <1>1, <2>1 DEF NextFunction
<1>4. UNCHANGED <<system, multibus, device, dev_cnt, array>>
  BY DEF NextFunction
<1>5. CASE Plugged(0, Last, bus + 1)
  <2>1. bus' = bus + 1 /\ slot' = 0 /\ count' = 0 /\ offset' = dev_cnt /\ pc' = "scan"
    BY <1>1, <1>3, <1>5 DEF NextFunction, ScanBus
  <2>2. Place'
    <3>1. Plugged(0, 0, 0)' /\ \A f \in 1..(bus + 1) : Plugged(0, Last, f)'
      <4>1. \A f \in 1..(bus + 1) : f \in 1..bus \/ f = bus + 1
        BY Numbers
      <4>2. \A f \in 1..(bus + 1) : Plugged(0, Last, f)
        BY <1>1, <1>5, <4>1
      <4> QED
        BY <1>1, <1>4, <4>2 DEF Plugged, Last
    <3> QED
      BY <1>1, <1>3, <1>4, <2>1, <3>1, Numbers DEF Place, Last
  <2>3. Counted'
    <3>1. offset <= bus * (Slots - 1) + (Slots - 1)
      BY <1>1 DEF Counted
    <3>2. (bus + 1) * (Slots - 1) = bus * (Slots - 1) + (Slots - 1)
      BY Bounded
    <3>3. (bus + 1) * (Slots - 1) + 0 = bus * (Slots - 1) + (Slots - 1)
      BY <3>2, Bounded, Numbers
    <3>4. offset' <= bus' * (Slots - 1) + slot'
      BY <1>1, <2>1, <3>1, <3>3
    <3>5. offset' = dev_cnt' + count'
      BY <1>4, <2>1, Numbers
    <3> QED
      BY <1>1, <1>4, <2>1, <3>4, <3>5 DEF Counted
  <2>4. ASSUME NEW at \in DOMAIN system
        PROVE  Passed(at)' <=> Passed(at)
    <3>1. at \in Location
      BY DEF TypeOK
    <3>2. at[1] \in Nat /\ at[2] \in Nat
      BY <3>1, Sizes DEF Location
    <3>3. Passed(at)' <=> at[3] = 0 /\ at[2] <= Last /\ at[1] < bus + 1
      BY <2>1, <3>2, Numbers DEF Passed, Last
    <3>4. slot = Slots - 1
      BY <1>1
    <3>5. Passed(at) <=> at[3] = 0 /\ at[2] <= Last /\ at[1] < bus + 1
      BY <3>2, <3>4, Numbers DEF Passed, Last
    <3> QED
      BY <3>3, <3>5
  <2>5. Listed'
    BY <1>4, <2>4 DEF Listed, Before
  <2> QED
    BY <2>2, <2>3, <2>5
<1>6. CASE ~Plugged(0, Last, bus + 1)
  <2>1. pc' = "done" /\ UNCHANGED <<bus, slot, count, offset>>
    BY <1>1, <1>3, <1>6 DEF NextFunction
  <2>2. Place'
    BY <1>1, <1>4, <1>6, <2>1 DEF Place, Plugged, Last
  <2>3. Counted'
    BY <1>1, <1>4, <2>1 DEF Counted
  <2>4. Listed'
    BY <1>4, <2>1, SamePlace
  <2> QED
    BY <2>2, <2>3, <2>4
<1> QED
  BY <1>5, <1>6

LEMMA NextTracked == TypeOK /\ Tracked /\ [Next]_vars => Tracked'
<1> SUFFICES ASSUME TypeOK, Tracked, [Next]_vars, EndsSomewhere', pc' # "panic"
             PROVE  Place' /\ Counted' /\ Listed'
  BY DEF Tracked
<1>1. system' = system
  BY DEF Next, Enumerate, Finished, vars, NoHostBridge, FirstBus, EmptySlot,
         AddDevice, OutOfMemory, BusDone, NextFunction
<1>2. EndsSomewhere
  BY <1>1 DEF EndsSomewhere, Plugged, Last
<1>3. pc # "panic"
  BY DEF Next, Enumerate, Finished, vars, NoHostBridge, FirstBus, EmptySlot,
         AddDevice, OutOfMemory, BusDone, NextFunction
<1>4. Place /\ Counted /\ Listed
  BY <1>2, <1>3 DEF Tracked
<1>5. ~OutOfMemory
  BY DEF OutOfMemory
<1>6. CASE UNCHANGED vars
  <2>1. Place' /\ Counted'
    BY <1>4, <1>6 DEF vars, Place, Counted, Plugged, Last
  <2> QED
    BY <1>4, <1>6, <2>1, SamePlace DEF vars
<1> QED
  BY <1>2, <1>4, <1>5, <1>6, NoHostBridgeTracked, FirstBusTracked, EmptySlotTracked,
     AddDeviceTracked, BusDoneTracked, NextFunctionTracked
     DEF Next, Enumerate, Finished

(* The allocation is enough even for the entry under construction when the *)
(* memory runs out.                                                        *)
LEMMA NextInArray == TypeOK /\ Tracked /\ InArray /\ [Next]_vars => InArray'
<1> SUFFICES ASSUME TypeOK, Tracked, InArray, [Next]_vars PROVE InArray'
  OBVIOUS
<1>1. TypeOK' /\ Tracked'
  BY NextTypeOK, NextTracked
<1>2. CASE pc' # "panic"
  <2>1. (TypeOK /\ Tracked /\ pc # "panic" => InArray)'
    BY FitsOneBus, PTL
  <2> QED
    BY <1>1, <1>2, <2>1
<1>3. CASE OutOfMemory
  <2> SUFFICES ASSUME OneBus'
               PROVE  (DOMAIN array \subseteq 0..(ArraySize - 1) /\ dev_cnt <= ArraySize)'
    BY DEF InArray
  <2>1. /\ system' = system /\ dev_cnt' = dev_cnt /\ pc = "scan" /\ slot < Slots - 1
        /\ Store(NoDevice)
    BY <1>3 DEF OutOfMemory, InLoop
  <2>2. OneBus
    BY <2>1 DEF OneBus, Plugged, Last
  <2>3. EndsSomewhere
    BY <2>2, Sizes DEF OneBus, EndsSomewhere
  <2>4. Place /\ Counted
    BY <2>1, <2>3 DEF Tracked
  <2>5. bus = 0
    BY <2>2, <2>4, Numbers DEF Place, OneBus
  <2>6. 0 * (Slots - 1) + slot = slot
    BY Numbers
  <2>7. offset <= slot
    BY <2>4, <2>5, <2>6 DEF Counted
  <2>8. DOMAIN array' = DOMAIN array \cup {offset}
    BY <2>1 DEF Store
  <2>9. offset \in 0..(ArraySize - 1)
    BY <2>1, <2>7, Numbers, Sizes
  <2>10. DOMAIN array \subseteq 0..(ArraySize - 1) /\ dev_cnt <= ArraySize
    BY <2>2 DEF InArray
  <2> QED
    BY <2>1, <2>8, <2>9, <2>10
<1>4. CASE pc' = "panic" /\ ~OutOfMemory
  <2>1. UNCHANGED vars
    BY <1>4 DEF Next, Enumerate, Finished, NoHostBridge, FirstBus, EmptySlot,
                AddDevice, BusDone, NextFunction, ScanBus
  <2> QED
    BY <2>1 DEF vars, InArray, OneBus, Plugged, Last
<1> QED
  BY <1>2, <1>3, <1>4

-----------------------------------------------------------------------------
(* The inductive invariant: the enumeration is where it should be, its     *)
(* counters have not wrapped, and it has listed what it has passed.        *)
THEOREM PciInvariant == Spec => []PciInv
<1>1. Init => TypeOK /\ Tracked /\ InArray
  <2>1. Init => TypeOK /\ Tracked /\ pc # "panic"
    BY InitTypeOK, InitTracked DEF Init
  <2> QED
    BY <2>1, FitsOneBus
<1>2. (TypeOK /\ Tracked /\ InArray) /\ [Next]_vars => (TypeOK /\ Tracked /\ InArray)'
  <2>1. SUFFICES ASSUME TypeOK, Tracked, InArray, [Next]_vars
                 PROVE  TypeOK' /\ Tracked' /\ InArray'
    OBVIOUS
  <2> QED
    BY <2>1, NextTypeOK, NextTracked, NextInArray
<1>3. TypeOK /\ Tracked /\ InArray => PciInv
  BY DEF PciInv, Tracked
<1> QED
  BY <1>1, <1>2, <1>3, PTL DEF Spec

(* post.c allocates 32 entries (post.c:149): while the functions of the    *)
(* last scanned device stand for no further bus, no index passes that.     *)
THEOREM PciInArray == Spec => []InArray
<1>1. PciInv => InArray
  BY DEF PciInv
<1> QED
  BY <1>1, PciInvariant, PTL

(* the array as listed, for any scan that ends *)
LEMMA InvListed == PciInv => ListedInOrder
<1> SUFFICES ASSUME PciInv, EndsSomewhere, pc # "panic"
             PROVE  /\ DOMAIN array = 0..(offset - 1)
                    /\ \A i \in DOMAIN array : array[i].at \in DOMAIN system
                    /\ \A i, j \in DOMAIN array : i < j => Before(array[i].at, array[j].at)
  BY DEF ListedInOrder
<1>1. Counted /\ Listed
  BY DEF PciInv
<1>2. \A i \in DOMAIN array : array[i].at \in DOMAIN system
  BY <1>1 DEF Listed
<1> QED
  BY <1>1, <1>2 DEF Counted, Listed

(* Unless the search for buses never ends, the array has no hole, no       *)
(* duplicate and nothing that is not plugged in, across all buses.         *)
THEOREM PciListedInOrder == Spec => []ListedInOrder
BY InvListed, PciInvariant, PTL

(* on return the devices passed are those of the reached buses *)
LEMMA InvFound == PciInv => FoundAsCounted
<1> SUFFICES ASSUME PciInv, EndsSomewhere, pc = "done"
             PROVE  {array[i].at : i \in 0..(dev_cnt - 1)}
                      = {at \in DOMAIN system : /\ Plugged(0, 0, 0) /\ at[1] \in Reached
                                                /\ at[2] <= Last /\ at[3] = 0}
  BY DEF FoundAsCounted
<1>1. TypeOK /\ Place /\ Counted /\ Listed
  BY DEF PciInv
<1>2. DOMAIN array = 0..(dev_cnt - 1)
  BY <1>1 DEF Counted
<1>3. {array[i].at : i \in 0..(dev_cnt - 1)} = {at \in DOMAIN system : Passed(at)}
  BY <1>1, <1>2 DEF Listed
<1>4. ASSUME NEW at \in DOMAIN system
      PROVE  Passed(at) <=> /\ Plugged(0, 0, 0) /\ at[1] \in Reached
                            /\ at[2] <= Last /\ at[3] = 0
  <2>1. at[1] \in 0..(Functions - 1) /\ at[2] \in Nat
    <3>1. at \in Location
      BY <1>1 DEF TypeOK
    <3> QED
      BY <3>1, Sizes DEF Location
  <2>2. CASE ~Plugged(0, 0, 0)
    <3>1. bus = 0 /\ slot = 0
      BY <1>1, <2>2 DEF Place
    <3> QED
      BY <2>1, <2>2, <3>1, Sizes DEF Passed
  <2>3. CASE Plugged(0, 0, 0)
    <3>1. slot = Slots - 1 /\ (multibus => ~Plugged(0, Last, bus + 1))
      BY <1>1, <2>3 DEF Place
    <3>2. (bus > 0 => multibus) /\ \A f \in 1..bus : Plugged(0, Last, f)
      BY <1>1 DEF Place
    <3>3. Passed(at) <=> at[3] = 0 /\ at[2] <= Last /\ at[1] <= bus
      BY <1>1, <2>1, <3>1, Numbers, Sizes DEF Passed, Last
    <3>4. at[1] \in Reached <=> at[1] <= bus
      <4>1. ASSUME at[1] <= bus PROVE at[1] \in Reached
        <5>1. at[1] = 0 \/ bus > 0
          BY <1>1, <2>1, <4>1, Numbers, Sizes
        <5>2. \A f \in 1..at[1] : f \in 1..bus
          BY <1>1, <2>1, <4>1, Numbers, Sizes
        <5> QED
          BY <2>1, <3>2, <5>1, <5>2 DEF Reached
      <4>2. ASSUME ~(at[1] <= bus) PROVE at[1] \notin Reached
        <5>1. at[1] # 0 /\ bus + 1 \in 1..at[1]
          BY <1>1, <2>1, <4>2, Numbers, Sizes
        <5> QED
          BY <3>1, <5>1 DEF Reached
      <4> QED
        BY <4>1, <4>2
    <3> QED
      BY <2>3, <3>3, <3>4
  <2> QED
    BY <2>2, <2>3
<1> QED
  BY <1>3, <1>4

(* What enumerate_pci_buses() returns: the count covers exactly the        *)
(* devices in the scanned slots of the buses it reached.                   *)
THEOREM PciFoundAsCounted == Spec => []FoundAsCounted
BY InvFound, PciInvariant, PTL

-----------------------------------------------------------------------------
(* Where the switch has the names of a class begin.                         *)
LEMMA Offs ==
  /\ off(1) = 0 /\ off(2) = 9 /\ off(3) = 18 /\ off(5) = 21 /\ off(6) = 58
  /\ off(12) = 41 /\ off(13) = 51
BY DEF off

(* What the table has there.                                                *)
LEMMA NamesAt ==
  ASSUME NEW s \in Nat
  PROVE  /\ s < 9  => pci_subclass_str[s] = << 1, s >>
         /\ s < 9  => pci_subclass_str[9 + s] = << 2, s >>
         /\ s < 3  => pci_subclass_str[18 + s] = << 3, s >>
         /\ s < 2  => pci_subclass_str[21 + s] = << 5, s >>
         /\ s < 11 => pci_subclass_str[58 + s] = << 6, s >>
         /\ s < 10 => pci_subclass_str[41 + s] = << 12, s >>
         /\ s < 7  => pci_subclass_str[51 + s] = << 13, s >>
<1>1. ASSUME s < 9 PROVE pci_subclass_str[s] = << 1, s >>
  BY <1>1 DEF pci_subclass_str
<1>2. ASSUME s < 9 PROVE pci_subclass_str[9 + s] = << 2, s >>
  BY <1>2 DEF pci_subclass_str
<1>3. ASSUME s < 3 PROVE pci_subclass_str[18 + s] = << 3, s >>
  BY <1>3 DEF pci_subclass_str
<1>4. ASSUME s < 2 PROVE pci_subclass_str[21 + s] = << 5, s >>
  BY <1>4 DEF pci_subclass_str
<1>5. ASSUME s < 11 PROVE pci_subclass_str[58 + s] = << 6, s >>
  BY <1>5 DEF pci_subclass_str
<1>6. ASSUME s < 10 PROVE pci_subclass_str[41 + s] = << 12, s >>
  BY <1>6 DEF pci_subclass_str
<1>7. ASSUME s < 7 PROVE pci_subclass_str[51 + s] = << 13, s >>
  BY <1>7 DEF pci_subclass_str
<1>. QED
  BY <1>1, <1>2, <1>3, <1>4, <1>5, <1>6, <1>7

(* How many there are. *)
LEMMA Counts ==
  /\ DOMAIN Subclasses = {1, 2, 3, 5, 6, 12, 13}
  /\ Subclasses[1] = 9 /\ Subclasses[2] = 9 /\ Subclasses[3] = 3 /\ Subclasses[5] = 2
  /\ Subclasses[6] = 11 /\ Subclasses[12] = 10 /\ Subclasses[13] = 7
BY DEF Subclasses

LEMMA NamesOfCodes ==
  ASSUME NEW h \in Header
  PROVE  NamedRight(h, pci_get_dev_type_subclass_str(h))
<1>. DEFINE name == pci_get_dev_type_subclass_str(h)
            c == h.class_code
            s == h.subclass
<1>1. s \in Nat /\ c \in Nat
  BY DEF Header, Byte
<1>2. s = 128 => name = UNKNOWN
  BY DEF pci_get_dev_type_subclass_str, HasName
<1>3. ASSUME c \in DOMAIN Subclasses, s < Subclasses[c] PROVE name = << c, s >>
  <2>1. c \in Named /\ s < 12
    <3>1. c \in {1, 2, 3, 5, 6, 12, 13}
      BY <1>3, Counts
    <3>2. Subclasses[c] \in 0..11
      BY <3>1, Counts
    <3>. QED
      BY <1>1, <1>3, <3>1, <3>2 DEF Named
  <2>2. name = pci_subclass_str[off(c) + s]
    <3>1. HasName(h)
      BY <1>1, <2>1 DEF HasName
    <3>. QED
      BY <3>1 DEF pci_get_dev_type_subclass_str
  <2>. HIDE DEF name, c, s
  <2>3. CASE c = 1
    <3>1. s < 9 /\ off(c) + s = s
      BY <1>1, <1>3, <2>3, Counts, Offs
    <3>. QED
      BY <1>1, <2>2, <2>3, <3>1, NamesAt
  <2>4. CASE c = 2
    <3>1. s < 9 /\ off(c) = 9
      BY <1>3, <2>4, Counts, Offs
    <3>. QED
      BY <1>1, <2>2, <2>4, <3>1, NamesAt
  <2>5. CASE c = 3
    <3>1. s < 3 /\ off(c) = 18
      BY <1>3, <2>5, Counts, Offs
    <3>. QED
      BY <1>1, <2>2, <2>5, <3>1, NamesAt
  <2>6. CASE c = 5
    <3>1. s < 2 /\ off(c) = 21
      BY <1>3, <2>6, Counts, Offs
    <3>. QED
      BY <1>1, <2>2, <2>6, <3>1, NamesAt
  <2>7. CASE c = 6
    <3>1. s < 11 /\ off(c) = 58
      BY <1>3, <2>7, Counts, Offs
    <3>. QED
      BY <1>1, <2>2, <2>7, <3>1, NamesAt
  <2>8. CASE c = 12
    <3>1. s < 10 /\ off(c) = 41
      BY <1>3, <2>8, Counts, Offs
    <3>. QED
      BY <1>1, <2>2, <2>8, <3>1, NamesAt
  <2>9. CASE c = 13
    <3>1. s < 7 /\ off(c) = 51
      BY <1>3, <2>9, Counts, Offs
    <3>. QED
      BY <1>1, <2>2, <2>9, <3>1, NamesAt
  <2>. QED
    BY <1>3, <2>3, <2>4, <2>5, <2>6, <2>7, <2>8, <2>9, Counts
<1>. QED
  BY <1>2, <1>3 DEF NamedRight

(* A subclass that runs past the table has no name in it.                   *)
LEMMA StrayName ==
  ASSUME NEW h \in Header, BeyondNames(h), NEW name
  PROVE  NamedRight(h, name)
<1>. DEFINE c == h.class_code
            s == h.subclass
<1>1. s \in Nat /\ s # 128 /\ off(c) + s > 68
  BY DEF Header, Byte, BeyondNames, HasName
<1>. HIDE DEF c, s
<1>2. ~(c \in DOMAIN Subclasses /\ s < Subclasses[c])
  <2>1. SUFFICES ASSUME c \in {1, 2, 3, 5, 6, 12, 13}, s < Subclasses[c] PROVE FALSE
    BY Counts
  <2>2. CASE c \in {1, 2}
    BY <1>1, <2>1, <2>2, Offs, Counts
  <2>3. CASE c \in {3, 5}
    BY <1>1, <2>1, <2>3, Offs, Counts
  <2>4. CASE c \in {6, 12, 13}
    BY <1>1, <2>1, <2>4, Offs, Counts
  <2>. QED
    BY <2>1, <2>2, <2>3, <2>4
<1>. QED
  BY <1>1, <1>2 DEF NamedRight, c, s

LEMMA ClassName ==
  ASSUME NEW h \in Header, h.class_code < 20
  PROVE  pci_get_dev_type_class_str(h) = << h.class_code >>
<1>1. h.class_code \in 0..19
  BY DEF Header, Byte
<1>. QED
  BY <1>1 DEF pci_get_dev_type_class_str, pci_class_code_str

-----------------------------------------------------------------------------
(* The tree: the state of the enumeration under it behaves as Pci says.     *)
LEMMA TreeRefines ==
  ASSUME TreeNext
  PROVE  Next \/ UNCHANGED vars
BY DEF TreeNext, Enumerating, PrintStep, PrintTree, PrintDevice, PrintBeyond, TreeDone,
       TreeFinished, treeVars, Next

LEMMA NoneIn ==
  ASSUME NEW n, n = 0
  PROVE  \A k \in 1..n : FALSE
OBVIOUS

(* The parts of PciInv its proof goes by.                                   *)
Base == TypeOK /\ Tracked /\ InArray

LEMMA BaseNext == Base /\ [Next]_vars => Base'
BY NextTypeOK, NextTracked, NextInArray DEF Base

LEMMA BaseInit == Init => Base
<1>1. Init => TypeOK /\ Tracked /\ pc # "panic"
  BY InitTypeOK, InitTracked DEF Init
<1>. QED
  BY <1>1, FitsOneBus DEF Base

LEMMA EntryAt ==
  ASSUME NEW at
  PROVE  Entry(at).at = at /\ Entry(at).bist_executed = system[at].bist_capable
BY DEF Entry

(* What is stored describes its device.                                     *)
LEMMA DescribedNext ==
  ASSUME Described, [Next]_vars
  PROVE  Described'
<1>1. system' = system
  BY DEF Next, Enumerate, Finished, vars, NoHostBridge, FirstBus, EmptySlot,
         AddDevice, OutOfMemory, BusDone, NextFunction
<1>2. ASSUME NEW at PROVE Entry(at)' = Entry(at)
  BY <1>1 DEF Entry
<1>3. CASE array' = array
  BY <1>2, <1>3 DEF Described
<1>4. ASSUME NEW entry, Store(entry), entry = NoDevice \/ entry = Entry(entry.at)
      PROVE  Described'
  <2>1. SUFFICES ASSUME NEW i \in DOMAIN array'
                 PROVE  array'[i] = NoDevice \/ array'[i] = Entry(array'[i].at)
    BY <1>2 DEF Described, NoDevice
  <2>2. i \in DOMAIN array \cup {offset} /\ array'[i] = (IF i = offset THEN entry ELSE array[i])
    BY <1>4, <2>1 DEF Store
  <2>. QED
    BY <1>4, <2>2 DEF Described
<1>5. CASE AddDevice
  <2>1. Store(Entry(<<bus, slot, 0>>))
    BY <1>5 DEF AddDevice
  <2>. QED
    BY <1>4, <2>1, EntryAt
<1>6. CASE OutOfMemory
  BY <1>4, <1>6 DEF OutOfMemory
<1>. QED
  BY <1>3, <1>5, <1>6 DEF Next, Enumerate, Finished, vars, NoHostBridge, FirstBus,
     EmptySlot, BusDone, NextFunction

(* When the enumeration is over, the entries below the count are devices.   *)
LEMMA DoneArray ==
  ASSUME Base, Described, EndsSomewhere, pc = "done"
  PROVE  /\ dev_cnt \in Nat /\ DOMAIN array = 0..(dev_cnt - 1)
         /\ \A i \in DOMAIN array : /\ array[i].at \in DOMAIN system
                                    /\ array[i].bist_executed = system[array[i].at].bist_capable
<1>1. Counted /\ Listed /\ TypeOK
  BY DEF Base, Tracked
<1>2. dev_cnt \in Nat /\ DOMAIN array = 0..(dev_cnt - 1)
  BY <1>1, Numbers DEF Counted
<1>3. ASSUME NEW i \in DOMAIN array
      PROVE  /\ array[i].at \in DOMAIN system
             /\ array[i].bist_executed = system[array[i].at].bist_capable
  <2>1. array[i].at \in DOMAIN system
    BY <1>1 DEF Listed
  <2>2. array[i].at \in Location
    BY <1>1, <2>1 DEF TypeOK
  <2>3. << >> \notin Location
    BY DEF Location
  <2>4. array[i] # NoDevice
    BY <2>2, <2>3 DEF NoDevice
  <2>. QED
    BY <2>1, <2>4, EntryAt DEF Described
<1>. QED
  BY <1>2, <1>3

(* The enumeration does not move once the tree is printed, so that what     *)
(* TreePlace says of the tree depends on nothing that changes.              *)
LEMMA TreeQuiet ==
  ASSUME TreePlace, UNCHANGED <<printing, tree>>,
         printing # "not yet" => UNCHANGED vars, system' = system
  PROVE  TreePlace'
<1>1. EndsSomewhere' <=> EndsSomewhere
  BY DEF EndsSomewhere, Plugged, Last
<1>2. CASE printing = "not yet"
  <2>1. tree = << >>
    BY <1>2 DEF TreePlace
  <2>2. Len(tree') = 0
    BY <2>1
  <2>3. \A k \in 1..Len(tree') : FALSE
    BY <2>2, NoneIn
  <2>. QED
    BY <1>2, <2>3 DEF TreePlace
<1>3. CASE UNCHANGED vars
  <2>1. ASSUME NEW k PROVE SoundLine(k)' <=> SoundLine(k)
    BY <1>3 DEF SoundLine, NamedRight, vars
  <2>. QED
    BY <1>1, <1>3, <2>1 DEF TreePlace, vars
<1>. QED
  BY <1>2, <1>3

(* A line more, of the entry that is next.                                  *)
LEMMA OneLine ==
  ASSUME Base, Described, TreePlace, InTree, NEW line, tree' = Append(tree, line),
         UNCHANGED <<vars, printing>>,
         LET dev == array[Len(tree)]   h == system[dev.at] IN
           /\ line.at = dev.at /\ line.self_test = dev.bist_executed
           /\ line.class = pci_get_dev_type_class_str(h)
           /\ h \in Header => NamedRight(h, line.subclass)
  PROVE  TreePlace'
<1>. DEFINE n == Len(tree)
            at == array[n].at
            h == system[at]
<1>1. PICK L : tree \in Seq(L)
  BY DEF TreePlace
<1>2. /\ n \in Nat /\ Len(tree') = n + 1 /\ tree' \in Seq(L \cup {line})
      /\ \A k \in 1..n : tree'[k] = tree[k]
      /\ tree'[n + 1] = line
  <2>1. tree \in Seq(L \cup {line})
    BY <1>1
  <2>. QED
    BY <1>1, <2>1
<1>3. printing = "tree" /\ pc = "done" /\ n < dev_cnt
  BY DEF InTree, TreePlace
<1>4. ASSUME EndsSomewhere
      PROVE  /\ Len(tree') <= dev_cnt
             /\ \A k \in 1..Len(tree') : SoundLine(k)'
  <2>1. /\ dev_cnt \in Nat /\ DOMAIN array = 0..(dev_cnt - 1)
        /\ \A i \in DOMAIN array : /\ array[i].at \in DOMAIN system
                                   /\ array[i].bist_executed = system[array[i].at].bist_capable
    BY <1>3, <1>4, DoneArray
  <2>2. n \in DOMAIN array /\ n + 1 <= dev_cnt
    BY <1>2, <1>3, <2>1
  <2>3. h \in Header
    BY <2>1, <2>2 DEF Base, TypeOK
  <2>4. ASSUME NEW k \in Nat, k = n + 1 PROVE SoundLine(k)'
    <3>1. line.at = at /\ line.self_test = h.bist_capable
      BY <2>1, <2>2
    <3>2. NamedRight(h, line.subclass)
      BY <2>3
    <3>3. h.class_code < 20 => line.class = << h.class_code >>
      BY <2>3, ClassName
    <3>4. k - 1 = n
      BY <1>2, <2>4
    <3>5. system' = system /\ array' = array
      BY DEF vars
    <3>6. k - 1 \in DOMAIN array' /\ line.at = array'[k - 1].at
      BY <2>2, <3>1, <3>4, <3>5
    <3>7. tree'[k] = line
      BY <1>2, <2>4
    <3>8. system'[tree'[k].at] = h
      BY <3>1, <3>5, <3>7
    <3>9. /\ k - 1 \in DOMAIN array' /\ tree'[k].at = array'[k - 1].at
          /\ NamedRight(h, tree'[k].subclass)
          /\ h.class_code < 20 => tree'[k].class = << h.class_code >>
          /\ tree'[k].self_test = h.bist_capable
      BY <3>1, <3>2, <3>3, <3>6, <3>7
    <3>. HIDE DEF n, h
    <3>. QED
      BY <3>8, <3>9 DEF SoundLine, NamedRight
  <2>5. ASSUME NEW k \in 1..n PROVE SoundLine(k)'
    <3>1. SoundLine(k)
      BY <1>4 DEF TreePlace
    <3>. QED
      BY <1>2, <3>1 DEF SoundLine, NamedRight, vars
  <2>6. ASSUME NEW k \in 1..(n + 1) PROVE k \in 1..n \/ (k \in Nat /\ k = n + 1)
    BY <1>2
  <2>. QED
    BY <1>2, <2>2, <2>4, <2>5, <2>6
<1>5. EndsSomewhere' <=> EndsSomewhere
  BY DEF EndsSomewhere, Plugged, Last, vars
<1>. QED
  BY <1>2, <1>3, <1>4, <1>5 DEF TreePlace, vars

LEMMA TreePlaceNext ==
  ASSUME Base, Described, TreePlace, [TreeNext]_treeVars
  PROVE  TreePlace'
<1>1. system' = system
  <2>1. Next \/ UNCHANGED vars
    BY TreeRefines DEF treeVars
  <2>. QED
    BY <2>1 DEF Next, Enumerate, Finished, vars, NoHostBridge, FirstBus, EmptySlot,
       AddDevice, OutOfMemory, BusDone, NextFunction
<1>2. CASE Enumerating
  <2>1. pc # "done"
    BY <1>2 DEF Enumerating, Enumerate, NoHostBridge, FirstBus, EmptySlot, AddDevice,
       OutOfMemory, BusDone, NextFunction
  <2>2. printing = "not yet"
    BY <2>1 DEF TreePlace
  <2>. QED
    BY <1>1, <1>2, <2>2, TreeQuiet DEF Enumerating
<1>3. CASE PrintTree
  <2>1. /\ pc = "done" /\ printing' = "tree" /\ UNCHANGED <<vars, tree>> /\ tree = << >>
    BY <1>3 DEF PrintTree, TreePlace
  <2>2. Len(tree') = 0
    BY <2>1
  <2>3. \A k \in 1..Len(tree') : FALSE
    BY <2>2, NoneIn
  <2>4. dev_cnt' \in Nat /\ pc' = "done"
    BY <2>1, Numbers DEF Base, vars
  <2>5. \E L : tree' \in Seq(L)
    BY <2>1 DEF TreePlace
  <2>6. Len(tree') <= dev_cnt'
    <3>1. ASSUME NEW a, a = 0, NEW b \in Nat PROVE a <= b
      BY <3>1
    <3>. QED
      BY <2>2, <2>4, <3>1
  <2>7. printing' # "not yet" /\ printing' # "done"
    BY <2>1
  <2>. QED
    BY <2>1, <2>3, <2>4, <2>5, <2>6, <2>7 DEF TreePlace
<1>4. CASE PrintDevice
  <2>. DEFINE dev == array[Len(tree)]
              line == Line(dev, dev.at)
              h == system[dev.at]
  <2>1. InTree /\ tree' = Append(tree, line) /\ UNCHANGED <<vars, printing>>
    BY <1>4 DEF PrintDevice
  <2>2. /\ line.at = dev.at /\ line.self_test = dev.bist_executed
        /\ line.class = pci_get_dev_type_class_str(h)
        /\ line.subclass = pci_get_dev_type_subclass_str(h)
    BY DEF Line
  <2>3. h \in Header => NamedRight(h, line.subclass)
    BY <2>2, NamesOfCodes
  <2>. HIDE DEF line
  <2>. QED
    BY <2>1, <2>2, <2>3, OneLine
<1>5. CASE PrintBeyond
  <2>. DEFINE dev == array[Len(tree)]
              h == system[dev.at]
              line == [at |-> dev.at, subclass |-> << "stray" >>,
                       class |-> pci_get_dev_type_class_str(h),
                       self_test |-> dev.bist_executed]
  <2>1. /\ InTree /\ UNCHANGED vars /\ BeyondNames(h)
        /\ \/ printing' = "lost" /\ UNCHANGED tree
           \/ tree' = Append(tree, line) /\ UNCHANGED printing
    BY <1>5 DEF PrintBeyond
  <2>2. CASE printing' = "lost" /\ UNCHANGED tree
    <3>1. ASSUME NEW k PROVE SoundLine(k)' <=> SoundLine(k)
      BY <2>1, <2>2 DEF SoundLine, NamedRight, vars
    <3>2. EndsSomewhere' <=> EndsSomewhere
      BY <2>1 DEF EndsSomewhere, Plugged, Last, vars
    <3>. QED
      BY <2>1, <2>2, <3>1, <3>2 DEF TreePlace, InTree, vars
  <2>3. CASE tree' = Append(tree, line) /\ UNCHANGED printing
    <3>1. /\ line.at = dev.at /\ line.self_test = dev.bist_executed
          /\ line.class = pci_get_dev_type_class_str(h)
      OBVIOUS
    <3>2. h \in Header => NamedRight(h, line.subclass)
      BY <2>1, StrayName
    <3>. HIDE DEF line
    <3>. QED
      BY <2>1, <2>3, <3>1, <3>2, OneLine
  <2>. QED
    BY <2>1, <2>2, <2>3
<1>6. CASE TreeDone
  <2>1. /\ printing = "tree" /\ Len(tree) >= dev_cnt /\ printing' = "done" /\ UNCHANGED <<vars, tree>>
    BY <1>6 DEF TreeDone
  <2>2. ASSUME NEW k PROVE SoundLine(k)' <=> SoundLine(k)
    BY <2>1 DEF SoundLine, NamedRight, vars
  <2>3. EndsSomewhere' <=> EndsSomewhere
    BY <2>1 DEF EndsSomewhere, Plugged, Last, vars
  <2>4. Len(tree) \in Nat /\ dev_cnt \in Nat
    <3>1. PICK L : tree \in Seq(L)
      BY DEF TreePlace
    <3>2. Len(tree) \in Nat
      BY <3>1
    <3>. QED
      BY <3>2, Numbers DEF Base
  <2>5. EndsSomewhere => Len(tree) = dev_cnt
    BY <2>1, <2>4 DEF TreePlace
  <2>. QED
    BY <2>1, <2>2, <2>3, <2>5 DEF TreePlace, vars
<1>7. CASE UNCHANGED treeVars
  BY <1>1, <1>7, TreeQuiet DEF treeVars
<1>. QED
  BY <1>2, <1>3, <1>4, <1>5, <1>6, <1>7 DEF TreeNext, PrintStep, TreeFinished

(* The inductive invariant of enumeration and tree together.                *)
THEOREM TreeInvariant == TreeSpec => []TreeInv
<1>. DEFINE I == Base /\ Described /\ TreePlace
<1>1. TreeInit => I
  <2>. SUFFICES ASSUME TreeInit PROVE I
    OBVIOUS
  <2>1. Base
    BY BaseInit DEF TreeInit
  <2>2. DOMAIN array = {} /\ tree = << >> /\ printing = "not yet"
    BY DEF TreeInit, Init
  <2>3. Len(tree) = 0 /\ tree \in Seq({0})
    <3>1. << >> \in Seq({0}) /\ Len(<< >>) = 0
      OBVIOUS
    <3>. QED
      BY <2>2, <3>1
  <2>4. \A k \in 1..Len(tree) : FALSE
    BY <2>3, NoneIn
  <2>. QED
    BY <2>1, <2>2, <2>3, <2>4 DEF Described, TreePlace
<1>2. I /\ [TreeNext]_treeVars => I'
  <2>. SUFFICES ASSUME Base, Described, TreePlace, [TreeNext]_treeVars
                PROVE  I'
    OBVIOUS
  <2>1. [Next]_vars
    BY TreeRefines DEF treeVars
  <2>. QED
    BY <2>1, BaseNext, DescribedNext, TreePlaceNext
<1>3. I => TreeInv
  BY DEF Base, TreeInv, PciInv, Tracked
<1>. QED
  BY <1>1, <1>2, <1>3, PTL DEF TreeSpec

(* What holds of the enumeration alone holds of it with the tree: printing  *)
(* leaves the array, its count and what is plugged in as they are.          *)
THEOREM TreeKeepsTheArray ==
  TreeSpec => [](TypeOK /\ InArray /\ ListedInOrder /\ FoundAsCounted)
<1>1. TreeInv => TypeOK /\ InArray /\ ListedInOrder /\ FoundAsCounted
  BY InvListed, InvFound DEF TreeInv, PciInv
<1>. QED
  BY <1>1, TreeInvariant, PTL

(* What is printed is what was found: for every choice of devices, headers  *)
(* and buses for which the search ends, each line stands for the entry of   *)
(* its place, with its names and its self-test, and the whole tree for all  *)
(* of them.                                                                 *)
THEOREM TreeAlwaysSound == TreeSpec => []TreeSound
<1>1. TreeInv => TreeSound
  <2>. SUFFICES ASSUME TreeInv, EndsSomewhere
                PROVE  /\ \A k \in 1..Len(tree) : SoundLine(k)
                       /\ printing = "done" => {tree[k].at : k \in 1..Len(tree)}
                                                 = {array[i].at : i \in DOMAIN array}
    BY DEF TreeSound
  <2>1. \A k \in 1..Len(tree) : SoundLine(k)
    BY DEF TreeInv, TreePlace
  <2>2. ASSUME printing = "done"
        PROVE  {tree[k].at : k \in 1..Len(tree)} = {array[i].at : i \in DOMAIN array}
    <3>1. pc = "done" /\ Len(tree) = dev_cnt
      BY <2>2 DEF TreeInv, TreePlace
    <3>2. Base
      BY DEF TreeInv, PciInv, Base, Tracked
    <3>3. dev_cnt \in Nat /\ DOMAIN array = 0..(dev_cnt - 1)
      BY <3>1, <3>2, DoneArray DEF TreeInv
    <3>4. ASSUME NEW k \in 1..Len(tree)
          PROVE  k - 1 \in DOMAIN array /\ tree[k].at = array[k - 1].at
      BY <2>1 DEF SoundLine
    <3>5. ASSUME NEW i \in DOMAIN array
          PROVE  i + 1 \in 1..Len(tree) /\ tree[i + 1].at = array[i].at
      <4>1. i + 1 \in 1..Len(tree) /\ (i + 1) - 1 = i
        BY <3>1, <3>3
      <4>. QED
        BY <3>4, <4>1
    <3>6. {tree[k].at : k \in 1..Len(tree)} \subseteq {array[i].at : i \in DOMAIN array}
      BY <3>4
    <3>7. {array[i].at : i \in DOMAIN array} \subseteq {tree[k].at : k \in 1..Len(tree)}
      BY <3>5
    <3>. QED
      BY <3>6, <3>7
  <2>. QED
    BY <2>1, <2>2
<1>. QED
  BY <1>1, TreeInvariant, PTL
=============================================================================
