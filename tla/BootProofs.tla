------------------------------ MODULE BootProofs ------------------------------
(***************************************************************************)
(* Whatever list of regions the firmware's host gives, and whatever the    *)
(* CMOS registers hold: the memory map fits its table and says what its    *)
(* source says, and init_paging() stays inside the tables it allocates.    *)
(***************************************************************************)
EXTENDS Boot, SequenceTheorems, TLAPS

E820Entry == [addr : Nat, size : Nat, type : Nat]

(* What the firmware's lists are.                                          *)
LEMMA ListFacts ==
  ASSUME MapPlace, E820 \in DOMAIN files
  PROVE  /\ RegionList \in Seq([addr : Nat, size : Nat, type : Nat])
         /\ Len(RegionList) \in Nat /\ DOMAIN RegionList = 1..Len(RegionList)
         /\ Len(RegionList) + 4 <= MapEntries
         /\ \A i, j \in 1..Len(RegionList) :
              RegionList[i].addr = 0 /\ RegionList[j].addr = 0 => i = j
<1>1. RegionList \in Seq([addr : Nat, size : Nat, type : Nat])
  BY BootAssumption DEF MapPlace, RegionList
<1>2. Len(RegionList) \in Nat /\ DOMAIN RegionList = 1..Len(RegionList)
  BY <1>1
<1>3. /\ Len(RegionList) + 4 <= MapEntries
      /\ \A i, j \in DOMAIN RegionList :
           RegionList[i].addr = 0 /\ RegionList[j].addr = 0 => i = j
  BY BootAssumption DEF MapPlace, RegionList
<1> QED
  BY <1>1, <1>2, <1>3

LEMMA TableSize == MapEntries \in Nat /\ 3 <= MapEntries /\ MapEntries <= 128
BY BootAssumption

(* What is appended is found, and nothing else that was not there.         *)
LEMMA Appended ==
  ASSUME NEW S, NEW s \in Seq(S), NEW t \in Seq(S)
  PROVE  /\ s \o t \in Seq(S) /\ Len(s \o t) = Len(s) + Len(t) /\ Len(s) \in Nat /\ Len(t) \in Nat
         /\ ToSet(s \o t) = ToSet(s) \cup ToSet(t)
<1>1. /\ s \o t \in Seq(S) /\ Len(s \o t) = Len(s) + Len(t) /\ Len(s) \in Nat /\ Len(t) \in Nat
      /\ DOMAIN s = 1..Len(s) /\ DOMAIN t = 1..Len(t) /\ DOMAIN (s \o t) = 1..(Len(s) + Len(t))
      /\ \A i \in 1..Len(s) : (s \o t)[i] = s[i]
      /\ \A i \in 1..Len(t) : (s \o t)[Len(s) + i] = t[i]
  OBVIOUS
<1>2. ASSUME NEW x \in ToSet(s \o t) PROVE x \in ToSet(s) \cup ToSet(t)
  <2>1. PICK i \in 1..(Len(s) + Len(t)) : x = (s \o t)[i]
    BY <1>1 DEF ToSet
  <2>2. CASE i \in 1..Len(s)
    BY <1>1, <2>1, <2>2 DEF ToSet
  <2>3. CASE i - Len(s) \in 1..Len(t)
    <3>1. x = t[i - Len(s)]
      <4>1. i = Len(s) + (i - Len(s))
        BY <1>1
      <4> QED
        BY <1>1, <2>1, <2>3, <4>1
    <3> QED
      BY <1>1, <2>3, <3>1 DEF ToSet
  <2>4. i \in 1..Len(s) \/ i - Len(s) \in 1..Len(t)
    BY <1>1
  <2> QED
    BY <2>2, <2>3, <2>4
<1>3. ToSet(s) \subseteq ToSet(s \o t)
  BY <1>1 DEF ToSet
<1>4. ASSUME NEW x \in ToSet(t) PROVE x \in ToSet(s \o t)
  <2>1. PICK i \in 1..Len(t) : x = t[i]
    BY <1>1 DEF ToSet
  <2>2. Len(s) + i \in 1..(Len(s) + Len(t)) /\ x = (s \o t)[Len(s) + i]
    BY <1>1, <2>1
  <2> QED
    BY <1>1, <2>2 DEF ToSet
<1> QED
  BY <1>1, <1>2, <1>3, <1>4

-----------------------------------------------------------------------------
(* The entries of one region.                                              *)

LEMMA EntriesOfOne ==
  ASSUME NEW e \in [addr : Nat, size : Nat, type : Nat]
  PROVE  LET new == EntriesFor(e) IN
         /\ new \in Seq(E820Entry)
         /\ Len(new) <= IF e.addr = 0 THEN 5 ELSE 1
         /\ \A x \in ToSet(new) : x.size > 0
         /\ ~Skipped(e) =>
              Region(IF e.addr = 0 THEN SIXTEEN_MB ELSE e.addr, e.size, RAM) \in ToSet(new)
<1>1. CASE Skipped(e)
  <2>1. EntriesFor(e) = << >>
    BY <1>1 DEF EntriesFor
  <2> QED
    BY <1>1, <2>1 DEF ToSet
<1>2. CASE ~Skipped(e) /\ e.addr # 0
  <2>1. EntriesFor(e) = << e >>
    BY <1>2 DEF EntriesFor
  <2>2. e.size > 0 /\ e.type = RAM
    BY <1>2 DEF Skipped
  <2>3. e = Region(e.addr, e.size, RAM)
    BY <2>2 DEF Region
  <2>4. << e >> \in Seq(E820Entry) /\ Len(<< e >>) = 1
    BY DEF E820Entry
  <2>5. ToSet(<< e >>) = {e}
    BY DEF ToSet
  <2> QED
    BY <1>2, <2>1, <2>2, <2>3, <2>4, <2>5
<1>3. CASE ~Skipped(e) /\ e.addr = 0
  <2>1. EntriesFor(e) = LowEntries(e)
    BY <1>3 DEF EntriesFor
  <2>2. e.size > 0 /\ e.type = RAM
    BY <1>3 DEF Skipped
  <2> DEFINE a == Region(0, LOW_RAM_SIZE, RAM)
             b == Region(ISA_HOLE, ISA_HOLE_SIZE, MMIO)
             c == Region(ONE_MB, LOW_EXTENDED, RAM)
             d == Region(HOLE_15MB, HOLE_15MB_SIZE, RESERVED)
             f == Region(SIXTEEN_MB, e.size, e.type)
  <2>3. \A x \in {a, b, c, d, f} : x \in E820Entry /\ x.size > 0
    BY <2>2 DEF Region, E820Entry, LOW_RAM_SIZE, ISA_HOLE, ISA_HOLE_SIZE, ONE_MB, LOW_EXTENDED,
       HOLE_15MB, HOLE_15MB_SIZE, SIXTEEN_MB, RAM, MMIO, RESERVED
  <2>4. f = Region(SIXTEEN_MB, e.size, RAM)
    BY <2>2
  <2>5. LowEntries(e) = << a, b, c, d, f >>
    BY DEF LowEntries
  <2> HIDE DEF a, b, c, d, f
  <2>6. << a, b, c, d, f >> \in Seq(E820Entry) /\ Len(<< a, b, c, d, f >>) = 5
    BY <2>3
  <2>7. ToSet(<< a, b, c, d, f >>) = {a, b, c, d, f}
    <3>1. DOMAIN << a, b, c, d, f >> = {1, 2, 3, 4, 5}
      OBVIOUS
    <3> QED
      BY <3>1 DEF ToSet
  <2> QED
    BY <1>3, <2>1, <2>3, <2>4, <2>5, <2>6, <2>7
<1> QED
  BY <1>1, <1>2, <1>3

(* What the CMOS registers say takes one to three entries.                 *)
LEMMA EntriesOfCmos ==
  ASSUME NEW c \in CmosSizes
  PROVE  LET new == cmos_read_memory_info(c[1], c[2]) IN
         /\ new \in Seq(E820Entry) /\ << >> \o new = new
         /\ Len(new) \in Nat /\ 1 <= Len(new) /\ Len(new) <= 3
<1> DEFINE total == c[2] * 16384 + c[1] * 64 + 16384
           rest  == total - ISA_HOLE
<1>1. c[1] \in 0..255 /\ c[2] \in 0..255
  BY BootAssumption
<1>2. total \in Nat /\ rest \in Int /\ rest < HOLE_15MB
  <2>1. ASSUME NEW low \in 0..255, NEW high \in 0..255
        PROVE  /\ high * 16384 + low * 64 + 16384 \in Nat
               /\ high * 16384 + low * 64 + 16384 <= 4210624
    OBVIOUS
  <2>2. total \in Nat /\ total <= 4210624
    <3>1. PICK low \in 0..255, high \in 0..255 : low = c[1] /\ high = c[2]
      BY <1>1
    <3>2. total = high * 16384 + low * 64 + 16384
      BY <3>1 DEF total
    <3> QED
      BY <2>1, <3>2
  <2> HIDE DEF total
  <2> QED
    BY <2>2 DEF ISA_HOLE, HOLE_15MB
<1> HIDE DEF total, rest
<1>3. CASE total < ISA_HOLE
  <2>1. cmos_read_memory_info(c[1], c[2]) = << Region(0, total, RAM) >>
    BY <1>3 DEF cmos_read_memory_info, total
  <2>2. Region(0, total, RAM) \in E820Entry
    BY <1>2 DEF Region, E820Entry, RAM
  <2> QED
    BY <2>1, <2>2
<1>4. CASE ~(total < ISA_HOLE)
  <2>0. rest \in Nat
    BY <1>2, <1>4 DEF rest, ISA_HOLE
  <2> DEFINE a == Region(0, 65535, RAM)
             b == Region(ISA_HOLE, ISA_HOLE_SIZE, MMIO)
             d == Region(ONE_MB, rest, RAM)
  <2>1. cmos_read_memory_info(c[1], c[2]) = << a, b >> \o << d >>
    BY <1>2, <1>4 DEF cmos_read_memory_info, total, rest
  <2>2. \A x \in {a, b, d} : x \in E820Entry
    BY <1>2, <2>0 DEF Region, E820Entry, ISA_HOLE, ISA_HOLE_SIZE, ONE_MB, RAM, MMIO
  <2> HIDE DEF a, b, d
  <2>3. << a, b >> \in Seq(E820Entry) /\ << d >> \in Seq(E820Entry)
        /\ Len(<< a, b >>) = 2 /\ Len(<< d >>) = 1
    BY <2>2
  <2>4. << a, b >> \o << d >> \in Seq(E820Entry) /\ Len(<< a, b >> \o << d >>) = 3
    BY <2>3, Appended
  <2> QED
    BY <2>1, <2>4, ConcatEmptySeq
<1> QED
  BY <1>3, <1>4

-----------------------------------------------------------------------------
(* The heap: where its next block goes, and what may happen to it.         *)

(* A block takes what is asked for, a header, and at most another 32 bytes. *)
LEMMA Block ==
  ASSUME NEW n \in Nat
  PROVE  AlignedSize(n) \in Nat /\ n + 32 < AlignedSize(n) /\ AlignedSize(n) <= n + 64
BY DEF AlignedSize, HDR

LEMMA HeapNumbers ==
  /\ HEAP_START = 33280 /\ AfterIdt = 37440 /\ AfterDevices = 39264
  /\ AlignedSize(SIZEOF_fwcfg_file) = 128 /\ AlignedSize(SIZEOF_e820_e) = 64
  /\ AlignedSize(SIZEOF_int_desc_table) = 4160 /\ DeviceBlocks = 1824
<1>1. /\ AlignedSize(SIZEOF_fwcfg_file) = 128 /\ AlignedSize(SIZEOF_e820_e) = 64
      /\ AlignedSize(SIZEOF_int_desc_table) = 4160 /\ AlignedSize(SIZEOF_device) = 64
      /\ AlignedSize(6) = 64 /\ AlignedSize(1032) = 1088 /\ AlignedSize(56) = 96
      /\ AlignedSize(4) = 64 /\ AlignedSize(12) = 64 /\ AlignedSize(0) = 64
  BY DEF AlignedSize, HDR, SIZEOF_fwcfg_file, SIZEOF_e820_e, SIZEOF_int_desc_table, SIZEOF_device
<1>2. /\ SIZEOF_data["uart"] = 6 /\ SIZEOF_data["memory"] = 1032 /\ SIZEOF_data["pic"] = 56
      /\ SIZEOF_data["cmos"] = 4 /\ SIZEOF_data["keyboard"] = 12 /\ SIZEOF_data["pit"] = 0
  BY DEF SIZEOF_data, SIZEOF_memory_map, SIZEOF_serial_uart_device,
         SIZEOF_pic_full_configuration, SIZEOF_cmos_data, SIZEOF_ps2_8042_status
<1>3. HEAP_START = 33280
  BY DEF HEAP_START, HDR
<1>4. DeviceBlocks = 1824
  BY <1>1, <1>2 DEF DeviceBlocks, NewDevice
<1> QED
  BY <1>1, <1>3, <1>4 DEF AfterIdt, AfterDevices

LEMMA TableFacts ==
  ASSUME size.mb \in Nat
  PROVE  /\ Pages \in Nat /\ Pages * 4 <= size.mb /\ PdptCount \in Nat /\ Pml4Count \in Nat
         /\ Pages < 1024 => PdptCount = 1 /\ Pml4Count = 1
         /\ TableBlock(Pages) \in Nat /\ TableBlock(PdptCount) \in Nat /\ TableBlock(Pml4Count) \in Nat
         /\ TableBlock(Pages) <= 9 * Pages + 64 /\ TableBlock(1) = 64
<1>1. Pages \in Nat /\ Pages * 4 <= size.mb
  BY DEF Pages, PagesToMap
<1>2. \A n \in Nat : TableCount(n) \in Nat /\ (n < 1024 => TableCount(n) = 1)
  BY DEF TableCount
<1>3. PdptCount \in Nat /\ (Pages < 1024 => PdptCount = 1)
  BY <1>1, <1>2 DEF PdptCount
<1>4. Pml4Count \in Nat /\ (Pages < 1024 => Pml4Count = 1)
  <2>1. Pages \div 1024 \in Nat /\ (Pages < 1024 => Pages \div 1024 < 1024)
    BY <1>1
  <2> QED
    BY <1>2, <2>1 DEF Pml4Count
<1>5. \A n \in Nat : TableBlock(n) \in Nat /\ TableBlock(n) <= 9 * n + 64
  <2> SUFFICES ASSUME NEW n \in Nat PROVE TableBlock(n) \in Nat /\ TableBlock(n) <= 9 * n + 64
    OBVIOUS
  <2>1. n * SIZEOF_page_table_entry \in Nat /\ n * SIZEOF_page_table_entry = 9 * n
    BY DEF SIZEOF_page_table_entry
  <2> QED
    BY <2>1, Block DEF TableBlock
<1>6. TableBlock(1) = 64
  BY DEF TableBlock, AlignedSize, HDR, SIZEOF_page_table_entry
<1> QED
  BY <1>1, <1>3, <1>4, <1>5, <1>6

LEMMA GrownFacts ==
  ASSUME NEW h \in Heaps, NEW bytes \in Nat
  PROVE  /\ Grown(h, bytes) \in Heaps /\ Grown(h, bytes).top = h.top + bytes
         /\ Grown(h, bytes).hole = h.hole /\ Grown(h, bytes).ended = h.ended
         /\ Grown(h, bytes).low = h.low
BY DEF Grown, Heaps

LEMMA FirstHeapFacts ==
  FirstHeap \in Heaps /\ ~FirstHeap.ended /\ FirstHeap.low = BootLow /\ FirstHeap.top = HEAP_START
  /\ FirstHeap.hole = 0
<1>1. BootLow \in [LOW -> Nat]
  <2>1. \A n \in LOW : LoopEntry(n) \in Nat
    BY DEF LoopEntry, LOW, PAGE
  <2> QED
    BY <2>1 DEF BootLow
<1>2. HEAP_START \in Nat
  BY HeapNumbers
<1> QED
  BY <1>1, <1>2 DEF FirstHeap, Heaps

LEMMA FreedFacts ==
  ASSUME NEW h \in Heaps
  PROVE  LastFreed(h) \in Heaps /\ LastFreed(h).ended
<1> DEFINE cleared == [n \in LOW |-> 0]
           h1      == [h EXCEPT !.ended = TRUE]
<1>1. cleared \in [LOW -> Nat] /\ h1 \in Heaps /\ h1.ended
  BY DEF Heaps
<1>2. LastFreed(h) = [h1 EXCEPT !.low = cleared]
  BY DEF LastFreed
<1> HIDE DEF cleared, h1
<1> QED
  BY <1>1, <1>2 DEF Heaps

LEMMA FitFacts ==
  ASSUME NEW h \in Heaps, NEW bytes \in Nat
  PROVE  /\ FirstFit(h, bytes) \in Heaps
         /\ FirstFit(h, bytes).ended = h.ended /\ FirstFit(h, bytes).low = h.low
         /\ IF bytes <= h.hole
              THEN FirstFit(h, bytes).hole = 0 /\ FirstFit(h, bytes).top = h.top
              ELSE FirstFit(h, bytes).hole = h.hole /\ FirstFit(h, bytes).top = h.top + bytes
<1>1. CASE bytes <= h.hole
  <2>1. FirstFit(h, bytes) = [h EXCEPT !.hole = 0]
    BY <1>1 DEF FirstFit, InHole
  <2> QED
    BY <1>1, <2>1 DEF Heaps
<1>2. CASE ~(bytes <= h.hole)
  <2>1. FirstFit(h, bytes) = Grown(h, bytes)
    BY <1>2 DEF FirstFit, InHole
  <2> QED
    BY <1>2, <2>1, GrownFacts
<1> QED
  BY <1>1, <1>2

LEMMA FilledFacts ==
  ASSUME NEW h \in Heaps
  PROVE  HoleFilled(h) \in Heaps /\ HoleFilled(h).ended
<1> DEFINE l  == [h.low EXCEPT ![0] = AfterDevices + h.hole]
           h1 == [h EXCEPT !.ended = TRUE]
<1>1. AfterDevices + h.hole \in Nat
  BY HeapNumbers DEF Heaps
<1>2. l \in [LOW -> Nat] /\ h1 \in Heaps /\ h1.ended
  BY <1>1 DEF Heaps
<1>3. HoleFilled(h) = [h1 EXCEPT !.low = l]
  BY DEF HoleFilled
<1> HIDE DEF l, h1
<1> QED
  BY <1>2, <1>3 DEF Heaps

(* the entries of the map in a list that was cut                           *)
LEMMA OverwrittenFacts ==
  ASSUME heap \in Heaps, heap.ended, NEW new \in Seq(E820Entry), 1 <= Len(new),
         AddEntries(new)
  PROVE  /\ heap' \in Heaps /\ heap'.ended
         /\ map' \in Seq(E820Entry) /\ Len(map') = Len(new)
<1>0. DOMAIN new = 1..Len(new) /\ Len(new) \in Nat
  OBVIOUS
<1>1. DOMAIN new = 1..Len(new) /\ Len(new) \in Nat /\ Len(new) \in 1..Len(new)
  BY <1>0
<1>2. PICK last \in E820Entry : last = new[Len(new)]
  BY <1>1, ElementOfSeq
<1>3. PICK a \in Nat, b \in Nat, c \in Nat : a = last.addr /\ b = last.size /\ c = last.type
  BY DEF E820Entry
<1> DEFINE l == [n \in LOW |-> IF n = 0 THEN a ELSE IF n = 1 THEN b
                               ELSE IF n = 2 THEN c ELSE heap.low[n]]
<1>4. map' = [i \in 1..Len(new) |-> last] /\ heap' = [heap EXCEPT !.low = l]
  BY <1>1, <1>2, <1>3 DEF AddEntries
<1>5. l \in [LOW -> Nat]
  BY DEF Heaps
<1> HIDE DEF l
<1>6. heap' \in Heaps /\ heap'.ended
  BY <1>4, <1>5 DEF Heaps
<1>7. map' \in Seq(E820Entry) /\ Len(map') = Len(new)
  BY <1>1, <1>4
<1> QED
  BY <1>6, <1>7

-----------------------------------------------------------------------------
(* The steps. Most of them leave the map and what is built from it alone.   *)

LoopSteps == {"e820", "cmos_memory", "size", "tables", "pages"}

LEMMA InitInv == Init => MapInv
<1> SUFFICES ASSUME Init PROVE MapInv
  OBVIOUS
<1>1. status \in [Devices -> Status] /\ status["memory"] = "unknown"
  BY DEF Init, Devices, Status
<1>2. map = << >> /\ region = 1 /\ files \in FwCfgs /\ pc = "reset"
  BY DEF Init
<1>a. heap \in Heaps /\ ~heap.ended /\ heap.low = BootLow
  BY FirstHeapFacts DEF Init
<1>3. MapPlace
  BY <1>1, <1>2, <1>a DEF MapPlace
<1>4. SizeBounded
  BY <1>2 DEF Init, SizeBounded
<1>5. MapSound /\ TablesInBounds
  BY <1>1, <1>2, TableSize DEF MapSound, TablesInBounds
<1> QED
  BY <1>3, <1>4, <1>5 DEF MapInv

(* The steps in which the list may be cut, or grows, are few.              *)
Uncut == BeforeMap \cup {"e820"}

HeapRuns ==
  /\ heap' \in Heaps /\ (heap.ended => heap'.ended)
  /\ pc' \in Uncut => ~heap'.ended
  /\ heap'.ended \/ heap'.low = heap.low

LEMMA HeapLeftAlone ==
  ASSUME CacheAsRam \/ MoveStack \/ DisableMtrr \/ SwitchToProtected \/ SetupPaging \/
         MemorySize \/ MapPage \/ SetPml4 \/ InitPic \/ InitKeyboard \/ CmosMonth \/
         CmosAgain \/ CmosGivesUp \/ InitPit \/ EnableInterrupts \/ PitHandler \/
         DefaultHandler \/ CmosPoll \/ TakeInterrupt \/ TakeSpurious \/ PageFault \/
         LineRises \/ ClockUpdates
  PROVE  heap' = heap /\ (pc' \in Uncut => pc \in Uncut)
<1>1. CASE CacheAsRam
  BY <1>1 DEF CacheAsRam, Uncut, BeforeMap
<1>2. CASE MoveStack
  BY <1>2 DEF MoveStack, Uncut, BeforeMap
<1>3. CASE DisableMtrr
  BY <1>3 DEF DisableMtrr, Uncut, BeforeMap
<1>4. CASE SwitchToProtected
  BY <1>4 DEF SwitchToProtected, Uncut, BeforeMap
<1>5. CASE SetupPaging
  BY <1>5 DEF SetupPaging, Uncut, BeforeMap
<1>6. CASE MemorySize
  BY <1>6 DEF MemorySize, Uncut, BeforeMap
<1>7. CASE MapPage
  BY <1>7 DEF MapPage, Uncut, BeforeMap
<1>8. CASE SetPml4
  BY <1>8 DEF SetPml4, Uncut, BeforeMap
<1>9. CASE InitPic
  BY <1>9 DEF InitPic, Uncut, BeforeMap
<1>10. CASE InitKeyboard
  BY <1>10 DEF InitKeyboard, Panic, Uncut, BeforeMap
<1>11. CASE CmosMonth
  BY <1>11 DEF CmosMonth, NextAttempt, Uncut, BeforeMap
<1>12. CASE CmosAgain
  BY <1>12 DEF CmosAgain, NextAttempt, Uncut, BeforeMap
<1>13. CASE CmosGivesUp
  BY <1>13 DEF CmosGivesUp, Uncut, BeforeMap
<1>14. CASE InitPit
  BY <1>14 DEF InitPit, Uncut, BeforeMap
<1>15. CASE EnableInterrupts
  BY <1>15 DEF EnableInterrupts, Uncut, BeforeMap
<1>16. CASE PitHandler
  BY <1>16 DEF PitHandler, Uncut, BeforeMap
<1>17. CASE DefaultHandler
  BY <1>17 DEF DefaultHandler, Panic, Uncut, BeforeMap
<1>18. CASE CmosPoll
  BY <1>18 DEF CmosPoll, Uncut, BeforeMap
<1>19. CASE TakeInterrupt
  BY <1>19 DEF TakeInterrupt, Enter, Handlers, Uncut, BeforeMap
<1>20. CASE TakeSpurious
  BY <1>20 DEF TakeSpurious, Enter, Handlers, Uncut, BeforeMap
<1>21. CASE PageFault
  BY <1>21 DEF PageFault, Uncut, BeforeMap
<1>22. CASE LineRises
  BY <1>22 DEF LineRises, Uncut, BeforeMap
<1>23. CASE ClockUpdates
  BY <1>23 DEF ClockUpdates, Uncut, BeforeMap
<1> QED
  BY <1>1, <1>2, <1>3, <1>4, <1>5, <1>6, <1>7, <1>8, <1>9, <1>10, <1>11, <1>12, <1>13,
     <1>14, <1>15, <1>16, <1>17, <1>18, <1>19, <1>20, <1>21, <1>22, <1>23

LEMMA HeapStep ==
  ASSUME MapInv, [Next]_vars
  PROVE  HeapRuns
<1>1. heap \in Heaps /\ (pc \in Uncut => ~heap.ended)
  BY DEF MapInv, MapPlace, Uncut
<1>2. ASSUME NEW bytes \in Nat, heap' = Grown(heap, bytes), pc' \in Uncut => pc \in Uncut
      PROVE  HeapRuns
  BY <1>1, <1>2, GrownFacts DEF HeapRuns
<1>3. ASSUME heap' \in Heaps, heap'.ended, pc' \notin Uncut
      PROVE  HeapRuns
  BY <1>3 DEF HeapRuns
<1>4. ASSUME heap' = heap, pc' \in Uncut => pc \in Uncut
      PROVE  HeapRuns
  BY <1>1, <1>4 DEF HeapRuns
<1>5. CASE CacheAsRam \/ MoveStack \/ DisableMtrr \/ SwitchToProtected \/ SetupPaging \/
           MemorySize \/ MapPage \/ SetPml4 \/ InitPic \/ InitKeyboard \/ CmosMonth \/
           CmosAgain \/ CmosGivesUp \/ InitPit \/ EnableInterrupts \/ PitHandler \/
           DefaultHandler \/ CmosPoll \/ TakeInterrupt \/ TakeSpurious \/ PageFault \/
           LineRises \/ ClockUpdates
  BY <1>4, <1>5, HeapLeftAlone
<1>6. CASE UNCHANGED vars
  BY <1>4, <1>6 DEF vars
<1>7. CASE InitIdt
  <2>1. pc \in Uncut /\ (heap' = Grown(heap, 4160) \/ heap' = heap)
    BY <1>7, HeapNumbers DEF InitIdt, Uncut, BeforeMap
  <2> QED
    BY <1>2, <1>4, <2>1
<1>8. CASE NewDevices
  <2>1. pc \in Uncut /\ (heap' = Grown(heap, 1824) \/ heap' = heap)
    BY <1>8, HeapNumbers DEF NewDevices, Uncut, BeforeMap
  <2> QED
    BY <1>2, <1>4, <2>1
<1>9. CASE FindE820
  <2>1. pc \in Uncut /\ (heap' = Grown(heap, 128) \/ heap' = heap)
    BY <1>9, HeapNumbers DEF FindE820, FileBlock, Uncut, BeforeMap
  <2> QED
    BY <1>2, <1>4, <2>1
<1>10. CASE ReadRegion
  <2>1. pc = "e820" /\ pc \in Uncut /\ AddEntries(EntriesFor(RegionList[region]))
        /\ region <= Len(RegionList)
    BY <1>10 DEF ReadRegion, RegionList, NextRegion, Uncut
  <2>2. E820 \in DOMAIN files /\ MapPlace /\ region \in 1..(Len(RegionList) + 1)
    BY <2>1 DEF MapInv, MapPlace, ListRead
  <2>3. region \in 1..Len(RegionList) /\ RegionList \in Seq([addr : Nat, size : Nat, type : Nat])
    BY <2>1, <2>2, ListFacts
  <2>4. RegionList[region] \in [addr : Nat, size : Nat, type : Nat]
    BY <2>3, ElementOfSeq
  <2>5. EntriesFor(RegionList[region]) \in Seq(E820Entry)
    BY <2>4, EntriesOfOne
  <2>6. Len(EntriesFor(RegionList[region])) * EntryBlock \in Nat
    BY <2>5, HeapNumbers DEF EntryBlock
  <2>7. heap' = Grown(heap, Len(EntriesFor(RegionList[region])) * EntryBlock)
    BY <1>1, <2>1 DEF AddEntries
  <2> QED
    BY <1>2, <2>1, <2>6, <2>7
<1>11. CASE MapRead
  <2>1. pc' \notin Uncut /\ (heap' = [heap EXCEPT !.hole = 128] \/ heap' = LastFreed(heap))
    BY <1>11, HeapNumbers DEF MapRead, FileBlock, Uncut, BeforeMap
  <2>2. CASE heap' = [heap EXCEPT !.hole = 128]
    BY <1>1, <2>1, <2>2 DEF HeapRuns, Heaps
  <2>3. CASE heap' = LastFreed(heap)
    BY <1>1, <1>3, <2>1, <2>3, FreedFacts
  <2> QED
    BY <2>1, <2>2, <2>3
<1>12. CASE MapFromCmos
  <2>1. PICK c \in CmosSizes : AddEntries(cmos_read_memory_info(c[1], c[2]))
    BY <1>12 DEF MapFromCmos
  <2>2. pc' \notin Uncut
    BY <1>12 DEF MapFromCmos, Uncut, BeforeMap
  <2> DEFINE new == cmos_read_memory_info(c[1], c[2])
  <2>3. new \in Seq(E820Entry) /\ Len(new) \in Nat /\ 1 <= Len(new) /\ Len(new) <= 3
    BY EntriesOfCmos
  <2>4. AddEntries(new)
    BY <2>1
  <2> HIDE DEF new
  <2>5. CASE heap.ended
    BY <1>1, <1>3, <2>2, <2>3, <2>4, <2>5, OverwrittenFacts
  <2>6. CASE ~heap.ended
    <3>1. heap' = Grown(heap, Len(new) * EntryBlock)
      BY <2>4, <2>6 DEF AddEntries
    <3>2. Len(new) * EntryBlock \in Nat
      BY <2>3, HeapNumbers DEF EntryBlock
    <3> QED
      BY <1>2, <2>2, <3>1, <3>2
  <2> QED
    BY <2>5, <2>6
<1>13. CASE AllocateTables
  <2>1. pc' \notin Uncut
    BY <1>13 DEF AllocateTables, Panic, Uncut, BeforeMap
  <2>2. \/ heap' = FirstFit(WithPdpt(heap), TableBlock(Pml4Count))
        \/ heap' = HoleFilled(heap) \/ heap' = heap
    BY <1>13 DEF AllocateTables
  <2>3. CASE heap' = FirstFit(WithPdpt(heap), TableBlock(Pml4Count))
    <3>1. /\ TableBlock(Pages) \in Nat /\ TableBlock(PdptCount) \in Nat
          /\ TableBlock(Pml4Count) \in Nat
      BY TableFacts DEF MapInv, SizeBounded
    <3>2. WithPages(heap) \in Heaps /\ WithPages(heap).ended = heap.ended
          /\ WithPages(heap).low = heap.low
      BY <1>1, <3>1, FitFacts DEF WithPages
    <3>3. WithPdpt(heap) \in Heaps /\ WithPdpt(heap).ended = heap.ended
          /\ WithPdpt(heap).low = heap.low
      BY <3>1, <3>2, FitFacts DEF WithPdpt
    <3>4. heap' \in Heaps /\ heap'.ended = heap.ended /\ heap'.low = heap.low
      BY <2>3, <3>1, <3>3, FitFacts
    <3> QED
      BY <2>1, <3>4 DEF HeapRuns
  <2>4. CASE heap' = HoleFilled(heap)
    BY <1>1, <1>3, <2>1, <2>4, FilledFacts
  <2> QED
    BY <1>4, <2>1, <2>2, <2>3, <2>4
<1>14. CASE ProbeBuses
  <2>1. pc' \notin Uncut /\ (heap' = heap \/ heap' = LastFreed(heap))
    BY <1>14 DEF ProbeBuses, Panic, Uncut, BeforeMap
  <2> QED
    BY <1>1, <1>3, <1>4, <2>1, FreedFacts
<1> QED
  BY <1>5, <1>6, <1>7, <1>8, <1>9, <1>10, <1>11, <1>12, <1>13, <1>14
     DEF Next, Run, Startup, MemoryInit, DeviceInit

LEMMA MapUntouched ==
  ASSUME MapInv, HeapRuns, UNCHANGED memory, status' \in [Devices -> Status],
         status'["memory"] = status["memory"],
         pc' \in BeforeMap => pc \in BeforeMap, pc' \notin LoopSteps
  PROVE  MapInv'
<1>1. UNCHANGED <<files, region, map, size, tables>>
  BY DEF memory
<1>2. MapPlace'
  BY <1>1 DEF MapInv, MapPlace, LoopSteps, HeapRuns, Uncut
<1>3. SizeBounded'
  BY <1>1 DEF MapInv, SizeBounded, LoopSteps, BeforeMap
<1>4. MapSound'
  BY <1>1 DEF MapInv, MapSound, E820, HeapRuns
<1>5. TablesInBounds'
  BY DEF TablesInBounds, LoopSteps
<1> QED
  BY <1>2, <1>3, <1>4, <1>5 DEF MapInv

(* A step from before the map to before the map, to a panic or to a place   *)
(* after it that leaves memory and the devices' states alone.               *)
LEMMA StatusUntouched ==
  ASSUME MapInv, HeapRuns, UNCHANGED <<memory, status>>,
         pc' \in BeforeMap => pc \in BeforeMap, pc' \notin LoopSteps
  PROVE  MapInv'
BY MapUntouched DEF MapInv, MapPlace

LEMMA OtherDevice ==
  ASSUME MapInv, HeapRuns, UNCHANGED memory, NEW d \in Devices \ {"memory"}, NEW r \in Status,
         Initialise(d, r),
         pc' \in BeforeMap => pc \in BeforeMap, pc' \notin LoopSteps
  PROVE  MapInv'
<1>1. status \in [Devices -> Status] /\ status' = [status EXCEPT ![d] = r]
  BY DEF MapInv, MapPlace, Initialise
<1>2. status' \in [Devices -> Status] /\ status'["memory"] = status["memory"]
  BY <1>1 DEF Devices
<1> QED
  BY <1>2, MapUntouched

LEMMA StartupInv == MapInv /\ HeapRuns /\ Startup => MapInv'
<1> SUFFICES ASSUME MapInv, HeapRuns, Startup PROVE MapInv'
  OBVIOUS
<1>1. UNCHANGED <<memory, status>> /\ pc \in BeforeMap /\ pc' \notin LoopSteps
  <2>1. CASE CacheAsRam
    BY <2>1 DEF CacheAsRam, BeforeMap, LoopSteps
  <2>2. CASE MoveStack
    BY <2>2 DEF MoveStack, BeforeMap, LoopSteps
  <2>3. CASE DisableMtrr
    BY <2>3 DEF DisableMtrr, BeforeMap, LoopSteps
  <2>4. CASE SwitchToProtected
    BY <2>4 DEF SwitchToProtected, BeforeMap, LoopSteps
  <2>5. CASE SetupPaging
    BY <2>5 DEF SetupPaging, BeforeMap, LoopSteps
  <2> QED
    BY <2>1, <2>2, <2>3, <2>4, <2>5 DEF Startup
<1> QED
  BY <1>1, StatusUntouched

LEMMA InitIdtInv == MapInv /\ HeapRuns /\ InitIdt => MapInv'
<1> SUFFICES ASSUME MapInv, HeapRuns, InitIdt PROVE MapInv'
  OBVIOUS
<1>1. UNCHANGED <<memory, status>> /\ pc \in BeforeMap /\ pc' \notin LoopSteps
  BY DEF InitIdt, Panic, BeforeMap, LoopSteps
<1> QED
  BY <1>1, StatusUntouched

LEMMA NewDevicesInv == MapInv /\ HeapRuns /\ NewDevices => MapInv'
<1> SUFFICES ASSUME MapInv, HeapRuns, NewDevices PROVE MapInv'
  OBVIOUS
<1>1. /\ UNCHANGED memory /\ pc \in BeforeMap /\ pc' \notin LoopSteps
      /\ status' = [status EXCEPT !["uart"] = "initialised"] \/ UNCHANGED status
  BY DEF NewDevices, Panic, BeforeMap, LoopSteps
<1>2. CASE status' = [status EXCEPT !["uart"] = "initialised"]
  <2>1. "uart" \in Devices \ {"memory"} /\ "initialised" \in Status
    BY DEF Devices, Status
  <2> QED
    BY <1>1, <1>2, <2>1, OtherDevice DEF Initialise
<1>3. CASE UNCHANGED status
  BY <1>1, <1>3, StatusUntouched
<1> QED
  BY <1>1, <1>2, <1>3

LEMMA FindE820Inv == MapInv /\ HeapRuns /\ FindE820 => MapInv'
<1> SUFFICES ASSUME MapInv, HeapRuns, FindE820 PROVE MapInv'
  OBVIOUS
<1>1. /\ UNCHANGED <<files, region, map, size, tables, status>> /\ pc = "fwcfg"
      /\ pc' \in {"cmos_memory", "e820"} /\ (pc' = "e820" => E820 \in DOMAIN files)
  BY DEF FindE820, memory
<1>2. map = << >> /\ region = 1 /\ status["memory"] = "unknown"
  BY <1>1 DEF MapInv, MapPlace, BeforeMap
<1>3. E820' = E820 /\ RegionList' = RegionList
  BY <1>1 DEF E820, RegionList
<1>4. MapPlace'
  <2>1. pc' = "e820" => E820' \in DOMAIN files' /\ ListRead'
    <3> SUFFICES ASSUME pc' = "e820" PROVE E820' \in DOMAIN files' /\ ListRead'
      OBVIOUS
    <3>1. E820 \in DOMAIN files
      BY <1>1
    <3>2. Len(RegionList) \in Nat
      BY <3>1, ListFacts DEF MapInv
    <3>3. ListRead
      BY <1>2, <3>2 DEF ListRead, ToSet
    <3> QED
      BY <1>1, <1>3, <3>1, <3>3 DEF ListRead
  <2> QED
    BY <1>1, <1>2, <2>1 DEF MapInv, MapPlace, BeforeMap, HeapRuns, Uncut
<1>5. SizeBounded'
  BY <1>1 DEF MapInv, SizeBounded, BeforeMap
<1>6. MapSound' /\ TablesInBounds'
  BY <1>1, <1>2, TableSize DEF MapSound, TablesInBounds
<1> QED
  BY <1>4, <1>5, <1>6 DEF MapInv

LEMMA ReadRegionInv == MapInv /\ HeapRuns /\ ReadRegion => MapInv'
<1> SUFFICES ASSUME MapInv, HeapRuns, ReadRegion PROVE MapInv'
  OBVIOUS
<1> DEFINE e == RegionList[region]
           new == EntriesFor(e)
<1>1. /\ pc = "e820" /\ pc' = "e820" /\ UNCHANGED <<files, size, tables, status>>
      /\ region <= Len(RegionList) /\ map' = map \o new /\ region' = region + 1
  BY DEF ReadRegion, AddEntries, RegionList, NextRegion, MapInv, MapPlace
<1>2. /\ MapPlace /\ E820 \in DOMAIN files /\ ListRead /\ status["memory"] = "unknown"
      /\ map \in Seq(E820Entry)
  BY <1>1 DEF MapInv, MapPlace, E820Entry
<1>3. /\ Len(RegionList) \in Nat /\ region \in 1..Len(RegionList)
      /\ Len(RegionList) + 4 <= MapEntries
      /\ \A i, j \in 1..Len(RegionList) :
           RegionList[i].addr = 0 /\ RegionList[j].addr = 0 => i = j
      /\ e \in [addr : Nat, size : Nat, type : Nat]
  <2>1. region \in 1..(Len(RegionList) + 1)
    BY <1>2 DEF ListRead
  <2>2. /\ RegionList \in Seq([addr : Nat, size : Nat, type : Nat]) /\ Len(RegionList) \in Nat
        /\ Len(RegionList) + 4 <= MapEntries
        /\ \A i, j \in 1..Len(RegionList) :
             RegionList[i].addr = 0 /\ RegionList[j].addr = 0 => i = j
    BY <1>2, ListFacts
  <2>3. region \in 1..Len(RegionList)
    BY <1>1, <2>1, <2>2
  <2>4. e \in [addr : Nat, size : Nat, type : Nat]
    <3>1. RegionList[region] \in [addr : Nat, size : Nat, type : Nat]
      BY <2>2, <2>3, ElementOfSeq
    <3> QED
      BY <3>1
  <2> QED
    BY <2>2, <2>3, <2>4
<1>4. /\ new \in Seq(E820Entry) /\ Len(new) <= (IF e.addr = 0 THEN 5 ELSE 1)
      /\ \A x \in ToSet(new) : x.size > 0
      /\ ~Skipped(e) =>
           Region(IF e.addr = 0 THEN SIXTEEN_MB ELSE e.addr, e.size, RAM) \in ToSet(new)
  BY <1>3, EntriesOfOne
<1> HIDE DEF new
<1>5. /\ map' \in Seq(E820Entry) /\ Len(map') = Len(map) + Len(new)
      /\ Len(map) \in Nat /\ Len(new) \in Nat
      /\ ToSet(map') = ToSet(map) \cup ToSet(new)
  BY <1>1, <1>2, <1>4, Appended
<1>6. E820' = E820 /\ RegionList' = RegionList
  BY <1>1 DEF E820, RegionList
<1>7. ListRead'
  <2>1. region' \in 1..(Len(RegionList') + 1)
    BY <1>1, <1>3, <1>6
  <2>2. ASSUME NEW i \in 1..(region' - 1), ~Skipped(RegionList'[i])
        PROVE  Region(IF RegionList'[i].addr = 0 THEN SIXTEEN_MB ELSE RegionList'[i].addr,
                      RegionList'[i].size, RAM) \in ToSet(map')
    <3>1. CASE i = region
      BY <1>4, <1>5, <1>6, <2>2, <3>1
    <3>2. CASE i \in 1..(region - 1)
      BY <1>2, <1>5, <1>6, <2>2, <3>2 DEF ListRead
    <3> QED
      BY <1>1, <1>3, <3>1, <3>2
  <2>3. \A x \in ToSet(map') : x.size > 0
    BY <1>2, <1>4, <1>5 DEF ListRead
  <2>4. Len(map') <= region' - 1
          + (IF \E i \in 1..(region' - 1) : RegionList'[i].addr = 0 THEN 4 ELSE 0)
    <3>1. Len(map) <= region - 1
            + (IF \E i \in 1..(region - 1) : RegionList[i].addr = 0 THEN 4 ELSE 0)
      BY <1>2 DEF ListRead
    <3>2. CASE e.addr = 0
      <4>1. ~ \E i \in 1..(region - 1) : RegionList[i].addr = 0
        BY <1>3, <3>2
      <4>2. \E i \in 1..(region' - 1) : RegionList'[i].addr = 0
        <5>1. region \in 1..(region' - 1)
          BY <1>1, <1>3
        <5>2. RegionList'[region].addr = 0
          BY <1>6, <3>2
        <5> QED
          BY <5>1, <5>2
      <4> QED
        BY <1>1, <1>3, <1>4, <1>5, <3>1, <3>2, <4>1, <4>2
    <3>3. CASE e.addr # 0
      <4>1. (\E i \in 1..(region' - 1) : RegionList'[i].addr = 0)
              <=> \E i \in 1..(region - 1) : RegionList[i].addr = 0
        BY <1>1, <1>3, <1>6, <3>3
      <4> QED
        BY <1>1, <1>3, <1>4, <1>5, <3>1, <3>3, <4>1
    <3> QED
      BY <3>2, <3>3
  <2> QED
    BY <2>1, <2>2, <2>3, <2>4 DEF ListRead
<1>8. MapPlace'
  BY <1>1, <1>2, <1>5, <1>6, <1>7 DEF MapPlace, BeforeMap, E820Entry, HeapRuns, Uncut
<1>9. SizeBounded'
  <2>1. Len(map') + 1 >= Len(map) + 1
    BY <1>5
  <2> QED
    BY <1>1, <1>5, <2>1 DEF MapInv, SizeBounded
<1>10. MapSound' /\ TablesInBounds'
  <2>1. Len(map') <= MapEntries
    <3>1. Len(map') <= region' - 1 + 4
      BY <1>5, <1>7, <1>1, <1>3 DEF ListRead
    <3> QED
      BY <1>1, <1>3, <1>5, <3>1, TableSize
  <2> QED
    BY <1>1, <1>2, <2>1 DEF MapSound, TablesInBounds
<1> QED
  BY <1>8, <1>9, <1>10 DEF MapInv

LEMMA MapReadInv == MapInv /\ HeapRuns /\ MapRead => MapInv'
<1> SUFFICES ASSUME MapInv, HeapRuns, MapRead PROVE MapInv'
  OBVIOUS
<1>1. /\ pc = "e820" /\ UNCHANGED <<files, region, map, size, tables>>
      /\ region > Len(RegionList)
      /\ \/ /\ map # << >> /\ status' = [status EXCEPT !["memory"] = "initialised"]
            /\ pc' = "size"
         \/ map = << >> /\ pc' = "cmos_memory" /\ UNCHANGED status
  BY DEF MapRead, memory, RegionList
<1>2. /\ MapPlace /\ E820 \in DOMAIN files /\ ListRead /\ status["memory"] = "unknown"
      /\ status \in [Devices -> Status]
  BY <1>1 DEF MapInv, MapPlace
<1>3. /\ Len(RegionList) \in Nat /\ region = Len(RegionList) + 1
      /\ RegionList \in Seq([addr : Nat, size : Nat, type : Nat])
      /\ DOMAIN RegionList = 1..Len(RegionList)
  BY <1>1, <1>2, ListFacts DEF ListRead
<1>4. status' \in [Devices -> Status]
  BY <1>1, <1>2 DEF Status
<1>5. MapPlace'
  BY <1>1, <1>2, <1>4 DEF MapPlace, BeforeMap, HeapRuns, Uncut
<1>6. SizeBounded'
  BY <1>1 DEF MapInv, SizeBounded, BeforeMap
<1>7. MapSound'
  <2>1. Len(map) <= MapEntries
    BY DEF MapInv, MapSound
  <2>2. CASE map = << >> /\ UNCHANGED status
    BY <1>1, <1>2, <2>1, <2>2 DEF MapSound
  <2>3. CASE map # << >> /\ status' = [status EXCEPT !["memory"] = "initialised"]
    <3>1. status'["memory"] = "initialised"
      BY <1>2, <2>3 DEF Devices
    <3>2. ASSUME NEW i \in DOMAIN RegionList, RegionList[i].size > 0, RegionList[i].type = RAM
          PROVE  Region(IF RegionList[i].addr = 0 THEN SIXTEEN_MB ELSE RegionList[i].addr,
                        RegionList[i].size, RAM) \in ToSet(map)
      <4>1. i \in 1..(region - 1) /\ ~Skipped(RegionList[i])
        BY <1>3, <3>2 DEF Skipped
      <4> QED
        BY <1>2, <4>1 DEF ListRead
    <3>3. \A x \in ToSet(map) : x.size > 0
      BY <1>2 DEF ListRead
    <3>4. E820' = E820 /\ RegionList' = RegionList
      BY <1>1 DEF E820, RegionList
    <3>5. \A i \in DOMAIN files'[E820'].regions : LET e == files'[E820'].regions[i] IN
            e.size > 0 /\ e.type = RAM =>
              Region(IF e.addr = 0 THEN SIXTEEN_MB ELSE e.addr, e.size, RAM) \in ToSet(map')
      BY <1>1, <3>2, <3>4 DEF RegionList
    <3> QED
      BY <1>1, <2>1, <2>3, <3>1, <3>3, <3>5 DEF MapSound
  <2> QED
    BY <1>1, <2>2, <2>3
<1>8. TablesInBounds'
  BY <1>1 DEF TablesInBounds
<1> QED
  BY <1>5, <1>6, <1>7, <1>8 DEF MapInv

LEMMA MapFromCmosInv == MapInv /\ HeapRuns /\ MapFromCmos => MapInv'
<1> SUFFICES ASSUME MapInv, HeapRuns, MapFromCmos PROVE MapInv'
  OBVIOUS
<1>1. PICK c \in CmosSizes : AddEntries(cmos_read_memory_info(c[1], c[2]))
  BY DEF MapFromCmos
<1>2. /\ pc = "cmos_memory" /\ pc' = "size" /\ UNCHANGED <<files, region, size, tables>>
      /\ status' = [status EXCEPT !["memory"] = "faulty"]
  BY DEF MapFromCmos
<1>3. map = << >> /\ status \in [Devices -> Status] /\ heap \in Heaps /\ tables.pml4 = 0
  BY <1>2 DEF MapInv, MapPlace, SizeBounded
<1>4. PICK new \in Seq(E820Entry) :
        /\ new = cmos_read_memory_info(c[1], c[2]) /\ AddEntries(new)
        /\ Len(new) \in Nat /\ 1 <= Len(new) /\ Len(new) <= 3 /\ << >> \o new = new
  BY <1>1, EntriesOfCmos
<1>5. /\ map' \in Seq(E820Entry) /\ Len(map') <= 3 /\ Len(map') \in Nat
      /\ heap'.ended \/ map' = new
  <2>2. CASE heap.ended
    <3>1. heap'.ended /\ map' \in Seq(E820Entry) /\ Len(map') = Len(new)
      BY <1>3, <1>4, <2>2, OverwrittenFacts
    <3> QED
      BY <1>4, <3>1
  <2>3. CASE ~heap.ended
    <3>1. map' = new
      BY <1>3, <1>4, <2>3 DEF AddEntries
    <3> QED
      BY <1>4, <3>1
  <2> QED
    BY <2>2, <2>3
<1>6. status' \in [Devices -> Status] /\ status'["memory"] = "faulty"
  BY <1>2, <1>3 DEF Devices, Status
<1>7. MapPlace'
  BY <1>2, <1>5, <1>6 DEF MapInv, MapPlace, BeforeMap, E820Entry, HeapRuns
<1>8. SizeBounded'
  <2>1. Len(map) = 0
    BY <1>3
  <2> QED
    BY <1>2, <1>5, <2>1 DEF MapInv, SizeBounded
<1>9. MapSound' /\ TablesInBounds'
  BY <1>2, <1>3, <1>4, <1>5, <1>6, TableSize DEF MapSound, TablesInBounds
<1> QED
  BY <1>7, <1>8, <1>9 DEF MapInv

(* init_paging(): what the loops may reach *)
LEMMA PagesBounded ==
  ASSUME MapInv
  PROVE  Pages \in 0..32 /\ PdptCount = 1 /\ Pml4Count = 1
<1>1. size.mb \in 0..128
  <2>1. Len(map) \in Nat /\ Len(map) <= 128
    BY TableSize DEF MapInv, MapPlace, MapSound
  <2>2. size.entry \in Nat /\ size.mb \in Nat /\ size.mb < size.entry /\ size.entry <= Len(map) + 1
    BY DEF MapInv, SizeBounded
  <2>3. \A a, b, l \in Nat : l <= 128 /\ a < b /\ b <= l + 1 => a \in 0..128
    OBVIOUS
  <2> QED
    BY <2>1, <2>2, <2>3
<1>2. Pages \in 0..32
  BY <1>1 DEF Pages, PagesToMap
<1>3. PdptCount = 1 /\ Pml4Count = 1
  BY <1>2 DEF PdptCount, Pml4Count, TableCount
<1> QED
  BY <1>2, <1>3

LEMMA MemorySizeInv == MapInv /\ HeapRuns /\ MemorySize => MapInv'
<1> SUFFICES ASSUME MapInv, HeapRuns, MemorySize PROVE MapInv'
  OBVIOUS
<1>1. pc = "size" /\ UNCHANGED <<files, region, map, tables, status>> /\ pc' \in {"size", "tables"}
  BY DEF MemorySize
<1>2. MapPlace'
  BY <1>1 DEF MapInv, MapPlace, BeforeMap, HeapRuns, Uncut
<1>3. SizeBounded'
  <2>1. Len(map) \in Nat
    BY DEF MapInv, MapPlace
  <2>2. CASE size.entry <= Len(map)
    <3> DEFINE sum == size.sum + map[size.entry].size
               mb  == MegabytesIn(sum)
    <3>1. size'.entry = size.entry + 1 /\ size'.mb = size.mb + mb
      BY <1>1, <2>2 DEF MemorySize
    <3>2. mb \in {0, 1}
      BY DEF MegabytesIn
    <3> HIDE DEF mb
    <3> QED
      BY <1>1, <2>1, <2>2, <3>1, <3>2 DEF MapInv, SizeBounded
  <2>3. CASE ~(size.entry <= Len(map))
    BY <1>1, <2>3 DEF MapInv, SizeBounded, MemorySize
  <2> QED
    BY <2>2, <2>3
<1>4. MapSound'
  BY <1>1 DEF MapInv, MapSound, E820, HeapRuns
<1>5. TablesInBounds'
  BY <1>1 DEF TablesInBounds
<1> QED
  BY <1>2, <1>3, <1>4, <1>5 DEF MapInv

LEMMA AllocateTablesInv == MapInv /\ HeapRuns /\ AllocateTables => MapInv'
<1> SUFFICES ASSUME MapInv, HeapRuns, AllocateTables PROVE MapInv'
  OBVIOUS
<1>1. /\ pc = "tables" /\ UNCHANGED <<files, region, map, size, status>>
      /\ \/ /\ pc' = "pages" /\ ~heap.ended
            /\ \E root : tables' = [tables EXCEPT !.pml4 = root]
         \/ pc' = "panic" /\ tables' = tables
  BY DEF AllocateTables, memory, Panic
<1>2. MapPlace'
  BY <1>1 DEF MapInv, MapPlace, BeforeMap, HeapRuns, Uncut
<1>3. /\ tables'.page = tables.page /\ tables'.pdpt_off = tables.pdpt_off
      /\ tables'.pml4_off = tables.pml4_off
  <2>1. CASE tables' = tables
    BY <2>1
  <2>2. CASE \E root : tables' = [tables EXCEPT !.pml4 = root]
    <3>1. PICK root : tables' = [tables EXCEPT !.pml4 = root]
      BY <2>2
    <3> QED
      BY <3>1
  <2> QED
    BY <1>1, <2>1, <2>2
<1>4. SizeBounded'
  BY <1>1, <1>3 DEF MapInv, SizeBounded, BeforeMap
<1>5. MapSound'
  BY <1>1 DEF MapInv, MapSound, E820, HeapRuns
<1>6. TablesInBounds'
  <2>1. /\ tables.page = 0 /\ tables.pdpt_off = 0 /\ tables.pml4_off = 0
    BY <1>1 DEF MapInv, SizeBounded
  <2>2. Pages' = Pages /\ PdptCount' = PdptCount /\ Pml4Count' = Pml4Count
    BY <1>1 DEF Pages, PdptCount, Pml4Count
  <2> QED
    BY <1>1, <1>3, <2>1, <2>2, PagesBounded DEF TablesInBounds
<1> QED
  BY <1>2, <1>4, <1>5, <1>6 DEF MapInv

LEMMA MapPageInv == MapInv /\ HeapRuns /\ MapPage => MapInv'
<1> SUFFICES ASSUME MapInv, HeapRuns, MapPage PROVE MapInv'
  OBVIOUS
<1>1. /\ pc = "pages" /\ pc' = "pages" /\ UNCHANGED <<files, region, map, size, status>>
      /\ tables.page < Pages
  BY DEF MapPage
<1>2. /\ tables.page \in Nat /\ tables.pdpt_off = 0 /\ tables.pml4_off = 0 /\ Pages \in 0..32
      /\ PdptCount = 1 /\ Pml4Count = 1
  BY PagesBounded DEF MapInv, SizeBounded
<1>3. /\ tables'.page = tables.page + 1 /\ tables'.pdpt_off = 0 /\ tables'.pml4_off = 0
      /\ tables'.pml4 = tables.pml4
  <2>1. ~(tables.page # 0 /\ tables.page % 1024 = 0)
    BY <1>1, <1>2
  <2> QED
    BY <1>2, <2>1 DEF MapPage
<1>4. MapPlace'
  BY <1>1 DEF MapInv, MapPlace, BeforeMap, HeapRuns, Uncut
<1>5. SizeBounded'
  BY <1>1, <1>2, <1>3 DEF MapInv, SizeBounded, BeforeMap
<1>6. MapSound'
  BY <1>1, <1>3 DEF MapInv, MapSound, E820, HeapRuns
<1>7. TablesInBounds'
  <2>1. Pages' = Pages /\ PdptCount' = PdptCount /\ Pml4Count' = Pml4Count
    BY <1>1 DEF Pages, PdptCount, Pml4Count
  <2> QED
    BY <1>1, <1>2, <1>3, <2>1 DEF TablesInBounds
<1> QED
  BY <1>4, <1>5, <1>6, <1>7 DEF MapInv

LEMMA SetPml4Inv == MapInv /\ HeapRuns /\ SetPml4 => MapInv'
<1> SUFFICES ASSUME MapInv, HeapRuns, SetPml4 PROVE MapInv'
  OBVIOUS
<1>1. UNCHANGED <<memory, status>> /\ pc' \notin BeforeMap /\ pc' \notin LoopSteps
  <2>1. pc' = "pic" /\ UNCHANGED <<memory, status>>
    BY DEF SetPml4
  <2> QED
    BY <2>1 DEF BeforeMap, LoopSteps
<1> QED
  BY <1>1, StatusUntouched

LEMMA DeviceInv == MapInv /\ HeapRuns /\ DeviceInit => MapInv'
<1> SUFFICES ASSUME MapInv, HeapRuns, DeviceInit PROVE MapInv'
  OBVIOUS
<1> DEFINE Behind == pc' \notin BeforeMap /\ pc' \notin LoopSteps
<1>1. /\ {"pic", "keyboard", "cmos", "pit"} \subseteq Devices \ {"memory"}
      /\ {"unknown", "faulty", "initialised"} \subseteq Status
  BY DEF Devices, Status
<1>2. CASE InitPic
  <2>1. Initialise("pic", "initialised") /\ UNCHANGED memory /\ Behind
    BY <1>2 DEF InitPic, BeforeMap, LoopSteps
  <2> QED
    BY <1>1, <2>1, OtherDevice
<1>3. CASE InitKeyboard
  <2>1. UNCHANGED memory /\ Behind
    BY <1>3 DEF InitKeyboard, Panic, BeforeMap, LoopSteps
  <2>2. CASE \E r \in {"unknown", "faulty", "initialised"} : Initialise("keyboard", r)
    BY <1>1, <2>1, <2>2, OtherDevice
  <2>3. CASE UNCHANGED status
    BY <2>1, <2>3, StatusUntouched
  <2> QED
    BY <1>3, <2>2, <2>3 DEF InitKeyboard
<1>4. CASE CmosMonth
  <2>1. UNCHANGED <<memory, status>> /\ Behind
    BY <1>4 DEF CmosMonth, NextAttempt, BeforeMap, LoopSteps
  <2> QED
    BY <2>1, StatusUntouched
<1>5. CASE CmosAgain
  <2>1. UNCHANGED memory /\ Behind /\ (Initialise("cmos", "initialised") \/ UNCHANGED status)
    BY <1>5 DEF CmosAgain, NextAttempt, BeforeMap, LoopSteps
  <2>2. CASE Initialise("cmos", "initialised")
    BY <1>1, <2>1, <2>2, OtherDevice
  <2>3. CASE UNCHANGED status
    BY <2>1, <2>3, StatusUntouched
  <2> QED
    BY <2>1, <2>2, <2>3
<1>6. CASE CmosGivesUp
  <2>1. Initialise("cmos", "faulty") /\ UNCHANGED memory /\ Behind
    BY <1>6 DEF CmosGivesUp, BeforeMap, LoopSteps
  <2> QED
    BY <1>1, <2>1, OtherDevice
<1>7. CASE InitPit
  <2>1. Initialise("pit", "initialised") /\ UNCHANGED memory /\ Behind
    BY <1>7 DEF InitPit, BeforeMap, LoopSteps
  <2> QED
    BY <1>1, <2>1, OtherDevice
<1>8. CASE ProbeBuses
  <2>1. UNCHANGED <<memory, status>> /\ Behind
    BY <1>8 DEF ProbeBuses, Panic, BeforeMap, LoopSteps
  <2> QED
    BY <2>1, StatusUntouched
<1> QED
  BY <1>2, <1>3, <1>4, <1>5, <1>6, <1>7, <1>8 DEF DeviceInit

(* Interrupts and the clock: a handler is not a step of the boot.          *)
LEMMA BesideInv ==
  ASSUME MapInv, HeapRuns,
         \/ EnableInterrupts \/ PitHandler \/ DefaultHandler \/ CmosPoll \/ TakeInterrupt
         \/ TakeSpurious \/ PageFault \/ LineRises \/ ClockUpdates
  PROVE  MapInv' \/ (UNCHANGED <<pc, memory, status>>)
<1>1. CASE EnableInterrupts \/ PitHandler \/ DefaultHandler \/ CmosPoll
  <2>1. UNCHANGED <<memory, status>>
    BY <1>1 DEF EnableInterrupts, PitHandler, DefaultHandler, CmosPoll
  <2>2. pc' \in {"halt", "panic", "cmos_month"}
    BY <1>1 DEF EnableInterrupts, PitHandler, DefaultHandler, CmosPoll, Panic
  <2>3. pc' \notin BeforeMap /\ pc' \notin LoopSteps
    BY <2>2 DEF BeforeMap, LoopSteps
  <2> QED
    BY <2>1, <2>3, StatusUntouched
<1>2. CASE TakeInterrupt \/ TakeSpurious
  <2>1. UNCHANGED <<memory, status>> /\ \E v : Enter(v)
    BY <1>2 DEF TakeInterrupt, TakeSpurious
  <2>2. pc' \notin BeforeMap /\ pc' \notin LoopSteps
    BY <2>1 DEF Enter, Handlers, BeforeMap, LoopSteps
  <2> QED
    BY <2>1, <2>2, StatusUntouched
<1>3. CASE LineRises \/ ClockUpdates
  BY <1>3 DEF LineRises, ClockUpdates
<1>4. CASE PageFault
  <2>1. UNCHANGED <<memory, status>> /\ pc' \notin BeforeMap /\ pc' \notin LoopSteps
    BY <1>4 DEF PageFault, BeforeMap, LoopSteps
  <2> QED
    BY <2>1, StatusUntouched
<1> QED
  BY <1>1, <1>2, <1>3, <1>4

LEMMA StutterInv == MapInv /\ HeapRuns /\ UNCHANGED <<pc, memory, status>> => MapInv'
<1> SUFFICES ASSUME MapInv, HeapRuns, UNCHANGED <<pc, memory, status>> PROVE MapInv'
  OBVIOUS
<1>1. UNCHANGED <<pc, files, region, map, size, tables, status>>
  BY DEF memory
<1>2. E820' = E820 /\ RegionList' = RegionList
  BY <1>1 DEF E820, RegionList
<1>3. Pages' = Pages /\ PdptCount' = PdptCount /\ Pml4Count' = Pml4Count
  BY <1>1 DEF Pages, PdptCount, Pml4Count
<1>4. MapPlace'
  BY <1>1, <1>2 DEF MapInv, MapPlace, ListRead, HeapRuns, Uncut
<1>5. SizeBounded' /\ TablesInBounds'
  BY <1>1, <1>3 DEF MapInv, SizeBounded, TablesInBounds
<1>6. MapSound'
  BY <1>1, <1>2 DEF MapInv, MapSound, HeapRuns
<1> QED
  BY <1>4, <1>5, <1>6 DEF MapInv

-----------------------------------------------------------------------------
LEMMA MapStep == MapInv /\ [Next]_vars => MapInv'
<1> SUFFICES ASSUME MapInv, [Next]_vars PROVE MapInv'
  OBVIOUS
<1>0. HeapRuns
  BY HeapStep
<1>1. CASE Startup
  BY <1>0, <1>1, StartupInv
<1>2. CASE InitIdt
  BY <1>0, <1>2, InitIdtInv
<1>3. CASE NewDevices
  BY <1>0, <1>3, NewDevicesInv
<1>4. CASE MemoryInit
  BY <1>0, <1>4, FindE820Inv, ReadRegionInv, MapReadInv, MapFromCmosInv, MemorySizeInv,
     AllocateTablesInv, MapPageInv, SetPml4Inv DEF MemoryInit
<1>5. CASE DeviceInit
  BY <1>0, <1>5, DeviceInv
<1>6. CASE \/ EnableInterrupts \/ PitHandler \/ DefaultHandler \/ CmosPoll \/ TakeInterrupt
           \/ TakeSpurious \/ PageFault \/ LineRises \/ ClockUpdates
  BY <1>0, <1>6, BesideInv, StutterInv
<1>7. CASE UNCHANGED vars
  BY <1>0, <1>7, StutterInv DEF vars
<1> QED
  BY <1>1, <1>2, <1>3, <1>4, <1>5, <1>6, <1>7 DEF Next, Run

(* MapInv holds from reset to the idle loop, with the clock and the         *)
(* interrupt lines running beside the boot.                                 *)
THEOREM MapInvariant == Spec => []MapInv
BY InitInv, MapStep, PTL DEF Spec

(* The memory map has room for its entries and says what its one source     *)
(* says, for every list of regions that fits and all CMOS registers.       *)
THEOREM MapAlwaysSound == Spec => []MapSound
<1>1. MapInv => MapSound
  BY DEF MapInv
<1> QED
  BY <1>1, MapInvariant, PTL

(* init_paging() writes to no table behind the ones it allocated.           *)
THEOREM PagingInBounds == Spec => []TablesInBounds
<1>1. MapInv => TablesInBounds
  BY DEF MapInv
<1> QED
  BY <1>1, MapInvariant, PTL

-----------------------------------------------------------------------------
(* The 8259 pair: what each kind of port write changes, and what it leaves. *)

LEMMA ByteFacts ==
  /\ ICW1 \in Byte /\ ICW4 \in Byte /\ ICW2["primary"] \in Byte /\ ICW2["secondary"] \in Byte
  /\ PIC_EOI_MSG \in Byte /\ PIC_READ_ISR_OCW \in Byte /\ PIC_READ_IRR_OCW \in Byte
  /\ ICW1_BIT \in ICW1
  /\ \A b \in {PIC_EOI_MSG, PIC_READ_ISR_OCW, PIC_READ_IRR_OCW} : ICW1_BIT \notin b
  /\ OCW3_BIT \notin PIC_EOI_MSG /\ OCW3_BIT \in PIC_READ_ISR_OCW /\ OCW3_BIT \in PIC_READ_IRR_OCW
BY DEF ICW1, ICW4, ICW2, PIC_EOI_MSG, PIC_READ_ISR_OCW, PIC_READ_IRR_OCW, Byte, ICW1_BIT,
       OCW3_BIT, OCW3_READS, OCW3_ISR

LEMMA CommandTyped ==
  ASSUME NEW c \in Chip, NEW b \in Byte
  PROVE  CommandWritten(c, b) \in Chip
<1>1. CASE ICW1_BIT \in b
  <2> DEFINE c1 == [c EXCEPT !.expects = 3]
             c2 == [c1 EXCEPT !.imr = {}]
             c3 == [c2 EXCEPT !.irr = {}]
             c4 == [c3 EXCEPT !.isr = {}]
  <2>1. CommandWritten(c, b) = [c4 EXCEPT !.reads = "irr"]
    BY <1>1 DEF CommandWritten
  <2>2. {} \in Byte
    BY DEF Byte
  <2>3. c1 \in Chip
    BY DEF Chip
  <2> HIDE DEF c1
  <2>4. c2 \in Chip
    BY <2>2, <2>3 DEF Chip
  <2> HIDE DEF c2
  <2>5. c3 \in Chip
    BY <2>2, <2>4 DEF Chip
  <2> HIDE DEF c3
  <2>6. c4 \in Chip
    BY <2>2, <2>5 DEF Chip
  <2> HIDE DEF c4
  <2> QED
    BY <2>1, <2>6 DEF Chip
<1>2. CASE ICW1_BIT \notin b /\ OCW3_BIT \in b
  BY <1>2 DEF CommandWritten, Chip
<1>3. CASE ICW1_BIT \notin b /\ OCW3_BIT \notin b
  <2>1. c.isr \ {Highest(c.isr)} \in Byte
    BY DEF Chip, Byte
  <2> QED
    BY <1>3, <2>1 DEF CommandWritten, Chip
<1> QED
  BY <1>1, <1>2, <1>3

LEMMA DataTyped ==
  ASSUME NEW c \in Chip, NEW b \in Byte
  PROVE  DataWritten(c, b) \in Chip
<1>1. c.expects \in 0..3
  BY DEF Chip
<1>2. CASE c.expects = 0
  BY <1>2 DEF DataWritten, Chip
<1>3. CASE c.expects = 1
  <2> DEFINE d == [c EXCEPT !.expects = 0]
  <2>1. DataWritten(c, b) = [d EXCEPT !.mode = b]
    BY <1>3 DEF DataWritten
  <2>2. d \in Chip
    BY DEF Chip
  <2> QED
    BY <2>1, <2>2 DEF Chip
<1>4. CASE c.expects = 2
  <2> DEFINE d == [c EXCEPT !.expects = 1]
  <2>1. DataWritten(c, b) = [d EXCEPT !.cascade = b]
    BY <1>4 DEF DataWritten
  <2>2. d \in Chip
    BY DEF Chip
  <2> QED
    BY <2>1, <2>2 DEF Chip
<1>5. CASE c.expects = 3
  <2> DEFINE d == [c EXCEPT !.expects = 2]
  <2>1. DataWritten(c, b) = [d EXCEPT !.base = b]
    BY <1>5 DEF DataWritten
  <2>2. d \in Chip
    BY DEF Chip
  <2> QED
    BY <2>1, <2>2 DEF Chip
<1> QED
  BY <1>1, <1>2, <1>3, <1>4, <1>5

Ports == {"command", "data", "elcr"}

LEMMA WrittenTyped ==
  ASSUME NEW c \in Chip, NEW port \in Ports, NEW b \in Byte
  PROVE  Written(c, port, b) \in Chip
<1>1. CASE port = "command"
  BY <1>1, CommandTyped DEF Written
<1>2. CASE port = "data"
  BY <1>2, DataTyped DEF Written
<1>3. CASE port = "elcr"
  BY <1>3 DEF Written, Chip
<1> QED
  BY <1>1, <1>2, <1>3 DEF Ports

(* what the words of pic_initialize() leave in a chip *)
LEMMA FirstWord ==
  ASSUME NEW c \in Chip
  PROVE  /\ Written(c, "command", ICW1).expects = 3 /\ Written(c, "command", ICW1).imr = {}
         /\ Written(c, "command", ICW1).irr = {} /\ Written(c, "command", ICW1).isr = {}
BY ByteFacts DEF Written, CommandWritten, Chip

LEMMA DataWord ==
  ASSUME NEW c \in Chip, NEW b \in Byte, NEW d, d = Written(c, "data", b)
  PROVE  /\ d.irr = c.irr /\ d.isr = c.isr
         /\ c.expects = 3 => d.expects = 2 /\ d.base = b
         /\ c.expects = 2 => d.expects = 1 /\ d.base = c.base
         /\ c.expects = 1 => d.expects = 0 /\ d.base = c.base
         /\ c.expects = 0 => d.expects = 0 /\ d.base = c.base /\ d.imr = b
<1>1. c.expects \in 0..3 /\ d = DataWritten(c, b)
  BY DEF Chip, Written
<1>2. CASE c.expects = 3
  <2> DEFINE e == [c EXCEPT !.expects = 2]
  <2>1. e \in Chip /\ e.expects = 2 /\ e.base = c.base /\ e.irr = c.irr /\ e.isr = c.isr
    BY DEF Chip
  <2>2. d = [e EXCEPT !.base = b]
    BY <1>1, <1>2 DEF DataWritten
  <2> HIDE DEF e
  <2> QED
    BY <1>2, <2>1, <2>2 DEF Chip
<1>3. CASE c.expects = 2
  <2> DEFINE e == [c EXCEPT !.expects = 1]
  <2>1. e \in Chip /\ e.expects = 1 /\ e.base = c.base /\ e.irr = c.irr /\ e.isr = c.isr
    BY DEF Chip
  <2>2. d = [e EXCEPT !.cascade = b]
    BY <1>1, <1>3 DEF DataWritten
  <2> HIDE DEF e
  <2> QED
    BY <1>3, <2>1, <2>2 DEF Chip
<1>4. CASE c.expects = 1
  <2> DEFINE e == [c EXCEPT !.expects = 0]
  <2>1. e \in Chip /\ e.expects = 0 /\ e.base = c.base /\ e.irr = c.irr /\ e.isr = c.isr
    BY DEF Chip
  <2>2. d = [e EXCEPT !.mode = b]
    BY <1>1, <1>4 DEF DataWritten
  <2> HIDE DEF e
  <2> QED
    BY <1>4, <2>1, <2>2 DEF Chip
<1>5. CASE c.expects = 0
  BY <1>1, <1>5 DEF DataWritten, Chip
<1> QED
  BY <1>1, <1>2, <1>3, <1>4, <1>5

LEMMA LevelWord ==
  ASSUME NEW c \in Chip, NEW b \in Byte, NEW d, d = Written(c, "elcr", b)
  PROVE  d.expects = c.expects /\ d.base = c.base /\ d.imr = c.imr /\ d.irr = c.irr /\ d.isr = c.isr
BY DEF Written, Chip

(* the command words of a running system: the end of an interrupt takes one *)
(* out of service, the choice of a register to read changes nothing else    *)
LEMMA EoiWord ==
  ASSUME NEW c \in Chip, NEW d, d = Written(c, "command", PIC_EOI_MSG)
  PROVE  /\ d.expects = c.expects /\ d.base = c.base /\ d.imr = c.imr /\ d.irr = c.irr
         /\ d.isr = IF c.isr = {} THEN {} ELSE c.isr \ {Highest(c.isr)}
BY ByteFacts DEF Written, CommandWritten, Chip

LEMMA ReadWord ==
  ASSUME NEW c \in Chip, NEW ocw \in {PIC_READ_ISR_OCW, PIC_READ_IRR_OCW},
         NEW d, d = Written(c, "command", ocw)
  PROVE  d.expects = c.expects /\ d.base = c.base /\ d.imr = c.imr /\ d.irr = c.irr /\ d.isr = c.isr
BY ByteFacts DEF Written, CommandWritten, Chip

-----------------------------------------------------------------------------
(* The pair of them.                                                        *)

Pics == [Chips -> Chip]

LEMMA OutFacts ==
  ASSUME NEW p \in Pics, NEW chip \in Chips, NEW port \in Ports, NEW b \in Byte
  PROVE  /\ Out(p, chip, port, b) \in Pics
         /\ \A c \in Chips :
              Out(p, chip, port, b)[c] = IF c = chip THEN Written(p[c], port, b) ELSE p[c]
<1>1. Written(p[chip], port, b) \in Chip
  BY WrittenTyped DEF Pics
<1> QED
  BY <1>1 DEF Out, Pics

LEMMA BothFacts ==
  ASSUME NEW p \in Pics, NEW port \in Ports, NEW one \in Byte, NEW two \in Byte
  PROVE  /\ Both(p, port, one, two) \in Pics
         /\ Both(p, port, one, two)["primary"] = Written(p["primary"], port, one)
         /\ Both(p, port, one, two)["secondary"] = Written(p["secondary"], port, two)
<1> DEFINE r == Out(p, "primary", port, one)
           q == Out(r, "secondary", port, two)
<1>1. "primary" \in Chips /\ "secondary" \in Chips /\ "primary" # "secondary"
  BY DEF Chips
<1>2. /\ r \in Pics
      /\ \A c \in Chips : r[c] = IF c = "primary" THEN Written(p[c], port, one) ELSE p[c]
  BY <1>1, OutFacts
<1> HIDE DEF r
<1>4. /\ q \in Pics
      /\ \A c \in Chips : q[c] = IF c = "secondary" THEN Written(r[c], port, two) ELSE r[c]
  BY <1>1, <1>2, OutFacts
<1>5. Both(p, port, one, two) = q
  BY DEF Both, r
<1> HIDE DEF q
<1> QED
  BY <1>1, <1>2, <1>4, <1>5

(* pic_initialize() leaves nothing waiting and nothing in service, vectors  *)
(* from 0x20 on, and only the cascade open                                  *)
Initialised(p) ==
  /\ \A c \in Chips : p[c].expects = 0 /\ p[c].base = ICW2[c] /\ p[c].irr = {} /\ p[c].isr = {}
  /\ p["primary"].imr = (0..7) \ {CASCADE} /\ p["secondary"].imr = 0..7

LEMMA InitializeFacts ==
  ASSUME NEW p \in Pics
  PROVE  pic_initialize(p) \in Pics /\ Initialised(pic_initialize(p))
<1> DEFINE icw1 == Both(p, "command", ICW1, ICW1)
           icw2 == Both(icw1, "data", ICW2["primary"], ICW2["secondary"])
           icw3 == Both(icw2, "data", {CASCADE}, {1})
           icw4 == Both(icw3, "data", ICW4, ICW4)
           mask == Both(icw4, "data", (0..7) \ {CASCADE}, 0..7)
           elcr == Both(mask, "elcr", p["primary"].level, p["secondary"].level \cup {1})
<1>0. pic_initialize(p) = elcr
  BY DEF pic_initialize
<1>a. /\ {CASCADE} \in Byte /\ {1} \in Byte /\ (0..7) \ {CASCADE} \in Byte /\ 0..7 \in Byte
      /\ p["primary"].level \in Byte /\ p["secondary"].level \cup {1} \in Byte
      /\ "primary" \in Chips /\ "secondary" \in Chips
  BY DEF Pics, Chip, Chips, Byte, CASCADE
<1>b. /\ ICW1 \in Byte /\ ICW4 \in Byte /\ ICW2["primary"] \in Byte /\ ICW2["secondary"] \in Byte
  BY ByteFacts
<1>c. "command" \in Ports /\ "data" \in Ports /\ "elcr" \in Ports
  BY DEF Ports
<1>d. \A q \in Pics : q["primary"] \in Chip /\ q["secondary"] \in Chip
  BY DEF Pics, Chips
<1>1. /\ icw1 \in Pics
      /\ \A c \in Chips : icw1[c].expects = 3 /\ icw1[c].irr = {} /\ icw1[c].isr = {}
  <2> DEFINE one == ICW1
             two == ICW1
  <2>0. one \in Byte /\ two \in Byte /\ icw1 = Both(p, "command", one, two)
    BY <1>a, <1>b
  <2>a. one = ICW1 /\ two = ICW1
    OBVIOUS
  <2> HIDE DEF one, two, icw1
  <2>1. /\ icw1 \in Pics
        /\ icw1["primary"] = Written(p["primary"], "command", one)
        /\ icw1["secondary"] = Written(p["secondary"], "command", two)
    BY <1>c, <2>0, BothFacts
  <2>2. p["primary"] \in Chip /\ p["secondary"] \in Chip
    BY <1>d
  <2>3. icw1["primary"].expects = 3 /\ icw1["primary"].irr = {} /\ icw1["primary"].isr = {}
    BY <2>0, <2>a, <2>1, <2>2, FirstWord
  <2>4. icw1["secondary"].expects = 3 /\ icw1["secondary"].irr = {} /\ icw1["secondary"].isr = {}
    BY <2>0, <2>a, <2>1, <2>2, FirstWord
  <2> QED
    BY <2>a, <2>1, <2>3, <2>4 DEF Chips
<1> HIDE DEF icw1
<1>2. /\ icw2 \in Pics
      /\ \A c \in Chips : /\ icw2[c].expects = 2 /\ icw2[c].base = ICW2[c]
                          /\ icw2[c].irr = {} /\ icw2[c].isr = {}
  <2> DEFINE one == ICW2["primary"]
             two == ICW2["secondary"]
  <2>0. one \in Byte /\ two \in Byte /\ icw2 = Both(icw1, "data", one, two)
    BY <1>a, <1>b
  <2>a. one = ICW2["primary"] /\ two = ICW2["secondary"]
    OBVIOUS
  <2> HIDE DEF one, two, icw2
  <2>b. icw1 \in Pics
    BY <1>1
  <2>1. /\ icw2 \in Pics
        /\ icw2["primary"] = Written(icw1["primary"], "data", one)
        /\ icw2["secondary"] = Written(icw1["secondary"], "data", two)
    BY <1>c, <2>0, <2>b, BothFacts
  <2>2. icw1["primary"] \in Chip /\ icw1["secondary"] \in Chip
    BY <2>b, <1>d
  <2>c. icw1["primary"].expects = 3 /\ icw1["primary"].irr = {} /\ icw1["primary"].isr = {}
    BY <1>1, <1>a
  <2>d. icw1["secondary"].expects = 3 /\ icw1["secondary"].irr = {} /\ icw1["secondary"].isr = {}
    BY <1>1, <1>a
  <2>3. /\ icw2["primary"].expects = 2 /\ icw2["primary"].base = one
        /\ icw2["primary"].irr = {} /\ icw2["primary"].isr = {}
    BY <2>c, <2>0, <2>1, <2>2, DataWord
  <2>4. /\ icw2["secondary"].expects = 2 /\ icw2["secondary"].base = two
        /\ icw2["secondary"].irr = {} /\ icw2["secondary"].isr = {}
    BY <2>d, <2>0, <2>1, <2>2, DataWord
  <2> QED
    BY <1>1, <2>a, <2>1, <2>3, <2>4 DEF Chips
<1> HIDE DEF icw2
<1>3. /\ icw3 \in Pics
      /\ \A c \in Chips : /\ icw3[c].expects = 1 /\ icw3[c].base = ICW2[c]
                          /\ icw3[c].irr = {} /\ icw3[c].isr = {}
  <2> DEFINE one == {CASCADE}
             two == {1}
  <2>0. one \in Byte /\ two \in Byte /\ icw3 = Both(icw2, "data", one, two)
    BY <1>a, <1>b
  <2>a. one = {CASCADE} /\ two = {1}
    OBVIOUS
  <2> HIDE DEF one, two, icw3
  <2>b. icw2 \in Pics
    BY <1>2
  <2>1. /\ icw3 \in Pics
        /\ icw3["primary"] = Written(icw2["primary"], "data", one)
        /\ icw3["secondary"] = Written(icw2["secondary"], "data", two)
    BY <1>c, <2>0, <2>b, BothFacts
  <2>2. icw2["primary"] \in Chip /\ icw2["secondary"] \in Chip
    BY <2>b, <1>d
  <2>c. /\ icw2["primary"].expects = 2 /\ icw2["primary"].base = ICW2["primary"]
        /\ icw2["primary"].irr = {} /\ icw2["primary"].isr = {}
    BY <1>2, <1>a
  <2>d. /\ icw2["secondary"].expects = 2 /\ icw2["secondary"].base = ICW2["secondary"]
        /\ icw2["secondary"].irr = {} /\ icw2["secondary"].isr = {}
    BY <1>2, <1>a
  <2>3. /\ icw3["primary"].expects = 1 /\ icw3["primary"].base = ICW2["primary"]
        /\ icw3["primary"].irr = {} /\ icw3["primary"].isr = {}
    BY <2>c, <2>0, <2>1, <2>2, DataWord
  <2>4. /\ icw3["secondary"].expects = 1 /\ icw3["secondary"].base = ICW2["secondary"]
        /\ icw3["secondary"].irr = {} /\ icw3["secondary"].isr = {}
    BY <2>d, <2>0, <2>1, <2>2, DataWord
  <2> QED
    BY <1>2, <2>a, <2>1, <2>3, <2>4 DEF Chips
<1> HIDE DEF icw3
<1>4. /\ icw4 \in Pics
      /\ \A c \in Chips : /\ icw4[c].expects = 0 /\ icw4[c].base = ICW2[c]
                          /\ icw4[c].irr = {} /\ icw4[c].isr = {}
  <2> DEFINE one == ICW4
             two == ICW4
  <2>0. one \in Byte /\ two \in Byte /\ icw4 = Both(icw3, "data", one, two)
    BY <1>a, <1>b
  <2>a. one = ICW4 /\ two = ICW4
    OBVIOUS
  <2> HIDE DEF one, two, icw4
  <2>b. icw3 \in Pics
    BY <1>3
  <2>1. /\ icw4 \in Pics
        /\ icw4["primary"] = Written(icw3["primary"], "data", one)
        /\ icw4["secondary"] = Written(icw3["secondary"], "data", two)
    BY <1>c, <2>0, <2>b, BothFacts
  <2>2. icw3["primary"] \in Chip /\ icw3["secondary"] \in Chip
    BY <2>b, <1>d
  <2>c. /\ icw3["primary"].expects = 1 /\ icw3["primary"].base = ICW2["primary"]
        /\ icw3["primary"].irr = {} /\ icw3["primary"].isr = {}
    BY <1>3, <1>a
  <2>d. /\ icw3["secondary"].expects = 1 /\ icw3["secondary"].base = ICW2["secondary"]
        /\ icw3["secondary"].irr = {} /\ icw3["secondary"].isr = {}
    BY <1>3, <1>a
  <2>3. /\ icw4["primary"].expects = 0 /\ icw4["primary"].base = ICW2["primary"]
        /\ icw4["primary"].irr = {} /\ icw4["primary"].isr = {}
    BY <2>c, <2>0, <2>1, <2>2, DataWord
  <2>4. /\ icw4["secondary"].expects = 0 /\ icw4["secondary"].base = ICW2["secondary"]
        /\ icw4["secondary"].irr = {} /\ icw4["secondary"].isr = {}
    BY <2>d, <2>0, <2>1, <2>2, DataWord
  <2> QED
    BY <1>3, <2>a, <2>1, <2>3, <2>4 DEF Chips
<1> HIDE DEF icw4
<1>5. mask \in Pics /\ Initialised(mask)
  <2> DEFINE one == (0..7) \ {CASCADE}
             two == 0..7
  <2>0. one \in Byte /\ two \in Byte /\ mask = Both(icw4, "data", one, two)
    BY <1>a, <1>b
  <2>a. one = (0..7) \ {CASCADE} /\ two = 0..7
    OBVIOUS
  <2> HIDE DEF one, two, mask
  <2>b. icw4 \in Pics
    BY <1>4
  <2>1. /\ mask \in Pics
        /\ mask["primary"] = Written(icw4["primary"], "data", one)
        /\ mask["secondary"] = Written(icw4["secondary"], "data", two)
    BY <1>c, <2>0, <2>b, BothFacts
  <2>2. icw4["primary"] \in Chip /\ icw4["secondary"] \in Chip
    BY <2>b, <1>d
  <2>c. /\ icw4["primary"].expects = 0 /\ icw4["primary"].base = ICW2["primary"]
        /\ icw4["primary"].irr = {} /\ icw4["primary"].isr = {}
    BY <1>4, <1>a
  <2>d. /\ icw4["secondary"].expects = 0 /\ icw4["secondary"].base = ICW2["secondary"]
        /\ icw4["secondary"].irr = {} /\ icw4["secondary"].isr = {}
    BY <1>4, <1>a
  <2>3. /\ mask["primary"].expects = 0 /\ mask["primary"].base = ICW2["primary"]
        /\ mask["primary"].irr = {} /\ mask["primary"].isr = {}
        /\ mask["primary"].imr = one
    BY <2>c, <2>0, <2>1, <2>2, DataWord
  <2>4. /\ mask["secondary"].expects = 0 /\ mask["secondary"].base = ICW2["secondary"]
        /\ mask["secondary"].irr = {} /\ mask["secondary"].isr = {}
        /\ mask["secondary"].imr = two
    BY <2>d, <2>0, <2>1, <2>2, DataWord
  <2> QED
    BY <1>4, <2>a, <2>1, <2>3, <2>4 DEF Chips, Initialised
<1> HIDE DEF mask
<1>6. elcr \in Pics /\ Initialised(elcr)
  <2> DEFINE one == p["primary"].level
             two == p["secondary"].level \cup {1}
  <2>0. one \in Byte /\ two \in Byte /\ elcr = Both(mask, "elcr", one, two)
    BY <1>a, <1>b
  <2>a. one = p["primary"].level /\ two = p["secondary"].level \cup {1}
    OBVIOUS
  <2> HIDE DEF one, two, elcr
  <2>b. mask \in Pics
    BY <1>5
  <2>1. /\ elcr \in Pics
        /\ elcr["primary"] = Written(mask["primary"], "elcr", one)
        /\ elcr["secondary"] = Written(mask["secondary"], "elcr", two)
    BY <1>c, <2>0, <2>b, BothFacts
  <2>2. mask["primary"] \in Chip /\ mask["secondary"] \in Chip
    BY <2>b, <1>d
  <2>c. /\ mask["primary"].expects = 0 /\ mask["primary"].base = ICW2["primary"]
        /\ mask["primary"].irr = {} /\ mask["primary"].isr = {}
    BY <1>5, <1>a DEF Initialised
  <2>d. /\ mask["secondary"].expects = 0 /\ mask["secondary"].base = ICW2["secondary"]
        /\ mask["secondary"].irr = {} /\ mask["secondary"].isr = {}
    BY <1>5, <1>a DEF Initialised
  <2>3. /\ elcr["primary"].expects = 0 /\ elcr["primary"].base = ICW2["primary"]
        /\ elcr["primary"].irr = {} /\ elcr["primary"].isr = {}
        /\ elcr["primary"].imr = mask["primary"].imr
    BY <2>c, <2>0, <2>1, <2>2, LevelWord
  <2>4. /\ elcr["secondary"].expects = 0 /\ elcr["secondary"].base = ICW2["secondary"]
        /\ elcr["secondary"].irr = {} /\ elcr["secondary"].isr = {}
        /\ elcr["secondary"].imr = mask["secondary"].imr
    BY <2>d, <2>0, <2>1, <2>2, LevelWord
  <2> QED
    BY <1>5, <2>a, <2>1, <2>3, <2>4 DEF Chips, Initialised
<1> HIDE DEF elcr
<1> QED
  BY <1>0, <1>6

(* pic_unmask_irq(0) opens the timer's input and changes nothing else       *)
LEMMA UnmaskFacts ==
  ASSUME NEW p \in Pics, p["primary"].expects = 0,
         NEW q, q = pic_unmask_irq(p, TIMER_LINE)
  PROVE  /\ q \in Pics /\ q["secondary"] = p["secondary"]
         /\ q["primary"].expects = 0 /\ q["primary"].base = p["primary"].base
         /\ q["primary"].irr = p["primary"].irr /\ q["primary"].isr = p["primary"].isr
         /\ q["primary"].imr = p["primary"].imr \ {TIMER_LINE}
<1> DEFINE b == p["primary"].imr \ {TIMER_LINE}
<1>1. p["primary"] \in Chip /\ b \in Byte
  BY DEF Pics, Chips, Chip, Byte
<1>2. ChipOf(TIMER_LINE) = "primary" /\ InputOf(TIMER_LINE) = TIMER_LINE
  BY DEF ChipOf, InputOf, TIMER_LINE
<1>3. q = Out(p, "primary", "data", b)
  BY <1>2 DEF pic_unmask_irq, pic_send_data
<1> HIDE DEF b
<1>4. /\ q \in Pics /\ q["secondary"] = p["secondary"]
      /\ q["primary"] = Written(p["primary"], "data", b)
  <2>1. "primary" \in Chips /\ "secondary" \in Chips /\ "data" \in Ports
    BY DEF Chips, Ports
  <2>2. b \in Byte
    BY <1>1
  <2>3. /\ q \in Pics
        /\ \A c \in Chips : q[c] = IF c = "primary" THEN Written(p[c], "data", b) ELSE p[c]
    BY <1>3, <2>1, <2>2, OutFacts
  <2> QED
    BY <2>1, <2>3
<1>5. /\ q["primary"].expects = 0 /\ q["primary"].base = p["primary"].base
      /\ q["primary"].irr = p["primary"].irr /\ q["primary"].isr = p["primary"].isr
      /\ q["primary"].imr = b
  BY <1>1, <1>4, DataWord
<1> QED
  BY <1>4, <1>5 DEF b

(* the end of the timer's interrupt                                         *)
LEMMA EoiFacts ==
  ASSUME NEW p \in Pics, NEW q, q = pic_send_eoi(p, 0)
  PROVE  /\ q \in Pics /\ q["secondary"] = p["secondary"]
         /\ q["primary"].expects = p["primary"].expects /\ q["primary"].base = p["primary"].base
         /\ q["primary"].irr = p["primary"].irr /\ q["primary"].imr = p["primary"].imr
         /\ p["primary"].isr = {0} => q["primary"].isr = {}
<1>1. q = Out(p, "primary", "command", PIC_EOI_MSG)
  BY DEF pic_send_eoi, pic_send_cmd
<1>2. p["primary"] \in Chip
  BY DEF Pics, Chips
<1>3. /\ q \in Pics /\ q["secondary"] = p["secondary"]
      /\ q["primary"] = Written(p["primary"], "command", PIC_EOI_MSG)
  <2>1. "primary" \in Chips /\ "secondary" \in Chips /\ "command" \in Ports
    BY DEF Chips, Ports
  <2>2. PIC_EOI_MSG \in Byte
    BY ByteFacts
  <2>3. /\ q \in Pics
        /\ \A c \in Chips : q[c] = IF c = "primary" THEN Written(p[c], "command", PIC_EOI_MSG) ELSE p[c]
    BY <1>1, <2>1, <2>2, OutFacts
  <2> QED
    BY <2>1, <2>3
<1>4. /\ q["primary"].expects = p["primary"].expects /\ q["primary"].base = p["primary"].base
      /\ q["primary"].irr = p["primary"].irr /\ q["primary"].imr = p["primary"].imr
      /\ q["primary"].isr = IF p["primary"].isr = {} THEN {}
                           ELSE p["primary"].isr \ {Highest(p["primary"].isr)}
  BY <1>2, <1>3, EoiWord
<1>5. Highest({0}) = 0
  <2>1. \E i \in {0} : \A j \in {0} : i <= j
    OBVIOUS
  <2> QED
    BY <2>1 DEF Highest
<1> QED
  BY <1>3, <1>4, <1>5

(* reading a register of both chips                                         *)
LEMMA ReadFacts ==
  ASSUME NEW p \in Pics, NEW ocw \in {PIC_READ_ISR_OCW, PIC_READ_IRR_OCW},
         NEW q, q = pic_read_irq(p, ocw)
  PROVE  q \in Pics /\ q["primary"].irr = p["primary"].irr
<1>1. q = Both(p, "command", ocw, ocw)
  BY DEF pic_read_irq
<1>2. p["primary"] \in Chip
  BY DEF Pics, Chips
<1>3. ocw \in Byte /\ "command" \in Ports
  BY ByteFacts DEF Ports
<1>4. q \in Pics /\ q["primary"] = Written(p["primary"], "command", ocw)
  BY <1>1, <1>3, BothFacts
<1> QED
  BY <1>2, <1>4, ReadWord

(* a line that rises is remembered                                          *)
LEMMA RaisedFacts ==
  ASSUME NEW p \in Pics, NEW line \in Lines \ {CASCADE}
  PROVE  /\ Raised(p, line) \in Pics
         /\ \A c \in Chips :
              /\ Raised(p, line)[c].expects = p[c].expects /\ Raised(p, line)[c].base = p[c].base
              /\ Raised(p, line)[c].imr = p[c].imr /\ Raised(p, line)[c].isr = p[c].isr
         /\ CASCADE \in Raised(p, line)["primary"].irr => CASCADE \in p["primary"].irr
<1> DEFINE chip == ChipOf(line)
           d    == [p[chip] EXCEPT !.irr = @ \cup {InputOf(line)}]
<1>1. chip \in Chips /\ InputOf(line) \in 0..7 /\ (chip = "primary" => InputOf(line) = line)
  BY DEF ChipOf, InputOf, Chips, Lines
<1>2. \A c \in Chips : p[c] \in Chip
  BY DEF Pics
<1>3. p[chip].irr \cup {InputOf(line)} \in Byte
  BY <1>1, <1>2 DEF Chip, Byte
<1>4. /\ d \in Chip /\ d.expects = p[chip].expects /\ d.base = p[chip].base
      /\ d.imr = p[chip].imr /\ d.isr = p[chip].isr
      /\ d.irr = p[chip].irr \cup {InputOf(line)}
  BY <1>1, <1>2, <1>3 DEF Chip
<1>5. Raised(p, line) = [p EXCEPT ![chip] = d]
  BY DEF Raised, Pics
<1> HIDE DEF d, chip
<1>6. /\ Raised(p, line) \in Pics
      /\ \A c \in Chips : Raised(p, line)[c] = IF c = chip THEN d ELSE p[c]
  BY <1>1, <1>4, <1>5 DEF Pics
<1>7. "primary" \in Chips
  BY DEF Chips
<1>8. CASCADE \in Raised(p, line)["primary"].irr => CASCADE \in p["primary"].irr
  BY <1>1, <1>4, <1>6, <1>7
<1> QED
  BY <1>4, <1>6, <1>8

-----------------------------------------------------------------------------
(* In the idle loop only the timer can ask.                                 *)

LEMMA TimerAlone ==
  ASSUME NEW p \in Pics, CASCADE \notin p["primary"].irr,
         p["primary"].imr = (0..7) \ {CASCADE, TIMER_LINE}, p["secondary"].imr = 0..7,
         p["primary"].base = ICW2["primary"], p["primary"].isr = {}, Requests(p) # {}
  PROVE  /\ AcknowledgedLine(p) = TIMER_LINE /\ Vector(p, TIMER_LINE) = TIMER_VECTOR
         /\ ChipOf(TIMER_LINE) = "primary" /\ InputOf(TIMER_LINE) = TIMER_LINE
         /\ Number(p["primary"].base) = 32
<1>1. p["primary"] \in Chip /\ p["secondary"] \in Chip
  BY DEF Pics, Chips
<1>2. p["primary"].irr \in SUBSET (0..7) /\ p["secondary"].irr \in SUBSET (0..7)
  BY <1>1 DEF Chip, Byte
<1>3. Asking(p["secondary"], p["secondary"].irr) = {}
  BY <1>2 DEF Asking
<1>4. PrimaryInputs(p) = p["primary"].irr
  BY <1>3 DEF PrimaryInputs
<1>5. Requests(p) \subseteq {TIMER_LINE}
  BY <1>2, <1>4 DEF Requests, Asking
<1>6. Requests(p) = {TIMER_LINE}
  BY <1>5
<1>7. Highest(Requests(p)) = TIMER_LINE
  <2>1. \E i \in {0} : \A j \in {0} : i <= j
    OBVIOUS
  <2> QED
    BY <1>6, <2>1 DEF Highest, TIMER_LINE
<1>8. AcknowledgedLine(p) = TIMER_LINE
  BY <1>7 DEF AcknowledgedLine, CASCADE, TIMER_LINE
<1>9. ChipOf(TIMER_LINE) = "primary" /\ InputOf(TIMER_LINE) = TIMER_LINE
  BY DEF ChipOf, InputOf, TIMER_LINE
<1>10. Number(p["primary"].base) = 32
  <2>1. p["primary"].base = {5}
    BY DEF ICW2
  <2> QED
    BY <2>1 DEF Number
<1> QED
  BY <1>8, <1>9, <1>10 DEF Vector, TIMER_LINE, TIMER_VECTOR

LEMMA TimerTaken ==
  ASSUME NEW p \in Pics, AcknowledgedLine(p) = TIMER_LINE, p["primary"].isr = {},
         NEW q, q = Acknowledged(p)
  PROVE  /\ q \in Pics /\ q["secondary"] = p["secondary"]
         /\ q["primary"].expects = p["primary"].expects /\ q["primary"].base = p["primary"].base
         /\ q["primary"].imr = p["primary"].imr /\ q["primary"].isr = {0}
         /\ q["primary"].irr \subseteq p["primary"].irr
<1> DEFINE c == p["primary"]
           d == Taken(c, 0)
           d1 == [c EXCEPT !.irr = @ \ {0}]
<1>1. "primary" \in Chips /\ "secondary" \in Chips /\ c \in Chip
  BY DEF Pics, Chips
<1>2. d1 \in Chip /\ d1.isr = c.isr /\ d1.expects = c.expects /\ d1.base = c.base /\ d1.imr = c.imr
      /\ d1.irr = c.irr \ {0}
  <2>1. c.irr \ {0} \in Byte
    BY <1>1 DEF Chip, Byte
  <2> QED
    BY <1>1, <2>1 DEF Chip
<1>3. d = [d1 EXCEPT !.isr = @ \cup {0}]
  BY <1>1 DEF Taken, Chip
<1> HIDE DEF d1
<1>4. d \in Chip /\ d.isr = {0} /\ d.expects = c.expects /\ d.base = c.base /\ d.imr = c.imr
      /\ d.irr = c.irr \ {0}
  <2>1. d1.isr \cup {0} = {0} /\ {0} \in Byte
    BY <1>2 DEF Byte
  <2> QED
    BY <1>2, <1>3, <2>1 DEF Chip
<1>5. q = [p EXCEPT !["primary"] = d]
  BY DEF Acknowledged, TIMER_LINE
<1> HIDE DEF d
<1>6. q \in Pics /\ q["primary"] = d /\ q["secondary"] = p["secondary"]
  BY <1>1, <1>4, <1>5 DEF Pics
<1> QED
  BY <1>4, <1>6

(* the request that went away *)
LEMMA TimerGone ==
  ASSUME NEW p \in Pics, NEW q, q = [p EXCEPT !["primary"].irr = @ \ {TIMER_LINE}]
  PROVE  /\ q \in Pics /\ q["secondary"] = p["secondary"]
         /\ q["primary"].expects = p["primary"].expects /\ q["primary"].base = p["primary"].base
         /\ q["primary"].imr = p["primary"].imr /\ q["primary"].isr = p["primary"].isr
         /\ q["primary"].irr \subseteq p["primary"].irr
<1> DEFINE c == p["primary"]
           d == [c EXCEPT !.irr = @ \ {TIMER_LINE}]
<1>1. "primary" \in Chips /\ "secondary" \in Chips /\ c \in Chip
  BY DEF Pics, Chips
<1>2. d \in Chip /\ d.isr = c.isr /\ d.expects = c.expects /\ d.base = c.base /\ d.imr = c.imr
      /\ d.irr = c.irr \ {TIMER_LINE}
  <2>1. c.irr \ {TIMER_LINE} \in Byte
    BY <1>1 DEF Chip, Byte
  <2> QED
    BY <1>1, <2>1 DEF Chip
<1>3. q = [p EXCEPT !["primary"] = d]
  OBVIOUS
<1> HIDE DEF d
<1>4. q \in Pics /\ q["primary"] = d /\ q["secondary"] = p["secondary"]
  BY <1>1, <1>2, <1>3 DEF Pics
<1> QED
  BY <1>2, <1>4

-----------------------------------------------------------------------------
(* The way into 64-bit mode, and what runs in it.                           *)

StartupPart ==
  /\ StartupPlace
  /\ pc \in Steps /\ target \subseteq 0..15 /\ nofill \in BOOLEAN
  /\ stack \in {"none", "cache", "ram"} /\ segment \in {"real"} \cup ToSet(Gdt)

LEMMA GdtFacts ==
  /\ ToSet(Gdt) = {"null", "code32", "code64", "data64"}
  /\ Descriptor(8) = "code32" /\ Descriptor(16) = "code64" /\ Descriptor(GATE_SELECTOR) = "code64"
<1>1. /\ DOMAIN Gdt = {1, 2, 3, 4}
      /\ Gdt[1] = "null" /\ Gdt[2] = "code32" /\ Gdt[3] = "code64" /\ Gdt[4] = "data64"
  BY DEF Gdt
<1>2. 8 \div 8 + 1 = 2 /\ 16 \div 8 + 1 = 3
  OBVIOUS
<1> QED
  BY <1>1, <1>2 DEF ToSet, Descriptor, GATE_SELECTOR

(* a step in 64-bit mode that leaves the registers of the startup alone     *)
LEMMA StartupKept ==
  ASSUME StartupPart, UNCHANGED startup, segment' \in {segment, "code64"},
         pc \notin InRealMode, pc' \in Steps \ (InRealMode \cup {"lost"})
  PROVE  StartupPart'
<1>1. stack # "cache" /\ segment = "code64" /\ pc' # "init_cpu" /\ pc' # "lost"
  BY DEF StartupPart, StartupPlace, InRealMode
<1> QED
  BY <1>1, GdtFacts DEF StartupPart, StartupPlace, startup

(* whatever happens after setup_paging, but for the lines and the clock     *)
LEMMA DriverSteps ==
  ASSUME InitIdt \/ NewDevices \/ FindE820 \/ ReadRegion \/ MapRead \/ MapFromCmos \/ MemorySize \/
         AllocateTables \/ MapPage \/ SetPml4 \/ InitPic \/ InitKeyboard \/ CmosMonth \/ CmosAgain \/
         CmosGivesUp \/ InitPit \/ ProbeBuses \/ EnableInterrupts \/ PitHandler \/ DefaultHandler \/
         CmosPoll
  PROVE  /\ UNCHANGED <<startup, segment>> /\ pc \notin InRealMode
         /\ pc' \in Steps \ (InRealMode \cup {"lost"})
<1>1. CASE InitIdt
  BY <1>1 DEF InitIdt, Panic, mode, InRealMode, Steps
<1>2. CASE NewDevices
  BY <1>2 DEF NewDevices, Panic, mode, InRealMode, Steps
<1>3. CASE FindE820
  BY <1>3 DEF FindE820, mode, InRealMode, Steps
<1>4. CASE ReadRegion
  BY <1>4 DEF ReadRegion, mode, InRealMode, Steps
<1>5. CASE MapRead
  BY <1>5 DEF MapRead, mode, InRealMode, Steps
<1>6. CASE MapFromCmos
  BY <1>6 DEF MapFromCmos, mode, InRealMode, Steps
<1>7. CASE MemorySize
  BY <1>7 DEF MemorySize, mode, InRealMode, Steps
<1>8. CASE AllocateTables
  BY <1>8 DEF AllocateTables, Panic, mode, InRealMode, Steps
<1>9. CASE MapPage
  BY <1>9 DEF MapPage, mode, InRealMode, Steps
<1>10. CASE SetPml4
  BY <1>10 DEF SetPml4, mode, InRealMode, Steps
<1>11. CASE InitPic
  BY <1>11 DEF InitPic, mode, InRealMode, Steps
<1>12. CASE InitKeyboard
  BY <1>12 DEF InitKeyboard, Panic, mode, InRealMode, Steps
<1>13. CASE CmosMonth
  BY <1>13 DEF CmosMonth, NextAttempt, mode, InRealMode, Steps
<1>14. CASE CmosAgain
  BY <1>14 DEF CmosAgain, NextAttempt, mode, InRealMode, Steps
<1>15. CASE CmosGivesUp
  BY <1>15 DEF CmosGivesUp, mode, InRealMode, Steps
<1>16. CASE InitPit
  BY <1>16 DEF InitPit, mode, InRealMode, Steps
<1>17. CASE ProbeBuses
  BY <1>17 DEF ProbeBuses, Panic, mode, InRealMode, Steps
<1>18. CASE EnableInterrupts
  BY <1>18 DEF EnableInterrupts, mode, InRealMode, Steps
<1>19. CASE PitHandler
  BY <1>19 DEF PitHandler, mode, InRealMode, Steps
<1>20. CASE DefaultHandler
  BY <1>20 DEF DefaultHandler, Panic, mode, InRealMode, Steps
<1>21. CASE CmosPoll
  BY <1>21 DEF CmosPoll, mode, InRealMode, Steps
<1> QED
  BY <1>1, <1>2, <1>3, <1>4, <1>5, <1>6, <1>7, <1>8, <1>9, <1>10, <1>11, <1>12, <1>13, <1>14, <1>15, <1>16, <1>17, <1>18, <1>19, <1>20, <1>21

LEMMA StartupSteps ==
  ASSUME StartupPart, Startup
  PROVE  StartupPart'
<1>1. CASE CacheAsRam
  BY <1>1, GdtFacts DEF CacheAsRam, StartupPart, StartupPlace, mode, InRealMode, Steps
<1>2. CASE MoveStack
  BY <1>2, GdtFacts DEF MoveStack, StartupPart, StartupPlace, mode, InRealMode, Steps
<1>3. CASE DisableMtrr
  BY <1>3, GdtFacts DEF DisableMtrr, StartupPart, StartupPlace, mode, InRealMode, Steps
<1>4. CASE SwitchToProtected
  <2>1. deftype = {} /\ target' = 0..3 /\ pc' = "setup_paging" /\ segment' = "code32"
    <3>1. deftype = {}
      BY <1>4 DEF SwitchToProtected, StartupPart, StartupPlace
    <3>2. target' = 0..3
      BY <1>4, <3>1 DEF SwitchToProtected
    <3> QED
      BY <1>4, <3>1, <3>2, GdtFacts DEF SwitchToProtected
  <2>2. /\ pc = "init_cpu" /\ cr3' = cr3 /\ deftype' = deftype
        /\ nofill' = nofill /\ stack' = stack
    BY <1>4 DEF SwitchToProtected
  <2>3. 0..3 \subseteq 0..15
    OBVIOUS
  <2> QED
    BY <2>1, <2>2, <2>3, GdtFacts DEF StartupPart, StartupPlace, InRealMode, Steps
<1>5. CASE SetupPaging
  BY <1>5, GdtFacts DEF SetupPaging, StartupPart, StartupPlace, startup, InRealMode, Steps
<1> QED
  BY <1>1, <1>2, <1>3, <1>4, <1>5 DEF Startup

-----------------------------------------------------------------------------
(* Interrupts.                                                              *)

InterruptPart ==
  /\ InterruptPlace
  /\ interrupts \in BOOLEAN /\ vector \in Vectors \cup {-1}
  /\ pic \in Pics /\ pit \in Pit /\ idt \in [Vectors -> Handlers]

(* a step of the boot that leaves the chips alone: the stretch it ends in    *)
(* has not more set up than the one it starts in                             *)
QuietMove ==
  /\ pc \in BeforeHalt /\ pc' \in BeforeHalt \cup Stopped
  /\ pc \in BeforeIdt => pc' \in BeforeIdt \cup Stopped
  /\ pc \in BeforePic => pc' \in BeforePic \cup Stopped
  /\ pc \in BeforePit => pc' \in BeforePit \cup Stopped

LEMMA QuietKept ==
  ASSUME InterruptPart, UNCHANGED <<chips, interrupts, vector>>, QuietMove
  PROVE  InterruptPart'
<1>1. pc # "halt" /\ pc' # "halt" /\ pc \notin Stopped /\ pc # "pit_int_handler" /\ pc' # "pit_int_handler"
  BY DEF QuietMove, BeforeHalt, BeforePit, BeforePic, BeforeMap, Stopped
<1>2. /\ pic' = pic /\ pit' = pit /\ idt' = idt
      /\ interrupts' = interrupts /\ vector' = vector
  BY DEF chips
<1>3. pc' \notin BeforeIdt \cup Stopped => Handled'
  BY <1>1, <1>2 DEF InterruptPart, InterruptPlace, QuietMove, Handled
<1>4. pc' \notin BeforePic \cup Stopped =>
        /\ ChipsReady(IF pc \in BeforeHalt THEN {CASCADE} ELSE {CASCADE, TIMER_LINE})'
        /\ pic'["primary"].isr = IF pc' = "pit_int_handler" THEN {0} ELSE {}
  <2> SUFFICES ASSUME pc' \notin BeforePic \cup Stopped
               PROVE  /\ ChipsReady({CASCADE})' /\ pic'["primary"].isr = {}
    BY <1>1 DEF QuietMove
  <2>1. pc \notin BeforePic \cup Stopped
    BY <1>1 DEF QuietMove
  <2>2. ChipsReady({CASCADE}) /\ pic["primary"].isr = {}
    BY <1>1, <2>1 DEF InterruptPart, InterruptPlace, QuietMove
  <2> QED
    BY <1>2, <2>2 DEF ChipsReady
<1>5. pc' \notin BeforePit \cup Stopped => idt'[TIMER_VECTOR] = "pit_int_handler"
  BY <1>1, <1>2 DEF InterruptPart, InterruptPlace, QuietMove
<1>6. (interrupts' => pc' = "halt") /\ CASCADE \notin pic'["primary"].irr
  BY <1>1, <1>2 DEF InterruptPart, InterruptPlace
<1> QED
  BY <1>2, <1>3, <1>4, <1>5, <1>6 DEF InterruptPart, InterruptPlace

LEMMA QuietSteps ==
  ASSUME CacheAsRam \/ MoveStack \/ DisableMtrr \/ SetupPaging \/ NewDevices \/ FindE820 \/
         ReadRegion \/ MapRead \/ MapFromCmos \/ MemorySize \/ AllocateTables \/ MapPage \/
         SetPml4 \/ InitKeyboard \/ CmosPoll \/ CmosMonth \/ CmosAgain \/ CmosGivesUp \/
         ProbeBuses
  PROVE  UNCHANGED <<chips, interrupts, vector>> /\ QuietMove
<1>1. CASE CacheAsRam
  BY <1>1 DEF CacheAsRam, QuietMove, BeforeHalt, BeforePit, BeforePic, BeforeIdt,
     BeforeMap, InRealMode, Stopped
<1>2. CASE MoveStack
  BY <1>2 DEF MoveStack, QuietMove, BeforeHalt, BeforePit, BeforePic, BeforeIdt,
     BeforeMap, InRealMode, Stopped
<1>3. CASE DisableMtrr
  BY <1>3 DEF DisableMtrr, QuietMove, BeforeHalt, BeforePit, BeforePic, BeforeIdt,
     BeforeMap, InRealMode, Stopped
<1>4. CASE SetupPaging
  BY <1>4 DEF SetupPaging, QuietMove, BeforeHalt, BeforePit, BeforePic, BeforeIdt,
     BeforeMap, InRealMode, Stopped
<1>5. CASE NewDevices
  BY <1>5 DEF NewDevices, Panic, QuietMove, BeforeHalt, BeforePit, BeforePic, BeforeIdt,
     BeforeMap, InRealMode, Stopped
<1>6. CASE FindE820
  BY <1>6 DEF FindE820, QuietMove, BeforeHalt, BeforePit, BeforePic, BeforeIdt,
     BeforeMap, InRealMode, Stopped
<1>7. CASE ReadRegion
  BY <1>7 DEF ReadRegion, QuietMove, BeforeHalt, BeforePit, BeforePic, BeforeIdt,
     BeforeMap, InRealMode, Stopped
<1>8. CASE MapRead
  BY <1>8 DEF MapRead, QuietMove, BeforeHalt, BeforePit, BeforePic, BeforeIdt,
     BeforeMap, InRealMode, Stopped
<1>9. CASE MapFromCmos
  BY <1>9 DEF MapFromCmos, QuietMove, BeforeHalt, BeforePit, BeforePic, BeforeIdt,
     BeforeMap, InRealMode, Stopped
<1>10. CASE MemorySize
  BY <1>10 DEF MemorySize, QuietMove, BeforeHalt, BeforePit, BeforePic, BeforeIdt,
     BeforeMap, InRealMode, Stopped
<1>11. CASE AllocateTables
  BY <1>11 DEF AllocateTables, Panic, QuietMove, BeforeHalt, BeforePit, BeforePic, BeforeIdt,
     BeforeMap, InRealMode, Stopped
<1>12. CASE MapPage
  BY <1>12 DEF MapPage, QuietMove, BeforeHalt, BeforePit, BeforePic, BeforeIdt,
     BeforeMap, InRealMode, Stopped
<1>13. CASE SetPml4
  BY <1>13 DEF SetPml4, QuietMove, BeforeHalt, BeforePit, BeforePic, BeforeIdt,
     BeforeMap, InRealMode, Stopped
<1>14. CASE InitKeyboard
  BY <1>14 DEF InitKeyboard, Panic, QuietMove, BeforeHalt, BeforePit, BeforePic, BeforeIdt,
     BeforeMap, InRealMode, Stopped
<1>15. CASE CmosPoll
  BY <1>15 DEF CmosPoll, QuietMove, BeforeHalt, BeforePit, BeforePic, BeforeIdt,
     BeforeMap, InRealMode, Stopped
<1>16. CASE CmosMonth
  BY <1>16 DEF CmosMonth, NextAttempt, QuietMove, BeforeHalt, BeforePit, BeforePic, BeforeIdt,
     BeforeMap, InRealMode, Stopped
<1>17. CASE CmosAgain
  BY <1>17 DEF CmosAgain, NextAttempt, QuietMove, BeforeHalt, BeforePit, BeforePic, BeforeIdt,
     BeforeMap, InRealMode, Stopped
<1>18. CASE CmosGivesUp
  BY <1>18 DEF CmosGivesUp, QuietMove, BeforeHalt, BeforePit, BeforePic, BeforeIdt,
     BeforeMap, InRealMode, Stopped
<1>19. CASE ProbeBuses
  BY <1>19 DEF ProbeBuses, Panic, QuietMove, BeforeHalt, BeforePit, BeforePic, BeforeIdt,
     BeforeMap, InRealMode, Stopped
<1> QED
  BY <1>1, <1>2, <1>3, <1>4, <1>5, <1>6, <1>7, <1>8, <1>9, <1>10, <1>11, <1>12, <1>13, <1>14, <1>15, <1>16, <1>17, <1>18, <1>19

LEMMA SwitchQuiet ==
  ASSUME StartupPart, SwitchToProtected
  PROVE  UNCHANGED <<chips, interrupts, vector>> /\ QuietMove
<1>1. target' = 0..3
  BY DEF SwitchToProtected, StartupPart, StartupPlace
<1>2. pc = "init_cpu" /\ pc' = "setup_paging"
  BY <1>1 DEF SwitchToProtected
<1> QED
  BY <1>2 DEF SwitchToProtected, QuietMove, BeforeHalt, BeforePit, BeforePic, BeforeIdt,
     BeforeMap, InRealMode, Stopped

LEMMA InterruptsBegin == Init => InterruptPart
<1> SUFFICES ASSUME Init PROVE InterruptPart
  OBVIOUS
<1>1. ResetChip \in Chip
  <2>1. {} \in Byte
    BY DEF Byte
  <2> QED
    BY <2>1 DEF ResetChip, Chip
<1>2. pic \in Pics /\ pic["primary"].irr = {}
  BY <1>1 DEF Init, Pics, Chips, ResetChip
<1>3. pit \in Pit
  BY DEF Init, Pit
<1>4. idt \in [Vectors -> Handlers]
  BY DEF Init, NoIdt, Handlers
<1>5. interrupts = FALSE /\ vector = -1 /\ pc = "reset"
  BY DEF Init
<1>6. pc \in BeforeIdt /\ pc \in BeforePic /\ pc \in BeforePit
  BY <1>5 DEF BeforeIdt, BeforePit, BeforePic, BeforeMap, InRealMode, Stopped
<1> QED
  BY <1>2, <1>3, <1>4, <1>5, <1>6 DEF InterruptPart, InterruptPlace

(* the steps that set something up *)
LEMMA IdtStep ==
  ASSUME InterruptPart, InitIdt
  PROVE  InterruptPart'
<1>1. /\ pc = "init_idt" /\ pc' \in {"devices", "panic"}
      /\ UNCHANGED <<pic, pit, interrupts, vector>>
      /\ IF pc' = "devices" THEN idt' = init_idt ELSE idt' = idt
  BY DEF InitIdt, Panic
<1>2. pc # "halt" /\ pc' \in BeforePic \cup Stopped /\ pc' \in BeforePit \cup Stopped
  BY <1>1 DEF BeforePic, BeforePit, BeforeMap, Stopped
<1>3. pc' = "devices" => idt' \in [Vectors -> Handlers] /\ Handled'
  BY <1>1 DEF init_idt, Handlers, Handled
<1> QED
  BY <1>1, <1>2, <1>3 DEF InterruptPart, InterruptPlace, Stopped

LEMMA PicStep ==
  ASSUME InterruptPart, InitPic
  PROVE  InterruptPart'
<1>1. /\ pc = "pic" /\ pc' = "keyboard" /\ UNCHANGED <<pit, idt, interrupts, vector>>
      /\ pic' = pic_initialize(pic)
  BY DEF InitPic
<1>2. pic' \in Pics /\ Initialised(pic')
  BY <1>1, InitializeFacts DEF InterruptPart
<1>3. /\ pc # "halt" /\ pc \notin BeforeIdt \cup Stopped
      /\ pc' \in BeforeHalt /\ pc' \in BeforePit
  BY <1>1 DEF BeforeHalt, BeforePit, BeforePic, BeforeIdt, BeforeMap, InRealMode, Stopped
<1>4. Handled'
  BY <1>1, <1>3 DEF InterruptPart, InterruptPlace, Handled
<1>5. ChipsReady({CASCADE})' /\ pic'["primary"].isr = {} /\ pic'["primary"].irr = {}
  BY <1>2 DEF Initialised, ChipsReady, Chips
<1> QED
  BY <1>1, <1>2, <1>3, <1>4, <1>5 DEF InterruptPart, InterruptPlace

LEMMA CountByte ==
  ASSUME NEW t \in Pit, t.count < 2, NEW b
  PROVE  /\ PitOut(t, [port |-> "channel_0", byte |-> b]) \in Pit
         /\ PitOut(t, [port |-> "channel_0", byte |-> b]).count = t.count + 1
<1> DEFINE w    == [port |-> "channel_0", byte |-> b]
           t1   == [t EXCEPT !.count = @ + 1]
           runs == t.access # "lo_and_hi_byte" \/ t.count = 1
<1>1. w.port = "channel_0"
  OBVIOUS
<1> HIDE DEF w
<1>2. PitOut(t, w) = [t1 EXCEPT !.running = runs]
  BY <1>1 DEF PitOut
<1>3. t1 \in Pit /\ t1.count = t.count + 1 /\ runs \in BOOLEAN
  BY DEF Pit
<1> HIDE DEF t1, runs
<1> QED
  BY <1>2, <1>3 DEF Pit, w

LEMMA PitStep ==
  ASSUME InterruptPart, InitPit
  PROVE  InterruptPart'
<1>1. /\ pc = "pit" /\ pc' = "buses" /\ UNCHANGED <<pic, interrupts, vector>>
      /\ pit' = pit_init(pit) /\ idt' = [idt EXCEPT ![TIMER_VECTOR] = "pit_int_handler"]
  BY DEF InitPit, add_interrupt_handler
<1>2. /\ pc # "halt" /\ pc \notin BeforeIdt \cup Stopped /\ pc \notin BeforePic \cup Stopped
      /\ pc \in BeforeHalt /\ pc' \in BeforeHalt /\ pc # "pit_int_handler"
      /\ pc' # "pit_int_handler" /\ pc' # "halt"
  BY <1>1 DEF BeforeHalt, BeforePit, BeforePic, BeforeIdt, BeforeMap, InRealMode, Stopped
<1>3. /\ TIMER_VECTOR \in Vectors /\ idt \in [Vectors -> Handlers]
      /\ Handled
  BY <1>2 DEF InterruptPart, InterruptPlace, TIMER_VECTOR, Vectors
<1>4. /\ idt' \in [Vectors -> Handlers] /\ idt'[TIMER_VECTOR] = "pit_int_handler"
      /\ Handled'
  BY <1>1, <1>3 DEF Handlers, Handled
<1>5. pit_init(pit) \in Pit
  <2> DEFINE commanded == pit_write_command(pit, PIT_COMMAND)
             low       == PitOut(commanded, [port |-> "channel_0", byte |-> 0])
             high      == PitOut(low, [port |-> "channel_0", byte |-> 16])
  <2>1. commanded = [mode |-> "square_wave_generator", access |-> "lo_and_hi_byte",
                     count |-> 0, running |-> FALSE]
    BY DEF pit_write_command, PitOut, PIT_COMMAND
  <2> HIDE DEF commanded
  <2>a. commanded \in Pit /\ commanded.count = 0
    BY <2>1 DEF Pit
  <2>2. low \in Pit /\ low.count = 1
    BY <2>a, CountByte
  <2> HIDE DEF low
  <2>3. high \in Pit
    BY <2>2, CountByte
  <2>4. pit_init(pit) = high
    BY DEF pit_init, high, low, commanded
  <2> QED
    BY <2>3, <2>4
<1>6. ChipsReady({CASCADE})' /\ pic'["primary"].isr = {} /\ CASCADE \notin pic'["primary"].irr
  <2>1. ChipsReady({CASCADE}) /\ pic["primary"].isr = {} /\ CASCADE \notin pic["primary"].irr
    BY <1>2 DEF InterruptPart, InterruptPlace
  <2> QED
    BY <1>1, <2>1 DEF ChipsReady
<1> QED
  BY <1>1, <1>2, <1>4, <1>5, <1>6 DEF InterruptPart, InterruptPlace

LEMMA EnableStep ==
  ASSUME InterruptPart, EnableInterrupts
  PROVE  InterruptPart'
<1>1. /\ pc = "unmask" /\ pc' = "halt" /\ interrupts' = TRUE /\ UNCHANGED <<pit, idt, vector>>
      /\ pic' = pic_unmask_irq(pic, TIMER_LINE)
  BY DEF EnableInterrupts
<1>2. /\ pc \notin BeforeIdt \cup Stopped /\ pc \notin BeforePic \cup Stopped
      /\ pc \notin BeforePit \cup Stopped /\ pc \in BeforeHalt /\ pc' \notin BeforeHalt
  BY <1>1 DEF BeforeHalt, BeforePit, BeforePic, BeforeIdt, BeforeMap, InRealMode, Stopped
<1>3. /\ ChipsReady({CASCADE}) /\ pic["primary"].isr = {} /\ CASCADE \notin pic["primary"].irr
      /\ pic \in Pics
  BY <1>1, <1>2 DEF InterruptPart, InterruptPlace
<1>4. /\ pic["primary"].expects = 0 /\ pic["primary"].base = ICW2["primary"]
      /\ pic["primary"].imr = (0..7) \ {CASCADE}
  BY <1>3 DEF ChipsReady, Chips
<1>5. /\ pic' \in Pics /\ pic'["secondary"] = pic["secondary"]
      /\ pic'["primary"].expects = 0 /\ pic'["primary"].base = pic["primary"].base
      /\ pic'["primary"].irr = pic["primary"].irr /\ pic'["primary"].isr = pic["primary"].isr
      /\ pic'["primary"].imr = pic["primary"].imr \ {TIMER_LINE}
  BY <1>1, <1>3, <1>4, UnmaskFacts
<1>6. ChipsReady({CASCADE, TIMER_LINE})'
  BY <1>3, <1>4, <1>5 DEF ChipsReady, Chips
<1>7. /\ Handled'
      /\ idt'[TIMER_VECTOR] = "pit_int_handler"
  BY <1>1, <1>2 DEF InterruptPart, InterruptPlace, Handled
<1> QED
  BY <1>1, <1>2, <1>3, <1>5, <1>6, <1>7 DEF InterruptPart, InterruptPlace

(* the idle loop and the handlers *)
LEMMA EoiStep ==
  ASSUME InterruptPart, PitHandler
  PROVE  InterruptPart'
<1>1. /\ pc = "pit_int_handler" /\ pc' = "halt" /\ interrupts' = TRUE
      /\ UNCHANGED <<pit, idt, vector>> /\ pic' = pic_send_eoi(pic, 0)
  BY DEF PitHandler
<1>2. /\ pc \notin BeforeIdt \cup Stopped /\ pc \notin BeforePic \cup Stopped
      /\ pc \notin BeforePit \cup Stopped /\ pc \notin BeforeHalt /\ pc' \notin BeforeHalt
  BY <1>1 DEF BeforeHalt, BeforePit, BeforePic, BeforeIdt, BeforeMap, InRealMode, Stopped
<1>3. /\ ChipsReady({CASCADE, TIMER_LINE}) /\ pic["primary"].isr = {0}
      /\ CASCADE \notin pic["primary"].irr /\ pic \in Pics
  BY <1>1, <1>2 DEF InterruptPart, InterruptPlace
<1>4. /\ pic' \in Pics /\ pic'["secondary"] = pic["secondary"]
      /\ pic'["primary"].expects = pic["primary"].expects /\ pic'["primary"].base = pic["primary"].base
      /\ pic'["primary"].irr = pic["primary"].irr /\ pic'["primary"].imr = pic["primary"].imr
      /\ pic'["primary"].isr = {}
  BY <1>1, <1>3, EoiFacts
<1>5. ChipsReady({CASCADE, TIMER_LINE})'
  BY <1>3, <1>4 DEF ChipsReady, Chips
<1>6. /\ Handled'
      /\ idt'[TIMER_VECTOR] = "pit_int_handler"
  BY <1>1, <1>2 DEF InterruptPart, InterruptPlace, Handled
<1> QED
  BY <1>1, <1>2, <1>3, <1>4, <1>5, <1>6 DEF InterruptPart, InterruptPlace

LEMMA DefaultStep ==
  ASSUME InterruptPart, DefaultHandler
  PROVE  InterruptPart'
<1> DEFINE q == pic_read_irq(pic, PIC_READ_ISR_OCW)
<1>1. /\ pc = "default_int_handler" /\ pc' = "panic"
      /\ UNCHANGED <<pit, idt, interrupts, vector>> /\ pic' = pic_read_irq(q, PIC_READ_IRR_OCW)
  BY DEF DefaultHandler, Panic
<1>2. q \in Pics /\ q["primary"].irr = pic["primary"].irr
  BY ReadFacts DEF InterruptPart
<1> HIDE DEF q
<1>3. pic' \in Pics /\ pic'["primary"].irr = q["primary"].irr
  BY <1>1, <1>2, ReadFacts
<1> QED
  BY <1>1, <1>2, <1>3 DEF InterruptPart, InterruptPlace, Stopped

(* what is known where interrupts are on *)
LEMMA IdleFacts ==
  ASSUME InterruptPart, interrupts, Requests(pic) # {}
  PROVE  /\ pc = "halt" /\ ChipsReady({CASCADE, TIMER_LINE}) /\ pic["primary"].isr = {}
         /\ CASCADE \notin pic["primary"].irr /\ pic \in Pics
         /\ AcknowledgedLine(pic) = TIMER_LINE /\ Vector(pic, TIMER_LINE) = TIMER_VECTOR
         /\ ChipOf(TIMER_LINE) = "primary" /\ InputOf(TIMER_LINE) = TIMER_LINE
         /\ Number(pic["primary"].base) = 32
         /\ Handled
         /\ idt[TIMER_VECTOR] = "pit_int_handler" /\ idt \in [Vectors -> Handlers]
<1>1. pc = "halt"
  BY DEF InterruptPart, InterruptPlace
<1>2. /\ pc \notin BeforeIdt \cup Stopped /\ pc \notin BeforePic \cup Stopped
      /\ pc \notin BeforePit \cup Stopped /\ pc \notin BeforeHalt
  BY <1>1 DEF BeforeHalt, BeforePit, BeforePic, BeforeIdt, BeforeMap, InRealMode, Stopped
<1>3. /\ ChipsReady({CASCADE, TIMER_LINE}) /\ pic["primary"].isr = {}
      /\ CASCADE \notin pic["primary"].irr /\ pic \in Pics
      /\ Handled
      /\ idt[TIMER_VECTOR] = "pit_int_handler" /\ idt \in [Vectors -> Handlers]
  BY <1>1, <1>2 DEF InterruptPart, InterruptPlace
<1>4. /\ pic["primary"].imr = (0..7) \ {CASCADE, TIMER_LINE} /\ pic["secondary"].imr = 0..7
      /\ pic["primary"].base = ICW2["primary"]
  BY <1>3 DEF ChipsReady, Chips
<1>5. /\ AcknowledgedLine(pic) = TIMER_LINE /\ Vector(pic, TIMER_LINE) = TIMER_VECTOR
      /\ ChipOf(TIMER_LINE) = "primary" /\ InputOf(TIMER_LINE) = TIMER_LINE
      /\ Number(pic["primary"].base) = 32
  BY <1>3, <1>4, TimerAlone
<1> QED
  BY <1>1, <1>3, <1>5

LEMMA TakeStep ==
  ASSUME InterruptPart, TakeInterrupt
  PROVE  InterruptPart' /\ pc = "halt" /\ pc' \in Handlers \ {"none"}
<1>1. /\ interrupts /\ Requests(pic) # {} /\ pic' = Acknowledged(pic)
      /\ Enter(Vector(pic, AcknowledgedLine(pic))) /\ UNCHANGED <<pit, idt>>
  BY DEF TakeInterrupt
<1>2. /\ pc = "halt" /\ ChipsReady({CASCADE, TIMER_LINE}) /\ pic["primary"].isr = {}
      /\ CASCADE \notin pic["primary"].irr /\ pic \in Pics
      /\ AcknowledgedLine(pic) = TIMER_LINE /\ Vector(pic, TIMER_LINE) = TIMER_VECTOR
      /\ Handled
      /\ idt[TIMER_VECTOR] = "pit_int_handler" /\ idt \in [Vectors -> Handlers]
  BY <1>1, IdleFacts
<1>3. vector' = TIMER_VECTOR /\ interrupts' = FALSE /\ pc' = "pit_int_handler"
  BY <1>1, <1>2 DEF Enter, Handlers
<1>4. /\ pic' \in Pics /\ pic'["secondary"] = pic["secondary"]
      /\ pic'["primary"].expects = pic["primary"].expects /\ pic'["primary"].base = pic["primary"].base
      /\ pic'["primary"].imr = pic["primary"].imr /\ pic'["primary"].isr = {0}
      /\ pic'["primary"].irr \subseteq pic["primary"].irr
  BY <1>1, <1>2, TimerTaken
<1>5. ChipsReady({CASCADE, TIMER_LINE})'
  BY <1>2, <1>4 DEF ChipsReady, Chips
<1>6. pc' \notin BeforeHalt /\ TIMER_VECTOR \in Vectors
  BY <1>3 DEF BeforeHalt, BeforePit, BeforePic, BeforeMap, TIMER_VECTOR, Vectors
<1> QED
  BY <1>1, <1>2, <1>3, <1>4, <1>5, <1>6 DEF InterruptPart, InterruptPlace, Handlers, Handled

LEMMA SpuriousStep ==
  ASSUME InterruptPart, TakeSpurious
  PROVE  InterruptPart' /\ pc = "halt" /\ pc' \in Handlers \ {"none"}
<1>1. /\ interrupts /\ Requests(pic) # {} /\ UNCHANGED <<pit, idt>>
      /\ pic' = [pic EXCEPT ![ChipOf(AcknowledgedLine(pic))].irr =
                               @ \ {InputOf(AcknowledgedLine(pic))}]
      /\ Enter(Number(pic["primary"].base) + SPURIOUS)
  BY DEF TakeSpurious
<1>2. /\ pc = "halt" /\ ChipsReady({CASCADE, TIMER_LINE}) /\ pic["primary"].isr = {}
      /\ CASCADE \notin pic["primary"].irr /\ pic \in Pics
      /\ AcknowledgedLine(pic) = TIMER_LINE /\ Number(pic["primary"].base) = 32
      /\ ChipOf(TIMER_LINE) = "primary" /\ InputOf(TIMER_LINE) = TIMER_LINE
      /\ Handled
      /\ idt[TIMER_VECTOR] = "pit_int_handler" /\ idt \in [Vectors -> Handlers]
  BY <1>1, IdleFacts
<1>3. vector' = 39 /\ interrupts' = FALSE /\ pc' = "default_int_handler" /\ 39 \in Vectors
  <2>1. 32 + SPURIOUS = 39 /\ 39 \in Vectors /\ 39 # TIMER_VECTOR
    BY DEF SPURIOUS, Vectors, TIMER_VECTOR
  <2>2. idt[39] = "default_int_handler"
    BY <1>2, <2>1 DEF Handled
  <2> QED
    BY <1>1, <1>2, <2>1, <2>2 DEF Enter, Handlers
<1>4. pic' = [pic EXCEPT !["primary"].irr = @ \ {TIMER_LINE}]
  BY <1>1, <1>2
<1>5. /\ pic' \in Pics /\ pic'["secondary"] = pic["secondary"]
      /\ pic'["primary"].expects = pic["primary"].expects /\ pic'["primary"].base = pic["primary"].base
      /\ pic'["primary"].imr = pic["primary"].imr /\ pic'["primary"].isr = pic["primary"].isr
      /\ pic'["primary"].irr \subseteq pic["primary"].irr
  BY <1>2, <1>4, TimerGone
<1>6. ChipsReady({CASCADE, TIMER_LINE})'
  BY <1>2, <1>5 DEF ChipsReady, Chips
<1>7. pc' \notin BeforeHalt
  BY <1>3 DEF BeforeHalt, BeforePit, BeforePic, BeforeMap
<1>8. Handled'
  BY <1>1, <1>2 DEF Handled
<1> QED
  BY <1>1, <1>2, <1>3, <1>5, <1>6, <1>7, <1>8 DEF InterruptPart, InterruptPlace, Handlers

LEMMA LineStep ==
  ASSUME InterruptPart, LineRises
  PROVE  InterruptPart'
<1>1. PICK line \in ExtraLines \cup {TIMER_LINE} : pic' = Raised(pic, line)
  BY DEF LineRises
<1>2. line \in Lines \ {CASCADE}
  BY BootAssumption DEF Lines, TIMER_LINE, CASCADE
<1>3. /\ pic' \in Pics
      /\ \A c \in Chips : /\ pic'[c].expects = pic[c].expects /\ pic'[c].base = pic[c].base
                          /\ pic'[c].imr = pic[c].imr /\ pic'[c].isr = pic[c].isr
      /\ CASCADE \in pic'["primary"].irr => CASCADE \in pic["primary"].irr
  BY <1>1, <1>2, RaisedFacts DEF InterruptPart
<1>4. UNCHANGED <<pc, pit, idt, interrupts, vector>>
  BY DEF LineRises
<1>5. /\ ChipsReady({CASCADE}) => ChipsReady({CASCADE})'
      /\ ChipsReady({CASCADE, TIMER_LINE}) => ChipsReady({CASCADE, TIMER_LINE})'
      /\ pic'["primary"].isr = pic["primary"].isr
  BY <1>3 DEF ChipsReady, Chips
<1>6. Handled => Handled'
  BY <1>4 DEF Handled
<1> QED
  BY <1>3, <1>4, <1>5, <1>6 DEF InterruptPart, InterruptPlace

LEMMA FaultStep ==
  ASSUME InterruptPart, PageFault
  PROVE  InterruptPart'
<1>1. pc' = "fault" /\ interrupts' = FALSE /\ UNCHANGED <<pic, pit, idt, vector>>
  BY DEF PageFault, chips
<1> QED
  BY <1>1 DEF InterruptPart, InterruptPlace, Stopped

LEMMA InterruptSteps ==
  ASSUME StartupPart, InterruptPart, Next
  PROVE  InterruptPart'
<1>1. CASE CacheAsRam \/ MoveStack \/ DisableMtrr \/ SetupPaging \/ NewDevices \/ FindE820 \/
            ReadRegion \/ MapRead \/ MapFromCmos \/ MemorySize \/ AllocateTables \/ MapPage \/
            SetPml4 \/ InitKeyboard \/ CmosPoll \/ CmosMonth \/ CmosAgain \/ CmosGivesUp \/
            ProbeBuses
  BY <1>1, QuietSteps, QuietKept
<1>2. CASE SwitchToProtected
  BY <1>2, SwitchQuiet, QuietKept
<1>3. CASE ClockUpdates
  <2>1. UNCHANGED <<pc, interrupts, vector, pic, pit, idt>>
    BY <1>3 DEF ClockUpdates, chips
  <2> QED
    BY <2>1 DEF InterruptPart, InterruptPlace, ChipsReady, Handled
<1> QED
  BY <1>1, <1>2, <1>3, IdtStep, PicStep, PitStep, EnableStep, EoiStep, DefaultStep, TakeStep,
     SpuriousStep, LineStep, FaultStep
     DEF Next, Run, Startup, MemoryInit, DeviceInit

-----------------------------------------------------------------------------
(* The clock.                                                               *)

ReadingClock == {"cmos_month", "cmos_again"}

LEMMA ClockAway ==
  ASSUME CacheAsRam \/ MoveStack \/ DisableMtrr \/ SwitchToProtected \/ SetupPaging \/ InitIdt \/
         NewDevices \/ FindE820 \/ ReadRegion \/ MapRead \/ MapFromCmos \/ MemorySize \/
         AllocateTables \/ MapPage \/ SetPml4 \/ InitPic \/ InitKeyboard \/ CmosGivesUp \/ InitPit \/
         ProbeBuses \/ EnableInterrupts \/ PitHandler \/ DefaultHandler
  PROVE  UNCHANGED clock /\ pc' \notin ReadingClock
<1>1. CASE CacheAsRam
  BY <1>1 DEF CacheAsRam, ReadingClock
<1>2. CASE MoveStack
  BY <1>2 DEF MoveStack, ReadingClock
<1>3. CASE DisableMtrr
  BY <1>3 DEF DisableMtrr, ReadingClock
<1>4. CASE SwitchToProtected
  BY <1>4 DEF SwitchToProtected, ReadingClock
<1>5. CASE SetupPaging
  BY <1>5 DEF SetupPaging, ReadingClock
<1>6. CASE InitIdt
  BY <1>6 DEF InitIdt, Panic, ReadingClock
<1>7. CASE NewDevices
  BY <1>7 DEF NewDevices, Panic, ReadingClock
<1>8. CASE FindE820
  BY <1>8 DEF FindE820, ReadingClock
<1>9. CASE ReadRegion
  BY <1>9 DEF ReadRegion, ReadingClock
<1>10. CASE MapRead
  BY <1>10 DEF MapRead, ReadingClock
<1>11. CASE MapFromCmos
  BY <1>11 DEF MapFromCmos, ReadingClock
<1>12. CASE MemorySize
  BY <1>12 DEF MemorySize, ReadingClock
<1>13. CASE AllocateTables
  BY <1>13 DEF AllocateTables, Panic, ReadingClock
<1>14. CASE MapPage
  BY <1>14 DEF MapPage, ReadingClock
<1>15. CASE SetPml4
  BY <1>15 DEF SetPml4, ReadingClock
<1>16. CASE InitPic
  BY <1>16 DEF InitPic, ReadingClock
<1>17. CASE InitKeyboard
  BY <1>17 DEF InitKeyboard, Panic, ReadingClock
<1>18. CASE CmosGivesUp
  BY <1>18 DEF CmosGivesUp, ReadingClock
<1>19. CASE InitPit
  BY <1>19 DEF InitPit, ReadingClock
<1>20. CASE ProbeBuses
  BY <1>20 DEF ProbeBuses, Panic, ReadingClock
<1>21. CASE EnableInterrupts
  BY <1>21 DEF EnableInterrupts, ReadingClock
<1>22. CASE PitHandler
  BY <1>22 DEF PitHandler, ReadingClock
<1>23. CASE DefaultHandler
  BY <1>23 DEF DefaultHandler, Panic, ReadingClock
<1> QED
  BY <1>1, <1>2, <1>3, <1>4, <1>5, <1>6, <1>7, <1>8, <1>9, <1>10, <1>11, <1>12, <1>13, <1>14, <1>15, <1>16, <1>17, <1>18, <1>19, <1>20, <1>21, <1>22, <1>23

LEMMA ClockSteps ==
  ASSUME ClockPlace, Next
  PROVE  ClockPlace'
<1>1. Attempts \in Nat \ {0}
  BY BootAssumption
<1>2. CASE CacheAsRam \/ MoveStack \/ DisableMtrr \/ SwitchToProtected \/ SetupPaging \/ InitIdt \/
            NewDevices \/ FindE820 \/ ReadRegion \/ MapRead \/ MapFromCmos \/ MemorySize \/
            AllocateTables \/ MapPage \/ SetPml4 \/ InitPic \/ InitKeyboard \/ CmosGivesUp \/
            InitPit \/ ProbeBuses \/ EnableInterrupts \/ PitHandler \/ DefaultHandler
  <2>1. UNCHANGED clock /\ pc' \notin ReadingClock
    BY <1>2, ClockAway
  <2> QED
    BY <2>1 DEF ClockPlace, clock, ReadingClock
<1>3. CASE TakeInterrupt \/ TakeSpurious \/ PageFault
  <2>1. UNCHANGED clock /\ pc' \notin ReadingClock
    BY <1>3 DEF TakeInterrupt, TakeSpurious, PageFault, Enter, Handlers, ReadingClock
  <2> QED
    BY <2>1 DEF ClockPlace, clock, ReadingClock
<1>4. CASE LineRises
  BY <1>4 DEF LineRises, ClockPlace, clock
<1>5. CASE CmosPoll
  BY <1>1, <1>5 DEF CmosPoll, ClockPlace, clock
<1>6. CASE CmosMonth
  <2>1. PICK v \in MonthRead :
          IF v = 0 \/ v > 18 THEN NextAttempt ELSE cmos' = [cmos EXCEPT !.month = v] /\ pc' = "cmos_again"
    BY <1>6 DEF CmosMonth
  <2>2. v \in Months \cup {0, 255} /\ rtc' = rtc /\ cmos.iodelay < Attempts /\ pc = "cmos_month"
    BY <1>6, <2>1 DEF CmosMonth, MonthRead, ClockPlace
  <2>3. CASE NextAttempt
    BY <1>1, <2>2, <2>3 DEF NextAttempt, ClockPlace
  <2>4. CASE cmos' = [cmos EXCEPT !.month = v]
    BY <1>1, <2>2, <2>4 DEF ClockPlace
  <2> QED
    BY <2>1, <2>3, <2>4
<1>7. CASE CmosAgain
  <2>1. rtc' = rtc /\ cmos.iodelay < Attempts
    BY <1>7 DEF CmosAgain, ClockPlace
  <2>2. CASE NextAttempt
    BY <1>1, <2>1, <2>2 DEF NextAttempt, ClockPlace
  <2>3. CASE /\ pc' = "pit"
             /\ cmos' = [cmos EXCEPT !.bcd = rtc_in_bcd_mode(rtc.format),
                                     !.half_day = rtc_in_12hr_mode(rtc.format)]
    <3> DEFINE c1 == [cmos EXCEPT !.bcd = rtc_in_bcd_mode(rtc.format)]
    <3>1. /\ rtc_in_bcd_mode(rtc.format) \in BOOLEAN
          /\ rtc_in_12hr_mode(rtc.format) \in BOOLEAN
      BY DEF rtc_in_bcd_mode, rtc_in_12hr_mode
    <3>2. c1 \in [iodelay : 0..Attempts, month : Months \cup {0, 255}, bcd : BOOLEAN, half_day : BOOLEAN]
      BY <3>1 DEF ClockPlace
    <3>3. cmos' = [c1 EXCEPT !.half_day = rtc_in_12hr_mode(rtc.format)]
      BY <2>3
    <3> HIDE DEF c1
    <3> QED
      BY <2>1, <2>3, <3>1, <3>2, <3>3 DEF ClockPlace
  <2> QED
    BY <1>7, <2>2, <2>3 DEF CmosAgain
<1>8. CASE ClockUpdates
  <2>1. UNCHANGED <<pc, cmos>>
    BY <1>8 DEF ClockUpdates
  <2>2. rtc' \in [updating : BOOLEAN, month : Months, format : Formats]
    <3>1. CASE rtc' = [rtc EXCEPT !.updating = TRUE]
      BY <3>1 DEF ClockPlace
    <3>2. CASE \E m \in Months : rtc' = [rtc EXCEPT !.updating = FALSE, !.month = m]
      <4>1. PICK m \in Months : rtc' = [rtc EXCEPT !.updating = FALSE, !.month = m]
        BY <3>2
      <4> DEFINE r1 == [rtc EXCEPT !.updating = FALSE]
      <4>2. r1 \in [updating : BOOLEAN, month : Months, format : Formats]
        BY DEF ClockPlace
      <4>3. rtc' = [r1 EXCEPT !.month = m]
        BY <4>1
      <4> HIDE DEF r1
      <4> QED
        BY <4>2, <4>3
    <3> QED
      BY <1>8, <3>1, <3>2 DEF ClockUpdates
  <2> QED
    BY <2>1, <2>2 DEF ClockPlace
<1> QED
  BY <1>2, <1>3, <1>4, <1>5, <1>6, <1>7, <1>8 DEF Next, Run, Startup, MemoryInit, DeviceInit

-----------------------------------------------------------------------------
(* The heap and the tables in it.                                           *)

MemoryPart ==
  /\ HeapPlace /\ heap \in Heaps /\ cr3 \in Nat /\ region \in Nat \ {0}
  /\ size \in [entry : Nat \ {0}, sum : Nat, mb : Nat]
  /\ tables \in [page : Nat, pdpt_off : Nat, pml4_off : Nat, pml4 : Nat]

AtMap == {"e820", "cmos_memory", "size", "tables"}
AtBlocks == AtMap \cup {"devices", "fwcfg"}

LEMMA MemoryKept ==
  ASSUME MemoryPart, UNCHANGED <<heap, memory>>, cr3' \in Nat,
         pc' \in BeforeIdt => pc \in BeforeIdt, pc' \in AtBlocks => pc' = pc
  PROVE  MemoryPart'
<1>1. UNCHANGED <<heap, files, region, map, size, tables>>
  BY DEF memory
<1>2. AfterMap' = AfterMap /\ AfterIdt' = AfterIdt /\ AfterDevices' = AfterDevices
  BY <1>1 DEF AfterMap, AfterIdt, AfterDevices
<1>3. HeapPlace'
  BY <1>1, <1>2 DEF MemoryPart, HeapPlace, AtMap, AtBlocks
<1> QED
  BY <1>1, <1>3 DEF MemoryPart

(* What stays of the heap's place behind the map: nothing but page 0.       *)
LEMMA PastMap ==
  ASSUME MemoryPart, heap' \in Heaps, heap'.ended \/ heap'.low = heap.low,
         heap.ended => heap'.ended, UNCHANGED <<cr3, region, size>>,
         tables' \in [page : Nat, pdpt_off : Nat, pml4_off : Nat, pml4 : Nat],
         pc' \notin BeforeIdt, pc' \notin AtBlocks
  PROVE  MemoryPart'
<1>1. HeapPlace'
  BY DEF MemoryPart, HeapPlace, AtMap, AtBlocks
<1> QED
  BY <1>1 DEF MemoryPart

LEMMA MemoryQuiet ==
  ASSUME MemoryPart,
         CacheAsRam \/ MoveStack \/ DisableMtrr \/ SwitchToProtected \/ SetupPaging \/
         InitPic \/ InitKeyboard \/ CmosPoll \/ CmosMonth \/ CmosAgain \/ CmosGivesUp \/
         InitPit \/ EnableInterrupts \/ PitHandler \/ DefaultHandler \/ TakeInterrupt \/
         TakeSpurious \/ PageFault \/ LineRises \/ ClockUpdates
  PROVE  MemoryPart'
<1>1. CASE CacheAsRam
  <2>1. /\ UNCHANGED <<heap, memory>> /\ cr3' \in Nat
        /\ pc' \in BeforeIdt => pc \in BeforeIdt
        /\ pc' \in AtBlocks => pc' = pc
    BY <1>1 DEF CacheAsRam, MemoryPart, mode, memory,
       BeforeIdt, InRealMode, AtMap, AtBlocks
  <2> QED
    BY <2>1, MemoryKept
<1>2. CASE MoveStack
  <2>1. /\ UNCHANGED <<heap, memory>> /\ cr3' \in Nat
        /\ pc' \in BeforeIdt => pc \in BeforeIdt
        /\ pc' \in AtBlocks => pc' = pc
    BY <1>2 DEF MoveStack, MemoryPart, mode, memory,
       BeforeIdt, InRealMode, AtMap, AtBlocks
  <2> QED
    BY <2>1, MemoryKept
<1>3. CASE DisableMtrr
  <2>1. /\ UNCHANGED <<heap, memory>> /\ cr3' \in Nat
        /\ pc' \in BeforeIdt => pc \in BeforeIdt
        /\ pc' \in AtBlocks => pc' = pc
    BY <1>3 DEF DisableMtrr, MemoryPart, mode, memory,
       BeforeIdt, InRealMode, AtMap, AtBlocks
  <2> QED
    BY <2>1, MemoryKept
<1>4. CASE SwitchToProtected
  <2>1. /\ UNCHANGED <<heap, memory>> /\ cr3' \in Nat
        /\ pc' \in BeforeIdt => pc \in BeforeIdt
        /\ pc' \in AtBlocks => pc' = pc
    BY <1>4 DEF SwitchToProtected, MemoryPart, mode, memory,
       BeforeIdt, InRealMode, AtMap, AtBlocks
  <2> QED
    BY <2>1, MemoryKept
<1>5. CASE SetupPaging
  <2>1. /\ UNCHANGED <<heap, memory>> /\ cr3' \in Nat
        /\ pc' \in BeforeIdt => pc \in BeforeIdt
        /\ pc' \in AtBlocks => pc' = pc
    BY <1>5 DEF SetupPaging, BOOT_PML4, PAGE, MemoryPart, mode, memory,
       BeforeIdt, InRealMode, AtMap, AtBlocks
  <2> QED
    BY <2>1, MemoryKept
<1>6. CASE InitPic
  <2>1. /\ UNCHANGED <<heap, memory>> /\ cr3' \in Nat
        /\ pc' \in BeforeIdt => pc \in BeforeIdt
        /\ pc' \in AtBlocks => pc' = pc
    BY <1>6 DEF InitPic, MemoryPart, mode, memory,
       BeforeIdt, InRealMode, AtMap, AtBlocks
  <2> QED
    BY <2>1, MemoryKept
<1>7. CASE InitKeyboard
  <2>1. /\ UNCHANGED <<heap, memory>> /\ cr3' \in Nat
        /\ pc' \in BeforeIdt => pc \in BeforeIdt
        /\ pc' \in AtBlocks => pc' = pc
    BY <1>7 DEF InitKeyboard, Panic, MemoryPart, mode, memory,
       BeforeIdt, InRealMode, AtMap, AtBlocks
  <2> QED
    BY <2>1, MemoryKept
<1>8. CASE CmosPoll
  <2>1. /\ UNCHANGED <<heap, memory>> /\ cr3' \in Nat
        /\ pc' \in BeforeIdt => pc \in BeforeIdt
        /\ pc' \in AtBlocks => pc' = pc
    BY <1>8 DEF CmosPoll, MemoryPart, mode, memory,
       BeforeIdt, InRealMode, AtMap, AtBlocks
  <2> QED
    BY <2>1, MemoryKept
<1>9. CASE CmosMonth
  <2>1. /\ UNCHANGED <<heap, memory>> /\ cr3' \in Nat
        /\ pc' \in BeforeIdt => pc \in BeforeIdt
        /\ pc' \in AtBlocks => pc' = pc
    BY <1>9 DEF CmosMonth, NextAttempt, MemoryPart, mode, memory,
       BeforeIdt, InRealMode, AtMap, AtBlocks
  <2> QED
    BY <2>1, MemoryKept
<1>10. CASE CmosAgain
  <2>1. /\ UNCHANGED <<heap, memory>> /\ cr3' \in Nat
        /\ pc' \in BeforeIdt => pc \in BeforeIdt
        /\ pc' \in AtBlocks => pc' = pc
    BY <1>10 DEF CmosAgain, NextAttempt, MemoryPart, mode, memory,
       BeforeIdt, InRealMode, AtMap, AtBlocks
  <2> QED
    BY <2>1, MemoryKept
<1>11. CASE CmosGivesUp
  <2>1. /\ UNCHANGED <<heap, memory>> /\ cr3' \in Nat
        /\ pc' \in BeforeIdt => pc \in BeforeIdt
        /\ pc' \in AtBlocks => pc' = pc
    BY <1>11 DEF CmosGivesUp, MemoryPart, mode, memory,
       BeforeIdt, InRealMode, AtMap, AtBlocks
  <2> QED
    BY <2>1, MemoryKept
<1>12. CASE InitPit
  <2>1. /\ UNCHANGED <<heap, memory>> /\ cr3' \in Nat
        /\ pc' \in BeforeIdt => pc \in BeforeIdt
        /\ pc' \in AtBlocks => pc' = pc
    BY <1>12 DEF InitPit, MemoryPart, mode, memory,
       BeforeIdt, InRealMode, AtMap, AtBlocks
  <2> QED
    BY <2>1, MemoryKept
<1>13. CASE EnableInterrupts
  <2>1. /\ UNCHANGED <<heap, memory>> /\ cr3' \in Nat
        /\ pc' \in BeforeIdt => pc \in BeforeIdt
        /\ pc' \in AtBlocks => pc' = pc
    BY <1>13 DEF EnableInterrupts, MemoryPart, mode, memory,
       BeforeIdt, InRealMode, AtMap, AtBlocks
  <2> QED
    BY <2>1, MemoryKept
<1>14. CASE PitHandler
  <2>1. /\ UNCHANGED <<heap, memory>> /\ cr3' \in Nat
        /\ pc' \in BeforeIdt => pc \in BeforeIdt
        /\ pc' \in AtBlocks => pc' = pc
    BY <1>14 DEF PitHandler, MemoryPart, mode, memory,
       BeforeIdt, InRealMode, AtMap, AtBlocks
  <2> QED
    BY <2>1, MemoryKept
<1>15. CASE DefaultHandler
  <2>1. /\ UNCHANGED <<heap, memory>> /\ cr3' \in Nat
        /\ pc' \in BeforeIdt => pc \in BeforeIdt
        /\ pc' \in AtBlocks => pc' = pc
    BY <1>15 DEF DefaultHandler, Panic, MemoryPart, mode, memory,
       BeforeIdt, InRealMode, AtMap, AtBlocks
  <2> QED
    BY <2>1, MemoryKept
<1>16. CASE TakeInterrupt
  <2>1. /\ UNCHANGED <<heap, memory>> /\ cr3' \in Nat
        /\ pc' \in BeforeIdt => pc \in BeforeIdt
        /\ pc' \in AtBlocks => pc' = pc
    BY <1>16 DEF TakeInterrupt, Enter, Handlers, MemoryPart, mode, memory,
       BeforeIdt, InRealMode, AtMap, AtBlocks
  <2> QED
    BY <2>1, MemoryKept
<1>17. CASE TakeSpurious
  <2>1. /\ UNCHANGED <<heap, memory>> /\ cr3' \in Nat
        /\ pc' \in BeforeIdt => pc \in BeforeIdt
        /\ pc' \in AtBlocks => pc' = pc
    BY <1>17 DEF TakeSpurious, Enter, Handlers, MemoryPart, mode, memory,
       BeforeIdt, InRealMode, AtMap, AtBlocks
  <2> QED
    BY <2>1, MemoryKept
<1>18. CASE PageFault
  <2>1. /\ UNCHANGED <<heap, memory>> /\ cr3' \in Nat
        /\ pc' \in BeforeIdt => pc \in BeforeIdt
        /\ pc' \in AtBlocks => pc' = pc
    BY <1>18 DEF PageFault, MemoryPart, mode, memory,
       BeforeIdt, InRealMode, AtMap, AtBlocks
  <2> QED
    BY <2>1, MemoryKept
<1>19. CASE LineRises
  <2>1. /\ UNCHANGED <<heap, memory>> /\ cr3' \in Nat
        /\ pc' \in BeforeIdt => pc \in BeforeIdt
        /\ pc' \in AtBlocks => pc' = pc
    BY <1>19 DEF LineRises, MemoryPart, mode, memory,
       BeforeIdt, InRealMode, AtMap, AtBlocks
  <2> QED
    BY <2>1, MemoryKept
<1>20. CASE ClockUpdates
  <2>1. /\ UNCHANGED <<heap, memory>> /\ cr3' \in Nat
        /\ pc' \in BeforeIdt => pc \in BeforeIdt
        /\ pc' \in AtBlocks => pc' = pc
    BY <1>20 DEF ClockUpdates, MemoryPart, mode, memory,
       BeforeIdt, InRealMode, AtMap, AtBlocks
  <2> QED
    BY <2>1, MemoryKept
<1> QED
  BY <1>1, <1>2, <1>3, <1>4, <1>5, <1>6, <1>7, <1>8, <1>9, <1>10, <1>11, <1>12, <1>13,
     <1>14, <1>15, <1>16, <1>17, <1>18, <1>19, <1>20

LEMMA MapFacts ==
  ASSUME MapInv
  PROVE  map \in Seq(E820Entry) /\ Len(map) \in Nat
BY DEF MapInv, MapPlace, E820Entry

LEMMA IdtBlock ==
  ASSUME MemoryPart, InitIdt
  PROVE  MemoryPart'
<1>1. /\ pc = "init_idt" /\ UNCHANGED <<cr3, region, size, tables>>
      /\ \/ heap' = Grown(heap, AlignedSize(SIZEOF_int_desc_table)) /\ pc' = "devices"
         \/ pc' = "panic" /\ heap' = heap
  BY DEF InitIdt, Panic, memory, mode
<1>2. heap = FirstHeap /\ heap \in Heaps
  BY <1>1 DEF MemoryPart, HeapPlace, BeforeIdt
<1>3. AfterIdt - HEAP_START = AlignedSize(SIZEOF_int_desc_table) /\ AfterIdt' = AfterIdt
      /\ AlignedSize(SIZEOF_int_desc_table) \in Nat
  BY HeapNumbers DEF AfterIdt
<1>4. CASE pc' = "devices"
  <2>1. heap' = Grown(FirstHeap, AfterIdt - HEAP_START)
    BY <1>1, <1>2, <1>3, <1>4
  <2>2. heap' \in Heaps /\ heap'.low = BootLow
    BY <1>2, <1>3, <2>1, GrownFacts, FirstHeapFacts
  <2> QED
    BY <1>1, <1>3, <1>4, <2>1, <2>2 DEF MemoryPart, HeapPlace, BeforeIdt, InRealMode
<1>5. CASE pc' = "panic"
  BY <1>1, <1>5, PastMap DEF MemoryPart, BeforeIdt, InRealMode, AtMap, AtBlocks
<1> QED
  BY <1>1, <1>4, <1>5

LEMMA DevicesBlocks ==
  ASSUME MemoryPart, NewDevices
  PROVE  MemoryPart'
<1>1. /\ pc = "devices" /\ UNCHANGED <<cr3, region, size, tables>>
      /\ \/ heap' = Grown(heap, DeviceBlocks) /\ pc' = "fwcfg"
         \/ pc' = "panic" /\ heap' = heap
  BY DEF NewDevices, Panic, memory, mode
<1>2. heap = Grown(FirstHeap, AfterIdt - HEAP_START) /\ heap \in Heaps
  BY <1>1 DEF MemoryPart, HeapPlace
<1>3. /\ AfterIdt - HEAP_START = 4160 /\ AfterDevices - HEAP_START = 5984 /\ DeviceBlocks = 1824
      /\ AfterDevices' = AfterDevices
  BY HeapNumbers DEF AfterDevices
<1>4. CASE pc' = "fwcfg"
  <2>1. Grown(Grown(FirstHeap, 4160), 1824) = Grown(FirstHeap, 5984)
    <3> DEFINE h1 == Grown(FirstHeap, 4160)
               h2 == Grown(h1, 1824)
               h3 == Grown(FirstHeap, 5984)
    <3>1. h1 \in Heaps /\ h3 \in Heaps
      BY FirstHeapFacts, GrownFacts
    <3>2. /\ h1.top = FirstHeap.top + 4160 /\ h3.top = FirstHeap.top + 5984
          /\ h1.hole = h3.hole /\ h1.ended = h3.ended /\ h1.low = h3.low
      BY FirstHeapFacts, GrownFacts
    <3> HIDE DEF h1, h3
    <3>3. /\ h2 \in Heaps /\ h2.top = h1.top + 1824 /\ h2.hole = h1.hole
          /\ h2.ended = h1.ended /\ h2.low = h1.low
      BY <3>1, GrownFacts
    <3> HIDE DEF h2
    <3>4. FirstHeap.top \in Nat
      BY FirstHeapFacts DEF Heaps
    <3>5. h2.top = h3.top
      BY <3>2, <3>3, <3>4
    <3>6. h2 = h3
      BY <3>1, <3>2, <3>3, <3>5 DEF Heaps
    <3> QED
      BY <3>6 DEF h1, h2, h3
  <2>2. heap' = Grown(FirstHeap, AfterDevices - HEAP_START)
    BY <1>1, <1>2, <1>3, <1>4, <2>1
  <2>3. heap' \in Heaps /\ heap'.low = BootLow
    BY <1>3, <2>2, GrownFacts, FirstHeapFacts
  <2> QED
    BY <1>1, <1>3, <1>4, <2>2, <2>3 DEF MemoryPart, HeapPlace, BeforeIdt, InRealMode
<1>5. CASE pc' = "panic"
  BY <1>1, <1>5, PastMap DEF MemoryPart, BeforeIdt, InRealMode, AtMap, AtBlocks
<1> QED
  BY <1>1, <1>4, <1>5

LEMMA FileStep ==
  ASSUME MapInv, MemoryPart, FindE820
  PROVE  MemoryPart'
<1>1. /\ pc = "fwcfg" /\ pc' \in {"e820", "cmos_memory"} /\ UNCHANGED <<cr3, region, map, size, tables>>
      /\ heap' = Grown(heap, FileBlock) \/ heap' = heap
  BY DEF FindE820, memory, mode
<1>2. heap = Grown(FirstHeap, AfterDevices - HEAP_START) /\ heap \in Heaps
  BY <1>1 DEF MemoryPart, HeapPlace
<1>3. /\ AfterDevices - HEAP_START = 5984 /\ FileBlock = 128 /\ HEAP_START = 33280
      /\ AfterDevices = 39264 /\ EntryBlock = 64
  BY HeapNumbers DEF FileBlock, EntryBlock
<1>4. /\ heap.top = 39264 /\ heap.hole = 0 /\ heap.low = BootLow
  <2>1. heap = Grown(FirstHeap, 5984) /\ FirstHeap \in Heaps /\ 5984 \in Nat
    BY <1>2, <1>3, FirstHeapFacts
  <2> QED
    <3>1. /\ Grown(FirstHeap, 5984).top = FirstHeap.top + 5984
          /\ Grown(FirstHeap, 5984).hole = FirstHeap.hole
          /\ Grown(FirstHeap, 5984).low = FirstHeap.low
      BY <2>1, GrownFacts
    <3>2. FirstHeap.top = 33280 /\ FirstHeap.hole = 0 /\ FirstHeap.low = BootLow
      BY <1>3, FirstHeapFacts
    <3> QED
      BY <2>1, <3>1, <3>2
<1>5. /\ heap' \in Heaps /\ heap'.hole = 0 /\ heap'.low = BootLow
      /\ heap'.top = 39264 \/ heap'.top = 39392
  <2>1. CASE heap' = heap
    BY <1>2, <1>4, <2>1
  <2>2. CASE heap' = Grown(heap, 128)
    <3>1. 128 \in Nat
      OBVIOUS
    <3>2. /\ heap' \in Heaps /\ heap'.top = heap.top + 128
          /\ heap'.hole = heap.hole /\ heap'.low = heap.low
      BY <1>2, <2>2, <3>1, GrownFacts
    <3> QED
      BY <1>4, <3>2
  <2> QED
    BY <1>1, <1>3, <2>1, <2>2
<1>6. heap'.top \in AfterMap'
  <2>1. Len(map') \in Nat
    BY <1>1, MapFacts
  <2>2. 39392 + Len(map') * 64 >= 39392
    BY <2>1
  <2> QED
    BY <1>3, <1>5, <2>1, <2>2, HeapNumbers DEF AfterMap
<1> QED
  BY <1>1, <1>5, <1>6 DEF MemoryPart, HeapPlace, BeforeIdt, InRealMode

(* entries added to the map *)
LEMMA EntryBlocks ==
  ASSUME MapInv, NEW new \in Seq(E820Entry), AddEntries(new), heap \in Heaps, ~heap.ended,
         heap.top \in AfterMap
  PROVE  /\ heap' \in Heaps /\ heap'.top \in AfterMap' /\ heap'.hole = heap.hole
         /\ heap'.low = heap.low
<1>1. /\ Len(map') = Len(map) + Len(new) /\ Len(new) \in Nat /\ Len(map) \in Nat
  BY MapFacts, Appended DEF AddEntries
<1>2. heap.top \in 39264..(39392 + Len(map) * 64) /\ FileBlock = 128 /\ EntryBlock = 64
  BY <1>1, HeapNumbers DEF AfterMap, FileBlock, EntryBlock
<1>3. Len(new) * 64 \in Nat
  BY <1>1
<1>4. heap' = Grown(heap, Len(new) * 64)
  BY <1>2 DEF AddEntries
<1>5. /\ heap' \in Heaps /\ heap'.top = heap.top + Len(new) * 64
      /\ heap'.hole = heap.hole /\ heap'.low = heap.low
  BY <1>3, <1>4, GrownFacts
<1>6. heap'.top \in 39264..(39392 + Len(map') * 64)
  BY <1>1, <1>2, <1>5
<1> QED
  BY <1>1, <1>2, <1>5, <1>6, HeapNumbers DEF AfterMap

LEMMA RegionBlocks ==
  ASSUME MapInv, MemoryPart, ReadRegion
  PROVE  MemoryPart'
<1>1. /\ pc = "e820" /\ pc' = "e820" /\ UNCHANGED <<cr3, size, tables>> /\ region' = region + 1
      /\ AddEntries(EntriesFor(RegionList[region]))
  BY DEF ReadRegion, NextRegion, RegionList, mode
<1>2. RegionList[region] \in [addr : Nat, size : Nat, type : Nat]
  <2>1. E820 \in DOMAIN files /\ region \in 1..(Len(RegionList) + 1) /\ region <= Len(RegionList)
    BY <1>1 DEF MapInv, MapPlace, ListRead, ReadRegion, RegionList
  <2>2. RegionList \in Seq([addr : Nat, size : Nat, type : Nat]) /\ Len(RegionList) \in Nat
    BY <2>1, ListFacts DEF MapInv
  <2>3. region \in 1..Len(RegionList)
    BY <2>1, <2>2
  <2> QED
    BY <2>2, <2>3, ElementOfSeq
<1>3. EntriesFor(RegionList[region]) \in Seq(E820Entry)
  BY <1>2, EntriesOfOne
<1>4. heap \in Heaps /\ ~heap.ended
  BY <1>1 DEF MapInv, MapPlace
<1>5. heap.top \in AfterMap /\ heap.hole \in {0, FileBlock} /\ heap.low = BootLow
  BY <1>1, <1>4 DEF MemoryPart, HeapPlace
<1>6. /\ heap' \in Heaps /\ heap'.top \in AfterMap' /\ heap'.hole = heap.hole
      /\ heap'.low = heap.low
  BY <1>1, <1>3, <1>4, <1>5, EntryBlocks
<1>7. FileBlock' = FileBlock
  BY DEF FileBlock
<1>8. HeapPlace'
  BY <1>1, <1>5, <1>6, <1>7 DEF HeapPlace, BeforeIdt, InRealMode
<1> QED
  BY <1>1, <1>6, <1>8 DEF MemoryPart

LEMMA MapReadStep ==
  ASSUME MapInv, MemoryPart, MapRead
  PROVE  MemoryPart'
<1>1. /\ pc = "e820" /\ UNCHANGED <<cr3, region, map, size, tables>>
      /\ \/ pc' = "size" /\ heap' = [heap EXCEPT !.hole = FileBlock]
         \/ pc' = "cmos_memory" /\ heap' = LastFreed(heap)
  BY DEF MapRead, memory, mode
<1>2. heap \in Heaps /\ ~heap.ended
  BY <1>1 DEF MapInv, MapPlace
<1>3. heap.top \in AfterMap /\ heap.low = BootLow
  BY <1>1, <1>2 DEF MemoryPart, HeapPlace
<1>4. FileBlock = 128 /\ AfterMap' = AfterMap /\ FileBlock' = FileBlock
  BY <1>1, HeapNumbers DEF FileBlock, AfterMap, AfterDevices, AfterIdt
<1>5. CASE pc' = "size" /\ heap' = [heap EXCEPT !.hole = FileBlock]
  <2>1. /\ heap' \in Heaps /\ heap'.top = heap.top /\ heap'.hole = 128 /\ heap'.low = BootLow
    BY <1>2, <1>3, <1>4, <1>5 DEF Heaps
  <2>2. HeapPlace'
    BY <1>3, <1>4, <1>5, <2>1 DEF HeapPlace, BeforeIdt, InRealMode
  <2> QED
    BY <1>1, <2>1, <2>2 DEF MemoryPart
<1>6. CASE pc' = "cmos_memory" /\ heap' = LastFreed(heap)
  <2>1. heap' \in Heaps /\ heap'.ended
    BY <1>2, <1>6, FreedFacts
  <2>2. HeapPlace'
    BY <1>6, <2>1 DEF HeapPlace, BeforeIdt, InRealMode
  <2> QED
    BY <1>1, <2>1, <2>2 DEF MemoryPart
<1> QED
  BY <1>1, <1>5, <1>6

LEMMA CmosBlocks ==
  ASSUME MapInv, MemoryPart, MapFromCmos
  PROVE  MemoryPart'
<1>1. /\ pc = "cmos_memory" /\ pc' = "size" /\ UNCHANGED <<cr3, region, size, tables>>
  BY DEF MapFromCmos, mode
<1>2. PICK c \in CmosSizes : AddEntries(cmos_read_memory_info(c[1], c[2]))
  BY DEF MapFromCmos
<1>3. PICK new \in Seq(E820Entry) :
        AddEntries(new) /\ Len(new) \in Nat /\ 1 <= Len(new) /\ Len(new) <= 3 /\ << >> \o new = new
  BY <1>2, EntriesOfCmos
<1>5. heap \in Heaps /\ map = << >>
  BY <1>1 DEF MapInv, MapPlace
<1>6. CASE heap.ended
  <2>1. heap' \in Heaps /\ heap'.ended
    BY <1>3, <1>5, <1>6, OverwrittenFacts
  <2>2. HeapPlace'
    BY <1>1, <2>1 DEF HeapPlace, BeforeIdt, InRealMode
  <2> QED
    BY <1>1, <2>1, <2>2 DEF MemoryPart
<1>7. CASE ~heap.ended
  <2>1. heap.top \in AfterMap /\ heap.hole \in {0, FileBlock} /\ heap.low = BootLow
    BY <1>1, <1>7 DEF MemoryPart, HeapPlace
  <2>2. /\ heap' \in Heaps /\ heap'.top \in AfterMap' /\ heap'.hole = heap.hole
        /\ heap'.low = heap.low
    BY <1>3, <1>5, <1>7, <2>1, EntryBlocks
  <2>3. FileBlock' = FileBlock
    BY DEF FileBlock
  <2>4. Len(map') <= 5
    <3>1. map' = new
      BY <1>3, <1>5, <1>7 DEF AddEntries
    <3> QED
      BY <1>3, <3>1
  <2>5. HeapPlace'
    BY <1>1, <2>1, <2>2, <2>3, <2>4 DEF HeapPlace, BeforeIdt, InRealMode
  <2> QED
    BY <1>1, <2>2, <2>5 DEF MemoryPart
<1> QED
  BY <1>6, <1>7

LEMMA SizeStep ==
  ASSUME MapInv, MemoryPart, MemorySize
  PROVE  MemoryPart'
<1>1. /\ pc = "size" /\ pc' \in {"size", "tables"} /\ UNCHANGED <<cr3, heap, region, map, tables>>
  BY DEF MemorySize, mode
<1>2. size' \in [entry : Nat \ {0}, sum : Nat, mb : Nat]
  <2>1. CASE size.entry <= Len(map)
    <3> DEFINE sum == size.sum + map[size.entry].size
               mb  == MegabytesIn(sum)
    <3>1. size.entry \in 1..Len(map)
      BY <2>1, MapFacts DEF MemoryPart
    <3>2. map[size.entry] \in E820Entry
      BY <3>1, MapFacts, ElementOfSeq
    <3>3. sum \in Nat
      BY <3>2 DEF MemoryPart, E820Entry
    <3>4. mb \in Nat
      BY DEF MegabytesIn
    <3>5. size' = [entry |-> size.entry + 1, sum |-> IF mb = 0 THEN sum ELSE 0, mb |-> size.mb + mb]
      BY <2>1 DEF MemorySize
    <3> HIDE DEF sum, mb
    <3> QED
      BY <3>1, <3>3, <3>4, <3>5, MapFacts DEF MemoryPart
  <2>2. CASE ~(size.entry <= Len(map))
    BY <2>2 DEF MemorySize, MemoryPart
  <2> QED
    BY <2>1, <2>2
<1>3. AfterMap' = AfterMap /\ FileBlock' = FileBlock
  BY <1>1 DEF AfterMap, AfterDevices, AfterIdt, FileBlock
<1>4. HeapPlace'
  BY <1>1, <1>3 DEF MemoryPart, HeapPlace, BeforeIdt, InRealMode
<1> QED
  BY <1>1, <1>2, <1>4 DEF MemoryPart

(* pml4 is behind the map, or behind the pdpt that is: at most a page table  *)
(* and a pdpt after the last entry, and one of the two if there is a hole.   *)
LEMMA Pml4Address ==
  ASSUME MapInv, MemoryPart, AllocateTables, pc' = "pages"
  PROVE  /\ heap' \in Heaps /\ tables'.pml4 \in Nat /\ 39296 <= tables'.pml4
         /\ heap.hole = 0 \/ (heap.hole = 128 /\ TableBlock(Pages) <= 128) =>
              tables'.pml4 <= 39424 + Len(map) * 64 + TableBlock(PdptCount)
                              + (IF heap.hole = 0 THEN TableBlock(Pages) ELSE 0)
<1>1. /\ pc = "tables" /\ ~heap.ended
      /\ heap' = FirstFit(WithPdpt(heap), TableBlock(Pml4Count))
      /\ tables' = [tables EXCEPT !.pml4 = Pointer(Place(WithPdpt(heap), TableBlock(Pml4Count)))]
  BY DEF AllocateTables, Panic
<1>2. /\ TableBlock(Pages) \in Nat /\ TableBlock(PdptCount) = 64 /\ TableBlock(Pml4Count) = 64
  BY TableFacts, PagesBounded DEF MemoryPart
<1>3. PICK t \in Nat, m \in Nat : t = TableBlock(Pages) /\ m = Len(map)
  BY <1>2, MapFacts
<1>4. /\ heap \in Heaps /\ heap.top \in 39264..(39392 + m * 64) /\ heap.hole \in {0, 128}
  BY <1>1, <1>3, HeapNumbers DEF MemoryPart, HeapPlace, AfterMap, FileBlock, EntryBlock
<1>5. PICK h1 \in Heaps :
        /\ h1 = WithPages(heap)
        /\ IF t <= heap.hole THEN h1.hole = 0 /\ h1.top = heap.top
                             ELSE h1.hole = heap.hole /\ h1.top = heap.top + t
  <2>1. WithPages(heap) = FirstFit(heap, t)
    BY <1>3 DEF WithPages
  <2>2. heap \in Heaps /\ t \in Nat
    BY <1>4
  <2> QED
    BY <2>1, <2>2, FitFacts
<1>6. PICK h2 \in Heaps :
        /\ h2 = WithPdpt(heap)
        /\ IF 64 <= h1.hole THEN h2.hole = 0 /\ h2.top = h1.top
                            ELSE h2.hole = h1.hole /\ h2.top = h1.top + 64
  <2>1. WithPdpt(heap) = FirstFit(h1, 64) /\ 64 \in Nat
    BY <1>2, <1>5 DEF WithPdpt
  <2> QED
    BY <2>1, FitFacts
<1>7. heap' = FirstFit(h2, 64) /\ heap' \in Heaps
  BY <1>1, <1>2, <1>6, FitFacts
<1>8. tables'.pml4 = 39264 + 32 \/ tables'.pml4 = h2.top + 32
  BY <1>1, <1>6, HeapNumbers DEF MemoryPart, Pointer, Place, HDR
<1>9. PICK top \in Nat, hole \in Nat, top1 \in Nat, hole1 \in Nat, top2 \in Nat :
        /\ top = heap.top /\ hole = heap.hole /\ top1 = h1.top /\ hole1 = h1.hole /\ top2 = h2.top
  BY <1>4 DEF Heaps
<1>10. /\ top \in 39264..(39392 + m * 64) /\ top2 <= top1 + 64 /\ top1 <= top2
       /\ top1 <= top + t /\ top <= top1 /\ (hole = 128 /\ t <= 128 => top1 = top)
  BY <1>4, <1>5, <1>6, <1>9
<1>11. /\ 39264 <= top2 /\ top2 <= 39392 + m * 64 + 64 + t
       /\ (hole = 128 /\ t <= 128 => top2 <= 39392 + m * 64 + 64)
  BY <1>10
<1>12. PICK a \in Nat : a = tables'.pml4 /\ (a = 39296 \/ a = top2 + 32)
  BY <1>8, <1>9
<1>13. /\ 39296 <= a /\ a <= 39424 + m * 64 + 64 + t
       /\ (hole = 128 /\ t <= 128 => a <= 39424 + m * 64 + 64)
  BY <1>11, <1>12
<1>14. CASE heap.hole = 0
  BY <1>2, <1>3, <1>7, <1>12, <1>13, <1>14
<1>15. CASE heap.hole = 128 /\ t <= 128
  BY <1>2, <1>3, <1>7, <1>9, <1>12, <1>13, <1>15
<1> QED
  BY <1>3, <1>7, <1>12, <1>13, <1>14, <1>15

LEMMA TablesStep ==
  ASSUME MapInv, MemoryPart, HeapRuns, AllocateTables
  PROVE  MemoryPart'
<1>1. /\ UNCHANGED <<cr3, region, size>>
      /\ \/ pc' = "pages" /\ \E root : tables' = [tables EXCEPT !.pml4 = root]
         \/ pc' = "panic" /\ tables' = tables
  BY DEF AllocateTables, Panic, memory, mode
<1>2. tables' \in [page : Nat, pdpt_off : Nat, pml4_off : Nat, pml4 : Nat]
  <2>1. CASE pc' = "pages"
    <3>1. PICK root : tables' = [tables EXCEPT !.pml4 = root]
      BY <1>1, <2>1
    <3>2. tables'.pml4 \in Nat
      BY <2>1, Pml4Address
    <3> QED
      BY <3>1, <3>2 DEF MemoryPart
  <2>2. CASE tables' = tables
    BY <2>2 DEF MemoryPart
  <2> QED
    BY <1>1, <2>1, <2>2
<1> QED
  BY <1>1, <1>2, PastMap DEF HeapRuns, BeforeIdt, InRealMode, AtMap, AtBlocks

LEMMA PageStep ==
  ASSUME MapInv, MemoryPart, MapPage
  PROVE  MemoryPart'
<1>1. UNCHANGED <<cr3, heap, region, size>> /\ pc' = "pages"
  BY DEF MapPage, mode
<1>2. tables' \in [page : Nat, pdpt_off : Nat, pml4_off : Nat, pml4 : Nat]
  <2> DEFINE p == tables.pdpt_off + IF tables.page # 0 /\ tables.page % 1024 = 0 THEN 1 ELSE 0
             q == tables.pml4_off + IF p # 0 /\ p % 1024 = 0 THEN 1 ELSE 0
             t1 == [tables EXCEPT !.page = @ + 1]
             t2 == [t1 EXCEPT !.pdpt_off = p]
  <2>1. p \in Nat
    BY DEF MemoryPart
  <2>2. q \in Nat
    <3> HIDE DEF p
    <3> QED
      BY <2>1 DEF MemoryPart
  <2>3. tables' = [t2 EXCEPT !.pml4_off = q]
    BY DEF MapPage
  <2>4. t1 \in [page : Nat, pdpt_off : Nat, pml4_off : Nat, pml4 : Nat]
    BY DEF MemoryPart
  <2> HIDE DEF p, q, t1
  <2>5. t2 \in [page : Nat, pdpt_off : Nat, pml4_off : Nat, pml4 : Nat]
    BY <2>1, <2>4
  <2> HIDE DEF t2
  <2> QED
    BY <2>2, <2>3, <2>5
<1> QED
  BY <1>1, <1>2, PastMap DEF MemoryPart, BeforeIdt, InRealMode, AtMap, AtBlocks

LEMMA LoadStep ==
  ASSUME MemoryPart, SetPml4
  PROVE  MemoryPart'
<1>1. UNCHANGED <<heap, memory>> /\ pc' = "pic" /\ cr3' = tables.pml4
  BY DEF SetPml4
<1>2. cr3' \in Nat
  BY <1>1 DEF MemoryPart
<1> QED
  BY <1>1, <1>2, MemoryKept DEF BeforeIdt, InRealMode, AtMap, AtBlocks

LEMMA ProbeStep ==
  ASSUME MemoryPart, HeapRuns, ProbeBuses
  PROVE  MemoryPart'
<1>1. UNCHANGED <<cr3, region, size, tables>> /\ pc' \in {"unmask", "panic"}
  BY DEF ProbeBuses, Panic, memory, mode
<1> QED
  BY <1>1, PastMap DEF MemoryPart, HeapRuns, BeforeIdt, InRealMode, AtMap, AtBlocks

LEMMA MemorySteps ==
  ASSUME MapInv, MemoryPart, Next
  PROVE  MemoryPart'
<1>1. HeapRuns
  BY HeapStep
<1> QED
  BY <1>1, MemoryQuiet, IdtBlock, DevicesBlocks, FileStep, RegionBlocks, MapReadStep, CmosBlocks,
     SizeStep, TablesStep, PageStep, LoadStep, ProbeStep
     DEF Next, Run, Startup, MemoryInit, DeviceInit

-----------------------------------------------------------------------------
(* All of it together.                                                      *)

LEMMA Parts ==
  BootInv <=> MapInv /\ StartupPart /\ InterruptPart /\ ClockPlace /\ MemoryPart
<1>1. ASSUME BootInv PROVE MapInv /\ StartupPart /\ InterruptPart /\ ClockPlace /\ MemoryPart
  BY <1>1 DEF BootInv, TypeOK, StartupPart, InterruptPart, MemoryPart, Pics
<1>2. ASSUME MapInv, StartupPart, InterruptPart, ClockPlace, MemoryPart PROVE BootInv
  <2>1. deftype \subseteq 0..31
    BY <1>2 DEF StartupPart, StartupPlace, MTRR_ENABLE
  <2>2. \A i \in DOMAIN map : map[i].size \in Nat
    <3>1. map \in Seq(E820Entry) /\ DOMAIN map = 1..Len(map)
      BY <1>2, MapFacts
    <3>2. \A i \in 1..Len(map) : map[i] \in E820Entry
      BY <3>1, ElementOfSeq
    <3> QED
      BY <3>1, <3>2 DEF E820Entry
  <2>3. cmos.iodelay \in 0..Attempts
    BY <1>2 DEF ClockPlace
  <2>4. status \in [Devices -> Status]
    BY <1>2 DEF MapInv, MapPlace
  <2>5. TypeOK
    BY <1>2, <2>1, <2>2, <2>3, <2>4 DEF StartupPart, InterruptPart, MemoryPart, TypeOK, Pics
  <2> QED
    BY <1>2, <2>5 DEF BootInv, StartupPart, InterruptPart, MemoryPart
<1> QED
  BY <1>1, <1>2

LEMMA BootBegins == Init => BootInv
<1> SUFFICES ASSUME Init PROVE BootInv
  OBVIOUS
<1>1. MapInv /\ InterruptPart
  BY InitInv, InterruptsBegin
<1>2. StartupPart
  BY GdtFacts DEF Init, StartupPart, StartupPlace, InRealMode, Steps
<1>3. ClockPlace
  BY BootAssumption DEF Init, ClockPlace
<1>4. MemoryPart
  BY FirstHeapFacts DEF Init, MemoryPart, HeapPlace, BeforeIdt, InRealMode
<1> QED
  BY <1>1, <1>2, <1>3, <1>4, Parts

LEMMA BootKept == BootInv /\ [Next]_vars => BootInv'
<1> SUFFICES ASSUME BootInv, [Next]_vars PROVE BootInv'
  OBVIOUS
<1>1. MapInv /\ StartupPart /\ InterruptPart /\ ClockPlace /\ MemoryPart
  BY Parts
<1>2. MapInv'
  BY <1>1, MapStep
<1>5. MapInv' /\ StartupPart' /\ InterruptPart' /\ ClockPlace' /\ MemoryPart' => BootInv'
  BY Parts, PTL
<1>3. CASE Next
  <2>1. StartupPart'
    <3>1. CASE TakeInterrupt \/ TakeSpurious
      <4>1. pc = "halt" /\ pc' \in Handlers \ {"none"}
        BY <1>1, <3>1, TakeStep, SpuriousStep
      <4>2. UNCHANGED startup /\ segment' = "code64"
        BY <3>1, GdtFacts DEF TakeInterrupt, TakeSpurious, Enter
      <4> QED
        BY <1>1, <4>1, <4>2, StartupKept DEF Handlers, InRealMode, Steps
    <3>2. CASE LineRises \/ ClockUpdates
      BY <1>1, <3>2 DEF LineRises, ClockUpdates, StartupPart, StartupPlace, startup, mode
    <3>3. CASE Startup
      BY <1>1, <3>3, StartupSteps
    <3>4. CASE PageFault
      <4>1. UNCHANGED <<startup, segment>> /\ pc' = "fault" /\ cr3 # 0
        BY <3>4 DEF PageFault, mode
      <4>2. pc \notin InRealMode
        BY <1>1, <4>1 DEF StartupPart, StartupPlace
      <4> QED
        BY <1>1, <4>1, <4>2, StartupKept DEF InRealMode, Steps
    <3>5. CASE Next /\ ~(TakeInterrupt \/ TakeSpurious \/ PageFault \/ LineRises \/ ClockUpdates \/ Startup)
      <4>1. /\ UNCHANGED <<startup, segment>> /\ pc \notin InRealMode
            /\ pc' \in Steps \ (InRealMode \cup {"lost"})
        BY <3>5, DriverSteps DEF Next, Run, MemoryInit, DeviceInit
      <4> QED
        BY <1>1, <4>1, StartupKept
    <3> QED
      BY <1>3, <3>1, <3>2, <3>3, <3>4, <3>5
  <2>2. InterruptPart' /\ ClockPlace' /\ MemoryPart'
    BY <1>1, <1>3, InterruptSteps, ClockSteps, MemorySteps
  <2> QED
    BY <1>2, <1>5, <2>1, <2>2
<1>4. CASE UNCHANGED vars
  <2>1. StartupPart'
    BY <1>1, <1>4 DEF vars, startup, mode, StartupPart, StartupPlace
  <2>2. InterruptPart'
    BY <1>1, <1>4 DEF vars, chips, InterruptPart, InterruptPlace, ChipsReady, Handled
  <2>3. ClockPlace'
    BY <1>1, <1>4 DEF vars, clock, ClockPlace
  <2>4. MemoryPart'
    BY <1>1, <1>4, MemoryKept DEF vars, mode, MemoryPart
  <2> QED
    BY <1>2, <1>5, <2>1, <2>2, <2>3, <2>4
<1> QED
  BY <1>3, <1>4

(* The invariant of the boot: what each stretch of it has set up.           *)
THEOREM BootInvariant == Spec => []BootInv
BY BootBegins, BootKept, PTL DEF Spec

(* Every variable keeps its type, whatever the lists, the clock and the     *)
(* lines do: the heap pointer, the offsets into the tables and the count of *)
(* cmos_init()'s attempts among them.                                       *)
THEOREM BootTypeCorrect == Spec => []TypeOK
<1>1. BootInv => TypeOK
  BY DEF BootInv
<1> QED
  BY <1>1, BootInvariant, PTL

(* switch_to_protected jumps where it should, the stack has memory behind   *)
(* it, and all C code runs in the 64-bit segment.                           *)
THEOREM StartupStaysSafe == Spec => []StartupSafe
<1>1. BootInv => StartupSafe
  BY DEF BootInv, StartupPlace, StartupSafe
<1> QED
  BY <1>1, BootInvariant, PTL

LEMMA OpenLineIsTimer ==
  ASSUME BootInv, interrupts
  PROVE  OpenLinesHandled
<1>1. InterruptPart
  BY Parts
<1>2. pc = "halt"
  BY <1>1 DEF InterruptPart, InterruptPlace
<1>3. /\ pc \notin BeforePic \cup Stopped /\ pc \notin BeforePit \cup Stopped /\ pc \notin BeforeHalt
  BY <1>2 DEF BeforeHalt, BeforePit, BeforePic, BeforeMap, Stopped
<1>4. /\ ChipsReady({CASCADE, TIMER_LINE}) /\ pic["primary"].isr = {}
      /\ idt[TIMER_VECTOR] = "pit_int_handler"
  BY <1>1, <1>2, <1>3 DEF InterruptPart, InterruptPlace
<1>5. /\ pic["primary"].imr = (0..7) \ {CASCADE, TIMER_LINE} /\ pic["secondary"].imr = 0..7
      /\ pic["primary"].base = {5} /\ pic["secondary"].base = {3, 5}
  BY <1>4 DEF ChipsReady, Chips, ICW2
<1>6. Number({5}) = 32 /\ Number({3, 5}) = 40
  BY DEF Number
<1>7. ASSUME NEW line \in Lines
      PROVE  /\ line < 8 => ChipOf(line) = "primary" /\ InputOf(line) = line /\ Vector(pic, line) = 32 + line
             /\ line >= 8 => ChipOf(line) = "secondary" /\ InputOf(line) \in 0..7
                             /\ Vector(pic, line) = 40 + InputOf(line)
  <2>1. line \in 0..15 /\ line % 8 \in 0..7 /\ (line < 8 => line % 8 = line)
    BY DEF Lines
  <2>2. line < 8 => ChipOf(line) = "primary" /\ InputOf(line) = line /\ Vector(pic, line) = 32 + line
    BY <1>5, <1>6, <2>1 DEF ChipOf, InputOf, Vector
  <2>3. line >= 8 => /\ ChipOf(line) = "secondary" /\ InputOf(line) \in 0..7
                     /\ Vector(pic, line) = 40 + InputOf(line)
    <3> SUFFICES ASSUME line >= 8
                 PROVE  /\ ChipOf(line) = "secondary" /\ InputOf(line) \in 0..7
                        /\ Vector(pic, line) = 40 + InputOf(line)
      OBVIOUS
    <3>1. ChipOf(line) = "secondary" /\ InputOf(line) \in 0..7
      BY <2>1 DEF ChipOf, InputOf
    <3> QED
      BY <1>5, <1>6, <3>1 DEF Vector
  <2> QED
    BY <2>2, <2>3
<1>8. ASSUME NEW line \in Lines, Open(line) PROVE line = TIMER_LINE
  BY <1>5, <1>7, <1>8 DEF Open, Lines, TIMER_LINE, CASCADE
<1>9. /\ Vector(pic, TIMER_LINE) = TIMER_VECTOR /\ TIMER_VECTOR = 32
      /\ \A other \in Lines \ {TIMER_LINE} : Vector(pic, TIMER_LINE) # Vector(pic, other)
  BY <1>7 DEF Lines, TIMER_LINE, TIMER_VECTOR
<1> QED
  BY <1>2, <1>4, <1>8, <1>9 DEF OpenLinesHandled

(* What the masks let through has a vector and a handler of its own, and    *)
(* the idle loop leaves nothing in service, for every set of lines that may *)
(* rise.                                                                    *)
THEOREM OnlyHandledLinesOpen == Spec => []OpenLinesHandled
<1>1. BootInv => OpenLinesHandled
  BY OpenLineIsTimer DEF OpenLinesHandled
<1> QED
  BY <1>1, BootInvariant, PTL

-----------------------------------------------------------------------------
(* Paging.                                                                  *)

LEMMA GateInTable == SPLIT_GATE \in Vectors
BY DEF SPLIT_GATE, Vectors

LEMMA Places == IDT_ENTRIES = 33322 /\ SIZEOF_idt_entry = 16 /\ BOOT_PML4 = 16384 /\ BOOT_PDPT = 8192
BY HeapNumbers DEF IDT_ENTRIES, Pointer, HDR, SIZEOF_idt_entry, BOOT_PML4, BOOT_PDPT, PAGE

(* the tables of setup_paging and a root that has them for its next table   *)
LEMMA BootTables ==
  ASSUME NEW gates
  PROVE  /\ EntryAt(BootLow, gates, 8192) = 3 /\ EntryAt(BootLow, gates, 0) = 3 /\ EntryAt(BootLow, gates, BOOT_PML4) = 8195
         /\ \A page \in FirmwarePages : EntryAt(BootLow, gates, 8 * page) = page * 4096 + 3
<1>1. EntryAt(BootLow, gates, BOOT_PML4) = 8195
  BY Places DEF EntryAt, LOW
<1>2. ASSUME NEW a \in 0..16383
      PROVE  EntryAt(BootLow, gates, a) = ((a \div 8) % 1024) * 4096 + 3
  <2>1. a < BOOT_PML4 /\ a # BOOT_PML4 /\ ~(IDT_ENTRIES <= a)
    BY Places
  <2>2. a \div 8 \in LOW => BootLow[a \div 8] = LoopEntry(a \div 8)
    BY DEF BootLow
  <2>3. EntryAt(BootLow, gates, a) = LoopEntry(a \div 8)
    BY <2>1, <2>2, SMTT(30) DEF EntryAt
  <2> QED
    BY <2>3 DEF LoopEntry, PAGE
<1>3. 8192 \div 8 = 1024 /\ 1024 % 1024 = 0 /\ 0 \div 8 = 0 /\ 0 % 1024 = 0
  OBVIOUS
<1>4. EntryAt(BootLow, gates, 8192) = 3 /\ EntryAt(BootLow, gates, 0) = 3
  BY <1>2, <1>3
<1>5. ASSUME NEW page \in FirmwarePages PROVE EntryAt(BootLow, gates, 8 * page) = page * 4096 + 3
  <2>1. /\ page \in 0..255 /\ 8 * page \in 0..16383
        /\ (8 * page) \div 8 = page /\ page % 1024 = page
    BY BootAssumption
  <2> QED
    BY <1>2, <2>1
<1> QED
  BY <1>1, <1>4, <1>5

LEMMA FrameFacts ==
  /\ Frame(3) = 0 /\ Frame(15) = 0 /\ Frame(8195) = 8192 /\ Frame(BOOT_PML4) = BOOT_PML4
  /\ Present(3) /\ Present(15) /\ Present(8195)
  /\ \A page \in 0..255 : Present(page * 4096 + 3) /\ Frame(page * 4096 + 3) = page * PAGE
<1>1. /\ 3 \div 4096 = 0 /\ 15 \div 4096 = 0 /\ 8195 \div 4096 = 2 /\ 16384 \div 4096 = 4
      /\ 3 % 2 = 1 /\ 15 % 2 = 1 /\ 8195 % 2 = 1
  OBVIOUS
<1>2. \A page \in 0..255 : (page * 4096 + 3) % 2 = 1 /\ (page * 4096 + 3) \div 4096 = page
  OBVIOUS
<1> QED
  BY <1>1, <1>2 DEF Frame, Present, PAGE, BOOT_PML4

LEMMA TablesAtZero ==
  ASSUME NEW gates, NEW root, NEW e \in {3, 8195}, PageTable(BootLow, gates, root) = 0
  PROVE  IdentityMapped(BootLow, gates, root)
<1> SUFFICES ASSUME NEW page \in FirmwarePages
             PROVE  /\ Present(EntryAt(BootLow, gates, PageTable(BootLow, gates, root) + 8 * page))
                    /\ Frame(EntryAt(BootLow, gates, PageTable(BootLow, gates, root) + 8 * page)) = page * PAGE
  BY DEF IdentityMapped, NoFrame
<1>1. page \in 0..255 /\ PageTable(BootLow, gates, root) + 8 * page = 8 * page
  BY BootAssumption
<1>2. EntryAt(BootLow, gates, 8 * page) = page * 4096 + 3
  BY BootTables
<1> QED
  BY <1>1, <1>2, FrameFacts

LEMMA RootMapsFirmware ==
  ASSUME TypeOK, Mapped, cr3 # 0
  PROVE  IdentityMapped(BootLow, idt, cr3)
<1> SUFFICES PageTable(BootLow, idt, cr3) = 0
  BY TablesAtZero
<1>1. CASE cr3 = BOOT_PML4
  <2>1. EntryAt(BootLow, idt, Frame(cr3)) = 8195
    BY <1>1, BootTables, FrameFacts
  <2>2. EntryAt(BootLow, idt, Frame(8195)) = 3 /\ EntryAt(BootLow, idt, Frame(3)) = 3
    BY BootTables, FrameFacts
  <2> QED
    BY <2>1, <2>2, FrameFacts DEF PageTable
<1>2. CASE Frame(cr3) = 9 * PAGE /\ idt[SPLIT_GATE] # "none"
  <2>1. EntryAt(BootLow, idt, 36864) = 15
    <3>2. /\ (36864 - 33322) % 16 = 6 /\ (36864 - 33322) \div 16 = 221 /\ 36864 \div 8 = 4608
      OBVIOUS
    <3>3. EntryAt(BootLow, idt, 36864) = GateFromMid(idt[221])
      BY Places, <3>2 DEF EntryAt, LOW
    <3> QED
      BY <1>2, <3>3 DEF GateFromMid, HANDLER_MID, SPLIT_GATE
  <2>2. Frame(cr3) = 36864
    BY <1>2 DEF PAGE
  <2>3. EntryAt(BootLow, idt, Frame(15)) = 3 /\ EntryAt(BootLow, idt, Frame(3)) = 3
    BY BootTables, FrameFacts
  <2> QED
    BY <2>1, <2>2, <2>3, FrameFacts DEF PageTable
<1> QED
  BY <1>1, <1>2 DEF Mapped

LEMMA MappedMeansMapped == BootInv /\ Mapped => FirmwareMapped
<1> SUFFICES ASSUME BootInv, Mapped PROVE FirmwareMapped
  OBVIOUS
<1>1. TypeOK /\ (heap.ended \/ heap.low = BootLow)
  BY DEF BootInv, HeapPlace
<1>2. cr3 # 0 /\ ~heap.ended => IdentityMapped(heap.low, idt, cr3)
  BY <1>1, RootMapsFirmware
<1> QED
  BY <1>2 DEF FirmwareMapped, Mapped

LEMMA MappedBegins == Init => Mapped
BY DEF Init, Mapped

LEMMA MappingLeftAlone ==
  ASSUME CacheAsRam \/ MoveStack \/ DisableMtrr \/ SwitchToProtected \/ NewDevices \/
         FindE820 \/ MapRead \/ MemorySize \/ MapPage \/ InitPic \/ InitKeyboard \/
         CmosMonth \/ CmosAgain \/ CmosGivesUp \/ ProbeBuses \/ EnableInterrupts \/
         PitHandler \/ DefaultHandler \/ CmosPoll \/ TakeInterrupt \/ TakeSpurious \/
         LineRises \/ ClockUpdates
  PROVE  /\ UNCHANGED <<map, cr3, idt>>
         /\ (pc' = "pages" => pc = "pages" /\ tables'.pml4 = tables.pml4)
         /\ (pc' = "fault" => pc = "fault" /\ heap' = heap)
<1>1. CASE CacheAsRam
  BY <1>1 DEF CacheAsRam, memory, mode, chips
<1>2. CASE MoveStack
  BY <1>2 DEF MoveStack, memory, mode, chips
<1>3. CASE DisableMtrr
  BY <1>3 DEF DisableMtrr, memory, mode, chips
<1>4. CASE SwitchToProtected
  BY <1>4 DEF SwitchToProtected, memory, mode, chips
<1>5. CASE NewDevices
  BY <1>5 DEF NewDevices, Panic, memory, mode, chips
<1>6. CASE FindE820
  BY <1>6 DEF FindE820, memory, mode, chips
<1>7. CASE MapRead
  BY <1>7 DEF MapRead, memory, mode, chips
<1>8. CASE MemorySize
  BY <1>8 DEF MemorySize, memory, mode, chips
<1>9. CASE MapPage
  BY <1>9 DEF MapPage, memory, mode, chips
<1>10. CASE InitPic
  BY <1>10 DEF InitPic, memory, mode, chips
<1>11. CASE InitKeyboard
  BY <1>11 DEF InitKeyboard, Panic, memory, mode, chips
<1>12. CASE CmosMonth
  BY <1>12 DEF CmosMonth, NextAttempt, memory, mode, chips
<1>13. CASE CmosAgain
  BY <1>13 DEF CmosAgain, NextAttempt, memory, mode, chips
<1>14. CASE CmosGivesUp
  BY <1>14 DEF CmosGivesUp, memory, mode, chips
<1>15. CASE ProbeBuses
  BY <1>15 DEF ProbeBuses, Panic, memory, mode, chips
<1>16. CASE EnableInterrupts
  BY <1>16 DEF EnableInterrupts, memory, mode, chips
<1>17. CASE PitHandler
  BY <1>17 DEF PitHandler, memory, mode, chips
<1>18. CASE DefaultHandler
  BY <1>18 DEF DefaultHandler, Panic, memory, mode, chips
<1>19. CASE CmosPoll
  BY <1>19 DEF CmosPoll, memory, mode, chips
<1>20. CASE TakeInterrupt
  BY <1>20 DEF TakeInterrupt, Enter, Handlers, memory, mode, chips
<1>21. CASE TakeSpurious
  BY <1>21 DEF TakeSpurious, Enter, Handlers, memory, mode, chips
<1>22. CASE LineRises
  BY <1>22 DEF LineRises, memory, mode, chips
<1>23. CASE ClockUpdates
  BY <1>23 DEF ClockUpdates, memory, mode, chips
<1> QED
  BY <1>1, <1>2, <1>3, <1>4, <1>5, <1>6, <1>7, <1>8, <1>9, <1>10, <1>11, <1>12, <1>13,
     <1>14, <1>15, <1>16, <1>17, <1>18, <1>19, <1>20, <1>21, <1>22, <1>23

(* the end of a short list is at most 22 entries behind its beginning       *)
LEMMA MapStaysShort ==
  ASSUME ShortLists, BootInv, BootInv', Mapped, ReadRegion \/ MapFromCmos
  PROVE  Len(map') <= 22
<1>1. MapInv /\ MapInv'
  BY DEF BootInv
<1>2. CASE ReadRegion
  <2>1. pc = "e820" /\ pc' = "e820" /\ files' = files
    BY <1>2 DEF ReadRegion
  <2>2. E820 \in DOMAIN files /\ files \in FwCfgs
    BY <1>1, <2>1 DEF MapInv, MapPlace
  <2>3. Len(RegionList) <= 18 /\ Len(RegionList) \in Nat
    BY <1>1, <2>2, ListFacts DEF ShortLists, RegionList, MapInv
  <2>4. ListRead' /\ RegionList' = RegionList
    BY <1>1, <2>1 DEF MapInv, MapPlace, RegionList, E820
  <2>5. region' \in 1..(Len(RegionList) + 1) /\ Len(map') <= region' - 1 + 4
    <3> DEFINE low == \E i \in 1..(region' - 1) : RegionList'[i].addr = 0
    <3>1. /\ region' \in 1..(Len(RegionList') + 1)
          /\ Len(map') <= region' - 1 + (IF low THEN 4 ELSE 0)
      BY <2>4 DEF ListRead
    <3> HIDE DEF low
    <3>2. map' \in Seq(E820Entry)
      BY <1>1 DEF MapInv, MapPlace, E820Entry
    <3>3. Len(map') \in Nat
      BY <3>2
    <3>4. region' \in 1..(Len(RegionList) + 1)
      BY <2>4, <3>1
    <3> QED
      BY <2>3, <3>1, <3>3, <3>4
  <2>6. Len(map') \in Nat
    <3>1. map' \in Seq(E820Entry)
      BY <1>1 DEF MapInv, MapPlace, E820Entry
    <3> QED
      BY <3>1
  <2> QED
    BY <2>3, <2>5, <2>6
<1>3. CASE MapFromCmos
  <2>1. PICK c \in CmosSizes : AddEntries(cmos_read_memory_info(c[1], c[2]))
    BY <1>3 DEF MapFromCmos
  <2>2. map = << >> /\ heap \in Heaps
    BY <1>1, <1>3 DEF MapFromCmos, MapInv, MapPlace
  <2>3. PICK new \in Seq(E820Entry) :
          AddEntries(new) /\ Len(new) \in Nat /\ 1 <= Len(new) /\ Len(new) <= 3 /\ << >> \o new = new
    BY <2>1, EntriesOfCmos
  <2>4. CASE heap.ended
    <3>1. Len(map') = Len(new)
      BY <2>2, <2>3, <2>4, OverwrittenFacts
    <3> QED
      BY <2>3, <3>1
  <2>5. CASE ~heap.ended
    <3>1. map' = new
      BY <2>2, <2>3, <2>5 DEF AddEntries
    <3> QED
      BY <2>3, <3>1
  <2> QED
    BY <2>4, <2>5
<1> QED
  BY <1>2, <1>3

LEMMA TenthPage ==
  ASSUME NEW a \in Nat, 36864 <= a, a <= 40959
  PROVE  Frame(a) = 9 * PAGE
<1>1. a \div 4096 = 9
  OBVIOUS
<1> QED
  BY <1>1 DEF Frame, PAGE

(* pml4 of a short map begins in the tenth page                             *)
LEMMA RootInTenthPage ==
  ASSUME BootInv, Mapped, AllocateTables, pc' = "pages"
  PROVE  Frame(tables'.pml4) = 9 * PAGE
<1>1. MapInv /\ MemoryPart
  BY Parts
<1>2. pc = "tables" /\ ~heap.ended
  BY DEF AllocateTables, Panic
<1>3. /\ heap.hole \in {0, 128} /\ (heap.hole = 0 => Len(map) <= 5)
  BY <1>1, <1>2, HeapNumbers DEF MemoryPart, HeapPlace, FileBlock
<1>4. size.mb \in Nat /\ size.mb <= Len(map) /\ Len(map) \in Nat /\ Len(map) <= 22
  BY <1>1, MapFacts DEF MapInv, SizeBounded, Mapped
<1>5. Pages \in Nat /\ Pages * 4 <= size.mb /\ PdptCount = 1
  BY <1>1, <1>4, TableFacts, PagesBounded
<1>6. /\ TableBlock(Pages) \in Nat /\ TableBlock(Pages) <= 9 * Pages + 64
      /\ TableBlock(PdptCount) = 64
  BY <1>4, <1>5, TableFacts
<1>7. PICK n \in Nat, p \in Nat, t \in Nat, m \in Nat :
        n = Len(map) /\ p = Pages /\ t = TableBlock(Pages) /\ m = size.mb
  BY <1>4, <1>5, <1>6
<1>8. t <= 128 /\ (n <= 5 => t <= 73)
  BY <1>4, <1>5, <1>6, <1>7
<1>9. /\ tables'.pml4 \in Nat /\ 39296 <= tables'.pml4
      /\ tables'.pml4 <= 39424 + n * 64 + 64 + (IF heap.hole = 0 THEN t ELSE 0)
  BY <1>1, <1>3, <1>6, <1>7, <1>8, Pml4Address
<1>10. PICK a \in Nat : a = tables'.pml4
  BY <1>9
<1>11. 36864 <= a /\ a <= 40959
  BY <1>3, <1>4, <1>7, <1>8, <1>9, <1>10
<1> QED
  BY <1>10, <1>11, TenthPage

LEMMA MappedKept ==
  ASSUME ShortLists, BootInv, BootInv', Mapped, [Next]_vars
  PROVE  Mapped'
<1>1. CASE CacheAsRam \/ MoveStack \/ DisableMtrr \/ SwitchToProtected \/ NewDevices \/
           FindE820 \/ MapRead \/ MemorySize \/ MapPage \/ InitPic \/ InitKeyboard \/
           CmosMonth \/ CmosAgain \/ CmosGivesUp \/ ProbeBuses \/ EnableInterrupts \/
           PitHandler \/ DefaultHandler \/ CmosPoll \/ TakeInterrupt \/ TakeSpurious \/
           LineRises \/ ClockUpdates
  BY <1>1, MappingLeftAlone DEF Mapped
<1>2. CASE ReadRegion \/ MapFromCmos
  <2>1. UNCHANGED <<cr3, idt>> /\ pc' \notin {"pages", "fault"}
    BY <1>2 DEF ReadRegion, MapFromCmos, mode, chips
  <2> QED
    BY <1>2, <2>1, MapStaysShort DEF Mapped
<1>3. CASE SetupPaging
  BY <1>3 DEF SetupPaging, Mapped, memory
<1>4. CASE AllocateTables
  <2>1. UNCHANGED <<map, idt, cr3>> /\ pc' \in {"pages", "panic"}
    BY <1>4 DEF AllocateTables, Panic, memory, chips, mode
  <2> QED
    BY <1>4, <2>1, RootInTenthPage DEF Mapped
<1>5. CASE SetPml4
  <2>1. UNCHANGED <<map, idt>> /\ pc = "pages" /\ pc' = "pic" /\ cr3' = tables.pml4
    BY <1>5 DEF SetPml4, memory, chips
  <2>2. Handled
    BY <2>1 DEF BootInv, InterruptPlace, BeforeIdt, InRealMode, Stopped
  <2>3. idt[SPLIT_GATE] # "none"
    BY <2>2, GateInTable DEF Handled
  <2> QED
    BY <2>1, <2>3 DEF Mapped
<1>6. CASE InitIdt
  <2>1. UNCHANGED <<map, cr3>> /\ idt' \in {init_idt, idt} /\ pc' \notin {"pages", "fault"}
    BY <1>6 DEF InitIdt, Panic, memory, mode
  <2>2. init_idt[SPLIT_GATE] # "none"
    BY GateInTable DEF init_idt
  <2> QED
    BY <2>1, <2>2 DEF Mapped
<1>7. CASE InitPit
  <2>1. UNCHANGED <<map, cr3>> /\ idt' = [idt EXCEPT ![TIMER_VECTOR] = "pit_int_handler"]
        /\ pc' = "buses"
    BY <1>7 DEF InitPit, memory, mode, add_interrupt_handler
  <2>2. idt[SPLIT_GATE] # "none" => idt'[SPLIT_GATE] # "none"
    BY <2>1, GateInTable DEF BootInv, TypeOK, SPLIT_GATE, TIMER_VECTOR
  <2> QED
    BY <2>1, <2>2 DEF Mapped
<1>8. CASE PageFault
  <2>1. /\ UNCHANGED <<map, cr3, idt, heap>> /\ pc' = "fault" /\ cr3 # 0
        /\ ~IdentityMapped(heap.low, idt, cr3)
    BY <1>8 DEF PageFault, memory, mode, chips
  <2>2. heap.ended
    BY <2>1, RootMapsFirmware DEF BootInv, HeapPlace
  <2> QED
    BY <2>1, <2>2 DEF Mapped
<1>9. CASE UNCHANGED vars
  BY <1>9 DEF vars, memory, mode, chips, Mapped
<1> QED
  BY <1>1, <1>2, <1>3, <1>4, <1>5, <1>6, <1>7, <1>8, <1>9
     DEF Next, Run, Startup, MemoryInit, DeviceInit

(* With a list of at most 18 regions the first megabyte means itself from   *)
(* the moment paging is on, although the root that init_paging() loads is   *)
(* cut to the start of a page in the middle of the interrupt table, unless  *)
(* a free() cut the list of the heap; and only then is the machine reset.   *)
THEOREM FirmwareStaysMapped ==
  ASSUME ShortLists
  PROVE  Spec => []FirmwareMapped
<1>1. Mapped /\ BootInv /\ BootInv' /\ [Next]_vars => Mapped'
  BY MappedKept
<1>2. Spec => []Mapped
  BY <1>1, MappedBegins, BootInvariant, PTL DEF Spec
<1>3. BootInv /\ Mapped => FirmwareMapped
  BY MappedMeansMapped
<1> QED
  BY <1>2, <1>3, BootInvariant, PTL
=============================================================================
