----------------------------- MODULE HeapProofs -----------------------------
(***************************************************************************)
(* The invariants of HeapContract for every heap size, header size, page   *)
(* table and set of requests.                                              *)
(***************************************************************************)
EXTENDS HeapContract, TLAPS

(* The constants as the proofs use them: Start is not expanded again.      *)
LEMMA Constants ==
  /\ HDR \in Nat /\ 0 < HDR
  /\ Start \in Nat /\ HeapSize \in Nat /\ HeapEnd \in Nat
  /\ HeapEnd = Start + HeapSize - HDR /\ 2 * HDR < HeapSize - HDR
  /\ NullSize \in Nat /\ HDR < NullSize
  /\ PT \in Nat /\ PTA \in Nat /\ PTD \in Nat /\ Huge \in Nat
  /\ NULL = 0 /\ 0 < PT /\ PT < PTA /\ PTA < PTD /\ PTD < Start /\ HeapEnd + NullSize <= Huge
  /\ RootEntry \in Nat
  /\ MallocSizes \subseteq Nat /\ ReallocSizes \subseteq Nat \ {0}
<1>1. HeapStartSize * HDR \in Nat
  BY HeapAssumption
<1> QED
  BY <1>1, HeapAssumption DEF Start, HeapEnd, NULL

(* the headers that are read from the page table do not overlap either *)
LEMMA SystemApart ==
  HDR <= PT /\ PT + HDR <= PTA /\ PTA + HDR <= PTD /\ PTD + HDR <= Start
<1>1. HeapStartSize * HDR \in Nat
  BY HeapAssumption
<1> QED
  BY <1>1, HeapAssumption DEF Start, NULL

-----------------------------------------------------------------------------
(* What the parts of insert_new_block() turn a memory m into, field by field. *)
HeaderAdded(r, m, a, size) ==
  /\ r \in [DOMAIN m \cup {a + size} -> Header]
  /\ r[a + size].previous = a /\ r[a + size].next = m[a].next
  /\ r[a + size].size = m[a].size - size /\ r[a + size].free = TRUE
  /\ \A x \in DOMAIN m \ {a + size} : r[x] = m[x]

BackLinked(r, m, new) ==
  LET s == m[new].next IN
  /\ r \in [DOMAIN m -> Header]
  /\ r[s].previous = new /\ r[s].next = m[s].next
  /\ r[s].size = m[s].size /\ r[s].free = m[s].free
  /\ \A x \in DOMAIN m \ {s} : r[x] = m[x]

(* the header at a shrunk to size bytes and linked to a + size *)
Shrunk(r, m, a, size) ==
  /\ r \in [DOMAIN m -> Header]
  /\ r[a].previous = m[a].previous /\ r[a].next = a + size
  /\ r[a].size = size /\ r[a].free = m[a].free
  /\ \A x \in DOMAIN m \ {a} : r[x] = m[x]

(* a split of the block at a from its taken follower s *)
SplitBetween(r, m, a, size) ==
  LET new == a + size
      s == m[a].next IN
  /\ r \in [DOMAIN m \cup {new} -> Header]
  /\ r[new].previous = a /\ r[new].next = s
  /\ r[new].size = m[a].size - size /\ r[new].free = TRUE
  /\ r[a].previous = m[a].previous /\ r[a].next = new
  /\ r[a].size = size /\ r[a].free = m[a].free
  /\ r[s].previous = new /\ r[s].next = m[s].next
  /\ r[s].size = m[s].size /\ r[s].free = m[s].free
  /\ \A x \in DOMAIN m \ {a, s} : r[x] = m[x]

LEMMA AddHeaderFacts ==
  ASSUME NEW m, m \in [DOMAIN m -> Header], NEW a \in DOMAIN m, a \in Nat,
         NEW size \in Nat, size <= m[a].size
  PROVE  HeaderAdded(AddHeader(m, a, size), m, a, size)
BY DEF AddHeader, HeaderAdded, Put, Header

LEMMA LinkBackFacts ==
  ASSUME NEW m, m \in [DOMAIN m -> Header], NEW new \in DOMAIN m, new \in Nat,
         m[new].next \in DOMAIN m
  PROVE  BackLinked(LinkBack(m, new), m, new)
BY DEF LinkBack, BackLinked, Header

LEMMA ShrinkFacts ==
  ASSUME NEW m, m \in [DOMAIN m -> Header], NEW a \in DOMAIN m, a \in Nat,
         NEW size \in Nat
  PROVE  Shrunk([m EXCEPT ![a].size = size, ![a].next = a + size], m, a, size)
<1> DEFINE m1 == [m EXCEPT ![a].size = size]
           r == [m1 EXCEPT ![a].next = a + size]
<1>1. /\ m1 \in [DOMAIN m -> Header]
      /\ m1[a].previous = m[a].previous /\ m1[a].free = m[a].free
      /\ m1[a].size = size
      /\ \A x \in DOMAIN m \ {a} : m1[x] = m[x]
  BY DEF Header
<1> HIDE DEF m1
<1>2. Shrunk(r, m, a, size)
  BY <1>1 DEF Shrunk, Header
<1> QED
  BY <1>2 DEF m1

(* insert_new_block() between two blocks of which the second is taken.     *)
LEMMA InsertBetween ==
  ASSUME NEW m, m \in [DOMAIN m -> Header], NEW a \in DOMAIN m, a \in Nat,
         NEW size \in Nat, size <= m[a].size, a + size \notin DOMAIN m,
         m[a].next \in DOMAIN m, m[a].next # a, ~m[m[a].next].free
  PROVE  SplitBetween(InsertNewBlock(m, a, size), m, a, size)
<1> DEFINE new == a + size
           m1 == AddHeader(m, a, size)
           m2 == LinkBack(m1, new)
           r == InsertNewBlock(m, a, size)
<1>1. HeaderAdded(m1, m, a, size)
  BY AddHeaderFacts
<1>2. MergeFollower(m1, new) = m1
  BY <1>1 DEF MergeFollower, HeaderAdded
<1>3. r = [m2 EXCEPT ![a].size = size, ![a].next = new]
  BY <1>2 DEF InsertNewBlock
<1> HIDE DEF m1, r
<1>4. BackLinked(m2, m1, new)
  BY <1>1, LinkBackFacts DEF HeaderAdded
<1> HIDE DEF m2
<1>5. Shrunk(r, m2, a, size)
  BY <1>1, <1>3, <1>4, ShrinkFacts DEF HeaderAdded, BackLinked
<1>6. SplitBetween(r, m, a, size)
  BY <1>1, <1>4, <1>5 DEF HeaderAdded, BackLinked, Shrunk, SplitBetween
<1> QED
  BY <1>6 DEF r

-----------------------------------------------------------------------------
(* The first split: the follower is the "header" at address 0, whose own   *)
(* link is t, in the page table.                                           *)
MergedFirst(r, m, new) ==
  LET t == m[NULL].next IN
  /\ r \in [DOMAIN m -> Header]
  /\ r[new].previous = m[new].previous /\ r[new].next = t
  /\ r[new].size = m[new].size + m[NULL].size /\ r[new].free = m[new].free
  /\ r[t] = Zeroed
  /\ r[NULL].previous = m[NULL].previous /\ r[NULL].next = PTD
  /\ r[NULL].size = m[NULL].size /\ r[NULL].free = m[NULL].free
  /\ \A x \in DOMAIN m \ {new, t, NULL} : r[x] = m[x]

SplitFirst(r, m, a, size) ==
  LET new == a + size
      t == m[NULL].next IN
  /\ r \in [DOMAIN m \cup {new} -> Header]
  /\ r[new].previous = a /\ r[new].next = t
  /\ r[new].size = m[a].size - size + m[NULL].size /\ r[new].free = TRUE
  /\ r[a].previous = m[a].previous /\ r[a].next = new
  /\ r[a].size = size /\ r[a].free = m[a].free
  /\ r[t].next = NULL /\ r[t].free = FALSE
  /\ r[NULL].previous = m[NULL].previous /\ r[NULL].next = PTD
  /\ r[NULL].size = m[NULL].size /\ r[NULL].free = m[NULL].free
  /\ \A x \in DOMAIN m \ {a, t, NULL} : r[x] = m[x]

LEMMA ZeroedFacts ==
  /\ Zeroed \in Header
  /\ Zeroed.previous = NULL /\ Zeroed.next = NULL
  /\ Zeroed.size = 0 /\ Zeroed.free = FALSE
BY DEF Zeroed, Header, NULL

LEMMA MergeFirstFacts ==
  ASSUME NEW m, m \in [DOMAIN m -> Header], NEW new \in DOMAIN m,
         NULL \in DOMAIN m, m[NULL].next \in DOMAIN m,
         m[NULL].next \in {PT, PTA}, new \notin {NULL, PT, PTA, PTD},
         m[new].next = NULL, m[NULL].free
  PROVE  MergedFirst(MergeFollower(m, new), m, new)
<1> DEFINE t == m[NULL].next
           m1 == [m EXCEPT ![new].size = @ + m[NULL].size]
           m2 == [m1 EXCEPT ![new].next = t]
           m3 == Put(m2, t, Zeroed)
           r == [m3 EXCEPT ![NULL].next = PTD]
<1>0. t \in Nat /\ PTD \in Nat /\ t # NULL /\ t # new /\ new # NULL
  BY Constants
<1>1. /\ m1 \in [DOMAIN m -> Header]
      /\ m1[new].previous = m[new].previous /\ m1[new].free = m[new].free
      /\ m1[new].size = m[new].size + m[NULL].size
      /\ \A x \in DOMAIN m \ {new} : m1[x] = m[x]
  BY DEF Header
<1> HIDE DEF m1
<1>2. /\ m2 \in [DOMAIN m -> Header]
      /\ m2[new].previous = m[new].previous /\ m2[new].free = m[new].free
      /\ m2[new].size = m[new].size + m[NULL].size /\ m2[new].next = t
      /\ \A x \in DOMAIN m \ {new} : m2[x] = m[x]
  BY <1>0, <1>1 DEF Header
<1> HIDE DEF m2
<1>3. /\ m3 \in [DOMAIN m -> Header]
      /\ m3[t] = Zeroed
      /\ \A x \in DOMAIN m \ {t} : m3[x] = m2[x]
  BY <1>2, ZeroedFacts DEF Put
<1>4. m3[NULL] = m[NULL]
  BY <1>0, <1>2, <1>3
<1>5. MergeFollower(m, new) = SetDirty(m3)
  BY DEF MergeFollower, m2, m1
<1>6. SetDirty(m3) = r
  BY <1>4 DEF SetDirty
<1> HIDE DEF m3
<1>7. /\ r \in [DOMAIN m -> Header]
      /\ r[NULL].previous = m[NULL].previous /\ r[NULL].next = PTD
      /\ r[NULL].size = m[NULL].size /\ r[NULL].free = m[NULL].free
      /\ \A x \in DOMAIN m \ {NULL} : r[x] = m3[x]
  BY <1>0, <1>3, <1>4 DEF Header
<1> HIDE DEF r
<1>8. MergedFirst(r, m, new)
  BY <1>0, <1>2, <1>3, <1>7 DEF MergedFirst
<1> QED
  BY <1>5, <1>6, <1>8

LEMMA InsertFirst ==
  ASSUME NEW m, m \in [DOMAIN m -> Header], NEW a \in DOMAIN m, a \in Nat,
         NEW size \in Nat, size <= m[a].size, a + size \notin DOMAIN m,
         {NULL, PT, PTA, PTD} \subseteq DOMAIN m, a \notin {NULL, PT, PTA, PTD},
         m[a].next = NULL, m[NULL].free, m[NULL].next \in {PT, PTA}
  PROVE  SplitFirst(InsertNewBlock(m, a, size), m, a, size)
<1> DEFINE new == a + size
           t == m[NULL].next
           m1 == AddHeader(m, a, size)
           m2 == MergeFollower(m1, new)
           m3 == LinkBack(m2, new)
           r == InsertNewBlock(m, a, size)
<1>0. t # NULL /\ t # new /\ new # NULL /\ t # a /\ new # a
  BY Constants
<1>1. HeaderAdded(m1, m, a, size)
  BY AddHeaderFacts
<1>2. r = [m3 EXCEPT ![a].size = size, ![a].next = new]
  BY DEF InsertNewBlock
<1> HIDE DEF m1, r
<1>3. MergedFirst(m2, m1, new)
  BY <1>0, <1>1, MergeFirstFacts DEF HeaderAdded
<1> HIDE DEF m2
<1>4. BackLinked(m3, m2, new)
  BY <1>1, <1>3, LinkBackFacts DEF HeaderAdded, MergedFirst
<1> HIDE DEF m3
<1>5. Shrunk(r, m3, a, size)
  BY <1>1, <1>2, <1>3, <1>4, ShrinkFacts DEF HeaderAdded, MergedFirst, BackLinked
<1>6. m1[NULL] = m[NULL] /\ m1[a] = m[a] /\ m2[new].next = t
  BY <1>0, <1>1, <1>3 DEF HeaderAdded, MergedFirst
<1>7. SplitFirst(r, m, a, size)
  <2>1. r \in [DOMAIN m \cup {new} -> Header]
    BY <1>1, <1>3, <1>4, <1>5 DEF HeaderAdded, MergedFirst, BackLinked, Shrunk
  <2>2. /\ r[new].previous = a /\ r[new].next = t
        /\ r[new].size = m[a].size - size + m[NULL].size /\ r[new].free = TRUE
    <3>1. r[new] = m3[new] /\ m3[new] = m2[new]
      BY <1>0, <1>1, <1>3, <1>4, <1>5, <1>6
         DEF HeaderAdded, MergedFirst, BackLinked, Shrunk
    <3> QED
      BY <3>1, <1>1, <1>3, <1>6 DEF HeaderAdded, MergedFirst
  <2>3. /\ r[a].previous = m[a].previous /\ r[a].next = new
        /\ r[a].size = size /\ r[a].free = m[a].free
    <3>1. m3[a] = m[a]
      BY <1>0, <1>1, <1>3, <1>4, <1>6 DEF HeaderAdded, MergedFirst, BackLinked
    <3> QED
      BY <3>1, <1>5 DEF Shrunk
  <2>4. r[t].next = NULL /\ r[t].free = FALSE
    <3>1. r[t] = m3[t] /\ m3[t].next = m2[t].next /\ m3[t].free = m2[t].free
      BY <1>0, <1>1, <1>3, <1>4, <1>5, <1>6
         DEF HeaderAdded, MergedFirst, BackLinked, Shrunk
    <3> QED
      BY <3>1, <1>3, <1>6, ZeroedFacts DEF MergedFirst
  <2>5. /\ r[NULL].previous = m[NULL].previous /\ r[NULL].next = PTD
        /\ r[NULL].size = m[NULL].size /\ r[NULL].free = m[NULL].free
    <3>1. r[NULL] = m2[NULL]
      BY <1>0, <1>1, <1>3, <1>4, <1>5, <1>6
         DEF HeaderAdded, MergedFirst, BackLinked, Shrunk
    <3> QED
      BY <3>1, <1>3, <1>6 DEF MergedFirst
  <2>6. ASSUME NEW x \in DOMAIN m \ {a, t, NULL}
        PROVE  r[x] = m[x]
    BY <1>0, <1>1, <1>3, <1>4, <1>5, <1>6
       DEF HeaderAdded, MergedFirst, BackLinked, Shrunk
  <2> QED
    BY <2>1, <2>2, <2>3, <2>4, <2>5, <2>6 DEF SplitFirst
<1> QED
  BY <1>7 DEF r

-----------------------------------------------------------------------------
(* What the type and the tiling say of one block and of two.               *)
LEMMA BlockFacts ==
  ASSUME TypeOK, ListTiles
  PROVE  /\ Blocks \subseteq DOMAIN mem
         /\ \A b \in Blocks : /\ b \in Nat /\ Start <= b
                              /\ mem[b].size \in Nat /\ HDR <= mem[b].size
                              /\ BlockEnd(b) = b + mem[b].size /\ BlockEnd(b) \in Nat
         /\ \A b, c \in Blocks : b < c => BlockEnd(b) <= c
         /\ TileEnd \in Nat
<1>1. TileEnd \in Nat
  BY Constants DEF TileEnd
<1>2. \A b \in Blocks : b \in Nat /\ mem[b].size \in Nat
  BY DEF TypeOK, Header, Blocks
<1> QED
  BY <1>1, <1>2 DEF ListTiles, BlockEnd, Blocks

(* Before the first split the heap is one block.                           *)
LEMMA FreshAlone ==
  ASSUME TypeOK, ListTiles, Fresh
  PROVE  Blocks = {Start}
<1>1. BlockEnd(Start) = TileEnd
  BY Constants DEF ListTiles, Fresh, BlockEnd, TypeOK, Header
<1>2. ASSUME NEW b \in Blocks, b # Start
      PROVE  FALSE
  <2>1. b \in Nat /\ mem[b].size \in Nat /\ Start < b
    BY <1>2, BlockFacts, Constants DEF ListTiles
  <2>2. BlockEnd(Start) <= b /\ BlockEnd(b) <= TileEnd /\ HDR <= mem[b].size
    BY <2>1 DEF ListTiles
  <2> QED
    BY <1>1, <2>1, <2>2, Constants DEF BlockEnd, TileEnd
<1> QED
  BY <1>2 DEF ListTiles

(* A split puts its header where there is none.                            *)
LEMMA NewIsNew ==
  ASSUME TypeOK, ListTiles, NEW a \in Blocks, NEW size \in Nat,
         0 < size, size < mem[a].size
  PROVE  /\ a \in Nat /\ Start <= a /\ mem[a].size \in Nat
         /\ a + size \notin DOMAIN mem
         /\ a + size \notin {NULL, PT, PTA, PTD}
<1>1. a \in Nat /\ Start <= a /\ mem[a].size \in Nat
  BY BlockFacts
<1>2. a + size \notin Blocks
  BY <1>1, BlockFacts
<1>3. a + size \notin {NULL, PT, PTA, PTD}
  BY <1>1, Constants
<1> QED
  BY <1>1, <1>2, <1>3 DEF Blocks, PageTableHeaders

(* The header at a taken, all else as it is.                               *)
TakenFacts(m, a) ==
  /\ m \in [DOMAIN mem -> Header]
  /\ \A x \in DOMAIN mem : /\ m[x].previous = mem[x].previous
                            /\ m[x].next = mem[x].next
                            /\ m[x].size = mem[x].size
  /\ m[a].free = FALSE
  /\ \A x \in DOMAIN mem \ {a} : m[x] = mem[x]

(* The list after a block is split from its taken follower.                *)
LEMMA SplitBetweenTiles ==
  ASSUME TypeOK, ListTiles, ~Fresh,
         NEW a \in Blocks, NEW size \in Nat, HDR <= size, size + HDR <= mem[a].size,
         ~mem[mem[a].next].free,
         NEW m, TakenFacts(m, a), SplitBetween(mem', m, a, size)
  PROVE  ListTiles' /\ ~Fresh' /\ Blocks' = Blocks \cup {a + size}
<1> DEFINE new == a + size
           s == mem[a].next
<1>0. IF BlockEnd(a) = TileEnd
        THEN s \in {PT, PTA}
        ELSE s \in Blocks /\ s = BlockEnd(a) /\ mem[s].previous = a
  BY DEF ListTiles, EndLinks
<1>1. /\ a \in Nat /\ Start <= a /\ mem[a].size \in Nat
      /\ new \notin DOMAIN mem /\ new \notin {NULL, PT, PTA, PTD}
  BY BlockFacts, NewIsNew, Constants
<1>2. DOMAIN mem' = DOMAIN mem \cup {new}
  BY DEF SplitBetween, TakenFacts
<1>3. Blocks' = Blocks \cup {new}
  BY <1>1, <1>2 DEF Blocks, PageTableHeaders
<1>4. /\ mem'[new].previous = a /\ mem'[new].next = s
      /\ mem'[new].size = mem[a].size - size
      /\ mem'[a].previous = mem[a].previous /\ mem'[a].next = new
      /\ mem'[a].size = size
      /\ mem'[s].previous = new /\ mem'[s].next = mem[s].next
      /\ mem'[s].size = mem[s].size
      /\ \A x \in DOMAIN mem \ {a, s} : mem'[x] = mem[x]
  <2>1. s \in DOMAIN mem /\ a \in DOMAIN mem
    BY <1>0 DEF Blocks, TypeOK, PageTableHeaders
  <2> QED
    BY <2>1 DEF SplitBetween, TakenFacts
<1>7. s # a /\ s # Start
  BY <1>1, <1>0, Constants DEF BlockEnd
<1>8. ~Fresh'
  <2>1. mem'[Start].next = IF a = Start THEN new ELSE mem[Start].next
    BY <1>4, <1>7 DEF ListTiles, Blocks
  <2> QED
    BY <2>1, <1>1 DEF Fresh
<1>9. TileEnd' = TileEnd /\ EndLinks' = EndLinks
  BY <1>8 DEF TileEnd, EndLinks
<1>10. /\ BlockEnd(new)' = BlockEnd(a)
       /\ BlockEnd(a)' = new
       /\ \A b \in Blocks \ {a} : BlockEnd(b)' = BlockEnd(b) /\ mem'[b].next = mem[b].next
  BY <1>1, <1>4 DEF BlockEnd, Blocks
<1>11. Start \in Blocks' /\ mem'[Start].previous = NULL
  BY <1>3, <1>4, <1>7 DEF ListTiles, Blocks
<1>12. ASSUME NEW b \in Blocks'
       PROVE  /\ Start <= b /\ HDR <= mem'[b].size /\ BlockEnd(b)' <= TileEnd
              /\ IF BlockEnd(b)' = TileEnd
                   THEN mem'[b].next \in EndLinks
                   ELSE /\ BlockEnd(b)' \in Blocks'
                        /\ mem'[b].next = BlockEnd(b)'
                        /\ mem'[BlockEnd(b)'].previous = b
  <2>1. CASE b = new
    <3>1. Start <= b /\ HDR <= mem'[b].size
      BY <2>1, <1>1, <1>4, Constants
    <3> QED
      BY <2>1, <3>1, <1>3, <1>4, <1>0, <1>10 DEF ListTiles
  <2>2. CASE b = a
    <3>1. new < BlockEnd(a) /\ BlockEnd(a) <= TileEnd
      BY <1>1, Constants DEF ListTiles, BlockEnd
    <3>2. TileEnd \in Int /\ BlockEnd(a) \in Int /\ new \in Int
      BY <1>1, Constants DEF TileEnd, BlockEnd
    <3> QED
      BY <2>2, <3>1, <3>2, <1>1, <1>3, <1>4, <1>10
  <2>3. CASE b \in Blocks \ {a}
    <3>1. mem'[b].size = mem[b].size
      BY <2>3, <1>4 DEF Blocks
    <3>2. CASE BlockEnd(b) = TileEnd
      BY <2>3, <3>1, <3>2, <1>10 DEF ListTiles
    <3>3. CASE BlockEnd(b) # TileEnd
      <4>1. /\ BlockEnd(b) \in Blocks /\ mem[b].next = BlockEnd(b)
            /\ mem[BlockEnd(b)].previous = b
        BY <2>3, <3>3 DEF ListTiles
      <4>2. BlockEnd(b) # s
        BY <2>3, <4>1, <1>0 DEF Blocks, PageTableHeaders
      <4>3. mem'[BlockEnd(b)].previous = b
        BY <4>1, <4>2, <1>4 DEF Blocks
      <4> QED
        BY <2>3, <3>1, <3>3, <4>1, <4>3, <1>3, <1>10 DEF ListTiles
    <3> QED
      BY <3>2, <3>3
  <2> QED
    BY <2>1, <2>2, <2>3, <1>3
<1>13. ASSUME NEW b \in Blocks', b # Start
       PROVE  mem'[b].previous \in Blocks' /\ BlockEnd(mem[b].previous)' = b
  <2>1. CASE b = new
    BY <2>1, <1>1, <1>3, <1>4, <1>10
  <2>2. CASE b \in Blocks
    <3>1. mem[b].previous \in Blocks /\ BlockEnd(mem[b].previous) = b
      BY <2>2, <1>13 DEF ListTiles
    <3>2. CASE mem[b].previous = a
      <4>1. b = s
        <5>1. BlockEnd(a) = b /\ b < TileEnd
          BY <2>2, <3>1, <3>2, BlockFacts, Constants DEF ListTiles
        <5> QED
          BY <5>1, <1>0, BlockFacts
      <4>2. mem'[b].previous = new
        BY <4>1, <1>4
      <4>3. BlockEnd(new)' = b
        BY <3>1, <3>2, <1>10
      <4> QED
        BY <4>2, <4>3, <1>3
    <3>3. CASE mem[b].previous # a
      <4>1. b # s
        BY <2>2, <3>3, <1>0, <1>7 DEF Blocks, PageTableHeaders
      <4>2. mem'[b].previous = mem[b].previous
        BY <2>2, <4>1, <1>4 DEF Blocks
      <4>3. mem'[mem'[b].previous].size = mem[mem[b].previous].size
        BY <3>1, <3>3, <4>2, <1>4 DEF Blocks
      <4> QED
        BY <3>1, <4>2, <4>3, <1>3 DEF BlockEnd
    <3> QED
      BY <3>2, <3>3
  <2> QED
    BY <2>1, <2>2, <1>3
<1>14. ASSUME NEW b \in Blocks', NEW c \in Blocks', b < c
       PROVE  BlockEnd(b)' <= c
  <2>1. CASE b = new
    <3>1. c \in Blocks /\ a < c
      BY <2>1, <1>1, <1>3, BlockFacts, <1>14
    <3> QED
      BY <2>1, <3>1, <1>10 DEF ListTiles
  <2>2. CASE b = a
    <3>1. new <= BlockEnd(a)
      BY <1>1, BlockFacts, Constants
    <3>2. CASE c = new
      BY <2>2, <3>2, <1>1, <1>10
    <3>3. CASE c \in Blocks
      <4>1. BlockEnd(a) <= c
        BY <2>2, <3>3, <1>14, BlockFacts
      <4>2. new <= c
        BY <3>1, <3>3, <4>1, <1>1, BlockFacts
      <4> QED
        BY <2>2, <4>2, <1>10
    <3> QED
      BY <3>2, <3>3, <1>3
  <2>3. CASE b \in Blocks \ {a} /\ c = new
    <3>1. b < a
      BY <2>3, <1>1, BlockFacts, <1>14, Constants
    <3> QED
      BY <2>3, <3>1, <1>1, BlockFacts, <1>10
  <2>4. CASE b \in Blocks \ {a} /\ c \in Blocks
    BY <2>4, <1>10, <1>14 DEF ListTiles
  <2> QED
    BY <2>1, <2>2, <2>3, <2>4, <1>3
<1> QED
  BY <1>3, <1>8, <1>9, <1>11, <1>12, <1>13, <1>14 DEF ListTiles

(* The list after the first split.                                         *)
LEMMA SplitFirstTiles ==
  ASSUME TypeOK, ListTiles, Fresh, SystemHeaders,
         NEW size \in Nat, HDR <= size, size + HDR <= mem[Start].size,
         NEW m, TakenFacts(m, Start), SplitFirst(mem', m, Start, size)
  PROVE  ListTiles' /\ ~Fresh' /\ Blocks' = {Start, Start + size}
<1> DEFINE new == Start + size
           t == mem[NULL].next
<1>1. Blocks = {Start} /\ BlockEnd(Start) = HeapEnd
  <2>1. BlockEnd(Start) = TileEnd
    BY Constants DEF ListTiles, Fresh, BlockEnd, TypeOK, Header
  <2> QED
    BY <2>1, FreshAlone DEF TileEnd
<1>2. /\ Start \in Nat /\ mem[Start].size \in Nat /\ Start + mem[Start].size = HeapEnd
      /\ new \notin DOMAIN mem /\ new \notin {NULL, PT, PTA, PTD}
  BY <1>1, BlockFacts, NewIsNew, Constants
<1>3. t \in {PT, PTA} /\ mem[NULL].size = NullSize
  BY DEF SystemHeaders
<1>4. {NULL, Start, PT, PTA, PTD} \subseteq DOMAIN mem
  BY DEF TypeOK, PageTableHeaders
<1>5. m[NULL].next = t /\ m[NULL].size = NullSize /\ m[Start].size = mem[Start].size
  BY <1>3, <1>4 DEF TakenFacts
<1>6. Blocks' = {Start, new}
  <2>1. DOMAIN mem' = DOMAIN mem \cup {new}
    BY DEF SplitFirst, TakenFacts
  <2> QED
    BY <2>1, <1>1, <1>2 DEF Blocks, PageTableHeaders
<1>7. /\ mem'[new].previous = Start /\ mem'[new].next = t
      /\ mem'[new].size = mem[Start].size - size + NullSize
      /\ mem'[Start].next = new /\ mem'[Start].size = size
  BY <1>5 DEF SplitFirst
<1>8. mem'[Start].previous = NULL
  BY <1>4 DEF SplitFirst, TakenFacts, ListTiles
<1>9. ~Fresh'
  BY <1>2, <1>7 DEF Fresh
<1>10. TileEnd' = HeapEnd + NullSize /\ EndLinks' = {PT, PTA}
  BY <1>9 DEF TileEnd, EndLinks
<1>11. BlockEnd(new)' = HeapEnd + NullSize /\ BlockEnd(Start)' = new
  BY <1>2, <1>7, Constants DEF BlockEnd
<1>12. new < HeapEnd + NullSize /\ Start < new
  BY <1>2, Constants
<1>13. ASSUME NEW b \in {Start, new}
       PROVE  /\ Start <= b /\ HDR <= mem'[b].size /\ BlockEnd(b)' <= TileEnd'
              /\ IF BlockEnd(b)' = TileEnd'
                   THEN mem'[b].next \in EndLinks'
                   ELSE /\ BlockEnd(b)' \in Blocks'
                        /\ mem'[b].next = BlockEnd(b)'
                        /\ mem'[BlockEnd(b)'].previous = b
              /\ b # Start => /\ mem'[b].previous \in Blocks'
                              /\ BlockEnd(mem[b].previous)' = b
  <2>1. CASE b = Start
    BY <2>1, <1>2, <1>6, <1>7, <1>10, <1>11, <1>12, Constants
  <2>2. CASE b = new
    <3>1. BlockEnd(mem[b].previous)' = new
      BY <2>2, <1>7, <1>11
    <3> QED
      BY <2>2, <3>1, <1>2, <1>3, <1>6, <1>7, <1>10, <1>11, <1>12, Constants
  <2> QED
    BY <2>1, <2>2
<1>14. \A b, c \in {Start, new} : b < c => BlockEnd(b)' <= c
  BY <1>2, <1>11, <1>12
<1> QED
  BY <1>6, <1>8, <1>9, <1>13, <1>14 DEF ListTiles

-----------------------------------------------------------------------------
(* What a step leaves that takes the block at a and splits it at size.     *)
SplitDone(a, size) ==
  /\ mem' \in [DOMAIN mem' -> Header]
  /\ DOMAIN mem' = DOMAIN mem \cup {a + size}
  /\ a + size \in Nat /\ a + size \notin DOMAIN mem
  /\ ListTiles' /\ SystemHeaders' /\ NoFreePairs'
  /\ mem'[NULL].previous = RootEntry
  /\ Blocks' = Blocks \cup {a + size}
  /\ mem'[a + size].free = TRUE
  /\ mem'[a].free = FALSE /\ mem'[a].size = size
  /\ \A b \in Blocks \ {a} : mem'[b].free = mem[b].free /\ mem'[b].size = mem[b].size

LEMMA SplitBetweenStep ==
  ASSUME HeapInv, ~Fresh,
         NEW a \in Blocks, NEW size \in Nat, HDR <= size, size + HDR <= mem[a].size,
         ~mem[mem[a].next].free,
         NEW m, TakenFacts(m, a), mem' = InsertNewBlock(m, a, size)
  PROVE  SplitDone(a, size)
<1> DEFINE new == a + size
           s == mem[a].next
<1> USE DEF HeapInv
<1>1. /\ a \in DOMAIN mem /\ a \in Nat /\ Start <= a /\ mem[a].size \in Nat /\ new \in Nat
      /\ new \notin DOMAIN mem /\ new \notin {NULL, PT, PTA, PTD}
  BY BlockFacts, NewIsNew, Constants
<1>2. /\ s \in (Blocks \cup {PT, PTA}) \ {a, NULL} /\ s \in DOMAIN mem
      /\ a \notin {NULL, PT, PTA, PTD}
  BY <1>1, BlockFacts, Constants DEF ListTiles, EndLinks, TypeOK, PageTableHeaders
<1>3. SplitBetween(mem', m, a, size)
  <2>1. /\ m \in [DOMAIN m -> Header] /\ DOMAIN m = DOMAIN mem /\ m[a].next = s
        /\ ~m[s].free /\ size <= m[a].size
    BY <1>1, <1>2, Constants DEF TakenFacts
  <2> QED
    BY <2>1, <1>1, <1>2, InsertBetween
<1>4. ListTiles' /\ ~Fresh' /\ Blocks' = Blocks \cup {new}
  BY <1>3, SplitBetweenTiles
<1>5. /\ mem' \in [DOMAIN mem' -> Header] /\ DOMAIN mem' = DOMAIN mem \cup {new}
      /\ mem'[new].free = TRUE /\ mem'[new].next = s
      /\ mem'[a].free = FALSE /\ mem'[a].size = size
      /\ mem'[s].next = mem[s].next /\ mem'[s].size = mem[s].size
      /\ mem'[s].free = FALSE
      /\ \A x \in DOMAIN mem \ {a, s} : mem'[x] = mem[x]
  BY <1>1, <1>2, <1>3 DEF SplitBetween, TakenFacts, TypeOK, Header
<1>6. mem'[NULL] = mem[NULL]
  BY <1>2, <1>5 DEF TypeOK
<1>7. SystemHeaders'
  <2>1. \A x \in PageTableHeaders : ~mem'[x].free /\ mem'[x].next = mem[x].next
    <3>1. PageTableHeaders \subseteq DOMAIN mem \ {a}
      BY <1>2 DEF TypeOK, PageTableHeaders
    <3> QED
      BY <3>1, <1>5 DEF SystemHeaders
  <2> QED
    BY <2>1, <1>4, <1>6 DEF SystemHeaders
<1>8. \A b \in Blocks \ {a} : /\ mem'[b].free = mem[b].free /\ mem'[b].size = mem[b].size
                              /\ mem'[b].next = mem[b].next
  BY <1>1, <1>2, <1>5, BlockFacts DEF TypeOK, Header
<1>9. NoFreePairs'
  <2>1. SUFFICES ASSUME NEW b \in Blocks', mem'[b].free, mem'[b].next \in Blocks',
                        Valid(mem'[b].next)
                 PROVE  ~mem'[mem'[b].next].free
    BY DEF NoFreePairs, Valid, HeapEnd, Start
  <2>2. CASE b = new
    BY <2>2, <1>5
  <2>3. CASE b \in Blocks \ {a}
    <3>1. mem[b].free /\ mem'[b].next = mem[b].next /\ mem[b].next \in Blocks
      BY <2>1, <2>3, <1>1, <1>4, <1>8, BlockFacts
         DEF ListTiles, EndLinks, Blocks, PageTableHeaders
    <3>2. ~mem[mem[b].next].free
      BY <3>1, <2>1, <2>3 DEF NoFreePairs
    <3> QED
      BY <3>1, <3>2, <1>5, <1>8
  <2> QED
    BY <2>1, <2>2, <2>3, <1>4, <1>5
<1> QED
  BY <1>1, <1>4, <1>5, <1>6, <1>7, <1>8, <1>9 DEF SplitDone, PageTableKept

LEMMA SplitFirstStep ==
  ASSUME HeapInv, Fresh,
         NEW size \in Nat, HDR <= size, size + HDR <= mem[Start].size,
         NEW m, TakenFacts(m, Start), mem' = InsertNewBlock(m, Start, size)
  PROVE  SplitDone(Start, size)
<1> DEFINE new == Start + size
           t == mem[NULL].next
<1> USE DEF HeapInv
<1>1. /\ Blocks = {Start} /\ Start \in Nat /\ mem[Start].size \in Nat /\ new \in Nat
      /\ new \notin DOMAIN mem /\ new \notin {NULL, PT, PTA, PTD}
      /\ Start \notin {NULL, PT, PTA, PTD}
  BY FreshAlone, BlockFacts, NewIsNew, Constants
<1>2. /\ {NULL, Start, PT, PTA, PTD} \subseteq DOMAIN mem
      /\ t \in {PT, PTA} /\ t # NULL /\ PTD # NULL
      /\ mem[Start].next = NULL /\ mem[NULL].free
  BY Constants DEF TypeOK, PageTableHeaders, SystemHeaders, Fresh
<1>3. SplitFirst(mem', m, Start, size)
  <2>1. /\ m \in [DOMAIN m -> Header] /\ DOMAIN m = DOMAIN mem
        /\ m[NULL] = mem[NULL] /\ m[Start].next = NULL /\ size <= m[Start].size
    BY <1>1, <1>2, Constants DEF TakenFacts
  <2> QED
    BY <2>1, <1>1, <1>2, InsertFirst
<1>4. ListTiles' /\ ~Fresh' /\ Blocks' = {Start, new}
  BY <1>3, SplitFirstTiles
<1>5. /\ mem' \in [DOMAIN mem' -> Header] /\ DOMAIN mem' = DOMAIN mem \cup {new}
      /\ mem'[new].free = TRUE /\ mem'[new].next = t
      /\ mem'[Start].free = FALSE /\ mem'[Start].size = size
      /\ mem'[t].next = NULL /\ mem'[t].free = FALSE
      /\ mem'[NULL].previous = mem[NULL].previous /\ mem'[NULL].next = PTD
      /\ mem'[NULL].size = mem[NULL].size /\ mem'[NULL].free = mem[NULL].free
      /\ \A x \in DOMAIN mem \ {Start, t, NULL} : mem'[x] = mem[x]
  <2>1. /\ DOMAIN m = DOMAIN mem /\ m[Start].free = FALSE
        /\ \A x \in DOMAIN mem \ {Start} : m[x] = mem[x]
    BY DEF TakenFacts
  <2>2. m[NULL] = mem[NULL]
    BY <2>1, <1>1, <1>2
  <2>3. mem' \in [DOMAIN m \cup {new} -> Header]
    BY <1>3 DEF SplitFirst
  <2> HIDE DEF new, t
  <2> QED
    BY <2>1, <2>2, <2>3, <1>3 DEF SplitFirst, new, t
<1>6. SystemHeaders'
  <2>1. \A x \in PageTableHeaders : ~mem'[x].free /\ mem'[x].next \in {NULL, Huge}
    BY <1>1, <1>2, <1>5 DEF SystemHeaders, PageTableHeaders, TypeOK
  <2> QED
    BY <2>1, <1>4, <1>5 DEF SystemHeaders
<1>7. NoFreePairs'
  <2>1. mem'[new].next \notin Blocks'
    BY <1>1, <1>2, <1>4, <1>5
  <2> QED
    BY <2>1, <1>4, <1>5 DEF NoFreePairs
<1> QED
  BY <1>1, <1>4, <1>5, <1>6, <1>7 DEF SplitDone, PageTableKept

-----------------------------------------------------------------------------
(* Steps that leave the list alone, or change one block's free flag.       *)
SameList ==
  /\ mem' \in [DOMAIN mem -> Header]
  /\ ListTiles' /\ SystemHeaders' /\ mem'[NULL].previous = RootEntry
  /\ Blocks' = Blocks

(* ... the free flags and sizes of all blocks included *)
SameBlocks ==
  /\ SameList /\ NoFreePairs'
  /\ \A b \in Blocks : mem'[b].free = mem[b].free /\ mem'[b].size = mem[b].size

LEMMA MemUnchanged ==
  ASSUME HeapInv, mem' = mem
  PROVE  SameBlocks
BY DEF SameBlocks, HeapInv, SameList, TypeOK, ListTiles, SystemHeaders, NoFreePairs, PageTableKept,
       Blocks, Fresh, TileEnd, EndLinks, BlockEnd

(* get_free_block() reads page 1 for the first time *)
LEMMA EntryAccessed ==
  ASSUME HeapInv, mem[NULL].next = PT, mem' = [mem EXCEPT ![NULL].next = PTA]
  PROVE  SameBlocks
<1> USE DEF HeapInv
<1>1. PTA \in Nat /\ NULL \in DOMAIN mem /\ NULL \notin Blocks /\ NULL \notin PageTableHeaders
  BY Constants DEF TypeOK, Blocks, PageTableHeaders
<1>2. /\ mem' \in [DOMAIN mem -> Header]
      /\ mem'[NULL].previous = mem[NULL].previous /\ mem'[NULL].next = PTA
      /\ mem'[NULL].size = mem[NULL].size /\ mem'[NULL].free = mem[NULL].free
      /\ \A x \in DOMAIN mem \ {NULL} : mem'[x] = mem[x]
  BY <1>1 DEF TypeOK, Header
<1>3. /\ Blocks' = Blocks
      /\ \A b \in Blocks : /\ mem'[b].previous = mem[b].previous
                           /\ mem'[b].next = mem[b].next /\ mem'[b].size = mem[b].size
                           /\ mem'[b].free = mem[b].free
  BY <1>1, <1>2 DEF Blocks
<1>4. Start \in Blocks /\ Fresh' = Fresh
  BY <1>3 DEF ListTiles, Fresh
<1>5. ListTiles'
  BY <1>3, <1>4 DEF ListTiles, BlockEnd, TileEnd, EndLinks
<1>6. SystemHeaders'
  <2>1. Fresh
    BY Constants DEF SystemHeaders
  <2>2. \A x \in PageTableHeaders : ~mem'[x].free /\ mem'[x].next \in {NULL, Huge}
    <3>1. \A x \in PageTableHeaders : mem'[x] = mem[x]
      BY <1>1, <1>2 DEF TypeOK
    <3> QED
      BY <3>1 DEF SystemHeaders
  <2>3. mem'[NULL].size = NullSize /\ mem'[NULL].free
    BY <1>2 DEF SystemHeaders
  <2>4. Fresh'
    BY <2>1, <1>4
  <2>5. mem'[NULL].next \in {PT, PTA}
    BY <1>2
  <2> QED
    BY <2>2, <2>3, <2>4, <2>5 DEF SystemHeaders
<1>7. NoFreePairs'
  <2>1. SUFFICES ASSUME NEW b \in Blocks, mem[b].free, mem[b].next \in Blocks,
                        Valid(mem[b].next)
                 PROVE  ~mem'[mem[b].next].free
    BY <1>3 DEF NoFreePairs, Valid, HeapEnd, Start
  <2> QED
    BY <2>1, <1>3 DEF NoFreePairs
<1> QED
  BY <1>2, <1>3, <1>5, <1>6, <1>7 DEF SameBlocks, SameList, PageTableKept

LEMMA FlagSet ==
  ASSUME HeapInv, NEW a \in Blocks, NEW f \in BOOLEAN, mem' = [mem EXCEPT ![a].free = f]
  PROVE  /\ SameList
         /\ mem'[a].free = f
         /\ \A b \in Blocks : mem'[b].size = mem[b].size /\ mem'[b].next = mem[b].next
         /\ \A x \in DOMAIN mem \ {a} : mem'[x] = mem[x]
<1> USE DEF HeapInv
<1>1. a \in DOMAIN mem /\ a # NULL /\ a \notin PageTableHeaders
  BY DEF Blocks
<1>2. /\ mem' \in [DOMAIN mem -> Header]
      /\ mem'[a].previous = mem[a].previous /\ mem'[a].next = mem[a].next
      /\ mem'[a].size = mem[a].size /\ mem'[a].free = f
      /\ \A x \in DOMAIN mem \ {a} : mem'[x] = mem[x]
  BY <1>1 DEF TypeOK, Header
<1>3. /\ Blocks' = Blocks
      /\ \A b \in Blocks : /\ mem'[b].previous = mem[b].previous
                           /\ mem'[b].next = mem[b].next /\ mem'[b].size = mem[b].size
  BY <1>2 DEF Blocks
<1>4. Start \in Blocks /\ Fresh' = Fresh
  BY <1>3 DEF ListTiles, Fresh
<1>5. ListTiles'
  BY <1>3, <1>4 DEF ListTiles, BlockEnd, TileEnd, EndLinks
<1>6. SystemHeaders' /\ mem'[NULL].previous = RootEntry
  <2>1. mem'[NULL] = mem[NULL] /\ \A x \in PageTableHeaders : mem'[x] = mem[x]
    BY <1>1, <1>2 DEF TypeOK
  <2> QED
    BY <2>1, <1>4 DEF SystemHeaders, PageTableKept
<1> QED
  BY <1>2, <1>3, <1>5, <1>6 DEF SameList

-----------------------------------------------------------------------------
LEMMA AlignedSizeFacts ==
  ASSUME NEW n \in Nat
  PROVE  AlignedSize(n) \in Nat /\ n + HDR < AlignedSize(n)
<1>1. n % HDR \in 0..(HDR - 1)
  BY Constants
<1> QED
  BY <1>1, Constants DEF AlignedSize

LEMMA InitHeapInv == Init => HeapInv
<1> SUFFICES ASSUME Init PROVE HeapInv
  OBVIOUS
<1>1. /\ DOMAIN mem = {NULL, Start, PT, PTA, PTD}
      /\ mem[NULL] = [previous |-> RootEntry, next |-> PT, size |-> NullSize, free |-> TRUE]
      /\ mem[Start] = [previous |-> NULL, next |-> NULL, size |-> HeapSize - HDR, free |-> TRUE]
      /\ \A s \in PageTableHeaders : mem[s] = PageTableBytes
      /\ mem = [x \in DOMAIN mem |-> mem[x]]
  BY Constants DEF Init, PageTableHeaders
<1>2. PageTableBytes \in Header /\ ~PageTableBytes.free /\ PageTableBytes.next = Huge
  BY Constants DEF PageTableBytes, Header
<1>3. mem \in [DOMAIN mem -> Header]
  <2>1. mem[NULL] \in Header /\ mem[Start] \in Header
    BY <1>1, Constants DEF Header
  <2>2. \A x \in DOMAIN mem : mem[x] \in Header
    BY <2>1, <1>1, <1>2 DEF PageTableHeaders
  <2> QED
    BY <2>2, <1>1
<1>4. TypeOK
  <2>1. /\ {NULL, Start} \cup PageTableHeaders \subseteq DOMAIN mem
        /\ DOMAIN mem \subseteq Nat
    BY <1>1, Constants DEF PageTableHeaders
  <2>2. owned = [q \in {} |-> 0] /\ given = {} /\ pc = "idle" /\ call = NoCall
    BY DEF Init
  <2>3. call \in [op : {"none", "malloc", "free", "realloc", "realloc_again"},
                  hdr : DOMAIN mem, need : Nat, at : DOMAIN mem, req : Nat]
    BY <2>1, <2>2 DEF NoCall
  <2> QED
    BY <2>1, <2>2, <2>3, <1>3 DEF TypeOK
<1>5. Blocks = {Start} /\ Fresh
  BY <1>1, Constants DEF Blocks, PageTableHeaders, Fresh
<1>6. ListTiles
  BY <1>1, <1>5, Constants DEF ListTiles, TileEnd, EndLinks, BlockEnd
<1>7. SystemHeaders
  BY <1>1, <1>2, <1>5 DEF SystemHeaders
<1>8. FlagsMatchOwners /\ PageTableKept
  <2>1. DOMAIN owned = {} /\ pc = "idle"
    BY DEF Init
  <2>2. mem[Start].free = TRUE
    BY <1>1
  <2>3. mem[NULL].previous = RootEntry
    BY <1>1
  <2> QED
    BY <2>1, <2>2, <2>3, <1>5 DEF FlagsMatchOwners, PageTableKept
<1>9. NoFreePairs
  BY <1>1, <1>5, Constants DEF NoFreePairs
<1>10. CallInProgress /\ given \subseteq {b + HDR : b \in Blocks}
  BY DEF CallInProgress, Init
<1> QED
  BY <1>4, <1>6, <1>7, <1>8, <1>9, <1>10 DEF HeapInv

LEMMA CallMallocStep ==
  ASSUME HeapInv, NEW n \in MallocSizes, NoTightFit(AlignedSize(n)), CallMalloc(n)
  PROVE  HeapInv'
<1>1. SameList /\ NoFreePairs'
  BY MemUnchanged DEF CallMalloc, SameBlocks
<1>2. n \in Nat /\ AlignedSize(n) \in Nat /\ n + HDR <= AlignedSize(n)
  BY AlignedSizeFacts, Constants
<1>3. TypeOK'
  BY <1>2 DEF CallMalloc, HeapInv, TypeOK, PageTableHeaders
<1>4. CallInProgress'
  BY <1>1, <1>2 DEF CallMalloc, CallInProgress, NoTightFit, SameList
<1> QED
  BY <1>1, <1>3, <1>4
     DEF CallMalloc, HeapInv, SameList, FlagsMatchOwners, PageTableKept

(* free() of a pointer the client gave back before finds the flag set *)
LEMMA DoubleFreeStep ==
  ASSUME HeapInv, NEW p \in given \ DOMAIN owned, CallFree(p)
  PROVE  HeapInv' /\ pc' = "panic"
<1>1. p - HDR \in Blocks /\ mem[p - HDR].free
  <2>1. PICK b \in Blocks : p = b + HDR
    BY DEF HeapInv
  <2>2. b \in Nat /\ p - HDR = b
    BY <2>1, BlockFacts, Constants DEF HeapInv
  <2> QED
    BY <2>1, <2>2 DEF HeapInv, FlagsMatchOwners
<1>2. pc' = "panic" /\ mem' = mem /\ call' = call /\ given' = given /\ owned' = owned
  BY <1>1 DEF CallFree, HeapInv, TypeOK
<1>3. SameList /\ NoFreePairs'
  BY <1>2, MemUnchanged DEF SameBlocks
<1> QED
  BY <1>2, <1>3
     DEF HeapInv, SameList, TypeOK, FlagsMatchOwners, PageTableKept, CallInProgress

LEMMA FreeStep ==
  ASSUME HeapInv, NEW p \in DOMAIN owned, NoFreeNeighbour(p), CallFree(p)
  PROVE  HeapInv'
<1> DEFINE a == p - HDR
           n == mem[a].next
           q == mem[a].previous
<1>1. a \in Blocks /\ mem[a].free = FALSE /\ a \in Nat /\ p = a + HDR
  <2>1. a \in Blocks
    BY DEF HeapInv, FlagsMatchOwners
  <2>2. a \in Nat /\ p = a + HDR
    BY <2>1, BlockFacts, Constants DEF HeapInv, TypeOK
  <2> QED
    BY <2>1, <2>2 DEF HeapInv, FlagsMatchOwners, TypeOK, Header, Blocks
<1>2. /\ mem' = [mem EXCEPT ![a].free = TRUE]
      /\ pc' = "fuse_next" /\ given' = given
      /\ call' = [NoCall EXCEPT !.op = "free", !.hdr = a]
      /\ owned' = [r \in DOMAIN owned \ {p} |-> owned[r]]
  BY <1>1 DEF CallFree
<1>3. /\ SameList /\ mem'[a].free = TRUE
      /\ \A b \in Blocks : mem'[b].size = mem[b].size /\ mem'[b].next = mem[b].next
      /\ \A x \in DOMAIN mem \ {a} : mem'[x] = mem[x]
  BY <1>1, <1>2, FlagSet
<1>4. /\ q \in Blocks \ {a} /\ n \in DOMAIN mem \ {a} /\ q < a
      /\ Valid(n) => ~mem[n].free
      /\ Valid(q) => ~mem[q].free
  <2>1. q # NULL /\ (Valid(n) => ~mem[n].free) /\ (Valid(q) => ~mem[q].free)
    BY DEF NoFreeNeighbour
  <2>2. q \in Blocks /\ BlockEnd(q) = a
    BY <2>1, <1>1 DEF HeapInv, ListTiles
  <2>3. q < a
    BY <2>2, <1>1, BlockFacts, Constants DEF HeapInv
  <2>4. n \in DOMAIN mem /\ n # a
    BY <1>1, BlockFacts, Constants
       DEF HeapInv, ListTiles, EndLinks, Blocks, TypeOK, PageTableHeaders
  <2>5. q \in Nat
    BY <2>2, BlockFacts DEF HeapInv
  <2> QED
    BY <1>1, <2>1, <2>2, <2>3, <2>4, <2>5
<1>5. mem'[a].previous = q /\ mem'[q] = mem[q] /\ mem'[n] = mem[n] /\ mem'[a].next = n
  BY <1>1, <1>2, <1>3, <1>4 DEF HeapInv, TypeOK, Header, Blocks
<1>6. TypeOK'
  <2>1. mem' \in [DOMAIN mem' -> Header] /\ DOMAIN mem' = DOMAIN mem
    BY <1>3 DEF SameList
  <2>2. a \in DOMAIN mem /\ NULL \in DOMAIN mem
    BY <1>1 DEF Blocks, HeapInv, TypeOK
  <2>3. call' \in [op : {"none", "malloc", "free", "realloc", "realloc_again"},
                   hdr : DOMAIN mem', need : Nat, at : DOMAIN mem', req : Nat]
    BY <2>1, <2>2, <1>2 DEF NoCall
  <2>4. owned' \in [DOMAIN owned' -> Nat] /\ DOMAIN owned' \subseteq given'
    BY <1>2 DEF HeapInv, TypeOK
  <2> QED
    BY <2>1, <2>3, <2>4, <1>2 DEF HeapInv, TypeOK
<1>7. FlagsMatchOwners'
  <2>1. DOMAIN owned' = DOMAIN owned \ {p}
    BY <1>2
  <2>2. ASSUME NEW b \in Blocks
        PROVE  mem'[b].free <=> b + HDR \notin DOMAIN owned'
    <3>1. CASE b = a
      BY <3>1, <2>1, <1>1, <1>3
    <3>2. CASE b # a
      <4>1. b + HDR # p
        BY <3>2, <1>1, BlockFacts, Constants DEF HeapInv
      <4>2. mem'[b] = mem[b]
        BY <3>2, <1>3 DEF Blocks
      <4> QED
        BY <4>1, <4>2, <2>1 DEF HeapInv, FlagsMatchOwners
    <3> QED
      BY <3>1, <3>2
  <2>3. ASSUME NEW r \in DOMAIN owned'
        PROVE  r - HDR \in Blocks /\ HDR + owned'[r] <= mem'[r - HDR].size
    BY <1>2, <1>3 DEF HeapInv, FlagsMatchOwners
  <2> QED
    BY <2>2, <2>3, <1>3 DEF FlagsMatchOwners, SameList
<1>8. NoFreePairs'
  <2>1. SUFFICES ASSUME NEW b \in Blocks, mem'[b].free, mem[b].next \in Blocks,
                        Valid(mem[b].next)
                 PROVE  ~mem'[mem[b].next].free
    BY <1>3 DEF NoFreePairs, Valid, HeapEnd, Start, SameList
  <2>2. CASE b = a
    BY <2>1, <2>2, <1>4, <1>5
  <2>3. CASE b # a /\ mem[b].next = a
    <3>1. b = q
      BY <2>3, <1>1 DEF HeapInv, ListTiles, EndLinks, Blocks, PageTableHeaders
    <3>2. Valid(q)
      <4>1. q \in Nat /\ a \in Nat /\ q < a /\ Valid(a)
        BY <2>1, <2>3, <1>1, <1>4, BlockFacts DEF HeapInv
      <4> QED
        BY <4>1, Constants DEF Valid
    <3> QED
      BY <3>1, <3>2, <2>1, <1>4, <1>5
  <2>4. CASE b # a /\ mem[b].next # a
    <3>1. mem'[b] = mem[b] /\ mem'[mem[b].next] = mem[mem[b].next]
      BY <2>1, <2>4, <1>3 DEF Blocks
    <3> QED
      BY <3>1, <2>1 DEF HeapInv, NoFreePairs
  <2> QED
    BY <2>2, <2>3, <2>4
<1>9. CallInProgress'
  <2>1. call'.hdr = a /\ call'.op = "free" /\ pc' = "fuse_next"
    BY <1>2 DEF NoCall
  <2>2. (a + HDR) - HDR = a
    BY <1>1, Constants
  <2>3. NoFreeNeighbour(call.hdr + HDR)'
    BY <2>1, <2>2, <1>4, <1>5 DEF NoFreeNeighbour, Valid, HeapEnd, Start
  <2> QED
    BY <2>1, <2>3, <1>1, <1>3 DEF CallInProgress, SameList
<1> QED
  BY <1>2, <1>3, <1>6, <1>7, <1>8, <1>9 DEF HeapInv, SameList, PageTableKept

-----------------------------------------------------------------------------
(* What malloc() and a shrinking realloc() leave, split or not: the block  *)
(* at a is taken, has room for least bytes, and any new block is free.     *)
BlockTaken(a, least) ==
  /\ mem' \in [DOMAIN mem' -> Header]
  /\ DOMAIN mem \subseteq DOMAIN mem' /\ DOMAIN mem' \subseteq Nat
  /\ ListTiles' /\ SystemHeaders' /\ NoFreePairs'
  /\ mem'[NULL].previous = RootEntry
  /\ Blocks \subseteq Blocks' /\ a \in Blocks
  /\ \A b \in Blocks' \ Blocks : mem'[b].free = TRUE
  /\ mem'[a].free = FALSE /\ least <= mem'[a].size
  /\ \A b \in Blocks \ {a} : mem'[b].free = mem[b].free /\ mem'[b].size = mem[b].size

LEMMA SplitTakes ==
  ASSUME HeapInv, NEW a \in Blocks, NEW size \in Nat, SplitDone(a, size)
  PROVE  BlockTaken(a, size)
<1>1. DOMAIN mem \subseteq Nat
  BY DEF HeapInv, TypeOK
<1> QED
  BY <1>1 DEF SplitDone, BlockTaken

LEMMA HandedOver ==
  ASSUME HeapInv, NEW a, NEW least \in Nat, BlockTaken(a, least),
         NEW n \in Nat, HDR + n <= least, Hand(a + HDR, n),
         pc' = "idle", call' = call \/ call' = NoCall
  PROVE  HeapInv'
<1> USE DEF HeapInv
<1>1. /\ DOMAIN owned' = DOMAIN owned \cup {a + HDR} /\ owned'[a + HDR] = n
      /\ \A p \in DOMAIN owned \ {a + HDR} : owned'[p] = owned[p]
      /\ owned' \in [DOMAIN owned' -> Nat]
      /\ given' = given \cup {a + HDR}
  BY DEF Hand, TypeOK
<1>2. /\ a \in Blocks /\ a \in Blocks' /\ a \in Nat
      /\ Blocks' \subseteq Nat /\ Blocks' \subseteq DOMAIN mem'
      /\ (a + HDR) - HDR = a
  <2>1. a \in Blocks /\ a \in Blocks' /\ Blocks' \subseteq DOMAIN mem'
    BY DEF BlockTaken, Blocks
  <2>2. Blocks' \subseteq Nat
    BY <2>1 DEF BlockTaken
  <2> QED
    BY <2>1, <2>2, Constants
<1>3. TypeOK'
  <2>1. call' \in [op : {"none", "malloc", "free", "realloc", "realloc_again"},
                   hdr : DOMAIN mem', need : Nat, at : DOMAIN mem', req : Nat]
    BY DEF BlockTaken, TypeOK, NoCall
  <2>2. {NULL, Start} \cup PageTableHeaders \subseteq DOMAIN mem'
    BY DEF BlockTaken, TypeOK
  <2>3. given' \subseteq {x + HDR : x \in DOMAIN mem'}
    BY <1>1, <1>2 DEF BlockTaken, TypeOK
  <2>4. DOMAIN owned' \subseteq given'
    BY <1>1 DEF TypeOK
  <2> QED
    BY <2>1, <2>2, <2>3, <2>4, <1>1 DEF BlockTaken, TypeOK, HeapEnd, Start, PageTableHeaders
<1>4. \A b \in Blocks' : mem'[b].free <=> b + HDR \notin DOMAIN owned'
  <2>1. SUFFICES ASSUME NEW b \in Blocks'
                 PROVE  mem'[b].free <=> b + HDR \notin DOMAIN owned'
    OBVIOUS
  <2>2. b \in Nat /\ (b + HDR) - HDR = b /\ (b + HDR = a + HDR => b = a)
    BY <1>2, Constants
  <2>3. CASE b = a
    BY <2>3, <1>1 DEF BlockTaken
  <2>4. CASE b \in Blocks \ {a}
    <3>1. mem'[b].free = mem[b].free
      BY <2>4 DEF BlockTaken
    <3>2. mem[b].free <=> b + HDR \notin DOMAIN owned
      BY <2>4 DEF FlagsMatchOwners
    <3> QED
      BY <3>1, <3>2, <2>2, <2>4, <1>1
  <2>5. CASE b \notin Blocks
    <3>1. b + HDR \notin DOMAIN owned /\ b # a
      BY <2>5, <2>2, <1>2 DEF FlagsMatchOwners
    <3> QED
      BY <3>1, <2>2, <2>5, <1>1 DEF BlockTaken
  <2> QED
    BY <2>3, <2>4, <2>5
<1>5. \A p \in DOMAIN owned' : p - HDR \in Blocks' /\ HDR + owned'[p] <= mem'[p - HDR].size
  <2>1. SUFFICES ASSUME NEW p \in DOMAIN owned'
                 PROVE  p - HDR \in Blocks' /\ HDR + owned'[p] <= mem'[p - HDR].size
    OBVIOUS
  <2>2. CASE p = a + HDR
    <3>1. mem'[a].size \in Nat
      BY <1>2 DEF BlockTaken, Header
    <3> QED
      BY <2>2, <3>1, <1>1, <1>2, Constants DEF BlockTaken
  <2>3. CASE p # a + HDR
    <3>1. p \in DOMAIN owned /\ owned'[p] = owned[p]
      BY <2>3, <1>1
    <3>2. p - HDR \in Blocks /\ HDR + owned[p] <= mem[p - HDR].size
      BY <3>1 DEF FlagsMatchOwners
    <3>3. p \in given
      BY <3>1 DEF TypeOK
    <3>4. p \in Nat
      BY <3>3, Constants DEF TypeOK
    <3>5. p - HDR # a
      BY <2>3, <3>4, <1>2, Constants
    <3> QED
      BY <3>1, <3>2, <3>5 DEF BlockTaken
  <2> QED
    BY <2>2, <2>3
<1>6. given' \subseteq {b + HDR : b \in Blocks'}
  BY <1>1, <1>2 DEF BlockTaken
<1> QED
  BY <1>3, <1>4, <1>5, <1>6
     DEF BlockTaken, FlagsMatchOwners, PageTableKept, CallInProgress

LEMMA ReallocStep ==
  ASSUME HeapInv, NEW p \in DOMAIN owned, NEW n \in ReallocSizes,
         ShrinkIsSafe(p, n), CallReallocInPlace(p, n)
  PROVE  HeapInv'
<1> DEFINE a == p - HDR
           size == n + HDR
<1>1. /\ a \in Blocks /\ a \in Nat /\ p = a + HDR /\ a \in DOMAIN mem
      /\ mem[a].free = FALSE /\ mem[a].size \in Nat
  <2>1. a \in Blocks
    BY DEF HeapInv, FlagsMatchOwners
  <2>2. a \in Nat /\ p = a + HDR
    BY <2>1, BlockFacts, Constants DEF HeapInv, TypeOK
  <2> QED
    BY <2>1, <2>2 DEF HeapInv, FlagsMatchOwners, TypeOK, Header, Blocks
<1>2. n \in Nat /\ size \in Nat /\ HDR <= size /\ size + HDR <= mem[a].size
  BY <1>1, Constants DEF ShrinkIsSafe
<1>3. TakenFacts(mem, a)
  BY <1>1 DEF TakenFacts, HeapInv, TypeOK
<1>4. BlockTaken(a, size)
  <2>1. CASE SpaceForNewBlk(mem, a, size) /\ Fresh
    <3>1. a = Start
      BY <2>1, <1>1, FreshAlone DEF HeapInv
    <3>2. SplitDone(Start, size)
      BY <2>1, <3>1, <1>2, <1>3, SplitFirstStep DEF CallReallocInPlace
    <3> QED
      BY <3>1, <3>2, <1>1, <1>2, SplitTakes
  <2>2. CASE SpaceForNewBlk(mem, a, size) /\ ~Fresh
    <3>1. mem[a].next # NULL
      BY <2>2, <1>1, BlockFacts, Constants DEF HeapInv, ListTiles, EndLinks
    <3>2. ~mem[mem[a].next].free
      BY <3>1 DEF ShrinkIsSafe
    <3>3. SplitDone(a, size)
      BY <2>2, <3>2, <1>1, <1>2, <1>3, SplitBetweenStep DEF CallReallocInPlace
    <3> QED
      BY <3>3, <1>1, <1>2, SplitTakes
  <2>3. CASE ~SpaceForNewBlk(mem, a, size)
    <3>1. mem' = mem
      BY <2>3 DEF CallReallocInPlace
    <3>2. SameList /\ NoFreePairs'
      BY <3>1, MemUnchanged DEF SameBlocks
    <3>3. size <= mem'[a].size
      BY <3>1, <1>1, <1>2, Constants
    <3> QED
      BY <3>1, <3>2, <3>3, <1>1 DEF SameList, BlockTaken, HeapInv, TypeOK
  <2> QED
    BY <2>1, <2>2, <2>3
<1>5. Hand(a + HDR, n) /\ pc' = "idle" /\ call' = call
  BY <1>1 DEF CallReallocInPlace
<1>6. HDR + n <= size
  BY <1>2, Constants
<1> QED
  BY <1>2, <1>4, <1>5, <1>6, HandedOver

-----------------------------------------------------------------------------
(* Steps that change nothing but pc and call.                              *)
LEMMA QuietStep ==
  ASSUME HeapInv, SameBlocks, UNCHANGED <<owned, given>>,
         pc' \in {"idle", "search", "fuse_next", "fuse_prev", "panic"},
         call' \in [op : {"none", "malloc", "free", "realloc", "realloc_again"},
                    hdr : DOMAIN mem, need : Nat, at : DOMAIN mem, req : Nat],
         CallInProgress'
  PROVE  HeapInv'
<1>1. TypeOK'
  BY DEF HeapInv, TypeOK, SameBlocks, SameList, PageTableHeaders, Header
<1>2. FlagsMatchOwners' /\ PageTableKept'
  BY DEF HeapInv, FlagsMatchOwners, PageTableKept, SameBlocks, SameList
<1> QED
  BY <1>1, <1>2 DEF HeapInv, SameBlocks, SameList

(* every link the walk accepts leads to a header *)
LEMMA LinkIsHeader ==
  ASSUME HeapInv, NEW a \in DOMAIN mem, Valid(mem[a].next)
  PROVE  mem[a].next \in DOMAIN mem
<1> USE DEF HeapInv
<1>1. {NULL, PT, PTA, PTD} \subseteq DOMAIN mem
  BY DEF TypeOK, PageTableHeaders
<1>2. CASE a = NULL
  BY <1>1, <1>2 DEF SystemHeaders
<1>3. CASE a \in PageTableHeaders
  <2>1. mem[a].next # Huge
    BY Constants DEF Valid
  <2> QED
    BY <2>1, <1>1, <1>3 DEF SystemHeaders
<1>4. CASE a \in Blocks
  BY <1>1, <1>4 DEF ListTiles, EndLinks, Blocks
<1> QED
  BY <1>2, <1>3, <1>4 DEF Blocks

LEMMA SearchNextStep ==
  ASSUME HeapInv, SearchNext
  PROVE  HeapInv'
<1>1. SameBlocks
  BY EntryAccessed, MemUnchanged DEF SearchNext
<1>2. mem[call.at].next \in DOMAIN mem
  BY LinkIsHeader DEF SearchNext, HeapInv, TypeOK
<1>3. call' \in [op : {"none", "malloc", "free", "realloc", "realloc_again"},
                 hdr : DOMAIN mem, need : Nat, at : DOMAIN mem, req : Nat]
  BY <1>2 DEF SearchNext, HeapInv, TypeOK
<1>4. call'.op = call.op /\ call'.need = call.need /\ call'.req = call.req
  BY DEF SearchNext, HeapInv, TypeOK
<1>5. CallInProgress'
  BY <1>1, <1>4
     DEF SearchNext, HeapInv, CallInProgress, NoTightFit, SameBlocks, SameList
<1> QED
  BY <1>1, <1>3, <1>5, QuietStep DEF SearchNext

LEMMA SearchFailStep ==
  ASSUME HeapInv, SearchFail
  PROVE  HeapInv'
<1>1. SameBlocks
  BY MemUnchanged DEF SearchFail
<1>2. NoCall \in [op : {"none", "malloc", "free", "realloc", "realloc_again"},
                  hdr : DOMAIN mem, need : Nat, at : DOMAIN mem, req : Nat]
  BY DEF NoCall, HeapInv, TypeOK
<1> QED
  BY <1>1, <1>2, QuietStep DEF SearchFail, Return, CallInProgress

LEMMA FinishMallocStep ==
  ASSUME HeapInv, FinishMalloc
  PROVE  HeapInv'
<1> DEFINE a == call.at
           size == call.need
           taken == [mem EXCEPT ![a].free = FALSE]
<1>1. /\ a \in Blocks /\ a \in DOMAIN mem /\ mem[a].free
      /\ size \in Nat /\ size <= mem[a].size
  <2>1. a \in DOMAIN mem /\ a # NULL /\ mem[a].free /\ size <= mem[a].size /\ size \in Nat
    BY DEF FinishMalloc, Found, Fits, HeapInv, TypeOK
  <2>2. a \notin PageTableHeaders
    BY <2>1 DEF HeapInv, SystemHeaders
  <2> QED
    BY <2>1, <2>2 DEF Blocks
<1>2. /\ call.req \in Nat /\ HDR + call.req <= size /\ HDR <= size
      /\ size + HDR <= mem[a].size
  <2>1. call.req \in Nat /\ call.req + HDR <= size /\ NoTightFit(size)
    BY DEF FinishMalloc, HeapInv, TypeOK, CallInProgress
  <2>2. mem[a].size \in Nat
    BY <1>1, BlockFacts DEF HeapInv
  <2> QED
    BY <2>1, <2>2, <1>1, Constants DEF NoTightFit
<1>3. TakenFacts(taken, a)
  BY <1>1 DEF TakenFacts, HeapInv, TypeOK, Header
<1>4. BlockTaken(a, size)
  <2> HIDE DEF size
  <2>1. CASE mem' = InsertNewBlock(taken, a, size) /\ Valid(mem[a].next)
    <3> HIDE DEF taken
    <3>1. CASE Fresh
      <4>1. a = Start
        BY <3>1, <1>1, FreshAlone DEF HeapInv
      <4>2. SplitDone(Start, size)
        BY <2>1, <3>1, <4>1, <1>1, <1>2, <1>3, SplitFirstStep
      <4> QED
        BY <4>1, <4>2, <1>1, SplitTakes
    <3>2. CASE ~Fresh
      <4>1. mem[a].next \in Blocks \cup PageTableHeaders
        BY <3>2, <1>1 DEF HeapInv, ListTiles, EndLinks, PageTableHeaders
      <4>2. ~mem[mem[a].next].free
        BY <4>1, <2>1, <1>1 DEF HeapInv, NoFreePairs, SystemHeaders
      <4>3. SplitDone(a, size)
        BY <2>1, <3>2, <4>2, <1>1, <1>2, <1>3, SplitBetweenStep
      <4> QED
        BY <4>3, <1>1, SplitTakes
    <3> QED
      BY <3>1, <3>2
  <2>2. CASE mem' = taken
    <3>1. /\ SameList /\ mem'[a].free = FALSE
          /\ \A b \in Blocks : mem'[b].size = mem[b].size /\ mem'[b].next = mem[b].next
          /\ \A x \in DOMAIN mem \ {a} : mem'[x] = mem[x]
      BY <2>2, <1>1, FlagSet
    <3>2. NoFreePairs'
      <4>1. SUFFICES ASSUME NEW b \in Blocks, mem'[b].free, mem[b].next \in Blocks,
                            Valid(mem[b].next)
                     PROVE  ~mem'[mem[b].next].free
        BY <3>1 DEF NoFreePairs, Valid, HeapEnd, Start, SameList
      <4>2. b # a /\ mem'[b] = mem[b]
        BY <4>1, <3>1 DEF Blocks
      <4>3. CASE mem[b].next = a
        BY <4>3, <3>1
      <4>4. CASE mem[b].next # a
        BY <4>1, <4>2, <4>4, <3>1 DEF HeapInv, NoFreePairs, Blocks
      <4> QED
        BY <4>3, <4>4
    <3>3. size <= mem'[a].size
      BY <3>1, <1>1
    <3> QED
      BY <3>1, <3>2, <3>3, <1>1 DEF SameList, BlockTaken, HeapInv, TypeOK, Blocks
  <2>3. \/ mem' = InsertNewBlock(taken, a, size) /\ Valid(mem[a].next)
        \/ mem' = taken
    BY Constants DEF FinishMalloc, AllocateBlock, Valid, size
  <2> QED
    BY <2>1, <2>2, <2>3
<1>5. Hand(a + HDR, call.req) /\ pc' = "idle" /\ call' = NoCall
  BY DEF FinishMalloc, Return
<1> QED
  BY <1>1, <1>2, <1>4, <1>5, HandedOver

(* Coalescing finds nothing to fuse: FusePrevious and FuseNext never run,  *)
(* nor do the steps of a realloc() that moves.                             *)
LEMMA WalkthroughStep ==
  ASSUME HeapInv, Walkthrough
  PROVE  HeapInv' /\ UNCHANGED <<mem, owned, given>> /\ pc' # "fuse_next"
<1>1. /\ pc \in {"fuse_next", "fuse_prev"} /\ call.op = "free"
      /\ call.hdr \in Blocks /\ NoFreeNeighbour(call.hdr + HDR)
  BY DEF Walkthrough, FuseNext, FuseNextDone, FusePrevious, FreeReturns, DeleteAgain,
         ReallocReturns, HeapInv, CallInProgress
<1>2. (call.hdr + HDR) - HDR = call.hdr
  BY <1>1, BlockFacts, Constants DEF HeapInv
<1>3. ~NextIsFree /\ ~PreviousIsFree
  BY <1>1, <1>2 DEF NextIsFree, PreviousIsFree, NoFreeNeighbour
<1>4. (FuseNextDone \/ FreeReturns) /\ mem' = mem
  BY <1>1, <1>3
     DEF Walkthrough, FuseNext, FuseNextDone, FusePrevious, FreeReturns, DeleteAgain,
         ReallocReturns
<1>5. SameBlocks
  BY <1>4, MemUnchanged
<1>6. NoCall \in [op : {"none", "malloc", "free", "realloc", "realloc_again"},
                  hdr : DOMAIN mem, need : Nat, at : DOMAIN mem, req : Nat]
  BY DEF NoCall, HeapInv, TypeOK
<1>7. CASE FuseNextDone
  <2>1. /\ pc' = "fuse_prev" /\ call' = call /\ mem' = mem
        /\ UNCHANGED <<owned, given>>
    BY <1>7 DEF FuseNextDone
  <2>2. CallInProgress'
    BY <2>1, <1>1 DEF CallInProgress, NoFreeNeighbour, Blocks
  <2> QED
    BY <2>1, <2>2, <1>5, QuietStep DEF HeapInv, TypeOK
<1>8. CASE FreeReturns
  <2>1. /\ pc' = "idle" /\ call' = NoCall /\ mem' = mem
        /\ UNCHANGED <<owned, given>>
    BY <1>8 DEF FreeReturns, Return
  <2>2. CallInProgress'
    BY <2>1 DEF CallInProgress
  <2> QED
    BY <2>1, <2>2, <1>5, <1>6, QuietStep
<1> QED
  BY <1>4, <1>7, <1>8

LEMMA StutterStep ==
  ASSUME HeapInv, UNCHANGED vars
  PROVE  HeapInv'
<1>1. SameBlocks
  BY MemUnchanged DEF vars
<1>2. CallInProgress'
  BY DEF vars, HeapInv, CallInProgress, NoTightFit, NoFreeNeighbour, Blocks
<1>3. pc \in {"idle", "search", "fuse_next", "fuse_prev", "panic"}
  BY DEF HeapInv, TypeOK, PageTableKept
<1> QED
  BY <1>1, <1>2, <1>3, QuietStep DEF vars, HeapInv, TypeOK

LEMMA HeapInvInductive ==
  ASSUME HeapInv, [ContractNext]_vars
  PROVE  HeapInv'
<1>1. CASE ContractCall
  BY <1>1, CallMallocStep, FreeStep, DoubleFreeStep, ReallocStep DEF ContractCall
<1>2. CASE Search
  <2>1. ~MoveContent
    BY DEF MoveContent, HeapInv, CallInProgress
  <2> QED
    BY <1>2, <2>1, SearchNextStep, SearchFailStep, FinishMallocStep DEF Search
<1>3. CASE Walkthrough
  BY <1>3, WalkthroughStep
<1>4. ~PageFault
  BY DEF PageFault, HeapInv, PageTableKept
<1>5. CASE Halted \/ UNCHANGED vars
  BY <1>5, StutterStep DEF Halted
<1> QED
  BY <1>1, <1>2, <1>3, <1>4, <1>5 DEF ContractNext, Run

(* Every property below holds in every state that satisfies HeapInv.       *)
THEOREM HeapInvariant == ContractSpec => []HeapInv
<1>1. HeapInv /\ [ContractNext]_vars => HeapInv'
  BY HeapInvInductive
<1> QED
  BY InitHeapInv, <1>1, PTL DEF ContractSpec

(* Type correctness: the walk and the splits only ever dereference         *)
(* addresses that hold a header, and no size becomes negative.             *)
THEOREM TypeCorrect == ContractSpec => []TypeOK
<1>1. HeapInv => TypeOK
  BY DEF HeapInv
<1> QED
  BY HeapInvariant, <1>1, PTL

(* insert_new_block() and allocate_block() keep the block list a gapless   *)
(* tiling of the heap, whatever the sizes.                                 *)
THEOREM ListStaysTiled == ContractSpec => []ListTiles
<1>1. HeapInv => ListTiles
  BY DEF HeapInv
<1> QED
  BY HeapInvariant, <1>1, PTL

(* A block's free flag is clear exactly while a client holds it.           *)
THEOREM FlagsRight == ContractSpec => []FlagsMatchOwners
<1>1. HeapInv => FlagsMatchOwners
  BY DEF HeapInv
<1> QED
  BY HeapInvariant, <1>1, PTL

(* The heap never writes page-table entry 0 although it walks through it.  *)
THEOREM PageTableUntouched == ContractSpec => []PageTableKept
<1>1. HeapInv => PageTableKept
  BY DEF HeapInv
<1> QED
  BY HeapInvariant, <1>1, PTL

(* Only free() of a held pointer reaches the list.                         *)
LEMMA FreeReachesListOnlyIfHeld ==
  ASSUME HeapInv, [ContractNext]_vars, pc = "idle", pc' = "fuse_next"
  PROVE  call'.hdr + HDR \in DOMAIN owned
<1>1. ContractCall
  BY WalkthroughStep
     DEF ContractNext, Run, Search, SearchNext, SearchFail, FinishMalloc, MoveContent,
         Walkthrough, FuseNext, FuseNextDone, FusePrevious, FreeReturns, DeleteAgain,
         ReallocReturns, PageFault, Halted, vars
<1>2. ~\E n \in MallocSizes : CallMalloc(n)
  BY DEF CallMalloc
<1>3. ~\E p \in given \ DOMAIN owned : CallFree(p)
  BY DoubleFreeStep
<1>4. ~\E p \in DOMAIN owned, n \in ReallocSizes : CallReallocInPlace(p, n)
  BY DEF CallReallocInPlace
<1>5. PICK p \in DOMAIN owned : CallFree(p)
  BY <1>1, <1>2, <1>3, <1>4 DEF ContractCall
<1>6. call'.hdr = p - HDR
  BY <1>5 DEF CallFree, NoCall
<1>7. p - HDR \in Nat /\ p \in given
  BY BlockFacts DEF HeapInv, FlagsMatchOwners, TypeOK
<1>8. (p - HDR) + HDR = p
  BY <1>7, Constants DEF HeapInv, TypeOK
<1> QED
  BY <1>6, <1>8

THEOREM DoubleFreesCaught == ContractSpec => DoubleFreeCaught
<1>1. HeapInv /\ [ContractNext]_vars
      => [pc = "idle" /\ pc' = "fuse_next" => call'.hdr + HDR \in DOMAIN owned]_vars
  BY FreeReachesListOnlyIfHeld
<1> QED
  BY HeapInvariant, <1>1, PTL DEF ContractSpec, DoubleFreeCaught

-----------------------------------------------------------------------------
(* What the search has passed.                                             *)

(* The walk leaves the block at its cursor for the one right behind it, or *)
(* has seen the last.                                                      *)
LEMMA NextBlock ==
  ASSUME HeapInv, pc = "search", NonePassed, ~Fits,
         NEW b \in Blocks, Valid(b), mem[b].free, call.need <= mem[b].size
  PROVE  /\ call.at \in Blocks /\ mem[call.at].next \in Blocks
         /\ Valid(mem[call.at].next) /\ mem[call.at].next <= b
<1> DEFINE a == call.at
<1>1. a \in Blocks /\ a <= b
  BY DEF NonePassed
<1>2. a # b
  BY DEF Fits
<1>3. a \in Nat /\ b \in Nat /\ mem[a].size \in Nat /\ mem[b].size \in Nat
  BY <1>1 DEF HeapInv, TypeOK, Blocks, Header
<1>4. a < b
  BY <1>1, <1>2, <1>3
<1>5. BlockEnd(a) <= b
  BY <1>1, <1>4 DEF HeapInv, ListTiles
<1>6. HDR <= mem[b].size /\ BlockEnd(b) <= TileEnd
  BY DEF HeapInv, ListTiles
<1>7. TileEnd \in Nat
  BY Constants DEF TileEnd
<1>8. BlockEnd(a) # TileEnd
  BY <1>3, <1>5, <1>6, <1>7, Constants DEF BlockEnd
<1>9. mem[a].next = BlockEnd(a) /\ BlockEnd(a) \in Blocks
  BY <1>1, <1>8 DEF HeapInv, ListTiles
<1>10. BlockEnd(a) < HeapEnd
  BY <1>3, <1>5, Constants DEF BlockEnd, Valid
<1> QED
  BY <1>1, <1>5, <1>9, <1>10 DEF Valid

LEMMA NonePassedKept ==
  ASSUME HeapInv, NonePassed, [ContractNext]_vars
  PROVE  NonePassed'
<1> SUFFICES ASSUME pc' = "search"
             PROVE  NonePassed'
  BY DEF NonePassed
<1>1. CASE UNCHANGED vars
  BY <1>1 DEF vars, NonePassed, Blocks
<1>2. CASE SearchNext
  <2>1. SameBlocks /\ call'.need = call.need /\ call'.at = mem[call.at].next /\ pc = "search" /\ ~Fits
    BY <1>2, EntryAccessed, MemUnchanged DEF SearchNext, HeapInv, TypeOK
  <2> SUFFICES ASSUME NEW b \in Blocks, Valid(b), mem[b].free, call.need <= mem[b].size
               PROVE  call'.at \in Blocks /\ call'.at <= b
    BY <2>1 DEF NonePassed, SameBlocks, SameList
  <2> QED
    BY <2>1, NextBlock
<1>3. ASSUME NEW n \in MallocSizes, CallMalloc(n)
      PROVE  NonePassed'
  <2>1. call'.at = Start /\ UNCHANGED mem
    BY <1>3 DEF CallMalloc
  <2>2. Start \in Blocks /\ \A b \in Blocks : Start <= b
    BY DEF HeapInv, ListTiles
  <2> QED
    BY <2>1, <2>2 DEF NonePassed, Blocks
<1>4. ~Walkthrough
  BY DEF Walkthrough, FuseNext, FuseNextDone, FusePrevious, FreeReturns, DeleteAgain,
         ReallocReturns, Return
<1>5. ~Halted /\ ~PageFault
  BY DEF Halted, PageFault, vars
<1>6. ~SearchFail /\ ~FinishMalloc /\ ~MoveContent
  BY DEF Return, SearchFail, FinishMalloc, MoveContent
<1>7. ~\E p \in given : CallFree(p)
  BY DEF CallFree
<1>8. ~\E p \in DOMAIN owned, n \in ReallocSizes : CallReallocInPlace(p, n)
  BY DEF CallReallocInPlace
<1> QED
  BY <1>1, <1>2, <1>3, <1>4, <1>5, <1>6, <1>7, <1>8 DEF ContractNext, ContractCall, Run, Search, HeapInv, TypeOK

(* A search that fails has passed every block, and none of them would do.  *)
LEMMA FailedSearchIsRight ==
  ASSUME HeapInv, NonePassed, SearchFail
  PROVE  \A b \in Blocks : Valid(b) /\ mem[b].free => mem[b].size < call.need
<1> SUFFICES ASSUME NEW b \in Blocks, Valid(b), mem[b].free, call.need <= mem[b].size
             PROVE  FALSE
  <2>1. call.need \in Nat /\ \A b \in Blocks : mem[b].size \in Nat
    BY DEF HeapInv, TypeOK, Blocks, Header
  <2> QED
    BY <2>1
<1>1. pc = "search"
  BY DEF SearchFail
<1>2. CASE Fits
  <2>1. call.at = NULL
    BY <1>2 DEF SearchFail, Found
  <2> QED
    BY <1>1, <2>1 DEF NonePassed, Blocks
<1>3. CASE ~Fits
  <2>1. ~Valid(mem[call.at].next)
    BY <1>3 DEF SearchFail
  <2> QED
    BY <1>1, <1>3, <2>1, NextBlock
<1> QED
  BY <1>2, <1>3

(* get_free_block() walks a list that splits rewrote and whose links lead  *)
(* through the page table; malloc() still fails only when no free block    *)
(* the walk accepts is large enough.                                       *)
THEOREM MallocMissesNoBlock == ContractSpec => FailsOnlyWhenNoneFits
<1>1. Init => NonePassed
  BY DEF Init, NonePassed
<1>2. HeapInv /\ NonePassed /\ [ContractNext]_vars => NonePassed'
  BY NonePassedKept
<1>3. HeapInv /\ NonePassed /\ [ContractNext]_vars
      => [SearchFail => \A b \in Blocks : Valid(b) /\ mem[b].free => mem[b].size < call.need]_vars
  BY FailedSearchIsRight
<1> QED
  BY HeapInvariant, <1>1, <1>2, <1>3, PTL DEF ContractSpec, FailsOnlyWhenNoneFits

-----------------------------------------------------------------------------
(* The heap implements the Allocator: the blocks clients hold do not       *)
(* overlap, as they are disjoint tiles.                                    *)
LEMMA HeldApart ==
  ASSUME HeapInv, NEW p \in DOMAIN owned, NEW q \in DOMAIN owned, p # q
  PROVE  AllocatorView!Disjoint(p, owned[p], q, owned[q])
<1> USE DEF HeapInv
<1>1. ASSUME NEW r \in DOMAIN owned
      PROVE  /\ r \in Nat /\ owned[r] \in Nat /\ r - HDR \in Nat /\ r - HDR \in Blocks
             /\ r + owned[r] <= BlockEnd(r - HDR)
  <2>1. r \in given /\ owned[r] \in Nat
    BY DEF TypeOK
  <2>2. r \in Nat
    BY <2>1, Constants DEF TypeOK
  <2>3. r - HDR \in Blocks /\ HDR + owned[r] <= mem[r - HDR].size
    BY DEF FlagsMatchOwners
  <2> QED
    BY <2>1, <2>2, <2>3, BlockFacts, Constants
<1>2. p - HDR < q - HDR \/ q - HDR < p - HDR
  BY <1>1, Constants
<1>3. BlockEnd(p - HDR) <= q - HDR \/ BlockEnd(q - HDR) <= p - HDR
  BY <1>1, <1>2, BlockFacts
<1> HIDE DEF HeapInv
<1>4. /\ p \in Nat /\ q \in Nat /\ owned[p] \in Nat /\ owned[q] \in Nat
      /\ BlockEnd(p - HDR) \in Nat /\ BlockEnd(q - HDR) \in Nat
  BY <1>1, BlockFacts DEF HeapInv
<1>5. p + owned[p] <= BlockEnd(p - HDR) /\ q + owned[q] <= BlockEnd(q - HDR)
  BY <1>1
<1> QED
  BY <1>3, <1>4, <1>5, Constants DEF AllocatorView!Disjoint

LEMMA HeldAllApart == HeapInv => AllocatorView!HeldDisjoint
BY HeldApart DEF AllocatorView!HeldDisjoint

(* The block malloc() takes is nobody's.                                   *)
LEMMA FoundIsNobodys ==
  ASSUME HeapInv, FinishMalloc
  PROVE  call.at \in Blocks /\ call.at + HDR \notin DOMAIN owned
<1>1. call.at \in Blocks /\ mem[call.at].free
  BY DEF FinishMalloc, Found, Fits, HeapInv, TypeOK, SystemHeaders, Blocks
<1> QED
  BY <1>1 DEF HeapInv, FlagsMatchOwners

LEMMA StepIsAllocatorStep ==
  ASSUME HeapInv, HeapInv', [ContractNext]_vars
  PROVE  [AllocatorView!Next]_owned
<1>1. \A p, q \in DOMAIN owned' : p # q => AllocatorView!Disjoint(p, owned'[p], q, owned'[q])
  <2>1. AllocatorView!HeldDisjoint'
    BY HeldAllApart, PTL
  <2> QED
    BY <2>1 DEF AllocatorView!HeldDisjoint, AllocatorView!Disjoint
<1>2. CASE \E p \in DOMAIN owned, n \in ReallocSizes : CallReallocInPlace(p, n)
  <2>1. PICK p \in DOMAIN owned, n \in ReallocSizes : CallReallocInPlace(p, n)
    BY <1>2
  <2>2. /\ DOMAIN owned' = DOMAIN owned
        /\ \A q \in DOMAIN owned \ {p} : owned'[q] = owned[q]
    BY <2>1 DEF CallReallocInPlace, Hand
  <2>3. AllocatorView!Exclusive(p, owned'[p])
    BY <2>2, <1>1 DEF AllocatorView!Exclusive, AllocatorView!Disjoint
  <2>4. AllocatorView!Resize
    BY <2>2, <2>3 DEF AllocatorView!Resize
  <2> QED
    BY <2>4 DEF AllocatorView!Next
<1>3. CASE FinishMalloc
  <2> DEFINE p == call.at + HDR
  <2>1. /\ DOMAIN owned' = DOMAIN owned \cup {p}
        /\ \A q \in DOMAIN owned \ {p} : owned'[q] = owned[q]
    BY <1>3 DEF FinishMalloc, Hand
  <2>2. call.at \in Blocks /\ p \notin DOMAIN owned
    BY <1>3, FoundIsNobodys
  <2>3. p > 0
    BY <2>2, BlockFacts, Constants DEF HeapInv
  <2>4. owned'[p] >= 0
    BY <2>1 DEF HeapInv, TypeOK
  <2>5. AllocatorView!Exclusive(p, owned'[p])
    BY <2>1, <2>2, <1>1 DEF AllocatorView!Exclusive
  <2>6. AllocatorView!Allocate
    BY <2>1, <2>2, <2>3, <2>4, <2>5 DEF AllocatorView!Allocate
  <2> QED
    BY <2>6 DEF AllocatorView!Next
<1>4. CASE \E p \in DOMAIN owned : CallFree(p)
  BY <1>4 DEF CallFree, AllocatorView!Free, AllocatorView!Next
<1>5. CASE \E p \in given \ DOMAIN owned : CallFree(p)
  <2>1. \A p \in given \ DOMAIN owned : DOMAIN owned \ {p} = DOMAIN owned
    OBVIOUS
  <2>2. owned' = [q \in DOMAIN owned |-> owned[q]]
    BY <1>5, <2>1 DEF CallFree
  <2>3. owned = [q \in DOMAIN owned |-> owned[q]]
    BY DEF HeapInv, TypeOK
  <2> QED
    BY <2>2, <2>3
<1>6. ~MoveContent
  BY DEF MoveContent, HeapInv, CallInProgress
<1>7. CASE Walkthrough
  BY <1>7, WalkthroughStep
<1>8. CASE \/ \E n \in MallocSizes : CallMalloc(n)
           \/ SearchNext \/ SearchFail \/ PageFault \/ Halted \/ UNCHANGED vars
  BY <1>8 DEF CallMalloc, SearchNext, SearchFail, PageFault, Halted, vars
<1> QED
  BY <1>2, <1>3, <1>4, <1>5, <1>6, <1>7, <1>8
     DEF ContractNext, ContractCall, Run, Search

(* What clients see of the heap is the Allocator, every step a step of it  *)
(* or none: no byte is ever handed to two clients.                         *)
THEOREM HeapImplementsAllocator == ContractSpec => AllocatorSpec
<1>1. Init => AllocatorView!Init
  BY DEF Init, AllocatorView!Init
<1>2. HeapInv /\ HeapInv' /\ [ContractNext]_vars => [AllocatorView!Next]_owned
  BY StepIsAllocatorStep
<1>3. HeapInv => (FinishMalloc => call.at + HDR \notin DOMAIN owned)
  BY FoundIsNobodys
<1> QED
  BY HeapInvariant, <1>1, <1>2, <1>3, PTL DEF ContractSpec, AllocatorSpec, AllocatorView!Spec

-----------------------------------------------------------------------------
(* The call that breaks the list: whatever is freed or resized, no header   *)
(* is read that is not there, none is written over another one or lies in   *)
(* a client's bytes, and no memory at address 0 is returned. The proof is   *)
(* in three layers: what every part of a call keeps of a memory m           *)
(* (ListSound), what each action keeps of the state (LinksInv), and what    *)
(* the call takes from the sound list it started from (HeadersApart).       *)

-----------------------------------------------------------------------------
(* The parts of a call on a sound memory                                   *)

(* r is sound and has every header m has *)
SoundAfter(r, m) == ListSound(r) /\ DOMAIN m \subseteq DOMAIN r

LEMMA SystemFacts ==
  /\ System = {NULL, PT, PTA, PTD} /\ System \subseteq Nat
  /\ \A s \in System : s < Start
  /\ Start \in Nat /\ Huge \in Nat /\ HeapEnd \in Nat /\ ~Valid(Huge) /\ HDR \in Nat
BY Constants DEF System, PageTableHeaders, Valid

(* The header of a block that is split off is one of a sound list.         *)
LEMMA AddHeaderSound ==
  ASSUME NEW m, ListSound(m), NEW a \in DOMAIN m \ System,
         NEW size \in Nat, size <= m[a].size
  PROVE  /\ SoundAfter(AddHeader(m, a, size), m)
         /\ a + size \in DOMAIN AddHeader(m, a, size) \ System
<1> DEFINE r == AddHeader(m, a, size)
           new == a + size
<1>1. m \in [DOMAIN m -> Header] /\ a \in Nat /\ a \in DOMAIN m /\ Start <= a
  BY DEF ListSound
<1>2. HeaderAdded(r, m, a, size)
  BY <1>1, AddHeaderFacts
<1> HIDE DEF r
<1>3. DOMAIN r = DOMAIN m \cup {new} /\ new \in Nat /\ new \notin System /\ Start <= new
  BY <1>1, <1>2, SystemFacts DEF HeaderAdded
<1>4. /\ r \in [DOMAIN r -> Header] /\ DOMAIN r \subseteq Nat
      /\ {Start} \cup System \subseteq DOMAIN r
  BY <1>2, <1>3 DEF ListSound, HeaderAdded
<1>5. \A s \in System : s \in DOMAIN m /\ r[s] = m[s]
  BY <1>2, <1>3 DEF HeaderAdded, ListSound
<1>6. /\ \A s \in PageTableHeaders : ~r[s].free /\ r[s].next \in {NULL, Huge}
      /\ r[NULL].next \in System
  BY <1>5 DEF ListSound, System
<1>7. ASSUME NEW b \in DOMAIN r \ System
      PROVE  Start <= b /\ r[b].next \in DOMAIN r /\ r[b].previous \in DOMAIN r
  <2>1. CASE b = new
    BY <2>1, <1>1, <1>2, <1>3 DEF HeaderAdded, ListSound
  <2>2. CASE b # new
    BY <2>2, <1>2, <1>3 DEF HeaderAdded, ListSound
  <2> QED
    BY <2>1, <2>2
<1>8. ListSound(r)
  BY <1>4, <1>6, <1>7 DEF ListSound
<1> QED
  BY <1>3, <1>8 DEF SoundAfter, r

(* A memory whose headers change in size only, or get links and flags that *)
(* a sound list may have, stays sound.                                     *)
LEMMA ChangedSound ==
  ASSUME NEW m, ListSound(m), NEW r, r \in [DOMAIN m -> Header],
         \A s \in PageTableHeaders : ~r[s].free /\ r[s].next \in {NULL, Huge},
         r[NULL].next \in System,
         \A b \in DOMAIN m \ System : r[b].next \in DOMAIN m /\ r[b].previous \in DOMAIN m
  PROVE  SoundAfter(r, m)
BY DEF ListSound, SoundAfter

(* memset() of any header. *)
LEMMA ZeroedSound ==
  ASSUME NEW m, ListSound(m), NEW a \in DOMAIN m
  PROVE  SoundAfter([m EXCEPT ![a] = Zeroed], m)
<1> DEFINE r == [m EXCEPT ![a] = Zeroed]
<1>1. /\ r \in [DOMAIN m -> Header] /\ r[a] = Zeroed
      /\ \A x \in DOMAIN m : x # a => r[x] = m[x]
  BY DEF ListSound, Zeroed, Header, NULL
<1> HIDE DEF r
<1>2. /\ Zeroed.free = FALSE /\ Zeroed.next = NULL /\ Zeroed.previous = NULL
      /\ NULL \in System /\ System \subseteq DOMAIN m /\ PageTableHeaders \subseteq System
  BY DEF Zeroed, System, ListSound
<1>3. \A s \in PageTableHeaders : ~r[s].free /\ r[s].next \in {NULL, Huge}
  BY <1>1, <1>2 DEF ListSound
<1>4. r[NULL].next \in System
  BY <1>1, <1>2 DEF ListSound
<1>5. \A b \in DOMAIN m \ System : r[b].next \in DOMAIN m /\ r[b].previous \in DOMAIN m
  BY <1>1, <1>2 DEF ListSound
<1> QED
  BY <1>1, <1>3, <1>4, <1>5, ChangedSound DEF r

(* A write to the flag or the back link of one header.                     *)
LEMMA FlagSetSound ==
  ASSUME NEW m, ListSound(m), NEW a \in DOMAIN m \ System, NEW f \in BOOLEAN
  PROVE  SoundAfter([m EXCEPT ![a].free = f], m)
<1> DEFINE r == [m EXCEPT ![a].free = f]
<1>1. /\ r \in [DOMAIN m -> Header]
      /\ \A x \in DOMAIN m : r[x].next = m[x].next /\ r[x].previous = m[x].previous
      /\ \A x \in DOMAIN m : x # a => r[x] = m[x]
  BY DEF ListSound, Header
<1> HIDE DEF r
<1>2. System \subseteq DOMAIN m /\ PageTableHeaders \subseteq System /\ NULL \in System
  BY DEF System, ListSound
<1>3. /\ \A s \in PageTableHeaders : ~r[s].free /\ r[s].next \in {NULL, Huge}
      /\ r[NULL].next \in System
  BY <1>1, <1>2 DEF ListSound
<1>4. \A b \in DOMAIN m \ System : r[b].next \in DOMAIN m /\ r[b].previous \in DOMAIN m
  BY <1>1 DEF ListSound
<1>5. SoundAfter(r, m)
  BY <1>1, <1>3, <1>4, ChangedSound
<1> QED
  BY <1>5 DEF r

LEMMA BackLinkSound ==
  ASSUME NEW m, ListSound(m), NEW n \in DOMAIN m, NEW p \in DOMAIN m
  PROVE  SoundAfter([m EXCEPT ![n].previous = p], m)
<1> DEFINE r == [m EXCEPT ![n].previous = p]
<1>1. /\ r \in [DOMAIN m -> Header]
      /\ \A x \in DOMAIN m : r[x].next = m[x].next /\ r[x].free = m[x].free
      /\ \A x \in DOMAIN m : r[x].previous \in {m[x].previous, p}
  BY DEF ListSound, Header
<1> HIDE DEF r
<1>2. System \subseteq DOMAIN m /\ PageTableHeaders \subseteq System /\ NULL \in System
  BY DEF System, ListSound
<1>3. /\ \A s \in PageTableHeaders : ~r[s].free /\ r[s].next \in {NULL, Huge}
      /\ r[NULL].next \in System
  BY <1>1, <1>2 DEF ListSound
<1>4. \A b \in DOMAIN m \ System : r[b].next \in DOMAIN m /\ r[b].previous \in DOMAIN m
  BY <1>1 DEF ListSound
<1>5. SoundAfter(r, m)
  BY <1>1, <1>3, <1>4, ChangedSound
<1> QED
  BY <1>5 DEF r

(* A block that takes on the size and the link of another header that is   *)
(* no page table.                                                          *)
LEMMA TakenOverSound ==
  ASSUME NEW m, ListSound(m), NEW a \in DOMAIN m \ System,
         NEW n \in DOMAIN m, NEW size \in Nat
  PROVE  SoundAfter([m EXCEPT ![a].size = size, ![a].next = n], m)
<1> DEFINE m1 == [m EXCEPT ![a].size = size]
           r == [m1 EXCEPT ![a].next = n]
<1>1. /\ m1 \in [DOMAIN m -> Header]
      /\ \A x \in DOMAIN m : /\ m1[x].next = m[x].next /\ m1[x].free = m[x].free
                             /\ m1[x].previous = m[x].previous
      /\ \A x \in DOMAIN m : x # a => m1[x] = m[x]
  BY DEF ListSound, Header
<1>2. n \in Nat
  BY DEF ListSound
<1> HIDE DEF m1
<1>3. /\ r \in [DOMAIN m -> Header]
      /\ \A x \in DOMAIN m : r[x].next \in {m[x].next, n} /\ r[x].previous = m[x].previous
      /\ \A x \in DOMAIN m : x # a => r[x] = m[x]
  BY <1>1, <1>2 DEF Header
<1> HIDE DEF r
<1>4. System \subseteq DOMAIN m /\ PageTableHeaders \subseteq System /\ NULL \in System
  BY DEF System, ListSound
<1>5. SoundAfter(r, m)
  BY <1>3, <1>4, ChangedSound DEF ListSound
<1> QED
  BY <1>5 DEF r, m1

(* The CPU's Dirty bit moves the link of the "header" at address 0 along   *)
(* the readings of the same page-table entry.                              *)
LEMMA EntryMovedSound ==
  ASSUME NEW m, ListSound(m), NEW t \in PageTableHeaders
  PROVE  SoundAfter([m EXCEPT ![NULL].next = t], m)
<1> DEFINE r == [m EXCEPT ![NULL].next = t]
<1>1. System \subseteq DOMAIN m /\ PageTableHeaders \subseteq System /\ NULL \in System
  BY DEF System, ListSound
<1>2. NULL \notin PageTableHeaders /\ t \in Nat
  BY Constants DEF PageTableHeaders
<1>3. /\ r \in [DOMAIN m -> Header] /\ r[NULL].next = t
      /\ \A x \in DOMAIN m : x # NULL => r[x] = m[x]
  BY <1>1, <1>2 DEF ListSound, Header
<1> HIDE DEF r
<1> QED
  BY <1>1, <1>2, <1>3, ChangedSound DEF ListSound, r

LEMMA SoundTransitive ==
  ASSUME NEW m, NEW m1, NEW m2, SoundAfter(m1, m), SoundAfter(m2, m1)
  PROVE  SoundAfter(m2, m)
BY DEF SoundAfter

(* a header the page table does not hold has its link in the list *)
LEMMA LinkInside ==
  ASSUME NEW m, ListSound(m), NEW a \in DOMAIN m, a \notin PageTableHeaders
  PROVE  m[a].next \in DOMAIN m
BY DEF ListSound, System

LEMMA MergeFollowerSound ==
  ASSUME NEW m, ListSound(m), NEW new \in DOMAIN m \ System
  PROVE  SoundAfter(MergeFollower(m, new), m)
<1> DEFINE s == m[new].next
           size == m[new].size + m[s].size
           merged == [m EXCEPT ![new].size = size, ![new].next = m[s].next]
           zeroed == [merged EXCEPT ![m[s].next] = Zeroed]
<1>1. CASE ~m[s].free
  BY <1>1 DEF MergeFollower, SoundAfter
<1>2. CASE m[s].free
  <2>1. s \in DOMAIN m /\ s \notin PageTableHeaders
    BY <1>2 DEF ListSound
  <2>2. m[s].next \in DOMAIN m
    BY <2>1, LinkInside
  <2>3. size \in Nat
    BY <2>1 DEF ListSound, Header
  <2>4. SoundAfter(merged, m) /\ DOMAIN merged = DOMAIN m
    BY <2>2, <2>3, TakenOverSound
  <2>5. SoundAfter(zeroed, merged)
    BY <2>2, <2>4, ZeroedSound DEF SoundAfter
  <2>6. Put(merged, m[s].next, Zeroed) = zeroed
    BY <2>2, <2>4 DEF Put
  <2>7. MergeFollower(m, new) = SetDirty(zeroed)
    BY <1>2, <2>6 DEF MergeFollower
  <2> HIDE DEF zeroed, merged
  <2>8. SoundAfter(SetDirty(zeroed), zeroed)
    BY <2>5, EntryMovedSound DEF SetDirty, SoundAfter, PageTableHeaders
  <2> QED
    BY <2>4, <2>5, <2>7, <2>8, SoundTransitive
<1> QED
  BY <1>1, <1>2

(* insert_new_block() of a block that is large enough for the request.     *)
LEMMA InsertSound ==
  ASSUME NEW m, ListSound(m), NEW a \in DOMAIN m \ System,
         NEW size \in Nat, size <= m[a].size
  PROVE  SoundAfter(InsertNewBlock(m, a, size), m)
<1> DEFINE new == a + size
           m1 == AddHeader(m, a, size)
           m2 == MergeFollower(m1, new)
           m3 == LinkBack(m2, new)
           m4 == [m3 EXCEPT ![a].size = size, ![a].next = new]
<1>1. InsertNewBlock(m, a, size) = m4
  BY DEF InsertNewBlock
<1>2. SoundAfter(m1, m) /\ new \in DOMAIN m1 \ System
  BY AddHeaderSound
<1> HIDE DEF m1
<1>3. SoundAfter(m2, m1)
  BY <1>2, MergeFollowerSound DEF SoundAfter
<1>4. new \in DOMAIN m2 \ System
  BY <1>2, <1>3 DEF SoundAfter
<1> HIDE DEF m2
<1>5. m2[new].next \in DOMAIN m2
  BY <1>3, <1>4 DEF ListSound, SoundAfter
<1>6. SoundAfter(m3, m2)
  BY <1>3, <1>4, <1>5, BackLinkSound DEF LinkBack, SoundAfter
<1> HIDE DEF m3
<1>7. a \in DOMAIN m3 \ System /\ new \in DOMAIN m3
  BY <1>2, <1>3, <1>4, <1>6 DEF SoundAfter
<1>8. SoundAfter(m4, m3)
  BY <1>6, <1>7, TakenOverSound DEF SoundAfter
<1> HIDE DEF m4
<1> QED
  BY <1>1, <1>2, <1>3, <1>6, <1>8, SoundTransitive

LEMMA AllocateSound ==
  ASSUME NEW m, ListSound(m), NEW a \in DOMAIN m \ System,
         NEW size \in Nat, size <= m[a].size
  PROVE  SoundAfter(AllocateBlock(m, a, size), m)
<1> DEFINE taken == [m EXCEPT ![a].free = FALSE]
<1>1. SoundAfter(taken, m)
  BY FlagSetSound
<1>2. DOMAIN taken = DOMAIN m /\ taken[a].size = m[a].size
  BY DEF ListSound, Header
<1>3. AllocateBlock(m, a, size) \in {taken, InsertNewBlock(taken, a, size)}
  BY DEF AllocateBlock
<1> HIDE DEF taken
<1>4. SoundAfter(InsertNewBlock(taken, a, size), taken)
  BY <1>1, <1>2, InsertSound DEF SoundAfter
<1> QED
  BY <1>1, <1>3, <1>4, SoundTransitive

-----------------------------------------------------------------------------
(* fuse_blocks() of a block and a free header: the one at the lower        *)
(* address is zeroed.                                                      *)
Higher(a, b) == IF a > b THEN a ELSE b
Lower(a, b)  == IF a > b THEN b ELSE a

FusedSound(r, m, a, b) ==
  /\ SoundAfter(r, m) /\ DOMAIN r = DOMAIN m
  /\ r[Lower(a, b)] = Zeroed
  /\ \A x \in DOMAIN m \ {Lower(a, b)} : r[x].free = m[x].free
  /\ m[Lower(a, b)].next # Higher(a, b) =>
       /\ Lower(a, b) # Higher(a, b) => r[Higher(a, b)].next = m[Lower(a, b)].next
       /\ r[Higher(a, b)].previous = IF a = b THEN NULL ELSE m[Higher(a, b)].previous

LEMMA FuseSound ==
  ASSUME NEW m, ListSound(m), NEW a \in DOMAIN m \ System,
         NEW b \in DOMAIN m \ PageTableHeaders
  PROVE  FusedSound(FuseBlocks(m, a, b), m, a, b)
<1> DEFINE first == Higher(a, b)
           second == Lower(a, b)
           size == m[first].size + m[second].size
           m1 == [m EXCEPT ![first].size = size, ![first].next = m[second].next]
           n == m1[first].next
           m2 == IF Valid(m1[n].next) THEN [m1 EXCEPT ![n].previous = first] ELSE m1
           r == [m2 EXCEPT ![second] = Zeroed]
<1>1. FuseBlocks(m, a, b) = r
  BY DEF FuseBlocks, Higher, Lower
<1>2. /\ a \in Nat /\ b \in Nat /\ b \in DOMAIN m /\ Start <= a /\ NULL < a
      /\ {first, second} = {a, b} /\ second <= first /\ (first = second <=> a = b)
  BY Constants DEF ListSound, Higher, Lower, System
<1>3. first \in DOMAIN m \ System /\ second \in DOMAIN m \ PageTableHeaders
  BY <1>2, SystemFacts DEF System, ListSound, Higher, Lower
<1> HIDE DEF first, second
<1>4. m[second].next \in DOMAIN m /\ size \in Nat
  BY <1>3, LinkInside DEF ListSound, Header
<1>5. SoundAfter(m1, m)
  BY <1>3, <1>4, TakenOverSound
<1>6. /\ DOMAIN m1 = DOMAIN m /\ m1[first].next = m[second].next
      /\ \A x \in DOMAIN m : m1[x].free = m[x].free /\ m1[x].previous = m[x].previous
  <2> DEFINE ms == [m EXCEPT ![first].size = size]
  <2>1. /\ DOMAIN ms = DOMAIN m /\ ms \in [DOMAIN m -> Header]
        /\ \A x \in DOMAIN m : ms[x].free = m[x].free /\ ms[x].previous = m[x].previous
    BY <1>3, <1>4 DEF ListSound, Header
  <2>2. m1 = [ms EXCEPT ![first].next = m[second].next] /\ m[second].next \in Nat
    BY <1>4 DEF ListSound
  <2> HIDE DEF ms, m1
  <2> QED
    BY <2>1, <2>2, <1>3 DEF Header
<1> HIDE DEF m1
<1>7. n \in DOMAIN m1 /\ first \in DOMAIN m1
  BY <1>3, <1>4, <1>6
<1>8. SoundAfter(m2, m1)
  BY <1>5, <1>7, BackLinkSound DEF SoundAfter
<1>9. /\ DOMAIN m2 = DOMAIN m
      /\ \A x \in DOMAIN m : m2[x].free = m[x].free /\ m2[x].next = m1[x].next
      /\ \A x \in DOMAIN m \ {n} : m2[x].previous = m[x].previous
  BY <1>5, <1>6 DEF SoundAfter, ListSound, Header
<1>10. n = m[second].next
  BY <1>6
<1> HIDE DEF m2, n
<1>11. SoundAfter(r, m2)
  BY <1>3, <1>8, <1>9, ZeroedSound DEF SoundAfter
<1>12. /\ DOMAIN r = DOMAIN m /\ r[second] = Zeroed
       /\ \A x \in DOMAIN m \ {second} : r[x] = m2[x]
  BY <1>3, <1>9
<1> HIDE DEF r
<1>13. SoundAfter(r, m)
  BY <1>5, <1>8, <1>11, SoundTransitive
<1>14. \A x \in DOMAIN m \ {second} : r[x].free = m[x].free
  BY <1>9, <1>12
<1>15. ASSUME m[second].next # first
       PROVE  /\ second # first => r[first].next = m[second].next
              /\ r[first].previous = IF a = b THEN NULL ELSE m[first].previous
  <2>1. first \in DOMAIN m /\ first # n
    BY <1>3, <1>10, <1>15
  <2>2. ASSUME second # first
        PROVE  r[first].next = m[second].next /\ r[first].previous = m[first].previous
    <3>1. r[first] = m2[first]
      BY <2>1, <2>2, <1>12
    <3>2. m2[first].next = m1[first].next /\ m2[first].previous = m[first].previous
      BY <2>1, <1>9
    <3> QED
      BY <3>1, <3>2, <1>6
  <2>3. ASSUME second = first
        PROVE  r[first].previous = NULL
    BY <2>3, <1>12 DEF Zeroed
  <2> QED
    BY <2>2, <2>3, <1>2
<1>16. FusedSound(r, m, a, b)
  BY <1>12, <1>13, <1>14, <1>15 DEF FusedSound, first, second
<1> QED
  BY <1>1, <1>16

-----------------------------------------------------------------------------
(* What each action keeps of the state                                     *)

BlockAddresses == DOMAIN mem \ System
Pointers       == {b + HDR : b \in BlockAddresses}
Calls == [op : {"none", "malloc", "free", "realloc", "realloc_again"},
          hdr : DOMAIN mem, need : Nat, at : DOMAIN mem, req : Nat]
Pcs   == {"idle", "search", "fuse_next", "fuse_prev", "panic", "fault"}

(* What every action has to show, once its memory is known to be sound.    *)
LEMMA Carried ==
  ASSUME LinksInv, SoundAfter(mem', mem),
         given' \subseteq given \cup Pointers,
         owned' \in [DOMAIN owned' -> Nat], DOMAIN owned' \subseteq given',
         pc' \in Pcs, call' \in Calls', CallSound'
  PROVE  LinksInv'
<1>1. DOMAIN mem \subseteq DOMAIN mem'
  BY DEF SoundAfter
<1>2. given' \subseteq {b + HDR : b \in DOMAIN mem' \ System}
  BY <1>1 DEF LinksInv, Pointers, BlockAddresses
<1>3. System' = System
  BY DEF System, PageTableHeaders
<1>4. TypeOK'
  <2>1. given' \subseteq {b + HDR : b \in DOMAIN mem'}
    BY <1>2
  <2> QED
    BY <2>1 DEF TypeOK, SoundAfter, ListSound, Calls, Pcs, System
<1>5. ListSound(mem')
  BY DEF SoundAfter
<1> QED
  BY <1>2, <1>3, <1>4, <1>5 DEF LinksInv, ListSound

(* a call that hands out nothing and moves nothing keeps the client's view *)
LEMMA Unmoved ==
  ASSUME LinksInv, UNCHANGED <<owned, given>>
  PROVE  /\ given' \subseteq given \cup Pointers
         /\ owned' \in [DOMAIN owned' -> Nat] /\ DOMAIN owned' \subseteq given'
BY DEF LinksInv, TypeOK

LEMMA Same ==
  ASSUME LinksInv, mem' = mem
  PROVE  SoundAfter(mem', mem)
BY DEF LinksInv, SoundAfter

(* a client's pointer is HDR above a block *)
LEMMA PointerOfBlock ==
  ASSUME LinksInv, NEW p \in given
  PROVE  p - HDR \in BlockAddresses /\ (p - HDR) + HDR = p
<1>1. PICK b \in BlockAddresses : p = b + HDR
  BY DEF LinksInv, BlockAddresses
<1>2. b \in Nat /\ HDR \in Nat
  BY Constants DEF BlockAddresses, LinksInv, ListSound
<1> QED
  BY <1>1, <1>2

LEMMA ReturnSound ==
  ASSUME LinksInv, SoundAfter(mem', mem), Return
  PROVE  pc' \in Pcs /\ call' \in Calls' /\ CallSound'
BY DEF Return, NoCall, Pcs, Calls, CallSound, Fusing, SoundAfter, ListSound, System

LEMMA InitLinks == Init => LinksInv
<1> SUFFICES ASSUME Init
             PROVE  LinksInv
  OBVIOUS
<1>1. /\ DOMAIN mem = {Start} \cup System
      /\ mem[NULL] = [previous |-> RootEntry, next |-> PT, size |-> NullSize, free |-> TRUE]
      /\ mem[Start] = [previous |-> NULL, next |-> NULL, size |-> HeapSize - HDR, free |-> TRUE]
      /\ \A s \in PageTableHeaders : mem[s] = PageTableBytes
      /\ mem = [x \in DOMAIN mem |-> mem[x]]
  <2> DEFINE H(a) ==
        CASE a = NULL -> [previous |-> RootEntry, next |-> PT, size |-> NullSize, free |-> TRUE]
          [] a = Start -> [previous |-> NULL, next |-> NULL, size |-> HeapSize - HDR, free |-> TRUE]
          [] OTHER -> PageTableBytes
  <2>1. mem = [a \in {NULL, Start} \cup PageTableHeaders |-> H(a)]
    BY DEF Init
  <2>2. {NULL, Start} \cup PageTableHeaders = {Start} \cup System
    BY DEF System
  <2>3. NULL # Start /\ \A s \in PageTableHeaders : s # NULL /\ s # Start
    BY Constants DEF PageTableHeaders
  <2>4. \A s \in PageTableHeaders : H(s) = PageTableBytes
    BY <2>3
  <2> HIDE DEF H
  <2>5. \A s \in PageTableHeaders : mem[s] = PageTableBytes
    BY <2>1, <2>4
  <2>6. mem[NULL] = H(NULL) /\ mem[Start] = H(Start) /\ DOMAIN mem = {Start} \cup System
        /\ mem = [x \in DOMAIN mem |-> mem[x]]
    BY <2>1, <2>2
  <2>7. /\ H(NULL) = [previous |-> RootEntry, next |-> PT, size |-> NullSize, free |-> TRUE]
        /\ H(Start) = [previous |-> NULL, next |-> NULL, size |-> HeapSize - HDR, free |-> TRUE]
    BY <2>3 DEF H
  <2> QED
    BY <2>5, <2>6, <2>7
<1>2. HeapSize - HDR \in Nat /\ NULL \in Nat /\ NULL \in System /\ Start \notin System
  BY Constants, SystemFacts DEF System
<1>3. \A x \in DOMAIN mem : mem[x] \in Header
  <2>1. mem[NULL] \in Header /\ mem[Start] \in Header
    BY <1>1, <1>2, Constants DEF Header
  <2>2. PageTableBytes \in Header
    BY Constants, <1>2 DEF Header, PageTableBytes
  <2> QED
    BY <1>1, <2>1, <2>2 DEF System
<1>4. ListSound(mem)
  BY <1>1, <1>2, <1>3, SystemFacts DEF ListSound, PageTableBytes, PageTableHeaders
<1>5. TypeOK
  BY <1>4, <1>2 DEF TypeOK, Init, ListSound, System, NoCall
<1>6. CallSound /\ given = {}
  BY DEF Init, CallSound, Fusing
<1> QED
  BY <1>4, <1>5, <1>6 DEF LinksInv

LEMMA MallocLinks ==
  ASSUME LinksInv, NEW n \in MallocSizes, CallMalloc(n)
  PROVE  LinksInv'
<1>1. n \in Nat /\ AlignedSize(n) \in Nat
  BY AlignedSizeFacts, Constants
<1>2. SoundAfter(mem', mem) /\ DOMAIN mem' = DOMAIN mem
  BY Same DEF CallMalloc
<1>3. pc' \in Pcs /\ call' \in Calls' /\ CallSound'
  BY <1>1, <1>2 DEF CallMalloc, Pcs, Calls, CallSound, Fusing, SoundAfter, ListSound, System
<1> QED
  BY <1>2, <1>3, Unmoved, Carried DEF CallMalloc

LEMMA FreeLinks ==
  ASSUME LinksInv, NEW p \in given, CallFree(p)
  PROVE  LinksInv'
<1> DEFINE a == p - HDR
<1>1. a \in BlockAddresses
  BY PointerOfBlock
<1>2. /\ given' \subseteq given \cup Pointers
      /\ owned' \in [DOMAIN owned' -> Nat] /\ DOMAIN owned' \subseteq given'
  BY DEF LinksInv, TypeOK, CallFree
<1>3. CASE mem[a].free
  <2>1. UNCHANGED <<mem, call>> /\ pc' = "panic"
    BY <1>3 DEF CallFree
  <2>2. SoundAfter(mem', mem)
    BY <2>1, Same
  <2>3. pc' \in Pcs /\ call' \in Calls' /\ CallSound'
    BY <2>1 DEF LinksInv, TypeOK, Pcs, Calls, CallSound, Fusing
  <2> QED
    BY <1>2, <2>2, <2>3, Carried
<1>4. CASE ~mem[a].free
  <2>1. /\ mem' = [mem EXCEPT ![a].free = TRUE] /\ pc' = "fuse_next"
        /\ call' = [NoCall EXCEPT !.op = "free", !.hdr = a]
    BY <1>4 DEF CallFree
  <2>2. SoundAfter(mem', mem) /\ DOMAIN mem' = DOMAIN mem /\ mem'[a].free
    BY <1>1, <2>1, FlagSetSound DEF LinksInv, BlockAddresses, ListSound, Header
  <2>3. pc' \in Pcs /\ call' \in Calls' /\ CallSound'
    BY <1>1, <2>1, <2>2 DEF NoCall, Pcs, Calls, CallSound, Fusing, SoundAfter, ListSound,
       System, BlockAddresses
  <2> QED
    BY <1>2, <2>2, <2>3, Carried
<1> QED
  BY <1>3, <1>4

(* space for the bytes of an owned pointer: its entry in owned is added    *)
LEMMA HandKeepsType ==
  ASSUME LinksInv, NEW p \in given \cup Pointers, NEW n \in Nat, Hand(p, n)
  PROVE  /\ given' \subseteq given \cup Pointers
         /\ owned' \in [DOMAIN owned' -> Nat] /\ DOMAIN owned' \subseteq given'
BY DEF LinksInv, TypeOK, Hand

LEMMA ReallocInPlaceLinks ==
  ASSUME LinksInv, NEW p \in DOMAIN owned, NEW n \in ReallocSizes, CallReallocInPlace(p, n)
  PROVE  LinksInv'
<1> DEFINE a == p - HDR
           size == n + HDR
<1>1. a \in BlockAddresses /\ p \in given
  BY PointerOfBlock DEF LinksInv, TypeOK
<1>2. size \in Nat /\ n \in Nat /\ size <= mem[a].size
  BY Constants DEF CallReallocInPlace
<1>3. mem' \in {mem, InsertNewBlock(mem, a, size)}
  BY DEF CallReallocInPlace
<1>4. SoundAfter(mem', mem)
  BY <1>1, <1>2, <1>3, Same, InsertSound DEF LinksInv, BlockAddresses
<1>5. pc' = "idle" /\ call' = call
  BY DEF CallReallocInPlace
<1>6. pc' \in Pcs /\ call' \in Calls' /\ CallSound'
  BY <1>4, <1>5 DEF LinksInv, TypeOK, Pcs, Calls, CallSound, Fusing, SoundAfter
<1> QED
  BY <1>1, <1>2, <1>4, <1>6, HandKeepsType, Carried DEF CallReallocInPlace

LEMMA ReallocMoveLinks ==
  ASSUME LinksInv, NEW p \in DOMAIN owned, NEW n \in ReallocSizes, CallReallocMove(p, n)
  PROVE  LinksInv'
<1>1. p - HDR \in BlockAddresses
  BY PointerOfBlock DEF LinksInv, TypeOK
<1>2. n \in Nat /\ n + HDR \in Nat
  BY Constants
<1>3. SoundAfter(mem', mem) /\ mem' = mem
  BY Same DEF CallReallocMove
<1>4. pc' \in Pcs /\ call' \in Calls' /\ CallSound'
  BY <1>1, <1>2, <1>3 DEF CallReallocMove, Pcs, Calls, CallSound, Fusing, SoundAfter, ListSound,
     BlockAddresses
<1> QED
  BY <1>3, <1>4, Unmoved, Carried DEF CallReallocMove

(* the header the search is at, once it fits: a block, not address 0 *)
LEMMA FoundIsBlock ==
  ASSUME LinksInv, pc = "search", Found
  PROVE  /\ call.at \in BlockAddresses /\ call.at + HDR \in Pointers
         /\ call.need \in Nat /\ call.req \in Nat /\ call.need <= mem[call.at].size
BY DEF LinksInv, TypeOK, ListSound, Found, Fits, BlockAddresses, Pointers, System

LEMMA SearchNextLinks ==
  ASSUME LinksInv, SearchNext
  PROVE  LinksInv'
<1> DEFINE next == mem[call.at].next
<1>1. call.at \in DOMAIN mem /\ ListSound(mem)
  BY DEF LinksInv, TypeOK
<1>2. next \in DOMAIN mem
  BY <1>1, SystemFacts DEF SearchNext, ListSound, System
<1>3. SoundAfter(mem', mem) /\ DOMAIN mem' = DOMAIN mem
  <2>1. mem' \in {mem, [mem EXCEPT ![NULL].next = PTA]}
    BY DEF SearchNext
  <2> QED
    BY <2>1, <1>1, Same, EntryMovedSound DEF PageTableHeaders
<1>4. call' = [call EXCEPT !.at = next] /\ pc' = "search" /\ pc = "search"
  BY DEF SearchNext
<1>5. pc' \in Pcs /\ call' \in Calls' /\ CallSound'
  BY <1>2, <1>3, <1>4 DEF LinksInv, TypeOK, Pcs, Calls, CallSound, Fusing
<1> QED
  BY <1>3, <1>5, Unmoved, Carried DEF SearchNext

LEMMA SearchFailLinks ==
  ASSUME LinksInv, SearchFail
  PROVE  LinksInv'
BY Same, ReturnSound, Unmoved, Carried DEF SearchFail

LEMMA FinishMallocLinks ==
  ASSUME LinksInv, FinishMalloc
  PROVE  LinksInv'
<1>1. /\ call.at \in BlockAddresses /\ call.at + HDR \in Pointers
      /\ call.need \in Nat /\ call.req \in Nat /\ call.need <= mem[call.at].size
  BY FoundIsBlock DEF FinishMalloc
<1>2. SoundAfter(mem', mem)
  BY <1>1, AllocateSound DEF FinishMalloc, LinksInv, BlockAddresses
<1>3. pc' \in Pcs /\ call' \in Calls' /\ CallSound'
  BY <1>2, ReturnSound DEF FinishMalloc
<1> QED
  BY <1>1, <1>2, <1>3, HandKeepsType, Carried DEF FinishMalloc

LEMMA MoveContentLinks ==
  ASSUME LinksInv, MoveContent
  PROVE  LinksInv'
<1>1. call.at \in BlockAddresses /\ call.hdr \in BlockAddresses
  BY FoundIsBlock DEF MoveContent, LinksInv, CallSound, BlockAddresses
<1>2. SoundAfter(mem', mem) /\ DOMAIN mem' = DOMAIN mem /\ mem'[call.hdr].free
  BY <1>1, FlagSetSound DEF LinksInv, BlockAddresses, ListSound, Header, MoveContent
<1>3. pc' \in Pcs /\ call' \in Calls' /\ CallSound'
  BY <1>1, <1>2 DEF LinksInv, TypeOK, Pcs, Calls, CallSound, Fusing, MoveContent, BlockAddresses
<1> QED
  BY <1>2, <1>3, Unmoved, Carried DEF MoveContent

(* the neighbour a turn fuses with: free, so not in the page table, and    *)
(* the "block" at address 0 if the block itself was zeroed before          *)
LEMMA NeighbourFacts ==
  ASSUME LinksInv, FuseNext \/ FusePrevious
  PROVE  \E b \in DOMAIN mem \ PageTableHeaders :
           /\ mem[b].free /\ mem' = FuseBlocks(mem, call.hdr, b)
           /\ mem[call.hdr].free \/ (b = NULL /\ mem[call.hdr].previous = NULL)
           /\ call.hdr \in BlockAddresses /\ Fusing
<1>1. call.hdr \in BlockAddresses /\ Fusing /\ ListSound(mem)
  BY DEF LinksInv, CallSound, FuseNext, FusePrevious, Fusing, BlockAddresses
<1>2. mem[call.hdr].next \in DOMAIN mem /\ mem[call.hdr].previous \in DOMAIN mem
  BY <1>1 DEF ListSound, BlockAddresses
<1>3. \A s \in PageTableHeaders : ~mem[s].free
  BY <1>1 DEF ListSound
<1>4. mem[call.hdr].free \/ (mem[call.hdr].next \in System /\ mem[call.hdr].previous = NULL)
  BY <1>1 DEF LinksInv, CallSound
<1>5. CASE FuseNext
  <2> DEFINE b == mem[call.hdr].next
  <2>1. mem[b].free /\ mem' = FuseBlocks(mem, call.hdr, b)
    BY <1>5 DEF FuseNext, NextIsFree
  <2>2. b \in DOMAIN mem \ PageTableHeaders
    BY <2>1, <1>2, <1>3
  <2> QED
    BY <2>1, <2>2, <1>1, <1>4 DEF System
<1>6. CASE FusePrevious
  <2> DEFINE b == mem[call.hdr].previous
  <2>1. mem[b].free /\ mem' = FuseBlocks(mem, call.hdr, b)
    BY <1>6 DEF FusePrevious, PreviousIsFree
  <2>2. b \in DOMAIN mem \ PageTableHeaders
    BY <2>1, <1>2, <1>3
  <2> QED
    BY <2>1, <2>2, <1>1, <1>4
<1> QED
  BY <1>5, <1>6

LEMMA FuseLinks ==
  ASSUME LinksInv, FuseNext \/ FusePrevious
  PROVE  LinksInv'
<1> DEFINE a == call.hdr
<1>1. PICK b \in DOMAIN mem \ PageTableHeaders :
        /\ mem[b].free /\ mem' = FuseBlocks(mem, a, b)
        /\ mem[a].free \/ (b = NULL /\ mem[a].previous = NULL)
        /\ a \in BlockAddresses /\ Fusing
  BY NeighbourFacts
<1>2. FusedSound(mem', mem, a, b)
  BY <1>1, FuseSound DEF LinksInv, BlockAddresses
<1>3. mem'[a].free \/ (mem'[a].next \in System /\ mem'[a].previous = NULL)
  <2>1. CASE Lower(a, b) = a
    BY <2>1, <1>2 DEF FusedSound, Zeroed, System
  <2>2. CASE mem[a].free /\ Lower(a, b) # a
    BY <2>2, <1>1, <1>2 DEF FusedSound, BlockAddresses
  <2>3. CASE ~mem[a].free /\ Lower(a, b) # a
    <3>1. b = NULL /\ a # NULL /\ Lower(a, b) = NULL /\ Higher(a, b) = a
      BY <2>3, <1>1 DEF Lower, Higher, BlockAddresses, System
    <3>2. mem[NULL].next \in System /\ mem[NULL].next # a
      BY <1>1 DEF LinksInv, ListSound, BlockAddresses
    <3> QED
      BY <2>3, <3>1, <3>2, <1>1, <1>2 DEF FusedSound
  <2> QED
    BY <2>1, <2>2, <2>3
<1>4. SoundAfter(mem', mem) /\ DOMAIN mem' = DOMAIN mem
  BY <1>2 DEF FusedSound
<1>5. UNCHANGED <<owned, given, pc, call>>
  BY DEF FuseNext, FusePrevious
<1>6. pc' \in Pcs /\ call' \in Calls' /\ CallSound'
  BY <1>3, <1>4, <1>5 DEF LinksInv, TypeOK, Pcs, Calls, CallSound, Fusing
<1> QED
  BY <1>4, <1>5, <1>6, Unmoved, Carried

LEMMA FuseNextDoneLinks ==
  ASSUME LinksInv, FuseNextDone
  PROVE  LinksInv'
<1>1. SoundAfter(mem', mem) /\ UNCHANGED <<mem, owned, given, call>> /\ pc' = "fuse_prev" /\ Fusing
  BY Same DEF FuseNextDone, Fusing
<1>2. pc' \in Pcs /\ call' \in Calls' /\ CallSound'
  BY <1>1 DEF LinksInv, TypeOK, Pcs, Calls, CallSound, Fusing
<1> QED
  BY <1>1, <1>2, Unmoved, Carried

LEMMA FreeReturnsLinks ==
  ASSUME LinksInv, FreeReturns
  PROVE  LinksInv'
BY Same, ReturnSound, Unmoved, Carried DEF FreeReturns

LEMMA DeleteAgainLinks ==
  ASSUME LinksInv, DeleteAgain
  PROVE  LinksInv'
<1>1. call.at \in BlockAddresses /\ call.hdr \in BlockAddresses /\ call.op = "realloc"
  BY DEF DeleteAgain, LinksInv, CallSound, Fusing, BlockAddresses
<1>2. SoundAfter(mem', mem) /\ DOMAIN mem' = DOMAIN mem /\ mem'[call.hdr].free
  BY <1>1, FlagSetSound DEF LinksInv, BlockAddresses, ListSound, Header, DeleteAgain
<1>3. pc' = "fuse_next" /\ call' = [call EXCEPT !.op = "realloc_again"]
  BY DEF DeleteAgain
<1>4. pc' \in Pcs /\ call' \in Calls' /\ CallSound'
  BY <1>1, <1>2, <1>3 DEF LinksInv, TypeOK, Pcs, Calls, CallSound, Fusing, BlockAddresses
<1> QED
  BY <1>2, <1>4, Unmoved, Carried DEF DeleteAgain

LEMMA ReallocReturnsLinks ==
  ASSUME LinksInv, ReallocReturns
  PROVE  LinksInv'
<1>1. call.at + HDR \in Pointers /\ call.req \in Nat
  BY DEF ReallocReturns, LinksInv, TypeOK, CallSound, Fusing, BlockAddresses, Pointers
<1>2. SoundAfter(mem', mem) /\ pc' \in Pcs /\ call' \in Calls' /\ CallSound'
  BY Same, ReturnSound DEF ReallocReturns
<1>3. /\ given' \subseteq given \cup Pointers
      /\ owned' \in [DOMAIN owned' -> Nat] /\ DOMAIN owned' \subseteq given'
  BY <1>1 DEF LinksInv, TypeOK, ReallocReturns
<1> QED
  BY <1>2, <1>3, Carried

LEMMA PageFaultLinks ==
  ASSUME LinksInv, PageFault
  PROVE  LinksInv'
<1>1. SoundAfter(mem', mem) /\ UNCHANGED <<mem, owned, given, call>> /\ pc' = "fault"
  BY Same DEF PageFault
<1>2. pc' \in Pcs /\ call' \in Calls' /\ CallSound'
  BY <1>1 DEF LinksInv, TypeOK, Pcs, Calls, CallSound, Fusing
<1> QED
  BY <1>1, <1>2, Unmoved, Carried

LEMMA StutterLinks ==
  ASSUME LinksInv, UNCHANGED vars
  PROVE  LinksInv'
<1>1. SoundAfter(mem', mem) /\ UNCHANGED <<mem, owned, given, pc, call>>
  BY Same DEF vars
<1>2. pc' \in Pcs /\ call' \in Calls' /\ CallSound'
  BY <1>1 DEF LinksInv, TypeOK, Pcs, Calls, CallSound, Fusing
<1> QED
  BY <1>1, <1>2, Unmoved, Carried

-----------------------------------------------------------------------------
(* No header lies over another one or in a client's bytes                  *)

(* the header at a is clear of that at b, and p's n bytes of the one at a *)
Clear(a, b)   == a + HDR <= b
Off(p, n, a)  == a + HDR <= p \/ p + n <= a

LEMMA ApartKept ==
  ASSUME HeadersApart, DOMAIN mem' = DOMAIN mem, DOMAIN owned' \subseteq DOMAIN owned,
         \A p \in DOMAIN owned' : owned'[p] = owned[p]
  PROVE  HeadersApart'
BY DEF HeadersApart

LEMMA InitApart == Init => HeadersApart
<1> SUFFICES ASSUME Init
             PROVE  HeadersApart
  OBVIOUS
<1>1. DOMAIN mem = {NULL, Start, PT, PTA, PTD} /\ DOMAIN owned = {}
  BY DEF Init, PageTableHeaders
<1> QED
  BY <1>1, Constants, SystemApart DEF HeadersApart

(* while the list is sound, headers lie in blocks or below them *)
LEMMA HeaderPlaces ==
  ASSUME LinksInv, Sound
  PROVE  /\ \A x \in DOMAIN mem : x \in Blocks \/ (x \in Nat /\ x + HDR <= Start)
         /\ \A p \in DOMAIN owned : /\ p \in Nat /\ owned[p] \in Nat
                                    /\ p - HDR \in Blocks
                                    /\ p + owned[p] <= BlockEnd(p - HDR)
<1>1. \A x \in DOMAIN mem : x \in Blocks \/ (x \in Nat /\ x + HDR <= Start)
  BY Constants, SystemApart DEF Blocks, PageTableHeaders, LinksInv, TypeOK
<1>2. ASSUME NEW p \in DOMAIN owned
      PROVE  p \in Nat /\ owned[p] \in Nat /\ p - HDR \in Blocks
             /\ p + owned[p] <= BlockEnd(p - HDR)
  <2>1. p \in given /\ owned[p] \in Nat
    BY DEF LinksInv, TypeOK
  <2>2. p \in Nat
    BY <2>1, Constants DEF LinksInv, TypeOK
  <2>3. p - HDR \in Blocks /\ HDR + owned[p] <= mem[p - HDR].size
    BY DEF Sound, FlagsMatchOwners
  <2>4. mem[p - HDR].size \in Nat /\ BlockEnd(p - HDR) = (p - HDR) + mem[p - HDR].size
    BY <2>3, BlockFacts DEF LinksInv, Sound
  <2> QED
    BY <2>1, <2>2, <2>3, <2>4, Constants
<1> QED
  BY <1>1, <1>2

(* What is known of the place a split puts its header: at the next block   *)
(* or within the one that is split, a header before its end.               *)
LEMMA NewPlace ==
  ASSUME LinksInv, Sound, NEW a \in Blocks, NEW size \in Nat, HDR <= size,
         mem[a].size = size \/ size + HDR <= mem[a].size
  PROVE  /\ a + size \in Nat /\ Start + HDR <= a + size
         /\ \A b \in Blocks : b # a + size => Clear(b, a + size) \/ Clear(a + size, b)
         /\ \A b \in Blocks : b # a => BlockEnd(b) <= a + size \/ a + size <= b
<1> USE DEF Clear
<1>1. /\ a \in Nat /\ Start <= a /\ mem[a].size \in Nat /\ size <= mem[a].size
      /\ BlockEnd(a) = a + mem[a].size
  BY BlockFacts, Constants DEF LinksInv, Sound
<1>2. ASSUME NEW b \in Blocks, b # a
      PROVE  BlockEnd(b) <= a + size \/ a + size <= b
  <2>1. b \in Nat /\ BlockEnd(b) \in Nat /\ (b < a => BlockEnd(b) <= a) /\ (a < b => BlockEnd(a) <= b)
    BY BlockFacts DEF LinksInv, Sound
  <2> QED
    BY <1>1, <1>2, <2>1, Constants
<1>3. ASSUME NEW b \in Blocks, b # a + size
      PROVE  b + HDR <= a + size \/ a + size + HDR <= b
  <2>1. /\ b \in Nat /\ BlockEnd(b) = b + mem[b].size /\ mem[b].size \in Nat
        /\ HDR <= mem[b].size /\ BlockEnd(b) <= TileEnd /\ TileEnd \in Nat
        /\ (a < b => BlockEnd(a) <= b) /\ (b < a => BlockEnd(b) <= a)
    BY BlockFacts DEF LinksInv, Sound, ListTiles
  <2>2. CASE b <= a
    BY <2>2, <1>1, <2>1, Constants
  <2>3. CASE a < b /\ size + HDR <= mem[a].size
    BY <2>3, <1>1, <2>1, Constants
  <2>4. CASE a < b /\ mem[a].size = size
    <3>1. BlockEnd(a) # TileEnd
      BY <2>1, <2>4, <1>1, Constants
    <3>2. BlockEnd(a) \in Blocks
      BY <3>1 DEF Sound, ListTiles
    <3>3. mem[a + size].size \in Nat /\ HDR <= mem[a + size].size
          /\ BlockEnd(a + size) = a + size + mem[a + size].size
      BY <3>2, <2>4, <1>1, BlockFacts DEF LinksInv, Sound
    <3>4. a + size < b
      BY <1>3, <2>1, <2>4, <1>1
    <3>5. BlockEnd(a + size) <= b
      BY <3>2, <3>4, <2>4, <1>1, BlockFacts DEF LinksInv, Sound
    <3> QED
      BY <3>3, <3>5, <2>1, <1>1, Constants
  <2> QED
    BY <2>1, <1>1, <2>2, <2>3, <2>4
<1> QED
  BY <1>1, <1>2, <1>3, Constants

(* A split of a block of a sound list whose owner gets what is left of it. *)
LEMMA SplitApart ==
  ASSUME LinksInv, HeadersApart, Sound, NEW a \in Blocks, NEW size \in Nat, NEW n \in Nat,
         n + HDR <= size, mem[a].size = size \/ size + HDR <= mem[a].size,
         DOMAIN mem' \subseteq DOMAIN mem \cup {a + size},
         Hand(a + HDR, n)
  PROVE  HeadersApart'
<1> DEFINE new == a + size
<1>1. /\ new \in Nat /\ Start + HDR <= new
      /\ \A b \in Blocks : b # new => Clear(b, new) \/ Clear(new, b)
      /\ \A b \in Blocks : b # a => BlockEnd(b) <= new \/ new <= b
  BY NewPlace, Constants
<1>2. /\ a \in Nat /\ Start <= a /\ mem[a].size \in Nat /\ size <= mem[a].size
      /\ BlockEnd(a) = a + mem[a].size
  BY BlockFacts, Constants DEF LinksInv, Sound
<1>3. \A x \in DOMAIN mem : x # new => Clear(x, new) \/ Clear(new, x)
  BY <1>1, HeaderPlaces, Constants DEF Clear
<1>4. \A x, y \in DOMAIN mem' : x < y => x + HDR <= y
  <2> SUFFICES ASSUME NEW x \in DOMAIN mem', NEW y \in DOMAIN mem', x < y
               PROVE  x + HDR <= y
    OBVIOUS
  <2>1. x \in DOMAIN mem \cup {new} /\ y \in DOMAIN mem \cup {new}
    OBVIOUS
  <2>2. x \in Nat /\ y \in Nat
    BY <2>1, <1>1 DEF LinksInv, TypeOK
  <2>3. CASE x \in DOMAIN mem /\ y \in DOMAIN mem
    BY <2>3 DEF HeadersApart
  <2>4. CASE x = new \/ y = new
    BY <2>1, <2>2, <2>4, <1>1, <1>3, Constants DEF Clear
  <2> QED
    BY <2>1, <2>3, <2>4
<1>5. ASSUME NEW p \in DOMAIN owned', NEW x \in DOMAIN mem'
      PROVE  x + HDR <= p \/ p + owned'[p] <= x
  <2>1. x \in DOMAIN mem \cup {new} /\ x \in Nat
    BY <1>1 DEF LinksInv, TypeOK
  <2>2. CASE p = a + HDR
    <3>1. owned'[p] = n
      BY <2>2 DEF Hand
    <3>2. CASE x = new
      BY <3>1, <3>2, <2>2, <1>2, Constants
    <3>3. CASE x \in Blocks
      <4>1. x <= a \/ BlockEnd(a) <= x
        BY <3>3, <2>1, <1>2, BlockFacts DEF LinksInv, Sound
      <4> QED
        BY <4>1, <3>1, <2>1, <2>2, <1>2, Constants
    <3>4. CASE x + HDR <= Start
      BY <3>4, <2>1, <2>2, <1>2, Constants
    <3> QED
      BY <2>1, <3>2, <3>3, <3>4, HeaderPlaces
  <2>3. CASE p # a + HDR
    <3>1. p \in DOMAIN owned /\ owned'[p] = owned[p]
      BY <2>3 DEF Hand
    <3>2. CASE x \in DOMAIN mem
      BY <3>1, <3>2 DEF HeadersApart
    <3>3. CASE x = new
      <4>1. /\ p \in Nat /\ owned[p] \in Nat /\ p - HDR \in Blocks
            /\ p + owned[p] <= BlockEnd(p - HDR) /\ BlockEnd(p - HDR) \in Nat
        BY <3>1, HeaderPlaces, BlockFacts DEF LinksInv, Sound
      <4>2. p - HDR # a
        BY <4>1, <2>3, <1>2, Constants
      <4>3. BlockEnd(p - HDR) <= new \/ new <= p - HDR
        BY <4>1, <4>2, <1>1
      <4>4. CASE new = p - HDR
        BY <3>1, <3>3, <4>1, <4>4, Constants
      <4>5. CASE new # p - HDR
        <5>1. Clear(p - HDR, new) \/ Clear(new, p - HDR)
          BY <4>1, <4>5, <1>1
        <5> QED
          BY <5>1, <4>1, <4>3, <3>1, <3>3, <1>1, Constants DEF Clear
      <4> QED
        BY <4>4, <4>5
    <3> QED
      BY <2>1, <3>2, <3>3
  <2> QED
    BY <2>2, <2>3
<1> QED
  BY <1>4, <1>5 DEF HeadersApart

(* insert_new_block() writes one header where there was none, at most *)
LEMMA InsertedHeaders ==
  ASSUME NEW m, ListSound(m), NEW a \in DOMAIN m \ System,
         NEW size \in Nat, size <= m[a].size
  PROVE  DOMAIN InsertNewBlock(m, a, size) \subseteq DOMAIN m \cup {a + size}
<1> DEFINE new == a + size
           m1 == AddHeader(m, a, size)
           m2 == MergeFollower(m1, new)
           m3 == LinkBack(m2, new)
<1>1. DOMAIN m1 = DOMAIN m \cup {new}
  BY DEF AddHeader, Put
<1>2. ListSound(m1) /\ new \in DOMAIN m1 \ System
  BY AddHeaderSound DEF SoundAfter
<1> HIDE DEF m1
<1>3. DOMAIN m2 \subseteq DOMAIN m1
  <2>1. CASE ~m1[m1[new].next].free
    BY <2>1 DEF MergeFollower
  <2>2. CASE m1[m1[new].next].free
    <3>1. m1[new].next \in DOMAIN m1 /\ m1[new].next \notin PageTableHeaders
      BY <1>2, <2>2 DEF ListSound
    <3>2. m1[m1[new].next].next \in DOMAIN m1
      BY <3>1, <1>2, LinkInside
    <3> QED
      BY <2>2, <3>2 DEF MergeFollower, SetDirty, Put
  <2> QED
    BY <2>1, <2>2
<1> HIDE DEF m2
<1>4. DOMAIN m3 = DOMAIN m2
  BY DEF LinkBack
<1> HIDE DEF m3
<1>5. InsertNewBlock(m, a, size) = [m3 EXCEPT ![a].size = size, ![a].next = new]
  BY DEF InsertNewBlock, m3, m2, m1
<1> QED
  BY <1>1, <1>3, <1>4, <1>5

LEMMA AllocatedHeaders ==
  ASSUME NEW m, ListSound(m), NEW a \in DOMAIN m \ System,
         NEW size \in Nat, size <= m[a].size
  PROVE  DOMAIN AllocateBlock(m, a, size) \subseteq DOMAIN m \cup {a + size}
<1> DEFINE taken == [m EXCEPT ![a].free = FALSE]
<1>1. SoundAfter(taken, m)
  BY FlagSetSound
<1>2. DOMAIN taken = DOMAIN m /\ taken[a].size = m[a].size
  BY DEF ListSound, Header
<1>3. AllocateBlock(m, a, size) \in {taken, InsertNewBlock(taken, a, size)}
  BY DEF AllocateBlock
<1> HIDE DEF taken
<1>4. DOMAIN InsertNewBlock(taken, a, size) \subseteq DOMAIN taken \cup {a + size}
  BY <1>1, <1>2, InsertedHeaders DEF SoundAfter
<1> QED
  BY <1>2, <1>3, <1>4

(* what the walk reads leaves a sound list sound *)
LEMMA BlocksKept ==
  ASSUME LinksInv, Sound, DOMAIN mem' = DOMAIN mem, \A b \in Blocks : mem'[b] = mem[b],
         UNCHANGED owned
  PROVE  Sound' /\ Blocks' = Blocks
<1>1. Blocks' = Blocks
  BY DEF Blocks, PageTableHeaders
<1>2. Start \in Blocks /\ Fresh' = Fresh
  BY DEF Sound, ListTiles, Fresh, Start
<1>3. ListTiles'
  BY <1>1, <1>2 DEF Sound, ListTiles, BlockEnd, TileEnd, EndLinks
<1>4. FlagsMatchOwners'
  BY <1>1 DEF Sound, FlagsMatchOwners
<1> QED
  BY <1>1, <1>3, <1>4 DEF Sound

(* what LastCallInv says of the call, by itself *)
Started ==
  /\ pc = "search" =>
       /\ Sound
       /\ call.req + HDR <= call.need
       /\ call.op = "malloc" => NoPartialFit(call.need)
  /\ Fusing /\ call.op # "free" => CopyTargetApart

LEMMA InvParts == LastCallInv <=> LinksInv /\ HeadersApart /\ Started
BY DEF LastCallInv, Started

LEMMA CallStarted ==
  ASSUME LastCallInv, Sound, AnyCall
  PROVE  LastCallInv'
<1>1. ASSUME NEW n \in MallocSizes, NoPartialFit(AlignedSize(n)), CallMalloc(n)
      PROVE  LastCallInv'
  <2>1. LinksInv' /\ HeadersApart'
    BY <1>1, MallocLinks, ApartKept DEF LastCallInv, CallMalloc
  <2>2. /\ pc' = "search" /\ call'.op = "malloc" /\ call'.need = AlignedSize(n) /\ call'.req = n
        /\ UNCHANGED <<mem, owned>>
    BY <1>1 DEF CallMalloc
  <2>3. n + HDR <= AlignedSize(n)
    BY AlignedSizeFacts, Constants
  <2>4. Sound' /\ Blocks' = Blocks
    BY <2>2, BlocksKept DEF LastCallInv
  <2>5. NoPartialFit(AlignedSize(n))'
    BY <1>1, <2>2, <2>4 DEF NoPartialFit, AlignedSize
  <2> QED
    BY <2>1, <2>2, <2>3, <2>4, <2>5 DEF LastCallInv, Fusing, NoPartialFit
<1>2. ASSUME NEW p \in given, CallFree(p)
      PROVE  LastCallInv'
  <2>1. LinksInv'
    BY <1>2, FreeLinks DEF LastCallInv
  <2>2. HeadersApart'
    BY <1>2, ApartKept DEF LastCallInv, CallFree
  <2>3. Started'
    <3>1. CASE mem[p - HDR].free
      BY <3>1, <1>2 DEF CallFree, Started, Fusing
    <3>2. CASE ~mem[p - HDR].free
      BY <3>2, <1>2 DEF CallFree, Started, NoCall
    <3> QED
      BY <3>1, <3>2
  <2> QED
    BY <2>1, <2>2, <2>3 DEF LastCallInv, Started
<1>3. ASSUME NEW p \in DOMAIN owned, NEW n \in ReallocSizes,
             NoPartialFit(n + HDR), CallReallocInPlace(p, n)
      PROVE  LastCallInv'
  <2> DEFINE a == p - HDR
             size == n + HDR
  <2>1. LinksInv'
    BY <1>3, ReallocInPlaceLinks DEF LastCallInv
  <2>2. a \in Blocks /\ a + HDR = p /\ p \in Nat
    BY HeaderPlaces, Constants DEF LastCallInv
  <2>3. n \in Nat /\ size \in Nat /\ n + HDR <= size /\ size <= mem[a].size
    BY <1>3, Constants DEF CallReallocInPlace
  <2>4. mem[a].size = size \/ size + HDR <= mem[a].size
    BY <1>3, <2>2, <2>3 DEF NoPartialFit
  <2>5. mem' \in {mem, InsertNewBlock(mem, a, size)} /\ Hand(p, n) /\ pc' = "idle"
    BY <1>3 DEF CallReallocInPlace
  <2>6. a \in DOMAIN mem \ System /\ ListSound(mem)
    BY <2>2 DEF Blocks, System, LastCallInv, LinksInv
  <2>7. DOMAIN mem' \subseteq DOMAIN mem \cup {a + size}
    BY <2>3, <2>5, <2>6, InsertedHeaders
  <2>8. Hand(a + HDR, n)
    BY <2>2, <2>5
  <2> HIDE DEF a, size
  <2>9. HeadersApart'
    BY <2>2, <2>3, <2>4, <2>7, <2>8, SplitApart DEF LastCallInv
  <2> QED
    BY <2>1, <2>5, <2>9 DEF LastCallInv, Fusing
<1>4. ASSUME NEW p \in DOMAIN owned, NEW n \in ReallocSizes, CallReallocMove(p, n)
      PROVE  LastCallInv'
  <2>1. LinksInv' /\ HeadersApart'
    BY <1>4, ReallocMoveLinks, ApartKept DEF LastCallInv, CallReallocMove
  <2>2. /\ pc' = "search" /\ call'.op = "realloc" /\ call'.need = n + HDR /\ call'.req = n
        /\ UNCHANGED <<mem, owned>>
    BY <1>4 DEF CallReallocMove
  <2>3. Sound'
    BY <2>2, BlocksKept DEF LastCallInv
  <2>4. n \in Nat
    BY Constants
  <2> QED
    BY <2>1, <2>2, <2>3, <2>4, Constants DEF LastCallInv, Fusing
<1> QED
  BY <1>1, <1>2, <1>3, <1>4 DEF AnyCall

LEMMA SearchStarted ==
  ASSUME LastCallInv, Search
  PROVE  LastCallInv'
<1>1. CASE SearchNext
  <2>1. LinksInv'
    BY <1>1, SearchNextLinks DEF LastCallInv
  <2>2. mem' \in {mem, [mem EXCEPT ![NULL].next = PTA]} /\ UNCHANGED <<owned, given>>
    BY <1>1 DEF SearchNext
  <2>3. DOMAIN mem' = DOMAIN mem /\ \A b \in Blocks : mem'[b] = mem[b]
    BY <2>2 DEF Blocks
  <2>4. pc = "search" /\ pc' = "search" /\ Sound
    BY <1>1 DEF SearchNext, LastCallInv
  <2>5. HeadersApart'
    BY <2>2, <2>3, ApartKept DEF LastCallInv
  <2>6. Sound' /\ Blocks' = Blocks
    BY <2>2, <2>3, <2>4, BlocksKept DEF LastCallInv
  <2>7. call'.op = call.op /\ call'.need = call.need /\ call'.req = call.req
    BY <1>1 DEF SearchNext, LastCallInv, LinksInv, TypeOK
  <2>8. Started'
    BY <2>3, <2>4, <2>6, <2>7 DEF LastCallInv, Started, NoPartialFit, Fusing
  <2> QED
    BY <2>1, <2>5, <2>8 DEF LastCallInv, Started
<1>2. CASE SearchFail
  <2>1. LinksInv' /\ HeadersApart'
    BY <1>2, SearchFailLinks, ApartKept DEF LastCallInv, SearchFail
  <2> QED
    BY <1>2, <2>1 DEF LastCallInv, SearchFail, Return, Fusing
<1>3. CASE FinishMalloc
  <2> DEFINE a == call.at
             size == call.need
  <2>1. LinksInv' /\ pc' = "idle"
    BY <1>3, FinishMallocLinks DEF LastCallInv, FinishMalloc, Return
  <2>2. /\ a \in BlockAddresses /\ size \in Nat /\ call.req \in Nat /\ size <= mem[a].size
    BY <1>3, FoundIsBlock DEF FinishMalloc, LastCallInv
  <2>3. a \in Blocks /\ a \in DOMAIN mem \ System /\ ListSound(mem)
    BY <2>2 DEF BlockAddresses, Blocks, System, LastCallInv, LinksInv
  <2>4. Sound /\ call.req + HDR <= size /\ NoPartialFit(size)
    BY <1>3 DEF FinishMalloc, LastCallInv
  <2>5. mem[a].size = size \/ size + HDR <= mem[a].size
    BY <2>2, <2>3, <2>4 DEF NoPartialFit
  <2>6. mem' = AllocateBlock(mem, a, size) /\ Hand(a + HDR, call.req)
    BY <1>3 DEF FinishMalloc
  <2>7. DOMAIN mem' \subseteq DOMAIN mem \cup {a + size}
    BY <2>2, <2>3, <2>6, AllocatedHeaders
  <2> HIDE DEF a, size
  <2>8. HeadersApart'
    BY <2>2, <2>3, <2>4, <2>5, <2>6, <2>7, SplitApart DEF LastCallInv
  <2> QED
    BY <2>1, <2>8 DEF LastCallInv, Fusing
<1>4. CASE MoveContent
  <2>1. LinksInv' /\ pc' = "fuse_next"
    BY <1>4, MoveContentLinks DEF LastCallInv, MoveContent
  <2>2. DOMAIN mem' = DOMAIN mem /\ UNCHANGED <<owned, given, call>>
    BY <1>4 DEF MoveContent
  <2>3. HeadersApart'
    BY <2>2, ApartKept DEF LastCallInv
  <2>4. /\ call.at \in BlockAddresses /\ call.need \in Nat /\ call.req \in Nat
        /\ call.need <= mem[call.at].size
    BY <1>4, FoundIsBlock DEF MoveContent, LastCallInv
  <2>5. Sound /\ call.req + HDR <= call.need /\ call.at \in Blocks
    BY <1>4, <2>4 DEF MoveContent, LastCallInv, BlockAddresses, Blocks, System
  <2>6. /\ call.at \in Nat /\ Start <= call.at /\ mem[call.at].size \in Nat
        /\ BlockEnd(call.at) = call.at + mem[call.at].size
    BY <2>5, BlockFacts DEF LastCallInv, LinksInv, Sound
  <2>7. CopyTargetApart
    <3> SUFFICES ASSUME NEW x \in DOMAIN mem
                 PROVE  x <= call.at \/ call.at + HDR + call.req <= x
      BY DEF CopyTargetApart
    <3>1. CASE x \in Blocks
      <4>1. x \in Nat /\ (call.at < x => BlockEnd(call.at) <= x)
        BY <3>1, <2>5, BlockFacts DEF LastCallInv, LinksInv, Sound
      <4> QED
        BY <4>1, <2>4, <2>5, <2>6, Constants
    <3>2. CASE x \in Nat /\ x + HDR <= Start
      BY <3>2, <2>6, Constants
    <3> QED
      BY <3>1, <3>2, <2>5, HeaderPlaces DEF LastCallInv
  <2>8. CopyTargetApart'
    BY <2>2, <2>7 DEF CopyTargetApart
  <2> QED
    BY <2>1, <2>3, <2>8 DEF LastCallInv
<1> QED
  BY <1>1, <1>2, <1>3, <1>4 DEF Search

(* fuse_walkthrough() writes no header where there was none *)
LEMMA WalkthroughStarted ==
  ASSUME LastCallInv, Walkthrough
  PROVE  LastCallInv'
<1>1. CASE FuseNext \/ FusePrevious
  <2>1. PICK b \in DOMAIN mem \ PageTableHeaders :
          mem' = FuseBlocks(mem, call.hdr, b) /\ call.hdr \in BlockAddresses /\ Fusing
    BY <1>1, NeighbourFacts DEF LastCallInv
  <2>2. DOMAIN mem' = DOMAIN mem
    BY <2>1, FuseSound DEF FusedSound, LastCallInv, LinksInv, BlockAddresses
  <2>3. UNCHANGED <<owned, given, pc, call>>
    BY <1>1 DEF FuseNext, FusePrevious
  <2>4. LinksInv' /\ HeadersApart'
    BY <1>1, <2>2, <2>3, FuseLinks, ApartKept DEF LastCallInv
  <2>5. Started'
    BY <2>1, <2>2, <2>3 DEF LastCallInv, Started, Fusing, CopyTargetApart
  <2> QED
    BY <2>4, <2>5 DEF LastCallInv, Started
<1>2. CASE FuseNextDone
  <2>1. LinksInv' /\ HeadersApart'
    BY <1>2, FuseNextDoneLinks, ApartKept DEF LastCallInv, FuseNextDone
  <2> QED
    BY <1>2, <2>1 DEF LastCallInv, FuseNextDone, Fusing, CopyTargetApart
<1>3. CASE FreeReturns
  <2>1. LinksInv' /\ HeadersApart'
    BY <1>3, FreeReturnsLinks, ApartKept DEF LastCallInv, FreeReturns
  <2> QED
    BY <1>3, <2>1 DEF LastCallInv, FreeReturns, Return, Fusing
<1>4. CASE DeleteAgain
  <2>1. LinksInv' /\ HeadersApart'
    BY <1>4, DeleteAgainLinks, ApartKept DEF LastCallInv, DeleteAgain
  <2>2. CopyTargetApart /\ pc' = "fuse_next" /\ DOMAIN mem' = DOMAIN mem
    BY <1>4 DEF LastCallInv, DeleteAgain, Fusing
  <2>3. call'.at = call.at /\ call'.req = call.req
    BY <1>4 DEF DeleteAgain, LastCallInv, LinksInv, TypeOK
  <2> QED
    BY <2>1, <2>2, <2>3 DEF LastCallInv, CopyTargetApart
<1>5. CASE ReallocReturns
  <2>1. LinksInv' /\ pc' = "idle" /\ mem' = mem
    BY <1>5, ReallocReturnsLinks DEF LastCallInv, ReallocReturns, Return
  <2>2. CopyTargetApart /\ call.at \in DOMAIN mem
    BY <1>5 DEF LastCallInv, ReallocReturns, Fusing, LinksInv, TypeOK
  <2>3. ASSUME NEW p \in DOMAIN owned', NEW x \in DOMAIN mem
        PROVE  x + HDR <= p \/ p + owned'[p] <= x
    <3>1. CASE p = call.at + HDR
      <4>1. owned'[p] = call.req
        BY <1>5, <3>1 DEF ReallocReturns
      <4>2. x \in Nat /\ call.at \in Nat /\ call.req \in Nat
        BY <2>2 DEF LastCallInv, LinksInv, TypeOK
      <4>3. x <= call.at \/ call.at + HDR + call.req <= x
        BY <2>2 DEF CopyTargetApart
      <4> QED
        BY <3>1, <4>1, <4>2, <4>3, Constants
    <3>2. CASE p # call.at + HDR
      <4>1. p \in DOMAIN owned /\ owned'[p] = owned[p]
        BY <1>5, <3>2 DEF ReallocReturns
      <4> QED
        BY <4>1 DEF LastCallInv, HeadersApart
    <3> QED
      BY <3>1, <3>2
  <2>4. HeadersApart'
    BY <2>1, <2>3 DEF LastCallInv, HeadersApart
  <2> QED
    BY <2>1, <2>4 DEF LastCallInv, Fusing
<1> QED
  BY <1>1, <1>2, <1>3, <1>4, <1>5 DEF Walkthrough

LEMMA LastCallInductive == LastCallInv /\ [LastCallNext]_vars => LastCallInv'
<1> SUFFICES ASSUME LastCallInv, [LastCallNext]_vars
             PROVE  LastCallInv'
  OBVIOUS
<1>1. CASE Sound /\ AnyCall
  BY <1>1, CallStarted
<1>2. CASE Run
  BY <1>2, SearchStarted, WalkthroughStarted DEF Run
<1>3. CASE PageFault
  <2>1. LinksInv' /\ HeadersApart'
    BY <1>3, PageFaultLinks, ApartKept DEF LastCallInv, PageFault
  <2> QED
    BY <1>3, <2>1 DEF LastCallInv, PageFault, Fusing
<1>4. CASE UNCHANGED vars
  <2>1. LinksInv' /\ HeadersApart'
    BY <1>4, StutterLinks, ApartKept DEF LastCallInv, vars
  <2>2. pc = "search" => Sound' /\ Blocks' = Blocks
    BY <1>4, BlocksKept DEF LastCallInv, vars
  <2>3. Started'
    BY <1>4, <2>2 DEF vars, LastCallInv, Started, Fusing, CopyTargetApart, NoPartialFit
  <2> QED
    BY <2>1, <2>3 DEF LastCallInv, Started
<1> QED
  BY <1>1, <1>2, <1>3, <1>4 DEF LastCallNext, Halted

-----------------------------------------------------------------------------
(* Up to the end of the first call outside the discipline, whichever it    *)
(* is: every address the heap code dereferences holds a header written     *)
(* before, the call works on blocks, and its walk is one over a sound list *)
(* (malloc.c).                                                             *)
THEOREM LastCallInvariant == LastCallSpec => []LastCallInv
<1>1. Init => LastCallInv
  BY InitLinks, InitApart DEF LastCallInv, Init, Fusing
<1>2. LastCallInv /\ [LastCallNext]_vars => LastCallInv'
  BY LastCallInductive
<1> QED
  BY <1>1, <1>2, PTL DEF LastCallSpec

(* Up to there no two headers share a byte and none lies in the bytes that *)
(* clients, memset() (malloc.c:307) and memcpy() (malloc.c:272 and 331)    *)
(* write: nothing but the assignments to headers changes the list.         *)
THEOREM HeadersStayApart == LastCallSpec => []HeadersApart
<1>1. LastCallInv => HeadersApart
  BY DEF LastCallInv
<1> QED
  BY <1>1, LastCallInvariant, PTL

(* Although the page table at address 0 passes for a free block, no        *)
(* pointer behind it is ever handed out (malloc.c:269, 288 and 324 test    *)
(* for NULL).                                                              *)
THEOREM NullIsNeverHanded == LastCallSpec => []NullNeverHanded
<1>1. LastCallInv => NullNeverHanded
  <2> SUFFICES ASSUME LinksInv, NULL + HDR \in given
               PROVE  FALSE
    BY DEF NullNeverHanded, LastCallInv
  <2>1. (NULL + HDR) - HDR = NULL
    BY Constants
  <2> QED
    BY <2>1, PointerOfBlock DEF BlockAddresses, System
<1> QED
  BY <1>1, LastCallInvariant, PTL

(* In the call that breaks the list, whichever it is, each turn of         *)
(* fuse_walkthrough() zeroes a header that was free and makes no other one *)
(* free. As only headers that are there can be free, its two loops end     *)
(* after as many turns as there are free headers.                          *)
THEOREM EachTurnUsesUpAFreeHeader == LastCallSpec => TurnsUseUpFreeHeaders
<1>1. ASSUME LinksInv, FuseNext \/ FusePrevious
      PROVE  FreeHeaders' \subseteq FreeHeaders /\ FreeHeaders' # FreeHeaders
  <2> DEFINE a == call.hdr
  <2>1. PICK b \in DOMAIN mem \ PageTableHeaders :
          /\ mem[b].free /\ mem' = FuseBlocks(mem, a, b)
          /\ mem[a].free \/ (b = NULL /\ mem[a].previous = NULL)
          /\ a \in BlockAddresses /\ Fusing
    BY <1>1, NeighbourFacts
  <2>2. FusedSound(mem', mem, a, b)
    BY <1>1, <2>1, FuseSound DEF LinksInv, BlockAddresses
  <2> DEFINE zeroed == Lower(a, b)
  <2>3. zeroed \in DOMAIN mem /\ mem[zeroed].free
    BY <1>1, <2>1, Constants DEF Lower, BlockAddresses, System, LinksInv, ListSound
  <2>4. ~mem'[zeroed].free /\ DOMAIN mem' = DOMAIN mem
    BY <2>2 DEF FusedSound, Zeroed
  <2>5. \A x \in DOMAIN mem : mem'[x].free => mem[x].free
    BY <2>2, <2>3, <2>4 DEF FusedSound
  <2> QED
    BY <2>3, <2>4, <2>5 DEF FreeHeaders
<1>2. LastCallInv /\ [LastCallNext]_vars =>
        [FuseNext \/ FusePrevious => FreeHeaders' \subseteq FreeHeaders /\ FreeHeaders' # FreeHeaders]_vars
  BY <1>1 DEF LastCallInv
<1> QED
  BY <1>2, LastCallInvariant, PTL DEF LastCallSpec, TurnsUseUpFreeHeaders
=============================================================================
