----------------------------- MODULE SlabProofs -----------------------------
(***************************************************************************)
(* The slab keeps its promises in every region it fits in, for objects of  *)
(* every size.                                                             *)
(***************************************************************************)
EXTENDS Slab, TLAPS, WellFoundedInduction

-----------------------------------------------------------------------------
(* Division, as init_slab(), slab_overhead(), slab_index() and the bitmap  *)
(* use it.                                                                 *)
LEMMA DivFacts ==
  ASSUME NEW x \in Nat, NEW d \in Nat, 0 < d
  PROVE  /\ x \div d \in Nat /\ x % d = x - d * (x \div d)
         /\ d * (x \div d) <= x /\ x < d * (x \div d) + d
<1>1. x \div d \in Nat
  OBVIOUS
<1>2. x % d = x - d * (x \div d)
  OBVIOUS
<1>3. d * (x \div d) <= x
  OBVIOUS
<1>4. x < d * (x \div d) + d
  OBVIOUS
<1> QED
  BY <1>1, <1>2, <1>3, <1>4

LEMMA DivIs ==
  ASSUME NEW x \in Nat, NEW d \in Nat, 0 < d,
         NEW q \in Nat, NEW r \in Nat, x = d * q + r, r < d
  PROVE  x \div d = q /\ x % d = r
<1>1. x \div d = q
  OBVIOUS
<1>2. x % d = r
  OBVIOUS
<1> QED
  BY <1>1, <1>2

LEMMA DivMonotone ==
  ASSUME NEW x \in Nat, NEW y \in Nat, x <= y, NEW d \in Nat, 0 < d
  PROVE  x \div d <= y \div d
OBVIOUS

LEMMA DivPlusOne ==
  ASSUME NEW x \in Nat, NEW d \in Nat, 0 < d
  PROVE  (x + d) \div d = (x \div d) + 1
OBVIOUS

LEMMA DivByEight ==
  ASSUME NEW x \in Nat
  PROVE  x \div 8 \in Nat /\ x % 8 \in 0..7 /\ x = 8 * (x \div 8) + (x % 8)
<1> DEFINE q == x \div 8
           r == x % 8
<1>1. /\ q \in Nat /\ r = x - 8 * q
      /\ 8 * q <= x /\ x < 8 * q + 8
  BY DivFacts
<1> HIDE DEF q, r
<1>2. q \in Nat /\ r \in 0..7 /\ x = 8 * q + r
  BY <1>1
<1> QED
  BY <1>2 DEF q, r

(* a larger factor is a larger product *)
LEMMA TimesMonotone ==
  ASSUME NEW p \in Nat, NEW q \in Nat, p <= q, NEW d \in Nat
  PROVE  p * d \in Nat /\ q * d \in Nat /\ p * d <= q * d
OBVIOUS

LEMMA TimesPlus ==
  ASSUME NEW p \in Nat, NEW q \in Nat, NEW d \in Nat
  PROVE  (p + q) * d = p * d + q * d /\ p * d = d * p
OBVIOUS

-----------------------------------------------------------------------------
(* The objects of the slab in region r begin at r.start + Overhead(r).     *)
Overhead(r) ==
  LET overhead == HeaderSize + bitmap_size(EntriesFor(r))
  IN  overhead + (r.size - (overhead % r.size))

LEMMA BitmapSizeFacts ==
  ASSUME NEW n \in Nat
  PROVE  bitmap_size(n) \in Nat /\ n <= 8 * bitmap_size(n)
BY DEF bitmap_size

(* Header, bitmap and all objects fit the region.                          *)
LEMMA RegionFits ==
  ASSUME NEW r \in Regions
  PROVE  /\ EntriesFor(r) \in Nat /\ Overhead(r) \in Nat
         /\ HeaderSize + bitmap_size(EntriesFor(r)) <= Overhead(r)
         /\ Overhead(r) + EntriesFor(r) * r.size <= r.total
<1> DEFINE n == r.total \div r.size
           most == bitmap_size(n) + HeaderSize
           entries == EntriesFor(r)
           ov == HeaderSize + bitmap_size(entries)
           d == r.size
<1>1. /\ d \in Nat /\ 0 < d /\ r.total \in Nat /\ HeaderSize \in Nat
      /\ entries >= 0
  BY SlabAssumption
<1>2. n \in Nat /\ n * d <= r.total
  BY <1>1, DivFacts
<1>3. most \in Nat
  BY <1>1, <1>2, BitmapSizeFacts
<1>4. entries = n - ((most \div d) + 1)
  BY <1>1, <1>3, DivPlusOne DEF EntriesFor
<1>5. most \div d \in Nat
  BY <1>1, <1>3, DivFacts
<1>6. entries \in Nat /\ entries <= n
  BY <1>1, <1>2, <1>4, <1>5
<1> HIDE DEF n, entries
<1>7. ov \in Nat /\ ov <= most
  BY <1>1, <1>2, <1>6 DEF bitmap_size
<1> HIDE DEF most, ov
<1>8. ov \div d \in Nat /\ ov \div d <= most \div d
  BY <1>1, <1>3, <1>7, DivFacts, DivMonotone
<1> DEFINE q == ov \div d
<1>9. Overhead(r) = (q + 1) * d
  <2>1. Overhead(r) = ov + (d - (ov % d))
    BY DEF Overhead, ov, entries
  <2>2. ov % d = ov - d * q
    BY <1>1, <1>7, DivFacts
  <2> HIDE DEF d, q
  <2>3. (q + 1) * d = d * q + d
    BY <1>1, <1>8 DEF q
  <2>4. d * q \in Nat
    BY <1>1, <1>8 DEF q
  <2> QED
    BY <2>1, <2>2, <2>3, <2>4, <1>1, <1>7
<1>10. ov <= Overhead(r) /\ Overhead(r) \in Nat
  <2>1. ov < d * q + d
    BY <1>1, <1>7, DivFacts
  <2> HIDE DEF q, d
  <2>2. (q + 1) * d = d * q + d /\ d * q \in Nat
    BY <1>1, <1>8 DEF q
  <2> QED
    BY <2>1, <2>2, <1>1, <1>7, <1>9
<1>11. (q + 1) + entries \in Nat /\ (q + 1) + entries <= n
  BY <1>2, <1>4, <1>5, <1>6, <1>8
<1>12. Overhead(r) + entries * d <= r.total
  <2> HIDE DEF q, d
  <2>1. q \in Nat
    BY <1>8 DEF q
  <2>2. ((q + 1) + entries) * d <= n * d /\ n * d \in Nat
    BY <2>1, <1>1, <1>2, <1>11, TimesMonotone
  <2>3. ((q + 1) + entries) * d = (q + 1) * d + entries * d
    BY <2>1, <1>1, <1>6, TimesPlus
  <2>4. (q + 1) * d \in Nat /\ entries * d \in Nat
    BY <2>1, <1>1, <1>6
  <2> QED
    BY <2>2, <2>3, <2>4, <1>1, <1>2, <1>9
<1> QED
  BY <1>6, <1>10, <1>12 DEF entries, ov

-----------------------------------------------------------------------------
(* The slab once it is initialised: its entries, their addresses and the   *)
(* bytes that hold their bits.                                             *)
Made(e, ov) ==
  /\ e = slab.num_entries /\ ov = slab_overhead
  /\ e \in Nat /\ e < U16 /\ ov \in Nat
  /\ region.size \in Nat /\ 0 < region.size /\ region.start \in Nat /\ region.total \in Nat
  /\ slab.allocation_size = region.size /\ slab.bitmap_size \in Nat
  /\ e <= 8 * slab.bitmap_size
  /\ HeaderSize + slab.bitmap_size <= ov
  /\ HeaderSize + bitmap_size(e) <= ov
  /\ ov + e * region.size <= region.total
  /\ region.total \in Nat /\ HeaderSize \in Nat
  /\ HeaderSize + slab.bitmap_size <= region.total

LEMMA HeaderFits ==
  ASSUME TypeOK, slab = HeaderFor(region)
  PROVE  Made(slab.num_entries, slab_overhead)
<1> DEFINE n == EntriesFor(region)
           e == slab.num_entries
           ov == slab_overhead
<1>1. slab = HeaderFor(region) /\ region \in Regions
  BY DEF TypeOK
<1>2. /\ slab.allocation_size = region.size /\ e = n % U16
      /\ slab.bitmap_size = bitmap_size(n)
  BY <1>1 DEF HeaderFor
<1>3. ov = Overhead(region)
  BY <1>2 DEF slab_overhead, Overhead
<1>4. /\ n \in Nat /\ ov \in Nat
      /\ HeaderSize + bitmap_size(n) <= ov
      /\ ov + n * region.size <= region.total
  BY <1>1, <1>3, RegionFits
<1>5. /\ region.size \in Nat /\ 0 < region.size /\ region.start \in Nat
      /\ region.total \in Nat /\ HeaderSize \in Nat /\ U16 \in Nat /\ 0 < U16
  BY <1>1, SlabAssumption
<1> HIDE DEF n, ov
<1>6. e \in Nat /\ e < U16 /\ e <= n
  <2>1. n % U16 \in Nat /\ n % U16 < U16
    BY <1>4, <1>5
  <2>2. n % U16 <= n
    BY <1>4, <1>5
  <2> QED
    BY <2>1, <2>2, <1>2
<1> HIDE DEF e
<1>7. bitmap_size(e) \in Nat /\ bitmap_size(e) <= bitmap_size(n) /\ e <= 8 * bitmap_size(n)
  BY <1>4, <1>6 DEF bitmap_size
<1>8. bitmap_size(n) \in Nat
  BY <1>4, BitmapSizeFacts
<1>9. /\ e * region.size \in Nat /\ n * region.size \in Nat
      /\ e * region.size <= n * region.size
  BY <1>4, <1>5, <1>6, TimesMonotone
<1>10. Made(e, ov)
  BY <1>2, <1>4, <1>5, <1>6, <1>7, <1>8, <1>9 DEF Made, e, ov
<1> QED
  BY <1>10 DEF e, ov

(* an object's address, its successor's, and its index again *)
LEMMA ObjectFacts ==
  ASSUME NEW e, NEW ov, Made(e, ov), NEW i \in Nat, i < e
  PROVE  /\ slab_mem(i) = i * region.size + ov + region.start
         /\ slab_mem(i) \in Nat
         /\ region.start + ov <= slab_mem(i)
         /\ slab_mem(i) + region.size <= region.start + region.total
         /\ slab_index(slab_mem(i)) = i
<1> DEFINE d == region.size
<1> USE DEF Made
<1>1. slab_mem(i) = i * d + ov + region.start
  BY DEF slab_mem
<1>2. i * d \in Nat /\ (i + 1) * d \in Nat /\ (i + 1) * d = i * d + d /\ i * d = d * i
  BY TimesPlus
<1>3. (i + 1) * d <= e * d /\ e * d \in Nat
  BY TimesMonotone
<1>4. slab_index(slab_mem(i)) = ((i * d) \div d) % U16
  BY <1>1, <1>2 DEF slab_index
<1>5. (i * d) \div d = i
  BY <1>2, DivIs
<1>6. i % U16 = i
  BY SlabAssumption
<1> QED
  BY <1>1, <1>2, <1>3, <1>4, <1>5, <1>6

LEMMA ObjectsApart ==
  ASSUME NEW e, NEW ov, Made(e, ov), NEW i \in Nat, NEW j \in Nat, i < j, j < e
  PROVE  slab_mem(i) + region.size <= slab_mem(j) /\ slab_mem(i) # slab_mem(j)
<1> DEFINE d == region.size
<1> USE DEF Made
<1>1. slab_mem(i) = i * d + ov + region.start /\ slab_mem(j) = j * d + ov + region.start
  BY ObjectFacts
<1>2. i * d \in Nat /\ (i + 1) * d = i * d + d
  BY TimesPlus
<1>3. (i + 1) * d <= j * d /\ j * d \in Nat
  BY TimesMonotone
<1> QED
  BY <1>1, <1>2, <1>3

(* the byte and the bit of an entry, no other entry's *)
LEMMA BitFacts ==
  ASSUME NEW e, NEW ov, Made(e, ov), NEW i \in Nat, i < e
  PROVE  /\ bitmap_idx(i) \in 0..(region.total - HeaderSize - 1)
         /\ bitmap_idx(i) < slab.bitmap_size
         /\ bitmap_bit(i) \in 0..7
         /\ i = 8 * bitmap_idx(i) + bitmap_bit(i)
<1> USE DEF Made
<1>1. /\ i \div 8 \in Nat /\ i % 8 \in 0..7 /\ i = 8 * (i \div 8) + (i % 8)
  BY DivByEight
<1>2. i \div 8 < slab.bitmap_size
  BY <1>1
<1> QED
  BY <1>1, <1>2 DEF bitmap_idx, bitmap_bit

(* every entry's bit lies in the bytes that init_slab() cleared *)
LEMMA BitsCleared ==
  TypeOK /\ slab = HeaderFor(region)
    => \A i \in Entries : /\ bitmap_idx(i) \in 0..(region.total - HeaderSize - 1)
                          /\ bitmap_idx(i) < slab.bitmap_size
<1> SUFFICES ASSUME TypeOK, slab = HeaderFor(region), NEW i \in Entries
             PROVE  /\ bitmap_idx(i) \in 0..(region.total - HeaderSize - 1)
                    /\ bitmap_idx(i) < slab.bitmap_size
  OBVIOUS
<1>1. Made(slab.num_entries, slab_overhead)
  BY HeaderFits
<1>2. i \in Nat /\ i < slab.num_entries
  BY <1>1 DEF Entries, Made
<1> QED
  BY <1>1, <1>2, BitFacts

-----------------------------------------------------------------------------
(* The arithmetic of init_slab(), slab_overhead() and slab_mem() agree.    *)
LEMMA InvObjects == SlabInv => ObjectsInRegion
<1> SUFFICES ASSUME SlabInv, Initialised, NEW i \in Entries
             PROVE  /\ region.start + HeaderSize + bitmap_size(slab.num_entries) <= slab_mem(i)
                    /\ slab_mem(i) + region.size <= region.start + region.total
                    /\ \A j \in Entries : i < j => slab_mem(i) + region.size <= slab_mem(j)
  BY DEF ObjectsInRegion
<1> DEFINE e == slab.num_entries
           ov == slab_overhead
<1>1. Made(e, ov)
  BY HeaderFits DEF SlabInv, Initialised
<1>2. i \in Nat /\ i < e
  BY <1>1 DEF Entries, Made
<1> HIDE DEF e, ov
<1>3. /\ region.start + ov <= slab_mem(i) /\ slab_mem(i) \in Nat
      /\ slab_mem(i) + region.size <= region.start + region.total
  BY <1>1, <1>2, ObjectFacts
<1>4. region.start + HeaderSize + bitmap_size(e) <= slab_mem(i)
  <2>1. e \in Nat
    BY <1>1 DEF Made
  <2>2. bitmap_size(e) \in Nat
    BY <2>1, BitmapSizeFacts
  <2> QED
    BY <2>2, <1>1, <1>3 DEF Made
<1>5. ASSUME NEW j \in Entries, i < j
      PROVE  slab_mem(i) + region.size <= slab_mem(j)
  <2>1. j \in Nat /\ j < e
    BY <1>1 DEF Entries, Made, e
  <2> QED
    BY <2>1, <1>1, <1>2, <1>5, ObjectsApart
<1> QED
  BY <1>3, <1>4, <1>5 DEF e

LEMMA SlabInit == Init => SlabInv
<1> SUFFICES ASSUME Init PROVE SlabInv
  OBVIOUS
<1>1. ~Initialised
  BY DEF Init, Initialised
<1>2. bytes \in [0..(region.total - HeaderSize - 1) -> SUBSET (0..7)]
  <2>1. PICK b \in {{}, 0..7} : bytes = [i \in 0..(region.total - HeaderSize - 1) |-> b]
    BY DEF Init
  <2> QED
    BY <2>1
<1>3. TypeOK
  BY <1>2 DEF Init, TypeOK, NoSlab, NULL
<1> QED
  BY <1>1, <1>3 DEF Init, SlabInv, BitmapMatchesHeld

(* what the parts of the state that a step leaves alone determine *)
LEMMA SameSlab ==
  ASSUME UNCHANGED <<region, slab>>
  PROVE  /\ Initialised' <=> Initialised
         /\ Entries' = Entries /\ slab_overhead' = slab_overhead
         /\ \A i : slab_mem(i)' = slab_mem(i)
         /\ \A e, ov : Made(e, ov)' <=> Made(e, ov)
BY DEF Initialised, Entries, slab_overhead, slab_mem, Made

LEMMA InitSlabStep ==
  ASSUME SlabInv, InitSlab
  PROVE  SlabInv'
<1>1. /\ slab' = HeaderFor(region) /\ region' = region /\ held' = held /\ result' = result
      /\ bytes' = [i \in DOMAIN bytes |-> IF i < slab'.bitmap_size THEN {} ELSE bytes[i]]
      /\ held = {} /\ result = NULL
  BY DEF InitSlab, SlabInv
<1>2. /\ region \in Regions
      /\ EntriesFor(region) \in Nat
      /\ region.size \in Nat /\ U16 \in Nat /\ 0 < U16
  BY RegionFits, SlabAssumption DEF SlabInv, TypeOK
<1>3. slab' \in [allocation_size : Nat, num_entries : Nat, bitmap_size : Nat]
  <2>1. bitmap_size(EntriesFor(region)) \in Nat
    BY <1>2, BitmapSizeFacts
  <2>2. EntriesFor(region) % U16 \in Nat
    BY <1>2
  <2> QED
    BY <2>1, <2>2, <1>1, <1>2 DEF HeaderFor
<1>4. TypeOK'
  BY <1>1, <1>3 DEF SlabInv, TypeOK
<1>5. \A i \in Entries' : /\ bitmap_idx(i) \in DOMAIN bytes
                          /\ bitmap_idx(i) < slab'.bitmap_size
  <2>1. \A i \in Entries' : /\ bitmap_idx(i) \in 0..(region'.total - HeaderSize - 1)
                            /\ bitmap_idx(i) < slab'.bitmap_size
    <3>1. TypeOK' /\ slab' = HeaderFor(region')
      BY <1>1, <1>4
    <3>2. (TypeOK /\ slab = HeaderFor(region)
            => \A i \in Entries : /\ bitmap_idx(i) \in 0..(region.total - HeaderSize - 1)
                                  /\ bitmap_idx(i) < slab.bitmap_size)'
      BY BitsCleared, PTL
    <3> QED
      BY <3>1, <3>2 DEF bitmap_idx, HeaderFor, EntriesFor, bitmap_size
  <2> QED
    BY <2>1, <1>1 DEF SlabInv, TypeOK
<1>6. \A i \in Entries' : ~bitmap_get(i)'
  BY <1>1, <1>5 DEF bitmap_get, bitmap_idx
<1> QED
  BY <1>1, <1>4, <1>6 DEF SlabInv, BitmapMatchesHeld

LEMMA SlabAllocStep ==
  ASSUME SlabInv, SlabAlloc
  PROVE  SlabInv'
<1> DEFINE e == slab.num_entries
           ov == slab_overhead
<1>1. PICK k \in Entries : /\ ~bitmap_get(k) /\ bytes' = bitmap_set(k)
                           /\ held' = held \cup {slab_mem(k)}
                           /\ result' = slab_mem(k)
  BY DEF SlabAlloc, FirstClear
<1>2. Made(e, ov) /\ UNCHANGED <<region, slab>> /\ slab = HeaderFor(region) /\ Initialised
  BY HeaderFits DEF SlabAlloc, SlabInv, Initialised
<1> HIDE DEF e, ov
<1>3. \A i \in Entries : i \in Nat /\ i < e
  BY <1>2 DEF Entries, Made, e
<1>4. /\ bytes \in [0..(region.total - HeaderSize - 1) -> SUBSET (0..7)]
      /\ bitmap_idx(k) \in 0..(region.total - HeaderSize - 1) /\ bitmap_bit(k) \in 0..7
  BY <1>2, <1>3, BitFacts DEF SlabInv, TypeOK
<1>5. bytes' \in [0..(region.total - HeaderSize - 1) -> SUBSET (0..7)]
  BY <1>1, <1>4 DEF bitmap_set
<1>6. slab_mem(k) \in Nat
  BY <1>2, <1>3, ObjectFacts
<1>7. TypeOK'
  BY <1>1, <1>2, <1>5, <1>6 DEF SlabInv, TypeOK
<1>8. ASSUME NEW i \in Entries
      PROVE  bitmap_get(i)' <=> slab_mem(i) \in held'
  <2>1. bitmap_get(i)' <=> bitmap_get(i) \/ i = k
    <3>1. bitmap_idx(i) \in 0..(region.total - HeaderSize - 1)
      BY <1>2, <1>3, BitFacts
    <3>2. bitmap_idx(i) = bitmap_idx(k) /\ bitmap_bit(i) = bitmap_bit(k) <=> i = k
      BY <1>2, <1>3, BitFacts
    <3>3. bitmap_get(i)' <=> bitmap_bit(i) \in bytes'[bitmap_idx(i)]
      BY DEF bitmap_get, bitmap_idx, bitmap_bit
    <3> QED
      BY <3>1, <3>2, <3>3, <1>1, <1>4 DEF bitmap_get, bitmap_set
  <2>2. slab_mem(i) = slab_mem(k) <=> i = k
    BY <1>2, <1>3, ObjectFacts
  <2>3. bitmap_get(i) <=> slab_mem(i) \in held
    BY <1>2 DEF SlabInv, BitmapMatchesHeld
  <2> QED
    BY <2>1, <2>2, <2>3, <1>1
<1>9. BitmapMatchesHeld'
  BY <1>1, <1>2, <1>8, SameSlab DEF BitmapMatchesHeld, SlabInv
<1> QED
  BY <1>2, <1>7, <1>9, SameSlab DEF SlabInv

LEMMA SlabFreeStep ==
  ASSUME SlabInv, NEW mem \in held, SlabFree(mem)
  PROVE  SlabInv'
<1> DEFINE e == slab.num_entries
           ov == slab_overhead
<1>1. /\ bytes' = bitmap_clear(slab_index(mem)) /\ held' = held \ {mem}
      /\ UNCHANGED <<region, slab, result>>
  BY DEF SlabFree
<1>2. Made(e, ov) /\ slab = HeaderFor(region) /\ Initialised
  BY HeaderFits DEF SlabInv, Initialised
<1> HIDE DEF e, ov
<1>3. \A i \in Entries : i \in Nat /\ i < e
  BY <1>2 DEF Entries, Made, e
<1>4. PICK k \in Entries : mem = slab_mem(k) /\ slab_index(mem) = k
  BY <1>2, <1>3, ObjectFacts DEF SlabInv, BitmapMatchesHeld
<1>5. /\ bytes \in [0..(region.total - HeaderSize - 1) -> SUBSET (0..7)]
      /\ bitmap_idx(k) \in 0..(region.total - HeaderSize - 1)
  BY <1>2, <1>3, BitFacts DEF SlabInv, TypeOK
<1>6. bytes' \in [0..(region.total - HeaderSize - 1) -> SUBSET (0..7)]
  BY <1>1, <1>4, <1>5 DEF bitmap_clear
<1>7. TypeOK'
  BY <1>1, <1>6 DEF SlabInv, TypeOK
<1>8. ASSUME NEW i \in Entries
      PROVE  bitmap_get(i)' <=> slab_mem(i) \in held'
  <2>1. bitmap_get(i)' <=> bitmap_get(i) /\ i # k
    <3>1. bitmap_idx(i) \in 0..(region.total - HeaderSize - 1)
      BY <1>2, <1>3, BitFacts
    <3>2. bitmap_idx(i) = bitmap_idx(k) /\ bitmap_bit(i) = bitmap_bit(k) <=> i = k
      BY <1>2, <1>3, BitFacts
    <3>3. bitmap_get(i)' <=> bitmap_bit(i) \in bytes'[bitmap_idx(i)]
      BY DEF bitmap_get, bitmap_idx, bitmap_bit
    <3> QED
      BY <3>1, <3>2, <3>3, <1>1, <1>4, <1>5 DEF bitmap_get, bitmap_clear
  <2>2. slab_mem(i) = slab_mem(k) <=> i = k
    BY <1>2, <1>3, ObjectFacts
  <2>3. bitmap_get(i) <=> slab_mem(i) \in held
    BY <1>2 DEF SlabInv, BitmapMatchesHeld
  <2> QED
    BY <2>1, <2>2, <2>3, <1>1, <1>4
<1>9. BitmapMatchesHeld'
  BY <1>1, <1>2, <1>8, SameSlab DEF BitmapMatchesHeld, SlabInv
<1> QED
  BY <1>1, <1>2, <1>7, <1>9, SameSlab DEF SlabInv

LEMMA SlabInvInductive == SlabInv /\ [Next]_vars => SlabInv'
<1> SUFFICES ASSUME SlabInv, [Next]_vars PROVE SlabInv'
  OBVIOUS
<1>1. CASE SlabFull \/ UNCHANGED vars
  <2>1. UNCHANGED <<region, slab, bytes, held>> /\ result' \in Nat
    BY <1>1 DEF SlabFull, vars, SlabInv, TypeOK, NULL
  <2>2. TypeOK'
    BY <2>1 DEF SlabInv, TypeOK
  <2>3. BitmapMatchesHeld'
    BY <2>1, SameSlab DEF SlabInv, BitmapMatchesHeld, bitmap_get, bitmap_idx, bitmap_bit
  <2>4. ~Initialised => result' = result
    BY <1>1 DEF SlabFull, vars
  <2> QED
    BY <2>1, <2>2, <2>3, <2>4, SameSlab DEF SlabInv
<1> QED
  BY <1>1, InitSlabStep, SlabAllocStep, SlabFreeStep DEF Next

(* The bitmap and the clients agree in every slab.                         *)
THEOREM SlabInvariant == Spec => []SlabInv
  BY SlabInit, SlabInvInductive, PTL DEF Spec

(* slab_alloc() and slab_free() stay within the bytes of the region.       *)
THEOREM SlabTypeCorrect == Spec => []TypeOK
<1>1. SlabInv => TypeOK
  BY DEF SlabInv
<1> QED
  BY SlabInvariant, <1>1, PTL

(* No object reaches out of the region, into header and bitmap or into     *)
(* another object, whatever the region and the size of the objects.        *)
THEOREM ObjectsStayInRegion == Spec => []ObjectsInRegion
  BY SlabInvariant, InvObjects, PTL

(* Each object is marked in the bitmap exactly while a client holds it.    *)
THEOREM BitmapRight == Spec => []BitmapMatchesHeld
<1>1. SlabInv => BitmapMatchesHeld
  BY DEF SlabInv
<1> QED
  BY SlabInvariant, <1>1, PTL

-----------------------------------------------------------------------------
(* The slab is a Pool.                                                     *)

(* a set of numbers that is not empty has a least one *)
LEMMA LeastOf ==
  ASSUME NEW S \in SUBSET Nat, S # {}
  PROVE  \E x \in S : \A y \in S : x <= y
<1>1. PICK x \in S : \A y \in S : <<y, x>> \notin OpToRel(<, Nat)
  BY NatLessThanWellFounded, WFMin
<1>2. \A y \in S : ~(y < x)
  BY <1>1 DEF OpToRel
<1> QED
  BY <1>2

(* the loop of slab_alloc() stops at the first clear bit if there is one *)
LEMMA FullMeansFull ==
  ASSUME Made(slab.num_entries, slab_overhead), ~\E idx \in Entries : FirstClear(idx)
  PROVE  \A i \in Entries : bitmap_get(i)
<1> DEFINE clear == {i \in Entries : ~bitmap_get(i)}
<1>1. clear \subseteq Nat /\ slab.num_entries \in Nat
  BY DEF Entries, Made
<1>2. ASSUME clear # {}
      PROVE  FALSE
  <2>1. PICK idx \in clear : \A i \in clear : idx <= i
    BY <1>1, <1>2, LeastOf
  <2>2. \A i \in 0..(idx - 1) : i \in Entries /\ i \notin clear
    BY <1>1, <2>1 DEF Entries
  <2>3. FirstClear(idx)
    BY <2>1, <2>2 DEF FirstClear
  <2> QED
    BY <2>1, <2>3
<1> QED
  BY <1>2

(* an object of the slab is not at address 0 *)
LEMMA ObjectsNotNull ==
  ASSUME NEW e, NEW ov, Made(e, ov), NEW i \in Nat, i < e
  PROVE  slab_mem(i) # NULL
<1>1. region.start + ov <= slab_mem(i) /\ slab_mem(i) \in Nat
  BY ObjectFacts
<1> QED
  BY <1>1, SlabAssumption DEF Made, NULL

LEMMA PoolInit == Init => PoolView!Init
BY DEF Init, PoolView!Init, Objects, Initialised

(* init_slab() opens the pool, a free returns an object, an allocation     *)
(* takes one that nobody holds, or is refused because all of them are held *)
LEMMA PoolStep ==
  SlabInv /\ [Next]_vars => [PoolView!Next]_<<Objects, held, result>>
<1> SUFFICES ASSUME SlabInv, [Next]_vars
             PROVE  [PoolView!Next]_<<Objects, held, result>>
  OBVIOUS
<1>1. CASE InitSlab
  <2>1. Objects = {} /\ held' = {} /\ result' = NULL
    BY <1>1 DEF InitSlab, SlabInv, Objects
  <2> QED
    BY <2>1 DEF PoolView!Next, PoolView!Open
<1>2. ASSUME Initialised, UNCHANGED <<region, slab>>
      PROVE  /\ Objects' = Objects /\ Objects = {slab_mem(i) : i \in Entries}
             /\ Made(slab.num_entries, slab_overhead)
             /\ \A i \in Entries : i \in Nat /\ i < slab.num_entries
  BY <1>2, SameSlab, HeaderFits DEF Objects, SlabInv, Initialised, Entries, Made
<1>3. CASE SlabAlloc
  <2>1. PICK k \in Entries : /\ ~bitmap_get(k) /\ held' = held \cup {slab_mem(k)}
                             /\ result' = slab_mem(k)
    BY <1>3 DEF SlabAlloc, FirstClear
  <2>2. Initialised /\ UNCHANGED <<region, slab>>
    BY <1>3 DEF SlabAlloc
  <2>3. slab_mem(k) \in Objects \ held /\ Objects' = Objects
    BY <1>2, <2>1, <2>2 DEF SlabInv, BitmapMatchesHeld
  <2>4. slab_mem(k) # NULL
    BY <1>2, <2>1, <2>2, ObjectsNotNull
  <2> QED
    BY <2>1, <2>3, <2>4 DEF PoolView!Next, PoolView!Take
<1>4. CASE SlabFull
  <2>1. /\ Initialised /\ UNCHANGED <<region, slab, held>> /\ result' = NULL
        /\ ~\E idx \in Entries : FirstClear(idx)
    BY <1>4 DEF SlabFull
  <2>2. \A i \in Entries : bitmap_get(i)
    BY <1>2, <2>1, FullMeansFull
  <2>3. held = Objects
    BY <1>2, <2>1, <2>2 DEF SlabInv, BitmapMatchesHeld
  <2> QED
    BY <1>2, <2>1, <2>3 DEF PoolView!Next, PoolView!Refuse
<1>5. ASSUME NEW mem \in held, SlabFree(mem)
      PROVE  PoolView!Next
  <2>1. Initialised /\ UNCHANGED <<region, slab, result>> /\ held' = held \ {mem}
    BY <1>5 DEF SlabFree, SlabInv
  <2> QED
    BY <1>2, <2>1 DEF PoolView!Next, PoolView!Give
<1>6. CASE UNCHANGED vars
  BY <1>6, SameSlab DEF vars, Objects
<1> QED
  BY <1>1, <1>3, <1>4, <1>5, <1>6 DEF Next

(* The slab implements the Pool: every object is held by one client at a   *)
(* time, and slab_alloc() returns NULL only if all of them are held.       *)
THEOREM SlabImplementsPool == Spec => PoolSpec
<1>1. Init => PoolView!Init
  BY PoolInit
<1>2. SlabInv /\ [Next]_vars => [PoolView!Next]_<<Objects, held, result>>
  BY PoolStep
<1> QED
  BY <1>1, <1>2, SlabInvariant, PTL DEF Spec, PoolSpec, PoolView!Spec
=============================================================================
