-------------------------------- MODULE Slab --------------------------------
(***************************************************************************)
(* The slab allocator of src/mm/slab.c, include/mm/slab.h and the bitmap   *)
(* of include/mm/bitmap.h: header, bitmap and objects share one region.    *)
(* Nothing in the tree calls it yet; what is checked is that it is fit to  *)
(* be called.                                                              *)
(***************************************************************************)
EXTENDS Integers

CONSTANTS Regions,      \* the regions init_slab() is called for
          HeaderSize,   \* sizeof(SlabHeader), 8
          U16           \* 2^16, the width of num_entries and indexes

NULL == 0

(* bitmap_size(), bitmap_idx() and bitmap_bit() *)
bitmap_size(num_entries) == (num_entries + 7) \div 8
bitmap_idx(entry) == entry \div 8
bitmap_bit(entry) == entry % 8

(* Mutant: the rounding of the overhead up to whole objects is lost. *)
UnroundedEntries(r) ==
  LET n == r.total \div r.size IN n - (bitmap_size(n) + HeaderSize) \div r.size

(* init_slab(): whole objects in the region, less those that the header    *)
(* and a bitmap for all of them would cover                                *)
EntriesFor(r) ==
  LET n == r.total \div r.size
      overhead == bitmap_size(n) + HeaderSize
  IN  n - (overhead + r.size) \div r.size

(* A region is [start, total, size]: its first byte, its length and the    *)
(* size of its objects. The code tests none of this: a shorter region      *)
(* makes num_entries wrap, a larger object makes allocation_size wrap.     *)
ASSUME SlabAssumption ==
  /\ HeaderSize \in Nat \ {0} /\ U16 \in Nat \ {0}
  /\ Regions \subseteq [start : Nat, total : Nat, size : 1..(U16 - 1)]
  /\ \A r \in Regions : EntriesFor(r) >= 0

VARIABLES region,    \* where the slab lives
          slab,      \* its SlabHeader
          bytes,     \* the bytes behind the header, each the set of its 1 bits
          held,      \* the clients' view: addresses they have been given
          result     \* what slab_alloc() returned last

vars == <<region, slab, bytes, held, result>>

NoSlab == [allocation_size |-> 0, num_entries |-> 0, bitmap_size |-> 0]

slab_overhead ==
  LET overhead == HeaderSize + slab.bitmap_size
  IN  overhead + (slab.allocation_size - (overhead % slab.allocation_size))

slab_mem(idx) == idx * slab.allocation_size + slab_overhead + region.start

slab_index(mem) ==
  ((mem - slab_overhead - region.start) \div slab.allocation_size) % U16

bitmap_get(entry) == bitmap_bit(entry) \in bytes[bitmap_idx(entry)]

(* Mutant: the bit is set at the index of the entry, not within its byte. *)
SetUnmasked(entry) == [bytes EXCEPT ![bitmap_idx(entry)] = @ \cup {entry}]

bitmap_set(entry) == [bytes EXCEPT ![bitmap_idx(entry)] = @ \cup {bitmap_bit(entry)}]

bitmap_clear(entry) == [bytes EXCEPT ![bitmap_idx(entry)] = @ \ {bitmap_bit(entry)}]

Entries == 0..(slab.num_entries - 1)

(* memory as the machine left it, and no slab in it *)
Init ==
  /\ region \in Regions
  /\ slab = NoSlab
  /\ bytes \in {[i \in 0..(region.total - HeaderSize - 1) |-> b] : b \in {{}, 0..7}}
  /\ held = {}
  /\ result = NULL

Initialised == slab # NoSlab

(* num_entries is stored in 16 bits, the bitmap is sized for all of them *)
HeaderFor(r) ==
  [allocation_size |-> r.size,
   num_entries |-> EntriesFor(r) % U16,
   bitmap_size |-> bitmap_size(EntriesFor(r))]

(* Mutant: the bitmap is not cleared. *)
InitWithoutMemset ==
  /\ ~Initialised
  /\ slab' = HeaderFor(region)
  /\ UNCHANGED <<region, bytes, held, result>>

(* init_slab() *)
InitSlab ==
  /\ ~Initialised
  /\ slab' = HeaderFor(region)
  /\ bytes' = [i \in DOMAIN bytes |-> IF i < slab'.bitmap_size THEN {} ELSE bytes[i]]
  /\ UNCHANGED <<region, held, result>>

(* Mutant: the last entry is never looked at. *)
FirstClearButLast(idx) ==
  /\ idx \in Entries /\ idx + 1 < slab.num_entries
  /\ ~bitmap_get(idx) /\ \A i \in 0..(idx - 1) : bitmap_get(i)

(* where the loop of slab_alloc() stops short of num_entries *)
FirstClear(idx) ==
  idx \in Entries /\ ~bitmap_get(idx) /\ \A i \in 0..(idx - 1) : bitmap_get(i)

SlabAlloc ==
  /\ Initialised
  /\ \E idx \in Entries :
       /\ FirstClear(idx)
       /\ bytes' = bitmap_set(idx)
       /\ held' = held \cup {slab_mem(idx)}
       /\ result' = slab_mem(idx)
  /\ UNCHANGED <<region, slab>>

SlabFull ==
  /\ Initialised
  /\ ~\E idx \in Entries : FirstClear(idx)
  /\ result' = NULL
  /\ UNCHANGED <<region, slab, bytes, held>>

(* slab_free() of an object the client holds; it tests nothing *)
SlabFree(mem) ==
  /\ bytes' = bitmap_clear(slab_index(mem))
  /\ held' = held \ {mem}
  /\ UNCHANGED <<region, slab, result>>

Next == InitSlab \/ SlabAlloc \/ SlabFull \/ \E mem \in held : SlabFree(mem)

Spec == Init /\ [][Next]_vars

-----------------------------------------------------------------------------
(* Bitmap accesses stay within the bytes the region has behind the header, *)
(* and set bits 0 to 7 of them.                                            *)
TypeOK ==
  /\ region \in Regions
  /\ slab \in [allocation_size : Nat, num_entries : Nat, bitmap_size : Nat]
  /\ bytes \in [0..(region.total - HeaderSize - 1) -> SUBSET (0..7)]
  /\ held \subseteq Nat /\ result \in Nat

(* Every object of an initialised slab lies within the region, past header *)
(* and bitmap, and overlaps no other object: the integer arithmetic of     *)
(* init_slab() and slab_overhead() agree, also when 16 bits truncate.      *)
ObjectsInRegion ==
  Initialised =>
    \A i \in Entries :
      /\ region.start + HeaderSize + bitmap_size(slab.num_entries) <= slab_mem(i)
      /\ slab_mem(i) + region.size <= region.start + region.total
      /\ \A j \in Entries : i < j => slab_mem(i) + region.size <= slab_mem(j)

(* An entry's bit is set exactly while a client holds the object, so that  *)
(* slab_index() inverts slab_mem() and freeing clears the right bit of the *)
(* right byte.                                                             *)
BitmapMatchesHeld ==
  Initialised =>
    /\ \A i \in Entries : bitmap_get(i) <=> slab_mem(i) \in held
    /\ held \subseteq {slab_mem(i) : i \in Entries}

(* What clients see of the slab is a Pool. *)
Objects == IF Initialised THEN {slab_mem(i) : i \in Entries} ELSE {}
PoolView == INSTANCE Pool WITH objects <- Objects
PoolSpec == PoolView!Spec

-----------------------------------------------------------------------------
(* The inductive invariant of SlabProofs.                                  *)
SlabInv ==
  /\ TypeOK /\ BitmapMatchesHeld
  /\ slab \in {NoSlab, HeaderFor(region)}
  /\ ~Initialised => held = {} /\ result = NULL
=============================================================================
