-------------------------------- MODULE Heap --------------------------------
(***************************************************************************)
(* The first-fit heap of src/mm/malloc.c, one action per call, per turn of *)
(* the search loop and per turn of the coalescing loops.                   *)
(*                                                                         *)
(* Memory is a partial function from addresses to memory_header records.   *)
(* The list is walked through address 0 too: hdr_addr_is_valid() has no    *)
(* lower bound, so a NULL link is "valid" and the bytes at address 0 - the *)
(* page table that cpu/init.S builds there - are read as a header:         *)
(*   entries 0..3 = 0x3, 0x1003, 0x2003, 0x3003                            *)
(*   previous = RootEntry, next = PT, size = NullSize, free = TRUE.        *)
(* Its next entry gets its Accessed and Dirty bits from the CPU once page  *)
(* 1 is touched, so it reads 0x1003 (PT), then 0x1023 (PTA) or 0x1063      *)
(* (PTD); at those addresses lie more page-table bytes, which read as a    *)
(* header that is not free and whose links are far beyond the heap (Huge). *)
(*                                                                         *)
(* A header is one element of that function and the clients' bytes are not *)
(* kept: a header written partly over another one, or bytes that memset()  *)
(* or memcpy() puts over a header, would damage it in the program and not  *)
(* here. The specifications of HeapContract and MCHeap therefore make a    *)
(* call only where neither can happen; HeadersApart states it.             *)
(***************************************************************************)
EXTENDS Integers

CONSTANTS HDR,            \* sizeof(memory_header), 32
          Base,           \* the start of the heap given to heap_init()
          HeapStartSize,  \* sizeof(heap_start), 16
          HeapSize,       \* the size of the heap given to heap_init()
          PT, PTA, PTD,   \* the values of page-table entry 1
          NullSize,       \* page-table entry 2 read as a size, 0x2003
          RootEntry,      \* page-table entry 0, 0x3
          Huge,           \* page-table bytes read as a pointer or a size
          MallocSizes,    \* byte counts clients pass to malloc() and calloc()
          ReallocSizes    \* byte counts clients pass to realloc()

NULL == 0

(* heap_init() adds sizeof(heap_start) to a memory_header pointer, which   *)
(* skips that many headers, not that many bytes.                           *)
Start == Base + HeapStartSize * HDR

(* One past the last address hdr_addr_is_valid() accepts, and what         *)
(* heap_init() makes the end of the first block: the same number.          *)
HeapEnd == Start + HeapSize - HDR

PageTableHeaders == {PT, PTA, PTD}

ASSUME HeapAssumption ==
  /\ {HDR, Base, HeapStartSize, HeapSize, PT, PTA, PTD, NullSize, Huge, RootEntry} \subseteq Nat
  /\ 0 < HDR /\ 3 * HDR < HeapSize
  /\ NULL + HDR <= PT /\ PT + HDR <= PTA /\ PTA + HDR <= PTD /\ PTD + HDR <= Base
  /\ HeapEnd + NullSize <= Huge
  /\ HDR < NullSize
  /\ MallocSizes \subseteq Nat
  /\ ReallocSizes \subseteq Nat \ {0}

VARIABLES mem,      \* header address -> memory_header
          owned,    \* the clients' view: live pointer -> bytes it asked for
          given,    \* every pointer a client was ever handed
          pc,       \* what the running call is doing
          call      \* the arguments and locals of the running call

vars == <<mem, owned, given, pc, call>>

Header == [previous : Nat, next : Nat, size : Nat, free : BOOLEAN]

Zeroed == [previous |-> NULL, next |-> NULL, size |-> 0, free |-> FALSE]

PageTableBytes == [previous |-> Huge, next |-> Huge, size |-> Huge, free |-> FALSE]

(* hdr_addr_is_valid(): there is no lower bound *)
Valid(a) == a < HeapEnd

(* Mutant: the block has no room for its own header. *)
AlignedSizeHeaderless(n) == n + (HDR - (n % HDR))

(* aligned_size(): the header, then up to the next multiple of HDR; a      *)
(* request that is a multiple already gets a whole HDR more.               *)
AlignedSize(n) == n + HDR + (HDR - (n % HDR))

(* memory as it is once a header has been written to address a, which is    *)
(* that of another header or at least a header away from all of them       *)
Put(m, a, h) == [x \in DOMAIN m \cup {a} |-> IF x = a THEN h ELSE m[x]]

(* space_for_new_blk(): the subtraction is unsigned, a remainder smaller   *)
(* than a header wraps to a huge one and asks for a split.                 *)
SpaceForNewBlk(m, a, size) ==
  LET spare == m[a].size - size - HDR IN spare < 0 \/ 2 * HDR < spare

(* The CPU sets the Accessed and Dirty bits of entry 1 on a write to page 1. *)
SetDirty(m) == IF m[NULL].next \in {PT, PTA} THEN [m EXCEPT ![NULL].next = PTD] ELSE m

(* Mutant: the new block does not become free. *)
AddTakenHeader(m, a, size) ==
  Put(m, a + size, [previous |-> a, next |-> m[a].next,
                    size |-> m[a].size - size, free |-> FALSE])

(* insert_new_block(): the header of the block that is split off *)
AddHeader(m, a, size) ==
  Put(m, a + size, [previous |-> a, next |-> m[a].next,
                    size |-> m[a].size - size, free |-> TRUE])

(* Mutant: memset() runs before next->next has moved on. *)
MergeZeroingTooEarly(m, new) ==
  LET s == m[new].next
      merged == [m EXCEPT ![new].size = @ + m[s].size, ![new].next = m[s].next]
  IN  IF m[s].free THEN SetDirty(Put(merged, s, Zeroed)) ELSE m

(* insert_new_block(): the new block takes in a free follower; memset()    *)
(* runs after next->next has moved on, and zeroes the header after that.   *)
MergeFollower(m, new) ==
  LET s == m[new].next
      merged == [m EXCEPT ![new].size = @ + m[s].size, ![new].next = m[s].next]
  IN  IF m[s].free THEN SetDirty(Put(merged, m[s].next, Zeroed)) ELSE m

(* insert_new_block(): the follower, whatever it is, points back *)
LinkBack(m, new) == [m EXCEPT ![m[new].next].previous = new]

(* Mutant: the block that is split keeps its link. *)
InsertUnlinked(m, a, size) ==
  [LinkBack(MergeFollower(AddHeader(m, a, size), a + size), a + size)
     EXCEPT ![a].size = size]

(* insert_new_block(): in the order the code assigns, as the new header    *)
(* may be the one that follows                                             *)
InsertNewBlock(m, a, size) ==
  [LinkBack(MergeFollower(AddHeader(m, a, size), a + size), a + size)
     EXCEPT ![a].size = size, ![a].next = a + size]

(* Mutant of allocate_block(): the block stays marked free. *)
AllocateLeavingFree(m, a, size) ==
  LET split == IF Valid(m[a].next) THEN SpaceForNewBlk(m, a, size) ELSE m[a].next = NULL
  IN  IF split THEN InsertNewBlock(m, a, size) ELSE m

(* allocate_block(); its else branch is dead, as NULL is below HeapEnd *)
AllocateBlock(m, a, size) ==
  LET taken == [m EXCEPT ![a].free = FALSE]
      split == IF Valid(m[a].next) THEN SpaceForNewBlk(m, a, size) ELSE m[a].next = NULL
  IN  IF split THEN InsertNewBlock(taken, a, size) ELSE taken

(* fuse_blocks(): the block that grows is the one at the HIGHER address, and *)
(* the successor is dereferenced before its own link is checked.           *)
FuseBlocks(m, a, b) ==
  LET first  == IF a > b THEN a ELSE b
      second == IF a > b THEN b ELSE a
      m1 == [m EXCEPT ![first].size = @ + m[second].size, ![first].next = m[second].next]
      n  == m1[first].next
      m2 == IF Valid(m1[n].next) THEN [m1 EXCEPT ![n].previous = first] ELSE m1
  IN  [m2 EXCEPT ![second] = Zeroed]

NoCall == [op |-> "none", hdr |-> NULL, need |-> 0, at |-> NULL, req |-> 0]

Init ==
  /\ mem = [a \in {NULL, Start} \cup PageTableHeaders |->
              CASE a = NULL -> [previous |-> RootEntry, next |-> PT,
                                size |-> NullSize, free |-> TRUE]
                [] a = Start -> [previous |-> NULL, next |-> NULL,
                                 size |-> HeapSize - HDR, free |-> TRUE]
                [] OTHER -> PageTableBytes]
  /\ owned = [p \in {} |-> 0]
  /\ given = {}
  /\ pc = "idle"
  /\ call = NoCall

Return == pc' = "idle" /\ call' = NoCall

(* the client is handed pointer p to n bytes *)
Hand(p, n) ==
  /\ owned' = [q \in DOMAIN owned \cup {p} |-> IF q = p THEN n ELSE owned[q]]
  /\ given' = given \cup {p}

(* malloc() or calloc() enters get_free_block(); calloc() zeroes the n bytes *)
(* it is about to hand out, where no header lies (HeadersApart)            *)
CallMalloc(n) ==
  /\ pc = "idle"
  /\ pc' = "search"
  /\ call' = [op |-> "malloc", hdr |-> NULL, need |-> AlignedSize(n), at |-> Start, req |-> n]
  /\ UNCHANGED <<mem, owned, given>>

(* Mutant of free(): the double-free test is gone. *)
FreeUntested(p) ==
  LET a == p - HDR IN
  /\ pc = "idle"
  /\ owned' = [q \in DOMAIN owned \ {p} |-> owned[q]]
  /\ mem' = [mem EXCEPT ![a].free = TRUE]
  /\ pc' = "fuse_next"
  /\ call' = [NoCall EXCEPT !.op = "free", !.hdr = a]
  /\ UNCHANGED given

(* free() of any pointer ever handed out; a set free flag is a double free *)
CallFree(p) ==
  LET a == p - HDR IN
  /\ pc = "idle"
  /\ owned' = [q \in DOMAIN owned \ {p} |-> owned[q]]
  /\ IF mem[a].free
       THEN pc' = "panic" /\ UNCHANGED <<mem, call>>
       ELSE /\ mem' = [mem EXCEPT ![a].free = TRUE]
            /\ pc' = "fuse_next"
            /\ call' = [NoCall EXCEPT !.op = "free", !.hdr = a]
  /\ UNCHANGED given

(* realloc() within resize_block(): the block is big enough as it is *)
CallReallocInPlace(p, n) ==
  LET a == p - HDR
      size == n + HDR IN
  /\ pc = "idle"
  /\ size <= mem[a].size
  /\ mem' = IF SpaceForNewBlk(mem, a, size) THEN InsertNewBlock(mem, a, size) ELSE mem
  /\ Hand(p, n)
  /\ UNCHANGED <<pc, call>>

(* realloc() of a block that has to move enters get_free_block() *)
CallReallocMove(p, n) ==
  LET a == p - HDR
      size == n + HDR IN
  /\ pc = "idle"
  /\ size > mem[a].size
  /\ pc' = "search"
  /\ call' = [op |-> "realloc", hdr |-> a, need |-> size, at |-> Start, req |-> n]
  /\ UNCHANGED <<mem, owned, given>>

(* Mutant: the block has to be larger by a header and more. *)
FitsLarger == mem[call.at].free /\ call.need + HDR < mem[call.at].size

(* the loop condition of get_free_block() is false: the block at hand fits *)
Fits == mem[call.at].free /\ call.need <= mem[call.at].size

(* Mutant: the caller does not test the result for NULL. *)
FoundUntested == Fits

(* the result of get_free_block(), which callers test against NULL *)
Found == Fits /\ call.at # NULL

(* Mutant: the loop does not move on. *)
SearchStays ==
  /\ pc = "search" /\ ~Fits
  /\ Valid(mem[call.at].next)
  /\ UNCHANGED vars

(* get_free_block() follows a link; reading page 1 sets its Accessed bit *)
SearchNext ==
  /\ pc = "search" /\ ~Fits
  /\ Valid(mem[call.at].next)
  /\ call' = [call EXCEPT !.at = mem[call.at].next]
  /\ mem' = IF mem[call.at].next \in PageTableHeaders /\ mem[NULL].next = PT
              THEN [mem EXCEPT ![NULL].next = PTA] ELSE mem
  /\ UNCHANGED <<owned, given, pc>>

(* get_free_block() returns NULL: the next link leaves the heap, or the    *)
(* header that fits is the one at address 0                                *)
SearchFail ==
  /\ pc = "search"
  /\ IF Fits THEN ~Found ELSE ~Valid(mem[call.at].next)
  /\ Return
  /\ UNCHANGED <<mem, owned, given>>

(* malloc() takes the block it found *)
FinishMalloc ==
  /\ pc = "search" /\ call.op = "malloc"
  /\ Found
  /\ mem' = AllocateBlock(mem, call.at, call.need)
  /\ Hand(call.at + HDR, call.req)
  /\ Return

(* resize_block() found room elsewhere: the content is copied, within the  *)
(* new block behind its header, and the old block deleted; nothing marks   *)
(* the new one as taken.                                                   *)
MoveContent ==
  /\ pc = "search" /\ call.op = "realloc"
  /\ Found
  /\ mem' = [mem EXCEPT ![call.hdr].free = TRUE]
  /\ pc' = "fuse_next"
  /\ UNCHANGED <<owned, given, call>>

(* fuse_walkthrough(), the forward loop *)
NextIsFree == Valid(mem[call.hdr].next) /\ mem[mem[call.hdr].next].free

FuseNext ==
  /\ pc = "fuse_next" /\ NextIsFree
  /\ mem' = FuseBlocks(mem, call.hdr, mem[call.hdr].next)
  /\ UNCHANGED <<owned, given, pc, call>>

FuseNextDone ==
  /\ pc = "fuse_next" /\ ~NextIsFree
  /\ pc' = "fuse_prev"
  /\ UNCHANGED <<mem, owned, given, call>>

(* Mutant: the backward loop does not look at the flag. *)
PreviousUntested == Valid(mem[call.hdr].previous)

(* fuse_walkthrough(), the backward loop *)
PreviousIsFree == Valid(mem[call.hdr].previous) /\ mem[mem[call.hdr].previous].free

FusePrevious ==
  /\ pc = "fuse_prev" /\ PreviousIsFree
  /\ mem' = FuseBlocks(mem, call.hdr, mem[call.hdr].previous)
  /\ UNCHANGED <<owned, given, pc, call>>

(* fuse_walkthrough() is over: free() returns, and realloc(), back from    *)
(* resize_block(), deletes the old block a second time before it returns.  *)
FreeReturns ==
  /\ pc = "fuse_prev" /\ ~PreviousIsFree /\ call.op = "free"
  /\ Return
  /\ UNCHANGED <<mem, owned, given>>

DeleteAgain ==
  /\ pc = "fuse_prev" /\ ~PreviousIsFree /\ call.op = "realloc"
  /\ mem' = [mem EXCEPT ![call.hdr].free = TRUE]
  /\ pc' = "fuse_next"
  /\ call' = [call EXCEPT !.op = "realloc_again"]
  /\ UNCHANGED <<owned, given>>

(* realloc() copies the content once more and hands out the new block *)
ReallocReturns ==
  /\ pc = "fuse_prev" /\ ~PreviousIsFree /\ call.op = "realloc_again"
  /\ owned' = [q \in (DOMAIN owned \ {call.hdr + HDR}) \cup {call.at + HDR} |->
                 IF q = call.at + HDR THEN call.req ELSE owned[q]]
  /\ given' = given \cup {call.at + HDR}
  /\ Return
  /\ UNCHANGED mem

(* Entry 0 of the page table maps every page the firmware runs in: once it *)
(* is overwritten the next TLB miss resets the machine, at any moment.     *)
PageFault ==
  /\ mem[NULL].previous # RootEntry
  /\ pc \notin {"panic", "fault"}
  /\ pc' = "fault"
  /\ UNCHANGED <<mem, owned, given, call>>

(* panic() dumps the registers and hangs; a faulted machine is gone *)
Halted == pc \in {"panic", "fault"} /\ UNCHANGED vars

Search == SearchNext \/ SearchFail \/ FinishMalloc \/ MoveContent

Walkthrough ==
  \/ FuseNext \/ FuseNextDone \/ FusePrevious
  \/ FreeReturns \/ DeleteAgain \/ ReallocReturns

(* what the firmware does of its own accord once a call has been made *)
Run == Search \/ Walkthrough

-----------------------------------------------------------------------------
(* Every address the heap code dereferences holds a header it has read or  *)
(* written before, and no size ever becomes negative.                      *)
TypeOK ==
  /\ mem \in [DOMAIN mem -> Header]
  /\ {NULL, Start} \cup PageTableHeaders \subseteq DOMAIN mem
  /\ DOMAIN mem \subseteq Nat
  /\ owned \in [DOMAIN owned -> Nat]
  /\ DOMAIN owned \subseteq given
  /\ given \subseteq {a + HDR : a \in DOMAIN mem}
  /\ pc \in {"idle", "search", "fuse_next", "fuse_prev", "panic", "fault"}
  /\ call \in [op : {"none", "malloc", "free", "realloc", "realloc_again"},
                hdr : DOMAIN mem, need : Nat, at : DOMAIN mem, req : Nat]

(* The page table passes for a free block, so the search may end at        *)
(* address 0; no client is ever handed memory behind it (malloc.c:288,269  *)
(* and 324 test for NULL).                                                 *)
NullNeverHanded == NULL + HDR \notin given

(* The bytes of the program that this model leaves out never matter to it: *)
(* no two headers share a byte, and none lies in the bytes a client may    *)
(* write, that calloc() zeroes (malloc.c:307) or that realloc() copies     *)
(* (malloc.c:272 and 331).                                                 *)
HeadersApart ==
  /\ \A a, b \in DOMAIN mem : a < b => a + HDR <= b
  /\ \A p \in DOMAIN owned, a \in DOMAIN mem : a + HDR <= p \/ p + owned[p] <= a

-----------------------------------------------------------------------------
(* What TypeOK and NullNeverHanded rest on, in and out of the contract of  *)
(* HeapContract.                                                           *)

System == {NULL} \cup PageTableHeaders

(* Every link of the list leads to a header that is there, but for those   *)
(* of the page table, which is never free and leads out of the heap or to  *)
(* address 0; every block lies at Start or above.                          *)
ListSound(m) ==
  /\ m \in [DOMAIN m -> Header] /\ DOMAIN m \subseteq Nat
  /\ {Start} \cup System \subseteq DOMAIN m
  /\ \A s \in PageTableHeaders : ~m[s].free /\ m[s].next \in {NULL, Huge}
  /\ m[NULL].next \in System
  /\ \A b \in DOMAIN m \ System :
       Start <= b /\ m[b].next \in DOMAIN m /\ m[b].previous \in DOMAIN m

Fusing == pc \in {"fuse_next", "fuse_prev"}

(* The locals of a call point to blocks. While blocks are fused, the one   *)
(* the call is about is free, or it has been zeroed itself and only the    *)
(* "block" at address 0 is left to fuse it with.                           *)
CallSound ==
  /\ pc = "search" => call.op \in {"malloc", "realloc"}
  /\ Fusing \/ (pc = "search" /\ call.op = "realloc") => call.hdr \in DOMAIN mem \ System
  /\ Fusing =>
       /\ call.op \in {"free", "realloc", "realloc_again"}
       /\ call.op # "free" => call.at \in DOMAIN mem \ System
       /\ mem[call.hdr].free \/ (mem[call.hdr].next \in System /\ mem[call.hdr].previous = NULL)

LinksInv ==
  /\ TypeOK /\ ListSound(mem) /\ CallSound
  /\ given \subseteq {b + HDR : b \in DOMAIN mem \ System}

(* Each turn of fuse_walkthrough() takes a header off the free ones for    *)
(* good, which is why its loops end.                                       *)
FreeHeaders == {a \in DOMAIN mem : mem[a].free}

TurnsUseUpFreeHeaders ==
  [][FuseNext \/ FusePrevious => FreeHeaders' \subseteq FreeHeaders /\ FreeHeaders' # FreeHeaders]_vars
=============================================================================
