---------------------------- MODULE HeapContract ----------------------------
(***************************************************************************)
(* The heap of src/mm/malloc.c under the client discipline it can bear.    *)
(* Under it the block list stays a gapless tiling of the heap, and what    *)
(* clients see is the Allocator of module Allocator. Each clause is there  *)
(* because a call outside it destroys the list: the MCHeap runs that       *)
(* expect a violation drop one clause each.                                *)
(***************************************************************************)
EXTENDS Heap

(* every block header: what is not page table *)
Blocks == DOMAIN mem \ ({NULL} \cup PageTableHeaders)

(* No free block that is big enough is within a header of the exact size:  *)
(* space_for_new_blk() wraps there and the new header would land on, or    *)
(* partly over, the header that follows.                                   *)
NoTightFit(size) ==
  \A b \in Blocks : mem[b].free => mem[b].size < size \/ size + HDR <= mem[b].size

(* No neighbour to fuse with: fuse_blocks() keeps the wrong header. The    *)
(* first block counts its NULL previous link as a free neighbour.          *)
NoFreeNeighbour(p) ==
  LET h == mem[p - HDR] IN
  /\ Valid(h.next) => ~mem[h.next].free
  /\ h.previous # NULL
  /\ Valid(h.previous) => ~mem[h.previous].free

(* realloc() that shrinks in place by at least a header, and that does not *)
(* split off a remainder next to another free block.                       *)
ShrinkIsSafe(p, n) ==
  LET h == mem[p - HDR] IN
  /\ n + 2 * HDR <= h.size
  /\ mem[h.next].free => h.next = NULL

(* a second free() of a pointer given back before stays in: it is caught *)
ContractCall ==
  \/ \E n \in MallocSizes : NoTightFit(AlignedSize(n)) /\ CallMalloc(n)
  \/ \E p \in DOMAIN owned : NoFreeNeighbour(p) /\ CallFree(p)
  \/ \E p \in given \ DOMAIN owned : CallFree(p)
  \/ \E p \in DOMAIN owned, n \in ReallocSizes :
       ShrinkIsSafe(p, n) /\ CallReallocInPlace(p, n)

ContractNext == ContractCall \/ Run \/ PageFault \/ Halted

ContractSpec == Init /\ [][ContractNext]_vars /\ WF_vars(Run)

-----------------------------------------------------------------------------
(* The first block that is split takes in the "block" at address 0, so the *)
(* list then ends NullSize bytes further on, at a link into the page table. *)
Fresh == mem[Start].next = NULL

TileEnd == IF Fresh THEN HeapEnd ELSE HeapEnd + NullSize

EndLinks == IF Fresh THEN {NULL} ELSE {PT, PTA}

BlockEnd(b) == b + mem[b].size

(* The blocks cover Start..TileEnd exactly: no two overlap, each is        *)
(* followed by a block or is the last one, each but the first follows one, *)
(* and the links of neighbours agree (insert_new_block() and               *)
(* allocate_block()).                                                      *)
ListTiles ==
  /\ Start \in Blocks /\ mem[Start].previous = NULL
  /\ \A b \in Blocks :
       /\ Start <= b /\ HDR <= mem[b].size /\ BlockEnd(b) <= TileEnd
       /\ IF BlockEnd(b) = TileEnd
            THEN mem[b].next \in EndLinks
            ELSE /\ BlockEnd(b) \in Blocks
                 /\ mem[b].next = BlockEnd(b)
                 /\ mem[BlockEnd(b)].previous = b
       /\ b # Start => /\ mem[b].previous \in Blocks
                       /\ BlockEnd(mem[b].previous) = b
  /\ \A a, b \in Blocks : a < b => BlockEnd(a) <= b

(* A block's free flag says whether a client holds it, and a held block is *)
(* large enough for its header and for what the client asked for.          *)
FlagsMatchOwners ==
  /\ \A b \in Blocks : mem[b].free <=> b + HDR \notin DOMAIN owned
  /\ \A p \in DOMAIN owned : p - HDR \in Blocks /\ HDR + owned[p] <= mem[p - HDR].size

(* Entry 0 of the page table, which the list walk uses as a header, is     *)
(* never written, so the machine does not fault.                           *)
PageTableKept ==
  /\ mem[NULL].previous = RootEntry
  /\ pc # "fault"

-----------------------------------------------------------------------------
(* One call outside the discipline, the last one: from a list that is as   *)
(* it should be any pointer may be freed and any block resized, with two   *)
(* neighbours free, with the page table for one, or with a block that has  *)
(* to move. Only a header written partly over the follower's is left out,  *)
(* which is what realloc() to 48 bytes in a block of 64 does (ata.c:215).  *)
Sound == ListTiles /\ FlagsMatchOwners

(* the header of a split lands on that of the follower, or clear of it *)
NoPartialFit(size) ==
  \A b \in Blocks : size <= mem[b].size => mem[b].size = size \/ size + HDR <= mem[b].size

AnyCall ==
  \/ \E n \in MallocSizes : NoPartialFit(AlignedSize(n)) /\ CallMalloc(n)
  \/ \E p \in given : CallFree(p)
  \/ \E p \in DOMAIN owned, n \in ReallocSizes :
       \/ NoPartialFit(n + HDR) /\ CallReallocInPlace(p, n)
       \/ CallReallocMove(p, n)

(* the last disjunct: the list is no longer sound and no call is made *)
LastCallNext ==
  \/ Sound /\ AnyCall
  \/ Run \/ PageFault \/ Halted
  \/ ~Sound /\ pc = "idle" /\ UNCHANGED vars

LastCallSpec == Init /\ [][LastCallNext]_vars /\ WF_vars(Run)

(* Even the call that breaks the list comes to an end: each turn of        *)
(* fuse_walkthrough() zeroes a free header (malloc.c:151-156). It returns, *)
(* panics, or has zeroed entry 0 of the page table.                        *)
LastCallEnds == (pc # "idle") ~> (pc \in {"idle", "panic", "fault"})

-----------------------------------------------------------------------------
(* free() of a pointer the client no longer holds never gets past the flag *)
(* test to the list: it panics (malloc.c:343).                             *)
DoubleFreeCaught ==
  [][pc = "idle" /\ pc' = "fuse_next" => call'.hdr + HDR \in DOMAIN owned]_vars

(* malloc() reports failure only when no free block whose header the walk  *)
(* accepts is large enough: the walk misses none (get_free_block()).       *)
FailsOnlyWhenNoneFits ==
  [][SearchFail => \A b \in Blocks :
                     Valid(b) /\ mem[b].free => mem[b].size < call.need]_vars

(* heap_init()'s "amount of bytes we can use" (malloc.c:46): what malloc() *)
(* hands out ends within the size bytes from start on.                     *)
HandedInRegion ==
  \A p \in DOMAIN owned : p + owned[p] <= Base + HeapSize

(* Every call comes back to its client or stops the machine in panic().    *)
CallsReturn == (pc # "idle") ~> (pc \in {"idle", "panic"})

(* What clients see is the Allocator; and what malloc() returns is nobody's, *)
(* as a pointer handed out twice would pass for one that is resized.       *)
AllocatorView == INSTANCE Allocator WITH held <- owned
AllocatorSpec ==
  /\ AllocatorView!Spec
  /\ [][FinishMalloc => call.at + HDR \notin DOMAIN owned]_vars

-----------------------------------------------------------------------------
(* The rest of the inductive invariant, on which the theorems of           *)
(* HeapProofs rest: what lies at address 0 and in the page table ...       *)
SystemHeaders ==
  /\ mem[NULL].size = NullSize /\ mem[NULL].free
  /\ mem[NULL].next \in (IF Fresh THEN {PT, PTA} ELSE {PTD})
  /\ \A s \in PageTableHeaders : ~mem[s].free /\ mem[s].next \in {NULL, Huge}

(* ... that no two free blocks are neighbours, as far as the walk reaches, *)
(* so that a split never merges ...                                        *)
NoFreePairs ==
  \A b \in Blocks :
    mem[b].free /\ mem[b].next \in Blocks /\ Valid(mem[b].next) => ~mem[mem[b].next].free

(* ... and what a call in progress may rely on.                            *)
CallInProgress ==
  /\ pc = "search" =>
       /\ call.op = "malloc"
       /\ call.req + HDR <= call.need
       /\ NoTightFit(call.need)
  /\ pc \in {"fuse_next", "fuse_prev"} =>
       /\ call.op = "free"
       /\ call.hdr \in Blocks
       /\ NoFreeNeighbour(call.hdr + HDR)

(* While a block is searched for, one that would do lies at the cursor or   *)
(* behind it; once the walk has left the blocks there is none.             *)
NonePassed ==
  pc = "search" =>
    \A b \in Blocks :
      Valid(b) /\ mem[b].free /\ call.need <= mem[b].size => call.at \in Blocks /\ call.at <= b

HeapInv ==
  /\ TypeOK /\ ListTiles /\ FlagsMatchOwners /\ PageTableKept
  /\ given \subseteq {b + HDR : b \in Blocks}
  /\ SystemHeaders /\ NoFreePairs /\ CallInProgress

(* What holds up to the end of the last call: a walk in progress is one    *)
(* over a sound list, and the bytes a moving realloc() copies to hold no   *)
(* header.                                                                 *)
CopyTargetApart ==
  \A a \in DOMAIN mem : a <= call.at \/ call.at + HDR + call.req <= a

LastCallInv ==
  /\ LinksInv /\ HeadersApart
  /\ pc = "search" =>
       /\ Sound
       /\ call.req + HDR <= call.need
       /\ call.op = "malloc" => NoPartialFit(call.need)
  /\ Fusing /\ call.op # "free" => CopyTargetApart
=============================================================================
