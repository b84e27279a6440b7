------------------------------- MODULE MCHeap -------------------------------
(***************************************************************************)
(* TLC instances of the heap with one clause of the client discipline of   *)
(* HeapContract dropped; calls are made while the list is sound.           *)
(***************************************************************************)
EXTENDS HeapContract

Stop == ~Sound /\ pc = "idle" /\ UNCHANGED vars

(* The discipline without its NoFreeNeighbour clause: any held pointer may *)
(* be freed, as every caller in the tree does.                             *)
FreeAnywhereNext ==
  \/ Sound /\ (ContractCall \/ \E p \in DOMAIN owned : CallFree(p))
  \/ Run \/ PageFault \/ Halted \/ Stop

FreeAnywhereSpec == Init /\ [][FreeAnywhereNext]_vars /\ WF_vars(Run)

(* The discipline with realloc() of a block that has to move added.        *)
MovingReallocNext ==
  \/ /\ Sound
     /\ \/ ContractCall
        \/ \E p \in DOMAIN owned, n \in ReallocSizes :
             NoFreeNeighbour(p) /\ CallReallocMove(p, n)
  \/ Run \/ PageFault \/ Halted \/ Stop

MovingReallocSpec == Init /\ [][MovingReallocNext]_vars /\ WF_vars(Run)

(* "Helper to combine two consecutive memory blocks together"              *)
(* (malloc.c:126): fusing a block with the one that follows it in memory   *)
(* leaves one block, at the lower address, with the size of both.          *)
FuseCombines ==
  [][FuseNext /\ mem[call.hdr].next = call.hdr + mem[call.hdr].size
       => mem'[call.hdr].size = mem[call.hdr].size + mem[mem[call.hdr].next].size]_vars

(* "Pointer to reallocated memory" (malloc.c:318): between calls, the      *)
(* block behind every pointer a client holds is marked as taken.           *)
HeldIsTaken ==
  pc = "idle" => \A p \in DOMAIN owned : ~mem[p - HDR].free
=============================================================================
