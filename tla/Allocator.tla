----------------------------- MODULE Allocator -----------------------------
(***************************************************************************)
(* What malloc(), realloc() and free() promise the firmware: a client that *)
(* is handed n bytes at p has them to itself until it gives p back.        *)
(* The state is the clients' view only; headers, lists and searches are    *)
(* what an implementation adds.                                            *)
(***************************************************************************)
EXTENDS Integers

VARIABLE held      \* pointer handed out and not returned -> bytes asked for

Init == held = [p \in {} |-> 0]

(* the n bytes at p and the m bytes at q have no byte in common *)
Disjoint(p, n, q, m) == p + n <= q \/ q + m <= p

(* p with n bytes shares no byte with any other pointer the clients hold *)
Exclusive(p, n) == \A q \in DOMAIN held \ {p} : Disjoint(p, n, q, held[q])

(* malloc(), calloc(): a new pointer, whose bytes are nobody else's *)
Allocate ==
  \E p \in DOMAIN held' \ DOMAIN held :
    /\ p > 0
    /\ DOMAIN held' = DOMAIN held \cup {p}
    /\ \A q \in DOMAIN held : held'[q] = held[q]
    /\ held'[p] >= 0
    /\ Exclusive(p, held'[p])

(* free(): the pointer is given back, every other one is kept *)
Free ==
  \E p \in DOMAIN held : held' = [q \in DOMAIN held \ {p} |-> held[q]]

(* realloc() that leaves the block where it is *)
Resize ==
  \E p \in DOMAIN held :
    /\ DOMAIN held' = DOMAIN held
    /\ \A q \in DOMAIN held \ {p} : held'[q] = held[q]
    /\ Exclusive(p, held'[p])

(* realloc() that moves the content *)
Move ==
  \E p \in DOMAIN held, q \in DOMAIN held' \ DOMAIN held :
    /\ q > 0
    /\ DOMAIN held' = (DOMAIN held \ {p}) \cup {q}
    /\ \A r \in DOMAIN held \ {p} : held'[r] = held[r]
    /\ \A r \in DOMAIN held \ {p} : Disjoint(q, held'[q], r, held[r])

Next == Allocate \/ Free \/ Resize \/ Move

Spec == Init /\ [][Next]_held

(* No two pointers that clients hold share a byte. *)
HeldDisjoint ==
  \A p, q \in DOMAIN held : p # q => Disjoint(p, held[p], q, held[q])
=============================================================================
