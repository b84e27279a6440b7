-------------------------------- MODULE Pool --------------------------------
(***************************************************************************)
(* What a slab promises its clients: a fixed set of objects, each held by  *)
(* at most one client at a time, and NULL only when all of them are held.  *)
(***************************************************************************)
EXTENDS Integers

CONSTANT NULL

VARIABLES objects,   \* the addresses there are, {} until the slab exists
          held,      \* those that clients hold
          result     \* what the last allocation returned

Init == objects = {} /\ held = {} /\ result = NULL

(* the slab comes into being *)
Open ==
  /\ objects = {}
  /\ held' = {} /\ result' = NULL

Take ==
  \E o \in objects \ held :
    /\ o # NULL
    /\ held' = held \cup {o} /\ result' = o
    /\ UNCHANGED objects

(* refused, as every object is held *)
Refuse ==
  /\ held = objects
  /\ result' = NULL
  /\ UNCHANGED <<objects, held>>

Give ==
  \E o \in held :
    /\ held' = held \ {o}
    /\ UNCHANGED <<objects, result>>

Next == Open \/ Take \/ Refuse \/ Give

Spec == Init /\ [][Next]_<<objects, held, result>>
=============================================================================
