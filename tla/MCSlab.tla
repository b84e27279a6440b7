------------------------------- MODULE MCSlab -------------------------------
(***************************************************************************)
(* A TLC instance of the slab: regions whose bitmap has one byte, two, and *)
(* more bits than num_entries can count; a region that fits to the byte;   *)
(* and object sizes that do and do not divide the overhead.                *)
(***************************************************************************)
EXTENDS Slab

MCRegion(start, total, size) == [start |-> start, total |-> total, size |-> size]

MCRegions ==
  {MCRegion(64, 96, 8), MCRegion(64, 64, 9), MCRegion(0, 20, 1),
   MCRegion(64, 100, 4), MCRegion(8, 31, 15)}
=============================================================================
