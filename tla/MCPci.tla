-------------------------------- MODULE MCPci --------------------------------
(***************************************************************************)
(* A TLC instance of the enumeration and its tree: any devices on the      *)
(* first two buses, a host bridge with one function or more, and any       *)
(* functions of the device whose functions stand for buses.                *)
(***************************************************************************)
EXTENDS PciTree

(* Host bridge, VGA with a self-test, IDE, a storage subclass without a     *)
(* name; on the next bus a bridge, a co-processor and a bridge with a       *)
(* subclass past the end of the table.                                      *)
MCHeader(class, subclass, cache, bist) ==
  [class_code |-> class, subclass |-> subclass, cache_line_size |-> cache, bist_capable |-> bist]

MCHeaders ==
  << << MCHeader(6, 0, 0, FALSE), MCHeader(3, 0, 16, TRUE), MCHeader(1, 1, 64, FALSE),
        MCHeader(1, 128, 0, FALSE) >>,
     << MCHeader(6, 4, 0, TRUE), MCHeader(64, 0, 64, FALSE), MCHeader(6, 32, 0, TRUE),
        MCHeader(64, 0, 0, FALSE) >>,
     << MCHeader(6, 7, 0, FALSE), MCHeader(12, 3, 0, FALSE), MCHeader(13, 6, 0, FALSE),
        MCHeader(2, 8, 0, FALSE) >> >>

MCSystem(locations) == [at \in locations |-> MCHeaders[at[1] + 1][at[2] + 1]]

OnBus(b, devices) == {<<b, d, 0>> : d \in devices}

(* a device has function 0 if it has any *)
Device(d, functions) ==
  {<<0, d, f>> : f \in functions \cup (IF functions = {} THEN {} ELSE {0})}

MCSystems ==
  {MCSystem(OnBus(0, D) \cup OnBus(1, E) \cup OnBus(2, {1})
            \cup Device(0, H) \cup Device(Slots - 2, F)) :
     D \in SUBSET (0..(Slots - 1)), E \in SUBSET (0..(Slots - 2)),
     H \in {{}, {1}}, F \in SUBSET (1..(Functions - 1))}
=============================================================================
