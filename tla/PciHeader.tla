------------------------------ MODULE PciHeader ------------------------------
(***************************************************************************)
(* What the firmware knows of a PCI function: the header pci_read_header() *)
(* copies from the configuration space, register after register, into a    *)
(* struct that is read by its fields, and the names pci_print_devtree()    *)
(* makes of them. A name is the tuple of the codes it stands for.          *)
(***************************************************************************)
EXTENDS Integers, Sequences

LOCAL INSTANCE Structs

Byte == 0..255

(* enum pci_class_code, enum pci_bridge_type *)
pci_class_bridge == 6
pci_pci2pci_bridge == 4

(* The fields of a function the firmware acts on; bist_capable is the top   *)
(* bit of the built-in self-test's byte.                                    *)
Header == [class_code : Byte, subclass : Byte, cache_line_size : Byte, bist_capable : BOOLEAN]

pci_dev_is_bridge(h) == h.class_code = pci_class_bridge /\ h.subclass = pci_pci2pci_bridge

-----------------------------------------------------------------------------
(* The layout *)

pci_header == << Fields(2, 4), Fields(1, 8) >>
AtClass    == << Fields(2, 4), Fields(1, 3) >>      \* the fields before class_code
AtBist     == << Fields(2, 4), Fields(1, 7) >>

ToBar2 == << Fields(4, 2) >>                        \* pci_general_device_data
pci_general_device_data ==
  ToBar2 \o << Fields(4, 5), Fields(2, 2), Fields(4, 1), Fields(1, 1), Fields(2, 1), Fields(1, 1),
               Fields(4, 1), Fields(1, 4) >>
pci2pci_bridge_data ==
  << Fields(4, 2), Fields(1, 6), Fields(2, 5), Fields(4, 2), Fields(2, 2), Fields(1, 1),
     Fields(2, 1), Fields(1, 1), Fields(4, 1), Fields(1, 2), Fields(2, 1) >>
pci2cbus_bridge_data ==
  << Fields(2, 4), Fields(1, 8), Fields(4, 1), Fields(2, 1), Fields(1, 6), Fields(4, 8),
     Fields(2, 1), Fields(1, 2), Fields(2, 2), Fields(4, 1) >>

Size(fields) == Padded(OffsetAfter(fields), 4)

(* pci_read_header(): the registers it copies, the first one past the end   *)
Limit(header_type) == IF header_type = 2 THEN 17 ELSE 15

(* The registers fit the part of pci_device_data they are written to, which *)
(* is as long as its longest union member, and the fields that are looked   *)
(* at, up to the base address the framebuffer would use, are where PCI has  *)
(* them: class at 11, the self-test at 15, the third base address at 24.    *)
ASSUME HeaderAssumption ==
  /\ \A s \in {pci_general_device_data, pci2pci_bridge_data} : Size(s) <= Size(pci2cbus_bridge_data)
  /\ \A type \in Byte : 4 * Limit(type) <= OffsetAfter(pci_header) + Size(pci2cbus_bridge_data)
  /\ OffsetAfter(AtClass) = 11 /\ OffsetAfter(AtBist) = 15
  /\ OffsetAfter(pci_header) + OffsetAfter(ToBar2) = 24

-----------------------------------------------------------------------------
(* The names *)

UNKNOWN == << >>                                     \* pci_unknown_str
CO_PROCESSOR == << 64 >>

pci_class_code_str == [c \in 0..19 |-> << c >>]

(* the class of a co-processor is looked for in the wrong field             *)
pci_get_dev_type_class_str(h) ==
  IF h.class_code < 20 THEN pci_class_code_str[h.class_code]
  ELSE IF h.cache_line_size = 64 THEN CO_PROCESSOR ELSE UNKNOWN

(* the names of all subclasses, class after class *)
pci_subclass_str ==
  [i \in 0..68 |-> IF i < 9  THEN << 1, i >>
             ELSE IF i < 18 THEN << 2, i - 9 >>
             ELSE IF i < 21 THEN << 3, i - 18 >>
             ELSE IF i < 23 THEN << 5, i - 21 >>
             ELSE IF i < 29 THEN << 7, i - 23 >>
             ELSE IF i < 36 THEN << 8, i - 29 >>
             ELSE IF i < 41 THEN << 9, i - 36 >>
             ELSE IF i < 51 THEN << 12, i - 41 >>
             ELSE IF i < 58 THEN << 13, i - 51 >>
             ELSE << 6, i - 58 >>]

(* Mutant: the names of one class begin one too early. *)
OffWithoutFabric(class_code) == IF class_code = 3 THEN 17 ELSE 18

(* and where the switch has those of a class begin: one too far for the     *)
(* classes 7 and 9, two for class 8                                         *)
Named == {1, 2, 3, 5, 6, 7, 8, 9, 12, 13}
off(class_code) ==
  CASE class_code = 1 -> 0   [] class_code = 2 -> 9   [] class_code = 3 -> 18
    [] class_code = 5 -> 21  [] class_code = 6 -> 58  [] class_code = 7 -> 24
    [] class_code = 8 -> 31  [] class_code = 9 -> 37  [] class_code = 12 -> 41
    [] class_code = 13 -> 51

HasName(h) == h.subclass # 128 /\ h.class_code \in Named

(* the subclass is not compared with the number of names                    *)
BeyondNames(h) == HasName(h) /\ off(h.class_code) + h.subclass > 68

pci_get_dev_type_subclass_str(h) ==
  IF HasName(h) THEN pci_subclass_str[off(h.class_code) + h.subclass] ELSE UNKNOWN

(* What the names should be: that of the code, of the classes whose names   *)
(* begin where the switch says. A subclass past the last one of its class   *)
(* takes a name of the next.                                                *)
Subclasses == [c \in {1, 2, 3, 5, 6, 12, 13} |->
  CASE c \in {1, 2} -> 9 [] c = 3 -> 3 [] c = 5 -> 2 [] c = 6 -> 11 [] c = 12 -> 10 [] c = 13 -> 7]

NamedRight(h, name) ==
  /\ h.subclass = 128 => name = UNKNOWN
  /\ h.class_code \in DOMAIN Subclasses /\ h.subclass < Subclasses[h.class_code]
       => name = << h.class_code, h.subclass >>
=============================================================================
