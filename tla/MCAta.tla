-------------------------------- MODULE MCAta --------------------------------
(* Small machines for Ata: two buses, up to two controllers.               *)
EXTENDS Ata

(* a SCSI controller, a SATA controller in native mode, an IDE controller    *)
Function(subclass, interface) ==
  [class_code |-> pci_class_mass_storage_controller, subclass |-> subclass, interface |-> interface]
Scsi   == Function(0, {})
Native == Function(6, {0})
Legacy == Function(1, {7})

(* a second controller is looked at with and without a store before it      *)
McFunctionLists == { << Scsi, Legacy >>, << Legacy, Scsi >>, << Native, Legacy >>, << Legacy, Legacy >> }

(* what is on a bus: every pair of drives on the first, a few on the second *)
McDriveLists ==
  { [b \in BusIds |-> IF b = 1 THEN first ELSE second] :
      first \in [DriveIds -> DriveKind],
      second \in {[d \in DriveIds |-> "none"], [d \in DriveIds |-> IF d = 1 THEN "ata" ELSE "none"]} }
=============================================================================
