------------------------------- MODULE MCBoot -------------------------------
(* Small machines for Boot: five contents of fw_cfg, two of the CMOS.       *)
EXTENDS Boot

Other(name) == [name |-> name, regions |-> << >>]

Ram(i) == Region(i * 16777216, 16777216, RAM)

(* QEMU with 128 MB and one region above; a list without RAM; no list; and  *)
(* one of so many regions that the page table fills the freed fwcfg_file    *)
McFwCfgs ==
  { << >>,
    << Other("bootorder") >>,
    << [name |-> E820_FILE, regions |-> << Region(1073725440, 16384, RESERVED) >>] >>,
    << Other("bootorder"),
       [name |-> E820_FILE,
        regions |-> << Region(0, 134217728, RAM), Region(268435456, 0, RAM),
                       Region(536870912, 1073741824, RAM) >>] >>,
    << [name |-> E820_FILE,
        regions |-> << Region(0, 16777216, RAM) >> \o [i \in 1..28 |-> Ram(i + 1)]] >> }

(* the tables and the stack, the heap's first pages, the code, the ROM *)
McPages == 0..15 \cup {112, 127, 240, 255}

(* 16 KB, and 4 MB *)
McCmosSizes == { << 0, 0 >>, << 255, 255 >> }
=============================================================================
