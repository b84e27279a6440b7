------------------------------- MODULE PciTree -------------------------------
(***************************************************************************)
(* post_and_init() enumerates the PCI buses and has what was found printed *)
(* by pci_print_devtree() (pci.c), a line for each entry of the array and  *)
(* one more for a self-test. What a line says comes from the header that   *)
(* was copied when the device was found, before its self-test was started. *)
(***************************************************************************)
EXTENDS Pci, Sequences

VARIABLES
  printing,    \* "not yet", "tree", "done", or "lost": a read through a bad pointer
  tree         \* the lines so far

treeVars == <<vars, printing, tree>>

TreeInit == Init /\ printing = "not yet" /\ tree = << >>

Enumerating == Enumerate /\ UNCHANGED <<printing, tree>>

PrintTree ==
  /\ pc = "done" /\ printing = "not yet"
  /\ printing' = "tree"
  /\ UNCHANGED <<vars, tree>>

(* the index of the loop is the number of lines *)
InTree == printing = "tree" /\ Len(tree) < dev_cnt

Line(dev, at) ==
  [at |-> at,
   subclass  |-> pci_get_dev_type_subclass_str(system[at]),
   class     |-> pci_get_dev_type_class_str(system[at]),
   self_test |-> dev.bist_executed]

PrintDevice ==
  /\ InTree
  /\ LET dev == array[Len(tree)] IN
       /\ ~BeyondNames(system[dev.at])
       /\ tree' = Append(tree, Line(dev, dev.at))
  /\ UNCHANGED <<vars, printing>>

(* Whatever lies behind the names is taken for a pointer to one: what it    *)
(* points to is printed, or it points nowhere.                              *)
PrintBeyond ==
  /\ InTree
  /\ LET dev == array[Len(tree)] IN
       /\ BeyondNames(system[dev.at])
       /\ \/ printing' = "lost" /\ UNCHANGED tree
          \/ tree' = Append(tree, [at |-> dev.at, subclass |-> << "stray" >>,
                                   class |-> pci_get_dev_type_class_str(system[dev.at]),
                                   self_test |-> dev.bist_executed])
             /\ UNCHANGED printing
  /\ UNCHANGED vars

TreeDone ==
  /\ printing = "tree" /\ Len(tree) >= dev_cnt
  /\ printing' = "done"
  /\ UNCHANGED <<vars, tree>>

PrintStep == PrintTree \/ PrintDevice \/ PrintBeyond \/ TreeDone

(* the firmware goes on with the ATA driver, or panic() hangs               *)
TreeFinished == (pc = "panic" \/ printing \in {"done", "lost"}) /\ UNCHANGED treeVars

TreeNext == Enumerating \/ PrintStep \/ TreeFinished

TreeSpec == TreeInit /\ [][TreeNext]_treeVars /\ WF_treeVars(Enumerating \/ PrintStep)

-----------------------------------------------------------------------------
(* A line says what is so of the device its place in the array stands for.  *)
SoundLine(k) ==
  LET h == system[tree[k].at] IN
  /\ k - 1 \in DOMAIN array /\ tree[k].at = array[k - 1].at
  /\ NamedRight(h, tree[k].subclass)
  /\ h.class_code < 20 => tree[k].class = << h.class_code >>
  /\ tree[k].self_test = h.bist_capable

(* The tree has a line for every device the enumeration found, in order     *)
(* and none twice, with the name of its class and subclass where the table  *)
(* and the switch agree, and a note on a self-test exactly where the device *)
(* has one: the loop never runs into an entry that was not stored.          *)
TreeSound ==
  EndsSomewhere =>
    /\ \A k \in 1..Len(tree) : SoundLine(k)
    /\ printing = "done" => {tree[k].at : k \in 1..Len(tree)}
                              = {array[i].at : i \in DOMAIN array}

(* Enumeration and tree come to an end, unless every function of the last   *)
(* device scanned is there: then the same buses are scanned over and over.  *)
TreeEnds ==
  (EndsSomewhere /\ pc = "start") ~> (pc = "panic" \/ printing \in {"done", "lost"})

-----------------------------------------------------------------------------
(* The inductive invariant of the tree in PciProofs, next to PciInv: an     *)
(* entry describes the device it stands for, and the lines are those of the *)
(* first entries of an array that does not change any more.                 *)
Described == \A i \in DOMAIN array : array[i] = NoDevice \/ array[i] = Entry(array[i].at)

TreePlace ==
  /\ \E L : tree \in Seq(L)
  /\ printing \in {"not yet", "tree", "done", "lost"}
  /\ printing = "not yet" => tree = << >>
  /\ printing # "not yet" => pc = "done"
  /\ EndsSomewhere => /\ printing # "not yet" => Len(tree) <= dev_cnt
                      /\ printing = "done" => Len(tree) = dev_cnt
                      /\ \A k \in 1..Len(tree) : SoundLine(k)

TreeInv == PciInv /\ Described /\ TreePlace
=============================================================================
