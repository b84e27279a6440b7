------------------------------- MODULE AtaProofs -------------------------------
(***************************************************************************)
(* For any number of buses, any drives on them and any functions: every    *)
(* record is the answer of drive 0 of its bus and agrees with its          *)
(* signature, and no ata_drive is lost or freed twice.                     *)
(***************************************************************************)
EXTENDS Ata, FiniteSetTheorems, TLAPS

-----------------------------------------------------------------------------
(* The records of a list of controllers.                                   *)

LEMMA AppendOne ==
  ASSUME NEW S, NEW l \in Seq(S), NEW x \in S
  PROVE  /\ Append(l, x) \in Seq(S) /\ Len(l) \in Nat /\ Len(Append(l, x)) = Len(l) + 1
         /\ DOMAIN l = 1..Len(l) /\ DOMAIN Append(l, x) = 1..(Len(l) + 1)
         /\ \A i \in 1..Len(l) : Append(l, x)[i] = l[i]
         /\ Append(l, x)[Len(l) + 1] = x
OBVIOUS

LEMMA SomeBuses == Bases \in 1..4 /\ Polls \in Nat \ {0} /\ BusIds = 1..Bases
BY AtaAssumption DEF BusIds

(* A controller without buses has no records.                              *)
LEMMA NoBusesNoRecords ==
  ASSUME NEW l \in Seq(Seq(AtaBus))
  PROVE  Records(Append(l, << >>)) = Records(l)
<1> DEFINE more == Append(l, << >>)
<1>1. /\ DOMAIN l = 1..Len(l) /\ DOMAIN more = 1..(Len(l) + 1) /\ Len(l) \in Nat
      /\ \A i \in 1..Len(l) : more[i] = l[i]
      /\ Len(more[Len(l) + 1]) = 0
  <2>1. << >> \in Seq(AtaBus)
    OBVIOUS
  <2> QED
    BY <2>1, AppendOne
<1>2. \A r \in (DOMAIN more) \X BusIds \X DriveIds :
        r[1] \in DOMAIN l \/ ~ r[2] <= Len(more[r[1]])
  BY <1>1, AtaAssumption DEF BusIds
<1> QED
  BY <1>1, <1>2 DEF Records

(* A bus whose drives are not known yet has none either.                   *)
LEMMA NewBusNoRecords ==
  ASSUME NEW l \in Seq(Seq(AtaBus)), NEW bs \in Seq(AtaBus), NEW b \in AtaBus,
         \A d \in DriveIds : b.drive_array[d] = NoDrive
  PROVE  Records(Append(l, Append(bs, b))) = Records(Append(l, bs))
<1> DEFINE more == Append(l, Append(bs, b))
           less == Append(l, bs)
<1>1. /\ Append(bs, b) \in Seq(AtaBus) /\ Len(bs) \in Nat /\ Len(Append(bs, b)) = Len(bs) + 1
      /\ \A i \in 1..Len(bs) : Append(bs, b)[i] = bs[i]
      /\ Append(bs, b)[Len(bs) + 1] = b
  BY AppendOne
<1>2. /\ DOMAIN more = 1..(Len(l) + 1) /\ DOMAIN less = 1..(Len(l) + 1) /\ Len(l) \in Nat
      /\ \A i \in 1..Len(l) : more[i] = less[i]
      /\ more[Len(l) + 1] = Append(bs, b) /\ less[Len(l) + 1] = bs
  <2>1. \A x \in Seq(AtaBus) :
          /\ DOMAIN Append(l, x) = 1..(Len(l) + 1) /\ Len(l) \in Nat
          /\ \A i \in 1..Len(l) : Append(l, x)[i] = l[i]
          /\ Append(l, x)[Len(l) + 1] = x
    BY AppendOne
  <2> QED
    BY <1>1, <2>1
<1>3. ASSUME NEW r \in (1..(Len(l) + 1)) \X BusIds \X DriveIds
      PROVE  r[2] <= Len(more[r[1]]) /\ more[r[1]][r[2]].drive_array[r[3]] # NoDrive
               <=> r[2] <= Len(less[r[1]]) /\ less[r[1]][r[2]].drive_array[r[3]] # NoDrive
  <2>1. CASE r[1] \in 1..Len(l)
    BY <1>2, <2>1
  <2>2. CASE r[1] = Len(l) + 1
    <3>1. more[r[1]] = Append(bs, b) /\ less[r[1]] = bs /\ r[2] \in Nat \ {0} /\ r[3] \in DriveIds
      BY <1>2, <2>2, AtaAssumption DEF BusIds
    <3>2. CASE r[2] \in 1..Len(bs)
      BY <1>1, <3>1, <3>2
    <3>3. CASE r[2] = Len(bs) + 1
      BY <1>1, <3>1, <3>3
    <3>4. CASE r[2] > Len(bs) + 1
      BY <1>1, <3>1, <3>4
    <3> QED
      BY <1>1, <3>1, <3>2, <3>3, <3>4
  <2> QED
    <3>1. r[1] \in 1..Len(l) \/ r[1] = Len(l) + 1
      BY <1>2
    <3> QED
      BY <2>1, <2>2, <3>1
<1> QED
  BY <1>2, <1>3 DEF Records

(* Which drive of its last bus is active makes no difference.              *)
LEMMA ActiveNotRecorded ==
  ASSUME NEW l \in Seq(Seq(AtaBus)), NEW bs \in Seq(AtaBus), NEW b \in AtaBus, NEW c \in AtaBus,
         c.drive_array = b.drive_array
  PROVE  Records(Append(l, Append(bs, c))) = Records(Append(l, Append(bs, b)))
<1> DEFINE more == Append(l, Append(bs, c))
           less == Append(l, Append(bs, b))
<1>1. \A x \in AtaBus :
        /\ Append(bs, x) \in Seq(AtaBus) /\ Len(bs) \in Nat /\ Len(Append(bs, x)) = Len(bs) + 1
        /\ \A i \in 1..Len(bs) : Append(bs, x)[i] = bs[i]
        /\ Append(bs, x)[Len(bs) + 1] = x
  BY AppendOne
<1>2. /\ DOMAIN more = 1..(Len(l) + 1) /\ DOMAIN less = 1..(Len(l) + 1) /\ Len(l) \in Nat
      /\ \A i \in 1..Len(l) : more[i] = less[i]
      /\ more[Len(l) + 1] = Append(bs, c) /\ less[Len(l) + 1] = Append(bs, b)
  <2>1. \A x \in Seq(AtaBus) :
          /\ DOMAIN Append(l, x) = 1..(Len(l) + 1) /\ Len(l) \in Nat
          /\ \A i \in 1..Len(l) : Append(l, x)[i] = l[i]
          /\ Append(l, x)[Len(l) + 1] = x
    BY AppendOne
  <2> QED
    BY <1>1, <2>1
<1>3. ASSUME NEW i \in 1..(Len(l) + 1), NEW j \in BusIds, NEW d \in DriveIds
      PROVE  j <= Len(more[i]) /\ more[i][j].drive_array[d] # NoDrive
               <=> j <= Len(less[i]) /\ less[i][j].drive_array[d] # NoDrive
  <2>1. CASE i \in 1..Len(l)
    BY <1>2, <2>1
  <2>2. CASE i = Len(l) + 1
    <3>1. more[i] = Append(bs, c) /\ less[i] = Append(bs, b) /\ j \in Nat \ {0}
      BY <1>2, <2>2, AtaAssumption DEF BusIds
    <3>2. CASE j \in 1..Len(bs)
      BY <1>1, <3>1, <3>2
    <3>3. CASE j = Len(bs) + 1
      BY <1>1, <3>1, <3>3
    <3>4. CASE j > Len(bs) + 1
      BY <1>1, <3>1, <3>4
    <3> QED
      BY <1>1, <3>1, <3>2, <3>3, <3>4
  <2> QED
    <3>1. i \in 1..Len(l) \/ i = Len(l) + 1
      BY <1>2
    <3> QED
      BY <2>1, <2>2, <3>1
<1> QED
  BY <1>2, <1>3 DEF Records

(* Recording one drive of the last bus adds one record.                    *)
LEMMA OneMoreRecord ==
  ASSUME NEW l \in Seq(Seq(AtaBus)), NEW bs \in Seq(AtaBus), NEW b \in AtaBus,
         NEW c \in AtaBus, NEW d \in DriveIds,
         b.drive_array[d] = NoDrive, c.drive_array[d] # NoDrive,
         \A e \in DriveIds : e # d => c.drive_array[e] = b.drive_array[e],
         Len(bs) + 1 \in BusIds
  PROVE  LET one == << Len(l) + 1, Len(bs) + 1, d >>
             now == Records(Append(l, Append(bs, b)))
         IN  /\ one \notin now
             /\ Records(Append(l, Append(bs, c))) = now \cup {one}
<1> DEFINE more == Append(l, Append(bs, c))
           less == Append(l, Append(bs, b))
           one == << Len(l) + 1, Len(bs) + 1, d >>
<1>1. \A x \in AtaBus :
        /\ Append(bs, x) \in Seq(AtaBus) /\ Len(bs) \in Nat /\ Len(Append(bs, x)) = Len(bs) + 1
        /\ \A i \in 1..Len(bs) : Append(bs, x)[i] = bs[i]
        /\ Append(bs, x)[Len(bs) + 1] = x
  BY AppendOne
<1>2. /\ DOMAIN more = 1..(Len(l) + 1) /\ DOMAIN less = 1..(Len(l) + 1) /\ Len(l) \in Nat
      /\ \A i \in 1..Len(l) : more[i] = less[i]
      /\ more[Len(l) + 1] = Append(bs, c) /\ less[Len(l) + 1] = Append(bs, b)
  <2>1. \A x \in Seq(AtaBus) :
          /\ DOMAIN Append(l, x) = 1..(Len(l) + 1) /\ Len(l) \in Nat
          /\ \A i \in 1..Len(l) : Append(l, x)[i] = l[i]
          /\ Append(l, x)[Len(l) + 1] = x
    BY AppendOne
  <2> QED
    BY <1>1, <2>1
<1>3. ASSUME NEW i \in 1..(Len(l) + 1), NEW j \in BusIds, NEW e \in DriveIds,
             << i, j, e >> # one
      PROVE  j <= Len(more[i]) /\ more[i][j].drive_array[e] # NoDrive
               <=> j <= Len(less[i]) /\ less[i][j].drive_array[e] # NoDrive
  <2>1. CASE i \in 1..Len(l)
    BY <1>2, <2>1
  <2>2. CASE i = Len(l) + 1
    <3>1. more[i] = Append(bs, c) /\ less[i] = Append(bs, b) /\ j \in Nat \ {0}
      BY <1>2, <2>2, AtaAssumption DEF BusIds
    <3>2. CASE j \in 1..Len(bs)
      BY <1>1, <3>1, <3>2
    <3>3. CASE j = Len(bs) + 1
      <4>1. e # d
        BY <1>3, <2>2, <3>3
      <4> QED
        BY <1>1, <3>1, <3>3, <4>1
    <3>4. CASE j > Len(bs) + 1
      BY <1>1, <3>1, <3>4
    <3> QED
      BY <1>1, <3>1, <3>2, <3>3, <3>4
  <2> QED
    <3>1. i \in 1..Len(l) \/ i = Len(l) + 1
      BY <1>2
    <3> QED
      BY <2>1, <2>2, <3>1
<1>4. one \in (1..(Len(l) + 1)) \X BusIds \X DriveIds
  BY <1>2
<1>5. one \notin Records(less)
  BY <1>1, <1>2 DEF Records
<1>6. one \in Records(more)
  <2>1. more[Len(l) + 1][Len(bs) + 1].drive_array[d] # NoDrive /\ Len(bs) + 1 <= Len(more[Len(l) + 1])
    BY <1>1, <1>2
  <2> QED
    BY <1>2, <1>4, <2>1 DEF Records
<1>7. ASSUME NEW x \in (1..(Len(l) + 1)) \X BusIds \X DriveIds, x # one
      PROVE  x \in Records(more) <=> x \in Records(less)
  <2>1. x = << x[1], x[2], x[3] >> /\ x[1] \in 1..(Len(l) + 1) /\ x[2] \in BusIds /\ x[3] \in DriveIds
    OBVIOUS
  <2> QED
    BY <1>2, <1>3, <1>7, <2>1 DEF Records
<1>8. /\ Records(more) \subseteq (1..(Len(l) + 1)) \X BusIds \X DriveIds
      /\ Records(less) \subseteq (1..(Len(l) + 1)) \X BusIds \X DriveIds
  BY <1>2 DEF Records
<1> QED
  BY <1>5, <1>6, <1>7, <1>8

-----------------------------------------------------------------------------
(* The machine.                                                            *)

(* what the driver writes to select a drive selects drive 0 *)
LEMMA SelectsZero ==
  ASSUME NEW d \in DriveIds
  PROVE  DriveOf(DriveHead(d)) = 0
BY DEF DriveOf, DriveHead, DriveIds, ALWAYS_SET, DRIVE_SELECTION, DEVICE_BIT

(* a signature is left by a drive of its kind *)
LEMMA SignatureIsOfADrive ==
  ASSUME NEW b \in BusIds, LbaRegisters(b) \in {ata_drive_id_sata, ata_drive_id_atapi},
         command \in [BusIds -> {"none", "busy", "done"}], drives[b][selected[b]] \in DriveKind,
         NEW of
  PROVE  SaysOf([id |-> LbaRegisters(b), of |-> of], drives[b][selected[b]])
<1>1. LbaRegisters(b) # 0 /\ ata_drive_id_sata # ata_drive_id_atapi
  BY DEF ata_drive_id_sata, ata_drive_id_atapi
<1>2. command[b] = "done" /\ Target(b) \in {"sata", "atapi"}
  BY <1>1 DEF LbaRegisters, Target, DriveKind
<1>3. CASE Target(b) = "sata"
  BY <1>1, <1>2, <1>3 DEF LbaRegisters, Target, SaysOf
<1>4. CASE Target(b) = "atapi"
  BY <1>1, <1>2, <1>4 DEF LbaRegisters, Target, SaysOf
<1> QED
  BY <1>2, <1>3, <1>4

(* a drive that is ready without an error is there *)
LEMMA ReadyIsADrive ==
  ASSUME NEW b \in BusIds, NEW s \in StatusBits(b), ERROR \notin s, DriveReady(s)
  PROVE  drives[b][selected[b]] # "none"
<1>0. READY \in s
  BY DEF DriveReady
<1> SUFFICES ASSUME Target(b) = "none" PROVE FALSE
  BY DEF Target
<1>1. CASE Empty(b) /\ ones
  <2>1. s = 0..7
    BY <1>1 DEF StatusBits
  <2> QED
    BY <2>1 DEF ERROR
<1>2. CASE ~(Empty(b) /\ ones)
  <2>1. s = {}
    BY <1>2 DEF StatusBits
  <2> QED
    BY <1>0, <2>1
<1> QED
  BY <1>1, <1>2

-----------------------------------------------------------------------------
(* The steps.                                                              *)

LEMMA InitInv == Init => AtaInv
<1> SUFFICES ASSUME Init PROVE AtaInv
  OBVIOUS
<1> USE AtaAssumption
<1>1. NewBus(1) \in AtaBus /\ NoDrive \in OfDrive
  BY DEF NewBus, NoDrive, AtaBus, OfDrive, DriveIds, BusIds
<1>2. ~Probing /\ ~Identifying
  BY DEF Init, Probing, Identifying
<1>3. functions \in Seq([class_code : 0..255, subclass : 0..255, interface : SUBSET (0..7)])
  BY DEF Init
<1>4. TypeOK
  <2>1. << >> \in Seq(AtaBus) /\ << >> \in Seq(Seq(AtaBus)) /\ Len(functions) \in Nat
    BY <1>3
  <2> QED
    BY <1>1, <2>1 DEF Init, TypeOK, BusIds, DriveIds
<1>5. AnsweredByDriveZero
  BY <1>2 DEF Init, AnsweredByDriveZero, Known
<1>6. Records(Lists) = {}
  <2>1. Lists = Append(<< >>, << >>)
    BY <1>2 DEF Init, Lists
  <2>2. << >> \in Seq(Seq(AtaBus))
    OBVIOUS
  <2>3. Records(Append(<< >>, << >>)) = Records(<< >>)
    BY <2>2, NoBusesNoRecords
  <2> QED
    BY <2>1, <2>3 DEF Records
<1>7. DrivesKept /\ IsFiniteSet(Records(Lists))
  BY <1>2, <1>6, FS_EmptySet DEF Init, DrivesKept
<1>8. Place /\ OnlyDriveZero /\ NotYetRecorded /\ ListPlace
  BY <1>2 DEF Init, Place, OnlyDriveZero, NotYetRecorded, ListPlace, Probing, BusIds
<1> QED
  BY <1>4, <1>5, <1>7, <1>8 DEF AtaInv

(* what a step leaves of the list and the page table *)
ListAfter == (list' = "ended" /\ page0' = FALSE) \/ UNCHANGED <<list, page0>>

(* After a drive the records are those of the list with its bus at the end, *)
(* whether the bus is still in work or not.                                *)
LEMMA AfterDriveKeeps ==
  ASSUME AtaInv, Probing, NEW b \in AtaBus, b.base = base,
         \A d \in DriveIds : b.drive_array[d] # NoDrive =>
           b.drive_array[d].of = 0 /\ SaysOf(b.drive_array[d], drives[base][0]),
         \A d \in DriveIds : d < drive => b.drive_array[d] = NoDrive,
         AfterDrive(b), UNCHANGED <<machine, offset, ides>>,
         selected' \in [BusIds -> {0}], command' \in [BusIds -> {"none", "busy", "done"}],
         waits' \in 0..Polls, blocks' \in Nat, ListAfter,
         IsFiniteSet(Records(Append(ides, Append(buses, b)))),
         blocks' = Cardinality(Records(Append(ides, Append(buses, b))))
  PROVE  AtaInv'
<1> USE SomeBuses
<1>0. TypeOK /\ AnsweredByDriveZero /\ DrivesKept /\ Place /\ ListPlace
  BY DEF AtaInv
<1>1. /\ ~Identifying' /\ pc' \in {"select", "bus"} /\ (Probing' <=> drive = 1)
      /\ pc' # "allocate"
  <2>1. CASE drive = 1
    BY <2>1 DEF AfterDrive, Identifying, Probing
  <2>2. CASE drive # 1
    BY <2>2 DEF AfterDrive, Identifying, Probing
  <2> QED
    BY <2>1, <2>2
<1>2. base \in BusIds /\ base \in Nat
  <2>1. base \in 1..(Bases + 1) /\ base <= Bases
    BY <1>0 DEF Place, TypeOK
  <2> QED
    BY <2>1
<1>3. /\ Append(buses, b) \in Seq(AtaBus) /\ Len(buses) \in Nat
      /\ Len(Append(buses, b)) = Len(buses) + 1
      /\ DOMAIN buses = 1..Len(buses) /\ DOMAIN Append(buses, b) = 1..(Len(buses) + 1)
      /\ \A i \in 1..Len(buses) : Append(buses, b)[i] = buses[i]
      /\ Append(buses, b)[Len(buses) + 1] = b
  <2>1. buses \in Seq(AtaBus)
    BY <1>0 DEF TypeOK
  <2> QED
    BY <2>1, AppendOne
<1>4. TypeOK'
  <2>1. buses' \in Seq(AtaBus) /\ Len(buses') <= Bases /\ base' \in 1..(Bases + 1)
    <3>1. buses \in Seq(AtaBus) /\ Len(buses) <= Bases /\ Len(buses) < base
      BY <1>0 DEF TypeOK, Place
    <3>2. CASE drive = 1
      BY <1>2, <3>1, <3>2 DEF AfterDrive
    <3>3. CASE drive # 1
      <4>1. buses' = Append(buses, b) /\ base' = base + 1
        BY <3>3 DEF AfterDrive
      <4> QED
        BY <1>2, <1>3, <3>1, <4>1
    <3> QED
      BY <3>2, <3>3
  <2>2. \A i, j \in DOMAIN buses' : i < j => buses'[i].base < buses'[j].base
    <3>1. CASE drive = 1
      BY <1>0, <3>1 DEF AfterDrive, TypeOK
    <3>2. CASE drive # 1
      <4>1. buses' = Append(buses, b)
        BY <3>2 DEF AfterDrive
      <4>2. \A i, j \in 1..Len(buses) : i < j => buses[i].base < buses[j].base
        BY <1>0, <1>3 DEF TypeOK
      <4>3. \A i \in 1..Len(buses) : buses[i].base < b.base
        BY <1>0, <1>3 DEF Place
      <4> QED
        BY <1>3, <4>1, <4>2, <4>3
    <3> QED
      BY <3>1, <3>2
  <2>3. pc' \in {"function", "bus", "store"} \/ Probing' \/ Ended'
    BY <1>1 DEF Probing, Identifying
  <2>4. bus' \in AtaBus /\ drive' \in DriveIds
    BY <1>0 DEF AfterDrive, TypeOK, DriveIds
  <2>5. selected' \in [BusIds -> DriveIds]
    BY DEF DriveIds
  <2>6. /\ offset' \in 1..(Len(functions') + 1) /\ ides' \in Seq(Seq(AtaBus))
        /\ list' \in {"sound", "ended", "overlaid"} /\ page0' \in BOOLEAN
    BY <1>0 DEF TypeOK, machine, ListAfter
  <2> QED
    BY <2>1, <2>2, <2>3, <2>4, <2>5, <2>6 DEF TypeOK
<1>5. AnsweredByDriveZero'
  <2>1. Known' \subseteq Known \cup {b}
    <3>1. {buses'[i] : i \in DOMAIN buses'} \subseteq {buses[i] : i \in DOMAIN buses} \cup {b}
      BY <1>3 DEF AfterDrive
    <3>2. (IF Probing' THEN {bus'} ELSE {}) \subseteq {b}
      BY <1>1 DEF AfterDrive
    <3> QED
      BY <3>1, <3>2 DEF Known
  <2> QED
    BY <1>0, <2>1 DEF AnsweredByDriveZero, machine
<1>6. Lists' = Append(ides, Append(buses, b))
  BY <1>1 DEF AfterDrive, Lists
<1>7. Records(Lists)' = Records(Append(ides, Append(buses, b)))
  BY <1>6 DEF Records
<1>8. DrivesKept' /\ IsFiniteSet(Records(Lists))'
  BY <1>1, <1>7 DEF DrivesKept
<1>9. Place'
  <2>1. functions' \in FunctionLists /\ drives' \in DriveLists /\ ones' \in BOOLEAN
    BY <1>0 DEF Place, machine
  <2>2. offset' <= Len(functions')
    BY <1>0 DEF Place, machine
  <2>3. Len(buses') < base' /\ \A i \in DOMAIN buses' : buses'[i].base < base'
    <3>1. \A i \in 1..Len(buses) : buses[i].base < base /\ buses[i].base \in Nat
      <4>1. \A i \in 1..Len(buses) : buses[i].base < base
        BY <1>0, <1>3 DEF Place
      <4>2. \A i \in 1..Len(buses) : buses[i] \in AtaBus
        BY <1>0 DEF TypeOK
      <4>3. \A x \in AtaBus : x.base \in Nat
        BY DEF AtaBus
      <4> QED
        BY <4>1, <4>2, <4>3
    <3>2. Len(buses) < base
      BY <1>0 DEF Place
    <3>3. CASE drive = 1
      BY <1>2, <1>3, <3>1, <3>2, <3>3 DEF AfterDrive
    <3>4. CASE drive # 1
      <4>1. buses' = Append(buses, b) /\ base' = base + 1
        BY <3>4 DEF AfterDrive
      <4> QED
        BY <1>2, <1>3, <3>1, <3>2, <4>1
    <3> QED
      BY <3>3, <3>4
  <2>4. Probing' => base' <= Bases /\ bus'.base = base'
    BY <1>1, <1>2 DEF AfterDrive, BusIds
  <2> QED
    BY <1>1, <2>1, <2>2, <2>3, <2>4 DEF Place
<1>10. OnlyDriveZero' /\ ListPlace'
  BY <1>0, <1>1 DEF OnlyDriveZero, ListPlace, ListAfter
<1>11. NotYetRecorded'
  BY <1>1 DEF NotYetRecorded, AfterDrive, DriveIds
<1> QED
  BY <1>4, <1>5, <1>8, <1>9, <1>10, <1>11 DEF AtaInv

(* The bus in work goes on as it is.                                       *)
LEMMA NothingRecorded ==
  ASSUME AtaInv, Probing, AfterDrive(bus), UNCHANGED <<machine, offset, ides>>,
         selected' \in [BusIds -> {0}], command' \in [BusIds -> {"none", "busy", "done"}],
         waits' \in 0..Polls, ListAfter,
         blocks' = blocks - (IF Identifying THEN 1 ELSE 0)
  PROVE  AtaInv'
<1>1. /\ bus \in AtaBus /\ bus.base = base /\ pc # "reset"
      /\ \A d \in DriveIds : d < drive => bus.drive_array[d] = NoDrive
  <2>1. pc # "reset"
    BY DEF Probing, Identifying
  <2>2. bus \in AtaBus /\ bus.base = base /\ drive \in DriveIds
    BY DEF AtaInv, TypeOK, Place
  <2>3. \A d \in DriveIds : d < drive => d <= drive
    BY <2>2 DEF DriveIds
  <2> QED
    BY <2>1, <2>2, <2>3 DEF AtaInv, NotYetRecorded
<1>2. \A d \in DriveIds : bus.drive_array[d] # NoDrive =>
        bus.drive_array[d].of = 0 /\ SaysOf(bus.drive_array[d], drives[base][0])
  BY <1>1 DEF AtaInv, AnsweredByDriveZero, Known
<1>3. Lists = Append(ides, Append(buses, bus))
  BY DEF Lists
<1>4. IsFiniteSet(Records(Lists)) /\ Cardinality(Records(Lists)) \in Nat
  BY <1>1, FS_CardinalityType DEF AtaInv
<1>5. blocks' = Cardinality(Records(Lists))
  BY <1>1, <1>4 DEF AtaInv, DrivesKept
<1> QED
  BY <1>1, <1>2, <1>3, <1>4, <1>5, AfterDriveKeeps

(* What drive 0 answered is recorded of the drive in work.                 *)
LEMMA DriveRecorded ==
  ASSUME AtaInv, Identifying, NEW id \in {ata_drive_id_ata, ata_drive_id_sata, ata_drive_id_atapi},
         AfterDrive([bus EXCEPT !.drive_array[drive] = [id |-> id, of |-> selected[base]]]),
         SaysOf([id |-> id, of |-> selected[base]], drives[base][selected[base]]),
         UNCHANGED <<machine, bound, offset, waits, result>>
  PROVE  AtaInv'
<1> DEFINE r == [id |-> id, of |-> selected[base]]
           b == [bus EXCEPT !.drive_array[drive] = r]
<1>1. /\ bus \in AtaBus /\ bus.base = base /\ drive \in DriveIds
      /\ base \in BusIds /\ selected \in [BusIds -> {0}] /\ Probing /\ pc # "reset"
      /\ \A d \in DriveIds : d <= drive => bus.drive_array[d] = NoDrive
  <2>1. Probing /\ pc # "reset"
    BY DEF Identifying, Probing
  <2>2. bus \in AtaBus /\ bus.base = base /\ drive \in DriveIds
    BY <2>1 DEF AtaInv, TypeOK, Place
  <2>3. base \in 1..(Bases + 1) /\ base <= Bases
    BY <2>1 DEF AtaInv, TypeOK, Place
  <2>4. selected \in [BusIds -> {0}]
    BY DEF AtaInv, TypeOK, OnlyDriveZero
  <2>5. \A d \in DriveIds : d <= drive => bus.drive_array[d] = NoDrive
    BY <2>1 DEF AtaInv, NotYetRecorded
  <2> QED
    BY <2>1, <2>2, <2>3, <2>4, <2>5, SomeBuses
<1>2. r \in OfDrive /\ r.id # 0 /\ r # NoDrive /\ r.of = 0 /\ SaysOf(r, drives[base][0])
  BY <1>1 DEF OfDrive, NoDrive, ata_drive_id_ata, ata_drive_id_sata, ata_drive_id_atapi
<1>3. /\ b \in AtaBus /\ b.base = base /\ b.drive_array[drive] = r
      /\ \A e \in DriveIds : e # drive => b.drive_array[e] = bus.drive_array[e]
  BY <1>1, <1>2 DEF AtaBus
<1>4. \A d \in DriveIds : b.drive_array[d] # NoDrive =>
        b.drive_array[d].of = 0 /\ SaysOf(b.drive_array[d], drives[base][0])
  <2>1. bus \in Known
    BY <1>1 DEF Known
  <2>2. \A d \in DriveIds : bus.drive_array[d] # NoDrive =>
          bus.drive_array[d].of = 0 /\ SaysOf(bus.drive_array[d], drives[base][0])
    BY <1>1, <2>1 DEF AtaInv, AnsweredByDriveZero
  <2> QED
    BY <1>2, <1>3, <2>2
<1>5. Lists = Append(ides, Append(buses, bus))
  BY <1>1 DEF Lists
<1> DEFINE now == Records(Append(ides, Append(buses, bus)))
           one == << Len(ides) + 1, Len(buses) + 1, drive >>
<1>6. IsFiniteSet(now) /\ blocks = Cardinality(now) + 1
  BY <1>1, <1>5 DEF AtaInv, DrivesKept
<1>7. one \notin now /\ Records(Append(ides, Append(buses, b))) = now \cup {one}
  <2>1. ides \in Seq(Seq(AtaBus)) /\ buses \in Seq(AtaBus) /\ Len(buses) + 1 \in BusIds
    BY <1>1, SomeBuses DEF AtaInv, TypeOK, Place, BusIds
  <2>2. /\ drive \in DriveIds /\ bus.drive_array[drive] = NoDrive /\ b.drive_array[drive] # NoDrive
        /\ \A e \in DriveIds : e # drive => b.drive_array[e] = bus.drive_array[e]
        /\ bus \in AtaBus /\ b \in AtaBus
    BY <1>1, <1>2, <1>3 DEF DriveIds
  <2> HIDE DEF b
  <2> QED
    BY <2>1, <2>2, OneMoreRecord
<1>8. IsFiniteSet(now \cup {one}) /\ Cardinality(now \cup {one}) = Cardinality(now) + 1
  BY <1>6, <1>7, FS_AddElement
<1>9. /\ waits' \in 0..Polls /\ blocks' \in Nat /\ command' \in [BusIds -> {"none", "busy", "done"}]
      /\ selected' \in [BusIds -> {0}] /\ blocks' = blocks /\ ListAfter
      /\ UNCHANGED <<machine, offset, ides>>
  BY <1>1 DEF AtaInv, TypeOK, bound, result, heap, ListAfter
<1>10. \A d \in DriveIds : d < drive => b.drive_array[d] = NoDrive
  BY <1>1, <1>3 DEF DriveIds
<1>11. AfterDrive(b)
  OBVIOUS
<1> HIDE DEF b, now, one
<1> QED
  BY <1>1, <1>3, <1>4, <1>6, <1>7, <1>8, <1>9, <1>10, <1>11, AfterDriveKeeps

(* The driver goes on with the drive in work.                              *)
LEMMA GoesOn ==
  ASSUME AtaInv, Probing, Probing',
         UNCHANGED <<machine, offset, base, drive, buses, ides, list, page0>>,
         bus' \in AtaBus, bus'.base = bus.base, bus'.drive_array = bus.drive_array,
         selected' \in [BusIds -> {0}],
         Identifying' => list = "sound",
         command' \in [BusIds -> {"none", "busy", "done"}], waits' \in 0..Polls,
         blocks' = blocks + (IF Identifying' THEN 1 ELSE 0) - (IF Identifying THEN 1 ELSE 0)
  PROVE  AtaInv'
<1>0. /\ TypeOK /\ AnsweredByDriveZero /\ DrivesKept /\ Place /\ OnlyDriveZero /\ NotYetRecorded
      /\ ListPlace /\ pc # "reset" /\ pc' # "reset"
  BY DEF AtaInv, Probing, Identifying
<1>1. Lists = Append(ides, Append(buses, bus)) /\ Lists' = Append(ides, Append(buses, bus'))
  BY DEF Lists
<1>2. Records(Lists)' = Records(Lists)
  <2>1. ides \in Seq(Seq(AtaBus)) /\ buses \in Seq(AtaBus) /\ bus \in AtaBus
    BY <1>0 DEF TypeOK
  <2>2. Records(Lists') = Records(Lists)
    BY <1>1, <2>1, ActiveNotRecorded
  <2> QED
    BY <2>2 DEF Records
<1>3. IsFiniteSet(Records(Lists)) /\ Cardinality(Records(Lists)) \in Nat
  BY <1>0, FS_CardinalityType DEF AtaInv
<1>4. blocks' = Cardinality(Records(Lists))' + (IF Identifying THEN 1 ELSE 0)'
  BY <1>0, <1>2, <1>3 DEF DrivesKept
<1>5. ~page0' => ~Identifying'
  BY <1>0 DEF ListPlace
<1>6. DrivesKept' /\ IsFiniteSet(Records(Lists))'
  BY <1>0, <1>2, <1>3, <1>4, <1>5 DEF DrivesKept
<1>7. TypeOK'
  <2>1. blocks' \in Nat
    BY <1>2, <1>3, <1>4
  <2> QED
    BY <1>0, <2>1 DEF TypeOK, machine, DriveIds
<1>8. AnsweredByDriveZero'
  <2>1. Known' \subseteq Known \cup {bus'} /\ bus \in Known
    BY DEF Known
  <2> QED
    BY <1>0, <2>1 DEF AnsweredByDriveZero, machine
<1>9. Place'
  <2>1. ~pc' \in {"function", "done", "overwritten"}
    BY DEF Probing, Identifying
  <2> QED
    BY <1>0, <2>1 DEF Place, machine
<1>10. OnlyDriveZero' /\ NotYetRecorded' /\ ListPlace'
  BY <1>0 DEF OnlyDriveZero, NotYetRecorded, ListPlace
<1> QED
  BY <1>6, <1>7, <1>8, <1>9, <1>10 DEF AtaInv

(* Between two buses, or two functions.                                    *)
LEMMA BetweenBuses ==
  ASSUME AtaInv, ~Probing, pc # "reset", pc' \in {"function", "bus", "store", "done", "overwritten"},
         UNCHANGED <<machine, bound, bus, drive, waits, buses, result>>,
         offset' \in 1..(Len(functions) + 1), pc' \in {"bus", "store"} => offset' <= Len(functions),
         pc' \in {"function", "done", "overwritten"} => buses = << >>,
         base' \in 1..(Bases + 1), base' >= base \/ buses = << >>
  PROVE  AtaInv'
<1>0. TypeOK /\ AnsweredByDriveZero /\ DrivesKept /\ Place /\ OnlyDriveZero /\ ListPlace
  BY DEF AtaInv
<1>1. ~Probing' /\ ~Identifying /\ ~Identifying' /\ pc' # "reset"
  BY DEF Probing, Identifying
<1>2. Lists' = Lists
  BY <1>1 DEF Lists, result
<1>3. Records(Lists)' = Records(Lists)
  BY <1>2 DEF Records
<1>4. DrivesKept' /\ IsFiniteSet(Records(Lists))'
  BY <1>0, <1>1, <1>3 DEF DrivesKept, result, heap, AtaInv
<1>5. TypeOK'
  <2>1. pc' \in {"function", "bus", "store"} \/ Ended'
    BY DEF Ended
  <2> QED
    BY <1>0, <2>1 DEF TypeOK, machine, bound, result, heap
<1>6. AnsweredByDriveZero'
  <2>1. Known' = Known
    BY <1>1 DEF Known, result
  <2> QED
    BY <1>0, <2>1 DEF AnsweredByDriveZero, machine
<1>7. Place'
  <2>1. Len(buses) < base' /\ \A i \in DOMAIN buses : buses[i].base < base'
    <3>1. CASE buses = << >>
      BY <3>1, SomeBuses
    <3>2. CASE base' >= base
      <4>1. base \in Nat /\ base' \in Nat
        BY <1>0, SomeBuses DEF TypeOK
      <4>2. Len(buses) < base /\ Len(buses) \in Nat
        BY <1>0 DEF Place, TypeOK
      <4>3. \A i \in DOMAIN buses : buses[i].base \in Nat /\ buses[i].base < base
        <5>1. \A i \in DOMAIN buses : buses[i] \in AtaBus /\ buses[i].base < base
          BY <1>0 DEF Place, TypeOK
        <5>2. \A x \in AtaBus : x.base \in Nat
          BY SomeBuses DEF AtaBus
        <5> QED
          BY <5>1, <5>2
      <4> QED
        BY <3>2, <4>1, <4>2, <4>3
    <3> QED
      BY <3>1, <3>2
  <2> QED
    BY <1>0, <1>1, <2>1 DEF Place, machine
<1>8. OnlyDriveZero' /\ NotYetRecorded' /\ ListPlace'
  BY <1>0, <1>1 DEF OnlyDriveZero, NotYetRecorded, ListPlace, bound, result, heap
<1> QED
  BY <1>4, <1>5, <1>6, <1>7, <1>8 DEF AtaInv

LEMMA PassOverInv == AtaInv /\ (PassOver \/ NoIde) => AtaInv'
<1> SUFFICES ASSUME AtaInv, PassOver \/ NoIde PROVE AtaInv'
  OBVIOUS
<1>1. /\ pc = "function" /\ pc' = pc /\ offset <= Len(functions) /\ offset' = offset + 1
      /\ UNCHANGED <<machine, bound, base, bus, drive, waits, buses, result>>
  BY DEF PassOver, NoIde, IsIde, probe
<1>2. Len(functions) \in Nat /\ offset \in 1..(Len(functions) + 1) /\ base \in 1..(Bases + 1)
      /\ buses = << >>
  <2>1. functions \in FunctionLists
    BY DEF AtaInv, Place
  <2>2. Len(functions) \in Nat
    BY <2>1, AtaAssumption
  <2> QED
    BY <1>1, <2>2 DEF AtaInv, TypeOK, Place
<1>3. ~Probing
  BY <1>1 DEF Probing, Identifying
<1>4. offset' \in 1..(Len(functions) + 1)
  BY <1>1, <1>2
<1> QED
  BY <1>1, <1>2, <1>3, <1>4, BetweenBuses

LEMMA InitIdeInv == AtaInv /\ InitIde => AtaInv'
<1> SUFFICES ASSUME AtaInv, InitIde PROVE AtaInv'
  OBVIOUS
<1>1. /\ pc = "function" /\ pc' \in {"bus", "store"} /\ offset <= Len(functions) /\ offset' = offset
      /\ base' = 1 /\ buses' = << >>
      /\ UNCHANGED <<machine, bound, bus, drive, waits, result>>
  BY DEF InitIde, IsIde
<1>2. offset \in 1..(Len(functions) + 1) /\ buses = << >> /\ base' \in 1..(Bases + 1)
  BY <1>1, SomeBuses DEF AtaInv, TypeOK, Place
<1>3. ~Probing
  BY <1>1 DEF Probing, Identifying
<1> QED
  BY <1>1, <1>2, <1>3, BetweenBuses

LEMMA FinishInv == AtaInv /\ Finish => AtaInv'
<1> SUFFICES ASSUME AtaInv, Finish PROVE AtaInv'
  OBVIOUS
<1>1. /\ pc = "function" /\ pc' = "done" /\ offset' = offset /\ base' = base
      /\ UNCHANGED <<machine, bound, bus, drive, waits, buses, result>>
  BY DEF Finish, probe
<1>2. offset \in 1..(Len(functions) + 1) /\ buses = << >> /\ base \in 1..(Bases + 1)
  BY <1>1 DEF AtaInv, TypeOK, Place
<1>3. ~Probing
  BY <1>1 DEF Probing, Identifying
<1> QED
  BY <1>1, <1>2, <1>3, BetweenBuses

LEMMA OverwriteIdeInv == AtaInv /\ OverwriteIde => AtaInv'
<1> SUFFICES ASSUME AtaInv, OverwriteIde PROVE AtaInv'
  OBVIOUS
<1>1. /\ pc = "function" /\ pc' = "overwritten" /\ offset' = offset /\ base' = base
      /\ UNCHANGED <<machine, bound, bus, drive, waits, buses, result>>
  BY DEF OverwriteIde, IsIde, probe
<1>2. offset \in 1..(Len(functions) + 1) /\ buses = << >> /\ base \in 1..(Bases + 1)
  BY <1>1 DEF AtaInv, TypeOK, Place
<1>3. ~Probing
  BY <1>1 DEF Probing, Identifying
<1> QED
  BY <1>1, <1>2, <1>3, BetweenBuses

LEMMA SkipBusInv == AtaInv /\ (SkipBus \/ BusesDone) => AtaInv'
<1> SUFFICES ASSUME AtaInv, SkipBus \/ BusesDone PROVE AtaInv'
  OBVIOUS
<1>1. /\ pc = "bus" /\ pc' \in {"bus", "store"} /\ offset' = offset
      /\ \/ base' = base
         \/ base <= Bases /\ base' = base + 1
      /\ UNCHANGED <<machine, bound, bus, drive, waits, buses, result>>
  <2>1. CASE SkipBus
    BY <2>1 DEF SkipBus
  <2>2. CASE BusesDone
    <3>1. UNCHANGED <<machine, bound, offset, base, bus, drive, waits, buses, result>>
      BY <2>2 DEF BusesDone, probe
    <3>2. pc = "bus" /\ pc' = "store"
      BY <2>2 DEF BusesDone
    <3> QED
      BY <3>1, <3>2
  <2> QED
    BY <2>1, <2>2
<1>2. /\ offset \in 1..(Len(functions) + 1) /\ offset <= Len(functions)
      /\ base \in 1..(Bases + 1)
  BY <1>1 DEF AtaInv, TypeOK, Place
<1>3. ~Probing
  BY <1>1 DEF Probing, Identifying
<1>4. base' \in 1..(Bases + 1) /\ base' >= base
  BY <1>1, <1>2, SomeBuses
<1> QED
  BY <1>1, <1>2, <1>3, <1>4, BetweenBuses

LEMMA DriveAnswersInv == AtaInv /\ DriveAnswers => AtaInv'
<1> SUFFICES ASSUME AtaInv, DriveAnswers PROVE AtaInv'
  OBVIOUS
<1>1. /\ UNCHANGED <<machine, selected, pc, offset, base, bus, drive, waits, buses, ides, heap>>
      /\ command' \in [BusIds -> {"none", "busy", "done"}]
  BY DEF DriveAnswers, probe, result, AtaInv, TypeOK
<1>2. Lists' = Lists /\ (Probing' <=> Probing) /\ (Identifying' <=> Identifying) /\ Known' = Known
  BY <1>1 DEF Lists, Probing, Identifying, Known
<1>3. Records(Lists)' = Records(Lists)
  BY <1>2 DEF Records
<1>4. DrivesKept' /\ (pc # "reset" => IsFiniteSet(Records(Lists)))'
  BY <1>1, <1>2, <1>3 DEF AtaInv, DrivesKept, heap
<1>5. TypeOK' /\ AnsweredByDriveZero'
  BY <1>1, <1>2 DEF AtaInv, TypeOK, AnsweredByDriveZero, Ended, machine, heap
<1>6. Place' /\ OnlyDriveZero' /\ NotYetRecorded' /\ ListPlace'
  BY <1>1, <1>2 DEF AtaInv, Place, OnlyDriveZero, NotYetRecorded, ListPlace, machine, heap
<1> QED
  BY <1>4, <1>5, <1>6 DEF AtaInv

LEMMA TakeBusInv == AtaInv /\ TakeBus => AtaInv'
<1> SUFFICES ASSUME AtaInv, TakeBus PROVE AtaInv'
  OBVIOUS
<1>0. TypeOK /\ AnsweredByDriveZero /\ DrivesKept /\ Place /\ OnlyDriveZero /\ ListPlace
  BY DEF AtaInv
<1>1. /\ pc = "bus" /\ pc' = "select" /\ bus' = NewBus(base) /\ drive' = 1 /\ base <= Bases
      /\ UNCHANGED <<machine, bound, offset, base, waits, buses, result>>
  BY DEF TakeBus
<1>2. ~Probing /\ Probing' /\ ~Identifying /\ ~Identifying'
  BY <1>1 DEF Probing, Identifying
<1>3. base \in BusIds /\ bus' \in AtaBus /\ \A d \in DriveIds : bus'.drive_array[d] = NoDrive
  <2>1. base \in 1..(Bases + 1)
    BY <1>0 DEF TypeOK
  <2>2. base \in BusIds
    BY <1>1, <2>1, SomeBuses
  <2>3. NoDrive \in OfDrive
    BY DEF NoDrive, OfDrive
  <2> QED
    BY <1>1, <2>2, <2>3 DEF NewBus, AtaBus, DriveIds
<1>4. Records(Lists)' = Records(Lists)
  <2>1. Lists = Append(ides, buses) /\ Lists' = Append(ides, Append(buses, bus'))
    BY <1>1, <1>2 DEF Lists, result
  <2>2. ides \in Seq(Seq(AtaBus)) /\ buses \in Seq(AtaBus)
    BY <1>0 DEF TypeOK
  <2>3. Records(Lists') = Records(Lists)
    BY <1>3, <2>1, <2>2, NewBusNoRecords
  <2> QED
    BY <2>3 DEF Records
<1>5. DrivesKept' /\ IsFiniteSet(Records(Lists))'
  BY <1>0, <1>1, <1>2, <1>4 DEF DrivesKept, result, heap, AtaInv
<1>6. TypeOK'
  BY <1>0, <1>1, <1>2, <1>3 DEF TypeOK, machine, bound, result, heap, DriveIds
<1>7. AnsweredByDriveZero'
  <2>1. Known' \subseteq Known \cup {bus'}
    BY <1>1, <1>2 DEF Known, result
  <2> QED
    BY <1>0, <1>1, <1>3, <2>1 DEF AnsweredByDriveZero, machine
<1>8. Place'
  <2>1. ~pc' \in {"function", "done", "overwritten"} /\ bus'.base = base
    BY <1>1 DEF NewBus
  <2> QED
    BY <1>0, <1>1, <2>1 DEF Place, machine
<1>9. OnlyDriveZero' /\ NotYetRecorded' /\ ListPlace'
  BY <1>0, <1>1, <1>2, <1>3 DEF OnlyDriveZero, NotYetRecorded, ListPlace, bound, result, heap, NewBus
<1> QED
  BY <1>5, <1>6, <1>7, <1>8, <1>9 DEF AtaInv

LEMMA StoreIdeInv == AtaInv /\ StoreIde => AtaInv'
<1> SUFFICES ASSUME AtaInv, StoreIde PROVE AtaInv'
  OBVIOUS
<1>0. TypeOK /\ AnsweredByDriveZero /\ DrivesKept /\ Place /\ OnlyDriveZero /\ ListPlace
  BY DEF AtaInv
<1>1. /\ pc = "store" /\ pc' = "function" /\ ides' = Append(ides, buses)
      /\ buses' = << >> /\ offset' = offset + 1 /\ list' = "overlaid"
      /\ UNCHANGED <<machine, bound, base, bus, drive, waits, page0, blocks>>
  BY DEF StoreIde
<1>2. ~Probing /\ ~Probing' /\ ~Identifying /\ ~Identifying'
  BY <1>1 DEF Probing, Identifying
<1>3. /\ ides \in Seq(Seq(AtaBus)) /\ buses \in Seq(AtaBus) /\ << >> \in Seq(AtaBus)
      /\ ides' \in Seq(Seq(AtaBus)) /\ Len(ides) \in Nat /\ Len(ides') = Len(ides) + 1
      /\ DOMAIN ides' = 1..(Len(ides) + 1) /\ DOMAIN ides = 1..Len(ides)
      /\ \A i \in 1..Len(ides) : ides'[i] = ides[i]
      /\ ides'[Len(ides) + 1] = buses
  <2>1. ides \in Seq(Seq(AtaBus)) /\ buses \in Seq(AtaBus)
    BY <1>0 DEF TypeOK
  <2> QED
    BY <1>1, <2>1, AppendOne
<1>4. Records(Lists)' = Records(Lists)
  <2>1. Lists = Append(ides, buses) /\ Lists' = Append(Append(ides, buses), << >>)
    BY <1>1, <1>2 DEF Lists
  <2>2. Records(Lists') = Records(Lists)
    BY <1>1, <1>3, <2>1, NoBusesNoRecords
  <2> QED
    BY <2>2 DEF Records
<1>6. DrivesKept' /\ IsFiniteSet(Records(Lists))'
  BY <1>0, <1>1, <1>2, <1>4 DEF DrivesKept, AtaInv
<1>7. TypeOK'
  <2>1. functions \in FunctionLists
    BY <1>0 DEF Place
  <2>2. Len(functions) \in Nat
    BY <2>1, AtaAssumption
  <2>3. offset' \in 1..(Len(functions) + 1)
    BY <1>0, <1>1, <2>2 DEF TypeOK, Place
  <2>4. /\ pc' \in {"function", "bus", "store"} \/ Probing' \/ Ended'
        /\ selected' \in [BusIds -> DriveIds] /\ command' \in [BusIds -> {"none", "busy", "done"}]
        /\ base' \in 1..(Bases + 1) /\ bus' \in AtaBus /\ drive' \in DriveIds
        /\ waits' \in 0..Polls /\ blocks' \in Nat
    BY <1>0, <1>1 DEF TypeOK, bound
  <2>6. list' \in {"sound", "ended", "overlaid"} /\ page0' \in BOOLEAN
    BY <1>0, <1>1 DEF TypeOK
  <2>5. /\ buses' \in Seq(AtaBus) /\ Len(buses') <= Bases
        /\ \A i, j \in DOMAIN buses' : i < j => buses'[i].base < buses'[j].base
    BY <1>1, <1>3, SomeBuses
  <2> QED
    BY <1>1, <1>3, <2>3, <2>4, <2>5, <2>6 DEF TypeOK, machine
<1>8. AnsweredByDriveZero'
  <2>1. Known' \subseteq Known
    <3>1. ASSUME NEW i \in DOMAIN ides', NEW j \in DOMAIN ides'[i]
          PROVE  ides'[i][j] \in Known
      <4>1. CASE i \in 1..Len(ides)
        BY <1>3, <3>1, <4>1 DEF Known
      <4>2. CASE i = Len(ides) + 1
        BY <1>3, <3>1, <4>2 DEF Known
      <4> QED
        BY <1>3, <3>1, <4>1, <4>2
    <3> QED
      BY <1>1, <1>2, <3>1 DEF Known
  <2> QED
    BY <1>0, <1>1, <2>1 DEF AnsweredByDriveZero, machine
<1>9. Place'
  <2>1. Len(buses') < base' /\ \A i \in DOMAIN buses' : buses'[i].base < base'
    BY <1>0, <1>1, SomeBuses DEF TypeOK
  <2> QED
    BY <1>0, <1>1, <1>2, <2>1 DEF Place, machine
<1>10. OnlyDriveZero' /\ NotYetRecorded' /\ ListPlace'
  BY <1>0, <1>1, <1>2 DEF OnlyDriveZero, NotYetRecorded, ListPlace, bound
<1> QED
  BY <1>6, <1>7, <1>8, <1>9, <1>10 DEF AtaInv

(* Where the driver is while it probes.                                    *)
LEMMA AtADrive ==
  ASSUME AtaInv, Probing
  PROVE  /\ base \in BusIds /\ drive \in DriveIds /\ bus \in AtaBus
         /\ selected \in [BusIds -> {0}] /\ command \in [BusIds -> {"none", "busy", "done"}]
         /\ waits \in 0..Polls /\ blocks \in Nat
         /\ Identifying => list = "sound"
         /\ drives[base][selected[base]] \in DriveKind
<1>1. base \in BusIds
  <2>1. base \in 1..(Bases + 1) /\ base <= Bases
    BY DEF AtaInv, TypeOK, Place
  <2> QED
    BY <2>1, SomeBuses
<1>2. selected \in [BusIds -> {0}]
  BY DEF AtaInv, TypeOK, OnlyDriveZero
<1>3. drives \in [BusIds -> [DriveIds -> DriveKind]]
  BY AtaAssumption DEF AtaInv, Place
<1>4. drives[base][selected[base]] \in DriveKind
  BY <1>1, <1>2, <1>3 DEF DriveIds
<1> QED
  BY <1>1, <1>2, <1>4 DEF AtaInv, TypeOK, ListPlace

LEMMA SelectDriveInv == AtaInv /\ SelectDrive => AtaInv'
<1> SUFFICES ASSUME AtaInv, SelectDrive PROVE AtaInv'
  OBVIOUS
<1>1. /\ pc = "select" /\ Probing /\ ~Identifying
      /\ UNCHANGED <<machine, command, offset, waits, ides, list, page0, blocks>>
  BY DEF SelectDrive, result, heap, Probing, Identifying
<1>2. CASE pc' = "allocate" /\ UNCHANGED <<selected, bus, drive, base, buses>>
  <2>1. Probing' /\ ~Identifying'
    BY <1>2 DEF Probing, Identifying
  <2> QED
    BY <1>1, <1>2, <2>1, AtADrive, GoesOn
<1>3. CASE /\ selected' = [selected EXCEPT ![base] = DriveOf(DriveHead(drive))]
           /\ bus' = [bus EXCEPT !.active = drive] /\ pc' = "allocate"
           /\ UNCHANGED <<drive, base, buses>>
  <2>1. Probing' /\ ~Identifying'
    BY <1>3 DEF Probing, Identifying
  <2>2. selected' \in [BusIds -> {0}]
    BY <1>1, <1>3, AtADrive, SelectsZero
  <2>3. bus' \in AtaBus /\ bus'.base = bus.base /\ bus'.drive_array = bus.drive_array
    BY <1>1, <1>3, AtADrive DEF AtaBus
  <2> QED
    BY <1>1, <1>3, <2>1, <2>2, <2>3, AtADrive, GoesOn
<1>4. CASE selected' = [selected EXCEPT ![base] = DriveOf(DriveHead(drive))] /\ AfterDrive(bus)
  <2>1. selected' \in [BusIds -> {0}]
    BY <1>1, <1>4, AtADrive, SelectsZero
  <2> QED
    BY <1>1, <1>4, <2>1, AtADrive, NothingRecorded DEF ListAfter
<1> QED
  BY <1>2, <1>3, <1>4 DEF SelectDrive

LEMMA SendIdentifyInv == AtaInv /\ SendIdentify => AtaInv'
<1> SUFFICES ASSUME AtaInv, SendIdentify PROVE AtaInv'
  OBVIOUS
<1>1. /\ pc = "allocate" /\ Probing /\ ~Identifying
      /\ UNCHANGED <<machine, selected, offset, waits, ides, list, page0>>
  BY DEF SendIdentify, Probing, Identifying
<1>2. CASE /\ list = "sound" /\ blocks' = blocks + 1
           /\ command' = [command EXCEPT ![base] = IF Target(base) = "none" THEN @ ELSE "busy"]
           /\ pc' = "id" /\ UNCHANGED <<base, bus, drive, buses>>
  <2>1. Probing' /\ Identifying'
    BY <1>2 DEF Probing, Identifying
  <2>2. command' \in [BusIds -> {"none", "busy", "done"}]
    BY <1>1, <1>2, AtADrive
  <2> QED
    BY <1>1, <1>2, <2>1, <2>2, AtADrive, GoesOn
<1>3. CASE AfterDrive(bus) /\ UNCHANGED <<command, blocks>>
  BY <1>1, <1>3, AtADrive, NothingRecorded DEF ListAfter
<1> QED
  BY <1>2, <1>3 DEF SendIdentify

LEMMA ReadIdInv == AtaInv /\ ReadId => AtaInv'
<1> SUFFICES ASSUME AtaInv, ReadId PROVE AtaInv'
  OBVIOUS
<1>1. /\ pc = "id" /\ Probing /\ Identifying
      /\ UNCHANGED <<machine, bound, offset, waits, result>>
  BY DEF ReadId, Probing, Identifying
<1>2. CASE LbaRegisters(base) \in {ata_drive_id_sata, ata_drive_id_atapi}
  <2>1. SaysOf([id |-> LbaRegisters(base), of |-> selected[base]], drives[base][selected[base]])
    BY <1>1, <1>2, AtADrive, SignatureIsOfADrive
  <2>2. AfterDrive([bus EXCEPT !.drive_array[drive] =
                      [id |-> LbaRegisters(base), of |-> selected[base]]])
    BY <1>2 DEF ReadId
  <2> QED
    BY <1>1, <1>2, <2>1, <2>2, DriveRecorded
<1>3. CASE LbaRegisters(base) \notin {ata_drive_id_sata, ata_drive_id_atapi}
  <2>1. pc' = "idle" /\ UNCHANGED <<base, bus, drive, buses>>
    BY <1>3 DEF ReadId
  <2>2. Probing' /\ Identifying'
    BY <2>1 DEF Probing, Identifying
  <2> QED
    BY <1>1, <2>1, <2>2, AtADrive, GoesOn DEF bound, result, heap
<1> QED
  BY <1>2, <1>3

(* the ata_drive is freed and the drive is not recorded *)
LEMMA NotAtaInv ==
  ASSUME AtaInv, Identifying, NotAta, UNCHANGED <<machine, bound, offset, ides>>,
         waits' \in 0..Polls
  PROVE  AtaInv'
<1>1. Probing
  BY DEF Identifying, Probing
<1> QED
  BY <1>1, AtADrive, NothingRecorded DEF NotAta, FreeRecord, ListAfter, bound

(* one answer was read and the drive is not decided about yet *)
LEMMA StillIdentifying ==
  ASSUME AtaInv, Identifying, Identifying',
         UNCHANGED <<machine, bound, offset, base, bus, drive, buses, ides, heap>>,
         waits' \in 0..Polls
  PROVE  AtaInv'
<1>1. Probing /\ Probing'
  BY DEF Identifying, Probing
<1> QED
  BY <1>1, AtADrive, GoesOn DEF bound, heap

LEMMA WaitIdleInv == AtaInv /\ WaitIdle => AtaInv'
<1> SUFFICES ASSUME AtaInv, WaitIdle PROVE AtaInv'
  OBVIOUS
<1>1. /\ pc = "idle" /\ Probing /\ Identifying
      /\ UNCHANGED <<machine, bound, offset, waits, ides>>
  BY DEF WaitIdle, Probing, Identifying
<1>2. waits' \in 0..Polls
  BY <1>1, AtADrive
<1>3. CASE NotAta
  BY <1>1, <1>2, <1>3, NotAtaInv
<1>4. CASE pc' = "id again" /\ UNCHANGED <<base, bus, drive, buses, heap>>
  <2>1. Identifying'
    BY <1>4 DEF Identifying
  <2> QED
    BY <1>1, <1>2, <1>4, <2>1, StillIdentifying
<1> QED
  BY <1>3, <1>4 DEF WaitIdle

LEMMA ReadIdAgainInv == AtaInv /\ ReadIdAgain => AtaInv'
<1> SUFFICES ASSUME AtaInv, ReadIdAgain PROVE AtaInv'
  OBVIOUS
<1>1. /\ pc = "id again" /\ Probing /\ Identifying
      /\ UNCHANGED <<machine, bound, offset, ides>>
  BY DEF ReadIdAgain, Probing, Identifying
<1>2. CASE NotAta /\ UNCHANGED waits
  BY <1>1, <1>2, AtADrive, NotAtaInv
<1>3. CASE pc' = "ready" /\ waits' = Polls /\ UNCHANGED <<base, bus, drive, buses, heap>>
  <2>1. Identifying' /\ waits' \in 0..Polls
    BY <1>3, SomeBuses DEF Identifying
  <2> QED
    BY <1>1, <1>3, <2>1, StillIdentifying
<1> QED
  BY <1>2, <1>3 DEF ReadIdAgain

LEMMA WaitReadyInv == AtaInv /\ WaitReady => AtaInv'
<1> SUFFICES ASSUME AtaInv, WaitReady PROVE AtaInv'
  OBVIOUS
<1>1. /\ pc = "ready" /\ Probing /\ Identifying /\ waits > 0
      /\ UNCHANGED <<machine, bound, offset, ides>>
  BY DEF WaitReady, Probing, Identifying
<1>2. PICK s \in StatusBits(base) :
        CASE ERROR \in s -> NotAta /\ UNCHANGED waits
          [] ERROR \notin s /\ DriveReady(s) ->
               /\ AfterDrive([bus EXCEPT !.drive_array[drive] =
                                [id |-> ata_drive_id_ata, of |-> selected[base]]])
               /\ UNCHANGED <<waits, heap>>
          [] ERROR \notin s /\ ~DriveReady(s) ->
               WaitCounted /\ UNCHANGED <<pc, base, bus, drive, buses, heap>>
  BY DEF WaitReady
<1>3. CASE ERROR \in s
  <2>1. NotAta /\ UNCHANGED waits
    BY <1>2, <1>3
  <2> QED
    BY <1>1, <2>1, AtADrive, NotAtaInv
<1>4. CASE ERROR \notin s /\ DriveReady(s)
  <2>1. /\ AfterDrive([bus EXCEPT !.drive_array[drive] =
                         [id |-> ata_drive_id_ata, of |-> selected[base]]])
        /\ UNCHANGED <<waits, heap>>
    BY <1>2, <1>4
  <2>2. SaysOf([id |-> ata_drive_id_ata, of |-> selected[base]], drives[base][selected[base]])
    <3>1. drives[base][selected[base]] # "none"
      BY <1>1, <1>4, AtADrive, ReadyIsADrive
    <3> QED
      BY <3>1 DEF SaysOf, ata_drive_id_ata, ata_drive_id_sata, ata_drive_id_atapi
  <2> QED
    BY <1>1, <2>1, <2>2, DriveRecorded DEF result
<1>5. CASE ERROR \notin s /\ ~DriveReady(s)
  <2>1. waits' = waits - 1 /\ UNCHANGED <<pc, base, bus, drive, buses, heap>>
    BY <1>2, <1>5 DEF WaitCounted
  <2>2. Identifying'
    BY <1>1, <2>1 DEF Identifying
  <2>3. waits' \in 0..Polls
    BY <1>1, <2>1, AtADrive, SomeBuses
  <2> QED
    BY <1>1, <2>1, <2>2, <2>3, StillIdentifying
<1> QED
  BY <1>3, <1>4, <1>5

LEMMA GiveUpInv == AtaInv /\ GiveUp => AtaInv'
<1> SUFFICES ASSUME AtaInv, GiveUp PROVE AtaInv'
  OBVIOUS
<1>1. /\ Probing /\ Identifying /\ NotAta
      /\ UNCHANGED <<machine, bound, offset, waits, ides>>
  BY DEF GiveUp, Probing, Identifying
<1> QED
  BY <1>1, AtADrive, NotAtaInv

LEMMA ResetInv == AtaInv /\ Reset => AtaInv'
<1> SUFFICES ASSUME AtaInv, Reset PROVE AtaInv'
  OBVIOUS
<1> USE DEF machine, bound, probe, result, heap
<1>1. /\ pc' = "reset" /\ ~Probing' /\ ~Identifying' /\ Ended'
      /\ UNCHANGED <<machine, bound, offset, probe, result>>
  BY DEF Reset, Probing, Identifying, Ended
<1>2. TypeOK' /\ AnsweredByDriveZero'
  <2>1. Known' \subseteq Known
    BY <1>1 DEF Known
  <2> QED
    BY <1>1, <2>1 DEF AtaInv, TypeOK, AnsweredByDriveZero
<1>3. DrivesKept' /\ (pc # "reset" => IsFiniteSet(Records(Lists)))'
  BY <1>1 DEF DrivesKept
<1>4. Place' /\ OnlyDriveZero' /\ NotYetRecorded' /\ ListPlace'
  BY <1>1 DEF AtaInv, Place, OnlyDriveZero, NotYetRecorded, ListPlace
<1> QED
  BY <1>2, <1>3, <1>4 DEF AtaInv

LEMMA StutterInv == AtaInv /\ UNCHANGED vars => AtaInv'
<1> SUFFICES ASSUME AtaInv, UNCHANGED vars PROVE AtaInv'
  OBVIOUS
<1> USE DEF vars, machine, bound, probe, result, heap
<1>1. Lists' = Lists /\ (Probing' <=> Probing) /\ (Identifying' <=> Identifying) /\ Known' = Known
  BY DEF Lists, Probing, Identifying, Known
<1>2. Records(Lists)' = Records(Lists)
  BY <1>1 DEF Records
<1>3. DrivesKept' /\ (pc # "reset" => IsFiniteSet(Records(Lists)))'
  BY <1>1, <1>2 DEF AtaInv, DrivesKept
<1>4. TypeOK' /\ AnsweredByDriveZero'
  BY <1>1 DEF AtaInv, TypeOK, AnsweredByDriveZero, Ended
<1>5. Place' /\ OnlyDriveZero' /\ NotYetRecorded' /\ ListPlace'
  BY <1>1 DEF AtaInv, Place, OnlyDriveZero, NotYetRecorded, ListPlace
<1> QED
  BY <1>3, <1>4, <1>5 DEF AtaInv

-----------------------------------------------------------------------------
(* AtaInv holds whatever hangs on the buses: each step of                  *)
(* init_ata_controllers() and each answer of a drive keeps it.             *)
THEOREM AtaInvariant == Spec => []AtaInv
<1>1. AtaInv /\ [Next]_vars => AtaInv'
  <2> SUFFICES ASSUME AtaInv, [Next]_vars PROVE AtaInv'
    OBVIOUS
  <2>1. CASE PassOver \/ NoIde
    BY <2>1, PassOverInv
  <2>2. CASE InitIde
    BY <2>2, InitIdeInv
  <2>3. CASE StoreIde
    BY <2>3, StoreIdeInv
  <2>4. CASE Finish \/ OverwriteIde
    BY <2>4, FinishInv, OverwriteIdeInv
  <2>5. CASE SkipBus \/ BusesDone
    BY <2>5, SkipBusInv
  <2>6. CASE TakeBus
    BY <2>6, TakeBusInv
  <2>7. CASE SelectDrive
    BY <2>7, SelectDriveInv
  <2>8. CASE SendIdentify
    BY <2>8, SendIdentifyInv
  <2>9. CASE ReadId
    BY <2>9, ReadIdInv
  <2>10. CASE WaitIdle
    BY <2>10, WaitIdleInv
  <2>11. CASE ReadIdAgain
    BY <2>11, ReadIdAgainInv
  <2>12. CASE WaitReady
    BY <2>12, WaitReadyInv
  <2>13. CASE GiveUp
    BY <2>13, GiveUpInv
  <2>14. CASE DriveAnswers
    BY <2>14, DriveAnswersInv
  <2>15. CASE UNCHANGED vars \/ Reset
    BY <2>15, StutterInv, ResetInv
  <2> QED
    BY <2>1, <2>2, <2>3, <2>4, <2>5, <2>6, <2>7, <2>8, <2>9, <2>10, <2>11, <2>12, <2>13, <2>14,
       <2>15 DEF Next, Driver
<1> QED
  BY InitInv, <1>1, PTL DEF Spec

(* Every variable keeps its type, and bus_array lists buses once each, in   *)
(* the order of their addresses.                                           *)
THEOREM AtaTypeCorrect == Spec => []TypeOK
<1>1. AtaInv => TypeOK
  BY DEF AtaInv
<1> QED
  BY <1>1, AtaInvariant, PTL

(* Every record, also one of drive 1, is the answer of drive 0 of its bus,  *)
(* which is there and is of the kind its signature says, whatever the       *)
(* drive-address register reads as and whenever the drives answer.          *)
THEOREM RecordsAreOfDriveZero == Spec => []AnsweredByDriveZero
<1>1. AtaInv => AnsweredByDriveZero
  BY DEF AtaInv
<1> QED
  BY <1>1, AtaInvariant, PTL

(* Until the machine is reset, as many ata_drives are allocated as are kept *)
(* or in work, and none is in work once a free() has damaged the list.      *)
THEOREM DrivesAreKept == Spec => []DrivesKept
<1>1. AtaInv => DrivesKept
  BY DEF AtaInv
<1> QED
  BY <1>1, AtaInvariant, PTL
=============================================================================
