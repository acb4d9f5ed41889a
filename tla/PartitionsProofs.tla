-------------------------- MODULE PartitionsProofs --------------------------
(***************************************************************************)
(* Proofs about Partitions: readers under RCU are never left with a freed  *)
(* partition or table and the device reference counts are exact; what the  *)
(* table lists lies within the disk; every partition is announced.         *)
(***************************************************************************)
EXTENDS PartitionsTableProofs, FiniteSetTheorems

------------------------------------------------------------------------------
(* Numbers and finite sets.                                                 *)

Less == {p \in Nat \X Nat : p[1] < p[2]}

\* A set of slot numbers has a first one.
LEMMA LeastIn ==
  ASSUME NEW S \in SUBSET Nat, S # {}
  PROVE  \E i \in S : \A j \in S : i <= j
<1>1. IsWellFoundedOn(Less, Nat)
  BY NatLessThanWellFounded DEF OpToRel, Less
<1>2. PICK i \in S : \A j \in S : ~ (<<j, i>> \in Less)
  BY <1>1, WFMin, Zenon
<1>3. ASSUME NEW j \in S PROVE i <= j
  <2>1. i \in Nat /\ j \in Nat /\ <<j, i>> \in Nat \X Nat
    OBVIOUS
  <2>2. <<j, i>>[1] = j /\ <<j, i>>[2] = i
    OBVIOUS
  <2>3. ~ (<<j, i>>[1] < <<j, i>>[2])
    BY <1>2, <2>1, Zenon DEF Less
  <2> QED
    BY <2>1, <2>2, <2>3
<1> QED
  BY <1>3

\* The readers are finitely many: the hypothesis of PartitionsTableProofs holds.
LEMMA BasicsHold == Basics
<1>1. ASSUME NEW S \in SUBSET Readers
      PROVE  /\ Cardinality(S) \in Nat /\ (Cardinality(S) = 0 <=> S = {})
             /\ \A r \in Readers :
                  /\ r \notin S => Cardinality(S \cup {r}) = Cardinality(S) + 1
                  /\ r \in S => Cardinality(S \ {r}) = Cardinality(S) - 1
  <2>1. IsFiniteSet(S)
    BY FS_Subset, PartitionsAssumption
  <2>2. Cardinality(S) \in Nat /\ (Cardinality(S) = 0 <=> S = {})
    BY <2>1, FS_CardinalityType, FS_EmptySet
  <2>3. QED
    BY <2>1, <2>2, FS_AddElement, FS_RemoveElement
<1>2. QED
  BY <1>1, LeastIn DEF Basics

USE BasicsHold

------------------------------------------------------------------------------
(* Tables that are freed, and readers.                                      *)

\* What the scan and register_disk rely on, when neither moves and the live
\* partitions stay as they are.
LEMMA Elsewhere ==
  ASSUME Types, Listed, ScanAt, RegAt, Told, part_tbl' = part_tbl, UNCHANGED <<scan, reg>>,
         disk'.capacity = disk.capacity, disk'.suppress = disk.suppress,
         disk'.stage # "up" => disk.stage # "up",
         disk'.stage = "deleting" <=> disk.stage = "deleting",
         disk'.stage \in {"down", "released"} <=> disk.stage \in {"down", "released"},
         \A o \in Parts : part[o].state = "live" =>
           /\ part'[o].state = "live" /\ part'[o].partno = part[o].partno
           /\ part'[o].size = part[o].size /\ part'[o].from = part[o].from
           /\ part'[o].announced = part[o].announced
  PROVE  Listed' /\ ScanAt' /\ RegAt' /\ Told'
<1>1. Listed'
  BY ListedKept
<1>2. scan' = scan /\ reg' = reg
  OBVIOUS
<1>3. ScanAt'
  BY <1>2 DEF ScanAt
<1>4. RegAt'
  BY <1>2 DEF RegAt
<1>5. \A i \in 1 .. Len(part_tbl) : part_tbl[i] # None =>
        part'[part_tbl[i]].announced = part[part_tbl[i]].announced
  <2>1. ASSUME NEW i \in 1 .. Len(part_tbl), part_tbl[i] # None
        PROVE  part_tbl[i] \in Parts /\ part[part_tbl[i]].state = "live"
    BY <2>1, TableTypes DEF Slots, Listed
  <2>2. QED
    BY <2>1
<1>6. Told'
  BY <1>2, <1>5 DEF Told
<1>7. QED
  BY <1>1, <1>3, <1>4, <1>6

\* A table record freed, or a lookup remembered or forgotten.
LEMMA TableMarks ==
  ASSUME NEW a \in TblRec, NEW f \in BOOLEAN, NEW l \in Slots
  PROVE  /\ [a EXCEPT !.freed = f, !.part = <<>>, !.last_lookup = l] \in TblRec
         /\ [a EXCEPT !.last_lookup = l, !.freed = f] \in TblRec
         /\ [a EXCEPT !.last_lookup = l, !.freed = f].part = a.part
         /\ [a EXCEPT !.last_lookup = l] \in TblRec
         /\ [a EXCEPT !.last_lookup = l].part = a.part
         /\ [a EXCEPT !.last_lookup = l].freed = a.freed
         /\ [a EXCEPT !.last_lookup = l].waits = a.waits
<1>1. <<>> \in Seq(Slots)
  OBVIOUS
<1>2. QED
  BY Zenon, <1>1 DEF TblRec

\* kfree_rcu's callback: nobody reads the table any more.
LEMMA FreeTableStep ==
  ASSUME IInv, NEW j \in DOMAIN tables, FreeTable(j)
  PROVE  IInv'
<1>1. /\ Types /\ Counts /\ Sections /\ Listed /\ ScanAt /\ RegAt /\ Told
      /\ UNCHANGED <<disk, part, scan, reg, reader>> /\ None \in Slots
      /\ Current \in Nat /\ Current \in 1 .. Current /\ j < Current /\ tables[j].waits = {}
  BY TableTypes, ControlTypes DEF IInv, FreeTable
<1>2. j \in 1 .. Current /\ tables[j] \in TblRec
  <2>1. j \in 1 .. Current
    BY <1>1, SeqTypes, TableTypes DEF Current
  <2>2. QED
    BY <1>1, <2>1, TableTypes
<1>3. PICK b : b = [tables[j] EXCEPT !.freed = TRUE, !.part = <<>>, !.last_lookup = None]
  OBVIOUS
<1>4. b \in TblRec
  BY <1>1, <1>2, <1>3, TableMarks, Zenon
<1>5. tables' = [tables EXCEPT ![j] = b]
  <2>1. tables' = [tables EXCEPT ![j].freed = TRUE, ![j].part = <<>>, ![j].last_lookup = None]
    BY Zenon DEF FreeTable
  <2>2. QED
    BY Zenon, <1>3, <2>1
<1>6. /\ tables' \in Seq(TblRec) /\ Len(tables') = Current /\ Current' = Current
      /\ \A k \in 1 .. Current : k # j => tables'[k] = tables[k]
      /\ part_tbl' = part_tbl
  <2>1. j # Current
    BY <1>1
  <2>2. QED
    BY Zenon, <1>1, <1>2, <1>4, <1>5, <2>1, TableSet
<1>7. Types'
  BY <1>1, <1>6 DEF Types
<1>8. Counts'
  <2>1. Others' = Others
    BY <1>1, HeldMoves
  <2>2. QED
    BY <1>1, <2>1 DEF Counts
<1>9. Sections'
  <2>1. InSection' = InSection /\ disk' = disk
    BY <1>1 DEF InSection
  <2>2. ASSUME NEW q \in InSection PROVE Reaches(q)'
    <3>1. Reaches(q) /\ reader' = reader /\ part' = part
      BY <1>1 DEF Sections
    <3>2. reader[q].tbl \in 1 .. Current /\ reader[q].tbl # j
      BY <1>1, <3>1 DEF Reaches
    <3>3. tables'[reader[q].tbl] = tables[reader[q].tbl]
      BY <1>6, <3>2
    <3>4. QED
      BY <1>6, <3>1, <3>3 DEF Reaches
  <2>3. tables'[Current] = tables[Current]
    BY <1>1, <1>6
  <2>4. QED
    BY <1>1, <1>6, <2>1, <2>2, <2>3 DEF Sections
<1>10. Listed' /\ ScanAt' /\ RegAt' /\ Told'
  BY <1>1, <1>6, Elsewhere
<1>11. QED
  BY <1>7, <1>8, <1>9, <1>10 DEF IInv

LEMMA ReleaseStep ==
  ASSUME IInv, disk_release
  PROVE  IInv'
<1>1. /\ Types /\ Counts /\ Sections /\ Listed /\ ScanAt /\ RegAt /\ Told
      /\ UNCHANGED <<part, scan, reg, reader>> /\ None \in Slots
      /\ Current \in Nat /\ Current \in 1 .. Current /\ disk.stage = "down" /\ InSection = {}
      /\ disk' = [disk EXCEPT !.stage = "released"] /\ disk \in DiskRec
      /\ tables[Current] \in TblRec
  BY TableTypes, ControlTypes DEF IInv, Types, disk_release
<1>2. /\ disk' \in DiskRec /\ disk'.stage = "released" /\ disk'.capacity = disk.capacity
      /\ disk'.suppress = disk.suppress
  BY <1>1 DEF DiskRec
<1>3. PICK b : b = [tables[Current] EXCEPT !.last_lookup = None, !.freed = TRUE]
  OBVIOUS
<1>4. b \in TblRec /\ b.part = tables[Current].part
  BY <1>1, <1>3, TableMarks, Zenon
<1>5. tables' = [tables EXCEPT ![Current] = b]
  <2>1. tables' = [tables EXCEPT ![Current].last_lookup = None, ![Current].freed = TRUE]
    BY Zenon DEF disk_release
  <2>2. QED
    BY Zenon, <1>3, <2>1
<1>6. tables' \in Seq(TblRec) /\ Current' = Current /\ part_tbl' = part_tbl
  <2>1. tables' \in Seq(TblRec) /\ Current' = Current /\ part_tbl' = b.part
    BY Zenon, <1>1, <1>4, <1>5, TableSet
  <2>2. QED
    BY <1>4, <2>1 DEF part_tbl
<1>7. Types'
  BY <1>1, <1>2, <1>6 DEF Types
<1>8. Counts'
  <2>1. Others' = Others
    BY <1>1, HeldMoves
  <2>2. QED
    BY <1>1, <2>1 DEF Counts
<1>9. Sections'
  <2>1. InSection' = {}
    BY <1>1 DEF InSection
  <2>2. QED
    BY <1>1, <1>2, <2>1 DEF Sections
<1>10. Listed' /\ ScanAt' /\ RegAt' /\ Told'
  BY <1>1, <1>2, <1>6, Elsewhere
<1>11. QED
  BY <1>7, <1>8, <1>9, <1>10 DEF IInv

\* The partition a reader has a reference to.
UserOf(a) == IF a.pc \in {"got", "holding"} THEN a.part ELSE None

\* One reader moves: the references it takes or gives back.
LEMMA UserMoves ==
  ASSUME Types, UNCHANGED <<scan, reg>>, NEW r \in Readers, NEW a,
         reader' = [reader EXCEPT ![r] = a]
  PROVE  /\ UserOf(a) = UserOf(reader[r]) => Others' = Others
         /\ UserOf(reader[r]) = None => Others' = GotBy(Others, UserOf(a))
         /\ UserOf(a) = None => Others' = PutBy(Others, UserOf(reader[r]))
<1>1. /\ \A q \in Readers : q # r => reader'[q] = reader[q]
      /\ reader'[r] = a /\ scan' = scan /\ reg' = reg
  BY DEF Types
<1>2. \A o \in Parts : o # None
  BY PartitionsAssumption
<1>3. ASSUME NEW o \in Parts
      PROVE  /\ UserOf(a) # o /\ UserOf(reader[r]) # o => Users(o)' = Users(o)
             /\ UserOf(a) = o /\ UserOf(reader[r]) = o => Users(o)' = Users(o)
             /\ UserOf(a) = o /\ UserOf(reader[r]) # o =>
                  Users(o)' = Users(o) \cup {r} /\ r \notin Users(o)
             /\ UserOf(a) # o /\ UserOf(reader[r]) = o =>
                  Users(o)' = Users(o) \ {r} /\ r \in Users(o)
  <2>1. Users(o) = {q \in Readers : UserOf(reader[q]) = o}
    BY <1>2 DEF Users, UserOf
  <2>2. Users(o)' = {q \in Readers : UserOf(reader'[q]) = o}
    BY <1>2 DEF Users, UserOf
  <2>3. r \in Users(o)' <=> UserOf(a) = o
    BY <1>1, <2>2
  <2>4. \A q \in Readers : q # r => (q \in Users(o)' <=> q \in Users(o))
    BY <1>1, <2>1, <2>2
  <2>5. r \in Users(o) <=> UserOf(reader[r]) = o
    BY <2>1
  <2>6. Users(o) \subseteq Readers /\ Users(o)' \subseteq Readers
    BY <2>1, <2>2
  <2> QED
    BY <2>3, <2>4, <2>5, <2>6
<1>4. ASSUME NEW o \in Parts
      PROVE  Cardinality(Users(o)') =
               Cardinality(Users(o)) + (IF UserOf(a) = o THEN 1 ELSE 0)
                                     - (IF UserOf(reader[r]) = o THEN 1 ELSE 0)
  <2>1. Users(o) \in SUBSET Readers /\ Cardinality(Users(o)) \in Nat
    BY OthersNat
  <2>2. /\ r \notin Users(o) => Cardinality(Users(o) \cup {r}) = Cardinality(Users(o)) + 1
        /\ r \in Users(o) => Cardinality(Users(o) \ {r}) = Cardinality(Users(o)) - 1
    BY <2>1 DEF Basics
  <2>3. CASE (UserOf(a) = o) <=> (UserOf(reader[r]) = o)
    <3>1. Users(o)' = Users(o)
      BY <1>3, <2>3
    <3>2. QED
      BY <2>1, <2>3, <3>1
  <2>4. CASE UserOf(a) = o /\ UserOf(reader[r]) # o
    <3>1. Users(o)' = Users(o) \cup {r} /\ r \notin Users(o)
      BY <1>3, <2>4
    <3>2. QED
      BY <2>1, <2>2, <2>4, <3>1
  <2>5. CASE UserOf(a) # o /\ UserOf(reader[r]) = o
    <3>1. Users(o)' = Users(o) \ {r} /\ r \in Users(o)
      BY <1>3, <2>5
    <3>2. QED
      BY <2>1, <2>2, <2>5, <3>1
  <2>6. QED
    BY <2>3, <2>4, <2>5
<1>5. \A o \in Parts : Cardinality(Users(o)) \in Nat
  BY OthersNat
<1>6. PICK u, v : u = UserOf(a) /\ v = UserOf(reader[r])
  OBVIOUS
<1>7. /\ Others = [o \in Parts |-> Cardinality(Users(o)) + (IF scan.held = o THEN 1 ELSE 0)
                     + (IF reg.held = o THEN 1 ELSE 0)]
      /\ Others' = [o \in Parts |-> Cardinality(Users(o)) + (IF u = o THEN 1 ELSE 0)
                     - (IF v = o THEN 1 ELSE 0) + (IF scan.held = o THEN 1 ELSE 0)
                     + (IF reg.held = o THEN 1 ELSE 0)]
  BY <1>1, <1>4, <1>6 DEF Others
<1>8. /\ u = v => Others' = Others
      /\ v = None => Others' = GotBy(Others, u)
      /\ u = None => Others' = PutBy(Others, v)
  BY <1>2, <1>5, <1>7 DEF GotBy, PutBy
<1>9. QED
  BY <1>6, <1>8

\* One reader moves: the others keep what they can reach.
LEMMA ReaderMoves ==
  ASSUME Types, Sections, NEW r \in Readers, NEW a \in ReadRec,
         reader' = [reader EXCEPT ![r] = a], disk' = disk,
         Len(tables') = Current,
         \A j \in 1 .. Current :
           /\ tables'[j].part = tables[j].part /\ tables'[j].freed = tables[j].freed
           /\ \A q \in Readers : q # r /\ q \in tables[j].waits => q \in tables'[j].waits,
         \A q \in Readers, o \in Parts : q # r /\ Safe(part, q, o) => Safe(part', q, o),
         r \in InSection' => Reaches(r)' /\ disk.stage # "released",
         a.pc \in {"idle", "holding"} => a.tbl = 0,
         a.pc \in {"got", "holding"} => a.part # None
  PROVE  Sections'
<1>1. /\ \A q \in Readers : q # r => reader'[q] = reader[q]
      /\ reader'[r] = a /\ Current' = Current
      /\ \A q \in Readers : q # r => (q \in InSection' <=> q \in InSection)
      /\ InSection' \subseteq Readers
  BY DEF Types, InSection, Current
<1>2. Current \in Nat /\ Current \in 1 .. Current
  BY TableTypes
<1>3. ASSUME NEW q \in InSection, q # r PROVE Reaches(q)'
  <2>1. q \in Readers /\ Reaches(q) /\ reader'[q] = reader[q]
    BY <1>1, <1>3 DEF Sections, InSection
  <2>2. PICK t : t = reader[q].tbl
    OBVIOUS
  <2>3. t \in 1 .. Current /\ (t < Current => q \in tables[t].waits) /\ ~tables[t].freed
    BY <2>1, <2>2 DEF Reaches
  <2>4. /\ ~tables'[t].freed /\ tables'[t].part = tables[t].part
        /\ t < Current => q \in tables'[t].waits
    BY <1>3, <2>1, <2>3
  <2>5. \A o \in Parts : Safe(part, q, o) => Safe(part', q, o)
    BY <1>3, <2>1
  <2>6. Len(tables') \in Nat /\ Len(tables') >= Current /\ (t < Len(tables') => q \in tables'[t].waits)
    BY <1>2, <2>4
  <2>7. /\ Len(tables'[t].part) = Len(tables[t].part)
        /\ \A i \in 1 .. Len(tables[t].part) : tables'[t].part[i] = tables[t].part[i]
    BY <2>4
  <2>8. QED
    BY <2>1, <2>2, <2>4, <2>5, <2>6, <2>7, ReachesKept
<1>4. \A q \in InSection' : Reaches(q)'
  BY <1>1, <1>3
<1>5. /\ \A q \in Readers : reader'[q].pc \in {"idle", "holding"} => reader'[q].tbl = 0
      /\ \A q \in Readers : reader'[q].pc \in {"got", "holding"} => reader'[q].part # None
  BY <1>1 DEF Sections
<1>6. disk.stage = "released" => InSection' = {}
  BY <1>1 DEF Sections
<1>7. tables'[Current].freed => disk.stage = "released"
  BY <1>2 DEF Sections
<1>8. QED
  BY <1>1, <1>4, <1>5, <1>6, <1>7 DEF Sections

\* A reader that stays in its section, in the same table, and finds a
\* partition there.
LEMMA ReaderStays ==
  ASSUME IInv, NEW r \in InSection, NEW a \in ReadRec, reader' = [reader EXCEPT ![r] = a],
         a.tbl = reader[r].tbl, a.pc \in {"got", "found", "mapped", "cached"},
         a.pc = "got" => a.part # None,
         a.pc \in {"found", "mapped"} => a.part # None /\ Safe(part', r, a.part),
         UNCHANGED <<disk, scan, reg>>,
         tables' \in Seq(TblRec), Len(tables') = Current,
         \A j \in 1 .. Current :
           /\ tables'[j].part = tables[j].part /\ tables'[j].freed = tables[j].freed
           /\ tables'[j].waits = tables[j].waits,
         part' \in [Parts -> PartRec], Kept(part, part'), Exact(part', Others')
  PROVE  IInv'
<1>1. /\ Types /\ Counts /\ Sections /\ Listed /\ ScanAt /\ RegAt /\ Told
      /\ r \in Readers /\ Reaches(r) /\ reader \in [Readers -> ReadRec]
      /\ disk.stage # "released" /\ disk' = disk
  BY DEF IInv, Sections, InSection, Types
<1>2. Current' = Current /\ part_tbl' = part_tbl /\ Current \in Nat /\ Current \in 1 .. Current
  BY <1>1, TableTypes DEF Current, part_tbl
<1>3. Types'
  BY <1>1, <1>2 DEF Types
<1>4. Counts'
  BY DEF Counts
<1>5. \A q \in Readers, o \in Parts : Safe(part, q, o) => Safe(part', q, o)
  BY KeptSafe
<1>6. PICK t : t = reader[r].tbl
  OBVIOUS
<1>7. /\ t \in 1 .. Current /\ (t < Current => r \in tables[t].waits) /\ ~tables[t].freed
      /\ \A i \in 1 .. Len(tables[t].part) :
           tables[t].part[i] # None => Safe(part, r, tables[t].part[i])
  BY <1>1, <1>6 DEF Reaches
<1>8. \A i \in 1 .. Len(tables[t].part) :
        tables[t].part[i] # None => Safe(part', r, tables[t].part[i])
  <2>1. ASSUME NEW i \in 1 .. Len(tables[t].part), tables[t].part[i] # None
        PROVE  tables[t].part[i] \in Parts
    BY <1>1, <1>7, <2>1, TableTypes DEF Slots
  <2>2. QED
    BY <1>1, <1>5, <1>7, <2>1
<1>9. reader'[r] = a
  BY <1>1
<1>10. /\ tables'[t].part = tables[t].part /\ ~tables'[t].freed
       /\ t < Current => r \in tables'[t].waits
  BY <1>7
<1>11. Reaches(r)'
  BY Zenon, <1>2, <1>6, <1>7, <1>8, <1>9, <1>10 DEF Reaches
<1>12. Sections'
  <2>1. r \in InSection' => Reaches(r)' /\ disk.stage # "released"
    BY <1>1, <1>11
  <2>2. \A j \in 1 .. Current :
          /\ tables'[j].part = tables[j].part /\ tables'[j].freed = tables[j].freed
          /\ \A q \in Readers : q # r /\ q \in tables[j].waits => q \in tables'[j].waits
    OBVIOUS
  <2>3. \A q \in Readers, o \in Parts : q # r /\ Safe(part, q, o) => Safe(part', q, o)
    BY <1>5
  <2>4. QED
    BY Zenon, <1>1, <2>1, <2>2, <2>3, ReaderMoves
<1>13. Listed' /\ ScanAt' /\ RegAt' /\ Told'
  <2>1. \A o \in Parts : part[o].state = "live" =>
          /\ part'[o].state = "live" /\ part'[o].partno = part[o].partno
          /\ part'[o].size = part[o].size /\ part'[o].from = part[o].from
          /\ part'[o].announced = part[o].announced
    BY DEF Kept, Like, Alive
  <2>2. QED
    BY <1>1, <1>2, <2>1, Elsewhere
<1>14. QED
  BY <1>3, <1>4, <1>12, <1>13 DEF IInv

\* What a reader in its section finds in its table.
LEMMA InTable ==
  ASSUME IInv, NEW r \in InSection, NEW t, t = reader[r].tbl
  PROVE  /\ t \in 1 .. Current /\ tables[t] \in TblRec /\ Len(tables[t].part) \in Nat
         /\ DOMAIN tables[t].part = 1 .. Len(tables[t].part)
         /\ \A i \in 1 .. Len(tables[t].part) : tables[t].part[i] # None =>
              tables[t].part[i] \in Parts /\ Safe(part, r, tables[t].part[i])
<1>1. Types /\ Reaches(r)
  BY DEF IInv, Sections
<1>2. /\ t \in 1 .. Current
      /\ \A i \in 1 .. Len(tables[t].part) :
           tables[t].part[i] # None => Safe(part, r, tables[t].part[i])
  BY <1>1 DEF Reaches
<1>3. /\ tables[t] \in TblRec /\ Len(tables[t].part) \in Nat
      /\ DOMAIN tables[t].part = 1 .. Len(tables[t].part)
      /\ \A i \in 1 .. Len(tables[t].part) : tables[t].part[i] \in Slots
  <2>1. tables[t] \in TblRec /\ tables[t].part \in Seq(Slots)
    BY <1>1, <1>2, TableTypes
  <2>2. QED
    BY <1>1, <1>2, <2>1, TableTypes, SeqTypes
<1>4. QED
  BY <1>2, <1>3 DEF Slots

\* The record of a reader that goes on, with a partition.
Goes(a, pc, o) == [a EXCEPT !.pc = pc, !.part = o]


LEMMA GetPartStep ==
  ASSUME IInv, NEW r \in Readers, NEW p \in Partnos, disk_get_part(r, p)
  PROVE  IInv'
<1>1. /\ Types /\ Counts /\ Sections /\ reader[r].pc = "locked" /\ r \in InSection
      /\ reader[r] \in ReadRec /\ part \in [Parts -> PartRec] /\ p \in Nat /\ p >= 1
      /\ UNCHANGED <<disk, tables, scan, reg>> /\ tables \in Seq(TblRec)
      /\ reader \in [Readers -> ReadRec]
  <2>1. Types /\ Counts /\ Sections /\ p \in Nat /\ p >= 1
    BY DEF IInv, Partnos
  <2>2. reader[r].pc = "locked" /\ UNCHANGED <<disk, tables, scan, reg>>
    BY DEF disk_get_part
  <2>3. QED
    BY <2>1, <2>2 DEF Types, InSection
<1>2. PICK t : t = reader[r].tbl
  OBVIOUS
<1>3. PICK o : o = IF p <= Len(tables[t].part) THEN tables[t].part[p] ELSE None
  OBVIOUS
<1>4. /\ o # None /\ part' = get_device(part, o)
      /\ reader' = [reader EXCEPT ![r].pc = "got", ![r].part = o]
  BY Zenon, <1>2, <1>3 DEF disk_get_part
<1>5. o \in Parts /\ Safe(part, r, o)
  <2>1. /\ Len(tables[t].part) \in Nat
        /\ \A i \in 1 .. Len(tables[t].part) : tables[t].part[i] # None =>
             tables[t].part[i] \in Parts /\ Safe(part, r, tables[t].part[i])
    BY <1>1, <1>2, InTable
  <2>2. p \in 1 .. Len(tables[t].part) /\ o = tables[t].part[p] /\ o # None
    BY <1>1, <1>3, <1>4, <2>1
  <2>3. QED
    BY <2>1, <2>2
<1>6. PICK a : a = Goes(reader[r], "got", o)
  OBVIOUS
<1>7. /\ a \in ReadRec /\ a.pc = "got" /\ a.part = o /\ a.tbl = reader[r].tbl
  <2>1. o \in Slots
    BY <1>5 DEF Slots
  <2>2. QED
    BY Zenon, <1>1, <1>6, <2>1 DEF ReadRec, Goes
<1>8. reader' = [reader EXCEPT ![r] = a]
  BY Zenon, <1>1, <1>4, <1>6 DEF Goes
<1>9. /\ part' \in [Parts -> PartRec] /\ Kept(part, part')
      /\ Exact(part', GotBy(Others, o))
  <2>1. part[o].state # "free"
    BY <1>5 DEF Safe
  <2>2. Others \in [Parts -> Nat] /\ Exact(part, Others)
    BY <1>1, OthersNat DEF Counts
  <2>3. QED
    BY <1>1, <1>4, <1>5, <2>1, <2>2, GetDevice
<1>10. Others' = GotBy(Others, o)
  <2>1. UserOf(reader[r]) = None /\ UserOf(a) = o
    BY <1>1, <1>7 DEF UserOf
  <2>2. UNCHANGED <<scan, reg>>
    BY <1>1
  <2>3. QED
    BY Zenon, <1>1, <1>8, <2>1, <2>2, UserMoves
<1>11. tables' = tables /\ tables' \in Seq(TblRec) /\ Len(tables') = Current
  BY <1>1 DEF Current
<1>12. /\ \A j \in 1 .. Current :
            /\ tables'[j].part = tables[j].part /\ tables'[j].freed = tables[j].freed
            /\ tables'[j].waits = tables[j].waits
       /\ UNCHANGED <<disk, scan, reg>> /\ Exact(part', Others')
  BY <1>1, <1>9, <1>10, <1>11
<1>13. /\ a.pc \in {"got", "found", "mapped", "cached"} /\ a.pc \notin {"found", "mapped"}
       /\ a.part # None
  BY <1>4, <1>7
<1>14. QED
  BY Zenon, <1>1, <1>7, <1>8, <1>9, <1>11, <1>12, <1>13, ReaderStays

\* A reader maps a sector, by last_lookup or by the table: no count changes.
LEMMA Mapped ==
  ASSUME IInv, NEW r \in InSection, NEW pc \in {"found", "mapped", "cached"}, NEW o \in Slots,
         reader[r].pc # "got", NEW a, a = Goes(reader[r], pc, o),
         reader' = [reader EXCEPT ![r] = a],
         pc # "cached" => o # None /\ Safe(part, r, o), UNCHANGED <<disk, part, scan, reg>>,
         tables' \in Seq(TblRec), Len(tables') = Current,
         \A j \in 1 .. Current :
           /\ tables'[j].part = tables[j].part /\ tables'[j].freed = tables[j].freed
           /\ tables'[j].waits = tables[j].waits
  PROVE  IInv'
<1>1. /\ Types /\ Counts /\ r \in Readers /\ reader[r] \in ReadRec /\ part \in [Parts -> PartRec]
      /\ reader[r].pc # "holding" /\ reader \in [Readers -> ReadRec] /\ part' = part
  BY DEF IInv, Types, InSection
<1>2. pc \in {"got", "found", "mapped", "cached"}
  OBVIOUS
<1>3. /\ a \in ReadRec /\ a.pc = pc /\ a.part = o /\ a.tbl = reader[r].tbl
  BY Zenon, <1>1, <1>2 DEF ReadRec, Goes
<1>4. reader' = [reader EXCEPT ![r] = a]
  OBVIOUS
<1>5. Others' = Others
  <2>1. UserOf(reader[r]) = None /\ UserOf(a) = None
    BY <1>1, <1>3 DEF UserOf
  <2>2. UNCHANGED <<scan, reg>> /\ UserOf(a) = UserOf(reader[r])
    BY <2>1
  <2>3. QED
    BY Zenon, <1>1, <1>4, <2>2, UserMoves
<1>6. part' \in [Parts -> PartRec] /\ Kept(part, part') /\ Exact(part', Others')
  BY <1>1, <1>5 DEF Counts, Kept, Like
<1>7. a.pc \in {"found", "mapped"} => a.part # None /\ Safe(part', r, a.part)
  BY <1>1, <1>3
<1>8. a.pc \in {"got", "found", "mapped", "cached"} /\ a.pc # "got"
  BY <1>3
<1>9. QED
  BY Zenon, <1>3, <1>4, <1>6, <1>7, <1>8, ReaderStays

LEMMA MapSteps ==
  ASSUME IInv, NEW r \in Readers,
         MapStore(r) \/ \E sector \in Sectors : MapCached(r, sector) \/ MapFind(r, sector)
  PROVE  IInv'
<1>1. /\ Types /\ Sections /\ reader[r].pc \in {"locked", "found"} /\ r \in InSection
      /\ reader[r] \in ReadRec /\ reader[r].pc # "got" /\ tables \in Seq(TblRec)
      /\ UNCHANGED <<disk, part, scan, reg>> /\ Len(tables) = Current
  BY Zenon DEF IInv, Types, InSection, MapStore, MapCached, MapFind, Current
<1>2. PICK t : t = reader[r].tbl
  OBVIOUS
<1>3. /\ t \in 1 .. Current /\ tables[t] \in TblRec /\ Len(tables[t].part) \in Nat
      /\ DOMAIN tables[t].part = 1 .. Len(tables[t].part)
      /\ \A i \in 1 .. Len(tables[t].part) : tables[t].part[i] # None =>
           tables[t].part[i] \in Parts /\ Safe(part, r, tables[t].part[i])
  BY <1>1, <1>2, InTable
<1>4. ASSUME NEW sector \in Sectors, MapCached(r, sector) PROVE IInv'
  <2>1. PICK o : o = tables[t].last_lookup
    OBVIOUS
  <2>2. o \in Slots
    BY <1>3, <2>1 DEF TblRec
  <2>3. reader' = [reader EXCEPT ![r].pc = "cached", ![r].part = o] /\ tables' = tables
    BY <1>2, <1>4, <2>1 DEF MapCached
  <2>4. PICK a : a = Goes(reader[r], "cached", o)
    OBVIOUS
  <2>5. reader' = [reader EXCEPT ![r] = a]
    BY Zenon, <1>1, <2>3, <2>4 DEF Goes
  <2>6. QED
    BY Zenon, <1>1, <2>2, <2>3, <2>4, <2>5, Mapped
<1>5. ASSUME NEW sector \in Sectors, MapFind(r, sector) PROVE IInv'
  <2> DEFINE hits == {i \in DOMAIN tables[t].part :
                        tables[t].part[i] # None /\ sector_in_part(tables[t].part[i], sector)}
  <2>1. /\ hits # {} /\ tables' = tables
        /\ reader' = [reader EXCEPT ![r].pc = "found", ![r].part = tables[t].part[Min(hits)]]
    BY Zenon, <1>2, <1>5 DEF MapFind
  <2>2. hits \in SUBSET Nat
    BY <1>3
  <2>3. PICK i : i = Min(hits)
    OBVIOUS
  <2>4. i \in hits
    <3> HIDE DEF hits
    <3>1. QED
      BY <2>1, <2>2, <2>3, MinIn
  <2>5. PICK o : o = tables[t].part[i]
    OBVIOUS
  <2>6. o # None /\ o \in Parts /\ Safe(part, r, o)
    BY <1>3, <2>4, <2>5
  <2>7. reader' = [reader EXCEPT ![r].pc = "found", ![r].part = o] /\ o \in Slots
    BY <2>1, <2>3, <2>5, <2>6 DEF Slots
  <2> HIDE DEF hits
  <2>8. PICK a : a = Goes(reader[r], "found", o)
    OBVIOUS
  <2>9. reader' = [reader EXCEPT ![r] = a]
    BY Zenon, <1>1, <2>7, <2>8 DEF Goes
  <2>10. QED
    BY Zenon, <1>1, <2>1, <2>6, <2>7, <2>8, <2>9, Mapped
<1>6. ASSUME MapStore(r) PROVE IInv'
  <2>1. PICK o : o = reader[r].part
    OBVIOUS
  <2>2. /\ o \in Slots /\ o # None /\ Safe(part, r, o)
    <3>1. Reaches(r) /\ reader[r].pc = "found"
      BY <1>1, <1>6 DEF Sections, MapStore
    <3>2. QED
      BY <1>1, <2>1, <3>1 DEF ReadRec, Reaches
  <2>3. PICK b : b = [tables[t] EXCEPT !.last_lookup = o]
    BY Zenon
  <2>4. /\ b \in TblRec /\ b.part = tables[t].part /\ b.freed = tables[t].freed
        /\ b.waits = tables[t].waits
    BY <1>3, <2>2, <2>3 DEF TblRec
  <2>5. tables' = [tables EXCEPT ![t] = b]
    BY <1>2, <1>6, <2>1, <2>3 DEF MapStore
  <2>6. /\ tables' \in Seq(TblRec) /\ Len(tables') = Current
        /\ tables'[t] = b /\ \A k \in 1 .. Current : k # t => tables'[k] = tables[k]
    BY <1>1, <1>3, <2>4, <2>5, TableSet
  <2>7. \A j \in 1 .. Current :
          /\ tables'[j].part = tables[j].part /\ tables'[j].freed = tables[j].freed
          /\ tables'[j].waits = tables[j].waits
    BY <2>4, <2>6
  <2>8. PICK a : a = Goes(reader[r], "mapped", o)
    OBVIOUS
  <2>9. reader' = [reader EXCEPT ![r] = a]
    <3>1. reader' = [reader EXCEPT ![r].pc = "mapped"]
      BY <1>6 DEF MapStore
    <3>2. [reader[r] EXCEPT !.pc = "mapped"] = a
      BY Zenon, <1>1, <2>1, <2>8 DEF ReadRec, Goes
    <3>3. QED
      BY Zenon, <3>1, <3>2
  <2>10. QED
    BY Zenon, <1>1, <2>2, <2>6, <2>7, <2>8, <2>9, Mapped
<1>7. QED
  BY <1>4, <1>5, <1>6

LEMMA ReadLockStep ==
  ASSUME IInv, NEW r \in Readers, ReadLock(r)
  PROVE  IInv'
<1>1. /\ Types /\ Counts /\ Sections /\ Listed /\ ScanAt /\ RegAt /\ Told
      /\ reader[r].pc = "idle" /\ disk.stage # "released" /\ reader \in [Readers -> ReadRec]
      /\ UNCHANGED <<disk, tables, part, scan, reg>>
  BY DEF IInv, Types, ReadLock
<1>2. Current \in Nat /\ Current \in 1 .. Current /\ None \in Slots
  BY <1>1, TableTypes, ControlTypes
<1>3. PICK a : a = [pc |-> "locked", tbl |-> Current, part |-> None]
  BY Zenon
<1>4. reader' = [reader EXCEPT ![r] = a]
  BY <1>3 DEF ReadLock
<1>5. a \in ReadRec /\ a.pc = "locked" /\ a.tbl = Current /\ a.part = None
  BY <1>2, <1>3 DEF ReadRec
<1>6. Current' = Current /\ part_tbl' = part_tbl /\ Len(tables') = Current
      /\ tables' = tables /\ part' = part /\ disk' = disk
  BY <1>1 DEF Current, part_tbl
<1>7. Types'
  <2>1. reader' \in [Readers -> ReadRec]
    BY <1>1, <1>4, <1>5
  <2>2. QED
    BY <1>1, <1>6, <2>1 DEF Types
<1>8. Counts'
  <2>1. UserOf(a) = UserOf(reader[r])
    BY <1>1, <1>5 DEF UserOf
  <2>2. UNCHANGED <<scan, reg>>
    BY <1>1
  <2>3. Others' = Others
    BY Zenon, <1>1, <1>4, <2>1, <2>2, UserMoves
  <2>4. QED
    BY <1>1, <1>6, <2>3 DEF Counts
<1>9. Reaches(r)'
  <2>1. reader'[r] = a
    BY <1>1, <1>4
  <2>2. \A i \in 1 .. Len(part_tbl) : part_tbl[i] # None => Safe(part, r, part_tbl[i])
    BY <1>1 DEF Listed, Safe
  <2>3. ~tables[Current].freed
    BY <1>1 DEF Sections
  <2>4. QED
    BY <1>2, <1>5, <1>6, <2>1, <2>2, <2>3 DEF Reaches, part_tbl
<1>10. Sections'
  BY Zenon, <1>1, <1>4, <1>5, <1>6, <1>9, ReaderMoves
<1>11. Listed' /\ ScanAt' /\ RegAt' /\ Told'
  BY <1>1, <1>6, Elsewhere
<1>12. QED
  BY <1>7, <1>8, <1>10, <1>11 DEF IInv

\* disk_put_part, outside of any section.
LEMMA PutPartStep ==
  ASSUME IInv, NEW r \in Readers, disk_put_part(r)
  PROVE  IInv'
<1>1. /\ Types /\ Counts /\ Sections /\ Listed /\ ScanAt /\ RegAt /\ Told
      /\ reader[r].pc = "holding" /\ reader \in [Readers -> ReadRec]
      /\ reader' = [reader EXCEPT ![r] = IdleReader] /\ part \in [Parts -> PartRec]
      /\ UNCHANGED <<disk, tables, scan, reg>>
  BY DEF IInv, Types, disk_put_part
<1>2. PICK o : o = reader[r].part
  OBVIOUS
<1>3. o # None /\ o \in Parts /\ o \in Slots
  <2>1. o # None
    BY <1>1, <1>2 DEF Sections
  <2>2. QED
    BY <1>1, <1>2, <2>1 DEF ReadRec, Slots
<1>4. PICK a : a = IdleReader
  OBVIOUS
<1>5. a \in ReadRec /\ a.pc = "idle" /\ a.tbl = 0
  BY <1>4 DEF IdleReader, ReadRec, Slots
<1>6. Current' = Current /\ part_tbl' = part_tbl /\ Len(tables') = Current
      /\ tables' = tables /\ disk' = disk
  BY <1>1 DEF Current, part_tbl
<1>7. /\ part' \in [Parts -> PartRec] /\ Exact(part', PutBy(Others, o)) /\ Kept(part, part')
  <2>1. r \in Users(o)
    BY <1>1, <1>2 DEF Users
  <2>2. Others[o] > 0
    BY <1>3, <2>1, Holder
  <2>3. part' = put_device(part, o)
    BY <1>2 DEF disk_put_part
  <2>4. QED
    BY <1>1, <1>3, <2>2, <2>3, OthersNat, PutDevice DEF Counts
<1>8. Types'
  <2>1. reader' \in [Readers -> ReadRec]
    BY <1>1, <1>4, <1>5
  <2>2. QED
    BY <1>1, <1>6, <1>7, <2>1 DEF Types
<1>9. Counts'
  <2>1. UserOf(a) = None /\ UserOf(reader[r]) = o
    BY <1>1, <1>2, <1>5 DEF UserOf
  <2>2. UNCHANGED <<scan, reg>> /\ reader' = [reader EXCEPT ![r] = a]
    BY <1>1, <1>4
  <2>3. Others' = PutBy(Others, o)
    BY Zenon, <1>1, <2>1, <2>2, UserMoves
  <2>4. QED
    BY <1>7, <2>3 DEF Counts
<1>10. Sections'
  <2>1. \A q \in Readers, x \in Parts : q # r /\ Safe(part, q, x) => Safe(part', q, x)
    BY <1>7, KeptSafe
  <2>2. r \notin InSection'
    BY <1>1, <1>4, <1>5 DEF InSection
  <2>3. QED
    BY Zenon, <1>1, <1>4, <1>5, <1>6, <2>1, <2>2, ReaderMoves
<1>11. Listed' /\ ScanAt' /\ RegAt' /\ Told'
  <2>1. \A x \in Parts : part[x].state = "live" =>
          /\ part'[x].state = "live" /\ part'[x].partno = part[x].partno
          /\ part'[x].size = part[x].size /\ part'[x].from = part[x].from
          /\ part'[x].announced = part[x].announced
    BY <1>7 DEF Kept, Like, Alive
  <2>2. QED
    BY <1>1, <1>6, <2>1, Elsewhere
<1>12. QED
  BY <1>8, <1>9, <1>10, <1>11 DEF IInv

\* rcu_read_unlock: nothing but the waits changes in tables and partitions.
LEMMA Unwaited ==
  ASSUME Types, NEW r \in Readers,
         part' = left(part, r),
         tables' = [i \in DOMAIN tables |-> [tables[i] EXCEPT !.waits = @ \ {r}]]
  PROVE  /\ part' \in [Parts -> PartRec] /\ tables' \in Seq(TblRec) /\ Len(tables') = Current
         /\ \A o \in Parts :
              /\ part'[o].state = part[o].state /\ part'[o].partno = part[o].partno
              /\ part'[o].from = part[o].from /\ part'[o].size = part[o].size
              /\ part'[o].refs = part[o].refs /\ part'[o].announced = part[o].announced
              /\ part'[o].waits = part[o].waits \ {r}
         /\ \A j \in 1 .. Current :
              /\ tables'[j].part = tables[j].part /\ tables'[j].freed = tables[j].freed
              /\ tables'[j].waits = tables[j].waits \ {r}
<1>1. ASSUME NEW a \in PartRec, NEW b, b = [a EXCEPT !.waits = @ \ {r}]
      PROVE  /\ b \in PartRec /\ b.state = a.state /\ b.partno = a.partno /\ b.from = a.from
             /\ b.size = a.size /\ b.refs = a.refs /\ b.announced = a.announced
             /\ b.waits = a.waits \ {r}
  BY <1>1 DEF PartRec
<1>2. part \in [Parts -> PartRec] /\ part' = [o \in Parts |-> [part[o] EXCEPT !.waits = @ \ {r}]]
  BY DEF Types, left
<1>3. ASSUME NEW o \in Parts
      PROVE  /\ part'[o] \in PartRec
             /\ part'[o].state = part[o].state /\ part'[o].partno = part[o].partno
             /\ part'[o].from = part[o].from /\ part'[o].size = part[o].size
             /\ part'[o].refs = part[o].refs /\ part'[o].announced = part[o].announced
             /\ part'[o].waits = part[o].waits \ {r}
  <2>1. part[o] \in PartRec /\ part'[o] = [part[o] EXCEPT !.waits = @ \ {r}]
    BY <1>2
  <2>2. QED
    BY <1>1, <2>1
<1>4. part' \in [Parts -> PartRec]
  BY Zenon, <1>2, <1>3
<1>5. ASSUME NEW a \in TblRec, NEW b, b = [a EXCEPT !.waits = @ \ {r}]
      PROVE  /\ b \in TblRec /\ b.part = a.part /\ b.freed = a.freed /\ b.waits = a.waits \ {r}
  BY <1>5 DEF TblRec
<1>6. DOMAIN tables = 1 .. Current /\ Current \in Nat
  BY TableTypes, SeqTypes DEF Current
<1>7. ASSUME NEW j \in 1 .. Current
      PROVE  /\ tables'[j] \in TblRec
             /\ tables'[j].part = tables[j].part /\ tables'[j].freed = tables[j].freed
             /\ tables'[j].waits = tables[j].waits \ {r}
  <2>1. tables[j] \in TblRec /\ tables'[j] = [tables[j] EXCEPT !.waits = @ \ {r}]
    BY <1>6, TableTypes
  <2>2. QED
    BY Zenon, <1>5, <2>1
<1>8. tables' \in [1 .. Current -> TblRec]
  <2>1. tables' = [i \in 1 .. Current |-> tables'[i]]
    BY <1>6
  <2>2. QED
    BY <1>7, <2>1
<1>9. tables' \in Seq(TblRec) /\ Len(tables') = Current
  BY <1>6, <1>8, SeqTypes
<1>10. QED
  BY <1>3, <1>4, <1>7, <1>9

LEMMA ReadUnlockStep ==
  ASSUME IInv, NEW r \in Readers, ReadUnlock(r)
  PROVE  IInv'
<1>1. /\ Types /\ Counts /\ Sections /\ Listed /\ ScanAt /\ RegAt /\ Told
      /\ reader[r].pc \in {"locked", "got", "mapped", "cached"}
      /\ reader \in [Readers -> ReadRec] /\ reader[r] \in ReadRec
      /\ UNCHANGED <<disk, scan, reg>> /\ part' = left(part, r)
      /\ tables' = [i \in DOMAIN tables |-> [tables[i] EXCEPT !.waits = @ \ {r}]]
  BY DEF IInv, Types, ReadUnlock, unlocked
<1>2. /\ part' \in [Parts -> PartRec] /\ tables' \in Seq(TblRec) /\ Len(tables') = Current
      /\ \A o \in Parts :
           /\ part'[o].state = part[o].state /\ part'[o].partno = part[o].partno
           /\ part'[o].from = part[o].from /\ part'[o].size = part[o].size
           /\ part'[o].refs = part[o].refs /\ part'[o].announced = part[o].announced
           /\ part'[o].waits = part[o].waits \ {r}
      /\ \A j \in 1 .. Current :
           /\ tables'[j].part = tables[j].part /\ tables'[j].freed = tables[j].freed
           /\ tables'[j].waits = tables[j].waits \ {r}
  BY Zenon, <1>1, Unwaited
<1>3. PICK a : a = IF reader[r].pc = "got"
                   THEN [reader[r] EXCEPT !.pc = "holding", !.tbl = 0] ELSE IdleReader
  OBVIOUS
<1>4. reader' = [reader EXCEPT ![r] = a]
  BY Zenon, <1>3 DEF ReadUnlock, unlocked
<1>5. /\ a \in ReadRec /\ a.pc \in {"idle", "holding"} /\ a.tbl = 0
      /\ UserOf(a) = UserOf(reader[r]) /\ (a.pc = "holding" => a.part # None)
  <2>1. CASE reader[r].pc = "got"
    <3>1. a = [reader[r] EXCEPT !.pc = "holding", !.tbl = 0]
      BY <1>3, <2>1
    <3>2. reader[r].part # None
      BY <1>1, <2>1 DEF Sections
    <3>3. a \in ReadRec /\ a.pc = "holding" /\ a.tbl = 0 /\ a.part = reader[r].part
      BY Zenon, <1>1, <3>1 DEF ReadRec
    <3>4. QED
      BY <2>1, <3>2, <3>3 DEF UserOf
  <2>2. CASE reader[r].pc # "got"
    <3>1. a = IdleReader
      BY <1>3, <2>2
    <3>2. a \in ReadRec /\ a.pc = "idle" /\ a.tbl = 0
      BY <3>1 DEF IdleReader, ReadRec, Slots
    <3>3. QED
      BY <1>1, <2>2, <3>2 DEF UserOf
  <2>3. QED
    BY <2>1, <2>2
<1>6. Current' = Current /\ part_tbl' = part_tbl /\ disk' = disk
  <2>1. Current \in 1 .. Current
    BY <1>1, TableTypes
  <2>2. QED
    BY <1>1, <1>2, <2>1 DEF Current, part_tbl
<1>7. Types'
  <2>1. reader' \in [Readers -> ReadRec]
    BY <1>1, <1>4, <1>5
  <2>2. QED
    BY <1>1, <1>2, <1>6, <2>1 DEF Types
<1>8. Counts'
  <2>1. UNCHANGED <<scan, reg>>
    BY <1>1
  <2>2. Others' = Others
    BY Zenon, <1>1, <1>4, <1>5, <2>1, UserMoves
  <2>3. QED
    BY <1>1, <1>2, <2>2 DEF Counts, Exact, Own
<1>9. Sections'
  <2>1. \A q \in Readers, o \in Parts : q # r /\ Safe(part, q, o) => Safe(part', q, o)
    BY <1>2 DEF Safe
  <2>2. r \notin InSection'
    BY <1>1, <1>4, <1>5 DEF InSection
  <2>3. \A j \in 1 .. Current :
          /\ tables'[j].part = tables[j].part /\ tables'[j].freed = tables[j].freed
          /\ \A q \in Readers : q # r /\ q \in tables[j].waits => q \in tables'[j].waits
    BY <1>2
  <2>4. a.pc \in {"got", "holding"} => a.part # None
    BY <1>5
  <2>5. QED
    BY Zenon, <1>1, <1>2, <1>4, <1>5, <1>6, <2>1, <2>2, <2>3, <2>4, ReaderMoves
<1>10. Listed' /\ ScanAt' /\ RegAt' /\ Told'
  BY <1>1, <1>2, <1>6, Elsewhere
<1>11. QED
  BY <1>7, <1>8, <1>9, <1>10 DEF IInv

------------------------------------------------------------------------------
(* The invariant.                                                           *)

\* alloc_disk_node's table, and nobody there.
LEMMA InitIInv == Init => IInv
<1> SUFFICES ASSUME Init PROVE IInv
  OBVIOUS
<1>1. PICK b : b = [part |-> <<>>, last_lookup |-> None, freed |-> FALSE, waits |-> {}]
  BY Zenon
<1>2. b \in TblRec /\ b.part = <<>> /\ b.freed = FALSE
  <2>1. <<>> \in Seq(Slots)
    OBVIOUS
  <2>2. QED
    BY <1>1, <2>1 DEF TblRec, Slots
<1>3. /\ tables = <<b>> /\ Current = 1 /\ tables[Current] = b /\ part_tbl = <<>>
      /\ Len(part_tbl) = 0 /\ tables \in Seq(TblRec)
  BY <1>1, <1>2 DEF Init, Current, part_tbl
<1>4. /\ disk \in DiskRec /\ disk.stage = "up"
  <2>1. PICK capacity \in Capacities, native \in BOOLEAN :
          disk = [capacity |-> capacity, native |-> native, suppress |-> TRUE,
                  invalidated |-> FALSE, stage |-> "up"]
    BY Zenon DEF Init
  <2>2. capacity \in 0 .. Native
    BY PartitionsAssumption
  <2>3. QED
    BY <2>1, <2>2 DEF DiskRec
<1>5. /\ scan \in ScanRec /\ scan.pc = "idle" /\ scan.held = None
  BY DEF Init, NoScan, ScanRec, Slots
<1>6. /\ reg \in RegRec /\ reg.pc = "start" /\ reg.held = None
  BY DEF Init, RegRec, Slots
<1>7. /\ reader \in [Readers -> ReadRec]
      /\ \A r \in Readers : reader[r].pc = "idle" /\ reader[r].tbl = 0
  <2>1. IdleReader \in ReadRec /\ IdleReader.pc = "idle" /\ IdleReader.tbl = 0
    BY DEF IdleReader, ReadRec, Slots
  <2>2. reader = [r \in Readers |-> IdleReader]
    BY DEF Init
  <2>3. QED
    BY <2>1, <2>2
<1>8. /\ part \in [Parts -> PartRec] /\ \A o \in Parts : part[o] = Free
  BY FreeTyped DEF Init
<1>9. Types
  BY <1>3, <1>4, <1>5, <1>6, <1>7, <1>8 DEF Types
<1>10. Counts
  <2>1. \A o \in Parts : Users(o) = {}
    BY <1>7 DEF Users
  <2>2. \A o \in Parts : Others[o] = 0
    <3>1. \A o \in Parts : Cardinality(Users(o)) = 0 /\ o # None
      BY <2>1, OthersNat, PartitionsAssumption
    <3>2. QED
      BY <1>5, <1>6, <3>1 DEF Others
  <2>3. QED
    BY <1>8, <2>2, FreeTyped DEF Counts, Exact, Own, Alive
<1>11. Sections
  <2>1. InSection = {}
    BY <1>7 DEF InSection
  <2>2. QED
    BY <1>2, <1>3, <1>7, <2>1 DEF Sections
<1>12. Listed
  BY <1>3, PartitionsAssumption DEF Listed
<1>13. ScanAt /\ RegAt /\ Told
  BY <1>4, <1>5, <1>6 DEF ScanAt, RegAt, Told
<1>14. QED
  BY <1>9, <1>10, <1>11, <1>12, <1>13 DEF IInv

LEMMA NextIInv == IInv /\ [Next]_vars => IInv'
<1> SUFFICES ASSUME IInv, [Next]_vars PROVE IInv'
  OBVIOUS
<1>1. ASSUME rescan_partitions PROVE IInv'
  <2>1. ASSUME NEW p \in Partnos, SkipPart(p) \/ RescanFor(p) \/ AddFails(p) \/ add_partition(p)
        PROVE  IInv'
    BY <2>1, DropSteps, RescanForStep, GrowSteps, AddPartitionStep
  <2>2. ASSUME NEW s \in Scans, check_partition(s) PROVE IInv'
    BY <2>2, CheckPartitionStep
  <2>3. CASE DropRefused \/ DropBegin \/ ScanEnd
    BY <2>3, DropSteps
  <2>4. CASE DropNext \/ DropEnd
    BY <2>4, DropNextStep, DropEndStep
  <2>5. CASE invalidate_partitions \/ revalidate_disk
    BY <2>5, CapacitySteps
  <2>6. CASE Preallocate
    BY <2>6, GrowSteps
  <2>7. CASE AnnouncePart
    BY <2>7, AnnouncePartStep
  <2>8. QED
    BY <1>1, <2>1, <2>2, <2>3, <2>4, <2>5, <2>6, <2>7 DEF rescan_partitions
<1>2. ASSUME register_disk \/ del_gendisk PROVE IInv'
  <2>1. CASE RegStart \/ RegOpen \/ RegExit \/ DelStart
    BY <2>1, RegControl
  <2>2. CASE RegNext
    BY <2>2, RegNextStep
  <2>3. CASE RegAnnounce
    BY <2>3, RegAnnounceStep
  <2>4. CASE DelNext
    BY <2>4, DelNextStep
  <2>5. CASE DelEnd
    BY <2>5, DelEndStep
  <2>6. QED
    BY <1>2, <2>1, <2>2, <2>3, <2>4, <2>5 DEF register_disk, del_gendisk
<1>3. ASSUME NEW r \in Readers, Read(r) PROVE IInv'
  <2>1. CASE ReadLock(r)
    BY <2>1, ReadLockStep
  <2>2. CASE ReadUnlock(r)
    BY <2>2, ReadUnlockStep
  <2>3. CASE disk_put_part(r)
    BY <2>3, PutPartStep
  <2>4. CASE MapStore(r) \/ \E sector \in Sectors : MapCached(r, sector) \/ MapFind(r, sector)
    BY <2>4, MapSteps
  <2>5. ASSUME NEW p \in Partnos, disk_get_part(r, p) PROVE IInv'
    BY <2>5, GetPartStep
  <2>6. QED
    BY <1>3, <2>1, <2>2, <2>3, <2>4, <2>5 DEF Read
<1>4. ASSUME NEW o \in Parts, HdPut(o) \/ delete_partition_rcu_cb(o) PROVE IInv'
  BY <1>4, HdPutStep, RcuCallbackStep
<1>5. ASSUME NEW i \in DOMAIN tables, FreeTable(i) PROVE IInv'
  BY <1>5, FreeTableStep
<1>6. ASSUME NEW op \in {"rescan", "invalidate"}, StartScan(op) PROVE IInv'
  BY <1>6, StartScanStep
<1>7. CASE disk_release
  BY <1>7, ReleaseStep
<1>8. CASE UNCHANGED vars
  <2>1. UNCHANGED <<disk, tables, part, scan, reg, reader>>
    BY <1>8 DEF vars
  <2>2. /\ Types /\ Counts /\ Sections /\ Listed /\ ScanAt /\ RegAt /\ Told
        /\ part_tbl' = part_tbl /\ Current' = Current
    BY <2>1 DEF IInv, part_tbl, Current
  <2>3. Types'
    BY <2>1, <2>2 DEF Types
  <2>4. Others' = Others
    BY <2>1, HeldMoves
  <2>5. Counts'
    BY <2>1, <2>2, <2>4 DEF Counts
  <2>6. Sections'
    BY <2>1, <2>2, SameSafe, SectionsKept
  <2>7. Listed' /\ ScanAt' /\ RegAt' /\ Told'
    BY <2>1, <2>2, Elsewhere
  <2>8. QED
    BY <2>3, <2>5, <2>6, <2>7 DEF IInv
<1>9. QED
  BY <1>1, <1>2, <1>3, <1>4, <1>5, <1>6, <1>7, <1>8 DEF Next

\* The inductive invariant of the partition table, its scans and its readers.
THEOREM TableInvariant == Spec => []IInv
<1>1. Init => IInv
  BY InitIInv
<1>2. IInv /\ [Next]_vars => IInv'
  BY NextIInv
<1>3. QED
  BY <1>1, <1>2, PTL DEF Spec

LEMMA IInvSafe == IInv => ReadersSafe
<1> SUFFICES ASSUME IInv PROVE ReadersSafe
  OBVIOUS
<1>1. Types /\ Counts /\ Sections
  BY DEF IInv
<1>2. Current \in Nat /\ \A r \in Readers : reader[r] \in ReadRec
  BY <1>1, TableTypes DEF Types
<1>3. \A o \in Parts : part[o] \in PartRec
  BY <1>1 DEF Types
<1>4. ASSUME NEW r \in Readers PROVE reader[r].tbl \in 0 .. Current
  <2>1. CASE r \in InSection
    <3>1. Reaches(r)
      BY <1>1, <2>1 DEF Sections
    <3>2. reader[r].tbl \in 1 .. Current
      BY <3>1 DEF Reaches
    <3>3. QED
      BY <1>2, <3>2
  <2>2. CASE r \notin InSection
    <3>1. reader[r].pc \in {"idle", "holding"}
      BY <1>2, <2>2 DEF InSection, ReadRec
    <3>2. QED
      BY <1>1, <1>2, <3>1 DEF Sections
  <2>3. QED
    BY <2>1, <2>2
<1>5. TypeOK
  <2>1. disk \in DiskRec
    BY <1>1 DEF Types
  <2>2. QED
    BY <1>3, <1>4, <2>1 DEF TypeOK, PartRec, DiskRec
<1>6. \A r \in InSection : ~tables[reader[r].tbl].freed
  BY <1>1 DEF Sections, Reaches
<1>7. ASSUME NEW r \in Readers, reader[r].pc \in {"got", "found", "mapped", "holding"}
      PROVE  Held(reader[r].part)
  <2>1. CASE reader[r].pc \in {"found", "mapped"}
    <3>1. Reaches(r)
      BY <1>1, <2>1 DEF Sections, InSection
    <3>2. QED
      BY <2>1, <3>1 DEF Reaches, Safe, Held
  <2>2. CASE reader[r].pc \in {"got", "holding"}
    <3>1. PICK o : o = reader[r].part
      OBVIOUS
    <3>2. o \in Parts
      <4>1. o # None
        BY <1>1, <2>2, <3>1 DEF Sections
      <4>2. QED
        BY <1>2, <3>1, <4>1 DEF ReadRec, Slots
    <3>3. Users(o) # {}
      BY <2>2, <3>1 DEF Users
    <3>4. Others[o] > 0 /\ Others[o] \in Nat
      BY <3>2, <3>3, Holder, OthersNat
    <3>5. part[o].refs # 0
      BY <1>1, <3>2, <3>4 DEF Counts, Exact, Own
    <3>6. QED
      BY <1>1, <3>1, <3>2, <3>5 DEF Counts, Exact, Held
  <2>3. QED
    BY <1>7, <2>1, <2>2
<1>8. ASSUME NEW r \in InSection, NEW i \in Partnos, NEW t, t = tables[reader[r].tbl].part,
             i <= Len(t), t[i] # None
      PROVE  part[t[i]].state \in {"live", "unlinked", "dying"}
  <2>1. Reaches(r)
    BY <1>1 DEF Sections
  <2>2. PICK k : k = reader[r].tbl
    OBVIOUS
  <2>3. Len(tables[k].part) \in Nat
    BY <2>2, InTable
  <2>4. i \in 1 .. Len(tables[k].part)
    BY <1>8, <2>2, <2>3 DEF Partnos
  <2>5. Safe(part, r, tables[k].part[i])
    BY <1>8, <2>1, <2>2, <2>4 DEF Reaches
  <2>6. QED
    BY Zenon, <1>8, <2>2, <2>5 DEF Safe
<1>9. ASSUME NEW o \in Parts
      PROVE  part[o].refs = Refs(o) /\ (part[o].state = "free" <=> part[o].refs = 0)
  BY <1>1 DEF Counts, Exact, Others, Own, Alive, Refs
<1>10. QED
  BY <1>5, <1>6, <1>7, <1>8, <1>9 DEF ReadersSafe

\* For any number of readers, partitions and scans: no table is freed under a
\* reader, nor a partition that disk_get_part or disk_map_sector_rcu found in a
\* slot of its table, or that a reader holds a reference to; and the device
\* references of every hd_struct are exactly the ones that will be put.  What
\* disk_map_sector_rcu takes from last_lookup is not covered: it can be freed.
THEOREM ReadersAreSafe == Spec => []ReadersSafe
BY TableInvariant, IInvSafe, PTL

\* For any disk and anything the partition parser returns: what add_partition
\* has put in the table is at its number and inside the disk.
THEOREM TableInsideDisk == Spec => []WithinDisk
<1>1. IInv => WithinDisk
  <2> SUFFICES ASSUME IInv PROVE WithinDisk
    OBVIOUS
  <2>1. Types /\ Listed
    BY DEF IInv
  <2>2. DOMAIN part_tbl = 1 .. Len(part_tbl)
    BY <2>1, TableTypes
  <2>3. QED
    BY <2>1, <2>2 DEF Listed, WithinDisk
<1>2. QED
  BY <1>1, TableInvariant, PTL

\* Whichever of register_disk and the scan saw the uevents suppressed,
\* register_disk leaves no partition unannounced.
THEOREM EveryPartitionAnnounced == Spec => []AnnouncedAll
<1>1. IInv => AnnouncedAll
  <2> SUFFICES ASSUME IInv PROVE AnnouncedAll
    OBVIOUS
  <2>1. Types /\ Told
    BY DEF IInv
  <2>2. DOMAIN part_tbl = 1 .. Len(part_tbl)
    BY <2>1, TableTypes
  <2>3. QED
    BY <2>1, <2>2 DEF Told, AnnouncedAll
<1>2. QED
  BY <1>1, TableInvariant, PTL
=============================================================================
