------------------------ MODULE PartitionsTableProofs ------------------------
(***************************************************************************)
(* Proofs about Partitions: the inductive invariant of the partition table *)
(* and of its readers, and the steps of whoever changes the table: the     *)
(* scans, register_disk, del_gendisk and the callbacks they leave behind.  *)
(* What these proofs need of the natural numbers and of finite sets is     *)
(* their hypothesis Basics, proved in PartitionsProofs.                    *)
(***************************************************************************)
EXTENDS Partitions, TLAPS

Slots == Parts \cup {None}

PartRec == [state : {"free", "live", "unlinked", "dying", "gone"}, partno : 0 .. MaxPartno,
            from : Nat, size : Nat, refs : Nat, announced : BOOLEAN, waits : SUBSET Readers]
TblRec  == [part : Seq(Slots), last_lookup : Slots, freed : BOOLEAN, waits : SUBSET Readers]
Parsed  == [Partnos -> Extents]
ScanRec == [pc : {"idle", "drop", "delete", "dropped", "parse", "expand", "add", "announce"},
            op : {"none", "rescan", "invalidate"}, p : Nat, held : Slots,
            found : Parsed \cup {None}]
RegRec  == [pc : {"start", "failed", "open", "scan", "exit", "iter", "announce", "done",
                  "del", "end"},
            idx : Nat, held : Slots]
ReadRec == [pc : {"idle", "locked", "got", "found", "mapped", "cached", "holding"},
            tbl : Nat, part : Slots]
DiskRec == [capacity : 0 .. Native, native : BOOLEAN, suppress : BOOLEAN,
            invalidated : BOOLEAN, stage : {"up", "deleting", "down", "released"}]

Types ==
  /\ disk \in DiskRec /\ part \in [Parts -> PartRec]
  /\ tables \in Seq(TblRec) /\ Current >= 1
  /\ scan \in ScanRec /\ reg \in RegRec /\ reader \in [Readers -> ReadRec]

\* The states in which the partition itself accounts for one reference.
Alive == {"live", "unlinked", "dying"}
Own(p) == IF p.state \in Alive THEN 1 ELSE 0

\* The references of others, by partition.
Others ==
  [o \in Parts |-> Cardinality(Users(o)) + (IF scan.held = o THEN 1 ELSE 0)
                     + (IF reg.held = o THEN 1 ELSE 0)]

\* The reference counts in ps are exact when the others have n.
Exact(ps, n) ==
  \A o \in Parts : /\ ps[o].refs = n[o] + Own(ps[o])
                   /\ ps[o].state = "free" <=> ps[o].refs = 0

Counts == Exact(part, Others)

\* o cannot be released before r leaves its read-side section.
Safe(ps, r, o) ==
  \/ ps[o].state \in {"live", "unlinked"}
  \/ ps[o].state = "dying" /\ r \in ps[o].waits

\* What a reader inside its section can reach: a table that is current or
\* waits for it, and partitions that do.
Reaches(r) ==
  /\ reader[r].tbl \in 1 .. Current
  /\ reader[r].tbl < Current => r \in tables[reader[r].tbl].waits
  /\ ~tables[reader[r].tbl].freed
  /\ \A i \in 1 .. Len(tables[reader[r].tbl].part) :
       tables[reader[r].tbl].part[i] # None => Safe(part, r, tables[reader[r].tbl].part[i])
  /\ reader[r].pc \in {"found", "mapped"} => reader[r].part # None /\ Safe(part, r, reader[r].part)

Sections ==
  /\ \A r \in InSection : Reaches(r)
  /\ \A r \in Readers : reader[r].pc \in {"idle", "holding"} => reader[r].tbl = 0
  /\ \A r \in Readers : reader[r].pc \in {"got", "holding"} => reader[r].part # None
  /\ disk.stage = "released" => InSection = {}
  /\ tables[Current].freed => disk.stage = "released"

\* The current table lists live partitions, each at its number and inside the
\* disk.
Listed ==
  /\ Len(part_tbl) <= MaxPartno
  /\ \A i \in 1 .. Len(part_tbl) : part_tbl[i] # None =>
       /\ part[part_tbl[i]].state = "live" /\ part[part_tbl[i]].partno = i
       /\ part[part_tbl[i]].size > 0
       /\ part[part_tbl[i]].from + part[part_tbl[i]].size <= disk.capacity

\* Where the scan is: what it has dropped, holds and has parsed.
ScanAt ==
  /\ scan.pc = "delete" => \A i \in 1 .. Len(part_tbl) : i < scan.p => part_tbl[i] = None
  /\ scan.pc \in {"dropped", "parse", "expand"} =>
       \A i \in 1 .. Len(part_tbl) : part_tbl[i] = None
  /\ scan.pc = "announce" => scan.p \in 1 .. Len(part_tbl) /\ part_tbl[scan.p] # None
  /\ scan.pc # "delete" => scan.held = None
  /\ scan.pc \in {"expand", "add", "announce"} => scan.found \in Parsed
  /\ disk.stage # "up" => scan.pc = "idle"

\* Where register_disk and del_gendisk are.
RegAt ==
  /\ reg.pc \notin {"iter", "announce", "del"} => reg.held = None
  /\ reg.pc = "announce" => reg.held # None
  /\ disk.stage = "deleting" <=> reg.pc = "del"
  /\ disk.stage \in {"down", "released"} <=> reg.pc = "end"
  /\ reg.pc = "del" => \A i \in 1 .. Len(part_tbl) : i > reg.idx => part_tbl[i] = None
  /\ reg.pc = "end" => \A i \in 1 .. Len(part_tbl) : part_tbl[i] = None

\* A partition that userspace has not been told of is still ahead of somebody
\* who will tell.
Told ==
  reg.pc \in {"iter", "announce", "done"} =>
    /\ ~disk.suppress
    /\ \A i \in 1 .. Len(part_tbl) : part_tbl[i] # None =>
         \/ part[part_tbl[i]].announced
         \/ scan.pc = "announce" /\ i = scan.p
         \/ reg.pc \in {"iter", "announce"} /\ i >= reg.idx
         \/ reg.pc = "announce" /\ part_tbl[i] = reg.held

IInv == Types /\ Counts /\ Sections /\ Listed /\ ScanAt /\ RegAt /\ Told

------------------------------------------------------------------------------
(* Sequences, first and last elements.                                      *)

\* The length and the elements of a sequence.
LEMMA SeqTypes ==
  ASSUME NEW S, NEW s \in Seq(S)
  PROVE  /\ Len(s) \in Nat /\ DOMAIN s = 1 .. Len(s)
         /\ \A i \in 1 .. Len(s) : s[i] \in S
OBVIOUS

\* One element of a sequence is replaced.
LEMMA SeqExcept ==
  ASSUME NEW S, NEW s \in Seq(S), NEW i \in 1 .. Len(s), NEW e \in S
  PROVE  /\ [s EXCEPT ![i] = e] \in Seq(S)
         /\ Len([s EXCEPT ![i] = e]) = Len(s)
         /\ \A j \in 1 .. Len(s) : [s EXCEPT ![i] = e][j] = IF j = i THEN e ELSE s[j]
OBVIOUS

\* One element is appended.
LEMMA SeqAppend ==
  ASSUME NEW S, NEW s \in Seq(S), NEW e \in S
  PROVE  /\ Append(s, e) \in Seq(S)
         /\ Len(Append(s, e)) = Len(s) + 1
         /\ \A j \in 1 .. Len(s) : Append(s, e)[j] = s[j]
         /\ Append(s, e)[Len(s) + 1] = e
OBVIOUS

\* What the steps need of numbers and of sets of readers: a set of numbers has
\* a least one, and a set of readers has one member more or less when one comes
\* or goes.
Basics ==
  /\ \A S \in SUBSET Nat : S # {} => \E i \in S : \A j \in S : i <= j
  /\ \A S \in SUBSET Readers :
       /\ Cardinality(S) \in Nat /\ (Cardinality(S) = 0 <=> S = {})
       /\ \A r \in Readers :
            /\ r \notin S => Cardinality(S \cup {r}) = Cardinality(S) + 1
            /\ r \in S => Cardinality(S \ {r}) = Cardinality(S) - 1

\* A set of slot numbers has a first one ...
LEMMA MinIn ==
  ASSUME Basics, NEW S \in SUBSET Nat, S # {}
  PROVE  Min(S) \in S /\ \A j \in S : Min(S) <= j
BY Zenon DEF Basics, Min

\* ... and, being bounded, a last one.
LEMMA MaxIn ==
  ASSUME Basics, NEW n \in Nat, NEW S \in SUBSET (0 .. n), S # {}
  PROVE  Max(S) \in S /\ \A j \in S : j <= Max(S)
<1> DEFINE T == {n - j : j \in S}
<1>1. T \in SUBSET Nat /\ T # {}
  <2>1. \A j \in S : n - j \in Nat
    OBVIOUS
  <2>2. PICK j \in S : TRUE
    BY Zenon
  <2>3. n - j \in T
    OBVIOUS
  <2>4. QED
    BY <2>1, <2>3
<1>2. PICK t : t = Min(T)
  OBVIOUS
<1>3. t \in T /\ \A k \in T : t <= k
  BY Zenon, <1>1, <1>2, MinIn
<1>4. PICK i \in S : t = n - i
  BY <1>3
<1>5. \A j \in S : j <= i
  BY <1>3, <1>4
<1> QED
  BY Zenon, <1>5 DEF Max

------------------------------------------------------------------------------
(* Reference counts.                                                        *)

\* All but the reference count is as it was.
Like(a, b) ==
  /\ a.state = b.state /\ a.partno = b.partno /\ a.from = b.from /\ a.size = b.size
  /\ a.announced = b.announced /\ a.waits = b.waits

\* A partition that is not gone is as it was.
Kept(ps, qs) == \A o \in Parts : ps[o].state \in Alive => Like(qs[o], ps[o])

PutBy(n, o) == [q \in Parts |-> IF q = o THEN n[q] - 1 ELSE n[q]]
GotBy(n, o) == [q \in Parts |-> IF q = o THEN n[q] + 1 ELSE n[q]]

\* A released hd_struct.
LEMMA FreeTyped ==
  /\ Free \in PartRec /\ Free.state = "free" /\ Free.refs = 0
BY PartitionsAssumption DEF Free, PartRec

\* Another count, and nothing else.
LEMMA Recounted ==
  ASSUME NEW a \in PartRec, NEW n \in Nat
  PROVE  /\ [a EXCEPT !.refs = n] \in PartRec
         /\ Like([a EXCEPT !.refs = n], a)
         /\ [a EXCEPT !.refs = n].refs = n
BY DEF PartRec, Like

\* put_device by somebody who has a reference: the counts stay exact, and a
\* partition that is live, unlinked or dying is not released by it.
LEMMA PutDevice ==
  ASSUME NEW ps \in [Parts -> PartRec], NEW n \in [Parts -> Nat], Exact(ps, n),
         NEW o \in Slots, o # None => n[o] > 0
  PROVE  /\ put_device(ps, o) \in [Parts -> PartRec]
         /\ PutBy(n, o) \in [Parts -> Nat]
         /\ Exact(put_device(ps, o), PutBy(n, o))
         /\ Kept(ps, put_device(ps, o))
<1>1. CASE o = None
  <2>1. put_device(ps, o) = ps /\ \A q \in Parts : q # o
    BY <1>1, PartitionsAssumption DEF put_device
  <2>2. PutBy(n, o) = n
    BY <2>1 DEF PutBy
  <2>3. QED
    BY <2>1, <2>2 DEF Kept, Like
<1>2. CASE o # None
  <2>1. o \in Parts /\ n[o] > 0
    BY <1>2 DEF Slots
  <2>2. PutBy(n, o) \in [Parts -> Nat]
    BY <2>1 DEF PutBy
  <2>3. ps[o] \in PartRec /\ ps[o].refs \in Nat /\ ps[o].refs > 0
    BY <2>1 DEF PartRec, Exact, Own
  <2>4. CASE ps[o].refs = 1
    <3>1. put_device(ps, o) = [ps EXCEPT ![o] = Free]
      BY <1>2, <2>4 DEF put_device
    <3>2. n[o] = 1 /\ ps[o].state \notin Alive
      BY <2>1, <2>4 DEF Exact, Own
    <3>3. QED
      BY <2>1, <2>2, <3>1, <3>2, FreeTyped DEF Exact, Own, Kept, Like, PutBy, Alive
  <2>5. CASE ps[o].refs # 1
    <3> DEFINE a == [ps[o] EXCEPT !.refs = ps[o].refs - 1]
    <3>1. put_device(ps, o) = [ps EXCEPT ![o] = a]
      BY <1>2, <2>1, <2>5 DEF put_device
    <3>2. a \in PartRec /\ Like(a, ps[o]) /\ a.refs = ps[o].refs - 1
      <4>1. ps[o].refs - 1 \in Nat
        BY <2>3
      <4>2. QED
        BY <2>3, <4>1, Recounted
    <3> HIDE DEF a
    <3>3. put_device(ps, o) \in [Parts -> PartRec]
      BY Zenon, <3>1, <3>2
    <3>4. Kept(ps, put_device(ps, o))
      BY <3>1, <3>2 DEF Kept, Like
    <3>5. Exact(put_device(ps, o), PutBy(n, o))
      BY <2>1, <2>3, <2>5, <3>1, <3>2 DEF Exact, Own, Like, PutBy
    <3>6. QED
      BY <2>2, <3>3, <3>4, <3>5
  <2>6. QED
    BY <2>4, <2>5
<1>3. QED
  BY <1>1, <1>2

\* get_device on a partition that is not free.
LEMMA GetDevice ==
  ASSUME NEW ps \in [Parts -> PartRec], NEW n \in [Parts -> Nat], Exact(ps, n),
         NEW o \in Parts, ps[o].state # "free"
  PROVE  /\ get_device(ps, o) \in [Parts -> PartRec]
         /\ GotBy(n, o) \in [Parts -> Nat]
         /\ Exact(get_device(ps, o), GotBy(n, o))
         /\ Kept(ps, get_device(ps, o))
<1> DEFINE a == [ps[o] EXCEPT !.refs = ps[o].refs + 1]
<1>1. o # None /\ ps[o] \in PartRec /\ ps[o].refs \in Nat
  BY PartitionsAssumption DEF PartRec
<1>2. get_device(ps, o) = [ps EXCEPT ![o] = a]
  BY <1>1 DEF get_device
<1>3. a \in PartRec /\ Like(a, ps[o]) /\ a.refs = ps[o].refs + 1
  BY <1>1, Recounted
<1> HIDE DEF a
<1>4. get_device(ps, o) \in [Parts -> PartRec] /\ GotBy(n, o) \in [Parts -> Nat]
  BY <1>2, <1>3 DEF GotBy
<1>5. Kept(ps, get_device(ps, o))
  BY <1>2, <1>3 DEF Kept, Like
<1>6. Exact(get_device(ps, o), GotBy(n, o))
  BY <1>1, <1>2, <1>3 DEF Exact, Own, Like, GotBy
<1>7. QED
  BY <1>4, <1>5, <1>6
\* A partition that a reader may reach is not released by put or get.
LEMMA KeptSafe ==
  ASSUME NEW ps, NEW qs, Kept(ps, qs), NEW r, NEW o \in Parts, Safe(ps, r, o)
  PROVE  Safe(qs, r, o)
BY DEF Kept, Safe, Like, Alive

\* There are finitely many references.
LEMMA OthersNat ==
  ASSUME Basics
  PROVE  /\ Others \in [Parts -> Nat]
         /\ \A o \in Parts : /\ Users(o) \in SUBSET Readers /\ Cardinality(Users(o)) \in Nat
                             /\ Cardinality(Users(o)) = 0 <=> Users(o) = {}
<1>1. ASSUME NEW o \in Parts
      PROVE  /\ Users(o) \in SUBSET Readers /\ Cardinality(Users(o)) \in Nat
             /\ Cardinality(Users(o)) = 0 <=> Users(o) = {}
  <2>1. Users(o) \in SUBSET Readers
    BY DEF Users
  <2>2. QED
    BY <2>1 DEF Basics
<1>2. QED
  BY <1>1 DEF Others

\* Whoever holds a partition is counted.
LEMMA Holder ==
  ASSUME Basics, NEW o \in Parts, scan.held = o \/ reg.held = o \/ Users(o) # {}
  PROVE  Others[o] > 0
<1>1. Cardinality(Users(o)) \in Nat /\ (Users(o) # {} => Cardinality(Users(o)) # 0)
  BY OthersNat
<1>2. QED
  BY <1>1 DEF Others

\* The scan, or register_disk, lets one partition go and takes another.
LEMMA HeldMoves ==
  ASSUME Basics, UNCHANGED reader
  PROVE  /\ scan'.held = scan.held /\ reg'.held = reg.held => Others' = Others
         /\ reg'.held = reg.held => Others' = GotBy(PutBy(Others, scan.held), scan'.held)
         /\ scan'.held = scan.held => Others' = GotBy(PutBy(Others, reg.held), reg'.held)
<1>1. \A o \in Parts : Cardinality(Users(o)') = Cardinality(Users(o))
  BY DEF Users
<1>2. \A o \in Parts : Cardinality(Users(o)) \in Nat
  BY OthersNat
<1>3. /\ Others = [o \in Parts |-> Cardinality(Users(o)) + (IF scan.held = o THEN 1 ELSE 0)
                     + (IF reg.held = o THEN 1 ELSE 0)]
      /\ Others' = [o \in Parts |-> Cardinality(Users(o)) + (IF scan'.held = o THEN 1 ELSE 0)
                     + (IF reg'.held = o THEN 1 ELSE 0)]
  BY <1>1 DEF Others
<1>4. QED
  BY <1>2, <1>3 DEF GotBy, PutBy

------------------------------------------------------------------------------
(* Readers inside their sections.                                           *)

\* A longer sequence has the old places.
LEMMA Widen == \A a, b \in Nat : b >= a => \A j \in 1 .. a : j \in 1 .. b
OBVIOUS

\* A reader keeps what it can reach when its table, if replaced, waits for it,
\* and what changes in its table is live.
LEMMA ReachesKept ==
  ASSUME Types, NEW q \in InSection, Reaches(q), reader'[q] = reader[q],
         \A o \in Parts : Safe(part, q, o) => Safe(part', q, o),
         NEW t, t = reader[q].tbl,
         Len(tables') \in Nat, Len(tables') >= Current,
         t < Len(tables') => q \in tables'[t].waits,
         ~tables'[t].freed, Len(tables'[t].part) = Len(tables[t].part),
         \A i \in 1 .. Len(tables[t].part) :
           \/ tables'[t].part[i] \in {None, tables[t].part[i]}
           \/ part'[tables'[t].part[i]].state = "live"
  PROVE  Reaches(q)'
<1>1. Current \in Nat /\ t \in 1 .. Current /\ tables[t] \in TblRec
  BY Zenon, SeqTypes DEF Types, Reaches, Current
<1>2. /\ Len(tables[t].part) \in Nat
      /\ \A i \in 1 .. Len(tables[t].part) : tables[t].part[i] \in Slots
  BY Zenon, <1>1, SeqTypes DEF TblRec
<1>3. t \in 1 .. Len(tables')
  BY Zenon, <1>1, Widen
<1>4. ASSUME NEW i \in 1 .. Len(tables[t].part), tables'[t].part[i] # None
      PROVE  Safe(part', q, tables'[t].part[i])
  <2>1. CASE part'[tables'[t].part[i]].state = "live"
    BY Zenon, <2>1 DEF Safe
  <2>2. CASE tables'[t].part[i] = tables[t].part[i]
    <3>1. tables[t].part[i] \in Parts
      BY Zenon, <1>2, <1>4, <2>2 DEF Slots
    <3>2. Safe(part, q, tables[t].part[i])
      BY Zenon, <1>4, <2>2 DEF Reaches
    <3>3. QED
      BY Zenon, <2>2, <3>1, <3>2
  <2>3. QED
    BY Zenon, <1>4, <2>1, <2>2
<1>5. reader[q].pc \in {"found", "mapped"} =>
        reader[q].part # None /\ Safe(part', q, reader[q].part)
  <2>1. reader[q].part \in Slots
    BY DEF InSection, Types, ReadRec
  <2>2. QED
    BY Zenon, <2>1 DEF Reaches, Slots
<1>6. QED
  BY Zenon, <1>3, <1>4, <1>5 DEF Reaches, Current
------------------------------------------------------------------------------
(* Tables.                                                                  *)

\* Types of the tables and of their slots.
LEMMA TableTypes ==
  ASSUME Types
  PROVE  /\ Current \in Nat /\ Current \in 1 .. Current /\ tables \in Seq(TblRec)
         /\ \A j \in 1 .. Current :
              /\ tables[j] \in TblRec /\ tables[j].part \in Seq(Slots)
              /\ tables[j].freed \in BOOLEAN /\ tables[j].waits \in SUBSET Readers
              /\ Len(tables[j].part) \in Nat
              /\ \A i \in 1 .. Len(tables[j].part) : tables[j].part[i] \in Slots
         /\ part_tbl \in Seq(Slots) /\ Len(part_tbl) \in Nat
         /\ DOMAIN part_tbl = 1 .. Len(part_tbl)
         /\ \A i \in 1 .. Len(part_tbl) : part_tbl[i] \in Slots
<1>1. Current \in Nat /\ Current \in 1 .. Current /\ tables \in Seq(TblRec)
  BY SeqTypes DEF Types, Current
<1>2. ASSUME NEW j \in 1 .. Current
      PROVE  /\ tables[j] \in TblRec /\ tables[j].part \in Seq(Slots)
             /\ tables[j].freed \in BOOLEAN /\ tables[j].waits \in SUBSET Readers
  <2>1. tables[j] \in TblRec
    BY <1>1, SeqTypes DEF Current
  <2>2. QED
    BY <2>1 DEF TblRec
<1>3. ASSUME NEW sq \in Seq(Slots)
      PROVE  /\ Len(sq) \in Nat /\ DOMAIN sq = 1 .. Len(sq)
             /\ \A i \in 1 .. Len(sq) : sq[i] \in Slots
  BY <1>3, SeqTypes
<1>4. QED
  BY <1>1, <1>2, <1>3 DEF part_tbl

WithSlot(a, i, o, l) == [a EXCEPT !.part = [a.part EXCEPT ![i] = o], !.last_lookup = l]

\* One slot of a table is written; last_lookup is whatever it is set to.
LEMMA SlotWritten ==
  ASSUME NEW a \in TblRec, NEW i \in 1 .. Len(a.part), NEW o \in Slots, NEW l \in Slots,
         NEW b, b = WithSlot(a, i, o, l)
  PROVE  /\ b \in TblRec /\ b.freed = a.freed /\ b.waits = a.waits
         /\ Len(b.part) = Len(a.part) /\ b.part[i] = o
         /\ \A k \in 1 .. Len(a.part) : k # i => b.part[k] = a.part[k]
<1> DEFINE sq == [a.part EXCEPT ![i] = o]
<1>1. a.part \in Seq(Slots)
  BY DEF TblRec
<1>2. /\ sq \in Seq(Slots) /\ Len(sq) = Len(a.part) /\ sq[i] = o
      /\ \A k \in 1 .. Len(a.part) : k # i => sq[k] = a.part[k]
  BY <1>1, SeqExcept
<1>3. b = [a EXCEPT !.part = sq, !.last_lookup = l]
  BY DEF WithSlot
<1> HIDE DEF sq
<1>4. b \in TblRec /\ b.part = sq /\ b.freed = a.freed /\ b.waits = a.waits
  BY Zenon, <1>2, <1>3 DEF TblRec
<1>5. QED
  BY <1>2, <1>4

\* T is the list of tables after disk_expand_part_tbl to at least len slots.
Growth(T, len) ==
  /\ T \in Seq(TblRec) /\ Len(T) \in Nat /\ Len(T) >= Current /\ Len(T) <= Current + 1
  /\ \A j \in 1 .. Current : /\ T[j].part = tables[j].part /\ T[j].freed = tables[j].freed
                             /\ j < Current => T[j].waits = tables[j].waits
  /\ Len(T) = Current => T[Current].waits = tables[Current].waits
  /\ Len(T) > Current => T[Current].waits = InSection /\ ~T[Len(T)].freed
  /\ Len(T[Len(T)].part) = IF len <= Len(part_tbl) THEN Len(part_tbl) ELSE len
  /\ \A i \in 1 .. Len(T[Len(T)].part) :
       T[Len(T)].part[i] = IF i <= Len(part_tbl) THEN part_tbl[i] ELSE None

\* disk_expand_part_tbl copies the current table to a longer one, and the old
\* one waits for the readers there are.
LEMMA Expanded ==
  ASSUME Types, NEW len \in Nat, NEW T, T = expanded(len)
  PROVE  Growth(T, len)
<1>1. CASE len <= Len(part_tbl)
  <2>1. expanded(len) = tables
    BY <1>1 DEF expanded
  <2>2. Len(tables) = Current /\ tables[Current].part = part_tbl
    BY DEF Current, part_tbl
  <2>3. QED
    BY <1>1, <2>1, <2>2, TableTypes DEF Growth
<1>2. CASE ~(len <= Len(part_tbl))
  <2> DEFINE old == [tables[Current] EXCEPT !.last_lookup = None, !.waits = InSection]
             sq  == [i \in 1 .. len |-> IF i <= Len(part_tbl) THEN part_tbl[i] ELSE None]
             new == [part |-> sq, last_lookup |-> None, freed |-> FALSE, waits |-> {}]
             ts  == [tables EXCEPT ![Current] = old]
  <2>1. expanded(len) = Append(ts, new)
    <3>1. ts = [tables EXCEPT ![Current].last_lookup = None, ![Current].waits = InSection]
      BY Zenon, TableTypes, SeqTypes DEF Current
    <3>2. QED
      BY <1>2, <3>1 DEF expanded
  <2>2. old \in TblRec /\ old.part = tables[Current].part /\ old.freed = tables[Current].freed
        /\ old.waits = InSection
    <3>1. tables[Current] \in TblRec
      BY TableTypes
    <3>2. InSection \in SUBSET Readers /\ None \in Slots
      BY DEF InSection, Slots
    <3>3. QED
      BY Zenon, <3>1, <3>2 DEF TblRec
  <2>3. sq \in Seq(Slots) /\ Len(sq) = len
        /\ \A i \in 1 .. len : sq[i] = IF i <= Len(part_tbl) THEN part_tbl[i] ELSE None
    <3>1. \A i \in 1 .. len : (IF i <= Len(part_tbl) THEN part_tbl[i] ELSE None) \in Slots
      BY TableTypes DEF Slots
    <3>2. QED
      BY <3>1
  <2>4. new \in TblRec /\ new.part = sq /\ ~new.freed
    <3> HIDE DEF sq
    <3>1. None \in Slots
      BY DEF Slots
    <3>2. QED
      BY <2>3, <3>1 DEF TblRec
  <2> HIDE DEF old, sq, new
  <2>5. /\ ts \in Seq(TblRec) /\ Len(ts) = Current /\ ts[Current] = old
        /\ \A j \in 1 .. Current : j # Current => ts[j] = tables[j]
    BY <2>2, TableTypes, SeqExcept DEF Current
  <2> HIDE DEF ts
  <2>6. /\ T \in Seq(TblRec) /\ Len(T) = Current + 1 /\ T[Current + 1] = new
        /\ T[Current] = old /\ \A j \in 1 .. Current : j # Current => T[j] = tables[j]
    BY <2>1, <2>4, <2>5, TableTypes, SeqAppend
  <2>7. Current \in Nat /\ Len(part_tbl) \in Nat
    BY TableTypes
  <2>8. \A j \in 1 .. Current : /\ T[j].part = tables[j].part /\ T[j].freed = tables[j].freed
                                /\ j < Current => T[j].waits = tables[j].waits
    BY <2>2, <2>6, <2>7
  <2>9. QED
    BY <1>2, <2>2, <2>3, <2>4, <2>6, <2>7, <2>8 DEF Growth
<1>3. QED
  BY <1>1, <1>2

------------------------------------------------------------------------------
(* Steps that change no partition, table or reader.                         *)

\* The sections of the readers when the tables stay.
LEMMA SectionsKept ==
  ASSUME Types, Sections, UNCHANGED <<tables, reader>>,
         \A r \in InSection, o \in Parts : Safe(part, r, o) => Safe(part', r, o),
         disk'.stage = "released" <=> disk.stage = "released"
  PROVE  Sections'
<1>1. InSection' = InSection /\ Current' = Current
  BY DEF InSection, Current
<1>2. ASSUME NEW q \in InSection PROVE Reaches(q)'
  <2>1. q \in Readers /\ Reaches(q) /\ reader'[q] = reader[q]
    BY DEF Sections, InSection
  <2>2. \A o \in Parts : Safe(part, q, o) => Safe(part', q, o)
    BY <2>1
  <2>3. PICK t : t = reader[q].tbl
    OBVIOUS
  <2>4. /\ Len(tables') \in Nat /\ Len(tables') >= Current
        /\ t < Len(tables') => q \in tables'[t].waits
        /\ ~tables'[t].freed /\ Len(tables'[t].part) = Len(tables[t].part)
        /\ \A i \in 1 .. Len(tables[t].part) :
             tables'[t].part[i] \in {None, tables[t].part[i]}
    <3>1. Current \in Nat /\ Len(tables) = Current /\ tables' = tables
      BY TableTypes DEF Current
    <3>2. (t < Current => q \in tables[t].waits) /\ ~tables[t].freed
      BY <2>1, <2>3 DEF Reaches
    <3>3. QED
      BY <3>1, <3>2
  <2>5. QED
    BY <2>1, <2>2, <2>3, <2>4, ReachesKept
<1>3. QED
  BY <1>1, <1>2 DEF Sections

LEMMA SameSafe ==
  ASSUME UNCHANGED part
  PROVE  \A r \in InSection, o \in Parts : Safe(part, r, o) => Safe(part', r, o)
OBVIOUS

\* What a step of the scan or of register_disk on its own variables keeps.
LEMMA Frame ==
  ASSUME Basics, IInv, UNCHANGED <<part, tables, reader>>,
         scan' \in ScanRec, reg' \in RegRec, disk' \in DiskRec,
         scan'.held = scan.held, reg'.held = reg.held,
         disk'.stage = "released" <=> disk.stage = "released"
  PROVE  /\ Types' /\ Counts' /\ Sections' /\ part_tbl' = part_tbl
         /\ disk'.capacity = disk.capacity => Listed'
<1>1. Types /\ Counts /\ Sections /\ Listed
  BY DEF IInv
<1>2. part_tbl' = part_tbl /\ Current' = Current
  BY DEF part_tbl, Current
<1>3. Types'
  BY <1>1, <1>2 DEF Types
<1>4. Others' = Others
  BY HeldMoves
<1>5. Counts'
  BY <1>1, <1>4 DEF Counts
<1>6. Sections'
  BY <1>1, SameSafe, SectionsKept
<1>7. ASSUME disk'.capacity = disk.capacity PROVE Listed'
  BY <1>1, <1>2, <1>7 DEF Listed
<1>8. QED
  BY <1>2, <1>3, <1>5, <1>6, <1>7

\* Types of the fields that steer the scan and register_disk.
LEMMA ControlTypes ==
  ASSUME Types
  PROVE  /\ disk.capacity \in 0 .. Native /\ disk.capacity \in Nat
         /\ disk.native \in BOOLEAN /\ disk.suppress \in BOOLEAN
         /\ disk.invalidated \in BOOLEAN
         /\ disk.stage \in {"up", "deleting", "down", "released"}
         /\ scan.p \in Nat /\ scan.held \in Slots
         /\ reg.idx \in Nat /\ reg.held \in Slots /\ None \in Slots
         /\ NoScan \in ScanRec
BY PartitionsAssumption DEF Types, DiskRec, ScanRec, RegRec, Slots, NoScan

\* The scan ends: rescan_partitions or invalidate_partitions returns.
LEMMA EndedStep ==
  ASSUME Basics, IInv, Ended, scan.pc \notin {"delete", "announce"},
         UNCHANGED <<part, tables, reader>>,
         disk' \in DiskRec, disk'.stage = disk.stage, disk'.suppress = disk.suppress,
         disk'.capacity = disk.capacity \/ \A i \in 1 .. Len(part_tbl) : part_tbl[i] = None
  PROVE  IInv'
<1>1. /\ Types /\ Listed /\ ScanAt /\ RegAt /\ Told
      /\ scan \in ScanRec /\ reg \in RegRec /\ NoScan \in ScanRec
  BY ControlTypes DEF IInv, Types
<1>2. scan.held = None /\ scan' = NoScan /\ NoScan.held = None /\ NoScan.pc = "idle"
  BY <1>1 DEF ScanAt, Ended, NoScan
<1>3. /\ reg' \in RegRec /\ reg'.held = reg.held /\ reg'.idx = reg.idx
      /\ reg'.pc = IF reg.pc = "scan" THEN "exit" ELSE reg.pc
  BY <1>1 DEF Ended, RegRec
<1>4. /\ Types' /\ Counts' /\ Sections' /\ part_tbl' = part_tbl
      /\ disk'.capacity = disk.capacity => Listed'
  BY <1>1, <1>2, <1>3, Frame
<1>5. Listed'
  BY <1>1, <1>4 DEF Listed
<1>6. ScanAt'
  BY <1>2, <1>4 DEF ScanAt
<1>7. RegAt'
  BY <1>1, <1>3, <1>4 DEF RegAt
<1>8. Told'
  BY <1>1, <1>3, <1>4 DEF Told
<1>9. QED
  BY <1>4, <1>5, <1>6, <1>7, <1>8 DEF IInv

\* The scan goes on, to a place where ScanAt holds.
LEMMA ScanMoves ==
  ASSUME Basics, IInv, UNCHANGED <<part, tables, reader, reg>>, scan' \in ScanRec,
         disk' \in DiskRec,
         scan'.held = scan.held, scan.pc # "announce",
         disk'.stage = disk.stage, disk'.suppress = disk.suppress,
         disk'.capacity = disk.capacity \/ \A i \in 1 .. Len(part_tbl) : part_tbl[i] = None,
         ScanAt'
  PROVE  IInv'
<1>1. Types /\ Listed /\ RegAt /\ Told /\ reg' \in RegRec /\ reg' = reg
  BY DEF IInv, Types
<1>2. /\ Types' /\ Counts' /\ Sections' /\ part_tbl' = part_tbl
      /\ disk'.capacity = disk.capacity => Listed'
  BY <1>1, Frame
<1>3. Listed'
  BY <1>1, <1>2 DEF Listed
<1>4. RegAt'
  BY <1>1, <1>2 DEF RegAt
<1>5. Told'
  BY <1>1, <1>2 DEF Told
<1>6. QED
  BY <1>2, <1>3, <1>4, <1>5 DEF IInv

LEMMA StartScanStep ==
  ASSUME Basics, IInv, NEW op \in {"rescan", "invalidate"}, StartScan(op)
  PROVE  IInv'
<1>1. /\ Types /\ ScanAt /\ scan.pc = "idle" /\ disk.stage = "up"
      /\ UNCHANGED <<part, tables, reader, reg>>
      /\ scan' = [NoScan EXCEPT !.pc = "drop", !.op = op]
  BY DEF IInv, StartScan
<1>2. PICK changed \in BOOLEAN : disk' = [disk EXCEPT !.invalidated = @ \/ changed]
  BY DEF StartScan
<1>3. /\ disk' \in DiskRec /\ disk'.stage = disk.stage /\ disk'.suppress = disk.suppress
      /\ disk'.capacity = disk.capacity
  <2>1. \A b \in BOOLEAN : /\ [disk EXCEPT !.invalidated = b] \in DiskRec
                           /\ [disk EXCEPT !.invalidated = b].stage = disk.stage
                           /\ [disk EXCEPT !.invalidated = b].suppress = disk.suppress
                           /\ [disk EXCEPT !.invalidated = b].capacity = disk.capacity
    BY <1>1 DEF Types, DiskRec
  <2>2. (disk.invalidated \/ changed) \in BOOLEAN
    BY <1>1, ControlTypes
  <2>3. QED
    BY <1>2, <2>1, <2>2, Zenon
<1>4. scan' \in ScanRec /\ scan'.held = None /\ scan'.pc = "drop" /\ scan.held = None
  BY Zenon, <1>1, ControlTypes DEF ScanRec, NoScan, ScanAt
<1>5. part_tbl' = part_tbl
  BY <1>1 DEF part_tbl, Current
<1>6. ScanAt'
  BY <1>1, <1>3, <1>4, <1>5 DEF ScanAt
<1>7. QED
  BY <1>1, <1>3, <1>4, <1>6, ScanMoves

LEMMA DropSteps ==
  ASSUME Basics, IInv,
         DropRefused \/ DropBegin \/ ScanEnd \/ \E p \in Partnos : SkipPart(p)
  PROVE  IInv'
<1>1. /\ Types /\ ScanAt /\ UNCHANGED <<part, tables, reader, disk>>
      /\ disk' \in DiskRec /\ scan \in ScanRec /\ scan.held = None
      /\ scan.pc \in {"drop", "add"}
  BY DEF IInv, DropRefused, DropBegin, ScanEnd, SkipPart, Types, ScanAt, Adding
<1>2. CASE DropRefused \/ ScanEnd
  BY <1>1, <1>2, EndedStep DEF DropRefused, ScanEnd
<1>3. part_tbl' = part_tbl
  BY <1>1 DEF part_tbl, Current
<1>4. CASE DropBegin
  <2>1. scan' = [scan EXCEPT !.pc = "delete", !.p = 1] /\ UNCHANGED reg
    BY <1>4 DEF DropBegin
  <2>2. scan' \in ScanRec /\ scan'.held = scan.held /\ scan'.pc = "delete" /\ scan'.p = 1
    BY Zenon, <1>1, <2>1 DEF ScanRec
  <2>3. disk.stage = "up"
    BY <1>1, <1>4, ControlTypes DEF ScanAt, DropBegin
  <2>4. ScanAt'
    BY <1>1, <1>3, <2>2, <2>3, TableTypes DEF ScanAt
  <2>5. QED
    BY <1>1, <2>1, <2>2, <2>4, ScanMoves
<1>5. ASSUME NEW p \in Partnos, SkipPart(p) PROVE IInv'
  <2>1. scan.pc = "add" /\ p = scan.p /\ scan' = [scan EXCEPT !.p = p + 1] /\ UNCHANGED reg
    BY <1>5 DEF SkipPart, Adding
  <2>2. scan' \in ScanRec /\ scan'.held = scan.held /\ scan'.pc = "add"
        /\ scan'.found = scan.found
    BY <1>1, <2>1 DEF ScanRec
  <2>3. ScanAt'
    BY <1>1, <1>3, <2>1, <2>2 DEF ScanAt
  <2>4. QED
    BY <1>1, <2>1, <2>2, <2>3, ScanMoves
<1>6. QED
  BY <1>2, <1>4, <1>5

\* disk_unlock_native_capacity: the scan starts again.
LEMMA UnlockStep ==
  ASSUME Basics, IInv, UnlockNative, scan.pc \in {"parse", "add"}
  PROVE  IInv'
<1>1. /\ Types /\ ScanAt /\ UNCHANGED <<part, tables, reader, reg>>
      /\ scan \in ScanRec /\ scan.held = None /\ disk \in DiskRec
      /\ disk' = [disk EXCEPT !.native = TRUE]
      /\ scan' = [scan EXCEPT !.pc = "drop", !.found = None]
  BY DEF IInv, UnlockNative, Types, ScanAt
<1>2. /\ disk' \in DiskRec /\ disk'.stage = disk.stage /\ disk'.suppress = disk.suppress
      /\ disk'.capacity = disk.capacity
  <2>1. \A b \in BOOLEAN : /\ [disk EXCEPT !.native = b] \in DiskRec
                           /\ [disk EXCEPT !.native = b].stage = disk.stage
                           /\ [disk EXCEPT !.native = b].suppress = disk.suppress
                           /\ [disk EXCEPT !.native = b].capacity = disk.capacity
    BY <1>1 DEF DiskRec
  <2>2. QED
    BY <1>1, <2>1, Zenon
<1>3. scan' \in ScanRec /\ scan'.held = None /\ scan'.pc = "drop"
  BY Zenon, <1>1 DEF ScanRec
<1>4. disk.stage = "up"
  BY <1>1 DEF ScanAt
<1>5. ScanAt'
  BY <1>2, <1>3, <1>4 DEF ScanAt
<1>6. QED
  BY <1>1, <1>2, <1>3, <1>5, ScanMoves

LEMMA RescanForStep ==
  ASSUME Basics, IInv, NEW p \in Partnos, RescanFor(p)
  PROVE  IInv'
BY UnlockStep DEF RescanFor, Adding

LEMMA CheckPartitionStep ==
  ASSUME Basics, IInv, NEW s \in Scans, check_partition(s)
  PROVE  IInv'
<1>1. scan.pc = "parse" /\ Types /\ ScanAt /\ scan \in ScanRec
  BY DEF check_partition, IInv, Types
<1>2. CASE UnlockNative
  BY <1>1, <1>2, UnlockStep
<1>3. CASE Ended /\ UNCHANGED <<disk, tables, part, reader, scans, program>>
  <2>1. disk' \in DiskRec /\ disk' = disk
    BY <1>1, <1>3 DEF Types
  <2>2. QED
    BY <1>1, <1>3, <2>1, EndedStep
<1>4. CASE /\ scan' = [scan EXCEPT !.pc = "expand", !.found = s.parts]
           /\ UNCHANGED <<disk, tables, part, reg, reader, scans, program>>
  <2>1. s.parts \in Parsed
    BY PartitionsAssumption DEF Parsed
  <2>2. scan' \in ScanRec /\ scan'.held = scan.held /\ scan'.pc = "expand"
        /\ scan'.found = s.parts
    BY Zenon, <1>1, <1>4, <2>1 DEF ScanRec
  <2>3. part_tbl' = part_tbl /\ disk' = disk /\ disk' \in DiskRec
    BY <1>1, <1>4 DEF part_tbl, Current, Types
  <2>4. ScanAt'
    BY <1>1, <2>1, <2>2, <2>3 DEF ScanAt
  <2>5. QED
    BY <1>1, <1>4, <2>2, <2>3, <2>4, ScanMoves
<1>5. QED
  BY <1>2, <1>3, <1>4 DEF check_partition

LEMMA CapacitySteps ==
  ASSUME Basics, IInv, invalidate_partitions \/ revalidate_disk
  PROVE  IInv'
<1>1. /\ Types /\ ScanAt /\ scan \in ScanRec /\ disk \in DiskRec /\ scan.pc = "dropped"
      /\ UNCHANGED <<tables, part, reader>>
      /\ \A i \in 1 .. Len(part_tbl) : part_tbl[i] = None
  BY Zenon DEF IInv, Types, invalidate_partitions, revalidate_disk, ScanAt
<1>2. PICK c \in 0 .. Native : disk' = [disk EXCEPT !.capacity = c, !.invalidated = FALSE]
  <2>1. /\ 0 \in 0 .. Native
        /\ \A c \in Capacities \cup (IF disk.native THEN {Native} ELSE {}) : c \in 0 .. Native
    BY PartitionsAssumption
  <2>2. QED
    BY <2>1, Zenon DEF invalidate_partitions, revalidate_disk
<1>3. /\ disk' \in DiskRec /\ disk'.stage = disk.stage /\ disk'.suppress = disk.suppress
  <2>1. \A b \in BOOLEAN : LET d == [disk EXCEPT !.capacity = c, !.invalidated = b] IN
          d \in DiskRec /\ d.stage = disk.stage /\ d.suppress = disk.suppress
    BY Zenon, <1>1 DEF DiskRec
  <2>2. QED
    BY <1>2, <2>1, Zenon
<1>4. CASE Ended
  BY <1>1, <1>3, <1>4, EndedStep
<1>5. CASE scan' = [scan EXCEPT !.pc = "parse"] /\ UNCHANGED reg
  <2>1. scan' \in ScanRec /\ scan'.held = scan.held /\ scan'.pc = "parse"
    BY <1>1, <1>5 DEF ScanRec
  <2>2. part_tbl' = part_tbl
    BY <1>1 DEF part_tbl, Current
  <2>3. ScanAt'
    BY <1>1, <1>3, <2>1, <2>2 DEF ScanAt
  <2>4. QED
    BY <1>1, <1>3, <1>5, <2>1, <2>3, ScanMoves
<1>6. QED
  BY Zenon, <1>4, <1>5 DEF invalidate_partitions, revalidate_disk

------------------------------------------------------------------------------
(* register_disk, until it announces partitions, and del_gendisk's start.   *)

\* Other settings of the flags of a disk.
LEMMA DiskFlags ==
  ASSUME NEW d \in DiskRec, NEW a \in BOOLEAN
  PROVE  /\ LET e == [d EXCEPT !.invalidated = a] IN
            /\ e \in DiskRec /\ e.stage = d.stage /\ e.suppress = d.suppress
            /\ e.capacity = d.capacity
         /\ LET e == [d EXCEPT !.suppress = a] IN
            /\ e \in DiskRec /\ e.stage = d.stage /\ e.suppress = a
            /\ e.capacity = d.capacity
BY DEF DiskRec

LEMMA RegControl ==
  ASSUME Basics, IInv, RegStart \/ RegOpen \/ RegExit \/ DelStart
  PROVE  IInv'
<1>1. /\ Types /\ Listed /\ ScanAt /\ RegAt /\ disk \in DiskRec /\ scan \in ScanRec
      /\ reg \in RegRec /\ NoScan \in ScanRec /\ disk.stage \in {"up", "deleting", "down", "released"}
      /\ UNCHANGED <<tables, part, reader>>
  BY ControlTypes DEF IInv, Types, RegStart, RegOpen, RegExit, DelStart
<1>2. disk.stage = "up" /\ reg.held = None
  BY <1>1 DEF RegAt, RegStart, RegOpen, RegExit, DelStart
<1>3. part_tbl' = part_tbl
  BY <1>1 DEF part_tbl, Current
<1>4. CASE RegStart
  <2>1. /\ disk' \in DiskRec /\ disk'.stage = disk.stage /\ disk'.capacity = disk.capacity
    <3>1. disk' = disk \/ disk' = [disk EXCEPT !.invalidated = TRUE]
      BY <1>4 DEF RegStart
    <3>2. CASE disk' = [disk EXCEPT !.invalidated = TRUE]
      BY <1>1, <3>2, DiskFlags, Zenon
    <3>3. QED
      BY <1>1, <3>1, <3>2
  <2>2. /\ reg' \in RegRec /\ reg'.held = reg.held /\ reg'.pc \in {"failed", "exit", "open"}
    BY <1>1, <1>4 DEF RegStart, RegRec
  <2>3. UNCHANGED scan /\ scan' \in ScanRec
    BY <1>1, <1>4 DEF RegStart
  <2>4. Types' /\ Counts' /\ Sections' /\ Listed'
    BY <1>1, <1>2, <2>1, <2>2, <2>3, Frame
  <2>5. ScanAt'
    BY <1>1, <1>3, <2>1, <2>3 DEF ScanAt
  <2>6. RegAt' /\ Told'
    BY <1>2, <2>1, <2>2 DEF RegAt, Told
  <2>7. QED
    BY <2>4, <2>5, <2>6 DEF IInv
<1>5. CASE RegOpen
  <2>1. /\ disk' = disk /\ disk' \in DiskRec /\ scan.pc = "idle"
    BY <1>1, <1>5 DEF RegOpen
  <2>2. /\ reg' \in RegRec /\ reg'.held = reg.held /\ reg'.pc \in {"scan", "exit"}
    BY <1>1, <1>5 DEF RegOpen, RegRec
  <2>3. scan' \in ScanRec /\ scan'.held = scan.held /\ scan'.pc \in {"idle", "drop"}
        /\ scan.held = None
    BY Zenon, <1>1, <1>5, <2>1 DEF RegOpen, NoScan, ScanRec, ScanAt
  <2>4. Types' /\ Counts' /\ Sections' /\ Listed'
    BY <1>1, <2>1, <2>2, <2>3, Frame
  <2>5. ScanAt'
    BY <1>2, <2>1, <2>3 DEF ScanAt
  <2>6. RegAt' /\ Told'
    BY <1>2, <2>1, <2>2 DEF RegAt, Told
  <2>7. QED
    BY <2>4, <2>5, <2>6 DEF IInv
<1>6. CASE RegExit
  <2>1. /\ disk' \in DiskRec /\ disk'.stage = disk.stage /\ disk'.capacity = disk.capacity
        /\ ~disk'.suppress
    <3>1. disk' = [disk EXCEPT !.suppress = FALSE]
      BY <1>6 DEF RegExit
    <3>2. QED
      BY <1>1, <3>1, DiskFlags, Zenon
  <2>2. /\ reg' \in RegRec /\ reg'.held = reg.held /\ reg'.pc = "iter" /\ reg'.idx = 1
    BY Zenon, <1>1, <1>6 DEF RegExit, RegRec
  <2>3. UNCHANGED scan /\ scan' \in ScanRec
    BY <1>1, <1>6 DEF RegExit
  <2>4. Types' /\ Counts' /\ Sections' /\ Listed'
    BY <1>1, <1>2, <2>1, <2>2, <2>3, Frame
  <2>5. ScanAt'
    BY <1>1, <1>3, <2>1, <2>3 DEF ScanAt
  <2>6. RegAt'
    BY <1>2, <2>1, <2>2 DEF RegAt
  <2>7. Told'
    BY <1>1, <1>3, <2>1, <2>2, TableTypes DEF Told
  <2>8. QED
    BY <2>4, <2>5, <2>6, <2>7 DEF IInv
<1>7. CASE DelStart
  <2>1. /\ disk' \in DiskRec /\ disk'.stage = "deleting" /\ disk'.capacity = disk.capacity
    BY <1>1, <1>7 DEF DelStart, DiskRec
  <2>2. /\ reg' \in RegRec /\ reg'.held = reg.held /\ reg'.pc = "del"
        /\ reg'.idx = Len(part_tbl)
    <3>1. Len(part_tbl) \in Nat
      BY <1>1, TableTypes
    <3>2. reg' = [reg EXCEPT !.pc = "del", !.idx = Len(part_tbl)]
      BY <1>7 DEF DelStart
    <3>3. QED
      BY Zenon, <1>1, <3>1, <3>2 DEF RegRec
  <2>3. UNCHANGED scan /\ scan' \in ScanRec /\ scan.pc = "idle"
    BY <1>1, <1>7 DEF DelStart
  <2>4. Types' /\ Counts' /\ Sections' /\ Listed'
    BY <1>1, <1>2, <2>1, <2>2, <2>3, Frame
  <2>5. ScanAt'
    BY <1>1, <2>1, <2>3 DEF ScanAt
  <2>6. RegAt'
    BY <1>1, <1>3, <2>1, <2>2, TableTypes DEF RegAt
  <2>7. Told'
    BY <2>2 DEF Told
  <2>8. QED
    BY <2>4, <2>5, <2>6, <2>7 DEF IInv
<1>8. QED
  BY <1>4, <1>5, <1>6, <1>7

------------------------------------------------------------------------------
(* Partitions that are deleted.                                             *)

\* Unlinking sets two fields.
LEMMA Unlink ==
  ASSUME NEW a \in PartRec, NEW b \in BOOLEAN
  PROVE  LET c == [a EXCEPT !.state = "unlinked", !.announced = b] IN
         /\ c \in PartRec /\ c.state = "unlinked" /\ c.refs = a.refs
BY Zenon DEF PartRec

\* delete_partition by an iterator that holds prev, of a listed partition.
LEMMA DeletePartition ==
  ASSUME Basics, IInv, NEW i \in 1 .. Len(part_tbl), part_tbl[i] # None,
         NEW prev \in Slots,
         prev # None => Others[prev] > 0, delete_partition(i, prev),
         NEW o, o = part_tbl[i]
  PROVE  /\ part' \in [Parts -> PartRec]
         /\ Exact(part', GotBy(PutBy(Others, prev), o))
         /\ \A q \in Parts : q # o /\ part[q].state \in Alive => Like(part'[q], part[q])
         /\ part'[o].state = "unlinked"
<1>1. Types /\ Counts /\ Listed /\ o \in Parts /\ part \in [Parts -> PartRec]
  BY TableTypes DEF IInv, Types, Slots
<1>2. part[o].state = "live"
  BY <1>1 DEF Listed
<1>3. PICK p1 : p1 = put_device(part, prev)
  OBVIOUS
<1>4. /\ p1 \in [Parts -> PartRec] /\ PutBy(Others, prev) \in [Parts -> Nat]
      /\ Exact(p1, PutBy(Others, prev)) /\ Kept(part, p1)
  BY <1>1, <1>3, PutDevice, OthersNat DEF Counts
<1>5. p1[o].state = "live"
  BY <1>1, <1>2, <1>4 DEF Kept, Like, Alive
<1>6. PICK p2 : p2 = get_device(p1, o)
  OBVIOUS
<1>7. /\ p2 \in [Parts -> PartRec] /\ Exact(p2, GotBy(PutBy(Others, prev), o)) /\ Kept(p1, p2)
  BY <1>1, <1>4, <1>5, <1>6, GetDevice
<1>8. p2[o].state = "live" /\ p2[o] \in PartRec
  BY <1>1, <1>5, <1>7 DEF Kept, Like, Alive
<1>9. PICK c : c = [p2[o] EXCEPT !.state = "unlinked", !.announced = FALSE]
  OBVIOUS
<1>10. c \in PartRec /\ c.state = "unlinked" /\ c.refs = p2[o].refs
  <2>1. FALSE \in BOOLEAN
    OBVIOUS
  <2>2. QED
    BY <1>8, <1>9, <2>1, Unlink, Zenon
<1>11. part' = [p2 EXCEPT ![o] = c]
  <2>1. part' = [p2 EXCEPT ![o].state = "unlinked", ![o].announced = FALSE]
    BY <1>3, <1>6 DEF delete_partition
  <2>2. QED
    BY Zenon, <1>1, <1>7, <1>9, <2>1
<1>12. part' \in [Parts -> PartRec] /\ part'[o] = c /\ \A q \in Parts : q # o => part'[q] = p2[q]
  BY <1>1, <1>7, <1>10, <1>11
<1>13. Exact(part', GotBy(PutBy(Others, prev), o))
  BY <1>7, <1>8, <1>10, <1>12 DEF Exact, Own, Alive
<1>14. ASSUME NEW q \in Parts, q # o, part[q].state \in Alive PROVE Like(part'[q], part[q])
  BY SMTT(30), <1>4, <1>7, <1>12, <1>14 DEF Kept, Like
<1>15. QED
  BY <1>10, <1>12, <1>13, <1>14

\* One table is replaced by b.
LEMMA TableSet ==
  ASSUME Types, NEW j \in 1 .. Current, NEW b \in TblRec, tables' = [tables EXCEPT ![j] = b]
  PROVE  /\ tables' \in Seq(TblRec) /\ Len(tables') = Current /\ Current' = Current
         /\ tables'[j] = b /\ \A k \in 1 .. Current : k # j => tables'[k] = tables[k]
         /\ j = Current => part_tbl' = b.part
         /\ j # Current => part_tbl' = part_tbl
<1>1. tables \in Seq(TblRec) /\ Current = Len(tables) /\ Current \in 1 .. Current
  BY TableTypes DEF Current
<1>2. /\ tables' \in Seq(TblRec) /\ Len(tables') = Len(tables)
      /\ tables'[j] = b /\ \A k \in 1 .. Len(tables) : k # j => tables'[k] = tables[k]
  BY <1>1, SeqExcept
<1>3. Current' = Current
  BY <1>1, <1>2 DEF Current
<1>4. QED
  BY <1>1, <1>2, <1>3 DEF part_tbl

\* What delete_partition does to the table: one slot is emptied, and the
\* readers of the table keep what they reach.
LEMMA DeleteTable ==
  ASSUME Basics, IInv, NEW i \in 1 .. Len(part_tbl), part_tbl[i] # None,
         NEW prev \in Slots,
         prev # None => Others[prev] > 0, delete_partition(i, prev), UNCHANGED reader,
         disk'.capacity = disk.capacity, disk'.stage = disk.stage
  PROVE  /\ tables' \in Seq(TblRec) /\ Current' = Current
         /\ Len(part_tbl') = Len(part_tbl) /\ part_tbl'[i] = None
         /\ \A k \in 1 .. Len(part_tbl) : k # i => part_tbl'[k] = part_tbl[k]
         /\ Sections' /\ Listed'
<1> DEFINE a == tables[Current]
           b == WithSlot(a, i, None, None)
<1>1. /\ Types /\ Sections /\ Listed /\ a \in TblRec /\ a.part = part_tbl
      /\ Current \in Nat /\ Current \in 1 .. Current /\ Len(tables) = Current /\ None \in Slots
      /\ Len(part_tbl) \in Nat
      /\ \A k \in 1 .. Len(part_tbl) : part_tbl[k] \in Slots
  BY TableTypes DEF IInv, part_tbl, Slots, Current
<1>2. tables' = [tables EXCEPT ![Current] = b]
  <2>1. tables' = [tables EXCEPT ![Current].part[i] = None, ![Current].last_lookup = None]
    BY DEF delete_partition
  <2>2. DOMAIN tables = 1 .. Current /\ tables \in [1 .. Current -> TblRec]
    BY TableTypes, <1>1, SeqTypes
  <2>3. QED
    BY Zenon, <1>1, <2>1, <2>2 DEF TblRec, WithSlot
<1>3. /\ b \in TblRec /\ b.freed = a.freed /\ b.waits = a.waits
      /\ Len(b.part) = Len(a.part) /\ b.part[i] = None
      /\ \A k \in 1 .. Len(a.part) : k # i => b.part[k] = a.part[k]
  <2> HIDE DEF a
  <2>1. i \in 1 .. Len(a.part)
    BY <1>1
  <2>2. QED
    BY <1>1, <2>1, SlotWritten
<1> HIDE DEF a, b
<1>4. /\ tables' \in Seq(TblRec) /\ Len(tables') = Current /\ Current' = Current
      /\ tables'[Current] = b /\ \A k \in 1 .. Current : k # Current => tables'[k] = tables[k]
      /\ part_tbl' = b.part
  BY Zenon, <1>1, <1>2, <1>3, TableSet
<1>5. PICK o \in Parts : o = part_tbl[i]
  BY <1>1 DEF Slots
<1>6. /\ part' \in [Parts -> PartRec] /\ part'[o].state = "unlinked"
      /\ \A q \in Parts : q # o /\ part[q].state \in Alive => Like(part'[q], part[q])
  BY <1>5, DeletePartition
<1>7. \A r \in InSection, q \in Parts : Safe(part, r, q) => Safe(part', r, q)
  BY <1>6 DEF Safe, Alive, Like
<1>8. Listed'
  <2>1. ASSUME NEW k \in 1 .. Len(part_tbl), k # i, part_tbl[k] # None
        PROVE  /\ part'[part_tbl[k]].state = "live" /\ part'[part_tbl[k]].partno = k
               /\ part'[part_tbl[k]].size > 0
               /\ part'[part_tbl[k]].from + part'[part_tbl[k]].size <= disk.capacity
    <3>1. part_tbl[k] \in Parts /\ part_tbl[k] # o /\ part[part_tbl[k]].state = "live"
      BY <1>1, <1>5, <2>1 DEF Listed, Slots
    <3>2. Like(part'[part_tbl[k]], part[part_tbl[k]])
      BY <1>6, <3>1 DEF Alive
    <3>3. /\ part[part_tbl[k]].state = "live" /\ part[part_tbl[k]].partno = k
          /\ part[part_tbl[k]].size > 0
          /\ part[part_tbl[k]].from + part[part_tbl[k]].size <= disk.capacity
      BY <1>1, <2>1 DEF Listed
    <3>4. QED
      BY <3>2, <3>3 DEF Like
  <2>2. /\ Len(part_tbl') = Len(part_tbl) /\ Len(part_tbl) <= MaxPartno
        /\ \A k \in 1 .. Len(part_tbl) :
             part_tbl'[k] # None => k # i /\ part_tbl'[k] = part_tbl[k]
    BY <1>1, <1>3, <1>4 DEF Listed
  <2>3. QED
    BY <2>1, <2>2 DEF Listed
<1>9. InSection' = InSection
  BY DEF InSection
<1>10. ASSUME NEW q \in InSection PROVE Reaches(q)'
  <2>1. q \in Readers /\ Reaches(q) /\ reader'[q] = reader[q]
    BY <1>1 DEF Sections, InSection
  <2>2. \A p \in Parts : Safe(part, q, p) => Safe(part', q, p)
    BY <1>7, <2>1
  <2>3. PICK t \in 1 .. Current : t = reader[q].tbl
    BY <2>1 DEF Reaches
  <2>4. /\ t < Current => q \in tables[t].waits
        /\ ~tables[t].freed
    BY <2>1, <2>3 DEF Reaches
  <2>5. /\ tables'[t].freed = tables[t].freed /\ tables'[t].waits = tables[t].waits
        /\ Len(tables'[t].part) = Len(tables[t].part)
        /\ \A k \in 1 .. Len(tables[t].part) :
             tables'[t].part[k] \in {None, tables[t].part[k]}
    BY <1>3, <1>4 DEF a
  <2>6. Len(tables') \in Nat /\ Len(tables') >= Current
    BY <1>1, <1>4
  <2>7. t < Len(tables') => q \in tables'[t].waits
    BY <1>4, <2>4, <2>5
  <2>8. QED
    BY Zenon, <1>1, <2>1, <2>2, <2>3, <2>4, <2>5, <2>6, <2>7, ReachesKept
<1>11. Sections'
  <2>1. tables'[Current].freed = tables[Current].freed
    BY <1>3, <1>4 DEF a
  <2>2. QED
    BY <1>1, <1>4, <1>9, <1>10, <2>1 DEF Sections
<1>12. QED
  BY <1>1, <1>3, <1>4, <1>8, <1>11

\* The scan drops the next partition.
LEMMA DropNextStep ==
  ASSUME Basics, IInv, DropNext
  PROVE  IInv'
<1>1. /\ Types /\ ScanAt /\ RegAt /\ Told /\ scan \in ScanRec /\ scan.pc = "delete"
      /\ UNCHANGED <<disk, reg, reader>> /\ scan.p \in Nat /\ scan.held \in Slots
  BY ControlTypes DEF IInv, Types, DropNext
<1>2. PICK i : i = Min(Ahead(scan.p))
  OBVIOUS
<1>3. /\ Ahead(scan.p) \in SUBSET (1 .. Len(part_tbl)) /\ Ahead(scan.p) # {}
      /\ Len(part_tbl) \in Nat
  BY <1>1, TableTypes DEF Ahead, DropNext
<1>4. i \in Ahead(scan.p) /\ \A j \in Ahead(scan.p) : i <= j
  BY <1>2, <1>3, MinIn
<1>5. i \in 1 .. Len(part_tbl) /\ part_tbl[i] # None /\ i >= scan.p
  BY <1>3, <1>4 DEF Ahead
<1>6. PICK o \in Parts : o = part_tbl[i]
  BY <1>1, <1>5, TableTypes DEF Slots
<1>7. delete_partition(i, scan.held) /\ scan' = [scan EXCEPT !.p = i + 1, !.held = o]
  BY <1>2, <1>6 DEF DropNext
<1>8. scan' \in ScanRec /\ scan'.pc = "delete" /\ scan'.held = o /\ scan'.p = i + 1
  <2>1. i + 1 \in Nat /\ o \in Slots
    BY <1>3, <1>5 DEF Slots
  <2>2. QED
    BY Zenon, <1>1, <1>7, <2>1 DEF ScanRec
<1>9. scan.held # None => Others[scan.held] > 0
  BY <1>1, Holder DEF Slots
<1>10. /\ part' \in [Parts -> PartRec]
       /\ Exact(part', GotBy(PutBy(Others, scan.held), o))
       /\ \A q \in Parts : q # o /\ part[q].state \in Alive => Like(part'[q], part[q])
  BY <1>1, <1>5, <1>6, <1>7, <1>9, DeletePartition
<1>11. /\ tables' \in Seq(TblRec) /\ Current' = Current
       /\ Len(part_tbl') = Len(part_tbl) /\ part_tbl'[i] = None
       /\ \A k \in 1 .. Len(part_tbl) : k # i => part_tbl'[k] = part_tbl[k]
       /\ Sections' /\ Listed'
  BY <1>1, <1>5, <1>7, <1>9, DeleteTable
<1>12. Types'
  BY <1>1, <1>8, <1>10, <1>11 DEF Types
<1>13. Counts'
  BY <1>1, <1>8, <1>10, HeldMoves DEF Counts
<1>14. ScanAt'
  <2>1. ASSUME NEW k \in 1 .. Len(part_tbl), k < i + 1 PROVE part_tbl'[k] = None
    <3>1. CASE k = i
      BY <1>11, <3>1
    <3>2. CASE k # i
      <4>1. k \notin Ahead(scan.p)
        BY <1>4, <1>5, <2>1, <3>2
      <4>2. k < scan.p \/ part_tbl[k] = None
        BY <1>1, <4>1, TableTypes DEF Ahead
      <4>3. part_tbl[k] = None
        BY <1>1, <4>2 DEF ScanAt
      <4>4. QED
        BY <1>11, <3>2, <4>3
    <3>3. QED
      BY <3>1, <3>2
  <2>2. disk'.stage = "up"
    BY <1>1, ControlTypes DEF ScanAt
  <2>3. QED
    BY <1>8, <1>11, <2>1, <2>2 DEF ScanAt
<1>15. RegAt'
  <2>1. \A k \in 1 .. Len(part_tbl) : part_tbl[k] = None => part_tbl'[k] = None
    BY <1>11
  <2>2. QED
    BY <1>1, <1>11, <2>1 DEF RegAt
<1>16. Told'
  <2>1. ASSUME NEW k \in 1 .. Len(part_tbl), part_tbl'[k] # None
        PROVE  /\ part_tbl'[k] = part_tbl[k] /\ part_tbl[k] # None
               /\ part'[part_tbl[k]].announced = part[part_tbl[k]].announced
    <3>1. part_tbl'[k] = part_tbl[k] /\ part_tbl[k] # None /\ k # i
      BY <1>11, <2>1
    <3>2. part_tbl[k] \in Parts /\ part_tbl[k] # o /\ part[part_tbl[k]].state = "live"
      BY <1>1, <1>5, <1>6, <3>1, TableTypes DEF IInv, Listed, Slots
    <3>3. QED
      BY <1>10, <3>1, <3>2 DEF Alive, Like
  <2>2. QED
    BY <1>1, <1>8, <1>11, <2>1 DEF Told
<1>17. QED
  BY <1>11, <1>12, <1>13, <1>14, <1>15, <1>16 DEF IInv

\* del_gendisk drops the last partition there is.
LEMMA DelNextStep ==
  ASSUME Basics, IInv, DelNext
  PROVE  IInv'
<1>1. /\ Types /\ ScanAt /\ RegAt /\ reg \in RegRec /\ reg.pc = "del"
      /\ UNCHANGED <<disk, scan, reader>> /\ reg.idx \in Nat /\ reg.held \in Slots
  BY ControlTypes DEF IInv, Types, DelNext
<1>2. PICK i : i = Max(Behind(reg.idx))
  OBVIOUS
<1>3. /\ Behind(reg.idx) \in SUBSET (0 .. Len(part_tbl)) /\ Behind(reg.idx) # {}
      /\ Len(part_tbl) \in Nat
  BY <1>1, TableTypes DEF Behind, DelNext
<1>4. i \in Behind(reg.idx) /\ \A j \in Behind(reg.idx) : j <= i
  BY Zenon, <1>2, <1>3, MaxIn
<1>5. i \in 1 .. Len(part_tbl) /\ part_tbl[i] # None /\ i <= reg.idx
  BY <1>1, <1>4, TableTypes DEF Behind
<1>6. PICK o \in Parts : o = part_tbl[i]
  BY <1>1, <1>5, TableTypes DEF Slots
<1>7. delete_partition(i, reg.held) /\ reg' = [reg EXCEPT !.idx = i - 1, !.held = o]
  BY <1>2, <1>6 DEF DelNext
<1>8. reg' \in RegRec /\ reg'.pc = "del" /\ reg'.held = o /\ reg'.idx = i - 1
  <2>1. i - 1 \in Nat /\ o \in Slots
    BY <1>3, <1>5 DEF Slots
  <2>2. QED
    BY Zenon, <1>1, <1>7, <2>1 DEF RegRec
<1>9. reg.held # None => Others[reg.held] > 0
  BY <1>1, Holder DEF Slots
<1>10. part' \in [Parts -> PartRec] /\ Exact(part', GotBy(PutBy(Others, reg.held), o))
  BY <1>1, <1>5, <1>6, <1>7, <1>9, DeletePartition
<1>11. /\ tables' \in Seq(TblRec) /\ Current' = Current
       /\ Len(part_tbl') = Len(part_tbl) /\ part_tbl'[i] = None
       /\ \A k \in 1 .. Len(part_tbl) : k # i => part_tbl'[k] = part_tbl[k]
       /\ Sections' /\ Listed'
  BY <1>1, <1>5, <1>7, <1>9, DeleteTable
<1>12. Types'
  BY <1>1, <1>8, <1>10, <1>11 DEF Types
<1>13. Counts'
  BY <1>1, <1>8, <1>10, HeldMoves DEF Counts
<1>14. disk.stage = "deleting" /\ scan.pc = "idle"
  BY <1>1 DEF RegAt, ScanAt
<1>15. ScanAt'
  BY <1>1, <1>14 DEF ScanAt
<1>16. RegAt'
  <2>1. ASSUME NEW k \in 1 .. Len(part_tbl), k > i - 1 PROVE part_tbl'[k] = None
    <3>1. CASE k = i
      BY <1>11, <3>1
    <3>2. CASE k # i
      <4>1. k \notin Behind(reg.idx)
        BY <1>4, <1>5, <2>1, <3>2
      <4>2. k \in DOMAIN part_tbl /\ k \in Nat
        <5>1. k \in DOMAIN part_tbl
          BY Zenon, <1>1, TableTypes
        <5>2. QED
          BY <1>3, <5>1
      <4>3. ~ (k <= reg.idx) \/ part_tbl[k] = None
        BY <4>1, <4>2 DEF Behind
      <4>4. k > reg.idx \/ part_tbl[k] = None
        BY <1>1, <4>2, <4>3
      <4>5. part_tbl[k] = None
        BY <1>1, <4>4 DEF RegAt
      <4>6. QED
        BY <1>11, <3>2, <4>5
    <3>3. QED
      BY <3>1, <3>2
  <2>2. QED
    BY Zenon, <1>1, <1>8, <1>11, <1>14, <2>1 DEF RegAt
<1>17. Told'
  BY <1>8 DEF Told
<1>18. QED
  BY <1>11, <1>12, <1>13, <1>15, <1>16, <1>17 DEF IInv

------------------------------------------------------------------------------
(* References that are put or taken while the table stays.                  *)

\* The table lists the same partitions, and they are as they were.
LEMMA ListedKept ==
  ASSUME Types, Listed, part_tbl' = part_tbl, disk'.capacity = disk.capacity,
         \A o \in Parts : part[o].state = "live" =>
           /\ part'[o].state = "live" /\ part'[o].partno = part[o].partno
           /\ part'[o].size = part[o].size /\ part'[o].from = part[o].from
  PROVE  Listed'
<1>1. Len(part_tbl) <= MaxPartno
  BY DEF Listed
<1>2. ASSUME NEW k \in 1 .. Len(part_tbl), part_tbl[k] # None
      PROVE  /\ part'[part_tbl[k]].state = "live" /\ part'[part_tbl[k]].partno = k
             /\ part'[part_tbl[k]].size > 0
             /\ part'[part_tbl[k]].from + part'[part_tbl[k]].size <= disk.capacity
  <2>1. /\ part[part_tbl[k]].state = "live" /\ part[part_tbl[k]].partno = k
        /\ part[part_tbl[k]].size > 0
        /\ part[part_tbl[k]].from + part[part_tbl[k]].size <= disk.capacity
    BY <1>2 DEF Listed
  <2>2. part_tbl[k] \in Parts
    BY <1>2, TableTypes DEF Slots
  <2>3. QED
    BY <2>1, <2>2
<1>3. QED
  BY <1>1, <1>2 DEF Listed

\* A holder puts its partition and perhaps takes a listed one.
LEMMA Passed ==
  ASSUME Basics, IInv, NEW prev \in Slots, prev # None => Others[prev] > 0,
         NEW o \in Slots, o # None => part[o].state = "live",
         part' = get_device(put_device(part, prev), o),
         UNCHANGED <<tables, reader>>,
         disk'.stage = "released" <=> disk.stage = "released"
  PROVE  /\ part' \in [Parts -> PartRec] /\ Exact(part', GotBy(PutBy(Others, prev), o))
         /\ Kept(part, part') /\ Sections' /\ part_tbl' = part_tbl /\ Current' = Current
         /\ disk'.capacity = disk.capacity => Listed'
<1>1. Types /\ Counts /\ Sections /\ Listed /\ part \in [Parts -> PartRec]
  BY DEF IInv, Types
<1>2. PICK p1 : p1 = put_device(part, prev)
  OBVIOUS
<1>3. /\ p1 \in [Parts -> PartRec] /\ PutBy(Others, prev) \in [Parts -> Nat]
      /\ Exact(p1, PutBy(Others, prev)) /\ Kept(part, p1)
  BY <1>1, <1>2, PutDevice, OthersNat DEF Counts
<1>4. /\ part' \in [Parts -> PartRec] /\ Exact(part', GotBy(PutBy(Others, prev), o))
      /\ Kept(p1, part')
  <2>1. CASE o = None
    <3>1. part' = p1
      BY <1>2, <2>1 DEF get_device
    <3>2. GotBy(PutBy(Others, prev), o) = PutBy(Others, prev)
      BY <2>1, PartitionsAssumption DEF GotBy, PutBy
    <3>3. Kept(p1, p1)
      BY DEF Kept, Like
    <3>4. QED
      BY <1>3, <3>1, <3>2, <3>3
  <2>2. CASE o # None
    <3>1. o \in Parts /\ p1[o].state = "live"
      BY <1>3, <2>2 DEF Kept, Like, Alive, Slots
    <3>2. QED
      BY <1>2, <1>3, <3>1, GetDevice
  <2>3. QED
    BY <2>1, <2>2
<1>5. Kept(part, part')
  BY SMTT(30), <1>3, <1>4 DEF Kept, Like
<1>6. Sections'
  <2>1. \A r \in InSection, q \in Parts : Safe(part, r, q) => Safe(part', r, q)
    BY Zenon, <1>5, KeptSafe
  <2>2. QED
    BY <1>1, <2>1, SectionsKept
<1>7. part_tbl' = part_tbl /\ Current' = Current
  BY Zenon DEF part_tbl, Current
<1>8. ASSUME disk'.capacity = disk.capacity PROVE Listed'
  <2>1. \A q \in Parts : part[q].state = "live" =>
          /\ part'[q].state = "live" /\ part'[q].partno = part[q].partno
          /\ part'[q].size = part[q].size /\ part'[q].from = part[q].from
    BY <1>5 DEF Kept, Like, Alive
  <2>2. QED
    BY <1>1, <1>7, <1>8, <2>1, ListedKept
<1>9. QED
  BY <1>4, <1>5, <1>6, <1>7, <1>8

\* A listed partition is told of as before.
LEMMA AnnouncedKept ==
  ASSUME Types, Listed, Kept(part, part'),
         NEW k \in 1 .. Len(part_tbl), part_tbl[k] # None
  PROVE  part'[part_tbl[k]].announced = part[part_tbl[k]].announced
<1>1. part_tbl[k] \in Parts /\ part[part_tbl[k]].state = "live"
  BY TableTypes DEF Listed, Slots
<1>2. QED
  BY <1>1 DEF Kept, Alive, Like

LEMMA DropEndStep ==
  ASSUME Basics, IInv, DropEnd
  PROVE  IInv'
<1>1. /\ Types /\ Listed /\ ScanAt /\ RegAt /\ Told /\ scan \in ScanRec /\ scan.pc = "delete"
      /\ UNCHANGED <<disk, tables, reg, reader>> /\ scan.held \in Slots /\ None \in Slots
      /\ scan' = [scan EXCEPT !.pc = "dropped", !.held = None]
      /\ scan.p \in Nat /\ Ahead(scan.p) = {}
  BY ControlTypes DEF IInv, Types, DropEnd
<1>2. scan' \in ScanRec /\ scan'.pc = "dropped" /\ scan'.held = None
  BY Zenon, <1>1 DEF ScanRec
<1>3. scan.held # None => Others[scan.held] > 0
  BY <1>1, Holder DEF Slots
<1>4. part' = get_device(put_device(part, scan.held), None)
  BY DEF DropEnd, get_device
<1>5. /\ part' \in [Parts -> PartRec] /\ Exact(part', GotBy(PutBy(Others, scan.held), None))
      /\ Kept(part, part') /\ Sections' /\ part_tbl' = part_tbl /\ Current' = Current /\ Listed'
  BY <1>1, <1>3, <1>4, Passed
<1>6. Types'
  BY <1>1, <1>2, <1>5 DEF Types
<1>7. Counts'
  BY <1>1, <1>2, <1>5, HeldMoves DEF Counts
<1>8. ScanAt'
  <2>1. ASSUME NEW k \in 1 .. Len(part_tbl) PROVE part_tbl[k] = None
    <3>1. k < scan.p \/ part_tbl[k] = None
      BY <1>1, TableTypes DEF Ahead
    <3>2. QED
      BY <1>1, <3>1 DEF ScanAt
  <2>2. disk.stage = "up"
    BY <1>1 DEF ScanAt
  <2>3. QED
    BY <1>1, <1>2, <1>5, <2>1, <2>2 DEF ScanAt
<1>9. RegAt'
  BY <1>1, <1>5 DEF RegAt
<1>10. Told'
  <2>1. \A k \in 1 .. Len(part_tbl) : part_tbl[k] # None =>
          part'[part_tbl[k]].announced = part[part_tbl[k]].announced
    BY <1>1, <1>5, AnnouncedKept
  <2>2. QED
    BY <1>1, <1>2, <1>5, <2>1 DEF Told
<1>11. QED
  BY <1>5, <1>6, <1>7, <1>8, <1>9, <1>10 DEF IInv

LEMMA DelEndStep ==
  ASSUME Basics, IInv, DelEnd
  PROVE  IInv'
<1>1. /\ Types /\ Listed /\ ScanAt /\ RegAt /\ disk \in DiskRec /\ scan \in ScanRec
      /\ reg.pc = "del" /\ UNCHANGED <<scan, tables, reader>> /\ reg.held \in Slots
      /\ None \in Slots /\ reg' = [pc |-> "end", idx |-> 0, held |-> None]
      /\ reg.idx \in Nat /\ Behind(reg.idx) = {}
      /\ disk' = [disk EXCEPT !.capacity = 0, !.stage = "down"]
  BY ControlTypes DEF IInv, Types, DelEnd
<1>2. reg' \in RegRec /\ reg'.pc = "end" /\ reg'.held = None
  BY <1>1 DEF RegRec
<1>3. disk' \in DiskRec /\ disk'.stage = "down" /\ disk'.capacity = 0
  <2>1. 0 \in 0 .. Native
    BY PartitionsAssumption
  <2>2. QED
    BY Zenon, <1>1, <2>1 DEF DiskRec
<1>4. reg.held # None => Others[reg.held] > 0
  BY <1>1, Holder DEF Slots
<1>5. part' = get_device(put_device(part, reg.held), None)
  BY DEF DelEnd, get_device
<1>6. disk.stage = "deleting" /\ scan.pc = "idle"
  BY <1>1 DEF RegAt, ScanAt
<1>7. /\ part' \in [Parts -> PartRec] /\ Exact(part', GotBy(PutBy(Others, reg.held), None))
      /\ Sections' /\ part_tbl' = part_tbl /\ Current' = Current
  BY <1>1, <1>3, <1>4, <1>5, <1>6, Passed
<1>8. Types'
  BY <1>1, <1>2, <1>3, <1>7 DEF Types
<1>9. Counts'
  BY <1>1, <1>2, <1>7, HeldMoves DEF Counts
<1>10. ASSUME NEW k \in 1 .. Len(part_tbl) PROVE part_tbl[k] = None
  <2>1. k > reg.idx \/ part_tbl[k] = None
    BY <1>1, TableTypes DEF Behind
  <2>2. QED
    BY <1>1, <2>1 DEF RegAt
<1>11. Listed'
  BY <1>1, <1>7, <1>10 DEF Listed
<1>12. ScanAt'
  BY <1>1, <1>6 DEF ScanAt
<1>13. RegAt' /\ Told'
  BY <1>2, <1>3, <1>7, <1>10 DEF RegAt, Told
<1>14. QED
  BY <1>7, <1>8, <1>9, <1>11, <1>12, <1>13 DEF IInv

\* register_disk's iterator skips no listed partition: none has size 0.
LEMMA RegNextStep ==
  ASSUME Basics, IInv, RegNext
  PROVE  IInv'
<1> DEFINE left_over == {i \in Ahead(reg.idx) : part[part_tbl[i]].size # 0}
<1>1. /\ Types /\ Listed /\ ScanAt /\ RegAt /\ Told /\ reg \in RegRec /\ reg.pc = "iter"
      /\ UNCHANGED <<disk, tables, scan, reader>> /\ reg.held \in Slots /\ None \in Slots
      /\ reg.idx \in Nat
  BY ControlTypes DEF IInv, Types, RegNext
<1>2. reg.held # None => Others[reg.held] > 0
  BY <1>1, Holder DEF Slots
<1>3. left_over = Ahead(reg.idx) /\ Ahead(reg.idx) \in SUBSET (1 .. Len(part_tbl))
      /\ Len(part_tbl) \in Nat
  BY <1>1, TableTypes DEF Ahead, Listed
<1>4. disk.stage = "up"
  BY <1>1, ControlTypes DEF RegAt
<1>5. CASE left_over # {}
  <2>1. PICK i : i = Min(left_over)
    OBVIOUS
  <2>2. i \in Ahead(reg.idx) /\ \A j \in Ahead(reg.idx) : i <= j
    <3> HIDE DEF left_over
    <3>1. i = Min(Ahead(reg.idx)) /\ Ahead(reg.idx) # {} /\ Ahead(reg.idx) \in SUBSET Nat
      BY <1>3, <1>5, <2>1
    <3>2. QED
      BY <3>1, MinIn
  <2>3. i \in 1 .. Len(part_tbl) /\ part_tbl[i] # None /\ i >= reg.idx
    BY <1>3, <2>2 DEF Ahead
  <2>4. PICK o \in Parts : o = part_tbl[i]
    BY <1>1, <2>3, TableTypes DEF Slots
  <2>5. part[o].state = "live" /\ o \in Slots /\ o # None
    BY <1>1, <2>3, <2>4 DEF Listed, Slots
  <2>6. /\ part' = get_device(put_device(part, reg.held), o)
        /\ reg' = [pc |-> "announce", idx |-> i + 1, held |-> o]
    BY Zenon, <1>5, <2>1, <2>4 DEF RegNext
  <2>7. reg' \in RegRec /\ reg'.pc = "announce" /\ reg'.idx = i + 1 /\ reg'.held = o
    <3>1. i + 1 \in Nat
      BY <1>3, <2>3
    <3>2. QED
      BY Zenon, <2>5, <2>6, <3>1 DEF RegRec
  <2>8. /\ part' \in [Parts -> PartRec] /\ Exact(part', GotBy(PutBy(Others, reg.held), o))
        /\ Kept(part, part') /\ Sections' /\ part_tbl' = part_tbl /\ Current' = Current
        /\ Listed'
    BY <1>1, <1>2, <2>5, <2>6, Passed
  <2>9. Types'
    BY <1>1, <2>7, <2>8 DEF Types
  <2>10. Counts'
    BY Zenon, <1>1, <2>7, <2>8, HeldMoves DEF Counts
  <2>11. ScanAt' /\ RegAt'
    BY Zenon, <1>1, <1>4, <2>5, <2>7, <2>8 DEF ScanAt, RegAt
  <2>12. Told'
    <3>1. \A k \in 1 .. Len(part_tbl) : part_tbl[k] # None =>
            part'[part_tbl[k]].announced = part[part_tbl[k]].announced
      BY <1>1, <2>8, AnnouncedKept
    <3>2. \A k \in 1 .. Len(part_tbl) : part_tbl[k] # None /\ k >= reg.idx => k >= i + 1 \/ k = i
      BY SMTT(30), <1>1, <1>3, <2>2, <2>3, TableTypes DEF Ahead
    <3>3. QED
      BY Zenon, <1>1, <2>4, <2>7, <2>8, <3>1, <3>2 DEF Told
  <2>13. QED
    BY <2>8, <2>9, <2>10, <2>11, <2>12 DEF IInv
<1>6. CASE left_over = {}
  <2>1. /\ part' = get_device(put_device(part, reg.held), None)
        /\ reg' = [pc |-> "done", idx |-> 0, held |-> None]
    BY Zenon, <1>6 DEF RegNext, get_device
  <2>2. reg' \in RegRec /\ reg'.pc = "done" /\ reg'.held = None
    BY <1>1, <2>1 DEF RegRec
  <2>3. /\ part' \in [Parts -> PartRec] /\ Exact(part', GotBy(PutBy(Others, reg.held), None))
        /\ Kept(part, part') /\ Sections' /\ part_tbl' = part_tbl /\ Current' = Current
        /\ Listed'
    BY <1>1, <1>2, <2>1, Passed
  <2>4. Types'
    BY <1>1, <2>2, <2>3 DEF Types
  <2>5. Counts'
    BY <1>1, <2>2, <2>3, HeldMoves DEF Counts
  <2>6. ScanAt' /\ RegAt'
    BY <1>1, <1>4, <2>2, <2>3 DEF ScanAt, RegAt
  <2>7. Told'
    <3>1. \A k \in 1 .. Len(part_tbl) : part_tbl[k] # None =>
            part'[part_tbl[k]].announced = part[part_tbl[k]].announced
      BY <1>1, <2>3, AnnouncedKept
    <3>2. \A k \in 1 .. Len(part_tbl) : part_tbl[k] # None => ~(k >= reg.idx)
      BY <1>1, <1>3, <1>6, TableTypes DEF Ahead
    <3>3. QED
      BY <1>1, <2>2, <2>3, <3>1, <3>2 DEF Told
  <2>8. QED
    BY <2>3, <2>4, <2>5, <2>6, <2>7 DEF IInv
<1>7. QED
  BY <1>5, <1>6

------------------------------------------------------------------------------
(* Partitions that are announced, released by their last user, or freed.    *)

\* The uevent of a partition was sent, or not.
LEMMA Announce ==
  ASSUME NEW a \in PartRec, NEW b \in BOOLEAN
  PROVE  LET c == [a EXCEPT !.announced = b] IN
         /\ c \in PartRec /\ c.state = a.state /\ c.refs = a.refs /\ c.partno = a.partno
         /\ c.from = a.from /\ c.size = a.size /\ c.waits = a.waits /\ c.announced = b
BY DEF PartRec

\* A step that only announces o.
LEMMA Announced ==
  ASSUME Basics, IInv, NEW o \in Parts, NEW b \in BOOLEAN,
         part' = [part EXCEPT ![o].announced = b],
         UNCHANGED <<disk, tables, reader>>, scan' \in ScanRec, reg' \in RegRec,
         scan'.held = scan.held, reg'.held = reg.held
  PROVE  /\ Types' /\ Counts' /\ Sections' /\ Listed' /\ part_tbl' = part_tbl
         /\ part'[o].announced = b
         /\ \A q \in Parts : q # o => part'[q].announced = part[q].announced
<1> DEFINE c == [part[o] EXCEPT !.announced = b]
<1>1. /\ Types /\ Counts /\ Sections /\ Listed /\ part \in [Parts -> PartRec]
      /\ part[o] \in PartRec
  BY DEF IInv, Types
<1>2. /\ c \in PartRec /\ c.state = part[o].state /\ c.refs = part[o].refs
      /\ c.partno = part[o].partno /\ c.from = part[o].from /\ c.size = part[o].size
      /\ c.waits = part[o].waits /\ c.announced = b
  BY <1>1, Announce
<1>3. part' = [part EXCEPT ![o] = c]
  BY <1>1
<1> HIDE DEF c
<1>4. /\ part' \in [Parts -> PartRec] /\ part'[o] = c
      /\ \A q \in Parts : q # o => part'[q] = part[q]
  BY <1>1, <1>2, <1>3
<1>5. \A q \in Parts : /\ part'[q].state = part[q].state /\ part'[q].refs = part[q].refs
                       /\ part'[q].partno = part[q].partno /\ part'[q].from = part[q].from
                       /\ part'[q].size = part[q].size /\ part'[q].waits = part[q].waits
  BY <1>2, <1>4
<1>6. part_tbl' = part_tbl /\ Current' = Current
  BY DEF part_tbl, Current
<1>7. Types'
  BY <1>1, <1>4, <1>6 DEF Types
<1>8. Counts'
  <2>1. Others' = Others
    BY HeldMoves
  <2>2. QED
    BY <1>1, <1>5, <2>1 DEF Counts, Exact, Own
<1>9. Sections'
  <2>1. \A r \in InSection, q \in Parts : Safe(part, r, q) => Safe(part', r, q)
    BY <1>5 DEF Safe
  <2>2. QED
    BY Zenon, <1>1, <2>1, SectionsKept
<1>10. Listed'
  BY <1>1, <1>5, <1>6, ListedKept
<1>11. QED
  BY <1>2, <1>4, <1>6, <1>7, <1>8, <1>9, <1>10

LEMMA RegAnnounceStep ==
  ASSUME Basics, IInv, RegAnnounce
  PROVE  IInv'
<1>1. /\ Types /\ ScanAt /\ RegAt /\ Told /\ scan \in ScanRec /\ reg \in RegRec
      /\ reg.pc = "announce" /\ UNCHANGED <<disk, tables, scan, reader>>
      /\ reg.held \in Slots /\ reg.idx \in Nat
      /\ part' = [part EXCEPT ![reg.held].announced = TRUE] /\ reg' = [reg EXCEPT !.pc = "iter"]
  BY ControlTypes DEF IInv, Types, RegAnnounce
<1>2. PICK o \in Parts : o = reg.held
  BY <1>1 DEF RegAt, Slots
<1>3. reg' \in RegRec /\ reg'.pc = "iter" /\ reg'.idx = reg.idx /\ reg'.held = reg.held
  BY <1>1 DEF RegRec
<1>4. /\ Types' /\ Counts' /\ Sections' /\ Listed' /\ part_tbl' = part_tbl
      /\ part'[o].announced
      /\ \A q \in Parts : q # o => part'[q].announced = part[q].announced
  <2>1. ASSUME NEW b \in BOOLEAN, b = TRUE
        PROVE  /\ Types' /\ Counts' /\ Sections' /\ Listed' /\ part_tbl' = part_tbl
               /\ part'[o].announced = b
               /\ \A q \in Parts : q # o => part'[q].announced = part[q].announced
    <3>1. part' = [part EXCEPT ![o].announced = b]
      BY Zenon, <1>1, <1>2, <2>1
    <3>2. scan' \in ScanRec /\ scan'.held = scan.held
      BY <1>1
    <3>3. QED
      BY Zenon, <1>1, <1>3, <3>1, <3>2, Announced
  <2>2. QED
    BY <2>1, Zenon
<1>5. disk.stage = "up"
  BY <1>1, ControlTypes DEF RegAt
<1>6. ScanAt' /\ RegAt'
  BY <1>1, <1>3, <1>4, <1>5 DEF ScanAt, RegAt
<1>7. Told'
  <2>1. ASSUME NEW k \in 1 .. Len(part_tbl), part_tbl[k] # None
        PROVE  \/ part'[part_tbl[k]].announced
               \/ scan.pc = "announce" /\ k = scan.p
               \/ k >= reg.idx
    <3>1. part_tbl[k] \in Parts
      BY <1>1, <2>1, TableTypes DEF Slots
    <3>2. CASE part_tbl[k] = o
      BY <1>4, <3>2
    <3>3. CASE part_tbl[k] # o
      BY <1>1, <1>2, <1>4, <2>1, <3>1, <3>3 DEF Told
    <3>4. QED
      BY <3>2, <3>3
  <2>2. ~disk.suppress
    BY <1>1 DEF Told
  <2>3. QED
    BY <1>1, <1>3, <1>4, <2>1, <2>2 DEF Told
<1>8. QED
  BY <1>4, <1>6, <1>7 DEF IInv

\* The scan announces what it has just added, or leaves it to register_disk.
LEMMA AnnouncePartStep ==
  ASSUME Basics, IInv, AnnouncePart
  PROVE  IInv'
<1>1. /\ Types /\ ScanAt /\ RegAt /\ Told /\ scan \in ScanRec /\ reg \in RegRec
      /\ scan.pc = "announce" /\ UNCHANGED <<disk, tables, reg, reader>>
      /\ scan.p \in Nat /\ disk.suppress \in BOOLEAN
      /\ part' = [part EXCEPT ![part_tbl[scan.p]].announced = @ \/ ~disk.suppress]
      /\ scan' = [scan EXCEPT !.pc = "add", !.p = @ + 1]
      /\ part \in [Parts -> PartRec]
  BY ControlTypes DEF IInv, Types, AnnouncePart
<1>2. scan.p \in 1 .. Len(part_tbl) /\ part_tbl[scan.p] # None /\ scan.held = None
      /\ disk.stage = "up" /\ scan.found \in Parsed
  BY <1>1 DEF ScanAt
<1>3. PICK o \in Parts : o = part_tbl[scan.p]
  BY <1>1, <1>2, TableTypes DEF Slots
<1>4. scan' \in ScanRec /\ scan'.pc = "add" /\ scan'.held = scan.held /\ scan'.found = scan.found
  <2>1. scan \in ScanRec /\ scan' = [scan EXCEPT !.pc = "add", !.p = @ + 1] /\ scan.p + 1 \in Nat
    BY <1>1
  <2>2. QED
    BY Zenon, <2>1 DEF ScanRec
<1>5. PICK b \in BOOLEAN : b = (part[o].announced \/ ~disk.suppress)
  BY Zenon
<1>6. part' = [part EXCEPT ![o].announced = b]
  BY <1>1, <1>3, <1>5
<1>7. /\ Types' /\ Counts' /\ Sections' /\ Listed' /\ part_tbl' = part_tbl
      /\ part'[o].announced = b
      /\ \A q \in Parts : q # o => part'[q].announced = part[q].announced
  BY Zenon, <1>1, <1>4, <1>6, Announced
<1>8. ScanAt' /\ RegAt'
  BY <1>1, <1>2, <1>4, <1>7 DEF ScanAt, RegAt
<1>9. Told'
  <2>1. ASSUME reg.pc \in {"iter", "announce", "done"},
               NEW k \in 1 .. Len(part_tbl), part_tbl[k] # None
        PROVE  \/ part'[part_tbl[k]].announced
               \/ reg.pc \in {"iter", "announce"} /\ k >= reg.idx
               \/ reg.pc = "announce" /\ part_tbl[k] = reg.held
    <3>1. part_tbl[k] \in Parts /\ ~disk.suppress
      BY <1>1, <2>1, TableTypes DEF Slots, Told
    <3>2. CASE part_tbl[k] = o
      BY Zenon, <1>5, <1>7, <3>1, <3>2
    <3>3. CASE part_tbl[k] # o
      BY <1>1, <1>3, <1>7, <2>1, <3>1, <3>3 DEF Told
    <3>4. QED
      BY <3>2, <3>3
  <2>2. reg.pc \in {"iter", "announce", "done"} => ~disk.suppress
    BY <1>1 DEF Told
  <2>3. QED
    BY <1>1, <1>4, <1>7, <2>1, <2>2 DEF Told
<1>10. QED
  BY <1>7, <1>8, <1>9 DEF IInv

\* A partition that changes in ways nobody else is concerned with.
LEMMA OneChanges ==
  ASSUME Basics, IInv, NEW o \in Parts, UNCHANGED <<disk, tables, scan, reg, reader>>,
         part' \in [Parts -> PartRec], part[o].state # "live",
         Exact(part', Others), \A q \in Parts : q # o => part'[q] = part[q],
         \A r \in InSection : Safe(part, r, o) => Safe(part', r, o)
  PROVE  IInv'
<1>1. /\ Types /\ Counts /\ Sections /\ Listed /\ ScanAt /\ RegAt /\ Told
  BY DEF IInv
<1>2. part_tbl' = part_tbl /\ Current' = Current /\ disk' = disk /\ scan' = scan /\ reg' = reg
  BY DEF part_tbl, Current
<1>3. Types'
  BY <1>1, <1>2 DEF Types
<1>4. Counts'
  <2>1. Others' = Others
    BY HeldMoves
  <2>2. QED
    BY <2>1 DEF Counts
<1>5. Sections'
  <2>1. \A r \in InSection, q \in Parts : Safe(part, r, q) => Safe(part', r, q)
    BY DEF Safe
  <2>2. QED
    BY <1>1, <1>2, <2>1, SectionsKept
<1>6. \A q \in Parts : part[q].state = "live" => part'[q] = part[q]
  OBVIOUS
<1>7. Listed'
  BY <1>1, <1>2, <1>6, ListedKept
<1>8. ScanAt' /\ RegAt'
  BY <1>1, <1>2 DEF ScanAt, RegAt
<1>9. Told'
  <2>1. \A k \in 1 .. Len(part_tbl) : part_tbl[k] # None => part'[part_tbl[k]] = part[part_tbl[k]]
    BY <1>1, <1>6, TableTypes DEF Listed, Slots
  <2>2. QED
    BY <1>1, <1>2, <2>1 DEF Told
<1>10. QED
  BY <1>3, <1>4, <1>5, <1>7, <1>8, <1>9 DEF IInv

\* hd_struct_put by the last user: whoever is in a section now is waited for.
LEMMA HdPutStep ==
  ASSUME Basics, IInv, NEW o \in Parts, HdPut(o)
  PROVE  IInv'

<1>1. /\ Types /\ Counts /\ part \in [Parts -> PartRec] /\ part[o] \in PartRec
      /\ part[o].state = "unlinked" /\ InSection \in SUBSET Readers
      /\ UNCHANGED <<disk, tables, scan, reg, reader>>
  BY DEF IInv, Types, HdPut, InSection
<1>2. PICK c : c = [part[o] EXCEPT !.state = "dying", !.waits = InSection]
  OBVIOUS
<1>3. c \in PartRec /\ c.state = "dying" /\ c.waits = InSection /\ c.refs = part[o].refs
  BY Zenon, <1>1, <1>2 DEF PartRec
<1>4. part' = [part EXCEPT ![o] = c]
  BY Zenon, <1>1, <1>2 DEF HdPut
<1>5. /\ part' \in [Parts -> PartRec] /\ part'[o] = c
      /\ \A q \in Parts : q # o => part'[q] = part[q]
  BY <1>1, <1>3, <1>4
<1>6. Exact(part', Others)
  BY <1>1, <1>3, <1>5 DEF Counts, Exact, Own, Alive
<1>7. \A r \in InSection : Safe(part', r, o)
  BY <1>3, <1>5 DEF Safe
<1>8. QED
  BY <1>1, <1>5, <1>6, <1>7, OneChanges

\* delete_partition_rcu_cb after the grace period: no reader reaches the
\* partition, and the table's reference is put.
LEMMA RcuCallbackStep ==
  ASSUME Basics, IInv, NEW o \in Parts, delete_partition_rcu_cb(o)
  PROVE  IInv'
<1>1. /\ Types /\ Counts /\ part \in [Parts -> PartRec] /\ part[o] \in PartRec
      /\ part[o].state = "dying" /\ part[o].waits = {}
      /\ UNCHANGED <<disk, tables, scan, reg, reader>>
  BY DEF IInv, Types, delete_partition_rcu_cb, grace_over
<1>2. PICK c : c = [part[o] EXCEPT !.state = "gone", !.from = 0, !.size = 0]
  OBVIOUS
<1>3. c \in PartRec /\ c.state = "gone" /\ c.refs = part[o].refs
  BY Zenon, <1>1, <1>2 DEF PartRec
<1>4. PICK ps : ps = [part EXCEPT ![o] = c]
  BY Zenon
<1>5. part' = put_device(ps, o)
  <2>1. ps = [part EXCEPT ![o].state = "gone", ![o].from = 0, ![o].size = 0]
    BY Zenon, <1>1, <1>2, <1>4
  <2>2. QED
    BY <2>1 DEF delete_partition_rcu_cb
<1>6. /\ ps \in [Parts -> PartRec] /\ ps[o] = c
      /\ \A q \in Parts : q # o => ps[q] = part[q]
  BY <1>1, <1>3, <1>4
<1>7. PICK n : n = GotBy(Others, o)
  OBVIOUS
<1>8. /\ n \in [Parts -> Nat] /\ n[o] = Others[o] + 1 /\ \A q \in Parts : q # o => n[q] = Others[q]
  BY <1>7, OthersNat DEF GotBy
<1>9. Exact(ps, n)
  BY SMTT(30), <1>1, <1>3, <1>6, <1>8, OthersNat DEF Counts, Exact, Own, Alive
<1>10. PutBy(n, o) = Others
  BY <1>7, OthersNat DEF GotBy, PutBy
<1>11. o \in Slots /\ n[o] > 0
  BY <1>8, OthersNat DEF Slots
<1>12. part' \in [Parts -> PartRec] /\ Exact(part', Others)
  BY <1>5, <1>6, <1>8, <1>9, <1>10, <1>11, PutDevice
<1>13. \A q \in Parts : q # o => part'[q] = part[q]
  <2>1. part' = [ps EXCEPT ![o] = Free] \/ part' = [ps EXCEPT ![o] = [ps[o] EXCEPT !.refs = @ - 1]]
        \/ part' = ps
    BY <1>5 DEF put_device
  <2>2. QED
    BY <1>6, <2>1
<1>14. \A r \in InSection : ~Safe(part, r, o)
  BY <1>1 DEF Safe
<1>15. QED
  BY <1>1, <1>12, <1>13, <1>14, OneChanges

------------------------------------------------------------------------------
(* Tables that grow and partitions that are added.                          *)

\* The readers of a table that was replaced are waited for; those of one that
\* was written find live partitions in it.
LEMMA SectionsGrow ==
  ASSUME Types, Sections, UNCHANGED <<reader, disk>>, disk.stage # "released",
         NEW len \in Nat, NEW T, T = expanded(len),
         Len(tables') = Len(T), tables'[Len(T)].freed = T[Len(T)].freed,
         \A j \in 1 .. Current :
           /\ tables'[j].freed = T[j].freed /\ tables'[j].waits = T[j].waits
           /\ Len(tables'[j].part) = Len(T[j].part)
           /\ \A i \in 1 .. Len(T[j].part) : \/ tables'[j].part[i] = T[j].part[i]
                                             \/ part'[tables'[j].part[i]].state = "live",
         \A r \in InSection, o \in Parts : Safe(part, r, o) => Safe(part', r, o)
  PROVE  Sections'
<1>1. /\ Current \in Nat /\ Current \in 1 .. Current /\ Current' = Len(T) /\ disk' = disk
      /\ Len(tables) = Current
  BY TableTypes DEF Current
<1>2. /\ Len(T) \in Nat /\ Len(T) >= Current
      /\ \A j \in 1 .. Current : /\ T[j].part = tables[j].part /\ T[j].freed = tables[j].freed
                                 /\ j < Current => T[j].waits = tables[j].waits
      /\ Len(T) > Current => T[Current].waits = InSection /\ ~T[Len(T)].freed
  <2>1. Growth(T, len)
    BY Expanded
  <2>2. QED
    BY <2>1 DEF Growth
<1>3. InSection' = InSection
  BY DEF InSection
<1>4. ASSUME NEW q \in InSection PROVE Reaches(q)'
  <2>1. q \in Readers /\ Reaches(q) /\ reader'[q] = reader[q]
    BY DEF Sections, InSection
  <2>2. \A o \in Parts : Safe(part, q, o) => Safe(part', q, o)
    OBVIOUS
  <2>3. PICK t \in 1 .. Current : t = reader[q].tbl
    BY <2>1 DEF Reaches
  <2>4. (t < Current => q \in tables[t].waits) /\ ~tables[t].freed
    BY <2>1, <2>3 DEF Reaches
  <2>5. /\ ~tables'[t].freed /\ Len(tables'[t].part) = Len(tables[t].part)
        /\ \A i \in 1 .. Len(tables[t].part) :
             \/ tables'[t].part[i] \in {None, tables[t].part[i]}
             \/ part'[tables'[t].part[i]].state = "live"
    <3>1. T[t].part = tables[t].part /\ T[t].freed = tables[t].freed
      BY <1>2
    <3>2. tables'[t].freed = T[t].freed /\ Len(tables'[t].part) = Len(T[t].part)
      OBVIOUS
    <3>3. ASSUME NEW i \in 1 .. Len(tables[t].part)
          PROVE  \/ tables'[t].part[i] = tables[t].part[i]
                 \/ part'[tables'[t].part[i]].state = "live"
      BY <3>1
    <3>4. QED
      BY Zenon, <2>4, <3>1, <3>2, <3>3
  <2>6. t < Len(tables') => q \in tables'[t].waits
    <3>1. CASE t < Current
      BY <1>2, <2>4, <3>1
    <3>2. CASE ~(t < Current)
      <4>1. t = Current
        BY <1>1, <3>2
      <4>2. QED
        BY <1>1, <1>2, <4>1
    <3>3. QED
      BY <3>1, <3>2
  <2>7. Len(tables') \in Nat /\ Len(tables') >= Current
    BY <1>2
  <2>8. QED
    BY Zenon, <2>1, <2>2, <2>3, <2>5, <2>6, <2>7, ReachesKept
<1>5. ~tables'[Len(T)].freed
  <2>1. CASE Len(T) > Current
    BY <1>2, <2>1
  <2>2. CASE ~(Len(T) > Current)
    <3>1. Len(T) = Current
      BY <1>1, <1>2, <2>2
    <3>2. ~tables[Current].freed
      BY DEF Sections
    <3>3. QED
      BY <1>1, <1>2, <3>1, <3>2
  <2>3. QED
    BY <2>1, <2>2
<1>6. QED
  BY <1>1, <1>3, <1>4, <1>5 DEF Sections

\* disk_expand_part_tbl, with or without success, while a scan runs.
LEMMA Grown ==
  ASSUME Basics, IInv, NEW len \in 0 .. MaxPartno, tables' \in {tables, expanded(len)},
         UNCHANGED <<disk, part, reg, reader>>, scan' \in ScanRec, scan'.held = scan.held,
         scan.pc \in {"expand", "add"}
  PROVE  /\ Types' /\ Counts' /\ Sections' /\ Listed' /\ RegAt' /\ Told'
         /\ Len(part_tbl') \in Nat /\ Len(part_tbl') >= Len(part_tbl)
         /\ \A k \in 1 .. Len(part_tbl') :
              part_tbl'[k] = IF k <= Len(part_tbl) THEN part_tbl[k] ELSE None
<1>1. /\ Types /\ Counts /\ Sections /\ Listed /\ ScanAt /\ RegAt /\ Told /\ disk' = disk
      /\ reg' = reg /\ part' = part
  BY DEF IInv
<1>2. /\ Len(part_tbl) \in Nat /\ MaxPartno \in Nat /\ Current \in Nat
      /\ disk.stage = "up" /\ Len(part_tbl) <= MaxPartno
  BY <1>1, TableTypes, ControlTypes, PartitionsAssumption DEF ScanAt, Listed
<1>3. PICK n \in 0 .. MaxPartno : tables' = expanded(n)
  <2>1. expanded(0) = tables
    BY SMTT(30), <1>2 DEF expanded
  <2>2. 0 \in 0 .. MaxPartno
    BY <1>2
  <2>3. QED
    BY <2>1, <2>2
<1>4. PICK T : T = expanded(n)
  OBVIOUS
<1>5. /\ T \in Seq(TblRec) /\ Len(T) \in Nat /\ Len(T) >= Current
      /\ Len(T[Len(T)].part) = IF n <= Len(part_tbl) THEN Len(part_tbl) ELSE n
      /\ \A i \in 1 .. Len(T[Len(T)].part) :
           T[Len(T)].part[i] = IF i <= Len(part_tbl) THEN part_tbl[i] ELSE None
  <2>1. n \in Nat
    BY <1>2
  <2>2. Growth(T, n)
    BY <1>1, <1>4, <2>1, Expanded
  <2>3. QED
    BY <2>2 DEF Growth
<1>6. tables' = T /\ Current' = Len(T) /\ part_tbl' = T[Len(T)].part
  BY <1>3, <1>4 DEF Current, part_tbl
<1>7. /\ Len(part_tbl') \in Nat /\ Len(part_tbl') >= Len(part_tbl)
      /\ Len(part_tbl') <= MaxPartno
      /\ \A k \in 1 .. Len(part_tbl') :
           part_tbl'[k] = IF k <= Len(part_tbl) THEN part_tbl[k] ELSE None
  BY <1>2, <1>5, <1>6
<1>8. \A k \in 1 .. Len(part_tbl') : part_tbl'[k] # None =>
        k \in 1 .. Len(part_tbl) /\ part_tbl'[k] = part_tbl[k]
  BY <1>2, <1>7
<1>9. Types'
  <2>1. Current >= 1
    BY <1>1 DEF Types
  <2>2. QED
    BY <1>1, <1>2, <1>5, <1>6, <2>1 DEF Types
<1>10. Counts'
  <2>1. Others' = Others
    BY <1>1, HeldMoves
  <2>2. QED
    BY <1>1, <2>1 DEF Counts
<1>11. Sections'
  <2>1. n \in Nat
    BY <1>2
  <2>2. QED
    BY <1>1, <1>2, <1>4, <1>6, <2>1, SectionsGrow
<1>12. Listed'
  BY <1>1, <1>7, <1>8 DEF Listed
<1>13. RegAt'
  BY <1>1, <1>2, <1>8 DEF RegAt
<1>14. Told'
  <2>1. scan.pc # "announce"
    OBVIOUS
  <2>2. QED
    BY <1>1, <1>8, <2>1 DEF Told
<1>15. QED
  BY <1>7, <1>9, <1>10, <1>11, <1>12, <1>13, <1>14

LEMMA GrowSteps ==
  ASSUME Basics, IInv, Preallocate \/ \E p \in Partnos : AddFails(p)
  PROVE  IInv'
<1>1. /\ Types /\ ScanAt /\ scan \in ScanRec /\ UNCHANGED <<disk, part, reg, reader>>
      /\ scan.pc \in {"expand", "add"} /\ MaxPartno \in Nat
  BY PartitionsAssumption DEF IInv, Types, Preallocate, AddFails, Adding
<1>2. /\ scan' \in ScanRec /\ scan'.held = scan.held /\ scan'.pc = "add"
      /\ scan'.found = scan.found
  <2>1. CASE Preallocate
    BY Zenon, <1>1, <2>1 DEF Preallocate, ScanRec
  <2>2. ASSUME NEW p \in Partnos, AddFails(p)
        PROVE  /\ scan' \in ScanRec /\ scan'.held = scan.held /\ scan'.pc = "add"
               /\ scan'.found = scan.found
    <3>1. scan' = [scan EXCEPT !.p = p + 1] /\ scan.pc = "add" /\ p + 1 \in Nat
      BY <1>1, <2>2 DEF AddFails, Adding, Partnos
    <3>2. QED
      BY <1>1, <3>1 DEF ScanRec
  <2>3. QED
    BY <2>1, <2>2
<1>3. PICK len \in 0 .. MaxPartno : tables' \in {tables, expanded(len)}
  <2>1. CASE Preallocate
    <3> DEFINE used == {p \in Partnos : scan.found[p].size # 0}
    <3>1. used \cup {0} \in SUBSET (0 .. MaxPartno) /\ used \cup {0} # {}
      BY <1>1 DEF Partnos
    <3>2. Max(used \cup {0}) \in 0 .. MaxPartno
      <4> HIDE DEF used
      <4>1. QED
        BY Zenon, <1>1, <3>1, MaxIn
    <3>3. QED
      BY <2>1, <3>2 DEF Preallocate
  <2>2. ASSUME NEW p \in Partnos, AddFails(p) PROVE p \in 0 .. MaxPartno /\ tables' \in {tables, expanded(p)}
    BY <1>1, <2>2 DEF AddFails, Partnos
  <2>3. QED
    BY <2>1, <2>2
<1>4. Types' /\ Counts' /\ Sections' /\ Listed' /\ RegAt' /\ Told'
  BY <1>1, <1>2, <1>3, Grown
<1>5. ScanAt'
  BY <1>1, <1>2 DEF ScanAt
<1>6. QED
  BY <1>4, <1>5 DEF IInv

Added(p, e) == [Free EXCEPT !.state = "live", !.partno = p, !.refs = 1,
                            !.from = e.from, !.size = limited(e)]

\* The new hd_struct: limited to the end of the disk.
LEMMA NewPart ==
  ASSUME Types, NEW p \in Partnos, NEW e \in Extents, Fits(e),
         NEW c, c = Added(p, e)
  PROVE  /\ c \in PartRec /\ c.state = "live" /\ c.partno = p /\ c.refs = 1
         /\ c.size > 0 /\ c.from + c.size <= disk.capacity
<1>1. /\ disk.capacity \in Nat /\ e.from \in Nat /\ e.size \in Nat
      /\ SectorMax \in Nat /\ e.from + e.size < SectorMax
  BY ControlTypes, PartitionsAssumption DEF Extents
<1>2. limited(e) \in Nat /\ limited(e) > 0 /\ e.from + limited(e) <= disk.capacity
  <2>1. \A n, m \in Nat : n < m => n % m = n
    OBVIOUS
  <2>2. end(e) = e.from + e.size
    BY <1>1, <2>1 DEF end
  <2> QED
    BY <1>1, <2>2 DEF Fits, limited
<1>3. PICK l \in Nat : l = limited(e)
  BY <1>2
<1>4. c = [Free EXCEPT !.state = "live", !.partno = p, !.refs = 1, !.from = e.from, !.size = l]
  BY <1>3 DEF Added
<1>5. p \in 0 .. MaxPartno
  BY PartitionsAssumption DEF Partnos
<1>6. PICK a : a = [Free EXCEPT !.state = "live", !.partno = p]
  OBVIOUS
<1>7. a \in PartRec /\ a.state = "live" /\ a.partno = p
  BY Zenon, <1>5, <1>6, FreeTyped DEF PartRec
<1>8. PICK f \in Nat : f = e.from
  BY <1>1
<1>9. /\ c \in PartRec /\ c.state = "live" /\ c.partno = p /\ c.refs = 1
      /\ c.from = f /\ c.size = l
  <2>1. PICK b : b = [a EXCEPT !.refs = 1]
    BY Zenon
  <2>2. b \in PartRec /\ b.state = "live" /\ b.partno = p /\ b.refs = 1
    BY <1>7, <2>1 DEF PartRec
  <2>3. c = [b EXCEPT !.from = f, !.size = l]
    BY <1>4, <1>6, <1>8, <2>1
  <2>4. QED
    BY Zenon, <2>2, <2>3 DEF PartRec
<1>10. QED
  BY <1>2, <1>3, <1>8, <1>9

WithPart(T, p, o) == [T EXCEPT ![Len(T)].part[p] = o]

\* U: the m tables T, of which the last one now has o at p; the disk had n
\* tables, and old was the current one.
Slotted(T, U, m, n, old, p, o) ==
  /\ U \in Seq(TblRec) /\ Len(U) = m /\ U[m].freed = T[m].freed
  /\ \A j \in 1 .. n :
       /\ U[j].freed = T[j].freed /\ U[j].waits = T[j].waits
       /\ Len(U[j].part) = Len(T[j].part)
       /\ \A i \in 1 .. Len(T[j].part) : U[j].part[i] \in {o, T[j].part[i]}
  /\ Len(U[m].part) \in Nat /\ Len(U[m].part) <= MaxPartno
  /\ p \in 1 .. Len(U[m].part) /\ U[m].part[p] = o
  /\ \A k \in 1 .. Len(U[m].part) :
       k # p => U[m].part[k] = IF k <= Len(old) THEN old[k] ELSE None

\* add_partition's effect on the tables.
LEMMA AddedTable ==
  ASSUME IInv, NEW p \in Partnos, NEW o \in Parts, NEW T, T = expanded(p), NEW m, m = Len(T),
         NEW U, U = WithPart(T, p, o)
  PROVE  Slotted(T, U, m, Current, part_tbl, p, o)
<1>1. /\ Types /\ Listed /\ p \in Nat /\ p \in 1 .. MaxPartno /\ MaxPartno \in Nat
      /\ Current \in Nat /\ Len(part_tbl) \in Nat /\ Len(part_tbl) <= MaxPartno
  <2>1. Types /\ Listed
    BY DEF IInv
  <2>2. MaxPartno \in Nat /\ p \in Nat /\ p \in 1 .. MaxPartno
    BY PartitionsAssumption DEF Partnos
  <2>3. Current \in Nat /\ Len(part_tbl) \in Nat
    BY <2>1, TableTypes
  <2>4. QED
    BY <2>1, <2>2, <2>3 DEF Listed
<1>2. Growth(T, p)
  BY <1>1, Expanded
<1>3. m = Len(T)
  OBVIOUS
<1>4. /\ T \in Seq(TblRec) /\ m \in Nat /\ m >= Current /\ m <= Current + 1
      /\ Len(T[m].part) = IF p <= Len(part_tbl) THEN Len(part_tbl) ELSE p
      /\ \A i \in 1 .. Len(T[m].part) :
           T[m].part[i] = IF i <= Len(part_tbl) THEN part_tbl[i] ELSE None
  BY <1>2, <1>3 DEF Growth
<1>5. m \in 1 .. Len(T) /\ T \in [1 .. Len(T) -> TblRec] /\ Current >= 1
  BY <1>1, <1>3, <1>4, SeqTypes DEF Types
<1>6. PICK a : a = T[m]
  OBVIOUS
<1>7. a \in TblRec /\ a.last_lookup \in Slots /\ p \in 1 .. Len(a.part) /\ o \in Slots
  <2>1. a \in TblRec
    BY <1>5, <1>6
  <2>2. QED
    BY <1>1, <1>4, <1>6, <2>1 DEF TblRec, Slots
<1>8. PICK b : b = WithSlot(a, p, o, a.last_lookup)
  OBVIOUS
<1>9. /\ b \in TblRec /\ b.freed = a.freed /\ b.waits = a.waits
      /\ Len(b.part) = Len(a.part) /\ b.part[p] = o
      /\ \A k \in 1 .. Len(a.part) : k # p => b.part[k] = a.part[k]
  BY <1>7, <1>8, SlotWritten
<1>10. U = [T EXCEPT ![m] = b]
  <2>1. b = [a EXCEPT !.part = [a.part EXCEPT ![p] = o]]
    BY Zenon, <1>7, <1>8 DEF WithSlot, TblRec
  <2>2. QED
    BY <1>3, <1>5, <1>6, <2>1 DEF WithPart
<1>11. /\ U \in Seq(TblRec) /\ Len(U) = m /\ U[m] = b
       /\ \A j \in 1 .. m : j # m => U[j] = T[j]
  <2>1. /\ U \in Seq(TblRec) /\ Len(U) = Len(T)
        /\ \A j \in 1 .. Len(T) : U[j] = IF j = m THEN b ELSE T[j]
    BY <1>4, <1>5, <1>9, <1>10, SeqExcept
  <2>2. QED
    BY <1>3, <1>5, <2>1
<1>12. U[m].part = b.part
  BY <1>11
<1>13. ASSUME NEW j \in 1 .. Current
       PROVE  /\ U[j].freed = T[j].freed /\ U[j].waits = T[j].waits
              /\ Len(U[j].part) = Len(T[j].part)
              /\ \A i \in 1 .. Len(T[j].part) : U[j].part[i] \in {o, T[j].part[i]}
  <2>1. CASE j = m
    <3>1. U[j] = b /\ T[j] = a
      BY <1>6, <1>11, <2>1
    <3>2. \A i \in 1 .. Len(a.part) : b.part[i] \in {o, a.part[i]}
      BY <1>9
    <3>3. QED
      BY Zenon, <1>9, <3>1, <3>2
  <2>2. CASE j # m
    <3>1. U[j] = T[j]
      BY <1>1, <1>4, <1>11, <2>2
    <3>2. QED
      BY <3>1
  <2>3. QED
    BY <2>1, <2>2
<1>14. /\ Len(U[m].part) \in Nat /\ Len(U[m].part) <= MaxPartno
       /\ p \in 1 .. Len(U[m].part) /\ U[m].part[p] = o
       /\ \A k \in 1 .. Len(U[m].part) : k # p =>
            U[m].part[k] = IF k <= Len(part_tbl) THEN part_tbl[k] ELSE None
  <2>1. Len(U[m].part) = IF p <= Len(part_tbl) THEN Len(part_tbl) ELSE p
    BY <1>4, <1>6, <1>9, <1>12
  <2>2. \A k \in 1 .. Len(a.part) :
          k # p => b.part[k] = IF k <= Len(part_tbl) THEN part_tbl[k] ELSE None
    BY <1>4, <1>6, <1>9
  <2>3. QED
    BY <1>1, <1>9, <1>12, <2>1, <2>2
<1>15. QED
  <2>1. U \in Seq(TblRec) /\ Len(U) = m /\ U[m].freed = T[m].freed
    BY <1>6, <1>9, <1>11
  <2>2. QED
    BY <1>13, <1>14, <2>1 DEF Slotted

LEMMA AddPartitionStep ==
  ASSUME Basics, IInv, NEW p \in Partnos, add_partition(p)
  PROVE  IInv'
<1>1. /\ Types /\ Counts /\ Sections /\ Listed /\ ScanAt /\ RegAt /\ Told /\ scan \in ScanRec
      /\ UNCHANGED <<disk, reg, reader>> /\ scan.pc = "add" /\ p = scan.p
      /\ Fits(scan.found[p]) /\ scan' = [scan EXCEPT !.pc = "announce"]
      /\ part \in [Parts -> PartRec]
  BY DEF IInv, Types, add_partition, Adding
<1>2. PICK o : o = CHOOSE f \in Parts : part[f].state = "free"
  OBVIOUS
<1>3. o \in Parts /\ part[o].state = "free" /\ o # None
  <2>1. \E f \in Parts : part[f].state = "free"
    BY DEF add_partition
  <2>2. QED
    BY <1>2, <2>1, PartitionsAssumption
<1>4. PICK T : T = expanded(p)
  OBVIOUS
<1>5. PICK c : c = Added(p, scan.found[p])
  OBVIOUS
<1>6. /\ tables' = WithPart(T, p, o) /\ part' = [part EXCEPT ![o] = c]
  BY Zenon, <1>2, <1>4, <1>5 DEF add_partition, Added, WithPart
<1>7. /\ c \in PartRec /\ c.state = "live" /\ c.partno = p /\ c.refs = 1
      /\ c.size > 0 /\ c.from + c.size <= disk.capacity
  <2>1. scan.found \in Parsed
    BY <1>1 DEF ScanAt
  <2>2. scan.found[p] \in Extents
    BY <2>1 DEF Parsed
  <2>3. QED
    BY <1>1, <1>5, <2>2, NewPart
<1>8. /\ part' \in [Parts -> PartRec] /\ part'[o] = c
      /\ \A q \in Parts : q # o => part'[q] = part[q]
  BY <1>1, <1>3, <1>6, <1>7
<1>9. scan' \in ScanRec /\ scan'.pc = "announce" /\ scan'.held = scan.held /\ scan'.p = p
      /\ scan'.found = scan.found
  BY <1>1 DEF ScanRec
<1>10. /\ tables' \in Seq(TblRec) /\ Len(tables') = Len(T) /\ Current' = Len(T)
       /\ tables'[Len(T)].freed = T[Len(T)].freed
       /\ \A j \in 1 .. Current :
            /\ tables'[j].freed = T[j].freed /\ tables'[j].waits = T[j].waits
            /\ Len(tables'[j].part) = Len(T[j].part)
            /\ \A i \in 1 .. Len(T[j].part) : tables'[j].part[i] \in {o, T[j].part[i]}
       /\ Len(part_tbl') \in Nat /\ Len(part_tbl') <= MaxPartno
       /\ p \in 1 .. Len(part_tbl') /\ part_tbl'[p] = o
       /\ \A k \in 1 .. Len(part_tbl') : k # p =>
            part_tbl'[k] = IF k <= Len(part_tbl) THEN part_tbl[k] ELSE None
  <2>1. PICK U : U = WithPart(T, p, o)
    OBVIOUS
  <2>2. Slotted(T, U, Len(T), Current, part_tbl, p, o)
    BY Zenon, <1>3, <1>4, <2>1, AddedTable
  <2>3. tables' = U /\ Current' = Len(T) /\ part_tbl' = U[Len(T)].part
    BY <1>6, <2>1, <2>2 DEF Slotted, Current, part_tbl
  <2>4. QED
    BY <2>2, <2>3 DEF Slotted
<1>11. p \in Nat /\ disk.stage = "up" /\ Len(part_tbl) \in Nat
  BY <1>1, TableTypes DEF Partnos, ScanAt
<1>12. Types'
  <2>1. Len(T) >= Current /\ Current >= 1 /\ Current \in Nat /\ Len(T) \in Nat
    <3>1. Growth(T, p)
      BY <1>1, <1>4, <1>11, Expanded
    <3>2. QED
      BY <1>1, <3>1, TableTypes DEF Growth, Types
  <2>2. Current' >= 1
    <3>1. Current' = Len(T)
      BY Zenon, <1>10
    <3>2. Len(T) >= 1
      BY <2>1
    <3>3. QED
      BY <3>1, <3>2
  <2>3. QED
    BY <1>1, <1>8, <1>9, <1>10, <2>2 DEF Types
<1>13. Counts'
  <2>1. Others' = Others
    BY <1>1, <1>9, HeldMoves
  <2>2. Others[o] = 0
    BY <1>1, <1>3, OthersNat DEF Counts, Exact, Own, Alive
  <2>3. Exact(part', Others)
    BY <1>1, <1>7, <1>8, <2>2 DEF Counts, Exact, Own, Alive
  <2>4. QED
    BY <2>1, <2>3 DEF Counts
<1>14. Sections'
  <2>1. \A r \in InSection, q \in Parts : Safe(part, r, q) => Safe(part', r, q)
    BY <1>3, <1>8 DEF Safe
  <2>2. \A j \in 1 .. Current :
          /\ tables'[j].freed = T[j].freed /\ tables'[j].waits = T[j].waits
          /\ Len(tables'[j].part) = Len(T[j].part)
          /\ \A i \in 1 .. Len(T[j].part) : \/ tables'[j].part[i] = T[j].part[i]
                                            \/ part'[tables'[j].part[i]].state = "live"
    BY <1>7, <1>8, <1>10
  <2>3. UNCHANGED <<reader, disk>> /\ disk.stage # "released"
    BY <1>1, <1>11
  <2>4. Len(tables') = Len(T) /\ tables'[Len(T)].freed = T[Len(T)].freed
    BY <1>10
  <2>5. QED
    BY <1>1, <1>4, <1>11, <2>1, <2>2, <2>3, <2>4, SectionsGrow
<1>15. ASSUME NEW k \in 1 .. Len(part_tbl'), k # p, part_tbl'[k] # None
       PROVE  /\ k \in 1 .. Len(part_tbl) /\ part_tbl'[k] = part_tbl[k]
              /\ part'[part_tbl[k]] = part[part_tbl[k]]
  <2>1. k \in 1 .. Len(part_tbl) /\ part_tbl'[k] = part_tbl[k]
    BY <1>10, <1>11, <1>15
  <2>2. part_tbl[k] \in Parts /\ part[part_tbl[k]].state = "live"
    BY <1>1, <1>15, <2>1, TableTypes DEF Slots, Listed
  <2>3. QED
    BY <1>3, <1>8, <2>1, <2>2
<1>16. Listed'
  <2>1. ASSUME NEW k \in 1 .. Len(part_tbl'), part_tbl'[k] # None
        PROVE  /\ part'[part_tbl'[k]].state = "live" /\ part'[part_tbl'[k]].partno = k
               /\ part'[part_tbl'[k]].size > 0
               /\ part'[part_tbl'[k]].from + part'[part_tbl'[k]].size <= disk.capacity
    <3>1. CASE k = p
      BY <1>7, <1>8, <1>10, <3>1
    <3>2. CASE k # p
      BY <1>1, <1>15, <2>1, <3>2 DEF Listed
    <3>3. QED
      BY <3>1, <3>2
  <2>2. QED
    BY <1>1, <1>10, <2>1 DEF Listed
<1>17. ScanAt'
  BY <1>1, <1>3, <1>9, <1>10, <1>11 DEF ScanAt
<1>18. RegAt'
  BY <1>1, <1>11 DEF RegAt
<1>19. Told'
  BY <1>1, <1>9, <1>15 DEF Told
<1>20. QED
  BY <1>12, <1>13, <1>14, <1>16, <1>17, <1>18, <1>19 DEF IInv
=============================================================================
