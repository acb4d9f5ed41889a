----------------------------- MODULE Partitions -----------------------------
(***************************************************************************)
(* The partition table of one disk (patches/kernel/genhd.c and             *)
(* partition-generic.c): scans that drop and add partitions under          *)
(* bd_mutex, register_disk that announces them, del_gendisk that removes   *)
(* them, and readers that find partitions under RCU alone.                 *)
(*                                                                         *)
(* A partition (struct hd_struct) is an object of Parts with a device      *)
(* reference count; a table (struct disk_part_tbl) is replaced, never      *)
(* grown, so a reader may still use an old one.  part0, the whole disk, is *)
(* not in the model: it lives and dies with the disk.  bd_mutex, RCU, the  *)
(* driver, the partition parser and the openers of partitions are          *)
(* external.  del_gendisk takes no bd_mutex; that its caller lets no scan  *)
(* run beside it is assumed.                                               *)
(***************************************************************************)
EXTENDS Integers, Sequences, FiniteSets, FiniteSetsExt

CONSTANTS
  Parts,          \* the memory for struct hd_struct
  None,           \* no partition
  MaxPartno,      \* disk_max_parts - 1
  Readers,        \* threads that look partitions up
  Sectors,        \* the sectors readers map
  Capacities,     \* the sizes the driver may report
  Native,         \* the size of the disk once native capacity is unlocked
  SectorMax,      \* the values of a sector_t, 2^64 in the code
  Scans,          \* what check_partition may return
  Programs        \* the readers, and the scans besides register_disk's own

Partnos == 1 .. MaxPartno

\* What the parsers find ends at a sector that has a number.
Extents == {e \in [from : Nat, size : Nat] : e.from + e.size < SectorMax}

\* A parsed table: err is "ok", "none", "EIO" or "ENOSPC", eod says that the
\* parser read beyond the end, parts gives a start and a size (0: unused).
ASSUME PartitionsAssumption ==
  /\ None \notin Parts /\ MaxPartno \in Nat /\ IsFiniteSet(Readers) /\ Native \in Nat
  /\ SectorMax \in Nat \ {0}
  /\ Programs \subseteq [readers : SUBSET Readers, scans : Nat]
  /\ Capacities \subseteq 0 .. Native
  /\ Scans \subseteq [err : {"ok", "none", "EIO", "ENOSPC"}, eod : BOOLEAN,
                      parts : [Partnos -> Extents]]

VARIABLES
  disk,           \* capacity, native, suppress, invalidated and stage of the disk
  tables,         \* every part_tbl the disk has had; the last one is current
  part,           \* part[o]: the struct hd_struct at o
  scan,           \* the scan that holds bd_mutex
  reg,            \* register_disk, later del_gendisk
  reader,         \* reader[r]
  scans,          \* scans begun
  program         \* the program that runs

vars == <<disk, tables, part, scan, reg, reader, scans, program>>

Free == [state |-> "free", partno |-> 0, from |-> 0, size |-> 0, refs |-> 0,
         announced |-> FALSE, waits |-> {}]
NoScan == [pc |-> "idle", op |-> "none", p |-> 1, held |-> None, found |-> None]
IdleReader == [pc |-> "idle", tbl |-> 0, part |-> None]

Current == Len(tables)
part_tbl == tables[Current].part
Held(o) == part[o].state # "free"

------------------------------------------------------------------------------
(* References and RCU.                                                      *)

\* Readers inside rcu_read_lock.
InSection == {r \in Readers : reader[r].pc \in {"locked", "got", "found", "mapped", "cached"}}

\* put_device: the last reference runs part_release.
put_device(ps, o) ==
  IF o = None THEN ps
  ELSE IF ps[o].refs = 1 THEN [ps EXCEPT ![o] = Free] ELSE [ps EXCEPT ![o].refs = @ - 1]

get_device(ps, o) == IF o = None THEN ps ELSE [ps EXCEPT ![o].refs = @ + 1]

\* Variant: the partition is released without a grace period.
grace_over_at_once(waits) == TRUE

grace_over(waits) == waits = {}

\* hd_struct_put by the last user, an I/O in flight perhaps: __delete_partition.
HdPut(o) ==
  /\ part[o].state = "unlinked"
  /\ part' = [part EXCEPT ![o].state = "dying", ![o].waits = InSection]
  /\ UNCHANGED <<disk, tables, scan, reg, reader, scans, program>>

delete_partition_rcu_cb(o) ==
  /\ part[o].state = "dying" /\ grace_over(part[o].waits)
  /\ part' = put_device([part EXCEPT ![o].state = "gone", ![o].from = 0, ![o].size = 0], o)
  /\ UNCHANGED <<disk, tables, scan, reg, reader, scans, program>>

\* kfree_rcu of a replaced table.
FreeTable(i) ==
  /\ i < Current /\ ~tables[i].freed /\ tables[i].waits = {}
  /\ tables' = [tables EXCEPT ![i].freed = TRUE, ![i].part = <<>>, ![i].last_lookup = None]
  /\ UNCHANGED <<disk, part, scan, reg, reader, scans, program>>

------------------------------------------------------------------------------
(* Readers.                                                                 *)

sector_in_part(o, sector) ==
  part[o].from <= sector /\ sector < part[o].from + part[o].size

ReadLock(r) ==
  /\ reader[r].pc = "idle" /\ r \in program.readers /\ disk.stage # "released"
  /\ reader' = [reader EXCEPT ![r] = [pc |-> "locked", tbl |-> Current, part |-> None]]
  /\ UNCHANGED <<disk, tables, part, scan, reg, scans, program>>

\* rcu_read_unlock: nothing waits for r any more.
unlocked(r, next) ==
  /\ tables' = [i \in DOMAIN tables |-> [tables[i] EXCEPT !.waits = @ \ {r}]]
  /\ reader' = [reader EXCEPT ![r] = next]

left(ps, r) == [o \in Parts |-> [ps[o] EXCEPT !.waits = @ \ {r}]]

\* disk_get_part, of a partition that may be there.
disk_get_part(r, partno) ==
  LET o == IF partno <= Len(tables[reader[r].tbl].part)
           THEN tables[reader[r].tbl].part[partno] ELSE None
  IN  /\ reader[r].pc = "locked" /\ o # None
      /\ part' = get_device(part, o)
      /\ reader' = [reader EXCEPT ![r].pc = "got", ![r].part = o]
      /\ UNCHANGED <<disk, tables, scan, reg, scans, program>>

\* disk_map_sector_rcu answers from last_lookup.  What a reused or freed
\* hd_struct there contains is anything.
MapCached(r, sector) ==
  LET o == tables[reader[r].tbl].last_lookup IN
  /\ reader[r].pc = "locked" /\ o # None
  /\ Held(o) => sector_in_part(o, sector)
  /\ reader' = [reader EXCEPT ![r].pc = "cached", ![r].part = o]
  /\ UNCHANGED <<disk, tables, part, scan, reg, scans, program>>

\* disk_map_sector_rcu finds the first partition that has the sector ...
MapFind(r, sector) ==
  LET t    == tables[reader[r].tbl]
      hits == {i \in DOMAIN t.part : t.part[i] # None /\ sector_in_part(t.part[i], sector)}
  IN  /\ reader[r].pc = "locked" /\ hits # {}
      /\ t.last_lookup # None /\ Held(t.last_lookup) => ~sector_in_part(t.last_lookup, sector)
      /\ reader' = [reader EXCEPT ![r].pc = "found", ![r].part = t.part[Min(hits)]]
      /\ UNCHANGED <<disk, tables, part, scan, reg, scans, program>>

\* ... and remembers it.
MapStore(r) ==
  /\ reader[r].pc = "found"
  /\ tables' = [tables EXCEPT ![reader[r].tbl].last_lookup = reader[r].part]
  /\ reader' = [reader EXCEPT ![r].pc = "mapped"]
  /\ UNCHANGED <<disk, part, scan, reg, scans, program>>

\* A mapped partition is used inside the section only; a got one is kept.
ReadUnlock(r) ==
  /\ reader[r].pc \in {"locked", "got", "mapped", "cached"}
  /\ part' = left(part, r)
  /\ unlocked(r, IF reader[r].pc = "got"
                 THEN [reader[r] EXCEPT !.pc = "holding", !.tbl = 0] ELSE IdleReader)
  /\ UNCHANGED <<disk, scan, reg, scans, program>>

disk_put_part(r) ==
  /\ reader[r].pc = "holding"
  /\ part' = put_device(part, reader[r].part)
  /\ reader' = [reader EXCEPT ![r] = IdleReader]
  /\ UNCHANGED <<disk, tables, scan, reg, scans, program>>

------------------------------------------------------------------------------
(* Tables and partitions, changed under bd_mutex.                           *)

\* disk_expand_part_tbl: a longer table replaces the current one.
expanded(len) ==
  IF len <= Len(part_tbl) THEN tables
  ELSE Append([tables EXCEPT ![Current].last_lookup = None, ![Current].waits = InSection],
              [part |-> [i \in 1 .. len |-> IF i <= Len(part_tbl) THEN part_tbl[i] ELSE None],
               last_lookup |-> None, freed |-> FALSE, waits |-> {}])

\* delete_partition, by an iterator that holds prev and now takes the next one;
\* device_del tells userspace.
delete_partition(i, prev) ==
  LET o == part_tbl[i] IN
  /\ tables' = [tables EXCEPT ![Current].part[i] = None, ![Current].last_lookup = None]
  /\ part' = [get_device(put_device(part, prev), o)
                EXCEPT ![o].state = "unlinked", ![o].announced = FALSE]

\* The partitions an iterator has still to visit.
Ahead(idx) == {i \in DOMAIN part_tbl : i >= idx /\ part_tbl[i] # None}
Behind(idx) == {i \in DOMAIN part_tbl : i <= idx /\ part_tbl[i] # None}

------------------------------------------------------------------------------
(* rescan_partitions and invalidate_partitions.                             *)

\* The scan returns, and with it the open that register_disk makes.
Ended ==
  /\ scan' = NoScan
  /\ reg' = IF reg.pc = "scan" THEN [reg EXCEPT !.pc = "exit"] ELSE reg

\* An ioctl, or an open that finds the medium changed or gone.
StartScan(op) ==
  /\ scan.pc = "idle" /\ disk.stage = "up" /\ scans < program.scans
  /\ scan' = [NoScan EXCEPT !.pc = "drop", !.op = op]
  /\ scans' = scans + 1
  /\ \E changed \in BOOLEAN : disk' = [disk EXCEPT !.invalidated = @ \/ changed]
  /\ UNCHANGED <<tables, part, reg, reader, program>>

\* Partitions are open, the device cannot be flushed, or nothing changed.
DropRefused ==
  /\ scan.pc = "drop" /\ Ended
  /\ UNCHANGED <<disk, tables, part, reader, scans, program>>

DropBegin ==
  /\ scan.pc = "drop" /\ (scan.op = "invalidate" => disk.invalidated)
  /\ scan' = [scan EXCEPT !.pc = "delete", !.p = 1]
  /\ UNCHANGED <<disk, tables, part, reg, reader, scans, program>>

DropNext ==
  /\ scan.pc = "delete" /\ Ahead(scan.p) # {}
  /\ LET i == Min(Ahead(scan.p)) IN
       /\ delete_partition(i, scan.held)
       /\ scan' = [scan EXCEPT !.p = i + 1, !.held = part_tbl[i]]
  /\ UNCHANGED <<disk, reg, reader, scans, program>>

DropEnd ==
  /\ scan.pc = "delete" /\ Ahead(scan.p) = {}
  /\ part' = put_device(part, scan.held)
  /\ scan' = [scan EXCEPT !.pc = "dropped", !.held = None]
  /\ UNCHANGED <<disk, tables, reg, reader, scans, program>>

invalidate_partitions ==
  /\ scan.pc = "dropped" /\ scan.op = "invalidate"
  /\ disk' = [disk EXCEPT !.capacity = 0, !.invalidated = FALSE]
  /\ Ended
  /\ UNCHANGED <<tables, part, reader, scans, program>>

revalidate_disk ==
  /\ scan.pc = "dropped" /\ scan.op = "rescan"
  /\ \E capacity \in Capacities \cup (IF disk.native THEN {Native} ELSE {}) :
       /\ disk' = [disk EXCEPT !.capacity = capacity, !.invalidated = FALSE]
       /\ IF capacity = 0 THEN Ended
          ELSE scan' = [scan EXCEPT !.pc = "parse"] /\ UNCHANGED reg
  /\ UNCHANGED <<tables, part, reader, scans, program>>

\* disk_unlock_native_capacity succeeds once, with a driver that can; the scan
\* starts again.  native: it has, or the driver cannot.
UnlockNative ==
  /\ ~disk.native
  /\ disk' = [disk EXCEPT !.native = TRUE]
  /\ scan' = [scan EXCEPT !.pc = "drop", !.found = None]
  /\ UNCHANGED <<tables, part, reg, reader, scans, program>>

check_partition(s) ==
  /\ scan.pc = "parse"
  /\ \/ s.err = "ENOSPC" /\ UnlockNative
     \/ s.err = "ok" /\ s.eod /\ UnlockNative
     \/ /\ s.err \in {"none", "EIO"} \/ (s.err = "ENOSPC" /\ disk.native)
        /\ Ended /\ UNCHANGED <<disk, tables, part, reader, scans, program>>
     \/ /\ s.err = "ok" /\ (s.eod => disk.native)
        /\ scan' = [scan EXCEPT !.pc = "expand", !.found = s.parts]
        /\ UNCHANGED <<disk, tables, part, reg, reader, scans, program>>

\* The table grows to the highest partition, memory permitting.
Preallocate ==
  LET used == {p \in Partnos : scan.found[p].size # 0} IN
  /\ scan.pc = "expand"
  /\ tables' \in {tables, expanded(Max(used \cup {0}))}
  /\ scan' = [scan EXCEPT !.pc = "add", !.p = 1]
  /\ UNCHANGED <<disk, part, reg, reader, scans, program>>

end(e) == (e.from + e.size) % SectorMax

\* Variant: a partition that extends beyond the end is added as it is.
limited_never(e) == e.size

\* A partition is limited to the end of the disk.
limited(e) == IF end(e) > disk.capacity THEN disk.capacity - e.from ELSE e.size

Adding(p) == scan.pc = "add" /\ p = scan.p /\ p <= MaxPartno

\* Unused, or beyond the end.
SkipPart(p) ==
  LET e == scan.found[p] IN
  /\ Adding(p)
  /\ \/ e.size = 0
     \/ e.from >= disk.capacity /\ disk.native
  /\ scan' = [scan EXCEPT !.p = p + 1]
  /\ UNCHANGED <<disk, tables, part, reg, reader, scans, program>>

RescanFor(p) ==
  LET e == scan.found[p] IN
  /\ Adding(p) /\ e.size # 0 /\ (e.from >= disk.capacity \/ end(e) > disk.capacity)
  /\ UnlockNative

\* The partition is to be added, perhaps limited.
Fits(e) ==
  e.size # 0 /\ e.from < disk.capacity /\ (end(e) > disk.capacity => disk.native)

\* add_partition fails: no memory, no device number, no directory.  The table
\* may have been expanded by then, and stays so.
AddFails(p) ==
  /\ Adding(p) /\ Fits(scan.found[p])
  /\ tables' \in {tables, expanded(p)}
  /\ scan' = [scan EXCEPT !.p = p + 1]
  /\ UNCHANGED <<disk, part, reg, reader, scans, program>>

\* add_partition up to the point where the partition can be found.
add_partition(p) ==
  LET e    == scan.found[p]
      ptbl == expanded(p)
      o    == CHOOSE f \in Parts : part[f].state = "free"
  IN  /\ Adding(p) /\ Fits(e)
      /\ \E f \in Parts : part[f].state = "free"
      /\ ptbl[Len(ptbl)].part[p] = None
      /\ tables' = [ptbl EXCEPT ![Len(ptbl)].part[p] = o]
      /\ part' = [part EXCEPT ![o] = [Free EXCEPT !.state = "live", !.partno = p, !.refs = 1,
                                                  !.from = e.from, !.size = limited(e)]]
      /\ scan' = [scan EXCEPT !.pc = "announce"]
      /\ UNCHANGED <<disk, reg, reader, scans, program>>

\* The uevent, unless the disk suppresses it; then the next partition.
AnnouncePart ==
  /\ scan.pc = "announce"
  /\ part' = [part EXCEPT ![part_tbl[scan.p]].announced = @ \/ ~disk.suppress]
  /\ scan' = [scan EXCEPT !.pc = "add", !.p = @ + 1]
  /\ UNCHANGED <<disk, tables, reg, reader, scans, program>>

ScanEnd ==
  /\ scan.pc = "add" /\ scan.p > MaxPartno /\ Ended
  /\ UNCHANGED <<disk, tables, part, reader, scans, program>>

rescan_partitions ==
  \/ DropRefused \/ DropBegin \/ DropNext \/ DropEnd
  \/ invalidate_partitions \/ revalidate_disk
  \/ \E s \in Scans : check_partition(s)
  \/ Preallocate
  \/ \E p \in Partnos : SkipPart(p) \/ RescanFor(p) \/ AddFails(p) \/ add_partition(p)
  \/ AnnouncePart \/ ScanEnd

------------------------------------------------------------------------------
(* register_disk and del_gendisk.                                           *)

\* The device is not added and register_disk returns; there is no medium to
\* scan, or no block device for it; or the disk is marked for a scan.
RegStart ==
  /\ reg.pc = "start"
  /\ \/ reg' = [reg EXCEPT !.pc = "failed"] /\ UNCHANGED disk
     \/ reg' = [reg EXCEPT !.pc = "exit"] /\ UNCHANGED disk
     \/ /\ disk.capacity # 0
        /\ reg' = [reg EXCEPT !.pc = "open"]
        /\ disk' = [disk EXCEPT !.invalidated = TRUE]
  /\ UNCHANGED <<tables, part, scan, reader, scans, program>>

\* blkdev_get, under bd_mutex, scans what is still marked; it may fail.
RegOpen ==
  /\ reg.pc = "open" /\ scan.pc = "idle"
  /\ \/ /\ disk.invalidated
        /\ \E op \in {"rescan", "invalidate"} : scan' = [NoScan EXCEPT !.pc = "drop", !.op = op]
        /\ reg' = [reg EXCEPT !.pc = "scan"]
     \/ /\ reg' = [reg EXCEPT !.pc = "exit"]
        /\ UNCHANGED scan
  /\ UNCHANGED <<disk, tables, part, reader, scans, program>>

\* Variant: the disk's uevents stay suppressed.
RegExit_suppressed ==
  /\ reg.pc = "exit"
  /\ reg' = [reg EXCEPT !.pc = "iter", !.idx = 1]
  /\ UNCHANGED <<disk, tables, part, scan, reader, scans, program>>

\* exit: the disk is announced.
RegExit ==
  /\ reg.pc = "exit"
  /\ disk' = [disk EXCEPT !.suppress = FALSE]
  /\ reg' = [reg EXCEPT !.pc = "iter", !.idx = 1]
  /\ UNCHANGED <<tables, part, scan, reader, scans, program>>

\* disk_part_iter_next puts the partition it held and takes the next one.
RegNext ==
  LET left_over == {i \in Ahead(reg.idx) : part[part_tbl[i]].size # 0}
      i         == Min(left_over)
  IN  /\ reg.pc = "iter"
      /\ \/ /\ left_over # {}
            /\ part' = get_device(put_device(part, reg.held), part_tbl[i])
            /\ reg' = [pc |-> "announce", idx |-> i + 1, held |-> part_tbl[i]]
         \/ /\ left_over = {}
            /\ part' = put_device(part, reg.held)
            /\ reg' = [pc |-> "done", idx |-> 0, held |-> None]
      /\ UNCHANGED <<disk, tables, scan, reader, scans, program>>

RegAnnounce ==
  /\ reg.pc = "announce"
  /\ part' = [part EXCEPT ![reg.held].announced = TRUE]
  /\ reg' = [reg EXCEPT !.pc = "iter"]
  /\ UNCHANGED <<disk, tables, scan, reader, scans, program>>

\* del_gendisk visits the partitions from the last to the first.
DelStart ==
  /\ reg.pc \in {"done", "failed"} /\ scan.pc = "idle" /\ disk.stage = "up"
  /\ disk' = [disk EXCEPT !.stage = "deleting"]
  /\ reg' = [reg EXCEPT !.pc = "del", !.idx = Len(part_tbl)]
  /\ UNCHANGED <<tables, part, scan, reader, scans, program>>

DelNext ==
  /\ reg.pc = "del" /\ Behind(reg.idx) # {}
  /\ LET i == Max(Behind(reg.idx)) IN
       /\ delete_partition(i, reg.held)
       /\ reg' = [reg EXCEPT !.idx = i - 1, !.held = part_tbl[i]]
  /\ UNCHANGED <<disk, scan, reader, scans, program>>

DelEnd ==
  /\ reg.pc = "del" /\ Behind(reg.idx) = {}
  /\ part' = put_device(part, reg.held)
  /\ reg' = [pc |-> "end", idx |-> 0, held |-> None]
  /\ disk' = [disk EXCEPT !.capacity = 0, !.stage = "down"]
  /\ UNCHANGED <<tables, scan, reader, scans, program>>

\* disk_release, when nobody refers to the disk.
disk_release ==
  /\ disk.stage = "down" /\ InSection = {}
  /\ disk' = [disk EXCEPT !.stage = "released"]
  /\ tables' = [tables EXCEPT ![Current].last_lookup = None, ![Current].freed = TRUE]
  /\ UNCHANGED <<part, scan, reg, reader, scans, program>>

------------------------------------------------------------------------------
\* alloc_disk_node gives the disk a table with part0 only.
Init ==
  /\ \E capacity \in Capacities, native \in BOOLEAN :
       disk = [capacity |-> capacity, native |-> native, suppress |-> TRUE,
               invalidated |-> FALSE, stage |-> "up"]
  /\ tables = <<[part |-> <<>>, last_lookup |-> None, freed |-> FALSE, waits |-> {}]>>
  /\ part = [o \in Parts |-> Free]
  /\ scan = NoScan /\ reg = [pc |-> "start", idx |-> 0, held |-> None]
  /\ reader = [r \in Readers |-> IdleReader] /\ scans = 0
  /\ program \in Programs

Read(r) ==
  \/ ReadLock(r) \/ ReadUnlock(r) \/ MapStore(r) \/ disk_put_part(r)
  \/ \E p \in Partnos : disk_get_part(r, p)
  \/ \E sector \in Sectors : MapCached(r, sector) \/ MapFind(r, sector)

register_disk == RegStart \/ RegOpen \/ RegExit \/ RegNext \/ RegAnnounce

del_gendisk == DelStart \/ DelNext \/ DelEnd

Next ==
  \/ \E op \in {"rescan", "invalidate"} : StartScan(op)
  \/ rescan_partitions \/ register_disk \/ del_gendisk \/ disk_release
  \/ \E o \in Parts : HdPut(o) \/ delete_partition_rcu_cb(o)
  \/ \E i \in DOMAIN tables : FreeTable(i)
  \/ \E r \in Readers : Read(r)

Spec == Init /\ [][Next]_vars

------------------------------------------------------------------------------
(* Properties.                                                              *)

TypeOK ==
  /\ disk \in [capacity : 0 .. Native, native : BOOLEAN, suppress : BOOLEAN,
               invalidated : BOOLEAN, stage : {"up", "deleting", "down", "released"}]
  /\ \A o \in Parts : /\ part[o].state \in {"free", "live", "unlinked", "dying", "gone"}
                       /\ part[o].partno \in 0 .. MaxPartno /\ part[o].refs \in Nat
                       /\ part[o].waits \subseteq Readers
  /\ \A r \in Readers : reader[r].tbl \in 0 .. Current

\* The references to a partition that somebody will put.
Users(o) == {r \in Readers : reader[r].pc \in {"got", "holding"} /\ reader[r].part = o}
Refs(o) ==
  Cardinality(Users(o)) + (IF scan.held = o THEN 1 ELSE 0) + (IF reg.held = o THEN 1 ELSE 0)
    + (IF part[o].state \in {"live", "unlinked", "dying"} THEN 1 ELSE 0)

\* Whatever is scanned, deleted or replaced meanwhile, a partition that a
\* reader found in a slot of a table, or holds a reference to, and the table it
\* reads, are not freed under it (one that disk_map_sector_rcu takes from
\* last_lookup can be: see MapCached); and the device reference counts are exact, so that
\* every deleted partition is freed in the end, once.
ReadersSafe ==
  /\ TypeOK
  /\ \A r \in InSection : ~tables[reader[r].tbl].freed
  /\ \A r \in Readers : reader[r].pc \in {"got", "found", "mapped", "holding"}
                          => Held(reader[r].part)
  /\ \A r \in InSection, i \in Partnos :
       LET t == tables[reader[r].tbl].part IN
       i <= Len(t) /\ t[i] # None => part[t[i]].state \in {"live", "unlinked", "dying"}
  /\ \A o \in Parts : part[o].refs = Refs(o) /\ (part[o].state = "free" <=> part[o].refs = 0)

\* The partitions in the table are inside the disk, each at its number, also
\* after a scan that was refused half way, restarted with the native capacity,
\* or found another medium: "we limit them to the end of the disk to avoid
\* creating invalid block devices".
WithinDisk ==
  \A i \in DOMAIN part_tbl : part_tbl[i] # None =>
    LET p == part[part_tbl[i]] IN
    p.partno = i /\ p.size > 0 /\ p.from + p.size <= disk.capacity

\* Once register_disk has added the disk, userspace has been told of every
\* partition in the table, by the scan that added it or by register_disk, whichever of
\* them saw the disk's uevents suppressed.
AnnouncedAll ==
  reg.pc = "done" /\ scan.pc # "announce" =>
    \A i \in DOMAIN part_tbl : part_tbl[i] # None => part[part_tbl[i]].announced

===============================================================================
