------------------------------- MODULE Logger -------------------------------
(***************************************************************************)
(* The Android log driver (patches/kernel/logger.c): one ring of bytes     *)
(* (struct logger_log) shared by writers and by open readers, every access *)
(* under log->mutex.  A handler is cut where it drops the mutex; the two   *)
(* loops that walk entries (get_next_entry, get_next_entry_by_uid) take    *)
(* one step per entry while the mutex is held.                             *)
(*                                                                         *)
(* A byte of the ring is <<n, k>>: byte k of the n-th committed entry, or  *)
(* Scrap, a byte of no committed entry.  entries, wabs, idx and got are    *)
(* history variables: what was written where, counted without wrapping,    *)
(* the entry each cursor stands on, and the last entry a reader was given. *)
(***************************************************************************)
EXTENDS Integers, Sequences, FiniteSets

CONSTANTS
  Size,        \* log->size, in bytes; a power of two
  HdrLen,      \* sizeof(struct logger_entry)
  MaxPayload,  \* LOGGER_ENTRY_MAX_PAYLOAD
  Counts,      \* the lengths writers ask for: iov_iter_count(from)
  Writers, Readers,
  Uids,        \* effective uids of writers and of unprivileged readers
  All,         \* stands for the uid of a reader with r_all set
  Start,       \* the cursor log->head, where a new reader starts
  Free,        \* log->mutex is not held
  MaxWrites    \* bound: committed entries in a behaviour

\* The comment on create_log asks for no more than this of the size.
ASSUME SizeAssumption ==
  /\ Size \in Nat /\ HdrLen \in Nat \ {0} /\ MaxPayload \in Nat \ {0}
  /\ Size > MaxPayload + HdrLen
ASSUME SetsAssumption ==
  /\ Counts \subseteq Nat /\ MaxWrites \in Nat
  /\ All \notin Uids /\ Start \notin Readers
  /\ Free \notin Writers /\ Writers \cap (Readers \X {"read", "poll"}) = {}
  /\ Free \notin Readers \X {"read", "poll"}

VARIABLES
  buffer, w_off,
  r_off,     \* reader->r_off of every reader, and log->head as r_off[Start]
  r_uid,     \* All for a reader with r_all, else the euid it reads with
  mutex,     \* Free, a writer, <<r, "read">> or <<r, "poll">>
  wpc, rpc,  \* where each writer and each reader's read() is
  req,       \* the header each writer is adding: len and euid
  todo, count, \* fix_up_readers: cursors still to pull; bytes the first skipped
  asleep,    \* readers queued on log->wq and not yet woken
  entries, wabs, idx, got

vars == <<buffer, w_off, r_off, r_uid, mutex, wpc, rpc, req, todo, count,
          asleep, entries, wabs, idx, got>>

Cursors == Readers \cup {Start}
Offsets == 0 .. Size - 1
Scrap   == <<0, 0>>
NoReq   == [len |-> MaxPayload, euid |-> All]
N       == Len(entries)

\* Readers on the list log->readers, and with log->head every live cursor.
Open == {r \in Readers : rpc[r] # "closed"}
Live == Open \cup {Start}

----------------------------------------------------------------------------
(* The pure parts. *)

\* n & (size - 1), with size a power of two.
logger_offset(n) == n % Size

\* The payload length in the header at off.  Bytes that are no header read as
\* some number; OnEntries excludes it.
get_entry_msg_len(off) ==
  IF buffer[off] # Scrap /\ buffer[off][2] = 0
    THEN entries[buffer[off][1]].len ELSE MaxPayload

get_entry_euid(off) ==
  IF buffer[off] # Scrap /\ buffer[off][2] = 0
    THEN entries[buffer[off][1]].euid ELSE All

is_between(a, b, c) ==
  IF a < b THEN a < c /\ c <= b ELSE c <= b \/ a < c

\* LOGGER_GET_LOG_LEN: bytes between the reader and the write offset.
get_log_len(r) ==
  IF w_off >= r_off[r] THEN w_off - r_off[r] ELSE (Size - r_off[r]) + w_off

Total(w) == HdrLen + req[w].len

\* The do-while condition of get_next_entry, and a walk of one entry only.
Short_never(n, len) == FALSE

Short(n, len) == n < len

\* wake_up_interruptible empties the queue; without the call all sleep on.
wake_up_none(q) == q

wake_up_interruptible(q) == {}

\* The cursor fix_up_readers is working on.
Lapped == CHOOSE c \in todo : TRUE

\* The ring after t bytes of entry n are put at w_off.
Put(n, t) ==
  [o \in Offsets |->
     LET k == IF o >= w_off THEN o - w_off ELSE o - w_off + Size
     IN IF k < t THEN IF n = 0 THEN Scrap ELSE <<n, k>> ELSE buffer[o]]

----------------------------------------------------------------------------
Init ==
  /\ buffer = [o \in Offsets |-> Scrap] /\ w_off = 0
  /\ r_off = [c \in Cursors |-> 0]
  /\ r_uid = [r \in Readers |-> All]
  /\ mutex = Free
  /\ wpc = [w \in Writers |-> "idle"] /\ rpc = [r \in Readers |-> "closed"]
  /\ req = [w \in Writers |-> NoReq]
  /\ todo = {} /\ count = 0 /\ asleep = {}
  /\ entries = <<>> /\ wabs = 0
  /\ idx = [c \in Cursors |-> 1] /\ got = [r \in Readers |-> 0]

(* logger_write_iter.  A null write returns 0 before it takes the mutex. *)

\* fix_up_readers that forgets the start head.
fix_up_readers_not_head(len) ==
  {r \in Open : is_between(w_off, logger_offset(w_off + len), r_off[r])}

\* fix_up_readers, first half: the cursors the new entry would run over.
fix_up_readers(len) ==
  {c \in Live : is_between(w_off, logger_offset(w_off + len), r_off[c])}

WriteBegin(w, c, u) ==
  /\ wpc[w] = "idle" /\ mutex = Free /\ N < MaxWrites
  /\ c > 0
  /\ LET len == IF c > MaxPayload THEN MaxPayload ELSE c
     IN /\ req' = [req EXCEPT ![w] = [len |-> len, euid |-> u]]
        /\ todo' = fix_up_readers(HdrLen + len) /\ count' = 0
  /\ mutex' = w /\ wpc' = [wpc EXCEPT ![w] = "fixup"]
  /\ UNCHANGED <<buffer, w_off, r_off, r_uid, rpc, asleep, entries, wabs, idx, got>>

\* get_next_entry, one turn of its do-while for one lapped cursor.
get_next_entry(w) ==
  /\ wpc[w] = "fixup" /\ todo # {}
  /\ LET c  == Lapped
         nr == HdrLen + get_entry_msg_len(r_off[c])
     IN /\ r_off' = [r_off EXCEPT ![c] = logger_offset(@ + nr)]
        /\ idx' = [idx EXCEPT ![c] = @ + 1]
        /\ IF Short(count + nr, Total(w))
             THEN count' = count + nr /\ UNCHANGED todo
             ELSE count' = 0 /\ todo' = todo \ {c}
  /\ UNCHANGED <<buffer, w_off, r_uid, mutex, wpc, rpc, req, asleep, entries, wabs, got>>

\* Header and payload are in the ring: commit w_off and drop the mutex.
WriteCommit(w) ==
  /\ wpc[w] = "fixup" /\ todo = {}
  /\ buffer' = Put(N + 1, Total(w))
  /\ w_off' = logger_offset(logger_offset(w_off + HdrLen) + req[w].len)
  /\ entries' = Append(entries, [off |-> w_off, abs |-> wabs,
                                 len |-> req[w].len, euid |-> req[w].euid])
  /\ wabs' = wabs + Total(w)
  /\ mutex' = Free /\ wpc' = [wpc EXCEPT ![w] = "wake"]
  /\ req' = [req EXCEPT ![w] = NoReq]
  /\ UNCHANGED <<r_off, r_uid, rpc, todo, count, asleep, idx, got>>

\* copy_from_iter failed after the header and k bytes: -EFAULT, w_off stays.
WriteFault(w, k) ==
  /\ wpc[w] = "fixup" /\ todo = {} /\ k < req[w].len
  /\ buffer' = Put(0, HdrLen + k)
  /\ mutex' = Free /\ wpc' = [wpc EXCEPT ![w] = "idle"]
  /\ req' = [req EXCEPT ![w] = NoReq]
  /\ UNCHANGED <<w_off, r_off, r_uid, rpc, todo, count, asleep, entries,
                 wabs, idx, got>>

\* wake_up_interruptible, after the mutex is dropped.
WriteWake(w) ==
  /\ wpc[w] = "wake"
  /\ asleep' = wake_up_interruptible(asleep)
  /\ wpc' = [wpc EXCEPT ![w] = "idle"]
  /\ UNCHANGED <<buffer, w_off, r_off, r_uid, mutex, rpc, req, todo, count,
                 entries, wabs, idx, got>>

----------------------------------------------------------------------------
(* logger_open, logger_release *)

logger_open(r, u) ==
  /\ rpc[r] = "closed" /\ mutex = Free
  /\ r_uid' = [r_uid EXCEPT ![r] = u]
  /\ r_off' = [r_off EXCEPT ![r] = r_off[Start]]
  /\ idx' = [idx EXCEPT ![r] = idx[Start]]
  /\ rpc' = [rpc EXCEPT ![r] = "idle"]
  /\ UNCHANGED <<buffer, w_off, mutex, wpc, req, todo, count, asleep, entries,
                 wabs, got>>

\* The reader is unlinked and freed.
logger_release(r) ==
  /\ rpc[r] = "idle" /\ mutex = Free
  /\ rpc' = [rpc EXCEPT ![r] = "closed"]
  /\ r_off' = [r_off EXCEPT ![r] = 0] /\ idx' = [idx EXCEPT ![r] = 1]
  /\ r_uid' = [r_uid EXCEPT ![r] = All] /\ got' = [got EXCEPT ![r] = 0]
  /\ UNCHANGED <<buffer, w_off, mutex, wpc, req, todo, count, asleep, entries, wabs>>

(* logger_read *)

ReadBegin(r) ==
  /\ rpc[r] = "idle"
  /\ rpc' = [rpc EXCEPT ![r] = "check"]
  /\ UNCHANGED <<buffer, w_off, r_off, r_uid, mutex, wpc, req, todo, count,
                 asleep, entries, wabs, idx, got>>

\* The wait loop up to the unlock.  With nothing to read: O_NONBLOCK or a
\* pending signal returns, otherwise the reader is queued and schedules.
ReadCheck(r) ==
  /\ rpc[r] = "check" /\ mutex = Free
  /\ \/ /\ w_off # r_off[r]
        /\ rpc' = [rpc EXCEPT ![r] = "take"] /\ UNCHANGED asleep
     \/ /\ w_off = r_off[r]
        /\ rpc' = [rpc EXCEPT ![r] = "idle"] /\ UNCHANGED asleep
     \/ /\ w_off = r_off[r]
        /\ rpc' = [rpc EXCEPT ![r] = "sleep"] /\ asleep' = asleep \cup {r}
  /\ UNCHANGED <<buffer, w_off, r_off, r_uid, mutex, wpc, req, todo, count,
                 entries, wabs, idx, got>>

\* schedule() returns: woken by a writer, or by a signal.
ReadResume(r) ==
  /\ rpc[r] = "sleep" /\ r \notin asleep
  /\ rpc' = [rpc EXCEPT ![r] = "check"]
  /\ UNCHANGED <<buffer, w_off, r_off, r_uid, mutex, wpc, req, todo, count,
                 asleep, entries, wabs, idx, got>>

\* The signal's turn of the loop: the log is checked again, else -EINTR.
ReadSignal(r) ==
  /\ rpc[r] = "sleep" /\ mutex = Free
  /\ asleep' = asleep \ {r}
  /\ rpc' = [rpc EXCEPT ![r] = IF w_off # r_off[r] THEN "take" ELSE "idle"]
  /\ UNCHANGED <<buffer, w_off, r_off, r_uid, mutex, wpc, req, todo, count,
                 entries, wabs, idx, got>>

\* The second lock of logger_read; the log may have changed since ReadCheck.
ReadLock(r) ==
  /\ rpc[r] = "take" /\ mutex = Free
  /\ mutex' = <<r, "read">>
  /\ UNCHANGED <<buffer, w_off, r_off, r_uid, wpc, rpc, req, todo, count,
                 asleep, entries, wabs, idx, got>>

\* get_next_entry_by_uid stops at the reader's own entries and at w_off.
AtReadable(r) ==
  \/ r_uid[r] = All
  \/ r_off[r] = w_off
  \/ get_entry_euid(r_off[r]) = r_uid[r]

\* get_next_entry_by_uid, one turn of its loop; every caller stores its
\* result in reader->r_off and holds the mutex throughout.
get_next_entry_by_uid(r, op) ==
  /\ mutex = <<r, op>> /\ ~AtReadable(r)
  /\ r_off' = [r_off EXCEPT ![r] = logger_offset(@ + (HdrLen + get_entry_msg_len(@)))]
  /\ idx' = [idx EXCEPT ![r] = @ + 1]
  /\ UNCHANGED <<buffer, w_off, r_uid, mutex, wpc, rpc, req, todo, count,
                 asleep, entries, wabs, got>>

\* Did we race?  Then wait again.
ReadRaced(r) ==
  /\ mutex = <<r, "read">> /\ r_off[r] = w_off
  /\ mutex' = Free /\ rpc' = [rpc EXCEPT ![r] = "check"]
  /\ UNCHANGED <<buffer, w_off, r_off, r_uid, wpc, req, todo, count, asleep,
                 entries, wabs, idx, got>>

\* The user buffer is too small (-EINVAL) or faults (-EFAULT): r_off stays.
ReadFail(r) ==
  /\ mutex = <<r, "read">> /\ AtReadable(r) /\ r_off[r] # w_off
  /\ mutex' = Free /\ rpc' = [rpc EXCEPT ![r] = "idle"]
  /\ UNCHANGED <<buffer, w_off, r_off, r_uid, wpc, req, todo, count, asleep,
                 entries, wabs, idx, got>>

\* do_read_log_to_user: hands over the entry at r_off and steps past it.
do_read_log_to_user(r) ==
  /\ mutex = <<r, "read">> /\ AtReadable(r) /\ r_off[r] # w_off
  /\ got' = [got EXCEPT ![r] = buffer[r_off[r]][1]]
  /\ r_off' = [r_off EXCEPT ![r] = logger_offset(@ + HdrLen + get_entry_msg_len(@))]
  /\ idx' = [idx EXCEPT ![r] = @ + 1]
  /\ mutex' = Free /\ rpc' = [rpc EXCEPT ![r] = "idle"]
  /\ UNCHANGED <<buffer, w_off, r_uid, wpc, req, todo, count, asleep, entries, wabs>>

(* logger_poll and LOGGER_GET_NEXT_ENTRY_LEN: both move a filtered reader  *)
(* to its next entry, also while another thread of it is inside read().    *)

PollLock(r) ==
  /\ rpc[r] # "closed" /\ r_uid[r] # All /\ mutex = Free
  /\ mutex' = <<r, "poll">>
  /\ UNCHANGED <<buffer, w_off, r_off, r_uid, wpc, rpc, req, todo, count,
                 asleep, entries, wabs, idx, got>>

PollDone(r) ==
  /\ mutex = <<r, "poll">> /\ AtReadable(r)
  /\ mutex' = Free
  /\ UNCHANGED <<buffer, w_off, r_off, r_uid, wpc, rpc, req, todo, count,
                 asleep, entries, wabs, idx, got>>

\* LOGGER_FLUSH_LOG, by a writer that may, empties the log; a rewind to the
\* head instead would not.
flush_off_head == r_off[Start]

flush_off == w_off

logger_flush ==
  /\ mutex = Free
  /\ r_off' = [c \in Cursors |-> IF c \in Live THEN flush_off ELSE r_off[c]]
  /\ idx' = [c \in Cursors |-> IF c \in Live THEN N + 1 ELSE idx[c]]
  /\ UNCHANGED <<buffer, w_off, r_uid, mutex, wpc, rpc, req, todo, count,
                 asleep, entries, wabs, got>>

----------------------------------------------------------------------------
WriterStep(w) ==
  \/ get_next_entry(w) \/ WriteCommit(w) \/ WriteWake(w)
  \/ \E k \in 0 .. MaxPayload - 1 : WriteFault(w, k)

ReadStep(r) ==
  \/ ReadCheck(r) \/ ReadResume(r) \/ ReadLock(r)
  \/ get_next_entry_by_uid(r, "read") \/ ReadRaced(r) \/ ReadFail(r)
  \/ do_read_log_to_user(r)

PollStep(r) == get_next_entry_by_uid(r, "poll") \/ PollDone(r)

Next ==
  \/ \E w \in Writers : \/ WriterStep(w)
                        \/ \E c \in Counts, u \in Uids : WriteBegin(w, c, u)
  \/ \E r \in Readers : \/ ReadStep(r) \/ PollStep(r)
                        \/ \E u \in Uids \cup {All} : logger_open(r, u)
                        \/ logger_release(r) \/ ReadBegin(r) \/ ReadSignal(r)
                        \/ PollLock(r)
  \/ logger_flush

Spec == Init /\ [][Next]_vars

\* Whoever holds the mutex or was woken goes on; a read() that waits for the
\* mutex gets it, since the kernel queues its waiters in order.  Nothing is
\* assumed of who starts an operation.
FairSpec ==
  /\ Spec
  /\ \A w \in Writers : WF_vars(WriterStep(w))
  /\ \A r \in Readers : SF_vars(ReadStep(r)) /\ WF_vars(PollStep(r))

----------------------------------------------------------------------------
(* Properties *)

TypeOK ==
  /\ buffer \in [Offsets -> Nat \X Nat] /\ w_off \in Offsets
  /\ r_off \in [Cursors -> Offsets]
  /\ r_uid \in [Readers -> Uids \cup {All}]
  /\ mutex \in {Free} \cup Writers \cup (Readers \X {"read", "poll"})
  /\ wpc \in [Writers -> {"idle", "fixup", "wake"}]
  /\ rpc \in [Readers -> {"closed", "idle", "check", "sleep", "take"}]
  /\ req \in [Writers -> [len : 1 .. MaxPayload, euid : Uids \cup {All}]]
  /\ todo \subseteq Live /\ count \in Nat /\ asleep \subseteq Open
  /\ entries \in Seq([off : Offsets, abs : Nat, len : 1 .. MaxPayload, euid : Uids])
  /\ wabs \in Nat /\ idx \in [Cursors -> Nat \ {0}] /\ got \in [Readers -> Nat]

\* Where entry n starts in the ring, and the write offset for n = N + 1.
StartOff(n) == IF n = N + 1 THEN w_off ELSE entries[n].off
StartAbs(n) == IF n = N + 1 THEN wabs ELSE entries[n].abs
Length(n)   == HdrLen + entries[n].len

\* fix_up_readers and every read keep the head and each open reader on the
\* first byte of an entry that was committed and not overwritten, or at
\* w_off: a header is never looked for where there is none.
OnEntries ==
  \A c \in Live : /\ idx[c] \in 1 .. N + 1
                  /\ r_off[c] = StartOff(idx[c])
                  /\ r_off[c] # w_off => buffer[r_off[c]] = <<idx[c], 0>>

\* Every byte of every entry a cursor has still to pass is as its writer left
\* it, whatever was written, torn by a fault or overwritten since: a reader
\* is never given part of one message and part of another.
UnreadIntact ==
  \A c \in Live : \A n \in idx[c] .. N : \A k \in 0 .. Length(n) - 1 :
    buffer[logger_offset(entries[n].off + k)] = <<n, k>>

\* LOGGER_GET_LOG_LEN is the number of bytes of the entries a reader has not
\* passed; in particular w_off = r_off never hides a full ring.
LogLenIsUnread ==
  \A r \in Open : get_log_len(r) = wabs - StartAbs(idx[r])

\* Between two opens of a file, read() hands out entries in the order they
\* were written and none twice, across polls, flushes and overruns.  A reader
\* without r_all is handed only entries of its own uid, although the uid walk
\* and the wait before it are separate critical sections.
ReadsInOrder ==
  [][\A r \in Readers : do_read_log_to_user(r) =>
       /\ got'[r] > got[r]
       /\ r_uid[r] \in {All, entries[got'[r]].euid}]_vars

Reading(r)  == rpc[r] \in {"check", "sleep", "take"}
Readable(r) == \E n \in idx[r] .. N : r_uid[r] \in {All, entries[n].euid}

\* A read() for which there is an entry returns, unless the entry is
\* overwritten or flushed first: no wake-up is lost between the check of
\* w_off and schedule().
ReadReturns ==
  \A r \in Readers :
    (Reading(r) /\ Readable(r)) ~> (~Reading(r) \/ ~Readable(r))
=============================================================================
