---------------------------- MODULE LoggerProofs ----------------------------
(***************************************************************************)
(* IInv is inductive: lemmas about one state of Logger, then the steps of  *)
(* readers and of everybody who writes nothing, then the steps of a write. *)
(* With it every entry a cursor has still to pass is in the ring as it was *)
(* written, for every ring with room for two of the longest entries; and a *)
(* reader is handed the entries in order.                                  *)
(***************************************************************************)
EXTENDS LoggerInv, TLAPS

------------------------------------------------------------------------------
(* One state: arithmetic on the ring, where entries and cursors are, moving *)
(* a cursor, and what the invariant implies.                                *)

\* logger_offset's mask takes off one Size at most, for the arguments used.
LEMMA Wrap ==
  ASSUME NEW a \in Offsets, NEW t \in 0 .. Size
  PROVE  logger_offset(a + t) = IF a + t < Size THEN a + t ELSE a + t - Size
<1>1. Size \in Nat /\ Size > 0
  BY SizeAssumption
<1>2. \A n \in 0 .. Size - 1 : n % Size = n
  BY <1>1
<1>3. \A n \in Size .. 2 * Size - 1 : n % Size = n - Size
  BY <1>1
<1>4. QED
  BY <1>1, <1>2, <1>3 DEF logger_offset, Offsets

\* Back stays in the ring.
LEMMA BackInRing ==
  ASSUME NEW a \in Offsets, NEW d \in 0 .. Size
  PROVE  Back(a, d) \in Offsets
BY SizeAssumption DEF Back, Offsets

\* A place d behind the write offset is d + t behind it once t bytes were
\* written.
LEMMA BackShift ==
  ASSUME NEW a \in Offsets, NEW t \in 0 .. Size, NEW d \in 0 .. Size,
         d + t <= Size, 0 < t
  PROVE  Back(logger_offset(a + t), d + t) = Back(a, d)
BY Wrap, SizeAssumption DEF Back, Offsets

\* Going k bytes forward from a place is being k bytes less behind.
LEMMA BackForward ==
  ASSUME NEW a \in Offsets, NEW d \in 0 .. Size - 1, NEW k \in 0 .. d
  PROVE  logger_offset(Back(a, d) + k) = Back(a, d - k)
<1>1. Back(a, d) \in Offsets /\ k \in 0 .. Size
  BY BackInRing, SizeAssumption
<1>2. logger_offset(Back(a, d) + k) =
        IF Back(a, d) + k < Size THEN Back(a, d) + k ELSE Back(a, d) + k - Size
  BY <1>1, Wrap
<1>3. QED
  BY <1>2, SizeAssumption DEF Back, Offsets

\* is_between(w_off, w_off + t, .) holds of the places that t more bytes reach
\* or touch, and of no other.
LEMMA BetweenIsGap ==
  ASSUME NEW a \in Offsets, NEW t \in 1 .. Size - 1, NEW d \in 0 .. Size - 1
  PROVE  is_between(a, logger_offset(a + t), Back(a, d)) <=> Size - d <= t
<1>1. logger_offset(a + t) = IF a + t < Size THEN a + t ELSE a + t - Size
  BY Wrap, SizeAssumption
<1>2. QED
  BY <1>1, SizeAssumption DEF Back, Offsets, is_between

----------------------------------------------------------------------------
(* What the invariant says of one state. *)

\* Types of the history of entries.
LEMMA EntryTypes ==
  ASSUME TypeOK
  PROVE  /\ N \in Nat /\ wabs \in Nat /\ w_off \in Offsets
         /\ \A n \in 1 .. N : /\ entries[n].off \in Offsets
                              /\ entries[n].abs \in Nat
                              /\ entries[n].len \in 1 .. MaxPayload
                              /\ entries[n].euid \in Uids
         /\ \A n \in 1 .. N : Length(n) \in Nat /\ Length(n) > 0
         /\ \A n \in 1 .. N + 1 : StartAbs(n) \in Nat /\ StartOff(n) \in Offsets
<1> DEFINE S == [off : Offsets, abs : Nat, len : 1 .. MaxPayload, euid : Uids]
<1>0. entries \in Seq(S) /\ wabs \in Nat /\ w_off \in Offsets
  BY DEF TypeOK
<1>1. N \in Nat /\ \A n \in 1 .. N : entries[n] \in S
  <2> HIDE DEF S
  <2>1. QED
    BY <1>0 DEF N
<1>2. \A n \in 1 .. N : /\ entries[n].off \in Offsets
                        /\ entries[n].abs \in Nat
                        /\ entries[n].len \in 1 .. MaxPayload
                        /\ entries[n].euid \in Uids
  BY <1>1
<1>3. \A n \in 1 .. N : Length(n) \in Nat /\ Length(n) > 0
  BY <1>2, SizeAssumption DEF Length
<1>4. \A n \in 1 .. N + 1 : StartAbs(n) \in Nat /\ StartOff(n) \in Offsets
  BY <1>0, <1>1, <1>2 DEF StartAbs, StartOff
<1>5. QED
  BY <1>0, <1>1, <1>2, <1>3, <1>4

\* A whole entry lies between its start and the write offset.
LEMMA EntryBehind ==
  ASSUME TypeOK, Chain, NEW n \in 1 .. N
  PROVE  /\ wabs - StartAbs(n) >= Length(n)
         /\ StartAbs(n + 1) = StartAbs(n) + Length(n)
         /\ StartAbs(n + 1) <= wabs
<1>1. n + 1 \in 1 .. N + 1 /\ N + 1 \in 1 .. N + 1 /\ n + 1 <= N + 1
  BY EntryTypes
<1>2. StartAbs(n + 1) <= StartAbs(N + 1)
  BY <1>1 DEF Chain
<1>3. StartAbs(N + 1) = wabs
  BY DEF StartAbs
<1>4. StartAbs(n + 1) = StartAbs(n) + Length(n)
  BY DEF Chain
<1>5. StartAbs(n) \in Nat /\ Length(n) \in Nat /\ wabs \in Nat
  BY EntryTypes
<1>6. QED
  BY <1>2, <1>3, <1>4, <1>5

\* How far behind a cursor is, and that w_off = r_off says there is nothing
\* to read.
LEMMA CursorPlace ==
  ASSUME TypeOK, Chain, Placed, NEW c \in Live
  PROVE  /\ wabs - StartAbs(idx[c]) \in 0 .. Size - 1
         /\ r_off[c] = Back(w_off, wabs - StartAbs(idx[c]))
         /\ r_off[c] = w_off <=> idx[c] = N + 1
         /\ idx[c] # N + 1 => idx[c] \in 1 .. N
<1> DEFINE d == wabs - StartAbs(idx[c])
<1>1. /\ idx[c] \in 1 .. N + 1 /\ r_off[c] = StartOff(idx[c]) /\ d < Size
  BY DEF Placed
<1>2. N \in Nat /\ wabs \in Nat /\ StartAbs(idx[c]) \in Nat /\ w_off \in Offsets
  BY <1>1, EntryTypes
<1>3. Size \in Nat
  BY SizeAssumption
<1>4. CASE idx[c] = N + 1
  <2>1. d = 0 /\ r_off[c] = w_off
    BY <1>1, <1>2, <1>4 DEF StartAbs, StartOff
  <2>2. QED
    BY <2>1, <1>1, <1>2, <1>3, <1>4 DEF Back, Offsets
<1>5. CASE idx[c] # N + 1
  <2>1. idx[c] \in 1 .. N
    BY <1>1, <1>2, <1>5
  <2>2. d >= Length(idx[c]) /\ Length(idx[c]) \in Nat /\ Length(idx[c]) > 0
    BY <2>1, EntryBehind, EntryTypes
  <2>3. d \in 1 .. Size - 1
    BY <2>2, <1>1, <1>2, <1>3
  <2>4. r_off[c] = Back(w_off, d)
    BY <1>1, <2>3, <1>3 DEF Chain
  <2>5. r_off[c] # w_off
    BY <2>4, <2>3, <1>2, <1>3 DEF Back, Offsets
  <2>6. QED
    BY <2>1, <2>3, <2>4, <2>5, <1>5
<1>6. QED
  BY <1>4, <1>5

\* A cursor short of the write offset finds the header of its entry there.
LEMMA HeaderRead ==
  ASSUME TypeOK, Chain, Placed, Intact, NEW c \in Live, idx[c] # N + 1
  PROVE  /\ buffer[r_off[c]] = <<idx[c], 0>>
         /\ get_entry_msg_len(r_off[c]) = entries[idx[c]].len
         /\ get_entry_euid(r_off[c]) = entries[idx[c]].euid
<1>1. idx[c] \in 1 .. N /\ r_off[c] = Back(w_off, wabs - StartAbs(idx[c]))
  BY CursorPlace
<1>2. N \in Nat /\ Length(idx[c]) \in Nat /\ Length(idx[c]) > 0
      /\ wabs - StartAbs(idx[c]) \in Int
  BY <1>1, EntryTypes
<1>3. idx[c] \in idx[c] .. N /\ 0 \in 0 .. Length(idx[c]) - 1
  BY <1>1, <1>2
<1>4. buffer[Back(w_off, wabs - StartAbs(idx[c]) - 0)] = <<idx[c], 0>>
  BY <1>3 DEF Intact
<1>5. wabs - StartAbs(idx[c]) - 0 = wabs - StartAbs(idx[c])
  BY <1>2
<1>6. buffer[r_off[c]] = <<idx[c], 0>>
  BY <1>1, <1>4, <1>5
<1>7. <<idx[c], 0>> # Scrap /\ <<idx[c], 0>>[1] = idx[c] /\ <<idx[c], 0>>[2] = 0
  BY <1>1 DEF Scrap
<1>8. QED
  BY <1>6, <1>7 DEF get_entry_msg_len, get_entry_euid

\* Stepping over that entry lands on the next, or on the write offset.
LEMMA StepOver ==
  ASSUME TypeOK, Chain, Placed, NEW c \in Live, idx[c] # N + 1
  PROVE  /\ idx[c] + 1 \in 1 .. N + 1
         /\ logger_offset(r_off[c] + Length(idx[c])) = StartOff(idx[c] + 1)
         /\ wabs - StartAbs(idx[c] + 1) = wabs - StartAbs(idx[c]) - Length(idx[c])
         /\ wabs - StartAbs(idx[c] + 1) < Size
<1> DEFINE d == wabs - StartAbs(idx[c])
           l == Length(idx[c])
<1>1. idx[c] \in 1 .. N /\ d \in 0 .. Size - 1 /\ r_off[c] = Back(w_off, d)
  BY CursorPlace
<1>2. /\ N \in Nat /\ wabs \in Nat /\ l \in Nat /\ w_off \in Offsets /\ l > 0
      /\ StartAbs(idx[c]) \in Nat /\ Size \in Nat
  BY <1>1, EntryTypes, SizeAssumption
<1>3. d >= l /\ StartAbs(idx[c] + 1) = StartAbs(idx[c]) + l
  BY <1>1, EntryBehind
<1>4. idx[c] + 1 \in 1 .. N + 1
  BY <1>1, <1>2
<1>5. wabs - StartAbs(idx[c] + 1) = d - l
  BY <1>2, <1>3
<1>6. l \in 0 .. d /\ d - l <= Size /\ d - l < Size
  BY <1>1, <1>2, <1>3
<1>7. logger_offset(Back(w_off, d) + l) = Back(w_off, d - l)
  BY <1>1, <1>2, <1>6, BackForward
<1>8. StartOff(idx[c] + 1) = Back(w_off, d - l)
  BY <1>4, <1>5, <1>6 DEF Chain
<1>9. QED
  BY <1>1, <1>4, <1>5, <1>6, <1>7, <1>8

----------------------------------------------------------------------------
(* Steps that leave the ring alone and only move cursors. *)

\* A cursor may take the place of another, step over one entry, or jump to
\* the write offset; the ring facts stay true.
LEMMA MoveCursors ==
  ASSUME TypeOK, Chain, Placed, Intact, UNCHANGED <<buffer, w_off, entries, wabs>>,
         \A c \in Live' :
           \/ idx'[c] = N + 1 /\ r_off'[c] = w_off
           \/ \E d \in Live : idx'[c] = idx[d] /\ r_off'[c] = r_off[d]
           \/ \E d \in Live : /\ idx[d] # N + 1 /\ idx'[c] = idx[d] + 1
                              /\ r_off'[c] = logger_offset(r_off[d] + Length(idx[d]))
  PROVE  Chain' /\ Placed' /\ Intact'
<1>1. Chain'
  BY DEF Chain, StartAbs, StartOff, Length, N, Back
<1>2. ASSUME NEW c \in Live'
      PROVE  /\ idx'[c] \in 1 .. N + 1 /\ r_off'[c] = StartOff(idx'[c])
             /\ wabs - StartAbs(idx'[c]) < Size
             /\ \A n \in idx'[c] .. N : \A k \in 0 .. Length(n) - 1 :
                  buffer[Back(w_off, wabs - StartAbs(n) - k)] = <<n, k>>
  <2>0. N \in Nat /\ wabs \in Nat /\ Size \in Nat /\ Size > 0
    BY EntryTypes, SizeAssumption
  <2>1. CASE idx'[c] = N + 1 /\ r_off'[c] = w_off
    <3>1. StartOff(N + 1) = w_off /\ StartAbs(N + 1) = wabs
      BY DEF StartOff, StartAbs
    <3>2. (N + 1) .. N = {} /\ N + 1 \in 1 .. N + 1 /\ wabs - wabs < Size
      BY <2>0
    <3>3. QED
      BY <2>1, <3>1, <3>2
  <2>2. ASSUME NEW d \in Live, idx'[c] = idx[d], r_off'[c] = r_off[d]
        PROVE  <1>2!2
    BY <2>2 DEF Placed, Intact
  <2>3. ASSUME NEW d \in Live, idx[d] # N + 1, idx'[c] = idx[d] + 1,
               r_off'[c] = logger_offset(r_off[d] + Length(idx[d]))
        PROVE  <1>2!2
    <3>1. /\ idx[d] + 1 \in 1 .. N + 1 /\ wabs - StartAbs(idx[d] + 1) < Size
          /\ r_off'[c] = StartOff(idx[d] + 1)
      BY <2>3, StepOver
    <3>2. idx[d] \in 1 .. N
      BY <2>3, CursorPlace
    <3>3. \A n \in idx[d] + 1 .. N : n \in idx[d] .. N
      BY <3>2, <2>0
    <3>4. \A n \in idx[d] + 1 .. N : \A k \in 0 .. Length(n) - 1 :
            buffer[Back(w_off, wabs - StartAbs(n) - k)] = <<n, k>>
      BY <3>3 DEF Intact
    <3>5. QED
      BY <2>3, <3>1, <3>4
  <2>4. QED
    BY <2>1, <2>2, <2>3
<1>3. Placed'
  BY <1>2 DEF Placed, StartAbs, StartOff, N
<1>4. Intact'
  <2>1. N' = N /\ \A n : StartAbs(n)' = StartAbs(n) /\ Length(n)' = Length(n)
    BY DEF StartAbs, Length, N
  <2>2. \A c \in Live' : \A n \in idx'[c] .. N : \A k \in 0 .. Length(n) - 1 :
          buffer'[Back(w_off', wabs' - StartAbs(n) - k)] = <<n, k>>
    BY <1>2
  <2>3. QED
    BY <2>1, <2>2 DEF Intact, Back
<1>5. QED
  BY <1>1, <1>3, <1>4

----------------------------------------------------------------------------
(* The properties follow from the invariant. *)

\* OnEntries is a consequence of IInv.
LEMMA IInvOnEntries == IInv => OnEntries
<1> SUFFICES ASSUME IInv, NEW c \in Live
             PROVE  /\ idx[c] \in 1 .. N + 1
                    /\ r_off[c] = StartOff(idx[c])
                    /\ r_off[c] # w_off => buffer[r_off[c]] = <<idx[c], 0>>
  BY DEF OnEntries
<1>1. TypeOK /\ Chain /\ Placed /\ Intact
  BY DEF IInv
<1>2. idx[c] \in 1 .. N + 1 /\ r_off[c] = StartOff(idx[c])
  BY <1>1 DEF Placed
<1>3. r_off[c] # w_off => idx[c] # N + 1
  BY <1>1, CursorPlace
<1>4. QED
  BY <1>1, <1>2, <1>3, HeaderRead

\* UnreadIntact is a consequence of IInv.
LEMMA IInvUnreadIntact == IInv => UnreadIntact
<1> SUFFICES ASSUME IInv, NEW c \in Live, NEW n \in idx[c] .. N,
                    NEW k \in 0 .. Length(n) - 1
             PROVE  buffer[logger_offset(entries[n].off + k)] = <<n, k>>
  BY DEF UnreadIntact
<1> DEFINE d == wabs - StartAbs(n)
<1>1. TypeOK /\ Chain /\ Placed /\ Intact
  BY DEF IInv
<1>2. idx[c] \in 1 .. N + 1 /\ wabs - StartAbs(idx[c]) < Size
  BY <1>1 DEF Placed
<1>3. /\ N \in Nat /\ n \in 1 .. N /\ n \in 1 .. N + 1 /\ idx[c] <= n /\ n # N + 1
      /\ Size \in Nat /\ wabs \in Nat
  BY <1>1, <1>2, EntryTypes, SizeAssumption
<1>4. StartAbs(idx[c]) <= StartAbs(n)
  BY <1>1, <1>2, <1>3 DEF Chain
<1>5. StartAbs(n) \in Nat /\ StartAbs(idx[c]) \in Nat /\ Length(n) \in Nat
      /\ w_off \in Offsets
  BY <1>1, <1>2, <1>3, EntryTypes
<1>6. d >= Length(n)
  BY <1>1, <1>3, EntryBehind
<1>7. d \in 0 .. Size - 1 /\ d <= Size /\ k \in 0 .. d
  BY <1>2, <1>3, <1>4, <1>5, <1>6
<1>8. entries[n].off = Back(w_off, d)
  BY <1>1, <1>3, <1>7 DEF Chain, StartOff
<1>9. logger_offset(Back(w_off, d) + k) = Back(w_off, d - k)
  BY <1>5, <1>7, BackForward
<1>10. buffer[Back(w_off, d - k)] = <<n, k>>
  BY <1>1 DEF Intact
<1>11. QED
  BY <1>8, <1>9, <1>10

\* LogLenIsUnread is a consequence of IInv.
LEMMA IInvLogLen == IInv => LogLenIsUnread
<1> SUFFICES ASSUME IInv, NEW r \in Open
             PROVE  get_log_len(r) = wabs - StartAbs(idx[r])
  BY DEF LogLenIsUnread
<1>1. TypeOK /\ Chain /\ Placed /\ r \in Live
  BY DEF IInv, Live
<1>2. /\ wabs - StartAbs(idx[r]) \in 0 .. Size - 1
      /\ r_off[r] = Back(w_off, wabs - StartAbs(idx[r])) /\ w_off \in Offsets
  BY <1>1, CursorPlace, EntryTypes
<1>3. QED
  BY <1>2, SizeAssumption DEF get_log_len, Back, Offsets

------------------------------------------------------------------------------
(* IInv holds initially and every step outside of a write preserves it.     *)

\* Three facts used everywhere: lengths fit, and mutex values are distinct.
LEMMA Basics ==
  ASSUME TypeOK
  PROVE  /\ \A w \in Writers : Total(w) \in 1 .. Size - 1 /\ 2 * Total(w) <= Size
         /\ Free \notin Writers
         /\ \A r \in Readers, op \in {"read", "poll"} : <<r, op>> \notin Writers
         /\ \A r \in Readers, op \in {"read", "poll"} : <<r, op>> # Free
<1>1. \A w \in Writers : req[w].len \in 1 .. MaxPayload
  BY DEF TypeOK
<1>2. \A w \in Writers : Total(w) \in 1 .. Size - 1 /\ 2 * Total(w) <= Size
  BY <1>1, SizeAssumption, RoomForTwo DEF Total
<1>3. QED
  BY <1>2, SetsAssumption

LEMMA InitIInv == Init => IInv
<1> SUFFICES ASSUME Init PROVE IInv
  OBVIOUS
<1>1. N = 0 /\ entries = <<>>
  BY DEF Init, N
<1>2. 0 \in Offsets /\ Size > 0 /\ Size \in Nat
  BY SizeAssumption DEF Offsets
<1>3. TypeOK
  <2>1. entries \in Seq([off : Offsets, abs : Nat, len : 1 .. MaxPayload, euid : Uids])
    BY DEF Init
  <2>2. req \in [Writers -> [len : 1 .. MaxPayload, euid : Uids \cup {All}]]
    BY SizeAssumption DEF Init, NoReq
  <2>3. buffer \in [Offsets -> Nat \X Nat]
    BY DEF Init, Scrap
  <2>4. QED
    BY <1>2, <2>1, <2>2, <2>3 DEF TypeOK, Init, Live, Open, Cursors
<1>4. Live = {Start}
  BY DEF Init, Live, Open
<1>5. StartAbs(1) = 0 /\ StartOff(1) = 0 /\ wabs = 0 /\ w_off = 0
  BY <1>1 DEF Init, StartAbs, StartOff
<1>6. Chain
  BY <1>1, <1>2, <1>5 DEF Chain, Back
<1>7. idx[Start] = 1 /\ r_off[Start] = 0
  BY DEF Init, Cursors
<1>8. Placed /\ Intact
  BY <1>1, <1>2, <1>4, <1>5, <1>7 DEF Placed, Intact
<1>9. Holding /\ Clearing
  BY SetsAssumption DEF Init, Holding, Clearing
<1>10. QED
  BY <1>3, <1>6, <1>8, <1>9 DEF IInv

\* Steps that change where a process is, and who sleeps, and nothing else.
LEMMA QuietSteps ==
  ASSUME IInv,
         \/ \E w \in Writers : WriteWake(w)
         \/ \E r \in Readers : \/ ReadBegin(r) \/ ReadCheck(r) \/ ReadResume(r)
                               \/ ReadSignal(r)
  PROVE  IInv'
<1>1. /\ TypeOK /\ Chain /\ Placed /\ Intact /\ Holding /\ Clearing
      /\ UNCHANGED <<buffer, w_off, r_off, r_uid, mutex, req, todo, count,
                     entries, wabs, idx, got>>
  BY DEF IInv, WriteWake, ReadBegin, ReadCheck, ReadResume, ReadSignal
<1>2. Open' = Open /\ Live' = Live
  BY <1>1 DEF WriteWake, ReadBegin, ReadCheck, ReadResume, ReadSignal, Open,
              Live, TypeOK
<1>3. wpc' \in [Writers -> {"idle", "fixup", "wake"}]
      /\ rpc' \in [Readers -> {"closed", "idle", "check", "sleep", "take"}]
  BY Zenon, <1>1 DEF WriteWake, ReadBegin, ReadCheck, ReadResume, ReadSignal, TypeOK
<1>4. asleep' \subseteq Open' /\ \A r \in asleep' : rpc'[r] = "sleep"
  <2>1. \A r \in asleep : r \in Open /\ rpc[r] = "sleep"
    BY <1>1 DEF TypeOK, Holding
  <2>2. QED
    BY <1>1, <1>2, <2>1 DEF WriteWake, ReadBegin, ReadCheck, ReadResume, ReadSignal,
                    TypeOK, wake_up_interruptible, Open
<1>5. TypeOK'
  BY <1>1, <1>2, <1>3, <1>4 DEF TypeOK
<1>6. Chain' /\ Placed' /\ Intact'
  BY <1>1, <1>2, MoveCursors
<1>7. Holding'
  <2>1. \A w \in Writers : wpc'[w] = "fixup" <=> mutex' = w
    BY <1>1 DEF WriteWake, ReadBegin, ReadCheck, ReadResume, ReadSignal,
                Holding, TypeOK
  <2>2. \A r \in Readers : mutex' = <<r, "read">> => rpc'[r] = "take"
    BY <1>1, Basics DEF WriteWake, ReadBegin, ReadCheck, ReadResume, ReadSignal,
                Holding, TypeOK
  <2>3. \A r \in Readers : mutex' = <<r, "poll">> => rpc'[r] # "closed"
    BY <1>1 DEF WriteWake, ReadBegin, ReadCheck, ReadResume, ReadSignal,
                Holding, TypeOK
  <2>4. QED
    BY <1>1, <1>4, <2>1, <2>2, <2>3 DEF Holding
<1>8. Clearing'
  <2>1. /\ \A c : Gap(c)' = Gap(c)
        /\ \A w : Total(w)' = Total(w)
        /\ Lapped' = Lapped
    BY <1>1, <1>2 DEF Gap, Total, StartAbs, N, Lapped
  <2>2. QED
    BY <1>1, <1>2, <2>1 DEF Clearing
<1>9. QED
  BY <1>5, <1>6, <1>7, <1>8 DEF IInv

\* What is left to show for a step that leaves the ring alone and neither
\* starts nor ends in a write.
LEMMA OutsideWrite ==
  ASSUME IInv, mutex \notin Writers, mutex' \notin Writers,
         UNCHANGED <<buffer, w_off, wpc, req, todo, count, asleep, entries, wabs>>,
         TypeOK', Chain', Placed', Intact',
         \A r \in Readers : mutex' = <<r, "read">> => rpc'[r] = "take",
         \A r \in Readers : mutex' = <<r, "poll">> => rpc'[r] # "closed",
         \A r \in asleep : rpc'[r] = "sleep"
  PROVE  IInv'
<1>1. Holding'
  BY DEF IInv, Holding
<1>2. Clearing'
  BY DEF Clearing
<1>3. QED
  BY <1>1, <1>2 DEF IInv

\* Opening and closing a reader.
LEMMA OpenSteps ==
  ASSUME IInv, NEW r \in Readers,
         logger_release(r) \/ \E u \in Uids \cup {All} : logger_open(r, u)
  PROVE  IInv'
<1>1. /\ TypeOK /\ Chain /\ Placed /\ Intact /\ Holding
      /\ UNCHANGED <<buffer, w_off, mutex, wpc, req, todo, count, asleep,
                     entries, wabs>>
      /\ mutex = Free
  BY DEF IInv, logger_release, logger_open
<1>2. mutex \notin Writers /\ todo = {} /\ r \notin asleep
  BY <1>1, SetsAssumption DEF Holding, logger_release, logger_open
<1>3. 0 \in Offsets /\ Start \in Cursors /\ r \in Cursors
  BY SizeAssumption DEF Offsets, Cursors
<1>4. TypeOK'
  <2>1. /\ rpc' \in [Readers -> {"closed", "idle", "check", "sleep", "take"}]
        /\ \A q \in Readers : q # r => rpc'[q] = rpc[q]
    BY Zenon, <1>1 DEF TypeOK, logger_release, logger_open
  <2>2. asleep' \subseteq Open' /\ todo' \subseteq Live'
    BY <1>1, <1>2, <2>1 DEF TypeOK, Open, Live
  <2>3. CASE logger_release(r)
    BY SMTT(60), <1>1, <1>3, <2>1, <2>2, <2>3 DEF TypeOK, logger_release
  <2>4. ASSUME NEW u \in Uids \cup {All}, logger_open(r, u) PROVE TypeOK'
    <3>1. r_off[Start] \in Offsets /\ idx[Start] \in Nat \ {0}
      BY <1>1, <1>3 DEF TypeOK
    <3>2. r_off' \in [Cursors -> Offsets] /\ idx' \in [Cursors -> Nat \ {0}]
      BY Zenon, <1>1, <2>4, <3>1 DEF TypeOK, logger_open
    <3>3. r_uid' \in [Readers -> Uids \cup {All}] /\ got' = got
      BY <1>1, <2>4 DEF TypeOK, logger_open
    <3>4. QED
      BY <1>1, <2>1, <2>2, <3>2, <3>3 DEF TypeOK
  <2>5. QED
    BY <2>3, <2>4
<1>5. Chain' /\ Placed' /\ Intact'
  <2>1. Start \in Live /\ Start # r
    BY SetsAssumption DEF Live
  <2>2. CASE logger_release(r)
    <3>1. \A c \in Live' : c \in Live /\ idx'[c] = idx[c] /\ r_off'[c] = r_off[c]
      BY <1>1, <2>1, <2>2 DEF logger_release, Live, Open, TypeOK, Cursors
    <3>2. QED
      BY <1>1, <3>1, MoveCursors
  <2>3. CASE \E u \in Uids \cup {All} : logger_open(r, u)
    <3>1. \A c \in Live' : c # r => c \in Live
      BY <2>3, <1>1 DEF logger_open, Live, Open, TypeOK
    <3>2. \A c \in Live' : c # r => idx'[c] = idx[c] /\ r_off'[c] = r_off[c]
      BY <2>3, <1>1 DEF logger_open, Live, Open, TypeOK, Cursors
    <3>3. idx'[r] = idx[Start] /\ r_off'[r] = r_off[Start]
      BY <2>3, <1>1, <1>3 DEF logger_open, TypeOK
    <3>4. QED
      BY Zenon, <1>1, <2>1, <3>1, <3>2, <3>3, MoveCursors
  <2>4. QED
    BY <2>2, <2>3
<1>6. \A q \in asleep : rpc'[q] = "sleep"
  BY <1>1, <1>2 DEF Holding, logger_release, logger_open, TypeOK, Open
<1>7. QED
  BY <1>1, <1>2, <1>4, <1>5, <1>6, OutsideWrite, Basics

\* Taking and dropping the mutex on the read side without moving.
LEMMA LockSteps ==
  ASSUME IInv, NEW r \in Readers,
         ReadLock(r) \/ ReadRaced(r) \/ ReadFail(r) \/ PollLock(r) \/ PollDone(r)
  PROVE  IInv'
<1>1. /\ TypeOK /\ Chain /\ Placed /\ Intact /\ Holding
      /\ UNCHANGED <<buffer, w_off, r_off, r_uid, wpc, req, todo, count, asleep,
                     entries, wabs, idx, got>>
  BY DEF IInv, ReadLock, ReadRaced, ReadFail, PollLock, PollDone
<1>2. mutex \notin Writers /\ mutex' \notin Writers
      /\ mutex' \in {Free} \cup (Readers \X {"read", "poll"})
  <2>1. /\ mutex \in {Free, <<r, "read">>, <<r, "poll">>}
        /\ mutex' \in {Free, <<r, "read">>, <<r, "poll">>}
    BY DEF ReadLock, ReadRaced, ReadFail, PollLock, PollDone
  <2>2. \A op \in {"read", "poll"} : /\ <<r, op>> \in Readers \X {"read", "poll"}
                                      /\ <<r, op>> \notin Writers
    BY Zenon, <1>1, Basics
  <2>3. Free \notin Writers
    BY SetsAssumption
  <2>4. QED
    BY <2>1, <2>2, <2>3
<1>3. /\ rpc' \in [Readers -> {"closed", "idle", "check", "sleep", "take"}]
      /\ Open' = Open /\ Live' = Live
      /\ \A q \in asleep : rpc'[q] = "sleep"
  <2>1. CASE UNCHANGED rpc
    BY <1>1, <2>1 DEF TypeOK, Open, Live, Holding
  <2>2. CASE ReadRaced(r) \/ ReadFail(r)
    <3>1. rpc[r] = "take" /\ r \notin asleep
      BY Zenon, <1>1, <2>2 DEF ReadRaced, ReadFail, Holding
    <3>2. /\ rpc' \in [Readers -> {"closed", "idle", "check", "sleep", "take"}]
          /\ rpc'[r] # "closed" /\ \A q \in Readers : q # r => rpc'[q] = rpc[q]
      BY Zenon, <1>1, <2>2 DEF ReadRaced, ReadFail, TypeOK
    <3>3. Open' = Open
      BY <3>1, <3>2 DEF Open
    <3>4. QED
      BY <1>1, <3>1, <3>2, <3>3 DEF Live, Holding, TypeOK, Open
  <2>3. QED
    BY <2>1, <2>2 DEF ReadLock, PollLock, PollDone
<1>4. TypeOK'
  BY <1>1, <1>2, <1>3 DEF TypeOK
<1>5. Chain' /\ Placed' /\ Intact'
  BY <1>1, <1>3, MoveCursors
<1>6. /\ \A q \in Readers : mutex' = <<q, "read">> => rpc'[q] = "take"
      /\ \A q \in Readers : mutex' = <<q, "poll">> => rpc'[q] # "closed"
  <2>1. \A q \in Readers : <<q, "read">> # Free /\ <<q, "poll">> # Free
    BY Zenon, <1>1, Basics
  <2>2. \A q : (<<r, "read">> = <<q, "read">> \/ <<r, "poll">> = <<q, "poll">>) => r = q
    OBVIOUS
  <2>3. \A q : <<r, "read">> # <<q, "poll">> /\ <<r, "poll">> # <<q, "read">>
    OBVIOUS
  <2>4. CASE mutex' = Free
    BY Zenon, <2>1, <2>4
  <2>5. CASE ReadLock(r)
    <3>1. mutex' = <<r, "read">> /\ rpc' = rpc /\ rpc[r] = "take"
      BY Zenon, <2>5 DEF ReadLock
    <3> QED
      BY Zenon, <2>2, <2>3, <3>1
  <2>6. CASE PollLock(r)
    <3>1. mutex' = <<r, "poll">> /\ rpc' = rpc /\ rpc[r] # "closed"
      BY Zenon, <2>6 DEF PollLock
    <3> QED
      BY Zenon, <2>2, <2>3, <3>1
  <2> QED
    BY Zenon, <2>4, <2>5, <2>6 DEF ReadRaced, ReadFail, PollDone
<1>7. QED
  BY <1>1, <1>2, <1>3, <1>4, <1>5, <1>6, OutsideWrite

\* The uid walk and the read itself step one reader over one entry.
LEMMA AdvanceSteps ==
  ASSUME IInv, NEW r \in Readers,
         \/ get_next_entry_by_uid(r, "read") \/ get_next_entry_by_uid(r, "poll")
         \/ do_read_log_to_user(r)
  PROVE  IInv'
<1>1. /\ TypeOK /\ Chain /\ Placed /\ Intact /\ Holding
      /\ UNCHANGED <<buffer, w_off, r_uid, wpc, req, todo, count, asleep,
                     entries, wabs>>
      /\ mutex \in {<<r, "read">>, <<r, "poll">>}
  BY Zenon DEF IInv, get_next_entry_by_uid, do_read_log_to_user
<1>2. mutex \notin Writers /\ mutex' \notin Writers
  BY Zenon, <1>1, Basics DEF get_next_entry_by_uid, do_read_log_to_user
<1>3. rpc[r] # "closed" /\ r \in Live /\ r \in Cursors
  BY <1>1 DEF Holding, Open, Live, Cursors
<1>4. r_off[r] # w_off
  BY DEF get_next_entry_by_uid, do_read_log_to_user, AtReadable
<1>5. idx[r] # N + 1
  BY <1>1, <1>3, <1>4, CursorPlace
<1>6. /\ buffer[r_off[r]] = <<idx[r], 0>>
      /\ get_entry_msg_len(r_off[r]) = entries[idx[r]].len
      /\ idx[r] \in 1 .. N /\ entries[idx[r]].len \in 1 .. MaxPayload
      /\ r_off[r] \in Offsets
  BY Zenon, <1>1, <1>3, <1>5, HeaderRead, CursorPlace, EntryTypes DEF TypeOK
<1>7. (r_off[r] + HdrLen) + entries[idx[r]].len = r_off[r] + (HdrLen + entries[idx[r]].len)
  BY <1>6, SizeAssumption DEF Offsets
<1>8. /\ r_off' = [r_off EXCEPT ![r] = logger_offset(r_off[r] + Length(idx[r]))]
      /\ idx' = [idx EXCEPT ![r] = idx[r] + 1]
  BY <1>6, <1>7 DEF get_next_entry_by_uid, do_read_log_to_user, Length
<1>9. logger_offset(r_off[r] + Length(idx[r])) \in Offsets /\ idx[r] + 1 \in Nat \ {0}
  <2>1. /\ idx[r] + 1 \in 1 .. N + 1
        /\ logger_offset(r_off[r] + Length(idx[r])) = StartOff(idx[r] + 1)
    BY <1>1, <1>3, <1>5, StepOver
  <2>2. N \in Nat /\ \A n \in 1 .. N + 1 : StartOff(n) \in Offsets
    BY <1>1, EntryTypes
  <2>3. QED
    BY SMTT(30), <2>1, <2>2
<1>10. /\ got' \in [Readers -> Nat] /\ Open' = Open /\ Live' = Live
       /\ rpc' \in [Readers -> {"closed", "idle", "check", "sleep", "take"}]
       /\ mutex' \in {Free} \cup Writers \cup (Readers \X {"read", "poll"})
  <2>1. CASE UNCHANGED <<rpc, mutex, got>>
    BY <1>1, <2>1 DEF TypeOK, Open, Live
  <2>2. CASE do_read_log_to_user(r)
    <3>1. /\ rpc' \in [Readers -> {"closed", "idle", "check", "sleep", "take"}]
          /\ rpc'[r] # "closed" /\ \A q \in Readers : q # r => rpc'[q] = rpc[q]
      BY <1>1, <2>2 DEF do_read_log_to_user, TypeOK
    <3>2. Open' = Open /\ Live' = Live
      BY <1>3, <3>1 DEF Open, Live
    <3>3. buffer[r_off[r]][1] \in Nat
      <4>1. N \in Nat
        BY <1>1, EntryTypes
      <4>2. QED
        BY <1>6, <4>1
    <3>4. got' \in [Readers -> Nat] /\ mutex' = Free
      BY <1>1, <2>2, <3>3 DEF do_read_log_to_user, TypeOK
    <3>5. QED
      BY <3>1, <3>2, <3>4
  <2>3. QED
    BY <2>1, <2>2 DEF get_next_entry_by_uid
<1>11. TypeOK'
  BY Zenon, <1>1, <1>8, <1>9, <1>10 DEF TypeOK
<1>12. \A c \in Live : c # r => idx'[c] = idx[c] /\ r_off'[c] = r_off[c]
  BY <1>1, <1>8 DEF TypeOK
<1>13. idx'[r] = idx[r] + 1 /\ r_off'[r] = logger_offset(r_off[r] + Length(idx[r]))
  BY <1>1, <1>3, <1>8 DEF TypeOK
<1>14. Chain' /\ Placed' /\ Intact'
  BY <1>1, <1>3, <1>5, <1>10, <1>12, <1>13, MoveCursors
<1>15. /\ \A q \in Readers : mutex' = <<q, "read">> => rpc'[q] = "take"
       /\ \A q \in Readers : mutex' = <<q, "poll">> => rpc'[q] # "closed"
  BY <1>1, Basics DEF get_next_entry_by_uid, do_read_log_to_user, Holding
<1>16. \A q \in asleep : rpc'[q] = "sleep"
  <2>1. CASE get_next_entry_by_uid(r, "read") \/ get_next_entry_by_uid(r, "poll")
    BY <1>1, <2>1 DEF get_next_entry_by_uid, Holding
  <2>2. CASE do_read_log_to_user(r)
    <3>1. rpc[r] = "take" /\ r \notin asleep
      BY Zenon, <1>1, <2>2 DEF do_read_log_to_user, Holding
    <3>2. QED
      <4>1. rpc' = [rpc EXCEPT ![r] = "idle"]
        BY <2>2 DEF do_read_log_to_user
      <4>2. \A q \in asleep : q \in Readers /\ rpc[q] = "sleep"
        BY <1>1 DEF Holding, TypeOK, Open
      <4>3. rpc \in [Readers -> {"closed", "idle", "check", "sleep", "take"}]
        BY <1>1 DEF TypeOK
      <4>4. QED
        BY <3>1, <4>1, <4>2, <4>3
  <2>3. QED
    BY <2>1, <2>2
<1>17. QED
  BY <1>1, <1>2, <1>11, <1>14, <1>15, <1>16, OutsideWrite

\* LOGGER_FLUSH_LOG sends every cursor to the write offset.
LEMMA FlushStep ==
  ASSUME IInv, logger_flush
  PROVE  IInv'
<1>1. /\ TypeOK /\ Chain /\ Placed /\ Intact /\ Holding
      /\ UNCHANGED <<buffer, w_off, r_uid, mutex, wpc, rpc, req, todo, count,
                     asleep, entries, wabs, got>>
      /\ mutex = Free
  BY Zenon DEF IInv, logger_flush
<1>2. Live' = Live /\ Open' = Open
  BY <1>1 DEF Live, Open
<1>3. r_off' \in [Cursors -> Offsets] /\ idx' \in [Cursors -> Nat \ {0}]
  <2>1. N + 1 \in Nat \ {0} /\ w_off \in Offsets
    BY <1>1, EntryTypes
  <2>2. /\ r_off' = [c \in Cursors |-> IF c \in Live THEN w_off ELSE r_off[c]]
        /\ idx' = [c \in Cursors |-> IF c \in Live THEN N + 1 ELSE idx[c]]
    BY DEF logger_flush, flush_off
  <2>3. r_off \in [Cursors -> Offsets] /\ idx \in [Cursors -> Nat \ {0}]
    BY <1>1 DEF TypeOK
  <2>4. QED
    BY <2>1, <2>2, <2>3
<1>4. TypeOK'
  BY <1>1, <1>2, <1>3 DEF TypeOK
<1>5. \A c \in Live' : idx'[c] = N + 1 /\ r_off'[c] = w_off
  BY <1>2 DEF logger_flush, flush_off, Live, Open, Cursors
<1>6. Chain' /\ Placed' /\ Intact'
  BY <1>1, <1>5, MoveCursors
<1>7. QED
  BY <1>1, <1>4, <1>6, OutsideWrite, Basics DEF Holding

------------------------------------------------------------------------------
(* The steps of a write.                                                    *)


\* logger_write_iter up to fix_up_readers: exactly the cursors closer than the
\* new entry is long are to be pulled.
LEMMA WriteBeginStep ==
  ASSUME IInv, NEW w \in Writers, NEW n \in Counts, NEW u \in Uids,
         WriteBegin(w, n, u)
  PROVE  IInv'
<1> DEFINE len == IF n > MaxPayload THEN MaxPayload ELSE n
<1>1. /\ TypeOK /\ Chain /\ Placed /\ Intact /\ Holding
      /\ UNCHANGED <<buffer, w_off, r_off, r_uid, rpc, asleep, entries, wabs,
                     idx, got>>
      /\ mutex = Free /\ mutex' = w /\ wpc' = [wpc EXCEPT ![w] = "fixup"]
      /\ n > 0 /\ req' = [req EXCEPT ![w] = [len |-> len, euid |-> u]]
      /\ todo' = fix_up_readers(HdrLen + len) /\ count' = 0
  BY DEF IInv, WriteBegin
<1>2. len \in 1 .. MaxPayload
  BY <1>1, SetsAssumption, SizeAssumption
<1> HIDE DEF len
<1>3. /\ req' \in [Writers -> [len : 1 .. MaxPayload, euid : Uids \cup {All}]]
      /\ req'[w].len = len
  BY <1>1, <1>2 DEF TypeOK
<1>4. Live' = Live /\ Open' = Open /\ todo' \subseteq Live
  BY <1>1 DEF Live, Open, fix_up_readers
<1>5. TypeOK'
  BY <1>1, <1>3, <1>4 DEF TypeOK
<1>6. Chain' /\ Placed' /\ Intact'
  BY <1>1, <1>4, MoveCursors
<1>7. Holding'
  <2>1. \A v \in Writers : wpc'[v] = "fixup" <=> mutex' = v
    BY <1>1, Basics DEF Holding, TypeOK
  <2>2. \A r \in Readers : mutex' # <<r, "read">> /\ mutex' # <<r, "poll">>
    BY Zenon, <1>1, Basics
  <2>3. req'[w].euid \in Uids /\ mutex' \in Writers
    BY <1>1 DEF TypeOK
  <2>4. QED
    BY <1>1, <2>1, <2>2, <2>3 DEF Holding
<1>8. HdrLen + len \in 1 .. Size - 1 /\ Total(w)' = HdrLen + len
  BY <1>2, <1>3, SizeAssumption DEF Total
<1>9. \A c \in Live : /\ Gap(c)' = Gap(c) /\ Gap(c) \in 1 .. Size
                      /\ c \in todo' <=> Gap(c) <= HdrLen + len
  <2> SUFFICES ASSUME NEW c \in Live
               PROVE  /\ Gap(c)' = Gap(c) /\ Gap(c) \in 1 .. Size
                      /\ c \in todo' <=> Gap(c) <= HdrLen + len
    OBVIOUS
  <2> DEFINE d == wabs - StartAbs(idx[c])
  <2>1. d \in 0 .. Size - 1 /\ r_off[c] = Back(w_off, d) /\ w_off \in Offsets
    BY <1>1, CursorPlace, EntryTypes
  <2>2. Gap(c)' = Gap(c)
    BY <1>1 DEF Gap, StartAbs, N
  <2>3. Gap(c) = Size - d
    BY DEF Gap
  <2>4. is_between(w_off, logger_offset(w_off + (HdrLen + len)), Back(w_off, d))
          <=> Size - d <= HdrLen + len
    BY <1>8, <2>1, BetweenIsGap
  <2> HIDE DEF d
  <2>5. Gap(c) \in 1 .. Size
    BY <2>1, <2>3, SizeAssumption
  <2>6. c \in todo' <=> is_between(w_off, logger_offset(w_off + (HdrLen + len)), r_off[c])
    BY Zenon, <1>1 DEF fix_up_readers
  <2>7. QED
    BY Zenon, <2>1, <2>2, <2>3, <2>4, <2>5, <2>6
<1>10. Clearing'
  <2> SUFFICES ASSUME NEW c \in Live
               PROVE  IF c \notin todo' THEN Gap(c)' > Total(w)'
                      ELSE IF c = Lapped'
                        THEN /\ count' < Total(w)' /\ 1 + count' <= Gap(c)'
                             /\ Gap(c)' <= Total(w)' + count'
                        ELSE 1 <= Gap(c)' /\ Gap(c)' <= Total(w)'
    BY <1>1, <1>4 DEF Clearing
  <2>1. QED
    BY <1>1, <1>8, <1>9, SizeAssumption
<1>11. QED
  BY <1>5, <1>6, <1>7, <1>10 DEF IInv

\* One turn of get_next_entry: the cursor is not at the write offset, and when
\* it leaves the loop it is clear of the new entry.
LEMMA GetNextEntryStep ==
  ASSUME IInv, NEW w \in Writers, get_next_entry(w)
  PROVE  IInv'
<1>0. PICK c : c = Lapped
  OBVIOUS
<1> DEFINE nr == Length(idx[c])
<1>1. /\ TypeOK /\ Chain /\ Placed /\ Intact /\ Holding /\ Clearing
      /\ UNCHANGED <<buffer, w_off, r_uid, mutex, wpc, rpc, req, asleep,
                     entries, wabs, got>>
      /\ wpc[w] = "fixup" /\ todo # {}
  BY DEF IInv, get_next_entry
<1>2. mutex = w /\ c \in todo /\ c \in Live /\ c \in Cursors
  BY <1>0, <1>1 DEF Holding, Lapped, TypeOK, Live, Open, Cursors
<1>3. count < Total(w) /\ 1 + count <= Gap(c) /\ Gap(c) <= Total(w) + count
  BY <1>0, <1>1, <1>2 DEF Clearing
<1>4. /\ Total(w) \in 1 .. Size - 1 /\ 2 * Total(w) <= Size
      /\ count \in Nat /\ Size \in Nat
  BY <1>1, Basics, SizeAssumption DEF TypeOK
<1>5. wabs - StartAbs(idx[c]) \in 0 .. Size - 1
  BY <1>1, <1>2, CursorPlace
<1>6. idx[c] # N + 1
  <2>1. SUFFICES ASSUME idx[c] = N + 1 PROVE FALSE
    OBVIOUS
  <2>2. wabs - StartAbs(idx[c]) = 0
    BY <1>1, <2>1, EntryTypes DEF StartAbs
  <2>3. QED
    BY <2>2, <1>3, <1>4 DEF Gap
<1>7. idx[c] \in 1 .. N /\ nr \in Nat /\ nr > 0
  BY <1>1, <1>2, <1>6, CursorPlace, EntryTypes
<1>8. HdrLen + get_entry_msg_len(r_off[c]) = nr
  BY <1>1, <1>2, <1>6, HeaderRead DEF Length
<1>9. /\ r_off' = [r_off EXCEPT ![c] = logger_offset(r_off[c] + nr)]
      /\ idx' = [idx EXCEPT ![c] = idx[c] + 1]
      /\ IF count + nr < Total(w) THEN count' = count + nr /\ todo' = todo
                                  ELSE count' = 0 /\ todo' = todo \ {c}
  BY Zenon, <1>0, <1>8 DEF get_next_entry, Short
<1>10. /\ idx[c] + 1 \in 1 .. N + 1
       /\ logger_offset(r_off[c] + nr) = StartOff(idx[c] + 1)
       /\ wabs - StartAbs(idx[c] + 1) = wabs - StartAbs(idx[c]) - nr
  BY <1>1, <1>2, <1>6, StepOver
<1>11. logger_offset(r_off[c] + nr) \in Offsets /\ idx[c] + 1 \in Nat \ {0}
  BY SMTT(30), <1>1, <1>10, EntryTypes
<1>12. Live' = Live /\ Open' = Open
  BY <1>1 DEF Live, Open
<1> HIDE DEF nr
<1>13. TypeOK'
  <2>1. r_off' \in [Cursors -> Offsets] /\ idx' \in [Cursors -> Nat \ {0}]
    BY Zenon, <1>1, <1>9, <1>11 DEF TypeOK
  <2>2. count' \in Nat /\ todo' \subseteq Live'
    BY <1>1, <1>4, <1>7, <1>9, <1>12 DEF TypeOK
  <2>3. QED
    BY <1>1, <1>12, <2>1, <2>2 DEF TypeOK
<1>14. \A e \in Live : e # c => idx'[e] = idx[e] /\ r_off'[e] = r_off[e]
  BY <1>1, <1>9 DEF TypeOK
<1>15. idx'[c] = idx[c] + 1 /\ r_off'[c] = logger_offset(r_off[c] + nr)
  BY <1>1, <1>2, <1>9 DEF TypeOK
<1>16. Chain' /\ Placed' /\ Intact'
  BY <1>1, <1>2, <1>6, <1>12, <1>14, <1>15, MoveCursors DEF nr
<1>17. Holding'
  BY <1>1, <1>2 DEF Holding
<1>18. /\ Total(w)' = Total(w)
       /\ \A e \in Live : e # c => Gap(e)' = Gap(e)
       /\ Gap(c)' = Gap(c) + nr /\ Gap(c) \in Nat
  <2>1. Gap(c) \in Nat
    BY <1>4, <1>5 DEF Gap
  <2>2. Gap(c)' = Size - (wabs - StartAbs(idx[c] + 1))
    BY <1>1, <1>15 DEF Gap, StartAbs, N
  <2>3. Gap(c)' = Gap(c) + nr
    BY <2>2, <1>10, <1>4, <1>5, <1>7 DEF Gap
  <2>4. QED
    BY <1>1, <1>14, <2>1, <2>3 DEF Total, Gap, StartAbs, N
<1>19. Clearing'
  <2> SUFFICES ASSUME NEW e \in Live
               PROVE  IF e \notin todo' THEN Gap(e)' > Total(w)
                      ELSE IF e = Lapped'
                        THEN /\ count' < Total(w) /\ 1 + count' <= Gap(e)'
                             /\ Gap(e)' <= Total(w) + count'
                        ELSE 1 <= Gap(e)' /\ Gap(e)' <= Total(w)
    BY <1>1, <1>2, <1>12, <1>18 DEF Clearing
  <2>1. e # c => IF e \notin todo THEN Gap(e) > Total(w)
                                  ELSE 1 <= Gap(e) /\ Gap(e) <= Total(w)
    BY <1>0, <1>1, <1>2 DEF Clearing
  <2>2. e # c => Gap(e) \in Nat
    <3>1. wabs - StartAbs(idx[e]) \in 0 .. Size - 1
      BY <1>1, CursorPlace
    <3>2. QED
      BY <3>1, <1>4 DEF Gap
  <2>3. CASE count + nr < Total(w)
    <3>1. Lapped' = c /\ todo' = todo /\ count' = count + nr
      BY <1>0, <1>9, <2>3 DEF Lapped
    <3>2. QED
      BY <3>1, <2>1, <2>2, <1>2, <1>3, <1>4, <1>7, <1>18, <2>3
  <2>4. CASE ~(count + nr < Total(w))
    <3>1. count' = 0 /\ todo' = todo \ {c}
      BY <1>9, <2>4
    <3>2. QED
      BY <3>1, <2>1, <2>2, <1>2, <1>3, <1>4, <1>7, <1>18, <2>4
  <2>5. QED
    BY <2>3, <2>4
<1>20. QED
  BY <1>13, <1>16, <1>17, <1>19 DEF IInv

\* A write of at most t bytes leaves alone what lies behind the write offset
\* but less than Size - t bytes.
LEMMA PutSpares ==
  ASSUME TypeOK, NEW n \in Nat, NEW t \in 0 .. Size, NEW d \in 1 .. Size,
         d + t <= Size
  PROVE  Put(n, t)[Back(w_off, d)] = buffer[Back(w_off, d)]
<1>1. w_off \in Offsets /\ Back(w_off, d) \in Offsets
  BY BackInRing, EntryTypes
<1>2. (IF Back(w_off, d) >= w_off THEN Back(w_off, d) - w_off
       ELSE Back(w_off, d) - w_off + Size) = Size - d
  BY <1>1, SizeAssumption DEF Back, Offsets
<1>3. ~(Size - d < t)
  BY SizeAssumption
<1>4. QED
  BY <1>1, <1>2, <1>3 DEF Put

\* The bytes a cursor has still to pass lie less than Gap away from being
\* written over.
LEMMA UnreadBehind ==
  ASSUME TypeOK, Chain, Placed, NEW c \in Live, NEW n \in idx[c] .. N,
         NEW k \in 0 .. Length(n) - 1
  PROVE  /\ n \in 1 .. N /\ k \in Nat
         /\ wabs - StartAbs(n) - k \in 1 .. Size - Gap(c)
         /\ Gap(c) \in 1 .. Size
<1>1. idx[c] \in 1 .. N + 1 /\ wabs - StartAbs(idx[c]) \in 0 .. Size - 1
  BY CursorPlace DEF Placed
<1>2. /\ N \in Nat /\ n \in 1 .. N /\ n \in 1 .. N + 1 /\ idx[c] <= n
      /\ Size \in Nat /\ wabs \in Nat
  BY <1>1, EntryTypes, SizeAssumption
<1>3. StartAbs(idx[c]) <= StartAbs(n)
  BY <1>1, <1>2 DEF Chain
<1>4. StartAbs(n) \in Nat /\ StartAbs(idx[c]) \in Nat /\ Length(n) \in Nat
  BY <1>1, <1>2, EntryTypes
<1>5. wabs - StartAbs(n) >= Length(n)
  BY <1>2, EntryBehind
<1>6. QED
  BY <1>1, <1>2, <1>3, <1>4, <1>5 DEF Gap

\* A failed write scribbles on bytes nobody has still to read.
LEMMA WriteFaultStep ==
  ASSUME IInv, NEW w \in Writers, NEW k \in 0 .. MaxPayload - 1, WriteFault(w, k)
  PROVE  IInv'
<1>1. /\ TypeOK /\ Chain /\ Placed /\ Intact /\ Holding /\ Clearing
      /\ UNCHANGED <<w_off, r_off, r_uid, rpc, todo, count, asleep, entries,
                     wabs, idx, got>>
      /\ wpc[w] = "fixup" /\ todo = {} /\ k < req[w].len
      /\ buffer' = Put(0, HdrLen + k) /\ mutex' = Free
      /\ wpc' = [wpc EXCEPT ![w] = "idle"] /\ req' = [req EXCEPT ![w] = NoReq]
  BY DEF IInv, WriteFault
<1>2. mutex = w /\ Live' = Live /\ Open' = Open
  BY <1>1 DEF Holding, Live, Open
<1>3. /\ Total(w) \in 1 .. Size - 1 /\ HdrLen + k \in 0 .. Size
      /\ HdrLen + k < Total(w) /\ Size \in Nat
  <2>1. req[w].len \in 1 .. MaxPayload
    BY <1>1 DEF TypeOK
  <2>2. QED
    BY <1>1, <2>1, SizeAssumption DEF Total
<1>4. \A c \in Live : Gap(c) > Total(w)
  BY <1>1, <1>2 DEF Clearing
<1>5. TypeOK'
  <2>1. buffer' \in [Offsets -> Nat \X Nat]
    BY Zenon, <1>1, SizeAssumption DEF TypeOK, Put, Scrap, Offsets
  <2>2. req' \in [Writers -> [len : 1 .. MaxPayload, euid : Uids \cup {All}]]
    BY <1>1, SizeAssumption DEF TypeOK, NoReq
  <2>3. QED
    BY <1>1, <1>2, <2>1, <2>2 DEF TypeOK
<1>6. Chain' /\ Placed'
  BY <1>1, <1>2 DEF Chain, Placed, StartAbs, StartOff, Length, N, Back
<1>7. Intact'
  <2> SUFFICES ASSUME NEW c \in Live, NEW n \in idx[c] .. N,
                      NEW j \in 0 .. Length(n) - 1
               PROVE  buffer'[Back(w_off, wabs - StartAbs(n) - j)] = <<n, j>>
    <3>1. N' = N /\ \A n : StartAbs(n)' = StartAbs(n) /\ Length(n)' = Length(n)
      BY <1>1 DEF N, StartAbs, Length
    <3>2. QED
      BY <1>1, <1>2, <3>1 DEF Intact
  <2> DEFINE d == wabs - StartAbs(n) - j
  <2>1. d \in 1 .. Size - Gap(c) /\ Gap(c) \in 1 .. Size /\ Gap(c) > Total(w)
    BY <1>1, <1>4, UnreadBehind
  <2> HIDE DEF d
  <2>2. d \in 1 .. Size /\ d + (HdrLen + k) <= Size
    BY SMTT(30), <2>1, <1>3, SizeAssumption
  <2>3. Put(0, HdrLen + k)[Back(w_off, d)] = buffer[Back(w_off, d)]
    BY Zenon, <1>1, <1>3, <2>2, PutSpares
  <2>4. buffer[Back(w_off, d)] = <<n, j>>
    BY <1>1 DEF Intact, d
  <2>5. QED
    BY <1>1, <2>3, <2>4 DEF d
<1>8. Holding'
  <2>1. \A v \in Writers : wpc'[v] = "fixup" <=> mutex' = v
    BY <1>1, <1>2, Basics DEF Holding, TypeOK
  <2>2. \A r \in Readers : mutex' # <<r, "read">> /\ mutex' # <<r, "poll">>
    BY <1>1, Basics
  <2>3. QED
    BY <1>1, <2>1, <2>2, Basics DEF Holding
<1>9. Clearing'
  BY <1>1, Basics DEF Clearing
<1>10. QED
  BY <1>5, <1>6, <1>7, <1>8, <1>9 DEF IInv

\* What WriteCommit does to the ring and its history, when it commits t bytes
\* as entry m + 1.
Grown(t, m) ==
  /\ t \in 1 .. Size - 1 /\ m \in Nat /\ N = m /\ N' = m + 1
  /\ wabs' = wabs + t /\ w_off' = logger_offset(w_off + t)
  /\ w_off' \in Offsets /\ buffer' = Put(m + 1, t)
  /\ \A n \in 1 .. m + 1 : StartAbs(n)' = StartAbs(n) /\ StartOff(n)' = StartOff(n)
  /\ \A n \in 1 .. m : Length(n)' = Length(n)
  /\ Length(m + 1)' = t
  /\ StartAbs(m + 2)' = wabs + t /\ StartOff(m + 2)' = w_off'
  /\ StartAbs(m + 1) = wabs /\ StartOff(m + 1) = w_off

\* The commit extends the chain of entries.
LEMMA GrownChain ==
  ASSUME TypeOK, Chain, NEW t, NEW m, Grown(t, m)
  PROVE  Chain'
<1>1. /\ t \in 1 .. Size - 1 /\ m \in Nat /\ N = m /\ N' = m + 1 /\ wabs' = wabs + t
      /\ Size \in Nat /\ wabs \in Nat /\ w_off \in Offsets
  BY EntryTypes, SizeAssumption DEF Grown
<1>2. w_off' = logger_offset(w_off + t) /\ w_off' \in Offsets
  BY DEF Grown
<1>3. /\ \A n \in 1 .. m + 1 : StartAbs(n)' = StartAbs(n) /\ StartOff(n)' = StartOff(n)
      /\ \A n \in 1 .. m : Length(n)' = Length(n)
      /\ Length(m + 1)' = t
      /\ StartAbs(m + 2)' = wabs + t /\ StartOff(m + 2)' = w_off'
      /\ StartAbs(m + 1) = wabs
  BY DEF Grown
<1>4. /\ \A n \in 1 .. m : StartAbs(n + 1) = StartAbs(n) + Length(n)
      /\ \A j, n \in 1 .. m + 1 : j <= n => StartAbs(j) <= StartAbs(n)
      /\ \A n \in 1 .. m + 1 : wabs - StartAbs(n) <= Size =>
            StartOff(n) = Back(w_off, wabs - StartAbs(n))
  BY <1>1 DEF Chain
<1>5. \A n \in 1 .. m + 1 : StartAbs(n) \in Nat /\ StartAbs(n) <= wabs
  <2>1. \A n \in 1 .. m + 1 : n <= m + 1 /\ m + 1 \in 1 .. m + 1
    BY <1>1
  <2>2. \A n \in 1 .. m + 1 : StartAbs(n) <= wabs
    BY <1>3, <1>4, <2>1
  <2>3. QED
    BY <1>1, <2>2, EntryTypes
<1>6. ASSUME NEW n \in 1 .. m + 1
      PROVE  StartAbs(n + 1)' = StartAbs(n)' + Length(n)'
  <2>1. CASE n = m + 1
    <3>1. n + 1 = m + 2 /\ n \in 1 .. m + 1
      BY <1>1, <2>1
    <3>2. QED
      BY <1>3, <2>1, <3>1
  <2>2. CASE n # m + 1
    <3>1. n \in 1 .. m /\ n + 1 \in 1 .. m + 1
      BY <1>1, <2>2
    <3>2. QED
      BY <1>3, <1>4, <3>1
  <2>3. QED
    BY <2>1, <2>2
<1>7. ASSUME NEW j \in 1 .. m + 2, NEW n \in 1 .. m + 2, j <= n
      PROVE  StartAbs(j)' <= StartAbs(n)'
  <2>1. CASE n # m + 2
    <3>1. j \in 1 .. m + 1 /\ n \in 1 .. m + 1
      BY <1>1, <1>7, <2>1
    <3>2. QED
      BY <1>3, <1>4, <1>7, <3>1
  <2>2. CASE n = m + 2 /\ j # m + 2
    <3>1. j \in 1 .. m + 1
      BY <1>1, <2>2
    <3>2. StartAbs(j)' = StartAbs(j) /\ StartAbs(j) \in Nat /\ StartAbs(j) <= wabs
      BY <1>3, <1>5, <3>1
    <3>3. QED
      BY <1>1, <1>3, <2>2, <3>2
  <2>3. CASE n = m + 2 /\ j = m + 2
    BY <1>1, <1>3, <2>3
  <2>4. QED
    BY <2>1, <2>2, <2>3
<1>8. ASSUME NEW n \in 1 .. m + 2, wabs' - StartAbs(n)' <= Size
      PROVE  StartOff(n)' = Back(w_off', wabs' - StartAbs(n)')
  <2>1. CASE n = m + 2
    <3>1. wabs' - StartAbs(n)' = 0 /\ StartOff(n)' = w_off'
      BY <1>1, <1>3, <2>1
    <3>2. QED
      BY <3>1, <1>1, <1>2 DEF Back, Offsets
  <2>2. CASE n # m + 2
    <3>1. n \in 1 .. m + 1
      BY <1>1, <2>2
    <3>2. PICK d : d = wabs - StartAbs(n)
      OBVIOUS
    <3>3. StartAbs(n)' = StartAbs(n) /\ StartAbs(n) \in Nat /\ StartAbs(n) <= wabs
      BY <1>3, <1>5, <3>1
    <3>4. wabs' - StartAbs(n)' = d + t /\ d \in 0 .. Size /\ d + t <= Size
      BY <1>1, <1>8, <3>2, <3>3
    <3>5. StartOff(n) = Back(w_off, d)
      BY <1>1, <1>4, <3>1, <3>2, <3>4
    <3>6. t \in 0 .. Size /\ 0 < t
      BY <1>1
    <3>7. Back(logger_offset(w_off + t), d + t) = Back(w_off, d)
      BY <1>1, <3>4, <3>6, BackShift
    <3>8. QED
      BY <1>2, <1>3, <3>1, <3>4, <3>5, <3>7
  <2>3. QED
    BY <2>1, <2>2
<1>9. N' + 1 = m + 2
  BY <1>1
<1>10. QED
  BY <1>1, <1>6, <1>7, <1>8, <1>9 DEF Chain

\* A cursor more than t bytes away stays less than a ring behind.
LEMMA GrownPlaced ==
  ASSUME TypeOK, Chain, Placed, NEW t, NEW m, Grown(t, m),
         Live' = Live, idx' = idx, r_off' = r_off, \A c \in Live : Gap(c) > t
  PROVE  Placed'
<1>1. /\ t \in 1 .. Size - 1 /\ m \in Nat /\ N = m /\ wabs' = wabs + t
      /\ Size \in Nat /\ wabs \in Nat /\ N' + 1 = m + 2
  <2>1. wabs \in Nat
    BY EntryTypes
  <2>2. t \in 1 .. Size - 1 /\ m \in Nat /\ N = m /\ wabs' = wabs + t /\ N' = m + 1
    BY DEF Grown
  <2>3. QED
    BY <2>1, <2>2, SizeAssumption
<1>2. \A n \in 1 .. m + 1 : StartAbs(n)' = StartAbs(n) /\ StartOff(n)' = StartOff(n)
  BY DEF Grown
<1>3. ASSUME NEW c \in Live, NEW i, i = idx[c]
      PROVE  /\ i \in 1 .. m + 2 /\ r_off[c] = StartOff(i)'
             /\ wabs' - StartAbs(i)' < Size
  <2>1. i \in 1 .. m + 1 /\ r_off[c] = StartOff(i)
    BY <1>1, <1>3 DEF Placed
  <2>2. i \in 1 .. m + 2 /\ StartAbs(i)' = StartAbs(i) /\ StartOff(i)' = StartOff(i)
    BY <1>1, <1>2, <2>1
  <2>3. StartAbs(i) \in Nat
    BY <1>1, <2>1, EntryTypes
  <2>4. Size - (wabs - StartAbs(i)) > t
    BY <1>3 DEF Gap
  <2>5. wabs' - StartAbs(i)' < Size
    BY <1>1, <2>2, <2>3, <2>4
  <2>6. QED
    BY <2>1, <2>2, <2>5
<1>4. QED
  BY <1>1, <1>3 DEF Placed, StartOff, StartAbs

\* The new entry is in the ring and no unread byte was under it.
LEMMA GrownIntact ==
  ASSUME TypeOK, Chain, Placed, Intact, NEW t, NEW m, Grown(t, m),
         Live' = Live, idx' = idx, \A c \in Live : Gap(c) > t
  PROVE  Intact'
<1>1. /\ t \in 1 .. Size - 1 /\ t \in 0 .. Size /\ m \in Nat /\ N = m
      /\ wabs' = wabs + t /\ Size \in Nat /\ wabs \in Nat /\ N' = m + 1
      /\ m + 1 \in Nat /\ w_off \in Offsets
  <2>1. wabs \in Nat /\ w_off \in Offsets
    BY EntryTypes
  <2>2. t \in 1 .. Size - 1 /\ m \in Nat /\ N = m /\ wabs' = wabs + t /\ N' = m + 1
    BY DEF Grown
  <2>3. QED
    BY <2>1, <2>2, SizeAssumption
<1>2. /\ \A n \in 1 .. m + 1 : StartAbs(n)' = StartAbs(n)
      /\ \A n \in 1 .. m : Length(n)' = Length(n)
      /\ Length(m + 1)' = t /\ StartAbs(m + 1) = wabs
  BY DEF Grown
<1>3. w_off' = logger_offset(w_off + t) /\ buffer' = Put(m + 1, t)
  BY DEF Grown
<1>4. ASSUME NEW k \in 0 .. t - 1
      PROVE  buffer'[Back(w_off', t - k)] = <<m + 1, k>>
  <2>1. w_off' = IF w_off + t < Size THEN w_off + t ELSE w_off + t - Size
    BY <1>1, <1>3, Wrap
  <2>2. PICK o : o = Back(w_off', t - k)
    OBVIOUS
  <2>3. o = IF w_off + k < Size THEN w_off + k ELSE w_off + k - Size
    BY <1>1, <2>1, <2>2 DEF Back, Offsets
  <2>4. /\ o \in Offsets
        /\ (IF o >= w_off THEN o - w_off ELSE o - w_off + Size) = k /\ k < t
    BY <1>1, <2>3 DEF Offsets
  <2>5. Put(m + 1, t)[o] = <<m + 1, k>>
    BY <1>1, <2>4 DEF Put
  <2>6. QED
    BY <1>3, <2>2, <2>5
<1>5. ASSUME NEW c \in Live, NEW n \in idx[c] .. m, NEW k \in 0 .. Length(n) - 1
      PROVE  buffer'[Back(w_off', wabs' - StartAbs(n) - k)] = <<n, k>>
  <2>1. n \in idx[c] .. N
    BY <1>1
  <2>2. PICK d : d = wabs - StartAbs(n) - k
    OBVIOUS
  <2>3. d \in 1 .. Size - Gap(c) /\ Gap(c) \in 1 .. Size /\ n \in 1 .. N /\ k \in Nat
    BY <2>1, <2>2, UnreadBehind
  <2>4. StartAbs(n) \in Nat
    <3>1. \A i \in 1 .. N + 1 : StartAbs(i) \in Nat
      BY EntryTypes
    <3>2. n \in 1 .. N + 1
      BY <1>1, <2>3
    <3>3. QED
      BY <3>1, <3>2
  <2>5. Gap(c) > t
    OBVIOUS
  <2>6. d \in 1 .. Size /\ d \in 0 .. Size /\ d + t <= Size /\ 0 < t
    BY <1>1, <2>3, <2>5
  <2>7. wabs' - StartAbs(n) - k = d + t
    BY <1>1, <2>2, <2>3, <2>4
  <2>8. Back(w_off', d + t) = Back(w_off, d)
    BY <1>1, <1>3, <2>6, BackShift
  <2>9. Put(m + 1, t)[Back(w_off, d)] = buffer[Back(w_off, d)]
    BY <1>1, <2>6, PutSpares
  <2>10. buffer[Back(w_off, d)] = <<n, k>>
    BY <2>1, <2>2 DEF Intact
  <2>11. QED
    BY <1>3, <2>7, <2>8, <2>9, <2>10
<1>6. ASSUME NEW c \in Live, NEW n \in idx[c] .. m + 1, NEW k \in 0 .. Length(n)' - 1
      PROVE  buffer'[Back(w_off', wabs' - StartAbs(n)' - k)] = <<n, k>>
  <2>1. idx[c] \in 1 .. m + 1
    BY <1>1 DEF Placed
  <2>2. CASE n = m + 1
    <3>1. k \in 0 .. t - 1 /\ n \in 1 .. m + 1 /\ StartAbs(n)' = wabs
      BY <1>1, <1>2, <2>2
    <3>2. wabs' - StartAbs(n)' - k = t - k
      BY <1>1, <3>1
    <3>3. QED
      BY <1>4, <2>2, <3>1, <3>2
  <2>3. CASE n # m + 1
    <3>1. n \in 1 .. m /\ n \in idx[c] .. m /\ n \in 1 .. m + 1
      BY <1>1, <2>1, <2>3
    <3>2. Length(n)' = Length(n) /\ StartAbs(n)' = StartAbs(n)
      BY <1>2, <3>1
    <3>3. QED
      BY <1>5, <3>1, <3>2
  <2>4. QED
    BY <2>2, <2>3
<1>7. QED
  BY <1>1, <1>6 DEF Intact

\* The header and the payload wrap as the whole entry does.
LEMMA WrapTwice ==
  ASSUME NEW s \in Nat, NEW o \in 0 .. s - 1, NEW h \in 0 .. s, NEW l \in 0 .. s, h + l < s,
         NEW a, a = IF o + h < s THEN o + h ELSE o + h - s,
         NEW b, b = IF a + l < s THEN a + l ELSE a + l - s
  PROVE  b \in 0 .. s - 1 /\ b = IF o + (h + l) < s THEN o + (h + l) ELSE o + (h + l) - s
  OBVIOUS

\* WriteCommit is such a commit.
LEMMA CommitGrows ==
  ASSUME TypeOK, NEW w \in Writers, WriteCommit(w)
  PROVE  Grown(Total(w), N)
<1> DEFINE e == [off |-> w_off, abs |-> wabs, len |-> req[w].len, euid |-> req[w].euid]
<1>0. PICK t, m : t = Total(w) /\ m = N
  OBVIOUS
<1>1. entries' = Append(entries, e) /\ wabs' = wabs + t /\ buffer' = Put(m + 1, t)
  BY <1>0 DEF WriteCommit
<1>2. w_off' = logger_offset(logger_offset(w_off + HdrLen) + req[w].len)
  BY DEF WriteCommit
<1>3. /\ t \in 1 .. Size - 1 /\ t \in 0 .. Size /\ Size \in Nat
      /\ req[w].len \in 1 .. MaxPayload /\ t = HdrLen + req[w].len
  <2>1. req[w].len \in 1 .. MaxPayload
    BY DEF TypeOK
  <2>2. Total(w) \in 1 .. Size - 1
    BY Basics
  <2>3. QED
    BY <1>0, <2>1, <2>2, SizeAssumption DEF Total
<1>4. m \in Nat /\ wabs \in Nat /\ w_off \in Offsets
  BY <1>0, EntryTypes
<1>5. w_off' = logger_offset(w_off + t) /\ w_off' \in Offsets
  <2>1. HdrLen \in 0 .. Size /\ req[w].len \in 0 .. Size
    BY <1>3, SizeAssumption
  <2>2. PICK a : a = logger_offset(w_off + HdrLen)
    OBVIOUS
  <2>3. a = IF w_off + HdrLen < Size THEN w_off + HdrLen ELSE w_off + HdrLen - Size
    BY <1>4, <2>1, <2>2, Wrap
  <2>4. a \in Offsets
    BY <1>3, <1>4, <2>1, <2>3 DEF Offsets
  <2>5. w_off' = IF a + req[w].len < Size THEN a + req[w].len
                                          ELSE a + req[w].len - Size
    BY <1>2, <2>1, <2>2, <2>4, Wrap
  <2>6. logger_offset(w_off + t) = IF w_off + t < Size THEN w_off + t
                                                       ELSE w_off + t - Size
    BY <1>3, <1>4, Wrap
  <2>7. QED
    <3>1. HdrLen + req[w].len < Size /\ w_off \in 0 .. Size - 1 /\ t = HdrLen + req[w].len
      BY <1>3, <1>4 DEF Offsets
    <3>2. /\ w_off' \in 0 .. Size - 1
          /\ w_off' = IF w_off + t < Size THEN w_off + t ELSE w_off + t - Size
      BY SMTT(30), <1>3, <2>1, <2>3, <2>5, <3>1, WrapTwice
    <3>3. QED
      BY <2>6, <3>2 DEF Offsets
<1>6. e.off = w_off /\ e.abs = wabs /\ e.len = req[w].len
  OBVIOUS
<1> HIDE DEF e
<1>7. entries \in Seq([off : Offsets, abs : Nat, len : 1 .. MaxPayload, euid : Uids])
  BY DEF TypeOK
<1>8. /\ N' = m + 1 /\ entries'[m + 1] = e
      /\ \A n \in 1 .. m : entries'[n] = entries[n]
  BY <1>0, <1>1, <1>7 DEF N
<1>9. \A n \in 1 .. m + 1 : n # N' + 1 /\ (n = m + 1 \/ n \in 1 .. m)
  BY <1>4, <1>8
<1>10. StartAbs(m + 1) = wabs /\ StartOff(m + 1) = w_off
  BY <1>0 DEF StartAbs, StartOff
<1>11. \A n \in 1 .. m : StartAbs(n) = entries[n].abs /\ StartOff(n) = entries[n].off
  BY <1>0, <1>4 DEF StartAbs, StartOff
<1>12. \A n \in 1 .. m + 1 : /\ StartAbs(n)' = entries'[n].abs
                             /\ StartOff(n)' = entries'[n].off
  BY <1>9 DEF StartAbs, StartOff
<1>13. \A n \in 1 .. m + 1 : StartAbs(n)' = StartAbs(n) /\ StartOff(n)' = StartOff(n)
  BY SMTT(30), <1>6, <1>8, <1>9, <1>10, <1>11, <1>12
<1>14. Length(m + 1)' = t /\ \A n \in 1 .. m : Length(n)' = Length(n)
  BY <1>3, <1>6, <1>8 DEF Length
<1>15. StartAbs(m + 2)' = wabs + t /\ StartOff(m + 2)' = w_off'
  <2>1. m + 2 = N' + 1
    BY <1>4, <1>8
  <2>2. QED
    BY <1>1, <2>1 DEF StartAbs, StartOff
<1>16. Grown(t, m)
  BY <1>0, <1>1, <1>3, <1>4, <1>5, <1>8, <1>10, <1>13, <1>14, <1>15 DEF Grown
<1>17. QED
  BY <1>0, <1>16

\* Types after a commit.
LEMMA CommitTypes ==
  ASSUME TypeOK, NEW w \in Writers, WriteCommit(w), req[w].euid \in Uids
  PROVE  TypeOK'
<1> DEFINE S == [off : Offsets, abs : Nat, len : 1 .. MaxPayload, euid : Uids]
           e == [off |-> w_off, abs |-> wabs, len |-> req[w].len, euid |-> req[w].euid]
<1>1. PICK t, m : t = Total(w) /\ m = N /\ Grown(t, m)
  BY CommitGrows
<1>2. /\ t \in 1 .. Size - 1 /\ m \in Nat /\ wabs' = wabs + t /\ w_off' \in Offsets
      /\ buffer' = Put(m + 1, t)
  BY <1>1 DEF Grown
<1>3. wabs \in Nat /\ w_off \in Offsets /\ Size \in Nat /\ req[w].len \in 1 .. MaxPayload
  BY SizeAssumption DEF TypeOK
<1>4. wabs' \in Nat
  BY <1>2, <1>3
<1>5. buffer' \in [Offsets -> Nat \X Nat]
  <2>1. ASSUME NEW o \in Offsets PROVE Put(m + 1, t)[o] \in Nat \X Nat
    <3>1. buffer[o] \in Nat \X Nat
      BY DEF TypeOK
    <3>2. (IF o >= w_off THEN o - w_off ELSE o - w_off + Size) \in Nat
      BY <1>3 DEF Offsets
    <3>3. QED
      BY SMTT(30), <1>2, <3>1, <3>2 DEF Put
  <2>2. Put(m + 1, t) = [o \in Offsets |-> Put(m + 1, t)[o]]
    BY DEF Put
  <2>3. QED
    BY <1>2, <2>1, <2>2
<1>6. e \in S /\ entries \in Seq(S) /\ entries' = Append(entries, e)
  BY <1>3 DEF TypeOK, WriteCommit
<1>7. entries' \in Seq(S)
  <2> HIDE DEF e, S
  <2>1. QED
    BY <1>6
<1>8. /\ req' \in [Writers -> [len : 1 .. MaxPayload, euid : Uids \cup {All}]]
      /\ wpc' \in [Writers -> {"idle", "fixup", "wake"}]
  <2>1. req' = [req EXCEPT ![w] = NoReq] /\ wpc' = [wpc EXCEPT ![w] = "wake"]
    BY DEF WriteCommit
  <2>2. NoReq \in [len : 1 .. MaxPayload, euid : Uids \cup {All}]
    BY SizeAssumption DEF NoReq
  <2>3. /\ req \in [Writers -> [len : 1 .. MaxPayload, euid : Uids \cup {All}]]
        /\ wpc \in [Writers -> {"idle", "fixup", "wake"}]
    BY DEF TypeOK
  <2>4. QED
    BY <2>1, <2>2, <2>3
<1>9. Live' = Live /\ Open' = Open
  BY DEF WriteCommit, Live, Open
<1>10. /\ UNCHANGED <<r_off, r_uid, rpc, todo, count, asleep, idx, got>>
       /\ mutex' = Free
  BY DEF WriteCommit
<1>11. QED
  BY Zenon, <1>2, <1>4, <1>5, <1>7, <1>8, <1>9, <1>10 DEF TypeOK

\* The committed entry extends the chain; every cursor was made to be more
\* than its length away.
LEMMA WriteCommitStep ==
  ASSUME IInv, NEW w \in Writers, WriteCommit(w)
  PROVE  IInv'
<1>1. TypeOK /\ Chain /\ Placed /\ Intact /\ Holding /\ Clearing
  BY DEF IInv
<1>2. /\ wpc[w] = "fixup" /\ todo = {} /\ mutex' = Free
      /\ wpc' = [wpc EXCEPT ![w] = "wake"]
      /\ UNCHANGED <<r_off, rpc, todo, asleep, idx>>
  BY DEF WriteCommit
<1>3. mutex = w /\ req[w].euid \in Uids
  BY <1>1, <1>2 DEF Holding
<1>4. Live' = Live
  BY <1>2 DEF Live, Open
<1>5. PICK t : t = Total(w)
  OBVIOUS
<1>6. PICK m : m = N
  OBVIOUS
<1>7. Grown(t, m)
  BY <1>1, <1>5, <1>6, CommitGrows
<1>8. \A c \in Live : Gap(c) > t
  BY <1>1, <1>2, <1>3, <1>5 DEF Clearing
<1>9. TypeOK'
  BY <1>1, <1>3, CommitTypes
<1>10. Chain' /\ Placed' /\ Intact'
  BY SMTT(30), <1>1, <1>2, <1>4, <1>7, <1>8, GrownChain, GrownPlaced, GrownIntact
<1>11. Holding'
  <2>1. \A v \in Writers : wpc'[v] = "fixup" <=> mutex' = v
    BY <1>1, <1>2, <1>3, Basics DEF Holding, TypeOK
  <2>2. \A r \in Readers : mutex' # <<r, "read">> /\ mutex' # <<r, "poll">>
    BY <1>1, <1>2, Basics
  <2>3. QED
    BY Zenon, <1>1, <1>2, <2>1, <2>2, Basics DEF Holding
<1>12. Clearing'
  BY <1>1, <1>2, Basics DEF Clearing
<1>13. QED
  BY <1>9, <1>10, <1>11, <1>12 DEF IInv

----------------------------------------------------------------------------
\* Every step of logger.c preserves IInv.
LEMMA NextIInv == IInv /\ [Next]_vars => IInv'
<1> SUFFICES ASSUME IInv, [Next]_vars PROVE IInv'
  OBVIOUS
<1>1. ASSUME NEW w \in Writers, WriterStep(w) PROVE IInv'
  BY <1>1, GetNextEntryStep, WriteCommitStep, QuietSteps, WriteFaultStep
     DEF WriterStep
<1>2. ASSUME NEW w \in Writers, NEW c \in Counts, NEW u \in Uids, WriteBegin(w, c, u)
      PROVE IInv'
  BY <1>2, WriteBeginStep
<1>3. ASSUME NEW r \in Readers, ReadStep(r) \/ PollStep(r) PROVE IInv'
  BY <1>3, QuietSteps, LockSteps, AdvanceSteps DEF ReadStep, PollStep
<1>4. ASSUME NEW r \in Readers, NEW u \in Uids \cup {All}, logger_open(r, u)
      PROVE IInv'
  BY <1>4, OpenSteps
<1>5. ASSUME NEW r \in Readers,
             logger_release(r) \/ ReadBegin(r) \/ ReadSignal(r) \/ PollLock(r)
      PROVE IInv'
  BY <1>5, OpenSteps, QuietSteps, LockSteps
<1>6. CASE logger_flush
  BY <1>6, FlushStep
<1>7. CASE UNCHANGED vars
  <2>1. /\ TypeOK /\ Chain /\ Placed /\ Intact /\ Holding /\ Clearing
        /\ Live' = Live /\ Open' = Open
    BY <1>7 DEF vars, IInv, Live, Open
  <2>2. UNCHANGED <<buffer, w_off, r_off, r_uid, mutex, wpc, rpc, req, todo, count, asleep,
                    entries, wabs, idx, got>>
    BY <1>7 DEF vars
  <2>3. TypeOK'
    BY <2>1, <2>2 DEF TypeOK
  <2>4. Holding'
    BY Zenon, <2>1, <2>2 DEF Holding
  <2>5. Chain' /\ Placed' /\ Intact'
    BY Zenon, <2>1, <2>2, MoveCursors
  <2>6. Clearing'
    <3>1. /\ \A c : Gap(c)' = Gap(c)
          /\ \A w : Total(w)' = Total(w)
          /\ Lapped' = Lapped
      BY <2>2 DEF Gap, Total, StartAbs, N, Lapped
    <3>2. QED
      BY <2>1, <2>2, <3>1 DEF Clearing
  <2>7. QED
    BY <2>1, <2>3, <2>4, <2>5, <2>6 DEF IInv
<1>8. QED
  BY <1>1, <1>2, <1>3, <1>4, <1>5, <1>6, <1>7 DEF Next

\* The inductive invariant holds throughout, for every number of readers and
\* writers and every ring with room for two entries.
THEOREM Invariance == Spec => []IInv
BY InitIInv, NextIInv, PTL DEF Spec

\* Type correctness of the log driver's state.
THEOREM TypeCorrect == Spec => []TypeOK
<1>1. IInv => TypeOK
  BY DEF IInv
<1>2. QED
  BY <1>1, Invariance, PTL

\* log->head and every open reader always stand on an entry's header or on
\* the write offset (fix_up_readers, get_next_entry, do_read_log_to_user).
THEOREM CursorsOnEntries == Spec => []OnEntries
BY IInvOnEntries, Invariance, PTL

\* No entry a reader has still to pass is ever damaged by a later write,
\* failed writes included (logger_write_iter).
THEOREM NothingTorn == Spec => []UnreadIntact
BY IInvUnreadIntact, Invariance, PTL

\* LOGGER_GET_LOG_LEN is exact: an equal w_off and r_off is an empty log,
\* never a full one.
THEOREM LogLenExact == Spec => []LogLenIsUnread
BY IInvLogLen, Invariance, PTL
----------------------------------------------------------------------------
(* The order of what read() hands out. *)

\* What a reader was handed last lies before its cursor; a file that is not
\* open was handed nothing.
GotBehind ==
  \A r \in Readers : got[r] < idx[r] /\ (rpc[r] = "closed" => got[r] = 0)

\* read() hands over the entry the reader's cursor is on, with the euid that
\* get_next_entry_by_uid stopped at.
LEMMA ReadHandsOver ==
  ASSUME IInv, NEW r \in Readers, do_read_log_to_user(r)
  PROVE  /\ got' = [got EXCEPT ![r] = idx[r]]
         /\ r_uid[r] \in {All, entries[idx[r]].euid}
<1>1. /\ mutex = <<r, "read">> /\ AtReadable(r) /\ r_off[r] # w_off
      /\ got' = [got EXCEPT ![r] = buffer[r_off[r]][1]]
  BY DEF do_read_log_to_user
<1>2. rpc[r] = "take"
  BY <1>1 DEF IInv, Holding
<1>3. r \in Live
  BY <1>2 DEF Live, Open
<1>4. buffer[r_off[r]] = <<idx[r], 0>> /\ idx[r] \in 1 .. N + 1
  BY <1>1, <1>3, IInvOnEntries DEF OnEntries
<1>5. idx[r] # 0 /\ buffer[r_off[r]][1] = idx[r] /\ buffer[r_off[r]][2] = 0
  BY SMTT(30), <1>4
<1>6. buffer[r_off[r]] # Scrap
  BY <1>4, <1>5 DEF Scrap
<1>7. get_entry_euid(r_off[r]) = entries[idx[r]].euid
  BY <1>5, <1>6 DEF get_entry_euid
<1>8. QED
  BY <1>1, <1>5, <1>7 DEF AtReadable

\* Between an open and the release no cursor goes back.
LEMMA NextGotBehind == IInv /\ GotBehind /\ [Next]_vars => GotBehind'
<1> SUFFICES ASSUME IInv, GotBehind, [Next]_vars PROVE GotBehind'
  OBVIOUS
<1>1. /\ got \in [Readers -> Nat] /\ idx \in [Cursors -> Nat \ {0}]
      /\ rpc \in [Readers -> {"closed", "idle", "check", "sleep", "take"}]
      /\ Start \in Cursors /\ \A r \in Readers : r \in Cursors
  BY DEF IInv, TypeOK, Cursors
<1>2. ASSUME UNCHANGED <<idx, got>>, \A r \in Readers : rpc'[r] = "closed" => rpc[r] = "closed"
      PROVE  GotBehind'
  BY <1>2 DEF GotBehind
<1>3. ASSUME NEW c, idx' = [idx EXCEPT ![c] = @ + 1], UNCHANGED <<got, rpc>>
      PROVE  GotBehind'
  BY <1>1, <1>3 DEF GotBehind
<1>4. ASSUME NEW w \in Writers, WriterStep(w) PROVE GotBehind'
  <2>1. CASE get_next_entry(w)
    BY Zenon, <2>1, <1>3 DEF get_next_entry
  <2>2. CASE WriteCommit(w) \/ WriteWake(w) \/ \E k \in 0 .. MaxPayload - 1 : WriteFault(w, k)
    <3>1. UNCHANGED <<idx, got, rpc>>
      BY <2>2 DEF WriteCommit, WriteWake, WriteFault
    <3>2. QED
      BY <3>1, <1>2
  <2>3. QED
    BY <1>4, <2>1, <2>2 DEF WriterStep
<1>5. ASSUME NEW w \in Writers, NEW c \in Counts, NEW u \in Uids, WriteBegin(w, c, u)
      PROVE  GotBehind'
  <2>1. UNCHANGED <<idx, got, rpc>>
    BY <1>5 DEF WriteBegin
  <2>2. QED
    BY <2>1, <1>2
<1>6. ASSUME NEW r \in Readers,
             \/ ReadCheck(r) \/ ReadResume(r) \/ ReadLock(r) \/ ReadRaced(r)
             \/ ReadFail(r) \/ ReadBegin(r) \/ ReadSignal(r) \/ PollLock(r)
             \/ PollDone(r)
      PROVE  GotBehind'
  <2>1. UNCHANGED <<idx, got>>
    BY Zenon, <1>6 DEF ReadCheck, ReadResume, ReadLock, ReadRaced, ReadFail, ReadBegin,
                ReadSignal, PollLock, PollDone
  <2>2. \/ UNCHANGED rpc
        \/ \E pc \in {"idle", "check", "sleep", "take"} : rpc' = [rpc EXCEPT ![r] = pc]
    BY Zenon, <1>6 DEF ReadCheck, ReadResume, ReadLock, ReadRaced, ReadFail, ReadBegin,
                ReadSignal, PollLock, PollDone
  <2>3. \A q \in Readers : rpc'[q] = "closed" => rpc[q] = "closed"
    BY <2>2, <1>1
  <2>4. QED
    BY <2>1, <2>3, <1>2
<1>7. ASSUME NEW r \in Readers, NEW op, get_next_entry_by_uid(r, op) PROVE GotBehind'
  BY Zenon, <1>7, <1>3 DEF get_next_entry_by_uid
<1>8. ASSUME NEW r \in Readers, do_read_log_to_user(r) PROVE GotBehind'
  <2>1. got' = [got EXCEPT ![r] = idx[r]]
    BY <1>8, ReadHandsOver
  <2>2. idx' = [idx EXCEPT ![r] = @ + 1] /\ rpc' = [rpc EXCEPT ![r] = "idle"]
    BY <1>8 DEF do_read_log_to_user
  <2>3. QED
    BY <1>1, <2>1, <2>2 DEF GotBehind
<1>9. ASSUME NEW r \in Readers, NEW u \in Uids \cup {All}, logger_open(r, u)
      PROVE  GotBehind'
  <2>1. /\ rpc[r] = "closed" /\ UNCHANGED got
        /\ idx' = [idx EXCEPT ![r] = idx[Start]] /\ rpc' = [rpc EXCEPT ![r] = "idle"]
    BY <1>9 DEF logger_open
  <2>2. QED
    BY <1>1, <2>1 DEF GotBehind
<1>10. ASSUME NEW r \in Readers, logger_release(r) PROVE GotBehind'
  <2>1. /\ got' = [got EXCEPT ![r] = 0] /\ idx' = [idx EXCEPT ![r] = 1]
        /\ rpc' = [rpc EXCEPT ![r] = "closed"]
    BY <1>10 DEF logger_release
  <2>2. QED
    BY <1>1, <2>1 DEF GotBehind
<1>11. CASE logger_flush
  <2>1. /\ idx' = [c \in Cursors |-> IF c \in Live THEN N + 1 ELSE idx[c]]
        /\ UNCHANGED <<got, rpc>>
    BY <1>11 DEF logger_flush
  <2>2. \A c \in Live : idx[c] \in 1 .. N + 1
    BY DEF IInv, Placed
  <2>3. N \in Nat
    BY EntryTypes DEF IInv
  <2>4. QED
    BY <1>1, <2>1, <2>2, <2>3 DEF GotBehind
<1>12. CASE UNCHANGED vars
  BY <1>12, <1>2 DEF vars
<1>13. ASSUME NEW r \in Readers, ReadStep(r) \/ PollStep(r) PROVE GotBehind'
  BY <1>13, <1>6, <1>7, <1>8 DEF ReadStep, PollStep
<1>14. QED
  BY <1>4, <1>5, <1>6, <1>9, <1>10, <1>11, <1>12, <1>13 DEF Next

\* Every read() between an open and the release hands out a later entry than
\* the one before it, and an unprivileged reader only entries of its own uid
\* (do_read_log_to_user, get_next_entry_by_uid).
THEOREM ReadsAdvance == Spec => ReadsInOrder
<1>1. Init => GotBehind
  BY SizeAssumption DEF Init, GotBehind, Cursors
<1>2. ASSUME IInv, GotBehind, NEW r \in Readers, do_read_log_to_user(r)
      PROVE  got'[r] > got[r] /\ r_uid[r] \in {All, entries[got'[r]].euid}
  <2>1. /\ got' = [got EXCEPT ![r] = idx[r]]
        /\ r_uid[r] \in {All, entries[idx[r]].euid}
    BY <1>2, ReadHandsOver
  <2>2. got \in [Readers -> Nat] /\ idx[r] \in Nat /\ got[r] < idx[r]
    BY <1>2 DEF IInv, TypeOK, GotBehind, Cursors
  <2>3. got'[r] = idx[r]
    BY <2>1, <2>2
  <2>4. QED
    BY <2>1, <2>2, <2>3
<1>3. IInv /\ GotBehind =>
        [\A r \in Readers : do_read_log_to_user(r) =>
           /\ got'[r] > got[r]
           /\ r_uid[r] \in {All, entries[got'[r]].euid}]_vars
  BY <1>2
<1>4. Spec => []GotBehind
  BY <1>1, NextGotBehind, Invariance, PTL DEF Spec
<1>5. QED
  BY <1>3, <1>4, Invariance, PTL DEF ReadsInOrder

=============================================================================
