----------------------------- MODULE LoggerInv ------------------------------
(***************************************************************************)
(* The inductive invariant of Logger.  The safety of the ring rests on     *)
(* distances that do not wrap: wabs - StartAbs(n) is how far entry n lies  *)
(* behind the write offset, and Gap(c) how many bytes the writer may still *)
(* use before it reaches the cursor c.                                     *)
(***************************************************************************)
EXTENDS Logger

\* What the walk of get_next_entry really needs: a lapped cursor has at least
\* the length of the new entry ahead of it.  The four logs are 256 KiB.
ASSUME RoomForTwo == Size >= 2 * (HdrLen + MaxPayload)

\* d bytes behind offset o.
Back(o, d) == IF o >= d THEN o - d ELSE o - d + Size

Gap(c) == Size - (wabs - StartAbs(idx[c]))

\* Entries follow one another without holes, up to the write offset.
Chain ==
  /\ \A n \in 1 .. N : StartAbs(n + 1) = StartAbs(n) + Length(n)
  /\ \A m, n \in 1 .. N + 1 : m <= n => StartAbs(m) <= StartAbs(n)
  /\ \A n \in 1 .. N + 1 : wabs - StartAbs(n) <= Size =>
        StartOff(n) = Back(w_off, wabs - StartAbs(n))

\* A cursor stands on the entry idx says, less than a whole ring behind.
Placed ==
  \A c \in Live : /\ idx[c] \in 1 .. N + 1
                  /\ r_off[c] = StartOff(idx[c])
                  /\ wabs - StartAbs(idx[c]) < Size

\* The bytes between a cursor and the write offset are those of the entries.
Intact ==
  \A c \in Live : \A n \in idx[c] .. N : \A k \in 0 .. Length(n) - 1 :
    buffer[Back(w_off, wabs - StartAbs(n) - k)] = <<n, k>>

\* Who holds the mutex is where it takes it for, and nobody else; only a
\* reader inside schedule() is on the wait queue.
Holding ==
  /\ \A w \in Writers : wpc[w] = "fixup" <=> mutex = w
  /\ \A w \in Writers : mutex = w => req[w].euid \in Uids
  /\ mutex \notin Writers => todo = {}
  /\ \A r \in Readers : mutex = <<r, "read">> => rpc[r] = "take"
  /\ \A r \in Readers : mutex = <<r, "poll">> => rpc[r] # "closed"
  /\ \A r \in asleep : rpc[r] = "sleep"

\* fix_up_readers: a cursor done with is clear of the new entry; one to be
\* pulled is within its length, plus what the walk has skipped so far.
Clearing ==
  \A w \in Writers : mutex = w => \A c \in Live :
    IF c \notin todo THEN Gap(c) > Total(w)
    ELSE IF c = Lapped THEN /\ count < Total(w)
                            /\ 1 + count <= Gap(c) /\ Gap(c) <= Total(w) + count
    ELSE 1 <= Gap(c) /\ Gap(c) <= Total(w)

\* The type invariant and the five facts above, preserved by every step of
\* logger.c.
IInv == TypeOK /\ Chain /\ Placed /\ Intact /\ Holding /\ Clearing
=============================================================================
