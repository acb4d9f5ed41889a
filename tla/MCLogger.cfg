SPECIFICATION FairSpec
CONSTANTS
  Size = 8
  HdrLen = 1
  MaxPayload = 3
  Counts = {0, 1, 5}
  Writers = {w1}
  Readers = {r1}
  Uids = {u1, u2}
  All = All
  Start = Start
  Free = Free
  MaxWrites = 4
INVARIANTS OnEntries UnreadIntact
PROPERTIES ReadsInOrder ReadReturns
