SPECIFICATION FairSpec
CONSTANTS
  opener = opener
  flusher = flusher
  admin = admin
  media = media
  eject = eject
  Events = {media, eject}
  AsyncEvents = {eject}
  Callers = {opener, flusher, admin}
  NoCaller = nobody
  Ops <- MCOps
  MaxOps = 1
  MaxChanges = 1
  Masks <- MCMasks
  Intervals = {0, 1}
INVARIANTS BlockedQuiet ClearSees
PROPERTIES EventNoticed
CHECK_DEADLOCK FALSE
