SPECIFICATION ListingSpec
CONSTANTS
  Names <- MCNames
  Len16 <- MCLen16
  Procs <- MCProcs
  Binders <- MCBinders
  Owner <- MCOwner
  Isolated = {"c"}
  Allowed <- MCAllowed
  NoBinder = "nobinder"
  Programs <- Serving
INVARIANTS RefsExact Survives ListsAll
PROPERTIES IsRegistry DeadForgotten Answered
CHECK_DEADLOCK FALSE
