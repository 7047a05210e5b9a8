SPECIFICATION Spec
CONSTANTS
  a = a
  b = b
  c = c
  direct = direct
  broadcast = broadcast
  unsigned = unsigned
  cross = cross
  All = All
  NoParcel = NoParcel
  from <- MCFrom
  to <- MCTo
  via <- MCVia
  accepted <- MCAccepted
  Lane = {a, b, c}
  Daemon = {a, b}
  Parcel = {cross, unsigned}
  MaxErrors = 1
  MaxCrashes = 1
INVARIANT OnlyUnsignedAreRejected
