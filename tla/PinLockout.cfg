SPECIFICATION FairSpec
CONSTANTS
  None = None
  Requests = {r1, r2, r3}
  Pins = {p1, p2}
  MaxAttempts = 2
INVARIANTS
  TypeOK
  MissesCounted
PROPERTIES
  LockHolds
  SetNeverReplaces
  NoLivelock
