SPECIFICATION Spec
CONSTANTS
  None = None
  Txs = {t1}
  Calls = {c1, c2}
  Signed = {s1, s2}
  Slots = {1, 2}
  MaxStalls = 1
  Faults = {"queue", "database", "rpc", "stall", "restart"}
SYMMETRY Symmetry
INVARIANTS
  TypeOK
  CompletedIsConfirmed
  HashIsConfirmed
  ClaimSendsOnce
PROPERTIES
  ImplementsTransfer
CHECK_DEADLOCK FALSE
