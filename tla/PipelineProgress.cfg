SPECIFICATION FairSpec
CONSTANTS
  None = None
  Txs = {t1}
  Calls = {c1, c2}
  Signed = {s1}
  Slots = {1, 2}
  MaxStalls = 1
  Faults = {"queue", "lostReply", "database", "rpc", "stall"}
INVARIANTS
  ProcessingIsDriven
PROPERTIES
  ProcessingEnds
CHECK_DEADLOCK FALSE
