SPECIFICATION Spec
CONSTANTS
  None = None
  Txs = {t1}
  Calls = {c1, c2}
  Signed = {s1}
  Slots = {1, 2}
  MaxStalls = 1
  Faults = {}
INVARIANTS
  NeverSentTwice
CHECK_DEADLOCK FALSE
