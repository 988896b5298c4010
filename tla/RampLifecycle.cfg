SPECIFICATION Spec
CONSTANTS
  None = None
  Rows = {r1}
  Hooks = {h1, h2}
  Amounts <- MCAmounts
  MinNgn = 1
  MaxNgn = 2
  Attempts = 2
  MaxGuesses = 1
  Faults = {"refused", "answerLost", "garbled", "queueError", "apiDies", "dbError", "workerDies", "unsent", "deletion"}
INVARIANTS
  TypeOK
  NeverAhead
  AppliedOnce
PROPERTIES
  ImplementsPromise
  CompletionArrives
CHECK_DEADLOCK FALSE
