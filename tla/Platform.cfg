SPECIFICATION Spec
CONSTANTS
  None = None
  u1 = u1
  u2 = u2
  u3 = u3
  c1 = c1
  c2 = c2
  i1 = i1
  i2 = i2
  x1 = x1
  x2 = x2
  k1 = k1
  k2 = k2
  q1 = q1
  q2 = q2
  a1 = a1
  a2 = a2
  e1 = e1
  e2 = e2
  Users = {u1, u2, u3}
  Calls = {c1, c2}
  Workloads <- MCWorkloads
  Emails = {e1, e2}
  AccountIds = {a1, a2}
  ContactRows = {k1, k2}
  Names = {n1}
  IdAttempts = 2
  Instances = {i1, i2}
  Jtis = {u1, u2, u3}
  MaxKey = 2
  MaxClock = 4
  Life = 2
  Window = 3
  Rollout = 1
  MaxCodes = 3
  MaxAttempts = 2
  DevMode = FALSE
  Mail <- MCMail
  Requests = {q1, q2}
  Transfers = {x1, x2}
  Assets = {s1}
  Values = {v1, v2}
  Asked = {v1}
  Sockets = {w1}
  Digits <- MCDigits
  Env <- MCEnv
  Registrations <- MCRegistrations
  Amounts <- MCAmounts
  Recipients <- MCRecipients
  Wanted = {"ETH", "BNB", "SOL", "BTC", "TRX", "USDC"}
  GasPrices = {1, 2}
  MaxIntents = 1
SYMMETRY MCSymmetry
INVARIANTS
  TypeOK
  RowsConsistent
  EndedStaysEnded
  RotationHonoured
  AcceptedInBudget
  FulfilledIsPaid
  RoomsAreOwn
  PlanWasCovered
PROPERTIES
  LiveCodeKept
  SettledIsFinal
CHECK_DEADLOCK FALSE
