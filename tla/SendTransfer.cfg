SPECIFICATION FairSpec
CONSTANTS
  alice = alice
  bob = bob
  carol = carol
  k1 = k1
  ETH = ETH
  USDC = USDC
  net = net
  a1 = a1
  A1 = A1
  a2 = a2
  junk = junk
  idAlice = idAlice
  idBob = idBob
  idCarol = idCarol
  idNobody = idNobody
  None = None
  Requests = {r1, r2}
  Users = {alice, bob}
  Keys = {k1}
  Assets = {ETH, USDC}
  Networks = {net}
  AccountIds = {idAlice, idBob, idNobody}
  Owner <- MCOwner
  Addresses = {a1, A1, a2, junk}
  ValidAddresses = {a1, A1, a2}
  LowerCase <- MCLowerCase
  Values = {1, 2}
  ExponentValues = {}
  Inputs <- AllInputs
INVARIANTS
  TypeOK
  AnswersAgree
  AnswerIsOwn
  PlainRetryReplays
  AddressReuseConflicts
PROPERTIES
  EveryRequestAnswered
  ImplementsLedger
