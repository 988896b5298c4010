SPECIFICATION Spec
CONSTANTS
  alice = alice
  bob = bob
  i1 = i1
  i2 = i2
  k1 = k1
  k2 = k2
  ETH = ETH
  POLYGON = POLYGON
  ether = ether
  pol = pol
  usdc = usdc
  shop = shop
  Shop = Shop
  usdcContract = usdcContract
  stranger = stranger
  None = None
  Requests = {r1, r2}
  Intents = {i1, i2}
  Users = {alice, bob}
  Keys = {k1, k2}
  Chains = {ETH, POLYGON}
  Assets = {ether, pol, usdc}
  Addresses = {shop, Shop, usdcContract, stranger}
  Evm = {ETH, POLYGON}
  ValidAddresses = {shop, Shop}
  LowerCase <- MCLowerCase
  Native <- MCNative
  Contract <- MCContract
  Scale <- MCScale
  Values = {1, 10}
  Unconvertible = {}
  Signed <- AllSigned
  Plans <- AllPlans
  Inputs <- AllInputs
  Faults = {"createLost"}
INVARIANTS
  NeverDoubleCreates
CHECK_DEADLOCK FALSE
