-------------------------- MODULE MCExternalIntent --------------------------
(***************************************************************************)
(* A small instance of ExternalIntent.  Alice plans payments of 1 of the   *)
(* native asset or 10 of USDC, 10 base units each, and submits them; Bob   *)
(* plans the same and tries her intents and her key.                       *)
(***************************************************************************)
EXTENDS ExternalIntent

CONSTANTS alice, bob, i1, i2, k1, k2, ETH, POLYGON, ether, pol, usdc,
          shop, Shop, usdcContract, stranger

MCLowerCase == [a \in Addresses |-> IF a = Shop THEN shop ELSE a]
MCNative == [c \in Chains |-> IF c = ETH THEN ether ELSE pol]
MCContract == [c \in Chains |-> [a \in Assets |->
                 IF c = ETH /\ a = usdc THEN usdcContract ELSE None]]
MCScale == [a \in Assets |-> IF a = usdc THEN 1 ELSE 10]

PlanOf(who, chain, asset, amount, to) ==
  [owner |-> who, chain |-> chain, asset |-> asset, amount |-> amount, recipient |-> to]
Pay(chain, to, value) == [chain |-> chain, to |-> to, value |-> value, data |-> NoData]
Call(contract, value, to, amount) ==
  [chain |-> ETH, to |-> contract, value |-> value,
   data |-> [kind |-> "transfer", to |-> to, amount |-> amount]]

\* Two plans of the same units at different scales, Bob's, and one that prepare
\* refuses: there is no USDC on POLYGON.
AllPlans ==
  {PlanOf(alice, ETH, ether, 1, shop), PlanOf(alice, ETH, usdc, 10, Shop),
   PlanOf(bob, ETH, ether, 1, shop), PlanOf(alice, POLYGON, usdc, 10, shop)}

GoodPay == Pay(ETH, Shop, 10)
GoodCall == Call(usdcContract, 0, shop, 10)

\* A native value on a token call, the wrong network, a blob.
WrongSigned ==
  {[GoodCall EXCEPT !.value = 1], Pay(POLYGON, shop, 10), None}

AllSigned == {GoodPay, GoodCall} \cup WrongSigned

By(u, i, k, s) == [user |-> u, intent |-> i, key |-> k, signed |-> s]

\* Every way two requests can meet: in the key, the intent and the user.
AllInputs ==
  {By(alice, i1, k1, s) : s \in AllSigned}
  \cup {By(alice, i2, k1, GoodPay), By(alice, i1, k2, GoodCall),
        By(bob, i1, k1, GoodPay)}

=============================================================================
