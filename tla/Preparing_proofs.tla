------------------------- MODULE Preparing_proofs -------------------------
(***************************************************************************)
(* Proofs about Preparing and the adapters it asks, for any deployment,    *)
(* any tokens and decimals, and any amounts and prices.                    *)
(***************************************************************************)
EXTENDS Preparing, Money_proofs

-----------------------------------------------------------------------------
(* Amounts as the adapters show them.                                      *)

LEMMA DigitsType ==
  /\ \A d \in DOMAIN Digits : Digits[d] \in Nat
  /\ 18 \in DOMAIN Digits /\ 9 \in DOMAIN Digits
  BY DigitsAssumption

\* What an adapter shows is worth what is held.
LEMMA AmountShown ==
  ASSUME NEW u \in Nat, NEW d \in DOMAIN Digits
  PROVE  /\ Amount(u, d) \in Decimal /\ Amount(u, d).places \in 0..Digits[d]
         /\ \A b \in Decimal : AtMost(b, Amount(u, d)) => AtMost(b, Held(u, d))
<1> DEFINE a == Amount(u, d)  n == Digits[d]  p == a.places
<1>1. n \in Nat
  BY DigitsType
<1>2. a \in Decimal /\ p \in 0..n /\ u = a.units * Pow10[n - p]
  BY <1>1, Shown DEF Amount
<1> HIDE DEF a, n
<1>3. ASSUME NEW b \in Decimal, AtMost(b, a) PROVE AtMost(b, Held(u, d))
  <2>1. n - p \in Nat /\ (n - p) + p = n /\ p \in Nat
    BY <1>1, <1>2
  <2> DEFINE k == Pow10[n - p]  q == Pow10[b.places]
  <2>2. Pow10[n] = k * Pow10[p] /\ k \in Nat \ {0} /\ Pow10[p] \in Nat
    BY <2>1, Pow10Sum, Pow10Type
  <2>3. b.units \in Nat /\ a.units \in Nat /\ q \in Nat
    BY <1>2, Pow10Type DEF Decimal
  <2>4. b.units * Pow10[p] <= a.units * q
    BY <1>3 DEF AtMost
  <2> HIDE DEF k, q, p
  <2>5. /\ b.units * Pow10[p] \in Nat /\ a.units * q \in Nat
        /\ (a.units * q) * k >= (b.units * Pow10[p]) * k
    <3>1. b.units * Pow10[p] \in Nat /\ a.units * q \in Nat
      BY <2>2, <2>3
    <3> QED BY <2>2, <2>4, <3>1, ScaledOrder
  <2>6. (a.units * q) * k = (a.units * k) * q /\ (b.units * Pow10[p]) * k = b.units * (k * Pow10[p])
    BY <2>2, <2>3
  <2>7. b.units * Pow10[n] <= u * q
    <3>1. u * q = (a.units * q) * k
      BY <1>2, <2>6 DEF k, p
    <3>2. b.units * Pow10[n] = (b.units * Pow10[p]) * k
      BY <2>2, <2>6
    <3>3. (a.units * q) * k \in Nat /\ (b.units * Pow10[p]) * k \in Nat
      BY <2>2, <2>5
    <3> QED BY <2>5, <3>1, <3>2, <3>3
  <2> QED BY <2>7 DEF AtMost, Held, n, q
<1> QED BY <1>2, <1>3 DEF a, n

\* GET balances: what is shown of a token that could be read is what the address holds, to
\* the last base unit; an unread one is null there and nought in the rows of one chain.
THEOREM BalancesAreExact ==
  ASSUME NEW env, NEW chain, NEW held, NEW unread,
         \A t \in AdapterTokens(env, chain) : t.decimals \in DOMAIN Digits /\ held[t.symbol] \in Nat
  PROVE  /\ \A row \in getTokenBalances(env, chain, held, unread) :
              IF row.token \in unread THEN row.balance = Null
              ELSE toBaseUnits(row.balance, Digits[row.token.decimals]) = held[row.token.symbol]
         /\ \A row \in getTokenBalancesForChain(env, chain, held, unread) :
              toBaseUnits(row.balance, Digits[row.token.decimals])
                = IF row.token \in unread THEN 0 ELSE held[row.token.symbol]
<1>1. ASSUME NEW t \in Readable(env, chain)
      PROVE  Digits[t.decimals] \in Nat /\ toBaseUnits(ReadToken(chain, held, t), Digits[t.decimals]) = held[t.symbol]
  <2>1. t.decimals \in DOMAIN Digits /\ held[t.symbol] \in Nat
    BY <1>1 DEF Readable
  <2> QED BY <2>1, DigitsType, BaseUnitsRoundTrip DEF ReadToken, Amount
<1>2. ASSUME NEW d \in Nat PROVE toBaseUnits([units |-> 0, places |-> 0], d) = 0
  <2>1. Pow10[d - 0] \in Nat
    BY Pow10Type
  <2> QED BY <2>1 DEF toBaseUnits, Scaled
<1>3. \A row \in getTokenBalances(env, chain, held, unread) :
        IF row.token \in unread THEN row.balance = Null
        ELSE toBaseUnits(row.balance, Digits[row.token.decimals]) = held[row.token.symbol]
  BY <1>1 DEF getTokenBalances, Row
<1>4. \A row \in getTokenBalancesForChain(env, chain, held, unread) :
        toBaseUnits(row.balance, Digits[row.token.decimals])
          = IF row.token \in unread THEN 0 ELSE held[row.token.symbol]
  BY <1>1, <1>2 DEF getTokenBalancesForChain, Row
<1> QED BY <1>3, <1>4

\* Who held more covers what less covered.
LEMMA HeldGrows ==
  ASSUME NEW b \in Decimal, NEW u \in Nat, NEW w \in Nat, u <= w, NEW d \in DOMAIN Digits,
         AtMost(b, Held(u, d))
  PROVE  AtMost(b, Held(w, d))
<1> DEFINE q == Pow10[b.places]  m == b.units * Pow10[Digits[d]]
<1>1. q \in Nat \ {0} /\ m \in Nat
  BY DigitsType, Pow10Type DEF Decimal
<1>2. m <= u * q
  BY DEF AtMost, Held
<1> HIDE DEF q, m
<1>3. w * q >= u * q /\ w * q \in Nat /\ u * q \in Nat
  BY <1>1, ScaledOrder
<1>4. m <= w * q
  BY <1>1, <1>2, <1>3
<1> QED BY <1>4 DEF AtMost, Held, q, m

\* Only the EVM chains have tokens here, and these convert.
LEMMA TokenFacts ==
  ASSUME NEW chain, NEW asset, NEW t \in resolveToken(Env, chain, asset)
  PROVE  chain \in EVM_CHAINS /\ t.symbol = asset /\ t.decimals \in DOMAIN Digits
<1>1. t \in listTokens(Env, chain) /\ t.symbol = asset
  BY DEF resolveToken
<1>2. chain \in EVM_CHAINS
  BY <1>1 DEF listTokens
<1>3. PICK id : \/ \E s \in SEEDS : t = TokenMetadata(s[3], s[4], s, id)
                \/ \E i \in DOMAIN Env.erc20 :
                     t = TokenMetadata(Env.erc20[i].symbol, Env.erc20[i].decimals, Env.erc20[i].address, id)
  BY <1>1, <1>2 DEF listTokens, applyOverrides, loadOverrides
<1>4. ASSUME NEW s \in SEEDS, t = TokenMetadata(s[3], s[4], s, id) PROVE t.decimals \in {6, 18}
  <2>1. s[4] \in {6, 18}
    BY DEF SEEDS
  <2> QED BY <1>4, <2>1 DEF TokenMetadata
<1>5. ASSUME NEW i \in DOMAIN Env.erc20,
             t = TokenMetadata(Env.erc20[i].symbol, Env.erc20[i].decimals, Env.erc20[i].address, id)
      PROVE  t.decimals \in DOMAIN Digits
  BY <1>5, EnvAssumption DEF TokenMetadata
<1> QED BY <1>1, <1>2, <1>3, <1>4, <1>5, DigitsAssumption

\* A set of positions has a last one.
LEMMA LastOfSet ==
  ASSUME NEW n \in Nat, NEW S \in SUBSET (1..n), S # {}
  PROVE  \E last \in S : \A i \in S : i <= last
<1> DEFINE R == {n - i : i \in S}
<1>0. \A i \in S : i \in 1..n /\ n - i \in Nat
  OBVIOUS
<1>1. R \in SUBSET Nat /\ R # {}
  BY <1>0
<1>2. PICK x \in R : \A y \in R : x <= y
  BY <1>1, LeastOfSet
<1>3. PICK last \in S : x = n - last
  BY <1>2
<1>4. ASSUME NEW i \in S PROVE i <= last
  <2>1. n - last <= n - i /\ last \in 1..n /\ i \in 1..n
    BY <1>0, <1>2, <1>3
  <2> QED BY <2>1
<1> QED BY <1>4

\* The registry of an EVM chain, for every list of configured tokens: a symbol names the
\* last well-formed entry that is meant for the chain id in force and, where there is no
\* such entry, the seed.
THEOREM LastEntryNames ==
  ASSUME NEW env, NEW n \in Nat, DOMAIN env.erc20 = 1..n, NEW chain \in EVM_CHAINS, NEW symbol
  PROVE  LET id == getEvmChainId(env, chain)
             entries == {i \in applyOverrides(env, chain, id) : env.erc20[i].symbol = symbol}
             seeds == {s \in SEEDS : s[1] = chain /\ s[2] = id /\ s[3] = symbol}
         IN  IF entries = {}
             THEN resolveToken(env, chain, symbol) = {TokenMetadata(s[3], s[4], s, id) : s \in seeds}
             ELSE \E last \in entries :
                    /\ \A i \in entries : i <= last
                    /\ resolveToken(env, chain, symbol) =
                         {TokenMetadata(symbol, env.erc20[last].decimals, env.erc20[last].address, id)}
<1> DEFINE id == getEvmChainId(env, chain)
           applied == applyOverrides(env, chain, id)
           entries == {i \in applied : env.erc20[i].symbol = symbol}
           seeds == {s \in SEEDS : s[1] = chain /\ s[2] = id /\ s[3] = symbol}
           Replaced(name, i) == \E j \in applied : j > i /\ env.erc20[j].symbol = name
           Metadata(e) == TokenMetadata(e.symbol, e.decimals, e.address, id)
<1>1. applied \subseteq 1..n
  BY DEF applyOverrides, loadOverrides
<1>2. \A a, b, c, d : TokenMetadata(a, b, c, d).symbol = a
  BY DEF TokenMetadata
<1>3. listTokens(env, chain) =
        {TokenMetadata(s[3], s[4], s, id) : s \in {s \in SEEDS : s[1] = chain /\ s[2] = id /\ ~Replaced(s[3], 0)}}
        \cup {Metadata(env.erc20[i]) : i \in {i \in applied : ~Replaced(env.erc20[i].symbol, i)}}
  BY DEF listTokens
<1> HIDE DEF applied, id
<1>4. resolveToken(env, chain, symbol) =
        {TokenMetadata(s[3], s[4], s, id) : s \in {s \in seeds : ~Replaced(symbol, 0)}}
        \cup {Metadata(env.erc20[i]) : i \in {i \in entries : ~Replaced(symbol, i)}}
  BY <1>2, <1>3 DEF resolveToken
<1>5. CASE entries = {}
  <2>1. ~Replaced(symbol, 0)
    BY <1>5
  <2> QED BY <1>4, <1>5, <2>1 DEF id, applied
<1>6. CASE entries # {}
  <2>1. PICK last \in entries : \A i \in entries : i <= last
    BY <1>1, <1>6, LastOfSet
  <2>2. last \in applied /\ last \in 1..n /\ last > 0
    <3>1. last \in applied
      BY <2>1
    <3>2. last \in 1..n
      BY <1>1, <3>1, Zenon
    <3> QED BY <3>1, <3>2
  <2>3. Replaced(symbol, 0)
    BY <2>2
  <2>4. \A i \in entries : ~Replaced(symbol, i) <=> i = last
    BY <1>1, <2>1
  <2>5. Metadata(env.erc20[last]) = TokenMetadata(symbol, env.erc20[last].decimals, env.erc20[last].address, id)
    OBVIOUS
  <2>6. resolveToken(env, chain, symbol) =
          {TokenMetadata(symbol, env.erc20[last].decimals, env.erc20[last].address, id)}
    BY <1>4, <2>3, <2>4, <2>5
  <2> QED BY <1>6, <2>1, <2>6 DEF id, applied
<1> QED BY <1>5, <1>6 DEF id, applied

\* So a symbol names one token, of the network in force.
THEOREM OneTokenASymbol ==
  ASSUME NEW env, NEW n \in Nat, DOMAIN env.erc20 = 1..n, NEW chain \in EVM_CHAINS, NEW symbol,
         NEW t \in resolveToken(env, chain, symbol), NEW o \in resolveToken(env, chain, symbol)
  PROVE  t = o /\ t.chainId = getEvmChainId(env, chain)
<1> DEFINE id == getEvmChainId(env, chain)
           entries == {i \in applyOverrides(env, chain, id) : env.erc20[i].symbol = symbol}
           seeds == {s \in SEEDS : s[1] = chain /\ s[2] = id /\ s[3] = symbol}
<1>1. \A a, b, c, d : TokenMetadata(a, b, c, d).chainId = d
  BY DEF TokenMetadata
<1>2. CASE entries = {}
  <2>1. resolveToken(env, chain, symbol) = {TokenMetadata(s[3], s[4], s, id) : s \in seeds}
    BY <1>2, LastEntryNames
  <2>2. \A s, r \in seeds : s = r
    BY DEF SEEDS
  <2> QED BY <1>1, <2>1, <2>2
<1>3. CASE entries # {}
  <2>1. PICK last \in entries :
          resolveToken(env, chain, symbol) =
            {TokenMetadata(symbol, env.erc20[last].decimals, env.erc20[last].address, id)}
    BY <1>3, LastEntryNames
  <2> QED BY <1>1, <2>1
<1> QED BY <1>2, <1>3

\* A fee is an amount, on an EVM chain one of at most the digits kept of 18.
LEMMA FeeType ==
  ASSUME NEW chain \in CHAIN_NAMES, NEW asset, NEW amount,
         NEW fee \in estimateFee(Env, chain, asset, amount, GasPrices)
  PROVE  fee \in Decimal /\ (chain \in EVM_CHAINS => fee.places \in 0..Digits[18])
<1>1. GasPrices \subseteq Nat /\ rpcConfiguredFor(Env, chain)
  BY PreparingAssumption DEF estimateFee
<1>2. CASE chain \in EVM_CHAINS
  <2>1. PICK price \in GasPrices, gas \in {TOKEN_TRANSFER_GAS, NATIVE_TRANSFER_GAS} : fee = Amount(price * gas, 18)
    <3>1. fee \in EvmFees(Env, chain, asset, GasPrices)
      BY <1>1, <1>2 DEF estimateFee, EVM_CHAINS, CHAIN_NAMES
    <3> QED BY <3>1 DEF EvmFees, gasCost
  <2>2. price * gas \in Nat
    <3>1. price \in Nat /\ gas \in {65, 21}
      BY <1>1 DEF TOKEN_TRANSFER_GAS, NATIVE_TRANSFER_GAS
    <3> QED BY <3>1
  <2> QED BY <2>1, <2>2, AmountShown, DigitsType
<1>3. CASE chain \notin EVM_CHAINS
  <2>1. fee \in SolanaFees(Env, asset, amount, GasPrices) \cup BitcoinFees(GasPrices)
    BY <1>1, <1>3 DEF estimateFee, CHAIN_NAMES, EVM_CHAINS, TronFees, TonFees
  <2>2. PICK price \in Nat : fee = Amount(price, 9)
    BY <1>1, <2>1 DEF SolanaFees, BitcoinFees
  <2> QED BY <1>3, <2>2, AmountShown, DigitsType
<1> QED BY <1>2, <1>3

\* What canPayGas lets pass was there.
LEMMA GasCovered ==
  ASSUME NEW units \in Nat, NEW fee \in Decimal, fee.places \in 0..Digits[18],
         units >= toBaseUnits(fee, Digits[18])
  PROVE  AtMost(fee, Held(units, 18))
<1> DEFINE n == Digits[18]  q == Pow10[fee.places]  x == toBaseUnits(fee, n)  m == fee.units * Pow10[n]
<1>1. n \in Nat /\ q \in Nat \ {0}
  BY DigitsType, Pow10Type DEF Decimal
<1>2. Converts(fee, n)
  BY <1>1 DEF Converts
<1>3. x \in Nat /\ x * q = m
  BY <1>1, <1>2, BaseUnitsValue
<1>4. units >= x
  OBVIOUS
<1> HIDE DEF n, q, x, m
<1>5. units * q >= x * q /\ units * q \in Nat /\ x * q \in Nat
  BY <1>1, <1>3, <1>4, ScaledOrder
<1>6. m <= units * q
  BY <1>3, <1>5
<1> QED BY <1>6 DEF AtMost, Held, n, q, m

-----------------------------------------------------------------------------
(* What a call of prepare knows at each await.                             *)

PreparingPcs == {"upsert", "verify", "tokens", "gas", "store"}

\* An address only ever spends, so what a balance covered it covered at first.
HoldingOK ==
  /\ DOMAIN holding = DOMAIN workload.funds
  /\ \A a \in DOMAIN holding :
       /\ DOMAIN holding[a] = DOMAIN workload.funds[a]
       /\ \A s \in DOMAIN holding[a] : holding[a][s] \in Nat /\ holding[a][s] <= workload.funds[a][s]

\* The address was registered for the chain of the behaviour.
Registered(a) == \E row \in WalletRows : row.chain = workload.chain /\ row.address = a

\* What the address held at first covers the plan's tokens, and its gas.
TokensCovered(asset, amount, a) ==
  \A t \in resolveToken(Env, workload.chain, asset) :
    AtMost(amount, Held(workload.funds[a][t.symbol], t.decimals))

FeeCovered(fee, a) == AtMost(fee, Held(workload.funds[a][nativeAssetFor[workload.chain]], 18))

PlanCovered(asset, amount, fee) ==
  resolveToken(Env, workload.chain, asset) # {} =>
    \E a \in DOMAIN workload.funds : TokensCovered(asset, amount, a) /\ FeeCovered(fee, a)

\* Past the tokens' check one address covered the tokens, and past the other the gas too.
PlanOK(s) ==
  /\ s.pc \in {"verify", "tokens", "gas", "store"} => s \in PreparingCall /\ "prepare" \in workload.ops
  /\ s.pc = "upsert" => s \in WalletCall
  /\ s.pc \in {"tokens", "gas"} => Registered(s.from)
  /\ s.pc = "gas" => TokensCovered(s.asset, s.amount, s.from)
  /\ s.pc = "store" => PlanCovered(s.asset, s.amount, s.fee)

PreparingInv ==
  /\ workload \in Workloads
  /\ PreparingTypeOK /\ HoldingOK
  /\ \A c \in Calls : PlanOK(call[c])
  /\ \A i \in intents : PlanCovered(i.asset, i.amount, i.fee)

LEMMA PlansCovered == PreparingInv => PlanWasCovered
<1> SUFFICES ASSUME PreparingInv, NEW i \in intents, NEW t \in resolveToken(Env, workload.chain, i.asset)
             PROVE  \E a \in DOMAIN workload.funds :
                      /\ AtMost(i.amount, Held(workload.funds[a][t.symbol], t.decimals))
                      /\ AtMost(i.fee, Held(workload.funds[a][nativeAssetFor[workload.chain]], 18))
  BY DEF PlanWasCovered
<1>1. PICK a \in DOMAIN workload.funds : TokensCovered(i.asset, i.amount, a) /\ FeeCovered(i.fee, a)
  BY DEF PreparingInv, PlanCovered
<1> QED BY <1>1 DEF TokensCovered, FeeCovered

\* What a call knows is about constants: steps elsewhere leave it alone.
LEMMA PlanStays ==
  ASSUME workload' = workload, NEW s
  PROVE  /\ PlanOK(s) => PlanOK(s)'
         /\ s.pc \notin PreparingPcs => PlanOK(s)'
<1>1. s.pc \notin PreparingPcs => PlanOK(s)'
  BY DEF PlanOK, PreparingPcs
<1>2. PlanOK(s) => PlanOK(s)'
  BY DEF PlanOK, Registered, TokensCovered, FeeCovered, PlanCovered
<1> QED BY <1>1, <1>2

\* A step of prepare, or of a registration, moves one call to where it should be.
LEMMA CallMoved ==
  ASSUME PreparingInv, DOMAIN call = Calls, NEW c \in Calls, NEW s, Goto(c, s), PlanOK(s), workload' = workload
  PROVE  \A d \in Calls : PlanOK(call[d])'
<1> SUFFICES ASSUME NEW d \in Calls PROVE PlanOK(call[d])'
  OBVIOUS
<1>1. call'[d] = (IF d = c THEN s ELSE call[d])
  BY DEF Goto
<1>2. CASE d = c
  <2>1. PlanOK(s)' /\ call'[d] = s
    BY <1>1, <1>2, PlanStays
  <2> QED BY <2>1 DEF PlanOK, Registered, TokensCovered, FeeCovered, PlanCovered
<1>3. CASE d # c
  <2>1. call'[d] = call[d] /\ PlanOK(call[d])
    BY <1>1, <1>3 DEF PreparingInv
  <2> QED BY <2>1 DEF PlanOK, Registered, TokensCovered, FeeCovered, PlanCovered
<1> QED BY <1>2, <1>3

LEMMA IdlePlan == PlanOK(Idle)
  BY DEF PlanOK, Idle

\* Where a token is asked for, the addresses of the chain say what they hold of it.
LEMMA FundsKnown ==
  ASSUME PreparingInv, NEW a, Registered(a), "prepare" \in workload.ops,
         NEW asset \in Wanted, resolveToken(Env, workload.chain, asset) # {}
  PROVE  /\ a \in DOMAIN workload.funds
         /\ \A s \in {nativeAssetFor[workload.chain], asset} :
              /\ s \in DOMAIN workload.funds[a] /\ workload.funds[a][s] \in Nat
              /\ holding[a][s] \in Nat /\ holding[a][s] <= workload.funds[a][s]
<1>1. workload \in Workloads /\ HoldingOK
  BY DEF PreparingInv
<1>2. PICK row \in WalletRows : row.chain = workload.chain /\ row.address = a
  BY DEF Registered
<1>3. /\ a \in DOMAIN workload.funds
      /\ nativeAssetFor[workload.chain] \in DOMAIN workload.funds[a] /\ asset \in DOMAIN workload.funds[a]
  BY <1>1, <1>2, PreparingAssumption
<1>4. \A s \in DOMAIN workload.funds[a] : workload.funds[a][s] \in Nat
  BY <1>1, <1>3, PreparingAssumption
<1> QED BY <1>1, <1>3, <1>4 DEF HoldingOK

\* prepare's comparison of a token's balance.
LEMMA TokensChecked ==
  ASSUME PreparingInv, NEW c \in Calls, CheckTokens(c)
  PROVE  PlanOK([call[c] EXCEPT !.pc = "gas"])
<1> DEFINE s == call[c]
<1>1. /\ s \in [pc: {"tokens", "gas"}, user: Users, asset: Wanted, amount: Amounts,
                from: {row.address : row \in WalletRows}]
      /\ "prepare" \in workload.ops /\ Registered(s.from)
  BY DEF CheckTokens, At, PreparingInv, PlanOK, PreparingCall
<1>2. ASSUME NEW t \in resolveToken(Env, workload.chain, s.asset)
      PROVE  AtMost(s.amount, Held(workload.funds[s.from][t.symbol], t.decimals))
  <2> DEFINE units == holding[s.from][t.symbol]  first == workload.funds[s.from][t.symbol]
             shown == Amount(units, t.decimals)
  <2>1. workload.chain \in EVM_CHAINS /\ t.symbol = s.asset /\ t.decimals \in DOMAIN Digits
    BY TokenFacts
  <2>2. units \in Nat /\ first \in Nat /\ units <= first
    BY <1>1, <2>1, FundsKnown
  <2>3. shown \in getTokenBalance(Env, workload.chain, holding[s.from], s.asset)
    <3>1. workload.chain # "SOL"
      BY <2>1 DEF EVM_CHAINS
    <3> QED BY <3>1 DEF getTokenBalance, EvmTokenBalance, TokenAmount
  <2>4. isAtLeast(shown, s.amount, Digits[t.decimals])
    BY <2>3 DEF CheckTokens, Covers
  <2>5. s.amount \in Decimal /\ shown \in Decimal /\ Digits[t.decimals] \in Nat
    BY <1>1, <2>1, <2>2, AmountShown, DigitsType, PreparingAssumption
  <2> HIDE DEF units, first, shown, s
  <2>6. AtMost(s.amount, shown)
    BY <2>4, <2>5, ComparesAsFractions
  <2>7. AtMost(s.amount, Held(units, t.decimals))
    BY <2>1, <2>2, <2>5, <2>6, AmountShown DEF shown
  <2>8. AtMost(s.amount, Held(first, t.decimals))
    BY <2>1, <2>2, <2>5, <2>7, HeldGrows
  <2> QED BY <2>8 DEF first
<1> DEFINE new == [s EXCEPT !.pc = "gas"]
<1>3. /\ new \in PreparingCall /\ new.pc = "gas"
      /\ new.asset = s.asset /\ new.amount = s.amount /\ new.from = s.from
  BY <1>1 DEF PreparingCall
<1> HIDE DEF new, s
<1>4. TokensCovered(new.asset, new.amount, new.from)
  BY <1>2, <1>3 DEF TokensCovered
<1>5. PlanOK(new)
  BY <1>1, <1>3, <1>4 DEF PlanOK
<1> QED BY <1>5 DEF new, s

\* prepare's check of the gas, at the address whose tokens it looked at.
LEMMA GasChecked ==
  ASSUME PreparingInv, NEW c \in Calls, At(c, "gas"),
         NEW fee \in estimateFee(Env, workload.chain, call[c].asset, call[c].amount, GasPrices),
         ChecksGas(workload.chain) => canPayGas(workload.chain, holding[GasWallet(c)], fee)
  PROVE  PlanOK([pc |-> "store", user |-> call[c].user, asset |-> call[c].asset,
                 amount |-> call[c].amount, fee |-> fee])
<1> DEFINE s == call[c]
           new == [pc |-> "store", user |-> s.user, asset |-> s.asset, amount |-> s.amount, fee |-> fee]
<1>1. /\ s \in [pc: {"tokens", "gas"}, user: Users, asset: Wanted, amount: Amounts,
                from: {row.address : row \in WalletRows}]
      /\ "prepare" \in workload.ops /\ Registered(s.from) /\ TokensCovered(s.asset, s.amount, s.from)
  BY DEF At, PreparingInv, PlanOK, PreparingCall
<1>2. fee \in Decimal /\ (workload.chain \in EVM_CHAINS => fee.places \in 0..Digits[18])
  BY FeeType, PreparingAssumption DEF PreparingInv
<1>3. ASSUME resolveToken(Env, workload.chain, s.asset) # {}
      PROVE  s.from \in DOMAIN workload.funds /\ FeeCovered(fee, s.from)
  <2> DEFINE native == nativeAssetFor[workload.chain]
             units == holding[s.from][native]  first == workload.funds[s.from][native]
  <2>1. workload.chain \in EVM_CHAINS
    BY <1>3, TokenFacts
  <2>2. s.from \in DOMAIN workload.funds /\ units \in Nat /\ first \in Nat /\ units <= first
    BY <1>1, <1>3, FundsKnown
  <2>3. units >= toBaseUnits(fee, Digits[18])
    BY <2>1 DEF ChecksGas, canPayGas, GasWallet
  <2> HIDE DEF units, first
  <2>4. AtMost(fee, Held(units, 18))
    BY <1>2, <2>1, <2>2, <2>3, GasCovered
  <2>5. AtMost(fee, Held(first, 18))
    BY <1>2, <2>2, <2>4, DigitsType, HeldGrows
  <2> QED BY <2>2, <2>5 DEF FeeCovered, first
<1>4. PlanCovered(s.asset, s.amount, fee)
  BY <1>1, <1>3 DEF PlanCovered
<1>5. /\ new \in PreparingCall /\ new.pc = "store"
      /\ new.asset = s.asset /\ new.amount = s.amount /\ new.fee = fee
  BY <1>1, <1>2 DEF PreparingCall
<1> HIDE DEF new, s
<1>6. PlanOK(new)
  BY <1>1, <1>4, <1>5 DEF PlanOK
<1> QED BY <1>6 DEF new, s

-----------------------------------------------------------------------------
(* Through the steps of Preparing, and those of others.                    *)

\* What holds of rows and plans while workload and holding stay.
LEMMA RowsKept ==
  ASSUME PreparingInv, UNCHANGED <<workload, holding>>,
         DOMAIN wallet' = Users, \A u \in Users : wallet'[u] \subseteq WalletRows,
         \A i \in intents' : \/ i \in intents
                             \/ /\ i \in [user: Users, asset: Wanted, amount: Amounts, fee: Decimal]
                                /\ PlanCovered(i.asset, i.amount, i.fee),
         \A c \in Calls : PlanOK(call[c])'
  PROVE  PreparingInv'
<1>1. (workload \in Workloads)' /\ HoldingOK'
  BY DEF PreparingInv, HoldingOK
<1>2. PreparingTypeOK'
  BY DEF PreparingInv, PreparingTypeOK, WalletTypeOK
<1>3. \A i \in intents' : PlanCovered(i.asset, i.amount, i.fee)
  BY DEF PreparingInv
<1>4. ASSUME NEW i \in intents' PROVE PlanCovered(i.asset, i.amount, i.fee)'
  BY <1>3, <1>4 DEF PlanCovered, TokensCovered, FeeCovered
<1> QED BY <1>1, <1>2, <1>4 DEF PreparingInv

LEMMA WalletRowsKept ==
  ASSUME PreparingInv
  PROVE  DOMAIN wallet = Users /\ \A u \in Users : wallet[u] \subseteq WalletRows
  BY DEF PreparingInv, PreparingTypeOK, WalletTypeOK

LEMMA PreparingPlans ==
  ASSUME PreparingInv, DOMAIN call = Calls, PreparingNext
  PROVE  PreparingInv'
<1> USE WalletRowsKept
<1>1. ASSUME NEW c \in Calls, NEW u \in Users, Prepare(c, u) PROVE PreparingInv'
  <2>1. PICK asset \in Wanted, amount \in Amounts, to \in Recipients :
          Goto(c, [pc |-> "verify", user |-> u, asset |-> asset, amount |-> amount, to |-> to])
    BY <1>1 DEF Prepare
  <2> DEFINE s == [pc |-> "verify", user |-> u, asset |-> asset, amount |-> amount, to |-> to]
  <2>2. s \in PreparingCall /\ s.pc = "verify" /\ "prepare" \in workload.ops
    BY <1>1 DEF PreparingCall, Prepare, Free
  <2> HIDE DEF s
  <2>3. PlanOK(s)
    BY <2>2 DEF PlanOK
  <2>4. UNCHANGED <<workload, holding, wallet, intents>>
    BY <1>1 DEF Prepare, preparingVars, walletVars
  <2>5. \A d \in Calls : PlanOK(call[d])'
    BY <2>1, <2>3, <2>4, CallMoved DEF s
  <2> QED BY <2>4, <2>5, RowsKept
<1>2. ASSUME NEW c \in Calls, FindWallet(c) PROVE PreparingInv'
  <2> DEFINE tokens == resolveToken(Env, workload.chain, call[c].asset)
             s(pc, row) == [pc |-> pc, user |-> call[c].user, asset |-> call[c].asset,
                            amount |-> call[c].amount, from |-> row.address]
  <2>1. PICK row \in wallet[call[c].user] :
          row.chain = workload.chain /\ Goto(c, s(IF tokens = {} THEN "gas" ELSE "tokens", row))
    BY <1>2 DEF FindWallet
  <2>2. /\ call[c] \in [pc: {"verify"}, user: Users, asset: Wanted, amount: Amounts, to: Recipients]
        /\ "prepare" \in workload.ops
    BY <1>2 DEF FindWallet, At, PreparingInv, PlanOK, PreparingCall
  <2>3. row \in WalletRows
    BY <2>2
  <2>4. \A pc \in {"gas", "tokens"} :
          /\ s(pc, row) \in PreparingCall /\ s(pc, row).pc = pc /\ s(pc, row).from = row.address
          /\ s(pc, row).asset = call[c].asset
    BY <2>2, <2>3 DEF PreparingCall
  <2>5. Registered(row.address)
    BY <2>1, <2>3 DEF Registered
  <2> HIDE DEF s
  <2>6. UNCHANGED <<workload, holding, wallet, intents>>
    BY <1>2 DEF FindWallet, preparingVars, walletVars
  <2>7. PlanOK(s(IF tokens = {} THEN "gas" ELSE "tokens", row))
    BY <2>2, <2>4, <2>5 DEF PlanOK, TokensCovered
  <2>8. \A d \in Calls : PlanOK(call[d])'
    BY <2>1, <2>6, <2>7, CallMoved
  <2> QED BY <2>6, <2>8, RowsKept
<1>3. ASSUME NEW c \in Calls, CheckTokens(c) PROVE PreparingInv'
  <2>1. UNCHANGED <<workload, holding, wallet, intents>> /\ Goto(c, [call[c] EXCEPT !.pc = "gas"])
    BY <1>3 DEF CheckTokens, preparingVars, walletVars
  <2>2. \A d \in Calls : PlanOK(call[d])'
    BY <1>3, <2>1, CallMoved, TokensChecked
  <2> QED BY <2>1, <2>2, RowsKept
<1>4. ASSUME NEW c \in Calls, CheckGas(c) PROVE PreparingInv'
  <2>1. PICK fee \in estimateFee(Env, workload.chain, call[c].asset, call[c].amount, GasPrices) :
          /\ ChecksGas(workload.chain) => canPayGas(workload.chain, holding[GasWallet(c)], fee)
          /\ Goto(c, [pc |-> "store", user |-> call[c].user, asset |-> call[c].asset,
                      amount |-> call[c].amount, fee |-> fee])
    BY <1>4 DEF CheckGas
  <2>2. UNCHANGED <<workload, holding, wallet, intents>> /\ At(c, "gas")
    BY <1>4 DEF CheckGas, preparingVars, walletVars
  <2>3. \A d \in Calls : PlanOK(call[d])'
    BY <2>1, <2>2, CallMoved, GasChecked
  <2> QED BY <2>2, <2>3, RowsKept
<1>5. ASSUME NEW c \in Calls, StoreIntent(c) PROVE PreparingInv'
  <2> DEFINE new == [user |-> call[c].user, asset |-> call[c].asset, amount |-> call[c].amount, fee |-> call[c].fee]
  <2>1. /\ call[c] \in [pc: {"store"}, user: Users, asset: Wanted, amount: Amounts, fee: Decimal]
        /\ PlanCovered(call[c].asset, call[c].amount, call[c].fee)
    BY <1>5 DEF StoreIntent, At, PreparingInv, PlanOK, PreparingCall
  <2>2. /\ new \in [user: Users, asset: Wanted, amount: Amounts, fee: Decimal]
        /\ PlanCovered(new.asset, new.amount, new.fee)
    BY <2>1
  <2>3. /\ UNCHANGED <<workload, holding, wallet>> /\ Goto(c, Idle)
        /\ intents' \subseteq intents \cup {new}
    BY <1>5 DEF StoreIntent, walletVars, Answer
  <2> HIDE DEF new
  <2>4. \A d \in Calls : PlanOK(call[d])'
    BY <2>3, CallMoved, IdlePlan
  <2> QED BY <2>2, <2>3, <2>4, RowsKept
<1>6. ASSUME NEW c \in Calls, NEW u \in Users, RegisterWallets(c, u), UNCHANGED intents PROVE PreparingInv'
  <2>1. PICK body \in Registrations : Goto(c, [pc |-> "upsert", user |-> u, body |-> body])
    BY <1>6 DEF RegisterWallets
  <2> DEFINE s == [pc |-> "upsert", user |-> u, body |-> body]
  <2>2. s \in WalletCall /\ s.pc = "upsert"
    BY DEF WalletCall
  <2> HIDE DEF s
  <2>3. PlanOK(s)
    BY <2>2 DEF PlanOK
  <2>4. UNCHANGED <<workload, holding, wallet, intents>>
    BY <1>6 DEF RegisterWallets, walletVars
  <2>5. \A d \in Calls : PlanOK(call[d])'
    BY <2>1, <2>3, <2>4, CallMoved DEF s
  <2> QED BY <2>4, <2>5, RowsKept
<1>7. ASSUME NEW c \in Calls, UpsertWallets(c), UNCHANGED intents PROVE PreparingInv'
  <2> DEFINE u == call[c].user  given == Given(call[c].body)
  <2>1. call[c] \in WalletCall
    BY <1>7 DEF UpsertWallets, At, PreparingInv, PlanOK
  <2>2. u \in Users /\ given \subseteq WalletRows
    BY <2>1 DEF WalletCall, WalletRows
  <2>3. \/ wallet' = [wallet EXCEPT ![u] = given \cup {row \in @ : \A g \in given : g.chain # row.chain}]
        \/ wallet' = wallet
    BY <1>7 DEF UpsertWallets
  <2>4. UNCHANGED <<workload, holding, intents>> /\ Goto(c, Idle)
    BY <1>7 DEF UpsertWallets, Answer
  <2> HIDE DEF u, given
  <2>5. DOMAIN wallet' = Users /\ \A v \in Users : wallet'[v] \subseteq WalletRows
    BY <2>2, <2>3
  <2>6. \A d \in Calls : PlanOK(call[d])'
    BY <2>4, CallMoved, IdlePlan
  <2> QED BY <2>4, <2>5, <2>6, RowsKept
<1>8. ASSUME NEW a \in DOMAIN holding, NEW asset \in DOMAIN holding[a], SpendElsewhere(a, asset), UNCHANGED intents
      PROVE  PreparingInv'
  <2>1. /\ holding' = [holding EXCEPT ![a][asset] = 0] /\ UNCHANGED <<wallet, workload, call, intents>>
    BY <1>8 DEF SpendElsewhere, apiVars
  <2>2. HoldingOK'
    <3>1. /\ DOMAIN holding' = DOMAIN holding
          /\ \A b \in DOMAIN holding : holding'[b] = IF b = a THEN [holding[b] EXCEPT ![asset] = 0] ELSE holding[b]
      BY <2>1
    <3>2. \A b \in DOMAIN holding : /\ DOMAIN holding'[b] = DOMAIN holding[b]
                                    /\ \A s \in DOMAIN holding[b] : holding'[b][s] \in {0, holding[b][s]}
      BY <3>1
    <3>3. \A b \in DOMAIN holding : \A s \in DOMAIN holding[b] :
            workload.funds[b][s] \in Nat
      BY PreparingAssumption DEF PreparingInv, HoldingOK
    <3>4. \A b \in DOMAIN holding : \A s \in DOMAIN holding[b] :
            holding'[b][s] \in Nat /\ holding'[b][s] <= workload.funds[b][s]
      BY <3>2, <3>3 DEF PreparingInv, HoldingOK
    <3> QED BY <2>1, <3>1, <3>2, <3>4 DEF PreparingInv, HoldingOK
  <2>3. PreparingTypeOK'
    BY <2>1 DEF PreparingInv, PreparingTypeOK, WalletTypeOK
  <2>4. \A c \in Calls : PlanOK(call[c])'
    BY <2>1, PlanStays DEF PreparingInv
  <2>5. \A i \in intents' : PlanCovered(i.asset, i.amount, i.fee)'
    BY <2>1 DEF PreparingInv, PlanCovered, TokensCovered, FeeCovered
  <2> QED BY <2>1, <2>2, <2>3, <2>4, <2>5 DEF PreparingInv
<1> QED BY <1>1, <1>2, <1>3, <1>4, <1>5, <1>6, <1>7, <1>8 DEF PreparingNext, WalletNext

\* Other components' steps: calls that move there are no longer of prepare.
LEMMA PlansElsewhere ==
  ASSUME PreparingInv, UNCHANGED <<workload, holding>>,
         DOMAIN wallet' = Users, \A u \in Users : wallet'[u] \subseteq wallet[u],
         intents' \subseteq intents,
         \A c \in Calls : call'[c] = call[c] \/ call'[c].pc \notin PreparingPcs
  PROVE  PreparingInv'
<1>1. ASSUME NEW c \in Calls PROVE PlanOK(call[c])'
  <2>1. CASE call'[c] = call[c]
    <3>1. PlanOK(call[c])
      BY DEF PreparingInv
    <3> QED BY <2>1, <3>1 DEF PlanOK, Registered, TokensCovered, FeeCovered, PlanCovered
  <2>2. CASE call'[c].pc \notin PreparingPcs
    BY <2>2 DEF PlanOK, PreparingPcs
  <2> QED BY <2>1, <2>2
<1>2. \A u \in Users : wallet'[u] \subseteq WalletRows
  BY WalletRowsKept
<1> QED BY <1>1, <1>2, RowsKept

LEMMA PreparingStarts ==
  ASSUME ApiInit, PreparingInit
  PROVE  PreparingInv
<1>1. workload \in Workloads /\ holding = workload.funds /\ wallet = [u \in Users |-> {}] /\ intents = {}
  BY DEF ApiInit, PreparingInit, WalletInit
<1>2. \A c \in Calls : PlanOK(call[c])
  <2>1. \A c \in Calls : call[c] = Idle
    BY DEF ApiInit
  <2> QED BY <2>1, IdlePlan
<1>3. PreparingTypeOK
  BY <1>1 DEF PreparingTypeOK, WalletTypeOK
<1>4. HoldingOK
  <2>1. \A a \in DOMAIN holding : \A s \in DOMAIN holding[a] : holding[a][s] \in Nat
    BY <1>1, PreparingAssumption
  <2> QED BY <1>1, <2>1 DEF HoldingOK
<1> QED BY <1>1, <1>2, <1>3, <1>4 DEF PreparingInv
===========================================================================
