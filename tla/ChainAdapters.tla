-------------------------- MODULE ChainAdapters --------------------------
(***************************************************************************)
(* The eight chains as the API sees them: what a deployment points at, the *)
(* tokens configured there, the addresses an adapter accepts, and what the *)
(* adapter makes of what the node says.  The operators give the answer of  *)
(* a call that succeeds; any of them may throw instead.                    *)
(*                                                                         *)
(* env is a deployment: chainId holds the chain ids that are set, rpc the  *)
(* chains with an RPC url, erc20 and spl the configured tokens in order,   *)
(* cluster and solanaUrl what SOLANA_CLUSTER and the url say.  A held is   *)
(* what an address holds on one chain, in base units by asset.             *)
(***************************************************************************)
EXTENDS Money, Sequences, FiniteSets

CONSTANT Digits  \* bound: how many digits are kept of so many decimals

ASSUME DigitsAssumption == {6, 9, 18} \subseteq DOMAIN Digits /\ \A d \in DOMAIN Digits : Digits[d] \in Nat

CHAIN_NAMES == {"TON", "BSC", "ETH", "SOL", "BASE", "POLYGON", "TRON", "BTC"}
EVM_CHAINS == {"ETH", "BSC", "BASE", "POLYGON"}

DefaultChainId == [ETH |-> 1, BSC |-> 56, BASE |-> 8453, POLYGON |-> 137]
getEvmChainId(env, chain) ==
  IF chain \in DOMAIN env.chainId THEN env.chainId[chain] ELSE DefaultChainId[chain]

nativeAssetFor == [TON |-> "TON", BSC |-> "BNB", ETH |-> "ETH", SOL |-> "SOL",
                   BASE |-> "ETH", POLYGON |-> "POL", TRON |-> "TRX", BTC |-> "BTC"]

\* The chain ids of NETWORK_PROFILES.
KnownIds == [ETH |-> {11155111, 1}, BSC |-> {97, 56}, BASE |-> {84532, 8453}, POLYGON |-> {80002, 137}]

rpcConfiguredFor(env, chain) == chain \in env.rpc

\* The chains the health report complains of.
validateNetworkConfiguration(env) ==
  {chain \in DOMAIN env.chainId : rpcConfiguredFor(env, chain) /\ env.chainId[chain] \notin KnownIds[chain]}
  \cup {chain \in CHAIN_NAMES : ~rpcConfiguredFor(env, chain)}

-----------------------------------------------------------------------------
(* The token registries.                                                   *)

TokenMetadata(symbol, decimals, address, chainId) ==
  [symbol |-> symbol, decimals |-> decimals, address |-> address, chainId |-> chainId]

\* Chain, chain id, symbol and decimals; these four stand for the contract's address.
SEEDS ==
  {<<"ETH", 1, "USDC", 6>>, <<"ETH", 1, "USDT", 6>>, <<"ETH", 11155111, "USDC", 6>>,
   <<"BSC", 56, "USDT", 18>>, <<"BSC", 56, "USDC", 18>>,
   <<"BASE", 8453, "USDC", 6>>, <<"BASE", 84532, "USDC", 6>>,
   <<"POLYGON", 137, "USDC", 6>>, <<"POLYGON", 80002, "USDC", 6>>}

\* ERC20_TOKEN_CONFIG: entries that are malformed are dropped one by one.
loadOverrides(env) == {i \in DOMAIN env.erc20 : env.erc20[i].wellFormed}

\* An entry without a chain id, 0 here, is meant for every network of its chain.
applyOverrides(env, chain, id) ==
  {i \in loadOverrides(env) : env.erc20[i].chain = chain /\ env.erc20[i].chainId \in {0, id}}

\* A later entry of a symbol replaces an earlier one, and the seed.
listTokens(env, chain) ==
  IF chain \notin EVM_CHAINS THEN {}
  ELSE LET id == getEvmChainId(env, chain)
           applied == applyOverrides(env, chain, id)
           Replaced(symbol, i) == \E j \in applied : j > i /\ env.erc20[j].symbol = symbol
           Metadata(entry) == TokenMetadata(entry.symbol, entry.decimals, entry.address, id)
       IN  {TokenMetadata(s[3], s[4], s, id) : s \in {s \in SEEDS : s[1] = chain /\ s[2] = id /\ ~Replaced(s[3], 0)}}
           \cup {Metadata(env.erc20[i]) : i \in {i \in applied : ~Replaced(env.erc20[i].symbol, i)}}

\* The token as a set, empty for null.
resolveToken(env, chain, asset) == {t \in listTokens(env, chain) : t.symbol = asset}

resolveSolanaCluster(env) ==
  IF env.cluster # "unset" THEN env.cluster
  ELSE IF env.solanaUrl = "mainnet" THEN "mainnet" ELSE "devnet"

SplSeeds(cluster) ==
  IF cluster = "devnet" THEN <<TokenMetadata("USDC", 6, "devnet USDC", 0)>> ELSE <<>>

\* SOLANA_SPL_TOKENS: one malformed entry drops them all.
SplOverrides(env) ==
  IF \A i \in DOMAIN env.spl : env.spl[i].wellFormed
  THEN [i \in DOMAIN env.spl |-> TokenMetadata(env.spl[i].symbol, env.spl[i].decimals, env.spl[i].address, 0)]
  ELSE <<>>

listSplTokens(env) == SplOverrides(env) \o SplSeeds(resolveSolanaCluster(env))

\* The first of its symbol.
resolveSplToken(env, asset) ==
  LET tokens == listSplTokens(env)
  IN  {tokens[i] : i \in {i \in DOMAIN tokens : /\ tokens[i].symbol = asset
                                                /\ \A j \in 1..(i - 1) : tokens[j].symbol # asset}}

\* The adapter's listTokens and its resolveToken.
AdapterTokens(env, chain) ==
  IF chain = "SOL" THEN {listSplTokens(env)[i] : i \in DOMAIN listSplTokens(env)} ELSE listTokens(env, chain)
AdapterToken(env, chain, asset) ==
  IF chain = "SOL" THEN resolveSplToken(env, asset) ELSE resolveToken(env, chain, asset)

-----------------------------------------------------------------------------
(* Addresses, by the formats an adapter's regular expression lets in.      *)

\* A mixed-case address whose checksum is wrong passes the adapter, not ethers.
EvmFormats == {"0x", "0x bad checksum"}
SolanaFormats == {"solana", "tron", "bitcoin legacy"}
TronFormats == {"tron"}
TonFormats == {"ton"}
BitcoinFormats == {"bitcoin legacy", "bitcoin bech32", "tron", "solana"}

isValidAddress(chain, address) ==
  address.format \in CASE chain \in EVM_CHAINS -> EvmFormats
                       [] chain = "SOL" -> SolanaFormats
                       [] chain = "TRON" -> TronFormats
                       [] chain = "TON" -> TonFormats
                       [] chain = "BTC" -> BitcoinFormats

getAddress(address) == address.format = "0x"

-----------------------------------------------------------------------------
(* Balances, as the sets of what a call that succeeds can answer.          *)

Amount(units, decimals) == fromBaseUnits(units, Digits[decimals])

TokenAmount(held, tokens) == {Amount(held[t.symbol], t.decimals) : t \in tokens}

EvmTokenBalance(env, chain, held, asset) == TokenAmount(held, resolveToken(env, chain, asset))

\* No token account is a balance of nought.
SplTokenBalance(env, held, asset) == TokenAmount(held, resolveSplToken(env, asset))

hasTokenBalance(chain) == chain \in EVM_CHAINS \cup {"SOL"}
getTokenBalance(env, chain, held, asset) ==
  IF chain = "SOL" THEN SplTokenBalance(env, held, asset) ELSE EvmTokenBalance(env, chain, held, asset)

\* getBalance of an EVM adapter, without an asset.
EvmBalance(chain, held) == Amount(held[nativeAssetFor[chain]], 18)
SolanaBalance(held) == Amount(held["SOL"], 9)
TronBalance(held) == Amount(held["TRX"], 6)
TonBalance(held) == Amount(held["TON"], 9)
\* What the address ever received, spent or not.
BitcoinBalance(held) == Amount(held["BTC received"], 9)

getBalance(chain, held) ==
  CASE chain \in EVM_CHAINS -> EvmBalance(chain, held)
    [] chain = "SOL" -> SolanaBalance(held)
    [] chain = "TRON" -> TronBalance(held)
    [] chain = "TON" -> TonBalance(held)
    [] chain = "BTC" -> BitcoinBalance(held)

-----------------------------------------------------------------------------
(* Fees and plans.                                                         *)

\* In thousands; a gas price is in base units of the kept digits.
NATIVE_TRANSFER_GAS == 21
TOKEN_TRANSFER_GAS == 65

gasCost(price, gas) == Amount(price * gas, 18)

EvmFees(env, chain, asset, prices) ==
  LET gas == IF resolveToken(env, chain, asset) # {} THEN TOKEN_TRANSFER_GAS ELSE NATIVE_TRANSFER_GAS
  IN  {gasCost(price, gas) : price \in prices}

\* The message is built first: the asset must be SOL or a configured token, the amount convert.
SolanaBuilds(env, asset, amount) ==
  LET tokens == resolveSplToken(env, asset)
  IN  IF asset = "SOL" THEN Converts(amount, Digits[9])
      ELSE tokens # {} /\ \A t \in tokens : Converts(amount, Digits[t.decimals])

\* A node that cannot price the message makes the fee nought.
SolanaFees(env, asset, amount, prices) ==
  IF SolanaBuilds(env, asset, amount) THEN {Amount(price, 9) : price \in prices \cup {0}} ELSE {}

\* Both throw whatever the asset.
TronFees == {}
TonFees == {}
BitcoinFees(prices) == {Amount(price, 9) : price \in prices}

\* What estimateFee can answer; nothing if it always throws.
estimateFee(env, chain, asset, amount, prices) ==
  IF ~rpcConfiguredFor(env, chain) THEN {}
  ELSE CASE chain \in EVM_CHAINS -> EvmFees(env, chain, asset, prices)
         [] chain = "SOL" -> SolanaFees(env, asset, amount, prices)
         [] chain = "TRON" -> TronFees
         [] chain = "TON" -> TonFees
         [] chain = "BTC" -> BitcoinFees(prices)

\* canPayGas of an EVM adapter.
canPayGas(chain, held, fee) == held[nativeAssetFor[chain]] >= toBaseUnits(fee, Digits[18])

\* Whether buildTokenTransfer finds something to sign; no node is needed.
buildTokenTransfer(to, amount, token) == getAddress(to) /\ Converts(amount, Digits[token.decimals])

-----------------------------------------------------------------------------
(* What the transaction worker is told of a transaction.                   *)

\* Never seen by the node asked, or dropped; in its pool; mined but not final; final; failed.
Fates == {"unseen", "pooled", "mined", "final", "reverted"}

EvmStatus == [unseen |-> "pending", pooled |-> "pending", mined |-> "confirmed", final |-> "confirmed",
              reverted |-> "failed"]
SolanaStatus == [unseen |-> "pending", pooled |-> "pending", mined |-> "pending", final |-> "confirmed",
                 reverted |-> "failed"]
\* The receipt of a plain TRX transfer carries no result.
TronStatus == [unseen |-> "pending", pooled |-> "pending", mined |-> "pending", final |-> "failed",
               reverted |-> "failed"]
\* A node answers with an error what it does not know.
BitcoinStatus == [unseen |-> "throws", pooled |-> "pending", mined |-> "confirmed", final |-> "confirmed",
                  reverted |-> "throws"]
TonStatus == [fate \in Fates |-> "throws"]

getTransactionStatus(chain, fate) ==
  CASE chain \in EVM_CHAINS -> EvmStatus[fate]
    [] chain = "SOL" -> SolanaStatus[fate]
    [] chain = "TRON" -> TronStatus[fate]
    [] chain = "TON" -> TonStatus[fate]
    [] chain = "BTC" -> BitcoinStatus[fate]
=============================================================================
