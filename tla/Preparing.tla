---------------------------- MODULE Preparing ----------------------------
(***************************************************************************)
(* externalTransfer.service's prepare, await by await: the recipient, the  *)
(* wallet, its tokens, its gas, then the intent.  The PIN's gate, which    *)
(* ends the call or lets it go on, is PinLockout's; what becomes of an     *)
(* intent is ExternalIntent's.  A check that fails, or a node that does    *)
(* not answer, ends the call as Breaks does.  Every call of a behaviour is *)
(* for one chain, workload.chain.                                          *)
(***************************************************************************)
EXTENDS Wallets, AddressVerification

CONSTANTS
  Amounts, Recipients, Wanted,  \* bound: the amounts, recipients and assets asked for
  GasPrices,                    \* bound: the prices a node may name
  MaxIntents                    \* bound: the intents there may be

\* The funds tell what each address registered for the chain holds of the assets asked for.
ASSUME PreparingAssumption ==
  /\ Amounts \subseteq Decimal /\ GasPrices \subseteq Nat
  /\ \A w \in Workloads :
       /\ w.chain \in CHAIN_NAMES
       /\ \A a \in DOMAIN w.funds : \A s \in DOMAIN w.funds[a] : w.funds[a][s] \in Nat
       /\ "prepare" \in w.ops => \A row \in WalletRows : row.chain = w.chain =>
            /\ row.address \in DOMAIN w.funds
            /\ {nativeAssetFor[w.chain]} \cup {s \in Wanted : resolveToken(Env, w.chain, s) # {}}
                 \subseteq DOMAIN w.funds[row.address]

VARIABLE intents  \* the ExternalTransferIntent rows, READY

preparingVars == <<walletVars, intents>>

\* The bug of looking at gas alone.
EnoughAnyway(available, required, decimals) == TRUE

\* The comparison of prepare.
Covers(available, required, decimals) == isAtLeast(available, required, decimals)

\* resolveAsset: a configured token, or the chain's native asset.
resolveAsset(chain, asset) == resolveToken(Env, chain, asset) # {} \/ asset = nativeAssetFor[chain]

Prepare(c, u) ==
  /\ Free(c, "prepare") /\ Live(u)
  /\ \E asset \in Wanted, amount \in Amounts, to \in Recipients :
       /\ moneyString(amount, Digits[18], Digits[18])
       /\ resolveAsset(workload.chain, asset)
       /\ isValidAddress(workload.chain, to)
       /\ Goto(c, [pc |-> "verify", user |-> u, asset |-> asset, amount |-> amount, to |-> to])
  /\ UNCHANGED <<preparingVars, workload, user>>

\* The recipient exists, and the user has a wallet on the chain; a token's plan is built.
FindWallet(c) ==
  /\ At(c, "verify")
  /\ verifyAddressExists(workload.chain, call[c].to) # {}
  /\ \E row \in wallet[call[c].user] :
       /\ row.chain = workload.chain
       /\ LET tokens == resolveToken(Env, workload.chain, call[c].asset)
          IN  /\ \A t \in tokens : buildTokenTransfer(call[c].to, call[c].amount, t)
              /\ Goto(c, [pc |-> IF tokens = {} THEN "gas" ELSE "tokens", user |-> call[c].user,
                          asset |-> call[c].asset, amount |-> call[c].amount, from |-> row.address])
  /\ UNCHANGED <<preparingVars, workload, user>>

CheckTokens(c) ==
  /\ At(c, "tokens")
  /\ \A t \in resolveToken(Env, workload.chain, call[c].asset) :
       \A available \in getTokenBalance(Env, workload.chain, holding[call[c].from], call[c].asset) :
         Covers(available, call[c].amount, Digits[t.decimals])
  /\ Goto(c, [call[c] EXCEPT !.pc = "gas"])
  /\ UNCHANGED <<preparingVars, workload, user>>

\* Only an EVM adapter has both canPayGas and getNativeBalance.
ChecksGas(chain) == chain \in EVM_CHAINS

\* The bug of finding the wallet anew.
GasWalletReread(c) == (CHOOSE row \in wallet[call[c].user] : row.chain = workload.chain).address

GasWallet(c) == call[c].from

\* estimateFee and, where there is one, the check of the gas.
CheckGas(c) ==
  /\ At(c, "gas")
  /\ \E fee \in estimateFee(Env, workload.chain, call[c].asset, call[c].amount, GasPrices) :
       /\ ChecksGas(workload.chain) => canPayGas(workload.chain, holding[GasWallet(c)], fee)
       /\ Goto(c, [pc |-> "store", user |-> call[c].user, asset |-> call[c].asset,
                   amount |-> call[c].amount, fee |-> fee])
  /\ UNCHANGED <<preparingVars, workload, user>>

\* The row; userId is a foreign key.
StoreIntent(c) ==
  /\ At(c, "store")
  /\ Cardinality(intents) < MaxIntents
  /\ intents' = IF Exists(call[c].user)
                THEN intents \cup {[user |-> call[c].user, asset |-> call[c].asset,
                                    amount |-> call[c].amount, fee |-> call[c].fee]}
                ELSE intents
  /\ Answer(c)
  /\ UNCHANGED <<walletVars, workload, user>>

CascadeIntents(u) == intents' = {i \in intents : i.user # u}

PreparingInit == WalletInit /\ intents = {}

PreparingNext ==
  \/ WalletNext /\ UNCHANGED intents
  \/ \E c \in Calls : \/ \E u \in Users : Prepare(c, u)
                      \/ FindWallet(c) \/ CheckTokens(c) \/ CheckGas(c) \/ StoreIntent(c)

-----------------------------------------------------------------------------

PreparingCall ==
  [pc: {"verify"}, user: Users, asset: Wanted, amount: Amounts, to: Recipients]
  \cup [pc: {"tokens", "gas"}, user: Users, asset: Wanted, amount: Amounts,
        from: {row.address : row \in WalletRows}]
  \cup [pc: {"store"}, user: Users, asset: Wanted, amount: Amounts, fee: Decimal]

PreparingTypeOK ==
  /\ WalletTypeOK
  /\ intents \subseteq [user: Users, asset: Wanted, amount: Amounts, fee: Decimal]

\* Base units as the amount they are.
Held(units, decimals) == [units |-> units, places |-> Digits[decimals]]

\* One address at some time held the tokens of a stored token intent, and one and the
\* same address the gas: no registration or payment between the awaits of prepare, and
\* no difference of decimals, puts together what no wallet ever had.
PlanWasCovered ==
  \A i \in intents : \A t \in resolveToken(Env, workload.chain, i.asset) :
    \E a \in DOMAIN workload.funds :
      /\ AtMost(i.amount, Held(workload.funds[a][t.symbol], t.decimals))
      /\ AtMost(i.fee, Held(workload.funds[a][nativeAssetFor[workload.chain]], 18))
=============================================================================
