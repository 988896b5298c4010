----------------------------- MODULE Wallets -----------------------------
(***************************************************************************)
(* wallet.service: the addresses a user registers, one a chain, and the    *)
(* balances read for them.                                                 *)
(***************************************************************************)
EXTENDS ApiCalls, ChainAdapters

CONSTANTS
  Env,           \* the deployment, see ChainAdapters
  Registrations  \* bound: the bodies of POST /wallet/register, sequences of [chain, address]

\* A token has a number of decimals that amounts are converted with.
ASSUME EnvAssumption == \A i \in DOMAIN Env.erc20 : Env.erc20[i].decimals \in DOMAIN Digits

VARIABLES
  wallet,  \* the Wallet rows of each user, [chain, address]
  holding  \* what each address holds on the chain of the behaviour; it only spends

walletVars == <<wallet, holding>>

Given(body) == {body[i] : i \in DOMAIN body}
WalletRows == UNION {Given(body) : body \in Registrations}
WalletCall == [pc: {"upsert"}, user: Users, body: Registrations]

WalletTypeOK ==
  /\ \A u \in Users : wallet[u] \subseteq WalletRows
  /\ DOMAIN wallet = Users

WalletInit ==
  /\ wallet = [u \in Users |-> {}]
  /\ holding = workload.funds

\* The checks of registerWallets.
Registrable(body) ==
  /\ \A i \in DOMAIN body : isValidAddress(body[i].chain, body[i].address)
  /\ \A i, j \in DOMAIN body : body[i].chain = body[j].chain => i = j
  /\ {body[i].chain : i \in DOMAIN body} = CHAIN_NAMES

RegisterWallets(c, u) ==
  /\ Free(c, "register") /\ Live(u)
  /\ \E body \in Registrations : Registrable(body) /\ Goto(c, [pc |-> "upsert", user |-> u, body |-> body])
  /\ UNCHANGED <<walletVars, workload, user>>

\* The transaction of upserts; userId is a foreign key.
UpsertWallets(c) ==
  /\ At(c, "upsert")
  /\ LET u == call[c].user  given == Given(call[c].body)
     IN  wallet' = IF Exists(u)
                   THEN [wallet EXCEPT ![u] = given \cup {row \in @ : \A g \in given : g.chain # row.chain}]
                   ELSE wallet
  /\ Answer(c)
  /\ UNCHANGED <<holding, workload, user>>

CascadeWallets(u) == wallet' = [wallet EXCEPT ![u] = {}] /\ UNCHANGED holding

\* The owner of an address moves all of an asset elsewhere.
SpendElsewhere(address, asset) ==
  /\ holding[address][asset] > 0
  /\ holding' = [holding EXCEPT ![address][asset] = 0]
  /\ UNCHANGED <<wallet, apiVars>>

WalletNext ==
  \/ \E c \in Calls : UpsertWallets(c) \/ \E u \in Users : RegisterWallets(c, u)
  \/ \E a \in DOMAIN holding : \E asset \in DOMAIN holding[a] : SpendElsewhere(a, asset)

-----------------------------------------------------------------------------
(* The reads; unread are the tokens whose balance cannot be had.           *)

Null == [null |-> TRUE]

Row(token, balance) == [token |-> token, balance |-> balance]

\* A token's balance as one value.
ReadToken(chain, held, token) == Amount(held[token.symbol], token.decimals)

Readable(env, chain) == IF hasTokenBalance(chain) THEN AdapterTokens(env, chain) ELSE {}

getTokenBalances(env, chain, held, unread) ==
  {Row(t, IF t \in unread THEN Null ELSE ReadToken(chain, held, t)) : t \in Readable(env, chain)}

\* One wallet of getBalances: no row of tokens where the native balance cannot be had.
WalletBalances(env, chain, held, nativeUnread, unread) ==
  IF nativeUnread THEN [balance |-> Null, tokens |-> {}]
  ELSE [balance |-> getBalance(chain, held), tokens |-> getTokenBalances(env, chain, held, unread)]

\* A token that cannot be read is shown as nought.
getTokenBalancesForChain(env, chain, held, unread) ==
  {Row(t, IF t \in unread THEN [units |-> 0, places |-> 0] ELSE ReadToken(chain, held, t)) :
     t \in Readable(env, chain)}

listSupportedTokens(env, chain) == AdapterTokens(env, chain)
=============================================================================
