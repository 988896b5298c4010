-------------------------- MODULE MCPlatform --------------------------
EXTENDS Platform, TLC

CONSTANTS u1, u2, u3, c1, c2, i1, i2, x1, x2, k1, k2, q1, q2, a1, a2, e1, e2

-----------------------------------------------------------------------------
(* Chains and wallets: Sepolia, the other chains' defaults, two addresses  *)
(* a chain.                                                                *)

MCMail == [provider |-> "resend", set |-> {"RESEND_API_KEY"}]

MCDigits == [d \in {6, 9, 18} |-> IF d = 18 THEN 2 ELSE 1]

NativeDecimals == [TON |-> 9, BSC |-> 18, ETH |-> 18, SOL |-> 9, BASE |-> 18, POLYGON |-> 18,
                   TRON |-> 6, BTC |-> 9]

Override(chain, id, symbol, decimals, wellFormed) ==
  [chain |-> chain, chainId |-> id, symbol |-> symbol, decimals |-> decimals,
   address |-> <<"override", id, decimals>>, wellFormed |-> wellFormed]

MCEnv == [chainId |-> [ETH |-> 11155111], rpc |-> CHAIN_NAMES, erc20 |-> <<>>,
          spl |-> <<>>, cluster |-> "unset", solanaUrl |-> "devnet"]

Address(chain, n) ==
  [format |-> CASE chain \in EVM_CHAINS -> "0x" [] chain = "SOL" -> "solana" [] chain = "TRON" -> "tron"
                [] chain = "TON" -> "ton" [] chain = "BTC" -> "bitcoin bech32",
   id |-> n]

WalletOn(chain, n) == [chain |-> chain, address |-> Address(chain, n)]
Body(n) == <<WalletOn("TON", n), WalletOn("BSC", n), WalletOn("ETH", n), WalletOn("SOL", n),
             WalletOn("BASE", n), WalletOn("POLYGON", n), WalletOn("TRON", n), WalletOn("BTC", n)>>

\* Two bodies that pass; one with a chain missing, one with a chain twice, one with an
\* address of another chain.
MCRegistrations ==
  {Body(1), Body(2), Tail(Body(1)), Append(Body(1), WalletOn("BTC", 2)),
   [Body(1) EXCEPT ![1].address = Address("ETH", 1)]}

MCAmounts == {[units |-> 5, places |-> 1], [units |-> 5, places |-> 2], [units |-> 0, places |-> 1]}
MCRecipients == {Address("ETH", 3), [format |-> "0x bad checksum", id |-> 3], Address("BTC", 3), Address("TRON", 3)}

Funds(chain, first, second) == [a \in {Address(chain, 1), Address(chain, 2)} |-> IF a.id = 1 THEN first ELSE second]

Preparation(ops, chain, first, second) ==
  [ops |-> ops, residents |-> {u1}, chain |-> chain, funds |-> Funds(chain, first, second)]

Preparations ==
  {Preparation({"prepare", "register"}, w[1], w[2], w[3]) :
     w \in {<<"ETH", [ETH |-> 0, USDC |-> 10], [ETH |-> 100, USDC |-> 0]>>,
            <<"ETH", [ETH |-> 100, USDC |-> 5], [ETH |-> 30, USDC |-> 0]>>,
            <<"BSC", [BNB |-> 100, USDC |-> 5], [BNB |-> 0, USDC |-> 50]>>,
            <<"SOL", [SOL |-> 1], [SOL |-> 0]>>,
            <<"TRON", [TRX |-> 1], [TRX |-> 0]>>}}
  \cup {Preparation({"prepare", "register", "delete"}, "BTC", [BTC |-> 1], [BTC |-> 0])}

-----------------------------------------------------------------------------
(* What the clients of one behaviour mix.                                  *)

Mix(ops, residents) == [ops |-> ops, residents |-> residents, chain |-> "ETH",
                       funds |-> Funds("ETH", [ETH |-> 0], [ETH |-> 0])]

MCWorkloads ==
  {Mix(ops, {u1}) :
     ops \in {{"signup", "delete"}, {"code", "delete"}, {"login", "rotate"}, {"socket", "rotate"},
              {"register", "delete"}}}
  \cup
  {Mix(ops, {u1, u2}) :
     ops \in {{"account", "delete"}, {"account", "contact"}, {"login", "logout", "delete"},
              {"request", "delete"}, {"socket", "logout", "delete"}}}
  \cup Preparations

\* Calls, instances, transfers, contact rows, requests, account ids and e-mails are
\* interchangeable.  Hardly a workload uses two of the middle three or of the last
\* three, so those are swapped together: a group of eight permutations.
Swap(pairs) == [v \in UNION pairs |-> CHOOSE w \in UNION pairs : w # v /\ {v, w} \in pairs]
Keep(pairs) == [v \in UNION pairs |-> v]
Swappings(pairs) == {Keep(pairs), Swap(pairs)}

MCSymmetry ==
  {f @@ g @@ h : f \in Permutations({c1, c2}),
                 g \in Swappings({{i1, i2}, {x1, x2}, {k1, k2}}),
                 h \in Swappings({{q1, q2}, {a1, a2}, {e1, e2}})}

-----------------------------------------------------------------------------
(* The pure parts, against what they should compute, on small inputs.      *)

\* Deployments: the pilot's, mainnets without Solana's node, a mistyped chain id, and
\* tokens configured twice, for all networks and for another one.
Envs ==
  {MCEnv,
   [MCEnv EXCEPT !.chainId = [c \in {} |-> 0], !.rpc = CHAIN_NAMES \ {"SOL"}, !.solanaUrl = "mainnet"],
   [MCEnv EXCEPT !.chainId = [ETH |-> 11155112, BSC |-> 97]],
   [MCEnv EXCEPT !.erc20 = <<Override("ETH", 0, "USDC", 18, TRUE), Override("ETH", 1, "USDT", 6, TRUE),
                             Override("BSC", 97, "USDT", 6, TRUE), Override("BSC", 0, "DAI", 18, FALSE),
                             Override("ETH", 11155111, "USDC", 6, TRUE)>>,
                 !.cluster = "mainnet", !.spl = <<Override("SOL", 0, "USDC", 9, TRUE)>>],
   [MCEnv EXCEPT !.spl = <<Override("SOL", 0, "USDC", 9, TRUE), Override("SOL", 0, "DAI", 9, FALSE)>>]}

\* A number of base units is shown and read back unchanged, without a trailing zero.
ASSUME MoneyRoundTrips ==
  \A d \in 0..3, v \in 0..1100 :
    LET shown == fromBaseUnits(v, d)
    IN  /\ Converts(shown, d) /\ toBaseUnits(shown, d) = v
        /\ shown.places > 0 => shown.units % 10 # 0

\* isAtLeast compares the fractions, and no amount finer than the asset passes.
ASSUME ComparesFractions ==
  \A d \in 0..2, p, q \in 0..3, m, n \in 0..30 :
    LET a == [units |-> m, places |-> p]  b == [units |-> n, places |-> q]
    IN  isAtLeast(a, b, d) <=> /\ m * 10^q >= n * 10^p
                               /\ (m * 10^d) % 10^p = 0 /\ (n * 10^d) % 10^q = 0

\* Every seed names a network the network table knows, and one token a symbol.
ASSUME SeedsAgree ==
  \A s, t \in SEEDS : s[2] \in KnownIds[s[1]] /\ (s[1] = t[1] /\ s[2] = t[2] /\ s[3] = t[3] => s = t)

\* A chain's tokens: one a symbol, all for the chain id in force, and where an entry is
\* configured for it the last such entry rather than the seed.
ASSUME LastEntryWins ==
  \A env \in Envs, chain \in EVM_CHAINS :
    LET id == getEvmChainId(env, chain)
        For(symbol) == {i \in DOMAIN env.erc20 :
                          LET e == env.erc20[i] IN e.wellFormed /\ e.chain = chain /\ e.chainId \in {0, id} /\ e.symbol = symbol}
    IN  /\ \A t, o \in listTokens(env, chain) : t.chainId = id /\ (t.symbol = o.symbol => t = o)
        /\ \A symbol \in {"USDC", "USDT", "DAI"} :
             IF For(symbol) = {} THEN resolveToken(env, chain, symbol) # {} <=> \E s \in SEEDS : s[1] = chain /\ s[2] = id /\ s[3] = symbol
             ELSE \A t \in resolveToken(env, chain, symbol) :
                    t.address = env.erc20[CHOOSE i \in For(symbol) : \A j \in For(symbol) : j <= i].address

\* The health report finds the missing node and the mistyped id, and nothing else.
ASSUME ReportsMisconfiguration ==
  {validateNetworkConfiguration(env) : env \in Envs} = {{}, {"SOL"}, {"ETH"}}

\* An address is refused for the other chains' formats, but for three pairs of chains
\* whose base58 looks alike.
ASSUME FormatsTellChainsApart ==
  {<<c, d>> \in CHAIN_NAMES \X CHAIN_NAMES : c \notin EVM_CHAINS /\ c # d /\ isValidAddress(d, Address(c, 1))}
    = {<<"SOL", "BTC">>, <<"TRON", "BTC">>, <<"TRON", "SOL">>}

\* What verifyAddressExists lets through has the chain's format, but on BSC and Base no
\* more than a node that answers, and a good checksum, is needed.  POST /validate/address
\* says of nothing else that it exists.
ASSUME VerifiedIsWellFormed ==
  \A chain \in CHAIN_NAMES : \A to \in MCRecipients :
    LET answers == verifyAddressExists(chain, to) \ {"invalid_address_format"}
    IN  /\ answers # {} => isValidAddress(chain, to)
        /\ chain \in FALLBACK_CHAINS => answers = IF to.format = "0x" THEN {"contract", "used", "unused"} ELSE {}
        /\ \A said \in ValidateAddress(chain, to) : said.exists <=> isValidAddress(chain, to)

\* GET balances gives the amount held or nothing; the rows of one chain give nought for
\* a token that cannot be read.
ASSUME BalancesAreHeld ==
  \A env \in Envs, chain \in CHAIN_NAMES, units \in {0, 7, 120} :
    LET held == [asset \in {nativeAssetFor[chain], "USDC", "USDT", "DAI", "BTC received"} |-> units]
    IN  \A unread \in SUBSET AdapterTokens(env, chain) :
          /\ \A row \in getTokenBalances(env, chain, held, unread) :
               IF row.token \in unread THEN row.balance = Null
               ELSE toBaseUnits(row.balance, Digits[row.token.decimals]) = units
          /\ \A row \in getTokenBalancesForChain(env, chain, held, unread) :
               toBaseUnits(row.balance, Digits[row.token.decimals]) = (IF row.token \in unread THEN 0 ELSE units)
          /\ WalletBalances(env, chain, held, TRUE, unread).tokens = {}
          /\ WalletBalances(env, chain, held, FALSE, unread).balance = Amount(units, NativeDecimals[chain])
          /\ Cardinality(getTokenBalances(env, chain, held, unread)) =
               IF chain \in EVM_CHAINS \cup {"SOL"} THEN Cardinality(listSupportedTokens(env, chain)) ELSE 0

\* A message said to be sent is one the provider has; Resend and SES may have one that
\* is said not to be.
ASSUME SentIsAccepted ==
  \A provider \in DOMAIN Needs, set \in {{}, Needs.resend, Needs.sendgrid, Needs.ses, {"AWS_SES_REGION"}} :
    LET mail == [provider |-> provider, set |-> set]
    IN  /\ \A reply \in Replies : trySendEmail(mail, reply) => Accepted(reply) /\ set = Needs[provider]
        /\ \A reply \in Replies : Accepted(reply) /\ set = Needs[provider] /\ ~trySendEmail(mail, reply) =>
             reply = "cut off" \/ (reply = "no id" /\ provider # "sendgrid")

\* A final transaction is reported confirmed and a failed one not, except on TRON, TON
\* and, for the failed ones, Bitcoin.
ASSUME StatusesAreTruthful ==
  {chain \in CHAIN_NAMES : /\ getTransactionStatus(chain, "final") = "confirmed"
                           /\ getTransactionStatus(chain, "reverted") = "failed"} = EVM_CHAINS \cup {"SOL"}
=============================================================================
