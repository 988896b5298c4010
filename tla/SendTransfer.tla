--------------------------- MODULE SendTransfer ---------------------------
(***************************************************************************)
(* POST /api/transaction/send: transactionService.send run concurrently by *)
(* any number of requests against one PostgreSQL database.                 *)
(*                                                                         *)
(* Every await of the code that reads or writes shared state is one        *)
(* action; between two actions of a request any other request may run.     *)
(* The interactive transaction that re-checks the key and creates the row  *)
(* is three actions (re-check, SELECT ... FOR UPDATE, INSERT and COMMIT),  *)
(* because READ COMMITTED shows it what others commit in between.          *)
(*                                                                         *)
(* A row's id is fresh per create, and a request creates at most one row:  *)
(* row[r] is the row created by request r.  That two rows never carry the  *)
(* same key is NOT built in: it is what the unique index of Create and the *)
(* look-ups have to achieve.                                               *)
(***************************************************************************)
EXTENDS Naturals, FiniteSets

CONSTANTS
  Requests,       \* HTTP requests, retries included
  Users, Keys, Assets, Networks,
  AccountIds, Owner,              \* AccountId rows and the user of each
  Addresses, ValidAddresses,      \* what adapter.isValidAddress accepts
  LowerCase,                      \* String.toLowerCase on addresses
  Values, ExponentValues,         \* amounts; those Decimal prints as 1e-7
  Inputs,                         \* request bodies the clients send
  None

\* How an amount is spelled: zeros before it, zeros after the last digit of its
\* fraction, and the notation (no client may send the exponent one).  One zero
\* stands for any number of them.
Spelling == [value: Values, leading: {0, 1}, trailing: {0, 1},
             notation: {"plain", "exponent"}]

\* transactionSendSchema: a plain decimal and exactly one kind of recipient.
Body == [sender: Users, key: Keys, asset: Assets, network: Networks,
         amount: Spelling,
         recipientAccountId: AccountIds \cup {None},
         recipientAddress: Addresses \cup {None}]

Row == [sender: Users, key: Keys, asset: Assets, network: Networks,
        amount: Values,
        recipientAccountId: AccountIds \cup {None},
        recipientAddress: Addresses]

ASSUME SendAssumption ==
  /\ Owner \in [AccountIds -> Users \cup {None}]   \* None: no such Account ID
  /\ None \notin Users \cup AccountIds \cup Addresses \cup Requests
  /\ None \notin Body /\ None \notin Row /\ None \notin Users \X Keys
  /\ "refused" \notin Requests \cup {None}
  /\ LowerCase \in [Addresses -> Addresses]
  /\ ValidAddresses \subseteq Addresses
  /\ ExponentValues \subseteq Values
  /\ Inputs \subseteq Body
  /\ \A b \in Inputs :
       /\ (b.recipientAccountId = None) # (b.recipientAddress = None)
       /\ b.amount.notation = "plain"

VARIABLES
  pc,       \* where a request is in send()
  input,    \* its body
  address,  \* the local recipientAddress, once resolved
  status,   \* the HTTP status it was answered with, 0 before
  answer,   \* the id of the row in a 201
  seen,     \* history: the own row for its key its first look-up found
  row,      \* the Transaction table
  wallet,   \* the Wallet table: the address of a user on a network
  lock      \* the request holding FOR UPDATE on a wallet row

requestVars == <<pc, input, address, status, answer, seen>>
dbVars == <<row, wallet, lock>>
vars == <<pc, input, address, status, answer, seen, row, wallet, lock>>

Steps == {"idle", "pin", "fast", "resolve", "verify", "reuse", "race",
          "lock", "create", "conflict", "done"}
Statuses == {0, 201, 400, 401, 404, 409, 500}

TypeOK ==
  /\ pc \in [Requests -> Steps]
  /\ input \in [Requests -> Inputs \cup {None}]
  /\ address \in [Requests -> Addresses \cup {None}]
  /\ status \in [Requests -> Statuses]
  /\ answer \in [Requests -> Requests \cup {None}]
  /\ seen \in [Requests -> Requests \cup {None}]
  /\ row \in [Requests -> Row \cup {None}]
  /\ wallet \in [Users -> [Networks -> ValidAddresses \cup {None}]]
  /\ lock \in [Users -> [Networks -> Requests \cup {None}]]

Init ==
  /\ pc = [r \in Requests |-> "idle"]
  /\ input = [r \in Requests |-> None]
  /\ address = [r \in Requests |-> None]
  /\ status = [r \in Requests |-> 0]
  /\ answer = [r \in Requests |-> None]
  /\ seen = [r \in Requests |-> None]
  /\ row = [r \in Requests |-> None]
  /\ wallet = [u \in Users |-> [n \in Networks |-> None]]
  /\ lock = [u \in Users |-> [n \in Networks |-> None]]

-----------------------------------------------------------------------------
(* Amounts, parameters and look-ups.                                       *)

\* The bug of comparing the strings as they were typed.
NormalizeNothing(s) == s

\* Trailing zeros of a fraction are dropped, nothing else is.
normalizeAmount(s) == [s EXCEPT !.trailing = 0]

\* Decimal.toString of a stored amount.
decimalString(v) ==
  [value |-> v, leading |-> 0, trailing |-> 0,
   notation |-> IF v \in ExponentValues THEN "exponent" ELSE "plain"]

\* The bug of forgetting the amount.
MatchesWithoutAmount(stored, candidate, to) ==
  /\ stored.network = candidate.network
  /\ stored.asset = candidate.asset
  /\ to # None => LowerCase[stored.recipientAddress] = LowerCase[to]

\* Network, asset, amount and, when it is known, the recipient's address.
matchesIntent(stored, candidate, to) ==
  /\ stored.network = candidate.network
  /\ stored.asset = candidate.asset
  /\ normalizeAmount(decimalString(stored.amount))
       = normalizeAmount(candidate.amount)
  /\ to # None => LowerCase[stored.recipientAddress] = LowerCase[to]

\* The bug of serving any user's row for a key.
FoundUnscoped(i, b) == row[i] # None /\ row[i].key = b.key

\* findByIdempotencyKey answers with row i for body b.
Found(i, b) ==
  /\ row[i] # None
  /\ row[i].key = b.key
  /\ row[i].sender = b.sender

-----------------------------------------------------------------------------
(* Ending a request, and the locks of its transaction.                     *)

\* COMMIT or ROLLBACK of r's transaction frees the wallet row.
Released(r) ==
  [u \in Users |-> [n \in Networks |->
     IF lock[u][n] = r THEN None ELSE lock[u][n]]]

Goto(r, step) ==
  /\ pc' = [pc EXCEPT ![r] = step]
  /\ UNCHANGED <<status, answer>>

Reply(r, i) ==
  /\ pc' = [pc EXCEPT ![r] = "done"]
  /\ status' = [status EXCEPT ![r] = 201]
  /\ answer' = [answer EXCEPT ![r] = i]

Throw(r, code) ==
  /\ pc' = [pc EXCEPT ![r] = "done"]
  /\ status' = [status EXCEPT ![r] = code]
  /\ UNCHANGED answer

-----------------------------------------------------------------------------
(* The steps of send().                                                    *)

Receive(r) ==
  /\ pc[r] = "idle"
  /\ \E b \in Inputs : input' = [input EXCEPT ![r] = b]
  /\ Goto(r, "pin")
  /\ UNCHANGED <<address, seen, dbVars>>

\* assertPinAuthorized (modelled in PinLockout): it returns, or throws a 4xx.
AuthorizePin(r) ==
  /\ pc[r] = "pin"
  /\ Goto(r, "fast") \/ Throw(r, 401)
  /\ UNCHANGED <<input, address, seen, dbVars>>

\* The replay fast path: the body's own recipientAddress is all that is known
\* of the recipient, so for an Account ID send the recipient is not compared.
FastPath(r) ==
  LET b == input[r] IN
  /\ pc[r] = "fast"
  /\ \/ \E i \in Requests :
          /\ Found(i, b)
          /\ seen' = [seen EXCEPT ![r] = i]
          /\ IF matchesIntent(row[i], b, b.recipientAddress)
             THEN Reply(r, i)
             ELSE Goto(r, "resolve")
     \/ /\ ~\E i \in Requests : Found(i, b)
        /\ Goto(r, "resolve")
        /\ UNCHANGED seen
  /\ UNCHANGED <<input, address, dbVars>>

\* The address the recipient has on the network NOW, or the body's own.
ResolvedAddress(b) ==
  IF b.recipientAccountId = None THEN b.recipientAddress
  ELSE wallet[Owner[b.recipientAccountId]][b.network]

\* The bug of creating transfers to recipients without a wallet.
ResolveUnchecked(r) ==
  /\ pc[r] = "resolve"
  /\ address' = [address EXCEPT ![r] = IF input[r].recipientAccountId \in AccountIds
                                         /\ Owner[input[r].recipientAccountId] = None
                                      THEN None ELSE ResolvedAddress(input[r])]
  /\ Goto(r, "verify")
  /\ UNCHANGED <<input, seen, dbVars>>

Resolve(r) ==
  LET b == input[r]
      account == b.recipientAccountId
  IN
  /\ pc[r] = "resolve"
  /\ \/ /\ account # None /\ Owner[account] = None
        /\ Throw(r, 404)
        /\ UNCHANGED address
     \/ /\ account # None /\ Owner[account] = b.sender
        /\ Throw(r, 400)
        /\ UNCHANGED address
     \/ /\ account # None => Owner[account] \notin {None, b.sender}
        /\ IF ResolvedAddress(b) \in ValidAddresses
           THEN /\ address' = [address EXCEPT ![r] = ResolvedAddress(b)]
                /\ Goto(r, "verify")
           ELSE /\ Throw(r, 400)      \* no wallet there, or a bad address
                /\ UNCHANGED address
  /\ UNCHANGED <<input, seen, dbVars>>

\* verifyAddressExists asks the chain.
Verify(r) ==
  /\ pc[r] = "verify"
  /\ Goto(r, "reuse") \/ Throw(r, 400)
  /\ UNCHANGED <<input, address, seen, dbVars>>

\* The authoritative parameter check, against the resolved recipient.
Reuse(r) ==
  LET b == input[r] IN
  /\ pc[r] = "reuse"
  /\ \/ \E i \in Requests :
          /\ Found(i, b)
          /\ IF matchesIntent(row[i], b, address[r])
             THEN Reply(r, i)
             ELSE Throw(r, 409)
     \/ /\ ~\E i \in Requests : Found(i, b)
        /\ Goto(r, "race")
  /\ UNCHANGED <<input, address, seen, dbVars>>

\* First statement of the interactive transaction: no parameter check here.
RaceCheck(r) ==
  LET b == input[r] IN
  /\ pc[r] = "race"
  /\ \/ \E i \in Requests : Found(i, b) /\ Reply(r, i)
     \/ /\ ~\E i \in Requests : Found(i, b)
        /\ Goto(r, "lock")
  /\ UNCHANGED <<input, address, seen, dbVars>>

\* SELECT ... FOR UPDATE on the sender's wallet row, if there is one.
LockWallet(r) ==
  LET u == input[r].sender
      n == input[r].network
  IN
  /\ pc[r] = "lock"
  /\ IF wallet[u][n] = None
     THEN UNCHANGED lock
     ELSE /\ lock[u][n] = None
          /\ lock' = [lock EXCEPT ![u] = [@ EXCEPT ![n] = r]]
  /\ Goto(r, "create")
  /\ UNCHANGED <<input, address, seen, row, wallet>>

\* The bug of a key without its unique index.
KeyNeverTaken(k) == FALSE

\* idempotencyKey is @unique, for all users together.
KeyTaken(k) == \E i \in Requests : row[i] # None /\ row[i].key = k

NewRow(r) ==
  LET b == input[r] IN
  [sender |-> b.sender, key |-> b.key, asset |-> b.asset,
   network |-> b.network, amount |-> b.amount.value,
   recipientAccountId |-> b.recipientAccountId,
   recipientAddress |-> address[r]]

\* INSERT and COMMIT; a taken key is P2002 and a ROLLBACK.  The answer of a
\* COMMIT may be lost, and the request then fails with its row in the table.
Create(r) ==
  /\ pc[r] = "create"
  /\ IF KeyTaken(input[r].key)
     THEN /\ Goto(r, "conflict")
          /\ UNCHANGED row
     ELSE /\ row' = [row EXCEPT ![r] = NewRow(r)]
          /\ Reply(r, r) \/ Throw(r, 500)
  /\ lock' = Released(r)
  /\ UNCHANGED <<input, address, seen, wallet>>

\* The bug of trying again when the key is taken and the winner is not visible.
WinnerRetrying(r) ==
  /\ pc[r] = "conflict"
  /\ \/ \E i \in Requests : Found(i, input[r]) /\ Reply(r, i)
     \/ /\ ~\E i \in Requests : Found(i, input[r])
        /\ Goto(r, "race")
  /\ UNCHANGED <<input, address, seen, dbVars>>

\* The handler of P2002: fold to the winner's row when the parameters match.
Winner(r) ==
  LET b == input[r] IN
  /\ pc[r] = "conflict"
  /\ \/ \E i \in Requests :
          /\ Found(i, b)
          /\ IF matchesIntent(row[i], b, address[r])
             THEN Reply(r, i)
             ELSE Throw(r, 409)
     \/ /\ ~\E i \in Requests : Found(i, b)
        /\ Throw(r, 409)
  /\ UNCHANGED <<input, address, seen, dbVars>>

Working(r) == pc[r] \notin {"idle", "done"}

\* A database error, a transaction time-out or the death of the process: the
\* request ends with a 500 (or no answer) and its transaction rolls back.
Fail(r) ==
  /\ Working(r)
  /\ Throw(r, 500)
  /\ lock' = Released(r)
  /\ UNCHANGED <<input, address, seen, row, wallet>>

\* POST /api/wallet/register: an address for every chain, each of them valid, in
\* one transaction whose upserts wait for a FOR UPDATE on the rows.
RegisterWallets(u, addresses) ==
  /\ \A n \in Networks : lock[u][n] = None
  /\ wallet' = [wallet EXCEPT ![u] = addresses]
  /\ UNCHANGED <<requestVars, row, lock>>

Step(r) == \/ AuthorizePin(r) \/ FastPath(r) \/ Resolve(r) \/ Verify(r)
           \/ Reuse(r) \/ RaceCheck(r) \/ LockWallet(r) \/ Create(r)
           \/ Winner(r)

Next ==
  \/ \E r \in Requests : Receive(r) \/ Step(r) \/ Fail(r)
  \/ \E u \in Users, addresses \in [Networks -> ValidAddresses] :
       RegisterWallets(u, addresses)

\* The event loop and PostgreSQL run every request that is not blocked.
Fairness == \A r \in Requests : WF_vars(Step(r))

Spec == Init /\ [][Next]_vars

FairSpec == Spec /\ Fairness

-----------------------------------------------------------------------------
(* Properties.                                                             *)

\* Two different transfers may never be recorded under one idempotency key.
OneTransferPerKey ==
  \A i, j \in Requests :
    row[i] # None /\ row[j] # None /\ row[i].key = row[j].key => i = j

\* All clients of one user who are answered 201 under one key are given the
\* same transfer, whichever of the five return points of send() answered.
AnswersAgree ==
  \A r, s \in Requests :
    /\ status[r] = 201 /\ status[s] = 201
    /\ input[r].key = input[s].key
    /\ input[r].sender = input[s].sender
    => answer[r] = answer[s]

\* A 201 names a row in the table, the caller's own, recorded under the
\* caller's key: another user's key never serves their transfer.
AnswerIsOwn ==
  \A r \in Requests :
    status[r] = 201 =>
      /\ answer[r] \in Requests
      /\ row[answer[r]] # None
      /\ row[answer[r]].sender = input[r].sender
      /\ row[answer[r]].key = input[r].key

\* The stored amount's own spelling is the normalised spelling of the body's.
RoundTrips(s) == s.leading = 0 /\ s.value \notin ExponentValues

SameTransfer(r, i) == input[r] = input[i]

\* A retry that repeats the body whose row is already in the table is never
\* told that its key was used for a different transfer.
RetryReplays ==
  \A r \in Requests :
    seen[r] # None /\ SameTransfer(r, seen[r]) => status[r] # 409

\* RetryReplays for amounts without leading zeros that Decimal prints plainly:
\* then the retry is answered from its first look-up, and with the row.
PlainRetryReplays ==
  \A r \in Requests :
    /\ seen[r] # None
    /\ SameTransfer(r, seen[r])
    /\ RoundTrips(input[r].amount)
    => status[r] = 201 /\ answer[r] = seen[r]

\* What row i says is paid, where and to whom is what body b says.
Describes(b, i) ==
  /\ b.asset = row[i].asset
  /\ b.network = row[i].network
  /\ b.amount.value = row[i].amount
  /\ IF b.recipientAddress = None
     THEN b.recipientAccountId = row[i].recipientAccountId
     ELSE LowerCase[b.recipientAddress] = LowerCase[row[i].recipientAddress]

\* A key already recorded for a different transfer is answered 409: the row
\* is in the table when the request looks its key up, and the request is not
\* given it.
ReuseConflicts ==
  \A r \in Requests :
    seen[r] # None /\ ~Describes(input[r], seen[r]) => status[r] # 201

\* ReuseConflicts for sends to an address: every parameter is compared, at the
\* fast path and again at the authoritative look-up.
AddressReuseConflicts ==
  \A r \in Requests :
    /\ seen[r] # None
    /\ input[r].recipientAddress # None
    /\ ~Describes(input[r], seen[r])
    => status[r] # 201

\* No request waits for ever, on a wallet lock in particular.
EveryRequestAnswered ==
  \A r \in Requests : Working(r) ~> pc[r] = "done"

-----------------------------------------------------------------------------
(* The inductive invariant behind them.                                    *)

\* What is known of a request at each of its steps.
RequestInv(r) ==
  /\ input[r] = None <=> pc[r] = "idle"
  /\ status[r] = 0 <=> pc[r] # "done"
  /\ pc[r] \in {"verify", "reuse", "race", "lock", "create", "conflict"} =>
       /\ address[r] # None
       /\ input[r].recipientAddress # None => address[r] = input[r].recipientAddress

\* A row carries the body of the request that created it.
RowInv(i) ==
  row[i] # None =>
    /\ pc[i] = "done"
    /\ row[i].sender = input[i].sender
    /\ row[i].key = input[i].key
    /\ row[i].asset = input[i].asset
    /\ row[i].network = input[i].network
    /\ row[i].amount = input[i].amount.value
    /\ input[i].recipientAddress # None =>
         row[i].recipientAddress = input[i].recipientAddress

\* A request that found a row for its key never reaches the transaction, and
\* the row it found stays.
SeenInv(r) ==
  seen[r] # None =>
    /\ pc[r] \in {"resolve", "verify", "reuse", "done"}
    /\ Found(seen[r], input[r])

IInv ==
  /\ TypeOK
  /\ OneTransferPerKey
  /\ AnswerIsOwn
  /\ \A r \in Requests : RequestInv(r) /\ RowInv(r) /\ SeenInv(r)
  /\ PlainRetryReplays
  /\ AddressReuseConflicts

-----------------------------------------------------------------------------
(* send() implements the atomic ledger.                                    *)

Refused == "refused"

asked == [r \in Requests |->
            IF input[r] = None THEN None ELSE <<input[r].sender, input[r].key>>]
transfers == {i \in Requests : row[i] # None}
outcome == [r \in Requests |->
              IF status[r] = 0 THEN None
              ELSE IF status[r] = 201 THEN answer[r] ELSE Refused]

Ledger == INSTANCE IdempotentLedger WITH
            Refused <- Refused,
            asked <- asked, transfers <- transfers, outcome <- outcome

\* Every step of send() is a step of the atomic ledger or changes nothing in it.
ImplementsLedger == Ledger!LedgerSpec

=============================================================================
