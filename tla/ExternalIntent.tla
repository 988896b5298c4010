--------------------------- MODULE ExternalIntent ---------------------------
(***************************************************************************)
(* External transfers: externalTransferService.prepare plans a transfer    *)
(* and stores it as an intent, the client signs the planned transaction,   *)
(* and submit verifies the signed one, spends the intent, creates the      *)
(* Transaction row and queues it.                                          *)
(*                                                                         *)
(* Any number of submit requests run concurrently, each await one action.  *)
(* No transaction spans the intent, the row and the queue: submit undoes   *)
(* what it can in its catch block.  What may go wrong is in Faults; one    *)
(* the code has no answer to marks the intent in mishap.  What becomes of  *)
(* a queued row is TransferPipeline's.                                     *)
(***************************************************************************)
EXTENDS Naturals, FiniteSets

CONSTANTS
  Requests,        \* submit requests, retries included
  Intents, Users, Keys, Chains, Assets, Addresses,
  Evm,             \* the chains with verification of signed transactions
  ValidAddresses,  \* what adapter.isValidAddress accepts
  LowerCase,       \* String.toLowerCase on addresses
  Native,          \* the native asset of a chain
  Contract,        \* the token registry: the contract of an asset on a chain
  Scale,           \* the base units in one of an asset: 10 to its decimals
  Values,          \* amounts
  Unconvertible,   \* those whose Decimal.toString parseUnits rejects (1e-7)
  Signed,          \* the signed transactions the clients submit
  Plans,           \* what the clients ask prepare for, with the user asking
  Inputs,          \* the submit requests the clients make
  Faults,
  None

FaultKinds ==
  {"claimLost",   \* the claim takes effect and its call rejects
   "createLost",  \* the row is created and its call rejects
   "database",    \* a write rejects without effect
   "queue",       \* Queue.add rejects
   "restart"}     \* the API process dies inside a request

\* What a fault may leave behind: an intent given up, or one that is spent and
\* given back all the same.
Marks == {"dropped", "twice"}

Plan == [owner: Users, chain: Chains, asset: Assets, amount: Values,
         recipient: Addresses]

\* A transfer(to, amount) call, and a signed transaction as ethers decodes it;
\* None is a blob that does not decode, "other" any other contract call.
NoData == [kind |-> "none"]
OtherData == [kind |-> "other"]
TransferCall == [kind: {"transfer"}, to: Addresses, amount: Nat]
Transaction == [chain: Chains, to: Addresses, value: Nat,
                data: {NoData, OtherData} \cup TransferCall]

Input == [user: Users, intent: Intents, key: Keys, signed: Signed]

Row == [sender: Users, key: Keys, intent: Intents, plan: Plan,
        status: {"PENDING", "FAILED"}]

ASSUME IntentAssumption ==
  /\ None \notin Requests \cup Addresses \cup Users
  /\ None \notin Plan \cup Input \cup Row /\ None \notin Users \X Keys
  /\ "refused" \notin Requests \cup {None}
  /\ Evm \subseteq Chains /\ ValidAddresses \subseteq Addresses
  /\ LowerCase \in [Addresses -> Addresses]
  /\ Native \in [Chains -> Assets]
  /\ Contract \in [Chains -> [Assets -> Addresses \cup {None}]]
  /\ Scale \in [Assets -> Nat \ {0}]
  \* A registry names a contract for one asset only.
  /\ \A c \in Chains, a, b \in Assets :
       /\ Contract[c][a] # None /\ Contract[c][b] # None
       /\ LowerCase[Contract[c][a]] = LowerCase[Contract[c][b]]
       => a = b
  /\ Values \subseteq Nat \ {0} /\ Unconvertible \subseteq Values
  /\ Signed \subseteq Transaction \cup {None}
  /\ Plans \subseteq Plan /\ Inputs \subseteq Input
  /\ Faults \subseteq FaultKinds

VARIABLES
  plan,     \* what an intent plans, None before prepare stored it
  state,    \* ExternalIntentStatus
  expired,  \* expiresAt has passed
  link,     \* transactionId: the row of an intent
  row,      \* the Transaction rows: row[r] is the one request r created
  queue,    \* the process-transaction jobs queued: a row and a transaction
  pc, input, status, answer,   \* a request, its HTTP status and row
  mishap    \* history: the marks that faults have left on an intent

vars == <<plan, state, expired, link, row, queue, pc, input, status, answer, mishap>>
intentVars == <<plan, state, expired, link>>

Steps == {"idle", "replay", "claim", "lost", "explain", "check", "create",
          "winner", "giveBack", "link", "add", "markFailed", "done"}

\* resolveAsset: a token of the registry or the native asset.
Legal(chain, asset) == Contract[chain][asset] # None \/ asset = Native[chain]

TypeOK ==
  /\ plan \in [Intents -> {p \in Plans : Legal(p.chain, p.asset)} \cup {None}]
  /\ state \in [Intents -> {"NONE", "READY", "USED"}]
  /\ expired \in [Intents -> BOOLEAN]
  /\ link \in [Intents -> Requests \cup {None}]
  /\ row \in [Requests -> Row \cup {None}]
  /\ queue \subseteq Requests \X Signed
  /\ pc \in [Requests -> Steps]
  /\ input \in [Requests -> Inputs \cup {None}]
  /\ status \in [Requests -> {0, 201, 400, 404, 409, 410, 500}]
  /\ answer \in [Requests -> Requests \cup {None}]
  /\ mishap \in [Intents -> SUBSET Marks]

Init ==
  /\ plan = [i \in Intents |-> None]
  /\ state = [i \in Intents |-> "NONE"]
  /\ expired = [i \in Intents |-> FALSE]
  /\ link = [i \in Intents |-> None]
  /\ row = [r \in Requests |-> None]
  /\ queue = {}
  /\ pc = [r \in Requests |-> "idle"]
  /\ input = [r \in Requests |-> None]
  /\ status = [r \in Requests |-> 0]
  /\ answer = [r \in Requests |-> None]
  /\ mishap = [i \in Intents |-> {}]

-----------------------------------------------------------------------------
(* verifySignedTransaction.                                                *)

SameAddress(a, b) == LowerCase[a] = LowerCase[b]

toBaseUnits(amount, asset) == amount * Scale[asset]

\* The bug of forgetting the native value of a token call.
VerifyWithoutValue(p, s) ==
  /\ p.chain \in Evm /\ s # None /\ s.chain = p.chain
  /\ p.amount \notin Unconvertible
  /\ IF Contract[p.chain][p.asset] # None
     THEN /\ SameAddress(s.to, Contract[p.chain][p.asset])
          /\ s.data.kind = "transfer"
          /\ SameAddress(s.data.to, p.recipient)
          /\ s.data.amount = toBaseUnits(p.amount, p.asset)
     ELSE /\ SameAddress(s.to, p.recipient)
          /\ s.value = toBaseUnits(p.amount, p.asset)
          /\ s.data = NoData

\* The signed transaction is for this network and is exactly the planned token
\* call, or exactly the planned native payment.  (An amount that cannot be
\* converted throws as well, with another status.)
verifySignedTransaction(p, s) ==
  /\ p.chain \in Evm
  /\ s # None
  /\ s.chain = p.chain
  /\ p.amount \notin Unconvertible
  /\ LET contract == Contract[p.chain][p.asset]
         units == toBaseUnits(p.amount, p.asset)
     IN IF contract # None
        THEN /\ SameAddress(s.to, contract)
             /\ s.value = 0
             /\ s.data.kind = "transfer"
             /\ SameAddress(s.data.to, p.recipient)
             /\ s.data.amount = units
        ELSE /\ SameAddress(s.to, p.recipient)
             /\ s.value = units
             /\ s.data = NoData

-----------------------------------------------------------------------------
(* Intents and rows.                                                       *)

\* The bug of planning whatever asset is named.
PrepareAnything(i) ==
  /\ state[i] = "NONE"
  /\ \E p \in Plans :
       /\ p.recipient \in ValidAddresses
       /\ plan' = [plan EXCEPT ![i] = p]
  /\ state' = [state EXCEPT ![i] = "READY"]
  /\ UNCHANGED <<expired, link, row, queue, pc, input, status, answer, mishap>>

\* prepare stores a plan as a READY intent; its refusals (PIN, TriVerify,
\* wallet, balances, fee) store nothing.
Prepare(i) ==
  /\ state[i] = "NONE"
  /\ \E p \in Plans :
       /\ Legal(p.chain, p.asset)
       /\ p.recipient \in ValidAddresses
       /\ plan' = [plan EXCEPT ![i] = p]
  /\ state' = [state EXCEPT ![i] = "READY"]
  /\ UNCHANGED <<expired, link, row, queue, pc, input, status, answer, mishap>>

Expire(i) ==
  /\ state[i] # "NONE"
  /\ ~expired[i]
  /\ expired' = [expired EXCEPT ![i] = TRUE]
  /\ UNCHANGED <<plan, state, link, row, queue, pc, input, status, answer, mishap>>

\* The bug of serving any user's row for a key.
FoundUnscoped(q, r) == row[q] # None /\ row[q].key = input[r].key

\* findByIdempotencyKey(key, user): row q is the answer for request r.
Found(q, r) ==
  row[q] # None /\ row[q].key = input[r].key /\ row[q].sender = input[r].user

FoundNone(r) == \A q \in Requests : ~Found(q, r)

\* idempotencyKey is @unique, for all users together.
KeyTaken(k) == \E q \in Requests : row[q] # None /\ row[q].key = k

Goto(r, step) ==
  /\ pc' = [pc EXCEPT ![r] = step]
  /\ UNCHANGED <<status, answer>>

\* The outcome is decided; the request may still have to clean up.
Decide(r, step, code) ==
  /\ pc' = [pc EXCEPT ![r] = step]
  /\ status' = [status EXCEPT ![r] = code]
  /\ UNCHANGED answer

Reply(r, step, q) ==
  /\ pc' = [pc EXCEPT ![r] = step]
  /\ status' = [status EXCEPT ![r] = 201]
  /\ answer' = [answer EXCEPT ![r] = q]

Throw(r, code) == Decide(r, "done", code)

Intent(r) == input[r].intent

Handled(fault) == fault \in Faults /\ UNCHANGED mishap
Struck(r, fault, mark) ==
  /\ fault \in Faults
  /\ mishap' = [mishap EXCEPT ![Intent(r)] = @ \cup {mark}]

-----------------------------------------------------------------------------
(* submit().                                                               *)

Receive(r) ==
  /\ pc[r] = "idle"
  /\ \E b \in Inputs : input' = [input EXCEPT ![r] = b]
  /\ Goto(r, "replay")
  /\ UNCHANGED <<intentVars, row, queue, mishap>>

\* A row under this key is the answer, whatever intent it was made from.
Replay(r) ==
  /\ pc[r] = "replay"
  /\ \/ \E q \in Requests : Found(q, r) /\ Reply(r, "done", q)
     \/ FoundNone(r) /\ Goto(r, "claim")
  /\ UNCHANGED <<intentVars, row, queue, input, mishap>>

\* The intent exists and is the caller's.
Own(r) == plan[Intent(r)] # None /\ plan[Intent(r)].owner = input[r].user

\* The where clause of the claim.
Claimable(r) == Own(r) /\ state[Intent(r)] = "READY" /\ ~expired[Intent(r)]

\* READY -> USED in one statement, or nothing.
Claim(r) ==
  /\ pc[r] = "claim"
  /\ \/ /\ ~Claimable(r)
        /\ Goto(r, "lost")
        /\ UNCHANGED <<state, mishap>>
     \/ /\ Claimable(r)
        /\ state' = [state EXCEPT ![Intent(r)] = "USED"]
        /\ \/ Goto(r, "check") /\ UNCHANGED mishap
           \/ Struck(r, "claimLost", "dropped") /\ Throw(r, 500)
  /\ UNCHANGED <<plan, expired, link, row, queue, input>>

\* Nothing was claimed: a concurrent request may have answered the key.
Lost(r) ==
  /\ pc[r] = "lost"
  /\ \/ \E q \in Requests : Found(q, r) /\ Reply(r, "done", q)
     \/ FoundNone(r) /\ Goto(r, "explain")
  /\ UNCHANGED <<intentVars, row, queue, input, mishap>>

\* The intent is read for the reason; the last one is an intent given back since.
Explain(r) ==
  LET i == Intent(r) IN
  /\ pc[r] = "explain"
  /\ Throw(r, IF ~Own(r) THEN 404
              ELSE IF state[i] # "USED" /\ expired[i] THEN 410 ELSE 409)
  /\ UNCHANGED <<intentVars, row, queue, input, mishap>>

\* The intent is read again and the signed transaction verified against it.
Check(r) ==
  /\ pc[r] = "check"
  /\ \/ /\ verifySignedTransaction(plan[Intent(r)], input[r].signed)
        /\ Goto(r, "create") /\ UNCHANGED mishap
     \/ /\ ~verifySignedTransaction(plan[Intent(r)], input[r].signed)
        /\ Decide(r, "giveBack", 400) /\ UNCHANGED mishap
     \/ Handled("database") /\ Decide(r, "giveBack", 500)
  /\ UNCHANGED <<intentVars, row, queue, input>>

NewRow(r) ==
  [sender |-> input[r].user, key |-> input[r].key, intent |-> Intent(r),
   plan |-> plan[Intent(r)], status |-> "PENDING"]

\* The INSERT; when only its answer is lost, the catch block does not know of it.
Create(r) ==
  /\ pc[r] = "create"
  /\ \/ KeyTaken(input[r].key) /\ Goto(r, "winner") /\ UNCHANGED <<row, mishap>>
     \/ /\ ~KeyTaken(input[r].key)
        /\ row' = [row EXCEPT ![r] = NewRow(r)]
        /\ \/ Goto(r, "link") /\ UNCHANGED mishap
           \/ Struck(r, "createLost", "twice") /\ Decide(r, "giveBack", 500)
     \/ Handled("database") /\ Decide(r, "giveBack", 500) /\ UNCHANGED row
  /\ UNCHANGED <<intentVars, queue, input>>

\* The bug of a duplicate that keeps the intent it spent.
WinnerKeeping(r) ==
  /\ pc[r] = "winner"
  /\ \/ \E q \in Requests : Found(q, r) /\ Reply(r, "done", q)
     \/ FoundNone(r) /\ Decide(r, "giveBack", 500)
  /\ UNCHANGED <<intentVars, row, queue, input, mishap>>

\* P2002: the key's row is the answer if it is this user's, and either way the
\* intent is given back.
Winner(r) ==
  /\ pc[r] = "winner"
  /\ \/ \E q \in Requests : Found(q, r) /\ Reply(r, "giveBack", q)
     \/ /\ FoundNone(r) \/ "database" \in Faults
        /\ Decide(r, "giveBack", 500)
  /\ UNCHANGED <<intentVars, row, queue, input, mishap>>

\* The bug of a failed submit that keeps its claim.
GiveNothingBack(r) ==
  /\ pc[r] = "giveBack"
  /\ pc' = [pc EXCEPT ![r] = "done"]
  /\ UNCHANGED <<intentVars, row, queue, input, status, answer, mishap>>

\* USED -> READY unless a row is tied to it; an error is swallowed.
GiveBack(r) ==
  LET i == Intent(r) IN
  /\ pc[r] = "giveBack"
  /\ \/ /\ state' = IF state[i] = "USED" /\ link[i] = None
                    THEN [state EXCEPT ![i] = "READY"] ELSE state
        /\ UNCHANGED mishap
     \/ Struck(r, "database", "dropped") /\ UNCHANGED state
  /\ pc' = [pc EXCEPT ![r] = "done"]
  /\ UNCHANGED <<plan, expired, link, row, queue, input, status, answer>>

\* The intent is tied to the row.
Link(r) ==
  /\ pc[r] = "link"
  /\ \/ link' = [link EXCEPT ![Intent(r)] = r] /\ Goto(r, "add")
     \/ "database" \in Faults /\ Decide(r, "markFailed", 500) /\ UNCHANGED link
  /\ UNCHANGED <<plan, state, expired, row, queue, input, mishap>>

\* A call that rejects may have queued the job all the same.
Add(r) ==
  LET queued == queue \cup {<<r, input[r].signed>>} IN
  /\ pc[r] = "add"
  /\ \/ queue' = queued /\ Reply(r, "done", r)
     \/ /\ "queue" \in Faults
        /\ queue' \in {queue, queued}
        /\ Decide(r, "markFailed", 500)
  /\ UNCHANGED <<intentVars, row, input, mishap>>

\* The bug of a catch block that gives the intent back after the row exists.
MarkAndRelease(r) ==
  /\ pc[r] = "markFailed"
  /\ row' = [row EXCEPT ![r].status = "FAILED"]
  /\ state' = [state EXCEPT ![Intent(r)] = "READY"]
  /\ pc' = [pc EXCEPT ![r] = "done"]
  /\ UNCHANGED <<plan, expired, link, queue, input, status, answer, mishap>>

\* The row is marked FAILED and the intent stays USED; an error is swallowed.
MarkFailed(r) ==
  /\ pc[r] = "markFailed"
  /\ \/ row' = [row EXCEPT ![r].status = "FAILED"] /\ UNCHANGED mishap
     \/ Struck(r, "database", "dropped") /\ UNCHANGED row
  /\ pc' = [pc EXCEPT ![r] = "done"]
  /\ UNCHANGED <<intentVars, queue, input, status, answer>>

Working(r) == pc[r] \notin {"idle", "done"}

\* The process dies, or a database call of the request rejects outside of what
\* its catch block covers: the answer is a 500 or none.
Die(r) ==
  /\ Working(r)
  /\ \/ pc[r] \in {"replay", "claim", "lost", "explain"} /\ UNCHANGED mishap
     \/ pc[r] \notin {"replay", "claim", "lost", "explain"} /\ Struck(r, "restart", "dropped")
  /\ Throw(r, 500)
  /\ UNCHANGED <<intentVars, row, queue, input>>

Step(r) == \/ Replay(r) \/ Claim(r) \/ Lost(r) \/ Explain(r) \/ Check(r)
           \/ Create(r) \/ Winner(r) \/ GiveBack(r) \/ Link(r) \/ Add(r)
           \/ MarkFailed(r)

Next ==
  \/ \E i \in Intents : Prepare(i) \/ Expire(i)
  \/ \E r \in Requests : Receive(r) \/ Step(r) \/ Die(r)

Spec == Init /\ [][Next]_vars

\* The event loop and PostgreSQL run every request to its end.
FairSpec == Spec /\ \A r \in Requests : WF_vars(Step(r))

-----------------------------------------------------------------------------
(* Properties.                                                             *)

RowOf(i) == {r \in Requests : row[r] # None /\ row[r].intent = i}

\* The requests that have claimed intent i and have yet to spend it for good or
\* to give it back.
Holders(i) ==
  {r \in Requests : /\ input[r] # None /\ Intent(r) = i
                    /\ pc[r] \in {"check", "create", "winner", "giveBack", "link"}}

\* An intent is spent on one transfer, whatever requests, keys and failures race
\* for it, and one that has a transfer can never be submitted again.
SpentOnce ==
  \A i \in Intents : "twice" \notin mishap[i] =>
    /\ \A r, q \in RowOf(i) : r = q
    /\ RowOf(i) # {} => state[i] = "USED"

\* A failed submit never burns its intent: one that is USED has a transfer, or a
\* request at work on it, unless a fault without an answer struck.
UsedIsBacked ==
  \A i \in Intents : state[i] = "USED" /\ "dropped" \notin mishap[i] =>
    RowOf(i) # {} \/ Holders(i) # {}

\* The payments a signed transaction makes: its native value, and the token a
\* transfer call on a registered contract moves.
Payments(s) ==
  (IF s.value > 0
   THEN {[asset |-> Native[s.chain], to |-> LowerCase[s.to], units |-> s.value]}
   ELSE {})
  \cup
  {[asset |-> a, to |-> LowerCase[s.data.to], units |-> s.data.amount] :
     a \in {a \in Assets : /\ s.data.kind = "transfer"
                           /\ Contract[s.chain][a] # None
                           /\ SameAddress(Contract[s.chain][a], s.to)}}

\* What is queued for the chain makes the payment that was planned, on the chain
\* it was planned for, and no other: the row it is queued for says the same.
QueuedPaysPlan ==
  \A job \in queue :
    LET p == row[job[1]].plan
        s == job[2]
    IN /\ s.chain = p.chain
       /\ p.owner = row[job[1]].sender
       /\ p = plan[row[job[1]].intent]
       /\ Payments(s) = {[asset |-> p.asset, to |-> LowerCase[p.recipient],
                          units |-> toBaseUnits(p.amount, p.asset)]}

\* The code's own words: an intent can never yield two rows.
NeverDoubleCreates == \A i \in Intents : \A r, q \in RowOf(i) : r = q

-----------------------------------------------------------------------------
(* The inductive invariant behind the safety properties.                   *)

\* What is known of a request at each of its steps.
RequestInv(r) ==
  /\ input[r] = None <=> pc[r] = "idle"
  /\ pc[r] \in {"check", "create", "winner", "giveBack", "link", "add", "markFailed"}
       => Own(r)
  /\ pc[r] \in {"create", "winner", "link", "add"}
       => verifySignedTransaction(plan[Intent(r)], input[r].signed)
  /\ pc[r] \in {"link", "add", "markFailed"} => row[r] # None
  /\ pc[r] \in {"replay", "claim", "lost", "explain", "check", "create", "winner"}
       => row[r] = None
  /\ pc[r] = "markFailed" => status[r] = 500
  /\ pc[r] = "giveBack" /\ status[r] = 201
       => answer[r] \in Requests /\ Found(answer[r], r)

\* A row carries the request that created it, and a job its signed transaction.
RowInv(r) ==
  row[r] # None =>
    /\ pc[r] # "idle"
    /\ row[r].sender = input[r].user
    /\ row[r].key = input[r].key
    /\ row[r].intent = Intent(r)
    /\ row[r].plan = plan[Intent(r)]
    /\ Own(r)

QueueInv ==
  \A job \in queue :
    /\ row[job[1]] # None
    /\ job[2] = input[job[1]].signed
    /\ verifySignedTransaction(row[job[1]].plan, job[2])

IntentInv(i) ==
  /\ plan[i] = None <=> state[i] = "NONE"
  /\ link[i] # None => link[i] \in RowOf(i)

\* An intent is in one hand: a request that holds it, or the row it was spent on.
OneHand(i) ==
  "twice" \notin mishap[i] =>
    /\ \A r, q \in Holders(i) \cup RowOf(i) : r = q
    /\ Holders(i) \cup RowOf(i) # {} => state[i] = "USED"
    /\ \A r \in Holders(i) : row[r] # None => pc[r] = "link"

IInv ==
  /\ TypeOK
  /\ \A r \in Requests : RequestInv(r) /\ RowInv(r)
  /\ QueueInv
  /\ \A i \in Intents : IntentInv(i) /\ OneHand(i)
  /\ UsedIsBacked

-----------------------------------------------------------------------------

\* A claim is resolved: its intent gets a transfer or can be submitted again.
ClaimResolves ==
  \A i \in Intents :
    state[i] = "USED" ~> \/ state[i] = "READY" \/ RowOf(i) # {}
                         \/ "dropped" \in mishap[i]

-----------------------------------------------------------------------------
(* submit() keeps the promise of send(): one transfer per idempotency key.  *)

Refused == "refused"

asked == [r \in Requests |->
            IF input[r] = None THEN None ELSE <<input[r].user, input[r].key>>]
transfers == {r \in Requests : row[r] # None}
outcome == [r \in Requests |->
              IF pc[r] # "done" THEN None
              ELSE IF status[r] = 201 THEN answer[r] ELSE Refused]

Ledger == INSTANCE IdempotentLedger WITH
            Refused <- Refused,
            asked <- asked, transfers <- transfers, outcome <- outcome

\* Every step of submit() is a step of the atomic ledger or changes nothing in it.
ImplementsLedger == Ledger!LedgerSpec

=============================================================================
