# A TLA+ verification of the Ulmara backend

Ulmara's backend is a Fastify API, a BullMQ worker, a PostgreSQL database reached through
Prisma, and Redis. It never holds keys: a client signs a transfer locally, and the server records
it, authorises it with a PIN, hands the signed transaction to a chain and follows it to its end.
This directory models the parts of it where concurrency, retries and failures decide whether money
is sent once and accounts stay their owners', checks them with TLC, and proves the main safety results
with TLAPS.

Run a check with `tlc -config SendTransfer.cfg MCSendTransfer`, and the proofs with
`tlapm SendTransfer_proofs.tla`. `PROJECT.json` maps every definition to its source lines.

## 1. Inventory

| Component | State it keeps | Operations | What is hard | What makes it correct |
|---|---|---|---|---|
| Internal transfers (`transaction.service.ts: send`) | `Transaction` rows, unique `idempotencyKey`; `Wallet` rows it locks | `send` | double-taps and retries under one key, lost COMMIT answers, key collisions between users, string comparison of amounts | one transfer per key, a retry gets its own row, a re-used key is refused, everyone is answered |
| Broadcast pipeline (`broadcast`, `transaction.worker.ts`, the `transactions` queue) | status and `txHash` of a row, `Receipt`, jobs | `broadcast`, `process-transaction`, `check-transaction` | racing broadcasts, enqueue failing after the claim, worker death and stalled jobs, one failing step among several | sent once, completed only if confirmed, the right hash, never stranded in `PROCESSING` |
| PIN and lockout (`pinLockout.service.ts`, `auth.service.ts`) | `pinHash`, `pinFailedAttempts`, `pinLockedUntil` | set, verify, change, the transfer gate | a compare-and-swap loop among concurrent guesses, expiry, resets | each failure counted once, a lockout holds, a PIN is set once |
| External transfers (`externalTransfer.service.ts`) | `ExternalTransferIntent` READY/USED, expiry, `transactionId` | `prepare`, `submit` | a claim that is released on some failures and kept on others, crash between claim, row and job | an intent produces at most one row; a failed submit can be repeated |
| Fiat ramp (`ramp.service.ts`, `ramp.worker.ts`, providers) | `RampTransaction` rows, webhook events | deposit, withdraw, webhook, reconcile | duplicated, reordered and lost webhooks, read-then-write updates, one-shot reconcile | a status never runs ahead of the provider and moves forward; an event counts once; a completion arrives |
| Verification codes (`verificationCodeStore.ts`) | Redis hashes with a TTL and a failure count | create, verify, resend | two Lua scripts and a plain DEL among concurrent calls | a code is used once; guesses are bounded; a newer code survives |
| Payment requests (`payment.service.ts`) | `PaymentRequest` status | create, read with lazy expiry, fulfil | read-then-write | fulfilled once, not expired after fulfilment |
| Sessions and tokens (`jwt.ts`, `auth.middleware.ts`, `auth.service.ts`) | `Session` rows, current and previous secret | login, verify, revoke, logout, delete | rotation instance by instance, revocation racing use | an ended session stays ended; a rotation ends no session |
| WebSocket rooms (`socket.handler.ts`, `emit.ts`) | sockets by user and instance, the Redis channel | admit, emit, close | an await between accept and listener registration | events reach their own user's sockets only |
| Accounts, wallets, contacts | `User`, `AccountId`, `Wallet`, `Contact` rows | signup, account id, register wallets, contacts, delete | collisions, deletion with calls in flight | no row without its user; what is unique stays so |
| Amounts, chain adapters, address verification, email | little or none | pure functions of a configuration and an answer from outside | numeric edges, what a failed call is taken for | conversions are exact; answers are truthful |
| Rate limits, error mapping, lifecycle, API description | little or none | configuration, start and stop order | shutdown deadline | see *Not modelled* |

Interactions: `send` and `prepare` call the PIN gate; `submit` and `broadcast` write a row and then
a queue, with no transaction across the two; the worker reads and writes the rows the API writes,
and the chain through an adapter; a recipient's wallet registration changes what a sender's retry
resolves to; the worker publishes events that the API process delivers to sockets (best-effort: an
error is swallowed, so notifications are left out of the models).

## 2. Modules

| Module | Models |
|---|---|
| `IdempotentLedger` | the promise of `POST /api/transaction/send` and `.../external/:id/submit`, in one step per request |
| `SendTransfer` | `send()` step by step; refines `IdempotentLedger` |
| `MCSendTransfer` | its instances: Alice, Bob, Carol, one key, and the bodies they send |
| `SendTransfer_proofs` | its theorems |
| `TransferPromise` | what a user is promised of a transfer's status, hash and receipt, in one step per change |
| `TransferPipeline` | the row after its creation: `broadcast()`, the tail of `submit()`, the queue, the worker, the chain; refines `TransferPromise` |
| `MCTransferPipeline`, `TransferPipeline_proofs` | its symmetry set and its theorems |
| `ExternalIntent` | `prepare()` and `submit()`: the intent, its claim, verification, row and job; refines `IdempotentLedger` |
| `MCExternalIntent`, `ExternalIntent_proofs` | its instance (Alice and Bob, two intents, a token and two native assets) and its theorems |
| `PinLockout`, `PinLockout_proofs` | the PIN of one account, and its theorems |
| `RampProviders` | the status maps, event parsing and Naira limits of both providers, as operators |
| `RampPromise` | what a user is promised of a ramp status, in one step per change |
| `RampLifecycle` | deposit, withdraw, webhook, reconcile; refines `RampPromise` |
| `MCRampLifecycle`, `RampLifecycle_proofs` | its amounts, with a check of the limits, and its theorems |
| `ApiCalls` | what the accounts' handlers share: users, the calls at work, foreign keys, a call breaking off |
| `Accounts`, `Sessions`, `VerificationCodes`, `PaymentRequests`, `SocketRooms`, `Wallets`, `Preparing` | one component each, over `ApiCalls` |
| `Money`, `ChainAdapters`, `AddressVerification`, `EmailDelivery` | pure parts, as operators the components call |
| `Money_proofs`, `Preparing_proofs` | theorems on amounts for every number of decimals, on the token registry, and the lemmas on `prepare` |
| `Platform` | the composition of those, with signup, deletion and redeployment, which cross them |
| `MCPlatform`, `Platform_proofs` | its workloads and the checks of the pure parts; its theorems |

**SendTransfer.** One action per `await` of `send()` that touches shared state; between two of them
any request may run. `pc` names the step: `AuthorizePin` (the gate; 401 stands for any refusal),
`FastPath` (the first look-up), `Resolve`, `Verify`, `Reuse` (the look-up with the resolved
recipient), `RaceCheck`, `LockWallet`, `Create` (the interactive transaction, three actions because
PostgreSQL runs READ COMMITTED), `Winner` (the P2002 handler), `Fail` (any error or the process's
death). `Create` may commit and still answer 500: that is what a retry is for. Amounts are a value
and a spelling (zeros before, zeros after, notation); `normalizeAmount` and `decimalString` act on
spellings. `row[r]` is the row created by request `r`; keys are not unique by construction, only
by `KeyTaken`, the unique index. `RegisterWallets` lets a recipient move between two look-ups.

**TransferPipeline.** `tx` is the row, `call` the broadcasts, `job` the jobs of BullMQ (a bounded
set of slots), `chain` what the chain says of each signed transaction. A transaction's hash
is the transaction itself. `Faults` names what may go wrong: `queue.add` rejects; it rejects but
stored the job; a row update rejects; a chain call rejects; a worker dies; an API process dies.
`sends` and `mishap` are history variables. A fault to which the code has an answer (the release of
a claim, the catch block) leaves no mark; one to which it has none marks the row: *twice* (work was
queued or run again) or *dropped* (work was given up). The properties say for which rows they hold,
and so which faults a guarantee survives. `TransferPromise` shows the row and its receipt, what the chain has
confirmed, and the *spoiled* transfers, those of `submit()` and those marked *twice*, of which it promises nothing.

The jobs are added with no options (`transaction.service.ts:94`, `externalTransfer.service.ts:301`),
so BullMQ makes a single attempt; `OPERATIONS.md:275` speaks of five. The model follows the code. A
stalled job is run again at most `MaxStalls` times (BullMQ's default is 1, the value checked).

**ExternalIntent.** `plan`, `state`, `expired` and `link` are an `ExternalTransferIntent`; a request runs
`Replay` (the look-up by key), `Claim` (READY to USED in one statement), then `Lost` and `Explain` if it
claimed nothing, or `Check`, `Create`, `Link`, `Add`. The catch block is `GiveBack` before the row is known
of and `MarkFailed` after. `Winner` handles the unique violation. `verifySignedTransaction` compares a decoded
transaction field by field; addresses are compared by `LowerCase`, amounts in base units (`Scale`). A token
registry is any function that gives a contract to one asset only. `Unconvertible` are the amounts that
`Decimal.toString` prints in a form `parseUnits` rejects. `QueuedPaysPlan` does not repeat the
comparison: it says which payments a transaction makes on the chain (`Payments`) and requires that to
be the planned one alone. Marks work as in `TransferPipeline`: *twice* is an INSERT whose answer was
lost, *dropped* a claim or a row given up by a fault the code has no answer to.

**PinLockout.** One account; `lock` abstracts `pinLockedUntil` to none, active or expired, which
is all the code asks. `RecordRead` and `RecordSwap` are the loop of `recordFailure`: the swap compares
the count only. `misses` and `renewed` are history variables. `verifyPin` and `assertPinAuthorized`
make the same calls and are one sequence of actions.

**RampLifecycle.** Three writers of a row, each deciding on an earlier view: `maker` (the request:
`MakeCustomer`, `CallProvider`, `RecordInstruction`, `QueueReconcile`, `MarkFailed`), `hook` (a delivery:
`Deliver` records the event, `HookFind` compares ranks, `HookUpdate` writes) and `job` (`JobRead`, `JobAsk`,
`JobWrite`). The provider moves on when it likes (`Progress`), announces a status by an event in any of the
words its adapter knows or does not, and delivers an event any number of times in any order. Bitnob's
`data.status` is the outcome of an event, so it may be any word beside any status; an event whose name no list has
is parsed by that word alone (`BitnobGuesses`), and the history variable `guessed` keeps what was read into such
events, at most `MaxGuesses` of them per behaviour. An instruction may be answered with any status, and an answer
without the transaction it was asked for is taken for a 404 at both providers (`NotFound`).
`RampPromise` shows only the status: it moves forward, unless the row is *contested* by a writer with an older view,
and COMPLETED is shown only of money *announced*: settled by the provider, or read into such an event. `loss` is a
history variable: the rows of which an event or a write was lost where the code has no answer.

**Platform.** `call` is what each of a bounded number of calls is about to do, one record per await; the
components' actions are steps of calls, so every operation runs against every other one, against
`Breaks` (the process dies, or the database or Redis rejects) and against the deletion of the account it
works for. `workload` fixes which operations a behaviour mixes. `Sessions` adds the operator: `Rotate` changes the
planned environment as the rotation procedure of the documentation does, `Redeploy` restarts one instance
with it, `Tick` is time. `VerificationCodes` tells codes apart by the number of their making and runs each Lua
script as one step; `VerifyEmail` reads the user and `ReadCode` the record, and the plain DEL of an expired record
compares nothing. `SocketRooms` has one room set for all instances, the Redis channel and its loss; an admission may throw
before the socket has a room.
`Preparing` is `prepare` await by await over `Wallets` and the adapters. The schema's foreign keys are `Exists`;
contacts and Redis records have none and stay behind a deleted account.

## 3. Runs

| Run | Instance | Result |
|---|---|---|
| `send` | 2 requests, 10 bodies, 2 users, one key, fair | passes, 252,902 states |
| `send_reuse` | 2 requests to Account IDs of Bob and Carol | `ReuseConflicts` violated |
| `send_tiny` | 2 requests with an amount Decimal prints as `1e-7` | `RetryReplays` violated |
| `pipeline` | 1 row, 2 broadcasts, 2 signed transactions, 2 jobs; queue, database, RPC, worker and API faults | passes, 762,806 states |
| `pipeline_progress` | 1 row, 2 broadcasts, 1 signed transaction; every fault but the API's death; fair | passes, 609,453 states |
| `pipeline_resend` | the same with no faults | `NeverSentTwice` violated |
| `submit` | 2 requests, 8 inputs, 2 intents, 2 users, 2 keys, 5 signed transactions; lost answers, rejected writes, queue errors, restarts; fair | passes, 436,416 states |
| `submit_twice` | the same with only the lost INSERT answer | `NeverDoubleCreates` violated |
| `pin` | 3 requests at a time, 2 PINs, limit 2, fair | passes, 125,508 states |
| `pin_armed_once` | the same | `ArmedOncePerLockout` violated |
| `ramp` | 1 row, both providers, 2 deliveries at a time, 4 amounts, 2 job attempts, one guess from an unlisted event, 9 kinds of fault; fair | passes, 398,464 states |
| `accounts` | 2 calls at a time, 3 users, 2 instances, 1 socket, 3 keys, 3 codes with 2 attempts, 2 requests, 2 transfers; 16 workloads; no fairness | passes, 473,584 states |

What the passing properties say:

- `AnswersAgree`, `AnswerIsOwn`: all 201s of a sender under a key carry one row, that sender's.
- `PlainRetryReplays`, `AddressReuseConflicts`: a repeated body gets its row back, a different
  transfer to an address does not. Both are the provable part of a promise the violation
  runs refute in general.
- `ImplementsLedger`: every step of `send()`, and of `submit()`, is a step of the ledger, or none.
- `CompletedIsConfirmed`: no order of faults, polls and broadcasts completes a row by mistake.
- `ClaimSendsOnce`, `HashIsConfirmed`, `ImplementsTransfer`: for rows of `send()` that no stall and no
  lost queue reply has touched, the claim lets one transaction through once, the hash shown is the
  confirmed one, and the row takes the steps of a promised life only: it is given back only before it has a
  hash, keeps the one it gets, completes only when that is confirmed, and `COMPLETED` and `FAILED` are final.
- `ProcessingIsDriven`, `ProcessingEnds`: a row in `PROCESSING` has a job or request at work on it,
  and gets out of `PROCESSING`, unless a fault was met with no answer.
- `SpentOnce`: an intent yields one row, and is never READY again once it has one.
- `UsedIsBacked`, `ClaimResolves`: a failed submit gives its intent back, at once or eventually.
- `QueuedPaysPlan`: what reaches the queue pays what was planned, and nothing else.
- `MissesCounted`, `LockHolds`: until a lockout first expires, the count is exact and a lockout
  is lifted by a correct PIN only. `SetNeverReplaces`: set-pin never overwrites.
- `EveryRequestAnswered`, `NoLivelock`: nobody waits for a lock for ever, and the compare-and-swap
  loop always lets someone through.

- `NeverAhead`, `ImplementsPromise`: a ramp status is one the provider has reached, or one that was read into the
  outcome word of a Bitnob event with an unlisted name (section 5), and moves back only
  by a writer that decided on an older view. `AppliedOnce`: redelivery never applies an event again.
- `CompletionArrives`: what the provider completes is shown COMPLETED in the end, unless an event or a
  write was lost in one of the ways the code has no answer to.
- `RowsConsistent`: whatever is in flight when an account is deleted, no row is left without its user, and
  e-mails, account ids and contact names stay unique.
- `EndedStaysEnded`, `RotationHonoured`: no login revives an ended session; a rotation with a window of at
  least a session's life and the rollout refuses no live session, an emergency one refuses all old ones.
- `AcceptedInBudget`, `LiveCodeKept`: concurrent guesses buy no attempt, a code is accepted once. A live code is
  deleted by the call that guessed it or missed it for the last time, so no guess at an old code deletes a new one -
  with one exception, stated in the property: the plain DEL of a call that read an older, expired record.
- `FulfilledIsPaid`, `SettledIsFinal`: a fulfilled request was paid by one transfer that pays no other, and
  stays so once the calls that saw it open have ended.
- `RoomsAreOwn`: a socket is in its user's room at its instance, gets that user's events only, and stays
  there after closing only if it closed during its own admission.
- `PlanWasCovered`: one and the same address held the tokens of a stored token plan and its gas, before it spent any
  of them (`prepare` reads them at two moments, and the address may spend between). It compares amounts as fractions
  (`AtMost`), not as `isAtLeast` does.

`MCRampLifecycle` and `MCPlatform` also make TLC evaluate named assumptions about the pure parts, over bounded
inputs, against what they should compute: `KoboComparesFractions`, `MoneyRoundTrips`, `ComparesFractions` (amounts);
`SeedsAgree`, `LastEntryWins`, `ReportsMisconfiguration` (token and network tables over five deployments);
`FormatsTellChainsApart`, `VerifiedIsWellFormed` (addresses); `BalancesAreHeld`, `StatusesAreTruthful` (adapters);
`SentIsAccepted` (e-mail).

What the violation runs show:

1. `send_reuse`: the fast path compares the body without its recipient, so a key re-used for another
   *Account ID* is answered with the earlier transfer (documented: 409).
2. `send_tiny`: amounts are compared as strings; a value below 1e-6 comes back from the database in
   exponent form and its retry is answered 409 (documented: replayed).
3. `pipeline_resend`: `submit` queues its job and leaves the row `PENDING`, so `broadcast` can claim the
   row and queue the same transaction again (documented: cannot be broadcast twice).
4. `pin_armed_once`: arming resets the count to 0, a value that slow requests may have read before;
   they count on under the active lockout and arm it again (documented: one arming per lockout).
5. `submit_twice`: the catch block of `submit` decides by `createdTransactionId`, which is still null when the
   INSERT took effect and its answer was lost: the intent is given back and a new key makes a second
   row of it (documented: a retry can never double-create rows).

**Bounds.** Requests under different keys share only the wallet lock, and two under one key are every
pair the key protocol compares (the theorems cover any number). One row suffices in the
pipeline: rows meet only in the queue and through a signed transaction; two broadcasts and two
slots give every race between two claims, two jobs and a stalled job with its successor. Two submits with
two intents and two keys meet in every combination of key, intent and user. A limit of
2 with 3 requests gives a lockout with a request left over to race with it. `sends` is capped at 2
("more than once"). Ramp rows share nothing but the handlers, so one row with two deliveries and its
job gives every race of its three writers, and two attempts a repeated job. One guess from an unlisted
event (`MaxGuesses`) can meet each of the row's writers and deliveries; the theorems hold for any number. In `accounts` two
calls suffice for each race the code has (a check and a write of one call around another call's), with
deletion as one of the two or, for the awaits in between, a third operation in the workload; two instances
with three keys and four ticks give a rotation during a rollout, after one, and an emergency. A workload
mixes the operations that share state; operations that share none are not mixed. `MCSymmetry`
permutes the calls, and swaps the other interchangeable values in two groups. `MCDigits` scales
18 decimals to 2 and 9 or 6 to 1, which keeps their order, and `MaxIntents` is 1 because intents
never read each other. `CHECK_DEADLOCK FALSE` is set for the
pipeline, the intents, the ramp and the accounts, where everything may be settled or a bound reached.

**Fairness.** Weak fairness of each started request's and each job's own steps: Node's event loop and
PostgreSQL run whatever is not blocked, BullMQ hands out every job it holds, and the chain decides
every transaction it accepted. For the ramp, also of each event's delivery: a provider repeats a webhook
until it is answered 200. Nothing is assumed of faults, clients, time, the provider's progress or the start
of a request.

## 4. Proofs

Each theorem holds for every value of the constants under the named assumption of its module
(`SendAssumption`, `PipelineAssumption`, `IntentAssumption`, `PinAssumption`, `RampAssumption`, and one of each module
below `Platform`, among them `EnvAssumption` on a deployment's token table, `DigitsAssumption` on the numbers of decimals
and `PreparingAssumption` on the amounts and the funds asked about), which TLC evaluates in the runs.

- `SendTransfer_proofs`: `IInv` adds to the properties that keys are unique (`OneTransferPerKey`), what
  a request knows at each step (`RequestInv`), that a row carries its creator's body (`RowInv`), and
  that a request which found a row never reaches the transaction (`SeenInv`). Uniqueness alone is not
  inductive: a replay is right only because the row it found is its sender's and stays. Theorems
  `TypeCorrect`, `KeyAgreement`, `Ownership`, `RetrySafety`, `ReuseSafety`, and `Refinement`, which maps
  `Create` to `Record` or `Refuse`, the look-ups that answer to `Replay`, and the rest to stutters.
- `TransferPipeline_proofs`: `Sound` (types, completion, what a job knows) holds for all rows and
  faults and gives `Completion`. `ClaimInv` holds for rows where the claim is the only way into the queue:
  the claim has one holder, a request or a job (`OneHolder`), and the row shows what the holder has
  done (`RowView`, `CallView`, `JobView`). It gives `SentOnce`, `HashCorrect` and `Refinement`: each write of a row
  maps to the step of `TransferPromise` it is, because the holder knows what it overwrites (a worker about to save
  a hash overwrites none), the rest to `Unseen`; `EndIsFinal` is read off the promise. `DrivenInv` is for
  all rows: a row in `PROCESSING` that has a hash has a *job*, because the one request that would give it
  back refuses to once there is a hash; without that half `RowsAreDriven` is not inductive.
- `ExternalIntent_proofs`: `IInv` says what a request knows at each step (`RequestInv`), that rows and jobs
  carry their request's data (`RowInv`, `QueueInv`), and that an intent is in one hand (`OneHand`): the one
  request that holds its claim, or the one row it became. Neither half is inductive alone: a
  request may give an intent back only because no other holds it and no row exists. Theorems
  `TypeCorrect`, `SpendingOnce`, `Backing`, `PaysThePlan` (from `VerifiedPays`, a lemma on the verification
  alone) and `Refinement`: `Create` maps to a `Record` that answers later, an ending with 201 to `Replay`.
- `PinLockout_proofs`: `FirstWindow` says that before any lockout has expired no request holds a view of
  an expired one, the only view that restarts the count. With it `CountIsExact` and `LockIsHeld`;
  `SetPinOnce` needs only types.

- `RampLifecycle_proofs`: `NeverAhead` needs that every decision on its way - in the request, a handler, the job
  or an event sent - is covered by what the provider says *now* or is recorded in `guessed`. The first holds because the
  provider's status only moves on and no word, the outcome of an unlisted event apart, is parsed to a later status than
  it stands for (lemmas over the status maps); the second because `guessed` only grows. `AppliedOnce` needs that
  a key is recorded before it is handled and by one handler at a time. `Refinement` maps a write to `Show`, the
  provider's completion, and a guess of one, to `Settle` and the rest to a change of `contested` or a stutter.
- `Platform_proofs`: `IInv` has a part for each component and what its calls know: a token is signed with a jti
  that no token had, so ended ones do not return; a code's wrong guesses are the attempts of its record while it is stored; a call
  about to delete an expired record read one that is gone, replaced or expired still (`DropInv`), so it never
  deletes a record that was live when it was read; a call
  about to fulfil has a transfer that pays, which never becomes another; the key of a live session is one
  that every planned or deployed environment accepts until the session expires (the longest argument: it follows
  `Window >= Life + Rollout` through a deployment). Each component's part is kept by the
  other components' steps, which leave its variables alone, and by deletion.
  Theorems `TypeCorrect`, `RowsOwned`, `NoSessionReturns`, `RotationSafe`, `BudgetKept`, `LiveCodesKept`,
  `RequestsArePaid`, `SettledStays`, `RoomsSafe`, `PlansWereCovered`.
- `Preparing_proofs`: the part of that `IInv` that `PlansWereCovered` needs. `HoldingOK` says that an address only
  spends what it was funded with, so what a balance covered the first funds covered. `PlanOK` says what a call
  knows between its awaits: past the tokens' check, that the address it goes on with held the tokens; past the gas's, that
  `PlanCovered` holds of what it will store. The wallet's row may change or go in between, what its address held may not.
  It also proves of the adapters, for every deployment: `LastEntryNames` and `OneTokenASymbol` (the token a symbol names on
  an EVM chain), `BalancesAreExact` (a shown balance is the base units held).
- `Money_proofs`: `Pow10` is a recursive function on the naturals, and the library's induction theorems take an
  operator, so induction is over *sets* of naturals instead: a set has a least element (`LeastOfSet`, from `WFMin`), hence
  one with 0 and every successor is everything (`SetInduction`). With it `Pow10` is the function its definition says.
  `ComparesAsFractions`: `isAtLeast`, which compares digits after scaling, compares the amounts themselves.
  `BaseUnitsRoundTrip`: base units survive being shown and read back, and no trailing zero is shown.

Only model-checked: the liveness properties (`EveryRequestAnswered`, `ClaimResolves`,
`ProcessingEnds`, `NoLivelock`, `CompletionArrives`),
which need fairness and `ENABLED`, out of the prover's reach; and the named assumptions
about pure operators, which range over bounded inputs. Of those, `ComparesFractions` and `MoneyRoundTrips` are small
instances of the two theorems of `Money_proofs`, and `LastEntryWins` and the token rows of
`BalancesAreHeld` of those of `Preparing_proofs`. Every safety property of the passing runs is a theorem.

## 5. What the models show of the code

Beyond the violation runs, the models have these behaviours. Each is an observation made while translating
the code; no run of its own is spent on it. Where a comment says otherwise, it is named.

Ramp:
- An event of Bitnob's with a name of neither list is parsed by `data.status` (`bitnob.provider.ts:350-352`), which the
  comment at lines 58-62 calls the outcome of the event and not the record's state. Such an event with "success" on a
  payout merely initialized writes COMPLETED, which no later event takes back; the comment at lines 76-82 says an unlisted
  event "degrades to 'look it up' rather than to a wrong status". `NeverAhead` fails without its exemption for `guessed`.
- An answer of Bitnob's without a list of payouts is taken for a 404 (`bitnob.provider.ts:313-318`), and marks the row FAILED.
- `getStatus` of Bitnob looks among the payouts, where no deposit is: the reconcile of a Bitnob deposit gets a
  404 and marks it FAILED while it lives. A later completion event still reaches COMPLETED.
- Yellow Card's event id is the transaction's: its second event is dropped as a duplicate.
- An event recorded by a handler that then dies is a duplicate when it is delivered again, and is never applied.
- The request, the reconcile and the handler write what they decided without a condition, so an older
  decision can take a terminal status back, which the comment at `ramp.service.ts:46` excludes: `RampPromise`
  allows it for contested rows only. Reconcile runs once; nothing picks up an unmatched event later, as the
  comment at `ramp.service.ts:275` expects.
- `markFailed` after a lost answer or a queue error shows FAILED of a transaction the provider is processing.

Accounts:
- A resend whose delivery fails makes a second code, which nobody is told and which can replace a newer one that
  was delivered. `verifyEmail` spends the code even if the update of the user then fails.
- `verifyVerificationCode` deletes an expired record by a plain DEL (`verificationCodeStore.ts:183`), which takes with it a newer
  code that a resend has stored since the read.
- `getRequest` writes EXPIRED whatever the row has become, FULFILLED included.
- A socket outlives the logout, revocation or deletion that ends its session; one that closes during its
  admission stays in its room; the event bridge of an instance does not reconnect.
- `wsServer` throws where `app.server.clients` is missing (`socket.handler.ts:35-41`, called at 163), which leaves an
  accepted socket open, without a room or a close listener. Nothing in the source sets that field but the mock
  of `socket.handler.test.ts:67`.
- Contacts and stored codes stay after their account.

Chains:
- The rows of `getTokenBalancesForChain` show 0 for a token that could not be read, where the comment at
  `wallet.service.ts:109` says null. Bitcoin's balance is the total received.
- TON's status look-up always throws, Bitcoin's never says failed, and TRON's compares a field that native
  transfers lack, which shows mined ones as failed. An EVM or Solana transaction that vanished stays pending.
- On BSC and Base a node that does not answer makes an address one that does not exist.
- Bitcoin's address format accepts TRON's and Solana's, Solana's accepts TRON's and legacy Bitcoin's.
- `prepare` stores intents for Solana and Bitcoin that `submit` always refuses, always fails for TRON and TON, and
  does not compare the amount of a native asset with the balance.
- SES and Resend answers of 200 without an id count as not sent.

## 6. Not modelled

- Start-up and shutdown of worker and server: a straight line with a deadline. Its outcomes for a job, ended
  or killed, are the faults of `TransferPipeline` and `RampLifecycle`, and `Redeploy` in `Platform`.
- Rate limiting and error mapping: a library's counters and a stateless table; a 429 is a call not made.
- The OpenAPI text, route inventory, schema conversion, logging, Sentry, and the scripts: they describe or report.
- Inside the adapters, the RPC requests and the decoding of signed transactions: I/O and a library's parsing. What
  a decoded transaction may be is in `ExternalIntent`; `TransferPipeline` abstracts the chains' status words to
  pending, confirmed and failed, and does not follow the per-chain oddities above.
- Profile and onboarding fields, `listSessions`, transfer lists and fee estimates: single statements that decide
  nothing another step depends on.
- The phone number of a signup: its look-up and unique index (`auth.service.ts:119-124`) repeat the e-mail's.
- Account ids issued again after a deletion: a transfer names its users, where `payment.service.ts:70-75` compares ids.
- Signing a token and inserting its session are one step with one expiry, for a readable `JWT_EXPIRES_IN`; the seven
  days that `jwt.ts:108-114` falls back to otherwise may differ from the token's.
- A retry that spells its amount otherwise is not the same transfer to `PlainRetryReplays` (`SameTransfer`): it may be
  answered 409.
- Two verification codes with the same six digits, frame sizes and pings of sockets, and message formatting.
