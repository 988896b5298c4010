-------------------------- MODULE RampLifecycle --------------------------
(***************************************************************************)
(* Naira deposits and withdrawals: rampService.deposit and withdraw up to  *)
(* the queue, the provider's webhooks, and the reconcile job.              *)
(*                                                                         *)
(* Three kinds of process write a row's status: the request that made it,  *)
(* webhook handlers and its reconcile job.  Each writes what it decided on *)
(* an earlier view of the row, and the others run in between.  The         *)
(* provider is outside: it settles a transaction when it likes, announces  *)
(* each of its statuses by one event, and delivers an event any number of  *)
(* times, in any order.                                                    *)
(***************************************************************************)
EXTENDS RampProviders, FiniteSets

CONSTANTS
  Rows,       \* the ramp transactions
  Hooks,      \* the webhook deliveries handled at one time
  Amounts,    \* the amounts users enter
  MinNgn, MaxNgn,  \* env.RAMP_MIN_NGN, env.RAMP_MAX_NGN
  Attempts,   \* the attempts BullMQ makes of a reconcile job
  MaxGuesses, \* bound: the events guessed to announce another status
  Faults,     \* what may go wrong
  None

AllFaults == {"refused", "answerLost", "garbled", "queueError", "apiDies", "dbError",
              "workerDies", "unsent", "deletion"}

ASSUME RampAssumption ==
  /\ None \notin Statuses
  /\ Amounts \subseteq [whole: Nat, frac: Seq(0..9)]
  /\ MinNgn \in Nat \ {0} /\ MaxNgn \in Nat
  /\ Attempts \in Nat \ {0} /\ MaxGuesses \in Nat
  /\ Faults \subseteq AllFaults

VARIABLES
  provider,  \* env.RAMP_PROVIDER
  row,       \* the status of each RampTransaction, None where there is no row
  input,     \* the type and amount its request asked for
  maker,     \* the request that makes the row
  job,       \* its reconcile job
  says,      \* the provider's status of the transaction
  sent,      \* the events the provider has sent
  recorded,  \* RampWebhookEvent: the ids of the events received
  hook,      \* the webhook handlers
  applied,   \* history: the ids of the events whose status was written
  guessed,   \* history: the rows and statuses events were guessed to announce, wrongly
  loss       \* history: the rows of which an event or a write was lost, see below

vars == <<provider, row, input, maker, job, says, sent, recorded, hook, applied, guessed, loss>>

Input == [type: Types, amount: Amounts]
\* id is the key a redelivery is recognised by, "absent" where the row alone is the key.
Event == [ref: Rows, status: Statuses, id: Statuses \cup {"absent"}]
Maker == [pc: {"none", "customer", "call", "enqueue", "mark", "made", "refused", "dead"}]
         \cup [pc: {"record"}, next: Statuses]
Job == [pc: {"none", "done"}] \cup [pc: {"queued"}, left: 1..Attempts]
       \cup [pc: {"ask"}, left: 1..Attempts, view: Statuses]
       \cup [pc: {"write"}, left: 1..Attempts, view: Statuses, next: Statuses]
Hook == [pc: {"idle"}] \cup [pc: {"find"}, ev: Event]
        \cup [pc: {"update"}, ev: Event, view: Statuses]

Idle == [pc |-> "idle"]

TypeOK ==
  /\ provider \in Providers
  /\ row \in [Rows -> Statuses \cup {None}]
  /\ input \in [Rows -> Input \cup {None}]
  /\ maker \in [Rows -> Maker]
  /\ job \in [Rows -> Job]
  /\ says \in [Rows -> Statuses \cup {None}]
  /\ sent \subseteq Event
  /\ recorded \subseteq Rows \X (Statuses \cup {"absent"})
  /\ hook \in [Hooks -> Hook]
  /\ applied \subseteq recorded
  /\ guessed \subseteq Rows \X Statuses
  /\ loss \subseteq Rows

Init ==
  /\ provider \in Providers
  /\ row = [r \in Rows |-> None]
  /\ input = [r \in Rows |-> None]
  /\ maker = [r \in Rows |-> [pc |-> "none"]]
  /\ job = [r \in Rows |-> [pc |-> "none"]]
  /\ says = [r \in Rows |-> None]
  /\ sent = {}
  /\ recorded = {}
  /\ hook = [h \in Hooks |-> Idle]
  /\ applied = {}
  /\ guessed = {}
  /\ loss = {}

\* The bug of ranking a failure above a success.
RankFailedLast == [PENDING |-> 0, PROCESSING |-> 1, COMPLETED |-> 2, FAILED |-> 3]

RANK == [PENDING |-> 0, PROCESSING |-> 1, FAILED |-> 2, COMPLETED |-> 3]

Terminal == {"COMPLETED", "FAILED"}

-----------------------------------------------------------------------------

Make(r, state) == maker' = [maker EXCEPT ![r] = state]
\* prisma.rampTransaction.update; it throws when the row is gone.
Write(r, status) == row' = [row EXCEPT ![r] = IF @ = None THEN None ELSE status]
\* A write takes the row back from COMPLETED, to which no event will return it.
Overwrites(r, status) == row[r] = "COMPLETED" /\ status # "COMPLETED"
Lose(r, lost) == loss' = IF lost THEN loss \cup {r} ELSE loss

\* Bitnob gives every event an id of its own; Yellow Card's is the transaction's.
EventId(prov, s) == IF prov = "bitnob" THEN s ELSE "absent"

Key(ev) == <<ev.ref, ev.id>>

\* The provider may announce its status s by an event, which may be guessed another.
Send(r, type, s) ==
  \E a \in Announced(provider, type, s) :
    /\ sent' = sent \cup {[ref |-> r, status |-> a.status, id |-> EventId(provider, s)]}
    /\ IF a.guess /\ a.status # s
       THEN Cardinality(guessed) < MaxGuesses /\ guessed' = guessed \cup {<<r, a.status>>}
       ELSE UNCHANGED guessed
    /\ Lose(r, a.status # s \/ <<r, EventId(provider, s)>> \in recorded)

\* Or it does not.
Unsent(r) ==
  /\ "unsent" \in Faults
  /\ Lose(r, TRUE)
  /\ UNCHANGED <<sent, guessed>>

\* POST /api/ramp/deposit and withdraw: the amount is checked, the row is made.
Start(r) ==
  /\ maker[r].pc = "none"
  /\ \E t \in Types, a \in Amounts :
       IF assertValidNgnAmount(a, MinNgn, MaxNgn)
       THEN /\ row' = [row EXCEPT ![r] = "PENDING"]
            /\ input' = [input EXCEPT ![r] = [type |-> t, amount |-> a]]
            /\ Make(r, [pc |-> "customer"])
       ELSE /\ Make(r, [pc |-> "refused"])
            /\ UNCHANGED <<row, input>>
  /\ UNCHANGED <<provider, job, says, sent, recorded, hook, applied, guessed, loss>>

\* How a call of the provider's API may end: answered, refused (or never sent), or the
\* answer is lost, times out or is none the adapter can read.
request == {"answered"} \cup ({"refused", "answerLost"} \cap Faults)

\* A call at Bitnob, nothing at Yellow Card.
createCustomer == IF provider = "bitnob" THEN request ELSE {"answered"}

MakeCustomer(r) ==
  /\ maker[r].pc = "customer"
  /\ \E outcome \in createCustomer :
       Make(r, [pc |-> IF outcome = "answered" THEN "call" ELSE "mark"])
  /\ UNCHANGED <<provider, row, input, job, says, sent, recorded, hook, applied, guessed, loss>>

\* createDeposit or createWithdrawal: the provider refuses, or takes the transaction,
\* which may go some way at once, and answers, or the answer is lost.  Nothing need
\* announce a transaction that is merely there.
CallProvider(r) ==
  /\ maker[r].pc = "call"
  /\ \E outcome \in request :
       \/ /\ outcome = "refused"
          /\ Make(r, [pc |-> "mark"])
          /\ UNCHANGED <<says, sent, guessed, loss>>
       \/ /\ outcome # "refused"
          /\ \E s \in Statuses :
               /\ says' = [says EXCEPT ![r] = s]
               /\ \/ Send(r, input[r].type, s)
                  \/ Unsent(r)
                  \/ s = "PENDING" /\ UNCHANGED <<sent, guessed, loss>>
               /\ \/ /\ outcome = "answered"
                     /\ \E next \in Reported(provider, input[r].type, s) :
                          Make(r, [pc |-> "record", next |-> next])
                  \/ outcome = "answerLost" /\ Make(r, [pc |-> "mark"])
  /\ UNCHANGED <<provider, row, input, job, recorded, hook, applied>>

\* The instruction's status is written whatever the row has become.
RecordInstruction(r) ==
  /\ maker[r].pc = "record"
  /\ \/ /\ Write(r, maker[r].next)
        /\ Lose(r, Overwrites(r, maker[r].next))
        /\ Make(r, [pc |-> IF row[r] = None THEN "mark" ELSE "enqueue"])
     \/ /\ "dbError" \in Faults
        /\ Make(r, [pc |-> "mark"])
        /\ UNCHANGED <<row, loss>>
  /\ UNCHANGED <<provider, input, job, says, sent, recorded, hook, applied, guessed>>

QueueReconcile(r) ==
  /\ maker[r].pc = "enqueue"
  /\ \/ /\ job' = [job EXCEPT ![r] = [pc |-> "queued", left |-> Attempts]]
        /\ Make(r, [pc |-> "made"])
     \/ /\ "queueError" \in Faults
        /\ Make(r, [pc |-> "mark"])
        /\ UNCHANGED job
  /\ UNCHANGED <<provider, row, input, says, sent, recorded, hook, applied, guessed, loss>>

\* markFailed, whose own error is swallowed.
MarkFailed(r) ==
  /\ maker[r].pc = "mark"
  /\ \/ Write(r, "FAILED") /\ Lose(r, Overwrites(r, "FAILED"))
     \/ "dbError" \in Faults /\ UNCHANGED <<row, loss>>
  /\ Make(r, [pc |-> "refused"])
  /\ UNCHANGED <<provider, input, job, says, sent, recorded, hook, applied, guessed>>

MakerDies(r) ==
  /\ "apiDies" \in Faults
  /\ maker[r].pc \in {"customer", "call", "record", "enqueue", "mark"}
  /\ Make(r, [pc |-> "dead"])
  /\ UNCHANGED <<provider, row, input, job, says, sent, recorded, hook, applied, guessed, loss>>

\* deleteAccount removes the user's rows.
Delete(r) ==
  /\ "deletion" \in Faults
  /\ row[r] # None
  /\ row' = [row EXCEPT ![r] = None]
  /\ UNCHANGED <<provider, input, maker, job, says, sent, recorded, hook, applied, guessed, loss>>

-----------------------------------------------------------------------------
(* The provider.                                                           *)

\* The provider's transaction moves on, and it sends an event, if it does.
Progress(r) ==
  /\ says[r] \in {"PENDING", "PROCESSING"}
  /\ \E s \in Terminal \cup {"PROCESSING"} :
       /\ s # says[r]
       /\ says' = [says EXCEPT ![r] = s]
       /\ Send(r, input[r].type, s) \/ Unsent(r)
  /\ UNCHANGED <<provider, row, input, maker, job, recorded, hook, applied>>

-----------------------------------------------------------------------------
(* handleWebhook.                                                          *)

\* The bug of a plain insert.
NeverDuplicate(ev) == FALSE

\* The unique (provider, eventId) of RampWebhookEvent.
Duplicate(ev) == Key(ev) \in recorded

\* A delivery whose signature verifies; other deliveries are answered 401.
Deliver(h, ev) ==
  /\ hook[h].pc = "idle"
  /\ ev \in sent
  /\ ~Duplicate(ev)
  /\ recorded' = recorded \cup {Key(ev)}
  /\ hook' = [hook EXCEPT ![h] = [pc |-> "find", ev |-> ev]]
  \* Other events with this id will be taken for redeliveries.
  /\ Lose(ev.ref, \E o \in sent \ {ev} : Key(o) = Key(ev))
  /\ UNCHANGED <<provider, row, input, maker, job, says, sent, applied, guessed>>

HookFind(h) ==
  /\ hook[h].pc = "find"
  /\ LET ev == hook[h].ev
         found == row[ev.ref]
     IN  hook' = [hook EXCEPT ![h] =
           IF found = None THEN Idle
           ELSE IF RANK[found] >= RANK[ev.status] THEN Idle
           ELSE [pc |-> "update", ev |-> ev, view |-> found]]
  /\ UNCHANGED <<provider, row, input, maker, job, says, sent, recorded, applied, guessed, loss>>

HookUpdate(h) ==
  /\ hook[h].pc = "update"
  /\ LET ev == hook[h].ev
     IN  /\ Write(ev.ref, ev.status)
         /\ Lose(ev.ref, Overwrites(ev.ref, ev.status))
         /\ applied' = IF row[ev.ref] = None THEN applied ELSE applied \cup {Key(ev)}
  /\ hook' = [hook EXCEPT ![h] = Idle]
  /\ UNCHANGED <<provider, input, maker, job, says, sent, recorded, guessed>>

\* A database error (answered 500) or a death: a redelivery is now a duplicate.
HookFails(h) ==
  /\ {"dbError", "apiDies"} \cap Faults # {}
  /\ hook[h].pc # "idle"
  /\ Lose(hook[h].ev.ref, TRUE)
  /\ hook' = [hook EXCEPT ![h] = Idle]
  /\ UNCHANGED <<provider, row, input, maker, job, says, sent, recorded, applied, guessed>>

-----------------------------------------------------------------------------
(* The ramp worker and rampService.reconcile.                              *)

SetJob(r, state) == job' = [job EXCEPT ![r] = state]
Done == [pc |-> "done"]

\* The row is read; a terminal one, or one that is gone, is left alone.
JobRead(r) ==
  /\ job[r].pc = "queued"
  /\ SetJob(r, IF row[r] \in Terminal \cup {None} THEN Done
              ELSE [pc |-> "ask", left |-> job[r].left, view |-> row[r]])
  /\ UNCHANGED <<provider, row, input, maker, says, sent, recorded, hook, applied, guessed, loss>>

\* The bug of retrying once too often.
ThrowsPastLast(r) ==
  /\ "dbError" \in Faults
  /\ job[r].pc = "queued"
  /\ SetJob(r, [job[r] EXCEPT !.left = @ - 1])
  /\ UNCHANGED <<provider, row, input, maker, says, sent, recorded, hook, applied, guessed, loss>>

\* The only errors that reach BullMQ are those before reconcile: it tries again.
JobThrows(r) ==
  /\ "dbError" \in Faults
  /\ job[r].pc = "queued"
  /\ SetJob(r, IF job[r].left = 1 THEN Done ELSE [job[r] EXCEPT !.left = @ - 1])
  /\ UNCHANGED <<provider, row, input, maker, says, sent, recorded, hook, applied, guessed, loss>>

\* getStatus: Bitnob looks among the payouts, where no deposit is.
Unknown(r) ==
  \/ provider = "bitnob" /\ input[r].type = "DEPOSIT"
  \/ says[r] = None

\* An answer without the transaction is taken for a 404, whatever it holds instead.
NotFound(r) == Unknown(r) \/ "garbled" \in Faults

\* The bug of writing whatever the provider answers.
DecisionsUnranked(r) ==
  (IF NotFound(r) THEN {"FAILED"} ELSE {})
  \cup (IF Unknown(r) THEN {} ELSE Reported(provider, input[r].type, says[r]))

\* The statuses reconcile may decide to write: a later one, or FAILED for a 404.
Decisions(r) ==
  (IF NotFound(r) THEN {"FAILED"} ELSE {})
  \cup (IF Unknown(r) THEN {}
        ELSE {s \in Reported(provider, input[r].type, says[r]) : RANK[s] > RANK[job[r].view]})

\* The look-up answers, or fails; every error of reconcile ends the job.
JobAsk(r) ==
  /\ job[r].pc = "ask"
  /\ \/ \E s \in Decisions(r) :
          SetJob(r, [pc |-> "write", left |-> job[r].left, view |-> job[r].view, next |-> s])
     \/ SetJob(r, Done)
  /\ UNCHANGED <<provider, row, input, maker, says, sent, recorded, hook, applied, guessed, loss>>

JobWrite(r) ==
  /\ job[r].pc = "write"
  /\ \/ Write(r, job[r].next) /\ Lose(r, Overwrites(r, job[r].next))
     \/ "dbError" \in Faults /\ UNCHANGED <<row, loss>>
  /\ SetJob(r, Done)
  /\ UNCHANGED <<provider, input, maker, says, sent, recorded, hook, applied, guessed>>

\* The worker dies and BullMQ hands the job out again.
JobStalls(r) ==
  /\ "workerDies" \in Faults
  /\ job[r].pc \in {"ask", "write"}
  /\ SetJob(r, IF job[r].left = 1 THEN Done
              ELSE [pc |-> "queued", left |-> job[r].left - 1])
  /\ UNCHANGED <<provider, row, input, maker, says, sent, recorded, hook, applied, guessed, loss>>

-----------------------------------------------------------------------------

MakerNext(r) ==
  \/ MakeCustomer(r) \/ CallProvider(r) \/ RecordInstruction(r) \/ QueueReconcile(r) \/ MarkFailed(r)
JobNext(r) == JobRead(r) \/ JobAsk(r) \/ JobWrite(r)
HookNext(h) == HookFind(h) \/ HookUpdate(h)

Next ==
  \/ \E r \in Rows : \/ Start(r) \/ MakerNext(r) \/ MakerDies(r) \/ Delete(r)
                      \/ Progress(r) \/ JobNext(r) \/ JobThrows(r) \/ JobStalls(r)
  \/ \E h \in Hooks : HookNext(h) \/ HookFails(h) \/ \E ev \in sent : Deliver(h, ev)

\* A provider repeats an event until it is answered 200; a request, a handler and a
\* job go on.  Nothing is assumed of users, of the provider's progress or of faults.
Fairness ==
  /\ \A r \in Rows : WF_vars(MakerNext(r)) /\ WF_vars(JobNext(r))
  /\ \A h \in Hooks : WF_vars(HookNext(h))
  /\ \A r \in Rows, s \in Statuses, i \in Statuses \cup {"absent"} :
       WF_vars(\E h \in Hooks : Deliver(h, [ref |-> r, status |-> s, id |-> i]))

Spec == Init /\ [][Next]_vars /\ Fairness

-----------------------------------------------------------------------------
(* Properties.                                                             *)

\* The provider has been in the status, if it is one it alone decides on.
Reached(r, status) ==
  /\ status = "PROCESSING" => says[r] \in Statuses \ {"PENDING"}
  /\ status = "COMPLETED" => says[r] = "COMPLETED"

\* In whatever order events and look-ups arrive, PROCESSING is shown only of a
\* transaction that is, or was, under way and COMPLETED only of one that is complete -
\* unless Bitnob sent of it an event of an unlisted name whose outcome was taken for
\* just that status.
NeverAhead ==
  \A r \in Rows : row[r] # None => Reached(r, row[r]) \/ <<r, row[r]>> \in guessed

\* An event whose status has been written is on its way in no other delivery:
\* redeliveries never apply it again.
AppliedOnce ==
  \A h \in Hooks : hook[h].pc = "update" => Key(hook[h].ev) \notin applied

\* Writers that have decided on a view of row r that is no longer true; a request marks
\* its row FAILED whatever it, or another, has made of it.
Contested(r) ==
  \/ maker[r].pc \in {"record", "mark"} /\ row[r] # "PENDING"
  \/ job[r].pc = "write" /\ job[r].view # row[r]
  \/ \E h \in Hooks : hook[h].pc = "update" /\ hook[h].ev.ref = r /\ hook[h].view # row[r]

\* The status shown never moves backwards but by a writer with an older view, and is
\* COMPLETED only of money that is settled, or guessed to be.
Promise == INSTANCE RampPromise WITH
  Rows <- Rows,
  None <- None,
  shown <- row,
  announced <- {r \in Rows : says[r] = "COMPLETED" \/ <<r, "COMPLETED">> \in guessed},
  contested <- {r \in Rows : Contested(r)}
ImplementsPromise == Promise!PromiseSpec

\* A transaction the provider completes is shown COMPLETED in the end, unless its row
\* is gone, or an event or a write of it was lost: the provider never sent one, it
\* was recorded and its handler failed, its id was another event's, its word or name is
\* not listed and it was read as another status, or a writer with an older view wrote over COMPLETED.
CompletionArrives ==
  \A r \in Rows : says[r] = "COMPLETED" ~> (row[r] \in {"COMPLETED", None} \/ r \in loss)

=============================================================================
