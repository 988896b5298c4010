------------------------- MODULE TransferPipeline -------------------------
(***************************************************************************)
(* The life of a Transaction row after it exists: the API calls that queue *)
(* its signed transaction (transactionService.broadcast, and the tail of   *)
(* externalTransferService.submit), the BullMQ queue, the worker that      *)
(* hands the signed transaction to the chain and polls for its outcome,    *)
(* and the chain.                                                          *)
(*                                                                         *)
(* Calls, jobs and the chain interleave freely.  What may go wrong is in   *)
(* Faults; a fault that hits a row where the code has no answer to it      *)
(* leaves a mark in mishap, so that the properties can say which faults a  *)
(* guarantee survives.  BullMQ, Redis and the chain are external: BullMQ   *)
(* hands a job to one worker at a time, puts the job of a dead worker back *)
(* in the queue MaxStalls times, and drops a job that threw (the jobs are  *)
(* added with a single attempt).                                           *)
(***************************************************************************)
EXTENDS Naturals, FiniteSets

CONSTANTS
  Txs,        \* Transaction rows
  Calls,      \* POST /api/transaction/:id/broadcast requests
  Signed,     \* signed transactions; the hash of one is the transaction itself
  Slots,      \* bound on the jobs alive at one time
  MaxStalls,  \* BullMQ's maxStalledCount
  Faults,     \* the faults this instance admits
  None

FaultKinds ==
  {"queue",      \* Queue.add rejects and nothing is queued
   "lostReply",  \* Queue.add rejects and the job IS queued
   "database",   \* a write of the row rejects
   "rpc",        \* a chain call rejects
   "stall",      \* a worker dies with a job in its hands
   "restart"}    \* an API process dies inside a request

\* What a fault may leave behind: work done or queued twice, or work given up.
Marks == {"twice", "dropped"}

ASSUME PipelineAssumption ==
  /\ None \notin Txs \cup Signed
  /\ MaxStalls \in Nat
  /\ Faults \subseteq FaultKinds

VARIABLES
  origin,   \* who created a row: send() or the external submit()
  tx,       \* the status and txHash of a row
  receipt,  \* the rows with a Receipt
  chain,    \* what the chain says of a signed transaction
  job,      \* the jobs in the queue or in a worker
  call,     \* the broadcast requests
  submit,   \* where the submit() of an external row is
  sends,    \* history: times a signed transaction was sent for a row (2: more)
  mishap    \* history: the marks that faults have left on a row

vars == <<origin, tx, receipt, chain, job, call, submit, sends, mishap>>

Statuses == {"NONE", "PENDING", "PROCESSING", "COMPLETED", "FAILED"}

Job == [kind: {"process"}, tx: Txs, signed: Signed, stalls: 0..MaxStalls,
        pc: {"waiting", "mark", "send", "save", "check", "fail"}]
       \cup
       [kind: {"check"}, tx: Txs, signed: Signed, stalls: 0..MaxStalls,
        pc: {"waiting", "poll", "settle", "receipt"}]

NoJob == [kind |-> "none"]

Call == [pc: {"idle"}] \cup
        [pc: {"claim", "add", "release"}, tx: Txs, signed: Signed,
         role: {"sender", "recipient"}] \cup
        [pc: {"done"}]

TypeOK ==
  /\ origin \in [Txs -> {"send", "submit"}]
  /\ tx \in [Txs -> [status: Statuses, hash: Signed \cup {None}]]
  /\ receipt \subseteq Txs
  /\ chain \in [Signed -> {"unknown", "pending", "confirmed", "failed"}]
  /\ job \in [Slots -> Job \cup {NoJob}]
  /\ call \in [Calls -> Call]
  /\ submit \in [Txs -> {"none", "add", "markFailed", "done"}]
  /\ sends \in [Txs -> [Signed -> 0..2]]
  /\ mishap \in [Txs -> SUBSET Marks]

Init ==
  /\ origin \in [Txs -> {"send", "submit"}]
  /\ tx = [t \in Txs |-> [status |-> "NONE", hash |-> None]]
  /\ receipt = {}
  /\ chain = [s \in Signed |-> "unknown"]
  /\ job = [j \in Slots |-> NoJob]
  /\ call = [c \in Calls |-> [pc |-> "idle"]]
  /\ submit = [t \in Txs |-> "none"]
  /\ sends = [t \in Txs |-> [s \in Signed |-> 0]]
  /\ mishap = [t \in Txs |-> {}]

-----------------------------------------------------------------------------
(* The row, the queue and the faults.                                      *)

SetStatus(t, s) == tx' = [tx EXCEPT ![t].status = s]

\* A fault strikes: the code copes with it, or it leaves its mark on row t.
Handled(fault) == fault \in Faults /\ UNCHANGED mishap
Struck(t, fault, mark) ==
  /\ fault \in Faults
  /\ mishap' = [mishap EXCEPT ![t] = @ \cup {mark}]

Free == {j \in Slots : job[j] = NoJob}

\* Which free slot a new job takes is of no consequence.
FreeSlot == CHOOSE j \in Free : TRUE

ProcessJob(t, s) ==
  [kind |-> "process", tx |-> t, signed |-> s, stalls |-> 0, pc |-> "waiting"]
CheckJob(t, s) ==
  [kind |-> "check", tx |-> t, signed |-> s, stalls |-> 0, pc |-> "waiting"]

Enqueue(newJob) ==
  /\ Free # {}
  /\ job' = [job EXCEPT ![FreeSlot] = newJob]

\* Queue.add("process-transaction"): the job is queued and the call returns ...
Added(t, s) == Enqueue(ProcessJob(t, s)) /\ UNCHANGED mishap

\* ... or it throws, without or with a job in the queue.
AddThrew(t, s) ==
  \/ Handled("queue") /\ UNCHANGED job
  \/ Struck(t, "lostReply", "twice") /\ Enqueue(ProcessJob(t, s))

-----------------------------------------------------------------------------
(* Rows come from send(), or from submit() with its own job.               *)

\* send() creates the row, PENDING, and queues nothing.
CreateBySend(t) ==
  /\ origin[t] = "send"
  /\ tx[t].status = "NONE"
  /\ SetStatus(t, "PENDING")
  /\ UNCHANGED <<origin, receipt, chain, job, call, submit, sends, mishap>>

\* submit() creates the row, PENDING, and goes on to queue its job.
CreateBySubmit(t) ==
  /\ origin[t] = "submit"
  /\ tx[t].status = "NONE"
  /\ SetStatus(t, "PENDING")
  /\ submit' = [submit EXCEPT ![t] = "add"]
  /\ UNCHANGED <<origin, receipt, chain, job, call, sends, mishap>>

\* submit() ties the row to its intent, queues the job and leaves the row PENDING.
SubmitAdd(t) ==
  /\ submit[t] = "add"
  /\ \E s \in Signed :
       \/ Added(t, s) /\ submit' = [submit EXCEPT ![t] = "done"]
       \/ /\ AddThrew(t, s) \/ (Handled("database") /\ UNCHANGED job)
          /\ submit' = [submit EXCEPT ![t] = "markFailed"]
  /\ UNCHANGED <<origin, tx, receipt, chain, call, sends>>

\* Its catch block marks the row FAILED; an error of that write is swallowed.
SubmitMarkFailed(t) ==
  /\ submit[t] = "markFailed"
  /\ \/ SetStatus(t, "FAILED") /\ UNCHANGED mishap
     \/ Struck(t, "database", "dropped") /\ UNCHANGED tx
  /\ submit' = [submit EXCEPT ![t] = "done"]
  /\ UNCHANGED <<origin, receipt, chain, job, call, sends>>

SubmitDies(t) ==
  /\ submit[t] \in {"add", "markFailed"}
  /\ Struck(t, "restart", "dropped")
  /\ submit' = [submit EXCEPT ![t] = "done"]
  /\ UNCHANGED <<origin, tx, receipt, chain, job, call, sends>>

-----------------------------------------------------------------------------
(* broadcast().                                                            *)

Respond(c) == call' = [call EXCEPT ![c] = [pc |-> "done"]]

\* getById admits the sender and the recipient.  A row that is PROCESSING is
\* replayed (200), a settled one is refused (409).
BroadcastRead(c) ==
  /\ call[c].pc = "idle"
  /\ \E t \in Txs, s \in Signed, role \in {"sender", "recipient"} :
       /\ tx[t].status # "NONE"
       /\ \/ /\ tx[t].status = "PENDING"
             /\ call' = [call EXCEPT ![c] = [pc |-> "claim", tx |-> t, signed |-> s,
                                             role |-> role]]
          \/ tx[t].status # "PENDING" /\ Respond(c)
  /\ UNCHANGED <<origin, tx, receipt, chain, job, submit, sends, mishap>>

\* The bug of claiming with the status that was read before.
ClaimOnStaleRead(c) ==
  /\ call[c].pc = "claim"
  /\ SetStatus(call[c].tx, "PROCESSING")
  /\ call' = [call EXCEPT ![c].pc = "add"]
  /\ UNCHANGED <<origin, receipt, chain, job, submit, sends, mishap>>

\* The atomic claim: only the sender, only from PENDING.
BroadcastClaim(c) ==
  LET t == call[c].tx IN
  /\ call[c].pc = "claim"
  /\ IF tx[t].status = "PENDING" /\ call[c].role = "sender"
     THEN /\ SetStatus(t, "PROCESSING")
          /\ call' = [call EXCEPT ![c].pc = "add"]
     ELSE Respond(c) /\ UNCHANGED tx
  /\ UNCHANGED <<origin, receipt, chain, job, submit, sends, mishap>>

BroadcastAdd(c) ==
  /\ call[c].pc = "add"
  /\ \/ Added(call[c].tx, call[c].signed) /\ Respond(c)
     \/ /\ AddThrew(call[c].tx, call[c].signed)
        /\ call' = [call EXCEPT ![c].pc = "release"]
  /\ UNCHANGED <<origin, tx, receipt, chain, submit, sends>>

\* The bug of a failed add that keeps the claim.
ReleaseNothing(c) ==
  /\ call[c].pc = "release"
  /\ Respond(c)
  /\ UNCHANGED <<origin, tx, receipt, chain, job, submit, sends, mishap>>

\* The claim is released unless a worker has already recorded a hash; an error
\* of the release is swallowed.
BroadcastRelease(c) ==
  LET t == call[c].tx IN
  /\ call[c].pc = "release"
  /\ \/ /\ IF tx[t].status = "PROCESSING" /\ tx[t].hash = None
           THEN SetStatus(t, "PENDING")
           ELSE UNCHANGED tx
        /\ UNCHANGED mishap
     \/ Struck(t, "database", "dropped") /\ UNCHANGED tx
  /\ Respond(c)
  /\ UNCHANGED <<origin, receipt, chain, job, submit, sends>>

BroadcastDies(c) ==
  /\ call[c].pc \in {"claim", "add", "release"}
  /\ Struck(call[c].tx, "restart", "dropped")
  /\ Respond(c)
  /\ UNCHANGED <<origin, tx, receipt, chain, job, submit, sends>>

-----------------------------------------------------------------------------
(* The worker.  A job that ends is gone; a worker that dies before BullMQ  *)
(* has heard of the end leaves the job to be done once more.               *)

Goto(j, pc) == job' = [job EXCEPT ![j].pc = pc]

Requeued(j) == [job[j] EXCEPT !.pc = "waiting", !.stalls = @ + 1]

CanRequeue(j) == job[j].stalls < MaxStalls

\* The job returned or threw: nothing is retried.
End(j) ==
  \/ job' = [job EXCEPT ![j] = NoJob] /\ UNCHANGED mishap
  \/ /\ CanRequeue(j) /\ Struck(job[j].tx, "stall", "twice")
     /\ job' = [job EXCEPT ![j] = Requeued(j)]

\* The job ends with a fault: the same, and the fault is remembered.
EndStruck(j, fault) ==
  /\ Struck(job[j].tx, fault, "dropped")
  /\ job' = [job EXCEPT ![j] = NoJob]

\* The job queued check-transaction as its last act, and ends.  A delayed job
\* is a waiting one: the delay only orders it after other work.
EndWithCheck(j) ==
  \/ /\ job' = [job EXCEPT ![j] = CheckJob(job[j].tx, job[j].signed)]
     /\ UNCHANGED mishap
  \/ /\ CanRequeue(j) /\ Struck(job[j].tx, "stall", "twice")
     /\ Free # {}
     /\ job' = [job EXCEPT ![j] = Requeued(j),
                           ![FreeSlot] = CheckJob(job[j].tx, job[j].signed)]

At(j, kind, pc) == job[j].kind = kind /\ job[j].pc = pc

Take(j) ==
  /\ job[j] # NoJob
  /\ job[j].pc = "waiting"
  /\ Goto(j, IF job[j].kind = "process" THEN "mark" ELSE "poll")
  /\ UNCHANGED <<origin, tx, receipt, chain, call, submit, sends, mishap>>

\* The row is set PROCESSING whatever it was; this write is outside the try.  (The
\* branch for a job without a signed transaction is never taken: the schemas of
\* both endpoints that queue one require it.)
WorkerMark(j) ==
  /\ At(j, "process", "mark")
  /\ \/ /\ SetStatus(job[j].tx, "PROCESSING")
        /\ Goto(j, "send")
        /\ UNCHANGED mishap
     \/ EndStruck(j, "database") /\ UNCHANGED tx
  /\ UNCHANGED <<origin, receipt, chain, call, submit, sends>>

\* sendSignedTransaction.  A node may take a transaction it already knows for
\* a new one or reject it, and a call may fail before or after it took effect (a
\* chain without signed broadcast is one that fails before).
WorkerSend(j) ==
  LET t == job[j].tx
      s == job[j].signed
  IN
  /\ At(j, "process", "send")
  /\ sends' = [sends EXCEPT ![t][s] = IF @ < 2 THEN @ + 1 ELSE 2]
  /\ \/ /\ chain' = [chain EXCEPT ![s] = IF @ = "unknown" THEN "pending" ELSE @]
        /\ Goto(j, "save")
        /\ UNCHANGED mishap
     \/ /\ chain[s] # "unknown"
        /\ Goto(j, "fail")
        /\ UNCHANGED <<chain, mishap>>
     \/ /\ Handled("rpc")
        /\ \E c \in {chain[s], IF chain[s] = "unknown" THEN "pending" ELSE chain[s]} :
             chain' = [chain EXCEPT ![s] = c]
        /\ Goto(j, "fail")
  /\ UNCHANGED <<origin, tx, receipt, call, submit>>

\* The bug of saving the status and not the hash.
SaveStatusOnly(j) ==
  /\ At(j, "process", "save")
  /\ SetStatus(job[j].tx, "PROCESSING")
  /\ Goto(j, "check")
  /\ UNCHANGED <<origin, receipt, chain, call, submit, sends, mishap>>

\* The hash the chain answered with is saved in the row.
WorkerSave(j) ==
  LET t == job[j].tx IN
  /\ At(j, "process", "save")
  /\ \/ /\ tx' = [tx EXCEPT ![t] = [status |-> "PROCESSING", hash |-> job[j].signed]]
        /\ Goto(j, "check")
        /\ UNCHANGED mishap
     \/ Handled("database") /\ Goto(j, "fail") /\ UNCHANGED tx
  /\ UNCHANGED <<origin, receipt, chain, call, submit, sends>>

\* The status check is queued with a delay and the job ends.
WorkerQueueCheck(j) ==
  /\ At(j, "process", "check")
  /\ \/ EndWithCheck(j)
     \/ Handled("queue") /\ Goto(j, "fail")
     \/ /\ Struck(job[j].tx, "lostReply", "twice")
        /\ Free # {}
        /\ job' = [job EXCEPT ![j].pc = "fail",
                              ![FreeSlot] = CheckJob(job[j].tx, job[j].signed)]
  /\ UNCHANGED <<origin, tx, receipt, chain, call, submit, sends>>

\* The bug of a catch block that only rethrows.
FailSilently(j) ==
  /\ At(j, "process", "fail")
  /\ End(j)
  /\ UNCHANGED <<origin, tx, receipt, chain, call, submit, sends>>

\* The bug of a catch block that gives the row back to be broadcast again.
FailIntoPending(j) ==
  /\ At(j, "process", "fail")
  /\ SetStatus(job[j].tx, "PENDING") /\ End(j)
  /\ UNCHANGED <<origin, receipt, chain, call, submit, sends>>

\* The catch block: FAILED, a notification, and the error goes on to BullMQ.
WorkerFail(j) ==
  /\ At(j, "process", "fail")
  /\ \/ SetStatus(job[j].tx, "FAILED") /\ End(j)
     \/ EndStruck(j, "database") /\ UNCHANGED tx
  /\ UNCHANGED <<origin, receipt, chain, call, submit, sends>>

\* The bug of settling a row whose transaction is still in flight.
PollOptimistic(j) ==
  /\ At(j, "check", "poll")
  /\ Goto(j, "settle")
  /\ UNCHANGED <<origin, tx, receipt, chain, call, submit, sends, mishap>>

\* getTransactionStatus: settle, or look again later; an error ends the job.  (A
\* check job whose add() lost its reply is queued all the same: the first case.)
WorkerPoll(j) ==
  LET status == chain[job[j].signed] IN
  /\ At(j, "check", "poll")
  /\ \/ status \in {"confirmed", "failed"} /\ Goto(j, "settle") /\ UNCHANGED mishap
     \/ status \notin {"confirmed", "failed"} /\ EndWithCheck(j)
     \/ \E fault \in {"rpc", "database"} : EndStruck(j, fault)
     \/ status \notin {"confirmed", "failed"} /\ EndStruck(j, "queue")
  /\ UNCHANGED <<origin, tx, receipt, chain, call, submit, sends>>

\* The bug of writing the chain's word for the outcome into the row.
VerdictVerbatim(s) == chain[s]

Verdict(s) == IF chain[s] = "failed" THEN "FAILED" ELSE "COMPLETED"

WorkerSettle(j) ==
  LET t == job[j].tx
      s == job[j].signed
  IN
  /\ At(j, "check", "settle")
  /\ \/ /\ SetStatus(t, Verdict(s))
        /\ IF Verdict(s) = "COMPLETED"
           THEN Goto(j, "receipt") /\ UNCHANGED mishap
           ELSE End(j)
     \/ EndStruck(j, "database") /\ UNCHANGED tx
  /\ UNCHANGED <<origin, receipt, chain, call, submit, sends>>

WorkerReceipt(j) ==
  /\ At(j, "check", "receipt")
  /\ \/ receipt' = receipt \cup {job[j].tx} /\ End(j)
     \/ EndStruck(j, "database") /\ UNCHANGED receipt
  /\ UNCHANGED <<origin, tx, chain, call, submit, sends>>

Work(j) == \/ Take(j) \/ WorkerMark(j) \/ WorkerSend(j) \/ WorkerSave(j)
           \/ WorkerQueueCheck(j) \/ WorkerFail(j) \/ WorkerPoll(j)
           \/ WorkerSettle(j) \/ WorkerReceipt(j)

\* A worker dies: its job is queued again, or dropped once it has stalled more
\* than MaxStalls times.
Stall(j) ==
  /\ job[j] # NoJob
  /\ job[j].pc # "waiting"
  /\ Struck(job[j].tx, "stall", IF CanRequeue(j) THEN "twice" ELSE "dropped")
  /\ job' = [job EXCEPT ![j] = IF CanRequeue(j) THEN Requeued(j) ELSE NoJob]
  /\ UNCHANGED <<origin, tx, receipt, chain, call, submit, sends>>

\* The chain includes a transaction it has accepted, or rejects it for good.
ChainDecides(s) ==
  /\ chain[s] = "pending"
  /\ \E v \in {"confirmed", "failed"} : chain' = [chain EXCEPT ![s] = v]
  /\ UNCHANGED <<origin, tx, receipt, job, call, submit, sends, mishap>>

Broadcasting(c) == BroadcastClaim(c) \/ BroadcastAdd(c) \/ BroadcastRelease(c)

Next ==
  \/ \E t \in Txs : \/ CreateBySend(t) \/ CreateBySubmit(t) \/ SubmitAdd(t)
                    \/ SubmitMarkFailed(t) \/ SubmitDies(t)
  \/ \E c \in Calls : BroadcastRead(c) \/ Broadcasting(c) \/ BroadcastDies(c)
  \/ \E j \in Slots : Work(j) \/ Stall(j)
  \/ \E s \in Signed : ChainDecides(s)

Spec == Init /\ [][Next]_vars

\* The event loop runs a request to its end, BullMQ runs every job it holds and
\* the chain decides every transaction it has accepted.
Fairness ==
  /\ \A t \in Txs : WF_vars(SubmitAdd(t) \/ SubmitMarkFailed(t))
  /\ \A c \in Calls : WF_vars(Broadcasting(c))
  /\ \A j \in Slots : WF_vars(Work(j))
  /\ \A s \in Signed : WF_vars(ChainDecides(s))

FairSpec == Spec /\ Fairness

-----------------------------------------------------------------------------
(* Properties.                                                             *)

\* A row is COMPLETED, or has a receipt, only when the chain has confirmed a
\* signed transaction that was sent for this row: no fault, no duplicated job and
\* no order of polls and broadcasts completes a transfer by mistake.
CompletedIsConfirmed ==
  \A t \in Txs :
    tx[t].status = "COMPLETED" \/ t \in receipt =>
      \E s \in Signed : sends[t][s] > 0 /\ chain[s] = "confirmed"

\* The rows for which the claim of broadcast() is the only way into the queue:
\* created by send(), and hit by no stalled job and no lost reply of the queue.
Claimed(t) == origin[t] = "send" /\ "twice" \notin mishap[t]

\* The txHash shown for a completed transfer is the hash of a transaction the
\* chain confirmed, even when clients raced with different signed transactions.
HashIsConfirmed ==
  \A t \in Txs :
    tx[t].status = "COMPLETED" /\ Claimed(t) =>
      tx[t].hash \in Signed /\ chain[tx[t].hash] = "confirmed"

\* A job of the row that has yet to settle it.
Drives(j, t) == job[j] # NoJob /\ job[j].tx = t /\ job[j].pc # "receipt"
JobDrives(t) == \E j \in Slots : Drives(j, t)

\* Such a job, or a request that has yet to queue or release the row.
Driven(t) ==
  \/ JobDrives(t)
  \/ \E c \in Calls : call[c].pc \in {"add", "release"} /\ call[c].tx = t

\* A row is never stranded in PROCESSING with nothing at work on it, unless one
\* of the faults the code has no answer to has hit the row.
ProcessingIsDriven ==
  \A t \in Txs : tx[t].status = "PROCESSING" /\ "dropped" \notin mishap[t] => Driven(t)

\* Whichever requests race, and whatever they signed, one signed transaction is
\* sent for a row, once.
ClaimSendsOnce ==
  \A t \in Txs : Claimed(t) =>
    \A s, r \in Signed :
      /\ sends[t][s] <= 1
      /\ sends[t][s] = 1 /\ sends[t][r] = 1 => s = r

\* A signed transaction is never broadcast twice for one row.
NeverSentTwice == \A t \in Txs, s \in Signed : sends[t][s] <= 1

\* What bears on a user's view of a transfer: what the chain has confirmed, and the
\* rows that have another way into the queue than the claim.
Confirmed == {s \in Signed : chain[s] = "confirmed"}
Unclaimed == {t \in Txs : ~Claimed(t)}

Promise == INSTANCE TransferPromise WITH
  shown <- tx,
  receipts <- receipt,
  landed <- Confirmed,
  spoiled <- Unclaimed

\* Whatever the order of broadcasts, jobs, polls and faults, a transfer takes the steps
\* of its promised life only: it gets one hash and keeps it, is given back only before
\* it has one, completes only when that hash is confirmed, and an end is final.
ImplementsTransfer == Promise!TransferSpec

-----------------------------------------------------------------------------
(* The inductive invariants behind the safety properties.                  *)

\* What a job knows: from "save" on its transaction has been sent, and what it is
\* about to settle has been decided.
JobInv(j) ==
  job[j] # NoJob =>
    /\ job[j].kind = "check" \/ job[j].pc \in {"save", "check"}
         => sends[job[j].tx][job[j].signed] > 0
    /\ job[j].pc = "settle" => chain[job[j].signed] \in {"confirmed", "failed"}
    /\ job[j].pc = "receipt" => chain[job[j].signed] = "confirmed"

Sound == TypeOK /\ CompletedIsConfirmed /\ \A j \in Slots : JobInv(j)

\* Who holds the claim of a row: a request that has yet to queue its job or give
\* the claim back, or a job.
JobOf(j, t) == job[j] # NoJob /\ job[j].tx = t
CallOf(c, t) == call[c].pc \in {"add", "release"} /\ call[c].tx = t

\* The claim has one holder.
OneHolder(t) ==
  /\ \A j, k \in Slots : JobOf(j, t) /\ JobOf(k, t) => j = k
  /\ \A c, d \in Calls : CallOf(c, t) /\ CallOf(d, t) => c = d
  /\ \A c \in Calls, j \in Slots : ~(CallOf(c, t) /\ JobOf(j, t))

Unsent(t) == \A s \in Signed : sends[t][s] = 0
SentOnly(t, s) == \A r \in Signed : sends[t][r] = IF r = s THEN 1 ELSE 0

\* A row nobody has claimed is untouched, and what a completed row shows is true.
RowView(t) ==
  /\ submit[t] = "none"
  /\ Unsent(t) \/ \E s \in Signed : SentOnly(t, s)
  /\ tx[t].status \in {"NONE", "PENDING"} =>
       /\ Unsent(t) /\ tx[t].hash = None
       /\ \A c \in Calls : ~CallOf(c, t)
       /\ \A j \in Slots : ~JobOf(j, t)
  /\ tx[t].status = "COMPLETED" =>
       tx[t].hash \in Signed /\ chain[tx[t].hash] = "confirmed"

\* What the row shows while a request holds its claim.
CallView(c) ==
  LET t == call[c].tx IN
  Unsent(t) /\ tx[t].status = "PROCESSING" /\ tx[t].hash = None

\* What the row shows while a job holds its claim.
JobView(j) ==
  LET t == job[j].tx
      s == job[j].signed
  IN
  IF job[j].kind = "process" /\ job[j].pc \in {"waiting", "mark", "send"}
  THEN Unsent(t) /\ tx[t].status = "PROCESSING" /\ tx[t].hash = None
  ELSE /\ SentOnly(t, s)
       /\ tx[t].status = IF job[j].pc = "receipt" THEN "COMPLETED" ELSE "PROCESSING"
       /\ job[j].kind = "check" \/ job[j].pc = "check" => tx[t].hash = s
       /\ job[j].pc = "save" => tx[t].hash = None

ClaimInv(t) ==
  Claimed(t) =>
    /\ OneHolder(t)
    /\ RowView(t)
    /\ \A c \in Calls : CallOf(c, t) => CallView(c)
    /\ \A j \in Slots : JobOf(j, t) => JobView(j)

\* What drives a row: a request gives the claim back only while there is no hash, so a
\* row with one must have a job; a row that may be claimed has none.
DrivenInv(t) ==
  /\ tx[t].status = "PROCESSING" /\ "dropped" \notin mishap[t] =>
       /\ Driven(t)
       /\ tx[t].hash # None => JobDrives(t)
  /\ tx[t].status \in {"NONE", "PENDING"} => tx[t].hash = None

IInv == Sound /\ \A t \in Txs : ClaimInv(t)

-----------------------------------------------------------------------------

\* A row that is being processed is settled, or given back to the client to
\* broadcast again, unless a fault the code has no answer to strikes.
ProcessingEnds ==
  \A t \in Txs :
    tx[t].status = "PROCESSING" ~>
      tx[t].status # "PROCESSING" \/ "dropped" \in mishap[t]

=============================================================================
