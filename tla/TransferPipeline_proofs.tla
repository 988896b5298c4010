---------------------- MODULE TransferPipeline_proofs ----------------------
(***************************************************************************)
(* Proofs about TransferPipeline, for any number of rows, requests, signed *)
(* transactions and jobs, any MaxStalls and any set of faults.             *)
(***************************************************************************)
EXTENDS TransferPipeline, TLAPS

(***************************************************************************)
(* Jobs and the queue.                                                     *)
(***************************************************************************)
\* The fields of a job that is in the queue or in a worker.
LEMMA JobFields ==
  ASSUME TypeOK, NEW j \in Slots, job[j] # NoJob
  PROVE  /\ job[j] \in Job
         /\ job[j].tx \in Txs
         /\ job[j].signed \in Signed
         /\ job[j].stalls \in 0..MaxStalls
         /\ job[j].kind \in {"process", "check"}
BY DEF TypeOK, Job

\* A job at a step of the worker is not an empty slot.
LEMMA AtIsJob ==
  ASSUME NEW j \in Slots, NEW kind \in {"process", "check"}, NEW pc, At(j, kind, pc)
  PROVE  job[j] # NoJob
BY DEF At, NoJob

\* The jobs that Queue.add queues are jobs.
LEMMA NewJobs ==
  ASSUME NEW t \in Txs, NEW s \in Signed
  PROVE  /\ ProcessJob(t, s) \in Job /\ ProcessJob(t, s) # NoJob
         /\ CheckJob(t, s) \in Job /\ CheckJob(t, s) # NoJob
BY PipelineAssumption DEF ProcessJob, CheckJob, Job, NoJob

\* A job that is queued again is a job.
LEMMA RequeuedType ==
  ASSUME TypeOK, NEW j \in Slots, job[j] # NoJob, CanRequeue(j)
  PROVE  Requeued(j) \in Job /\ Requeued(j) # NoJob
<1>1. job[j] \in Job /\ job[j].stalls + 1 \in 0..MaxStalls
  BY PipelineAssumption, JobFields DEF CanRequeue
<1> DEFINE b == Requeued(j)
<1>2. b = [job[j] EXCEPT !.pc = "waiting", !.stalls = @ + 1]
  BY DEF Requeued
<1>3. CASE job[j].kind = "process"
  BY <1>1, <1>2, <1>3 DEF Job, NoJob
<1>4. CASE job[j].kind = "check"
  BY <1>1, <1>2, <1>4 DEF Job, NoJob
<1> QED BY <1>3, <1>4, JobFields

\* The slot a new job takes is a free one.
LEMMA SlotIsFree == Free # {} => FreeSlot \in Slots /\ job[FreeSlot] = NoJob
BY DEF Free, FreeSlot

\* The queue keeps its type when a slot is given a job or emptied.
LEMMA QueueType ==
  ASSUME TypeOK, NEW j \in Slots, NEW b \in Job \cup {NoJob}
  PROVE  [job EXCEPT ![j] = b] \in [Slots -> Job \cup {NoJob}]
BY DEF TypeOK

\* The queue keeps its type when a job moves on.
LEMMA GotoType ==
  ASSUME TypeOK, NEW j \in Slots, NEW kind, NEW pc,
         job[j] # NoJob, job[j].kind = kind,
         \/ kind = "process" /\ pc \in {"mark", "send", "save", "check", "fail"}
         \/ kind = "check" /\ pc \in {"poll", "settle", "receipt"},
         Goto(j, pc)
  PROVE  job' \in [Slots -> Job \cup {NoJob}]
<1>1. [job[j] EXCEPT !.pc = pc] \in Job
  BY JobFields DEF Job
<1> QED BY <1>1 DEF Goto, TypeOK

\* The marks on a row keep their type.
LEMMA StruckType ==
  ASSUME TypeOK, NEW t \in Txs, NEW fault, NEW mark \in Marks, Struck(t, fault, mark)
  PROVE  mishap' \in [Txs -> SUBSET Marks]
BY DEF Struck, TypeOK

\* The queue keeps its type when a job is added.
LEMMA EnqueueType ==
  ASSUME TypeOK, NEW b \in Job, Enqueue(b)
  PROVE  job' \in [Slots -> Job \cup {NoJob}]
BY SlotIsFree DEF Enqueue, TypeOK

\* The outcomes of Queue.add, and of the end of a job, keep the types.
LEMMA AddType ==
  ASSUME TypeOK, NEW t \in Txs, NEW s \in Signed, Added(t, s) \/ AddThrew(t, s)
  PROVE  job' \in [Slots -> Job \cup {NoJob}] /\ mishap' \in [Txs -> SUBSET Marks]
<1>1. CASE Added(t, s)
  BY <1>1, NewJobs, EnqueueType DEF Added, TypeOK
<1>2. CASE AddThrew(t, s)
  <2>1. CASE Handled("queue") /\ UNCHANGED job
    BY <2>1 DEF Handled, TypeOK
  <2>2. CASE Struck(t, "lostReply", "twice") /\ Enqueue(ProcessJob(t, s))
    BY <2>2, NewJobs, EnqueueType, StruckType DEF Marks
  <2> QED BY <1>2, <2>1, <2>2 DEF AddThrew
<1> QED BY <1>1, <1>2

\* The queue and the marks keep their types when a job ends.
LEMMA EndType ==
  ASSUME TypeOK, NEW j \in Slots, job[j] # NoJob,
         \/ End(j) \/ EndWithCheck(j) \/ \E fault \in FaultKinds : EndStruck(j, fault)
  PROVE  job' \in [Slots -> Job \cup {NoJob}] /\ mishap' \in [Txs -> SUBSET Marks]
<1>0. job[j].tx \in Txs /\ CheckJob(job[j].tx, job[j].signed) \in Job
  BY JobFields, NewJobs
<1>1. CASE End(j)
  <2>1. CASE job' = [job EXCEPT ![j] = NoJob] /\ UNCHANGED mishap
    BY <2>1, QueueType DEF TypeOK
  <2>2. CASE /\ CanRequeue(j) /\ Struck(job[j].tx, "stall", "twice")
             /\ job' = [job EXCEPT ![j] = Requeued(j)]
    BY <1>0, <2>2, RequeuedType, QueueType, StruckType DEF Marks
  <2> QED BY <1>1, <2>1, <2>2 DEF End
<1>2. CASE EndWithCheck(j)
  <2>1. CASE /\ job' = [job EXCEPT ![j] = CheckJob(job[j].tx, job[j].signed)]
             /\ UNCHANGED mishap
    BY <1>0, <2>1, QueueType DEF TypeOK
  <2>2. CASE /\ CanRequeue(j) /\ Struck(job[j].tx, "stall", "twice")
             /\ Free # {}
             /\ job' = [job EXCEPT ![j] = Requeued(j),
                                   ![FreeSlot] = CheckJob(job[j].tx, job[j].signed)]
    <3>1. Requeued(j) \in Job
      BY <2>2, RequeuedType
    <3>2. FreeSlot \in Slots
      BY <2>2, SlotIsFree
    <3> QED BY <1>0, <2>2, <3>1, <3>2, StruckType DEF TypeOK, Marks
  <2> QED BY <1>2, <2>1, <2>2 DEF EndWithCheck
<1>3. ASSUME NEW fault \in FaultKinds, EndStruck(j, fault)
      PROVE  job' \in [Slots -> Job \cup {NoJob}] /\ mishap' \in [Txs -> SUBSET Marks]
  BY <1>0, <1>3, QueueType, StruckType DEF EndStruck, Marks
<1> QED BY <1>1, <1>2, <1>3

(***************************************************************************)
(* Type correctness.                                                       *)
(***************************************************************************)
\* The initial state is well typed.
LEMMA TypeInit == Init => TypeOK
BY DEF Init, TypeOK, Call, Statuses, Marks

\* Writing the status of a row keeps its type.
LEMMA SetStatusType ==
  ASSUME TypeOK, NEW t \in Txs, NEW s \in Statuses, SetStatus(t, s)
  PROVE  tx' \in [Txs -> [status: Statuses, hash: Signed \cup {None}]]
BY DEF SetStatus, TypeOK

\* The steps of send() and submit().
LEMMA TypeRows ==
  ASSUME TypeOK, NEW t \in Txs,
         \/ CreateBySend(t) \/ CreateBySubmit(t) \/ SubmitAdd(t)
         \/ SubmitMarkFailed(t) \/ SubmitDies(t)
  PROVE  TypeOK'
<1>1. CASE CreateBySend(t)
  BY <1>1, SetStatusType DEF CreateBySend, TypeOK, Statuses
<1>2. CASE CreateBySubmit(t)
  BY <1>2, SetStatusType DEF CreateBySubmit, TypeOK, Statuses
<1>3. CASE SubmitAdd(t)
  <2>1. PICK s \in Signed :
          \/ Added(t, s) /\ submit' = [submit EXCEPT ![t] = "done"]
          \/ /\ AddThrew(t, s) \/ (Handled("database") /\ UNCHANGED job)
             /\ submit' = [submit EXCEPT ![t] = "markFailed"]
    BY <1>3 DEF SubmitAdd
  <2>2. job' \in [Slots -> Job \cup {NoJob}] /\ mishap' \in [Txs -> SUBSET Marks]
    BY <2>1, AddType DEF Handled, TypeOK
  <2>3. submit' \in [Txs -> {"none", "add", "markFailed", "done"}]
    BY <2>1 DEF TypeOK
  <2> QED BY <1>3, <2>2, <2>3 DEF SubmitAdd, TypeOK
<1>4. CASE SubmitMarkFailed(t)
  BY <1>4, SetStatusType, StruckType DEF SubmitMarkFailed, TypeOK, Statuses, Marks
<1>5. CASE SubmitDies(t)
  BY <1>5, StruckType DEF SubmitDies, TypeOK, Marks
<1> QED BY <1>1, <1>2, <1>3, <1>4, <1>5

\* The request a broadcast() is working on.
LEMMA CallFields ==
  ASSUME TypeOK, NEW c \in Calls, call[c].pc \in {"claim", "add", "release"}
  PROVE  /\ call[c].tx \in Txs /\ call[c].signed \in Signed
         /\ \A pc \in {"claim", "add", "release"} : [call[c] EXCEPT !.pc = pc] \in Call
BY DEF TypeOK, Call

\* An answered request keeps its type.
LEMMA RespondType ==
  ASSUME TypeOK, NEW c \in Calls, Respond(c)
  PROVE  call' \in [Calls -> Call]
BY DEF Respond, TypeOK, Call

\* The steps of broadcast().
LEMMA TypeCalls ==
  ASSUME TypeOK, NEW c \in Calls, BroadcastRead(c) \/ Broadcasting(c) \/ BroadcastDies(c)
  PROVE  TypeOK'
<1>1. CASE BroadcastRead(c)
  <2>1. call' \in [Calls -> Call]
    BY <1>1, RespondType DEF BroadcastRead, TypeOK, Call
  <2> QED BY <1>1, <2>1 DEF BroadcastRead, TypeOK
<1>2. CASE BroadcastClaim(c)
  <2>1. call' \in [Calls -> Call]
    BY <1>2, RespondType, CallFields DEF BroadcastClaim, TypeOK
  <2>2. tx' \in [Txs -> [status: Statuses, hash: Signed \cup {None}]]
    BY <1>2, SetStatusType, CallFields DEF BroadcastClaim, TypeOK, Statuses
  <2> QED BY <1>2, <2>1, <2>2 DEF BroadcastClaim, TypeOK
<1>3. CASE BroadcastAdd(c)
  <2>1. call' \in [Calls -> Call]
    BY <1>3, RespondType, CallFields DEF BroadcastAdd, TypeOK
  <2>2. job' \in [Slots -> Job \cup {NoJob}] /\ mishap' \in [Txs -> SUBSET Marks]
    BY <1>3, CallFields, AddType DEF BroadcastAdd
  <2> QED BY <1>3, <2>1, <2>2 DEF BroadcastAdd, TypeOK
<1>4. CASE BroadcastRelease(c)
  <2>1. call' \in [Calls -> Call]
    BY <1>4, RespondType DEF BroadcastRelease
  <2>2. /\ tx' \in [Txs -> [status: Statuses, hash: Signed \cup {None}]]
        /\ mishap' \in [Txs -> SUBSET Marks]
    BY <1>4, SetStatusType, StruckType, CallFields DEF BroadcastRelease, TypeOK, Statuses, Marks
  <2> QED BY <1>4, <2>1, <2>2 DEF BroadcastRelease, TypeOK
<1>5. CASE BroadcastDies(c)
  <2>1. call' \in [Calls -> Call]
    BY <1>5, RespondType DEF BroadcastDies
  <2>2. mishap' \in [Txs -> SUBSET Marks]
    BY <1>5, StruckType, CallFields DEF BroadcastDies, Marks
  <2> QED BY <1>5, <2>1, <2>2 DEF BroadcastDies, TypeOK
<1> QED BY <1>1, <1>2, <1>3, <1>4, <1>5 DEF Broadcasting

\* The steps of the worker on the job in slot j.
LEMMA TypeWork ==
  ASSUME TypeOK, NEW j \in Slots, Work(j) \/ Stall(j)
  PROVE  TypeOK'
<1> DEFINE Queued == job' \in [Slots -> Job \cup {NoJob}]
           Written == tx' \in [Txs -> [status: Statuses, hash: Signed \cup {None}]]
           Marked == mishap' \in [Txs -> SUBSET Marks]
<1>0. ASSUME job[j] # NoJob
      PROVE  job[j].tx \in Txs /\ job[j].signed \in Signed
  BY <1>0, JobFields
<1>1. CASE Take(j)
  <2>1. Queued
    BY <1>1, GotoType, JobFields DEF Take
  <2> QED BY <1>1, <2>1 DEF Take, TypeOK
<1>2. CASE WorkerMark(j)
  <2>1. job[j] # NoJob /\ job[j].kind = "process"
    BY <1>2, AtIsJob DEF WorkerMark, At
  <2>2. Queued /\ Marked
    BY <1>2, <2>1, GotoType, EndType DEF WorkerMark, FaultKinds, TypeOK
  <2>3. Written
    BY <1>0, <1>2, <2>1, SetStatusType DEF WorkerMark, Statuses, TypeOK
  <2> QED BY <1>2, <2>2, <2>3 DEF WorkerMark, TypeOK
<1>3. CASE WorkerSend(j)
  <2>1. job[j] # NoJob /\ job[j].kind = "process"
    BY <1>3, AtIsJob DEF WorkerSend, At
  <2>2. Queued
    BY <1>3, <2>1, GotoType DEF WorkerSend
  <2>3. sends' \in [Txs -> [Signed -> 0..2]]
    <3> DEFINE t == job[j].tx
               s == job[j].signed
               more == IF sends[t][s] < 2 THEN sends[t][s] + 1 ELSE 2
    <3>1. t \in Txs /\ s \in Signed
      BY <1>0, <2>1
    <3>2. sends' = [sends EXCEPT ![t] = [sends[t] EXCEPT ![s] = more]]
      BY <1>3 DEF WorkerSend
    <3> HIDE DEF t, s
    <3>3. sends[t] \in [Signed -> 0..2] /\ more \in 0..2
      <4>1. sends[t] \in [Signed -> 0..2]
        BY <3>1 DEF TypeOK
      <4>2. sends[t][s] \in 0..2
        BY <3>1, <4>1
      <4> QED BY <4>1, <4>2
    <3> HIDE DEF more
    <3> QED BY <3>1, <3>2, <3>3 DEF TypeOK
  <2>4. chain' \in [Signed -> {"unknown", "pending", "confirmed", "failed"}]
    BY <1>0, <1>3, <2>1 DEF WorkerSend, TypeOK
  <2> QED BY <1>3, <2>2, <2>3, <2>4 DEF WorkerSend, TypeOK, Handled
<1>4. CASE WorkerSave(j)
  <2>1. job[j] # NoJob /\ job[j].kind = "process"
    BY <1>4, AtIsJob DEF WorkerSave, At
  <2>2. Queued
    BY <1>4, <2>1, GotoType DEF WorkerSave
  <2>3. Written
    <3>1. [status |-> "PROCESSING", hash |-> job[j].signed]
            \in [status: Statuses, hash: Signed \cup {None}]
      BY <1>0, <2>1 DEF Statuses
    <3> QED BY <1>0, <1>4, <2>1, <3>1 DEF WorkerSave, TypeOK
  <2> QED BY <1>4, <2>2, <2>3 DEF WorkerSave, TypeOK, Handled
<1>5. CASE WorkerQueueCheck(j)
  <2>1. job[j] # NoJob /\ job[j].kind = "process"
    BY <1>5, AtIsJob DEF WorkerQueueCheck, At
  <2>2. CASE EndWithCheck(j)
    BY <1>5, <2>1, <2>2, EndType DEF WorkerQueueCheck, TypeOK
  <2>3. CASE Handled("queue") /\ Goto(j, "fail")
    BY <1>5, <2>1, <2>3, GotoType DEF WorkerQueueCheck, Handled, TypeOK
  <2>4. CASE /\ Struck(job[j].tx, "lostReply", "twice")
             /\ Free # {}
             /\ job' = [job EXCEPT ![j].pc = "fail",
                                   ![FreeSlot] = CheckJob(job[j].tx, job[j].signed)]
    <3>1. [job[j] EXCEPT !.pc = "fail"] \in Job
      BY <2>1, JobFields DEF Job
    <3>2. FreeSlot \in Slots /\ CheckJob(job[j].tx, job[j].signed) \in Job
      BY <1>0, <2>1, <2>4, SlotIsFree, NewJobs
    <3>3. Queued
      BY <2>4, <3>1, <3>2 DEF TypeOK
    <3>4. Marked
      BY <1>0, <2>1, <2>4, StruckType DEF Marks
    <3> QED BY <1>5, <3>3, <3>4 DEF WorkerQueueCheck, TypeOK
  <2> QED BY <1>5, <2>2, <2>3, <2>4 DEF WorkerQueueCheck
<1>6. CASE WorkerFail(j)
  <2>1. job[j] # NoJob
    BY <1>6, AtIsJob DEF WorkerFail
  <2>2. Queued /\ Marked
    BY <1>6, <2>1, EndType DEF WorkerFail, FaultKinds
  <2>3. Written
    BY <1>0, <1>6, <2>1, SetStatusType DEF WorkerFail, Statuses, TypeOK
  <2> QED BY <1>6, <2>2, <2>3 DEF WorkerFail, TypeOK
<1>7. CASE WorkerPoll(j)
  <2>1. job[j] # NoJob /\ job[j].kind = "check"
    BY <1>7, AtIsJob DEF WorkerPoll, At
  <2>2. Queued /\ Marked
    BY <1>7, <2>1, GotoType, EndType DEF WorkerPoll, FaultKinds, TypeOK
  <2> QED BY <1>7, <2>2 DEF WorkerPoll, TypeOK
<1>8. CASE WorkerSettle(j)
  <2>1. job[j] # NoJob /\ job[j].kind = "check"
    BY <1>8, AtIsJob DEF WorkerSettle, At
  <2>2. Queued /\ Marked
    BY <1>8, <2>1, GotoType, EndType DEF WorkerSettle, FaultKinds, TypeOK
  <2>3. Written
    BY <1>0, <1>8, <2>1, SetStatusType DEF WorkerSettle, Verdict, Statuses, TypeOK
  <2> QED BY <1>8, <2>2, <2>3 DEF WorkerSettle, TypeOK
<1>9. CASE WorkerReceipt(j)
  <2>1. job[j] # NoJob
    BY <1>9, AtIsJob DEF WorkerReceipt
  <2>2. Queued /\ Marked
    BY <1>9, <2>1, EndType DEF WorkerReceipt, FaultKinds
  <2>3. receipt' \subseteq Txs
    BY <1>0, <1>9, <2>1 DEF WorkerReceipt, TypeOK
  <2> QED BY <1>9, <2>2, <2>3 DEF WorkerReceipt, TypeOK
<1>10. CASE Stall(j)
  <2>1. job[j] # NoJob
    BY <1>10 DEF Stall
  <2>2. Queued
    BY <1>10, <2>1, RequeuedType, QueueType DEF Stall
  <2>3. Marked
    BY <1>0, <1>10, <2>1, StruckType DEF Stall, Marks
  <2> QED BY <1>10, <2>2, <2>3 DEF Stall, TypeOK
<1> QED BY <1>1, <1>2, <1>3, <1>4, <1>5, <1>6, <1>7, <1>8, <1>9, <1>10 DEF Work

\* Every step keeps the types.
LEMMA TypeStep == TypeOK /\ [Next]_vars => TypeOK'
<1> SUFFICES ASSUME TypeOK, [Next]_vars PROVE TypeOK'
  OBVIOUS
<1>1. CASE UNCHANGED vars
  BY <1>1 DEF vars, TypeOK
<1>2. ASSUME NEW s \in Signed, ChainDecides(s) PROVE TypeOK'
  BY <1>2 DEF ChainDecides, TypeOK
<1> QED BY <1>1, <1>2, TypeRows, TypeCalls, TypeWork DEF Next

\* Rows, jobs, requests and the chain always have their types: a row's status is
\* one of the five the schema knows, whatever fault has struck.
THEOREM TypeCorrect == Spec => []TypeOK
BY TypeInit, TypeStep, PTL DEF Spec

(***************************************************************************)
(* A completed row was confirmed.                                          *)
(***************************************************************************)
\* What has been sent stays sent.
LEMMA SendsGrow ==
  ASSUME TypeOK, [Next]_vars, NEW t \in Txs, NEW s \in Signed, sends[t][s] > 0
  PROVE  sends'[t][s] > 0
<1>1. CASE sends' = sends
  BY <1>1
<1>2. ASSUME NEW j \in Slots, WorkerSend(j) PROVE sends'[t][s] > 0
  <2>1. job[j].tx \in Txs /\ job[j].signed \in Signed
    BY <1>2, AtIsJob, JobFields DEF WorkerSend
  <2>2. sends' = [sends EXCEPT ![job[j].tx][job[j].signed] = IF @ < 2 THEN @ + 1 ELSE 2]
    BY <1>2 DEF WorkerSend
  <2>3. sends[t] \in [Signed -> 0..2] /\ sends[t][s] \in 0..2
    BY DEF TypeOK
  <2> QED BY <2>1, <2>2, <2>3 DEF TypeOK
<1>3. sends' = sends \/ \E j \in Slots : WorkerSend(j)
  BY DEF Next, vars, CreateBySend, CreateBySubmit, SubmitAdd, SubmitMarkFailed, SubmitDies,
         BroadcastRead, Broadcasting, BroadcastClaim, BroadcastAdd, BroadcastRelease,
         BroadcastDies, Work, Take, WorkerMark, WorkerSave, WorkerQueueCheck, WorkerFail,
         WorkerPoll, WorkerSettle, WorkerReceipt, Stall, ChainDecides
<1> QED BY <1>1, <1>2, <1>3

\* What the chain has decided stays decided.
LEMMA ChainStable ==
  ASSUME TypeOK, [Next]_vars, NEW s \in Signed, chain[s] \in {"confirmed", "failed"}
  PROVE  chain'[s] = chain[s]
<1>1. CASE chain' = chain
  BY <1>1
<1>2. ASSUME NEW j \in Slots, WorkerSend(j) PROVE chain'[s] = chain[s]
  <2>1. job[j].signed \in Signed
    BY <1>2, AtIsJob, JobFields DEF WorkerSend
  <2> QED BY <1>2, <2>1 DEF WorkerSend, TypeOK
<1>3. ASSUME NEW r \in Signed, ChainDecides(r) PROVE chain'[s] = chain[s]
  BY <1>3 DEF ChainDecides, TypeOK
<1>4. \/ chain' = chain
      \/ \E j \in Slots : WorkerSend(j)
      \/ \E r \in Signed : ChainDecides(r)
  BY DEF Next, vars, CreateBySend, CreateBySubmit, SubmitAdd, SubmitMarkFailed, SubmitDies,
         BroadcastRead, Broadcasting, BroadcastClaim, BroadcastAdd, BroadcastRelease,
         BroadcastDies, Work, Take, WorkerMark, WorkerSave, WorkerQueueCheck, WorkerFail,
         WorkerPoll, WorkerSettle, WorkerReceipt, Stall
<1> QED BY <1>1, <1>2, <1>3, <1>4

\* A job that no step touches still knows what it knew.
LEMMA JobKept ==
  ASSUME TypeOK, TypeOK', [Next]_vars, NEW k \in Slots, JobInv(k), job'[k] = job[k]
  PROVE  JobInv(k)'
<1> SUFFICES ASSUME job[k] # NoJob PROVE JobInv(k)'
  BY DEF JobInv, NoJob
<1>1. job[k].tx \in Txs /\ job[k].signed \in Signed
  BY JobFields
<1> QED BY <1>1, SendsGrow, ChainStable DEF JobInv

\* An emptied slot, a new process-transaction job, and a check-transaction job
\* for something that has been sent know nothing that could be wrong.
LEMMA JobFresh ==
  ASSUME NEW k \in Slots, NEW t, NEW s,
         \/ job'[k] = NoJob
         \/ job'[k] = ProcessJob(t, s)
         \/ job'[k] = CheckJob(t, s) /\ sends'[t][s] > 0
  PROVE  JobInv(k)'
BY DEF JobInv, NoJob, ProcessJob, CheckJob

\* A job that is queued again still has sent what it had sent.
LEMMA JobRequeued ==
  ASSUME TypeOK, TypeOK', [Next]_vars, NEW k \in Slots, job[k] # NoJob, JobInv(k),
         job'[k] = Requeued(k)
  PROVE  JobInv(k)'
<1>1. job[k].tx \in Txs /\ job[k].signed \in Signed /\ job[k] \in Job
  BY JobFields
<1>2. /\ job'[k].tx = job[k].tx /\ job'[k].signed = job[k].signed
      /\ job'[k].kind = job[k].kind /\ job'[k].pc = "waiting"
  BY <1>1 DEF Requeued, Job
<1> QED BY <1>1, <1>2, SendsGrow DEF JobInv

\* The queue after a new job was put into it.
LEMMA JobsAdded ==
  ASSUME TypeOK, TypeOK', [Next]_vars, \A k \in Slots : JobInv(k),
         NEW t, NEW s, job' = job \/ Enqueue(ProcessJob(t, s))
  PROVE  \A k \in Slots : JobInv(k)'
<1> TAKE k \in Slots
<1>1. job'[k] = job[k] \/ job'[k] = ProcessJob(t, s)
  BY SlotIsFree DEF Enqueue, TypeOK
<1> QED BY <1>1, JobKept, JobFresh

\* The queue after the job in slot j has ended, whichever way.
LEMMA JobsEnded ==
  ASSUME TypeOK, TypeOK', [Next]_vars, \A k \in Slots : JobInv(k),
         NEW j \in Slots, job[j] # NoJob,
         \/ End(j)
         \/ EndWithCheck(j) /\ sends[job[j].tx][job[j].signed] > 0
         \/ \E fault \in FaultKinds : EndStruck(j, fault)
  PROVE  \A k \in Slots : JobInv(k)'
<1> TAKE k \in Slots
<1>1. job[j].tx \in Txs /\ job[j].signed \in Signed
  BY JobFields
<1>2. \/ job'[k] = job[k]
      \/ job'[k] = NoJob
      \/ job[k] # NoJob /\ job'[k] = Requeued(k)
      \/ job'[k] = CheckJob(job[j].tx, job[j].signed) /\ sends[job[j].tx][job[j].signed] > 0
  <2>1. CASE End(j)
    BY <2>1 DEF End, TypeOK
  <2>2. CASE EndWithCheck(j) /\ sends[job[j].tx][job[j].signed] > 0
    <3>1. CASE job' = [job EXCEPT ![j] = CheckJob(job[j].tx, job[j].signed)]
      BY <2>2, <3>1 DEF TypeOK
    <3>2. CASE /\ Free # {}
               /\ job' = [job EXCEPT ![j] = Requeued(j),
                                     ![FreeSlot] = CheckJob(job[j].tx, job[j].signed)]
      BY <2>2, <3>2, SlotIsFree DEF TypeOK
    <3> QED BY <2>2, <3>1, <3>2 DEF EndWithCheck
  <2>3. ASSUME NEW fault \in FaultKinds, EndStruck(j, fault)
        PROVE  job'[k] = job[k] \/ job'[k] = NoJob
    BY <2>3 DEF EndStruck, TypeOK
  <2> QED BY <2>1, <2>2, <2>3
<1> QED BY <1>1, <1>2, JobKept, JobFresh, JobRequeued, SendsGrow

\* The queue after the job in slot j has moved on to pc, with what it must know.
LEMMA JobsMoved ==
  ASSUME TypeOK, TypeOK', [Next]_vars, \A k \in Slots : JobInv(k),
         NEW j \in Slots, job[j] # NoJob, NEW pc, Goto(j, pc),
         job[j].kind = "check" \/ pc \in {"save", "check"}
           => sends'[job[j].tx][job[j].signed] > 0,
         pc = "settle" => chain'[job[j].signed] \in {"confirmed", "failed"},
         pc = "receipt" => chain'[job[j].signed] = "confirmed"
  PROVE  \A k \in Slots : JobInv(k)'
<1> TAKE k \in Slots
<1>1. CASE k = j
  <2>1. job[j] \in Job
    BY JobFields
  <2>2. /\ job'[j].tx = job[j].tx /\ job'[j].signed = job[j].signed
        /\ job'[j].kind = job[j].kind /\ job'[j].pc = pc
    BY <2>1 DEF Goto, Job, TypeOK
  <2> QED BY <1>1, <2>2 DEF JobInv
<1>2. CASE k # j
  BY <1>2, JobKept DEF Goto, TypeOK
<1> QED BY <1>1, <1>2

\* Completion is not lost to a step that completes no row and writes no receipt.
LEMMA CompletedKept ==
  ASSUME TypeOK, TypeOK', [Next]_vars, CompletedIsConfirmed, receipt' = receipt,
         \A t \in Txs : tx'[t].status = "COMPLETED" => tx[t].status = "COMPLETED"
  PROVE  CompletedIsConfirmed'
<1> SUFFICES ASSUME NEW t \in Txs, tx'[t].status = "COMPLETED" \/ t \in receipt'
             PROVE  \E s \in Signed : sends'[t][s] > 0 /\ chain'[s] = "confirmed"
  BY DEF CompletedIsConfirmed
<1>1. PICK s \in Signed : sends[t][s] > 0 /\ chain[s] = "confirmed"
  BY DEF CompletedIsConfirmed
<1> QED BY <1>1, SendsGrow, ChainStable

\* No step completes a row, or lets a job settle one, without a confirmation.
LEMMA SoundStep == Sound /\ [Next]_vars => Sound'
<1> SUFFICES ASSUME Sound, [Next]_vars PROVE Sound'
  OBVIOUS
<1>0. TypeOK /\ TypeOK' /\ CompletedIsConfirmed /\ \A j \in Slots : JobInv(j)
  BY TypeStep DEF Sound
<1> SUFFICES CompletedIsConfirmed' /\ \A j \in Slots : JobInv(j)'
  BY <1>0 DEF Sound
<1>1. CASE UNCHANGED vars
  BY <1>0, <1>1, JobKept, CompletedKept DEF vars
<1>2. ASSUME NEW t \in Txs,
             \/ CreateBySend(t) \/ CreateBySubmit(t) \/ SubmitAdd(t)
             \/ SubmitMarkFailed(t) \/ SubmitDies(t)
      PROVE  CompletedIsConfirmed' /\ \A j \in Slots : JobInv(j)'
  <2>1. job' = job \/ \E s \in Signed : Enqueue(ProcessJob(t, s))
    BY <1>2 DEF CreateBySend, CreateBySubmit, SubmitAdd, SubmitMarkFailed, SubmitDies,
                Added, AddThrew
  <2>2. /\ receipt' = receipt
        /\ \A u \in Txs : tx'[u].status = "COMPLETED" => tx[u].status = "COMPLETED"
    <3>1. /\ receipt' = receipt
          /\ tx' = tx \/ SetStatus(t, "PENDING") \/ SetStatus(t, "FAILED")
      BY <1>2 DEF CreateBySend, CreateBySubmit, SubmitAdd, SubmitMarkFailed, SubmitDies
    <3>2. ASSUME NEW st \in {"PENDING", "FAILED"}, SetStatus(t, st), NEW u \in Txs,
                 tx'[u].status = "COMPLETED"
          PROVE  tx[u].status = "COMPLETED"
      BY <1>0, <3>2 DEF SetStatus, TypeOK
    <3> QED BY <3>1, <3>2
  <2> QED BY <1>0, <2>1, <2>2, JobsAdded, CompletedKept
<1>3. ASSUME NEW c \in Calls, BroadcastRead(c) \/ Broadcasting(c) \/ BroadcastDies(c)
      PROVE  CompletedIsConfirmed' /\ \A j \in Slots : JobInv(j)'
  <2>1. job' = job \/ Enqueue(ProcessJob(call[c].tx, call[c].signed))
    BY <1>3 DEF BroadcastRead, Broadcasting, BroadcastClaim, BroadcastAdd, BroadcastRelease,
                BroadcastDies, Added, AddThrew
  <2>2. /\ receipt' = receipt
        /\ \A u \in Txs : tx'[u].status = "COMPLETED" => tx[u].status = "COMPLETED"
    BY <1>0, <1>3 DEF BroadcastRead, Broadcasting, BroadcastClaim, BroadcastAdd,
                      BroadcastRelease, BroadcastDies, SetStatus, TypeOK
  <2> QED BY <1>0, <2>1, <2>2, JobsAdded, CompletedKept
<1>4. ASSUME NEW j \in Slots, Work(j) \/ Stall(j)
      PROVE  CompletedIsConfirmed' /\ \A k \in Slots : JobInv(k)'
  <2> DEFINE t == job[j].tx
             s == job[j].signed
  <2>0. job[j] # NoJob
    BY <1>4, AtIsJob DEF Work, Take, WorkerMark, WorkerSend, WorkerSave, WorkerQueueCheck,
                         WorkerFail, WorkerPoll, WorkerSettle, WorkerReceipt, Stall
  <2>a. t \in Txs /\ s \in Signed
    BY <1>0, <2>0, JobFields
  <2>b. JobInv(j)
    BY <1>0
  <2>c. ~WorkerSettle(j) /\ ~WorkerReceipt(j) =>
          /\ receipt' = receipt
          /\ \A u \in Txs : tx'[u].status = "COMPLETED" => tx[u].status = "COMPLETED"
    BY <1>0, <1>4, <2>a DEF Work, Take, WorkerMark, WorkerSend, WorkerSave, WorkerQueueCheck,
             WorkerFail, WorkerPoll, Stall, SetStatus, TypeOK
  <2>1. CASE Take(j)
    <3>1. PICK pc \in {"mark", "poll"} :
            /\ Goto(j, pc)
            /\ job[j].kind = "check" => sends'[t][s] > 0
      BY <2>0, <2>1, <2>b DEF Take, JobInv
    <3>2. \A k \in Slots : JobInv(k)'
      BY <1>0, <2>0, <3>1, JobsMoved
    <3> QED BY <1>0, <2>1, <2>c, <3>2, CompletedKept DEF Take, WorkerSettle, WorkerReceipt, At
  <2>2. CASE WorkerMark(j)
    <3>1. \A k \in Slots : JobInv(k)'
      BY <1>0, <2>0, <2>2, JobsMoved, JobsEnded DEF WorkerMark, At, FaultKinds
    <3> QED BY <1>0, <2>2, <2>c, <3>1, CompletedKept DEF WorkerMark, WorkerSettle, WorkerReceipt, At
  <2>3. CASE WorkerSend(j)
    <3>1. sends'[t][s] > 0
      <4>1. sends' = [sends EXCEPT ![t][s] = IF @ < 2 THEN @ + 1 ELSE 2]
        BY <2>3 DEF WorkerSend
      <4>2. sends[t] \in [Signed -> 0..2] /\ sends[t][s] \in 0..2
        BY <1>0, <2>a DEF TypeOK
      <4> QED BY <1>0, <2>a, <4>1, <4>2 DEF TypeOK
    <3>2. \E pc \in {"save", "fail"} : Goto(j, pc)
      BY <2>3 DEF WorkerSend
    <3>3. \A k \in Slots : JobInv(k)'
      BY <1>0, <2>0, <3>1, <3>2, JobsMoved
    <3> QED BY <1>0, <2>3, <2>c, <3>3, CompletedKept DEF WorkerSend, WorkerSettle, WorkerReceipt, At
  <2>4. CASE WorkerSave(j)
    <3>1. sends'[t][s] > 0
      BY <2>0, <2>4, <2>b DEF WorkerSave, At, JobInv
    <3>2. \E pc \in {"check", "fail"} : Goto(j, pc)
      BY <2>4 DEF WorkerSave
    <3>3. \A k \in Slots : JobInv(k)'
      BY <1>0, <2>0, <3>1, <3>2, JobsMoved
    <3> QED BY <1>0, <2>4, <2>c, <3>3, CompletedKept DEF WorkerSave, WorkerSettle, WorkerReceipt, At
  <2>5. CASE WorkerQueueCheck(j)
    <3>1. sends[t][s] > 0 /\ sends' = sends /\ job[j].kind = "process"
      BY <2>0, <2>5, <2>b DEF WorkerQueueCheck, At, JobInv
    <3>2. CASE EndWithCheck(j)
      BY <1>0, <2>0, <2>5, <2>c, <3>1, <3>2, JobsEnded, CompletedKept
         DEF WorkerQueueCheck, WorkerSettle, WorkerReceipt, At
    <3>3. CASE Goto(j, "fail")
      BY <1>0, <2>0, <2>5, <2>c, <3>1, <3>3, JobsMoved, CompletedKept
         DEF WorkerQueueCheck, WorkerSettle, WorkerReceipt, At
    <3>4. CASE /\ Free # {}
               /\ job' = [job EXCEPT ![j].pc = "fail", ![FreeSlot] = CheckJob(t, s)]
      <4>1. ASSUME NEW k \in Slots PROVE JobInv(k)'
        <5>1. CASE k = FreeSlot
          BY <1>0, <3>1, <3>4, <5>1, JobFresh, SlotIsFree DEF TypeOK
        <5>2. CASE k = j
          <6>1. job'[j] = [job[j] EXCEPT !.pc = "fail"]
            BY <1>0, <2>0, <3>4, SlotIsFree DEF TypeOK
          <6> QED BY <1>0, <2>0, <3>1, <5>2, <6>1, JobFields DEF JobInv, Job
        <5>3. CASE k # FreeSlot /\ k # j
          BY <1>0, <3>4, <5>3, JobKept, SlotIsFree DEF TypeOK
        <5> QED BY <5>1, <5>2, <5>3
      <4> QED BY <1>0, <2>5, <2>c, <4>1, CompletedKept
                DEF WorkerQueueCheck, WorkerSettle, WorkerReceipt, At
    <3> QED BY <2>5, <3>2, <3>3, <3>4 DEF WorkerQueueCheck
  <2>6. CASE WorkerFail(j)
    <3>1. \A k \in Slots : JobInv(k)'
      BY <1>0, <2>0, <2>6, JobsEnded DEF WorkerFail, FaultKinds
    <3> QED BY <1>0, <2>6, <2>c, <3>1, CompletedKept DEF WorkerFail, WorkerSettle, WorkerReceipt, At
  <2>7. CASE WorkerPoll(j)
    <3>1. sends[t][s] > 0 /\ sends' = sends /\ chain' = chain
      BY <2>0, <2>7, <2>b DEF WorkerPoll, At, JobInv
    <3>2. CASE chain[s] \in {"confirmed", "failed"} /\ Goto(j, "settle")
      BY <1>0, <2>0, <2>7, <2>c, <3>1, <3>2, JobsMoved, CompletedKept
         DEF WorkerPoll, WorkerSettle, WorkerReceipt, At
    <3>3. CASE EndWithCheck(j) \/ \E fault \in FaultKinds : EndStruck(j, fault)
      BY <1>0, <2>0, <2>7, <2>c, <3>1, <3>3, JobsEnded, CompletedKept
         DEF WorkerPoll, WorkerSettle, WorkerReceipt, At
    <3> QED BY <2>7, <3>2, <3>3 DEF WorkerPoll, FaultKinds
  <2>8. CASE WorkerSettle(j)
    <3>1. sends[t][s] > 0 /\ sends' = sends /\ chain' = chain /\ receipt' = receipt
      BY <2>0, <2>8, <2>b DEF WorkerSettle, At, JobInv
    <3>2. Verdict(s) = "COMPLETED" => chain[s] = "confirmed"
      BY <2>0, <2>8, <2>b DEF WorkerSettle, At, JobInv, Verdict
    <3>3. \A k \in Slots : JobInv(k)'
      BY <1>0, <2>0, <2>8, <3>1, <3>2, JobsMoved, JobsEnded DEF WorkerSettle, FaultKinds
    <3>4. CompletedIsConfirmed'
      BY <1>0, <2>8, <2>a, <3>1, <3>2
         DEF WorkerSettle, SetStatus, CompletedIsConfirmed, TypeOK
    <3> QED BY <3>3, <3>4
  <2>9. CASE WorkerReceipt(j)
    <3>1. /\ sends[t][s] > 0 /\ sends' = sends /\ tx' = tx
          /\ chain[s] = "confirmed" /\ chain' = chain
      BY <2>0, <2>9, <2>b DEF WorkerReceipt, At, JobInv
    <3>2. \A k \in Slots : JobInv(k)'
      BY <1>0, <2>0, <2>9, JobsEnded DEF WorkerReceipt, FaultKinds
    <3>3. CompletedIsConfirmed'
      BY <1>0, <2>9, <2>a, <3>1 DEF WorkerReceipt, CompletedIsConfirmed
    <3> QED BY <3>2, <3>3
  <2>10. CASE Stall(j)
    <3>1. ASSUME NEW k \in Slots PROVE JobInv(k)'
      <4>1. job'[k] = job[k] \/ job'[k] = NoJob \/ (k = j /\ job'[k] = Requeued(k))
        BY <1>0, <2>10 DEF Stall, TypeOK
      <4> QED BY <1>0, <2>0, <4>1, JobKept, JobFresh, JobRequeued
    <3>2. receipt' = receipt /\ tx' = tx
      BY <2>10 DEF Stall
    <3> QED BY <1>0, <3>1, <3>2, CompletedKept
  <2> QED BY <1>4, <2>1, <2>2, <2>3, <2>4, <2>5, <2>6, <2>7, <2>8, <2>9, <2>10 DEF Work
<1>5. ASSUME NEW s \in Signed, ChainDecides(s)
      PROVE  CompletedIsConfirmed' /\ \A j \in Slots : JobInv(j)'
  BY <1>0, <1>5, JobKept, CompletedKept DEF ChainDecides
<1> QED BY <1>1, <1>2, <1>3, <1>4, <1>5 DEF Next

\* There is nothing to be sound about at first.
LEMMA SoundInit == Init => Sound
<1> SUFFICES ASSUME Init PROVE Sound
  OBVIOUS
<1>1. TypeOK
  BY TypeInit
<1>2. CompletedIsConfirmed
  BY DEF Init, CompletedIsConfirmed
<1>3. \A j \in Slots : JobInv(j)
  BY DEF Init, JobInv
<1> QED BY <1>1, <1>2, <1>3 DEF Sound

\* Whatever is duplicated, lost or repeated, a row is COMPLETED, and has its
\* receipt, only when the chain confirmed a transaction sent for that row.
THEOREM Completion == Spec => []CompletedIsConfirmed
<1>1. Sound => CompletedIsConfirmed
  BY DEF Sound
<1> QED BY SoundInit, SoundStep, <1>1, PTL DEF Spec

(***************************************************************************)
(* The claim of a row has one holder.                                      *)
(***************************************************************************)
\* A step leaves at most one mark.
LEMMA OneMark ==
  ASSUME TypeOK, [Next]_vars
  PROVE  mishap' = mishap \/ \E u \in Txs, f \in FaultKinds, m \in Marks : Struck(u, f, m)
<1>1. ASSUME NEW u \in Txs,
             \/ CreateBySend(u) \/ CreateBySubmit(u) \/ SubmitAdd(u)
             \/ SubmitMarkFailed(u) \/ SubmitDies(u)
      PROVE  mishap' = mishap \/ \E f \in FaultKinds, m \in Marks : Struck(u, f, m)
  BY <1>1 DEF CreateBySend, CreateBySubmit, SubmitAdd, SubmitMarkFailed, SubmitDies, Added,
              AddThrew, Handled, FaultKinds, Marks
<1>2. ASSUME NEW c \in Calls, BroadcastRead(c) \/ Broadcasting(c) \/ BroadcastDies(c)
      PROVE  mishap' = mishap \/ \E u \in Txs, f \in FaultKinds, m \in Marks : Struck(u, f, m)
  BY <1>2, CallFields DEF BroadcastRead, Broadcasting, BroadcastClaim, BroadcastAdd,
     BroadcastRelease, BroadcastDies, Added, AddThrew, Handled, FaultKinds, Marks
<1>3. ASSUME NEW j \in Slots, Work(j) \/ Stall(j)
      PROVE  mishap' = mishap \/ \E u \in Txs, f \in FaultKinds, m \in Marks : Struck(u, f, m)
  <2>1. job[j].tx \in Txs
    BY <1>3, AtIsJob, JobFields DEF Work, Take, WorkerMark, WorkerSend, WorkerSave,
       WorkerQueueCheck, WorkerFail, WorkerPoll, WorkerSettle, WorkerReceipt, Stall
  <2>2. mishap' = mishap \/ \E f \in FaultKinds, m \in Marks : Struck(job[j].tx, f, m)
    BY <1>3 DEF Work, Take, WorkerMark, WorkerSend, WorkerSave, WorkerQueueCheck, WorkerFail,
       WorkerPoll, WorkerSettle, WorkerReceipt, Stall, End, EndStruck, EndWithCheck, Handled,
       FaultKinds, Marks
  <2> QED BY <2>1, <2>2
<1> QED BY <1>1, <1>2, <1>3 DEF Next, vars, ChainDecides

\* A row that is still free of stalls and lost replies was so before.
LEMMA ClaimedBefore ==
  ASSUME TypeOK, [Next]_vars, NEW t \in Txs, Claimed(t)'
  PROVE  Claimed(t)
<1>1. origin' = origin
  BY DEF Next, vars, CreateBySend, CreateBySubmit, SubmitAdd, SubmitMarkFailed, SubmitDies,
         BroadcastRead, Broadcasting, BroadcastClaim, BroadcastAdd, BroadcastRelease,
         BroadcastDies, Work, Take, WorkerMark, WorkerSend, WorkerSave, WorkerQueueCheck,
         WorkerFail, WorkerPoll, WorkerSettle, WorkerReceipt, Stall, ChainDecides
<1> QED BY <1>1, OneMark DEF Claimed, Struck, TypeOK

\* A mark of a repeated job ends the guarantee for the row.
LEMMA TwiceEnds ==
  ASSUME TypeOK, NEW t \in Txs, NEW fault, Struck(t, fault, "twice")
  PROVE  ~Claimed(t)'
BY DEF Struck, Claimed, TypeOK

\* The completed part of a row's view, which the chain cannot take back.
LEMMA ConfirmedStays ==
  ASSUME TypeOK, [Next]_vars, NEW s \in Signed, chain[s] = "confirmed"
  PROVE  chain'[s] = "confirmed"
BY ChainStable

\* A row that a step leaves alone keeps its view; it may lose holders.
LEMMA ClaimKept ==
  ASSUME TypeOK, [Next]_vars, NEW t \in Txs, ClaimInv(t),
         tx'[t] = tx[t], sends'[t] = sends[t], submit'[t] = submit[t],
         \A k \in Slots : JobOf(k, t)' => job'[k] = job[k],
         \A c \in Calls : CallOf(c, t)' => call'[c] = call[c]
  PROVE  ClaimInv(t)'
<1> SUFFICES ASSUME Claimed(t)' PROVE ClaimInv(t)'
  BY DEF ClaimInv
<1>0. /\ OneHolder(t) /\ RowView(t)
      /\ \A c \in Calls : CallOf(c, t) => CallView(c)
      /\ \A j \in Slots : JobOf(j, t) => JobView(j)
  BY ClaimedBefore DEF ClaimInv
<1>1. /\ \A k \in Slots : JobOf(k, t)' => JobOf(k, t)
      /\ \A c \in Calls : CallOf(c, t)' => CallOf(c, t)
  BY DEF JobOf, CallOf, NoJob
<1>2. OneHolder(t)'
  BY <1>0, <1>1 DEF OneHolder
<1>3. RowView(t)'
  BY <1>0, <1>1, ConfirmedStays DEF RowView, Unsent, SentOnly
<1>4. \A c \in Calls : CallOf(c, t)' => CallView(c)'
  BY <1>0, <1>1 DEF CallView, CallOf, Unsent
<1>5. ASSUME NEW k \in Slots, JobOf(k, t)' PROVE JobView(k)'
  <2>1. JobOf(k, t) /\ JobView(k) /\ job'[k] = job[k] /\ job[k].tx = t
    BY <1>0, <1>1, <1>5 DEF JobOf
  <2> QED BY <2>1 DEF JobView, Unsent, SentOnly
<1> QED BY <1>2, <1>3, <1>4, <1>5 DEF ClaimInv

\* A row whose claim is held, after a step, by the job in slot j and nobody else.
LEMMA ClaimByJob ==
  ASSUME NEW t \in Txs, NEW j \in Slots,
         \A k \in Slots : JobOf(k, t)' => k = j,
         \A c \in Calls : ~CallOf(c, t)',
         RowView(t)', JobOf(j, t)' => JobView(j)'
  PROVE  ClaimInv(t)'
BY DEF ClaimInv, OneHolder

\* A row whose claim is held, after a step, by the request c and nobody else.
LEMMA ClaimByCall ==
  ASSUME NEW t \in Txs, NEW c \in Calls,
         \A d \in Calls : CallOf(d, t)' => d = c,
         \A k \in Slots : ~JobOf(k, t)',
         RowView(t)', CallOf(c, t)' => CallView(c)'
  PROVE  ClaimInv(t)'
BY DEF ClaimInv, OneHolder

\* Writing the status of one row is no concern of the others.
LEMMA OtherRows ==
  ASSUME TypeOK, NEW t \in Txs, NEW u \in Txs, t # u, NEW st,
         tx' = tx \/ SetStatus(u, st)
  PROVE  tx'[t] = tx[t]
BY DEF SetStatus, TypeOK

\* A new job of one row is no concern of the others.
LEMMA OtherJobs ==
  ASSUME TypeOK, NEW t \in Txs, NEW u \in Txs, t # u, NEW s \in Signed,
         job' = job \/ Enqueue(ProcessJob(u, s)), NEW k \in Slots, JobOf(k, t)'
  PROVE  job'[k] = job[k]
BY SlotIsFree DEF Enqueue, ProcessJob, JobOf, TypeOK

\* send() and submit().
LEMMA ClaimRows ==
  ASSUME Sound, [Next]_vars, NEW t \in Txs, ClaimInv(t), NEW u \in Txs,
         \/ CreateBySend(u) \/ CreateBySubmit(u) \/ SubmitAdd(u)
         \/ SubmitMarkFailed(u) \/ SubmitDies(u)
  PROVE  ClaimInv(t)'
<1>0. TypeOK
  BY DEF Sound
<1>1. /\ sends' = sends /\ call' = call /\ chain' = chain
      /\ \E st \in {"PENDING", "FAILED"} : tx' = tx \/ SetStatus(u, st)
      /\ job' = job \/ \E s \in Signed : Enqueue(ProcessJob(u, s))
      /\ \A v \in Txs : v # u => submit'[v] = submit[v]
  BY <1>0 DEF CreateBySend, CreateBySubmit, SubmitAdd, SubmitMarkFailed, SubmitDies, Added,
              AddThrew, TypeOK
<1>2. CASE t # u
  BY <1>0, <1>1, <1>2, OtherRows, OtherJobs, ClaimKept
<1>3. CASE t = u /\ CreateBySend(u)
  <2> SUFFICES ASSUME Claimed(t)' PROVE ClaimInv(t)'
    BY DEF ClaimInv
  <2>1. RowView(t) /\ tx[t].status = "NONE"
    BY <1>0, <1>3, ClaimedBefore DEF ClaimInv, CreateBySend
  <2>2. tx'[t].status = "PENDING" /\ tx'[t].hash = tx[t].hash
    BY <1>0, <1>3 DEF CreateBySend, SetStatus, TypeOK
  <2>3. /\ \A c \in Calls : ~CallOf(c, t)'
        /\ \A j \in Slots : ~JobOf(j, t)'
    BY <1>3, <2>1 DEF CreateBySend, RowView, CallOf, JobOf, NoJob
  <2>4. RowView(t)'
    BY <1>3, <2>1, <2>2, <2>3 DEF CreateBySend, RowView, Unsent, SentOnly
  <2> QED BY <2>3, <2>4 DEF ClaimInv, OneHolder
<1>4. CASE t = u /\ ~CreateBySend(u)
  <2>1. ~Claimed(t)
    BY <1>4 DEF ClaimInv, RowView, Claimed, CreateBySubmit, SubmitAdd, SubmitMarkFailed, SubmitDies
  <2> QED BY <1>0, <2>1, ClaimedBefore DEF ClaimInv
<1> QED BY <1>2, <1>3, <1>4

\* broadcast().
LEMMA ClaimCalls ==
  ASSUME Sound, [Next]_vars, NEW t \in Txs, ClaimInv(t), NEW c \in Calls,
         BroadcastRead(c) \/ Broadcasting(c) \/ BroadcastDies(c)
  PROVE  ClaimInv(t)'
<1>0. TypeOK
  BY DEF Sound
<1> DEFINE u == call[c].tx
<1>1. /\ sends' = sends /\ submit' = submit
      /\ \A d \in Calls : d # c => call'[d] = call[d]
  BY <1>0 DEF BroadcastRead, Broadcasting, BroadcastClaim, BroadcastAdd, BroadcastRelease,
              BroadcastDies, Respond, TypeOK
<1>2. ASSUME tx' = tx, job' = job, ~CallOf(c, t)' PROVE ClaimInv(t)'
  BY <1>0, <1>1, <1>2, ClaimKept
<1>3. ASSUME Respond(c) PROVE ~CallOf(c, t)'
  BY <1>0, <1>3 DEF Respond, CallOf, TypeOK
<1>4. CASE BroadcastRead(c)
  BY <1>0, <1>2, <1>3, <1>4 DEF BroadcastRead, CallOf, TypeOK
<1>5. CASE BroadcastDies(c)
  BY <1>2, <1>3, <1>5 DEF BroadcastDies
<1>6. CASE call[c].pc \in {"claim", "add", "release"} /\ t # u
  <2>1. u \in Txs /\ call[c].signed \in Signed
    BY <1>0, <1>6, CallFields
  <2>2. CASE Broadcasting(c)
    <3>1. \E st \in {"PENDING", "PROCESSING"} : tx' = tx \/ SetStatus(u, st)
      BY <2>2 DEF Broadcasting, BroadcastClaim, BroadcastAdd, BroadcastRelease
    <3>2. job' = job \/ Enqueue(ProcessJob(u, call[c].signed))
      BY <2>2 DEF Broadcasting, BroadcastClaim, BroadcastAdd, BroadcastRelease, Added, AddThrew
    <3>3. ~CallOf(c, t)'
      <4>1. Respond(c) \/ \E pc \in {"add", "release"} : call' = [call EXCEPT ![c].pc = pc]
        BY <2>2 DEF Broadcasting, BroadcastClaim, BroadcastAdd, BroadcastRelease
      <4> QED BY <1>0, <1>3, <1>6, <4>1 DEF CallOf, TypeOK, Call
    <3> QED BY <1>0, <1>1, <1>6, <2>1, <3>1, <3>2, <3>3, OtherRows, OtherJobs, ClaimKept
  <2> QED BY <1>4, <1>5, <2>2
<1>7. CASE BroadcastClaim(c) /\ t = u
  <2>1. CASE tx[t].status = "PENDING" /\ call[c].role = "sender"
    <3> SUFFICES ASSUME Claimed(t)' PROVE ClaimInv(t)'
      BY DEF ClaimInv
    <3>1. RowView(t)
      BY <1>0, ClaimedBefore DEF ClaimInv
    <3>2. /\ tx'[t].status = "PROCESSING" /\ tx'[t].hash = tx[t].hash
          /\ job' = job /\ chain' = chain
          /\ call'[c] = [call[c] EXCEPT !.pc = "add"]
      <4>1. SetStatus(t, "PROCESSING") /\ call' = [call EXCEPT ![c].pc = "add"]
        BY <1>7, <2>1 DEF BroadcastClaim
      <4>2. tx'[t].status = "PROCESSING" /\ tx'[t].hash = tx[t].hash
        BY <1>0, <4>1 DEF SetStatus, TypeOK
      <4>3. call'[c] = [call[c] EXCEPT !.pc = "add"]
        BY <1>0, <4>1 DEF TypeOK
      <4> QED BY <1>7, <4>2, <4>3 DEF BroadcastClaim
    <3>3. /\ \A d \in Calls : CallOf(d, t)' => d = c
          /\ \A k \in Slots : ~JobOf(k, t)'
      BY <1>1, <2>1, <3>1, <3>2 DEF RowView, CallOf, JobOf, NoJob
    <3>4. RowView(t)'
      BY <1>1, <2>1, <3>1, <3>2 DEF RowView, Unsent, SentOnly
    <3>5. CallOf(c, t)' => CallView(c)'
      BY <1>1, <2>1, <3>1, <3>2 DEF RowView, CallView, CallOf, Unsent
    <3> QED BY <3>3, <3>4, <3>5, ClaimByCall
  <2>2. CASE ~(tx[t].status = "PENDING" /\ call[c].role = "sender")
    BY <1>2, <1>3, <1>7, <2>2 DEF BroadcastClaim
  <2> QED BY <2>1, <2>2
<1>8. CASE (BroadcastAdd(c) \/ BroadcastRelease(c)) /\ t = u
  <2> SUFFICES ASSUME Claimed(t)' PROVE ClaimInv(t)'
    BY DEF ClaimInv
  <2>0. CallOf(c, t)
    BY <1>8 DEF CallOf, BroadcastAdd, BroadcastRelease
  <2>1. OneHolder(t) /\ RowView(t) /\ CallView(c)
    BY <1>0, <2>0, ClaimedBefore DEF ClaimInv
  <2>2. /\ \A d \in Calls : CallOf(d, t) => d = c
        /\ \A k \in Slots : ~JobOf(k, t)
    BY <2>0, <2>1 DEF OneHolder
  <2>3. chain' = chain
    BY <1>8 DEF BroadcastAdd, BroadcastRelease
  <2>4. CASE BroadcastAdd(c)
    <3>0. tx' = tx
      BY <2>4 DEF BroadcastAdd
    <3>1. RowView(t)'
      BY <1>1, <1>8, <2>1, <2>3, <3>0 DEF RowView, CallView, Unsent, SentOnly
    <3>2. CASE Added(t, call[c].signed) /\ Respond(c)
      <4>1. PICK f \in Slots : job' = [job EXCEPT ![f] = ProcessJob(t, call[c].signed)]
        BY <3>2, SlotIsFree DEF Added, Enqueue
      <4>2. \A d \in Calls : ~CallOf(d, t)'
        BY <1>1, <1>3, <2>2, <3>2 DEF CallOf
      <4>3. \A k \in Slots : JobOf(k, t)' => k = f
        BY <1>0, <2>2, <4>1 DEF JobOf, TypeOK
      <4>4. job'[f] = ProcessJob(t, call[c].signed)
        BY <1>0, <4>1 DEF TypeOK
      <4>5. JobView(f)'
        BY <1>1, <1>8, <2>1, <3>0, <4>4 DEF JobView, CallView, ProcessJob, Unsent
      <4> QED BY <3>1, <4>1, <4>2, <4>3, <4>5, ClaimByJob
    <3>3. CASE Handled("queue") /\ UNCHANGED job /\ call' = [call EXCEPT ![c].pc = "release"]
      <4>1. call'[c].tx = t
        BY <1>0, <1>8, <2>4, <3>3 DEF BroadcastAdd, TypeOK, Call
      <4>2. CallView(c)'
        BY <1>1, <1>8, <2>1, <3>0, <4>1 DEF CallView, Unsent
      <4>3. /\ \A d \in Calls : CallOf(d, t)' => d = c
            /\ \A k \in Slots : ~JobOf(k, t)'
        BY <1>1, <2>2, <3>3 DEF CallOf, JobOf, NoJob
      <4> QED BY <3>1, <4>2, <4>3, ClaimByCall
    <3>4. ~Struck(t, "lostReply", "twice")
      BY <1>0, TwiceEnds
    <3> QED BY <1>8, <2>4, <3>2, <3>3, <3>4 DEF BroadcastAdd, AddThrew
  <2>5. CASE BroadcastRelease(c)
    <3>1. CASE tx' = tx
      BY <1>2, <1>3, <2>5, <3>1 DEF BroadcastRelease
    <3>2. CASE SetStatus(t, "PENDING")
      <4>1. tx'[t].status = "PENDING" /\ tx'[t].hash = tx[t].hash
        BY <1>0, <3>2 DEF SetStatus, TypeOK
      <4>2. /\ \A d \in Calls : ~CallOf(d, t)'
            /\ \A k \in Slots : ~JobOf(k, t)'
        BY <1>1, <1>3, <2>2, <2>5 DEF BroadcastRelease, CallOf, JobOf, NoJob
      <4>3. RowView(t)'
        BY <1>1, <1>8, <2>1, <4>1, <4>2 DEF RowView, CallView, Unsent, SentOnly
      <4> QED BY <4>2, <4>3 DEF ClaimInv, OneHolder
    <3> QED BY <1>8, <2>5, <3>1, <3>2 DEF BroadcastRelease
  <2> QED BY <1>8, <2>4, <2>5
<1>9. Broadcasting(c) => call[c].pc \in {"claim", "add", "release"}
  BY DEF Broadcasting, BroadcastClaim, BroadcastAdd, BroadcastRelease
<1> QED BY <1>4, <1>5, <1>6, <1>7, <1>8, <1>9 DEF Broadcasting

\* A job that ends, whichever way, leaves no job of another row behind it; and
\* without a mark of repetition it leaves at most the status check in its slot.
LEMMA EndedJobs ==
  ASSUME TypeOK, NEW j \in Slots, job[j] # NoJob,
         \/ End(j) \/ EndWithCheck(j) \/ \E fault \in FaultKinds : EndStruck(j, fault)
  PROVE  /\ \A k \in Slots : \/ job'[k] = job[k]
                              \/ job'[k] = NoJob
                              \/ job'[k].tx = job[j].tx
         /\ \/ Struck(job[j].tx, "stall", "twice")
            \/ job' = [job EXCEPT ![j] = NoJob] /\ ~EndWithCheck(j)
            \/ /\ job' = [job EXCEPT ![j] = CheckJob(job[j].tx, job[j].signed)]
               /\ EndWithCheck(j)
<1>0. CanRequeue(j) => Requeued(j).tx = job[j].tx
  BY JobFields DEF Requeued, Job
<1>1. CheckJob(job[j].tx, job[j].signed).tx = job[j].tx /\ CheckJob(job[j].tx, job[j].signed) # NoJob
  BY DEF CheckJob, NoJob
<1>2. CASE EndWithCheck(j)
  <2>1. CASE job' = [job EXCEPT ![j] = CheckJob(job[j].tx, job[j].signed)]
    BY <1>1, <1>2, <2>1 DEF TypeOK
  <2>2. CASE /\ CanRequeue(j) /\ Struck(job[j].tx, "stall", "twice")
             /\ Free # {}
             /\ job' = [job EXCEPT ![j] = Requeued(j),
                                   ![FreeSlot] = CheckJob(job[j].tx, job[j].signed)]
    BY <1>0, <1>1, <2>2, SlotIsFree DEF TypeOK
  <2> QED BY <1>2, <2>1, <2>2 DEF EndWithCheck
<1>3. CASE ~EndWithCheck(j)
  <2>1. CASE End(j)
    BY <1>0, <1>3, <2>1 DEF End, TypeOK
  <2>2. CASE \E fault \in FaultKinds : EndStruck(j, fault)
    BY <1>3, <2>2 DEF EndStruck, TypeOK
  <2> QED BY <1>3, <2>1, <2>2
<1> QED BY <1>2, <1>3

\* A job that moves on is the same job.
LEMMA GotoJob ==
  ASSUME TypeOK, NEW j \in Slots, job[j] # NoJob, NEW pc, Goto(j, pc)
  PROVE  /\ job'[j].tx = job[j].tx /\ job'[j].signed = job[j].signed
         /\ job'[j].kind = job[j].kind /\ job'[j].pc = pc
         /\ \A k \in Slots : k # j => job'[k] = job[k]
<1>1. job[j] \in Job
  BY JobFields
<1> QED BY <1>1 DEF Goto, Job, TypeOK

\* The worker.
LEMMA ClaimWork ==
  ASSUME Sound, [Next]_vars, NEW t \in Txs, ClaimInv(t), NEW j \in Slots, Work(j) \/ Stall(j)
  PROVE  ClaimInv(t)'
<1> DEFINE u == job[j].tx
           s == job[j].signed
           Ending == End(j) \/ EndWithCheck(j) \/ \E fault \in FaultKinds : EndStruck(j, fault)
<1>0. TypeOK /\ JobInv(j)
  BY DEF Sound
<1>1. job[j] # NoJob
  BY AtIsJob DEF Work, Take, WorkerMark, WorkerSend, WorkerSave, WorkerQueueCheck, WorkerFail,
                 WorkerPoll, WorkerSettle, WorkerReceipt, Stall
<1>2. u \in Txs /\ s \in Signed /\ job[j] \in Job /\ tx[u] \in [status: Statuses, hash: Signed \cup {None}]
  BY <1>0, <1>1, JobFields DEF TypeOK
<1>3. call' = call /\ submit' = submit
  BY DEF Work, Take, WorkerMark, WorkerSend, WorkerSave, WorkerQueueCheck, WorkerFail,
         WorkerPoll, WorkerSettle, WorkerReceipt, Stall
<1>4. CASE t # u
  <2>1. \A k \in Slots : job'[k] = job[k] \/ job'[k] = NoJob \/ job'[k].tx = u
    <3>1. CASE \E pc \in {"mark", "send", "save", "check", "fail", "poll", "settle", "receipt"} :
                 Goto(j, pc)
      BY <1>0, <1>1, <3>1, GotoJob
    <3>2. CASE Ending
      BY <1>0, <1>1, <3>2, EndedJobs
    <3>3. CASE /\ Free # {}
               /\ job' = [job EXCEPT ![j].pc = "fail", ![FreeSlot] = CheckJob(u, s)]
      BY <1>0, <1>1, <1>2, <3>3, SlotIsFree DEF TypeOK, CheckJob, Job
    <3>4. CASE Stall(j)
      BY <1>0, <1>2, <3>4 DEF Stall, Requeued, Job, TypeOK
    <3> QED BY <3>1, <3>2, <3>3, <3>4 DEF Work, Take, WorkerMark, WorkerSend, WorkerSave,
               WorkerQueueCheck, WorkerFail, WorkerPoll, WorkerSettle, WorkerReceipt, FaultKinds
  <2>2. tx'[t] = tx[t]
    BY <1>0, <1>2, <1>4 DEF Work, Take, WorkerMark, WorkerSend, WorkerSave, WorkerQueueCheck,
       WorkerFail, WorkerPoll, WorkerSettle, WorkerReceipt, Stall, SetStatus, TypeOK
  <2>3. sends'[t] = sends[t]
    BY <1>0, <1>2, <1>4 DEF Work, Take, WorkerMark, WorkerSend, WorkerSave, WorkerQueueCheck,
       WorkerFail, WorkerPoll, WorkerSettle, WorkerReceipt, Stall, TypeOK
  <2> QED BY <1>0, <1>3, <1>4, <2>1, <2>2, <2>3, ClaimKept DEF JobOf
<1>5. CASE t = u
  <2> SUFFICES ASSUME Claimed(t)' PROVE ClaimInv(t)'
    BY DEF ClaimInv
  <2>0. JobOf(j, t)
    BY <1>1, <1>5 DEF JobOf
  <2>1. OneHolder(t) /\ RowView(t) /\ JobView(j)
    BY <1>0, <2>0, ClaimedBefore DEF ClaimInv
  <2>2. /\ \A k \in Slots : JobOf(k, t) => k = j
        /\ \A c \in Calls : ~CallOf(c, t)'
    BY <1>3, <2>0, <2>1 DEF OneHolder, CallOf
  <2>3. ASSUME \A k \in Slots : k # j => job'[k] = job[k],
               RowView(t)', JobOf(j, t)' => JobView(j)'
        PROVE  ClaimInv(t)'
    <3>1. \A k \in Slots : JobOf(k, t)' => k = j
      BY <2>2, <2>3 DEF JobOf, NoJob
    <3> QED BY <2>2, <2>3, <3>1, ClaimByJob
  <2>4. ASSUME tx' = tx, sends' = sends,
               End(j) \/ \E fault \in FaultKinds : EndStruck(j, fault)
        PROVE  ClaimInv(t)'
    <3>1. job' = [job EXCEPT ![j] = NoJob]
      BY <1>0, <1>5, <2>4, TwiceEnds DEF End, EndStruck
    <3> QED BY <1>0, <1>3, <2>4, <3>1, ClaimKept DEF JobOf, TypeOK
  <2>5. ASSUME tx' = tx, sends' = sends, EndWithCheck(j), job[j].kind = "check" \/ job[j].pc = "check",
               job[j].pc # "receipt"
        PROVE  ClaimInv(t)'
    <3>1. job' = [job EXCEPT ![j] = CheckJob(u, s)]
      BY <1>0, <1>1, <1>2, <1>5, <2>5, EndedJobs, TwiceEnds
    <3>2. job'[j] = CheckJob(u, s) /\ \A k \in Slots : k # j => job'[k] = job[k]
      BY <1>0, <3>1 DEF TypeOK
    <3>3. SentOnly(t, s) /\ tx[t].status = "PROCESSING" /\ tx[t].hash = s
      BY <1>2, <1>5, <2>1, <2>5 DEF JobView, Job
    <3>4. JobView(j)'
      BY <1>5, <2>5, <3>2, <3>3 DEF JobView, CheckJob, SentOnly
    <3>5. RowView(t)'
      BY <1>2, <1>3, <2>1, <2>5, <3>3 DEF RowView, SentOnly
    <3> QED BY <2>3, <3>2, <3>4, <3>5
  <2>6. CASE Take(j)
    <3>1. PICK pc \in {"mark", "poll"} : Goto(j, pc) /\ (pc = "mark" <=> job[j].kind = "process")
      BY <1>0, <1>1, <2>6, JobFields DEF Take
    <3>2. tx' = tx /\ sends' = sends /\ chain' = chain
      BY <2>6 DEF Take
    <3>3. JobView(j)'
      BY <1>0, <1>1, <1>2, <1>5, <2>1, <2>6, <3>1, <3>2, GotoJob
         DEF Take, JobView, Unsent, SentOnly, Job
    <3>4. RowView(t)'
      BY <1>2, <1>3, <1>5, <2>1, <3>2 DEF RowView, JobView, Unsent, SentOnly
    <3> QED BY <1>0, <1>1, <2>3, <3>1, <3>3, <3>4, GotoJob
  <2>7. CASE WorkerMark(j)
    <3>1. At(j, "process", "mark") /\ sends' = sends /\ chain' = chain
      BY <2>7 DEF WorkerMark
    <3>2. CASE SetStatus(u, "PROCESSING") /\ Goto(j, "send")
      <4>1. tx'[t].status = "PROCESSING" /\ tx'[t].hash = tx[t].hash
        BY <1>0, <1>5, <3>2 DEF SetStatus, TypeOK
      <4>2. JobView(j)'
        BY <1>0, <1>1, <1>5, <2>1, <3>1, <3>2, <4>1, GotoJob DEF At, JobView, Unsent
      <4>3. RowView(t)'
        BY <1>3, <2>1, <3>1, <4>1 DEF RowView, Unsent, SentOnly
      <4> QED BY <1>0, <1>1, <2>3, <3>2, <4>2, <4>3, GotoJob
    <3>3. CASE EndStruck(j, "database") /\ UNCHANGED tx
      BY <2>4, <3>1, <3>3 DEF FaultKinds
    <3> QED BY <2>7, <3>2, <3>3 DEF WorkerMark
  <2>8. CASE WorkerSend(j)
    <3>1. At(j, "process", "send") /\ tx' = tx /\ \E pc \in {"save", "fail"} : Goto(j, pc)
      BY <2>8 DEF WorkerSend
    <3>2. Unsent(t) /\ tx[t].status = "PROCESSING" /\ tx[t].hash = None
      BY <1>5, <2>1, <3>1 DEF At, JobView
    <3>3. SentOnly(t, s)'
      <4>1. sends' = [sends EXCEPT ![t][s] = IF @ < 2 THEN @ + 1 ELSE 2]
        BY <1>5, <2>8 DEF WorkerSend
      <4>2. sends[t] \in [Signed -> 0..2] /\ sends[t][s] = 0
        BY <1>0, <1>2, <3>2 DEF TypeOK, Unsent
      <4>3. sends'[t] = [sends[t] EXCEPT ![s] = 1]
        BY <1>0, <1>2, <4>1, <4>2 DEF TypeOK
      <4>4. \A r \in Signed : sends'[t][r] = IF r = s THEN 1 ELSE 0
        BY <1>2, <3>2, <4>2, <4>3 DEF Unsent
      <4>5. job'[j].signed = s
        BY <1>0, <1>1, <3>1, GotoJob
      <4> QED BY <4>4, <4>5 DEF SentOnly
    <3>4. JobView(j)'
      BY <1>0, <1>1, <1>5, <3>1, <3>2, <3>3, GotoJob DEF At, JobView, SentOnly
    <3>5. s' \in Signed
      BY <1>0, <1>1, <1>2, <3>1, GotoJob
    <3>6. RowView(t)'
      BY <1>3, <2>1, <3>1, <3>2, <3>3, <3>5 DEF RowView
    <3> QED BY <1>0, <1>1, <2>3, <3>1, <3>4, <3>6, GotoJob
  <2>9. CASE WorkerSave(j)
    <3>1. At(j, "process", "save") /\ sends' = sends /\ chain' = chain
      BY <2>9 DEF WorkerSave
    <3>2. SentOnly(t, s) /\ tx[t].status = "PROCESSING"
      BY <1>5, <2>1, <3>1 DEF At, JobView
    <3>3. PICK pc \in {"check", "fail"} :
            /\ Goto(j, pc)
            /\ tx'[t].status = "PROCESSING"
            /\ pc = "check" => tx'[t].hash = s
      BY <1>0, <1>5, <2>9, <3>2 DEF WorkerSave, TypeOK
    <3>4. JobView(j)'
      BY <1>0, <1>1, <1>5, <3>1, <3>2, <3>3, GotoJob DEF At, JobView, SentOnly
    <3>5. RowView(t)'
      BY <1>2, <1>3, <2>1, <3>1, <3>2, <3>3 DEF RowView, SentOnly
    <3> QED BY <1>0, <1>1, <2>3, <3>3, <3>4, <3>5, GotoJob
  <2>10. CASE WorkerQueueCheck(j)
    <3>1. At(j, "process", "check") /\ tx' = tx /\ sends' = sends /\ chain' = chain
      BY <2>10 DEF WorkerQueueCheck
    <3>2. CASE EndWithCheck(j)
      BY <2>5, <3>1, <3>2 DEF At
    <3>3. CASE Goto(j, "fail")
      <4>1. JobView(j)'
        BY <1>0, <1>1, <1>5, <2>1, <3>1, <3>3, GotoJob DEF At, JobView, SentOnly
      <4>2. RowView(t)'
        BY <1>3, <1>5, <2>1, <3>1 DEF At, RowView, JobView, Unsent, SentOnly
      <4> QED BY <1>0, <1>1, <2>3, <3>3, <4>1, <4>2, GotoJob
    <3>4. ~Struck(u, "lostReply", "twice")
      BY <1>0, <1>5, TwiceEnds
    <3> QED BY <2>10, <3>2, <3>3, <3>4 DEF WorkerQueueCheck
  <2>11. CASE WorkerFail(j)
    <3>1. At(j, "process", "fail") /\ sends' = sends /\ chain' = chain
      BY <2>11 DEF WorkerFail
    <3>2. CASE SetStatus(u, "FAILED") /\ End(j)
      <4>1. tx'[t].status = "FAILED"
        BY <1>0, <1>5, <3>2 DEF SetStatus, TypeOK
      <4>2. job' = [job EXCEPT ![j] = NoJob]
        BY <1>0, <1>5, <3>2, TwiceEnds DEF End
      <4>3. ~JobOf(j, t)' /\ \A k \in Slots : k # j => job'[k] = job[k]
        BY <1>0, <4>2 DEF JobOf, TypeOK
      <4>4. RowView(t)'
        BY <1>3, <2>1, <3>1, <4>1 DEF RowView, Unsent, SentOnly
      <4> QED BY <2>3, <4>3, <4>4
    <3>3. CASE EndStruck(j, "database") /\ UNCHANGED tx
      BY <2>4, <3>1, <3>3 DEF FaultKinds
    <3> QED BY <2>11, <3>2, <3>3 DEF WorkerFail
  <2>12. CASE WorkerPoll(j)
    <3>1. At(j, "check", "poll") /\ tx' = tx /\ sends' = sends /\ chain' = chain
      BY <2>12 DEF WorkerPoll
    <3>2. CASE Goto(j, "settle")
      <4>1. JobView(j)'
        BY <1>0, <1>1, <1>5, <2>1, <3>1, <3>2, GotoJob DEF At, JobView, SentOnly
      <4>2. RowView(t)'
        BY <1>3, <1>5, <2>1, <3>1 DEF At, RowView, JobView, Unsent, SentOnly
      <4> QED BY <1>0, <1>1, <2>3, <3>2, <4>1, <4>2, GotoJob
    <3>3. CASE EndWithCheck(j)
      BY <2>5, <3>1, <3>3 DEF At
    <3>4. CASE \E fault \in FaultKinds : EndStruck(j, fault)
      BY <2>4, <3>1, <3>4
    <3> QED BY <2>12, <3>2, <3>3, <3>4 DEF WorkerPoll, FaultKinds
  <2>13. CASE WorkerSettle(j)
    <3>1. At(j, "check", "settle") /\ sends' = sends /\ chain' = chain
      BY <2>13 DEF WorkerSettle
    <3>2. SentOnly(t, s) /\ tx[t].hash = s
      BY <1>5, <2>1, <3>1 DEF At, JobView
    <3>3. CASE SetStatus(u, "COMPLETED") /\ Verdict(s) = "COMPLETED" /\ Goto(j, "receipt")
      <4>1. tx'[t].status = "COMPLETED" /\ tx'[t].hash = s
        BY <1>0, <1>5, <3>2, <3>3 DEF SetStatus, TypeOK
      <4>2. chain[s] = "confirmed"
        BY <1>0, <1>1, <3>1, <3>3 DEF JobInv, At, Verdict
      <4>3. JobView(j)'
        BY <1>0, <1>1, <1>5, <3>1, <3>2, <3>3, <4>1, GotoJob DEF At, JobView, SentOnly
      <4>4. RowView(t)'
        BY <1>2, <1>3, <2>1, <3>1, <3>2, <4>1, <4>2 DEF RowView, SentOnly
      <4> QED BY <1>0, <1>1, <2>3, <3>3, <4>3, <4>4, GotoJob
    <3>4. CASE SetStatus(u, "FAILED") /\ End(j)
      <4>1. tx'[t].status = "FAILED"
        BY <1>0, <1>5, <3>4 DEF SetStatus, TypeOK
      <4>2. job' = [job EXCEPT ![j] = NoJob]
        BY <1>0, <1>5, <3>4, TwiceEnds DEF End
      <4>3. ~JobOf(j, t)' /\ \A k \in Slots : k # j => job'[k] = job[k]
        BY <1>0, <4>2 DEF JobOf, TypeOK
      <4>4. RowView(t)'
        BY <1>3, <2>1, <3>1, <4>1 DEF RowView, Unsent, SentOnly
      <4> QED BY <2>3, <4>3, <4>4
    <3>5. CASE EndStruck(j, "database") /\ UNCHANGED tx
      BY <2>4, <3>1, <3>5 DEF FaultKinds
    <3> QED BY <2>13, <3>3, <3>4, <3>5 DEF WorkerSettle, Verdict
  <2>14. CASE WorkerReceipt(j)
    BY <2>4, <2>14 DEF WorkerReceipt, FaultKinds
  <2>15. CASE Stall(j)
    <3>1. job' = [job EXCEPT ![j] = NoJob] /\ tx' = tx /\ sends' = sends
      BY <1>0, <1>5, <2>15, TwiceEnds DEF Stall
    <3> QED BY <1>0, <1>3, <3>1, ClaimKept DEF JobOf, TypeOK
  <2> QED BY <2>6, <2>7, <2>8, <2>9, <2>10, <2>11, <2>12, <2>13, <2>14, <2>15 DEF Work
<1> QED BY <1>4, <1>5

\* At first no row has a holder and nothing was sent.
LEMMA IInvInit == Init => IInv
<1> SUFFICES ASSUME Init, NEW t \in Txs PROVE ClaimInv(t)
  BY SoundInit DEF IInv
<1>1. /\ \A c \in Calls : ~CallOf(c, t)
      /\ \A j \in Slots : ~JobOf(j, t)
  BY DEF Init, CallOf, JobOf
<1>2. RowView(t)
  BY <1>1 DEF Init, RowView, Unsent
<1> QED BY <1>1, <1>2 DEF ClaimInv, OneHolder

\* Every step keeps the claim of every row with one holder.
LEMMA IInvStep == IInv /\ [Next]_vars => IInv'
<1> SUFFICES ASSUME IInv, [Next]_vars, NEW t \in Txs PROVE ClaimInv(t)'
  BY SoundStep DEF IInv
<1>0. Sound /\ TypeOK /\ ClaimInv(t)
  BY DEF IInv, Sound
<1>1. CASE UNCHANGED vars \/ \E s \in Signed : ChainDecides(s)
  BY <1>0, <1>1, ClaimKept DEF vars, ChainDecides
<1> QED BY <1>0, <1>1, ClaimRows, ClaimCalls, ClaimWork DEF Next

\* Racing broadcasts, with whatever they signed, lead to one transmission of one
\* signed transaction.
THEOREM SentOnce == Spec => []ClaimSendsOnce
<1>1. IInv => ClaimSendsOnce
  BY DEF IInv, ClaimInv, RowView, Unsent, SentOnly, ClaimSendsOnce
<1> QED BY IInvInit, IInvStep, <1>1, PTL DEF Spec

\* A completed row shows the hash of a confirmed transaction.
THEOREM HashCorrect == Spec => []HashIsConfirmed
<1>1. IInv => HashIsConfirmed
  BY DEF IInv, ClaimInv, RowView, HashIsConfirmed
<1> QED BY IInvInit, IInvStep, <1>1, PTL DEF Spec

(***************************************************************************)
(* A row's steps are those of a promised transfer.                         *)
(***************************************************************************)
\* At first nothing has been created, confirmed or promised.
LEMMA PromisedInitially == Init => Promise!TransferInit
BY DEF Init, Promise!TransferInit, Confirmed, Unclaimed

\* The chain takes nothing back, and no row has its guarantee restored.
LEMMA OnlyGrowing ==
  ASSUME TypeOK, [Next]_vars
  PROVE  /\ Confirmed \subseteq Confirmed' /\ Confirmed' \subseteq Signed
         /\ Unclaimed \subseteq Unclaimed' /\ Unclaimed' \subseteq Txs
BY ChainStable, ClaimedBefore DEF Confirmed, Unclaimed

\* A step that writes neither a row nor a receipt is seen by no user.
LEMMA UnseenStep ==
  ASSUME TypeOK, [Next]_vars, tx' = tx, receipt' = receipt
  PROVE  Promise!TransferNext
BY OnlyGrowing DEF Promise!TransferNext, Promise!Unseen

\* A step that moves one row in the promised way, while the chain stands still.
LEMMA PromisedMove ==
  ASSUME TypeOK, [Next]_vars, chain' = chain, NEW t \in Txs,
         \/ Promise!Create(t) \/ Promise!Claim(t) \/ Promise!Release(t) \/ Promise!Send(t)
         \/ Promise!Complete(t) \/ Promise!Fail(t) \/ Promise!Receipt(t) \/ Promise!Spoiled(t)
  PROVE  Promise!TransferNext
<1>1. Confirmed' = Confirmed
  BY DEF Confirmed
<1>2. Promise!Transfer(t)
  BY <1>1, OnlyGrowing DEF Promise!Transfer
<1> QED BY <1>2 DEF Promise!TransferNext

\* Anything may be done to one row that has lost its guarantee.
LEMMA SpoiledMove ==
  ASSUME TypeOK, TypeOK', [Next]_vars, chain' = chain, NEW t \in Txs, ~Claimed(t),
         \A u \in Txs : u # t => tx'[u] = tx[u],
         receipt' = receipt \/ receipt' = receipt \cup {t}
  PROVE  Promise!TransferNext
<1>1. tx' = [tx EXCEPT ![t] = tx'[t]]
  BY DEF TypeOK
<1>2. PICK status \in Statuses, hash \in Signed \cup {None} :
        tx'[t] = [status |-> status, hash |-> hash]
  BY DEF TypeOK
<1>3. Statuses = Promise!Status
  BY DEF Statuses, Promise!Status
<1>4. Promise!Spoiled(t)
  BY <1>1, <1>2, <1>3 DEF Promise!Spoiled, Unclaimed
<1> QED BY <1>4, PromisedMove

\* Writing a status is showing the hash there is.
LEMMA ShownStatus ==
  ASSUME TypeOK, NEW t \in Txs, NEW status, SetStatus(t, status)
  PROVE  /\ tx' = [tx EXCEPT ![t] = [status |-> status, hash |-> tx[t].hash]]
         /\ \A u \in Txs : u # t => tx'[u] = tx[u]
<1>1. [tx[t] EXCEPT !.status = status] = [status |-> status, hash |-> tx[t].hash]
  BY DEF TypeOK
<1> QED BY <1>1 DEF SetStatus, TypeOK

\* send() and submit().
LEMMA PromisedRows ==
  ASSUME IInv, [Next]_vars, NEW t \in Txs,
         \/ CreateBySend(t) \/ CreateBySubmit(t) \/ SubmitAdd(t)
         \/ SubmitMarkFailed(t) \/ SubmitDies(t)
  PROVE  Promise!TransferNext
<1>0. TypeOK /\ TypeOK' /\ (Claimed(t) => RowView(t))
  BY TypeStep DEF IInv, Sound, ClaimInv
<1>1. /\ chain' = chain /\ receipt' = receipt
      /\ tx' = tx \/ SetStatus(t, "PENDING") \/ SetStatus(t, "FAILED")
  BY DEF CreateBySend, CreateBySubmit, SubmitAdd, SubmitMarkFailed, SubmitDies
<1>2. CASE tx' = tx
  BY <1>0, <1>1, <1>2, UnseenStep
<1>3. CASE tx' # tx /\ ~Claimed(t)
  BY <1>0, <1>1, <1>3, ShownStatus, SpoiledMove
<1>4. CASE tx' # tx /\ Claimed(t)
  <2>1. CreateBySend(t)
    BY <1>0, <1>4 DEF RowView, Claimed, CreateBySubmit, SubmitAdd, SubmitMarkFailed, SubmitDies
  <2>2. tx[t].status = "NONE" /\ SetStatus(t, "PENDING")
    BY <2>1 DEF CreateBySend
  <2>3. tx[t].hash = None
    BY <1>0, <1>4, <2>2 DEF RowView
  <2>4. Promise!Create(t)
    BY <1>0, <1>1, <2>2, <2>3, ShownStatus DEF Promise!Create, Promise!Is, Promise!Show
  <2> QED BY <1>0, <1>1, <2>4, PromisedMove
<1> QED BY <1>2, <1>3, <1>4

\* broadcast().
LEMMA PromisedCalls ==
  ASSUME IInv, [Next]_vars, NEW c \in Calls,
         BroadcastRead(c) \/ Broadcasting(c) \/ BroadcastDies(c)
  PROVE  Promise!TransferNext
<1> DEFINE t == call[c].tx
<1>0. TypeOK /\ TypeOK'
  BY TypeStep DEF IInv, Sound
<1>1. chain' = chain /\ receipt' = receipt
  BY DEF BroadcastRead, Broadcasting, BroadcastClaim, BroadcastAdd, BroadcastRelease, BroadcastDies
<1>2. CASE tx' = tx
  BY <1>0, <1>1, <1>2, UnseenStep
<1>3. CASE BroadcastClaim(c) /\ tx' # tx
  <2>1. t \in Txs
    BY <1>0, <1>3, CallFields DEF BroadcastClaim
  <2>2. tx[t].status = "PENDING" /\ SetStatus(t, "PROCESSING")
    BY <1>3 DEF BroadcastClaim
  <2>3. CASE Claimed(t)
    <3>1. tx[t].hash = None
      BY <2>1, <2>2, <2>3 DEF IInv, ClaimInv, RowView
    <3>2. Promise!Claim(t)
      BY <1>0, <1>1, <2>1, <2>2, <3>1, ShownStatus DEF Promise!Claim, Promise!Is, Promise!Show
    <3> QED BY <1>0, <1>1, <2>1, <3>2, PromisedMove
  <2>4. CASE ~Claimed(t)
    BY <1>0, <1>1, <2>1, <2>2, <2>4, ShownStatus, SpoiledMove
  <2> QED BY <2>3, <2>4
<1>4. CASE BroadcastRelease(c) /\ tx' # tx
  <2>1. t \in Txs
    BY <1>0, <1>4, CallFields DEF BroadcastRelease
  <2>2. tx[t].status = "PROCESSING" /\ tx[t].hash = None /\ SetStatus(t, "PENDING")
    BY <1>4 DEF BroadcastRelease
  <2>3. Promise!Release(t)
    BY <1>0, <1>1, <2>1, <2>2, ShownStatus DEF Promise!Release, Promise!Is, Promise!Show
  <2> QED BY <1>0, <1>1, <2>1, <2>3, PromisedMove
<1> QED BY <1>2, <1>3, <1>4 DEF BroadcastRead, Broadcasting, BroadcastAdd, BroadcastDies

\* The worker.
LEMMA PromisedWork ==
  ASSUME IInv, [Next]_vars, NEW j \in Slots, Work(j) \/ Stall(j)
  PROVE  Promise!TransferNext
<1> DEFINE t == job[j].tx
           s == job[j].signed
<1>0. TypeOK /\ TypeOK' /\ JobInv(j)
  BY TypeStep DEF IInv, Sound
<1>1. job[j] # NoJob
  BY AtIsJob DEF Work, Take, WorkerMark, WorkerSend, WorkerSave, WorkerQueueCheck, WorkerFail,
                 WorkerPoll, WorkerSettle, WorkerReceipt, Stall
<1>2. t \in Txs /\ s \in Signed /\ JobOf(j, t)
  BY <1>0, <1>1, JobFields DEF JobOf
<1>3. Claimed(t) => JobView(j)
  BY <1>2 DEF IInv, ClaimInv
<1>4. CASE tx' = tx /\ receipt' = receipt
  BY <1>0, <1>4, UnseenStep
<1>5. CASE ~Claimed(t) /\ chain' = chain
  <2>1. \A u \in Txs : u # t => tx'[u] = tx[u]
    BY <1>0, <1>1, <1>2 DEF Work, Take, WorkerMark, WorkerSend, WorkerSave, WorkerQueueCheck,
       WorkerFail, WorkerPoll, WorkerSettle, WorkerReceipt, Stall, SetStatus, TypeOK
  <2>2. receipt' = receipt \/ receipt' = receipt \cup {t}
    BY DEF Work, Take, WorkerMark, WorkerSend, WorkerSave, WorkerQueueCheck, WorkerFail,
           WorkerPoll, WorkerSettle, WorkerReceipt, Stall
  <2> QED BY <1>0, <1>2, <1>5, <2>1, <2>2, SpoiledMove
<1>6. CASE WorkerMark(j) /\ tx' # tx /\ Claimed(t)
  <2>1. tx[t].status = "PROCESSING" /\ SetStatus(t, "PROCESSING") /\ receipt' = receipt
    BY <1>3, <1>6 DEF WorkerMark, At, JobView
  <2>2. tx[t] = [status |-> "PROCESSING", hash |-> tx[t].hash]
    BY <1>0, <1>2, <2>1 DEF TypeOK
  <2>3. tx' = [tx EXCEPT ![t] = tx[t]]
    BY <1>0, <1>2, <2>1, <2>2, ShownStatus
  <2>4. tx' = tx
    BY <1>0, <1>2, <2>3 DEF TypeOK
  <2> QED BY <1>6, <2>4
<1>7. CASE WorkerSave(j) /\ tx' # tx /\ Claimed(t)
  <2>1. tx[t].status = "PROCESSING" /\ tx[t].hash = None
    BY <1>3, <1>7 DEF WorkerSave, At, JobView
  <2>2. /\ tx' = [tx EXCEPT ![t] = [status |-> "PROCESSING", hash |-> s]]
        /\ chain' = chain /\ receipt' = receipt
    BY <1>7 DEF WorkerSave
  <2>3. Promise!Send(t)
    BY <1>2, <2>1, <2>2 DEF Promise!Send, Promise!Is, Promise!Show
  <2> QED BY <1>0, <1>2, <2>2, <2>3, PromisedMove
<1>8. CASE WorkerFail(j) /\ tx' # tx /\ Claimed(t)
  <2>1. tx[t].status = "PROCESSING"
    BY <1>3, <1>8 DEF WorkerFail, At, JobView
  <2>2. SetStatus(t, "FAILED") /\ chain' = chain /\ receipt' = receipt
    BY <1>8 DEF WorkerFail
  <2>3. Promise!Fail(t)
    BY <1>0, <1>2, <2>1, <2>2, ShownStatus DEF Promise!Fail, Promise!Is, Promise!Show
  <2> QED BY <1>0, <1>2, <2>2, <2>3, PromisedMove
<1>9. CASE WorkerSettle(j) /\ tx' # tx /\ Claimed(t)
  <2>1. tx[t].status = "PROCESSING" /\ tx[t].hash = s
    BY <1>3, <1>9 DEF WorkerSettle, At, JobView
  <2>2. SetStatus(t, Verdict(s)) /\ chain' = chain /\ receipt' = receipt
    BY <1>9 DEF WorkerSettle
  <2>3. CASE Verdict(s) = "COMPLETED"
    <3>1. s \in Confirmed
      BY <1>0, <1>1, <1>2, <1>9, <2>3 DEF WorkerSettle, At, JobInv, Verdict, Confirmed
    <3>2. Promise!Complete(t)
      BY <1>0, <1>2, <2>1, <2>2, <2>3, <3>1, ShownStatus
         DEF Promise!Complete, Promise!Is, Promise!Show
    <3> QED BY <1>0, <1>2, <2>2, <3>2, PromisedMove
  <2>4. CASE Verdict(s) = "FAILED"
    <3>1. Promise!Fail(t)
      BY <1>0, <1>2, <2>1, <2>2, <2>4, ShownStatus DEF Promise!Fail, Promise!Is, Promise!Show
    <3> QED BY <1>0, <1>2, <2>2, <3>1, PromisedMove
  <2> QED BY <2>3, <2>4 DEF Verdict
<1>10. CASE WorkerReceipt(j) /\ receipt' # receipt /\ Claimed(t)
  <2>1. tx[t].status = "COMPLETED"
    BY <1>3, <1>10 DEF WorkerReceipt, At, JobView
  <2>2. receipt' = receipt \cup {t} /\ tx' = tx /\ chain' = chain
    BY <1>10 DEF WorkerReceipt
  <2>3. Promise!Receipt(t)
    BY <2>1, <2>2 DEF Promise!Receipt, Promise!Is
  <2> QED BY <1>0, <1>2, <2>2, <2>3, PromisedMove
<1>11. WorkerSend(j) => tx' = tx /\ receipt' = receipt
  BY DEF WorkerSend
<1>12. ~WorkerSend(j) => chain' = chain
  BY DEF Work, Take, WorkerMark, WorkerSave, WorkerQueueCheck, WorkerFail, WorkerPoll,
         WorkerSettle, WorkerReceipt, Stall
<1>13. \/ tx' = tx /\ receipt' = receipt
       \/ (WorkerMark(j) \/ WorkerSave(j) \/ WorkerFail(j) \/ WorkerSettle(j)) /\ tx' # tx
       \/ WorkerReceipt(j) /\ receipt' # receipt
  BY DEF Work, Take, WorkerMark, WorkerSend, WorkerSave, WorkerQueueCheck, WorkerFail,
         WorkerPoll, WorkerSettle, WorkerReceipt, Stall
<1> QED BY <1>4, <1>5, <1>6, <1>7, <1>8, <1>9, <1>10, <1>11, <1>12, <1>13

promisedVars == <<tx, receipt, Confirmed, Unclaimed>>

\* Every step of the pipeline is a step of a transfer's promised life, or none.
LEMMA PromiseStep == IInv /\ [Next]_vars => [Promise!TransferNext]_promisedVars
<1> SUFFICES ASSUME IInv, [Next]_vars PROVE [Promise!TransferNext]_promisedVars
  OBVIOUS
<1>0. TypeOK
  BY DEF IInv, Sound
<1>1. CASE UNCHANGED vars \/ \E s \in Signed : ChainDecides(s)
  <2>1. tx' = tx /\ receipt' = receipt
    BY <1>1 DEF vars, ChainDecides
  <2> QED BY <1>0, <2>1, UnseenStep
<1> QED BY <1>1, PromisedRows, PromisedCalls, PromisedWork DEF Next

\* The pipeline implements the promise: a transfer of send() that no stall and no lost
\* reply of the queue has touched gets one hash for good, completes only when that hash
\* is confirmed, and what has ended - by then no request and no job that could write it
\* holds its claim - stays as it is.
THEOREM Refinement == Spec => ImplementsTransfer
BY IInvInit, IInvStep, PromisedInitially, PromiseStep, PTL
   DEF Spec, ImplementsTransfer, Promise!TransferSpec, Promise!promiseVars, promisedVars

\* So an end is final: what has completed, or failed, shows the same for ever.
THEOREM EndIsFinal ==
  Spec => [][\A t \in Txs : tx[t].status \in {"COMPLETED", "FAILED"} /\ Claimed(t)
                              => tx'[t] = tx[t]]_vars
<1> DEFINE Final == \A t \in Txs : tx[t].status \in {"COMPLETED", "FAILED"} /\ Claimed(t)
                                     => tx'[t] = tx[t]
<1>1. IInv /\ [Next]_vars => [Final]_vars
  <2> SUFFICES ASSUME IInv, [Next]_vars, NEW t \in Txs,
                      tx[t].status \in {"COMPLETED", "FAILED"}, Claimed(t)
               PROVE  tx'[t] = tx[t]
    BY DEF Final
  <2>0. TypeOK /\ t \notin Unclaimed
    BY DEF IInv, Sound, Unclaimed
  <2>1. Promise!TransferNext \/ tx' = tx
    BY PromiseStep DEF promisedVars
  <2>2. ASSUME NEW u \in Txs, Promise!Transfer(u) PROVE tx'[t] = tx[t]
    <3>1. CASE u # t
      BY <2>0, <2>2, <3>1 DEF TypeOK, Promise!Transfer, Promise!Create, Promise!Claim, Promise!Release,
         Promise!Send, Promise!Complete, Promise!Fail, Promise!Receipt, Promise!Spoiled, Promise!Show
    <3>2. CASE u = t
      BY <2>0, <2>2, <3>2 DEF Promise!Transfer, Promise!Create, Promise!Claim, Promise!Release,
         Promise!Send, Promise!Complete, Promise!Fail, Promise!Receipt, Promise!Spoiled, Promise!Is
    <3> QED BY <3>1, <3>2
  <2> QED BY <2>1, <2>2 DEF Promise!TransferNext, Promise!Unseen
<1> QED BY IInvInit, IInvStep, <1>1, PTL DEF Spec

(***************************************************************************)
(* Something drives every row in PROCESSING.                               *)
(***************************************************************************)
\* Marks are never taken off a row.
LEMMA MarksStay ==
  ASSUME TypeOK, [Next]_vars, NEW t \in Txs, "dropped" \notin mishap'[t]
  PROVE  "dropped" \notin mishap[t]
BY OneMark DEF Struck, TypeOK

\* A fault that makes the code give work up is remembered.
LEMMA DroppedMarks ==
  ASSUME TypeOK, NEW t \in Txs, NEW fault, Struck(t, fault, "dropped")
  PROVE  "dropped" \in mishap'[t]
BY DEF Struck, TypeOK

\* A row that a step leaves alone is driven by what drove it.
LEMMA DrivenKept ==
  ASSUME TypeOK, [Next]_vars, NEW t \in Txs, DrivenInv(t), tx'[t] = tx[t],
         \A k \in Slots : Drives(k, t) => job'[k] = job[k],
         \A c \in Calls : CallOf(c, t) => CallOf(c, t)'
  PROVE  DrivenInv(t)'
<1>1. JobDrives(t) => JobDrives(t)'
  BY DEF JobDrives, Drives
<1>2. Driven(t) => Driven(t)'
  BY <1>1 DEF Driven, CallOf
<1> QED BY <1>1, <1>2, MarksStay DEF DrivenInv

\* A row that a job will go on to settle is driven, whatever it shows.
LEMMA DrivenByJob ==
  ASSUME NEW t \in Txs, NEW j \in Slots, Drives(j, t)', tx'[t].status \notin {"NONE", "PENDING"}
  PROVE  DrivenInv(t)'
BY DEF DrivenInv, Driven, JobDrives

\* The queue keeps its jobs when one is added, and the new one drives its row.
LEMMA AddDrives ==
  ASSUME TypeOK, NEW t \in Txs, NEW s \in Signed, Enqueue(ProcessJob(t, s))
  PROVE  /\ \A k \in Slots : job[k] # NoJob => job'[k] = job[k]
         /\ \E k \in Slots : Drives(k, t)'
<1>1. FreeSlot \in Slots /\ job[FreeSlot] = NoJob /\ job' = [job EXCEPT ![FreeSlot] = ProcessJob(t, s)]
  BY SlotIsFree DEF Enqueue
<1>2. job'[FreeSlot] = ProcessJob(t, s)
  BY <1>1 DEF TypeOK
<1> QED BY <1>1, <1>2, NewJobs DEF Drives, ProcessJob, TypeOK

\* send() and submit() put no row into PROCESSING and end no job.
LEMMA DrivenRows ==
  ASSUME TypeOK, [Next]_vars, NEW t \in Txs, DrivenInv(t), NEW u \in Txs,
         \/ CreateBySend(u) \/ CreateBySubmit(u) \/ SubmitAdd(u)
         \/ SubmitMarkFailed(u) \/ SubmitDies(u)
  PROVE  DrivenInv(t)'
<1>1. call' = call
  BY DEF CreateBySend, CreateBySubmit, SubmitAdd, SubmitMarkFailed, SubmitDies
<1>2. \A k \in Slots : Drives(k, t) => job'[k] = job[k]
  BY AddDrives DEF CreateBySend, CreateBySubmit, SubmitAdd, SubmitMarkFailed, SubmitDies,
     Added, AddThrew, Drives
<1>3. CASE tx'[t] = tx[t]
  BY <1>1, <1>2, <1>3, DrivenKept DEF CallOf
<1>4. CASE tx'[t] # tx[t]
  <2>1. u = t /\ \/ tx[t].status = "NONE" /\ SetStatus(t, "PENDING")
                 \/ SetStatus(t, "FAILED")
    BY <1>4 DEF CreateBySend, CreateBySubmit, SubmitAdd, SubmitMarkFailed, SubmitDies, SetStatus, TypeOK
  <2>2. tx'[t].hash = tx[t].hash /\ tx'[t].status \in {"PENDING", "FAILED"}
        /\ (tx'[t].status = "PENDING" => tx[t].status = "NONE")
    BY <2>1 DEF SetStatus, TypeOK
  <2> QED BY <2>2 DEF DrivenInv
<1> QED BY <1>3, <1>4

\* broadcast(): from its claim to its answer the request drives the row, or a job does.
LEMMA DrivenCalls ==
  ASSUME TypeOK, [Next]_vars, NEW t \in Txs, DrivenInv(t), NEW c \in Calls,
         BroadcastRead(c) \/ Broadcasting(c) \/ BroadcastDies(c)
  PROVE  DrivenInv(t)'
<1> DEFINE u == call[c].tx
<1>1. \A d \in Calls : d # c => call'[d] = call[d]
  BY DEF BroadcastRead, Broadcasting, BroadcastClaim, BroadcastAdd, BroadcastRelease,
         BroadcastDies, Respond, TypeOK
<1>2. CASE BroadcastRead(c)
  BY <1>1, <1>2, DrivenKept DEF BroadcastRead, CallOf
<1>3. CASE BroadcastClaim(c)
  <2>1. u \in Txs /\ call[c].pc = "claim"
    BY <1>3, CallFields DEF BroadcastClaim
  <2>2. CASE tx' = tx
    BY <1>1, <1>3, <2>1, <2>2, DrivenKept DEF BroadcastClaim, CallOf
  <2>3. CASE tx' # tx
    <3>1. /\ tx[u].status = "PENDING" /\ SetStatus(u, "PROCESSING")
          /\ call' = [call EXCEPT ![c].pc = "add"] /\ job' = job
      BY <1>3, <2>3 DEF BroadcastClaim
    <3>2. call'[c].pc = "add" /\ call'[c].tx = u
      BY <2>1, <3>1 DEF TypeOK, Call
    <3>3. CASE t = u
      <4>1. tx'[t].hash = None /\ tx'[t].status = "PROCESSING"
        BY <2>1, <3>1, <3>3 DEF SetStatus, DrivenInv, TypeOK
      <4> QED BY <3>2, <3>3, <4>1 DEF DrivenInv, Driven, CallOf
    <3>4. CASE t # u
      BY <1>1, <2>1, <3>1, <3>4, DrivenKept DEF CallOf, SetStatus, TypeOK
    <3> QED BY <3>3, <3>4
  <2> QED BY <2>2, <2>3
<1>4. CASE BroadcastAdd(c)
  <2>1. u \in Txs /\ call[c].signed \in Signed /\ call[c].pc = "add" /\ tx' = tx
    BY <1>4, CallFields DEF BroadcastAdd
  <2>2. job' = job \/ Enqueue(ProcessJob(u, call[c].signed))
    BY <1>4 DEF BroadcastAdd, Added, AddThrew, Handled
  <2>3. \A k \in Slots : Drives(k, t) => job'[k] = job[k]
    BY <2>1, <2>2, AddDrives DEF Drives
  <2>4. CASE t = u /\ Enqueue(ProcessJob(u, call[c].signed))
    <3>1. \E k \in Slots : Drives(k, t)'
      BY <2>1, <2>4, AddDrives
    <3> QED BY <2>1, <3>1 DEF DrivenInv, Driven, JobDrives
  <2>5. CASE ~(t = u /\ Enqueue(ProcessJob(u, call[c].signed)))
    <3>1. t # u \/ call' = [call EXCEPT ![c].pc = "release"]
      BY <1>4, <2>5 DEF BroadcastAdd, Added
    <3>2. \A d \in Calls : CallOf(d, t) => CallOf(d, t)'
      BY <1>1, <2>1, <3>1 DEF CallOf, TypeOK, Call
    <3> QED BY <2>1, <2>3, <3>2, DrivenKept
  <2> QED BY <2>4, <2>5
<1>5. CASE BroadcastRelease(c)
  <2>1. u \in Txs /\ call[c].pc = "release" /\ job' = job
    BY <1>5, CallFields DEF BroadcastRelease
  <2>2. CASE t # u
    <3>1. tx'[t] = tx[t]
      BY <1>5, <2>1, <2>2 DEF BroadcastRelease, SetStatus, TypeOK
    <3> QED BY <1>1, <2>1, <2>2, <3>1, DrivenKept DEF CallOf
  <2>3. CASE t = u /\ tx' = tx
    <3>1. \/ "dropped" \in mishap'[t]
          \/ tx[t].status # "PROCESSING"
          \/ tx[t].hash # None
      <4>1. CASE Struck(u, "database", "dropped")
        BY <2>1, <2>3, <4>1, DroppedMarks
      <4>2. CASE tx[u].status = "PROCESSING" /\ tx[u].hash = None /\ SetStatus(u, "PENDING")
        BY <2>1, <2>3, <4>2 DEF SetStatus, TypeOK
      <4> QED BY <1>5, <2>3, <4>1, <4>2 DEF BroadcastRelease
    <3> QED BY <2>1, <2>3, <3>1, MarksStay DEF DrivenInv, Driven, JobDrives, Drives
  <2>4. CASE t = u /\ tx' # tx
    <3>1. tx[t].hash = None /\ SetStatus(t, "PENDING")
      BY <1>5, <2>4 DEF BroadcastRelease
    <3>2. tx'[t].hash = None /\ tx'[t].status = "PENDING"
      BY <3>1 DEF SetStatus, TypeOK
    <3> QED BY <3>2 DEF DrivenInv
  <2> QED BY <2>2, <2>3, <2>4
<1>6. CASE BroadcastDies(c)
  <2>1. u \in Txs /\ job' = job /\ tx' = tx
    BY <1>6, CallFields DEF BroadcastDies
  <2>2. CASE t = u
    BY <1>6, <2>1, <2>2, DroppedMarks DEF BroadcastDies, DrivenInv
  <2>3. CASE t # u
    BY <1>1, <2>1, <2>3, DrivenKept DEF CallOf
  <2> QED BY <2>2, <2>3
<1> QED BY <1>2, <1>3, <1>4, <1>5, <1>6 DEF Broadcasting

\* A step of the worker on one job touches no other.
LEMMA OtherWork ==
  ASSUME TypeOK, NEW j \in Slots, Work(j) \/ Stall(j), NEW k \in Slots, k # j, job[k] # NoJob
  PROVE  job'[k] = job[k]
<1>1. Free # {} => FreeSlot # k
  BY SlotIsFree
<1> QED BY <1>1 DEF Work, Take, WorkerMark, WorkerSend, WorkerSave, WorkerQueueCheck, WorkerFail,
           WorkerPoll, WorkerSettle, WorkerReceipt, Stall, Goto, End, EndStruck, EndWithCheck,
           Handled, TypeOK

\* A job that moves on drives its row, unless only its receipt is left to do.
LEMMA GotoDrives ==
  ASSUME TypeOK, NEW t \in Txs, NEW j \in Slots, JobOf(j, t), NEW pc, pc # "receipt", Goto(j, pc)
  PROVE  Drives(j, t)'
<1>1. job[j] \in Job /\ job'[j] = [job[j] EXCEPT !.pc = pc]
  BY JobFields DEF Goto, JobOf, TypeOK
<1> QED BY <1>1 DEF Drives, JobOf, Job, NoJob

\* A job that is queued again, and a status check, drive their row.
LEMMA RequeueDrives ==
  ASSUME TypeOK, NEW t \in Txs, NEW j \in Slots, JobOf(j, t), CanRequeue(j), job'[j] = Requeued(j)
  PROVE  Drives(j, t)'
BY RequeuedType, JobFields DEF Requeued, Drives, JobOf, Job

\* The job that ends by queueing its status check hands its row over to that.
LEMMA CheckDrives ==
  ASSUME TypeOK, NEW t \in Txs, NEW j \in Slots, JobOf(j, t), EndWithCheck(j)
  PROVE  \E k \in Slots : Drives(k, t)'
<1>1. job[j].tx = t /\ CheckJob(job[j].tx, job[j].signed) # NoJob
  BY JobFields, NewJobs DEF JobOf
<1>2. CASE job' = [job EXCEPT ![j] = CheckJob(job[j].tx, job[j].signed)]
  BY <1>1, <1>2 DEF Drives, CheckJob, TypeOK
<1>3. CASE /\ Free # {}
           /\ job' = [job EXCEPT ![j] = Requeued(j),
                                 ![FreeSlot] = CheckJob(job[j].tx, job[j].signed)]
  BY <1>1, <1>3, SlotIsFree DEF Drives, CheckJob, TypeOK
<1> QED BY <1>2, <1>3 DEF EndWithCheck

\* The worker: a job leaves its row settled, marked, or to another job.
LEMMA DrivenWork ==
  ASSUME TypeOK, [Next]_vars, NEW t \in Txs, DrivenInv(t), NEW j \in Slots, Work(j) \/ Stall(j)
  PROVE  DrivenInv(t)'
<1>0. call' = call
  BY DEF Work, Take, WorkerMark, WorkerSend, WorkerSave, WorkerQueueCheck, WorkerFail,
         WorkerPoll, WorkerSettle, WorkerReceipt, Stall
<1>1. job[j] # NoJob
  BY AtIsJob DEF Work, Take, WorkerMark, WorkerSend, WorkerSave, WorkerQueueCheck, WorkerFail,
                 WorkerPoll, WorkerSettle, WorkerReceipt, Stall
<1>2. job[j].tx \in Txs /\ job[j].signed \in Signed
  BY <1>1, JobFields
<1>3. CASE job[j].tx # t
  <2>1. tx'[t] = tx[t]
    BY <1>2, <1>3 DEF Work, Take, WorkerMark, WorkerSend, WorkerSave, WorkerQueueCheck,
       WorkerFail, WorkerPoll, WorkerSettle, WorkerReceipt, Stall, SetStatus, TypeOK
  <2>2. \A k \in Slots : Drives(k, t) => job'[k] = job[k]
    BY <1>3, OtherWork DEF Drives
  <2> QED BY <1>0, <2>1, <2>2, DrivenKept DEF CallOf
<1>4. CASE job[j].tx = t
  <2>0. JobOf(j, t)
    BY <1>1, <1>4 DEF JobOf
  <2>1. CASE tx' = tx /\ \E k \in Slots : Drives(k, t)'
    BY <2>1 DEF DrivenInv, Driven, JobDrives
  <2>2. CASE tx' = tx /\ \E fault \in FaultKinds : Struck(t, fault, "dropped")
    BY <2>2, DroppedMarks DEF DrivenInv
  <2>3. CASE Take(j)
    <3>1. Drives(j, t)'
      BY <2>0, <2>3, GotoDrives DEF Take
    <3> QED BY <2>1, <2>3, <3>1 DEF Take
  <2>4. CASE WorkerMark(j)
    <3>1. CASE SetStatus(t, "PROCESSING") /\ Goto(j, "send")
      <4>1. tx'[t].status = "PROCESSING"
        BY <3>1 DEF SetStatus, TypeOK
      <4> QED BY <2>0, <3>1, <4>1, GotoDrives, DrivenByJob
    <3> QED BY <1>4, <2>2, <2>4, <3>1 DEF WorkerMark, EndStruck, FaultKinds
  <2>5. CASE WorkerSend(j)
    <3>1. Drives(j, t)'
      BY <2>0, <2>5, GotoDrives DEF WorkerSend
    <3> QED BY <2>1, <2>5, <3>1 DEF WorkerSend
  <2>6. CASE WorkerSave(j)
    <3>1. Drives(j, t)'
      BY <2>0, <2>6, GotoDrives DEF WorkerSave
    <3>2. CASE tx' # tx
      <4>1. tx'[t].status = "PROCESSING"
        BY <1>4, <2>6, <3>2 DEF WorkerSave, TypeOK
      <4> QED BY <3>1, <4>1, DrivenByJob
    <3> QED BY <2>1, <3>1, <3>2
  <2>7. CASE WorkerQueueCheck(j)
    <3>1. \E k \in Slots : Drives(k, t)'
      <4>1. CASE EndWithCheck(j)
        BY <2>0, <4>1, CheckDrives
      <4>2. CASE Goto(j, "fail")
        BY <2>0, <4>2, GotoDrives
      <4>3. CASE /\ Free # {}
                 /\ job' = [job EXCEPT ![j].pc = "fail",
                                       ![FreeSlot] = CheckJob(job[j].tx, job[j].signed)]
        <5>1. FreeSlot \in Slots /\ job'[FreeSlot] = CheckJob(t, job[j].signed)
          BY <1>4, <4>3, SlotIsFree DEF TypeOK
        <5> QED BY <1>2, <1>4, <5>1, NewJobs DEF Drives, CheckJob
      <4> QED BY <2>7, <4>1, <4>2, <4>3 DEF WorkerQueueCheck
    <3> QED BY <2>1, <2>7, <3>1 DEF WorkerQueueCheck
  <2>8. CASE WorkerFail(j)
    <3>1. CASE SetStatus(t, "FAILED")
      BY <3>1 DEF SetStatus, DrivenInv, TypeOK
    <3> QED BY <1>4, <2>2, <2>8, <3>1 DEF WorkerFail, EndStruck, FaultKinds
  <2>9. CASE WorkerPoll(j)
    <3>1. CASE Goto(j, "settle")
      BY <2>0, <2>1, <2>9, <3>1, GotoDrives DEF WorkerPoll
    <3>2. CASE EndWithCheck(j)
      BY <2>0, <2>1, <2>9, <3>2, CheckDrives DEF WorkerPoll
    <3> QED BY <1>4, <2>2, <2>9, <3>1, <3>2 DEF WorkerPoll, EndStruck, FaultKinds
  <2>10. CASE WorkerSettle(j)
    <3>1. CASE SetStatus(t, Verdict(job[j].signed))
      BY <3>1 DEF SetStatus, Verdict, DrivenInv, TypeOK
    <3> QED BY <1>4, <2>2, <2>10, <3>1 DEF WorkerSettle, EndStruck, FaultKinds
  <2>11. CASE WorkerReceipt(j)
    <3>1. \A k \in Slots : Drives(k, t) => job'[k] = job[k]
      BY <2>11, OtherWork DEF Work, WorkerReceipt, At, Drives
    <3> QED BY <1>0, <2>11, <3>1, DrivenKept DEF WorkerReceipt, CallOf
  <2>12. CASE Stall(j)
    <3>1. CASE CanRequeue(j)
      <4>1. job'[j] = Requeued(j)
        BY <2>12, <3>1 DEF Stall, TypeOK
      <4> QED BY <2>0, <2>1, <2>12, <3>1, <4>1, RequeueDrives DEF Stall
    <3> QED BY <1>4, <2>2, <2>12, <3>1 DEF Stall, FaultKinds
  <2> QED BY <2>3, <2>4, <2>5, <2>6, <2>7, <2>8, <2>9, <2>10, <2>11, <2>12 DEF Work
<1> QED BY <1>3, <1>4

\* A row in PROCESSING is never left alone, but by a fault the code has no answer to.
THEOREM RowsAreDriven == Spec => []ProcessingIsDriven
<1> DEFINE DInv == TypeOK /\ \A t \in Txs : DrivenInv(t)
<1>1. Init => DInv
  <2>1. Init => \A t \in Txs : DrivenInv(t)
    BY DEF Init, DrivenInv
  <2> QED BY <2>1, TypeInit
<1>2. DInv /\ [Next]_vars => DInv'
  <2> SUFFICES ASSUME DInv, [Next]_vars, NEW t \in Txs PROVE DrivenInv(t)'
    BY TypeStep
  <2>1. CASE UNCHANGED vars \/ \E s \in Signed : ChainDecides(s)
    BY <2>1, DrivenKept DEF vars, ChainDecides, CallOf
  <2> QED BY <2>1, DrivenRows, DrivenCalls, DrivenWork DEF Next
<1>3. DInv => ProcessingIsDriven
  BY DEF DrivenInv, ProcessingIsDriven
<1> QED BY <1>1, <1>2, <1>3, PTL DEF Spec

=============================================================================
