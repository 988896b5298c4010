----------------------- MODULE RampLifecycle_proofs -----------------------
(***************************************************************************)
(* Proofs about RampLifecycle, for any number of rows, webhook deliveries, *)
(* amounts and attempts, and whatever faults strike.                       *)
(***************************************************************************)
EXTENDS RampLifecycle, TLAPS

\* A status x may be written of a transaction the provider gives the status s.
Backs(s, x) ==
  /\ x = "PROCESSING" => s \in Statuses \ {"PENDING"}
  /\ x = "COMPLETED" => s = "COMPLETED"

-----------------------------------------------------------------------------
(* The providers' words.                                                   *)

\* Every word is read as one of the four statuses.
LEMMA StatusType == \A table, word : StatusOf(table, word) \in Statuses
  BY DEF StatusOf, Statuses

\* A word is read as a status that lists it, or as PENDING.
LEMMA StatusListed ==
  ASSUME NEW table, NEW word
  PROVE  \/ word \in table[StatusOf(table, word)]
         \/ ~Lists(table, word) /\ StatusOf(table, word) = "PENDING"
  BY DEF StatusOf, Lists

\* No payout word is listed under two statuses, so each is read as its own.
LEMMA PayoutWords ==
  ASSUME NEW s \in Statuses, NEW w
  PROVE  /\ w \in PAYOUT_STATUS_MAP[s] => StatusOf(PAYOUT_STATUS_MAP, w) = s
         /\ w \in {"absent", "unlisted"} => StatusOf(PAYOUT_STATUS_MAP, w) = "PENDING"
<1> DEFINE x == StatusOf(PAYOUT_STATUS_MAP, w)
<1>1. x \in Statuses /\ (w \in PAYOUT_STATUS_MAP[x] \/ (~Lists(PAYOUT_STATUS_MAP, w) /\ x = "PENDING"))
  BY StatusType, StatusListed
<1> HIDE DEF x
<1>2. w \in PAYOUT_STATUS_MAP[s] => x = s
  BY <1>1 DEF PAYOUT_STATUS_MAP, Statuses, Lists
<1>3. w \in {"absent", "unlisted"} => x = "PENDING"
  BY <1>1 DEF PAYOUT_STATUS_MAP, Statuses, Lists
<1> QED BY <1>2, <1>3 DEF x

\* The same of Yellow Card's words.
LEMMA YellowCardWords ==
  ASSUME NEW s \in Statuses, NEW w
  PROVE  /\ w \in STATUS_MAP[s] => StatusOf(STATUS_MAP, w) = s
         /\ w \in {"absent", "unlisted"} => StatusOf(STATUS_MAP, w) = "PENDING"
<1> DEFINE x == StatusOf(STATUS_MAP, w)
<1>1. x \in Statuses /\ (w \in STATUS_MAP[x] \/ (~Lists(STATUS_MAP, w) /\ x = "PENDING"))
  BY StatusType, StatusListed
<1> HIDE DEF x
<1>2. w \in STATUS_MAP[s] => x = s
  BY <1>1 DEF STATUS_MAP, Statuses, Lists
<1>3. w \in {"absent", "unlisted"} => x = "PENDING"
  BY <1>1 DEF STATUS_MAP, Statuses, Lists
<1> QED BY <1>2, <1>3 DEF x

\* The name of a Bitnob event decides, and no name is in two lists.
LEMMA EventNames ==
  ASSUME NEW s \in Statuses, NEW e, NEW w
  PROVE  /\ e \in PAYOUT_EVENT_MAP[s] => ParseBitnob(e, w) = s
         /\ e \in DEPOSIT_EVENT_MAP[s] => ParseBitnob(e, w) = s
         /\ e = "unlisted" => ParseBitnob(e, w) = StatusOf(PAYOUT_STATUS_MAP, w)
<1>1. ASSUME e \in PAYOUT_EVENT_MAP[s] PROVE ParseBitnob(e, w) = s
  <2> DEFINE x == StatusOf(PAYOUT_EVENT_MAP, e)
  <2>1. Lists(PAYOUT_EVENT_MAP, e)
    BY <1>1 DEF Lists
  <2>2. x \in Statuses /\ e \in PAYOUT_EVENT_MAP[x]
    BY <2>1, StatusType, StatusListed
  <2> HIDE DEF x
  <2>3. x = s
    BY <1>1, <2>2 DEF PAYOUT_EVENT_MAP, Statuses
  <2> QED BY <2>1, <2>3 DEF ParseBitnob, x
<1>2. ASSUME e \in DEPOSIT_EVENT_MAP[s] PROVE ParseBitnob(e, w) = s
  <2> DEFINE x == StatusOf(DEPOSIT_EVENT_MAP, e)
  <2>1. Lists(DEPOSIT_EVENT_MAP, e)
    BY <1>2 DEF Lists
  <2>2. ~Lists(PAYOUT_EVENT_MAP, e)
    BY <1>2 DEF Lists, PAYOUT_EVENT_MAP, DEPOSIT_EVENT_MAP, Statuses
  <2>3. x \in Statuses /\ e \in DEPOSIT_EVENT_MAP[x]
    BY <2>1, StatusType, StatusListed
  <2> HIDE DEF x
  <2>4. x = s
    BY <1>2, <2>3 DEF DEPOSIT_EVENT_MAP, Statuses
  <2> QED BY <2>1, <2>2, <2>4 DEF ParseBitnob, x
<1>3. ASSUME e = "unlisted" PROVE ParseBitnob(e, w) = StatusOf(PAYOUT_STATUS_MAP, w)
  <2>1. ~Lists(PAYOUT_EVENT_MAP, e) /\ ~Lists(DEPOSIT_EVENT_MAP, e)
    BY <1>3 DEF Lists, PAYOUT_EVENT_MAP, DEPOSIT_EVENT_MAP, Statuses
  <2> QED BY <2>1 DEF ParseBitnob
<1> QED BY <1>1, <1>2, <1>3

\* An instruction or a look-up brings only a status the provider's own one backs.
LEMMA ReportedBacked ==
  ASSUME NEW p, NEW t, NEW s \in Statuses, NEW x \in Reported(p, t, s)
  PROVE  x \in Statuses /\ Backs(s, x)
<1>1. x = s \/ x = "PENDING"
  BY PayoutWords, YellowCardWords DEF Reported, BitnobReports, YellowCardReports
<1> QED BY <1>1 DEF Statuses, Backs

\* And so does an event that is no guess, whatever outcome it carries.
LEMMA AnnouncedBacked ==
  ASSUME NEW p, NEW t, NEW s \in Statuses, NEW a \in Announced(p, t, s)
  PROVE  a.status \in Statuses /\ (a.guess \/ Backs(s, a.status))
<1>1. CASE p = "bitnob"
  <2>1. a \in BitnobAnnounces(t, s)
    BY <1>1 DEF Announced
  <2>2. CASE a.status \in BitnobGuesses /\ a.guess = TRUE
    BY <2>2 DEF BitnobGuesses
  <2>3. CASE a.status \in BitnobNames(t, s)
    <3>1. PICK e \in (IF t = "DEPOSIT" THEN DEPOSIT_EVENT_MAP ELSE PAYOUT_EVENT_MAP)[s], o \in Outcomes :
            a.status = ParseBitnob(e, o)
      BY <2>3 DEF BitnobNames
    <3>2. e \in PAYOUT_EVENT_MAP[s] \/ e \in DEPOSIT_EVENT_MAP[s]
      BY <3>1
    <3> QED BY <3>1, <3>2, EventNames DEF Statuses, Backs
  <2> QED BY <2>1, <2>2, <2>3 DEF BitnobAnnounces
<1>2. CASE p # "bitnob"
  <2>0. a \in YellowCardAnnounces(s)
    BY <1>2 DEF Announced
  <2>1. PICK w \in STATUS_MAP[s], v \in STATUS_MAP[s] \cup {"absent", "unlisted"} : a.status = ParseYellowCard(w, v)
    BY <2>0, SMT DEF YellowCardAnnounces
  <2>2. a.status = s \/ a.status = "PENDING"
    BY <2>1, YellowCardWords DEF ParseYellowCard
  <2> QED BY <2>2 DEF Statuses, Backs
<1> QED BY <1>1, <1>2

-----------------------------------------------------------------------------
(* The invariant.  The properties speak of what is written; what matters   *)
(* is that nothing on its way to a write - an event, a handler's, a job's  *)
(* or a request's decision - is ahead of the provider or of its own view.  *)

Busy(h) == hook[h].pc # "idle"

\* The status x may be shown of row r: the provider has reached it, or was guessed to.
Vouched(r, x) == Backs(says[r], x) \/ <<r, x>> \in guessed

\* What is on its way to row r, and what its writers have seen of it.
RowInv(r) ==
  /\ maker[r].pc \in {"none", "customer", "call"} => says[r] = None
  /\ maker[r].pc = "none" => row[r] = None
  /\ row[r] # None => Vouched(r, row[r])
  /\ maker[r].pc = "record" => Backs(says[r], maker[r].next)
  /\ job[r].pc \in {"ask", "write"} => job[r].view \notin Terminal
  /\ job[r].pc = "write" => Backs(says[r], job[r].next) /\ RANK[job[r].view] < RANK[job[r].next]

\* The event of a handler at work was sent, recorded and not yet applied.
HookInv(h) ==
  /\ Busy(h) => /\ hook[h].ev \in sent
                /\ Key(hook[h].ev) \in recorded \ applied
  /\ hook[h].pc = "update" => RANK[hook[h].view] < RANK[hook[h].ev.status]

\* No two handlers are at work on one event id.
HooksApart == \A h, k \in Hooks : Busy(h) /\ Busy(k) /\ Key(hook[h].ev) = Key(hook[k].ev) => h = k

EventsBacked == \A ev \in sent : Vouched(ev.ref, ev.status)

IInv ==
  /\ TypeOK
  /\ \A r \in Rows : RowInv(r)
  /\ \A h \in Hooks : HookInv(h)
  /\ HooksApart
  /\ EventsBacked

-----------------------------------------------------------------------------
(* Types.                                                                  *)

Words == Statuses \cup {"absent"}

\* What the pieces of a well-typed state hold.
LEMMA PieceTypes ==
  ASSUME TypeOK
  PROVE  /\ \A r \in Rows : /\ maker[r] \in Maker /\ job[r] \in Job
                            /\ row[r] \in Statuses \cup {None} /\ says[r] \in Statuses \cup {None}
                            /\ maker[r].pc = "record" => maker[r].next \in Statuses
                            /\ job[r].pc \in {"queued", "ask", "write"} => job[r].left \in 1..Attempts
                            /\ job[r].pc \in {"ask", "write"} => job[r].view \in Statuses
                            /\ job[r].pc = "write" => job[r].next \in Statuses
         /\ \A h \in Hooks : /\ hook[h] \in Hook
                             /\ Busy(h) => hook[h].ev \in Event
                             /\ hook[h].pc = "update" => hook[h].view \in Statuses
         /\ \A ev \in Event : /\ ev.ref \in Rows /\ ev.status \in Statuses /\ ev.id \in Words
                              /\ Key(ev) \in Rows \X Words
<1>1. \A r \in Rows : /\ maker[r] \in Maker /\ job[r] \in Job
                      /\ row[r] \in Statuses \cup {None} /\ says[r] \in Statuses \cup {None}
  BY DEF TypeOK
<1>2. \A r \in Rows : maker[r].pc = "record" => maker[r].next \in Statuses
  BY <1>1 DEF Maker
<1>3. \A r \in Rows : /\ job[r].pc \in {"queued", "ask", "write"} => job[r].left \in 1..Attempts
                      /\ job[r].pc \in {"ask", "write"} => job[r].view \in Statuses
                      /\ job[r].pc = "write" => job[r].next \in Statuses
  BY <1>1 DEF Job
<1>4. \A h \in Hooks : /\ hook[h] \in Hook
                       /\ Busy(h) => hook[h].ev \in Event
                       /\ hook[h].pc = "update" => hook[h].view \in Statuses
  BY DEF TypeOK, Hook, Busy
<1>5. \A ev \in Event : /\ ev.ref \in Rows /\ ev.status \in Statuses /\ ev.id \in Words
                        /\ Key(ev) \in Rows \X Words
  BY DEF Event, Key, Words
<1> QED BY <1>1, <1>2, <1>3, <1>4, <1>5

\* A write keeps the type of the rows.
LEMMA WriteType ==
  ASSUME TypeOK, NEW r \in Rows, NEW s \in Statuses, Write(r, s)
  PROVE  row' \in [Rows -> Statuses \cup {None}]
  BY DEF TypeOK, Write

\* And of the history.
LEMMA LoseType ==
  ASSUME TypeOK, NEW r \in Rows, NEW lost, Lose(r, lost)
  PROVE  loss' \subseteq Rows
  BY DEF TypeOK, Lose

\* An event the provider sends is backed by its status, or noted as a guess.
LEMMA SendEvent ==
  ASSUME TypeOK, NEW r \in Rows, NEW t, NEW s \in Statuses, Send(r, t, s)
  PROVE  /\ sent' \subseteq Event
         /\ \A ev \in sent' : ev \in sent \/ (ev.ref = r /\ (Backs(s, ev.status) \/ <<r, ev.status>> \in guessed'))
         /\ sent \subseteq sent'
         /\ guessed \subseteq guessed' /\ guessed' \subseteq Rows \X Statuses
         /\ loss' \subseteq Rows
<1>1. PICK a \in Announced(provider, t, s) :
        /\ sent' = sent \cup {[ref |-> r, status |-> a.status, id |-> EventId(provider, s)]}
        /\ IF a.guess /\ a.status # s THEN guessed' = guessed \cup {<<r, a.status>>} ELSE UNCHANGED guessed
        /\ Lose(r, a.status # s \/ <<r, EventId(provider, s)>> \in recorded)
  BY DEF Send
<1>2. a.status \in Statuses /\ (a.guess \/ Backs(s, a.status)) /\ Backs(s, s)
  BY AnnouncedBacked DEF Backs, Statuses
<1>3. [ref |-> r, status |-> a.status, id |-> EventId(provider, s)] \in Event
  BY <1>2 DEF Event, EventId
<1>4. sent \subseteq Event /\ guessed \subseteq Rows \X Statuses
  BY DEF TypeOK
<1>5. Backs(s, a.status) \/ <<r, a.status>> \in guessed'
  BY <1>1, <1>2
<1>6. guessed \subseteq guessed' /\ guessed' \subseteq Rows \X Statuses
  BY <1>1, <1>2, <1>4
<1> QED BY <1>1, <1>3, <1>4, <1>5, <1>6, LoseType

\* The states a request and a job can be put into.
LEMMA ControlTypes ==
  /\ \A pc \in {"none", "customer", "call", "enqueue", "mark", "made", "refused", "dead"} : [pc |-> pc] \in Maker
  /\ \A s \in Statuses : [pc |-> "record", next |-> s] \in Maker
  /\ Done \in Job
  /\ \A n \in 1..Attempts : [pc |-> "queued", left |-> n] \in Job
  /\ \A n \in 1..Attempts, v \in Statuses : [pc |-> "ask", left |-> n, view |-> v] \in Job
  /\ \A n \in 1..Attempts, v, s \in Statuses : [pc |-> "write", left |-> n, view |-> v, next |-> s] \in Job
  BY DEF Maker, Job, Done

\* The steps of a row that neither the provider nor a webhook is part of.
OwnStep(r) ==
  \/ Start(r) \/ MakeCustomer(r) \/ RecordInstruction(r) \/ QueueReconcile(r) \/ MarkFailed(r)
  \/ MakerDies(r) \/ Delete(r)
  \/ JobRead(r) \/ JobThrows(r) \/ JobAsk(r) \/ JobWrite(r) \/ JobStalls(r)

\* No such step is a guess.
LEMMA OwnStepGuessesNot ==
  ASSUME NEW r, OwnStep(r)
  PROVE  guessed' = guessed
<1>1. CASE Start(r) \/ MakeCustomer(r) \/ RecordInstruction(r) \/ QueueReconcile(r) \/ MarkFailed(r)
  BY <1>1 DEF Start, MakeCustomer, RecordInstruction, QueueReconcile, MarkFailed
<1>2. CASE MakerDies(r) \/ Delete(r) \/ JobRead(r) \/ JobThrows(r) \/ JobAsk(r) \/ JobWrite(r) \/ JobStalls(r)
  BY <1>2 DEF MakerDies, Delete, JobRead, JobThrows, JobAsk, JobWrite, JobStalls
<1> QED BY <1>1, <1>2 DEF OwnStep

\* What such a step does to its row: its types, and that it decides on nothing ahead of
\* the provider or of its view of the row.
LEMMA OwnStepOnRow ==
  ASSUME IInv, NEW r \in Rows, OwnStep(r)
  PROVE  /\ row' \in [Rows -> Statuses \cup {None}]
         /\ input' \in [Rows -> Input \cup {None}]
         /\ maker' \in [Rows -> Maker]
         /\ job' \in [Rows -> Job]
         /\ loss' \subseteq Rows
         /\ RowInv(r)'
<1>0. TypeOK /\ RowInv(r) /\ guessed' = guessed
  BY OwnStepGuessesNot DEF IInv
<1> USE PieceTypes, RampAssumption DEF Vouched
<1>1. CASE Start(r)
  <2>1. says' = says /\ job' = job /\ loss' = loss /\ maker[r].pc = "none" /\ says[r] = None /\ row[r] = None
    BY <1>0, <1>1 DEF Start, RowInv
  <2>2. CASE \E t \in Types, a \in Amounts :
               /\ row' = [row EXCEPT ![r] = "PENDING"]
               /\ input' = [input EXCEPT ![r] = [type |-> t, amount |-> a]]
               /\ Make(r, [pc |-> "customer"])
    <3>1. "PENDING" \in Statuses
      BY DEF Statuses
    <3>2. maker' \in [Rows -> Maker] /\ maker'[r] = [pc |-> "customer"]
      BY <1>0, <2>2, ControlTypes DEF Make, TypeOK
    <3>3. row' \in [Rows -> Statuses \cup {None}] /\ row'[r] = "PENDING"
      BY <1>0, <2>2, <3>1 DEF TypeOK
    <3>4. input' \in [Rows -> Input \cup {None}]
      BY <1>0, <2>2 DEF TypeOK, Input
    <3> QED BY <1>0, <2>1, <3>2, <3>3, <3>4 DEF TypeOK, RowInv, Backs
  <2>3. CASE Make(r, [pc |-> "refused"]) /\ UNCHANGED <<row, input>>
    <3>1. maker' \in [Rows -> Maker] /\ maker'[r] = [pc |-> "refused"]
      BY <1>0, <2>3, ControlTypes DEF Make, TypeOK
    <3> QED BY <1>0, <2>1, <2>3, <3>1 DEF TypeOK, RowInv
  <2> QED BY <1>1, <2>2, <2>3 DEF Start
<1>2. CASE MakeCustomer(r)
  <2>1. maker' \in [Rows -> Maker] /\ maker[r].pc = "customer" /\ maker'[r].pc \in {"call", "mark"}
    BY <1>0, <1>2, ControlTypes DEF MakeCustomer, Make, TypeOK
  <2>2. UNCHANGED <<row, input, job, says, loss>>
    BY <1>2 DEF MakeCustomer
  <2> QED BY <1>0, <2>1, <2>2 DEF TypeOK, RowInv
<1>3. CASE RecordInstruction(r)
  <2>1. UNCHANGED <<input, job, says>> /\ maker[r].pc = "record" /\ maker[r].next \in Statuses
    BY <1>0, <1>3 DEF RecordInstruction
  <2>2. maker' \in [Rows -> Maker] /\ maker'[r].pc \in {"mark", "enqueue"}
    <3>1. Make(r, [pc |-> "mark"]) \/ Make(r, [pc |-> "enqueue"])
      BY <1>3 DEF RecordInstruction
    <3>2. [pc |-> "mark"] \in Maker /\ [pc |-> "enqueue"] \in Maker
      BY ControlTypes
    <3>3. maker \in [Rows -> Maker]
      BY <1>0 DEF TypeOK
    <3>4. CASE Make(r, [pc |-> "mark"])
      BY <3>2, <3>3, <3>4 DEF Make
    <3>5. CASE Make(r, [pc |-> "enqueue"])
      BY <3>2, <3>3, <3>5 DEF Make
    <3> QED BY <3>1, <3>4, <3>5
  <2>3. row' \in [Rows -> Statuses \cup {None}] /\ row'[r] \in {row[r], maker[r].next} /\ loss' \subseteq Rows
    BY <1>0, <1>3, <2>1, WriteType, LoseType DEF RecordInstruction, Write, TypeOK
  <2> QED BY <1>0, <2>1, <2>2, <2>3 DEF TypeOK, RowInv
<1>4. CASE QueueReconcile(r)
  <2>1. UNCHANGED <<input, row, says, loss>> /\ maker[r].pc = "enqueue"
    BY <1>4 DEF QueueReconcile
  <2>2. maker' \in [Rows -> Maker] /\ maker'[r].pc \in {"mark", "made"}
    BY <1>0, <1>4, ControlTypes DEF QueueReconcile, Make, TypeOK
  <2>3. job' \in [Rows -> Job] /\ (job'[r] = job[r] \/ job'[r].pc = "queued")
    BY <1>0, <1>4, ControlTypes DEF QueueReconcile, TypeOK
  <2> QED BY <1>0, <2>1, <2>2, <2>3 DEF TypeOK, RowInv
<1>5. CASE MarkFailed(r)
  <2>0. "FAILED" \in Statuses
    BY DEF Statuses
  <2>1. UNCHANGED <<input, job, says>> /\ maker[r].pc = "mark"
    BY <1>5 DEF MarkFailed
  <2>2. maker' \in [Rows -> Maker] /\ maker'[r].pc = "refused"
    BY <1>0, <1>5, ControlTypes DEF MarkFailed, Make, TypeOK
  <2>3. row' \in [Rows -> Statuses \cup {None}] /\ row'[r] \in {row[r], "FAILED"} /\ loss' \subseteq Rows
    BY <1>0, <1>5, <2>0, WriteType, LoseType DEF MarkFailed, Write, TypeOK
  <2> QED BY <1>0, <2>1, <2>2, <2>3 DEF TypeOK, RowInv, Backs
<1>6. CASE MakerDies(r)
  <2>1. UNCHANGED <<row, input, job, says, loss>> /\ maker[r].pc # "none"
    BY <1>6 DEF MakerDies
  <2>2. maker' \in [Rows -> Maker] /\ maker'[r].pc = "dead"
    BY <1>0, <1>6, ControlTypes DEF MakerDies, Make, TypeOK
  <2> QED BY <1>0, <2>1, <2>2 DEF TypeOK, RowInv
<1>7. CASE Delete(r)
  <2>1. UNCHANGED <<input, maker, job, says, loss>> /\ row' = [row EXCEPT ![r] = None]
    BY <1>7 DEF Delete
  <2> QED BY <1>0, <2>1 DEF TypeOK, RowInv
<1>8. CASE JobRead(r)
  <2>1. UNCHANGED <<row, input, maker, says, loss>> /\ job[r].pc = "queued"
    BY <1>8 DEF JobRead
  <2>2. job' \in [Rows -> Job] /\ job'[r] = (IF row[r] \in Terminal \cup {None} THEN Done
                                            ELSE [pc |-> "ask", left |-> job[r].left, view |-> row[r]])
    BY <1>0, <1>8, ControlTypes DEF JobRead, SetJob, TypeOK
  <2> QED BY <1>0, <2>1, <2>2 DEF TypeOK, RowInv, Done
<1>9. CASE JobThrows(r)
  <2>1. UNCHANGED <<row, input, maker, says, loss>> /\ job[r].pc = "queued"
    BY <1>9 DEF JobThrows
  <2>2. job[r].left # 1 => [job[r] EXCEPT !.left = @ - 1] = [pc |-> "queued", left |-> job[r].left - 1]
    BY <1>0, <2>1 DEF Job
  <2>3. job[r].left # 1 => job[r].left - 1 \in 1..Attempts
    BY <1>0, <2>1
  <2>4. job' \in [Rows -> Job] /\ job'[r].pc \in {"queued", "done"}
    BY <1>0, <1>9, <2>2, <2>3, ControlTypes DEF JobThrows, SetJob, TypeOK, Done
  <2> QED BY <1>0, <2>1, <2>4 DEF TypeOK, RowInv
<1>10. CASE JobAsk(r)
  <2>1. UNCHANGED <<row, input, maker, says, loss>> /\ job[r].pc = "ask"
    BY <1>10 DEF JobAsk
  <2>2. CASE job' = [job EXCEPT ![r] = Done]
    BY <1>0, <2>1, <2>2, ControlTypes DEF TypeOK, RowInv, Done
  <2>3. ASSUME NEW s \in Decisions(r),
               job' = [job EXCEPT ![r] = [pc |-> "write", left |-> job[r].left, view |-> job[r].view, next |-> s]]
        PROVE  job' \in [Rows -> Job] /\ RowInv(r)'
    <3>1. s \in Statuses /\ Backs(says[r], s) /\ RANK[job[r].view] < RANK[s]
      <4>1. CASE s = "FAILED"
        <5>1. job[r].view \in {"PENDING", "PROCESSING"}
          BY <1>0, <2>1 DEF RowInv, Terminal, Statuses
        <5> QED BY <4>1, <5>1 DEF Backs, RANK, Statuses
      <4>2. CASE s # "FAILED"
        <5>1. ~Unknown(r) /\ s \in Reported(provider, input[r].type, says[r]) /\ RANK[s] > RANK[job[r].view]
          BY <4>2 DEF Decisions
        <5>2. says[r] \in Statuses
          BY <1>0, <5>1 DEF Unknown
        <5>3. s \in Statuses /\ Backs(says[r], s)
          BY <5>1, <5>2, ReportedBacked
        <5>4. RANK[job[r].view] \in Nat /\ RANK[s] \in Nat
          BY <1>0, <2>1, <5>3 DEF RANK, Statuses
        <5> QED BY <5>1, <5>3, <5>4
      <4> QED BY <4>1, <4>2
    <3>2. job' \in [Rows -> Job]
      BY <1>0, <2>1, <2>3, <3>1, ControlTypes DEF TypeOK
    <3>3. job'[r] = [pc |-> "write", left |-> job[r].left, view |-> job[r].view, next |-> s]
      BY <1>0, <2>3 DEF TypeOK
    <3> QED BY <1>0, <2>1, <3>1, <3>2, <3>3 DEF RowInv
  <2> QED BY <1>0, <1>10, <2>1, <2>2, <2>3 DEF JobAsk, SetJob, TypeOK
<1>11. CASE JobWrite(r)
  <2>1. UNCHANGED <<input, maker, says>> /\ job[r].pc = "write" /\ job[r].next \in Statuses
    BY <1>0, <1>11 DEF JobWrite
  <2>2. job' \in [Rows -> Job] /\ job'[r] = Done
    BY <1>0, <1>11, ControlTypes DEF JobWrite, SetJob, TypeOK
  <2>3. row' \in [Rows -> Statuses \cup {None}] /\ row'[r] \in {row[r], job[r].next} /\ loss' \subseteq Rows
        /\ (row[r] = None => row'[r] = None)
    BY <1>0, <1>11, <2>1, WriteType, LoseType DEF JobWrite, Write, TypeOK
  <2> QED BY <1>0, <2>1, <2>2, <2>3 DEF TypeOK, RowInv, Done
<1>12. CASE JobStalls(r)
  <2>1. UNCHANGED <<row, input, maker, says, loss>> /\ job[r].pc \in {"ask", "write"}
    BY <1>12 DEF JobStalls
  <2>2. job[r].left # 1 => job[r].left - 1 \in 1..Attempts
    BY <1>0, <2>1
  <2>3. job' \in [Rows -> Job] /\ job'[r].pc \in {"queued", "done"}
    BY <1>0, <1>12, <2>1, <2>2, ControlTypes DEF JobStalls, SetJob, TypeOK, Done
  <2> QED BY <1>0, <2>1, <2>3 DEF TypeOK, RowInv
<1> QED BY <1>1, <1>2, <1>3, <1>4, <1>5, <1>6, <1>7, <1>8, <1>9, <1>10, <1>11, <1>12 DEF OwnStep

\* A step on row r leaves every other row, its request and its job alone.
LEMMA OwnStepFrame ==
  ASSUME TypeOK, NEW r \in Rows, OwnStep(r)
  PROVE  /\ UNCHANGED <<provider, says, sent, recorded, hook, applied, guessed>>
         /\ \A q \in Rows : q # r => row'[q] = row[q] /\ maker'[q] = maker[q] /\ job'[q] = job[q]
<1>1. CASE Start(r) \/ MakeCustomer(r) \/ RecordInstruction(r)
  BY <1>1 DEF Start, MakeCustomer, RecordInstruction, Make, Write, TypeOK
<1>2. CASE QueueReconcile(r) \/ MarkFailed(r) \/ MakerDies(r) \/ Delete(r)
  BY <1>2 DEF QueueReconcile, MarkFailed, MakerDies, Delete, Make, Write, TypeOK
<1>3. CASE JobRead(r) \/ JobThrows(r) \/ JobAsk(r)
  BY <1>3 DEF JobRead, JobThrows, JobAsk, SetJob, TypeOK
<1>4. CASE JobWrite(r) \/ JobStalls(r)
  BY <1>4 DEF JobWrite, JobStalls, SetJob, Write, TypeOK
<1> QED BY <1>1, <1>2, <1>3, <1>4 DEF OwnStep

\* Such steps keep the invariant.
LEMMA OwnStepKeeps ==
  ASSUME IInv, NEW r \in Rows, OwnStep(r)
  PROVE  IInv'
<1>0. TypeOK /\ (\A q \in Rows : RowInv(q)) /\ (\A h \in Hooks : HookInv(h)) /\ HooksApart /\ EventsBacked
  BY DEF IInv
<1>1. /\ UNCHANGED <<provider, says, sent, recorded, hook, applied, guessed>>
      /\ \A q \in Rows : q # r => row'[q] = row[q] /\ maker'[q] = maker[q] /\ job'[q] = job[q]
  BY <1>0, OwnStepFrame
<1>2. TypeOK'
  BY <1>0, <1>1, OwnStepOnRow DEF TypeOK
<1>3. ASSUME NEW q \in Rows PROVE RowInv(q)'
  <2>1. CASE q = r
    BY <2>1, OwnStepOnRow
  <2>2. CASE q # r
    BY <1>0, <1>1, <2>2 DEF RowInv, Vouched
  <2> QED BY <2>1, <2>2
<1>4. (\A h \in Hooks : HookInv(h))' /\ HooksApart' /\ EventsBacked'
  BY <1>0, <1>1 DEF HookInv, HooksApart, EventsBacked, Vouched, Busy
<1> QED BY <1>2, <1>3, <1>4 DEF IInv

\* The provider's transaction takes the status s, and no earlier one, or stays; an
\* event announces s, or none is sent.
Moves(r, s) ==
  /\ \/ says' = [says EXCEPT ![r] = s]
     \/ says' = says /\ says[r] # s
  /\ says' # says => \/ says[r] = None
                     \/ says[r] \in {"PENDING", "PROCESSING"} /\ s # "PENDING"
  /\ \/ Send(r, input[r].type, s) /\ says' = [says EXCEPT ![r] = s]
     \/ UNCHANGED <<sent, guessed>> /\ loss' \subseteq Rows

\* The provider takes a transaction, or moves one on: what was backed stays backed, and
\* its new event is backed by its new status.
LEMMA ProviderKeeps ==
  ASSUME IInv, NEW r \in Rows, CallProvider(r) \/ Progress(r)
  PROVE  IInv'
<1>0. TypeOK /\ (\A q \in Rows : RowInv(q)) /\ (\A h \in Hooks : HookInv(h)) /\ HooksApart /\ EventsBacked
  BY DEF IInv
<1>1. UNCHANGED <<provider, row, input, job, recorded, hook, applied>>
  BY DEF CallProvider, Progress
<1>2. PICK s \in Statuses : Moves(r, s)
  <2>0. (Unsent(r) \/ UNCHANGED <<sent, guessed, loss>>) => UNCHANGED <<sent, guessed>> /\ loss' \subseteq Rows
    BY <1>0, LoseType DEF Unsent, TypeOK
  <2>1. CASE CallProvider(r)
    <3>1. says[r] = None /\ "PENDING" \in Statuses /\ None # "PENDING"
      BY <1>0, <2>1, RampAssumption DEF CallProvider, RowInv, Statuses
    <3>2. ASSUME NEW s \in Statuses, says' = [says EXCEPT ![r] = s],
                 Send(r, input[r].type, s) \/ Unsent(r) \/ UNCHANGED <<sent, guessed, loss>>
          PROVE  Moves(r, s)
      BY <2>0, <3>1, <3>2 DEF Moves
    <3>3. CASE UNCHANGED <<says, sent, guessed, loss>>
      <4>1. Moves(r, "PENDING")
        BY <2>0, <3>1, <3>3 DEF Moves
      <4> QED BY <3>1, <4>1
    <3> QED BY <2>1, <3>2, <3>3 DEF CallProvider
  <2>2. CASE Progress(r)
    <3>1. PICK s \in Terminal \cup {"PROCESSING"} :
            /\ says' = [says EXCEPT ![r] = s]
            /\ Send(r, input[r].type, s) \/ Unsent(r)
      BY <2>2 DEF Progress
    <3>2. s \in Statuses /\ s # "PENDING" /\ says[r] \in {"PENDING", "PROCESSING"}
      BY <2>2, <3>1 DEF Progress, Terminal, Statuses
    <3>4. Moves(r, s)
      BY <2>0, <3>1, <3>2 DEF Moves
    <3> QED BY <3>2, <3>4
  <2> QED BY <2>1, <2>2
<1> USE <1>2 DEF Moves
<1>3. says' \in [Rows -> Statuses \cup {None}]
  BY <1>0, <1>2 DEF TypeOK
<1>4. \A q \in Rows, x \in Statuses : says[q] # None /\ Backs(says[q], x) => Backs(says'[q], x)
  BY <1>0, <1>2 DEF TypeOK, Backs, Statuses
<1>5. \A x \in Statuses : Backs(None, x) => x \in {"PENDING", "FAILED"}
  BY RampAssumption DEF Backs, Statuses
<1>6. \A q \in Rows, x \in Statuses : Backs(says[q], x) => Backs(says'[q], x)
  BY <1>4, <1>5 DEF Backs
<1>7. /\ maker' \in [Rows -> Maker]
      /\ \A q \in Rows : q # r => maker'[q] = maker[q]
      /\ maker'[r] # maker[r] => maker[r].pc = "call" /\ maker'[r].pc \in {"mark", "record"}
      /\ maker'[r] = maker[r] => maker[r].pc \notin {"none", "customer", "call"} \/ says' = says
      /\ maker'[r].pc = "record" =>
           maker'[r].next \in Statuses /\ Backs(says'[r], maker'[r].next)
  <2>1. CASE CallProvider(r)
    <3>1. maker[r].pc = "call" /\ says[r] = None
      BY <1>0, <2>1 DEF CallProvider, RowInv
    <3> DEFINE Called ==
          /\ maker' \in [Rows -> Maker] /\ \A q \in Rows : q # r => maker'[q] = maker[q]
          /\ \/ maker'[r].pc = "mark"
             \/ /\ maker'[r].pc = "record" /\ maker'[r].next \in Statuses
                /\ Backs(says'[r], maker'[r].next)
    <3>2. Called
      <4>1. CASE Make(r, [pc |-> "mark"])
        BY <1>0, <4>1, ControlTypes DEF Make, TypeOK
      <4>2. ASSUME NEW v \in Statuses, says' = [says EXCEPT ![r] = v],
                   NEW st \in Reported(provider, input[r].type, v), Make(r, [pc |-> "record", next |-> st])
            PROVE  Called
        <5>1. st \in Statuses /\ Backs(v, st)
          BY ReportedBacked
        <5>2. says'[r] = v
          BY <1>0, <4>2 DEF TypeOK
        <5>3. maker' \in [Rows -> Maker] /\ maker'[r] = [pc |-> "record", next |-> st]
              /\ \A q \in Rows : q # r => maker'[q] = maker[q]
          BY <1>0, <4>2, <5>1, ControlTypes DEF Make, TypeOK
        <5> QED BY <5>1, <5>2, <5>3
      <4> QED BY <2>1, <4>1, <4>2 DEF CallProvider
    <3> QED BY <3>1, <3>2
  <2>2. CASE Progress(r)
    <3>1. maker' = maker /\ says[r] # None
      BY <2>2, RampAssumption DEF Progress, Statuses
    <3>2. maker[r].pc \notin {"none", "customer", "call"}
      BY <1>0, <3>1 DEF RowInv
    <3>3. maker[r].pc = "record" => maker[r].next \in Statuses
      BY <1>0, PieceTypes
    <3> QED BY <1>0, <1>6, <3>1, <3>2, <3>3 DEF TypeOK, RowInv
  <2> QED BY <2>1, <2>2
<1>8. /\ sent' \subseteq Event /\ loss' \subseteq Rows /\ sent \subseteq sent'
      /\ guessed \subseteq guessed' /\ guessed' \subseteq Rows \X Statuses
      /\ \A ev \in sent' : ev \in sent \/ (ev.ref = r /\ (Backs(says'[r], ev.status) \/ <<r, ev.status>> \in guessed'))
  <2>1. CASE Send(r, input[r].type, s) /\ says' = [says EXCEPT ![r] = s]
    <3>1. says'[r] = s
      BY <1>0, <2>1 DEF TypeOK
    <3> QED BY <1>0, <2>1, <3>1, SendEvent
  <2>2. CASE UNCHANGED <<sent, guessed>> /\ loss' \subseteq Rows
    BY <1>0, <2>2 DEF TypeOK
  <2> QED BY <1>2, <2>1, <2>2
<1>9. TypeOK'
  BY <1>0, <1>1, <1>3, <1>7, <1>8 DEF TypeOK
<1>10. ASSUME NEW q \in Rows PROVE RowInv(q)'
  <2>1. row'[q] = row[q] /\ job'[q] = job[q] /\ RowInv(q)
    BY <1>0, <1>1
  <2>2. /\ row[q] # None => row[q] \in Statuses
        /\ job[q].pc = "write" => job[q].next \in Statuses
        /\ maker[q].pc = "record" => maker[q].next \in Statuses
    BY <1>0, PieceTypes
  <2>3. /\ row'[q] # None => Vouched(q, row[q])'
        /\ job'[q].pc = "write" => Backs(says'[q], job'[q].next)
    BY <1>6, <1>8, <2>1, <2>2 DEF RowInv, Vouched
  <2>4. /\ maker'[q].pc \in {"none", "customer", "call"} => says'[q] = None
        /\ maker'[q].pc = "none" => row'[q] = None
        /\ maker'[q].pc = "record" => Backs(says'[q], maker'[q].next)
    <3>1. CASE q = r
      BY <1>7, <2>1, <3>1 DEF RowInv
    <3>2. CASE q # r
      <4>1. maker'[q] = maker[q] /\ says'[q] = says[q]
        BY <1>0, <1>2, <1>7, <3>2 DEF TypeOK
      <4> QED BY <2>1, <4>1 DEF RowInv
    <3> QED BY <3>1, <3>2
  <2> QED BY <2>1, <2>3, <2>4 DEF RowInv
<1>11. EventsBacked'
  <2> SUFFICES ASSUME NEW ev \in sent' PROVE Vouched(ev.ref, ev.status)'
    BY DEF EventsBacked
  <2>1. ev.ref \in Rows /\ ev.status \in Statuses
    BY <1>8, <1>0, PieceTypes
  <2> QED BY <1>0, <1>6, <1>8, <2>1 DEF EventsBacked, Vouched
<1>12. (\A h \in Hooks : HookInv(h))' /\ HooksApart'
  BY <1>0, <1>1, <1>8 DEF HookInv, HooksApart, Busy
<1> QED BY <1>9, <1>10, <1>11, <1>12 DEF IInv

-----------------------------------------------------------------------------
(* The webhook handlers.                                                   *)

\* A handler's step and the next state of the handlers.
HookStep(h) == HookFind(h) \/ HookUpdate(h) \/ HookFails(h) \/ \E ev \in sent : Deliver(h, ev)

\* A handler leaves the others, the requests, the jobs and the provider alone; at work,
\* it is at work on a recorded event, which no other handler has.
LEMMA HookFrame ==
  ASSUME IInv, NEW h \in Hooks, HookStep(h)
  PROVE  /\ UNCHANGED <<provider, input, maker, job, says, sent, guessed>>
         /\ \A k \in Hooks : k # h => hook'[k] = hook[k]
         /\ hook' \in [Hooks -> Hook]
         /\ recorded' \subseteq Rows \X Words
         /\ recorded \subseteq recorded'
         /\ loss' \subseteq Rows
         /\ Busy(h)' => /\ hook'[h].ev \in sent
                        /\ Key(hook'[h].ev) \in recorded'
                        /\ \/ Busy(h) /\ hook'[h].ev = hook[h].ev /\ UNCHANGED <<row, applied>>
                           \/ Key(hook'[h].ev) \notin recorded /\ UNCHANGED <<row, applied>>
         /\ hook'[h].pc = "update" => RANK[hook'[h].view] < RANK[hook'[h].ev.status]
<1>0. TypeOK /\ HookInv(h) /\ Idle \in Hook
  BY DEF IInv, Idle, Hook
<1> USE PieceTypes
<1>1. ASSUME NEW ev \in sent, Deliver(h, ev)
      PROVE  /\ UNCHANGED <<provider, input, maker, job, says, sent, row, applied, guessed>>
             /\ \A k \in Hooks : k # h => hook'[k] = hook[k]
             /\ hook' \in [Hooks -> Hook] /\ hook'[h] = [pc |-> "find", ev |-> ev]
             /\ recorded' = recorded \cup {Key(ev)} /\ Key(ev) \in Rows \X Words
             /\ Key(ev) \notin recorded
             /\ loss' \subseteq Rows
  <2>1. ev \in Event
    BY <1>0 DEF TypeOK
  <2>2. [pc |-> "find", ev |-> ev] \in Hook
    BY <2>1 DEF Hook
  <2>3. Lose(ev.ref, \E o \in sent \ {ev} : Key(o) = Key(ev)) /\ ev.ref \in Rows
    BY <1>0, <1>1, <2>1 DEF Deliver
  <2>4. loss' \subseteq Rows
    BY <1>0, <2>3, LoseType
  <2> QED BY <1>0, <1>1, <2>1, <2>2, <2>4 DEF Deliver, Duplicate, TypeOK
<1>2. CASE HookFind(h)
  <2>1. /\ UNCHANGED <<provider, row, input, maker, job, says, sent, recorded, applied, guessed, loss>>
        /\ Busy(h) /\ hook[h].ev \in Event
    BY <1>0, <1>2 DEF HookFind, Busy
  <2>2. CASE hook' = [hook EXCEPT ![h] = Idle]
    BY <1>0, <2>1, <2>2 DEF TypeOK, Busy, Idle, Words
  <2>3. CASE /\ row[hook[h].ev.ref] # None
             /\ ~(RANK[row[hook[h].ev.ref]] >= RANK[hook[h].ev.status])
             /\ hook' = [hook EXCEPT ![h] = [pc |-> "update", ev |-> hook[h].ev, view |-> row[hook[h].ev.ref]]]
    <3>1. row[hook[h].ev.ref] \in Statuses /\ hook[h].ev.status \in Statuses
      BY <1>0, <2>1, <2>3
    <3>2. RANK[row[hook[h].ev.ref]] < RANK[hook[h].ev.status]
      BY <2>3, <3>1 DEF RANK, Statuses
    <3>3. [pc |-> "update", ev |-> hook[h].ev, view |-> row[hook[h].ev.ref]] \in Hook
      BY <2>1, <3>1 DEF Hook
    <3>4. hook'[h] = [pc |-> "update", ev |-> hook[h].ev, view |-> row[hook[h].ev.ref]]
          /\ hook' \in [Hooks -> Hook]
      BY <1>0, <2>3, <3>3 DEF TypeOK
    <3> QED BY <1>0, <2>1, <2>3, <3>2, <3>4 DEF TypeOK, HookInv, Words
  <2> QED BY <1>2, <2>2, <2>3 DEF HookFind
<1>3. CASE HookUpdate(h)
  <2>1. /\ UNCHANGED <<provider, input, maker, job, says, sent, recorded, guessed>>
        /\ hook' = [hook EXCEPT ![h] = Idle]
        /\ Lose(hook[h].ev.ref, Overwrites(hook[h].ev.ref, hook[h].ev.status))
        /\ Busy(h)
    BY <1>3 DEF HookUpdate, Busy
  <2>2. hook[h].ev.ref \in Rows
    BY <1>0, <2>1
  <2>3. loss' \subseteq Rows
    BY <1>0, <2>1, <2>2, LoseType
  <2> QED BY <1>0, <2>1, <2>3 DEF TypeOK, Busy, Idle, Words
<1>4. CASE HookFails(h)
  <2>1. /\ UNCHANGED <<provider, row, input, maker, job, says, sent, recorded, applied, guessed>>
        /\ hook' = [hook EXCEPT ![h] = Idle]
        /\ Lose(hook[h].ev.ref, TRUE)
        /\ Busy(h)
    BY <1>4 DEF HookFails, Busy
  <2>2. hook[h].ev.ref \in Rows
    BY <1>0, <2>1
  <2>3. loss' \subseteq Rows
    BY <1>0, <2>1, <2>2, LoseType
  <2> QED BY <1>0, <2>1, <2>3 DEF TypeOK, Busy, Idle, Words
<1>5. CASE \E ev \in sent : Deliver(h, ev)
  <2>1. PICK ev \in sent : Deliver(h, ev)
    BY <1>5
  <2>2. recorded \subseteq Rows \X Words
    BY <1>0 DEF TypeOK, Words
  <2>3. /\ UNCHANGED <<provider, input, maker, job, says, sent, row, applied, guessed>>
        /\ \A k \in Hooks : k # h => hook'[k] = hook[k]
        /\ hook' \in [Hooks -> Hook] /\ hook'[h] = [pc |-> "find", ev |-> ev]
        /\ recorded' = recorded \cup {Key(ev)} /\ Key(ev) \in Rows \X Words
        /\ Key(ev) \notin recorded
        /\ loss' \subseteq Rows
    BY <1>1, <2>1
  <2>4. hook'[h].pc = "find" /\ hook'[h].ev = ev
    BY <2>3
  <2> QED BY <2>2, <2>3, <2>4
<1> QED BY <1>2, <1>3, <1>4, <1>5 DEF HookStep

\* What a handler writes: its event's status, which its event vouches for, and the event's
\* id among those applied.
LEMMA HookWrites ==
  ASSUME IInv, NEW h \in Hooks, HookUpdate(h)
  PROVE  LET ev == hook[h].ev
         IN  /\ ev.ref \in Rows /\ ev.status \in Statuses
             /\ Vouched(ev.ref, ev.status)
             /\ Write(ev.ref, ev.status)
             /\ row' \in [Rows -> Statuses \cup {None}]
             /\ RANK[hook[h].view] < RANK[ev.status] /\ hook[h].view \in Statuses
             /\ Key(ev) \in recorded /\ Busy(h)
             /\ applied' \subseteq applied \cup {Key(ev)}
<1>0. TypeOK /\ HookInv(h) /\ EventsBacked
  BY DEF IInv
<1>1. hook[h].pc = "update" /\ Busy(h)
  BY DEF HookUpdate, Busy
<1>2. hook[h].ev \in sent /\ hook[h].ev \in Event /\ Key(hook[h].ev) \in recorded
      /\ RANK[hook[h].view] < RANK[hook[h].ev.status] /\ hook[h].view \in Statuses
  BY <1>0, <1>1, PieceTypes DEF HookInv
<1>3. hook[h].ev.ref \in Rows /\ hook[h].ev.status \in Statuses
  BY <1>0, <1>2, PieceTypes
<1>4. Write(hook[h].ev.ref, hook[h].ev.status) /\ applied' \subseteq applied \cup {Key(hook[h].ev)}
  BY DEF HookUpdate
<1>5. row' \in [Rows -> Statuses \cup {None}]
  BY <1>0, <1>3, <1>4, WriteType
<1> QED BY <1>0, <1>1, <1>2, <1>3, <1>4, <1>5 DEF EventsBacked

\* A handler's step keeps the invariant.
LEMMA HookKeeps ==
  ASSUME IInv, NEW h \in Hooks, HookStep(h)
  PROVE  IInv'
<1>0. TypeOK /\ (\A q \in Rows : RowInv(q)) /\ (\A k \in Hooks : HookInv(k)) /\ HooksApart /\ EventsBacked
  BY DEF IInv
<1>1. \/ UNCHANGED <<row, applied>>
      \/ HookUpdate(h)
  BY DEF HookStep, HookFind, HookFails, Deliver
<1>2. row' \in [Rows -> Statuses \cup {None}] /\ applied' \subseteq recorded'
  BY <1>0, <1>1, HookWrites, HookFrame DEF TypeOK
<1>3. TypeOK'
  BY <1>0, <1>2, HookFrame DEF TypeOK, Words
<1>4. ASSUME NEW q \in Rows PROVE RowInv(q)'
  <2>1. /\ says' = says /\ guessed' = guessed /\ maker' = maker /\ job' = job /\ RowInv(q)
    BY <1>0, HookFrame
  <2>2. /\ row'[q] # None => Vouched(q, row'[q])
        /\ row[q] = None => row'[q] = None
    <3>1. CASE UNCHANGED row
      BY <2>1, <3>1 DEF RowInv
    <3>2. CASE HookUpdate(h)
      BY <1>0, <2>1, <3>2, HookWrites DEF Write, TypeOK, RowInv
    <3> QED BY <1>1, <3>1, <3>2
  <2> QED BY <2>1, <2>2 DEF RowInv, Vouched
<1>5. ASSUME NEW k \in Hooks PROVE HookInv(k)'
  <2>1. CASE k = h
    <3>1. Busy(h)' => Key(hook'[h].ev) \notin applied'
      BY <1>0, HookFrame DEF HookInv, TypeOK
    <3> QED BY <2>1, <3>1, HookFrame DEF HookInv
  <2>2. CASE k # h
    <3>1. hook'[k] = hook[k] /\ sent' = sent /\ recorded \subseteq recorded' /\ HookInv(k)
      BY <1>0, <2>2, HookFrame
    <3>2. Busy(k) => Key(hook[k].ev) \notin applied'
      <4>1. CASE UNCHANGED applied
        BY <3>1, <4>1 DEF HookInv
      <4>2. CASE HookUpdate(h)
        <5>1. Busy(k) => Key(hook[k].ev) # Key(hook[h].ev)
          BY <1>0, <2>2, <4>2, HookWrites DEF HooksApart
        <5> QED BY <3>1, <4>2, <5>1, HookWrites DEF HookInv
      <4> QED BY <1>1, <4>1, <4>2
    <3> QED BY <3>1, <3>2 DEF HookInv, Busy
  <2> QED BY <2>1, <2>2
<1>6. HooksApart'
  <2> SUFFICES ASSUME NEW k \in Hooks, k # h, Busy(h)', Busy(k)'
               PROVE  Key(hook'[h].ev) # Key(hook'[k].ev)
    <3>1. \A j \in Hooks : j # h => hook'[j] = hook[j]
      BY HookFrame
    <3> QED BY <1>0, <3>1 DEF HooksApart, Busy
  <2>1. hook'[k] = hook[k] /\ Busy(k) /\ Key(hook[k].ev) \in recorded
    <3>1. hook'[k] = hook[k]
      BY HookFrame
    <3> QED BY <1>0, <3>1 DEF Busy, HookInv
  <2>2. \/ Busy(h) /\ hook'[h].ev = hook[h].ev
        \/ Key(hook'[h].ev) \notin recorded
    BY HookFrame
  <2> QED BY <1>0, <2>1, <2>2 DEF HooksApart
<1>7. EventsBacked'
  BY <1>0, HookFrame DEF EventsBacked, Vouched
<1> QED BY <1>3, <1>4, <1>5, <1>6, <1>7 DEF IInv

-----------------------------------------------------------------------------
(* The theorems.                                                           *)

\* The invariant holds at first.
LEMMA InitIInv == Init => IInv
<1> SUFFICES ASSUME Init PROVE IInv
  OBVIOUS
<1>1. TypeOK
  BY DEF Init, TypeOK, Maker, Job, Hook, Idle
<1>2. (\A r \in Rows : RowInv(r)) /\ (\A h \in Hooks : HookInv(h)) /\ HooksApart /\ EventsBacked
  BY DEF Init, RowInv, HookInv, HooksApart, EventsBacked, Busy, Idle
<1> QED BY <1>1, <1>2 DEF IInv

\* Every step is a row's own, the provider's, or a handler's.
LEMMA NextCases ==
  ASSUME Next
  PROVE  \/ \E r \in Rows : OwnStep(r)
         \/ \E r \in Rows : CallProvider(r) \/ Progress(r)
         \/ \E h \in Hooks : HookStep(h)
  BY DEF Next, MakerNext, JobNext, HookNext, OwnStep, HookStep

\* Every step keeps the invariant.
LEMMA NextIInv == IInv /\ [Next]_vars => IInv'
<1> SUFFICES ASSUME IInv, [Next]_vars PROVE IInv'
  OBVIOUS
<1>1. CASE Next
  BY <1>1, NextCases, OwnStepKeeps, ProviderKeeps, HookKeeps
<1>2. CASE UNCHANGED vars
  BY <1>2 DEF vars, IInv, TypeOK, RowInv, HookInv, HooksApart, EventsBacked, Vouched, Busy
<1> QED BY <1>1, <1>2

\* The invariant holds throughout.
LEMMA Invariance == Spec => []IInv
  BY InitIInv, NextIInv, PTL DEF Spec

\* Rows, requests, jobs, events and handlers keep their types, whatever faults strike.
THEOREM TypeCorrect == Spec => []TypeOK
  BY Invariance, PTL DEF IInv

\* No row is shown in a status its provider has not reached, in whatever order and
\* however often events and look-ups arrive, but for the statuses that Bitnob's events
\* of unlisted names were guessed to announce.
THEOREM NotAhead == Spec => []NeverAhead
<1>1. IInv => NeverAhead
  BY DEF IInv, RowInv, NeverAhead, Vouched, Backs, Reached
<1> QED BY <1>1, Invariance, PTL

\* An event is applied once however often it is delivered, and by however many handlers
\* at once.
THEOREM EventsAppliedOnce == Spec => []AppliedOnce
<1>1. IInv => AppliedOnce
  BY DEF IInv, HookInv, AppliedOnce, Busy
<1> QED BY <1>1, Invariance, PTL

-----------------------------------------------------------------------------
(* Refinement: what the user is promised.                                  *)

announcedRows == {r \in Rows : says[r] = "COMPLETED" \/ <<r, "COMPLETED">> \in guessed}
contestedRows == {r \in Rows : Contested(r)}
shownVars == <<row, announcedRows, contestedRows>>

\* The two tables rank the statuses alike.
LEMMA SameOrder ==
  /\ Promise!Order = RANK
  /\ DOMAIN Promise!Order = Statuses
  BY DEF Promise!Order, RANK, Statuses

\* Before any request no status is shown and nothing is announced or contested.
LEMMA PromisedInitially == Init => Promise!PromiseInit
  BY RampAssumption DEF Init, Promise!PromiseInit, Contested, Idle, Statuses

\* What the provider has announced stays announced.
LEMMA AnnouncedStays ==
  ASSUME IInv, IInv', [Next]_vars
  PROVE  announcedRows \subseteq announcedRows' /\ announcedRows' \subseteq Rows
<1>0. TypeOK /\ \A r \in Rows : RowInv(r)
  BY DEF IInv
<1>1. CASE \E r \in Rows : CallProvider(r) \/ Progress(r)
  <2>1. PICK r \in Rows : CallProvider(r) \/ Progress(r)
    BY <1>1
  <2>2. says[r] # "COMPLETED" /\ \A q \in Rows : q # r => says'[q] = says[q]
    <3>1. CASE CallProvider(r)
      <4>1. says[r] = None
        BY <1>0, <3>1 DEF CallProvider, RowInv
      <4> QED BY <1>0, <3>1, <4>1, RampAssumption DEF CallProvider, TypeOK, Statuses
    <3>2. CASE Progress(r)
      BY <1>0, <3>2 DEF Progress, TypeOK
    <3> QED BY <2>1, <3>1, <3>2
  <2>3. guessed \subseteq guessed'
    <3>1. guessed' = guessed \/ \E s \in Statuses : Send(r, input[r].type, s)
      BY <2>1 DEF CallProvider, Progress, Unsent, Terminal, Statuses
    <3> QED BY <1>0, <3>1, SendEvent
  <2> QED BY <2>2, <2>3 DEF announcedRows
<1>2. CASE says' = says /\ guessed' = guessed
  BY <1>2 DEF announcedRows
<1>3. CASE \E r \in Rows : OwnStep(r)
  BY <1>0, <1>2, <1>3, OwnStepFrame
<1>4. CASE \E h \in Hooks : HookStep(h)
  BY <1>2, <1>4, HookFrame
<1> QED BY <1>1, <1>2, <1>3, <1>4, NextCases DEF vars

\* A step that writes a status that may be shown, later than its writer's view where that is still
\* the row's, is a step of the promise.
LEMMA ShowStep ==
  ASSUME IInv, NEW r \in Rows, NEW s \in Statuses, Write(r, s), Vouched(r, s), UNCHANGED <<says, guessed>>,
         row[r] # None => RANK[row[r]] <= RANK[s] \/ Contested(r)
  PROVE  [Promise!PromiseNext]_shownVars
<1>0. TypeOK /\ announcedRows' = announcedRows /\ contestedRows' \subseteq Rows
  BY DEF IInv, announcedRows, contestedRows
<1>1. CASE row[r] = None
  <2>1. row' = row
    BY <1>0, <1>1 DEF Write, TypeOK
  <2>2. Promise!Settle
    BY <1>0, <2>1 DEF Promise!Settle, announcedRows, contestedRows
  <2> QED BY <2>2 DEF Promise!PromiseNext
<1>2. CASE row[r] # None
  <2>1. row' = [row EXCEPT ![r] = s]
    BY <1>2 DEF Write
  <2>2. s = "COMPLETED" => r \in announcedRows
    BY DEF Vouched, Backs, announcedRows
  <2>3. Promise!Show(r)
    BY <1>0, <1>2, <2>1, <2>2, SameOrder DEF Promise!Show, announcedRows, contestedRows
  <2> QED BY <2>3 DEF Promise!PromiseNext
<1> QED BY <1>1, <1>2

\* Every step of the ramp is a step of the promise or changes nothing in it.
LEMMA PromiseStep ==
  ASSUME IInv, IInv', [Next]_vars
  PROVE  [Promise!PromiseNext]_shownVars
<1>0. TypeOK /\ (\A r \in Rows : RowInv(r)) /\ contestedRows' \subseteq Rows
  BY DEF IInv, contestedRows
<1>1. CASE row' = row
  <2>1. Promise!Settle
    BY <1>0, <1>1, AnnouncedStays DEF Promise!Settle, announcedRows, contestedRows
  <2> QED BY <2>1 DEF Promise!PromiseNext
<1>2. ASSUME NEW r \in Rows, Start(r) PROVE [Promise!PromiseNext]_shownVars
  <2>1. row[r] = None /\ UNCHANGED <<says, guessed>>
    BY <1>0, <1>2 DEF Start, RowInv
  <2>2. CASE row' = [row EXCEPT ![r] = "PENDING"]
    <3>1. announcedRows' = announcedRows /\ "PENDING" \in Statuses
      BY <2>1 DEF announcedRows, Statuses
    <3>2. Promise!Show(r)
      BY <1>0, <2>1, <2>2, <3>1, SameOrder DEF Promise!Show, announcedRows, contestedRows
    <3> QED BY <3>2 DEF Promise!PromiseNext
  <2> QED BY <1>1, <1>2, <2>2 DEF Start
<1>3. ASSUME NEW r \in Rows, Delete(r) PROVE [Promise!PromiseNext]_shownVars
  <2>1. row' = [row EXCEPT ![r] = None] /\ UNCHANGED <<says, guessed>> /\ row[r] # None
    BY <1>3 DEF Delete
  <2>2. announcedRows' = announcedRows /\ None # "COMPLETED"
    BY <2>1, RampAssumption DEF announcedRows, Statuses
  <2>3. Promise!Show(r)
    BY <1>0, <2>1, <2>2 DEF Promise!Show, announcedRows, contestedRows
  <2> QED BY <2>3 DEF Promise!PromiseNext
<1>4. ASSUME NEW r \in Rows, RecordInstruction(r) PROVE [Promise!PromiseNext]_shownVars
  <2>1. maker[r].pc = "record" /\ UNCHANGED <<says, guessed>> /\ maker[r].next \in Statuses /\ Vouched(r, maker[r].next)
    BY <1>0, <1>4, PieceTypes DEF RecordInstruction, RowInv, Vouched
  <2>2. row[r] # None => RANK[row[r]] <= RANK[maker[r].next] \/ Contested(r)
    <3>1. row[r] = "PENDING" => RANK[row[r]] <= RANK[maker[r].next]
      BY <2>1 DEF RANK, Statuses
    <3>2. row[r] # "PENDING" => Contested(r)
      BY <2>1 DEF Contested
    <3> QED BY <3>1, <3>2
  <2>3. Write(r, maker[r].next) \/ row' = row
    BY <1>4 DEF RecordInstruction
  <2> QED BY <1>1, <2>1, <2>2, <2>3, ShowStep
<1>5. ASSUME NEW r \in Rows, MarkFailed(r) PROVE [Promise!PromiseNext]_shownVars
  <2>1. maker[r].pc = "mark" /\ UNCHANGED <<says, guessed>> /\ "FAILED" \in Statuses /\ Vouched(r, "FAILED")
    BY <1>5 DEF MarkFailed, Statuses, Backs, Vouched
  <2>2. row[r] # None => RANK[row[r]] <= RANK["FAILED"] \/ Contested(r)
    <3>1. row[r] = "PENDING" => RANK[row[r]] <= RANK["FAILED"]
      BY DEF RANK
    <3>2. row[r] # "PENDING" => Contested(r)
      BY <2>1 DEF Contested
    <3> QED BY <3>1, <3>2
  <2>3. Write(r, "FAILED") \/ row' = row
    BY <1>5 DEF MarkFailed
  <2> QED BY <1>1, <2>1, <2>2, <2>3, ShowStep
<1>6. ASSUME NEW r \in Rows, JobWrite(r) PROVE [Promise!PromiseNext]_shownVars
  <2>1. /\ job[r].pc = "write" /\ UNCHANGED <<says, guessed>> /\ job[r].next \in Statuses /\ job[r].view \in Statuses
        /\ Vouched(r, job[r].next) /\ RANK[job[r].view] < RANK[job[r].next]
    BY <1>0, <1>6, PieceTypes DEF JobWrite, RowInv, Vouched
  <2>2. row[r] # None => RANK[row[r]] <= RANK[job[r].next] \/ Contested(r)
    <3>1. row[r] = job[r].view => RANK[row[r]] <= RANK[job[r].next]
      BY <2>1 DEF RANK, Statuses
    <3>2. row[r] # job[r].view => Contested(r)
      BY <2>1 DEF Contested
    <3> QED BY <3>1, <3>2
  <2>3. Write(r, job[r].next) \/ row' = row
    BY <1>6 DEF JobWrite
  <2> QED BY <1>1, <2>1, <2>2, <2>3, ShowStep
<1>7. ASSUME NEW h \in Hooks, HookUpdate(h) PROVE [Promise!PromiseNext]_shownVars
  <2> DEFINE ev == hook[h].ev
  <2>1. /\ hook[h].pc = "update" /\ UNCHANGED <<says, guessed>>
        /\ ev.ref \in Rows /\ ev.status \in Statuses /\ hook[h].view \in Statuses
        /\ Vouched(ev.ref, ev.status) /\ RANK[hook[h].view] < RANK[ev.status]
        /\ Write(ev.ref, ev.status)
    BY <1>7, HookWrites DEF HookUpdate
  <2>2. row[ev.ref] # None => RANK[row[ev.ref]] <= RANK[ev.status] \/ Contested(ev.ref)
    <3>1. row[ev.ref] = hook[h].view => RANK[row[ev.ref]] <= RANK[ev.status]
      BY <2>1 DEF RANK, Statuses
    <3>2. row[ev.ref] # hook[h].view => Contested(ev.ref)
      BY <2>1 DEF Contested
    <3> QED BY <3>1, <3>2
  <2> HIDE DEF ev
  <2> QED BY <2>1, <2>2, ShowStep
<1>8. CASE \E r \in Rows : OwnStep(r)
  <2>1. PICK r \in Rows : OwnStep(r)
    BY <1>8
  <2>2. CASE MakeCustomer(r) \/ QueueReconcile(r) \/ MakerDies(r) \/ JobRead(r) \/ JobThrows(r)
             \/ JobAsk(r) \/ JobStalls(r)
    <3>1. row' = row
      BY <2>2 DEF MakeCustomer, QueueReconcile, MakerDies, JobRead, JobThrows, JobAsk, JobStalls
    <3> QED BY <1>1, <3>1
  <2> QED BY <1>2, <1>3, <1>4, <1>5, <1>6, <2>1, <2>2 DEF OwnStep
<1>9. CASE \E r \in Rows : CallProvider(r) \/ Progress(r)
  <2>1. row' = row
    BY <1>9 DEF CallProvider, Progress
  <2> QED BY <1>1, <2>1
<1>10. CASE \E h \in Hooks : HookStep(h)
  <2>1. PICK h \in Hooks : HookStep(h)
    BY <1>10
  <2>2. HookUpdate(h) \/ row' = row
    BY <2>1 DEF HookStep, HookFind, HookFails, Deliver
  <2> QED BY <1>1, <1>7, <2>2
<1>11. CASE UNCHANGED vars
  BY <1>1, <1>11 DEF vars
<1> QED BY <1>8, <1>9, <1>10, <1>11, NextCases

\* The interleaved requests, webhooks and jobs keep the promise: a shown status moves
\* back only by a writer whose view of the row is out of date, and COMPLETED is shown
\* only of money the provider has settled, or was guessed to have by the outcome word of
\* an event of an unlisted name.
THEOREM Refinement == Spec => ImplementsPromise
<1>1. IInv /\ IInv' /\ [Next]_vars => [Promise!PromiseNext]_shownVars
  BY PromiseStep
<1> QED BY <1>1, PromisedInitially, Invariance, PTL
       DEF Spec, ImplementsPromise, Promise!PromiseSpec, Promise!promiseVars,
           shownVars, announcedRows, contestedRows
=============================================================================
