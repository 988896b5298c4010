----------------------- MODULE ExternalIntent_proofs -----------------------
(***************************************************************************)
(* Proofs about ExternalIntent, for any number of requests, intents, users,*)
(* keys, chains, assets and addresses.                                     *)
(***************************************************************************)
EXTENDS ExternalIntent, TLAPS

LEMMA TypeInit == Init => TypeOK
  BY IntentAssumption DEF Init, TypeOK, Steps

\* What a received request and a stored plan are known to hold.
LEMMA InputType == TypeOK =>
  \A r \in Requests : input[r] # None =>
    /\ input[r] \in Inputs
    /\ input[r].user \in Users
    /\ input[r].intent \in Intents
    /\ input[r].key \in Keys
    /\ input[r].signed \in Signed
    /\ Intent(r) \in Intents
  BY IntentAssumption DEF TypeOK, Input, Intent

LEMMA PlanType == TypeOK =>
  \A i \in Intents : plan[i] # None =>
    /\ plan[i] \in Plan
    /\ plan[i] \in Plans
    /\ Legal(plan[i].chain, plan[i].asset)
  BY IntentAssumption DEF TypeOK

\* The row create() inserts is well typed and says what was planned.
LEMMA NewRowType ==
  ASSUME TypeOK, NEW r \in Requests, RequestInv(r), pc[r] = "create"
  PROVE  /\ NewRow(r) \in Row
         /\ NewRow(r) # None
         /\ NewRow(r).sender = input[r].user
         /\ NewRow(r).key = input[r].key
         /\ NewRow(r).intent = Intent(r)
         /\ NewRow(r).plan = plan[Intent(r)]
<1>1. input[r] # None /\ plan[Intent(r)] # None
  BY DEF RequestInv, Own
<1>2. NewRow(r) \in Row
  BY <1>1, InputType, PlanType DEF NewRow, Row
<1> QED BY <1>2, IntentAssumption DEF NewRow

\* The ways a step ends leave pc, status and answer well typed.
LEMMA ControlType ==
  ASSUME TypeOK, NEW r \in Requests, NEW q \in Requests, NEW step \in Steps,
         NEW code \in {400, 404, 409, 410, 500},
         Goto(r, step) \/ Decide(r, step, code) \/ Reply(r, step, q)
  PROVE  /\ pc' \in [Requests -> Steps]
         /\ status' \in [Requests -> {0, 201, 400, 404, 409, 410, 500}]
         /\ answer' \in [Requests -> Requests \cup {None}]
<1>1. CASE Goto(r, step)
  BY <1>1 DEF TypeOK, Goto
<1>2. CASE Decide(r, step, code)
  BY <1>2 DEF TypeOK, Decide
<1>3. CASE Reply(r, step, q)
  BY <1>3 DEF TypeOK, Reply
<1> QED BY <1>1, <1>2, <1>3

\* A mark is added to an intent, or none is.
LEMMA MarkType ==
  ASSUME TypeOK, NEW r \in Requests, Intent(r) \in Intents,
         NEW mark \in Marks, NEW fault,
         Struck(r, fault, mark) \/ UNCHANGED mishap
  PROVE  mishap' \in [Intents -> SUBSET Marks]
<1>1. CASE Struck(r, fault, mark)
  <2>1. mishap[Intent(r)] \cup {mark} \in SUBSET Marks
    BY DEF TypeOK
  <2> QED BY <1>1, <2>1 DEF Struck, TypeOK
<1>2. CASE UNCHANGED mishap
  BY <1>2 DEF TypeOK
<1> QED BY <1>1, <1>2

\* Every step keeps the types.
LEMMA TypeNext ==
  ASSUME TypeOK, \A r \in Requests : RequestInv(r), [Next]_vars
  PROVE  TypeOK'
<1> DEFINE Control == /\ pc' \in [Requests -> Steps]
                      /\ status' \in [Requests -> {0, 201, 400, 404, 409, 410, 500}]
                      /\ answer' \in [Requests -> Requests \cup {None}]
           Marked == mishap' \in [Intents -> SUBSET Marks]
<1>0. /\ \A r \in Requests, step \in Steps : Goto(r, step) => Control
      /\ \A r, q \in Requests, step \in Steps : Reply(r, step, q) => Control
      /\ \A r \in Requests, step \in Steps, code \in {400, 404, 409, 410, 500} :
           Decide(r, step, code) => Control
  BY ControlType
<1>a. \A r \in Requests : input[r] # None <=> pc[r] # "idle"
  BY DEF RequestInv
<1>b. /\ UNCHANGED mishap => Marked
      /\ \A r \in Requests, fault \in FaultKinds, mark \in Marks :
           input[r] # None /\ Struck(r, fault, mark) => Marked
  BY MarkType, InputType DEF TypeOK
<1>c. Steps = {"idle", "replay", "claim", "lost", "explain", "check", "create",
               "winner", "giveBack", "link", "add", "markFailed", "done"}
      /\ Marks = {"dropped", "twice"}
      /\ FaultKinds = {"claimLost", "createLost", "database", "queue", "restart"}
  BY DEF Steps, Marks, FaultKinds
<1> HIDE DEF Control, Marked
<1>1. ASSUME NEW i \in Intents, Prepare(i) PROVE TypeOK'
  BY <1>1 DEF TypeOK, Prepare
<1>2. ASSUME NEW i \in Intents, Expire(i) PROVE TypeOK'
  BY <1>2 DEF TypeOK, Expire
<1>3. ASSUME NEW r \in Requests, Receive(r) PROVE TypeOK'
  <2>1. Control
    BY <1>3, <1>0, <1>c DEF Receive
  <2>2. input' \in [Requests -> Inputs \cup {None}]
    BY <1>3 DEF TypeOK, Receive
  <2>3. UNCHANGED <<plan, state, expired, link, row, queue, mishap>>
    BY <1>3 DEF Receive, intentVars
  <2> QED BY <2>1, <2>2, <2>3 DEF TypeOK, Control
<1>4. ASSUME NEW r \in Requests, Replay(r) PROVE TypeOK'
  <2>1. Control
    BY <1>4, <1>0, <1>c DEF Replay
  <2> QED BY <1>4, <2>1 DEF TypeOK, Replay, intentVars, Control
<1>5. ASSUME NEW r \in Requests, Claim(r) PROVE TypeOK'
  <2>1. Control
    BY <1>5, <1>0, <1>c DEF Claim, Throw
  <2>2. Marked
    BY <1>5, <1>a, <1>b, <1>c DEF Claim
  <2>3. state' \in [Intents -> {"NONE", "READY", "USED"}]
    BY <1>5 DEF Claim, TypeOK
  <2> QED BY <1>5, <2>1, <2>2, <2>3 DEF TypeOK, Claim, Control, Marked
<1>6. ASSUME NEW r \in Requests, Lost(r) PROVE TypeOK'
  <2>1. Control
    BY <1>6, <1>0, <1>c DEF Lost
  <2> QED BY <1>6, <2>1 DEF TypeOK, Lost, intentVars, Control
<1>7. ASSUME NEW r \in Requests, Explain(r) PROVE TypeOK'
  <2>1. Control
    BY <1>7, <1>0, <1>c DEF Explain, Throw
  <2> QED BY <1>7, <2>1 DEF TypeOK, Explain, intentVars, Control
<1>8. ASSUME NEW r \in Requests, Check(r) PROVE TypeOK'
  <2>1. Control
    BY <1>8, <1>0, <1>c DEF Check
  <2> QED BY <1>8, <2>1 DEF TypeOK, Check, Handled, intentVars, Control
<1>9. ASSUME NEW r \in Requests, Create(r) PROVE TypeOK'
  <2>1. Control
    BY <1>9, <1>0, <1>c DEF Create
  <2>2. Marked
    BY <1>9, <1>a, <1>b, <1>c DEF Create, Handled
  <2>3. row' \in [Requests -> Row \cup {None}]
    BY <1>9, NewRowType DEF Create, TypeOK
  <2> QED BY <1>9, <2>1, <2>2, <2>3 DEF TypeOK, Create, intentVars, Control, Marked
<1>10. ASSUME NEW r \in Requests, Winner(r) PROVE TypeOK'
  <2>1. Control
    BY <1>10, <1>0, <1>c DEF Winner
  <2> QED BY <1>10, <2>1 DEF TypeOK, Winner, intentVars, Control
<1>11. ASSUME NEW r \in Requests, GiveBack(r) PROVE TypeOK'
  <2>1. Marked
    BY <1>11, <1>a, <1>b, <1>c DEF GiveBack
  <2>2. state' \in [Intents -> {"NONE", "READY", "USED"}]
    BY <1>11 DEF GiveBack, TypeOK
  <2>3. pc' \in [Requests -> Steps]
    BY <1>11, <1>c DEF GiveBack, TypeOK
  <2> QED BY <1>11, <2>1, <2>2, <2>3 DEF TypeOK, GiveBack, Marked
<1>12. ASSUME NEW r \in Requests, Link(r) PROVE TypeOK'
  <2>1. Control
    BY <1>12, <1>0, <1>c DEF Link
  <2>2. link' \in [Intents -> Requests \cup {None}]
    BY <1>12 DEF Link, TypeOK
  <2> QED BY <1>12, <2>1, <2>2 DEF TypeOK, Link, Control
<1>13. ASSUME NEW r \in Requests, Add(r) PROVE TypeOK'
  <2>1. Control
    BY <1>13, <1>0, <1>c DEF Add
  <2>2. queue' \subseteq Requests \X Signed
    BY <1>13, <1>a, InputType DEF Add, TypeOK
  <2> QED BY <1>13, <2>1, <2>2 DEF TypeOK, Add, intentVars, Control
<1>14. ASSUME NEW r \in Requests, MarkFailed(r) PROVE TypeOK'
  <2>1. Marked
    BY <1>14, <1>a, <1>b, <1>c DEF MarkFailed
  <2>2. row' \in [Requests -> Row \cup {None}]
    <3>1. row[r] \in Row
      BY <1>14 DEF MarkFailed, RequestInv, TypeOK
    <3>2. [row[r] EXCEPT !.status = "FAILED"] \in Row
      BY <3>1 DEF Row
    <3>3. row' = [row EXCEPT ![r] = [row[r] EXCEPT !.status = "FAILED"]] \/ row' = row
      BY <1>14 DEF MarkFailed
    <3> QED BY <3>2, <3>3 DEF TypeOK
  <2>3. pc' \in [Requests -> Steps]
    BY <1>14, <1>c DEF MarkFailed, TypeOK
  <2> QED BY <1>14, <2>1, <2>2, <2>3 DEF TypeOK, MarkFailed, intentVars, Marked
<1>15. ASSUME NEW r \in Requests, Die(r) PROVE TypeOK'
  <2>1. Control
    BY <1>15, <1>0, <1>c DEF Die, Throw
  <2>2. Marked
    BY <1>15, <1>a, <1>b, <1>c DEF Die, Working
  <2> QED BY <1>15, <2>1, <2>2 DEF TypeOK, Die, intentVars, Control, Marked
<1>16. CASE UNCHANGED vars
  BY <1>16 DEF TypeOK, vars, intentVars
<1> QED
  BY <1>1, <1>2, <1>3, <1>4, <1>5, <1>6, <1>7, <1>8, <1>9, <1>10, <1>11, <1>12,
     <1>13, <1>14, <1>15, <1>16 DEF Next, Step

-----------------------------------------------------------------------------
(* Frames: what a step of request r leaves alone.                          *)

ActsOn(r) == Receive(r) \/ Step(r) \/ Die(r)

LEMMA NextCases ==
  ASSUME [Next]_vars
  PROVE  \/ \E i \in Intents : Prepare(i) \/ Expire(i)
         \/ \E r \in Requests : ActsOn(r)
         \/ UNCHANGED vars
  BY DEF Next, ActsOn

\* The step of one request never touches another request or its row.
LEMMA OthersKept ==
  ASSUME TypeOK, NEW r \in Requests, ActsOn(r), NEW q \in Requests, q # r
  PROVE  /\ pc'[q] = pc[q] /\ input'[q] = input[q] /\ row'[q] = row[q]
         /\ status'[q] = status[q] /\ answer'[q] = answer[q]
<1>0. \A step, code, i :
        Goto(r, step) \/ Reply(r, step, i) \/ Decide(r, step, code) =>
          pc'[q] = pc[q] /\ status'[q] = status[q] /\ answer'[q] = answer[q]
  BY DEF Goto, Reply, Decide, TypeOK
<1> DEFINE Control == pc'[q] = pc[q] /\ status'[q] = status[q] /\ answer'[q] = answer[q]
<1>1. CASE Receive(r)
  BY <1>1, <1>0 DEF Receive, TypeOK
<1>2. CASE Replay(r)
  <2>1. Control
    BY <1>2, <1>0 DEF Replay
  <2> QED BY <1>2, <2>1 DEF Replay
<1>3. CASE Claim(r)
  <2>1. Control
    BY <1>3, <1>0 DEF Claim, Throw
  <2> QED BY <1>3, <2>1 DEF Claim
<1>4. CASE Lost(r)
  <2>1. Control
    BY <1>4, <1>0 DEF Lost
  <2> QED BY <1>4, <2>1 DEF Lost
<1>5. CASE Explain(r)
  <2>1. Control
    BY <1>5, <1>0 DEF Explain, Throw
  <2> QED BY <1>5, <2>1 DEF Explain
<1>6. CASE Check(r)
  <2>1. Control
    BY <1>6, <1>0 DEF Check
  <2> QED BY <1>6, <2>1 DEF Check
<1>7. CASE Create(r)
  <2>1. Control
    BY <1>7, <1>0 DEF Create
  <2>2. row'[q] = row[q]
    BY <1>7 DEF Create, TypeOK
  <2> QED BY <1>7, <2>1, <2>2 DEF Create
<1>8. CASE Winner(r)
  <2>1. Control
    BY <1>8, <1>0 DEF Winner
  <2> QED BY <1>8, <2>1 DEF Winner
<1>9. CASE GiveBack(r)
  BY <1>9 DEF GiveBack, TypeOK
<1>10. CASE Link(r)
  <2>1. Control
    BY <1>10, <1>0 DEF Link
  <2> QED BY <1>10, <2>1 DEF Link
<1>11. CASE Add(r)
  <2>1. Control
    BY <1>11, <1>0 DEF Add
  <2> QED BY <1>11, <2>1 DEF Add
<1>12. CASE MarkFailed(r)
  BY <1>12 DEF MarkFailed, TypeOK
<1>13. CASE Die(r)
  <2>1. Control
    BY <1>13, <1>0 DEF Die, Throw
  <2> QED BY <1>13, <2>1 DEF Die
<1> QED BY <1>1, <1>2, <1>3, <1>4, <1>5, <1>6, <1>7, <1>8, <1>9, <1>10, <1>11, <1>12,
           <1>13 DEF ActsOn, Step

\* A request acts on its own intent only, and marks are never taken off.
LEMMA IntentsKept ==
  ASSUME TypeOK, NEW r \in Requests, ActsOn(r), NEW i \in Intents
  PROVE  /\ plan' = plan
         /\ mishap[i] \subseteq mishap'[i]
         /\ i # Intent(r) \/ pc[r] = "idle" =>
              state'[i] = state[i] /\ link'[i] = link[i] /\ mishap'[i] = mishap[i]
<1>0. \A fault, mark : Struck(r, fault, mark) =>
        mishap[i] \subseteq mishap'[i] /\ (i # Intent(r) => mishap'[i] = mishap[i])
  BY DEF Struck, TypeOK
<1>1. CASE Receive(r) \/ Replay(r) \/ Lost(r) \/ Explain(r) \/ Winner(r) \/ Add(r)
  BY <1>1 DEF Receive, Replay, Lost, Explain, Winner, Add, intentVars
<1>2. CASE Check(r)
  BY <1>2 DEF Check, Handled, intentVars
<1>3. CASE Claim(r)
  <2>1. plan' = plan /\ link' = link /\ pc[r] # "idle"
    BY <1>3 DEF Claim
  <2>2. i # Intent(r) => state'[i] = state[i]
    BY <1>3 DEF Claim, TypeOK
  <2>3. mishap[i] \subseteq mishap'[i] /\ (i # Intent(r) => mishap'[i] = mishap[i])
    BY <1>3, <1>0 DEF Claim
  <2> QED BY <2>1, <2>2, <2>3
<1>4. CASE Create(r)
  <2>1. UNCHANGED intentVars /\ pc[r] # "idle"
    BY <1>4 DEF Create
  <2>2. mishap[i] \subseteq mishap'[i] /\ (i # Intent(r) => mishap'[i] = mishap[i])
    BY <1>4, <1>0 DEF Create, Handled
  <2> QED BY <2>1, <2>2 DEF intentVars
<1>5. CASE GiveBack(r)
  <2>1. plan' = plan /\ link' = link /\ pc[r] # "idle"
    BY <1>5 DEF GiveBack
  <2>2. i # Intent(r) => state'[i] = state[i]
    BY <1>5 DEF GiveBack, TypeOK
  <2>3. mishap[i] \subseteq mishap'[i] /\ (i # Intent(r) => mishap'[i] = mishap[i])
    BY <1>5, <1>0 DEF GiveBack
  <2> QED BY <2>1, <2>2, <2>3
<1>6. CASE Link(r)
  BY <1>6 DEF Link, TypeOK
<1>7. CASE MarkFailed(r)
  <2>1. UNCHANGED intentVars /\ pc[r] # "idle"
    BY <1>7 DEF MarkFailed
  <2>2. mishap[i] \subseteq mishap'[i] /\ (i # Intent(r) => mishap'[i] = mishap[i])
    BY <1>7, <1>0 DEF MarkFailed
  <2> QED BY <2>1, <2>2 DEF intentVars
<1>8. CASE Die(r)
  <2>1. UNCHANGED intentVars /\ pc[r] # "idle"
    BY <1>8 DEF Die, Working
  <2>2. mishap[i] \subseteq mishap'[i] /\ (i # Intent(r) => mishap'[i] = mishap[i])
    BY <1>8, <1>0 DEF Die
  <2> QED BY <2>1, <2>2 DEF intentVars
<1> QED BY <1>1, <1>2, <1>3, <1>4, <1>5, <1>6, <1>7, <1>8 DEF ActsOn, Step

\* A request is received once; its row is made once and says the same ever after.
LEMMA OwnKept ==
  ASSUME TypeOK, NEW r \in Requests, ActsOn(r), RequestInv(r)
  PROVE  /\ pc[r] # "idle" => input' = input /\ pc'[r] # "idle"
         /\ pc[r] # "done"
         /\ row[r] # None => /\ row'[r] # None
                             /\ row'[r].sender = row[r].sender
                             /\ row'[r].key = row[r].key
                             /\ row'[r].intent = row[r].intent
                             /\ row'[r].plan = row[r].plan
         /\ row[r] = None => \/ row' = row
                             \/ Create(r) /\ row' = [row EXCEPT ![r] = NewRow(r)]
                                /\ ~KeyTaken(input[r].key)
<1>0. \A step, code, i :
        Goto(r, step) \/ Reply(r, step, i) \/ Decide(r, step, code) => pc'[r] = step
  BY DEF Goto, Reply, Decide, TypeOK
<1>1. CASE Receive(r)
  BY <1>1 DEF Receive
<1>2. CASE Replay(r) \/ Lost(r) \/ Winner(r)
  BY <1>2, <1>0 DEF Replay, Lost, Winner
<1>3. CASE Claim(r)
  BY <1>3, <1>0 DEF Claim, Throw
<1>4. CASE Explain(r) \/ Check(r) \/ Die(r)
  <2>1. CASE Explain(r)
    BY <2>1, <1>0 DEF Explain, Throw
  <2>2. CASE Check(r)
    BY <2>2, <1>0 DEF Check
  <2>3. CASE Die(r)
    BY <2>3, <1>0 DEF Die, Throw, Working
  <2> QED BY <1>4, <2>1, <2>2, <2>3
<1>5. CASE Create(r)
  <2>1. row[r] = None /\ pc[r] = "create" /\ input' = input
    BY <1>5 DEF Create, RequestInv
  <2>2. pc'[r] # "idle"
    BY <1>5, <1>0 DEF Create
  <2> QED BY <1>5, <2>1, <2>2 DEF Create
<1>6. CASE GiveBack(r)
  BY <1>6 DEF GiveBack, TypeOK
<1>7. CASE Link(r) \/ Add(r)
  BY <1>7, <1>0 DEF Link, Add
<1>8. CASE MarkFailed(r)
  <2>1. row[r] \in Row /\ row[r] # None /\ pc[r] = "markFailed" /\ input' = input
    BY <1>8 DEF MarkFailed, RequestInv, TypeOK
  <2>2. row' = row \/ row'[r] = [row[r] EXCEPT !.status = "FAILED"]
    BY <1>8 DEF MarkFailed, TypeOK
  <2>3. [row[r] EXCEPT !.status = "FAILED"] \in Row
    BY <2>1 DEF Row
  <2>4. row'[r] # None
    BY <2>1, <2>2, <2>3, IntentAssumption
  <2>5. pc'[r] = "done"
    BY <1>8 DEF MarkFailed, TypeOK
  <2> QED BY <2>1, <2>2, <2>4, <2>5 DEF Row
<1> QED BY <1>1, <1>2, <1>3, <1>4, <1>5, <1>6, <1>7, <1>8 DEF ActsOn, Step

\* So a row is never lost or rewritten but for its status, whoever acts.
LEMMA RowsKept ==
  ASSUME TypeOK, NEW r \in Requests, ActsOn(r), RequestInv(r),
         NEW q \in Requests, row[q] # None
  PROVE  /\ row'[q] # None
         /\ row'[q].sender = row[q].sender
         /\ row'[q].key = row[q].key
         /\ row'[q].intent = row[q].intent
         /\ row'[q].plan = row[q].plan
  BY OthersKept, OwnKept

-----------------------------------------------------------------------------
(* The parts of the inductive invariant, one step of request r at a time.  *)

\* What r knows at its next step follows from what it knew and what it did.
LEMMA RequestInvOwn ==
  ASSUME TypeOK, NEW r \in Requests, RequestInv(r), RowInv(r), ActsOn(r)
  PROVE  RequestInv(r)'
<1> USE DEF TypeOK, RequestInv
<1>0. ASSUME NEW step \in Steps, NEW code \in {400, 404, 409, 410, 500}, NEW q \in Requests
      PROVE  /\ Goto(r, step) => pc'[r] = step /\ status' = status /\ answer' = answer
             /\ Decide(r, step, code) => pc'[r] = step /\ status'[r] = code
             /\ Reply(r, step, q) => pc'[r] = step /\ answer'[r] = q
  BY DEF Goto, Decide, Reply
<1>00. Steps = {"idle", "replay", "claim", "lost", "explain", "check", "create",
                "winner", "giveBack", "link", "add", "markFailed", "done"}
  BY DEF Steps
<1>1. CASE Receive(r)
  <2>1. pc'[r] = "replay" /\ input'[r] \in Inputs /\ row' = row
    BY <1>1, <1>0, <1>00 DEF Receive
  <2>2. input'[r] # None /\ row[r] = None
    BY <1>1, <2>1, IntentAssumption DEF Receive, RowInv
  <2> QED BY <2>1, <2>2
<1>2. CASE Replay(r)
  <2>1. pc'[r] \in {"done", "claim"}
    BY <1>2, <1>0, <1>00 DEF Replay
  <2> QED BY <1>2, <2>1 DEF Replay
<1>3. CASE Claim(r)
  <2>1. /\ pc'[r] \in {"done", "lost", "check"}
        /\ pc'[r] = "check" => Own(r)
        /\ input' = input /\ row' = row /\ plan' = plan
    BY <1>3, <1>0, <1>00 DEF Claim, Throw, Claimable
  <2> QED BY <1>3, <2>1 DEF Claim, Own, Intent
<1>4. CASE Lost(r)
  <2>1. pc'[r] \in {"done", "explain"}
    BY <1>4, <1>0, <1>00 DEF Lost
  <2> QED BY <1>4, <2>1 DEF Lost
<1>5. CASE Explain(r)
  <2>1. pc'[r] = "done" /\ input' = input /\ pc[r] = "explain"
    BY <1>5, <1>0, <1>00 DEF Explain, Throw
  <2> QED BY <2>1
<1>6. CASE Check(r)
  <2>1. /\ \/ pc'[r] = "create" /\ verifySignedTransaction(plan[Intent(r)], input[r].signed)
           \/ pc'[r] = "giveBack" /\ status'[r] \in {400, 500}
        /\ input' = input /\ row' = row /\ plan' = plan /\ pc[r] = "check"
    BY <1>6, <1>0, <1>00 DEF Check, intentVars
  <2> QED BY <2>1 DEF Own, Intent
<1>7. CASE Create(r)
  <2>1. /\ \/ pc'[r] = "winner" /\ row' = row
           \/ pc'[r] = "link" /\ row' = [row EXCEPT ![r] = NewRow(r)]
           \/ pc'[r] = "giveBack" /\ status'[r] = 500
        /\ input' = input /\ plan' = plan /\ pc[r] = "create"
    BY <1>7, <1>0, <1>00 DEF Create, intentVars
  <2>2. NewRow(r) # None
    BY <2>1, NewRowType
  <2> QED BY <2>1, <2>2 DEF Own, Intent
<1>8. CASE Winner(r)
  <2>1. /\ pc'[r] = "giveBack"
        /\ \/ status'[r] = 500
           \/ \E q \in Requests : answer'[r] = q /\ Found(q, r)
        /\ input' = input /\ row' = row /\ plan' = plan /\ pc[r] = "winner"
    BY <1>8, <1>0, <1>00 DEF Winner, intentVars
  <2> QED BY <2>1 DEF Own, Intent, Found
<1>9. CASE GiveBack(r)
  BY <1>9 DEF GiveBack
<1>10. CASE Link(r)
  <2>1. /\ pc'[r] \in {"add", "markFailed"}
        /\ pc'[r] = "markFailed" => status'[r] = 500
        /\ input' = input /\ row' = row /\ plan' = plan /\ pc[r] = "link"
    BY <1>10, <1>0, <1>00 DEF Link
  <2> QED BY <2>1 DEF Own, Intent
<1>11. CASE Add(r)
  <2>1. /\ pc'[r] \in {"done", "markFailed"}
        /\ pc'[r] = "markFailed" => status'[r] = 500
        /\ input' = input /\ row' = row /\ plan' = plan /\ pc[r] = "add"
    BY <1>11, <1>0, <1>00 DEF Add, intentVars
  <2> QED BY <2>1 DEF Own, Intent
<1>12. CASE MarkFailed(r)
  BY <1>12 DEF MarkFailed
<1>13. CASE Die(r)
  <2>1. pc'[r] = "done" /\ input' = input /\ pc[r] # "idle"
    BY <1>13, <1>0, <1>00 DEF Die, Throw, Working
  <2> QED BY <2>1
<1> QED BY <1>1, <1>2, <1>3, <1>4, <1>5, <1>6, <1>7, <1>8, <1>9, <1>10, <1>11, <1>12,
           <1>13 DEF ActsOn, Step

\* Nobody else disturbs it.
LEMMA RequestInvOther ==
  ASSUME TypeOK, NEW r \in Requests, RequestInv(r), ActsOn(r),
         NEW q \in Requests, q # r, RequestInv(q)
  PROVE  RequestInv(q)'
<1>1. /\ pc'[q] = pc[q] /\ input'[q] = input[q] /\ row'[q] = row[q]
      /\ status'[q] = status[q] /\ answer'[q] = answer[q]
  BY OthersKept
<1>2. ASSUME pc[q] # "idle" PROVE plan'[Intent(q)] = plan[Intent(q)]
  BY <1>2, InputType, IntentsKept DEF RequestInv
<1>3. Own(q) /\ pc[q] # "idle" => Own(q)'
  BY <1>1, <1>2 DEF Own, Intent
<1>4. ASSUME NEW a \in Requests, Found(a, q) PROVE Found(a, q)'
  BY <1>1, <1>4, RowsKept DEF Found
<1> QED BY <1>1, <1>2, <1>3, <1>4 DEF RequestInv, Intent

\* Every row says what its request says.
LEMMA RowInvStep ==
  ASSUME TypeOK, NEW r \in Requests, RequestInv(r), ActsOn(r),
         NEW q \in Requests, RowInv(q)
  PROVE  RowInv(q)'
<1>0. SUFFICES ASSUME row'[q] # None PROVE RowInv(q)'
  BY DEF RowInv
<1>1. CASE row[q] # None
  <2>1. /\ pc[q] # "idle" /\ row[q].sender = input[q].user /\ row[q].key = input[q].key
        /\ row[q].intent = Intent(q) /\ row[q].plan = plan[Intent(q)] /\ Own(q)
    BY <1>1 DEF RowInv
  <2>2. input'[q] = input[q] /\ pc'[q] # "idle"
    BY <2>1, OthersKept, OwnKept
  <2>3. Intent(q)' = Intent(q)
    BY <2>2 DEF Intent
  <2>5. plan'[Intent(q)] = plan[Intent(q)]
    BY <1>1, <2>1, IntentsKept DEF TypeOK, Row
  <2>6. Own(q)'
    BY <2>1, <2>2, <2>3, <2>5 DEF Own
  <2> QED BY <1>1, <2>1, <2>2, <2>3, <2>5, <2>6, RowsKept DEF RowInv
<1>2. CASE row[q] = None
  <2>1. /\ q = r /\ Create(r) /\ row'[r] = NewRow(r)
    BY <1>0, <1>2, OthersKept, OwnKept DEF TypeOK
  <2>2. pc[r] = "create" /\ input' = input /\ pc'[r] # "idle" /\ plan' = plan /\ Own(r)
    BY <2>1, OwnKept DEF Create, intentVars, RequestInv
  <2>3. Intent(r)' = Intent(r) /\ Own(r)'
    BY <2>2 DEF Intent, Own
  <2> QED BY <2>1, <2>2, <2>3, NewRowType DEF RowInv
<1> QED BY <1>1, <1>2

\* What is queued was verified.
LEMMA QueueInvStep ==
  ASSUME TypeOK, NEW r \in Requests, ActsOn(r), QueueInv,
         \A q \in Requests : RequestInv(q) /\ RowInv(q)
  PROVE  QueueInv'
<1>1. ASSUME NEW job \in queue'
      PROVE  \/ job \in queue
             \/ pc[r] = "add" /\ job = <<r, input[r].signed>> /\ row' = row /\ input' = input
  BY <1>1 DEF ActsOn, Receive, Step, Replay, Claim, Lost, Explain, Check, Create, Winner,
              GiveBack, Link, Add, MarkFailed, Die
<1>2. ASSUME NEW job \in queue
      PROVE  /\ row'[job[1]] # None
             /\ job[2] = input'[job[1]].signed
             /\ verifySignedTransaction(row'[job[1]].plan, job[2])
  <2>1. job[1] \in Requests /\ row[job[1]] # None /\ job[2] = input[job[1]].signed
        /\ verifySignedTransaction(row[job[1]].plan, job[2])
    BY <1>2 DEF TypeOK, QueueInv
  <2>2. input'[job[1]] = input[job[1]]
    BY <2>1, OthersKept, OwnKept DEF RowInv
  <2> QED BY <2>1, <2>2, RowsKept
<1>3. ASSUME pc[r] = "add", row' = row, input' = input
      PROVE  /\ row'[r] # None
             /\ verifySignedTransaction(row'[r].plan, input'[r].signed)
  BY <1>3 DEF RequestInv, RowInv
<1>4. ASSUME NEW job \in queue'
      PROVE  /\ row'[job[1]] # None
             /\ job[2] = input'[job[1]].signed
             /\ verifySignedTransaction(row'[job[1]].plan, job[2])
  BY <1>1, <1>2, <1>3, <1>4
<1> QED BY <1>4 DEF QueueInv

\* An intent has a plan from the moment it exists, and its link is a row of it.
LEMMA IntentInvStep ==
  ASSUME TypeOK, NEW r \in Requests, ActsOn(r), RequestInv(r), RowInv(r),
         NEW i \in Intents, IntentInv(i)
  PROVE  IntentInv(i)'
<1>1. plan' = plan /\ (state'[i] = "NONE" <=> state[i] = "NONE")
  <2>1. CASE Claim(r)
    BY <2>1, IntentsKept DEF Claim, Claimable, TypeOK
  <2>2. CASE GiveBack(r)
    BY <2>2, IntentsKept DEF GiveBack, TypeOK
  <2>3. CASE ~Claim(r) /\ ~GiveBack(r)
    <3>1. state' = state
      BY <2>3 DEF ActsOn, Step, Receive, Replay, Lost, Explain, Check, Create, Winner,
                  Link, Add, MarkFailed, Die, intentVars
    <3> QED BY <3>1, IntentsKept
  <2> QED BY <2>1, <2>2, <2>3
<1>2. ASSUME link'[i] # None PROVE link'[i] \in RowOf(i)'
  <2>1. CASE link'[i] = link[i]
    <3>1. link[i] \in RowOf(i)
      BY <1>2, <2>1 DEF IntentInv
    <3> QED BY <2>1, <3>1, RowsKept DEF RowOf
  <2>2. CASE link'[i] # link[i]
    <3>1. Link(r)
      BY <2>2 DEF ActsOn, Step, Receive, Replay, Claim, Lost, Explain, Check, Create,
                  Winner, GiveBack, Add, MarkFailed, Die, intentVars
    <3>2. i = Intent(r) /\ link'[i] = r /\ row[r] # None /\ row' = row
      BY <2>2, <3>1, IntentsKept DEF Link, RequestInv, TypeOK
    <3> QED BY <3>2 DEF RowInv, RowOf
  <2> QED BY <2>1, <2>2
<1> QED BY <1>1, <1>2 DEF IntentInv

\* Only r enters or leaves the hands an intent is in, and only those of its own.
LEMMA HandsKept ==
  ASSUME TypeOK, NEW r \in Requests, ActsOn(r), RequestInv(r), RowInv(r),
         NEW i \in Intents
  PROVE  /\ \A q \in Requests : q # r =>
              (q \in Holders(i)' <=> q \in Holders(i)) /\ (q \in RowOf(i)' <=> q \in RowOf(i))
         /\ RowOf(i) \subseteq RowOf(i)'
         /\ i # Intent(r) \/ pc[r] = "idle" =>
              Holders(i)' = Holders(i) /\ RowOf(i)' = RowOf(i)
<1>1. ASSUME NEW q \in Requests, q # r
      PROVE  (q \in Holders(i)' <=> q \in Holders(i)) /\ (q \in RowOf(i)' <=> q \in RowOf(i))
  <2>1. pc'[q] = pc[q] /\ input'[q] = input[q] /\ row'[q] = row[q]
    BY <1>1, OthersKept
  <2> QED BY <2>1 DEF Holders, RowOf, Intent
<1>2. RowOf(i) \subseteq RowOf(i)'
  BY RowsKept DEF RowOf
<1>3. ASSUME i # Intent(r) \/ pc[r] = "idle"
      PROVE  (r \in Holders(i)' <=> r \in Holders(i)) /\ (r \in RowOf(i)' <=> r \in RowOf(i))
  <2>1. CASE pc[r] = "idle"
    <3>1. Receive(r)
      BY <2>1 DEF ActsOn, Step, Replay, Claim, Lost, Explain, Check, Create, Winner,
                  GiveBack, Link, Add, MarkFailed, Die, Working
    <3>2. pc'[r] = "replay" /\ row' = row
      BY <3>1 DEF Receive, Goto, TypeOK
    <3> QED BY <2>1, <3>2 DEF Holders, RowOf
  <2>2. CASE pc[r] # "idle"
    <3>1. input' = input /\ i # Intent(r)
      BY <1>3, <2>2, OwnKept
    <3>2. r \notin Holders(i)' /\ r \notin Holders(i)
      BY <3>1 DEF Holders, Intent
    <3>3. r \in RowOf(i)' <=> r \in RowOf(i)
      <4>1. CASE row[r] # None
        BY <4>1, OwnKept DEF RowOf
      <4>2. CASE row[r] = None /\ row' # row
        BY <3>1, <4>2, OwnKept, NewRowType DEF RowOf, Create, TypeOK
      <4> QED BY <4>1, <4>2 DEF RowOf
    <3> QED BY <3>2, <3>3
  <2> QED BY <2>1, <2>2
<1>4. RowOf(i) \subseteq Requests /\ RowOf(i)' \subseteq Requests
      /\ Holders(i) \subseteq Requests /\ Holders(i)' \subseteq Requests
  BY DEF RowOf, Holders
<1> QED BY <1>1, <1>2, <1>3, <1>4

\* Nothing new gets hold of the intent, and it does not change its state: it
\* stays in one hand.
LEMMA NoNewHand ==
  ASSUME NEW i \in Intents, OneHand(i),
         Holders(i)' \cup RowOf(i)' \subseteq Holders(i) \cup RowOf(i),
         "twice" \in mishap[i] => "twice" \in mishap'[i],
         state'[i] = state[i] \/ Holders(i)' \cup RowOf(i)' = {},
         \A q \in Holders(i)' : row'[q] # None => pc'[q] = "link"
  PROVE  OneHand(i)'
  BY DEF OneHand

\* The last part of OneHand, for the requests other than r.
LEMMA OthersUnborn ==
  ASSUME TypeOK, NEW r \in Requests, ActsOn(r), RequestInv(r), RowInv(r),
         NEW i \in Intents, OneHand(i), "twice" \notin mishap[i],
         r \in Holders(i)' => row'[r] = None \/ pc'[r] = "link"
  PROVE  \A q \in Holders(i)' : row'[q] # None => pc'[q] = "link"
<1> SUFFICES ASSUME NEW q \in Holders(i)', row'[q] # None PROVE pc'[q] = "link"
  OBVIOUS
<1>1. q \in Requests
  BY DEF Holders
<1>2. CASE q # r
  BY <1>1, <1>2, HandsKept, OthersKept DEF OneHand
<1> QED BY <1>2

\* Where r stands to its intent, before and after its step.
LEMMA OwnHand ==
  ASSUME TypeOK, NEW r \in Requests, RequestInv(r), RowInv(r), pc[r] # "idle"
  PROVE  /\ r \in Holders(Intent(r)) <=>
              pc[r] \in {"check", "create", "winner", "giveBack", "link"}
         /\ r \in RowOf(Intent(r)) <=> row[r] # None
  BY DEF Holders, RowOf, RequestInv, RowInv

LEMMA OwnHandNext ==
  ASSUME TypeOK, NEW r \in Requests, ActsOn(r), RequestInv(r), RowInv(r), pc[r] # "idle"
  PROVE  /\ r \in Holders(Intent(r))' <=>
              pc'[r] \in {"check", "create", "winner", "giveBack", "link"}
         /\ r \in RowOf(Intent(r))' <=> row'[r] # None
         /\ Intent(r)' = Intent(r)
<1>1. input' = input /\ pc'[r] # "idle"
  BY OwnKept
<1>2. RequestInv(r)' /\ RowInv(r)'
  BY RequestInvOwn, RowInvStep
<1> QED BY <1>1, <1>2 DEF Holders, RowOf, RequestInv, RowInv, Intent

\* An intent stays in one hand.
LEMMA OneHandStep ==
  ASSUME TypeOK, NEW r \in Requests, ActsOn(r), RequestInv(r), RowInv(r),
         NEW i \in Intents, IntentInv(i), OneHand(i)
  PROVE  OneHand(i)'
<1> DEFINE hands == Holders(i) \cup RowOf(i)
<1>0. "twice" \in mishap[i] => "twice" \in mishap'[i]
  BY IntentsKept
<1>1. CASE i # Intent(r) \/ pc[r] = "idle"
  <2>1. Holders(i)' = Holders(i) /\ RowOf(i)' = RowOf(i) /\ state'[i] = state[i]
        /\ mishap'[i] = mishap[i]
    BY <1>1, HandsKept, IntentsKept
  <2>2. "twice" \notin mishap[i] => (r \in Holders(i)' => row'[r] = None \/ pc'[r] = "link")
    <3>1. ASSUME r \in Holders(i) PROVE FALSE
      BY <1>1, <3>1 DEF Holders
    <3> QED BY <2>1, <3>1
  <2>3. CASE "twice" \notin mishap[i]
    BY <2>1, <2>2, <2>3, OthersUnborn, NoNewHand
  <2>4. CASE "twice" \in mishap[i]
    BY <1>0, <2>4 DEF OneHand
  <2> QED BY <2>3, <2>4
<1>2. CASE i = Intent(r) /\ pc[r] # "idle"
  <2> SUFFICES ASSUME "twice" \notin mishap'[i] PROVE OneHand(i)'
    BY DEF OneHand
  <2>0. /\ "twice" \notin mishap[i]
        /\ \A p, q \in hands : p = q
        /\ hands # {} => state[i] = "USED"
        /\ \A q \in Holders(i) : row[q] # None => pc[q] = "link"
    BY <1>0 DEF OneHand
  <2>a. /\ r \in Holders(i) <=> pc[r] \in {"check", "create", "winner", "giveBack", "link"}
        /\ r \in RowOf(i) <=> row[r] # None
        /\ r \in Holders(i)' <=> pc'[r] \in {"check", "create", "winner", "giveBack", "link"}
        /\ r \in RowOf(i)' <=> row'[r] # None
    BY <1>2, OwnHand, OwnHandNext
  <2>b. /\ hands \subseteq Requests
        /\ (hands)' \subseteq Requests
        /\ \A q \in Requests : q # r => (q \in (hands)' <=> q \in hands)
    BY HandsKept DEF Holders, RowOf
  <2>c. ASSUME state' = state \/ (hands)' = {},
               r \in (hands)' => r \in hands,
               r \in Holders(i)' => row'[r] = None \/ pc'[r] = "link"
        PROVE  OneHand(i)'
    <3>1. (hands)' \subseteq hands
      BY <2>b, <2>c
    <3> QED BY <1>0, <2>0, <2>c, <3>1, OthersUnborn, NoNewHand
  <2>d. \A step, code, q :
          Goto(r, step) \/ Reply(r, step, q) \/ Decide(r, step, code) => pc'[r] = step
    BY DEF Goto, Reply, Decide, TypeOK
  <2> HIDE DEF hands
  <2>h. r \in hands <=> r \in Holders(i) \/ r \in RowOf(i)
    BY DEF hands
  <2>hh. r \in (hands)' <=> r \in Holders(i)' \/ r \in RowOf(i)'
    BY DEF hands
  <2>1. CASE Replay(r) \/ Lost(r)
    BY <2>1, <2>a, <2>c, <2>d, <2>h, <2>hh DEF Replay, Lost, intentVars
  <2>2. CASE Explain(r)
    BY <2>2, <2>a, <2>c, <2>d, <2>h, <2>hh DEF Explain, Throw, intentVars
  <2>3. CASE Claim(r)
    <3>1. CASE ~Claimable(r)
      <4>1. pc'[r] = "lost" /\ state' = state /\ row' = row
        BY <2>3, <2>d, <3>1 DEF Claim
      <4> QED BY <4>1, <2>a, <2>c, <2>h, <2>hh
    <3>2. CASE Claimable(r)
      <4>1. state[i] = "READY" /\ state'[i] = "USED" /\ row' = row /\ row[r] = None
        BY <1>2, <2>3, <3>2 DEF Claim, Claimable, TypeOK, RequestInv
      <4>2. hands = {}
        BY <2>0, <4>1
      <4>3. (hands)' \subseteq {r}
        BY <2>b, <4>2
      <4>4. \A p, q \in (hands)' : p = q
        BY <4>3
      <4>5. \A q \in Holders(i)' : row'[q] # None => pc'[q] = "link"
        BY <4>1, <4>3 DEF hands
      <4> QED BY <4>1, <4>4, <4>5 DEF OneHand, hands
    <3> QED BY <3>1, <3>2
  <2>4. CASE Check(r)
    <3>1. pc[r] = "check" /\ row[r] = None /\ state' = state /\ row' = row
      BY <2>4 DEF Check, intentVars, RequestInv
    <3> QED BY <3>1, <2>a, <2>c, <2>h, <2>hh
  <2>5. CASE Create(r)
    <3>1. pc[r] = "create" /\ row[r] = None /\ state' = state
      BY <2>5 DEF Create, intentVars, RequestInv
    <3>2. row' = row \/ pc'[r] = "link"
      <4>1. ~Struck(r, "createLost", "twice")
        BY <1>2 DEF Struck, TypeOK
      <4> QED BY <2>5, <2>d, <4>1 DEF Create
    <3> QED BY <3>1, <3>2, <2>a, <2>c, <2>h, <2>hh
  <2>6. CASE Winner(r)
    <3>1. pc[r] = "winner" /\ row[r] = None /\ state' = state /\ row' = row
      BY <2>6 DEF Winner, intentVars, RequestInv
    <3> QED BY <3>1, <2>a, <2>c, <2>h, <2>hh
  <2>7. CASE GiveBack(r)
    <3>1. pc[r] = "giveBack" /\ pc'[r] = "done" /\ row' = row
      BY <2>7 DEF GiveBack, TypeOK
    <3>2. r \in hands /\ row[r] = None
      BY <2>0, <2>a, <2>h, <3>1
    <3>3. (hands)' = {}
      BY <2>0, <2>a, <2>b, <2>hh, <3>1, <3>2
    <3> QED BY <2>c, <2>hh, <3>3
  <2>8. CASE Link(r)
    <3>1. pc[r] = "link" /\ pc'[r] \in {"add", "markFailed"} /\ state' = state /\ row' = row
      BY <2>8, <2>d DEF Link
    <3> QED BY <3>1, <2>a, <2>c, <2>h, <2>hh
  <2>9. CASE Add(r)
    <3>1. pc[r] = "add" /\ pc'[r] \in {"done", "markFailed"} /\ state' = state /\ row' = row
      BY <2>9, <2>d DEF Add, intentVars
    <3> QED BY <3>1, <2>a, <2>c, <2>h, <2>hh
  <2>10. CASE MarkFailed(r)
    <3>1. pc'[r] = "done" /\ state' = state /\ row[r] # None
      BY <2>10 DEF MarkFailed, intentVars, TypeOK, RequestInv
    <3> QED BY <3>1, <2>a, <2>c, <2>h, <2>hh
  <2>11. CASE Die(r)
    <3>1. pc'[r] = "done" /\ state' = state /\ row' = row
      BY <2>11, <2>d DEF Die, Throw, intentVars
    <3> QED BY <3>1, <2>a, <2>c, <2>h, <2>hh
  <2>12. CASE Receive(r)
    BY <1>2, <2>12 DEF Receive
  <2> QED BY <2>1, <2>2, <2>3, <2>4, <2>5, <2>6, <2>7, <2>8, <2>9, <2>10, <2>11, <2>12
         DEF ActsOn, Step
<1> QED BY <1>1, <1>2

\* UsedIsBacked of one intent.
Backed(i) ==
  state[i] = "USED" /\ "dropped" \notin mishap[i] => RowOf(i) # {} \/ Holders(i) # {}

\* An intent that is spent stays backed: whoever lets go of it gives it back,
\* has a row of it, or leaves a mark.
LEMMA BackedStep ==
  ASSUME TypeOK, NEW r \in Requests, ActsOn(r), RequestInv(r), RowInv(r),
         NEW i \in Intents, IntentInv(i), Backed(i)
  PROVE  Backed(i)'
<1>1. CASE i # Intent(r) \/ pc[r] = "idle"
  <2>1. Holders(i)' = Holders(i) /\ RowOf(i)' = RowOf(i) /\ state'[i] = state[i]
        /\ mishap'[i] = mishap[i]
    BY <1>1, HandsKept, IntentsKept
  <2> QED BY <2>1 DEF Backed
<1>2. CASE i = Intent(r) /\ pc[r] # "idle"
  <2> SUFFICES ASSUME state'[i] = "USED", "dropped" \notin mishap'[i],
                      RowOf(i)' = {}, Holders(i)' = {}
               PROVE  FALSE
    BY DEF Backed
  <2>a. /\ pc'[r] \notin {"check", "create", "winner", "giveBack", "link"}
        /\ row'[r] = None
    BY <1>2, OwnHandNext
  <2>b. RowOf(i) = {} /\ Holders(i) \subseteq {r} /\ row[r] = None /\ link[i] = None
    BY <1>2, HandsKept, OwnHand DEF Holders, IntentInv
  <2>c. "dropped" \notin mishap[i]
    BY IntentsKept
  <2>d. \A step, code, q :
          Goto(r, step) \/ Reply(r, step, q) \/ Decide(r, step, code) => pc'[r] = step
    BY DEF Goto, Reply, Decide, TypeOK
  <2>e. \A fault : ~Struck(r, fault, "dropped")
    BY <1>2 DEF Struck, TypeOK
  <2>f. ASSUME state'[i] = state[i],
               pc[r] \notin {"check", "create", "winner", "giveBack", "link"}
        PROVE  FALSE
    <3>1. r \notin Holders(i)
      BY <1>2, <2>f, OwnHand
    <3>2. Holders(i) = {}
      BY <2>b, <3>1
    <3> QED BY <2>b, <2>c, <2>f, <3>2 DEF Backed
  <2>1. CASE Replay(r) \/ Lost(r) \/ Explain(r)
    BY <2>1, <2>f DEF Replay, Lost, Explain, intentVars
  <2>2. CASE Claim(r)
    <3>1. CASE Claimable(r)
      BY <2>2, <2>a, <2>d, <2>e, <3>1 DEF Claim
    <3>2. CASE ~Claimable(r)
      BY <2>2, <2>f, <3>2 DEF Claim
    <3> QED BY <3>1, <3>2
  <2>3. CASE Check(r)
    BY <2>3, <2>a, <2>d DEF Check
  <2>4. CASE Create(r)
    BY <2>4, <2>a, <2>d DEF Create
  <2>5. CASE Winner(r)
    BY <2>5, <2>a, <2>d DEF Winner
  <2>6. CASE GiveBack(r)
    <3>1. state' = IF state[i] = "USED" /\ link[i] = None
                   THEN [state EXCEPT ![i] = "READY"] ELSE state
      BY <1>2, <2>6, <2>e DEF GiveBack
    <3>2. state'[i] # "USED"
      BY <2>b, <3>1 DEF TypeOK
    <3> QED BY <3>2
  <2>7. CASE Link(r) \/ Add(r) \/ MarkFailed(r)
    BY <2>7, <2>b DEF RequestInv, Link, Add, MarkFailed
  <2>8. CASE Die(r)
    <3>1. pc[r] \in {"replay", "claim", "lost", "explain"} /\ state' = state
      BY <2>8, <2>e DEF Die, intentVars
    <3> QED BY <2>f, <3>1
  <2>9. CASE Receive(r)
    BY <1>2, <2>9 DEF Receive
  <2> QED BY <2>1, <2>2, <2>3, <2>4, <2>5, <2>6, <2>7, <2>8, <2>9 DEF ActsOn, Step
<1> QED BY <1>1, <1>2

\* Planning an intent, or letting it expire, disturbs none of it.
LEMMA PrepareStep ==
  ASSUME IInv, NEW j \in Intents, Prepare(j) \/ Expire(j)
  PROVE  /\ \A r \in Requests : RequestInv(r)' /\ RowInv(r)'
         /\ QueueInv'
         /\ \A i \in Intents : IntentInv(i)' /\ OneHand(i)' /\ Backed(i)'
<1>1. UNCHANGED <<link, row, queue, pc, input, status, answer, mishap>>
  BY DEF Prepare, Expire
<1>2. \A i \in Intents : /\ plan[i] # None => plan'[i] = plan[i]
                         /\ state[i] # "NONE" => state'[i] = state[i]
                         /\ state[i] = "NONE" => state'[i] \in {"NONE", "READY"}
                         /\ plan'[i] = None <=> state'[i] = "NONE"
  <2>1. CASE Expire(j)
    BY <2>1 DEF Expire, IInv, TypeOK, IntentInv
  <2>2. CASE Prepare(j)
    <3>1. plan[j] = None /\ state[j] = "NONE"
      BY <2>2 DEF Prepare, IInv, IntentInv
    <3>2. plan'[j] # None /\ state'[j] = "READY"
      <4>1. \E p \in Plans : plan' = [plan EXCEPT ![j] = p]
        BY <2>2 DEF Prepare
      <4>2. state' = [state EXCEPT ![j] = "READY"]
        BY <2>2 DEF Prepare
      <4> QED BY <4>1, <4>2, IntentAssumption DEF IInv, TypeOK
    <3>3. \A i \in Intents : i # j => plan'[i] = plan[i] /\ state'[i] = state[i]
      BY <2>2 DEF Prepare, IInv, TypeOK
    <3> QED BY <3>1, <3>2, <3>3 DEF IInv, IntentInv
  <2> QED BY <2>1, <2>2
<1>3. ASSUME NEW r \in Requests PROVE RequestInv(r)' /\ RowInv(r)'
  <2>1. RequestInv(r) /\ RowInv(r) /\ Intent(r)' = Intent(r)
    BY <1>1 DEF IInv, Intent
  <2>2. ASSUME Own(r), input[r] # None
        PROVE  Own(r)' /\ plan'[Intent(r)] = plan[Intent(r)]
    <3>1. Intent(r) \in Intents /\ plan[Intent(r)] # None
      BY <2>2, InputType DEF IInv, Own
    <3> QED BY <1>1, <1>2, <2>1, <2>2, <3>1 DEF Own
  <2>3. \A q \in Requests : Found(q, r)' <=> Found(q, r)
    BY <1>1 DEF Found
  <2>4. RequestInv(r)'
    BY <1>1, <2>1, <2>2, <2>3 DEF RequestInv
  <2>5. RowInv(r)'
    BY <1>1, <2>1, <2>2 DEF RowInv, RequestInv
  <2> QED BY <2>4, <2>5
<1>4. QueueInv'
  BY <1>1 DEF QueueInv, IInv
<1>5. ASSUME NEW i \in Intents PROVE IntentInv(i)' /\ OneHand(i)' /\ Backed(i)'
  <2>1. Holders(i)' = Holders(i) /\ RowOf(i)' = RowOf(i)
    BY <1>1 DEF Holders, RowOf, Intent
  <2>2. IntentInv(i)'
    BY <1>1, <1>2, <2>1 DEF IInv, IntentInv
  <2>3. OneHand(i)'
    BY <1>1, <1>2, <2>1 DEF IInv, OneHand
  <2>4. Backed(i)'
    BY <1>1, <1>2, <2>1 DEF IInv, UsedIsBacked, Backed
  <2> QED BY <2>2, <2>3, <2>4
<1> QED BY <1>3, <1>4, <1>5

-----------------------------------------------------------------------------
(* The inductive invariant.                                                *)

LEMMA IInvInit == Init => IInv
<1> SUFFICES ASSUME Init PROVE IInv
  OBVIOUS
<1>1. TypeOK
  BY TypeInit
<1>2. ASSUME NEW r \in Requests PROVE RequestInv(r) /\ RowInv(r)
  BY DEF Init, RequestInv, RowInv
<1>3. ASSUME NEW i \in Intents PROVE IntentInv(i) /\ OneHand(i)
  BY DEF Init, IntentInv, OneHand, Holders, RowOf
<1> QED BY <1>1, <1>2, <1>3 DEF Init, IInv, QueueInv, UsedIsBacked

LEMMA IInvNext == IInv /\ [Next]_vars => IInv'
<1> SUFFICES ASSUME IInv, [Next]_vars PROVE IInv'
  OBVIOUS
<1>0. /\ TypeOK /\ QueueInv
      /\ \A r \in Requests : RequestInv(r) /\ RowInv(r)
      /\ \A i \in Intents : IntentInv(i) /\ OneHand(i) /\ Backed(i)
  BY DEF IInv, UsedIsBacked, Backed
<1>1. TypeOK'
  BY <1>0, TypeNext
<1>2. /\ QueueInv'
      /\ \A r \in Requests : RequestInv(r)' /\ RowInv(r)'
      /\ \A i \in Intents : IntentInv(i)' /\ OneHand(i)' /\ Backed(i)'
  <2>1. ASSUME NEW r \in Requests, ActsOn(r) PROVE QueueInv'
    BY <1>0, <2>1, QueueInvStep
  <2>2. ASSUME NEW r \in Requests, ActsOn(r), NEW q \in Requests
        PROVE  RequestInv(q)' /\ RowInv(q)'
    BY <1>0, <2>2, RequestInvOwn, RequestInvOther, RowInvStep
  <2>3. ASSUME NEW r \in Requests, ActsOn(r), NEW i \in Intents
        PROVE  IntentInv(i)' /\ OneHand(i)' /\ Backed(i)'
    BY <1>0, <2>3, IntentInvStep, OneHandStep, BackedStep
  <2>4. ASSUME NEW i \in Intents, Prepare(i) \/ Expire(i)
        PROVE  /\ QueueInv'
               /\ \A r \in Requests : RequestInv(r)' /\ RowInv(r)'
               /\ \A j \in Intents : IntentInv(j)' /\ OneHand(j)' /\ Backed(j)'
    BY <2>4, PrepareStep
  <2>5. CASE UNCHANGED vars
    BY <1>0, <2>5 DEF vars, QueueInv, RequestInv, RowInv, IntentInv, OneHand, Backed,
       Holders, RowOf, Own, Intent, Found
  <2> QED BY <2>1, <2>2, <2>3, <2>4, <2>5, NextCases
<1> QED BY <1>1, <1>2 DEF IInv, UsedIsBacked, Backed

\* The inductive invariant holds throughout.
LEMMA Invariance == Spec => []IInv
  BY IInvInit, IInvNext, PTL DEF Spec

-----------------------------------------------------------------------------
(* The theorems.                                                           *)

\* In every run of prepare() and submit() the intents, the rows and every request
\* keep their types: every plan stored names an asset its chain has.
THEOREM TypeCorrect == Spec => []TypeOK
  BY Invariance, PTL DEF IInv

\* However many submits race for an intent, under whatever keys, it is spent on
\* one transfer, and is never open again once it is.
THEOREM SpendingOnce == Spec => []SpentOnce
<1>1. IInv => SpentOnce
  BY DEF IInv, SpentOnce, OneHand
<1> QED BY <1>1, Invariance, PTL

\* No failed submit leaves an intent spent with nothing to show for it.
THEOREM Backing == Spec => []UsedIsBacked
  BY Invariance, PTL DEF IInv

LEMMA PositiveProduct == \A m, n \in Nat \ {0} : m * n \in Nat /\ m * n > 0
  OBVIOUS

\* What verification accepts makes the planned payment and no other.
LEMMA VerifiedPays ==
  ASSUME NEW p \in Plan, Legal(p.chain, p.asset), NEW s \in Signed,
         verifySignedTransaction(p, s)
  PROVE  Payments(s) = {[asset |-> p.asset, to |-> LowerCase[p.recipient],
                         units |-> toBaseUnits(p.amount, p.asset)]}
<1> DEFINE c == p.chain
           units == toBaseUnits(p.amount, p.asset)
           paid == [asset |-> p.asset, to |-> LowerCase[p.recipient], units |-> units]
           calls == {a \in Assets : /\ s.data.kind = "transfer"
                                    /\ Contract[s.chain][a] # None
                                    /\ SameAddress(Contract[s.chain][a], s.to)}
<1>1. s \in Transaction /\ s.chain = c /\ c \in Chains /\ p.asset \in Assets
  BY IntentAssumption DEF verifySignedTransaction, Plan
<1>2. units \in Nat /\ units > 0
  <2>1. p.amount \in Nat \ {0} /\ Scale[p.asset] \in Nat \ {0}
    BY IntentAssumption DEF Plan
  <2> QED BY <2>1, PositiveProduct DEF toBaseUnits
<1>3. CASE Contract[c][p.asset] # None
  <2>1. /\ SameAddress(s.to, Contract[c][p.asset]) /\ s.value = 0
        /\ s.data.kind = "transfer" /\ SameAddress(s.data.to, p.recipient)
        /\ s.data.amount = units
    BY <1>3 DEF verifySignedTransaction
  <2>2. calls = {p.asset}
    <3>1. p.asset \in calls
      BY <1>1, <1>3, <2>1 DEF SameAddress
    <3>2. ASSUME NEW a \in calls PROVE a = p.asset
      <4>1. LowerCase[Contract[c][a]] = LowerCase[Contract[c][p.asset]]
            /\ Contract[c][a] # None /\ a \in Assets
        BY <1>1, <2>1 DEF SameAddress
      <4> QED BY <1>1, <1>3, <4>1, IntentAssumption
    <3> QED BY <3>1, <3>2
  <2>3. {[asset |-> a, to |-> LowerCase[s.data.to], units |-> s.data.amount] : a \in calls}
          = {paid}
    <3>1. [asset |-> p.asset, to |-> LowerCase[s.data.to], units |-> s.data.amount] = paid
      BY <2>1 DEF SameAddress
    <3> HIDE DEF calls, paid
    <3> QED BY <2>2, <3>1
  <2>4. ~(s.value > 0)
    BY <2>1
  <2> QED BY <2>3, <2>4 DEF Payments
<1>4. CASE Contract[c][p.asset] = None
  <2>1. SameAddress(s.to, p.recipient) /\ s.value = units /\ s.data = NoData
    BY <1>4 DEF verifySignedTransaction
  <2>2. p.asset = Native[c]
    BY <1>4 DEF Legal
  <2>3. calls = {}
    BY <2>1 DEF NoData
  <2>4. {[asset |-> a, to |-> LowerCase[s.data.to], units |-> s.data.amount] : a \in calls}
          = {}
    BY <2>3
  <2>5. [asset |-> Native[s.chain], to |-> LowerCase[s.to], units |-> s.value] = paid
    BY <1>1, <2>1, <2>2 DEF SameAddress
  <2>6. s.value > 0
    BY <1>2, <2>1
  <2> QED BY <2>4, <2>5, <2>6 DEF Payments
<1> QED BY <1>3, <1>4

\* Whatever a client signs, what reaches the queue pays the planned recipient the
\* planned amount of the planned asset on the planned chain, and nothing else.
THEOREM PaysThePlan == Spec => []QueuedPaysPlan
<1>1. IInv => QueuedPaysPlan
  <2> SUFFICES ASSUME IInv, NEW job \in queue
               PROVE  LET p == row[job[1]].plan
                          s == job[2]
                      IN /\ s.chain = p.chain
                         /\ p.owner = row[job[1]].sender
                         /\ p = plan[row[job[1]].intent]
                         /\ Payments(s) = {[asset |-> p.asset, to |-> LowerCase[p.recipient],
                                            units |-> toBaseUnits(p.amount, p.asset)]}
    BY DEF QueuedPaysPlan
  <2> DEFINE r == job[1]
             p == row[r].plan
             s == job[2]
  <2>1. r \in Requests /\ s \in Signed /\ TypeOK /\ RowInv(r)
    BY DEF IInv, TypeOK
  <2>2. row[r] # None /\ verifySignedTransaction(p, s)
    BY DEF IInv, QueueInv
  <2>3. /\ row[r].sender = input[r].user /\ row[r].intent = Intent(r)
        /\ p = plan[Intent(r)] /\ plan[Intent(r)] # None /\ p.owner = input[r].user
    BY <2>1, <2>2 DEF RowInv, Own
  <2>4. Intent(r) \in Intents
    BY <2>1, <2>2, <2>3 DEF TypeOK, Row
  <2>5. p \in Plan /\ Legal(p.chain, p.asset)
    BY <2>1, <2>3, <2>4, PlanType
  <2>6. s.chain = p.chain
    BY <2>2 DEF verifySignedTransaction
  <2> HIDE DEF r, p, s
  <2>7. Payments(s) = {[asset |-> p.asset, to |-> LowerCase[p.recipient],
                        units |-> toBaseUnits(p.amount, p.asset)]}
    BY <2>1, <2>2, <2>5, VerifiedPays
  <2> QED BY <2>3, <2>6, <2>7 DEF r, p, s
<1> QED BY <1>1, Invariance, PTL

-----------------------------------------------------------------------------
(* Refinement of the atomic ledger.                                        *)

LEMMA LedgerInitially == Init => Ledger!LedgerInit
  BY IntentAssumption DEF Init, Ledger!LedgerInit, asked, transfers, outcome

\* How the mapped variables of one request move with it.
LEMMA LedgerFrame ==
  ASSUME IInv, NEW r \in Requests, ActsOn(r)
  PROVE  /\ pc[r] # "idle" => asked' = asked
         /\ row' = row => transfers' = transfers
         /\ row[r] # None => transfers' = transfers
         /\ outcome' = [outcome EXCEPT ![r] = outcome'[r]]
         /\ outcome[r] = None
         /\ pc'[r] # "done" => outcome' = outcome
<1>0. TypeOK /\ RequestInv(r) /\ RowInv(r)
  BY DEF IInv
<1>1. pc[r] # "idle" => asked' = asked
  BY <1>0, OwnKept DEF asked
<1>2. row' = row => transfers' = transfers
  BY DEF transfers
<1>3. row[r] # None => transfers' = transfers
  <2> SUFFICES ASSUME row[r] # None, NEW q \in Requests
               PROVE  row'[q] # None <=> row[q] # None
    BY DEF transfers
  <2> QED BY <1>0, OthersKept, OwnKept
<1>4. outcome' = [outcome EXCEPT ![r] = outcome'[r]]
  <2>1. \A q \in Requests : q # r =>
          status'[q] = status[q] /\ answer'[q] = answer[q] /\ pc'[q] = pc[q]
    BY <1>0, OthersKept
  <2>2. \A q \in Requests : q # r => outcome'[q] = outcome[q]
    BY <2>1 DEF outcome
  <2>3. /\ outcome = [q \in Requests |-> outcome[q]]
        /\ outcome' = [q \in Requests |-> outcome'[q]]
    BY DEF outcome
  <2> QED BY <2>2, <2>3
<1>5. pc[r] # "done" /\ outcome[r] = None
  BY <1>0, OwnKept DEF outcome
<1>6. pc'[r] # "done" => outcome' = outcome
  <2>1. pc'[r] # "done" => outcome'[r] = outcome[r]
    BY <1>5 DEF outcome
  <2>2. outcome = [outcome EXCEPT ![r] = outcome[r]]
    BY DEF outcome
  <2> QED BY <1>4, <2>1, <2>2
<1> QED BY <1>1, <1>2, <1>3, <1>4, <1>5, <1>6

\* A request that ends leaves the rows as they are, and a 201 names a row of its
\* own user under its own key.
LEMMA Ending ==
  ASSUME IInv, NEW r \in Requests, ActsOn(r), pc'[r] = "done"
  PROVE  /\ row' = row \/ row[r] # None
         /\ status'[r] = 201 => answer'[r] \in Requests /\ Found(answer'[r], r)
<1>0. TypeOK /\ RequestInv(r) /\ RowInv(r)
  BY DEF IInv
<1>1. ASSUME NEW step \in Steps \ {"done"}, NEW code, NEW q
      PROVE  ~Goto(r, step) /\ ~Reply(r, step, q) /\ ~Decide(r, step, code)
  BY <1>0 DEF Goto, Reply, Decide, TypeOK
<1>2. {"idle", "replay", "claim", "lost", "explain", "check", "create", "winner",
       "giveBack", "link", "add", "markFailed"} \subseteq Steps \ {"done"}
  BY DEF Steps
<1>3. ASSUME NEW code \in {400, 404, 409, 410, 500}, Throw(r, code) PROVE status'[r] # 201
  BY <1>0, <1>3 DEF Throw, Decide, TypeOK
<1>4. ASSUME NEW q \in Requests, Reply(r, "done", q) PROVE answer'[r] = q
  BY <1>0, <1>4 DEF Reply, TypeOK
<1>5. CASE Receive(r) \/ Check(r) \/ Create(r) \/ Winner(r) \/ Link(r)
  <2>1. CASE Receive(r)
    BY <2>1, <1>1, <1>2 DEF Receive
  <2>2. CASE Check(r)
    BY <2>2, <1>1, <1>2 DEF Check
  <2>3. CASE Create(r)
    BY <2>3, <1>1, <1>2 DEF Create
  <2>4. CASE Winner(r)
    BY <2>4, <1>1, <1>2 DEF Winner
  <2>5. CASE Link(r)
    BY <2>5, <1>1, <1>2 DEF Link
  <2> QED BY <1>5, <2>1, <2>2, <2>3, <2>4, <2>5
<1>6. CASE Replay(r)
  <2>1. PICK q \in Requests : Found(q, r) /\ Reply(r, "done", q)
    BY <1>1, <1>2, <1>6 DEF Replay
  <2> QED BY <1>4, <1>6, <2>1 DEF Replay
<1>7. CASE Lost(r)
  <2>1. PICK q \in Requests : Found(q, r) /\ Reply(r, "done", q)
    BY <1>1, <1>2, <1>7 DEF Lost
  <2> QED BY <1>4, <1>7, <2>1 DEF Lost
<1>8. CASE Claim(r)
  <2>1. Throw(r, 500)
    BY <1>1, <1>2, <1>8 DEF Claim
  <2> QED BY <1>3, <1>8, <2>1 DEF Claim
<1>9. CASE Explain(r)
  <2>1. \E code \in {400, 404, 409, 410, 500} : Throw(r, code)
    BY <1>9 DEF Explain
  <2> QED BY <1>3, <1>9, <2>1 DEF Explain
<1>10. CASE GiveBack(r)
  BY <1>0, <1>10 DEF GiveBack, RequestInv
<1>11. CASE Add(r)
  <2>1. Reply(r, "done", r) /\ row' = row
    BY <1>1, <1>2, <1>11 DEF Add
  <2>2. Found(r, r)
    BY <1>0, <1>11 DEF Add, RequestInv, RowInv, Found
  <2> QED BY <1>4, <2>1, <2>2
<1>12. CASE MarkFailed(r)
  <2>1. status' = status /\ pc[r] = "markFailed"
    BY <1>12 DEF MarkFailed
  <2> QED BY <1>0, <2>1 DEF RequestInv
<1>13. CASE Die(r)
  <2>1. Throw(r, 500) /\ row' = row
    BY <1>13 DEF Die
  <2> QED BY <1>3, <2>1
<1> QED BY <1>5, <1>6, <1>7, <1>8, <1>9, <1>10, <1>11, <1>12, <1>13 DEF ActsOn, Step

\* One step of request r is one step of the ledger for r, or none.
LEMMA LedgerStep ==
  ASSUME IInv, NEW r \in Requests, ActsOn(r)
  PROVE  [Ledger!LedgerNext]_<<asked, transfers, outcome>>
<1>0. TypeOK /\ RequestInv(r) /\ RowInv(r)
  BY DEF IInv
<1> USE DEF Ledger!LedgerNext
<1>1. CASE pc[r] = "idle"
  <2>0. Receive(r)
    BY <1>1 DEF ActsOn, Step, Replay, Claim, Lost, Explain, Check, Create, Winner,
                GiveBack, Link, Add, MarkFailed, Die, Working
  <2>1. PICK b \in Inputs : input' = [input EXCEPT ![r] = b]
    BY <2>0 DEF Receive
  <2>2. b # None /\ <<b.user, b.key>> \in Users \X Keys
    BY IntentAssumption DEF Input
  <2>3. input[r] = None /\ row' = row /\ pc'[r] # "done"
    BY <1>0, <2>0 DEF Receive, Goto, RequestInv, TypeOK
  <2>4. asked' = [asked EXCEPT ![r] = <<b.user, b.key>>]
    BY <1>0, <2>1, <2>2 DEF asked, TypeOK
  <2>5. asked[r] = None
    BY <2>3 DEF asked
  <2>6. transfers' = transfers /\ outcome' = outcome
    BY <2>3, LedgerFrame
  <2>7. Ledger!Ask(r)
    BY <2>2, <2>4, <2>5, <2>6 DEF Ledger!Ask
  <2> QED BY <2>7
<1>2. CASE pc[r] # "idle"
  <2>1. input[r] # None
    BY <1>0, <1>2 DEF RequestInv
  <2>2. asked' = asked /\ asked[r] = <<input[r].user, input[r].key>> /\ asked[r] # None
    <3>1. <<input[r].user, input[r].key>> \in Users \X Keys
      BY <1>0, <2>1, InputType
    <3>2. asked[r] = <<input[r].user, input[r].key>>
      BY <2>1 DEF asked
    <3> QED BY <1>2, <3>1, <3>2, IntentAssumption, LedgerFrame
  <2>3. Ledger!Open(r)
    BY <2>2, LedgerFrame DEF Ledger!Open
  <2>4. CASE pc'[r] = "done" /\ status'[r] = 201
    <3> DEFINE q == answer'[r]
    <3>1. q \in Requests /\ Found(q, r) /\ transfers' = transfers
      BY <2>4, Ending, LedgerFrame
    <3>2. q \in transfers /\ asked[q] = asked[r]
      <4>1. row[q] # None /\ RowInv(q) /\ RequestInv(q)
        BY <3>1 DEF IInv, Found
      <4>2. input[q] # None /\ input[q].user = input[r].user /\ input[q].key = input[r].key
        BY <3>1, <4>1 DEF Found, RowInv, RequestInv
      <4> QED BY <2>2, <3>1, <4>1, <4>2 DEF asked, transfers
    <3>3. outcome'[r] = q
      BY <2>4 DEF outcome
    <3>4. outcome' = [outcome EXCEPT ![r] = q]
      BY <3>3, LedgerFrame
    <3>5. Ledger!Replay(r)
      BY <2>2, <2>3, <3>1, <3>2, <3>4 DEF Ledger!Replay
    <3> QED BY <3>5
  <2>5. CASE pc'[r] = "done" /\ status'[r] # 201
    <3>1. outcome'[r] = Refused
      BY <2>5 DEF outcome
    <3>2. outcome' = [outcome EXCEPT ![r] = Refused] /\ transfers' = transfers
      BY <2>5, <3>1, Ending, LedgerFrame
    <3>3. Ledger!Refuse(r)
      BY <2>2, <2>3, <3>2 DEF Ledger!Refuse
    <3> QED BY <3>3
  <2>6. CASE pc'[r] # "done" /\ (row' = row \/ row[r] # None)
    BY <2>2, <2>6, LedgerFrame
  <2>7. CASE pc'[r] # "done" /\ row' # row /\ row[r] = None
    <3>1. Create(r) /\ ~KeyTaken(input[r].key) /\ row' = [row EXCEPT ![r] = NewRow(r)]
      BY <1>0, <2>7, OwnKept
    <3>2. NewRow(r) # None
      BY <1>0, <3>1, NewRowType DEF Create
    <3>3. transfers' = transfers \cup {r}
      BY <1>0, <3>1, <3>2 DEF transfers, TypeOK
    <3>4. \A q \in transfers : asked[q][2] # asked[r][2]
      <4> SUFFICES ASSUME NEW q \in transfers PROVE asked[q][2] # asked[r][2]
        OBVIOUS
      <4>1. q \in Requests /\ row[q] # None /\ RowInv(q) /\ RequestInv(q)
        BY DEF IInv, transfers
      <4>2. asked[q] = <<input[q].user, input[q].key>> /\ row[q].key = input[q].key
        BY <4>1 DEF asked, RowInv, RequestInv
      <4>3. row[q].key # input[r].key
        BY <3>1, <4>1 DEF KeyTaken
      <4> QED BY <2>2, <4>2, <4>3
    <3>5. outcome' = [outcome EXCEPT ![r] = None]
      <4>1. outcome' = outcome /\ outcome[r] = None
        BY <2>7, LedgerFrame
      <4> QED BY <4>1 DEF outcome
    <3>6. Ledger!Record(r)
      BY <2>2, <2>3, <3>3, <3>4, <3>5 DEF Ledger!Record
    <3> QED BY <3>6
  <2> QED BY <2>4, <2>5, <2>6, <2>7
<1> QED BY <1>1, <1>2

\* submit() implements the same atomic ledger as send(): although its row, its
\* answer and its undoing are separate steps that may each fail, a client sees
\* one transfer recorded under its key, that transfer again, or a refusal.
THEOREM Refinement == Spec => ImplementsLedger
<1>1. IInv /\ [Next]_vars => [Ledger!LedgerNext]_<<asked, transfers, outcome>>
  <2> SUFFICES ASSUME IInv, [Next]_vars
               PROVE  [Ledger!LedgerNext]_<<asked, transfers, outcome>>
    OBVIOUS
  <2>1. CASE \E r \in Requests : ActsOn(r)
    BY <2>1, LedgerStep
  <2>2. CASE UNCHANGED <<row, pc, input, status, answer>>
    BY <2>2 DEF asked, transfers, outcome
  <2>3. CASE \E i \in Intents : Prepare(i) \/ Expire(i)
    <3>1. UNCHANGED <<row, pc, input, status, answer>>
      BY <2>3 DEF Prepare, Expire
    <3> QED BY <2>2, <3>1
  <2>4. CASE UNCHANGED vars
    BY <2>2, <2>4 DEF vars
  <2> QED BY <2>1, <2>3, <2>4, NextCases
<1> QED BY <1>1, LedgerInitially, Invariance, PTL
       DEF Spec, ImplementsLedger, Ledger!LedgerSpec, Ledger!ledgerVars

=============================================================================
