------------------------ MODULE SendTransfer_proofs ------------------------
(***************************************************************************)
(* Proofs about SendTransfer, for any number of requests, users and keys.  *)
(***************************************************************************)
EXTENDS SendTransfer, TLAPS

\* The variables of the model always have their types: a row, in particular,
\* always has a recipient address, whichever way the recipient was named.
LEMMA TypeInit == Init => TypeOK
  BY SendAssumption DEF Init, TypeOK, Steps, Statuses

\* What a received body is known to hold.
LEMMA InputType == TypeOK =>
  \A r \in Requests : input[r] # None =>
    /\ input[r] \in Body
    /\ input[r].sender \in Users
    /\ input[r].key \in Keys
    /\ input[r].network \in Networks
    /\ input[r].amount \in Spelling
    /\ input[r].amount.value \in Values
    /\ input[r].amount.notation = "plain"
    /\ (input[r].recipientAccountId = None) # (input[r].recipientAddress = None)
  BY SendAssumption DEF TypeOK, Body, Spelling

\* Freeing the locks of a request keeps their type.
LEMMA ReleasedType == TypeOK =>
  \A r \in Requests : Released(r) \in [Users -> [Networks -> Requests \cup {None}]]
  BY DEF TypeOK, Released

\* The row create() inserts is well typed and says what the body says.
LEMMA NewRowType ==
  ASSUME TypeOK, NEW r \in Requests, RequestInv(r), pc[r] = "create"
  PROVE  /\ NewRow(r) \in Row
         /\ NewRow(r) # None
         /\ NewRow(r).sender = input[r].sender
         /\ NewRow(r).key = input[r].key
         /\ NewRow(r).asset = input[r].asset
         /\ NewRow(r).network = input[r].network
         /\ NewRow(r).amount = input[r].amount.value
         /\ NewRow(r).recipientAddress = address[r]
  BY SendAssumption, InputType DEF TypeOK, NewRow, Row, Body, Spelling, RequestInv

\* The three ways a step ends leave pc, status and answer well typed.
LEMMA ControlType ==
  ASSUME TypeOK, NEW r \in Requests, NEW i \in Requests,
         NEW step \in Steps, NEW code \in Statuses,
         Goto(r, step) \/ Reply(r, i) \/ Throw(r, code)
  PROVE  /\ pc' \in [Requests -> Steps]
         /\ status' \in [Requests -> Statuses]
         /\ answer' \in [Requests -> Requests \cup {None}]
<1>1. CASE Goto(r, step)
  BY <1>1 DEF TypeOK, Goto
<1>2. CASE Reply(r, i)
  BY <1>2 DEF TypeOK, Reply, Steps, Statuses
<1>3. CASE Throw(r, code)
  BY <1>3 DEF TypeOK, Throw, Steps
<1> QED BY <1>1, <1>2, <1>3

\* Every step keeps the types.
LEMMA TypeNext ==
  ASSUME TypeOK, \A r \in Requests : RequestInv(r), [Next]_vars
  PROVE  TypeOK'
<1> DEFINE Control == /\ pc' \in [Requests -> Steps]
                      /\ status' \in [Requests -> Statuses]
                      /\ answer' \in [Requests -> Requests \cup {None}]
<1>0. /\ \A r \in Requests, step \in Steps : Goto(r, step) => Control
      /\ \A r, i \in Requests : Reply(r, i) => Control
      /\ \A r \in Requests, code \in Statuses : Throw(r, code) => Control
  BY ControlType DEF Steps, Statuses
<1>00. /\ {"pin", "fast", "resolve", "verify", "reuse", "race", "lock", "create",
            "conflict"} \subseteq Steps
       /\ {400, 401, 404, 409, 500} \subseteq Statuses
  BY DEF Steps, Statuses
<1> HIDE DEF Control
<1>1. ASSUME NEW r \in Requests, Receive(r) PROVE TypeOK'
  BY <1>1, <1>0, <1>00 DEF TypeOK, Receive, dbVars, Control
<1>2. ASSUME NEW r \in Requests, AuthorizePin(r) PROVE TypeOK'
  BY <1>2, <1>0, <1>00 DEF TypeOK, AuthorizePin, dbVars, Control
<1>3. ASSUME NEW r \in Requests, FastPath(r) PROVE TypeOK'
  <2>1. Control
    BY <1>3, <1>0, <1>00 DEF FastPath
  <2>2. seen' \in [Requests -> Requests \cup {None}]
    BY <1>3 DEF FastPath, TypeOK
  <2> QED BY <1>3, <2>1, <2>2 DEF TypeOK, FastPath, dbVars, Control
<1>4. ASSUME NEW r \in Requests, Resolve(r) PROVE TypeOK'
  <2>1. Control
    BY <1>4, <1>0, <1>00 DEF Resolve
  <2>2. address' \in [Requests -> Addresses \cup {None}]
    BY <1>4, SendAssumption DEF Resolve, TypeOK
  <2> QED BY <1>4, <2>1, <2>2 DEF TypeOK, Resolve, dbVars, Control
<1>5. ASSUME NEW r \in Requests, Verify(r) PROVE TypeOK'
  BY <1>5, <1>0, <1>00 DEF TypeOK, Verify, dbVars, Control
<1>6. ASSUME NEW r \in Requests, Reuse(r) PROVE TypeOK'
  <2>1. Control
    BY <1>6, <1>0, <1>00 DEF Reuse
  <2> QED BY <1>6, <2>1 DEF TypeOK, Reuse, dbVars, Control
<1>7. ASSUME NEW r \in Requests, RaceCheck(r) PROVE TypeOK'
  <2>1. Control
    BY <1>7, <1>0, <1>00 DEF RaceCheck
  <2> QED BY <1>7, <2>1 DEF TypeOK, RaceCheck, dbVars, Control
<1>8. ASSUME NEW r \in Requests, LockWallet(r) PROVE TypeOK'
  <2>1. Control
    BY <1>8, <1>0, <1>00 DEF LockWallet
  <2>2. input[r].sender \in Users /\ input[r].network \in Networks
    BY <1>8, InputType DEF LockWallet, RequestInv
  <2>3. lock' \in [Users -> [Networks -> Requests \cup {None}]]
    <3> DEFINE u == input[r].sender
               n == input[r].network
    <3>1. [lock[u] EXCEPT ![n] = r] \in [Networks -> Requests \cup {None}]
      BY <2>2 DEF TypeOK
    <3>2. lock' = lock \/ lock' = [lock EXCEPT ![u] = [lock[u] EXCEPT ![n] = r]]
      BY <1>8 DEF LockWallet
    <3> HIDE DEF u, n
    <3>3. u \in Users
      BY <2>2 DEF u
    <3> QED BY <3>1, <3>2, <3>3 DEF TypeOK
  <2> QED BY <1>8, <2>1, <2>3 DEF TypeOK, LockWallet, Control
<1>9. ASSUME NEW r \in Requests, Create(r) PROVE TypeOK'
  <2>1. Control
    BY <1>9, <1>0, <1>00 DEF Create
  <2>2. row' \in [Requests -> Row \cup {None}]
    BY <1>9, NewRowType DEF Create, TypeOK
  <2> QED BY <1>9, <2>1, <2>2, ReleasedType DEF TypeOK, Create, Control
<1>10. ASSUME NEW r \in Requests, Winner(r) PROVE TypeOK'
  <2>1. Control
    BY <1>10, <1>0, <1>00 DEF Winner
  <2> QED BY <1>10, <2>1 DEF TypeOK, Winner, dbVars, Control
<1>11. ASSUME NEW r \in Requests, Fail(r) PROVE TypeOK'
  BY <1>11, <1>0, <1>00, ReleasedType DEF TypeOK, Fail, Control
<1>12. ASSUME NEW u \in Users, NEW addresses \in [Networks -> ValidAddresses],
              RegisterWallets(u, addresses)
       PROVE  TypeOK'
  BY <1>12 DEF TypeOK, RegisterWallets, requestVars
<1>13. CASE UNCHANGED vars
  BY <1>13 DEF TypeOK, vars
<1> QED
  BY <1>1, <1>2, <1>3, <1>4, <1>5, <1>6, <1>7, <1>8, <1>9, <1>10, <1>11,
     <1>12, <1>13 DEF Next, Step

-----------------------------------------------------------------------------
(* Frames: what a step of request r leaves alone.                          *)

ActsOn(r) == Receive(r) \/ Step(r) \/ Fail(r)

\* The step of one request never touches another request or its row.
LEMMA OthersKept ==
  ASSUME TypeOK, NEW r \in Requests, ActsOn(r), NEW q \in Requests, q # r
  PROVE  /\ pc'[q] = pc[q] /\ input'[q] = input[q] /\ address'[q] = address[q]
         /\ status'[q] = status[q] /\ answer'[q] = answer[q]
         /\ seen'[q] = seen[q] /\ row'[q] = row[q]
<1>0. \A step, code, i : Goto(r, step) \/ Reply(r, i) \/ Throw(r, code) =>
        pc'[q] = pc[q] /\ status'[q] = status[q] /\ answer'[q] = answer[q]
  BY DEF Goto, Reply, Throw, TypeOK
<1>1. CASE Receive(r)
  BY <1>1, <1>0 DEF Receive, dbVars, TypeOK
<1>2. CASE AuthorizePin(r)
  BY <1>2, <1>0 DEF AuthorizePin, dbVars
<1>3. CASE FastPath(r)
  <2>1. pc'[q] = pc[q] /\ status'[q] = status[q] /\ answer'[q] = answer[q]
    BY <1>3, <1>0 DEF FastPath
  <2>2. seen'[q] = seen[q]
    BY <1>3 DEF FastPath, TypeOK
  <2> QED BY <1>3, <2>1, <2>2 DEF FastPath, dbVars
<1>4. CASE Resolve(r)
  <2>1. pc'[q] = pc[q] /\ status'[q] = status[q] /\ answer'[q] = answer[q]
    BY <1>4, <1>0 DEF Resolve
  <2>2. address'[q] = address[q]
    BY <1>4 DEF Resolve, TypeOK
  <2> QED BY <1>4, <2>1, <2>2 DEF Resolve, dbVars
<1>5. CASE Verify(r)
  BY <1>5, <1>0 DEF Verify, dbVars
<1>6. CASE Reuse(r)
  <2>1. pc'[q] = pc[q] /\ status'[q] = status[q] /\ answer'[q] = answer[q]
    BY <1>6, <1>0 DEF Reuse
  <2> QED BY <1>6, <2>1 DEF Reuse, dbVars
<1>7. CASE RaceCheck(r)
  <2>1. pc'[q] = pc[q] /\ status'[q] = status[q] /\ answer'[q] = answer[q]
    BY <1>7, <1>0 DEF RaceCheck
  <2> QED BY <1>7, <2>1 DEF RaceCheck, dbVars
<1>8. CASE LockWallet(r)
  BY <1>8, <1>0 DEF LockWallet
<1>9. CASE Create(r)
  <2>1. pc'[q] = pc[q] /\ status'[q] = status[q] /\ answer'[q] = answer[q]
    BY <1>9, <1>0 DEF Create
  <2>2. row'[q] = row[q]
    BY <1>9 DEF Create, TypeOK
  <2> QED BY <1>9, <2>1, <2>2 DEF Create
<1>10. CASE Winner(r)
  <2>1. pc'[q] = pc[q] /\ status'[q] = status[q] /\ answer'[q] = answer[q]
    BY <1>10, <1>0 DEF Winner
  <2> QED BY <1>10, <2>1 DEF Winner, dbVars
<1>11. CASE Fail(r)
  BY <1>11, <1>0 DEF Fail
<1> QED BY <1>1, <1>2, <1>3, <1>4, <1>5, <1>6, <1>7, <1>8, <1>9, <1>10, <1>11
       DEF ActsOn, Step

\* A request that has been answered takes no further step.
LEMMA DoneIsLast ==
  ASSUME NEW r \in Requests, ActsOn(r)
  PROVE  pc[r] # "done"
  BY DEF ActsOn, Receive, Step, AuthorizePin, FastPath, Resolve, Verify, Reuse,
         RaceCheck, LockWallet, Create, Winner, Fail, Working

\* A body is read once, and only Create writes a row.
LEMMA InputAndRow ==
  ASSUME TypeOK, NEW r \in Requests, ActsOn(r)
  PROVE  /\ pc[r] # "idle" => input' = input
         /\ row' = row \/ /\ Create(r)
                          /\ ~KeyTaken(input[r].key)
                          /\ row' = [row EXCEPT ![r] = NewRow(r)]
  BY DEF ActsOn, Receive, Step, AuthorizePin, FastPath, Resolve, Verify, Reuse,
         RaceCheck, LockWallet, Create, Winner, Fail, Working, dbVars

\* Every step of the system is a step of one request, or changes no request
\* and no row.
LEMMA NextCases ==
  ASSUME [Next]_vars
  PROVE  \/ \E r \in Requests : ActsOn(r)
         \/ UNCHANGED <<requestVars, row>>
  BY DEF Next, ActsOn, RegisterWallets, vars, requestVars

-----------------------------------------------------------------------------
(* The parts of the inductive invariant, one step of request r at a time.  *)

\* r's own part after its step: the body is there, the status agrees with the
\* step, and a resolved recipient is the body's address when it has one.
LEMMA RequestInvStep ==
  ASSUME TypeOK, NEW r \in Requests, RequestInv(r), ActsOn(r)
  PROVE  RequestInv(r)'
<1> USE DEF TypeOK, RequestInv
<1>1. CASE Receive(r)
  BY <1>1, SendAssumption DEF Receive, Goto, dbVars
<1>2. CASE AuthorizePin(r)
  BY <1>2 DEF AuthorizePin, Goto, Throw
<1>3. CASE FastPath(r)
  <2>1. \/ Goto(r, "resolve")
        \/ \E i \in Requests : Reply(r, i)
    BY <1>3 DEF FastPath
  <2> QED BY <1>3, <2>1 DEF FastPath, Goto, Reply
<1>4. CASE Resolve(r)
  <2>1. CASE pc'[r] = "done"
    BY <1>4, <2>1 DEF Resolve, Goto, Throw
  <2>2. CASE pc'[r] # "done"
    <3>1. Goto(r, "verify") /\ address' = [address EXCEPT ![r] = ResolvedAddress(input[r])]
          /\ ResolvedAddress(input[r]) \in ValidAddresses
      BY <1>4, <2>2 DEF Resolve, Throw
    <3>2. input[r].recipientAddress # None =>
            ResolvedAddress(input[r]) = input[r].recipientAddress
      BY <1>4, InputType DEF Resolve, ResolvedAddress
    <3>3. ResolvedAddress(input[r]) # None
      BY <3>1, SendAssumption
    <3> QED BY <1>4, <3>1, <3>2, <3>3 DEF Resolve, Goto
  <2> QED BY <2>1, <2>2
<1>5. CASE Verify(r)
  BY <1>5 DEF Verify, Goto, Throw
<1>6. CASE Reuse(r)
  <2>1. Goto(r, "race") \/ Throw(r, 409) \/ \E i \in Requests : Reply(r, i)
    BY <1>6 DEF Reuse
  <2> QED BY <1>6, <2>1 DEF Reuse, Goto, Reply, Throw
<1>7. CASE RaceCheck(r)
  BY <1>7 DEF RaceCheck, Goto, Reply
<1>8. CASE LockWallet(r)
  BY <1>8 DEF LockWallet, Goto
<1>9. CASE Create(r)
  <2>1. Goto(r, "conflict") \/ Throw(r, 500) \/ Reply(r, r)
    BY <1>9 DEF Create
  <2> QED BY <1>9, <2>1 DEF Create, Goto, Reply, Throw
<1>10. CASE Winner(r)
  <2>1. Throw(r, 409) \/ \E i \in Requests : Reply(r, i)
    BY <1>10 DEF Winner
  <2> QED BY <1>10, <2>1 DEF Winner, Reply, Throw
<1>11. CASE Fail(r)
  BY <1>11 DEF Fail, Throw, Working
<1> QED BY <1>1, <1>2, <1>3, <1>4, <1>5, <1>6, <1>7, <1>8, <1>9, <1>10, <1>11
       DEF ActsOn, Step

\* r has no row before it creates one, and the row it creates is its body.
LEMMA RowInvStep ==
  ASSUME TypeOK, NEW r \in Requests, RequestInv(r), RowInv(r), ActsOn(r)
  PROVE  /\ row[r] = None
         /\ RowInv(r)'
<1>1. row[r] = None
  BY DoneIsLast DEF RowInv
<1>2. CASE row' = row
  BY <1>1, <1>2 DEF RowInv
<1>3. CASE row' # row
  <2>1. Create(r) /\ ~KeyTaken(input[r].key) /\ row' = [row EXCEPT ![r] = NewRow(r)]
    BY <1>3, InputAndRow
  <2>2. row'[r] = NewRow(r) /\ input' = input /\ address' = address /\ pc[r] = "create"
    BY <2>1 DEF Create, TypeOK
  <2>3. pc'[r] = "done"
    BY <2>1 DEF Create, Reply, Throw, TypeOK
  <2>4. input[r].recipientAddress # None => address[r] = input[r].recipientAddress
    BY <2>2 DEF RequestInv
  <2> QED BY <2>2, <2>3, <2>4, NewRowType DEF RowInv
<1> QED BY <1>1, <1>2, <1>3

\* Rows are never changed or removed, and neither are the bodies behind them.
LEMMA RowsKept ==
  ASSUME TypeOK, NEW r \in Requests, ActsOn(r), RequestInv(r), RowInv(r),
         NEW i \in Requests, row[i] # None
  PROVE  row'[i] = row[i] /\ input'[i] = input[i] /\ i # r
  BY RowInvStep, OthersKept

\* A look-up's answer stays an answer.
LEMMA FoundKept ==
  ASSUME TypeOK, NEW r \in Requests, ActsOn(r), RequestInv(r), RowInv(r),
         NEW i \in Requests, NEW b, Found(i, b)
  PROVE  row'[i] # None /\ row'[i].key = b.key /\ row'[i].sender = b.sender
  BY RowsKept DEF Found

\* A 201 is a look-up's answer, or the row just created.
LEMMA AnswerSource ==
  ASSUME TypeOK, NEW r \in Requests, RequestInv(r), ActsOn(r), status'[r] = 201
  PROVE  /\ input' = input
         /\ \/ answer'[r] \in Requests /\ Found(answer'[r], input[r])
            \/ /\ answer'[r] = r
               /\ Create(r) /\ row' = [row EXCEPT ![r] = NewRow(r)]
<1>0. /\ status[r] = 0
      /\ \A step : ~Goto(r, step)
      /\ \A code \in {400, 401, 404, 409, 500} : ~Throw(r, code)
      /\ \A i \in Requests : Reply(r, i) => answer'[r] = i
  BY DoneIsLast DEF RequestInv, Goto, Throw, Reply, TypeOK
<1>1. CASE FastPath(r)
  BY <1>0, <1>1 DEF FastPath
<1>2. CASE Reuse(r)
  BY <1>0, <1>2 DEF Reuse
<1>3. CASE RaceCheck(r)
  BY <1>0, <1>3 DEF RaceCheck
<1>4. CASE Create(r)
  BY <1>0, <1>4 DEF Create
<1>5. CASE Winner(r)
  BY <1>0, <1>5 DEF Winner
<1>6. CASE Receive(r) \/ AuthorizePin(r) \/ Resolve(r) \/ Verify(r)
           \/ LockWallet(r) \/ Fail(r)
  BY <1>0, <1>6 DEF Receive, AuthorizePin, Resolve, Verify, LockWallet, Fail
<1> QED BY <1>1, <1>2, <1>3, <1>4, <1>5, <1>6 DEF ActsOn, Step

-----------------------------------------------------------------------------
(* What matchesIntent decides.                                             *)

\* Two normalised spellings are equal only for equal values, and a plain
\* amount round-trips through the Decimal column.
LEMMA AmountMatch ==
  ASSUME NEW v \in Values, NEW s \in Spelling, s.notation = "plain"
  PROVE  /\ normalizeAmount(decimalString(v)) = normalizeAmount(s) => v = s.value
         /\ v = s.value /\ RoundTrips(s) =>
              normalizeAmount(decimalString(v)) = normalizeAmount(s)
<1>1. normalizeAmount(decimalString(v))
        = [value |-> v, leading |-> 0, trailing |-> 0,
           notation |-> IF v \in ExponentValues THEN "exponent" ELSE "plain"]
  BY DEF normalizeAmount, decimalString
<1>2. normalizeAmount(s)
        = [value |-> s.value, leading |-> s.leading, trailing |-> 0,
           notation |-> s.notation]
  BY DEF normalizeAmount, Spelling
<1> QED BY <1>1, <1>2 DEF RoundTrips

\* A match against a known address means the row is the transfer asked for.
LEMMA MatchDescribes ==
  ASSUME TypeOK, NEW i \in Requests, row[i] # None,
         NEW b \in Body, b.amount.notation = "plain", b.recipientAddress # None,
         matchesIntent(row[i], b, b.recipientAddress)
  PROVE  Describes(b, i)
<1>1. row[i].amount \in Values /\ b.amount \in Spelling
  BY DEF TypeOK, Row, Body
<1>2. row[i].amount = b.amount.value
  BY <1>1, AmountMatch DEF matchesIntent
<1> QED BY <1>2 DEF matchesIntent, Describes

\* The row of a plain body matches a retry with that body.
LEMMA RetryMatches ==
  ASSUME TypeOK, NEW i \in Requests, RowInv(i), row[i] # None, input[i] # None,
         RoundTrips(input[i].amount)
  PROVE  matchesIntent(row[i], input[i], input[i].recipientAddress)
<1>1. input[i].amount \in Spelling /\ input[i].amount.value \in Values
      /\ input[i].amount.notation = "plain"
  BY InputType
<1>2. normalizeAmount(decimalString(row[i].amount)) = normalizeAmount(input[i].amount)
  BY <1>1, AmountMatch DEF RowInv
<1> QED BY <1>2 DEF matchesIntent, RowInv

-----------------------------------------------------------------------------
(* The history of the first look-up.                                       *)

\* Once a request has found a row for its key, its later look-ups find it too,
\* so it never enters the transaction.
LEMMA SeenInvStep ==
  ASSUME TypeOK, NEW r \in Requests, RequestInv(r), RowInv(r), SeenInv(r), ActsOn(r)
  PROVE  SeenInv(r)'
<1>1. CASE FastPath(r)
  <2>1. seen[r] = None /\ input' = input /\ row' = row
    BY <1>1 DEF FastPath, SeenInv, dbVars
  <2>2. pc'[r] \in {"resolve", "done"}
    BY <1>1 DEF FastPath, Goto, Reply, TypeOK
  <2>3. seen'[r] # None => Found(seen'[r], input[r])
    BY <1>1, <2>1 DEF FastPath, TypeOK
  <2> QED BY <2>1, <2>2, <2>3 DEF SeenInv, Found
<1>2. CASE ~FastPath(r)
  <2>1. seen' = seen
    BY <1>2 DEF ActsOn, Receive, Step, AuthorizePin, Resolve, Verify, Reuse,
                RaceCheck, LockWallet, Create, Winner, Fail, dbVars
  <2> SUFFICES ASSUME seen[r] # None
               PROVE  pc'[r] \in {"resolve", "verify", "reuse", "done"}
                      /\ Found(seen[r], input[r])'
    BY <2>1 DEF SeenInv
  <2>2. pc[r] \in {"resolve", "verify", "reuse"} /\ Found(seen[r], input[r])
    BY DoneIsLast DEF SeenInv
  <2>3. seen[r] \in Requests /\ seen'[r] \in Requests /\ input' = input
    BY <2>1, <2>2, InputAndRow, SendAssumption DEF TypeOK
  <2>4. Found(seen[r], input[r])'
    BY <2>1, <2>2, <2>3, FoundKept DEF Found
  <2>5. Resolve(r) \/ Verify(r) \/ Reuse(r) \/ Fail(r)
    BY <1>2, <2>2 DEF ActsOn, Receive, Step, AuthorizePin, RaceCheck, LockWallet,
                      Create, Winner
  <2>6. pc'[r] \in {"verify", "reuse", "done"}
    <3>1. CASE Reuse(r)
      BY <3>1, <2>2, <2>3 DEF Reuse, Reply, Throw, TypeOK
    <3>2. CASE Resolve(r)
      BY <3>2 DEF Resolve, Goto, Throw, TypeOK
    <3>3. CASE Verify(r) \/ Fail(r)
      BY <3>3 DEF Verify, Fail, Goto, Throw, TypeOK
    <3> QED BY <2>5, <3>1, <3>2, <3>3
  <2> QED BY <2>4, <2>6
<1> QED BY <1>1, <1>2

\* The step that finds a row is FastPath.
LEMMA NewlySeen ==
  ASSUME TypeOK, NEW r \in Requests, SeenInv(r), ActsOn(r), seen'[r] # None
  PROVE  \/ seen'[r] = seen[r]
         \/ /\ FastPath(r) /\ input' = input /\ row' = row
            /\ seen'[r] \in Requests /\ Found(seen'[r], input[r])
            /\ IF matchesIntent(row[seen'[r]], input[r], input[r].recipientAddress)
               THEN Reply(r, seen'[r]) ELSE Goto(r, "resolve")
<1>1. CASE FastPath(r)
  BY <1>1 DEF FastPath, TypeOK, dbVars, SeenInv
<1>2. CASE ~FastPath(r)
  BY <1>2 DEF ActsOn, Receive, Step, AuthorizePin, Resolve, Verify, Reuse,
              RaceCheck, LockWallet, Create, Winner, Fail, dbVars
<1> QED BY <1>1, <1>2

-----------------------------------------------------------------------------
(* IInv is inductive.                                                      *)

\* The inductive invariant holds before any request has come.
LEMMA InitIInv == Init => IInv
<1> SUFFICES ASSUME Init PROVE IInv
  OBVIOUS
<1>1. TypeOK
  BY TypeInit
<1>2. \A r \in Requests : /\ pc[r] = "idle" /\ input[r] = None /\ status[r] = 0
                         /\ seen[r] = None /\ row[r] = None
  BY DEF Init
<1> QED BY <1>1, <1>2 DEF IInv, OneTransferPerKey, AnswerIsOwn, RequestInv, RowInv,
                         SeenInv, PlainRetryReplays, AddressReuseConflicts

\* The step of r preserves every part, for r itself and for every other q.
LEMMA StepIInv ==
  ASSUME IInv, NEW r \in Requests, ActsOn(r), TypeOK'
  PROVE  IInv'
<1>0. TypeOK /\ RequestInv(r) /\ RowInv(r) /\ SeenInv(r)
  BY DEF IInv
<1>1. ASSUME NEW q \in Requests PROVE RequestInv(q)' /\ RowInv(q)' /\ SeenInv(q)'
  <2>1. CASE q = r
    BY <1>0, <2>1, RequestInvStep, RowInvStep, SeenInvStep
  <2>2. CASE q # r
    <3>1. RequestInv(q) /\ RowInv(q) /\ SeenInv(q)
      BY DEF IInv
    <3>2. /\ pc'[q] = pc[q] /\ input'[q] = input[q] /\ address'[q] = address[q]
          /\ status'[q] = status[q] /\ seen'[q] = seen[q] /\ row'[q] = row[q]
      BY <1>0, <2>2, OthersKept
    <3>3. RequestInv(q)' /\ RowInv(q)'
      BY <3>1, <3>2 DEF RequestInv, RowInv
    <3>4. seen[q] # None => Found(seen[q], input[q])'
      BY <1>0, <3>1, <3>2, FoundKept DEF SeenInv, Found, TypeOK
    <3> QED BY <3>1, <3>2, <3>3, <3>4 DEF SeenInv, Found
  <2> QED BY <2>1, <2>2
<1>2. OneTransferPerKey'
  <2>1. CASE row' = row
    BY <2>1 DEF IInv, OneTransferPerKey
  <2>2. CASE row' # row
    <3>1. /\ ~KeyTaken(input[r].key) /\ pc[r] = "create"
          /\ row' = [row EXCEPT ![r] = NewRow(r)]
      BY <1>0, <2>2, InputAndRow DEF Create
    <3>2. row'[r].key = input[r].key
      BY <1>0, <3>1, NewRowType DEF TypeOK
    <3> QED BY <1>0, <3>1, <3>2 DEF IInv, OneTransferPerKey, KeyTaken, TypeOK
  <2> QED BY <2>1, <2>2
<1>3. AnswerIsOwn'
  <2> SUFFICES ASSUME NEW q \in Requests, status'[q] = 201
               PROVE  answer'[q] \in Requests /\ Found(answer[q], input[q])'
    BY DEF AnswerIsOwn, Found
  <2>1. CASE q # r
    <3>1. status[q] = 201 /\ answer'[q] = answer[q] /\ input'[q] = input[q]
      BY <1>0, <2>1, OthersKept
    <3>2. answer[q] \in Requests /\ Found(answer[q], input[q])
      BY <3>1 DEF IInv, AnswerIsOwn, Found
    <3> QED BY <1>0, <3>1, <3>2, FoundKept DEF Found
  <2>2. CASE q = r
    <3>1. CASE answer'[r] \in Requests /\ Found(answer'[r], input[r]) /\ input' = input
      BY <1>0, <2>2, <3>1, FoundKept DEF Found
    <3>2. CASE /\ answer'[r] = r /\ Create(r) /\ row' = [row EXCEPT ![r] = NewRow(r)]
               /\ input' = input
      <4>1. pc[r] = "create" /\ row'[r] = NewRow(r)
        BY <1>0, <3>2 DEF Create, TypeOK
      <4> QED BY <1>0, <2>2, <3>2, <4>1, NewRowType DEF Found
    <3> QED BY <1>0, <2>2, <3>1, <3>2, AnswerSource
  <2> QED BY <2>1, <2>2
<1>4. ASSUME NEW q \in Requests, seen'[q] # None, q # r
      PROVE  /\ seen'[q] = seen[q] /\ input'[q] = input[q] /\ status'[q] = status[q]
             /\ answer'[q] = answer[q]
             /\ seen[q] \in Requests /\ row'[seen[q]] = row[seen[q]]
             /\ input'[seen[q]] = input[seen[q]]
  <2>1. /\ seen'[q] = seen[q] /\ input'[q] = input[q] /\ status'[q] = status[q]
        /\ answer'[q] = answer[q]
    BY <1>0, <1>4, OthersKept
  <2>2. seen[q] \in Requests /\ row[seen[q]] # None
    BY <1>4, <2>1 DEF IInv, SeenInv, Found, TypeOK
  <2> QED BY <1>0, <2>1, <2>2, RowsKept
<1>5. PlainRetryReplays'
  <2> SUFFICES ASSUME NEW q \in Requests, seen'[q] # None,
                      input'[q] = input'[seen'[q]], RoundTrips(input'[q].amount)
               PROVE  status'[q] = 201 /\ answer'[q] = seen'[q]
    BY DEF PlainRetryReplays, SameTransfer, RoundTrips
  <2>1. CASE q # r
    BY <1>4, <2>1 DEF IInv, PlainRetryReplays, SameTransfer
  <2>2. CASE q = r /\ seen'[r] = seen[r]
    <3>1. seen[r] \in Requests /\ row[seen[r]] # None /\ pc[r] # "idle"
      BY <2>2 DEF IInv, SeenInv, Found, TypeOK
    <3>2. input' = input
      BY <1>0, <3>1, InputAndRow
    <3>3. status[r] = 201
      BY <2>2, <3>2 DEF IInv, PlainRetryReplays, SameTransfer
    <3> QED BY <1>0, <3>3, DoneIsLast DEF RequestInv
  <2>3. CASE q = r /\ seen'[r] # seen[r]
    <3> DEFINE i == seen'[r]
    <3>1. /\ i \in Requests /\ Found(i, input[r]) /\ input' = input
          /\ matchesIntent(row[i], input[r], input[r].recipientAddress) => Reply(r, i)
      BY <1>0, <2>3, NewlySeen
    <3>2. input[i] # None /\ RowInv(i) /\ row[i] # None
      BY <3>1 DEF IInv, RowInv, RequestInv, Found
    <3>3. matchesIntent(row[i], input[r], input[r].recipientAddress)
      BY <1>0, <2>3, <3>1, <3>2, RetryMatches
    <3> QED BY <1>0, <2>3, <3>1, <3>3 DEF Reply, TypeOK
  <2> QED BY <2>1, <2>2, <2>3
<1>6. AddressReuseConflicts'
  <2> SUFFICES ASSUME NEW q \in Requests, seen'[q] # None, status'[q] = 201,
                      input'[q].recipientAddress # None
               PROVE  Describes(input[q], seen[q])'
    BY DEF AddressReuseConflicts
  <2>1. CASE q # r
    BY <1>4, <2>1 DEF IInv, AddressReuseConflicts, Describes
  <2>2. CASE q = r /\ seen'[r] = seen[r]
    <3>1. /\ seen[r] \in Requests /\ Found(seen[r], input[r])
          /\ pc[r] \in {"resolve", "verify", "reuse"}
      BY <1>0, <2>2, DoneIsLast DEF SeenInv, TypeOK
    <3>2. Reuse(r) /\ input' = input /\ row' = row
      BY <1>0, <2>2, <3>1, AnswerSource
         DEF ActsOn, Receive, Step, AuthorizePin, FastPath, RaceCheck, LockWallet, Create,
             Winner, Resolve, Verify, Fail, Goto, Throw, TypeOK, Reuse, dbVars, RequestInv
    <3>3. PICK j \in Requests : Found(j, input[r]) /\ matchesIntent(row[j], input[r], address[r])
      BY <1>0, <2>2, <3>1, <3>2 DEF Reuse, Throw, TypeOK
    <3>4. j = seen[r]
      BY <3>1, <3>3 DEF IInv, OneTransferPerKey, Found
    <3>5. address[r] = input[r].recipientAddress
      BY <1>0, <2>2, <3>2 DEF RequestInv, Reuse
    <3>6. input[r] \in Body /\ input[r].amount.notation = "plain"
      BY <1>0, <3>1, InputType DEF RequestInv
    <3>7. Describes(input[r], seen[r])
      BY <1>0, <2>2, <3>1, <3>2, <3>3, <3>4, <3>5, <3>6, MatchDescribes DEF Found
    <3> QED BY <2>2, <3>2, <3>7 DEF Describes
  <2>3. CASE q = r /\ seen'[r] # seen[r]
    <3> DEFINE i == seen'[r]
    <3>1. /\ i \in Requests /\ Found(i, input[r]) /\ input' = input /\ row' = row
          /\ FastPath(r)
          /\ \/ matchesIntent(row[i], input[r], input[r].recipientAddress)
             \/ Goto(r, "resolve")
      BY <1>0, <2>3, NewlySeen
    <3>2. matchesIntent(row[i], input[r], input[r].recipientAddress)
      BY <1>0, <2>3, <3>1, DoneIsLast DEF Goto, RequestInv
    <3>3. input[r] \in Body /\ input[r].amount.notation = "plain"
      BY <1>0, <3>1, InputType DEF RequestInv, FastPath
    <3>4. Describes(input[r], i)
      BY <1>0, <2>3, <3>1, <3>2, <3>3, MatchDescribes DEF Found
    <3> QED BY <2>3, <3>1, <3>4 DEF Describes
  <2> QED BY <2>1, <2>2, <2>3
<1> QED BY <1>1, <1>2, <1>3, <1>5, <1>6 DEF IInv

\* Every step keeps the inductive invariant.
LEMMA NextIInv == IInv /\ [Next]_vars => IInv'
<1> SUFFICES ASSUME IInv, [Next]_vars PROVE IInv'
  OBVIOUS
<1>1. TypeOK'
  BY TypeNext DEF IInv
<1>2. CASE \E r \in Requests : ActsOn(r)
  BY <1>1, <1>2, StepIInv
<1>3. CASE UNCHANGED <<requestVars, row>>
  BY <1>1, <1>3 DEF IInv, requestVars, OneTransferPerKey, AnswerIsOwn, RequestInv, RowInv,
       SeenInv, Found, PlainRetryReplays, SameTransfer, AddressReuseConflicts, Describes
<1> QED BY <1>2, <1>3, NextCases

\* The inductive invariant holds throughout.
LEMMA Invariance == Spec => []IInv
  BY InitIInv, NextIInv, PTL DEF Spec

-----------------------------------------------------------------------------
(* The theorems.                                                           *)

\* In every run of send() the table, the wallets, the locks and every request
\* keep their types: no row is ever without a recipient address.
THEOREM TypeCorrect == Spec => []TypeOK
  BY Invariance, PTL DEF IInv

\* However many requests of however many users race, all the 201 answers of one
\* user under one key name one transfer.
THEOREM KeyAgreement == Spec => []AnswersAgree
<1>1. IInv => AnswersAgree
  BY DEF IInv, AnswerIsOwn, OneTransferPerKey, AnswersAgree
<1> QED BY <1>1, Invariance, PTL

\* No user is ever answered with another user's transfer.
THEOREM Ownership == Spec => []AnswerIsOwn
  BY Invariance, PTL DEF IInv

\* A retry with a plainly spelled amount is always answered with the row its
\* first try created.
THEOREM RetrySafety == Spec => []PlainRetryReplays
  BY Invariance, PTL DEF IInv

\* A send to an address under a key that was used for a different transfer is
\* never answered with that transfer.
THEOREM ReuseSafety == Spec => []AddressReuseConflicts
  BY Invariance, PTL DEF IInv

-----------------------------------------------------------------------------
(* Refinement of the atomic ledger.                                        *)

\* The initial states of send() are initial states of the ledger.
LEMMA LedgerInitially == Init => Ledger!LedgerInit
  BY SendAssumption
     DEF Init, Ledger!LedgerInit, asked, transfers, outcome

\* How the mapped variables of one request move with it.
LEMMA LedgerFrame ==
  ASSUME IInv, NEW r \in Requests, ActsOn(r)
  PROVE  /\ pc[r] # "idle" => asked' = asked
         /\ row' = row => transfers' = transfers
         /\ row' # row => transfers' = transfers \cup {r}
         /\ outcome' = [outcome EXCEPT ![r] = outcome'[r]]
         /\ outcome[r] = None
         /\ status'[r] = 0 => outcome' = outcome
<1>0. TypeOK /\ RequestInv(r) /\ RowInv(r)
  BY DEF IInv
<1>1. pc[r] # "idle" => asked' = asked
  BY <1>0, InputAndRow DEF asked
<1>2. row' = row => transfers' = transfers
  BY DEF transfers
<1>3. row' # row => transfers' = transfers \cup {r}
  <2> SUFFICES ASSUME row' # row PROVE transfers' = transfers \cup {r}
    OBVIOUS
  <2>1. row' = [row EXCEPT ![r] = NewRow(r)] /\ pc[r] = "create"
    BY <1>0, InputAndRow DEF Create
  <2>2. NewRow(r) # None
    BY <1>0, <2>1, NewRowType
  <2> QED BY <1>0, <2>1, <2>2 DEF transfers, TypeOK
<1>4. outcome' = [outcome EXCEPT ![r] = outcome'[r]]
  <2>1. \A q \in Requests : q # r => status'[q] = status[q] /\ answer'[q] = answer[q]
    BY <1>0, OthersKept
  <2>2. \A q \in Requests : q # r => outcome'[q] = outcome[q]
    BY <2>1 DEF outcome
  <2>3. /\ outcome = [q \in Requests |-> outcome[q]]
        /\ outcome' = [q \in Requests |-> outcome'[q]]
    BY DEF outcome
  <2> QED BY <2>2, <2>3
<1>5. status[r] = 0 /\ outcome[r] = None
  BY <1>0, DoneIsLast DEF RequestInv, outcome
<1>6. status'[r] = 0 => outcome' = outcome
  BY <1>4, <1>5 DEF outcome
<1> QED BY <1>1, <1>2, <1>3, <1>4, <1>5, <1>6

\* One step of request r is one step of the ledger for r, or none.
LEMMA LedgerStep ==
  ASSUME IInv, IInv', NEW r \in Requests, ActsOn(r)
  PROVE  [Ledger!LedgerNext]_<<asked, transfers, outcome>>
<1>0. TypeOK /\ RequestInv(r) /\ RowInv(r)
  BY DEF IInv
<1> USE DEF Ledger!LedgerNext
<1>1. CASE Receive(r)
  <2>1. PICK b \in Inputs : input' = [input EXCEPT ![r] = b]
    BY <1>1 DEF Receive
  <2>2. b # None /\ <<b.sender, b.key>> \in Users \X Keys
    BY SendAssumption DEF Body
  <2>3. pc[r] = "idle" /\ input[r] = None /\ row' = row /\ status' = status /\ answer' = answer
    BY <1>0, <1>1 DEF Receive, Goto, dbVars, RequestInv
  <2>4. asked' = [asked EXCEPT ![r] = <<b.sender, b.key>>]
    BY <1>0, <2>1, <2>2 DEF asked, TypeOK
  <2>5. asked[r] = None
    BY <2>3 DEF asked
  <2>6. transfers' = transfers /\ outcome' = outcome
    BY <2>3 DEF transfers, outcome
  <2>7. Ledger!Ask(r)
    BY <2>2, <2>4, <2>5, <2>6 DEF Ledger!Ask
  <2> QED BY <2>7
<1>2. CASE ~Receive(r)
  <2>1. pc[r] # "idle" /\ input[r] # None
    BY <1>0, <1>2 DEF ActsOn, Step, AuthorizePin, FastPath, Resolve, Verify, Reuse, RaceCheck,
         LockWallet, Create, Winner, Fail, Working, RequestInv
  <2>2. asked' = asked /\ asked[r] = <<input[r].sender, input[r].key>> /\ asked[r] # None
    BY <2>1, <1>0, InputType, SendAssumption, LedgerFrame DEF asked
  <2>3. Ledger!Open(r)
    BY <2>2, LedgerFrame DEF Ledger!Open
  <2>4. CASE row' = row /\ status'[r] = 0
    BY <2>2, <2>4, LedgerFrame
  <2>5. CASE row' = row /\ status'[r] = 201
    <3> DEFINE i == answer'[r]
    <3>1. i \in Requests /\ Found(i, input[r])
      <4>1. i \in Requests /\ row'[i] # None /\ input'[r] = input[r]
            /\ row'[i].sender = input'[r].sender /\ row'[i].key = input'[r].key
        BY <1>0, <2>1, <2>5, InputAndRow DEF IInv, AnswerIsOwn
      <4> QED BY <2>5, <4>1 DEF Found
    <3>2. i \in transfers /\ asked[i] = asked[r]
      <4>1. row[i] # None /\ RowInv(i) /\ RequestInv(i)
        BY <3>1 DEF IInv, Found
      <4>2. input[i] # None /\ input[i].sender = input[r].sender /\ input[i].key = input[r].key
        BY <3>1, <4>1 DEF Found, RowInv, RequestInv
      <4> QED BY <2>2, <3>1, <4>1, <4>2 DEF asked, transfers
    <3>3. outcome'[r] = i
      BY <2>5 DEF outcome
    <3>4. outcome' = [outcome EXCEPT ![r] = i] /\ transfers' = transfers
      BY <2>5, <3>3, LedgerFrame
    <3>5. Ledger!Replay(r)
      BY <2>2, <2>3, <3>2, <3>4 DEF Ledger!Replay
    <3> QED BY <3>5
  <2>6. CASE row' = row /\ status'[r] \notin {0, 201}
    <3>1. outcome'[r] = Refused
      BY <2>6 DEF outcome
    <3>2. outcome' = [outcome EXCEPT ![r] = Refused] /\ transfers' = transfers
      BY <2>6, <3>1, LedgerFrame
    <3>3. Ledger!Refuse(r)
      BY <2>2, <2>3, <3>2 DEF Ledger!Refuse
    <3> QED BY <3>3
  <2>7. CASE row' # row
    <3>1. Create(r) /\ ~KeyTaken(input[r].key) /\ transfers' = transfers \cup {r}
      BY <1>0, <2>7, InputAndRow, LedgerFrame
    <3>2. \A i \in transfers : asked[i][2] # asked[r][2]
      <4> SUFFICES ASSUME NEW i \in transfers PROVE asked[i][2] # asked[r][2]
        OBVIOUS
      <4>1. i \in Requests /\ row[i] # None /\ RowInv(i) /\ RequestInv(i)
        BY DEF IInv, transfers
      <4>2. asked[i] = <<input[i].sender, input[i].key>> /\ row[i].key = input[i].key
        BY <4>1 DEF asked, RowInv, RequestInv
      <4>3. row[i].key # input[r].key
        BY <3>1, <4>1 DEF KeyTaken
      <4> QED BY <2>2, <4>2, <4>3
    <3>3. outcome'[r] \in {r, Refused}
      BY <1>0, <2>7, <3>1 DEF Create, Reply, Throw, TypeOK, outcome
    <3>4. Ledger!Record(r)
      BY <2>2, <2>3, <3>1, <3>2, <3>3, LedgerFrame DEF Ledger!Record
    <3> QED BY <3>4
  <2> QED BY <2>4, <2>5, <2>6, <2>7
<1> QED BY <1>1, <1>2

\* send() implements the atomic ledger: its interleaved look-ups, re-checks and
\* unique-index handling amount to recording, replaying or refusing in one step.
THEOREM Refinement == Spec => ImplementsLedger
<1>1. IInv /\ IInv' /\ [Next]_vars => [Ledger!LedgerNext]_<<asked, transfers, outcome>>
  <2> SUFFICES ASSUME IInv, IInv', [Next]_vars
               PROVE  [Ledger!LedgerNext]_<<asked, transfers, outcome>>
    OBVIOUS
  <2>1. CASE \E r \in Requests : ActsOn(r)
    BY <2>1, LedgerStep
  <2>2. CASE UNCHANGED <<requestVars, row>>
    BY <2>2 DEF requestVars, asked, transfers, outcome
  <2> QED BY <2>1, <2>2, NextCases
<1> QED BY <1>1, LedgerInitially, Invariance, PTL
       DEF Spec, ImplementsLedger, Ledger!LedgerSpec, Ledger!ledgerVars

=============================================================================
