-------------------------- MODULE Platform_proofs --------------------------
(***************************************************************************)
(* Proofs about Platform, for any number of users, calls, instances, codes *)
(* and requests, and whatever clients mix.  What prepare's plans come to   *)
(* is Preparing_proofs'.                                                   *)
(***************************************************************************)
EXTENDS Platform, Preparing_proofs

-----------------------------------------------------------------------------
(* The calls.  The components share the variable call; each lemma about a  *)
(* component needs to know that a call about to do something there got     *)
(* there by the component's own steps, and is well typed.                  *)

AccountPcs == {"insert", "candidate", "claim", "add", "patch"}
SessionPcs == {"session", "end"}
CodePcs == {"issue", "send", "replace", "guess", "drop", "mark", "miss", "consume"}
RequestPcs == {"expire", "match", "fulfil"}

\* What a call may be; of a preparing call only whose it is.
CallOK(s) ==
  /\ "pc" \in DOMAIN s
  /\ s.pc \in AccountPcs => s \in AccountCall
  /\ s.pc \in SessionPcs => s \in SessionCall
  /\ s.pc \in CodePcs => s \in CodeCall
  /\ s.pc \in RequestPcs => s \in RequestCall
  /\ s.pc \in PreparingPcs => s.user \in Users
  /\ s.pc = "delete" => s \in DeleteCall
  /\ s.pc = "idle" => s = Idle
  /\ s.pc \in AccountPcs \cup SessionPcs \cup CodePcs \cup RequestPcs \cup PreparingPcs \cup {"delete", "idle"}

CallsInv ==
  /\ DOMAIN call = Calls /\ call = [c \in Calls |-> call[c]]
  /\ \A c \in Calls : CallOK(call[c])

\* A step moves no call, or one call to a state of the given pcs.
Moves(pcs) ==
  \/ call' = call
  \/ \E c \in Calls : \E s : call' = [call EXCEPT ![c] = s] /\ CallOK(s) /\ s.pc \in pcs

\* An answered call is idle.
LEMMA IdleOK == CallOK(Idle) /\ Idle.pc = "idle"
  BY DEF CallOK, Idle, AccountPcs, SessionPcs, CodePcs, RequestPcs, PreparingPcs

\* Moving a call keeps the calls, and leaves the other calls.
LEMMA MovesKeeps ==
  ASSUME CallsInv, NEW pcs, Moves(pcs)
  PROVE  /\ CallsInv'
         /\ \A c \in Calls : call'[c] = call[c] \/ call'[c].pc \in pcs
  BY DEF Moves, CallsInv

\* A call goes to one state.
LEMMA GotoMoves ==
  ASSUME NEW c \in Calls, NEW s, NEW pcs, Goto(c, s), CallOK(s), s.pc \in pcs
  PROVE  Moves(pcs)
  BY DEF Moves, Goto

\* Signup, account ids and contacts.
LEMMA AccountMoves ==
  ASSUME CallsInv, AccountNext
  PROVE  Moves(AccountPcs \cup {"idle", "session"})
<1> DEFINE pcs == AccountPcs \cup {"idle", "session"}
<1>1. PICK c \in Calls :
        \/ Signup(c) \/ InsertUser(c) \/ TryAccountId(c) \/ ClaimAccountId(c)
        \/ InsertContact(c) \/ UpdateContact(c)
        \/ \E u \in Users : CreateAccountId(c, u) \/ AddContact(c, u) \/ PatchContact(c, u)
                            \/ RemoveContact(c, u)
  BY DEF AccountNext
<1>2. Answer(c) => Moves(pcs)
  BY IdleOK, GotoMoves DEF Answer
<1>3. CASE Signup(c)
  <2>1. PICK e \in Emails : Goto(c, [pc |-> "insert", email |-> e])
    BY <1>3 DEF Signup
  <2>2. CallOK([pc |-> "insert", email |-> e])
    BY DEF CallOK, AccountPcs, SessionPcs, CodePcs, RequestPcs, PreparingPcs, AccountCall
  <2> QED BY <2>1, <2>2, GotoMoves DEF AccountPcs
<1>4. CASE InsertUser(c)
  <2>1. Answer(c) \/ \E u \in Users : Goto(c, [pc |-> "session", user |-> u, then |-> "issue"])
    BY <1>4 DEF InsertUser
  <2>2. \A u \in Users : CallOK([pc |-> "session", user |-> u, then |-> "issue"])
    BY DEF CallOK, AccountPcs, SessionPcs, CodePcs, RequestPcs, PreparingPcs, SessionCall
  <2> QED BY <1>2, <2>1, <2>2, GotoMoves
<1>5. CASE TryAccountId(c)
  <2>1. call[c] \in [pc: {"candidate"}, user: Users, left: 1..IdAttempts]
    BY <1>5 DEF TryAccountId, At, CallsInv, CallOK, AccountPcs, AccountCall
  <2>2. PICK id \in AccountIds :
          \/ Goto(c, [pc |-> "claim", user |-> call[c].user, id |-> id])
          \/ Answer(c)
          \/ call[c].left # 1 /\ Goto(c, [call[c] EXCEPT !.left = @ - 1])
    BY <1>5 DEF TryAccountId
  <2>3. CallOK([pc |-> "claim", user |-> call[c].user, id |-> id])
    BY <2>1 DEF CallOK, AccountPcs, SessionPcs, CodePcs, RequestPcs, PreparingPcs, AccountCall
  <2>4. ASSUME call[c].left # 1
        PROVE  CallOK([call[c] EXCEPT !.left = @ - 1]) /\ [call[c] EXCEPT !.left = @ - 1].pc = "candidate"
    <3>1. [call[c] EXCEPT !.left = @ - 1] = [pc |-> "candidate", user |-> call[c].user, left |-> call[c].left - 1]
      BY <2>1
    <3>2. call[c].left - 1 \in 1..IdAttempts
      BY <2>1, <2>4, AccountsAssumption
    <3> QED BY <2>1, <3>1, <3>2 DEF CallOK, AccountPcs, SessionPcs, CodePcs, RequestPcs, PreparingPcs, AccountCall
  <2> QED BY <1>2, <2>2, <2>3, <2>4, GotoMoves DEF AccountPcs
<1>6. CASE ClaimAccountId(c) \/ InsertContact(c) \/ UpdateContact(c)
  <2>1. Answer(c)
    BY <1>6 DEF ClaimAccountId, InsertContact, UpdateContact
  <2> QED BY <1>2, <2>1
<1>7. ASSUME NEW u \in Users, CreateAccountId(c, u) PROVE Moves(pcs)
  <2>1. CallOK([pc |-> "candidate", user |-> u, left |-> IdAttempts])
    BY AccountsAssumption DEF CallOK, AccountPcs, SessionPcs, CodePcs, RequestPcs, PreparingPcs, AccountCall
  <2> QED BY <1>7, <2>1, GotoMoves DEF CreateAccountId, AccountPcs
<1>8. ASSUME NEW u \in Users, AddContact(c, u) PROVE Moves(pcs)
  <2>1. PICK n \in Names, id \in AccountIds : Goto(c, [pc |-> "add", user |-> u, name |-> n, id |-> id])
    BY <1>8 DEF AddContact
  <2>2. CallOK([pc |-> "add", user |-> u, name |-> n, id |-> id])
    BY DEF CallOK, AccountPcs, SessionPcs, CodePcs, RequestPcs, PreparingPcs, AccountCall
  <2> QED BY <2>1, <2>2, GotoMoves DEF AccountPcs
<1>9. ASSUME NEW u \in Users, PatchContact(c, u) PROVE Moves(pcs)
  <2>1. PICK k \in ContactRows, n \in Names \cup {None}, id \in AccountIds \cup {None} :
          Goto(c, [pc |-> "patch", row |-> k, name |-> n, id |-> id])
    BY <1>9 DEF PatchContact
  <2>2. CallOK([pc |-> "patch", row |-> k, name |-> n, id |-> id])
    BY DEF CallOK, AccountPcs, SessionPcs, CodePcs, RequestPcs, PreparingPcs, AccountCall
  <2> QED BY <2>1, <2>2, GotoMoves DEF AccountPcs
<1>10. ASSUME NEW u \in Users, RemoveContact(c, u) PROVE Moves(pcs)
  BY <1>10 DEF RemoveContact, Moves, apiVars
<1> QED BY <1>1, <1>3, <1>4, <1>5, <1>6, <1>7, <1>8, <1>9, <1>10

\* Logins and the ends of sessions.
LEMMA SessionMoves ==
  ASSUME CallsInv, SessionTypeOK, SessionNext
  PROVE  Moves(SessionPcs \cup {"idle", "issue"})
<1> DEFINE pcs == SessionPcs \cup {"idle", "issue"}
<1>1. ASSUME NEW c \in Calls, NEW u \in Users, Login(c, u) PROVE Moves(pcs)
  <2>1. CallOK([pc |-> "session", user |-> u, then |-> "idle"])
    BY DEF CallOK, AccountPcs, SessionPcs, CodePcs, RequestPcs, PreparingPcs, SessionCall
  <2> QED BY <1>1, <2>1, GotoMoves DEF Login, SessionPcs
<1>2. ASSUME NEW c \in Calls, NEW t \in session, NEW own \in session, EndSession(c, t, own) PROVE Moves(pcs)
  <2>1. t \in Token
    BY DEF SessionTypeOK
  <2>2. CallOK([pc |-> "end", token |-> t])
    BY <2>1 DEF CallOK, AccountPcs, SessionPcs, CodePcs, RequestPcs, PreparingPcs, SessionCall
  <2> QED BY <1>2, <2>2, GotoMoves DEF EndSession, SessionPcs
<1>3. ASSUME NEW c \in Calls, CreateSession(c) PROVE Moves(pcs)
  <2>1. call[c].user \in Users
    BY <1>3 DEF CreateSession, At, CallsInv, CallOK, SessionPcs, SessionCall
  <2>2. Answer(c) \/ Goto(c, [pc |-> "issue", user |-> call[c].user])
    BY <1>3 DEF CreateSession
  <2>3. CallOK([pc |-> "issue", user |-> call[c].user])
    BY <2>1 DEF CallOK, AccountPcs, SessionPcs, CodePcs, RequestPcs, PreparingPcs, CodeCall
  <2> QED BY <2>2, <2>3, IdleOK, GotoMoves DEF Answer
<1>4. ASSUME NEW c \in Calls, DeleteSession(c) PROVE Moves(pcs)
  BY <1>4, IdleOK, GotoMoves DEF DeleteSession, Answer
<1>5. CASE Rotate \/ Tick
  BY <1>5 DEF Rotate, Tick, Moves, apiVars
<1> QED BY <1>1, <1>2, <1>3, <1>4, <1>5 DEF SessionNext

\* Codes.
LEMMA CodeMoves ==
  ASSUME CallsInv, CodeTypeOK, CodeNext
  PROVE  Moves(CodePcs \cup {"idle"})
<1> DEFINE pcs == CodePcs \cup {"idle"}
<1>1. \A c \in Calls : Answer(c) => Moves(pcs)
  BY IdleOK, GotoMoves DEF Answer
<1>2. ASSUME NEW c \in Calls, NEW u \in Users, Resend(c, u) PROVE Moves(pcs)
  <2>1. CallOK([pc |-> "issue", user |-> u])
    BY DEF CallOK, AccountPcs, SessionPcs, CodePcs, RequestPcs, PreparingPcs, CodeCall
  <2> QED BY <1>2, <2>1, GotoMoves DEF Resend, CodePcs
<1>3. ASSUME NEW c \in Calls, NEW u \in Users, VerifyEmail(c, u) PROVE Moves(pcs)
  <2>1. CallOK([pc |-> "guess", user |-> u])
    BY DEF CallOK, AccountPcs, SessionPcs, CodePcs, RequestPcs, PreparingPcs, CodeCall
  <2> QED BY <1>3, <2>1, GotoMoves DEF VerifyEmail, CodePcs
<1>8. ASSUME NEW c \in Calls, ReadCode(c) PROVE Moves(pcs)
  <2> DEFINE u == call[c].user
  <2>1. u \in Users
    BY <1>8 DEF ReadCode, At, CallsInv, CallOK, CodePcs, CodeCall
  <2> HIDE DEF u
  <2>2. CASE code[u] = None
    BY <1>1, <1>8, <2>2 DEF ReadCode, u
  <2>3. CASE code[u] # None
    <3>1. code[u] \in Record
      BY <2>1, <2>3 DEF CodeTypeOK
    <3>2. CallOK([pc |-> "drop", user |-> u, n |-> code[u].n])
      BY <2>1, <3>1 DEF CallOK, AccountPcs, SessionPcs, CodePcs, RequestPcs, PreparingPcs, CodeCall, Record
    <3>3. \A pc \in {"miss", "consume"} : CallOK([pc |-> pc, user |-> u, n |-> code[u].n, a |-> code[u].a])
      BY <2>1, <3>1 DEF CallOK, AccountPcs, SessionPcs, CodePcs, RequestPcs, PreparingPcs, CodeCall, Record
    <3>4. CASE code[u].expired
      BY <1>8, <2>3, <3>2, <3>4, GotoMoves DEF ReadCode, u, CodePcs
    <3>5. CASE ~code[u].expired
      <4>1. PICK pc \in {"miss", "consume"} :
              Goto(c, [pc |-> pc, user |-> u, n |-> code[u].n, a |-> code[u].a])
        BY <1>8, <2>3, <3>5 DEF ReadCode, u
      <4> QED BY <3>3, <4>1, GotoMoves DEF CodePcs
    <3> QED BY <3>4, <3>5
  <2> QED BY <2>2, <2>3
<1>4. ASSUME NEW c \in Calls, Issue(c) \/ SendCode(c) PROVE Moves(pcs)
  <2>1. call[c].pc \in {"issue", "send"} /\ call[c] \in CodeCall
    BY <1>4 DEF Issue, SendCode, At, CallsInv, CallOK, CodePcs
  <2>2. call[c] \in [pc: {"issue", "send", "replace", "guess", "mark"}, user: Users]
    BY <2>1 DEF CodeCall
  <2>3. \A pc \in {"send", "replace"} :
          CallOK([call[c] EXCEPT !.pc = pc]) /\ [call[c] EXCEPT !.pc = pc].pc = pc
    BY <2>2 DEF CallOK, AccountPcs, SessionPcs, CodePcs, RequestPcs, PreparingPcs, CodeCall
  <2>4. Answer(c) \/ Goto(c, [call[c] EXCEPT !.pc = "send"]) \/ Goto(c, [call[c] EXCEPT !.pc = "replace"])
    BY <1>4 DEF Issue, SendCode
  <2> QED BY <1>1, <2>3, <2>4, GotoMoves DEF CodePcs
<1>5. ASSUME NEW c \in Calls, Consume(c) PROVE Moves(pcs)
  <2>1. call[c].user \in Users
    BY <1>5 DEF Consume, At, CallsInv, CallOK, CodePcs, CodeCall
  <2>2. Answer(c) \/ Goto(c, [pc |-> "mark", user |-> call[c].user])
    BY <1>5 DEF Consume
  <2>3. CallOK([pc |-> "mark", user |-> call[c].user])
    BY <2>1 DEF CallOK, AccountPcs, SessionPcs, CodePcs, RequestPcs, PreparingPcs, CodeCall
  <2> QED BY <1>1, <2>2, <2>3, GotoMoves DEF CodePcs
<1>6. ASSUME NEW c \in Calls, Replace(c) \/ DropExpired(c) \/ Miss(c) \/ MarkVerified(c) PROVE Moves(pcs)
  BY <1>1, <1>6 DEF Replace, DropExpired, Miss, MarkVerified
<1>7. ASSUME NEW u \in Users, CodeExpires(u) \/ RetentionEnds(u) PROVE Moves(pcs)
  BY <1>7 DEF CodeExpires, RetentionEnds, Moves, apiVars
<1> QED BY <1>2, <1>3, <1>4, <1>5, <1>6, <1>7, <1>8 DEF CodeNext

\* Payment requests.
LEMMA RequestMoves ==
  ASSUME CallsInv, RequestTypeOK, RequestNext
  PROVE  Moves(RequestPcs \cup {"idle"})
<1> DEFINE pcs == RequestPcs \cup {"idle"}
<1>1. \A c \in Calls : Answer(c) => Moves(pcs)
  BY IdleOK, GotoMoves DEF Answer
<1>2. \A q \in Requests : CallOK([pc |-> "expire", request |-> q])
  BY DEF CallOK, AccountPcs, SessionPcs, CodePcs, RequestPcs, PreparingPcs, RequestCall
<1>3. ASSUME NEW c \in Calls, GetRequest(c) PROVE Moves(pcs)
  <2>1. PICK q \in late : Goto(c, [pc |-> "expire", request |-> q])
    BY <1>3 DEF GetRequest
  <2>2. q \in Requests
    BY DEF RequestTypeOK
  <2> QED BY <1>2, <2>1, <2>2, GotoMoves DEF RequestPcs
<1>4. ASSUME NEW c \in Calls, NEW u \in Users, FulfillRequest(c, u) PROVE Moves(pcs)
  <2>1. PICK q \in Requests, x \in Transfers :
          \/ Goto(c, [pc |-> "match", request |-> q, transfer |-> x, payer |-> u])
          \/ Goto(c, [pc |-> "expire", request |-> q])
    BY <1>4 DEF FulfillRequest
  <2>2. CallOK([pc |-> "match", request |-> q, transfer |-> x, payer |-> u])
    BY DEF CallOK, AccountPcs, SessionPcs, CodePcs, RequestPcs, PreparingPcs, RequestCall
  <2> QED BY <1>2, <2>1, <2>2, GotoMoves DEF RequestPcs
<1>5. ASSUME NEW c \in Calls, MatchTransfer(c) PROVE Moves(pcs)
  <2>1. call[c].pc = "match" /\ call[c] \in RequestCall
    BY <1>5 DEF MatchTransfer, At, CallsInv, CallOK, RequestPcs
  <2>2. call[c] \in [pc: {"match", "fulfil"}, request: Requests, transfer: Transfers, payer: Users]
    BY <2>1 DEF RequestCall
  <2>3. CallOK([call[c] EXCEPT !.pc = "fulfil"]) /\ [call[c] EXCEPT !.pc = "fulfil"].pc = "fulfil"
    BY <2>2 DEF CallOK, AccountPcs, SessionPcs, CodePcs, RequestPcs, PreparingPcs, RequestCall
  <2> QED BY <1>1, <1>5, <2>3, GotoMoves DEF MatchTransfer, RequestPcs
<1>6. ASSUME NEW c \in Calls, MarkExpired(c) \/ Fulfil(c) PROVE Moves(pcs)
  BY <1>1, <1>6 DEF MarkExpired, Fulfil
<1>7. ASSUME NEW c \in Calls, NEW u \in Users, CreateRequest(c, u) PROVE Moves(pcs)
  BY <1>7 DEF CreateRequest, Moves, apiVars
<1>8. CASE \/ \E q \in Requests : RequestExpires(q)
           \/ \E x \in Transfers : Store(x) \/ Complete(x)
  BY <1>8 DEF RequestExpires, Store, Complete, Moves, apiVars
<1> QED BY <1>3, <1>4, <1>5, <1>6, <1>7, <1>8 DEF RequestNext

\* Registrations and preparations.
LEMMA PreparingMoves ==
  ASSUME CallsInv, PreparingNext
  PROVE  Moves(PreparingPcs \cup {"idle"})
<1> DEFINE pcs == PreparingPcs \cup {"idle"}
<1>0. ASSUME NEW s, "pc" \in DOMAIN s, s.pc \in {"verify", "tokens", "gas", "store"}, s.user \in Users PROVE CallOK(s)
  BY <1>0 DEF CallOK, AccountPcs, SessionPcs, CodePcs, RequestPcs, PreparingPcs
<1>1. \A c \in Calls : Answer(c) => Moves(pcs)
  BY IdleOK, GotoMoves DEF Answer
<1>2. ASSUME NEW c \in Calls, NEW u \in Users, Prepare(c, u) PROVE Moves(pcs)
  <2>1. PICK asset \in Wanted, amount \in Amounts, to \in Recipients :
          Goto(c, [pc |-> "verify", user |-> u, asset |-> asset, amount |-> amount, to |-> to])
    BY <1>2 DEF Prepare
  <2> DEFINE s == [pc |-> "verify", user |-> u, asset |-> asset, amount |-> amount, to |-> to]
  <2>2. "pc" \in DOMAIN s /\ s.pc = "verify" /\ s.user \in Users
    OBVIOUS
  <2> HIDE DEF s
  <2>3. CallOK(s)
    BY <1>0, <2>2
  <2> QED BY <2>1, <2>2, <2>3, GotoMoves DEF s, PreparingPcs
<1>3. ASSUME NEW c \in Calls, FindWallet(c) PROVE Moves(pcs)
  <2>1. PICK row \in wallet[call[c].user] :
          \/ Goto(c, [pc |-> "gas", user |-> call[c].user, asset |-> call[c].asset,
                      amount |-> call[c].amount, from |-> row.address])
          \/ Goto(c, [pc |-> "tokens", user |-> call[c].user, asset |-> call[c].asset,
                      amount |-> call[c].amount, from |-> row.address])
    BY <1>3 DEF FindWallet
  <2> DEFINE s(pc) == [pc |-> pc, user |-> call[c].user, asset |-> call[c].asset,
                       amount |-> call[c].amount, from |-> row.address]
  <2>2. \A pc \in {"gas", "tokens"} : "pc" \in DOMAIN s(pc) /\ s(pc).pc = pc /\ s(pc).user \in Users
    BY <1>3 DEF FindWallet, At, CallsInv, CallOK, PreparingPcs
  <2>3. Goto(c, s("gas")) \/ Goto(c, s("tokens"))
    BY <2>1
  <2> HIDE DEF s
  <2>4. CallOK(s("gas")) /\ CallOK(s("tokens"))
    BY <1>0, <2>2
  <2> QED BY <2>2, <2>3, <2>4, GotoMoves DEF PreparingPcs
<1>4. ASSUME NEW c \in Calls, CheckTokens(c) PROVE Moves(pcs)
  <2> DEFINE s == [call[c] EXCEPT !.pc = "gas"]
  <2>1. "pc" \in DOMAIN call[c] /\ Goto(c, s) /\ call[c].user \in Users
    BY <1>4 DEF CheckTokens, At, CallsInv, CallOK, PreparingPcs
  <2>2. "pc" \in DOMAIN s /\ s.pc = "gas" /\ s.user \in Users
    BY <2>1
  <2> HIDE DEF s
  <2>3. CallOK(s)
    BY <1>0, <2>2
  <2> QED BY <2>1, <2>2, <2>3, GotoMoves DEF PreparingPcs
<1>5. ASSUME NEW c \in Calls, CheckGas(c) PROVE Moves(pcs)
  <2>1. PICK fee \in estimateFee(Env, workload.chain, call[c].asset, call[c].amount, GasPrices) :
          Goto(c, [pc |-> "store", user |-> call[c].user, asset |-> call[c].asset,
                   amount |-> call[c].amount, fee |-> fee])
    BY <1>5 DEF CheckGas
  <2> DEFINE s == [pc |-> "store", user |-> call[c].user, asset |-> call[c].asset,
                   amount |-> call[c].amount, fee |-> fee]
  <2>2. "pc" \in DOMAIN s /\ s.pc = "store" /\ s.user \in Users
    BY <1>5 DEF CheckGas, At, CallsInv, CallOK, PreparingPcs
  <2> HIDE DEF s
  <2>3. CallOK(s)
    BY <1>0, <2>2
  <2> QED BY <2>1, <2>2, <2>3, GotoMoves DEF s, PreparingPcs
<1>6. ASSUME NEW c \in Calls, StoreIntent(c) \/ UpsertWallets(c) PROVE Moves(pcs)
  BY <1>1, <1>6 DEF StoreIntent, UpsertWallets
<1>7. ASSUME NEW c \in Calls, NEW u \in Users, RegisterWallets(c, u) PROVE Moves(pcs)
  <2>1. PICK body \in Registrations : Goto(c, [pc |-> "upsert", user |-> u, body |-> body])
    BY <1>7 DEF RegisterWallets
  <2>2. CallOK([pc |-> "upsert", user |-> u, body |-> body])
    BY DEF CallOK, AccountPcs, SessionPcs, CodePcs, RequestPcs, PreparingPcs
  <2> QED BY <2>1, <2>2, GotoMoves DEF PreparingPcs
<1>8. CASE \E a \in DOMAIN holding : \E asset \in DOMAIN holding[a] : SpendElsewhere(a, asset)
  BY <1>8 DEF SpendElsewhere, Moves, apiVars
<1> QED BY <1>2, <1>3, <1>4, <1>5, <1>6, <1>7, <1>8 DEF PreparingNext, WalletNext

-----------------------------------------------------------------------------
(* The steps of the whole, as each component sees them.                    *)

\* A socket's steps, and an instance's restart, move no call.
LEMMA RoomMoves ==
  ASSUME RoomNext
  PROVE  UNCHANGED <<sessionVars, apiVars>>
  BY DEF RoomNext, Connect, LookUp, Admit, Close, Publish, Receive, BridgeDrops, NoCalls

LEMMA DeployMoves ==
  ASSUME NEW i \in Instances, Redeploy(i)
  PROVE  UNCHANGED <<clock, plan, begun, burnt, session, ended, apiVars>>
  BY DEF Redeploy, Deploy

\* What clients do is fixed at the start, and only preparations look at balances.
LEMMA WorkloadFixed ==
  /\ AccountNext => UNCHANGED workload
  /\ SessionNext => UNCHANGED workload
  /\ CodeNext => UNCHANGED workload
  /\ RequestNext => UNCHANGED workload
<1> USE DEF apiVars
<1>1. AccountNext => UNCHANGED workload
  BY DEF AccountNext, Signup, InsertUser, TryAccountId, ClaimAccountId, InsertContact, UpdateContact,
         CreateAccountId, AddContact, PatchContact, RemoveContact
<1>2. SessionNext => UNCHANGED workload
  BY DEF SessionNext, Login, EndSession, CreateSession, DeleteSession, Rotate, Tick
<1>3. CodeNext => UNCHANGED workload
  BY DEF CodeNext, Resend, VerifyEmail, ReadCode, Issue, SendCode, Replace, DropExpired, Miss, Consume, MarkVerified,
         CodeExpires, RetentionEnds, CreateCode
<1>4. RequestNext => UNCHANGED workload
  BY DEF RequestNext, CreateRequest, FulfillRequest, GetRequest, MarkExpired, MatchTransfer, Fulfil,
         RequestExpires, Store, Complete
<1> QED BY <1>1, <1>2, <1>3, <1>4

\* The deletion of an account.
LEMMA DeleteMoves ==
  ASSUME NEW c \in Calls,
         Breaks(c) \/ CommitDelete(c) \/ \E u \in Users : DeleteAccount(c, u)
  PROVE  Moves({"idle", "delete"})
<1>1. CASE Breaks(c) \/ CommitDelete(c)
  BY <1>1, IdleOK, GotoMoves DEF Breaks, CommitDelete, Answer
<1>2. ASSUME NEW u \in Users, DeleteAccount(c, u) PROVE Moves({"idle", "delete"})
  <2>1. CallOK([pc |-> "delete", user |-> u])
    BY DEF CallOK, AccountPcs, SessionPcs, CodePcs, RequestPcs, PreparingPcs, DeleteCall
  <2> QED BY <1>2, <2>1, GotoMoves DEF DeleteAccount
<1> QED BY <1>1, <1>2

-----------------------------------------------------------------------------
(* Types, component by component.                                          *)

UsersTypeOK == user \in [Users -> {"unborn", "live", "gone"}]

\* A call about to write a contact read one, and contacts are never taken away.
AccountInv ==
  /\ AccountTypeOK
  /\ \A c \in Calls : call[c].pc = "patch" => contact[call[c].row] # None

LEMMA AccountSteps ==
  ASSUME CallsInv, UsersTypeOK, AccountInv, AccountNext
  PROVE  UsersTypeOK' /\ AccountInv'
<1> USE DEF UsersTypeOK, AccountTypeOK
<1> SUFFICES /\ UsersTypeOK' /\ AccountTypeOK'
             /\ \A k \in ContactRows : contact[k] # None => contact'[k] # None
             /\ \A c \in Calls : \/ call'[c] = call[c] \/ call'[c].pc # "patch"
                                 \/ call'[c].row \in ContactRows /\ contact'[call'[c].row] # None
  <2>1. \A c \in Calls : call[c].pc = "patch" => call[c].row \in ContactRows
    BY DEF CallsInv, CallOK, AccountPcs, AccountCall
  <2> QED BY <2>1 DEF AccountInv
<1>1. PICK c \in Calls :
        \/ Signup(c) \/ InsertUser(c) \/ TryAccountId(c) \/ ClaimAccountId(c)
        \/ InsertContact(c) \/ UpdateContact(c)
        \/ \E u \in Users : CreateAccountId(c, u) \/ AddContact(c, u) \/ PatchContact(c, u)
                            \/ RemoveContact(c, u)
  BY DEF AccountNext
<1>2. CallOK(call[c]) /\ DOMAIN call = Calls /\ AccountTypeOK
  BY DEF CallsInv, AccountInv
<1>3. CASE Signup(c)
  BY <1>2, <1>3 DEF Signup, Goto, accountVars
<1>4. CASE InsertUser(c)
  <2>1. call[c].email \in Emails
    BY <1>2, <1>4 DEF InsertUser, At, CallOK, AccountPcs, AccountCall
  <2>2. UsersTypeOK' /\ AccountTypeOK' /\ UNCHANGED contact
    BY <1>2, <1>4, <2>1 DEF InsertUser
  <2>3. \A d \in Calls : call'[d] = call[d] \/ call'[d].pc # "patch"
    BY <1>2, <1>4 DEF InsertUser, Goto, Answer, Idle
  <2> QED BY <2>2, <2>3
<1>5. CASE TryAccountId(c)
  <2>1. \A d \in Calls : call'[d] = call[d] \/ call'[d].pc # "patch"
    <3>1. call[c] \in [pc: {"candidate"}, user: Users, left: 1..IdAttempts]
      BY <1>2, <1>5 DEF TryAccountId, At, CallOK, AccountPcs, AccountCall
    <3> DEFINE next == [call[c] EXCEPT !.left = @ - 1]
    <3>2. next.pc = "candidate"
      BY <3>1
    <3>3. PICK id \in AccountIds :
            \/ Goto(c, [pc |-> "claim", user |-> call[c].user, id |-> id])
            \/ Goto(c, [pc |-> "idle"])
            \/ Goto(c, next)
      BY <1>5 DEF TryAccountId, Answer, Idle
    <3> HIDE DEF next
    <3> QED BY <1>2, <3>2, <3>3 DEF Goto
  <2> QED BY <1>2, <1>5, <2>1 DEF TryAccountId, accountVars
<1>6. CASE ClaimAccountId(c)
  <2>1. call[c].id \in AccountIds
    BY <1>2, <1>6 DEF ClaimAccountId, At, CallOK, AccountPcs, AccountCall
  <2> QED BY <1>2, <1>6, <2>1 DEF ClaimAccountId, Answer, Goto, Idle
<1>7. CASE InsertContact(c)
  <2> DEFINE new == [owner |-> call[c].user, name |-> call[c].name, id |-> call[c].id, live |-> TRUE]
  <2>1. call[c].user \in Users /\ call[c].name \in Names /\ call[c].id \in AccountIds
    BY <1>2, <1>7 DEF InsertContact, At, CallOK, AccountPcs, AccountCall
  <2>2. new \in Contact
    BY <2>1 DEF Contact
  <2>3. PICK k \in ContactRows : contact' = contact \/ contact' = [contact EXCEPT ![k] = new]
    BY <1>7 DEF InsertContact
  <2>4. \A d \in Calls : call'[d] = call[d] \/ call'[d].pc # "patch"
    BY <1>2, <1>7 DEF InsertContact, Goto, Answer, Idle
  <2>5. UNCHANGED <<user, email, accountId>>
    BY <1>7 DEF InsertContact
  <2> HIDE DEF new
  <2> QED BY <1>2, <2>2, <2>3, <2>4, <2>5, AccountsAssumption
<1>8. CASE UpdateContact(c)
  <2> DEFINE k == call[c].row  n == call[c].name  id == call[c].id
             new == [contact[k] EXCEPT !.name = IF n = None THEN @ ELSE n,
                                       !.id = IF id = None THEN @ ELSE id]
  <2>1. k \in ContactRows /\ n \in Names \cup {None} /\ id \in AccountIds \cup {None}
    BY <1>2, <1>8 DEF UpdateContact, At, CallOK, AccountPcs, AccountCall
  <2>2. contact[k] \in Contact
    BY <1>2, <1>8, <2>1 DEF UpdateContact, At, AccountInv
  <2>3. new \in Contact
    BY <2>1, <2>2 DEF Contact
  <2>4. contact' = contact \/ contact' = [contact EXCEPT ![k] = new]
    BY <1>8 DEF UpdateContact
  <2>5. \A d \in Calls : call'[d] = call[d] \/ call'[d].pc # "patch"
    BY <1>2, <1>8 DEF UpdateContact, Goto, Answer, Idle
  <2>6. UNCHANGED <<user, email, accountId>>
    BY <1>8 DEF UpdateContact
  <2> HIDE DEF k, new
  <2> QED BY <1>2, <2>1, <2>3, <2>4, <2>5, <2>6, AccountsAssumption
<1>9. ASSUME NEW u \in Users, CreateAccountId(c, u) \/ AddContact(c, u)
      PROVE  /\ UsersTypeOK' /\ AccountTypeOK' /\ UNCHANGED contact
             /\ \A d \in Calls : call'[d] = call[d] \/ call'[d].pc # "patch"
  BY <1>2, <1>9 DEF CreateAccountId, AddContact, accountVars, Goto
<1>10. ASSUME NEW u \in Users, PatchContact(c, u)
       PROVE  /\ UsersTypeOK' /\ AccountTypeOK' /\ UNCHANGED contact
              /\ \A d \in Calls : \/ call'[d] = call[d]
                                  \/ call'[d].row \in ContactRows /\ contact'[call'[d].row] # None
  <2>1. PICK k \in ContactRows, n \in Names \cup {None}, id \in AccountIds \cup {None} :
          Mine(k, u) /\ Goto(c, [pc |-> "patch", row |-> k, name |-> n, id |-> id])
    BY <1>10 DEF PatchContact
  <2>2. contact[k] # None
    BY <2>1 DEF Mine
  <2>3. UNCHANGED <<user, email, accountId, contact>>
    BY <1>10 DEF PatchContact, accountVars
  <2> QED BY <1>2, <2>1, <2>2, <2>3 DEF Goto
<1>11. ASSUME NEW u \in Users, RemoveContact(c, u)
       PROVE  /\ UsersTypeOK' /\ AccountTypeOK' /\ UNCHANGED call
              /\ \A k \in ContactRows : contact[k] # None => contact'[k] # None
  <2>1. PICK k \in ContactRows : Mine(k, u) /\ contact' = [contact EXCEPT ![k].live = FALSE]
    BY <1>11 DEF RemoveContact
  <2>2. contact[k] \in Contact
    BY <1>2, <2>1 DEF Mine
  <2>3. [contact[k] EXCEPT !.live = FALSE] \in Contact
    BY <2>2 DEF Contact
  <2>4. UNCHANGED <<user, email, accountId, call>>
    BY <1>11 DEF RemoveContact, apiVars
  <2> QED BY <1>2, <2>1, <2>3, <2>4, AccountsAssumption
<1> QED BY <1>1, <1>2, <1>3, <1>4, <1>5, <1>6, <1>7, <1>8, <1>9, <1>10, <1>11

\* What RowsConsistent says of e-mails, account ids and contacts.
AccountRows ==
  /\ \A u \in Users : (accountId[u] # None => Live(u)) /\ (email[u] # None <=> Live(u))
  /\ \A u, v \in Users : u # v => /\ email[u] = email[v] => email[u] = None
                                  /\ accountId[u] = accountId[v] => accountId[u] = None
  /\ \A k, o \in ContactRows : k # o /\ contact[k] # None /\ contact[o] # None =>
       ~(/\ contact[k].live /\ contact[o].live
         /\ contact[k].owner = contact[o].owner /\ contact[k].name = contact[o].name)

\* Of two rows one of which keeps an owner's name free of it.
LEMMA NamesStayUnique ==
  ASSUME AccountTypeOK, AccountRows, NEW k \in ContactRows, NEW new \in Contact,
         contact' = [contact EXCEPT ![k] = new],
         new.live => UniqueName(k, new.owner, new.name)
  PROVE  \A j, o \in ContactRows : j # o /\ contact'[j] # None /\ contact'[o] # None =>
           ~(/\ contact'[j].live /\ contact'[o].live
             /\ contact'[j].owner = contact'[o].owner /\ contact'[j].name = contact'[o].name)
<1>1. \A o \in ContactRows \ {k} : contact'[o] = contact[o]
  BY DEF AccountTypeOK
<1>2. contact'[k] = new
  BY DEF AccountTypeOK
<1>3. \A o \in ContactRows \ {k} : contact[o] # None /\ new.live /\ contact[o].live =>
        ~(new.owner = contact[o].owner /\ new.name = contact[o].name)
  BY DEF UniqueName, Mine
<1> QED BY <1>1, <1>2, <1>3 DEF AccountRows

LEMMA AccountRowsKept ==
  ASSUME CallsInv, UsersTypeOK, AccountInv, AccountRows, AccountNext
  PROVE  AccountRows' /\ \A u \in Users : Live(u) => Live(u)'
<1> DEFINE Goal == AccountRows' /\ \A u \in Users : Live(u) => Live(u)'
<1>1. PICK c \in Calls :
        \/ Signup(c) \/ InsertUser(c) \/ TryAccountId(c) \/ ClaimAccountId(c)
        \/ InsertContact(c) \/ UpdateContact(c)
        \/ \E u \in Users : CreateAccountId(c, u) \/ AddContact(c, u) \/ PatchContact(c, u)
                            \/ RemoveContact(c, u)
  BY DEF AccountNext
<1>2. CallOK(call[c]) /\ AccountTypeOK
  BY DEF CallsInv, AccountInv
<1>3. ASSUME UNCHANGED <<user, accountVars>> PROVE Goal
  BY <1>3 DEF AccountRows, accountVars, Live
<1>4. CASE Signup(c) \/ TryAccountId(c) \/ \E u \in Users : CreateAccountId(c, u) \/ AddContact(c, u) \/ PatchContact(c, u)
  BY <1>3, <1>4 DEF Signup, TryAccountId, CreateAccountId, AddContact, PatchContact
<1>5. CASE InsertUser(c)
  <2>1. call[c].email \in Emails
    BY <1>2, <1>5 DEF InsertUser, At, CallOK, AccountPcs, AccountCall
  <2>2. UNCHANGED <<accountId, contact>>
    BY <1>5 DEF InsertUser
  <2>3. CASE UNCHANGED <<user, email>>
    BY <1>3, <2>2, <2>3 DEF accountVars
  <2>4. CASE ~UNCHANGED <<user, email>>
    <3>1. PICK u \in Users : /\ user[u] = "unborn" /\ FreeEmail(call[c].email)
                             /\ user' = [user EXCEPT ![u] = "live"]
                             /\ email' = [email EXCEPT ![u] = call[c].email]
      BY <1>5, <2>4 DEF InsertUser
    <3>2. \A v \in Users : email'[v] = (IF v = u THEN call[c].email ELSE email[v])
                           /\ user'[v] = (IF v = u THEN "live" ELSE user[v])
      BY <1>2, <3>1 DEF AccountTypeOK, UsersTypeOK
    <3> QED BY <2>1, <2>2, <3>1, <3>2, AccountsAssumption DEF AccountRows, FreeEmail, Live
  <2> QED BY <2>3, <2>4
<1>6. CASE ClaimAccountId(c)
  <2> DEFINE u == call[c].user  id == call[c].id
  <2>1. u \in Users /\ id \in AccountIds
    BY <1>2, <1>6 DEF ClaimAccountId, At, CallOK, AccountPcs, AccountCall
  <2>2. UNCHANGED <<user, email, contact>>
    BY <1>6 DEF ClaimAccountId
  <2>3. CASE accountId' = accountId
    BY <1>3, <2>2, <2>3 DEF accountVars
  <2>4. CASE accountId' # accountId
    <3>1. Live(u) /\ ~Taken(id) /\ accountId' = [accountId EXCEPT ![u] = id]
      BY <1>6, <2>4 DEF ClaimAccountId, Exists
    <3>2. \A v \in Users : accountId'[v] = IF v = u THEN id ELSE accountId[v]
      BY <1>2, <3>1 DEF AccountTypeOK
    <3> HIDE DEF u, id
    <3> QED BY <2>1, <2>2, <3>1, <3>2, AccountsAssumption DEF AccountRows, Taken, Live
  <2> QED BY <2>3, <2>4
<1>7. CASE InsertContact(c)
  <2> DEFINE new == [owner |-> call[c].user, name |-> call[c].name, id |-> call[c].id, live |-> TRUE]
  <2>1. new \in Contact /\ new.owner = call[c].user /\ new.name = call[c].name
    BY <1>2, <1>7 DEF InsertContact, At, CallOK, AccountPcs, AccountCall, Contact
  <2>2. PICK k \in ContactRows :
          \/ contact' = contact
          \/ UniqueName(k, call[c].user, call[c].name) /\ contact' = [contact EXCEPT ![k] = new]
    BY <1>7 DEF InsertContact
  <2>3. UNCHANGED <<user, email, accountId>>
    BY <1>7 DEF InsertContact
  <2>4. CASE contact' = contact
    BY <1>3, <2>3, <2>4 DEF accountVars
  <2>5. CASE UniqueName(k, call[c].user, call[c].name) /\ contact' = [contact EXCEPT ![k] = new]
    <3> HIDE DEF new
    <3>1. \A j, o \in ContactRows : j # o /\ contact'[j] # None /\ contact'[o] # None =>
           ~(/\ contact'[j].live /\ contact'[o].live
             /\ contact'[j].owner = contact'[o].owner /\ contact'[j].name = contact'[o].name)
      BY <1>2, <2>1, <2>5, NamesStayUnique
    <3> QED BY <2>3, <3>1 DEF AccountRows, Live
  <2> QED BY <2>2, <2>4, <2>5
<1>8. CASE UpdateContact(c)
  <2> DEFINE k == call[c].row  n == call[c].name  id == call[c].id
             new == [contact[k] EXCEPT !.name = IF n = None THEN @ ELSE n,
                                       !.id = IF id = None THEN @ ELSE id]
  <2>1. k \in ContactRows /\ n \in Names \cup {None} /\ id \in AccountIds \cup {None}
    BY <1>2, <1>8 DEF UpdateContact, At, CallOK, AccountPcs, AccountCall
  <2>2. contact[k] # None /\ contact[k] \in Contact
    BY <1>2, <1>8, <2>1 DEF UpdateContact, At, AccountInv, AccountTypeOK
  <2>3. /\ new \in Contact /\ new.owner = contact[k].owner /\ new.live = contact[k].live
        /\ new.name = IF n = None THEN contact[k].name ELSE n
    BY <2>1, <2>2 DEF Contact
  <2>4. UNCHANGED <<user, email, accountId>>
    BY <1>8 DEF UpdateContact
  <2>5. CASE contact' = contact
    BY <1>3, <2>4, <2>5 DEF accountVars
  <2>6. CASE contact' # contact
    <3>1. /\ contact[k].live /\ (n = None \/ UniqueName(k, contact[k].owner, n))
          /\ contact' = [contact EXCEPT ![k] = new]
      BY <1>8, <2>6 DEF UpdateContact
    <3> HIDE DEF k, n, new
    <3>2. UniqueName(k, new.owner, new.name)
      <4>1. CASE n = None
        BY <2>1, <2>2, <2>3, <3>1, <4>1 DEF UniqueName, Mine, AccountRows
      <4>2. CASE n # None
        BY <2>3, <3>1, <4>2
      <4> QED BY <4>1, <4>2
    <3>3. \A j, o \in ContactRows : j # o /\ contact'[j] # None /\ contact'[o] # None =>
           ~(/\ contact'[j].live /\ contact'[o].live
             /\ contact'[j].owner = contact'[o].owner /\ contact'[j].name = contact'[o].name)
      BY <1>2, <2>1, <2>3, <3>1, <3>2, NamesStayUnique
    <3> QED BY <2>4, <3>3 DEF AccountRows, Live
  <2> QED BY <2>5, <2>6
<1>9. ASSUME NEW u \in Users, RemoveContact(c, u) PROVE Goal
  <2>1. PICK k \in ContactRows : Mine(k, u) /\ contact' = [contact EXCEPT ![k] = [contact[k] EXCEPT !.live = FALSE]]
    BY <1>9 DEF RemoveContact
  <2> DEFINE new == [contact[k] EXCEPT !.live = FALSE]
  <2>2. contact[k] \in Contact
    BY <1>2, <2>1 DEF Mine, AccountTypeOK
  <2>3. new \in Contact /\ ~new.live
    BY <2>2 DEF Contact
  <2>4. UNCHANGED <<user, email, accountId>>
    BY <1>9 DEF RemoveContact, apiVars
  <2> HIDE DEF new
  <2>5. \A j, o \in ContactRows : j # o /\ contact'[j] # None /\ contact'[o] # None =>
         ~(/\ contact'[j].live /\ contact'[o].live
           /\ contact'[j].owner = contact'[o].owner /\ contact'[j].name = contact'[o].name)
    BY <1>2, <2>1, <2>3, NamesStayUnique DEF new
  <2> QED BY <2>4, <2>5 DEF AccountRows, Live
<1> QED BY <1>1, <1>4, <1>5, <1>6, <1>7, <1>8, <1>9

-----------------------------------------------------------------------------
(* Sessions: types, rows, and that an ended token does not return.         *)

SessionRows == \A t \in session : Live(t.sub)

SessionInv == SessionTypeOK /\ SessionRows /\ EndedStaysEnded

LEMMA SessionSteps ==
  ASSUME CallsInv, SessionInv, SessionNext
  PROVE  /\ SessionInv' /\ UNCHANGED user
         /\ session \cup ended \subseteq session' \cup ended'
<1> DEFINE Goal == /\ SessionInv' /\ UNCHANGED user
                   /\ session \cup ended \subseteq session' \cup ended'
<1> USE DEF SessionInv, SessionRows, EndedStaysEnded
<1>1. ASSUME NEW c \in Calls, CreateSession(c) PROVE Goal
  <2>1. call[c].user \in Users
    BY <1>1 DEF CreateSession, At, CallsInv, CallOK, SessionPcs, SessionCall
  <2>2. UNCHANGED <<user, clock, config, plan, begun, burnt, ended>>
    BY <1>1 DEF CreateSession, keyVars
  <2>3. CASE session' = session
    BY <2>2, <2>3 DEF SessionTypeOK, Live
  <2>4. CASE session' # session
    <3>1. PICK i \in Instances : \E t \in signSessionToken(call[c].user, config[i].key) :
            Live(call[c].user) /\ session' = session \cup {t}
      BY <1>1, <2>4 DEF CreateSession, Exists
    <3>2. PICK j \in Jtis : /\ \A t \in session \cup ended : t.jti # j
                            /\ Live(call[c].user)
                            /\ session' = session \cup {[sub |-> call[c].user, key |-> config[i].key,
                                                         iat |-> clock, jti |-> j]}
      BY <3>1 DEF signSessionToken
    <3> DEFINE new == [sub |-> call[c].user, key |-> config[i].key, iat |-> clock, jti |-> j]
    <3>3. new \in Token /\ new.sub = call[c].user /\ new.jti = j
      BY <2>1 DEF SessionTypeOK, Config, Token
    <3> HIDE DEF new
    <3>4. session' = session \cup {new}
      BY <3>2 DEF new
    <3> QED BY <2>2, <3>2, <3>3, <3>4 DEF SessionTypeOK, Live
  <2> QED BY <2>3, <2>4
<1>2. ASSUME NEW c \in Calls, DeleteSession(c) PROVE Goal
  BY <1>2 DEF DeleteSession, keyVars, SessionTypeOK, Live
<1>3. ASSUME NEW c \in Calls,
             \/ \E u \in Users : Login(c, u)
             \/ \E t, own \in session : EndSession(c, t, own)
      PROVE  Goal
  BY <1>3 DEF Login, EndSession, sessionVars, keyVars, SessionTypeOK, Live
<1>4. CASE Rotate
  <2>1. plan' \in Config
    BY <1>4, RotationAssumption DEF Rotate, SessionTypeOK, Config, Keys, Clock
  <2>2. burnt' \subseteq Keys
    <3>1. plan.key \in 0..MaxKey
      BY DEF SessionTypeOK, Config, Keys
    <3>2. 0..plan.key \subseteq 0..MaxKey
      BY <3>1, RotationAssumption
    <3> QED BY <1>4, <3>2 DEF Rotate, SessionTypeOK, Keys
  <2>3. UNCHANGED <<clock, config, session, ended, user>> /\ begun' = clock
    BY <1>4 DEF Rotate, apiVars
  <2> QED BY <2>1, <2>2, <2>3 DEF SessionTypeOK, Live
<1>5. CASE Tick
  BY <1>5, RotationAssumption DEF Tick, SessionTypeOK, apiVars, Live
<1> QED BY <1>1, <1>2, <1>3, <1>4, <1>5 DEF SessionNext

LEMMA DeploySteps ==
  ASSUME SessionInv, NEW i \in Instances, Redeploy(i)
  PROVE  SessionInv'
  BY DEF SessionInv, SessionRows, EndedStaysEnded, SessionTypeOK, Redeploy, Deploy, apiVars, Live

\* Rooms.
RoomInv ==
  /\ RoomTypeOK
  /\ \A s \in Sockets :
       /\ socket[s].pc # "none" => socket[s].token \in session \cup ended
       /\ socket[s].pc \in {"lookup", "admit"} => socket[s].open \/ socket[s].early
       /\ got[s] # {} => socket[s].pc # "none" /\ got[s] = {socket[s].token.sub}
  /\ \A m \in room : /\ socket[m[3]].pc = "served" /\ m = Place(m[3])
                     /\ socket[m[3]].open \/ socket[m[3]].early

LEMMA RoomsOwn == RoomInv => RoomsAreOwn
  BY DEF RoomInv, RoomsAreOwn, RoomTypeOK

\* Steps that touch no socket.
LEMMA RoomsElsewhere ==
  ASSUME RoomInv, UNCHANGED roomVars, session \cup ended \subseteq session' \cup ended'
  PROVE  RoomInv'
  BY DEF RoomInv, roomVars, RoomTypeOK, Place

LEMMA RoomSteps ==
  ASSUME RoomInv, SessionTypeOK, RoomNext
  PROVE  RoomInv' /\ UNCHANGED <<sessionVars, apiVars>>
<1>1. UNCHANGED <<sessionVars, apiVars>>
  BY RoomMoves
<1>2. UNCHANGED <<session, ended, user>>
  BY <1>1 DEF sessionVars, apiVars
<1>3. RoomTypeOK
  BY DEF RoomInv
<1>4. ASSUME NEW s \in Sockets, NEW t \in session \cup ended, Connect(s, t) PROVE RoomInv'
  <2>1. PICK i \in Instances :
          socket' = [socket EXCEPT ![s] = [pc |-> "lookup", at |-> i, token |-> t, open |-> TRUE, early |-> FALSE]]
    BY <1>4 DEF Connect, SetSocket
  <2> DEFINE new == [pc |-> "lookup", at |-> i, token |-> t, open |-> TRUE, early |-> FALSE]
  <2>2. new \in Socket /\ new.pc = "lookup" /\ new.open /\ new.token = t
    BY DEF Socket, SessionTypeOK
  <2> HIDE DEF new
  <2>3. socket' = [socket EXCEPT ![s] = new] /\ socket[s].pc = "none" /\ UNCHANGED <<room, bridge, channel, got>>
    BY <1>4, <2>1 DEF new, Connect
  <2> QED BY <1>2, <1>3, <2>2, <2>3 DEF RoomInv, RoomTypeOK, Place
<1>5. ASSUME NEW s \in Sockets, LookUp(s) PROVE RoomInv'
  <2>1. socket[s].pc = "lookup" /\ socket[s] \in Socket
    BY <1>3, <1>5 DEF LookUp, RoomTypeOK
  <2> DEFINE new == IF socket[s].token \in session THEN [socket[s] EXCEPT !.pc = "admit"]
                    ELSE [socket[s] EXCEPT !.pc = "refused", !.open = FALSE]
  <2>2. /\ new \in Socket /\ new.pc \in {"admit", "refused"} /\ new.token = socket[s].token
        /\ new.pc = "admit" => new.open = socket[s].open /\ new.early = socket[s].early
    BY <2>1 DEF Socket
  <2> HIDE DEF new
  <2>3. socket' = [socket EXCEPT ![s] = new] /\ UNCHANGED <<room, bridge, channel, got>>
    BY <1>5 DEF new, LookUp, SetSocket
  <2> QED BY <1>2, <1>3, <2>1, <2>2, <2>3 DEF RoomInv, RoomTypeOK, Place
<1>6. ASSUME NEW s \in Sockets, Admit(s) PROVE RoomInv'
  <2>1. socket[s].pc = "admit" /\ socket[s] \in Socket
    BY <1>3, <1>6 DEF Admit, RoomTypeOK
  <2>2. \A pc \in {"served", "refused"} :
          LET new == [socket[s] EXCEPT !.pc = pc]
          IN  /\ new \in Socket /\ new.pc = pc /\ new.token = socket[s].token
              /\ new.at = socket[s].at /\ new.open = socket[s].open /\ new.early = socket[s].early
    BY <2>1 DEF Socket
  <2>3. CASE UNCHANGED room /\ SetSocket(s, [socket[s] EXCEPT !.pc = "refused"])
    <3> DEFINE new == [socket[s] EXCEPT !.pc = "refused"]
    <3>1. new \in Socket /\ new.pc = "refused" /\ new.token = socket[s].token
      BY <2>2
    <3>2. socket' = [socket EXCEPT ![s] = new] /\ UNCHANGED <<room, bridge, channel, got>>
      BY <1>6, <2>3 DEF Admit, SetSocket
    <3> HIDE DEF new
    <3> QED BY <1>2, <1>3, <2>1, <3>1, <3>2 DEF RoomInv, RoomTypeOK, Place
  <2>4. CASE room' = room \cup {Place(s)} /\ SetSocket(s, [socket[s] EXCEPT !.pc = "served"])
    <3> DEFINE new == [socket[s] EXCEPT !.pc = "served"]
    <3>1. /\ new \in Socket /\ new.pc = "served" /\ new.token = socket[s].token
          /\ new.at = socket[s].at /\ new.open = socket[s].open /\ new.early = socket[s].early
      BY <2>2
    <3>2. socket' = [socket EXCEPT ![s] = new] /\ UNCHANGED <<bridge, channel, got>>
          /\ room' = room \cup {<<socket[s].at, socket[s].token.sub, s>>}
      BY <1>6, <2>4 DEF Admit, SetSocket, Place
    <3> HIDE DEF new
    <3>3. socket[s].at \in Instances /\ socket[s].token.sub \in Users
      BY <2>1 DEF Socket, Token
    <3>4. RoomTypeOK'
      BY <1>3, <3>1, <3>2, <3>3 DEF RoomTypeOK
    <3> QED BY <1>2, <1>3, <2>1, <3>1, <3>2, <3>4 DEF RoomInv, RoomTypeOK, Place
  <2> QED BY <1>6, <2>3, <2>4 DEF Admit
<1>7. ASSUME NEW s \in Sockets, Close(s) PROVE RoomInv'
  <2>1. socket[s].pc # "none" /\ socket[s] \in Socket
    BY <1>3, <1>7 DEF Close, RoomTypeOK
  <2> DEFINE new == [socket[s] EXCEPT !.open = FALSE, !.early = socket[s].pc # "served"]
  <2>2. /\ new \in Socket /\ new.pc = socket[s].pc /\ new.token = socket[s].token
        /\ new.early = (socket[s].pc # "served")
    BY <2>1 DEF Socket
  <2> HIDE DEF new
  <2>3. socket' = [socket EXCEPT ![s] = new] /\ UNCHANGED <<bridge, channel, got>>
        /\ room' = IF socket[s].pc = "served" THEN room \ {Place(s)} ELSE room
    BY <1>7 DEF new, Close, SetSocket, removeFromRoom
  <2>4. \A m \in room' : m[3] # s
    BY <2>3 DEF RoomInv
  <2> QED BY <1>2, <1>3, <2>1, <2>2, <2>3, <2>4 DEF RoomInv, RoomTypeOK, Place
<1>8. ASSUME NEW u \in Users, Publish(u) PROVE RoomInv'
  <2>1. channel' \subseteq Instances \X Users /\ UNCHANGED <<socket, room, bridge, got>>
    BY <1>3, <1>8 DEF Publish, RoomTypeOK
  <2> QED BY <1>2, <1>3, <2>1 DEF RoomInv, RoomTypeOK, Place
<1>9. ASSUME NEW u \in Users, NEW i \in Instances, Receive(i, u) PROVE RoomInv'
  <2>1. /\ channel' = channel \ {<<i, u>>} /\ UNCHANGED <<socket, room, bridge>>
        /\ got' = [s \in Sockets |-> got[s] \cup (IF <<i, u, s>> \in room /\ socket[s].open THEN {u} ELSE {})]
    BY <1>9 DEF Receive
  <2>2. ASSUME NEW s \in Sockets, <<i, u, s>> \in room
        PROVE  socket[s].pc = "served" /\ u = socket[s].token.sub
    <3>1. socket[s].pc = "served" /\ <<i, u, s>> = Place(s)
      BY <2>2 DEF RoomInv
    <3> QED BY <3>1 DEF Place
  <2>3. got' \in [Sockets -> SUBSET Users]
    BY <1>3, <2>1 DEF RoomTypeOK
  <2>4. \A s \in Sockets : got'[s] # {} => socket[s].pc # "none" /\ got'[s] = {socket[s].token.sub}
    BY <2>1, <2>2 DEF RoomInv
  <2> QED BY <1>2, <1>3, <2>1, <2>3, <2>4 DEF RoomInv, RoomTypeOK, Place
<1>10. ASSUME NEW i \in Instances, BridgeDrops(i) PROVE RoomInv'
  BY <1>2, <1>3, <1>10 DEF BridgeDrops, RoomInv, RoomTypeOK, Place
<1> QED BY <1>1, <1>4, <1>5, <1>6, <1>7, <1>8, <1>9, <1>10 DEF RoomNext

LEMMA RestartSteps ==
  ASSUME RoomInv, NEW i \in Instances, RestartRooms(i), UNCHANGED <<session, ended>>
  PROVE  RoomInv'
<1> DEFINE off(s) == [socket[s] EXCEPT !.pc = "refused", !.open = FALSE]
<1>1. RoomTypeOK
  BY DEF RoomInv
<1>2. \A s \in Sockets : socket[s].pc # "none" =>
        off(s) \in Socket /\ off(s).pc = "refused" /\ off(s).token = socket[s].token
  BY <1>1 DEF RoomTypeOK, Socket
<1> HIDE DEF off
<1>3. \A s \in Sockets : socket'[s] = IF socket[s].pc # "none" /\ socket[s].at = i THEN off(s) ELSE socket[s]
  BY DEF RestartRooms, off
<1>5. RoomTypeOK'
  <2>1. socket' \in [Sockets -> Socket]
    BY <1>1, <1>2 DEF RestartRooms, RoomTypeOK, off
  <2> QED BY <1>1, <2>1 DEF RestartRooms, RoomTypeOK
<1>6. \A m \in room' : m \in room /\ m[3] \in Sockets /\ socket'[m[3]] = socket[m[3]]
  <2>1. \A m \in room' : m \in room /\ m[1] # i
    BY DEF RestartRooms
  <2>2. \A m \in room : m[3] \in Sockets /\ m[1] = socket[m[3]].at
    BY <1>1 DEF RoomInv, Place, RoomTypeOK
  <2> QED BY <1>3, <2>1, <2>2
<1>7. got' = got
  BY DEF RestartRooms
<1> QED BY <1>2, <1>3, <1>5, <1>6, <1>7 DEF RoomInv, Place

-----------------------------------------------------------------------------
(* Codes: the attempts a record counts are the wrong guesses made of it.   *)

CodeInv ==
  /\ CodeTypeOK
  /\ \A u \in Users : code[u] # None =>
       LET n == code[u].n
       IN  n <= made /\ wrong[n] = code[u].a /\ accepted[n] = 0
  /\ \A u, v \in Users : u # v /\ code[u] # None /\ code[v] # None => code[u].n # code[v].n
  /\ \A n \in 1..MaxCodes : /\ wrong[n] <= MaxAttempts
                            /\ accepted[n] > 0 => accepted[n] = 1 /\ wrong[n] < MaxAttempts
                            /\ n > made => wrong[n] = 0 /\ accepted[n] = 0

LEMMA CodesInBudget == CodeInv => AcceptedInBudget
  BY DEF CodeInv, AcceptedInBudget

\* What may become of a live code in a step of the codes' calls.
CodeFate ==
  \A u \in Users : code[u] # None /\ ~code[u].expired /\ code'[u] = None =>
    \E c \in Calls : call'[c] # call[c] /\ MayDelete(c, u, code[u].n)

\* A call about to delete an expired record read one that is gone, or replaced, or expired
\* still.
DropInv ==
  \A c \in Calls : At(c, "drop") =>
    LET u == call[c].user  n == call[c].n
    IN  n <= made /\ (code[u] # None => n < code[u].n \/ (n = code[u].n /\ code[u].expired))

LEMMA NoneIsNoRecord == None \notin Record
  BY CodesAssumption DEF Record

\* A user's record is replaced by a new code.
LEMMA CreateCodeSteps ==
  ASSUME CodeInv, NEW u \in Users, CreateCode(u)
  PROVE  CodeInv' /\ CodeFate
<1> DEFINE new == [n |-> made + 1, a |-> 0, expired |-> FALSE]
<1>1. made \in 0..MaxCodes /\ made < MaxCodes /\ CodeTypeOK /\ MaxCodes \in Nat
  BY CodesAssumption DEF CreateCode, CodeInv, CodeTypeOK
<1>2. new \in Record /\ new.n = made + 1 /\ new.a = 0
  BY <1>1, CodesAssumption DEF Record
<1> HIDE DEF new
<1>3. code' = [code EXCEPT ![u] = new] /\ made' = made + 1 /\ UNCHANGED <<verified, wrong, accepted>>
  BY DEF CreateCode, SetCode, new
<1>4. \A v \in Users : code'[v] = IF v = u THEN new ELSE code[v]
  BY <1>1, <1>3 DEF CodeTypeOK
<1>5. new # None
  BY <1>2, NoneIsNoRecord
<1>6. CodeTypeOK'
  BY <1>1, <1>2, <1>3 DEF CodeTypeOK
<1>7. \A v \in Users : code[v] # None => code[v].n \in 1..MaxCodes
  BY <1>1 DEF CodeTypeOK, Record
<1>8. wrong[made + 1] = 0 /\ accepted[made + 1] = 0 /\ made + 1 \in 1..MaxCodes
  BY <1>1 DEF CodeInv
<1>9. CodeInv'
  BY <1>1, <1>2, <1>3, <1>4, <1>5, <1>6, <1>7, <1>8, CodesAssumption DEF CodeInv, CodeTypeOK
<1> QED BY <1>4, <1>5, <1>9 DEF CodeFate

\* A user's record goes.
LEMMA DropCodeSteps ==
  ASSUME CodeInv, NEW u \in Users, SetCode(u, None), UNCHANGED <<made, wrong, accepted>>, verified' \subseteq Users
  PROVE  CodeInv' /\ \A v \in Users \ {u} : code'[v] = code[v]
  BY DEF CodeInv, CodeTypeOK, SetCode

\* The counts of a user's code become w and a, and the record follows.
LEMMA CountSteps ==
  ASSUME CodeInv, CodeTypeOK', made' = made, NEW u \in Users, code[u] # None,
         NEW w \in Nat, NEW a \in Nat,
         \A m \in 1..MaxCodes : /\ wrong'[m] = IF m = code[u].n THEN w ELSE wrong[m]
                                /\ accepted'[m] = IF m = code[u].n THEN a ELSE accepted[m],
         w <= MaxAttempts, a > 0 => a = 1 /\ w < MaxAttempts,
         \A v \in Users \ {u} : code'[v] = code[v],
         code'[u] = None \/ (code'[u].n = code[u].n /\ code'[u].a = w /\ a = 0)
  PROVE  CodeInv'
<1>1. \A v \in Users : code[v] # None => code[v].n \in 1..MaxCodes /\ code[v].n <= made
  BY DEF CodeInv, CodeTypeOK, Record
<1>2. \A v \in Users \ {u} : code[v] # None => code[v].n # code[u].n
  BY DEF CodeInv
<1>3. \A v \in Users : code'[v] # None =>
        code'[v].n <= made' /\ wrong'[code'[v].n] = code'[v].a /\ accepted'[code'[v].n] = 0
  BY <1>1, <1>2 DEF CodeInv
<1>4. \A v, o \in Users : v # o /\ code'[v] # None /\ code'[o] # None => code'[v].n # code'[o].n
  BY <1>2 DEF CodeInv
<1>5. \A n \in 1..MaxCodes : /\ wrong'[n] <= MaxAttempts
                             /\ accepted'[n] > 0 => accepted'[n] = 1 /\ wrong'[n] < MaxAttempts
                             /\ n > made' => wrong'[n] = 0 /\ accepted'[n] = 0
  <2> SUFFICES ASSUME NEW n \in 1..MaxCodes
               PROVE  /\ wrong'[n] <= MaxAttempts
                      /\ accepted'[n] > 0 => accepted'[n] = 1 /\ wrong'[n] < MaxAttempts
                      /\ n > made' => wrong'[n] = 0 /\ accepted'[n] = 0
    OBVIOUS
  <2>1. CASE n = code[u].n
    <3>1. made \in Nat /\ ~(n > made)
      BY <1>1, <2>1 DEF CodeInv, CodeTypeOK
    <3> QED BY <2>1, <3>1
  <2>2. CASE n # code[u].n
    BY <2>2 DEF CodeInv
  <2> QED BY <2>1, <2>2
<1> QED BY <1>3, <1>4, <1>5 DEF CodeInv

LEMMA CodeSteps ==
  ASSUME CallsInv, CodeInv, DropInv, CodeNext
  PROVE  CodeInv' /\ CodeFate /\ UNCHANGED user
<1> USE DEF CodeFate
<1>0. \A c \in Calls : Answer(c) /\ call[c].pc # "idle" => call'[c] # call[c]
  BY DEF Answer, Goto, Idle, CallsInv
<1>1. CodeTypeOK /\ MaxAttempts \in Nat \ {0}
  BY CodesAssumption DEF CodeInv
<1>2. ASSUME UNCHANGED codeVars PROVE CodeInv' /\ CodeFate
  BY <1>2 DEF codeVars, CodeInv, CodeTypeOK
<1>3. ASSUME NEW c \in Calls,
             SendCode(c) \/ ReadCode(c) \/ \E u \in Users : Resend(c, u) \/ VerifyEmail(c, u)
      PROVE  CodeInv' /\ CodeFate /\ UNCHANGED user
  BY <1>2, <1>3 DEF SendCode, Resend, VerifyEmail, ReadCode
<1>4. ASSUME NEW c \in Calls, Issue(c) \/ Replace(c)
      PROVE  CodeInv' /\ CodeFate /\ UNCHANGED user
  <2>1. call[c].user \in Users
    BY <1>4 DEF Issue, Replace, At, CallsInv, CallOK, CodePcs, CodeCall
  <2> QED BY <1>4, <2>1, CreateCodeSteps DEF Issue, Replace, CreateCode
<1>5. ASSUME NEW c \in Calls, DropExpired(c)
      PROVE  CodeInv' /\ CodeFate /\ UNCHANGED user
  <2>1. call[c].user \in Users
    BY <1>5 DEF DropExpired, At, CallsInv, CallOK, CodePcs, CodeCall
  <2>2. CodeInv' /\ \A v \in Users \ {call[c].user} : code'[v] = code[v]
    BY <1>1, <1>5, <2>1, DropCodeSteps DEF DropExpired, CodeTypeOK
  <2>3. ASSUME code[call[c].user] # None, ~code[call[c].user].expired
        PROVE  call'[c] # call[c] /\ MayDelete(c, call[c].user, code[call[c].user].n)
    BY <1>0, <1>5, <2>3 DEF DropExpired, DropInv, MayDelete, At
  <2> QED BY <1>5, <2>2, <2>3 DEF DropExpired
<1>6. ASSUME NEW c \in Calls, Miss(c)
      PROVE  CodeInv' /\ CodeFate /\ UNCHANGED user
  <2> DEFINE u == call[c].user  n == call[c].n
             new == [code[u] EXCEPT !.a = code[u].a + 1]
  <2>1. u \in Users /\ n \in 1..MaxCodes
    BY <1>6 DEF Miss, At, CallsInv, CallOK, CodePcs, CodeCall
  <2>2. UNCHANGED <<verified, made, accepted, user>>
        /\ wrong' = [wrong EXCEPT ![n] = @ + (IF Holds(u, n) THEN 1 ELSE 0)]
    BY <1>6 DEF Miss
  <2>3. CASE ~Holds(u, n)
    <3>1. wrong' = wrong
      BY <1>1, <2>1, <2>2, <2>3 DEF CodeTypeOK
    <3>2. code' = code
      BY <1>1, <1>6, <2>3 DEF Miss, FAILURE_SCRIPT, CodeTypeOK
    <3> QED BY <1>2, <2>2, <3>1, <3>2 DEF codeVars
  <2>4. CASE Holds(u, n)
    <3>1. code[u] # None /\ code[u] \in Record /\ code[u].n = n
      BY <1>1, <2>1, <2>4 DEF Holds, CodeTypeOK
    <3>2. code[u].a \in 0..(MaxAttempts - 1) /\ wrong[n] = code[u].a /\ n <= made /\ accepted[n] = 0
      BY <2>1, <3>1 DEF CodeInv, Record
    <3>3. \A m \in 1..MaxCodes : wrong'[m] = IF m = n THEN code[u].a + 1 ELSE wrong[m]
      BY <1>1, <2>1, <2>2, <2>4, <3>2 DEF CodeTypeOK
    <3>4. wrong' \in [1..MaxCodes -> Nat]
      BY <1>1, <2>1, <2>2, <2>4, <3>2 DEF CodeTypeOK
    <3>5. \A v \in Users : code[v] # None => code[v] \in Record /\ code[v].n \in 1..MaxCodes /\ code[v].n <= made
      BY <1>1 DEF CodeTypeOK, CodeInv, Record
    <3>6. CASE code[u].a + 1 >= MaxAttempts
      <4>1. code' = [code EXCEPT ![u] = None]
        BY <1>6, <2>4, <3>6 DEF Miss, FAILURE_SCRIPT, SetCode
      <4>2. \A v \in Users : code'[v] = IF v = u THEN None ELSE code[v]
        BY <1>1, <4>1 DEF CodeTypeOK
      <4>3. CodeTypeOK'
        BY <1>1, <2>1, <2>2, <3>4, <4>1 DEF CodeTypeOK
      <4> DEFINE w == code[u].a + 1
      <4> HIDE DEF u, n
      <4>4. CodeInv'
        <5>1. w \in Nat /\ w <= MaxAttempts /\ accepted[n] \in Nat /\ made' = made
          BY <1>1, <2>1, <2>2, <3>2 DEF CodeTypeOK
        <5>2. \A m \in 1..MaxCodes : /\ wrong'[m] = IF m = code[u].n THEN w ELSE wrong[m]
                                     /\ accepted'[m] = IF m = code[u].n THEN 0 ELSE accepted[m]
          BY <2>2, <3>1, <3>2, <3>3
        <5> HIDE DEF w
        <5> QED BY <2>1, <3>1, <4>2, <4>3, <5>1, <5>2, CountSteps
      <4>5. call'[c] # call[c] /\ MayDelete(c, u, code[u].n)
        BY <1>0, <1>1, <1>6, <3>1, <3>2, <3>6 DEF MayDelete, Miss, At, u, n
      <4> QED BY <2>2, <4>2, <4>4, <4>5
    <3>7. CASE ~(code[u].a + 1 >= MaxAttempts)
      <4>1. code' = [code EXCEPT ![u] = new]
        BY <1>6, <2>4, <3>7 DEF Miss, FAILURE_SCRIPT, SetCode
      <4>2. new \in Record /\ new.n = n /\ new.a = code[u].a + 1
        BY <1>1, <3>1, <3>2, <3>7 DEF Record
      <4>3. new # None
        BY <4>2, NoneIsNoRecord
      <4> HIDE DEF new
      <4>4. \A v \in Users : code'[v] = IF v = u THEN new ELSE code[v]
        BY <1>1, <4>1 DEF CodeTypeOK
      <4>5. CodeTypeOK'
        BY <1>1, <2>1, <2>2, <3>4, <4>1, <4>2 DEF CodeTypeOK
      <4> DEFINE w == code[u].a + 1
      <4> HIDE DEF u, n
      <4>6. CodeInv'
        <5>1. w \in Nat /\ w <= MaxAttempts /\ new.a = w /\ made' = made
          BY <1>1, <2>2, <3>2, <3>7, <4>2
        <5>2. \A m \in 1..MaxCodes : /\ wrong'[m] = IF m = code[u].n THEN w ELSE wrong[m]
                                     /\ accepted'[m] = IF m = code[u].n THEN 0 ELSE accepted[m]
          BY <2>2, <3>1, <3>2, <3>3
        <5> HIDE DEF w
        <5> QED BY <2>1, <3>1, <4>2, <4>4, <4>5, <5>1, <5>2, CountSteps
      <4> QED BY <2>2, <4>3, <4>4, <4>6
    <3> QED BY <3>6, <3>7
  <2> QED BY <2>3, <2>4
<1>7. ASSUME NEW c \in Calls, Consume(c)
      PROVE  CodeInv' /\ CodeFate /\ UNCHANGED user
  <2> DEFINE u == call[c].user  n == call[c].n
  <2>1. u \in Users /\ n \in 1..MaxCodes
    BY <1>7 DEF Consume, At, CallsInv, CallOK, CodePcs, CodeCall
  <2>2. UNCHANGED <<verified, made, wrong, user>>
    BY <1>7 DEF Consume
  <2>3. CASE ~Holds(u, n)
    <3>1. UNCHANGED <<code, accepted>>
      BY <1>7, <2>3 DEF Consume, Matches
    <3> QED BY <1>2, <2>2, <3>1 DEF codeVars
  <2>4. CASE Holds(u, n)
    <3>1. code[u] # None /\ code[u] \in Record /\ code[u].n = n
      BY <1>1, <2>1, <2>4 DEF Holds, CodeTypeOK
    <3>2. code[u].a \in 0..(MaxAttempts - 1) /\ wrong[n] = code[u].a /\ n <= made /\ accepted[n] = 0
      BY <2>1, <3>1 DEF CodeInv, Record
    <3>3. code' = [code EXCEPT ![u] = None] /\ accepted' = [accepted EXCEPT ![n] = @ + 1]
      BY <1>7, <2>4 DEF Consume, Matches, SetCode
    <3>4. \A m \in 1..MaxCodes : accepted'[m] = IF m = n THEN 1 ELSE accepted[m]
      BY <1>1, <2>1, <3>2, <3>3 DEF CodeTypeOK
    <3>5. \A v \in Users : code'[v] = IF v = u THEN None ELSE code[v]
      BY <1>1, <3>3 DEF CodeTypeOK
    <3>6. CodeTypeOK'
      BY <1>1, <2>1, <2>2, <3>3 DEF CodeTypeOK
    <3>7. \A v \in Users : code[v] # None => code[v].n \in 1..MaxCodes
      BY <1>1 DEF CodeTypeOK, Record
    <3> HIDE DEF u, n
    <3>8. CodeInv'
      <4>1. wrong[n] \in Nat /\ wrong[n] < MaxAttempts /\ made' = made
        BY <1>1, <2>2, <3>2
      <4>2. \A m \in 1..MaxCodes : /\ wrong'[m] = IF m = code[u].n THEN wrong[n] ELSE wrong[m]
                                   /\ accepted'[m] = IF m = code[u].n THEN 1 ELSE accepted[m]
        BY <2>2, <3>1, <3>4
      <4> QED BY <1>1, <2>1, <3>1, <3>5, <3>6, <4>1, <4>2, CountSteps
    <3>9. call'[c] # call[c] /\ MayDelete(c, u, code[u].n)
      <4>1. call'[c] = [pc |-> "mark", user |-> u]
        BY <1>7, <2>4 DEF Consume, Matches, Goto, CallsInv, u, n
      <4> QED BY <1>7, <3>1, <4>1 DEF MayDelete, Consume, At, u, n
    <3> QED BY <2>2, <3>5, <3>8, <3>9
  <2> QED BY <2>3, <2>4
<1>8. ASSUME NEW c \in Calls, MarkVerified(c)
      PROVE  CodeInv' /\ CodeFate /\ UNCHANGED user
  <2>1. call[c].user \in Users
    BY <1>8 DEF MarkVerified, At, CallsInv, CallOK, CodePcs, CodeCall
  <2> QED BY <1>1, <1>8, <2>1 DEF MarkVerified, CodeInv, CodeTypeOK
<1>9. ASSUME NEW u \in Users, CodeExpires(u)
      PROVE  CodeInv' /\ CodeFate /\ UNCHANGED user
  <2> DEFINE new == [code[u] EXCEPT !.expired = TRUE]
  <2>1. code[u] # None /\ code[u] \in Record
    BY <1>1, <1>9 DEF CodeExpires, CodeTypeOK
  <2>2. new \in Record /\ new.n = code[u].n /\ new.a = code[u].a
    BY <2>1 DEF Record
  <2>3. code' = [code EXCEPT ![u] = new] /\ UNCHANGED <<verified, made, wrong, accepted, user>>
    BY <1>9 DEF CodeExpires, SetCode, apiVars
  <2> HIDE DEF new
  <2>4. \A v \in Users : code'[v] = IF v = u THEN new ELSE code[v]
    BY <1>1, <2>3 DEF CodeTypeOK
  <2>5. CodeTypeOK'
    BY <1>1, <2>2, <2>3 DEF CodeTypeOK
  <2>6. CodeInv'
    BY <2>1, <2>2, <2>3, <2>4, <2>5 DEF CodeInv
  <2> QED BY <2>2, <2>3, <2>4, <2>6, NoneIsNoRecord
<1>10. ASSUME NEW u \in Users, RetentionEnds(u)
       PROVE  CodeInv' /\ CodeFate /\ UNCHANGED user
  <2>1. CodeInv' /\ \A v \in Users \ {u} : code'[v] = code[v]
    BY <1>1, <1>10, DropCodeSteps DEF RetentionEnds, CodeTypeOK
  <2> QED BY <1>10, <2>1 DEF RetentionEnds, apiVars
<1> QED BY <1>3, <1>4, <1>5, <1>6, <1>7, <1>8, <1>9, <1>10 DEF CodeNext

\* What a step leaves of a record: nothing, the same code no fresher, or a new code.
Follows(u) ==
  code'[u] # None =>
    \/ code[u] # None /\ code'[u].n = code[u].n /\ (code[u].expired => code'[u].expired)
    \/ code'[u].n = made' /\ made' = made + 1

LEMMA RecordsFollow ==
  ASSUME CodeInv, CallsInv, CodeNext
  PROVE  (made' = made \/ made' = made + 1) /\ \A u \in Users : Follows(u)
<1> USE DEF CodeInv, CodeTypeOK
<1>1. ASSUME NEW c \in Calls,
             SendCode(c) \/ ReadCode(c) \/ MarkVerified(c) \/ \E u \in Users : Resend(c, u) \/ VerifyEmail(c, u)
      PROVE  made' = made /\ \A u \in Users : Follows(u)
  BY <1>1 DEF SendCode, ReadCode, MarkVerified, Resend, VerifyEmail, codeVars, Follows
<1>2. ASSUME NEW u \in Users, CreateCode(u)
      PROVE  made' = made + 1 /\ \A v \in Users : Follows(v)
  BY <1>2 DEF CreateCode, SetCode, Follows
<1>3. ASSUME NEW c \in Calls, Issue(c) \/ Replace(c)
      PROVE  made' = made + 1 /\ \A u \in Users : Follows(u)
  <2>1. call[c].user \in Users
    BY <1>3 DEF Issue, Replace, At, CallsInv, CallOK, CodePcs, CodeCall
  <2> QED BY <1>2, <1>3, <2>1 DEF Issue, Replace
<1>4. ASSUME NEW u, SetCode(u, None) PROVE \A v \in Users : Follows(v)
  BY <1>4 DEF SetCode, Follows
<1>5. ASSUME NEW c \in Calls, DropExpired(c) \/ Consume(c)
      PROVE  made' = made /\ \A u \in Users : Follows(u)
  <2>1. SetCode(call[c].user, None) \/ code' = code
    BY <1>5 DEF DropExpired, Consume
  <2> QED BY <1>4, <1>5, <2>1 DEF DropExpired, Consume, Follows
<1>6. ASSUME NEW c \in Calls, Miss(c) PROVE made' = made /\ \A u \in Users : Follows(u)
  <2> DEFINE u == call[c].user  new == [code[u] EXCEPT !.a = code[u].a + 1]
  <2>1. u \in Users
    BY <1>6 DEF Miss, At, CallsInv, CallOK, CodePcs, CodeCall
  <2>2. code' = code \/ SetCode(u, None) \/ (code[u] # None /\ SetCode(u, new))
    BY <1>6 DEF Miss, FAILURE_SCRIPT, Holds
  <2>3. ASSUME code[u] # None, SetCode(u, new) PROVE \A v \in Users : Follows(v)
    <3>1. code[u] \in Record
      BY <2>1, <2>3
    <3>2. new.n = code[u].n /\ new.expired = code[u].expired
      BY <3>1 DEF Record
    <3> HIDE DEF new, u
    <3>3. \A v \in Users : code'[v] = IF v = u THEN new ELSE code[v]
      BY <2>3 DEF SetCode
    <3> QED BY <2>3, <3>2, <3>3 DEF Follows
  <2> QED BY <1>4, <1>6, <2>2, <2>3 DEF Miss, Follows
<1>7. ASSUME NEW u \in Users, CodeExpires(u) \/ RetentionEnds(u)
      PROVE  made' = made /\ \A v \in Users : Follows(v)
  <2>1. CASE RetentionEnds(u)
    BY <1>4, <2>1 DEF RetentionEnds
  <2>2. CASE CodeExpires(u)
    <3> DEFINE new == [code[u] EXCEPT !.expired = TRUE]
    <3>1. code[u] # None /\ code[u] \in Record /\ code' = [code EXCEPT ![u] = new]
      BY <2>2 DEF CodeExpires, SetCode
    <3>2. new.n = code[u].n /\ new.expired
      BY <3>1 DEF Record
    <3> HIDE DEF new
    <3> QED BY <2>2, <3>1, <3>2 DEF CodeExpires, Follows
  <2> QED BY <1>7, <2>1, <2>2
<1> QED BY <1>1, <1>3, <1>5, <1>6, <1>7 DEF CodeNext

LEMMA DropSteps ==
  ASSUME CallsInv, CodeInv, DropInv, CodeNext
  PROVE  DropInv'
<1> SUFFICES ASSUME NEW c \in Calls, call'[c].pc = "drop"
             PROVE  /\ call'[c].n <= made'
                    /\ code'[call'[c].user] # None =>
                         \/ call'[c].n < code'[call'[c].user].n
                         \/ call'[c].n = code'[call'[c].user].n /\ code'[call'[c].user].expired
  BY DEF DropInv, At
<1>0. made \in Nat /\ MaxCodes \in Nat /\ \A u \in Users : code[u] # None => code[u] \in Record /\ code[u].n <= made
  BY CodesAssumption DEF CodeInv, CodeTypeOK
<1>1. CASE call'[c] = call[c]
  <2>1. call[c].user \in Users /\ call[c].n \in 1..MaxCodes
    BY <1>1 DEF CallsInv, CallOK, CodePcs, CodeCall
  <2>2. (made' = made \/ made' = made + 1) /\ Follows(call[c].user)
    BY <2>1, RecordsFollow
  <2> QED BY <1>0, <1>1, <2>1, <2>2 DEF DropInv, At, Follows, Record
<1>2. CASE call'[c] # call[c]
  <2>1. ReadCode(c)
    <3>1. \A d \in Calls : \A state : Goto(d, state) => (d = c /\ state.pc = "drop")
      BY <1>2 DEF Goto, CallsInv
    <3>2. \A d \in Calls : ~Answer(d)
      BY <3>1 DEF Answer, Idle
    <3>3. \A d \in Calls, u \in Users : ~Resend(d, u) /\ ~VerifyEmail(d, u)
      BY <3>1 DEF Resend, VerifyEmail
    <3>4. ASSUME NEW d \in Calls PROVE ~Issue(d) /\ ~SendCode(d)
      <4>1. SUFFICES ASSUME Issue(d) \/ SendCode(d) PROVE FALSE
        OBVIOUS
      <4>2. call[d].pc \in {"issue", "send"} /\ call[d] \in CodeCall
        BY <4>1 DEF Issue, SendCode, At, CallsInv, CallOK, CodePcs
      <4>3. call[d] \in [pc: {"issue", "send", "replace", "guess", "mark"}, user: Users]
        BY <4>2 DEF CodeCall
      <4>4. \A pc \in {"send", "replace"} : [call[d] EXCEPT !.pc = pc].pc # "drop"
        BY <4>3
      <4> QED BY <3>1, <3>2, <4>1, <4>4 DEF Issue, SendCode
    <3>5. \A d \in Calls : ~Consume(d)
      BY <3>1, <3>2 DEF Consume
    <3>6. \A d \in Calls : ~Replace(d) /\ ~DropExpired(d) /\ ~Miss(d) /\ ~MarkVerified(d)
      BY <3>2 DEF Replace, DropExpired, Miss, MarkVerified
    <3>7. \A u \in Users : ~CodeExpires(u) /\ ~RetentionEnds(u)
      BY <1>2 DEF CodeExpires, RetentionEnds, apiVars
    <3>8. PICK d \in Calls : ReadCode(d)
      BY <3>3, <3>4, <3>5, <3>6, <3>7 DEF CodeNext
    <3>9. \E state : Goto(d, state)
      BY <3>8 DEF ReadCode, Answer
    <3> QED BY <3>1, <3>8, <3>9
  <2>2. call[c].user \in Users
    BY <2>1 DEF ReadCode, At, CallsInv, CallOK, CodePcs, CodeCall
  <2>3. /\ code[call[c].user] # None /\ code[call[c].user].expired
        /\ call'[c] = [pc |-> "drop", user |-> call[c].user, n |-> code[call[c].user].n]
    BY <2>1 DEF ReadCode, Goto, Answer, Idle, CallsInv
  <2>4. code' = code /\ made' = made
    BY <2>1 DEF ReadCode, codeVars
  <2> QED BY <1>0, <2>2, <2>3, <2>4
<1> QED BY <1>1, <1>2

-----------------------------------------------------------------------------
(* Payment requests: a call that is about to pay one has a transfer for it. *)

\* The completed transfer pays what the request asks for.
PaidFor(x, q) ==
  /\ transfer[x] # None /\ transfer[x].state \in {"completed", "deleted"}
  /\ transfer[x].sender # request[q].owner /\ transfer[x].to = request[q].owner
  /\ transfer[x].asset = request[q].asset
  /\ request[q].amount \in {None, transfer[x].amount}

\* A row that is gone does not come back, and while it is there its payer is another.
PayingOK(s) ==
  s.pc \in {"match", "fulfil"} =>
    /\ s.request \in late \/ request[s.request] # None
    /\ request[s.request] # None => /\ s.payer # request[s.request].owner
                                    /\ s.pc = "fulfil" => PaidFor(s.transfer, s.request)

RowOK(q) ==
  request[q] # None =>
    /\ request[q].status = "FULFILLED" => request[q].paidBy # None
    /\ request[q].paidBy # None =>
         /\ PaidFor(request[q].paidBy, q)
         /\ \A o \in Requests \ {q} : request[o] = None \/ request[o].paidBy # request[q].paidBy

RequestRows == \A q \in Requests : request[q] # None => Live(request[q].owner)

RequestInv ==
  /\ RequestTypeOK
  /\ RequestRows
  /\ \A q \in Requests : RowOK(q)
  /\ \A c \in Calls : PayingOK(call[c])

LEMMA RequestsPaid == RequestInv => FulfilledIsPaid
  BY DEF RequestInv, FulfilledIsPaid, RowOK, PaidFor

LEMMA NoneIsNoRow == None \notin Request /\ None \notin Transfer /\ None \notin Transfers
  BY RequestsAssumption

\* Steps that change no row, no transfer and no user: the calls decide.
LEMMA SameRows ==
  ASSUME CallsInv, RequestInv, UNCHANGED <<request, transfer, user>>, late \subseteq late', late' \subseteq Requests,
         \A c \in Calls : call'[c] = call[c] \/ (PayingOK(call'[c]) /\ CallOK(call'[c])),
         \A c \in Calls : \/ call'[c] = call[c] \/ call'[c].pc \notin {"expire", "match", "fulfil"}
                          \/ request[call'[c].request].status = "OPEN"
                          \/ call[c].pc = "match" /\ call'[c].request = call[c].request
  PROVE  RequestInv' /\ SettledKept
<1>1. \A c \in Calls : PayingOK(call[c])
  BY DEF RequestInv
<1>2. \A s : PayingOK(s) =>
        (s.pc \in {"match", "fulfil"} =>
          /\ s.request \in late' \/ request'[s.request] # None
          /\ request'[s.request] # None => /\ s.payer # request'[s.request].owner
                                           /\ s.pc = "fulfil" => PaidFor(s.transfer, s.request)')
  BY DEF PayingOK, PaidFor
<1>3. \A c \in Calls : PayingOK(call[c])'
  BY <1>1, <1>2 DEF PayingOK
<1>4. RequestInv'
  BY <1>3 DEF RequestInv, RequestTypeOK, RequestRows, RowOK, PaidFor, Live
<1>5. SettledKept
  BY DEF SettledKept, Settled
<1> QED BY <1>4, <1>5

\* A step that writes one row, not by a call at work on it.
LEMMA RowWritten ==
  ASSUME CallsInv, RequestInv, NEW q \in Requests, NEW new \in Request,
         request' = [request EXCEPT ![q] = new], request[q] # None,
         new.owner = request[q].owner, new.asset = request[q].asset, new.amount = request[q].amount,
         UNCHANGED <<late, transfer, user>>,
         new.status = "FULFILLED" => new.paidBy # None,
         new.paidBy # None =>
           /\ PaidFor(new.paidBy, q)
           /\ \A o \in Requests \ {q} : request[o] = None \/ request[o].paidBy # new.paidBy,
         \A c \in Calls : call'[c] = call[c] \/ call'[c] = Idle,
         NEW d \in Calls, call[d].pc \in {"expire", "fulfil"}, call[d].request = q
  PROVE  RequestInv' /\ SettledKept
<1>1. RequestTypeOK
  BY DEF RequestInv
<1>2. \A o \in Requests : request'[o] = IF o = q THEN new ELSE request[o]
  BY <1>1 DEF RequestTypeOK
<1>3. RequestTypeOK'
  BY <1>1 DEF RequestTypeOK
<1>4. new # None
  BY NoneIsNoRow
<1>5. RequestRows'
  BY <1>2 DEF RequestInv, RequestRows, Live
<1>6. \A x, o : o \in Requests => (PaidFor(x, o)' <=> PaidFor(x, o))
  BY <1>2 DEF PaidFor
<1>7. \A c \in Calls : PayingOK(call[c]) /\ (call[c].pc \in {"match", "fulfil"} => call[c].request \in Requests)
  BY DEF RequestInv, CallsInv, CallOK, RequestPcs, RequestCall
<1>8. \A c \in Calls : PayingOK(call[c])'
  <2> SUFFICES ASSUME NEW c \in Calls, call'[c].pc \in {"match", "fulfil"}
               PROVE  PayingOK(call[c])'
    BY DEF PayingOK
  <2>1. call'[c] = call[c] /\ call[c].request \in Requests /\ PayingOK(call[c])
    BY <1>7 DEF Idle
  <2> QED BY <1>2, <1>4, <1>6, <2>1 DEF PayingOK
<1>9. ASSUME NEW o \in Requests PROVE RowOK(o)'
  <2>1. CASE o = q
    <3>1. request'[q] = new
      BY <1>2
    <3>2. new.paidBy # None => PaidFor(new.paidBy, q)'
      BY <1>6
    <3> QED BY <1>2, <2>1, <3>1, <3>2 DEF RowOK, PaidFor
  <2>2. CASE o # q
    <3>1. request'[o] = request[o] /\ RowOK(o)
      BY <1>2, <2>2 DEF RequestInv
    <3>2. request[o] # None /\ request[o].paidBy # None => new.paidBy # request[o].paidBy
      BY <2>2
    <3> QED BY <1>2, <2>2, <3>1, <3>2 DEF RowOK, PaidFor
  <2> QED BY <2>1, <2>2
<1>10. RequestInv'
  BY <1>3, <1>5, <1>8, <1>9 DEF RequestInv
<1>11. SettledKept
  BY <1>2 DEF SettledKept, Settled, Idle
<1> QED BY <1>10, <1>11

\* Steps that change no request and no call, and no transfer that was completed.
LEMMA TransferSteps ==
  ASSUME RequestInv, RequestTypeOK', UNCHANGED <<request, late, call, user>>,
         \A x \in Transfers : transfer[x] # None /\ transfer[x].state \in {"completed", "deleted"} =>
           /\ transfer'[x] # None /\ transfer'[x].state \in {"completed", "deleted"}
           /\ transfer'[x].sender = transfer[x].sender /\ transfer'[x].to = transfer[x].to
           /\ transfer'[x].asset = transfer[x].asset /\ transfer'[x].amount = transfer[x].amount,
         CallsInv
  PROVE  RequestInv' /\ SettledKept
<1>1. \A x \in Transfers : \A q : PaidFor(x, q) => PaidFor(x, q)'
  BY DEF PaidFor
<1>2. ASSUME NEW q \in Requests PROVE RowOK(q)'
  <2>1. RowOK(q) /\ (request[q] # None => request[q].paidBy \in Transfers \cup {None})
    BY DEF RequestInv, RequestTypeOK, Request
  <2>2. request[q] # None /\ request[q].paidBy # None => PaidFor(request[q].paidBy, q)'
    BY <1>1, <2>1 DEF RowOK
  <2> QED BY <2>1, <2>2 DEF RowOK, PaidFor
<1>3. ASSUME NEW c \in Calls PROVE PayingOK(call[c])'
  <2>1. PayingOK(call[c]) /\ (call[c].pc = "fulfil" => call[c].transfer \in Transfers)
    BY DEF RequestInv, CallsInv, CallOK, RequestPcs, RequestCall
  <2>2. call[c].pc = "fulfil" /\ PaidFor(call[c].transfer, call[c].request) => PaidFor(call[c].transfer, call[c].request)'
    BY <1>1, <2>1
  <2> QED BY <2>1, <2>2 DEF PayingOK, PaidFor
<1>4. RequestRows'
  BY DEF RequestInv, RequestRows, Live
<1> QED BY <1>2, <1>3, <1>4 DEF RequestInv, SettledKept, Settled

LEMMA CreateRequestSteps ==
  ASSUME CallsInv, RequestInv, NEW c \in Calls, NEW u \in Users, CreateRequest(c, u)
  PROVE  RequestInv' /\ SettledKept
<1>1. PICK q \in Requests \ late, a \in Assets, v \in Asked :
        /\ request[q] = None
        /\ request' = [request EXCEPT ![q] = [owner |-> u, asset |-> a, amount |-> v,
                                              status |-> "OPEN", paidBy |-> None]]
  BY DEF CreateRequest
<1> DEFINE new == [owner |-> u, asset |-> a, amount |-> v, status |-> "OPEN", paidBy |-> None]
<1>2. new \in Request /\ new.owner = u /\ new.status = "OPEN" /\ new.paidBy = None
  BY DEF Request
<1> HIDE DEF new
<1>3. request' = [request EXCEPT ![q] = new] /\ UNCHANGED <<late, transfer, user, call>> /\ Live(u)
  BY <1>1 DEF new, CreateRequest, apiVars
<1>4. RequestTypeOK
  BY DEF RequestInv
<1>5. \A o \in Requests : request'[o] = IF o = q THEN new ELSE request[o]
  BY <1>3, <1>4 DEF RequestTypeOK
<1>6. RequestTypeOK'
  BY <1>2, <1>3, <1>4 DEF RequestTypeOK
<1>7. RequestRows'
  BY <1>2, <1>3, <1>5 DEF RequestInv, RequestRows, Live
<1>8. ASSUME NEW o \in Requests PROVE RowOK(o)'
  <2>1. RowOK(o)
    BY DEF RequestInv
  <2> QED BY <1>2, <1>3, <1>5, <2>1 DEF RowOK, PaidFor
<1>9. ASSUME NEW d \in Calls PROVE PayingOK(call[d])'
  <2>1. PayingOK(call[d])
    BY DEF RequestInv
  <2>2. call[d].pc \in {"match", "fulfil"} => call[d].request \in Requests
    BY DEF CallsInv, CallOK, RequestPcs, RequestCall
  <2>3. call[d].pc \in {"match", "fulfil"} => call[d].request # q
    BY <1>1, <2>1 DEF PayingOK
  <2> QED BY <1>3, <1>5, <2>1, <2>2, <2>3 DEF PayingOK, PaidFor
<1>10. SettledKept
  BY <1>1, <1>3, <1>5 DEF SettledKept, Settled
<1> QED BY <1>6, <1>7, <1>8, <1>9, <1>10 DEF RequestInv

LEMMA FulfilSteps ==
  ASSUME CallsInv, RequestInv, NEW c \in Calls, MarkExpired(c) \/ Fulfil(c)
  PROVE  RequestInv' /\ SettledKept
<1> DEFINE q == call[c].request  x == call[c].transfer
<1>1. /\ q \in Requests /\ call[c].pc \in {"expire", "fulfil"}
      /\ call[c].pc = "fulfil" => x \in Transfers
  BY DEF MarkExpired, Fulfil, At, CallsInv, CallOK, RequestPcs, RequestCall
<1>2. RequestTypeOK /\ UNCHANGED <<late, transfer, user>> /\ \A d \in Calls : call'[d] = call[d] \/ call'[d] = Idle
  BY DEF RequestInv, MarkExpired, Fulfil, Answer, Goto, CallsInv
<1>3. CASE request' = request
  BY <1>2, <1>3, SameRows, IdleOK DEF RequestTypeOK, PayingOK, Idle
<1>4. CASE MarkExpired(c) /\ request' # request
  <2> DEFINE new == [request[q] EXCEPT !.status = "EXPIRED", !.paidBy = request[q].paidBy]
  <2>1. request[q] # None /\ request' = [request EXCEPT ![q] = new]
    BY <1>4 DEF MarkExpired, SetStatus
  <2>2. request[q] \in Request
    BY <1>1, <1>2, <2>1 DEF RequestTypeOK
  <2>3. /\ new \in Request /\ new.status = "EXPIRED" /\ new.paidBy = request[q].paidBy
        /\ new.owner = request[q].owner /\ new.asset = request[q].asset /\ new.amount = request[q].amount
    BY <2>2 DEF Request
  <2>4. RowOK(q)
    BY <1>1 DEF RequestInv
  <2>5. call[c].request = q
    OBVIOUS
  <2> HIDE DEF new, q
  <2> QED BY <1>1, <1>2, <2>1, <2>3, <2>4, <2>5, RowWritten DEF RowOK
<1>5. CASE Fulfil(c) /\ request' # request
  <2> DEFINE new == [request[q] EXCEPT !.status = "FULFILLED", !.paidBy = x]
  <2>1. /\ request[q] # None /\ request' = [request EXCEPT ![q] = new]
        /\ \A o \in Requests \ {q} : request[o] = None \/ request[o].paidBy # x
    BY <1>5 DEF Fulfil, SetStatus
  <2>2. request[q] \in Request /\ x \in Transfers /\ x # None /\ call[c].pc = "fulfil"
    BY <1>1, <1>2, <1>5, <2>1, NoneIsNoRow DEF RequestTypeOK, Fulfil, At
  <2>3. /\ new \in Request /\ new.status = "FULFILLED" /\ new.paidBy = x
        /\ new.owner = request[q].owner /\ new.asset = request[q].asset /\ new.amount = request[q].amount
    BY <2>2 DEF Request
  <2>4. PaidFor(x, q)
    BY <2>1, <2>2 DEF RequestInv, PayingOK
  <2>5. call[c].request = q
    OBVIOUS
  <2> HIDE DEF new, q, x
  <2> QED BY <1>1, <1>2, <2>1, <2>2, <2>3, <2>4, <2>5, RowWritten
<1> QED BY <1>3, <1>4, <1>5

LEMMA RequestSteps ==
  ASSUME CallsInv, RequestInv, RequestNext
  PROVE  RequestInv' /\ SettledKept /\ UNCHANGED user
<1> DEFINE Goal == RequestInv' /\ SettledKept /\ UNCHANGED user
<1>1. RequestTypeOK
  BY DEF RequestInv
<1>2. ASSUME NEW c \in Calls, GetRequest(c) PROVE Goal
  <2>1. PICK q \in late : request[q].status = "OPEN" /\ Goto(c, [pc |-> "expire", request |-> q])
    BY <1>2 DEF GetRequest
  <2>2. q \in Requests
    BY <1>1 DEF RequestTypeOK
  <2> DEFINE new == [pc |-> "expire", request |-> q]
  <2>3. CallOK(new) /\ PayingOK(new) /\ new.request = q
    BY <2>2 DEF CallOK, PayingOK, AccountPcs, SessionPcs, CodePcs, RequestPcs, PreparingPcs, RequestCall
  <2> HIDE DEF new
  <2>4. \A d \in Calls : call'[d] = call[d] \/ call'[d] = new
    BY <2>1 DEF new, Goto, CallsInv
  <2>5. UNCHANGED <<request, late, transfer, user>>
    BY <1>2 DEF GetRequest, requestVars
  <2> QED BY <1>1, <2>1, <2>3, <2>4, <2>5, SameRows DEF RequestTypeOK
<1>3. ASSUME NEW c \in Calls, NEW u \in Users, FulfillRequest(c, u) PROVE Goal
  <2>1. PICK q \in Requests, x \in Transfers :
          /\ request[q] # None /\ request[q].status = "OPEN"
          /\ \/ u # request[q].owner /\ Goto(c, [pc |-> "match", request |-> q, transfer |-> x, payer |-> u])
             \/ Goto(c, [pc |-> "expire", request |-> q])
    BY <1>3 DEF FulfillRequest, Payable
  <2>2. UNCHANGED <<request, late, transfer, user>>
    BY <1>3 DEF FulfillRequest, requestVars
  <2>3. CallOK([pc |-> "expire", request |-> q]) /\ PayingOK([pc |-> "expire", request |-> q])
    BY DEF CallOK, PayingOK, AccountPcs, SessionPcs, CodePcs, RequestPcs, PreparingPcs, RequestCall
  <2>4. u # request[q].owner =>
          /\ CallOK([pc |-> "match", request |-> q, transfer |-> x, payer |-> u])
          /\ PayingOK([pc |-> "match", request |-> q, transfer |-> x, payer |-> u])
    BY <2>1 DEF CallOK, PayingOK, AccountPcs, SessionPcs, CodePcs, RequestPcs, PreparingPcs, RequestCall
  <2>5. \A d \in Calls : \/ call'[d] = call[d]
                         \/ PayingOK(call'[d]) /\ CallOK(call'[d]) /\ call'[d].request = q
    BY <2>1, <2>3, <2>4 DEF Goto, CallsInv
  <2> QED BY <1>1, <2>1, <2>2, <2>5, SameRows DEF RequestTypeOK
<1>4. ASSUME NEW c \in Calls, MatchTransfer(c) PROVE Goal
  <2>1. call[c] \in [pc: {"match", "fulfil"}, request: Requests, transfer: Transfers, payer: Users] /\ call[c].pc = "match"
    BY <1>4 DEF MatchTransfer, At, CallsInv, CallOK, RequestPcs, RequestCall
  <2> DEFINE new == [call[c] EXCEPT !.pc = "fulfil"]
  <2>2. /\ new.pc = "fulfil" /\ new.request = call[c].request /\ new.transfer = call[c].transfer
        /\ new.payer = call[c].payer /\ new \in RequestCall /\ "pc" \in DOMAIN new
    BY <2>1 DEF RequestCall
  <2> HIDE DEF new
  <2>3. CallOK(new)
    BY <2>2 DEF CallOK, AccountPcs, SessionPcs, CodePcs, RequestPcs, PreparingPcs
  <2>4. PayingOK(call[c])
    BY DEF RequestInv
  <2>5. \/ Answer(c)
        \/ request[call[c].request] # None /\ Pays(call[c].transfer, call[c].request, call[c].payer) /\ Goto(c, new)
    BY <1>4 DEF MatchTransfer, new
  <2>6. Pays(call[c].transfer, call[c].request, call[c].payer) /\ request[call[c].request] # None => PayingOK(new)
    BY <2>1, <2>2, <2>4 DEF PayingOK, Pays, PaidFor
  <2>7. CallOK(Idle) /\ PayingOK(Idle) /\ Idle.pc = "idle"
    BY IdleOK DEF PayingOK
  <2>8. UNCHANGED <<request, late, transfer, user>>
    BY <1>4 DEF MatchTransfer, requestVars
  <2>9. \A d \in Calls : \/ call'[d] = call[d] \/ call'[d] = Idle
                         \/ d = c /\ call'[d] = new /\ PayingOK(new)
    BY <2>5, <2>6 DEF Goto, Answer, CallsInv
  <2> QED BY <1>1, <2>1, <2>2, <2>3, <2>7, <2>8, <2>9, SameRows DEF RequestTypeOK
<1>5. ASSUME NEW c \in Calls, MarkExpired(c) \/ Fulfil(c) PROVE Goal
  BY <1>5, FulfilSteps DEF MarkExpired, Fulfil
<1>6. ASSUME NEW c \in Calls, NEW u \in Users, CreateRequest(c, u) PROVE Goal
  BY <1>6, CreateRequestSteps DEF CreateRequest, apiVars
<1>7. ASSUME NEW q \in Requests, RequestExpires(q) PROVE Goal
  <2>1. late' = late \cup {q} /\ UNCHANGED <<request, transfer, call, user>>
    BY <1>7 DEF RequestExpires, apiVars
  <2> QED BY <1>1, <2>1, SameRows DEF RequestTypeOK
<1>8. ASSUME NEW x \in Transfers, Store(x) PROVE Goal
  <2>1. PICK u, v \in Users, a \in Assets, m \in Values :
          transfer' = [transfer EXCEPT ![x] = [sender |-> u, to |-> v, asset |-> a, amount |-> m, state |-> "pending"]]
    BY <1>8 DEF Store
  <2>2. [sender |-> u, to |-> v, asset |-> a, amount |-> m, state |-> "pending"] \in Transfer
    BY DEF Transfer
  <2>3. transfer[x] = None /\ UNCHANGED <<request, late, call, user>>
    BY <1>8 DEF Store, apiVars
  <2>4. RequestTypeOK' /\ \A y \in Transfers \ {x} : transfer'[y] = transfer[y]
    BY <1>1, <2>1, <2>2, <2>3 DEF RequestTypeOK
  <2> QED BY <2>3, <2>4, TransferSteps
<1>9. ASSUME NEW x \in Transfers, Complete(x) PROVE Goal
  <2> DEFINE new == [transfer[x] EXCEPT !.state = "completed"]
  <2>1. transfer[x] \in Transfer /\ transfer[x].state = "pending"
    BY <1>1, <1>9 DEF Complete, RequestTypeOK
  <2>2. new \in Transfer
    BY <2>1 DEF Transfer
  <2>3. transfer' = [transfer EXCEPT ![x] = new] /\ UNCHANGED <<request, late, call, user>>
    BY <1>9 DEF Complete, apiVars
  <2> HIDE DEF new
  <2>4. RequestTypeOK' /\ \A y \in Transfers \ {x} : transfer'[y] = transfer[y]
    BY <1>1, <2>2, <2>3 DEF RequestTypeOK
  <2> QED BY <2>1, <2>3, <2>4, TransferSteps
<1> QED BY <1>2, <1>3, <1>4, <1>5, <1>6, <1>7, <1>8, <1>9 DEF RequestNext

\* The requests and transfers of a user go with the account.
LEMMA CascadeRequestSteps ==
  ASSUME CallsInv, RequestInv, NEW u \in Users, CascadeRequests(u),
         user' = [user EXCEPT ![u] = "gone"], UsersTypeOK,
         \A c \in Calls : call'[c] = call[c] \/ call'[c] = Idle
  PROVE  RequestInv' /\ SettledKept
<1> DEFINE gone(x) == [transfer[x] EXCEPT !.state = "deleted"]
<1>1. RequestTypeOK /\ UsersTypeOK
  BY DEF RequestInv
<1>2. \A x \in Transfers : transfer[x] # None =>
        /\ gone(x) \in Transfer /\ gone(x).state = "deleted" /\ gone(x).sender = transfer[x].sender
        /\ gone(x).to = transfer[x].to /\ gone(x).asset = transfer[x].asset /\ gone(x).amount = transfer[x].amount
  BY <1>1 DEF RequestTypeOK, Transfer
<1>3. transfer' = [x \in Transfers |-> IF transfer[x] # None /\ transfer[x].sender = u THEN gone(x) ELSE transfer[x]]
  BY DEF CascadeRequests
<1> HIDE DEF gone
<1>4. \A q \in Requests : request'[q] = IF request[q] # None /\ request[q].owner = u THEN None ELSE request[q]
  BY DEF CascadeRequests
<1>5. late' = late \cup {q \in Requests : request[q] # None /\ request[q].owner = u}
  BY DEF CascadeRequests
<1>6. \A v \in Users : user'[v] = IF v = u THEN "gone" ELSE user[v]
  BY <1>1 DEF UsersTypeOK
<1>7. RequestTypeOK'
  <2>1. request' \in [Requests -> Request \cup {None}]
    BY <1>1 DEF RequestTypeOK, CascadeRequests
  <2>2. transfer' \in [Transfers -> Transfer \cup {None}]
    BY <1>1, <1>2, <1>3 DEF RequestTypeOK
  <2> QED BY <1>1, <1>5, <2>1, <2>2 DEF RequestTypeOK
<1>8. ASSUME NEW q \in Requests, request'[q] # None
      PROVE  request'[q] = request[q] /\ request[q] # None /\ request[q].owner # u
  BY <1>4, <1>8
<1>9. ASSUME NEW x \in Transfers, NEW q \in Requests, PaidFor(x, q), request'[q] # None PROVE PaidFor(x, q)'
  BY <1>2, <1>3, <1>8, <1>9, NoneIsNoRow DEF PaidFor
<1>10. ASSUME NEW q \in Requests PROVE RowOK(q)'
  <2>1. RowOK(q) /\ (request[q] # None => request[q].paidBy \in Transfers \cup {None})
    BY <1>1 DEF RequestInv, RequestTypeOK, Request
  <2>2. request'[q] # None /\ request[q].paidBy # None => PaidFor(request[q].paidBy, q)'
    BY <1>8, <1>9, <2>1 DEF RowOK
  <2>3. \A o \in Requests : request'[o] = None \/ request'[o] = request[o]
    BY <1>4
  <2> QED BY <1>8, <2>1, <2>2, <2>3 DEF RowOK, PaidFor
<1>11. ASSUME NEW c \in Calls PROVE PayingOK(call[c])'
  <2> SUFFICES ASSUME call'[c].pc \in {"match", "fulfil"} PROVE PayingOK(call[c])'
    BY DEF PayingOK
  <2>1. call'[c] = call[c]
    BY DEF Idle
  <2>2. /\ PayingOK(call[c]) /\ call[c].request \in Requests
        /\ call[c].pc = "fulfil" => call[c].transfer \in Transfers
    BY <2>1 DEF RequestInv, CallsInv, CallOK, RequestPcs, RequestCall
  <2>3. call[c].request \in late' \/ request'[call[c].request] # None
    BY <1>4, <1>5, <2>1, <2>2 DEF PayingOK
  <2>4. request'[call[c].request] # None /\ call[c].pc = "fulfil" => PaidFor(call[c].transfer, call[c].request)'
    BY <1>8, <1>9, <2>1, <2>2 DEF PayingOK
  <2> QED BY <1>8, <2>1, <2>2, <2>3, <2>4 DEF PayingOK, PaidFor
<1>12. RequestRows'
  <2> SUFFICES ASSUME NEW q \in Requests, request'[q] # None PROVE Live(request[q].owner)'
    BY DEF RequestRows
  <2>1. request[q].owner \in Users
    BY <1>1, <1>8 DEF RequestTypeOK, Request
  <2> QED BY <1>6, <1>8, <2>1 DEF RequestInv, RequestRows, Live
<1>13. SettledKept
  <2> SUFFICES ASSUME NEW q \in Requests, Settled(q), user'[request[q].owner] = "live"
               PROVE  Settled(q)' /\ request'[q] = request[q]
    BY DEF SettledKept
  <2>1. request[q] # None /\ request[q].owner \in Users
    BY <1>1 DEF Settled, RequestTypeOK, Request
  <2>2. request'[q] = request[q]
    BY <1>4, <1>6, <2>1
  <2> QED BY <2>2 DEF Settled, Idle
<1> QED BY <1>7, <1>10, <1>11, <1>12, <1>13 DEF RequestInv

-----------------------------------------------------------------------------
(* The rotation of the key: what no instance and no live token can be.     *)

RotationInv ==
  /\ SessionTypeOK
  /\ plan.key \notin burnt /\ \A k \in burnt : k < plan.key
  /\ plan.prev # None => /\ plan.prev = plan.key - 1 /\ plan.prev \notin burnt
                         /\ plan.until = begun + Window
  /\ \A i \in Instances : \/ Deployed(i) \/ config[i].key \in burnt
                          \/ plan.prev # None /\ config[i].key = plan.prev
  /\ (\A i \in Instances : Deployed(i)) \/ clock <= begun + Rollout
  /\ \A t \in session :
       /\ t.iat <= clock
       /\ \/ t.key = plan.key \/ t.key \in burnt \/ Expires(t) <= clock
          \/ plan.prev # None /\ t.key = plan.prev /\ Expires(t) <= plan.until

LEMMA RotationImplied == RotationInv => RotationHonoured
<1> SUFFICES ASSUME RotationInv, NEW i \in Instances, NEW t \in session, Deployed(i), clock < Expires(t)
             PROVE  verifySessionToken(i, t) <=> t.key \notin burnt
  BY DEF RotationHonoured
<1>1. clock \in Nat /\ t.iat \in Nat /\ t.key \in Keys /\ plan.until \in Nat /\ Life \in Nat
  BY RotationAssumption DEF RotationInv, SessionTypeOK, Token, Config, Clock
<1>2. config[i] = plan
  BY DEF Deployed
<1>3. \/ t.key = plan.key \/ t.key \in burnt
      \/ plan.prev # None /\ t.key = plan.prev /\ plan.until > clock
  BY <1>1 DEF RotationInv, Expires
<1> QED BY <1>2, <1>3 DEF verifySessionToken, previousSecretActive, RotationInv

LEMMA RotationSteps ==
  ASSUME CallsInv, RotationInv, SessionTypeOK', SessionNext
  PROVE  RotationInv'
<1>1. /\ clock \in 0..MaxClock /\ begun \in 0..MaxClock /\ plan \in Config /\ burnt \subseteq Keys
      /\ session \subseteq Token /\ config \in [Instances -> Config]
  BY DEF RotationInv, SessionTypeOK
<1>2. /\ MaxKey \in Nat /\ MaxClock \in Nat /\ Life \in Nat /\ Rollout \in Nat /\ Window \in Nat
      /\ Window >= Life + Rollout
  BY RotationAssumption
<1>3. ASSUME NEW c \in Calls, CreateSession(c) PROVE RotationInv'
  <2>1. UNCHANGED <<clock, config, plan, begun, burnt>>
    BY <1>3 DEF CreateSession, keyVars
  <2>2. CASE session' = session
    BY <2>1, <2>2 DEF RotationInv, SessionTypeOK, Deployed, Expires
  <2>3. CASE session' # session
    <3>1. PICK i \in Instances, j \in Jtis :
            session' = session \cup {[sub |-> call[c].user, key |-> config[i].key, iat |-> clock, jti |-> j]}
      BY <1>3, <2>3 DEF CreateSession, signSessionToken
    <3> DEFINE t == [sub |-> call[c].user, key |-> config[i].key, iat |-> clock, jti |-> j]
    <3>2. t.iat = clock /\ t.key = config[i].key
      OBVIOUS
    <3> HIDE DEF t
    <3>3. session' = session \cup {t}
      BY <3>1 DEF t
    <3>4. \/ t.key = plan.key \/ t.key \in burnt
          \/ plan.prev # None /\ t.key = plan.prev /\ Expires(t) <= plan.until
      <4>1. CASE Deployed(i)
        BY <3>2, <4>1 DEF Deployed
      <4>2. CASE ~Deployed(i)
        <5>1. clock <= begun + Rollout
          BY <4>2 DEF RotationInv
        <5>2. plan.prev # None => Expires(t) <= plan.until
          BY <1>1, <1>2, <3>2, <5>1 DEF RotationInv, Expires
        <5> QED BY <3>2, <4>2, <5>2 DEF RotationInv
      <4> QED BY <4>1, <4>2
    <3>5. t.iat <= clock
      BY <1>1, <3>2
    <3> QED BY <2>1, <3>3, <3>4, <3>5 DEF RotationInv, SessionTypeOK, Deployed, Expires
  <2> QED BY <2>2, <2>3
<1>4. ASSUME NEW c \in Calls,
             \/ DeleteSession(c) \/ \E u \in Users : Login(c, u)
             \/ \E t, own \in session : EndSession(c, t, own)
      PROVE  RotationInv'
  <2>1. UNCHANGED <<clock, config, plan, begun, burnt>> /\ session' \subseteq session
    BY <1>4 DEF DeleteSession, Login, EndSession, sessionVars, keyVars
  <2> QED BY <2>1 DEF RotationInv, SessionTypeOK, Deployed, Expires
<1>5. CASE Rotate
  <2>1. UNCHANGED <<clock, config, session>> /\ begun' = clock /\ plan.key \in 0..MaxKey /\ plan.key \in Int
        /\ clock \in Int
    BY <1>1, <1>5 DEF Rotate, Config, Keys
  <2>2. \A t \in session : t.iat \in Nat /\ t.iat <= clock /\ t.key \in Nat
    BY <1>1 DEF RotationInv, Token, Keys
  <2>3. CASE /\ \A i \in Instances : Deployed(i)
             /\ plan.until <= clock
             /\ plan' = [key |-> plan.key + 1, prev |-> plan.key, until |-> clock + Window]
             /\ UNCHANGED burnt
    <3>1. plan'.key = plan.key + 1 /\ plan'.prev = plan.key /\ plan'.until = clock + Window
      BY <2>3
    <3>2. plan.key \notin burnt /\ \A k \in burnt : k < plan.key /\ k \in Int
      BY <1>1 DEF RotationInv, Keys
    <3>3. plan'.key \notin burnt' /\ \A k \in burnt' : k < plan'.key
      BY <2>1, <2>3, <3>1, <3>2
    <3>4. plan'.prev = plan'.key - 1 /\ plan'.prev \notin burnt' /\ plan'.until = begun' + Window
      BY <2>1, <2>3, <3>1, <3>2
    <3>5. plan'.prev # None
      BY <2>1, <3>1, RotationAssumption
    <3>6. \A i \in Instances : config'[i].key = plan'.prev
      BY <2>1, <2>3, <3>1 DEF Deployed
    <3>7. clock' <= begun' + Rollout
      BY <1>2, <2>1
    <3>8. plan.until \in Int
      BY <1>1, <1>2 DEF Config, Clock
    <3>9. ASSUME NEW t \in session
          PROVE  \/ t.key = plan'.prev /\ Expires(t) <= plan'.until
                 \/ t.key \in burnt' \/ Expires(t) <= clock
      BY <1>2, <2>1, <2>2, <2>3, <3>1, <3>8 DEF RotationInv, Expires
    <3> HIDE DEF Rotate
    <3> QED BY <2>1, <2>2, <3>3, <3>4, <3>5, <3>6, <3>7, <3>9 DEF RotationInv, Expires
  <2>4. CASE /\ plan' = [key |-> plan.key + 1, prev |-> None, until |-> 0]
             /\ burnt' = 0..plan.key
    <3>1. plan'.key = plan.key + 1 /\ plan'.prev = None
      BY <2>4
    <3>2. plan'.key \notin burnt' /\ \A k \in burnt' : k < plan'.key
      BY <2>1, <2>4, <3>1
    <3>3. \A k \in Nat : k <= plan.key => k \in burnt'
      BY <2>1, <2>4
    <3>4. \A k \in burnt : k \in Nat /\ k <= plan.key
      BY <1>1, <2>1 DEF RotationInv, Keys
    <3>5. plan.prev # None => plan.prev <= plan.key
      BY <2>1 DEF RotationInv
    <3>6. \A i \in Instances : config'[i].key \in burnt'
      <4> SUFFICES ASSUME NEW i \in Instances PROVE config[i].key \in burnt'
        BY <2>1
      <4>1. config[i].key \in Nat
        BY <1>1 DEF Config, Keys
      <4>2. config[i].key <= plan.key
        BY <2>1, <3>4, <3>5 DEF RotationInv, Deployed
      <4> QED BY <3>3, <4>1, <4>2
    <3>7. clock' <= begun' + Rollout
      BY <1>2, <2>1
    <3>8. ASSUME NEW t \in session PROVE t.key \in burnt' \/ Expires(t) <= clock
      BY <2>1, <2>2, <3>3, <3>4, <3>5 DEF RotationInv
    <3> QED BY <2>1, <2>2, <3>1, <3>2, <3>6, <3>7, <3>8 DEF RotationInv, Expires
  <2> QED BY <1>5, <2>3, <2>4 DEF Rotate
<1>6. CASE Tick
  <2>1. /\ UNCHANGED <<config, plan, begun, burnt, session>> /\ clock' = clock + 1
        /\ (\A i \in Instances : Deployed(i)) \/ clock < begun + Rollout
    BY <1>6 DEF Tick
  <2>2. \A t \in session : t.iat \in Nat
    BY <1>1 DEF Token
  <2>3. (\A i \in Instances : Deployed(i)) \/ clock' <= begun + Rollout
    BY <1>1, <1>2, <2>1
  <2>4. \A t \in session : t.iat <= clock' /\ (Expires(t) <= clock => Expires(t) <= clock')
    BY <1>1, <1>2, <2>1, <2>2 DEF RotationInv, Expires
  <2> QED BY <2>1, <2>3, <2>4 DEF RotationInv, Deployed, Expires
<1> QED BY <1>3, <1>4, <1>5, <1>6 DEF SessionNext

LEMMA DeployRotation ==
  ASSUME RotationInv, SessionTypeOK', NEW i \in Instances, Deploy(i)
  PROVE  RotationInv'
<1>1. \A j \in Instances : config'[j] = IF j = i THEN plan ELSE config[j]
  BY DEF Deploy, RotationInv, SessionTypeOK
<1>2. UNCHANGED <<clock, plan, begun, burnt, session>>
  BY DEF Deploy
<1> QED BY <1>1, <1>2 DEF RotationInv, Deployed, Expires

-----------------------------------------------------------------------------
(* The whole: the components' invariants side by side, and each of them    *)
(* through the steps of the others.                                        *)

PreparingRows ==
  /\ DOMAIN wallet = Users
  /\ \A u \in Users : wallet[u] # {} => Live(u)
  /\ \A i \in intents : i.user \in Users /\ Live(i.user)

IInv ==
  /\ CallsInv /\ UsersTypeOK
  /\ AccountInv /\ AccountRows
  /\ SessionInv /\ RotationInv
  /\ CodeInv /\ DropInv
  /\ RequestInv
  /\ RoomInv
  /\ PreparingRows /\ PreparingInv

\* No user who was there is gone.
AllLive == \A u \in Users : Live(u) => Live(u)'

\* No call of these was moved there.
Keeps(pcs) == \A c \in Calls : call'[c] = call[c] \/ call'[c].pc \notin pcs

LEMMA AccountElsewhere ==
  ASSUME AccountInv, AccountRows, UNCHANGED <<user, accountVars>>, Keeps({"patch"})
  PROVE  AccountInv' /\ AccountRows'
  BY DEF AccountInv, AccountTypeOK, AccountRows, accountVars, Live, Keeps

LEMMA SessionElsewhere ==
  ASSUME SessionInv, RotationInv, UNCHANGED sessionVars, AllLive
  PROVE  SessionInv' /\ RotationInv'
<1>1. SessionInv'
  <2>1. \A t \in session : t.sub \in Users
    BY DEF SessionInv, SessionTypeOK, Token
  <2> QED BY <2>1 DEF SessionInv, SessionTypeOK, SessionRows, EndedStaysEnded, sessionVars, keyVars, AllLive
<1>2. RotationInv'
  BY <1>1 DEF SessionInv, RotationInv, sessionVars, keyVars, Deployed, Expires
<1> QED BY <1>1, <1>2

LEMMA CodeElsewhere ==
  ASSUME CodeInv, DropInv, UNCHANGED codeVars, Keeps({"drop"})
  PROVE  CodeInv' /\ DropInv' /\ CodeFate
<1>1. CodeInv' /\ CodeFate
  BY DEF CodeInv, CodeTypeOK, codeVars, CodeFate
<1>2. DropInv'
  BY DEF DropInv, Keeps, At, codeVars
<1> QED BY <1>1, <1>2

LEMMA RequestElsewhere ==
  ASSUME CallsInv, RequestInv, UNCHANGED requestVars, AllLive, Keeps(RequestPcs)
  PROVE  RequestInv' /\ SettledKept
<1>1. UNCHANGED <<request, late, transfer>>
  BY DEF requestVars
<1>2. ASSUME NEW c \in Calls PROVE PayingOK(call[c])'
  <2> SUFFICES ASSUME call'[c].pc \in {"match", "fulfil"} PROVE PayingOK(call[c])'
    BY DEF PayingOK
  <2>1. call'[c] = call[c] /\ PayingOK(call[c])
    BY DEF Keeps, RequestPcs, RequestInv
  <2> QED BY <1>1, <2>1 DEF PayingOK, PaidFor
<1>3. \A q \in Requests : RowOK(q)'
  BY <1>1 DEF RequestInv, RowOK, PaidFor
<1>4. RequestRows' /\ RequestTypeOK'
  <2>1. \A q \in Requests : request[q] # None => request[q].owner \in Users
    BY DEF RequestInv, RequestTypeOK, Request
  <2> QED BY <1>1, <2>1 DEF RequestInv, RequestRows, RequestTypeOK, AllLive
<1>5. SettledKept
  BY <1>1 DEF SettledKept, Settled, Keeps, RequestPcs
<1> QED BY <1>2, <1>3, <1>4, <1>5 DEF RequestInv

LEMMA PreparingElsewhere ==
  ASSUME PreparingRows, PreparingInv, UNCHANGED <<workload, preparingVars>>, AllLive, Keeps(PreparingPcs)
  PROVE  PreparingRows' /\ PreparingInv'
<1>1. PreparingRows' /\ UNCHANGED <<workload, wallet, holding, intents>>
  BY DEF PreparingRows, preparingVars, walletVars, AllLive
<1>2. DOMAIN wallet' = Users /\ \A u \in Users : wallet'[u] \subseteq wallet[u]
  BY <1>1 DEF PreparingRows
<1> QED BY <1>1, <1>2, PlansElsewhere DEF Keeps

\* Registrations and preparations write rows of users who are there.
LEMMA PreparingSteps ==
  ASSUME CallsInv, PreparingRows, PreparingNext
  PROVE  PreparingRows' /\ UNCHANGED user
<1> USE DEF PreparingRows, Live
<1>1. ASSUME NEW c \in Calls, UpsertWallets(c), UNCHANGED intents PROVE PreparingRows' /\ UNCHANGED user
  BY <1>1 DEF UpsertWallets, Exists
<1>2. ASSUME NEW c \in Calls, NEW u \in Users, RegisterWallets(c, u), UNCHANGED intents PROVE PreparingRows' /\ UNCHANGED user
  BY <1>2 DEF RegisterWallets, walletVars
<1>3. ASSUME \E a \in DOMAIN holding : \E asset \in DOMAIN holding[a] : SpendElsewhere(a, asset), UNCHANGED intents
      PROVE  PreparingRows' /\ UNCHANGED user
  BY <1>3 DEF SpendElsewhere, apiVars
<1>4. ASSUME NEW c \in Calls, FindWallet(c) \/ CheckTokens(c) \/ CheckGas(c) \/ \E u \in Users : Prepare(c, u)
      PROVE  PreparingRows' /\ UNCHANGED user
  BY <1>4 DEF FindWallet, CheckTokens, CheckGas, Prepare, preparingVars, walletVars
<1>5. ASSUME NEW c \in Calls, StoreIntent(c) PROVE PreparingRows' /\ UNCHANGED user
  <2> DEFINE new == [user |-> call[c].user, asset |-> call[c].asset, amount |-> call[c].amount, fee |-> call[c].fee]
  <2>1. new.user = call[c].user /\ call[c].user \in Users
    BY <1>5 DEF StoreIntent, At, CallsInv, CallOK, PreparingPcs
  <2>2. UNCHANGED <<user, wallet>> /\ (intents' = intents \/ (Live(call[c].user) /\ intents' = intents \cup {new}))
    BY <1>5 DEF StoreIntent, Exists, walletVars
  <2> HIDE DEF new
  <2> QED BY <2>1, <2>2
<1> QED BY <1>1, <1>2, <1>3, <1>4, <1>5 DEF PreparingNext, WalletNext

LEMMA InitInv == Init => IInv
<1> SUFFICES ASSUME Init PROVE IInv
  OBVIOUS
<1>1. call = [c \in Calls |-> Idle] /\ workload \in Workloads /\ workload.residents \subseteq Users
      /\ user = [u \in Users |-> IF u \in workload.residents THEN "live" ELSE "unborn"]
  BY WorkloadAssumption DEF Init, ApiInit
<1>2. \A c \in Calls : call[c] = Idle
  BY <1>1
<1>3. CallsInv /\ UsersTypeOK
  BY <1>1, <1>2, IdleOK DEF CallsInv, UsersTypeOK
<1>4. AccountInv /\ AccountRows
  <2>1. AccountTypeOK
    BY DEF Init, AccountInit, AccountTypeOK
  <2>2. \A k \in ContactRows : contact[k] = None
    BY DEF Init, AccountInit
  <2>3. \A u \in Users : accountId[u] = None
    BY DEF Init, AccountInit
  <2> QED BY <1>2, <2>1, <2>2, <2>3 DEF Init, AccountInit, AccountInv, AccountRows, Idle
<1>5. SessionInv /\ RotationInv
  <2> DEFINE first(u) == [sub |-> u, key |-> 0, iat |-> 0, jti |-> u]
  <2>1. \A u \in Users : first(u) \in Token /\ first(u).sub = u /\ first(u).key = 0 /\ first(u).iat = 0
    BY RotationAssumption DEF Token, Keys
  <2>2. /\ clock = 0 /\ plan = [key |-> 0, prev |-> None, until |-> 0] /\ begun = 0 /\ burnt = {} /\ ended = {}
        /\ config = [i \in Instances |-> plan] /\ session = {first(u) : u \in workload.residents}
    BY DEF Init, SessionInit
  <2> HIDE DEF first
  <2>3. plan.key = 0 /\ plan.prev = None /\ plan \in Config
    BY <2>2, RotationAssumption DEF Config, Keys, Clock
  <2>4. SessionTypeOK
    BY <1>1, <2>1, <2>2, <2>3, RotationAssumption DEF SessionTypeOK
  <2>5. \A t \in session : t.key = 0 /\ t.iat = 0 /\ Live(t.sub)
    BY <1>1, <2>1, <2>2 DEF Live
  <2> QED BY <2>2, <2>3, <2>4, <2>5 DEF SessionInv, SessionRows, EndedStaysEnded, RotationInv, Deployed
<1>6. CodeInv
  <2>1. CodeTypeOK
    BY CodesAssumption DEF Init, CodeInit, CodeTypeOK
  <2> QED BY <2>1, CodesAssumption DEF Init, CodeInit, CodeInv
<1>7. RequestInv
  BY <1>2 DEF Init, RequestInit, RequestInv, RequestTypeOK, RequestRows, RowOK, PayingOK, Idle
<1>8. RoomInv
  <2>1. socket = [s \in Sockets |-> [pc |-> "none"]] /\ [pc |-> "none"] \in Socket
    BY DEF Init, RoomInit, Socket
  <2>2. room = {} /\ bridge = Instances /\ channel = {} /\ got = [s \in Sockets |-> {}]
    BY DEF Init, RoomInit
  <2>3. RoomTypeOK
    BY <2>1, <2>2 DEF RoomTypeOK
  <2> QED BY <2>1, <2>2, <2>3 DEF RoomInv
<1>9. PreparingRows /\ PreparingInv
  BY PreparingStarts DEF Init, PreparingInit, WalletInit, PreparingRows
<1>10. DropInv
  BY DEF Init, ApiInit, DropInv, At, Idle
<1> QED BY <1>3, <1>4, <1>5, <1>6, <1>7, <1>8, <1>9, <1>10 DEF IInv

\* What every step shows, invariant and actions alike.
StepOK == IInv' /\ CodeFate /\ SettledKept

LEMMA DeleteSteps ==
  ASSUME IInv, NEW c \in Calls, CommitDelete(c)
  PROVE  StepOK
<1> USE DEF IInv
<1>1. Moves({"idle", "delete"}) /\ CallsInv'
  BY DeleteMoves, MovesKeeps
<1>2. \A d \in Calls : call'[d] = call[d] \/ call'[d] = Idle
  BY DEF CommitDelete, Answer, Goto, CallsInv
<1>3. /\ Keeps({"patch"}) /\ Keeps({"drop"}) /\ Keeps(RequestPcs) /\ Keeps(PreparingPcs)
      /\ UNCHANGED workload
  BY <1>2 DEF Keeps, Idle, RequestPcs, PreparingPcs, CommitDelete
<1>4. CodeInv' /\ DropInv' /\ CodeFate
  BY <1>3, CodeElsewhere DEF CommitDelete
<1>5. CASE ~Live(call[c].user)
  <2>1. UNCHANGED <<user, accountVars, sessionVars, requestVars, roomVars, preparingVars>>
    BY <1>5 DEF CommitDelete
  <2>2. AllLive /\ UsersTypeOK'
    BY <2>1 DEF AllLive, Live, UsersTypeOK
  <2>3. session \cup ended \subseteq session' \cup ended'
    BY <2>1 DEF sessionVars
  <2> QED BY <1>1, <1>3, <1>4, <2>1, <2>2, <2>3, AccountElsewhere, SessionElsewhere, RequestElsewhere,
             RoomsElsewhere, PreparingElsewhere DEF StepOK
<1>6. CASE Live(call[c].user)
  <2> DEFINE u == call[c].user
  <2>1. u \in Users
    BY DEF CommitDelete, At, CallsInv, CallOK, DeleteCall
  <2>2. /\ user' = [user EXCEPT ![u] = "gone"]
        /\ CascadeAccount(u) /\ CascadeSessions(u) /\ CascadeRequests(u)
        /\ CascadeWallets(u) /\ CascadeIntents(u) /\ UNCHANGED roomVars
    BY <1>6 DEF CommitDelete
  <2> HIDE DEF u
  <2>3. UsersTypeOK' /\ \A v \in Users : Live(v)' <=> (Live(v) /\ v # u)
    BY <2>1, <2>2 DEF UsersTypeOK, Live
  <2>4. AccountInv' /\ AccountRows'
    <3>1. AccountTypeOK
      BY DEF AccountInv
    <3>2. \A v \in Users : /\ email'[v] = IF v = u THEN None ELSE email[v]
                           /\ accountId'[v] = IF v = u THEN None ELSE accountId[v]
      BY <2>2, <3>1 DEF CascadeAccount, AccountTypeOK
    <3>3. AccountTypeOK' /\ contact' = contact
      BY <2>2, <3>1 DEF CascadeAccount, AccountTypeOK
    <3>4. AccountInv'
      BY <1>3, <3>3 DEF AccountInv, Keeps
    <3>5. AccountRows'
      BY <2>3, <3>2, <3>3 DEF AccountRows
    <3> QED BY <3>4, <3>5
  <2>5. SessionInv' /\ RotationInv' /\ session \cup ended \subseteq session' \cup ended'
    <3>1. /\ session' = {t \in session : t.sub # u} /\ ended' = ended \cup {t \in session : t.sub = u}
          /\ UNCHANGED <<clock, config, plan, begun, burnt>>
      BY <2>2 DEF CascadeSessions, keyVars
    <3>2. SessionTypeOK'
      BY <3>1 DEF SessionInv, SessionTypeOK
    <3>3. SessionRows'
      BY <2>3, <3>1 DEF SessionInv, SessionRows, SessionTypeOK, Token
    <3>4. EndedStaysEnded'
      BY <3>1 DEF SessionInv, EndedStaysEnded
    <3>5. RotationInv'
      BY <3>1, <3>2 DEF RotationInv, Deployed, Expires
    <3> QED BY <3>1, <3>2, <3>3, <3>4, <3>5 DEF SessionInv
  <2>6. RequestInv' /\ SettledKept
    BY <1>2, <2>1, <2>2, CascadeRequestSteps
  <2>7. RoomInv'
    BY <2>2, <2>5, RoomsElsewhere
  <2>8. PreparingRows' /\ PreparingInv'
    <3>1. \A v \in Users : wallet'[v] = IF v = u THEN {} ELSE wallet[v]
      BY <2>2 DEF CascadeWallets, PreparingRows
    <3>2. /\ DOMAIN wallet' = Users /\ intents' = {i \in intents : i.user # u}
          /\ UNCHANGED <<workload, holding>>
      BY <1>3, <2>2 DEF CascadeWallets, CascadeIntents, PreparingRows
    <3>3. PreparingRows'
      BY <2>3, <3>1, <3>2 DEF PreparingRows
    <3>4. \A v \in Users : wallet'[v] \subseteq wallet[v]
      BY <3>1
    <3> QED BY <1>3, <3>2, <3>3, <3>4, PlansElsewhere DEF Keeps
  <2> QED BY <1>1, <1>4, <2>3, <2>4, <2>5, <2>6, <2>7, <2>8 DEF StepOK
<1> QED BY <1>5, <1>6

LEMMA NextInv == IInv /\ [Next]_vars => StepOK
<1> SUFFICES ASSUME IInv, [Next]_vars PROVE StepOK
  OBVIOUS
<1> USE DEF IInv
<1>1. \A pcs : Moves(pcs) => CallsInv' /\ \A c \in Calls : call'[c] = call[c] \/ call'[c].pc \in pcs
  BY MovesKeeps
<1>2. user' = user => AllLive /\ UsersTypeOK'
  BY DEF AllLive, Live, UsersTypeOK
<1>3. UNCHANGED sessionVars => session \cup ended \subseteq session' \cup ended'
  BY DEF sessionVars
<1>4. CASE AccountNext /\ UNCHANGED <<sessionVars, codeVars, requestVars, roomVars, preparingVars>>
  <2>1. CallsInv' /\ Keeps(RequestPcs) /\ Keeps(PreparingPcs) /\ Keeps({"drop"})
    <3>1. CallsInv' /\ \A c \in Calls : call'[c] = call[c] \/ call'[c].pc \in AccountPcs \cup {"idle", "session"}
      BY <1>1, <1>4, AccountMoves
    <3> QED BY <3>1 DEF Keeps, AccountPcs, RequestPcs, PreparingPcs
  <2>2. UsersTypeOK' /\ AccountInv' /\ AccountRows' /\ AllLive
    BY <1>4, AccountSteps, AccountRowsKept DEF AllLive
  <2> QED BY <1>3, <1>4, <2>1, <2>2, SessionElsewhere, CodeElsewhere, RequestElsewhere, RoomsElsewhere,
             PreparingElsewhere, WorkloadFixed DEF StepOK
<1>5. CASE SessionNext /\ UNCHANGED <<accountVars, codeVars, requestVars, roomVars, preparingVars>>
  <2>1. CallsInv' /\ Keeps(RequestPcs) /\ Keeps(PreparingPcs) /\ Keeps({"patch"}) /\ Keeps({"drop"})
    <3>1. CallsInv' /\ \A c \in Calls : call'[c] = call[c] \/ call'[c].pc \in SessionPcs \cup {"idle", "issue"}
      BY <1>1, <1>5, SessionMoves DEF SessionInv
    <3> QED BY <3>1 DEF Keeps, SessionPcs, RequestPcs, PreparingPcs
  <2>2. SessionInv' /\ UNCHANGED user /\ session \cup ended \subseteq session' \cup ended'
    BY <1>5, SessionSteps
  <2>3. RotationInv'
    BY <1>5, <2>2, RotationSteps DEF SessionInv
  <2> QED BY <1>2, <1>5, <2>1, <2>2, <2>3, AccountElsewhere, CodeElsewhere, RequestElsewhere, RoomsElsewhere,
             PreparingElsewhere, WorkloadFixed DEF StepOK
<1>6. CASE CodeNext /\ UNCHANGED <<accountVars, sessionVars, requestVars, roomVars, preparingVars>>
  <2>1. CallsInv' /\ Keeps(RequestPcs) /\ Keeps(PreparingPcs) /\ Keeps({"patch"})
    <3>1. CallsInv' /\ \A c \in Calls : call'[c] = call[c] \/ call'[c].pc \in CodePcs \cup {"idle"}
      BY <1>1, <1>6, CodeMoves DEF CodeInv
    <3> QED BY <3>1 DEF Keeps, CodePcs, RequestPcs, PreparingPcs
  <2>2. CodeInv' /\ DropInv' /\ CodeFate /\ UNCHANGED user
    BY <1>6, CodeSteps, DropSteps
  <2> QED BY <1>2, <1>3, <1>6, <2>1, <2>2, AccountElsewhere, SessionElsewhere, RequestElsewhere, RoomsElsewhere,
             PreparingElsewhere, WorkloadFixed DEF StepOK
<1>7. CASE RequestNext /\ UNCHANGED <<accountVars, sessionVars, codeVars, roomVars, preparingVars>>
  <2>1. CallsInv' /\ Keeps(PreparingPcs) /\ Keeps({"patch"}) /\ Keeps({"drop"})
    <3>1. CallsInv' /\ \A c \in Calls : call'[c] = call[c] \/ call'[c].pc \in RequestPcs \cup {"idle"}
      BY <1>1, <1>7, RequestMoves DEF RequestInv
    <3> QED BY <3>1 DEF Keeps, RequestPcs, PreparingPcs
  <2>2. RequestInv' /\ SettledKept /\ UNCHANGED user
    BY <1>7, RequestSteps
  <2> QED BY <1>2, <1>3, <1>7, <2>1, <2>2, AccountElsewhere, SessionElsewhere, CodeElsewhere, RoomsElsewhere,
             PreparingElsewhere, WorkloadFixed DEF StepOK
<1>8. CASE RoomNext /\ UNCHANGED <<accountVars, codeVars, requestVars, preparingVars>>
  <2>1. RoomInv' /\ UNCHANGED <<sessionVars, apiVars>>
    BY <1>8, RoomSteps DEF SessionInv
  <2>2. UNCHANGED <<call, user, workload>>
    BY <2>1 DEF apiVars
  <2>3. CallsInv' /\ Keeps(RequestPcs) /\ Keeps(PreparingPcs) /\ Keeps({"patch"}) /\ Keeps({"drop"})
    BY <2>2 DEF CallsInv, Keeps
  <2> QED BY <1>2, <1>8, <2>1, <2>2, <2>3, AccountElsewhere, SessionElsewhere, CodeElsewhere, RequestElsewhere,
             PreparingElsewhere DEF StepOK
<1>9. CASE PreparingNext /\ UNCHANGED <<accountVars, sessionVars, codeVars, requestVars, roomVars>>
  <2>1. CallsInv' /\ Keeps(RequestPcs) /\ Keeps({"patch"}) /\ Keeps({"drop"})
    <3>1. CallsInv' /\ \A c \in Calls : call'[c] = call[c] \/ call'[c].pc \in PreparingPcs \cup {"idle"}
      BY <1>1, <1>9, PreparingMoves
    <3> QED BY <3>1 DEF Keeps, PreparingPcs, RequestPcs
  <2>2. PreparingRows' /\ UNCHANGED user
    BY <1>9, PreparingSteps
  <2>3. PreparingInv'
    BY <1>9, PreparingPlans DEF CallsInv
  <2> QED BY <1>2, <1>3, <1>9, <2>1, <2>2, <2>3, AccountElsewhere, SessionElsewhere, CodeElsewhere, RequestElsewhere,
             RoomsElsewhere DEF StepOK
<1>10. ASSUME NEW i \in Instances, Redeploy(i), UNCHANGED <<accountVars, codeVars, requestVars, preparingVars>>
       PROVE  StepOK
  <2>1. UNCHANGED <<session, ended, call, user, workload>>
    BY <1>10, DeployMoves DEF apiVars
  <2>2. SessionInv' /\ RotationInv'
    BY <1>10, DeploySteps, DeployRotation DEF Redeploy, SessionInv
  <2>3. RoomInv'
    BY <1>10, <2>1, RestartSteps DEF Redeploy
  <2>4. CallsInv' /\ Keeps(RequestPcs) /\ Keeps(PreparingPcs) /\ Keeps({"patch"}) /\ Keeps({"drop"})
    BY <2>1 DEF CallsInv, Keeps
  <2> QED BY <1>2, <1>10, <2>1, <2>2, <2>3, <2>4, AccountElsewhere, CodeElsewhere, RequestElsewhere,
             PreparingElsewhere DEF StepOK
<1>11. ASSUME NEW c \in Calls,
              \/ \E u \in Users : DeleteAccount(c, u)
              \/ Breaks(c) /\ UNCHANGED <<accountVars, sessionVars, codeVars, requestVars, roomVars, preparingVars>>
       PROVE  StepOK
  <2>1. CallsInv' /\ \A d \in Calls : call'[d] = call[d] \/ call'[d].pc \in {"idle", "delete"}
    BY <1>1, <1>11, DeleteMoves
  <2>2. Keeps(RequestPcs) /\ Keeps(PreparingPcs) /\ Keeps({"patch"}) /\ Keeps({"drop"})
    BY <2>1 DEF Keeps, RequestPcs, PreparingPcs
  <2>3. UNCHANGED <<workload, user, accountVars, sessionVars, codeVars, requestVars, roomVars, preparingVars>>
    BY <1>11 DEF DeleteAccount, Breaks
  <2> QED BY <1>2, <1>3, <2>1, <2>2, <2>3, AccountElsewhere, SessionElsewhere, CodeElsewhere, RequestElsewhere,
             RoomsElsewhere, PreparingElsewhere DEF StepOK
<1>12. CASE UNCHANGED vars
  <2>1. UNCHANGED <<workload, user, call, accountVars, sessionVars, codeVars, requestVars, roomVars, preparingVars>>
    BY <1>12 DEF vars, apiVars
  <2>2. CallsInv' /\ Keeps(RequestPcs) /\ Keeps(PreparingPcs) /\ Keeps({"patch"}) /\ Keeps({"drop"})
    BY <2>1 DEF CallsInv, Keeps
  <2> QED BY <1>2, <1>3, <2>1, <2>2, AccountElsewhere, SessionElsewhere, CodeElsewhere, RequestElsewhere,
             RoomsElsewhere, PreparingElsewhere DEF StepOK
<1> QED BY <1>4, <1>5, <1>6, <1>7, <1>8, <1>9, <1>10, <1>11, <1>12, DeleteSteps DEF Next

LEMMA Inductive == Spec => []IInv
<1>1. IInv /\ [Next]_vars => IInv'
  BY NextInv DEF StepOK
<1> QED BY InitInv, <1>1, PTL DEF Spec

-----------------------------------------------------------------------------
(* The theorems.                                                           *)

\* Every row and every call at work is of the kind the schema and the handlers give it,
\* whatever steps of signups, logins, codes, payments, preparations and deletions mix.
THEOREM TypeCorrect == Spec => []TypeOK
<1>1. ASSUME IInv PROVE TypeOK
  <2> USE <1>1 DEF IInv
  <2>1. call \in [Calls -> [pc: {"idle"}] \cup AccountCall \cup SessionCall \cup CodeCall
                          \cup RequestCall \cup WalletCall \cup PreparingCall \cup DeleteCall]
    <3>1. ASSUME NEW c \in Calls, call[c].pc \in PreparingPcs PROVE call[c] \in WalletCall \cup PreparingCall
      BY <3>1 DEF PreparingInv, PlanOK, PreparingPcs
    <3>2. ASSUME NEW c \in Calls, call[c].pc = "idle" PROVE call[c] \in [pc: {"idle"}]
      BY <3>2 DEF CallsInv, CallOK, Idle
    <3>3. ASSUME NEW c \in Calls, call[c].pc \notin PreparingPcs, call[c].pc # "idle"
          PROVE  call[c] \in AccountCall \cup SessionCall \cup CodeCall \cup RequestCall \cup DeleteCall
      BY <3>3 DEF CallsInv, CallOK
    <3>4. call = [c \in Calls |-> call[c]]
      BY DEF CallsInv
    <3> QED BY <3>1, <3>2, <3>3, <3>4
  <2> QED BY <2>1 DEF TypeOK, UsersTypeOK, AccountInv, SessionInv, CodeInv, RequestInv, RoomInv, PreparingInv
<1> QED BY Inductive, <1>1, PTL

\* prepare stores a token's intent only where one wallet once held its tokens and its
\* gas, whatever wallets are registered and balances spent between its awaits.
THEOREM PlansWereCovered == Spec => []PlanWasCovered
<1>1. IInv => PlanWasCovered
  BY PlansCovered DEF IInv
<1> QED BY Inductive, <1>1, PTL

\* Signup, the services and the schema's cascades keep every row its live owner's and
\* every unique column unique, whatever calls are under way when an account goes.
THEOREM RowsOwned == Spec => []RowsConsistent
<1>1. IInv => RowsConsistent
  BY DEF IInv, AccountRows, SessionInv, SessionRows, RequestInv, RequestRows, PreparingRows, RowsConsistent
<1> QED BY Inductive, <1>1, PTL

\* A token's jti keeps it apart from every other: none whose Session row was deleted is
\* made again by a login.
THEOREM NoSessionReturns == Spec => []EndedStaysEnded
<1>1. IInv => EndedStaysEnded
  BY DEF IInv, SessionInv
<1> QED BY Inductive, <1>1, PTL

\* With a window as long as a session and a deployment together, a rotation by
\* config/jwt.ts logs nobody out, and one without a window everybody.
THEOREM RotationSafe == Spec => []RotationHonoured
<1>1. IInv => RotationHonoured
  BY RotationImplied DEF IInv
<1> QED BY Inductive, <1>1, PTL

\* The Lua scripts of verificationCodeStore.ts keep the budget of attempts, whatever
\* guesses and resends interleave.
THEOREM BudgetKept == Spec => []AcceptedInBudget
<1>1. IInv => AcceptedInBudget
  BY CodesInBudget DEF IInv
<1> QED BY Inductive, <1>1, PTL

\* verifyEmail deletes a live code only for a guess of it, right or wrong for the last
\* time, but for the plain DEL of a call that read an older, expired one.
THEOREM LiveCodesKept == Spec => LiveCodeKept
<1>1. IInv /\ [Next]_vars =>
        [\A u \in Users :
           code[u] # None /\ ~code[u].expired /\ code'[u] = None =>
             \E c \in Calls : call'[c] # call[c] /\ MayDelete(c, u, code[u].n)]_code
  BY NextInv DEF StepOK, CodeFate
<1> QED BY Inductive, <1>1, PTL DEF Spec, LiveCodeKept

\* fulfillRequest takes one completed transfer of the payer's a request, also when
\* calls race.
THEOREM RequestsArePaid == Spec => []FulfilledIsPaid
<1>1. IInv => FulfilledIsPaid
  BY RequestsPaid DEF IInv
<1> QED BY Inductive, <1>1, PTL

\* What payment.service wrote of a fulfilled request stays, once the calls that saw it
\* open have ended.
THEOREM SettledStays == Spec => SettledIsFinal
<1>1. IInv /\ [Next]_vars => [SettledKept]_<<request, call>>
  BY NextInv DEF StepOK
<1> QED BY Inductive, <1>1, PTL DEF Spec, SettledIsFinal

\* socketServer's rooms hold a user's own sockets, and events go to no others.
THEOREM RoomsSafe == Spec => []RoomsAreOwn
<1>1. IInv => RoomsAreOwn
  BY RoomsOwn DEF IInv
<1> QED BY Inductive, <1>1, PTL
=============================================================================
