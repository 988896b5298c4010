------------------------- MODULE PaymentRequests -------------------------
(***************************************************************************)
(* Requests for payment: created by a user, expired by whoever reads them  *)
(* late, fulfilled by a payer with a completed transfer.                   *)
(***************************************************************************)
EXTENDS ApiCalls

CONSTANTS
  Requests,
  Transfers,  \* rows of Transaction
  Assets,
  Values,     \* the amounts of transfers
  Asked       \* the amounts asked for, None where any will do

Request == [owner: Users, asset: Assets, amount: Asked,
            status: {"OPEN", "FULFILLED", "EXPIRED"}, paidBy: Transfers \cup {None}]
Transfer == [sender: Users, to: Users, asset: Assets, amount: Values, state: {"pending", "completed", "deleted"}]

ASSUME RequestsAssumption == None \notin Transfers /\ None \notin Request /\ None \notin Transfer

VARIABLES
  request,   \* the PaymentRequest rows
  late,      \* the requests whose expiresAt has passed, or whose row is gone
  transfer   \* the Transaction rows that may be offered in payment

requestVars == <<request, late, transfer>>

RequestCall == [pc: {"expire"}, request: Requests]
               \cup [pc: {"match", "fulfil"}, request: Requests, transfer: Transfers, payer: Users]

RequestTypeOK ==
  /\ request \in [Requests -> Request \cup {None}]
  /\ late \subseteq Requests
  /\ transfer \in [Transfers -> Transfer \cup {None}]

RequestInit ==
  /\ request = [q \in Requests |-> None]
  /\ late = {}
  /\ transfer = [x \in Transfers |-> None]

SetStatus(q, s, x) == request' = [request EXCEPT ![q].status = s, ![q].paidBy = x]

-----------------------------------------------------------------------------

CreateRequest(c, u) ==
  /\ Free(c, "request") /\ Live(u)
  /\ \E q \in Requests \ late, a \in Assets, v \in Asked :
       /\ request[q] = None
       /\ request' = [request EXCEPT ![q] = [owner |-> u, asset |-> a, amount |-> v,
                                             status |-> "OPEN", paidBy |-> None]]
  /\ UNCHANGED <<late, transfer, apiVars>>

RequestExpires(q) ==
  /\ request[q] # None /\ q \notin late
  /\ late' = late \cup {q}
  /\ UNCHANGED <<request, transfer, apiVars>>

\* getRequest, by anyone: an open request seen after its time is to be marked.
GetRequest(c) ==
  /\ Free(c, "request")
  /\ \E q \in late :
       /\ request[q] # None /\ request[q].status = "OPEN"
       /\ Goto(c, [pc |-> "expire", request |-> q])
  /\ UNCHANGED <<requestVars, workload, user>>

\* The row is marked whatever it has become.
MarkExpired(c) ==
  /\ At(c, "expire")
  /\ LET q == call[c].request
     IN  IF request[q] = None THEN UNCHANGED request ELSE SetStatus(q, "EXPIRED", request[q].paidBy)
  /\ Answer(c)
  /\ UNCHANGED <<late, transfer, workload, user>>

\* The bug of looking at the time alone.
PayableByTime(q) == request[q] # None /\ q \notin late

\* fulfillRequest takes an open request in time.
Payable(q) == request[q] # None /\ request[q].status = "OPEN" /\ q \notin late

FulfillRequest(c, u) ==
  /\ Free(c, "request") /\ Live(u)
  /\ \E q \in Requests, x \in Transfers :
       IF Payable(q)
       THEN /\ u # request[q].owner
            /\ Goto(c, [pc |-> "match", request |-> q, transfer |-> x, payer |-> u])
       ELSE /\ request[q] # None /\ request[q].status = "OPEN"
            /\ Goto(c, [pc |-> "expire", request |-> q])
  /\ UNCHANGED <<requestVars, workload, user>>

\* The bug of comparing nothing but the asset.
PaysAsset(x, q, u) ==
  /\ transfer[x] # None /\ transfer[x].state = "completed" /\ transfer[x].sender = u
  /\ transfer[x].to = request[q].owner
  /\ transfer[x].asset = request[q].asset

\* The transfer is the payer's, completed, to the owner, of what was asked.  The code
\* compares the recipient's account id with the owner's; ids that a deletion frees and
\* another user is given are not modelled.
Pays(x, q, u) ==
  /\ transfer[x] # None /\ transfer[x].state = "completed" /\ transfer[x].sender = u
  /\ transfer[x].to = request[q].owner
  /\ transfer[x].asset = request[q].asset
  /\ request[q].amount \in {None, transfer[x].amount}

MatchTransfer(c) ==
  /\ At(c, "match")
  /\ LET q == call[c].request  x == call[c].transfer
     IN  IF request[q] # None /\ Pays(x, q, call[c].payer)
         THEN Goto(c, [call[c] EXCEPT !.pc = "fulfil"])
         ELSE Answer(c)
  /\ UNCHANGED <<requestVars, workload, user>>

\* fulfilledTransactionId is unique; the row's status is not looked at again.
Fulfil(c) ==
  /\ At(c, "fulfil")
  /\ LET q == call[c].request  x == call[c].transfer
     IN  IF request[q] # None /\ \A o \in Requests \ {q} : request[o] = None \/ request[o].paidBy # x
         THEN SetStatus(q, "FULFILLED", x)
         ELSE UNCHANGED request
  /\ Answer(c)
  /\ UNCHANGED <<late, transfer, workload, user>>

-----------------------------------------------------------------------------

\* Another part of the system stores a transfer, and completes it.
Store(x) ==
  /\ "request" \in workload.ops
  /\ transfer[x] = None
  /\ \E u, v \in Users, a \in Assets, m \in Values :
       /\ Live(u) /\ Live(v) /\ u # v
       /\ transfer' = [transfer EXCEPT ![x] = [sender |-> u, to |-> v, asset |-> a, amount |-> m,
                                               state |-> "pending"]]
  /\ UNCHANGED <<request, late, apiVars>>

Complete(x) ==
  /\ transfer[x] # None /\ transfer[x].state = "pending"
  /\ transfer' = [transfer EXCEPT ![x].state = "completed"]
  /\ UNCHANGED <<request, late, apiVars>>

\* The requests of a user and the transfers they sent go with the account.
CascadeRequests(u) ==
  /\ request' = [q \in Requests |-> IF request[q] # None /\ request[q].owner = u THEN None ELSE request[q]]
  /\ transfer' = [x \in Transfers |-> IF transfer[x] # None /\ transfer[x].sender = u
                                      THEN [transfer[x] EXCEPT !.state = "deleted"] ELSE transfer[x]]
  /\ late' = late \cup {q \in Requests : request[q] # None /\ request[q].owner = u}

RequestNext ==
  \/ \E c \in Calls : \/ \E u \in Users : CreateRequest(c, u) \/ FulfillRequest(c, u)
                      \/ GetRequest(c) \/ MarkExpired(c) \/ MatchTransfer(c) \/ Fulfil(c)
  \/ \E q \in Requests : RequestExpires(q)
  \/ \E x \in Transfers : Store(x) \/ Complete(x)

-----------------------------------------------------------------------------
(* Properties.                                                             *)

\* A fulfilled request was paid by another user's completed transfer of what it asks
\* for, and no transfer pays two requests, whatever calls for the same request or the
\* same transfer ran at once; at most the payer has deleted the account since.
FulfilledIsPaid ==
  \A q \in Requests : request[q] # None /\ request[q].status = "FULFILLED" =>
    LET x == request[q].paidBy
    IN  /\ x # None
        /\ \A o \in Requests \ {q} : request[o] = None \/ request[o].paidBy # x
        /\ transfer[x].state \in {"completed", "deleted"}
        /\ transfer[x].sender # request[q].owner /\ transfer[x].to = request[q].owner
        /\ transfer[x].asset = request[q].asset
        /\ request[q].amount \in {None, transfer[x].amount}

\* The request is fulfilled, and no call that saw it open is still at work.
Settled(q) ==
  /\ request[q] # None /\ request[q].status = "FULFILLED"
  /\ \A c \in Calls : call[c].pc \in {"expire", "match", "fulfil"} => call[c].request # q

SettledKept ==
  \A q \in Requests : Settled(q) => \/ Settled(q)' /\ request'[q] = request[q]
                                    \/ user'[request[q].owner] # "live"

\* A fulfilled request stays as it is once the calls that saw it open have ended: they
\* may still mark it expired or pay it again, nothing else may, but the deletion of
\* its owner's account.
SettledIsFinal == [][SettledKept]_<<request, call>>
=============================================================================
