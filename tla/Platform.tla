---------------------------- MODULE Platform ----------------------------
(***************************************************************************)
(* The accounts' side of the API as one system: accounts, sessions, codes, *)
(* payment requests, sockets, wallets and prepared transfers over the same *)
(* users, the same calls and the same instances, with signup, which goes   *)
(* through three of them, and the deletion of an account, which goes       *)
(* through all.                                                            *)
(***************************************************************************)
EXTENDS Accounts, VerificationCodes, PaymentRequests, SocketRooms, Preparing

vars == <<apiVars, accountVars, sessionVars, codeVars, requestVars, roomVars, preparingVars>>

DeleteCall == [pc: {"delete"}, user: Users]

TypeOK ==
  /\ workload \in Workloads
  /\ user \in [Users -> {"unborn", "live", "gone"}]
  /\ call \in [Calls -> [pc: {"idle"}] \cup AccountCall \cup SessionCall \cup CodeCall
                        \cup RequestCall \cup WalletCall \cup PreparingCall \cup DeleteCall]
  /\ AccountTypeOK /\ SessionTypeOK /\ CodeTypeOK /\ RequestTypeOK /\ RoomTypeOK /\ PreparingTypeOK

Init == ApiInit /\ AccountInit /\ SessionInit /\ CodeInit /\ RequestInit /\ RoomInit
        /\ PreparingInit

\* deleteAccount: the user is read.
DeleteAccount(c, u) ==
  /\ Free(c, "delete") /\ Live(u)
  /\ Goto(c, [pc |-> "delete", user |-> u])
  /\ UNCHANGED <<workload, user, accountVars, sessionVars, codeVars, requestVars, roomVars, preparingVars>>

\* The transaction: the rows of the user's sessions, transfers and account id, then the
\* user's own, with which the rest goes.  Nothing tells Redis or the sockets.
CommitDelete(c) ==
  /\ At(c, "delete")
  /\ LET u == call[c].user
     IN  IF Live(u)
         THEN /\ user' = [user EXCEPT ![u] = "gone"]
              /\ CascadeAccount(u) /\ CascadeSessions(u) /\ CascadeRequests(u)
              /\ CascadeWallets(u) /\ CascadeIntents(u)
         ELSE UNCHANGED <<user, accountVars, sessionVars, requestVars, preparingVars>>
  /\ Answer(c)
  /\ UNCHANGED <<workload, codeVars, roomVars>>

\* A redeployed instance starts anew.
Redeploy(i) ==
  /\ Deploy(i)
  /\ RestartRooms(i)

Next ==
  \/ AccountNext /\ UNCHANGED <<sessionVars, codeVars, requestVars, roomVars, preparingVars>>
  \/ SessionNext /\ UNCHANGED <<accountVars, codeVars, requestVars, roomVars, preparingVars>>
  \/ CodeNext /\ UNCHANGED <<accountVars, sessionVars, requestVars, roomVars, preparingVars>>
  \/ RequestNext /\ UNCHANGED <<accountVars, sessionVars, codeVars, roomVars, preparingVars>>
  \/ RoomNext /\ UNCHANGED <<accountVars, codeVars, requestVars, preparingVars>>
  \/ PreparingNext /\ UNCHANGED <<accountVars, sessionVars, codeVars, requestVars, roomVars>>
  \/ \E i \in Instances : Redeploy(i) /\ UNCHANGED <<accountVars, codeVars, requestVars, preparingVars>>
  \/ \E c \in Calls : \/ \E u \in Users : DeleteAccount(c, u)
                      \/ CommitDelete(c)
                      \/ /\ Breaks(c)
                         /\ UNCHANGED <<accountVars, sessionVars, codeVars, requestVars, roomVars, preparingVars>>

Spec == Init /\ [][Next]_vars

-----------------------------------------------------------------------------
(* Properties.                                                             *)

\* Whatever calls run while accounts are made and deleted, no row outlives its user,
\* and what the schema and the services promise to be one user's is one user's: an
\* e-mail, an account id, a contact's name.
RowsConsistent ==
  /\ \A t \in session : Live(t.sub)
  /\ \A u \in Users : (accountId[u] # None => Live(u)) /\ (email[u] # None <=> Live(u))
  /\ \A q \in Requests : request[q] # None => Live(request[q].owner)
  /\ \A u \in Users : wallet[u] # {} => Live(u)
  /\ \A i \in intents : Live(i.user)
  /\ \A u, v \in Users : u # v => /\ email[u] = email[v] => email[u] = None
                                  /\ accountId[u] = accountId[v] => accountId[u] = None
  /\ \A k, o \in ContactRows : k # o /\ contact[k] # None /\ contact[o] # None =>
       ~(/\ contact[k].live /\ contact[o].live
         /\ contact[k].owner = contact[o].owner /\ contact[k].name = contact[o].name)
=============================================================================
