------------------------- MODULE IdempotentLedger -------------------------
(***************************************************************************)
(* What POST /api/transaction/send and .../external/:id/submit promise     *)
(* their clients, with the server's steps left out: every request names a  *)
(* sender and an idempotency key, and it records a new transfer under an   *)
(* unused key, is given the transfer its own sender recorded under the     *)
(* key, or is refused.  A request may record its transfer and be refused   *)
(* (its answer was lost, or a later step failed): its retry is given that  *)
(* transfer.                                                               *)
(***************************************************************************)
CONSTANTS Requests, Users, Keys, None, Refused

VARIABLES asked,      \* the sender and key a request names, or None
          transfers,  \* the requests whose transfer is in the ledger
          outcome     \* the transfer a request was given, Refused or None

ledgerVars == <<asked, transfers, outcome>>

LedgerTypeOK ==
  /\ asked \in [Requests -> (Users \X Keys) \cup {None}]
  /\ transfers \subseteq Requests
  /\ outcome \in [Requests -> Requests \cup {None, Refused}]

LedgerInit ==
  /\ asked = [r \in Requests |-> None]
  /\ transfers = {}
  /\ outcome = [r \in Requests |-> None]

Open(r) == asked[r] # None /\ outcome[r] = None

Ask(r) ==
  /\ asked[r] = None
  /\ \E who \in Users \X Keys : asked' = [asked EXCEPT ![r] = who]
  /\ UNCHANGED <<transfers, outcome>>

\* The key is unused by every user: the transfer of r is recorded, and r is given
\* it, refused, or answered later (by Replay or Refuse).
Record(r) ==
  /\ Open(r)
  /\ \A i \in transfers : asked[i][2] # asked[r][2]
  /\ transfers' = transfers \cup {r}
  /\ \E o \in {r, Refused, None} : outcome' = [outcome EXCEPT ![r] = o]
  /\ UNCHANGED asked

\* The same sender already recorded a transfer under this key.
Replay(r) ==
  /\ Open(r)
  /\ \E i \in transfers : /\ asked[i] = asked[r]
                          /\ outcome' = [outcome EXCEPT ![r] = i]
  /\ UNCHANGED <<asked, transfers>>

Refuse(r) ==
  /\ Open(r)
  /\ outcome' = [outcome EXCEPT ![r] = Refused]
  /\ UNCHANGED <<asked, transfers>>

LedgerNext == \E r \in Requests : Ask(r) \/ Record(r) \/ Replay(r) \/ Refuse(r)

LedgerSpec == LedgerInit /\ [][LedgerNext]_ledgerVars

=============================================================================
