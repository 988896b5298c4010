-------------------------- MODULE TransferPromise --------------------------
(***************************************************************************)
(* What a user is promised of the status, the hash and the receipt of a    *)
(* transfer, in one step per change: it is created, claimed, perhaps given *)
(* back to be claimed again, gets one hash for good, and ends.  It ends    *)
(* COMPLETED only if what it shows the hash of has landed on the chain,    *)
(* and an end is final.  Nothing is promised of a spoiled transfer, whose  *)
(* signed transaction has another way to the chain than the claim.         *)
(***************************************************************************)
CONSTANTS Txs, Signed, None

VARIABLES
  shown,     \* the status and hash a user is shown
  receipts,  \* the transfers with a receipt
  landed,    \* the signed transactions that the chain has confirmed
  spoiled    \* the spoiled transfers

promiseVars == <<shown, receipts, landed, spoiled>>

Status == {"NONE", "PENDING", "PROCESSING", "COMPLETED", "FAILED"}

TransferInit ==
  /\ shown = [t \in Txs |-> [status |-> "NONE", hash |-> None]]
  /\ receipts = {}
  /\ landed = {}
  /\ spoiled \subseteq Txs

Show(t, status, hash) ==
  /\ shown' = [shown EXCEPT ![t] = [status |-> status, hash |-> hash]]
  /\ UNCHANGED receipts

Is(t, status) == shown[t].status = status

Create(t) == Is(t, "NONE") /\ Show(t, "PENDING", None)

Claim(t) == Is(t, "PENDING") /\ Show(t, "PROCESSING", None)

\* Given back to the client, which only what has no hash can be.
Release(t) == Is(t, "PROCESSING") /\ shown[t].hash = None /\ Show(t, "PENDING", None)

Send(t) ==
  /\ Is(t, "PROCESSING") /\ shown[t].hash = None
  /\ \E s \in Signed : Show(t, "PROCESSING", s)

Complete(t) ==
  /\ Is(t, "PROCESSING") /\ shown[t].hash \in landed
  /\ Show(t, "COMPLETED", shown[t].hash)

Fail(t) == Is(t, "PROCESSING") /\ Show(t, "FAILED", shown[t].hash)

Receipt(t) ==
  /\ Is(t, "COMPLETED")
  /\ receipts' = receipts \cup {t}
  /\ UNCHANGED shown

Spoiled(t) ==
  /\ t \in spoiled
  /\ \E status \in Status, hash \in Signed \cup {None} :
       shown' = [shown EXCEPT ![t] = [status |-> status, hash |-> hash]]
  /\ receipts' \in {receipts, receipts \cup {t}}

\* A transfer may be spoiled by the step that changes it, or by another.
Transfer(t) ==
  /\ \/ Create(t) \/ Claim(t) \/ Release(t) \/ Send(t)
     \/ Complete(t) \/ Fail(t) \/ Receipt(t) \/ Spoiled(t)
  /\ UNCHANGED landed
  /\ spoiled \subseteq spoiled' /\ spoiled' \subseteq Txs

\* What no user is shown: the chain confirms what was sent, and takes nothing back; a
\* transfer is spoiled.
Unseen ==
  /\ landed \subseteq landed' /\ landed' \subseteq Signed
  /\ spoiled \subseteq spoiled' /\ spoiled' \subseteq Txs
  /\ UNCHANGED <<shown, receipts>>

TransferNext == Unseen \/ \E t \in Txs : Transfer(t)

TransferSpec == TransferInit /\ [][TransferNext]_promiseVars
=============================================================================
