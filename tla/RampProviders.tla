-------------------------- MODULE RampProviders --------------------------
(***************************************************************************)
(* What the two fiat providers' adapters make of the words the providers   *)
(* use, and the Naira limits: pure functions, shared by the ramp's         *)
(* requests, webhooks and reconcile jobs.                                  *)
(***************************************************************************)
EXTENDS Integers, Sequences

Statuses == {"PENDING", "PROCESSING", "COMPLETED", "FAILED"}
Types == {"DEPOSIT", "WITHDRAWAL"}
Providers == {"bitnob", "yellowcard"}

\* A table gives the words of each status; a word it does not list is PENDING.
StatusOf(table, word) ==
  IF \E s \in Statuses : word \in table[s]
  THEN CHOOSE s \in Statuses : word \in table[s]
  ELSE "PENDING"

Lists(table, word) == \E s \in Statuses : word \in table[s]

\* Looked up without regard to case.
PAYOUT_STATUS_MAP ==
  [PENDING |-> {"QUOTE", "INITIATED", "PENDING"}, PROCESSING |-> {"PROCESSING"},
   COMPLETED |-> {"COMPLETED", "SUCCESS"}, FAILED |-> {"FAILED", "EXPIRED"}]

PAYOUT_EVENT_MAP ==
  [PENDING    |-> {"payouts.initialized", "payout.initiated"},
   PROCESSING |-> {"payouts.processing", "payout.processing"},
   COMPLETED  |-> {"payouts.withdrawal.success", "payout.transfer.success"},
   FAILED     |-> {"payouts.withdrawal.expired", "payout.transfer.failed"}]

DEPOSIT_EVENT_MAP ==
  [PENDING    |-> {"transaction.pending"},
   PROCESSING |-> {"transaction.processing"},
   COMPLETED  |-> {"transaction.successful", "charge.success", "transaction.success",
                   "virtualaccount.receive.success"},
   FAILED     |-> {"transaction.failed", "charge.failed", "virtualaccount.receive.failed"}]

STATUS_MAP ==
  [PENDING    |-> {"pending", "pending_approval"},
   PROCESSING |-> {"pending_provider", "pending_liquidity", "processing"},
   COMPLETED  |-> {"received", "complete", "success", "succeeded", "sent"},
   FAILED     |-> {"failed", "rejected", "refused", "cancelled", "canceled", "expired",
                   "expired_quote", "denied", "insufficient_funds"}]

\* The bug of trusting data.status, an event's outcome, before the event's name.
ParseByOutcome(event, status) == StatusOf(PAYOUT_STATUS_MAP, status)

\* Bitnob: the event's name decides, and data.status when the name is not listed.
ParseBitnob(event, status) ==
  CASE Lists(PAYOUT_EVENT_MAP, event) -> StatusOf(PAYOUT_EVENT_MAP, event)
    [] ~Lists(PAYOUT_EVENT_MAP, event) /\ Lists(DEPOSIT_EVENT_MAP, event) ->
         StatusOf(DEPOSIT_EVENT_MAP, event)
    [] OTHER -> StatusOf(PAYOUT_STATUS_MAP, status)

\* Yellow Card: parsed.status, or the second word of the event's name where it is absent.
ParseYellowCard(suffix, status) ==
  StatusOf(STATUS_MAP, IF status = "absent" THEN suffix ELSE status)

-----------------------------------------------------------------------------
(* What the adapters make of an event, an answer or a look-up when the     *)
(* provider says a status: a word of that status's list, one no list has,  *)
(* or, in the outcome of an event, any word.                               *)

\* data.status on an event of Bitnob's is the outcome of the event, not the record's
\* state: any word may come with any status, "SUCCESS" with a payout merely initialized.
Outcomes == UNION {PAYOUT_STATUS_MAP[s] : s \in Statuses} \cup {"absent"}

\* The name of an event, where it is listed, is one of the provider's status.
BitnobNames(type, says) ==
  {s \in Statuses :
     \E e \in (IF type = "DEPOSIT" THEN DEPOSIT_EVENT_MAP ELSE PAYOUT_EVENT_MAP)[says], o \in Outcomes :
       s = ParseBitnob(e, o)}

\* With a name of none of the lists the event's outcome is taken for the status, a guess.
BitnobGuesses == {s \in Statuses : \E o \in Outcomes : s = ParseBitnob("unlisted", o)}

BitnobAnnounces(type, says) ==
  [status: BitnobNames(type, says), guess: {FALSE}] \cup [status: BitnobGuesses, guess: {TRUE}]

YellowCardAnnounces(says) ==
  [status: {ParseYellowCard(w, s) : w \in STATUS_MAP[says], s \in STATUS_MAP[says] \cup {"absent", "unlisted"}},
   guess: {FALSE}]

\* What events of the provider's status can be parsed to.
Announced(provider, type, says) ==
  IF provider = "bitnob" THEN BitnobAnnounces(type, says) ELSE YellowCardAnnounces(says)

\* createDeposit makes a virtual account, PENDING whatever the provider answers;
\* createWithdrawal and getStatus map the payout's status.
BitnobReports(type, says) ==
  IF type = "DEPOSIT" THEN {"PENDING"}
  ELSE {StatusOf(PAYOUT_STATUS_MAP, w) : w \in PAYOUT_STATUS_MAP[says] \cup {"unlisted"}}

YellowCardReports(says) == {StatusOf(STATUS_MAP, w) : w \in STATUS_MAP[says] \cup {"unlisted"}}

\* The statuses an instruction or a look-up can bring.
Reported(provider, type, says) ==
  IF provider = "bitnob" THEN BitnobReports(type, says) ELSE YellowCardReports(says)

-----------------------------------------------------------------------------
(* Naira amounts, as a whole part and the digits after the point.          *)

toKobo(naira) == 100 * naira

\* frac.padEnd(2, "0")
Kobo(amount) ==
  100 * amount.whole + (IF Len(amount.frac) > 0 THEN 10 * amount.frac[1] ELSE 0)
                     + (IF Len(amount.frac) > 1 THEN amount.frac[2] ELSE 0)

assertValidNgnAmount(amount, min, max) ==
  Len(amount.frac) <= 2 /\ Kobo(amount) > 0 /\ Kobo(amount) \in toKobo(min)..toKobo(max)

=============================================================================
