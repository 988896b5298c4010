-------------------------- MODULE MCSendTransfer --------------------------
(***************************************************************************)
(* Small instances of SendTransfer.  Alice sends, Bob and Carol receive    *)
(* (Bob also sends under Alice's key); a1 and A1 are two spellings of one  *)
(* EVM address; 1 and 2 are plain amounts and 0 stands for one that        *)
(* Decimal prints in exponent form.                                        *)
(***************************************************************************)
EXTENDS SendTransfer

CONSTANTS alice, bob, carol, k1, ETH, USDC, net, a1, A1, a2, junk,
          idAlice, idBob, idCarol, idNobody

MCOwner == [id \in AccountIds |->
              CASE id = idAlice -> alice
                [] id = idBob -> bob
                [] id = idCarol -> carol
                [] OTHER -> None]

MCLowerCase == [a \in Addresses |-> IF a = A1 THEN a1 ELSE a]

Plain(v) == [value |-> v, leading |-> 0, trailing |-> 0, notation |-> "plain"]
Padded(v) == [Plain(v) EXCEPT !.trailing = 1]

To(a) == [sender |-> alice, key |-> k1, asset |-> ETH, network |-> net,
          amount |-> Plain(1), recipientAccountId |-> None,
          recipientAddress |-> a]
ToAccount(id) == [To(None) EXCEPT !.recipientAccountId = id]

\* Retries, re-spellings and re-uses of one key by Alice, and Bob's own use
\* of it, to an address and to an Account ID.
MixedInputs ==
  {To(a1), [To(A1) EXCEPT !.amount = Padded(1)], [To(a1) EXCEPT !.amount = Plain(2)],
   ToAccount(idBob), [To(a1) EXCEPT !.sender = bob]}

\* The refusals of recipient resolution, and a send the address of which the
\* recipient may change.
ResolveInputs ==
  {ToAccount(idBob), ToAccount(idNobody), ToAccount(idAlice), To(junk),
   [To(a1) EXCEPT !.asset = USDC]}

AllInputs == MixedInputs \cup ResolveInputs

\* Account ID sends that re-use a key for another recipient.
ReuseInputs == {ToAccount(idBob), ToAccount(idCarol)}

\* Retries of an amount that Decimal prints in exponent form.
TinyInputs == {[To(a1) EXCEPT !.amount = Plain(0)]}

=============================================================================
