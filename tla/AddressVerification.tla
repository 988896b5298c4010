----------------------- MODULE AddressVerification -----------------------
(***************************************************************************)
(* blockchain/: does an address exist?  TriVerify is asked about six       *)
(* chains, and the node of BSC or Base about an address of its own.        *)
(***************************************************************************)
EXTENDS ChainAdapters

FALLBACK_CHAINS == {"BSC", "BASE"}

\* What the node answers of an address, or "error" and "timeout".
NodeAnswers == {"contract", "used", "unused", "error", "timeout"}
TriVerifyAnswers == {"exists", "missing", "throws"}

\* withTimeout: whichever comes first; both ends of a failure are caught alike.
Answered(answer) == answer \notin {"error", "timeout"}

\* Whatever well-formed address the node answers for exists; a node that does not
\* answer makes the address one that does not exist.
verifyOnChainFallback(address, answer) ==
  [exists |-> getAddress(address) /\ Answered(answer),
   active |-> getAddress(address) /\ answer \in {"contract", "used"}]

\* verifyOnChain of the TriVerify package.
verifyOnChain(answer) == [exists |-> answer = "exists", active |-> answer = "exists"]

\* verifyAddressOnChain, and what its callers see: the answers that let a call go on.
Verifies(chain, address) ==
  IF chain \in FALLBACK_CHAINS
  THEN {a \in NodeAnswers : verifyOnChainFallback(address, a).exists}
  ELSE {a \in TriVerifyAnswers : verifyOnChain(a).exists}

\* verifyAddressExists returns; an address of the wrong format is said so, not refused.
verifyAddressExists(chain, address) ==
  IF ~isValidAddress(chain, address) THEN {"invalid_address_format"} ELSE Verifies(chain, address)

\* POST /validate/address: 200 with formatValid and exists, or an error.
ValidateAddress(chain, address) ==
  {[formatValid |-> a # "invalid_address_format", exists |-> a # "invalid_address_format"] :
     a \in verifyAddressExists(chain, address)}
=============================================================================
