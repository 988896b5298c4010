---------------------------- MODULE PinLockout ----------------------------
(***************************************************************************)
(* The PIN of one account and its lockout: pinLockoutService, shared by    *)
(* verifyPin, the transfer endpoints and changePin, and the set-pin and    *)
(* change-pin endpoints themselves.                                        *)
(*                                                                         *)
(* A request is a sequence of database calls between which other requests  *)
(* run.  pinLockedUntil is abstracted to what the code asks of it: there   *)
(* is none, it lies ahead ("active") or it has passed ("expired").  What a *)
(* request guesses is chosen when the guess is compared.                   *)
(***************************************************************************)
EXTENDS Naturals

CONSTANTS
  Requests,     \* the requests that run at one time; each is reused
  Pins,         \* the PINs a user may choose
  MaxAttempts,  \* PIN_MAX_ATTEMPTS
  None

ASSUME PinAssumption == None \notin Pins /\ MaxAttempts \in Nat \ {0}

VARIABLES
  pinHash,  \* User.pinHash
  failed,   \* User.pinFailedAttempts
  lock,     \* User.pinLockedUntil
  req,      \* the requests
  misses,   \* history: wrong PINs recorded since the count last started anew
  renewed   \* history: a lockout has expired at some time

vars == <<pinHash, failed, lock, req, misses, renewed>>

Kinds == {"verify", "change"}

Request ==
  [pc: {"idle", "setRead", "setClaim", "hasPin", "write"}]
  \cup [pc: {"lockState", "compare", "read", "reset"}, kind: Kinds]
  \cup [pc: {"swap"}, kind: Kinds, raw: 0..(MaxAttempts - 1), expired: BOOLEAN]

Idle == [pc |-> "idle"]

TypeOK ==
  /\ pinHash \in Pins \cup {None}
  /\ failed \in 0..(MaxAttempts - 1)
  /\ lock \in {"none", "active", "expired"}
  /\ req \in [Requests -> Request]
  /\ misses \in Nat
  /\ renewed \in BOOLEAN

Init ==
  /\ pinHash = None
  /\ failed = 0
  /\ lock = "none"
  /\ req = [r \in Requests |-> Idle]
  /\ misses = 0
  /\ renewed = FALSE

-----------------------------------------------------------------------------

Goto(r, state) == req' = [req EXCEPT ![r] = state]
Answer(r) == Goto(r, Idle)
At(r, pc) == req[r].pc = pc

\* POST set-pin, verify-pin or a transfer, change-pin.
Begin(r) ==
  /\ At(r, "idle")
  /\ \E first \in {[pc |-> "setRead"], [pc |-> "hasPin"],
                   [pc |-> "lockState", kind |-> "verify"]} : Goto(r, first)
  /\ UNCHANGED <<pinHash, failed, lock, misses, renewed>>

\* Time passes: the lockout in force runs out.
Expire ==
  /\ lock = "active"
  /\ lock' = "expired"
  /\ renewed' = TRUE
  /\ UNCHANGED <<pinHash, failed, req, misses>>

-----------------------------------------------------------------------------
(* setPin: a PIN is set once.                                              *)

SetRead(r) ==
  /\ At(r, "setRead")
  /\ IF pinHash = None THEN Goto(r, [pc |-> "setClaim"]) ELSE Answer(r)
  /\ UNCHANGED <<pinHash, failed, lock, misses, renewed>>

\* The bug of writing what the read before the hashing allowed.
SetUnconditionally(r) ==
  /\ At(r, "setClaim")
  /\ pinHash' \in Pins
  /\ Answer(r)
  /\ UNCHANGED <<failed, lock, misses, renewed>>

SetClaim(r) ==
  /\ At(r, "setClaim")
  /\ IF pinHash = None THEN pinHash' \in Pins ELSE UNCHANGED pinHash
  /\ Answer(r)
  /\ UNCHANGED <<failed, lock, misses, renewed>>

-----------------------------------------------------------------------------
(* changePin looks for a PIN first and writes the new one last.            *)

ChangeHasPin(r) ==
  /\ At(r, "hasPin")
  /\ IF pinHash = None
     THEN Answer(r)
     ELSE Goto(r, [pc |-> "lockState", kind |-> "change"])
  /\ UNCHANGED <<pinHash, failed, lock, misses, renewed>>

ChangeWrite(r) ==
  /\ At(r, "write")
  /\ pinHash' \in Pins
  /\ Answer(r)
  /\ UNCHANGED <<failed, lock, misses, renewed>>

-----------------------------------------------------------------------------
(* assertPinAuthorized, and verifyPin, which repeats it.                   *)

\* getLockState: 423 while a lockout is in force.
LockState(r) ==
  /\ At(r, "lockState")
  /\ IF lock = "active" THEN Answer(r)
     ELSE Goto(r, [pc |-> "compare", kind |-> req[r].kind])
  /\ UNCHANGED <<pinHash, failed, lock, misses, renewed>>

\* The hash is read and compared with the guess; no PIN is a 409.
Compare(r) ==
  /\ At(r, "compare")
  /\ IF pinHash = None THEN Answer(r)
     ELSE \E guess \in Pins \cup {None} :
            Goto(r, [pc |-> IF guess = pinHash THEN "reset" ELSE "read",
                     kind |-> req[r].kind])
  /\ UNCHANGED <<pinHash, failed, lock, misses, renewed>>

\* A correct PIN clears the counter and any lockout, and the request goes on.
Reset(r) ==
  /\ At(r, "reset")
  /\ failed' = 0
  /\ lock' = "none"
  /\ misses' = 0
  /\ Goto(r, IF req[r].kind = "change" THEN [pc |-> "write"] ELSE Idle)
  /\ UNCHANGED <<pinHash, renewed>>

\* recordFailure reads; a lockout in force is answered 423 and left alone.
RecordRead(r) ==
  /\ At(r, "read")
  /\ IF lock = "active" THEN Answer(r)
     ELSE Goto(r, [pc |-> "swap", kind |-> req[r].kind, raw |-> failed,
                   expired |-> lock = "expired"])
  /\ UNCHANGED <<pinHash, failed, lock, misses, renewed>>

\* The count after this failure, which starts anew after an expired lockout.
NextCount(r) == (IF req[r].expired THEN 0 ELSE req[r].raw) + 1
Locking(r) == NextCount(r) >= MaxAttempts

\* What the compare-and-swap writes when it succeeds.
Swapped(r) ==
  /\ failed' = IF Locking(r) THEN 0 ELSE NextCount(r)
  /\ lock' = IF Locking(r) THEN "active" ELSE IF req[r].expired THEN "none" ELSE lock
  /\ misses' = IF Locking(r) THEN 0 ELSE IF lock = "expired" THEN 1 ELSE misses + 1
  /\ Answer(r)
  /\ UNCHANGED <<pinHash, renewed>>

\* The bug of a plain update in place of the compare-and-swap.
SwapAlways(r) == At(r, "swap") /\ Swapped(r)

Retry(r) ==
  /\ Goto(r, [pc |-> "read", kind |-> req[r].kind])
  /\ UNCHANGED <<pinHash, failed, lock, misses, renewed>>

\* The bug of comparing with the count the new window starts from.
SwapOnWindowCount(r) ==
  /\ At(r, "swap")
  /\ IF failed = NextCount(r) - 1 THEN Swapped(r) ELSE Retry(r)

\* The bug of leaving the stored count alone when the lockout is armed.
SwapKeepingCount(r) ==
  /\ At(r, "swap")
  /\ IF failed = req[r].raw
     THEN /\ failed' = NextCount(r)
          /\ lock' = IF Locking(r) THEN "active" ELSE lock
          /\ misses' = IF Locking(r) THEN 0 ELSE misses + 1
          /\ Answer(r)
          /\ UNCHANGED <<pinHash, renewed>>
     ELSE Retry(r)

\* The bug of clearing the stamp with every count.
SwapClearingLock(r) ==
  /\ At(r, "swap")
  /\ IF failed = req[r].raw
     THEN /\ failed' = IF Locking(r) THEN 0 ELSE NextCount(r)
          /\ lock' = IF Locking(r) THEN "active" ELSE "none"
          /\ misses' = IF Locking(r) THEN 0 ELSE misses + 1
          /\ Answer(r)
          /\ UNCHANGED <<pinHash, renewed>>
     ELSE Retry(r)

\* The compare-and-swap on the raw count; the loop reads again when it is lost.
RecordSwap(r) ==
  /\ At(r, "swap")
  /\ IF failed = req[r].raw THEN Swapped(r) ELSE Retry(r)

-----------------------------------------------------------------------------

Step(r) ==
  \/ SetRead(r) \/ SetClaim(r) \/ ChangeHasPin(r) \/ ChangeWrite(r)
  \/ LockState(r) \/ Compare(r) \/ Reset(r) \/ RecordRead(r) \/ RecordSwap(r)

Next == Expire \/ \E r \in Requests : Begin(r) \/ Step(r)

Spec == Init /\ [][Next]_vars

\* The event loop runs every request that has begun.
FairSpec == Spec /\ \A r \in Requests : WF_vars(Step(r))

-----------------------------------------------------------------------------
(* Properties.                                                             *)

\* Until a lockout has expired, every wrong PIN is counted exactly once: two
\* wrong attempts never land on the same count, so a lockout is armed by
\* MaxAttempts of them.
MissesCounted == ~renewed => failed = misses

\* The inductive strengthening: before any lockout has expired, no request holds
\* a view of an expired one, which is what would restart the count.
FirstWindow ==
  ~renewed => /\ lock # "expired"
              /\ \A r \in Requests : req[r].pc = "swap" => ~req[r].expired
IInv == TypeOK /\ FirstWindow /\ MissesCounted

\* Until a lockout has expired, one that is in force is lifted only by a request
\* that entered the right PIN, and never by the failures that raced with it.
LockHolds ==
  [][~renewed /\ lock = "active" /\ lock' = "none"
       => \E r \in Requests : req[r].pc = "reset" /\ req'[r].pc # "reset"]_vars

\* set-pin never replaces a PIN, however many first-time requests race.
SetNeverReplaces ==
  [][pinHash # None /\ pinHash' # pinHash
       => \E r \in Requests : req[r].pc = "write" /\ req'[r].pc = "idle"]_vars

\* Requests that retry the compare-and-swap cannot keep each other from ever
\* being answered: either everyone is served again and again, or someone is.
NoLivelock ==
  \/ []<>(\A r \in Requests : req[r] = Idle)
  \/ []<><<\E r \in Requests : req[r] # Idle /\ req'[r] = Idle>>_vars

\* A lockout in force is armed by one attempt: no other arming write, with its
\* security event, happens while it lasts.
ArmedOncePerLockout ==
  [][lock = "active" /\ lock' = "active"
       => ~ \E r \in Requests : /\ req[r].pc = "swap" /\ Locking(r)
                                /\ req'[r] = Idle]_vars

=============================================================================
