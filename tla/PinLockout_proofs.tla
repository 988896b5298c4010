------------------------- MODULE PinLockout_proofs -------------------------
(* Proofs about PinLockout, for every number of requests, every set of PINs *)
(* and every MaxAttempts.                                                   *)
EXTENDS PinLockout, TLAPS

USE PinAssumption

(***************************************************************************)
(* Type correctness.                                                       *)
(***************************************************************************)
\* The initial state of the account is of the right type.
LEMMA TypeInit == Init => TypeOK
<1>1. 0 \in 0..(MaxAttempts - 1) /\ 0 \in Nat
  OBVIOUS
<1>2. Idle \in Request
  BY DEF Idle, Request
<1> QED BY <1>1, <1>2, Zenon DEF Init, TypeOK

\* Every step of a request, and the passing of time, keeps the type.
LEMMA TypeStep == TypeOK /\ [Next]_vars => TypeOK'
<1> SUFFICES ASSUME TypeOK, [Next]_vars PROVE TypeOK'
  OBVIOUS
<1> USE DEF TypeOK, Request, Idle, Goto, Answer, At, Kinds
<1>1. CASE UNCHANGED vars
  BY <1>1 DEF vars
<1>2. CASE Expire
  BY <1>2 DEF Expire
<1>3. ASSUME NEW r \in Requests, Begin(r) PROVE TypeOK'
  BY <1>3 DEF Begin
<1>4. ASSUME NEW r \in Requests, Step(r) PROVE TypeOK'
  <2>1. CASE SetRead(r)
    BY <2>1 DEF SetRead
  <2>2. CASE SetClaim(r)
    BY <2>2 DEF SetClaim
  <2>3. CASE ChangeHasPin(r)
    BY <2>3 DEF ChangeHasPin
  <2>4. CASE ChangeWrite(r)
    BY <2>4 DEF ChangeWrite
  <2>5. CASE LockState(r)
    BY <2>5 DEF LockState
  <2>6. CASE Compare(r)
    BY <2>6 DEF Compare
  <2>7. CASE Reset(r)
    BY <2>7 DEF Reset
  <2>8. CASE RecordRead(r)
    <3>1. (lock = "expired") \in BOOLEAN
      OBVIOUS
    <3>2. lock # "active" => req'[r] \in Request
      <4> SUFFICES ASSUME lock # "active" PROVE req'[r] \in Request
        OBVIOUS
      <4>1. req'[r] = [pc |-> "swap", kind |-> req[r].kind, raw |-> failed,
                       expired |-> lock = "expired"]
        BY <2>8 DEF RecordRead
      <4>2. req[r].kind \in Kinds
        BY <2>8 DEF RecordRead
      <4> QED BY <3>1, <4>1, <4>2
    <3> QED BY <2>8, <3>2 DEF RecordRead
  <2>9. CASE RecordSwap(r)
    <3>1. CASE failed = req[r].raw
      BY <2>9, <3>1 DEF RecordSwap, Swapped, NextCount, Locking
    <3>2. CASE failed # req[r].raw
      BY <2>9, <3>2 DEF RecordSwap, Retry
    <3> QED BY <3>1, <3>2
  <2> QED BY <1>4, <2>1, <2>2, <2>3, <2>4, <2>5, <2>6, <2>7, <2>8, <2>9 DEF Step
<1> QED BY <1>1, <1>2, <1>3, <1>4 DEF Next

\* The stored count stays below MaxAttempts and every request in a known state.
THEOREM TypeCorrect == Spec => []TypeOK
BY TypeInit, TypeStep, PTL DEF Spec

(***************************************************************************)
(* The count of wrong attempts.                                            *)
(***************************************************************************)
\* The strengthened invariant holds at first.
LEMMA IInvInit == Init => IInv
BY TypeInit DEF Init, IInv, FirstWindow, MissesCounted, Idle

\* No step breaks the strengthened invariant.
LEMMA IInvStep == IInv /\ [Next]_vars => IInv'
<1> SUFFICES ASSUME IInv, [Next]_vars PROVE IInv'
  OBVIOUS
<1>0. TypeOK /\ TypeOK'
  BY TypeStep DEF IInv
<1>a. TypeOK' /\ FirstWindow' /\ MissesCounted' => IInv'
  BY DEF IInv
<1> SUFFICES FirstWindow' /\ MissesCounted'
  BY <1>0, <1>a
<1> USE DEF IInv, FirstWindow, MissesCounted, Goto, Answer, At, Idle
<1>1. CASE UNCHANGED vars
  BY <1>1 DEF vars
<1>2. CASE Expire
  BY <1>0, <1>2 DEF Expire, TypeOK
<1>3. ASSUME NEW r \in Requests, Begin(r) PROVE FirstWindow' /\ MissesCounted'
  BY <1>0, <1>3 DEF Begin, TypeOK
<1>4. ASSUME NEW r \in Requests, Step(r) PROVE FirstWindow' /\ MissesCounted'
  <2> USE <1>0 DEF TypeOK
  <2>1. CASE SetRead(r)
    BY <2>1 DEF SetRead
  <2>2. CASE SetClaim(r)
    BY <2>2 DEF SetClaim
  <2>3. CASE ChangeHasPin(r)
    BY <2>3 DEF ChangeHasPin
  <2>4. CASE ChangeWrite(r)
    BY <2>4 DEF ChangeWrite
  <2>5. CASE LockState(r)
    BY <2>5 DEF LockState
  <2>6. CASE Compare(r)
    BY <2>6 DEF Compare
  <2>7. CASE Reset(r)
    BY <2>7 DEF Reset
  <2>8. CASE RecordRead(r)
    BY <2>8 DEF RecordRead
  <2>9. CASE RecordSwap(r)
    <3>1. CASE failed = req[r].raw
      BY <2>9, <3>1 DEF RecordSwap, Swapped, NextCount, Locking
    <3>2. CASE failed # req[r].raw
      BY <2>9, <3>2 DEF RecordSwap, Retry
    <3> QED BY <3>1, <3>2
  <2> QED BY <1>4, <2>1, <2>2, <2>3, <2>4, <2>5, <2>6, <2>7, <2>8, <2>9 DEF Step
<1> QED BY <1>1, <1>2, <1>3, <1>4 DEF Next

\* Until a lockout has expired, the stored count is the number of wrong attempts
\* recorded since it last started anew, whatever races the compare-and-swap.
THEOREM CountIsExact == Spec => []MissesCounted
<1>1. IInv => MissesCounted
  BY DEF IInv
<1> QED BY IInvInit, IInvStep, <1>1, PTL DEF Spec

(***************************************************************************)
(* What a step may never do.                                               *)
(***************************************************************************)
\* Until a lockout has expired, only the right PIN lifts one that is in force.
THEOREM LockIsHeld == Spec => LockHolds
<1> DEFINE Held ==
      ~renewed /\ lock = "active" /\ lock' = "none"
        => \E r \in Requests : req[r].pc = "reset" /\ req'[r].pc # "reset"
<1>1. IInv /\ [Next]_vars => [Held]_vars
  <2> SUFFICES ASSUME IInv, Next, ~renewed, lock = "active", lock' = "none"
               PROVE \E r \in Requests : req[r].pc = "reset" /\ req'[r].pc # "reset"
    BY DEF Held, vars
  <2> USE DEF IInv, TypeOK
  <2>1. ~Expire
    BY DEF Expire
  <2>2. PICK r \in Requests : Begin(r) \/ Step(r)
    BY <2>1 DEF Next
  <2>3. CASE Reset(r)
    BY <2>3 DEF Reset, At, Goto, Idle
  <2>4. ~RecordSwap(r)
    BY DEF RecordSwap, Swapped, Retry, FirstWindow, At
  <2>5. Begin(r) \/ SetRead(r) \/ SetClaim(r) \/ ChangeHasPin(r) \/ ChangeWrite(r)
          \/ LockState(r) \/ Compare(r) \/ RecordRead(r) => lock' = lock
    BY DEF Begin, SetRead, SetClaim, ChangeHasPin, ChangeWrite, LockState, Compare, RecordRead
  <2> QED BY <2>2, <2>3, <2>4, <2>5 DEF Step
<1> QED BY IInvInit, IInvStep, <1>1, PTL DEF Spec, LockHolds

\* A PIN that is set changes only when a changePin that proved the old one writes.
THEOREM SetPinOnce == Spec => SetNeverReplaces
<1> DEFINE Kept ==
      pinHash # None /\ pinHash' # pinHash
        => \E r \in Requests : req[r].pc = "write" /\ req'[r].pc = "idle"
<1>1. TypeOK /\ [Next]_vars => [Kept]_vars
  <2> SUFFICES ASSUME TypeOK, Next, pinHash # None, pinHash' # pinHash
               PROVE \E r \in Requests : req[r].pc = "write" /\ req'[r].pc = "idle"
    BY DEF Kept, vars
  <2>1. ~Expire
    BY DEF Expire
  <2>2. PICK r \in Requests : Begin(r) \/ Step(r)
    BY <2>1 DEF Next
  <2>3. CASE ChangeWrite(r)
    BY <2>3 DEF ChangeWrite, At, Answer, Goto, Idle, TypeOK
  <2>4. Begin(r) \/ SetRead(r) \/ SetClaim(r) \/ ChangeHasPin(r) \/ LockState(r)
          \/ Compare(r) \/ Reset(r) \/ RecordRead(r) \/ RecordSwap(r) => pinHash' = pinHash
    BY DEF Begin, SetRead, SetClaim, ChangeHasPin, LockState, Compare, Reset, RecordRead,
           RecordSwap, Swapped, Retry
  <2> QED BY <2>2, <2>3, <2>4 DEF Step
<1> QED BY TypeInit, TypeStep, <1>1, PTL DEF Spec, SetNeverReplaces

=============================================================================
