------------------------ MODULE VerificationCodes ------------------------
(***************************************************************************)
(* The e-mail verification codes: one Redis record a user, made by signup  *)
(* and resend, spent or struck out by verifyEmail with two Lua scripts.    *)
(* Codes are told apart by the number of their making; two codes with the  *)
(* same six digits are not modelled.                                       *)
(***************************************************************************)
EXTENDS ApiCalls, EmailDelivery

CONSTANTS
  MaxCodes,     \* bound: the codes made
  MaxAttempts,  \* env.OTP_MAX_ATTEMPTS
  DevMode,      \* devVerificationEnabled()
  Mail          \* the configuration of EmailDelivery

ASSUME CodesAssumption ==
  /\ MaxCodes \in Nat /\ MaxAttempts \in Nat \ {0}
  /\ DevMode \in BOOLEAN
  /\ None \notin [n: 1..MaxCodes, a: 0..(MaxAttempts - 1), expired: BOOLEAN]

VARIABLES
  code,      \* the record of each user: the code, its wrong attempts, e in the past
  verified,  \* the users with emailVerified
  made,      \* the number of codes made
  wrong,     \* history: the wrong guesses made of each code while it was stored
  accepted   \* history: how often each code was accepted

codeVars == <<code, verified, made, wrong, accepted>>

Record == [n: 1..MaxCodes, a: 0..(MaxAttempts - 1), expired: BOOLEAN]

\* A call that read a record knows the code's number, and the attempts it had then.
CodeCall == [pc: {"issue", "send", "replace", "guess", "mark"}, user: Users]
            \cup [pc: {"drop"}, user: Users, n: 1..MaxCodes]
            \cup [pc: {"miss", "consume"}, user: Users, n: 1..MaxCodes, a: 0..(MaxAttempts - 1)]

CodeTypeOK ==
  /\ code \in [Users -> Record \cup {None}]
  /\ verified \subseteq Users
  /\ made \in 0..MaxCodes
  /\ wrong \in [1..MaxCodes -> Nat]
  /\ accepted \in [1..MaxCodes -> Nat]

CodeInit ==
  /\ code = [u \in Users |-> None]
  /\ verified = {}
  /\ made = 0
  /\ wrong = [n \in 1..MaxCodes |-> 0]
  /\ accepted = [n \in 1..MaxCodes |-> 0]

SetCode(u, record) == code' = [code EXCEPT ![u] = record]
Holds(u, n) == code[u] # None /\ code[u].n = n

-----------------------------------------------------------------------------

\* createVerificationCode: whatever code there was is replaced.
CreateCode(u) ==
  /\ made < MaxCodes
  /\ made' = made + 1
  /\ SetCode(u, [n |-> made + 1, a |-> 0, expired |-> FALSE])
  /\ UNCHANGED <<verified, wrong, accepted, workload, user>>

\* resendVerificationCode; signup comes to "issue" by itself.
Resend(c, u) ==
  /\ Free(c, "code") /\ Live(u) /\ u \notin verified
  /\ Goto(c, [pc |-> "issue", user |-> u])
  /\ UNCHANGED <<codeVars, workload, user>>

\* issueAndDeliverCode: without a provider there is no code; in development mode it is
\* not sent.
Issue(c) ==
  /\ At(c, "issue")
  /\ DevMode \/ isEmailProviderConfigured(Mail)
  /\ CreateCode(call[c].user)
  /\ IF DevMode THEN Answer(c) ELSE Goto(c, [call[c] EXCEPT !.pc = "send"])

SendCode(c) ==
  /\ At(c, "send")
  /\ \E reply \in Replies :
       IF trySendEmail(Mail, reply) THEN Answer(c) ELSE Goto(c, [call[c] EXCEPT !.pc = "replace"])
  /\ UNCHANGED <<codeVars, workload, user>>

\* The code that was not sent is replaced by one nobody is told.
Replace(c) ==
  /\ At(c, "replace")
  /\ CreateCode(call[c].user)
  /\ Answer(c)

-----------------------------------------------------------------------------

\* verifyEmail: the user is read.
VerifyEmail(c, u) ==
  /\ Free(c, "code") /\ Live(u) /\ u \notin verified
  /\ Goto(c, [pc |-> "guess", user |-> u])
  /\ UNCHANGED <<codeVars, workload, user>>

\* GET: there is no record, or an expired one, or one whose code the guess is, or is not.
ReadCode(c) ==
  /\ At(c, "guess")
  /\ LET u == call[c].user
     IN  IF code[u] = None THEN Answer(c)
         ELSE IF code[u].expired THEN Goto(c, [pc |-> "drop", user |-> u, n |-> code[u].n])
         ELSE \E next \in {"miss", "consume"} :
                Goto(c, [pc |-> next, user |-> u, n |-> code[u].n, a |-> code[u].a])
  /\ UNCHANGED <<codeVars, workload, user>>

\* The expired record is deleted, or the newer one that has taken its place.
DropExpired(c) ==
  /\ At(c, "drop")
  /\ SetCode(call[c].user, None)
  /\ Answer(c)
  /\ UNCHANGED <<verified, made, wrong, accepted, workload, user>>

\* The bug of counting on from the attempts read before.
StaleFailure(c) ==
  LET u == call[c].user  a == call[c].a + 1
  IN  IF ~Holds(u, call[c].n) THEN UNCHANGED code
      ELSE SetCode(u, IF a >= MaxAttempts THEN None ELSE [code[u] EXCEPT !.a = a])

\* The bug of an attempt too many.
FailureOffByOne(c) ==
  LET u == call[c].user  a == code[u].a + 1
  IN  IF ~Holds(u, call[c].n) THEN UNCHANGED code
      ELSE SetCode(u, IF a > MaxAttempts THEN None ELSE [code[u] EXCEPT !.a = a])

\* FAILURE_SCRIPT.
FAILURE_SCRIPT(c) ==
  LET u == call[c].user  a == code[u].a + 1
  IN  IF ~Holds(u, call[c].n) THEN UNCHANGED code
      ELSE SetCode(u, IF a >= MaxAttempts THEN None ELSE [code[u] EXCEPT !.a = a])

Miss(c) ==
  /\ At(c, "miss")
  /\ FAILURE_SCRIPT(c)
  /\ wrong' = [wrong EXCEPT ![call[c].n] = @ + (IF Holds(call[c].user, call[c].n) THEN 1 ELSE 0)]
  /\ Answer(c)
  /\ UNCHANGED <<verified, made, accepted, workload, user>>

\* The bug of deleting without comparing the hash.
MatchesAny(u, n) == code[u] # None

\* CONSUME_SCRIPT's comparison.
Matches(u, n) == Holds(u, n)

Consume(c) ==
  /\ At(c, "consume")
  /\ LET u == call[c].user  n == call[c].n
     IN  IF Matches(u, n)
         THEN /\ SetCode(u, None)
              /\ accepted' = [accepted EXCEPT ![n] = @ + 1]
              /\ Goto(c, [pc |-> "mark", user |-> u])
         ELSE Answer(c) /\ UNCHANGED <<code, accepted>>
  /\ UNCHANGED <<verified, made, wrong, workload, user>>

\* The code is spent whether or not this write succeeds.
MarkVerified(c) ==
  /\ At(c, "mark")
  /\ verified' = IF Live(call[c].user) THEN verified \cup {call[c].user} ELSE verified
  /\ Answer(c)
  /\ UNCHANGED <<code, made, wrong, accepted, workload, user>>

-----------------------------------------------------------------------------

CodeExpires(u) ==
  /\ code[u] # None /\ ~code[u].expired
  /\ SetCode(u, [code[u] EXCEPT !.expired = TRUE])
  /\ UNCHANGED <<verified, made, wrong, accepted, apiVars>>

\* Redis lets go of the record at the end of the grace period.
RetentionEnds(u) ==
  /\ code[u] # None /\ code[u].expired
  /\ SetCode(u, None)
  /\ UNCHANGED <<verified, made, wrong, accepted, apiVars>>

CodeNext ==
  \/ \E c \in Calls : \/ \E u \in Users : Resend(c, u) \/ VerifyEmail(c, u)
                      \/ ReadCode(c) \/ Issue(c) \/ SendCode(c) \/ Replace(c)
                      \/ DropExpired(c) \/ Miss(c) \/ Consume(c) \/ MarkVerified(c)
  \/ \E u \in Users : CodeExpires(u) \/ RetentionEnds(u)

-----------------------------------------------------------------------------
(* Properties.                                                             *)

\* However many guesses run at once, a code is accepted once, and only after fewer
\* wrong guesses than its budget: neither guesses that read the same record nor
\* resends in between buy an attempt.
AcceptedInBudget ==
  \A n \in 1..MaxCodes :
    /\ wrong[n] <= MaxAttempts
    /\ accepted[n] > 0 => accepted[n] = 1 /\ wrong[n] < MaxAttempts

\* What the call c must know of user u's code, whose number is n, to delete it: that it was
\* guessed, or guessed wrong as often as it may be - or nothing, when c read an older,
\* expired code in its place and is at the plain DEL that follows.
MayDelete(c, u, n) ==
  /\ call[c].pc \in {"consume", "miss", "drop"} /\ call[c].user = u
  /\ At(c, "consume") => call[c].n = n
  /\ At(c, "miss") => call[c].n = n /\ wrong[n] = MaxAttempts - 1
  /\ At(c, "drop") => call[c].n < n

\* A code that has not expired is deleted by a call that guessed it, or by one that
\* missed it for the last time: guesses at the code a resend has replaced do neither.
\* The exception is the DEL of an expired record, which does not compare: it may take a
\* newer code with it, but never a record that was live when the call read it.
LiveCodeKept ==
  [][\A u \in Users :
       code[u] # None /\ ~code[u].expired /\ code'[u] = None =>
         \E c \in Calls : call'[c] # call[c] /\ MayDelete(c, u, code[u].n)
    ]_code
=============================================================================
