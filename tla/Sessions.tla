---------------------------- MODULE Sessions ----------------------------
(***************************************************************************)
(* Session tokens and their rows: login, requireAuth, logout, revocation,  *)
(* and the rotation of the key that signs tokens, instance by instance.    *)
(* The clock ticks; a token and its row expire at the same tick, as they   *)
(* do when JWT_EXPIRES_IN is one the code can read.                        *)
(***************************************************************************)
EXTENDS ApiCalls

CONSTANTS
  Instances,  \* the API's instances, each with the environment it was started with
  Jtis,       \* bound: the jti values of the tokens made
  MaxKey,     \* bound: the keys, 0 the first
  MaxClock,   \* bound: the ticks
  Life,       \* JWT_EXPIRES_IN
  Window,     \* how far ahead JWT_PREVIOUS_SECRET_RETIRE_AT is set
  Rollout     \* how long a deployment of all instances takes

\* The rotation procedure asks for a window longer than a session's life.
ASSUME RotationAssumption ==
  /\ MaxKey \in Nat /\ MaxClock \in Nat /\ None \notin 0..MaxKey
  /\ Life \in Nat \ {0} /\ Rollout \in Nat /\ Window \in Nat
  /\ Window >= Life + Rollout
  /\ Users \subseteq Jtis

Keys == 0..MaxKey
Clock == 0..(MaxClock + Window)
Token == [sub: Users, key: Keys, iat: 0..MaxClock, jti: Jtis]
\* JWT_SECRET, JWT_PREVIOUS_SECRET and JWT_PREVIOUS_SECRET_RETIRE_AT.
Config == [key: Keys, prev: Keys \cup {None}, until: Clock]

VARIABLES
  clock,
  config,   \* the environment of each instance
  plan,     \* the environment being deployed
  begun,    \* when its deployment began
  burnt,    \* the keys taken out of use by an emergency rotation
  session,  \* the tokens of the Session rows
  ended     \* history: the tokens whose rows were deleted

keyVars == <<clock, config, plan, begun, burnt>>
sessionVars == <<keyVars, session, ended>>

SessionCall == [pc: {"session"}, user: Users, then: {"idle", "issue"}]
               \cup [pc: {"end"}, token: Token]

SessionTypeOK ==
  /\ clock \in 0..MaxClock
  /\ config \in [Instances -> Config]
  /\ plan \in Config
  /\ begun \in 0..MaxClock
  /\ burnt \subseteq Keys
  /\ session \subseteq Token
  /\ ended \subseteq Token

SessionInit ==
  /\ clock = 0
  /\ plan = [key |-> 0, prev |-> None, until |-> 0]
  /\ config = [i \in Instances |-> plan]
  /\ begun = 0
  /\ burnt = {}
  /\ session = {[sub |-> u, key |-> 0, iat |-> 0, jti |-> u] : u \in workload.residents}
  /\ ended = {}

Expires(t) == t.iat + Life

-----------------------------------------------------------------------------

previousSecretActive(i) == config[i].prev # None /\ config[i].until > clock

\* The bug of verifying with the current key alone.
VerifiesCurrent(i, t) == clock < Expires(t) /\ t.key = config[i].key

verifySessionToken(i, t) ==
  /\ clock < Expires(t)
  /\ t.key = config[i].key \/ (previousSecretActive(i) /\ t.key = config[i].prev)

\* requireAuth, and authenticateSocketToken: the token verifies and its row is there.
requireAuth(t) == t \in session /\ \E i \in Instances : verifySessionToken(i, t)

\* The bug of a token without jti: made twice in one second, it is the same token.
SignBare(u, k) == {[sub |-> u, key |-> k, iat |-> clock, jti |-> CHOOSE j \in Jtis : TRUE]}

\* A token of its own: jti is never one of another token's.
signSessionToken(u, k) ==
  {[sub |-> u, key |-> k, iat |-> clock, jti |-> j] :
     j \in {i \in Jtis : \A t \in session \cup ended : t.jti # i}}

\* login: the user is read and the password compared.
Login(c, u) ==
  /\ Free(c, "login") /\ Live(u)
  /\ Goto(c, [pc |-> "session", user |-> u, then |-> "idle"])
  /\ UNCHANGED <<sessionVars, workload, user>>

\* The token is signed and its row inserted, in one step, unless the user is gone or the
\* token is there already.
CreateSession(c) ==
  /\ At(c, "session")
  /\ LET u == call[c].user
     IN  \E i \in Instances : \E t \in signSessionToken(u, config[i].key) :
           IF Exists(u) /\ t \notin session
           THEN /\ session' = session \cup {t}
                /\ IF call[c].then = "idle" THEN Answer(c)
                   ELSE Goto(c, [pc |-> "issue", user |-> u])
           ELSE Answer(c) /\ UNCHANGED session
  /\ UNCHANGED <<keyVars, ended, workload, user>>

\* logout ends the caller's own session, revokeSession another one of the caller's.
EndSession(c, t, own) ==
  /\ Free(c, "logout") /\ requireAuth(own)
  /\ t \in session /\ t.sub = own.sub
  /\ Goto(c, [pc |-> "end", token |-> t])
  /\ UNCHANGED <<sessionVars, workload, user>>

DeleteSession(c) ==
  /\ At(c, "end")
  /\ session' = session \ {call[c].token}
  /\ ended' = ended \cup (session \cap {call[c].token})
  /\ Answer(c)
  /\ UNCHANGED <<keyVars, workload, user>>

\* The session rows of a user go with the account.
CascadeSessions(u) ==
  /\ session' = {t \in session : t.sub # u}
  /\ ended' = ended \cup {t \in session : t.sub = u}
  /\ UNCHANGED keyVars

-----------------------------------------------------------------------------
(* The operator's rotation, and time.                                      *)

Deployed(i) == config[i] = plan

\* A rotation opens a window on the old key, when that of the last one is over; in an
\* emergency no window is opened.
Rotate ==
  /\ "rotate" \in workload.ops
  /\ plan.key < MaxKey
  /\ \/ /\ \A i \in Instances : Deployed(i)
        /\ plan.until <= clock
        /\ plan' = [key |-> plan.key + 1, prev |-> plan.key, until |-> clock + Window]
        /\ UNCHANGED burnt
     \/ /\ plan' = [key |-> plan.key + 1, prev |-> None, until |-> 0]
        /\ burnt' = 0..plan.key
  /\ begun' = clock
  /\ UNCHANGED <<clock, config, session, ended, apiVars>>

\* An instance is started anew with the new environment.
Deploy(i) ==
  /\ ~Deployed(i)
  /\ config' = [config EXCEPT ![i] = plan]
  /\ UNCHANGED <<clock, plan, begun, burnt, session, ended, apiVars>>

\* A deployment is over Rollout ticks after it began.
Tick ==
  /\ "rotate" \in workload.ops
  /\ clock < MaxClock
  /\ (\A i \in Instances : Deployed(i)) \/ clock < begun + Rollout
  /\ clock' = clock + 1
  /\ UNCHANGED <<config, plan, begun, burnt, session, ended, apiVars>>

SessionNext ==
  \/ \E c \in Calls : \/ \E u \in Users : Login(c, u)
                      \/ \E t, own \in session : EndSession(c, t, own)
                      \/ CreateSession(c) \/ DeleteSession(c)
  \/ Rotate \/ Tick

-----------------------------------------------------------------------------
(* Properties.                                                             *)

\* A token whose session was ended is never a live session's again, so no login makes
\* it valid once more.
EndedStaysEnded == session \cap ended = {}

\* While instances are redeployed one by one, every instance with the new environment
\* accepts each unexpired session, whichever instance signed its token and whenever,
\* unless its key was taken out of use in an emergency: then it refuses it.
RotationHonoured ==
  \A i \in Instances, t \in session :
    Deployed(i) /\ clock < Expires(t) => (verifySessionToken(i, t) <=> t.key \notin burnt)
=============================================================================
