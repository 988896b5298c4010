---------------------------- MODULE ApiCalls ----------------------------
(***************************************************************************)
(* What the handlers of the HTTP API share: the users' rows, and the calls *)
(* at work.  A handler runs from one await to the next; a step below is    *)
(* the code between two awaits, and other calls run in between.  The       *)
(* components' modules extend this one, Platform puts them together.       *)
(***************************************************************************)
EXTENDS Naturals, FiniteSets

CONSTANTS
  Users,      \* the ids the database gives out, none of them twice
  Calls,      \* the calls at work at one time
  Workloads,  \* bound: what clients may do, see workload
  None

VARIABLES
  workload,   \* the operations clients call in this behaviour, the users there are at first
  user,       \* the state of each user's row
  call        \* what each call is about to do

ASSUME WorkloadAssumption == \A w \in Workloads : w.residents \subseteq Users

apiVars == <<workload, user, call>>

Idle == [pc |-> "idle"]

ApiInit ==
  /\ workload \in Workloads
  /\ user = [u \in Users |-> IF u \in workload.residents THEN "live" ELSE "unborn"]
  /\ call = [c \in Calls |-> Idle]

\* A user who may call: requireAuth asks for a session, and whoever has a row can log in.
Live(u) == user[u] = "live"

\* The bug of a schema without foreign keys.
ExistsUnchecked(u) == TRUE

\* A foreign key to User: an insert for a user who is gone fails.
Exists(u) == Live(u)

At(c, pc) == call[c].pc = pc
Free(c, op) == At(c, "idle") /\ op \in workload.ops
Goto(c, state) == call' = [call EXCEPT ![c] = state]
Answer(c) == Goto(c, Idle)

\* The process dies, or the database or Redis rejects the call's next step.
Breaks(c) ==
  /\ ~At(c, "idle")
  /\ Answer(c)
  /\ UNCHANGED <<workload, user>>
=============================================================================
