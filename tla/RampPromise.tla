-------------------------- MODULE RampPromise --------------------------
(***************************************************************************)
(* What a user is promised of the status of a deposit or withdrawal: a     *)
(* shown status only moves forward, unless the writer that moves it back   *)
(* had looked at the row before its last change (the row is contested),    *)
(* and COMPLETED is shown only of money the provider has announced.        *)
(***************************************************************************)
EXTENDS Naturals

CONSTANTS Rows, None

VARIABLES
  shown,      \* the status a user is shown, None without a row
  announced,  \* the rows whose money the provider has moved, or was understood to have
  contested   \* the rows a writer with an older view is about to write

promiseVars == <<shown, announced, contested>>

Order == [PENDING |-> 0, PROCESSING |-> 1, FAILED |-> 2, COMPLETED |-> 3]

PromiseInit ==
  /\ shown = [r \in Rows |-> None]
  /\ announced = {}
  /\ contested = {}

\* Which rows are contested is the writers' affair.
Show(r) ==
  /\ \E s \in DOMAIN Order \cup {None} :
       /\ shown' = [shown EXCEPT ![r] = s]
       /\ shown[r] = None => s = "PENDING"
       /\ s = "COMPLETED" => r \in announced
       /\ (shown[r] # None /\ s # None) => (Order[shown[r]] <= Order[s] \/ r \in contested)
  /\ UNCHANGED announced
  /\ contested' \subseteq Rows

Settle ==
  /\ announced \subseteq announced' /\ announced' \subseteq Rows
  /\ UNCHANGED shown
  /\ contested' \subseteq Rows

PromiseNext == Settle \/ \E r \in Rows : Show(r)

PromiseSpec == PromiseInit /\ [][PromiseNext]_promiseVars
=============================================================================
