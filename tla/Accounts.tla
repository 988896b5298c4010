---------------------------- MODULE Accounts ----------------------------
(***************************************************************************)
(* Signup's rows, account ids and contacts.                                *)
(***************************************************************************)
EXTENDS ApiCalls

CONSTANTS
  Emails,
  AccountIds,   \* the ten-digit ids generateAccountId may come up with
  ContactRows, Names,
  IdAttempts    \* the candidates createAccountId tries, 5 in the code

Contact == [owner: Users, name: Names, id: AccountIds, live: BOOLEAN]

ASSUME AccountsAssumption ==
  IdAttempts \in Nat \ {0} /\ None \notin Emails /\ None \notin AccountIds /\ None \notin Contact

VARIABLES
  email,      \* the e-mail of each user
  accountId,  \* the account id of each user, None without one
  contact     \* the Contact rows; the id of a removed one is not used again

accountVars == <<email, accountId, contact>>

AccountCall == [pc: {"insert"}, email: Emails]
               \cup [pc: {"candidate"}, user: Users, left: 1..IdAttempts]
               \cup [pc: {"claim"}, user: Users, id: AccountIds]
               \cup [pc: {"add"}, user: Users, name: Names, id: AccountIds]
               \cup [pc: {"patch"}, row: ContactRows, name: Names \cup {None}, id: AccountIds \cup {None}]

AccountTypeOK ==
  /\ email \in [Users -> Emails \cup {None}]
  /\ accountId \in [Users -> AccountIds \cup {None}]
  /\ contact \in [ContactRows -> Contact \cup {None}]

AccountInit ==
  /\ email \in [Users -> Emails \cup {None}]
  /\ \A u \in Users : email[u] = None <=> ~Live(u)
  /\ \A u, v \in Users : email[u] = email[v] => u = v \/ email[u] = None
  /\ accountId = [u \in Users |-> None]
  /\ contact = [k \in ContactRows |-> None]

-----------------------------------------------------------------------------

\* signup: the look-up, the hash of the password, the insert.
Signup(c) ==
  /\ Free(c, "signup")
  /\ \E e \in Emails :
       /\ \A u \in Users : email[u] # e
       /\ Goto(c, [pc |-> "insert", email |-> e])
  /\ UNCHANGED <<accountVars, workload, user>>

\* The unique index on User.email.
FreeEmail(e) == \A u \in Users : email[u] # e

\* A session and a code follow the new row.  The phone number, looked up and unique as
\* the e-mail is, is left out.
InsertUser(c) ==
  /\ At(c, "insert")
  /\ LET e == call[c].email
     IN  IF FreeEmail(e)
         THEN \E u \in Users :
                /\ user[u] = "unborn"
                /\ user' = [user EXCEPT ![u] = "live"]
                /\ email' = [email EXCEPT ![u] = e]
                /\ Goto(c, [pc |-> "session", user |-> u, then |-> "issue"])
         ELSE Answer(c) /\ UNCHANGED <<user, email>>
  /\ UNCHANGED <<accountId, contact, workload>>

Taken(id) == \E u \in Users : accountId[u] = id

CreateAccountId(c, u) ==
  /\ Free(c, "account") /\ Live(u) /\ accountId[u] = None
  /\ Goto(c, [pc |-> "candidate", user |-> u, left |-> IdAttempts])
  /\ UNCHANGED <<accountVars, workload, user>>

\* A candidate is looked up; a taken one is followed by another, or by 500.
TryAccountId(c) ==
  /\ At(c, "candidate")
  /\ \E id \in AccountIds :
       IF ~Taken(id) THEN Goto(c, [pc |-> "claim", user |-> call[c].user, id |-> id])
       ELSE IF call[c].left = 1 THEN Answer(c)
       ELSE Goto(c, [call[c] EXCEPT !.left = @ - 1])
  /\ UNCHANGED <<accountVars, workload, user>>

\* The insert: userId and accountId are unique.
ClaimAccountId(c) ==
  /\ At(c, "claim")
  /\ LET u == call[c].user  id == call[c].id
     IN  accountId' = IF Exists(u) /\ accountId[u] = None /\ ~Taken(id)
                      THEN [accountId EXCEPT ![u] = id] ELSE accountId
  /\ Answer(c)
  /\ UNCHANGED <<email, contact, workload, user>>

-----------------------------------------------------------------------------
(* Contacts; ownerId is no foreign key.                                    *)

Mine(k, u) == contact[k] # None /\ contact[k].live /\ contact[k].owner = u

\* The bug of letting an owner use a name twice.
AnyName(k, u, n) == TRUE

\* The unique index on (ownerId, name).
UniqueName(k, u, n) == \A o \in ContactRows \ {k} : ~(Mine(o, u) /\ contact[o].name = n)

\* create: the account id is looked up, then the row inserted.
AddContact(c, u) ==
  /\ Free(c, "contact") /\ Live(u)
  /\ \E n \in Names, id \in AccountIds :
       /\ Taken(id)
       /\ Goto(c, [pc |-> "add", user |-> u, name |-> n, id |-> id])
  /\ UNCHANGED <<accountVars, workload, user>>

InsertContact(c) ==
  /\ At(c, "add")
  /\ LET new == call[c]
     IN  \E k \in ContactRows :
           /\ contact[k] = None
           /\ contact' = IF ~UniqueName(k, new.user, new.name) THEN contact
                         ELSE [contact EXCEPT ![k] = [owner |-> new.user, name |-> new.name,
                                                      id |-> new.id, live |-> TRUE]]
  /\ Answer(c)
  /\ UNCHANGED <<email, accountId, workload, user>>

\* update: the caller's own row is read, and a new account id looked up.
PatchContact(c, u) ==
  /\ Free(c, "contact") /\ Live(u)
  /\ \E k \in ContactRows, n \in Names \cup {None}, id \in AccountIds \cup {None} :
       /\ Mine(k, u)
       /\ id # None => Taken(id)
       /\ Goto(c, [pc |-> "patch", row |-> k, name |-> n, id |-> id])
  /\ UNCHANGED <<accountVars, workload, user>>

\* Only the fields given are written; the row's owner is not looked at again.
UpdateContact(c) ==
  /\ At(c, "patch")
  /\ LET k == call[c].row  n == call[c].name  id == call[c].id
     IN  contact' = IF contact[k].live /\ (n = None \/ UniqueName(k, contact[k].owner, n))
                    THEN [contact EXCEPT ![k].name = IF n = None THEN @ ELSE n,
                                         ![k].id = IF id = None THEN @ ELSE id]
                    ELSE contact
  /\ Answer(c)
  /\ UNCHANGED <<email, accountId, workload, user>>

RemoveContact(c, u) ==
  /\ Free(c, "contact") /\ Live(u)
  /\ \E k \in ContactRows : Mine(k, u) /\ contact' = [contact EXCEPT ![k].live = FALSE]
  /\ UNCHANGED <<email, accountId, apiVars>>

\* What goes with the account; contacts stay.
CascadeAccount(u) ==
  /\ accountId' = [accountId EXCEPT ![u] = None]
  /\ email' = [email EXCEPT ![u] = None]
  /\ UNCHANGED contact

AccountNext ==
  \E c \in Calls :
    \/ Signup(c) \/ InsertUser(c) \/ TryAccountId(c) \/ ClaimAccountId(c)
    \/ InsertContact(c) \/ UpdateContact(c)
    \/ \E u \in Users : CreateAccountId(c, u) \/ AddContact(c, u) \/ PatchContact(c, u)
                        \/ RemoveContact(c, u)
=============================================================================
