-------------------------------- MODULE Accounts --------------------------------
(***************************************************************************)
(* Who a request acts for.  Four programs find, create and change rows of  *)
(* the table users, each with a rule of its own:                           *)
(*   - Cognito's trigger at the end of a sign-up                           *)
(*     (storefront/handlers/common/cognito_trigger.py) and the storefront  *)
(*     Lambdas (services/auth_service.py, handlers/auth_handler.py and     *)
(*     addresses_handler.py) find it by the Cognito identity and insert it *)
(*     when it is missing;                                                 *)
(*   - the FastAPI service (app/api/auth.py, deps.py) finds it by e-mail   *)
(*     for a login and by the id in the token afterwards;                  *)
(*   - the admin Lambdas (admin_api/services/auth_service.py) find it by   *)
(*     the identity and never insert it, and staff edit and delete any     *)
(*     row through the resource users.                                     *)
(* Statements commit by themselves; no row is locked.  What the other      *)
(* endpoints do once the account is known is in Carts, OrderDesk and       *)
(* ResourceService, the audit record of an edit in the last.               *)
(***************************************************************************)
EXTENDS Integers, Sequences

CONSTANTS
    People,         \* an identity in the user pools, and what it signs in with
    Emails, Roles,
    Email,          \* person |-> e-mail
    FirstUsers,     \* the rows of users at the start, a sequence
    Requests,
    Workloads,      \* request |-> [who, op, values]
    MaxRows,        \* bound: ids of users are 1 .. MaxRows
    MaxFailures,    \* bound: requests that are refused as such, or die
    None

StorefrontOps == {"me", "rename", "list addresses", "create address", "deliver"}
AppOps        == {"app me", "app ship"}
StaffOps      == {"staff me", "edit", "remove"}

Ops           == StorefrontOps \cup AppOps \cup StaffOps \cup {"confirm", "login"}

\* is_active may be null, and so may the identity.
UserRow ==
    [sub : People \cup {None}, email : Emails, role : Roles, active : BOOLEAN \cup {None},
     password : BOOLEAN, name : Requests \cup {None}]

\* The unique columns; null is not equal to null.
Unique(table) ==
    \A i, j \in DOMAIN table : table[i] # None /\ table[j] # None /\ i # j =>
        table[i].email # table[j].email /\ (table[i].sub = table[j].sub => table[i].sub = None)

\* What staff may write of a user: the columns that are writable.
Editable(values) ==
    /\ DOMAIN values \subseteq {"email", "role", "active"}
    /\ "email" \in DOMAIN values => values["email"] \in Emails
    /\ "role" \in DOMAIN values => values["role"] \in Roles
    /\ "active" \in DOMAIN values => values["active"] \in BOOLEAN \cup {None}

ASSUME AccountAssumption ==
    /\ MaxRows \in Nat /\ MaxFailures \in Nat
    /\ None \notin People \cup Requests \cup UserRow
    /\ Email \in [People -> Emails] /\ "customer" \in Roles
    /\ FirstUsers \in Seq(UserRow) /\ Len(FirstUsers) <= MaxRows /\ Unique(FirstUsers)
    /\ \A w \in Workloads : \A r \in Requests :
         w[r].who \in People /\ w[r].op \in Ops /\ Editable(w[r].values)

VARIABLES
    users,      \* id |-> its row, None without one
    lastUser,   \* the sequence the ids come from
    addresses,  \* the request that created it and the id of the user it is for
    token,      \* person |-> the user id in the app's token, 0 without one
    req,        \* request |-> where it is, the row it read, its answer
    failures,
    task,       \* the workload of this run
    barred,     \* users staff have deactivated
    readmitted  \* users activated again, by staff or by the save of a row that
                \* was read before the deactivation

tables == <<users, lastUser, addresses, token>>
vars   == <<tables, req, failures, task, barred, readmitted>>

Ids == 1 .. MaxRows

User(sub, email, role, active, password) ==
    [sub |-> sub, email |-> email, role |-> role, active |-> active, password |-> password, name |-> None]

Address(r, id) == [by |-> r, owner |-> id]

\* id and row: the account the request acts for, as it was read.
Idle(at, answer) ==
    [at |-> at, id |-> 0, row |-> None, answer |-> answer, shown |-> {}, barred |-> {}, known |-> {}]
Busy == {"identifying", "provisioning", "acting"}

AddressRow == [by : Requests, owner : Ids]
Request ==
    [at : Busy \cup {"new", "done"}, id : 0 .. MaxRows, row : UserRow \cup {None},
     answer : {0, 200, 201, 400, 401, 403, 404, 409, 422, 500},
     shown : SUBSET AddressRow, barred : SUBSET Ids, known : SUBSET AddressRow]

\* Type invariant, with the unique columns and the foreign key of addresses.
TypeOK ==
    /\ users \in [Ids -> UserRow \cup {None}] /\ Unique(users)
    /\ lastUser \in 0 .. MaxRows
    /\ \A i \in Ids : users[i] # None => i <= lastUser
    /\ addresses \subseteq AddressRow
    /\ \A a \in addresses : users[a.owner] # None
    /\ token \in [People -> 0 .. lastUser]
    /\ req \in [Requests -> Request]
    /\ \A r \in Requests :
         req[r].at = "acting" => req[r].id \in 1 .. lastUser /\ req[r].row # None
    /\ failures \in 0 .. MaxFailures /\ task \in Workloads
    /\ barred \subseteq 1 .. lastUser /\ readmitted \subseteq 1 .. lastUser

Init ==
    /\ users = [i \in Ids |-> IF i <= Len(FirstUsers) THEN FirstUsers[i] ELSE None]
    /\ lastUser = Len(FirstUsers)
    /\ addresses = {}
    /\ token = [p \in People |-> 0]
    /\ req = [r \in Requests |-> Idle("new", 0)]
    /\ failures = 0
    /\ task \in Workloads
    /\ barred = {} /\ readmitted = {}
-----------------------------------------------------------------------------
Who(r) == task[r].who
Op(r)  == task[r].op

WithSub(p)   == {i \in Ids : users[i] # None /\ users[i].sub = p}
WithEmail(e) == {i \in Ids : users[i] # None /\ users[i].email = e}

Quietly == UNCHANGED <<tables, failures, task, barred, readmitted>>

\* An answer, with what it shows; id is the account it was given to.
Reply(r, id, code, shown) ==
    req' = [req EXCEPT ![r].at = "done", ![r].id = id, ![r].row = None,
                       ![r].answer = code, ![r].shown = shown]
Anonymous(r, code) == Reply(r, 0, code, {})
Act(r, id, row) == req' = [req EXCEPT ![r].at = "acting", ![r].id = id, ![r].row = row]

\* A request comes in.
Receive(r) ==
    /\ req[r].at = "new" /\ Op(r) \notin AppOps \cup {"login"}
    /\ req' = [req EXCEPT ![r].at = "identifying", ![r].barred = barred,
                          ![r].known = {a \in addresses : Who(a.by) = Who(r) /\ req[a.by].answer = 201}]
    /\ Quietly

\* A token that is missing, expired or without a subject.
TurnAway(r) ==
    /\ req[r].at = "new" /\ Op(r) \notin {"confirm", "login"} /\ failures < MaxFailures
    /\ Anonymous(r, 401)
    /\ failures' = failures + 1
    /\ UNCHANGED <<tables, task, barred, readmitted>>
-----------------------------------------------------------------------------
\* No row has the identity yet.
Missing(r) == req' = [req EXCEPT ![r].at = "provisioning"]

\* Mutant of Identify: the account may be inactive.
IdentifyInactiveToo(r) ==
    /\ req[r].at = "identifying" /\ Op(r) \in StorefrontOps
    /\ IF WithSub(Who(r)) = {} THEN Missing(r)
       ELSE \E i \in WithSub(Who(r)) : Act(r, i, users[i])
    /\ Quietly

\* resolve_user lets null pass as active.
Identify(r) ==
    /\ req[r].at = "identifying" /\ Op(r) \in StorefrontOps
    /\ IF WithSub(Who(r)) = {} THEN Missing(r)
       ELSE \E i \in WithSub(Who(r)) :
              IF users[i].active = FALSE THEN Anonymous(r, 401) ELSE Act(r, i, users[i])
    /\ Quietly

\* The trigger, after which Cognito has what it wants whoever the row is.
Confirm(r) ==
    /\ req[r].at = "identifying" /\ Op(r) = "confirm"
    /\ IF WithSub(Who(r)) = {} THEN Missing(r) ELSE Anonymous(r, 200)
    /\ Quietly

NewUser(r) == User(Who(r), Email[Who(r)], "customer", TRUE, FALSE)

Insert(r) ==
    /\ lastUser < MaxRows
    /\ lastUser' = lastUser + 1
    /\ users' = [users EXCEPT ![lastUser'] = NewUser(r)]
    /\ IF Op(r) = "confirm" THEN Anonymous(r, 200) ELSE Act(r, lastUser', NewUser(r))

\* Mutant of Provision: the table takes an identity it has.
ProvisionSubAgain(r) ==
    /\ req[r].at = "provisioning"
    /\ Insert(r)
    /\ UNCHANGED <<addresses, token, failures, task, barred, readmitted>>

\* create_from_cognito: identity and e-mail are unique, and the one who comes
\* second gets an error.
Provision(r) ==
    /\ req[r].at = "provisioning"
    /\ IF WithSub(Who(r)) \cup WithEmail(Email[Who(r)]) # {}
       THEN Anonymous(r, 500) /\ UNCHANGED <<users, lastUser>>
       ELSE Insert(r)
    /\ UNCHANGED <<addresses, token, failures, task, barred, readmitted>>
-----------------------------------------------------------------------------
Acting(r, op) == req[r].at = "acting" /\ Op(r) = op

\* The customer's profile, as it was read.
Me(r) == Acting(r, "me") /\ Reply(r, req[r].id, 200, {}) /\ Quietly

\* An UPDATE of row i to this row, which may admit again who was deactivated,
\* and the error when somebody else has the e-mail.
Stored(i, row) ==
    /\ users' = [users EXCEPT ![i] = row]
    /\ readmitted' = IF users[i].active = FALSE /\ row.active # FALSE
                     THEN readmitted \cup {i} ELSE readmitted
Taken(i, row) == WithEmail(row.email) \ {i} # {}

\* _update_me: save() writes every column of the row that was read; a row that
\* is gone is not missed.
Rename(r) ==
    /\ Acting(r, "rename")
    /\ \/ Anonymous(r, 422) /\ UNCHANGED <<users, readmitted>>
       \/ LET i == req[r].id
              row == [req[r].row EXCEPT !.name = r]
          IN IF users[i] = None THEN Reply(r, i, 200, {}) /\ UNCHANGED <<users, readmitted>>
             ELSE IF Taken(i, row) THEN Anonymous(r, 500) /\ UNCHANGED <<users, readmitted>>
             ELSE Reply(r, i, 200, {}) /\ Stored(i, row)
    /\ UNCHANGED <<lastUser, addresses, token, failures, task, barred>>

ListAddresses(r) ==
    /\ Acting(r, "list addresses")
    /\ Reply(r, req[r].id, 200, {a \in addresses : a.owner = req[r].id})
    /\ Quietly

\* Mutant of CreateAddress: no foreign key.
CreateAddressUnchecked(r) ==
    /\ Acting(r, "create address")
    /\ \/ Anonymous(r, 422) /\ UNCHANGED addresses
       \/ LET a == Address(r, req[r].id) IN addresses' = addresses \cup {a} /\ Reply(r, req[r].id, 201, {a})
    /\ UNCHANGED <<users, lastUser, token, failures, task, barred, readmitted>>

\* _create_address: the user may have been deleted meanwhile.
CreateAddress(r) ==
    /\ Acting(r, "create address")
    /\ \/ Anonymous(r, 422) /\ UNCHANGED addresses
       \/ users[req[r].id] = None /\ Anonymous(r, 500) /\ UNCHANGED addresses
       \/ /\ users[req[r].id] # None
          /\ LET a == Address(r, req[r].id) IN addresses' = addresses \cup {a} /\ Reply(r, req[r].id, 201, {a})
    /\ UNCHANGED <<users, lastUser, token, failures, task, barred, readmitted>>

\* get_address, for a checkout: the id comes with the request and may be
\* anybody's.
Deliver(r) ==
    /\ Acting(r, "deliver")
    /\ \/ Anonymous(r, 400)
       \/ \E a \in addresses : a.owner = req[r].id /\ Reply(r, req[r].id, 201, {a})
    /\ Quietly
-----------------------------------------------------------------------------
\* login: an account of Cognito has no password.
Login(r) ==
    /\ req[r].at = "new" /\ Op(r) = "login"
    /\ \/ Anonymous(r, 401) /\ UNCHANGED token
       \/ \E i \in WithEmail(Email[Who(r)]) :
            /\ users[i].active # FALSE /\ users[i].password
            /\ token' = [token EXCEPT ![Who(r)] = i]
            /\ Anonymous(r, 200)
    /\ UNCHANGED <<users, lastUser, addresses, failures, task, barred, readmitted>>

\* get_current_user and require_role go by the row and not by what the token
\* said of it.
AppRequest(r) ==
    /\ req[r].at = "new" /\ Op(r) \in AppOps
    /\ LET i == token[Who(r)] IN
         req' = [req EXCEPT ![r] =
           [Idle("done", IF i = 0 \/ users[i] = None THEN 401
                         ELSE IF users[i].active = FALSE THEN 401
                         ELSE IF Op(r) = "app ship" /\ users[i].role # "admin" THEN 403
                         ELSE 200) EXCEPT !.id = i, !.barred = barred]]
    /\ Quietly
-----------------------------------------------------------------------------
\* resolve_staff_user: nobody is provisioned, and null is not active.  The
\* group comes with the token.
IdentifyStaff(r) ==
    /\ req[r].at = "identifying" /\ Op(r) \in StaffOps
    /\ \/ WithSub(Who(r)) = {} /\ Anonymous(r, 401)
       \/ \E i \in WithSub(Who(r)) :
            IF users[i].active # TRUE THEN Anonymous(r, 401)
            ELSE \/ Act(r, i, users[i])
                 \/ Op(r) # "staff me" /\ Anonymous(r, 403)
    /\ Quietly

StaffMe(r) == Acting(r, "staff me") /\ Reply(r, req[r].id, 200, {}) /\ Quietly

Edited(row, values) == [c \in DOMAIN row |-> IF c \in DOMAIN values THEN values[c] ELSE row[c]]

\* An UPDATE of the columns the request names, and of no other.
Edit(r) ==
    /\ Acting(r, "edit")
    /\ \E i \in Ids :
         IF users[i] = None THEN Anonymous(r, 404) /\ UNCHANGED <<users, barred, readmitted>>
         ELSE LET row == Edited(users[i], task[r].values) IN
              IF Taken(i, row) THEN Anonymous(r, 409) /\ UNCHANGED <<users, barred, readmitted>>
              ELSE /\ Stored(i, row)
                   /\ barred' = IF row.active = FALSE THEN barred \cup {i} ELSE barred
                   /\ Reply(r, req[r].id, 200, {})
    /\ UNCHANGED <<lastUser, addresses, token, failures, task>>

\* A user with addresses cannot be deleted.
RemoveUser(r) ==
    /\ Acting(r, "remove")
    /\ \E i \in Ids :
         IF users[i] = None THEN Anonymous(r, 404) /\ UNCHANGED users
         ELSE IF \E a \in addresses : a.owner = i THEN Anonymous(r, 409) /\ UNCHANGED users
         ELSE users' = [users EXCEPT ![i] = None] /\ Reply(r, req[r].id, 200, {})
    /\ UNCHANGED <<lastUser, addresses, token, failures, task, barred, readmitted>>
-----------------------------------------------------------------------------
\* The Lambda dies or a statement fails.
Fail(r) ==
    /\ req[r].at \in Busy /\ failures < MaxFailures
    /\ failures' = failures + 1
    /\ Anonymous(r, 500)
    /\ UNCHANGED <<tables, task, barred, readmitted>>

Next ==
    \E r \in Requests :
        \/ Receive(r) \/ TurnAway(r) \/ Identify(r) \/ Confirm(r) \/ Provision(r)
        \/ Me(r) \/ Rename(r) \/ ListAddresses(r) \/ CreateAddress(r) \/ Deliver(r)
        \/ Login(r) \/ AppRequest(r)
        \/ IdentifyStaff(r) \/ StaffMe(r) \/ Edit(r) \/ RemoveUser(r)
        \/ Fail(r)

Spec == Init /\ [][Next]_vars
-----------------------------------------------------------------------------
Succeeded(r) == req[r].answer \in {200, 201}

\* Who was deactivated before a request came in and was not readmitted is not
\* served, by whichever of the programs and however old the token is.  (A rename
\* under way can readmit: it saves the row it read before.)
DeactivatedStaysOut ==
    \A r \in Requests : Succeeded(r) => req[r].id \notin req[r].barred \ readmitted

\* A customer has one account, however many first requests race the trigger:
\* the list has every address the customer was told is stored, and what is
\* listed or delivered to is the customer's own.
AddressesAreFound ==
    \A r \in Requests :
        Succeeded(r) =>
            /\ Op(r) = "list addresses" => req[r].known \subseteq req[r].shown
            /\ \A a \in req[r].shown : Who(a.by) = Who(r)
=============================================================================
