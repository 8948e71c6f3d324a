----------------------------- MODULE AccountsProofs -----------------------------
(***************************************************************************)
(* Nobody acts for an account that is not theirs, whichever program they   *)
(* reach it through and however its row is created, renamed, edited or     *)
(* removed while a request is under way.                                   *)
(***************************************************************************)
EXTENDS Accounts, TLAPS

\* Whoever is deactivated and not readmitted is inactive or gone, and an
\* address belongs to the identity that entered it.
TablesInv ==
    /\ \A i \in barred \ readmitted : users[i] = None \/ users[i].active = FALSE
    /\ \A a \in addresses : users[a.owner].sub = Who(a.by)

\* A request that acts for a customer acts for the row of its identity, which
\* has all addresses the customer had been told of.
ActsForItself(r) ==
    /\ req[r].row.sub = Who(r) /\ req[r].row.active # FALSE
    /\ users[req[r].id] # None => users[req[r].id].sub = Who(r)
    /\ \A a \in req[r].known : a.owner = req[r].id

Found(r) ==
    /\ Op(r) = "list addresses" => req[r].known \subseteq req[r].shown
    /\ \A a \in req[r].shown : Who(a.by) = Who(r)

RequestInv(r) ==
    /\ req[r].at # "done" => req[r].answer = 0
    /\ req[r].barred \subseteq barred
    /\ req[r].known \subseteq addresses
    /\ \A a \in req[r].known : Who(a.by) = Who(r)
    /\ req[r].at = "acting" \/ Succeeded(r) => req[r].id \notin req[r].barred \ readmitted
    /\ req[r].at = "acting" /\ Op(r) \in StorefrontOps => ActsForItself(r)
    /\ Succeeded(r) => Found(r)

IInv == TypeOK /\ TablesInv /\ \A r \in Requests : RequestInv(r)
-----------------------------------------------------------------------------
\* What every step leaves: ids are never given again and identities never
\* change, and addresses and the record of deactivations only grow.
Grows ==
    /\ task' = task /\ lastUser <= lastUser'
    /\ addresses \subseteq addresses' /\ barred \subseteq barred' /\ readmitted \subseteq readmitted'
    /\ \A i \in 1 .. lastUser :
         users'[i] # None => users[i] # None /\ users'[i].sub = users[i].sub

Codes == {0, 200, 201, 400, 401, 403, 404, 409, 422, 500}

OthersWait(r) == \A s \in Requests : s # r => req'[s] = req[s]

LEMMA Bounds == MaxRows \in Nat /\ MaxFailures \in Nat /\ 0 \in 0 .. MaxRows
BY AccountAssumption

Lists(r) == Op(r) = "list addresses"

\* An answer that shows nothing.
Answers(r, id, code) == Reply(r, id, code, {})

LEMMA NobodyIsZero == TypeOK => 0 \notin barred
<1> SUFFICES ASSUME TypeOK PROVE 0 \notin barred
  OBVIOUS
<1>1. lastUser \in Nat /\ barred \subseteq 1 .. lastUser
  BY Bounds DEF TypeOK
<1> QED BY <1>1

LEMMA RequestKept ==
    ASSUME IInv, Grows, NEW s \in Requests, req'[s] = req[s]
    PROVE  RequestInv(s)'
<1>1. RequestInv(s)
  BY DEF IInv
<1>2. Who(s)' = Who(s) /\ Op(s)' = Op(s) /\ (\A a : Who(a.by)' = Who(a.by))
  BY DEF Grows, Who, Op
<1>3. req[s].at = "acting" => req[s].id \in 1 .. lastUser
  BY DEF IInv, TypeOK
<1>4. ASSUME req[s].at = "acting", Op(s) \in StorefrontOps PROVE ActsForItself(s)'
  <2>1. ActsForItself(s)
    BY <1>1, <1>4 DEF RequestInv
  <2> QED BY <1>2, <1>3, <1>4, <2>1 DEF ActsForItself, Grows
<1>5. Succeeded(s) => Found(s)'
  BY <1>1, <1>2 DEF RequestInv, Found
<1>6. req[s].barred \subseteq barred' /\ req[s].known \subseteq addresses'
  BY <1>1 DEF RequestInv, Grows
<1>7. req[s].at = "acting" \/ Succeeded(s) => req[s].id \notin req[s].barred \ readmitted'
  BY <1>1 DEF RequestInv, Grows
<1> QED BY <1>1, <1>2, <1>4, <1>5, <1>6, <1>7 DEF RequestInv, Succeeded

LEMMA StepKept ==
    ASSUME IInv, NEW r \in Requests, Grows, OthersWait(r),
           TypeOK', TablesInv', RequestInv(r)'
    PROVE  IInv'
<1>1. \A s \in Requests : RequestInv(s)'
  BY RequestKept DEF OthersWait
<1> QED BY <1>1 DEF IInv

\* A step that only moves its own request.
LEMMA QuietKept ==
    ASSUME IInv, NEW r \in Requests, OthersWait(r), req' \in [Requests -> Request],
           UNCHANGED <<users, lastUser, addresses, task, barred, readmitted>>,
           token' \in [People -> 0 .. lastUser], failures' \in 0 .. MaxFailures,
           req'[r].at = "acting" => req'[r].id \in 1 .. lastUser /\ req'[r].row # None,
           RequestInv(r)'
    PROVE  IInv'
<1>1. Grows
  BY DEF IInv, TypeOK, Grows
<1>2. TypeOK'
  BY DEF IInv, TypeOK, OthersWait, Unique, Ids
<1>3. TablesInv'
  BY DEF IInv, TablesInv, Who
<1> QED BY <1>1, <1>2, <1>3, StepKept

LEMMA RequestFields ==
    ASSUME NEW x \in Request
    PROVE  /\ \A v \in Busy \cup {"new", "done"} : [x EXCEPT !.at = v] \in Request
           /\ \A v \in 0 .. MaxRows : [x EXCEPT !.id = v] \in Request
           /\ \A v \in UserRow \cup {None} : [x EXCEPT !.row = v] \in Request
           /\ \A v \in Codes : [x EXCEPT !.answer = v] \in Request
           /\ \A v \in SUBSET AddressRow : [x EXCEPT !.shown = v] \in Request
           /\ \A v \in SUBSET Ids : [x EXCEPT !.barred = v] \in Request
           /\ \A v \in SUBSET AddressRow : [x EXCEPT !.known = v] \in Request
<1>1. \A v \in Busy \cup {"new", "done"} : [x EXCEPT !.at = v] \in Request
  BY DEF Request
<1>2. \A v \in 0 .. MaxRows : [x EXCEPT !.id = v] \in Request
  BY DEF Request
<1>3. \A v \in UserRow \cup {None} : [x EXCEPT !.row = v] \in Request
  BY DEF Request
<1>4. \A v \in Codes : [x EXCEPT !.answer = v] \in Request
  BY DEF Request, Codes
<1>5. \A v \in SUBSET AddressRow : [x EXCEPT !.shown = v] \in Request
  BY DEF Request
<1>6. \A v \in SUBSET Ids : [x EXCEPT !.barred = v] \in Request
  BY DEF Request
<1>7. \A v \in SUBSET AddressRow : [x EXCEPT !.known = v] \in Request
  BY DEF Request
<1> QED BY <1>1, <1>2, <1>3, <1>4, <1>5, <1>6, <1>7

LEMMA Answered ==
    ASSUME TypeOK, NEW r \in Requests, NEW id \in 0 .. MaxRows, NEW code \in Codes,
           NEW shows \in SUBSET AddressRow, Reply(r, id, code, shows)
    PROVE  /\ req' \in [Requests -> Request] /\ OthersWait(r)
           /\ req'[r].at = "done" /\ req'[r].id = id /\ req'[r].answer = code
           /\ req'[r].shown = shows
           /\ req'[r].barred = req[r].barred /\ req'[r].known = req[r].known
<1>1. req \in [Requests -> Request] /\ req[r] \in Request
  BY DEF TypeOK
<1> DEFINE q1 == [req[r] EXCEPT !.at = "done"]
           q2 == [q1 EXCEPT !.id = id]
           q3 == [q2 EXCEPT !.row = None]
           q4 == [q3 EXCEPT !.answer = code]
           q5 == [q4 EXCEPT !.shown = shows]
<1>2. q1 \in Request
  BY <1>1, RequestFields
<1>3. q2 \in Request
  <2> HIDE DEF q1
  <2> QED BY <1>2, RequestFields
<1>4. q3 \in Request
  <2> HIDE DEF q2
  <2> QED BY <1>3, RequestFields
<1>5. q4 \in Request
  <2> HIDE DEF q3
  <2> QED BY <1>4, RequestFields
<1>6. q5 \in Request
  <2> HIDE DEF q4
  <2> QED BY <1>5, RequestFields
<1>7. req' = [req EXCEPT ![r] = q5]
  BY <1>1, Zenon DEF Reply
<1>8. req' \in [Requests -> Request] /\ OthersWait(r)
  <2> HIDE DEF q5
  <2> QED BY <1>1, <1>6, <1>7 DEF OthersWait
<1> QED BY <1>1, <1>8 DEF Reply, Request

LEMMA Engaged ==
    ASSUME TypeOK, NEW r \in Requests, NEW id \in 0 .. MaxRows, NEW row \in UserRow, Act(r, id, row)
    PROVE  /\ req' \in [Requests -> Request] /\ OthersWait(r)
           /\ req'[r].at = "acting" /\ req'[r].id = id /\ req'[r].row = row
           /\ req'[r].answer = req[r].answer /\ req'[r].shown = req[r].shown
           /\ req'[r].barred = req[r].barred /\ req'[r].known = req[r].known
<1>1. req \in [Requests -> Request] /\ req[r] \in Request
  BY DEF TypeOK
<1> DEFINE q1 == [req[r] EXCEPT !.at = "acting"]
           q2 == [q1 EXCEPT !.id = id]
           q3 == [q2 EXCEPT !.row = row]
<1>2. q1 \in Request
  BY <1>1, RequestFields DEF Busy
<1>3. q2 \in Request
  <2> HIDE DEF q1
  <2> QED BY <1>2, RequestFields
<1>4. q3 \in Request
  <2> HIDE DEF q2
  <2> QED BY <1>3, RequestFields
<1>5. req' = [req EXCEPT ![r] = q3]
  BY <1>1, Zenon DEF Act
<1>6. req' \in [Requests -> Request] /\ OthersWait(r)
  <2> HIDE DEF q3
  <2> QED BY <1>1, <1>4, <1>5 DEF OthersWait
<1> QED BY <1>1, <1>6 DEF Act, Request

\* An answer to nobody in particular, or to the account
\* the request acts for.
LEMMA AnswerKept ==
    ASSUME IInv, NEW r \in Requests, NEW id \in 0 .. MaxRows, NEW code \in Codes,
           Answers(r, id, code),
           id = 0 \/ (req[r].at = "acting" /\ id = req[r].id),
           code \in {200, 201} => ~Lists(r),
           Grows
    PROVE  RequestInv(r)' /\ req' \in [Requests -> Request] /\ OthersWait(r) /\ req'[r].at = "done"
<1>1. RequestInv(r) /\ TypeOK
  BY DEF IInv
<1>2. {} \in SUBSET AddressRow
  OBVIOUS
<1>3. /\ req' \in [Requests -> Request] /\ OthersWait(r)
      /\ req'[r].at = "done" /\ req'[r].id = id /\ req'[r].answer = code
      /\ req'[r].shown = {}
      /\ req'[r].barred = req[r].barred /\ req'[r].known = req[r].known
  BY <1>1, <1>2, Answered DEF Answers
<1>4. id \notin req[r].barred \ readmitted'
  <2>1. 0 \notin req[r].barred
    BY <1>1, NobodyIsZero DEF RequestInv
  <2> QED BY <1>1, <2>1 DEF RequestInv, Grows
<1>5. Op(r)' = Op(r) /\ Who(r)' = Who(r) /\ (\A a : Who(a.by)' = Who(a.by))
  BY DEF Grows, Op, Who
<1>6. Succeeded(r)' => Found(r)'
  BY <1>3, <1>5 DEF Succeeded, Found, Lists
<1>7. req[r].barred \subseteq barred' /\ req[r].known \subseteq addresses'
  BY <1>1 DEF RequestInv, Grows
<1>8. \A a \in req'[r].known : Who(a.by)' = Who(r)'
  BY <1>1, <1>3, <1>5 DEF RequestInv
<1> QED BY <1>3, <1>4, <1>6, <1>7, <1>8 DEF RequestInv

LEMMA Unmoved ==
    ASSUME IInv, UNCHANGED <<users, lastUser, addresses, task, barred, readmitted>>
    PROVE  Grows
BY DEF IInv, TypeOK, Grows

LEMMA QuietAnswer ==
    ASSUME IInv, NEW r \in Requests, NEW id \in 0 .. MaxRows, NEW code \in Codes,
           Answers(r, id, code),
           id = 0 \/ (req[r].at = "acting" /\ id = req[r].id),
           code \in {200, 201} => ~Lists(r),
           UNCHANGED <<users, lastUser, addresses, task, barred, readmitted>>,
           token' \in [People -> 0 .. lastUser], failures' \in 0 .. MaxFailures
    PROVE  IInv'
<1>1. Grows
  BY Unmoved
<1>2. RequestInv(r)' /\ req' \in [Requests -> Request] /\ OthersWait(r) /\ req'[r].at = "done"
  BY <1>1, AnswerKept
<1> QED BY <1>2, QuietKept

LEMMA ErrorsKept ==
    ASSUME IInv, NEW r \in Requests, NEW code \in Codes, Anonymous(r, code),
           code \in {200, 201} => ~Lists(r),
           UNCHANGED <<users, lastUser, addresses, task, barred, readmitted>>,
           token' \in [People -> 0 .. lastUser], failures' \in 0 .. MaxFailures
    PROVE  IInv'
<1>1. Answers(r, 0, code)
  BY DEF Anonymous, Answers
<1> QED BY <1>1, Bounds, QuietAnswer

\* The account a request finds or creates.
LEMMA EngagedRequest ==
    ASSUME IInv, NEW r \in Requests, req[r].at # "done", Grows,
           NEW i \in 1 .. lastUser', i \in 0 .. MaxRows, NEW row \in UserRow, Act(r, i, row),
           i \notin barred \ readmitted,
           Op(r) \in StorefrontOps =>
             /\ row.sub = Who(r) /\ row.active # FALSE
             /\ users'[i] # None => users'[i].sub = Who(r)
             /\ \A a \in req[r].known : a.owner = i
    PROVE  /\ RequestInv(r)' /\ req' \in [Requests -> Request] /\ OthersWait(r)
           /\ req'[r].at = "acting" /\ req'[r].id = i /\ req'[r].row # None
<1>1. RequestInv(r) /\ TypeOK
  BY DEF IInv
<1>2. /\ req' \in [Requests -> Request] /\ OthersWait(r)
      /\ req'[r].at = "acting" /\ req'[r].id = i /\ req'[r].row = row
      /\ req'[r].answer = req[r].answer /\ req'[r].shown = req[r].shown
      /\ req'[r].barred = req[r].barred /\ req'[r].known = req[r].known
  BY <1>1, Engaged
<1>3. row # None
  BY AccountAssumption
<1>4. Op(r)' = Op(r) /\ Who(r)' = Who(r) /\ (\A a : Who(a.by)' = Who(a.by))
  BY DEF Grows, Op, Who
<1>5. req'[r].answer = 0 /\ ~Succeeded(r)'
  BY <1>1, <1>2 DEF RequestInv, Succeeded
<1>6. ASSUME Op(r)' \in StorefrontOps PROVE ActsForItself(r)'
  BY <1>2, <1>4, <1>6 DEF ActsForItself
<1>7. req'[r].barred \subseteq barred' /\ req'[r].known \subseteq addresses'
  BY <1>1, <1>2 DEF RequestInv, Grows
<1>8. \A a \in req'[r].known : Who(a.by)' = Who(r)'
  BY <1>1, <1>2, <1>4 DEF RequestInv
<1>9. i \notin req'[r].barred \ readmitted'
  BY <1>1, <1>2 DEF RequestInv, Grows
<1> QED BY <1>2, <1>3, <1>5, <1>6, <1>7, <1>8, <1>9 DEF RequestInv

LEMMA EngagedKept ==
    ASSUME IInv, NEW r \in Requests, req[r].at # "done", NEW i \in Ids, users[i] # None,
           Act(r, i, users[i]), Quietly,
           users[i].active # FALSE,
           Op(r) \in StorefrontOps => users[i].sub = Who(r)
    PROVE  IInv'
<1>1. TypeOK /\ TablesInv /\ RequestInv(r) /\ users[i] \in UserRow /\ i \in 1 .. lastUser
  BY DEF IInv, TypeOK, Ids
<1>2. Grows /\ UNCHANGED <<users, lastUser, addresses, token, task, failures, barred, readmitted>>
  BY DEF IInv, TypeOK, Grows, Quietly, tables
<1>3. i \notin barred \ readmitted
  BY <1>1 DEF TablesInv
<1>4. ASSUME Op(r) \in StorefrontOps, NEW a \in req[r].known PROVE a.owner = i
  <2>1. a \in addresses /\ Who(a.by) = Who(r)
    BY <1>1 DEF RequestInv
  <2>2. users[a.owner].sub = Who(r) /\ users[a.owner] # None /\ a.owner \in Ids
    BY <1>1, <2>1 DEF TablesInv, TypeOK, AddressRow
  <2>3. Who(r) \in People /\ Who(r) # None
    BY <1>1, AccountAssumption DEF TypeOK, Who
  <2> QED BY <1>1, <1>4, <2>2, <2>3 DEF TypeOK, Unique
<1>5. i \in 0 .. MaxRows /\ i \in 1 .. lastUser'
  BY <1>1, <1>2 DEF Ids
<1>6. /\ RequestInv(r)' /\ req' \in [Requests -> Request] /\ OthersWait(r)
      /\ req'[r].at = "acting" /\ req'[r].id = i /\ req'[r].row # None
  BY <1>1, <1>2, <1>3, <1>4, <1>5, EngagedRequest
<1>7. token' \in [People -> 0 .. lastUser] /\ failures' \in 0 .. MaxFailures
  BY <1>1, <1>2 DEF TypeOK
<1> QED BY <1>1, <1>2, <1>6, <1>7, QuietKept
-----------------------------------------------------------------------------
LEMMA ReceiveKept ==
    ASSUME IInv, NEW r \in Requests, Receive(r)
    PROVE  IInv'
<1>1. TypeOK /\ RequestInv(r) /\ req \in [Requests -> Request] /\ req[r] \in Request
  BY DEF IInv, TypeOK
<1> DEFINE known == {a \in addresses : Who(a.by) = Who(r) /\ req[a.by].answer = 201}
           q1 == [req[r] EXCEPT !.at = "identifying"]
           q2 == [q1 EXCEPT !.barred = barred]
           q3 == [q2 EXCEPT !.known = known]
<1>2. known \in SUBSET AddressRow /\ barred \in SUBSET Ids
  BY <1>1, Bounds DEF TypeOK, Ids
<1>3. q1 \in Request
  BY <1>1, RequestFields DEF Busy
<1>4. q2 \in Request
  <2> HIDE DEF q1, known
  <2> QED BY <1>2, <1>3, RequestFields
<1>5. q3 \in Request
  <2> HIDE DEF q2, known
  <2> QED BY <1>2, <1>4, RequestFields
<1>6. req' = [req EXCEPT ![r] = q3]
  BY <1>1, Zenon DEF Receive
<1>7. req' \in [Requests -> Request] /\ OthersWait(r)
  <2> HIDE DEF q3
  <2> QED BY <1>1, <1>5, <1>6 DEF OthersWait
<1>8. UNCHANGED <<users, lastUser, addresses, task, barred, readmitted>> /\ token' = token /\ failures' = failures
  BY DEF Receive, Quietly, tables
<1>9. /\ req'[r].at = "identifying" /\ req'[r].answer = 0
      /\ req'[r].barred = barred /\ req'[r].known = known
  <2>1. req[r].at = "new" /\ req[r].answer = 0
    BY <1>1 DEF RequestInv, Receive
  <2>2. /\ q3.at = "identifying" /\ q3.answer = req[r].answer
        /\ q3.barred = barred /\ q3.known = known
    <3> HIDE DEF known
    <3> QED BY <1>1 DEF Request
  <2> HIDE DEF q3
  <2> QED BY <1>1, <1>6, <2>1, <2>2
<1>10. RequestInv(r)'
  <2> HIDE DEF q3
  <2>1. \A a \in known : a \in addresses /\ Who(a.by)' = Who(r)'
    BY <1>8 DEF Who
  <2> HIDE DEF known
  <2> QED BY <1>8, <1>9, <2>1 DEF RequestInv, Succeeded
<1> QED BY <1>1, <1>7, <1>8, <1>9, <1>10, QuietKept DEF TypeOK

\* A request that finds no row of its identity goes on to make one.
LEMMA MissingKept ==
    ASSUME IInv, NEW r \in Requests, req[r].at = "identifying", Missing(r), Quietly
    PROVE  IInv'
<1>1. TypeOK /\ RequestInv(r) /\ req \in [Requests -> Request] /\ req[r] \in Request
  BY DEF IInv, TypeOK
<1> DEFINE q == [req[r] EXCEPT !.at = "provisioning"]
<1>2. q \in Request /\ req' = [req EXCEPT ![r] = q]
  BY <1>1, RequestFields DEF Missing, Busy
<1>3. /\ req'[r].at = "provisioning" /\ req'[r].answer = req[r].answer
      /\ req'[r].barred = req[r].barred /\ req'[r].known = req[r].known
  BY <1>1, <1>2 DEF Request
<1>4. req' \in [Requests -> Request] /\ OthersWait(r)
  <2> HIDE DEF q
  <2> QED BY <1>1, <1>2 DEF OthersWait
<1>5. UNCHANGED <<users, lastUser, addresses, task, barred, readmitted>> /\ token' = token /\ failures' = failures
  BY DEF Quietly, tables
<1>6. RequestInv(r)'
  <2> HIDE DEF q
  <2> QED BY <1>1, <1>3, <1>5 DEF RequestInv, Succeeded, Who
<1> QED BY <1>1, <1>3, <1>4, <1>5, <1>6, QuietKept DEF TypeOK

LEMMA IdentifyKept ==
    ASSUME IInv, NEW r \in Requests, Identify(r) \/ Confirm(r) \/ IdentifyStaff(r)
    PROVE  IInv'
<1>1. TypeOK /\ req[r].at = "identifying" /\ Quietly
  BY DEF IInv, Identify, Confirm, IdentifyStaff
<1>2. UNCHANGED <<users, lastUser, addresses, task, barred, readmitted>>
      /\ token' \in [People -> 0 .. lastUser] /\ failures' \in 0 .. MaxFailures
  BY <1>1 DEF TypeOK, Quietly, tables
<1>3. ASSUME NEW code \in Codes, Anonymous(r, code), code = 200 => Op(r) = "confirm", code # 201
      PROVE  IInv'
  BY <1>2, <1>3, ErrorsKept DEF Lists
<1>4. CASE Identify(r)
  <2>1. CASE Missing(r)
    BY <1>1, <2>1, MissingKept
  <2>2. CASE Anonymous(r, 401)
    BY <1>3, <2>2 DEF Codes
  <2>3. ASSUME NEW i \in WithSub(Who(r)), users[i].active # FALSE, Act(r, i, users[i])
        PROVE  IInv'
    BY <1>1, <2>3, EngagedKept DEF WithSub
  <2> QED BY <1>4, <2>1, <2>2, <2>3 DEF Identify
<1>5. CASE Confirm(r)
  <2>1. CASE Missing(r)
    BY <1>1, <2>1, MissingKept
  <2>2. CASE Anonymous(r, 200)
    BY <1>3, <1>5, <2>2 DEF Codes, Confirm
  <2> QED BY <1>5, <2>1, <2>2 DEF Confirm
<1>6. CASE IdentifyStaff(r)
  <2>1. \A code \in {401, 403} : Anonymous(r, code) => IInv'
    BY <1>3 DEF Codes
  <2>2. ASSUME NEW i \in WithSub(Who(r)), users[i].active = TRUE, Act(r, i, users[i])
        PROVE  IInv'
    BY <1>1, <2>2, EngagedKept DEF WithSub
  <2> QED BY <1>6, <2>1, <2>2, ZenonT(30) DEF IdentifyStaff
<1> QED BY <1>4, <1>5, <1>6

\* The new account has no addresses: whoever entered one has an account already.
LEMMA ProvisionKept ==
    ASSUME IInv, NEW r \in Requests, Provision(r)
    PROVE  IInv'
<1>1. /\ TypeOK /\ TablesInv /\ RequestInv(r) /\ lastUser \in Nat
      /\ UNCHANGED <<addresses, token, failures, task, barred, readmitted>>
      /\ req[r].at = "provisioning"
  BY Bounds DEF IInv, TypeOK, Provision
<1>2. CASE Anonymous(r, 500) /\ UNCHANGED <<users, lastUser>>
  <2>1. token' \in [People -> 0 .. lastUser] /\ failures' \in 0 .. MaxFailures
    BY <1>1 DEF TypeOK
  <2>2. UNCHANGED <<users, lastUser, addresses, task, barred, readmitted>>
    BY <1>1, <1>2
  <2>3. ASSUME NEW code \in Codes, Anonymous(r, code), code \notin {200, 201} PROVE IInv'
    BY <2>1, <2>2, <2>3, ErrorsKept
  <2> QED BY <1>2, <2>3 DEF Codes
<1>3. CASE Insert(r) /\ WithSub(Who(r)) \cup WithEmail(Email[Who(r)]) = {}
  <2> DEFINE row == NewUser(r)
             i == lastUser + 1
  <2>1. Who(r) \in People /\ Who(r) # None
    BY <1>1, AccountAssumption DEF TypeOK, Who
  <2>2. row \in UserRow /\ row # None /\ row.sub = Who(r) /\ row.email = Email[Who(r)] /\ row.active = TRUE
    <3>1. row = [sub |-> Who(r), email |-> Email[Who(r)], role |-> "customer", active |-> TRUE,
                 password |-> FALSE, name |-> None]
      BY DEF NewUser, User
    <3>2. row \in UserRow
      BY <2>1, <3>1, AccountAssumption DEF UserRow
    <3>3. row # None
      BY <3>2, AccountAssumption
    <3> HIDE DEF row
    <3> QED BY <3>1, <3>2, <3>3
  <2>3. i \in Ids /\ lastUser' = i /\ users' = [users EXCEPT ![i] = row] /\ users[i] = None
        /\ i \in 1 .. lastUser'
    BY <1>1, <1>3, Bounds DEF Insert, Ids, TypeOK
  <2> HIDE DEF row, i
  <2>4. \A j \in Ids : users'[j] = IF j = i THEN row ELSE users[j]
    BY <1>1, <2>3 DEF TypeOK
  <2>5. \A j \in 1 .. lastUser : j \in Ids /\ j # i
    BY <1>1, Bounds DEF TypeOK, Ids, i
  <2>6. Grows
    <3>1. lastUser <= lastUser'
      BY <1>1, <2>3 DEF i
    <3> QED BY <1>1, <2>4, <2>5, <3>1 DEF Grows
  <2>7. Unique(users)'
    <3>1. \A j \in Ids : users[j] # None => users[j].sub # row.sub /\ users[j].email # row.email
      BY <1>3, <2>2 DEF WithSub, WithEmail
    <3>2. DOMAIN users' = Ids /\ DOMAIN users = Ids /\ Unique(users)
      BY <1>1, <2>3 DEF TypeOK
    <3> QED BY <2>2, <2>4, <3>1, <3>2 DEF Unique
  <2>8. \A a \in addresses : a.owner \in Ids /\ users[a.owner] # None /\ a.owner # i
    BY <1>1, <2>3 DEF TypeOK, AddressRow
  <2>9. TablesInv'
    <3>1. \A j \in barred \ readmitted : j \in Ids /\ j # i
      BY <1>1, <2>5 DEF TypeOK
    <3> QED BY <1>1, <2>4, <2>8, <3>1 DEF TablesInv, Who
  <2>10. /\ req' \in [Requests -> Request] /\ OthersWait(r) /\ RequestInv(r)'
         /\ req'[r].at = "acting" => req'[r].id \in 1 .. lastUser' /\ req'[r].row # None
    <3>1. CASE Op(r) = "confirm" /\ Anonymous(r, 200)
      <4>1. Answers(r, 0, 200)
        BY <3>1 DEF Anonymous, Answers
      <4>2. 200 \in Codes /\ ~Lists(r)
        BY <3>1 DEF Codes, Lists
      <4>3. RequestInv(r)' /\ req' \in [Requests -> Request] /\ OthersWait(r) /\ req'[r].at = "done"
        BY <2>6, <4>1, <4>2, Bounds, AnswerKept
      <4> QED BY <4>3
    <3>2. CASE Act(r, i, row)
      <4>1. i \notin barred \ readmitted
        BY <1>1, <2>5 DEF TypeOK
      <4>2. ASSUME NEW a \in req[r].known PROVE FALSE
        <5>1. a \in addresses /\ Who(a.by) = Who(r)
          BY <1>1 DEF RequestInv
        <5>2. a.owner \in WithSub(Who(r))
          BY <1>1, <2>8, <5>1 DEF TablesInv, WithSub
        <5> QED BY <1>3, <5>2
      <4>3. users'[i] = row
        BY <2>3, <2>4
      <4>4. i \in 0 .. MaxRows
        BY <2>3, Bounds DEF Ids
      <4>5. Op(r) \in StorefrontOps =>
             /\ row.sub = Who(r) /\ row.active # FALSE
             /\ users'[i] # None => users'[i].sub = Who(r)
             /\ \A a \in req[r].known : a.owner = i
        BY <2>2, <4>2, <4>3
      <4> QED BY <1>1, <2>2, <2>3, <2>6, <3>2, <4>1, <4>4, <4>5, EngagedRequest
    <3> QED BY <1>3, <2>3, <3>1, <3>2 DEF Insert, row
  <2>11. TypeOK'
    <3>1. users' \in [Ids -> UserRow \cup {None}]
      BY <1>1, <2>2, <2>3 DEF TypeOK
    <3>2. lastUser' \in 0 .. MaxRows /\ 1 .. lastUser \subseteq 1 .. lastUser'
          /\ 0 .. lastUser \subseteq 0 .. lastUser'
      BY <1>1, <2>3, Bounds DEF Ids, i
    <3>3. \A j \in Ids : users'[j] # None => j <= lastUser'
      <4>1. \A j \in Ids : users[j] # None => j \in 1 .. lastUser
        BY <1>1, Bounds DEF TypeOK, Ids
      <4> QED BY <1>1, <2>3, <2>4, <3>2, <4>1
    <3>4. token' \in [People -> 0 .. lastUser']
      BY <1>1, <3>2 DEF TypeOK
    <3>5. \A a \in addresses' : users'[a.owner] # None
      BY <1>1, <2>4, <2>8
    <3>6. \A s \in Requests : req'[s].at = "acting" => req'[s].id \in 1 .. lastUser' /\ req'[s].row # None
      BY <1>1, <2>10, <3>2 DEF TypeOK, OthersWait
    <3> QED BY <1>1, <2>7, <2>10, <3>1, <3>2, <3>3, <3>4, <3>5, <3>6 DEF TypeOK
  <2> QED BY <2>6, <2>9, <2>10, <2>11, StepKept
<1> QED BY <1>2, <1>3 DEF Provision

\* A success, told to the account the request acts for.
Served(r) == Reply(r, req[r].id, 200, {})

LEMMA ServedRequest ==
    ASSUME IInv, NEW r \in Requests, req[r].at = "acting", Served(r),
           ~Lists(r), Grows
    PROVE  RequestInv(r)' /\ req' \in [Requests -> Request] /\ OthersWait(r) /\ req'[r].at = "done"
<1>1. req[r].id \in 0 .. MaxRows
  BY DEF IInv, TypeOK, Request
<1>2. ASSUME NEW code \in Codes, Answers(r, req[r].id, code)
      PROVE  RequestInv(r)' /\ req' \in [Requests -> Request] /\ OthersWait(r) /\ req'[r].at = "done"
  BY <1>1, <1>2, AnswerKept
<1> QED BY <1>2 DEF Served, Answers, Codes

\* An update of a row that keeps its identity and the unique columns.
LEMMA StoredKept ==
    ASSUME IInv, NEW r \in Requests, req[r].at = "acting", Served(r),
           ~Lists(r),
           NEW i \in Ids, users[i] # None, NEW row \in UserRow, row.sub = users[i].sub,
           ~Taken(i, row), Stored(i, row),
           barred' = barred \/ (row.active = FALSE /\ barred' = barred \cup {i}),
           UNCHANGED <<lastUser, addresses, token, failures, task>>
    PROVE  IInv'
<1>1. /\ TypeOK /\ TablesInv /\ row # None /\ i \in 1 .. lastUser
      /\ users' = [users EXCEPT ![i] = row]
  BY AccountAssumption DEF IInv, TypeOK, Stored, Ids
<1>2. \A j \in Ids : users'[j] = IF j = i THEN row ELSE users[j]
  BY <1>1 DEF TypeOK
<1>3. 1 .. lastUser \subseteq Ids /\ readmitted \subseteq readmitted' /\ barred \subseteq barred'
      /\ barred' \subseteq barred \cup {i} /\ readmitted' \subseteq readmitted \cup {i}
  <2>1. lastUser \in Nat /\ lastUser <= MaxRows
    BY <1>1, Bounds DEF TypeOK
  <2>2. readmitted' = readmitted \/ readmitted' = readmitted \cup {i}
    BY DEF Stored
  <2> QED BY <2>1, <2>2, Bounds DEF Ids
<1>4. Grows
  <2>1. lastUser \in Nat
    BY <1>1, Bounds DEF TypeOK
  <2> QED BY <1>2, <1>3, <2>1 DEF Grows
<1>5. TablesInv'
  <2>1. ASSUME NEW j \in barred' \ readmitted' PROVE users'[j] = None \/ users'[j].active = FALSE
    <3>1. CASE j = i /\ row.active = FALSE
      BY <1>2, <3>1
    <3>2. CASE j = i /\ row.active # FALSE
      <4>1. users[i].active # FALSE /\ i \in barred \ readmitted
        BY <1>3, <2>1, <3>2 DEF Stored
      <4> QED BY <1>1, <4>1 DEF TablesInv
    <3>3. CASE j # i
      <4>1. j \in barred \ readmitted /\ j \in Ids
        BY <1>1, <1>3, <2>1, <3>3 DEF TypeOK
      <4> QED BY <1>1, <1>2, <3>3, <4>1 DEF TablesInv
    <3> QED BY <3>1, <3>2, <3>3
  <2>2. ASSUME NEW a \in addresses' PROVE users'[a.owner].sub = Who(a.by)'
    BY <1>1, <1>2 DEF TypeOK, AddressRow, TablesInv, Who
  <2> QED BY <2>1, <2>2 DEF TablesInv
<1>6. Unique(users)'
  <2>1. \A j \in Ids : users[j] # None /\ j # i => users[j].email # row.email
    BY DEF Taken, WithEmail
  <2>2. DOMAIN users' = Ids /\ DOMAIN users = Ids /\ Unique(users)
    BY <1>1 DEF TypeOK
  <2> QED BY <1>2, <2>1, <2>2 DEF Unique
<1>7. RequestInv(r)' /\ req' \in [Requests -> Request] /\ OthersWait(r) /\ req'[r].at = "done"
  BY <1>4, ServedRequest
<1>8. TypeOK'
  <2>1. users' \in [Ids -> UserRow \cup {None}]
    BY <1>1 DEF TypeOK
  <2>2. \A j \in Ids : users'[j] # None => j <= lastUser'
    BY <1>1, <1>2 DEF TypeOK
  <2>3. barred' \subseteq 1 .. lastUser' /\ readmitted' \subseteq 1 .. lastUser'
    BY <1>1, <1>3 DEF TypeOK
  <2>4. \A a \in addresses' : users'[a.owner] # None
    BY <1>1, <1>2 DEF TypeOK, AddressRow
  <2>5. \A s \in Requests : req'[s].at = "acting" => req'[s].id \in 1 .. lastUser' /\ req'[s].row # None
    BY <1>1, <1>7 DEF TypeOK, OthersWait
  <2> QED BY <1>1, <1>6, <1>7, <2>1, <2>2, <2>3, <2>4, <2>5 DEF TypeOK
<1> QED BY <1>4, <1>5, <1>7, <1>8, StepKept

LEMMA RenameKept ==
    ASSUME IInv, NEW r \in Requests, Rename(r)
    PROVE  IInv'
<1>1. /\ TypeOK /\ RequestInv(r) /\ req[r].at = "acting" /\ Op(r) = "rename"
      /\ UNCHANGED <<lastUser, addresses, token, failures, task, barred>>
      /\ token' \in [People -> 0 .. lastUser] /\ failures' \in 0 .. MaxFailures
  BY DEF IInv, TypeOK, Rename, Acting
<1> DEFINE i == req[r].id
           row == [req[r].row EXCEPT !.name = r]
<1>2. req[r].id \in Ids /\ req[r].row \in UserRow /\ ActsForItself(r) /\ req[r].id \in 0 .. MaxRows
  BY <1>1, Bounds DEF TypeOK, Request, Ids, RequestInv, StorefrontOps
<1>3. row \in UserRow /\ row.sub = Who(r)
  BY <1>2 DEF UserRow, ActsForItself
<1>4. ASSUME NEW code \in Codes, Anonymous(r, code), code \notin {200, 201}, UNCHANGED <<users, readmitted>>
      PROVE  IInv'
  <2>1. UNCHANGED <<users, lastUser, addresses, task, barred, readmitted>>
    BY <1>1, <1>4
  <2> QED BY <1>1, <1>4, <2>1, ErrorsKept
<1>5. ASSUME Reply(r, i, 200, {}), UNCHANGED <<users, readmitted>>
      PROVE  IInv'
  <2>1. UNCHANGED <<users, lastUser, addresses, task, barred, readmitted>>
    BY <1>1, <1>5
  <2>2. Answers(r, req[r].id, 200)
    BY <1>5 DEF Answers
  <2>3. ASSUME NEW code \in Codes, Answers(r, req[r].id, code) PROVE IInv'
    BY <1>1, <1>2, <2>1, <2>3, QuietAnswer DEF Lists
  <2> QED BY <2>2, <2>3 DEF Codes
<1>6. ASSUME Reply(r, i, 200, {}), users[i] # None, ~Taken(i, row), Stored(i, row)
      PROVE  IInv'
  <2>1. users[i].sub = Who(r)
    BY <1>2, <1>6 DEF ActsForItself
  <2>2. Served(r)
    BY <1>6 DEF Served
  <2> HIDE DEF row
  <2> QED BY <1>1, <1>2, <1>3, <1>6, <2>1, <2>2, StoredKept DEF Lists
<1> HIDE DEF row, i
<1>7. (\E code \in {422, 500} : Anonymous(r, code) /\ UNCHANGED <<users, readmitted>>)
      \/ (Reply(r, i, 200, {}) /\ UNCHANGED <<users, readmitted>>)
      \/ (Reply(r, i, 200, {}) /\ users[i] # None /\ ~Taken(i, row) /\ Stored(i, row))
  BY ZenonT(30) DEF Rename, row, i
<1> QED BY <1>4, <1>5, <1>6, <1>7 DEF Codes

LEMMA EditKept ==
    ASSUME IInv, NEW r \in Requests, Edit(r)
    PROVE  IInv'
<1>1. /\ TypeOK /\ RequestInv(r) /\ req[r].at = "acting" /\ Op(r) = "edit"
      /\ UNCHANGED <<lastUser, addresses, token, failures, task>>
      /\ token' \in [People -> 0 .. lastUser] /\ failures' \in 0 .. MaxFailures
  BY DEF IInv, TypeOK, Edit, Acting
<1>2. ASSUME NEW code \in Codes, Anonymous(r, code), code \notin {200, 201},
             UNCHANGED <<users, barred, readmitted>>
      PROVE  IInv'
  <2>1. UNCHANGED <<users, lastUser, addresses, task, barred, readmitted>>
    BY <1>1, <1>2
  <2> QED BY <1>1, <1>2, <2>1, ErrorsKept
<1>3. ASSUME NEW i \in Ids, users[i] # None, NEW row, row = Edited(users[i], task[r].values),
             ~Taken(i, row), Stored(i, row),
             barred' = IF row.active = FALSE THEN barred \cup {i} ELSE barred,
             Served(r)
      PROVE  IInv'
  <2>1. users[i] \in UserRow /\ Editable(task[r].values)
    BY <1>1, <1>3, AccountAssumption DEF TypeOK
  <2>2. row \in UserRow /\ row.sub = users[i].sub
    BY <1>3, <2>1 DEF UserRow, Edited, Editable
  <2>3. ~Lists(r)
    BY <1>1 DEF Lists
  <2> QED BY <1>1, <1>3, <2>2, <2>3, StoredKept
<1>4. PICK i \in Ids :
         IF users[i] = None THEN Anonymous(r, 404) /\ UNCHANGED <<users, barred, readmitted>>
         ELSE LET row == Edited(users[i], task[r].values) IN
              IF Taken(i, row) THEN Anonymous(r, 409) /\ UNCHANGED <<users, barred, readmitted>>
              ELSE /\ Stored(i, row)
                   /\ barred' = IF row.active = FALSE THEN barred \cup {i} ELSE barred
                   /\ Served(r)
  BY DEF Edit, Served
<1>5. \A code \in {404, 409} : Anonymous(r, code) /\ UNCHANGED <<users, barred, readmitted>> => IInv'
  BY <1>2 DEF Codes
<1> QED BY <1>3, <1>4, <1>5, ZenonT(30)

LEMMA RemoveKept ==
    ASSUME IInv, NEW r \in Requests, RemoveUser(r)
    PROVE  IInv'
<1>1. /\ TypeOK /\ TablesInv /\ RequestInv(r) /\ req[r].at = "acting" /\ Op(r) = "remove"
      /\ UNCHANGED <<lastUser, addresses, token, failures, task, barred, readmitted>>
      /\ token' \in [People -> 0 .. lastUser] /\ failures' \in 0 .. MaxFailures
  BY DEF IInv, TypeOK, RemoveUser, Acting
<1>2. ASSUME NEW code \in Codes, Anonymous(r, code), code \notin {200, 201}, UNCHANGED users
      PROVE  IInv'
  <2>1. UNCHANGED <<users, lastUser, addresses, task, barred, readmitted>>
    BY <1>1, <1>2
  <2> QED BY <1>1, <1>2, <2>1, ErrorsKept
<1>3. ASSUME NEW i \in Ids, \A a \in addresses : a.owner # i,
             users' = [users EXCEPT ![i] = None], Served(r)
      PROVE  IInv'
  <2>1. \A j \in Ids : users'[j] = IF j = i THEN None ELSE users[j]
    BY <1>1, <1>3 DEF TypeOK
  <2>2. lastUser \in Nat /\ 1 .. lastUser \subseteq Ids
    BY <1>1, Bounds DEF TypeOK, Ids
  <2>3. Grows
    BY <1>1, <2>1, <2>2 DEF Grows
  <2>4. RequestInv(r)' /\ req' \in [Requests -> Request] /\ OthersWait(r) /\ req'[r].at = "done"
    BY <1>1, <1>3, <2>3, ServedRequest DEF Lists
  <2>5. TablesInv'
    <3>1. \A j \in barred' \ readmitted' : j \in Ids
      BY <1>1, <2>2 DEF TypeOK
    <3> QED BY <1>1, <1>3, <2>1, <3>1 DEF TablesInv, Who, TypeOK, AddressRow
  <2>6. TypeOK'
    <3>1. users' \in [Ids -> UserRow \cup {None}]
      BY <1>1, <1>3 DEF TypeOK
    <3>2. Unique(users)'
      <4>1. DOMAIN users' = Ids /\ DOMAIN users = Ids /\ Unique(users)
        BY <1>1, <1>3 DEF TypeOK
      <4> QED BY <2>1, <4>1 DEF Unique
    <3>3. \A j \in Ids : users'[j] # None => j <= lastUser'
      BY <1>1, <2>1 DEF TypeOK
    <3>4. \A a \in addresses' : users'[a.owner] # None
      BY <1>1, <1>3, <2>1 DEF TypeOK, AddressRow
    <3>5. \A s \in Requests : req'[s].at = "acting" => req'[s].id \in 1 .. lastUser' /\ req'[s].row # None
      BY <1>1, <2>4 DEF TypeOK, OthersWait
    <3> QED BY <1>1, <2>4, <3>1, <3>2, <3>3, <3>4, <3>5 DEF TypeOK
  <2> QED BY <2>3, <2>4, <2>5, <2>6, StepKept
<1>4. PICK i \in Ids :
         IF users[i] = None THEN Anonymous(r, 404) /\ UNCHANGED users
         ELSE IF \E a \in addresses : a.owner = i THEN Anonymous(r, 409) /\ UNCHANGED users
         ELSE users' = [users EXCEPT ![i] = None] /\ Served(r)
  BY DEF RemoveUser, Served
<1>5. \A code \in {404, 409} : Anonymous(r, code) /\ UNCHANGED users => IInv'
  BY <1>2 DEF Codes
<1> QED BY <1>3, <1>4, <1>5

\* What is listed or delivered to is the customer's own.
LEMMA ShownKept ==
    ASSUME IInv, NEW r \in Requests, ActsForItself(r), req[r].at = "acting",
           NEW code \in {200, 201}, NEW shows \in SUBSET {a \in addresses : a.owner = req[r].id},
           Lists(r) => shows = {a \in addresses : a.owner = req[r].id},
           Reply(r, req[r].id, code, shows), Quietly
    PROVE  IInv'
<1>1. /\ TypeOK /\ TablesInv /\ RequestInv(r)
      /\ UNCHANGED <<users, lastUser, addresses, task, barred, readmitted>>
      /\ token' \in [People -> 0 .. lastUser] /\ failures' \in 0 .. MaxFailures
  BY DEF IInv, TypeOK, Quietly, tables
<1>2. code \in Codes /\ shows \in SUBSET AddressRow /\ req[r].id \in 0 .. MaxRows
  BY <1>1 DEF Codes, TypeOK, Request
<1>3. /\ req' \in [Requests -> Request] /\ OthersWait(r)
      /\ req'[r].at = "done" /\ req'[r].id = req[r].id /\ req'[r].answer = code
      /\ req'[r].shown = shows
      /\ req'[r].barred = req[r].barred /\ req'[r].known = req[r].known
  BY <1>1, <1>2, Answered
<1>4. ASSUME NEW a \in shows PROVE Who(a.by) = Who(r)
  <2>1. a \in addresses /\ a.owner = req[r].id /\ users[a.owner] # None
    BY <1>1 DEF TypeOK
  <2> QED BY <1>1, <2>1 DEF TablesInv, ActsForItself
<1>5. Lists(r) => req[r].known \subseteq shows
  BY <1>1 DEF ActsForItself, RequestInv
<1>6. Found(r)'
  BY <1>1, <1>3, <1>4, <1>5 DEF Found, Who, Op, Lists
<1>7. RequestInv(r)'
  BY <1>1, <1>3, <1>6 DEF RequestInv, Succeeded, Who
<1> QED BY <1>1, <1>3, <1>7, QuietKept

LEMMA ReadsKept ==
    ASSUME IInv, NEW r \in Requests,
           ListAddresses(r) \/ Deliver(r) \/ Me(r) \/ StaffMe(r)
    PROVE  IInv'
<1>1. /\ TypeOK /\ RequestInv(r) /\ req[r].at = "acting" /\ Quietly
      /\ UNCHANGED <<users, lastUser, addresses, task, barred, readmitted>>
      /\ token' \in [People -> 0 .. lastUser] /\ failures' \in 0 .. MaxFailures
      /\ req[r].id \in 0 .. MaxRows
  <2>1. Quietly /\ req[r].at = "acting"
    BY DEF ListAddresses, Deliver, Me, StaffMe, Acting
  <2>2. TypeOK /\ RequestInv(r) /\ req[r] \in Request
    BY DEF IInv, TypeOK
  <2>3. req[r].id \in 0 .. MaxRows
    BY <2>2 DEF Request
  <2> QED BY <2>1, <2>2, <2>3 DEF Quietly, tables, TypeOK
<1>2. CASE ListAddresses(r)
  <2>1. ActsForItself(r)
    BY <1>1, <1>2 DEF RequestInv, ListAddresses, Acting, StorefrontOps
  <2> QED BY <1>1, <1>2, <2>1, ShownKept DEF ListAddresses
<1>3. CASE Deliver(r)
  <2>1. ActsForItself(r) /\ ~Lists(r)
    BY <1>1, <1>3 DEF RequestInv, Deliver, Acting, StorefrontOps, Lists
  <2>2. ASSUME NEW code \in Codes, Anonymous(r, code), code \notin {200, 201} PROVE IInv'
    BY <1>1, <2>2, ErrorsKept
  <2>3. ASSUME NEW a \in addresses, a.owner = req[r].id, Reply(r, req[r].id, 201, {a}) PROVE IInv'
    <3>1. {a} \in SUBSET {b \in addresses : b.owner = req[r].id}
      BY <2>3
    <3> QED BY <1>1, <2>1, <2>3, <3>1, ShownKept
  <2>4. Anonymous(r, 400) => IInv'
    BY <2>2 DEF Codes
  <2> QED BY <1>3, <2>3, <2>4 DEF Deliver
<1>4. CASE Me(r) \/ StaffMe(r)
  <2>1. ~Lists(r)
    BY <1>4 DEF Me, StaffMe, Acting, Lists
  <2>2. ASSUME NEW code \in Codes, Answers(r, req[r].id, code) PROVE IInv'
    BY <1>1, <2>1, <2>2, QuietAnswer
  <2>3. Answers(r, req[r].id, 200)
    BY <1>4 DEF Me, StaffMe, Answers
  <2> QED BY <2>2, <2>3 DEF Codes
<1> QED BY <1>2, <1>3, <1>4

LEMMA CreateAddressKept ==
    ASSUME IInv, NEW r \in Requests, CreateAddress(r)
    PROVE  IInv'
<1>1. /\ TypeOK /\ TablesInv /\ RequestInv(r) /\ req[r].at = "acting" /\ ActsForItself(r)
      /\ UNCHANGED <<users, lastUser, token, failures, task, barred, readmitted>>
      /\ token' \in [People -> 0 .. lastUser] /\ failures' \in 0 .. MaxFailures
      /\ req[r].id \in 0 .. MaxRows /\ ~Lists(r) /\ req[r].id \in Ids
  <2>1. TypeOK /\ TablesInv /\ RequestInv(r) /\ req[r] \in Request
    BY DEF IInv, TypeOK
  <2>2. /\ req[r].at = "acting" /\ Op(r) = "create address"
        /\ UNCHANGED <<users, lastUser, token, failures, task, barred, readmitted>>
    BY DEF CreateAddress, Acting
  <2>3. ActsForItself(r) /\ ~Lists(r)
    BY <2>1, <2>2 DEF RequestInv, StorefrontOps, Lists
  <2>4. req[r].id \in 0 .. MaxRows /\ req[r].id \in Ids
    <3>1. req[r].id \in 1 .. lastUser /\ lastUser \in Nat /\ lastUser <= MaxRows
      <4>1. req[r].id \in 1 .. lastUser /\ lastUser \in 0 .. MaxRows
        BY <2>1, <2>2 DEF TypeOK
      <4> QED BY <4>1, Bounds
    <3> QED BY <3>1, Bounds DEF Ids
  <2> QED BY <2>1, <2>2, <2>3, <2>4 DEF TypeOK
<1>2. ASSUME NEW code \in Codes, Anonymous(r, code), code \notin {200, 201}, UNCHANGED addresses
      PROVE  IInv'
  <2>1. UNCHANGED <<users, lastUser, addresses, task, barred, readmitted>>
    BY <1>1, <1>2
  <2> QED BY <1>1, <1>2, <2>1, ErrorsKept
<1> DEFINE a == Address(r, req[r].id)
<1>3. ASSUME users[req[r].id] # None, addresses' = addresses \cup {a},
             NEW code \in Codes, Reply(r, req[r].id, code, {a})
      PROVE  IInv'
  <2>1. a \in AddressRow /\ a.by = r /\ a.owner = req[r].id
    BY <1>1 DEF Address, AddressRow
  <2> HIDE DEF a
  <2>2. Grows
    <3>1. lastUser \in Nat
      BY <1>1, Bounds DEF TypeOK
    <3> QED BY <1>1, <1>3, <3>1 DEF Grows
  <2>3. TablesInv'
    BY <1>1, <1>3, <2>1 DEF TablesInv, Who, ActsForItself
  <2>4. /\ req' \in [Requests -> Request] /\ OthersWait(r)
        /\ req'[r].at = "done" /\ req'[r].id = req[r].id /\ req'[r].answer = code
        /\ req'[r].shown = {a}
        /\ req'[r].barred = req[r].barred /\ req'[r].known = req[r].known
    BY <1>1, <1>3, <2>1, Answered
  <2>5. RequestInv(r)'
    <3>1. Found(r)'
      BY <1>1, <2>1, <2>4 DEF Found, Who, Op, Lists
    <3> QED BY <1>1, <1>3, <2>4, <3>1 DEF RequestInv, Succeeded, Who
  <2>6. TypeOK'
    <3>1. addresses' \subseteq AddressRow /\ \A b \in addresses' : users'[b.owner] # None
      BY <1>1, <1>3, <2>1 DEF TypeOK
    <3>2. \A s \in Requests : req'[s].at = "acting" => req'[s].id \in 1 .. lastUser' /\ req'[s].row # None
      BY <1>1, <2>4 DEF TypeOK, OthersWait
    <3>3. Unique(users)'
      BY <1>1 DEF TypeOK, Unique
    <3> QED BY <1>1, <2>4, <3>1, <3>2, <3>3 DEF TypeOK
  <2> QED BY <2>2, <2>3, <2>4, <2>5, <2>6, StepKept
<1> HIDE DEF a
<1>4. \/ Anonymous(r, 422) /\ UNCHANGED addresses
      \/ Anonymous(r, 500) /\ UNCHANGED addresses
      \/ users[req[r].id] # None /\ addresses' = addresses \cup {a} /\ Reply(r, req[r].id, 201, {a})
  BY DEF CreateAddress, a
<1>5. \A code \in {422, 500} : Anonymous(r, code) /\ UNCHANGED addresses => IInv'
  BY <1>2 DEF Codes
<1>6. users[req[r].id] # None /\ addresses' = addresses \cup {a} /\ Reply(r, req[r].id, 201, {a}) => IInv'
  BY <1>3 DEF Codes
<1> QED BY <1>4, <1>5, <1>6

\* A login serves no account: who the token is for is looked at again with
\* every request that brings it.
LEMMA LoginKept ==
    ASSUME IInv, NEW r \in Requests, Login(r)
    PROVE  IInv'
<1>1. /\ TypeOK /\ ~Lists(r)
      /\ UNCHANGED <<users, lastUser, addresses, task, barred, readmitted>>
      /\ failures' \in 0 .. MaxFailures
  BY DEF IInv, TypeOK, Login, Lists
<1>2. token' \in [People -> 0 .. lastUser]
  <2>1. ASSUME NEW i \in WithEmail(Email[Who(r)]), token' = [token EXCEPT ![Who(r)] = i]
        PROVE  token' \in [People -> 0 .. lastUser]
    <3>1. i \in 0 .. lastUser
      BY <1>1, <2>1, Bounds DEF TypeOK, WithEmail, Ids
    <3> QED BY <1>1, <2>1, <3>1 DEF TypeOK
  <2> QED BY <1>1, <2>1 DEF TypeOK, Login
<1>3. ASSUME NEW code \in Codes, Anonymous(r, code) PROVE IInv'
  BY <1>1, <1>2, <1>3, ErrorsKept
<1>4. Anonymous(r, 401) \/ Anonymous(r, 200)
  BY DEF Login
<1> QED BY <1>3, <1>4 DEF Codes

LEMMA AppRequestKept ==
    ASSUME IInv, NEW r \in Requests, AppRequest(r)
    PROVE  IInv'
<1>1. TypeOK /\ TablesInv /\ RequestInv(r) /\ req \in [Requests -> Request]
      /\ task[r].who \in People
  BY AccountAssumption DEF IInv, TypeOK
<1>2. UNCHANGED <<users, lastUser, addresses, task, barred, readmitted>>
      /\ token' \in [People -> 0 .. lastUser] /\ failures' \in 0 .. MaxFailures
  BY <1>1 DEF TypeOK, AppRequest, Quietly, tables
<1> DEFINE i == token[Who(r)]
           code == IF i = 0 \/ users[i] = None THEN 401
                   ELSE IF users[i].active = FALSE THEN 401
                   ELSE IF Op(r) = "app ship" /\ users[i].role # "admin" THEN 403
                   ELSE 200
           q == [Idle("done", code) EXCEPT !.id = i, !.barred = barred]
<1>3. req' = [req EXCEPT ![r] = q]
  BY Zenon DEF AppRequest
<1>4. i \in 0 .. lastUser /\ lastUser \in Nat /\ lastUser <= MaxRows
  BY <1>1, Bounds DEF TypeOK, Who
<1>5. code \in Codes /\ (code \in {200, 201} => i # 0 /\ users[i] # None /\ users[i].active # FALSE)
  <2> DEFINE missing == i = 0 \/ users[i] = None
             barredNow == users[i].active = FALSE
             forbidden == Op(r) = "app ship" /\ users[i].role # "admin"
  <2>1. code = IF missing THEN 401 ELSE IF barredNow THEN 401 ELSE IF forbidden THEN 403 ELSE 200
    OBVIOUS
  <2>2. missing \in BOOLEAN /\ barredNow \in BOOLEAN /\ forbidden \in BOOLEAN
    OBVIOUS
  <2> HIDE DEF code, missing, barredNow, forbidden
  <2>3. code \in Codes /\ (code \in {200, 201} => ~missing /\ ~barredNow)
    BY <2>1, <2>2 DEF Codes
  <2> QED BY <2>3 DEF missing, barredNow
<1> HIDE DEF i, code
<1>7. q \in Request
  <2>1. i \in 0 .. MaxRows /\ barred \in SUBSET Ids
    BY <1>1, <1>4, Bounds DEF TypeOK, Ids
  <2>2. Idle("done", code) \in Request
    BY <1>5, Bounds DEF Request, Codes, Idle
  <2> DEFINE idle == Idle("done", code)
             q1 == [idle EXCEPT !.id = i]
  <2>3. q1 \in Request
    <3> HIDE DEF idle
    <3> QED BY <2>1, <2>2, RequestFields DEF idle
  <2>4. [q1 EXCEPT !.barred = barred] \in Request
    <3> HIDE DEF q1
    <3> QED BY <2>1, <2>3, RequestFields
  <2> QED BY <2>4, Zenon
<1>8. req' \in [Requests -> Request] /\ OthersWait(r) /\ req'[r] = q
  <2> HIDE DEF q
  <2> QED BY <1>1, <1>3, <1>7 DEF OthersWait
<1>9. code \in {200, 201} => i \notin barred \ readmitted
  BY <1>1, <1>5 DEF TablesInv
<1>10. RequestInv(r)' /\ req'[r].at = "done"
  <2>1. /\ req'[r].at = "done" /\ req'[r].id = i /\ req'[r].answer = code
        /\ req'[r].shown = {} /\ req'[r].barred = barred /\ req'[r].known = {}
    BY <1>8 DEF Idle
  <2>2. Found(r)'
    BY <2>1 DEF Found
  <2> QED BY <1>2, <1>9, <2>1, <2>2 DEF RequestInv, Succeeded
<1> QED BY <1>2, <1>8, <1>10, QuietKept

LEMMA FailureKept ==
    ASSUME IInv, NEW r \in Requests, TurnAway(r) \/ Fail(r)
    PROVE  IInv'
<1>1. failures \in 0 .. MaxFailures /\ failures' = failures + 1 /\ failures < MaxFailures
  BY DEF IInv, TypeOK, TurnAway, Fail
<1>2. failures' \in 0 .. MaxFailures
  BY <1>1, Bounds
<1>3. UNCHANGED <<users, lastUser, addresses, task, barred, readmitted>>
      /\ token' \in [People -> 0 .. lastUser]
  BY DEF IInv, TypeOK, TurnAway, Fail, tables
<1>4. ASSUME NEW code \in Codes, Anonymous(r, code), code \notin {200, 201} PROVE IInv'
  BY <1>2, <1>3, <1>4, ErrorsKept
<1>5. Anonymous(r, 401) \/ Anonymous(r, 500)
  BY DEF TurnAway, Fail
<1> QED BY <1>4, <1>5 DEF Codes
-----------------------------------------------------------------------------
LEMMA StutterKept == IInv /\ UNCHANGED vars => IInv'
<1> SUFFICES ASSUME IInv, UNCHANGED vars PROVE IInv'
  OBVIOUS
<1>1. TypeOK'
  BY DEF IInv, TypeOK, Unique, vars, tables
<1>2. TablesInv'
  BY DEF IInv, TablesInv, Who, vars, tables
<1>3. ASSUME NEW s \in Requests PROVE RequestInv(s)'
  BY ZenonT(30) DEF IInv, RequestInv, ActsForItself, Found, Succeeded, Who, Op, vars, tables
<1> QED BY <1>1, <1>2, <1>3 DEF IInv

LEMMA AccountsInit == Init => IInv
<1> SUFFICES ASSUME Init PROVE IInv
  OBVIOUS
<1>1. \A i \in Ids : users[i] = IF i <= Len(FirstUsers) THEN FirstUsers[i] ELSE None
  BY DEF Init
<1>2. Len(FirstUsers) \in Nat /\ DOMAIN FirstUsers = 1 .. Len(FirstUsers)
      /\ FirstUsers \in Seq(UserRow) /\ Len(FirstUsers) <= MaxRows /\ Unique(FirstUsers)
  BY AccountAssumption
<1>3. users \in [Ids -> UserRow \cup {None}]
  <2>1. \A i \in Ids : i <= Len(FirstUsers) => FirstUsers[i] \in UserRow
    BY <1>2, Bounds DEF Ids
  <2> QED BY <1>1, <2>1 DEF Init
<1>4. Unique(users)
  <2>1. DOMAIN users = Ids
    BY <1>3
  <2>2. \A i \in Ids : users[i] # None => i \in DOMAIN FirstUsers /\ users[i] = FirstUsers[i]
    BY <1>1, <1>2, Bounds DEF Ids
  <2> QED BY <1>2, <2>1, <2>2 DEF Unique
<1>5. \A r \in Requests : req[r] \in Request
  BY Bounds DEF Init, Idle, Request
<1>6. req \in [Requests -> Request]
  BY <1>5 DEF Init
<1>7. TypeOK
  <2>1. lastUser \in 0 .. MaxRows /\ 0 \in 0 .. lastUser /\ failures \in 0 .. MaxFailures
    BY <1>2, Bounds DEF Init
  <2>2. token \in [People -> 0 .. lastUser]
    BY <2>1 DEF Init
  <2>3. \A i \in Ids : users[i] # None => i <= lastUser
    BY <1>1, <1>2, Bounds DEF Init, Ids
  <2>4. \A r \in Requests : req[r].at = "new"
    BY DEF Init, Idle
  <2> QED BY <1>3, <1>4, <1>6, <2>1, <2>2, <2>3, <2>4 DEF TypeOK, Init
<1>8. ASSUME NEW r \in Requests PROVE RequestInv(r)
  BY DEF RequestInv, Succeeded, Init, Idle
<1> QED BY <1>7, <1>8 DEF IInv, TablesInv, Init

LEMMA AccountsStep == IInv /\ [Next]_vars => IInv'
<1> SUFFICES ASSUME IInv, NEW r \in Requests,
                    \/ Receive(r) \/ TurnAway(r) \/ Identify(r) \/ Confirm(r) \/ Provision(r)
                    \/ Me(r) \/ Rename(r) \/ ListAddresses(r) \/ CreateAddress(r) \/ Deliver(r)
                    \/ Login(r) \/ AppRequest(r)
                    \/ IdentifyStaff(r) \/ StaffMe(r) \/ Edit(r) \/ RemoveUser(r) \/ Fail(r)
             PROVE  IInv'
  BY StutterKept DEF Next
<1> QED BY ReceiveKept, FailureKept, IdentifyKept, ProvisionKept, ReadsKept, RenameKept,
           CreateAddressKept, LoginKept, AppRequestKept, EditKept, RemoveKept

THEOREM AccountsInv == Spec => []IInv
BY AccountsInit, AccountsStep, PTL DEF Spec

\* Two rows of users never share an e-mail or an identity and no address is of
\* a row that is gone, whatever sign-ups, first requests, renames, edits and
\* deletions overlap.
THEOREM AccountsTyped == Spec => []TypeOK
<1>1. IInv => TypeOK
  BY DEF IInv
<1> QED BY <1>1, AccountsInv, PTL

\* resolve_user, get_current_user and resolve_staff_user: who was deactivated
\* before a request came in is not served by it, unless somebody, or a rename
\* under way, activated the account again.
THEOREM NobodyReturnsUnasked == Spec => []DeactivatedStaysOut
<1>1. IInv => DeactivatedStaysOut
  BY DEF IInv, RequestInv, DeactivatedStaysOut
<1> QED BY <1>1, AccountsInv, PTL

\* list_addresses, create_address and get_address: all addresses a customer was
\* told of are listed, and nobody else's, however often create_from_cognito raced.
THEOREM AddressesStayTogether == Spec => []AddressesAreFound
<1>1. IInv => AddressesAreFound
  BY DEF IInv, RequestInv, Found, AddressesAreFound
<1> QED BY <1>1, AccountsInv, PTL
=============================================================================
