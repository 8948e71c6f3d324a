---------------------------- MODULE ResourceService ----------------------------
(***************************************************************************)
(* The generic resource endpoints of the admin API                         *)
(* (admin_api/services/resource_service.py), on the tables of the catalog. *)
(* A request checks the caller and the payload against the registry of     *)
(* resources, and then runs its statements one after the other, each       *)
(* committed by itself (_execute): the row before the change, the change,  *)
(* its audit record, and for items of a gift box the reading and filling   *)
(* of the box's contents line.                                             *)
(*                                                                         *)
(* The embeddings of products are here because their foreign key restricts *)
(* what can be deleted; Catalogue has the job that writes them.            *)
(***************************************************************************)
EXTENDS Integers, Sequences, FiniteSets, SequencesExt

CONSTANTS
    Products, Boxes, Items,     \* ids, used at most once
    Categories,     \* ids of the categories, which no one changes here
    Statuses,       \* what a product's status is set to
    Requests,
    Tasks,          \* what the requests ask: [op, table, key, values, claims]
    FirstRows,      \* id |-> its row at the start, None when there is none
    MaxFailures,    \* bound: requests, runs of the job and searches that die
    None

VARIABLES
    rows,       \* id |-> its row in products, gift_boxes or gift_box_items
    embeddings, \* product |-> created_at of its row in product_embeddings, 0 without one
    draft,      \* the same for the rows of the job's open transaction
    audit,      \* audit_logs
    req,        \* request |-> where it is and what it has read
    failures,
    task,       \* the tasks of this run
    raced       \* ids that overlapping requests edited, or one that died
                \* before its audit record

tables == <<rows, audit>>
staffVars == <<tables, embeddings, draft, req, failures, task, raced>>

Keys == Products \cup Boxes \cup Items

\* A contents line is blank, typed by staff or made from the names of items.
Line(by, of) == [by |-> by, of |-> of]
Blank        == Line("nobody", {})

ProductRow(status, price, category) ==
    [status |-> status, base_price |-> price, category_id |-> category]
BoxRow(price, line) == [selling_price |-> price, contents_line |-> line]
ItemRow(box, product) == [gift_box_id |-> box, product_id |-> product]

Lines       == [by : {"nobody", "staff", "autofill"}, of : SUBSET Items]
Amounts     == Int \cup {None}
ProductRows == [status : Statuses, base_price : Amounts, category_id : Categories \cup {None}]
BoxRows     == [selling_price : Amounts, contents_line : Lines]
ItemRows    == [gift_box_id : Boxes \cup {None}, product_id : Products \cup {None}]
-----------------------------------------------------------------------------
Staff == {"super_admin", "admin", "ops", "sales"}

Open(relations, writable, required, filterable, sortable) ==
    [relations |-> relations, writable |-> writable, required |-> required,
     filterable |-> filterable, sortable |-> sortable,
     groups |-> [o \in {"read", "create", "update", "delete"} |-> Staff]]

\* Of the columns those the properties tell apart, of the sortable ones those
\* with an order here.
ProductResource ==
    Open({"category"}, {"status", "base_price", "category_id"}, {"status"},
         {"status", "category_id"}, {"base_price"})
BoxResource  == Open({}, {"selling_price", "contents_line"}, {}, {}, {"selling_price"})
ItemResource ==
    Open({"gift_box", "product"}, {"gift_box_id", "product_id"}, {"gift_box_id", "product_id"},
         {"gift_box_id"}, {"gift_box_id"})

\* Nobody writes embeddings through the API.
EmbeddingResource ==
    [Open({"product"}, {}, {}, {"product_id"}, {}) EXCEPT
        !.groups = [o \in {"read", "create", "update", "delete"} |-> IF o = "read" THEN Staff ELSE {}]]

Registry ==
    [products |-> ProductResource, gift_boxes |-> BoxResource,
     gift_box_items |-> ItemResource, product_embeddings |-> EmbeddingResource]

KeysOf(table) ==
    CASE table = "products"       -> Products
      [] table = "gift_boxes"     -> Boxes
      [] table = "gift_box_items" -> Items
      [] OTHER                    -> {}

\* The columns of a new row the payload does not name are null.
Defaults(table) ==
    CASE table = "products"   -> ProductRow(None, None, None)
      [] table = "gift_boxes" -> BoxRow(None, Blank)
      [] OTHER                -> ItemRow(None, None)

ColumnType ==
    [status |-> Statuses, base_price |-> Amounts, category_id |-> Categories \cup {None},
     selling_price |-> Amounts, contents_line |-> Lines,
     gift_box_id |-> Boxes \cup {None}, product_id |-> Products \cup {None}]

\* The tables staff change: an id is a row's of one table, and at the start
\* every foreign key refers to a row.
ASSUME RowsAssumption ==
    /\ Products \cap Boxes = {} /\ Products \cap Items = {} /\ Boxes \cap Items = {}
    /\ None \notin Keys \cup ProductRows \cup BoxRows \cup ItemRows
    /\ DOMAIN FirstRows = Keys
    /\ \A p \in Products : FirstRows[p] \in ProductRows \cup {None}
    /\ \A b \in Boxes : FirstRows[b] \in BoxRows \cup {None}
    /\ \A i \in Items : FirstRows[i] # None =>
         /\ FirstRows[i] \in ItemRows
         /\ \A k \in {FirstRows[i].gift_box_id, FirstRows[i].product_id} \ {None} : FirstRows[k] # None
    /\ MaxFailures \in Nat

Set(row, values) == [c \in DOMAIN row |-> IF c \in DOMAIN values THEN values[c] ELSE row[c]]
-----------------------------------------------------------------------------
Idle(at, answer) ==
    [at |-> at, old |-> None, new |-> None, boxes |-> <<>>, of |-> {}, answer |-> answer]

Codes == {0, 200, 201, 401, 403, 404, 409, 422, 500}
Busy  == {"looking", "writing", "auditing", "filling", "gathering", "rewriting"}
Op(r) == task[r].op
KeyOf(r) == task[r].key

Init ==
    /\ rows = FirstRows
    /\ embeddings = [p \in Products |-> 0] /\ draft = embeddings
    /\ audit = <<>>
    /\ task \in Tasks
    /\ req = [r \in Requests |-> Idle("new", 0)]
    /\ failures = 0
    /\ raced = {}

Finish(r, answer) == req' = [req EXCEPT ![r] = Idle("done", answer)]
Go(r, at) == req' = [req EXCEPT ![r].at = at]
Quietly == UNCHANGED <<tables, embeddings, draft, failures, task, raced>>
-----------------------------------------------------------------------------
Reads == {"list", "detail", "related", "lookup"}
Changes == {"create", "update", "delete"}
Operation(q) == IF q.op \in Reads THEN "read" ELSE q.op

\* What a change names: a row of the table, which a new one gets from the
\* database and has to itself, and values the columns can have.  An id that was
\* never given to a row is one without a row.
ASSUME TasksAssumption ==
    \A t \in Tasks, r \in Requests :
        /\ t[r].op \in Reads \cup Changes
        /\ t[r].op \in Changes /\ t[r].table \in {"products", "gift_boxes", "gift_box_items"} =>
             /\ t[r].key \in KeysOf(t[r].table)
             /\ \A c \in DOMAIN t[r].values \cap DOMAIN ColumnType : t[r].values[c] \in ColumnType[c]
             /\ t[r].op = "create" =>
                  /\ FirstRows[t[r].key] = None
                  /\ \A s \in Requests \ {r} : ~(t[s].op = "create" /\ t[s].key = t[r].key)

\* resolve_staff_user, then require_group: no group at all can satisfy an empty
\* list.
Unauthorized(q) ==
    IF q.claims.profile # "active" THEN 401
    ELSE IF q.claims.groups \cap Registry[q.table].groups[Operation(q)] = {} THEN 403 ELSE 0

\* Mutant of Invalid: a new row may lack what it must have.
InvalidUnlessUnknown(q) ==
    ~(DOMAIN q.values \subseteq Registry[q.table].writable) \/ DOMAIN q.values = {}

\* _validate_write_payload, and the empty payloads its callers refuse.
Invalid(q) ==
    LET resource == Registry[q.table] IN
    \/ ~(DOMAIN q.values \subseteq resource.writable)
    \/ q.op = "create" /\ ~(resource.required \subseteq DOMAIN q.values)
    \/ DOMAIN q.values = {}

Refusal(q) ==
    IF q.table \notin DOMAIN Registry THEN 404
    ELSE IF Unauthorized(q) # 0 THEN Unauthorized(q)
    ELSE IF q.op \in {"create", "update"} /\ Invalid(q) THEN 422 ELSE 0

\* The ids a request is about: writing an item may fill the line of any box.
About(r) == {KeyOf(r)} \cup (IF task[r].table = "gift_box_items" THEN Boxes ELSE {})

Others(r) ==
    {s \in Requests \ {r} : req[s].at \in Busy /\ About(s) \cap About(r) # {}}

\* create writes at once; update and delete read the audited row first.
Receive(r) ==
    /\ req[r].at = "new" /\ Op(r) \notin Reads
    /\ IF Refusal(task[r]) # 0 THEN Finish(r, Refusal(task[r])) /\ UNCHANGED raced
       ELSE /\ Go(r, IF Op(r) = "create" THEN "writing" ELSE "looking")
            /\ raced' = raced \cup UNION {About(r) \cap About(s) : s \in Others(r)}
    /\ UNCHANGED <<tables, embeddings, draft, failures, task>>

\* detail_resource.
LookUp(r) ==
    /\ req[r].at = "looking"
    /\ IF rows[KeyOf(r)] = None THEN Finish(r, 404)
       ELSE req' = [req EXCEPT ![r].at = "writing", ![r].old = rows[KeyOf(r)]]
    /\ Quietly

\* Rows another row refers to; the job's open transaction holds its products.
Referenced(k) ==
    \/ \E i \in Items : rows[i] # None /\ (rows[i].gift_box_id = k \/ rows[i].product_id = k)
    \/ k \in Products /\ embeddings[k] > 0
Held(k) == k \in Products /\ draft[k] > 0 /\ embeddings[k] = 0

Dangling(row) ==
    /\ "gift_box_id" \in DOMAIN row
    /\ \E k \in {row.gift_box_id, row.product_id} \ {None} : rows[k] = None

Wrote(r, row) ==
    /\ rows' = [rows EXCEPT ![KeyOf(r)] = row]
    /\ req' = [req EXCEPT ![r].at = "auditing", ![r].new = row]

Insert(r) ==
    /\ Op(r) = "create"
    /\ LET row == Set(Defaults(task[r].table), task[r].values) IN
         IF Dangling(row) THEN Finish(r, 409) /\ UNCHANGED rows ELSE Wrote(r, row)

Update(r) ==
    /\ Op(r) = "update"
    /\ IF rows[KeyOf(r)] = None THEN Finish(r, 404) /\ UNCHANGED rows
       ELSE LET row == Set(rows[KeyOf(r)], task[r].values) IN
            IF Dangling(row) THEN Finish(r, 409) /\ UNCHANGED rows ELSE Wrote(r, row)

\* A row that is gone already is deleted, and audited, once more.
Delete(r) ==
    /\ Op(r) = "delete" /\ ~Held(KeyOf(r))
    /\ IF Referenced(KeyOf(r)) THEN Finish(r, 409) /\ UNCHANGED rows ELSE Wrote(r, None)

Write(r) ==
    /\ req[r].at = "writing"
    /\ Insert(r) \/ Update(r) \/ Delete(r)
    /\ UNCHANGED <<audit, embeddings, draft, failures, task, raced>>
-----------------------------------------------------------------------------
\* Mutant of MeaningfullyChanged: only changes of the line count.
MeaningfullyChangedLine(table, old, new) ==
    \/ old = None \/ new = None \/ Registry[table].relations # {}
    \/ old.contents_line # new.contents_line

\* The old row was read with a column for each relation, which the new one,
\* RETURNING *, does not have: where there are relations every update counts.
MeaningfullyChanged(table, old, new) ==
    old = None \/ new = None \/ Registry[table].relations # {} \/ old # new

BoxesOf(r) ==
    LET old == req[r].old
        new == req[r].new
    IN IF task[r].table # "gift_box_items" THEN <<>>
       ELSE IF new = None THEN <<old.gift_box_id>>
       ELSE IF old # None /\ old.gift_box_id # new.gift_box_id THEN <<new.gift_box_id, old.gift_box_id>>
       ELSE <<new.gift_box_id>>

Code(r) == IF Op(r) = "create" THEN 201 ELSE 200

Continue(r, boxes) ==
    IF boxes = <<>> THEN Finish(r, Code(r))
    ELSE req' = [req EXCEPT ![r].at = "filling", ![r].boxes = boxes, ![r].of = {}]

\* audit_service.record, in a transaction of its own.
Audit(r) ==
    /\ req[r].at = "auditing"
    /\ audit' = IF MeaningfullyChanged(task[r].table, req[r].old, req[r].new)
                THEN Append(audit, [key |-> KeyOf(r), old |-> req[r].old, new |-> req[r].new])
                ELSE audit
    /\ Continue(r, BoxesOf(r))
    /\ UNCHANGED <<rows, embeddings, draft, failures, task, raced>>

FilledBox(r) == Head(req[r].boxes)

\* Mutant of ReadLine: whatever the line says it is made anew.
ReadLineAlways(r) ==
    /\ req[r].at = "filling"
    /\ IF FilledBox(r) = None \/ rows[FilledBox(r)] = None
       THEN Continue(r, Tail(req[r].boxes)) ELSE Go(r, "gathering")
    /\ Quietly

\* _autofill_gift_box_contents: an item may be in no box, and only a blank
\* line is filled ...
ReadLine(r) ==
    /\ req[r].at = "filling"
    /\ IF FilledBox(r) = None \/ rows[FilledBox(r)] = None \/ rows[FilledBox(r)].contents_line # Blank
       THEN Continue(r, Tail(req[r].boxes)) ELSE Go(r, "gathering")
    /\ Quietly

\* ... with the items the box has now ...
Gather(r) ==
    /\ req[r].at = "gathering"
    /\ req' = [req EXCEPT ![r].at = "rewriting",
                          ![r].of = {i \in Items : rows[i] # None /\ rows[i].gift_box_id = FilledBox(r)}]
    /\ Quietly

Made(items) == IF items = {} THEN Blank ELSE Line("autofill", items)

\* ... whatever the line has become since it was read.
FillLine(r) ==
    /\ req[r].at = "rewriting"
    /\ LET b == FilledBox(r) IN
         rows' = IF rows[b] = None THEN rows
                 ELSE [rows EXCEPT ![b].contents_line = Made(req[r].of)]
    /\ Continue(r, Tail(req[r].boxes))
    /\ UNCHANGED <<audit, embeddings, draft, failures, task, raced>>
-----------------------------------------------------------------------------
\* filters and ranges: for a column the values asked for, one or several or
\* from one to another.  (Texts, and with them search, are left out.)
Matching(q) ==
    {k \in KeysOf(q.table) : rows[k] # None /\ \A c \in DOMAIN q.values.filters :
                                rows[k][c] \in q.values.filters[c]}

Before(a, b, ascending) ==
    b = None \/ a = b \/ (a # None /\ IF ascending THEN a <= b ELSE a >= b)

\* ORDER BY one column, NULLS LAST: rows with the same value in any order.
Ordered(q, s) ==
    \A i, j \in DOMAIN s :
        i < j => Before(rows[s[i]][q.values.sort], rows[s[j]][q.values.sort], q.values.ascending)

\* LIMIT page_size OFFSET page * page_size.
Page(q, s) ==
    SubSeq(s, q.values.page * q.values.size + 1,
           IF (q.values.page + 1) * q.values.size < Len(s) THEN (q.values.page + 1) * q.values.size ELSE Len(s))

\* A filter or an order by a column the resource does not open for it.
QueryError(q) ==
    \/ ~(DOMAIN q.values.filters \subseteq Registry[q.table].filterable)
    \/ q.values.sort \notin Registry[q.table].sortable

Asked(r, op) == req[r].at = "new" /\ Op(r) = op
Answer(r, keys, total) ==
    req' = [req EXCEPT ![r] = [at |-> "done", old |-> None, new |-> total, boxes |-> keys,
                               of |-> {}, answer |-> 200]]

\* list_resource: the total comes with the rows, so a page past the end has 0.
List(r) ==
    /\ Asked(r, "list")
    /\ LET q == task[r] IN
         IF Refusal(q) # 0 THEN Finish(r, Refusal(q))
         ELSE IF QueryError(q) THEN Finish(r, 422)
         ELSE \E s \in SetToSeqs(Matching(q)) :
                Ordered(q, s) /\ Answer(r, Page(q, s), IF Page(q, s) = <<>> THEN 0 ELSE Len(s))
    /\ Quietly

\* related_resource: a child table by one foreign key, its first page.
Related(r) ==
    /\ Asked(r, "related")
    /\ LET q == [task[r] EXCEPT !.values = [page |-> 0] @@ @] IN
         IF Refusal(q) # 0 THEN Finish(r, Refusal(q))
         ELSE IF QueryError(q) THEN Finish(r, 422)
         ELSE \E s \in SetToSeqs(Matching(q)) : Ordered(q, s) /\ Answer(r, Page(q, s), None)
    /\ Quietly

\* build_lookup_query takes any column of the table.
LookupError(q) == q.values.sort \notin DOMAIN Defaults(q.table)

\* lookup_resource: every row, up to a limit of 1000 that is out of reach.
Lookup(r) ==
    /\ Asked(r, "lookup")
    /\ LET q == [task[r] EXCEPT !.values = [filters |-> <<>>, ascending |-> TRUE] @@ @] IN
         IF Refusal(q) # 0 THEN Finish(r, Refusal(q))
         ELSE IF LookupError(q) THEN Finish(r, 422)
         ELSE \E s \in SetToSeqs(Matching(q)) : Ordered(q, s) /\ Answer(r, s, None)
    /\ Quietly

\* detail_resource, as a request of its own.
Detail(r) ==
    /\ Asked(r, "detail")
    /\ IF Refusal(task[r]) # 0 THEN Finish(r, Refusal(task[r]))
       ELSE IF rows[KeyOf(r)] = None THEN Finish(r, 404)
       ELSE Answer(r, <<KeyOf(r)>>, None)
    /\ Quietly
-----------------------------------------------------------------------------
\* The Lambda dies or a statement fails: what was committed stays.
Fail(r) ==
    /\ req[r].at \in Busy /\ failures < MaxFailures
    /\ failures' = failures + 1
    /\ raced' = IF req[r].at = "auditing" THEN raced \cup {KeyOf(r)} ELSE raced
    /\ Finish(r, 500)
    /\ UNCHANGED <<tables, embeddings, draft, task>>

Serve(r) ==
    \/ Receive(r) \/ LookUp(r) \/ Write(r) \/ Audit(r) \/ ReadLine(r) \/ Gather(r) \/ FillLine(r)
    \/ List(r) \/ Related(r) \/ Lookup(r) \/ Detail(r)
-----------------------------------------------------------------------------
\* What the first n entries of the log have a row become.
Told(k, n) == {i \in 1 .. n : audit[i].key = k}
Logged(k, n) == IF Told(k, n) = {} THEN FirstRows[k] ELSE audit[Max(Told(k, n))].new

\* What the log has of a row: autofilled lines are not audited.
Audited(k, row) == IF k \in Boxes /\ row # None THEN row.selling_price ELSE row

\* Replaying the audit log of a row leads from its first to its present
\* contents without a gap, as long as edits of it do not overlap and none dies
\* between its change and its audit record.
AuditReplays ==
    \A k \in Keys \ raced :
        /\ \A i \in Told(k, Len(audit)) : Audited(k, audit[i].old) = Audited(k, Logged(k, i - 1))
        /\ (\E r \in Requests : KeyOf(r) = k /\ req[r].at = "auditing")
           \/ Audited(k, rows[k]) = Audited(k, Logged(k, Len(audit)))

TypesLine(r) ==
    task[r].table = "gift_boxes" /\ Op(r) \in {"update", "delete"} /\ req[r].at = "writing"

\* Wording staff typed is never overwritten by changes of the items, unless
\* the two requests overlapped.
CustomWordingKept ==
    [][\A b \in Boxes \ raced :
         rows[b] # None /\ rows[b].contents_line.by = "staff" /\ rows'[b] # rows[b]
         => \/ rows'[b] # None /\ rows'[b].contents_line = rows[b].contents_line
            \/ \E r \in Requests : KeyOf(r) = b /\ TypesLine(r)]_staffVars
=============================================================================
