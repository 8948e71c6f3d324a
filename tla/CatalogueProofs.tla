---------------------------- MODULE CatalogueProofs ----------------------------
(***************************************************************************)
(* Theorems about Catalogue: rows keep their types and foreign keys, the   *)
(* audit log replays, wording staff typed is kept, and a search with a     *)
(* budget keeps to what is on sale, whatever staff, the import, the job    *)
(* and the search do at once.                                              *)
(***************************************************************************)
EXTENDS Catalogue, SequenceFacts

RowsOf(table) ==
    CASE table = "products"       -> ProductRows
      [] table = "gift_boxes"     -> BoxRows
      [] table = "gift_box_items" -> ItemRows
      [] OTHER                    -> {}

AnyRow == ProductRows \cup BoxRows \cup ItemRows
Written == {"products", "gift_boxes", "gift_box_items"}

\* The tables, what is derived from them, and the log.
TableTypes ==
    /\ DOMAIN rows = Keys
    /\ \A t \in Written : \A k \in KeysOf(t) : rows[k] \in RowsOf(t) \cup {None}
    /\ embeddings \in [Products -> Nat] /\ draft \in [Products -> Nat]
    /\ \A p \in Products : embeddings[p] <= draft[p] /\ draft[p] <= clock
    /\ clock \in 1 .. MaxClock /\ updatedAt \in [Products -> 0 .. clock]
    /\ failures \in 0 .. MaxFailures
    /\ task \in Tasks
    /\ audit \in Seq([key : Keys, old : AnyRow \cup {None}, new : AnyRow \cup {None}])
    /\ \A i \in DOMAIN audit : audit[i].old # None \/ audit[i].new # None

\* The job embeds active products only, and the vector store has nothing else.
JobTypes ==
    /\ job = [at |-> job.at, todo |-> job.todo, product |-> job.product, read |-> job.read]
    /\ job.at \in {"idle", "point", "row"} /\ job.todo \subseteq Products
    /\ job.at = "row" => job.product \in Products
    /\ DOMAIN job.read = Products /\ DOMAIN points = Products
    /\ \A p \in Products : /\ job.read[p] # None => job.read[p].status = "ACTIVE"
                           /\ points[p] # None => points[p].status = "ACTIVE"

\* A search has gone as far as it says, and has found gifts that were on the
\* shelf when it read them; the vector store has had nothing for a budget.
SearchTypes ==
    /\ search = [at |-> search.at, slots |-> search.slots, sql |-> search.sql,
                 semantic |-> search.semantic, products |-> search.products,
                 boxes |-> search.boxes, found |-> search.found, similar |-> search.similar,
                 hits |-> search.hits, web |-> search.web]
    /\ search.at \in {"new", "running", "done", "failed"}
    /\ search.at = "new" => search.products = {} /\ search.boxes = {} /\ search.found = {}
    /\ search.products \subseteq Products /\ search.boxes \subseteq Boxes
    /\ search.found \subseteq Products
    /\ search.at # "new" /\ SemanticBudget(search.slots) # None => search.found = {}
    /\ search.at = "done" => search.hits = Merge(SqlHits, search.found, search.similar)
    /\ \A p \in search.products : p \in touched \/ OnTheShelf(Hit("product", p, "sql_filter", FALSE))
    /\ \A b \in search.boxes : b \in touched \/ OnTheShelf(Hit("gift_box", b, "sql_filter", FALSE))

\* No item of a box and no embedding refers to a row that is gone.
ForeignKeys ==
    /\ \A i \in Items : rows[i] # None =>
         \A k \in {rows[i].gift_box_id, rows[i].product_id} \ {None} : rows[k] # None
    /\ \A p \in Products : draft[p] > 0 => rows[p] # None

\* What a request has read and written, and that it was accepted.
RequestTypes ==
    /\ DOMAIN req = Requests
    /\ \A r \in Requests :
         /\ req[r] = [at |-> req[r].at, old |-> req[r].old, new |-> req[r].new,
                      boxes |-> req[r].boxes, of |-> req[r].of, answer |-> req[r].answer]
         /\ req[r].at \in Busy \cup {"new", "done"} /\ req[r].answer \in Codes
         /\ req[r].at = "new" => req[r].old = None

Steps(r) ==
    /\ req[r].at \in Busy => Refusal(task[r]) = 0 /\ Op(r) \in Changes
    /\ req[r].at = "looking" => Op(r) # "create" /\ req[r].old = None
    /\ req[r].at = "writing" =>
         IF Op(r) = "create" THEN req[r].old = None ELSE req[r].old \in RowsOf(task[r].table)
    /\ req[r].at = "auditing" =>
         /\ IF Op(r) = "create" THEN req[r].old = None ELSE req[r].old \in RowsOf(task[r].table)
         /\ IF Op(r) = "delete" THEN req[r].new = None ELSE req[r].new \in RowsOf(task[r].table)
    /\ req[r].at \in {"filling", "gathering", "rewriting"} =>
         /\ task[r].table = "gift_box_items"
         /\ req[r].boxes \in Seq(Boxes \cup {None}) /\ req[r].boxes # <<>>
         /\ req[r].of \subseteq Items
    /\ req[r].at \in {"gathering", "rewriting"} => FilledBox(r) \in Boxes

\* The id of a new row has none before.
Fresh(r) ==
    req[r].at \in {"new", "writing"} /\ Op(r) = "create" /\ Refusal(task[r]) = 0
    => rows[KeyOf(r)] = None

\* Requests that are at work at once have nothing in common that is not raced.
Apart ==
    \A r, s \in Requests :
        r # s /\ req[r].at \in Busy /\ req[s].at \in Busy => About(r) \cap About(s) \subseteq raced

\* The line a request has found blank is still blank when it fills it.
BlankWhenFilled(r) ==
    req[r].at \in {"gathering", "rewriting"} /\ FilledBox(r) \notin raced
    => rows[FilledBox(r)] = None \/ rows[FilledBox(r)].contents_line = Blank

\* The row a request is about to write is the one it has read.
ReadIsCurrent(r) ==
    req[r].at = "writing" /\ Op(r) # "create" /\ KeyOf(r) \notin raced
    => Audited(KeyOf(r), req[r].old) = Audited(KeyOf(r), rows[KeyOf(r)])

\* Between its change and its audit record a request knows what the log lacks.
WriterKnows(r) ==
    req[r].at = "auditing" /\ KeyOf(r) \notin raced
    => /\ Audited(KeyOf(r), rows[KeyOf(r)]) = Audited(KeyOf(r), req[r].new)
       /\ Audited(KeyOf(r), Logged(KeyOf(r), Len(audit))) = Audited(KeyOf(r), req[r].old)

PerRequest ==
    \A r \in Requests : Steps(r) /\ Fresh(r) /\ BlankWhenFilled(r) /\ ReadIsCurrent(r) /\ WriterKnows(r)

IInv ==
    /\ TableTypes /\ JobTypes /\ SearchTypes /\ ForeignKeys
    /\ RequestTypes /\ PerRequest /\ Apart /\ AuditReplays
-----------------------------------------------------------------------------
(* Rows and tables.                                                        *)

\* The tables staff change have ids of their own.
LEMMA TablesApart ==
    ASSUME NEW t \in Written, NEW u \in Written, NEW k \in KeysOf(t), k \in KeysOf(u)
    PROVE  t = u /\ k \in Keys /\ k # None
BY RowsAssumption DEF Written, KeysOf, Keys

\* A row is a row of its table, and none is the absence of one.
LEMMA RowsAreRows ==
    ASSUME NEW t \in Written, NEW row \in RowsOf(t)
    PROVE  row \in AnyRow /\ row # None
BY RowsAssumption DEF Written, RowsOf, AnyRow

LEMMA KeyKinds ==
    /\ \A p \in Products : p \in KeysOf("products") /\ RowsOf("products") = ProductRows
    /\ \A b \in Boxes : b \in KeysOf("gift_boxes") /\ RowsOf("gift_boxes") = BoxRows
    /\ \A i \in Items : i \in KeysOf("gift_box_items") /\ RowsOf("gift_box_items") = ItemRows
    /\ "products" \in Written /\ "gift_boxes" \in Written /\ "gift_box_items" \in Written
    /\ KeysOf("products") = Products /\ KeysOf("gift_boxes") = Boxes /\ KeysOf("gift_box_items") = Items
    /\ \A k \in Keys : \E t \in Written : k \in KeysOf(t)
BY DEF Written, RowsOf, KeysOf, Keys

LEMMA ColumnTypes ==
    /\ DOMAIN ColumnType = {"status", "base_price", "category_id", "selling_price", "contents_line",
                            "gift_box_id", "product_id"}
    /\ ColumnType["status"] = Statuses /\ ColumnType["base_price"] = Amounts
    /\ ColumnType["category_id"] = Categories \cup {None}
    /\ ColumnType["selling_price"] = Amounts /\ ColumnType["contents_line"] = Lines
    /\ ColumnType["gift_box_id"] = Boxes \cup {None} /\ ColumnType["product_id"] = Products \cup {None}
BY DEF ColumnType

Typed(values) == \A c \in DOMAIN values \cap DOMAIN ColumnType : values[c] \in ColumnType[c]

\* An update of a row is a row of its table.
LEMMA SetKeepsType ==
    ASSUME NEW t \in Written, NEW row \in RowsOf(t), NEW values, Typed(values)
    PROVE  Set(row, values) \in RowsOf(t)
<1>1. CASE t = "products"
  <2>1. row \in ProductRows
    BY <1>1 DEF RowsOf
  <2>2. DOMAIN row = {"status", "base_price", "category_id"}
    BY <2>1 DEF ProductRows
  <2>3. row["status"] \in Statuses /\ row["base_price"] \in Amounts
        /\ row["category_id"] \in Categories \cup {None}
    BY <2>1 DEF ProductRows
  <2>4. Set(row, values) \in ProductRows
    BY <2>2, <2>3, ColumnTypes DEF ProductRows, Set, Typed
  <2> QED BY <1>1, <2>4 DEF RowsOf
<1>2. CASE t = "gift_boxes"
  <2>1. row \in BoxRows
    BY <1>2 DEF RowsOf
  <2>2. DOMAIN row = {"selling_price", "contents_line"}
    BY <2>1 DEF BoxRows
  <2>3. row["selling_price"] \in Amounts /\ row["contents_line"] \in Lines
    BY <2>1 DEF BoxRows
  <2>4. Set(row, values) \in BoxRows
    BY <2>2, <2>3, ColumnTypes DEF BoxRows, Set, Typed
  <2> QED BY <1>2, <2>4 DEF RowsOf
<1>3. CASE t = "gift_box_items"
  <2>1. row \in ItemRows
    BY <1>3 DEF RowsOf
  <2>2. DOMAIN row = {"gift_box_id", "product_id"}
    BY <2>1 DEF ItemRows
  <2>3. row["gift_box_id"] \in Boxes \cup {None} /\ row["product_id"] \in Products \cup {None}
    BY <2>1 DEF ItemRows
  <2>4. Set(row, values) \in ItemRows
    BY <2>2, <2>3, ColumnTypes DEF ItemRows, Set, Typed
  <2> QED BY <1>3, <2>4 DEF RowsOf
<1> QED BY <1>1, <1>2, <1>3 DEF Written

LEMMA BlankIsALine == Blank \in Lines /\ \A items \in SUBSET Items : Made(items) \in Lines
BY DEF Blank, Line, Lines, Made

\* A new row too, if it has a status when it is a product's.
LEMMA CreatedRow ==
    ASSUME NEW t \in Written, NEW values, Typed(values), t = "products" => "status" \in DOMAIN values
    PROVE  Set(Defaults(t), values) \in RowsOf(t)
<1>1. CASE t = "products"
  <2>1. DOMAIN Defaults(t) = {"status", "base_price", "category_id"}
        /\ Defaults(t)["base_price"] \in Amounts /\ Defaults(t)["category_id"] \in Categories \cup {None}
    BY <1>1 DEF Defaults, ProductRow, Amounts
  <2>2. Set(Defaults(t), values) \in ProductRows
    BY <1>1, <2>1, ColumnTypes DEF ProductRows, Set, Typed
  <2> QED BY <1>1, <2>2 DEF RowsOf
<1>2. CASE t = "gift_boxes"
  <2>1. Defaults(t) \in BoxRows
    BY <1>2, BlankIsALine DEF Defaults, BoxRow, BoxRows, Amounts
  <2> QED BY <1>2, <2>1, SetKeepsType DEF RowsOf
<1>3. CASE t = "gift_box_items"
  <2>1. Defaults(t) \in ItemRows
    BY <1>3 DEF Defaults, ItemRow, ItemRows
  <2> QED BY <1>3, <2>1, SetKeepsType DEF RowsOf
<1> QED BY <1>1, <1>2, <1>3 DEF Written
-----------------------------------------------------------------------------
(* Requests.                                                               *)

\* A change that is not refused is one of a table staff change, of an id of it
\* and with values of its columns; a new row is of an id of its own.
LEMMA Accepted ==
    ASSUME TableTypes, NEW r \in Requests, Op(r) \in Changes, Refusal(task[r]) = 0
    PROVE  /\ task[r].table \in Written /\ KeyOf(r) \in KeysOf(task[r].table)
           /\ Typed(task[r].values)
           /\ Op(r) = "create" /\ task[r].table = "products" => "status" \in DOMAIN task[r].values
           /\ Op(r) = "create" => /\ FirstRows[KeyOf(r)] = None
                                  /\ \A s \in Requests \ {r} : ~(Op(s) = "create" /\ KeyOf(s) = KeyOf(r))
<1> DEFINE q == task[r]
<1>1. q.table \in DOMAIN Registry /\ Unauthorized(q) = 0
  BY DEF Refusal
<1>2. q.table \in Written \cup {"product_embeddings"}
  BY <1>1 DEF Registry, Written
<1>3. Operation(q) \in Changes /\ Operation(q) = Op(r)
  BY DEF Operation, Op, Changes, Reads
<1>4. q.table # "product_embeddings"
  <2> SUFFICES ASSUME q.table = "product_embeddings" PROVE FALSE
    OBVIOUS
  <2>1. Registry[q.table].groups = [o \in {"read", "create", "update", "delete"} |-> IF o = "read" THEN Staff ELSE {}]
    <3>1. Registry[q.table] = EmbeddingResource
      BY DEF Registry
    <3>2. "groups" \in DOMAIN Open({"product"}, {}, {}, {"product_id"}, {})
      BY DEF Open
    <3>3. EmbeddingResource.groups
          = [o \in {"read", "create", "update", "delete"} |-> IF o = "read" THEN Staff ELSE {}]
      BY <3>2 DEF EmbeddingResource
    <3> QED BY <3>1, <3>3
  <2>2. Registry[q.table].groups[Operation(q)] = {}
    BY <2>1, <1>3 DEF Changes
  <2> QED BY <2>2, <1>1 DEF Unauthorized
<1>5. task \in Tasks
  BY DEF TableTypes
<1>6. /\ q.key \in KeysOf(q.table) /\ Typed(q.values)
      /\ q.op = "create" => /\ FirstRows[q.key] = None
                            /\ \A s \in Requests \ {r} : ~(task[s].op = "create" /\ task[s].key = q.key)
  BY <1>2, <1>4, <1>5, TasksAssumption DEF Written, Typed, Op, Changes
<1>7. ASSUME q.op = "create", q.table = "products" PROVE "status" \in DOMAIN q.values
  <2>1. ~Invalid(q)
    BY <1>7, <1>1 DEF Refusal
  <2>2. Registry[q.table].required = {"status"}
    BY <1>7 DEF Registry, ProductResource, Open
  <2> QED BY <1>7, <2>1, <2>2 DEF Invalid
<1> QED BY <1>2, <1>4, <1>6, <1>7 DEF Op, KeyOf

LEMMA RefusalCodes == \A q : Refusal(q) \in Codes
BY DEF Refusal, Unauthorized, Codes

\* A step of r leaves the other requests where they are.
Only(r) == DOMAIN req' = Requests /\ \A s \in Requests \ {r} : req'[s] = req[s]

LEMMA IdleIs ==
    ASSUME NEW at, NEW answer
    PROVE  /\ Idle(at, answer).at = at /\ Idle(at, answer).old = None /\ Idle(at, answer).answer = answer
           /\ Idle(at, answer) = [at |-> Idle(at, answer).at, old |-> Idle(at, answer).old,
                                  new |-> Idle(at, answer).new, boxes |-> Idle(at, answer).boxes,
                                  of |-> Idle(at, answer).of, answer |-> Idle(at, answer).answer]
BY DEF Idle

LEMMA FinishIs ==
    ASSUME RequestTypes, NEW r \in Requests, NEW answer, Finish(r, answer)
    PROVE  Only(r) /\ req'[r] = Idle("done", answer)
BY DEF RequestTypes, Finish, Only

LEMMA GoIs ==
    ASSUME RequestTypes, NEW r \in Requests, NEW at, Go(r, at)
    PROVE  /\ Only(r)
           /\ req'[r] = [at |-> at, old |-> req[r].old, new |-> req[r].new, boxes |-> req[r].boxes,
                         of |-> req[r].of, answer |-> req[r].answer]
BY DEF RequestTypes, Go, Only

LEMMA ContinueIs ==
    ASSUME RequestTypes, NEW r \in Requests, NEW boxes, Continue(r, boxes)
    PROVE  /\ Only(r)
           /\ IF boxes = <<>> THEN req'[r] = Idle("done", Code(r))
              ELSE req'[r] = [at |-> "filling", old |-> req[r].old, new |-> req[r].new,
                              boxes |-> boxes, of |-> {}, answer |-> req[r].answer]
<1>1. CASE boxes = <<>>
  BY <1>1, FinishIs DEF Continue
<1>2. CASE boxes # <<>>
  <2>1. req' = [req EXCEPT ![r].at = "filling", ![r].boxes = boxes, ![r].of = {}]
    BY <1>2 DEF Continue
  <2>2. Only(r)
    BY <2>1 DEF RequestTypes, Only
  <2>3. req'[r] = [[[req[r] EXCEPT !.at = "filling"] EXCEPT !.boxes = boxes] EXCEPT !.of = {}]
    BY <2>1 DEF RequestTypes
  <2> QED BY <1>2, <2>2, <2>3 DEF RequestTypes
<1> QED BY <1>1, <1>2

LEMMA LookedUpIs ==
    ASSUME RequestTypes, NEW r \in Requests, NEW row,
           req' = [req EXCEPT ![r].at = "writing", ![r].old = row]
    PROVE  /\ Only(r)
           /\ req'[r] = [at |-> "writing", old |-> row, new |-> req[r].new, boxes |-> req[r].boxes,
                         of |-> req[r].of, answer |-> req[r].answer]
<1>1. Only(r)
  BY DEF RequestTypes, Only
<1>2. req'[r] = [[req[r] EXCEPT !.at = "writing"] EXCEPT !.old = row]
  BY DEF RequestTypes
<1> QED BY <1>1, <1>2 DEF RequestTypes

LEMMA WroteIs ==
    ASSUME RequestTypes, NEW r \in Requests, NEW row, Wrote(r, row)
    PROVE  /\ Only(r)
           /\ req'[r] = [at |-> "auditing", old |-> req[r].old, new |-> row, boxes |-> req[r].boxes,
                         of |-> req[r].of, answer |-> req[r].answer]
<1>1. Only(r)
  BY DEF RequestTypes, Only, Wrote
<1>2. req'[r] = [[req[r] EXCEPT !.at = "auditing"] EXCEPT !.new = row]
  BY DEF RequestTypes, Wrote
<1> QED BY <1>1, <1>2 DEF RequestTypes

LEMMA GatherIs ==
    ASSUME RequestTypes, NEW r \in Requests, Gather(r)
    PROVE  /\ Only(r) /\ req[r].at = "gathering"
           /\ \E items \in SUBSET Items :
                req'[r] = [at |-> "rewriting", old |-> req[r].old, new |-> req[r].new,
                           boxes |-> req[r].boxes, of |-> items, answer |-> req[r].answer]
<1> DEFINE items == {i \in Items : rows[i] # None /\ rows[i].gift_box_id = FilledBox(r)}
<1>0. req' = [req EXCEPT ![r].at = "rewriting", ![r].of = items] /\ req[r].at = "gathering"
  BY DEF Gather
<1> HIDE DEF items
<1>1. Only(r)
  BY <1>0 DEF RequestTypes, Only
<1>2. req'[r] = [[req[r] EXCEPT !.at = "rewriting"] EXCEPT !.of = items]
  BY <1>0 DEF RequestTypes
<1>3. items \subseteq Items
  BY DEF items
<1>4. req'[r] = [at |-> "rewriting", old |-> req[r].old, new |-> req[r].new,
                 boxes |-> req[r].boxes, of |-> items, answer |-> req[r].answer]
  BY <1>2 DEF RequestTypes
<1> QED BY <1>0, <1>1, <1>3, <1>4
-----------------------------------------------------------------------------
(* The search, while others change the tables.                             *)

\* Whether a gift is on the shelf depends on its row and on the search's budget.
LEMMA ShelfSame ==
    ASSUME NEW kind, NEW k, rows'[k] = rows[k], search'.slots = search.slots
    PROVE  OnTheShelf(Hit(kind, k, "sql_filter", FALSE))' <=> OnTheShelf(Hit(kind, k, "sql_filter", FALSE))
<1>1. PerRecipientBudget(search.slots)' = PerRecipientBudget(search.slots)
  BY DEF PerRecipientBudget, Truthy
<1>2. Hit(kind, k, "sql_filter", FALSE).id = k /\ Hit(kind, k, "sql_filter", FALSE).kind = kind
  BY DEF Hit
<1>3. OnTheShelf(Hit(kind, k, "sql_filter", FALSE))'
      <=> /\ rows'[k] # None
          /\ IF kind = "product"
             THEN rows'[k].status = "active" /\ InBand(rows'[k].base_price, PerRecipientBudget(search.slots)')
             ELSE InBand(rows'[k].selling_price, PerRecipientBudget(search.slots)')
  BY <1>2 DEF OnTheShelf
<1>4. OnTheShelf(Hit(kind, k, "sql_filter", FALSE))
      <=> /\ rows[k] # None
          /\ IF kind = "product"
             THEN rows[k].status = "active" /\ InBand(rows[k].base_price, PerRecipientBudget(search.slots))
             ELSE InBand(rows[k].selling_price, PerRecipientBudget(search.slots))
  BY <1>2 DEF OnTheShelf
<1> QED BY <1>1, <1>3, <1>4

\* Whatever changed since the search began is touched: the rest is as it read it.
LEMMA TouchKeepsShelf ==
    ASSUME SearchTypes, Touch, search' = search
    PROVE  SearchTypes'
<1>1. /\ touched \subseteq touched' /\ \A k \in Keys \ touched' : rows'[k] = rows[k]
  BY DEF Touch
<1>2. /\ search.products \subseteq Keys /\ search.boxes \subseteq Keys
  BY DEF SearchTypes, Keys
<1>3. ASSUME NEW kind, NEW k \in Keys, k \in touched \/ OnTheShelf(Hit(kind, k, "sql_filter", FALSE))
      PROVE  k \in touched' \/ OnTheShelf(Hit(kind, k, "sql_filter", FALSE))'
  BY <1>1, <1>3, ShelfSame
<1>4. search'.hits = search.hits /\ SqlHits' = SqlHits
  BY DEF SqlHits
<1>5. /\ \A p \in search.products : p \in touched' \/ OnTheShelf(Hit("product", p, "sql_filter", FALSE))'
      /\ \A b \in search.boxes : b \in touched' \/ OnTheShelf(Hit("gift_box", b, "sql_filter", FALSE))'
  BY <1>2, <1>3 DEF SearchTypes
<1> QED BY <1>4, <1>5 DEF SearchTypes
-----------------------------------------------------------------------------
(* Steps of staff's requests.                                              *)

StaffInv ==
    TableTypes /\ ForeignKeys /\ RequestTypes /\ PerRequest /\ Apart /\ AuditReplays

\* What the new state of a request must be for a step that writes no row.
Arrives(r) ==
    /\ req'[r] = [at |-> req'[r].at, old |-> req'[r].old, new |-> req'[r].new,
                  boxes |-> req'[r].boxes, of |-> req'[r].of, answer |-> req'[r].answer]
    /\ req'[r].at \in Busy \cup {"done"} /\ req'[r].answer \in Codes
    /\ Steps(r)' /\ Fresh(r)' /\ BlankWhenFilled(r)' /\ ReadIsCurrent(r)' /\ WriterKnows(r)'
    /\ req'[r].at \in Busy =>
         \A s \in Requests \ {r} : req[s].at \in Busy => About(r) \cap About(s) \subseteq raced'

LEMMA AboutSame ==
    ASSUME UNCHANGED task
    PROVE  \A r : About(r)' = About(r) /\ KeyOf(r)' = KeyOf(r) /\ Op(r)' = Op(r)
BY DEF About, KeyOf, Op

\* Told depends on the log alone, and on its first entries.
LEMMA LoggedSame ==
    ASSUME UNCHANGED audit
    PROVE  \A k, n : Logged(k, n)' = Logged(k, n) /\ Told(k, n)' = Told(k, n)
BY DEF Logged, Told

\* The invariants of a request whose step this is not, when the tables, the log
\* and its state stay as they are and ids at most become raced.
LEMMA OthersStay ==
    ASSUME PerRequest, UNCHANGED <<rows, audit, task>>, raced \subseteq raced', NEW s \in Requests, req'[s] = req[s]
    PROVE  Steps(s)' /\ Fresh(s)' /\ BlankWhenFilled(s)' /\ ReadIsCurrent(s)' /\ WriterKnows(s)'
<1>1. Steps(s) /\ Fresh(s) /\ BlankWhenFilled(s) /\ ReadIsCurrent(s) /\ WriterKnows(s)
  BY DEF PerRequest
<1>2. KeyOf(s)' = KeyOf(s) /\ Op(s)' = Op(s) /\ FilledBox(s)' = FilledBox(s)
  BY DEF KeyOf, Op, FilledBox
<1>3. Steps(s)' /\ Fresh(s)'
  BY <1>1, <1>2 DEF Steps, Fresh
<1>4. BlankWhenFilled(s)' /\ ReadIsCurrent(s)'
  BY <1>1, <1>2 DEF BlankWhenFilled, ReadIsCurrent
<1>5. WriterKnows(s)'
  BY <1>1, <1>2, LoggedSame DEF WriterKnows
<1> QED BY <1>3, <1>4, <1>5

LEMMA TablesStay ==
    ASSUME TableTypes, ForeignKeys, UNCHANGED <<tables, embeddings, draft, task, clock, updatedAt>>,
           failures' \in 0 .. MaxFailures
    PROVE  TableTypes' /\ ForeignKeys'
BY DEF TableTypes, ForeignKeys, tables

\* Apart, after a step of r: only r's own overlaps can be new.
LEMMA ApartAfter ==
    ASSUME Apart, NEW r \in Requests, Only(r), UNCHANGED task, raced \subseteq raced',
           req'[r].at \in Busy =>
             \A s \in Requests \ {r} : req[s].at \in Busy => About(r) \cap About(s) \subseteq raced'
    PROVE  Apart'
<1> SUFFICES ASSUME NEW s \in Requests, NEW u \in Requests, s # u,
                    req'[s].at \in Busy, req'[u].at \in Busy
             PROVE  About(s) \cap About(u) \subseteq raced'
  BY AboutSame DEF Apart
<1>1. CASE s = r
  BY <1>1 DEF Only
<1>2. CASE u = r
  BY <1>2 DEF Only
<1>3. CASE s # r /\ u # r
  BY <1>3 DEF Only, Apart
<1> QED BY <1>1, <1>2, <1>3

LEMMA RequestTypesAfter ==
    ASSUME RequestTypes, NEW r \in Requests, Only(r), Arrives(r)
    PROVE  RequestTypes'
BY DEF RequestTypes, Only, Arrives, Busy

LEMMA QuietStep ==
    ASSUME StaffInv, NEW r \in Requests, Only(r), Arrives(r),
           UNCHANGED <<tables, embeddings, draft, task, clock, updatedAt>>,
           failures' \in 0 .. MaxFailures, raced \subseteq raced',
           req[r].at = "auditing" => KeyOf(r) \in raced'
    PROVE  StaffInv'
<1>1. TableTypes' /\ ForeignKeys'
  BY TablesStay DEF StaffInv
<1>2. RequestTypes'
  BY RequestTypesAfter DEF StaffInv
<1>3. Apart'
  BY ApartAfter DEF StaffInv, Arrives
<1>4. PerRequest'
  <2> SUFFICES ASSUME NEW s \in Requests
               PROVE  Steps(s)' /\ Fresh(s)' /\ BlankWhenFilled(s)' /\ ReadIsCurrent(s)' /\ WriterKnows(s)'
    BY DEF PerRequest
  <2>1. CASE s = r
    BY <2>1 DEF Arrives
  <2>2. CASE s # r
    <3>1. req'[s] = req[s]
      BY <2>2 DEF Only
    <3> QED BY <3>1, OthersStay DEF StaffInv, tables
  <2> QED BY <2>1, <2>2
<1>5. AuditReplays'
  <2> SUFFICES ASSUME NEW k \in Keys, k \notin raced'
               PROVE  /\ \A i \in Told(k, Len(audit)) : Audited(k, audit[i].old) = Audited(k, Logged(k, i - 1))
                      /\ (\E s \in Requests : KeyOf(s) = k /\ req'[s].at = "auditing")
                         \/ Audited(k, rows[k]) = Audited(k, Logged(k, Len(audit)))
    BY LoggedSame, AboutSame DEF AuditReplays, tables, Audited
  <2>1. k \notin raced /\ AuditReplays
    BY DEF StaffInv
  <2>2. \A s \in Requests : KeyOf(s) = k /\ req[s].at = "auditing" => req'[s] = req[s]
    BY DEF Only
  <2> QED BY <2>1, <2>2 DEF AuditReplays
<1> QED BY <1>1, <1>2, <1>3, <1>4, <1>5 DEF StaffInv

\* A request that has ended has nothing left to be careful about.
LEMMA Ends ==
    ASSUME RequestTypes, NEW r \in Requests, NEW answer \in Codes, req'[r] = Idle("done", answer)
    PROVE  Arrives(r)
<1>1. req'[r].at = "done" /\ req'[r].answer = answer
  BY IdleIs
<1>2. Steps(r)' /\ Fresh(r)' /\ BlankWhenFilled(r)' /\ ReadIsCurrent(r)' /\ WriterKnows(r)'
  BY <1>1 DEF Steps, Fresh, BlankWhenFilled, ReadIsCurrent, WriterKnows, Busy
<1>3. req'[r] = [at |-> req'[r].at, old |-> req'[r].old, new |-> req'[r].new,
                 boxes |-> req'[r].boxes, of |-> req'[r].of, answer |-> req'[r].answer]
  BY IdleIs
<1>4. req'[r].at \notin Busy
  BY <1>1 DEF Busy
<1> QED BY <1>1, <1>2, <1>3, <1>4 DEF Arrives

LEMMA StampSame ==
    ASSUME TableTypes, Stamp, UNCHANGED rows
    PROVE  UNCHANGED updatedAt
BY DEF TableTypes, Stamp

LEMMA FailuresType ==
    ASSUME TableTypes
    PROVE  failures \in 0 .. MaxFailures /\ (failures < MaxFailures => failures + 1 \in 0 .. MaxFailures)
BY RowsAssumption DEF TableTypes

LEMMA ReceiveStep ==
    ASSUME StaffInv, NEW r \in Requests, Receive(r), UNCHANGED <<clock, updatedAt>>
    PROVE  StaffInv'
<1>1. /\ req[r].at = "new" /\ Op(r) \notin Reads /\ UNCHANGED <<tables, embeddings, draft, failures, task>>
      /\ raced \subseteq raced'
  BY DEF Receive
<1>2. failures' \in 0 .. MaxFailures
  BY <1>1, FailuresType DEF StaffInv
<1>3. CASE Refusal(task[r]) # 0
  <2>1. Only(r) /\ req'[r] = Idle("done", Refusal(task[r]))
    BY <1>3, FinishIs DEF Receive, StaffInv
  <2>2. Arrives(r)
    BY <2>1, Ends, RefusalCodes DEF StaffInv
  <2> QED BY <1>1, <1>2, <2>1, <2>2, QuietStep
<1>4. CASE Refusal(task[r]) = 0
  <2> DEFINE at == IF Op(r) = "create" THEN "writing" ELSE "looking"
  <2>1. Go(r, at) /\ raced' = raced \cup UNION {About(r) \cap About(s) : s \in Others(r)}
    BY <1>4 DEF Receive
  <2>2. /\ Only(r)
        /\ req'[r] = [at |-> at, old |-> req[r].old, new |-> req[r].new, boxes |-> req[r].boxes,
                      of |-> req[r].of, answer |-> req[r].answer]
    BY <2>1, GoIs DEF StaffInv
  <2>3. Op(r) \in Changes /\ req[r].old = None /\ req[r].answer \in Codes
    BY <1>1, TasksAssumption DEF StaffInv, TableTypes, RequestTypes, Op
  <2>4. Op(r)' = Op(r) /\ KeyOf(r)' = KeyOf(r) /\ Refusal(task[r])' = Refusal(task[r]) /\ rows' = rows
    BY <1>1 DEF Op, KeyOf, tables, Refusal, Unauthorized, Invalid, Operation
  <2>5. Steps(r)'
    BY <1>4, <2>2, <2>3, <2>4 DEF Steps, Busy
  <2>6. Fresh(r)'
    BY <1>1, <1>4, <2>2, <2>4 DEF Fresh, StaffInv, PerRequest
  <2>7. BlankWhenFilled(r)' /\ ReadIsCurrent(r)' /\ WriterKnows(r)'
    BY <2>2, <2>4 DEF BlankWhenFilled, ReadIsCurrent, WriterKnows
  <2>8. ASSUME NEW s \in Requests \ {r}, req[s].at \in Busy PROVE About(r) \cap About(s) \subseteq raced'
    <3>1. CASE About(s) \cap About(r) = {}
      BY <3>1
    <3>2. CASE About(s) \cap About(r) # {}
      <4>1. s \in Others(r)
        BY <3>2, <2>8 DEF Others
      <4> QED BY <4>1, <2>1
    <3> QED BY <3>1, <3>2
  <2>9. Arrives(r)
    BY <2>2, <2>3, <2>5, <2>6, <2>7, <2>8 DEF Arrives, Busy
  <2> QED BY <1>1, <1>2, <2>2, <2>9, QuietStep
<1> QED BY <1>3, <1>4

LEMMA LookUpStep ==
    ASSUME StaffInv, NEW r \in Requests, LookUp(r), UNCHANGED <<clock, updatedAt>>
    PROVE  StaffInv'
<1>1. req[r].at = "looking" /\ UNCHANGED <<tables, embeddings, draft, failures, task, raced>>
  BY DEF LookUp, Quietly
<1>2. failures' \in 0 .. MaxFailures /\ raced \subseteq raced'
  BY <1>1, FailuresType DEF StaffInv
<1>3. CASE rows[KeyOf(r)] = None
  <2>1. Only(r) /\ req'[r] = Idle("done", 404)
    BY <1>3, FinishIs DEF LookUp, StaffInv
  <2>2. Arrives(r)
    BY <2>1, Ends DEF StaffInv, Codes
  <2> QED BY <1>1, <1>2, <2>1, <2>2, QuietStep
<1>4. CASE rows[KeyOf(r)] # None
  <2> DEFINE row == rows[KeyOf(r)]
  <2>1. /\ Only(r)
        /\ req'[r] = [at |-> "writing", old |-> row, new |-> req[r].new, boxes |-> req[r].boxes,
                      of |-> req[r].of, answer |-> req[r].answer]
    BY <1>4, LookedUpIs DEF LookUp, StaffInv
  <2>2. Op(r) \in Changes /\ Op(r) # "create" /\ Refusal(task[r]) = 0 /\ req[r].answer \in Codes
    BY <1>1 DEF StaffInv, PerRequest, Steps, RequestTypes, Busy
  <2>3. row \in RowsOf(task[r].table)
    BY <1>4, <2>2, Accepted DEF StaffInv, TableTypes
  <2>4. Op(r)' = Op(r) /\ KeyOf(r)' = KeyOf(r) /\ Refusal(task[r])' = Refusal(task[r]) /\ rows' = rows
        /\ About(r)' = About(r)
    BY <1>1 DEF Op, KeyOf, tables, Refusal, Unauthorized, Invalid, Operation, About
  <2>5. Steps(r)'
    BY <1>1, <2>1, <2>2, <2>3, <2>4 DEF Steps, Busy
  <2>6. Fresh(r)' /\ BlankWhenFilled(r)' /\ ReadIsCurrent(r)' /\ WriterKnows(r)'
    BY <2>1, <2>2, <2>4 DEF Fresh, BlankWhenFilled, ReadIsCurrent, WriterKnows, Audited
  <2>7. \A s \in Requests \ {r} : req[s].at \in Busy => About(r) \cap About(s) \subseteq raced
    BY <1>1 DEF StaffInv, Apart, Busy
  <2>8. Arrives(r)
    BY <1>1, <2>1, <2>2, <2>5, <2>6, <2>7 DEF Arrives, Busy
  <2> QED BY <1>1, <1>2, <2>1, <2>8, QuietStep
<1> QED BY <1>3, <1>4

\* A request that goes on to the boxes it has left, or ends.
LEMMA Continues ==
    ASSUME RequestTypes, PerRequest, Apart, NEW r \in Requests, req[r].at \in Busy,
           UNCHANGED task, raced \subseteq raced',
           NEW boxes \in Seq(Boxes \cup {None}), boxes # <<>> => task[r].table = "gift_box_items",
           Continue(r, boxes)
    PROVE  Only(r) /\ Arrives(r)
<1>1. CASE boxes = <<>>
  <2>1. Only(r) /\ req'[r] = Idle("done", Code(r))
    BY <1>1, ContinueIs
  <2>2. Code(r) \in Codes
    BY DEF Code, Codes
  <2> QED BY <2>1, <2>2, Ends
<1>2. CASE boxes # <<>>
  <2>1. /\ Only(r)
        /\ req'[r] = [at |-> "filling", old |-> req[r].old, new |-> req[r].new,
                      boxes |-> boxes, of |-> {}, answer |-> req[r].answer]
    BY <1>2, ContinueIs
  <2>2. Op(r) \in Changes /\ Refusal(task[r]) = 0 /\ req[r].answer \in Codes
    BY DEF PerRequest, Steps, RequestTypes
  <2>3. Op(r)' = Op(r) /\ Refusal(task[r])' = Refusal(task[r]) /\ About(r)' = About(r)
    BY DEF Op, KeyOf, Refusal, Unauthorized, Invalid, Operation, About
  <2>4. Steps(r)'
    BY <1>2, <2>1, <2>2, <2>3 DEF Steps
  <2>5. Fresh(r)' /\ BlankWhenFilled(r)' /\ ReadIsCurrent(r)' /\ WriterKnows(r)'
    BY <2>1 DEF Fresh, BlankWhenFilled, ReadIsCurrent, WriterKnows
  <2>6. \A s \in Requests \ {r} : req[s].at \in Busy => About(r) \cap About(s) \subseteq raced'
    BY DEF Apart
  <2>7. Arrives(r)
    BY <2>1, <2>2, <2>4, <2>5, <2>6 DEF Arrives, Busy
  <2> QED BY <2>1, <2>7
<1> QED BY <1>1, <1>2

LEMMA ReadLineStep ==
    ASSUME StaffInv, NEW r \in Requests, ReadLine(r), UNCHANGED <<clock, updatedAt>>
    PROVE  StaffInv'
<1>1. req[r].at = "filling" /\ UNCHANGED <<tables, embeddings, draft, failures, task, raced>>
  BY DEF ReadLine, Quietly
<1>2. failures' \in 0 .. MaxFailures /\ raced \subseteq raced' /\ req[r].at \in Busy
  BY <1>1, FailuresType DEF StaffInv, Busy
<1>3. /\ task[r].table = "gift_box_items" /\ req[r].of \subseteq Items
      /\ req[r].boxes \in Seq(Boxes \cup {None}) /\ req[r].boxes # <<>>
      /\ Op(r) \in Changes /\ Refusal(task[r]) = 0 /\ req[r].answer \in Codes
  BY <1>1, <1>2 DEF StaffInv, PerRequest, Steps, RequestTypes
<1>4. CASE Continue(r, Tail(req[r].boxes))
  <2>1. Tail(req[r].boxes) \in Seq(Boxes \cup {None})
    BY <1>3
  <2>2. Only(r) /\ Arrives(r)
    BY <1>1, <1>2, <1>3, <1>4, <2>1, Continues DEF StaffInv
  <2> QED BY <1>1, <1>2, <2>2, QuietStep
<1>5. CASE ~Continue(r, Tail(req[r].boxes))
  <2>1. /\ Go(r, "gathering")
        /\ FilledBox(r) # None /\ rows[FilledBox(r)] # None /\ rows[FilledBox(r)].contents_line = Blank
    BY <1>5 DEF ReadLine
  <2>2. /\ Only(r)
        /\ req'[r] = [at |-> "gathering", old |-> req[r].old, new |-> req[r].new, boxes |-> req[r].boxes,
                      of |-> req[r].of, answer |-> req[r].answer]
    BY <2>1, GoIs DEF StaffInv
  <2>3. Op(r)' = Op(r) /\ Refusal(task[r])' = Refusal(task[r]) /\ About(r)' = About(r) /\ rows' = rows
        /\ FilledBox(r)' = FilledBox(r)
    BY <1>1, <2>2 DEF Op, KeyOf, Refusal, Unauthorized, Invalid, Operation, About, tables, FilledBox
  <2>4. FilledBox(r) \in Boxes
    BY <1>3, <2>1 DEF FilledBox
  <2>5. Steps(r)'
    BY <1>1, <1>3, <2>2, <2>3, <2>4 DEF Steps
  <2>6. Fresh(r)' /\ BlankWhenFilled(r)' /\ ReadIsCurrent(r)' /\ WriterKnows(r)'
    BY <2>1, <2>2, <2>3 DEF Fresh, BlankWhenFilled, ReadIsCurrent, WriterKnows, Blank, Line
  <2>7. \A s \in Requests \ {r} : req[s].at \in Busy => About(r) \cap About(s) \subseteq raced'
    BY <1>2 DEF StaffInv, Apart
  <2>8. Arrives(r)
    BY <1>3, <2>2, <2>5, <2>6, <2>7 DEF Arrives, Busy
  <2> QED BY <1>1, <1>2, <2>2, <2>8, QuietStep
<1> QED BY <1>4, <1>5

LEMMA GatherStep ==
    ASSUME StaffInv, NEW r \in Requests, Gather(r), UNCHANGED <<clock, updatedAt>>
    PROVE  StaffInv'
<1>1. req[r].at = "gathering" /\ UNCHANGED <<tables, embeddings, draft, failures, task, raced>>
  BY DEF Gather, Quietly
<1>2. failures' \in 0 .. MaxFailures /\ raced \subseteq raced' /\ req[r].at \in Busy
  BY <1>1, FailuresType DEF StaffInv, Busy
<1>3. /\ task[r].table = "gift_box_items" /\ FilledBox(r) \in Boxes
      /\ req[r].boxes \in Seq(Boxes \cup {None}) /\ req[r].boxes # <<>>
      /\ Op(r) \in Changes /\ Refusal(task[r]) = 0 /\ req[r].answer \in Codes
  BY <1>1, <1>2 DEF StaffInv, PerRequest, Steps, RequestTypes
<1>4. BlankWhenFilled(r)
  BY DEF StaffInv, PerRequest
<1>5. PICK items \in SUBSET Items :
        req'[r] = [at |-> "rewriting", old |-> req[r].old, new |-> req[r].new,
                   boxes |-> req[r].boxes, of |-> items, answer |-> req[r].answer]
  BY GatherIs DEF StaffInv
<1>6. Only(r)
  BY GatherIs DEF StaffInv
<1>7. Op(r)' = Op(r) /\ Refusal(task[r])' = Refusal(task[r]) /\ About(r)' = About(r) /\ rows' = rows
      /\ FilledBox(r)' = FilledBox(r)
  BY <1>1, <1>5 DEF Op, KeyOf, Refusal, Unauthorized, Invalid, Operation, About, tables, FilledBox
<1>8. Steps(r)'
  BY <1>1, <1>3, <1>5, <1>7 DEF Steps
<1>9. BlankWhenFilled(r)'
  BY <1>1, <1>4, <1>5, <1>7 DEF BlankWhenFilled, Blank, Line
<1>10. Fresh(r)' /\ ReadIsCurrent(r)' /\ WriterKnows(r)'
  BY <1>5, <1>7 DEF Fresh, ReadIsCurrent, WriterKnows
<1>11. \A s \in Requests \ {r} : req[s].at \in Busy => About(r) \cap About(s) \subseteq raced'
  BY <1>2 DEF StaffInv, Apart
<1>12. Arrives(r)
  BY <1>3, <1>5, <1>8, <1>9, <1>10, <1>11 DEF Arrives, Busy
<1> QED BY <1>1, <1>2, <1>6, <1>12, QuietStep

\* The requests that only read end at once.
LEMMA ReadStep ==
    ASSUME StaffInv, NEW r \in Requests, List(r) \/ Related(r) \/ Lookup(r) \/ Detail(r),
           UNCHANGED <<clock, updatedAt>>
    PROVE  StaffInv'
<1>1. req[r].at = "new" /\ UNCHANGED <<tables, embeddings, draft, failures, task, raced>>
  BY DEF List, Related, Lookup, Detail, Asked, Quietly
<1>2. failures' \in 0 .. MaxFailures /\ raced \subseteq raced'
  BY <1>1, FailuresType DEF StaffInv
<1>3. ASSUME NEW keys, NEW total, Answer(r, keys, total) PROVE Only(r) /\ Arrives(r)
  <2>1. Only(r) /\ req'[r] = [at |-> "done", old |-> None, new |-> total, boxes |-> keys,
                              of |-> {}, answer |-> 200]
    BY <1>3 DEF Answer, RequestTypes, StaffInv, Only
  <2>2. req'[r].at = "done" /\ req'[r].answer \in Codes
    BY <2>1 DEF Codes
  <2>3. Steps(r)' /\ Fresh(r)' /\ BlankWhenFilled(r)' /\ ReadIsCurrent(r)' /\ WriterKnows(r)'
    BY <2>2 DEF Steps, Fresh, BlankWhenFilled, ReadIsCurrent, WriterKnows, Busy
  <2>4. req'[r] = [at |-> req'[r].at, old |-> req'[r].old, new |-> req'[r].new,
                   boxes |-> req'[r].boxes, of |-> req'[r].of, answer |-> req'[r].answer]
    BY <2>1
  <2>5. req'[r].at \notin Busy
    BY <2>2 DEF Busy
  <2> QED BY <2>1, <2>2, <2>3, <2>4, <2>5 DEF Arrives
<1>4. ASSUME NEW answer \in Codes, Finish(r, answer) PROVE Only(r) /\ Arrives(r)
  BY <1>4, FinishIs, Ends DEF StaffInv
<1>5. \/ \E answer \in Codes : Finish(r, answer)
      \/ \E keys, total : Answer(r, keys, total)
  <2>1. CASE List(r)
    BY <2>1, RefusalCodes DEF List, Codes
  <2>2. CASE Related(r)
    BY <2>2, RefusalCodes DEF Related, Codes
  <2>3. CASE Lookup(r)
    BY <2>3, RefusalCodes DEF Lookup, Codes
  <2>4. CASE Detail(r)
    BY <2>4, RefusalCodes DEF Detail, Codes
  <2> QED BY <2>1, <2>2, <2>3, <2>4
<1>6. Only(r) /\ Arrives(r)
  BY <1>3, <1>4, <1>5
<1> QED BY <1>1, <1>2, <1>6, QuietStep

LEMMA FailStep ==
    ASSUME StaffInv, NEW r \in Requests, Fail(r), UNCHANGED <<clock, updatedAt>>
    PROVE  StaffInv'
<1>1. /\ UNCHANGED <<tables, embeddings, draft, task>> /\ raced \subseteq raced'
      /\ failures < MaxFailures /\ failures' = failures + 1
      /\ req[r].at = "auditing" => KeyOf(r) \in raced'
  BY DEF Fail
<1>2. failures' \in 0 .. MaxFailures
  BY <1>1, FailuresType DEF StaffInv
<1>3. Only(r) /\ Arrives(r)
  BY FinishIs, Ends DEF StaffInv, Fail, Codes
<1> QED BY <1>1, <1>2, <1>3, QuietStep
-----------------------------------------------------------------------------
(* Steps that write a row.                                                 *)

\* At work on a row that is not raced, a request is the only one.
LEMMA NoOther ==
    ASSUME Apart, NEW r \in Requests, req[r].at \in Busy, NEW k \in About(r), k \notin raced,
           NEW s \in Requests, s # r, k \in About(s)
    PROVE  req[s].at \notin Busy
BY DEF Apart

LEMMA OfOneTable ==
    ASSUME TableTypes, PerRequest, NEW r \in Requests, req[r].at \in Busy
    PROVE  /\ task[r].table \in Written /\ KeyOf(r) \in KeysOf(task[r].table) /\ KeyOf(r) \in Keys
           /\ KeyOf(r) \in About(r) /\ Op(r) \in Changes /\ Refusal(task[r]) = 0
<1>1. Op(r) \in Changes /\ Refusal(task[r]) = 0
  BY DEF PerRequest, Steps
<1>2. task[r].table \in Written /\ KeyOf(r) \in KeysOf(task[r].table)
  BY <1>1, Accepted
<1> QED BY <1>1, <1>2, TablesApart DEF About

\* A request fills boxes for an item.
LEMMA FillsABox ==
    ASSUME PerRequest, NEW r \in Requests, req[r].at \in {"gathering", "rewriting"}
    PROVE  FilledBox(r) \in Boxes /\ FilledBox(r) \in About(r) /\ FilledBox(r) \in Keys /\ req[r].at \in Busy
BY DEF PerRequest, Steps, About, Keys, Busy

\* One row changes, within its table.
LEMMA RowTypesAfter ==
    ASSUME TableTypes, NEW t \in Written, NEW k \in KeysOf(t), NEW row \in RowsOf(t) \cup {None},
           rows' = [rows EXCEPT ![k] = row]
    PROVE  /\ DOMAIN rows' = Keys
           /\ \A u \in Written : \A j \in KeysOf(u) : rows'[j] \in RowsOf(u) \cup {None}
<1>1. DOMAIN rows' = Keys
  BY DEF TableTypes
<1>2. ASSUME NEW u \in Written, NEW j \in KeysOf(u) PROVE rows'[j] \in RowsOf(u) \cup {None}
  <2>1. CASE j = k
    <3>1. u = t /\ k \in Keys
      BY <2>1, TablesApart
    <3> QED BY <2>1, <3>1 DEF TableTypes
  <2>2. CASE j # k
    <3>1. j \in Keys
      BY TablesApart
    <3> QED BY <2>2, <3>1 DEF TableTypes
  <2> QED BY <2>1, <2>2
<1> QED BY <1>1, <1>2

\* ... and updated_at with a new product.
LEMMA TableTypesAfter ==
    ASSUME TableTypes, NEW t \in Written, NEW k \in KeysOf(t), NEW row \in RowsOf(t) \cup {None},
           rows' = [rows EXCEPT ![k] = row], Stamp,
           UNCHANGED <<audit, embeddings, draft, failures, task, clock>>
    PROVE  TableTypes'
<1>1. updatedAt' \in [Products -> 0 .. clock]
  BY ImportAssumption DEF TableTypes, Stamp
<1> QED BY <1>1, RowTypesAfter DEF TableTypes

LEMMA Refs ==
    ASSUME TableTypes, NEW i \in Items, rows[i] # None
    PROVE  rows[i].gift_box_id \in Boxes \cup {None} /\ rows[i].product_id \in Products \cup {None}
<1>1. rows[i] \in ItemRows
  BY KeyKinds DEF TableTypes
<1> QED BY <1>1 DEF ItemRows

\* A row that is there: what refers to it, and what it refers to, is as before.
LEMMA ForeignKeysAfterPut ==
    ASSUME TableTypes, ForeignKeys, NEW t \in Written, NEW k \in KeysOf(t), NEW row \in RowsOf(t),
           rows' = [rows EXCEPT ![k] = row], ~Dangling(row), UNCHANGED draft
    PROVE  ForeignKeys'
<1>1. row # None /\ k \in Keys /\ DOMAIN rows = Keys
  BY RowsAreRows, TablesApart DEF TableTypes
<1>2. \A j \in Keys : rows[j] # None => rows'[j] # None
  BY <1>1
<1>3. ASSUME NEW i \in Items, rows'[i] # None, NEW j \in {rows'[i].gift_box_id, rows'[i].product_id} \ {None}
      PROVE  rows'[j] # None
  <2>0. i \in Keys
    BY DEF Keys
  <2>1. CASE i = k
    <3>1. t = "gift_box_items" /\ rows'[i] = row
      BY <1>1, <2>1, KeyKinds, TablesApart
    <3>2. row \in ItemRows
      BY <3>1, KeyKinds
    <3>3. DOMAIN row = {"gift_box_id", "product_id"}
      BY <3>2 DEF ItemRows
    <3>4. row.gift_box_id \in Boxes \cup {None} /\ row.product_id \in Products \cup {None}
      BY <3>2 DEF ItemRows
    <3>5. rows[j] # None
      BY <1>3, <3>1, <3>3 DEF Dangling
    <3>6. j \in Keys
      BY <1>3, <3>1, <3>4 DEF Keys
    <3> QED BY <1>2, <3>5, <3>6
  <2>2. CASE i # k
    <3>1. rows'[i] = rows[i]
      BY <1>1, <2>0, <2>2
    <3>2. rows[j] # None /\ j \in Keys
      BY <1>3, <3>1, Refs DEF ForeignKeys, Keys
    <3> QED BY <1>2, <3>2
  <2> QED BY <2>1, <2>2
<1>4. ASSUME NEW p \in Products, draft[p] > 0 PROVE rows'[p] # None
  BY <1>2, <1>4 DEF ForeignKeys, Keys
<1> QED BY <1>3, <1>4 DEF ForeignKeys

\* A row that goes: the database has refused it if anything refers to it.
LEMMA ForeignKeysAfterDelete ==
    ASSUME TableTypes, ForeignKeys, NEW k \in Keys, rows' = [rows EXCEPT ![k] = None],
           ~Referenced(k), ~Held(k), UNCHANGED draft
    PROVE  ForeignKeys'
<1>1. DOMAIN rows = Keys /\ k # None
  BY RowsAssumption DEF TableTypes, Keys
<1>2. \A j \in Keys \ {k} : rows'[j] = rows[j]
  BY <1>1
<1>3. ASSUME NEW i \in Items, rows'[i] # None, NEW j \in {rows'[i].gift_box_id, rows'[i].product_id} \ {None}
      PROVE  rows'[j] # None
  <2>1. i \in Keys /\ i # k
    BY <1>1, <1>3 DEF Keys
  <2>2. rows'[i] = rows[i]
    BY <1>2, <2>1
  <2>3. rows[j] # None /\ j \in Keys
    BY <1>3, <2>2, Refs DEF ForeignKeys, Keys
  <2>4. j # k
    BY <1>3, <2>2 DEF Referenced
  <2> QED BY <1>2, <2>3, <2>4
<1>4. ASSUME NEW p \in Products, draft[p] > 0 PROVE rows'[p] # None
  <2>1. rows[p] # None /\ p \in Keys
    BY <1>4 DEF ForeignKeys, Keys
  <2>2. p # k
    BY <1>4 DEF Referenced, Held, TableTypes
  <2> QED BY <1>2, <2>1, <2>2
<1> QED BY <1>3, <1>4 DEF ForeignKeys

\* What the requests know when r has written the row it is about.
LEMMA WroteRow ==
    ASSUME StaffInv, NEW r \in Requests, req[r].at = "writing",
           NEW row \in RowsOf(task[r].table) \cup {None}, row = None <=> Op(r) = "delete",
           Op(r) = "update" => rows[KeyOf(r)] # None,
           Wrote(r, row), UNCHANGED <<audit, task, raced>>
    PROVE  RequestTypes' /\ PerRequest' /\ Apart' /\ AuditReplays'
<1> DEFINE k == KeyOf(r)
<1>1. /\ Only(r)
      /\ req'[r] = [at |-> "auditing", old |-> req[r].old, new |-> row, boxes |-> req[r].boxes,
                    of |-> req[r].of, answer |-> req[r].answer]
  BY WroteIs DEF StaffInv
<1>2. /\ TableTypes /\ PerRequest /\ Apart /\ RequestTypes /\ AuditReplays
      /\ DOMAIN rows = Keys /\ req[r].at \in Busy
  BY DEF StaffInv, TableTypes, Busy
<1>3. k \in Keys /\ k \in About(r) /\ Op(r) \in Changes /\ Refusal(task[r]) = 0
  BY <1>2, OfOneTable
<1>4. rows'[k] = row /\ \A j \in Keys \ {k} : rows'[j] = rows[j]
  BY <1>2, <1>3 DEF Wrote
<1>5. \A s \in Requests : Op(s)' = Op(s) /\ KeyOf(s)' = KeyOf(s) /\ About(s)' = About(s)
                          /\ Refusal(task[s])' = Refusal(task[s])
  BY DEF Op, KeyOf, About, Refusal, Unauthorized, Invalid, Operation
<1>6. k \notin raced => \A s \in Requests \ {r} : ~(req[s].at \in Busy /\ k \in About(s))
  BY <1>2, <1>3, NoOther
<1>7. \A s \in Requests : KeyOf(s) \in About(s)
  BY DEF About
<1>8. k \notin raced => /\ Audited(k, req[r].old) = Audited(k, rows[k])
                        /\ Audited(k, rows[k]) = Audited(k, Logged(k, Len(audit)))
  <2> SUFFICES ASSUME k \notin raced
               PROVE  /\ Audited(k, req[r].old) = Audited(k, rows[k])
                      /\ Audited(k, rows[k]) = Audited(k, Logged(k, Len(audit)))
    OBVIOUS
  <2>1. Audited(k, req[r].old) = Audited(k, rows[k])
    <3>1. CASE Op(r) = "create"
      <4>1. rows[k] = None
        BY <1>2, <1>3, <3>1 DEF PerRequest, Fresh
      <4>2. req[r].old = None
        BY <1>2, <3>1 DEF PerRequest, Steps
      <4> QED BY <4>1, <4>2
    <3>2. CASE Op(r) # "create"
      BY <1>2, <3>2 DEF PerRequest, ReadIsCurrent
    <3> QED BY <3>1, <3>2
  <2>2. ~ \E s \in Requests : KeyOf(s) = k /\ req[s].at = "auditing"
    BY <1>6, <1>7 DEF Busy
  <2>3. Audited(k, rows[k]) = Audited(k, Logged(k, Len(audit)))
    BY <1>2, <1>3, <2>2 DEF AuditReplays
  <2> QED BY <2>1, <2>3
<1>9. RequestTypes'
  BY <1>1, <1>2 DEF RequestTypes, Only, Busy
<1>10. Apart'
  <2>1. \A s \in Requests \ {r} : req[s].at \in Busy => About(r) \cap About(s) \subseteq raced'
    BY <1>2 DEF Apart
  <2> QED BY <1>1, <1>2, <2>1, ApartAfter
<1>11. Steps(r)' /\ Fresh(r)' /\ BlankWhenFilled(r)' /\ ReadIsCurrent(r)' /\ WriterKnows(r)'
  <2>1. IF Op(r) = "create" THEN req[r].old = None ELSE req[r].old \in RowsOf(task[r].table)
    BY <1>2 DEF PerRequest, Steps
  <2>2. Steps(r)'
    BY <1>1, <1>3, <1>5, <2>1 DEF Steps
  <2>3. Fresh(r)' /\ BlankWhenFilled(r)' /\ ReadIsCurrent(r)'
    BY <1>1 DEF Fresh, BlankWhenFilled, ReadIsCurrent
  <2>4. WriterKnows(r)'
    BY <1>1, <1>4, <1>5, <1>8, LoggedSame DEF WriterKnows, Audited
  <2> QED BY <2>2, <2>3, <2>4
<1>12. ASSUME NEW s \in Requests \ {r}
       PROVE  Steps(s)' /\ Fresh(s)' /\ BlankWhenFilled(s)' /\ ReadIsCurrent(s)' /\ WriterKnows(s)'
  <2>1. req'[s] = req[s]
    BY <1>1 DEF Only
  <2>2. Steps(s) /\ Fresh(s) /\ BlankWhenFilled(s) /\ ReadIsCurrent(s) /\ WriterKnows(s)
    BY <1>2 DEF PerRequest
  <2>3. FilledBox(s)' = FilledBox(s) /\ KeyOf(s)' = KeyOf(s) /\ Op(s)' = Op(s)
    BY <1>5, <2>1 DEF FilledBox
  <2>4. Steps(s)'
    BY <2>1, <2>2, <2>3 DEF Steps
  <2>5. Fresh(s)'
    <3> SUFFICES ASSUME req[s].at \in {"new", "writing"}, Op(s) = "create", Refusal(task[s]) = 0
                 PROVE  rows'[KeyOf(s)] = None
      BY <1>5, <2>1 DEF Fresh
    <3>1. rows[KeyOf(s)] = None
      BY <2>2 DEF Fresh
    <3>2. KeyOf(s) \in Keys
      BY <1>2, Accepted, TablesApart DEF Changes
    <3>3. CASE KeyOf(s) = k
      <4>1. Op(r) # "create"
        BY <1>2, <1>3, <3>3, Accepted
      <4>2. Op(r) # "update"
        BY <3>1, <3>3
      <4> QED BY <1>3, <1>4, <3>3, <4>1, <4>2 DEF Changes
    <3> QED BY <1>4, <3>1, <3>2, <3>3
  <2>6. BlankWhenFilled(s)'
    <3> SUFFICES ASSUME req[s].at \in {"gathering", "rewriting"}, FilledBox(s) \notin raced
                 PROVE  rows'[FilledBox(s)] = None \/ rows'[FilledBox(s)].contents_line = Blank
      BY <2>1, <2>3 DEF BlankWhenFilled, Blank, Line
    <3>1. FilledBox(s) \in About(s) /\ FilledBox(s) \in Keys /\ req[s].at \in Busy
      BY <1>2, FillsABox
    <3>2. FilledBox(s) # k
      BY <1>6, <3>1
    <3> QED BY <1>4, <2>2, <3>1, <3>2 DEF BlankWhenFilled
  <2>7. ReadIsCurrent(s)'
    <3> SUFFICES ASSUME req[s].at = "writing", Op(s) # "create", KeyOf(s) \notin raced
                 PROVE  Audited(KeyOf(s), req[s].old) = Audited(KeyOf(s), rows'[KeyOf(s)])
      BY <2>1, <2>3 DEF ReadIsCurrent, Audited
    <3>1. req[s].at \in Busy
      BY DEF Busy
    <3>2. KeyOf(s) \in Keys /\ KeyOf(s) # k
      BY <1>2, <1>6, <1>7, <3>1, OfOneTable
    <3> QED BY <1>4, <2>2, <3>2 DEF ReadIsCurrent
  <2>8. WriterKnows(s)'
    <3> SUFFICES ASSUME req[s].at = "auditing", KeyOf(s) \notin raced
                 PROVE  /\ Audited(KeyOf(s), rows'[KeyOf(s)]) = Audited(KeyOf(s), req[s].new)
                        /\ Audited(KeyOf(s), Logged(KeyOf(s), Len(audit))) = Audited(KeyOf(s), req[s].old)
      BY <2>1, <2>3, LoggedSame DEF WriterKnows, Audited
    <3>1. req[s].at \in Busy
      BY DEF Busy
    <3>2. KeyOf(s) \in Keys /\ KeyOf(s) # k
      BY <1>2, <1>6, <1>7, <3>1, OfOneTable
    <3> QED BY <1>4, <2>2, <3>2 DEF WriterKnows
  <2> QED BY <2>4, <2>5, <2>6, <2>7, <2>8
<1>13. PerRequest'
  BY <1>11, <1>12 DEF PerRequest
<1>14. AuditReplays'
  <2> SUFFICES ASSUME NEW j \in Keys, j \notin raced
               PROVE  /\ \A i \in Told(j, Len(audit)) : Audited(j, audit[i].old) = Audited(j, Logged(j, i - 1))
                      /\ (\E s \in Requests : KeyOf(s) = j /\ req'[s].at = "auditing")
                         \/ Audited(j, rows'[j]) = Audited(j, Logged(j, Len(audit)))
    BY <1>5, LoggedSame DEF AuditReplays, Audited
  <2>1. \A i \in Told(j, Len(audit)) : Audited(j, audit[i].old) = Audited(j, Logged(j, i - 1))
    BY <1>2 DEF AuditReplays
  <2>2. CASE j = k
    BY <1>1, <2>1, <2>2
  <2>3. CASE j # k
    <3>1. \A s \in Requests : KeyOf(s) = j => req'[s] = req[s]
      BY <1>1, <2>3 DEF Only
    <3> QED BY <1>2, <1>4, <2>1, <2>3, <3>1 DEF AuditReplays
  <2> QED BY <2>2, <2>3
<1> QED BY <1>9, <1>10, <1>13, <1>14

LEMMA WriteStep ==
    ASSUME StaffInv, NEW r \in Requests, Write(r), Stamp, UNCHANGED clock
    PROVE  StaffInv'
<1> DEFINE k == KeyOf(r)
           t == task[r].table
<1>1. req[r].at = "writing" /\ UNCHANGED <<audit, embeddings, draft, failures, task, raced>>
  BY DEF Write
<1>2. /\ TableTypes /\ ForeignKeys /\ PerRequest /\ RequestTypes
      /\ req[r].at \in Busy /\ t \in Written /\ k \in KeysOf(t) /\ k \in Keys /\ Op(r) \in Changes
  BY <1>1, OfOneTable DEF StaffInv, Busy
<1>3. ASSUME NEW answer \in Codes, Finish(r, answer), UNCHANGED rows PROVE StaffInv'
  <2>1. Only(r) /\ Arrives(r)
    BY <1>2, <1>3, FinishIs, Ends
  <2>2. failures' \in 0 .. MaxFailures /\ UNCHANGED updatedAt /\ raced \subseteq raced'
    BY <1>1, <1>2, <1>3, FailuresType, StampSame
  <2> QED BY <1>1, <1>3, <2>1, <2>2, QuietStep DEF tables
<1>4. ASSUME NEW row \in RowsOf(t), ~Dangling(row), Op(r) # "delete", Op(r) = "update" => rows[k] # None,
             Wrote(r, row)
      PROVE  StaffInv'
  <2>1. rows' = [rows EXCEPT ![k] = row] /\ row # None
    BY <1>2, <1>4, RowsAreRows DEF Wrote
  <2>2. TableTypes' /\ ForeignKeys'
    BY <1>1, <1>2, <1>4, <2>1, TableTypesAfter, ForeignKeysAfterPut
  <2>3. RequestTypes' /\ PerRequest' /\ Apart' /\ AuditReplays'
    BY <1>1, <1>4, <2>1, WroteRow
  <2> QED BY <2>2, <2>3 DEF StaffInv
<1>5. CASE Insert(r)
  <2> DEFINE row == Set(Defaults(t), task[r].values)
  <2>1. CASE Dangling(row)
    BY <1>3, <1>5, <2>1 DEF Insert, Codes
  <2>2. CASE ~Dangling(row)
    <3>1. Op(r) = "create" /\ Wrote(r, row)
      BY <1>5, <2>2 DEF Insert
    <3>2. row \in RowsOf(t)
      BY <1>2, <3>1, Accepted, CreatedRow, OfOneTable
    <3> HIDE DEF row
    <3> QED BY <1>4, <2>2, <3>1, <3>2
  <2> QED BY <2>1, <2>2
<1>6. CASE Update(r)
  <2> DEFINE row == Set(rows[k], task[r].values)
  <2>1. CASE rows[k] = None \/ Dangling(row)
    BY <1>3, <1>6, <2>1 DEF Update, Codes
  <2>2. CASE rows[k] # None /\ ~Dangling(row)
    <3>1. Op(r) = "update" /\ Wrote(r, row)
      BY <1>6, <2>2 DEF Update
    <3>2. rows[k] \in RowsOf(t)
      BY <1>2, <2>2 DEF TableTypes
    <3>3. row \in RowsOf(t)
      BY <1>2, <3>2, Accepted, SetKeepsType, OfOneTable
    <3> HIDE DEF row
    <3> QED BY <1>4, <2>2, <3>1, <3>3
  <2> QED BY <2>1, <2>2
<1>7. CASE Delete(r)
  <2>1. Op(r) = "delete" /\ ~Held(k)
    BY <1>7 DEF Delete
  <2>2. CASE Referenced(k)
    BY <1>3, <1>7, <2>2 DEF Delete, Codes
  <2>3. CASE ~Referenced(k)
    <3>1. Wrote(r, None)
      BY <1>7, <2>3 DEF Delete
    <3>2. rows' = [rows EXCEPT ![k] = None]
      BY <3>1 DEF Wrote
    <3>3. TableTypes'
      BY <1>1, <1>2, <3>2, TableTypesAfter
    <3>4. ForeignKeys'
      BY <1>1, <1>2, <2>1, <2>3, <3>2, ForeignKeysAfterDelete
    <3>5. RequestTypes' /\ PerRequest' /\ Apart' /\ AuditReplays'
      BY <1>1, <2>1, <3>1, WroteRow
    <3> QED BY <3>3, <3>4, <3>5 DEF StaffInv
  <2> QED BY <2>2, <2>3
<1> QED BY <1>5, <1>6, <1>7 DEF Write

\* Filling a line leaves what is audited of the box.
LEMMA FilledLine ==
    ASSUME TableTypes, NEW b \in Boxes, rows[b] # None, NEW line \in Lines,
           rows' = [rows EXCEPT ![b].contents_line = line]
    PROVE  /\ rows' = [rows EXCEPT ![b] = BoxRow(rows[b].selling_price, line)]
           /\ BoxRow(rows[b].selling_price, line) \in BoxRows
           /\ Audited(b, rows'[b]) = Audited(b, rows[b])
<1>1. rows[b] \in BoxRows /\ DOMAIN rows = Keys /\ b \in Keys
  BY KeyKinds DEF TableTypes, Keys
<1>2. rows[b] = [selling_price |-> rows[b].selling_price, contents_line |-> rows[b].contents_line]
      /\ rows[b].selling_price \in Amounts
  BY <1>1 DEF BoxRows
<1>3. BoxRow(rows[b].selling_price, line) \in BoxRows
  BY <1>2 DEF BoxRow, BoxRows
<1>4. [rows[b] EXCEPT !.contents_line = line] = BoxRow(rows[b].selling_price, line)
  BY <1>2 DEF BoxRow
<1>5. rows' = [rows EXCEPT ![b] = [rows[b] EXCEPT !.contents_line = line]]
  OBVIOUS
<1>6. rows' = [rows EXCEPT ![b] = BoxRow(rows[b].selling_price, line)]
  BY <1>4, <1>5
<1>7. rows'[b] = BoxRow(rows[b].selling_price, line) /\ rows'[b] # None
  BY <1>1, <1>3, <1>6, RowsAssumption
<1>8. Audited(b, rows'[b]) = Audited(b, rows[b])
  BY <1>7 DEF Audited, BoxRow
<1> QED BY <1>3, <1>6, <1>8

LEMMA FillLineStep ==
    ASSUME StaffInv, NEW r \in Requests, FillLine(r), Stamp, UNCHANGED clock
    PROVE  StaffInv'
<1> DEFINE b    == FilledBox(r)
           line == Made(req[r].of)
           row  == BoxRow(rows[b].selling_price, line)
<1>1. /\ req[r].at = "rewriting" /\ Continue(r, Tail(req[r].boxes))
      /\ UNCHANGED <<audit, embeddings, draft, failures, task, raced>>
  BY DEF FillLine
<1>2. /\ TableTypes /\ ForeignKeys /\ PerRequest /\ RequestTypes /\ Apart /\ AuditReplays
      /\ req[r].at \in Busy
  BY <1>1 DEF StaffInv, Busy
<1>3. b \in Boxes /\ b \in Keys /\ b \in About(r)
  BY <1>1, <1>2, FillsABox
<1>4. /\ task[r].table = "gift_box_items" /\ req[r].of \subseteq Items
      /\ req[r].boxes \in Seq(Boxes \cup {None}) /\ req[r].boxes # <<>>
  BY <1>1, <1>2 DEF PerRequest, Steps
<1>5. Only(r) /\ Arrives(r)
  <2>1. Tail(req[r].boxes) \in Seq(Boxes \cup {None})
    BY <1>4
  <2> QED BY <1>1, <1>2, <1>4, <2>1, Continues
<1>6. CASE rows[b] = None
  <2>1. UNCHANGED rows
    BY <1>6 DEF FillLine
  <2>2. failures' \in 0 .. MaxFailures /\ UNCHANGED updatedAt /\ raced \subseteq raced'
    BY <1>1, <1>2, <2>1, FailuresType, StampSame
  <2> QED BY <1>1, <1>5, <2>1, <2>2, QuietStep DEF tables
<1>7. CASE rows[b] # None
  <2>1. line \in Lines
    BY <1>4, BlankIsALine
  <2>2. rows' = [rows EXCEPT ![b].contents_line = line]
    BY <1>7 DEF FillLine
  <2> HIDE DEF b, line
  <2>3. /\ rows' = [rows EXCEPT ![b] = row] /\ row \in BoxRows
        /\ Audited(b, rows'[b]) = Audited(b, rows[b])
    BY <1>2, <1>3, <1>7, <2>1, <2>2, FilledLine
  <2>4. ~Dangling(row)
    BY DEF Dangling, BoxRow
  <2> HIDE DEF row
  <2>5. "gift_boxes" \in Written /\ b \in KeysOf("gift_boxes") /\ row \in RowsOf("gift_boxes")
    BY <1>3, <2>3, KeyKinds
  <2>6. TableTypes' /\ ForeignKeys'
    BY <1>1, <1>2, <2>3, <2>4, <2>5, TableTypesAfter, ForeignKeysAfterPut
  <2>7. RequestTypes'
    BY <1>2, <1>5, RequestTypesAfter
  <2>8. Apart'
    BY <1>1, <1>2, <1>5, ApartAfter DEF Arrives
  <2>9. \A j \in Keys : /\ j # b => rows'[j] = rows[j]
                        /\ Audited(j, rows'[j]) = Audited(j, rows[j])
    BY <1>2, <2>3 DEF TableTypes
  <2>10. ASSUME NEW s \in Requests \ {r}
         PROVE  Steps(s)' /\ Fresh(s)' /\ BlankWhenFilled(s)' /\ ReadIsCurrent(s)' /\ WriterKnows(s)'
    <3>1. req'[s] = req[s]
      BY <1>5 DEF Only
    <3>2. Steps(s) /\ Fresh(s) /\ BlankWhenFilled(s) /\ ReadIsCurrent(s) /\ WriterKnows(s)
      BY <1>2 DEF PerRequest
    <3>3. FilledBox(s)' = FilledBox(s) /\ KeyOf(s)' = KeyOf(s) /\ Op(s)' = Op(s)
          /\ Refusal(task[s])' = Refusal(task[s])
      BY <1>1, <3>1 DEF FilledBox, KeyOf, Op, Refusal, Unauthorized, Invalid, Operation
    <3>4. Steps(s)'
      BY <1>1, <3>1, <3>2, <3>3 DEF Steps
    <3>5. Fresh(s)'
      <4> SUFFICES ASSUME req[s].at \in {"new", "writing"}, Op(s) = "create", Refusal(task[s]) = 0
                   PROVE  rows'[KeyOf(s)] = None
        BY <3>1, <3>3 DEF Fresh
      <4>1. rows[KeyOf(s)] = None
        BY <3>2 DEF Fresh
      <4>2. KeyOf(s) \in Keys
        BY <1>2, Accepted, TablesApart DEF Changes
      <4> QED BY <1>7, <2>9, <4>1, <4>2
    <3>6. BlankWhenFilled(s)'
      <4> SUFFICES ASSUME req[s].at \in {"gathering", "rewriting"}, FilledBox(s) \notin raced
                   PROVE  rows'[FilledBox(s)] = None \/ rows'[FilledBox(s)].contents_line = Blank
        BY <1>1, <3>1, <3>3 DEF BlankWhenFilled, Blank, Line
      <4>1. FilledBox(s) \in About(s) /\ FilledBox(s) \in Keys /\ req[s].at \in Busy
        BY <1>2, FillsABox
      <4>2. FilledBox(s) # b
        BY <1>2, <1>3, <4>1, NoOther
      <4> QED BY <2>9, <3>2, <4>1, <4>2 DEF BlankWhenFilled
    <3>7. ReadIsCurrent(s)'
      <4> SUFFICES ASSUME req[s].at = "writing", Op(s) # "create", KeyOf(s) \notin raced
                   PROVE  Audited(KeyOf(s), req[s].old) = Audited(KeyOf(s), rows'[KeyOf(s)])
        BY <1>1, <3>1, <3>3 DEF ReadIsCurrent, Audited
      <4>1. KeyOf(s) \in Keys
        BY <1>2, OfOneTable DEF Busy
      <4> QED BY <2>9, <3>2, <4>1 DEF ReadIsCurrent
    <3>8. WriterKnows(s)'
      <4> SUFFICES ASSUME req[s].at = "auditing", KeyOf(s) \notin raced
                   PROVE  /\ Audited(KeyOf(s), rows'[KeyOf(s)]) = Audited(KeyOf(s), req[s].new)
                          /\ Audited(KeyOf(s), Logged(KeyOf(s), Len(audit))) = Audited(KeyOf(s), req[s].old)
        BY <1>1, <3>1, <3>3, LoggedSame DEF WriterKnows, Audited
      <4>1. KeyOf(s) \in Keys
        BY <1>2, OfOneTable DEF Busy
      <4> QED BY <2>9, <3>2, <4>1 DEF WriterKnows
    <3> QED BY <3>4, <3>5, <3>6, <3>7, <3>8
  <2>11. PerRequest'
    BY <1>5, <2>10 DEF PerRequest, Arrives
  <2>12. AuditReplays'
    <3> SUFFICES ASSUME NEW j \in Keys, j \notin raced
                 PROVE  /\ \A i \in Told(j, Len(audit)) : Audited(j, audit[i].old) = Audited(j, Logged(j, i - 1))
                        /\ (\E s \in Requests : KeyOf(s) = j /\ req'[s].at = "auditing")
                           \/ Audited(j, rows'[j]) = Audited(j, Logged(j, Len(audit)))
      BY <1>1, LoggedSame, AboutSame DEF AuditReplays, Audited
    <3>1. \A s \in Requests : req[s].at = "auditing" => req'[s] = req[s]
      BY <1>1, <1>5 DEF Only
    <3> QED BY <1>2, <2>9, <3>1 DEF AuditReplays
  <2> QED BY <2>6, <2>7, <2>8, <2>11, <2>12 DEF StaffInv
<1> QED BY <1>6, <1>7
-----------------------------------------------------------------------------
(* The audit record.                                                       *)

\* The log is only appended to: what it has told before stays, and the new entry
\* is the last word on its row.
LEMMA LoggedAfter ==
    ASSUME NEW S, audit \in Seq(S), NEW e \in S, audit' = Append(audit, e)
    PROVE  /\ Len(audit)' = Len(audit) + 1
           /\ \A i \in 1 .. Len(audit) : audit'[i] = audit[i]
           /\ audit'[Len(audit) + 1] = e
           /\ \A k, n : n \in 0 .. Len(audit) => Told(k, n)' = Told(k, n) /\ Logged(k, n)' = Logged(k, n)
           /\ \A k : Told(k, Len(audit))' = Told(k, Len(audit)) \cup (IF e.key = k THEN {Len(audit) + 1} ELSE {})
           /\ \A k : Logged(k, Len(audit))' = IF e.key = k THEN e.new ELSE Logged(k, Len(audit))
<1>0. PICK m \in Nat : m = Len(audit)
  OBVIOUS
<1>1. /\ Len(audit)' = m + 1 /\ audit'[m + 1] = e
      /\ \A i \in 1 .. m : audit'[i] = audit[i]
  BY <1>0
<1>2. ASSUME NEW k, NEW n \in 0 .. m PROVE Told(k, n)' = Told(k, n) /\ Logged(k, n)' = Logged(k, n)
  <2>1. Told(k, n)' = Told(k, n)
    BY <1>1 DEF Told
  <2>2. CASE Told(k, n) = {}
    BY <2>1, <2>2 DEF Logged
  <2>3. CASE Told(k, n) # {}
    <3>1. n \in Int /\ Told(k, n) \subseteq 1 .. n
      BY DEF Told
    <3>2. IsFiniteSet(1 .. n)
      BY <3>1, FS_Interval
    <3>3. IsFiniteSet(Told(k, n)) /\ Told(k, n) \subseteq Int
      BY <3>1, <3>2, FS_Subset
    <3>4. Max(Told(k, n)) \in 1 .. n
      BY <2>3, <3>1, <3>3, MaxOf
    <3>5. audit'[Max(Told(k, n))] = audit[Max(Told(k, n))]
      BY <1>1, <3>4
    <3> QED BY <2>1, <2>3, <3>5 DEF Logged
  <2> QED BY <2>1, <2>2, <2>3
<1>3. ASSUME NEW k PROVE Told(k, Len(audit))' = Told(k, m) \cup (IF e.key = k THEN {m + 1} ELSE {})
  <2>1. 1 .. m + 1 = (1 .. m) \cup {m + 1}
    BY <1>1
  <2> QED BY <1>1, <2>1 DEF Told
<1>4. ASSUME NEW k PROVE Logged(k, Len(audit))' = IF e.key = k THEN e.new ELSE Logged(k, m)
  <2>1. CASE e.key = k
    <3> DEFINE T == Told(k, Len(audit))'
    <3>1. m + 1 \in T /\ \A i \in T : i \in Int /\ m + 1 >= i
      BY <1>1, <1>3, <2>1 DEF Told
    <3> HIDE DEF T
    <3>2. Max(T) = m + 1
      <4>1. \A x \in T : (\A y \in T : x >= y) => x = m + 1
        BY <3>1
      <4> QED BY <3>1, <4>1 DEF Max
    <3>3. Logged(k, Len(audit))' = audit'[Max(T)]["new"]
      BY <3>1 DEF Logged, T
    <3> QED BY <1>1, <2>1, <3>2, <3>3
  <2>2. CASE e.key # k
    <3>1. Told(k, Len(audit))' = Told(k, m) /\ Told(k, m)' = Told(k, m)
      <4>1. m \in 0 .. m
        OBVIOUS
      <4> QED BY <4>1, <1>2, <1>3, <2>2
    <3>2. Logged(k, Len(audit))' = Logged(k, m)'
      BY <3>1 DEF Logged
    <3>3. m \in 0 .. m
      BY <1>1
    <3> QED BY <1>2, <2>2, <3>2, <3>3
  <2> QED BY <2>1, <2>2
<1> QED BY <1>0, <1>1, <1>2, <1>3, <1>4

LEMMA BoxesOfType ==
    ASSUME TableTypes, PerRequest, NEW r \in Requests, req[r].at = "auditing"
    PROVE  /\ BoxesOf(r) \in Seq(Boxes \cup {None})
           /\ BoxesOf(r) # <<>> => task[r].table = "gift_box_items"
<1>1. CASE task[r].table # "gift_box_items"
  BY <1>1 DEF BoxesOf
<1>2. CASE task[r].table = "gift_box_items"
  <2>1. /\ IF Op(r) = "create" THEN req[r].old = None ELSE req[r].old \in ItemRows
        /\ IF Op(r) = "delete" THEN req[r].new = None ELSE req[r].new \in ItemRows
    <3>1. /\ IF Op(r) = "create" THEN req[r].old = None ELSE req[r].old \in RowsOf(task[r].table)
          /\ IF Op(r) = "delete" THEN req[r].new = None ELSE req[r].new \in RowsOf(task[r].table)
      BY DEF PerRequest, Steps
    <3>2. RowsOf(task[r].table) = ItemRows
      BY <1>2 DEF RowsOf
    <3> QED BY <3>1, <3>2
  <2>2. \A row \in ItemRows : row.gift_box_id \in Boxes \cup {None} /\ row # None
    BY RowsAssumption DEF ItemRows
  <2>3. req[r].new # None => req[r].new.gift_box_id \in Boxes \cup {None}
    BY <2>1, <2>2
  <2>4. req[r].old # None => req[r].old.gift_box_id \in Boxes \cup {None}
    BY <2>1, <2>2
  <2>5. req[r].new = None => req[r].old # None
    BY <2>1, <2>2
  <2>6. \A x, y \in Boxes \cup {None} : <<x>> \in Seq(Boxes \cup {None}) /\ <<x, y>> \in Seq(Boxes \cup {None})
    OBVIOUS
  <2>7. CASE req[r].new = None
    BY <1>2, <2>4, <2>5, <2>6, <2>7 DEF BoxesOf
  <2>8. CASE req[r].new # None /\ req[r].old # None /\ req[r].old.gift_box_id # req[r].new.gift_box_id
    BY <1>2, <2>3, <2>4, <2>6, <2>8 DEF BoxesOf
  <2>9. CASE req[r].new # None /\ ~(req[r].old # None /\ req[r].old.gift_box_id # req[r].new.gift_box_id)
    BY <1>2, <2>3, <2>6, <2>9 DEF BoxesOf
  <2> QED BY <2>7, <2>8, <2>9
<1> QED BY <1>1, <1>2

LEMMA AuditStep ==
    ASSUME StaffInv, NEW r \in Requests, Audit(r), UNCHANGED <<clock, updatedAt>>
    PROVE  StaffInv'
<1> DEFINE k   == KeyOf(r)
           old == req[r].old
           new == req[r].new
           e   == [key |-> k, old |-> old, new |-> new]
           Entry == [key : Keys, old : AnyRow \cup {None}, new : AnyRow \cup {None}]
<1>1. /\ req[r].at = "auditing" /\ Continue(r, BoxesOf(r))
      /\ UNCHANGED <<rows, embeddings, draft, failures, task, raced>>
      /\ \/ audit' = Append(audit, e)
         \/ audit' = audit /\ old = new
  BY DEF Audit, MeaningfullyChanged
<1>2. /\ TableTypes /\ ForeignKeys /\ PerRequest /\ RequestTypes /\ Apart /\ AuditReplays
      /\ req[r].at \in Busy
  BY <1>1 DEF StaffInv, Busy
<1>3. k \in Keys /\ k \in About(r) /\ task[r].table \in Written
  BY <1>2, OfOneTable
<1>4. /\ old \in AnyRow \cup {None} /\ new \in AnyRow \cup {None} /\ (old # None \/ new # None)
  <2>1. /\ IF Op(r) = "create" THEN old = None ELSE old \in RowsOf(task[r].table)
        /\ IF Op(r) = "delete" THEN new = None ELSE new \in RowsOf(task[r].table)
    BY <1>1, <1>2 DEF PerRequest, Steps
  <2> QED BY <1>3, <2>1, RowsAreRows
<1>5. Only(r) /\ Arrives(r)
  BY <1>1, <1>2, BoxesOfType, Continues
<1>6. /\ audit \in Seq(Entry) /\ e \in Entry /\ e.key = k /\ e.old = old /\ e.new = new
      /\ \A i \in DOMAIN audit : audit[i].old # None \/ audit[i].new # None
  BY <1>2, <1>3, <1>4 DEF TableTypes
<1>7. k \notin raced => /\ Audited(k, rows[k]) = Audited(k, new)
                        /\ Audited(k, Logged(k, Len(audit))) = Audited(k, old)
  BY <1>1, <1>2 DEF PerRequest, WriterKnows
<1>8. \A s \in Requests \ {r} : req[s].at = "auditing" /\ KeyOf(s) \notin raced => KeyOf(s) # k
  <2>1. \A s \in Requests : KeyOf(s) \in About(s)
    BY DEF About
  <2> QED BY <1>2, <1>3, <2>1, NoOther DEF Busy
<1> HIDE DEF e, Entry
<1>9. TableTypes'
  <2>1. audit' \in Seq(Entry) /\ \A i \in DOMAIN audit' : audit'[i].old # None \/ audit'[i].new # None
    <3>1. CASE audit' = audit
      BY <1>6, <3>1
    <3>2. CASE audit' = Append(audit, e)
      BY <1>4, <1>6, <3>2
    <3> QED BY <1>1, <3>1, <3>2
  <2> QED BY <1>1, <1>2, <2>1 DEF TableTypes, Entry
<1>10. ForeignKeys' /\ RequestTypes' /\ Apart'
  BY <1>1, <1>2, <1>5, RequestTypesAfter, ApartAfter DEF ForeignKeys, Arrives
\* What the log then has of a row that is not raced.
<1>11. ASSUME NEW j \in Keys, j \notin raced
       PROVE  /\ \A i \in Told(j, Len(audit))' : Audited(j, audit'[i].old) = Audited(j, Logged(j, i - 1)')
              /\ j # k => Logged(j, Len(audit))' = Logged(j, Len(audit))
              /\ j = k => Audited(j, Logged(j, Len(audit))') = Audited(j, new)
  <2>0. \A i \in Told(j, Len(audit)) : Audited(j, audit[i].old) = Audited(j, Logged(j, i - 1))
    BY <1>2, <1>11 DEF AuditReplays
  <2>1. CASE audit' = audit /\ old = new
    BY <1>7, <1>11, <2>0, <2>1, LoggedSame
  <2>2. CASE audit' = Append(audit, e)
    <3>0. PICK m \in Nat : m = Len(audit)
      BY <1>6
    <3>1. /\ \A i \in 1 .. m : audit'[i] = audit[i]
          /\ audit'[m + 1] = e
          /\ \A n \in 0 .. m : Logged(j, n)' = Logged(j, n)
          /\ Told(j, Len(audit))' = Told(j, m) \cup (IF e.key = j THEN {m + 1} ELSE {})
          /\ Logged(j, Len(audit))' = IF e.key = j THEN e.new ELSE Logged(j, m)
      BY <1>6, <2>2, <3>0, LoggedAfter
    <3>2. ASSUME NEW i \in Told(j, Len(audit))' PROVE Audited(j, audit'[i].old) = Audited(j, Logged(j, i - 1)')
      <4>1. CASE i \in Told(j, m)
        <5>1. i \in 1 .. m /\ i - 1 \in 0 .. m
          BY <4>1 DEF Told
        <5>2. audit'[i] = audit[i] /\ Logged(j, i - 1)' = Logged(j, i - 1)
          BY <3>1, <5>1
        <5> QED BY <2>0, <3>0, <4>1, <5>2
      <4>2. CASE i = m + 1 /\ j = k
        <5>1. i - 1 = m /\ m \in 0 .. m
          BY <4>2
        <5>2. audit'[i].old = old /\ Logged(j, i - 1)' = Logged(j, m)
          BY <1>6, <3>1, <4>2, <5>1
        <5> QED BY <1>7, <1>11, <3>0, <4>2, <5>2
      <4> QED BY <1>6, <3>1, <3>2, <4>1, <4>2
    <3> QED BY <1>6, <3>0, <3>1, <3>2
  <2> QED BY <1>1, <2>1, <2>2
<1>12. PerRequest'
  <2>1. ASSUME NEW s \in Requests \ {r}
        PROVE  Steps(s)' /\ Fresh(s)' /\ BlankWhenFilled(s)' /\ ReadIsCurrent(s)' /\ WriterKnows(s)'
    <3>1. req'[s] = req[s] /\ KeyOf(s)' = KeyOf(s) /\ Op(s)' = Op(s) /\ FilledBox(s)' = FilledBox(s)
          /\ Refusal(task[s])' = Refusal(task[s]) /\ rows' = rows
      BY <1>1, <1>5 DEF Only, KeyOf, Op, FilledBox, Refusal, Unauthorized, Invalid, Operation
    <3>2. Steps(s) /\ Fresh(s) /\ BlankWhenFilled(s) /\ ReadIsCurrent(s) /\ WriterKnows(s)
      BY <1>2 DEF PerRequest
    <3>3. Steps(s)' /\ Fresh(s)' /\ BlankWhenFilled(s)' /\ ReadIsCurrent(s)'
      BY <1>1, <3>1, <3>2 DEF Steps, Fresh, BlankWhenFilled, ReadIsCurrent, Audited, Blank, Line
    <3>4. WriterKnows(s)'
      <4> SUFFICES ASSUME req[s].at = "auditing", KeyOf(s) \notin raced
                   PROVE  /\ Audited(KeyOf(s), rows[KeyOf(s)]) = Audited(KeyOf(s), req[s].new)
                          /\ Audited(KeyOf(s), Logged(KeyOf(s), Len(audit))') = Audited(KeyOf(s), req[s].old)
        BY <1>1, <3>1 DEF WriterKnows, Audited
      <4>1. PICK j \in Keys : j = KeyOf(s)
        BY <1>2, OfOneTable DEF Busy
      <4>2. Logged(j, Len(audit))' = Logged(j, Len(audit))
        BY <1>8, <1>11, <4>1
      <4>3. Logged(KeyOf(s), Len(audit))' = Logged(KeyOf(s), Len(audit))
        BY <3>1, <4>1, <4>2
      <4> QED BY <3>2, <4>3 DEF WriterKnows
    <3> QED BY <3>3, <3>4
  <2> QED BY <1>5, <2>1 DEF PerRequest, Arrives
<1>13. AuditReplays'
  <2> SUFFICES ASSUME NEW j \in Keys, j \notin raced
               PROVE  /\ \A i \in Told(j, Len(audit))' : Audited(j, audit'[i].old) = Audited(j, Logged(j, i - 1)')
                      /\ (\E s \in Requests : KeyOf(s) = j /\ req'[s].at = "auditing")
                         \/ Audited(j, rows[j]) = Audited(j, Logged(j, Len(audit))')
    BY <1>1, AboutSame DEF AuditReplays, Audited
  <2>1. CASE j = k
    BY <1>7, <1>11, <2>1
  <2>2. CASE j # k
    <3>1. \A s \in Requests : KeyOf(s) = j => req'[s] = req[s]
      BY <1>5, <2>2 DEF Only
    <3> QED BY <1>2, <1>11, <2>2, <3>1 DEF AuditReplays
  <2> QED BY <2>1, <2>2
<1> QED BY <1>9, <1>10, <1>12, <1>13 DEF StaffInv

\* A step of a request, whichever it is.
LEMMA StaffKeeps ==
    ASSUME StaffInv, JobTypes, SearchTypes, StaffStep
    PROVE  StaffInv' /\ JobTypes' /\ SearchTypes'
<1>1. Touch /\ Stamp /\ UNCHANGED <<points, clock, job, search>> /\ TableTypes
  BY DEF StaffStep, StaffInv
<1>2. JobTypes' /\ SearchTypes'
  BY <1>1, TouchKeepsShelf DEF JobTypes
<1>3. PICK r \in Requests : Serve(r) \/ Fail(r)
  BY DEF StaffStep
<1>4. CASE Write(r) \/ FillLine(r)
  BY <1>1, <1>2, <1>4, WriteStep, FillLineStep
<1>5. CASE ~(Write(r) \/ FillLine(r))
  <2>1. UNCHANGED rows
    BY <1>3, <1>5 DEF Serve, Fail, Receive, LookUp, Audit, ReadLine, Gather, List, Related, Lookup,
                      Detail, Quietly, tables
  <2>2. UNCHANGED <<clock, updatedAt>>
    BY <1>1, <2>1, StampSame
  <2>3. StaffInv'
    BY <1>3, <1>5, <2>2, ReceiveStep, LookUpStep, AuditStep, ReadLineStep, GatherStep, ReadStep, FailStep
       DEF Serve
  <2> QED BY <1>2, <2>3
<1> QED BY <1>4, <1>5
-----------------------------------------------------------------------------
(* The import.                                                             *)

LEMMA RepricedRow ==
    ASSUME TableTypes, NEW p \in Products, rows[p] # None, NEW price \in Int,
           rows' = [rows EXCEPT ![p].base_price = price]
    PROVE  \E row \in ProductRows : rows' = [rows EXCEPT ![p] = row] /\ ~Dangling(row)
<1>1. rows[p] \in ProductRows
  BY KeyKinds DEF TableTypes
<1>2. rows[p] = [status |-> rows[p].status, base_price |-> rows[p].base_price,
                 category_id |-> rows[p].category_id]
      /\ rows[p].status \in Statuses /\ rows[p].category_id \in Categories \cup {None}
  BY <1>1 DEF ProductRows
<1> DEFINE row == ProductRow(rows[p].status, price, rows[p].category_id)
<1>3. row \in ProductRows
  BY <1>2 DEF ProductRow, ProductRows, Amounts
<1>4. [rows[p] EXCEPT !.base_price = price] = row
  BY <1>2 DEF ProductRow
<1>5. rows' = [rows EXCEPT ![p] = [rows[p] EXCEPT !.base_price = price]]
  OBVIOUS
<1>6. rows' = [rows EXCEPT ![p] = row]
  BY <1>4, <1>5
<1>7. ~Dangling(row)
  BY DEF Dangling, ProductRow
<1> HIDE DEF row
<1> QED BY <1>3, <1>6, <1>7

LEMMA ImportKeeps ==
    ASSUME StaffInv, JobTypes, SearchTypes, NEW p \in Imported, Import(p)
    PROVE  StaffInv' /\ JobTypes' /\ SearchTypes'
<1>1. /\ rows[p] # None /\ clock < MaxClock /\ clock' = clock + 1
      /\ updatedAt' = [updatedAt EXCEPT ![p] = clock'] /\ raced' = raced \cup {p} /\ Touch
      /\ UNCHANGED <<audit, embeddings, draft, req, failures, task, points, job, search>>
      /\ p \in Products
  BY ImportAssumption DEF Import
<1>2. /\ TableTypes /\ ForeignKeys /\ PerRequest /\ RequestTypes /\ Apart /\ AuditReplays
  BY DEF StaffInv
<1>3. JobTypes' /\ SearchTypes'
  BY <1>1, TouchKeepsShelf DEF JobTypes
<1>4. PICK row \in ProductRows : rows' = [rows EXCEPT ![p] = row] /\ ~Dangling(row)
  <2>1. PICK price \in Int : rows' = [rows EXCEPT ![p].base_price = price]
    BY ImportAssumption DEF Import
  <2> QED BY <1>1, <1>2, <2>1, RepricedRow
<1>5. "products" \in Written /\ p \in KeysOf("products") /\ row \in RowsOf("products") /\ p \in Keys
  BY <1>1, KeyKinds DEF Keys
<1>6. TableTypes'
  <2>1. clock' \in 1 .. MaxClock /\ clock < clock' /\ clock \in Int
    BY <1>1, <1>2, ImportAssumption DEF TableTypes
  <2>2. updatedAt' \in [Products -> 0 .. clock']
    BY <1>1, <1>2, <2>1, ImportAssumption DEF TableTypes
  <2>3. \A q \in Products : draft[q] <= clock'
    BY <1>2, <2>1 DEF TableTypes
  <2> QED BY <1>1, <1>2, <1>4, <1>5, <2>1, <2>2, <2>3, RowTypesAfter DEF TableTypes
<1>7. ForeignKeys'
  BY <1>1, <1>2, <1>4, <1>5, ForeignKeysAfterPut
<1>8. \A j \in Keys \ {p} : rows'[j] = rows[j]
  BY <1>2, <1>4 DEF TableTypes
<1>9. RequestTypes'
  BY <1>1, <1>2 DEF RequestTypes
<1>10. Apart'
  BY <1>1, <1>2, AboutSame DEF Apart
<1>11. ASSUME NEW s \in Requests
       PROVE  Steps(s)' /\ Fresh(s)' /\ BlankWhenFilled(s)' /\ ReadIsCurrent(s)' /\ WriterKnows(s)'
  <2>1. req' = req /\ KeyOf(s)' = KeyOf(s) /\ Op(s)' = Op(s) /\ FilledBox(s)' = FilledBox(s)
        /\ Refusal(task[s])' = Refusal(task[s])
    BY <1>1 DEF KeyOf, Op, FilledBox, Refusal, Unauthorized, Invalid, Operation
  <2>2. Steps(s) /\ Fresh(s) /\ BlankWhenFilled(s) /\ ReadIsCurrent(s) /\ WriterKnows(s)
    BY <1>2 DEF PerRequest
  <2>3. Steps(s)'
    BY <1>1, <2>1, <2>2 DEF Steps
  <2>4. Fresh(s)'
    <3> SUFFICES ASSUME req[s].at \in {"new", "writing"}, Op(s) = "create", Refusal(task[s]) = 0
                 PROVE  rows'[KeyOf(s)] = None
      BY <2>1 DEF Fresh
    <3>1. rows[KeyOf(s)] = None
      BY <2>2 DEF Fresh
    <3>2. KeyOf(s) \in Keys
      BY <1>2, Accepted, TablesApart DEF Changes
    <3> QED BY <1>1, <1>8, <3>1, <3>2
  <2>5. BlankWhenFilled(s)'
    <3> SUFFICES ASSUME req[s].at \in {"gathering", "rewriting"}, FilledBox(s) \notin raced'
                 PROVE  rows'[FilledBox(s)] = None \/ rows'[FilledBox(s)].contents_line = Blank
      BY <2>1 DEF BlankWhenFilled, Blank, Line
    <3>1. FilledBox(s) \in Keys
      BY <1>2, FillsABox
    <3> QED BY <1>1, <1>8, <2>2, <3>1 DEF BlankWhenFilled
  <2>6. ReadIsCurrent(s)'
    <3> SUFFICES ASSUME req[s].at = "writing", Op(s) # "create", KeyOf(s) \notin raced'
                 PROVE  Audited(KeyOf(s), req[s].old) = Audited(KeyOf(s), rows'[KeyOf(s)])
      BY <2>1 DEF ReadIsCurrent, Audited
    <3>1. KeyOf(s) \in Keys
      BY <1>2, OfOneTable DEF Busy
    <3> QED BY <1>1, <1>8, <2>2, <3>1 DEF ReadIsCurrent
  <2>7. WriterKnows(s)'
    <3> SUFFICES ASSUME req[s].at = "auditing", KeyOf(s) \notin raced'
                 PROVE  /\ Audited(KeyOf(s), rows'[KeyOf(s)]) = Audited(KeyOf(s), req[s].new)
                        /\ Audited(KeyOf(s), Logged(KeyOf(s), Len(audit))) = Audited(KeyOf(s), req[s].old)
      BY <1>1, <2>1, LoggedSame DEF WriterKnows, Audited
    <3>1. KeyOf(s) \in Keys
      BY <1>2, OfOneTable DEF Busy
    <3> QED BY <1>1, <1>8, <2>2, <3>1 DEF WriterKnows
  <2> QED BY <2>3, <2>4, <2>5, <2>6, <2>7
<1>12. PerRequest'
  BY <1>11 DEF PerRequest
<1>13. AuditReplays'
  <2> SUFFICES ASSUME NEW j \in Keys, j \notin raced'
               PROVE  /\ \A i \in Told(j, Len(audit)) : Audited(j, audit[i].old) = Audited(j, Logged(j, i - 1))
                      /\ (\E s \in Requests : KeyOf(s) = j /\ req[s].at = "auditing")
                         \/ Audited(j, rows'[j]) = Audited(j, Logged(j, Len(audit)))
    BY <1>1, LoggedSame, AboutSame DEF AuditReplays, Audited
  <2>1. j \notin raced /\ rows'[j] = rows[j]
    BY <1>1, <1>8
  <2> QED BY <1>2, <2>1 DEF AuditReplays
<1> QED BY <1>3, <1>6, <1>7, <1>9, <1>10, <1>12, <1>13 DEF StaffInv
-----------------------------------------------------------------------------
(* The job and the search.                                                 *)

\* They leave staff's requests, their tables and their log alone.
LEMMA StaffAlone ==
    ASSUME RequestTypes, PerRequest, Apart, AuditReplays, UNCHANGED <<rows, audit, req, task, raced>>
    PROVE  RequestTypes' /\ PerRequest' /\ Apart' /\ AuditReplays'
<1>1. \A s \in Requests : KeyOf(s)' = KeyOf(s) /\ Op(s)' = Op(s) /\ FilledBox(s)' = FilledBox(s)
                          /\ Refusal(task[s])' = Refusal(task[s]) /\ About(s)' = About(s)
  BY DEF KeyOf, Op, FilledBox, Refusal, Unauthorized, Invalid, Operation, About
<1>2. RequestTypes' /\ Apart'
  BY <1>1 DEF RequestTypes, Apart
<1>3. PerRequest'
  <2> SUFFICES ASSUME NEW s \in Requests
               PROVE  Steps(s)' /\ Fresh(s)' /\ BlankWhenFilled(s)' /\ ReadIsCurrent(s)' /\ WriterKnows(s)'
    BY DEF PerRequest
  <2> QED BY OthersStay
<1>4. AuditReplays'
  BY <1>1, LoggedSame DEF AuditReplays, Audited
<1> QED BY <1>2, <1>3, <1>4

LEMMA SearchAloneKeeps ==
    ASSUME SearchTypes, UNCHANGED <<rows, search, touched>>
    PROVE  SearchTypes'
<1>1. Touch
  BY DEF Touch
<1> QED BY <1>1, TouchKeepsShelf

\* A step of the job that writes its rows, commits or rolls them back.
LEMMA DraftStep ==
    ASSUME StaffInv, SearchTypes, JobAlone, failures' \in 0 .. MaxFailures,
           embeddings' \in [Products -> Nat], draft' \in [Products -> Nat],
           \A p \in Products : /\ embeddings'[p] <= draft'[p] /\ draft'[p] <= clock
                               /\ draft'[p] > 0 => rows[p] # None
    PROVE  StaffInv' /\ SearchTypes'
<1>1. UNCHANGED <<rows, audit, req, task, raced, updatedAt, clock, search, touched>>
  BY DEF JobAlone, tables
<1>2. TableTypes' /\ ForeignKeys'
  BY <1>1 DEF StaffInv, TableTypes, ForeignKeys
<1> QED BY <1>1, <1>2, StaffAlone, SearchAloneKeeps DEF StaffInv

LEMMA NoJobTypes ==
    ASSUME JobTypes, UNCHANGED points, job' = NoJob
    PROVE  JobTypes'
<1>1. /\ NoJob.at = "idle" /\ NoJob.todo = {} /\ DOMAIN NoJob.read = Products
      /\ \A p \in Products : NoJob.read[p] = None
      /\ NoJob = [at |-> NoJob.at, todo |-> NoJob.todo, product |-> NoJob.product, read |-> NoJob.read]
  BY DEF NoJob
<1> QED BY <1>1 DEF JobTypes

LEMMA JobKeeps ==
    ASSUME StaffInv, JobTypes, SearchTypes, Job \/ JobFails
    PROVE  StaffInv' /\ JobTypes' /\ SearchTypes'
<1>1. /\ embeddings \in [Products -> Nat] /\ draft \in [Products -> Nat] /\ clock \in Nat \ {0}
      /\ \A p \in Products : /\ embeddings[p] <= draft[p] /\ draft[p] <= clock
                             /\ draft[p] > 0 => rows[p] # None
      /\ failures \in 0 .. MaxFailures /\ (failures < MaxFailures => failures + 1 \in 0 .. MaxFailures)
  BY FailuresType, ImportAssumption DEF StaffInv, TableTypes, ForeignKeys
<1>2. \A p \in Products : embeddings[p] <= clock /\ (embeddings[p] > 0 => rows[p] # None)
  BY <1>1
<1>3. CASE JobStarts
  <2>1. /\ JobAlone /\ UNCHANGED <<embeddings, draft, points, failures>>
        /\ job' = [at |-> "point", todo |-> NeedingEmbedding, product |-> None,
                   read |-> [p \in Products |-> IF p \in NeedingEmbedding THEN Payload(p) ELSE None]]
    BY <1>3 DEF JobStarts
  <2>2. \A p \in NeedingEmbedding : p \in Products /\ Payload(p).status = "ACTIVE"
    BY DEF NeedingEmbedding, Payload
  <2>3. JobTypes'
    BY <2>1, <2>2 DEF JobTypes
  <2> QED BY <1>1, <2>1, <2>3, DraftStep
<1>4. ASSUME NEW p \in Products, UpsertPoint(p) PROVE StaffInv' /\ JobTypes' /\ SearchTypes'
  <2>1. /\ JobAlone /\ UNCHANGED <<embeddings, draft, failures>>
        /\ points' = [points EXCEPT ![p] = job.read[p]]
        /\ job' = [job EXCEPT !.at = "row", !.product = p]
    BY <1>4 DEF UpsertPoint
  <2>2. job' = [[job EXCEPT !.at = "row"] EXCEPT !.product = p]
    BY <2>1
  <2>3. job' = [at |-> "row", todo |-> job.todo, product |-> p, read |-> job.read]
    BY <2>2 DEF JobTypes
  <2>4. JobTypes'
    BY <2>1, <2>3 DEF JobTypes
  <2> QED BY <1>1, <2>1, <2>4, DraftStep
<1>5. CASE UpsertRow
  <2>1. /\ JobAlone /\ UNCHANGED <<embeddings, points, failures>>
        /\ job.at = "row" /\ rows[job.product] # None
        /\ draft' = [draft EXCEPT ![job.product] = clock]
        /\ job' = [job EXCEPT !.at = "point", !.todo = @ \ {job.product}, !.product = None]
    BY <1>5 DEF UpsertRow
  <2>2. job' = [[[job EXCEPT !.at = "point"] EXCEPT !.todo = job.todo \ {job.product}] EXCEPT !.product = None]
    BY <2>1 DEF JobTypes
  <2>3. job' = [at |-> "point", todo |-> job.todo \ {job.product}, product |-> None, read |-> job.read]
    BY <2>2 DEF JobTypes
  <2>4. JobTypes'
    BY <2>1, <2>3 DEF JobTypes
  <2>5. job.product \in Products
    BY <2>1 DEF JobTypes
  <2> QED BY <1>1, <1>2, <2>1, <2>4, <2>5, DraftStep
<1>6. CASE RowRefused
  <2>1. JobAlone /\ UNCHANGED <<embeddings, points, failures>> /\ draft' = embeddings /\ job' = NoJob
    BY <1>6 DEF RowRefused
  <2> QED BY <1>1, <1>2, <2>1, NoJobTypes, DraftStep
<1>7. CASE JobFails
  <2>1. /\ JobAlone /\ UNCHANGED <<embeddings, points>> /\ draft' = embeddings /\ job' = NoJob
        /\ failures' \in 0 .. MaxFailures
    BY <1>1, <1>7 DEF JobFails
  <2> QED BY <1>1, <1>2, <2>1, NoJobTypes, DraftStep
<1>8. CASE JobCommits
  <2>1. JobAlone /\ UNCHANGED <<draft, points, failures>> /\ embeddings' = draft /\ job' = NoJob
    BY <1>8 DEF JobCommits
  <2> QED BY <1>1, <1>2, <2>1, NoJobTypes, DraftStep
<1> QED BY <1>3, <1>4, <1>5, <1>6, <1>7, <1>8 DEF Job

\* The SQL half finds what is on the shelf.
LEMMA FoundOnTheShelf ==
    /\ \A p \in StructuredProducts(rows, Products, search.slots) :
         p \in Products /\ OnTheShelf(Hit("product", p, "sql_filter", FALSE))
    /\ \A b \in StructuredBoxes(rows, Boxes, search.slots) :
         b \in Boxes /\ OnTheShelf(Hit("gift_box", b, "sql_filter", FALSE))
BY DEF StructuredProducts, StructuredBoxes, OnTheShelf, Hit

\* The vector store knows active products only, and a search with a budget asks
\* for those of another status.
LEMMA NothingForABudget ==
    ASSUME JobTypes
    PROVE  /\ SemanticPoints(points, Products, search.slots) \subseteq Products
           /\ SemanticBudget(search.slots) # None => SemanticPoints(points, Products, search.slots) = {}
BY DEF JobTypes, SemanticPoints

LEMMA BudgetSame ==
    ASSUME search'.slots = search.slots
    PROVE  SemanticBudget(search.slots)' = SemanticBudget(search.slots)
BY DEF SemanticBudget, Truthy

\* A step of the search that changes no table, and has found what it may find.
LEMMA SearchStep ==
    ASSUME SearchTypes, UNCHANGED rows, search'.slots = search.slots,
           search' = [at |-> search'.at, slots |-> search'.slots, sql |-> search'.sql,
                      semantic |-> search'.semantic, products |-> search'.products,
                      boxes |-> search'.boxes, found |-> search'.found, similar |-> search'.similar,
                      hits |-> search'.hits, web |-> search'.web],
           search'.at \in {"running", "done", "failed"},
           search'.products \subseteq search.products \cup StructuredProducts(rows, Products, search.slots),
           search'.boxes \subseteq search.boxes \cup StructuredBoxes(rows, Boxes, search.slots),
           touched' = touched \/ (search.at = "new" /\ search'.products = {} /\ search'.boxes = {}),
           search'.found \subseteq Products,
           SemanticBudget(search.slots) # None => search'.found = {},
           search'.at = "done" => search'.hits = Merge(SqlHits, search.found, search.similar)'
    PROVE  SearchTypes'
<1>1. /\ \A p \in search'.products :
           p \in Products /\ (p \in touched' \/ OnTheShelf(Hit("product", p, "sql_filter", FALSE))')
      /\ \A b \in search'.boxes :
           b \in Boxes /\ (b \in touched' \/ OnTheShelf(Hit("gift_box", b, "sql_filter", FALSE))')
  BY FoundOnTheShelf, ShelfSame DEF SearchTypes
<1> QED BY <1>1, BudgetSame DEF SearchTypes

LEMMA SearchKeeps ==
    ASSUME StaffInv, JobTypes, SearchTypes, Search
    PROVE  StaffInv' /\ JobTypes' /\ SearchTypes'
<1>1. /\ UNCHANGED <<tables, embeddings, draft, req, task, raced, points, updatedAt, clock, job>>
      /\ failures' \in 0 .. MaxFailures
  <2>1. /\ failures \in 0 .. MaxFailures /\ (failures < MaxFailures => failures + 1 \in 0 .. MaxFailures)
    BY FailuresType DEF StaffInv
  <2> QED BY <2>1 DEF Search, SearchStarts, ReadProducts, ReadBoxes, AskQdrant, Hydrate, Conclude,
                      SearchFails, SearchAlone, staffVars
<1>2. JobTypes'
  BY <1>1 DEF JobTypes
<1>3. StaffInv'
  <2>1. TableTypes' /\ ForeignKeys'
    BY <1>1, TablesStay DEF StaffInv
  <2> QED BY <1>1, <2>1, StaffAlone DEF StaffInv, tables
<1>4. UNCHANGED rows
  BY <1>1 DEF tables
<1>5. /\ search.found \subseteq Products
      /\ search.at = "new" => search.products = {} /\ search.boxes = {}
      /\ search.at # "new" /\ SemanticBudget(search.slots) # None => search.found = {}
      /\ search.at = "new" => search.found = {}
  BY DEF SearchTypes
<1>6. CASE SearchStarts
  <2>1. search.at = "new" /\ search' = [search EXCEPT !.at = "running"] /\ touched' = {}
    BY <1>6 DEF SearchStarts
  <2>2. search' = [at |-> "running", slots |-> search.slots, sql |-> search.sql,
                   semantic |-> search.semantic, products |-> search.products,
                   boxes |-> search.boxes, found |-> search.found, similar |-> search.similar,
                   hits |-> search.hits, web |-> search.web]
    BY <2>1 DEF SearchTypes
  <2> QED BY <1>2, <1>3, <1>4, <1>5, <2>1, <2>2, SearchStep
<1>7. CASE ReadProducts
  <2>1. PICK T \in SUBSET StructuredProducts(rows, Products, search.slots) :
          search' = [search EXCEPT !.sql = "boxes", !.products = T]
    BY <1>7 DEF ReadProducts, Cut
  <2>2. search.at = "running" /\ touched' = touched
    BY <1>7 DEF ReadProducts
  <2>3. search' = [[search EXCEPT !.sql = "boxes"] EXCEPT !.products = T]
    BY <2>1
  <2>4. search' = [at |-> search.at, slots |-> search.slots, sql |-> "boxes",
                   semantic |-> search.semantic, products |-> T,
                   boxes |-> search.boxes, found |-> search.found, similar |-> search.similar,
                   hits |-> search.hits, web |-> search.web]
    BY <2>3 DEF SearchTypes
  <2> QED BY <1>2, <1>3, <1>4, <1>5, <2>2, <2>4, SearchStep
<1>8. CASE ReadBoxes
  <2>1. PICK T \in SUBSET StructuredBoxes(rows, Boxes, search.slots) :
          search' = [search EXCEPT !.sql = "done", !.boxes = T]
    BY <1>8 DEF ReadBoxes, Cut
  <2>2. search.at = "running" /\ touched' = touched
    BY <1>8 DEF ReadBoxes
  <2>3. search' = [[search EXCEPT !.sql = "done"] EXCEPT !.boxes = T]
    BY <2>1
  <2>4. search' = [at |-> search.at, slots |-> search.slots, sql |-> "done",
                   semantic |-> search.semantic, products |-> search.products,
                   boxes |-> T, found |-> search.found, similar |-> search.similar,
                   hits |-> search.hits, web |-> search.web]
    BY <2>3 DEF SearchTypes
  <2> QED BY <1>2, <1>3, <1>4, <1>5, <2>2, <2>4, SearchStep
<1>9. CASE AskQdrant
  <2>1. PICK T \in SUBSET SemanticPoints(points, Products, search.slots) :
          \E S \in SUBSET T :
            search' = [search EXCEPT !.semantic = IF T = {} THEN "done" ELSE "hydrating",
                                     !.found = T, !.similar = S]
    BY <1>9 DEF AskQdrant, Cut
  <2>2. PICK S \in SUBSET T :
          search' = [search EXCEPT !.semantic = IF T = {} THEN "done" ELSE "hydrating",
                                   !.found = T, !.similar = S]
    BY <2>1
  <2>3. search.at = "running" /\ touched' = touched
    BY <1>9 DEF AskQdrant
  <2> DEFINE half == IF T = {} THEN "done" ELSE "hydrating"
  <2>4. search' = [[[search EXCEPT !.semantic = half] EXCEPT !.found = T] EXCEPT !.similar = S]
    BY <2>2
  <2> HIDE DEF half
  <2>5. search' = [at |-> search.at, slots |-> search.slots, sql |-> search.sql,
                   semantic |-> half, products |-> search.products,
                   boxes |-> search.boxes, found |-> T, similar |-> S,
                   hits |-> search.hits, web |-> search.web]
    BY <2>4 DEF SearchTypes
  <2>6. T \subseteq Products /\ (SemanticBudget(search.slots) # None => T = {})
    BY NothingForABudget
  <2> QED BY <1>2, <1>3, <1>4, <1>5, <2>3, <2>5, <2>6, SearchStep
<1>10. CASE Hydrate
  <2>1. search.at = "running" /\ touched' = touched
    BY <1>10 DEF Hydrate
  <2>2. CASE search.sql # "done"
    <3>1. search' = [search EXCEPT !.at = "failed"]
      BY <1>10, <2>2 DEF Hydrate
    <3>2. search' = [at |-> "failed", slots |-> search.slots, sql |-> search.sql,
                     semantic |-> search.semantic, products |-> search.products,
                     boxes |-> search.boxes, found |-> search.found, similar |-> search.similar,
                     hits |-> search.hits, web |-> search.web]
      BY <3>1 DEF SearchTypes
    <3> QED BY <1>2, <1>3, <1>4, <1>5, <2>1, <3>2, SearchStep
  <2>3. CASE search.sql = "done"
    <3> DEFINE found   == Hydrated(rows, search.found)
               similar == Hydrated(rows, search.similar)
    <3>1. search' = [[[search EXCEPT !.semantic = "done"] EXCEPT !.found = found] EXCEPT !.similar = similar]
      BY <1>10, <2>3 DEF Hydrate, SearchTypes
    <3>2. found \subseteq search.found
      BY DEF Hydrated
    <3> HIDE DEF found, similar
    <3>3. search' = [at |-> search.at, slots |-> search.slots, sql |-> search.sql,
                     semantic |-> "done", products |-> search.products,
                     boxes |-> search.boxes, found |-> found, similar |-> similar,
                     hits |-> search.hits, web |-> search.web]
      BY <3>1 DEF SearchTypes
    <3> QED BY <1>2, <1>3, <1>4, <1>5, <2>1, <3>2, <3>3, SearchStep
  <2> QED BY <2>2, <2>3
<1>11. CASE Conclude
  <2> DEFINE merged == Merge(SqlHits, search.found, search.similar)
  <2>1. PICK web : search' = [search EXCEPT !.at = "done", !.hits = merged, !.web = web]
    BY <1>11 DEF Conclude
  <2>2. search.at = "running" /\ touched' = touched
    BY <1>11 DEF Conclude
  <2> HIDE DEF merged
  <2>3. search' = [[[search EXCEPT !.at = "done"] EXCEPT !.hits = merged] EXCEPT !.web = web]
    BY <2>1
  <2>4. search' = [at |-> "done", slots |-> search.slots, sql |-> search.sql,
                   semantic |-> search.semantic, products |-> search.products,
                   boxes |-> search.boxes, found |-> search.found, similar |-> search.similar,
                   hits |-> merged, web |-> web]
    BY <2>3 DEF SearchTypes
  <2>5. Merge(SqlHits, search.found, search.similar)' = merged
    BY <2>4 DEF merged, Merge, SqlHits
  <2> QED BY <1>2, <1>3, <1>4, <1>5, <2>2, <2>4, <2>5, SearchStep
<1>12. CASE SearchFails
  <2>1. search.at = "running" /\ search' = [search EXCEPT !.at = "failed"] /\ touched' = touched
    BY <1>12 DEF SearchFails
  <2>2. search' = [at |-> "failed", slots |-> search.slots, sql |-> search.sql,
                   semantic |-> search.semantic, products |-> search.products,
                   boxes |-> search.boxes, found |-> search.found, similar |-> search.similar,
                   hits |-> search.hits, web |-> search.web]
    BY <2>1 DEF SearchTypes
  <2> QED BY <1>2, <1>3, <1>4, <1>5, <2>1, <2>2, SearchStep
<1> QED BY <1>6, <1>7, <1>8, <1>9, <1>10, <1>11, <1>12 DEF Search
-----------------------------------------------------------------------------
(* The catalogue.                                                          *)

LEMMA InitHolds == CatalogueInit => IInv
<1> SUFFICES ASSUME CatalogueInit PROVE IInv
  OBVIOUS
<1> USE DEF CatalogueInit, Init
<1>1. TableTypes
  <2>1. \A t \in Written : \A k \in KeysOf(t) : rows[k] \in RowsOf(t) \cup {None}
    BY RowsAssumption, KeyKinds DEF Written
  <2>2. clock \in 1 .. MaxClock /\ updatedAt \in [Products -> 0 .. clock]
    BY ImportAssumption
  <2>3. failures \in 0 .. MaxFailures /\ DOMAIN rows = Keys
    BY RowsAssumption
  <2>4. embeddings = [p \in Products |-> 0] /\ draft = [p \in Products |-> 0] /\ clock = 1
    OBVIOUS
  <2>5. audit \in Seq([key : Keys, old : AnyRow \cup {None}, new : AnyRow \cup {None}])
        /\ DOMAIN audit = {}
    OBVIOUS
  <2> QED BY <2>1, <2>2, <2>3, <2>4, <2>5 DEF TableTypes
<1>2. JobTypes
  BY DEF JobTypes, NoJob
<1>3. SearchTypes
  <2>1. PICK slots \in Needs[task] : search = NoSearch(slots)
    OBVIOUS
  <2> QED BY <2>1 DEF SearchTypes, NoSearch
<1>4. ForeignKeys
  BY RowsAssumption DEF ForeignKeys
<1>5. \A r \in Requests : req[r] = Idle("new", 0)
  OBVIOUS
<1>6. RequestTypes
  <2>1. DOMAIN req = Requests
    OBVIOUS
  <2> QED BY <1>5, <2>1, IdleIs DEF RequestTypes, Codes
<1>7. \A r \in Requests : req[r].at = "new"
  BY <1>5, IdleIs
<1>8. Apart
  BY <1>7 DEF Apart, Busy
<1>9. PerRequest
  <2> SUFFICES ASSUME NEW r \in Requests
               PROVE  Steps(r) /\ Fresh(r) /\ BlankWhenFilled(r) /\ ReadIsCurrent(r) /\ WriterKnows(r)
    BY DEF PerRequest
  <2>1. Fresh(r)
    <3> SUFFICES ASSUME Op(r) = "create", Refusal(task[r]) = 0 PROVE rows[KeyOf(r)] = None
      BY DEF Fresh
    <3>1. Op(r) \in Changes
      BY DEF Changes
    <3> QED BY <1>1, <3>1, Accepted
  <2> QED BY <1>7, <2>1 DEF Steps, BlankWhenFilled, ReadIsCurrent, WriterKnows, Busy
<1>10. AuditReplays
  <2>1. \A k : Told(k, Len(audit)) = {}
    BY DEF Told
  <2>2. \A k : Logged(k, Len(audit)) = rows[k]
    BY <2>1 DEF Logged
  <2> QED BY <2>1, <2>2 DEF AuditReplays
<1> QED BY <1>1, <1>2, <1>3, <1>4, <1>6, <1>8, <1>9, <1>10 DEF IInv

LEMMA StepKeeps ==
    ASSUME IInv, [Next]_vars
    PROVE  IInv'
<1>1. StaffInv /\ JobTypes /\ SearchTypes
  BY DEF IInv, StaffInv
<1>2. CASE StaffStep
  BY <1>1, <1>2, StaffKeeps DEF IInv, StaffInv
<1>3. ASSUME NEW p \in Imported, Import(p) PROVE IInv'
  BY <1>1, <1>3, ImportKeeps DEF IInv, StaffInv
<1>4. CASE Job \/ JobFails
  BY <1>1, <1>4, JobKeeps DEF IInv, StaffInv
<1>5. CASE Search
  BY <1>1, <1>5, SearchKeeps DEF IInv, StaffInv
<1>6. CASE UNCHANGED vars
  <2>1. UNCHANGED <<tables, embeddings, draft, task, clock, updatedAt, rows, audit, req, raced, search,
                    touched, failures, points, job>>
    BY <1>6 DEF vars, staffVars, tables
  <2>2. TableTypes' /\ ForeignKeys'
    <3>1. failures' \in 0 .. MaxFailures
      BY <1>1, <2>1, FailuresType DEF StaffInv
    <3> QED BY <1>1, <2>1, <3>1, TablesStay DEF StaffInv
  <2>3. RequestTypes' /\ PerRequest' /\ Apart' /\ AuditReplays'
    BY <1>1, <2>1, StaffAlone DEF StaffInv
  <2>4. SearchTypes'
    BY <1>1, <2>1, SearchAloneKeeps
  <2>5. JobTypes'
    BY <1>1, <2>1 DEF JobTypes
  <2> QED BY <2>2, <2>3, <2>4, <2>5 DEF IInv
<1> QED BY <1>2, <1>3, <1>4, <1>5, <1>6 DEF Next

\* Whatever staff, the import, the job and the search do at once, and whatever
\* dies on the way: rows keep their types and foreign keys, an id raced by
\* nobody is read, written and logged by one request at a time, and a search
\* has found what was on the shelf when it read it.
THEOREM CatalogueKeepsItsBooks == Spec => []IInv
BY InitHolds, StepKeeps, PTL DEF Spec

LEMMA IInvTypes == IInv => TypeOK
<1> SUFFICES ASSUME IInv PROVE TypeOK
  OBVIOUS
<1>1. TableTypes /\ JobTypes /\ SearchTypes /\ ForeignKeys /\ RequestTypes
  BY DEF IInv
<1>2. /\ \A p \in Products : rows[p] \in ProductRows \cup {None}
      /\ \A b \in Boxes : rows[b] \in BoxRows \cup {None}
      /\ \A i \in Items : rows[i] \in ItemRows \cup {None}
  BY <1>1, KeyKinds DEF TableTypes
<1>3. RowsOfTheirTables
  BY <1>1, <1>2 DEF RowsOfTheirTables, ForeignKeys, ProductRows, BoxRows, ItemRows, Lines
<1>4. \A p \in Products : embeddings[p] <= draft[p] /\ draft[p] \in 0..clock
                          /\ (draft[p] > 0 => rows[p] # None)
  BY <1>1 DEF TableTypes, ForeignKeys
<1>5. \A i \in DOMAIN audit : audit[i].key \in Keys /\ (audit[i].old # None \/ audit[i].new # None)
  <2> DEFINE R == [key : Keys, old : AnyRow \cup {None}, new : AnyRow \cup {None}]
  <2>1. \A i \in DOMAIN audit : audit[i] \in R
    <3>1. audit \in Seq(R)
      BY <1>1 DEF TableTypes
    <3> HIDE DEF R
    <3> QED BY <3>1
  <2>2. \A i \in DOMAIN audit : audit[i].old # None \/ audit[i].new # None
    BY <1>1 DEF TableTypes
  <2> QED BY <2>1, <2>2
<1>6. DOMAIN rows = Keys /\ clock \in 1..MaxClock /\ updatedAt \in [Products -> 0..clock]
      /\ failures \in 0..MaxFailures
  BY <1>1 DEF TableTypes
<1>7. \A r \in Requests : req[r].at \in Busy \cup {"new", "done"} /\ req[r].answer \in Codes
  BY <1>1 DEF RequestTypes
<1>8. /\ job.at \in {"idle", "point", "row"} /\ job.todo \subseteq Products
      /\ search.at \in {"new", "running", "done", "failed"} /\ search.found \subseteq Products
  BY <1>1 DEF JobTypes, SearchTypes
<1> QED BY <1>3, <1>4, <1>5, <1>6, <1>7, <1>8 DEF TypeOK

\* No item of a box and no committed or open embedding ever refers to a row
\* that was deleted, and every row stays one of its table: the endpoints check
\* their payloads, and the database refuses what would dangle.
THEOREM CatalogueTyped == Spec => []TypeOK
BY CatalogueKeepsItsBooks, IInvTypes, PTL

\* The audit log of an id that requests did not race for, and none left
\* between its change and its audit record, replays to the row it has now.
THEOREM AuditLogReplays == Spec => []AuditReplays
<1>1. IInv => AuditReplays
  BY DEF IInv
<1> QED BY <1>1, CatalogueKeepsItsBooks, PTL

LEMMA FoundHits ==
    ASSUME SearchTypes, search.at = "done", SemanticBudget(search.slots) # None
    PROVE  SearchKeepsToTheShelf
<1>1. search.found = {} /\ search.hits = Merge(SqlHits, {}, search.similar)
  BY DEF SearchTypes
<1>2. \A h \in search.hits :
        \E s \in SqlHits :
          h = Hit(s.kind, s.id, "sql_filter", s.kind = "product" /\ s.id \in search.similar)
  BY <1>1 DEF Merge
<1>3. \A s \in SqlHits : s.id \in touched \/ OnTheShelf(s)
  BY DEF SqlHits, SearchTypes, Hit
<1>4. ASSUME NEW h \in search.hits PROVE h.id \in touched \/ OnTheShelf(h)
  <2>1. PICK s \in SqlHits : h.kind = s.kind /\ h.id = s.id
    BY <1>2 DEF Hit
  <2> QED BY <1>3, <2>1 DEF OnTheShelf
<1>5. ASSUME NEW g \in search.hits, NEW h \in search.hits, g.kind = h.kind, g.id = h.id PROVE g = h
  <2>1. /\ g = Hit(g.kind, g.id, "sql_filter", g.kind = "product" /\ g.id \in search.similar)
        /\ h = Hit(h.kind, h.id, "sql_filter", h.kind = "product" /\ h.id \in search.similar)
    BY <1>2 DEF Hit
  <2> QED BY <1>5, <2>1
<1> QED BY <1>4, <1>5 DEF SearchKeepsToTheShelf

\* A search with a budget offers each gift once and, but for rows that changed
\* while it ran, only gifts on sale in its price band: the vector store, whose
\* payloads are as old as the last run of the job, has nothing to add to it.
THEOREM SearchStaysOnTheShelf == Spec => []SearchKeepsToTheShelf
<1>1. IInv => SearchKeepsToTheShelf
  BY FoundHits DEF IInv, SearchKeepsToTheShelf
<1> QED BY <1>1, CatalogueKeepsItsBooks, PTL

\* Wording that changes is changed by a request for that very box.
LEMMA WordingStep ==
    ASSUME IInv, Next, NEW b \in Boxes, b \notin raced, rows[b] # None,
           rows[b].contents_line.by = "staff", rows'[b] # rows[b]
    PROVE  \E r \in Requests : KeyOf(r) = b /\ TypesLine(r)
<1>1. TableTypes /\ PerRequest /\ DOMAIN rows = Keys
  BY DEF IInv, TableTypes
<1>2. b \in KeysOf("gift_boxes") /\ "gift_boxes" \in Written
  BY KeyKinds
<1>3. ASSUME NEW r \in Requests, Write(r) PROVE KeyOf(r) = b /\ TypesLine(r)
  <2>1. req[r].at = "writing" /\ Op(r) \in Changes /\ Refusal(task[r]) = 0
    BY <1>1, <1>3 DEF Write, PerRequest, Steps, Busy
  <2>2. KeyOf(r) = b
    <3>1. UNCHANGED rows \/ \E row : rows' = [rows EXCEPT ![KeyOf(r)] = row]
      BY <1>3 DEF Write, Insert, Update, Delete, Wrote
    <3>2. PICK row : rows' = [rows EXCEPT ![KeyOf(r)] = row]
      BY <3>1
    <3> QED BY <3>2
  <2>3. task[r].table = "gift_boxes"
    BY <1>1, <1>2, <2>1, <2>2, Accepted, TablesApart
  <2>4. Op(r) # "create"
    BY <1>1, <2>1, <2>2 DEF PerRequest, Fresh
  <2> QED BY <2>1, <2>2, <2>3, <2>4 DEF TypesLine, Changes
<1>4. ASSUME NEW r \in Requests, FillLine(r) PROVE FALSE
  <2>1. req[r].at = "rewriting" /\ FilledBox(r) = b
    BY <1>4 DEF FillLine
  <2>2. rows[b].contents_line = Blank
    BY <1>1, <2>1 DEF PerRequest, BlankWhenFilled
  <2> QED BY <2>2 DEF Blank, Line
<1>5. ASSUME NEW p \in Imported, Import(p) PROVE FALSE
  <2>1. p # b
    BY ImportAssumption, RowsAssumption
  <2> QED BY <1>5, <2>1 DEF Import
<1>6. CASE StaffStep
  <2>1. PICK r \in Requests : Serve(r) \/ Fail(r)
    BY <1>6 DEF StaffStep
  <2>2. Write(r) \/ FillLine(r)
    BY <2>1 DEF Serve, Fail, Receive, LookUp, Audit, ReadLine, Gather, List, Related, Lookup, Detail,
                Quietly, tables
  <2> QED BY <1>3, <1>4, <2>2
<1>7. CASE Job \/ JobFails
  BY <1>7 DEF Job, JobFails, JobStarts, UpsertPoint, UpsertRow, RowRefused, JobCommits, JobAlone, tables
<1>8. CASE Search
  BY <1>8 DEF Search, SearchStarts, ReadProducts, ReadBoxes, AskQdrant, Hydrate, Conclude, SearchFails,
              SearchAlone, staffVars, tables
<1> QED BY <1>5, <1>6, <1>7, <1>8 DEF Next

\* Wording staff typed for a box is only ever changed by an update or a
\* deletion of that box: the autofill of a request about items, which reads the
\* line in one transaction and writes it in a later one, does not overwrite it
\* unless the two requests overlapped.
THEOREM WordingIsKept == Spec => CustomWordingKept
<1> DEFINE Kept ==
      \A b \in Boxes \ raced :
        rows[b] # None /\ rows[b].contents_line.by = "staff" /\ rows'[b] # rows[b]
        => \/ rows'[b] # None /\ rows'[b].contents_line = rows[b].contents_line
           \/ \E r \in Requests : KeyOf(r) = b /\ TypesLine(r)
<1>1. IInv /\ Next => Kept
  BY WordingStep
<1>2. UNCHANGED vars => UNCHANGED staffVars
  BY DEF vars
<1>3. IInv /\ [Next]_vars => [Kept]_staffVars
  BY <1>1, <1>2
<1> HIDE DEF Kept
<1>4. Spec => [][Kept]_staffVars
  BY <1>3, CatalogueKeepsItsBooks, PTL DEF Spec
<1> QED BY <1>4 DEF CustomWordingKept, Kept

\* What the job embeds is "ACTIVE", and what a search with a budget asks the
\* vector store for is "active".
NoneForABudget ==
    SemanticBudget(search.slots) # None =>
        SemanticPoints(points, Products, search.slots) = {} /\ (search.at = "done" => search.found = {})

\* The semantic half never finds a product for a search with a budget, however
\* products change between one run of the job and the next: the docstring of
\* embed_products.py has it that the two statuses match.
THEOREM BudgetsFindNothingByMeaning == Spec => []NoneForABudget
<1>1. IInv => NoneForABudget
  BY NothingForABudget DEF IInv, NoneForABudget, SearchTypes
<1> QED BY <1>1, CatalogueKeepsItsBooks, PTL
=============================================================================
