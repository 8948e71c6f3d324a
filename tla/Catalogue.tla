------------------------------- MODULE Catalogue -------------------------------
(***************************************************************************)
(* The catalog with everyone who works on it at once: staff through the    *)
(* resource endpoints, the import that maintains products outside this     *)
(* code, the nightly job that embeds products into Qdrant, and one gift    *)
(* search of the WhatsApp agent.                                           *)
(*                                                                         *)
(* The job (app/jobs/embed_products.py) reads its products once, and then  *)
(* for each of them writes the point, at once visible, and its row in      *)
(* product_embeddings, which its one transaction commits at the end.  The  *)
(* search (app/search/hybrid_search.py) runs its SQL and its semantic half *)
(* side by side on one database session.                                   *)
(***************************************************************************)
EXTENDS ResourceService

CONSTANTS
    ParentOf, KeywordIndex, Customizable, MinOrder,
    TopK, SqlLimit, BoxLimit, MinResults,   \* see CatalogSearch
    Needs,      \* tasks |-> slots the customer may have meanwhile, None for no search
    Imported,   \* products the import maintains
    Prices,     \* what the import may set a price to
    MaxClock    \* bound: updates by the import

ASSUME ImportAssumption == Imported \subseteq Products /\ Prices \subseteq Int /\ MaxClock \in Nat \ {0}

VARIABLES
    points,     \* product |-> payload of its point in Qdrant, or None
    updatedAt,  \* product |-> updated_at, 0 before there is one
    clock,
    job,        \* where the job is, what it has read and has still to write
    search,
    touched     \* ids whose row changed since the search began

INSTANCE CatalogSearch

vars == <<staffVars, points, updatedAt, clock, job, search, touched>>

NoJob  == [at |-> "idle", todo |-> {}, product |-> None, read |-> [p \in Products |-> None]]

\* The two halves: how far each is, and what it has found.
NoSearch(slots) ==
    [at |-> "new", slots |-> slots, sql |-> "products", semantic |-> "asking",
     products |-> {}, boxes |-> {}, found |-> {}, similar |-> {}, hits |-> {}, web |-> FALSE]

CatalogueInit ==
    /\ Init
    /\ points = [p \in Products |-> None]
    /\ updatedAt = [p \in Products |-> IF rows[p] = None THEN 0 ELSE 1]
    /\ clock = 1
    /\ job = NoJob
    /\ \E slots \in Needs[task] : search = NoSearch(slots)
    /\ touched = {}
-----------------------------------------------------------------------------
Touch == touched' = touched \cup {k \in Keys : rows'[k] # rows[k]}

\* updated_at defaults to the time of the insert; no endpoint writes it after.
Stamp == updatedAt' = [p \in Products |-> IF rows[p] = None /\ rows'[p] # None THEN clock ELSE updatedAt[p]]

StaffStep ==
    /\ \E r \in Requests : Serve(r) \/ Fail(r)
    /\ Touch /\ Stamp
    /\ UNCHANGED <<points, clock, job, search>>

\* The import changes prices, and stamps the product.
Import(p) ==
    /\ clock < MaxClock /\ rows[p] # None
    /\ \E price \in Prices \ {rows[p].base_price} : rows' = [rows EXCEPT ![p].base_price = price]
    /\ clock' = clock + 1
    /\ updatedAt' = [updatedAt EXCEPT ![p] = clock']
    /\ raced' = raced \cup {p}
    /\ Touch
    /\ UNCHANGED <<audit, embeddings, draft, req, failures, task, points, job, search>>
-----------------------------------------------------------------------------
Stale(p) == embeddings[p] = 0 \/ embeddings[p] < updatedAt[p]

\* _select_products_needing_embedding.
NeedingEmbedding == {p \in Products : rows[p] # None /\ rows[p].status = "ACTIVE" /\ Stale(p)}

Payload(p) == [status |-> rows[p].status, base_price |-> rows[p].base_price]

JobAlone == UNCHANGED <<tables, req, task, raced, updatedAt, clock, search, touched>>

\* With nothing to embed a run does nothing.
JobStarts ==
    /\ job.at = "idle" /\ NeedingEmbedding # {}
    /\ job' = [at |-> "point", todo |-> NeedingEmbedding, product |-> None,
               read |-> [p \in Products |-> IF p \in NeedingEmbedding THEN Payload(p) ELSE None]]
    /\ JobAlone /\ UNCHANGED <<embeddings, draft, points, failures>>

\* Mutant of UpsertPoint: an error of Qdrant goes unnoticed.
UpsertPointOrNot(p) ==
    /\ job.at = "point" /\ p \in job.todo
    /\ points' = points \/ points' = [points EXCEPT ![p] = job.read[p]]
    /\ job' = [job EXCEPT !.at = "row", !.product = p]
    /\ JobAlone /\ UNCHANGED <<embeddings, draft, failures>>

\* The point's id is made from the product's: a second upsert replaces it.
UpsertPoint(p) ==
    /\ job.at = "point" /\ p \in job.todo
    /\ points' = [points EXCEPT ![p] = job.read[p]]
    /\ job' = [job EXCEPT !.at = "row", !.product = p]
    /\ JobAlone /\ UNCHANGED <<embeddings, draft, failures>>

\* created_at is the time of the write, not of the read.
UpsertRow ==
    /\ job.at = "row" /\ rows[job.product] # None
    /\ draft' = [draft EXCEPT ![job.product] = clock]
    /\ job' = [job EXCEPT !.at = "point", !.todo = @ \ {job.product}, !.product = None]
    /\ JobAlone /\ UNCHANGED <<embeddings, points, failures>>

\* The product is gone, and its row would refer to nothing: the session rolls
\* back what the run wrote, the points stay, _run_sync_job logs the error.
RowRefused ==
    /\ job.at = "row" /\ rows[job.product] = None
    /\ draft' = embeddings /\ job' = NoJob
    /\ JobAlone /\ UNCHANGED <<embeddings, points, failures>>

JobFails ==
    /\ job.at # "idle" /\ failures < MaxFailures
    /\ failures' = failures + 1
    /\ draft' = embeddings /\ job' = NoJob
    /\ JobAlone /\ UNCHANGED <<embeddings, points>>

JobCommits ==
    /\ job.at = "point" /\ job.todo = {}
    /\ embeddings' = draft /\ job' = NoJob
    /\ JobAlone /\ UNCHANGED <<draft, points, failures>>

Job == JobStarts \/ (\E p \in Products : UpsertPoint(p)) \/ UpsertRow \/ RowRefused \/ JobCommits
-----------------------------------------------------------------------------
SearchAlone == UNCHANGED <<staffVars, points, updatedAt, clock, job>>

SearchStarts ==
    /\ search.at = "new" /\ search.slots # None
    /\ search' = [search EXCEPT !.at = "running"]
    /\ touched' = {}
    /\ SearchAlone

ReadProducts ==
    /\ search.at = "running" /\ search.sql = "products"
    /\ \E T \in Cut(StructuredProducts(rows, Products, search.slots), SqlLimit) :
         search' = [search EXCEPT !.sql = "boxes", !.products = T]
    /\ SearchAlone /\ UNCHANGED touched

ReadBoxes ==
    /\ search.at = "running" /\ search.sql = "boxes"
    /\ \E T \in Cut(StructuredBoxes(rows, Boxes, search.slots), BoxLimit) :
         search' = [search EXCEPT !.sql = "done", !.boxes = T]
    /\ SearchAlone /\ UNCHANGED touched

\* run_semantic_search; without hits nothing is hydrated.
AskQdrant ==
    /\ search.at = "running" /\ search.semantic = "asking"
    /\ \E T \in Cut(SemanticPoints(points, Products, search.slots), TopK) :
       \E similar \in SUBSET T :
         search' = [search EXCEPT !.semantic = IF T = {} THEN "done" ELSE "hydrating",
                                  !.found = T, !.similar = similar]
    /\ SearchAlone /\ UNCHANGED touched

\* One session runs one statement at a time: a second one raises.
Hydrate ==
    /\ search.at = "running" /\ search.semantic = "hydrating"
    /\ search' = IF search.sql # "done" THEN [search EXCEPT !.at = "failed"]
                 ELSE [search EXCEPT !.semantic = "done",
                                     !.found = Hydrated(rows, @),
                                     !.similar = Hydrated(rows, @)]
    /\ SearchAlone /\ UNCHANGED touched

SqlHits ==
    {Hit("product", p, "sql_filter", FALSE) : p \in search.products}
    \cup {Hit("gift_box", b, "sql_filter", FALSE) : b \in search.boxes}

\* fetch_web_gift_ideas, when there are too few strong hits: it may find
\* nothing, and an error of the web search counts as nothing found.
WebIdeas(merged) == IF UsesWebFallback(merged) THEN BOOLEAN ELSE {FALSE}

Conclude ==
    /\ search.at = "running" /\ search.sql = "done" /\ search.semantic = "done"
    /\ LET merged == Merge(SqlHits, search.found, search.similar) IN
       \E web \in WebIdeas(merged) :
         search' = [search EXCEPT !.at = "done", !.hits = merged, !.web = web]
    /\ SearchAlone /\ UNCHANGED touched

\* The embedding of the query or Qdrant fails, and with it the turn.
SearchFails ==
    /\ search.at = "running" /\ search.semantic = "asking" /\ failures < MaxFailures
    /\ failures' = failures + 1
    /\ search' = [search EXCEPT !.at = "failed"]
    /\ UNCHANGED <<tables, embeddings, draft, req, task, raced, points, updatedAt, clock, job, touched>>

Search ==
    SearchStarts \/ ReadProducts \/ ReadBoxes \/ AskQdrant \/ Hydrate \/ Conclude \/ SearchFails
-----------------------------------------------------------------------------
Next ==
    \/ StaffStep
    \/ \E p \in Imported : Import(p)
    \/ Job \/ JobFails
    \/ Search

\* The scheduler runs the job again every night.
Spec == CatalogueInit /\ [][Next]_vars /\ WF_vars(Job)
-----------------------------------------------------------------------------
\* Every row is of its table, every log entry tells a change, the open
\* transaction of the job never has an older row than the committed ones, and
\* nothing refers to a row that is gone.
RowsOfTheirTables ==
    /\ \A p \in Products : rows[p] # None =>
         /\ rows[p].status \in Statuses
         /\ rows[p].base_price \in Amounts
    /\ \A b \in Boxes : rows[b] # None =>
         /\ rows[b].selling_price \in Amounts
         /\ rows[b].contents_line.by \in {"nobody", "staff", "autofill"}
    /\ \A i \in Items : rows[i] # None =>
         /\ rows[i].gift_box_id \in Boxes \cup {None} /\ rows[i].product_id \in Products \cup {None}
         /\ \A k \in {rows[i].gift_box_id, rows[i].product_id} \ {None} : rows[k] # None

\* Type invariant, with the foreign keys: no item of a box and no embedding
\* refers to a row that was deleted.
TypeOK ==
    /\ DOMAIN rows = Keys /\ RowsOfTheirTables
    /\ \A p \in Products : embeddings[p] <= draft[p] /\ draft[p] \in 0..clock
                           /\ (draft[p] > 0 => rows[p] # None)
    /\ clock \in 1..MaxClock /\ updatedAt \in [Products -> 0..clock]
    /\ \A i \in DOMAIN audit : audit[i].key \in Keys /\ (audit[i].old # None \/ audit[i].new # None)
    /\ \A r \in Requests : req[r].at \in Busy \cup {"new", "done"} /\ req[r].answer \in Codes
    /\ job.at \in {"idle", "point", "row"} /\ job.todo \subseteq Products
    /\ search.at \in {"new", "running", "done", "failed"} /\ search.found \subseteq Products
    /\ failures \in 0..MaxFailures

\* A product that stays "ACTIVE" gets its point and its row, whatever fails on
\* the way and whoever changes products meanwhile.
EveryActiveProductIsEmbedded ==
    \A p \in Products :
        <>[](rows[p] # None /\ rows[p].status = "ACTIVE") => <>[](embeddings[p] > 0 /\ points[p] # None)

OnTheShelf(h) ==
    /\ rows[h.id] # None
    /\ IF h.kind = "product"
       THEN /\ rows[h.id].status = "active"
            /\ InBand(rows[h.id].base_price, PerRecipientBudget(search.slots))
       ELSE InBand(rows[h.id].selling_price, PerRecipientBudget(search.slots))

\* A search with a budget offers each gift once, and only gifts that are on
\* sale in its price band, unless they changed while it ran: also products the
\* vector store still knows from before they were withdrawn or repriced.
SearchKeepsToTheShelf ==
    search.at = "done" /\ SemanticBudget(search.slots) # None =>
        /\ \A h \in search.hits : h.id \in touched \/ OnTheShelf(h)
        /\ \A g, h \in search.hits : g.kind = h.kind /\ g.id = h.id => g = h
=============================================================================
