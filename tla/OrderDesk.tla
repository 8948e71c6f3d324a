-------------------------------- MODULE OrderDesk --------------------------------
(***************************************************************************)
(* The life of a gift-box order after the cart: customers place, pay and   *)
(* cancel it through the storefront Lambdas                                *)
(* (storefront/services/order_service.py), staff move it along through the *)
(* admin Lambdas (admin_api/handlers/orders_handler.py) and turn quotes    *)
(* into orders (quotes_handler.py).  Both programs work on the same tables *)
(* with peewee, whose save() writes every column of the row as it was read *)
(* plus the change; none of them locks the order or the quote it reads.    *)
(* Beside these handlers the generic /resources/{table}/{id}/update        *)
(* (admin_api/services/resource_service.py) lets staff write the status of *)
(* an order, a payment or a quote, and the quote of an order, as they      *)
(* please: config/resources.yml has these columns as writable.             *)
(*                                                                         *)
(* A transaction's writes appear at its commit: other writers of the row   *)
(* wait for it and then overwrite, which is the same as coming later.      *)
(* Gift boxes have no stock of their own, so the loops over variants in    *)
(* cancel_order and record_shipment have nothing to do here (OrderService  *)
(* models them for the app's orders).                                      *)
(***************************************************************************)
EXTENDS Integers, Sequences, FiniteSets, SequencesExt

CONSTANTS
    Requests,
    Tasks,          \* assignments of a task to each request, one is picked
    Orders,         \* orders there at the start, placed by customers
    Quotes,         \* quotes there at the start
    QuoteStatus,    \* quote |-> its status at the start
    References,     \* transaction references of the payment gateway
    MaxFailures,    \* bound: requests that are turned away, die or whose audit
                    \* record fails
    None

Edits == {"edit order", "edit payment", "edit quote"}
TaskNames == {"checkout", "cancel", "ship", "pay", "webhook", "move", "convert",
              "list", "view", "invoice", "shipments", "summary"} \cup Edits

QuoteStatuses == {"draft", "sent", "under_review", "approved", "converted", "rejected", "expired"}

ASSUME DeskAssumption ==
    /\ Tasks \subseteq [Requests -> TaskNames]
    /\ Requests \cap Orders = {} /\ Orders \cap Quotes = {} /\ Requests \cap Quotes = {}
    /\ QuoteStatus \in [Quotes -> QuoteStatuses]

VARIABLES
    orders,     \* order |-> its row, None before it is placed
    history,    \* order |-> the statuses in order_status_history
    payments,   \* request |-> the payment it recorded, None without one
    shipments,  \* order |-> its shipments
    quotes,     \* quote |-> its status
    audited,    \* changes in audit_logs
    queue,      \* changes sent to the notification queue
    req,        \* request |-> where it is, what it is about, the row it read, its
                \* answer and what that shows
    failures,
    task,       \* request |-> its task
    committed,  \* changes of an order's status, and changes by the generic
                \* update, that a request committed
    raced,      \* orders and quotes written from a row that was no longer current
    edited      \* orders whose "status" or "payments", and quotes whose
                \* "conversion", the generic update has written

tables == <<orders, history, payments, shipments, quotes>>
logs   == <<audited, queue, committed>>
marks  == <<raced, edited>>
vars   == <<tables, logs, req, failures, task, marks>>

\* An order is named by the request that placed it, or was there.
AllOrders == Orders \cup Requests

Placed == {o \in AllOrders : orders[o] # None}

Statuses == {"pending", "confirmed", "in_production", "ready_to_ship", "shipped",
             "delivered", "cancelled", "returned"}
Row(status, payment, user, quote) ==
    [status |-> status, payment |-> payment, user |-> user, quote |-> quote]
Rows == [status : Statuses, payment : {"pending", "paid", None}, user : BOOLEAN,
         quote : Quotes \cup {None}]
PaymentRows == [order : AllOrders, reference : References, status : {"pending", "paid"}]

\* None is nobody's row, quote or status.
ASSUME NoneAssumption ==
    /\ None \notin Rows /\ None \notin PaymentRows /\ None \notin Quotes /\ None \notin {"pending", "paid"}
    /\ (Quotes \cup {None}) \cap Statuses = {}

\* What an answer shows of an order: its row and, in the order's detail, its
\* shipments and its timeline; of payments and shipments those listed.
Detail(o, row, shipped, timeline) ==
    [order |-> o, row |-> row, shipments |-> shipped, timeline |-> timeline]

Idle(at, answer, shown) ==
    [at |-> at, about |-> None, row |-> None, to |-> None, answer |-> answer, shown |-> shown]
Busy == {"writing", "locking", "auditing", "telling", "showing", "showing shipments", "showing timeline",
         "counting quotes"}
Codes == {0, 200, 201, 400, 401, 403, 404, 409, 422, 500}

TypeOK ==
    /\ orders \in [AllOrders -> Rows \cup {None}]
    /\ \A o \in AllOrders : history[o] \in Seq(Statuses)
    /\ \A r \in Requests : payments[r] = None \/
         /\ payments[r].order \in AllOrders /\ orders[payments[r].order].user
         /\ payments[r].status \in {"pending", "paid"}
    /\ \A o \in AllOrders : shipments[o] > 0 => orders[o] # None
    /\ \A r \in Requests : req[r].at \in Busy \cup {"new", "done"} /\ req[r].answer \in Codes
    /\ \A r \in Requests : task[r] = "list" /\ req[r].answer = 200 => req[r].shown \subseteq Placed
    /\ quotes \in [Quotes -> QuoteStatuses]
    /\ raced \subseteq AllOrders \cup Quotes
    /\ edited \subseteq ({"status", "payments"} \X AllOrders) \cup ({"conversion"} \X Quotes)

Init ==
    /\ orders = [o \in AllOrders |-> IF o \in Orders THEN Row("pending", "pending", TRUE, None)
                                     ELSE None]
    /\ history = [o \in AllOrders |-> IF o \in Orders THEN <<"pending">> ELSE <<>>]
    /\ payments = [r \in Requests |-> None]
    /\ shipments = [o \in AllOrders |-> 0]
    /\ quotes = QuoteStatus
    /\ audited = {} /\ queue = {} /\ committed = {}
    /\ req = [r \in Requests |-> Idle("new", 0, None)]
    /\ failures = 0
    /\ task \in Tasks
    /\ raced = {} /\ edited = {}
-----------------------------------------------------------------------------
ReservedStatuses == {"pending", "paid", "confirmed"}
NotConvertible   == {"converted", "rejected", "expired"}

OrderTransitions ==
    [s \in Statuses |->
       CASE s = "pending"       -> {"confirmed", "cancelled"}
         [] s = "confirmed"     -> {"in_production", "cancelled"}
         [] s = "in_production" -> {"ready_to_ship", "cancelled"}
         [] s = "ready_to_ship" -> {"shipped", "cancelled"}
         [] s = "shipped"       -> {"delivered", "returned"}
         [] s = "delivered"     -> {"returned"}
         [] OTHER               -> {}]

Change(r, o, old, new) == [by |-> r, order |-> o, old |-> old, new |-> new]

Go(r, at, about, row, to) ==
    req' = [req EXCEPT ![r] = [Idle(at, 0, None) EXCEPT !.about = about, !.row = row, !.to = to]]
Show(r, code, shown) == req' = [req EXCEPT ![r] = Idle("done", code, shown)]
Finish(r, code) == Show(r, code, None)

Takes(r, t) == req[r].at = "new" /\ task[r] = t
ReadsOnly == UNCHANGED <<tables, logs, failures, task, marks>>

\* save() of a row that was changed after it was read.
Stale(o, row) == raced' = IF orders[o] = row THEN raced ELSE raced \cup {o}

Save(o, row, change) ==
    orders' = [orders EXCEPT ![o] = change] /\ Stale(o, row) /\ UNCHANGED edited
-----------------------------------------------------------------------------
\* An empty cart and a foreign address.  (InsufficientStockError would be 409,
\* but nothing here raises it.)
CheckoutRefusals == {400}

\* get_current_user, require_role and decode_body turn a request away before
\* anything is read, as do authorize and _validate_write_payload.
Refusals(t) ==
    {401} \cup (IF t \in {"ship", "move", "convert", "summary"} \cup Edits THEN {403} ELSE {})
          \cup (IF t \in {"checkout", "ship", "pay", "move"} \cup Edits THEN {422} ELSE {})
          \cup (IF t = "checkout" THEN CheckoutRefusals ELSE {})

\* What the payment gateway is told of a post with a wrong signature, without
\* JSON, or about anything but a payment that was made.
WebhookRefusals == {403, 400, 200}

TurnAway(r) ==
    /\ req[r].at = "new" /\ failures < MaxFailures
    /\ \E code \in IF task[r] = "webhook" THEN WebhookRefusals ELSE Refusals(task[r]) : Finish(r, code)
    /\ failures' = failures + 1
    /\ UNCHANGED <<tables, logs, task, marks>>

\* checkout: one transaction with the order, its first row of the timeline and
\* its audit record; the customer is told afterwards.
Checkout(r) ==
    /\ Takes(r, "checkout")
    /\ orders' = [orders EXCEPT ![r] = Row("pending", "pending", TRUE, None)]
    /\ history' = [history EXCEPT ![r] = <<"pending">>]
    /\ LET c == Change(r, r, None, "pending") IN
         committed' = committed \cup {c} /\ audited' = audited \cup {c}
    /\ Go(r, "telling", r, orders'[r], "pending")
    /\ UNCHANGED <<payments, shipments, quotes, queue, failures, task, marks>>

\* cancel_order reads the customer's own order: cancelled already is a no-op,
\* past confirmation is refused.
CancelReads(r) ==
    /\ Takes(r, "cancel")
    /\ \E o \in Placed :
         LET row == orders[o] IN
         IF ~row.user THEN Finish(r, 404)
         ELSE IF row.status = "cancelled" THEN Go(r, "showing", o, row, None)
         ELSE IF row.status \in ReservedStatuses THEN Go(r, "writing", o, row, "cancelled")
         ELSE Finish(r, 409)
    /\ ReadsOnly

\* Its audit record is in the transaction; nothing is put on the timeline and
\* nobody is told.
CancelCommits(r) ==
    /\ req[r].at = "writing" /\ task[r] = "cancel"
    /\ LET o == req[r].about IN
         /\ Save(o, req[r].row, [req[r].row EXCEPT !.status = "cancelled"])
         /\ committed' = committed \cup {Change(r, o, req[r].row.status, "cancelled")}
         /\ audited' = audited \cup {Change(r, o, req[r].row.status, "cancelled")}
    /\ Go(r, "showing", req[r].about, req[r].row, None)
    /\ UNCHANGED <<history, payments, shipments, quotes, queue, failures, task>>

\* The answer has the order as it is when it is read again.
CancelShows(r) ==
    /\ req[r].at = "showing" /\ task[r] = "cancel"
    /\ Show(r, 200, orders[req[r].about])
    /\ ReadsOnly

\* record_shipment looks at no status.
ShipReads(r) ==
    /\ Takes(r, "ship")
    /\ \E o \in Placed : Go(r, "writing", o, orders[o], "shipped")
    /\ ReadsOnly

ShipCommits(r) ==
    /\ req[r].at = "writing" /\ task[r] = "ship"
    /\ LET o == req[r].about IN
         /\ Save(o, req[r].row, [req[r].row EXCEPT !.status = "shipped"])
         /\ shipments' = [shipments EXCEPT ![o] = @ + 1]
         /\ committed' = committed \cup {Change(r, o, req[r].row.status, "shipped")}
    /\ Go(r, "showing", req[r].about, None, shipments'[req[r].about])
    /\ UNCHANGED <<history, payments, quotes, audited, queue, failures, task>>

\* The shipment it created, among those the order has by now.
ShipShows(r) ==
    /\ req[r].at = "showing" /\ task[r] = "ship"
    /\ Show(r, 201, req[r].to)
    /\ ReadsOnly
-----------------------------------------------------------------------------
Payment(order, reference) == [order |-> order, reference |-> reference, status |-> "pending"]

PaymentsOf(o) == {p \in Requests : payments[p] # None /\ payments[p].order = o}
WithReference(ref) == {p \in Requests : payments[p] # None /\ payments[p].reference = ref}

\* Mutant of PayReads: the order may be anybody's.
PayReadsAnyOrder(r) ==
    /\ Takes(r, "pay")
    /\ \E o \in Placed, ref \in References :
         IF WithReference(ref) # {} THEN \E p \in WithReference(ref) : Go(r, "showing", o, None, p)
         ELSE Go(r, "writing", o, None, ref)
    /\ ReadsOnly

\* record_payment: a reference that is known already is answered with the
\* payment there is.
PayReads(r) ==
    /\ Takes(r, "pay")
    /\ \E o \in Placed, ref \in References :
         IF ~orders[o].user THEN Finish(r, 404)
         ELSE IF WithReference(ref) # {} THEN \E p \in WithReference(ref) : Go(r, "showing", o, None, p)
         ELSE Go(r, "writing", o, None, ref)
    /\ ReadsOnly

PayCommits(r) ==
    /\ req[r].at = "writing" /\ task[r] = "pay"
    /\ payments' = [payments EXCEPT ![r] = Payment(req[r].about, req[r].to)]
    /\ Go(r, "showing", req[r].about, None, r)
    /\ UNCHANGED <<orders, history, shipments, quotes, logs, failures, task, marks>>

\* The payment is looked for among those of the order that was named.  When it
\* belongs to another order the answer shows the last one there is, and without
\* any there is an error.
PayShows(r) ==
    /\ req[r].at = "showing" /\ task[r] = "pay"
    /\ LET listed == PaymentsOf(req[r].about) IN
         IF req[r].to \in listed THEN Show(r, 201, req[r].to)
         ELSE IF listed = {} THEN Finish(r, 500)
         ELSE \E p \in listed : Show(r, 201, p)
    /\ ReadsOnly

\* confirm_payment: get_by_reference takes any payment of the reference; an
\* unknown reference and a payment that is paid change nothing.
WebhookReads(r) ==
    /\ Takes(r, "webhook")
    /\ \E ref \in References :
         IF WithReference(ref) = {} THEN Finish(r, 200)
         ELSE \E p \in WithReference(ref) :
                IF payments[p].status = "paid" THEN Finish(r, 200)
                ELSE Go(r, "locking", p, None, None)
    /\ ReadsOnly

\* A webhook has updated the payment and not committed.
Locked(p) == \E s \in Requests : task[s] = "webhook" /\ req[s].at = "writing" /\ req[s].about = p

\* payment.save() waits for another webhook's; the order is read after it.
WebhookReadsOrder(r) ==
    /\ req[r].at = "locking"
    /\ ~Locked(req[r].about)
    /\ Go(r, "writing", req[r].about, orders[payments[req[r].about].order], "paid")
    /\ ReadsOnly

\* Mutant of PaidRow: the order's payment_status is set only with its status.
PaidPendingRow(row) ==
    IF row.status = "pending" THEN [row EXCEPT !.payment = "paid", !.status = "confirmed"] ELSE row

PaidRow(row) ==
    [row EXCEPT !.payment = "paid", !.status = IF @ = "pending" THEN "confirmed" ELSE @]

\* The status may change; the timeline is not written and nobody is told.
WebhookCommits(r) ==
    /\ req[r].at = "writing" /\ task[r] = "webhook"
    /\ LET p == req[r].about
           o == payments[p].order
           row == req[r].row
       IN /\ payments' = [payments EXCEPT ![p].status = "paid"]
          /\ Save(o, row, PaidRow(row))
          /\ committed' = committed \cup {Change(r, o, row.status, PaidRow(row).status)}
    /\ Finish(r, 200)
    /\ UNCHANGED <<history, shipments, quotes, audited, queue, failures, task>>
-----------------------------------------------------------------------------
\* _change_status checks the transition on a row it reads outside the
\* transaction.
MoveReads(r) ==
    /\ Takes(r, "move")
    /\ \E o \in Placed, s \in Statuses :
         IF s \in OrderTransitions[orders[o].status]
         THEN Go(r, "writing", o, orders[o], s)
         ELSE Finish(r, 409)
    /\ ReadsOnly

\* Mutant of MoveCommits: the timeline gets its row with the audit record, in
\* another transaction.
MoveCommitsOrder(r) ==
    /\ req[r].at = "writing" /\ task[r] = "move"
    /\ LET o == req[r].about IN
         /\ Save(o, req[r].row, [req[r].row EXCEPT !.status = req[r].to])
         /\ committed' = committed \cup {Change(r, o, req[r].row.status, req[r].to)}
    /\ Go(r, "auditing", req[r].about, req[r].row, req[r].to)
    /\ UNCHANGED <<history, payments, shipments, quotes, audited, queue, failures, task>>

\* The order and its row of the timeline, in one transaction.
MoveCommits(r) ==
    /\ req[r].at = "writing" /\ task[r] = "move"
    /\ LET o == req[r].about IN
         /\ Save(o, req[r].row, [req[r].row EXCEPT !.status = req[r].to])
         /\ history' = [history EXCEPT ![o] = Append(@, req[r].to)]
         /\ committed' = committed \cup {Change(r, o, req[r].row.status, req[r].to)}
    /\ Go(r, "auditing", req[r].about, req[r].row, req[r].to)
    /\ UNCHANGED <<payments, shipments, quotes, audited, queue, failures, task>>

\* The audit record has a transaction of its own.  When it fails the answer is
\* an error and the customer is not told of the change that was made.
MoveAudits(r) ==
    /\ req[r].at = "auditing" /\ task[r] = "move"
    /\ audited' = audited \cup {Change(r, req[r].about, req[r].row.status, req[r].to)}
    /\ Go(r, "telling", req[r].about, req[r].row, req[r].to)
    /\ UNCHANGED <<tables, queue, committed, failures, task, marks>>

\* Mutant of Tell: the message has the status the order has by now.
TellCurrent(r) ==
    /\ req[r].at = "telling"
    /\ \E sent \in SUBSET {Change(r, req[r].about,
                                  IF task[r] = "checkout" THEN None ELSE req[r].row.status,
                                  orders[req[r].about].status)} :
         queue' = queue \cup sent
    /\ Finish(r, IF task[r] = "checkout" THEN 201 ELSE 200)
    /\ UNCHANGED <<tables, audited, committed, failures, task, marks>>

\* _enqueue_notification, notify_order_status: an order without a customer has
\* nobody to tell; a failing send is swallowed.
Tell(r) ==
    /\ req[r].at = "telling"
    /\ \E sent \in SUBSET {Change(r, req[r].about,
                                  IF task[r] = "checkout" THEN None ELSE req[r].row.status, req[r].to)} :
         /\ sent # {} => req[r].row.user
         /\ queue' = queue \cup sent
    /\ Finish(r, IF task[r] = "checkout" THEN 201 ELSE 200)
    /\ UNCHANGED <<tables, audited, committed, failures, task, marks>>
-----------------------------------------------------------------------------
\* _convert checks the quote and reads its items outside the transaction.
ConvertReads(r) ==
    /\ Takes(r, "convert")
    /\ \E q \in Quotes :
         IF quotes[q] \in NotConvertible THEN Finish(r, 409)
         ELSE Go(r, "writing", q, quotes[q], "converted")
    /\ ReadsOnly

\* Mutant of ConvertCommits: the quote is marked when the audit is written.
ConvertCommitsOrder(r) ==
    /\ req[r].at = "writing" /\ task[r] = "convert"
    /\ orders' = [orders EXCEPT ![r] = Row("confirmed", None, FALSE, req[r].about)]
    /\ raced' = IF quotes[req[r].about] = req[r].row THEN raced ELSE raced \cup {req[r].about}
    /\ Go(r, "auditing", req[r].about, req[r].row, "converted")
    /\ UNCHANGED <<history, payments, shipments, quotes, logs, failures, task, edited>>

\* The order with its items and the quote's new status, in one transaction.
\* The order starts as confirmed and without a timeline.
ConvertCommits(r) ==
    /\ req[r].at = "writing" /\ task[r] = "convert"
    /\ orders' = [orders EXCEPT ![r] = Row("confirmed", None, FALSE, req[r].about)]
    /\ quotes' = [quotes EXCEPT ![req[r].about] = "converted"]
    /\ raced' = IF quotes[req[r].about] = req[r].row THEN raced ELSE raced \cup {req[r].about}
    /\ Go(r, "auditing", req[r].about, req[r].row, "converted")
    /\ UNCHANGED <<history, payments, shipments, logs, failures, task, edited>>

\* Two audit records, of the order and then of the quote.
ConvertAudits(r) ==
    /\ req[r].at = "auditing" /\ task[r] = "convert"
    /\ LET ofOrder == Change(r, r, None, "confirmed")
           ofQuote == Change(r, req[r].about, req[r].row, "converted")
       IN IF ofOrder \in audited
          THEN audited' = audited \cup {ofQuote} /\ Finish(r, 201)
          ELSE audited' = audited \cup {ofOrder} /\ UNCHANGED req
    /\ UNCHANGED <<tables, queue, committed, failures, task, marks>>
-----------------------------------------------------------------------------
\* update_resource reads the row for the audit record ...
EditReads(r) ==
    /\ \/ /\ Takes(r, "edit order")
          /\ \E o \in Placed, to \in Statuses \cup Quotes \cup {None} : Go(r, "writing", o, orders[o], to)
       \/ /\ Takes(r, "edit payment")
          /\ \E p \in Requests, to \in {"pending", "paid"} :
               payments[p] # None /\ Go(r, "writing", p, payments[p], to)
       \/ /\ Takes(r, "edit quote")
          /\ \E q \in Quotes, to \in QuoteStatuses : Go(r, "writing", q, [status |-> quotes[q]], to)
    /\ ReadsOnly

Edited(row, to) == IF to \in Statuses THEN [row EXCEPT !.status = to] ELSE [row EXCEPT !.quote = to]

\* ... and its UPDATE writes the columns of the request into the row there is
\* now, and returns it.  No transition is checked, the timeline is not written
\* and nobody is told.
EditsRow(r, new, marked) ==
    /\ committed' = committed \cup {Change(r, req[r].about, req[r].row.status, new.status)}
    /\ edited' = edited \cup marked
    /\ Go(r, "auditing", req[r].about, req[r].row, new)
    /\ UNCHANGED <<history, shipments, audited, queue, failures, task, raced>>

EditOrderCommits(r) ==
    /\ req[r].at = "writing" /\ task[r] = "edit order"
    /\ LET o == req[r].about
           new == Edited(orders[o], req[r].to)
       IN /\ orders' = [orders EXCEPT ![o] = new]
          /\ EditsRow(r, new, IF req[r].to \in Statuses THEN {<<"status", o>>}
                              ELSE {"conversion"} \X ({orders[o].quote, req[r].to} \ {None}))
    /\ UNCHANGED <<payments, quotes>>

EditPaymentCommits(r) ==
    /\ req[r].at = "writing" /\ task[r] = "edit payment" /\ ~Locked(req[r].about)
    /\ LET p == req[r].about
           new == [payments[p] EXCEPT !.status = req[r].to]
       IN /\ payments' = [payments EXCEPT ![p] = new]
          /\ EditsRow(r, new, {<<"payments", new.order>>})
    /\ UNCHANGED <<orders, quotes>>

EditQuoteCommits(r) ==
    /\ req[r].at = "writing" /\ task[r] = "edit quote"
    /\ quotes' = [quotes EXCEPT ![req[r].about] = req[r].to]
    /\ EditsRow(r, [status |-> req[r].to], {<<"conversion", req[r].about>>})
    /\ UNCHANGED <<orders, payments>>

\* The audit record has a transaction of its own.  A change of nothing is
\* recorded too: these tables have relations, whose columns the row that was read
\* has and the row returned has not.
EditAudits(r) ==
    /\ req[r].at = "auditing" /\ task[r] \in Edits
    /\ audited' = audited \cup {Change(r, req[r].about, req[r].row.status, req[r].to.status)}
    /\ Show(r, 200, req[r].to)
    /\ UNCHANGED <<tables, queue, committed, failures, task, marks>>

Edit(r) ==
    EditReads(r) \/ EditOrderCommits(r) \/ EditPaymentCommits(r) \/ EditQuoteCommits(r) \/ EditAudits(r)
-----------------------------------------------------------------------------
\* list_for_user.
ListOrders(r) ==
    /\ Takes(r, "list")
    /\ Show(r, 200, {o \in Placed : orders[o].user})
    /\ ReadsOnly

\* _get_order reads the customer's order, and then, each in a statement of its
\* own ...
ViewReads(r) ==
    /\ Takes(r, "view")
    /\ \E o \in Placed :
         IF ~orders[o].user THEN Finish(r, 404)
         ELSE Go(r, "showing shipments", o, orders[o], None)
    /\ ReadsOnly

\* ... its shipments ...
ViewReadsShipments(r) ==
    /\ req[r].at = "showing shipments"
    /\ Go(r, "showing timeline", req[r].about, req[r].row, shipments[req[r].about])
    /\ ReadsOnly

\* ... and its timeline.
ViewShows(r) ==
    /\ req[r].at = "showing timeline"
    /\ Show(r, 200, Detail(req[r].about, req[r].row, req[r].to, history[req[r].about]))
    /\ ReadsOnly

\* The invoice is written with the order at checkout; a conversion writes none.
HasInvoice(o) == o \in Orders \/ task[o] = "checkout"

\* The reads that start with get_for_user, which a customer's order passes for
\* good: the invoice ...
GetInvoice(r) ==
    /\ Takes(r, "invoice")
    /\ \E o \in Placed :
         IF orders[o].user /\ HasInvoice(o) THEN Show(r, 200, o) ELSE Finish(r, 404)
    /\ ReadsOnly

\* ... and the shipments.
ListShipments(r) ==
    /\ Takes(r, "shipments")
    /\ \E o \in Placed :
         IF orders[o].user THEN Show(r, 200, shipments[o]) ELSE Finish(r, 404)
    /\ ReadsOnly

Realised   == {"confirmed", "in_production", "ready_to_ship", "shipped", "delivered"}
OpenQuotes == {"draft", "sent", "under_review"}

\* The dashboard: how many orders have which status and how many count as
\* revenue ...
SummaryReads(r) ==
    /\ Takes(r, "summary")
    /\ Go(r, "counting quotes", None,
          [s \in Statuses |-> Cardinality({o \in Placed : orders[o].status = s})],
          Cardinality({o \in Placed : orders[o].status \in Realised}))
    /\ ReadsOnly

\* ... and, read after them, how many quotes are open.
SummaryShows(r) ==
    /\ req[r].at = "counting quotes"
    /\ Show(r, 200, [orders |-> req[r].row, realised |-> req[r].to,
                     open |-> Cardinality({q \in Quotes : quotes[q] \in OpenQuotes})])
    /\ ReadsOnly

Read(r) ==
    \/ ListOrders(r) \/ GetInvoice(r) \/ ListShipments(r) \/ ViewReads(r) \/ ViewReadsShipments(r) \/ ViewShows(r)
    \/ SummaryReads(r) \/ SummaryShows(r)
-----------------------------------------------------------------------------
\* The Lambda dies or a statement fails: an open transaction is rolled back,
\* what was committed stays.
Fail(r) ==
    /\ req[r].at \in Busy /\ failures < MaxFailures
    /\ failures' = failures + 1
    /\ Finish(r, 500)
    /\ UNCHANGED <<tables, logs, task, marks>>

Proceed(r) ==
    \/ Checkout(r) \/ CancelReads(r) \/ CancelCommits(r) \/ CancelShows(r)
    \/ ShipReads(r) \/ ShipCommits(r) \/ ShipShows(r)
    \/ PayReads(r) \/ PayCommits(r) \/ PayShows(r) \/ WebhookReads(r) \/ WebhookReadsOrder(r) \/ WebhookCommits(r)
    \/ MoveReads(r) \/ MoveCommits(r) \/ MoveAudits(r) \/ Tell(r)
    \/ ConvertReads(r) \/ ConvertCommits(r) \/ ConvertAudits(r)

Next == \E r \in Requests : Proceed(r) \/ Edit(r) \/ Read(r) \/ TurnAway(r) \/ Fail(r)

Spec == Init /\ [][Next]_vars
-----------------------------------------------------------------------------
\* An order shows paid exactly when one of its payments is: payment and order
\* change together whatever dies, and only a save from an outdated row, or staff
\* who set a payment's status by the generic update, can part them.
PaidOrdersShowPaid ==
    \A o \in Placed \ raced : <<"payments", o>> \notin edited =>
        (orders[o].payment = "paid" <=> \E p \in PaymentsOf(o) : payments[p].status = "paid")

\* Once an order shows paid it stays paid.
PaidStaysPaid ==
    [][\A o \in Placed : orders[o].payment = "paid" => orders'[o].payment = "paid"]_vars

SetByStaff == {"in_production", "ready_to_ship", "delivered", "returned"}

\* A status only staff set is the last one on the customer's timeline, wherever
\* a Lambda died, and a customer who is shown it finds it on the timeline that
\* is read with it, whatever happens between the two reads.  (Cancellation by
\* the customer, payment and the storefront's shipment change the status and
\* leave the timeline as it is.)  That is so only of orders the generic update
\* keeps away from: it may write any status (admin_api/config/resources.yml:437)
\* and writes no timeline, while admin_api/API.md:111 and the docstring of
\* admin_api/handlers/orders_handler.py call /orders/{id}/status the only way
\* and the one place.
StaffStatusesAreOnTheTimeline ==
    /\ \A o \in Placed \ raced :
         <<"status", o>> \notin edited /\ orders[o].status \in SetByStaff =>
            history[o] # <<>> /\ Last(history[o]) = orders[o].status
    /\ \A r \in Requests :
         task[r] = "view" /\ req[r].answer = 200 /\ req[r].shown.row.status \in SetByStaff
         /\ <<"status", req[r].shown.order>> \notin edited =>
            Contains(req[r].shown.timeline, req[r].shown.row.status)

\* A converted quote has one order and a quote that is not converted has none,
\* but for quotes staff marked, or took an order from or gave one, by the generic
\* update.
OneOrderPerQuote ==
    \A q \in Quotes \ raced : <<"conversion", q>> \notin edited =>
        LET made == {o \in Placed : orders[o].quote = q} IN
        IF quotes[q] = "converted" /\ QuoteStatus[q] # "converted"
        THEN Cardinality(made) = 1 ELSE made = {}

\* A customer is told of changes that were committed and, where staff made
\* them, are in the audit log; the log of a change of order status has nothing
\* that did not happen.
ToldWhatHappened ==
    /\ queue \subseteq committed
    /\ \A c \in queue : c \in audited
    /\ \A c \in audited : c.order \in AllOrders /\ task[c.by] # "convert" => c \in committed
=============================================================================
