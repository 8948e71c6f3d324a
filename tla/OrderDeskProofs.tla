---------------------------- MODULE OrderDeskProofs ----------------------------
(***************************************************************************)
(* Theorems about OrderDesk: what holds of orders, payments, quotes, the   *)
(* timeline and the logs although no program locks the order it changes.   *)
(*                                                                         *)
(* And about Notifications, the queue its messages go to: no message is    *)
(* acknowledged without its e-mail, a customer gets at most as many copies *)
(* of an e-mail as the queue hands its message out, and no message is left *)
(* in flight with no invocation to settle it.                              *)
(***************************************************************************)
EXTENDS OrderDesk, Notifications, FunctionTheorems, FiniteSetTheorems, TLAPS

Marks == ({"status", "payments"} \X AllOrders) \cup ({"conversion"} \X Quotes)

TypeInv ==
    /\ orders \in [AllOrders -> Rows \cup {None}]
    /\ history \in [AllOrders -> Seq(Statuses)]
    /\ payments \in [Requests -> PaymentRows \cup {None}]
    /\ shipments \in [AllOrders -> Nat]
    /\ quotes \in [Quotes -> QuoteStatuses]
    /\ DOMAIN req = Requests
    /\ \A r \in Requests : req[r].at \in Busy \cup {"new", "done"} /\ req[r].answer \in Codes
    /\ task \in [Requests -> TaskNames]
    /\ raced \in SUBSET (AllOrders \cup Quotes) /\ edited \in SUBSET Marks

\* Payments and shipments are of orders that exist, a payment of a customer's;
\* a quote that is no longer as it was has been converted, if staff have not
\* set its status by the generic update.
RowsBelong ==
    /\ \A p \in Requests : payments[p] # None =>
         payments[p].order \in Placed /\ orders[payments[p].order].user
    /\ \A o \in AllOrders : shipments[o] > 0 => o \in Placed
    /\ \A q \in Quotes : quotes[q] \in {QuoteStatus[q], "converted"} \/ <<"conversion", q>> \in edited

\* The customer will find the status on the order's timeline if staff set it
\* where they should.
OnTimeline(o, status) ==
    <<"status", o>> \notin edited /\ status \in SetByStaff => Contains(history[o], status)

\* Raced or not, an order has no status of staff's that its timeline lacks; one
\* that is not raced has it last.
Timelines ==
    /\ \A o \in Placed : OnTimeline(o, orders[o].status)
    /\ \A o \in Placed \ raced :
         <<"status", o>> \notin edited /\ orders[o].status \in SetByStaff =>
            history[o] # <<>> /\ Last(history[o]) = orders[o].status

\* The quote of an order is another only if the generic update has taken the
\* order from the one and given it to the other.
SameQuote(a, b, marked) == a = b \/ \A q \in {a, b} \ {None} : <<"conversion", q>> \in marked

\* The row a request has read of an order: as it is or as it was, but of the same
\* customer and quote, and with a status its timeline tells of.
Sees(o, row) ==
    /\ o \in Placed /\ row \in Rows
    /\ row.user = orders[o].user /\ SameQuote(row.quote, orders[o].quote, edited)
    /\ OnTimeline(o, row.status)

IsPayment(p) == p \in Requests /\ payments[p] # None

\* What the generic update has in hand: a row there is, and what to write.
CanEdit(r, about, to) ==
    /\ task[r] = "edit order" => about \in Placed /\ to \in Statuses \cup Quotes \cup {None}
    /\ task[r] = "edit payment" => IsPayment(about) /\ to \in {"pending", "paid"}
    /\ task[r] = "edit quote" => about \in Quotes /\ to \in QuoteStatuses

\* What the audit record of a generic update will say.
EditOf(r, about, row, to) == Change(r, about, row.status, to.status)

\* What a request knows of the tables when it writes, tells or shows.
Plans(r, where, about, row, to) ==
    /\ where = "writing" =>
         /\ task[r] \in {"cancel", "ship", "move", "pay", "webhook", "convert"} \cup Edits
         /\ task[r] \in {"cancel", "ship", "move"} => Sees(about, row)
         /\ task[r] = "move" => to \in Statuses
         /\ task[r] = "pay" => about \in Placed /\ orders[about].user /\ to \in References
         /\ task[r] = "webhook" => IsPayment(about) /\ Sees(payments[about].order, row)
         /\ task[r] = "convert" => about \in Quotes /\ row \notin NotConvertible
         /\ task[r] \in Edits => CanEdit(r, about, to)
    /\ where = "locking" => task[r] = "webhook" /\ IsPayment(about)
    /\ where = "auditing" /\ task[r] = "move" => Change(r, about, row.status, to) \in committed
    /\ where = "auditing" /\ task[r] \in Edits => EditOf(r, about, row, to) \in committed
    /\ where = "telling" =>
         /\ task[r] \in {"checkout", "move"}
         /\ Change(r, about, IF task[r] = "checkout" THEN None ELSE row.status, to)
              \in committed \cap audited
    /\ where \in {"showing shipments", "showing timeline"} => task[r] = "view" /\ Sees(about, row)
    /\ where = "counting quotes" => task[r] = "summary"

Intends(r) == Plans(r, req[r].at, req[r].about, req[r].row, req[r].to)

\* A request that has not committed has no order or payment of its own.
OwnRows(r) ==
    req[r].at \in {"new", "writing", "locking"} => orders[r] = None /\ payments[r] = None

\* What an answer showed stays true enough to be relied on.
Answered(r) ==
    /\ req[r].at # "done" => req[r].answer = 0
    /\ task[r] = "list" /\ req[r].answer = 200 => req[r].shown \subseteq Placed
    /\ task[r] = "view" /\ req[r].answer = 200 /\ req[r].shown.row.status \in SetByStaff
       /\ <<"status", req[r].shown.order>> \notin edited =>
         Contains(req[r].shown.timeline, req[r].shown.row.status)

MadeOf(q) == {o \in Placed : orders[o].quote = q}

\* The quote and its order are written together.
QuotesMatch ==
    \A q \in Quotes \ raced : <<"conversion", q>> \notin edited =>
        IF quotes[q] = "converted" /\ QuoteStatus[q] # "converted"
        THEN \E o \in Placed : MadeOf(q) = {o}
        ELSE MadeOf(q) = {}

IInv ==
    /\ TypeInv /\ RowsBelong
    /\ \A r \in Requests : Intends(r) /\ OwnRows(r) /\ Answered(r)
    /\ PaidOrdersShowPaid /\ Timelines /\ QuotesMatch /\ ToldWhatHappened
-----------------------------------------------------------------------------
\* What a request that goes on takes with it.
LEMMA GoEffect ==
    ASSUME DOMAIN req = Requests, NEW r \in Requests,
           NEW where, NEW about, NEW row, NEW to, Go(r, where, about, row, to)
    PROVE  /\ DOMAIN req' = Requests
           /\ \A s \in Requests \ {r} : req'[s] = req[s]
           /\ req'[r].at = where /\ req'[r].about = about /\ req'[r].row = row
           /\ req'[r].to = to /\ req'[r].answer = 0
<1>1. req'[r] = [Idle(where, 0, None) EXCEPT !.about = about, !.row = row, !.to = to]
  BY DEF Go
<1>2. req'[r].at = where
  BY <1>1 DEF Idle
<1>3. req'[r].about = about
  BY <1>1 DEF Idle
<1>4. req'[r].row = row
  BY <1>1 DEF Idle
<1>5. req'[r].to = to
  BY <1>1 DEF Idle
<1>6. req'[r].answer = 0
  BY <1>1 DEF Idle
<1>7. DOMAIN req' = Requests /\ \A s \in Requests \ {r} : req'[s] = req[s]
  BY DEF Go
<1> QED BY <1>2, <1>3, <1>4, <1>5, <1>6, <1>7

\* An answer ends a request.
LEMMA ShowEffect ==
    ASSUME DOMAIN req = Requests, NEW r \in Requests, NEW code, NEW shown, Show(r, code, shown)
    PROVE  /\ DOMAIN req' = Requests
           /\ \A s \in Requests \ {r} : req'[s] = req[s]
           /\ req'[r].at = "done" /\ req'[r].answer = code /\ req'[r].shown = shown
BY DEF Show, Idle

\* A step of one request leaves to the others what they know: orders stay, of the
\* same customer and quote, timelines grow, and so do the logs.
Carried(r) ==
    /\ \A o \in Placed : /\ o \in Placed'
                         /\ orders'[o].user = orders[o].user
                         /\ SameQuote(orders[o].quote, orders'[o].quote, edited')
    /\ edited \subseteq edited'
    /\ \A o \in Placed : \A s : Contains(history[o], s) => Contains(history'[o], s)
    /\ \A p \in Requests : payments[p] # None =>
         payments'[p] # None /\ payments'[p].order = payments[p].order
    /\ committed \subseteq committed' /\ audited \subseteq audited'
    /\ UNCHANGED task
    /\ \A s \in Requests \ {r} : /\ req'[s] = req[s]
                                 /\ orders[s] = None => orders'[s] = None
                                 /\ payments[s] = None => payments'[s] = None

LEMMA SameQuoteStill ==
    ASSUME NEW a, NEW b, NEW c, NEW before, NEW after, before \subseteq after,
           SameQuote(a, b, before), SameQuote(b, c, after)
    PROVE  SameQuote(a, c, after)
<1>1. CASE a = b
  BY <1>1
<1>2. CASE a # b
  <2>1. \A q \in {a, b} \ {None} : <<"conversion", q>> \in after
    BY <1>2 DEF SameQuote
  <2>2. CASE b = c
    BY <2>1, <2>2 DEF SameQuote
  <2>3. CASE b # c
    BY <2>1, <2>3 DEF SameQuote
  <2> QED BY <2>2, <2>3
<1> QED BY <1>1, <1>2

\* What a request saw of an order it sees after anybody's step.
LEMMA SeesStays ==
    ASSUME TypeInv, NEW r, Carried(r), NEW o, NEW row, Sees(o, row)
    PROVE  Sees(o, row)'
<1>1. /\ o \in Placed /\ o \in Placed' /\ row \in Rows /\ row.user = orders[o].user
      /\ orders'[o].user = orders[o].user /\ edited \subseteq edited'
  BY DEF Sees, Carried
<1>2. SameQuote(row.quote, orders[o].quote, edited) /\ SameQuote(orders[o].quote, orders'[o].quote, edited')
  BY DEF Sees, Carried
<1>3. SameQuote(row.quote, orders'[o].quote, edited')
  BY <1>1, <1>2, SameQuoteStill
<1>4. OnTimeline(o, row.status)'
  BY <1>1 DEF Sees, Carried, OnTimeline
<1> QED BY <1>1, <1>3, <1>4 DEF Sees

LEMMA OthersKnow ==
    ASSUME TypeInv, RowsBelong, NEW r \in Requests, Carried(r), NEW s \in Requests \ {r},
           Intends(s), OwnRows(s), Answered(s)
    PROVE  Intends(s)' /\ OwnRows(s)' /\ Answered(s)'
<1>1. /\ req'[s] = req[s] /\ task' = task
      /\ Placed \subseteq Placed'
      /\ \A p : IsPayment(p) => IsPayment(p)' /\ payments'[p].order = payments[p].order
      /\ \A o \in Placed : orders'[o].user = orders[o].user
      /\ committed \subseteq committed' /\ audited \subseteq audited' /\ edited \subseteq edited'
  BY DEF Carried, IsPayment
<1>2. \A o, row : Sees(o, row) => Sees(o, row)'
  BY SeesStays
<1>3. Intends(s)'
  <2>1. \A about, to : CanEdit(s, about, to) => CanEdit(s, about, to)'
    BY <1>1 DEF CanEdit
  <2> QED BY <1>1, <1>2, <2>1 DEF Intends, Plans
<1>4. OwnRows(s)'
  BY <1>1 DEF OwnRows, Carried
<1>5. Answered(s)'
  BY <1>1 DEF Answered
<1> QED BY <1>3, <1>4, <1>5

\* A step is safe if it is for the tables and for the request that takes it.
LEMMA StepByParts ==
    ASSUME IInv, NEW r \in Requests, Carried(r), TypeInv', RowsBelong',
           Intends(r)', OwnRows(r)', Answered(r)',
           PaidOrdersShowPaid', Timelines', QuotesMatch', ToldWhatHappened'
    PROVE  IInv'
<1>1. \A s \in Requests \ {r} : Intends(s)' /\ OwnRows(s)' /\ Answered(s)'
  BY OthersKnow DEF IInv
<1> QED BY <1>1 DEF IInv
-----------------------------------------------------------------------------
LEMMA InitHolds == Init => IInv
<1> SUFFICES ASSUME Init PROVE IInv
  OBVIOUS
<1>1. /\ \A o \in Orders : orders[o] = Row("pending", "pending", TRUE, None)
      /\ \A o \in Requests : orders[o] = None
      /\ Placed = Orders
      /\ Row("pending", "pending", TRUE, None) \in Rows
  <2>1. Row("pending", "pending", TRUE, None) \in Rows
    BY DEF Row, Rows, Statuses
  <2>2. Row("pending", "pending", TRUE, None) # None
    BY <2>1, NoneAssumption
  <2>3. \A o \in AllOrders : orders[o] = IF o \in Orders THEN Row("pending", "pending", TRUE, None)
                                         ELSE None
    BY DEF Init
  <2> QED BY <2>1, <2>2, <2>3, DeskAssumption DEF AllOrders, Placed
<1>2. \A r \in Requests : req[r].at = "new" /\ req[r].answer = 0
  BY DEF Init, Idle
<1>3. TypeInv
  <2>1. orders \in [AllOrders -> Rows \cup {None}]
    BY <1>1 DEF Init
  <2>2. history \in [AllOrders -> Seq(Statuses)]
    <3>1. <<"pending">> \in Seq(Statuses) /\ <<>> \in Seq(Statuses)
      BY DEF Statuses
    <3> QED BY <3>1 DEF Init
  <2>3. quotes \in [Quotes -> QuoteStatuses]
    BY DeskAssumption DEF Init, QuoteStatuses
  <2>4. task \in [Requests -> TaskNames]
    BY DeskAssumption DEF Init
  <2>5. \A r \in Requests : req[r].at \in Busy \cup {"new", "done"} /\ req[r].answer \in Codes
    BY <1>2 DEF Codes
  <2>6. DOMAIN req = Requests /\ raced \in SUBSET (AllOrders \cup Quotes) /\ edited \in SUBSET Marks
    BY DEF Init
  <2>7. payments \in [Requests -> PaymentRows \cup {None}] /\ shipments \in [AllOrders -> Nat]
    BY DEF Init
  <2> QED BY <2>1, <2>2, <2>3, <2>4, <2>5, <2>6, <2>7 DEF TypeInv
<1>4. RowsBelong
  BY <1>1 DEF Init, RowsBelong
<1>5. \A r \in Requests : Intends(r) /\ OwnRows(r) /\ Answered(r)
  <2> TAKE r \in Requests
  <2>1. Intends(r)
    BY <1>2 DEF Intends, Plans
  <2>2. OwnRows(r)
    BY <1>1 DEF Init, OwnRows
  <2>3. Answered(r)
    BY <1>2 DEF Answered
  <2> QED BY <2>1, <2>2, <2>3
<1>6. PaidOrdersShowPaid
  BY <1>1 DEF Init, PaidOrdersShowPaid, PaymentsOf, Row
<1>7. Timelines
  BY <1>1 DEF Timelines, OnTimeline, Row, SetByStaff
<1>8. QuotesMatch
  BY <1>1, NoneAssumption DEF Init, QuotesMatch, MadeOf, Row
<1>9. ToldWhatHappened
  BY DEF Init, ToldWhatHappened
<1> QED BY <1>3, <1>4, <1>5, <1>6, <1>7, <1>8, <1>9 DEF IInv

\* A step that writes no table keeps everything about them.
LEMMA QuietTables ==
    ASSUME IInv, NEW r \in Requests, UNCHANGED <<tables, committed, task, marks>>,
           audited \subseteq audited', DOMAIN req' = Requests, \A s \in Requests \ {r} : req'[s] = req[s],
           req'[r].at \in Busy \cup {"new", "done"}, req'[r].answer \in Codes
    PROVE  /\ Carried(r) /\ TypeInv' /\ RowsBelong'
           /\ PaidOrdersShowPaid' /\ Timelines' /\ QuotesMatch'
<1>1. UNCHANGED <<orders, history, payments, shipments, quotes, committed, task, raced, edited>>
  BY DEF tables, marks
<1>2. Placed' = Placed /\ \A o : PaymentsOf(o)' = PaymentsOf(o)
  BY <1>1 DEF Placed, PaymentsOf
<1>3. Carried(r)
  BY <1>1, <1>2 DEF Carried, SameQuote
<1>4. TypeInv'
  BY <1>1 DEF IInv, TypeInv
<1>5. RowsBelong'
  BY <1>1, <1>2 DEF IInv, RowsBelong
<1>6. PaidOrdersShowPaid'
  BY <1>1, <1>2 DEF IInv, PaidOrdersShowPaid
<1>7. Timelines'
  BY <1>1, <1>2 DEF IInv, Timelines, OnTimeline
<1>8. QuotesMatch'
  BY <1>1, <1>2 DEF IInv, QuotesMatch, MadeOf
<1> QED BY <1>3, <1>4, <1>5, <1>6, <1>7, <1>8

\* A request that only reads and goes on ...
LEMMA GoStep ==
    ASSUME IInv, NEW r \in Requests, UNCHANGED <<tables, logs, task, marks>>,
           NEW where \in Busy, NEW about, NEW row, NEW to, Go(r, where, about, row, to),
           Plans(r, where, about, row, to),
           where \in {"writing", "locking"} => req[r].at \in {"new", "locking"}
    PROVE  IInv'
<1>1. /\ DOMAIN req' = Requests
      /\ \A s \in Requests \ {r} : req'[s] = req[s]
      /\ req'[r].at = where /\ req'[r].about = about /\ req'[r].row = row
      /\ req'[r].to = to /\ req'[r].answer = 0
  BY GoEffect DEF IInv, TypeInv
<1>2. /\ Carried(r) /\ TypeInv' /\ RowsBelong'
      /\ PaidOrdersShowPaid' /\ Timelines' /\ QuotesMatch' /\ ToldWhatHappened'
  <2>1. ToldWhatHappened' /\ UNCHANGED <<tables, committed, task, marks>> /\ audited \subseteq audited'
    BY DEF IInv, ToldWhatHappened, logs
  <2> QED BY <1>1, <2>1, QuietTables DEF Codes
<1>3. Intends(r)'
  <2>1. UNCHANGED <<orders, history, payments, audited, committed, task, edited>>
    BY DEF tables, logs, marks
  <2>2. \A o, x : Sees(o, x)' <=> Sees(o, x)
    BY <2>1 DEF Sees, Placed, OnTimeline
  <2>3. \A x, y : CanEdit(r, x, y)' <=> CanEdit(r, x, y)
    BY <2>1 DEF CanEdit, IsPayment, Placed
  <2> QED BY <1>1, <2>1, <2>2, <2>3 DEF Intends, Plans, IsPayment, Placed
<1>4. OwnRows(r)'
  <2>1. orders' = orders /\ payments' = payments
    BY DEF tables
  <2>2. OwnRows(r)
    BY DEF IInv
  <2>3. where # "new"
    BY DEF Busy
  <2> QED BY <1>1, <2>1, <2>2, <2>3 DEF OwnRows
<1>5. Answered(r)'
  BY <1>1 DEF Answered
<1> QED BY <1>2, <1>3, <1>4, <1>5, StepByParts

\* ... or answers.
LEMMA ShowStep ==
    ASSUME IInv, NEW r \in Requests, UNCHANGED <<tables, logs, task, marks>>,
           NEW code \in Codes, NEW shown, Show(r, code, shown),
           task[r] = "list" /\ code = 200 => shown \subseteq Placed,
           task[r] = "view" /\ code = 200 /\ shown.row.status \in SetByStaff
           /\ <<"status", shown.order>> \notin edited =>
             Contains(shown.timeline, shown.row.status)
    PROVE  IInv'
<1>1. /\ DOMAIN req' = Requests
      /\ \A s \in Requests \ {r} : req'[s] = req[s]
      /\ req'[r].at = "done" /\ req'[r].answer = code /\ req'[r].shown = shown
  BY ShowEffect DEF IInv, TypeInv
<1>2. /\ Carried(r) /\ TypeInv' /\ RowsBelong'
      /\ PaidOrdersShowPaid' /\ Timelines' /\ QuotesMatch' /\ ToldWhatHappened'
  <2>1. ToldWhatHappened' /\ UNCHANGED <<tables, committed, task, marks>> /\ audited \subseteq audited'
    BY DEF IInv, ToldWhatHappened, logs
  <2> QED BY <1>1, <2>1, QuietTables
<1>3. Intends(r)' /\ OwnRows(r)'
  BY <1>1 DEF Intends, Plans, OwnRows
<1>4. Answered(r)'
  <2>1. Placed' = Placed /\ task' = task /\ edited' = edited
    BY DEF Placed, tables, marks
  <2> QED BY <1>1, <2>1 DEF Answered
<1> QED BY <1>2, <1>3, <1>4, StepByParts

\* An error, or nothing to show.
LEMMA FinishStep ==
    ASSUME IInv, NEW r \in Requests, UNCHANGED <<tables, logs, task, marks>>,
           NEW code \in Codes, Finish(r, code), code = 200 => task[r] \notin {"list", "view"}
    PROVE  IInv'
BY ShowStep DEF Finish

\* An order as it is now.
LEMMA SeesNow ==
    ASSUME IInv, NEW o \in Placed
    PROVE  Sees(o, orders[o])
BY DEF IInv, TypeInv, Timelines, Sees, SameQuote, Placed

\* The first SELECT of cancel_order, record_shipment, _change_status, _convert,
\* record_payment, confirm_payment and update_resource.
LEMMA ReadStep ==
    ASSUME IInv, NEW r \in Requests,
           CancelReads(r) \/ ShipReads(r) \/ PayReads(r) \/ WebhookReads(r) \/ MoveReads(r)
           \/ ConvertReads(r) \/ EditReads(r)
    PROVE  IInv'
<1>1. req[r].at = "new" /\ UNCHANGED <<tables, logs, task, marks>>
  BY DEF CancelReads, ShipReads, PayReads, WebhookReads, MoveReads, ConvertReads, EditReads, Takes,
         ReadsOnly
<1>2. \A code \in {200, 404, 409} :
          Finish(r, code) /\ (code = 200 => task[r] \notin {"list", "view"}) => IInv'
  BY <1>1, FinishStep DEF Codes
<1>3. \A about, row, to : Go(r, "writing", about, row, to) /\ Plans(r, "writing", about, row, to) => IInv'
  BY <1>1, GoStep DEF Busy
<1>4. \A about, row, to : Go(r, "showing", about, row, to) => IInv'
  <2>1. \A about, row, to : Plans(r, "showing", about, row, to)
    BY DEF Plans
  <2> QED BY <1>1, <2>1, GoStep DEF Busy
<1>5. CASE CancelReads(r)
  <2>1. \A o \in Placed : Plans(r, "writing", o, orders[o], "cancelled")
    BY <1>5, SeesNow DEF CancelReads, Takes, Plans, Edits
  <2> QED BY <1>2, <1>3, <1>4, <1>5, <2>1 DEF CancelReads
<1>6. CASE ShipReads(r)
  <2>1. \A o \in Placed : Plans(r, "writing", o, orders[o], "shipped")
    BY <1>6, SeesNow DEF ShipReads, Takes, Plans, Edits
  <2> QED BY <1>3, <1>6, <2>1 DEF ShipReads
<1>7. CASE PayReads(r)
  <2>1. \A o \in Placed, ref \in References : orders[o].user => Plans(r, "writing", o, None, ref)
    BY <1>7 DEF PayReads, Takes, Plans, Edits
  <2> QED BY <1>2, <1>3, <1>4, <1>7, <2>1 DEF PayReads
<1>8. CASE WebhookReads(r)
  <2>1. \A p \in Requests : payments[p] # None => Plans(r, "locking", p, None, None)
    BY <1>8 DEF WebhookReads, Takes, Plans, IsPayment
  <2>2. \A p \in Requests : payments[p] # None /\ Go(r, "locking", p, None, None) => IInv'
    BY <1>1, <2>1, GoStep DEF Busy
  <2>3. task[r] = "webhook"
    BY <1>8 DEF WebhookReads, Takes
  <2> QED BY <1>2, <1>8, <2>2, <2>3 DEF WebhookReads, WithReference
<1>9. CASE MoveReads(r)
  <2>1. \A o \in Placed, s \in Statuses : Plans(r, "writing", o, orders[o], s)
    BY <1>9, SeesNow DEF MoveReads, Takes, Plans, Edits
  <2> QED BY <1>2, <1>3, <1>9, <2>1 DEF MoveReads
<1>10. CASE ConvertReads(r)
  <2>1. \A q \in Quotes : quotes[q] \notin NotConvertible => Plans(r, "writing", q, quotes[q], "converted")
    BY <1>10 DEF ConvertReads, Takes, Plans, Edits
  <2> QED BY <1>2, <1>3, <1>10, <2>1 DEF ConvertReads
<1>11. CASE EditReads(r)
  <2>1. PICK about, row, to :
            /\ Go(r, "writing", about, row, to)
            /\ \/ task[r] = "edit order" /\ about \in Placed /\ to \in Statuses \cup Quotes \cup {None}
               \/ task[r] = "edit payment" /\ IsPayment(about) /\ to \in {"pending", "paid"}
               \/ task[r] = "edit quote" /\ about \in Quotes /\ to \in QuoteStatuses
    BY <1>11 DEF EditReads, Takes, IsPayment
  <2>2. Plans(r, "writing", about, row, to)
    BY <2>1 DEF Plans, Edits, CanEdit
  <2> QED BY <1>3, <2>1, <2>2
<1> QED BY <1>5, <1>6, <1>7, <1>8, <1>9, <1>10, <1>11

\* The second read of a webhook, which has the payment's row by then, and of the
\* customer's order with its shipments.
LEMMA ReadOnStep ==
    ASSUME IInv, NEW r \in Requests, WebhookReadsOrder(r) \/ ViewReads(r) \/ ViewReadsShipments(r)
    PROVE  IInv'
<1>1. UNCHANGED <<tables, logs, task, marks>>
  BY DEF WebhookReadsOrder, ViewReads, ViewReadsShipments, ReadsOnly
<1>2. Intends(r)
  BY DEF IInv
<1>3. CASE WebhookReadsOrder(r)
  <2> DEFINE p == req[r].about
  <2>1. req[r].at = "locking" /\ Go(r, "writing", p, orders[payments[p].order], "paid")
    BY <1>3 DEF WebhookReadsOrder
  <2>2. task[r] = "webhook" /\ IsPayment(p)
    BY <1>2, <2>1 DEF Intends, Plans
  <2>3. payments[p].order \in Placed
    BY <2>2 DEF IInv, RowsBelong, IsPayment
  <2>4. Plans(r, "writing", p, orders[payments[p].order], "paid")
    BY <2>2, <2>3, SeesNow DEF Plans, Edits
  <2> QED BY <1>1, <2>1, <2>4, GoStep DEF Busy
<1>4. CASE ViewReads(r)
  <2>1. task[r] = "view"
    BY <1>4 DEF ViewReads, Takes
  <2>2. \A o \in Placed : Plans(r, "showing shipments", o, orders[o], None)
    BY <2>1, SeesNow DEF Plans
  <2>3. \A o \in Placed : Go(r, "showing shipments", o, orders[o], None) => IInv'
    BY <1>1, <2>2, GoStep DEF Busy
  <2>4. Finish(r, 404) => IInv'
    BY <1>1, FinishStep DEF Codes
  <2> QED BY <1>4, <2>3, <2>4 DEF ViewReads
<1>5. CASE ViewReadsShipments(r)
  <2>1. /\ req[r].at = "showing shipments"
        /\ Go(r, "showing timeline", req[r].about, req[r].row, shipments[req[r].about])
    BY <1>5 DEF ViewReadsShipments
  <2>2. Plans(r, "showing timeline", req[r].about, req[r].row, shipments[req[r].about])
    BY <1>2, <2>1 DEF Intends, Plans
  <2> QED BY <1>1, <2>1, <2>2, GoStep DEF Busy
<1> QED BY <1>3, <1>4, <1>5

\* The SELECTs whose result is the answer.  What ViewShows shows was read before
\* the timeline, which has grown at most.
LEMMA AnswerStep ==
    ASSUME IInv, NEW r \in Requests,
           CancelShows(r) \/ ShipShows(r) \/ PayShows(r) \/ ListOrders(r) \/ ViewShows(r)
           \/ GetInvoice(r) \/ ListShipments(r) \/ SummaryShows(r)
    PROVE  IInv'
<1>1. UNCHANGED <<tables, logs, task, marks>>
  BY DEF CancelShows, ShipShows, PayShows, ListOrders, ViewShows, GetInvoice, ListShipments,
         SummaryShows, ReadsOnly
<1>2. Intends(r)
  BY DEF IInv
<1>3. \A code \in Codes : Finish(r, code) /\ (code = 200 => task[r] \notin {"list", "view"}) => IInv'
  BY <1>1, FinishStep
<1>4. \A shown : \A code \in Codes :
          Show(r, code, shown) /\ (code = 200 => task[r] \notin {"list", "view"}) => IInv'
  BY <1>1, ShowStep
<1>5. CASE CancelShows(r)
  <2>1. task[r] = "cancel" /\ Show(r, 200, orders[req[r].about])
    BY <1>5 DEF CancelShows
  <2> QED BY <1>4, <2>1 DEF Codes
<1>6. CASE ShipShows(r) \/ PayShows(r)
  BY <1>3, <1>4, <1>6 DEF ShipShows, PayShows, Codes
<1>7. CASE ListOrders(r)
  <2> DEFINE shown == {o \in Placed : orders[o].user}
  <2>1. task[r] = "list" /\ Show(r, 200, shown)
    BY <1>7 DEF ListOrders, Takes
  <2>2. shown \subseteq Placed
    OBVIOUS
  <2> HIDE DEF shown
  <2>3. 200 \in Codes /\ ~(task[r] = "view")
    BY <2>1 DEF Codes
  <2> QED BY <1>1, <2>1, <2>2, <2>3, ShowStep
<1>8. CASE ViewShows(r)
  <2> DEFINE shown == Detail(req[r].about, req[r].row, req[r].to, history[req[r].about])
  <2>1. req[r].at = "showing timeline" /\ Show(r, 200, shown)
    BY <1>8 DEF ViewShows
  <2>2. task[r] = "view" /\ OnTimeline(req[r].about, req[r].row.status)
    BY <1>2, <2>1 DEF Intends, Plans, Sees
  <2>3. shown.row = req[r].row /\ shown.timeline = history[req[r].about] /\ shown.order = req[r].about
    BY DEF Detail
  <2>4. shown.row.status \in SetByStaff /\ <<"status", shown.order>> \notin edited =>
            Contains(shown.timeline, shown.row.status)
    BY <2>2, <2>3 DEF OnTimeline
  <2> HIDE DEF shown
  <2>5. 200 \in Codes /\ ~(task[r] = "list")
    BY <2>2 DEF Codes
  <2> QED BY <1>1, <2>1, <2>4, <2>5, ShowStep
<1>9. CASE GetInvoice(r)
  BY <1>3, <1>4, <1>9 DEF GetInvoice, Takes, Codes
<1>10. CASE ListShipments(r)
  BY <1>3, <1>4, <1>10 DEF ListShipments, Takes, Codes
<1>11. CASE SummaryShows(r)
  <2>1. PICK shown : Show(r, 200, shown) /\ req[r].at = "counting quotes"
    BY <1>11 DEF SummaryShows
  <2>2. task[r] = "summary"
    BY <1>2, <2>1 DEF Intends, Plans
  <2>3. 200 \in Codes /\ task[r] \notin {"list", "view"}
    BY <2>2 DEF Codes
  <2> QED BY <1>4, <2>1, <2>3
<1> QED BY <1>5, <1>6, <1>7, <1>8, <1>9, <1>10, <1>11

\* Requests that are turned away, die, or start the dashboard's reads.
LEMMA EndStep ==
    ASSUME IInv, NEW r \in Requests, TurnAway(r) \/ Fail(r) \/ SummaryReads(r)
    PROVE  IInv'
<1>1. UNCHANGED <<tables, logs, task, marks>>
  BY DEF TurnAway, Fail, SummaryReads, ReadsOnly
<1>2. task[r] \in TaskNames
  BY DEF IInv, TypeInv
<1>3. CASE TurnAway(r)
  <2>1. PICK code \in IF task[r] = "webhook" THEN WebhookRefusals ELSE Refusals(task[r]) :
            Finish(r, code)
    BY <1>3 DEF TurnAway
  <2>2. code \in Codes /\ (code = 200 => task[r] = "webhook")
    BY <2>1 DEF WebhookRefusals, Refusals, CheckoutRefusals, Codes
  <2> QED BY <1>1, <2>1, <2>2, FinishStep
<1>4. CASE Fail(r)
  BY <1>1, <1>4, FinishStep DEF Fail, Codes
<1>5. CASE SummaryReads(r)
  <2>1. /\ task[r] = "summary"
        /\ \E counts, realised : Go(r, "counting quotes", None, counts, realised)
    BY <1>5 DEF SummaryReads, Takes
  <2>2. PICK counts, realised : Go(r, "counting quotes", None, counts, realised)
    BY <2>1
  <2>3. Plans(r, "counting quotes", None, counts, realised)
    BY <2>1 DEF Plans
  <2> QED BY <1>1, <2>2, <2>3, GoStep DEF Busy
<1> QED BY <1>3, <1>4, <1>5
-----------------------------------------------------------------------------
\* What save() does to the order `o` that was read as `row`: only its status and
\* its payment status differ from what was read.
SaveOf(o, row, change) ==
    /\ Sees(o, row) /\ change \in Rows
    /\ change.user = row.user /\ change.quote = row.quote
    /\ Save(o, row, change)

MadeSame == \A q \in Quotes : <<"conversion", q>> \notin edited' => MadeOf(q)' = MadeOf(q)

\* Orders go on existing for the same customer and quote, whether or not the row
\* was current.
LEMMA SaveKeepsOrders ==
    ASSUME TypeInv, NEW o, NEW row, NEW change, SaveOf(o, row, change)
    PROVE  /\ o \in AllOrders /\ o \in Placed
           /\ orders' \in [AllOrders -> Rows \cup {None}]
           /\ \A x \in AllOrders : orders'[x] = IF x = o THEN change ELSE orders[x]
           /\ Placed' = Placed
           /\ \A x \in Placed : /\ orders'[x].user = orders[x].user
                                /\ SameQuote(orders[x].quote, orders'[x].quote, edited)
           /\ raced' \in SUBSET (AllOrders \cup Quotes)
           /\ raced \subseteq raced'
           /\ o \notin raced' => orders[o] = row
           /\ edited' = edited /\ MadeSame
<1>1. /\ orders \in [AllOrders -> Rows \cup {None}] /\ raced \in SUBSET (AllOrders \cup Quotes)
      /\ o \in AllOrders /\ o \in Placed
  BY DEF TypeInv, SaveOf, Sees, Placed
<1>2. orders' = [orders EXCEPT ![o] = change] /\ Stale(o, row) /\ change \in Rows
  BY DEF SaveOf, Save
<1>3. /\ orders' \in [AllOrders -> Rows \cup {None}]
      /\ \A x \in AllOrders : orders'[x] = IF x = o THEN change ELSE orders[x]
  BY <1>1, <1>2
<1>4. Placed' = Placed
  BY <1>1, <1>2, <1>3, NoneAssumption DEF Placed
<1>5. \A x \in Placed : /\ orders'[x].user = orders[x].user
                       /\ SameQuote(orders[x].quote, orders'[x].quote, edited)
  BY <1>3 DEF SaveOf, Sees, Placed, SameQuote
<1>6. /\ raced' \in SUBSET (AllOrders \cup Quotes)
      /\ raced \subseteq raced'
      /\ o \notin raced' => orders[o] = row
  BY <1>1, <1>2 DEF Stale
<1>7. edited' = edited
  BY DEF SaveOf, Save
<1>8. MadeSame
  <2> SUFFICES ASSUME NEW q \in Quotes, <<"conversion", q>> \notin edited PROVE MadeOf(q)' = MadeOf(q)
    BY <1>7 DEF MadeSame
  <2>1. \A x \in Placed : orders'[x].quote = q <=> orders[x].quote = q
    BY <1>5, NoneAssumption DEF SameQuote
  <2> QED BY <1>4, <2>1 DEF MadeOf
<1> QED BY <1>1, <1>3, <1>4, <1>5, <1>6, <1>7, <1>8

LEMMA SaveCarries ==
    ASSUME TypeInv, NEW r \in Requests, NEW o, NEW row, NEW change, SaveOf(o, row, change),
           \A x \in Placed : \A s : Contains(history[x], s) => Contains(history'[x], s),
           committed \subseteq committed', audited \subseteq audited', UNCHANGED <<payments, task>>,
           \A s \in Requests \ {r} : req'[s] = req[s]
    PROVE  Carried(r)
<1>1. /\ Placed' = Placed /\ Requests \subseteq AllOrders
      /\ \A x \in Placed : /\ orders'[x].user = orders[x].user
                           /\ SameQuote(orders[x].quote, orders'[x].quote, edited)
      /\ edited' = edited
  BY SaveKeepsOrders DEF AllOrders
<1>2. \A x \in AllOrders : orders[x] = None => orders'[x] = None
  BY SaveKeepsOrders DEF Placed
<1>3. /\ \A p \in Requests : payments'[p] = payments[p]
      /\ \A s \in Requests \ {r} : orders[s] = None => orders'[s] = None
  BY <1>1, <1>2
<1> QED BY <1>1, <1>3 DEF Carried

\* The writes of cancel_order, record_shipment and _change_status: a status, on
\* the timeline if staff set it.
LEMMA StatusSaveStep ==
    ASSUME IInv, NEW r \in Requests, CancelCommits(r) \/ ShipCommits(r) \/ MoveCommits(r)
    PROVE  IInv'
<1> DEFINE o == req[r].about
           row == req[r].row
<1>1. /\ TypeInv /\ RowsBelong
      /\ req[r].at = "writing" /\ task[r] \in {"cancel", "ship", "move"}
      /\ UNCHANGED <<payments, quotes, queue, task>>
  BY DEF IInv, CancelCommits, ShipCommits, MoveCommits
<1>2. Sees(o, row) /\ (task[r] = "move" => req[r].to \in Statuses)
  BY <1>1 DEF IInv, Intends, Plans
<1>3. PICK status \in Statuses, where \in {"showing", "auditing"} :
          /\ Save(o, row, [row EXCEPT !.status = status])
          /\ committed' = committed \cup {Change(r, o, row.status, status)}
          /\ audited' = audited \/ audited' = audited \cup {Change(r, o, row.status, status)}
          /\ \/ status \notin SetByStaff /\ history' = history
             \/ history' = [history EXCEPT ![o] = Append(@, status)]
          /\ \/ shipments' = shipments
             \/ shipments' = [shipments EXCEPT ![o] = @ + 1]
          /\ \E seen, to : Go(r, where, o, seen, to) /\ (where = "auditing" => seen = row /\ to = status)
  <2>1. CASE CancelCommits(r)
    BY <2>1, SMTT(30) DEF CancelCommits, Statuses, SetByStaff
  <2>2. CASE ShipCommits(r)
    BY <2>2, SMTT(30) DEF ShipCommits, Statuses, SetByStaff
  <2>3. CASE MoveCommits(r)
    BY <1>2, <2>3 DEF MoveCommits
  <2> QED BY <2>1, <2>2, <2>3
<1> DEFINE change == [row EXCEPT !.status = status]
<1>4. /\ change \in Rows /\ change.status = status /\ change.user = row.user
      /\ change.quote = row.quote /\ change.payment = row.payment
  BY <1>2 DEF Sees, Rows
<1> HIDE DEF o, row, change
<1>5. SaveOf(o, row, change)
  BY <1>2, <1>3, <1>4 DEF SaveOf, change
<1>6. /\ o \in AllOrders /\ o \in Placed
      /\ orders' \in [AllOrders -> Rows \cup {None}]
      /\ \A x \in AllOrders : orders'[x] = IF x = o THEN change ELSE orders[x]
      /\ Placed' = Placed
      /\ \A x \in Placed : /\ orders'[x].user = orders[x].user
                           /\ SameQuote(orders[x].quote, orders'[x].quote, edited)
      /\ raced' \in SUBSET (AllOrders \cup Quotes)
      /\ raced \subseteq raced'
      /\ o \notin raced' => orders[o] = row
      /\ edited' = edited /\ MadeSame
  BY <1>1, <1>5, SaveKeepsOrders
<1>7. /\ DOMAIN req' = Requests
      /\ \A s \in Requests \ {r} : req'[s] = req[s]
      /\ req'[r].at = where /\ req'[r].about = o /\ req'[r].answer = 0
      /\ where = "auditing" => req'[r].row = row /\ req'[r].to = status
  BY <1>1, <1>3, GoEffect DEF TypeInv
<1>8. /\ history' \in [AllOrders -> Seq(Statuses)]
      /\ \A x \in AllOrders \ {o} : history'[x] = history[x]
      /\ \A x \in AllOrders : \A s : Contains(history[x], s) => Contains(history'[x], s)
      /\ status \in SetByStaff => /\ Contains(history'[o], status)
                                  /\ history'[o] # <<>> /\ Last(history'[o]) = status
  <2>1. history \in [AllOrders -> Seq(Statuses)] /\ history[o] \in Seq(Statuses)
    BY <1>1, <1>6 DEF TypeInv
  <2>2. CASE history' = history /\ status \notin SetByStaff
    BY <2>1, <2>2
  <2>3. CASE history' = [history EXCEPT ![o] = Append(@, status)]
    <3> DEFINE longer == Append(history[o], status)
    <3>1. /\ longer \in Seq(Statuses) /\ Len(longer) = Len(history[o]) + 1
          /\ longer[Len(longer)] = status
          /\ \A i \in 1 .. Len(history[o]) : longer[i] = history[o][i]
          /\ Len(history[o]) \in Nat
      BY <2>1
    <3>2. /\ history'[o] = longer /\ \A x \in AllOrders \ {o} : history'[x] = history[x]
          /\ history' \in [AllOrders -> Seq(Statuses)]
      BY <1>6, <2>1, <2>3, <3>1
    <3> HIDE DEF longer
    <3>3. \A s : Contains(history[o], s) => Contains(longer, s)
      BY <3>1 DEF Contains
    <3>4. Contains(longer, status) /\ longer # <<>> /\ Last(longer) = status
      BY <3>1 DEF Contains, Last
    <3> QED BY <3>2, <3>3, <3>4
  <2> QED BY <1>3, <2>2, <2>3
<1>9. Carried(r)
  <2>1. \A x \in Placed : \A s : Contains(history[x], s) => Contains(history'[x], s)
    BY <1>6, <1>8 DEF Placed
  <2>2. committed \subseteq committed' /\ audited \subseteq audited' /\ UNCHANGED <<payments, task>>
    BY <1>1, <1>3
  <2> QED BY <1>1, <1>5, <1>7, <2>1, <2>2, SaveCarries
<1>10. TypeInv'
  <2>1. shipments' \in [AllOrders -> Nat]
    BY <1>1, <1>3, <1>6 DEF TypeInv
  <2>2. \A s \in Requests : req'[s].at \in Busy \cup {"new", "done"} /\ req'[s].answer \in Codes
    <3>1. \A s \in Requests \ {r} : req'[s].at \in Busy \cup {"new", "done"} /\ req'[s].answer \in Codes
      BY <1>1, <1>7 DEF TypeInv
    <3>2. req'[r].at \in Busy /\ req'[r].answer \in Codes
      BY <1>7 DEF Busy, Codes
    <3> QED BY <3>1, <3>2
  <2> QED BY <1>1, <1>6, <1>7, <1>8, <2>1, <2>2 DEF TypeInv
<1>11. RowsBelong'
  <2>1. \A p \in Requests : payments'[p] # None =>
            payments'[p].order \in Placed' /\ orders'[payments'[p].order].user
    BY <1>1, <1>6 DEF RowsBelong
  <2>2. \A x \in AllOrders : shipments'[x] > 0 => x \in Placed'
    BY <1>1, <1>3, <1>6 DEF RowsBelong, TypeInv
  <2> QED BY <1>1, <1>6, <2>1, <2>2 DEF RowsBelong
<1>12. Intends(r)'
  BY <1>1, <1>3, <1>7 DEF Intends, Plans, Edits
<1>13. OwnRows(r)' /\ Answered(r)'
  BY <1>7 DEF OwnRows, Answered
<1>14. PaidOrdersShowPaid'
  <2> SUFFICES ASSUME NEW x \in Placed, x \notin raced', <<"payments", x>> \notin edited'
               PROVE  orders'[x].payment = "paid" <=>
                        \E p \in PaymentsOf(x)' : payments'[p].status = "paid"
    BY <1>6 DEF PaidOrdersShowPaid
  <2>1. orders'[x].payment = orders[x].payment
    BY <1>4, <1>6 DEF Placed
  <2> QED BY <1>1, <1>6, <2>1 DEF IInv, PaidOrdersShowPaid, PaymentsOf
<1>15. Timelines'
  <2>1. ASSUME NEW x \in Placed
        PROVE  /\ <<"status", x>> \notin edited /\ orders'[x].status \in SetByStaff =>
                    Contains(history'[x], orders'[x].status)
               /\ x \notin raced' /\ <<"status", x>> \notin edited /\ orders'[x].status \in SetByStaff =>
                    history'[x] # <<>> /\ Last(history'[x]) = orders'[x].status
    <3>1. CASE x = o
      BY <1>4, <1>6, <1>8, <3>1
    <3>2. CASE x # o
      <4>1. x \in AllOrders /\ orders'[x] = orders[x] /\ history'[x] = history[x]
        BY <1>6, <1>8, <3>2 DEF Placed
      <4> QED BY <1>6, <4>1 DEF IInv, Timelines, OnTimeline
    <3> QED BY <3>1, <3>2
  <2> QED BY <1>6, <2>1 DEF Timelines, OnTimeline
<1>16. QuotesMatch'
  BY <1>1, <1>6 DEF IInv, QuotesMatch, MadeSame
<1>17. ToldWhatHappened'
  BY <1>1, <1>3 DEF IInv, ToldWhatHappened
<1> QED BY <1>9, <1>10, <1>11, <1>12, <1>13, <1>14, <1>15, <1>16, <1>17, StepByParts

\* confirm_payment: the payment and its order's payment status are written
\* together, which is what keeps PaidOrdersShowPaid; a confirmed order is on no
\* timeline and staff did not set it.
LEMMA WebhookStep ==
    ASSUME IInv, NEW r \in Requests, WebhookCommits(r)
    PROVE  IInv'
<1> DEFINE p == req[r].about
           o == payments[p].order
           row == req[r].row
           change == PaidRow(row)
<1>1. /\ TypeInv /\ RowsBelong
      /\ req[r].at = "writing" /\ task[r] = "webhook"
      /\ UNCHANGED <<history, shipments, quotes, audited, queue, task>>
      /\ payments' = [payments EXCEPT ![p].status = "paid"]
      /\ Save(o, row, change)
      /\ committed \subseteq committed'
      /\ Show(r, 200, None)
  BY DEF IInv, WebhookCommits, Finish
<1>2. IsPayment(p) /\ Sees(o, row)
  BY <1>1 DEF IInv, Intends, Plans
<1>3. /\ change \in Rows /\ change.payment = "paid" /\ change.user = row.user
      /\ change.quote = row.quote
      /\ change.status = row.status \/ change.status \notin SetByStaff
  BY <1>2 DEF Sees, Rows, PaidRow, Statuses, SetByStaff
<1>4. /\ p \in Requests /\ payments[p] \in PaymentRows
      /\ payments' \in [Requests -> PaymentRows \cup {None}]
      /\ \A x \in Requests \ {p} : payments'[x] = payments[x]
      /\ payments'[p] \in PaymentRows /\ payments'[p].order = o /\ payments'[p].status = "paid"
      /\ payments'[p] # None
  BY <1>1, <1>2, NoneAssumption, ZenonT(30) DEF TypeInv, IsPayment, PaymentRows
<1> HIDE DEF p, o, row, change
<1>5. SaveOf(o, row, change)
  BY <1>1, <1>2, <1>3 DEF SaveOf
<1>6. /\ o \in AllOrders /\ o \in Placed
      /\ orders' \in [AllOrders -> Rows \cup {None}]
      /\ \A x \in AllOrders : orders'[x] = IF x = o THEN change ELSE orders[x]
      /\ Placed' = Placed
      /\ \A x \in Placed : /\ orders'[x].user = orders[x].user
                           /\ SameQuote(orders[x].quote, orders'[x].quote, edited)
      /\ raced' \in SUBSET (AllOrders \cup Quotes)
      /\ raced \subseteq raced'
      /\ o \notin raced' => orders[o] = row
      /\ edited' = edited /\ MadeSame
  BY <1>1, <1>5, SaveKeepsOrders
<1>7. /\ DOMAIN req' = Requests
      /\ \A s \in Requests \ {r} : req'[s] = req[s]
      /\ req'[r].at = "done" /\ req'[r].answer = 200
  BY <1>1, ShowEffect DEF TypeInv
<1>8. o = payments[p].order
  BY DEF o
<1>9. Carried(r)
  <2>1. \A x \in Requests : payments[x] # None =>
            payments'[x] # None /\ payments'[x].order = payments[x].order
    BY <1>4, <1>8
  <2>2. \A x \in Requests : /\ orders[x] = None => orders'[x] = None
                            /\ payments[x] = None => payments'[x] = None
    BY <1>2, <1>4, <1>6 DEF IsPayment, Placed, AllOrders
  <2> QED BY <1>1, <1>6, <1>7, <2>1, <2>2 DEF Carried
<1>10. TypeInv'
  <2>1. \A s \in Requests : req'[s].at \in Busy \cup {"new", "done"} /\ req'[s].answer \in Codes
    <3>1. \A s \in Requests \ {r} : req'[s].at \in Busy \cup {"new", "done"} /\ req'[s].answer \in Codes
      BY <1>1, <1>7 DEF TypeInv
    <3>2. req'[r].at = "done" /\ req'[r].answer \in Codes
      BY <1>7 DEF Codes
    <3> QED BY <3>1, <3>2
  <2> QED BY <1>1, <1>4, <1>6, <1>7, <2>1 DEF TypeInv
<1>11. RowsBelong'
  <2>1. \A x \in Requests : payments'[x] # None =>
            payments'[x].order \in Placed' /\ orders'[payments'[x].order].user
    <3>1. \A x \in Requests : payments[x] # None =>
              payments[x].order \in Placed' /\ orders'[payments[x].order].user
      BY <1>1, <1>6 DEF RowsBelong
    <3> QED BY <1>2, <1>4, <1>8, <3>1 DEF IsPayment
  <2> QED BY <1>1, <1>6, <2>1 DEF RowsBelong
<1>12. Intends(r)' /\ OwnRows(r)'
  BY <1>7 DEF Intends, Plans, OwnRows
<1>13. Answered(r)'
  BY <1>1, <1>7 DEF Answered
<1>14. PaidOrdersShowPaid'
  <2> SUFFICES ASSUME NEW x \in Placed, x \notin raced', <<"payments", x>> \notin edited'
               PROVE  orders'[x].payment = "paid" <=>
                        \E y \in PaymentsOf(x)' : payments'[y].status = "paid"
    BY <1>6 DEF PaidOrdersShowPaid
  <2>1. CASE x = o
    <3>1. p \in PaymentsOf(x)' /\ payments'[p].status = "paid"
      BY <1>4, <2>1 DEF PaymentsOf
    <3>2. orders'[x].payment = "paid"
      BY <1>3, <1>6, <2>1
    <3> QED BY <3>1, <3>2
  <2>2. CASE x # o
    <3>1. orders'[x] = orders[x]
      BY <1>6, <2>2 DEF Placed
    <3>2. \A y \in Requests : y \in PaymentsOf(x)' <=> y \in PaymentsOf(x)
      BY <1>4, <1>8, <2>2 DEF PaymentsOf
    <3>3. \A y \in PaymentsOf(x) : y \in Requests /\ payments'[y] = payments[y]
      BY <1>4, <1>8, <2>2 DEF PaymentsOf
    <3>4. PaymentsOf(x)' = PaymentsOf(x)
      BY <3>2 DEF PaymentsOf
    <3>5. orders[x].payment = "paid" <=> \E y \in PaymentsOf(x) : payments[y].status = "paid"
      BY <1>6 DEF IInv, PaidOrdersShowPaid
    <3> QED BY <3>1, <3>3, <3>4, <3>5
  <2> QED BY <2>1, <2>2
<1>15. Timelines'
  <2>1. ASSUME NEW x \in Placed
        PROVE  /\ <<"status", x>> \notin edited /\ orders'[x].status \in SetByStaff =>
                    Contains(history'[x], orders'[x].status)
               /\ x \notin raced' /\ <<"status", x>> \notin edited /\ orders'[x].status \in SetByStaff =>
                    history'[x] # <<>> /\ Last(history'[x]) = orders'[x].status
    <3>1. CASE x = o
      <4>1. change.status \in SetByStaff => change.status = row.status
        BY <1>3
      <4>2. <<"status", o>> \notin edited /\ row.status \in SetByStaff => Contains(history[o], row.status)
        BY <1>2 DEF Sees, OnTimeline
      <4>3. x \notin raced' /\ <<"status", o>> \notin edited /\ row.status \in SetByStaff =>
                history[o] # <<>> /\ Last(history[o]) = row.status
        BY <1>6, <3>1 DEF IInv, Timelines
      <4> QED BY <1>1, <1>6, <3>1, <4>1, <4>2, <4>3
    <3>2. CASE x # o
      <4>1. x \in AllOrders /\ orders'[x] = orders[x] /\ history'[x] = history[x]
        BY <1>1, <1>6, <3>2 DEF Placed
      <4> QED BY <1>6, <4>1 DEF IInv, Timelines, OnTimeline
    <3> QED BY <3>1, <3>2
  <2> QED BY <1>6, <2>1 DEF Timelines, OnTimeline
<1>16. QuotesMatch'
  BY <1>1, <1>6 DEF IInv, QuotesMatch, MadeSame
<1>17. ToldWhatHappened'
  BY <1>1 DEF IInv, ToldWhatHappened
<1> QED BY <1>9, <1>10, <1>11, <1>12, <1>13, <1>14, <1>15, <1>16, <1>17, StepByParts
-----------------------------------------------------------------------------
\* The order that checkout and _convert create is nobody's yet.
LEMMA NewOrder ==
    ASSUME TypeInv, NEW r \in Requests, orders[r] = None, NEW row \in Rows,
           orders' = [orders EXCEPT ![r] = row]
    PROVE  /\ r \in AllOrders /\ r \notin Placed
           /\ orders' \in [AllOrders -> Rows \cup {None}]
           /\ \A x \in AllOrders : orders'[x] = IF x = r THEN row ELSE orders[x]
           /\ Placed' = Placed \cup {r}
           /\ \A x \in Placed : x # r /\ orders'[x] = orders[x]
           /\ \A s \in Requests \ {r} : orders[s] = None => orders'[s] = None
           /\ \A q : MadeOf(q)' = IF row.quote = q THEN MadeOf(q) \cup {r} ELSE MadeOf(q)
<1>1. /\ orders \in [AllOrders -> Rows \cup {None}]
      /\ Requests \subseteq AllOrders /\ r \in AllOrders /\ r \notin Placed
  BY DEF TypeInv, AllOrders, Placed
<1>2. /\ orders' \in [AllOrders -> Rows \cup {None}]
      /\ \A x \in AllOrders : orders'[x] = IF x = r THEN row ELSE orders[x]
  BY <1>1
<1>3. Placed' = Placed \cup {r}
  BY <1>1, <1>2, NoneAssumption DEF Placed
<1>4. \A x \in Placed : x # r /\ orders'[x] = orders[x]
  BY <1>1, <1>2 DEF Placed
<1>5. \A q : MadeOf(q)' = IF row.quote = q THEN MadeOf(q) \cup {r} ELSE MadeOf(q)
  BY <1>1, <1>2, <1>3, <1>4 DEF MadeOf
<1> QED BY <1>1, <1>2, <1>3, <1>4, <1>5

\* checkout: the order starts unpaid and with no payment, from no quote, and its
\* timeline is new.
LEMMA CheckoutStep ==
    ASSUME IInv, NEW r \in Requests, Checkout(r)
    PROVE  IInv'
<1> DEFINE row == Row("pending", "pending", TRUE, None)
           c == Change(r, r, None, "pending")
<1>1. /\ TypeInv /\ RowsBelong
      /\ req[r].at = "new" /\ task[r] = "checkout"
      /\ UNCHANGED <<payments, shipments, quotes, queue, task, raced, edited>>
      /\ orders' = [orders EXCEPT ![r] = row]
      /\ history' = [history EXCEPT ![r] = <<"pending">>]
      /\ committed' = committed \cup {c} /\ audited' = audited \cup {c}
      /\ Go(r, "telling", r, orders'[r], "pending")
  BY DEF IInv, Checkout, Takes, marks
<1>2. /\ row \in Rows /\ row.status = "pending" /\ row.payment = "pending" /\ row.quote = None
      /\ row.user
  BY DEF Row, Rows, Statuses
<1>3. orders[r] = None
  BY <1>1 DEF IInv, OwnRows
<1> HIDE DEF row
<1>4. /\ r \in AllOrders /\ r \notin Placed
      /\ orders' \in [AllOrders -> Rows \cup {None}]
      /\ \A x \in AllOrders : orders'[x] = IF x = r THEN row ELSE orders[x]
      /\ Placed' = Placed \cup {r}
      /\ \A x \in Placed : x # r /\ orders'[x] = orders[x]
      /\ \A s \in Requests \ {r} : orders[s] = None => orders'[s] = None
      /\ \A q : MadeOf(q)' = IF row.quote = q THEN MadeOf(q) \cup {r} ELSE MadeOf(q)
  BY <1>1, <1>2, <1>3, NewOrder
<1>5. /\ DOMAIN req' = Requests
      /\ \A s \in Requests \ {r} : req'[s] = req[s]
      /\ req'[r].at = "telling" /\ req'[r].about = r /\ req'[r].to = "pending"
      /\ req'[r].answer = 0
  BY <1>1, GoEffect DEF TypeInv
<1>6. /\ history' \in [AllOrders -> Seq(Statuses)]
      /\ \A x \in Placed : history'[x] = history[x]
  <2>1. <<"pending">> \in Seq(Statuses)
    BY DEF Statuses
  <2> QED BY <1>1, <1>4, <2>1 DEF TypeInv, Placed
<1>7. Carried(r)
  <2>1. \A o \in Placed : \A s : Contains(history[o], s) => Contains(history'[o], s)
    BY <1>6
  <2>2. \A p \in Requests : payments'[p] = payments[p]
    BY <1>1
  <2> QED BY <1>1, <1>4, <1>5, <2>1, <2>2 DEF Carried, SameQuote
<1>8. TypeInv'
  <2>1. \A s \in Requests : req'[s].at \in Busy \cup {"new", "done"} /\ req'[s].answer \in Codes
    <3>1. \A s \in Requests \ {r} : req'[s].at \in Busy \cup {"new", "done"} /\ req'[s].answer \in Codes
      BY <1>1, <1>5 DEF TypeInv
    <3>2. req'[r].at \in Busy /\ req'[r].answer \in Codes
      BY <1>5 DEF Codes, Busy
    <3> QED BY <3>1, <3>2
  <2> QED BY <1>1, <1>4, <1>5, <1>6, <2>1 DEF TypeInv
<1>9. RowsBelong'
  BY <1>1, <1>4 DEF RowsBelong
<1>10. Intends(r)'
  BY <1>1, <1>5 DEF Intends, Plans
<1>11. OwnRows(r)' /\ Answered(r)'
  BY <1>1, <1>5 DEF OwnRows, Answered
<1>12. PaidOrdersShowPaid'
  <2>1. \A x \in Placed \ raced : <<"payments", x>> \notin edited =>
            (orders'[x].payment = "paid" <=> \E p \in PaymentsOf(x)' : payments'[p].status = "paid")
    BY <1>1, <1>4 DEF IInv, PaidOrdersShowPaid, PaymentsOf
  <2>2. orders'[r].payment # "paid" /\ PaymentsOf(r)' = {}
    BY <1>1, <1>2, <1>4 DEF RowsBelong, PaymentsOf
  <2> QED BY <1>1, <1>4, <2>1, <2>2 DEF PaidOrdersShowPaid
<1>13. Timelines'
  <2>1. orders'[r].status \notin SetByStaff
    BY <1>2, <1>4 DEF SetByStaff
  <2> QED BY <1>1, <1>4, <1>6, <2>1 DEF IInv, Timelines, OnTimeline
<1>14. QuotesMatch'
  BY <1>1, <1>2, <1>4, NoneAssumption DEF IInv, QuotesMatch
<1>15. ToldWhatHappened'
  BY <1>1 DEF IInv, ToldWhatHappened
<1> QED BY <1>7, <1>8, <1>9, <1>10, <1>11, <1>12, <1>13, <1>14, <1>15, StepByParts

\* _convert: a quote that was read as not converted and is not raced is not
\* converted still, so that the order is its first.
LEMMA ConvertStep ==
    ASSUME IInv, NEW r \in Requests, ConvertCommits(r)
    PROVE  IInv'
<1> DEFINE quote == req[r].about
           row == Row("confirmed", None, FALSE, quote)
<1>1. /\ TypeInv /\ RowsBelong
      /\ req[r].at = "writing" /\ task[r] = "convert"
      /\ UNCHANGED <<history, payments, shipments, audited, queue, committed, task, edited>>
      /\ orders' = [orders EXCEPT ![r] = row]
      /\ quotes' = [quotes EXCEPT ![quote] = "converted"]
      /\ raced' = IF quotes[quote] = req[r].row THEN raced ELSE raced \cup {quote}
      /\ Go(r, "auditing", quote, req[r].row, "converted")
  BY DEF IInv, ConvertCommits, logs
<1>2. quote \in Quotes /\ req[r].row \notin NotConvertible /\ orders[r] = None
  BY <1>1 DEF IInv, Intends, Plans, OwnRows
<1>3. row \in Rows /\ row.status = "confirmed" /\ row.payment = None /\ row.quote = quote
  BY <1>2 DEF Row, Rows, Statuses
<1> HIDE DEF quote, row
<1>4. /\ r \in AllOrders /\ r \notin Placed
      /\ orders' \in [AllOrders -> Rows \cup {None}]
      /\ \A x \in AllOrders : orders'[x] = IF x = r THEN row ELSE orders[x]
      /\ Placed' = Placed \cup {r}
      /\ \A x \in Placed : x # r /\ orders'[x] = orders[x]
      /\ \A s \in Requests \ {r} : orders[s] = None => orders'[s] = None
      /\ \A q : MadeOf(q)' = IF row.quote = q THEN MadeOf(q) \cup {r} ELSE MadeOf(q)
  BY <1>1, <1>2, <1>3, NewOrder
<1>5. /\ DOMAIN req' = Requests
      /\ \A s \in Requests \ {r} : req'[s] = req[s]
      /\ req'[r].at = "auditing" /\ req'[r].answer = 0
  BY <1>1, GoEffect DEF TypeInv
<1>6. /\ quotes' \in [Quotes -> QuoteStatuses]
      /\ \A q \in Quotes : quotes'[q] = IF q = quote THEN "converted" ELSE quotes[q]
      /\ raced \subseteq raced' /\ raced' \in SUBSET (AllOrders \cup Quotes)
      /\ quote \notin raced' => quotes[quote] = req[r].row
  BY <1>1, <1>2 DEF TypeInv, QuoteStatuses
<1>7. Carried(r)
  <2>1. \A o \in Placed : \A s : Contains(history[o], s) => Contains(history'[o], s)
    BY <1>1
  <2>2. \A p \in Requests : payments'[p] = payments[p]
    BY <1>1
  <2> QED BY <1>1, <1>4, <1>5, <2>1, <2>2 DEF Carried, SameQuote
<1>8. TypeInv'
  <2>1. \A s \in Requests : req'[s].at \in Busy \cup {"new", "done"} /\ req'[s].answer \in Codes
    <3>1. \A s \in Requests \ {r} : req'[s].at \in Busy \cup {"new", "done"} /\ req'[s].answer \in Codes
      BY <1>1, <1>5 DEF TypeInv
    <3>2. req'[r].at \in Busy /\ req'[r].answer \in Codes
      BY <1>5 DEF Codes, Busy
    <3> QED BY <3>1, <3>2
  <2> QED BY <1>1, <1>4, <1>5, <1>6, <2>1 DEF TypeInv
<1>9. RowsBelong'
  BY <1>1, <1>4, <1>6 DEF RowsBelong
<1>10. Intends(r)'
  BY <1>1, <1>5 DEF Intends, Plans, Edits
<1>11. OwnRows(r)' /\ Answered(r)'
  BY <1>1, <1>5 DEF OwnRows, Answered
<1>12. PaidOrdersShowPaid'
  <2>1. \A x \in Placed \ raced : <<"payments", x>> \notin edited =>
            (orders'[x].payment = "paid" <=> \E p \in PaymentsOf(x)' : payments'[p].status = "paid")
    BY <1>1, <1>4 DEF IInv, PaidOrdersShowPaid, PaymentsOf
  <2>2. orders'[r].payment # "paid" /\ PaymentsOf(r)' = {}
    BY <1>1, <1>3, <1>4, NoneAssumption DEF RowsBelong, PaymentsOf
  <2> QED BY <1>1, <1>4, <1>6, <2>1, <2>2 DEF PaidOrdersShowPaid
<1>13. Timelines'
  <2>1. orders'[r].status \notin SetByStaff
    BY <1>3, <1>4 DEF SetByStaff
  <2> QED BY <1>1, <1>4, <1>6, <2>1 DEF IInv, Timelines, OnTimeline
<1>14. QuotesMatch'
  <2> SUFFICES ASSUME NEW q \in Quotes, q \notin raced', <<"conversion", q>> \notin edited
               PROVE  IF quotes'[q] = "converted" /\ QuoteStatus[q] # "converted"
                      THEN \E o \in Placed' : MadeOf(q)' = {o}
                      ELSE MadeOf(q)' = {}
    BY <1>1 DEF QuotesMatch
  <2>1. IF quotes[q] = "converted" /\ QuoteStatus[q] # "converted"
        THEN \E o \in Placed : MadeOf(q) = {o}
        ELSE MadeOf(q) = {}
    BY <1>6 DEF IInv, QuotesMatch
  <2>2. CASE q = quote
    <3>1. quotes[q] # "converted" /\ quotes'[q] = "converted"
      BY <1>2, <1>6, <2>2 DEF NotConvertible
    <3>2. QuoteStatus[q] # "converted"
      BY <1>1, <3>1 DEF RowsBelong
    <3>3. MadeOf(q)' = {r}
      BY <1>3, <1>4, <2>1, <2>2, <3>1
    <3> QED BY <1>4, <3>1, <3>2, <3>3
  <2>3. CASE q # quote
    BY <1>3, <1>4, <1>6, <2>1, <2>3
  <2> QED BY <2>2, <2>3
<1>15. ToldWhatHappened'
  BY <1>1 DEF IInv, ToldWhatHappened
<1> QED BY <1>7, <1>8, <1>9, <1>10, <1>11, <1>12, <1>13, <1>14, <1>15, StepByParts

\* record_payment: the payment starts as pending, so that it makes no order paid.
LEMMA PayStep ==
    ASSUME IInv, NEW r \in Requests, PayCommits(r)
    PROVE  IInv'
<1> DEFINE payment == Payment(req[r].about, req[r].to)
<1>1. /\ TypeInv /\ RowsBelong
      /\ req[r].at = "writing" /\ task[r] = "pay"
      /\ UNCHANGED <<orders, history, shipments, quotes, audited, queue, committed, task, raced, edited>>
      /\ payments' = [payments EXCEPT ![r] = payment]
      /\ Go(r, "showing", req[r].about, None, r)
  BY DEF IInv, PayCommits, logs, marks
<1>2. /\ req[r].about \in Placed /\ orders[req[r].about].user /\ req[r].to \in References
      /\ payments[r] = None
  BY <1>1 DEF IInv, Intends, Plans, OwnRows
<1>3. /\ payment \in PaymentRows /\ payment.order = req[r].about /\ payment.status = "pending"
      /\ payment # None
  <2>1. payment \in PaymentRows /\ payment.order = req[r].about /\ payment.status = "pending"
    BY <1>2 DEF Payment, PaymentRows, Placed
  <2> QED BY <2>1, NoneAssumption
<1> HIDE DEF payment
<1>4. /\ payments' \in [Requests -> PaymentRows \cup {None}]
      /\ payments'[r] = payment
      /\ \A p \in Requests \ {r} : payments'[p] = payments[p]
  BY <1>1, <1>3 DEF TypeInv
<1>5. /\ DOMAIN req' = Requests
      /\ \A s \in Requests \ {r} : req'[s] = req[s]
      /\ req'[r].at = "showing" /\ req'[r].answer = 0
  BY <1>1, GoEffect DEF TypeInv
<1>6. Placed' = Placed
  BY <1>1 DEF Placed
<1>7. Carried(r)
  BY <1>1, <1>2, <1>4, <1>5, <1>6 DEF Carried, SameQuote
<1>8. TypeInv'
  <2>1. \A s \in Requests : req'[s].at \in Busy \cup {"new", "done"} /\ req'[s].answer \in Codes
    <3>1. \A s \in Requests \ {r} : req'[s].at \in Busy \cup {"new", "done"} /\ req'[s].answer \in Codes
      BY <1>1, <1>5 DEF TypeInv
    <3>2. req'[r].at \in Busy /\ req'[r].answer \in Codes
      BY <1>5 DEF Codes, Busy
    <3> QED BY <3>1, <3>2
  <2> QED BY <1>1, <1>4, <1>5, <2>1 DEF TypeInv
<1>9. RowsBelong'
  BY <1>1, <1>2, <1>3, <1>4, <1>6 DEF RowsBelong
<1>10. Intends(r)' /\ OwnRows(r)' /\ Answered(r)'
  BY <1>1, <1>5 DEF Intends, Plans, OwnRows, Answered
<1>11. PaidOrdersShowPaid'
  BY <1>1, <1>2, <1>3, <1>4, <1>6 DEF IInv, PaidOrdersShowPaid, PaymentsOf
<1>12. Timelines' /\ QuotesMatch' /\ ToldWhatHappened'
  BY <1>1, <1>6 DEF IInv, Timelines, OnTimeline, QuotesMatch, MadeOf, ToldWhatHappened
<1> QED BY <1>7, <1>8, <1>9, <1>10, <1>11, <1>12, StepByParts
-----------------------------------------------------------------------------
\* The audit records of staff's changes: of an order's status after its commit,
\* of a conversion whatever is said.
LEMMA AuditStep ==
    ASSUME IInv, NEW r \in Requests, MoveAudits(r) \/ ConvertAudits(r)
    PROVE  IInv'
<1>1. /\ TypeInv /\ UNCHANGED <<tables, queue, committed, task, marks>>
      /\ req[r].at = "auditing" /\ task[r] \in {"move", "convert"}
  BY DEF IInv, MoveAudits, ConvertAudits
<1>2. PICK c : /\ audited' = audited \cup {c} /\ c.by = r
               /\ task[r] = "move" => /\ c = Change(r, req[r].about, req[r].row.status, req[r].to)
                                      /\ Go(r, "telling", req[r].about, req[r].row, req[r].to)
               /\ task[r] = "convert" => UNCHANGED req \/ Finish(r, 201)
  <2>1. CASE MoveAudits(r)
    <3>1. Change(r, req[r].about, req[r].row.status, req[r].to).by = r
      BY DEF Change
    <3> QED BY <2>1, <3>1 DEF MoveAudits
  <2>2. CASE ConvertAudits(r)
    <3>1. /\ Change(r, r, None, "confirmed").by = r
          /\ Change(r, req[r].about, req[r].row, "converted").by = r
      BY DEF Change
    <3> QED BY <2>2, <3>1 DEF ConvertAudits
  <2> QED BY <2>1, <2>2
<1>3. task[r] = "move" => c \in committed
  BY <1>1, <1>2 DEF IInv, Intends, Plans
<1>4. /\ DOMAIN req' = Requests
      /\ \A s \in Requests \ {r} : req'[s] = req[s]
      /\ task[r] = "move" =>
           /\ req'[r].at = "telling" /\ req'[r].about = req[r].about /\ req'[r].row = req[r].row
           /\ req'[r].to = req[r].to /\ req'[r].answer = 0
      /\ task[r] = "convert" => \/ req' = req
                                \/ req'[r].at = "done" /\ req'[r].answer = 201
  <2>1. CASE task[r] = "move"
    BY <1>1, <1>2, <2>1, GoEffect DEF TypeInv
  <2>2. CASE task[r] = "convert" /\ UNCHANGED req
    BY <1>1, <2>2 DEF TypeInv
  <2>3. CASE task[r] = "convert" /\ Finish(r, 201)
    BY <1>1, <2>3, ShowEffect DEF TypeInv, Finish
  <2> QED BY <1>1, <1>2, <2>1, <2>2, <2>3
<1>5. req'[r].at \in Busy \cup {"new", "done"} /\ req'[r].answer \in Codes
  <2>1. req[r].at \in Busy \cup {"new", "done"} /\ req[r].answer \in Codes
    BY <1>1 DEF TypeInv
  <2>2. CASE task[r] = "move"
    BY <1>4, <2>2, ZenonT(30) DEF Busy, Codes
  <2>3. CASE task[r] = "convert"
    BY <1>4, <2>1, <2>3 DEF Codes
  <2> QED BY <1>1, <2>2, <2>3
<1>6. /\ Carried(r) /\ TypeInv' /\ RowsBelong'
      /\ PaidOrdersShowPaid' /\ Timelines' /\ QuotesMatch'
  BY <1>1, <1>2, <1>4, <1>5, QuietTables
<1>7. Intends(r)' /\ OwnRows(r)' /\ Answered(r)'
  <2>1. Intends(r)'
    BY <1>1, <1>2, <1>3, <1>4 DEF Intends, Plans, Edits
  <2>2. OwnRows(r)'
    BY <1>1, <1>4 DEF OwnRows
  <2>3. Answered(r)'
    <3>1. Answered(r)
      BY DEF IInv
    <3> QED BY <1>1, <1>4, <3>1 DEF Answered
  <2> QED BY <2>1, <2>2, <2>3
<1>8. ToldWhatHappened'
  BY <1>1, <1>2, <1>3 DEF IInv, ToldWhatHappened
<1> QED BY <1>6, <1>7, <1>8, StepByParts

\* The customer is told of a change that is committed and audited.
LEMMA TellStep ==
    ASSUME IInv, NEW r \in Requests, Tell(r)
    PROVE  IInv'
<1> DEFINE c == Change(r, req[r].about, IF task[r] = "checkout" THEN None ELSE req[r].row.status,
                       req[r].to)
<1>1. /\ TypeInv /\ UNCHANGED <<tables, audited, committed, task, marks>>
      /\ req[r].at = "telling"
      /\ Finish(r, IF task[r] = "checkout" THEN 201 ELSE 200)
      /\ \E sent \in SUBSET {c} : queue' = queue \cup sent
  BY DEF IInv, Tell
<1>2. c \in committed /\ c \in audited
  BY <1>1 DEF IInv, Intends, Plans
<1> HIDE DEF c
<1>3. ToldWhatHappened'
  BY <1>1, <1>2 DEF IInv, ToldWhatHappened
<1>4. task[r] \notin {"list", "view"}
  BY <1>1 DEF IInv, Intends, Plans
<1>5. /\ DOMAIN req' = Requests
      /\ \A s \in Requests \ {r} : req'[s] = req[s]
      /\ req'[r].at = "done" /\ req'[r].answer \in Codes
  BY <1>1, ShowEffect DEF TypeInv, Finish, Codes
<1>6. /\ Carried(r) /\ TypeInv' /\ RowsBelong'
      /\ PaidOrdersShowPaid' /\ Timelines' /\ QuotesMatch'
  BY <1>1, <1>5, QuietTables
<1>7. Intends(r)' /\ OwnRows(r)' /\ Answered(r)'
  BY <1>1, <1>4, <1>5 DEF Intends, Plans, OwnRows, Answered
<1> QED BY <1>3, <1>6, <1>7, StepByParts
-----------------------------------------------------------------------------
\* update_resource: whatever row was read for the audit, the columns go into the
\* row there is, and what they may belie is marked.
LEMMA EditEffect ==
    ASSUME IInv, NEW r \in Requests, NEW new, NEW marked \in SUBSET Marks, EditsRow(r, new, marked),
           req[r].at = "writing", task[r] \in Edits
    PROVE  /\ UNCHANGED <<history, shipments, audited, queue, task, raced>>
           /\ edited \subseteq edited' /\ marked \subseteq edited' /\ edited' \in SUBSET Marks
           /\ DOMAIN req' = Requests
           /\ \A s \in Requests \ {r} : req'[s] = req[s]
           /\ committed \subseteq committed'
           /\ \A s \in Requests : req'[s].at \in Busy \cup {"new", "done"} /\ req'[s].answer \in Codes
           /\ Intends(r)' /\ OwnRows(r)' /\ Answered(r)' /\ ToldWhatHappened'
<1>1. /\ UNCHANGED <<history, shipments, audited, queue, task, raced>>
      /\ committed' = committed \cup {Change(r, req[r].about, req[r].row.status, new.status)}
      /\ edited' = edited \cup marked
      /\ Go(r, "auditing", req[r].about, req[r].row, new)
  BY DEF EditsRow
<1>2. edited \subseteq edited' /\ marked \subseteq edited' /\ edited' \in SUBSET Marks
  BY <1>1 DEF IInv, TypeInv
<1>3. /\ DOMAIN req' = Requests
      /\ \A s \in Requests \ {r} : req'[s] = req[s]
      /\ req'[r].at = "auditing" /\ req'[r].about = req[r].about /\ req'[r].row = req[r].row
      /\ req'[r].to = new /\ req'[r].answer = 0
  BY <1>1, GoEffect DEF IInv, TypeInv
<1>4. \A s \in Requests : req'[s].at \in Busy \cup {"new", "done"} /\ req'[s].answer \in Codes
  <2>1. \A s \in Requests \ {r} : req'[s].at \in Busy \cup {"new", "done"} /\ req'[s].answer \in Codes
    BY <1>3 DEF IInv, TypeInv
  <2>2. req'[r].at \in Busy /\ req'[r].answer \in Codes
    BY <1>3 DEF Busy, Codes
  <2> QED BY <2>1, <2>2
<1>5. Intends(r)'
  <2>1. EditOf(r, req'[r].about, req'[r].row, req'[r].to) \in committed'
    BY <1>1, <1>3 DEF EditOf
  <2> QED BY <1>1, <1>3, <2>1 DEF Intends, Plans, Edits
<1>6. OwnRows(r)' /\ Answered(r)'
  BY <1>3 DEF OwnRows, Answered
<1>7. ToldWhatHappened'
  BY <1>1 DEF IInv, ToldWhatHappened
<1> QED BY <1>1, <1>2, <1>3, <1>4, <1>5, <1>6, <1>7

LEMMA EditOrderStep ==
    ASSUME IInv, NEW r \in Requests, EditOrderCommits(r)
    PROVE  IInv'
<1> DEFINE o == req[r].about
           to == req[r].to
           new == Edited(orders[o], to)
           marked == IF to \in Statuses THEN {<<"status", o>>}
                     ELSE {"conversion"} \X ({orders[o].quote, to} \ {None})
<1>1. /\ TypeInv /\ RowsBelong
      /\ req[r].at = "writing" /\ task[r] = "edit order"
      /\ orders' = [orders EXCEPT ![o] = new] /\ EditsRow(r, new, marked)
      /\ UNCHANGED <<payments, quotes>>
  BY DEF IInv, EditOrderCommits
<1>2. o \in Placed /\ to \in Statuses \cup Quotes \cup {None}
  BY <1>1 DEF IInv, Intends, Plans, CanEdit, Edits
<1>3. o \in AllOrders /\ orders[o] \in Rows
  BY <1>1, <1>2 DEF TypeInv, Placed
<1>4. /\ new \in Rows /\ new.user = orders[o].user /\ new.payment = orders[o].payment
      /\ to \in Statuses => new.quote = orders[o].quote
      /\ to \notin Statuses => new.quote = to /\ new.status = orders[o].status
  <2>1. CASE to \in Statuses
    BY <1>3, <2>1 DEF Edited, Rows
  <2>2. CASE to \notin Statuses
    BY <1>2, <1>3, <2>2 DEF Edited, Rows
  <2> QED BY <2>1, <2>2
<1>5. marked \in SUBSET Marks
  <2>1. orders[o].quote \in Quotes \cup {None}
    BY <1>3 DEF Rows
  <2>2. {orders[o].quote, to} \ {None} \subseteq Quotes \/ to \in Statuses
    BY <1>2, <2>1
  <2> QED BY <1>3, <2>2 DEF Marks
<1>6. to \in Statuses => <<"status", o>> \in marked
  OBVIOUS
<1>7. to \notin Statuses => \A q \in {orders[o].quote, to} \ {None} : <<"conversion", q>> \in marked
  OBVIOUS
<1> HIDE DEF o, to, new, marked
<1>8. /\ UNCHANGED <<history, shipments, audited, queue, task, raced>>
      /\ edited \subseteq edited' /\ marked \subseteq edited' /\ edited' \in SUBSET Marks
      /\ DOMAIN req' = Requests
      /\ \A s \in Requests \ {r} : req'[s] = req[s]
      /\ committed \subseteq committed'
      /\ \A s \in Requests : req'[s].at \in Busy \cup {"new", "done"} /\ req'[s].answer \in Codes
      /\ Intends(r)' /\ OwnRows(r)' /\ Answered(r)' /\ ToldWhatHappened'
  BY <1>1, <1>5, EditEffect DEF Edits
<1>9. /\ orders' \in [AllOrders -> Rows \cup {None}]
      /\ \A x \in AllOrders : orders'[x] = IF x = o THEN new ELSE orders[x]
  BY <1>1, <1>3, <1>4 DEF TypeInv
<1>10. Placed' = Placed
  BY <1>2, <1>4, <1>9, NoneAssumption DEF Placed
<1>11. \A x \in Placed : /\ orders'[x].user = orders[x].user
                        /\ orders'[x].payment = orders[x].payment
                        /\ SameQuote(orders[x].quote, orders'[x].quote, edited')
  <2> SUFFICES ASSUME NEW x \in Placed
               PROVE  /\ orders'[x].user = orders[x].user
                      /\ orders'[x].payment = orders[x].payment
                      /\ SameQuote(orders[x].quote, orders'[x].quote, edited')
    OBVIOUS
  <2>1. x \in AllOrders
    BY DEF Placed
  <2>2. CASE x = o
    BY <1>4, <1>7, <1>8, <1>9, <2>1, <2>2 DEF SameQuote
  <2>3. CASE x # o
    BY <1>9, <2>1, <2>3 DEF SameQuote
  <2> QED BY <2>2, <2>3
<1>12. Carried(r)
  <2>1. \A x \in AllOrders : orders[x] = None => orders'[x] = None
    BY <1>2, <1>9 DEF Placed
  <2>2. \A s \in Requests : orders[s] = None => orders'[s] = None
    BY <2>1 DEF AllOrders
  <2> QED BY <1>1, <1>8, <1>10, <1>11, <2>2 DEF Carried
<1>13. TypeInv'
  BY <1>1, <1>8, <1>9 DEF TypeInv
<1>14. RowsBelong'
  BY <1>1, <1>8, <1>10, <1>11 DEF RowsBelong
<1>15. PaidOrdersShowPaid'
  <2>1. \A x : PaymentsOf(x)' = PaymentsOf(x)
    BY <1>1 DEF PaymentsOf
  <2> QED BY <1>1, <1>8, <1>10, <1>11, <2>1, ZenonT(30) DEF IInv, PaidOrdersShowPaid
<1>16. Timelines'
  <2> SUFFICES ASSUME NEW x \in Placed, <<"status", x>> \notin edited', orders'[x].status \in SetByStaff
               PROVE  /\ Contains(history[x], orders'[x].status)
                      /\ x \notin raced => history[x] # <<>> /\ Last(history[x]) = orders'[x].status
    BY <1>8, <1>10 DEF Timelines, OnTimeline
  <2>1. orders'[x].status = orders[x].status
    <3>1. x \in AllOrders
      BY DEF Placed
    <3>2. CASE x = o
      BY <1>4, <1>6, <1>8, <1>9, <3>1, <3>2
    <3>3. CASE x # o
      BY <1>9, <3>1, <3>3
    <3> QED BY <3>2, <3>3
  <2> QED BY <1>8, <2>1 DEF IInv, Timelines, OnTimeline
<1>17. QuotesMatch'
  <2> SUFFICES ASSUME NEW q \in Quotes, <<"conversion", q>> \notin edited' PROVE MadeOf(q)' = MadeOf(q)
    BY <1>1, <1>8, <1>10 DEF IInv, QuotesMatch
  <2>1. \A x \in Placed : orders'[x].quote = q <=> orders[x].quote = q
    BY <1>11, NoneAssumption DEF SameQuote
  <2> QED BY <1>10, <2>1 DEF MadeOf
<1> QED BY <1>8, <1>12, <1>13, <1>14, <1>15, <1>16, <1>17, StepByParts

LEMMA EditPaymentStep ==
    ASSUME IInv, NEW r \in Requests, EditPaymentCommits(r)
    PROVE  IInv'
<1> DEFINE p == req[r].about
           new == [payments[p] EXCEPT !.status = req[r].to]
           marked == {<<"payments", new.order>>}
<1>1. /\ TypeInv /\ RowsBelong
      /\ req[r].at = "writing" /\ task[r] = "edit payment"
      /\ payments' = [payments EXCEPT ![p] = new] /\ EditsRow(r, new, marked)
      /\ UNCHANGED <<orders, quotes>>
  BY DEF IInv, EditPaymentCommits
<1>2. IsPayment(p) /\ req[r].to \in {"pending", "paid"}
  BY <1>1 DEF IInv, Intends, Plans, CanEdit, Edits
<1>3. p \in Requests /\ payments[p] # None /\ payments[p] \in PaymentRows
  BY <1>1, <1>2 DEF IsPayment, TypeInv
<1>4. new \in PaymentRows /\ new.order = payments[p].order /\ new # None
  <2>1. new \in PaymentRows /\ new.order = payments[p].order
    BY <1>2, <1>3 DEF PaymentRows
  <2> QED BY <2>1, NoneAssumption
<1>5. marked \in SUBSET Marks /\ <<"payments", payments[p].order>> \in marked
  <2>1. new.order \in AllOrders
    BY <1>4 DEF PaymentRows
  <2> QED BY <1>4, <2>1 DEF Marks
<1> HIDE DEF p, new, marked
<1>6. /\ UNCHANGED <<history, shipments, audited, queue, task, raced>>
      /\ edited \subseteq edited' /\ marked \subseteq edited' /\ edited' \in SUBSET Marks
      /\ DOMAIN req' = Requests
      /\ \A s \in Requests \ {r} : req'[s] = req[s]
      /\ committed \subseteq committed'
      /\ \A s \in Requests : req'[s].at \in Busy \cup {"new", "done"} /\ req'[s].answer \in Codes
      /\ Intends(r)' /\ OwnRows(r)' /\ Answered(r)' /\ ToldWhatHappened'
  BY <1>1, <1>5, EditEffect DEF Edits
<1>7. /\ payments' \in [Requests -> PaymentRows \cup {None}]
      /\ \A x \in Requests : payments'[x] = IF x = p THEN new ELSE payments[x]
  BY <1>1, <1>3, <1>4 DEF TypeInv
<1>8. \A x \in Requests : /\ payments[x] = None <=> payments'[x] = None
                          /\ payments[x] # None => payments'[x].order = payments[x].order
  BY <1>3, <1>4, <1>7
<1>9. Placed' = Placed /\ \A q : MadeOf(q)' = MadeOf(q)
  BY <1>1 DEF Placed, MadeOf
<1>10. Carried(r)
  <2>1. \A x : SameQuote(orders[x].quote, orders'[x].quote, edited')
    BY <1>1 DEF SameQuote
  <2>2. \A x \in Requests : payments[x] # None => payments'[x] # None
    BY <1>8
  <2> QED BY <1>1, <1>6, <1>8, <1>9, <2>1, <2>2 DEF Carried
<1>11. TypeInv'
  BY <1>1, <1>6, <1>7 DEF TypeInv
<1>12. RowsBelong'
  <2>1. \A x \in Requests : payments'[x] # None =>
            payments'[x].order \in Placed' /\ orders'[payments'[x].order].user
    <3> SUFFICES ASSUME NEW x \in Requests, payments'[x] # None
                 PROVE  payments'[x].order \in Placed' /\ orders'[payments'[x].order].user
      OBVIOUS
    <3>1. payments[x] # None /\ payments'[x].order = payments[x].order
      BY <1>8
    <3>2. payments[x].order \in Placed /\ orders[payments[x].order].user
      BY <1>1, <3>1 DEF RowsBelong
    <3>3. orders' = orders /\ Placed' = Placed
      BY <1>1, <1>9
    <3> QED BY <3>1, <3>2, <3>3, Zenon
  <2> QED BY <1>1, <1>6, <1>9, <2>1 DEF RowsBelong
<1>13. PaidOrdersShowPaid'
  <2> SUFFICES ASSUME NEW x \in Placed, x \notin raced, <<"payments", x>> \notin edited'
               PROVE  orders[x].payment = "paid" <=>
                        \E y \in PaymentsOf(x)' : payments'[y].status = "paid"
    BY <1>1, <1>6, <1>9 DEF PaidOrdersShowPaid
  <2>1. x # payments[p].order
    BY <1>5, <1>6
  <2>2. PaymentsOf(x)' = PaymentsOf(x)
    <3>1. \A y \in Requests : payments'[y] # None /\ payments'[y].order = x
                           <=> payments[y] # None /\ payments[y].order = x
      BY <1>8
    <3> QED BY <3>1 DEF PaymentsOf
  <2>3. \A y \in PaymentsOf(x) : payments'[y] = payments[y]
    BY <1>7, <2>1 DEF PaymentsOf
  <2> QED BY <1>6, <2>2, <2>3 DEF IInv, PaidOrdersShowPaid
<1>14. Timelines' /\ QuotesMatch'
  BY <1>1, <1>6, <1>9 DEF IInv, Timelines, OnTimeline, QuotesMatch
<1> QED BY <1>6, <1>10, <1>11, <1>12, <1>13, <1>14, StepByParts

LEMMA EditQuoteStep ==
    ASSUME IInv, NEW r \in Requests, EditQuoteCommits(r)
    PROVE  IInv'
<1> DEFINE quote == req[r].about
           new == [status |-> req[r].to]
           marked == {<<"conversion", quote>>}
<1>1. /\ TypeInv /\ RowsBelong
      /\ req[r].at = "writing" /\ task[r] = "edit quote"
      /\ quotes' = [quotes EXCEPT ![quote] = req[r].to] /\ EditsRow(r, new, marked)
      /\ UNCHANGED <<orders, payments>>
  BY DEF IInv, EditQuoteCommits
<1>2. quote \in Quotes /\ req[r].to \in QuoteStatuses
  BY <1>1 DEF IInv, Intends, Plans, CanEdit, Edits
<1>3. marked \in SUBSET Marks /\ <<"conversion", quote>> \in marked
  BY <1>2 DEF Marks
<1> HIDE DEF quote, new, marked
<1>4. /\ UNCHANGED <<history, shipments, audited, queue, task, raced>>
      /\ edited \subseteq edited' /\ marked \subseteq edited' /\ edited' \in SUBSET Marks
      /\ DOMAIN req' = Requests
      /\ \A s \in Requests \ {r} : req'[s] = req[s]
      /\ committed \subseteq committed'
      /\ \A s \in Requests : req'[s].at \in Busy \cup {"new", "done"} /\ req'[s].answer \in Codes
      /\ Intends(r)' /\ OwnRows(r)' /\ Answered(r)' /\ ToldWhatHappened'
  BY <1>1, <1>3, EditEffect DEF Edits
<1>5. /\ quotes' \in [Quotes -> QuoteStatuses]
      /\ \A q \in Quotes : <<"conversion", q>> \notin edited' => quotes'[q] = quotes[q]
  BY <1>1, <1>2, <1>3, <1>4 DEF TypeInv
<1>6. Placed' = Placed /\ \A q : MadeOf(q)' = MadeOf(q) /\ PaymentsOf(q)' = PaymentsOf(q)
  BY <1>1 DEF Placed, MadeOf, PaymentsOf
<1>7. Carried(r)
  BY <1>1, <1>4, <1>6 DEF Carried, SameQuote
<1>8. TypeInv'
  BY <1>1, <1>4, <1>5 DEF TypeInv
<1>9. RowsBelong'
  <2>1. \A q \in Quotes : quotes'[q] \in {QuoteStatus[q], "converted"} \/ <<"conversion", q>> \in edited'
    BY <1>1, <1>4, <1>5 DEF RowsBelong
  <2> QED BY <1>1, <1>4, <1>6, <2>1 DEF RowsBelong
<1>10. PaidOrdersShowPaid' /\ Timelines'
  BY <1>1, <1>4, <1>6 DEF IInv, PaidOrdersShowPaid, Timelines, OnTimeline
<1>11. QuotesMatch'
  <2> SUFFICES ASSUME NEW q \in Quotes, q \notin raced, <<"conversion", q>> \notin edited'
               PROVE  IF quotes'[q] = "converted" /\ QuoteStatus[q] # "converted"
                      THEN \E o \in Placed : MadeOf(q) = {o}
                      ELSE MadeOf(q) = {}
    BY <1>4, <1>6 DEF QuotesMatch
  <2> QED BY <1>4, <1>5 DEF IInv, QuotesMatch
<1> QED BY <1>4, <1>7, <1>8, <1>9, <1>10, <1>11, StepByParts

\* Its audit record has what it committed.
LEMMA EditAuditStep ==
    ASSUME IInv, NEW r \in Requests, EditAudits(r)
    PROVE  IInv'
<1> DEFINE c == EditOf(r, req[r].about, req[r].row, req[r].to)
<1>1. /\ TypeInv /\ UNCHANGED <<tables, queue, committed, task, marks>>
      /\ req[r].at = "auditing" /\ task[r] \in Edits
      /\ audited' = audited \cup {c}
      /\ Show(r, 200, req[r].to)
  BY DEF IInv, EditAudits, EditOf
<1>2. c \in committed
  BY <1>1 DEF IInv, Intends, Plans
<1> HIDE DEF c
<1>3. task[r] \notin {"list", "view"}
  BY <1>1 DEF Edits
<1>4. /\ DOMAIN req' = Requests
      /\ \A s \in Requests \ {r} : req'[s] = req[s]
      /\ req'[r].at = "done" /\ req'[r].answer = 200
  BY <1>1, ShowEffect DEF TypeInv
<1>5. /\ Carried(r) /\ TypeInv' /\ RowsBelong'
      /\ PaidOrdersShowPaid' /\ Timelines' /\ QuotesMatch'
  BY <1>1, <1>4, QuietTables DEF Codes
<1>6. Intends(r)' /\ OwnRows(r)' /\ Answered(r)'
  BY <1>1, <1>3, <1>4 DEF Intends, Plans, OwnRows, Answered
<1>7. ToldWhatHappened'
  BY <1>1, <1>2 DEF IInv, ToldWhatHappened
<1> QED BY <1>5, <1>6, <1>7, StepByParts
-----------------------------------------------------------------------------
\* What keeps the desk's books: types, rows that belong together, what each
\* request knows, and the five properties of the run.
THEOREM DeskInv == Spec => []IInv
<1>1. Init => IInv
  BY InitHolds
<1>2. IInv /\ [Next]_vars => IInv'
  <2> SUFFICES ASSUME IInv, [Next]_vars PROVE IInv'
    OBVIOUS
  <2>1. ASSUME NEW r \in Requests, Proceed(r) \/ Edit(r) \/ Read(r) \/ TurnAway(r) \/ Fail(r)
        PROVE  IInv'
    <3>1. CASE Checkout(r)
      BY <3>1, CheckoutStep
    <3>2. CASE CancelReads(r) \/ ShipReads(r) \/ PayReads(r) \/ WebhookReads(r) \/ MoveReads(r)
               \/ ConvertReads(r) \/ EditReads(r)
      BY <3>2, ReadStep
    <3>3. CASE CancelCommits(r) \/ ShipCommits(r) \/ MoveCommits(r)
      BY <3>3, StatusSaveStep
    <3>4. CASE CancelShows(r) \/ ShipShows(r) \/ PayShows(r) \/ ListOrders(r) \/ ViewShows(r)
               \/ GetInvoice(r) \/ ListShipments(r) \/ SummaryShows(r)
      BY <3>4, AnswerStep
    <3>5. CASE WebhookReadsOrder(r) \/ ViewReads(r) \/ ViewReadsShipments(r)
      BY <3>5, ReadOnStep
    <3>6. CASE PayCommits(r)
      BY <3>6, PayStep
    <3>7. CASE WebhookCommits(r)
      BY <3>7, WebhookStep
    <3>8. CASE MoveAudits(r) \/ ConvertAudits(r)
      BY <3>8, AuditStep
    <3>9. CASE Tell(r)
      BY <3>9, TellStep
    <3>10. CASE ConvertCommits(r)
      BY <3>10, ConvertStep
    <3>11. CASE TurnAway(r) \/ Fail(r) \/ SummaryReads(r)
      BY <3>11, EndStep
    <3>12. CASE EditOrderCommits(r)
      BY <3>12, EditOrderStep
    <3>13. CASE EditPaymentCommits(r)
      BY <3>13, EditPaymentStep
    <3>14. CASE EditQuoteCommits(r)
      BY <3>14, EditQuoteStep
    <3>15. CASE EditAudits(r)
      BY <3>15, EditAuditStep
    <3> QED BY <2>1, <3>1, <3>2, <3>3, <3>4, <3>5, <3>6, <3>7, <3>8, <3>9, <3>10, <3>11, <3>12, <3>13,
               <3>14, <3>15
            DEF Proceed, Edit, Read
  <2>2. CASE UNCHANGED vars
    <3>1. UNCHANGED <<orders, history, payments, shipments, quotes, audited, queue, committed,
                      req, task, raced, edited>>
      BY <2>2 DEF vars, tables, logs, marks
    <3>2. Placed' = Placed /\ \A o : PaymentsOf(o)' = PaymentsOf(o) /\ MadeOf(o)' = MadeOf(o)
      BY <3>1 DEF Placed, PaymentsOf, MadeOf
    <3>3. /\ TypeInv' /\ RowsBelong' /\ PaidOrdersShowPaid' /\ Timelines' /\ QuotesMatch'
      <4>1. TypeInv'
        BY <3>1 DEF IInv, TypeInv
      <4>2. RowsBelong'
        BY <3>1, <3>2 DEF IInv, RowsBelong
      <4>3. PaidOrdersShowPaid'
        BY <3>1, <3>2 DEF IInv, PaidOrdersShowPaid
      <4>4. Timelines' /\ QuotesMatch'
        BY <3>1, <3>2 DEF IInv, Timelines, OnTimeline, QuotesMatch
      <4> QED BY <4>1, <4>2, <4>3, <4>4
    <3>4. ASSUME NEW r \in Requests
          PROVE  Intends(r)' /\ OwnRows(r)' /\ Answered(r)'
      <4>1. Intends(r) /\ OwnRows(r) /\ Answered(r)
        BY DEF IInv
      <4>2. \A o, x : Sees(o, x)' <=> Sees(o, x)
        BY <3>1, <3>2 DEF Sees, OnTimeline
      <4>3. Intends(r)'
        <5>1. \A x, y : CanEdit(r, x, y)' <=> CanEdit(r, x, y)
          BY <3>1, <3>2 DEF CanEdit, IsPayment
        <5> QED BY <3>1, <3>2, <4>1, <4>2, <5>1 DEF Intends, Plans, IsPayment
      <4>4. OwnRows(r)' /\ Answered(r)'
        BY <3>1, <3>2, <4>1 DEF OwnRows, Answered
      <4> QED BY <4>3, <4>4
    <3>5. ToldWhatHappened'
      BY <3>1 DEF IInv, ToldWhatHappened
    <3> QED BY <3>3, <3>4, <3>5 DEF IInv
  <2> QED BY <2>1, <2>2 DEF Next
<1> QED BY <1>1, <1>2, PTL DEF Spec

\* Every row, payment and request is well-formed, and a payment is of a
\* customer's order.
THEOREM DeskTyped == Spec => []TypeOK
<1>1. IInv => TypeOK
  <2> SUFFICES ASSUME IInv PROVE TypeOK
    OBVIOUS
  <2>1. TypeInv /\ RowsBelong
    BY DEF IInv
  <2>2. /\ orders \in [AllOrders -> Rows \cup {None}]
        /\ \A o \in AllOrders : history[o] \in Seq(Statuses)
        /\ \A r \in Requests : req[r].at \in Busy \cup {"new", "done"} /\ req[r].answer \in Codes
        /\ quotes \in [Quotes -> QuoteStatuses]
        /\ raced \subseteq AllOrders \cup Quotes
        /\ edited \subseteq ({"status", "payments"} \X AllOrders) \cup ({"conversion"} \X Quotes)
    BY <2>1 DEF TypeInv, Marks
  <2>3. \A r \in Requests : payments[r] = None \/
          /\ payments[r].order \in AllOrders /\ orders[payments[r].order].user
          /\ payments[r].status \in {"pending", "paid"}
    BY <2>1 DEF TypeInv, RowsBelong, PaymentRows
  <2>4. \A o \in AllOrders : shipments[o] > 0 => orders[o] # None
    BY <2>1 DEF RowsBelong, Placed
  <2>5. \A r \in Requests : task[r] = "list" /\ req[r].answer = 200 => req[r].shown \subseteq Placed
    BY DEF IInv, Answered
  <2> QED BY <2>2, <2>3, <2>4, <2>5 DEF TypeOK
<1> QED BY <1>1, DeskInv, PTL

\* An order that was never written from an outdated row, and whose payments
\* staff have not set by the generic update, shows paid exactly when one of its
\* payments is.
THEOREM PaymentsShow == Spec => []PaidOrdersShowPaid
<1>1. IInv => PaidOrdersShowPaid
  BY DEF IInv
<1> QED BY <1>1, DeskInv, PTL

\* A status only staff set is on the timeline, in the tables and in an answer, of
\* every order whose status was never written by the generic update.
THEOREM TimelineTells == Spec => []StaffStatusesAreOnTheTimeline
<1>1. IInv => StaffStatusesAreOnTheTimeline
  BY DEF IInv, Timelines, Answered, StaffStatusesAreOnTheTimeline
<1> QED BY <1>1, DeskInv, PTL

\* A quote that two conversions did not race for, and whose status and orders
\* the generic update has left alone, has one order if it was converted and none
\* before.
THEOREM QuotesConvertOnce == Spec => []OneOrderPerQuote
<1>1. IInv => OneOrderPerQuote
  <2> SUFFICES ASSUME IInv, NEW q \in Quotes \ raced,
                      <<"conversion", q>> \notin edited
               PROVE  IF quotes[q] = "converted" /\ QuoteStatus[q] # "converted"
                      THEN Cardinality(MadeOf(q)) = 1 ELSE MadeOf(q) = {}
    BY DEF OneOrderPerQuote, MadeOf
  <2>1. IF quotes[q] = "converted" /\ QuoteStatus[q] # "converted"
        THEN \E o \in Placed : MadeOf(q) = {o} ELSE MadeOf(q) = {}
    BY DEF IInv, QuotesMatch
  <2>2. \A o : Cardinality({o}) = 1
    BY FS_Singleton
  <2> QED BY <2>1, <2>2
<1> QED BY <1>1, DeskInv, PTL

\* The notification queue and the audit log tell of what was committed.
THEOREM LogsTellTheTruth == Spec => []ToldWhatHappened
<1>1. IInv => ToldWhatHappened
  BY DEF IInv
<1> QED BY <1>1, DeskInv, PTL
-----------------------------------------------------------------------------
(* The queue and the notifications Lambda.                                 *)

Places == {"uncommitted", "committed", "unannounced", "visible",
           "in_flight", "deleted", "dead"}

\* What lambda_handler keeps while it works on an event.
Working == [batch : Seq(Changes), next : Nat, failures : SUBSET Changes, elapsed : Nat]

QueueTypes ==
    /\ message \in [Changes -> Places]
    /\ receives \in [Changes -> 0 .. MaxReceives]
    /\ run \in [Invocations -> Working]
    /\ \A i \in Invocations :
         /\ Len(run[i].batch) <= BatchSize
         /\ run[i].next \in 1 .. Len(run[i].batch) + 1
         /\ run[i].elapsed <= Timeout
    /\ emails \in [Changes -> Nat]
    /\ confirmed \subseteq Changes

\* The visibility timeout: a message that one invocation works on is hidden
\* from the others, and is one record of its event.
HandedOnce ==
    /\ \A i \in Invocations : \A k \in DOMAIN run[i].batch :
         message[run[i].batch[k]] = "in_flight"
    /\ \A i, j \in Invocations : \A k \in DOMAIN run[i].batch, l \in DOMAIN run[j].batch :
         run[i].batch[k] = run[j].batch[l] => i = j /\ k = l

\* lambda_handler's loop has reported every record behind it as failed, or has
\* seen its e-mail accepted.
LoopKeepsScore ==
    \A i \in Invocations : \A k \in DOMAIN run[i].batch :
        k < run[i].next => \/ run[i].batch[k] \in run[i].failures
                           \/ /\ run[i].batch[k] \in confirmed
                              /\ emails[run[i].batch[k]] > 0

\* A copy for each receive at most, and the receive in hand is not used up
\* while the loop has not come to its record.
CopiesCounted ==
    /\ \A c \in Changes : emails[c] <= receives[c]
    /\ \A i \in Invocations : \A k \in DOMAIN run[i].batch :
         run[i].next <= k => emails[run[i].batch[k]] < receives[run[i].batch[k]]
    /\ \A c \in Changes :
         message[c] \in {"uncommitted", "committed", "visible"} => receives[c] < MaxReceives

\* A message in flight is a record of some invocation's event, which will
\* delete it or give it back.
NoneStranded ==
    \A c \in Changes : message[c] = "in_flight" =>
        \E i \in Invocations : \E k \in DOMAIN run[i].batch : run[i].batch[k] = c

\* DeletedWasSent and CopiesAreBounded are not inductive alone: the first needs
\* the loop's score, the second the receive that a copy is charged to.
QueueInv == QueueTypes /\ HandedOnce /\ LoopKeepsScore /\ CopiesCounted /\ NoneStranded
                /\ DeletedWasSent
-----------------------------------------------------------------------------
\* The event lists the chosen messages, each once.
LEMMA BatchOfChosen ==
    ASSUME NEW chosen, IsFiniteSet(chosen), NEW batch \in SetToSeqs(chosen)
    PROVE  /\ batch \in Seq(chosen)
           /\ Len(batch) = Cardinality(chosen)
           /\ \A a, b \in DOMAIN batch : batch[a] = batch[b] => a = b
           /\ \A c \in chosen : \E k \in DOMAIN batch : batch[k] = c
<1> DEFINE D == 1 .. Cardinality(chosen)
<1>1. Cardinality(chosen) \in Nat
  BY FS_CardinalityType
<1>2. /\ batch \in [D -> chosen]
      /\ \A a, b \in D : a # b => batch[a] # batch[b]
  BY DEF SetToSeqs
<1>3. Cardinality(D) = Cardinality(chosen)
  BY <1>1, FS_Interval
<1>4. batch \in Injection(D, chosen)
  BY <1>2 DEF Injection, IsInjective
<1>5. batch \in Surjection(D, chosen)
  BY <1>3, <1>4, FS_Injection
<1>6. \A c \in chosen : \E k \in D : batch[k] = c
  BY <1>5 DEF Surjection
<1> QED BY <1>1, <1>2, <1>6

\* No message, receive or invocation before the first change.
LEMMA QueueStarts == QueueInit => QueueInv
<1> SUFFICES ASSUME QueueInit PROVE QueueInv
  OBVIOUS
<1>1. NoEvent \in Working /\ Len(NoEvent.batch) = 0 /\ DOMAIN NoEvent.batch = {} /\ NoEvent.next = 1
  BY DEF NoEvent, Working
<1>2. \A i \in Invocations : run[i] = NoEvent
  BY DEF QueueInit
<1>3. QueueTypes
  BY <1>1, <1>2, SizeAssumption DEF QueueInit, QueueTypes, Places, NoEvent
<1> QED BY <1>1, <1>2, <1>3, SizeAssumption
     DEF QueueInv, QueueInit, HandedOnce, LoopKeepsScore, CopiesCounted, NoneStranded, DeletedWasSent

\* A change commits and is announced, or not: no invocation knows it yet.
LEMMA ProducerStep ==
    ASSUME QueueInv, NEW c \in Changes, CommitChange(c) \/ Announce(c) \/ AnnounceNot(c)
    PROVE  QueueInv'
<1>1. PICK place \in {"committed", "visible", "unannounced"} :
          message' = [message EXCEPT ![c] = place]
  BY DEF CommitChange, Announce, AnnounceNot
<1>2. message[c] \in {"uncommitted", "committed"} /\ UNCHANGED <<receives, run, emails, confirmed>>
  BY DEF CommitChange, Announce, AnnounceNot
<1>3. message \in [Changes -> Places]
  BY DEF QueueInv, QueueTypes
<1>4. \A x \in Changes : message'[x] = IF x = c THEN place ELSE message[x]
  BY <1>1, <1>3
<1>5. QueueTypes'
  BY <1>1, <1>2, <1>3 DEF QueueInv, QueueTypes, Places
<1>6. \A i \in Invocations : \A k \in DOMAIN run[i].batch :
          run[i].batch[k] \in Changes /\ run[i].batch[k] # c
  BY <1>2 DEF QueueInv, QueueTypes, Working, HandedOnce
<1>7. HandedOnce'
  BY <1>2, <1>4, <1>6 DEF QueueInv, HandedOnce
<1>8. LoopKeepsScore'
  BY <1>2 DEF QueueInv, LoopKeepsScore
<1>9. CopiesCounted'
  BY <1>2, <1>4 DEF QueueInv, CopiesCounted
<1>10. NoneStranded'
  BY <1>2, <1>4 DEF QueueInv, NoneStranded
<1>11. DeletedWasSent'
  BY <1>2, <1>4 DEF QueueInv, DeletedWasSent
<1> QED BY <1>5, <1>7, <1>8, <1>9, <1>10, <1>11 DEF QueueInv

\* The event source hands over visible messages only: none of them is a record
\* of another event, and each has a receive left.
LEMMA InvokeStep ==
    ASSUME QueueInv, NEW i \in Invocations, Invoke(i)
    PROVE  QueueInv'
<1>1. PICK chosen \in SUBSET {c \in Changes : message[c] = "visible"} :
          /\ Cardinality(chosen) <= BatchSize
          /\ \E batch \in SetToSeqs(chosen) : run' = [run EXCEPT ![i].batch = batch]
          /\ message' = [c \in Changes |-> IF c \in chosen THEN "in_flight" ELSE message[c]]
          /\ receives' = [c \in Changes |-> IF c \in chosen THEN receives[c] + 1
                                            ELSE receives[c]]
  BY DEF Invoke
<1>2. PICK batch \in SetToSeqs(chosen) : run' = [run EXCEPT ![i].batch = batch]
  BY <1>1
<1>3. run[i] = NoEvent /\ UNCHANGED <<emails, confirmed>>
  BY DEF Invoke
<1>4. IsFiniteSet(chosen)
  BY FS_Subset, SizeAssumption
<1>5. /\ batch \in Seq(chosen) /\ Len(batch) <= BatchSize /\ Len(batch) \in Nat
      /\ DOMAIN batch = 1 .. Len(batch)
      /\ \A k \in DOMAIN batch : batch[k] \in chosen
      /\ \A a, b \in DOMAIN batch : batch[a] = batch[b] => a = b
      /\ \A c \in chosen : \E k \in DOMAIN batch : batch[k] = c
  BY <1>1, <1>2, <1>4, BatchOfChosen
<1>6. QueueTypes
  BY DEF QueueInv
<1>7. /\ \A j \in Invocations : run'[j] = IF j = i THEN [NoEvent EXCEPT !.batch = batch] ELSE run[j]
      /\ run'[i].batch = batch /\ run'[i].next = 1
      /\ run'[i].failures = {} /\ run'[i].elapsed = 0
      /\ DOMAIN run' = Invocations
  BY <1>2, <1>3, <1>6 DEF QueueTypes, Working, NoEvent
<1>8. \A c \in chosen : c \in Changes /\ message[c] = "visible" /\ receives[c] < MaxReceives
  BY <1>1 DEF QueueInv, CopiesCounted
<1>9. QueueTypes'
  <2>1. receives' \in [Changes -> 0 .. MaxReceives]
    BY <1>1, <1>6, <1>8, SizeAssumption DEF QueueTypes
  <2>2. message' \in [Changes -> Places]
    BY <1>1, <1>6 DEF QueueTypes, Places
  <2>3. batch \in Seq(Changes)
    BY <1>5, <1>8
  <2>4. [NoEvent EXCEPT !.batch = batch] \in Working
    BY <2>3 DEF NoEvent, Working
  <2>5. run' \in [Invocations -> Working]
    BY <1>2, <1>3, <1>6, <2>4 DEF QueueTypes
  <2>6. \A j \in Invocations : /\ Len(run'[j].batch) <= BatchSize
                               /\ run'[j].next \in 1 .. Len(run'[j].batch) + 1
                               /\ run'[j].elapsed <= Timeout
    BY <1>5, <1>6, <1>7, SizeAssumption, SMTT(30) DEF QueueTypes
  <2> QED BY <1>3, <1>6, <2>1, <2>2, <2>5, <2>6 DEF QueueTypes
<1>10. \A j \in Invocations \ {i} : /\ run'[j] = run[j]
                                    /\ \A k \in DOMAIN run[j].batch :
                                         /\ run[j].batch[k] \in Changes
                                         /\ run[j].batch[k] \notin chosen
  BY <1>6, <1>7, <1>8 DEF QueueInv, QueueTypes, Working, HandedOnce
<1>11. HandedOnce'
  <2>1. \A j \in Invocations : \A k \in DOMAIN run'[j].batch :
            message'[run'[j].batch[k]] = "in_flight"
    BY <1>1, <1>5, <1>7, <1>8, <1>10 DEF QueueInv, HandedOnce
  <2>2. \A a, b \in Invocations : \A k \in DOMAIN run'[a].batch, l \in DOMAIN run'[b].batch :
            run'[a].batch[k] = run'[b].batch[l] => a = b /\ k = l
    <3> SUFFICES ASSUME NEW a \in Invocations, NEW b \in Invocations,
                        NEW k \in DOMAIN run'[a].batch, NEW l \in DOMAIN run'[b].batch,
                        run'[a].batch[k] = run'[b].batch[l]
                 PROVE  a = b /\ k = l
      OBVIOUS
    <3>1. CASE a # i /\ b # i
      BY <1>10, <3>1 DEF QueueInv, HandedOnce
    <3>2. CASE a = i /\ b = i
      BY <1>5, <1>7, <3>2
    <3>3. a = i <=> b = i
      BY <1>5, <1>7, <1>10
    <3> QED BY <3>1, <3>2, <3>3
  <2> QED BY <2>1, <2>2 DEF HandedOnce
<1>12. LoopKeepsScore'
  BY <1>3, <1>5, <1>7 DEF QueueInv, LoopKeepsScore
<1>13. CopiesCounted'
  <2>1. \A c \in Changes : emails[c] \in Nat /\ receives[c] \in Nat /\ emails[c] <= receives[c]
    BY <1>6 DEF QueueTypes, QueueInv, CopiesCounted
  <2>2. \A c \in Changes : emails'[c] <= receives'[c]
    BY <1>1, <1>3, <2>1
  <2>3. \A c \in chosen : emails'[c] < receives'[c]
    BY <1>1, <1>3, <1>8, <2>1
  <2>4. \A j \in Invocations : \A k \in DOMAIN run'[j].batch :
            run'[j].next <= k => emails'[run'[j].batch[k]] < receives'[run'[j].batch[k]]
    <3> SUFFICES ASSUME NEW j \in Invocations, NEW k \in DOMAIN run'[j].batch,
                        run'[j].next <= k
                 PROVE  emails'[run'[j].batch[k]] < receives'[run'[j].batch[k]]
      OBVIOUS
    <3>1. CASE j = i
      BY <1>5, <1>7, <2>3, <3>1
    <3>2. CASE j # i
      <4>1. /\ run[j].batch[k] \in Changes \ chosen
            /\ emails[run[j].batch[k]] < receives[run[j].batch[k]]
        BY <1>10, <3>2 DEF QueueInv, CopiesCounted
      <4> QED BY <1>1, <1>3, <1>10, <3>2, <4>1
    <3> QED BY <3>1, <3>2
  <2>5. \A c \in Changes :
            message'[c] \in {"uncommitted", "committed", "visible"} => receives'[c] < MaxReceives
    BY <1>1 DEF QueueInv, CopiesCounted
  <2> QED BY <2>2, <2>4, <2>5 DEF CopiesCounted
<1>14. NoneStranded'
  <2> SUFFICES ASSUME NEW c \in Changes, message'[c] = "in_flight"
               PROVE  \E j \in Invocations : \E k \in DOMAIN run'[j].batch : run'[j].batch[k] = c
    BY DEF NoneStranded
  <2>1. CASE c \in chosen
    BY <1>5, <1>7, <2>1
  <2>2. CASE c \notin chosen
    <3>1. PICK j \in Invocations : \E k \in DOMAIN run[j].batch : run[j].batch[k] = c
      BY <1>1, <2>2 DEF QueueInv, NoneStranded
    <3>2. j # i
      BY <1>3, <3>1 DEF NoEvent
    <3> QED BY <1>10, <3>1, <3>2
  <2> QED BY <2>1, <2>2
<1>15. DeletedWasSent'
  BY <1>1, <1>3 DEF QueueInv, DeletedWasSent
<1> QED BY <1>9, <1>11, <1>12, <1>13, <1>14, <1>15 DEF QueueInv

\* send_email answers or raises: one copy at most, charged to the receive in
\* hand, and the record is confirmed or reported as failed.
LEMMA LoopStep ==
    ASSUME QueueInv, NEW i \in Invocations, SendAccepted(i) \/ SendFails(i)
    PROVE  QueueInv'
<1> DEFINE c == Record(i)
<1>1. HasRecord(i)
  BY DEF SendAccepted, SendFails
<1>2. PICK seconds \in SendTimes, failed \in {{}, {c}} :
          /\ Advance(i, seconds, failed)
          /\ c \in failed \/ (c \in confirmed' /\ emails'[c] > 0)
          /\ confirmed' \in {confirmed, confirmed \cup {c}}
          /\ \E accepted \in {0, 1} : emails' = [emails EXCEPT ![c] = @ + accepted]
  <2>0. QueueTypes /\ c \in Changes
    BY <1>1, SMTT(30) DEF QueueInv, QueueTypes, Working, HasRecord, Record
  <2>1. CASE SendAccepted(i)
    BY <2>0, <2>1 DEF SendAccepted, QueueTypes
  <2>2. CASE SendFails(i)
    BY <2>2 DEF SendFails
  <2> QED BY <2>1, <2>2
<1>3. QueueTypes
  BY DEF QueueInv
<1>4. /\ run[i] \in Working
      /\ run[i].next \in DOMAIN run[i].batch
      /\ c \in Changes
      /\ run[i].elapsed + seconds <= Timeout /\ seconds \in Nat
      /\ UNCHANGED <<message, receives>>
  BY <1>1, <1>2, <1>3, SizeAssumption, SMTT(30) DEF QueueTypes, Working, HasRecord, Advance, Record
<1>5. /\ run' = [run EXCEPT ![i].next = @ + 1, ![i].elapsed = @ + seconds,
                            ![i].failures = @ \cup failed]
  BY <1>2 DEF Advance
<1>6. /\ \A j \in Invocations \ {i} : run'[j] = run[j]
      /\ run'[i].batch = run[i].batch
      /\ run'[i].next = run[i].next + 1
      /\ run'[i].elapsed = run[i].elapsed + seconds
      /\ run'[i].failures = run[i].failures \cup failed
      /\ run' \in [Invocations -> Working]
  <2>1. run \in [Invocations -> Working]
    BY <1>3 DEF QueueTypes
  <2>2. /\ \A j \in Invocations \ {i} : run'[j] = run[j]
        /\ run'[i] = [run[i] EXCEPT !.next = @ + 1, !.elapsed = @ + seconds,
                                    !.failures = @ \cup failed]
        /\ DOMAIN run' = Invocations
    BY <1>5, <2>1
  <2>3. run'[i].batch = run[i].batch
    BY <1>4, <2>2 DEF Working
  <2>4. run'[i].next = run[i].next + 1
    BY <1>4, <2>2 DEF Working
  <2>5. run'[i].elapsed = run[i].elapsed + seconds
    BY <1>4, <2>2 DEF Working
  <2>6. run'[i].failures = run[i].failures \cup failed
    BY <1>4, <2>2 DEF Working
  <2>7. run'[i] \in Working
    <3>1. /\ run[i].next + 1 \in Nat /\ run[i].elapsed + seconds \in Nat
          /\ run[i].failures \cup failed \in SUBSET Changes
      BY <1>4 DEF Working
    <3> QED BY <1>4, <2>2, <3>1 DEF Working
  <2>8. run' \in [Invocations -> Working]
    BY <1>5, <2>1, <2>2, <2>7
  <2> QED BY <2>2, <2>3, <2>4, <2>5, <2>6, <2>8
<1>7. \A x \in Changes : /\ emails'[x] \in {emails[x], emails[x] + 1}
                         /\ x # c => emails'[x] = emails[x]
                         /\ emails[x] \in Nat /\ receives[x] \in Nat
  BY <1>2, <1>3, <1>4 DEF QueueTypes
<1> HIDE DEF c
<1>8. \A j \in Invocations : run'[j].batch = run[j].batch
  BY <1>6
<1>9. QueueTypes'
  <2>1. emails' \in [Changes -> Nat]
    BY <1>2, <1>3, <1>4 DEF QueueTypes
  <2>2. \A j \in Invocations : /\ Len(run'[j].batch) <= BatchSize
                               /\ run'[j].next \in 1 .. Len(run'[j].batch) + 1
                               /\ run'[j].elapsed <= Timeout
    <3>1. /\ Len(run[i].batch) <= BatchSize
          /\ run[i].next + 1 \in 1 .. Len(run[i].batch) + 1
      BY <1>3, <1>4, SMTT(30) DEF QueueTypes, Working
    <3> QED BY <1>3, <1>4, <1>6, <3>1 DEF QueueTypes
  <2>3. confirmed' \subseteq Changes
    BY <1>2, <1>3, <1>4 DEF QueueTypes
  <2>4. message' \in [Changes -> Places] /\ receives' \in [Changes -> 0 .. MaxReceives]
    BY <1>3, <1>4 DEF QueueTypes
  <2> QED BY <1>6, <2>1, <2>2, <2>3, <2>4 DEF QueueTypes
<1>10. HandedOnce'
  BY <1>4, <1>8 DEF QueueInv, HandedOnce
<1>11. ASSUME NEW j \in Invocations, NEW k \in DOMAIN run[j].batch, j # i \/ k # run[i].next
       PROVE  /\ run[j].batch[k] # c /\ run[j].batch[k] \in Changes
              /\ emails'[run[j].batch[k]] = emails[run[j].batch[k]]
  <2>1. run[j].batch[k] # c
    BY <1>4, <1>11 DEF QueueInv, HandedOnce, c, Record
  <2>2. run[j].batch[k] \in Changes
    BY <1>3 DEF QueueTypes, Working
  <2> QED BY <1>7, <2>1, <2>2
<1>12. LoopKeepsScore'
  <2> SUFFICES ASSUME NEW j \in Invocations, NEW k \in DOMAIN run'[j].batch, k < run'[j].next
               PROVE  \/ run'[j].batch[k] \in run'[j].failures
                      \/ run'[j].batch[k] \in confirmed' /\ emails'[run'[j].batch[k]] > 0
    BY DEF LoopKeepsScore
  <2>1. CASE j = i /\ k = run[i].next
    BY <1>2, <1>6, <2>1 DEF c, Record
  <2>2. CASE j # i \/ k # run[i].next
    <3>1. k < run[j].next /\ run[j].failures \subseteq run'[j].failures
      BY <1>4, <1>6, <1>8, <2>2, SMTT(30) DEF Working
    <3> QED BY <1>2, <1>8, <1>11, <2>2, <3>1 DEF QueueInv, LoopKeepsScore
  <2> QED BY <2>1, <2>2
<1>13. CopiesCounted'
  <2>1. emails[c] < receives[c]
    BY <1>3, <1>4 DEF QueueInv, CopiesCounted, c, Record, QueueTypes, Working
  <2>2. \A x \in Changes : emails'[x] <= receives[x]
    BY <1>7, <2>1 DEF QueueInv, CopiesCounted
  <2>3. ASSUME NEW j \in Invocations, NEW k \in DOMAIN run[j].batch, run'[j].next <= k
        PROVE  emails'[run[j].batch[k]] < receives[run[j].batch[k]]
    <3>1. (j # i \/ k # run[i].next) /\ run[j].next <= k
      <4>1. k \in Nat /\ run[j].next \in Nat
        BY <1>3, SMTT(30) DEF QueueTypes, Working
      <4>2. CASE j = i
        BY <1>6, <2>3, <4>1, <4>2
      <4>3. CASE j # i
        BY <1>6, <2>3, <4>3
      <4> QED BY <4>2, <4>3
    <3>2. emails[run[j].batch[k]] < receives[run[j].batch[k]]
      BY <3>1 DEF QueueInv, CopiesCounted
    <3> QED BY <1>11, <3>1, <3>2
  <2> QED BY <1>4, <1>8, <2>2, <2>3 DEF QueueInv, CopiesCounted
<1>14. NoneStranded'
  BY <1>4, <1>8 DEF QueueInv, NoneStranded
<1>15. DeletedWasSent'
  BY <1>2, <1>4, <1>7 DEF QueueInv, DeletedWasSent
<1> QED BY <1>9, <1>10, <1>12, <1>13, <1>14, <1>15 DEF QueueInv

\* What becomes of the messages of an invocation that ends, all of whose records
\* but those of `again` the loop has seen through.
LEMMA RunEnds ==
    ASSUME QueueInv, NEW i \in Invocations, NEW again \in SUBSET Changes,
           EndInvocation(i, again), UNCHANGED confirmed,
           emails' \in [Changes -> Nat],
           \A x \in Changes : emails[x] <= emails'[x] /\ emails'[x] <= receives[x],
           \A x \in Changes : x \notin ToSet(run[i].batch) => emails'[x] = emails[x],
           \A k \in DOMAIN run[i].batch : run[i].batch[k] \notin again =>
               run[i].batch[k] \in confirmed /\ emails[run[i].batch[k]] > 0
    PROVE  QueueInv'
<1> DEFINE mine == ToSet(run[i].batch)
<1>1. QueueTypes
  BY DEF QueueInv
<1>2. /\ message' = [c \in Changes |-> IF c \notin mine THEN message[c]
                                       ELSE IF c \in again THEN Reappeared(c) ELSE "deleted"]
      /\ run' = [run EXCEPT ![i] = NoEvent]
      /\ UNCHANGED receives
  BY DEF EndInvocation
<1>3. \A x : x \in mine <=> \E k \in DOMAIN run[i].batch : run[i].batch[k] = x
  BY DEF ToSet
<1> HIDE DEF mine
<1>4. /\ NoEvent \in Working /\ Len(NoEvent.batch) = 0 /\ DOMAIN NoEvent.batch = {}
      /\ NoEvent.next = 1 /\ NoEvent.elapsed = 0
  BY DEF NoEvent, Working
<1>5. /\ run'[i] = NoEvent
      /\ \A j \in Invocations \ {i} : run'[j] = run[j]
      /\ run' \in [Invocations -> Working]
  BY <1>1, <1>2, <1>4 DEF QueueTypes
<1>6. \A j \in Invocations \ {i} : \A k \in DOMAIN run[j].batch :
          run[j].batch[k] \in Changes \ mine
  <2> SUFFICES ASSUME NEW j \in Invocations \ {i}, NEW k \in DOMAIN run[j].batch
               PROVE  run[j].batch[k] \in Changes \ mine
    OBVIOUS
  <2>1. run[j].batch[k] \in Changes
    BY <1>1 DEF QueueTypes, Working
  <2> QED BY <1>3, <2>1 DEF QueueInv, HandedOnce
<1>7. \A c \in mine : c \in Changes /\ message[c] = "in_flight"
  BY <1>1, <1>3 DEF QueueInv, QueueTypes, Working, HandedOnce
<1>8. \A c \in Changes : /\ c \notin mine => message'[c] = message[c]
                         /\ c \in mine => message'[c] \in {"visible", "dead", "deleted"}
                         /\ c \in mine /\ message'[c] = "visible" => receives[c] < MaxReceives
                         /\ c \in mine /\ message'[c] = "deleted" => c \notin again
  BY <1>2 DEF Reappeared
<1>9. QueueTypes'
  <2>1. message' \in [Changes -> Places]
    <3>1. \A c \in Changes : message'[c] \in Places
      BY <1>1, <1>8 DEF QueueTypes, Places
    <3> QED BY <1>2, <3>1
  <2>2. \A j \in Invocations : /\ Len(run'[j].batch) <= BatchSize
                               /\ run'[j].next \in 1 .. Len(run'[j].batch) + 1
                               /\ run'[j].elapsed <= Timeout
    BY <1>1, <1>4, <1>5, SizeAssumption, SMTT(30) DEF QueueTypes
  <2> QED BY <1>1, <1>2, <1>5, <2>1, <2>2 DEF QueueTypes
<1>10. HandedOnce'
  <2>1. \A j \in Invocations : \A k \in DOMAIN run'[j].batch :
            message'[run'[j].batch[k]] = "in_flight"
    BY <1>4, <1>5, <1>6, <1>8 DEF QueueInv, HandedOnce
  <2>2. \A a, b \in Invocations : \A k \in DOMAIN run'[a].batch, l \in DOMAIN run'[b].batch :
            run'[a].batch[k] = run'[b].batch[l] => a = b /\ k = l
    BY <1>4, <1>5 DEF QueueInv, HandedOnce
  <2> QED BY <2>1, <2>2 DEF HandedOnce
<1>11. LoopKeepsScore'
  BY <1>4, <1>5, <1>6 DEF QueueInv, LoopKeepsScore, mine
<1>12. CopiesCounted'
  <2>1. \A j \in Invocations : \A k \in DOMAIN run'[j].batch :
            run'[j].next <= k => emails'[run'[j].batch[k]] < receives[run'[j].batch[k]]
    BY <1>4, <1>5, <1>6 DEF QueueInv, CopiesCounted, mine
  <2>2. \A c \in Changes :
            message'[c] \in {"uncommitted", "committed", "visible"} => receives[c] < MaxReceives
    BY <1>8 DEF QueueInv, CopiesCounted
  <2> QED BY <1>2, <2>1, <2>2 DEF CopiesCounted
<1>13. NoneStranded'
  <2> SUFFICES ASSUME NEW c \in Changes, message'[c] = "in_flight"
               PROVE  \E j \in Invocations : \E k \in DOMAIN run'[j].batch : run'[j].batch[k] = c
    BY DEF NoneStranded
  <2>1. c \notin mine /\ message[c] = "in_flight"
    BY <1>8
  <2>2. PICK j \in Invocations : \E k \in DOMAIN run[j].batch : run[j].batch[k] = c
    BY <2>1 DEF QueueInv, NoneStranded
  <2> QED BY <1>3, <1>5, <2>1, <2>2
<1>14. DeletedWasSent'
  <2> SUFFICES ASSUME NEW c \in Changes, message'[c] = "deleted"
               PROVE  c \in confirmed /\ emails'[c] > 0
    BY DEF DeletedWasSent
  <2>1. c \in confirmed /\ emails[c] > 0
    <3>1. CASE c \in mine
      BY <1>3, <1>8, <3>1
    <3>2. CASE c \notin mine
      BY <1>8, <3>2 DEF QueueInv, DeletedWasSent
    <3> QED BY <3>1, <3>2
  <2>2. emails[c] \in Nat /\ emails'[c] \in Nat /\ emails[c] <= emails'[c]
    BY <1>1 DEF QueueTypes
  <2> QED BY <2>1, <2>2
<1> QED BY <1>9, <1>10, <1>11, <1>12, <1>13, <1>14 DEF QueueInv

\* The loop has come to its end: every record is in batchItemFailures or was sent.
LEMMA ReturnStep ==
    ASSUME QueueInv, NEW i \in Invocations, Return(i)
    PROVE  QueueInv'
<1>1. QueueTypes
  BY DEF QueueInv
<1>2. \A k \in DOMAIN run[i].batch : k < run[i].next
  BY <1>1 DEF Return, HasRecord, QueueTypes, Working
<1>3. \A k \in DOMAIN run[i].batch : run[i].batch[k] \notin run[i].failures =>
          run[i].batch[k] \in confirmed /\ emails[run[i].batch[k]] > 0
  BY <1>2 DEF QueueInv, LoopKeepsScore
<1>4. run[i].failures \in SUBSET Changes /\ emails \in [Changes -> Nat]
  BY <1>1 DEF QueueTypes, Working
<1>5. \A x \in Changes : emails[x] <= emails[x] /\ emails[x] <= receives[x]
  BY <1>4 DEF QueueInv, CopiesCounted
<1> QED BY <1>3, <1>4, <1>5, RunEnds DEF Return

\* The Lambda is killed in a send: the whole event comes back, and the copy that
\* may have gone out is charged to the receive in hand.
LEMMA TimeOutStep ==
    ASSUME QueueInv, NEW i \in Invocations, TimeOut(i)
    PROVE  QueueInv'
<1> DEFINE c == Record(i)
<1>1. QueueTypes /\ HasRecord(i)
  BY DEF QueueInv, TimeOut
<1>2. run[i] \in Working /\ run[i].next \in DOMAIN run[i].batch /\ c \in Changes
  BY <1>1 DEF QueueTypes, Working, HasRecord, Record
<1>3. PICK accepted \in {0, 1} : emails' = [emails EXCEPT ![c] = @ + accepted]
  BY DEF TimeOut
<1>4. emails[c] < receives[c] /\ c \in ToSet(run[i].batch)
  BY <1>2 DEF QueueInv, CopiesCounted, Record, ToSet, Working
<1>5. /\ emails' \in [Changes -> Nat]
      /\ \A x \in Changes : emails'[x] = IF x = c THEN emails[x] + accepted ELSE emails[x]
      /\ \A x \in Changes : emails[x] \in Nat /\ receives[x] \in Nat /\ emails[x] <= receives[x]
  BY <1>1, <1>2, <1>3 DEF QueueTypes, QueueInv, CopiesCounted
<1> HIDE DEF c
<1>6. /\ \A x \in Changes : emails[x] <= emails'[x] /\ emails'[x] <= receives[x]
      /\ \A x \in Changes : x \notin ToSet(run[i].batch) => emails'[x] = emails[x]
  BY <1>4, <1>5
<1>7. /\ ToSet(run[i].batch) \in SUBSET Changes
      /\ \A k \in DOMAIN run[i].batch : run[i].batch[k] \in ToSet(run[i].batch)
  BY <1>2 DEF ToSet, Working
<1> QED BY <1>5, <1>6, <1>7, RunEnds DEF TimeOut
-----------------------------------------------------------------------------
\* The invariant holds in every state the producers, the queue and the Lambda
\* can reach, in whatever order they act.
THEOREM QueueKeepsItsBooks == QueueSpec => []QueueInv
<1>1. QueueInv /\ [QueueNext]_queueVars => QueueInv'
  <2> SUFFICES ASSUME QueueInv, [QueueNext]_queueVars PROVE QueueInv'
    OBVIOUS
  <2>1. ASSUME NEW c \in Changes, CommitChange(c) \/ Announce(c) \/ AnnounceNot(c)
        PROVE  QueueInv'
    BY <2>1, ProducerStep
  <2>2. ASSUME NEW i \in Invocations, Invoke(i) PROVE QueueInv'
    BY <2>2, InvokeStep
  <2>3. ASSUME NEW i \in Invocations, Work(i) PROVE QueueInv'
    BY <2>3, LoopStep, ReturnStep, TimeOutStep DEF Work
  <2>4. CASE UNCHANGED queueVars
    BY <2>4 DEF queueVars, QueueInv, QueueTypes, HandedOnce, LoopKeepsScore, CopiesCounted,
                NoneStranded, DeletedWasSent
  <2> QED BY <2>1, <2>2, <2>3, <2>4 DEF QueueNext, Settled
<1> QED BY <1>1, QueueStarts, PTL DEF QueueSpec

\* Every variable keeps its type: in particular nothing hands a message that is
\* being worked on to a second invocation.
THEOREM NotificationsTyped == QueueSpec => []QueueTypeOK
<1>1. QueueInv => QueueTypeOK
  <2> SUFFICES ASSUME QueueInv PROVE QueueTypeOK
    OBVIOUS
  <2>1. QueueTypes /\ HandedOnce
    BY DEF QueueInv
  <2>2. ASSUME NEW i \in Invocations
        PROVE  run[i].elapsed \in 0 .. Timeout /\ run[i].failures \subseteq Changes
    BY <2>1, SizeAssumption DEF QueueTypes, Working
  <2> QED BY <2>1, <2>2 DEF QueueTypeOK, QueueTypes, HandedOnce, Places
<1> QED BY <1>1, QueueKeepsItsBooks, PTL

\* lambda_handler acknowledges a record only after Resend has accepted its
\* e-mail, however its event's other records fare.
THEOREM NothingIsDroppedUnsent == QueueSpec => []DeletedWasSent
<1>1. QueueInv => DeletedWasSent
  BY DEF QueueInv
<1> QED BY <1>1, QueueKeepsItsBooks, PTL

\* max_receive_count bounds the copies of an e-mail, time-outs and sends whose
\* answer was lost included.
THEOREM CopiesStayBounded == QueueSpec => []CopiesAreBounded
<1>1. QueueInv => CopiesAreBounded
  BY SizeAssumption DEF QueueInv, QueueTypes, CopiesCounted, CopiesAreBounded
<1> QED BY <1>1, QueueKeepsItsBooks, PTL

\* Whatever is in flight belongs to an invocation: a batch that ends leaves none
\* of its messages hidden for good.
THEOREM NoMessageIsStranded == QueueSpec => []NoneStranded
<1>1. QueueInv => NoneStranded
  BY DEF QueueInv
<1> QED BY <1>1, QueueKeepsItsBooks, PTL
=============================================================================
