# A TLA+ verification of the gifting backend

The repository is the backend of a corporate-gifting shop: a FastAPI service
(`app/`) with a WhatsApp agent and a storefront API, a set of Lambda functions for
a second storefront (`storefront/`) and for the back office (`admin_api/`), a queue
of order notifications (`notifications/`), embedding jobs, and the CDK stacks that
deploy them. This directory models the parts whose correctness depends on what
happens at the same time, on what fails half-way and on the order of events.
Everything is model-checked with TLC on small instances; the safety properties that hold, and that
the order service and the carts implement their abstract specifications, are proved with TLAPS for every instance.

## 1. Inventory

Paths are relative to `src/`.

### Order service of the app

*Code:* `app/services/order_service.py`, `app/services/inventory_service.py`,
`app/db/repositories/{inventory,order,payment,cart}_repo.py`, `app/db/session.py`,
called from `app/api/orders.py` and `app/api/payments.py`.

*State:* the Postgres tables `inventory` (per variant and warehouse: on hand,
reserved), `carts`, `orders` with `order_items`, `payments`. In memory: the
SQLAlchemy session of the request.

*Operations:* `checkout`, `cancel_order`, `record_shipment`, `record_payment`,
`confirm_payment` (the payment gateway's webhook). Each runs in one `get_session()`
transaction under READ COMMITTED: commit on return, rollback on any exception.

*Hard behaviours:* inventory rows are locked with `FOR UPDATE` one at a time, and
order, cart and payment rows are read without a lock; the lines of an order are in
no defined order, so two orders may lock rows in opposite orders; requests may be
repeated, overlap, or die.

*Correct when:* stock is never oversold and never drifts from the orders; no update
is lost; a cart becomes one order; a cancellation releases once; a webhook applies
once; an order's payment status agrees with its payments; all of an operation
happens or none of it; every request ends.

### WhatsApp agent

*Code:* `app/agent/graph.py`, `app/agent/nodes/*`, `app/agent/slot_schema.py`,
`app/services/session_service.py`, `app/services/conversation_orchestrator.py`.

*State:* `AgentState` (stage, gifting requirements called slots, candidates,
shortlist, the pending reply, outbound messages), of which a part is kept as JSON
in `conversation_sessions.session_state`; the recommendation log; and, outside the
program, the list rows and buttons still on the user's phone.

*Operations:* a turn: load the saved state, route the message, run the nodes
(collect requirements, search, curate, present, refine, finalize), send, save.

*Hard behaviours:* the language model may answer anything its schema allows; an old
row can be tapped at any time; a turn may fail at any node; the state of one turn is
the input of the next; derived budget numbers interact with later answers.

*Correct when:* the shortlist holds real candidates only; a confirmed answer is not
overwritten; refining never loses a requirement; the user always gets an answer; the
gift confirmed is the one tapped; one selection is handed to the sales team.

### Webhook and sessions

*Code:* `app/api/webhook.py`, `ConversationOrchestrator.handle_inbound`,
`app/db/repositories/session_repo.py`.

*State:* the rows of `conversation_sessions`; background tasks in memory.

*Operations:* accept a POST and answer 200; per message one task with one
transaction: `get_or_create`, `load_state`, the turn, the sends, `save_state`, commit.

*Hard behaviours:* posts are handled concurrently, and a user may write again before
being answered; nothing makes the number unique; tasks die with the server; Meta
repeats a message whose 200 got lost.

*Correct when:* a number has one session; a conversation resumes where it left off; a
turn is remembered only if it was answered; every accepted post is worked off.

### Notifications

*Code:* `notifications/handler.py`, `notifications/resend_client.py`, the producers
`storefront/services/notifications_service.py` and
`admin_api/handlers/orders_handler.py`, `infra/cdk/notifications_stack/notifications_stack.py`.

*State:* the SQS queue with its dead-letter queue; the e-mails sent.

*Operations:* commit a change, announce it, hand a batch to an invocation, send each
record, report the failed ones, time out.

*Hard behaviours:* the announcement is outside the transaction; a send may be
accepted with no answer seen; the Lambda's timeout ends a batch half-way; batches
come concurrently and in any order.

*Correct when:* a message is only deleted after its e-mail was accepted; a customer
gets a bounded number of copies; each message is deleted or dead-lettered; only what
failed is retried.

### Carts

*Code:* `app/api/cart.py`, `app/db/repositories/cart_repo.py`;
`storefront/handlers/cart_handler.py`, `storefront/db/repositories/cart_repo.py`.

*State:* `carts` and `cart_items`, shared by both programs.

*Operations:* view, add, update, remove, clear, and the checkout that closes the cart.
In the app a request is one transaction; in the storefront each statement commits.

*Hard behaviours:* the active cart is found by SELECT and created when there is none, with
no unique constraint; the new quantity is computed from the one read; item ids of earlier
answers come back; prices change between adding and ordering; in the app the SQLAlchemy session
of a request goes on showing the items it loaded first.

*Correct when:* a customer who waits for answers has one basket that changes by exactly
what was asked and is ordered as it was shown; nobody ever gets more than was asked for.

### Gift-box orders: storefront and back office

*Code:* `storefront/services/order_service.py`, `storefront/handlers/orders_handler.py`,
`payments_handler.py`, `admin_api/handlers/{orders,quotes,dashboard}_handler.py`, and the generic
update of `admin_api/services/resource_service.py` on `orders`, `payments` and `quotes`.

*State:* `orders`, `order_status_history`, `payments`, `shipments`, `quotes`, `audit_logs`, all
through peewee, whose `save()` writes every column as it was read.

*Operations:* checkout, cancel, ship, record and confirm a payment, change the status, convert a
quote, write a status through the generic update, and the reads.

*Hard behaviours:* rows are read without a lock and often outside the transaction that
writes them; the audit record and the message follow the commit in statements of their own; the
generic update writes the same columns with no check, no timeline and no message.

*Correct when:* payment and order agree and stay so; the timeline shows what staff set; a quote
becomes one order; what customers are told did happen.

### Back-office resources and the catalog

*Code:* `admin_api/services/{resource_service,resource_registry,audit_service}.py`,
`admin_api/db/query_builder.py`, `admin_api/config/resources.yml`; `app/jobs/embed_products.py`,
`app/jobs/scheduler.py`; `app/search/*`, `app/db/repositories/catalog_repo.py`.

*State:* `products`, `gift_boxes`, `gift_box_items`, `product_embeddings`, `audit_logs`; the points in
Qdrant.

*Operations:* create, update, delete, list, detail, related and lookup for any table of the
registry; filling a box's contents line from its items; the nightly job; the gift search.

*Hard behaviours:* an update reads, writes, audits and fills in statements that each commit;
the job writes to two stores, of which one cannot be rolled back; both halves of a search share
one database session; three programs write the status of a product.

*Correct when:* the audit log explains the tables; wording typed by staff is kept; the search
offers what is on sale in the band of the budget; every active product is embedded in the end.

### Accounts

*Code:* `storefront/handlers/common/{auth,cognito_trigger}.py`,
`storefront/services/auth_service.py`, `storefront/handlers/{auth,addresses}_handler.py`,
`app/api/{auth,deps}.py`, `admin_api/services/auth_service.py`.

*State:* `users`, `addresses`, the tokens customers hold.

*Operations:* provision on sign-up or first request, login, profile, rename, addresses, staff's edits
and deletions.

*Hard behaviours:* the sign-up trigger and several first requests race; a rename saves the whole row;
staff can change an e-mail to one that is taken; tokens outlive what they say of their owner; `is_active` may be null and is read in two ways.

*Correct when:* a customer has one account with all of its addresses; who is deactivated is
not served.

### Not modelled

| Part | Why |
|---|---|
| Prompts, model and tool calls (`app/agent/prompts.py`, `app/agent/tools`, `llm_service.py`) | no state; the answers are free choices in `AgentTurn` |
| Offers, campaigns, images (`admin_api/handlers`) | single-row writes and presigned URLs; no second actor |
| Storefront catalog (`catalog_handler.py`) | reads only |
| Generic updates of orders, payments and quotes but for their statuses and an order's quote; rows inserted or deleted there | a payment moved to another order or reference, an order entered by hand, a quote deleted: further ways around the handlers, with the same effect as those in `Edit` |
| Stock of legacy order lines in the storefront's `cancel_order` and `record_shipment` | its checkout creates none; the same loops are in `OrderService` |
| Token and password cryptography | an outcome: a request is turned away or not |
| Interactive CLI, local runners, CDK, migrations, logging | no state at run time; their settings are constants, the constraints of the tables are part of the models |

How the parts interact: the webhook starts turns of the agent (`Conversations` and
`AgentTurn` meet at the saved state: for the one a turn is an element of a sequence,
for the other a graph walk; both use `WhatsApp` for what crosses the wire). The agent
searches the catalog (`Catalogue` has a search with all its statements, `AgentTurn` takes
its result as a free choice) and does not touch orders. A cart becomes an order at
checkout: `Carts` has it as the closing of a cart, `OrderService` and `OrderDesk` as
its beginning. Both order services and the admin API write the same tables and,
except for the app's own, announce changes on the queue of `Notifications`.

## 2. Modules

| Module | Models |
|---|---|
| `InventoryRows` | `inventory_service.py`: `available`, `can_reserve`, `reserve`, `release`, `fulfill`, and which row `lock_for_variant`'s caller picks |
| `OrderService` | the five operations at the granularity of SQL statements, with row locks, snapshots, crashes and deadlocks |
| `OrderLedger` | the abstract specification: each operation is one step over the four tables |
| `MCOrders` | instances of `OrderService` |
| `OrderServiceProofs` | theorems about `OrderService`: those that hold whoever calls it, then that it implements `OrderLedger`, and that stock matches orders |
| `GiftSlots` | `slot_schema.py` and the pure part of `handle_refinement.py`: merging, derived budgets, refinement, next question |
| `WhatsApp` | `app/whatsapp`: posts taken apart into messages, the bodies sent back, what a send may have delivered; pure operators |
| `AgentTurn` | the graph, node by node, loading, dispatching and saving |
| `MCAgent` | instances of `AgentTurn` |
| `AgentTurnProofs` | theorems about `AgentTurn` |
| `Conversations` | webhook, background tasks, session rows and the transaction of a turn |
| `MCConversations` | instances of `Conversations` |
| `ConversationsProofs` | theorems about `Conversations` |
| `Notifications` | producers, SQS, the notifications Lambda; its constants are plain, so its configuration uses it directly |
| `Carts` | both cart APIs on the same two tables, statement by statement, with checkouts and price changes |
| `Baskets` | the abstract specification: a basket per shopper that changes by what was asked |
| `MCCarts` | instances of `Carts` |
| `CartsProofs` | theorems about `Carts`, and that it implements `Baskets` |
| `OrderDesk` | gift-box orders, payments, shipments, quotes, timeline, audit and announcement |
| `MCDesk` | instances of `OrderDesk` |
| `OrderDeskProofs` | theorems about `OrderDesk`, and about `Notifications`; it extends both, whose names are apart |
| `ResourceService` | the generic resource endpoints on the catalog's tables, with registry, audit and autofill |
| `CatalogSearch` | what the halves of a search select and how hits are merged and counted; pure operators |
| `Catalogue` | extends `ResourceService` with the import, the embedding job and a search |
| `MCCatalogue` | instances of `Catalogue` |
| `CatalogueProofs` | theorems about `Catalogue` and with it `ResourceService` |
| `Accounts` | users, addresses and tokens under the storefront, the app, Cognito's trigger and staff |
| `MCAccounts` | instances of `Accounts` |
| `AccountsProofs` | theorems about `Accounts` |
| `Lists` | lists as values of constants, and filtering one in a loop; pure operators |
| `SequenceFacts` | lemmas about lists, sums over finite sets and what can be counted |

`PROJECT.json` maps every definition to the lines it translates.

### OrderService: variables and actions

`stock`, `carts`, `orders`, `payments` are what is *committed*. `rowLock` and
`payLock` say which transaction holds which row. `phase[r]` is where request `r` is,
`tx[r]` what its handler holds in memory (lines left, line at hand, last warehouse
locked, order status read, payment row read), `draft[r]` the inventory rows as its
session sees them. An order is named after the checkout that places it and a payment
after the `record_payment` that inserts it, so no identifiers are generated.

| Code | Actions |
|---|---|
| `checkout` | `CheckoutStarts`, `CheckoutRejected`, the lines, `LineShort`, `CheckoutCommits` |
| `cancel_order` | `CancelStarts`, `CancelNoop`, `CancelRejected`, the lines, `CancelCommits` |
| `record_shipment` | `ShipStarts`, `ShipRejected`, the lines, `ShipCommits` |
| one line: `lock_for_variant`, then reserve, release or fulfill | `LockRow` (one per row, in warehouse order), `ApplyLine` |
| `record_payment` | `PayReads`, `PayNoop`, `PayRejected`, `PayCommits` |
| `confirm_payment` | `ConfirmReads`, `ConfirmNoop`, `ConfirmReadsOrder`, `ConfirmCommits` |
| rollback in `get_session` after the process or connection dies | `Crash` |
| Postgres' deadlock detection | `DeadlockAbort` |

Left out: amounts, invoices, shipment rows and audit rows (nothing here reads them
back), and operations that only read.

The constant `OrderlyCallers` is a promise of the environment, not of the code. When
it is TRUE, two requests that concern one cart or one order do not overlap, and only
orders that still hold their reservation are shipped. Which properties need that
promise is one of the results of section 3.

### AgentTurn: variables and actions

`saved` is the persisted state, `turn` the `AgentState` of the turn under way, `node`
the node about to run, `chat` what can still be tapped, `selections` the selections
logged for the current shortlist. Every node has an action per outcome: `Greet`,
`RouteTap`, `RouteText`, `RouteNewRequest`, `Smalltalk`, `RouteToSlots`
(`route_intent` and the edges behind it); `CollectAndAsk`, `CollectAndSearch`;
`SearchCatalog`; `CurateNothing`, `Curate`; `PresentOptions`; `HandleRefinement`;
`FinalizeSelection`, `AskToTap`; then `Dispatch` and `Save`. `Fail` is an exception in
any of them: the turn is rolled back and what was sent stays sent. Items carry both
the `ref_id` the code compares and the `gift` the user reads, because for web ideas
the two part ways: there the id is an index into one search's result.

### Conversations: variables and actions

`sessions` and `state` are the committed rows, `rowLock` who has updated one, `phase`,
`at`, `row` and `memory` the background task of each post; `sent` and `finished` record
what happened. A saved state is represented by the sequence of turns it has grown
from, so a lost turn is a missing element. `GetOrCreate`, `LoadState` and `SaveState`
are three lookups, each of which raises if there are two rows (`LookupRaises`).
`Skip`, `Answer`, `Commit`, `Fail` and `Crash` complete a task.

### Notifications: variables and actions

`message[c]` is where the message about change `c` is, `receives[c]` how often it was
handed out, `run[i]` the batch, position, failures and running time of an invocation,
`emails[c]` how many copies Resend accepted, `confirmed` what the handler saw
succeed. `CommitChange`, `Announce`, `AnnounceNot`, `Invoke`, `SendAccepted`,
`SendFails`, `Return`, `TimeOut`.

### Carts: variables and actions

`carts` and `items` are the committed rows, `req[r]` where request `r` is and the rows it holds,
`call` the workload and `overlap` how many requests a user may have at work at once. `Receive`,
`Look` and `Create` (`get_or_create_active`), `Read`, then `Write` and `Show` in the storefront or
`Commit` and `RowIsGone` in the app; `PlaceOrder` is the checkout of either. `shown` is
the last answer a user got and `placed` what was ordered; both are there to state properties.

A request of the app answers from its SQLAlchemy session, `loaded`: the lines of `cart.items` as they
were when the cart was read (`Load`, or within `Hold` where the read is the next thing done). The write
sets quantities of those objects; rows it adds with `session.add` or deletes with `session.delete` do
not enter or leave the loaded collection, and the second `get_or_create_active` finds the same cart in
the identity map and, without `populate_existing`, does not load it again. So the answer is `Remembered`,
and `Outdated` are the items it has wrong: the one just added, or those just deleted. The storefront reads the
items anew (`Show`), and so does a view. A quantity equal to the one in the session is not written
at all (`NothingToWrite`).

### OrderDesk: variables and actions

Each task has a reading and a committing action (`CancelReads`, `CancelCommits`, ...), because the row
is read before the transaction or without a lock and written whole; `MoveAudits`,
`ConvertAudits` and `Tell` come after the commit. `raced` collects the orders and quotes that were
written from a row that was no longer current: the properties that cannot hold of these
name it, and `desk_lost_payment` shows what happens to them. `committed` remembers the changes of
status that did happen.

`Edit` is the generic update: `EditReads` (the row for the audit record), one commit for each table
(`EditOrderCommits`: the status or the quote of an order; `EditPaymentCommits`; `EditQuoteCommits`), which writes the
named column into the row as it is now, and `EditAudits`. `edited` remembers what it wrote: the
status of an order, the payments of an order, the conversion of a quote. Each property that such a
write breaks by itself names the one mark it concerns and holds of everything else, also of rows that other steps handle after
an edit.

### ResourceService, CatalogSearch and Catalogue

A write goes through `Receive` (registry, groups, payload), `LookUp` (the row for the audit
record), `Write`, `Audit`, and for items of a box `ReadLine`, `Gather` and `FillLine` for each
box concerned. `List`, `Related`, `Lookup` and `Detail` are the reads. A contents line is
`[by, of]`: blank, typed by staff, or made of a set of items. An item may name no box and no product:
both columns are nullable and the registry asks only that the payload names them. In `Catalogue` the job reads once
(`JobStarts`), then `UpsertPoint` and `UpsertRow` per product, where `draft` is what its open
transaction has written; `RowRefused`, `JobFails` and `JobCommits` end it. A search interleaves
`ReadProducts` and `ReadBoxes` with `AskQdrant` and `Hydrate`; `Hydrate` fails when the other half
still uses the session.

### Accounts: variables and actions

`users` and `addresses` are the rows, `token` what the app has issued. `Identify`,
`Confirm` and `Provision` are `resolve_user` and the trigger; `Me`, `Rename`, `ListAddresses`,
`CreateAddress`, `Deliver` the storefront; `Login` and `AppRequest` the app; `IdentifyStaff`,
`StaffMe`, `Edit` and `RemoveUser` the back office. `barred` and `readmitted` remember whom staff have
deactivated and whom a write has made active again.

## 3. What TLC checks

The numbers of distinct states are those of the configurations as they stand. Every
property is violated by some plausible bug: `PROJECT.json` lists, for each, a wrong
version of a mapped definition with which TLC finds the violation. Those versions are
the definitions marked "Mutant of" in the modules; no specification uses them.

| Run | Question | States |
|---|---|---|
| `orders_concurrent` | requests overlap at will: is stock safe, do tables agree, does everything end? | 15,824 |
| `orders_serial` | requests on one cart or order do not overlap: does the service implement the ledger? | 110,720 |
| `orders_double_cancel` | do overlapping cancellations release twice? (yes) | |
| `agent_turns` | any four turns of a conversation | 553,479 |
| `agent_stale_tap` | does a tap confirm the gift on its row? (not always) | |
| `conversations` | four posts, three numbers, failures and crashes | 170,106 |
| `notifications` | two changes, two invocations, failures and timeouts | 13,470 |
| `carts` | four cart requests of a shopper, on both APIs, waiting for answers or not | 713,766 |
| `desk` | four requests of customers, staff and the gateway about one order | 951,734 |
| `desk_lost_payment` | can a payment be undone by a cancellation? (yes) | |
| `catalogue` | two edits, the import, the job and a search | 433,318 |
| `accounts` | five requests on accounts, by their owners and by staff | 346,646 |

### Order service

`orders_concurrent` has two checkouts whose lines cross on two variants, one of them in
two warehouses, with stock for one of the two orders but not for both; the first order
is cancelled, shipped, paid and confirmed while all this goes on; the first checkout
and the confirmation may die. In it, with no promise from the callers:
`StockWithinBounds` (no oversell), `DraftsStayFresh` (a locked row is still as it was
read, so no inventory update is lost), `PaidTogether`, `CartClosedByOrder`, and
`EveryRequestEnds`, which needs the deadlock detection: two orders do lock their rows
crosswise in this instance.

`orders_serial` sets `OrderlyCallers`. It has a cart checked out twice, another cart
that competes for the last unit of a variant, two cancellations, a shipment, two
payments with one reference and two webhook deliveries. `StockMatchesOrders` and
`AtomicOperations`: the tables seen alone behave as `OrderLedger`, where each operation is
one step. The ledger places a cart once, releases an order's stock once, applies a
webhook once and writes nothing over a final status, so the refinement says all of
this. The mapping is the identity on the four tables; the handlers'
memory and the locks are hidden. Requests on *different* carts still overlap here,
so the ledger step must be explained by the tables at the commit, although the
rows were read earlier; the lock makes that true.

Both are *not* true of the code in general. Without the promise the order row,
read without `FOR UPDATE`, lets two cancellations release twice
(`orders_double_cancel`), a confirmation overwrite a cancellation that commits
between its read and its write, a cart be checked out twice, and a replayed webhook
report its transition twice; and `record_shipment` checks no status, so
an order already shipped or cancelled can be shipped. `orders_double_cancel` is the one
whose opposite a docstring of `cancel_order` promises, and is reported as a finding.
`StockMatchesOrders` needs one more condition, one warehouse per variant: order lines do
not say which warehouse they were reserved in, a cancellation releases in the one with the most
available units, and the clamp at zero swallows what that row had not reserved.
The initial reservation in `SerialStock` stands for orders outside the instance;
without it a release too many would be hidden by that clamp.

### Agent

`agent_turns` has four turns with five possible extractions (silence, an occasion, a
lump sum, a budget per head for zero people, a contradiction), five refinements, three
search results, three rankings that share ids across kinds and repeat one entry. Four turns
are enough for: present, refine or search again, present another list, tap an old row.
`ShortlistIsReal`, `AnswersAreKept`, `RequirementsSurviveRefinement`,
`OneSelectionPerShortlist`, `EveryTurnEnds`. `agent_stale_tap` is the finding: a tap on a
row that is no longer on the list takes the fallback meant for free text and confirms the
top-ranked gift; a web idea's row, whose id is an index, resolves to the idea which
has that index now.

### Conversations

Four posts: a new user who waits for answers, a new user who does not, a returning
user who does not, photos and delivery reports between the messages, and a post with a
wrong signature. `Sequential` holds the
numbers whose messages do not overlap. For them a session has grown from every
committed turn (`ResumesWhereItLeftOff`); for them and for the returning ones there is
one row (`SettledNumbersKeepOneSession`). For a new user who does not wait neither holds:
two first messages insert two rows, after which each lookup of that number raises.
`AnsweredBeforeSaved` and `EveryPostEnds` hold for all. "Answered" means that the sends
were attempted: the orchestrator logs a send that fails and goes on.

### Notifications

A batch size of 2, 3 receives, 15 s timeout and sends of 1 or 10 s keep the proportion
that matters: two slow sends do not fit into one invocation, as 10 do not with the
deployed values (10, 3, 15 s, up to 10 s). `DeletedWasSent`, `CopiesAreBounded`,
`EveryMessageSettles`. A batch is only ever one invocation's: the model has the visibility
timeout outlast the Lambda's, as the stack sets it. SQS redelivering a message it has
been told to delete is not modelled. When an invocation times out all of its batch is retried,
also what was sent; `CopiesAreBounded` counts these copies.

### Carts

Four workloads of one shopper, each a set of four requests in any order: additions,
an update in the other API, a removal, a clearing and a checkout, with a minimum quantity
on the gift box and no price on the variant. A second shopper's cart stands by, so that an id
of somebody else's item can be asked for. With `overlap` 1 the shopper waits for answers:
`CartsKeepTheirPromise` (the refinement of `Baskets`; the mapping takes the newest active cart's
quantities) and `OrderedAsShown` hold, through one request that dies anywhere and one change of price.
`OrderedAsShown` says exactly what the answers are worth: after an answer of the storefront, or of a view,
the order has the lines that were shown, at those prices; after a write in the app it has them but for the items
this write added, which are not listed and are ordered, and deleted, which are listed and are not ordered
(section 5).
With `overlap` 2 or 3 they do not: two first additions open two carts and only the newer is seen
again, and of two additions of one product the later write wins. What holds
whatever overlaps is `NeverMoreThanAsked`: updates are lost, never invented.

### Orders at the desk

Fourteen encounters of four requests, so that each pair of operations that touches one row meets:
payments with one reference, notices that come twice, cancellations, shipments, three
status changes by staff, two conversions of a quote, generic updates of order, payment and quote
among these, and every read. One request may be turned away, die or fail
to audit. `PaidOrdersShowPaid`, `StaffStatusesAreOnTheTimeline` and `OneOrderPerQuote` hold of every
row that was not saved from an outdated read (`raced`) and whose status, payments or conversion
the generic update did not write (`edited`); `ToldWhatHappened` holds of all. The first of these exceptions
takes in what two requests at once do to one row, so these three properties are about crashes between statements,
sequences of steps and reads between them, not about lost updates. The second is the disagreement of section 5.
`desk_lost_payment` is the finding: a cancellation that read the order before the
payment was confirmed writes the old payment status back.

### Catalogue

Two requests of staff at a time on two products, a third to be created, two boxes and two items, with the import
changing one price, the job failing once and one search. The slots cover a budget per head, a total for two
people with theme, branding and minimum, and none; limits of one and two rows make `LIMIT` choose.
`AuditReplays`: the log, replayed, gives the rows, unless overlapping edits or a death before the
record interfered. `CustomWordingKept`: a line typed by staff changes only by staff, unless the typing
overlapped a filling. `SearchKeepsToTheShelf`: with a budget. Without one the semantic half sets no filter
and shows withdrawn products; that is how the code is and is not called a fault by its documents. (With
the values in the code the job embeds products whose status is `ACTIVE` and the filter asks for `active`,
so with a budget there is no semantic hit at all: section 4 proves it.)
`EveryActiveProductIsEmbedded`: a product that stays `ACTIVE` has its point and its row in the end.

### Accounts

Nine occasions of five requests: sign-up against two first requests; renames against
deactivation and readmission; a login of an account older than Cognito; a demoted member of staff; a
deletion against the creation of an address; two customers' addresses; `is_active` set to null; e-mails
edited to one that is taken, one that a newcomer has and one that is free. Two requests may be refused or
die. `AddressesAreFound` and `DeactivatedStaysOut`; the second allows for
`readmitted`, because a rename that read the row before saves it active again.

### What the properties set aside

Several properties hold only of callers who wait for their answers or of rows no two requests raced for: `OrderlyCallers`,
`Sequential`, `overlap` 1, `raced`, `readmitted`. The code promises no more, since most rows are read without a lock. The
interleavings themselves are in the models and in the runs; what they can do to such rows is left open, so a fault
that needs the race is not one these properties would find. The hazards of `PROJECT.json` say in their notes what of them no property covers,
and where the model has it. Where the repository does promise
more, the finding has a run (section 5), or, where it has none, section 5 quotes the promise.

### Fairness

Only what must happen is fair. `OrderService`: `Proceed` of each request, since a handler
that is not waiting runs on, Postgres grants a free lock and aborts one of the waiters
on a cycle; nobody has to call anything and nothing has to crash. Weak fairness suffices in
the model because after a lock is released no request can take it for ever: every request is
made at most once. `AgentTurn` and `Conversations`: the event loop runs a turn and a
task on. `Notifications`: SQS polls while messages are visible and an invocation runs
to its end or its timeout; sends need not succeed and changes need not happen.
`Catalogue`: somebody starts the job again and again, the scheduler where `embeddings_schedule_enabled` is set (it is
not by default, `app/config.py:61`) or an operator's cron, and a run goes on, so `Job` is fair, and
`JobFails`, bounded, is not; staff, the import and searches are not fair. The other modules state no liveness
and no fairness.

### Bounds

Requests are made at most once each, which bounds everything in `OrderService`; a request
repeated is another request. `MaxTurns` bounds `AgentTurn`; posts are sent at most once in
`Conversations`; the receives bound `Notifications`. In `Carts`, `OrderDesk`, `ResourceService` and `Accounts`
each request is made once, `MaxFailures` bounds how many die, `MaxRows` the ids, `MaxRepricing` and `MaxClock` the
changes made from outside. Four or five requests are enough for two that overlap, one that read before
and one that looks at the result. These four, in which requests need not come, may stop
(`CHECK_DEADLOCK FALSE`); the others have a step for the end. Integers are as in Python
and small in the tables; no bound of a column is reached.

## 4. What TLAPS proves

The theorems hold for every value of the constants: any number of requests, rows, posts,
users or turns, any workload, any crashes. Each property below, but for `NoneStranded`, `PatientInv`, `SessionInv` and
`NoneForABudget` which only the proof modules define, is also checked by a run, so that the theorem is known to be about states that occur.

| Theorem | States |
|---|---|
| `TypeCorrect`, `NotificationsTyped`, `ConversationsTyped`, `DeskTyped`, `TurnsTyped`, `AccountsTyped`, `CartsTyped`, `CatalogueTyped` | `Spec => []TypeOK` of their component (`QueueSpec => []QueueTypeOK` in `Notifications`) |
| `NoOversell` | `Spec => []StockWithinBounds` |
| `LockedRowsStayFresh` | `Spec => []DraftsStayFresh` |
| `OrdersAndPaymentsAgree` | `Spec => []PaidTogether` |
| `CartsAndOrdersAgree` | `Spec => []CartClosedByOrder` |
| `OperationsAreAtomic` | `Spec => AtomicOperations`, for orderly callers with a reference per order |
| `BooksBalance` | `Spec => []StockMatchesOrders`, for orderly callers and a warehouse per variant |
| `NothingIsDroppedUnsent` | `QueueSpec => []DeletedWasSent` |
| `CopiesStayBounded` | `QueueSpec => []CopiesAreBounded` |
| `NoMessageIsStranded` | `QueueSpec => []NoneStranded`: what is in flight is in some running invocation's batch |
| `OneSessionForSettledNumbers` | `Spec => []SettledNumbersKeepOneSession` |
| `NoTurnIsForgotten` | `Spec => []ResumesWhereItLeftOff` |
| `SavedTurnsWereAnswered` | `Spec => []AnsweredBeforeSaved` |
| `PaymentsShow` | `Spec => []PaidOrdersShowPaid` |
| `TimelineTells` | `Spec => []StaffStatusesAreOnTheTimeline` |
| `QuotesConvertOnce` | `Spec => []OneOrderPerQuote` |
| `LogsTellTheTruth` | `Spec => []ToldWhatHappened` |
| `NoGiftIsInvented` | `Spec => []ShortlistIsReal` |
| `OneHandOff` | `Spec => []OneSelectionPerShortlist` |
| `NoAnswerIsOverwritten` | `Spec => AnswersAreKept`, an action property |
| `NoRequirementIsLost` | `Spec => RequirementsSurviveRefinement`, an action property |
| `NobodyReturnsUnasked` | `Spec => []DeactivatedStaysOut` |
| `AddressesStayTogether` | `Spec => []AddressesAreFound` |
| `NothingIsAddedTwice` | `Spec => []NeverMoreThanAsked` |
| `OneCartAtATime` | `Spec => [](PatientInv /\ SessionInv)`: who waits for answers has one active cart, with one item of a product, it is as last shown but for the items the app's answer is behind with, and what a session has loaded is what the cart had before the write |
| `OrdersAreAsShown` | `Spec => OrderedAsShown`, an action property |
| `CartsAreBaskets` | `Spec => CartsKeepTheirPromise`: the refinement of `Baskets` |
| `AuditLogReplays` | `Spec => []AuditReplays` |
| `WordingIsKept` | `Spec => CustomWordingKept`, an action property |
| `SearchStaysOnTheShelf` | `Spec => []SearchKeepsToTheShelf` |
| `BudgetsFindNothingByMeaning` | `Spec => []NoneForABudget`: the vector store has nothing to answer a search with a budget |

### Assumptions

The named assumptions of the modules are what a configuration must satisfy to describe this
system at all; TLC evaluates them in every run.

- `StockAssumption`, `RequestAssumption` (`OrderService`): warehouse ids are finitely many positive numbers, the
  inventory starts with nothing oversold, the default warehouse is one of them or none; finitely many
  requests, each one of the five operations on an order that some checkout places; the lines are sequences of
  variants with natural numbers of units.
- `SizeAssumption` (`Notifications`): finitely many changes, a batch and a receive count of at least one.
- `PostAssumption` (`Conversations`): the body of a post is made of lists, `Returning` and `Sequential` are
  numbers, and what the posts come from are numbers too.
- `DeskAssumption`, `NoneAssumption` (`OrderDesk`): names of requests, orders and quotes are apart, `None` is no row,
  and no quote is called like a status.
- `AgentAssumption` (`AgentTurn`): the extractions have the schema's types, the values of refinements that change a
  budget or a count are numbers or null, and rankings are lists. That is what Pydantic enforces on the model's answers;
  which gifts a ranking names, and what is extracted, is free.
- `AccountAssumption` (`Accounts`): at the start e-mails and identities are unique and the rows typed; staff edit the
  registry's editable columns.
- `RowsAssumption`, `TasksAssumption` (`ResourceService`), `ImportAssumption` (`Catalogue`): products, boxes and items have
  ids of their own, the first rows are of their tables' columns and refer to rows that are there; a change that names one of the
  three tables names an id of it, values its columns can have (what Postgres lets in) and, for a new row, an id that no other
  request is given (its sequence); the import changes products' prices. Which columns a payload names, whether it
  may, and who asks is free.
- `CartAssumption` (`Carts`): finitely many requests, each one of the six operations for a positive quantity (what the request
  bodies and Pydantic let through); minimum quantities and prices are natural numbers, the ids suffice for the
  carts there are at the start, and `None` is neither a user nor an answer.

Two theorems have hypotheses of their own, which are promises of the environment and not of the code:

- `OrderlyCallers` (both): requests about one cart or order do not overlap. `orders_double_cancel` shows that
  without it stock is released twice.
- `OneOrderPerReference` (`OperationsAreAtomic`): no two payments with one reference are of different orders. The column
  `payments.transaction_reference` is not unique and `record_payment` looks for the reference alone, so a concurrent
  payment of another order can appear between its look and its insert; the ledger, which looks and inserts in one step, would
  have answered with that payment.
- `OneWarehouse` (`BooksBalance`): no variant is in two warehouses. Else a cancellation can release in a row that
  the checkout did not reserve in, and the clamp at zero loses the difference.

TLC finds a violation of the refinement, or of the books, when one of these is dropped; `orders_serial` satisfies all three.

### Order service

`TypeOK` is not inductive: `ApplyLine` indexes the lines and the inventory with what the
handler remembers. `TypeInv` adds `HandlerOK`: the line at hand is among those left,
those left are lines of the order, and a confirmation has a payment row to write.

`NoOversell` and `LockedRowsStayFresh` rest on one idea: what a transaction publishes is
its draft, so the draft must be within bounds and must agree with the committed row
as long as the lock is held. A row changes only at the commit of the transaction that
holds its lock, and no other transaction has a draft of that row that it could write.
The lemmas `ReserveRow`, `ReleaseRow` and `FulfillRow` say what the arithmetic does to one
row (the clamps and the check before reserving are what keeps `reserved <= quantity`);
`StockStep` reduces the next-state relation to the three kinds of step that touch
inventory.

`PaidTogether` and `CartClosedByOrder` compare tables that two different operations
write, so neither is inductive: a confirmation might write to an order that is not
there, a second checkout might insert again. `TablesInv` says that a row exists only once
the request that inserts it is done, that a payment's order exists, and that what a
handler read as existing still exists when it writes.

`OperationsAreAtomic` is the refinement of `OrderLedger`. Most steps are stutters; the six that commit must be one step of the
ledger, which handles the lines in some order on the *present* tables, while the handler has handled them one
by one on rows it read at different times. `ReplaysInv` closes that gap: there is an order of the lines done so far in
which handling them on the tables as they are *now* gives what the transaction would leave if it committed now. When its
own request does a line, the line is appended (`ReplaysLine`); when another transaction commits, every intermediate
state is changed in the other's rows alone, which none of these lines reads, because all rows that a line may choose from are locked
(`LocksInv`). `SerialInv` (requests under way are apart, and what they read of an order is still so) and `ReadsInv` (the same
of carts and payments) say that the guards which the handler tested when it read still hold at its commit.

`BooksBalance` is arithmetic over the same invariants: a draft differs from its row by the units of the lines done
(`DraftsInv`), a row from the initial one by what live orders ordered and shipped ones took (`RowsInv`); at a commit the
former becomes the latter. The sums over lines and orders are the lemmas of `SequenceFacts`.

### Notifications, conversations, desk, agent, accounts

Each of these modules begins with the invariant `IInv` that its theorems follow from; that of the queue is `QueueInv`.

- *Notifications.* That a deleted message was sent needs what the loop of the Lambda has behind it (`LoopKeepsScore`); that copies are
  bounded needs the receive to which a copy is charged: the one in hand is not used up before the loop comes to the record
  (`CopiesCounted`). Both need that no message is in two batches (`HandedOnce`), which is the visibility timeout.
- *Conversations.* One row per settled number needs that a turn at work adds no row when there is one (`OneRow`) and that
  no message's own row exists before it is handled (`NothingSavedAhead`). A resumed conversation needs what each turn at hand remembers in
  relation to what was committed (`TakesItUp`), and that no two turns of such a number are at work (`OneAtATime`).
- *Desk.* `Intends` is what a request may know of the tables at each point: the row it read is still that of the same customer and
  quote and its status is on the timeline, a change it will announce was committed and audited. That the timeline tells a status needs the weaker
  statement for raced orders too (`Timelines`), because a request may have read from one. With the generic
  update a row at hand may be older still: it is of the same customer for good, and of the same quote unless the quote
  is marked (`SameQuote`); a status that is not on the timeline is marked in `edited` (`OnTimeline`, `Sees`).
- *Agent.* The shortlist is real wherever it is saved, though not between a search and its ranking (`ShortlistsReal`);
  one hand-off needs that a shortlist with a selection is never loaded with a gift on it again (`SelectionsCounted`).
  The action properties rest on `MergeSlots` and `ApplyRefinement`, for all integers.
- *Accounts.* `DeactivatedStaysOut` needs that whoever is barred and not readmitted is inactive or gone *now* (`TablesInv`);
  `AddressesAreFound` that a request acts for the row of its own identity (`ActsForItself`), that ids are not given
  twice and that identities never change, which holds although e-mails, roles and `is_active` do.

Where a function is computed by recursion or a fold (filtering, flattening, sums), `SequenceFacts` proves what is needed by induction over a
set of numbers (`SetInduction`) or over the size of a set (`BySize`): the induction theorems of the library take an
operator, which the provers cannot instantiate.

### Carts

Three invariants, each the ground of the next.

`IInv` holds whatever overlaps. A row may have been read by several requests, and each writes back the quantity *it* read plus its own, so
what a row holds is not the sum of what was added; and a deletion between read and write leaves nothing to write to. The invariant therefore
says that there is an account `wroteTo`, from requests to the row each has written to, by which no row *has* and no row that was read *will be
given* more than its credit: what it had at the start and what the requests that wrote to it asked for (`Accounted`). It is an
existential: no variable of the program records who wrote where, and a step that writes names the next account as its witness. A write
adds its request to the account, which is sound because a request writes once (`Course`). That the credit is the user's needs that
the cart at hand is the user's own or still invisible to others (`CartAtHand`, `OwnCarts`) and that a row keeps its cart and its product
(`RowsAtHand`).

`PatientInv` holds with `overlap` 1 and relates what a request remembers to what is in the tables *now*: the cart at hand is the
only active one (`CurrentCart`), the rows read are the rows there are (`CurrentRows`), and what was shown last is what the active cart
has but for the items the answer is behind with, which it has just when they are not listed (`StillShown`, `Matches`). For the
answers of the app `SessionInv` adds that a session at work has loaded the items as they still are (`CurrentSession`), so
that `Remembered` and `Outdated` account for each line of the cart after the write. Other users' requests do overlap with these, so each step is shown to be nobody else's business (`OnlyOwn`, `PatientStep`).
`OrdersAreAsShown` follows from it at one step.

`CartsAreBaskets` then takes the steps in turn. Receiving, looking, reading, showing and failing change nothing that a shopper sees
(`QuietStep`); a first cart is created empty (`CreateBasket`); a write or commit changes the quantity of one product as asked
(`WriteEffect`, over the three `WriteForms`: a row more, a row changed, rows deleted); a checkout orders what the basket has (`OrderBasket`). The
sums collapse because one item of a product is in the cart (`QuantityOf`), and the counted requests (`SeenWrite`) make each effect happen once.

### Catalogue

`IInv` has a part for each table and program, and one per request (`PerRequest`) that relates what the request remembers to the
tables as they are *now*.

- *The log.* `AuditReplays` compares a row with the log, which is behind by the changes whose record is still to be written. `WriterKnows`
  says that between the two transactions the request holds exactly what the log lacks: the row is the one it wrote, the last entry of
  the log leads to the one it read. That needs `ReadIsCurrent`, that the row a request is about to write is still as it
  read it for its record. Both hold because requests that share an id and are at work at once have raced for
  it (`Apart`): when another request has an unraced row in hand, this one cannot change it (`OthersStay`). The filling of a line is
  never recorded and so is compared without it (`Audited`).
- *The wording.* `BlankWhenFilled` says that a line found blank is blank when it is filled, one transaction later. An item request is
  about every box (`About`), so nobody types a line of an unraced box meanwhile.
- *Types and foreign keys.* `Accepted` follows the payload through registry, groups and columns to a typed row of one of the three
  tables; `ForeignKeysAfterPut` and `ForeignKeysAfterDelete` that a row which is written refers to rows, and one that is deleted is
  referred to by none, the rows of the job's open transaction included (`Held`).
- *The search.* Whatever was found is either touched since or on the shelf (`SearchTypes`, `TouchKeepsShelf`). That the semantic half
  adds nothing with a budget holds because the points' payloads are what the job read of products it selected as `ACTIVE` (`JobTypes`).

### Only model-checked

- Liveness: `EveryRequestEnds`, `EveryTurnEnds`, `EveryPostEnds`, `EveryMessageSettles`, `EveryActiveProductIsEmbedded`. Fairness and
  ENABLED are out of the prover's reach.
- `NoDoubleRelease`, `PaidStaysPaid` and `TapConfirmsTappedGift` are false, as section 5 says.

## 5. Findings

- Two overlapping cancellations release an order's stock twice (`orders_double_cancel`).
- A tap on an old list row confirms another gift (`agent_stale_tap`).
- A cancellation undoes a payment that was confirmed meanwhile (`desk_lost_payment`).

`PROJECT.json` quotes the line of the repository each of them contradicts.

Met while modelling, without a run of their own:

- A cart answer of the app after an addition lacks the item added, and after a removal or a clearing still lists what was
  deleted; the subtotal is that of the lines before. The comment at `app/api/cart.py:75` ("Reload with items + variants
  eager-loaded") and `tests/integration/test_order_flow.py:45`, which adds one item to an empty cart and expects its price as the
  subtotal, take the reload for a fresh one. `OrderedAsShown` has the exception spelled out: without `answer.behind`
  in it TLC finds an order that is not what was shown.
- `orders.status` is writable through `/resources/orders/{id}/update` (`admin_api/config/resources.yml:437`), with no
  transition checked, no row of the timeline and no message, while `admin_api/API.md:111-112` calls `/orders/{id}/status`
  "the only way `orders.status` should change" and the docstring of `admin_api/handlers/orders_handler.py` "the one place order
  status is actually allowed to change". Likewise `payments.payment_status`, `quotes.status` and `orders.quote_id`: a payment can
  part from its order, a converted quote be converted again. The marks in `edited` are these writes; without them TLC refutes
  `StaffStatusesAreOnTheTimeline`, `PaidOrdersShowPaid` and `OneOrderPerQuote` by one edit.
- "One active cart per user" (`storefront/db/models/storefront.py:2`, `storefront/API.md:100`) is no constraint of the table: two first
  requests at once leave two.
- A cancellation can release in another warehouse than the checkout reserved in, and the
  clamp hides it.
- Two first messages of one number insert two sessions, and every later message of it fails.
- Two slow sends outlast the notification Lambda's timeout, and the records already sent are sent
  again; the handler's docstring says only failed records are retried.
- The embedding job selects status `ACTIVE`, the search asks for `active`; the job's docstring says
  they match. With a budget the semantic half therefore never finds a product (`BudgetsFindNothingByMeaning`). `created_at` of an embedding is the time of the write, so a change during
  the job counts as embedded, and edits through the back office do not touch `updated_at` at all.
- Both halves of a search share one `AsyncSession` in `asyncio.gather`, and points of deleted
  products stay in Qdrant.
- An update of a resource with relations always counts as changed: the old row was read with
  joined columns, the new one comes from `RETURNING *`. The docstring of the audit service says an update
  without changes is not recorded.
- A contents line filled once is no longer blank and is never filled again; a filling is not audited.
- `order_status_history` has no row for a cancellation by the customer, a confirmation by payment, or
  a shipment recorded in the storefront, although its docstring says one row per transition.
- Recording a payment under a reference that another order has answers with that order's last
  payment or, when there is none, with an error.
- A rename writes back the whole user row, role and `is_active` included.
- A customer whose e-mail belongs to an account from before Cognito cannot be provisioned: every
  request ends with an error. A null `is_active` is active for the storefront and the app and not for
  the back office.

## 6. Plan

Every safety property that holds is proved. Left, in this order:

1. Models: one run of `OrderDesk` and `Notifications` together at the queue, where a change the desk tells of is one the queue announces.
2. Models: the parts of the storefront's and the back office's programs that section 1 leaves out.
