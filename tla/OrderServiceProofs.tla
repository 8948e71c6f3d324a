-------------------------- MODULE OrderServiceProofs --------------------------
(***************************************************************************)
(* Theorems about OrderService that hold for every set of requests, carts, *)
(* warehouses and stock levels its assumptions allow: first those that     *)
(* hold however callers behave, then that the order service implements     *)
(* OrderLedger, and that its books balance.                                *)
(***************************************************************************)
EXTENDS OrderService, WellFoundedInduction, SequenceFacts

\* A nonempty set of numbers has a least element: NextRow's CHOOSE is defined.
LEMMA LeastExists ==
    ASSUME NEW S \in SUBSET Nat, S # {}
    PROVE  \E w \in S : \A x \in S : w <= x
<1> DEFINE less == {ss \in Nat \X Nat : ss[1] < ss[2]}
<1>1. IsWellFoundedOn(less, Nat)
  BY NatLessThanWellFounded DEF OpToRel
<1> HIDE DEF less
<1>2. PICK w \in S : \A y \in S : <<y, w>> \notin less
  BY <1>1, WFMin
<1>3. ASSUME NEW x \in S PROVE w <= x
  <2>1. x \in Nat /\ w \in Nat
    OBVIOUS
  <2>2. ~(x < w)
    BY <1>2, <2>1 DEF less
  <2> QED BY <2>1, <2>2
<1> QED BY <1>3

\* The arithmetic of a row keeps it a row, and keeps the reserved part within
\* the on-hand quantity.
LEMMA ReserveRow ==
    ASSUME NEW row \in StockRow, NEW n \in Nat, CanReserve(row, n)
    PROVE  /\ Reserve(row, n) \in StockRow
           /\ Reserve(row, n).quantity = row.quantity
           /\ Reserve(row, n).reserved >= row.reserved
           /\ Reserve(row, n).reserved <= row.quantity
<1>1. Reserve(row, n) = [quantity |-> row.quantity, reserved |-> row.reserved + n]
  BY DEF Reserve, StockRow
<1>2. n <= row.quantity - row.reserved
  BY DEF CanReserve, Available
<1> QED BY <1>1, <1>2 DEF StockRow

LEMMA ReleaseRow ==
    ASSUME NEW row \in StockRow, NEW n \in Nat
    PROVE  /\ Release(row, n) \in StockRow
           /\ Release(row, n).quantity = row.quantity
           /\ Release(row, n).reserved <= row.reserved
<1>1. Release(row, n) = [quantity |-> row.quantity, reserved |-> Clamped(row.reserved, n)]
  BY DEF Release, StockRow
<1>2. Clamped(row.reserved, n) \in Nat /\ Clamped(row.reserved, n) <= row.reserved
  BY DEF Clamped, StockRow
<1> QED BY <1>1, <1>2 DEF StockRow

LEMMA FulfillRow ==
    ASSUME NEW row \in StockRow, NEW n \in Nat
    PROVE  /\ Fulfill(row, n) \in StockRow
           /\ Fulfill(row, n).quantity <= row.quantity
           /\ Fulfill(row, n).reserved <= row.reserved
           /\ row.reserved <= row.quantity =>
                Fulfill(row, n).reserved <= Fulfill(row, n).quantity
<1>1. /\ DOMAIN Fulfill(row, n) = {"quantity", "reserved"}
      /\ Fulfill(row, n).quantity = Clamped(row.quantity, n)
      /\ Fulfill(row, n).reserved = Clamped(row.reserved, n)
      /\ Fulfill(row, n) = [f \in DOMAIN Fulfill(row, n) |-> Fulfill(row, n)[f]]
  BY DEF Fulfill, StockRow
<1>2. row.quantity \in Nat /\ row.reserved \in Nat
  BY DEF StockRow
<1>3. \A a \in Nat : Clamped(a, n) \in Nat /\ Clamped(a, n) <= a
  BY DEF Clamped
<1>4. row.reserved <= row.quantity =>
        Clamped(row.reserved, n) <= Clamped(row.quantity, n)
  BY <1>2 DEF Clamped
<1> QED BY <1>1, <1>2, <1>3, <1>4 DEF StockRow
-----------------------------------------------------------------------------
\* Every step is one of these: a rollback of a transaction that has not ended,
\* one of the thirteen other actions, or a step that changes nothing.
LEMMA StepCases ==
    ASSUME [Next]_vars
    PROVE  \/ UNCHANGED vars
           \/ \E r \in Requests :
                \/ /\ phase[r] \notin Ended
                   /\ \E outcome \in Ended \ {"done"} : Rollback(r, outcome)
                \/ CheckoutStarts(r) \/ CancelStarts(r) \/ ShipStarts(r)
                \/ PayReads(r) \/ ConfirmReads(r)
                \/ LockRow(r) \/ ApplyLine(r)
                \/ CheckoutCommits(r) \/ CancelCommits(r) \/ ShipCommits(r)
                \/ PayCommits(r) \/ ConfirmReadsOrder(r) \/ ConfirmCommits(r)
<1>1. CASE UNCHANGED vars
  BY <1>1
<1>2. CASE AllEnded
  BY <1>2 DEF AllEnded
<1>3. ASSUME NEW r \in Requests, Begin(r)
      PROVE  \/ /\ phase[r] \notin Ended
                /\ \E outcome \in Ended \ {"done"} : Rollback(r, outcome)
             \/ CheckoutStarts(r) \/ CancelStarts(r) \/ ShipStarts(r)
             \/ PayReads(r) \/ ConfirmReads(r)
  BY <1>3 DEF Begin, CheckoutRejected, CancelNoop, CancelRejected, ShipRejected,
              PayNoop, PayRejected, ConfirmNoop, MayStart, Ended
<1>4. ASSUME NEW r \in Requests, Proceed(r)
      PROVE  \/ /\ phase[r] \notin Ended
                /\ \E outcome \in Ended \ {"done"} : Rollback(r, outcome)
             \/ LockRow(r) \/ ApplyLine(r)
             \/ CheckoutCommits(r) \/ CancelCommits(r) \/ ShipCommits(r)
             \/ PayCommits(r) \/ ConfirmReadsOrder(r) \/ ConfirmCommits(r)
  <2>1. CASE LineShort(r)
    BY <2>1 DEF LineShort, AtLine, Ended
  <2>2. CASE DeadlockAbort(r)
    <3>1. AtLine(r)
      BY <2>2 DEF DeadlockAbort, Deadlocked, Waiting, BlockedBy
    <3> QED BY <2>2, <3>1 DEF DeadlockAbort, AtLine, Ended
  <2> QED BY <1>4, <2>1, <2>2 DEF Proceed
<1>5. ASSUME NEW r \in Requests, Crash(r)
      PROVE  /\ phase[r] \notin Ended
             /\ \E outcome \in Ended \ {"done"} : Rollback(r, outcome)
  BY <1>5 DEF Crash, Running, Ended
<1> QED BY <1>1, <1>2, <1>3, <1>4, <1>5 DEF Next
-----------------------------------------------------------------------------
(* Types.  The type invariant needs to know that the line at hand is a     *)
(* line of the order, which operation is in which phase, and that a        *)
(* confirmation under way has read a payment.                              *)

Locking == {"checkout", "cancel", "ship"}

HandlerOK(r) ==
    /\ tx[r].left \subseteq DOMAIN LinesOf(r)
    /\ tx[r].line \in tx[r].left \cup {0}
    /\ phase[r] = "locking" => Op[r] \in Locking
    /\ phase[r] = "inserting" => Op[r] = "pay"
    /\ phase[r] \in {"paying", "confirming"} =>
          Op[r] = "confirm" /\ tx[r].target \in Payments

TypeInv == TypeOK /\ \A r \in Requests : HandlerOK(r)

LEMMA LinesTyped ==
    ASSUME NEW r \in Requests
    PROVE  /\ LinesOf(r) \in Seq([variant : Variants, units : Nat])
           /\ DOMAIN LinesOf(r) \subseteq Nat
           /\ 0 \notin DOMAIN LinesOf(r)
<1> DEFINE lineType == [variant : Variants, units : Nat]
<1>1. OrderOf[r] \in Orders
  BY RequestAssumption
<1>2. CartOf[OrderOf[r]] \in Carts
  BY <1>1, RequestAssumption
<1>3. LinesOf(r) \in Seq(lineType)
  BY <1>2, RequestAssumption DEF LinesOf
<1> HIDE DEF lineType
<1>4. DOMAIN LinesOf(r) = 1 .. Len(LinesOf(r)) /\ Len(LinesOf(r)) \in Nat
  BY <1>3
<1>5. DOMAIN LinesOf(r) \subseteq Nat /\ 0 \notin DOMAIN LinesOf(r)
  BY <1>4
<1> QED BY <1>3, <1>5 DEF lineType

LEMMA LineTyped ==
    ASSUME TypeInv, NEW r \in Requests, AtLine(r)
    PROVE  LineOf(r).variant \in Variants /\ LineOf(r).units \in Nat
<1>1. tx[r].line \in DOMAIN LinesOf(r)
  BY DEF TypeInv, HandlerOK, AtLine
<1> DEFINE lineType == [variant : Variants, units : Nat]
<1>2. LinesOf(r) \in Seq(lineType)
  BY LinesTyped
<1> HIDE DEF lineType
<1>3. LineOf(r) \in lineType
  BY <1>1, <1>2 DEF LineOf
<1> QED BY <1>3 DEF lineType

LEMMA NextRowTyped ==
    ASSUME TypeInv, NEW r \in Requests, AtLine(r), ToLock(r) # {}
    PROVE  NextRow(r) \in Rows /\ NextRow(r)[2] \in Nat
<1>1. ToLock(r) \in SUBSET Nat
  BY StockAssumption DEF ToLock, Matched
<1>2. PICK w \in ToLock(r) : \A x \in ToLock(r) : w <= x
  BY <1>1, LeastExists
<1> DEFINE least == CHOOSE v \in ToLock(r) : \A x \in ToLock(r) : v <= x
<1>3. least \in ToLock(r)
  BY <1>2
<1>4. NextRow(r) = <<LineOf(r).variant, least>>
  BY DEF NextRow
<1>5. <<LineOf(r).variant, least>> \in Rows
  BY <1>3 DEF ToLock, Matched
<1> QED BY <1>1, <1>3, <1>4, <1>5

\* A step of one request leaves what the others hold in memory alone.
LEMMA OthersKept ==
    ASSUME TypeInv, NEW r \in Requests, HandlerOK(r)',
           \A s \in Requests \ {r} : tx'[s] = tx[s] /\ phase'[s] = phase[s]
    PROVE  \A s \in Requests : HandlerOK(s)'
BY DEF TypeInv, HandlerOK, LinesOf

\* Leaving a transaction keeps the types of everything it touches.
LEMMA EndTyped ==
    ASSUME TypeInv, NEW r \in Requests, NEW outcome \in Ended, End(r, outcome)
    PROVE  /\ rowLock' \in [Rows -> Requests \cup {NoOne}]
           /\ payLock' \in [Payments -> Requests \cup {NoOne}]
           /\ phase' \in [Requests -> {"idle"} \cup Running \cup Ended]
           /\ tx' \in [Requests -> Handler]
           /\ draft' \in [Requests -> [Rows -> StockRow]]
           /\ \A s \in Requests : HandlerOK(s)'
<1>1. NoHandler \in Handler
  BY DEF NoHandler, Handler, OrderStatuses
<1>2. \A s \in Requests : HandlerOK(s)'
  <2>1. phase'[r] = outcome /\ tx'[r] = NoHandler
    BY DEF End, TypeInv, TypeOK
  <2>2. HandlerOK(r)'
    BY <2>1 DEF HandlerOK, NoHandler, Ended
  <2>3. \A s \in Requests \ {r} : tx'[s] = tx[s] /\ phase'[s] = phase[s]
    BY DEF End, TypeInv, TypeOK
  <2> QED BY <2>2, <2>3, OthersKept
<1> QED BY <1>1, <1>2, StockAssumption DEF End, TypeInv, TypeOK, Ended

LEMMA StartLinesTyped ==
    ASSUME TypeInv, NEW r \in Requests, NEW status \in OrderStatuses,
           Op[r] \in Locking, StartLines(r, status)
    PROVE  TypeInv'
<1>1. PICK i \in DOMAIN LinesOf(r) :
        tx' = [tx EXCEPT ![r] = [left |-> DOMAIN LinesOf(r), line |-> i,
                                 scanned |-> 0, seen |-> status, target |-> NoOne]]
  BY DEF StartLines
<1> DEFINE mine == [left |-> DOMAIN LinesOf(r), line |-> i, scanned |-> 0,
                    seen |-> status, target |-> NoOne]
<1>2. mine.left = DOMAIN LinesOf(r) /\ mine.line = i
  OBVIOUS
<1>3. mine \in Handler
  BY LinesTyped DEF Handler
<1> HIDE DEF mine
<1>4. tx' = [tx EXCEPT ![r] = mine]
  BY <1>1 DEF mine
<1>5. TypeOK'
  BY <1>3, <1>4 DEF StartLines, tables, locks, TypeInv, TypeOK, Running
<1>6. tx'[r] = mine /\ phase'[r] = "locking"
  BY <1>4 DEF StartLines, TypeInv, TypeOK
<1>7. HandlerOK(r)'
  BY <1>2, <1>6 DEF HandlerOK, LinesOf
<1>8. \A s \in Requests \ {r} : tx'[s] = tx[s] /\ phase'[s] = phase[s]
  BY <1>4 DEF StartLines, TypeInv, TypeOK
<1> QED BY <1>5, <1>7, <1>8, OthersKept DEF TypeInv

LEMMA LockRowTyped ==
    ASSUME TypeInv, NEW r \in Requests, LockRow(r)
    PROVE  TypeInv'
<1> DEFINE row == NextRow(r)
<1>1. row \in Rows /\ row[2] \in Nat
  BY NextRowTyped DEF LockRow
<1> HIDE DEF row
<1>2. /\ rowLock' = [rowLock EXCEPT ![row] = r]
      /\ \/ draft' = draft
         \/ draft' = [draft EXCEPT ![r][row] = stock[row]]
      /\ tx' = [tx EXCEPT ![r].scanned = row[2]]
      /\ UNCHANGED <<stock, carts, orders, payments, payLock, phase>>
  BY DEF LockRow, row, tables
<1>3. draft' \in [Requests -> [Rows -> StockRow]]
  <2>1. stock[row] \in StockRow /\ draft[r] \in [Rows -> StockRow]
    BY <1>1 DEF TypeInv, TypeOK
  <2>2. [draft[r] EXCEPT ![row] = stock[row]] \in [Rows -> StockRow]
    BY <2>1
  <2>3. CASE draft' = draft
    BY <2>3 DEF TypeInv, TypeOK
  <2>4. CASE draft' = [draft EXCEPT ![r][row] = stock[row]]
    BY <2>2, <2>4 DEF TypeInv, TypeOK
  <2> QED BY <1>2, <2>3, <2>4
<1>4. tx' \in [Requests -> Handler]
  <2>1. tx[r] \in Handler
    BY DEF TypeInv, TypeOK
  <2>2. [tx[r] EXCEPT !.scanned = row[2]] \in Handler
    BY <1>1, <2>1 DEF Handler
  <2> QED BY <1>2, <2>2 DEF TypeInv, TypeOK
<1>5. TypeOK'
  BY <1>1, <1>2, <1>3, <1>4 DEF TypeInv, TypeOK
<1>6. \A s \in Requests : HandlerOK(s)'
  <2>1. /\ tx'[r].left = tx[r].left
        /\ tx'[r].line = tx[r].line
        /\ tx'[r].target = tx[r].target
    BY <1>2 DEF TypeInv, TypeOK, Handler
  <2>2. HandlerOK(r)'
    BY <1>2, <2>1 DEF TypeInv, HandlerOK, LinesOf
  <2>3. \A s \in Requests \ {r} : tx'[s] = tx[s]
    BY <1>2 DEF TypeInv, TypeOK
  <2> QED BY <1>2, <2>2, <2>3, OthersKept
<1> QED BY <1>5, <1>6 DEF TypeInv

\* What a line does to the row it is applied to.
LEMMA ChangedRow ==
    ASSUME TypeInv, NEW r \in Requests, AtLine(r), LinePossible(r),
           ChosenRow(r) \in Rows
    PROVE  LET row == draft[r][ChosenRow(r)] IN
             /\ row \in StockRow
             /\ Changed(r) \in StockRow
             /\ row.reserved <= row.quantity => Changed(r).reserved <= Changed(r).quantity
             /\ Op[r] \in {"checkout", "cancel"} => Changed(r).quantity = row.quantity
             /\ Op[r] = "checkout" => Changed(r).reserved >= row.reserved
             /\ Op[r] \in {"cancel", "ship"} => /\ Changed(r).quantity <= row.quantity
                                               /\ Changed(r).reserved <= row.reserved
<1> DEFINE row == draft[r][ChosenRow(r)]
           n   == LineOf(r).units
<1>1. row \in StockRow /\ n \in Nat
  BY LineTyped DEF TypeInv, TypeOK
<1>2. row.quantity \in Nat /\ row.reserved \in Nat
  BY <1>1 DEF StockRow
<1>3. CASE Op[r] = "checkout"
  <2>1. CanReserve(row, n)
    BY <1>3 DEF LinePossible
  <2>2. Changed(r) = Reserve(row, n)
    BY <1>3 DEF Changed
  <2> HIDE DEF row, n
  <2>3. /\ Changed(r) \in StockRow
        /\ Changed(r).quantity = row.quantity
        /\ Changed(r).reserved >= row.reserved
        /\ Changed(r).reserved <= row.quantity
    BY <1>1, <2>1, <2>2, ReserveRow
  <2> QED BY <1>1, <1>3, <2>3 DEF row
<1>4. CASE Op[r] = "cancel"
  <2>1. Changed(r) = Release(row, n)
    BY <1>4 DEF Changed
  <2> HIDE DEF row, n
  <2>2. /\ Changed(r) \in StockRow
        /\ Changed(r).quantity = row.quantity
        /\ Changed(r).reserved <= row.reserved
    BY <1>1, <2>1, ReleaseRow
  <2>3. Changed(r).reserved \in Nat
    BY <2>2 DEF StockRow
  <2> QED BY <1>1, <1>2, <1>4, <2>2, <2>3 DEF row
<1>5. CASE Op[r] = "ship"
  <2>1. Changed(r) = Fulfill(row, n)
    BY <1>5 DEF Changed
  <2> HIDE DEF row, n
  <2>2. /\ Changed(r) \in StockRow
        /\ Changed(r).quantity <= row.quantity
        /\ Changed(r).reserved <= row.reserved
        /\ row.reserved <= row.quantity => Changed(r).reserved <= Changed(r).quantity
    BY <1>1, <2>1, FulfillRow
  <2> QED BY <1>1, <1>5, <2>2 DEF row
<1>6. Op[r] \in Locking
  BY DEF TypeInv, HandlerOK, AtLine
<1> QED BY <1>3, <1>4, <1>5, <1>6 DEF Locking
-----------------------------------------------------------------------------
LEMMA ApplyLineTyped ==
    ASSUME TypeInv, NEW r \in Requests, ApplyLine(r)
    PROVE  TypeInv'
<1> DEFINE left == tx[r].left \ {tx[r].line}
<1>1. tx[r] \in Handler /\ tx[r].left \subseteq DOMAIN LinesOf(r)
  BY DEF TypeInv, TypeOK, HandlerOK
<1>2. PICK next \in left \cup {0} :
        tx' = [tx EXCEPT ![r] = [left |-> left, line |-> next, scanned |-> 0,
                                 seen |-> tx[r].seen, target |-> tx[r].target]]
  BY DEF ApplyLine
<1> DEFINE mine == [left |-> left, line |-> next, scanned |-> 0,
                    seen |-> tx[r].seen, target |-> tx[r].target]
<1>3. left \subseteq Nat /\ next \in Nat
  BY <1>1, LinesTyped
<1>4. mine \in Handler
  BY <1>1, <1>3 DEF Handler
<1> HIDE DEF left
<1>5. tx' = [tx EXCEPT ![r] = mine]
  BY <1>2
<1>6. /\ mine.left = left
      /\ mine.line = next
  OBVIOUS
<1> HIDE DEF mine
<1>7. draft' \in [Requests -> [Rows -> StockRow]]
  <2>1. CASE Matched(r) = {}
    BY <2>1 DEF ApplyLine, TypeInv, TypeOK
  <2>2. CASE Matched(r) # {}
    <3> DEFINE row == ChosenRow(r)
    <3>1. draft' = [draft EXCEPT ![r][row] = Changed(r)]
      BY <2>2 DEF ApplyLine
    <3>2. row \in Rows => Changed(r) \in StockRow
      BY ChangedRow DEF ApplyLine
    <3> HIDE DEF row
    <3>3. draft[r] \in [Rows -> StockRow]
      BY DEF TypeInv, TypeOK
    <3>4. [draft[r] EXCEPT ![row] = Changed(r)] \in [Rows -> StockRow]
      BY <3>2, <3>3
    <3> QED BY <3>1, <3>4 DEF TypeInv, TypeOK
  <2> QED BY <2>1, <2>2
<1>8. TypeOK'
  <2>1. tx' \in [Requests -> Handler]
    BY <1>4, <1>5 DEF TypeInv, TypeOK
  <2> QED BY <1>7, <2>1 DEF ApplyLine, tables, locks, TypeInv, TypeOK
<1>9. \A s \in Requests : HandlerOK(s)'
  <2>1. tx'[r] = mine /\ phase' = phase /\ phase[r] = "locking"
    BY <1>5 DEF ApplyLine, AtLine, TypeInv, TypeOK
  <2>2. HandlerOK(r)'
    BY <1>1, <1>2, <1>6, <2>1 DEF TypeInv, HandlerOK, left, LinesOf
  <2>3. \A s \in Requests \ {r} : tx'[s] = tx[s]
    BY <1>5 DEF TypeInv, TypeOK
  <2> QED BY <2>1, <2>2, <2>3, OthersKept
<1> QED BY <1>8, <1>9 DEF TypeInv

\* COMMIT writes rows of the transaction's draft, never anything else.
LEMMA PublishTyped ==
    ASSUME TypeInv, NEW r \in Requests, Publish(r)
    PROVE  stock' \in [Rows -> StockRow]
BY DEF Publish, TypeInv, TypeOK

LEMMA CommitTyped ==
    ASSUME TypeInv, NEW r \in Requests,
           \/ CheckoutCommits(r) \/ CancelCommits(r) \/ ShipCommits(r)
    PROVE  TypeInv'
<1>1. End(r, "done") /\ Publish(r)
  BY DEF CheckoutCommits, CancelCommits, ShipCommits
<1>2. stock' \in [Rows -> StockRow]
  BY <1>1, PublishTyped
<1>3. "done" \in Ended
  BY DEF Ended
<1>4. orders' \in [Orders -> OrderRow]
  <2> DEFINE o == OrderOf[r]
  <2>1. o \in Orders /\ orders[o] \in OrderRow
    BY RequestAssumption DEF TypeInv, TypeOK
  <2> HIDE DEF o
  <2>2. \A st \in OrderStatuses : [orders[o] EXCEPT !.status = st] \in OrderRow
    BY <2>1 DEF OrderRow
  <2>3. "cancelled" \in OrderStatuses /\ "shipped" \in OrderStatuses
        /\ "pending" \in OrderStatuses
    BY DEF OrderStatuses, ReservedStatuses
  <2>4. CASE CheckoutCommits(r)
    <3>1. [status |-> "pending", payment |-> "pending"] \in OrderRow
      BY <2>3 DEF OrderRow
    <3> QED BY <2>4, <3>1 DEF CheckoutCommits, TypeInv, TypeOK
  <2>5. CASE CancelCommits(r)
    <3>1. orders' = [orders EXCEPT ![o].status = "cancelled"]
      BY <2>5 DEF CancelCommits, o
    <3>2. [orders[o] EXCEPT !.status = "cancelled"] \in OrderRow
      BY <2>2, <2>3
    <3> QED BY <3>1, <3>2 DEF TypeInv, TypeOK
  <2>6. CASE ShipCommits(r)
    <3>1. orders' = orders \/ orders' = [orders EXCEPT ![o].status = "shipped"]
      BY <2>6 DEF ShipCommits, o
    <3>2. [orders[o] EXCEPT !.status = "shipped"] \in OrderRow
      BY <2>2, <2>3
    <3> QED BY <3>1, <3>2 DEF TypeInv, TypeOK
  <2> QED BY <2>4, <2>5, <2>6
<1>5. carts' \in [Carts -> {"active", "checked_out"}]
  BY DEF CheckoutCommits, CancelCommits, ShipCommits, TypeInv, TypeOK
<1>6. payments' = payments
  BY DEF CheckoutCommits, CancelCommits, ShipCommits
<1> QED BY <1>1, <1>2, <1>3, <1>4, <1>5, <1>6, EndTyped DEF TypeInv, TypeOK

LEMMA PaymentTyped ==
    ASSUME TypeInv, NEW r \in Requests,
           PayReads(r) \/ ConfirmReads(r) \/ PayCommits(r)
           \/ ConfirmReadsOrder(r) \/ ConfirmCommits(r)
    PROVE  TypeInv'
<1>1. tx[r] \in Handler
  BY DEF TypeInv, TypeOK
<1>2. CASE PayReads(r)
  <2>1. TypeOK'
    BY <1>2 DEF PayReads, tables, locks, TypeInv, TypeOK, Running
  <2>2. tx' = tx /\ phase' = [phase EXCEPT ![r] = "inserting"] /\ Op[r] = "pay"
    BY <1>2 DEF PayReads
  <2>3. HandlerOK(r)'
    BY <2>2 DEF TypeInv, TypeOK, HandlerOK, LinesOf
  <2> QED BY <2>1, <2>2, <2>3, OthersKept DEF TypeInv, TypeOK
<1>3. CASE ConfirmReads(r)
  <2>1. PICK p \in Payments : tx' = [tx EXCEPT ![r].target = p]
    BY <1>3 DEF ConfirmReads, Matching
  <2>2. [tx[r] EXCEPT !.target = p] \in Handler
    BY <1>1 DEF Handler
  <2>3. tx' \in [Requests -> Handler]
    BY <2>1, <2>2 DEF TypeInv, TypeOK
  <2>4. TypeOK'
    BY <1>3, <2>3 DEF ConfirmReads, tables, locks, TypeInv, TypeOK, Running
  <2>5. phase' = [phase EXCEPT ![r] = "paying"] /\ Op[r] = "confirm"
    BY <1>3 DEF ConfirmReads
  <2>6. tx'[r].left = tx[r].left /\ tx'[r].line = tx[r].line /\ tx'[r].target = p
    BY <1>1, <2>1 DEF TypeInv, TypeOK, Handler
  <2>7. HandlerOK(r)'
    BY <2>5, <2>6 DEF TypeInv, TypeOK, HandlerOK, LinesOf
  <2> QED BY <2>1, <2>4, <2>5, <2>7, OthersKept DEF TypeInv, TypeOK
<1>4. CASE PayCommits(r)
  <2>1. payments' \in [Payments -> {"absent", "pending", "paid"}]
    BY <1>4 DEF PayCommits, TypeInv, TypeOK
  <2>2. End(r, "done") /\ "done" \in Ended
    BY <1>4 DEF PayCommits, Ended
  <2> QED BY <1>4, <2>1, <2>2, EndTyped DEF PayCommits, TypeInv, TypeOK
<1> DEFINE p == tx[r].target
           o == OrderOf[p]
<1>5. ASSUME phase[r] \in {"paying", "confirming"}
      PROVE  /\ p \in Payments /\ o \in Orders
             /\ orders[o] \in OrderRow
             /\ Op[r] = "confirm"
  <2>1. p \in Payments /\ Op[r] = "confirm"
    BY <1>5 DEF TypeInv, HandlerOK
  <2>2. o \in Orders
    BY <2>1, RequestAssumption DEF Payments
  <2> QED BY <2>1, <2>2 DEF TypeInv, TypeOK
<1>6. CASE ConfirmReadsOrder(r)
  <2> DEFINE seen == orders[o].status
  <2>1. /\ tx' = [tx EXCEPT ![r].seen = seen]
        /\ phase' = [phase EXCEPT ![r] = "confirming"]
        /\ payLock' = [payLock EXCEPT ![p] = r]
        /\ phase[r] = "paying"
    BY <1>6 DEF ConfirmReadsOrder
  <2>2. seen \in OrderStatuses
    BY <1>5, <2>1 DEF OrderRow
  <2> HIDE DEF seen
  <2>3. [tx[r] EXCEPT !.seen = seen] \in Handler
    BY <1>1, <2>2 DEF Handler
  <2>4. tx' \in [Requests -> Handler]
    BY <2>1, <2>3 DEF TypeInv, TypeOK
  <2>5. TypeOK'
    <3> HIDE DEF p, o
    <3>1. payLock' \in [Payments -> Requests \cup {NoOne}]
      BY <2>1 DEF TypeInv, TypeOK
    <3>2. phase' \in [Requests -> {"idle"} \cup Running \cup Ended]
      BY <2>1 DEF TypeInv, TypeOK, Running
    <3>3. UNCHANGED <<stock, carts, orders, payments, rowLock, draft>>
      BY <1>6 DEF ConfirmReadsOrder, tables
    <3> QED BY <2>4, <3>1, <3>2, <3>3 DEF TypeInv, TypeOK
  <2>6. tx'[r].left = tx[r].left /\ tx'[r].line = tx[r].line /\ tx'[r].target = p
    BY <1>1, <2>1 DEF TypeInv, TypeOK, Handler
  <2>7. HandlerOK(r)'
    BY <1>5, <2>1, <2>6 DEF TypeInv, TypeOK, HandlerOK, LinesOf
  <2> QED BY <2>1, <2>5, <2>7, OthersKept DEF TypeInv, TypeOK
<1>7. CASE ConfirmCommits(r)
  <2>1. /\ phase[r] = "confirming"
        /\ payments' = [payments EXCEPT ![p] = "paid"]
        /\ End(r, "done")
        /\ UNCHANGED <<stock, carts>>
    BY <1>7 DEF ConfirmCommits
  <2> DEFINE paid == [status |-> IF tx[r].seen = "pending" THEN "confirmed"
                                 ELSE orders[o].status,
                      payment |-> "paid"]
  <2>2. orders' = [orders EXCEPT ![o] = paid]
    BY <1>7 DEF ConfirmCommits
  <2>3. "confirmed" \in OrderStatuses /\ orders[o].status \in OrderStatuses
    BY <1>5, <2>1 DEF OrderRow, OrderStatuses, ReservedStatuses
  <2>4. paid \in OrderRow
    BY <2>3 DEF OrderRow
  <2> HIDE DEF paid
  <2>5. orders' \in [Orders -> OrderRow]
    BY <2>2, <2>4 DEF TypeInv, TypeOK
  <2>6. payments' \in [Payments -> {"absent", "pending", "paid"}]
    BY <2>1 DEF TypeInv, TypeOK
  <2>7. "done" \in Ended
    BY DEF Ended
  <2> QED BY <2>1, <2>5, <2>6, <2>7, EndTyped DEF TypeInv, TypeOK
<1> QED BY <1>2, <1>3, <1>4, <1>6, <1>7

LEMMA InitTyped == Init => TypeInv
<1> SUFFICES ASSUME Init PROVE TypeInv
  OBVIOUS
<1>1. NoHandler \in Handler
  BY DEF NoHandler, Handler, OrderStatuses
<1>2. NoOrderRow \in OrderRow
  BY DEF NoOrderRow, OrderRow, OrderStatuses
<1>3. TypeOK
  BY <1>1, <1>2, StockAssumption DEF Init, TypeOK
<1>4. ASSUME NEW r \in Requests PROVE HandlerOK(r)
  <2>1. tx[r].left = {} /\ tx[r].line = 0 /\ phase[r] = "idle"
    BY DEF Init, NoHandler
  <2> QED BY <2>1 DEF HandlerOK
<1> QED BY <1>3, <1>4 DEF TypeInv

LEMMA StepTyped == TypeInv /\ [Next]_vars => TypeInv'
<1> SUFFICES ASSUME TypeInv, [Next]_vars PROVE TypeInv'
  OBVIOUS
<1>1. CASE UNCHANGED vars
  BY <1>1 DEF vars, TypeInv, TypeOK, HandlerOK, LinesOf
<1>2. ASSUME NEW r \in Requests, NEW outcome \in Ended, Rollback(r, outcome)
      PROVE  TypeInv'
  BY <1>2, EndTyped DEF Rollback, tables, TypeInv, TypeOK
<1>3. ASSUME NEW r \in Requests,
             CheckoutStarts(r) \/ CancelStarts(r) \/ ShipStarts(r)
      PROVE  TypeInv'
  <2>1. OrderOf[r] \in Orders /\ "absent" \in OrderStatuses
    BY RequestAssumption DEF OrderStatuses
  <2>2. orders[OrderOf[r]].status \in OrderStatuses
    BY <2>1 DEF TypeInv, TypeOK, OrderRow
  <2>3. Op[r] \in Locking
    BY <1>3 DEF CheckoutStarts, CancelStarts, ShipStarts, Locking
  <2>4. \E status \in OrderStatuses : StartLines(r, status)
    BY <1>3, <2>1, <2>2 DEF CheckoutStarts, CancelStarts, ShipStarts
  <2> QED BY <2>3, <2>4, StartLinesTyped
<1> QED BY <1>1, <1>2, <1>3, StepCases, LockRowTyped, ApplyLineTyped, CommitTyped,
           PaymentTyped

\* Every variable keeps its type, whatever the requests and the stock.
THEOREM TypeCorrect == Spec => []TypeOK
<1>1. Init => TypeInv
  BY InitTyped
<1>2. TypeInv /\ [Next]_vars => TypeInv'
  BY StepTyped
<1>3. TypeInv => TypeOK
  BY DEF TypeInv
<1> QED BY <1>1, <1>2, <1>3, PTL DEF Spec
-----------------------------------------------------------------------------
(* Stock.  What a step can do to the inventory rows, committed and drafted. *)

LEMMA StockStep ==
    ASSUME [Next]_vars
    PROVE  \/ UNCHANGED <<stock, draft, rowLock>>
           \/ \E r \in Requests, outcome \in Ended :
                End(r, outcome) /\ (Publish(r) \/ UNCHANGED stock)
           \/ \E r \in Requests : LockRow(r) \/ ApplyLine(r)
<1>1. CASE UNCHANGED vars
  BY <1>1 DEF vars
<1>2. ASSUME NEW r \in Requests,
             CheckoutStarts(r) \/ CancelStarts(r) \/ ShipStarts(r)
             \/ PayReads(r) \/ ConfirmReads(r) \/ ConfirmReadsOrder(r)
      PROVE  UNCHANGED <<stock, draft, rowLock>>
  BY <1>2 DEF CheckoutStarts, CancelStarts, ShipStarts, StartLines, PayReads,
              ConfirmReads, ConfirmReadsOrder, tables, locks
<1>3. ASSUME NEW r \in Requests, NEW outcome \in Ended, Rollback(r, outcome)
      PROVE  End(r, outcome) /\ UNCHANGED stock
  BY <1>3 DEF Rollback, tables
<1>4. ASSUME NEW r \in Requests,
             CheckoutCommits(r) \/ CancelCommits(r) \/ ShipCommits(r)
             \/ PayCommits(r) \/ ConfirmCommits(r)
      PROVE  End(r, "done") /\ (Publish(r) \/ UNCHANGED stock)
  BY <1>4 DEF CheckoutCommits, CancelCommits, ShipCommits, PayCommits, ConfirmCommits
<1>5. "done" \in Ended
  BY DEF Ended
<1> QED BY <1>1, <1>2, <1>3, <1>4, <1>5, StepCases

\* The invariant needs the same bound on the rows a transaction has changed
\* and not yet written.
StockInv ==
    /\ StockWithinBounds
    /\ \A r \in Requests : \A row \in Rows : draft[r][row].reserved <= draft[r][row].quantity

\* A line is applied to at most one row of the draft of its own transaction.
LEMMA ApplyLineDraft ==
    ASSUME TypeInv, NEW r \in Requests, ApplyLine(r), NEW s \in Requests, NEW row \in Rows
    PROVE  \/ draft'[s][row] = draft[s][row]
           \/ s = r /\ row = ChosenRow(r) /\ draft'[s][row] = Changed(r)
<1>1. CASE Matched(r) = {}
  BY <1>1 DEF ApplyLine
<1>2. CASE Matched(r) # {}
  <2> DEFINE chosen == ChosenRow(r)
             changed == Changed(r)
  <2>1. draft' = [draft EXCEPT ![r][chosen] = changed]
    BY <1>2 DEF ApplyLine
  <2>2. draft \in [Requests -> [Rows -> StockRow]]
    BY DEF TypeInv, TypeOK
  <2> HIDE DEF chosen, changed
  <2>3. draft'[s][row] = draft[s][row] \/ (s = r /\ row = chosen /\ draft'[s][row] = changed)
    BY <2>1, <2>2
  <2> QED BY <2>3 DEF chosen, changed
<1> QED BY <1>1, <1>2

LEMMA LockRowDraft ==
    ASSUME TypeInv, NEW r \in Requests, LockRow(r), NEW s \in Requests, NEW row \in Rows
    PROVE  \/ draft'[s][row] = draft[s][row] /\ (rowLock'[row] = s => rowLock[row] = s)
           \/ draft'[s][row] = stock[row]
<1> DEFINE next == NextRow(r)
<1>1. next \in Rows
  BY NextRowTyped DEF LockRow
<1>2. /\ rowLock' = [rowLock EXCEPT ![next] = r]
      /\ \/ rowLock[next] = r /\ draft' = draft
         \/ draft' = [draft EXCEPT ![r][next] = stock[next]]
  BY DEF LockRow
<1> HIDE DEF next
<1>3. /\ draft \in [Requests -> [Rows -> StockRow]]
      /\ rowLock \in [Rows -> Requests \cup {NoOne}]
  BY DEF TypeInv, TypeOK
<1>4. rowLock'[row] = IF row = next THEN r ELSE rowLock[row]
  BY <1>1, <1>2, <1>3
<1>5. CASE rowLock[next] = r /\ draft' = draft
  BY <1>4, <1>5
<1>6. CASE draft' = [draft EXCEPT ![r][next] = stock[next]]
  <2>1. draft'[s][row] = IF s = r /\ row = next THEN stock[row] ELSE draft[s][row]
    BY <1>3, <1>6
  <2> QED BY <1>4, <2>1
<1> QED BY <1>2, <1>5, <1>6

LEMMA EndEffect ==
    ASSUME TypeInv, NEW r \in Requests, NEW outcome \in Ended, End(r, outcome),
           NEW s \in Requests, NEW row \in Rows
    PROVE  /\ draft'[s][row] = IF s = r THEN InitialStock[row] ELSE draft[s][row]
           /\ rowLock'[row] = s => s # r /\ rowLock[row] = s
<1>1. draft \in [Requests -> [Rows -> StockRow]]
  BY DEF TypeInv, TypeOK
<1>2. draft' = [draft EXCEPT ![r] = InitialStock]
  BY DEF End
<1>3. rowLock'[row] = IF rowLock[row] = r THEN NoOne ELSE rowLock[row]
  BY DEF End
<1> QED BY <1>1, <1>2, <1>3, RequestAssumption

LEMMA StockInit == Init => StockInv
BY StockAssumption DEF Init, StockInv, StockWithinBounds

LEMMA StockKept == TypeInv /\ StockInv /\ [Next]_vars => StockInv'
<1> SUFFICES ASSUME TypeInv, StockInv, [Next]_vars PROVE StockInv'
  OBVIOUS
<1>1. CASE UNCHANGED <<stock, draft, rowLock>>
  BY <1>1 DEF StockInv, StockWithinBounds
<1>2. ASSUME NEW r \in Requests, NEW outcome \in Ended, End(r, outcome),
             Publish(r) \/ UNCHANGED stock
      PROVE  StockInv'
  <2>1. ASSUME NEW row \in Rows PROVE stock'[row].reserved <= stock'[row].quantity
    BY <1>2 DEF Publish, StockInv, StockWithinBounds
  <2>2. ASSUME NEW s \in Requests, NEW row \in Rows
        PROVE  draft'[s][row].reserved <= draft'[s][row].quantity
    BY <1>2, EndEffect, StockAssumption DEF StockInv
  <2> QED BY <2>1, <2>2 DEF StockInv, StockWithinBounds
<1>3. ASSUME NEW r \in Requests, LockRow(r) PROVE StockInv'
  <2>1. stock' = stock
    BY <1>3 DEF LockRow, tables
  <2>2. ASSUME NEW s \in Requests, NEW row \in Rows
        PROVE  draft'[s][row].reserved <= draft'[s][row].quantity
    BY <1>3, LockRowDraft DEF StockInv, StockWithinBounds
  <2> QED BY <2>1, <2>2 DEF StockInv, StockWithinBounds
<1>4. ASSUME NEW r \in Requests, ApplyLine(r) PROVE StockInv'
  <2>1. stock' = stock
    BY <1>4 DEF ApplyLine, tables
  <2>2. ASSUME NEW s \in Requests, NEW row \in Rows
        PROVE  draft'[s][row].reserved <= draft'[s][row].quantity
    <3>1. AtLine(r) /\ LinePossible(r)
      BY <1>4 DEF ApplyLine
    <3>2. ChosenRow(r) \in Rows => Changed(r).reserved <= Changed(r).quantity
      BY <3>1, ChangedRow DEF StockInv
    <3> QED BY <1>4, <3>2, ApplyLineDraft DEF StockInv
  <2> QED BY <2>1, <2>2 DEF StockInv, StockWithinBounds
<1> QED BY <1>1, <1>2, <1>3, <1>4, StockStep

\* The inventory rows never promise more than is on the shelf, with any number
\* of concurrent checkouts, cancellations and shipments and any crashes.
THEOREM NoOversell == Spec => []StockWithinBounds
<1>1. StockInv => StockWithinBounds
  BY DEF StockInv
<1> QED BY <1>1, StockInit, StockKept, InitTyped, StepTyped, PTL DEF Spec

\* What one transaction has done to its draft of a row it locked.
Fresh(r, row) ==
    LET mine == draft[r][row]
        committed == stock[row]
    IN  /\ Op[r] \in {"checkout", "cancel"} => mine.quantity = committed.quantity
        /\ Op[r] = "checkout" => mine.reserved >= committed.reserved
        /\ Op[r] \in {"cancel", "ship"} => /\ mine.quantity <= committed.quantity
                                          /\ mine.reserved <= committed.reserved

\* FOR UPDATE: the copy of a row that a transaction will write back differs
\* from the committed row by its own lines alone.
THEOREM LockedRowsStayFresh == Spec => []DraftsStayFresh
<1>1. Init => DraftsStayFresh
  BY RequestAssumption DEF Init, DraftsStayFresh
<1>2. TypeInv /\ TypeInv' /\ DraftsStayFresh /\ [Next]_vars => DraftsStayFresh'
  <2> SUFFICES ASSUME TypeInv, TypeInv', DraftsStayFresh, [Next]_vars,
                      NEW s \in Requests, NEW row \in Rows, rowLock'[row] = s
               PROVE  Fresh(s, row)'
    BY DEF DraftsStayFresh, Fresh
  <2>0. rowLock[row] = s => Fresh(s, row)
    BY DEF DraftsStayFresh, Fresh
  <2>1. CASE UNCHANGED <<stock, draft, rowLock>>
    BY <2>0, <2>1 DEF Fresh
  <2>2. ASSUME NEW r \in Requests, NEW outcome \in Ended, End(r, outcome),
               Publish(r) \/ UNCHANGED stock
        PROVE  Fresh(s, row)'
    <3>1. s # r /\ rowLock[row] = s /\ draft'[s][row] = draft[s][row]
      BY <2>2, EndEffect
    <3>2. stock'[row] = stock[row]
      BY <2>2, <3>1 DEF Publish
    <3> QED BY <2>0, <3>1, <3>2 DEF Fresh
  <2>3. ASSUME NEW r \in Requests, LockRow(r) PROVE Fresh(s, row)'
    <3>1. stock' = stock
      BY <2>3 DEF LockRow, tables
    <3>2. CASE draft'[s][row] = draft[s][row] /\ rowLock[row] = s
      BY <2>0, <3>1, <3>2 DEF Fresh
    <3>3. CASE draft'[s][row] = stock[row]
      <4>1. stock[row].quantity \in Nat /\ stock[row].reserved \in Nat
        BY DEF TypeInv, TypeOK, StockRow
      <4> QED BY <3>1, <3>3, <4>1 DEF Fresh
    <3> QED BY <2>3, <3>2, <3>3, LockRowDraft
  <2>4. ASSUME NEW r \in Requests, ApplyLine(r) PROVE Fresh(s, row)'
    <3>1. stock' = stock /\ rowLock' = rowLock
      BY <2>4 DEF ApplyLine, tables, locks
    <3>2. CASE draft'[s][row] = draft[s][row]
      BY <2>0, <3>1, <3>2 DEF Fresh
    <3>3. CASE s = r /\ row = ChosenRow(r) /\ draft'[s][row] = Changed(r)
      <4>1. AtLine(r) /\ LinePossible(r)
        BY <2>4 DEF ApplyLine
      <4> DEFINE mine == draft[s][row]
                 changed == Changed(r)
                 committed == stock[row]
      <4>2. /\ Op[r] \in {"checkout", "cancel"} => changed.quantity = mine.quantity
            /\ Op[r] = "checkout" => changed.reserved >= mine.reserved
            /\ Op[r] \in {"cancel", "ship"} => /\ changed.quantity <= mine.quantity
                                              /\ changed.reserved <= mine.reserved
            /\ changed \in StockRow
        BY <3>3, <4>1, ChangedRow
      <4>3. mine \in StockRow /\ committed \in StockRow
        BY DEF TypeInv, TypeOK
      <4>4. Fresh(s, row)
        BY <2>0, <3>1
      <4>5. /\ Op[s] \in {"checkout", "cancel"} => changed.quantity = committed.quantity
            /\ Op[s] = "checkout" => changed.reserved >= committed.reserved
            /\ Op[s] \in {"cancel", "ship"} => /\ changed.quantity <= committed.quantity
                                              /\ changed.reserved <= committed.reserved
        <5>1. Fresh(s, row) <=>
                /\ Op[s] \in {"checkout", "cancel"} => mine.quantity = committed.quantity
                /\ Op[s] = "checkout" => mine.reserved >= committed.reserved
                /\ Op[s] \in {"cancel", "ship"} => /\ mine.quantity <= committed.quantity
                                                  /\ mine.reserved <= committed.reserved
          BY DEF Fresh
        <5> HIDE DEF mine, changed, committed
        <5>2. /\ mine.quantity \in Nat /\ mine.reserved \in Nat
              /\ changed.quantity \in Nat /\ changed.reserved \in Nat
              /\ committed.quantity \in Nat /\ committed.reserved \in Nat
          BY <4>2, <4>3 DEF StockRow
        <5> QED BY <3>3, <4>2, <4>4, <5>1, <5>2
      <4> QED BY <3>1, <3>3, <4>5 DEF Fresh
    <3> QED BY <2>4, <3>2, <3>3, ApplyLineDraft
  <2> QED BY <2>1, <2>2, <2>3, <2>4, StockStep
<1> QED BY <1>1, <1>2, InitTyped, StepTyped, PTL DEF Spec
-----------------------------------------------------------------------------
(* The order, payment and cart tables agree with one another.              *)

Placed(o) == orders[o].status # "absent"

\* What the handlers know when they write: a row exists once its request has
\* committed, and what was read as existing still exists.
TablesInv ==
    /\ \A o \in Orders : Placed(o) => phase[o] = "done"
    /\ \A p \in Payments :
          payments[p] # "absent" => phase[p] = "done" /\ Placed(OrderOf[p])
    /\ \A r \in Requests :
          /\ phase[r] = "locking" /\ Op[r] # "checkout" => Placed(OrderOf[r])
          /\ phase[r] = "inserting" => Placed(OrderOf[r])
          /\ phase[r] \in {"paying", "confirming"} => payments[tx[r].target] # "absent"

\* The one place a row of each table is inserted; every other step keeps which
\* rows exist.  phase and target tell what the request is about.
LEMMA QuietStep ==
    ASSUME [Next]_vars
    PROVE  \/ UNCHANGED <<tables, phase, tx>>
           \/ \E r \in Requests :
                \/ /\ UNCHANGED tables
                   /\ phase[r] \notin Ended
                   /\ \E outcome \in Ended \ {"done"} : End(r, outcome)
                \/ CheckoutStarts(r) \/ CancelStarts(r) \/ ShipStarts(r)
                \/ PayReads(r) \/ ConfirmReads(r)
                \/ LockRow(r) \/ ApplyLine(r) \/ ConfirmReadsOrder(r)
                \/ CheckoutCommits(r) \/ CancelCommits(r) \/ ShipCommits(r)
                \/ PayCommits(r) \/ ConfirmCommits(r)
BY StepCases DEF Rollback, vars, tables

\* cancel_order and record_shipment write the status column of a placed order.
LEMMA StatusWritten ==
    ASSUME TypeInv, TablesInv, NEW r \in Requests, CancelCommits(r) \/ ShipCommits(r)
    PROVE  /\ \A o \in Orders : /\ orders'[o].payment = orders[o].payment
                                /\ Placed(o)' <=> Placed(o)
           /\ UNCHANGED <<carts, payments>>
           /\ End(r, "done")
           /\ phase[r] = "locking"
           /\ Op[r] \in {"cancel", "ship"}
<1> DEFINE o == OrderOf[r]
<1>1. o \in Orders /\ Placed(o)
  BY RequestAssumption DEF CancelCommits, ShipCommits, LinesDone, TablesInv
<1>2. \/ orders' = orders
      \/ \E st \in {"cancelled", "shipped"} : orders' = [orders EXCEPT ![o].status = st]
  BY DEF CancelCommits, ShipCommits
<1> HIDE DEF o
<1>3. orders \in [Orders -> OrderRow]
  BY DEF TypeInv, TypeOK
<1>4. ASSUME NEW x \in Orders
      PROVE  orders'[x].payment = orders[x].payment /\ (Placed(x)' <=> Placed(x))
  <2>1. CASE orders' = orders
    BY <2>1 DEF Placed
  <2>2. ASSUME NEW st \in {"cancelled", "shipped"},
               orders' = [orders EXCEPT ![o].status = st]
        PROVE  orders'[x].payment = orders[x].payment /\ (Placed(x)' <=> Placed(x))
    <3>1. CASE x # o
      BY <1>3, <2>2, <3>1 DEF Placed
    <3>2. CASE x = o
      <4>1. orders'[x] = [orders[o] EXCEPT !.status = st]
        BY <1>3, <2>2, <3>2
      <4>2. orders[o] \in OrderRow
        BY <1>1, <1>3
      <4>3. orders'[x].status = st /\ orders'[x].payment = orders[o].payment
        BY <4>1, <4>2 DEF OrderRow
      <4> QED BY <1>1, <3>2, <4>3 DEF Placed
    <3> QED BY <3>1, <3>2
  <2> QED BY <1>2, <2>1, <2>2
<1> QED BY <1>4 DEF CancelCommits, ShipCommits, LinesDone

\* record_payment inserts its own row, for an order that exists.
LEMMA PaymentInserted ==
    ASSUME TypeInv, TablesInv, NEW r \in Requests, PayCommits(r)
    PROVE  /\ r \in Payments /\ phase[r] = "inserting" /\ Placed(OrderOf[r])
           /\ payments' = [payments EXCEPT ![r] = "pending"]
           /\ UNCHANGED <<carts, orders>>
           /\ End(r, "done")
BY DEF PayCommits, TablesInv, TypeInv, HandlerOK, Payments

\* confirm_payment marks a recorded payment and its order paid.
LEMMA PaymentConfirmed ==
    ASSUME TypeInv, TablesInv, NEW r \in Requests, ConfirmCommits(r)
    PROVE  \E p \in Payments :
             /\ payments[p] # "absent" /\ OrderOf[p] \in Orders
             /\ payments' = [payments EXCEPT ![p] = "paid"]
             /\ orders'[OrderOf[p]].payment = "paid"
             /\ Placed(OrderOf[p]) /\ Placed(OrderOf[p])'
             /\ \A o \in Orders \ {OrderOf[p]} : orders'[o] = orders[o]
             /\ carts' = carts
             /\ End(r, "done")
             /\ phase[r] = "confirming" /\ Op[r] = "confirm"
<1> DEFINE p == tx[r].target
           o == OrderOf[p]
           paid == [status |-> IF tx[r].seen = "pending" THEN "confirmed"
                               ELSE orders[o].status,
                    payment |-> "paid"]
<1>1. phase[r] = "confirming"
  BY DEF ConfirmCommits
<1>2. p \in Payments /\ Op[r] = "confirm" /\ payments[p] # "absent"
  BY <1>1 DEF TypeInv, HandlerOK, TablesInv
<1>3. o \in Orders /\ Placed(o)
  BY <1>2, RequestAssumption DEF Payments, TablesInv
<1>4. orders' = [orders EXCEPT ![o] = paid]
  BY DEF ConfirmCommits
<1>5. paid.status # "absent" /\ paid.payment = "paid"
  BY <1>3 DEF Placed
<1>6. /\ payments' = [payments EXCEPT ![p] = "paid"]
      /\ carts' = carts
      /\ End(r, "done")
  BY DEF ConfirmCommits
<1> HIDE DEF p, o, paid
<1>7. orders'[o] = paid /\ \A x \in Orders \ {o} : orders'[x] = orders[x]
  BY <1>3, <1>4 DEF TypeInv, TypeOK
<1> QED BY <1>1, <1>2, <1>3, <1>5, <1>6, <1>7 DEF Placed, o
-----------------------------------------------------------------------------
\* What ending a transaction does to the phases and handlers.
LEMMA EndPhase ==
    ASSUME TypeInv, NEW r \in Requests, NEW outcome \in Ended, End(r, outcome)
    PROVE  /\ phase'[r] = outcome
           /\ \A s \in Requests \ {r} : phase'[s] = phase[s] /\ tx'[s] = tx[s]
BY DEF End, TypeInv, TypeOK

\* A step that keeps the tables keeps TablesInv if the request that moves was
\* not done before and satisfies its own part afterwards.
LEMMA MoveKeepsTables ==
    ASSUME TypeInv, TablesInv, UNCHANGED tables, NEW r \in Requests, phase[r] # "done",
           \A s \in Requests \ {r} : phase'[s] = phase[s] /\ tx'[s] = tx[s],
           phase'[r] = "locking" /\ Op[r] # "checkout" => Placed(OrderOf[r]),
           phase'[r] = "inserting" => Placed(OrderOf[r]),
           phase'[r] \in {"paying", "confirming"} => payments[tx'[r].target] # "absent"
    PROVE  TablesInv'
<1>1. orders' = orders /\ payments' = payments
  BY DEF tables
<1>2. ASSUME NEW o \in Orders, Placed(o)' PROVE phase'[o] = "done"
  <2>1. phase[o] = "done"
    BY <1>1, <1>2 DEF TablesInv, Placed
  <2> QED BY <2>1 DEF Orders
<1>3. ASSUME NEW p \in Payments, payments'[p] # "absent"
      PROVE  phase'[p] = "done" /\ Placed(OrderOf[p])'
  <2>1. phase[p] = "done" /\ Placed(OrderOf[p])
    BY <1>1, <1>3 DEF TablesInv
  <2> QED BY <1>1, <2>1 DEF Payments, Placed
<1>4. ASSUME NEW s \in Requests
      PROVE  /\ phase'[s] = "locking" /\ Op[s] # "checkout" => Placed(OrderOf[s])'
             /\ phase'[s] = "inserting" => Placed(OrderOf[s])'
             /\ phase'[s] \in {"paying", "confirming"} => payments'[tx'[s].target] # "absent"
  <2>1. CASE s = r
    BY <1>1, <2>1 DEF Placed
  <2>2. CASE s # r
    BY <1>1, <2>2 DEF TablesInv, Placed
  <2> QED BY <2>1, <2>2
<1> QED BY <1>2, <1>3, <1>4 DEF TablesInv

\* A committed write keeps TablesInv if it keeps every placed order placed and
\* every payment recorded, and the rows it adds are its own request's.
LEMMA CommitKeepsTables ==
    ASSUME TypeInv, TablesInv, NEW r \in Requests, End(r, "done"),
           \A o \in Orders : Placed(o) => Placed(o)',
           \A o \in Orders : Placed(o)' => Placed(o) \/ o = r,
           \A p \in Payments : payments[p] # "absent" => payments'[p] # "absent",
           \A p \in Payments : payments'[p] # "absent" =>
               payments[p] # "absent" \/ (p = r /\ Placed(OrderOf[p]))
    PROVE  TablesInv'
<1>1. "done" \in Ended
  BY DEF Ended
<1>2. /\ phase'[r] = "done"
      /\ \A s \in Requests \ {r} : phase'[s] = phase[s] /\ tx'[s] = tx[s]
  BY <1>1, EndPhase
<1>3. ASSUME NEW o \in Orders, Placed(o)' PROVE phase'[o] = "done"
  <2>1. o \in Requests /\ (o # r => Placed(o))
    BY <1>3 DEF Orders
  <2> QED BY <1>2, <2>1 DEF TablesInv
<1>4. ASSUME NEW p \in Payments, payments'[p] # "absent"
      PROVE  phase'[p] = "done" /\ Placed(OrderOf[p])'
  <2>1. p \in Requests /\ OrderOf[p] \in Orders
    BY RequestAssumption DEF Payments
  <2>2. CASE payments[p] # "absent"
    BY <1>2, <2>1, <2>2 DEF TablesInv
  <2>3. CASE p = r /\ Placed(OrderOf[p])
    BY <1>2, <2>1, <2>3
  <2> QED BY <1>4, <2>2, <2>3
<1>5. ASSUME NEW s \in Requests
      PROVE  /\ phase'[s] = "locking" /\ Op[s] # "checkout" => Placed(OrderOf[s])'
             /\ phase'[s] = "inserting" => Placed(OrderOf[s])'
             /\ phase'[s] \in {"paying", "confirming"} => payments'[tx'[s].target] # "absent"
  <2>1. OrderOf[s] \in Orders
    BY RequestAssumption
  <2>2. CASE s = r
    BY <1>2, <2>2
  <2>3. CASE s # r
    <3>1. phase'[s] = phase[s] /\ tx'[s] = tx[s]
      BY <1>2, <2>3
    <3>2. phase[s] \in {"paying", "confirming"} => tx[s].target \in Payments
      BY DEF TypeInv, HandlerOK
    <3> QED BY <2>1, <3>1, <3>2 DEF TablesInv
  <2> QED BY <2>2, <2>3
<1> QED BY <1>3, <1>4, <1>5 DEF TablesInv

\* checkout inserts its own order, which did not exist, and closes its cart.
LEMMA OrderInserted ==
    ASSUME TypeInv, TablesInv, NEW r \in Requests, CheckoutCommits(r)
    PROVE  /\ r \in Orders /\ ~Placed(r) /\ Placed(r)'
           /\ phase[r] = "locking"
           /\ orders'[r].payment = "pending"
           /\ \A o \in Orders \ {r} : orders'[o] = orders[o]
           /\ carts' = [carts EXCEPT ![CartOf[r]] = "checked_out"]
           /\ UNCHANGED payments
           /\ End(r, "done")
<1> DEFINE new == [status |-> "pending", payment |-> "pending"]
<1>1. r \in Orders /\ phase[r] = "locking"
  BY DEF CheckoutCommits, Orders, LinesDone
<1>2. ~Placed(r)
  BY <1>1 DEF TablesInv
<1>3. orders' = [orders EXCEPT ![r] = new]
  BY DEF CheckoutCommits
<1>4. orders'[r] = new /\ \A o \in Orders \ {r} : orders'[o] = orders[o]
  BY <1>1, <1>3 DEF TypeInv, TypeOK
<1> QED BY <1>1, <1>2, <1>4 DEF CheckoutCommits, Placed

LEMMA TablesStep == TypeInv /\ TablesInv /\ [Next]_vars => TablesInv'
<1> SUFFICES ASSUME TypeInv, TablesInv, [Next]_vars PROVE TablesInv'
  OBVIOUS
<1>0. "done" \in Ended
  BY DEF Ended
<1>1. CASE UNCHANGED <<tables, phase, tx>>
  BY <1>1 DEF tables, TablesInv, Placed
<1>2. ASSUME NEW r \in Requests, UNCHANGED tables, phase[r] \notin Ended,
             NEW outcome \in Ended, End(r, outcome)
      PROVE  TablesInv'
  <2>1. phase[r] # "done"
    BY <1>0, <1>2
  <2>2. phase'[r] \in Ended /\ \A s \in Requests \ {r} : phase'[s] = phase[s] /\ tx'[s] = tx[s]
    BY <1>2, EndPhase
  <2>3. phase'[r] \notin {"locking", "inserting", "paying", "confirming"}
    BY <2>2 DEF Ended
  <2> QED BY <1>2, <2>1, <2>2, <2>3, MoveKeepsTables
<1>3. ASSUME NEW r \in Requests, CheckoutStarts(r) \/ CancelStarts(r) \/ ShipStarts(r)
      PROVE  TablesInv'
  <2>1. \E status : StartLines(r, status)
    BY <1>3 DEF CheckoutStarts, CancelStarts, ShipStarts
  <2>2. UNCHANGED tables /\ phase'[r] = "locking"
    BY <2>1 DEF StartLines, TypeInv, TypeOK
  <2>3. \A s \in Requests \ {r} : phase'[s] = phase[s] /\ tx'[s] = tx[s]
    BY <2>1 DEF StartLines, TypeInv, TypeOK
  <2>4. phase[r] # "done"
    BY <1>3 DEF CheckoutStarts, CancelStarts, ShipStarts, MayStart
  <2>5. Op[r] # "checkout" => Placed(OrderOf[r])
    BY <1>3 DEF CheckoutStarts, CancelStarts, ShipStarts, Placed, ReservedStatuses
  <2> QED BY <2>2, <2>3, <2>4, <2>5, MoveKeepsTables
<1>4. ASSUME NEW r \in Requests, PayReads(r) PROVE TablesInv'
  <2>1. /\ UNCHANGED tables /\ phase'[r] = "inserting" /\ phase[r] # "done"
        /\ \A s \in Requests \ {r} : phase'[s] = phase[s] /\ tx'[s] = tx[s]
        /\ Placed(OrderOf[r])
    BY <1>4 DEF PayReads, MayStart, TypeInv, TypeOK, Placed
  <2> QED BY <2>1, MoveKeepsTables
<1>5. ASSUME NEW r \in Requests, ConfirmReads(r) PROVE TablesInv'
  <2>1. PICK p \in Payments : /\ payments[p] = "pending"
                              /\ tx' = [tx EXCEPT ![r].target = p]
    BY <1>5 DEF ConfirmReads, Matching
  <2>2. /\ UNCHANGED tables /\ phase'[r] = "paying" /\ phase[r] # "done"
        /\ \A s \in Requests \ {r} : phase'[s] = phase[s] /\ tx'[s] = tx[s]
    BY <1>5, <2>1 DEF ConfirmReads, MayStart, TypeInv, TypeOK
  <2>3. tx'[r].target = p
    BY <2>1 DEF TypeInv, TypeOK, Handler
  <2> QED BY <2>1, <2>2, <2>3, MoveKeepsTables
<1>6. ASSUME NEW r \in Requests, LockRow(r) \/ ApplyLine(r) PROVE TablesInv'
  <2>1. UNCHANGED tables /\ phase' = phase /\ phase[r] = "locking"
    BY <1>6 DEF LockRow, ApplyLine, AtLine
  <2>2. \A s \in Requests \ {r} : tx'[s] = tx[s]
    BY <1>6 DEF LockRow, ApplyLine, TypeInv, TypeOK
  <2> QED BY <2>1, <2>2, MoveKeepsTables DEF TablesInv
<1>7. ASSUME NEW r \in Requests, ConfirmReadsOrder(r) PROVE TablesInv'
  <2> DEFINE seen == orders[OrderOf[tx[r].target]].status
  <2>1. /\ UNCHANGED tables
        /\ phase[r] = "paying"
        /\ phase' = [phase EXCEPT ![r] = "confirming"]
        /\ tx' = [tx EXCEPT ![r].seen = seen]
    BY <1>7 DEF ConfirmReadsOrder
  <2> HIDE DEF seen
  <2>2. phase'[r] = "confirming" /\ tx'[r].target = tx[r].target
    BY <2>1 DEF TypeInv, TypeOK, Handler
  <2>3. \A s \in Requests \ {r} : phase'[s] = phase[s] /\ tx'[s] = tx[s]
    BY <2>1 DEF TypeInv, TypeOK
  <2>4. payments[tx[r].target] # "absent"
    BY <2>1 DEF TablesInv
  <2> QED BY <2>1, <2>2, <2>3, <2>4, MoveKeepsTables
<1>8. ASSUME NEW r \in Requests, CheckoutCommits(r) PROVE TablesInv'
  <2>1. \A o \in Orders : (Placed(o) => Placed(o)') /\ (Placed(o)' => Placed(o) \/ o = r)
    BY <1>8, OrderInserted DEF Placed
  <2> QED BY <1>8, <2>1, OrderInserted, CommitKeepsTables
<1>9. ASSUME NEW r \in Requests, CancelCommits(r) \/ ShipCommits(r) PROVE TablesInv'
  BY <1>9, StatusWritten, CommitKeepsTables
<1>10. ASSUME NEW r \in Requests, PayCommits(r) PROVE TablesInv'
  <2>1. \A p \in Payments : /\ payments'[p] = IF p = r THEN "pending" ELSE payments[p]
    BY <1>10, PaymentInserted DEF TypeInv, TypeOK
  <2>2. \A o \in Orders : Placed(o)' <=> Placed(o)
    BY <1>10, PaymentInserted DEF Placed
  <2> QED BY <1>10, <2>1, <2>2, PaymentInserted, CommitKeepsTables
<1>11. ASSUME NEW r \in Requests, ConfirmCommits(r) PROVE TablesInv'
  <2>1. PICK p \in Payments :
          /\ payments[p] # "absent"
          /\ payments' = [payments EXCEPT ![p] = "paid"]
          /\ Placed(OrderOf[p]) /\ Placed(OrderOf[p])'
          /\ \A o \in Orders \ {OrderOf[p]} : orders'[o] = orders[o]
          /\ End(r, "done")
    BY <1>11, PaymentConfirmed
  <2>2. \A q \in Payments : payments'[q] = IF q = p THEN "paid" ELSE payments[q]
    BY <2>1 DEF TypeInv, TypeOK
  <2>3. \A o \in Orders : Placed(o)' <=> Placed(o)
    BY <2>1 DEF Placed
  <2> QED BY <2>1, <2>2, <2>3, CommitKeepsTables
<1> QED BY <1>1, <1>2, <1>3, <1>4, <1>5, <1>6, <1>7, <1>8, <1>9, <1>10, <1>11, QuietStep

LEMMA TablesInit == Init => TablesInv
BY RequestAssumption DEF Init, TablesInv, Placed, NoOrderRow
-----------------------------------------------------------------------------
\* confirm_payment: an order is marked paid exactly when one of its payments is.
THEOREM OrdersAndPaymentsAgree == Spec => []PaidTogether
<1>1. Init => PaidTogether
  BY DEF Init, PaidTogether, NoOrderRow
<1>2. TypeInv /\ TablesInv /\ PaidTogether /\ [Next]_vars => PaidTogether'
  <2> SUFFICES ASSUME TypeInv, TablesInv, PaidTogether, [Next]_vars
               PROVE  PaidTogether'
    OBVIOUS
  <2>1. CASE UNCHANGED tables
    BY <2>1 DEF tables, PaidTogether
  <2>2. ASSUME NEW r \in Requests, CheckoutCommits(r) PROVE PaidTogether'
    <3>1. ASSUME NEW p \in Payments, OrderOf[p] = r PROVE payments[p] = "absent"
      BY <2>2, <3>1, OrderInserted DEF TablesInv
    <3>2. \A o \in Orders : orders'[o].payment = IF o = r THEN "pending" ELSE orders[o].payment
      BY <2>2, OrderInserted
    <3>3. payments' = payments
      BY <2>2, OrderInserted
    <3> QED BY <3>1, <3>2, <3>3 DEF PaidTogether
  <2>3. ASSUME NEW r \in Requests, CancelCommits(r) \/ ShipCommits(r) PROVE PaidTogether'
    BY <2>3, StatusWritten DEF PaidTogether
  <2>4. ASSUME NEW r \in Requests, PayCommits(r) PROVE PaidTogether'
    <3>1. payments[r] = "absent"
      BY <2>4, PaymentInserted DEF TablesInv
    <3>2. \A p \in Payments : payments'[p] = IF p = r THEN "pending" ELSE payments[p]
      BY <2>4, PaymentInserted DEF TypeInv, TypeOK
    <3>3. orders' = orders
      BY <2>4, PaymentInserted
    <3> QED BY <3>1, <3>2, <3>3 DEF PaidTogether
  <2>5. ASSUME NEW r \in Requests, ConfirmCommits(r) PROVE PaidTogether'
    <3>1. PICK p \in Payments :
            /\ OrderOf[p] \in Orders
            /\ payments' = [payments EXCEPT ![p] = "paid"]
            /\ orders'[OrderOf[p]].payment = "paid"
            /\ \A o \in Orders \ {OrderOf[p]} : orders'[o] = orders[o]
      BY <2>5, PaymentConfirmed
    <3>2. \A q \in Payments : payments'[q] = IF q = p THEN "paid" ELSE payments[q]
      BY <3>1 DEF TypeInv, TypeOK
    <3>3. ASSUME NEW o \in Orders
          PROVE  orders'[o].payment = "paid" <=>
                   \E q \in Payments : OrderOf[q] = o /\ payments'[q] = "paid"
      <4>1. CASE o = OrderOf[p]
        BY <3>1, <3>2, <4>1
      <4>2. CASE o # OrderOf[p]
        <5>1. orders'[o] = orders[o]
          BY <3>1, <4>2
        <5>2. \A q \in Payments : OrderOf[q] = o => payments'[q] = payments[q]
          BY <3>2, <4>2
        <5> QED BY <5>1, <5>2 DEF PaidTogether
      <4> QED BY <4>1, <4>2
    <3> QED BY <3>3 DEF PaidTogether
  <2> QED BY <2>1, <2>2, <2>3, <2>4, <2>5, QuietStep DEF
        CheckoutStarts, CancelStarts, ShipStarts, StartLines, PayReads, ConfirmReads,
        LockRow, ApplyLine, ConfirmReadsOrder
<1> QED BY <1>1, <1>2, InitTyped, StepTyped, TablesInit, TablesStep, PTL DEF Spec

\* checkout: a cart is checked out exactly when an order was placed from it.
THEOREM CartsAndOrdersAgree == Spec => []CartClosedByOrder
<1>1. Init => CartClosedByOrder
  BY DEF Init, CartClosedByOrder, NoOrderRow
<1>2. TypeInv /\ TablesInv /\ CartClosedByOrder /\ [Next]_vars => CartClosedByOrder'
  <2> SUFFICES ASSUME TypeInv, TablesInv, CartClosedByOrder, [Next]_vars
               PROVE  CartClosedByOrder'
    OBVIOUS
  <2>1. CASE carts' = carts /\ \A o \in Orders : Placed(o)' <=> Placed(o)
    BY <2>1 DEF CartClosedByOrder, Placed
  <2>2. CASE UNCHANGED tables
    BY <2>1, <2>2 DEF tables, Placed
  <2>3. ASSUME NEW r \in Requests, CheckoutCommits(r) PROVE CartClosedByOrder'
    <3>1. CartOf[r] \in Carts /\ r \in Orders
      BY <2>3, OrderInserted, RequestAssumption
    <3>2. \A c \in Carts : carts'[c] = IF c = CartOf[r] THEN "checked_out" ELSE carts[c]
      BY <2>3, OrderInserted DEF TypeInv, TypeOK
    <3>3. /\ \A o \in Orders \ {r} : orders'[o] = orders[o]
          /\ orders'[r].status # "absent" /\ orders[r].status = "absent"
      BY <2>3, OrderInserted DEF Placed
    <3> QED BY <3>1, <3>2, <3>3 DEF CartClosedByOrder
  <2>4. ASSUME NEW r \in Requests, CancelCommits(r) \/ ShipCommits(r)
        PROVE  CartClosedByOrder'
    BY <2>1, <2>4, StatusWritten
  <2>5. ASSUME NEW r \in Requests, PayCommits(r) PROVE CartClosedByOrder'
    BY <2>1, <2>5, PaymentInserted DEF Placed
  <2>6. ASSUME NEW r \in Requests, ConfirmCommits(r) PROVE CartClosedByOrder'
    <3>1. PICK p \in Payments :
            /\ Placed(OrderOf[p]) /\ Placed(OrderOf[p])'
            /\ \A o \in Orders \ {OrderOf[p]} : orders'[o] = orders[o]
            /\ carts' = carts
      BY <2>6, PaymentConfirmed
    <3> QED BY <2>1, <3>1 DEF Placed
  <2> QED BY <2>2, <2>3, <2>4, <2>5, <2>6, QuietStep DEF
        CheckoutStarts, CancelStarts, ShipStarts, StartLines, PayReads, ConfirmReads,
        LockRow, ApplyLine, ConfirmReadsOrder
<1> QED BY <1>1, <1>2, InitTyped, StepTyped, TablesInit, TablesStep, PTL DEF Spec
-----------------------------------------------------------------------------
(* The order service implements OrderLedger: seen from the tables alone,   *)
(* each operation happens in one step, at its commit.  This needs callers  *)
(* who do not overlap requests on one cart or order.                       *)
(*                                                                         *)
(* And its books balance: what is reserved and on hand against what the    *)
(* order rows say was ordered and shipped.  This needs such callers too,   *)
(* and each variant stocked in one warehouse: cancel_order and             *)
(* record_shipment choose the row anew, so with two warehouses they may    *)
(* change another row than the checkout did.                               *)


\* No two requests under way are about the same cart or order, so an order is
\* still as its request has read it.
Apart ==
    \A r, s \in Requests :
        phase[r] \in Running /\ phase[s] \in Running /\ r # s => Touches(r) \cap Touches(s) = {}

StillAsRead(r) ==
    /\ phase[r] = "locking" /\ Op[r] \in {"cancel", "ship"} =>
          /\ orders[OrderOf[r]].status \in ReservedStatuses
          /\ tx[r].seen \in ReservedStatuses
    /\ phase[r] \in {"paying", "confirming"} => tx[r].target \in Matching(r)
    /\ phase[r] = "confirming" => tx[r].seen = orders[OrderOf[tx[r].target]].status

SerialInv == Apart /\ \A r \in Requests : StillAsRead(r)

\* The warehouses whose rows a line of variant v may use, and the lines done.
Allowed(r, v) ==
    {w \in Warehouses : <<v, w>> \in Rows /\ Pinned(r) \in {NoWarehouse, w}}
Applied(r) == DOMAIN LinesOf(r) \ tx[r].left

\* A transaction holds the rows of the lines it has done, and of the line at
\* hand those it has scanned.
Holds(r) ==
    /\ phase[r] = "locking" /\ tx[r].line = 0 => tx[r].left = {}
    /\ AtLine(r) => \A w \in Matched(r) :
          w <= tx[r].scanned => rowLock[<<LineOf(r).variant, w>>] = r
    /\ phase[r] = "locking" =>
          \A i \in Applied(r) : \A w \in Allowed(r, LinesOf(r)[i].variant) :
              rowLock[<<LinesOf(r)[i].variant, w>>] = r
    /\ phase[r] = "locking" /\ Op[r] = "checkout" =>
          \A i \in Applied(r) :
              LinesOf(r)[i].units > 0 /\ Allowed(r, LinesOf(r)[i].variant) # {}

Stocked(v)    == \E row \in Rows : row[1] = v
AllStocked(o) == \A i \in DOMAIN LinesOf(o) : Stocked(LinesOf(o)[i].variant)

LocksInv ==
    /\ \A row \in Rows, r \in Requests : rowLock[row] = r => phase[r] = "locking"
    /\ \A r \in Requests : Holds(r)
    /\ \A o \in Orders : Placed(o) => AllStocked(o)
-----------------------------------------------------------------------------
(* Orderly callers.                                                        *)

\* The lines of a request are those of its order.
LEMMA SameLines ==
    ASSUME NEW r \in Requests
    PROVE  /\ OrderOf[r] \in Orders /\ OrderOf[r] \in Requests
           /\ LinesOf(r) = LinesOf(OrderOf[r])
           /\ \A v : UnitsOrdered(r, v) = UnitsOrdered(OrderOf[r], v)
<1>1. OrderOf[r] \in Orders /\ OrderOf[OrderOf[r]] = OrderOf[r]
  BY RequestAssumption
<1>2. LinesOf(r) = LinesOf(OrderOf[r])
  BY <1>1 DEF LinesOf
<1> QED BY <1>1, <1>2 DEF UnitsOrdered, Orders

\* What a request touches does not depend on the state.
LEMMA TouchesFixed ==
    ASSUME NEW r \in Requests
    PROVE  Touches(r)' = Touches(r) /\ Matching(r)' = Matching(r)
BY DEF Touches, Matching, Payments

\* The order a request has read is one it touches.
LEMMA ReadOrders ==
    ASSUME TypeInv, TablesInv, SerialInv, NEW r \in Requests
    PROVE  /\ Op[r] \in {"cancel", "ship", "pay"} => OrderOf[r] \in Touches(r)
           /\ phase[r] \in {"paying", "confirming"} =>
                /\ OrderOf[tx[r].target] \in Touches(r)
                /\ OrderOf[tx[r].target] \in Orders
                /\ Placed(OrderOf[tx[r].target])
<1>1. Op[r] \in {"cancel", "ship", "pay"} => OrderOf[r] \in Touches(r)
  BY DEF Touches
<1>2. ASSUME phase[r] \in {"paying", "confirming"}
      PROVE  /\ OrderOf[tx[r].target] \in Touches(r)
             /\ OrderOf[tx[r].target] \in Orders
             /\ Placed(OrderOf[tx[r].target])
  <2>1. Op[r] = "confirm" /\ tx[r].target \in Payments /\ tx[r].target \in Matching(r)
    BY <1>2 DEF TypeInv, HandlerOK, SerialInv, StillAsRead
  <2>2. payments[tx[r].target] # "absent"
    BY <1>2 DEF TablesInv
  <2>3. OrderOf[tx[r].target] \in Orders
    BY <2>1, RequestAssumption DEF Payments
  <2> QED BY <2>1, <2>2, <2>3 DEF Touches, TablesInv
<1> QED BY <1>1, <1>2

\* A step of one request keeps the books of the others if the orders it writes
\* are new or its own.
LEMMA SerialMove ==
    ASSUME TypeInv, TablesInv, SerialInv, OrderlyCallers, NEW r \in Requests,
           \A s \in Requests \ {r} : phase'[s] = phase[s] /\ tx'[s] = tx[s],
           \A o \in Orders : \/ orders'[o] = orders[o]
                             \/ ~Placed(o)
                             \/ phase[r] \in Running /\ o \in Touches(r),
           phase'[r] \in Running => phase[r] \in Running \/ MayStart(r),
           StillAsRead(r)'
    PROVE  SerialInv'
<1>1. ASSUME NEW s \in Requests \ {r}, phase'[s] \in Running, phase'[r] \in Running
      PROVE  Touches(r) \cap Touches(s) = {}
  <2>1. phase[s] \in Running
    BY <1>1
  <2>2. CASE phase[r] \in Running
    BY <2>1, <2>2 DEF SerialInv, Apart
  <2>3. CASE MayStart(r)
    BY <2>1, <2>3 DEF MayStart
  <2> QED BY <1>1, <2>2, <2>3
<1>2. ASSUME NEW s \in Requests, NEW t \in Requests, s # t,
             phase'[s] \in Running, phase'[t] \in Running
      PROVE  Touches(s)' \cap Touches(t)' = {}
  <2>1. Touches(s)' = Touches(s) /\ Touches(t)' = Touches(t)
    BY TouchesFixed
  <2>2. CASE s = r
    BY <1>1, <1>2, <2>1, <2>2
  <2>3. CASE t = r
    BY <1>1, <1>2, <2>1, <2>3
  <2>4. CASE s # r /\ t # r
    <3>1. phase[s] \in Running /\ phase[t] \in Running
      BY <1>2, <2>4
    <3> QED BY <1>2, <2>1, <3>1 DEF SerialInv, Apart
  <2> QED BY <2>2, <2>3, <2>4
<1>3. ASSUME NEW s \in Requests \ {r} PROVE StillAsRead(s)'
  <2>1. phase'[s] = phase[s] /\ tx'[s] = tx[s] /\ StillAsRead(s)
    BY DEF SerialInv
  <2>2. ASSUME NEW o \in Orders, Placed(o), o \in Touches(s), phase[s] \in Running
        PROVE  orders'[o] = orders[o]
    BY <2>2 DEF SerialInv, Apart
  <2>3. phase[s] \in {"locking", "paying", "confirming"} => phase[s] \in Running
    BY DEF Running
  <2>4. CASE phase[s] = "locking" /\ Op[s] \in {"cancel", "ship"}
    <3>1. OrderOf[s] \in Orders /\ Placed(OrderOf[s])
      BY <2>4, RequestAssumption DEF TablesInv
    <3>2. orders'[OrderOf[s]] = orders[OrderOf[s]]
      BY <2>2, <2>3, <2>4, <3>1, ReadOrders
    <3> QED BY <2>1, <2>4, <3>2 DEF StillAsRead
  <2>5. CASE phase[s] \in {"paying", "confirming"}
    <3>1. orders'[OrderOf[tx[s].target]] = orders[OrderOf[tx[s].target]]
      BY <2>2, <2>3, <2>5, ReadOrders
    <3>2. Matching(s)' = Matching(s)
      BY TouchesFixed
    <3> QED BY <2>1, <2>5, <3>1, <3>2 DEF StillAsRead
  <2> QED BY <2>1, <2>4, <2>5 DEF StillAsRead
<1>4. Apart'
  BY <1>2 DEF Apart
<1> QED BY <1>3, <1>4 DEF SerialInv

\* What the commit of an order operation does to the order rows.
LEMMA OrderCommitted ==
    ASSUME TypeInv, TablesInv, SerialInv, NEW r \in Requests,
           CheckoutCommits(r) \/ CancelCommits(r) \/ ShipCommits(r)
    PROVE  /\ End(r, "done") /\ Publish(r)
           /\ phase[r] = "locking" /\ tx[r].line = 0
           /\ \A x \in Orders \ {OrderOf[r]} : orders'[x] = orders[x]
           /\ \/ /\ Op[r] = "checkout"
                 /\ orders[OrderOf[r]].status = "absent"
                 /\ orders'[OrderOf[r]].status = "pending"
              \/ /\ Op[r] \in {"cancel", "ship"}
                 /\ orders[OrderOf[r]].status \in ReservedStatuses
                 /\ Op[r] = "cancel" => orders'[OrderOf[r]].status = "cancelled"
                 /\ Op[r] = "ship" => orders'[OrderOf[r]].status = "shipped"
<1> DEFINE o == OrderOf[r]
<1>1. o \in Orders /\ (Op[r] = "checkout" => o = r)
  BY RequestAssumption DEF Orders
<1>2. End(r, "done") /\ Publish(r) /\ phase[r] = "locking" /\ tx[r].line = 0
  BY DEF CheckoutCommits, CancelCommits, ShipCommits, LinesDone
<1>3. orders \in [Orders -> OrderRow] /\ orders[o] \in OrderRow
  BY <1>1 DEF TypeInv, TypeOK
<1>4. CASE CheckoutCommits(r)
  <2>1. Op[r] = "checkout" /\ o = r
    BY <1>1, <1>4 DEF CheckoutCommits
  <2>2. orders' = [orders EXCEPT ![r] = [status |-> "pending", payment |-> "pending"]]
    BY <1>4 DEF CheckoutCommits
  <2>3. orders[o].status = "absent"
    BY <1>4, <2>1, OrderInserted DEF Placed
  <2> HIDE DEF o
  <2>4. orders'[o].status = "pending" /\ \A x \in Orders \ {o} : orders'[x] = orders[x]
    BY <1>1, <1>3, <2>1, <2>2
  <2> QED BY <1>2, <2>1, <2>3, <2>4 DEF o
<1>5. ASSUME NEW st \in {"cancelled", "shipped"},
             orders' = [orders EXCEPT ![o].status = st]
      PROVE  orders'[o].status = st /\ \A x \in Orders \ {o} : orders'[x] = orders[x]
  <2> HIDE DEF o
  <2>1. orders'[o] = [orders[o] EXCEPT !.status = st]
    BY <1>1, <1>3, <1>5
  <2>2. orders'[o].status = st
    BY <1>3, <2>1 DEF OrderRow
  <2> QED BY <1>3, <1>5, <2>2
<1>6. CASE CancelCommits(r)
  <2>1. Op[r] = "cancel" /\ orders' = [orders EXCEPT ![o].status = "cancelled"]
    BY <1>6 DEF CancelCommits
  <2>2. orders[o].status \in ReservedStatuses
    BY <1>2, <2>1 DEF SerialInv, StillAsRead
  <2> QED BY <1>2, <1>5, <2>1, <2>2
<1>7. CASE ShipCommits(r)
  <2>1. Op[r] = "ship"
    BY <1>7 DEF ShipCommits
  <2>2. orders[o].status \in ReservedStatuses /\ tx[r].seen \in ReservedStatuses
    BY <1>2, <2>1 DEF SerialInv, StillAsRead
  <2>3. orders' = [orders EXCEPT ![o].status = "shipped"]
    BY <1>7, <2>2 DEF ShipCommits, ReservedStatuses
  <2> QED BY <1>2, <1>5, <2>1, <2>2, <2>3
<1> QED BY <1>4, <1>6, <1>7

\* confirm_payment keeps an order that is live, and one that is not.
LEMMA ConfirmedOrder ==
    ASSUME TypeInv, TablesInv, SerialInv, NEW r \in Requests, ConfirmCommits(r)
    PROVE  \E o \in Orders :
             /\ o \in Touches(r) /\ phase[r] = "confirming" /\ Placed(o)
             /\ \A x \in Orders \ {o} : orders'[x] = orders[x]
             /\ \/ orders'[o].status = orders[o].status
                \/ orders[o].status = "pending" /\ orders'[o].status = "confirmed"
<1> DEFINE o == OrderOf[tx[r].target]
           status == IF tx[r].seen = "pending" THEN "confirmed" ELSE orders[o].status
           paid == [status |-> status, payment |-> "paid"]
<1>1. phase[r] = "confirming" /\ orders' = [orders EXCEPT ![o] = paid]
  BY DEF ConfirmCommits
<1>2. o \in Orders /\ o \in Touches(r) /\ Placed(o)
  BY <1>1, ReadOrders
<1>3. tx[r].seen = orders[o].status
  BY <1>1 DEF SerialInv, StillAsRead
<1>4. paid.status = status
  OBVIOUS
<1> HIDE DEF paid, o
<1>5. orders'[o] = paid /\ \A x \in Orders \ {o} : orders'[x] = orders[x]
  BY <1>1, <1>2 DEF TypeInv, TypeOK
<1> QED BY <1>1, <1>2, <1>3, <1>4, <1>5

LEMMA SerialStep ==
    TypeInv /\ TablesInv /\ OrderlyCallers /\ SerialInv /\ [Next]_vars => SerialInv'
<1> SUFFICES ASSUME TypeInv, TablesInv, OrderlyCallers, SerialInv, [Next]_vars
             PROVE  SerialInv'
  OBVIOUS
<1>1. CASE UNCHANGED <<tables, phase, tx>>
  <2>1. \A r \in Requests : StillAsRead(r)'
    BY <1>1, TouchesFixed DEF tables, SerialInv, StillAsRead
  <2>2. Apart'
    BY <1>1, TouchesFixed DEF SerialInv, Apart
  <2> QED BY <2>1, <2>2 DEF SerialInv
<1>2. ASSUME NEW r \in Requests, NEW outcome \in Ended, End(r, outcome),
             \A o \in Orders : \/ orders'[o] = orders[o]
                               \/ ~Placed(o)
                               \/ phase[r] \in Running /\ o \in Touches(r)
      PROVE  SerialInv'
  <2>1. phase'[r] \in Ended /\ \A s \in Requests \ {r} : phase'[s] = phase[s] /\ tx'[s] = tx[s]
    BY <1>2, EndPhase
  <2>2. phase'[r] \notin Running /\ phase'[r] \notin {"locking", "paying", "confirming"}
    BY <2>1 DEF Running, Ended
  <2>3. StillAsRead(r)'
    BY <2>2 DEF StillAsRead
  <2> QED BY <1>2, <2>1, <2>2, <2>3, SerialMove
<1>3. ASSUME NEW r \in Requests, CheckoutStarts(r) \/ CancelStarts(r) \/ ShipStarts(r)
      PROVE  SerialInv'
  <2> DEFINE status == IF Op[r] = "checkout" THEN "absent" ELSE orders[OrderOf[r]].status
  <2>1. /\ MayStart(r) /\ StartLines(r, status)
        /\ Op[r] \in {"cancel", "ship"} => status \in ReservedStatuses
    BY <1>3 DEF CheckoutStarts, CancelStarts, ShipStarts
  <2> HIDE DEF status
  <2>2. PICK i \in DOMAIN LinesOf(r) :
          tx' = [tx EXCEPT ![r] = [left |-> DOMAIN LinesOf(r), line |-> i,
                                   scanned |-> 0, seen |-> status, target |-> NoOne]]
    BY <2>1 DEF StartLines
  <2>3. /\ orders' = orders
        /\ phase'[r] = "locking"
        /\ tx'[r].seen = status
        /\ \A s \in Requests \ {r} : phase'[s] = phase[s] /\ tx'[s] = tx[s]
    BY <2>1, <2>2 DEF StartLines, tables, TypeInv, TypeOK
  <2>4. Op[r] \in {"cancel", "ship"} => status = orders[OrderOf[r]].status
    BY DEF status
  <2>5. StillAsRead(r)'
    BY <2>1, <2>3, <2>4 DEF StillAsRead
  <2> QED BY <2>1, <2>3, <2>5, SerialMove
<1>4. ASSUME NEW r \in Requests, PayReads(r) PROVE SerialInv'
  <2>1. /\ orders' = orders /\ phase'[r] = "inserting" /\ MayStart(r)
        /\ \A s \in Requests \ {r} : phase'[s] = phase[s] /\ tx'[s] = tx[s]
    BY <1>4 DEF PayReads, tables, TypeInv, TypeOK
  <2>2. StillAsRead(r)'
    BY <2>1 DEF StillAsRead
  <2> QED BY <2>1, <2>2, SerialMove
<1>5. ASSUME NEW r \in Requests, ConfirmReads(r) PROVE SerialInv'
  <2>1. PICK p \in Matching(r) : tx' = [tx EXCEPT ![r].target = p]
    BY <1>5 DEF ConfirmReads
  <2>2. /\ orders' = orders /\ phase'[r] = "paying" /\ MayStart(r)
        /\ \A s \in Requests \ {r} : phase'[s] = phase[s] /\ tx'[s] = tx[s]
        /\ tx'[r].target = p
    BY <1>5, <2>1 DEF ConfirmReads, tables, TypeInv, TypeOK, Handler
  <2>3. StillAsRead(r)'
    BY <2>2, TouchesFixed DEF StillAsRead
  <2> QED BY <2>2, <2>3, SerialMove
<1>6. ASSUME NEW r \in Requests, LockRow(r) \/ ApplyLine(r) PROVE SerialInv'
  <2>1. orders' = orders /\ phase' = phase /\ phase[r] = "locking"
    BY <1>6 DEF LockRow, ApplyLine, AtLine, tables
  <2>2. /\ \A s \in Requests \ {r} : tx'[s] = tx[s]
        /\ tx'[r].seen = tx[r].seen
    BY <1>6 DEF LockRow, ApplyLine, TypeInv, TypeOK, Handler
  <2>3. phase[r] \in Running
    BY <2>1 DEF Running
  <2>4. StillAsRead(r)'
    BY <2>1, <2>2 DEF SerialInv, StillAsRead
  <2> QED BY <2>1, <2>2, <2>3, <2>4, SerialMove
<1>7. ASSUME NEW r \in Requests, ConfirmReadsOrder(r) PROVE SerialInv'
  <2> DEFINE seen == orders[OrderOf[tx[r].target]].status
  <2>1. /\ orders' = orders
        /\ phase[r] = "paying"
        /\ phase' = [phase EXCEPT ![r] = "confirming"]
        /\ tx' = [tx EXCEPT ![r].seen = seen]
    BY <1>7 DEF ConfirmReadsOrder, tables
  <2> HIDE DEF seen
  <2>2. phase'[r] = "confirming" /\ tx'[r].target = tx[r].target /\ tx'[r].seen = seen
    BY <2>1 DEF TypeInv, TypeOK, Handler
  <2>3. \A s \in Requests \ {r} : phase'[s] = phase[s] /\ tx'[s] = tx[s]
    BY <2>1 DEF TypeInv, TypeOK
  <2>4. phase[r] \in Running
    BY <2>1 DEF Running
  <2>5. StillAsRead(r)'
    BY <2>1, <2>2, TouchesFixed DEF SerialInv, StillAsRead, seen
  <2> QED BY <2>1, <2>3, <2>4, <2>5, SerialMove
<1>8. "done" \in Ended /\ "locking" \in Running /\ "confirming" \in Running
  BY DEF Ended, Running
<1>9. ASSUME NEW r \in Requests, CheckoutCommits(r) \/ CancelCommits(r) \/ ShipCommits(r)
      PROVE  SerialInv'
  <2>1. \A o \in Orders : \/ orders'[o] = orders[o]
                          \/ ~Placed(o)
                          \/ phase[r] \in Running /\ o \in Touches(r)
    BY <1>8, <1>9, OrderCommitted, ReadOrders DEF Placed
  <2> QED BY <1>2, <1>8, <1>9, <2>1, OrderCommitted
<1>10. ASSUME NEW r \in Requests, PayCommits(r) PROVE SerialInv'
  BY <1>2, <1>8, <1>10 DEF PayCommits
<1>11. ASSUME NEW r \in Requests, ConfirmCommits(r) PROVE SerialInv'
  <2>1. \A o \in Orders : \/ orders'[o] = orders[o]
                          \/ phase[r] \in Running /\ o \in Touches(r)
    BY <1>8, <1>11, ConfirmedOrder
  <2> QED BY <1>2, <1>8, <1>11, <2>1 DEF ConfirmCommits
<1>12. ASSUME NEW r \in Requests, UNCHANGED tables, NEW outcome \in Ended, End(r, outcome)
       PROVE  SerialInv'
  BY <1>2, <1>12 DEF tables
<1> QED BY <1>1, <1>3, <1>4, <1>5, <1>6, <1>7, <1>9, <1>10, <1>11, <1>12, QuietStep
-----------------------------------------------------------------------------
(* Row locks.                                                              *)

\* When the line at hand has no row left to lock, the request holds them all.
LEMMA LineLocked ==
    ASSUME TypeInv, LocksInv, NEW r \in Requests, AtLine(r), ToLock(r) = {}
    PROVE  \A w \in Matched(r) : rowLock[<<LineOf(r).variant, w>>] = r
<1> SUFFICES ASSUME NEW w \in Matched(r) PROVE rowLock[<<LineOf(r).variant, w>>] = r
  OBVIOUS
<1>1. w \in Nat /\ tx[r].scanned \in Nat
  BY StockAssumption DEF Matched, TypeInv, TypeOK, Handler
<1>2. w <= tx[r].scanned
  BY <1>1 DEF ToLock
<1> QED BY <1>2 DEF LocksInv, Holds

\* A request that does not move and loses no lock still holds what it held.
LEMMA StillHolds ==
    ASSUME TypeInv, LocksInv, NEW s \in Requests,
           phase'[s] = phase[s], tx'[s] = tx[s],
           \A row \in Rows : rowLock[row] = s => rowLock'[row] = s
    PROVE  Holds(s)'
<1>1. /\ LinesOf(s)' = LinesOf(s) /\ LineOf(s)' = LineOf(s)
      /\ Matched(s)' = Matched(s) /\ AtLine(s)' = AtLine(s)
      /\ Applied(s)' = Applied(s)
  BY DEF LinesOf, LineOf, Matched, Pinned, AtLine, Applied
<1>2. /\ \A w \in Matched(s) : <<LineOf(s).variant, w>> \in Rows
      /\ \A v : \A w \in Allowed(s, v) : <<v, w>> \in Rows
  BY DEF Matched, Allowed
<1>3. Holds(s)
  BY DEF LocksInv
<1>4. \A v : Allowed(s, v)' = Allowed(s, v)
  BY DEF Allowed, Pinned
<1> QED BY <1>1, <1>2, <1>3, <1>4 DEF Holds

\* Transactions that hold no row and work on no line have nothing to keep.
LEMMA HoldsNothing ==
    ASSUME NEW r \in Requests, phase'[r] # "locking"
    PROVE  Holds(r)'
BY DEF Holds, AtLine

\* A step of one request keeps the locks if it takes none from the others.
LEMMA LocksMove ==
    ASSUME TypeInv, LocksInv, NEW r \in Requests,
           \A s \in Requests \ {r} : phase'[s] = phase[s] /\ tx'[s] = tx[s],
           \A s \in Requests \ {r} : \A row \in Rows : rowLock'[row] = s <=> rowLock[row] = s,
           \A row \in Rows : rowLock'[row] = r => phase'[r] = "locking",
           Holds(r)',
           \A o \in Orders : Placed(o)' => Placed(o) \/ AllStocked(o)
    PROVE  LocksInv'
<1>1. \A s \in Requests : Holds(s)'
  BY StillHolds
<1>2. \A row \in Rows, s \in Requests : rowLock'[row] = s => phase'[s] = "locking"
  BY DEF LocksInv
<1>3. ASSUME NEW o \in Orders, Placed(o)' PROVE AllStocked(o)'
  <2>1. AllStocked(o)
    BY <1>3 DEF LocksInv
  <2> QED BY <2>1 DEF AllStocked, LinesOf, Stocked
<1> QED BY <1>1, <1>2, <1>3 DEF LocksInv

LEMMA LockRowHolds ==
    ASSUME TypeInv, LocksInv, NEW r \in Requests, LockRow(r)
    PROVE  LocksInv'
<1> DEFINE next == NextRow(r)
           v == LineOf(r).variant
<1>1. AtLine(r) /\ ToLock(r) # {} /\ next \in Rows /\ next[2] \in Nat
  BY NextRowTyped DEF LockRow
<1>2. /\ rowLock[next] \in {NoOne, r}
      /\ rowLock' = [rowLock EXCEPT ![next] = r]
      /\ tx' = [tx EXCEPT ![r].scanned = next[2]]
      /\ phase' = phase /\ orders' = orders
  BY DEF LockRow, tables
<1>3. next = <<v, next[2]>> /\ next[2] \in ToLock(r) /\ \A w \in ToLock(r) : next[2] <= w
  <2>1. ToLock(r) \in SUBSET Nat
    BY StockAssumption DEF ToLock, Matched
  <2>2. PICK w \in ToLock(r) : \A x \in ToLock(r) : w <= x
    BY <1>1, <2>1, LeastExists
  <2> QED BY <2>2 DEF NextRow
<1> HIDE DEF next
<1>4. \A row \in Rows : rowLock'[row] = IF row = next THEN r ELSE rowLock[row]
  BY <1>1, <1>2 DEF TypeInv, TypeOK
<1>5. /\ \A s \in Requests \ {r} : phase'[s] = phase[s] /\ tx'[s] = tx[s]
      /\ tx'[r].scanned = next[2] /\ tx'[r].left = tx[r].left /\ tx'[r].line = tx[r].line
  BY <1>2 DEF TypeInv, TypeOK, Handler
<1>6. \A s \in Requests \ {r} : \A row \in Rows : rowLock'[row] = s <=> rowLock[row] = s
  BY <1>2, <1>4, RequestAssumption
<1>7. phase'[r] = "locking" /\ tx[r].line # 0
  BY <1>1, <1>2 DEF AtLine
<1>8. /\ LinesOf(r)' = LinesOf(r) /\ LineOf(r)' = LineOf(r) /\ Matched(r)' = Matched(r)
      /\ Applied(r)' = Applied(r)
  BY <1>5 DEF LinesOf, LineOf, Matched, Pinned, Applied
<1>9. ASSUME NEW w \in Matched(r), w <= next[2] PROVE rowLock'[<<v, w>>] = r
  <2>1. w \in Nat /\ <<v, w>> \in Rows /\ tx[r].scanned \in Nat
    BY StockAssumption DEF Matched, TypeInv, TypeOK, Handler
  <2>2. CASE w <= tx[r].scanned
    <3>1. rowLock[<<v, w>>] = r
      BY <1>1, <2>2 DEF LocksInv, Holds
    <3> QED BY <1>4, <2>1, <3>1
  <2>3. CASE w > tx[r].scanned
    <3>1. w \in ToLock(r)
      BY <2>3 DEF ToLock
    <3>2. next[2] <= w
      BY <1>3, <3>1
    <3>3. w = next[2]
      BY <1>1, <1>9, <2>1, <3>2
    <3>4. <<v, w>> = next
      BY <1>3, <3>3
    <3> QED BY <1>4, <2>1, <3>4
  <2>4. w <= tx[r].scanned \/ w > tx[r].scanned
    BY <2>1
  <2> QED BY <2>2, <2>3, <2>4
<1>10. Holds(r)'
  <2>1. Holds(r)
    BY DEF LocksInv
  <2>2. phase[r] = "locking" /\ phase'[r] = phase[r]
    BY <1>1, <1>2 DEF AtLine
  <2>3. \A i \in Applied(r) : \A w \in Allowed(r, LinesOf(r)[i].variant) :
           rowLock'[<<LinesOf(r)[i].variant, w>>] = r
    BY <1>4, <2>1, <2>2 DEF Holds, Allowed
  <2>4. Op[r] = "checkout" => \A i \in Applied(r) :
           LinesOf(r)[i].units > 0 /\ Allowed(r, LinesOf(r)[i].variant) # {}
    BY <2>1, <2>2 DEF Holds
  <2>5. \A x : Allowed(r, x)' = Allowed(r, x)
    BY DEF Allowed, Pinned
  <2> QED BY <1>5, <1>7, <1>8, <1>9, <2>3, <2>4, <2>5 DEF Holds
<1>11. \A o \in Orders : Placed(o)' => Placed(o)
  BY <1>2 DEF Placed
<1> QED BY <1>5, <1>6, <1>7, <1>10, <1>11, LocksMove

\* What finishing a line does to the lines left.
LEMMA LineFinished ==
    ASSUME TypeInv, NEW r \in Requests, ApplyLine(r)
    PROVE  /\ tx[r].line \in DOMAIN LinesOf(r)
           /\ tx[r].line \in tx[r].left
           /\ tx'[r].left = tx[r].left \ {tx[r].line}
           /\ Applied(r)' = Applied(r) \cup {tx[r].line}
           /\ tx'[r].scanned = 0
           /\ tx'[r].line = 0 => tx'[r].left = {}
           /\ \A s \in Requests \ {r} : tx'[s] = tx[s]
<1>1. tx[r].line \in tx[r].left /\ tx[r].left \subseteq DOMAIN LinesOf(r)
  BY DEF ApplyLine, AtLine, TypeInv, HandlerOK
<1> DEFINE left == tx[r].left \ {tx[r].line}
<1>2. PICK next \in IF left = {} THEN {0} ELSE left :
        tx' = [tx EXCEPT ![r] = [left |-> left, line |-> next, scanned |-> 0,
                                 seen |-> tx[r].seen, target |-> tx[r].target]]
  BY DEF ApplyLine
<1>3. next = 0 => left = {}
  BY <1>1, <1>2, LinesTyped
<1> HIDE DEF left
<1>4. /\ tx'[r].left = left /\ tx'[r].line = next /\ tx'[r].scanned = 0
      /\ \A s \in Requests \ {r} : tx'[s] = tx[s]
  BY <1>2 DEF TypeInv, TypeOK
<1>5. LinesOf(r)' = LinesOf(r)
  BY DEF LinesOf
<1>6. Applied(r)' = DOMAIN LinesOf(r) \ left
  BY <1>4, <1>5 DEF Applied
<1> QED BY <1>1, <1>3, <1>4, <1>6 DEF left, Applied

LEMMA ApplyLineHolds ==
    ASSUME TypeInv, LocksInv, NEW r \in Requests, ApplyLine(r)
    PROVE  LocksInv'
<1> DEFINE line == tx[r].line
           v == LineOf(r).variant
<1>1. /\ AtLine(r) /\ ToLock(r) = {} /\ LinePossible(r)
      /\ rowLock' = rowLock /\ phase' = phase /\ orders' = orders
      /\ phase[r] = "locking"
  BY DEF ApplyLine, AtLine, tables, locks
<1>2. v = LinesOf(r)[line].variant /\ LinesOf(r)' = LinesOf(r)
  BY DEF LineOf, LinesOf
<1>3. Holds(r)
  BY DEF LocksInv
<1> HIDE DEF line, v
<1>4. /\ \A w \in Allowed(r, v) : rowLock[<<v, w>>] = r
      /\ Op[r] = "checkout" => LinesOf(r)[line].units > 0 /\ Allowed(r, v) # {}
  <2>1. Matched(r) = Allowed(r, v)
    BY DEF Matched, Allowed, v
  <2>2. \A w \in Matched(r) : rowLock[<<v, w>>] = r
    BY <1>1, LineLocked DEF v
  <2>3. Op[r] = "checkout" => Matched(r) # {} /\ LineOf(r).units > 0
    BY <1>1 DEF LinePossible, CanReserve
  <2>4. LineOf(r).units = LinesOf(r)[line].units
    BY DEF LineOf, line
  <2> QED BY <2>1, <2>2, <2>3, <2>4
<1>5. \A i \in Applied(r)' : i \in Applied(r) \/ i = line
  BY LineFinished DEF line
<1>6. \A i \in Applied(r)' : \A w \in Allowed(r, LinesOf(r)[i].variant) :
        rowLock'[<<LinesOf(r)[i].variant, w>>] = r
  BY <1>1, <1>2, <1>3, <1>4, <1>5 DEF Holds
<1>7. Op[r] = "checkout" => \A i \in Applied(r)' :
        LinesOf(r)[i].units > 0 /\ Allowed(r, LinesOf(r)[i].variant) # {}
  BY <1>1, <1>2, <1>3, <1>4, <1>5 DEF Holds
<1>8. \A w \in Matched(r)' : ~(w <= tx'[r].scanned)
  <2>1. \A w \in Warehouses : w \in Nat /\ w # 0
    BY StockAssumption DEF NoWarehouse
  <2>2. \A w \in Matched(r)' : w \in Warehouses
    BY DEF Matched
  <2>3. tx'[r].scanned = 0
    BY LineFinished
  <2> QED BY <2>1, <2>2, <2>3
<1>9. tx'[r].line = 0 => tx'[r].left = {}
  BY LineFinished
<1>10. Holds(r)'
  <2>1. \A x : Allowed(r, x)' = Allowed(r, x)
    BY DEF Allowed, Pinned
  <2> QED BY <1>2, <1>6, <1>7, <1>8, <1>9, <2>1 DEF Holds
<1>11. \A s \in Requests \ {r} : phase'[s] = phase[s] /\ tx'[s] = tx[s]
  BY <1>1, LineFinished
<1>12. \A o \in Orders : Placed(o)' => Placed(o)
  BY <1>1 DEF Placed
<1>13. \A row \in Rows : rowLock'[row] = r => phase'[r] = "locking"
  BY <1>1
<1> QED BY <1>1, <1>10, <1>11, <1>12, <1>13, LocksMove

\* Leaving a transaction gives up its rows and nobody else's.
LEMMA EndHolds ==
    ASSUME TypeInv, LocksInv, NEW r \in Requests, NEW outcome \in Ended, End(r, outcome),
           \A o \in Orders : Placed(o)' => Placed(o) \/ AllStocked(o)
    PROVE  LocksInv'
<1>1. phase'[r] \in Ended /\ \A s \in Requests \ {r} : phase'[s] = phase[s] /\ tx'[s] = tx[s]
  BY EndPhase
<1>2. phase'[r] # "locking"
  BY <1>1 DEF Ended
<1>3. \A row \in Rows : rowLock'[row] = IF rowLock[row] = r THEN NoOne ELSE rowLock[row]
  BY DEF End
<1>4. \A s \in Requests \ {r} : \A row \in Rows : rowLock'[row] = s <=> rowLock[row] = s
  BY <1>3, RequestAssumption, ZenonT(30)
<1>5. \A row \in Rows : rowLock'[row] # r
  BY <1>3, RequestAssumption
<1> QED BY <1>1, <1>2, <1>4, <1>5, HoldsNothing, LocksMove

\* With all its lines done, a checkout has found a row for each of them.
LEMMA OrderStocked ==
    ASSUME TypeInv, LocksInv, NEW r \in Requests, phase[r] = "locking", tx[r].line = 0,
           Op[r] = "checkout"
    PROVE  AllStocked(r)
<1>1. Holds(r) /\ tx[r].left = {}
  BY DEF LocksInv, Holds
<1>2. \A i \in DOMAIN LinesOf(r) : Allowed(r, LinesOf(r)[i].variant) # {}
  BY <1>1 DEF Holds, Applied
<1>3. ASSUME NEW v, Allowed(r, v) # {} PROVE Stocked(v)
  <2>1. PICK w : <<v, w>> \in Rows
    BY <1>3 DEF Allowed
  <2>2. <<v, w>>[1] = v
    OBVIOUS
  <2> QED BY <2>1, <2>2 DEF Stocked
<1> QED BY <1>2, <1>3 DEF AllStocked

LEMMA LocksStep ==
    TypeInv /\ TablesInv /\ SerialInv /\ LocksInv /\ [Next]_vars => LocksInv'
<1> SUFFICES ASSUME TypeInv, TablesInv, SerialInv, LocksInv, [Next]_vars
             PROVE  LocksInv'
  OBVIOUS
<1>0. "done" \in Ended
  BY DEF Ended
<1>1. CASE UNCHANGED vars
  <2>1. \A s \in Requests : Holds(s)'
    BY <1>1, StillHolds DEF vars
  <2>2. \A o \in Orders : Placed(o)' => AllStocked(o)'
    BY <1>1 DEF vars, LocksInv, Placed, AllStocked, LinesOf, Stocked
  <2> QED BY <1>1, <2>1, <2>2 DEF vars, LocksInv
<1>2. ASSUME NEW r \in Requests, NEW outcome \in Ended, Rollback(r, outcome)
      PROVE  LocksInv'
  BY <1>2, EndHolds DEF Rollback, tables, Placed
<1>3. ASSUME NEW r \in Requests, CheckoutStarts(r) \/ CancelStarts(r) \/ ShipStarts(r)
      PROVE  LocksInv'
  <2>1. PICK status : MayStart(r) /\ StartLines(r, status)
    BY <1>3 DEF CheckoutStarts, CancelStarts, ShipStarts
  <2>2. PICK i \in DOMAIN LinesOf(r) :
          tx' = [tx EXCEPT ![r] = [left |-> DOMAIN LinesOf(r), line |-> i,
                                   scanned |-> 0, seen |-> status, target |-> NoOne]]
    BY <2>1 DEF StartLines
  <2>3. /\ orders' = orders /\ rowLock' = rowLock
        /\ phase[r] = "idle" /\ phase'[r] = "locking"
        /\ tx'[r].left = DOMAIN LinesOf(r) /\ tx'[r].line = i /\ tx'[r].scanned = 0
        /\ \A s \in Requests \ {r} : phase'[s] = phase[s] /\ tx'[s] = tx[s]
    BY <2>1, <2>2 DEF StartLines, MayStart, tables, locks, TypeInv, TypeOK
  <2>4. i # 0
    BY LinesTyped
  <2>5. Applied(r)' = {}
    BY <2>3 DEF Applied, LinesOf
  <2>6. \A w \in Matched(r)' : ~(w <= tx'[r].scanned)
    <3>1. \A w \in Warehouses : w \in Nat /\ w # 0
      BY StockAssumption DEF NoWarehouse
    <3>2. \A w \in Matched(r)' : w \in Warehouses
      BY DEF Matched
    <3> QED BY <2>3, <3>1, <3>2
  <2>7. Holds(r)'
    BY <2>3, <2>4, <2>5, <2>6 DEF Holds
  <2>8. \A o \in Orders : Placed(o)' => Placed(o)
    BY <2>3 DEF Placed
  <2> QED BY <2>3, <2>7, <2>8, LocksMove
<1>4. ASSUME NEW r \in Requests, PayReads(r) \/ ConfirmReads(r) \/ ConfirmReadsOrder(r)
      PROVE  LocksInv'
  <2>1. /\ orders' = orders /\ rowLock' = rowLock /\ phase[r] # "locking"
        /\ phase'[r] # "locking"
        /\ \A s \in Requests \ {r} : phase'[s] = phase[s] /\ tx'[s] = tx[s]
    BY <1>4 DEF PayReads, ConfirmReads, ConfirmReadsOrder, MayStart, tables, locks,
                TypeInv, TypeOK
  <2>2. \A row \in Rows : rowLock'[row] # r
    BY <2>1 DEF LocksInv
  <2>3. \A o \in Orders : Placed(o)' => Placed(o)
    BY <2>1 DEF Placed
  <2> QED BY <2>1, <2>2, <2>3, HoldsNothing, LocksMove
<1>5. ASSUME NEW r \in Requests, CheckoutCommits(r) \/ CancelCommits(r) \/ ShipCommits(r)
      PROVE  LocksInv'
  <2>1. ASSUME NEW o \in Orders, Placed(o)' PROVE Placed(o) \/ AllStocked(o)
    <3>1. CASE o # OrderOf[r]
      BY <1>5, <2>1, <3>1, OrderCommitted DEF Placed
    <3>2. CASE o = OrderOf[r] /\ Op[r] # "checkout"
      BY <1>5, <3>2, OrderCommitted DEF Placed, ReservedStatuses
    <3>3. CASE o = OrderOf[r] /\ Op[r] = "checkout"
      <4>1. o = r
        BY <3>3, RequestAssumption DEF Orders
      <4> QED BY <1>5, <3>3, <4>1, OrderCommitted, OrderStocked
    <3> QED BY <3>1, <3>2, <3>3
  <2> QED BY <1>0, <1>5, <2>1, OrderCommitted, EndHolds
<1>6. ASSUME NEW r \in Requests, PayCommits(r) PROVE LocksInv'
  BY <1>0, <1>6, EndHolds DEF PayCommits, Placed
<1>7. ASSUME NEW r \in Requests, ConfirmCommits(r) PROVE LocksInv'
  <2>1. \A o \in Orders : Placed(o)' => Placed(o)
    BY <1>7, ConfirmedOrder DEF Placed
  <2>2. End(r, "done")
    BY <1>7 DEF ConfirmCommits
  <2> QED BY <1>0, <2>1, <2>2, EndHolds
<1> QED BY <1>1, <1>2, <1>3, <1>4, <1>5, <1>6, <1>7, LockRowHolds, ApplyLineHolds, StepCases
-----------------------------------------------------------------------------
(* What a request has read in the cart and payment tables is still so when *)
(* it writes.  A transaction reference is one payment's of one order.      *)

OneOrderPerReference ==
    \A p, q \in Payments : RefOf[p] = RefOf[q] => OrderOf[p] = OrderOf[q]

RowsStillAsRead(r) ==
    /\ phase[r] = "locking" => LinesOf(r) # <<>>
    /\ phase[r] = "locking" /\ Op[r] = "checkout" => carts[CartOf[r]] = "active"
    /\ phase[r] = "inserting" => \A p \in Matching(r) : payments[p] = "absent"
    /\ phase[r] \in {"paying", "confirming"} => payments[tx[r].target] = "pending"

ReadsInv == \A r \in Requests : RowsStillAsRead(r)

\* A step of one request keeps what the others have read if it writes only the
\* cart and the payment that it is about.
LEMMA ReadsMove ==
    ASSUME TypeInv, OneOrderPerReference, SerialInv, ReadsInv, NEW r \in Requests,
           \A s \in Requests \ {r} : phase'[s] = phase[s] /\ tx'[s] = tx[s],
           \A c \in Carts : \/ carts'[c] = carts[c]
                            \/ phase[r] = "locking" /\ Op[r] = "checkout" /\ c = CartOf[r],
           \A p \in Payments :
              \/ payments'[p] = payments[p]
              \/ phase[r] = "inserting" /\ p = r /\ payments'[p] = "pending"
              \/ phase[r] = "confirming" /\ p = tx[r].target,
           RowsStillAsRead(r)'
    PROVE  ReadsInv'
<1> SUFFICES ASSUME NEW s \in Requests \ {r} PROVE RowsStillAsRead(s)'
  BY DEF ReadsInv
<1>1. phase'[s] = phase[s] /\ tx'[s] = tx[s] /\ RowsStillAsRead(s)
  BY DEF ReadsInv
<1>2. ASSUME phase[s] \in Running, phase[r] \in Running
      PROVE  Touches(s) \cap Touches(r) = {}
  BY <1>2 DEF SerialInv, Apart
<1>3. \A x \in {"locking", "inserting", "paying", "confirming"} : x \in Running
  BY DEF Running
<1>4. CASE phase[s] = "locking"
  <2>1. LinesOf(s)' = LinesOf(s)
    BY DEF LinesOf
  <2>2. ASSUME Op[s] = "checkout" PROVE carts'[CartOf[s]] = carts[CartOf[s]]
    <3>1. CartOf[s] \in Carts /\ Touches(s) = {CartOf[s]}
      BY <2>2, RequestAssumption DEF Orders, Touches
    <3>2. CASE phase[r] = "locking" /\ Op[r] = "checkout" /\ CartOf[s] = CartOf[r]
      <4>1. Touches(r) = {CartOf[r]}
        BY <3>2 DEF Touches
      <4> QED BY <1>2, <1>3, <1>4, <3>1, <3>2, <4>1
    <3> QED BY <3>1, <3>2
  <2> QED BY <1>1, <1>4, <2>1, <2>2 DEF RowsStillAsRead
<1>5. CASE phase[s] = "inserting"
  <2>1. Op[s] = "pay" /\ s \in Payments /\ Touches(s) = {OrderOf[s]}
    BY <1>5 DEF TypeInv, HandlerOK, Payments, Touches
  <2>2. ASSUME NEW p \in Matching(s) PROVE payments'[p] = "absent"
    <3>1. p \in Payments /\ RefOf[p] = RefOf[s] /\ payments[p] = "absent"
      BY <1>1, <1>5 DEF RowsStillAsRead, Matching
    <3>2. CASE phase[r] = "inserting" /\ p = r
      <4>1. OrderOf[r] = OrderOf[s] /\ Touches(r) = {OrderOf[r]}
        BY <2>1, <3>1, <3>2 DEF OneOrderPerReference, Payments, Touches
      <4> QED BY <1>2, <1>3, <1>5, <2>1, <3>2, <4>1
    <3>3. CASE phase[r] = "confirming" /\ p = tx[r].target
      BY <3>1, <3>3 DEF ReadsInv, RowsStillAsRead
    <3> QED BY <3>1, <3>2, <3>3
  <2>3. Matching(s)' = Matching(s)
    BY TouchesFixed
  <2> QED BY <1>1, <1>5, <2>2, <2>3 DEF RowsStillAsRead
<1>6. CASE phase[s] \in {"paying", "confirming"}
  <2> DEFINE p == tx[s].target
  <2>1. /\ p \in Payments /\ p \in Matching(s) /\ Op[s] = "confirm"
        /\ payments[p] = "pending"
    BY <1>1, <1>6 DEF TypeInv, HandlerOK, SerialInv, StillAsRead, RowsStillAsRead
  <2>2. ~(phase[r] = "confirming" /\ p = tx[r].target)
    <3> SUFFICES ASSUME phase[r] = "confirming", p = tx[r].target PROVE FALSE
      OBVIOUS
    <3>1. OrderOf[p] \in Touches(s)
      BY <2>1 DEF Touches
    <3>2. OrderOf[p] \in Touches(r)
      BY DEF Touches, TypeInv, HandlerOK, SerialInv, StillAsRead
    <3> QED BY <1>2, <1>3, <1>6, <3>1, <3>2
  <2>3. payments'[p] = "pending"
    BY <2>1, <2>2
  <2> QED BY <1>1, <1>6, <2>1, <2>3 DEF RowsStillAsRead
<1> QED BY <1>1, <1>4, <1>5, <1>6 DEF RowsStillAsRead

LEMMA ReadsStep ==
    /\ TypeInv /\ TablesInv /\ OneOrderPerReference /\ SerialInv /\ ReadsInv
    /\ [Next]_vars
    => ReadsInv'
<1> SUFFICES ASSUME TypeInv, TablesInv, OneOrderPerReference, SerialInv, ReadsInv, [Next]_vars
             PROVE  ReadsInv'
  OBVIOUS
<1>1. CASE UNCHANGED <<tables, phase, tx>>
  BY <1>1, TouchesFixed DEF tables, ReadsInv, RowsStillAsRead, LinesOf
<1>2. ASSUME NEW r \in Requests, phase'[r] \in Ended PROVE RowsStillAsRead(r)'
  BY <1>2 DEF RowsStillAsRead, Ended
<1>3. ASSUME NEW r \in Requests, NEW outcome \in Ended, End(r, outcome), UNCHANGED tables
      PROVE  ReadsInv'
  BY <1>2, <1>3, EndPhase, ReadsMove DEF tables
<1>4. ASSUME NEW r \in Requests, CheckoutStarts(r) \/ CancelStarts(r) \/ ShipStarts(r)
      PROVE  ReadsInv'
  <2>1. PICK status : StartLines(r, status)
    BY <1>4 DEF CheckoutStarts, CancelStarts, ShipStarts
  <2>2. /\ UNCHANGED tables /\ phase'[r] = "locking"
        /\ \A s \in Requests \ {r} : phase'[s] = phase[s] /\ tx'[s] = tx[s]
    BY <2>1 DEF StartLines, TypeInv, TypeOK
  <2>3. LinesOf(r) # <<>> /\ LinesOf(r)' = LinesOf(r)
    BY <2>1 DEF StartLines, LinesOf
  <2>4. Op[r] = "checkout" => carts[CartOf[r]] = "active"
    BY <1>4 DEF CheckoutStarts, CancelStarts, ShipStarts
  <2>5. RowsStillAsRead(r)'
    BY <2>2, <2>3, <2>4 DEF RowsStillAsRead, tables
  <2> QED BY <2>2, <2>5, ReadsMove DEF tables
<1>5. ASSUME NEW r \in Requests, PayReads(r) PROVE ReadsInv'
  <2>1. /\ UNCHANGED tables /\ phase'[r] = "inserting"
        /\ \A s \in Requests \ {r} : phase'[s] = phase[s] /\ tx'[s] = tx[s]
        /\ \A p \in Matching(r) : payments[p] = "absent"
    BY <1>5 DEF PayReads, TypeInv, TypeOK
  <2>2. RowsStillAsRead(r)'
    BY <2>1, TouchesFixed DEF RowsStillAsRead, tables
  <2> QED BY <2>1, <2>2, ReadsMove DEF tables
<1>6. ASSUME NEW r \in Requests, ConfirmReads(r) PROVE ReadsInv'
  <2>1. PICK p \in Matching(r) : payments[p] = "pending" /\ tx' = [tx EXCEPT ![r].target = p]
    BY <1>6 DEF ConfirmReads
  <2>2. /\ UNCHANGED tables /\ phase'[r] = "paying" /\ tx'[r].target = p
        /\ \A s \in Requests \ {r} : phase'[s] = phase[s] /\ tx'[s] = tx[s]
    BY <1>6, <2>1 DEF ConfirmReads, TypeInv, TypeOK, Handler
  <2>3. RowsStillAsRead(r)'
    BY <2>1, <2>2 DEF RowsStillAsRead, tables
  <2> QED BY <2>2, <2>3, ReadsMove DEF tables
<1>7. ASSUME NEW r \in Requests, LockRow(r) \/ ApplyLine(r) PROVE ReadsInv'
  <2>1. /\ UNCHANGED tables /\ phase' = phase /\ phase[r] = "locking"
        /\ \A s \in Requests \ {r} : tx'[s] = tx[s]
    BY <1>7 DEF LockRow, ApplyLine, AtLine, TypeInv, TypeOK
  <2>2. LinesOf(r)' = LinesOf(r)
    BY DEF LinesOf
  <2>3. RowsStillAsRead(r)'
    BY <2>1, <2>2 DEF ReadsInv, RowsStillAsRead, tables
  <2> QED BY <2>1, <2>3, ReadsMove DEF tables
<1>8. ASSUME NEW r \in Requests, ConfirmReadsOrder(r) PROVE ReadsInv'
  <2> DEFINE seen == orders[OrderOf[tx[r].target]].status
  <2>1. /\ UNCHANGED tables
        /\ phase[r] = "paying"
        /\ phase' = [phase EXCEPT ![r] = "confirming"]
        /\ tx' = [tx EXCEPT ![r].seen = seen]
    BY <1>8 DEF ConfirmReadsOrder
  <2> HIDE DEF seen
  <2>2. /\ phase'[r] = "confirming" /\ tx'[r].target = tx[r].target
        /\ \A s \in Requests \ {r} : phase'[s] = phase[s] /\ tx'[s] = tx[s]
    BY <2>1 DEF TypeInv, TypeOK, Handler
  <2>3. RowsStillAsRead(r)'
    BY <2>1, <2>2 DEF ReadsInv, RowsStillAsRead, tables
  <2> QED BY <2>1, <2>2, <2>3, ReadsMove DEF tables
<1>9. "done" \in Ended
  BY DEF Ended
<1>10. ASSUME NEW r \in Requests, CheckoutCommits(r) PROVE ReadsInv'
  <2>1. /\ End(r, "done") /\ phase[r] = "locking" /\ Op[r] = "checkout" /\ payments' = payments
        /\ \A c \in Carts : carts'[c] = IF c = CartOf[r] THEN "checked_out" ELSE carts[c]
    BY <1>10 DEF CheckoutCommits, LinesDone, TypeInv, TypeOK
  <2> QED BY <1>2, <1>9, <2>1, EndPhase, ReadsMove
<1>11. ASSUME NEW r \in Requests, CancelCommits(r) \/ ShipCommits(r) PROVE ReadsInv'
  <2>1. End(r, "done") /\ carts' = carts /\ payments' = payments
    BY <1>11 DEF CancelCommits, ShipCommits
  <2> QED BY <1>2, <1>9, <2>1, EndPhase, ReadsMove
<1>12. ASSUME NEW r \in Requests, PayCommits(r) PROVE ReadsInv'
  <2>1. /\ End(r, "done") /\ carts' = carts /\ phase[r] = "inserting"
        /\ \A p \in Payments : payments'[p] = IF p = r THEN "pending" ELSE payments[p]
    BY <1>12 DEF PayCommits, TypeInv, TypeOK
  <2> QED BY <1>2, <1>9, <2>1, EndPhase, ReadsMove
<1>13. ASSUME NEW r \in Requests, ConfirmCommits(r) PROVE ReadsInv'
  <2>1. /\ End(r, "done") /\ carts' = carts /\ phase[r] = "confirming"
        /\ \A p \in Payments : p # tx[r].target => payments'[p] = payments[p]
    BY <1>13 DEF ConfirmCommits, TypeInv, TypeOK
  <2> QED BY <1>2, <1>9, <2>1, EndPhase, ReadsMove
<1> QED BY <1>1, <1>3, <1>4, <1>5, <1>6, <1>7, <1>8, <1>10, <1>11, <1>12, <1>13, QuietStep
-----------------------------------------------------------------------------
(* One line after the other: what a request would leave in the tables if it *)
(* committed now is what handling the lines it has done, one after the      *)
(* other, makes of the tables as they are now.                              *)

Change(r, row, units) ==
    CASE Op[r] = "checkout" -> Reserve(row, units)
      [] Op[r] = "cancel"   -> Release(row, units)
      [] Op[r] = "ship"     -> Fulfill(row, units)

\* The row a line of variant v uses when the rows are as in `table`.
Choice(r, table, v) ==
    <<v, MostAvailable([w \in Allowed(r, v) |-> Available(table[<<v, w>>])], Allowed(r, v))>>

LineDone(r, table, i) ==
    LET v == LinesOf(r)[i].variant IN
    IF Allowed(r, v) = {} THEN table
    ELSE [table EXCEPT ![Choice(r, table, v)] = Change(r, @, LinesOf(r)[i].units)]

\* What the tables would be if r committed now.
Result(r) == [row \in Rows |-> IF rowLock[row] = r THEN draft[r][row] ELSE stock[row]]

\* The lines of `done`, each once in the order `seq`, take the inventory from
\* `base` through the states g to `result`.
Replayed(r, seq, g, done, base, result) ==
    /\ seq \in Seq(done)
    /\ Len(seq) = Cardinality(done)
    /\ \A j, k \in 1 .. Len(seq) : seq[j] = seq[k] => j = k
    /\ g \in [0 .. Len(seq) -> [Rows -> StockRow]]
    /\ g[0] = base
    /\ \A k \in 1 .. Len(seq) : g[k] = LineDone(r, g[k - 1], seq[k])
    /\ g[Len(seq)] = result

Replays(r) ==
    phase[r] = "locking" => \E seq, g : Replayed(r, seq, g, Applied(r), stock, Result(r))

\* Of finitely many warehouses one comes first: MostAvailable is defined.
LEMMA BestExists ==
    ASSUME NEW S \in SUBSET Nat, IsFiniteSet(S), S # {}, NEW avail, \A w \in S : avail[w] \in Int
    PROVE  MostAvailable(avail, S) \in S
<1> DEFINE Best(w, T) == \A x \in T : avail[x] < avail[w] \/ (avail[x] = avail[w] /\ w <= x)
           good == {T \in SUBSET S : T # {} => \E w \in T : Best(w, T)}
<1>1. {} \in good
  OBVIOUS
<1>2. ASSUME NEW T \in SUBSET S, T # {}, \A x \in T : T \ {x} \in good
      PROVE  T \in good
  <2>1. PICK x \in T : T \ {x} \in good
    BY <1>2
  <2>2. CASE T = {x}
    <3>1. Best(x, T)
      BY <2>1, <2>2
    <3> QED BY <2>1, <3>1
  <2>3. CASE T \ {x} # {}
    <3>1. PICK w \in T \ {x} : Best(w, T \ {x})
      BY <2>1, <2>3
    <3>2. x \in Nat /\ w \in Nat /\ avail[x] \in Int /\ avail[w] \in Int
      BY <2>1, <3>1
    <3>3. CASE avail[x] < avail[w] \/ (avail[x] = avail[w] /\ w <= x)
      <4>1. Best(w, T)
        BY <3>1, <3>2, <3>3
      <4> QED BY <3>1, <4>1
    <3>4. CASE ~(avail[x] < avail[w] \/ (avail[x] = avail[w] /\ w <= x))
      <4>1. avail[w] < avail[x] \/ (avail[w] = avail[x] /\ x <= w)
        BY <3>2, <3>4
      <4>2. ASSUME NEW y \in T
            PROVE  avail[y] < avail[x] \/ (avail[y] = avail[x] /\ x <= y)
        <5>1. CASE y = x
          BY <3>2, <5>1
        <5>2. CASE y # x
          <6>1. avail[y] < avail[w] \/ (avail[y] = avail[w] /\ w <= y)
            BY <3>1, <5>2
          <6>2. avail[y] \in Int /\ y \in Nat
            OBVIOUS
          <6> QED BY <3>2, <4>1, <6>1, <6>2
        <5> QED BY <5>1, <5>2
      <4>3. Best(x, T)
        BY <4>2
      <4> QED BY <2>1, <4>3
    <3> QED BY <3>3, <3>4
  <2> QED BY <2>1, <2>2, <2>3
<1>3. S \in good
  <2> HIDE DEF good
  <2> QED BY <1>1, <1>2, BySize
<1>4. PICK w \in S : Best(w, S)
  BY <1>3
<1> QED BY <1>4 DEF MostAvailable

LEMMA AllowedTyped ==
    ASSUME NEW r \in Requests, NEW v
    PROVE  /\ Allowed(r, v) \in SUBSET Nat /\ IsFiniteSet(Allowed(r, v))
           /\ \A w \in Allowed(r, v) : <<v, w>> \in Rows
<1>1. Allowed(r, v) \subseteq Warehouses
  BY DEF Allowed
<1> QED BY <1>1, StockAssumption, FS_Subset DEF Allowed

LEMMA ChoiceTyped ==
    ASSUME NEW r \in Requests, NEW v, Allowed(r, v) # {}, NEW table \in [Rows -> StockRow]
    PROVE  \E w \in Allowed(r, v) : Choice(r, table, v) = <<v, w>>
<1> DEFINE avail == [w \in Allowed(r, v) |-> Available(table[<<v, w>>])]
<1>1. ASSUME NEW w \in Allowed(r, v) PROVE avail[w] \in Int
  <2>1. table[<<v, w>>] \in StockRow
    BY AllowedTyped
  <2>2. Available(table[<<v, w>>]) \in Int
    BY <2>1 DEF StockRow, Available
  <2> QED BY <2>2
<1> HIDE DEF avail
<1>2. MostAvailable(avail, Allowed(r, v)) \in Allowed(r, v)
  BY <1>1, AllowedTyped, BestExists
<1> QED BY <1>2 DEF Choice, avail

LEMMA LineDoneTyped ==
    ASSUME NEW r \in Requests, Op[r] \in Locking, NEW i \in DOMAIN LinesOf(r),
           NEW t \in [Rows -> StockRow]
    PROVE  LineDone(r, t, i) \in [Rows -> StockRow]
<1> DEFINE v == LinesOf(r)[i].variant
           n == LinesOf(r)[i].units
           site == Choice(r, t, v)
<1>1. n \in Nat
  <2> DEFINE lineType == [variant : Variants, units : Nat]
  <2>1. LinesOf(r) \in Seq(lineType)
    BY LinesTyped
  <2>2. LinesOf(r)[i] \in lineType
    <3> HIDE DEF lineType
    <3> QED BY <2>1
  <2> QED BY <2>2
<1>2. CASE Allowed(r, v) = {}
  BY <1>2 DEF LineDone
<1>3. CASE Allowed(r, v) # {}
  <2>1. site \in Rows
    BY <1>3, AllowedTyped, ChoiceTyped
  <2>2. LineDone(r, t, i) = [t EXCEPT ![site] = Change(r, t[site], n)]
    BY <1>3 DEF LineDone
  <2> HIDE DEF site, n, v
  <2>3. t[site] \in StockRow
    BY <2>1
  <2>4. ASSUME NEW row \in StockRow PROVE Reserve(row, n) \in StockRow
    BY <1>1, <2>4 DEF Reserve, StockRow
  <2>5. Change(r, t[site], n) \in StockRow
    BY <1>1, <2>3, <2>4, ReleaseRow, FulfillRow DEF Change, Locking
  <2> QED BY <2>1, <2>2, <2>5
<1> QED BY <1>2, <1>3

\* A line changes no row but those of its own variant, and what it does to
\* them depends on them alone.
LEMMA LineDoneLocal ==
    ASSUME NEW r \in Requests, NEW i \in DOMAIN LinesOf(r), NEW held \in SUBSET Rows,
           \A w \in Allowed(r, LinesOf(r)[i].variant) : <<LinesOf(r)[i].variant, w>> \in held,
           NEW t \in [Rows -> StockRow], NEW u \in [Rows -> StockRow],
           \A row \in held : t[row] = u[row]
    PROVE  /\ \A row \in held : LineDone(r, u, i)[row] = LineDone(r, t, i)[row]
           /\ \A row \in Rows \ held : LineDone(r, u, i)[row] = u[row]
<1> DEFINE v == LinesOf(r)[i].variant
           n == LinesOf(r)[i].units
           avail(x) == [w \in Allowed(r, v) |-> Available(x[<<v, w>>])]
<1>1. CASE Allowed(r, v) = {}
  <2>1. LineDone(r, u, i) = u /\ LineDone(r, t, i) = t
    BY <1>1 DEF LineDone
  <2> QED BY <2>1
<1>2. CASE Allowed(r, v) # {}
  <2>1. avail(t) = avail(u)
    OBVIOUS
  <2>2. Choice(r, t, v) = <<v, MostAvailable(avail(t), Allowed(r, v))>>
    BY DEF Choice
  <2>3. Choice(r, u, v) = <<v, MostAvailable(avail(u), Allowed(r, v))>>
    BY DEF Choice
  <2> DEFINE site == Choice(r, t, v)
  <2>4. Choice(r, u, v) = site
    <3> HIDE DEF avail
    <3> QED BY <2>1, <2>2, <2>3
  <2>5. site \in held
    BY <1>2, ChoiceTyped
  <2>6. /\ LineDone(r, t, i) = [t EXCEPT ![site] = Change(r, t[site], n)]
        /\ LineDone(r, u, i) = [u EXCEPT ![site] = Change(r, u[site], n)]
    BY <1>2, <2>4, SMTT(30) DEF LineDone
  <2> HIDE DEF site, v, n
  <2> QED BY <2>5, <2>6
<1> QED BY <1>1, <1>2

\* The operators of a replay speak of the tables only through their arguments.
LEMMA ReplaysNext ==
    ASSUME NEW r \in Requests,
           phase'[r] = "locking" =>
             \E seq, g : Replayed(r, seq, g, Applied(r)', stock', Result(r)')
    PROVE  Replays(r)'
BY ZenonT(30) DEF Replays, Replayed, LineDone, Choice, Change, Allowed, Pinned, LinesOf

\* A step that leaves what r would commit, and the tables, as they are.
LEMMA ReplaysKept ==
    ASSUME NEW r \in Requests, Replays(r),
           phase'[r] = "locking" =>
             /\ phase[r] = "locking" /\ Applied(r)' = Applied(r)
             /\ stock' = stock /\ Result(r)' = Result(r)
    PROVE  Replays(r)'
<1>1. phase'[r] = "locking" =>
        \E seq, g : Replayed(r, seq, g, Applied(r)', stock', Result(r)')
  BY DEF Replays
<1> QED BY <1>1, ReplaysNext

LEMMA ReplaysBegin ==
    ASSUME TypeInv, LocksInv, NEW r \in Requests, NEW status, StartLines(r, status),
           phase[r] # "locking"
    PROVE  Replays(r)'
<1>1. /\ tx'[r].left = DOMAIN LinesOf(r) /\ stock' = stock /\ rowLock' = rowLock
  <2>1. PICK i \in DOMAIN LinesOf(r) :
          tx' = [tx EXCEPT ![r] = [left |-> DOMAIN LinesOf(r), line |-> i,
                                   scanned |-> 0, seen |-> status, target |-> NoOne]]
    BY DEF StartLines
  <2> QED BY <2>1 DEF StartLines, tables, locks, TypeInv, TypeOK
<1>2. Applied(r)' = {}
  BY <1>1 DEF Applied, LinesOf
<1>3. Result(r)' = stock'
  <2>1. \A row \in Rows : rowLock'[row] # r
    BY <1>1 DEF LocksInv
  <2>2. stock' \in [Rows -> StockRow]
    BY <1>1 DEF TypeInv, TypeOK
  <2> QED BY <2>1, <2>2 DEF Result
<1> DEFINE g == [k \in 0 .. 0 |-> stock']
<1>4. Replayed(r, <<>>, g, {}, stock', stock')
  <2>1. <<>> \in Seq({}) /\ Len(<<>>) = 0 /\ Cardinality({}) = 0 /\ 1 .. 0 = {}
    BY FS_EmptySet
  <2>2. stock' \in [Rows -> StockRow]
    BY <1>1 DEF TypeInv, TypeOK
  <2>3. g \in [0 .. 0 -> [Rows -> StockRow]] /\ g[0] = stock'
    BY <2>2
  <2> HIDE DEF g
  <2> QED BY <2>1, <2>3 DEF Replayed
<1> QED BY <1>2, <1>3, <1>4, ReplaysNext

\* What others commit while r holds its rows goes around the lines r has done.
LEMMA ReplaysElsewhere ==
    ASSUME TypeInv, TypeInv', LocksInv, NEW r \in Requests, Replays(r),
           phase'[r] = phase[r], tx'[r] = tx[r], draft'[r] = draft[r],
           \A row \in Rows : rowLock'[row] = r <=> rowLock[row] = r,
           \A row \in Rows : rowLock[row] = r => stock'[row] = stock[row]
    PROVE  Replays(r)'
<1> SUFFICES ASSUME phase[r] = "locking"
             PROVE  \E seq, g : Replayed(r, seq, g, Applied(r)', stock', Result(r)')
  BY ReplaysNext
<1>1. PICK seq, g : Replayed(r, seq, g, Applied(r), stock, Result(r))
  BY DEF Replays
<1>0. Op[r] \in Locking
  BY DEF TypeInv, HandlerOK
<1>2. Applied(r)' = Applied(r)
  BY DEF Applied, LinesOf
<1> DEFINE held == {row \in Rows : rowLock[row] = r}
           n == Len(seq)
           h == [k \in 0 .. n |-> [row \in Rows |-> IF row \in held THEN g[k][row] ELSE stock'[row]]]
<1>3. /\ n \in Nat /\ stock \in [Rows -> StockRow] /\ stock' \in [Rows -> StockRow]
      /\ g \in [0 .. n -> [Rows -> StockRow]]
  BY <1>1 DEF TypeInv, TypeOK, Replayed
<1>4. h \in [0 .. n -> [Rows -> StockRow]]
  BY <1>3
<1>5. h[0] = stock'
  <2>1. g[0] = stock
    BY <1>1 DEF Replayed
  <2>2. \A row \in Rows : h[0][row] = stock'[row]
    BY <1>3, <2>1
  <2> QED BY <1>3, <2>2
<1>6. h[n] = Result(r)'
  <2>1. g[n] = Result(r)
    BY <1>1 DEF Replayed
  <2>2. h[n] = [row \in Rows |-> IF row \in held THEN g[n][row] ELSE stock'[row]]
    BY <1>3
  <2>3. \A row \in Rows : row \in held => g[n][row] = draft'[r][row]
    BY <2>1 DEF Result
  <2> HIDE DEF h, n
  <2> QED BY <2>2, <2>3 DEF Result
<1>7. ASSUME NEW k \in 1 .. n PROVE h[k] = LineDone(r, h[k - 1], seq[k])
  <2>1. k - 1 \in 0 .. n /\ k \in 0 .. n
    BY <1>3
  <2>2. seq[k] \in Applied(r) /\ g[k] = LineDone(r, g[k - 1], seq[k])
    BY <1>1 DEF Replayed
  <2>3. seq[k] \in DOMAIN LinesOf(r)
    BY <2>2 DEF Applied
  <2>4. \A w \in Allowed(r, LinesOf(r)[seq[k]].variant) :
           <<LinesOf(r)[seq[k]].variant, w>> \in held
    BY <2>2, AllowedTyped DEF LocksInv, Holds
  <2>5. /\ g[k - 1] \in [Rows -> StockRow] /\ h[k - 1] \in [Rows -> StockRow]
        /\ \A row \in held : g[k - 1][row] = h[k - 1][row]
    BY <1>3, <1>4, <2>1
  <2>6. h[k] = [row \in Rows |-> IF row \in held THEN g[k][row] ELSE h[k - 1][row]]
    BY <2>1
  <2>7. held \in SUBSET Rows
    OBVIOUS
  <2> HIDE DEF held, h, n
  <2>8. LineDone(r, h[k - 1], seq[k]) =
          [row \in Rows |-> IF row \in held THEN LineDone(r, g[k - 1], seq[k])[row]
                            ELSE h[k - 1][row]]
    <3> DEFINE i == seq[k]
               t == g[k - 1]
               u == h[k - 1]
    <3>1. /\ i \in DOMAIN LinesOf(r) /\ t \in [Rows -> StockRow] /\ u \in [Rows -> StockRow]
          /\ \A w \in Allowed(r, LinesOf(r)[i].variant) : <<LinesOf(r)[i].variant, w>> \in held
          /\ \A row \in held : t[row] = u[row]
      BY <2>3, <2>4, <2>5
    <3> HIDE DEF i, t, u
    <3>2. /\ \A row \in held : LineDone(r, u, i)[row] = LineDone(r, t, i)[row]
          /\ \A row \in Rows \ held : LineDone(r, u, i)[row] = u[row]
      BY <2>7, <3>1, LineDoneLocal
    <3>3. LineDone(r, u, i) \in [Rows -> StockRow]
      BY <3>1, <1>0, LineDoneTyped
    <3>4. LineDone(r, u, i) =
            [row \in Rows |-> IF row \in held THEN LineDone(r, t, i)[row] ELSE u[row]]
      BY <3>2, <3>3
    <3> QED BY <3>4 DEF i, t, u
  <2> QED BY <2>2, <2>6, <2>8
<1>8. Replayed(r, seq, h, Applied(r), stock', Result(r)')
  <2> HIDE DEF h
  <2> QED BY <1>1, <1>4, <1>5, <1>6, <1>7 DEF Replayed
<1> QED BY <1>2, <1>8

\* A line is done on the rows as the transaction sees them, all of them locked.
LEMMA LineOnResult ==
    ASSUME TypeInv, LocksInv, NEW r \in Requests, ApplyLine(r)
    PROVE  Result(r)' = LineDone(r, Result(r), tx[r].line)
<1> DEFINE i == tx[r].line
           v == LinesOf(r)[i].variant
           units == LinesOf(r)[i].units
           now == Result(r)
<1>1. /\ AtLine(r) /\ ToLock(r) = {} /\ LinePossible(r)
      /\ stock' = stock /\ rowLock' = rowLock
      /\ draft' = IF Matched(r) = {} THEN draft
                  ELSE [draft EXCEPT ![r][ChosenRow(r)] = Changed(r)]
  BY DEF ApplyLine, tables, locks
<1>2. Matched(r) = Allowed(r, v) /\ LineOf(r) = LinesOf(r)[i]
  BY DEF Matched, Allowed, LineOf
<1>3. \A w \in Allowed(r, v) : rowLock[<<v, w>>] = r /\ <<v, w>> \in Rows
  BY <1>1, <1>2, LineLocked, AllowedTyped DEF LineOf
<1>4. now \in [Rows -> StockRow] /\ draft[r] \in [Rows -> StockRow]
  BY DEF TypeInv, TypeOK, Result
<1>5. CASE Allowed(r, v) = {}
  <2>1. Result(r)' = now
    BY <1>1, <1>2, <1>5 DEF Result
  <2>2. LineDone(r, now, i) = now
    <3> HIDE DEF now
    <3> QED BY <1>5 DEF LineDone
  <2> QED BY <2>1, <2>2
<1>6. CASE Allowed(r, v) # {}
  <2> DEFINE site == Choice(r, now, v)
  <2>1. ChosenRow(r) = site
    <3> DEFINE avail(table) == [w \in Allowed(r, v) |-> Available(table[<<v, w>>])]
    <3>1. avail(now) = avail(draft[r])
      BY <1>3 DEF Result
    <3>2. ChosenRow(r) = <<v, MostAvailable(avail(draft[r]), Allowed(r, v))>>
      BY <1>2 DEF ChosenRow
    <3>3. site = <<v, MostAvailable(avail(now), Allowed(r, v))>>
      <4> HIDE DEF now
      <4> QED BY DEF Choice
    <3> HIDE DEF avail, site, v, now
    <3> QED BY <3>1, <3>2, <3>3
  <2>2. site \in Rows /\ rowLock[site] = r
    <3> HIDE DEF now
    <3> QED BY <1>3, <1>4, <1>6, ChoiceTyped
  <2>3. now[site] = draft[r][site]
    <3> HIDE DEF site
    <3> QED BY <2>2 DEF Result
  <2>4. Changed(r) = Change(r, now[site], units)
    <3>1. Op[r] \in Locking
      BY <1>1 DEF TypeInv, HandlerOK, AtLine
    <3> HIDE DEF now, site, units
    <3> QED BY <1>2, <2>1, <2>3, <3>1 DEF Changed, Change, Locking, units
  <2>5. LineDone(r, now, i) = [now EXCEPT ![site] = Change(r, now[site], units)]
    <3> HIDE DEF now
    <3> QED BY <1>6 DEF LineDone
  <2>6. draft' = [draft EXCEPT ![r][site] = Change(r, now[site], units)]
    <3> HIDE DEF now, site, units, v
    <3> QED BY <1>1, <1>2, <1>6, <2>1, <2>4
  <2> DEFINE new == Change(r, now[site], units)
  <2> HIDE DEF new, site, units, v
  <2>7. \A row \in Rows : draft'[r][row] = IF row = site THEN new ELSE draft[r][row]
    BY <1>4, <2>2, <2>6 DEF new, TypeInv, TypeOK
  <2>8. \A row \in Rows : Result(r)'[row] = IF row = site THEN new ELSE now[row]
    BY <1>1, <2>2, <2>7 DEF Result
  <2>9. DOMAIN Result(r)' = Rows /\ Result(r)' = [row \in Rows |-> Result(r)'[row]]
    BY DEF Result
  <2> HIDE DEF now
  <2> DEFINE later == Result(r)'
  <2> HIDE DEF later
  <2>10. later = [row \in Rows |-> IF row = site THEN new ELSE now[row]]
    <3>1. later = [row \in Rows |-> later[row]]
      BY <2>9 DEF later
    <3>2. \A row \in Rows : later[row] = IF row = site THEN new ELSE now[row]
      BY <2>8 DEF later
    <3> QED BY <3>1, <3>2
  <2>11. [now EXCEPT ![site] = new] = [row \in Rows |-> IF row = site THEN new ELSE now[row]]
    BY <1>4, <2>2
  <2> QED BY <2>5, <2>10, <2>11 DEF new, later, now
<1> QED BY <1>5, <1>6

LEMMA ReplaysLine ==
    ASSUME TypeInv, TypeInv', LocksInv, NEW r \in Requests, Replays(r), ApplyLine(r)
    PROVE  Replays(r)'
<1> DEFINE i == tx[r].line
<1>1. phase[r] = "locking" /\ stock' = stock
  BY DEF ApplyLine, AtLine, tables
<1>2. PICK seq, g : Replayed(r, seq, g, Applied(r), stock, Result(r))
  BY <1>1 DEF Replays
<1> DEFINE n == Len(seq)
           longer == Append(seq, i)
           h == [k \in 0 .. n + 1 |-> IF k = n + 1 THEN Result(r)' ELSE g[k]]
<1>3. /\ i \in DOMAIN LinesOf(r) /\ i \notin Applied(r)
      /\ Applied(r)' = Applied(r) \cup {i}
  BY LineFinished DEF Applied
<1>4. /\ seq \in Seq(Applied(r)) /\ n \in Nat /\ n = Cardinality(Applied(r))
      /\ \A k \in 1 .. n : seq[k] \in Applied(r)
      /\ \A j, k \in 1 .. n : seq[j] = seq[k] => j = k
      /\ g \in [0 .. n -> [Rows -> StockRow]]
      /\ g[0] = stock /\ g[n] = Result(r)
      /\ \A k \in 1 .. n : g[k] = LineDone(r, g[k - 1], seq[k])
  BY <1>2 DEF Replayed
<1>5. Cardinality(Applied(r)') = n + 1
  <2>1. IsFiniteSet(Applied(r))
    <3>1. IsFiniteSet(DOMAIN LinesOf(r))
      <4>1. PICK m \in Nat : DOMAIN LinesOf(r) = 1 .. m
        BY LinesTyped
      <4> QED BY <4>1, FS_Interval
    <3> QED BY <3>1, FS_Subset DEF Applied
  <2>2. Cardinality(Applied(r) \cup {i}) = Cardinality(Applied(r)) + 1
    BY <1>3, <2>1, FS_AddElement
  <2> QED BY <1>3, <1>4, <2>2
<1>6. /\ longer \in Seq(Applied(r)') /\ Len(longer) = n + 1
      /\ longer[n + 1] = i /\ \A k \in 1 .. n : longer[k] = seq[k]
  <2>1. seq \in Seq(Applied(r) \cup {i}) /\ i \in Applied(r) \cup {i}
    BY <1>4
  <2> HIDE DEF i
  <2> QED BY <1>3, <1>4, <2>1
<1> HIDE DEF i, longer
<1>7. \A j, k \in 1 .. n + 1 : longer[j] = longer[k] => j = k
  <2>1. ASSUME NEW j \in 1 .. n + 1, NEW k \in 1 .. n + 1, longer[j] = longer[k], j # k
        PROVE  FALSE
    <3>1. (j \in 1 .. n \/ j = n + 1) /\ (k \in 1 .. n \/ k = n + 1)
      BY <1>4
    <3>2. \A x \in 1 .. n : longer[x] # i
      BY <1>3, <1>4, <1>6
    <3> HIDE DEF n
    <3>3. ~(j \in 1 .. n /\ k \in 1 .. n)
      BY <1>4, <1>6, <2>1
    <3> QED BY <1>6, <2>1, <3>1, <3>2, <3>3
  <2> QED BY <2>1
<1>8. h \in [0 .. n + 1 -> [Rows -> StockRow]]
  <2>1. Result(r)' \in [Rows -> StockRow]
    BY DEF TypeInv, TypeOK, Result
  <2> QED BY <1>4, <2>1
<1>9. h[0] = stock /\ h[n + 1] = Result(r)' /\ \A k \in 0 .. n : h[k] = g[k]
  BY <1>4
<1>10. ASSUME NEW k \in 1 .. n + 1 PROVE h[k] = LineDone(r, h[k - 1], longer[k])
  <2>1. CASE k \in 1 .. n
    <3>1. h[k] = g[k] /\ h[k - 1] = g[k - 1]
      <4>1. k \in 0 .. n /\ k - 1 \in 0 .. n
        BY <1>4, <2>1
      <4> HIDE DEF h
      <4> QED BY <1>9, <4>1
    <3> HIDE DEF h
    <3> QED BY <1>4, <1>6, <2>1, <3>1
  <2>2. CASE k = n + 1
    <3>1. (n + 1) - 1 = n /\ n \in 0 .. n
      BY <1>4
    <3>2. h[k] = Result(r)' /\ h[k - 1] = Result(r) /\ longer[k] = i
      <4> HIDE DEF h
      <4> QED BY <1>4, <1>6, <1>9, <2>2, <3>1
    <3> HIDE DEF h
    <3> QED BY <3>2, LineOnResult DEF i
  <2>3. k \in 1 .. n \/ k = n + 1
    BY <1>4
  <2> QED BY <2>1, <2>2, <2>3
<1>11. Replayed(r, longer, h, Applied(r)', stock', Result(r)')
  <2> HIDE DEF h, n
  <2> QED BY <1>1, <1>5, <1>6, <1>7, <1>8, <1>9, <1>10 DEF Replayed
<1> QED BY <1>11, ReplaysNext

ReplaysInv == \A r \in Requests : Replays(r)

\* A step of r that takes no row another request has locked, and writes none.
LEMMA ReplaysMove ==
    ASSUME TypeInv, TypeInv', LocksInv, ReplaysInv, NEW r \in Requests,
           \A s \in Requests \ {r} :
              phase'[s] = phase[s] /\ tx'[s] = tx[s] /\ draft'[s] = draft[s],
           \A row \in Rows : rowLock'[row] \in {rowLock[row], r, NoOne},
           \A row \in Rows : rowLock[row] \notin {r, NoOne} =>
              rowLock'[row] = rowLock[row] /\ stock'[row] = stock[row],
           Replays(r)'
    PROVE  ReplaysInv'
<1> SUFFICES ASSUME NEW s \in Requests \ {r} PROVE Replays(s)'
  BY DEF ReplaysInv
<1>1. Replays(s) /\ s # NoOne
  BY RequestAssumption DEF ReplaysInv
<1>2. \A row \in Rows : rowLock'[row] = s <=> rowLock[row] = s
  BY <1>1
<1>3. \A row \in Rows : rowLock[row] = s => stock'[row] = stock[row]
  BY <1>1
<1> QED BY <1>1, <1>2, <1>3, ReplaysElsewhere

LEMMA ReplaysStep ==
    TypeInv /\ TypeInv' /\ LocksInv /\ ReplaysInv /\ [Next]_vars => ReplaysInv'
<1> SUFFICES ASSUME TypeInv, TypeInv', LocksInv, ReplaysInv, [Next]_vars
             PROVE  ReplaysInv'
  OBVIOUS
<1>1. CASE UNCHANGED vars
  <2> SUFFICES ASSUME NEW r \in Requests PROVE Replays(r)'
    BY DEF ReplaysInv
  <2>1. Replays(r)
    BY DEF ReplaysInv
  <2>2. Applied(r)' = Applied(r) /\ Result(r)' = Result(r)
    BY <1>1 DEF vars, Applied, LinesOf, Result
  <2> QED BY <1>1, <2>1, <2>2, ReplaysKept DEF vars
<1>2. ASSUME NEW r \in Requests, phase'[r] # "locking" PROVE Replays(r)'
  BY <1>2, ReplaysNext
<1>3. ASSUME NEW r \in Requests, NEW outcome \in Ended, End(r, outcome),
             Publish(r) \/ stock' = stock
      PROVE  ReplaysInv'
  <2>1. /\ phase'[r] # "locking"
        /\ \A s \in Requests \ {r} :
              phase'[s] = phase[s] /\ tx'[s] = tx[s] /\ draft'[s] = draft[s]
    BY <1>3 DEF End, TypeInv, TypeOK, Ended
  <2>2. \A row \in Rows : rowLock'[row] = IF rowLock[row] = r THEN NoOne ELSE rowLock[row]
    BY <1>3 DEF End
  <2>3. \A row \in Rows : rowLock[row] # r => stock'[row] = stock[row]
    BY <1>3 DEF Publish
  <2> QED BY <1>2, <2>1, <2>2, <2>3, ReplaysMove
<1>4. ASSUME NEW r \in Requests, CheckoutStarts(r) \/ CancelStarts(r) \/ ShipStarts(r)
      PROVE  ReplaysInv'
  <2>1. PICK status : MayStart(r) /\ StartLines(r, status)
    BY <1>4 DEF CheckoutStarts, CancelStarts, ShipStarts
  <2>2. /\ stock' = stock /\ rowLock' = rowLock /\ draft' = draft
        /\ \A s \in Requests \ {r} : phase'[s] = phase[s] /\ tx'[s] = tx[s]
    BY <2>1 DEF StartLines, tables, locks, TypeInv, TypeOK
  <2>3. Replays(r)'
    BY <2>1, ReplaysBegin DEF MayStart
  <2> QED BY <2>2, <2>3, ReplaysMove
<1>5. ASSUME NEW r \in Requests, PayReads(r) \/ ConfirmReads(r) \/ ConfirmReadsOrder(r)
      PROVE  ReplaysInv'
  <2>1. /\ stock' = stock /\ rowLock' = rowLock /\ draft' = draft /\ phase'[r] # "locking"
        /\ \A s \in Requests \ {r} : phase'[s] = phase[s] /\ tx'[s] = tx[s]
    BY <1>5 DEF PayReads, ConfirmReads, ConfirmReadsOrder, tables, locks, TypeInv, TypeOK
  <2> QED BY <1>2, <1>5, <2>1, ReplaysMove
<1>6. ASSUME NEW r \in Requests, ApplyLine(r) PROVE ReplaysInv'
  <2>1. /\ stock' = stock /\ rowLock' = rowLock /\ phase' = phase
        /\ \A s \in Requests \ {r} : tx'[s] = tx[s] /\ draft'[s] = draft[s]
    BY <1>6 DEF ApplyLine, tables, locks, TypeInv, TypeOK
  <2>2. Replays(r)'
    BY <1>6, ReplaysLine DEF ReplaysInv
  <2> QED BY <2>1, <2>2, ReplaysMove
<1>7. ASSUME NEW r \in Requests, LockRow(r) PROVE ReplaysInv'
  <2> DEFINE next == NextRow(r)
  <2>1. next \in Rows /\ AtLine(r)
    BY <1>7, NextRowTyped DEF LockRow
  <2>2. /\ rowLock[next] \in {NoOne, r}
        /\ rowLock' = [rowLock EXCEPT ![next] = r]
        /\ draft' = IF rowLock[next] = r THEN draft ELSE [draft EXCEPT ![r][next] = stock[next]]
        /\ tx' = [tx EXCEPT ![r].scanned = next[2]]
        /\ phase' = phase /\ stock' = stock
    BY <1>7 DEF LockRow, tables
  <2> HIDE DEF next
  <2>3. \A row \in Rows : rowLock'[row] = IF row = next THEN r ELSE rowLock[row]
    BY <2>1, <2>2 DEF TypeInv, TypeOK
  <2>4. \A s \in Requests \ {r} : tx'[s] = tx[s] /\ draft'[s] = draft[s]
    BY <2>2 DEF TypeInv, TypeOK
  <2>5. tx'[r].left = tx[r].left
    BY <2>2 DEF TypeInv, TypeOK, Handler
  <2>6. Applied(r)' = Applied(r)
    BY <2>5 DEF Applied, LinesOf
  <2>7. \A row \in Rows : draft'[r][row] =
           IF row = next /\ rowLock[next] # r THEN stock[next] ELSE draft[r][row]
    BY <2>1, <2>2 DEF TypeInv, TypeOK
  <2>8. Result(r)' = Result(r)
    <3>1. \A row \in Rows : (IF rowLock'[row] = r THEN draft'[r][row] ELSE stock'[row])
                           = (IF rowLock[row] = r THEN draft[r][row] ELSE stock[row])
      BY <2>2, <2>3, <2>7
    <3> QED BY <3>1 DEF Result
  <2>9. Replays(r)'
    <3>1. phase[r] = "locking" /\ Replays(r)
      BY <2>1 DEF AtLine, ReplaysInv
    <3> QED BY <2>2, <2>6, <2>8, <3>1, ReplaysKept
  <2> QED BY <2>2, <2>3, <2>4, <2>9, ReplaysMove
<1>8. "done" \in Ended
  BY DEF Ended
<1>9. ASSUME NEW r \in Requests, CheckoutCommits(r) \/ CancelCommits(r) \/ ShipCommits(r)
      PROVE  ReplaysInv'
  BY <1>3, <1>8, <1>9 DEF CheckoutCommits, CancelCommits, ShipCommits
<1>10. ASSUME NEW r \in Requests, PayCommits(r) \/ ConfirmCommits(r) PROVE ReplaysInv'
  BY <1>3, <1>8, <1>10 DEF PayCommits, ConfirmCommits
<1>11. ASSUME NEW r \in Requests, NEW outcome \in Ended, Rollback(r, outcome) PROVE ReplaysInv'
  BY <1>3, <1>11 DEF Rollback, tables
<1> QED BY <1>1, <1>4, <1>5, <1>6, <1>7, <1>9, <1>10, <1>11, StepCases
-----------------------------------------------------------------------------
(* What the ledger computes for the lines of an operation is what the       *)
(* transaction has computed for them.                                       *)

LEMMA SitesAllowed ==
    ASSUME NEW r \in Requests, NEW v
    PROVE  Ledger!Sites(v, Pinned(r)) = Allowed(r, v)
<1>1. ASSUME NEW w \in Ledger!Sites(v, Pinned(r)) PROVE w \in Allowed(r, v)
  <2>1. PICK row \in Rows : row[1] = v /\ Pinned(r) \in {0, row[2]} /\ w = row[2]
    BY <1>1 DEF Ledger!Sites
  <2>2. row = <<v, w>> /\ w \in Warehouses
    BY <2>1, StockAssumption
  <2> QED BY <2>1, <2>2 DEF Allowed, NoWarehouse
<1>2. ASSUME NEW w \in Allowed(r, v) PROVE w \in Ledger!Sites(v, Pinned(r))
  <2>1. <<v, w>> \in Rows /\ Pinned(r) \in {0, w}
    BY <1>2 DEF Allowed, NoWarehouse
  <2>2. <<v, w>> \in {x \in Rows : x[1] = v /\ Pinned(r) \in {0, x[2]}} /\ <<v, w>>[2] = w
    BY <2>1
  <2> QED BY <2>2 DEF Ledger!Sites
<1> QED BY <1>1, <1>2

LEMMA SiteChosen ==
    ASSUME NEW r \in Requests, NEW v, NEW table
    PROVE  Ledger!Site(table, v, Pinned(r)) = Choice(r, table, v)
<1>1. Ledger!Site(table, v, Pinned(r)) =
        <<v, MostAvailable([w \in Ledger!Sites(v, Pinned(r)) |-> Available(table[<<v, w>>])],
                           Ledger!Sites(v, Pinned(r)))>>
  BY Zenon DEF Ledger!Site, Ledger!MostAvailable, MostAvailable, Available, Ledger!Available
<1> QED BY <1>1, SitesAllowed DEF Choice

\* The states of the inventory between the lines of a request.
Runs(r, seq, g) ==
    g = [k \in 0 .. Len(seq) |-> IF k = 0 THEN stock ELSE LineDone(r, g[k - 1], seq[k])]

LEMMA RunsAgree ==
    ASSUME NEW r, NEW seq, Len(seq) \in Nat, NEW g, NEW h, Runs(r, seq, g), Runs(r, seq, h)
    PROVE  g[Len(seq)] = h[Len(seq)]
<1> DEFINE n == Len(seq)
           N == {k \in Nat : k <= n => g[k] = h[k]}
<1>1. \A k \in 0 .. n :
         /\ g[k] = IF k = 0 THEN stock ELSE LineDone(r, g[k - 1], seq[k])
         /\ h[k] = IF k = 0 THEN stock ELSE LineDone(r, h[k - 1], seq[k])
  <2>1. \A k \in 0 .. n : g[k] = IF k = 0 THEN stock ELSE LineDone(r, g[k - 1], seq[k])
    BY Zenon DEF Runs
  <2>2. \A k \in 0 .. n : h[k] = IF k = 0 THEN stock ELSE LineDone(r, h[k - 1], seq[k])
    BY Zenon DEF Runs
  <2> QED BY <2>1, <2>2
<1>2. 0 \in N
  BY <1>1
<1>3. ASSUME NEW k \in Nat, k \in N PROVE k + 1 \in N
  <2> SUFFICES ASSUME k + 1 <= n PROVE g[k + 1] = h[k + 1]
    OBVIOUS
  <2>1. g[k] = h[k]
    BY <1>3
  <2>2. k + 1 \in 0 .. n /\ k + 1 # 0 /\ (k + 1) - 1 = k
    OBVIOUS
  <2> QED BY <1>1, <2>1, <2>2
<1>4. n \in N
  <2> HIDE DEF N
  <2> QED BY <1>2, <1>3, SetInduction
<1> QED BY <1>4

\* One line of the ledger's After, for each of the changes, and the tables it
\* passes through when it takes the lines in the order of seq.
DoneReserve(table, line, pin) ==
    IF Ledger!Sites(line.variant, pin) = {} THEN table
    ELSE [table EXCEPT ![Ledger!Site(table, line.variant, pin)] = Reserve(@, line.units)]
DoneRelease(table, line, pin) ==
    IF Ledger!Sites(line.variant, pin) = {} THEN table
    ELSE [table EXCEPT ![Ledger!Site(table, line.variant, pin)] = Release(@, line.units)]
DoneFulfill(table, line, pin) ==
    IF Ledger!Sites(line.variant, pin) = {} THEN table
    ELSE [table EXCEPT ![Ledger!Site(table, line.variant, pin)] = Fulfill(@, line.units)]

ReserveSteps(g, lines, seq, pin) ==
    g = [k \in 0 .. Len(seq) |-> IF k = 0 THEN stock ELSE DoneReserve(g[k - 1], lines[seq[k]], pin)]
ReleaseSteps(g, lines, seq, pin) ==
    g = [k \in 0 .. Len(seq) |-> IF k = 0 THEN stock ELSE DoneRelease(g[k - 1], lines[seq[k]], pin)]
FulfillSteps(g, lines, seq, pin) ==
    g = [k \in 0 .. Len(seq) |-> IF k = 0 THEN stock ELSE DoneFulfill(g[k - 1], lines[seq[k]], pin)]

LEMMA AfterReserve ==
    ASSUME NEW r \in Requests, Op[r] = "checkout", NEW seq, Len(seq) \in Nat,
           NEW g, Runs(r, seq, g)
    PROVE  Ledger!After(LinesOf(r), seq, Pinned(r), Reserve) = g[Len(seq)]
<1> DEFINE h == CHOOSE x : ReserveSteps(x, LinesOf(r), seq, Pinned(r))
<1>1. Ledger!After(LinesOf(r), seq, Pinned(r), Reserve) = h[Len(seq)]
  BY Zenon DEF Ledger!After, ReserveSteps, DoneReserve
<1>2. \A table, i : DoneReserve(table, LinesOf(r)[i], Pinned(r)) = LineDone(r, table, i)
  BY SitesAllowed, SiteChosen DEF DoneReserve, LineDone, Change
<1>3. \A x : ReserveSteps(x, LinesOf(r), seq, Pinned(r)) <=> Runs(r, seq, x)
  BY <1>2 DEF ReserveSteps, Runs
<1>4. Runs(r, seq, h)
  <2>1. ReserveSteps(g, LinesOf(r), seq, Pinned(r))
    BY <1>3
  <2>2. ReserveSteps(h, LinesOf(r), seq, Pinned(r))
    BY <2>1, Zenon
  <2> QED BY <1>3, <2>2
<1> HIDE DEF h
<1> QED BY <1>1, <1>4, RunsAgree

LEMMA AfterRelease ==
    ASSUME NEW r \in Requests, Op[r] = "cancel", NEW seq, Len(seq) \in Nat,
           NEW g, Runs(r, seq, g)
    PROVE  Ledger!After(LinesOf(r), seq, Pinned(r), Release) = g[Len(seq)]
<1> DEFINE h == CHOOSE x : ReleaseSteps(x, LinesOf(r), seq, Pinned(r))
<1>1. Ledger!After(LinesOf(r), seq, Pinned(r), Release) = h[Len(seq)]
  BY Zenon DEF Ledger!After, ReleaseSteps, DoneRelease
<1>2. \A table, i : DoneRelease(table, LinesOf(r)[i], Pinned(r)) = LineDone(r, table, i)
  BY SitesAllowed, SiteChosen DEF DoneRelease, LineDone, Change
<1>3. \A x : ReleaseSteps(x, LinesOf(r), seq, Pinned(r)) <=> Runs(r, seq, x)
  BY <1>2 DEF ReleaseSteps, Runs
<1>4. Runs(r, seq, h)
  <2>1. ReleaseSteps(g, LinesOf(r), seq, Pinned(r))
    BY <1>3
  <2>2. ReleaseSteps(h, LinesOf(r), seq, Pinned(r))
    BY <2>1, Zenon
  <2> QED BY <1>3, <2>2
<1> HIDE DEF h
<1> QED BY <1>1, <1>4, RunsAgree

LEMMA AfterFulfill ==
    ASSUME NEW r \in Requests, Op[r] = "ship", NEW seq, Len(seq) \in Nat,
           NEW g, Runs(r, seq, g)
    PROVE  Ledger!After(LinesOf(r), seq, Pinned(r), Fulfill) = g[Len(seq)]
<1> DEFINE h == CHOOSE x : FulfillSteps(x, LinesOf(r), seq, Pinned(r))
<1>1. Ledger!After(LinesOf(r), seq, Pinned(r), Fulfill) = h[Len(seq)]
  BY Zenon DEF Ledger!After, FulfillSteps, DoneFulfill
<1>2. \A table, i : DoneFulfill(table, LinesOf(r)[i], Pinned(r)) = LineDone(r, table, i)
  BY SitesAllowed, SiteChosen DEF DoneFulfill, LineDone, Change
<1>3. \A x : FulfillSteps(x, LinesOf(r), seq, Pinned(r)) <=> Runs(r, seq, x)
  BY <1>2 DEF FulfillSteps, Runs
<1>4. Runs(r, seq, h)
  <2>1. FulfillSteps(g, LinesOf(r), seq, Pinned(r))
    BY <1>3
  <2>2. FulfillSteps(h, LinesOf(r), seq, Pinned(r))
    BY <2>1, Zenon
  <2> QED BY <1>3, <2>2
<1> HIDE DEF h
<1> QED BY <1>1, <1>4, RunsAgree

\* With every line done, the lines have run in some order of them all.
LEMMA OperationReplayed ==
    ASSUME TypeInv, LocksInv, ReplaysInv, NEW r \in Requests,
           phase[r] = "locking", tx[r].line = 0
    PROVE  \E seq \in Ledger!Sequences(LinesOf(r)) : \E g :
             Len(seq) \in Nat /\ Runs(r, seq, g) /\ g[Len(seq)] = Result(r)
<1>1. PICK seq, g : Replayed(r, seq, g, Applied(r), stock, Result(r))
  BY DEF ReplaysInv, Replays
<1>2. Applied(r) = DOMAIN LinesOf(r)
  BY DEF LocksInv, Holds, Applied
<1> DEFINE m == Len(LinesOf(r))
           n == Len(seq)
<1>3. m \in Nat /\ DOMAIN LinesOf(r) = 1 .. m
  BY LinesTyped
<1>4. n = m
  <2>1. Cardinality(1 .. m) = m
    <3> HIDE DEF m
    <3>1. Cardinality(1 .. m) = IF 1 > m THEN 0 ELSE m - 1 + 1
      BY <1>3, FS_Interval
    <3> QED BY <1>3, <3>1
  <2> QED BY <1>1, <1>2, <1>3, <2>1 DEF Replayed
<1>5. seq \in [1 .. m -> 1 .. m]
  <2>1. seq \in Seq(1 .. m)
    BY <1>1, <1>2, <1>3 DEF Replayed
  <2> HIDE DEF m
  <2> QED BY <1>4, <2>1
<1>6. seq \in Ledger!Sequences(LinesOf(r))
  <2>1. \A j, k \in 1 .. m : seq[j] = seq[k] => j = k
    BY <1>1, <1>4 DEF Replayed
  <2> HIDE DEF m
  <2> QED BY <1>3, <1>5, <2>1 DEF Ledger!Sequences
<1>7. Runs(r, seq, g)
  <2>1. g \in [0 .. n -> [Rows -> StockRow]]
    BY <1>1 DEF Replayed
  <2>2. n \in Nat
    BY <1>3, <1>4
  <2>3. ASSUME NEW k \in 0 .. n
        PROVE  g[k] = IF k = 0 THEN stock ELSE LineDone(r, g[k - 1], seq[k])
    <3>1. k = 0 \/ k \in 1 .. n
      BY <2>2
    <3> QED BY <1>1, <3>1 DEF Replayed
  <2>4. g = [k \in 0 .. n |-> g[k]]
    BY <2>1
  <2>5. [k \in 0 .. n |-> g[k]] =
          [k \in 0 .. n |-> IF k = 0 THEN stock ELSE LineDone(r, g[k - 1], seq[k])]
    BY <2>3
  <2> QED BY <2>4, <2>5 DEF Runs
<1>8. g[n] = Result(r) /\ n \in Nat
  BY <1>1, <1>3, <1>4 DEF Replayed
<1> QED BY <1>6, <1>7, <1>8
-----------------------------------------------------------------------------
(* Each commit is the ledger's step.                                        *)

AtomicInv ==
    /\ OrderlyCallers /\ OneOrderPerReference
    /\ TypeInv /\ StockInv /\ TablesInv /\ PaidTogether
    /\ SerialInv /\ LocksInv /\ ReadsInv /\ ReplaysInv

LEMMA CommitRuns ==
    ASSUME AtomicInv, NEW r \in Requests, LinesDone(r), Publish(r)
    PROVE  \E seq \in Ledger!Sequences(LinesOf(r)) : \E g :
             Len(seq) \in Nat /\ Runs(r, seq, g) /\ stock' = g[Len(seq)]
BY OperationReplayed DEF AtomicInv, LinesDone, Publish, Result

LEMMA LedgerPlaces ==
    ASSUME AtomicInv, StockInv', NEW r \in Requests, CheckoutCommits(r)
    PROVE  Ledger!Place(r)
<1>1. /\ r \in Orders /\ OrderOf[r] = r /\ Op[r] = "checkout"
      /\ LinesDone(r) /\ phase[r] = "locking" /\ tx[r].line = 0 /\ Publish(r)
  BY RequestAssumption DEF CheckoutCommits, LinesDone, Orders
<1>2. LinesOf(r) = Ledger!LinesOf(r) /\ Pinned(r) = DefaultWarehouse
  BY <1>1 DEF LinesOf, Ledger!LinesOf, Pinned
<1>3. carts[CartOf[r]] = "active" /\ LinesOf(r) # <<>>
  BY <1>1 DEF AtomicInv, ReadsInv, RowsStillAsRead
<1>4. orders[r].status = "absent" /\ orders[r].payment = "pending"
  <2>1. ~Placed(r)
    BY OrderInserted DEF AtomicInv
  <2>2. ASSUME NEW p \in Payments, OrderOf[p] = r, payments[p] = "paid" PROVE FALSE
    BY <2>1, <2>2 DEF AtomicInv, TablesInv
  <2>3. orders[r].payment # "paid"
    BY <1>1, <2>2 DEF AtomicInv, PaidTogether
  <2> QED BY <1>1, <2>1, <2>3 DEF Placed, AtomicInv, TypeInv, TypeOK, OrderRow
<1>5. \A i \in DOMAIN LinesOf(r) :
        LinesOf(r)[i].units > 0 /\ Ledger!Sites(LinesOf(r)[i].variant, DefaultWarehouse) # {}
  <2>1. Holds(r) /\ Applied(r) = DOMAIN LinesOf(r)
    BY <1>1 DEF AtomicInv, LocksInv, Holds, Applied
  <2> QED BY <1>1, <1>2, <2>1, SitesAllowed DEF Holds
<1>6. \E seq \in Ledger!Sequences(LinesOf(r)) :
        stock' = Ledger!After(LinesOf(r), seq, DefaultWarehouse, Reserve)
  <2>1. PICK seq \in Ledger!Sequences(LinesOf(r)) :
          \E g : Len(seq) \in Nat /\ Runs(r, seq, g) /\ stock' = g[Len(seq)]
    BY <1>1, CommitRuns
  <2>2. stock' = Ledger!After(LinesOf(r), seq, DefaultWarehouse, Reserve)
    BY <1>1, <1>2, <2>1, AfterReserve
  <2> QED BY <2>2
<1>7. \A row \in Rows : stock'[row].reserved <= stock'[row].quantity
  BY DEF StockInv, StockWithinBounds
<1>8. orders' = [orders EXCEPT ![r].status = "pending"]
  <2>1. orders' = [orders EXCEPT ![r] = [status |-> "pending", payment |-> "pending"]]
    BY DEF CheckoutCommits
  <2>2. orders \in [Orders -> OrderRow] /\ orders[r] \in OrderRow
    BY <1>1 DEF AtomicInv, TypeInv, TypeOK
  <2>3. [orders[r] EXCEPT !.status = "pending"] = [status |-> "pending", payment |-> "pending"]
    BY <1>4, <2>2 DEF OrderRow
  <2> QED BY <2>1, <2>3
<1>9. carts' = [carts EXCEPT ![CartOf[r]] = "checked_out"] /\ payments' = payments
  BY DEF CheckoutCommits
<1>10. \E seq \in Ledger!Sequences(Ledger!LinesOf(r)) :
         stock' = Ledger!After(Ledger!LinesOf(r), seq, DefaultWarehouse, Ledger!Reserve)
  BY <1>2, <1>6, Zenon DEF Reserve, Ledger!Reserve
<1> QED BY <1>2, <1>3, <1>4, <1>5, <1>7, <1>8, <1>9, <1>10 DEF Ledger!Place

\* What a cancellation or a shipment commits from: the lines of the order, no
\* pinned warehouse, and an order that is still live.
LEMMA LedgerLines ==
    ASSUME AtomicInv, NEW r \in Requests, CancelCommits(r) \/ ShipCommits(r)
    PROVE  /\ OrderOf[r] \in Orders
           /\ LinesOf(r) = Ledger!LinesOf(OrderOf[r]) /\ Pinned(r) = 0
           /\ orders[OrderOf[r]].status \in Ledger!Live
           /\ LinesDone(r) /\ Publish(r)
           /\ UNCHANGED <<carts, payments>>
<1>1. OrderOf[r] \in Orders
  BY RequestAssumption
<1>2. LinesOf(r) = Ledger!LinesOf(OrderOf[r])
  BY DEF LinesOf, Ledger!LinesOf
<1>3. Op[r] \in {"cancel", "ship"} /\ orders[OrderOf[r]].status \in ReservedStatuses
  BY OrderCommitted DEF CancelCommits, ShipCommits, AtomicInv
<1>4. Pinned(r) = 0
  BY <1>3 DEF Pinned, NoWarehouse
<1> QED BY <1>1, <1>2, <1>3, <1>4
        DEF ReservedStatuses, Ledger!Live, CancelCommits, ShipCommits

LEMMA LedgerCancels ==
    ASSUME AtomicInv, NEW r \in Requests, CancelCommits(r)
    PROVE  Ledger!Cancel(OrderOf[r])
<1> DEFINE o == OrderOf[r]
<1>1. Op[r] = "cancel" /\ orders' = [orders EXCEPT ![o].status = "cancelled"]
  BY DEF CancelCommits
<1>2. PICK seq \in Ledger!Sequences(LinesOf(r)) :
        \E g : Len(seq) \in Nat /\ Runs(r, seq, g) /\ stock' = g[Len(seq)]
  BY LedgerLines, CommitRuns
<1>3. stock' = Ledger!After(LinesOf(r), seq, Pinned(r), Release)
  BY <1>1, <1>2, AfterRelease
<1>4. LinesOf(r) = Ledger!LinesOf(o) /\ Pinned(r) = 0
  BY LedgerLines
<1>5. stock' = Ledger!After(Ledger!LinesOf(o), seq, 0, Release)
  BY <1>3, <1>4
<1>6. seq \in Ledger!Sequences(Ledger!LinesOf(o))
  BY <1>2, <1>4
<1>7. \E sq \in Ledger!Sequences(Ledger!LinesOf(o)) :
         stock' = Ledger!After(Ledger!LinesOf(o), sq, 0, Ledger!Release)
  BY <1>5, <1>6, Zenon DEF Release, Ledger!Release, Clamped, Ledger!Clamped
<1> QED BY <1>1, <1>7, LedgerLines DEF Ledger!Cancel

LEMMA LedgerShips ==
    ASSUME AtomicInv, NEW r \in Requests, ShipCommits(r)
    PROVE  Ledger!Ship(OrderOf[r])
<1> DEFINE o == OrderOf[r]
<1>1. Op[r] = "ship"
  BY DEF ShipCommits
<1>2. orders' = [orders EXCEPT ![o].status = "shipped"]
  <2>1. phase[r] = "locking"
    BY DEF ShipCommits, LinesDone
  <2>2. tx[r].seen \in ReservedStatuses
    BY <1>1, <2>1 DEF AtomicInv, SerialInv, StillAsRead
  <2> QED BY <2>2 DEF ShipCommits, ReservedStatuses
<1>3. PICK seq \in Ledger!Sequences(LinesOf(r)) :
        \E g : Len(seq) \in Nat /\ Runs(r, seq, g) /\ stock' = g[Len(seq)]
  BY LedgerLines, CommitRuns
<1>4. stock' = Ledger!After(LinesOf(r), seq, Pinned(r), Fulfill)
  BY <1>1, <1>3, AfterFulfill
<1>5. LinesOf(r) = Ledger!LinesOf(o) /\ Pinned(r) = 0
  BY LedgerLines
<1>6. stock' = Ledger!After(Ledger!LinesOf(o), seq, 0, Fulfill)
  BY <1>4, <1>5
<1>7. seq \in Ledger!Sequences(Ledger!LinesOf(o))
  BY <1>3, <1>5
<1>8. \E sq \in Ledger!Sequences(Ledger!LinesOf(o)) :
         stock' = Ledger!After(Ledger!LinesOf(o), sq, 0, Ledger!Fulfill)
  BY <1>6, <1>7, Zenon DEF Fulfill, Ledger!Fulfill, Clamped, Ledger!Clamped
<1> QED BY <1>2, <1>8, LedgerLines DEF Ledger!Ship

LEMMA LedgerRecords ==
    ASSUME AtomicInv, NEW r \in Requests, PayCommits(r)
    PROVE  r \in Payments /\ Ledger!RecordPayment(r)
<1>1. /\ r \in Payments /\ phase[r] = "inserting" /\ Placed(OrderOf[r])
      /\ payments' = [payments EXCEPT ![r] = "pending"]
      /\ stock' = stock /\ carts' = carts /\ orders' = orders
  BY PaymentInserted DEF AtomicInv, PayCommits
<1>2. \A q \in Payments : RefOf[q] = RefOf[r] => payments[q] = "absent"
  BY <1>1 DEF AtomicInv, ReadsInv, RowsStillAsRead, Matching
<1> QED BY <1>1, <1>2 DEF Ledger!RecordPayment, Placed

LEMMA LedgerConfirms ==
    ASSUME AtomicInv, NEW r \in Requests, ConfirmCommits(r)
    PROVE  tx[r].target \in Payments /\ Ledger!ConfirmPayment(tx[r].target)
<1> DEFINE p == tx[r].target
           o == OrderOf[p]
<1>1. phase[r] = "confirming" /\ UNCHANGED <<stock, carts>>
  BY DEF ConfirmCommits
<1>2. p \in Payments /\ payments[p] = "pending" /\ tx[r].seen = orders[o].status
  BY <1>1 DEF AtomicInv, TypeInv, HandlerOK, ReadsInv, RowsStillAsRead, SerialInv, StillAsRead
<1>3. /\ payments' = [payments EXCEPT ![p] = "paid"]
      /\ orders' = [orders EXCEPT ![o] =
            [status |-> IF orders[o].status = "pending" THEN "confirmed" ELSE orders[o].status,
             payment |-> "paid"]]
  BY <1>2 DEF ConfirmCommits
<1> HIDE DEF p
<1> QED BY <1>1, <1>2, <1>3 DEF Ledger!ConfirmPayment, p

LEMMA AtomicInit == Init /\ OrderlyCallers /\ OneOrderPerReference => AtomicInv
<1> SUFFICES ASSUME Init, OrderlyCallers, OneOrderPerReference PROVE AtomicInv
  OBVIOUS
<1>1. /\ \A r \in Requests : phase[r] = "idle" /\ "idle" \notin Running
      /\ \A row \in Rows : \A r \in Requests : rowLock[row] # r
      /\ \A o \in Orders : orders[o].status = "absent"
  BY RequestAssumption DEF Init, Running, NoOrderRow
<1>2. SerialInv
  BY <1>1 DEF SerialInv, Apart, StillAsRead
<1>3. LocksInv
  BY <1>1 DEF LocksInv, Holds, AtLine, Placed
<1>4. ReadsInv
  BY <1>1 DEF ReadsInv, RowsStillAsRead
<1>5. ReplaysInv
  BY <1>1 DEF ReplaysInv, Replays
<1>6. PaidTogether
  BY DEF Init, PaidTogether, NoOrderRow
<1> QED BY <1>2, <1>3, <1>4, <1>5, <1>6, InitTyped, StockInit, TablesInit DEF AtomicInv

LEMMA AtomicKept == AtomicInv /\ PaidTogether' /\ [Next]_vars => AtomicInv'
<1> SUFFICES ASSUME AtomicInv, PaidTogether', [Next]_vars PROVE AtomicInv'
  OBVIOUS
<1>1. TypeInv' /\ StockInv' /\ TablesInv'
  BY StepTyped, StockKept, TablesStep DEF AtomicInv
<1>2. SerialInv' /\ LocksInv' /\ ReadsInv' /\ ReplaysInv'
  BY <1>1, SerialStep, LocksStep, ReadsStep, ReplaysStep DEF AtomicInv
<1>3. OneOrderPerReference'
  BY DEF AtomicInv, OneOrderPerReference, Payments
<1> QED BY <1>1, <1>2, <1>3 DEF AtomicInv

\* A commit is a step of the ledger and every other step leaves the ledger as
\* it is: reading, locking, changing the rows in memory, rolling back.
LEMMA LedgerStep ==
    AtomicInv /\ StockInv' /\ [Next]_vars => [Ledger!Next]_(Ledger!ledger)
<1> SUFFICES ASSUME AtomicInv, StockInv', [Next]_vars
             PROVE  Ledger!Next \/ UNCHANGED <<stock, carts, orders, payments>>
  BY DEF Ledger!ledger
<1>1. CASE UNCHANGED tables
  BY <1>1 DEF tables
<1>2. ASSUME NEW r \in Requests, CheckoutCommits(r) PROVE Ledger!Next
  <2>1. r \in Orders
    BY <1>2 DEF CheckoutCommits, Orders
  <2> QED BY <1>2, <2>1, LedgerPlaces DEF Ledger!Next
<1>3. ASSUME NEW r \in Requests, CancelCommits(r) PROVE Ledger!Next
  BY <1>3, LedgerCancels, LedgerLines DEF Ledger!Next
<1>4. ASSUME NEW r \in Requests, ShipCommits(r) PROVE Ledger!Next
  BY <1>4, LedgerShips, LedgerLines DEF Ledger!Next
<1>5. ASSUME NEW r \in Requests, PayCommits(r) PROVE Ledger!Next
  BY <1>5, LedgerRecords DEF Ledger!Next
<1>6. ASSUME NEW r \in Requests, ConfirmCommits(r) PROVE Ledger!Next
  BY <1>6, LedgerConfirms DEF Ledger!Next
<1> QED BY <1>1, <1>2, <1>3, <1>4, <1>5, <1>6, QuietStep DEF
      CheckoutStarts, CancelStarts, ShipStarts, StartLines, PayReads, ConfirmReads,
      LockRow, ApplyLine, ConfirmReadsOrder

\* checkout, cancel_order, record_shipment, record_payment and confirm_payment,
\* whatever their interleaving and whatever crashes: to whoever reads the
\* tables each is one step that handles all lines of the order one after the
\* other, on the rows as they are at its commit.  For callers that do not
\* overlap requests on one order, with payment references of their own.
THEOREM OperationsAreAtomic ==
    ASSUME OrderlyCallers, OneOrderPerReference
    PROVE  Spec => AtomicOperations
<1>1. Init => AtomicInv /\ Ledger!Init
  BY AtomicInit DEF Init, Ledger!Init, NoOrderRow
<1>2. AtomicInv /\ PaidTogether' /\ [Next]_vars => AtomicInv' /\ [Ledger!Next]_(Ledger!ledger)
  <2>1. AtomicInv /\ PaidTogether' /\ [Next]_vars => AtomicInv'
    BY AtomicKept
  <2>2. AtomicInv /\ AtomicInv' /\ [Next]_vars => [Ledger!Next]_(Ledger!ledger)
    BY LedgerStep DEF AtomicInv
  <2> QED BY <2>1, <2>2
<1> QED BY <1>1, <1>2, OrdersAndPaymentsAgree, PTL DEF Spec, AtomicOperations, Ledger!Spec
-----------------------------------------------------------------------------
\* The warehouse of a variant is settled.
OneWarehouse == \A a, b \in Rows : a[1] = b[1] => a = b

\* The units of variant v on each line, and on the lines done so far.
UnitsOf(o, v) ==
    [i \in DOMAIN LinesOf(o) |-> IF LinesOf(o)[i].variant = v THEN LinesOf(o)[i].units ELSE 0]
AppliedUnits(r, v) == SumFunctionOnSet(UnitsOf(r, v), Applied(r))

\* What a transaction will write back for a row differs from the committed row
\* by the units of the lines done so far.
DraftAccounts(r, row) ==
    LET mine == draft[r][row]
        committed == stock[row]
        units == AppliedUnits(r, row[1])
    IN  /\ Op[r] \in {"checkout", "cancel"} => mine.quantity = committed.quantity
        /\ Op[r] = "ship" => mine.quantity = committed.quantity - units
        /\ Op[r] = "checkout" => mine.reserved = committed.reserved + units
        /\ Op[r] \in {"cancel", "ship"} => mine.reserved = committed.reserved - units

DraftsInv ==
    \A r \in Requests : \A row \in Rows : rowLock[row] = r => DraftAccounts(r, row)

\* Every row is the initial one, with what live orders reserve and less what
\* was shipped.
RowsInv ==
    \A row \in Rows :
        /\ stock[row].reserved = InitialStock[row].reserved
                                 + OrderedBy(WithStatus(ReservedStatuses), row[1])
        /\ stock[row].quantity = InitialStock[row].quantity
                                 - OrderedBy(WithStatus({"shipped"}), row[1])

BooksInv == OrderlyCallers /\ OneWarehouse /\ SerialInv /\ LocksInv /\ DraftsInv /\ RowsInv
-----------------------------------------------------------------------------
(* Counting the units of an order.                                         *)

LEMMA UnitsTyped ==
    ASSUME NEW r \in Requests, NEW v
    PROVE  /\ IsFiniteSet(DOMAIN LinesOf(r))
           /\ \A i \in DOMAIN LinesOf(r) : UnitsOf(r, v)[i] \in Nat
           /\ UnitsOrdered(r, v) = SumFunctionOnSet(UnitsOf(r, v), DOMAIN LinesOf(r))
           /\ UnitsOrdered(r, v) \in Nat
<1> DEFINE lineType == [variant : Variants, units : Nat]
           lines == LinesOf(r)
<1>1. lines \in Seq(lineType)
  BY LinesTyped
<1>2. IsFiniteSet(DOMAIN lines) /\ \A i \in DOMAIN lines : lines[i] \in lineType
  <2> HIDE DEF lineType, lines
  <2>1. Len(lines) \in Nat /\ DOMAIN lines = 1 .. Len(lines)
    BY <1>1
  <2>2. IsFiniteSet(1 .. Len(lines))
    BY <2>1, FS_Interval
  <2> QED BY <1>1, <2>1, <2>2
<1>3. \A i \in DOMAIN LinesOf(r) : UnitsOf(r, v)[i] \in Nat
  BY <1>2 DEF UnitsOf
<1>4. UnitsOrdered(r, v) = SumFunctionOnSet(UnitsOf(r, v), DOMAIN UnitsOf(r, v))
  BY Zenon DEF UnitsOrdered, UnitsOf, SumFunction
<1>5. DOMAIN UnitsOf(r, v) = DOMAIN LinesOf(r)
  BY DEF UnitsOf
<1>6. SumFunctionOnSet(UnitsOf(r, v), DOMAIN LinesOf(r)) \in Nat
  BY <1>2, <1>3, SumType
<1> QED BY <1>2, <1>3, <1>4, <1>5, <1>6

\* The units done so far, and with all lines done.
LEMMA AppliedTyped ==
    ASSUME NEW r \in Requests, NEW v
    PROVE  /\ IsFiniteSet(Applied(r))
           /\ AppliedUnits(r, v) \in Nat
           /\ AppliedUnits(r, v) <= UnitsOrdered(r, v)
           /\ tx[r].left = {} => AppliedUnits(r, v) = UnitsOrdered(r, v)
           /\ (\A i \in Applied(r) : LinesOf(r)[i].variant # v) => AppliedUnits(r, v) = 0
<1>1. Applied(r) \subseteq DOMAIN LinesOf(r)
  BY DEF Applied
<1>2. IsFiniteSet(Applied(r))
  BY <1>1, UnitsTyped, FS_Subset
<1>3. \A i \in Applied(r) : UnitsOf(r, v)[i] \in Nat
  BY <1>1, UnitsTyped
<1>4. AppliedUnits(r, v) \in Nat
  BY <1>2, <1>3, SumType DEF AppliedUnits
<1>5. AppliedUnits(r, v) <= UnitsOrdered(r, v)
  BY <1>1, UnitsTyped, SumBounds DEF AppliedUnits
<1>6. tx[r].left = {} => AppliedUnits(r, v) = UnitsOrdered(r, v)
  BY UnitsTyped DEF AppliedUnits, Applied
<1>7. ASSUME \A i \in Applied(r) : LinesOf(r)[i].variant # v
      PROVE  AppliedUnits(r, v) = 0
  <2>1. \A i \in Applied(r) : UnitsOf(r, v)[i] = 0
    BY <1>1, <1>7 DEF UnitsOf
  <2> QED BY <1>2, <2>1, SumZero DEF AppliedUnits
<1> QED BY <1>2, <1>4, <1>5, <1>6, <1>7

UnitsByOrder(v) == [o \in Orders |-> UnitsOrdered(o, v)]

LEMMA OrderedBySum ==
    ASSUME NEW os \in SUBSET Orders, NEW v
    PROVE  /\ IsFiniteSet(os)
           /\ \A o \in os : UnitsByOrder(v)[o] = UnitsOrdered(o, v) /\ UnitsOrdered(o, v) \in Nat
           /\ OrderedBy(os, v) = SumFunctionOnSet(UnitsByOrder(v), os)
           /\ OrderedBy(os, v) \in Nat
<1>1. IsFiniteSet(os)
  BY RequestAssumption, FS_Subset DEF Orders
<1>2. \A o \in os : UnitsByOrder(v)[o] = UnitsOrdered(o, v) /\ UnitsOrdered(o, v) \in Nat
  BY UnitsTyped DEF UnitsByOrder, Orders
<1> DEFINE f == [o \in os |-> UnitsOrdered(o, v)]
<1>3. OrderedBy(os, v) = SumFunctionOnSet(f, DOMAIN f)
  BY Zenon DEF OrderedBy, SumFunction
<1>4. DOMAIN f = os /\ \A o \in os : f[o] = UnitsByOrder(v)[o]
  BY <1>2
<1> HIDE DEF f
<1>5. OrderedBy(os, v) = SumFunctionOnSet(UnitsByOrder(v), os)
  BY <1>1, <1>3, <1>4, SumSame
<1>6. SumFunctionOnSet(UnitsByOrder(v), os) \in Nat
  BY <1>1, <1>2, SumType
<1> QED BY <1>1, <1>2, <1>5, <1>6

\* One order more, or one order less.
LEMMA OrderedByRemove ==
    ASSUME NEW os \in SUBSET Orders, NEW o \in os, NEW v
    PROVE  /\ OrderedBy(os, v) = OrderedBy(os \ {o}, v) + UnitsOrdered(o, v)
           /\ UnitsOrdered(o, v) <= OrderedBy(os, v)
<1>1. os \ {o} \in SUBSET Orders
  OBVIOUS
<1>2. \A x \in os : UnitsByOrder(v)[x] \in Int
  BY OrderedBySum
<1>3. SumFunctionOnSet(UnitsByOrder(v), os)
        = UnitsByOrder(v)[o] + SumFunctionOnSet(UnitsByOrder(v), os \ {o})
  BY <1>2, OrderedBySum, SumRemove
<1>4. /\ OrderedBy(os, v) = SumFunctionOnSet(UnitsByOrder(v), os)
      /\ UnitsByOrder(v)[o] = UnitsOrdered(o, v) /\ UnitsOrdered(o, v) \in Nat
  BY OrderedBySum
<1>5. /\ OrderedBy(os \ {o}, v) = SumFunctionOnSet(UnitsByOrder(v), os \ {o})
      /\ OrderedBy(os \ {o}, v) \in Nat
  BY <1>1, OrderedBySum
<1> QED BY <1>3, <1>4, <1>5

LEMMA OrderedByAdd ==
    ASSUME NEW os \in SUBSET Orders, NEW o \in Orders, o \notin os, NEW v
    PROVE  OrderedBy(os \cup {o}, v) = OrderedBy(os, v) + UnitsOrdered(o, v)
<1>1. os \cup {o} \in SUBSET Orders /\ o \in os \cup {o} /\ (os \cup {o}) \ {o} = os
  OBVIOUS
<1> QED BY <1>1, OrderedByRemove
-----------------------------------------------------------------------------
(* Drafts.                                                                 *)

\* A request holds the row of every line it has done.
LEMMA AppliedRows ==
    ASSUME TypeInv, OneWarehouse, LocksInv, NEW r \in Requests, phase[r] = "locking",
           NEW row \in Rows, rowLock[row] # r
    PROVE  \A i \in Applied(r) : LinesOf(r)[i].variant # row[1]
<1> SUFFICES ASSUME NEW i \in Applied(r), LinesOf(r)[i].variant = row[1] PROVE FALSE
  OBVIOUS
<1>1. row \in Variants \X Warehouses
  BY StockAssumption
<1>2. row = <<row[1], row[2]>> /\ row[2] \in Warehouses
  BY <1>1
<1>3. row[2] \in Allowed(r, row[1])
  <2>1. CASE Op[r] = "checkout"
    <3>1. PICK w \in Allowed(r, row[1]) : TRUE
      BY <2>1 DEF LocksInv, Holds
    <3>2. <<row[1], w>> \in Rows /\ <<row[1], w>>[1] = row[1]
      BY <3>1 DEF Allowed
    <3>3. <<row[1], w>> = row
      BY <3>2 DEF OneWarehouse
    <3> QED BY <1>2, <3>1, <3>3
  <2>2. CASE Op[r] # "checkout"
    BY <1>2, <2>2 DEF Allowed, Pinned
  <2> QED BY <2>1, <2>2
<1>4. rowLock[<<row[1], row[2]>>] = r
  BY <1>3 DEF LocksInv, Holds
<1> QED BY <1>2, <1>4

\* When the rows of a line have been locked, the row of its variant is among
\* them and is the one the line is applied to.
LEMMA OneRowChosen ==
    ASSUME TypeInv, OneWarehouse, LocksInv, NEW r \in Requests,
           AtLine(r), ToLock(r) = {}, LinePossible(r)
    PROVE  /\ Matched(r) # {} => \E row \in Rows : row[1] = LineOf(r).variant
           /\ \A row \in Rows : row[1] = LineOf(r).variant =>
                 rowLock[row] = r /\ Matched(r) # {} /\ ChosenRow(r) = row
           /\ Op[r] = "checkout" => Matched(r) # {}
<1> DEFINE v == LineOf(r).variant
<1>1. \A w \in Matched(r) : w \in Nat /\ <<v, w>> \in Rows
  BY StockAssumption DEF Matched
<1>2. Op[r] = "checkout" => Matched(r) # {}
  BY DEF LinePossible
<1>3. ASSUME NEW row \in Rows, row[1] = v
      PROVE  rowLock[row] = r /\ Matched(r) # {} /\ ChosenRow(r) = row
  <2>1. row \in Variants \X Warehouses
    BY StockAssumption
  <2>2. row = <<v, row[2]>> /\ row[2] \in Warehouses
    BY <1>3, <2>1
  <2>3. row[2] \in Matched(r)
    <3>1. CASE Op[r] = "checkout"
      <4>1. PICK w \in Matched(r) : TRUE
        BY <1>2, <3>1
      <4>2. <<v, w>> = row
        BY <1>1, <1>3, <4>1 DEF OneWarehouse
      <4> QED BY <2>2, <4>1, <4>2
    <3>2. CASE Op[r] # "checkout"
      BY <2>2, <3>2 DEF Matched, Pinned
    <3> QED BY <3>1, <3>2
  <2>4. Matched(r) = {row[2]}
    <3>1. ASSUME NEW w \in Matched(r) PROVE w = row[2]
      <4>1. <<v, w>> = row
        BY <1>1, <1>3, <3>1 DEF OneWarehouse
      <4> QED BY <2>2, <4>1
    <3> QED BY <2>3, <3>1
  <2>5. row[2] <= tx[r].scanned
    <3>1. ~(row[2] > tx[r].scanned)
      BY <2>3 DEF ToLock
    <3>2. row[2] \in Nat /\ tx[r].scanned \in Nat
      BY <1>1, <2>3 DEF TypeInv, TypeOK, Handler
    <3> QED BY <3>1, <3>2
  <2>6. rowLock[<<v, row[2]>>] = r
    BY <2>3, <2>5 DEF LocksInv, Holds
  <2>7. ChosenRow(r) = row
    <3> DEFINE avail == [w \in Matched(r) |-> Available(draft[r][<<LineOf(r).variant, w>>])]
    <3>1. MostAvailable(avail, {row[2]}) = row[2]
      <4>1. row[2] \in Nat
        BY <2>2, StockAssumption
      <4>2. row[2] <= row[2]
        BY <4>1
      <4> HIDE DEF avail
      <4> QED BY <4>2 DEF MostAvailable
    <3>2. ChosenRow(r) = <<v, MostAvailable(avail, Matched(r))>>
      BY DEF ChosenRow
    <3> HIDE DEF avail
    <3> QED BY <2>2, <2>4, <3>1, <3>2
  <2> QED BY <2>2, <2>3, <2>6, <2>7
<1>4. Matched(r) # {} => \E row \in Rows : row[1] = v
  <2>1. ASSUME NEW w \in Matched(r) PROVE \E row \in Rows : row[1] = v
    <3>1. <<v, w>> \in Rows /\ <<v, w>>[1] = v
      BY <1>1
    <3> QED BY <3>1
  <2> QED BY <2>1
<1> QED BY <1>2, <1>3, <1>4

\* The line just finished is added to the units done.
LEMMA AppliedMore ==
    ASSUME TypeInv, NEW r \in Requests, NEW v, ApplyLine(r)
    PROVE  /\ AppliedUnits(r, v)' = AppliedUnits(r, v) + UnitsOf(r, v)[tx[r].line]
           /\ UnitsOf(r, v)[tx[r].line] \in Nat
           /\ AppliedUnits(r, v)' <= UnitsOrdered(r, v)
<1> DEFINE line == tx[r].line
           after == Applied(r) \cup {line}
           f == UnitsOf(r, v)
<1>1. /\ line \in DOMAIN LinesOf(r) /\ line \in tx[r].left
      /\ Applied(r)' = after
  BY LineFinished
<1>2. AppliedUnits(r, v)' = SumFunctionOnSet(f, after)
  BY <1>1 DEF AppliedUnits, UnitsOf, LinesOf
<1>3. after \subseteq DOMAIN LinesOf(r) /\ line \in after /\ after \ {line} = Applied(r)
  BY <1>1 DEF Applied
<1>4. AppliedUnits(r, v) = SumFunctionOnSet(f, Applied(r)) /\ AppliedUnits(r, v) \in Nat
  BY AppliedTyped DEF AppliedUnits
<1>5. IsFiniteSet(DOMAIN LinesOf(r)) /\ \A i \in DOMAIN LinesOf(r) : f[i] \in Nat
  BY UnitsTyped
<1>6. UnitsOrdered(r, v) = SumFunctionOnSet(f, DOMAIN LinesOf(r))
  BY UnitsTyped
<1> HIDE DEF line, after, f
<1>7. IsFiniteSet(after) /\ f[line] \in Nat /\ \A i \in after : f[i] \in Int
  BY <1>1, <1>3, <1>5, FS_Subset
<1>8. SumFunctionOnSet(f, after) = f[line] + SumFunctionOnSet(f, after \ {line})
  BY <1>3, <1>7, SumRemove
<1>9. SumFunctionOnSet(f, after) <= SumFunctionOnSet(f, DOMAIN LinesOf(r))
  BY <1>3, <1>5, SumBounds
<1>10. AppliedUnits(r, v)' = AppliedUnits(r, v) + f[line]
  <2>1. SumFunctionOnSet(f, after \ {line}) = AppliedUnits(r, v)
    BY <1>3, <1>4
  <2>2. AppliedUnits(r, v)' = f[line] + AppliedUnits(r, v)
    BY <1>2, <1>8, <2>1
  <2> QED BY <1>4, <1>7, <2>2
<1> QED BY <1>2, <1>6, <1>7, <1>9, <1>10 DEF f, line

\* There is enough left to take every line of a live order off its row.
LEMMA EnoughLeft ==
    ASSUME TypeInv, StockInv, SerialInv, RowsInv, NEW r \in Requests, NEW row \in Rows,
           phase[r] = "locking", Op[r] \in {"cancel", "ship"}
    PROVE  /\ UnitsOrdered(r, row[1]) <= stock[row].reserved
           /\ UnitsOrdered(r, row[1]) <= stock[row].quantity
<1> DEFINE o == OrderOf[r]
           v == row[1]
           os == WithStatus(ReservedStatuses)
<1>1. o \in Orders /\ UnitsOrdered(r, v) = UnitsOrdered(o, v)
  BY SameLines
<1>2. o \in os /\ os \in SUBSET Orders
  BY <1>1 DEF SerialInv, StillAsRead, WithStatus
<1>3. stock[row].reserved = InitialStock[row].reserved + OrderedBy(os, v)
  BY DEF RowsInv
<1>4. stock[row].reserved <= stock[row].quantity
  BY DEF StockInv, StockWithinBounds
<1>5. /\ stock[row].reserved \in Nat /\ stock[row].quantity \in Nat
      /\ InitialStock[row].reserved \in Nat
  BY StockAssumption DEF TypeInv, TypeOK, StockRow
<1> HIDE DEF o, v, os
<1>6. UnitsOrdered(o, v) <= OrderedBy(os, v)
  BY <1>2, OrderedByRemove
<1>7. OrderedBy(os, v) \in Nat
  BY <1>2, OrderedBySum
<1>8. UnitsOrdered(o, v) \in Nat
  BY <1>1, UnitsTyped DEF Orders
<1>9. UnitsOrdered(r, v) <= stock[row].reserved
  BY <1>1, <1>3, <1>5, <1>6, <1>7, <1>8
<1>10. UnitsOrdered(r, v) <= stock[row].quantity
  BY <1>1, <1>4, <1>5, <1>8, <1>9
<1> QED BY <1>9, <1>10 DEF v

\* The arithmetic of a line, when nothing is clamped.
LEMMA ReserveExact ==
    ASSUME NEW row \in StockRow, NEW n \in Nat
    PROVE  /\ Reserve(row, n).quantity = row.quantity
           /\ Reserve(row, n).reserved = row.reserved + n
BY DEF Reserve, StockRow

LEMMA ReleaseExact ==
    ASSUME NEW row \in StockRow, NEW n \in Nat, n <= row.reserved
    PROVE  /\ Release(row, n).quantity = row.quantity
           /\ Release(row, n).reserved = row.reserved - n
BY DEF Release, Clamped, StockRow

LEMMA FulfillExact ==
    ASSUME NEW row \in StockRow, NEW n \in Nat, n <= row.reserved, n <= row.quantity
    PROVE  /\ Fulfill(row, n).quantity = row.quantity - n
           /\ Fulfill(row, n).reserved = row.reserved - n
BY DEF Fulfill, Clamped, StockRow

LEMMA ApplyLineAccounts ==
    ASSUME TypeInv, StockInv, SerialInv, LocksInv, DraftsInv, RowsInv, OneWarehouse,
           NEW r \in Requests, NEW row \in Rows, ApplyLine(r), rowLock[row] = r
    PROVE  DraftAccounts(r, row)'
<1> DEFINE v == row[1]
           n == UnitsOf(r, v)[tx[r].line]
           done == AppliedUnits(r, v)
           mine == draft[r][row]
           next == draft'[r][row]
           committed == stock[row]
<1>1. /\ AtLine(r) /\ ToLock(r) = {} /\ LinePossible(r) /\ phase[r] = "locking"
      /\ stock' = stock
  BY DEF ApplyLine, AtLine, tables
<1>2. /\ AppliedUnits(r, v)' = done + n /\ n \in Nat /\ done \in Nat
      /\ done + n <= UnitsOrdered(r, v)
  BY AppliedMore, AppliedTyped
<1>3. mine \in StockRow /\ committed \in StockRow
  BY DEF TypeInv, TypeOK
<1>4. DraftAccounts(r, row)
  BY DEF DraftsInv
<1>5. n = IF LineOf(r).variant = v THEN LineOf(r).units ELSE 0
  BY LineFinished DEF UnitsOf, LineOf
<1>6. Op[r] \in {"cancel", "ship"} =>
        UnitsOrdered(r, v) <= committed.reserved /\ UnitsOrdered(r, v) <= committed.quantity
  BY <1>1, EnoughLeft
<1>7. Op[r] \in {"checkout", "cancel", "ship"}
  BY <1>1 DEF TypeInv, HandlerOK, Locking
<1>8. /\ mine.quantity \in Nat /\ mine.reserved \in Nat
      /\ committed.quantity \in Nat /\ committed.reserved \in Nat
      /\ UnitsOrdered(r, v) \in Nat
  BY <1>3, UnitsTyped DEF StockRow
<1>9. DraftAccounts(r, row) <=>
        /\ Op[r] \in {"checkout", "cancel"} => mine.quantity = committed.quantity
        /\ Op[r] = "ship" => mine.quantity = committed.quantity - done
        /\ Op[r] = "checkout" => mine.reserved = committed.reserved + done
        /\ Op[r] \in {"cancel", "ship"} => mine.reserved = committed.reserved - done
  BY DEF DraftAccounts
<1>10. DraftAccounts(r, row)' <=>
        /\ Op[r] \in {"checkout", "cancel"} => next.quantity = committed.quantity
        /\ Op[r] = "ship" => next.quantity = committed.quantity - (done + n)
        /\ Op[r] = "checkout" => next.reserved = committed.reserved + (done + n)
        /\ Op[r] \in {"cancel", "ship"} => next.reserved = committed.reserved - (done + n)
  BY <1>1, <1>2 DEF DraftAccounts
<1>11. CASE LineOf(r).variant = v
  <2>1. ChosenRow(r) = row /\ Matched(r) # {}
    BY <1>1, <1>11, OneRowChosen
  <2>2. draft' = [draft EXCEPT ![r][ChosenRow(r)] = Changed(r)]
    BY <2>1 DEF ApplyLine
  <2>3. next = Changed(r)
    BY <2>1, <2>2 DEF TypeInv, TypeOK
  <2>4. n = LineOf(r).units
    BY <1>5, <1>11
  <2>5. /\ Op[r] = "checkout" => Changed(r) = Reserve(mine, n)
        /\ Op[r] = "cancel" => Changed(r) = Release(mine, n)
        /\ Op[r] = "ship" => Changed(r) = Fulfill(mine, n)
    BY <2>1, <2>4 DEF Changed
  <2> HIDE DEF v, n, done, mine, next, committed
  <2>6. CASE Op[r] = "checkout"
    <3>1. next.quantity = mine.quantity /\ next.reserved = mine.reserved + n
      BY <1>2, <1>3, <2>3, <2>5, <2>6, ReserveExact
    <3> QED BY <1>2, <1>4, <1>8, <1>9, <1>10, <2>6, <3>1
  <2>7. CASE Op[r] = "cancel"
    <3>1. n <= mine.reserved
      BY <1>2, <1>4, <1>6, <1>8, <1>9, <2>7
    <3>2. next.quantity = mine.quantity /\ next.reserved = mine.reserved - n
      BY <1>2, <1>3, <2>3, <2>5, <2>7, <3>1, ReleaseExact
    <3> QED BY <1>2, <1>4, <1>8, <1>9, <1>10, <2>7, <3>2
  <2>8. CASE Op[r] = "ship"
    <3>1. n <= mine.reserved /\ n <= mine.quantity
      BY <1>2, <1>4, <1>6, <1>8, <1>9, <2>8
    <3>2. next.quantity = mine.quantity - n /\ next.reserved = mine.reserved - n
      BY <1>2, <1>3, <2>3, <2>5, <2>8, <3>1, FulfillExact
    <3> QED BY <1>2, <1>4, <1>8, <1>9, <1>10, <2>8, <3>2
  <2> QED BY <1>7, <2>6, <2>7, <2>8
<1>12. CASE LineOf(r).variant # v
  <2>1. n = 0
    BY <1>5, <1>12
  <2>2. ChosenRow(r) # row
    <3>1. ChosenRow(r)[1] = LineOf(r).variant
      BY DEF ChosenRow
    <3> QED BY <1>12, <3>1
  <2>3. next = mine
    BY <2>2, ApplyLineDraft
  <2> HIDE DEF v, n, done, mine, next, committed
  <2> QED BY <1>2, <1>4, <1>8, <1>9, <1>10, <2>1, <2>3
<1> QED BY <1>11, <1>12

\* Nothing is done to a draft while neither it nor its row nor the lines left
\* change.
LEMMA SameUnits ==
    ASSUME NEW r \in Requests, NEW v, tx'[r].left = tx[r].left
    PROVE  AppliedUnits(r, v)' = AppliedUnits(r, v)
BY DEF AppliedUnits, Applied, UnitsOf, LinesOf

LEMMA AccountsKept ==
    ASSUME NEW r \in Requests, NEW row \in Rows, DraftAccounts(r, row),
           draft'[r][row] = draft[r][row], stock'[row] = stock[row],
           tx'[r].left = tx[r].left
    PROVE  DraftAccounts(r, row)'
BY SameUnits DEF DraftAccounts

LEMMA LockRowAccounts ==
    ASSUME TypeInv, OneWarehouse, LocksInv, DraftsInv, NEW r \in Requests, LockRow(r)
    PROVE  DraftsInv'
<1> SUFFICES ASSUME NEW s \in Requests, NEW row \in Rows, rowLock'[row] = s
             PROVE  DraftAccounts(s, row)'
  BY DEF DraftsInv
<1> DEFINE next == NextRow(r)
<1>1. AtLine(r) /\ next \in Rows /\ phase[r] = "locking"
  BY NextRowTyped DEF LockRow, AtLine
<1>2. /\ rowLock' = [rowLock EXCEPT ![next] = r]
      /\ draft' = IF rowLock[next] = r THEN draft ELSE [draft EXCEPT ![r][next] = stock[next]]
      /\ tx' = [tx EXCEPT ![r].scanned = next[2]]
      /\ stock' = stock
  BY DEF LockRow, tables
<1> HIDE DEF next
<1>3. tx'[s].left = tx[s].left
  BY <1>2 DEF TypeInv, TypeOK, Handler
<1>4. rowLock'[row] = IF row = next THEN r ELSE rowLock[row]
  BY <1>1, <1>2 DEF TypeInv, TypeOK
<1>5. draft'[s][row] = IF row = next /\ s = r /\ rowLock[next] # r THEN stock[row]
                       ELSE draft[s][row]
  BY <1>1, <1>2 DEF TypeInv, TypeOK
<1>6. CASE rowLock[row] = s
  <2>1. draft'[s][row] = draft[s][row]
    BY <1>5, <1>6
  <2> QED BY <1>2, <1>3, <1>6, <2>1, AccountsKept DEF DraftsInv
<1>7. CASE rowLock[row] # s
  <2>1. s = r /\ draft'[s][row] = stock[row]
    BY <1>4, <1>5, <1>7
  <2>2. \A i \in Applied(r) : LinesOf(r)[i].variant # row[1]
    BY <1>1, <1>7, <2>1, AppliedRows
  <2>3. AppliedUnits(r, row[1])' = 0
    BY <1>3, <2>1, <2>2, AppliedTyped, SameUnits
  <2>4. stock[row].quantity \in Nat /\ stock[row].reserved \in Nat
    BY DEF TypeInv, TypeOK, StockRow
  <2> QED BY <1>2, <2>1, <2>3, <2>4 DEF DraftAccounts
<1> QED BY <1>6, <1>7

LEMMA DraftsStep ==
    TypeInv /\ StockInv /\ TablesInv /\ BooksInv /\ [Next]_vars => DraftsInv'
<1> SUFFICES ASSUME TypeInv, StockInv, OneWarehouse, SerialInv, LocksInv, DraftsInv, RowsInv,
                    [Next]_vars
             PROVE  DraftsInv'
  BY DEF BooksInv
<1>1. ASSUME UNCHANGED <<stock, draft, rowLock>>,
             \A s \in Requests : phase[s] = "locking" => tx'[s].left = tx[s].left
      PROVE  DraftsInv'
  <2>1. ASSUME NEW s \in Requests, NEW row \in Rows, rowLock'[row] = s
        PROVE  DraftAccounts(s, row)'
    <3>1. phase[s] = "locking" /\ DraftAccounts(s, row)
      BY <1>1, <2>1 DEF LocksInv, DraftsInv
    <3> QED BY <1>1, <3>1, AccountsKept
  <2> QED BY <2>1 DEF DraftsInv
<1>2. CASE UNCHANGED vars
  BY <1>1, <1>2 DEF vars
<1>3. ASSUME NEW r \in Requests, NEW outcome \in Ended, End(r, outcome),
             Publish(r) \/ stock' = stock
      PROVE  DraftsInv'
  <2>1. ASSUME NEW s \in Requests, NEW row \in Rows, rowLock'[row] = s
        PROVE  DraftAccounts(s, row)'
    <3>1. s # r /\ rowLock[row] = s /\ draft'[s][row] = draft[s][row]
      BY <1>3, <2>1, EndEffect
    <3>2. stock'[row] = stock[row]
      BY <1>3, <3>1 DEF Publish
    <3>3. tx'[s] = tx[s]
      BY <1>3, <3>1, EndPhase
    <3> QED BY <3>1, <3>2, <3>3, AccountsKept DEF DraftsInv
  <2> QED BY <2>1 DEF DraftsInv
<1>4. ASSUME NEW r \in Requests,
             CheckoutStarts(r) \/ CancelStarts(r) \/ ShipStarts(r)
             \/ PayReads(r) \/ ConfirmReads(r) \/ ConfirmReadsOrder(r)
      PROVE  DraftsInv'
  <2>1. UNCHANGED <<stock, draft, rowLock>> /\ phase[r] # "locking"
    BY <1>4 DEF CheckoutStarts, CancelStarts, ShipStarts, StartLines, PayReads,
                ConfirmReads, ConfirmReadsOrder, MayStart, tables, locks
  <2>2. \A s \in Requests \ {r} : tx'[s] = tx[s]
    BY <1>4 DEF CheckoutStarts, CancelStarts, ShipStarts, StartLines, PayReads,
                ConfirmReads, ConfirmReadsOrder, TypeInv, TypeOK
  <2> QED BY <1>1, <2>1, <2>2
<1>5. ASSUME NEW r \in Requests, ApplyLine(r) PROVE DraftsInv'
  <2>1. ASSUME NEW s \in Requests, NEW row \in Rows, rowLock'[row] = s
        PROVE  DraftAccounts(s, row)'
    <3>1. rowLock[row] = s /\ stock' = stock
      BY <1>5, <2>1 DEF ApplyLine, tables, locks
    <3>2. CASE s = r
      BY <1>5, <3>1, <3>2, ApplyLineAccounts
    <3>3. CASE s # r
      BY <1>5, <3>1, <3>3, ApplyLineDraft, LineFinished, AccountsKept DEF DraftsInv
    <3> QED BY <3>2, <3>3
  <2> QED BY <2>1 DEF DraftsInv
<1>6. "done" \in Ended
  BY DEF Ended
<1>7. ASSUME NEW r \in Requests,
             CheckoutCommits(r) \/ CancelCommits(r) \/ ShipCommits(r)
             \/ PayCommits(r) \/ ConfirmCommits(r)
      PROVE  DraftsInv'
  BY <1>3, <1>6, <1>7 DEF CheckoutCommits, CancelCommits, ShipCommits, PayCommits, ConfirmCommits
<1>8. ASSUME NEW r \in Requests, NEW outcome \in Ended, Rollback(r, outcome)
      PROVE  DraftsInv'
  BY <1>3, <1>8 DEF Rollback, tables
<1> QED BY <1>2, <1>4, <1>5, <1>7, <1>8, LockRowAccounts, StepCases
-----------------------------------------------------------------------------
(* Committed rows.                                                         *)

\* What is ordered by the orders of some statuses, after a step.
LEMMA OrderedNext ==
    ASSUME NEW statuses, NEW v, NEW os, WithStatus(statuses)' = os
    PROVE  OrderedBy(WithStatus(statuses), v)' = OrderedBy(os, v)
BY DEF OrderedBy, UnitsOrdered, LinesOf

\* The commit of an order operation moves all the units of its order, on every
\* row.
LEMMA CommittedRow ==
    ASSUME TypeInv, OneWarehouse, TablesInv, SerialInv, LocksInv, DraftsInv,
           NEW r \in Requests, CheckoutCommits(r) \/ CancelCommits(r) \/ ShipCommits(r),
           NEW row \in Rows
    PROVE  LET units == UnitsOrdered(r, row[1]) IN
             /\ Op[r] \in {"checkout", "cancel"} => stock'[row].quantity = stock[row].quantity
             /\ Op[r] = "ship" => stock'[row].quantity = stock[row].quantity - units
             /\ Op[r] = "checkout" => stock'[row].reserved = stock[row].reserved + units
             /\ Op[r] \in {"cancel", "ship"} =>
                   stock'[row].reserved = stock[row].reserved - units
<1>1. Publish(r) /\ phase[r] = "locking" /\ tx[r].line = 0
  BY OrderCommitted
<1>2. Holds(r) /\ tx[r].left = {}
  BY <1>1 DEF LocksInv, Holds
<1>3. AppliedUnits(r, row[1]) = UnitsOrdered(r, row[1])
  BY <1>2, AppliedTyped
<1>4. stock'[row] = IF rowLock[row] = r THEN draft[r][row] ELSE stock[row]
  BY <1>1 DEF Publish
<1>5. CASE rowLock[row] = r
  BY <1>3, <1>4, <1>5 DEF DraftsInv, DraftAccounts
<1>6. CASE rowLock[row] # r
  <2>1. \A i \in Applied(r) : LinesOf(r)[i].variant # row[1]
    BY <1>1, <1>6, AppliedRows
  <2>2. UnitsOrdered(r, row[1]) = 0
    BY <1>3, <2>1, AppliedTyped
  <2>3. stock[row].quantity \in Nat /\ stock[row].reserved \in Nat
    BY DEF TypeInv, TypeOK, StockRow
  <2> QED BY <1>4, <1>6, <2>2, <2>3
<1> QED BY <1>5, <1>6

\* Which orders are live, and which shipped, after the commit.
LEMMA CommittedStatus ==
    ASSUME TypeInv, TablesInv, SerialInv, NEW r \in Requests,
           CheckoutCommits(r) \/ CancelCommits(r) \/ ShipCommits(r)
    PROVE  LET o == OrderOf[r]
               live == WithStatus(ReservedStatuses)
               shipped == WithStatus({"shipped"})
           IN  /\ Op[r] = "checkout" => /\ o \notin live
                                        /\ WithStatus(ReservedStatuses)' = live \cup {o}
                                        /\ WithStatus({"shipped"})' = shipped
               /\ Op[r] = "cancel" => /\ o \in live
                                      /\ WithStatus(ReservedStatuses)' = live \ {o}
                                      /\ WithStatus({"shipped"})' = shipped
               /\ Op[r] = "ship" => /\ o \in live /\ o \notin shipped
                                    /\ WithStatus(ReservedStatuses)' = live \ {o}
                                    /\ WithStatus({"shipped"})' = shipped \cup {o}
<1> DEFINE o == OrderOf[r]
<1>1. o \in Orders
  BY SameLines
<1>2. /\ \A x \in Orders \ {o} : orders'[x] = orders[x]
      /\ \/ /\ Op[r] = "checkout"
            /\ orders[o].status = "absent" /\ orders'[o].status = "pending"
         \/ /\ Op[r] \in {"cancel", "ship"}
            /\ orders[o].status \in ReservedStatuses
            /\ Op[r] = "cancel" => orders'[o].status = "cancelled"
            /\ Op[r] = "ship" => orders'[o].status = "shipped"
  BY OrderCommitted
<1> HIDE DEF o
<1>3. \A x \in Orders : x # o => orders'[x].status = orders[x].status
  BY <1>2
<1>4. CASE Op[r] = "checkout"
  BY <1>1, <1>2, <1>3, <1>4 DEF WithStatus, ReservedStatuses, o
<1>5. CASE Op[r] = "cancel"
  BY <1>1, <1>2, <1>3, <1>5 DEF WithStatus, ReservedStatuses, o
<1>6. CASE Op[r] = "ship"
  BY <1>1, <1>2, <1>3, <1>6 DEF WithStatus, ReservedStatuses, o
<1> QED BY <1>2, <1>4, <1>5, <1>6

LEMMA CommitBalances ==
    ASSUME TypeInv, OneWarehouse, TablesInv, SerialInv, LocksInv, DraftsInv, RowsInv,
           NEW r \in Requests, CheckoutCommits(r) \/ CancelCommits(r) \/ ShipCommits(r)
    PROVE  RowsInv'
<1> SUFFICES ASSUME NEW row \in Rows
             PROVE  /\ stock'[row].reserved = InitialStock[row].reserved
                              + OrderedBy(WithStatus(ReservedStatuses), row[1])'
                    /\ stock'[row].quantity = InitialStock[row].quantity
                              - OrderedBy(WithStatus({"shipped"}), row[1])'
  BY DEF RowsInv
<1> DEFINE o == OrderOf[r]
           v == row[1]
           units == UnitsOrdered(r, v)
           live == WithStatus(ReservedStatuses)
           shipped == WithStatus({"shipped"})
           liveAfter == OrderedBy(WithStatus(ReservedStatuses), v)'
           shippedAfter == OrderedBy(WithStatus({"shipped"}), v)'
           was == stock[row]
           is == stock'[row]
           first == InitialStock[row]
<1>1. o \in Orders /\ units = UnitsOrdered(o, v) /\ units \in Nat
  BY SameLines, UnitsTyped
<1>2. live \in SUBSET Orders /\ shipped \in SUBSET Orders
  BY DEF WithStatus
<1>3. OrderedBy(live, v) \in Nat /\ OrderedBy(shipped, v) \in Nat
  BY <1>2, OrderedBySum
<1>4. /\ was.reserved = first.reserved + OrderedBy(live, v)
      /\ was.quantity = first.quantity - OrderedBy(shipped, v)
  BY DEF RowsInv
<1>5. /\ was.reserved \in Nat /\ was.quantity \in Nat
      /\ first.reserved \in Nat /\ first.quantity \in Nat
  BY StockAssumption DEF TypeInv, TypeOK, StockRow
<1>6. /\ Op[r] \in {"checkout", "cancel"} => is.quantity = was.quantity
      /\ Op[r] = "ship" => is.quantity = was.quantity - units
      /\ Op[r] = "checkout" => is.reserved = was.reserved + units
      /\ Op[r] \in {"cancel", "ship"} => is.reserved = was.reserved - units
  BY CommittedRow
<1>7. Op[r] = "checkout" => /\ o \notin live
                            /\ liveAfter = OrderedBy(live \cup {o}, v)
                            /\ shippedAfter = OrderedBy(shipped, v)
  BY CommittedStatus, OrderedNext
<1>8. Op[r] = "cancel" => /\ o \in live
                          /\ liveAfter = OrderedBy(live \ {o}, v)
                          /\ shippedAfter = OrderedBy(shipped, v)
  BY CommittedStatus, OrderedNext
<1>9. Op[r] = "ship" => /\ o \in live /\ o \notin shipped
                        /\ liveAfter = OrderedBy(live \ {o}, v)
                        /\ shippedAfter = OrderedBy(shipped \cup {o}, v)
  BY CommittedStatus, OrderedNext
<1>10. Op[r] \in {"checkout", "cancel", "ship"}
  BY DEF CheckoutCommits, CancelCommits, ShipCommits
<1> HIDE DEF o, v, units, live, shipped, liveAfter, shippedAfter, was, is, first
<1>11. o \in live => /\ OrderedBy(live, v) = OrderedBy(live \ {o}, v) + units
                     /\ OrderedBy(live \ {o}, v) \in Nat
  <2>1. live \ {o} \in SUBSET Orders
    BY <1>2
  <2>2. OrderedBy(live \ {o}, v) \in Nat
    BY <2>1, OrderedBySum
  <2> QED BY <1>1, <1>2, <2>2, OrderedByRemove
<1>12. o \notin live => OrderedBy(live \cup {o}, v) = OrderedBy(live, v) + units
  BY <1>1, <1>2, OrderedByAdd
<1>13. o \notin shipped => OrderedBy(shipped \cup {o}, v) = OrderedBy(shipped, v) + units
  BY <1>1, <1>2, OrderedByAdd
<1>14. is.reserved = first.reserved + liveAfter /\ is.quantity = first.quantity - shippedAfter
  <2>1. CASE Op[r] = "checkout"
    BY <1>1, <1>3, <1>4, <1>5, <1>6, <1>7, <1>12, <2>1
  <2>2. CASE Op[r] = "cancel"
    BY <1>1, <1>3, <1>4, <1>5, <1>6, <1>8, <1>11, <2>2
  <2>3. CASE Op[r] = "ship"
    BY <1>1, <1>3, <1>4, <1>5, <1>6, <1>9, <1>11, <1>13, <2>3
  <2> QED BY <1>10, <2>1, <2>2, <2>3
<1> QED BY <1>14 DEF liveAfter, shippedAfter, is, first, v

LEMMA RowsKept ==
    ASSUME RowsInv, stock' = stock,
           WithStatus(ReservedStatuses)' = WithStatus(ReservedStatuses),
           WithStatus({"shipped"})' = WithStatus({"shipped"})
    PROVE  RowsInv'
BY OrderedNext DEF RowsInv

LEMMA RowsStep ==
    TypeInv /\ TablesInv /\ BooksInv /\ [Next]_vars => RowsInv'
<1> SUFFICES ASSUME TypeInv, OneWarehouse, TablesInv, SerialInv, LocksInv, DraftsInv, RowsInv, [Next]_vars
             PROVE  RowsInv'
  BY DEF BooksInv
<1>1. CASE UNCHANGED <<stock, orders>>
  BY <1>1, RowsKept DEF WithStatus
<1>2. ASSUME NEW r \in Requests, PayCommits(r) PROVE RowsInv'
  BY <1>1, <1>2 DEF PayCommits
<1>3. ASSUME NEW r \in Requests, ConfirmCommits(r) PROVE RowsInv'
  <2>1. PICK o \in Orders :
          /\ \A x \in Orders \ {o} : orders'[x] = orders[x]
          /\ \/ orders'[o].status = orders[o].status
             \/ orders[o].status = "pending" /\ orders'[o].status = "confirmed"
    BY <1>3, ConfirmedOrder
  <2>2. /\ WithStatus(ReservedStatuses)' = WithStatus(ReservedStatuses)
        /\ WithStatus({"shipped"})' = WithStatus({"shipped"})
    BY <2>1 DEF WithStatus, ReservedStatuses
  <2> QED BY <1>3, <2>2, RowsKept DEF ConfirmCommits
<1> QED BY <1>1, <1>2, <1>3, CommitBalances, QuietStep DEF tables,
        CheckoutStarts, CancelStarts, ShipStarts, StartLines, PayReads, ConfirmReads,
        LockRow, ApplyLine, ConfirmReadsOrder
-----------------------------------------------------------------------------
(* The books balance.                                                      *)

LEMMA BooksInit == Init /\ OrderlyCallers /\ OneWarehouse => BooksInv
<1> SUFFICES ASSUME Init, OrderlyCallers, OneWarehouse PROVE BooksInv
  OBVIOUS
<1>1. /\ \A r \in Requests : phase[r] = "idle" /\ "idle" \notin Running
      /\ \A row \in Rows : \A r \in Requests : rowLock[row] # r
      /\ \A o \in Orders : orders[o].status = "absent"
      /\ stock = InitialStock
  BY RequestAssumption DEF Init, Running, NoOrderRow
<1>2. SerialInv
  BY <1>1 DEF SerialInv, Apart, StillAsRead
<1>3. LocksInv
  BY <1>1 DEF LocksInv, Holds, AtLine, Placed
<1>4. DraftsInv
  BY <1>1 DEF DraftsInv
<1>5. ASSUME NEW v PROVE OrderedBy({}, v) = 0
  BY SumType, OrderedBySum
<1>6. WithStatus(ReservedStatuses) = {} /\ WithStatus({"shipped"}) = {}
  BY <1>1 DEF WithStatus, ReservedStatuses
<1>7. \A row \in Rows : InitialStock[row].reserved \in Nat /\ InitialStock[row].quantity \in Nat
  BY StockAssumption DEF StockRow
<1>8. ASSUME NEW v
      PROVE  /\ OrderedBy(WithStatus(ReservedStatuses), v) = 0
             /\ OrderedBy(WithStatus({"shipped"}), v) = 0
  BY <1>5, <1>6
<1>9. RowsInv
  BY <1>1, <1>7, <1>8 DEF RowsInv
<1> QED BY <1>2, <1>3, <1>4, <1>9 DEF BooksInv

LEMMA BooksStep ==
    TypeInv /\ StockInv /\ TablesInv /\ BooksInv /\ [Next]_vars => BooksInv'
BY SerialStep, LocksStep, DraftsStep, RowsStep DEF BooksInv, OneWarehouse

\* A sum over the rows of a variant has at most the one summand.
LEMMA OneRowSum ==
    ASSUME OneWarehouse, NEW v, NEW f, \A row \in Rows : f[row] \in Int
    PROVE  /\ \A row \in Rows : row[1] = v => SumFunctionOnSet(f, RowsOf(v)) = f[row]
           /\ ~Stocked(v) => SumFunctionOnSet(f, RowsOf(v)) = 0
<1>1. ASSUME NEW row \in Rows, row[1] = v
      PROVE  SumFunctionOnSet(f, RowsOf(v)) = f[row]
  <2>1. RowsOf(v) = {row}
    BY <1>1 DEF RowsOf, OneWarehouse
  <2>2. IsFiniteSet({row}) /\ {row} \ {row} = {}
    BY FS_Singleton
  <2>3. SumFunctionOnSet(f, {row}) = f[row] + SumFunctionOnSet(f, {row} \ {row})
    BY <2>2, SumRemove
  <2>4. SumFunctionOnSet(f, {}) = 0
    BY <2>2, SumType
  <2>5. SumFunctionOnSet(f, {row}) = f[row] + SumFunctionOnSet(f, {})
    BY <2>2, <2>3
  <2>6. f[row] \in Int
    OBVIOUS
  <2> QED BY <2>1, <2>4, <2>5, <2>6
<1>2. ASSUME ~Stocked(v) PROVE SumFunctionOnSet(f, RowsOf(v)) = 0
  <2>1. RowsOf(v) = {}
    BY <1>2 DEF RowsOf, Stocked
  <2> QED BY <2>1, FS_EmptySet, SumType
<1> QED BY <1>1, <1>2

\* A variant without a row is on no order that was placed.
LEMMA NoneOrdered ==
    ASSUME LocksInv, NEW v, ~Stocked(v), NEW os \in SUBSET Orders, \A o \in os : Placed(o)
    PROVE  OrderedBy(os, v) = 0
<1>1. ASSUME NEW o \in os PROVE UnitsOrdered(o, v) = 0
  <2>1. o \in Requests /\ AllStocked(o)
    BY DEF LocksInv, Orders
  <2>2. \A i \in DOMAIN LinesOf(o) : UnitsOf(o, v)[i] = 0
    BY <2>1 DEF AllStocked, UnitsOf
  <2> QED BY <2>1, <2>2, UnitsTyped, SumZero
<1>2. \A o \in os : UnitsByOrder(v)[o] = 0
  BY <1>1, OrderedBySum
<1> QED BY <1>2, OrderedBySum, SumZero

LEMMA BooksMatch == TypeInv /\ BooksInv => StockMatchesOrders
<1> SUFFICES ASSUME TypeInv, OneWarehouse, LocksInv, RowsInv, NEW v \in Variants
             PROVE  /\ Reserved(stock, v) = Reserved(InitialStock, v)
                          + OrderedBy(WithStatus(ReservedStatuses), v)
                    /\ OnHand(stock, v) = OnHand(InitialStock, v)
                          - OrderedBy(WithStatus({"shipped"}), v)
  BY DEF BooksInv, StockMatchesOrders
<1> DEFINE live == WithStatus(ReservedStatuses)
           shipped == WithStatus({"shipped"})
<1>1. /\ live \in SUBSET Orders /\ shipped \in SUBSET Orders
      /\ \A o \in live : Placed(o)
      /\ \A o \in shipped : Placed(o)
  BY DEF WithStatus, Placed, ReservedStatuses
<1>2. ASSUME NEW table \in [Rows -> StockRow]
      PROVE  /\ \A row \in Rows : row[1] = v =>
                   /\ Reserved(table, v) = table[row].reserved
                   /\ OnHand(table, v) = table[row].quantity
             /\ ~Stocked(v) => Reserved(table, v) = 0 /\ OnHand(table, v) = 0
  <2> DEFINE reserved == [row \in Rows |-> table[row].reserved]
             onHand == [row \in Rows |-> table[row].quantity]
             reservedOf == [row \in RowsOf(v) |-> table[row].reserved]
             onHandOf == [row \in RowsOf(v) |-> table[row].quantity]
  <2>1. \A row \in Rows : table[row].reserved \in Nat /\ table[row].quantity \in Nat
    BY DEF StockRow
  <2>2. \A row \in RowsOf(v) : row \in Rows
    BY DEF RowsOf
  <2>3. IsFiniteSet(RowsOf(v))
    <3>1. CASE Stocked(v)
      <4>1. PICK row \in Rows : row[1] = v
        BY <3>1 DEF Stocked
      <4>2. RowsOf(v) = {row}
        BY <4>1 DEF RowsOf, OneWarehouse
      <4> QED BY <4>2, FS_Singleton
    <3>2. CASE ~Stocked(v)
      <4>1. RowsOf(v) = {}
        BY <3>2 DEF RowsOf, Stocked
      <4> QED BY <4>1, FS_EmptySet
    <3> QED BY <3>1, <3>2
  <2>4. /\ Reserved(table, v) = SumFunctionOnSet(reservedOf, DOMAIN reservedOf)
        /\ OnHand(table, v) = SumFunctionOnSet(onHandOf, DOMAIN onHandOf)
    BY Zenon DEF Reserved, OnHand, SumFunction
  <2>5. /\ DOMAIN reservedOf = RowsOf(v) /\ DOMAIN onHandOf = RowsOf(v)
        /\ \A row \in RowsOf(v) : /\ reservedOf[row] = reserved[row]
                                  /\ onHandOf[row] = onHand[row]
    BY <2>2
  <2>6. \A row \in Rows : /\ reserved[row] = table[row].reserved /\ reserved[row] \in Int
                          /\ onHand[row] = table[row].quantity /\ onHand[row] \in Int
    BY <2>1
  <2> HIDE DEF reserved, onHand, reservedOf, onHandOf
  <2>7. /\ Reserved(table, v) = SumFunctionOnSet(reserved, RowsOf(v))
        /\ OnHand(table, v) = SumFunctionOnSet(onHand, RowsOf(v))
    BY <2>3, <2>4, <2>5, SumSame
  <2> QED BY <2>6, <2>7, OneRowSum
<1>3. stock \in [Rows -> StockRow] /\ InitialStock \in [Rows -> StockRow]
  BY StockAssumption DEF TypeInv, TypeOK
<1>4. CASE Stocked(v)
  <2>1. PICK row \in Rows : row[1] = v
    BY <1>4 DEF Stocked
  <2>2. /\ Reserved(stock, v) = stock[row].reserved
        /\ OnHand(stock, v) = stock[row].quantity
        /\ Reserved(InitialStock, v) = InitialStock[row].reserved
        /\ OnHand(InitialStock, v) = InitialStock[row].quantity
    BY <1>2, <1>3, <2>1
  <2> QED BY <2>1, <2>2 DEF RowsInv
<1>5. CASE ~Stocked(v)
  <2>1. OrderedBy(live, v) = 0 /\ OrderedBy(shipped, v) = 0
    BY <1>1, <1>5, NoneOrdered
  <2>2. /\ Reserved(stock, v) = 0 /\ OnHand(stock, v) = 0
        /\ Reserved(InitialStock, v) = 0 /\ OnHand(InitialStock, v) = 0
    BY <1>2, <1>3, <1>5
  <2> QED BY <2>1, <2>2
<1> QED BY <1>4, <1>5

\* checkout, cancel_order and record_shipment against the order rows: whatever
\* the interleaving of requests for different orders and whatever crashes, what
\* is reserved of a variant is what its live orders ordered and what has left
\* the shelf is what was shipped.  For callers that do not overlap requests on
\* one order, and variants stocked in one warehouse.
THEOREM BooksBalance ==
    ASSUME OrderlyCallers, OneWarehouse
    PROVE  Spec => []StockMatchesOrders
<1>1. Init => BooksInv
  BY BooksInit
<1>2. TypeInv /\ BooksInv => StockMatchesOrders
  BY BooksMatch
<1> QED BY <1>1, <1>2, InitTyped, StepTyped, StockInit, StockKept, TablesInit, TablesStep,
           BooksStep, PTL DEF Spec
=============================================================================
