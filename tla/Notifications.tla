---------------------------- MODULE Notifications ----------------------------
(***************************************************************************)
(* The e-mails about order status changes.  The storefront and the admin   *)
(* API enqueue a message after the change has committed                    *)
(* (storefront/services/notifications_service.py,                          *)
(* admin_api/handlers/orders_handler.py); SQS hands batches of messages to *)
(* the notifications Lambda (notifications/handler.py), which sends one    *)
(* e-mail per record through Resend; queue, retries, dead-letter queue and *)
(* timeouts are set up in                                                  *)
(* infra/cdk/notifications_stack/notifications_stack.py.  The names are not *)
(* those of OrderDesk, so that one module can extend both.                 *)
(***************************************************************************)
EXTENDS Integers, Sequences, FiniteSets, SequencesExt

CONSTANTS
    Changes,        \* status changes, each announced by one message
    Invocations,    \* concurrent invocations of the Lambda
    BatchSize,      \* batch_size of the event source
    MaxReceives,    \* max_receive_count of the dead-letter queue
    Timeout,        \* seconds an invocation may run
    SendTimes       \* seconds one send_email may take

ASSUME SizeAssumption ==
    /\ IsFiniteSet(Changes)
    /\ BatchSize \in Nat \ {0} /\ MaxReceives \in Nat \ {0}
    /\ Timeout \in Nat /\ SendTimes \subseteq Nat

VARIABLES
    message,    \* change |-> where its message is
    receives,   \* change |-> how often SQS has handed its message out
    run,        \* invocation |-> its batch, position, failures and running time
    emails,     \* change |-> copies of its e-mail that Resend accepted
    confirmed   \* changes for which the handler saw a send succeed

queueVars == <<message, receives, run, emails, confirmed>>

NoEvent == [batch |-> <<>>, next |-> 1, failures |-> {}, elapsed |-> 0]

QueueTypeOK ==
    /\ message \in [Changes -> {"uncommitted", "committed", "unannounced", "visible",
                                "in_flight", "deleted", "dead"}]
    /\ receives \in [Changes -> 0 .. MaxReceives]
    /\ \A i \in Invocations :
         /\ Len(run[i].batch) <= BatchSize
         /\ run[i].next \in 1 .. Len(run[i].batch) + 1
         /\ run[i].elapsed \in 0 .. Timeout
         /\ \A k \in DOMAIN run[i].batch : message[run[i].batch[k]] = "in_flight"
         /\ run[i].failures \subseteq Changes
    /\ emails \in [Changes -> Nat]
    /\ confirmed \subseteq Changes

QueueInit ==
    /\ message = [c \in Changes |-> "uncommitted"]
    /\ receives = [c \in Changes |-> 0]
    /\ run = [i \in Invocations |-> NoEvent]
    /\ emails = [c \in Changes |-> 0]
    /\ confirmed = {}
-----------------------------------------------------------------------------
(* The producers.                                                          *)

\* checkout or _change_status commits.
CommitChange(c) ==
    /\ message[c] = "uncommitted"
    /\ message' = [message EXCEPT ![c] = "committed"]
    /\ UNCHANGED <<receives, run, emails, confirmed>>

\* send_message, after the commit and outside the transaction.
Announce(c) ==
    /\ message[c] = "committed"
    /\ message' = [message EXCEPT ![c] = "visible"]
    /\ UNCHANGED <<receives, run, emails, confirmed>>

\* No queue configured, no e-mail address, an SQS error, which is swallowed, or
\* the Lambda dies between its commit and the send: nobody announces it later.
AnnounceNot(c) ==
    /\ message[c] = "committed"
    /\ message' = [message EXCEPT ![c] = "unannounced"]
    /\ UNCHANGED <<receives, run, emails, confirmed>>
-----------------------------------------------------------------------------
(* The queue and the Lambda.                                               *)

\* Mutant of Invoke: a message stays visible while it is worked on.
InvokeLeavingVisible(i) ==
    /\ run[i] = NoEvent
    /\ \E chosen \in SUBSET {c \in Changes : message[c] = "visible"} :
         /\ chosen # {} /\ Cardinality(chosen) <= BatchSize
         /\ \E batch \in SetToSeqs(chosen) : run' = [run EXCEPT ![i].batch = batch]
         /\ receives' = [c \in Changes |-> IF c \in chosen THEN receives[c] + 1
                                           ELSE receives[c]]
    /\ UNCHANGED <<message, emails, confirmed>>

\* The event source hands a batch of visible messages to an invocation.  A
\* standard queue keeps no order.
Invoke(i) ==
    /\ run[i] = NoEvent
    /\ \E chosen \in SUBSET {c \in Changes : message[c] = "visible"} :
         /\ chosen # {} /\ Cardinality(chosen) <= BatchSize
         /\ \E batch \in SetToSeqs(chosen) : run' = [run EXCEPT ![i].batch = batch]
         /\ message' = [c \in Changes |-> IF c \in chosen THEN "in_flight" ELSE message[c]]
         /\ receives' = [c \in Changes |-> IF c \in chosen THEN receives[c] + 1
                                           ELSE receives[c]]
    /\ UNCHANGED <<emails, confirmed>>

Record(i) == run[i].batch[run[i].next]
HasRecord(i) == run[i].next <= Len(run[i].batch)

\* The invocation goes on to its next record.
Advance(i, seconds, failed) ==
    /\ run[i].elapsed + seconds <= Timeout
    /\ run' = [run EXCEPT ![i].next = @ + 1, ![i].elapsed = @ + seconds,
                          ![i].failures = @ \cup failed]
    /\ UNCHANGED <<message, receives>>

\* send_email: Resend answers 2xx.
SendAccepted(i) ==
    /\ HasRecord(i)
    /\ \E seconds \in SendTimes : Advance(i, seconds, {})
    /\ emails' = [emails EXCEPT ![Record(i)] = @ + 1]
    /\ confirmed' = confirmed \cup {Record(i)}

\* Mutant of SendFails: the exception is logged and not reported.
SendFailsUnreported(i) ==
    /\ HasRecord(i)
    /\ \E seconds \in SendTimes : Advance(i, seconds, {})
    /\ UNCHANGED <<emails, confirmed>>

\* Resend rejects the e-mail or no answer arrives in time, when it may have
\* been accepted all the same: the record goes into batchItemFailures.
SendFails(i) ==
    /\ HasRecord(i)
    /\ \E seconds \in SendTimes : Advance(i, seconds, {Record(i)})
    /\ \E accepted \in {0, 1} : emails' = [emails EXCEPT ![Record(i)] = @ + accepted]
    /\ UNCHANGED confirmed

\* A message that is not deleted reappears when its visibility timeout is
\* over, or moves to the dead-letter queue if it has had its receives.
Reappeared(c) == IF receives[c] < MaxReceives THEN "visible" ELSE "dead"

\* Mutant of EndInvocation: the receives are not counted.
EndInvocationForgiving(i, again) ==
    /\ message' = [c \in Changes |->
                     IF c \notin ToSet(run[i].batch) THEN message[c]
                     ELSE IF c \in again THEN "visible" ELSE "deleted"]
    /\ receives' = [c \in Changes |-> IF c \in again THEN 0 ELSE receives[c]]
    /\ run' = [run EXCEPT ![i] = NoEvent]

\* The invocation ends and the messages `again` are kept by the queue.
EndInvocation(i, again) ==
    /\ message' = [c \in Changes |->
                     IF c \notin ToSet(run[i].batch) THEN message[c]
                     ELSE IF c \in again THEN Reappeared(c) ELSE "deleted"]
    /\ run' = [run EXCEPT ![i] = NoEvent]
    /\ UNCHANGED receives

\* lambda_handler returns its batchItemFailures.
Return(i) ==
    /\ run[i] # NoEvent /\ ~HasRecord(i)
    /\ EndInvocation(i, run[i].failures)
    /\ UNCHANGED <<emails, confirmed>>

\* The next send would last beyond the Lambda's timeout.  It is killed while
\* it waits, and everything it was handed counts as failed.
TimeOut(i) ==
    /\ HasRecord(i)
    /\ \E seconds \in SendTimes : run[i].elapsed + seconds > Timeout
    /\ \E accepted \in {0, 1} : emails' = [emails EXCEPT ![Record(i)] = @ + accepted]
    /\ EndInvocation(i, ToSet(run[i].batch))
    /\ UNCHANGED confirmed

Work(i) == SendAccepted(i) \/ SendFails(i) \/ Return(i) \/ TimeOut(i)

\* Every change is settled, or will not be made.
Settled ==
    /\ \A c \in Changes : message[c] \in {"uncommitted", "unannounced", "deleted", "dead"}
    /\ UNCHANGED queueVars

QueueNext ==
    \/ \E c \in Changes : CommitChange(c) \/ Announce(c) \/ AnnounceNot(c)
    \/ \E i \in Invocations : Invoke(i) \/ Work(i)
    \/ Settled

QueueSpec == QueueInit /\ [][QueueNext]_queueVars

\* The event source polls as long as messages are visible, and an invocation
\* runs to its end or its timeout.  The orders need not change.
FairQueueSpec ==
    /\ QueueSpec
    /\ WF_queueVars(\E i \in Invocations : Invoke(i))
    /\ \A i \in Invocations : WF_queueVars(Work(i))
-----------------------------------------------------------------------------
\* A message leaves the queue for good only when its e-mail was accepted and the
\* handler knows it, or it is in the dead-letter queue: whatever else fails in
\* the batch, no failure is acknowledged by mistake.
DeletedWasSent == \A c \in Changes : message[c] = "deleted" => c \in confirmed /\ emails[c] > 0

\* However often invocations fail or time out, a customer gets no more copies
\* of one e-mail than a message has receives, and none for an unannounced one.
CopiesAreBounded == \A c \in Changes : emails[c] <= MaxReceives

\* Every announced change ends with its message deleted or in the dead-letter
\* queue: failing sends do not circulate for ever.
EveryMessageSettles ==
    \A c \in Changes : message[c] = "visible" ~> message[c] \in {"deleted", "dead"}

=============================================================================
