--------------------------- MODULE MCConversations ---------------------------
(* Small instances of Conversations.                                       *)
EXTENDS Conversations

Text(n) == [from |-> n, type |-> "text", reply |-> None, payload |-> None]
Tap(n)  == [from |-> n, type |-> "interactive", reply |-> "button_reply", payload |-> "action:refine_menu"]
Photo(n) == [from |-> n, type |-> "image", reply |-> None, payload |-> None]
Delivered(n) == [recipient_id |-> n, payload |-> None]
Change(messages, statuses) == [messages |-> messages, statuses |-> statuses]
Post(entries) == [signed |-> TRUE, json |-> TRUE, entries |-> entries]

\* A new user who waits for answers, a new user who does not, a returning user
\* who does not, with delivery reports and a photo between; a post that is not
\* Meta's.
MixedBodies ==
    [d1 |-> Post(<<<<Change(<<Text("new"), Text("eager")>>, <<>>)>>>>),
     d2 |-> Post(<<<<Change(<<Tap("eager"), Photo("old")>>, <<>>)>>, <<Change(<<Text("old")>>, <<Delivered("old")>>)>>>>),
     d3 |-> Post(<<<<Change(<<Tap("old")>>, <<>>), Change(<<Text("new")>>, <<>>)>>>>),
     d4 |-> [Post(<<<<Change(<<Text("old")>>, <<>>)>>>>) EXCEPT !.signed = FALSE]]
=============================================================================
