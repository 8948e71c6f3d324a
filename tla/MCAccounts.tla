------------------------------- MODULE MCAccounts -------------------------------
(* Small instances of Accounts.                                            *)
EXTENDS Accounts

Asks(p, op)         == [who |-> p, op |-> op, values |-> <<>>]
Edits(p, values)    == [who |-> p, op |-> "edit", values |-> values]
Off == [active |-> FALSE]
On  == [active |-> TRUE]

\* eve's e-mail is that of an account from before Cognito; bob is new.
EmailOf == [p \in People |-> p]
EmailsUsed == People \cup {"new"}
StaffAnnEve ==
    <<User("sue", "sue", "admin", TRUE, TRUE), User("ann", "ann", "customer", TRUE, FALSE),
      User(None, "eve", "customer", None, TRUE)>>

Occasions ==
    {[r1 |-> Asks("bob", "confirm"), r2 |-> Asks("bob", "create address"),
      r3 |-> Asks("bob", "create address"), r4 |-> Asks("bob", "list addresses"),
      r5 |-> Asks("bob", "deliver")],
     [r1 |-> Asks("ann", "rename"), r2 |-> Edits("sue", Off),
      r3 |-> Asks("ann", "rename"), r4 |-> Asks("ann", "me"),
      r5 |-> Edits("sue", On)],
     [r1 |-> Edits("sue", Off), r2 |-> Edits("sue", On),
      r3 |-> Asks("ann", "create address"), r4 |-> Asks("sue", "staff me"),
      r5 |-> Asks("ann", "deliver")],
     [r1 |-> Asks("eve", "login"), r2 |-> Edits("sue", Off),
      r3 |-> Asks("eve", "app me"), r4 |-> Asks("eve", "me"),
      r5 |-> Asks("eve", "app me")],
     [r1 |-> Asks("sue", "login"), r2 |-> Asks("sue", "app ship"),
      r3 |-> Edits("sue", [role |-> "customer"]), r4 |-> Asks("sue", "rename"),
      r5 |-> Asks("sue", "app me")],
     [r1 |-> Asks("sue", "remove"), r2 |-> Asks("ann", "rename"),
      r3 |-> Asks("ann", "create address"), r4 |-> Asks("ann", "list addresses"),
      r5 |-> Asks("ann", "me")],
     [r1 |-> Asks("ann", "create address"), r2 |-> Asks("bob", "create address"),
      r3 |-> Asks("ann", "deliver"), r4 |-> Asks("bob", "deliver"),
      r5 |-> Asks("ann", "list addresses")],
     [r1 |-> Edits("sue", [active |-> None]), r2 |-> Asks("sue", "staff me"),
      r3 |-> Asks("ann", "rename"), r4 |-> Asks("ann", "me"),
      r5 |-> Asks("ann", "deliver")],
     [r1 |-> Edits("sue", [email |-> "bob"]), r2 |-> Edits("sue", [email |-> "new"]),
      r3 |-> Asks("bob", "me"), r4 |-> Asks("ann", "rename"),
      r5 |-> Asks("eve", "login")]}
=============================================================================
