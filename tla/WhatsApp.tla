------------------------------- MODULE WhatsApp -------------------------------
(***************************************************************************)
(* What crosses the wire between WhatsApp and the agent (app/whatsapp, and *)
(* the webhook in app/api/webhook.py): Meta's posts taken apart into       *)
(* messages, and the bodies that are sent back.  Texts and titles are left *)
(* out; a tapped row or button is known by its payload.                    *)
(***************************************************************************)
EXTENDS Integers, Sequences, SequencesExt

MaxListRows == 10
MaxButtons  == 3
MaxImages   == 2
-----------------------------------------------------------------------------
\* A message of Meta is [from, type, reply, payload]; reply says what kind of
\* interactive message it is.  Anything but texts and taps is unsupported.
Normalized(m) ==
    [number |-> m.from, payload |-> m.payload,
     message_type |->
        IF m.type = "text" THEN "text"
        ELSE IF m.type = "interactive" /\ m.reply = "button_reply" THEN "interactive_button_reply"
        ELSE IF m.type = "interactive" /\ m.reply = "list_reply" THEN "interactive_list_reply"
        ELSE "unsupported"]

StatusUpdate(s) == [number |-> s.recipient_id, payload |-> s.payload, message_type |-> "status_update"]

IsActionable(message) ==
    message.message_type \in {"text", "interactive_button_reply", "interactive_list_reply"}

Each(f(_), s) == [i \in DOMAIN s |-> f(s[i])]

\* parse_inbound: entry by entry and change by change, the messages of a change
\* before its delivery reports.
ParseInbound(entries) ==
    LET Change(c) == Each(Normalized, c.messages) \o Each(StatusUpdate, c.statuses)
        Entry(e)  == FlattenSeq(Each(Change, e))
    IN FlattenSeq(Each(Entry, entries))

\* receive_webhook: the answer to a post, by its signature and its body.
PostAnswer(post) == IF ~post.signed THEN 403 ELSE IF ~post.json THEN 400 ELSE 200
-----------------------------------------------------------------------------
TextBody == [kind |-> "text", tappable |-> <<>>]

\* At most ten rows, filled section by section.
ListBody(sections) ==
    LET rows == FlattenSeq(sections) IN
    [kind |-> "interactive_list",
     tappable |-> SubSeq(rows, 1, IF Len(rows) < MaxListRows THEN Len(rows) ELSE MaxListRows)]

ButtonBody(buttons) ==
    [kind |-> "interactive_buttons",
     tappable |-> SubSeq(buttons, 1, IF Len(buttons) < MaxButtons THEN Len(buttons) ELSE MaxButtons)]

ImageBody == [kind |-> "image", tappable |-> <<>>]

\* _post tries three times what may have been an outage.  Whatever it reports,
\* the message may have arrived: an answer may be lost after Meta took the
\* message.  A list without rows is refused, and not tried again.
MayArrive(body) == body.kind = "interactive_list" => body.tappable # <<>>

Outcomes(body) == IF MayArrive(body) THEN BOOLEAN ELSE {FALSE}
=============================================================================
