----------------------------- MODULE Messages -----------------------------
(***************************************************************************)
(* The messages of one WhatsApp chat: those that the team writes on the    *)
(* platform, which are stored, sent, retried and tracked by their          *)
(* receipts; those it writes on the phone and those the customer sends,    *)
(* which the socket's events bring; and the customer and conversation that *)
(* are created for them.                                                   *)
(*                                                                         *)
(* The socket's event handlers are not awaited, so that they overlap with  *)
(* each other and with the requests.  What WhatsApp took comes back as an  *)
(* event too, an echo, which may be handled before the send has returned.  *)
(*                                                                         *)
(* Data left out: texts, but for which messages read the same; media,      *)
(* replies, unread counts, timestamps, attribution, and the aliases of     *)
(* phone numbers.  Rows differ in their texts: another that reads the same *)
(* is, for a row, as good as a message written on the phone.               *)
(***************************************************************************)
EXTENDS Naturals, FiniteSets

CONSTANTS
    Handlers,   \* requests and event handlers in progress
    Rows,       \* messages written on the platform
    Inbound,    \* messages of the customer
    Ids,        \* the ids that WhatsApp gives to messages of the team
    Tries,      \* of a send: withRetry's, each of which may restart the socket once
    Faults,     \* the faults that may happen
    Phone,      \* the origin of a message that was written on the phone
    None

AllFaults == {"send", "reply", "db", "crash"}

ASSUME MessagesAssumption ==
    /\ Tries \in Nat \ {0}
    /\ Faults \subseteq AllFaults
    /\ {Phone, None} \cap (Rows \cup Ids \cup Inbound) = {} /\ Phone # None
    /\ Rows \cap Ids = {} /\ Ids \cap Inbound = {}

VARIABLES
    customer,      \* the customer's row exists
    known,         \* conversations that carry the chat's id
    begun,         \* conversations that an agent began, which don't
    open,          \* the latest conversation is OPEN
    stored,        \* the customer's messages that have a row
    sendStatus,    \* of each row; rows of echoes are named by the WhatsApp id
    waMessageId,   \* of each row
    delivery,      \* deliveryStatus of each row
    origin,        \* WhatsApp: the row it took under an id, or Phone
    reads,         \* the row whose text the message under an id has
    pc,            \* what each handler does next
    about,         \* the row, id or message it is about
    got,           \* the id its send returned, or the receipt's status
    tries,         \* of its send
    snapshot,      \* what its transaction sees: customer, conversation, the echo's row
    overtaken,     \* history: handlers since whose read another one wrote
    lost,          \* history: rows of which a reply, write or process was lost
    retried,       \* history: rows that were sent again
    hidden         \* history: rows that echoes cannot find

people  == <<customer, known, begun, open>>
rows    == <<sendStatus, waMessageId, delivery>>
locals  == <<pc, about, got, tries, snapshot>>
history == <<overtaken, lost, retried, hidden>>
wire    == <<origin, reads>>
vars    == <<people, stored, rows, wire, locals, history>>

AllRows == Rows \cup Ids

Nobody == [customer |-> FALSE, conversation |-> FALSE, row |-> None]

Begin(h, where, x) ==
    /\ pc[h] = "idle"
    /\ pc' = [pc EXCEPT ![h] = where]
    /\ about' = [about EXCEPT ![h] = x]

Goto(h, where) == pc' = [pc EXCEPT ![h] = where]

End(h) ==
    /\ Goto(h, "idle")
    /\ about' = [about EXCEPT ![h] = None]
    /\ got' = [got EXCEPT ![h] = None]
    /\ tries' = [tries EXCEPT ![h] = 0]
    /\ snapshot' = [snapshot EXCEPT ![h] = Nobody]

\* A new conversation overtakes those that found none, ...
Overtake(h) ==
    overtaken' = (overtaken \cup
        {g \in Handlers : \/ pc[g] = "create"
                          \/ pc[g] = "commit" /\ ~ snapshot[g].conversation}) \ {h}

\* ... and a message's new status those that read the old one.
OvertakeStatus(h) ==
    overtaken' = (overtaken \cup
        {g \in Handlers : \/ pc[g] = "receipt"
                          \/ pc[g] = "commit" /\ snapshot[g].row # None}) \ {h}

Leave(h) == overtaken' = overtaken \ {h}

\* The customer may be there already, imported or typed in.
Init ==
    /\ customer \in BOOLEAN
    /\ known = 0
    /\ begun = 0
    /\ open = FALSE
    /\ stored = {}
    /\ sendStatus = [r \in AllRows |-> "none"]
    /\ waMessageId = [r \in AllRows |-> None]
    /\ delivery = [r \in AllRows |-> "none"]
    /\ origin = [w \in Ids |-> None]
    /\ reads = [w \in Ids |-> None]
    /\ pc = [h \in Handlers |-> "idle"]
    /\ about = [h \in Handlers |-> None]
    /\ got = [h \in Handlers |-> None]
    /\ tries = [h \in Handlers |-> 0]
    /\ snapshot = [h \in Handlers |-> Nobody]
    /\ overtaken = {}
    /\ lost = {}
    /\ retried = {}
    /\ hidden = {}

-----------------------------------------------------------------------------
(* Conversations *)

\* createConversation, for an agent: the customer is found or created, and
\* there is no conversation of theirs ...
BeginCreate(h) ==
    /\ known + begun = 0
    /\ customer' = TRUE
    /\ Begin(h, "create", None)
    /\ UNCHANGED <<known, begun, open, stored, rows, wire, got, tries, snapshot,
                   history>>

\* ... so one is created, which does not carry the chat's id.
Create(h) ==
    /\ pc[h] = "create"
    /\ begun' = begun + 1
    /\ open' = TRUE
    /\ Overtake(h)
    /\ End(h)
    /\ UNCHANGED <<customer, known, stored, rows, wire, lost, retried, hidden>>

\* updateConversationStatus; createConversation reopens the one it finds.
SetStatus ==
    /\ known + begun > 0
    /\ open' = ~ open
    /\ UNCHANGED <<customer, known, begun, stored, rows, wire, locals, history>>

\* Mutant: only an open conversation is found.
FindsOpenOnly == known > 0 /\ open

\* getOrCreateOpenConversation looks for the chat's id, not for the customer.
FindsConversation == known > 0

-----------------------------------------------------------------------------
(* Sending *)

Pending == {r \in Rows : sendStatus[r] = "PENDING"}

\* waMessageId is unique: writing an id that another row has is an error.
Taken(w, r) == \E q \in AllRows \ {r} : waMessageId[q] = w

\* sendOutboundMessage stores the row.  Its echo will not find it when its
\* text goes out in another form (a template), when the send takes more than two
\* minutes, or when its conversation is not the one that carries the chat's id.
Compose(h, r, concealed) ==
    /\ known + begun > 0
    /\ sendStatus[r] = "none"
    /\ sendStatus' = [sendStatus EXCEPT ![r] = "PENDING"]
    /\ hidden' = IF concealed \/ begun > 0 THEN hidden \cup {r} ELSE hidden
    /\ Begin(h, "send", r)
    /\ UNCHANGED <<people, stored, waMessageId, delivery, wire, got, tries, snapshot,
                   overtaken, lost, retried>>

\* retryOutboundMessage: a FAILED row, which stays FAILED meanwhile and which
\* nobody claims.
Retry(h, r) ==
    /\ sendStatus[r] = "FAILED"
    /\ retried' = retried \cup {r}
    /\ Begin(h, "send", r)
    /\ UNCHANGED <<people, stored, rows, wire, got, tries, snapshot,
                   overtaken, lost, hidden>>

\* WhatsApp takes a message under a new id.
Take(w, from, text) ==
    /\ origin[w] = None
    /\ origin' = [origin EXCEPT ![w] = from]
    /\ reads' = [reads EXCEPT ![w] = text]

\* The socket took the message and returned its id.
SendSucceeds(h, w) ==
    /\ pc[h] = "send"
    /\ Take(w, about[h], about[h])
    /\ got' = [got EXCEPT ![h] = w]
    /\ Goto(h, "result")
    /\ UNCHANGED <<people, stored, rows, about, tries, snapshot, history>>

\* withRetry: another try, or the send has failed.
TryAgain(h) ==
    /\ tries' = [tries EXCEPT ![h] = @ + 1]
    /\ Goto(h, IF tries[h] + 1 < Tries THEN "send" ELSE "failed")

SendFails(h) ==
    /\ "send" \in Faults
    /\ pc[h] = "send"
    /\ TryAgain(h)
    /\ UNCHANGED <<people, stored, rows, wire, about, got, snapshot, history>>

\* The socket took the message and threw, for instance at a timeout.
ReplyIsLost(h, w) ==
    /\ "reply" \in Faults
    /\ pc[h] = "send"
    /\ Take(w, about[h], about[h])
    /\ lost' = lost \cup {about[h]}
    /\ TryAgain(h)
    /\ UNCHANGED <<people, stored, rows, about, got, snapshot,
                   overtaken, retried, hidden>>

\* updateOutboundSendResult within the try: an error here is one of the send.
WriteResult(h) ==
    /\ pc[h] = "result"
    /\ LET r == about[h]
           w == got[h] IN
       IF Taken(w, r)
       THEN /\ Goto(h, "failed")
            /\ UNCHANGED <<rows, about, got, tries, snapshot, overtaken>>
       ELSE /\ sendStatus' = [sendStatus EXCEPT ![r] = "SENT"]
            /\ waMessageId' = [waMessageId EXCEPT ![r] = w]
            /\ delivery' = [delivery EXCEPT ![r] = "SENT"]
            /\ OvertakeStatus(h)
            /\ End(h)
    /\ UNCHANGED <<people, stored, wire, lost, retried, hidden>>

ResultIsLost(h) ==
    /\ "db" \in Faults
    /\ pc[h] = "result"
    /\ lost' = lost \cup {about[h]}
    /\ Goto(h, "failed")
    /\ UNCHANGED <<people, stored, rows, wire, about, got, tries, snapshot,
                   overtaken, retried, hidden>>

\* updateOutboundSendResult in the catch: the row may be retried, and has no
\* id, not even one that an echo gave it.
WriteFailed(h) ==
    /\ pc[h] = "failed"
    /\ sendStatus' = [sendStatus EXCEPT ![about[h]] = "FAILED"]
    /\ waMessageId' = [waMessageId EXCEPT ![about[h]] = None]
    /\ delivery' = [delivery EXCEPT ![about[h]] = "none"]
    /\ OvertakeStatus(h)
    /\ End(h)
    /\ UNCHANGED <<people, stored, wire, lost, retried, hidden>>

-----------------------------------------------------------------------------
(* Messages that the socket's events bring *)

\* Written on the phone; it may read like a row.
WriteOnPhone(w, text) ==
    /\ Take(w, Phone, text)
    /\ UNCHANGED <<people, stored, rows, locals, history>>

\* storeInboundMessage and storeExternalOutboundMessage: a message whose id has
\* a row is a duplicate.
Deliver(h, m) ==
    /\ m \notin stored
    /\ m \in Ids => (origin[m] # None /\ ~ Taken(m, None))
    /\ Begin(h, "open", m)
    /\ UNCHANGED <<people, stored, rows, wire, got, tries, snapshot, history>>

\* Mutant: an echo does not look for the row it may be about.
NoMatch(m) == None

\* The row that waits for an id, with the same text, in the echo's
\* conversation.
Match(m) ==
    IF /\ m \in Ids /\ FindsConversation
       /\ reads[m] \in Pending \ hidden /\ waMessageId[reads[m]] = None
    THEN reads[m] ELSE None

\* The transaction's reads.  Of several conversations of the chat, it may find
\* another than the row's.
OpenTransaction(h) ==
    /\ pc[h] = "open"
    /\ \E r \in {Match(about[h])} \cup (IF known > 1 THEN {None} ELSE {}) :
           snapshot' = [snapshot EXCEPT ![h] =
               [customer |-> customer, conversation |-> FindsConversation, row |-> r]]
    /\ Goto(h, "commit")
    /\ UNCHANGED <<people, stored, rows, wire, about, got, tries, history>>

\* Unique keys: the customer's phone number, and the message's id.
Clashes(h) ==
    \/ customer /\ ~ snapshot[h].customer
    \/ about[h] \in stored
    \/ about[h] \in Ids /\ Taken(about[h], snapshot[h].row)

\* Its writes: the customer and the conversation if it saw none, which is open
\* then, and the row: the customer's, the one that was matched, or a new one.
Commit(h) ==
    /\ pc[h] = "commit"
    /\ ~ Clashes(h)
    /\ customer' = TRUE
    /\ known' = IF snapshot[h].conversation THEN known ELSE known + 1
    /\ open' = TRUE
    /\ IF snapshot[h].conversation THEN OvertakeStatus(h) ELSE Overtake(h)
    /\ LET m == about[h]
           r == IF snapshot[h].row = None THEN m ELSE snapshot[h].row IN
       IF m \in Inbound
       THEN stored' = stored \cup {m} /\ UNCHANGED rows
       ELSE /\ sendStatus' = [sendStatus EXCEPT ![r] = "SENT"]
            /\ waMessageId' = [waMessageId EXCEPT ![r] = m]
            /\ delivery' = [delivery EXCEPT ![r] = "SENT"]
            /\ UNCHANGED stored
    /\ End(h)
    /\ UNCHANGED <<begun, wire, lost, retried, hidden>>

\* The transaction is rolled back; the event's handler logs it and goes on.
RollBack(h) ==
    /\ pc[h] = "commit"
    /\ Clashes(h) \/ "db" \in Faults
    /\ Leave(h)
    /\ End(h)
    /\ UNCHANGED <<people, stored, rows, wire, lost, retried, hidden>>

-----------------------------------------------------------------------------
(* Receipts *)

deliveryRank(s) ==
    CASE s = "READ" -> 3 [] s = "DELIVERED" -> 2 [] s = "SENT" -> 1 [] OTHER -> 0

\* Mutant: the newest receipt counts.
NewestCounts(current, incoming) == current # incoming

\* resolveNextDeliveryState
Advances(current, incoming) == deliveryRank(incoming) > deliveryRank(current)

\* updateOutboundDeliveryStatusByWaMessageId: without a row of that id, the
\* receipt is dropped.  (deliveredAt and readAt are written with the status that
\* implies them, so that a receipt that doesn't advance the status finds them
\* set, but after a write that was overtaken.)
Receive(h, w, s) ==
    /\ origin[w] # None
    /\ \E r \in AllRows :
           /\ waMessageId[r] = w
           /\ Advances(delivery[r], s)
           /\ Begin(h, "receipt", r)
    /\ got' = [got EXCEPT ![h] = s]
    /\ UNCHANGED <<people, stored, rows, wire, tries, snapshot, history>>

\* It writes what followed from the status it read.
WriteReceipt(h) ==
    /\ pc[h] = "receipt"
    /\ delivery' = [delivery EXCEPT ![about[h]] = got[h]]
    /\ OvertakeStatus(h)
    /\ End(h)
    /\ UNCHANGED <<people, stored, sendStatus, waMessageId, wire,
                   lost, retried, hidden>>

-----------------------------------------------------------------------------

\* The process dies, or a call outside the try fails, such as that for the
\* organization's connection: nothing sweeps a row that stays PENDING.  A
\* process that dies elsewhere leaves what there was before its request.
Crash(h) ==
    /\ "crash" \in Faults
    /\ pc[h] \in {"send", "result", "failed"}
    /\ lost' = lost \cup {about[h]}
    /\ Leave(h)
    /\ End(h)
    /\ UNCHANGED <<people, stored, rows, wire, retried, hidden>>

Receipts == {"SENT", "DELIVERED", "READ"}

Conversations(h) == BeginCreate(h) \/ Create(h)
Sends(h) ==
    \/ \E r \in Rows : Retry(h, r) \/ \E c \in BOOLEAN : Compose(h, r, c)
    \/ \E w \in Ids : SendSucceeds(h, w) \/ ReplyIsLost(h, w)
    \/ SendFails(h) \/ WriteResult(h) \/ ResultIsLost(h) \/ WriteFailed(h)
Events(h) ==
    \/ \E m \in Inbound \cup Ids : Deliver(h, m)
    \/ OpenTransaction(h) \/ Commit(h) \/ RollBack(h)
    \/ \E w \in Ids, s \in Receipts : Receive(h, w, s)
    \/ WriteReceipt(h)

Next ==
    \/ \E h \in Handlers : Conversations(h) \/ Sends(h) \/ Events(h) \/ Crash(h)
    \/ \E w \in Ids, text \in Rows \cup {None} : WriteOnPhone(w, text)
    \/ SetStatus

Spec == Init /\ [][Next]_vars

-----------------------------------------------------------------------------

Places == {"idle", "create", "send", "result", "failed", "open", "commit", "receipt"}

\* The type of every variable.
TypeOK ==
    /\ customer \in BOOLEAN /\ open \in BOOLEAN
    /\ known \in Nat /\ begun \in Nat
    /\ stored \subseteq Inbound
    /\ sendStatus \in [AllRows -> {"none", "PENDING", "SENT", "FAILED"}]
    /\ waMessageId \in [AllRows -> Ids \cup {None}]
    /\ delivery \in [AllRows -> Receipts \cup {"none"}]
    /\ origin \in [Ids -> Rows \cup {Phone, None}]
    /\ reads \in [Ids -> Rows \cup {None}]
    /\ pc \in [Handlers -> Places]
    /\ about \in [Handlers -> AllRows \cup Inbound \cup {None}]
    /\ got \in [Handlers -> Ids \cup Receipts \cup {None}]
    /\ tries \in [Handlers -> 0 .. Tries]
    /\ snapshot \in [Handlers ->
           [customer : BOOLEAN, conversation : BOOLEAN, row : Rows \cup {None}]]
    /\ overtaken \subseteq Handlers
    /\ lost \cup retried \cup hidden \subseteq Rows

\* A message that WhatsApp took does not say FAILED, which invites the team to
\* send it once more.  The exceptions: what WhatsApp or the database said was
\* lost; its echo could not be told to be its own, for it was sent again, or
\* next to another that reads the same, or too late, or in a form or conversation
\* where it is not looked for.
TakenIsNotFailed ==
    \A w \in Ids :
        (origin[w] \in Rows /\ sendStatus[origin[w]] = "FAILED") =>
            \/ origin[w] \in lost \cup retried \cup hidden
            \/ \E v \in Ids : origin[v] = Phone /\ reads[v] = origin[w]
            \/ known > 1

\* What was read does not become delivered again: receipts only advance a
\* message, whatever order they come in, unless two of them overlap or the
\* result of the send itself is written after them.
StatusNeverGoesBack ==
    [][\A r \in AllRows :
           deliveryRank(delivery'[r]) < deliveryRank(delivery[r]) =>
               \E h \in Handlers :
                   /\ pc'[h] # pc[h]
                   /\ pc[h] \in {"result", "failed"} \/ h \in overtaken]_vars

\* The chat has one conversation, whether it was closed or not, unless two
\* transactions found none, or an agent began one, which is not found.
OneConversation ==
    [][(known + begun > 0 /\ known' + begun' > known + begun) =>
           \/ \E h \in overtaken : pc'[h] # pc[h]
           \/ known = 0]_vars

=============================================================================
