-------------------------- MODULE Receipts_proofs --------------------------
(***************************************************************************)
(* Proofs about the two components that the socket's receipts reach, each  *)
(* on its own: Messages, for any number of handlers, rows, ids and tries,  *)
(* and Rules, which react to what was read, for any number of reactors,    *)
(* messages, actions and READ updates.                                     *)
(***************************************************************************)
EXTENDS Messages, Rules, TLAPS

-----------------------------------------------------------------------------
(* Messages: type correctness                                               *)

Sending(h) == pc[h] \in {"send", "result", "failed"}

\* Where a handler is, it is about a thing of the right kind, and has a try left
\* when it sends.
Placed(h) ==
    /\ pc[h] = "idle" => tries[h] = 0
    /\ Sending(h) => about[h] \in Rows
    /\ pc[h] = "send" => tries[h] < Tries
    /\ pc[h] = "result" => got[h] \in Ids
    /\ pc[h] \in {"open", "commit"} => about[h] \in Inbound \cup Ids
    /\ pc[h] = "receipt" => about[h] \in AllRows /\ got[h] \in Receipts

TypeInv == TypeOK /\ \A h \in Handlers : Placed(h)

\* The handlers' types, alone.
LocalsOK ==
    /\ pc \in [Handlers -> Places]
    /\ about \in [Handlers -> AllRows \cup Inbound \cup {None}]
    /\ got \in [Handlers -> Ids \cup Receipts \cup {None}]
    /\ tries \in [Handlers -> 0 .. Tries]
    /\ snapshot \in [Handlers ->
           [customer : BOOLEAN, conversation : BOOLEAN, row : Rows \cup {None}]]
    /\ \A h \in Handlers : Placed(h)

RestOK ==
    /\ customer \in BOOLEAN /\ open \in BOOLEAN
    /\ known \in Nat /\ begun \in Nat
    /\ stored \subseteq Inbound
    /\ sendStatus \in [AllRows -> {"none", "PENDING", "SENT", "FAILED"}]
    /\ waMessageId \in [AllRows -> Ids \cup {None}]
    /\ delivery \in [AllRows -> Receipts \cup {"none"}]
    /\ origin \in [Ids -> Rows \cup {Phone, None}]
    /\ reads \in [Ids -> Rows \cup {None}]
    /\ overtaken \subseteq Handlers
    /\ lost \subseteq Rows /\ retried \subseteq Rows /\ hidden \subseteq Rows

LEMMA TypesInTwo == TypeInv <=> LocalsOK /\ RestOK
BY DEF TypeInv, TypeOK, LocalsOK, RestOK

LEMMA BeginLocals ==
    ASSUME LocalsOK, NEW h \in Handlers, NEW where \in {"create", "send", "open", "receipt"},
           NEW x \in AllRows \cup Inbound \cup {None}, Begin(h, where, x),
           UNCHANGED <<tries, snapshot>>,
           \/ UNCHANGED got /\ where # "receipt"
           \/ x \in AllRows /\ \E s \in Receipts : got' = [got EXCEPT ![h] = s],
           where = "send" => x \in Rows,
           where = "open" => x \in Inbound \cup Ids
    PROVE  LocalsOK'
BY MessagesAssumption DEF MessagesAssumption, LocalsOK, Placed, Sending, Begin, Places

LEMMA EndLocals == ASSUME LocalsOK, NEW h \in Handlers, End(h) PROVE LocalsOK'
BY MessagesAssumption
DEF MessagesAssumption, LocalsOK, Placed, Sending, End, Goto, Places, Nobody

LEMMA GotoLocals ==
    ASSUME LocalsOK, NEW h \in Handlers, NEW where \in {"failed", "result", "commit"},
           Goto(h, where), UNCHANGED <<about, tries>>, pc[h] # "idle",
           where = "commit" => about[h] \in Inbound \cup Ids,
           where # "commit" => about[h] \in Rows,
           \/ UNCHANGED got /\ where # "result"
           \/ \E w \in Ids : got' = [got EXCEPT ![h] = w],
           snapshot' \in [Handlers ->
               [customer : BOOLEAN, conversation : BOOLEAN, row : Rows \cup {None}]]
    PROVE  LocalsOK'
<1>1. /\ pc' \in [Handlers -> Places] /\ pc'[h] = where
      /\ \A g \in Handlers \ {h} : pc'[g] = pc[g]
  BY DEF LocalsOK, Goto, Places
<1>2. /\ got' \in [Handlers -> Ids \cup Receipts \cup {None}]
      /\ where = "result" => got'[h] \in Ids
      /\ \A g \in Handlers \ {h} : got'[g] = got[g]
  BY DEF LocalsOK
<1>3. ASSUME NEW g \in Handlers PROVE Placed(g)'
  BY <1>1, <1>2, <1>3 DEF LocalsOK, Placed, Sending
<1> QED
  BY <1>1, <1>2, <1>3 DEF LocalsOK

LEMMA TryAgainLocals ==
    ASSUME LocalsOK, NEW h \in Handlers, pc[h] = "send", TryAgain(h),
           UNCHANGED <<about, got, snapshot>>
    PROVE  LocalsOK'
<1>1. Tries \in Nat /\ tries[h] \in 0 .. Tries /\ tries[h] < Tries /\ about[h] \in Rows
  BY MessagesAssumption DEF MessagesAssumption, LocalsOK, Placed, Sending
<1>2. tries[h] + 1 \in 0 .. Tries
  BY <1>1
<1>3. /\ tries' = [tries EXCEPT ![h] = tries[h] + 1]
      /\ pc' = [pc EXCEPT ![h] = IF tries[h] + 1 < Tries THEN "send" ELSE "failed"]
  BY DEF TryAgain, Goto
<1> QED
  BY <1>1, <1>2, <1>3 DEF LocalsOK, Placed, Sending, Places

LEMMA SameLocals == ASSUME LocalsOK, UNCHANGED locals PROVE LocalsOK'
BY DEF LocalsOK, Placed, Sending, locals

LEMMA NextTypeInv == ASSUME TypeInv, [Next]_vars PROVE TypeInv'
<1>0. LocalsOK /\ RestOK
  BY TypesInTwo
<1> SUFFICES LocalsOK' /\ RestOK'
  BY DEF TypeInv, TypeOK, LocalsOK, RestOK
<1> USE <1>0, MessagesAssumption DEF MessagesAssumption, people, rows, wire, history, AllRows
<1>1. ASSUME NEW h \in Handlers, BeginCreate(h) PROVE LocalsOK' /\ RestOK'
  BY <1>1, BeginLocals DEF BeginCreate, RestOK
<1>2. ASSUME NEW h \in Handlers, Create(h) PROVE LocalsOK' /\ RestOK'
  BY <1>2, EndLocals DEF Create, RestOK, Overtake
<1>3. ASSUME NEW h \in Handlers, NEW r \in Rows, Retry(h, r) PROVE LocalsOK' /\ RestOK'
  BY <1>3, BeginLocals DEF Retry, RestOK
<1>4. ASSUME NEW h \in Handlers, NEW r \in Rows, NEW c \in BOOLEAN, Compose(h, r, c)
      PROVE  LocalsOK' /\ RestOK'
  BY <1>4, BeginLocals DEF Compose, RestOK
<1>5. ASSUME NEW h \in Handlers, NEW w \in Ids, SendSucceeds(h, w) PROVE LocalsOK' /\ RestOK'
  <2>1. about[h] \in Rows /\ pc[h] # "idle"
    BY <1>5 DEF SendSucceeds, LocalsOK, Placed, Sending
  <2>2. LocalsOK'
    BY <1>5, <2>1, GotoLocals DEF SendSucceeds, LocalsOK
  <2> QED
    BY <1>5, <2>1, <2>2 DEF SendSucceeds, Take, RestOK
<1>6. ASSUME NEW h \in Handlers, NEW w \in Ids, ReplyIsLost(h, w) PROVE LocalsOK' /\ RestOK'
  <2>1. about[h] \in Rows
    BY <1>6 DEF ReplyIsLost, LocalsOK, Placed, Sending
  <2> QED
    BY <1>6, <2>1, TryAgainLocals DEF ReplyIsLost, Take, RestOK
<1>7. ASSUME NEW h \in Handlers, SendFails(h) PROVE LocalsOK' /\ RestOK'
  BY <1>7, TryAgainLocals DEF SendFails, RestOK
<1>8. ASSUME NEW h \in Handlers, WriteResult(h) PROVE LocalsOK' /\ RestOK'
  <2>1. about[h] \in Rows /\ got[h] \in Ids /\ pc[h] # "idle"
    BY <1>8 DEF WriteResult, LocalsOK, Placed, Sending
  <2>2. CASE Taken(got[h], about[h])
    <3>1. LocalsOK'
      BY <1>8, <2>1, <2>2, GotoLocals DEF WriteResult, LocalsOK
    <3> QED
      BY <1>8, <2>2, <3>1 DEF WriteResult, RestOK
  <2>3. CASE ~ Taken(got[h], about[h])
    BY <1>8, <2>1, <2>3, EndLocals DEF WriteResult, OvertakeStatus, RestOK, Receipts
  <2> QED
    BY <2>2, <2>3
<1>9. ASSUME NEW h \in Handlers, ResultIsLost(h) PROVE LocalsOK' /\ RestOK'
  <2>1. about[h] \in Rows /\ pc[h] # "idle"
    BY <1>9 DEF ResultIsLost, LocalsOK, Placed, Sending
  <2>2. LocalsOK'
    BY <1>9, <2>1, GotoLocals DEF ResultIsLost, LocalsOK
  <2> QED
    BY <1>9, <2>1, <2>2 DEF ResultIsLost, RestOK
<1>10. ASSUME NEW h \in Handlers, WriteFailed(h) PROVE LocalsOK' /\ RestOK'
  <2>1. about[h] \in Rows
    BY <1>10 DEF WriteFailed, LocalsOK, Placed, Sending
  <2> QED
    BY <1>10, <2>1, EndLocals DEF WriteFailed, OvertakeStatus, RestOK
<1>11. ASSUME NEW h \in Handlers, NEW m \in Inbound \cup Ids, Deliver(h, m)
       PROVE  LocalsOK' /\ RestOK'
  BY <1>11, BeginLocals DEF Deliver, RestOK
<1>12. ASSUME NEW h \in Handlers, OpenTransaction(h) PROVE LocalsOK' /\ RestOK'
  <2>1. about[h] \in Inbound \cup Ids /\ pc[h] # "idle"
    BY <1>12 DEF OpenTransaction, LocalsOK, Placed
  <2>2. Match(about[h]) \in Rows \cup {None}
    BY DEF Match, Pending
  <2>3. PICK r \in Rows \cup {None} : snapshot' = [snapshot EXCEPT ![h] =
            [customer |-> customer, conversation |-> FindsConversation, row |-> r]]
    BY <1>12, <2>2 DEF OpenTransaction
  <2>4. snapshot' \in [Handlers ->
            [customer : BOOLEAN, conversation : BOOLEAN, row : Rows \cup {None}]]
    BY <2>3 DEF LocalsOK, RestOK, FindsConversation
  <2>5. LocalsOK'
    BY <1>12, <2>1, <2>4, GotoLocals DEF OpenTransaction
  <2> QED
    BY <1>12, <2>5 DEF OpenTransaction, RestOK
<1>13. ASSUME NEW h \in Handlers, Commit(h) PROVE LocalsOK' /\ RestOK'
  <2>1. about[h] \in Inbound \cup Ids /\ snapshot[h].row \in Rows \cup {None}
    BY <1>13 DEF Commit, LocalsOK, Placed
  <2>2. overtaken' \subseteq Handlers
    BY <1>13 DEF Commit, OvertakeStatus, Overtake, RestOK
  <2>3. known' \in Nat
    BY <1>13 DEF Commit, RestOK
  <2> QED
    BY <1>13, <2>1, <2>2, <2>3, EndLocals DEF Commit, RestOK, Receipts
<1>14. ASSUME NEW h \in Handlers, RollBack(h) PROVE LocalsOK' /\ RestOK'
  BY <1>14, EndLocals DEF RollBack, Leave, RestOK
<1>15. ASSUME NEW h \in Handlers, NEW w \in Ids, NEW s \in Receipts, Receive(h, w, s)
       PROVE  LocalsOK' /\ RestOK'
  BY <1>15, BeginLocals DEF Receive, RestOK
<1>16. ASSUME NEW h \in Handlers, WriteReceipt(h) PROVE LocalsOK' /\ RestOK'
  <2>1. about[h] \in AllRows /\ got[h] \in Receipts
    BY <1>16 DEF WriteReceipt, LocalsOK, Placed
  <2> QED
    BY <1>16, <2>1, EndLocals DEF WriteReceipt, OvertakeStatus, RestOK
<1>17. ASSUME NEW h \in Handlers, Crash(h) PROVE LocalsOK' /\ RestOK'
  <2>1. about[h] \in Rows
    BY <1>17 DEF Crash, LocalsOK, Placed, Sending
  <2> QED
    BY <1>17, <2>1, EndLocals DEF Crash, Leave, RestOK
<1>18. ASSUME NEW w \in Ids, NEW text \in Rows \cup {None}, WriteOnPhone(w, text)
       PROVE  LocalsOK' /\ RestOK'
  BY <1>18, SameLocals DEF WriteOnPhone, Take, RestOK
<1>19. CASE SetStatus
  BY <1>19, SameLocals DEF SetStatus, RestOK
<1>20. CASE UNCHANGED vars
  BY <1>20, SameLocals DEF vars, RestOK
<1> QED
  BY <1>1, <1>2, <1>3, <1>4, <1>5, <1>6, <1>7, <1>8, <1>9, <1>10, <1>11, <1>12, <1>13,
     <1>14, <1>15, <1>16, <1>17, <1>18, <1>19, <1>20
  DEF Next, Conversations, Sends, Events

LEMMA InitTypeInv == ASSUME Init PROVE TypeInv
<1>1. RestOK
  BY DEF Init, RestOK
<1>2. Tries \in Nat /\ 0 < Tries /\ 0 \in 0 .. Tries
  BY MessagesAssumption DEF MessagesAssumption
<1>3. LocalsOK
  BY <1>2 DEF Init, LocalsOK, Placed, Sending, Places, Nobody
<1> QED
  BY <1>1, <1>3, TypesInTwo

\* Every row, id and message that a handler or a transaction has in hand is one of its
\* kind, and a send that may go on has a try left.
THEOREM MessagesTypeCorrect == Spec => []TypeOK
<1>1. Init => TypeInv
  BY InitTypeInv
<1>2. TypeInv /\ [Next]_vars => TypeInv'
  BY NextTypeInv
<1>3. TypeInv => TypeOK
  BY DEF TypeInv
<1> QED
  BY <1>1, <1>2, <1>3, PTL DEF Spec

-----------------------------------------------------------------------------
(* Receipts                                                                 *)

\* Nothing is known of a row's delivery, and nobody is about to write it.
Untracked(r) ==
    /\ waMessageId[r] = None /\ delivery[r] = "none"
    /\ \A h \in Handlers : ~ (pc[h] = "receipt" /\ about[h] = r)

\* What a handler that nobody overtook has read of a message's status is so.
Fresh(h) ==
    h \notin overtaken =>
        /\ pc[h] = "receipt" => Advances(delivery[about[h]], got[h])
        /\ pc[h] = "commit" /\ snapshot[h].row # None => delivery[snapshot[h].row] = "none"

Tracked(r) == sendStatus[r] \in {"none", "PENDING"} => Untracked(r)

\* A row of an echo carries the echo's id from the start.
EchoRow(w) == sendStatus[w] # "none" => waMessageId[w] = w

SeenOK(h) ==
    /\ snapshot[h].row # None => snapshot[h].conversation
    /\ snapshot[h].conversation => known > 0

StatusInv ==
    /\ \A r \in AllRows : Tracked(r)
    /\ \A w \in Ids : EchoRow(w)
    /\ \A h \in Handlers : Fresh(h) /\ SeenOK(h)

LEMMA Ranks ==
    /\ deliveryRank("none") = 0 /\ deliveryRank("SENT") = 1
    /\ deliveryRank("DELIVERED") = 2 /\ deliveryRank("READ") = 3
BY DEF deliveryRank

\* What the handlers other than h have in hand stays theirs.
Elsewhere(h) ==
    \A g \in Handlers \ {h} :
        /\ pc'[g] = pc[g] /\ about'[g] = about[g] /\ got'[g] = got[g]
        /\ snapshot'[g] = snapshot[g]

LEMMA BeginElsewhere ==
    ASSUME TypeInv, NEW h \in Handlers, NEW where, NEW x, Begin(h, where, x), UNCHANGED snapshot,
           UNCHANGED got \/ \E y : got' = [got EXCEPT ![h] = y]
    PROVE  /\ Elsewhere(h) /\ pc[h] = "idle" /\ pc'[h] = where /\ about'[h] = x
           /\ snapshot'[h] = snapshot[h]
BY DEF TypeInv, TypeOK, Begin, Elsewhere

LEMMA EndElsewhere ==
    ASSUME TypeInv, NEW h \in Handlers, End(h)
    PROVE  Elsewhere(h) /\ pc'[h] = "idle" /\ snapshot'[h] = Nobody
BY DEF TypeInv, TypeOK, End, Goto, Elsewhere

LEMMA GotoElsewhere ==
    ASSUME TypeInv, NEW h \in Handlers, NEW where, Goto(h, where), UNCHANGED <<about, snapshot>>,
           UNCHANGED got \/ \E y : got' = [got EXCEPT ![h] = y]
    PROVE  /\ Elsewhere(h) /\ pc'[h] = where /\ about'[h] = about[h]
           /\ snapshot'[h] = snapshot[h]
BY DEF TypeInv, TypeOK, Goto, Elsewhere

\* A step of h, or of nobody's, that leaves the rows alone and begins with
\* nothing that could be overtaken.
LeavesRows(h) ==
    /\ UNCHANGED rows /\ known' = known
    /\ Elsewhere(h)
    /\ pc'[h] \notin {"receipt", "commit"}
    /\ snapshot'[h] \in {snapshot[h], Nobody}
    /\ \A g \in Handlers \ {h} : g \in overtaken => g \in overtaken'

LEMMA LeavesStatus == ASSUME TypeInv, StatusInv, NEW h \in Handlers, LeavesRows(h) PROVE StatusInv'
<1>1. ASSUME NEW r \in AllRows PROVE Tracked(r)'
  BY <1>1 DEF StatusInv, LeavesRows, Elsewhere, Tracked, Untracked, rows
<1>2. ASSUME NEW w \in Ids PROVE EchoRow(w)'
  BY <1>2 DEF StatusInv, LeavesRows, EchoRow, rows
<1>3. ASSUME NEW g \in Handlers PROVE Fresh(g)'
  BY <1>3 DEF StatusInv, LeavesRows, Elsewhere, Fresh, rows
<1>4. ASSUME NEW g \in Handlers PROVE SeenOK(g)'
  BY <1>4 DEF StatusInv, LeavesRows, Elsewhere, SeenOK, Nobody
<1> QED
  BY <1>1, <1>2, <1>3, <1>4 DEF StatusInv

\* These steps are such.
LEMMA QuietSteps ==
    ASSUME TypeInv, NEW h \in Handlers,
           \/ BeginCreate(h) \/ Create(h) \/ RollBack(h) \/ Crash(h)
           \/ SendFails(h) \/ ResultIsLost(h)
           \/ WriteResult(h) /\ Taken(got[h], about[h])
           \/ \E r \in Rows : Retry(h, r)
           \/ \E w \in Ids : SendSucceeds(h, w) \/ ReplyIsLost(h, w)
           \/ \E m \in Inbound \cup Ids : Deliver(h, m)
    PROVE  LeavesRows(h)
<1> USE DEF people, rows, history, LeavesRows
<1>1. CASE BeginCreate(h)
  BY <1>1, BeginElsewhere DEF BeginCreate
<1>2. CASE Create(h)
  BY <1>2, EndElsewhere DEF Create, Overtake
<1>3. CASE RollBack(h)
  BY <1>3, EndElsewhere DEF RollBack, Leave
<1>4. CASE Crash(h)
  BY <1>4, EndElsewhere DEF Crash, Leave
<1>5. CASE SendFails(h)
  BY <1>5, GotoElsewhere DEF SendFails, TryAgain
<1>6. CASE ResultIsLost(h)
  BY <1>6, GotoElsewhere DEF ResultIsLost
<1>7. CASE WriteResult(h) /\ Taken(got[h], about[h])
  BY <1>7, GotoElsewhere DEF WriteResult
<1>8. ASSUME NEW r \in Rows, Retry(h, r) PROVE LeavesRows(h)
  BY <1>8, BeginElsewhere DEF Retry
<1>9. ASSUME NEW w \in Ids, SendSucceeds(h, w) PROVE LeavesRows(h)
  <2>1. /\ Goto(h, "result") /\ UNCHANGED <<about, snapshot>>
        /\ \E y : got' = [got EXCEPT ![h] = y]
    BY <1>9 DEF SendSucceeds
  <2>2. Elsewhere(h) /\ pc'[h] = "result" /\ snapshot'[h] = snapshot[h]
    BY <2>1, GotoElsewhere
  <2> QED
    BY <1>9, <2>2 DEF SendSucceeds
<1>10. ASSUME NEW w \in Ids, ReplyIsLost(h, w) PROVE LeavesRows(h)
  BY <1>10, GotoElsewhere DEF ReplyIsLost, TryAgain
<1>11. ASSUME NEW m \in Inbound \cup Ids, Deliver(h, m) PROVE LeavesRows(h)
  BY <1>11, BeginElsewhere DEF Deliver
<1> QED
  BY <1>1, <1>2, <1>3, <1>4, <1>5, <1>6, <1>7, <1>8, <1>9, <1>10, <1>11

\* Whoever writes a row's status overtakes those that have read one.
WritesStatus(h) ==
    /\ Elsewhere(h) /\ pc'[h] = "idle" /\ snapshot'[h] = Nobody /\ known' = known
    /\ \A g \in Handlers \ {h} :
           pc[g] = "receipt" \/ (pc[g] = "commit" /\ snapshot[g].row # None) => g \in overtaken'

LEMMA WritesFresh ==
    ASSUME StatusInv, NEW h \in Handlers, WritesStatus(h)
    PROVE  \A g \in Handlers : (Fresh(g) /\ SeenOK(g))'
BY DEF StatusInv, WritesStatus, Elsewhere, Fresh, SeenOK, Nobody

LEMMA EndWritesStatus ==
    ASSUME TypeInv, NEW h \in Handlers, OvertakeStatus(h), End(h), UNCHANGED known
    PROVE  WritesStatus(h)
BY EndElsewhere DEF OvertakeStatus, WritesStatus

\* A row that is not PENDING any more may have any delivery status.
LEMMA RowWritten ==
    ASSUME TypeInv, StatusInv, NEW h \in Handlers, NEW r \in Rows, Elsewhere(h), pc'[h] = "idle",
           NEW st \in {"SENT", "FAILED"}, NEW id, NEW d,
           sendStatus' = [sendStatus EXCEPT ![r] = st],
           waMessageId' = [waMessageId EXCEPT ![r] = id],
           delivery' = [delivery EXCEPT ![r] = d]
    PROVE  /\ \A q \in AllRows : Tracked(q)'
           /\ \A w \in Ids : EchoRow(w)'
<1>1. r \notin Ids
  BY MessagesAssumption DEF MessagesAssumption
<1>2. ASSUME NEW q \in AllRows PROVE Tracked(q)'
  BY <1>2 DEF StatusInv, TypeInv, TypeOK, Tracked, Untracked, Elsewhere
<1>3. ASSUME NEW w \in Ids PROVE EchoRow(w)'
  BY <1>1, <1>3 DEF StatusInv, TypeInv, TypeOK, EchoRow, AllRows
<1> QED
  BY <1>2, <1>3

LEMMA CommitStatusInv == ASSUME TypeInv, StatusInv, NEW h \in Handlers, Commit(h) PROVE StatusInv'
<1> DEFINE m == about[h]
           s == snapshot[h].row
<1> USE DEF people, rows, history
<1>0. /\ m \in Inbound \cup Ids /\ s \in Rows \cup {None} /\ ~ Clashes(h) /\ End(h)
      /\ Ids \cap Inbound = {} /\ Ids \cap Rows = {} /\ None \notin AllRows /\ known \in Nat
  BY MessagesAssumption DEF MessagesAssumption, Commit, TypeInv, TypeOK, Placed, AllRows
<1>1. Elsewhere(h) /\ pc'[h] = "idle" /\ snapshot'[h] = Nobody
  BY <1>0, EndElsewhere
<1>2. s # None => snapshot[h].conversation
  BY DEF StatusInv, SeenOK
<1>3. known' \in Nat /\ known' >= known
  BY <1>0 DEF Commit
<1>4. \A g \in Handlers : SeenOK(g)'
  BY <1>0, <1>1, <1>3 DEF StatusInv, SeenOK, Elsewhere, Nobody
<1>5. CASE m \in Inbound
  <2>1. UNCHANGED rows
    BY <1>5 DEF Commit
  <2>2. \A g \in Handlers \ {h} : g \in overtaken => g \in overtaken'
    BY <1>5 DEF Commit, Overtake, OvertakeStatus
  <2>3. ASSUME NEW q \in AllRows PROVE Tracked(q)'
    BY <1>1, <2>1, <2>3 DEF StatusInv, Elsewhere, Tracked, Untracked
  <2>4. ASSUME NEW w \in Ids PROVE EchoRow(w)'
    BY <2>1, <2>4 DEF StatusInv, EchoRow
  <2>5. ASSUME NEW g \in Handlers PROVE Fresh(g)'
    BY <1>1, <2>1, <2>2, <2>5 DEF StatusInv, Elsewhere, Fresh
  <2> QED
    BY <1>4, <2>3, <2>4, <2>5 DEF StatusInv
<1>6. CASE m \in Ids /\ s # None
  <2>1. /\ sendStatus' = [sendStatus EXCEPT ![s] = "SENT"]
        /\ waMessageId' = [waMessageId EXCEPT ![s] = m]
        /\ delivery' = [delivery EXCEPT ![s] = "SENT"]
        /\ OvertakeStatus(h) /\ known' = known
    BY <1>0, <1>2, <1>6 DEF Commit
  <2>2. WritesStatus(h)
    BY <1>0, <2>1, EndWritesStatus
  <2>3. (\A q \in AllRows : Tracked(q)') /\ \A w \in Ids : EchoRow(w)'
    <3>1. s \in Rows
      BY <1>0, <1>6
    <3> HIDE DEF s, m
    <3> QED
      BY <1>1, <2>1, <3>1, RowWritten
  <2> QED
    BY <2>2, <2>3, WritesFresh DEF StatusInv
<1>7. CASE m \in Ids /\ s = None
  <2>1. /\ sendStatus' = [sendStatus EXCEPT ![m] = "SENT"]
        /\ waMessageId' = [waMessageId EXCEPT ![m] = m]
        /\ delivery' = [delivery EXCEPT ![m] = "SENT"]
    BY <1>0, <1>7 DEF Commit
  <2>2. waMessageId[m] # m
    BY <1>0, <1>7 DEF Clashes, Taken, AllRows
  <2>3. Untracked(m)
    BY <1>7, <2>2 DEF StatusInv, EchoRow, Tracked, AllRows
  <2>4. \A g \in Handlers \ {h} : g \in overtaken => g \in overtaken'
    BY <1>7 DEF Commit, Overtake, OvertakeStatus
  <2>5. ASSUME NEW q \in AllRows PROVE Tracked(q)'
    BY <1>1, <1>7, <2>1, <2>5
    DEF StatusInv, TypeInv, TypeOK, Elsewhere, Tracked, Untracked
  <2>6. ASSUME NEW w \in Ids PROVE EchoRow(w)'
    BY <1>7, <2>1, <2>6 DEF StatusInv, TypeInv, TypeOK, EchoRow, AllRows
  <2>7. ASSUME NEW g \in Handlers PROVE Fresh(g)'
    <3>1. CASE g = h
      BY <1>1, <3>1 DEF Fresh
    <3>2. CASE g # h
      <4>1. pc[g] = "receipt" => about[g] # m
        BY <2>3, <2>7 DEF Untracked
      <4>2. snapshot[g].row # m
        <5>1. snapshot[g].row \in Rows \cup {None}
          BY <2>7 DEF TypeInv, TypeOK
        <5> HIDE DEF m
        <5> QED
          BY <1>0, <1>7, <5>1 DEF AllRows
      <4>3. \A q : q # m => delivery'[q] = delivery[q]
        BY <2>1 DEF TypeInv, TypeOK
      <4> QED
        BY <1>1, <2>4, <2>7, <3>2, <4>1, <4>2, <4>3 DEF StatusInv, Elsewhere, Fresh
    <3> QED
      BY <3>1, <3>2
  <2> QED
    BY <1>4, <2>5, <2>6, <2>7 DEF StatusInv
<1> QED
  BY <1>0, <1>5, <1>6, <1>7

LEMMA NextStatusInv == ASSUME TypeInv, StatusInv, [Next]_vars PROVE StatusInv'
<1> USE DEF people, rows, history
<1>1. ASSUME NEW h \in Handlers, LeavesRows(h) PROVE StatusInv'
  BY <1>1, LeavesStatus
<1>2. ASSUME NEW h \in Handlers, NEW r \in Rows, NEW c \in BOOLEAN, Compose(h, r, c)
      PROVE  StatusInv'
  <2>1. /\ Elsewhere(h) /\ pc'[h] = "send" /\ snapshot'[h] = snapshot[h]
        /\ sendStatus[r] = "none" /\ sendStatus' = [sendStatus EXCEPT ![r] = "PENDING"]
        /\ UNCHANGED <<waMessageId, delivery, overtaken, known>>
    BY <1>2, BeginElsewhere DEF Compose
  <2>2. r \notin Ids
    BY MessagesAssumption DEF MessagesAssumption
  <2>3. ASSUME NEW q \in AllRows PROVE Tracked(q)'
    BY <2>1, <2>3 DEF StatusInv, TypeInv, TypeOK, Tracked, Untracked, Elsewhere
  <2>4. ASSUME NEW w \in Ids PROVE EchoRow(w)'
    BY <2>1, <2>2, <2>4 DEF StatusInv, TypeInv, TypeOK, EchoRow, AllRows
  <2>5. ASSUME NEW g \in Handlers PROVE (Fresh(g) /\ SeenOK(g))'
    BY <2>1, <2>5 DEF StatusInv, Fresh, SeenOK, Elsewhere
  <2> QED
    BY <2>3, <2>4, <2>5 DEF StatusInv
<1>3. ASSUME NEW h \in Handlers, WriteResult(h), ~ Taken(got[h], about[h]) PROVE StatusInv'
  <2>1. about[h] \in Rows
    BY <1>3 DEF WriteResult, TypeInv, Placed, Sending
  <2>2. End(h) /\ OvertakeStatus(h) /\ UNCHANGED known
    BY <1>3 DEF WriteResult
  <2>3. WritesStatus(h)
    BY <2>2, EndWritesStatus
  <2>4. (\A q \in AllRows : Tracked(q)') /\ \A w \in Ids : EchoRow(w)'
    <3>1. Elsewhere(h) /\ pc'[h] = "idle"
      BY <2>3 DEF WritesStatus
    <3>2. /\ sendStatus' = [sendStatus EXCEPT ![about[h]] = "SENT"]
          /\ waMessageId' = [waMessageId EXCEPT ![about[h]] = got[h]]
          /\ delivery' = [delivery EXCEPT ![about[h]] = "SENT"]
      BY <1>3 DEF WriteResult
    <3> QED
      BY <2>1, <3>1, <3>2, RowWritten
  <2> QED
    BY <2>3, <2>4, WritesFresh DEF StatusInv
<1>4. ASSUME NEW h \in Handlers, WriteFailed(h) PROVE StatusInv'
  <2>1. about[h] \in Rows
    BY <1>4 DEF WriteFailed, TypeInv, Placed, Sending
  <2>2. End(h) /\ OvertakeStatus(h) /\ UNCHANGED known
    BY <1>4 DEF WriteFailed
  <2>3. WritesStatus(h)
    BY <2>2, EndWritesStatus
  <2>4. (\A q \in AllRows : Tracked(q)') /\ \A w \in Ids : EchoRow(w)'
    <3>1. Elsewhere(h) /\ pc'[h] = "idle"
      BY <2>3 DEF WritesStatus
    <3>2. /\ sendStatus' = [sendStatus EXCEPT ![about[h]] = "FAILED"]
          /\ waMessageId' = [waMessageId EXCEPT ![about[h]] = None]
          /\ delivery' = [delivery EXCEPT ![about[h]] = "none"]
      BY <1>4 DEF WriteFailed
    <3> QED
      BY <2>1, <3>1, <3>2, RowWritten
  <2> QED
    BY <2>3, <2>4, WritesFresh DEF StatusInv
<1>5. ASSUME NEW h \in Handlers, OpenTransaction(h) PROVE StatusInv'
  <2>0. Match(about[h]) # None => FindsConversation /\ Match(about[h]) \in Pending
    BY DEF Match
  <2>1. PICK r : /\ snapshot' = [snapshot EXCEPT ![h] =
                        [customer |-> customer, conversation |-> FindsConversation, row |-> r]]
                 /\ r # None => FindsConversation /\ r \in Pending
    BY <1>5, <2>0 DEF OpenTransaction
  <2>2. /\ pc' = [pc EXCEPT ![h] = "commit"]
        /\ UNCHANGED <<people, rows, about, got, history>>
    BY <1>5 DEF OpenTransaction, Goto
  <2>3. pc'[h] = "commit" /\ \A g \in Handlers \ {h} : pc'[g] = pc[g] /\ snapshot'[g] = snapshot[g]
    BY <2>1, <2>2 DEF TypeInv, TypeOK
  <2>4. /\ snapshot'[h].row = r /\ snapshot'[h].conversation = FindsConversation
    BY <2>1 DEF TypeInv, TypeOK
  <2>5. r # None => delivery[r] = "none"
    BY <2>1 DEF Pending, StatusInv, Tracked, Untracked, AllRows
  <2>6. ASSUME NEW g \in Handlers PROVE (Fresh(g) /\ SeenOK(g))'
    BY <2>1, <2>2, <2>3, <2>4, <2>5, <2>6
    DEF StatusInv, Fresh, SeenOK, FindsConversation
  <2>7. ASSUME NEW q \in AllRows PROVE Tracked(q)'
    BY <2>2, <2>3, <2>7 DEF StatusInv, Tracked, Untracked
  <2>8. ASSUME NEW w \in Ids PROVE EchoRow(w)'
    BY <2>2, <2>8 DEF StatusInv, EchoRow
  <2> QED
    BY <2>6, <2>7, <2>8 DEF StatusInv
<1>6. ASSUME NEW h \in Handlers, Commit(h) PROVE StatusInv'
  BY <1>6, CommitStatusInv
<1>7. ASSUME NEW h \in Handlers, NEW w \in Ids, NEW s \in Receipts, Receive(h, w, s)
      PROVE  StatusInv'
  <2>1. PICK r \in AllRows : waMessageId[r] = w /\ Advances(delivery[r], s) /\ Begin(h, "receipt", r)
    BY <1>7 DEF Receive
  <2>2. /\ got' = [got EXCEPT ![h] = s] /\ UNCHANGED <<people, rows, snapshot, history>>
    BY <1>7 DEF Receive
  <2>3. \E y : got' = [got EXCEPT ![h] = y]
    BY <2>2
  <2>4. /\ Elsewhere(h) /\ pc'[h] = "receipt" /\ about'[h] = r /\ snapshot'[h] = snapshot[h]
        /\ got'[h] = s
    <3>1. got'[h] = s
      BY <2>2 DEF TypeInv, TypeOK
    <3> QED
      BY <2>1, <2>2, <2>3, <3>1, BeginElsewhere
  <2>5. w # None
    BY MessagesAssumption DEF MessagesAssumption
  <2>6. ASSUME NEW q \in AllRows PROVE Tracked(q)'
    BY <2>1, <2>2, <2>4, <2>5, <2>6 DEF StatusInv, Tracked, Untracked, Elsewhere
  <2>7. ASSUME NEW v \in Ids PROVE EchoRow(v)'
    BY <2>2, <2>7 DEF StatusInv, EchoRow
  <2>8. ASSUME NEW g \in Handlers PROVE (Fresh(g) /\ SeenOK(g))'
    BY <2>1, <2>2, <2>4, <2>8 DEF StatusInv, Fresh, SeenOK, Elsewhere
  <2> QED
    BY <2>6, <2>7, <2>8 DEF StatusInv
<1>8. ASSUME NEW h \in Handlers, WriteReceipt(h) PROVE StatusInv'
  <2>1. about[h] \in AllRows /\ pc[h] = "receipt"
    BY <1>8 DEF WriteReceipt, TypeInv, Placed
  <2>2. End(h) /\ OvertakeStatus(h) /\ UNCHANGED <<known, sendStatus, waMessageId>>
    BY <1>8 DEF WriteReceipt
  <2>3. WritesStatus(h)
    BY <2>2, EndWritesStatus
  <2>4. ASSUME NEW q \in AllRows PROVE Tracked(q)'
    BY <1>8, <2>1, <2>2, <2>3, <2>4
    DEF WriteReceipt, StatusInv, TypeInv, TypeOK, Tracked, Untracked, WritesStatus,
        Elsewhere
  <2>5. ASSUME NEW w \in Ids PROVE EchoRow(w)'
    BY <2>2, <2>5 DEF StatusInv, EchoRow
  <2> QED
    BY <2>3, <2>4, <2>5, WritesFresh DEF StatusInv
<1>9. ASSUME UNCHANGED <<rows, locals, history, known>> PROVE StatusInv'
  BY <1>9 DEF StatusInv, Tracked, Untracked, EchoRow, Fresh, SeenOK, locals
<1>10. ASSUME NEW w \in Ids, NEW text \in Rows \cup {None}, WriteOnPhone(w, text) PROVE StatusInv'
  BY <1>9, <1>10 DEF WriteOnPhone
<1>11. CASE SetStatus
  BY <1>9, <1>11 DEF SetStatus
<1>12. CASE UNCHANGED vars
  BY <1>9, <1>12 DEF vars
<1> QED
  BY <1>1, <1>2, <1>3, <1>4, <1>5, <1>6, <1>7, <1>8, <1>10, <1>11, <1>12, QuietSteps
  DEF Next, Conversations, Sends, Events

LEMMA InitStatusInv == ASSUME Init PROVE StatusInv
BY DEF Init, StatusInv, Tracked, Untracked, EchoRow, Fresh, SeenOK, Nobody, AllRows

\* A status that goes back is written by a handler that moves on with it: for a send's
\* result, or for a status it read before another one wrote.
LEMMA GoesBack ==
    ASSUME TypeInv, StatusInv, Next, NEW r \in AllRows,
           deliveryRank(delivery'[r]) < deliveryRank(delivery[r])
    PROVE  \E h \in Handlers :
               pc'[h] # pc[h] /\ (pc[h] \in {"result", "failed"} \/ h \in overtaken)
<1> USE DEF people, rows, history
<1>0. delivery \in [AllRows -> Receipts \cup {"none"}] /\ None \notin AllRows
  BY MessagesAssumption DEF TypeInv, TypeOK, MessagesAssumption, AllRows
<1>1. delivery'[r] # delivery[r]
  BY <1>0, Ranks DEF Receipts
<1>2. ASSUME NEW h \in Handlers, Commit(h), h \notin overtaken PROVE FALSE
  <2> DEFINE x == IF snapshot[h].row = None THEN about[h] ELSE snapshot[h].row
  <2>1. about[h] \notin Inbound /\ ~ Clashes(h) /\ pc[h] = "commit" /\ about[h] \in Ids
    BY <1>1, <1>2 DEF Commit, TypeInv, Placed
  <2>2. delivery' = [delivery EXCEPT ![x] = "SENT"]
    BY <2>1, <1>2 DEF Commit
  <2>3. r = x /\ delivery'[r] = "SENT"
    <3> HIDE DEF x
    <3> QED
      BY <1>0, <1>1, <2>2
  <2>4. delivery[x] = "none"
    <3>1. CASE snapshot[h].row = None
      <4>1. waMessageId[about[h]] # about[h]
        BY <1>0, <2>1, <3>1 DEF Clashes, Taken, AllRows
      <4> QED
        BY <2>1, <3>1, <4>1 DEF StatusInv, EchoRow, Tracked, Untracked, AllRows
    <3>2. CASE snapshot[h].row # None
      BY <1>2, <2>1, <3>2 DEF StatusInv, Fresh
    <3> QED
      BY <3>1, <3>2
  <2> QED
    BY <2>3, <2>4, Ranks
<1>3. ASSUME NEW h \in Handlers, WriteReceipt(h), h \notin overtaken PROVE FALSE
  <2>1. delivery' = [delivery EXCEPT ![about[h]] = got[h]] /\ pc[h] = "receipt"
    BY <1>3 DEF WriteReceipt
  <2>2. Advances(delivery[about[h]], got[h]) /\ got[h] \in Receipts
    BY <1>3, <2>1 DEF StatusInv, Fresh, TypeInv, Placed
  <2>3. r = about[h] /\ delivery'[r] = got[h]
    BY <1>0, <1>1, <2>1
  <2>4. \A t \in Receipts \cup {"none"} : deliveryRank(t) \in Nat
    BY Ranks DEF Receipts
  <2> QED
    BY <1>0, <2>2, <2>3, <2>4 DEF Advances
<1>4. ASSUME NEW h \in Handlers, End(h), pc[h] # "idle" PROVE pc'[h] # pc[h]
  BY <1>4, EndElsewhere
<1>5. PICK h \in Handlers : Commit(h) \/ WriteReceipt(h) \/ WriteResult(h) \/ WriteFailed(h)
  BY <1>1
  DEF Next, Conversations, Sends, Events, BeginCreate, Create, Retry, Compose,
      SendSucceeds, SendFails, ReplyIsLost, ResultIsLost, Deliver, OpenTransaction,
      RollBack, Receive, Crash, WriteOnPhone, SetStatus
<1>6. End(h) /\ pc[h] # "idle"
  BY <1>1, <1>5 DEF Commit, WriteReceipt, WriteResult, WriteFailed
<1> QED
  BY <1>2, <1>3, <1>4, <1>5, <1>6 DEF WriteResult, WriteFailed

\* However receipts, echoes and results of sends overlap, the delivery status of a message
\* goes back only by the hand of a handler that read a status which another one
\* overwrote since, or by the result of its own send.
THEOREM ReceiptsAdvance == Spec => StatusNeverGoesBack
<1> DEFINE Forward ==
        \A r \in AllRows :
            deliveryRank(delivery'[r]) < deliveryRank(delivery[r]) =>
                \E h \in Handlers :
                    /\ pc'[h] # pc[h]
                    /\ pc[h] \in {"result", "failed"} \/ h \in overtaken
<1>1. Init => TypeInv /\ StatusInv
  BY InitTypeInv, InitStatusInv
<1>2. TypeInv /\ StatusInv /\ [Next]_vars => (TypeInv /\ StatusInv)'
  BY NextTypeInv, NextStatusInv
<1>3. TypeInv /\ StatusInv /\ [Next]_vars => [Forward]_vars
  BY GoesBack
<1> QED
  BY <1>1, <1>2, <1>3, PTL DEF Spec, StatusNeverGoesBack

-----------------------------------------------------------------------------
(* Conversations                                                            *)

Alone(h) ==
    h \notin overtaken =>
        /\ pc[h] = "create" => known + begun = 0
        /\ pc[h] = "commit" /\ ~ snapshot[h].conversation => known = 0

AloneInv == \A h \in Handlers : Alone(h)

LEMMA NextAloneInv == ASSUME TypeInv, AloneInv, [Next]_vars PROVE AloneInv'
<1> USE DEF people, rows, history
<1>0. known \in Nat /\ begun \in Nat
  BY DEF TypeInv, TypeOK
<1>1. ASSUME NEW h \in Handlers, Elsewhere(h), UNCHANGED <<known, begun>>,
             pc'[h] \notin {"create", "commit"},
             \A g \in Handlers \ {h} : g \in overtaken => g \in overtaken'
      PROVE  AloneInv'
  BY <1>1 DEF AloneInv, Alone, Elsewhere
<1>2. ASSUME NEW h \in Handlers, BeginCreate(h) PROVE AloneInv'
  <2>1. /\ Elsewhere(h) /\ pc'[h] = "create"
        /\ UNCHANGED <<known, begun, overtaken>> /\ known + begun = 0
    BY <1>2, BeginElsewhere DEF BeginCreate
  <2> QED
    BY <2>1 DEF AloneInv, Alone, Elsewhere
<1>3. ASSUME NEW h \in Handlers, Create(h) \/ Commit(h) PROVE AloneInv'
  <2>1. End(h) /\ (Overtake(h) \/ (OvertakeStatus(h) /\ UNCHANGED <<known, begun>>))
    BY <1>3 DEF Create, Commit
  <2>2. Elsewhere(h) /\ pc'[h] = "idle"
    BY <2>1, EndElsewhere
  <2>3. CASE Overtake(h)
    BY <2>2, <2>3 DEF Overtake, AloneInv, Alone, Elsewhere
  <2>4. CASE OvertakeStatus(h) /\ UNCHANGED <<known, begun>>
    BY <1>1, <2>2, <2>4 DEF OvertakeStatus
  <2> QED
    BY <2>1, <2>3, <2>4
<1>4. ASSUME NEW h \in Handlers,
             \/ WriteFailed(h) \/ WriteReceipt(h)
             \/ WriteResult(h) /\ ~ Taken(got[h], about[h])
      PROVE  AloneInv'
  <2>1. End(h) /\ OvertakeStatus(h) /\ UNCHANGED <<known, begun>>
    BY <1>4 DEF WriteFailed, WriteReceipt, WriteResult
  <2> QED
    BY <1>1, <2>1, EndElsewhere DEF OvertakeStatus
<1>5. ASSUME NEW h \in Handlers, OpenTransaction(h) PROVE AloneInv'
  <2>1. PICK r : snapshot' = [snapshot EXCEPT ![h] =
                     [customer |-> customer, conversation |-> FindsConversation, row |-> r]]
    BY <1>5 DEF OpenTransaction
  <2>2. pc' = [pc EXCEPT ![h] = "commit"] /\ UNCHANGED <<known, begun, overtaken>>
    BY <1>5 DEF OpenTransaction, Goto
  <2>3. /\ pc'[h] = "commit" /\ snapshot'[h].conversation = FindsConversation
        /\ \A g \in Handlers \ {h} : pc'[g] = pc[g] /\ snapshot'[g] = snapshot[g]
    BY <2>1, <2>2 DEF TypeInv, TypeOK
  <2> QED
    <3>1. ~ snapshot'[h].conversation => known = 0
      <4>1. FindsConversation \/ known = 0
        BY <1>0 DEF FindsConversation
      <4> QED
        BY <2>3, <4>1
    <3>2. Alone(h)'
      BY <2>2, <2>3, <3>1 DEF Alone
    <3>3. ASSUME NEW g \in Handlers, g # h PROVE Alone(g)'
      BY <2>2, <2>3, <3>3 DEF AloneInv, Alone
    <3> QED
      BY <3>2, <3>3 DEF AloneInv
<1>6. ASSUME NEW h \in Handlers, NEW w \in Ids, NEW s \in Receipts, Receive(h, w, s) PROVE AloneInv'
  <2>1. PICK r : Begin(h, "receipt", r)
    BY <1>6 DEF Receive
  <2>2. \E y : got' = [got EXCEPT ![h] = y]
    BY <1>6 DEF Receive
  <2>3. Elsewhere(h) /\ pc'[h] = "receipt"
    BY <1>6, <2>1, <2>2, BeginElsewhere DEF Receive
  <2> QED
    BY <1>1, <1>6, <2>3 DEF Receive
<1>7. ASSUME NEW h \in Handlers,
             \/ RollBack(h) \/ Crash(h) \/ SendFails(h) \/ ResultIsLost(h)
             \/ WriteResult(h) /\ Taken(got[h], about[h])
             \/ \E r \in Rows : Retry(h, r)
             \/ \E w \in Ids : SendSucceeds(h, w) \/ ReplyIsLost(h, w)
             \/ \E m \in Inbound \cup Ids : Deliver(h, m)
      PROVE  AloneInv'
  <2>1. LeavesRows(h)
    BY <1>7, QuietSteps
  <2>2. UNCHANGED begun
    BY <1>7
    DEF RollBack, Crash, SendFails, ResultIsLost, WriteResult, Retry, SendSucceeds,
        ReplyIsLost, Deliver
  <2>3. pc'[h] # "create"
    <3>1. \/ pc'[h] = "idle" \/ Goto(h, "failed") \/ Goto(h, "result") \/ TryAgain(h)
          \/ \E x : Begin(h, "send", x) \/ Begin(h, "open", x)
      BY <1>7, EndElsewhere
      DEF RollBack, Crash, SendFails, ResultIsLost, WriteResult, Retry, SendSucceeds,
          ReplyIsLost, Deliver
    <3> QED
      BY <3>1 DEF Goto, TryAgain, Begin, TypeInv, TypeOK
  <2> QED
    BY <1>1, <2>1, <2>2, <2>3 DEF LeavesRows
<1>8. ASSUME NEW h \in Handlers, NEW r \in Rows, NEW c \in BOOLEAN, Compose(h, r, c) PROVE AloneInv'
  <2>1. Elsewhere(h) /\ pc'[h] = "send"
    BY <1>8, BeginElsewhere DEF Compose
  <2> QED
    BY <1>1, <1>8, <2>1 DEF Compose
<1>9. ASSUME UNCHANGED <<locals, history, known, begun>> PROVE AloneInv'
  BY <1>9 DEF AloneInv, Alone, locals
<1>10. ASSUME NEW w \in Ids, NEW text \in Rows \cup {None}, WriteOnPhone(w, text) PROVE AloneInv'
  BY <1>9, <1>10 DEF WriteOnPhone
<1>11. CASE SetStatus
  BY <1>9, <1>11 DEF SetStatus
<1>12. CASE UNCHANGED vars
  BY <1>9, <1>12 DEF vars
<1> QED
  BY <1>2, <1>3, <1>4, <1>5, <1>6, <1>7, <1>8, <1>10, <1>11, <1>12
  DEF Next, Conversations, Sends, Events

LEMMA InitAloneInv == ASSUME Init PROVE AloneInv
BY DEF Init, AloneInv, Alone

\* A chat gets another conversation only from a handler that found none and whom
\* another one overtook, or next to one that an agent began.
THEOREM ChatIsOne == Spec => OneConversation
<1> DEFINE One ==
        (known + begun > 0 /\ known' + begun' > known + begun) =>
            \/ \E h \in overtaken : pc'[h] # pc[h]
            \/ known = 0
<1>1. Init => TypeInv /\ AloneInv
  BY InitTypeInv, InitAloneInv
<1>2. TypeInv /\ AloneInv /\ [Next]_vars => (TypeInv /\ AloneInv)'
  BY NextTypeInv, NextAloneInv
<1>3. ASSUME TypeInv, AloneInv, Next PROVE One
  <2> SUFFICES ASSUME known + begun > 0, known' + begun' > known + begun, known # 0
               PROVE  \E h \in overtaken : pc'[h] # pc[h]
    OBVIOUS
  <2>0. known \in Nat /\ begun \in Nat
    BY <1>3 DEF TypeInv, TypeOK
  <2>1. ~ UNCHANGED <<known, begun>>
    <3> SUFFICES ASSUME known' = known, begun' = begun PROVE FALSE
      OBVIOUS
    <3> QED
      BY <2>0
  <2>2. PICK h \in Handlers : Create(h) \/ Commit(h)
    BY <1>3, <2>0, <2>1
    DEF people, Next, Conversations, Sends, Events, BeginCreate, Retry, Compose,
        SendSucceeds, SendFails, ReplyIsLost, ResultIsLost, WriteResult, WriteFailed,
        Deliver, OpenTransaction, RollBack, Receive, WriteReceipt, Crash,
        WriteOnPhone, SetStatus
  <2>3. End(h) /\ pc[h] # "idle"
    BY <2>2 DEF Create, Commit
  <2>4. pc'[h] # pc[h]
    BY <1>3, <2>3, EndElsewhere
  <2>5. pc[h] = "create" \/ (pc[h] = "commit" /\ ~ snapshot[h].conversation)
    BY <2>1, <2>2 DEF Create, Commit
  <2>6. h \in overtaken
    BY <1>3, <2>0, <2>5 DEF AloneInv, Alone
  <2> QED
    BY <2>4, <2>6
<1>4. TypeInv /\ AloneInv /\ [Next]_vars => [One]_vars
  BY <1>3
<1> QED
  BY <1>1, <1>2, <1>4, PTL DEF Spec, OneConversation

-----------------------------------------------------------------------------
(* Messages that were taken                                                 *)

\* A message of a row reads like the row, ids are those of messages that were
\* taken, and who has one in hand knows whose it is.
WireOK ==
    /\ \A w \in Ids : origin[w] \in Rows => reads[w] = origin[w]
    /\ \A q \in AllRows : waMessageId[q] # None => origin[waMessageId[q]] # None

InHandOK(h) ==
    /\ pc[h] \in {"open", "commit"} /\ about[h] \in Ids => origin[about[h]] # None
    /\ pc[h] = "result" => origin[got[h]] = about[h]
    /\ pc[h] = "commit" /\ snapshot[h].row # None =>
           about[h] \in Ids /\ reads[about[h]] = snapshot[h].row

\* None of the exceptions of TakenIsNotFailed applies to the row.
Plain(r) ==
    /\ r \notin lost \cup retried \cup hidden
    /\ \A v \in Ids : ~ (origin[v] = Phone /\ reads[v] = r)
    /\ known <= 1

TakenAs(r) == {w \in Ids : origin[w] = r}

SentBy(r) == {h \in Handlers : Sending(h) /\ about[h] = r}

\* Where a row is from its first send on, and what WhatsApp has of it.
SentOK(r) ==
    /\ \A g, h \in SentBy(r) : g = h
    /\ \A v, w \in TakenAs(r) : v = w
    /\ sendStatus[r] \in {"none", "FAILED"} => SentBy(r) = {} /\ TakenAs(r) = {}
    /\ sendStatus[r] # "none" => known > 0
    /\ sendStatus[r] = "SENT" => waMessageId[r] \in TakenAs(r)
    /\ \A h \in SentBy(r) : IF pc[h] = "result" THEN got[h] \in TakenAs(r) ELSE TakenAs(r) = {}

\* The message is found under its row, by its id or by the echo that has it in
\* hand.
EchoOK(r) ==
    \A w \in TakenAs(r) :
        /\ \A q \in AllRows \ {r} : waMessageId[q] # w
        /\ \A h \in Handlers :
               pc[h] = "commit" /\ about[h] = w =>
                   \/ snapshot[h].row = r
                   \/ snapshot[h].row = None /\ waMessageId[r] = w

TakenInv ==
    /\ WireOK
    /\ \A h \in Handlers : InHandOK(h)
    /\ \A r \in Rows : Plain(r) => SentOK(r) /\ EchoOK(r)

\* No exception is ever taken back, and what WhatsApp took stays what it is.
LEMMA Lasting ==
    ASSUME TypeInv, [Next]_vars
    PROVE  /\ lost \subseteq lost' /\ retried \subseteq retried' /\ hidden \subseteq hidden'
           /\ \A w \in Ids : origin[w] # None => origin'[w] = origin[w] /\ reads'[w] = reads[w]
           /\ known <= known'
<1> USE DEF people, rows, wire, history
<1>0. /\ known \in Nat
      /\ origin \in [Ids -> Rows \cup {Phone, None}] /\ reads \in [Ids -> Rows \cup {None}]
  BY DEF TypeInv, TypeOK
<1>1. ASSUME NEW w \in Ids, NEW from, NEW text, Take(w, from, text)
      PROVE  \A v \in Ids : origin[v] # None => origin'[v] = origin[v] /\ reads'[v] = reads[v]
  BY <1>0, <1>1 DEF Take
<1>2. CASE UNCHANGED vars
  BY <1>0, <1>2 DEF vars
<1>3. CASE Next
  <2> DEFINE Grows == /\ lost \subseteq lost' /\ retried \subseteq retried'
                      /\ hidden \subseteq hidden'
             Learns == known' = known \/ known' = known + 1
             Hears == UNCHANGED wire \/ \E w \in Ids : \E from, text : Take(w, from, text)
  <2>1. ASSUME NEW h \in Handlers, Conversations(h) \/ Crash(h)
        PROVE  Grows /\ Learns /\ Hears
    BY <2>1 DEF Conversations, BeginCreate, Create, Crash
  <2>2. ASSUME NEW h \in Handlers, NEW r \in Rows,
               Retry(h, r) \/ \E c \in BOOLEAN : Compose(h, r, c)
        PROVE  Grows /\ Learns /\ Hears
    BY <2>2 DEF Retry, Compose
  <2>3. ASSUME NEW h \in Handlers, NEW w \in Ids, SendSucceeds(h, w) \/ ReplyIsLost(h, w)
        PROVE  Grows /\ Learns /\ Hears
    <3>1. Take(w, about[h], about[h])
      BY <2>3 DEF SendSucceeds, ReplyIsLost
    <3> QED
      BY <2>3, <3>1 DEF SendSucceeds, ReplyIsLost
  <2>4. ASSUME NEW h \in Handlers,
               SendFails(h) \/ WriteResult(h) \/ ResultIsLost(h) \/ WriteFailed(h)
        PROVE  Grows /\ Learns /\ Hears
    BY <2>4 DEF SendFails, WriteResult, ResultIsLost, WriteFailed
  <2>5. ASSUME NEW h \in Handlers, Commit(h)
        PROVE  Grows /\ Learns /\ Hears
    BY <2>5 DEF Commit
  <2>6. ASSUME NEW h \in Handlers, Events(h), ~ Commit(h)
        PROVE  Grows /\ Learns /\ Hears
    BY <2>6 DEF Events, Deliver, OpenTransaction, RollBack, Receive, WriteReceipt
  <2>7. ASSUME NEW w \in Ids, NEW text, WriteOnPhone(w, text)
        PROVE  Grows /\ Learns /\ Hears
    <3>1. Take(w, Phone, text)
      BY <2>7 DEF WriteOnPhone
    <3> QED
      BY <2>7, <3>1 DEF WriteOnPhone
  <2>8. ASSUME SetStatus PROVE Grows /\ Learns /\ Hears
    BY <2>8 DEF SetStatus
  <2>9. Grows /\ Learns /\ Hears
    BY <1>3, <2>1, <2>2, <2>3, <2>4, <2>5, <2>6, <2>7, <2>8 DEF Next, Sends
  <2>10. known <= known'
    BY <1>0, <2>9
  <2>11. \A w \in Ids : origin[w] # None => origin'[w] = origin[w] /\ reads'[w] = reads[w]
    BY <1>1, <2>9
  <2> QED
    BY <2>9, <2>10, <2>11
<1> QED
  BY <1>2, <1>3

LEMMA PlainBefore ==
    ASSUME TypeInv, [Next]_vars, TypeInv', NEW r \in Rows, Plain(r)'
    PROVE  Plain(r)
<1>1. Phone # None
  BY MessagesAssumption DEF MessagesAssumption
<1>2. known \in Nat /\ known' \in Nat
  BY DEF TypeInv, TypeOK
<1> QED
  BY <1>1, <1>2, Lasting DEF Plain

\* A step that changes neither ids nor statuses, and after which h has nothing
\* in hand, or a send that goes on.
LEMMA CalmTakenInv ==
    ASSUME TypeInv, TakenInv, [Next]_vars, NEW h \in Handlers, Elsewhere(h),
           UNCHANGED <<sendStatus, waMessageId, wire>>,
           pc'[h] \notin {"commit", "result"},
           InHandOK(h)',
           \A r \in Rows :
               Sending(h)' /\ about'[h] = r /\ Plain(r)' => h \in SentBy(r) /\ TakenAs(r) = {}
    PROVE  TakenInv'
<1> USE DEF wire
<1>0. known \in Nat /\ known' \in Nat /\ known <= known'
  BY NextTypeInv, Lasting DEF TypeInv, TypeOK
<1>1. WireOK'
  BY DEF TakenInv, WireOK
<1>2. ASSUME NEW g \in Handlers PROVE InHandOK(g)'
  <2>1. CASE g = h
    BY <2>1
  <2>2. CASE g # h
    BY <2>2 DEF TakenInv, InHandOK, Elsewhere
  <2> QED
    BY <2>1, <2>2
<1>3. ASSUME NEW r \in Rows, Plain(r)' PROVE SentOK(r)' /\ EchoOK(r)'
  <2>1. SentOK(r) /\ EchoOK(r)
    BY <1>3, NextTypeInv, PlainBefore DEF TakenInv
  <2>2. TakenAs(r)' = TakenAs(r)
    BY DEF TakenAs
  <2>3. \A g \in SentBy(r)' : g \in SentBy(r)
    BY <1>3 DEF SentBy, Sending, Elsewhere
  <2>4. \A g \in SentBy(r)' \ {h} : pc'[g] = pc[g] /\ got'[g] = got[g]
    BY DEF SentBy, Elsewhere
  <2>5. h \in SentBy(r)' => TakenAs(r) = {}
    BY <1>3 DEF SentBy
  <2>6. SentOK(r)'
    BY <1>0, <2>1, <2>2, <2>3, <2>4, <2>5 DEF SentOK
  <2>7. EchoOK(r)'
    BY <2>1, <2>2 DEF EchoOK, Elsewhere
  <2> QED
    BY <2>6, <2>7
<1> QED
  BY <1>1, <1>2, <1>3 DEF TakenInv

\* The steps that are such.
LEMMA CalmSteps ==
    ASSUME TypeInv, TakenInv, [Next]_vars, NEW h \in Handlers,
           \/ BeginCreate(h) \/ Create(h) \/ RollBack(h) \/ Crash(h)
           \/ SendFails(h) \/ ResultIsLost(h)
           \/ WriteResult(h) /\ Taken(got[h], about[h])
           \/ \E r \in Rows : Retry(h, r)
           \/ \E m \in Inbound \cup Ids : Deliver(h, m)
           \/ \E w \in Ids, s \in Receipts : Receive(h, w, s)
           \/ WriteReceipt(h)
    PROVE  TakenInv'
<1> USE DEF people, rows, wire, history
<1>1. CASE BeginCreate(h) \/ \E w \in Ids, s \in Receipts : Receive(h, w, s)
  <2>1. PICK where \in {"create", "receipt"} : \E x : Begin(h, where, x)
    BY <1>1 DEF BeginCreate, Receive
  <2>2. UNCHANGED got \/ \E y : got' = [got EXCEPT ![h] = y]
    BY <1>1 DEF BeginCreate, Receive
  <2>3. UNCHANGED <<sendStatus, waMessageId, wire, snapshot>>
    BY <1>1 DEF BeginCreate, Receive
  <2>4. Elsewhere(h) /\ pc'[h] = where
    BY <2>1, <2>2, <2>3, BeginElsewhere
  <2> QED
    BY <2>1, <2>3, <2>4, CalmTakenInv DEF InHandOK, Sending
<1>2. CASE Create(h) \/ RollBack(h) \/ Crash(h) \/ WriteReceipt(h)
  <2>1. End(h) /\ UNCHANGED <<sendStatus, waMessageId, wire>>
    BY <1>2 DEF Create, RollBack, Crash, WriteReceipt
  <2>2. Elsewhere(h) /\ pc'[h] = "idle"
    BY <2>1, EndElsewhere
  <2> QED
    BY <2>1, <2>2, CalmTakenInv DEF InHandOK, Sending
<1>3. CASE SendFails(h)
  <2>1. PICK where \in {"send", "failed"} : Goto(h, where)
    BY <1>3 DEF SendFails, TryAgain
  <2>2. Elsewhere(h) /\ pc'[h] = where /\ about'[h] = about[h]
    BY <1>3, <2>1, GotoElsewhere DEF SendFails
  <2>3. ASSUME NEW r \in Rows, about'[h] = r, Plain(r)' PROVE h \in SentBy(r) /\ TakenAs(r) = {}
    <3>1. h \in SentBy(r) /\ pc[h] = "send"
      BY <1>3, <2>2, <2>3 DEF SendFails, SentBy, Sending
    <3>2. SentOK(r)
      BY <2>3, NextTypeInv, PlainBefore DEF TakenInv
    <3> QED
      BY <3>1, <3>2 DEF SentOK
  <2>4. UNCHANGED <<sendStatus, waMessageId, wire>>
    BY <1>3 DEF SendFails
  <2>5. InHandOK(h)'
    BY <2>2 DEF InHandOK
  <2> QED
    BY <2>2, <2>3, <2>4, <2>5, CalmTakenInv
<1>4. CASE ResultIsLost(h)
  <2>1. Elsewhere(h) /\ pc'[h] = "failed" /\ about'[h] = about[h]
    BY <1>4, GotoElsewhere DEF ResultIsLost
  <2>3. UNCHANGED <<sendStatus, waMessageId, wire>>
    BY <1>4 DEF ResultIsLost
  <2>4. InHandOK(h)'
    BY <2>1 DEF InHandOK
  <2>5. \A r \in Rows : about'[h] = r => ~ Plain(r)'
    BY <1>4, <2>1 DEF ResultIsLost, Plain
  <2> QED
    BY <2>1, <2>3, <2>4, <2>5, CalmTakenInv
<1>5. CASE WriteResult(h) /\ Taken(got[h], about[h])
  <2>1. Elsewhere(h) /\ pc'[h] = "failed" /\ about'[h] = about[h]
    BY <1>5, GotoElsewhere DEF WriteResult
  <2>2. ASSUME NEW r \in Rows, about'[h] = r, Plain(r)' PROVE FALSE
    <3>1. SentOK(r) /\ EchoOK(r)
      BY <2>2, NextTypeInv, PlainBefore DEF TakenInv
    <3>2. h \in SentBy(r) /\ pc[h] = "result" /\ about[h] = r
      BY <1>5, <2>1, <2>2 DEF WriteResult, SentBy, Sending
    <3>3. got[h] \in TakenAs(r)
      BY <3>1, <3>2 DEF SentOK
    <3> QED
      BY <1>5, <3>1, <3>2, <3>3 DEF EchoOK, Taken
  <2>3. UNCHANGED <<sendStatus, waMessageId, wire>>
    BY <1>5 DEF WriteResult
  <2>4. InHandOK(h)'
    BY <2>1 DEF InHandOK
  <2> QED
    BY <2>1, <2>2, <2>3, <2>4, CalmTakenInv
<1>6. ASSUME NEW r \in Rows, Retry(h, r) PROVE TakenInv'
  <2>1. Elsewhere(h) /\ pc'[h] = "send" /\ about'[h] = r
    BY <1>6, BeginElsewhere DEF Retry
  <2>2. ~ Plain(r)'
    BY <1>6 DEF Retry, Plain
  <2>3. UNCHANGED <<sendStatus, waMessageId, wire>>
    BY <1>6 DEF Retry
  <2>4. InHandOK(h)'
    BY <2>1 DEF InHandOK
  <2> QED
    BY <2>1, <2>2, <2>3, <2>4, CalmTakenInv
<1>7. ASSUME NEW m \in Inbound \cup Ids, Deliver(h, m) PROVE TakenInv'
  <2>1. Elsewhere(h) /\ pc'[h] = "open" /\ about'[h] = m
    BY <1>7, BeginElsewhere DEF Deliver
  <2>2. UNCHANGED <<sendStatus, waMessageId, wire>> /\ (m \in Ids => origin[m] # None)
    BY <1>7 DEF Deliver
  <2>3. InHandOK(h)'
    BY <2>1, <2>2 DEF InHandOK
  <2> QED
    BY <2>1, <2>2, <2>3, CalmTakenInv DEF Sending
<1> QED
  BY <1>1, <1>2, <1>3, <1>4, <1>5, <1>6, <1>7

\* A row gets written, sent or told; what the other rows' messages are is as before.
LEMMA ComposeTakenInv ==
    ASSUME TypeInv, TakenInv, NEW h \in Handlers, NEW r \in Rows, NEW c \in BOOLEAN, Compose(h, r, c)
    PROVE  TakenInv'
<1> USE DEF people, rows, wire, history
<1>0. [Next]_vars
  BY DEF Next, Sends
<1>1. /\ Elsewhere(h) /\ pc'[h] = "send" /\ about'[h] = r /\ pc[h] = "idle"
      /\ UNCHANGED <<waMessageId, wire, known, begun>>
      /\ sendStatus[r] = "none" /\ sendStatus' = [sendStatus EXCEPT ![r] = "PENDING"]
  BY BeginElsewhere DEF Compose
<1>2. WireOK'
  BY <1>1 DEF TakenInv, WireOK
<1>3. ASSUME NEW g \in Handlers PROVE InHandOK(g)'
  BY <1>1, <1>3 DEF TakenInv, InHandOK, Elsewhere
<1>4. /\ sendStatus'[r] = "PENDING" /\ \A q \in AllRows \ {r} : sendStatus'[q] = sendStatus[q]
  BY <1>1 DEF TypeInv, TypeOK, AllRows
<1>5. known \in Nat /\ begun \in Nat
  BY DEF TypeInv, TypeOK
<1>6. ASSUME NEW x \in Rows, Plain(x)' PROVE SentOK(x)' /\ EchoOK(x)'
  <2>1. SentOK(x) /\ EchoOK(x)
    BY <1>0, <1>6, NextTypeInv, PlainBefore DEF TakenInv
  <2>2. TakenAs(x)' = TakenAs(x)
    BY <1>1 DEF TakenAs
  <2>3. EchoOK(x)'
    BY <1>1, <2>1, <2>2 DEF EchoOK, Elsewhere
  <2>4. CASE x # r
    <3>1. SentBy(x)' = SentBy(x) /\ \A g \in SentBy(x) : pc'[g] = pc[g] /\ got'[g] = got[g]
      BY <1>1, <2>4 DEF SentBy, Sending, Elsewhere
    <3> QED
      BY <1>1, <1>4, <2>1, <2>2, <2>3, <2>4, <3>1 DEF SentOK, AllRows
  <2>5. CASE x = r
    <3>1. SentBy(r) = {} /\ TakenAs(r) = {}
      BY <1>1, <2>1, <2>5 DEF SentOK
    <3>2. \A g \in SentBy(r)' : g = h
      BY <1>1, <3>1 DEF SentBy, Sending, Elsewhere
    <3>3. known > 0
      BY <1>1, <1>5, <1>6, <2>5 DEF Compose, Plain
    <3> QED
      BY <1>1, <1>4, <2>2, <2>3, <2>5, <3>1, <3>2, <3>3 DEF SentOK
  <2> QED
    BY <2>4, <2>5
<1> QED
  BY <1>2, <1>3, <1>6 DEF TakenInv

\* WhatsApp gives a message an id that no row, and no handler, has had.
LEMMA TakeTakenInv ==
    ASSUME TypeInv, TakenInv, [Next]_vars, NEW w \in Ids, NEW from \in Rows \cup {Phone},
           NEW text \in Rows \cup {None}, Take(w, from, text), from \in Rows => text = from,
           UNCHANGED <<sendStatus, waMessageId, known>>,
           \A g \in Handlers :
               pc'[g] = "commit" =>
                   pc[g] = "commit" /\ about'[g] = about[g] /\ snapshot'[g] = snapshot[g],
           \A g \in Handlers : InHandOK(g)',
           \A r \in Rows : Plain(r)' /\ r = from => SentOK(r)',
           \A r \in Rows \ {from} : SentBy(r)' = SentBy(r),
           \A r \in Rows \ {from} : \A g \in SentBy(r) : pc'[g] = pc[g] /\ got'[g] = got[g]
    PROVE  TakenInv'
<1>0. /\ origin \in [Ids -> Rows \cup {Phone, None}] /\ reads \in [Ids -> Rows \cup {None}]
      /\ waMessageId \in [AllRows -> Ids \cup {None}]
      /\ Phone \notin Rows /\ None \notin Rows \cup Ids /\ Phone # None
  BY MessagesAssumption DEF MessagesAssumption, TypeInv, TypeOK
<1>1. /\ origin[w] = None /\ origin'[w] = from /\ reads'[w] = text
      /\ \A v \in Ids \ {w} : origin'[v] = origin[v] /\ reads'[v] = reads[v]
  BY <1>0 DEF Take
<1>2. \A q \in AllRows : waMessageId[q] # w
  BY <1>0, <1>1 DEF TakenInv, WireOK
<1>3. \A g \in Handlers : pc[g] = "commit" => about[g] # w
  BY <1>1 DEF TakenInv, InHandOK
<1>4. WireOK'
  BY <1>0, <1>1 DEF TakenInv, WireOK
<1>5. ASSUME NEW r \in Rows, Plain(r)' PROVE SentOK(r)' /\ EchoOK(r)'
  <2>1. SentOK(r) /\ EchoOK(r)
    BY <1>5, NextTypeInv, PlainBefore DEF TakenInv
  <2>2. \A v \in TakenAs(r)' : v = w \/ v \in TakenAs(r)
    BY <1>1 DEF TakenAs
  <2>3. EchoOK(r)'
    BY <1>2, <1>3, <2>1, <2>2 DEF EchoOK
  <2>4. CASE r # from
    <3>1. TakenAs(r)' = TakenAs(r)
      BY <1>0, <1>1, <2>4 DEF TakenAs
    <3> QED
      BY <2>1, <2>3, <2>4, <3>1 DEF SentOK
  <2> QED
    BY <1>5, <2>3, <2>4
<1> QED
  BY <1>4, <1>5 DEF TakenInv

LEMMA SendTakenInv ==
    ASSUME TypeInv, TakenInv, NEW h \in Handlers, NEW w \in Ids,
           SendSucceeds(h, w) \/ ReplyIsLost(h, w)
    PROVE  TakenInv'
<1> USE DEF people, rows, history
<1>0. [Next]_vars
  BY DEF Next, Sends
<1>1. PICK r \in Rows : about[h] = r /\ pc[h] = "send" /\ h \in SentBy(r) /\ Take(w, r, r)
  BY DEF SendSucceeds, ReplyIsLost, TypeInv, Placed, Sending, SentBy
<1>2. /\ Elsewhere(h) /\ pc'[h] \in {"send", "failed", "result"} /\ about'[h] = r
      /\ UNCHANGED <<sendStatus, waMessageId, known>>
  <2>1. CASE SendSucceeds(h, w)
    <3>1. \E y : got' = [got EXCEPT ![h] = y]
      BY <2>1 DEF SendSucceeds
    <3> QED
      BY <1>1, <2>1, <3>1, GotoElsewhere DEF SendSucceeds
  <2>2. CASE ReplyIsLost(h, w)
    BY <1>1, <2>2, GotoElsewhere DEF ReplyIsLost, TryAgain
  <2> QED
    BY <2>1, <2>2
<1>3. origin'[w] = r /\ \A v \in Ids : v # w => origin'[v] = origin[v]
  BY <1>1 DEF Take, TypeInv, TypeOK
<1>4. SendSucceeds(h, w) => pc'[h] = "result" /\ got'[h] = w
  BY DEF SendSucceeds, Goto, TypeInv, TypeOK
<1>5. ReplyIsLost(h, w) => pc'[h] # "result" /\ r \in lost'
  BY <1>1 DEF ReplyIsLost, TryAgain, Goto, TypeInv, TypeOK
<1>6. ASSUME NEW g \in Handlers PROVE InHandOK(g)'
  <2>1. CASE g = h
    BY <1>2, <1>3, <1>4, <1>5, <2>1 DEF InHandOK
  <2>2. CASE g # h
    <3>1. pc[g] = "result" => got[g] \in Ids /\ about[g] # None
      BY MessagesAssumption, <1>6 DEF MessagesAssumption, TypeInv, Placed, Sending
    <3>2. origin[w] = None
      BY <1>1 DEF Take
    <3>3. \A v \in Ids : origin[v] # None => origin'[v] = origin[v] /\ reads'[v] = reads[v]
      BY <1>0, Lasting
    <3>4. pc[g] = "commit" /\ snapshot[g].row # None => origin[about[g]] # None
      BY <1>6 DEF TakenInv, InHandOK
    <3> QED
      BY <1>2, <2>2, <3>1, <3>2, <3>3, <3>4 DEF TakenInv, InHandOK, Elsewhere
  <2> QED
    BY <2>1, <2>2
<1>7. ASSUME Plain(r)' PROVE SentOK(r)'
  <2>1. SentOK(r)
    BY <1>0, <1>1, <1>7, NextTypeInv, PlainBefore DEF TakenInv
  <2>2. TakenAs(r) = {} /\ sendStatus[r] \notin {"none", "FAILED"}
    BY <1>1, <2>1 DEF SentOK
  <2>3. TakenAs(r)' = {w}
    BY <1>3, <2>2 DEF TakenAs
  <2>4. SendSucceeds(h, w)
    BY <1>5, <1>7 DEF Plain
  <2>5. SentBy(r)' = {h}
    BY <1>1, <1>2, <2>1, <2>4, <1>4 DEF SentOK, SentBy, Sending, Elsewhere
  <2> QED
    BY <1>2, <1>4, <2>1, <2>2, <2>3, <2>4, <2>5 DEF SentOK
<1>8. \A x \in Rows \ {r} :
          SentBy(x)' = SentBy(x) /\ \A g \in SentBy(x) : pc'[g] = pc[g] /\ got'[g] = got[g]
  BY <1>1, <1>2 DEF SentBy, Sending, Elsewhere
<1>9. \A g \in Handlers :
          pc'[g] = "commit" =>
              pc[g] = "commit" /\ about'[g] = about[g] /\ snapshot'[g] = snapshot[g]
  BY <1>2 DEF Elsewhere
<1> QED
  BY <1>0, <1>1, <1>2, <1>6, <1>7, <1>8, <1>9, TakeTakenInv

LEMMA PhoneTakenInv ==
    ASSUME TypeInv, TakenInv, NEW w \in Ids, NEW text \in Rows \cup {None}, WriteOnPhone(w, text)
    PROVE  TakenInv'
<1> USE DEF people, rows, history, locals
<1>0. [Next]_vars
  BY DEF Next
<1>1. Take(w, Phone, text) /\ UNCHANGED <<sendStatus, waMessageId, known, locals>>
  BY DEF WriteOnPhone
<1>2. Phone \notin Rows
  BY MessagesAssumption DEF MessagesAssumption
<1>3. ASSUME NEW g \in Handlers PROVE InHandOK(g)'
  <2>1. \A v \in Ids : origin[v] # None => origin'[v] = origin[v] /\ reads'[v] = reads[v]
    BY <1>0, Lasting
  <2>2. pc[g] = "result" => got[g] \in Ids /\ about[g] # None
    BY MessagesAssumption, <1>3 DEF MessagesAssumption, TypeInv, Placed, Sending
  <2> QED
    BY <1>1, <1>3, <2>1, <2>2 DEF TakenInv, InHandOK
<1>4. \A r \in Rows : SentBy(r)' = SentBy(r)
  BY <1>1 DEF SentBy, Sending
<1> QED
  BY <1>0, <1>1, <1>2, <1>3, <1>4, TakeTakenInv

LEMMA ResultTakenInv ==
    ASSUME TypeInv, TakenInv, NEW h \in Handlers, WriteResult(h), ~ Taken(got[h], about[h])
    PROVE  TakenInv'
<1> USE DEF people, wire, history
<1>0. [Next]_vars
  BY DEF Next, Sends
<1>1. PICK r \in Rows, w \in Ids :
          about[h] = r /\ got[h] = w /\ pc[h] = "result" /\ h \in SentBy(r) /\ origin[w] = r
  BY DEF WriteResult, TypeInv, Placed, Sending, SentBy, TakenInv, InHandOK
<1>2. /\ sendStatus' = [sendStatus EXCEPT ![r] = "SENT"]
      /\ waMessageId' = [waMessageId EXCEPT ![r] = w]
      /\ UNCHANGED <<wire, known>> /\ End(h)
  BY <1>1 DEF WriteResult
<1>3. Elsewhere(h) /\ pc'[h] = "idle"
  BY <1>2, EndElsewhere
<1>4. /\ sendStatus'[r] = "SENT" /\ waMessageId'[r] = w
      /\ \A q \in AllRows \ {r} : sendStatus'[q] = sendStatus[q] /\ waMessageId'[q] = waMessageId[q]
  BY <1>2 DEF TypeInv, TypeOK, AllRows
<1>5. None \notin Rows
  BY MessagesAssumption DEF MessagesAssumption
<1>6. WireOK'
  BY <1>1, <1>2, <1>4, <1>5 DEF TakenInv, WireOK
<1>7. ASSUME NEW g \in Handlers PROVE InHandOK(g)'
  BY <1>2, <1>3, <1>7 DEF TakenInv, InHandOK, Elsewhere
<1>8. ASSUME NEW x \in Rows, Plain(x)' PROVE SentOK(x)' /\ EchoOK(x)'
  <2>1. SentOK(x) /\ EchoOK(x)
    BY <1>0, <1>8, NextTypeInv, PlainBefore DEF TakenInv
  <2>2. TakenAs(x)' = TakenAs(x)
    BY <1>2 DEF TakenAs
  <2>3. \A g \in SentBy(x)' : g \in SentBy(x) /\ pc'[g] = pc[g] /\ got'[g] = got[g]
    BY <1>3 DEF SentBy, Sending, Elsewhere
  <2>4. CASE x # r
    <3>1. w \notin TakenAs(x)
      BY <1>1, <2>4 DEF TakenAs
    <3>2. SentOK(x)'
      BY <1>2, <1>4, <2>1, <2>2, <2>3, <2>4 DEF SentOK, AllRows
    <3>3. EchoOK(x)'
      BY <1>3, <1>4, <2>1, <2>2, <2>4, <3>1 DEF EchoOK, Elsewhere, AllRows
    <3> QED
      BY <3>2, <3>3
  <2>5. CASE x = r
    <3>1. w \in TakenAs(r) /\ known > 0
      BY <1>1, <2>1, <2>5 DEF TakenAs, SentOK
    <3>2. \A g \in SentBy(r) : g = h
      BY <1>1, <2>1, <2>5 DEF SentOK
    <3>3. SentBy(r)' = {}
      BY <1>3, <2>3, <2>5, <3>2 DEF SentBy, Sending
    <3>4. SentOK(r)'
      BY <1>2, <1>4, <2>1, <2>2, <2>5, <3>1, <3>3 DEF SentOK
    <3>5. EchoOK(r)'
      BY <1>3, <1>4, <2>1, <2>2, <2>5, <3>1 DEF EchoOK, SentOK, Elsewhere
    <3> QED
      BY <2>5, <3>4, <3>5
  <2> QED
    BY <2>4, <2>5
<1> QED
  BY <1>6, <1>7, <1>8 DEF TakenInv

LEMMA FailedTakenInv ==
    ASSUME TypeInv, TakenInv, NEW h \in Handlers, WriteFailed(h)
    PROVE  TakenInv'
<1> USE DEF people, wire, history
<1>0. [Next]_vars
  BY DEF Next, Sends
<1>1. PICK r \in Rows : about[h] = r /\ pc[h] = "failed" /\ h \in SentBy(r)
  BY DEF WriteFailed, TypeInv, Placed, Sending, SentBy
<1>2. /\ sendStatus' = [sendStatus EXCEPT ![r] = "FAILED"]
      /\ waMessageId' = [waMessageId EXCEPT ![r] = None]
      /\ UNCHANGED <<wire, known>> /\ End(h)
  BY <1>1 DEF WriteFailed
<1>3. Elsewhere(h) /\ pc'[h] = "idle"
  BY <1>2, EndElsewhere
<1>4. /\ sendStatus'[r] = "FAILED" /\ waMessageId'[r] = None
      /\ \A q \in AllRows \ {r} : sendStatus'[q] = sendStatus[q] /\ waMessageId'[q] = waMessageId[q]
  BY <1>2 DEF TypeInv, TypeOK, AllRows
<1>5. None \notin Ids
  BY MessagesAssumption DEF MessagesAssumption
<1>6. WireOK'
  BY <1>2, <1>4 DEF TakenInv, WireOK
<1>7. ASSUME NEW g \in Handlers PROVE InHandOK(g)'
  BY <1>2, <1>3, <1>7 DEF TakenInv, InHandOK, Elsewhere
<1>8. ASSUME NEW x \in Rows, Plain(x)' PROVE SentOK(x)' /\ EchoOK(x)'
  <2>1. SentOK(x) /\ EchoOK(x)
    BY <1>0, <1>8, NextTypeInv, PlainBefore DEF TakenInv
  <2>2. TakenAs(x)' = TakenAs(x) /\ None \notin TakenAs(x)
    BY <1>2, <1>5 DEF TakenAs
  <2>3. \A g \in SentBy(x)' : g \in SentBy(x) /\ pc'[g] = pc[g] /\ got'[g] = got[g]
    BY <1>3 DEF SentBy, Sending, Elsewhere
  <2>4. CASE x # r
    <3>1. SentOK(x)'
      BY <1>2, <1>4, <2>1, <2>2, <2>3, <2>4 DEF SentOK, AllRows
    <3>2. EchoOK(x)'
      BY <1>3, <1>4, <2>1, <2>2, <2>4 DEF EchoOK, Elsewhere, AllRows
    <3> QED
      BY <3>1, <3>2
  <2>5. CASE x = r
    <3>1. TakenAs(r) = {} /\ known > 0
      BY <1>1, <2>1, <2>5 DEF SentOK
    <3>2. \A g \in SentBy(r) : g = h
      BY <1>1, <2>1, <2>5 DEF SentOK
    <3>3. SentBy(r)' = {}
      BY <1>3, <2>3, <2>5, <3>2 DEF SentBy, Sending
    <3>4. SentOK(r)'
      BY <1>2, <1>4, <2>2, <2>5, <3>1, <3>3 DEF SentOK
    <3>5. EchoOK(r)'
      BY <2>2, <2>5, <3>1 DEF EchoOK
    <3> QED
      BY <2>5, <3>4, <3>5
  <2> QED
    BY <2>4, <2>5
<1> QED
  BY <1>6, <1>7, <1>8 DEF TakenInv

LEMMA OpenTakenInv ==
    ASSUME TypeInv, StatusInv, TakenInv, NEW h \in Handlers, OpenTransaction(h)
    PROVE  TakenInv'
<1> USE DEF people, rows, wire, history
<1>0. [Next]_vars
  BY DEF Next, Events
<1> DEFINE m == about[h]
<1>1. PICK s \in {Match(m)} \cup (IF known > 1 THEN {None} ELSE {}) :
          snapshot' = [snapshot EXCEPT ![h] =
              [customer |-> customer, conversation |-> FindsConversation, row |-> s]]
  BY DEF OpenTransaction
<1>2. /\ pc[h] = "open" /\ pc' = [pc EXCEPT ![h] = "commit"]
      /\ UNCHANGED <<people, rows, wire, about, got, history>>
  BY DEF OpenTransaction, Goto
<1>3. /\ pc'[h] = "commit" /\ snapshot'[h].row = s
      /\ \A g \in Handlers \ {h} : pc'[g] = pc[g] /\ snapshot'[g] = snapshot[g]
  BY <1>1, <1>2 DEF TypeInv, TypeOK
<1>4. s # None => m \in Ids /\ reads[m] = s
  BY <1>1 DEF Match
<1>5. WireOK'
  BY <1>2 DEF TakenInv, WireOK
<1>6. ASSUME NEW g \in Handlers PROVE InHandOK(g)'
  <2>1. CASE g = h
    BY <1>2, <1>3, <1>4, <2>1 DEF TakenInv, InHandOK
  <2>2. CASE g # h
    BY <1>2, <1>3, <1>6, <2>2 DEF TakenInv, InHandOK
  <2> QED
    BY <2>1, <2>2
<1>7. ASSUME NEW r \in Rows, Plain(r)' PROVE SentOK(r)' /\ EchoOK(r)'
  <2>1. SentOK(r) /\ EchoOK(r) /\ Plain(r)
    BY <1>0, <1>7, NextTypeInv, PlainBefore DEF TakenInv
  <2>2. TakenAs(r)' = TakenAs(r)
    BY <1>2 DEF TakenAs
  <2>3. SentBy(r)' = SentBy(r) /\ \A g \in SentBy(r) : pc'[g] = pc[g] /\ got'[g] = got[g]
    BY <1>2, <1>3 DEF SentBy, Sending
  <2>4. SentOK(r)'
    BY <1>2, <2>1, <2>2, <2>3 DEF SentOK
  <2>5. ASSUME m \in TakenAs(r) PROVE s = r \/ (s = None /\ waMessageId[r] = m)
    <3>1. m \in Ids /\ reads[m] = r
      BY <2>5 DEF TakenAs, TakenInv, WireOK
    <3>2. s = Match(m)
      <4>1. known \in Nat
        BY DEF TypeInv, TypeOK
      <4> QED
        BY <1>1, <2>1, <4>1 DEF Plain
    <3>3. sendStatus[r] \in {"PENDING", "SENT"} /\ known > 0 /\ r \notin hidden
      BY <2>1, <2>5 DEF SentOK, Plain, TypeInv, TypeOK, AllRows
    <3>4. CASE sendStatus[r] = "PENDING"
      <4>1. waMessageId[r] = None
        BY <3>4 DEF StatusInv, Tracked, Untracked, AllRows
      <4> QED
        BY <3>1, <3>2, <3>3, <3>4, <4>1 DEF Match, Pending, FindsConversation
    <3>5. CASE sendStatus[r] = "SENT"
      <4>1. waMessageId[r] = m
        BY <2>1, <2>5, <3>5 DEF SentOK
      <4>2. s = None
        BY <3>1, <3>2, <3>5 DEF Match, Pending
      <4> QED
        BY <4>1, <4>2
    <3> QED
      BY <3>3, <3>4, <3>5
  <2>6. EchoOK(r)'
    BY <1>2, <1>3, <2>1, <2>2, <2>5 DEF EchoOK
  <2> QED
    BY <2>4, <2>6
<1> QED
  BY <1>5, <1>6, <1>7 DEF TakenInv

LEMMA CommitTakenInv ==
    ASSUME TypeInv, StatusInv, TakenInv, NEW h \in Handlers, Commit(h)
    PROVE  TakenInv'
<1> USE DEF people, rows, wire, history
<1>0. [Next]_vars
  BY DEF Next, Events
<1>1. PICK m \in Inbound \cup Ids, s \in Rows \cup {None} : m = about[h] /\ s = snapshot[h].row
  BY DEF Commit, TypeInv, TypeOK, Placed
<1>2. pc[h] = "commit" /\ ~ Clashes(h) /\ End(h) /\ UNCHANGED wire
  BY DEF Commit
<1>3. Elsewhere(h) /\ pc'[h] = "idle"
  BY <1>2, EndElsewhere
<1>4. ASSUME NEW g \in Handlers PROVE InHandOK(g)'
  BY <1>2, <1>3, <1>4 DEF TakenInv, InHandOK, Elsewhere
<1>5. known \in Nat /\ known' \in Nat /\ known <= known'
  BY <1>0, Lasting, NextTypeInv DEF TypeInv, TypeOK
<1>6. /\ Ids \cap Inbound = {} /\ Ids \cap Rows = {} /\ None \notin AllRows
  BY MessagesAssumption DEF MessagesAssumption, AllRows
<1>7. \A r \in Rows :
          SentBy(r)' = SentBy(r) /\ \A g \in SentBy(r) : pc'[g] = pc[g] /\ got'[g] = got[g]
  BY <1>2, <1>3 DEF SentBy, Sending, Elsewhere
<1>8. \A r \in Rows : TakenAs(r)' = TakenAs(r)
  BY <1>2 DEF TakenAs
<1>9. ASSUME NEW r \in Rows, Plain(r)' PROVE SentOK(r) /\ EchoOK(r) /\ Plain(r)
  BY <1>0, <1>9, NextTypeInv, PlainBefore DEF TakenInv
<1>10. CASE m \in Inbound
  <2>1. UNCHANGED <<sendStatus, waMessageId>>
    BY <1>1, <1>10 DEF Commit
  <2>2. WireOK'
    BY <1>2, <2>1 DEF TakenInv, WireOK
  <2>3. ASSUME NEW r \in Rows, Plain(r)' PROVE SentOK(r)' /\ EchoOK(r)'
    <3>1. SentOK(r)'
      BY <1>5, <1>7, <1>8, <1>9, <2>1, <2>3 DEF SentOK
    <3>2. EchoOK(r)'
      BY <1>3, <1>8, <1>9, <2>1, <2>3 DEF EchoOK, Elsewhere
    <3> QED
      BY <3>1, <3>2
  <2> QED
    BY <1>4, <2>2, <2>3 DEF TakenInv
<1>11. CASE m \in Ids
  <2> DEFINE x == IF s = None THEN m ELSE s
  <2>1. /\ sendStatus' = [sendStatus EXCEPT ![x] = "SENT"]
        /\ waMessageId' = [waMessageId EXCEPT ![x] = m]
    BY <1>1, <1>6, <1>11 DEF Commit
  <2>2. x \in AllRows /\ (s # None => x \in Rows /\ x = s) /\ (s = None => x = m /\ x \notin Rows)
    BY <1>6, <1>11 DEF AllRows
  <2> HIDE DEF x
  <2>3. /\ sendStatus'[x] = "SENT" /\ waMessageId'[x] = m
        /\ \A q \in AllRows \ {x} : sendStatus'[q] = sendStatus[q] /\ waMessageId'[q] = waMessageId[q]
    BY <2>1, <2>2 DEF TypeInv, TypeOK
  <2>4. origin[m] # None
    BY <1>1, <1>2, <1>11 DEF TakenInv, InHandOK
  <2>5. WireOK'
    BY <1>2, <2>3, <2>4 DEF TakenInv, WireOK
  <2>6. s # None => reads[m] = s
    BY <1>1, <1>2 DEF TakenInv, InHandOK
  <2>7. ASSUME NEW r \in Rows, Plain(r)', x # r PROVE SentOK(r)' /\ EchoOK(r)'
    <3>1. SentOK(r) /\ EchoOK(r)
      BY <1>9, <2>7
    <3>2. sendStatus'[r] = sendStatus[r] /\ waMessageId'[r] = waMessageId[r]
      BY <2>3, <2>7 DEF AllRows
    <3>3. SentOK(r)'
      BY <1>5, <1>7, <1>8, <3>1, <3>2 DEF SentOK
    <3>4. m \notin TakenAs(r)
      <4> SUFFICES ASSUME m \in TakenAs(r) PROVE FALSE
        OBVIOUS
      <4>1. origin[m] = r /\ reads[m] = r
        BY DEF TakenAs, TakenInv, WireOK
      <4>2. s = None
        BY <2>2, <2>6, <2>7, <4>1
      <4>3. s = r \/ (s = None /\ waMessageId[r] = m)
        BY <1>1, <1>2, <3>1 DEF EchoOK
      <4>4. Taken(m, None)
        BY <1>6, <4>2, <4>3 DEF Taken, AllRows
      <4> QED
        BY <1>1, <1>2, <1>11, <4>2, <4>4 DEF Clashes
    <3>5. EchoOK(r)'
      BY <1>3, <1>8, <2>3, <3>1, <3>2, <3>4 DEF EchoOK, Elsewhere
    <3> QED
      BY <3>3, <3>5
  <2>8. ASSUME Plain(x)', x \in Rows PROVE SentOK(x)' /\ EchoOK(x)'
    <3>1. PICK r \in Rows : r = x
      BY <2>8
    <3>2. Plain(r)'
      BY <2>8, <3>1
    <3>3. SentOK(r) /\ EchoOK(r) /\ Plain(r)
      BY <1>9, <3>2
    <3>4. m \in TakenAs(r)
      <4>1. reads[m] = r
        BY <2>2, <2>6, <2>8, <3>1
      <4>2. origin[m] \in Rows
        BY <1>11, <2>4, <3>3, <4>1 DEF Plain, TypeInv, TypeOK
      <4> QED
        BY <1>11, <4>1, <4>2 DEF TakenAs, TakenInv, WireOK
    <3>5. known' > 0
      <4>1. sendStatus[r] \in {"PENDING", "SENT"}
        BY <3>3, <3>4 DEF SentOK, TypeInv, TypeOK, AllRows
      <4> QED
        BY <1>5, <3>3, <4>1 DEF SentOK
    <3>6. SentOK(r)'
      BY <1>7, <1>8, <2>3, <3>1, <3>3, <3>4, <3>5 DEF SentOK
    <3>7. EchoOK(r)'
      BY <1>3, <1>8, <2>3, <3>1, <3>3, <3>4 DEF EchoOK, SentOK, Elsewhere
    <3> QED
      BY <3>1, <3>6, <3>7
  <2>9. ASSUME NEW r \in Rows, Plain(r)' PROVE SentOK(r)' /\ EchoOK(r)'
    <3>1. CASE r = x
      BY <2>8, <2>9, <3>1
    <3> QED
      BY <2>7, <2>9, <3>1
  <2> QED
    BY <1>4, <2>5, <2>9 DEF TakenInv
<1> QED
  BY <1>10, <1>11

LEMMA NextTakenInv == ASSUME TypeInv, StatusInv, TakenInv, [Next]_vars PROVE TakenInv'
<1>1. ASSUME UNCHANGED <<rows, wire, locals, history, known>> PROVE TakenInv'
  <2>1. ASSUME NEW r \in Rows
        PROVE  (Plain(r)' => Plain(r)) /\ (SentOK(r) => SentOK(r)') /\ (EchoOK(r) => EchoOK(r)')
    BY <1>1
    DEF Plain, SentOK, EchoOK, TakenAs, SentBy, Sending, rows, wire, locals, history
  <2>2. WireOK' /\ \A h \in Handlers : InHandOK(h)'
    BY <1>1 DEF TakenInv, WireOK, InHandOK, rows, wire, locals
  <2> QED
    BY <2>1, <2>2 DEF TakenInv
<1>2. CASE SetStatus
  BY <1>1, <1>2 DEF SetStatus
<1>3. CASE UNCHANGED vars
  BY <1>1, <1>3 DEF vars, people
<1> QED
  BY <1>2, <1>3, CalmSteps, ComposeTakenInv, SendTakenInv, PhoneTakenInv,
     ResultTakenInv, FailedTakenInv, OpenTakenInv, CommitTakenInv
  DEF Next, Conversations, Sends, Events

LEMMA InitTakenInv == ASSUME Init PROVE TakenInv
BY MessagesAssumption
DEF MessagesAssumption, Init, TakenInv, WireOK, InHandOK, SentOK, EchoOK, TakenAs,
    SentBy, Sending, AllRows

\* Whatever overlaps, fails or is lost, a message that WhatsApp took once, and whose
\* echo can be told to be its own, does not say FAILED.
THEOREM TakenIsTold == Spec => []TakenIsNotFailed
<1>1. Init => TypeInv /\ StatusInv /\ TakenInv
  BY InitTypeInv, InitStatusInv, InitTakenInv
<1>2. TypeInv /\ StatusInv /\ TakenInv /\ [Next]_vars => (TypeInv /\ StatusInv /\ TakenInv)'
  BY NextTypeInv, NextStatusInv, NextTakenInv
<1>3. TypeInv /\ TakenInv => TakenIsNotFailed
  <2> SUFFICES ASSUME TypeInv, TakenInv, NEW w \in Ids, origin[w] \in Rows,
                      sendStatus[origin[w]] = "FAILED", Plain(origin[w])
               PROVE  FALSE
    <3>1. \A r \in Rows : known \in Nat /\ ~ Plain(r) /\ TypeInv =>
              \/ r \in lost \cup retried \cup hidden
              \/ \E v \in Ids : origin[v] = Phone /\ reads[v] = r
              \/ known > 1
      BY DEF Plain
    <3> QED
      BY <3>1 DEF TakenIsNotFailed, TypeInv, TypeOK
  <2> QED
    BY DEF TakenInv, SentOK, TakenAs
<1> QED
  BY <1>1, <1>2, <1>3, PTL DEF Spec

-----------------------------------------------------------------------------
(* Rules: type correctness                                                  *)

\* Where a handler is, it is with a message, and at an action when it takes it;
\* whoever handles a READ update has stored it.
RuleInPlace(h) ==
    /\ at[h] # "idle" => message[h] \in Messages
    /\ at[h] \in {"idle", "find", "cancel", "recipient", "enrollments", "look", "rules"} =>
           index[h] = 0
    /\ at[h] \in {"look up", "act", "record"} => index[h] \in Actions
    /\ at[h] \in {"find", "cancel", "recipient", "enrollments"} => h \in Receivers
    /\ at[h] \in {"look", "finish"} => h \in Workers
    /\ h \in Workers => source[h] = Own
    /\ at[h] # "idle" /\ h \in Receivers => message[h] \in read

RulesTypes == RulesTypeOK /\ \A h \in Reactors : RuleInPlace(h)

\* The handlers' own variables.
RunsPlaced ==
    /\ at \in [Reactors -> {"idle", "find", "cancel", "recipient", "enrollments", "look",
                            "rules", "look up", "act", "record", "finish"}]
    /\ message \in [Reactors -> Messages \cup {NoMessage}]
    /\ source \in [Reactors -> Sources]
    /\ left \in [Reactors -> 0 .. MaxEnrollments]
    /\ index \in [Reactors -> 0 .. ActionCount]
    /\ \A g \in Reactors : RuleInPlace(g)

LEMMA TypesPlaced == RulesTypes => RunsPlaced
BY DEF RulesTypes, RulesTypeOK, RunsPlaced

\* What a handler does to the places of all, and the rules' ways to go on.
LEMMA GotoPlaced ==
    ASSUME RulesTypes, NEW h \in Reactors, UNCHANGED read, at[h] # "idle",
           NEW where, Proceed(h, where),
           where \in {"find", "cancel", "recipient", "enrollments", "look", "rules", "look up",
                      "act", "record", "finish"},
           where \in {"find", "cancel", "recipient", "enrollments", "look", "rules"} =>
               index[h] = 0,
           where \in {"look up", "act", "record"} => index[h] \in Actions,
           where \in {"find", "cancel", "recipient", "enrollments"} => h \in Receivers,
           where \in {"look", "finish"} => h \in Workers
    PROVE  RunsPlaced'
<1>1. RunsPlaced
  BY TypesPlaced
<1> QED
  BY <1>1 DEF RunsPlaced, RuleInPlace, Proceed

LEMMA EndPlaced ==
    ASSUME RulesTypes, NEW h \in Reactors, UNCHANGED read, Stop(h)
    PROVE  RunsPlaced'
<1>1. RunsPlaced
  BY TypesPlaced
<1>2. 0 \in 0 .. ActionCount /\ 0 \in 0 .. MaxEnrollments /\ Own \in Sources
  BY RulesAssumption DEF RulesAssumption, Sources
<1>3. ASSUME NEW g \in Reactors PROVE RuleInPlace(g)'
  BY <1>1 DEF RunsPlaced, RuleInPlace, Stop
<1> QED
  BY <1>1, <1>2, <1>3 DEF RunsPlaced, Stop

LEMMA OneUp ==
    ASSUME NEW n \in Nat, NEW i \in 0 .. n, i # n PROVE i + 1 \in 1 .. n /\ i + 1 \in 0 .. n
OBVIOUS

LEMMA OneDown ==
    ASSUME NEW n \in Nat, NEW i \in 0 .. n, i # 0 PROVE i - 1 \in 0 .. n
OBVIOUS

LEMMA NextEnrollmentPlaced ==
    ASSUME RulesTypes, NEW h \in Receivers, UNCHANGED read, at[h] # "idle",
           NEW n \in 0 .. MaxEnrollments, NextEnrollment(h, n)
    PROVE  RunsPlaced'
<1>1. RunsPlaced /\ h \in Reactors /\ h \notin Workers
  BY TypesPlaced, RulesAssumption DEF RulesAssumption, Reactors
<1>2. CASE n = 0
  BY <1>1, <1>2, EndPlaced DEF NextEnrollment
<1>3. CASE n # 0
  <2>1. n - 1 \in 0 .. MaxEnrollments /\ 0 \in 0 .. ActionCount
    BY <1>3, OneDown, RulesAssumption DEF RulesAssumption
  <2>2. PICK f \in Flows :
            /\ source' = [source EXCEPT ![h] = f]
            /\ left' = [left EXCEPT ![h] = n - 1]
            /\ index' = [index EXCEPT ![h] = 0]
            /\ at' = [at EXCEPT ![h] = "rules"]
            /\ UNCHANGED message
    BY <1>3 DEF NextEnrollment
  <2>3. f \in Sources
    BY DEF Sources
  <2>4. ASSUME NEW g \in Reactors PROVE RuleInPlace(g)'
    BY <1>1, <2>2 DEF RunsPlaced, RuleInPlace
  <2> QED
    BY <1>1, <2>1, <2>2, <2>3, <2>4 DEF RunsPlaced
<1> QED
  BY <1>2, <1>3

LEMMA ThroughPlaced ==
    ASSUME RulesTypes, NEW h \in Reactors, UNCHANGED read, at[h] # "idle", Through(h)
    PROVE  RunsPlaced'
<1>1. RunsPlaced
  BY TypesPlaced
<1>2. CASE h \in Workers /\ Proceed(h, "finish")
  BY <1>2, GotoPlaced
<1>3. CASE /\ h \in Receivers
           /\ at' = [at EXCEPT ![h] = "enrollments"]
           /\ index' = [index EXCEPT ![h] = 0]
           /\ UNCHANGED <<message, source, left>>
  <2>1. 0 \in 0 .. ActionCount
    BY RulesAssumption DEF RulesAssumption
  <2>2. ASSUME NEW g \in Reactors PROVE RuleInPlace(g)'
    BY <1>1, <1>3 DEF RunsPlaced, RuleInPlace
  <2> QED
    BY <1>1, <1>3, <2>1, <2>2 DEF RunsPlaced
<1>4. CASE h \in Receivers /\ NextEnrollment(h, left[h])
  BY <1>1, <1>4, NextEnrollmentPlaced DEF RunsPlaced
<1> QED
  BY <1>2, <1>3, <1>4 DEF Through

LEMMA NextActionPlaced ==
    ASSUME RulesTypes, NEW h \in Reactors, UNCHANGED read,
           at[h] \in {"rules", "look up", "act", "record"}, NextAction(h) \/ Through(h)
    PROVE  RunsPlaced'
<1>1. CASE Through(h)
  BY <1>1, ThroughPlaced
<1>2. CASE index[h] # ActionCount /\ NextAction(h)
  <2>0. ActionCount \in Nat
    BY RulesAssumption DEF RulesAssumption
  <2>1. RunsPlaced /\ index[h] \in 0 .. ActionCount
    BY TypesPlaced DEF RunsPlaced
  <2>2. index[h] + 1 \in Actions /\ index[h] + 1 \in 0 .. ActionCount
    BY <1>2, <2>0, <2>1, OneUp DEF Actions
  <2>3. /\ at' = [at EXCEPT ![h] = "look up"]
        /\ index' = [index EXCEPT ![h] = index[h] + 1]
        /\ UNCHANGED <<message, source, left>>
    BY <1>2 DEF NextAction
  <2> QED
    BY <2>1, <2>2, <2>3 DEF RunsPlaced, RuleInPlace
<1> QED
  BY <1>1, <1>2 DEF NextAction

\* The key of the action that a handler has come to.
LEMMA KeyOf ==
    ASSUME RulesTypes, NEW h \in Reactors, at[h] \in {"look up", "act", "record"}
    PROVE  Key(h) \in Keys
<1>1. message[h] \in Messages /\ source[h] \in Sources /\ index[h] \in Actions
  BY DEF RulesTypes, RulesTypeOK, RuleInPlace
<1> QED
  BY <1>1 DEF Key, Keys, Event, RuleEvents

LEMMA EffectTyped ==
    ASSUME RulesTypes, NEW h \in Reactors, Key(h) \in Keys, TakeEffect(h)
    PROVE  effects' \in [Keys -> Nat]
<1> DEFINE k == Key(h)
<1>1. k \in Keys /\ effects' = [effects EXCEPT ![k] = @ + 1] /\ effects \in [Keys -> Nat]
  BY DEF TakeEffect, RulesTypes, RulesTypeOK
<1> HIDE DEF k
<1> QED
  BY <1>1

LEMMA StepRulesTypes ==
    ASSUME RulesTypes, NEW h \in Reactors,
           Step(h) \/ ActFails(h) \/ ActStaysUnrecorded(h) \/ Die(h)
    PROVE  RulesTypes'
<1>0. /\ RuleInPlace(h)
      /\ reported \in 0 .. MaxReads /\ read \subseteq Messages
      /\ check \in [Messages -> Statuses]
      /\ executed \subseteq Keys /\ effects \in [Keys -> Nat]
      /\ overlapped \cup unrecorded \subseteq Keys /\ read0 \cup dropped \subseteq Messages
  BY DEF RulesTypes, RulesTypeOK
<1>1. CASE FindPending(h)
  <2>1. PICK where \in {"cancel", "recipient"} : Proceed(h, where)
    BY <1>1 DEF FindPending
  <2>2. RunsPlaced'
    BY <1>0, <1>1, <2>1, GotoPlaced DEF FindPending, RuleInPlace
  <2> QED
    BY <1>0, <1>1, <2>2 DEF RulesTypes, RulesTypeOK, RunsPlaced, FindPending, ruleHistory
<1>2. CASE Cancel(h)
  <2>1. RunsPlaced'
    BY <1>0, <1>2, GotoPlaced DEF Cancel, RuleInPlace
  <2>2. check' \in [Messages -> Statuses]
    BY <1>0, <1>2 DEF Cancel, Statuses
  <2> QED
    BY <1>0, <1>2, <2>1, <2>2 DEF RulesTypes, RulesTypeOK, RunsPlaced, Cancel, ruleHistory
<1>3. CASE FindRecipient(h)
  <2>1. PICK where \in {"rules", "enrollments"} : Proceed(h, where)
    BY <1>3 DEF FindRecipient
  <2>2. RunsPlaced'
    BY <1>0, <1>3, <2>1, GotoPlaced DEF FindRecipient, RuleInPlace
  <2> QED
    BY <1>0, <1>3, <2>2 DEF RulesTypes, RulesTypeOK, RunsPlaced, FindRecipient, ruleHistory
<1>4. CASE FindEnrollments(h)
  <2>1. h \in Receivers
    BY <1>0, <1>4 DEF FindEnrollments, RuleInPlace
  <2>2. RunsPlaced'
    BY <1>4, <2>1, NextEnrollmentPlaced DEF FindEnrollments
  <2> QED
    BY <1>0, <1>4, <2>2 DEF RulesTypes, RulesTypeOK, RunsPlaced, FindEnrollments, ruleHistory
<1>5. CASE Look(h)
  <2>1. RunsPlaced'
    <3>1. CASE Stop(h)
      BY <1>5, <3>1, EndPlaced DEF Look
    <3>2. CASE Proceed(h, "rules")
      BY <1>0, <1>5, <3>2, GotoPlaced DEF Look, RuleInPlace
    <3> QED
      BY <1>5, <3>1, <3>2 DEF Look
  <2>2. check' \in [Messages -> Statuses]
    BY <1>0, <1>5 DEF Look, Statuses
  <2> QED
    BY <1>0, <1>5, <2>1, <2>2 DEF RulesTypes, RulesTypeOK, RunsPlaced, Look, ruleHistory
<1>6. CASE Finish(h)
  <2>1. RunsPlaced'
    BY <1>6, EndPlaced DEF Finish
  <2>2. check' \in [Messages -> Statuses]
    BY <1>0, <1>6 DEF Finish, Statuses
  <2> QED
    BY <1>0, <1>6, <2>1, <2>2 DEF RulesTypes, RulesTypeOK, RunsPlaced, Finish, ruleHistory
<1>7. CASE RunRules(h)
  <2>1. RunsPlaced'
    BY <1>7, NextActionPlaced DEF RunRules
  <2> QED
    BY <1>0, <1>7, <2>1 DEF RulesTypes, RulesTypeOK, RunsPlaced, RunRules, ruleHistory
<1>8. CASE LookUp(h)
  <2>1. Key(h) \in Keys
    BY <1>8, KeyOf DEF LookUp
  <2>2. overlapped' \subseteq overlapped \cup {Key(h)}
    BY <1>8 DEF LookUp
  <2>3. RunsPlaced'
    <3>1. CASE NextAction(h)
      BY <1>8, <3>1, NextActionPlaced DEF LookUp
    <3>2. CASE Proceed(h, "act")
      BY <1>0, <1>8, <3>2, GotoPlaced DEF LookUp, RuleInPlace
    <3> QED
      BY <1>8, <3>1, <3>2 DEF LookUp
  <2>4. overlapped' \cup unrecorded' \subseteq Keys
    BY <1>0, <1>8, <2>1, <2>2 DEF LookUp
  <2> QED
    BY <1>0, <1>8, <2>3, <2>4 DEF RulesTypes, RulesTypeOK, RunsPlaced, LookUp
<1>9. CASE Act(h)
  <2>1. Key(h) \in Keys
    BY <1>9, KeyOf DEF Act
  <2>2. effects' \in [Keys -> Nat]
    BY <1>9, <2>1, EffectTyped DEF Act
  <2>3. RunsPlaced'
    BY <1>0, <1>9, GotoPlaced DEF Act, ruleHistory, RuleInPlace
  <2> QED
    BY <1>0, <1>9, <2>2, <2>3 DEF RulesTypes, RulesTypeOK, RunsPlaced, Act, ruleHistory
<1>10. CASE Record(h)
  <2>1. Key(h) \in Keys
    BY <1>10, KeyOf DEF Record
  <2>2. RunsPlaced'
    BY <1>10, NextActionPlaced DEF Record
  <2> QED
    BY <1>0, <1>10, <2>1, <2>2 DEF RulesTypes, RulesTypeOK, RunsPlaced, Record, ruleHistory
<1>11. CASE ActFails(h)
  <2>1. RunsPlaced'
    BY <1>11, NextActionPlaced DEF ActFails
  <2> QED
    BY <1>0, <1>11, <2>1 DEF RulesTypes, RulesTypeOK, RunsPlaced, ActFails, ruleHistory
<1>12. CASE ActStaysUnrecorded(h)
  <2>1. Key(h) \in Keys
    BY <1>12, KeyOf DEF ActStaysUnrecorded
  <2>2. effects' \in [Keys -> Nat]
    BY <1>0, <1>12, <2>1, EffectTyped DEF ActStaysUnrecorded
  <2>3. RunsPlaced'
    BY <1>12, NextActionPlaced DEF ActStaysUnrecorded
  <2> QED
    BY <1>0, <1>12, <2>1, <2>2, <2>3 DEF RulesTypes, RulesTypeOK, RunsPlaced, ActStaysUnrecorded
<1>13. CASE Die(h)
  <2>1. at[h] = "record" => Key(h) \in Keys
    BY KeyOf
  <2>2. message[h] \in Messages
    BY <1>0, <1>13 DEF Die, RuleInPlace
  <2>3. (overlapped \cup unrecorded)' \subseteq Keys
    BY <1>0, <1>13, <2>1 DEF Die
  <2>4. (read0 \cup dropped)' \subseteq Messages
    BY <1>0, <1>13, <2>2 DEF Die
  <2>5. RunsPlaced'
    BY <1>13, EndPlaced DEF Die
  <2> QED
    BY <1>0, <1>13, <2>3, <2>4, <2>5 DEF RulesTypes, RulesTypeOK, RunsPlaced, Die
<1> QED
  BY <1>1, <1>2, <1>3, <1>4, <1>5, <1>6, <1>7, <1>8, <1>9, <1>10, <1>11, <1>12, <1>13 DEF Step

LEMMA NextRulesTypes == ASSUME RulesTypes, [RulesNext]_ruleVars PROVE RulesTypes'
<1> USE DEF RulesTypes
<1>1. ASSUME NEW h \in Reactors, Step(h) \/ ActFails(h) \/ ActStaysUnrecorded(h) \/ Die(h)
      PROVE  RulesTypes'
  BY <1>1, StepRulesTypes
<1>2. ASSUME NEW h \in Receivers, NEW m \in Messages, ReceiveRead(h, m) PROVE RulesTypes'
  <2>1. h \in Reactors /\ h \notin Workers
    BY RulesAssumption DEF RulesAssumption, Reactors
  <2>2. reported' \in 0 .. MaxReads
    <3>1. MaxReads \in Nat
      BY RulesAssumption DEF RulesAssumption
    <3>2. reported \in 0 .. MaxReads /\ reported < MaxReads /\ reported' = reported + 1
      BY <1>2 DEF ReceiveRead, RulesTypeOK
    <3> QED
      BY <3>1, <3>2
  <2>3. \A g \in Reactors : RuleInPlace(g)'
    BY <1>2, <2>1 DEF ReceiveRead, Start, RulesTypeOK, RuleInPlace
  <2> QED
    BY <1>2, <2>1, <2>2, <2>3 DEF ReceiveRead, Start, RulesTypeOK, ruleHistory
<1>3. ASSUME NEW h \in Workers, NEW m \in Messages, Claim(h, m) PROVE RulesTypes'
  BY <1>3, RulesAssumption
  DEF RulesAssumption, Claim, Start, RulesTypeOK, Statuses, RuleInPlace, Reactors
<1>4. ASSUME NEW m \in Messages, Schedule(m) PROVE RulesTypes'
  BY <1>4 DEF Schedule, RulesTypeOK, ruleLocals, ruleHistory, Statuses, RuleInPlace
<1>5. CASE UNCHANGED ruleVars
  BY <1>5 DEF ruleVars, RulesTypeOK, ruleLocals, ruleHistory, RuleInPlace
<1> QED
  BY <1>1, <1>2, <1>3, <1>4, <1>5 DEF RulesNext

LEMMA InitRulesTypes == ASSUME RulesInit PROVE RulesTypes
BY RulesAssumption
DEF RulesAssumption, RulesInit, RulesTypes, RulesTypeOK, RuleInPlace, Statuses, Sources

\* The checks, records and places of the handlers are what they are meant to be.
THEOREM RulesTypeCorrect == RulesSpec => []RulesTypeOK
<1>1. RulesInit => RulesTypes
  BY InitRulesTypes
<1>2. RulesTypes /\ [RulesNext]_ruleVars => RulesTypes'
  BY NextRulesTypes
<1>3. RulesTypes => RulesTypeOK
  BY DEF RulesTypes
<1> QED
  BY <1>1, <1>2, <1>3, PTL DEF RulesSpec

-----------------------------------------------------------------------------
(* Checks                                                                   *)

Missed(m, a) == <<"DIDNT_READ_MESSAGE", m, Own, a>>

BusyWith(m) == {h \in Workers : at[h] # "idle" /\ message[h] = m}

Untouched(m) == \A a \in Actions : effects[Missed(m, a)] = 0

\* One worker at most has a message's check, and none has one that may still be
\* claimed.
ClaimedOnce(m) ==
    /\ \A g, h \in BusyWith(m) : g = h
    /\ check[m] \in {"none", "PENDING"} => BusyWith(m) = {} /\ Untouched(m)

\* The worker has the action before it.
Ahead(h, a) ==
    \/ at[h] \in {"look", "rules"}
    \/ at[h] \in {"look up", "act"} /\ index[h] <= a
    \/ at[h] = "record" /\ index[h] < a

\* It takes the actions in their order, each once.
InOrder(m) ==
    \A a \in Actions :
        /\ effects[Missed(m, a)] <= 1
        /\ \A h \in BusyWith(m) : Ahead(h, a) => effects[Missed(m, a)] = 0

\* The message was read, nothing was done, and nobody is about to do anything.
Spared(m) ==
    /\ m \in read /\ Untouched(m)
    /\ \A h \in BusyWith(m) : at[h] = "look"

\* A message that was read in time is spared: its check is canceled, or may be,
\* by the receiver that found it PENDING or the worker that claimed it.
InTime(m) ==
    \/ check[m] = "CANCELED"
    \/ m \in read0
    \/ m \in read /\ check[m] = "PENDING"
    \/ \E h \in Receivers : at[h] = "cancel" /\ message[h] = m

CheckInv ==
    \A m \in Messages :
        /\ ClaimedOnce(m)
        /\ InOrder(m)
        /\ InTime(m) => Spared(m)

\* A handler goes on, through the rules or not, without an effect.
Onward(h) ==
    /\ UNCHANGED <<check, read, read0>>
    /\ \A m \in Messages, a \in Actions : effects'[Missed(m, a)] = effects[Missed(m, a)]
    /\ \A g \in Reactors \ {h} : at'[g] = at[g] /\ message'[g] = message[g] /\ index'[g] = index[g]
    /\ at[h] # "idle"
    /\ at'[h] # "idle" => message'[h] = message[h]
    /\ at'[h] # "cancel"
    /\ h \in Workers /\ at'[h] # "idle" =>
           /\ at[h] # "look"
           /\ \A a \in Actions : Ahead(h, a)' => Ahead(h, a)

LEMMA OnwardCheckInv ==
    ASSUME RulesTypes, CheckInv, NEW h \in Reactors, Onward(h) PROVE CheckInv'
<1> SUFFICES ASSUME NEW m \in Messages
             PROVE  ClaimedOnce(m)' /\ InOrder(m)' /\ (InTime(m)' => Spared(m)')
  BY DEF CheckInv
<1> USE DEF Reactors
<1>1. ClaimedOnce(m) /\ InOrder(m) /\ (InTime(m) => Spared(m))
  BY DEF CheckInv
<1>2. \A g \in BusyWith(m)' : g \in BusyWith(m)
  BY DEF BusyWith, Onward
<1>3. \A a \in Actions : effects'[Missed(m, a)] = effects[Missed(m, a)]
  BY DEF Onward
<1>4. \A g \in BusyWith(m)', a \in Actions : Ahead(g, a)' => Ahead(g, a)
  BY DEF Onward, BusyWith, Ahead
<1>5. ClaimedOnce(m)'
  BY <1>1, <1>2, <1>3 DEF ClaimedOnce, Untouched, Onward
<1>6. InOrder(m)'
  BY <1>1, <1>2, <1>3, <1>4 DEF InOrder
<1>7. InTime(m)' => InTime(m)
  BY DEF InTime, Onward
<1>8. \A g \in BusyWith(m)' : at[g] = "look" => at'[g] = "look"
  BY DEF BusyWith, Onward
<1> QED
  BY <1>1, <1>2, <1>3, <1>5, <1>6, <1>7, <1>8 DEF Spared, Untouched, Onward

LEMMA NumberedActions == Actions \subseteq Nat /\ 0 .. ActionCount \subseteq Nat
BY RulesAssumption DEF Actions, RulesAssumption

LEMMA OneLess == ASSUME NEW i \in Nat, NEW a \in Nat, i + 1 <= a PROVE i < a /\ i <= a
OBVIOUS

OthersStay(h) ==
    \A g \in Reactors \ {h} : /\ at'[g] = at[g] /\ message'[g] = message[g]
                             /\ source'[g] = source[g] /\ index'[g] = index[g]

LEMMA NextEnrollmentOnward ==
    ASSUME RulesTypes, NEW h \in Reactors, NEW n, NextEnrollment(h, n)
    PROVE  /\ OthersStay(h)
           /\ at'[h] # "idle" => message'[h] = message[h]
           /\ at'[h] \in {"idle", "rules"}
<1>1. RunsPlaced
  BY TypesPlaced
<1>2. CASE Stop(h)
  BY <1>1, <1>2 DEF Stop, RunsPlaced, OthersStay
<1>3. CASE ~ Stop(h)
  <2>1. PICK f \in Flows : /\ source' = [source EXCEPT ![h] = f]
                          /\ index' = [index EXCEPT ![h] = 0]
                          /\ at' = [at EXCEPT ![h] = "rules"]
                          /\ UNCHANGED message
    BY <1>3 DEF NextEnrollment
  <2> QED
    BY <1>1, <2>1 DEF RunsPlaced, OthersStay
<1> QED
  BY <1>2, <1>3

\* The rules' ways to go on are such.
LEMMA NextActionOnward ==
    ASSUME RulesTypes, NEW h \in Reactors, at[h] \in {"rules", "look up", "act", "record"},
           NextAction(h) \/ Through(h), at[h] = "rules" \/ NextAction(h)
    PROVE  /\ OthersStay(h)
           /\ at'[h] # "idle" => message'[h] = message[h]
           /\ at'[h] \in {"idle", "finish", "enrollments", "rules", "look up"}
           /\ h \in Workers => \A a \in Actions : Ahead(h, a)' => Ahead(h, a) /\ index[h] < a
<1>0. RunsPlaced /\ Receivers \cap Workers = {}
  BY TypesPlaced, RulesAssumption DEF RulesAssumption
<1>1. CASE Through(h)
  <2>1. CASE h \in Workers /\ Proceed(h, "finish")
    BY <1>0, <2>1 DEF Proceed, RunsPlaced, Ahead, OthersStay
  <2>2. CASE h \in Receivers /\ NextEnrollment(h, left[h])
    BY <1>0, <2>2, NextEnrollmentOnward
  <2>3. CASE /\ h \in Receivers
             /\ at' = [at EXCEPT ![h] = "enrollments"]
             /\ index' = [index EXCEPT ![h] = 0]
             /\ UNCHANGED <<message, source>>
    BY <1>0, <2>3 DEF RunsPlaced, OthersStay
  <2> QED
    BY <1>1, <2>1, <2>2, <2>3 DEF Through
<1>2. CASE index[h] # ActionCount /\ NextAction(h)
  <2>1. /\ at' = [at EXCEPT ![h] = "look up"]
        /\ index' = [index EXCEPT ![h] = index[h] + 1]
        /\ UNCHANGED <<message, source>>
    BY <1>2 DEF NextAction
  <2>2. at'[h] = "look up" /\ index'[h] = index[h] + 1 /\ OthersStay(h)
    BY <1>0, <2>1 DEF RunsPlaced, OthersStay
  <2>3. index[h] \in 0 .. ActionCount
    BY <1>0 DEF RunsPlaced
  <2>4. ASSUME NEW a \in Actions, Ahead(h, a)' PROVE Ahead(h, a) /\ index[h] < a
    <3>1. index[h] + 1 <= a
      BY <2>2, <2>4 DEF Ahead
    <3>2. a \in Nat /\ index[h] \in Nat
      BY <2>3, NumberedActions
    <3>3. index[h] < a /\ index[h] <= a
      BY <3>1, <3>2, OneLess
    <3> QED
      BY <3>3 DEF Ahead
  <2> QED
    BY <2>1, <2>2, <2>4
<1> QED
  BY <1>1, <1>2 DEF NextAction

\* Whose key an action's is.
LEMMA KeyIsMissed ==
    ASSUME RulesTypes, NEW h \in Reactors, at[h] \in {"look up", "act", "record"}
    PROVE  /\ Key(h) \in Keys
           /\ \A m \in Messages, a \in Actions :
                  /\ Missed(m, a) \in Keys
                  /\ Missed(m, a) = Key(h) <=> h \in Workers /\ message[h] = m /\ index[h] = a
<1>1. Key(h) \in Keys /\ (h \in Workers => source[h] = Own)
  BY KeyOf DEF RulesTypes, RuleInPlace
<1> QED
  BY <1>1 DEF Key, Keys, Event, RuleEvents, Missed, Sources

\* What taking effect does to the effects of a message's check.
LEMMA EffectOnMissed ==
    ASSUME RulesTypes, NEW h \in Reactors, at[h] = "act", TakeEffect(h),
           NEW m \in Messages, NEW a \in Actions
    PROVE  effects'[Missed(m, a)] =
               IF h \in Workers /\ message[h] = m /\ index[h] = a
               THEN effects[Missed(m, a)] + 1 ELSE effects[Missed(m, a)]
<1>1. PICK k \in Keys : k = Key(h)
  BY KeyIsMissed
<1>2. effects' = [effects EXCEPT ![k] = effects[k] + 1] /\ effects \in [Keys -> Nat]
  BY <1>1 DEF TakeEffect, RulesTypes, RulesTypeOK
<1>3. PICK j \in Keys : j = Missed(m, a)
  BY KeyIsMissed
<1>4. j = k <=> h \in Workers /\ message[h] = m /\ index[h] = a
  BY <1>1, <1>3, KeyIsMissed
<1>5. effects'[j] = IF j = k THEN effects[j] + 1 ELSE effects[j]
  BY <1>2
<1> QED
  BY <1>3, <1>4, <1>5

\* A worker's action takes effect.
LEMMA WorkerEffect ==
    ASSUME RulesTypes, CheckInv, NEW h \in Workers, at[h] = "act", TakeEffect(h),
           UNCHANGED <<check, read, read0>>,
           \A g \in Reactors \ {h} : at'[g] = at[g] /\ message'[g] = message[g] /\ index'[g] = index[g],
           at'[h] # "idle" => message'[h] = message[h],
           at'[h] \notin {"cancel", "look"},
           \A a \in Actions : Ahead(h, a)' => index[h] < a
    PROVE  CheckInv'
<1> SUFFICES ASSUME NEW m \in Messages
             PROVE  ClaimedOnce(m)' /\ InOrder(m)' /\ (InTime(m)' => Spared(m)')
  BY DEF CheckInv
<1> USE DEF Reactors
<1>1. ClaimedOnce(m) /\ InOrder(m) /\ (InTime(m) => Spared(m))
  BY DEF CheckInv
<1>2. \A g \in BusyWith(m)' : g \in BusyWith(m)
  BY DEF BusyWith
<1>3. \A a \in Actions :
          effects'[Missed(m, a)] = IF message[h] = m /\ index[h] = a
                                   THEN effects[Missed(m, a)] + 1 ELSE effects[Missed(m, a)]
  BY EffectOnMissed
<1>4. InTime(m)' => InTime(m)
  BY DEF InTime
<1>5. index[h] \in Actions /\ index[h] \in Nat
  BY NumberedActions DEF RulesTypes, RuleInPlace
<1>6. CASE message[h] = m
  <2>1. h \in BusyWith(m) /\ \A g \in BusyWith(m) : g = h
    BY <1>1, <1>6 DEF BusyWith, ClaimedOnce
  <2>2. ClaimedOnce(m)'
    BY <1>1, <1>2, <2>1 DEF ClaimedOnce
  <2>3. effects[Missed(m, index[h])] = 0
    <3>1. index[h] <= index[h]
      BY <1>5
    <3> QED
      BY <1>1, <1>5, <2>1, <3>1 DEF InOrder, Ahead
  <2>4. ASSUME NEW a \in Actions
        PROVE  /\ effects'[Missed(m, a)] <= 1
               /\ \A g \in BusyWith(m)' : Ahead(g, a)' => effects'[Missed(m, a)] = 0
    <3>1. CASE a = index[h]
      <4>1. effects'[Missed(m, a)] = 1
        BY <1>3, <1>6, <2>3, <3>1
      <4>2. ~ Ahead(h, a)'
        BY <1>5, <3>1, ~ (index[h] < index[h])
      <4> QED
        BY <1>2, <2>1, <4>1, <4>2
    <3>2. CASE a # index[h]
      <4>1. effects'[Missed(m, a)] = effects[Missed(m, a)]
        BY <1>3, <3>2
      <4>2. Ahead(h, a)' => Ahead(h, a)
        <5>1. ASSUME index[h] < a PROVE index[h] <= a
          BY <1>5, <5>1, NumberedActions
        <5> QED
          BY <5>1 DEF Ahead
      <4> QED
        BY <1>1, <1>2, <2>1, <4>1, <4>2 DEF InOrder
    <3> QED
      BY <3>1, <3>2
  <2>5. ~ InTime(m)
    BY <1>1, <2>1 DEF Spared
  <2> QED
    BY <1>4, <2>2, <2>4, <2>5 DEF InOrder
<1>7. CASE message[h] # m
  <2>1. \A a \in Actions : effects'[Missed(m, a)] = effects[Missed(m, a)]
    BY <1>3, <1>7
  <2>2. BusyWith(m)' = BusyWith(m) /\ \A g \in BusyWith(m) : g # h
    BY <1>7 DEF BusyWith
  <2>3. \A g \in BusyWith(m), a \in Actions : Ahead(g, a)' = Ahead(g, a)
    BY <2>2 DEF BusyWith, Ahead
  <2>4. ClaimedOnce(m)'
    BY <1>1, <2>1, <2>2 DEF ClaimedOnce, Untouched
  <2>5. InOrder(m)'
    BY <1>1, <2>1, <2>2, <2>3 DEF InOrder
  <2>6. Spared(m) => Spared(m)'
    BY <2>1, <2>2 DEF Spared, Untouched, BusyWith
  <2> QED
    BY <1>1, <1>4, <2>4, <2>5, <2>6
<1> QED
  BY <1>6, <1>7

LEMMA StepCheckInv ==
    ASSUME RulesTypes, CheckInv, NEW h \in Reactors,
           Step(h) \/ ActFails(h) \/ ActStaysUnrecorded(h) \/ Die(h)
    PROVE  CheckInv'
<1>0. /\ at \in [Reactors -> {"idle", "find", "cancel", "recipient", "enrollments", "look",
                             "rules", "look up", "act", "record", "finish"}]
      /\ message \in [Reactors -> Messages \cup {NoMessage}]
      /\ index \in [Reactors -> 0 .. ActionCount]
      /\ check \in [Messages -> Statuses]
      /\ \A g \in Reactors : RuleInPlace(g)
      /\ Receivers \cap Workers = {}
  BY RulesAssumption DEF RulesTypes, RulesTypeOK, RulesAssumption
<1>1. CASE FindPending(h)
  <2>1. message[h] \in Messages /\ message[h] \in read /\ h \in Receivers /\ h \notin Workers
    BY <1>0, <1>1 DEF FindPending, RuleInPlace
  <2>2. CASE Proceed(h, "recipient")
    <3>1. Onward(h)
      BY <1>0, <1>1, <2>1, <2>2 DEF Onward, FindPending, ruleHistory, Proceed
    <3> QED
      BY <3>1, OnwardCheckInv
  <2>3. CASE Proceed(h, "cancel") /\ check[message[h]] = "PENDING"
    <3> SUFFICES ASSUME NEW m \in Messages
                 PROVE  ClaimedOnce(m)' /\ InOrder(m)' /\ (InTime(m)' => Spared(m)')
      BY DEF CheckInv
    <3>1. ClaimedOnce(m) /\ InOrder(m) /\ (InTime(m) => Spared(m))
      BY DEF CheckInv
    <3>2. /\ UNCHANGED <<check, read, read0, effects, message, index>>
          /\ at' = [at EXCEPT ![h] = "cancel"]
      BY <1>1, <2>3 DEF FindPending, ruleHistory, Proceed
    <3>3. BusyWith(m)' = BusyWith(m) /\ \A g \in BusyWith(m) : at'[g] = at[g]
      BY <1>0, <2>1, <3>2 DEF BusyWith, Reactors
    <3>4. InTime(m)' => InTime(m)
      BY <1>0, <2>1, <2>3, <3>2 DEF InTime, Reactors
    <3> QED
      BY <3>1, <3>2, <3>3, <3>4 DEF ClaimedOnce, InOrder, Spared, Untouched, Ahead
  <2> QED
    BY <1>1, <2>2, <2>3 DEF FindPending
<1>2. CASE Cancel(h)
  <2>1. message[h] \in Messages /\ h \in Receivers /\ h \notin Workers /\ at[h] = "cancel"
    BY <1>0, <1>2 DEF Cancel, RuleInPlace
  <2> SUFFICES ASSUME NEW m \in Messages
               PROVE  ClaimedOnce(m)' /\ InOrder(m)' /\ (InTime(m)' => Spared(m)')
    BY DEF CheckInv
  <2>2. ClaimedOnce(m) /\ InOrder(m) /\ (InTime(m) => Spared(m))
    BY DEF CheckInv
  <2>3. /\ UNCHANGED <<read, read0, effects, message, index>>
        /\ at' = [at EXCEPT ![h] = "recipient"]
        /\ check' = [check EXCEPT ![message[h]] = "CANCELED"]
    BY <1>2 DEF Cancel, ruleHistory, Proceed
  <2>4. BusyWith(m)' = BusyWith(m) /\ \A g \in BusyWith(m) : at'[g] = at[g]
    BY <1>0, <2>1, <2>3 DEF BusyWith, Reactors
  <2>5. InTime(m)' => InTime(m)
    BY <1>0, <2>1, <2>3 DEF InTime, Reactors
  <2>6. check'[m] \in {"none", "PENDING"} => check[m] = check'[m]
    BY <1>0, <2>1, <2>3
  <2> QED
    BY <2>2, <2>3, <2>4, <2>5, <2>6 DEF ClaimedOnce, InOrder, Spared, Untouched, Ahead
<1>3. CASE Look(h)
  <2>1. message[h] \in Messages /\ h \in Workers /\ at[h] = "look"
    BY <1>0, <1>3 DEF Look, RuleInPlace
  <2> SUFFICES ASSUME NEW m \in Messages
               PROVE  ClaimedOnce(m)' /\ InOrder(m)' /\ (InTime(m)' => Spared(m)')
    BY DEF CheckInv
  <2>2. ClaimedOnce(m) /\ InOrder(m) /\ (InTime(m) => Spared(m))
    BY DEF CheckInv
  <2>3. /\ UNCHANGED <<read, read0, effects>>
        /\ \A g \in Reactors \ {h} : at'[g] = at[g] /\ message'[g] = message[g] /\ index'[g] = index[g]
    BY <1>0, <1>3 DEF Look, ruleHistory, Proceed, Stop
  <2>4. CASE message[h] \in read
    <3>1. at'[h] = "idle" /\ check' = [check EXCEPT ![message[h]] = "CANCELED"]
      BY <1>0, <1>3, <2>4 DEF Look, Stop
    <3>2. BusyWith(m)' = BusyWith(m) \ {h} /\ \A g \in BusyWith(m)' : at'[g] = at[g] /\ index'[g] = index[g]
      BY <2>3, <3>1 DEF BusyWith, Reactors
    <3>3. check'[m] \in {"none", "PENDING"} => check[m] = check'[m]
      BY <1>0, <2>1, <3>1
    <3>4. ClaimedOnce(m)' /\ InOrder(m)'
      BY <2>2, <2>3, <3>2, <3>3 DEF ClaimedOnce, InOrder, Untouched, Ahead
    <3>5. CASE m = message[h]
      <4>1. h \in BusyWith(m)
        BY <2>1, <3>5 DEF BusyWith
      <4>2. Untouched(m)
        BY <2>1, <2>2, <4>1 DEF InOrder, Untouched, Ahead
      <4>3. BusyWith(m)' = {}
        BY <2>2, <3>2, <4>1 DEF ClaimedOnce
      <4> QED
        BY <2>3, <2>4, <3>4, <3>5, <4>2, <4>3 DEF Spared, Untouched
    <3>6. CASE m # message[h]
      <4>1. check'[m] = check[m]
        BY <1>0, <3>1, <3>6
      <4>2. InTime(m)' => InTime(m)
        BY <2>3, <3>1, <4>1 DEF InTime, Reactors
      <4> QED
        BY <2>2, <2>3, <3>2, <3>4, <4>2 DEF Spared, Untouched
    <3> QED
      BY <3>5, <3>6
  <2>5. CASE message[h] \notin read
    <3>1. at' = [at EXCEPT ![h] = "rules"] /\ UNCHANGED <<check, message, index>>
      BY <1>3, <2>5 DEF Look, Proceed
    <3>2. BusyWith(m)' = BusyWith(m) /\ \A g \in BusyWith(m) : at'[g] = IF g = h THEN "rules" ELSE at[g]
      BY <1>0, <2>1, <3>1 DEF BusyWith, Reactors
    <3>3. ClaimedOnce(m)'
      BY <2>2, <2>3, <3>1, <3>2 DEF ClaimedOnce, Untouched
    <3>4. \A g \in BusyWith(m), a \in Actions : Ahead(g, a)' => Ahead(g, a)
      BY <2>1, <3>1, <3>2 DEF Ahead
    <3>5. InOrder(m)'
      BY <2>2, <2>3, <3>2, <3>4 DEF InOrder
    <3>6. InTime(m)' => InTime(m)
      BY <1>0, <2>1, <2>3, <3>1 DEF InTime, Reactors
    <3>7. InTime(m) => h \notin BusyWith(m)
      BY <2>2, <2>5 DEF Spared, BusyWith
    <3> QED
      BY <2>2, <2>3, <3>2, <3>3, <3>5, <3>6, <3>7 DEF Spared, Untouched
  <2> QED
    BY <2>4, <2>5
<1>4. CASE Finish(h)
  <2>1. message[h] \in Messages /\ h \in Workers /\ at[h] = "finish"
    BY <1>0, <1>4 DEF Finish, RuleInPlace
  <2> SUFFICES ASSUME NEW m \in Messages
               PROVE  ClaimedOnce(m)' /\ InOrder(m)' /\ (InTime(m)' => Spared(m)')
    BY DEF CheckInv
  <2>2. ClaimedOnce(m) /\ InOrder(m) /\ (InTime(m) => Spared(m))
    BY DEF CheckInv
  <2>3. /\ UNCHANGED <<read, read0, effects>>
        /\ \A g \in Reactors \ {h} : at'[g] = at[g] /\ message'[g] = message[g] /\ index'[g] = index[g]
        /\ at'[h] = "idle"
        /\ check' = [check EXCEPT ![message[h]] = "PROCESSED"]
    BY <1>0, <1>4 DEF Finish, ruleHistory, Stop
  <2>4. BusyWith(m)' = BusyWith(m) \ {h} /\ \A g \in BusyWith(m)' : at'[g] = at[g] /\ index'[g] = index[g]
    BY <2>3 DEF BusyWith, Reactors
  <2>5. check'[m] = IF m = message[h] THEN "PROCESSED" ELSE check[m]
    BY <1>0, <2>3
  <2>6. ClaimedOnce(m)' /\ InOrder(m)'
    <3>1. \A g \in BusyWith(m)', a \in Actions : Ahead(g, a)' = Ahead(g, a)
      BY <2>4 DEF Ahead
    <3>2. ClaimedOnce(m)'
      BY <2>2, <2>3, <2>4, <2>5 DEF ClaimedOnce, Untouched
    <3>3. InOrder(m)'
      BY <2>2, <2>3, <2>4, <3>1 DEF InOrder
    <3> QED
      BY <3>2, <3>3
  <2>7. InTime(m)' => InTime(m)
    BY <2>3, <2>5 DEF InTime, Reactors
  <2> QED
    BY <2>2, <2>3, <2>4, <2>6, <2>7 DEF Spared, Untouched
<1>5. CASE RunRules(h) \/ (LookUp(h) /\ NextAction(h)) \/ Record(h) \/ ActFails(h)
  <2>1. /\ at[h] \in {"rules", "look up", "act", "record"}
        /\ NextAction(h) \/ Through(h)
        /\ at[h] = "rules" \/ NextAction(h)
        /\ UNCHANGED <<check, read, read0, effects>>
    BY <1>5 DEF RunRules, LookUp, Record, ActFails, ruleHistory
  <2>2. Onward(h)
    BY <2>1, NextActionOnward DEF Onward, OthersStay
  <2> QED
    BY <2>2, OnwardCheckInv
<1>6. CASE LookUp(h) /\ Proceed(h, "act")
  <2>1. Onward(h)
    BY <1>0, <1>6 DEF LookUp, Onward, Proceed, Ahead
  <2> QED
    BY <2>1, OnwardCheckInv
<1>7. CASE Act(h)
  <2>1. /\ at[h] = "act" /\ TakeEffect(h) /\ UNCHANGED <<check, read, read0, message, index>>
        /\ at' = [at EXCEPT ![h] = "record"]
    BY <1>7 DEF Act, ruleHistory, Proceed
  <2>2. CASE h \in Workers
    BY <1>0, <2>1, <2>2, WorkerEffect DEF Ahead, Reactors
  <2>3. CASE h \notin Workers
    <3>1. \A m \in Messages, a \in Actions : effects'[Missed(m, a)] = effects[Missed(m, a)]
      BY <2>1, <2>3, EffectOnMissed
    <3>2. Onward(h)
      BY <1>0, <2>1, <2>3, <3>1 DEF Onward
    <3> QED
      BY <3>2, OnwardCheckInv
  <2> QED
    BY <2>2, <2>3
<1>8. CASE ActStaysUnrecorded(h)
  <2>1. /\ at[h] \in {"act", "record"} /\ NextAction(h)
        /\ UNCHANGED <<check, read, read0>>
        /\ (at[h] = "act" /\ TakeEffect(h)) \/ UNCHANGED effects
    BY <1>8 DEF ActStaysUnrecorded
  <2>2. CASE UNCHANGED effects
    <3>1. Onward(h)
      BY <2>1, <2>2, NextActionOnward DEF Onward, OthersStay
    <3> QED
      BY <3>1, OnwardCheckInv
  <2>3. CASE at[h] = "act" /\ TakeEffect(h) /\ h \in Workers
    <3>1. /\ OthersStay(h) /\ at'[h] \notin {"cancel", "look"}
          /\ at'[h] # "idle" => message'[h] = message[h]
          /\ \A a \in Actions : Ahead(h, a)' => index[h] < a
      BY <2>1, <2>3, NextActionOnward
    <3> QED
      BY <2>1, <2>3, <3>1, WorkerEffect DEF OthersStay
  <2>4. CASE at[h] = "act" /\ TakeEffect(h) /\ h \notin Workers
    <3>1. \A m \in Messages, a \in Actions : effects'[Missed(m, a)] = effects[Missed(m, a)]
      BY <2>4, EffectOnMissed
    <3>2. Onward(h)
      BY <2>1, <2>4, <3>1, NextActionOnward DEF Onward, OthersStay
    <3> QED
      BY <3>2, OnwardCheckInv
  <2> QED
    BY <2>1, <2>2, <2>3, <2>4
<1>9. CASE Die(h)
  <2>1. Onward(h)
    BY <1>0, <1>9 DEF Die, Onward, Stop
  <2> QED
    BY <2>1, OnwardCheckInv
<1>10. CASE FindRecipient(h)
  <2>1. h \in Receivers /\ h \notin Workers
    BY <1>0, <1>10 DEF FindRecipient, RuleInPlace
  <2>2. /\ at[h] = "recipient"
        /\ Proceed(h, "rules") \/ Proceed(h, "enrollments")
        /\ UNCHANGED <<check, read, read0, effects>>
    BY <1>10 DEF FindRecipient, ruleHistory
  <2>3. Onward(h)
    BY <1>0, <2>1, <2>2 DEF Onward, Proceed
  <2> QED
    BY <2>3, OnwardCheckInv
<1>11. CASE FindEnrollments(h)
  <2>1. h \in Receivers /\ h \notin Workers
    BY <1>0, <1>11 DEF FindEnrollments, RuleInPlace
  <2>2. /\ at[h] = "enrollments"
        /\ \E n \in 0 .. MaxEnrollments : NextEnrollment(h, n)
        /\ UNCHANGED <<check, read, read0, effects>>
    BY <1>11 DEF FindEnrollments, ruleHistory
  <2>3. Onward(h)
    BY <2>1, <2>2, NextEnrollmentOnward DEF Onward, OthersStay
  <2> QED
    BY <2>3, OnwardCheckInv
<1> QED
  <2>1. LookUp(h) => NextAction(h) \/ Proceed(h, "act")
    BY DEF LookUp
  <2> QED
    BY <2>1, <1>1, <1>2, <1>3, <1>4, <1>5, <1>6, <1>7, <1>8, <1>9, <1>10, <1>11 DEF Step

LEMMA NextCheckInv == ASSUME RulesTypes, CheckInv, [RulesNext]_ruleVars PROVE CheckInv'
<1>0. /\ at \in [Reactors -> {"idle", "find", "cancel", "recipient", "enrollments", "look",
                             "rules", "look up", "act", "record", "finish"}]
      /\ message \in [Reactors -> Messages \cup {NoMessage}]
      /\ check \in [Messages -> Statuses]
      /\ Receivers \cap Workers = {}
  BY RulesAssumption DEF RulesTypes, RulesTypeOK, RulesAssumption
<1>1. ASSUME NEW h \in Reactors, Step(h) \/ ActFails(h) \/ ActStaysUnrecorded(h) \/ Die(h)
      PROVE  CheckInv'
  BY <1>1, StepCheckInv
<1>2. CASE UNCHANGED ruleVars
  <2> SUFFICES ASSUME NEW m \in Messages
               PROVE  ClaimedOnce(m)' /\ InOrder(m)' /\ (InTime(m)' => Spared(m)')
    BY DEF CheckInv
  <2>1. UNCHANGED <<check, effects, read, read0, at, message, index>>
    BY <1>2 DEF ruleVars, ruleLocals, ruleHistory
  <2>2. BusyWith(m)' = BusyWith(m)
    BY <2>1 DEF BusyWith
  <2>3. ClaimedOnce(m)' = ClaimedOnce(m)
    BY <2>1, <2>2 DEF ClaimedOnce, Untouched
  <2>4. InOrder(m)' = InOrder(m)
    BY <2>1, <2>2 DEF InOrder, Ahead
  <2>5. InTime(m)' = InTime(m) /\ Spared(m)' = Spared(m)
    BY <2>1, <2>2 DEF InTime, Spared, Untouched
  <2> QED
    BY <2>3, <2>4, <2>5 DEF CheckInv
<1>3. CASE \/ \E h \in Receivers, n \in Messages : ReceiveRead(h, n)
           \/ \E h \in Workers, n \in Messages : Claim(h, n)
           \/ \E n \in Messages : Schedule(n)
  <2> SUFFICES ASSUME NEW m \in Messages
               PROVE  ClaimedOnce(m)' /\ InOrder(m)' /\ (InTime(m)' => Spared(m)')
    BY DEF CheckInv
  <2>0. ClaimedOnce(m) /\ InOrder(m) /\ (InTime(m) => Spared(m))
    BY DEF CheckInv
  <2>1. ASSUME NEW h \in Receivers, NEW n \in Messages, ReceiveRead(h, n)
        PROVE  ClaimedOnce(m)' /\ InOrder(m)' /\ (InTime(m)' => Spared(m)')
    <3>1. /\ UNCHANGED <<check, effects, read0, index>> /\ read' = read \cup {n}
          /\ at' = [at EXCEPT ![h] = "find"] /\ message' = [message EXCEPT ![h] = n]
      BY <2>1 DEF ReceiveRead, Start, ruleHistory
    <3>2. BusyWith(m)' = BusyWith(m) /\ \A g \in BusyWith(m) : at'[g] = at[g]
      BY <1>0, <3>1 DEF BusyWith, Reactors
    <3>3. InTime(m)' => InTime(m) \/ check[m] = "PENDING"
      BY <1>0, <3>1 DEF InTime, Reactors
    <3>4. InTime(m)' => m \in read'
      BY <2>0, <3>1, <3>3 DEF InTime, Spared
    <3> QED
      BY <2>0, <3>1, <3>2, <3>3, <3>4 DEF ClaimedOnce, InOrder, Spared, Untouched, Ahead
  <2>2. ASSUME NEW h \in Workers, NEW n \in Messages, Claim(h, n)
        PROVE  ClaimedOnce(m)' /\ InOrder(m)' /\ (InTime(m)' => Spared(m)')
    <3>1. /\ UNCHANGED <<effects, read, index>>
          /\ at[h] = "idle" /\ check[n] = "PENDING"
          /\ check' = [check EXCEPT ![n] = "PROCESSING"]
          /\ read0' = IF n \in read THEN read0 \cup {n} ELSE read0
          /\ at' = [at EXCEPT ![h] = "look"] /\ message' = [message EXCEPT ![h] = n]
      BY <2>2 DEF Claim, Start
    <3>2. CASE m = n
      <4>1. BusyWith(m) = {} /\ Untouched(m)
        BY <2>0, <3>1, <3>2 DEF ClaimedOnce
      <4>2. BusyWith(m)' = {h} /\ at'[h] = "look"
        BY <1>0, <3>1, <3>2, <4>1 DEF BusyWith, Reactors
      <4>3. ClaimedOnce(m)' /\ InOrder(m)'
        <5>1. \A a \in Actions : effects'[Missed(m, a)] = 0
          BY <3>1, <4>1 DEF Untouched
        <5>2. check'[m] = "PROCESSING"
          BY <1>0, <3>1, <3>2
        <5> QED
          BY <4>2, <5>1, <5>2 DEF ClaimedOnce, InOrder
      <4>4. InTime(m)' => InTime(m) \/ m \in read
        BY <1>0, <3>1, <3>2 DEF InTime, Reactors
      <4> QED
        BY <2>0, <3>1, <4>1, <4>2, <4>3, <4>4 DEF Spared, Untouched
    <3>3. CASE m # n
      <4>1. BusyWith(m)' = BusyWith(m) /\ \A g \in BusyWith(m) : at'[g] = at[g]
        BY <1>0, <3>1, <3>3 DEF BusyWith, Reactors
      <4>2. check'[m] = check[m] /\ (m \in read0' <=> m \in read0)
        BY <1>0, <3>1, <3>3
      <4>3. InTime(m)' => InTime(m)
        BY <1>0, <3>1, <4>2 DEF InTime, Reactors
      <4> QED
        BY <2>0, <3>1, <4>1, <4>2, <4>3
        DEF ClaimedOnce, InOrder, Spared, Untouched, Ahead
    <3> QED
      BY <3>2, <3>3
  <2>3. ASSUME NEW n \in Messages, Schedule(n)
        PROVE  ClaimedOnce(m)' /\ InOrder(m)' /\ (InTime(m)' => Spared(m)')
    <3>1. /\ UNCHANGED <<effects, read, read0, at, message, index>>
          /\ check[n] = "none" /\ check' = [check EXCEPT ![n] = "PENDING"]
      BY <2>3 DEF Schedule, ruleLocals, ruleHistory
    <3>2. BusyWith(m)' = BusyWith(m)
      BY <3>1 DEF BusyWith
    <3>3. check'[m] = IF m = n THEN "PENDING" ELSE check[m]
      BY <1>0, <3>1
    <3>4. InTime(m)' => InTime(m) \/ (m = n /\ m \in read)
      BY <3>1, <3>3 DEF InTime
    <3> QED
      BY <2>0, <3>1, <3>2, <3>3, <3>4 DEF ClaimedOnce, InOrder, Spared, Untouched, Ahead
  <2> QED
    BY <1>3, <2>1, <2>2, <2>3
<1> QED
  BY <1>1, <1>2, <1>3 DEF RulesNext

LEMMA InitCheckInv == ASSUME RulesInit PROVE CheckInv
<1>1. \A m \in Messages, a \in Actions : Missed(m, a) \in Keys
  BY DEF Missed, Keys, RuleEvents, Sources
<1>2. \A m \in Messages : BusyWith(m) = {} /\ Untouched(m)
  BY <1>1 DEF RulesInit, BusyWith, Untouched, Reactors
<1> QED
  BY <1>2 DEF RulesInit, CheckInv, ClaimedOnce, InOrder, InTime, Untouched, Reactors

\* A check has one run of the rules.
OwnRunsOnly ==
    \A m \in Messages, s \in Sources \ {Own}, a \in Actions :
        effects[<<"DIDNT_READ_MESSAGE", m, s, a>>] = 0

LEMMA EffectElsewhere ==
    ASSUME RulesTypes, OwnRunsOnly, NEW h \in Reactors, at[h] = "act", TakeEffect(h)
    PROVE  OwnRunsOnly'
<1> SUFFICES ASSUME NEW m \in Messages, NEW s \in Sources \ {Own}, NEW a \in Actions
             PROVE  effects'[<<"DIDNT_READ_MESSAGE", m, s, a>>] = 0
  BY DEF OwnRunsOnly
<1>1. PICK k \in Keys : k = Key(h)
  BY KeyOf
<1>2. effects' = [effects EXCEPT ![k] = effects[k] + 1] /\ effects \in [Keys -> Nat]
  BY <1>1 DEF TakeEffect, RulesTypes, RulesTypeOK
<1>3. PICK j \in Keys : j = <<"DIDNT_READ_MESSAGE", m, s, a>>
  BY DEF Keys, RuleEvents
<1>4. h \in Workers => source[h] = Own
  BY DEF RulesTypes, RuleInPlace
<1>5. j # k
  BY <1>1, <1>3, <1>4 DEF Key, Event
<1>6. effects'[j] = effects[j]
  BY <1>2, <1>5
<1> QED
  BY <1>3, <1>6 DEF OwnRunsOnly

LEMMA NextElsewhere == ASSUME RulesTypes, OwnRunsOnly, [RulesNext]_ruleVars PROVE OwnRunsOnly'
<1>1. CASE UNCHANGED effects
  BY <1>1 DEF OwnRunsOnly
<1>2. ASSUME NEW h \in Reactors, Act(h) \/ ActStaysUnrecorded(h), ~ UNCHANGED effects PROVE OwnRunsOnly'
  BY <1>2, EffectElsewhere DEF Act, ActStaysUnrecorded
<1>3. ASSUME NEW h \in Reactors, Step(h) \/ ActFails(h) \/ Die(h)
      PROVE  Act(h) \/ UNCHANGED effects
  BY <1>3
  DEF Step, FindPending, Cancel, FindRecipient, FindEnrollments, Look, Finish, RunRules,
      LookUp, Record, ActFails, Die
<1>4. CASE \/ UNCHANGED ruleVars
           \/ \E h \in Receivers, m \in Messages : ReceiveRead(h, m)
           \/ \E h \in Workers, m \in Messages : Claim(h, m)
           \/ \E m \in Messages : Schedule(m)
  BY <1>1, <1>4 DEF ruleVars, ReceiveRead, Claim, Schedule
<1> QED
  BY <1>1, <1>2, <1>3, <1>4 DEF RulesNext

LEMMA InitElsewhere == ASSUME RulesInit PROVE OwnRunsOnly
BY DEF RulesInit, OwnRunsOnly, Keys, RuleEvents

\* CheckTellsTheTruth: whoever had read a message when its check was claimed, or
\* finds the check canceled, has not been treated as somebody who didn't
\* (processWhatsAppRulePendingChecksBatch, cancelDidntReadCheckForRead).
THEOREM ReadersAreSpared == RulesSpec => []CheckTellsTheTruth
<1>1. RulesInit => RulesTypes /\ CheckInv /\ OwnRunsOnly
  BY InitRulesTypes, InitCheckInv, InitElsewhere
<1>2. RulesTypes /\ CheckInv /\ OwnRunsOnly /\ [RulesNext]_ruleVars =>
          (RulesTypes /\ CheckInv /\ OwnRunsOnly)'
  BY NextRulesTypes, NextCheckInv, NextElsewhere
<1>3. CheckInv /\ OwnRunsOnly => CheckTellsTheTruth
  <2> SUFFICES ASSUME CheckInv, OwnRunsOnly, NEW m \in Messages, check[m] = "CANCELED" \/ m \in read0
               PROVE  /\ m \in read
                      /\ \A s \in Sources, a \in Actions :
                             effects[<<"DIDNT_READ_MESSAGE", m, s, a>>] = 0
    BY DEF CheckTellsTheTruth
  <2>1. m \in read /\ Untouched(m)
    BY DEF CheckInv, InTime, Spared
  <2> QED
    BY <2>1 DEF Untouched, Missed, OwnRunsOnly
<1> QED
  BY <1>1, <1>2, <1>3, PTL DEF RulesSpec

-----------------------------------------------------------------------------
(* Records of actions                                                       *)

\* A key that no two handlers took for new at once, and whose effects were all
\* recorded: at most one handler is at it, and what it does is the first time.
Recorded(k) ==
    k \notin overlapped \cup unrecorded =>
        /\ \A g, h \in Doing(k) : g = h
        /\ \A h \in Doing(k) : at[h] = "act" => effects[k] = 0
        /\ effects[k] <= 1
        /\ effects[k] > 0 => k \in executed \/ \E h \in Doing(k) : at[h] = "record"

RecordInv == \A k \in Keys : Recorded(k)

LEMMA OthersDoing ==
    ASSUME NEW h \in Reactors, OthersStay(h), NEW k
    PROVE  \A g \in Reactors \ {h} : g \in Doing(k)' <=> g \in Doing(k)
BY DEF OthersStay, Doing, Key, Event

\* A step that neither starts on an action nor takes it.
LEMMA IdleRecordInv ==
    ASSUME RecordInv, NEW h \in Reactors, OthersStay(h), UNCHANGED effects,
           executed \subseteq executed', overlapped \subseteq overlapped',
           unrecorded \subseteq unrecorded',
           at'[h] \notin {"act", "record"},
           at[h] = "record" => Key(h) \in executed' \cup unrecorded'
    PROVE  RecordInv'
<1> SUFFICES ASSUME NEW k \in Keys PROVE Recorded(k)'
  BY DEF RecordInv
<1>1. Recorded(k)
  BY DEF RecordInv
<1>2. h \notin Doing(k)'
  BY DEF Doing
<1>3. \A g \in Doing(k)' : g \in Doing(k) /\ at'[g] = at[g]
  BY <1>2, OthersDoing DEF Doing, OthersStay
<1>4. ASSUME NEW g \in Doing(k), at[g] = "record", k \notin executed' \cup unrecorded'
      PROVE  g \in Doing(k)' /\ at'[g] = "record"
  <2>1. g # h
    BY <1>4 DEF Doing
  <2> QED
    BY <1>4, <2>1, OthersDoing DEF Doing, OthersStay
<1> QED
  BY <1>1, <1>3, <1>4 DEF Recorded

LEMMA ActRecordInv ==
    ASSUME RulesTypes, RecordInv, NEW h \in Reactors, at[h] = "act", TakeEffect(h), OthersStay(h),
           UNCHANGED <<executed, overlapped>>, unrecorded \subseteq unrecorded',
           \/ /\ at'[h] = "record" /\ message'[h] = message[h]
              /\ source'[h] = source[h] /\ index'[h] = index[h]
           \/ at'[h] \notin {"act", "record"} /\ Key(h) \in unrecorded'
    PROVE  RecordInv'
<1> SUFFICES ASSUME NEW k \in Keys PROVE Recorded(k)'
  BY DEF RecordInv
<1>1. Recorded(k)
  BY DEF RecordInv
<1>2. PICK j \in Keys : j = Key(h)
  BY KeyOf
<1>3. effects' = [effects EXCEPT ![j] = effects[j] + 1] /\ effects \in [Keys -> Nat]
  BY <1>2 DEF TakeEffect, RulesTypes, RulesTypeOK
<1>4. effects'[k] = IF k = j THEN effects[k] + 1 ELSE effects[k]
  BY <1>3
<1>5. \A g \in Reactors \ {h} : (g \in Doing(k)' <=> g \in Doing(k)) /\ at'[g] = at[g]
  BY OthersDoing DEF OthersStay
<1>6. h \in Doing(k) <=> k = j
  BY <1>2 DEF Doing
<1>7. h \in Doing(k)' => k = j /\ at'[h] = "record"
  BY <1>2 DEF Doing, Key, Event
<1>8. k = j /\ k \notin unrecorded' => h \in Doing(k)' /\ at'[h] = "record"
  BY <1>2 DEF Doing, Key, Event
<1>9. CASE k = j
  <2> SUFFICES ASSUME k \notin overlapped' \cup unrecorded' PROVE Recorded(k)'
    BY DEF Recorded
  <2>1. \A g \in Doing(k) : g = h
    BY <1>1, <1>6, <1>9 DEF Recorded
  <2>2. \A g \in Doing(k)' : g = h
    BY <1>5, <2>1 DEF Doing
  <2>3. effects[k] = 0
    BY <1>1, <1>6, <1>9 DEF Recorded
  <2>4. effects'[k] = 1
    BY <1>4, <1>9, <2>3
  <2> QED
    BY <1>7, <1>8, <1>9, <2>2, <2>4 DEF Recorded
<1>10. CASE k # j
  <2>1. Doing(k)' = Doing(k) /\ \A g \in Doing(k) : g # h /\ at'[g] = at[g]
    BY <1>5, <1>6, <1>7, <1>10 DEF Doing
  <2> QED
    BY <1>1, <1>4, <1>10, <2>1 DEF Recorded
<1> QED
  BY <1>9, <1>10

LEMMA NoneOrSome == ASSUME NEW n \in Nat, ~ (n > 0) PROVE n = 0
OBVIOUS

LEMMA LookUpRecordInv ==
    ASSUME RulesTypes, RecordInv, NEW h \in Reactors, LookUp(h), Proceed(h, "act"), Key(h) \notin executed
    PROVE  RecordInv'
<1> SUFFICES ASSUME NEW k \in Keys PROVE Recorded(k)'
  BY DEF RecordInv
<1>0. at \in [Reactors -> {"idle", "find", "cancel", "recipient", "enrollments", "look",
                           "rules", "look up", "act", "record", "finish"}]
  BY DEF RulesTypes, RulesTypeOK
<1>1. Recorded(k)
  BY DEF RecordInv
<1>2. /\ at[h] = "look up" /\ at' = [at EXCEPT ![h] = "act"]
      /\ UNCHANGED <<message, source, index, executed, effects, unrecorded>>
      /\ overlapped' = IF Doing(Key(h)) = {} THEN overlapped ELSE overlapped \cup {Key(h)}
  BY DEF LookUp, Proceed
<1>3. OthersStay(h)
  BY <1>0, <1>2 DEF OthersStay
<1>4. \A g \in Reactors \ {h} : (g \in Doing(k)' <=> g \in Doing(k)) /\ at'[g] = at[g]
  BY <1>3, OthersDoing DEF OthersStay
<1>5. h \notin Doing(k) /\ (h \in Doing(k)' => k = Key(h))
  BY <1>2 DEF Doing, Key, Event
<1>6. CASE k = Key(h)
  <2> SUFFICES ASSUME k \notin overlapped' \cup unrecorded' PROVE Recorded(k)'
    BY DEF Recorded
  <2>1. Doing(k) = {} /\ k \notin overlapped \cup unrecorded
    BY <1>2, <1>6
  <2>2. effects[k] \in Nat /\ k \notin executed
    BY <1>6 DEF RulesTypes, RulesTypeOK
  <2>3. effects'[k] = 0
    <3>1. ~ (effects[k] > 0)
      BY <1>1, <2>1, <2>2 DEF Recorded
    <3> QED
      BY <1>2, <2>2, <3>1, NoneOrSome
  <2>4. \A g \in Doing(k)' : g = h
    BY <1>4, <2>1 DEF Doing
  <2> QED
    BY <2>3, <2>4 DEF Recorded
<1>7. CASE k # Key(h)
  <2>1. Doing(k)' = Doing(k) /\ \A g \in Doing(k) : at'[g] = at[g]
    BY <1>4, <1>5, <1>7 DEF Doing
  <2> QED
    BY <1>1, <1>2, <2>1 DEF Recorded
<1> QED
  BY <1>6, <1>7

LEMMA StepRecordInv ==
    ASSUME RulesTypes, RecordInv, NEW h \in Reactors,
           Step(h) \/ ActFails(h) \/ ActStaysUnrecorded(h) \/ Die(h)
    PROVE  RecordInv'
<1>0. /\ at \in [Reactors -> {"idle", "find", "cancel", "recipient", "enrollments", "look",
                             "rules", "look up", "act", "record", "finish"}]
      /\ message \in [Reactors -> Messages \cup {NoMessage}]
      /\ source \in [Reactors -> Sources]
      /\ index \in [Reactors -> 0 .. ActionCount]
  BY DEF RulesTypes, RulesTypeOK
<1>1. CASE FindPending(h) \/ Cancel(h)
  <2>1. /\ OthersStay(h) /\ at'[h] \in {"recipient", "cancel"} /\ at[h] \in {"find", "cancel"}
        /\ UNCHANGED <<effects, executed, overlapped, unrecorded>>
    BY <1>0, <1>1 DEF FindPending, Cancel, Proceed, OthersStay, ruleHistory
  <2> QED
    BY <2>1, IdleRecordInv
<1>2. CASE Look(h) \/ Finish(h) \/ Die(h)
  <2>1. OthersStay(h) /\ at'[h] \in {"rules", "idle"}
    BY <1>0, <1>2 DEF Look, Finish, Die, Proceed, Stop, OthersStay
  <2>2. /\ UNCHANGED <<effects, executed, overlapped>> /\ unrecorded \subseteq unrecorded'
        /\ at[h] = "record" => Key(h) \in unrecorded'
    BY <1>2 DEF Look, Finish, Die, ruleHistory
  <2> QED
    BY <2>1, <2>2, IdleRecordInv
<1>3. CASE RunRules(h) \/ (LookUp(h) /\ NextAction(h)) \/ ActFails(h)
  <2>1. /\ at[h] \in {"rules", "look up", "act"}
        /\ NextAction(h) \/ Through(h)
        /\ at[h] = "rules" \/ NextAction(h)
        /\ UNCHANGED <<executed, effects, unrecorded>>
    BY <1>3 DEF RunRules, LookUp, ActFails, ruleHistory
  <2>2. overlapped \subseteq overlapped'
    BY <1>3 DEF RunRules, LookUp, ActFails, ruleHistory
  <2>3. OthersStay(h) /\ at'[h] \in {"idle", "finish", "enrollments", "rules", "look up"}
    BY <2>1, NextActionOnward
  <2> QED
    BY <2>1, <2>2, <2>3, IdleRecordInv
<1>4. CASE LookUp(h) /\ ~ NextAction(h)
  BY <1>4, LookUpRecordInv DEF LookUp
<1>5. CASE Act(h)
  <2>1. /\ at[h] = "act" /\ TakeEffect(h) /\ at' = [at EXCEPT ![h] = "record"]
        /\ UNCHANGED <<message, source, index, executed, overlapped, unrecorded>>
    BY <1>5 DEF Act, Proceed, ruleHistory
  <2>2. OthersStay(h) /\ at'[h] = "record"
    BY <1>0, <2>1 DEF OthersStay
  <2> QED
    BY <2>1, <2>2, ActRecordInv
<1>6. CASE Record(h)
  <2>1. /\ at[h] = "record" /\ NextAction(h) /\ executed' = executed \cup {Key(h)}
        /\ UNCHANGED <<effects, overlapped, unrecorded>>
    BY <1>6 DEF Record, ruleHistory
  <2>2. OthersStay(h) /\ at'[h] \in {"idle", "finish", "enrollments", "rules", "look up"}
    BY <2>1, NextActionOnward
  <2> QED
    BY <2>1, <2>2, IdleRecordInv
<1>7. CASE ActStaysUnrecorded(h)
  <2>1. /\ at[h] \in {"act", "record"} /\ NextAction(h)
        /\ unrecorded' = unrecorded \cup {Key(h)} /\ UNCHANGED <<executed, overlapped>>
        /\ (at[h] = "act" /\ TakeEffect(h)) \/ UNCHANGED effects
    BY <1>7 DEF ActStaysUnrecorded
  <2>2. OthersStay(h) /\ at'[h] \in {"idle", "finish", "enrollments", "rules", "look up"}
    BY <2>1, NextActionOnward
  <2>3. CASE UNCHANGED effects
    BY <2>1, <2>2, <2>3, IdleRecordInv
  <2>4. CASE at[h] = "act" /\ TakeEffect(h)
    BY <2>1, <2>2, <2>4, ActRecordInv
  <2> QED
    BY <2>1, <2>3, <2>4
<1>8. CASE FindRecipient(h)
  <2>1. /\ OthersStay(h) /\ at'[h] \in {"rules", "enrollments"} /\ at[h] = "recipient"
        /\ UNCHANGED <<effects, executed, overlapped, unrecorded>>
    BY <1>0, <1>8 DEF FindRecipient, Proceed, OthersStay, ruleHistory
  <2> QED
    BY <2>1, IdleRecordInv
<1>9. CASE FindEnrollments(h)
  <2>1. /\ OthersStay(h) /\ at'[h] \in {"idle", "rules"} /\ at[h] = "enrollments"
        /\ UNCHANGED <<effects, executed, overlapped, unrecorded>>
    BY <1>9, NextEnrollmentOnward DEF FindEnrollments, ruleHistory
  <2> QED
    BY <2>1, IdleRecordInv
<1> QED
  BY <1>1, <1>2, <1>3, <1>4, <1>5, <1>6, <1>7, <1>8, <1>9 DEF Step

LEMMA NextRecordInv == ASSUME RulesTypes, RecordInv, [RulesNext]_ruleVars PROVE RecordInv'
<1>0. /\ at \in [Reactors -> {"idle", "find", "cancel", "recipient", "enrollments", "look",
                             "rules", "look up", "act", "record", "finish"}]
      /\ message \in [Reactors -> Messages \cup {NoMessage}]
  BY DEF RulesTypes, RulesTypeOK
<1>1. ASSUME NEW h \in Reactors, Step(h) \/ ActFails(h) \/ ActStaysUnrecorded(h) \/ Die(h)
      PROVE  RecordInv'
  BY <1>1, StepRecordInv
<1>2. ASSUME NEW h \in Reactors, NEW m \in Messages, ReceiveRead(h, m) \/ Claim(h, m) PROVE RecordInv'
  <2>1. /\ at[h] = "idle" /\ OthersStay(h) /\ at'[h] \in {"find", "look"}
        /\ UNCHANGED <<effects, executed, overlapped, unrecorded>>
    BY <1>0, <1>2 DEF ReceiveRead, Claim, Start, OthersStay, ruleHistory
  <2> QED
    BY <2>1, IdleRecordInv
<1>3. CASE UNCHANGED ruleVars \/ \E m \in Messages : Schedule(m)
  BY <1>3
  DEF ruleVars, Schedule, ruleLocals, ruleHistory, RecordInv, Recorded, Doing, Key,
      Event
<1> QED
  BY <1>1, <1>2, <1>3 DEF RulesNext, Reactors

\* ActionOncePerEvent: for an event that is reported again and again an action is
\* taken once for the broadcast and once for each flow, except where two handlers
\* looked for its record at once or it took effect without one; and once in all
\* and in any case when it is for a message that was not read
\* (alreadyExecutedRuleAction, processFlowRulesForEvent, processCampaignReadEvent).
THEOREM ActionsOnce == RulesSpec => []ActionOncePerEvent
<1>1. RulesInit => RulesTypes /\ CheckInv /\ OwnRunsOnly /\ RecordInv
  <2> SUFFICES ASSUME RulesInit PROVE RecordInv
    BY InitRulesTypes, InitCheckInv, InitElsewhere
  <2>1. \A k \in Keys : Doing(k) = {} /\ effects[k] = 0
    BY DEF RulesInit, Doing
  <2> QED
    BY <2>1 DEF RecordInv, Recorded
<1>2. RulesTypes /\ CheckInv /\ OwnRunsOnly /\ RecordInv /\ [RulesNext]_ruleVars =>
          (RulesTypes /\ CheckInv /\ OwnRunsOnly /\ RecordInv)'
  BY NextRulesTypes, NextCheckInv, NextElsewhere, NextRecordInv
<1>3. RulesTypes /\ CheckInv /\ OwnRunsOnly /\ RecordInv => ActionOncePerEvent
  <2> SUFFICES ASSUME RulesTypes, CheckInv, OwnRunsOnly, RecordInv, NEW k \in Keys
               PROVE  /\ k \notin overlapped \cup unrecorded => effects[k] <= 1
                      /\ k[1] = "DIDNT_READ_MESSAGE" =>
                             effects[k] <= IF k[3] = Own THEN 1 ELSE 0
    BY DEF ActionOncePerEvent
  <2>1. k \notin overlapped \cup unrecorded => effects[k] <= 1
    BY DEF RecordInv, Recorded
  <2>2. /\ k[2] \in Messages /\ k[3] \in Sources /\ k[4] \in Actions
        /\ k = <<k[1], k[2], k[3], k[4]>>
    BY DEF Keys
  <2>3. CASE k[1] = "DIDNT_READ_MESSAGE" /\ k[3] = Own
    <3>1. k = Missed(k[2], k[4])
      BY <2>2, <2>3 DEF Missed
    <3> QED
      BY <2>1, <2>2, <2>3, <3>1 DEF CheckInv, InOrder
  <2>4. CASE k[1] = "DIDNT_READ_MESSAGE" /\ k[3] # Own
    <3>1. effects[k] = 0
      BY <2>2, <2>4 DEF OwnRunsOnly
    <3> QED
      BY <2>1, <2>4, <3>1
  <2> QED
    BY <2>1, <2>3, <2>4
<1> QED
  BY <1>1, <1>2, <1>3, PTL DEF RulesSpec

=============================================================================
