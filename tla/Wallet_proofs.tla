--------------------------- MODULE Wallet_proofs ---------------------------
(***************************************************************************)
(* Proofs about Wallet, for any number of handlers, orders and             *)
(* withdrawals, any amounts and any opening balance.                       *)
(***************************************************************************)
EXTENDS Wallet, SequenceTheorems, TLAPS

-----------------------------------------------------------------------------
(* Type correctness *)

WebhookSteps == {"read", "verify", "tx", "apply"}

PCs == {"idle", "create", "read", "verify", "tx"} \cup Committing

\* What a handler at a step is about, and what it knows.
PlaceOK(h) ==
    /\ pc[h] = "create" => on[h] \in Orders
    /\ pc[h] \in WebhookSteps => on[h] \in Orders /\ told[h] \in Notices
    /\ pc[h] \in Committing \ {"apply"} => on[h] \in Withdrawals
    /\ pc[h] = "withdraw" => Amount[on[h]] <= seen[h]
    /\ locked[h] \/ told[h] # "none" => pc[h] \in WebhookSteps

PlacesOK == \A h \in Handlers : PlaceOK(h)

LocalsTyped ==
    /\ pc \in [Handlers -> PCs]
    /\ on \in [Handlers -> Subjects \cup {Nothing}]
    /\ told \in [Handlers -> Notices \cup {"none"}]
    /\ locked \in [Handlers -> BOOLEAN]
    /\ seen \in [Handlers -> Nat]
    /\ PlacesOK

RowsTyped ==
    /\ balance \in Nat
    /\ ledger \in Seq(Entries)
    /\ status \in [Subjects -> Statuses]
    /\ keys \subseteq Orders \X Notices
    /\ settled \subseteq Orders

HistoryTyped ==
    /\ outcomes \in [Subjects -> Nat]
    /\ appliedBy \in [Orders \X Notices -> Nat]
    /\ clashes \subseteq Subjects
    /\ rushed \subseteq Handlers
    /\ gaps \subseteq Nat
    /\ botched \subseteq Orders

TypeInv == LocalsTyped /\ RowsTyped /\ HistoryTyped

LEMMA InitTypeInv == ASSUME WalletAssumption, Init PROVE TypeInv
<1>1. << >> \in Seq(Entries)
  BY EmptySeq
<1> QED
  BY <1>1 DEF WalletAssumption, Init, TypeInv, LocalsTyped, RowsTyped, HistoryTyped, PlacesOK, PlaceOK, Committing,
           WebhookSteps, PCs, Statuses

\* A handler that ends knows nothing and is about nothing.
LEMMA EndTyped ==
    ASSUME TypeInv, NEW h \in Handlers, End(h)
    PROVE  LocalsTyped'
<1>1. \A g \in Handlers \ {h} : PlaceOK(g)'
  BY DEF TypeInv, LocalsTyped, RowsTyped, HistoryTyped, PlacesOK, PlaceOK, End, Goto
<1>2. PlaceOK(h)'
  BY DEF TypeInv, LocalsTyped, RowsTyped, HistoryTyped, PlaceOK, End, Goto, WebhookSteps, Committing
<1> QED
  BY <1>1, <1>2 DEF TypeInv, LocalsTyped, PlacesOK, End, Goto, PCs

\* A handler that takes a step keeps what it knows, or learns it.
LEMMA GotoTyped ==
    ASSUME TypeInv, NEW h \in Handlers, NEW where \in PCs, Goto(h, where),
           on' = [on EXCEPT ![h] = on'[h]], on'[h] \in Subjects,
           told' = [told EXCEPT ![h] = told'[h]], told'[h] \in Notices \cup {"none"},
           locked' = [locked EXCEPT ![h] = locked'[h]], locked'[h] \in BOOLEAN,
           seen' = [seen EXCEPT ![h] = seen'[h]], seen'[h] \in Nat,
           where = "create" => on'[h] \in Orders,
           where \in WebhookSteps => on'[h] \in Orders /\ told'[h] \in Notices,
           where \in Committing \ {"apply"} => on'[h] \in Withdrawals,
           where = "withdraw" => Amount[on'[h]] <= seen'[h],
           locked'[h] \/ told'[h] # "none" => where \in WebhookSteps
    PROVE  LocalsTyped'
<1>1. \A g \in Handlers \ {h} : PlaceOK(g)'
  BY DEF TypeInv, LocalsTyped, RowsTyped, HistoryTyped, PlacesOK, PlaceOK, Goto
<1>2. PlaceOK(h)'
  BY DEF TypeInv, LocalsTyped, RowsTyped, HistoryTyped, PlaceOK, Goto
<1> QED
  BY <1>1, <1>2 DEF TypeInv, LocalsTyped, PlacesOK, Goto, PCs

\* An entry of a movement is typed.
LEMMA MoveTyped ==
    ASSUME WalletAssumption, TypeInv, NEW h \in Handlers, on[h] \in Subjects,
           NEW kind \in {"TOPUP_CREDIT", "INVOICE_FEE_DEBIT", "WITHDRAW_DEBIT", "WITHDRAW_REFUND"},
           NEW after \in Nat, Move(h, kind, after)
    PROVE  balance' \in Nat /\ ledger' \in Seq(Entries) /\ rushed' \subseteq Handlers
<1>1. Entry(kind, on[h], after) \in Entries
  BY DEF Entry, Entries, WalletAssumption
<1>2. ledger' \in Seq(Entries)
  BY <1>1, AppendProperties DEF Move, TypeInv, LocalsTyped, RowsTyped, HistoryTyped
<1> QED
  BY <1>2 DEF Move, Others, TypeInv, LocalsTyped, RowsTyped, HistoryTyped

LEMMA GapTyped ==
    ASSUME TypeInv, NEW h, NEW clamped \in BOOLEAN, Gap(h, clamped)
    PROVE  gaps' \subseteq Nat
<1>1. Len(ledger) \in Nat
  BY LenProperties DEF TypeInv, LocalsTyped, RowsTyped, HistoryTyped
<1>2. Len(ledger) + 1 \in Nat
  BY <1>1
<1>3. gaps' = gaps \/ gaps' = gaps \cup {Len(ledger) + 1}
  BY DEF Gap
<1>4. gaps \subseteq Nat
  BY DEF TypeInv, LocalsTyped, RowsTyped, HistoryTyped
<1> QED
  BY <1>2, <1>3, <1>4

LEMMA ConcludeTyped ==
    ASSUME TypeInv, NEW h \in Handlers, on[h] \in Subjects,
           NEW now \in {"PENDING", "APPROVED", "PAID", "REJECTED"}, Conclude(h, now)
    PROVE  /\ status' \in [Subjects -> Statuses]
           /\ clashes' \subseteq Subjects
BY DEF Conclude, TypeInv, RowsTyped, HistoryTyped, Statuses

LEMMA OrderTypeInv ==
    ASSUME WalletAssumption, TypeInv, NEW h \in Handlers, NEW o \in Orders,
           \/ AskGateway(h, o)
           \/ \E n \in Notices : Deliver(h, o, n) \/ DeliverUnlocked(h, o, n)
    PROVE  TypeInv'
<1>1. o \in Subjects
  BY DEF Subjects
<1>2. CASE AskGateway(h, o)
  <2>1. Goto(h, "create") /\ on' = [on EXCEPT ![h] = o] /\ UNCHANGED <<told, locked, seen>>
    BY <1>2 DEF AskGateway, Begin
  <2>2. ~locked[h] /\ told[h] = "none"
    BY <1>2 DEF AskGateway, Begin, TypeInv, LocalsTyped, PlacesOK, PlaceOK, WebhookSteps
  <2>3. on'[h] = o /\ on' = [on EXCEPT ![h] = on'[h]]
    BY <2>1 DEF TypeInv, LocalsTyped
  <2>4. /\ told' = [told EXCEPT ![h] = told'[h]] /\ told'[h] = "none"
        /\ locked' = [locked EXCEPT ![h] = locked'[h]] /\ locked'[h] = FALSE
        /\ seen' = [seen EXCEPT ![h] = seen'[h]] /\ seen'[h] \in Nat
    BY <2>1, <2>2 DEF TypeInv, LocalsTyped
  <2>5. "create" \in PCs /\ "create" \notin WebhookSteps /\ "create" \notin Committing
    BY DEF PCs, WebhookSteps, Committing
  <2>6. LocalsTyped'
    BY <1>1, <2>1, <2>3, <2>4, <2>5, GotoTyped DEF Committing
  <2> QED
    BY <1>2, <2>6 DEF AskGateway, TypeInv, RowsTyped, HistoryTyped, rows, history
<1>3. ASSUME NEW n \in Notices, Deliver(h, o, n) \/ DeliverUnlocked(h, o, n)
      PROVE  TypeInv'
  <2>1. /\ Goto(h, "read")
        /\ on' = [on EXCEPT ![h] = o]
        /\ told' = [told EXCEPT ![h] = n]
        /\ locked' = [locked EXCEPT ![h] = TRUE] \/ locked' = locked
        /\ UNCHANGED <<rows, settled, seen, history>>
    BY <1>3 DEF Deliver, DeliverUnlocked, Begin
  <2>2. /\ on' = [on EXCEPT ![h] = on'[h]] /\ on'[h] = o
        /\ told' = [told EXCEPT ![h] = told'[h]] /\ told'[h] = n
        /\ locked' = [locked EXCEPT ![h] = locked'[h]] /\ locked'[h] \in BOOLEAN
        /\ seen' = [seen EXCEPT ![h] = seen'[h]] /\ seen'[h] \in Nat
    BY <2>1 DEF TypeInv, LocalsTyped
  <2>3. "read" \in PCs /\ "read" \in WebhookSteps /\ "read" \notin Committing
    BY DEF PCs, WebhookSteps, Committing
  <2>4. LocalsTyped'
    BY <1>1, <2>1, <2>2, <2>3, GotoTyped DEF Committing
  <2>5. keys' \subseteq Orders \X Notices
    BY <1>3 DEF Deliver, DeliverUnlocked, ReplayKey, TypeInv, RowsTyped
  <2> QED
    BY <2>1, <2>4, <2>5 DEF TypeInv, RowsTyped, HistoryTyped, rows, history
<1> QED
  BY <1>2, <1>3

LEMMA WithdrawalTypeInv ==
    ASSUME WalletAssumption, TypeInv, NEW h \in Handlers, NEW w \in Withdrawals,
           BeginWithdraw(h, w) \/ \E a \in {"APPROVE", "PAID", "REJECT"} : BeginDecision(h, w, a)
    PROVE  TypeInv'
<1>1. PICK where \in {"withdraw", "APPROVE", "PAID", "REJECT"} :
          /\ where = "withdraw" => Amount[w] <= balance
          /\ Begin(h, where, w)
    BY DEF BeginWithdraw, BeginDecision
<1>2. /\ seen' = [seen EXCEPT ![h] = balance]
      /\ UNCHANGED <<rows, keys, settled, told, locked, history>>
  BY DEF BeginWithdraw, BeginDecision
<1>3. Goto(h, where) /\ on' = [on EXCEPT ![h] = w] /\ ~locked[h] /\ told[h] = "none" /\ w \in Subjects
  BY <1>1 DEF Begin, TypeInv, LocalsTyped, PlacesOK, PlaceOK, WebhookSteps, Subjects
<1>4. /\ on' = [on EXCEPT ![h] = on'[h]] /\ on'[h] = w
      /\ told' = [told EXCEPT ![h] = told'[h]] /\ told'[h] = "none"
      /\ locked' = [locked EXCEPT ![h] = locked'[h]] /\ locked'[h] = FALSE
      /\ seen' = [seen EXCEPT ![h] = seen'[h]] /\ seen'[h] = balance /\ balance \in Nat
  BY <1>2, <1>3 DEF TypeInv, LocalsTyped, RowsTyped
<1>5. where \in PCs /\ where \notin WebhookSteps /\ where # "create"
  BY DEF PCs, WebhookSteps, Committing
<1>6. LocalsTyped'
  BY <1>1, <1>3, <1>4, <1>5, GotoTyped
<1> QED
  BY <1>2, <1>6 DEF TypeInv, RowsTyped, HistoryTyped, rows, history

LEMMA StepTypeInv ==
    ASSUME WalletAssumption, TypeInv, NEW h \in Handlers, Step(h) \/ Abort(h)
    PROVE  TypeInv'
<1>1. CASE CreateOrder(h)
  <2>1. LocalsTyped'
    BY <1>1, EndTyped DEF CreateOrder
  <2>2. status' \in [Subjects -> Statuses]
    BY <1>1 DEF CreateOrder, TypeInv, RowsTyped, Statuses
  <2> QED
    BY <1>1, <2>1, <2>2 DEF TypeInv, CreateOrder, RowsTyped, HistoryTyped, history
<1>2. CASE ReadOrder(h) \/ Verify(h) \/ BeginApply(h)
  <2>1. UNCHANGED <<rows, keys, settled, history>>
    BY <1>2 DEF ReadOrder, Verify, BeginApply
  <2>2. CASE End(h)
    BY <2>1, <2>2, EndTyped DEF TypeInv, RowsTyped, HistoryTyped, rows, history
  <2>3. ASSUME ~End(h) PROVE TypeInv'
    <3>1. PICK where \in {"verify", "tx", "apply"} : Goto(h, where) /\ UNCHANGED <<on, told, locked>>
      BY <1>2, <2>3 DEF ReadOrder, Verify, BeginApply
    <3>2. pc[h] \in WebhookSteps /\ (seen' = seen \/ seen' = [seen EXCEPT ![h] = balance])
      BY <1>2, <2>3 DEF ReadOrder, Verify, BeginApply, WebhookSteps
    <3>3. /\ on' = [on EXCEPT ![h] = on'[h]] /\ on'[h] \in Orders /\ on'[h] \in Subjects
          /\ told' = [told EXCEPT ![h] = told'[h]] /\ told'[h] \in Notices
          /\ locked' = [locked EXCEPT ![h] = locked'[h]] /\ locked'[h] \in BOOLEAN
      BY <3>1, <3>2 DEF TypeInv, LocalsTyped, PlacesOK, PlaceOK, Subjects
    <3>4. seen' = [seen EXCEPT ![h] = seen'[h]] /\ seen'[h] \in Nat
      BY <3>2 DEF TypeInv, LocalsTyped, RowsTyped
    <3>5. /\ where \in PCs /\ where \in WebhookSteps /\ where \notin Committing \ {"apply"}
          /\ where # "withdraw"
      BY DEF PCs, WebhookSteps, Committing
    <3>6. LocalsTyped'
      BY <3>1, <3>3, <3>4, <3>5, GotoTyped
    <3> QED
      BY <2>1, <3>6 DEF TypeInv, RowsTyped, HistoryTyped, rows, history
  <2> QED
    BY <2>2, <2>3
<1>3. CASE Apply(h)
  <2>1. on[h] \in Orders /\ told[h] \in Notices /\ on[h] \in Subjects
    BY <1>3 DEF Apply, TypeInv, LocalsTyped, PlacesOK, PlaceOK, WebhookSteps, Subjects
  <2>2. seen[h] \in Nat /\ Amount[on[h]] \in Nat
    BY <2>1 DEF TypeInv, LocalsTyped, RowsTyped, HistoryTyped, WalletAssumption
  <2>3. balance' \in Nat /\ ledger' \in Seq(Entries) /\ rushed' \subseteq Handlers /\ gaps' \subseteq Nat
    <3>1. CASE Move(h, "TOPUP_CREDIT", seen[h] + Amount[on[h]]) /\ Gap(h, FALSE)
      <4>1. seen[h] + Amount[on[h]] \in Nat /\ FALSE \in BOOLEAN
        BY <2>2
      <4>2. gaps' \subseteq Nat
        BY <3>1, <4>1, GapTyped
      <4> QED
        BY <2>1, <3>1, <4>1, <4>2, MoveTyped
    <3>2. CASE /\ Move(h, "INVOICE_FEE_DEBIT",
                      IF Amount[on[h]] > seen[h] THEN 0 ELSE seen[h] - Amount[on[h]])
               /\ Gap(h, Amount[on[h]] > seen[h])
      <4>1. (IF Amount[on[h]] > seen[h] THEN 0 ELSE seen[h] - Amount[on[h]]) \in Nat
        BY <2>2
      <4>2. (Amount[on[h]] > seen[h]) \in BOOLEAN
        OBVIOUS
      <4>3. gaps' \subseteq Nat
        BY <3>2, <4>2, GapTyped
      <4> QED
        BY <2>1, <3>2, <4>1, <4>3, MoveTyped
    <3>3. CASE NoMove(h)
      BY <3>3 DEF NoMove, TypeInv, LocalsTyped, RowsTyped, HistoryTyped
    <3> QED
      BY <1>3, <3>1, <3>2, <3>3 DEF Apply
  <2>4. LocalsTyped'
    BY <1>3, EndTyped DEF Apply
  <2>5. /\ status' \in [Subjects -> Statuses]
        /\ clashes' \subseteq Subjects
    BY <1>3, <2>1, ConcludeTyped DEF Apply
  <2>6. outcomes' \in [Subjects -> Nat] /\ appliedBy' \in [Orders \X Notices -> Nat]
    BY <1>3, <2>1 DEF Apply, Count, TypeInv, LocalsTyped, RowsTyped, HistoryTyped
  <2>7. keys' = keys /\ settled' = settled /\ botched' = botched
    BY <1>3 DEF Apply
  <2> QED
    BY <2>3, <2>4, <2>5, <2>6, <2>7 DEF TypeInv, RowsTyped, HistoryTyped
<1>4. CASE Withdraw(h) \/ Reject(h)
  <2>1. on[h] \in Subjects /\ seen[h] \in Nat /\ Amount[on[h]] \in Nat
    BY <1>4 DEF Withdraw, Reject, TypeInv, LocalsTyped, RowsTyped, HistoryTyped, PlacesOK, PlaceOK, Committing, Subjects, WalletAssumption
  <2>2. PICK kind \in {"WITHDRAW_DEBIT", "WITHDRAW_REFUND"}, after \in Nat : Move(h, kind, after)
    <3>1. CASE Withdraw(h)
      <4>1. Amount[on[h]] <= seen[h]
        BY <3>1 DEF Withdraw, TypeInv, LocalsTyped, PlacesOK, PlaceOK
      <4> QED
        BY <2>1, <3>1, <4>1 DEF Withdraw
    <3>2. CASE Reject(h)
      BY <2>1, <3>2 DEF Reject
    <3> QED
      BY <1>4, <3>1, <3>2
  <2>3. /\ Gap(h, FALSE) /\ End(h)
        /\ Conclude(h, "PENDING") \/ Conclude(h, "REJECTED")
        /\ outcomes' = outcomes \/ Count(h)
        /\ UNCHANGED <<keys, settled, appliedBy, botched>>
    BY <1>4 DEF Withdraw, Reject
  <2>4. outcomes' \in [Subjects -> Nat]
    <3>1. outcomes \in [Subjects -> Nat]
      BY DEF TypeInv, HistoryTyped
    <3> QED
      BY <2>1, <2>3, <3>1 DEF Count
  <2>5. balance' \in Nat /\ ledger' \in Seq(Entries) /\ rushed' \subseteq Handlers
    BY <2>1, <2>2, MoveTyped
  <2>6. gaps' \subseteq Nat
    <3>1. FALSE \in BOOLEAN
      OBVIOUS
    <3> QED
      BY <2>3, <3>1, GapTyped
  <2>7. /\ status' \in [Subjects -> Statuses]
        /\ clashes' \subseteq Subjects
    BY <2>1, <2>3, ConcludeTyped
  <2> QED
    BY <2>3, <2>4, <2>5, <2>6, <2>7, EndTyped DEF TypeInv, RowsTyped, HistoryTyped
<1>5. CASE Approve(h) \/ PayOut(h)
  <2>1. on[h] \in Subjects
    BY <1>5 DEF Approve, PayOut, TypeInv, LocalsTyped, RowsTyped, HistoryTyped, PlacesOK, PlaceOK, Committing, Subjects
  <2>2. /\ NoMove(h) /\ End(h)
        /\ Conclude(h, "APPROVED") \/ Conclude(h, "PAID")
        /\ outcomes' = outcomes \/ Count(h)
        /\ UNCHANGED <<keys, settled, appliedBy, botched>>
    BY <1>5 DEF Approve, PayOut
  <2>3. outcomes' \in [Subjects -> Nat]
    BY <2>1, <2>2 DEF Count, TypeInv, LocalsTyped, RowsTyped, HistoryTyped
  <2>4. /\ status' \in [Subjects -> Statuses]
        /\ clashes' \subseteq Subjects
    BY <2>1, <2>2, ConcludeTyped
  <2>5. rushed' \subseteq Handlers /\ UNCHANGED <<balance, ledger, gaps>>
    BY <2>2 DEF NoMove, TypeInv, LocalsTyped, RowsTyped, HistoryTyped
  <2> QED
    BY <2>2, <2>3, <2>4, <2>5, EndTyped DEF TypeInv, RowsTyped, HistoryTyped
<1>6. CASE Abort(h)
  <2>1. botched' \subseteq Orders
    BY <1>6 DEF Abort, TypeInv, LocalsTyped, RowsTyped, HistoryTyped, PlacesOK, PlaceOK, WebhookSteps
  <2>2. rushed' \subseteq Handlers /\ End(h)
    BY <1>6 DEF Abort, TypeInv, LocalsTyped, RowsTyped, HistoryTyped
  <2> QED
    BY <1>6, <2>1, <2>2, EndTyped DEF TypeInv, Abort, RowsTyped, HistoryTyped, rows
<1> QED
  BY <1>1, <1>2, <1>3, <1>4, <1>5, <1>6 DEF Step

LEMMA NextTypeInv == ASSUME WalletAssumption, TypeInv, [Next]_vars PROVE TypeInv'
<1>1. CASE \E h \in Handlers : Step(h) \/ Abort(h)
  BY <1>1, StepTypeInv
<1>2. CASE \E h \in Handlers, o \in Orders : AskGateway(h, o)
  BY <1>2, OrderTypeInv
<1>3. CASE \E h \in Handlers, o \in Orders, n \in Notices :
               Deliver(h, o, n) \/ DeliverUnlocked(h, o, n)
  BY <1>3, OrderTypeInv
<1>4. CASE \E o \in Orders : Settle(o)
  <2>1. settled' \subseteq Orders /\ UNCHANGED <<rows, keys, locals, history>>
    BY <1>4 DEF Settle, TypeInv, LocalsTyped, RowsTyped, HistoryTyped
  <2> QED
    BY <2>1 DEF rows, locals, history, TypeInv, LocalsTyped, RowsTyped, HistoryTyped, PlacesOK, PlaceOK
<1>5. CASE \E h \in Handlers, w \in Withdrawals : BeginWithdraw(h, w)
  BY <1>5, WithdrawalTypeInv
<1>6. CASE \E h \in Handlers, w \in Withdrawals, a \in {"APPROVE", "PAID", "REJECT"} :
               BeginDecision(h, w, a)
  BY <1>6, WithdrawalTypeInv
<1>7. CASE UNCHANGED vars
  BY <1>7 DEF vars, rows, locals, history, TypeInv, LocalsTyped, RowsTyped, HistoryTyped, PlacesOK, PlaceOK
<1> QED
  BY Zenon, <1>1, <1>2, <1>3, <1>4, <1>5, <1>6, <1>7 DEF Next

\* Type correctness: rows, keys and locals hold values of their type, and the
\* balance, which every transaction writes as computed from what it read,
\* never becomes negative.
THEOREM TypeCorrect == Spec => []TypeOK
<1> USE WalletAssumption
<1>1. Init => TypeInv
  BY InitTypeInv
<1>2. TypeInv /\ [Next]_vars => TypeInv'
  BY NextTypeInv
<1>3. TypeInv => TypeOK
  BY DEF TypeInv, TypeOK, LocalsTyped, RowsTyped, HistoryTyped, PCs
<1> QED
  BY <1>1, <1>2, <1>3, PTL DEF Spec

-----------------------------------------------------------------------------
(* One payment per replay key *)

\* A webhook that took its key is the only one, and nothing was applied by it.
KeyInv ==
    /\ \A h \in Handlers : locked[h] =>
           /\ <<on[h], told[h]>> \in keys
           /\ appliedBy[<<on[h], told[h]>>] = 0
    /\ \A g, h \in Handlers : locked[g] /\ locked[h] /\ <<on[g], told[g]>> = <<on[h], told[h]>> => g = h
    /\ \A k \in Orders \X Notices : k \notin keys => appliedBy[k] = 0
    /\ KeyAppliesOnce

LEMMA InitKeyInv == ASSUME WalletAssumption, Init PROVE KeyInv
BY DEF Init, KeyInv, KeyAppliesOnce

\* A handler without a key changes nothing of it.
LEMMA UnlockedKeyInv ==
    ASSUME TypeInv, KeyInv, NEW h \in Handlers, keys \subseteq keys', appliedBy' = appliedBy,
           ~locked'[h],
           \A g \in Handlers \ {h} : UNCHANGED <<on[g], told[g], locked[g]>>
    PROVE  KeyInv'
<1>1. \A k \in Orders \X Notices : k \notin keys' => appliedBy'[k] = 0
  BY DEF KeyInv
<1>2. \A g \in Handlers : locked'[g] =>
          g # h /\ locked[g] /\ on'[g] = on[g] /\ told'[g] = told[g]
  OBVIOUS
<1>3. \A g \in Handlers : locked'[g] =>
          /\ <<on'[g], told'[g]>> \in keys'
          /\ appliedBy'[<<on'[g], told'[g]>>] = 0
  BY <1>2 DEF KeyInv
<1>4. \A f, g \in Handlers :
          locked'[f] /\ locked'[g] /\ <<on'[f], told'[f]>> = <<on'[g], told'[g]>> => f = g
  BY <1>2 DEF KeyInv
<1> QED
  BY <1>1, <1>3, <1>4 DEF KeyInv, KeyAppliesOnce

\* A handler that ends has no key.
LEMMA EndUnlocks ==
    ASSUME TypeInv, NEW h \in Handlers, End(h)
    PROVE  /\ ~locked'[h]
           /\ \A g \in Handlers \ {h} : UNCHANGED <<pc[g], on[g], told[g], locked[g], seen[g]>>
BY DEF End, Goto, TypeInv, LocalsTyped

LEMMA NextKeyInv ==
    ASSUME WalletAssumption, TypeInv, KeyInv, [Next]_vars PROVE KeyInv'
<1>1. ASSUME NEW h \in Handlers, NEW o \in Orders, NEW n \in Notices, Deliver(h, o, n)
      PROVE  KeyInv'
  <2>1. /\ <<o, n>> \notin keys /\ keys' = keys \cup {<<o, n>>}
        /\ locked' = [locked EXCEPT ![h] = TRUE]
        /\ on' = [on EXCEPT ![h] = o] /\ told' = [told EXCEPT ![h] = n]
        /\ appliedBy' = appliedBy
    BY <1>1 DEF Deliver, ReplayKey, Begin, history
  <2>2. on'[h] = o /\ told'[h] = n
    BY <2>1 DEF TypeInv, LocalsTyped
  <2>3. \A g \in Handlers \ {h} : UNCHANGED <<on[g], told[g], locked[g]>>
    BY <2>1 DEF TypeInv, LocalsTyped
  <2>4. appliedBy[<<o, n>>] = 0
    BY <2>1 DEF KeyInv
  <2>5. \A g \in Handlers : locked'[g] =>
            /\ <<on'[g], told'[g]>> \in keys'
            /\ appliedBy'[<<on'[g], told'[g]>>] = 0
    BY <2>1, <2>2, <2>3, <2>4 DEF KeyInv
  <2>6. \A g \in Handlers \ {h} : locked'[g] => <<on'[g], told'[g]>> # <<o, n>>
    BY <2>1, <2>3 DEF KeyInv
  <2>7. \A f, g \in Handlers :
            locked'[f] /\ locked'[g] /\ <<on'[f], told'[f]>> = <<on'[g], told'[g]>> => f = g
    BY <2>2, <2>3, <2>6 DEF KeyInv
  <2>8. \A k \in Orders \X Notices : k \notin keys' => appliedBy'[k] = 0
    BY <2>1 DEF KeyInv
  <2> QED
    BY <2>1, <2>5, <2>7, <2>8 DEF KeyInv, KeyAppliesOnce
<1>2. ASSUME NEW h \in Handlers, NEW o \in Orders, NEW n \in Notices, DeliverUnlocked(h, o, n)
      PROVE  KeyInv'
  <2>1. /\ keys \subseteq keys' /\ appliedBy' = appliedBy /\ locked' = locked
        /\ on' = [on EXCEPT ![h] = o] /\ told' = [told EXCEPT ![h] = n]
        /\ pc[h] = "idle"
    BY <1>2 DEF DeliverUnlocked, Begin, history
  <2>2. ~locked'[h]
    BY <2>1 DEF TypeInv, LocalsTyped, PlacesOK, PlaceOK, WebhookSteps
  <2>3. \A g \in Handlers \ {h} : UNCHANGED <<on[g], told[g], locked[g]>>
    BY <2>1 DEF TypeInv, LocalsTyped
  <2> QED
    BY <2>1, <2>2, <2>3, UnlockedKeyInv
<1>3. ASSUME NEW h \in Handlers, NEW x \in Subjects,
             Begin(h, pc'[h], x), UNCHANGED <<keys, told, locked, appliedBy>>
      PROVE  KeyInv'
  <2>1. ~locked'[h]
    BY <1>3 DEF Begin, TypeInv, LocalsTyped, PlacesOK, PlaceOK, WebhookSteps
  <2>2. \A g \in Handlers \ {h} : UNCHANGED <<on[g], told[g], locked[g]>>
    BY <1>3 DEF Begin, TypeInv, LocalsTyped
  <2> QED
    BY <1>3, <2>1, <2>2, UnlockedKeyInv
<1>4. ASSUME NEW h \in Handlers, End(h), UNCHANGED <<keys, appliedBy>>
      PROVE  KeyInv'
  BY <1>4, EndUnlocks, UnlockedKeyInv
<1>5. ASSUME NEW h \in Handlers, Apply(h)
      PROVE  KeyInv'
  <2>1. End(h) /\ keys' = keys
    BY <1>5 DEF Apply
  <2>2. CASE ~locked[h]
    BY <1>4, <1>5, <2>1, <2>2 DEF Apply
  <2>3. CASE locked[h]
    <3>1. PICK k \in Orders \X Notices :
             k = <<on[h], told[h]>> /\ appliedBy' = [appliedBy EXCEPT ![k] = @ + 1]
      BY <1>5, <2>3 DEF Apply, TypeInv, LocalsTyped, PlacesOK, PlaceOK, WebhookSteps
    <3>2. k \in keys /\ appliedBy[k] = 0
      BY <2>3, <3>1 DEF KeyInv
    <3>3. appliedBy'[k] = 1 /\ \A j \in Orders \X Notices : j # k => appliedBy'[j] = appliedBy[j]
      BY <3>1, <3>2 DEF TypeInv, HistoryTyped
    <3>4. \A g \in Handlers : locked'[g] =>
              /\ g # h /\ locked[g] /\ on'[g] = on[g] /\ told'[g] = told[g]
              /\ <<on[g], told[g]>> # k
      BY <2>1, <2>3, <3>1, EndUnlocks DEF KeyInv
    <3>5. \A g \in Handlers : locked[g] => <<on[g], told[g]>> \in Orders \X Notices
      BY DEF TypeInv, LocalsTyped, PlacesOK, PlaceOK
    <3>6. \A g \in Handlers : locked'[g] =>
              /\ <<on'[g], told'[g]>> \in keys'
              /\ appliedBy'[<<on'[g], told'[g]>>] = 0
      BY <2>1, <3>3, <3>4, <3>5 DEF KeyInv
    <3>7. \A f, g \in Handlers :
              locked'[f] /\ locked'[g] /\ <<on'[f], told'[f]>> = <<on'[g], told'[g]>> => f = g
      BY <3>4 DEF KeyInv
    <3>8. \A j \in Orders \X Notices : j \notin keys' => appliedBy'[j] = 0
      BY <2>1, <3>2, <3>3 DEF KeyInv
    <3>9. \A j \in Orders \X Notices : appliedBy'[j] <= 1
      BY <3>3 DEF KeyInv, KeyAppliesOnce
    <3> QED
      BY <3>6, <3>7, <3>8, <3>9 DEF KeyInv, KeyAppliesOnce
  <2> QED
    BY <2>2, <2>3
<1>6. ASSUME UNCHANGED <<keys, on, told, locked, appliedBy>>
      PROVE  KeyInv'
  BY <1>6 DEF KeyInv, KeyAppliesOnce
<1>7. ASSUME NEW h \in Handlers, Step(h) \/ Abort(h)
      PROVE  KeyInv'
  <2>1. CASE Apply(h)
    BY <1>5, <2>1
  <2>2. CASE ReadOrder(h) \/ Verify(h) \/ BeginApply(h)
    <3>1. End(h) \/ UNCHANGED <<on, told, locked>>
      BY <2>2 DEF ReadOrder, Verify, BeginApply
    <3>2. UNCHANGED <<keys, appliedBy>>
      BY <2>2 DEF ReadOrder, Verify, BeginApply, history
    <3> QED
      BY <1>4, <1>6, <3>1, <3>2
  <2>3. CASE CreateOrder(h) \/ Withdraw(h) \/ Approve(h) \/ PayOut(h) \/ Reject(h) \/ Abort(h)
    <3>1. End(h) /\ UNCHANGED <<keys, appliedBy>>
      BY <2>3 DEF CreateOrder, Withdraw, Approve, PayOut, Reject, Abort, history
    <3> QED
      BY <1>4, <3>1
  <2> QED
    BY <1>7, <2>1, <2>2, <2>3 DEF Step
<1>8. ASSUME NEW h \in Handlers, NEW x \in Subjects,
             \/ AskGateway(h, x) \/ BeginWithdraw(h, x)
             \/ \E a \in {"APPROVE", "PAID", "REJECT"} : BeginDecision(h, x, a)
      PROVE  KeyInv'
  <2>1. PICK where \in {"create", "withdraw", "APPROVE", "PAID", "REJECT"} : Begin(h, where, x)
    BY <1>8 DEF AskGateway, BeginWithdraw, BeginDecision
  <2>2. pc'[h] = where
    BY <2>1 DEF Begin, Goto, TypeInv, LocalsTyped
  <2>3. UNCHANGED <<keys, told, locked, appliedBy>>
    BY <1>8 DEF AskGateway, BeginWithdraw, BeginDecision, history
  <2> QED
    BY <1>3, <2>1, <2>2, <2>3
<1>9. CASE (\E o \in Orders : Settle(o)) \/ UNCHANGED vars
  BY <1>6, <1>9 DEF Settle, vars, locals, history
<1> QED
  BY <1>1, <1>2, <1>7, <1>8, <1>9 DEF Next, Subjects

\* The replay key does what it is for: however webhooks repeat and overlap, and
\* whatever fails, a key lets at most one of them apply the payment.
THEOREM OncePerKey == Spec => []KeyAppliesOnce
<1> USE WalletAssumption
<1>1. Init => TypeInv /\ KeyInv
  BY InitTypeInv, InitKeyInv
<1>2. TypeInv /\ KeyInv /\ [Next]_vars => (TypeInv /\ KeyInv)'
  BY NextTypeInv, NextKeyInv
<1>3. KeyInv => KeyAppliesOnce
  BY DEF KeyInv
<1> QED
  BY <1>1, <1>2, <1>3, PTL DEF Spec

-----------------------------------------------------------------------------
(* The ledger *)

\* A snapshot that no other transaction has overtaken shows the balance.
Snapshots == \A h \in Handlers : pc[h] \in Committing /\ h \notin rushed => seen[h] = balance

LedgerInv == LedgerExplainsBalance /\ Snapshots

LEMMA InitLedgerInv == ASSUME WalletAssumption, Init PROVE LedgerInv
<1>1. Len(ledger) = 0
  BY EmptySeq DEF Init
<1> QED
  BY <1>1 DEF Init, LedgerInv, LedgerExplainsBalance, Snapshots, Before, Committing

\* The fact about each entry that LedgerExplainsBalance states.
Follows(i) ==
    IF ledger[i].kind \in Credits
    THEN ledger[i].after = Before(i) + ledger[i].amount
    ELSE Before(i) = ledger[i].after + ledger[i].amount

LEMMA LedgerFacts ==
    LedgerExplainsBalance <=>
        /\ balance = Before(Len(ledger) + 1)
        /\ \A i \in 1 .. Len(ledger) : i \notin gaps => Follows(i)
BY DEF LedgerExplainsBalance, Follows

\* A movement whose entry follows from the balance, or leaves a gap, keeps the
\* ledger in order.
LEMMA MoveExplained ==
    ASSUME WalletAssumption, TypeInv, LedgerInv, NEW h \in Handlers, on[h] \in Subjects,
           NEW kind \in {"TOPUP_CREDIT", "INVOICE_FEE_DEBIT", "WITHDRAW_DEBIT", "WITHDRAW_REFUND"},
           NEW after \in Nat, Move(h, kind, after),
           NEW clamped \in BOOLEAN, Gap(h, clamped),
           h \notin rushed /\ ~clamped =>
               IF kind \in Credits THEN after = balance + Amount[on[h]]
                                   ELSE balance = after + Amount[on[h]]
    PROVE  LedgerExplainsBalance'
<1> DEFINE e == Entry(kind, on[h], after)
<1>0. PICK n \in Nat : n = Len(ledger)
  BY LenProperties DEF TypeInv, RowsTyped
<1>1. n \in Nat /\ n = Len(ledger) /\ ledger \in Seq(Entries)
  BY <1>0 DEF TypeInv, RowsTyped
<1>2. e \in Entries /\ e.after = after /\ e.kind = kind /\ e.amount = Amount[on[h]]
  BY DEF Entry, Entries, WalletAssumption
<1>3. /\ ledger' = Append(ledger, e) /\ balance' = after
      /\ Len(ledger') = n + 1
      /\ \A i \in 1 .. n : ledger'[i] = ledger[i]
      /\ ledger'[n + 1] = e
  BY <1>1, <1>2, AppendProperties DEF Move
<1>4. \A i \in 1 .. (n + 1) : Before(i)' = Before(i)
  <2>1. \A i \in 1 .. (n + 1) : i # 1 => i - 1 \in 1 .. n
    BY <1>1
  <2> QED
    BY <1>3, <2>1 DEF Before
<1>5. balance' = Before(Len(ledger) + 1)'
  <2>1. n + 2 # 1 /\ (n + 2) - 1 = n + 1 /\ Len(ledger') + 1 = n + 2
    BY <1>1, <1>3
  <2>2. Before(Len(ledger) + 1)' = ledger'[n + 1].after
    BY <2>1 DEF Before
  <2> QED
    BY <1>2, <1>3, <2>2
<1>6. balance = Before(n + 1)
  BY <1>1 DEF LedgerInv, LedgerExplainsBalance
<1>7. ASSUME NEW i \in 1 .. n, i \notin gaps' PROVE Follows(i)'
  <2>1. i \notin gaps
    BY <1>7 DEF Gap
  <2>2. Follows(i)
    BY <1>1, <2>1, LedgerFacts DEF LedgerInv
  <2>3. Before(i)' = Before(i) /\ ledger'[i] = ledger[i]
    BY <1>1, <1>3, <1>4
  <2> QED
    BY <2>2, <2>3 DEF Follows
<1>8. ASSUME n + 1 \notin gaps' PROVE Follows(n + 1)'
  <2>1. h \notin rushed /\ ~clamped
    BY <1>1, <1>8 DEF Gap
  <2>2. Before(n + 1)' = balance
    BY <1>1, <1>4, <1>6
  <2>3. IF kind \in Credits THEN after = balance + Amount[on[h]]
                            ELSE balance = after + Amount[on[h]]
    BY <2>1
  <2> QED
    BY <1>2, <1>3, <2>2, <2>3 DEF Follows
<1>9. \A i \in 1 .. (n + 1) : i \in 1 .. n \/ i = n + 1
  BY <1>1
<1> QED
  BY <1>1, <1>3, <1>5, <1>7, <1>8, <1>9 DEF LedgerExplainsBalance, Follows

\* Whoever else was about to commit has been overtaken.
LEMMA MoveOvertakes ==
    ASSUME TypeInv, NEW h \in Handlers, End(h), rushed' = (rushed \ {h}) \cup Others(h)
    PROVE  Snapshots'
<1>1. pc'[h] = "idle" /\ \A g \in Handlers \ {h} : pc'[g] = pc[g]
  BY DEF End, Goto, TypeInv, LocalsTyped
<1> QED
  BY <1>1 DEF Snapshots, Others, Committing

\* A handler that ends, or has just read the balance, leaves the rest alone.
LEMMA QuietLedgerInv ==
    ASSUME TypeInv, LedgerInv, NEW h \in Handlers, UNCHANGED <<balance, ledger, gaps>>,
           pc'[h] \notin Committing \/ seen'[h] = balance,
           \A g \in Handlers \ {h} : UNCHANGED <<pc[g], seen[g]>> /\ (g \in rushed => g \in rushed')
    PROVE  LedgerInv'
<1>1. LedgerExplainsBalance'
  BY DEF LedgerInv, LedgerExplainsBalance, Before
<1>2. Snapshots'
  BY DEF LedgerInv, Snapshots
<1> QED
  BY <1>1, <1>2 DEF LedgerInv

LEMMA NextLedgerInv ==
    ASSUME WalletAssumption, TypeInv, LedgerInv, [Next]_vars PROVE LedgerInv'
<1>1. ASSUME NEW h \in Handlers, Apply(h) PROVE LedgerInv'
  <2>1. on[h] \in Orders /\ on[h] \in Subjects /\ pc[h] \in Committing /\ End(h)
    BY <1>1 DEF Apply, TypeInv, LocalsTyped, PlacesOK, PlaceOK, WebhookSteps, Committing, Subjects
  <2>2. seen[h] \in Nat /\ Amount[on[h]] \in Nat /\ balance \in Nat
    BY <2>1 DEF TypeInv, LocalsTyped, RowsTyped, WalletAssumption
  <2>3. h \notin rushed => seen[h] = balance
    BY <2>1 DEF LedgerInv, Snapshots
  <2>4. CASE Move(h, "TOPUP_CREDIT", seen[h] + Amount[on[h]]) /\ Gap(h, FALSE)
    <3>1. seen[h] + Amount[on[h]] \in Nat /\ FALSE \in BOOLEAN
      BY <2>2
    <3>2. "TOPUP_CREDIT" \in Credits
      BY DEF Credits
    <3>3. LedgerExplainsBalance'
      BY <2>1, <2>3, <2>4, <3>1, <3>2, MoveExplained
    <3> QED
      BY <2>1, <2>4, <3>3, MoveOvertakes DEF Move, LedgerInv
  <2>5. CASE /\ Move(h, "INVOICE_FEE_DEBIT",
                    IF Amount[on[h]] > seen[h] THEN 0 ELSE seen[h] - Amount[on[h]])
             /\ Gap(h, Amount[on[h]] > seen[h])
    <3>1. PICK after \in Nat, clamped \in BOOLEAN :
             /\ Move(h, "INVOICE_FEE_DEBIT", after) /\ Gap(h, clamped)
             /\ ~clamped => seen[h] = after + Amount[on[h]]
      <4>1. CASE Amount[on[h]] > seen[h]
        BY <2>5, <4>1
      <4>2. CASE ~(Amount[on[h]] > seen[h])
        <5>1. seen[h] - Amount[on[h]] \in Nat /\ seen[h] = (seen[h] - Amount[on[h]]) + Amount[on[h]]
          BY <2>2, <4>2
        <5>2. Move(h, "INVOICE_FEE_DEBIT", seen[h] - Amount[on[h]]) /\ Gap(h, FALSE)
          BY <2>5, <4>2 DEF Move, Gap
        <5> QED
          BY <5>1, <5>2
      <4> QED
        BY <4>1, <4>2
    <3>2. "INVOICE_FEE_DEBIT" \notin Credits
      BY DEF Credits
    <3>3. LedgerExplainsBalance'
      BY <2>1, <2>3, <3>1, <3>2, MoveExplained
    <3> QED
      BY <2>1, <3>1, <3>3, MoveOvertakes DEF Move, LedgerInv
  <2>6. CASE NoMove(h)
    <3>1. pc'[h] \notin Committing
      BY <2>1 DEF End, Goto, Committing, TypeInv, LocalsTyped
    <3> QED
      BY <2>1, <2>6, <3>1, EndUnlocks, QuietLedgerInv DEF NoMove
  <2> QED
    BY <1>1, <2>4, <2>5, <2>6 DEF Apply
<1>2. ASSUME NEW h \in Handlers, Withdraw(h) \/ Reject(h) PROVE LedgerInv'
  <2>1. on[h] \in Subjects /\ pc[h] \in Committing /\ End(h) /\ Gap(h, FALSE) /\ FALSE \in BOOLEAN
    BY <1>2 DEF Withdraw, Reject, TypeInv, LocalsTyped, PlacesOK, PlaceOK, Committing, Subjects
  <2>2. seen[h] \in Nat /\ Amount[on[h]] \in Nat
    BY <2>1 DEF TypeInv, LocalsTyped, WalletAssumption
  <2>3. h \notin rushed => seen[h] = balance
    BY <2>1 DEF LedgerInv, Snapshots
  <2>4. PICK kind \in {"WITHDRAW_DEBIT", "WITHDRAW_REFUND"}, after \in Nat :
           /\ Move(h, kind, after)
           /\ IF kind \in Credits THEN after = seen[h] + Amount[on[h]]
                                  ELSE seen[h] = after + Amount[on[h]]
    <3>1. CASE Withdraw(h)
      <4>1. Amount[on[h]] <= seen[h]
        BY <3>1 DEF Withdraw, TypeInv, LocalsTyped, PlacesOK, PlaceOK
      <4>2. seen[h] - Amount[on[h]] \in Nat /\ seen[h] = (seen[h] - Amount[on[h]]) + Amount[on[h]]
        BY <2>2, <4>1
      <4> QED
        BY <3>1, <4>2 DEF Withdraw, Credits
    <3>2. CASE Reject(h)
      <4>1. seen[h] + Amount[on[h]] \in Nat
        BY <2>2
      <4> QED
        BY <3>2, <4>1 DEF Reject, Credits
    <3> QED
      BY <1>2, <3>1, <3>2
  <2>5. LedgerExplainsBalance'
    BY <2>1, <2>3, <2>4, MoveExplained
  <2> QED
    BY <2>1, <2>4, <2>5, MoveOvertakes DEF Move, LedgerInv
<1>3. ASSUME NEW h \in Handlers, End(h), UNCHANGED <<balance, ledger, gaps>>,
             rushed' = rushed \ {h} \/ rushed' = rushed
      PROVE  LedgerInv'
  <2>1. pc'[h] \notin Committing
    BY <1>3 DEF End, Goto, Committing, TypeInv, LocalsTyped
  <2> QED
    BY <1>3, <2>1, EndUnlocks, QuietLedgerInv
<1>4. ASSUME NEW h \in Handlers, NEW where, Goto(h, where), UNCHANGED <<balance, ledger, gaps, rushed>>,
             \/ where \notin Committing /\ seen' = seen
             \/ seen' = [seen EXCEPT ![h] = balance]
      PROVE  LedgerInv'
  <2>1. pc'[h] = where /\ \A g \in Handlers \ {h} : UNCHANGED <<pc[g], seen[g]>>
    BY <1>4 DEF Goto, TypeInv, LocalsTyped
  <2>2. pc'[h] \notin Committing \/ seen'[h] = balance
    BY <1>4, <2>1 DEF TypeInv, LocalsTyped
  <2> QED
    BY <1>4, <2>1, <2>2, QuietLedgerInv
<1>5. ASSUME NEW h \in Handlers, Step(h) \/ Abort(h) PROVE LedgerInv'
  <2>1. CASE ReadOrder(h) \/ Verify(h) \/ BeginApply(h)
    <3>1. UNCHANGED <<balance, ledger, gaps, rushed>>
      BY <2>1 DEF ReadOrder, Verify, BeginApply, rows, history
    <3>2. \/ End(h)
          \/ \E where \in {"verify", "tx"} : Goto(h, where) /\ seen' = seen
          \/ Goto(h, "apply") /\ seen' = [seen EXCEPT ![h] = balance]
      BY <2>1 DEF ReadOrder, Verify, BeginApply
    <3>3. "verify" \notin Committing /\ "tx" \notin Committing
      BY DEF Committing
    <3> QED
      BY <1>3, <1>4, <3>1, <3>2, <3>3
  <2>2. CASE CreateOrder(h) \/ Approve(h) \/ PayOut(h) \/ Abort(h)
    <3>1. /\ End(h) /\ UNCHANGED <<balance, ledger, gaps>>
          /\ rushed' = rushed \ {h} \/ rushed' = rushed
      BY <2>2 DEF CreateOrder, Approve, PayOut, Abort, NoMove, rows, history
    <3> QED
      BY <1>3, <3>1
  <2> QED
    BY <1>1, <1>2, <1>5, <2>1, <2>2 DEF Step
<1>6. ASSUME NEW h \in Handlers, NEW o \in Orders,
             \/ AskGateway(h, o)
             \/ \E n \in Notices : Deliver(h, o, n) \/ DeliverUnlocked(h, o, n)
      PROVE  LedgerInv'
  <2>1. PICK where \in {"create", "read"} : Goto(h, where)
    BY <1>6 DEF AskGateway, Deliver, DeliverUnlocked, Begin
  <2>2. seen' = seen /\ UNCHANGED <<balance, ledger, gaps, rushed>> /\ where \notin Committing
    BY <1>6 DEF AskGateway, Deliver, DeliverUnlocked, rows, history, Committing
  <2> QED
    BY <1>4, <2>1, <2>2
<1>7. ASSUME NEW h \in Handlers, NEW w \in Withdrawals,
             BeginWithdraw(h, w) \/ \E a \in {"APPROVE", "PAID", "REJECT"} : BeginDecision(h, w, a)
      PROVE  LedgerInv'
  <2>1. PICK where \in {"withdraw", "APPROVE", "PAID", "REJECT"} : Goto(h, where)
    BY <1>7 DEF BeginWithdraw, BeginDecision, Begin
  <2>2. seen' = [seen EXCEPT ![h] = balance] /\ UNCHANGED <<balance, ledger, gaps, rushed>>
    BY <1>7 DEF BeginWithdraw, BeginDecision, rows, history
  <2> QED
    BY <1>4, <2>1, <2>2
<1>8. CASE (\E o \in Orders : Settle(o)) \/ UNCHANGED vars
  BY <1>8 DEF Settle, vars, rows, locals, history, LedgerInv, LedgerExplainsBalance, Before, Snapshots
<1> QED
  BY <1>5, <1>6, <1>7, <1>8 DEF Next

\* The ledger explains the balance: the newest entry shows it, and each entry
\* follows from the one before it unless its transaction had been overtaken or
\* its fee was more than there was.
THEOREM LedgerExplains == Spec => []LedgerExplainsBalance
<1> USE WalletAssumption
<1>1. Init => TypeInv /\ LedgerInv
  BY InitTypeInv, InitLedgerInv
<1>2. TypeInv /\ LedgerInv /\ [Next]_vars => (TypeInv /\ LedgerInv)'
  BY NextTypeInv, NextLedgerInv
<1>3. LedgerInv => LedgerExplainsBalance
  BY DEF LedgerInv
<1> QED
  BY <1>1, <1>2, <1>3, PTL DEF Spec

-----------------------------------------------------------------------------
(* One outcome *)

\* Steps of handlers that know the order's row.
Knowing == {"verify", "tx", "apply"}

\* A row that is being created isn't there yet, nor is anybody else about to
\* create it; one that a webhook knows is there.
CreatesOK ==
    /\ \A h \in Handlers : pc[h] = "create" => status[on[h]] = "none"
    /\ \A h \in Handlers : pc[h] \in Knowing => status[on[h]] # "none"
    /\ \A g, h \in Handlers : pc[g] = "create" /\ pc[h] = "create" /\ on[g] = on[h] => g = h

Concluded(x) == status[x] = "PAID" \/ (status[x] = "REJECTED" /\ x \in Withdrawals)

\* Unless transactions about it overlapped: what had its outcome is final, and
\* nobody who is about to write its row has missed that.
OutcomesOK ==
    \A x \in Subjects : x \notin clashes =>
        /\ outcomes[x] <= 1
        /\ outcomes[x] > 0 => Concluded(x)

HeldOK == \A h \in Handlers : pc[h] \in Committing /\ on[h] \notin clashes => outcomes[on[h]] = 0

OutcomeInv == CreatesOK /\ OutcomesOK /\ HeldOK

LEMMA InitOutcomeInv == ASSUME WalletAssumption, Init PROVE OutcomeInv
BY DEF Init, OutcomeInv, CreatesOK, OutcomesOK, HeldOK, Knowing, Committing

\* A handler that writes no row keeps OutcomeInv if it does for itself.
LEMMA QuietOutcomeInv ==
    ASSUME TypeInv, OutcomeInv, NEW h \in Handlers, UNCHANGED <<status, outcomes, clashes>>,
           \A g \in Handlers \ {h} : UNCHANGED <<pc[g], on[g]>>,
           pc'[h] = "create" => status[on'[h]] = "none" /\ \A g \in Handlers : on[g] # on'[h],
           pc'[h] \in Knowing => status[on'[h]] # "none",
           pc'[h] \in Committing /\ on'[h] \notin clashes => outcomes[on'[h]] = 0
    PROVE  OutcomeInv'
<1>1. CreatesOK'
  BY DEF OutcomeInv, CreatesOK
<1>2. OutcomesOK'
  BY DEF OutcomeInv, OutcomesOK, Concluded
<1>3. HeldOK'
  BY DEF OutcomeInv, HeldOK
<1> QED
  BY <1>1, <1>2, <1>3 DEF OutcomeInv

LEMMA EndOutcomeInv ==
    ASSUME TypeInv, OutcomeInv, NEW h \in Handlers, End(h), UNCHANGED <<status, outcomes, clashes>>
    PROVE  OutcomeInv'
<1>1. pc'[h] = "idle"
  BY DEF End, Goto, TypeInv, LocalsTyped
<1> QED
  BY <1>1, EndUnlocks, QuietOutcomeInv DEF Knowing, Committing

\* A commit about a subject that has had no outcome gives it its first, or none.
LEMMA CommitOutcomeInv ==
    ASSUME TypeInv, OutcomeInv, NEW h \in Handlers, pc[h] \in Committing, on[h] \in Subjects, End(h),
           NEW now \in {"PENDING", "APPROVED", "PAID", "REJECTED"}, Conclude(h, now),
           outcomes' = outcomes \/ (Count(h) /\ now \in {"PAID", "REJECTED"}),
           now = "REJECTED" => on[h] \in Withdrawals
    PROVE  OutcomeInv'
<1>1. PICK x \in Subjects : x = on[h]
  OBVIOUS
<1>2. /\ pc'[h] = "idle"
      /\ \A g \in Handlers \ {h} : pc'[g] = pc[g] /\ on'[g] = on[g]
  BY EndUnlocks DEF End, Goto, TypeInv, LocalsTyped
<1>3. /\ status'[x] = now
      /\ \A y \in Subjects \ {x} : status'[y] = status[y] /\ outcomes'[y] = outcomes[y]
  BY <1>1 DEF Conclude, Count, TypeInv, RowsTyped, HistoryTyped
<1>4. clashes \subseteq clashes'
  BY DEF Conclude
<1>5. x \notin clashes' => \A g \in Handlers \ {h} : pc[g] \in Committing => on[g] # x
  BY <1>1 DEF Conclude, Others
<1>6. x \notin clashes' => outcomes[x] = 0
  BY <1>1, <1>4 DEF OutcomeInv, HeldOK
<1>7. CreatesOK'
  <2>1. now # "none" /\ \A g \in Handlers : on[g] = x => pc[g] # "create"
    <3>1. pc[h] # "create"
      BY DEF Committing
    <3>2. ASSUME NEW g \in Handlers, pc[g] = "create", on[g] = x PROVE FALSE
      <4>1. x \in Orders /\ status[x] = "none"
        BY <3>2 DEF TypeInv, LocalsTyped, PlacesOK, PlaceOK, OutcomeInv, CreatesOK
      <4>2. pc[h] = "apply" \/ x \in Withdrawals
        BY <1>1 DEF TypeInv, LocalsTyped, PlacesOK, PlaceOK
      <4>3. x \notin Withdrawals
        BY <4>1, WalletAssumption DEF WalletAssumption
      <4> QED
        BY <1>1, <4>1, <4>2, <4>3 DEF OutcomeInv, CreatesOK, Knowing
    <3> QED
      BY <3>2
  <2>2. \A g \in Handlers \ {h} : on[g] \in Subjects \/ pc[g] \notin {"create"} \cup Knowing
    BY DEF TypeInv, LocalsTyped, PlacesOK, PlaceOK, Knowing, WebhookSteps, Subjects
  <2> QED
    BY <1>2, <1>3, <2>1, <2>2 DEF OutcomeInv, CreatesOK, Knowing
<1>8. OutcomesOK'
  <2>1. ASSUME NEW y \in Subjects, y \notin clashes', y # x
        PROVE  outcomes'[y] <= 1 /\ (outcomes'[y] > 0 => Concluded(y)')
    BY <1>3, <1>4, <2>1 DEF OutcomeInv, OutcomesOK, Concluded
  <2>2. ASSUME x \notin clashes'
        PROVE  outcomes'[x] <= 1 /\ (outcomes'[x] > 0 => Concluded(x)')
    <3>1. outcomes[x] = 0
      BY <1>6, <2>2
    <3>2. CASE outcomes' = outcomes
      BY <3>1, <3>2
    <3>3. CASE Count(h) /\ now \in {"PAID", "REJECTED"}
      <4>1. outcomes'[x] = 1
        BY <1>1, <3>1, <3>3 DEF Count, TypeInv, HistoryTyped
      <4> QED
        BY <1>1, <1>3, <3>3, <4>1 DEF Concluded
    <3> QED
      BY <3>2, <3>3
  <2> QED
    BY <2>1, <2>2 DEF OutcomesOK
<1>9. HeldOK'
  <2>1. ASSUME NEW g \in Handlers, pc'[g] \in Committing, on'[g] \notin clashes'
        PROVE  outcomes'[on'[g]] = 0
    <3>1. g # h /\ pc[g] \in Committing /\ on'[g] = on[g]
      BY <1>2, <2>1 DEF Committing
    <3>2. on[g] \in Subjects
      BY <3>1 DEF TypeInv, LocalsTyped, PlacesOK, PlaceOK, WebhookSteps, Committing, Subjects
    <3>3. on[g] # x
      BY <1>5, <2>1, <3>1
    <3> QED
      BY <1>3, <1>4, <2>1, <3>1, <3>2, <3>3 DEF OutcomeInv, HeldOK
  <2> QED
    BY <2>1 DEF HeldOK
<1> QED
  BY <1>7, <1>8, <1>9 DEF OutcomeInv

LEMMA StepOutcomeInv ==
    ASSUME WalletAssumption, TypeInv, OutcomeInv, NEW h \in Handlers, Step(h) \/ Abort(h)
    PROVE  OutcomeInv'
<1>1. CASE CreateOrder(h)
  <2>1. /\ pc'[h] = "idle"
        /\ \A g \in Handlers \ {h} : pc'[g] = pc[g] /\ on'[g] = on[g]
        /\ UNCHANGED <<outcomes, clashes>>
    BY <1>1, EndUnlocks DEF CreateOrder, End, Goto, TypeInv, LocalsTyped, history
  <2>2. /\ on[h] \in Subjects /\ status[on[h]] = "none"
        /\ \A g \in Handlers \ {h} : pc[g] = "create" => on[g] # on[h]
    BY <1>1 DEF CreateOrder, TypeInv, LocalsTyped, PlacesOK, PlaceOK, Subjects, OutcomeInv, CreatesOK
  <2>3. \A x \in Subjects \ {on[h]} :
            status'[x] = status[x] \/ (status[x] = "PENDING" /\ status'[x] = "SUPERSEDED")
    BY <1>1 DEF CreateOrder
  <2>4. status'[on[h]] = "PENDING"
    BY <1>1, <2>2 DEF CreateOrder
  <2>5. \A g \in Handlers : pc[g] \in {"create"} \cup Knowing => on[g] \in Subjects
    BY DEF TypeInv, LocalsTyped, PlacesOK, PlaceOK, Knowing, WebhookSteps, Subjects
  <2>6. CreatesOK'
    BY <2>1, <2>2, <2>3, <2>4, <2>5 DEF OutcomeInv, CreatesOK, Knowing
  <2>7. OutcomesOK'
    BY <2>1, <2>2, <2>3 DEF OutcomeInv, OutcomesOK, Concluded
  <2>8. HeldOK'
    BY <2>1 DEF OutcomeInv, HeldOK, Committing
  <2> QED
    BY <2>6, <2>7, <2>8 DEF OutcomeInv
<1>2. CASE ReadOrder(h) \/ Verify(h) \/ BeginApply(h)
  <2>1. UNCHANGED <<status, outcomes, clashes>>
    BY <1>2 DEF ReadOrder, Verify, BeginApply, rows, history
  <2>2. CASE End(h)
    BY <2>1, <2>2, EndOutcomeInv
  <2>3. CASE ~End(h)
    <3>1. /\ on' = on /\ \A g \in Handlers \ {h} : pc'[g] = pc[g]
          /\ pc'[h] \in Knowing
      BY <1>2, <2>3 DEF ReadOrder, Verify, BeginApply, Goto, Knowing, TypeInv, LocalsTyped
    <3>2. status[on[h]] # "none"
      BY <1>2, <2>3 DEF ReadOrder, Verify, BeginApply, OutcomeInv, CreatesOK, Knowing
    <3>3. pc'[h] \in Committing => status[on[h]] # "PAID"
      BY <1>2, <2>3 DEF ReadOrder, Verify, BeginApply, Goto, Committing, TypeInv, LocalsTyped
    <3>4. on[h] \in Orders /\ on[h] \in Subjects
      BY <1>2 DEF ReadOrder, Verify, BeginApply, TypeInv, LocalsTyped, PlacesOK, PlaceOK, WebhookSteps, Subjects
    <3>5. on[h] \notin Withdrawals
      BY <3>4 DEF WalletAssumption
    <3>6. pc'[h] \in Committing /\ on[h] \notin clashes => outcomes[on[h]] = 0
      BY <3>3, <3>4, <3>5 DEF OutcomeInv, OutcomesOK, Concluded, TypeInv, HistoryTyped
    <3> QED
      BY <2>1, <3>1, <3>2, <3>6, QuietOutcomeInv DEF Knowing
  <2> QED
    BY <2>2, <2>3
<1>3. CASE Apply(h) \/ Withdraw(h) \/ Approve(h) \/ PayOut(h) \/ Reject(h)
  <2>1. pc[h] \in Committing /\ End(h)
    BY <1>3 DEF Apply, Withdraw, Approve, PayOut, Reject, Committing
  <2>2. on[h] \in Subjects
    BY <2>1 DEF TypeInv, LocalsTyped, PlacesOK, PlaceOK, WebhookSteps, Committing, Subjects
  <2>3. PICK now \in {"PENDING", "APPROVED", "PAID", "REJECTED"} :
           /\ Conclude(h, now)
           /\ outcomes' = outcomes \/ (Count(h) /\ now \in {"PAID", "REJECTED"})
           /\ now = "REJECTED" => on[h] \in Withdrawals
    BY <1>3 DEF Apply, Withdraw, Approve, PayOut, Reject, Committing, TypeInv, LocalsTyped, PlacesOK, PlaceOK
  <2> QED
    BY <2>1, <2>2, <2>3, CommitOutcomeInv
<1>4. CASE Abort(h)
  <2>1. End(h) /\ UNCHANGED <<status, outcomes, clashes>>
    BY <1>4 DEF Abort, rows
  <2> QED
    BY <2>1, EndOutcomeInv
<1> QED
  BY <1>1, <1>2, <1>3, <1>4 DEF Step

LEMMA BeginOutcomeInv ==
    ASSUME WalletAssumption, TypeInv, OutcomeInv, NEW h \in Handlers, NEW x \in Subjects,
           \/ x \in Orders /\ AskGateway(h, x)
           \/ x \in Orders /\ \E n \in Notices : Deliver(h, x, n) \/ DeliverUnlocked(h, x, n)
           \/ BeginWithdraw(h, x)
           \/ \E a \in {"APPROVE", "PAID", "REJECT"} : BeginDecision(h, x, a)
    PROVE  OutcomeInv'
<1>1. PICK where : Begin(h, where, x)
  BY DEF AskGateway, Deliver, DeliverUnlocked, BeginWithdraw, BeginDecision
<1>2. /\ pc'[h] = where /\ on'[h] = x
      /\ \A g \in Handlers \ {h} : UNCHANGED <<pc[g], on[g]>>
  BY <1>1 DEF Begin, Goto, TypeInv, LocalsTyped
<1>3. UNCHANGED <<status, outcomes, clashes>>
  BY DEF AskGateway, Deliver, DeliverUnlocked, BeginWithdraw, BeginDecision, rows, history
<1>4. \/ where = "create" /\ Fresh(x)
      \/ where = "read"
      \/ where \in {"withdraw", "APPROVE", "PAID", "REJECT"} /\ status[x] \in {"none", "PENDING", "APPROVED"}
  BY <1>1, <1>2
     DEF AskGateway, Deliver, DeliverUnlocked, BeginWithdraw, BeginDecision, Begin, Goto, Allowed, Fresh,
         TypeInv, LocalsTyped
<1>5. CASE where = "create" /\ Fresh(x)
  BY <1>2, <1>3, <1>5, QuietOutcomeInv DEF Fresh, Knowing, Committing
<1>6. CASE where = "read"
  BY <1>2, <1>3, <1>6, QuietOutcomeInv DEF Knowing, Committing
<1>7. CASE /\ where \in {"withdraw", "APPROVE", "PAID", "REJECT"}
           /\ status[x] \in {"none", "PENDING", "APPROVED"}
  <2>1. x \notin clashes => outcomes[x] = 0
    BY <1>7 DEF OutcomeInv, OutcomesOK, Concluded, TypeInv, HistoryTyped
  <2> QED
    BY <1>2, <1>3, <1>7, <2>1, QuietOutcomeInv DEF Knowing
<1> QED
  BY <1>4, <1>5, <1>6, <1>7

LEMMA NextOutcomeInv ==
    ASSUME WalletAssumption, TypeInv, OutcomeInv, [Next]_vars PROVE OutcomeInv'
<1>1. CASE \E h \in Handlers : Step(h) \/ Abort(h)
  BY <1>1, StepOutcomeInv
<1>2. CASE \/ \E h \in Handlers, o \in Orders : AskGateway(h, o)
           \/ \E h \in Handlers, o \in Orders, n \in Notices : Deliver(h, o, n) \/ DeliverUnlocked(h, o, n)
  BY <1>2, BeginOutcomeInv DEF Subjects
<1>3. CASE \/ \E h \in Handlers, w \in Withdrawals : BeginWithdraw(h, w)
           \/ \E h \in Handlers, w \in Withdrawals, a \in {"APPROVE", "PAID", "REJECT"} :
                  BeginDecision(h, w, a)
  BY <1>3, BeginOutcomeInv DEF Subjects
<1>4. CASE (\E o \in Orders : Settle(o)) \/ UNCHANGED vars
  BY <1>4 DEF Settle, vars, rows, locals, history, OutcomeInv, CreatesOK, OutcomesOK, HeldOK, Concluded
<1> QED
  BY <1>1, <1>2, <1>3, <1>4 DEF Next

\* Reading the status in the transaction that writes it is enough as long as
\* transactions about the same subject don't overlap: then a payment is applied
\* once, and a withdrawal is paid out or refunded once and never both.
THEOREM OneOutcomeEach == Spec => []OneOutcome
<1> USE WalletAssumption
<1>1. Init => TypeInv /\ OutcomeInv
  BY InitTypeInv, InitOutcomeInv
<1>2. TypeInv /\ OutcomeInv /\ [Next]_vars => (TypeInv /\ OutcomeInv)'
  BY NextTypeInv, NextOutcomeInv
<1>3. OutcomeInv => OneOutcome
  BY DEF OutcomeInv, OutcomesOK, OneOutcome
<1> QED
  BY <1>1, <1>2, <1>3, PTL DEF Spec

=============================================================================
