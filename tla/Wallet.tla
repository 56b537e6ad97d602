------------------------------ MODULE Wallet ------------------------------
(***************************************************************************)
(* An organization's wallet: top-ups and gateway payments of one invoice   *)
(* that the gateway's webhook confirms, withdrawals that the platform's    *)
(* operators approve, pay or reject, and the ledger of all of them.        *)
(*                                                                         *)
(* A transaction is two steps: the first statement fixes the snapshot that *)
(* its reads see (MySQL's REPEATABLE READ), and the commit publishes its   *)
(* writes, which don't look at the rows again.                             *)
(*                                                                         *)
(* Data left out: bank details, notes, payment methods, expiry dates, and  *)
(* the invoice, whose status and milestones the webhook writes as well.    *)
(***************************************************************************)
EXTENDS Naturals, Sequences, FiniteSets

CONSTANTS
    Handlers,     \* requests in progress, webhooks included
    Topups,
    Withdrawals,
    Attempts,     \* payments of the invoice that the gateway was asked for
    Amount,       \* of a top-up or withdrawal; the fee the wallet bears for an attempt
    Opening,      \* the balance before the ledger's first entry
    Faults,       \* the faults that may happen
    Nothing

AllFaults == {"abort", "redis"}

Orders == Topups \cup Attempts

Subjects == Orders \cup Withdrawals

ASSUME WalletAssumption ==
    /\ Topups \cap Attempts = {} /\ Orders \cap Withdrawals = {}
    /\ Nothing \notin Subjects
    /\ Amount \in [Subjects -> Nat]
    /\ Opening \in Nat
    /\ Faults \subseteq AllFaults

VARIABLES
    balance,     \* walletBalanceCents
    ledger,      \* the entries: what, about which subject, how much, balance after
    status,      \* of each top-up, attempt and withdrawal; "none": no row
    keys,        \* the webhooks' replay keys in Redis
    settled,     \* orders that the customer has paid at the gateway
    pc,          \* what each handler does next
    on,          \* the subject it is about
    told,        \* the status its webhook carries
    locked,      \* its webhook took the replay key; FALSE when Redis failed
    seen,        \* the balance in its transaction's snapshot
    outcomes,    \* history: payments applied and withdrawals paid or refunded
    appliedBy,   \* history: payments applied per replay key
    clashes,     \* history: subjects of overlapping transactions
    rushed,      \* history: handlers whose snapshot of the balance is out of date
    gaps,        \* history: entries from such a snapshot, or for more than there was
    botched      \* history: orders of which a webhook "settled" failed on its way

rows    == <<balance, ledger, status>>
locals  == <<pc, on, told, locked, seen>>
history == <<outcomes, appliedBy, clashes, rushed, gaps, botched>>
vars    == <<rows, keys, settled, locals, history>>

Notices == {"pending", "settled"}

\* The steps of a handler that has read the rows its transaction will write.
Committing == {"apply", "withdraw", "APPROVE", "PAID", "REJECT"}

Goto(h, where) == pc' = [pc EXCEPT ![h] = where]

Begin(h, where, x) ==
    /\ pc[h] = "idle"
    /\ Goto(h, where)
    /\ on' = [on EXCEPT ![h] = x]

End(h) ==
    /\ Goto(h, "idle")
    /\ on' = [on EXCEPT ![h] = Nothing]
    /\ told' = [told EXCEPT ![h] = "none"]
    /\ locked' = [locked EXCEPT ![h] = FALSE]
    /\ seen' = [seen EXCEPT ![h] = 0]

Init ==
    /\ balance = Opening
    /\ ledger = << >>
    /\ status = [x \in Subjects |-> "none"]
    /\ keys = {}
    /\ settled = {}
    /\ pc = [h \in Handlers |-> "idle"]
    /\ on = [h \in Handlers |-> Nothing]
    /\ told = [h \in Handlers |-> "none"]
    /\ locked = [h \in Handlers |-> FALSE]
    /\ seen = [h \in Handlers |-> 0]
    /\ outcomes = [x \in Subjects |-> 0]
    /\ appliedBy = [k \in Orders \X Notices |-> 0]
    /\ clashes = {}
    /\ rushed = {}
    /\ gaps = {}
    /\ botched = {}

-----------------------------------------------------------------------------
(* What a commit does to the wallet and to the history *)

Others(h) == {g \in Handlers \ {h} : pc[g] \in Committing}

\* Mutant: the entry shows the balance before it.
EntryOfOldBalance(kind, x, after) ==
    [kind |-> kind, about |-> x, amount |-> Amount[x], after |-> balance]

Entry(kind, x, after) ==
    [kind |-> kind, about |-> x, amount |-> Amount[x], after |-> after]

\* The balance is written as computed from the snapshot, with its entry.
Move(h, kind, after) ==
    /\ balance' = after
    /\ ledger' = Append(ledger, Entry(kind, on[h], after))
    /\ rushed' = (rushed \ {h}) \cup Others(h)

\* An entry that was not computed from the balance it replaces leaves a gap.
Gap(h, clamped) ==
    gaps' = IF h \in rushed \/ clamped THEN gaps \cup {Len(ledger) + 1} ELSE gaps

NoMove(h) ==
    /\ rushed' = rushed \ {h}
    /\ UNCHANGED <<balance, ledger, gaps>>

\* The row's new status, and whether another transaction had read the old one.
Conclude(h, now) ==
    /\ status' = [status EXCEPT ![on[h]] = now]
    /\ clashes' = IF \E g \in Others(h) : on[g] = on[h]
                  THEN clashes \cup {on[h]} ELSE clashes

Count(h) == outcomes' = [outcomes EXCEPT ![on[h]] = @ + 1]

-----------------------------------------------------------------------------
(* Orders: the gateway is asked first, then the row is created.             *)

Fresh(x) == status[x] = "none" /\ \A g \in Handlers : on[g] # x

\* createWalletTopup, and createPublicInvoicePaymentAttempt, which refuses
\* when the wallet cannot bear the fee.  (Whether the invoice can be paid is
\* up to the invoice.)
AskGateway(h, o) ==
    /\ Fresh(o)
    /\ o \in Attempts => Amount[o] <= balance
    /\ Begin(h, "create", o)
    /\ UNCHANGED <<rows, keys, settled, told, locked, seen, history>>

\* Attempts that wait for a payment are superseded by a new one.
CreateOrder(h) ==
    /\ pc[h] = "create"
    /\ status' = [x \in Subjects |->
           IF x = on[h] THEN "PENDING"
           ELSE IF on[h] \in Attempts /\ x \in Attempts /\ status[x] = "PENDING"
                THEN "SUPERSEDED" ELSE status[x]]
    /\ End(h)
    /\ UNCHANGED <<balance, ledger, keys, settled, history>>

\* The customer pays; the gateway takes payments of superseded orders too.
Settle(o) ==
    /\ status[o] # "none"
    /\ o \notin settled
    /\ settled' = settled \cup {o}
    /\ UNCHANGED <<rows, keys, locals, history>>

-----------------------------------------------------------------------------
(* The gateway's webhook *)

\* Mutant: the key forgets the status.
KeyOfOrder(o, notice) == <<o, "settled">>

ReplayKey(o, notice) == <<o, notice>>

KnownToGateway(o) ==
    status[o] # "none" \/ \E h \in Handlers : pc[h] = "create" /\ on[h] = o

\* SET NX of the replay key, which lives longer than the gateway repeats its
\* webhooks.  A webhook that finds it is skipped.
Deliver(h, o, notice) ==
    /\ KnownToGateway(o)
    /\ notice = "settled" => o \in settled
    /\ ReplayKey(o, notice) \notin keys
    /\ keys' = keys \cup {ReplayKey(o, notice)}
    /\ locked' = [locked EXCEPT ![h] = TRUE]
    /\ Begin(h, "read", o)
    /\ told' = [told EXCEPT ![h] = notice]
    /\ UNCHANGED <<rows, settled, seen, history>>

\* An error from Redis, before or after it set the key: the webhook goes on.
DeliverUnlocked(h, o, notice) ==
    /\ "redis" \in Faults
    /\ KnownToGateway(o)
    /\ notice = "settled" => o \in settled
    /\ keys' \in {keys, keys \cup {ReplayKey(o, notice)}}
    /\ Begin(h, "read", o)
    /\ told' = [told EXCEPT ![h] = notice]
    /\ UNCHANGED <<rows, settled, locked, seen, history>>

\* No row yet, an unpaid status (of an invoice's payment only), or paid: done.
ReadOrder(h) ==
    /\ pc[h] = "read"
    /\ IF \/ status[on[h]] \in {"none", "PAID"}
          \/ on[h] \in Attempts /\ told[h] # "settled"
       THEN End(h)
       ELSE Goto(h, "verify") /\ UNCHANGED <<on, told, locked, seen>>
    /\ UNCHANGED <<rows, keys, settled, history>>

\* The gateway is asked whether the order has been paid; if not, an error.
Verify(h) ==
    /\ pc[h] = "verify"
    /\ IF on[h] \in settled
       THEN Goto(h, "tx") /\ UNCHANGED <<on, told, locked, seen>>
       ELSE End(h)
    /\ UNCHANGED <<rows, keys, settled, history>>

\* Mutant: the transaction does not look at the order again.
TxWithoutRecheck(h) ==
    /\ pc[h] = "tx"
    /\ Goto(h, "apply") /\ seen' = [seen EXCEPT ![h] = balance]
    /\ UNCHANGED <<rows, keys, settled, on, told, locked, history>>

\* The transaction's first statement reads the order again.
BeginApply(h) ==
    /\ pc[h] = "tx"
    /\ IF status[on[h]] = "PAID"
       THEN End(h)
       ELSE /\ Goto(h, "apply")
            /\ seen' = [seen EXCEPT ![h] = balance]
            /\ UNCHANGED <<on, told, locked>>
    /\ UNCHANGED <<rows, keys, settled, history>>

\* The order is paid.  A top-up is credited; the fee of an attempt is debited,
\* as far as the balance goes, from a wallet that bears it.
Apply(h) ==
    /\ pc[h] = "apply"
    /\ Conclude(h, "PAID")
    /\ LET x == on[h] IN
       \/ /\ x \in Topups
          /\ Move(h, "TOPUP_CREDIT", seen[h] + Amount[x])
          /\ Gap(h, FALSE)
       \/ /\ x \in Attempts /\ Amount[x] > 0
          /\ Move(h, "INVOICE_FEE_DEBIT",
                  IF Amount[x] > seen[h] THEN 0 ELSE seen[h] - Amount[x])
          /\ Gap(h, Amount[x] > seen[h])
       \/ /\ x \in Attempts /\ Amount[x] = 0
          /\ NoMove(h)
    /\ Count(h)
    /\ appliedBy' = IF locked[h]
                    THEN [appliedBy EXCEPT ![<<on[h], told[h]>>] = @ + 1]
                    ELSE appliedBy
    /\ End(h)
    /\ UNCHANGED <<keys, settled, botched>>

-----------------------------------------------------------------------------
(* Withdrawals *)

\* createWithdrawRequest reads the balance in its transaction.
BeginWithdraw(h, w) ==
    /\ Fresh(w)
    /\ Amount[w] <= balance
    /\ Begin(h, "withdraw", w)
    /\ seen' = [seen EXCEPT ![h] = balance]
    /\ UNCHANGED <<rows, keys, settled, told, locked, history>>

Withdraw(h) ==
    /\ pc[h] = "withdraw"
    /\ Conclude(h, "PENDING")
    /\ Move(h, "WITHDRAW_DEBIT", seen[h] - Amount[on[h]])
    /\ Gap(h, FALSE)
    /\ End(h)
    /\ UNCHANGED <<keys, settled, outcomes, appliedBy, botched>>

\* The statuses from which an operator may take an action.
Allowed(w, action) ==
    \/ action = "APPROVE" /\ status[w] = "PENDING"
    \/ action = "PAID" /\ status[w] = "APPROVED"
    \/ action = "REJECT" /\ status[w] \in {"PENDING", "APPROVED"}

\* processWithdrawRequestAction reads the request in its transaction.
BeginDecision(h, w, action) ==
    /\ Allowed(w, action)
    /\ Begin(h, action, w)
    /\ seen' = [seen EXCEPT ![h] = balance]
    /\ UNCHANGED <<rows, keys, settled, told, locked, history>>

Approve(h) ==
    /\ pc[h] = "APPROVE"
    /\ Conclude(h, "APPROVED")
    /\ NoMove(h)
    /\ End(h)
    /\ UNCHANGED <<keys, settled, outcomes, appliedBy, botched>>

PayOut(h) ==
    /\ pc[h] = "PAID"
    /\ Conclude(h, "PAID")
    /\ NoMove(h)
    /\ Count(h)
    /\ End(h)
    /\ UNCHANGED <<keys, settled, appliedBy, botched>>

\* Mutant: the refund leaves no entry.
RefundQuietly(h) ==
    /\ pc[h] = "REJECT"
    /\ Conclude(h, "REJECTED")
    /\ balance' = seen[h] + Amount[on[h]]
    /\ rushed' = (rushed \ {h}) \cup Others(h)
    /\ Count(h)
    /\ End(h)
    /\ UNCHANGED <<ledger, gaps, keys, settled, appliedBy, botched>>

\* The amount goes back into the wallet.
Reject(h) ==
    /\ pc[h] = "REJECT"
    /\ Conclude(h, "REJECTED")
    /\ Move(h, "WITHDRAW_REFUND", seen[h] + Amount[on[h]])
    /\ Gap(h, FALSE)
    /\ Count(h)
    /\ End(h)
    /\ UNCHANGED <<keys, settled, appliedBy, botched>>

-----------------------------------------------------------------------------

\* A request dies, a call of the gateway fails, a transaction is rolled back.
Abort(h) ==
    /\ "abort" \in Faults
    /\ pc[h] # "idle"
    /\ botched' = IF told[h] = "settled" THEN botched \cup {on[h]} ELSE botched
    /\ rushed' = rushed \ {h}
    /\ End(h)
    /\ UNCHANGED <<rows, keys, settled, outcomes, appliedBy, clashes, gaps>>

Step(h) ==
    \/ CreateOrder(h)
    \/ ReadOrder(h) \/ Verify(h) \/ BeginApply(h) \/ Apply(h)
    \/ Withdraw(h) \/ Approve(h) \/ PayOut(h) \/ Reject(h)

Next ==
    \/ \E h \in Handlers : Step(h) \/ Abort(h)
    \/ \E h \in Handlers, o \in Orders : AskGateway(h, o)
    \/ \E h \in Handlers, o \in Orders, n \in Notices : Deliver(h, o, n) \/ DeliverUnlocked(h, o, n)
    \/ \E o \in Orders : Settle(o)
    \/ \E h \in Handlers, w \in Withdrawals : BeginWithdraw(h, w)
    \/ \E h \in Handlers, w \in Withdrawals, a \in {"APPROVE", "PAID", "REJECT"} : BeginDecision(h, w, a)

Spec == Init /\ [][Next]_vars

\* A request in progress goes on.  The gateway sends the webhook of a payment
\* until it is taken: strongly fair, for the model has few handlers and the
\* server as many as it needs.
FairSpec ==
    /\ Spec
    /\ \A h \in Handlers : WF_vars(Step(h))
    /\ \A o \in Orders : SF_vars(\E h \in Handlers : Deliver(h, o, "settled"))

-----------------------------------------------------------------------------

Entries ==
    [kind : {"TOPUP_CREDIT", "INVOICE_FEE_DEBIT", "WITHDRAW_DEBIT", "WITHDRAW_REFUND"},
     about : Subjects, amount : Nat, after : Nat]

Statuses == {"none", "PENDING", "SUPERSEDED", "APPROVED", "PAID", "REJECTED"}

\* The type of every variable; the balance is never negative.
TypeOK ==
    /\ balance \in Nat
    /\ ledger \in Seq(Entries)
    /\ status \in [Subjects -> Statuses]
    /\ keys \subseteq Orders \X Notices
    /\ settled \subseteq Orders
    /\ pc \in [Handlers -> {"idle", "create", "read", "verify", "tx"} \cup Committing]
    /\ on \in [Handlers -> Subjects \cup {Nothing}]
    /\ told \in [Handlers -> Notices \cup {"none"}]
    /\ locked \in [Handlers -> BOOLEAN]
    /\ seen \in [Handlers -> Nat]
    /\ outcomes \in [Subjects -> Nat]
    /\ appliedBy \in [Orders \X Notices -> Nat]
    /\ clashes \subseteq Subjects
    /\ rushed \subseteq Handlers
    /\ gaps \subseteq Nat
    /\ botched \subseteq Orders

Credits == {"TOPUP_CREDIT", "WITHDRAW_REFUND"}

Before(i) == IF i = 1 THEN Opening ELSE ledger[i - 1].after

\* The ledger explains the balance: its newest entry shows it, and each entry
\* follows from the one before, except where two transactions had read the
\* same balance or a fee was larger than what was left.
LedgerExplainsBalance ==
    /\ balance = Before(Len(ledger) + 1)
    /\ \A i \in 1 .. Len(ledger) : i \notin gaps =>
           IF ledger[i].kind \in Credits
           THEN ledger[i].after = Before(i) + ledger[i].amount
           ELSE Before(i) = ledger[i].after + ledger[i].amount

\* A payment is applied once, and a withdrawal is paid out once or refunded
\* once, never both, unless two transactions about it overlapped: reading the
\* status in the transaction that writes it is enough for requests in sequence.
OneOutcome == \A x \in Subjects : x \notin clashes => outcomes[x] <= 1

\* A webhook that took its replay key is the only one that key lets apply the
\* payment, whatever else overlaps.
KeyAppliesOnce == \A k \in Orders \X Notices : appliedBy[k] <= 1

\* What the customer paid is applied in the end, unless a webhook that said so
\* failed on its way: the replay key it set keeps every later webhook out.
SettledIsApplied ==
    \A o \in Orders : o \in settled ~> (outcomes[o] > 0 \/ o \in botched)

=============================================================================
