----------------------------- MODULE Invoices -----------------------------
(***************************************************************************)
(* One invoice: drafted, edited, sent into the customer's chat, paid       *)
(* through the gateway or marked paid by the team milestone by milestone,  *)
(* with the payment proofs that are attached to it, and the CRM stage of   *)
(* its conversation, which follows it.                                     *)
(*                                                                         *)
(* A request reads the invoice, decides, and writes later, by id: nothing  *)
(* it writes looks at the row again.  Requests come from members, from the *)
(* public invoice page, from the gateway and from the retention job.       *)
(*                                                                         *)
(* Data left out: items, amounts, due dates, the PDF, the files of proofs, *)
(* the wallet (module Wallet), and what the gateway is asked.  The status  *)
(* VOID is read in many places and never written.                          *)
(***************************************************************************)
EXTENDS Naturals, FiniteSets

CONSTANTS
    Handlers,     \* requests in progress
    Milestones,   \* FULL, or DP and FINAL
    Attempts,     \* payments of the invoice through the gateway
    MaxProofs,
    Faults        \* the faults that may happen

\* What a request does next; that it settles an attempt is said by the attempt.
Steps == {"idle", "edit", "delete", "send", "mark", "tally", "status", "fetch",
          "sync sent", "sync paid", "attempt", "proof", "cleanup"}

ASSUME InvoicesAssumption ==
    /\ IsFiniteSet(Handlers) /\ Handlers # {}
    /\ Attempts \cap Steps = {}
    /\ Milestones # {}
    /\ MaxProofs \in Nat
    /\ Faults \subseteq {"abort"}

VARIABLES
    status,      \* the invoice's; "none": not created, "DELETED": no longer there
    paid,        \* the milestones that are PAID; the others are PENDING
    proofs,      \* how many payment proofs it has
    attempts,    \* the status of each attempt; "none": no row
    stage,       \* the CRM stage of the invoice's conversation
    pc,          \* what each handler does next
    saw,         \* the status it read
    chosen,      \* the milestones it marks; later, those it found to be paid
    overtaken,   \* history: handlers since whose read another one wrote
    disturbed    \* history: an overtaken handler wrote, or one died half-way

invoice == <<status, paid>>
history == <<overtaken, disturbed>>
vars    == <<invoice, proofs, attempts, stage, pc, saw, chosen, history>>

Gone == {"none", "DELETED"}

Goto(h, where) == pc' = [pc EXCEPT ![h] = where]

\* A handler has read the invoice and passed its guards.
Begin(h, where) ==
    /\ pc[h] = "idle"
    /\ Goto(h, where)
    /\ saw' = [saw EXCEPT ![h] = status]
    /\ UNCHANGED <<invoice, proofs, attempts, stage, history>>

Reset(h) ==
    /\ saw' = [saw EXCEPT ![h] = "none"]
    /\ chosen' = [chosen EXCEPT ![h] = {}]

End(h) == Goto(h, "idle") /\ Reset(h)

Overtake(h) ==
    overtaken' = overtaken \cup {g \in Handlers \ {h} : pc[g] # "idle"}

\* The handler ends having written the invoice: it cannot be overtaken any more.
OvertakeAndEnd(h) ==
    overtaken' = (overtaken \cup {g \in Handlers : pc[g] # "idle"}) \ {h}

\* The handler ends and has not written the invoice.
Leave(h) ==
    /\ End(h)
    /\ overtaken' = overtaken \ {h}
    /\ UNCHANGED <<invoice, disturbed>>

Init ==
    /\ status = "none"
    /\ paid = {}
    /\ proofs = 0
    /\ attempts = [a \in Attempts |-> "none"]
    /\ stage = "other"
    /\ pc = [h \in Handlers |-> "idle"]
    /\ saw = [h \in Handlers |-> "none"]
    /\ chosen = [h \in Handlers |-> {}]
    /\ overtaken = {}
    /\ disturbed = FALSE

-----------------------------------------------------------------------------
(* Drafts *)

\* createDraftInvoice reserves a number and creates the rows in a transaction
\* that is tried again when the number is taken.
CreateDraft ==
    /\ status = "none"
    /\ status' = "DRAFT"
    /\ UNCHANGED <<paid, proofs, attempts, stage, pc, saw, chosen, history>>

\* editInvoiceItems: only a draft can be edited.
BeginEdit(h) ==
    /\ status = "DRAFT"
    /\ Begin(h, "edit")
    /\ UNCHANGED chosen

\* Its transaction makes the items and milestones anew, the milestones
\* PENDING, and leaves the status alone.
CommitEdit(h) ==
    /\ pc[h] = "edit"
    /\ IF status = "DELETED"
       THEN Leave(h)
       ELSE /\ paid' = {}
            /\ disturbed' = (disturbed \/ h \in overtaken)
            /\ OvertakeAndEnd(h)
            /\ End(h)
            /\ UNCHANGED status
    /\ UNCHANGED <<proofs, attempts, stage>>

\* deleteDraftInvoice: only a draft can be deleted (or a void invoice).
BeginDelete(h) ==
    /\ status = "DRAFT"
    /\ Begin(h, "delete")
    /\ UNCHANGED chosen

\* Its transaction deletes the proofs, milestones, items and the invoice; an
\* attempt's foreign key makes it fail, and so does a row that is gone.
CommitDelete(h) ==
    /\ pc[h] = "delete"
    /\ IF status = "DELETED" \/ \E a \in Attempts : attempts[a] # "none"
       THEN Leave(h) /\ UNCHANGED proofs
       ELSE /\ status' = "DELETED"
            /\ paid' = {}
            /\ proofs' = 0
            /\ disturbed' = (disturbed \/ h \in overtaken)
            /\ OvertakeAndEnd(h)
            /\ End(h)
    /\ UNCHANGED <<attempts, stage>>

-----------------------------------------------------------------------------
(* Sending *)

\* Mutant: a paid invoice can be sent.
SendPaidToo(h) ==
    /\ status \notin Gone
    /\ Begin(h, "send")
    /\ UNCHANGED chosen

\* sendInvoiceToCustomer refuses an invoice that is paid, if only in part.
BeginSend(h) ==
    /\ status \in {"DRAFT", "SENT"}
    /\ Begin(h, "send")
    /\ UNCHANGED chosen

\* The message has gone out: a draft becomes SENT, any other status is written
\* as it was read.
WriteSent(h) ==
    /\ pc[h] = "send"
    /\ IF status = "DELETED"
       THEN Leave(h)
       ELSE /\ status' = IF saw[h] = "DRAFT" THEN "SENT" ELSE saw[h]
            /\ disturbed' = (disturbed \/ h \in overtaken)
            /\ Overtake(h)
            /\ Goto(h, "sync sent")
            /\ UNCHANGED <<paid, saw, chosen>>
    /\ UNCHANGED <<proofs, attempts, stage>>

-----------------------------------------------------------------------------
(* Marking it paid *)

Roles == {"OWNER", "CS"}

\* markInvoicePaid refuses a draft and a paid invoice, and those who are not
\* owners as long as there is no proof.
BeginMark(h, targets, role) ==
    /\ status \in {"SENT", "PARTIALLY_PAID"}
    /\ role = "OWNER" \/ proofs > 0
    /\ Begin(h, "mark")
    /\ chosen' = [chosen EXCEPT ![h] = targets]

\* markMilestonesPaid: the targets that are PENDING become PAID ...
MarkMilestones(h) ==
    /\ pc[h] = "mark"
    /\ paid' = IF status = "DELETED" THEN paid ELSE paid \cup chosen[h]
    /\ Overtake(h)
    /\ Goto(h, "tally")
    /\ UNCHANGED <<status, proofs, attempts, stage, saw, chosen, disturbed>>

\* ... and all of them are read.
ReadMilestones(h) ==
    /\ pc[h] = "tally"
    /\ chosen' = [chosen EXCEPT ![h] = paid]
    /\ Goto(h, "status")
    /\ UNCHANGED <<invoice, proofs, attempts, stage, saw, history>>

\* Mutant: one paid milestone is enough.
AnyIsPaid(ms) == IF ms = {} THEN "SENT" ELSE "PAID"

deriveInvoiceStatus(ms) ==
    IF ms = {} THEN "SENT"
    ELSE IF ms = Milestones THEN "PAID" ELSE "PARTIALLY_PAID"

\* updateInvoiceStatusAndFetch writes the status that follows from what was
\* read ...
WriteStatus(h) ==
    /\ pc[h] = "status"
    /\ IF status = "DELETED"
       THEN Leave(h)
       ELSE /\ status' = deriveInvoiceStatus(chosen[h])
            /\ disturbed' = (disturbed \/ h \in overtaken)
            /\ Overtake(h)
            /\ Goto(h, "fetch")
            /\ UNCHANGED <<paid, saw, chosen>>
    /\ UNCHANGED <<proofs, attempts, stage>>

\* ... and reads the row again: the CRM stage follows what is there now.
Fetch(h) ==
    /\ pc[h] = "fetch"
    /\ IF status \in Gone \cup {"DRAFT"}
       THEN Leave(h)
       ELSE /\ Goto(h, IF status = "PAID" THEN "sync paid" ELSE "sync sent")
            /\ UNCHANGED <<invoice, saw, chosen, history>>
    /\ UNCHANGED <<proofs, attempts, stage>>

\* syncConversationCrmStageFromInvoice writes the stage, whatever it was.  Its
\* errors are logged only.
SyncStage(h) ==
    /\ pc[h] \in {"sync sent", "sync paid"}
    /\ stage' = IF pc[h] = "sync paid" THEN "INVOICE_PAID" ELSE "INVOICE_SENT"
    /\ Leave(h)
    /\ UNCHANGED <<proofs, attempts>>

-----------------------------------------------------------------------------
(* The gateway *)

\* createPublicInvoicePaymentAttempt: a draft is payable too.
BeginAttempt(h) ==
    /\ status \notin Gone \cup {"PAID"}
    /\ Begin(h, "attempt")
    /\ UNCHANGED chosen

\* The gateway has answered: attempts that wait are superseded.  The foreign
\* key keeps an attempt from a deleted invoice.
CreateAttempt(h, a) ==
    /\ pc[h] = "attempt"
    /\ attempts[a] = "none"
    /\ attempts' = IF status = "DELETED" THEN attempts
                   ELSE [b \in Attempts |->
                            IF b = a THEN "PENDING"
                            ELSE IF attempts[b] = "PENDING" THEN "SUPERSEDED"
                            ELSE attempts[b]]
    /\ Leave(h)
    /\ UNCHANGED <<proofs, stage>>

\* processInvoicePakasirWebhook: the customer has paid an attempt, and the
\* snapshot of the webhook's transaction shows it unpaid.
BeginSettle(h, a) ==
    /\ attempts[a] \in {"PENDING", "SUPERSEDED"}
    /\ Begin(h, a)
    /\ UNCHANGED chosen

\* The attempt, every milestone and the invoice are paid, whatever they were.
Settle(h) ==
    /\ pc[h] \in Attempts
    /\ attempts' = [attempts EXCEPT ![pc[h]] = "PAID"]
    /\ status' = "PAID"
    /\ paid' = Milestones
    /\ Overtake(h)
    /\ Goto(h, "sync paid")
    /\ UNCHANGED <<proofs, stage, saw, chosen, disturbed>>

-----------------------------------------------------------------------------
(* Payment proofs *)

\* Mutant: the limit is off by one.
OneProofMore(h) ==
    /\ status \notin Gone
    /\ proofs <= MaxProofs
    /\ Begin(h, "proof")
    /\ UNCHANGED chosen

\* A proof is uploaded on the public page, or attached from a message.
BeginProof(h) ==
    /\ status \notin Gone
    /\ proofs < MaxProofs
    /\ Begin(h, "proof")
    /\ UNCHANGED chosen

\* The file is in the store: the row is created.
CreateProof(h) ==
    /\ pc[h] = "proof"
    /\ proofs' = IF status = "DELETED" THEN proofs ELSE proofs + 1
    /\ Leave(h)
    /\ UNCHANGED <<attempts, stage>>

\* applyInvoiceRetentionPolicyForOrg reads old invoices that are paid ...
BeginCleanup(h) ==
    /\ status = "PAID"
    /\ Begin(h, "cleanup")
    /\ UNCHANGED chosen

\* ... deletes the files of their proofs, then all rows of proofs.
Cleanup(h) ==
    /\ pc[h] = "cleanup"
    /\ proofs' = 0
    /\ Leave(h)
    /\ UNCHANGED <<attempts, stage>>

-----------------------------------------------------------------------------

\* A request dies, or a call in it fails.
Abort(h) ==
    /\ "abort" \in Faults
    /\ pc[h] # "idle"
    /\ disturbed' = (disturbed \/ pc[h] \in {"tally", "status"})
    /\ overtaken' = overtaken \ {h}
    /\ End(h)
    /\ UNCHANGED <<invoice, proofs, attempts, stage>>

Edits(h)  == BeginEdit(h) \/ CommitEdit(h) \/ BeginDelete(h) \/ CommitDelete(h)
Sends(h)  == BeginSend(h) \/ WriteSent(h) \/ SyncStage(h)
Marks(h)  ==
    \/ \E ms \in SUBSET Milestones \ {{}}, role \in Roles : BeginMark(h, ms, role)
    \/ MarkMilestones(h) \/ ReadMilestones(h) \/ WriteStatus(h) \/ Fetch(h)
Pays(h)   ==
    \/ BeginAttempt(h)
    \/ \E a \in Attempts : CreateAttempt(h, a) \/ BeginSettle(h, a)
    \/ Settle(h)
Proofs(h) == BeginProof(h) \/ CreateProof(h) \/ BeginCleanup(h) \/ Cleanup(h)

Next ==
    \/ CreateDraft
    \/ \E h \in Handlers :
           Edits(h) \/ Sends(h) \/ Marks(h) \/ Pays(h) \/ Proofs(h) \/ Abort(h)

Spec == Init /\ [][Next]_vars

-----------------------------------------------------------------------------

Statuses == {"none", "DRAFT", "SENT", "PARTIALLY_PAID", "PAID", "DELETED"}

\* The type of every variable.
TypeOK ==
    /\ status \in Statuses
    /\ paid \subseteq Milestones
    /\ proofs \in Nat
    /\ attempts \in [Attempts -> {"none", "PENDING", "SUPERSEDED", "PAID"}]
    /\ stage \in {"other", "INVOICE_SENT", "INVOICE_PAID"}
    /\ pc \in [Handlers -> Steps \cup Attempts]
    /\ saw \in [Handlers -> Statuses]
    /\ chosen \in [Handlers -> SUBSET Milestones]
    /\ overtaken \subseteq {h \in Handlers : pc[h] # "idle"}
    /\ disturbed \in BOOLEAN

\* Between requests that mark milestones, the invoice's status says which are
\* paid, though status and milestones are written apart: unless a request
\* wrote what had changed under it, or died between the two.
StatusTellsMilestones ==
    \/ disturbed
    \/ \E h \in Handlers : pc[h] \in {"tally", "status"}
    \/ /\ status = "PAID" => paid = Milestones
       /\ status = "PARTIALLY_PAID" => paid \notin {{}, Milestones}
       /\ status \in {"DRAFT", "SENT"} => paid = {}

\* Nothing is taken back from a paid invoice: not its status, a milestone, or
\* the CRM stage it brought its conversation to, by a request that nobody
\* overtook.  What every request checks once, when it reads the invoice, is
\* enough as long as requests come one after the other.
PaidStays ==
    [][\A h \in Handlers :
           (status = "PAID" /\ pc'[h] # pc[h] /\ h \notin overtaken) =>
               /\ status' = "PAID" /\ paid \subseteq paid'
               /\ stage = "INVOICE_PAID" => stage' = "INVOICE_PAID"]_vars

\* An invoice has at most as many proofs too many as uploads can overlap with
\* the one that reaches the limit.
FewExtraProofs == proofs <= MaxProofs + Cardinality(Handlers) - 1

=============================================================================
