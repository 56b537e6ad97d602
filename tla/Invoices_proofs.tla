-------------------------- MODULE Invoices_proofs --------------------------
(***************************************************************************)
(* Proofs about Invoices, for any number of requests, milestones, attempts *)
(* and proofs.                                                             *)
(***************************************************************************)
EXTENDS Invoices, FiniteSetTheorems, TLAPS

-----------------------------------------------------------------------------
(* Effects of the shared parts of actions *)

\* A handler that begins knows the status, and nobody has overtaken it.
LEMMA BeginEffect ==
    ASSUME InvoicesAssumption, TypeOK, NEW h \in Handlers, NEW w \in Steps \cup Attempts,
           Begin(h, w)
    PROVE  /\ pc[h] = "idle" /\ h \notin overtaken
           /\ pc' \in [Handlers -> Steps \cup Attempts]
           /\ saw' \in [Handlers -> Statuses]
           /\ pc'[h] = w /\ saw'[h] = status
           /\ \A g \in Handlers \ {h} : pc'[g] = pc[g] /\ saw'[g] = saw[g]
           /\ UNCHANGED <<status, paid, proofs, attempts, stage, overtaken, disturbed>>
BY DEF Begin, Goto, TypeOK, invoice, history

\* A handler that goes on keeps what it remembers.
LEMMA GotoEffect ==
    ASSUME TypeOK, NEW h \in Handlers, NEW w \in Steps, Goto(h, w)
    PROVE  /\ pc' \in [Handlers -> Steps \cup Attempts]
           /\ pc'[h] = w
           /\ \A g \in Handlers \ {h} : pc'[g] = pc[g]
BY DEF Goto, TypeOK

\* A handler that ends is idle, and the others do not notice.
LEMMA EndEffect ==
    ASSUME TypeOK, NEW h \in Handlers, End(h)
    PROVE  /\ pc' \in [Handlers -> Steps \cup Attempts]
           /\ saw' \in [Handlers -> Statuses]
           /\ chosen' \in [Handlers -> SUBSET Milestones]
           /\ pc'[h] = "idle"
           /\ \A g \in Handlers \ {h} :
                 pc'[g] = pc[g] /\ saw'[g] = saw[g] /\ chosen'[g] = chosen[g]
BY DEF End, Goto, Reset, TypeOK, Steps, Statuses

\* Who writes the invoice overtakes everybody else who is at it.
LEMMA OvertakeEffect ==
    ASSUME TypeOK, NEW h \in Handlers, Overtake(h) \/ OvertakeAndEnd(h)
    PROVE  /\ \A g \in Handlers \ {h} : pc[g] # "idle" => g \in overtaken'
           /\ overtaken' \subseteq overtaken \cup {g \in Handlers : pc[g] # "idle"}
           /\ h \in overtaken' => h \in overtaken
           /\ OvertakeAndEnd(h) => h \notin overtaken'
BY DEF Overtake, OvertakeAndEnd, TypeOK

-----------------------------------------------------------------------------
(* What requests know *)

\* As long as nobody has overtaken a request, what it read is still so.
Seen(h) ==
    /\ pc[h] \in {"edit", "delete"} => saw[h] = "DRAFT"
    /\ pc[h] = "send" => saw[h] \in {"DRAFT", "SENT"}
    /\ pc[h] \in {"mark", "tally", "status"} => saw[h] \in {"SENT", "PARTIALLY_PAID"}
    /\ h \notin overtaken =>
           /\ pc[h] \in {"edit", "delete", "send", "mark", "tally", "status"} =>
                  status = saw[h]
           /\ pc[h] = "status" => chosen[h] = paid
           /\ pc[h] = "sync sent" => status # "PAID"

\* Before the draft there is nothing to request, and nothing to pay.
NothingYet ==
    status = "none" =>
        /\ paid = {}
        /\ \A h \in Handlers : pc[h] = "idle"
        /\ \A a \in Attempts : attempts[a] = "none"

SeenInv == TypeOK /\ NothingYet /\ \A h \in Handlers : Seen(h)

LEMMA InitSeenInv == ASSUME InvoicesAssumption, Init PROVE SeenInv
BY DEF InvoicesAssumption, Init, SeenInv, TypeOK, NothingYet, Seen, Steps, Statuses

\* A request that doesn't write the invoice changes what it alone knows.
LEMMA QuietStep ==
    ASSUME SeenInv, NEW h \in Handlers,
           UNCHANGED <<status, paid>>,
           \A g \in Handlers \ {h} :
               pc'[g] = pc[g] /\ saw'[g] = saw[g] /\ chosen'[g] = chosen[g],
           overtaken \ {h} \subseteq overtaken',
           Seen(h)'
    PROVE  \A g \in Handlers : Seen(g)'
<1>1. SUFFICES ASSUME NEW g \in Handlers, g # h PROVE Seen(g)'
  OBVIOUS
<1> QED
  BY <1>1 DEF SeenInv, Seen

\* One that writes it leaves nobody else who could rely on what they know.
LEMMA LoudStep ==
    ASSUME SeenInv, NEW h \in Handlers,
           \A g \in Handlers \ {h} : pc[g] # "idle" => g \in overtaken',
           \A g \in Handlers \ {h} :
               pc'[g] = pc[g] /\ saw'[g] = saw[g] /\ chosen'[g] = chosen[g],
           Seen(h)'
    PROVE  \A g \in Handlers : Seen(g)'
<1>1. SUFFICES ASSUME NEW g \in Handlers, g # h PROVE Seen(g)'
  OBVIOUS
<1> QED
  BY <1>1 DEF SeenInv, Seen

\* A handler that ends knows nothing.
LEMMA LeaveStep ==
    ASSUME SeenInv, NEW h \in Handlers, pc[h] # "idle", Leave(h),
           proofs' \in Nat,
           attempts' \in [Attempts -> {"none", "PENDING", "SUPERSEDED", "PAID"}],
           stage' \in {"other", "INVOICE_SENT", "INVOICE_PAID"}
    PROVE  SeenInv'
<1>1. /\ TypeOK /\ UNCHANGED <<status, paid, disturbed>>
      /\ overtaken' = overtaken \ {h} /\ End(h)
  BY DEF Leave, SeenInv, invoice
<1>2. /\ pc' \in [Handlers -> Steps \cup Attempts] /\ saw' \in [Handlers -> Statuses]
      /\ chosen' \in [Handlers -> SUBSET Milestones] /\ pc'[h] = "idle"
      /\ \A g \in Handlers \ {h} :
            pc'[g] = pc[g] /\ saw'[g] = saw[g] /\ chosen'[g] = chosen[g]
  BY <1>1, EndEffect
<1>3. TypeOK'
  BY <1>1, <1>2 DEF TypeOK
<1>4. Seen(h)'
  BY <1>2 DEF Seen
<1>5. NothingYet'
  BY <1>1 DEF SeenInv, NothingYet
<1> QED
  BY <1>1, <1>2, <1>3, <1>4, <1>5, QuietStep DEF SeenInv

\* One that begins knows the status it has just read.
LEMMA BeginStep ==
    ASSUME InvoicesAssumption, SeenInv, NEW h \in Handlers,
           NEW w \in Steps \cup Attempts, Begin(h, w), status # "none",
           chosen' \in [Handlers -> SUBSET Milestones],
           \A g \in Handlers \ {h} : chosen'[g] = chosen[g],
           w \notin {"tally", "status", "sync sent"},
           w \in {"edit", "delete"} => status = "DRAFT",
           w = "send" => status \in {"DRAFT", "SENT"},
           w = "mark" => status \in {"SENT", "PARTIALLY_PAID"}
    PROVE  SeenInv'
<1>0. TypeOK
  BY DEF SeenInv
<1>1. /\ pc' \in [Handlers -> Steps \cup Attempts]
      /\ saw' \in [Handlers -> Statuses]
      /\ pc[h] = "idle" /\ h \notin overtaken /\ pc'[h] = w /\ saw'[h] = status
      /\ \A g \in Handlers \ {h} : pc'[g] = pc[g] /\ saw'[g] = saw[g]
      /\ UNCHANGED <<status, paid, proofs, attempts, stage, overtaken, disturbed>>
  BY <1>0, BeginEffect
<1>2. TypeOK'
  BY <1>0, <1>1 DEF TypeOK
<1>3. Seen(h)'
  BY <1>1 DEF Seen
<1>4. NothingYet'
  BY <1>1 DEF NothingYet
<1> QED
  BY <1>1, <1>2, <1>3, <1>4, QuietStep DEF SeenInv

\* The two steps that mark milestones before the status is written.
LEMMA MarkStep ==
    ASSUME InvoicesAssumption, SeenInv, NEW h \in Handlers,
           MarkMilestones(h) \/ ReadMilestones(h)
    PROVE  SeenInv'
<1>0. TypeOK /\ Seen(h)
  BY DEF SeenInv
<1>1. CASE MarkMilestones(h)
  <2>1. /\ pc[h] = "mark" /\ UNCHANGED <<status, proofs, attempts, stage, saw, chosen, disturbed>>
        /\ paid' = IF status = "DELETED" THEN paid ELSE paid \cup chosen[h]
        /\ Goto(h, "tally") /\ Overtake(h)
    BY <1>1 DEF MarkMilestones
  <2>2. /\ pc' \in [Handlers -> Steps \cup Attempts] /\ pc'[h] = "tally"
        /\ \A g \in Handlers \ {h} : pc'[g] = pc[g]
    BY <1>0, <2>1, GotoEffect DEF Steps
  <2>3. /\ \A g \in Handlers \ {h} : pc[g] # "idle" => g \in overtaken'
        /\ overtaken' \subseteq overtaken \cup {g \in Handlers : pc[g] # "idle"}
        /\ h \in overtaken <=> h \in overtaken'
    BY <1>0, <2>1 DEF Overtake, TypeOK
  <2>4. TypeOK'
    BY <1>0, <2>1, <2>2, <2>3 DEF TypeOK
  <2>5. Seen(h)'
    BY <1>0, <2>1, <2>2, <2>3 DEF Seen
  <2>6. NothingYet'
    BY <2>1 DEF SeenInv, NothingYet
  <2> QED
    BY <2>1, <2>2, <2>3, <2>4, <2>5, <2>6, LoudStep DEF SeenInv
<1>2. CASE ReadMilestones(h)
  <2>1. /\ pc[h] = "tally" /\ Goto(h, "status")
        /\ UNCHANGED <<status, paid, proofs, attempts, stage, saw, overtaken, disturbed>>
        /\ chosen' = [chosen EXCEPT ![h] = paid]
    BY <1>2 DEF ReadMilestones, invoice, history
  <2>2. /\ pc' \in [Handlers -> Steps \cup Attempts] /\ pc'[h] = "status"
        /\ \A g \in Handlers \ {h} : pc'[g] = pc[g]
    BY <1>0, <2>1, GotoEffect DEF Steps
  <2>3. /\ chosen' \in [Handlers -> SUBSET Milestones] /\ chosen'[h] = paid
        /\ \A g \in Handlers \ {h} : chosen'[g] = chosen[g]
    BY <1>0, <2>1 DEF TypeOK
  <2>4. TypeOK'
    BY <1>0, <2>1, <2>2, <2>3 DEF TypeOK
  <2>5. Seen(h)'
    BY <1>0, <2>1, <2>2, <2>3 DEF Seen
  <2>6. NothingYet'
    BY <2>1 DEF SeenInv, NothingYet
  <2> QED
    BY <2>1, <2>2, <2>3, <2>4, <2>5, <2>6, QuietStep DEF SeenInv
<1> QED
  BY <1>1, <1>2

\* A status that follows from milestones is one of three.
LEMMA DerivedStatus ==
    ASSUME NEW ms
    PROVE  deriveInvoiceStatus(ms) \in {"SENT", "PARTIALLY_PAID", "PAID"}
BY DEF deriveInvoiceStatus

\* Those that write the status and go on to a step that needs no more than that.
LEMMA WriteStep ==
    ASSUME InvoicesAssumption, SeenInv, NEW h \in Handlers,
           pc[h] # "idle", status' \in Statuses \ {"none"}, paid' \subseteq Milestones,
           attempts' \in [Attempts -> {"none", "PENDING", "SUPERSEDED", "PAID"}],
           disturbed' \in BOOLEAN,
           NEW w \in {"sync sent", "sync paid", "fetch"}, Goto(h, w), Overtake(h),
           h \notin overtaken /\ w = "sync sent" => status' # "PAID",
           UNCHANGED <<proofs, stage, saw, chosen>>
    PROVE  SeenInv'
<1>0. TypeOK
  BY DEF SeenInv
<1>1. /\ pc' \in [Handlers -> Steps \cup Attempts] /\ pc'[h] = w
      /\ \A g \in Handlers \ {h} : pc'[g] = pc[g]
  BY <1>0, GotoEffect DEF Steps
<1>2. /\ \A g \in Handlers \ {h} : pc[g] # "idle" => g \in overtaken'
      /\ overtaken' \subseteq overtaken \cup {g \in Handlers : pc[g] # "idle"}
      /\ h \in overtaken <=> h \in overtaken'
  BY <1>0 DEF Overtake, TypeOK
<1>3. TypeOK'
  BY <1>0, <1>1, <1>2 DEF TypeOK
<1>4. Seen(h)'
  BY <1>1, <1>2 DEF Seen
<1>5. NothingYet'
  BY DEF NothingYet
<1> QED
  BY <1>1, <1>2, <1>3, <1>4, <1>5, LoudStep DEF SeenInv

\* Those that write the invoice and end.
LEMMA WriteAndEndStep ==
    ASSUME InvoicesAssumption, SeenInv, NEW h \in Handlers,
           pc[h] # "idle", status' \in Statuses \ {"none"}, paid' \subseteq Milestones,
           proofs' \in Nat, disturbed' \in BOOLEAN, OvertakeAndEnd(h), End(h),
           UNCHANGED <<attempts, stage>>
    PROVE  SeenInv'
<1>0. TypeOK
  BY DEF SeenInv
<1>1. /\ pc' \in [Handlers -> Steps \cup Attempts] /\ saw' \in [Handlers -> Statuses]
      /\ chosen' \in [Handlers -> SUBSET Milestones] /\ pc'[h] = "idle"
      /\ \A g \in Handlers \ {h} :
            pc'[g] = pc[g] /\ saw'[g] = saw[g] /\ chosen'[g] = chosen[g]
  BY <1>0, EndEffect
<1>2. /\ \A g \in Handlers \ {h} : pc[g] # "idle" => g \in overtaken'
      /\ overtaken' \subseteq overtaken \cup {g \in Handlers : pc[g] # "idle"}
      /\ h \notin overtaken'
  BY <1>0, OvertakeEffect
<1>3. TypeOK'
  BY <1>0, <1>1, <1>2 DEF TypeOK
<1>4. Seen(h)'
  BY <1>1 DEF Seen
<1>5. NothingYet'
  BY DEF NothingYet
<1> QED
  BY <1>1, <1>2, <1>3, <1>4, <1>5, LoudStep DEF SeenInv

LEMMA NextSeenInv == ASSUME InvoicesAssumption, SeenInv, [Next]_vars PROVE SeenInv'
<1>0. TypeOK /\ NothingYet /\ \A h \in Handlers : Seen(h)
  BY DEF SeenInv
<1> USE <1>0
<1>1. CASE UNCHANGED vars
  BY <1>1 DEF vars, invoice, history, SeenInv, TypeOK, NothingYet, Seen
<1>2. CASE CreateDraft
  BY <1>2 DEF CreateDraft, history, SeenInv, TypeOK, NothingYet, Seen, Statuses
<1>3. ASSUME NEW h \in Handlers, Edits(h)
      PROVE  SeenInv'
  <2>1. CASE BeginEdit(h) \/ BeginDelete(h)
    BY <2>1, BeginStep DEF BeginEdit, BeginDelete, Steps, TypeOK
  <2>2. CASE CommitEdit(h) /\ status = "DELETED"
    BY <2>2, LeaveStep DEF CommitEdit, TypeOK
  <2>3. CASE CommitEdit(h) /\ status # "DELETED"
    <3>1. status # "none" /\ pc[h] # "idle"
      BY <2>3 DEF CommitEdit, NothingYet
    <3> QED
      BY <2>3, <3>1, WriteAndEndStep DEF CommitEdit, TypeOK
  <2>4. CASE CommitDelete(h)
    <3>1. pc[h] = "delete" /\ UNCHANGED <<attempts, stage>>
      BY <2>4 DEF CommitDelete
    <3>2. CASE Leave(h) /\ UNCHANGED proofs
      BY <3>1, <3>2, LeaveStep DEF TypeOK
    <3>3. CASE /\ status' = "DELETED" /\ paid' = {} /\ proofs' = 0
               /\ disturbed' = (disturbed \/ h \in overtaken)
               /\ OvertakeAndEnd(h) /\ End(h)
      BY <3>1, <3>3, WriteAndEndStep DEF TypeOK, Statuses
    <3> QED
      BY <2>4, <3>2, <3>3 DEF CommitDelete
  <2> QED
    BY <1>3, <2>1, <2>2, <2>3, <2>4 DEF Edits
<1>4. ASSUME NEW h \in Handlers, Sends(h)
      PROVE  SeenInv'
  <2>1. CASE BeginSend(h)
    BY <2>1, BeginStep DEF BeginSend, Steps, TypeOK
  <2>2. CASE (WriteSent(h) /\ status = "DELETED") \/ SyncStage(h)
    BY <2>2, LeaveStep DEF WriteSent, SyncStage, TypeOK
  <2>3. CASE WriteSent(h) /\ status # "DELETED"
    <3>1. pc[h] = "send" /\ saw[h] \in {"DRAFT", "SENT"} /\ status' = "SENT"
      BY <2>3 DEF WriteSent, Seen
    <3> QED
      BY <2>3, <3>1, WriteStep DEF WriteSent, TypeOK, Statuses
  <2> QED
    BY <1>4, <2>1, <2>2, <2>3 DEF Sends
<1>5. ASSUME NEW h \in Handlers, Marks(h)
      PROVE  SeenInv'
  <2>1. ASSUME NEW ms \in SUBSET Milestones, NEW role, BeginMark(h, ms, role)
        PROVE  SeenInv'
    BY <2>1, BeginStep DEF BeginMark, Steps, TypeOK
  <2>2. CASE MarkMilestones(h) \/ ReadMilestones(h)
    BY <2>2, MarkStep
  <2>3. CASE WriteStatus(h) /\ status = "DELETED"
    BY <2>3, LeaveStep DEF WriteStatus, TypeOK
  <2>4. CASE WriteStatus(h) /\ status # "DELETED"
    <3>1. status' \in Statuses \ {"none"}
      BY <2>4, DerivedStatus DEF WriteStatus, Statuses
    <3> QED
      BY <2>4, <3>1, WriteStep DEF WriteStatus, TypeOK
  <2>5. CASE Fetch(h) /\ status \in Gone \cup {"DRAFT"}
    BY <2>5, LeaveStep DEF Fetch, TypeOK
  <2>6. CASE Fetch(h) /\ status \notin Gone \cup {"DRAFT"}
    <3>1. PICK w \in {"sync sent", "sync paid"} :
              Goto(h, w) /\ (w = "sync sent" => status # "PAID")
      BY <2>6 DEF Fetch
    <3>2. /\ pc[h] = "fetch"
          /\ UNCHANGED <<status, paid, proofs, attempts, stage, saw, chosen, overtaken,
                         disturbed>>
      BY <2>6 DEF Fetch, invoice, history
    <3>3. /\ pc' \in [Handlers -> Steps \cup Attempts] /\ pc'[h] = w
          /\ \A g \in Handlers \ {h} : pc'[g] = pc[g]
      BY <3>1, GotoEffect DEF Steps
    <3>4. TypeOK'
      BY <3>2, <3>3 DEF TypeOK
    <3>5. Seen(h)'
      BY <3>1, <3>2, <3>3 DEF Seen
    <3>6. NothingYet'
      BY <3>2 DEF NothingYet
    <3> QED
      BY <3>2, <3>3, <3>4, <3>5, <3>6, QuietStep DEF SeenInv
  <2> QED
    BY <1>5, <2>1, <2>2, <2>3, <2>4, <2>5, <2>6 DEF Marks
<1>6. ASSUME NEW h \in Handlers, Pays(h)
      PROVE  SeenInv'
  <2>1. CASE BeginAttempt(h)
    BY <2>1, BeginStep DEF BeginAttempt, Gone, Steps, TypeOK
  <2>2. ASSUME NEW a \in Attempts, CreateAttempt(h, a)
        PROVE  SeenInv'
    <3>1. attempts' \in [Attempts -> {"none", "PENDING", "SUPERSEDED", "PAID"}]
      BY <2>2 DEF CreateAttempt, TypeOK
    <3> QED
      BY <2>2, <3>1, LeaveStep DEF CreateAttempt, TypeOK
  <2>3. ASSUME NEW a \in Attempts, BeginSettle(h, a)
        PROVE  SeenInv'
    <3>1. status # "none" /\ a \notin Steps
      BY <2>3 DEF BeginSettle, NothingYet, InvoicesAssumption
    <3> QED
      BY <2>3, <3>1, BeginStep DEF BeginSettle, Steps, TypeOK
  <2>4. CASE Settle(h)
    <3>1. pc[h] # "idle" /\ attempts' \in [Attempts -> {"none", "PENDING", "SUPERSEDED", "PAID"}]
      BY <2>4 DEF Settle, TypeOK, InvoicesAssumption, Steps
    <3> QED
      BY <2>4, <3>1, WriteStep DEF Settle, TypeOK, Statuses
  <2> QED
    BY <1>6, <2>1, <2>2, <2>3, <2>4 DEF Pays
<1>7. ASSUME NEW h \in Handlers, Proofs(h)
      PROVE  SeenInv'
  <2>1. CASE BeginProof(h) \/ BeginCleanup(h)
    BY <2>1, BeginStep DEF BeginProof, BeginCleanup, Gone, Steps, TypeOK
  <2>2. CASE CreateProof(h) \/ Cleanup(h)
    BY <2>2, LeaveStep DEF CreateProof, Cleanup, TypeOK
  <2> QED
    BY <1>7, <2>1, <2>2 DEF Proofs
<1>8. ASSUME NEW h \in Handlers, Abort(h)
      PROVE  SeenInv'
  <2>1. /\ pc[h] # "idle" /\ End(h) /\ overtaken' = overtaken \ {h}
        /\ disturbed' \in BOOLEAN /\ UNCHANGED <<status, paid, proofs, attempts, stage>>
    BY <1>8 DEF Abort, TypeOK, invoice
  <2>2. /\ pc' \in [Handlers -> Steps \cup Attempts] /\ saw' \in [Handlers -> Statuses]
        /\ chosen' \in [Handlers -> SUBSET Milestones] /\ pc'[h] = "idle"
        /\ \A g \in Handlers \ {h} :
              pc'[g] = pc[g] /\ saw'[g] = saw[g] /\ chosen'[g] = chosen[g]
    BY <2>1, EndEffect
  <2>3. TypeOK'
    BY <2>1, <2>2 DEF TypeOK
  <2>4. Seen(h)' /\ NothingYet'
    BY <2>1, <2>2 DEF Seen, NothingYet
  <2> QED
    BY <2>1, <2>2, <2>3, <2>4, QuietStep DEF SeenInv
<1> QED
  BY <1>1, <1>2, <1>3, <1>4, <1>5, <1>6, <1>7, <1>8 DEF Next

\* The types of Invoices hold, as the schema's enumerations promise.
THEOREM InvoiceTypeCorrect == ASSUME InvoicesAssumption PROVE Spec => []TypeOK
<1>1. Init => SeenInv
  BY InitSeenInv
<1>2. SeenInv /\ [Next]_vars => SeenInv'
  BY NextSeenInv
<1>3. SeenInv => TypeOK
  BY DEF SeenInv
<1> QED
  BY <1>1, <1>2, <1>3, PTL DEF Spec

-----------------------------------------------------------------------------
(* The status and the milestones *)

\* A request is between the two of its writes.
Marking == \E h \in Handlers : pc[h] \in {"tally", "status"}

\* The status says which milestones are paid.
Told ==
    /\ status = "PAID" => paid = Milestones
    /\ status = "PARTIALLY_PAID" => paid \notin {{}, Milestones}
    /\ status \in {"DRAFT", "SENT"} => paid = {}

\* Who isn't between its two writes leaves those that are where they are.
LEMMA MarkingStays ==
    ASSUME SeenInv, SeenInv', NEW h \in Handlers, Marking,
           pc[h] \notin {"tally", "status"},
           \A g \in Handlers \ {h} : pc'[g] = pc[g]
    PROVE  Marking'
BY DEF Marking

\* A step that writes neither and starts or ends no marking keeps the bargain.
LEMMA UntouchedStep ==
    ASSUME SeenInv, SeenInv', StatusTellsMilestones, NEW h \in Handlers,
           UNCHANGED <<status, paid, disturbed>>,
           status = "DELETED" \/ pc[h] \notin {"tally", "status"},
           \A g \in Handlers \ {h} : pc'[g] = pc[g]
    PROVE  StatusTellsMilestones'
<1>1. CASE status = "DELETED"
  BY <1>1 DEF StatusTellsMilestones
<1>2. CASE pc[h] \notin {"tally", "status"} /\ Marking
  BY <1>2, MarkingStays DEF StatusTellsMilestones, Marking
<1>3. CASE ~ Marking
  BY <1>3 DEF StatusTellsMilestones, Marking
<1> QED
  BY <1>1, <1>2, <1>3

LEMMA NextTells ==
    ASSUME InvoicesAssumption, SeenInv, SeenInv', StatusTellsMilestones, [Next]_vars
    PROVE  StatusTellsMilestones'
<1>0. /\ TypeOK /\ NothingYet /\ TypeOK'
      /\ \A h \in Handlers : Seen(h)
      /\ StatusTellsMilestones <=> disturbed \/ Marking \/ Told
      /\ Told' => StatusTellsMilestones'
      /\ Marking' => StatusTellsMilestones'
      /\ disturbed' => StatusTellsMilestones'
  BY DEF SeenInv, StatusTellsMilestones, Told, Marking
<1>1. CASE UNCHANGED vars
  BY <1>1 DEF vars, invoice, history, StatusTellsMilestones
<1>2. CASE CreateDraft
  BY <1>0, <1>2 DEF CreateDraft, NothingYet, Told
\* Requests that read the invoice, or end without having written it.
<1>3. ASSUME NEW h \in Handlers, NEW w \in Steps \cup Attempts, Begin(h, w)
      PROVE  StatusTellsMilestones'
  <2>1. /\ UNCHANGED <<status, paid, disturbed>> /\ pc[h] = "idle"
        /\ \A g \in Handlers \ {h} : pc'[g] = pc[g]
    BY <1>0, <1>3, BeginEffect
  <2> QED
    BY <2>1, UntouchedStep
<1>4. ASSUME NEW h \in Handlers, Leave(h),
             status = "DELETED" \/ pc[h] \notin {"tally", "status"}
      PROVE  StatusTellsMilestones'
  <2>1. /\ UNCHANGED <<status, paid, disturbed>>
        /\ \A g \in Handlers \ {h} : pc'[g] = pc[g]
    BY <1>0, <1>4, EndEffect DEF Leave, invoice
  <2> QED
    BY <1>4, <2>1, UntouchedStep
<1>5. ASSUME NEW h \in Handlers, Edits(h)
      PROVE  StatusTellsMilestones'
  <2>1. CASE BeginEdit(h) \/ BeginDelete(h)
    BY <1>3, <2>1 DEF BeginEdit, BeginDelete, Steps
  <2>2. CASE CommitEdit(h)
    <3>1. CASE Leave(h)
      BY <1>4, <2>2, <3>1 DEF CommitEdit
    <3>2. CASE h \notin overtaken /\ paid' = {} /\ UNCHANGED status
      BY <1>0, <2>2, <3>2 DEF CommitEdit, Seen, Told
    <3>3. CASE h \in overtaken /\ disturbed' = (disturbed \/ h \in overtaken)
      BY <1>0, <3>3
    <3> QED
      BY <2>2, <3>1, <3>2, <3>3 DEF CommitEdit
  <2>3. CASE CommitDelete(h)
    <3>1. CASE Leave(h)
      BY <1>4, <2>3, <3>1 DEF CommitDelete
    <3>2. CASE status' = "DELETED"
      BY <1>0, <3>2 DEF Told
    <3> QED
      BY <2>3, <3>1, <3>2 DEF CommitDelete
  <2> QED
    BY <1>5, <2>1, <2>2, <2>3 DEF Edits
<1>6. ASSUME NEW h \in Handlers, Sends(h)
      PROVE  StatusTellsMilestones'
  <2>1. CASE BeginSend(h)
    BY <1>3, <2>1 DEF BeginSend, Steps
  <2>2. CASE (WriteSent(h) /\ status = "DELETED") \/ SyncStage(h)
    BY <1>4, <2>2 DEF WriteSent, SyncStage
  <2>3. CASE WriteSent(h) /\ status # "DELETED"
    <3>1. /\ pc[h] = "send" /\ UNCHANGED paid
          /\ disturbed' = (disturbed \/ h \in overtaken) /\ Goto(h, "sync sent")
          /\ status' = IF saw[h] = "DRAFT" THEN "SENT" ELSE saw[h]
      BY <2>3 DEF WriteSent
    <3>2. \A g \in Handlers \ {h} : pc'[g] = pc[g]
      BY <1>0, <3>1, GotoEffect DEF Steps
    <3>3. CASE disturbed \/ h \in overtaken
      BY <1>0, <3>1, <3>3
    <3>4. CASE Marking
      BY <1>0, <3>1, <3>2, <3>4, MarkingStays
    <3>5. CASE Told /\ h \notin overtaken
      BY <1>0, <3>1, <3>5 DEF Told, Seen
    <3> QED
      BY <1>0, <3>3, <3>4, <3>5
  <2> QED
    BY <1>6, <2>1, <2>2, <2>3 DEF Sends
<1>7. ASSUME NEW h \in Handlers, Marks(h)
      PROVE  StatusTellsMilestones'
  <2>1. ASSUME NEW ms, NEW role, BeginMark(h, ms, role)
        PROVE  StatusTellsMilestones'
    BY <1>3, <2>1 DEF BeginMark, Steps
  <2>2. CASE MarkMilestones(h) \/ ReadMilestones(h)
    <3>1. pc'[h] \in {"tally", "status"}
      BY <1>0, <2>2, GotoEffect DEF MarkMilestones, ReadMilestones, Steps
    <3> QED
      BY <1>0, <3>1 DEF Marking
  <2>3. CASE WriteStatus(h) /\ status = "DELETED"
    BY <1>4, <2>3 DEF WriteStatus
  <2>4. CASE WriteStatus(h) /\ status # "DELETED"
    <3>1. /\ pc[h] = "status" /\ UNCHANGED paid
          /\ disturbed' = (disturbed \/ h \in overtaken)
          /\ status' = deriveInvoiceStatus(chosen[h])
      BY <2>4 DEF WriteStatus
    <3>2. CASE h \in overtaken
      BY <1>0, <3>1, <3>2
    <3>3. CASE h \notin overtaken
      BY <1>0, <3>1, <3>3 DEF Seen, Told, deriveInvoiceStatus
    <3> QED
      BY <3>2, <3>3
  <2>5. CASE Fetch(h) /\ Leave(h)
    BY <1>4, <2>5 DEF Fetch
  <2>6. CASE Fetch(h) /\ ~ Leave(h)
    <3>1. PICK w \in {"sync sent", "sync paid"} : Goto(h, w)
      BY <2>6 DEF Fetch
    <3>2. \A g \in Handlers \ {h} : pc'[g] = pc[g]
      BY <1>0, <3>1, GotoEffect DEF Steps
    <3> QED
      BY <2>6, <3>2, UntouchedStep DEF Fetch, invoice, history
  <2> QED
    BY <1>7, <2>1, <2>2, <2>3, <2>4, <2>5, <2>6 DEF Marks
<1>8. ASSUME NEW h \in Handlers, Pays(h)
      PROVE  StatusTellsMilestones'
  <2>1. CASE BeginAttempt(h) \/ \E a \in Attempts : BeginSettle(h, a)
    BY <1>3, <2>1 DEF BeginAttempt, BeginSettle, Steps
  <2>2. ASSUME NEW a \in Attempts, CreateAttempt(h, a)
        PROVE  StatusTellsMilestones'
    BY <1>4, <2>2 DEF CreateAttempt
  <2>3. CASE Settle(h)
    BY <1>0, <2>3 DEF Settle, Told
  <2> QED
    BY <1>8, <2>1, <2>2, <2>3 DEF Pays
<1>9. ASSUME NEW h \in Handlers, Proofs(h)
      PROVE  StatusTellsMilestones'
  <2>1. CASE BeginProof(h) \/ BeginCleanup(h)
    BY <1>3, <2>1 DEF BeginProof, BeginCleanup, Steps
  <2>2. CASE CreateProof(h) \/ Cleanup(h)
    BY <1>4, <2>2 DEF CreateProof, Cleanup
  <2> QED
    BY <1>9, <2>1, <2>2 DEF Proofs
<1>10. ASSUME NEW h \in Handlers, Abort(h)
       PROVE  StatusTellsMilestones'
  <2>1. /\ UNCHANGED <<status, paid>> /\ End(h)
        /\ disturbed' = (disturbed \/ pc[h] \in {"tally", "status"})
    BY <1>10 DEF Abort, invoice
  <2>2. CASE pc[h] \in {"tally", "status"}
    BY <1>0, <2>1, <2>2
  <2>3. CASE pc[h] \notin {"tally", "status"}
    <3>1. \A g \in Handlers \ {h} : pc'[g] = pc[g]
      BY <1>0, <2>1, EndEffect
    <3>2. disturbed' = disturbed
      BY <1>0, <2>1, <2>3 DEF TypeOK
    <3> QED
      BY <2>1, <2>3, <3>1, <3>2, UntouchedStep
  <2> QED
    BY <2>2, <2>3
<1> QED
  BY <1>1, <1>2, <1>5, <1>6, <1>7, <1>8, <1>9, <1>10 DEF Next

\* markMilestonesPaid and updateInvoiceStatusAndFetch are apart, and so are
\* sending and WriteSent: for any number of requests the status nevertheless
\* says which milestones are paid, unless one wrote what had changed under it or
\* died between the two.
THEOREM StatusTells == ASSUME InvoicesAssumption PROVE Spec => []StatusTellsMilestones
<1>1. Init => SeenInv /\ StatusTellsMilestones
  BY InitSeenInv DEF Init, StatusTellsMilestones
<1>2. SeenInv /\ StatusTellsMilestones /\ [Next]_vars => SeenInv' /\ StatusTellsMilestones'
  BY NextSeenInv, NextTells
<1> QED
  BY <1>1, <1>2, PTL DEF Spec

-----------------------------------------------------------------------------
(* A paid invoice *)

\* What a request does to a paid invoice that nobody else has touched since it
\* read it.
LEMMA NextPaidStays ==
    ASSUME InvoicesAssumption, SeenInv, [Next]_vars,
           NEW h \in Handlers, status = "PAID", pc'[h] # pc[h], h \notin overtaken
    PROVE  /\ status' = "PAID" /\ paid \subseteq paid'
           /\ stage = "INVOICE_PAID" => stage' = "INVOICE_PAID"
<1>0. TypeOK /\ Seen(h)
  BY DEF SeenInv
<1>1. ASSUME NEW g \in Handlers, g # h,
             Edits(g) \/ Sends(g) \/ Marks(g) \/ Pays(g) \/ Proofs(g) \/ Abort(g)
      PROVE  FALSE
  <2>1. ASSUME NEW w, Goto(g, w) PROVE FALSE
    BY <1>0, <1>1, <2>1 DEF Goto, TypeOK
  <2>2. ASSUME NEW w, Begin(g, w) PROVE FALSE
    BY <2>1, <2>2 DEF Begin
  <2>3. End(g) => FALSE
    BY <2>1 DEF End
  <2>4. Leave(g) => FALSE
    BY <2>3 DEF Leave
  <2>5. CASE Edits(g) \/ Sends(g)
    BY <2>1, <2>2, <2>3, <2>4, <2>5 DEF Edits, Sends, BeginEdit, CommitEdit, BeginDelete,
           CommitDelete, BeginSend, WriteSent, SyncStage
  <2>6. CASE Marks(g) \/ Abort(g)
    BY <2>1, <2>2, <2>3, <2>4, <2>6 DEF Marks, Abort, BeginMark, MarkMilestones,
           ReadMilestones, WriteStatus, Fetch
  <2>7. CASE Pays(g) \/ Proofs(g)
    BY <2>1, <2>2, <2>4, <2>7 DEF Pays, Proofs, BeginAttempt, CreateAttempt, BeginSettle,
           Settle, BeginProof, CreateProof, BeginCleanup, Cleanup
  <2> QED
    BY <1>1, <2>5, <2>6, <2>7
<1>2. CASE Edits(h) \/ Proofs(h) \/ Abort(h)
  BY <1>0, <1>2 DEF Edits, Proofs, BeginEdit, CommitEdit, BeginDelete, CommitDelete,
         BeginProof, CreateProof, BeginCleanup, Cleanup, Abort, Begin, Leave, Seen, invoice
<1>3. CASE Sends(h)
  BY <1>0, <1>3 DEF Sends, BeginSend, WriteSent, SyncStage, Begin, Leave, Seen, invoice
<1>4. CASE Marks(h)
  BY <1>0, <1>4 DEF Marks, BeginMark, MarkMilestones, ReadMilestones, WriteStatus, Fetch,
         Begin, Leave, Seen, invoice
<1>5. CASE Pays(h)
  BY <1>0, <1>5 DEF Pays, BeginAttempt, CreateAttempt, BeginSettle, Settle, Begin, Leave,
         TypeOK, invoice
<1> QED
  BY <1>0, <1>1, <1>2, <1>3, <1>4, <1>5 DEF Next, CreateDraft, vars

\* Each guard is looked at once, when a request reads the invoice: for any
\* number of requests that suffices to keep what is paid, as long as no other
\* request writes in between.
THEOREM PaidForGood == ASSUME InvoicesAssumption PROVE Spec => PaidStays
<1>1. Init => SeenInv
  BY InitSeenInv
<1>2. SeenInv /\ [Next]_vars => SeenInv'
  BY NextSeenInv
<1>3. SeenInv /\ [Next]_vars =>
          [\A h \in Handlers :
               (status = "PAID" /\ pc'[h] # pc[h] /\ h \notin overtaken) =>
                   /\ status' = "PAID" /\ paid \subseteq paid'
                   /\ stage = "INVOICE_PAID" => stage' = "INVOICE_PAID"]_vars
  BY NextPaidStays
<1> QED
  BY <1>1, <1>2, <1>3, PTL DEF Spec, PaidStays

-----------------------------------------------------------------------------
(* The limit of proofs *)

Uploaders == {h \in Handlers : pc[h] = "proof"}

\* Every upload in progress counts as the proof it will create.
LimitInv == proofs + Cardinality(Uploaders) <= MaxProofs + Cardinality(Handlers) - 1

LEMMA UploadersFinite ==
    ASSUME InvoicesAssumption
    PROVE  /\ IsFiniteSet(Handlers) /\ Cardinality(Handlers) \in Nat
           /\ IsFiniteSet(Uploaders) /\ Cardinality(Uploaders) \in Nat
           /\ Cardinality(Uploaders) <= Cardinality(Handlers)
<1>1. IsFiniteSet(Handlers) /\ Uploaders \subseteq Handlers
  BY DEF InvoicesAssumption, Uploaders
<1> QED
  BY <1>1, FS_Subset, FS_CardinalityType

\* A step of other requests neither adds a proof nor starts an upload.
LEMMA NoNewUpload ==
    ASSUME InvoicesAssumption, TypeOK, [Next]_vars,
           \A h \in Handlers : ~ BeginProof(h) /\ ~ CreateProof(h)
    PROVE  /\ proofs' \in Nat /\ proofs' <= proofs
           /\ Uploaders' \subseteq Uploaders
<1>1. CASE UNCHANGED vars \/ CreateDraft
  BY <1>1 DEF CreateDraft, vars, TypeOK, Uploaders
<1>2. ASSUME NEW h \in Handlers, pc' = [pc EXCEPT ![h] = pc'[h]], pc'[h] # "proof",
             proofs' \in {proofs, 0}
      PROVE  /\ proofs' \in Nat /\ proofs' <= proofs
             /\ Uploaders' \subseteq Uploaders
  BY <1>2 DEF TypeOK, Uploaders
<1>3. ASSUME NEW h \in Handlers, NEW w \in Steps \cup Attempts, w # "proof", Goto(h, w)
      PROVE  pc' = [pc EXCEPT ![h] = pc'[h]] /\ pc'[h] # "proof"
  BY <1>3 DEF Goto, TypeOK
<1>4. ASSUME NEW h \in Handlers, Edits(h) \/ Sends(h)
      PROVE  /\ pc' = [pc EXCEPT ![h] = pc'[h]] /\ pc'[h] # "proof"
             /\ proofs' \in {proofs, 0}
  BY <1>3, <1>4 DEF Edits, Sends, BeginEdit, CommitEdit, BeginDelete, CommitDelete,
         BeginSend, WriteSent, SyncStage, Begin, Leave, End, Steps
<1>5. ASSUME NEW h \in Handlers, Marks(h) \/ Abort(h)
      PROVE  /\ pc' = [pc EXCEPT ![h] = pc'[h]] /\ pc'[h] # "proof"
             /\ proofs' \in {proofs, 0}
  BY <1>3, <1>5 DEF Marks, Abort, BeginMark, MarkMilestones, ReadMilestones, WriteStatus,
         Fetch, Begin, Leave, End, Steps
<1>6. ASSUME NEW h \in Handlers, Pays(h) \/ BeginCleanup(h) \/ Cleanup(h)
      PROVE  /\ pc' = [pc EXCEPT ![h] = pc'[h]] /\ pc'[h] # "proof"
             /\ proofs' \in {proofs, 0}
  BY <1>3, <1>6 DEF Pays, BeginAttempt, CreateAttempt, BeginSettle, Settle, BeginCleanup,
         Cleanup, Begin, Leave, End, Steps, InvoicesAssumption
<1> QED
  BY <1>1, <1>2, <1>4, <1>5, <1>6 DEF Next, Proofs

LEMMA NextLimitInv ==
    ASSUME InvoicesAssumption, TypeOK, LimitInv, [Next]_vars
    PROVE  LimitInv'
<1>0. /\ proofs \in Nat /\ MaxProofs \in Nat
      /\ IsFiniteSet(Uploaders) /\ Cardinality(Uploaders) \in Nat
      /\ Cardinality(Handlers) \in Nat
      /\ proofs + Cardinality(Uploaders) <= MaxProofs + Cardinality(Handlers) - 1
  BY UploadersFinite DEF InvoicesAssumption, TypeOK, LimitInv
<1>1. Cardinality(Uploaders') \in Nat /\ Cardinality(Uploaders') <= Cardinality(Handlers)
  <2>1. IsFiniteSet(Handlers) /\ Uploaders' \subseteq Handlers
    BY DEF InvoicesAssumption, Uploaders
  <2> QED
    BY <2>1, FS_Subset, FS_CardinalityType
\* The limit wasn't reached when this one looked, and all may upload.
<1>2. ASSUME NEW h \in Handlers, BeginProof(h)
      PROVE  LimitInv'
  <2>1. proofs < MaxProofs /\ proofs' = proofs
    BY <1>2 DEF BeginProof, Begin
  <2> QED
    BY <1>0, <1>1, <2>1 DEF LimitInv
\* One upload fewer, and one proof more.
<1>3. ASSUME NEW h \in Handlers, CreateProof(h)
      PROVE  LimitInv'
  <2>1. h \in Uploaders /\ proofs' \in {proofs, proofs + 1}
    BY <1>3 DEF CreateProof, Uploaders
  <2>2. Uploaders' \subseteq Uploaders \ {h}
    BY <1>3, EndEffect DEF CreateProof, Leave, Uploaders
  <2>3. /\ IsFiniteSet(Uploaders \ {h})
        /\ Cardinality(Uploaders \ {h}) = Cardinality(Uploaders) - 1
    BY <1>0, <2>1, FS_RemoveElement
  <2>4. Cardinality(Uploaders') <= Cardinality(Uploaders) - 1
    BY <2>2, <2>3, FS_Subset
  <2> QED
    BY <1>0, <1>1, <2>1, <2>4 DEF LimitInv
<1>4. CASE \A h \in Handlers : ~ BeginProof(h) /\ ~ CreateProof(h)
  <2>1. proofs' \in Nat /\ proofs' <= proofs /\ Uploaders' \subseteq Uploaders
    BY <1>4, NoNewUpload
  <2>2. Cardinality(Uploaders') <= Cardinality(Uploaders)
    BY <1>0, <2>1, FS_Subset
  <2> QED
    BY <1>0, <1>1, <2>1, <2>2 DEF LimitInv
<1> QED
  BY <1>2, <1>3, <1>4

\* The limit is a count before an upload and a create, and nothing enforces it:
\* for any number of requests an invoice nevertheless has fewer proofs too many
\* than there are requests.
THEOREM FewProofs == ASSUME InvoicesAssumption PROVE Spec => []FewExtraProofs
<1>1. Init => SeenInv /\ LimitInv
  <2>1. SUFFICES ASSUME Init PROVE LimitInv
    BY InitSeenInv
  <2>2. proofs = 0 /\ Uploaders = {}
    BY <2>1 DEF Init, Uploaders
  <2>3. Cardinality(Handlers) \in Nat /\ Cardinality(Handlers) # 0
    BY UploadersFinite, FS_EmptySet DEF InvoicesAssumption
  <2>4. Cardinality(Uploaders) = 0
    BY <2>2, FS_EmptySet
  <2> QED
    BY <2>2, <2>3, <2>4 DEF LimitInv, InvoicesAssumption
<1>2. SeenInv /\ LimitInv /\ [Next]_vars => SeenInv' /\ LimitInv'
  BY NextSeenInv, NextLimitInv DEF SeenInv
<1>3. SeenInv /\ LimitInv => FewExtraProofs
  BY UploadersFinite DEF SeenInv, TypeOK, LimitInv, FewExtraProofs, InvoicesAssumption
<1> QED
  BY <1>1, <1>2, <1>3, PTL DEF Spec

=============================================================================
