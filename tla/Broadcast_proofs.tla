-------------------------- MODULE Broadcast_proofs --------------------------
(***************************************************************************)
(* Proofs about Broadcast, for any number of workers, requests and         *)
(* conversations, any batch size and any bounds of the clock.              *)
(***************************************************************************)
EXTENDS Broadcast, FiniteSetTheorems, TLAPS

-----------------------------------------------------------------------------
(* Lemmas about the operators *)

\* A recipient becomes due at an interval of the clock.
LEMMA DueAtTyped ==
    ASSUME BroadcastAssumption, NEW start \in Nat, NEW index \in Nat
    PROVE  DueAt(start, index) \in Nat
<1>1. BatchSize \in Nat /\ BatchSize > 0
  BY DEF BroadcastAssumption
<1>2. index \div BatchSize \in Nat
  BY <1>1
<1> QED
  BY <1>2 DEF DueAt

\* The order of an audience gives each of its members an index.
LEMMA OrdersTyped ==
    ASSUME BroadcastAssumption, NEW audience \in SUBSET Conversations,
           NEW order \in Orders(audience), NEW c \in audience
    PROVE  order[c] \in Nat
<1>1. Cardinality(audience) \in Nat
  BY FS_Subset, FS_CardinalityType DEF BroadcastAssumption
<1>2. order[c] \in 0 .. (Cardinality(audience) - 1)
  BY DEF Orders
<1> QED
  BY <1>1, <1>2

-----------------------------------------------------------------------------
(* Type correctness *)

\* Past the claim a worker has a recipient in hand.
InHand == {"claimed", "record", "fail", "finalize", "complete", "log"}

HandsOK == \A w \in Workers : pc[w] \in InHand => at[w] \in Conversations

TypeInv == TypeOK /\ HandsOK

LEMMA InitTypeInv == ASSUME BroadcastAssumption, Init PROVE TypeInv
BY DEF BroadcastAssumption, Init, TypeInv, TypeOK, HandsOK, InHand, Actors, WorkerPC,
       RequestPC, RecipientStatus

\* What the requests, the clock and the lock leave of TypeInv to show.
LEMMA RequestTypeInv ==
    ASSUME BroadcastAssumption, TypeInv, NEW r \in Requests, RequestStep(r)
    PROVE  TypeInv'
<1> USE DEF TypeInv, TypeOK, HandsOK
<1>0. r \in Actors /\ r \notin Workers /\ clock \in Nat /\ LaunchUntil \in Nat
  BY DEF Actors, BroadcastAssumption
<1>1. CASE BeginLaunch(r)
  <2>1. PICK b \in clock .. LaunchUntil : base' = [base EXCEPT ![r] = b]
    BY <1>1 DEF BeginLaunch
  <2>2. b \in Nat
    BY <1>0
  <2>3. base' \in [Requests -> Nat]
    BY <2>1, <2>2
  <2> QED
    BY <1>0, <1>1, <2>3 DEF BeginLaunch, Begin, Goto, rows, history, RequestPC, WorkerPC
<1>2. CASE BeginCancel(r)
  BY <1>0, <1>2 DEF BeginCancel, Begin, Goto, rows, history, RequestPC, WorkerPC
<1>3. CASE BeginDelete(r)
  BY <1>0, <1>3 DEF BeginDelete, Begin, Goto, rows, history, RequestPC, WorkerPC
<1>4. CASE CommitLaunch(r)
  <2>1. PICK audience \in SUBSET Conversations \ {{}} : \E order \in Orders(audience) :
            LET new == {c \in audience : recipient[c] = "none"} IN
            /\ recipient' = [c \in Conversations |->
                   IF c \in new THEN "PENDING" ELSE recipient[c]]
            /\ dueAt' = [c \in Conversations |->
                   IF c \in new THEN DueAt(base[r], order[c]) ELSE dueAt[c]]
    BY <1>4 DEF CommitLaunch
  <2>2. PICK order \in Orders(audience) :
            LET new == {c \in audience : recipient[c] = "none"} IN
            /\ recipient' = [c \in Conversations |->
                   IF c \in new THEN "PENDING" ELSE recipient[c]]
            /\ dueAt' = [c \in Conversations |->
                   IF c \in new THEN DueAt(base[r], order[c]) ELSE dueAt[c]]
    BY <2>1
  <2>3. recipient' \in [Conversations -> RecipientStatus]
    BY <2>2 DEF RecipientStatus
  <2>4. base[r] \in Nat /\ \A c \in audience : DueAt(base[r], order[c]) \in Nat
    BY OrdersTyped, DueAtTyped
  <2>5. dueAt' \in [Conversations -> Nat]
    BY <2>2, <2>4
  <2> QED
    BY <1>0, <1>4, <2>3, <2>5 DEF CommitLaunch, Goto, RequestPC, WorkerPC
<1>5. CASE CommitCancel(r)
  BY <1>0, <1>5 DEF CommitCancel, Goto, history, RequestPC, WorkerPC, RecipientStatus
<1>6. CASE CommitDelete(r)
  BY <1>0, <1>6 DEF CommitDelete, Goto, history, RequestPC, WorkerPC, RecipientStatus
<1>7. CASE GiveUp(r)
  BY <1>0, <1>7 DEF GiveUp, Goto, rows, history, RequestPC, WorkerPC
<1> QED
  BY <1>1, <1>2, <1>3, <1>4, <1>5, <1>6, <1>7 DEF RequestStep, Commit

\* A worker that goes to one of its steps leaves everybody else where they are.
LEMMA GotoTyped ==
    ASSUME BroadcastAssumption, TypeOK, NEW w \in Workers, NEW x \in WorkerPC, Goto(w, x)
    PROVE  /\ pc' \in [Actors -> WorkerPC \cup RequestPC]
           /\ \A v \in Workers : pc'[v] \in WorkerPC
           /\ \A r \in Requests : pc'[r] \in RequestPC
           /\ pc'[w] = x
           /\ \A v \in Workers \ {w} : pc'[v] = pc[v]
BY DEF Goto, TypeOK, Actors, BroadcastAssumption

\* What is left to show of the locals once pc is known to be typed.
LEMMA LocalsStay ==
    ASSUME BroadcastAssumption, TypeInv, NEW w \in Workers, NEW x \in WorkerPC, Goto(w, x),
           at' = [at EXCEPT ![w] = at'[w]],
           at'[w] \in Conversations \cup {Nobody},
           x \in InHand => at'[w] \in Conversations
    PROVE  HandsOK' /\ at' \in [Workers -> Conversations \cup {Nobody}]
<1>1. \A v \in Workers \ {w} : pc'[v] = pc[v] /\ at'[v] = at[v]
  BY GotoTyped DEF TypeInv, TypeOK
<1>2. pc'[w] = x
  BY GotoTyped DEF TypeInv
<1> QED
  BY <1>1, <1>2 DEF HandsOK, TypeInv, TypeOK

LEMMA WorkerTypeInv ==
    ASSUME BroadcastAssumption, TypeInv, NEW w \in Workers,
           WorkerStep(w) \/ WorkerThrows(w) \/ WorkerCrashes(w)
    PROVE  TypeInv'
<1> USE DEF TypeInv
<1>1. CASE AcquireBatchLock(w)
  BY <1>1, GotoTyped DEF AcquireBatchLock, rows, history, WorkerPC, TypeOK, HandsOK, InHand
<1>2. CASE Scan(w)
  <2>1. PICK taken \in SUBSET Conversations : todo' = [todo EXCEPT ![w] = taken]
    BY <1>2 DEF Scan, kSubset
  <2>2. todo' \in [Workers -> SUBSET Conversations]
    BY <2>1 DEF TypeOK
  <2>3. Goto(w, "claim") /\ "claim" \in WorkerPC
    BY <1>2 DEF Scan, WorkerPC
  <2> QED
    BY <1>2, <2>2, <2>3, GotoTyped DEF Scan, rows, history, TypeOK, HandsOK, InHand
<1>3. CASE Claim(w)
  <2>1. PICK c \in todo[w] :
           /\ todo' = [todo EXCEPT ![w] = @ \ {c}]
           /\ \/ /\ recipient' = [recipient EXCEPT ![c] = "QUEUED"]
                 /\ at' = [at EXCEPT ![w] = c]
                 /\ Goto(w, "claimed")
              \/ UNCHANGED <<recipient, at, pc>>
    BY <1>3 DEF Claim
  <2>2. c \in Conversations /\ todo' \in [Workers -> SUBSET Conversations]
    BY <2>1 DEF TypeOK
  <2>3. CASE UNCHANGED <<recipient, at, pc>>
    BY <1>3, <2>2, <2>3 DEF Claim, history, TypeOK, HandsOK, InHand
  <2>4. CASE /\ recipient' = [recipient EXCEPT ![c] = "QUEUED"]
             /\ at' = [at EXCEPT ![w] = c]
             /\ Goto(w, "claimed")
    <3>1. "claimed" \in WorkerPC
      BY DEF WorkerPC
    <3>2. recipient' \in [Conversations -> RecipientStatus]
      BY <2>2, <2>4 DEF TypeOK, RecipientStatus
    <3>3. at' = [at EXCEPT ![w] = at'[w]] /\ at'[w] \in Conversations
      BY <2>2, <2>4 DEF TypeOK
    <3>4. HandsOK' /\ at' \in [Workers -> Conversations \cup {Nobody}]
      BY <2>4, <3>1, <3>3, LocalsStay
    <3> QED
      BY <1>3, <2>2, <2>4, <3>1, <3>2, <3>4, GotoTyped DEF Claim, history, TypeOK
  <2> QED
    BY <2>1, <2>3, <2>4
<1>4. CASE Refuse(w) \/ Record(w) \/ Fail(w)
  <2>1. PICK outcome \in RecipientStatus, how \in {"sent", "refused", "failed"} :
            Write(w, outcome) /\ Conclude(w, how)
    BY <1>4 DEF Refuse, Record, Fail, RecipientStatus
  <2>2. recipient' \in [Conversations -> RecipientStatus]
    BY <2>1 DEF Write, TypeOK
  <2>3. /\ path' \in [Workers -> {"none", "sent", "refused", "failed"}]
        /\ poll' \in [Workers -> SUBSET {"rows", "status"}]
    BY <2>1 DEF Conclude, TypeOK
  <2>4. Goto(w, "finalize") /\ "finalize" \in WorkerPC
    BY <2>1 DEF Conclude, WorkerPC
  <2>5. at' = at /\ pc[w] \in InHand
    BY <1>4 DEF Refuse, Record, Fail, InHand
  <2>6. at' = [at EXCEPT ![w] = at'[w]] /\ at'[w] \in Conversations
    BY <2>5 DEF TypeOK, HandsOK
  <2>7. HandsOK' /\ at' \in [Workers -> Conversations \cup {Nobody}]
    BY <2>4, <2>6, LocalsStay
  <2>8. UNCHANGED <<status, dueAt, clock, batchLock, base, todo, history>>
    BY <1>4 DEF Refuse, Record, Fail
  <2> QED
    BY <2>2, <2>3, <2>4, <2>7, <2>8, GotoTyped DEF history, TypeOK
<1>5. CASE SendMessage(w)
  <2>1. PICK then \in {"record", "fail"} :
           /\ Goto(w, then)
           /\ disturbed' = IF then = "fail" THEN disturbed \cup {at[w]} ELSE disturbed
    BY <1>5 DEF SendMessage
  <2>2. then \in WorkerPC /\ at[w] \in Conversations
    BY <1>5 DEF SendMessage, WorkerPC, HandsOK, InHand
  <2>3. sends' \in [Conversations -> Nat] /\ lateSends' \in [Workers -> Nat]
    BY <1>5, <2>2 DEF SendMessage, TypeOK
  <2>4. abandoned' \subseteq disturbed' /\ disturbed' \subseteq Conversations
    BY <1>5, <2>1, <2>2 DEF SendMessage, TypeOK
  <2>5. at' = [at EXCEPT ![w] = at'[w]] /\ at'[w] \in Conversations
    BY <1>5, <2>2 DEF SendMessage, TypeOK
  <2>6. HandsOK' /\ at' \in [Workers -> Conversations \cup {Nobody}]
    BY <2>1, <2>2, <2>5, LocalsStay
  <2> QED
    BY <1>5, <2>1, <2>2, <2>3, <2>4, <2>6, GotoTyped DEF SendMessage, rows, TypeOK
<1>6. CASE CountRows(w) \/ ReadStatus(w) \/ Complete(w) \/ Log(w)
  <2>1. PICK x \in {"claim", "log", "complete", "finalize"} : Goto(w, x)
    BY <1>6 DEF CountRows, ReadStatus, Complete, Log, Poll, Finished
  <2>2. x \in WorkerPC
    BY DEF WorkerPC
  <2>3. at[w] \in Conversations
    BY <1>6 DEF CountRows, ReadStatus, Complete, Log, Poll, HandsOK, InHand
  <2>4. at' = at \/ (at' = [at EXCEPT ![w] = Nobody] /\ Goto(w, "claim"))
    BY <1>6 DEF CountRows, ReadStatus, Complete, Log, Poll, Finished
  <2>5. HandsOK' /\ at' \in [Workers -> Conversations \cup {Nobody}]
    <3>1. CASE at' = at
      <4>1. at' = [at EXCEPT ![w] = at'[w]] /\ at'[w] \in Conversations
        BY <3>1, <2>3 DEF TypeOK
      <4> QED
        BY <2>1, <2>2, <4>1, LocalsStay
    <3>2. CASE at' = [at EXCEPT ![w] = Nobody] /\ Goto(w, "claim")
      <4>1. /\ at' = [at EXCEPT ![w] = at'[w]] /\ at'[w] \in Conversations \cup {Nobody}
            /\ "claim" \in WorkerPC /\ "claim" \notin InHand
        BY <3>2 DEF TypeOK, WorkerPC, InHand
      <4> QED
        BY <3>2, <4>1, LocalsStay
    <3> QED
      BY <2>4, <3>1, <3>2
  <2>6. path' \in [Workers -> {"none", "sent", "refused", "failed"}]
    BY <1>6 DEF CountRows, ReadStatus, Complete, Log, Poll, Finished, TypeOK
  <2>7. poll' \in [Workers -> SUBSET {"rows", "status"}]
    <3>1. \/ poll' = poll
          \/ \E p \in SUBSET poll[w] : poll' = [poll EXCEPT ![w] = p]
      BY <1>6 DEF CountRows, ReadStatus, Complete, Log, Poll, Finished
    <3>2. \A p \in SUBSET poll[w] :
            [poll EXCEPT ![w] = p] \in [Workers -> SUBSET {"rows", "status"}]
      BY DEF TypeOK
    <3>3. poll \in [Workers -> SUBSET {"rows", "status"}]
      BY DEF TypeOK
    <3> QED
      BY Zenon, <3>1, <3>2, <3>3
  <2>8. /\ UNCHANGED <<recipient, dueAt, clock, batchLock, base, todo, history>>
        /\ status' \in {"DRAFT", "RUNNING", "CANCELED", "COMPLETED", "DELETED"}
    BY <1>6 DEF CountRows, ReadStatus, Complete, Log, Poll, rows, TypeOK
  <2> QED
    BY <2>1, <2>2, <2>5, <2>6, <2>7, <2>8, GotoTyped DEF history, TypeOK
<1>7. CASE ReleaseBatchLock(w)
  <2>1. todo' \in [Workers -> SUBSET Conversations] /\ "idle" \in WorkerPC
    BY <1>7 DEF ReleaseBatchLock, TypeOK, WorkerPC
  <2> QED
    BY <1>7, <2>1, GotoTyped DEF ReleaseBatchLock, rows, history, TypeOK, HandsOK, InHand
<1>8. ASSUME NEW x \in {"idle", "unlock"}, Goto(w, x), Drop(w),
             UNCHANGED <<rows, clock, batchLock, base, sends, lateSends, launches>>
      PROVE  TypeInv'
  <2>1. x \in WorkerPC /\ x \notin InHand
    BY DEF WorkerPC, InHand
  <2>2. at' = [at EXCEPT ![w] = Nobody]
    BY <1>8 DEF Drop
  <2>3. HandsOK' /\ at' \in [Workers -> Conversations \cup {Nobody}]
    <3>1. at' = [at EXCEPT ![w] = at'[w]] /\ at'[w] \in Conversations \cup {Nobody}
      BY <2>2 DEF TypeOK
    <3> QED
      BY <1>8, <2>1, <3>1, LocalsStay
  <2>4. /\ todo' \in [Workers -> SUBSET Conversations]
        /\ path' \in [Workers -> {"none", "sent", "refused", "failed"}]
        /\ poll' \in [Workers -> SUBSET {"rows", "status"}]
        /\ abandoned' \subseteq disturbed' /\ disturbed' \subseteq Conversations
    BY <1>8 DEF Drop, TypeOK
  <2> QED
    BY <1>8, <2>1, <2>3, <2>4, GotoTyped DEF rows, TypeOK
<1>9. CASE WorkerThrows(w)
  <2>1. CASE InTry(w)
    <3>1. pc[w] \in InHand
      BY <2>1 DEF InTry, InHand
    <3>2. at[w] \in Conversations /\ at' = at /\ "fail" \in WorkerPC /\ Goto(w, "fail")
      BY <1>9, <2>1, <3>1 DEF WorkerThrows, HandsOK, WorkerPC
    <3>3. HandsOK' /\ at' \in [Workers -> Conversations \cup {Nobody}]
      <4>1. at' = [at EXCEPT ![w] = at'[w]] /\ at'[w] \in Conversations
        BY <3>2 DEF TypeOK
      <4> QED
        BY <3>2, <4>1, LocalsStay
    <3>4. /\ path' \in [Workers -> {"none", "sent", "refused", "failed"}]
          /\ poll' \in [Workers -> SUBSET {"rows", "status"}]
          /\ abandoned' \subseteq disturbed' /\ disturbed' \subseteq Conversations
      BY <1>9, <2>1, <3>2 DEF WorkerThrows, TypeOK
    <3> QED
      BY <1>9, <2>1, <3>2, <3>3, <3>4, GotoTyped DEF WorkerThrows, rows, TypeOK
  <2>2. CASE ~InTry(w)
    BY <1>8, <1>9, <2>2 DEF WorkerThrows
  <2> QED
    BY <2>1, <2>2
<1>10. CASE WorkerCrashes(w)
  BY <1>8, <1>10 DEF WorkerCrashes
<1> QED
  BY <1>1, <1>2, <1>3, <1>4, <1>5, <1>6, <1>7, <1>9, <1>10 DEF WorkerStep

LEMMA NextTypeInv == ASSUME BroadcastAssumption, TypeInv, [Next]_vars PROVE TypeInv'
<1>1. CASE \E r \in Requests : RequestStep(r)
  BY <1>1, RequestTypeInv
<1>2. CASE \E w \in Workers : WorkerStep(w) \/ WorkerThrows(w) \/ WorkerCrashes(w)
  BY <1>2, WorkerTypeInv
<1>3. CASE TimePasses
  BY <1>3 DEF TimePasses, rows, locals, history, TypeInv, TypeOK, HandsOK
<1>4. CASE LockExpires
  BY <1>4 DEF LockExpires, rows, locals, history, TypeInv, TypeOK, HandsOK
<1>5. CASE UNCHANGED vars
  BY <1>5 DEF vars, rows, locals, history, TypeInv, TypeOK, HandsOK
<1> QED
  BY Zenon, <1>1, <1>2, <1>3, <1>4, <1>5 DEF Next

\* Type correctness: in every reachable state of Broadcast the rows, the lock
\* and the locals of the processes hold values of their type.
THEOREM TypeCorrect == Spec => []TypeOK
<1> USE BroadcastAssumption
<1>1. Init => TypeInv
  BY InitTypeInv
<1>2. TypeInv /\ [Next]_vars => TypeInv'
  BY NextTypeInv
<1>3. TypeInv => TypeOK
  BY DEF TypeInv
<1> QED
  BY <1>1, <1>2, <1>3, PTL DEF Spec

-----------------------------------------------------------------------------
(* One message per recipient *)

\* A recipient that was claimed, stopped or deleted is never claimed again.
Spent(c) == recipient[c] \notin {"none", "PENDING"} \/ status = "DELETED"

ClaimsOK ==
    /\ status = "DELETED" => \A c \in Conversations : recipient[c] = "none"
    /\ \A w \in Workers : pc[w] = "claimed" => Spent(at[w]) /\ sends[at[w]] = 0
    /\ \A v, w \in Workers :
           pc[v] = "claimed" /\ pc[w] = "claimed" /\ at[v] = at[w] => v = w

SendsOK ==
    \A c \in Conversations : sends[c] <= 1 /\ (sends[c] > 0 => Spent(c))

OneInv == ClaimsOK /\ SendsOK

LEMMA InitOneInv == ASSUME BroadcastAssumption, Init PROVE OneInv
<1>1. \A w \in Workers : pc[w] = "idle"
  BY DEF Init, Actors
<1> QED
  BY <1>1 DEF Init, OneInv, ClaimsOK, SendsOK

\* A step that sends nothing and claims nothing keeps OneInv, if it makes no
\* spent recipient claimable.
LEMMA NothingClaimed ==
    ASSUME TypeInv, OneInv, sends' = sends,
           \A w \in Workers : pc'[w] = "claimed" => pc[w] = "claimed" /\ at'[w] = at[w],
           \A c \in Conversations : Spent(c) => Spent(c)',
           status' = "DELETED" => \A c \in Conversations : recipient'[c] = "none"
    PROVE  OneInv'
<1>1. \A w \in Workers : pc[w] = "claimed" => at[w] \in Conversations
  BY DEF TypeInv, HandsOK, InHand
<1>2. \A w \in Workers : pc'[w] = "claimed" =>
          at'[w] \in Conversations /\ Spent(at[w])' /\ sends'[at'[w]] = 0
  BY <1>1 DEF OneInv, ClaimsOK, Spent
<1>3. ClaimsOK'
  BY <1>2 DEF OneInv, ClaimsOK
<1>4. SendsOK'
  BY DEF OneInv, SendsOK
<1> QED
  BY <1>3, <1>4 DEF OneInv

LEMMA RequestOneInv ==
    ASSUME BroadcastAssumption, TypeInv, OneInv, NEW r \in Requests, RequestStep(r)
    PROVE  OneInv'
<1>1. /\ sends' = sends /\ at' = at
      /\ \A w \in Workers : pc'[w] = pc[w]
  <2>1. \A w \in Workers : w # r
    BY DEF BroadcastAssumption
  <2>2. \E x : Goto(r, x)
    BY Zenon DEF RequestStep, Commit, BeginLaunch, BeginCancel, BeginDelete, Begin, CommitLaunch,
           CommitCancel, CommitDelete, GiveUp
  <2>3. \A w \in Workers : pc'[w] = pc[w]
    BY <2>1, <2>2 DEF Goto, TypeInv, TypeOK, Actors
  <2>4. sends' = sends /\ at' = at
    BY DEF RequestStep, Commit, BeginLaunch, BeginCancel, BeginDelete, Begin, CommitLaunch,
           CommitCancel, CommitDelete, GiveUp, history
  <2> QED
    BY <2>3, <2>4
<1>2. /\ \A c \in Conversations : Spent(c) => Spent(c)'
      /\ status' = "DELETED" => \A c \in Conversations : recipient'[c] = "none"
  <2>1. CASE UNCHANGED rows
    BY <2>1 DEF rows, Spent, OneInv, ClaimsOK
  <2>2. CASE CommitLaunch(r)
    <3>1. status # "DELETED" /\ status' = "RUNNING"
      BY <2>2 DEF CommitLaunch
    <3>2. PICK new \in SUBSET Conversations :
             /\ \A c \in new : recipient[c] = "none"
             /\ recipient' = [c \in Conversations |->
                                IF c \in new THEN "PENDING" ELSE recipient[c]]
      BY <2>2 DEF CommitLaunch
    <3> QED
      BY <3>1, <3>2 DEF Spent
  <2>3. CASE CommitCancel(r)
    BY <2>3 DEF CommitCancel, Spent, Waiting
  <2>4. CASE CommitDelete(r)
    BY <2>4 DEF CommitDelete, Spent
  <2> QED
    BY <2>1, <2>2, <2>3, <2>4
    DEF RequestStep, Commit, BeginLaunch, BeginCancel, BeginDelete, Begin, GiveUp
<1> QED
  BY <1>1, <1>2, NothingClaimed

LEMMA WorkerOneInv ==
    ASSUME BroadcastAssumption, TypeInv, OneInv, NEW w \in Workers,
           WorkerStep(w) \/ WorkerThrows(w) \/ WorkerCrashes(w)
    PROVE  OneInv'
<1>0. /\ pc \in [Actors -> WorkerPC \cup RequestPC] /\ w \in Actors /\ Workers \subseteq Actors
      /\ at \in [Workers -> Conversations \cup {Nobody}]
      /\ recipient \in [Conversations -> RecipientStatus]
      /\ sends \in [Conversations -> Nat]
  BY DEF TypeInv, TypeOK, Actors
\* Every step but the claim and the send.
<1>1. ASSUME NEW x \in WorkerPC \ {"claimed"}, Goto(w, x), sends' = sends,
             \A v \in Workers \ {w} : at'[v] = at[v],
             \A c \in Conversations : Spent(c) => Spent(c)',
             status' = "DELETED" => \A c \in Conversations : recipient'[c] = "none"
      PROVE  OneInv'
  <2>1. \A v \in Workers : pc'[v] = "claimed" => pc[v] = "claimed" /\ at'[v] = at[v]
    BY <1>0, <1>1 DEF Goto
  <2> QED
    BY <1>1, <2>1, NothingClaimed
<1>2. CASE Claim(w)
  <2>1. PICK c \in todo[w] :
           \/ /\ recipient[c] = "PENDING"
              /\ recipient' = [recipient EXCEPT ![c] = "QUEUED"]
              /\ at' = [at EXCEPT ![w] = c]
              /\ Goto(w, "claimed")
           \/ UNCHANGED <<recipient, at, pc>>
    BY <1>2 DEF Claim
  <2>2. c \in Conversations /\ sends' = sends /\ status' = status
    BY <1>2 DEF Claim, history, TypeInv, TypeOK
  <2>3. CASE UNCHANGED <<recipient, at, pc>>
    BY <2>2, <2>3, NothingClaimed DEF Spent, OneInv, ClaimsOK
  <2>4. CASE /\ recipient[c] = "PENDING"
             /\ recipient' = [recipient EXCEPT ![c] = "QUEUED"]
             /\ at' = [at EXCEPT ![w] = c]
             /\ Goto(w, "claimed")
    <3>1. status # "DELETED"
      BY <2>2, <2>4 DEF OneInv, ClaimsOK
    <3>2. ~Spent(c) /\ sends[c] = 0
      BY <1>0, <2>2, <2>4, <3>1 DEF Spent, OneInv, SendsOK
    <3>3. \A v \in Workers \ {w} :
             /\ pc'[v] = pc[v] /\ at'[v] = at[v]
             /\ pc[v] = "claimed" => at[v] \in Conversations /\ at[v] # c
      BY <1>0, <2>4, <3>2 DEF Goto, OneInv, ClaimsOK, TypeInv, HandsOK, InHand
    <3>4. pc'[w] = "claimed" /\ at'[w] = c
      BY <1>0, <2>4 DEF Goto
    <3>5. \A d \in Conversations : Spent(d) => Spent(d)'
      BY <1>0, <2>2, <2>4, <3>1 DEF Spent
    <3>6. Spent(c)'
      BY <1>0, <2>2, <2>4 DEF Spent
    <3>7. ClaimsOK'
      <4>1. ASSUME NEW v \in Workers, pc'[v] = "claimed"
            PROVE  Spent(at[v])' /\ sends'[at'[v]] = 0
        <5>1. CASE v = w
          BY <2>2, <3>2, <3>4, <3>6, <5>1 DEF Spent
        <5>2. CASE v # w
          <6>1. v \in Workers \ {w}
            BY <5>2
          <6>2. at[v] \in Conversations /\ Spent(at[v]) /\ sends[at[v]] = 0 /\ at'[v] = at[v]
            BY <3>3, <4>1, <6>1 DEF OneInv, ClaimsOK
          <6> QED
            BY <2>2, <3>5, <6>2 DEF Spent
        <5> QED
          BY <5>1, <5>2
      <4>2. ASSUME NEW u \in Workers, NEW v \in Workers,
                   pc'[u] = "claimed", pc'[v] = "claimed", at'[u] = at'[v]
            PROVE  u = v
        <5>1. CASE u # w /\ v # w
          <6>1. u \in Workers \ {w} /\ v \in Workers \ {w}
            BY <5>1
          <6>2. pc[u] = "claimed" /\ pc[v] = "claimed" /\ at[u] = at[v]
            BY <3>3, <4>2, <6>1
          <6> QED
            BY <6>2 DEF OneInv, ClaimsOK
        <5>2. CASE u = w \/ v = w
          BY <3>3, <3>4, <4>2, <5>2
        <5> QED
          BY <5>1, <5>2
      <4> QED
        BY <2>2, <3>1, <4>1, <4>2 DEF ClaimsOK
    <3>8. SendsOK'
      BY <2>2, <3>5 DEF OneInv, SendsOK
    <3> QED
      BY <3>7, <3>8 DEF OneInv
  <2> QED
    BY <2>1, <2>3, <2>4
<1>3. CASE SendMessage(w)
  <2>1. PICK then \in {"record", "fail"} : Goto(w, then)
    BY <1>3 DEF SendMessage
  <2>2. /\ pc[w] = "claimed" /\ at' = at /\ recipient' = recipient /\ status' = status
        /\ sends' = [sends EXCEPT ![at[w]] = @ + 1]
    BY <1>3 DEF SendMessage, rows
  <2>3. at[w] \in Conversations /\ Spent(at[w]) /\ sends[at[w]] = 0
    BY <2>2 DEF OneInv, ClaimsOK, TypeInv, HandsOK, InHand
  <2>4. \A v \in Workers : pc'[v] = "claimed" => v # w /\ pc[v] = "claimed"
    BY <1>0, <2>1 DEF Goto
  <2>5. \A c \in Conversations : Spent(c)' <=> Spent(c)
    BY <2>2 DEF Spent
  <2>6. \A v \in Workers : pc'[v] = "claimed" =>
            at[v] \in Conversations /\ at[v] # at[w] /\ sends'[at[v]] = sends[at[v]]
    BY <1>0, <2>2, <2>4 DEF OneInv, ClaimsOK, TypeInv, HandsOK, InHand
  <2>7. ClaimsOK'
    BY <2>2, <2>4, <2>5, <2>6 DEF OneInv, ClaimsOK
  <2>8. SendsOK'
    BY <1>0, <2>2, <2>3, <2>5 DEF OneInv, SendsOK
  <2> QED
    BY <2>7, <2>8 DEF OneInv
<1>4. CASE Refuse(w) \/ Record(w) \/ Fail(w)
  <2>1. PICK outcome \in RecipientStatus \ {"none", "PENDING"} : Write(w, outcome)
    BY <1>4 DEF Refuse, Record, Fail, RecipientStatus
  <2>2. at[w] \in Conversations /\ status' = status /\ at' = at /\ sends' = sends
    BY <1>4 DEF Refuse, Record, Fail, history, TypeInv, HandsOK, InHand
  <2>3. Goto(w, "finalize") /\ "finalize" \in WorkerPC \ {"claimed"}
    BY <1>4 DEF Refuse, Record, Fail, Conclude, WorkerPC
  <2>4. \A c \in Conversations : Spent(c) => Spent(c)'
    BY <1>0, <2>1, <2>2 DEF Write, Spent
  <2> QED
    BY <1>1, <2>1, <2>2, <2>3, <2>4 DEF Write
<1>5. CASE CountRows(w) \/ ReadStatus(w) \/ Complete(w) \/ Log(w)
  <2>1. PICK x \in {"claim", "log", "complete", "finalize"} : Goto(w, x)
    BY <1>5 DEF CountRows, ReadStatus, Complete, Log, Poll, Finished
  <2>2. x \in WorkerPC \ {"claimed"}
    BY DEF WorkerPC
  <2>3. recipient' = recipient /\ sends' = sends /\ \A v \in Workers \ {w} : at'[v] = at[v]
    BY <1>0, <1>5 DEF CountRows, ReadStatus, Complete, Log, Poll, Finished, rows, history
  <2>4. status' = status \/ (status # "DELETED" /\ status' = "COMPLETED")
    BY <1>5 DEF CountRows, ReadStatus, Complete, Log, Poll, rows
  <2>5. /\ \A c \in Conversations : Spent(c) => Spent(c)'
        /\ status' = "DELETED" => \A c \in Conversations : recipient'[c] = "none"
    BY <2>3, <2>4 DEF Spent, OneInv, ClaimsOK
  <2> QED
    BY <1>1, <2>1, <2>2, <2>3, <2>5
<1>6. CASE \/ AcquireBatchLock(w) \/ Scan(w) \/ ReleaseBatchLock(w)
           \/ WorkerThrows(w) \/ WorkerCrashes(w)
  <2>1. PICK x \in {"scan", "claim", "idle", "fail", "unlock"} : Goto(w, x)
    BY <1>6 DEF AcquireBatchLock, Scan, ReleaseBatchLock, WorkerThrows, WorkerCrashes
  <2>2. x \in WorkerPC \ {"claimed"}
    BY DEF WorkerPC
  <2>3. UNCHANGED rows /\ sends' = sends
    BY <1>6 DEF AcquireBatchLock, Scan, ReleaseBatchLock, WorkerThrows, WorkerCrashes, history, rows
  <2>4. at' = at \/ at' = [at EXCEPT ![w] = Nobody]
    BY <1>6 DEF AcquireBatchLock, Scan, ReleaseBatchLock, WorkerThrows, WorkerCrashes, Drop
  <2>5. \A v \in Workers \ {w} : at'[v] = at[v]
    BY <1>0, <2>4
  <2>6. /\ \A c \in Conversations : Spent(c) => Spent(c)'
        /\ status' = "DELETED" => \A c \in Conversations : recipient'[c] = "none"
    BY <2>3 DEF rows, Spent, OneInv, ClaimsOK
  <2> QED
    BY <1>1, <2>1, <2>2, <2>3, <2>5, <2>6
<1> QED
  BY <1>2, <1>3, <1>4, <1>5, <1>6 DEF WorkerStep

LEMMA NextOneInv ==
    ASSUME BroadcastAssumption, TypeInv, OneInv, [Next]_vars PROVE OneInv'
<1>1. CASE \E r \in Requests : RequestStep(r)
  BY <1>1, RequestOneInv
<1>2. CASE \E w \in Workers : WorkerStep(w) \/ WorkerThrows(w) \/ WorkerCrashes(w)
  BY <1>2, WorkerOneInv
<1>3. CASE TimePasses \/ LockExpires \/ UNCHANGED vars
  <2>1. UNCHANGED <<rows, locals, history>>
    BY <1>3 DEF TimePasses, LockExpires, vars
  <2> QED
    BY <2>1, NothingClaimed DEF rows, locals, history, Spent, OneInv, ClaimsOK
<1> QED
  BY Zenon, <1>1, <1>2, <1>3 DEF Next

\* However many workers send batches at once, whether the batch lock expires,
\* awaits throw or processes die, and however often the broadcast is launched,
\* the message service is called at most once per recipient
\* (processWhatsAppBroadcastRecipientsBatch).
THEOREM OneMessage == Spec => []OneMessagePerRecipient
<1> USE BroadcastAssumption
<1>1. Init => TypeInv /\ OneInv
  BY InitTypeInv, InitOneInv
<1>2. TypeInv /\ OneInv /\ [Next]_vars => (TypeInv /\ OneInv)'
  BY NextTypeInv, NextOneInv
<1>3. TypeInv /\ OneInv => OneMessagePerRecipient
  BY DEF OneInv, SendsOK, OneMessagePerRecipient
<1> QED
  BY <1>1, <1>2, <1>3, PTL DEF Spec

-----------------------------------------------------------------------------
(* A broadcast that was launched once *)

\* A worker that has counted the waiting recipients and found none.
CountedNone(w) ==
    pc[w] = "complete" \/ (pc[w] = "finalize" /\ "rows" \notin poll[w])

\* Before the launch there is nothing to send, and nobody who sends it.
BeforeLaunch ==
    /\ status \notin {"RUNNING", "COMPLETED"}
    /\ \A c \in Conversations : recipient[c] = "none"
    /\ \A w \in Workers : pc[w] \notin InHand /\ lateSends[w] = 0

\* After it recipients only go forward: nobody waits again once nobody waited,
\* and nobody is PENDING once the broadcast has stopped running.
AfterLaunch ==
    /\ \A w \in Workers : CountedNone(w) => Waiting = {}
    /\ status = "COMPLETED" => Waiting = {}
    /\ status # "RUNNING" => \A c \in Conversations : recipient[c] # "PENDING"
    /\ status = "RUNNING" => \A w \in Workers : lateSends[w] = 0
    /\ \A w \in Workers : lateSends[w] <= 1 /\ (pc[w] = "claimed" => lateSends[w] = 0)

LaunchInv == (launches = 0 => BeforeLaunch) /\ (launches = 1 => AfterLaunch)

LEMMA InitLaunchInv == ASSUME BroadcastAssumption, Init PROVE LaunchInv
<1>1. \A w \in Workers : pc[w] = "idle"
  BY DEF Init, Actors
<1>2. BeforeLaunch /\ launches = 0
  BY <1>1 DEF Init, BeforeLaunch, InHand
<1> QED
  BY <1>2 DEF LaunchInv

\* A worker that has a recipient in hand was given it by a launch.
LEMMA InHandIsLaunched ==
    ASSUME TypeInv, LaunchInv, NEW w \in Workers, pc[w] \in InHand
    PROVE  launches # 0 /\ (launches = 1 => AfterLaunch)
BY DEF LaunchInv, BeforeLaunch

\* Most steps take no recipient in hand, count no rows, and leave nobody
\* waiting who didn't wait before.
LEMMA NobodyWaitsAgain ==
    ASSUME TypeInv, LaunchInv, launches' = launches, lateSends' = lateSends,
           status' = status,
           \A c \in Conversations : recipient'[c] \in {"PENDING", "QUEUED"} =>
                                       recipient'[c] = recipient[c],
           \A w \in Workers : pc'[w] = "claimed" => pc[w] = "claimed",
           \A w \in Workers : CountedNone(w)' => CountedNone(w) \/ Waiting = {},
           launches = 0 => recipient' = recipient /\ \A w \in Workers : pc'[w] \notin InHand
    PROVE  LaunchInv'
<1>1. Waiting = {} => Waiting' = {}
  BY DEF Waiting
<1>2. BeforeLaunch /\ launches = 0 => BeforeLaunch'
  BY DEF BeforeLaunch
<1>3. AfterLaunch => AfterLaunch'
  BY <1>1 DEF AfterLaunch, CountedNone
<1> QED
  BY <1>2, <1>3 DEF LaunchInv

LEMMA RequestLaunchInv ==
    ASSUME BroadcastAssumption, TypeInv, LaunchInv, NEW r \in Requests, RequestStep(r)
    PROVE  LaunchInv'
<1>1. \A w \in Workers : pc'[w] = pc[w]
  <2>1. \A w \in Workers : w # r
    BY DEF BroadcastAssumption
  <2>2. \E x : Goto(r, x)
    BY Zenon DEF RequestStep, Commit, BeginLaunch, BeginCancel, BeginDelete, Begin, CommitLaunch,
           CommitCancel, CommitDelete, GiveUp
  <2> QED
    BY <2>1, <2>2 DEF Goto, TypeInv, TypeOK, Actors
<1>2. poll' = poll
  BY DEF RequestStep, Commit, BeginLaunch, BeginCancel, BeginDelete, Begin, CommitLaunch,
         CommitCancel, CommitDelete, GiveUp
<1>3. \A w \in Workers : CountedNone(w)' <=> CountedNone(w)
  BY <1>1, <1>2 DEF CountedNone
<1>4. CASE UNCHANGED <<rows, history>>
  BY <1>1, <1>3, <1>4, NobodyWaitsAgain DEF rows, history, LaunchInv, BeforeLaunch
<1>5. CASE CommitLaunch(r)
  <2>1. launches' = launches + 1 /\ status' = "RUNNING" /\ launches \in Nat
        /\ lateSends' = [w \in Workers |-> 0]
    BY <1>5 DEF CommitLaunch, TypeInv, TypeOK
  <2>2. CASE launches = 0
    <3>1. \A w \in Workers : ~CountedNone(w)' /\ lateSends'[w] = 0
      BY <1>3, <2>1, <2>2 DEF LaunchInv, BeforeLaunch, CountedNone, InHand
    <3>2. AfterLaunch'
      BY <2>1, <3>1 DEF AfterLaunch
    <3> QED
      BY <2>1, <2>2, <3>2 DEF LaunchInv
  <2>3. CASE launches # 0
    BY <2>1, <2>3 DEF LaunchInv
  <2> QED
    BY <2>2, <2>3
<1>6. CASE CommitCancel(r) \/ CommitDelete(r)
  <2>1. Waiting' = {} /\ \A c \in Conversations : recipient'[c] # "PENDING"
    BY <1>6 DEF CommitCancel, CommitDelete, Waiting
  <2>2. /\ launches' = launches /\ lateSends' = lateSends
        /\ status' \in {"CANCELED", "DELETED"}
    BY <1>6 DEF CommitCancel, CommitDelete, history
  <2>3. launches = 0 => BeforeLaunch'
    BY <1>1, <1>6, <2>2 DEF LaunchInv, BeforeLaunch, CommitCancel, CommitDelete, Waiting
  <2>4. launches = 1 => AfterLaunch'
    BY <1>1, <2>1, <2>2 DEF LaunchInv, AfterLaunch
  <2> QED
    BY <2>2, <2>3, <2>4 DEF LaunchInv
<1> QED
  BY <1>4, <1>5, <1>6
  DEF RequestStep, Commit, BeginLaunch, BeginCancel, BeginDelete, Begin, GiveUp

LEMMA WorkerLaunchInv ==
    ASSUME BroadcastAssumption, TypeInv, LaunchInv, NEW w \in Workers,
           WorkerStep(w) \/ WorkerThrows(w) \/ WorkerCrashes(w)
    PROVE  LaunchInv'
<1>0. /\ pc \in [Actors -> WorkerPC \cup RequestPC] /\ w \in Actors /\ Workers \subseteq Actors
      /\ recipient \in [Conversations -> RecipientStatus]
      /\ poll \in [Workers -> SUBSET {"rows", "status"}]
      /\ lateSends \in [Workers -> Nat]
  BY DEF TypeInv, TypeOK, Actors
<1>1. CASE \/ AcquireBatchLock(w) \/ Scan(w) \/ ReleaseBatchLock(w)
           \/ WorkerCrashes(w) \/ WorkerThrows(w) \/ Log(w)
  <2>1. PICK x \in {"scan", "claim", "idle", "fail", "unlock"} :
            Goto(w, x) /\ (x = "fail" => pc[w] \in InHand)
    BY <1>1 DEF AcquireBatchLock, Scan, ReleaseBatchLock, WorkerThrows, WorkerCrashes, Log,
                InTry, InHand
  <2>2. UNCHANGED rows /\ launches' = launches /\ lateSends' = lateSends
    BY <1>1 DEF AcquireBatchLock, Scan, ReleaseBatchLock, WorkerThrows, WorkerCrashes, Log,
                history, rows
  <2>3. poll' = poll \/ poll' = [poll EXCEPT ![w] = {}]
    BY <1>1 DEF AcquireBatchLock, Scan, ReleaseBatchLock, WorkerThrows, WorkerCrashes, Log, Drop
  <2>4. pc'[w] \notin {"claimed", "finalize", "complete"}
        /\ \A v \in Workers \ {w} : pc'[v] = pc[v] /\ poll'[v] = poll[v]
    BY <1>0, <2>1, <2>3 DEF Goto
  <2>5. \A v \in Workers : CountedNone(v)' => CountedNone(v)
    BY <2>4 DEF CountedNone
  <2>6. launches = 0 => \A v \in Workers : pc'[v] \notin InHand
    BY <1>0, <2>1, <2>4 DEF Goto, LaunchInv, BeforeLaunch, InHand
  <2> QED
    BY <2>2, <2>4, <2>5, <2>6, NobodyWaitsAgain DEF rows
<1>2. CASE Claim(w)
  <2>1. PICK c \in todo[w] :
           \/ /\ recipient[c] = "PENDING"
              /\ recipient' = [recipient EXCEPT ![c] = "QUEUED"]
              /\ at' = [at EXCEPT ![w] = c]
              /\ Goto(w, "claimed")
           \/ UNCHANGED <<recipient, at, pc>>
    BY <1>2 DEF Claim
  <2>2. /\ c \in Conversations /\ launches' = launches /\ lateSends' = lateSends
        /\ status' = status /\ poll' = poll
    BY <1>2 DEF Claim, history, TypeInv, TypeOK
  <2>3. CASE UNCHANGED <<recipient, at, pc>>
    BY <2>2, <2>3, NobodyWaitsAgain DEF CountedNone, LaunchInv, BeforeLaunch
  <2>4. CASE /\ recipient[c] = "PENDING"
             /\ recipient' = [recipient EXCEPT ![c] = "QUEUED"]
             /\ at' = [at EXCEPT ![w] = c]
             /\ Goto(w, "claimed")
    <3>1. launches # 0
      BY <2>2, <2>4 DEF LaunchInv, BeforeLaunch
    <3>2. ASSUME launches = 1 PROVE AfterLaunch'
      <4>1. AfterLaunch /\ status = "RUNNING" /\ Waiting # {}
        BY <2>2, <2>4, <3>2 DEF LaunchInv, AfterLaunch, Waiting
      <4>2. \A v \in Workers : ~CountedNone(v) /\ lateSends[v] = 0
        BY <4>1 DEF AfterLaunch
      <4>3. \A v \in Workers : ~CountedNone(v)'
        BY <1>0, <2>2, <2>4, <4>2 DEF CountedNone, Goto
      <4> QED
        BY <2>2, <4>1, <4>2, <4>3 DEF AfterLaunch
    <3> QED
      BY <2>2, <3>1, <3>2 DEF LaunchInv
  <2> QED
    BY <2>1, <2>3, <2>4
<1>3. CASE Refuse(w) \/ Record(w) \/ Fail(w)
  <2>1. PICK outcome \in RecipientStatus \ {"none", "PENDING", "QUEUED"},
             how \in {"sent", "refused", "failed"} : Write(w, outcome) /\ Conclude(w, how)
    BY <1>3 DEF Refuse, Record, Fail, RecipientStatus
  <2>2. /\ launches' = launches /\ lateSends' = lateSends /\ status' = status
        /\ pc[w] \in InHand
    BY <1>3 DEF Refuse, Record, Fail, history, InHand
  <2>3. launches # 0 /\ at[w] \in Conversations
    BY <2>2, InHandIsLaunched DEF TypeInv, HandsOK
  <2>4. /\ pc'[w] = "finalize" /\ "rows" \in poll'[w]
        /\ \A v \in Workers \ {w} : pc'[v] = pc[v] /\ poll'[v] = poll[v]
    BY <1>0, <2>1 DEF Conclude, Goto
  <2>5. \A v \in Workers : CountedNone(v)' => CountedNone(v)
    BY <2>4 DEF CountedNone
  <2>6. \A c \in Conversations : recipient'[c] \in {"PENDING", "QUEUED"} =>
                                    recipient'[c] = recipient[c]
    BY <1>0, <2>1, <2>3 DEF Write
  <2>7. \A v \in Workers : pc'[v] = "claimed" => pc[v] = "claimed"
    BY <2>4
  <2> QED
    BY <2>2, <2>3, <2>5, <2>6, <2>7, NobodyWaitsAgain
<1>4. CASE SendMessage(w)
  <2>1. PICK then \in {"record", "fail"} : Goto(w, then)
    BY <1>4 DEF SendMessage
  <2>2. /\ pc[w] = "claimed" /\ UNCHANGED <<rows, poll, launches>>
        /\ lateSends' = IF status = "RUNNING" THEN lateSends
                        ELSE [lateSends EXCEPT ![w] = @ + 1]
    BY <1>4 DEF SendMessage
  <2>3. launches # 0 /\ (launches = 1 => AfterLaunch)
    BY <2>2, InHandIsLaunched DEF InHand
  <2>4. \A v \in Workers : CountedNone(v)' => CountedNone(v)
    BY <1>0, <2>1, <2>2 DEF CountedNone, Goto
  <2>5. ASSUME launches = 1 PROVE AfterLaunch'
    <3>1. AfterLaunch /\ Waiting' = Waiting /\ status' = status /\ recipient' = recipient
      BY <2>2, <2>3, <2>5 DEF rows, Waiting
    <3>2. lateSends[w] = 0 /\ pc'[w] # "claimed"
      BY <1>0, <2>1, <2>2, <3>1 DEF AfterLaunch, Goto
    <3>3. \A v \in Workers \ {w} : pc'[v] = pc[v] /\ lateSends'[v] = lateSends[v]
      BY <1>0, <2>1, <2>2 DEF Goto
    <3>4. lateSends'[w] <= 1 /\ (status = "RUNNING" => lateSends' = lateSends)
      BY <1>0, <2>2, <3>2
    <3>5. \A v \in Workers : lateSends'[v] <= 1 /\ (pc'[v] = "claimed" => lateSends'[v] = 0)
      BY <3>1, <3>2, <3>3, <3>4 DEF AfterLaunch
    <3> QED
      BY <2>4, <3>1, <3>4, <3>5 DEF AfterLaunch
  <2> QED
    BY <2>2, <2>3, <2>5 DEF LaunchInv
<1>5. CASE CountRows(w) \/ ReadStatus(w)
  <2>1. pc[w] \in InHand /\ UNCHANGED <<rows, history>>
    BY <1>5 DEF CountRows, ReadStatus, Poll, InHand
  <2>2. launches # 0
    BY <2>1, InHandIsLaunched
  <2>3. PICK x \in {"claim", "log", "complete", "finalize"} : Goto(w, x)
    BY <1>5 DEF CountRows, ReadStatus, Poll, Finished
  <2>4. \/ x \notin {"complete", "finalize"}
        \/ Waiting = {}
        \/ CountedNone(w)
        \/ x = "finalize" /\ "rows" \in poll'[w]
    <3>1. CASE CountRows(w)
      <4>1. CASE Waiting = {}
        BY <4>1
      <4>2. CASE Waiting # {}
        BY <1>0, <2>3, <3>1, <4>2 DEF CountRows, Poll, Finished, Goto
      <4> QED
        BY <4>1, <4>2
    <3>2. CASE ReadStatus(w)
      <4>1. pc[w] = "finalize" /\ "status" \in poll[w]
        BY <3>2 DEF ReadStatus, Poll
      <4>2. CASE "rows" \notin poll[w]
        BY <4>1, <4>2 DEF CountedNone
      <4>3. CASE "rows" \in poll[w] /\ status = "RUNNING"
        <5>1. /\ poll' = [poll EXCEPT ![w] = poll[w] \ {"status"}]
              /\ poll[w] # {"status"} => Goto(w, "finalize")
          BY <3>2, <4>3 DEF ReadStatus, Poll
        <5>2. "rows" \in poll'[w] /\ Goto(w, "finalize")
          BY <1>0, <4>3, <5>1
        <5> QED
          BY <1>0, <2>3, <5>2 DEF Goto
      <4>4. CASE status # "RUNNING"
        BY <1>0, <2>3, <3>2, <4>4 DEF ReadStatus, Poll, Finished, Goto
      <4> QED
        BY <4>2, <4>3, <4>4
    <3> QED
      BY <1>5, <3>1, <3>2
  <2>5. \A v \in Workers \ {w} : pc'[v] = pc[v] /\ poll'[v] = poll[v]
    BY <1>0, <1>5, <2>3 DEF CountRows, ReadStatus, Poll, Finished, Goto
  <2>6. \A v \in Workers : CountedNone(v)' => CountedNone(v) \/ Waiting = {}
    BY <1>0, <2>3, <2>4, <2>5 DEF CountedNone, Goto
  <2>7. \A v \in Workers : pc'[v] = "claimed" => pc[v] = "claimed"
    BY <1>0, <2>3, <2>5 DEF Goto
  <2> QED
    BY <2>1, <2>2, <2>6, <2>7, NobodyWaitsAgain DEF rows, history
<1>6. CASE Complete(w)
  <2>1. pc[w] = "complete" /\ UNCHANGED <<recipient, history>> /\ status' = "COMPLETED"
    BY <1>6 DEF Complete
  <2>2. launches # 0 /\ (launches = 1 => AfterLaunch)
    BY <2>1, InHandIsLaunched DEF InHand
  <2>3. PICK x \in {"claim", "log"} : Goto(w, x)
    BY <1>6 DEF Complete, Finished
  <2>4. ASSUME launches = 1 PROVE AfterLaunch'
    <3>1. AfterLaunch /\ Waiting = {}
      BY <2>1, <2>2, <2>4 DEF AfterLaunch, CountedNone
    <3>2. Waiting' = {} /\ \A c \in Conversations : recipient'[c] # "PENDING"
      BY <2>1, <3>1 DEF Waiting
    <3>3. \A v \in Workers : pc'[v] = "claimed" => pc[v] = "claimed"
      BY <1>0, <2>3 DEF Goto
    <3> QED
      BY <2>1, <3>1, <3>2, <3>3 DEF AfterLaunch, history
  <2> QED
    BY <2>1, <2>2, <2>4 DEF LaunchInv, history
<1> QED
  BY <1>1, <1>2, <1>3, <1>4, <1>5, <1>6 DEF WorkerStep

LEMMA NextLaunchInv ==
    ASSUME BroadcastAssumption, TypeInv, LaunchInv, [Next]_vars PROVE LaunchInv'
<1>1. CASE \E r \in Requests : RequestStep(r)
  BY <1>1, RequestLaunchInv
<1>2. CASE \E w \in Workers : WorkerStep(w) \/ WorkerThrows(w) \/ WorkerCrashes(w)
  BY <1>2, WorkerLaunchInv
<1>3. CASE TimePasses \/ LockExpires \/ UNCHANGED vars
  <2>1. UNCHANGED <<rows, locals, history>>
    BY <1>3 DEF TimePasses, LockExpires, vars
  <2> QED
    BY <2>1, NobodyWaitsAgain DEF rows, locals, history, CountedNone, LaunchInv, BeforeLaunch
<1> QED
  BY Zenon, <1>1, <1>2, <1>3 DEF Next

\* LaunchInv holds in every reachable state.
LEMMA LaunchCorrect == Spec => [](TypeInv /\ LaunchInv)
<1> USE BroadcastAssumption
<1>1. Init => TypeInv /\ LaunchInv
  BY InitTypeInv, InitLaunchInv
<1>2. TypeInv /\ LaunchInv /\ [Next]_vars => (TypeInv /\ LaunchInv)'
  BY NextTypeInv, NextLaunchInv
<1> QED
  BY <1>1, <1>2, PTL DEF Spec

\* A broadcast that was launched once sends at most one message per worker
\* after it was canceled, has completed or was deleted.
THEOREM LaunchedOnce == Spec => []CancelStopsSends
<1>1. TypeInv /\ LaunchInv => CancelStopsSends
  <2>1. SUFFICES ASSUME TypeInv, LaunchInv, launches <= 1
                 PROVE  \A w \in Workers : lateSends[w] <= 1
    BY DEF CancelStopsSends
  <2>2. launches = 0 \/ launches = 1
    BY <2>1 DEF TypeInv, TypeOK
  <2> QED
    BY <2>1, <2>2 DEF LaunchInv, BeforeLaunch, AfterLaunch
<1> QED
  BY <1>1, LaunchCorrect, PTL

\* It is not COMPLETED while a recipient waits, although maybeFinalizeBroadcast
\* counts, reads the status and writes in three steps.
THEOREM NobodyLeftWaiting == Spec => []CompletedLeavesNobody
<1>1. TypeInv /\ LaunchInv => CompletedLeavesNobody
  <2>1. SUFFICES ASSUME TypeInv, LaunchInv, launches <= 1, status = "COMPLETED"
                 PROVE  Waiting = {}
    BY DEF CompletedLeavesNobody
  <2>2. launches = 0 \/ launches = 1
    BY <2>1 DEF TypeInv, TypeOK
  <2> QED
    BY <2>1, <2>2 DEF LaunchInv, BeforeLaunch, AfterLaunch
<1> QED
  BY <1>1, LaunchCorrect, PTL

-----------------------------------------------------------------------------
(* What the rows tell *)

\* A worker gets to its catch block with a recipient only after a fault, and
\* what was sent is recorded, or about to be.
RecordInv ==
    /\ \A w \in Workers : pc[w] = "fail" => at[w] \in disturbed
    /\ \A c \in Conversations \ disturbed :
           sends[c] > 0 => \/ status = "DELETED" \/ recipient[c] = "SENT"
                           \/ \E w \in Workers : at[w] = c /\ pc[w] = "record"

\* What a request leaves alone.
LEMMA RequestsRest ==
    ASSUME BroadcastAssumption, TypeInv, NEW r \in Requests, RequestStep(r)
    PROVE  /\ UNCHANGED <<sends, at, todo, clock, disturbed>>
           /\ \A w \in Workers : pc'[w] = pc[w]
<1>1. \A w \in Workers : w # r
  BY DEF BroadcastAssumption
<1>2. \E x : Goto(r, x)
  BY Zenon DEF RequestStep, Commit, BeginLaunch, BeginCancel, BeginDelete, Begin, CommitLaunch,
         CommitCancel, CommitDelete, GiveUp
<1>3. \A w \in Workers : pc'[w] = pc[w]
  BY <1>1, <1>2 DEF Goto, TypeInv, TypeOK, Actors
<1>4. UNCHANGED <<sends, at, todo, clock, disturbed>>
  BY DEF RequestStep, Commit, BeginLaunch, BeginCancel, BeginDelete, Begin, CommitLaunch,
         CommitCancel, CommitDelete, GiveUp, history
<1> QED
  BY <1>3, <1>4

\* A step that sends, records and disturbs nothing.
LEMMA RecordStays ==
    ASSUME RecordInv, sends' = sends, disturbed \subseteq disturbed',
           \A w \in Workers : pc'[w] = "fail" => at'[w] \in disturbed',
           \A w \in Workers : pc[w] = "record" => pc'[w] = "record" /\ at'[w] = at[w],
           \A c \in Conversations : recipient[c] = "SENT" => recipient'[c] = "SENT" \/ status' = "DELETED",
           status = "DELETED" => status' = "DELETED"
    PROVE  RecordInv'
BY DEF RecordInv

LEMMA RequestRecordInv ==
    ASSUME BroadcastAssumption, TypeInv, RecordInv, NEW r \in Requests, RequestStep(r)
    PROVE  RecordInv'
<1>1. \A c \in Conversations : recipient[c] = "SENT" => recipient'[c] = "SENT" \/ status' = "DELETED"
  <2>1. CASE CommitLaunch(r)
    <3>1. PICK new \in SUBSET Conversations :
             /\ \A c \in new : recipient[c] = "none"
             /\ recipient' = [c \in Conversations |->
                                IF c \in new THEN "PENDING" ELSE recipient[c]]
      BY <2>1 DEF CommitLaunch
    <3> QED
      BY <3>1
  <2>2. CASE CommitCancel(r) \/ CommitDelete(r)
    BY <2>2 DEF CommitCancel, CommitDelete, Waiting
  <2> QED
    BY <2>1, <2>2
    DEF RequestStep, Commit, BeginLaunch, BeginCancel, BeginDelete, Begin, GiveUp, rows
<1>2. status = "DELETED" => status' = "DELETED"
  BY DEF RequestStep, Commit, BeginLaunch, BeginCancel, BeginDelete, Begin, GiveUp, rows,
         CommitLaunch, CommitCancel, CommitDelete
<1>3. \A w \in Workers : pc'[w] = "fail" => at'[w] \in disturbed'
  BY RequestsRest DEF RecordInv
<1> QED
  BY <1>1, <1>2, <1>3, RequestsRest, RecordStays

LEMMA WorkerRecordInv ==
    ASSUME BroadcastAssumption, TypeInv, OneInv, RecordInv, NEW w \in Workers,
           WorkerStep(w) \/ WorkerThrows(w) \/ WorkerCrashes(w)
    PROVE  RecordInv'
<1>0. /\ pc \in [Actors -> WorkerPC \cup RequestPC] /\ w \in Actors /\ Workers \subseteq Actors
      /\ at \in [Workers -> Conversations \cup {Nobody}]
      /\ recipient \in [Conversations -> RecipientStatus]
      /\ sends \in [Conversations -> Nat]
      /\ Nobody \notin Conversations /\ disturbed \subseteq Conversations
  BY DEF TypeInv, TypeOK, Actors, BroadcastAssumption
\* Steps of a worker with nothing to record that end at none of the two points.
<1>1. ASSUME NEW x, Goto(w, x), x # "fail", pc[w] # "record", sends' = sends,
             disturbed \subseteq disturbed',
             \A v \in Workers \ {w} : at'[v] = at[v],
             \A c \in Conversations : recipient[c] = "SENT" => recipient'[c] = "SENT",
             status = "DELETED" => status' = "DELETED"
      PROVE  RecordInv'
  <2>1. \A v \in Workers : pc'[v] = "fail" => at'[v] \in disturbed'
    BY <1>0, <1>1 DEF Goto, RecordInv
  <2>2. \A v \in Workers : pc[v] = "record" => pc'[v] = "record" /\ at'[v] = at[v]
    BY <1>0, <1>1 DEF Goto
  <2> QED
    BY <1>1, <2>1, <2>2, RecordStays
<1>2. CASE AcquireBatchLock(w) \/ Scan(w) \/ ReleaseBatchLock(w)
  <2>1. PICK x \in {"scan", "claim", "idle"} : Goto(w, x)
    BY <1>2 DEF AcquireBatchLock, Scan, ReleaseBatchLock
  <2>2. pc[w] # "record" /\ UNCHANGED <<sends, disturbed, at, recipient, status>>
    BY <1>2 DEF AcquireBatchLock, Scan, ReleaseBatchLock, rows, history
  <2> QED
    BY <1>1, <2>1, <2>2
<1>3. CASE Claim(w)
  <2>1. PICK c \in todo[w] :
           \/ /\ recipient[c] = "PENDING"
              /\ recipient' = [recipient EXCEPT ![c] = "QUEUED"]
              /\ at' = [at EXCEPT ![w] = c]
              /\ Goto(w, "claimed")
           \/ UNCHANGED <<recipient, at, pc>>
    BY <1>3 DEF Claim
  <2>2. pc[w] # "record" /\ UNCHANGED <<sends, disturbed, status>>
    BY <1>3 DEF Claim, history
  <2>3. CASE UNCHANGED <<recipient, at, pc>>
    BY <2>2, <2>3, RecordStays DEF RecordInv
  <2>4. CASE /\ recipient[c] = "PENDING"
             /\ recipient' = [recipient EXCEPT ![c] = "QUEUED"]
             /\ at' = [at EXCEPT ![w] = c]
             /\ Goto(w, "claimed")
    <3>1. \A d \in Conversations : recipient[d] = "SENT" => recipient'[d] = "SENT"
      BY <1>0, <2>4
    <3> QED
      BY <1>0, <1>1, <2>2, <2>4, <3>1
  <2> QED
    BY <2>1, <2>3, <2>4
<1>4. CASE SendMessage(w)
  <2>1. PICK then \in {"record", "fail"} :
           /\ Goto(w, then)
           /\ disturbed' = IF then = "fail" THEN disturbed \cup {at[w]} ELSE disturbed
    BY <1>4 DEF SendMessage
  <2>2. /\ pc[w] = "claimed" /\ at[w] \in Conversations
        /\ UNCHANGED <<at, recipient, status>>
        /\ sends' = [sends EXCEPT ![at[w]] = @ + 1]
    BY <1>4 DEF SendMessage, rows, TypeInv, HandsOK, InHand
  <2>3. /\ \A v \in Workers : pc'[v] = IF v = w THEN then ELSE pc[v]
        /\ \A c \in Conversations \ {at[w]} : sends'[c] = sends[c]
        /\ disturbed \subseteq disturbed'
    BY <1>0, <2>1, <2>2 DEF Goto
  <2>4. \A v \in Workers : pc'[v] = "fail" => at'[v] \in disturbed'
    BY <2>1, <2>2, <2>3 DEF RecordInv
  <2>5. \A v \in Workers : pc[v] = "record" => pc'[v] = "record"
    BY <2>2, <2>3
  <2>6. \A c \in Conversations \ disturbed' :
           sends'[c] > 0 => \/ status' = "DELETED" \/ recipient'[c] = "SENT"
                            \/ \E v \in Workers : at'[v] = c /\ pc'[v] = "record"
    <3>1. SUFFICES ASSUME NEW c \in Conversations \ disturbed', sends'[c] > 0
                   PROVE  \/ status' = "DELETED" \/ recipient'[c] = "SENT"
                          \/ \E v \in Workers : at'[v] = c /\ pc'[v] = "record"
      OBVIOUS
    <3>2. CASE c = at[w]
      <4>1. then = "record"
        BY <2>1, <3>1, <3>2
      <4> QED
        BY <2>2, <2>3, <3>2, <4>1
    <3>3. CASE c # at[w]
      BY <2>2, <2>3, <2>5, <3>1, <3>3 DEF RecordInv
    <3> QED
      BY <3>2, <3>3
  <2> QED
    BY <2>4, <2>6 DEF RecordInv
\* The row was claimed and not sent to: it is not one that says SENT.
<1>5. CASE Refuse(w)
  <2>1. PICK outcome \in {"SKIPPED", "FAILED"} : Write(w, outcome)
    BY <1>5 DEF Refuse
  <2>2. /\ pc[w] = "claimed" /\ at[w] \in Conversations /\ Goto(w, "finalize")
        /\ UNCHANGED <<sends, disturbed, at, status>>
    BY <1>5 DEF Refuse, Conclude, history, TypeInv, HandsOK, InHand
  <2>3. sends[at[w]] = 0
    BY <2>2 DEF OneInv, ClaimsOK
  <2>4. \A v \in Workers : pc'[v] = IF v = w THEN "finalize" ELSE pc[v]
    BY <1>0, <2>2 DEF Goto
  <2>5. \A c \in Conversations \ {at[w]} : recipient'[c] = recipient[c]
    BY <1>0, <2>1, <2>2 DEF Write
  <2>6. \A v \in Workers : pc'[v] = "fail" => at'[v] \in disturbed'
    BY <2>2, <2>4 DEF RecordInv
  <2>7. \A c \in Conversations \ disturbed' :
           sends'[c] > 0 => \/ status' = "DELETED" \/ recipient'[c] = "SENT"
                            \/ \E v \in Workers : at'[v] = c /\ pc'[v] = "record"
    <3>1. SUFFICES ASSUME NEW c \in Conversations \ disturbed, sends[c] > 0
                   PROVE  \/ status = "DELETED" \/ recipient'[c] = "SENT"
                          \/ \E v \in Workers : at[v] = c /\ pc'[v] = "record"
      BY <2>2
    <3>2. c # at[w]
      BY <1>0, <2>3, <3>1
    <3> QED
      BY <2>2, <2>4, <2>5, <3>1, <3>2 DEF RecordInv
  <2> QED
    BY <2>6, <2>7 DEF RecordInv
<1>6. CASE Record(w)
  <2>1. /\ pc[w] = "record" /\ at[w] \in Conversations /\ Goto(w, "finalize")
        /\ UNCHANGED <<sends, disturbed, at, status>>
        /\ recipient' = [recipient EXCEPT ![at[w]] = "SENT"]
    BY <1>6 DEF Record, Write, Conclude, history, TypeInv, HandsOK, InHand
  <2>2. \A v \in Workers : pc'[v] = IF v = w THEN "finalize" ELSE pc[v]
    BY <1>0, <2>1 DEF Goto
  <2>3. \A c \in Conversations : recipient'[c] = IF c = at[w] THEN "SENT" ELSE recipient[c]
    BY <1>0, <2>1
  <2>4. \A v \in Workers : pc'[v] = "fail" => at'[v] \in disturbed'
    BY <2>1, <2>2 DEF RecordInv
  <2>5. \A c \in Conversations \ disturbed' :
           sends'[c] > 0 => \/ status' = "DELETED" \/ recipient'[c] = "SENT"
                            \/ \E v \in Workers : at'[v] = c /\ pc'[v] = "record"
    BY <2>1, <2>2, <2>3 DEF RecordInv
  <2> QED
    BY <2>4, <2>5 DEF RecordInv
\* The catch block only fails what a fault hit.
<1>7. CASE Fail(w)
  <2>1. /\ pc[w] = "fail" /\ at[w] \in disturbed /\ Goto(w, "finalize")
        /\ UNCHANGED <<sends, disturbed, at, status>>
        /\ recipient' = [recipient EXCEPT ![at[w]] = "FAILED"]
    BY <1>7 DEF Fail, Write, Conclude, history, RecordInv
  <2>2. \A v \in Workers : pc'[v] = IF v = w THEN "finalize" ELSE pc[v]
    BY <1>0, <2>1 DEF Goto
  <2>3. \A c \in Conversations \ disturbed : recipient'[c] = recipient[c]
    BY <1>0, <2>1
  <2>4. \A v \in Workers : pc'[v] = "fail" => at'[v] \in disturbed'
    BY <2>1, <2>2 DEF RecordInv
  <2>5. \A c \in Conversations \ disturbed' :
           sends'[c] > 0 => \/ status' = "DELETED" \/ recipient'[c] = "SENT"
                            \/ \E v \in Workers : at'[v] = c /\ pc'[v] = "record"
    BY <2>1, <2>2, <2>3 DEF RecordInv
  <2> QED
    BY <2>4, <2>5 DEF RecordInv
<1>8. CASE CountRows(w) \/ ReadStatus(w) \/ Complete(w) \/ Log(w)
  <2>1. PICK x \in {"claim", "log", "complete", "finalize"} : Goto(w, x)
    BY <1>8 DEF CountRows, ReadStatus, Complete, Log, Poll, Finished
  <2>2. /\ UNCHANGED <<recipient, sends, disturbed>>
        /\ \A v \in Workers \ {w} : at'[v] = at[v]
    BY <1>0, <1>8 DEF CountRows, ReadStatus, Complete, Log, Poll, Finished, rows, history
  <2>3. pc[w] # "record" /\ (status = "DELETED" => status' = "DELETED")
    BY <1>8 DEF CountRows, ReadStatus, Complete, Log, Poll, rows
  <2> QED
    BY <1>1, <2>1, <2>2, <2>3
\* A fault disturbs the recipient at hand.
<1>9. CASE WorkerThrows(w) \/ WorkerCrashes(w)
  <2>1. PICK x \in {"fail", "unlock", "idle"} : Goto(w, x)
    BY <1>9 DEF WorkerThrows, WorkerCrashes
  <2>2. UNCHANGED <<recipient, sends, status>>
    BY <1>9 DEF WorkerThrows, WorkerCrashes, rows
  <2>3. /\ disturbed' = disturbed \cup ({at[w]} \ {Nobody}) \/ disturbed' = disturbed \cup {at[w]}
        /\ x = "fail" => at' = at /\ disturbed' = disturbed \cup {at[w]}
        /\ \A v \in Workers \ {w} : at'[v] = at[v]
    BY <1>0, <1>9, <2>1 DEF WorkerThrows, WorkerCrashes, Drop, Goto
  <2>4. \A v \in Workers : pc'[v] = IF v = w THEN x ELSE pc[v]
    BY <1>0, <2>1 DEF Goto
  <2>5. \A v \in Workers : pc'[v] = "fail" => at'[v] \in disturbed'
    BY <2>3, <2>4 DEF RecordInv
  <2>6. \A c \in Conversations \ disturbed' :
           sends'[c] > 0 => \/ status' = "DELETED" \/ recipient'[c] = "SENT"
                            \/ \E v \in Workers : at'[v] = c /\ pc'[v] = "record"
    <3>1. SUFFICES ASSUME NEW c \in Conversations \ disturbed', sends[c] > 0
                   PROVE  \/ status = "DELETED" \/ recipient[c] = "SENT"
                          \/ \E v \in Workers : at'[v] = c /\ pc'[v] = "record"
      BY <2>2
    <3>2. c \notin disturbed /\ c # at[w]
      BY <1>0, <2>3, <3>1
    <3> QED
      BY <2>3, <2>4, <3>1, <3>2 DEF RecordInv
  <2> QED
    BY <2>5, <2>6 DEF RecordInv
<1> QED
  BY <1>2, <1>3, <1>4, <1>5, <1>6, <1>7, <1>8, <1>9 DEF WorkerStep

LEMMA NextRecordInv ==
    ASSUME BroadcastAssumption, TypeInv, OneInv, RecordInv, [Next]_vars PROVE RecordInv'
<1>1. CASE \E r \in Requests : RequestStep(r)
  BY <1>1, RequestRecordInv
<1>2. CASE \E w \in Workers : WorkerStep(w) \/ WorkerThrows(w) \/ WorkerCrashes(w)
  BY <1>2, WorkerRecordInv
<1>3. CASE TimePasses \/ LockExpires \/ UNCHANGED vars
  BY <1>3, RecordStays DEF TimePasses, LockExpires, vars, rows, locals, history, RecordInv
<1> QED
  BY Zenon, <1>1, <1>2, <1>3 DEF Next

\* However requests and batches overlap, a recipient's row says SENT when its
\* message went out, unless a fault hit it or its record is just to be written:
\* a cancel in between does not hide the send.
THEOREM RecordsAreTrue == Spec => []RecordTellsTheTruth
<1> USE BroadcastAssumption
<1>1. Init => TypeInv /\ OneInv /\ RecordInv
  <2>1. Init => RecordInv
    <3>1. Init => \A w \in Workers : pc[w] = "idle"
      BY DEF Init, Actors
    <3> QED
      BY <3>1 DEF Init, RecordInv
  <2> QED
    BY <2>1, InitTypeInv, InitOneInv
<1>2. TypeInv /\ OneInv /\ RecordInv /\ [Next]_vars => (TypeInv /\ OneInv /\ RecordInv)'
  BY NextTypeInv, NextOneInv, NextRecordInv
<1>3. RecordInv => RecordTellsTheTruth
  BY DEF RecordInv, RecordTellsTheTruth
<1> QED
  BY <1>1, <1>2, <1>3, PTL DEF Spec


-----------------------------------------------------------------------------
(* The pace of a broadcast *)

Claimed(c) == \E w \in Workers : pc[w] = "claimed" /\ at[w] = c

\* The recipients a launch has made due by interval k, those included that
\* were deleted after they were claimed.
DueBy(k) == {c \in Conversations :
                 dueAt[c] <= k /\ (recipient[c] # "none" \/ sends[c] > 0 \/ Claimed(c))}

\* What was read, claimed or sent was due, and every launch makes at most one
\* batch due per interval.
PaceInv ==
    /\ \A w \in Workers : \A c \in todo[w] :
           dueAt[c] <= clock /\ (recipient[c] # "none" \/ status = "DELETED")
    /\ \A c \in Conversations : Claimed(c) \/ sends[c] > 0 => dueAt[c] <= clock
    /\ \A k \in Nat : Cardinality(DueBy(k)) <= launches * (BatchSize * (k + 1))

\* What a worker has in hand was claimed.
HeldOK == \A w \in Workers : pc[w] \in InHand => Spent(at[w])

LEMMA NextHeldOK ==
    ASSUME BroadcastAssumption, TypeInv, OneInv, HeldOK, [Next]_vars PROVE HeldOK'
<1>0. /\ pc \in [Actors -> WorkerPC \cup RequestPC] /\ Workers \subseteq Actors
      /\ at \in [Workers -> Conversations \cup {Nobody}]
      /\ recipient \in [Conversations -> RecipientStatus]
      /\ \A w \in Workers : pc[w] \in InHand => at[w] \in Conversations
  BY DEF TypeInv, TypeOK, Actors, HandsOK
<1>1. ASSUME \A c \in Conversations : Spent(c) => Spent(c)',
             \A w \in Workers : pc'[w] \in InHand => pc[w] \in InHand /\ at'[w] = at[w]
      PROVE  HeldOK'
  <2>1. SUFFICES ASSUME NEW w \in Workers, pc'[w] \in InHand PROVE Spent(at[w])'
    BY DEF HeldOK
  <2>2. at'[w] = at[w] /\ at[w] \in Conversations /\ Spent(at[w])
    BY <1>0, <1>1, <2>1 DEF HeldOK
  <2> QED
    BY <1>1, <2>2 DEF Spent
<1>2. ASSUME NEW r \in Requests, RequestStep(r) PROVE HeldOK'
  <2>1. \A c \in Conversations : Spent(c) => Spent(c)'
    <3>1. CASE CommitLaunch(r)
      <4>1. PICK new \in SUBSET Conversations :
               /\ \A c \in new : recipient[c] = "none"
               /\ recipient' = [c \in Conversations |->
                                  IF c \in new THEN "PENDING" ELSE recipient[c]]
        BY <3>1 DEF CommitLaunch
      <4> QED
        BY <3>1, <4>1 DEF CommitLaunch, Spent
    <3>2. CASE CommitCancel(r) \/ CommitDelete(r)
      BY <3>2 DEF CommitCancel, CommitDelete, Spent, Waiting
    <3> QED
      BY <1>2, <3>1, <3>2
      DEF RequestStep, Commit, BeginLaunch, BeginCancel, BeginDelete, Begin, GiveUp, rows, Spent
  <2> QED
    BY <1>1, <1>2, <2>1, RequestsRest
<1>3. ASSUME NEW w \in Workers, Claim(w) PROVE HeldOK'
  <2>1. PICK c \in todo[w] :
           \/ /\ recipient[c] = "PENDING"
              /\ recipient' = [recipient EXCEPT ![c] = "QUEUED"]
              /\ at' = [at EXCEPT ![w] = c]
              /\ Goto(w, "claimed")
           \/ UNCHANGED <<recipient, at, pc>>
    BY <1>3 DEF Claim
  <2>2. c \in Conversations /\ status' = status
    BY <1>3 DEF Claim, TypeInv, TypeOK
  <2>3. CASE UNCHANGED <<recipient, at, pc>>
    BY <1>1, <2>2, <2>3 DEF Spent
  <2>4. CASE /\ recipient[c] = "PENDING"
             /\ recipient' = [recipient EXCEPT ![c] = "QUEUED"]
             /\ at' = [at EXCEPT ![w] = c]
             /\ Goto(w, "claimed")
    <3>1. Spent(c)' /\ \A d \in Conversations : Spent(d) => Spent(d)'
      BY <1>0, <2>2, <2>4 DEF Spent
    <3>2. SUFFICES ASSUME NEW v \in Workers, pc'[v] \in InHand PROVE Spent(at[v])'
      BY DEF HeldOK
    <3>3. CASE v = w
      BY <1>0, <2>4, <3>1, <3>3 DEF Spent
    <3>4. CASE v # w
      <4>1. at'[v] = at[v] /\ pc'[v] = pc[v]
        BY <1>0, <2>4, <3>4 DEF Goto
      <4>2. at[v] \in Conversations /\ Spent(at[v])
        BY <1>0, <3>2, <4>1 DEF HeldOK
      <4> QED
        BY <3>1, <4>1, <4>2 DEF Spent
    <3> QED
      BY <3>3, <3>4
  <2> QED
    BY <2>1, <2>3, <2>4
<1>4. ASSUME NEW w \in Workers, NEW x, Goto(w, x), x \in InHand => pc[w] \in InHand /\ at'[w] = at[w],
             \A v \in Workers \ {w} : at'[v] = at[v],
             \A c \in Conversations : Spent(c) => Spent(c)'
      PROVE  HeldOK'
  <2>1. \A v \in Workers : pc'[v] \in InHand => pc[v] \in InHand /\ at'[v] = at[v]
    BY <1>0, <1>4 DEF Goto
  <2> QED
    BY <1>1, <1>4, <2>1
<1>5. ASSUME NEW w \in Workers, SendMessage(w) \/ Refuse(w) \/ Record(w) \/ Fail(w) PROVE HeldOK'
  <2>1. PICK x : Goto(w, x)
    BY <1>5 DEF SendMessage, Refuse, Record, Fail, Conclude
  <2>2. at' = at /\ pc[w] \in InHand
    BY <1>5 DEF SendMessage, Refuse, Record, Fail, InHand
  <2>3. \A c \in Conversations : Spent(c) => Spent(c)'
    BY <1>0, <1>5, <2>2 DEF SendMessage, Refuse, Record, Fail, Write, Spent, rows
  <2> QED
    BY <1>4, <2>1, <2>2, <2>3
<1>6. ASSUME NEW w \in Workers, CountRows(w) \/ ReadStatus(w) \/ Complete(w) \/ Log(w) PROVE HeldOK'
  <2>1. /\ \A v \in Workers \ {w} : at'[v] = at[v]
        /\ \A c \in Conversations : Spent(c) => Spent(c)'
    BY <1>0, <1>6 DEF CountRows, ReadStatus, Complete, Log, Poll, Finished, rows, Spent
  <2>2. pc[w] \in InHand
    BY <1>6 DEF CountRows, ReadStatus, Complete, Log, Poll, InHand
  <2>3. \/ Goto(w, "claim")
        \/ \E x : Goto(w, x) /\ at' = at
    BY <1>6 DEF CountRows, ReadStatus, Complete, Log, Poll, Finished
  <2>4. "claim" \notin InHand
    BY DEF InHand
  <2> QED
    BY <1>4, <2>1, <2>2, <2>3, <2>4
<1>7. ASSUME NEW w \in Workers, AcquireBatchLock(w) \/ Scan(w) \/ ReleaseBatchLock(w) PROVE HeldOK'
  <2>1. PICK x \in {"scan", "claim", "idle"} : Goto(w, x)
    BY <1>7 DEF AcquireBatchLock, Scan, ReleaseBatchLock
  <2>2. x \notin InHand
    BY DEF InHand
  <2>3. UNCHANGED <<at, recipient, status>>
    BY <1>7 DEF AcquireBatchLock, Scan, ReleaseBatchLock, rows
  <2> QED
    BY <1>4, <2>1, <2>2, <2>3 DEF Spent
<1>8. ASSUME NEW w \in Workers, WorkerThrows(w) \/ WorkerCrashes(w) PROVE HeldOK'
  <2>1. UNCHANGED <<recipient, status>>
    BY <1>8 DEF WorkerThrows, WorkerCrashes, rows
  <2>2. CASE InTry(w) /\ Goto(w, "fail") /\ at' = at
    <3>1. pc[w] \in InHand
      BY <2>2 DEF InTry, InHand
    <3> QED
      BY <1>4, <2>1, <2>2, <3>1 DEF Spent
  <2>3. ASSUME NEW x \in {"unlock", "idle"}, Goto(w, x), at' = [at EXCEPT ![w] = Nobody]
        PROVE  HeldOK'
    <3>1. x \notin InHand /\ \A v \in Workers \ {w} : at'[v] = at[v]
      BY <1>0, <2>3 DEF InHand
    <3> QED
      BY <1>4, <2>1, <2>3, <3>1 DEF Spent
  <2> QED
    BY <1>8, <2>2, <2>3 DEF WorkerThrows, WorkerCrashes, Drop
<1>9. CASE TimePasses \/ LockExpires \/ UNCHANGED vars
  BY <1>1, <1>9 DEF TimePasses, LockExpires, vars, rows, locals, Spent
<1> QED
  BY <1>2, <1>3, <1>5, <1>6, <1>7, <1>8, <1>9 DEF Next, WorkerStep

\* A batch has room for BatchSize indices.
LEMMA IndexBound ==
    ASSUME NEW b \in Nat, b > 0, NEW i \in Nat, NEW k \in Nat, i \div b <= k
    PROVE  i < b * (k + 1)
<1>1. PICK q \in Nat : q = i \div b
  OBVIOUS
<1>2. i < b * (q + 1)
  BY <1>1
<1>3. b * (q + 1) <= b * (k + 1)
  BY <1>1
<1> QED
  BY <1>2, <1>3

\* The recipients a launch makes due by interval k fit in k + 1 batches.
LEMMA LaunchBatches ==
    ASSUME BroadcastAssumption, NEW start \in Nat, NEW audience \in SUBSET Conversations,
           NEW order \in Orders(audience), NEW k \in Nat
    PROVE  LET S == {c \in audience : DueAt(start, order[c]) <= k}
           IN  IsFiniteSet(S) /\ Cardinality(S) <= BatchSize * (k + 1)
<1> DEFINE S == {c \in audience : DueAt(start, order[c]) <= k}
           n == BatchSize * (k + 1)
           f == [c \in S |-> order[c]]
<1>1. BatchSize \in Nat /\ BatchSize > 0 /\ n \in Nat
  BY DEF BroadcastAssumption
<1>2. \A c \in S : order[c] \in 0 .. (n - 1)
  <2>1. SUFFICES ASSUME NEW c \in S PROVE order[c] \in 0 .. (n - 1)
    OBVIOUS
  <2>2. order[c] \in Nat
    BY OrdersTyped
  <2>3. order[c] \div BatchSize \in Nat /\ start + (order[c] \div BatchSize) <= k
    BY <1>1, <2>2 DEF DueAt
  <2>4. order[c] \div BatchSize <= k
    BY <2>3
  <2>5. order[c] < n
    BY <1>1, <2>2, <2>4, IndexBound
  <2> QED
    BY <1>1, <2>2, <2>5
<1>3. f \in Injection(S, 0 .. (n - 1))
  <2>1. f \in [S -> 0 .. (n - 1)]
    BY <1>2
  <2>2. \A c, d \in S : f[c] = f[d] => c = d
    BY DEF Orders
  <2>3. IsInjective(f)
    BY <2>2 DEF IsInjective
  <2> QED
    BY <2>1, <2>3 DEF Injection
<1>4. IsFiniteSet(0 .. (n - 1)) /\ Cardinality(0 .. (n - 1)) = n
  <2> HIDE DEF n
  <2>1. 0 \in Int /\ n - 1 \in Int /\ (0 > n - 1 => n = 0)
    BY <1>1
  <2>2. IsFiniteSet(0 .. (n - 1)) /\ Cardinality(0 .. (n - 1)) = IF 0 > n - 1 THEN 0 ELSE n - 1 - 0 + 1
    BY <2>1, FS_Interval
  <2> QED
    BY <1>1, <2>1, <2>2
<1> HIDE DEF S, n, f
<1>5. IsFiniteSet(S) /\ Cardinality(S) <= Cardinality(0 .. (n - 1))
  BY <1>3, <1>4, FS_Injection
<1> QED
  BY <1>4, <1>5 DEF S, n

LEMMA DueByFinite ==
    ASSUME BroadcastAssumption, NEW k
    PROVE  IsFiniteSet(DueBy(k)) /\ IsFiniteSet(DueBy(k)') /\ Cardinality(DueBy(k)) \in Nat
           /\ Cardinality(DueBy(k)') \in Nat
<1>1. DueBy(k) \subseteq Conversations /\ DueBy(k)' \subseteq Conversations
  BY DEF DueBy
<1> QED
  BY <1>1, FS_Subset, FS_CardinalityType DEF BroadcastAssumption

\* Steps that launch, read and send nothing.
LEMMA PaceStays ==
    ASSUME BroadcastAssumption, TypeInv, PaceInv,
           launches' = launches, dueAt' = dueAt, clock' = clock \/ clock' = clock + 1,
           \A w \in Workers : todo'[w] \subseteq todo[w],
           status = "DELETED" => status' = "DELETED",
           \A c \in Conversations : recipient'[c] # "none" => recipient[c] # "none",
           \A c \in Conversations : recipient[c] # "none" => recipient'[c] # "none" \/ status' = "DELETED",
           \A c \in Conversations : Claimed(c)' =>
               Claimed(c) \/ (recipient[c] # "none" /\ dueAt[c] <= clock),
           \A c \in Conversations : sends'[c] > 0 => sends[c] > 0 \/ Claimed(c)
    PROVE  PaceInv'
<1>0. clock \in Nat /\ dueAt \in [Conversations -> Nat] /\ launches \in Nat
      /\ todo \in [Workers -> SUBSET Conversations]
  BY DEF TypeInv, TypeOK
<1>1. \A w \in Workers : \A c \in todo'[w] :
          dueAt'[c] <= clock' /\ (recipient'[c] # "none" \/ status' = "DELETED")
  BY <1>0 DEF PaceInv
<1>2. \A c \in Conversations : Claimed(c)' \/ sends'[c] > 0 => dueAt'[c] <= clock'
  BY <1>0 DEF PaceInv
<1>3. ASSUME NEW k \in Nat PROVE Cardinality(DueBy(k)') <= launches' * (BatchSize * (k + 1))
  <2>1. DueBy(k)' \subseteq DueBy(k)
    BY DEF DueBy
  <2>2. Cardinality(DueBy(k)') <= Cardinality(DueBy(k))
    BY <2>1, DueByFinite, FS_Subset
  <2>3. Cardinality(DueBy(k)) <= launches * (BatchSize * (k + 1))
    BY DEF PaceInv
  <2>4. launches * (BatchSize * (k + 1)) \in Nat
    BY <1>0 DEF BroadcastAssumption
  <2> QED
    BY <2>2, <2>3, <2>4, DueByFinite
<1> QED
  BY <1>1, <1>2, <1>3 DEF PaceInv

\* The launch: only recipients without a row get one.
LEMMA LaunchPace ==
    ASSUME BroadcastAssumption, TypeInv, OneInv, PaceInv, NEW r \in Requests, CommitLaunch(r)
    PROVE  PaceInv'
<1>0. /\ clock \in Nat /\ dueAt \in [Conversations -> Nat] /\ launches \in Nat
      /\ todo \in [Workers -> SUBSET Conversations] /\ base[r] \in Nat
      /\ at \in [Workers -> Conversations \cup {Nobody}]
      /\ BatchSize \in Nat
  BY DEF TypeInv, TypeOK, BroadcastAssumption
<1>1. PICK audience \in SUBSET Conversations \ {{}} : \E order \in Orders(audience) :
          LET new == {c \in audience : recipient[c] = "none"} IN
          /\ recipient' = [c \in Conversations |->
                 IF c \in new THEN "PENDING" ELSE recipient[c]]
          /\ dueAt' = [c \in Conversations |->
                 IF c \in new THEN DueAt(base[r], order[c]) ELSE dueAt[c]]
  BY DEF CommitLaunch
<1>2. PICK order \in Orders(audience) :
          LET new == {c \in audience : recipient[c] = "none"} IN
          /\ recipient' = [c \in Conversations |->
                 IF c \in new THEN "PENDING" ELSE recipient[c]]
          /\ dueAt' = [c \in Conversations |->
                 IF c \in new THEN DueAt(base[r], order[c]) ELSE dueAt[c]]
  BY <1>1
<1> DEFINE new == {c \in audience : recipient[c] = "none"}
<1>3. /\ status # "DELETED" /\ launches' = launches + 1
      /\ UNCHANGED <<clock, todo, at, sends>>
      /\ \A w \in Workers : pc'[w] = pc[w]
  BY RequestsRest DEF CommitLaunch, RequestStep, Commit
<1>4. \A c \in Conversations : Claimed(c) \/ sends[c] > 0 => recipient[c] # "none"
  BY <1>3 DEF OneInv, ClaimsOK, SendsOK, Spent, Claimed
<1>5. \A c \in Conversations : Claimed(c)' <=> Claimed(c)
  BY <1>3 DEF Claimed
<1>6. \A c \in Conversations : recipient[c] # "none" =>
          recipient'[c] = recipient[c] /\ dueAt'[c] = dueAt[c]
  BY <1>2
<1>7. \A w \in Workers : \A c \in todo'[w] :
          dueAt'[c] <= clock' /\ (recipient'[c] # "none" \/ status' = "DELETED")
  BY <1>0, <1>3, <1>6 DEF PaceInv
<1>8. \A c \in Conversations : Claimed(c)' \/ sends'[c] > 0 => dueAt'[c] <= clock'
  BY <1>3, <1>4, <1>5, <1>6 DEF PaceInv
<1>9. ASSUME NEW k \in Nat PROVE Cardinality(DueBy(k)') <= launches' * (BatchSize * (k + 1))
  <2> DEFINE S == {c \in audience : DueAt(base[r], order[c]) <= k}
             n == BatchSize * (k + 1)
  <2>1. IsFiniteSet(S) /\ Cardinality(S) <= n
    BY <1>0, LaunchBatches
  <2>2. DueBy(k)' \subseteq DueBy(k) \cup S
    <3>1. SUFFICES ASSUME NEW c \in DueBy(k)', c \notin DueBy(k) PROVE c \in S
      OBVIOUS
    <3>2. c \in Conversations /\ dueAt'[c] <= k
      BY <3>1 DEF DueBy
    <3>3. recipient[c] = "none"
      BY <1>6, <3>1, <3>2 DEF DueBy
    <3>4. c \in new
      BY <1>2, <1>3, <1>4, <1>5, <3>1, <3>2, <3>3 DEF DueBy
    <3> QED
      BY <1>2, <3>2, <3>4
  <2>3. /\ IsFiniteSet(DueBy(k) \cup S)
        /\ Cardinality(DueBy(k) \cup S)
             = Cardinality(DueBy(k)) + Cardinality(S) - Cardinality(DueBy(k) \cap S)
    BY <2>1, DueByFinite, FS_Union
  <2>4. Cardinality(DueBy(k) \cap S) \in Nat /\ Cardinality(S) \in Nat
    BY <2>1, FS_Intersection, FS_CardinalityType
  <2>5. Cardinality(DueBy(k)') <= Cardinality(DueBy(k) \cup S)
    BY <2>2, <2>3, FS_Subset
  <2>6. Cardinality(DueBy(k)) <= launches * n /\ n \in Nat
    BY <1>0 DEF PaceInv
  <2>7. launches * n \in Nat /\ (launches + 1) * n = launches * n + n
    BY <1>0, <2>6
  <2>8. Cardinality(DueBy(k)') <= launches * n + n
    <3> HIDE DEF n, S
    <3>1. Cardinality(DueBy(k)') \in Nat /\ Cardinality(DueBy(k)) \in Nat
      BY DueByFinite
    <3>2. Cardinality(DueBy(k) \cup S) \in Nat
      BY <2>3, FS_CardinalityType
    <3> QED
      BY <2>1, <2>3, <2>4, <2>5, <2>6, <2>7, <3>1, <3>2
  <2> QED
    BY <1>3, <2>7, <2>8
<1> QED
  BY <1>7, <1>8, <1>9 DEF PaceInv


LEMMA NextPaceInv ==
    ASSUME BroadcastAssumption, TypeInv, OneInv, HeldOK, PaceInv, [Next]_vars PROVE PaceInv'
<1>0. /\ clock \in Nat /\ todo \in [Workers -> SUBSET Conversations]
      /\ pc \in [Actors -> WorkerPC \cup RequestPC] /\ Workers \subseteq Actors
      /\ at \in [Workers -> Conversations \cup {Nobody}]
      /\ recipient \in [Conversations -> RecipientStatus]
      /\ sends \in [Conversations -> Nat]
  BY DEF TypeInv, TypeOK, Actors
<1>1. ASSUME NEW r \in Requests, RequestStep(r) PROVE PaceInv'
  <2>1. CASE CommitLaunch(r)
    BY <2>1, LaunchPace
  <2>2. CASE ~ CommitLaunch(r)
    <3>1. launches' = launches /\ dueAt' = dueAt
      BY <1>1, <2>2 DEF RequestStep, Commit, BeginLaunch, BeginCancel, BeginDelete, Begin,
         CommitCancel, CommitDelete, GiveUp, rows, history
    <3>2. /\ status = "DELETED" => status' = "DELETED"
          /\ \A c \in Conversations : recipient'[c] # "none" => recipient[c] # "none"
          /\ \A c \in Conversations :
                recipient[c] # "none" => recipient'[c] # "none" \/ status' = "DELETED"
      BY <1>1, <2>2 DEF RequestStep, Commit, BeginLaunch, BeginCancel, BeginDelete, Begin,
         CommitCancel, CommitDelete, GiveUp, rows, Waiting
    <3>3. \A c \in Conversations : Claimed(c)' <=> Claimed(c)
      BY <1>1, RequestsRest DEF Claimed
    <3> QED
      BY <1>1, <3>1, <3>2, <3>3, RequestsRest, PaceStays
  <2> QED
    BY <2>1, <2>2
\* Steps of a worker that neither read, claim nor send.
<1>2. ASSUME NEW w \in Workers, NEW x, Goto(w, x), x # "claimed",
             UNCHANGED <<launches, dueAt, clock, sends>>,
             \A v \in Workers : todo'[v] \subseteq todo[v],
             \A v \in Workers \ {w} : at'[v] = at[v],
             status = "DELETED" => status' = "DELETED",
             \A c \in Conversations : recipient'[c] # "none" <=> recipient[c] # "none"
      PROVE  PaceInv'
  <2>1. \A c \in Conversations : Claimed(c)' => Claimed(c)
    BY <1>0, <1>2 DEF Claimed, Goto
  <2> QED
    BY <1>2, <2>1, PaceStays
<1>3. ASSUME NEW w \in Workers, Scan(w) PROVE PaceInv'
  <2>1. PICK ready \in SUBSET Conversations :
            /\ \A c \in ready : recipient[c] = "PENDING" /\ dueAt[c] <= clock
            /\ \E taken \in SUBSET ready : todo' = [todo EXCEPT ![w] = taken]
    <3> DEFINE R == IF status # "RUNNING" THEN {}
                    ELSE {c \in Conversations : recipient[c] = "PENDING" /\ dueAt[c] <= clock}
    <3>1. /\ R \in SUBSET Conversations
          /\ \A c \in R : recipient[c] = "PENDING" /\ dueAt[c] <= clock
      OBVIOUS
    <3>2. \E taken \in SUBSET R : todo' = [todo EXCEPT ![w] = taken]
      BY <1>3 DEF Scan, kSubset
    <3> HIDE DEF R
    <3> QED
      BY <3>1, <3>2
  <2>2. UNCHANGED <<launches, dueAt, clock, sends, recipient, status, at>>
    BY <1>3 DEF Scan, rows, history
  <2>3. \A v \in Workers : \A c \in todo'[v] :
            dueAt'[c] <= clock' /\ (recipient'[c] # "none" \/ status' = "DELETED")
    BY <1>0, <2>1, <2>2 DEF PaceInv
  <2>4. \A v \in Workers : pc'[v] = "claimed" <=> pc[v] = "claimed"
    BY <1>0, <1>3 DEF Scan, Goto
  <2>5. \A c \in Conversations : Claimed(c)' <=> Claimed(c)
    BY <2>2, <2>4 DEF Claimed
  <2>6. \A k \in Nat : DueBy(k)' = DueBy(k)
    BY <2>2, <2>5 DEF DueBy
  <2> QED
    BY <2>2, <2>3, <2>5, <2>6 DEF PaceInv
<1>4. ASSUME NEW w \in Workers, Claim(w) PROVE PaceInv'
  <2>1. PICK c \in todo[w] :
           /\ todo' = [todo EXCEPT ![w] = @ \ {c}]
           /\ \/ /\ recipient[c] = "PENDING"
                 /\ recipient' = [recipient EXCEPT ![c] = "QUEUED"]
                 /\ at' = [at EXCEPT ![w] = c]
                 /\ Goto(w, "claimed")
              \/ UNCHANGED <<recipient, at, pc>>
    BY <1>4 DEF Claim
  <2>2. c \in Conversations /\ UNCHANGED <<launches, dueAt, clock, sends, status>>
    BY <1>0, <1>4 DEF Claim, history
  <2>3. dueAt[c] <= clock
    BY DEF PaceInv
  <2>4. \A v \in Workers : todo'[v] \subseteq todo[v]
    BY <1>0, <2>1
  <2>5. \A d \in Conversations : recipient'[d] # "none" <=> recipient[d] # "none"
    BY <1>0, <2>1, <2>2
  <2>6. \A d \in Conversations :
            Claimed(d)' => Claimed(d) \/ (recipient[d] # "none" /\ dueAt[d] <= clock)
    <3>1. CASE UNCHANGED <<recipient, at, pc>>
      BY <3>1 DEF Claimed
    <3>2. CASE /\ recipient[c] = "PENDING"
               /\ at' = [at EXCEPT ![w] = c]
               /\ Goto(w, "claimed")
      <4>1. \A v \in Workers : /\ v # w => pc'[v] = pc[v] /\ at'[v] = at[v]
                               /\ at'[w] = c
        BY <1>0, <3>2 DEF Goto
      <4>2. SUFFICES ASSUME NEW d \in Conversations, NEW v \in Workers,
                            pc'[v] = "claimed", at'[v] = d
                     PROVE  Claimed(d) \/ (recipient[d] # "none" /\ dueAt[d] <= clock)
        BY DEF Claimed
      <4>3. CASE v = w
        BY <2>3, <3>2, <4>1, <4>2, <4>3
      <4>4. CASE v # w
        BY <4>1, <4>2, <4>4 DEF Claimed
      <4> QED
        BY <4>3, <4>4
    <3> QED
      BY <2>1, <3>1, <3>2
  <2> QED
    BY <2>2, <2>4, <2>5, <2>6, PaceStays
<1>5. ASSUME NEW w \in Workers, SendMessage(w) PROVE PaceInv'
  <2>1. PICK then \in {"record", "fail"} : Goto(w, then)
    BY <1>5 DEF SendMessage
  <2>2. /\ pc[w] = "claimed" /\ at[w] \in Conversations
        /\ UNCHANGED <<at, recipient, status, launches, dueAt, clock, todo>>
        /\ sends' = [sends EXCEPT ![at[w]] = @ + 1]
    BY <1>5 DEF SendMessage, rows, TypeInv, HandsOK, InHand
  <2>3. \A c \in Conversations : Claimed(c)' => Claimed(c)
    BY <1>0, <2>1, <2>2 DEF Claimed, Goto
  <2>4. \A c \in Conversations : sends'[c] > 0 => sends[c] > 0 \/ Claimed(c)
    <3>1. Claimed(at[w])
      BY <2>2 DEF Claimed
    <3>2. \A c \in Conversations : c # at[w] => sends'[c] = sends[c]
      BY <1>0, <2>2
    <3>3. SUFFICES ASSUME NEW c \in Conversations, sends'[c] > 0
                   PROVE  sends[c] > 0 \/ Claimed(c)
      OBVIOUS
    <3>4. CASE c = at[w]
      BY <3>1, <3>4
    <3> QED
      BY <3>2, <3>3, <3>4
  <2> QED
    BY <2>2, <2>3, <2>4, PaceStays
<1>6. ASSUME NEW w \in Workers, Refuse(w) \/ Record(w) \/ Fail(w) PROVE PaceInv'
  <2>1. PICK outcome \in {"SENT", "SKIPPED", "FAILED"} : Write(w, outcome)
    BY <1>6 DEF Refuse, Record, Fail
  <2>2. /\ at[w] \in Conversations /\ Goto(w, "finalize")
        /\ UNCHANGED <<sends, launches, at, status, dueAt, clock, todo>>
    BY <1>6 DEF Refuse, Record, Fail, Conclude, history, TypeInv, HandsOK, InHand
  <2>3. recipient[at[w]] # "none"
    BY <1>6, <2>1 DEF Refuse, Record, Fail, Write, HeldOK, InHand, Spent
  <2>4. \A c \in Conversations : recipient'[c] # "none" <=> recipient[c] # "none"
    BY <1>0, <2>1, <2>2, <2>3 DEF Write
  <2> QED
    BY <1>2, <2>2, <2>4
<1>7. ASSUME NEW w \in Workers, CountRows(w) \/ ReadStatus(w) \/ Complete(w) \/ Log(w) PROVE PaceInv'
  <2>1. PICK x \in {"claim", "log", "complete", "finalize"} : Goto(w, x)
    BY <1>7 DEF CountRows, ReadStatus, Complete, Log, Poll, Finished
  <2>2. /\ UNCHANGED <<recipient, sends, launches, dueAt, clock, todo>>
        /\ \A v \in Workers \ {w} : at'[v] = at[v]
    BY <1>0, <1>7 DEF CountRows, ReadStatus, Complete, Log, Poll, Finished, rows, history
  <2>3. status = "DELETED" => status' = "DELETED"
    BY <1>7 DEF CountRows, ReadStatus, Complete, Log, Poll, rows
  <2> QED
    BY <1>2, <2>1, <2>2, <2>3
<1>8. ASSUME NEW w \in Workers, \/ AcquireBatchLock(w) \/ ReleaseBatchLock(w)
                                \/ WorkerThrows(w) \/ WorkerCrashes(w)
      PROVE  PaceInv'
  <2>1. PICK x \in {"scan", "idle", "fail", "unlock"} : Goto(w, x)
    BY <1>8 DEF AcquireBatchLock, ReleaseBatchLock, WorkerThrows, WorkerCrashes
  <2>2. UNCHANGED <<recipient, sends, launches, dueAt, clock, status>>
    BY <1>8 DEF AcquireBatchLock, ReleaseBatchLock, WorkerThrows, WorkerCrashes, rows, history
  <2>3. /\ todo' = todo \/ todo' = [todo EXCEPT ![w] = {}]
        /\ at' = at \/ at' = [at EXCEPT ![w] = Nobody]
    BY <1>8 DEF AcquireBatchLock, ReleaseBatchLock, WorkerThrows, WorkerCrashes, Drop
  <2>4. /\ \A v \in Workers : todo'[v] \subseteq todo[v]
        /\ \A v \in Workers \ {w} : at'[v] = at[v]
    BY <1>0, <2>3
  <2> QED
    BY <1>2, <2>1, <2>2, <2>4
<1>9. CASE TimePasses \/ LockExpires \/ UNCHANGED vars
  <2>1. UNCHANGED <<rows, locals, history>> /\ (clock' = clock \/ clock' = clock + 1)
    BY <1>9 DEF TimePasses, LockExpires, vars
  <2> QED
    BY <2>1, PaceStays DEF rows, locals, history, Claimed
<1> QED
  BY <1>1, <1>3, <1>4, <1>5, <1>6, <1>7, <1>8, <1>9 DEF Next, WorkerStep

\* However many workers send and however their batches overlap, at most k
\* batches of recipients have got the message in the first k intervals, per
\* launch (computeBroadcastRecipientDueAt, and the query that selects by dueAt).
THEOREM BatchesArePaced == Spec => []Paced
<1> USE BroadcastAssumption
<1>1. Init => TypeInv /\ OneInv /\ HeldOK /\ PaceInv
  <2>1. ASSUME Init PROVE HeldOK /\ PaceInv
    <3>1. \A w \in Workers : pc[w] = "idle"
      BY <2>1 DEF Init, Actors
    <3>2. \A c \in Conversations : ~Claimed(c) /\ sends[c] = 0 /\ recipient[c] = "none"
      BY <2>1, <3>1 DEF Init, Claimed
    <3>3. \A k \in Nat : DueBy(k) = {}
      BY <3>2 DEF DueBy
    <3>4. launches = 0 /\ \A w \in Workers : todo[w] = {}
      BY <2>1 DEF Init
    <3>5. \A k \in Nat : Cardinality(DueBy(k)) <= launches * (BatchSize * (k + 1))
      <4>1. SUFFICES ASSUME NEW k \in Nat PROVE 0 <= 0 * (BatchSize * (k + 1))
        BY <3>3, <3>4, FS_EmptySet
      <4> QED
        BY DEF BroadcastAssumption
    <3> QED
      BY <3>1, <3>2, <3>4, <3>5 DEF PaceInv, HeldOK, InHand
  <2> QED
    BY <2>1, InitTypeInv, InitOneInv
<1>2. TypeInv /\ OneInv /\ HeldOK /\ PaceInv /\ [Next]_vars =>
          (TypeInv /\ OneInv /\ HeldOK /\ PaceInv)'
  BY NextTypeInv, NextOneInv, NextHeldOK, NextPaceInv
<1>3. TypeInv /\ PaceInv => Paced
  <2>1. SUFFICES ASSUME TypeInv, PaceInv PROVE Paced
    OBVIOUS
  <2>2. clock \in Nat /\ launches \in Nat /\ BatchSize \in Nat
    BY <2>1 DEF TypeInv, TypeOK, BroadcastAssumption
  <2>3. {c \in Conversations : sends[c] > 0} \subseteq DueBy(clock)
    BY <2>1 DEF PaceInv, DueBy
  <2>4. Cardinality({c \in Conversations : sends[c] > 0}) <= Cardinality(DueBy(clock))
    BY <2>3, DueByFinite, FS_Subset
  <2>5. Cardinality({c \in Conversations : sends[c] > 0}) \in Nat
    BY <2>3, DueByFinite, FS_Subset, FS_CardinalityType
  <2>6. Cardinality(DueBy(clock)) <= launches * (BatchSize * (clock + 1))
    BY <2>1, <2>2 DEF PaceInv
  <2>7. launches * (BatchSize * (clock + 1)) = launches * BatchSize * (clock + 1)
        /\ launches * BatchSize * (clock + 1) \in Nat
    BY <2>2
  <2> QED
    BY <2>4, <2>5, <2>6, <2>7, DueByFinite DEF Paced
<1> QED
  BY <1>1, <1>2, <1>3, PTL DEF Spec

=============================================================================
