----------------------------- MODULE Broadcast -----------------------------
(***************************************************************************)
(* One WhatsApp broadcast and its recipients: the requests that launch,    *)
(* cancel and delete it, and the workers that send it in batches.          *)
(*                                                                         *)
(* A step is one SQL statement or transaction, one Redis command or one    *)
(* call of the message service.  A conversation is in a broadcast at most  *)
(* once (a unique key of the schema), so conversations identify recipients.*)
(*                                                                         *)
(* Data left out: the broadcast's text and its edits while it is a draft,  *)
(* compliance events, the queries that select the audience.                *)
(***************************************************************************)
EXTENDS Naturals, FiniteSets, FiniteSetsExt

CONSTANTS
    Workers,        \* worker processes
    Requests,       \* request slots of the API
    Conversations,  \* what a broadcast may be addressed to
    BatchSize,      \* recipients that become due at once
    ScanLimit,      \* candidates a worker takes from one query
    LaunchUntil,    \* bound: no launch begins later than this interval
    MaxClock,       \* bound: intervals of the model's clock
    Faults,         \* the faults that may happen
    Nobody

AllFaults == {"throw", "crash"}

ASSUME BroadcastAssumption ==
    /\ Workers \cap Requests = {}
    /\ IsFiniteSet(Conversations)
    /\ BatchSize \in Nat \ {0} /\ ScanLimit \in Nat \ {0}
    /\ LaunchUntil \in Nat /\ MaxClock \in Nat
    /\ (MaxClock - LaunchUntil + 1) * BatchSize >= Cardinality(Conversations)
    /\ Faults \subseteq AllFaults
    /\ Nobody \notin Conversations

VARIABLES
    status,      \* the broadcast's status; "DELETED" once its row is gone
    recipient,   \* the recipients' status; "none": no row
    dueAt,       \* the interval from which a recipient may be sent to
    clock,       \* batch intervals that have passed
    batchLock,   \* the batch lock's key exists in Redis
    pc,          \* what each request or worker does next
    base,        \* the interval a launch counts its batches from
    todo,        \* the candidates a worker has read and not looked at yet
    at,          \* the recipient a worker has claimed
    path,        \* how the recipient at hand ended: sent, refused or failed
    poll,        \* what maybeFinalizeBroadcast has not read yet
    sends,       \* history: calls of the message service, per recipient
    lateSends,   \* history: calls per worker since the broadcast ran last
    launches,    \* history: launches that were committed
    disturbed,   \* history: recipients that a fault hit in a worker's hands
    abandoned    \* history: those of them whose failure was not handled either

rows    == <<status, recipient, dueAt>>
locals  == <<pc, base, todo, at, path, poll>>
history == <<sends, lateSends, launches, disturbed, abandoned>>
vars    == <<rows, clock, batchLock, locals, history>>

Actors == Workers \cup Requests

Waiting == {c \in Conversations : recipient[c] \in {"PENDING", "QUEUED"}}

Goto(a, where) == pc' = [pc EXCEPT ![a] = where]

Init ==
    /\ status = "DRAFT"
    /\ recipient = [c \in Conversations |-> "none"]
    /\ dueAt = [c \in Conversations |-> 0]
    /\ clock = 0
    /\ batchLock = FALSE
    /\ pc = [a \in Actors |-> "idle"]
    /\ base = [r \in Requests |-> 0]
    /\ todo = [w \in Workers |-> {}]
    /\ at = [w \in Workers |-> Nobody]
    /\ path = [w \in Workers |-> "none"]
    /\ poll = [w \in Workers |-> {}]
    /\ sends = [c \in Conversations |-> 0]
    /\ lateSends = [w \in Workers |-> 0]
    /\ launches = 0
    /\ disturbed = {}
    /\ abandoned = {}

-----------------------------------------------------------------------------
(* Requests: each reads the status, checks it, and writes in a transaction  *)
(* that does not look at it again.                                          *)

Begin(r, op) ==
    /\ pc[r] = "idle"
    /\ Goto(r, op)
    /\ UNCHANGED <<rows, clock, batchLock, todo, at, path, poll, history>>

BeginLaunch(r) ==
    /\ status = "DRAFT"
    /\ clock <= LaunchUntil
    /\ Begin(r, "launch")
    \* scheduledAt or now, whichever is later
    /\ \E b \in clock .. LaunchUntil : base' = [base EXCEPT ![r] = b]

BeginCancel(r) ==
    /\ status \in {"DRAFT", "RUNNING"}
    /\ Begin(r, "cancel")
    /\ UNCHANGED base

BeginDelete(r) ==
    /\ status \notin {"RUNNING", "DELETED"}
    /\ Begin(r, "delete")
    /\ UNCHANGED base

\* Mutant: every batch at once.
AllAtOnce(start, index) == start

\* computeBroadcastRecipientDueAt
DueAt(start, index) == start + (index \div BatchSize)

\* The order in which the audience's query returns its rows is not fixed.
Orders(audience) ==
    {f \in [audience -> 0 .. (Cardinality(audience) - 1)] :
        \A c, d \in audience : f[c] = f[d] => c = d}

\* The transaction of launchWhatsAppBroadcast: recipients that exist are
\* skipped (skipDuplicates), the others are created; the status is set.
CommitLaunch(r) ==
    /\ pc[r] = "launch"
    /\ status # "DELETED"
    /\ \E audience \in SUBSET Conversations \ {{}} : \E order \in Orders(audience) :
           LET new == {c \in audience : recipient[c] = "none"} IN
           /\ recipient' = [c \in Conversations |->
                  IF c \in new THEN "PENDING" ELSE recipient[c]]
           /\ dueAt' = [c \in Conversations |->
                  IF c \in new THEN DueAt(base[r], order[c]) ELSE dueAt[c]]
    /\ status' = "RUNNING"
    /\ lateSends' = [w \in Workers |-> 0]
    /\ launches' = launches + 1
    /\ Goto(r, "idle")
    /\ base' = [base EXCEPT ![r] = 0]
    /\ UNCHANGED <<clock, batchLock, todo, at, path, poll, sends, disturbed, abandoned>>

\* Mutant: stops what workers have claimed and forgets what is waiting.
CancelOnlyQueued(r) ==
    /\ pc[r] = "cancel"
    /\ status # "DELETED"
    /\ status' = "CANCELED"
    /\ recipient' = [c \in Conversations |->
           IF recipient[c] = "QUEUED" THEN "STOPPED" ELSE recipient[c]]
    /\ Goto(r, "idle")
    /\ UNCHANGED <<dueAt, clock, batchLock, base, todo, at, path, poll, history>>

\* The transaction of cancelWhatsAppBroadcast.
CommitCancel(r) ==
    /\ pc[r] = "cancel"
    /\ status # "DELETED"
    /\ status' = "CANCELED"
    /\ recipient' = [c \in Conversations |->
           IF c \in Waiting THEN "STOPPED" ELSE recipient[c]]
    /\ Goto(r, "idle")
    /\ UNCHANGED <<dueAt, clock, batchLock, base, todo, at, path, poll, history>>

\* The transaction of deleteWhatsAppBroadcast.
CommitDelete(r) ==
    /\ pc[r] = "delete"
    /\ status # "DELETED"
    /\ status' = "DELETED"
    /\ recipient' = [c \in Conversations |-> "none"]
    /\ Goto(r, "idle")
    /\ UNCHANGED <<dueAt, clock, batchLock, base, todo, at, path, poll, history>>

\* The request dies, or its transaction finds the row gone and rolls back.
GiveUp(r) ==
    /\ pc[r] # "idle"
    /\ status = "DELETED" \/ Faults # {}
    /\ Goto(r, "idle")
    /\ base' = [base EXCEPT ![r] = 0]
    /\ UNCHANGED <<rows, clock, batchLock, todo, at, path, poll, history>>

-----------------------------------------------------------------------------
(* The worker's batch *)

\* SET NX EX 10: a worker that doesn't get the lock skips the batch.
AcquireBatchLock(w) ==
    /\ pc[w] = "idle"
    /\ ~batchLock
    /\ batchLock' = TRUE
    /\ Goto(w, "scan")
    /\ UNCHANGED <<rows, clock, base, todo, at, path, poll, history>>

\* Candidates are read once, with their broadcast's status.
Scan(w) ==
    /\ pc[w] = "scan"
    /\ LET ready == IF status # "RUNNING" THEN {}
                    ELSE {c \in Conversations : recipient[c] = "PENDING" /\ dueAt[c] <= clock}
       IN \E taken \in kSubset(Min({ScanLimit, Cardinality(ready)}), ready) :
              todo' = [todo EXCEPT ![w] = taken]
    /\ Goto(w, "claim")
    /\ UNCHANGED <<rows, clock, batchLock, base, at, path, poll, history>>

\* Mutant: the claim doesn't look at the status.
ClaimAnyway(w) ==
    /\ pc[w] = "claim"
    /\ \E c \in todo[w] :
           /\ todo' = [todo EXCEPT ![w] = @ \ {c}]
           /\ status # "DELETED"
           /\ recipient' = [recipient EXCEPT ![c] = "QUEUED"]
           /\ at' = [at EXCEPT ![w] = c]
           /\ Goto(w, "claimed")
    /\ UNCHANGED <<status, dueAt, clock, batchLock, base, path, poll, history>>

\* updateMany where status = PENDING: whoever changes the row has claimed it.
Claim(w) ==
    /\ pc[w] = "claim"
    /\ \E c \in todo[w] :
           /\ todo' = [todo EXCEPT ![w] = @ \ {c}]
           /\ IF recipient[c] = "PENDING"
                THEN /\ recipient' = [recipient EXCEPT ![c] = "QUEUED"]
                     /\ at' = [at EXCEPT ![w] = c]
                     /\ Goto(w, "claimed")
                ELSE UNCHANGED <<recipient, at, pc>>
    /\ UNCHANGED <<status, dueAt, clock, batchLock, base, path, poll, history>>

\* An update by id: it throws when the row is gone, and looks at nothing else.
Write(w, outcome) ==
    /\ status # "DELETED"
    /\ recipient' = [recipient EXCEPT ![at[w]] = outcome]

Conclude(w, how) ==
    /\ path' = [path EXCEPT ![w] = how]
    /\ poll' = [poll EXCEPT ![w] = {"rows", "status"}]
    /\ Goto(w, "finalize")

\* Suppression, the 24 hour window or the content forbid the message.
Refuse(w) ==
    /\ pc[w] = "claimed"
    /\ \E outcome \in {"SKIPPED", "FAILED"} : Write(w, outcome)
    /\ Conclude(w, "refused")
    /\ UNCHANGED <<status, dueAt, clock, batchLock, base, todo, at, history>>

\* sendOutboundMessage returns, or throws whatever the provider did.
SendMessage(w) ==
    /\ pc[w] = "claimed"
    /\ sends' = [sends EXCEPT ![at[w]] = @ + 1]
    /\ lateSends' = IF status = "RUNNING" THEN lateSends ELSE [lateSends EXCEPT ![w] = @ + 1]
    /\ \E then \in {"record", "fail"} :
           /\ Goto(w, then)
           /\ disturbed' = IF then = "fail" THEN disturbed \cup {at[w]} ELSE disturbed
    /\ UNCHANGED <<rows, clock, batchLock, base, todo, at, path, poll, launches, abandoned>>

\* Mutant: the record respects a cancel that came in between.
RecordUnlessStopped(w) ==
    /\ pc[w] = "record"
    /\ status # "DELETED"
    /\ recipient' = [recipient EXCEPT ![at[w]] = IF @ = "STOPPED" THEN @ ELSE "SENT"]
    /\ Conclude(w, "sent")
    /\ UNCHANGED <<status, dueAt, clock, batchLock, base, todo, at, history>>

Record(w) ==
    /\ pc[w] = "record"
    /\ Write(w, "SENT")
    /\ Conclude(w, "sent")
    /\ UNCHANGED <<status, dueAt, clock, batchLock, base, todo, at, history>>

\* Mutant: the catch block goes on with the next candidate.
FailQuietly(w) ==
    /\ pc[w] = "fail"
    /\ Write(w, "FAILED")
    /\ Goto(w, "claim")
    /\ at' = [at EXCEPT ![w] = Nobody]
    /\ UNCHANGED <<status, dueAt, clock, batchLock, base, todo, path, poll, history>>

\* The catch block.
Fail(w) ==
    /\ pc[w] = "fail"
    /\ Write(w, "FAILED")
    /\ Conclude(w, "failed")
    /\ UNCHANGED <<status, dueAt, clock, batchLock, base, todo, at, history>>

\* maybeFinalizeBroadcast has nothing to do.  A sent recipient has an event to log.
Finished(w) ==
    /\ poll' = [poll EXCEPT ![w] = {}]
    /\ IF path[w] = "sent"
         THEN Goto(w, "log") /\ UNCHANGED <<at, path>>
         ELSE /\ Goto(w, "claim")
              /\ at' = [at EXCEPT ![w] = Nobody]
              /\ path' = [path EXCEPT ![w] = "none"]

\* Its two reads run at once (Promise.all), so in any order.
Poll(w, what, goOn) ==
    /\ pc[w] = "finalize"
    /\ what \in poll[w]
    /\ IF ~goOn THEN Finished(w)
       ELSE /\ poll' = [poll EXCEPT ![w] = @ \ {what}]
            /\ Goto(w, IF poll[w] = {what} THEN "complete" ELSE "finalize")
            /\ UNCHANGED <<at, path>>
    /\ UNCHANGED <<rows, clock, batchLock, base, todo, history>>

\* Mutant: only PENDING recipients keep a broadcast open.
CountPending(w) ==
    Poll(w, "rows", {c \in Conversations : recipient[c] = "PENDING"} = {})

CountRows(w) == Poll(w, "rows", Waiting = {})

ReadStatus(w) == Poll(w, "status", status = "RUNNING")

Complete(w) ==
    /\ pc[w] = "complete"
    /\ status # "DELETED"
    /\ status' = "COMPLETED"
    /\ poll' = [poll EXCEPT ![w] = {}]
    /\ Goto(w, "log")
    /\ UNCHANGED <<recipient, dueAt, clock, batchLock, base, todo, at, path, history>>

\* That the broadcast is complete, that a recipient was sent to, or both.
Log(w) ==
    /\ pc[w] = "log"
    /\ Goto(w, "claim")
    /\ at' = [at EXCEPT ![w] = Nobody]
    /\ path' = [path EXCEPT ![w] = "none"]
    /\ UNCHANGED <<rows, clock, batchLock, base, todo, poll, history>>

\* DEL, whoever holds the lock by now.
ReleaseBatchLock(w) ==
    /\ \/ pc[w] = "claim" /\ todo[w] = {}
       \/ pc[w] = "unlock"
    /\ batchLock' = FALSE
    /\ Goto(w, "idle")
    /\ todo' = [todo EXCEPT ![w] = {}]
    /\ UNCHANGED <<rows, clock, base, at, path, poll, history>>

-----------------------------------------------------------------------------
(* Time and faults *)

TimePasses ==
    /\ clock < MaxClock
    /\ clock' = clock + 1
    /\ UNCHANGED <<rows, batchLock, locals, history>>

\* The lock's ten seconds are over; a batch may take longer.
LockExpires ==
    /\ batchLock
    /\ batchLock' = FALSE
    /\ UNCHANGED <<rows, clock, locals, history>>

\* A worker lets go of everything it has at hand.
Drop(w) ==
    /\ todo' = [todo EXCEPT ![w] = {}]
    /\ at' = [at EXCEPT ![w] = Nobody]
    /\ path' = [path EXCEPT ![w] = "none"]
    /\ poll' = [poll EXCEPT ![w] = {}]
    /\ disturbed' = disturbed \cup ({at[w]} \ {Nobody})
    /\ abandoned' = abandoned \cup ({at[w]} \ {Nobody})

InTry(w) ==
    \/ pc[w] \in {"claimed", "record"}
    \/ pc[w] \in {"finalize", "complete", "log"} /\ path[w] # "failed"

\* An await throws (one that writes the broadcast's rows does when they are
\* gone).  The try block of a recipient turns that into its failure; the catch
\* block itself and the queries outside give up the batch.
WorkerThrows(w) ==
    /\ \/ "throw" \in Faults
       \/ status = "DELETED" /\ pc[w] \in {"claimed", "record", "fail", "complete"}
    /\ \/ /\ InTry(w)
          /\ Goto(w, "fail")
          /\ path' = [path EXCEPT ![w] = "none"]
          /\ poll' = [poll EXCEPT ![w] = {}]
          /\ disturbed' = disturbed \cup {at[w]}
          /\ UNCHANGED <<todo, at, abandoned>>
       \/ /\ ~InTry(w)
          /\ pc[w] \in {"scan", "claim", "fail", "finalize", "complete", "log"}
          /\ Goto(w, "unlock")
          /\ Drop(w)
    /\ UNCHANGED <<rows, clock, batchLock, base, sends, lateSends, launches>>

\* A worker process dies; Redis keeps its lock until it expires.
WorkerCrashes(w) ==
    /\ "crash" \in Faults
    /\ pc[w] # "idle"
    /\ Goto(w, "idle")
    /\ Drop(w)
    /\ UNCHANGED <<rows, clock, batchLock, base, sends, lateSends, launches>>

-----------------------------------------------------------------------------

Commit(r) == CommitLaunch(r) \/ CommitCancel(r) \/ CommitDelete(r)

RequestStep(r) ==
    BeginLaunch(r) \/ BeginCancel(r) \/ BeginDelete(r) \/ Commit(r) \/ GiveUp(r)

WorkerStep(w) ==
    \/ AcquireBatchLock(w) \/ Scan(w) \/ Claim(w) \/ Refuse(w)
    \/ SendMessage(w) \/ Record(w) \/ Fail(w) \/ CountRows(w) \/ ReadStatus(w)
    \/ Complete(w) \/ Log(w) \/ ReleaseBatchLock(w)

Next ==
    \/ \E r \in Requests : RequestStep(r)
    \/ \E w \in Workers : WorkerStep(w) \/ WorkerThrows(w) \/ WorkerCrashes(w)
    \/ TimePasses \/ LockExpires

Spec == Init /\ [][Next]_vars

\* Workers poll for ever, some worker gets the lock when it is free, clocks
\* advance and keys with a TTL expire.  Faults may be many, but they end.
Fairness ==
    /\ WF_vars(\E w \in Workers : AcquireBatchLock(w))
    /\ \A w \in Workers : WF_vars(pc[w] # "idle" /\ WorkerStep(w))
    /\ WF_vars(TimePasses) /\ WF_vars(LockExpires)
    /\ \A r \in Requests : WF_vars(Commit(r))
    /\ \A w \in Workers : <>[][~WorkerThrows(w) /\ ~WorkerCrashes(w)]_vars

FairSpec == Spec /\ Fairness
-----------------------------------------------------------------------------
(* Properties *)

RecipientStatus == {"none", "PENDING", "QUEUED", "SENT", "FAILED", "SKIPPED", "STOPPED"}

WorkerPC == {"idle", "scan", "claim", "claimed", "record", "fail", "finalize",
             "complete", "log", "unlock"}

RequestPC == {"idle", "launch", "cancel", "delete"}

\* The type of every variable: rows, the Redis key and the locals of the
\* processes hold only values that the schema and the code allow.
TypeOK ==
    /\ status \in {"DRAFT", "RUNNING", "CANCELED", "COMPLETED", "DELETED"}
    /\ recipient \in [Conversations -> RecipientStatus]
    /\ dueAt \in [Conversations -> Nat]
    /\ clock \in Nat
    /\ batchLock \in BOOLEAN
    /\ pc \in [Actors -> WorkerPC \cup RequestPC]
    /\ \A w \in Workers : pc[w] \in WorkerPC
    /\ \A r \in Requests : pc[r] \in RequestPC
    /\ base \in [Requests -> Nat]
    /\ todo \in [Workers -> SUBSET Conversations]
    /\ at \in [Workers -> Conversations \cup {Nobody}]
    /\ path \in [Workers -> {"none", "sent", "refused", "failed"}]
    /\ poll \in [Workers -> SUBSET {"rows", "status"}]
    /\ sends \in [Conversations -> Nat]
    /\ lateSends \in [Workers -> Nat]
    /\ launches \in Nat
    /\ abandoned \subseteq disturbed /\ disturbed \subseteq Conversations

\* The batch lock expires after ten seconds and is deleted by whoever is done,
\* so batches overlap; launches overlap too.  Still no recipient gets the
\* message twice: the claim of processWhatsAppBroadcastRecipientsBatch decides.
OneMessagePerRecipient == \A c \in Conversations : sends[c] <= 1

\* Once a broadcast was canceled, has completed or was deleted, each worker
\* sends at most the message it had in hand, however many candidates it had
\* read.  (A second launch that had read the draft may start it again.)
CancelStopsSends == launches <= 1 => \A w \in Workers : lateSends[w] <= 1

\* maybeFinalizeBroadcast counts, then writes: still a broadcast that was
\* launched once never counts as completed while a recipient is waiting.
CompletedLeavesNobody == launches <= 1 /\ status = "COMPLETED" => Waiting = {}

\* Unless a fault hit it, a recipient's row tells whether the message went
\* out, also when a cancel came between the send and the record of it.
RecordTellsTheTruth ==
    \A c \in Conversations \ disturbed :
        status # "DELETED" /\ sends[c] > 0 /\ recipient[c] # "SENT" =>
            \E w \in Workers : at[w] = c /\ pc[w] = "record"

\* Batches pace a broadcast (computeBroadcastRecipientDueAt): in the first k
\* intervals at most k batches go out, per launch that was committed.
Paced ==
    Cardinality({c \in Conversations : sends[c] > 0})
        <= launches * BatchSize * (clock + 1)

\* A broadcast that was launched once comes to an end, also when sends and
\* writes throw, unless a crash or an error in the catch block left a recipient
\* QUEUED or the last finalization undone: nothing repairs that.
BroadcastSettles ==
    status = "RUNNING" ~> (status # "RUNNING" \/ abandoned # {} \/ launches > 1)

=============================================================================
