-------------------------- MODULE PublicApi_proofs --------------------------
(***************************************************************************)
(* Proofs about the public API, for any number of workers, schedules,      *)
(* events and tries.  First each part by itself: the scheduled sends, then *)
(* the events.  Then the two together: composing them takes nothing away   *)
(* from either, for the composed specification implements both; and the    *)
(* events that are created are those of the messages that were sent.       *)
(***************************************************************************)
EXTENDS PublicApi, FiniteSetTheorems, TLAPS

-----------------------------------------------------------------------------
(* SCHEDULED SENDS                                                          *)

-----------------------------------------------------------------------------
(* Type correctness                                                         *)

\* A worker that isn't idle has a schedule, and one that will try again has a
\* try left.
HandOK(w) ==
    /\ step[w] = "idle" <=> has[w] = NoSchedule
    /\ step[w] = "again" => MoreTries(w)

\* A row that is PENDING, or will be, has a try left.
CountOK(s) == schedule[s] \in {"none", "PENDING"} => retries[s] < SendTries

TypeInv ==
    /\ ScheduleTypeOK
    /\ \A w \in Senders : HandOK(w)
    /\ \A s \in Schedules : CountOK(s)

LEMMA InitTypeInv == ASSUME ScheduleAssumption, ScheduleInit PROVE TypeInv
BY DEF ScheduleAssumption, ScheduleInit, TypeInv, ScheduleTypeOK, HandOK, CountOK, ScheduleStatus, Sending

\* What a worker's step does to the hands of all workers.
LEMMA FinishTyped ==
    ASSUME ScheduleAssumption, TypeInv, NEW w \in Senders, FinishJob(w)
    PROVE  /\ step' \in [Senders -> {"idle", "got"} \cup Sending]
           /\ has' \in [Senders -> Schedules \cup {NoSchedule}]
           /\ tried' \in [Senders -> 0 .. (SendTries - 1)]
           /\ \A v \in Senders : HandOK(v)'
BY DEF ScheduleAssumption, TypeInv, ScheduleTypeOK, HandOK, FinishJob, Sending, MoreTries

LEMMA ContinueTyped ==
    ASSUME ScheduleAssumption, TypeInv, NEW w \in Senders, step[w] # "idle",
           NEW where \in Sending, where = "again" => MoreTries(w), Continue(w, where)
    PROVE  /\ step' \in [Senders -> {"idle", "got"} \cup Sending]
           /\ has' \in [Senders -> Schedules \cup {NoSchedule}]
           /\ tried' \in [Senders -> 0 .. (SendTries - 1)]
           /\ \A v \in Senders : HandOK(v)'
BY DEF ScheduleAssumption, TypeInv, ScheduleTypeOK, HandOK, Continue, Sending, MoreTries

LEMMA RequestTypeInv ==
    ASSUME ScheduleAssumption, TypeInv, NEW s \in Schedules,
           \/ CreateSchedule(s) \/ PushSchedule(s) \/ CreatorFails(s)
           \/ CancelSchedule(s) \/ DueComes(s)
    PROVE  TypeInv'
BY DEF TypeInv, ScheduleTypeOK, HandOK, CountOK, MoreTries, ScheduleStatus, CreateSchedule, PushSchedule,
       CreatorFails, CancelSchedule, DueComes

LEMMA TakeTypeInv ==
    ASSUME ScheduleAssumption, TypeInv, NEW w \in Senders, NEW s \in Schedules, TakeJob(w, s)
    PROVE  TypeInv'
BY DEF ScheduleAssumption, TypeInv, ScheduleTypeOK, HandOK, CountOK, MoreTries, Sending, TakeJob

LEMMA WorkerTypeInv ==
    ASSUME ScheduleAssumption, TypeInv, NEW w \in Senders,
           \/ SenderStep(w)
           \/ FindWebhook(w, TRUE) \/ FindWebhook(w, FALSE) \/ StoreEvent(w) \/ EnqueueEvent(w)
           \/ ReportThrows(w) \/ JobIsLost(w)
    PROVE  TypeInv'
<1> USE DEF TypeInv, CountOK
<1>1. step[w] # "idle" => has[w] \in Schedules
  BY DEF ScheduleTypeOK, HandOK
<1>2. CASE PutBack(w)
  BY <1>1, <1>2, FinishTyped DEF PutBack, ScheduleTypeOK
<1>3. CASE ReadSchedule(w)
  <2>1. CASE FinishJob(w)
    BY <1>3, <2>1, FinishTyped DEF ReadSchedule, ScheduleTypeOK
  <2>2. CASE schedule[has[w]] = "PENDING"
    <3>1. retries[has[w]] \in 0 .. (SendTries - 1)
      BY <1>1, <1>3, <2>2 DEF ReadSchedule, ScheduleTypeOK, ScheduleAssumption, HandOK
    <3> QED
      BY <1>1, <1>3, <2>2, <3>1 DEF ReadSchedule, ScheduleTypeOK, HandOK, MoreTries, Sending
  <2> QED
    BY <1>3, <2>1, <2>2 DEF ReadSchedule
<1>4. CASE SendScheduled(w) \/ SendRefused(w)
  BY <1>1, <1>4, ContinueTyped DEF SendScheduled, SendRefused, ScheduleTypeOK, Sending
<1>5. CASE FindWebhook(w, TRUE) \/ FindWebhook(w, FALSE) \/ StoreEvent(w) \/ EnqueueEvent(w)
  BY <1>5, ContinueTyped DEF FindWebhook, StoreEvent, EnqueueEvent, ScheduleTypeOK, Sending
<1>6. CASE RecordSent(w)
  BY <1>1, <1>6, FinishTyped DEF RecordSent, ScheduleTypeOK, ScheduleStatus
<1>7. CASE RecordFailure(w)
  <2>1. tried[w] + 1 \in 0 .. SendTries
    BY DEF ScheduleTypeOK, ScheduleAssumption
  <2>2. CASE MoreTries(w)
    BY <1>1, <1>7, <2>1, <2>2, ContinueTyped DEF RecordFailure, ScheduleTypeOK, ScheduleStatus, Sending, MoreTries
  <2>3. CASE ~MoreTries(w)
    BY <1>1, <1>7, <2>1, <2>3, FinishTyped DEF RecordFailure, ScheduleTypeOK, ScheduleStatus
  <2> QED
    BY <2>2, <2>3
<1>8. CASE Retry(w)
  BY <1>1, <1>8, FinishTyped DEF Retry, ScheduleTypeOK
<1>9. CASE ReportThrows(w)
  BY <1>1, <1>9, ContinueTyped DEF ReportThrows, ScheduleTypeOK, ScheduleStatus, Sending
<1>10. CASE JobIsLost(w)
  BY <1>1, <1>10, FinishTyped DEF JobIsLost, ScheduleTypeOK, Sending
<1> QED
  BY <1>2, <1>3, <1>4, <1>5, <1>6, <1>7, <1>8, <1>9, <1>10 DEF SenderStep

LEMMA NextTypeInv ==
    ASSUME ScheduleAssumption, TypeInv, [ScheduleNext]_scheduleVars PROVE TypeInv'
<1>1. CASE RequestSteps
  BY <1>1, RequestTypeInv DEF RequestSteps
<1>2. CASE \E w \in Senders, s \in Schedules : TakeJob(w, s)
  BY <1>2, TakeTypeInv
<1>3. CASE \E w \in Senders :
        \/ SenderStep(w)
        \/ FindWebhook(w, TRUE) \/ FindWebhook(w, FALSE) \/ StoreEvent(w) \/ EnqueueEvent(w)
        \/ ReportThrows(w) \/ JobIsLost(w)
  BY <1>3, WorkerTypeInv
<1>4. CASE UNCHANGED scheduleVars
  BY <1>4 DEF scheduleVars, TypeInv, ScheduleTypeOK, HandOK, CountOK, MoreTries
<1> QED
  BY <1>1, <1>2, <1>3, <1>4 DEF ScheduleNext

\* Rows, lists and the workers' locals keep their types; in particular the
\* count of tries never exceeds SendTries.
THEOREM ScheduleTypeCorrect == ScheduleSpec => []ScheduleTypeOK
<1> USE ScheduleAssumption
<1>1. ScheduleInit => TypeInv
  BY InitTypeInv
<1>2. TypeInv /\ [ScheduleNext]_scheduleVars => TypeInv'
  BY NextTypeInv
<1>3. TypeInv => ScheduleTypeOK
  BY DEF TypeInv
<1> QED
  BY <1>1, <1>2, <1>3, PTL DEF ScheduleSpec

-----------------------------------------------------------------------------
(* A schedule's job is in one place, if anywhere                            *)

OnePlace(s) ==
    /\ jobs[s] <= 1
    /\ jobs[s] = 1 => s \notin unpushed
    /\ \A w \in Senders : has[w] = s => jobs[s] = 0 /\ s \notin unpushed
    /\ \A w, v \in Senders : has[w] = s /\ has[v] = s => w = v
    /\ schedule[s] = "none" => /\ jobs[s] = 0 /\ s \notin unpushed
                              /\ \A w \in Senders : has[w] # s

PlaceInv == \A s \in Schedules : OnePlace(s)

LEMMA InitPlaceInv == ASSUME ScheduleAssumption, ScheduleInit PROVE PlaceInv
BY DEF ScheduleAssumption, ScheduleInit, PlaceInv, OnePlace

LEMMA RequestPlaceInv ==
    ASSUME ScheduleAssumption, TypeInv, PlaceInv, NEW s \in Schedules,
           \/ CreateSchedule(s) \/ PushSchedule(s) \/ CreatorFails(s)
           \/ CancelSchedule(s) \/ DueComes(s)
    PROVE  PlaceInv'
<1>1. CASE CreateSchedule(s)
  BY <1>1 DEF CreateSchedule, TypeInv, ScheduleTypeOK, PlaceInv, OnePlace
<1>2. CASE PushSchedule(s)
  BY <1>2 DEF PushSchedule, TypeInv, ScheduleTypeOK, PlaceInv, OnePlace
<1>3. CASE CreatorFails(s) \/ CancelSchedule(s) \/ DueComes(s)
  BY <1>3 DEF CreatorFails, CancelSchedule, DueComes, TypeInv, ScheduleTypeOK, PlaceInv, OnePlace
<1> QED
  BY <1>1, <1>2, <1>3

LEMMA TakePlaceInv ==
    ASSUME ScheduleAssumption, TypeInv, PlaceInv,
           NEW w \in Senders, NEW s \in Schedules, TakeJob(w, s)
    PROVE  PlaceInv'
BY DEF ScheduleAssumption, TakeJob, TypeInv, ScheduleTypeOK, HandOK, PlaceInv, OnePlace

\* A worker that keeps its job, gives it back or drops it.
LEMMA HandPlaceInv ==
    ASSUME ScheduleAssumption, TypeInv, PlaceInv, NEW w \in Senders, step[w] # "idle",
           UNCHANGED unpushed,
           \A s \in Schedules : schedule'[s] = "none" => schedule[s] = "none",
           \/ has' = has /\ jobs' = jobs
           \/ FinishJob(w) /\ jobs' = jobs
           \/ FinishJob(w) /\ jobs' = [jobs EXCEPT ![has[w]] = @ + 1]
    PROVE  PlaceInv'
<1>1. has[w] \in Schedules
  BY DEF TypeInv, ScheduleTypeOK, HandOK
<1>2. CASE has' = has /\ jobs' = jobs
  BY <1>2 DEF PlaceInv, OnePlace
<1>3. CASE FinishJob(w) /\ jobs' = jobs
  BY <1>3 DEF FinishJob, ScheduleAssumption, TypeInv, ScheduleTypeOK, PlaceInv, OnePlace
<1>4. CASE FinishJob(w) /\ jobs' = [jobs EXCEPT ![has[w]] = @ + 1]
  BY <1>1, <1>4 DEF FinishJob, ScheduleAssumption, TypeInv, ScheduleTypeOK, PlaceInv, OnePlace
<1> QED
  BY <1>2, <1>3, <1>4

LEMMA WorkerPlaceInv ==
    ASSUME ScheduleAssumption, TypeInv, PlaceInv, NEW w \in Senders,
           \/ SenderStep(w)
           \/ FindWebhook(w, TRUE) \/ FindWebhook(w, FALSE) \/ StoreEvent(w) \/ EnqueueEvent(w)
           \/ ReportThrows(w) \/ JobIsLost(w)
    PROVE  PlaceInv'
<1>1. step[w] # "idle" /\ UNCHANGED unpushed
  BY DEF SenderStep, PutBack, ReadSchedule, SendScheduled, SendRefused, RecordSent, RecordFailure,
         Retry, FindWebhook, StoreEvent, EnqueueEvent, ReportThrows, JobIsLost
<1>2. has[w] \in Schedules
  BY <1>1 DEF TypeInv, ScheduleTypeOK, HandOK
<1>3. \A s \in Schedules : schedule'[s] = "none" => schedule[s] = "none"
  BY <1>2 DEF TypeInv, ScheduleTypeOK, SenderStep, PutBack, ReadSchedule, SendScheduled, SendRefused,
         RecordSent, RecordFailure, Retry, FindWebhook, StoreEvent, EnqueueEvent, ReportThrows, JobIsLost
<1>4. \/ has' = has /\ jobs' = jobs
      \/ FinishJob(w) /\ jobs' = jobs
      \/ FinishJob(w) /\ jobs' = [jobs EXCEPT ![has[w]] = @ + 1]
  BY DEF SenderStep, PutBack, ReadSchedule, SendScheduled, SendRefused, RecordSent, RecordFailure,
         Retry, FindWebhook, StoreEvent, EnqueueEvent, ReportThrows, JobIsLost, Continue
<1> QED
  BY <1>1, <1>3, <1>4, HandPlaceInv

LEMMA NextPlaceInv ==
    ASSUME ScheduleAssumption, TypeInv, PlaceInv, [ScheduleNext]_scheduleVars PROVE PlaceInv'
<1>1. CASE RequestSteps
  BY <1>1, RequestPlaceInv DEF RequestSteps
<1>2. CASE \E w \in Senders, s \in Schedules : TakeJob(w, s)
  BY <1>2, TakePlaceInv
<1>3. CASE \E w \in Senders :
        \/ SenderStep(w)
        \/ FindWebhook(w, TRUE) \/ FindWebhook(w, FALSE) \/ StoreEvent(w) \/ EnqueueEvent(w)
        \/ ReportThrows(w) \/ JobIsLost(w)
  BY <1>3, WorkerPlaceInv
<1>4. CASE UNCHANGED scheduleVars
  BY <1>4 DEF scheduleVars, PlaceInv, OnePlace
<1> QED
  BY <1>1, <1>2, <1>3, <1>4 DEF ScheduleNext

-----------------------------------------------------------------------------
(* Messages are counted against tries and reasons                           *)

\* Schedule s may still be tried: its job is somewhere, or will be.
Waiting(s) ==
    \/ schedule[s] = "none" \/ s \in unpushed \/ jobs[s] > 0
    \/ \E w \in Senders : has[w] = s /\ step[w] = "got"

\* Every message so far belongs to a try that was counted and had a reason to
\* be repeated.
AllCounted(s) == sends[s] <= retries[s] /\ sends[s] <= slips[s] /\ retries[s] < SendTries

\* What a worker's step says about the messages of its schedule.
Counted(w, s) ==
    /\ step[w] = "send" => sends[s] <= tried[w] /\ sends[s] <= slips[s]
    /\ step[w] \in {"emit", "event", "notify", "record"} =>
           sends[s] <= tried[w] + 1 /\ sends[s] <= slips[s] + 1
    /\ step[w] = "fail" => sends[s] <= tried[w] + 1 /\ sends[s] <= slips[s]
    /\ step[w] = "again" => AllCounted(s)

SentInv ==
    /\ RepeatsHaveReasons
    /\ \A s \in Schedules : Waiting(s) => AllCounted(s)
    /\ \A w \in Senders : has[w] # NoSchedule => Counted(w, has[w])

LEMMA InitSentInv == ASSUME ScheduleAssumption, ScheduleInit PROVE SentInv
BY DEF ScheduleAssumption, ScheduleInit, SentInv, RepeatsHaveReasons, AllCounted, Counted

LEMMA RequestSentInv ==
    ASSUME ScheduleAssumption, TypeInv, PlaceInv, SentInv, NEW s \in Schedules,
           \/ CreateSchedule(s) \/ PushSchedule(s) \/ CreatorFails(s)
           \/ CancelSchedule(s) \/ DueComes(s)
    PROVE  SentInv'
<1>1. UNCHANGED <<retries, step, has, tried, sends, slips>>
  BY DEF CreateSchedule, PushSchedule, CreatorFails, CancelSchedule, DueComes
<1>2. \A t \in Schedules : Waiting(t)' => Waiting(t)
  BY <1>1 DEF Waiting, TypeInv, ScheduleTypeOK, CreateSchedule, PushSchedule, CreatorFails, CancelSchedule, DueComes
<1> QED
  BY <1>1, <1>2 DEF SentInv, RepeatsHaveReasons, AllCounted, Counted

LEMMA TakeSentInv ==
    ASSUME ScheduleAssumption, TypeInv, PlaceInv, SentInv,
           NEW w \in Senders, NEW s \in Schedules, TakeJob(w, s)
    PROVE  SentInv'
<1>1. UNCHANGED <<schedule, unpushed, retries, tried, sends, slips>>
  BY DEF TakeJob
<1>2. ASSUME NEW t \in Schedules, Waiting(t)' PROVE Waiting(t)
  <2>1. CASE t = s
    BY <2>1 DEF TakeJob, Waiting
  <2>2. CASE t # s
    <3>1. jobs'[t] = jobs[t]
      BY <2>2 DEF TakeJob, TypeInv, ScheduleTypeOK
    <3>2. \A v \in Senders : has'[v] = t => v # w
      BY <2>2 DEF TakeJob, TypeInv, ScheduleTypeOK
    <3>3. \A v \in Senders : v # w => has'[v] = has[v] /\ step'[v] = step[v]
      BY DEF TakeJob, TypeInv, ScheduleTypeOK
    <3> QED
      BY <1>1, <1>2, <3>1, <3>2, <3>3 DEF Waiting
  <2> QED
    BY <2>1, <2>2
<1>3. ASSUME NEW v \in Senders, has'[v] # NoSchedule PROVE Counted(v, has[v])'
  <2>1. CASE v = w
    <3>1. step'[v] = "got"
      BY <2>1 DEF TakeJob, TypeInv, ScheduleTypeOK
    <3> QED
      BY <3>1 DEF Counted
  <2>2. CASE v # w
    <3>1. has'[v] = has[v] /\ step'[v] = step[v]
      BY <2>2 DEF TakeJob, TypeInv, ScheduleTypeOK
    <3> QED
      BY <1>1, <1>3, <3>1 DEF SentInv, Counted, AllCounted
  <2> QED
    BY <2>1, <2>2
<1> QED
  BY <1>1, <1>2, <1>3 DEF SentInv, RepeatsHaveReasons, AllCounted

\* What a worker does to its own schedule disturbs no other schedule.
LEMMA OneHandSentInv ==
    ASSUME ScheduleAssumption, TypeInv, PlaceInv, SentInv, NEW w \in Senders, NEW s \in Schedules,
           has[w] = s, UNCHANGED unpushed,
           \A v \in Senders : v # w => /\ step'[v] = step[v]
                                       /\ has'[v] = has[v]
                                       /\ tried'[v] = tried[v],
           has'[w] \in {s, NoSchedule},
           \A t \in Schedules : t # s => /\ schedule'[t] = schedule[t]
                                         /\ retries'[t] = retries[t]
                                         /\ jobs'[t] = jobs[t]
                                         /\ sends'[t] = sends[t]
                                         /\ slips'[t] = slips[t],
           sends'[s] <= SendTries /\ sends'[s] <= 1 + slips'[s],
           Waiting(s)' => AllCounted(s)',
           has'[w] = s => Counted(w, s)'
    PROVE  SentInv'
<1>1. RepeatsHaveReasons'
  BY DEF SentInv, RepeatsHaveReasons
<1>2. ASSUME NEW t \in Schedules, Waiting(t)' PROVE AllCounted(t)'
  <2>1. CASE t # s
    <3>1. Waiting(t)
      BY <1>2, <2>1, NoSchedule \notin Schedules DEF Waiting, ScheduleAssumption
    <3> QED
      BY <2>1, <3>1 DEF SentInv, AllCounted
  <2> QED
    BY <1>2, <2>1
<1>3. ASSUME NEW v \in Senders, has'[v] # NoSchedule PROVE Counted(v, has[v])'
  <2>1. CASE v = w
    BY <1>3, <2>1
  <2>2. CASE v # w
    <3>1. has[v] \in Schedules /\ has[v] # s
      BY <1>3, <2>2 DEF TypeInv, ScheduleTypeOK, PlaceInv, OnePlace
    <3> QED
      BY <1>3, <2>2, <3>1 DEF SentInv, Counted, AllCounted
  <2> QED
    BY <2>1, <2>2
<1> QED
  BY <1>1, <1>2, <1>3 DEF SentInv

LEMMA WorkerSentInv ==
    ASSUME ScheduleAssumption, TypeInv, PlaceInv, SentInv, NEW w \in Senders,
           \/ SenderStep(w)
           \/ FindWebhook(w, TRUE) \/ FindWebhook(w, FALSE) \/ StoreEvent(w) \/ EnqueueEvent(w)
           \/ ReportThrows(w) \/ JobIsLost(w)
    PROVE  SentInv'
<1>1. step[w] # "idle" /\ UNCHANGED unpushed
  BY DEF SenderStep, PutBack, ReadSchedule, SendScheduled, SendRefused, RecordSent, RecordFailure,
         Retry, FindWebhook, StoreEvent, EnqueueEvent, ReportThrows, JobIsLost
<1>2. PICK s \in Schedules : s = has[w] /\ s # NoSchedule
  BY <1>1 DEF TypeInv, ScheduleTypeOK, HandOK, ScheduleAssumption
<1>3. \A v \in Senders : v # w => step'[v] = step[v] /\ has'[v] = has[v] /\ tried'[v] = tried[v]
  BY DEF TypeInv, ScheduleTypeOK, SenderStep, PutBack, ReadSchedule, SendScheduled, SendRefused,
         RecordSent, RecordFailure, Retry, FindWebhook, StoreEvent, EnqueueEvent, ReportThrows,
         JobIsLost, Continue, FinishJob
<1>4. has'[w] \in {s, NoSchedule}
  BY <1>2 DEF TypeInv, ScheduleTypeOK, SenderStep, PutBack, ReadSchedule, SendScheduled, SendRefused,
         RecordSent, RecordFailure, Retry, FindWebhook, StoreEvent, EnqueueEvent, ReportThrows,
         JobIsLost, Continue, FinishJob
<1>5. \A t \in Schedules : t # s => /\ schedule'[t] = schedule[t]
                                    /\ retries'[t] = retries[t]
                                    /\ jobs'[t] = jobs[t]
                                    /\ sends'[t] = sends[t]
                                    /\ slips'[t] = slips[t]
  BY <1>2 DEF TypeInv, ScheduleTypeOK, SenderStep, PutBack, ReadSchedule, SendScheduled, SendRefused,
         RecordSent, RecordFailure, Retry, FindWebhook, StoreEvent, EnqueueEvent, ReportThrows, JobIsLost
<1>6. Counted(w, s)
  BY <1>2 DEF SentInv
<1>7. /\ schedule[s] # "none" /\ s \notin unpushed /\ jobs[s] = 0
      /\ \A v \in Senders : has[v] = s => v = w
  BY <1>2 DEF PlaceInv, OnePlace
<1>8. sends[s] <= SendTries /\ sends[s] <= 1 + slips[s]
  BY DEF SentInv, RepeatsHaveReasons
<1>9. /\ sends \in [Schedules -> Nat] /\ slips \in [Schedules -> Nat]
      /\ retries[s] \in Nat /\ tried[w] \in 0 .. (SendTries - 1) /\ SendTries \in Nat
      /\ step \in [Senders -> {"idle", "got"} \cup Sending] /\ has \in [Senders -> Schedules \cup {NoSchedule}]
      /\ schedule \in [Schedules -> ScheduleStatus] /\ retries \in [Schedules -> 0 .. SendTries]
      /\ tried \in [Senders -> 0 .. (SendTries - 1)] /\ jobs \in [Schedules -> Nat]
  BY DEF TypeInv, ScheduleTypeOK, ScheduleAssumption
<1>10. CASE PutBack(w)
  <2>1. AllCounted(s)
    BY <1>2, <1>10 DEF PutBack, SentInv, Waiting
  <2>2. AllCounted(s)' /\ has'[w] = NoSchedule /\ UNCHANGED <<sends, slips>>
    BY <2>1, <1>9, <1>10 DEF PutBack, FinishJob, AllCounted
  <2> QED
    BY <2>2, <1>1, <1>2, <1>3, <1>4, <1>5, <1>8, OneHandSentInv
<1>11. CASE ReadSchedule(w)
  <2>1. AllCounted(s)
    BY <1>2, <1>11 DEF ReadSchedule, SentInv, Waiting
  <2>2. AllCounted(s)' /\ UNCHANGED <<sends, slips>>
    BY <2>1, <1>11 DEF ReadSchedule, AllCounted
  <2>3. has'[w] = s => Counted(w, s)'
    BY <2>1, <1>2, <1>9, <1>11 DEF ReadSchedule, FinishJob, AllCounted, Counted
  <2> QED
    BY <2>2, <2>3, <1>1, <1>2, <1>3, <1>4, <1>5, <1>8, OneHandSentInv
\* From here on s isn't waiting while w has it in hand.
<1>12. ASSUME has'[w] = s, step'[w] # "got", UNCHANGED jobs, schedule'[s] # "none"
       PROVE  ~Waiting(s)'
  BY <1>1, <1>2, <1>3, <1>7, <1>12 DEF Waiting
<1>13. ASSUME has'[w] = NoSchedule, UNCHANGED jobs, schedule'[s] # "none"
       PROVE  ~Waiting(s)'
  BY <1>1, <1>2, <1>3, <1>7, <1>13 DEF Waiting
<1>14. CASE SendScheduled(w) \/ SendRefused(w)
  <2>1. ~Waiting(s)'
    BY <1>2, <1>7, <1>9, <1>12, <1>14 DEF SendScheduled, SendRefused, Continue
  <2>2. Counted(w, s)' /\ sends'[s] <= SendTries /\ sends'[s] <= 1 + slips'[s]
    BY <1>2, <1>6, <1>8, <1>9, <1>14 DEF SendScheduled, SendRefused, Continue, Counted
  <2> QED
    BY <2>1, <2>2, <1>1, <1>2, <1>3, <1>4, <1>5, OneHandSentInv
<1>15. CASE FindWebhook(w, TRUE) \/ FindWebhook(w, FALSE) \/ StoreEvent(w) \/ EnqueueEvent(w)
  <2>1. ~Waiting(s)'
    BY <1>2, <1>7, <1>9, <1>12, <1>15 DEF FindWebhook, StoreEvent, EnqueueEvent, Continue
  <2>2. Counted(w, s)' /\ UNCHANGED <<sends, slips>>
    BY <1>2, <1>6, <1>9, <1>15 DEF FindWebhook, StoreEvent, EnqueueEvent, Continue, Counted
  <2> QED
    BY <2>1, <2>2, <1>1, <1>2, <1>3, <1>4, <1>5, <1>8, OneHandSentInv
<1>16. CASE RecordSent(w) \/ JobIsLost(w)
  <2>1. schedule'[s] # "none" /\ UNCHANGED jobs
    BY <1>2, <1>7, <1>9, <1>16 DEF RecordSent, JobIsLost
  <2>2. has'[w] = NoSchedule /\ UNCHANGED <<sends, slips>>
    BY <1>9, <1>16 DEF RecordSent, JobIsLost, FinishJob
  <2> QED
    BY <2>1, <2>2, <1>1, <1>2, <1>3, <1>4, <1>5, <1>8, <1>13, OneHandSentInv
<1>17. CASE RecordFailure(w)
  <2>1. schedule'[s] # "none" /\ UNCHANGED jobs /\ UNCHANGED <<sends, slips>>
    BY <1>2, <1>7, <1>9, <1>17 DEF RecordFailure
  <2>2. CASE MoreTries(w)
    <3>1. has'[w] = s /\ step'[w] = "again"
      BY <1>2, <1>9, <1>17, <2>2 DEF RecordFailure, Continue
    <3>2. Counted(w, s)'
      BY <1>2, <1>6, <1>9, <1>17, <2>2, <3>1 DEF RecordFailure, Counted, AllCounted, MoreTries
    <3> QED
      BY <2>1, <3>1, <3>2, <1>1, <1>2, <1>3, <1>4, <1>5, <1>8, <1>12, OneHandSentInv
  <2>3. CASE ~MoreTries(w)
    <3>1. has'[w] = NoSchedule
      BY <1>9, <1>17, <2>3 DEF RecordFailure, FinishJob
    <3> QED
      BY <2>1, <3>1, <1>1, <1>2, <1>3, <1>4, <1>5, <1>8, <1>13, OneHandSentInv
  <2> QED
    BY <2>2, <2>3
<1>18. CASE Retry(w)
  <2>1. AllCounted(s)
    BY <1>6, <1>18 DEF Retry, Counted
  <2>2. AllCounted(s)' /\ has'[w] = NoSchedule /\ UNCHANGED <<sends, slips>>
    BY <2>1, <1>9, <1>18 DEF Retry, FinishJob, AllCounted
  <2> QED
    BY <2>2, <1>1, <1>2, <1>3, <1>4, <1>5, <1>8, OneHandSentInv
<1>19. CASE ReportThrows(w)
  <2>1. schedule'[s] # "none" /\ UNCHANGED jobs
    BY <1>2, <1>7, <1>9, <1>19 DEF ReportThrows
  <2>2. has'[w] = s /\ step'[w] = "fail"
    BY <1>2, <1>9, <1>19 DEF ReportThrows, Continue
  <2>3. /\ sends'[s] <= tried[w] + 1 /\ sends'[s] <= slips'[s]
        /\ tried' = tried
    BY <1>2, <1>6, <1>9, <1>19 DEF ReportThrows, Counted, Continue
  <2>4. Counted(w, s)' /\ sends'[s] <= SendTries /\ sends'[s] <= 1 + slips'[s]
    BY <1>9, <1>19, <2>2, <2>3 DEF Counted, ReportThrows
  <2> QED
    BY <2>1, <2>2, <2>4, <1>1, <1>2, <1>3, <1>4, <1>5, <1>12, OneHandSentInv
<1> QED
  BY <1>10, <1>11, <1>14, <1>15, <1>16, <1>17, <1>18, <1>19 DEF SenderStep

LEMMA NextSentInv ==
    ASSUME ScheduleAssumption, TypeInv, PlaceInv, SentInv, [ScheduleNext]_scheduleVars PROVE SentInv'
<1>1. CASE RequestSteps
  BY <1>1, RequestSentInv DEF RequestSteps
<1>2. CASE \E w \in Senders, s \in Schedules : TakeJob(w, s)
  BY <1>2, TakeSentInv
<1>3. CASE \E w \in Senders :
        \/ SenderStep(w)
        \/ FindWebhook(w, TRUE) \/ FindWebhook(w, FALSE) \/ StoreEvent(w) \/ EnqueueEvent(w)
        \/ ReportThrows(w) \/ JobIsLost(w)
  BY <1>3, WorkerSentInv
<1>4. CASE UNCHANGED scheduleVars
  BY <1>4 DEF scheduleVars, SentInv, RepeatsHaveReasons, Waiting, AllCounted, Counted
<1> QED
  BY <1>1, <1>2, <1>3, <1>4 DEF ScheduleNext

\* However many workers poll the list and whatever fails, a schedule is sent at
\* most SendTries times, and again only after a throw behind a message that went
\* out (processPublicScheduleJob).
THEOREM ReasonedRepeats == ScheduleSpec => []RepeatsHaveReasons
<1> USE ScheduleAssumption
<1>1. ScheduleInit => TypeInv /\ PlaceInv /\ SentInv
  BY InitTypeInv, InitPlaceInv, InitSentInv
<1>2. TypeInv /\ PlaceInv /\ SentInv /\ [ScheduleNext]_scheduleVars => (TypeInv /\ PlaceInv /\ SentInv)'
  BY NextTypeInv, NextPlaceInv, NextSentInv
<1>3. TypeInv /\ PlaceInv /\ SentInv => RepeatsHaveReasons
  BY DEF SentInv
<1> QED
  BY <1>1, <1>2, <1>3, PTL DEF ScheduleSpec

-----------------------------------------------------------------------------
(* A quiet cancel holds                                                     *)

\* A schedule that was canceled in no worker's hands stays canceled, and no
\* worker gets further with it than taking its job.
QuietInv ==
    \A s \in quiet :
        /\ schedule[s] = "CANCELED" /\ s \notin unpushed
        /\ \A w \in Senders : has[w] = s => step[w] = "got"

\* The step keeps QuietInv, and is one that QuietCancelHolds allows.
QuietStep ==
    /\ QuietInv'
    /\ \A s \in quiet : schedule'[s] = "CANCELED" /\ sends'[s] = sends[s]

LEMMA InitQuietInv == ASSUME ScheduleInit PROVE QuietInv
BY DEF ScheduleInit, QuietInv

LEMMA RequestQuietStep ==
    ASSUME ScheduleAssumption, TypeInv, QuietInv, NEW s \in Schedules,
           \/ CreateSchedule(s) \/ PushSchedule(s) \/ CreatorFails(s)
           \/ CancelSchedule(s) \/ DueComes(s)
    PROVE  QuietStep
<1>1. UNCHANGED <<step, has, sends>>
  BY DEF CreateSchedule, PushSchedule, CreatorFails, CancelSchedule, DueComes
<1>2. CASE CancelSchedule(s)
  <2>1. s \in quiet' \ quiet => \A w \in Senders : has[w] = s => step[w] = "got"
    BY <1>2 DEF CancelSchedule, InHands, TypeInv, ScheduleTypeOK, HandOK, ScheduleAssumption
  <2> QED
    BY <1>1, <1>2, <2>1 DEF CancelSchedule, QuietStep, QuietInv, TypeInv, ScheduleTypeOK
<1>3. CASE CreateSchedule(s) \/ PushSchedule(s) \/ CreatorFails(s) \/ DueComes(s)
  BY <1>1, <1>3 DEF QuietStep, QuietInv, TypeInv, ScheduleTypeOK, CreateSchedule, PushSchedule,
                    CreatorFails, DueComes
<1> QED
  BY <1>2, <1>3

LEMMA TakeQuietStep ==
    ASSUME ScheduleAssumption, TypeInv, QuietInv,
           NEW w \in Senders, NEW s \in Schedules, TakeJob(w, s)
    PROVE  QuietStep
BY DEF TakeJob, QuietStep, QuietInv, TypeInv, ScheduleTypeOK

\* A worker that only takes or gives back a job leaves a canceled row alone; one
\* that does more has none of the quietly canceled schedules.
LEMMA WorkerQuietStep ==
    ASSUME ScheduleAssumption, TypeInv, QuietInv, NEW w \in Senders,
           \/ SenderStep(w)
           \/ FindWebhook(w, TRUE) \/ FindWebhook(w, FALSE) \/ StoreEvent(w) \/ EnqueueEvent(w)
           \/ ReportThrows(w) \/ JobIsLost(w)
    PROVE  QuietStep
<1>1. step[w] # "idle" /\ UNCHANGED <<unpushed, quiet>>
  BY DEF SenderStep, PutBack, ReadSchedule, SendScheduled, SendRefused, RecordSent, RecordFailure,
         Retry, FindWebhook, StoreEvent, EnqueueEvent, ReportThrows, JobIsLost
<1>2. has[w] \in Schedules
  BY <1>1 DEF TypeInv, ScheduleTypeOK, HandOK
<1>3. \A v \in Senders : v # w => step'[v] = step[v] /\ has'[v] = has[v]
  BY DEF TypeInv, ScheduleTypeOK, SenderStep, PutBack, ReadSchedule, SendScheduled, SendRefused,
         RecordSent, RecordFailure, Retry, FindWebhook, StoreEvent, EnqueueEvent, ReportThrows,
         JobIsLost, Continue, FinishJob
<1>4. has'[w] \in {has[w], NoSchedule}
  BY DEF TypeInv, ScheduleTypeOK, SenderStep, PutBack, ReadSchedule, SendScheduled, SendRefused,
         RecordSent, RecordFailure, Retry, FindWebhook, StoreEvent, EnqueueEvent, ReportThrows,
         JobIsLost, Continue, FinishJob
<1>5. \A s \in Schedules : s # has[w] => schedule'[s] = schedule[s] /\ sends'[s] = sends[s]
  BY DEF TypeInv, ScheduleTypeOK, SenderStep, PutBack, ReadSchedule, SendScheduled, SendRefused,
         RecordSent, RecordFailure, Retry, FindWebhook, StoreEvent, EnqueueEvent, ReportThrows, JobIsLost
<1>6. quiet \subseteq Schedules /\ NoSchedule \notin quiet
  BY DEF TypeInv, ScheduleTypeOK, ScheduleAssumption
<1>7. CASE has[w] \notin quiet
  BY <1>1, <1>3, <1>4, <1>5, <1>6, <1>7 DEF QuietStep, QuietInv
<1>8. CASE has[w] \in quiet
  <2>1. step[w] = "got" /\ schedule[has[w]] = "CANCELED"
    BY <1>8 DEF QuietInv
  <2>2. UNCHANGED <<schedule, sends>> /\ FinishJob(w)
    BY <2>1 DEF SenderStep, PutBack, ReadSchedule, SendScheduled, SendRefused, RecordSent,
                RecordFailure, Retry, FindWebhook, StoreEvent, EnqueueEvent, ReportThrows, JobIsLost
  <2>3. has'[w] = NoSchedule
    BY <2>2 DEF FinishJob, TypeInv, ScheduleTypeOK
  <2> QED
    BY <1>1, <1>3, <1>6, <2>2, <2>3 DEF QuietStep, QuietInv
<1> QED
  BY <1>7, <1>8

LEMMA NextQuietStep ==
    ASSUME ScheduleAssumption, TypeInv, QuietInv, [ScheduleNext]_scheduleVars PROVE QuietStep
<1>1. CASE RequestSteps
  BY <1>1, RequestQuietStep DEF RequestSteps
<1>2. CASE \E w \in Senders, s \in Schedules : TakeJob(w, s)
  BY <1>2, TakeQuietStep
<1>3. CASE \E w \in Senders :
        \/ SenderStep(w)
        \/ FindWebhook(w, TRUE) \/ FindWebhook(w, FALSE) \/ StoreEvent(w) \/ EnqueueEvent(w)
        \/ ReportThrows(w) \/ JobIsLost(w)
  BY <1>3, WorkerQuietStep
<1>4. CASE UNCHANGED scheduleVars
  BY <1>4 DEF scheduleVars, QuietStep, QuietInv
<1> QED
  BY <1>1, <1>2, <1>3, <1>4 DEF ScheduleNext

\* A cancel that finds the schedule in no worker's hands holds for good
\* (cancelPublicSchedule against processPublicScheduleJob).
THEOREM QuietCancels == ScheduleSpec => QuietCancelHolds
<1> USE ScheduleAssumption
<1>1. ScheduleInit => TypeInv /\ QuietInv
  BY InitTypeInv, InitQuietInv
<1>2. TypeInv /\ QuietInv /\ [ScheduleNext]_scheduleVars => (TypeInv /\ QuietInv)'
  BY NextTypeInv, NextQuietStep DEF QuietStep
<1>3. TypeInv /\ QuietInv /\ [ScheduleNext]_scheduleVars
      => [\A s \in quiet : schedule'[s] = "CANCELED" /\ sends'[s] = sends[s]]_scheduleVars
  BY NextQuietStep DEF QuietStep
<1> QED
  BY <1>1, <1>2, <1>3, PTL DEF ScheduleSpec, QuietCancelHolds

-----------------------------------------------------------------------------
(* WEBHOOK EVENTS                                                           *)

Workers(p) ==
    PosterStep(p) \/ DeliveredThrows(p) \/ PostIsLost(p)

Creators(e) ==
    CreateEvent(e) \/ QueueEvent(e) \/ EventIsLost(e)

-----------------------------------------------------------------------------
(* Where an event's job is, and how many tries have been counted            *)

\* The event may still be posted: its job is somewhere, or will be.
MayPost(e) ==
    \/ event[e] = "none" \/ e \in unqueued \/ mail[e] > 0
    \/ \E p \in Posters : holds[p] = e /\ stage[p] = "got"

\* Its job is in one place, if anywhere.
OneJob(e) ==
    /\ mail[e] <= 1
    /\ mail[e] = 1 => e \notin unqueued
    /\ \A p \in Posters : holds[p] = e => mail[e] = 0 /\ e \notin unqueued
    /\ \A p, q \in Posters : holds[p] = e /\ holds[q] = e => p = q
    /\ event[e] = "none" => /\ mail[e] = 0 /\ e \notin unqueued
                            /\ \A p \in Posters : holds[p] # e

\* Every request so far was counted, and had a reason to be repeated.
Settled(e) == posts[e] <= attempts[e] /\ accepts[e] <= doubts[e] /\ attempts[e] < PostTries

\* What a worker's stage says about the requests for its event.
StageOK(p, e) ==
    /\ stage[p] \in {"look", "skip", "post"} => posts[e] <= counted[p] /\ accepts[e] <= doubts[e]
    /\ stage[p] = "delivered" => /\ posts[e] <= counted[p] + 1
                                 /\ accepts[e] <= doubts[e] + 1
                                 /\ accepts[e] > 0
    /\ stage[p] = "failed" => posts[e] <= counted[p] + 1 /\ accepts[e] <= doubts[e]
    /\ stage[p] = "again" => Settled(e)

\* What is to be shown of one event, without its workers.
Bounded(e) == posts[e] <= PostTries /\ accepts[e] <= 1 + doubts[e]

Told(e) ==
    /\ event[e] = "DELIVERED" => accepts[e] > 0
    /\ event[e] = "FAILED" => attempts[e] = PostTries
    /\ accepts[e] > 0 /\ doubts[e] = 0 /\ e \notin dropped =>
           \/ event[e] = "DELIVERED"
           \/ \E p \in Posters : holds[p] = e /\ stage[p] = "delivered"

EventInv ==
    /\ EventTypeOK
    /\ \A p \in Posters : stage[p] = "idle" <=> holds[p] = NoEvent
    /\ \A e \in Events : /\ OneJob(e) /\ Bounded(e) /\ Told(e)
                         /\ MayPost(e) => Settled(e)
    /\ \A p \in Posters : holds[p] # NoEvent => StageOK(p, holds[p])

LEMMA InitEventInv == ASSUME EventAssumption, EventInit PROVE EventInv
BY DEF EventAssumption, EventInit, EventInv, EventTypeOK, EventStatus, Aspects, OneJob, Bounded, Told,
       Settled, StageOK

-----------------------------------------------------------------------------
(* Steps without a worker                                                   *)

LEMMA CreatorsKeep ==
    ASSUME EventAssumption, EventInv, NEW e \in Events, Creators(e) PROVE EventInv'
<1>1. UNCHANGED <<webhook, attempts, stage, holds, counted, posts, accepts, doubts>>
  BY DEF Creators, CreateEvent, QueueEvent, EventIsLost
<1>2. EventTypeOK'
  BY <1>1 DEF Creators, CreateEvent, QueueEvent, EventIsLost, EventInv, EventTypeOK, EventStatus
<1>3. \A f \in Events : MayPost(f)' => MayPost(f)
  BY <1>1 DEF MayPost, Creators, CreateEvent, QueueEvent, EventIsLost, EventInv, EventTypeOK
<1>4. \A f \in Events : OneJob(f)'
  <2>1. CASE CreateEvent(e)
    BY <2>1 DEF CreateEvent, EventInv, EventTypeOK, OneJob
  <2>2. CASE QueueEvent(e)
    BY <2>2 DEF QueueEvent, EventInv, EventTypeOK, OneJob
  <2>3. CASE EventIsLost(e)
    BY <2>3 DEF EventIsLost, EventInv, EventTypeOK, OneJob
  <2> QED
    BY <2>1, <2>2, <2>3 DEF Creators
<1>5. \A f \in Events : Told(f)'
  <2>1. CASE CreateEvent(e)
    <3>1. ~(accepts[e] > 0 /\ doubts[e] = 0)
      BY <2>1 DEF CreateEvent, EventInv, EventTypeOK, MayPost, Settled
    <3> QED
      BY <1>1, <2>1, <3>1 DEF CreateEvent, EventInv, EventTypeOK, Told
  <2>2. CASE QueueEvent(e) \/ EventIsLost(e)
    BY <1>1, <2>2 DEF QueueEvent, EventIsLost, EventInv, EventTypeOK, Told
  <2> QED
    BY <2>1, <2>2 DEF Creators
<1> QED
  BY <1>1, <1>2, <1>3, <1>4, <1>5 DEF EventInv, Bounded, Settled, StageOK

LEMMA OthersKeep ==
    ASSUME EventAssumption, EventInv, PutWebhook \/ \E e \in Events : EventRipens(e) PROVE EventInv'
<1>1. UNCHANGED <<event, attempts, unqueued, mail, stage, holds, counted, posts, accepts, doubts, dropped>>
  BY DEF PutWebhook, EventRipens
<1>2. EventTypeOK'
  BY <1>1 DEF PutWebhook, EventRipens, EventInv, EventTypeOK
<1>3. \A e \in Events : OneJob(e)' /\ Bounded(e)' /\ Told(e)' /\ (MayPost(e)' => Settled(e)')
  BY <1>1 DEF EventInv, OneJob, Bounded, Told, MayPost, Settled
<1>4. \A p \in Posters : (stage[p] = "idle" <=> holds[p] = NoEvent)'
  BY <1>1 DEF EventInv
<1>5. \A p \in Posters : (holds[p] # NoEvent => StageOK(p, holds[p]))'
  BY <1>1 DEF EventInv, StageOK, Settled
<1> QED
  BY <1>2, <1>3, <1>4, <1>5 DEF EventInv

LEMMA TakeKeeps ==
    ASSUME EventAssumption, EventInv, NEW p \in Posters, NEW e \in Events, TakeEvent(p, e)
    PROVE  EventInv'
<1>1. UNCHANGED <<webhook, event, attempts, unqueued, ripe, counted, posts, accepts, doubts, dropped>>
  BY DEF TakeEvent
<1>2. /\ stage'[p] = "got" /\ holds'[p] = e /\ stage[p] = "idle" /\ holds[p] = NoEvent
      /\ \A q \in Posters : q # p => stage'[q] = stage[q] /\ holds'[q] = holds[q]
      /\ mail[e] = 1 /\ mail'[e] = 0
      /\ \A f \in Events : f # e => mail'[f] = mail[f]
  BY DEF TakeEvent, EventInv, EventTypeOK, OneJob
<1>3. EventTypeOK'
  BY <1>1 DEF TakeEvent, EventInv, EventTypeOK
<1>4. \A q \in Posters : (stage[q] = "idle" <=> holds[q] = NoEvent)'
  BY <1>2 DEF EventInv, EventAssumption
<1>5. ASSUME NEW f \in Events, MayPost(f)' PROVE MayPost(f)
  <2>1. CASE f = e
    BY <1>2, <2>1 DEF MayPost
  <2>2. CASE f # e
    BY <1>1, <1>2, <1>5, <2>2 DEF MayPost
  <2> QED
    BY <2>1, <2>2
<1>6. \A f \in Events : OneJob(f)'
  BY <1>1, <1>2 DEF EventInv, OneJob, EventAssumption
<1>7. \A f \in Events : Told(f)'
  BY <1>1, <1>2 DEF EventInv, Told
<1>8. ASSUME NEW q \in Posters, (holds[q] # NoEvent)' PROVE StageOK(q, holds[q])'
  <2>1. CASE q = p
    BY <1>2, <2>1 DEF StageOK
  <2>2. CASE q # p
    BY <1>1, <1>2, <1>8, <2>2 DEF EventInv, StageOK, Settled
  <2> QED
    BY <2>1, <2>2
<1> QED
  BY <1>1, <1>3, <1>4, <1>5, <1>6, <1>7, <1>8 DEF EventInv, Bounded, Settled

-----------------------------------------------------------------------------
(* A worker's steps                                                         *)

\* What a worker does to its own event disturbs no other.
LEMMA OneWorkerKeeps ==
    ASSUME EventAssumption, EventInv, NEW p \in Posters, NEW e \in Events, holds[p] = e,
           EventTypeOK', UNCHANGED unqueued,
           \A q \in Posters : q # p => /\ stage'[q] = stage[q]
                                       /\ holds'[q] = holds[q]
                                       /\ counted'[q] = counted[q],
           holds'[p] \in {e, NoEvent}, stage'[p] # "got",
           stage'[p] = "idle" <=> holds'[p] = NoEvent,
           \A f \in Events : f # e => /\ event'[f] = event[f]
                                      /\ attempts'[f] = attempts[f]
                                      /\ mail'[f] = mail[f]
                                      /\ posts'[f] = posts[f]
                                      /\ accepts'[f] = accepts[f]
                                      /\ doubts'[f] = doubts[f]
                                      /\ (f \in dropped => f \in dropped'),
           event'[e] # "none",
           mail'[e] = 0 \/ (mail'[e] = 1 /\ holds'[p] = NoEvent /\ Settled(e)'),
           Bounded(e)', Told(e)',
           holds'[p] = e => StageOK(p, e)'
    PROVE  EventInv'
<1>1. holds[p] # NoEvent /\ e # NoEvent
  BY DEF EventAssumption
<1>2. /\ e \notin unqueued /\ mail[e] = 0
      /\ \A q \in Posters : holds[q] = e => q = p
  BY DEF EventInv, OneJob
<1>3. ASSUME NEW f \in Events PROVE OneJob(f)'
  <2>1. CASE f = e
    BY <1>1, <1>2, <2>1 DEF OneJob, EventTypeOK
  <2>2. CASE f # e
    BY <1>1, <1>2, <2>2, OneJob(f) DEF OneJob, EventInv, EventAssumption
  <2> QED
    BY <2>1, <2>2
<1>4. ASSUME NEW f \in Events PROVE Told(f)'
  <2>1. CASE f # e
    BY <1>1, <1>2, <2>1, Told(f) DEF Told, EventInv, EventAssumption
  <2> QED
    BY <2>1
<1>5. ASSUME NEW f \in Events PROVE Bounded(f)' /\ (MayPost(f)' => Settled(f)')
  <2>1. CASE f = e
    <3>1. MayPost(e)' => mail'[e] # 0
      BY <1>1, <1>2 DEF MayPost, EventTypeOK
    <3> QED
      BY <2>1, <3>1
  <2>2. CASE f # e
    <3>1. MayPost(f)' => MayPost(f)
      BY <1>1, <2>2 DEF MayPost, EventAssumption
    <3> QED
      BY <2>2, <3>1 DEF EventInv, Bounded, Settled
  <2> QED
    BY <2>1, <2>2
<1>6. ASSUME NEW q \in Posters, (holds[q] # NoEvent)' PROVE StageOK(q, holds[q])'
  <2>1. CASE q # p
    <3>1. holds[q] \in Events /\ holds[q] # e
      BY <1>2, <1>6, <2>1 DEF EventInv, EventTypeOK
    <3> QED
      BY <1>6, <2>1, <3>1 DEF EventInv, StageOK, Settled
  <2>2. CASE q = p
    BY <1>6, <2>2
  <2> QED
    BY <2>1, <2>2
<1>7. \A q \in Posters : (stage[q] = "idle" <=> holds[q] = NoEvent)'
  BY DEF EventInv
<1> QED
  BY <1>3, <1>4, <1>5, <1>6, <1>7 DEF EventInv

LEMMA WorkersKeep ==
    ASSUME EventAssumption, EventInv, NEW p \in Posters, Workers(p) PROVE EventInv'
<1> USE DEF Workers, PosterStep
<1>1. stage[p] # "idle" /\ UNCHANGED <<unqueued, webhook>>
  BY DEF ReturnEvent, ReadEvent, LookUpWebhook, SkipEvent, Post, WriteDelivered, WriteFailed,
         PostAgain, DeliveredThrows, PostIsLost
<1>2. PICK e \in Events : e = holds[p] /\ e # NoEvent
  BY <1>1 DEF EventInv, EventTypeOK, EventAssumption
<1>3. EventTypeOK
  BY DEF EventInv
<1>4. \A q \in Posters : q # p => /\ stage'[q] = stage[q]
                                  /\ holds'[q] = holds[q]
                                  /\ counted'[q] = counted[q]
  BY <1>3 DEF EventTypeOK, ReturnEvent, ReadEvent, LookUpWebhook, SkipEvent, Post, WriteDelivered,
         WriteFailed, PostAgain, DeliveredThrows, PostIsLost, Proceed, FinishPost
<1>5. \A f \in Events : f # e => /\ event'[f] = event[f]
                                 /\ attempts'[f] = attempts[f]
                                 /\ mail'[f] = mail[f]
                                 /\ posts'[f] = posts[f]
                                 /\ accepts'[f] = accepts[f]
                                 /\ doubts'[f] = doubts[f]
                                 /\ (f \in dropped => f \in dropped')
  BY <1>2, <1>3 DEF EventTypeOK, ReturnEvent, ReadEvent, LookUpWebhook, SkipEvent, Post, WriteDelivered,
         WriteFailed, PostAgain, DeliveredThrows, PostIsLost, WriteEvent
<1>6. /\ StageOK(p, e) /\ Bounded(e) /\ Told(e)
      /\ stage[p] = "got" => Settled(e)
      /\ event[e] # "none" /\ mail[e] = 0
      /\ \A q \in Posters : holds[q] = e => q = p
  BY <1>2 DEF EventInv, MayPost, OneJob
<1>7. counted[p] + 1 \in 0 .. PostTries /\ (MorePosts(p) => counted[p] + 1 < PostTries)
  BY <1>3 DEF EventTypeOK, EventAssumption, MorePosts
<1>8. ASSUME FinishPost(p)
      PROVE  /\ stage' \in [Posters -> {"idle", "got", "look", "skip", "post", "delivered", "failed", "again"}]
             /\ holds' \in [Posters -> Events \cup {NoEvent}]
             /\ counted' \in [Posters -> 0 .. (PostTries - 1)]
             /\ stage'[p] = "idle" /\ holds'[p] = NoEvent
  BY <1>3, <1>8 DEF FinishPost, EventTypeOK, EventAssumption
<1>9. ASSUME NEW where \in {"look", "skip", "post", "delivered", "failed", "again"}, Proceed(p, where)
      PROVE  /\ stage' \in [Posters -> {"idle", "got", "look", "skip", "post", "delivered", "failed", "again"}]
             /\ holds' \in [Posters -> Events \cup {NoEvent}]
             /\ counted' \in [Posters -> 0 .. (PostTries - 1)]
             /\ stage'[p] = where /\ holds'[p] = e /\ counted'[p] = counted[p]
  BY <1>2, <1>3, <1>9 DEF Proceed, EventTypeOK, EventAssumption
<1>10. ASSUME NEW outcome \in {"PENDING", "DELIVERED", "FAILED", "SKIPPED"}, WriteEvent(p, outcome)
       PROVE  /\ event' \in [Events -> EventStatus] /\ event'[e] = outcome
              /\ attempts' \in [Events -> 0 .. PostTries] /\ attempts'[e] = counted[p] + 1
  BY <1>2, <1>3, <1>7, <1>10 DEF WriteEvent, EventTypeOK, EventStatus
<1>11. ASSUME FinishPost(p) \/ \E where \in {"look", "skip", "post", "delivered", "failed", "again"} : Proceed(p, where),
              EventTypeOK', event'[e] # "none",
              mail'[e] = 0 \/ (mail'[e] = 1 /\ holds'[p] = NoEvent /\ Settled(e)'),
              Bounded(e)', Told(e)', holds'[p] = e => StageOK(p, e)'
       PROVE  EventInv'
  <2>1. /\ holds'[p] \in {e, NoEvent} /\ stage'[p] # "got"
        /\ stage'[p] = "idle" <=> holds'[p] = NoEvent
    BY <1>2, <1>8, <1>9, <1>11
  <2> QED
    BY <1>1, <1>2, <1>4, <1>5, <1>11, <2>1, OneWorkerKeeps
<1>12. CASE ReturnEvent(p)
  <2>1. FinishPost(p) /\ Settled(e)
    BY <1>6, <1>12 DEF ReturnEvent
  <2>2. /\ mail'[e] = 1 /\ mail' \in [Events -> Nat]
        /\ UNCHANGED <<event, attempts, ripe, posts, accepts, doubts, dropped>>
    BY <1>2, <1>3, <1>6, <1>12 DEF ReturnEvent, EventTypeOK
  <2>3. EventTypeOK'
    BY <1>1, <1>3, <1>8, <2>1, <2>2 DEF EventTypeOK
  <2>4. Told(e)'
    BY <1>6, <1>8, <2>1, <2>2, <1>3 DEF Told, Settled, EventTypeOK
  <2> QED
    BY <1>2, <1>6, <1>8, <1>11, <2>1, <2>2, <2>3, <2>4 DEF Settled, Bounded
\* The steps that change nothing of the event itself.
<1>13. CASE ReadEvent(p) \/ LookUpWebhook(p)
  <2>1. UNCHANGED <<event, attempts, mail, ripe, posts, accepts, doubts, dropped>>
    BY <1>13 DEF ReadEvent, LookUpWebhook
  <2>2. accepts[e] <= doubts[e]
    BY <1>6, <1>13 DEF ReadEvent, LookUpWebhook, Settled, StageOK
  <2>3. Told(e)' /\ Bounded(e)'
    BY <1>2, <1>3, <1>6, <2>1, <2>2 DEF Told, Bounded, EventTypeOK
  <2>4. CASE FinishPost(p)
    <3>1. EventTypeOK'
      BY <1>1, <1>3, <1>8, <2>1, <2>4 DEF EventTypeOK
    <3> QED
      BY <1>2, <1>6, <1>8, <1>11, <2>1, <2>3, <2>4, <3>1
  <2>5. CASE LookUpWebhook(p)
    <3>1. PICK where \in {"post", "skip"} : Proceed(p, where)
      BY <2>5 DEF LookUpWebhook
    <3>2. EventTypeOK'
      BY <1>1, <1>3, <1>9, <2>1, <3>1 DEF EventTypeOK
    <3>3. StageOK(p, e)'
      BY <1>6, <1>9, <2>1, <2>5, <3>1 DEF LookUpWebhook, StageOK
    <3> QED
      BY <1>6, <1>11, <2>1, <2>3, <3>1, <3>2, <3>3
  <2>6. CASE ReadEvent(p) /\ ~FinishPost(p)
    <3>1. /\ stage' = [stage EXCEPT ![p] = "look"] /\ holds' = holds
          /\ counted' = [counted EXCEPT ![p] = attempts[e]] /\ Settled(e)
      BY <1>2, <1>6, <2>6 DEF ReadEvent
    <3>2. attempts[e] \in 0 .. (PostTries - 1)
      BY <1>3, <3>1 DEF Settled, EventTypeOK, EventAssumption
    <3>3. EventTypeOK'
      BY <1>1, <1>3, <2>1, <3>1, <3>2 DEF EventTypeOK
    <3>4. StageOK(p, e)'
      BY <1>3, <2>1, <3>1 DEF StageOK, Settled, EventTypeOK
    <3>5. stage'[p] = "look" /\ holds'[p] = e
      BY <1>2, <1>3, <3>1 DEF EventTypeOK
    <3> QED
      BY <1>1, <1>2, <1>4, <1>5, <1>6, <2>1, <2>3, <3>3, <3>4, <3>5, OneWorkerKeeps
  <2> QED
    BY <1>13, <2>4, <2>5, <2>6
<1>14. CASE SkipEvent(p)
  <2>1. FinishPost(p) /\ WriteEvent(p, "SKIPPED") /\ UNCHANGED <<mail, ripe, posts, accepts, doubts, dropped>>
    BY <1>14 DEF SkipEvent
  <2>2. EventTypeOK'
    BY <1>1, <1>3, <1>8, <1>10, <2>1 DEF EventTypeOK
  <2>3. accepts[e] <= doubts[e]
    BY <1>6, <1>14 DEF SkipEvent, StageOK
  <2>4. Told(e)' /\ Bounded(e)'
    BY <1>2, <1>3, <1>6, <1>10, <2>1, <2>3 DEF Told, Bounded, EventTypeOK
  <2> QED
    BY <1>2, <1>6, <1>8, <1>10, <1>11, <2>1, <2>2, <2>4
<1>15. CASE Post(p)
  <2>1. /\ UNCHANGED <<event, attempts, mail, ripe, dropped>>
        /\ posts[e] <= counted[p] /\ accepts[e] <= doubts[e]
        /\ posts' \in [Events -> Nat] /\ accepts' \in [Events -> Nat] /\ doubts' \in [Events -> Nat]
        /\ posts'[e] <= counted[p] + 1
    BY <1>2, <1>3, <1>6, <1>15 DEF Post, StageOK, EventTypeOK
  <2>2. PICK where \in {"delivered", "failed"} :
            /\ Proceed(p, where)
            /\ where = "delivered" => accepts'[e] = accepts[e] + 1 /\ doubts'[e] = doubts[e]
            /\ where = "failed" => accepts'[e] <= doubts'[e]
            /\ event[e] = "DELIVERED" => accepts'[e] > 0
    BY <1>2, <1>3, <1>6, <2>1, <1>15 DEF Post, EventTypeOK, Told
  <2>3. EventTypeOK'
    BY <1>1, <1>3, <1>9, <2>1, <2>2 DEF EventTypeOK
  <2>4. StageOK(p, e)' /\ Bounded(e)'
    BY <1>2, <1>3, <1>7, <1>9, <2>1, <2>2 DEF StageOK, Bounded, EventTypeOK, EventAssumption
  <2>5. Told(e)'
    BY <1>2, <1>3, <1>6, <1>9, <2>1, <2>2 DEF Told, EventTypeOK
  <2> QED
    BY <1>6, <1>11, <2>1, <2>2, <2>3, <2>4, <2>5
<1>16. CASE WriteDelivered(p)
  <2>1. FinishPost(p) /\ WriteEvent(p, "DELIVERED") /\ UNCHANGED <<mail, ripe, posts, accepts, doubts, dropped>>
    BY <1>16 DEF WriteDelivered
  <2>2. EventTypeOK'
    BY <1>1, <1>3, <1>8, <1>10, <2>1 DEF EventTypeOK
  <2>3. Told(e)' /\ Bounded(e)'
    BY <1>6, <1>10, <1>16, <2>1 DEF WriteDelivered, StageOK, Told, Bounded
  <2> QED
    BY <1>2, <1>6, <1>8, <1>10, <1>11, <2>1, <2>2, <2>3
<1>17. CASE WriteFailed(p)
  <2>1. UNCHANGED <<mail, ripe, posts, accepts, doubts, dropped>> /\ stage[p] = "failed"
    BY <1>17 DEF WriteFailed
  <2>2. CASE MorePosts(p)
    <3>1. WriteEvent(p, "PENDING") /\ Proceed(p, "again")
      BY <1>17, <2>2 DEF WriteFailed
    <3>2. EventTypeOK'
      BY <1>1, <1>3, <1>9, <1>10, <2>1, <3>1 DEF EventTypeOK
    <3>3. StageOK(p, e)' /\ Told(e)' /\ Bounded(e)'
      BY <1>3, <1>6, <1>7, <1>9, <1>10, <2>1, <2>2, <3>1 DEF StageOK, Settled, Told, Bounded, EventTypeOK
    <3> QED
      BY <1>6, <1>10, <1>11, <2>1, <3>1, <3>2, <3>3
  <2>3. CASE ~MorePosts(p)
    <3>1. WriteEvent(p, "FAILED") /\ FinishPost(p)
      BY <1>17, <2>3 DEF WriteFailed
    <3>2. EventTypeOK'
      BY <1>1, <1>3, <1>8, <1>10, <2>1, <3>1 DEF EventTypeOK
    <3>3. counted[p] + 1 = PostTries
      BY <1>3, <2>3 DEF MorePosts, EventTypeOK, EventAssumption
    <3>4. Told(e)' /\ Bounded(e)'
      BY <1>3, <1>6, <1>10, <2>1, <3>1, <3>3 DEF StageOK, Told, Bounded, EventTypeOK
    <3> QED
      BY <1>2, <1>6, <1>8, <1>10, <1>11, <2>1, <3>1, <3>2, <3>4
  <2> QED
    BY <2>2, <2>3
<1>18. CASE PostAgain(p)
  <2>1. /\ FinishPost(p) /\ UNCHANGED <<event, attempts, posts, accepts, doubts, dropped>>
        /\ Settled(e)
    BY <1>6, <1>18 DEF PostAgain, StageOK
  <2>2. mail'[e] = 1 /\ mail' \in [Events -> Nat] /\ ripe' \subseteq Events
    BY <1>2, <1>3, <1>6, <1>18 DEF PostAgain, EventTypeOK
  <2>3. EventTypeOK'
    BY <1>1, <1>3, <1>8, <2>1, <2>2 DEF EventTypeOK
  <2>4. Settled(e)' /\ Told(e)' /\ Bounded(e)'
    BY <1>3, <1>6, <2>1 DEF Settled, Told, Bounded, EventTypeOK
  <2> QED
    BY <1>2, <1>6, <1>8, <1>11, <2>1, <2>2, <2>3, <2>4
<1>19. CASE DeliveredThrows(p)
  <2>1. /\ Proceed(p, "failed") /\ UNCHANGED <<mail, ripe, posts, accepts, dropped>>
        /\ UNCHANGED <<event, attempts>> \/ WriteEvent(p, "DELIVERED")
        /\ doubts' \in [Events -> Nat] /\ doubts'[e] = doubts[e] + 1
        /\ stage[p] = "delivered"
    BY <1>2, <1>3, <1>19 DEF DeliveredThrows, EventTypeOK
  <2>2. EventTypeOK'
    BY <1>1, <1>3, <1>9, <1>10, <2>1 DEF EventTypeOK
  <2>3. StageOK(p, e)' /\ Bounded(e)'
    BY <1>3, <1>6, <1>9, <2>1 DEF StageOK, Bounded, EventTypeOK
  <2>4. Told(e)' /\ event'[e] # "none"
    BY <1>3, <1>6, <1>10, <2>1 DEF StageOK, Told, EventTypeOK
  <2> QED
    BY <1>6, <1>11, <2>1, <2>2, <2>3, <2>4
<1>20. CASE PostIsLost(p)
  <2>1. /\ FinishPost(p) /\ UNCHANGED <<event, attempts, mail, ripe, posts, accepts, doubts>>
        /\ dropped' = dropped \cup {e}
    BY <1>2, <1>20 DEF PostIsLost
  <2>2. EventTypeOK'
    BY <1>1, <1>3, <1>8, <2>1 DEF EventTypeOK
  <2>3. Told(e)' /\ Bounded(e)'
    BY <1>6, <2>1 DEF Told, Bounded
  <2> QED
    BY <1>2, <1>6, <1>8, <1>11, <2>1, <2>2, <2>3
<1> QED
  BY <1>12, <1>13, <1>14, <1>15, <1>16, <1>17, <1>18, <1>19, <1>20

-----------------------------------------------------------------------------

LEMMA NextEventInv ==
    ASSUME EventAssumption, EventInv, [EventNext]_eventVars PROVE EventInv'
<1>1. CASE \E p \in Posters, e \in Events : TakeEvent(p, e)
  BY <1>1, TakeKeeps
<1>2. CASE \E p \in Posters : Workers(p)
  BY <1>2, WorkersKeep
<1>3. CASE \E e \in Events : Creators(e)
  BY <1>3, CreatorsKeep
<1>4. CASE PutWebhook \/ \E e \in Events : EventRipens(e)
  BY <1>4, OthersKeep
<1>5. CASE UNCHANGED eventVars
  BY <1>5 DEF eventVars, EventInv, EventTypeOK, OneJob, Bounded, Told, MayPost, Settled, StageOK
<1> QED
  BY <1>1, <1>2, <1>3, <1>4, <1>5 DEF EventNext, DeliveryNext, Workers, Creators

LEMMA EventInvHolds == EventSpec => []EventInv
<1> USE EventAssumption
<1>1. EventInit => EventInv
  BY InitEventInv
<1>2. EventInv /\ [EventNext]_eventVars => EventInv'
  BY NextEventInv
<1> QED
  BY <1>1, <1>2, PTL DEF EventSpec

\* Rows, lists and the workers' locals keep their types; in particular no event
\* counts more than PostTries attempts.
THEOREM EventTypeCorrect == EventSpec => []EventTypeOK
<1>1. EventInv => EventTypeOK
  BY DEF EventInv
<1> QED
  BY <1>1, EventInvHolds, PTL

\* An event is posted at most PostTries times, and again after a good answer
\* only if the answer or its record was lost (processPublicWebhookEventDelivery).
THEOREM ReasonedPosts == EventSpec => []PostsHaveReasons
<1>1. EventInv => PostsHaveReasons
  BY DEF EventInv, Bounded, PostsHaveReasons
<1> QED
  BY <1>1, EventInvHolds, PTL

\* DELIVERED, FAILED and their absence tell what became of the event.
THEOREM StatusTells == EventSpec => []StatusTellsDelivery
<1>1. EventInv => StatusTellsDelivery
  BY DEF EventInv, Told, StatusTellsDelivery
<1> QED
  BY <1>1, EventInvHolds, PTL

-----------------------------------------------------------------------------
(* BOTH TOGETHER                                                            *)

\* A step of the whole is a step of the scheduled sends, or leaves them alone.
LEMMA StepOfSchedules == ASSUME [Next]_vars PROVE [ScheduleNext]_scheduleVars
<1>1. CASE \E w \in Senders : Report(w)
  <2>1. PICK w \in Senders : Report(w)
    BY <1>1
  <2>2. FindWebhook(w, TRUE) \/ FindWebhook(w, FALSE) \/ StoreEvent(w) \/ EnqueueEvent(w)
    <3>1. ("listens" \in webhook) \in BOOLEAN
      OBVIOUS
    <3>2. CASE "listens" \in webhook
      BY <2>1, <3>2 DEF Report, ReportFinds, ReportStores, ReportQueues, FindWebhook, Continue
    <3>3. CASE "listens" \notin webhook
      BY <2>1, <3>3 DEF Report, ReportFinds, ReportStores, ReportQueues, FindWebhook, Continue
    <3> QED
      BY <3>1, <3>2, <3>3
  <2> QED
    BY <2>2 DEF ScheduleNext
<1>2. CASE \E w \in Senders : ReportFails(w) \/ ScheduleAlone(SenderStep(w))
  BY <1>2 DEF ReportFails, ScheduleAlone, ScheduleNext
<1>3. CASE \E w \in Senders, s \in Schedules : ScheduleAlone(TakeJob(w, s))
  BY <1>3 DEF ScheduleAlone, ScheduleNext
<1>4. CASE ScheduleAlone(RequestSteps)
  BY <1>4 DEF ScheduleAlone, ScheduleNext
<1>5. CASE EventsAlone(DeliveryNext)
  BY <1>5 DEF EventsAlone
<1>6. CASE UNCHANGED vars
  BY <1>6 DEF vars
<1> QED
  BY <1>1, <1>2, <1>3, <1>4, <1>5, <1>6 DEF Next

\* The whole implements the schedules alone: whatever the events do, what it
\* does to a schedule is what PublicSchedule says may be done to it.
THEOREM ImplementsSchedules == Spec => ScheduleSpec
<1>1. Init => ScheduleInit
  BY DEF Init
<1>2. [Next]_vars => [ScheduleNext]_scheduleVars
  BY StepOfSchedules
<1> QED
  BY <1>1, <1>2, PTL DEF Spec, ScheduleSpec

\* RepeatsHaveReasons with the events in place: messages are repeated for the
\* same reasons only, whatever the webhook's workers and its configuration do.
THEOREM ReportedRepeats == Spec => []RepeatsHaveReasons
BY ImplementsSchedules, ReasonedRepeats, PTL

\* QuietCancelHolds with the events in place.
THEOREM ReportedQuietCancels == Spec => QuietCancelHolds
BY ImplementsSchedules, QuietCancels, PTL

-----------------------------------------------------------------------------
(* The events                                                               *)

\* A worker that has stored an event knows its key, so that what it does to the
\* event's job is a step of that event.
NewsInv ==
    /\ news \in [Senders -> Events \cup {NoEvent}]
    /\ \A w \in Senders : step[w] = "notify" => news[w] \in Events

LEMMA NextNewsInv ==
    ASSUME TypeInv, NewsInv, [Next]_vars PROVE NewsInv'
<1>1. step \in [Senders -> {"idle", "got"} \cup Sending]
  BY DEF TypeInv, ScheduleTypeOK
<1> USE <1>1 DEF NewsInv
<1>2. ASSUME NEW w \in Senders, Report(w) PROVE NewsInv'
  BY <1>2 DEF Report, ReportFinds, ReportStores, ReportQueues, FindWebhook, StoreEvent, EnqueueEvent,
              Continue, NextKey
<1>3. ASSUME NEW w \in Senders, ReportFails(w) PROVE NewsInv'
  BY <1>3 DEF ReportFails, ReportThrows, JobIsLost, Continue, FinishJob
<1>4. ASSUME NEW w \in Senders, ScheduleAlone(SenderStep(w)) PROVE NewsInv'
  <2>1. UNCHANGED news /\ \E where \in {"idle", "send", "emit", "fail", "again"} :
                              step' = [step EXCEPT ![w] = where]
    BY <1>4 DEF ScheduleAlone, linkVars, SenderStep, PutBack, ReadSchedule, SendScheduled, SendRefused,
                RecordSent, RecordFailure, Retry, Continue, FinishJob
  <2> QED
    BY <2>1
<1>5. ASSUME NEW w \in Senders, NEW s \in Schedules, ScheduleAlone(TakeJob(w, s)) PROVE NewsInv'
  BY <1>5 DEF ScheduleAlone, linkVars, TakeJob
<1>6. CASE ScheduleAlone(RequestSteps)
  BY <1>6 DEF ScheduleAlone, linkVars, RequestSteps, CreateSchedule, PushSchedule, CreatorFails,
              CancelSchedule, DueComes
<1>7. CASE EventsAlone(DeliveryNext) \/ UNCHANGED vars
  BY <1>7 DEF EventsAlone, vars, linkVars, scheduleVars
<1> QED
  BY <1>2, <1>3, <1>4, <1>5, <1>6, <1>7 DEF Next

\* A step of the whole is a step of the events, or leaves them alone.
LEMMA StepOfEvents == ASSUME NewsInv, [Next]_vars PROVE [EventNext]_eventVars
<1>1. ASSUME NEW w \in Senders, Report(w) PROVE [EventNext]_eventVars
  BY <1>1 DEF Report, ReportFinds, ReportStores, ReportQueues, EnqueueEvent, NextKey, EventNext, NewsInv
<1>2. ASSUME NEW w \in Senders, ReportFails(w) PROVE [EventNext]_eventVars
  BY <1>2 DEF ReportFails, EventNext, NewsInv
<1>3. CASE \/ \E w \in Senders : ScheduleAlone(SenderStep(w))
           \/ \E w \in Senders, s \in Schedules : ScheduleAlone(TakeJob(w, s))
           \/ ScheduleAlone(RequestSteps)
  BY <1>3 DEF ScheduleAlone
<1>4. CASE EventsAlone(DeliveryNext)
  BY <1>4 DEF EventsAlone, EventNext
<1>5. CASE UNCHANGED vars
  BY <1>5 DEF vars
<1> QED
  BY <1>1, <1>2, <1>3, <1>4, <1>5 DEF Next

\* The whole implements the events alone: whoever reports a message creates and
\* queues events as WebhookEvents says, workers in trouble included.
THEOREM ImplementsEvents == Spec => EventSpec
<1>1. Init => EventInit /\ NewsInv /\ TypeInv
  BY InitTypeInv, ScheduleAssumption DEF Init, NewsInv, ScheduleInit
<1>2. TypeInv /\ NewsInv /\ [Next]_vars => (TypeInv /\ NewsInv)'
  BY NextTypeInv, NextNewsInv, StepOfSchedules, ScheduleAssumption
<1>3. NewsInv /\ [Next]_vars => [EventNext]_eventVars
  BY StepOfEvents
<1> QED
  BY <1>1, <1>2, <1>3, PTL DEF Spec, EventSpec

\* PostsHaveReasons for the events that workers in trouble report.
THEOREM ReportedPosts == Spec => []PostsHaveReasons
BY ImplementsEvents, ReasonedPosts, PTL

\* StatusTellsDelivery for the events that workers in trouble report.
THEOREM ReportedStatus == Spec => []StatusTellsDelivery
BY ImplementsEvents, StatusTells, PTL

-----------------------------------------------------------------------------
(* Messages and events                                                      *)

\* An event that was never created reports on nothing.
AboutOK == \A e \in Events : event[e] = "none" => about[e] = NoSchedule

\* The messages of a schedule, counted: every event has its message, a worker
\* that is reporting has a message without an event, and the messages that are
\* left over are accounted for.
Reported(s) ==
    /\ IsFiniteSet(EventsAbout(s))
    /\ IsFiniteSet(Unreported(s))
    /\ Cardinality(EventsAbout(s)) + Cardinality(Unreported(s)) <= sends[s]
    /\ s \notin lost =>
           sends[s] <= Cardinality(EventsAbout(s)) + muted[s] + slips[s]
                       + Cardinality(Unreported(s))

ReportInv ==
    /\ LinkTypeOK
    /\ AboutOK
    /\ \A s \in Schedules : Reported(s)

\* Two sets that differ at most in one element.
LEMMA OneMoreOrLess ==
    ASSUME NEW S, NEW T, NEW x, IsFiniteSet(S), T \ {x} = S \ {x}
    PROVE  /\ IsFiniteSet(T)
           /\ Cardinality(S) \in Nat /\ Cardinality(T) \in Nat
           /\ (x \in S <=> x \in T) => Cardinality(T) = Cardinality(S)
           /\ x \notin S /\ x \in T => Cardinality(T) = Cardinality(S) + 1
           /\ x \in S /\ x \notin T => Cardinality(S) = Cardinality(T) + 1
<1>1. T \subseteq S \cup {x} /\ IsFiniteSet(S \cup {x})
  BY FS_AddElement
<1>2. IsFiniteSet(T)
  BY <1>1, FS_Subset
<1>3. Cardinality(S) \in Nat /\ Cardinality(T) \in Nat
  BY <1>2, FS_CardinalityType
<1>4. (x \in S <=> x \in T) => T = S
  OBVIOUS
<1>5. ASSUME x \notin S, x \in T PROVE Cardinality(T) = Cardinality(S) + 1
  <2>1. T = S \cup {x}
    BY <1>5
  <2> QED
    BY <1>5, <2>1, FS_AddElement
<1>6. ASSUME x \in S, x \notin T PROVE Cardinality(S) = Cardinality(T) + 1
  <2>1. S = T \cup {x}
    BY <1>6
  <2> QED
    BY <1>2, <1>6, <2>1, FS_AddElement
<1> QED
  BY <1>2, <1>3, <1>4, <1>5, <1>6

\* A step that moves no message and no report.
LEMMA ReportedStays ==
    ASSUME NEW s \in Schedules, Reported(s), UNCHANGED about, Unreported(s)' = Unreported(s),
           sends'[s] = sends[s], slips'[s] = slips[s], muted'[s] = muted[s],
           s \in lost => s \in lost'
    PROVE  Reported(s)'
<1>1. EventsAbout(s)' = EventsAbout(s)
  BY DEF EventsAbout
<1> HIDE DEF EventsAbout, Unreported
<1> QED
  BY <1>1 DEF Reported

\* A message that the worker has sent and not reported yet.
Owes(where) == IF where \in {"emit", "event"} THEN 1 ELSE 0

\* A worker goes on, or finishes; with it went so many messages, faults and
\* messages that nobody wanted reported.
HandMoves(w, where, messages, faults, unwanted) ==
    /\ step[w] # "idle"
    /\ step' = [step EXCEPT ![w] = where]
    /\ \A v \in Senders : v # w \/ where # "idle" => has'[v] = has[v]
    /\ \A s \in Schedules :
           /\ sends'[s] = sends[s] + (IF s = has[w] THEN messages ELSE 0)
           /\ slips'[s] = slips[s] + (IF s = has[w] THEN faults ELSE 0)
           /\ muted'[s] = muted[s] + (IF s = has[w] THEN unwanted ELSE 0)
    /\ lost \subseteq lost'
    /\ UNCHANGED about

\* A worker's step that creates no event.
LEMMA HandReported ==
    ASSUME TypeInv, ReportInv, NEW w \in Senders, NEW where,
           NEW messages \in Nat, NEW faults \in Nat, NEW unwanted \in Nat,
           HandMoves(w, where, messages, faults, unwanted),
           Owes(where) <= Owes(step[w]) + messages,
           has[w] \notin lost' => Owes(step[w]) + messages <= Owes(where) + unwanted + faults
    PROVE  \A s \in Schedules : Reported(s)'
<1> SUFFICES ASSUME NEW s \in Schedules PROVE Reported(s)'
  OBVIOUS
<1> USE DEF HandMoves
<1>1. Unreported(s)' \ {w} = Unreported(s) \ {w}
  BY DEF Unreported, TypeInv, ScheduleTypeOK
<1>2. Reported(s)
  BY DEF ReportInv
<1>3. sends[s] \in Nat /\ slips[s] \in Nat /\ muted[s] \in Nat
  BY DEF TypeInv, ScheduleTypeOK, ReportInv, LinkTypeOK
<1>4. CASE s # has[w]
  <2>1. w \notin Unreported(s) /\ w \notin Unreported(s)'
    BY <1>4 DEF Unreported, TypeInv, ScheduleTypeOK
  <2>2. Unreported(s)' = Unreported(s)
    BY <1>1, <2>1
  <2> QED
    BY <1>2, <1>3, <1>4, <2>2, ReportedStays
<1>5. CASE s = has[w]
  <2> DEFINE E == Cardinality(EventsAbout(s))
             U == Cardinality(Unreported(s))
             V == Cardinality(Unreported(s)')
  <2>1. /\ w \in Unreported(s) <=> step[w] \in {"emit", "event"}
        /\ w \in Unreported(s)' <=> where \in {"emit", "event"}
    BY <1>5 DEF Unreported, TypeInv, ScheduleTypeOK
  <2>2. /\ IsFiniteSet(Unreported(s)')
        /\ U \in Nat /\ V \in Nat
        /\ V + Owes(step[w]) = U + Owes(where)
    <3>1. IsFiniteSet(Unreported(s))
      BY <1>2 DEF Reported
    <3> HIDE DEF Unreported
    <3> QED
      BY <1>1, <2>1, <3>1, OneMoreOrLess DEF Owes
  <2>3. EventsAbout(s)' = EventsAbout(s)
    BY DEF EventsAbout
  <2>4. IsFiniteSet(EventsAbout(s)) /\ E \in Nat
    BY <1>2, FS_CardinalityType DEF Reported
  <2>5. /\ sends'[s] = sends[s] + messages
        /\ slips'[s] = slips[s] + faults
        /\ muted'[s] = muted[s] + unwanted
    BY <1>5
  <2>6. /\ E + U <= sends[s]
        /\ s \notin lost' => sends[s] <= E + muted[s] + slips[s] + U
    BY <1>2 DEF Reported
  <2>7. Owes(step[w]) \in Nat /\ Owes(where) \in Nat
    BY DEF Owes
  <2> HIDE DEF E, U, V, HandMoves
  <2>8. E + V <= sends'[s]
    BY <1>3, <2>2, <2>4, <2>5, <2>6, <2>7
  <2>9. s \notin lost' => sends'[s] <= E + muted'[s] + slips'[s] + V
    BY <1>3, <1>5, <2>2, <2>4, <2>5, <2>6, <2>7
  <2> QED
    BY <2>2, <2>3, <2>4, <2>8, <2>9 DEF Reported, E, V
<1> QED
  BY <1>4, <1>5

\* Whatever happens to an event, its row stays.
LEMMA OnlyCreated ==
    ASSUME EventTypeOK, DeliveryNext
    PROVE  \A e \in Events : event'[e] = "none" => event[e] = "none"
<1> USE DEF EventTypeOK
<1>1. CASE PutWebhook \/ \E e \in Events : EventRipens(e)
  BY <1>1 DEF PutWebhook, EventRipens
<1>2. CASE \E p \in Posters, e \in Events : TakeEvent(p, e)
  BY <1>2 DEF TakeEvent
<1>3. ASSUME NEW p \in Posters, PosterStep(p) \/ DeliveredThrows(p) \/ PostIsLost(p)
      PROVE  \A e \in Events : event'[e] = "none" => event[e] = "none"
  <2>1. UNCHANGED event \/ \E outcome \in EventStatus \ {"none"} : WriteEvent(p, outcome)
    BY <1>3 DEF PosterStep, ReturnEvent, ReadEvent, LookUpWebhook, SkipEvent, Post, WriteDelivered,
                WriteFailed, PostAgain, DeliveredThrows, PostIsLost, EventStatus
  <2> QED
    BY <2>1 DEF WriteEvent
<1> QED
  BY <1>1, <1>2, <1>3 DEF DeliveryNext

LEMMA LinkTyped ==
    ASSUME TypeInv, EventTypeOK, ReportInv, [Next]_vars PROVE (LinkTypeOK /\ AboutOK)'
<1> USE DEF ReportInv, LinkTypeOK, AboutOK
<1>1. \A w \in Senders : step[w] # "idle" => has[w] \in Schedules
  BY DEF TypeInv, ScheduleTypeOK, HandOK
<1>2. ASSUME NEW w \in Senders, Report(w) PROVE (LinkTypeOK /\ AboutOK)'
  <2>1. CASE ReportFinds(w)
    BY <1>1, <2>1 DEF ReportFinds, FindWebhook, eventVars
  <2>2. CASE ReportStores(w)
    <3>1. PICK e \in NextKey : /\ CreateEvent(e)
                               /\ news' = [news EXCEPT ![w] = e]
                               /\ about' = [about EXCEPT ![e] = has[w]]
      BY <2>2 DEF ReportStores
    <3>2. e \in Events
      BY DEF NextKey
    <3>3. event' = [event EXCEPT ![e] = "PENDING"]
      BY <3>1 DEF CreateEvent
    <3>4. has[w] \in Schedules
      BY <1>1, <2>2 DEF ReportStores, StoreEvent
    <3>5. event \in [Events -> EventStatus]
      BY DEF EventTypeOK
    <3> QED
      BY <2>2, <3>1, <3>2, <3>3, <3>4, <3>5 DEF ReportStores
  <2>3. CASE ReportQueues(w)
    BY <2>3 DEF ReportQueues, QueueEvent
  <2> QED
    BY <1>2, <2>1, <2>2, <2>3 DEF Report
<1>3. ASSUME NEW w \in Senders, ReportFails(w) PROVE (LinkTypeOK /\ AboutOK)'
  BY <1>3 DEF ReportFails, QueueEvent, EventIsLost, eventVars
<1>4. CASE \/ \E w \in Senders : ScheduleAlone(SenderStep(w))
           \/ \E w \in Senders, s \in Schedules : ScheduleAlone(TakeJob(w, s))
           \/ ScheduleAlone(RequestSteps)
           \/ UNCHANGED vars
  <2>1. UNCHANGED <<event, about, news, muted>>
    BY <1>4 DEF ScheduleAlone, vars, linkVars, eventVars
  <2> QED
    BY <2>1
<1>5. CASE EventsAlone(DeliveryNext)
  <2>1. \A e \in Events : event'[e] = "none" => event[e] = "none"
    BY <1>5, OnlyCreated DEF EventsAlone
  <2> QED
    BY <1>5, <2>1 DEF EventsAlone, linkVars
<1> QED
  BY <1>2, <1>3, <1>4, <1>5 DEF Next

LEMMA StoresReported ==
    ASSUME TypeInv, ReportInv, NEW w \in Senders, ReportStores(w)
    PROVE  \A s \in Schedules : Reported(s)'
<1> SUFFICES ASSUME NEW s \in Schedules PROVE Reported(s)'
  OBVIOUS
<1>1. PICK e \in NextKey : CreateEvent(e) /\ about' = [about EXCEPT ![e] = has[w]]
  BY DEF ReportStores
<1>2. /\ step[w] = "event" /\ step' = [step EXCEPT ![w] = "notify"]
      /\ UNCHANGED <<has, sends, slips, lost, muted>>
  BY DEF ReportStores, StoreEvent, Continue
<1>3. e \in Events /\ about[e] = NoSchedule
  BY <1>1 DEF NextKey, ReportInv, AboutOK
<1>4. Reported(s)
  BY DEF ReportInv
<1>5. Unreported(s)' \ {w} = Unreported(s) \ {w}
  BY <1>2 DEF TypeInv, ScheduleTypeOK, Unreported
<1>6. EventsAbout(s)' \ {e} = EventsAbout(s) \ {e} /\ e \notin EventsAbout(s)
  BY <1>1, <1>3, ScheduleAssumption DEF EventsAbout, ReportInv, LinkTypeOK
<1>7. /\ w \notin Unreported(s)'
      /\ w \in Unreported(s) <=> has[w] = s
      /\ e \in EventsAbout(s)' <=> has[w] = s
  BY <1>1, <1>2, <1>3 DEF TypeInv, ScheduleTypeOK, Unreported, EventsAbout, ReportInv, LinkTypeOK
<1>8. sends[s] \in Nat /\ slips[s] \in Nat /\ muted[s] \in Nat
  BY DEF TypeInv, ScheduleTypeOK, ReportInv, LinkTypeOK
<1> HIDE DEF EventsAbout, Unreported
<1>9. /\ IsFiniteSet(Unreported(s)') /\ IsFiniteSet(EventsAbout(s)')
      /\ Cardinality(Unreported(s)) \in Nat /\ Cardinality(EventsAbout(s)) \in Nat
      /\ Cardinality(Unreported(s)') \in Nat /\ Cardinality(EventsAbout(s)') \in Nat
      /\ Cardinality(Unreported(s)') + Cardinality(EventsAbout(s)')
           = Cardinality(Unreported(s)) + Cardinality(EventsAbout(s))
  <2>1. IsFiniteSet(Unreported(s)) /\ IsFiniteSet(EventsAbout(s))
    BY <1>4 DEF Reported
  <2>2. /\ IsFiniteSet(Unreported(s)')
        /\ Cardinality(Unreported(s)) \in Nat /\ Cardinality(Unreported(s)') \in Nat
        /\ has[w] = s => Cardinality(Unreported(s)) = Cardinality(Unreported(s)') + 1
        /\ has[w] # s => Cardinality(Unreported(s)) = Cardinality(Unreported(s)')
    BY <1>5, <1>7, <2>1, OneMoreOrLess
  <2>3. /\ IsFiniteSet(EventsAbout(s)')
        /\ Cardinality(EventsAbout(s)) \in Nat /\ Cardinality(EventsAbout(s)') \in Nat
        /\ has[w] = s => Cardinality(EventsAbout(s)') = Cardinality(EventsAbout(s)) + 1
        /\ has[w] # s => Cardinality(EventsAbout(s)') = Cardinality(EventsAbout(s))
    BY <1>6, <1>7, <2>1, OneMoreOrLess
  <2> QED
    BY <2>2, <2>3
<1> QED
  BY <1>2, <1>4, <1>8, <1>9 DEF Reported

LEMMA FindsReported ==
    ASSUME TypeInv, ReportInv, NEW w \in Senders, ReportFinds(w) \/ ReportQueues(w)
    PROVE  \A s \in Schedules : Reported(s)'
<1>0. TypeInv /\ ScheduleTypeOK /\ LinkTypeOK
  BY DEF TypeInv, ReportInv
<1> USE DEF Owes
<1>1. CASE ReportFinds(w)
  <2>1. CASE "listens" \in webhook
    <3>1. step[w] = "emit" /\ HandMoves(w, "event", 0, 0, 0)
      BY <1>0, <1>1, <2>1 DEF ReportFinds, FindWebhook, Continue, HandMoves, ScheduleTypeOK, LinkTypeOK
    <3> QED
      BY <3>1, HandReported
  <2>2. CASE "listens" \notin webhook
    <3>1. step[w] = "emit" /\ HandMoves(w, "record", 0, 0, 1)
      BY <1>0, <1>1, <2>2 DEF ReportFinds, FindWebhook, Continue, HandMoves, ScheduleTypeOK, LinkTypeOK
    <3> QED
      BY <3>1, HandReported
  <2> QED
    BY <2>1, <2>2
<1>2. CASE ReportQueues(w)
  <2>1. step[w] = "notify" /\ HandMoves(w, "record", 0, 0, 0)
    BY <1>0, <1>2 DEF ReportQueues, EnqueueEvent, Continue, HandMoves, ScheduleTypeOK, LinkTypeOK
  <2> QED
    BY <2>1, HandReported
<1> QED
  BY <1>1, <1>2

LEMMA FailsReported ==
    ASSUME TypeInv, ReportInv, NEW w \in Senders, ReportFails(w)
    PROVE  \A s \in Schedules : Reported(s)'
<1>0. TypeInv /\ ScheduleTypeOK /\ LinkTypeOK
  BY DEF TypeInv, ReportInv
<1>1. UNCHANGED <<about, muted>>
  BY DEF ReportFails
<1> USE DEF Owes
<1>2. CASE ReportThrows(w)
  <2>1. CASE step[w] = "send"
    <3>1. HandMoves(w, "fail", 1, 1, 0)
      BY <1>0, <1>1, <1>2, <2>1 DEF ReportThrows, Continue, HandMoves, ScheduleTypeOK, LinkTypeOK
    <3> QED
      BY <2>1, <3>1, HandReported
  <2>2. CASE step[w] \in {"emit", "event", "notify", "record"}
    <3>1. HandMoves(w, "fail", 0, 1, 0)
      BY <1>0, <1>1, <1>2, <2>2 DEF ReportThrows, Continue, HandMoves, ScheduleTypeOK, LinkTypeOK
    <3> QED
      BY <2>2, <3>1, HandReported
  <2> QED
    BY <1>2, <2>1, <2>2 DEF ReportThrows
<1>3. CASE JobIsLost(w)
  <2>1. HandMoves(w, "idle", 0, 0, 0) /\ has[w] \in lost'
    BY <1>0, <1>1, <1>3 DEF JobIsLost, FinishJob, HandMoves, ScheduleTypeOK, LinkTypeOK
  <2> QED
    BY <2>1, HandReported
<1> QED
  BY <1>2, <1>3 DEF ReportFails

LEMMA SenderReported ==
    ASSUME TypeInv, ReportInv, NEW w \in Senders, ScheduleAlone(SenderStep(w))
    PROVE  \A s \in Schedules : Reported(s)'
<1>0. TypeInv /\ ScheduleTypeOK /\ LinkTypeOK
  BY DEF TypeInv, ReportInv
<1>1. UNCHANGED <<about, muted>>
  BY DEF ScheduleAlone, linkVars
<1>2. CASE SendScheduled(w)
  <2>1. step[w] = "send" /\ HandMoves(w, "emit", 1, 0, 0)
    BY <1>0, <1>1, <1>2 DEF SendScheduled, Continue, HandMoves, ScheduleTypeOK, LinkTypeOK
  <2> QED
    BY <2>1, HandReported DEF Owes
<1>3. ASSUME NEW where, ~ SendScheduled(w), HandMoves(w, where, 0, 0, 0),
             step[w] \notin {"emit", "event"}, where \notin {"emit", "event"}
      PROVE  \A s \in Schedules : Reported(s)'
  BY <1>3, HandReported DEF Owes
<1>4. CASE \/ SendRefused(w) \/ PutBack(w) \/ RecordSent(w) \/ Retry(w)
           \/ RecordFailure(w) \/ ReadSchedule(w)
  <2>1. ~ SendScheduled(w) /\ step[w] \notin {"emit", "event"}
    <3>1. step'[w] # "emit"
      BY <1>0, <1>4 DEF SendRefused, PutBack, RecordSent, Retry, RecordFailure, ReadSchedule, Continue,
                        FinishJob, ScheduleTypeOK
    <3>2. step[w] \notin {"emit", "event"}
      BY <1>4 DEF SendRefused, PutBack, RecordSent, Retry, RecordFailure, ReadSchedule
    <3> QED
      BY <1>0, <3>1, <3>2 DEF SendScheduled, Continue, ScheduleTypeOK
  <2>2. \E where \in {"idle", "fail", "again", "send"} : HandMoves(w, where, 0, 0, 0)
    <3>1. UNCHANGED <<sends, slips, lost>> /\ step[w] # "idle"
      BY <1>4 DEF SendRefused, PutBack, RecordSent, Retry, RecordFailure, ReadSchedule
    <3>2. \/ step' = [step EXCEPT ![w] = "idle"] /\ has' = [has EXCEPT ![w] = NoSchedule]
          \/ /\ \E where \in {"fail", "again", "send"} : step' = [step EXCEPT ![w] = where]
             /\ UNCHANGED has
      BY <1>4 DEF SendRefused, PutBack, RecordSent, Retry, RecordFailure, ReadSchedule, Continue, FinishJob
    <3> QED
      BY <1>0, <1>1, <3>1, <3>2 DEF HandMoves, ScheduleTypeOK, LinkTypeOK
  <2> QED
    BY <1>3, <2>1, <2>2
<1> QED
  BY <1>2, <1>4 DEF ScheduleAlone, SenderStep

LEMMA NextReportInv ==
    ASSUME TypeInv, EventTypeOK, ReportInv, [Next]_vars PROVE ReportInv'
<1>0. (LinkTypeOK /\ AboutOK)'
  BY LinkTyped
<1>1. \A s \in Schedules : Reported(s)
  BY DEF ReportInv
<1>2. ASSUME NEW w \in Senders, Report(w) PROVE \A s \in Schedules : Reported(s)'
  BY <1>2, FindsReported, StoresReported DEF Report
<1>3. ASSUME NEW w \in Senders, ReportFails(w) PROVE \A s \in Schedules : Reported(s)'
  BY <1>3, FailsReported
<1>4. ASSUME NEW w \in Senders, ScheduleAlone(SenderStep(w)) PROVE \A s \in Schedules : Reported(s)'
  BY <1>4, SenderReported
<1>5. ASSUME NEW w \in Senders, NEW t \in Schedules, ScheduleAlone(TakeJob(w, t))
      PROVE  \A s \in Schedules : Reported(s)'
  <2>1. \A s \in Schedules : Unreported(s)' = Unreported(s)
    BY <1>5 DEF ScheduleAlone, TakeJob, Unreported, TypeInv, ScheduleTypeOK
  <2> QED
    BY <1>1, <1>5, <2>1, ReportedStays DEF ScheduleAlone, TakeJob, linkVars
<1>6. CASE ScheduleAlone(RequestSteps)
  <2>1. UNCHANGED <<step, has, sends, slips, about, muted>> /\ lost \subseteq lost'
    BY <1>6 DEF ScheduleAlone, linkVars, RequestSteps, CreateSchedule, PushSchedule, CreatorFails,
                CancelSchedule, DueComes
  <2> SUFFICES ASSUME NEW s \in Schedules PROVE Reported(s)'
    BY <1>0 DEF ReportInv
  <2>2. Unreported(s)' = Unreported(s)
    BY <2>1 DEF Unreported
  <2>3. /\ sends'[s] = sends[s] /\ slips'[s] = slips[s] /\ muted'[s] = muted[s]
        /\ UNCHANGED about
        /\ s \in lost => s \in lost'
    BY <2>1
  <2> QED
    BY <1>1, <2>2, <2>3, ReportedStays
<1>7. CASE EventsAlone(DeliveryNext) \/ UNCHANGED vars
  <2>1. UNCHANGED <<step, has, sends, slips, lost, about, muted>>
    BY <1>7 DEF EventsAlone, vars, scheduleVars, linkVars
  <2> SUFFICES ASSUME NEW s \in Schedules PROVE Reported(s)'
    BY <1>0 DEF ReportInv
  <2>2. Unreported(s)' = Unreported(s)
    BY <2>1 DEF Unreported
  <2>3. /\ sends'[s] = sends[s] /\ slips'[s] = slips[s] /\ muted'[s] = muted[s]
        /\ UNCHANGED about
        /\ s \in lost => s \in lost'
    BY <2>1
  <2> QED
    BY <1>1, <2>2, <2>3, ReportedStays
<1> QED
  BY <1>0, <1>2, <1>3, <1>4, <1>5, <1>6, <1>7 DEF Next, ReportInv

LEMMA ReportInvHolds == Spec => [](TypeInv /\ ReportInv)
<1>1. Init => TypeInv /\ ReportInv
  <2> SUFFICES ASSUME Init PROVE TypeInv /\ ReportInv
    OBVIOUS
  <2>1. TypeInv
    BY InitTypeInv, ScheduleAssumption DEF Init
  <2>2. LinkTypeOK /\ AboutOK
    BY DEF Init, LinkTypeOK, AboutOK
  <2>3. ASSUME NEW s \in Schedules PROVE Reported(s)
    <3>1. EventsAbout(s) = {} /\ Unreported(s) = {}
      BY ScheduleAssumption DEF Init, ScheduleInit, EventsAbout, Unreported
    <3>2. sends[s] = 0 /\ slips[s] = 0 /\ muted[s] = 0
      BY DEF Init, ScheduleInit
    <3> HIDE DEF EventsAbout, Unreported
    <3> QED
      BY <3>1, <3>2, FS_EmptySet DEF Reported
  <2> QED
    BY <2>1, <2>2, <2>3 DEF ReportInv
<1>2. TypeInv /\ EventTypeOK /\ ReportInv /\ [Next]_vars => (TypeInv /\ ReportInv)'
  BY NextTypeInv, NextReportInv, StepOfSchedules, ScheduleAssumption
<1> QED
  BY <1>1, <1>2, ImplementsEvents, EventTypeCorrect, PTL DEF Spec

\* Schedules, events and what links them are what they are meant to be.
THEOREM TypeCorrect == Spec => []TypeOK
<1>1. TypeInv /\ ReportInv /\ EventTypeOK => TypeOK
  BY DEF TypeInv, ReportInv, TypeOK
<1> QED
  BY <1>1, ReportInvHolds, ImplementsEvents, EventTypeCorrect, PTL

\* MessagesAreReported: however many workers send and report, and whatever
\* throws or dies, the events about a schedule are as many as its messages,
\* less those that nobody wanted reported or that something came in between of
\* (publicSendTextMessage, emitPublicWebhookEvent).
THEOREM EveryMessageReported == Spec => []MessagesAreReported
<1>1. TypeInv /\ ReportInv => MessagesAreReported
  <2> SUFFICES ASSUME TypeInv, ReportInv, NEW s \in Schedules
               PROVE  /\ Cardinality(EventsAbout(s)) <= sends[s]
                      /\ s \notin lost =>
                             sends[s] <= Cardinality(EventsAbout(s)) + muted[s] + slips[s]
                                         + Cardinality(Unreported(s))
    BY DEF MessagesAreReported
  <2>1. Reported(s) /\ sends[s] \in Nat
    BY DEF ReportInv, TypeInv, ScheduleTypeOK
  <2>2. Cardinality(EventsAbout(s)) \in Nat /\ Cardinality(Unreported(s)) \in Nat
    BY <2>1, FS_CardinalityType DEF Reported
  <2> QED
    BY <2>1, <2>2 DEF Reported
<1> QED
  BY <1>1, ReportInvHolds, PTL

=============================================================================
