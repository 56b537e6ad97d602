--------------------------- MODULE PublicSchedule ---------------------------
(***************************************************************************)
(* Scheduled sends of the public API: requests create a row and put its    *)
(* job on a Redis list, worker loops take the job when it is due, send the *)
(* message, report it (emitPublicWebhookEvent, see PublicApi) and record   *)
(* it; a failure is retried a few times.                                   *)
(*                                                                         *)
(* Every job that is taken too early goes back to the end of the list, so  *)
(* the list's order decides nothing: it is how many jobs a schedule has.   *)
(*                                                                         *)
(* Data left out: targets and contents, media downloads (a part of the     *)
(* send), audit logs, which never throw.                                   *)
(***************************************************************************)
EXTENDS Naturals

CONSTANTS
    Senders,      \* worker processes, each running one schedule loop
    Schedules,
    SendTries,    \* attempts per schedule (4 in the code)
    SendFaults,   \* the faults that may happen
    NoSchedule

ASSUME ScheduleAssumption ==
    /\ SendTries \in Nat \ {0}
    /\ SendFaults \subseteq {"throw", "crash"}
    /\ NoSchedule \notin Schedules

VARIABLES
    schedule,   \* the rows' status; "none": no row
    retries,    \* retryCount
    unpushed,   \* rows whose request has not put the job on the list yet
    jobs,       \* jobs on the Redis list, per schedule
    due,        \* schedules whose job's dueAt has passed
    step,       \* what each worker does next
    has,        \* the schedule whose job it has taken
    tried,      \* the retryCount it has read
    sends,      \* history: messages that went out, per schedule
    slips,      \* history: those of them after which something threw
    quiet,      \* history: schedules canceled while no worker was sending them
    lost        \* history: schedules whose job a fault took away

scheduleVars ==
    <<schedule, retries, unpushed, jobs, due, step, has, tried, sends, slips, quiet, lost>>

\* A worker has read a row that was PENDING and will write it.
Sending == {"send", "emit", "event", "notify", "record", "fail", "again"}

Continue(w, where) ==
    /\ step' = [step EXCEPT ![w] = where]
    /\ UNCHANGED <<has, tried>>

FinishJob(w) ==
    /\ step' = [step EXCEPT ![w] = "idle"]
    /\ has' = [has EXCEPT ![w] = NoSchedule]
    /\ tried' = [tried EXCEPT ![w] = 0]

ScheduleInit ==
    /\ schedule = [s \in Schedules |-> "none"]
    /\ retries = [s \in Schedules |-> 0]
    /\ unpushed = {}
    /\ jobs = [s \in Schedules |-> 0]
    /\ due = {}
    /\ step = [w \in Senders |-> "idle"]
    /\ has = [w \in Senders |-> NoSchedule]
    /\ tried = [w \in Senders |-> 0]
    /\ sends = [s \in Schedules |-> 0]
    /\ slips = [s \in Schedules |-> 0]
    /\ quiet = {}
    /\ lost = {}

-----------------------------------------------------------------------------
(* Requests *)

\* createPublicSendSchedule: the row first, then the job.
CreateSchedule(s) ==
    /\ schedule[s] = "none"
    /\ schedule' = [schedule EXCEPT ![s] = "PENDING"]
    /\ unpushed' = unpushed \cup {s}
    /\ UNCHANGED <<retries, jobs, due, step, has, tried, sends, slips, quiet, lost>>

PushSchedule(s) ==
    /\ s \in unpushed
    /\ unpushed' = unpushed \ {s}
    /\ jobs' = [jobs EXCEPT ![s] = @ + 1]
    /\ UNCHANGED <<schedule, retries, due, step, has, tried, sends, slips, quiet, lost>>

\* RPUSH throws without effect or the process dies: the row has no job.
CreatorFails(s) ==
    /\ SendFaults # {}
    /\ s \in unpushed
    /\ unpushed' = unpushed \ {s}
    /\ lost' = lost \cup {s}
    /\ UNCHANGED <<schedule, retries, jobs, due, step, has, tried, sends, slips, quiet>>

InHands(s) == \E w \in Senders : has[w] = s /\ step[w] \in Sending

\* cancelPublicSchedule: an update where the status is PENDING.  The client
\* knows the id once the job is on the list.
CancelSchedule(s) ==
    /\ schedule[s] = "PENDING" /\ s \notin unpushed
    /\ schedule' = [schedule EXCEPT ![s] = "CANCELED"]
    /\ quiet' = IF InHands(s) THEN quiet ELSE quiet \cup {s}
    /\ UNCHANGED <<retries, unpushed, jobs, due, step, has, tried, sends, slips, lost>>

\* The dueAt of the schedule's job passes.
DueComes(s) ==
    /\ schedule[s] # "none"
    /\ s \notin due
    /\ due' = due \cup {s}
    /\ UNCHANGED <<schedule, retries, unpushed, jobs, step, has, tried, sends, slips, quiet, lost>>

-----------------------------------------------------------------------------
(* The worker's loop *)

\* BLPOP removes the job before anything is done about it.
TakeJob(w, s) ==
    /\ step[w] = "idle"
    /\ jobs[s] > 0
    /\ jobs' = [jobs EXCEPT ![s] = @ - 1]
    /\ step' = [step EXCEPT ![w] = "got"]
    /\ has' = [has EXCEPT ![w] = s]
    /\ UNCHANGED <<schedule, retries, unpushed, due, tried, sends, slips, quiet, lost>>

PutBack(w) ==
    /\ step[w] = "got"
    /\ has[w] \notin due
    /\ jobs' = [jobs EXCEPT ![has[w]] = @ + 1]
    /\ FinishJob(w)
    /\ UNCHANGED <<schedule, retries, unpushed, due, sends, slips, quiet, lost>>

\* Mutant: a canceled schedule is sent as well.
ReadUnlessDone(w) ==
    /\ step[w] = "got"
    /\ has[w] \in due
    /\ IF schedule[has[w]] \in {"PENDING", "CANCELED"}
       THEN /\ step' = [step EXCEPT ![w] = "send"]
            /\ tried' = [tried EXCEPT ![w] = retries[has[w]]]
            /\ UNCHANGED has
       ELSE FinishJob(w)
    /\ UNCHANGED <<schedule, retries, unpushed, jobs, due, sends, slips, quiet, lost>>

\* Only a PENDING row is processed.  (That the row itself isn't due yet can't
\* happen any more: no job is due before its schedule.)
ReadSchedule(w) ==
    /\ step[w] = "got"
    /\ has[w] \in due
    /\ IF schedule[has[w]] = "PENDING"
       THEN /\ step' = [step EXCEPT ![w] = "send"]
            /\ tried' = [tried EXCEPT ![w] = retries[has[w]]]
            /\ UNCHANGED has
       ELSE FinishJob(w)
    /\ UNCHANGED <<schedule, retries, unpushed, jobs, due, sends, slips, quiet, lost>>

\* The message goes out.
SendScheduled(w) ==
    /\ step[w] = "send"
    /\ sends' = [sends EXCEPT ![has[w]] = @ + 1]
    /\ Continue(w, "emit")
    /\ UNCHANGED <<schedule, retries, unpushed, jobs, due, slips, quiet, lost>>

\* It doesn't: no connection, a refused number, a download that failed.
SendRefused(w) ==
    /\ step[w] = "send"
    /\ Continue(w, "fail")
    /\ UNCHANGED <<schedule, retries, unpushed, jobs, due, sends, slips, quiet, lost>>

\* The awaits of emitPublicWebhookEvent: is there a webhook for it, the event's
\* row, the event's job.
FindWebhook(w, enabled) ==
    /\ step[w] = "emit"
    /\ Continue(w, IF enabled THEN "event" ELSE "record")
    /\ UNCHANGED <<schedule, retries, unpushed, jobs, due, sends, slips, quiet, lost>>

StoreEvent(w) ==
    /\ step[w] = "event"
    /\ Continue(w, "notify")
    /\ UNCHANGED <<schedule, retries, unpushed, jobs, due, sends, slips, quiet, lost>>

EnqueueEvent(w) ==
    /\ step[w] = "notify"
    /\ Continue(w, "record")
    /\ UNCHANGED <<schedule, retries, unpushed, jobs, due, sends, slips, quiet, lost>>

\* SENT, whatever the row has become.
RecordSent(w) ==
    /\ step[w] = "record"
    /\ schedule' = [schedule EXCEPT ![has[w]] = "SENT"]
    /\ FinishJob(w)
    /\ UNCHANGED <<retries, unpushed, jobs, due, sends, slips, quiet, lost>>

MoreTries(w) == tried[w] + 1 < SendTries

\* Mutant: the count starts anew.
RecordFailureUncounted(w) ==
    /\ step[w] = "fail"
    /\ schedule' = [schedule EXCEPT ![has[w]] = IF MoreTries(w) THEN "PENDING" ELSE "FAILED"]
    /\ IF MoreTries(w) THEN Continue(w, "again") ELSE FinishJob(w)
    /\ UNCHANGED <<retries, unpushed, jobs, due, sends, slips, quiet, lost>>

\* The catch block: the count it has read plus one, and PENDING or FAILED,
\* whatever the row has become.
RecordFailure(w) ==
    /\ step[w] = "fail"
    /\ retries' = [retries EXCEPT ![has[w]] = tried[w] + 1]
    /\ schedule' = [schedule EXCEPT ![has[w]] = IF MoreTries(w) THEN "PENDING" ELSE "FAILED"]
    /\ IF MoreTries(w) THEN Continue(w, "again") ELSE FinishJob(w)
    /\ UNCHANGED <<unpushed, jobs, due, sends, slips, quiet, lost>>

\* Mutant: the job of a retry is forgotten.
RetryForgotten(w) ==
    /\ step[w] = "again"
    /\ FinishJob(w)
    /\ UNCHANGED <<schedule, retries, unpushed, jobs, due, sends, slips, quiet, lost>>

\* The job of the retry, due after a while.
Retry(w) ==
    /\ step[w] = "again"
    /\ jobs' = [jobs EXCEPT ![has[w]] = @ + 1]
    /\ due' = due \ {has[w]}
    /\ FinishJob(w)
    /\ UNCHANGED <<schedule, retries, unpushed, sends, slips, quiet, lost>>

-----------------------------------------------------------------------------
(* Faults.  A worker whose RPUSH took effect before it threw has done what  *)
(* PutBack or Retry does.                                                   *)

\* What the try block catches after the message went out; its last write may
\* have taken effect.
ReportThrows(w) ==
    /\ "throw" \in SendFaults
    /\ step[w] \in {"send", "emit", "event", "notify", "record"}
    /\ IF step[w] = "send" THEN sends' = [sends EXCEPT ![has[w]] = @ + 1] ELSE UNCHANGED sends
    /\ slips' = [slips EXCEPT ![has[w]] = @ + 1]
    /\ schedule' \in {schedule} \cup
           (IF step[w] = "record" THEN {[schedule EXCEPT ![has[w]] = "SENT"]} ELSE {})
    /\ Continue(w, "fail")
    /\ UNCHANGED <<retries, unpushed, jobs, due, quiet, lost>>

\* An await outside the try block throws, or the process dies.
JobIsLost(w) ==
    /\ \/ "throw" \in SendFaults /\ step[w] \in {"got", "fail", "again"}
       \/ "crash" \in SendFaults /\ step[w] # "idle"
    /\ lost' = lost \cup {has[w]}
    /\ FinishJob(w)
    /\ UNCHANGED <<schedule, retries, unpushed, jobs, due, sends, slips, quiet>>

-----------------------------------------------------------------------------

\* The steps that concern nobody else, and the awaits of the report.
SenderStep(w) ==
    \/ PutBack(w) \/ ReadSchedule(w) \/ SendScheduled(w) \/ SendRefused(w)
    \/ RecordSent(w) \/ RecordFailure(w) \/ Retry(w)

RequestSteps ==
    \E s \in Schedules :
        \/ CreateSchedule(s) \/ PushSchedule(s) \/ CreatorFails(s)
        \/ CancelSchedule(s) \/ DueComes(s)

ScheduleNext ==
    \/ RequestSteps
    \/ \E w \in Senders, s \in Schedules : TakeJob(w, s)
    \/ \E w \in Senders :
        \/ SenderStep(w)
        \/ FindWebhook(w, TRUE) \/ FindWebhook(w, FALSE) \/ StoreEvent(w) \/ EnqueueEvent(w)
        \/ ReportThrows(w) \/ JobIsLost(w)

ScheduleSpec == ScheduleInit /\ [][ScheduleNext]_scheduleVars

-----------------------------------------------------------------------------

ScheduleStatus == {"none", "PENDING", "SENT", "FAILED", "CANCELED"}

\* The type of every variable of the scheduled sends.
ScheduleTypeOK ==
    /\ schedule \in [Schedules -> ScheduleStatus]
    /\ retries \in [Schedules -> 0 .. SendTries]
    /\ unpushed \subseteq Schedules
    /\ jobs \in [Schedules -> Nat]
    /\ due \subseteq Schedules
    /\ step \in [Senders -> {"idle", "got"} \cup Sending]
    /\ has \in [Senders -> Schedules \cup {NoSchedule}]
    /\ tried \in [Senders -> 0 .. (SendTries - 1)]
    /\ sends \in [Schedules -> Nat]
    /\ slips \in [Schedules -> Nat]
    /\ quiet \subseteq Schedules
    /\ lost \subseteq Schedules

\* However many workers poll the list, and whatever throws or dies, a schedule
\* is sent at most as often as it may be tried (processPublicScheduleJob), and
\* again only after something threw behind a message that had gone out.
RepeatsHaveReasons ==
    \A s \in Schedules : sends[s] <= SendTries /\ sends[s] <= 1 + slips[s]

\* A cancel that comes while no worker has the schedule in hand holds: the row
\* stays CANCELED and no message goes out.  (One that comes later is overwritten
\* with SENT, or with PENDING and a new try: those writes look at nothing.)
QuietCancelHolds ==
    [][\A s \in quiet : schedule'[s] = "CANCELED" /\ sends'[s] = sends[s]]_scheduleVars

\* Every schedule ends SENT, FAILED or CANCELED for good, unless a fault took
\* its job: nothing looks for PENDING rows without one.
ScheduleSettles ==
    \A s \in Schedules :
        schedule[s] = "PENDING" ~> (s \in lost \/ [](schedule[s] # "PENDING"))

=============================================================================
