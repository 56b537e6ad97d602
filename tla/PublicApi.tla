----------------------------- MODULE PublicApi -----------------------------
(***************************************************************************)
(* Scheduled sends and the webhook events that report them: a worker that  *)
(* has sent a message creates the event inside the try block of the        *)
(* schedule, so that trouble with the event is trouble with the message.   *)
(*                                                                         *)
(* Messages sent at once report in the same way; they only add events.     *)
(***************************************************************************)
EXTENDS PublicSchedule, WebhookEvents, FiniteSets

VARIABLES
    news,    \* the event that a worker has stored and not queued yet
    about,   \* the schedule an event reports on
    muted    \* history: messages for which there was no webhook, per schedule

linkVars == <<news, about, muted>>

vars == <<scheduleVars, eventVars, linkVars>>

Init ==
    /\ ScheduleInit
    /\ EventInit
    /\ news = [w \in Senders |-> NoEvent]
    /\ about = [e \in Events |-> NoSchedule]
    /\ muted = [s \in Schedules |-> 0]

\* The primary key of the next event: which one doesn't matter.
NextKey == LET unused == {e \in Events : event[e] = "none"}
           IN IF unused = {} THEN {} ELSE {CHOOSE e \in unused : TRUE}

\* Mutant: a retry isn't reported again.
ReportFindsOnFirstTry(w) ==
    /\ FindWebhook(w, "listens" \in webhook /\ tried[w] = 0)
    /\ muted' = IF "listens" \in webhook THEN muted ELSE [muted EXCEPT ![has[w]] = @ + 1]
    /\ UNCHANGED <<eventVars, news, about>>

\* The configuration is read, and only then is the event created.
ReportFinds(w) ==
    /\ FindWebhook(w, "listens" \in webhook)
    /\ muted' = IF "listens" \in webhook THEN muted ELSE [muted EXCEPT ![has[w]] = @ + 1]
    /\ UNCHANGED <<eventVars, news, about>>

ReportStores(w) ==
    /\ StoreEvent(w)
    /\ \E e \in NextKey :
           /\ CreateEvent(e)
           /\ news' = [news EXCEPT ![w] = e]
           /\ about' = [about EXCEPT ![e] = has[w]]
    /\ UNCHANGED muted

ReportQueues(w) ==
    /\ EnqueueEvent(w)
    /\ QueueEvent(news[w])
    /\ news' = [news EXCEPT ![w] = NoEvent]
    /\ UNCHANGED <<about, muted>>

\* A worker in trouble: an event it has stored is queued if RPUSH took effect.
ReportFails(w) ==
    /\ ReportThrows(w) \/ JobIsLost(w)
    /\ IF step[w] = "notify"
       THEN /\ QueueEvent(news[w]) \/ EventIsLost(news[w])
            /\ news' = [news EXCEPT ![w] = NoEvent]
       ELSE UNCHANGED <<eventVars, news>>
    /\ UNCHANGED <<about, muted>>

Report(w) == ReportFinds(w) \/ ReportStores(w) \/ ReportQueues(w)

ScheduleAlone(A) == A /\ UNCHANGED <<eventVars, linkVars>>

EventsAlone(A) == A /\ UNCHANGED <<scheduleVars, linkVars>>

Next ==
    \/ \E w \in Senders : Report(w) \/ ReportFails(w) \/ ScheduleAlone(SenderStep(w))
    \/ \E w \in Senders, s \in Schedules : ScheduleAlone(TakeJob(w, s))
    \/ ScheduleAlone(RequestSteps)
    \/ EventsAlone(DeliveryNext)

Spec == Init /\ [][Next]_vars

\* Processes that were started keep running and clocks advance.  The lists are
\* first in, first out, and jobs that aren't due go to their end: a job that is
\* on a list again and again is taken in the end.
Fairness ==
    /\ \A s \in Schedules :
           /\ WF_vars(ScheduleAlone(PushSchedule(s)))
           /\ WF_vars(ScheduleAlone(DueComes(s)))
           /\ SF_vars(\E w \in Senders : ScheduleAlone(TakeJob(w, s)))
    /\ \A w \in Senders : WF_vars(Report(w) \/ ScheduleAlone(SenderStep(w)))
    /\ \A e \in Events :
           /\ WF_vars(EventsAlone(EventRipens(e)))
           /\ SF_vars(\E p \in Posters : EventsAlone(TakeEvent(p, e)))
    /\ \A p \in Posters : WF_vars(EventsAlone(PosterStep(p)))

FairSpec == Spec /\ Fairness

-----------------------------------------------------------------------------

LinkTypeOK ==
    /\ news \in [Senders -> Events \cup {NoEvent}]
    /\ about \in [Events -> Schedules \cup {NoSchedule}]
    /\ muted \in [Schedules -> Nat]

\* The type of every variable of scheduled sends, events and their link.
TypeOK == ScheduleTypeOK /\ EventTypeOK /\ LinkTypeOK

EventsAbout(s) == {e \in Events : about[e] = s}

Unreported(s) == {w \in Senders : has[w] = s /\ step[w] \in {"emit", "event"}}

\* No event without a message, and no message without an event of its own,
\* retries included, unless the webhook didn't want it or something went wrong
\* in between (publicSendTextMessage, emitPublicWebhookEvent).
MessagesAreReported ==
    \A s \in Schedules :
        /\ Cardinality(EventsAbout(s)) <= sends[s]
        /\ s \notin lost =>
               sends[s] <= Cardinality(EventsAbout(s)) + muted[s] + slips[s]
                           + Cardinality(Unreported(s))

=============================================================================
