--------------------------- MODULE WebhookEvents ---------------------------
(***************************************************************************)
(* Events for an organization's webhook: whoever reports something creates *)
(* a row and puts its job on a Redis list; worker loops take the job when  *)
(* it is due and post the event, and put it on the list again when the     *)
(* receiver doesn't answer well.                                           *)
(*                                                                         *)
(* As in PublicSchedule the list is how many jobs an event has.            *)
(*                                                                         *)
(* Data left out: payloads, signatures, encryption of the secret.          *)
(***************************************************************************)
EXTENDS Naturals

CONSTANTS
    Posters,      \* worker processes, each running one webhook loop
    Events,       \* primary keys of event rows
    PostTries,    \* WEBHOOK_MAX_ATTEMPTS (6 in the code)
    PostFaults,   \* the faults that may happen
    NoEvent

ASSUME EventAssumption ==
    /\ PostTries \in Nat \ {0}
    /\ PostFaults \subseteq {"throw", "crash"}
    /\ NoEvent \notin Events

VARIABLES
    webhook,     \* the configuration: what of it is so
    event,       \* the rows' status; "none": no row
    attempts,    \* the rows' attempts
    unqueued,    \* rows whose creator has not put the job on the list yet
    mail,        \* jobs on the Redis list, per event
    ripe,        \* events whose job's dueAt has passed
    stage,       \* what each worker does next
    holds,       \* the event whose job it has taken
    counted,     \* the attempts it has read
    posts,       \* history: requests that reached the receiver, per event
    accepts,     \* history: those of them that the receiver answered well
    doubts,      \* history: good answers after which something threw
    dropped      \* history: events whose job a fault took away

eventVars ==
    <<webhook, event, attempts, unqueued, mail, ripe, stage, holds, counted,
      posts, accepts, doubts, dropped>>

\* "listens": it is enabled and wants this type of event; "reachable": it is
\* enabled and has a URL and a secret.
Aspects == {"listens", "reachable"}

Proceed(p, where) ==
    /\ stage' = [stage EXCEPT ![p] = where]
    /\ UNCHANGED <<holds, counted>>

FinishPost(p) ==
    /\ stage' = [stage EXCEPT ![p] = "idle"]
    /\ holds' = [holds EXCEPT ![p] = NoEvent]
    /\ counted' = [counted EXCEPT ![p] = 0]

EventInit ==
    /\ webhook \in SUBSET Aspects
    /\ event = [e \in Events |-> "none"]
    /\ attempts = [e \in Events |-> 0]
    /\ unqueued = {}
    /\ mail = [e \in Events |-> 0]
    /\ ripe = {}
    /\ stage = [p \in Posters |-> "idle"]
    /\ holds = [p \in Posters |-> NoEvent]
    /\ counted = [p \in Posters |-> 0]
    /\ posts = [e \in Events |-> 0]
    /\ accepts = [e \in Events |-> 0]
    /\ doubts = [e \in Events |-> 0]
    /\ dropped = {}

-----------------------------------------------------------------------------
(* Configuration and creation *)

\* upsertOrgWhatsAppPublicWebhook, deleteOrgWhatsAppPublicWebhook and the
\* same two operations of the public API.
PutWebhook ==
    /\ webhook' \in SUBSET Aspects \ {webhook}
    /\ UNCHANGED <<event, attempts, unqueued, mail, ripe, stage, holds, counted,
                   posts, accepts, doubts, dropped>>

CreateEvent(e) ==
    /\ event[e] = "none"
    /\ event' = [event EXCEPT ![e] = "PENDING"]
    /\ unqueued' = unqueued \cup {e}
    /\ ripe' = ripe \cup {e}
    /\ UNCHANGED <<webhook, attempts, mail, stage, holds, counted, posts, accepts, doubts, dropped>>

QueueEvent(e) ==
    /\ e \in unqueued
    /\ unqueued' = unqueued \ {e}
    /\ mail' = [mail EXCEPT ![e] = @ + 1]
    /\ UNCHANGED <<webhook, event, attempts, ripe, stage, holds, counted, posts, accepts, doubts, dropped>>

\* RPUSH throws without effect or its process dies: the row has no job.
EventIsLost(e) ==
    /\ e \in unqueued
    /\ unqueued' = unqueued \ {e}
    /\ dropped' = dropped \cup {e}
    /\ UNCHANGED <<webhook, event, attempts, mail, ripe, stage, holds, counted, posts, accepts, doubts>>

\* The dueAt of the event's job passes.
EventRipens(e) ==
    /\ event[e] # "none"
    /\ e \notin ripe
    /\ ripe' = ripe \cup {e}
    /\ UNCHANGED <<webhook, event, attempts, unqueued, mail, stage, holds, counted,
                   posts, accepts, doubts, dropped>>

-----------------------------------------------------------------------------
(* The worker's loop *)

TakeEvent(p, e) ==
    /\ stage[p] = "idle"
    /\ mail[e] > 0
    /\ mail' = [mail EXCEPT ![e] = @ - 1]
    /\ stage' = [stage EXCEPT ![p] = "got"]
    /\ holds' = [holds EXCEPT ![p] = e]
    /\ UNCHANGED <<webhook, event, attempts, unqueued, ripe, counted, posts, accepts, doubts, dropped>>

ReturnEvent(p) ==
    /\ stage[p] = "got"
    /\ holds[p] \notin ripe
    /\ mail' = [mail EXCEPT ![holds[p]] = @ + 1]
    /\ FinishPost(p)
    /\ UNCHANGED <<webhook, event, attempts, unqueued, ripe, posts, accepts, doubts, dropped>>

\* Anything but a DELIVERED event is processed.
ReadEvent(p) ==
    /\ stage[p] = "got"
    /\ holds[p] \in ripe
    /\ IF event[holds[p]] # "DELIVERED"
       THEN /\ stage' = [stage EXCEPT ![p] = "look"]
            /\ counted' = [counted EXCEPT ![p] = attempts[holds[p]]]
            /\ UNCHANGED holds
       ELSE FinishPost(p)
    /\ UNCHANGED <<webhook, event, attempts, unqueued, mail, ripe, posts, accepts, doubts, dropped>>

LookUpWebhook(p) ==
    /\ stage[p] = "look"
    /\ Proceed(p, IF "reachable" \in webhook THEN "post" ELSE "skip")
    /\ UNCHANGED <<webhook, event, attempts, unqueued, mail, ripe, posts, accepts, doubts, dropped>>

\* Mutant: only the status.
WriteStatusOnly(p, outcome) ==
    /\ event' = [event EXCEPT ![holds[p]] = outcome]
    /\ UNCHANGED attempts

\* The row is written by id, with the count that was read plus one.
WriteEvent(p, outcome) ==
    /\ event' = [event EXCEPT ![holds[p]] = outcome]
    /\ attempts' = [attempts EXCEPT ![holds[p]] = counted[p] + 1]

SkipEvent(p) ==
    /\ stage[p] = "skip"
    /\ WriteEvent(p, "SKIPPED")
    /\ FinishPost(p)
    /\ UNCHANGED <<webhook, unqueued, mail, ripe, posts, accepts, doubts, dropped>>

\* Mutant: an answer counts as delivered, whatever it says.
PostUnchecked(p) ==
    /\ stage[p] = "post"
    /\ posts' = [posts EXCEPT ![holds[p]] = @ + 1]
    /\ accepts' \in {accepts, [accepts EXCEPT ![holds[p]] = @ + 1]}
    /\ Proceed(p, "delivered")
    /\ UNCHANGED <<webhook, event, attempts, unqueued, mail, ripe, doubts, dropped>>

\* The receiver gets the request, answers well or badly, and the answer comes
\* back or not; or it doesn't get it at all.
Post(p) ==
    /\ stage[p] = "post"
    /\ \/ /\ posts' = [posts EXCEPT ![holds[p]] = @ + 1]
          /\ accepts' = [accepts EXCEPT ![holds[p]] = @ + 1]
          /\ \/ Proceed(p, "delivered") /\ UNCHANGED doubts
             \/ Proceed(p, "failed") /\ doubts' = [doubts EXCEPT ![holds[p]] = @ + 1]
       \/ /\ posts' = [posts EXCEPT ![holds[p]] = @ + 1]
          /\ Proceed(p, "failed")
          /\ UNCHANGED <<accepts, doubts>>
       \/ /\ Proceed(p, "failed")
          /\ UNCHANGED <<posts, accepts, doubts>>
    /\ UNCHANGED <<webhook, event, attempts, unqueued, mail, ripe, dropped>>

WriteDelivered(p) ==
    /\ stage[p] = "delivered"
    /\ WriteEvent(p, "DELIVERED")
    /\ FinishPost(p)
    /\ UNCHANGED <<webhook, unqueued, mail, ripe, posts, accepts, doubts, dropped>>

MorePosts(p) == counted[p] + 1 < PostTries

\* The catch block.
WriteFailed(p) ==
    /\ stage[p] = "failed"
    /\ WriteEvent(p, IF MorePosts(p) THEN "PENDING" ELSE "FAILED")
    /\ IF MorePosts(p) THEN Proceed(p, "again") ELSE FinishPost(p)
    /\ UNCHANGED <<webhook, unqueued, mail, ripe, posts, accepts, doubts, dropped>>

\* Mutant: the event waits for a sweep that doesn't exist.
PostLater(p) ==
    /\ stage[p] = "again"
    /\ FinishPost(p)
    /\ UNCHANGED <<webhook, event, attempts, unqueued, mail, ripe, posts, accepts, doubts, dropped>>

\* The job of the next try, due after a while that doubles.
PostAgain(p) ==
    /\ stage[p] = "again"
    /\ mail' = [mail EXCEPT ![holds[p]] = @ + 1]
    /\ ripe' = ripe \ {holds[p]}
    /\ FinishPost(p)
    /\ UNCHANGED <<webhook, event, attempts, unqueued, posts, accepts, doubts, dropped>>

-----------------------------------------------------------------------------
(* Faults *)

\* The write of DELIVERED throws, with or without effect: the catch block.
DeliveredThrows(p) ==
    /\ "throw" \in PostFaults
    /\ stage[p] = "delivered"
    /\ \/ UNCHANGED <<event, attempts>>
       \/ WriteEvent(p, "DELIVERED")
    /\ doubts' = [doubts EXCEPT ![holds[p]] = @ + 1]
    /\ Proceed(p, "failed")
    /\ UNCHANGED <<webhook, unqueued, mail, ripe, posts, accepts, dropped>>

\* An await outside the try block throws, or the process dies.
PostIsLost(p) ==
    /\ \/ "throw" \in PostFaults /\ stage[p] \in {"got", "look", "skip", "failed", "again"}
       \/ "crash" \in PostFaults /\ stage[p] # "idle"
    /\ dropped' = dropped \cup {holds[p]}
    /\ FinishPost(p)
    /\ UNCHANGED <<webhook, event, attempts, unqueued, mail, ripe, posts, accepts, doubts>>

-----------------------------------------------------------------------------

PosterStep(p) ==
    \/ ReturnEvent(p) \/ ReadEvent(p) \/ LookUpWebhook(p) \/ SkipEvent(p) \/ Post(p)
    \/ WriteDelivered(p) \/ WriteFailed(p) \/ PostAgain(p)

\* What the workers, clocks and the organization do, whoever creates events.
DeliveryNext ==
    \/ PutWebhook
    \/ \E e \in Events : EventRipens(e)
    \/ \E p \in Posters, e \in Events : TakeEvent(p, e)
    \/ \E p \in Posters : PosterStep(p) \/ DeliveredThrows(p) \/ PostIsLost(p)

EventNext ==
    \/ DeliveryNext
    \/ \E e \in Events : CreateEvent(e) \/ QueueEvent(e) \/ EventIsLost(e)

EventSpec == EventInit /\ [][EventNext]_eventVars

-----------------------------------------------------------------------------

EventStatus == {"none", "PENDING", "DELIVERED", "FAILED", "SKIPPED"}

\* The type of every variable of the webhook's events.
EventTypeOK ==
    /\ webhook \subseteq Aspects
    /\ event \in [Events -> EventStatus]
    /\ attempts \in [Events -> 0 .. PostTries]
    /\ unqueued \subseteq Events
    /\ mail \in [Events -> Nat]
    /\ ripe \subseteq Events
    /\ stage \in [Posters -> {"idle", "got", "look", "skip", "post", "delivered", "failed", "again"}]
    /\ holds \in [Posters -> Events \cup {NoEvent}]
    /\ counted \in [Posters -> 0 .. (PostTries - 1)]
    /\ posts \in [Events -> Nat]
    /\ accepts \in [Events -> Nat]
    /\ doubts \in [Events -> Nat]
    /\ dropped \subseteq Events

\* An event is posted at most PostTries times, however many workers poll, and
\* posted again after a good answer only when that answer was lost or its
\* record threw (processPublicWebhookEventDelivery).
PostsHaveReasons ==
    \A e \in Events : posts[e] <= PostTries /\ accepts[e] <= 1 + doubts[e]

\* The status tells what the receiver knows: DELIVERED means it answered well,
\* and an event whose job nobody took away is given up only after all tries.
StatusTellsDelivery ==
    \A e \in Events :
        /\ event[e] = "DELIVERED" => accepts[e] > 0
        /\ event[e] = "FAILED" => attempts[e] = PostTries
        /\ accepts[e] > 0 /\ doubts[e] = 0 /\ e \notin dropped =>
               \/ event[e] = "DELIVERED"
               \/ \E p \in Posters : holds[p] = e /\ stage[p] = "delivered"

\* Every event is delivered, given up or skipped for good, unless a fault took
\* its job: nothing looks for PENDING rows without one, whatever nextAttemptAt
\* says.
EventSettles ==
    \A e \in Events :
        event[e] = "PENDING" ~> (e \in dropped \/ [](event[e] # "PENDING"))

=============================================================================
