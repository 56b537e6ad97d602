# A TLA+ model of 20byte

20byte is a WhatsApp CRM for small teams: Next.js routes call the services in
`server/services`, which keep their state in MySQL through Prisma; worker
processes (`worker/`) take jobs from Redis lists and from polled tables; the
messages themselves go through a Baileys session or the Cloud API, payments
through a gateway that answers with webhooks, and browsers are told about
changes through Ably. Nothing serializes requests and workers but single SQL
statements, Prisma transactions at MySQL's default isolation, a few
conditional updates and a few Redis keys. What can go wrong lies between two
awaits, and that is what the modules here are about.

## 1. Inventory

| Component | State it keeps | Operations | Hard behaviour | What makes it correct |
|---|---|---|---|---|
| Sequences: `whatsappCampaignService.ts`, `whatsappCampaignProcessor.ts`, `whatsappCampaignQueue.ts` | `WhatsAppFlow` with nodes and edges, `WhatsAppEnrollment`, `WhatsAppExecution`; a Redis list, one lock key per execution | enroll, pause, resume, stop, edit, delete; the worker's dequeue, lock, execute, advance, requeue | destructive `BLPOP`, a lock that expires and has no holder, status snapshots used after a send, unconditional writes, job pushed after its row | one message per node visit, an ended enrollment stays ended, an ACTIVE enrollment has somebody who will continue it |
| Broadcasts (same service) | `WhatsAppBroadcast`, `WhatsAppBroadcastRecipient`; a batch lock with a TTL of 10 s | create, update, delete, launch, cancel; the worker's batch: claim, send, record, finalize | batch outlives its lock; cancel and finalize race; `QUEUED` rows after a crash | one message per recipient, no sends after a cancel but those in flight, the record tells what was sent |
| Rules and didn't-read checks (same service) | `WhatsAppRulePendingCheck`, compliance events as dedupe records | rule actions on events, schedule, cancel on read, batch | check-then-act dedupe, `PROCESSING` after a crash, cancel without status guard | an action runs once for the broadcast and for each flow that a read message is about, a read message triggers no "didn't read" action |
| Outbound messages: `server/services/message` | `Message` rows with send and delivery status | send sync or queued, retry, status webhooks, external echoes | retry without a claim, statuses out of order | one provider call per attempt, a status never goes back |
| Inbound messages, conversations and inbox: `server/services/message/inbound*`, `conversationService.ts` | `Message`, `Customer`, `Conversation` | store an inbound message or an echo, begin a conversation, open and close it | get-or-create without a key, duplicate deliveries, echoes that come before the send returns | one row per message, one conversation per chat |
| WhatsApp session: `baileysService.ts` | per process and organization: the socket, `initPromise`, `allowReconnect`, a timer; credentials on disk, the `waAccount` row | link by QR or pairing code, refresh, send, look up, disconnect, reconnect, bootstrap | a creation shared by callers and disowned by a reset, calls nobody waits for, close events of sockets that are not held | one connection, a disconnect lasts, a lost connection is restored |
| Public API: `whatsappPublicApiService.ts`, schedule and webhook queues | `WhatsAppPublicSchedule`, webhook events and deliveries; two Redis lists | create and cancel a schedule; process a schedule; deliver a webhook | row then push, send then record, cancel against a send, retries | a schedule is sent once or reported failed, a canceled one is not sent |
| Billing: `billingService.ts` | subscription, charges, provisioning orders, coupons | checkout, webhook, activation, provisioning, coupon edits, operators' actions; a transition sweep that nobody calls | activation after the charge is PAID, replay key taken before the work, provisioning from a snapshot, coupon limits read before the gateway is asked | who has paid has access, no charge activates twice, coupons stay within their limit |
| Wallet and gateway invoices: `invoiceGatewayService.ts` | wallet balance and ledger, top-ups, withdrawals, payment attempts | top-up, withdraw, webhook, approve / pay / reject | absolute balance writes from a read, unconditional status writes | the balance is what the ledger says, no payment is credited twice |
| Invoices: `server/services/invoice`, `paymentProofService.ts` | `Invoice`, milestones, proofs | draft, send, mark paid, void, proofs | status written back after a send, count-then-create | a paid or void invoice stays so |
| Meta conversion events: `metaEventService.ts`, `metaEventProcessor.ts` | event rows, a Redis list | enqueue, process, requeue | retries inside retries | an event reaches Meta, once if possible |
| CRM pipelines: `crmPipelineService.ts` | pipelines, stages, a conversation's stage | assign, move, sync from an invoice | sync against a manual move | a conversation's stage is one of its pipeline |
| Organizations, members, onboarding | memberships, invitations, setup flags | invite, accept, change role, remove | limit as check-then-create | members within the plan's limit, an owner remains |
| Auth, shortlinks, storage and cleanup, realtime, superadmin, catalog, bank accounts, AI automation, routes | mostly one row each | CRUD, redirects, uploads, notifications | little | left out, see section 7 |

Interaction: routes and inbound hooks call services; services call each other
(an inbound message enrolls conversations and cancels didn't-read checks; an
invoice moves the CRM stage; a sent step fires rules that enroll, stop or send);
services push jobs to Redis lists that workers take; everything that sends goes
through `sendOutboundMessage`; gateways and WhatsApp call back through webhooks.
The hazards found in this code are listed in `PROJECT.json`, each at its line.

## 2. Plan

Modules are written in the order of how much depends on them: what messages
customers get, then money, then the rest. A module stands for one component and
is checked on its own; only `PublicApi` composes two (schedules and the events
that report them), because there trouble crosses from one to the other. The
others meet through rows that each needs only one side of.

| | Modules | State | Left to do |
|---|---|---|---|
| 1 | `OneShotJobs` (abstract), `CampaignRuntime`, `MCCampaignRuntime`, `CampaignRuntime_proofs` | done | |
| 2 | `Broadcast`, `MCBroadcast`, `Broadcast_proofs` | done | edits of the draft |
| 3 | `Wallet`, `MCWallet`, `Wallet_proofs` | done | |
| 4 | `PublicSchedule`, `WebhookEvents`, `PublicApi`, `MCPublicApi`, `PublicApi_proofs` | done | |
| 5 | `Billing`, `MCBilling`, `Billing_proofs` | done | renewals of businesses that were bought; the transition sweep, should anything call it |
| 6 | `Invoices`, `MCInvoices`, `Invoices_proofs` | done | composed with `Wallet`'s attempts |
| 7 | `Messages`, `MCMessages`, `Receipts_proofs` | done | several chats of one customer; its READ status composed with `Rules` |
| 8 | `Rules`, `MCRules`, `Receipts_proofs` | done | composed with `CampaignRuntime` for rules that enroll |
| 9 | `Session`, `MCSession`, `Session_proofs` | done | two processes that share the credentials |
| 10 | Meta events; members within the plan's limit; CRM pipelines by hand | not begun | an event reaches Meta, an owner remains |

Abstract specifications worth stating: `OneShotJobs` for a work list (stated, and
refined by `CampaignRuntime`), a balance that moves by credits and debits for
`Wallet`, and a single socket that callers share for `Session`.

## 3. The modules and the code

Everywhere, a step is what one `await` does: one SQL statement or transaction,
one Redis command, one call of a service outside. What a function remembers
across an await is a variable of its process, so that nothing is read later
than the code reads it. Primary keys and request slots are finite sets; what a
process does next is `pc` (`at`, `step`, `stage`). History variables count what the
properties speak about and no guard reads them.

**`CampaignRuntime`** is one flow. `flow`, `graph`, `enrollment` and `execution`
are the rows, `queue` the Redis list, `due` the executions whose `dueAt` has
passed, `lock` the lock keys. `BeginEnroll`, `CheckExisting`,
`CreateEnrollment`, `CreateExecution`, `PushJob` are the awaits of
`autoEnrollOrKeepActive` and `enrollConversationToWhatsAppFlow`; `BeginStopFlow`/`CommitStop`, `SetFlow`/
`WritePauseOrResume`, `UpdateFlow`, `DeleteFlow` the other requests; `Dequeue`,
`Requeue`, `AcquireLock`, `ReadExecution`, `SendMessage`, `MarkExecution`,
`UpdateEnrollment`, `RunRules`, `CreateExecution`, `PushJob`, `Release` the
worker's loop with `processWhatsAppCampaignExecutionJob`. What that function
decides from its one query is a record (`plan`): the mark for the execution,
what becomes of the enrollment, the next node. `Unwind` says where an exception
goes: a template node catches and writes its failure, anything else leaves
through `finally`, and the job is not put back. `OneShotJobs` says what a work
list promises of a job; `CampaignRuntime` implements it with the state of a job
computed from rows, list and workers.

**`Broadcast`** is one broadcast. `BeginLaunch`/`CommitLaunch`,
`BeginCancel`/`CommitCancel`, `BeginDelete`/`CommitDelete` are requests that
read the status and write later; `AcquireBatchLock`, `Scan`, `Claim`, `Refuse`,
`SendMessage`, `Record`, `Fail`, `CountRows`, `ReadStatus`, `Complete`, `Log`,
`ReleaseBatchLock` the worker's batch. `clock` counts batch intervals
(`computeBroadcastRecipientDueAt`).

**`Wallet`** is one organization's balance with its ledger. A transaction is two
steps: the snapshot its reads see (REPEATABLE READ) and the commit, whose writes
do not look again: `BeginApply`/`Apply` (the webhooks of top-ups and of invoice
attempts), `BeginWithdraw`/`Withdraw`, `BeginDecision`/`Approve`, `PayOut`,
`Reject`. `Deliver` takes the replay key of `lib/redis/idempotency.ts`,
`DeliverUnlocked` is the branch that goes on when Redis fails; `ReadOrder` and
`Verify` come before the transaction. `Settle` is the customer at the gateway.
That the invoice is still payable when an attempt is created is left open, since
invoice rows are not part of the module.

**`PublicSchedule`** and **`WebhookEvents`** are two lists with their workers. Jobs
taken too early go to the end of the list, so its order decides nothing, and a
list is how many jobs a schedule or event has. `CreateSchedule`/`PushSchedule`,
`CancelSchedule`, and `ReadSchedule`, `SendScheduled`, the three awaits of
`emitPublicWebhookEvent`, `RecordSent`, `RecordFailure`, `Retry`; on the other
side `PutWebhook`, `CreateEvent`/`QueueEvent`, `ReadEvent`, `LookUpWebhook`,
`Post`, `SkipEvent`, `WriteDelivered`, `WriteFailed`, `PostAgain`. **`PublicApi`**
conjoins them: what is an await of the sender is the creation of the event
(`ReportFinds`, `ReportStores`, `ReportQueues`), and trouble on either side is
one step (`ReportFails`).

**`Billing`** is what organizations pay the platform. `AskGateway`/`CreateOrder`
are the checkouts, which read the coupon, ask the gateway and then store the
order and `Redeem` the coupon in one transaction; `Settle` is the customer.
`Deliver`, `DeliverUnlocked`, `ReadOrder`, `Verify` are the webhook up to the
gateway's answer. A renewal then is two awaits outside of any transaction,
`PayCharge` and `Activate`; a business is a transaction, `BeginProvision` (what
its first read sees) and `Provision` (its commit), and `Activate` after it.
`MarkActive`, `Lock`, `BeginExtension`/`ExtendTrial` are the platform's
operators, `BeginLimit`/`SetLimit` their edits of the coupon. A handler stands
for any request; a coupon without a limit is one whose limit exceeds the number
of orders. Left out: amounts that differ from the gateway's (an error before any
write), and renewals of an organization that was bought.

**`Invoices`** is one invoice. Each request reads it with its milestones
(`Begin...`) and writes by id what it decided: `CommitEdit`, `CommitDelete`,
`WriteSent` after the message went out, `MarkMilestones`, `ReadMilestones` and
`WriteStatus` for payments by hand (`markInvoicePaid`: the status is derived by
`deriveInvoiceStatus` from rows read in a second step), `CreateAttempt` and
`Settle` for the gateway's, `CreateProof` and `Cleanup` for proofs and their
retention, `Fetch` and `SyncStage` for the CRM stage that follows. `Abort` is an
await that throws or a process that dies. `overtaken` holds the handlers whose
read is no longer true, `disturbed` says that one of them wrote or that one died
between its two writes.

**`Messages`** is one chat. `Compose` stores a row, `SendSucceeds`, `TryAgain`,
`SendFails`, `ReplyIsLost` are the send with its retries, `WriteResult` and
`WriteFailed` what is stored of it; `Deliver` and `WriteOnPhone` bring events,
which are stored by a transaction in two steps, `OpenTransaction` (its snapshot)
and `Commit`, where `Clashes` are those of the unique keys; `Match` is the search
for the row an echo belongs to. `Receive` and `WriteReceipt` are a receipt with
`deliveryRank`. `BeginCreate`/`Create` is the agent that begins a conversation.

**`Rules`** is one rule with its actions. `ReceiveRead`, `FindPending`, `Cancel` are
a READ receipt's way to the message's pending check; `FindRecipient`,
`FindEnrollments` and `NextEnrollment` what it runs the rules for: the broadcast
that sent the message, if one did, and each active enrollment of the
conversation, one after another. Each run has a key of its own (`Keys`), in which
`Own` is the broadcast or what a check was scheduled for, and a flow stands for
its enrollments, since the key names no enrollment. `Claim`, `Look`, `Finish` are
the worker's batch, `Through` is the end of a run of either; `RunRules`, `LookUp`, `Act`, `Record`, with `ActFails` and
`ActStaysUnrecorded`, the actions and their dedupe records for both; `Die` a
process that ends with a claimed check. Its names differ from those of `Messages`,
since one module proves about both, each on its own.

**`Session`** is one organization's session in one process. `Ensure` is
`ensureBaileysSocket` up to its first await, `Load` and `Make` are
`createSocketForOrg`, `Settle` the promise's `finally` with those who wait for
it; `Open`, `Scan`, `Lose`, `Closed`, `LoggedOut` the handler of
`connection.update`, with `Show` for what it reports before; `Fire` the timer's
callback; `Crash`, `Boot`, `BootAccounts`, `BootStat`, `BootMark` a restart, and
`BootFails` the query that it makes no second time; `CloseFails` an account or
files that cannot be removed. `isSocketOpen` asks the WebSocket, which may be up
while the session still connects (`Up`). `Begin` and what follows are the requests, one disjunct of
`Step` per await; `Job` is a call that nobody waits for. `socket.end` reports
its close at once, as the library does, and a file of credentials that no phone
was linked with may or may not be there (`Usable`, `Unusable`). Of the status
only CONNECTED is told from the others, for no guard tells them apart.

## 4. The runs

| Run | What it asks | Bounds |
|---|---|---|
| `campaign_faults` | `AtMostOneSend`, `OneLiveExecution`, `LateSendsBounded`, `SendsAfterEndBounded`, `NoSilentStall`, `EndedStaysEnded` | 2 workers, 1 request slot with all seven requests, 1 enrollment, 2 executions, flows of two nodes, all faults |
| `campaign_liveness` | `EnrollmentSettles`, `JobsAreOneShot` | 2 workers, flows of up to three nodes of every type, lost replies and crashes |
| `campaign_archived` | `ArchivedIsNotResumed`, which fails: see section 8 | 2 requests |
| `broadcast` | `OneMessagePerRecipient`, `CancelStopsSends`, `CompletedLeavesNobody`, `RecordTellsTheTruth`, `Paced` | 2 workers, 2 request slots, 2 recipients in 2 batches, crashes, locks that expire at any time |
| `broadcast_liveness` | `BroadcastSettles` | 2 workers, 1 request slot, 2 recipients, throwing awaits and crashes |
| `wallet` | `LedgerExplainsBalance`, `OneOutcome`, `SettledIsApplied` | 2 requests at a time, a withdrawal and an attempt whose fee the wallet bears, failing requests and Redis; top-ups take the way of attempts without a fee and are left to the theorems |
| `public_api` | `RepeatsHaveReasons`, `QuietCancelHolds`, `PostsHaveReasons`, `StatusTellsDelivery`, `MessagesAreReported`, `ScheduleSettles`, `EventSettles` | 1 + 1 workers, a schedule tried twice, two events tried twice, workers of webhooks that die |
| `billing` | `OneBusinessPerOrder`, `AccessIsPaidFor`, `CouponWithinLimit`, `SettledIsHonored` | 2 requests at a time, a renewal and a business with one coupon of limit 1, operators, requests that die, failing Redis, two points in time |
| `invoices` | `StatusTellsMilestones`, `FewExtraProofs`, `PaidStays` | 2 requests at a time, 2 milestones, 2 attempts, a limit of 1 proof, requests that die |
| `messages` | `TakenIsNotFailed`, `StatusNeverGoesBack`, `OneConversation` | 2 requests or events at a time, a row, 2 ids of WhatsApp, a message of the customer, sends tried twice, all faults |
| `rules` | `ActionOncePerEvent`, `CheckTellsTheTruth`, `CheckSettles` | 2 receipts and 2 workers at a time, 2 READ updates of a broadcast's message, up to 2 enrollments in a flow, 2 actions, of which a check's first may fail, processes that die |
| `session` | `OneSession`, `DisconnectHolds`, `NotForgotten` | a request slot with all seven operations next to the timer's callback, 3 sockets, a link, a restart, creations that fail, a start that cannot read the accounts, accounts and files that cannot be removed |

Type invariants (`TypeOK`, `RulesTypeOK`) are theorems where a module has proofs; the runs
spend their time on the others. Why the
bounds are enough: every hazard is a conflict of two processes over one row, so
two of a kind and one of the other meet in every order; a third repeats the
roles of the first two. Two executions give a node and its successor, two
recipients two batches, two tries a first and a last one. Where only counting
grows with the bound (tries, recipients, workers), the theorems of section 6
drop it. Primary keys that are used up end a run's growth (`Enrollments`,
`Executions`, `Events`), as do `LaunchUntil` and `MaxClock`, which limit when a
broadcast may still be launched and how long its clock runs, with enough
intervals for every batch; `Billing`'s clock of two points tells before from
after the end of a trial or of a term. `MaxReads` lets a receipt come before
or during a check and once more after it, `MaxEnrollments` lets the second
enrollment of a flow meet the first one's record, `Fallible` names the keys whose
actions may fail; in `Session` `MaxLinks` gives a link that is made and
removed, `MaxCrashes` a restart in every state, three sockets the one that is
held, one left behind and one being made, and one request slot is enough because
the timer's callback creates sockets too. `CHECK_DEADLOCK FALSE` is set because the system may
stop: nobody needs to make another request.

Symmetry is used for interchangeable processes, ids and sockets, in safety runs
only (`broadcast`, `messages`, `session`).

## 5. Fairness

Worker loops run for ever and a request that was started goes on
(`while (running)` in the processors, `await` in the services): weak fairness
for each process's steps. Clocks advance: weak fairness for a due time's
passing. A broadcast's lock has a TTL: it expires. Redis lists are first in,
first out and what goes back goes to the end: a job that is on the list again
and again is taken, strong fairness for taking each one (`PublicApi`; in
`CampaignRuntime` the list is a sequence and weak fairness is enough). The
gateway repeats a webhook until it is answered: strong fairness for the
delivery of a settled one (`Wallet`, `Billing`); that no more handlers exist than
the model has is the model's limit and not the server's. A worker's batch comes
back to the checks that are due: strong fairness for the claim of each one, weak
fairness for what a worker does next; a check doesn't wait for the handlers of
receipts, and they are not fair (`Rules`). Nothing in `Billing`
waits for its clock or for an operator, and neither is fair. Requests, changes of configuration and
faults are never fair; for broadcasts they end, since a recipient that throws
for ever would keep them busy, and for everything else the liveness properties
except by name what a fault took away (`stranded`, `abandoned`, `botched`,
`lost`, `dropped`): the code has no sweep that would bring it back.

`EnrollmentSettles` is checked without requests that edit the flow, for a flow
with a cycle never ends and is not meant to.

## 6. What is proved

All theorems hold for every value of the constants that the module's named
assumption allows; none bounds the number of processes, rows or tries.

| Module | Theorems | Along which invariant |
|---|---|---|
| `CampaignRuntime_proofs` | `TypeCorrect`, `OneSend`, `FewLateSends`, `FewDuplicates`, `EndedForGood`, `OneAtATime`, `FewSendsAfterEnd`, `NobodyForgotten`, `OneShotImplemented` | `TypeInv` adds that rows and plans refer to what exists (`ReferencesOK`, `PlansOK`); `TokenInv` that an execution has one job in one place (`OnePlace`) and was sent for only when that place is past the send (`SentOnce`): the lock plays no part, which is why its expiry does no harm; `LateInv` that a worker that has sent since the flow left ACTIVE holds no plan to send; `DuplicatesInv` that a request that has found no enrollment counts as the one it will create (`Pending`), for finitely many requests; `WalkInv` that an enrollment's walk is with one process or its one execution that waits; `EndInv`, on top of it, that nothing was sent too late for whom a worker is about to send; `StallInv` that what has no job left is done (`PastOK`), a lock that outlives its holder holds up nothing that waits (`LockOK`), and somebody goes on with whoever has no job (`DrivenOK`). The refinement maps rows, jobs, plans and locals to the state of each one-shot job, step by step |
| `Broadcast_proofs` | `TypeCorrect`, `OneMessage`, `LaunchedOnce`, `NobodyLeftWaiting`, `RecordsAreTrue`, `BatchesArePaced` | `OneInv`: the claim PENDING to QUEUED leaves a recipient with one worker (`ClaimsOK`), and what was sent isn't PENDING (`SendsOK`); `LaunchInv`: before the launch there are no rows, and afterwards what a worker has counted stays counted; `RecordInv`: a worker gets to its catch block with a recipient only after a fault, and what was sent is recorded or about to be; `PaceInv`: each launch makes at most one batch due per interval, and what was read, claimed or sent was due, those included that were deleted meanwhile (`DueBy`) |
| `Wallet_proofs` | `TypeCorrect`, `OncePerKey`, `LedgerExplains`, `OneOutcomeEach` | `KeyInv`: a handler that took a key is the only one that carries it; `LedgerInv`: a snapshot that nobody overtook is the balance (`Snapshots`); `OutcomeInv`: a subject's status accounts for the outcome it had (`OutcomesOK`), and two handlers that hold it overlap (`HeldOK`) |
| `PublicApi_proofs` | of schedules: `ScheduleTypeCorrect`, `ReasonedRepeats`, `QuietCancels` | `PlaceInv`: a schedule's job is in one place; `SentInv`: as long as it may still be sent, each message was counted as a try and had a throw behind it; `QuietInv`: a quietly canceled row is in no worker's hands beyond taking its job |
| | of events: `EventTypeCorrect`, `ReasonedPosts`, `StatusTells` | `EventInv`: the same with posts and good answers. It is one invariant, for the type needs it: a FAILED event has used its tries, and only because it has no job is it not read again |
| | of the two: `ImplementsSchedules`, `ImplementsEvents`, `ReportedRepeats`, `ReportedQuietCancels`, `ReportedPosts`, `ReportedStatus`, `TypeCorrect`, `EveryMessageReported` | the composition implements both parts: each step is a step of the part or leaves it alone. For the events this needs `NewsInv`: a worker about to queue an event has stored one. `ReportInv` counts, for each schedule, the events about it, the workers that have yet to report a message, and the messages left over (`Reported`) |
| `Billing_proofs` | `BillingTypeCorrect`, `CouponCounts`, `OneBusiness`, `AccessPaidFor` | `TypeInv` adds that a handler is about an order of the right kind (`PlacesOK`); `CouponInv`: a limit that a checkout has read is the current one unless an operator overruled it; `BusinessInv`: a snapshot without a business is either still right or its transaction overlapped another; `AccessInv`: a subscription's end is covered by a trial, an operator or an order's first activation, and the handler that will activate next is the first or in a clash |
| `Invoices_proofs` | `InvoiceTypeCorrect`, `StatusTells`, `PaidForGood`, `FewProofs` | `SeenInv`: what a request that nobody overtook has read is still so (`Seen`), and there is nothing to request before the draft (`NothingYet`); `LimitInv`: an upload in progress counts as the proof it will create, for finitely many requests |
| `Receipts_proofs` | of rules: `RulesTypeCorrect`, `ReadersAreSpared`, `ActionsOnce` | `CheckInv`: a check is claimed by one worker (`ClaimedOnce`), its row follows what the worker does (`InOrder`), and a message read in time is spared by a row that says so, or by whoever is to write it (`InTime`); `RecordInv`: a key that no two handlers took for new at once, and whose effects were all recorded, is in one handler's hands, before its first effect or after it (`Recorded`); a handler's key is that of the run it is in, and a worker is in no enrollment's (`RunsPlaced`) |
| | of messages: `MessagesTypeCorrect`, `ReceiptsAdvance`, `ChatIsOne`, `TakenIsTold` | `StatusInv`: nothing is known of a row's delivery before it has an id (`Tracked`), and what a handler that nobody overtook has read of a status is so (`Fresh`); `AloneInv`: the same for whoever found no conversation; `TakenInv`: a row to which no exception applies (`Plain`) has one sender, and the id it was taken under is its own, in that sender's hands, or with the echo about to write it (`SentOK`, `EchoOK`) |
| `Session_proofs` | `TypeCorrect`, `SessionIsOne`, `AccountIsDriven`, `DisconnectLasts` | `CallersInv`: who creates a socket waits for itself; `CreationInv`: a creation that goes on is the one `initPromise` names, or was disowned; `DriveInv`: a session that may reconnect, holds nothing and has no timer is on its way (`Driven`), has no account and will get none, or was given up (`gaveUp`); `QuietInv`: as long as nobody asks for the session nobody is at work on it but the request that closes it and a bootstrap that finds nothing, across restarts |

The properties themselves are not inductive: that a message goes out once says
nothing about a second job on the list, which would send it again. Each
invariant above adds where the permission to act is at any time, and that there
is one of it.

Only model-checked: liveness (`EnrollmentSettles`, `BroadcastSettles`,
`SettledIsApplied`, `ScheduleSettles`, `EventSettles`, `SettledIsHonored`,
`CheckSettles`), which is beyond the prover, like `ENABLED` and what a recursive
definition computes. Every safety property that a run checks is a theorem. The other way
round, two theorems state what no run checks, for want of an instance that is
both small and interesting: `FewDuplicates` (three enrollments and two
overlapping requests) and `OncePerKey`.

## 7. What is not modelled

`PROJECT.json` lists every component with the reason. In short: routes parse a
request and call one service; auth, catalog, shortlinks, storage, realtime,
superadmin and settings are single rows behind access checks. The browser's code
(`src/components`, nearly half of the lines) shows what routes return and
decides nothing that lasts. Of `baileysService.ts` media, presence, contact names
and reports are left out. Of the
modelled services, access checks, audit logs, texts, media, bank details and
compliance events are left out: no property tells them apart and none of them
feeds a guard that is modelled. Of billing, prices, discounts and reminders are
left out, and `runSubscriptionTransitionSweep`, which nothing in the repository
calls: access is computed from the row each time. Rules enter `CampaignRuntime` as requests they
make, `RunRules` being where they may throw. Two branches of the code are left
out because nothing reaches them: flows are created with `isTemplateOnly`, which
nothing clears, so that a SEND_TEXT node is always skipped and never sent
(`PlansFor`); and a check's message cannot be missing, for the database refuses to
delete a message that has a check (`Look`). Receipts change `deliveredAt` and
`readAt` with the status that implies them; that one which doesn't advance the
status could set them is so only after an overtaken write (`Receive`). A timer
that fires while the creation of an earlier one goes on waits in the model
(`Fire`); in the code it shares or repeats that creation like any caller. Outside of `Messages` the outbound message
service is one step that sends and may throw whatever it did.

Assumed of what is not in this repository: MySQL runs single statements
atomically and transactions at REPEATABLE READ, Redis commands take effect at
most once although their reply may be lost, the gateway's repeats of a webhook
end before its replay key does (24 hours).

## 8. Findings and observations

One finding, a comment of the code against what it does (`campaign_archived`):
"Archived flow cannot be resumed.", yet the guard and the write are two awaits,
and a stop in between is undone.

What the properties had to say "unless" about, because the code allows it:

- A sequence's job that finds the flow paused ends its execution; the
  enrollment stays ACTIVE without a job after the flow is resumed, and blocks
  its conversation from being enrolled again (`NoSilentStall`).
- A launch that read the draft before a cancel or before another launch
  restarts the broadcast (`CancelStopsSends`, `CompletedLeavesNobody`).
- A recipient that was claimed when its worker died stays QUEUED and keeps the
  broadcast RUNNING (`BroadcastSettles`).
- Overlapping wallet transactions write balances computed from the same
  snapshot; a ledger entry shows the whole fee where the balance was cut off at
  zero (`LedgerExplainsBalance`). Approving, paying and rejecting a withdrawal
  at once can both pay and refund it, and webhooks with different statuses for
  one order, whose keys differ, can overlap (`OneOutcome`).
- A webhook that fails after it took its replay key leaves a paid order
  unapplied: its repeats are skipped (`SettledIsApplied`).
- A renewal whose activation fails after its charge was written PAID is never
  activated: the replay key and the status both turn the repeats away
  (`SettledIsHonored`). Renewals do not add up: a term runs from its payment and
  replaces what was left of the one before.
- Webhooks with different statuses have different replay keys and may overlap
  for one order, as do two of the same when Redis fails: a term is then written
  twice, the later from its own time of verification (`AccessIsPaidFor`), or two
  businesses are created of which one belongs to no order (`OneBusinessPerOrder`).
- An operator's new limit of a coupon is checked against a count read before and
  ignored by checkouts in progress (`CouponWithinLimit`); extending the trial of
  an organization that has paid makes it TRIALING until that trial ends.
- A cancel during a scheduled send is overwritten by SENT, or by PENDING with a
  new try (`QuietCancelHolds` speaks of the others); an event report that fails
  makes its message go out again (`RepeatsHaveReasons`).
- Nothing looks for PENDING schedules or events without a job
  (`ScheduleSettles`, `EventSettles`), nor for QUEUED executions, nor for checks
  left PROCESSING (`CheckSettles`).
- Two overlapping marks, or a mark and the gateway, can leave an invoice
  PARTIALLY_PAID with all its milestones PAID; a send that was overtaken by the
  payment writes SENT over PAID, and a delete that was overtaken deletes a paid
  invoice (`StatusTellsMilestones`, `PaidStays`).
- An echo is matched by type and text. A template's never matches, so that one
  that comes before its send has returned takes the id, and the message is left
  FAILED though it was delivered; the same for a row whose first try was taken
  and that is sent again (`TakenIsNotFailed`).
- An agent's new conversation carries no chat id: the customer's first answer
  creates a second one. Two first messages of a new customer at once clash, and
  the one that loses is logged and gone (`OneConversation`).
- One READ runs the rules for the broadcast that sent the message and for each
  active enrollment, under keys of their own: a rule that matches several of these
  acts once for each. A rule's dedupe key names the action's type and no enrollment: a second action
  of the same type is skipped, and so is a second subscription, and a second
  enrollment in the same flow. Two reports of one read at once both act
  (`ActionOncePerEvent`).
- A disconnect or a reset forgets a creation that is under way; it installs its
  socket afterwards and allows reconnecting again, next to the one made meanwhile.
  `disconnectBaileysSessionForOrg` leaves `initPromise` alone, with the same end.
  `markStoredAuthAsDisconnected` drops its socket without ending it
  (`OneSession`, `DisconnectHolds`).
- An account that is being stored as the session is disconnected is there
  afterwards, and the next start takes it for a session (`DisconnectHolds`).
- A request's creation that fails after the connection was lost, with no timer
  set, leaves the session down until the next request; so does a reset that cannot
  remove the credentials, after it ended the connection, and a start that cannot
  read the accounts, which is not repeated: "runtime operations can still trigger
  reconnect lazily" (`NotForgotten`).
- A disconnect that cannot remove the account or the credentials reports an error;
  what is left of them is taken for a session at the next start
  (`DisconnectHolds` speaks of those that succeed).

## 9. Running it

`tlc -config MCWallet.cfg MCWallet` and so on for each pair of section 4
(`PROJECT.json` names them); `tlapm Wallet_proofs.tla` and so on for the proofs.
Definitions whose comment begins with "Mutant" are slips the code might have
made; each property is violated when one of them takes the place of the
definition that follows it, and no specification uses them otherwise.
