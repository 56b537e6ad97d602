------------------------------ MODULE Billing ------------------------------
(***************************************************************************)
(* What an organization pays the platform: checkouts that renew its        *)
(* subscription or buy another business, the coupon they redeem, the       *)
(* gateway's webhook that confirms the payment, activates the subscription *)
(* and creates the business, and what the platform's operators do to a     *)
(* subscription and to the coupon.                                         *)
(*                                                                         *)
(* A renewal is confirmed by two writes outside of any transaction, a      *)
(* business by a transaction and a write after it.                         *)
(*                                                                         *)
(* Data left out: prices and fees, payment methods and numbers, the        *)
(* coupon's period and discount, members and settings of the new business. *)
(***************************************************************************)
EXTENDS Naturals, FiniteSets

CONSTANTS
    Handlers,     \* requests in progress, webhooks included
    Home,         \* the organization that renews
    Charges,      \* its renewals
    Provisions,   \* businesses that its owner buys
    Discounted,   \* the orders that name the coupon
    Days,         \* the time that each order pays for
    OperatorDays, \* the time that an operator's activation gives
    TrialEnd,     \* the end of Home's trial, and the grace after it
    Grace,
    Supervised,   \* the organizations whose subscription operators change
    Limits,       \* the redemptions that operators allow (null: more than there are orders)
    MaxClock,     \* bound: time stops here
    Notices,      \* the statuses that webhooks carry
    Faults,       \* the faults that may happen
    Nothing

AllFaults == {"abort", "redis"}

Orders == Charges \cup Provisions

\* The business that a handler creates for an order.
Businesses == Provisions \X Handlers

Orgs == {Home} \cup Businesses

ASSUME BillingAssumption ==
    /\ Charges \cap Provisions = {}
    /\ Discounted \subseteq Orders
    /\ Home \notin Businesses /\ Nothing \notin Orders /\ Nothing \notin Orgs
    /\ Days \in [Orders -> Nat \ {0}]
    /\ OperatorDays \in Nat \ {0}
    /\ TrialEnd \in Nat /\ Grace \in Nat /\ MaxClock \in Nat
    /\ Supervised \subseteq Orgs
    /\ Limits \subseteq Nat \ {0}
    /\ "settled" \in Notices
    /\ Faults \subseteq AllFaults
    /\ IsFiniteSet(Orders)

VARIABLES
    clock,       \* starts at 1: time 0 stands for null
    subs,        \* the subscription of each organization; NoSub: no row
    created,     \* the businesses that exist
    status,      \* of each order; "none": no row
    link,        \* createdOrgId
    coupon,      \* maxRedemptions and redeemedCount
    keys,        \* the webhooks' replay keys in Redis
    settledAt,   \* when the customer paid at the gateway; 0: not yet
    pc,          \* what each handler does next
    on,          \* the order it is about
    told,        \* the status its webhook carries
    org,         \* the business or subscription it is about
    saw,         \* what it read: the coupon's limit or count, a trial's end
    takes,       \* what it will write: a time of payment, a limit, a trial's end
    paidFrom,    \* history: since when the order's time runs; 0: not given
    granted,     \* history: until when trial and operators give access
    clashes,     \* history: orders that two webhooks found unpaid
    forked,      \* history: orders whose business two transactions found missing
    overruled,   \* history: the limit was written over what others did or read
    botched      \* history: orders of which a webhook failed on its way

rows    == <<subs, created, status, link, coupon>>
world   == <<clock, settledAt, keys>>
locals  == <<pc, on, told, org, saw, takes>>
history == <<paidFrom, granted, clashes, forked, overruled, botched>>
vars    == <<rows, world, locals, history>>

Sub(standing, trialEnd, periodEnd) ==
    [status |-> standing, trialEnd |-> trialEnd, periodEnd |-> periodEnd]

NoSub == Sub("none", 0, 0)

Goto(h, where) == pc' = [pc EXCEPT ![h] = where]

Begin(h, where, o) ==
    /\ pc[h] = "idle"
    /\ Goto(h, where)
    /\ on' = [on EXCEPT ![h] = o]

End(h) ==
    /\ Goto(h, "idle")
    /\ on' = [on EXCEPT ![h] = Nothing]
    /\ told' = [told EXCEPT ![h] = "none"]
    /\ org' = [org EXCEPT ![h] = Nothing]
    /\ saw' = [saw EXCEPT ![h] = 0]
    /\ takes' = [takes EXCEPT ![h] = 0]

\* The owner registered: ensureBillingRecordForOrg gave Home its trial.
Init ==
    /\ clock = 1
    /\ subs = [x \in Orgs |->
           IF x = Home THEN Sub("TRIALING", TrialEnd, 0) ELSE NoSub]
    /\ created = {}
    /\ status = [o \in Orders |-> "none"]
    /\ link = [o \in Provisions |-> Nothing]
    /\ \E n \in Limits : coupon = [limit |-> n, redeemed |-> 0]
    /\ keys = {}
    /\ settledAt = [o \in Orders |-> 0]
    /\ pc = [h \in Handlers |-> "idle"]
    /\ on = [h \in Handlers |-> Nothing]
    /\ told = [h \in Handlers |-> "none"]
    /\ org = [h \in Handlers |-> Nothing]
    /\ saw = [h \in Handlers |-> 0]
    /\ takes = [h \in Handlers |-> 0]
    /\ paidFrom = [o \in Orders |-> 0]
    /\ granted = [x \in Orgs |-> IF x = Home THEN TrialEnd + Grace ELSE 0]
    /\ clashes = {}
    /\ forked = {}
    /\ overruled = FALSE
    /\ botched = {}

-----------------------------------------------------------------------------
(* Checkouts: createBillingCheckout, createBusinessProvisioningCheckout     *)

Fresh(o) == status[o] = "none" /\ \A g \in Handlers : on[g] # o

\* resolveCouponForCheckout reads the coupon, then the gateway is asked.
AskGateway(h, o) ==
    /\ Fresh(o)
    /\ o \in Discounted => coupon.redeemed < coupon.limit
    /\ Begin(h, "create", o)
    /\ saw' = [saw EXCEPT ![h] = coupon.limit]
    /\ UNCHANGED <<rows, world, told, org, takes, history>>

\* Mutant: the redemption trusts what the checkout had read.
RedeemAnyway(h) ==
    IF on[h] \in Discounted THEN [coupon EXCEPT !.redeemed = @ + 1] ELSE coupon

\* reserveCouponRedemption counts while the count is below the limit read
\* before the gateway was asked; otherwise the order is rolled back.
Redeem(h) ==
    IF on[h] \in Discounted /\ coupon.redeemed < saw[h]
    THEN [coupon EXCEPT !.redeemed = @ + 1] ELSE coupon

CreateOrder(h) ==
    /\ pc[h] = "create"
    /\ coupon' = Redeem(h)
    /\ status' = IF on[h] \in Discounted => coupon' # coupon
                 THEN [status EXCEPT ![on[h]] = "PENDING"] ELSE status
    /\ End(h)
    /\ UNCHANGED <<subs, created, link, world, history>>

\* The customer pays, once the checkout showed how.
Settle(o) ==
    /\ status[o] # "none"
    /\ settledAt[o] = 0
    /\ settledAt' = [settledAt EXCEPT ![o] = clock]
    /\ UNCHANGED <<clock, keys, rows, locals, history>>

-----------------------------------------------------------------------------
(* The gateway's webhook: processPakasirWebhook                             *)

ReplayKey(o, notice) == <<o, notice>>

KnownToGateway(o, notice) ==
    /\ status[o] # "none" \/ \E h \in Handlers : pc[h] = "create" /\ on[h] = o
    /\ notice = "settled" => settledAt[o] # 0

\* SET NX of the replay key; a webhook that finds it is skipped.
Deliver(h, o, notice) ==
    /\ KnownToGateway(o, notice)
    /\ ReplayKey(o, notice) \notin keys
    /\ keys' = keys \cup {ReplayKey(o, notice)}
    /\ Begin(h, "read", o)
    /\ told' = [told EXCEPT ![h] = notice]
    /\ UNCHANGED <<rows, clock, settledAt, org, saw, takes, history>>

\* An error from Redis, before or after it set the key: the webhook goes on.
DeliverUnlocked(h, o, notice) ==
    /\ "redis" \in Faults
    /\ KnownToGateway(o, notice)
    /\ keys' \in {keys, keys \cup {ReplayKey(o, notice)}}
    /\ Begin(h, "read", o)
    /\ told' = [told EXCEPT ![h] = notice]
    /\ UNCHANGED <<rows, clock, settledAt, org, saw, takes, history>>

\* What makes a webhook stop: no such order, or all was done before.
Done(o) == status[o] = "PAID" /\ (o \in Provisions => link[o] # Nothing)

ReadOrder(h) ==
    /\ pc[h] = "read"
    /\ IF status[on[h]] = "none" \/ Done(on[h])
       THEN End(h)
       ELSE Goto(h, "verify") /\ UNCHANGED <<on, told, org, saw, takes>>
    /\ UNCHANGED <<rows, world, history>>

\* The gateway says whether the order is settled, and since when unless it
\* leaves that out; not settled is an error.
Verify(h) ==
    /\ pc[h] = "verify"
    /\ \/ /\ settledAt[on[h]] = 0
          /\ End(h)
       \/ /\ settledAt[on[h]] # 0
          /\ Goto(h, IF on[h] \in Charges THEN "pay" ELSE "tx")
          /\ \E t \in {settledAt[on[h]], clock} : takes' = [takes EXCEPT ![h] = t]
          /\ UNCHANGED <<on, told, org, saw>>
    /\ UNCHANGED <<rows, world, history>>

\* Another webhook found this one's order unpaid and will go on with it.
Overlaps(h) ==
    \E g \in Handlers \ {h} : on[g] = on[h] /\ pc[g] \in {"verify", "pay", "tx", "provision"}

Pay(h) ==
    /\ status' = [status EXCEPT ![on[h]] = "PAID"]
    /\ clashes' = IF Overlaps(h) THEN clashes \cup {on[h]} ELSE clashes

\* Mutant: the subscription is left to somebody else.
PayWithoutActivating(h) ==
    /\ pc[h] = "pay"
    /\ Pay(h)
    /\ End(h)
    /\ UNCHANGED <<subs, created, link, coupon, world, takes,
                   paidFrom, granted, forked, overruled, botched>>

\* The charge is written by its id, whatever became of it since it was read.
PayCharge(h) ==
    /\ pc[h] = "pay"
    /\ Pay(h)
    /\ org' = [org EXCEPT ![h] = Home]
    /\ Goto(h, "activate")
    /\ UNCHANGED <<subs, created, link, coupon, world, on, told, saw, takes,
                   paidFrom, granted, forked, overruled, botched>>

\* Mutant: the transaction doesn't look for a business.
AlwaysNew(o) == Nothing

BusinessFound(o) == link[o]

\* The first statement of the transaction reads the order again.
BeginProvision(h) ==
    /\ pc[h] = "tx"
    /\ org' = [org EXCEPT ![h] = BusinessFound(on[h])]
    /\ Goto(h, "provision")
    /\ UNCHANGED <<rows, world, on, told, saw, takes, history>>

\* A business unless there is one, and the order paid and linked to it.
Provision(h) ==
    /\ pc[h] = "provision"
    /\ Pay(h)
    /\ LET o == on[h] IN
       IF org[h] = Nothing
       THEN /\ created' = created \cup {<<o, h>>}
            /\ org' = [org EXCEPT ![h] = <<o, h>>]
            /\ link' = [link EXCEPT ![o] = <<o, h>>]
            /\ forked' = IF \E g \in Handlers \ {h} :
                              pc[g] = "provision" /\ on[g] = o /\ org[g] = Nothing
                         THEN forked \cup {o} ELSE forked
       ELSE /\ link' = [link EXCEPT ![o] = org[h]]
            /\ UNCHANGED <<created, org, forked>>
    /\ Goto(h, "activate")
    /\ UNCHANGED <<subs, coupon, world, on, told, saw, takes,
                   paidFrom, granted, overruled, botched>>

\* Mutant: a renewal gets its time twice.
TwoTerms(o, from) == from + 2 * Days[o]

\* Renewals don't add up: the time runs from the payment.
TermEnd(o, from) == from + Days[o]

\* activateSubscriptionFromPaidCharge, and for a business the upsert of
\* activateSubscriptionForProvisionedBusiness.
Activate(h) ==
    /\ pc[h] = "activate"
    /\ LET o == on[h] IN
       /\ subs' = [subs EXCEPT ![org[h]] =
              Sub("ACTIVE", IF o \in Provisions THEN takes[h] ELSE @.trialEnd,
                  TermEnd(o, takes[h]))]
       /\ paidFrom' = IF paidFrom[o] = 0
                      THEN [paidFrom EXCEPT ![o] = takes[h]] ELSE paidFrom
    /\ End(h)
    /\ UNCHANGED <<created, status, link, coupon, world,
                   granted, clashes, forked, overruled, botched>>

-----------------------------------------------------------------------------
(* Operators of the platform: setSubscriptionActionBySuperadmin             *)

Later(s, t) == IF s > t THEN s ELSE t

MarkActive(x) ==
    /\ subs[x] # NoSub
    /\ subs' = [subs EXCEPT ![x] = Sub("ACTIVE", @.trialEnd, clock + OperatorDays)]
    /\ granted' = [granted EXCEPT ![x] = Later(@, clock + OperatorDays)]
    /\ UNCHANGED <<created, status, link, coupon, world, locals,
                   paidFrom, clashes, forked, overruled, botched>>

\* MARK_PAST_DUE and CANCEL.
Lock(x, as) ==
    /\ subs[x] # NoSub
    /\ subs' = [subs EXCEPT ![x] = Sub(as, @.trialEnd, @.periodEnd)]
    /\ UNCHANGED <<created, status, link, coupon, world, locals, history>>

\* EXTEND_TRIAL adds to the trial's end as it was read.
BeginExtension(h, x) ==
    /\ subs[x] # NoSub
    /\ subs[x].trialEnd < MaxClock
    /\ Begin(h, "extend", Nothing)
    /\ org' = [org EXCEPT ![h] = x]
    /\ takes' = [takes EXCEPT ![h] = subs[x].trialEnd + 1]
    /\ UNCHANGED <<rows, world, told, saw, history>>

ExtendTrial(h) ==
    /\ pc[h] = "extend"
    /\ subs' = [subs EXCEPT ![org[h]] = Sub("TRIALING", takes[h], @.periodEnd)]
    /\ granted' = [granted EXCEPT ![org[h]] = Later(@, takes[h] + Grace)]
    /\ End(h)
    /\ UNCHANGED <<created, status, link, coupon, world,
                   paidFrom, clashes, forked, overruled, botched>>

\* updateCouponForSuperadmin refuses a limit below the count it read.
BeginLimit(h, n) ==
    /\ n >= coupon.redeemed
    /\ Begin(h, "limit", Nothing)
    /\ saw' = [saw EXCEPT ![h] = coupon.redeemed]
    /\ takes' = [takes EXCEPT ![h] = n]
    /\ UNCHANGED <<rows, world, told, org, history>>

\* Checkouts in progress go by the limit that they read.
SetLimit(h) ==
    /\ pc[h] = "limit"
    /\ coupon' = [coupon EXCEPT !.limit = takes[h]]
    /\ overruled' = (\/ overruled
                     \/ coupon.redeemed # saw[h]
                     \/ \E g \in Handlers : pc[g] = "create")
    /\ End(h)
    /\ UNCHANGED <<subs, created, status, link, world,
                   paidFrom, granted, clashes, forked, botched>>

-----------------------------------------------------------------------------

Tick ==
    /\ clock < MaxClock
    /\ clock' = clock + 1
    /\ UNCHANGED <<rows, keys, settledAt, locals, history>>

\* A request dies, a call of the gateway fails, a transaction is rolled back.
Abort(h) ==
    /\ "abort" \in Faults
    /\ pc[h] # "idle"
    /\ botched' = IF told[h] = "settled" \/ pc[h] = "activate"
                  THEN botched \cup {on[h]} ELSE botched
    /\ End(h)
    /\ UNCHANGED <<rows, world, paidFrom, granted, clashes, forked, overruled>>

Step(h) ==
    \/ CreateOrder(h)
    \/ ReadOrder(h) \/ Verify(h) \/ PayCharge(h)
    \/ BeginProvision(h) \/ Provision(h) \/ Activate(h)
    \/ ExtendTrial(h) \/ SetLimit(h)

Next ==
    \/ Tick
    \/ \E h \in Handlers : Step(h) \/ Abort(h)
    \/ \E h \in Handlers, o \in Orders : AskGateway(h, o)
    \/ \E h \in Handlers, o \in Orders, n \in Notices : Deliver(h, o, n) \/ DeliverUnlocked(h, o, n)
    \/ \E o \in Orders : Settle(o)
    \/ \E h \in Handlers, x \in Supervised : BeginExtension(h, x)
    \/ \E x \in Supervised : MarkActive(x)
    \/ \E x \in Supervised, as \in {"PAST_DUE", "CANCELED"} : Lock(x, as)
    \/ \E h \in Handlers, n \in Limits : BeginLimit(h, n)

Spec == Init /\ [][Next]_vars

\* A request in progress goes on, and the gateway sends the webhook of a
\* payment until it is taken: strongly fair, for the model has few handlers
\* and the server as many as it needs.
FairSpec ==
    /\ Spec
    /\ \A h \in Handlers : WF_vars(Step(h))
    /\ \A o \in Orders : SF_vars(\E h \in Handlers : Deliver(h, o, "settled"))

-----------------------------------------------------------------------------

Subscriptions ==
    [status : {"none", "TRIALING", "ACTIVE", "PAST_DUE", "CANCELED"},
     trialEnd : Nat, periodEnd : Nat]

Places ==
    {"idle", "create", "read", "verify", "pay", "tx", "provision", "activate",
     "extend", "limit"}

\* The type of every variable; a handler that activates knows for whom.
TypeOK ==
    /\ clock \in Nat
    /\ subs \in [Orgs -> Subscriptions]
    /\ created \subseteq Businesses
    /\ status \in [Orders -> {"none", "PENDING", "PAID"}]
    /\ link \in [Provisions -> Businesses \cup {Nothing}]
    /\ coupon \in [limit : Nat, redeemed : Nat]
    /\ keys \subseteq Orders \X Notices
    /\ settledAt \in [Orders -> Nat]
    /\ pc \in [Handlers -> Places]
    /\ on \in [Handlers -> Orders \cup {Nothing}]
    /\ told \in [Handlers -> Notices \cup {"none"}]
    /\ org \in [Handlers -> Orgs \cup {Nothing}]
    /\ saw \in [Handlers -> Nat]
    /\ takes \in [Handlers -> Nat]
    /\ paidFrom \in [Orders -> Nat]
    /\ granted \in [Orgs -> Nat]
    /\ clashes \subseteq Orders
    /\ forked \subseteq Provisions
    /\ overruled \in BOOLEAN
    /\ botched \subseteq Orders
    /\ \A h \in Handlers : pc[h] \in {"activate", "extend"} => org[h] \in Orgs

Redeemers == {o \in Discounted : status[o] # "none"}

\* The coupon's count is the number of orders that name it, and stays within
\* its limit though checkouts in progress had read it earlier, unless an
\* operator's limit was written over what others did or had read.
CouponWithinLimit ==
    /\ coupon.redeemed = Cardinality(Redeemers)
    /\ coupon.redeemed <= coupon.limit \/ overruled

\* A provisioning order that is paid has its business, and only one, whatever
\* webhooks repeat, unless two transactions overlapped: then one of the two
\* businesses belongs to no order.
OneBusinessPerOrder ==
    \A o \in Provisions :
        /\ status[o] = "PAID" <=> link[o] # Nothing
        /\ link[o] # Nothing => link[o] \in created
        /\ o \notin forked =>
               \A x, y \in created : x[1] = o /\ y[1] = o => x = y

OrdersOf(x) == IF x = Home THEN Charges ELSE {x[1]}

\* computeSubscriptionAccessState
Locked(x) ==
    \/ subs[x].status \in {"none", "PAST_DUE", "CANCELED"}
    \/ subs[x].status = "ACTIVE" /\ subs[x].periodEnd <= clock
    \/ subs[x].status = "TRIALING" /\ clock > subs[x].trialEnd + Grace

\* An organization that is not locked has its trial, or what an operator gave
\* it, or time left that it paid for, counted from when the order was first
\* applied: no repeated webhook adds to it unless two of them overlapped.
AccessIsPaidFor ==
    \A x \in Orgs :
        \/ Locked(x)
        \/ clock <= granted[x]
        \/ \E o \in OrdersOf(x) :
              /\ paidFrom[o] # 0
              /\ clock < paidFrom[o] + Days[o] \/ o \in clashes

\* An order that is settled gets its time in the end, unless a webhook failed
\* on its way: neither the replay key nor the status lets a later one in.
SettledIsHonored ==
    \A o \in Orders : settledAt[o] # 0 ~> (paidFrom[o] # 0 \/ o \in botched)

=============================================================================
