-------------------------- MODULE Billing_proofs --------------------------
(***************************************************************************)
(* Proofs about Billing, for any number of handlers, renewals and          *)
(* businesses, any terms, limits and interventions of operators.           *)
(***************************************************************************)
EXTENDS Billing, FiniteSetTheorems, TLAPS

-----------------------------------------------------------------------------
(* Type correctness *)

Confirming == {"verify", "pay", "tx", "provision", "activate"}

OrderSteps == {"create", "read"} \cup Confirming

\* What a handler at a step is about.
PlaceOK(h) ==
    /\ pc[h] \in OrderSteps => on[h] \in Orders
    /\ told[h] = "settled" => pc[h] \in OrderSteps
    /\ pc[h] = "pay" => on[h] \in Charges
    /\ pc[h] \in {"tx", "provision"} => on[h] \in Provisions
    /\ pc[h] = "provision" => org[h] \in Businesses \cup {Nothing}
    /\ pc[h] \in {"activate", "extend"} => org[h] \in Orgs

PlacesOK == \A h \in Handlers : PlaceOK(h)

LocalsTyped ==
    /\ pc \in [Handlers -> Places]
    /\ on \in [Handlers -> Orders \cup {Nothing}]
    /\ told \in [Handlers -> Notices \cup {"none"}]
    /\ org \in [Handlers -> Orgs \cup {Nothing}]
    /\ saw \in [Handlers -> Nat]
    /\ takes \in [Handlers -> Nat]
    /\ PlacesOK

RowsTyped ==
    /\ subs \in [Orgs -> Subscriptions]
    /\ created \subseteq Businesses
    /\ status \in [Orders -> {"none", "PENDING", "PAID"}]
    /\ link \in [Provisions -> Businesses \cup {Nothing}]
    /\ coupon \in [limit : Nat, redeemed : Nat]

WorldTyped ==
    /\ clock \in Nat
    /\ settledAt \in [Orders -> Nat]
    /\ keys \subseteq Orders \X Notices

HistoryTyped ==
    /\ paidFrom \in [Orders -> Nat]
    /\ granted \in [Orgs -> Nat]
    /\ clashes \subseteq Orders
    /\ forked \subseteq Provisions
    /\ overruled \in BOOLEAN
    /\ botched \subseteq Orders

TypeInv == LocalsTyped /\ RowsTyped /\ WorldTyped /\ HistoryTyped

LEMMA SubTyped ==
    ASSUME NEW standing \in {"none", "TRIALING", "ACTIVE", "PAST_DUE", "CANCELED"},
           NEW t \in Nat, NEW p \in Nat
    PROVE  Sub(standing, t, p) \in Subscriptions
BY DEF Sub, Subscriptions

LEMMA InitTypeInv == ASSUME BillingAssumption, Init PROVE TypeInv
<1>1. LocalsTyped
  BY DEF BillingAssumption, Init, LocalsTyped, PlacesOK, PlaceOK, OrderSteps, Confirming, Places
<1>2. RowsTyped
  <2>1. Home \in Orgs /\ NoSub \in Subscriptions
    BY SubTyped DEF Orgs, NoSub
  <2>2. Sub("TRIALING", TrialEnd, 0) \in Subscriptions
    BY SubTyped DEF BillingAssumption
  <2> QED
    <3>1. subs \in [Orgs -> Subscriptions] /\ coupon \in [limit : Nat, redeemed : Nat]
      BY <2>1, <2>2 DEF BillingAssumption, Init
    <3> QED
      BY <3>1 DEF Init, RowsTyped
<1>3. WorldTyped /\ HistoryTyped
  <2>1. TrialEnd + Grace \in Nat
    BY DEF BillingAssumption
  <2>2. granted \in [Orgs -> Nat]
    BY <2>1 DEF Init
  <2> QED
    BY <2>2 DEF Init, WorldTyped, HistoryTyped
<1> QED
  BY <1>1, <1>2, <1>3 DEF TypeInv

\* A handler that ends is about nothing.
LEMMA EndTyped ==
    ASSUME LocalsTyped, NEW h \in Handlers, End(h)
    PROVE  LocalsTyped'
<1>1. \A g \in Handlers \ {h} : PlaceOK(g)'
  BY DEF LocalsTyped, PlacesOK, PlaceOK, End, Goto
<1>2. PlaceOK(h)'
  BY DEF LocalsTyped, PlaceOK, End, Goto, OrderSteps, Confirming
<1> QED
  BY <1>1, <1>2 DEF LocalsTyped, PlacesOK, End, Goto, Places

\* What a handler knows is written by its own steps.
OnlyWrites(h) ==
    /\ on' = [on EXCEPT ![h] = on'[h]] /\ on'[h] \in Orders \cup {Nothing}
    /\ told' = [told EXCEPT ![h] = told'[h]] /\ told'[h] \in Notices \cup {"none"}
    /\ org' = [org EXCEPT ![h] = org'[h]] /\ org'[h] \in Orgs \cup {Nothing}
    /\ saw' = [saw EXCEPT ![h] = saw'[h]] /\ saw'[h] \in Nat
    /\ takes' = [takes EXCEPT ![h] = takes'[h]] /\ takes'[h] \in Nat

\* A handler that moves on keeps what it knows, or learns it.
LEMMA GotoTyped ==
    ASSUME LocalsTyped, NEW h \in Handlers, NEW where \in Places, Goto(h, where),
           OnlyWrites(h),
           where \in OrderSteps => on'[h] \in Orders,
           told'[h] = "settled" => where \in OrderSteps,
           where = "pay" => on'[h] \in Charges,
           where \in {"tx", "provision"} => on'[h] \in Provisions,
           where = "provision" => org'[h] \in Businesses \cup {Nothing},
           where \in {"activate", "extend"} => org'[h] \in Orgs
    PROVE  LocalsTyped'
<1>1. \A g \in Handlers \ {h} : PlaceOK(g)'
  BY DEF LocalsTyped, PlacesOK, PlaceOK, Goto, OnlyWrites
<1>2. PlaceOK(h)'
  BY DEF LocalsTyped, PlaceOK, Goto, OnlyWrites
<1> QED
  BY <1>1, <1>2 DEF LocalsTyped, PlacesOK, Goto, OnlyWrites

LEMMA IdleKnows ==
    ASSUME LocalsTyped, NEW h \in Handlers, pc[h] = "idle"
    PROVE  told[h] # "settled"
BY DEF LocalsTyped, PlacesOK, PlaceOK, OrderSteps, Confirming

\* A local that isn't written keeps its value.
LEMMA Kept ==
    ASSUME LocalsTyped, NEW h \in Handlers
    PROVE  /\ on = [on EXCEPT ![h] = on[h]] /\ on[h] \in Orders \cup {Nothing}
           /\ told = [told EXCEPT ![h] = told[h]] /\ told[h] \in Notices \cup {"none"}
           /\ org = [org EXCEPT ![h] = org[h]] /\ org[h] \in Orgs \cup {Nothing}
           /\ saw = [saw EXCEPT ![h] = saw[h]] /\ saw[h] \in Nat
           /\ takes = [takes EXCEPT ![h] = takes[h]] /\ takes[h] \in Nat
BY DEF LocalsTyped

LEMMA RequestTypeInv ==
    ASSUME BillingAssumption, TypeInv, NEW h \in Handlers,
           \/ \E o \in Orders : AskGateway(h, o)
           \/ \E o \in Orders, n \in Notices : Deliver(h, o, n) \/ DeliverUnlocked(h, o, n)
           \/ \E x \in Supervised : BeginExtension(h, x)
           \/ \E n \in Limits : BeginLimit(h, n)
    PROVE  TypeInv'
<1> USE DEF TypeInv
<1>1. ASSUME NEW o \in Orders, AskGateway(h, o) PROVE TypeInv'
  <2>1. pc[h] = "idle" /\ Goto(h, "create") /\ on' = [on EXCEPT ![h] = o] /\ coupon.limit \in Nat
        /\ saw' = [saw EXCEPT ![h] = coupon.limit] /\ UNCHANGED <<told, org, takes>>
    BY <1>1 DEF AskGateway, Begin, RowsTyped
  <2>2. LocalsTyped'
    <3>1. OnlyWrites(h) /\ on'[h] = o
      BY <2>1, Kept DEF OnlyWrites, LocalsTyped
    <3> QED
      BY <2>1, <3>1, GotoTyped DEF Places, OrderSteps, Confirming
  <2> QED
    BY <1>1, <2>2 DEF AskGateway, rows, world, history, RowsTyped, WorldTyped, HistoryTyped
<1>2. ASSUME NEW o \in Orders, NEW n \in Notices, Deliver(h, o, n) \/ DeliverUnlocked(h, o, n)
      PROVE  TypeInv'
  <2>1. Goto(h, "read") /\ on' = [on EXCEPT ![h] = o] /\ told' = [told EXCEPT ![h] = n]
        /\ UNCHANGED <<org, saw, takes>>
    BY <1>2 DEF Deliver, DeliverUnlocked, Begin
  <2>2. LocalsTyped'
    <3>1. OnlyWrites(h) /\ on'[h] = o
      BY <2>1, Kept DEF OnlyWrites, LocalsTyped
    <3> QED
      BY <2>1, <3>1, GotoTyped DEF Places, OrderSteps, Confirming
  <2>3. keys' \subseteq Orders \X Notices
    BY <1>2 DEF Deliver, DeliverUnlocked, ReplayKey, WorldTyped
  <2> QED
    BY <1>2, <2>2, <2>3 DEF Deliver, DeliverUnlocked, rows, history, RowsTyped, WorldTyped, HistoryTyped
<1>3. ASSUME NEW x \in Supervised, BeginExtension(h, x) PROVE TypeInv'
  <2>1. x \in Orgs /\ subs[x].trialEnd + 1 \in Nat
    BY DEF BillingAssumption, RowsTyped, Subscriptions
  <2>2. pc[h] = "idle" /\ Goto(h, "extend") /\ on' = [on EXCEPT ![h] = Nothing]
        /\ org' = [org EXCEPT ![h] = x] /\ takes' = [takes EXCEPT ![h] = subs[x].trialEnd + 1]
        /\ UNCHANGED <<told, saw>>
    BY <1>3 DEF BeginExtension, Begin
  <2>3. LocalsTyped'
    <3>1. OnlyWrites(h) /\ told'[h] # "settled" /\ org'[h] = x
      BY <2>1, <2>2, Kept, IdleKnows DEF OnlyWrites, LocalsTyped
    <3> QED
      BY <2>1, <2>2, <3>1, GotoTyped DEF Places, OrderSteps, Confirming
  <2> QED
    BY <1>3, <2>3 DEF BeginExtension, rows, world, history, RowsTyped, WorldTyped, HistoryTyped
<1>4. ASSUME NEW n \in Limits, BeginLimit(h, n) PROVE TypeInv'
  <2>1. n \in Nat /\ coupon.redeemed \in Nat
    BY DEF BillingAssumption, RowsTyped
  <2>2. pc[h] = "idle" /\ Goto(h, "limit") /\ on' = [on EXCEPT ![h] = Nothing]
        /\ saw' = [saw EXCEPT ![h] = coupon.redeemed] /\ takes' = [takes EXCEPT ![h] = n]
        /\ UNCHANGED <<told, org>>
    BY <1>4 DEF BeginLimit, Begin
  <2>3. LocalsTyped'
    <3>1. OnlyWrites(h) /\ told'[h] # "settled"
      BY <2>1, <2>2, Kept, IdleKnows DEF OnlyWrites, LocalsTyped
    <3> QED
      BY <2>2, <3>1, GotoTyped DEF Places, OrderSteps, Confirming
  <2> QED
    BY <1>4, <2>3 DEF BeginLimit, rows, world, history, RowsTyped, WorldTyped, HistoryTyped
<1> QED
  BY <1>1, <1>2, <1>3, <1>4

LEMMA StepTypeInv ==
    ASSUME BillingAssumption, TypeInv, NEW h \in Handlers, Step(h) \/ Abort(h)
    PROVE  TypeInv'
<1> USE DEF TypeInv
<1>0. /\ pc[h] \in OrderSteps => on[h] \in Orders
      /\ pc[h] \in {"tx", "provision"} => on[h] \in Provisions
      /\ pc[h] = "pay" => on[h] \in Charges
      /\ pc[h] = "provision" => org[h] \in Businesses \cup {Nothing}
      /\ pc[h] \in {"activate", "extend"} => org[h] \in Orgs
  BY DEF LocalsTyped, PlacesOK, PlaceOK
<1>1. CASE CreateOrder(h)
  <2>1. LocalsTyped'
    BY <1>1, EndTyped DEF CreateOrder
  <2>2. status' \in [Orders -> {"none", "PENDING", "PAID"}]
    BY <1>1 DEF CreateOrder, RowsTyped
  <2>3. coupon' \in [limit : Nat, redeemed : Nat]
    BY <1>1 DEF CreateOrder, Redeem, RowsTyped
  <2> QED
    BY <1>1, <2>1, <2>2, <2>3 DEF CreateOrder, world, history, RowsTyped, WorldTyped, HistoryTyped
<1>2. CASE ReadOrder(h)
  <2>1. LocalsTyped'
    <3>1. CASE End(h)
      BY <3>1, EndTyped
    <3>2. CASE Goto(h, "verify") /\ UNCHANGED <<on, told, org, saw, takes>>
      <4>1. OnlyWrites(h) /\ on'[h] = on[h] /\ on[h] \in Orders
        BY <1>0, <1>2, <3>2, Kept DEF OnlyWrites, ReadOrder, OrderSteps
      <4> QED
        BY <3>2, <4>1, GotoTyped DEF Places, OrderSteps, Confirming
    <3> QED
      BY <1>2, <3>1, <3>2 DEF ReadOrder
  <2> QED
    BY <1>2, <2>1 DEF ReadOrder, rows, world, history, RowsTyped, WorldTyped, HistoryTyped
<1>3. CASE Verify(h)
  <2>1. LocalsTyped'
    <3>1. CASE End(h)
      BY <3>1, EndTyped
    <3>2. CASE /\ Goto(h, IF on[h] \in Charges THEN "pay" ELSE "tx")
               /\ \E t \in {settledAt[on[h]], clock} : takes' = [takes EXCEPT ![h] = t]
               /\ UNCHANGED <<on, told, org, saw>>
      <4>1. on[h] \in Orders
        BY <1>0, <1>3 DEF Verify, OrderSteps, Confirming
      <4>2. PICK t \in Nat : takes' = [takes EXCEPT ![h] = t]
        BY <3>2, <4>1 DEF WorldTyped
      <4>3. PICK where \in {"pay", "tx"} :
               /\ Goto(h, where)
               /\ where = "pay" => on[h] \in Charges
               /\ where = "tx" => on[h] \in Provisions
        BY <3>2, <4>1 DEF Orders
      <4> QED
        <5>1. OnlyWrites(h) /\ on'[h] = on[h]
          BY <3>2, <4>2, Kept DEF OnlyWrites, LocalsTyped
        <5> QED
          BY <4>1, <4>3, <5>1, GotoTyped DEF Places, OrderSteps, Confirming
    <3> QED
      BY <1>3, <3>1, <3>2 DEF Verify
  <2> QED
    BY <1>3, <2>1 DEF Verify, rows, world, history, RowsTyped, WorldTyped, HistoryTyped
<1>4. CASE PayCharge(h)
  <2>1. on[h] \in Orders /\ Home \in Orgs
    BY <1>0, <1>4 DEF PayCharge, OrderSteps, Confirming, Orgs
  <2>2. LocalsTyped'
    <3>1. OnlyWrites(h) /\ on'[h] = on[h] /\ org'[h] = Home
      BY <1>4, <2>1, Kept DEF PayCharge, OnlyWrites, LocalsTyped
    <3> QED
      BY <1>4, <2>1, <3>1, GotoTyped DEF PayCharge, Places, OrderSteps, Confirming
  <2> QED
    BY <1>4, <2>1, <2>2 DEF PayCharge, Pay, world, RowsTyped, WorldTyped, HistoryTyped
<1>5. CASE BeginProvision(h)
  <2>1. on[h] \in Provisions /\ on[h] \in Orders /\ link[on[h]] \in Businesses \cup {Nothing}
    BY <1>0, <1>5 DEF BeginProvision, RowsTyped, Orders
  <2>2. link[on[h]] \in Orgs \cup {Nothing}
    BY <2>1 DEF Orgs
  <2>3. LocalsTyped'
    <3>1. OnlyWrites(h) /\ on'[h] = on[h] /\ org'[h] = link[on[h]]
      BY <1>5, <2>2, Kept DEF BeginProvision, BusinessFound, OnlyWrites, LocalsTyped
    <3> QED
      BY <1>5, <2>1, <3>1, GotoTyped DEF BeginProvision, Places, OrderSteps, Confirming
  <2> QED
    BY <1>5, <2>3 DEF BeginProvision, rows, world, history, RowsTyped, WorldTyped, HistoryTyped
<1>6. CASE Provision(h)
  <2>1. /\ on[h] \in Provisions /\ on[h] \in Orders
        /\ org[h] \in Businesses \cup {Nothing}
        /\ <<on[h], h>> \in Businesses
    BY <1>0, <1>6 DEF Provision, Orders, Businesses
  <2>2. PICK b \in Businesses :
           /\ org' = [org EXCEPT ![h] = b]
           /\ link' = [link EXCEPT ![on[h]] = b]
           /\ created' \subseteq created \cup {b}
           /\ forked' \subseteq forked \cup {on[h]}
    <3>1. CASE org[h] = Nothing
      BY <1>6, <2>1, <3>1 DEF Provision
    <3>2. CASE org[h] # Nothing
      BY <1>6, <2>1, <3>2, Kept DEF Provision
    <3> QED
      BY <3>1, <3>2
  <2>3. LocalsTyped'
    <3>1. b \in Orgs
      BY DEF Orgs
    <3>2. OnlyWrites(h) /\ on'[h] = on[h] /\ org'[h] = b
      BY <1>6, <2>2, <3>1, Kept DEF Provision, OnlyWrites, LocalsTyped
    <3> QED
      BY <1>6, <2>1, <3>1, <3>2, GotoTyped DEF Provision, Places, OrderSteps, Confirming
  <2> QED
    BY <1>6, <2>1, <2>2, <2>3 DEF Provision, Pay, world, RowsTyped, WorldTyped, HistoryTyped
<1>7. CASE Activate(h)
  <2>1. on[h] \in Orders /\ org[h] \in Orgs /\ takes[h] \in Nat
    BY <1>0, <1>7, Kept DEF Activate, OrderSteps, Confirming
  <2>2. takes[h] + Days[on[h]] \in Nat /\ subs[org[h]] \in Subscriptions
    BY <2>1 DEF BillingAssumption, RowsTyped
  <2>3. PICK s \in Subscriptions : subs' = [subs EXCEPT ![org[h]] = s]
    <3>1. Sub("ACTIVE", IF on[h] \in Provisions THEN takes[h] ELSE subs[org[h]].trialEnd,
              TermEnd(on[h], takes[h])) \in Subscriptions
      BY <2>1, <2>2 DEF Subscriptions, Sub, TermEnd
    <3> QED
      BY <1>7, <3>1 DEF Activate
  <2>4. LocalsTyped'
    BY <1>7, EndTyped DEF Activate
  <2>5. paidFrom' \in [Orders -> Nat]
    BY <1>7, <2>1 DEF Activate, HistoryTyped
  <2> QED
    BY <1>7, <2>1, <2>3, <2>4, <2>5 DEF Activate, world, RowsTyped, WorldTyped, HistoryTyped
<1>8. CASE ExtendTrial(h)
  <2>1. org[h] \in Orgs /\ takes[h] \in Nat
    BY <1>0, <1>8, Kept DEF ExtendTrial
  <2>2. LocalsTyped'
    BY <1>8, EndTyped DEF ExtendTrial
  <2>3. subs' \in [Orgs -> Subscriptions]
    <3>1. Sub("TRIALING", takes[h], subs[org[h]].periodEnd) \in Subscriptions
      <4>1. subs[org[h]] \in Subscriptions
        BY <2>1 DEF RowsTyped
      <4> QED
        BY <2>1, <4>1 DEF Sub, Subscriptions
    <3> QED
      BY <1>8, <2>1, <3>1 DEF ExtendTrial, RowsTyped
  <2>4. granted' \in [Orgs -> Nat]
    BY <1>8, <2>1 DEF ExtendTrial, HistoryTyped, Later, BillingAssumption
  <2> QED
    BY <1>8, <2>2, <2>3, <2>4 DEF ExtendTrial, world, RowsTyped, WorldTyped, HistoryTyped
<1>9. CASE SetLimit(h)
  <2>1. LocalsTyped' /\ takes[h] \in Nat
    BY <1>9, EndTyped, Kept DEF SetLimit
  <2> QED
    BY <1>9, <2>1 DEF SetLimit, world, RowsTyped, WorldTyped, HistoryTyped
<1>10. CASE Abort(h)
  <2>1. LocalsTyped'
    BY <1>10, EndTyped DEF Abort
  <2>2. told[h] = "settled" \/ pc[h] = "activate" => on[h] \in Orders
    BY DEF LocalsTyped, PlacesOK, PlaceOK, OrderSteps, Confirming
  <2> QED
    BY <1>10, <2>1, <2>2 DEF Abort, rows, world, RowsTyped, WorldTyped, HistoryTyped
<1> QED
  BY <1>1, <1>2, <1>3, <1>4, <1>5, <1>6, <1>7, <1>8, <1>9, <1>10 DEF Step

LEMMA OperatorTypeInv ==
    ASSUME BillingAssumption, TypeInv, NEW x \in Supervised,
           MarkActive(x) \/ \E as \in {"PAST_DUE", "CANCELED"} : Lock(x, as)
    PROVE  TypeInv'
<1> USE DEF TypeInv
<1>1. x \in Orgs
  BY DEF BillingAssumption
<1>2. CASE MarkActive(x)
  <2>1. clock + OperatorDays \in Nat
    BY DEF BillingAssumption, WorldTyped
  <2>2. subs' \in [Orgs -> Subscriptions] /\ granted' \in [Orgs -> Nat]
    <3>1. Sub("ACTIVE", subs[x].trialEnd, clock + OperatorDays) \in Subscriptions
      <4>1. subs[x] \in Subscriptions
        BY <1>1 DEF RowsTyped
      <4> QED
        BY <2>1, <4>1 DEF Sub, Subscriptions
    <3> QED
      BY <1>1, <1>2, <2>1, <3>1 DEF MarkActive, RowsTyped, HistoryTyped, Later
  <2>3. LocalsTyped'
    BY <1>2 DEF MarkActive, locals, LocalsTyped, PlacesOK, PlaceOK
  <2> QED
    BY <1>2, <2>2, <2>3 DEF MarkActive, world, RowsTyped, WorldTyped, HistoryTyped
<1>3. ASSUME NEW as \in {"PAST_DUE", "CANCELED"}, Lock(x, as) PROVE TypeInv'
  <2>1. subs' \in [Orgs -> Subscriptions]
    <3>1. subs[x] \in Subscriptions
      BY <1>1 DEF RowsTyped
    <3>2. Sub(as, subs[x].trialEnd, subs[x].periodEnd) \in Subscriptions
      BY <3>1 DEF Sub, Subscriptions
    <3> QED
      BY <1>1, <1>3, <3>2 DEF Lock, RowsTyped
  <2> QED
    BY <1>3, <2>1 DEF Lock, world, locals, history, LocalsTyped, PlacesOK, PlaceOK, RowsTyped, WorldTyped, HistoryTyped
<1> QED
  BY <1>2, <1>3

LEMMA NextTypeInv ==
    ASSUME BillingAssumption, TypeInv, [Next]_vars
    PROVE  TypeInv'
<1>1. CASE Tick
  BY <1>1 DEF Tick, TypeInv, rows, locals, history, LocalsTyped, PlacesOK, PlaceOK, RowsTyped, WorldTyped, HistoryTyped
<1>2. ASSUME NEW o \in Orders, Settle(o) PROVE TypeInv'
  BY <1>2 DEF Settle, TypeInv, rows, locals, history, LocalsTyped, PlacesOK, PlaceOK, RowsTyped, WorldTyped, HistoryTyped
<1>3. CASE UNCHANGED vars
  BY <1>3 DEF vars, TypeInv, rows, world, locals, history, LocalsTyped, PlacesOK, PlaceOK, RowsTyped, WorldTyped, HistoryTyped
<1> QED
  BY <1>1, <1>2, <1>3, RequestTypeInv, StepTypeInv, OperatorTypeInv DEF Next

LEMMA TypeInvHolds == ASSUME BillingAssumption PROVE Spec => []TypeInv
<1>1. Init => TypeInv
  BY InitTypeInv
<1>2. TypeInv /\ [Next]_vars => TypeInv'
  BY NextTypeInv
<1> QED
  BY <1>1, <1>2, PTL DEF Spec

\* Every variable of Billing keeps its type, and a handler about to activate
\* or extend a subscription knows whose: createdOrgId is never missing there.
THEOREM BillingTypeCorrect == Spec => []TypeOK
<1>1. TypeInv => TypeOK
  BY DEF TypeInv, LocalsTyped, PlacesOK, PlaceOK, RowsTyped, WorldTyped, HistoryTyped, TypeOK
<1> QED
  BY <1>1, TypeInvHolds, BillingAssumption, PTL

-----------------------------------------------------------------------------
(* Rows of orders                                                           *)

\* A step of one handler, or a request that it begins.
HandlerStep(h) ==
    \/ Step(h) \/ Abort(h)
    \/ \E o \in Orders : AskGateway(h, o)
    \/ \E o \in Orders, n \in Notices : Deliver(h, o, n) \/ DeliverUnlocked(h, o, n)
    \/ \E x \in Supervised : BeginExtension(h, x)
    \/ \E n \in Limits : BeginLimit(h, n)

\* Any other step.
OtherStep ==
    \/ Tick
    \/ \E o \in Orders : Settle(o)
    \/ \E x \in Supervised : MarkActive(x)
    \/ \E x \in Supervised, as \in {"PAST_DUE", "CANCELED"} : Lock(x, as)

LEMMA NextSplit ==
    ASSUME [Next]_vars
    PROVE  (\E h \in Handlers : HandlerStep(h)) \/ OtherStep \/ UNCHANGED vars
BY Zenon DEF Next, HandlerStep, OtherStep

LEMMA OtherStepKeeps ==
    ASSUME OtherStep \/ UNCHANGED vars
    PROVE  /\ UNCHANGED <<created, status, link, coupon, locals, paidFrom, clashes, forked, overruled>>
           /\ clock' = clock \/ clock' = clock + 1
BY DEF OtherStep, Tick, Settle, MarkActive, Lock, vars, rows, world, history

\* A handler writes its own locals.
OthersSame(h) ==
    \A g \in Handlers \ {h} :
        /\ pc'[g] = pc[g] /\ on'[g] = on[g] /\ org'[g] = org[g]
        /\ saw'[g] = saw[g] /\ takes'[g] = takes[g]

LEMMA OthersKeep ==
    ASSUME TypeInv, NEW h \in Handlers, HandlerStep(h)
    PROVE  OthersSame(h)
<1> USE DEF OthersSame, TypeInv, LocalsTyped
<1>1. CASE End(h)
  BY <1>1 DEF End, Goto
<1>2. CASE ReadOrder(h) \/ Verify(h) \/ PayCharge(h) \/ BeginProvision(h)
  BY <1>2 DEF ReadOrder, Verify, PayCharge, BeginProvision, End, Goto
<1>3. CASE Provision(h)
  BY <1>3 DEF Provision, Goto
<1>4. ASSUME NEW o \in Orders, AskGateway(h, o) PROVE OthersSame(h)
  BY <1>4 DEF AskGateway, Begin, Goto
<1>5. ASSUME NEW o \in Orders, NEW n \in Notices, Deliver(h, o, n) \/ DeliverUnlocked(h, o, n)
      PROVE  OthersSame(h)
  BY <1>5 DEF Deliver, DeliverUnlocked, Begin, Goto
<1>6. ASSUME NEW x \in Supervised, BeginExtension(h, x) PROVE OthersSame(h)
  BY <1>6 DEF BeginExtension, Begin, Goto
<1>7. ASSUME NEW n \in Limits, BeginLimit(h, n) PROVE OthersSame(h)
  BY <1>7 DEF BeginLimit, Begin, Goto
<1>8. CreateOrder(h) \/ Activate(h) \/ ExtendTrial(h) \/ SetLimit(h) \/ Abort(h) => End(h)
  BY DEF CreateOrder, Activate, ExtendTrial, SetLimit, Abort
<1> QED
  BY <1>1, <1>2, <1>3, <1>4, <1>5, <1>6, <1>7, <1>8 DEF HandlerStep, Step

\* Where a step takes its handler, and what it does to the order's row.
LEMMA Moves ==
    ASSUME TypeInv, NEW h \in Handlers, HandlerStep(h)
    PROVE  \/ /\ pc'[h] \in {"idle", "read", "extend", "limit"}
              /\ UNCHANGED status \/ CreateOrder(h)
           \/ /\ pc'[h] = "create" /\ UNCHANGED status /\ Fresh(on'[h]) /\ on'[h] \in Orders
           \/ /\ pc'[h] = "verify" /\ pc[h] = "read" /\ on'[h] = on[h]
              /\ status[on[h]] # "none" /\ ~Done(on[h])
              /\ UNCHANGED status
           \/ /\ pc[h] \in Confirming /\ pc'[h] \in Confirming /\ on'[h] = on[h]
              /\ UNCHANGED status
              /\ <<pc[h], pc'[h]>> \in {<<"verify", "pay">>, <<"verify", "tx">>, <<"tx", "provision">>}
           \/ /\ pc[h] \in {"pay", "provision"} /\ pc'[h] = "activate" /\ on'[h] = on[h]
              /\ Pay(h)
<1> USE DEF TypeInv, LocalsTyped
<1>1. CASE ReadOrder(h)
  BY <1>1 DEF ReadOrder, End, Goto, rows
<1>2. CASE Verify(h)
  <2>1. CASE End(h)
    BY <1>2, <2>1 DEF Verify, End, Goto, rows
  <2>2. CASE Goto(h, IF on[h] \in Charges THEN "pay" ELSE "tx") /\ UNCHANGED on
    <3>1. pc'[h] \in {"pay", "tx"} /\ pc[h] = "verify" /\ on'[h] = on[h] /\ UNCHANGED status
      BY <1>2, <2>2 DEF Verify, Goto, rows
    <3> QED
      BY <3>1 DEF Confirming
  <2> QED
    BY <1>2, <2>1, <2>2 DEF Verify
<1>3. CASE PayCharge(h)
  BY <1>3 DEF PayCharge, Goto
<1>4. CASE BeginProvision(h)
  <2>1. pc'[h] = "provision" /\ pc[h] = "tx" /\ on'[h] = on[h] /\ UNCHANGED status
    BY <1>4 DEF BeginProvision, Goto, rows
  <2> QED
    BY <2>1 DEF Confirming
<1>5. CASE Provision(h)
  BY <1>5 DEF Provision, Goto
<1>6. ASSUME NEW o \in Orders, AskGateway(h, o)
      PROVE  pc'[h] = "create" /\ UNCHANGED status /\ Fresh(on'[h]) /\ on'[h] \in Orders
  BY <1>6 DEF AskGateway, Begin, Goto, rows
<1>7. ASSUME NEW o \in Orders, NEW n \in Notices, Deliver(h, o, n) \/ DeliverUnlocked(h, o, n)
      PROVE  pc'[h] = "read" /\ UNCHANGED status
  BY <1>7 DEF Deliver, DeliverUnlocked, Begin, Goto, rows
<1>8. ASSUME NEW x \in Supervised, BeginExtension(h, x) PROVE pc'[h] = "extend" /\ UNCHANGED status
  BY <1>8 DEF BeginExtension, Begin, Goto, rows
<1>9. ASSUME NEW n \in Limits, BeginLimit(h, n) PROVE pc'[h] = "limit" /\ UNCHANGED status
  BY <1>9 DEF BeginLimit, Begin, Goto, rows
<1>10. CASE CreateOrder(h)
  BY <1>10 DEF CreateOrder, End, Goto
<1>11. CASE Activate(h) \/ ExtendTrial(h) \/ SetLimit(h) \/ Abort(h)
  BY <1>11 DEF Activate, ExtendTrial, SetLimit, Abort, End, Goto, rows
<1> QED
  BY <1>1, <1>2, <1>3, <1>4, <1>5, <1>6, <1>7, <1>8, <1>9, <1>10, <1>11 DEF HandlerStep, Step

\* An order in checkout has no row and one handler; one that a webhook
\* confirms has a row.
OrderInv ==
    /\ \A h \in Handlers :
          /\ pc[h] = "create" => status[on[h]] = "none"
          /\ pc[h] \in Confirming => status[on[h]] # "none"
    /\ \A g, h \in Handlers :
          pc[g] = "create" /\ pc[h] = "create" /\ on[g] = on[h] => g = h

LEMMA OrderInvStep ==
    ASSUME TypeInv, OrderInv, NEW h \in Handlers, HandlerStep(h)
    PROVE  OrderInv'
<1>1. OthersSame(h)
  BY OthersKeep
<1>2. \A g \in Handlers : pc[g] \in OrderSteps => on[g] \in Orders
  BY DEF TypeInv, LocalsTyped, PlacesOK, PlaceOK
<1>3. status \in [Orders -> {"none", "PENDING", "PAID"}]
  BY DEF TypeInv, RowsTyped
<1>4. CASE pc'[h] \in {"idle", "read", "extend", "limit"} /\ UNCHANGED status
  BY <1>1, <1>4 DEF OrderInv, OthersSame, Confirming
<1>5. CASE pc'[h] \in {"idle", "read", "extend", "limit"} /\ CreateOrder(h)
  <2>1. /\ pc[h] = "create" /\ on[h] \in Orders
        /\ status' = status \/ status' = [status EXCEPT ![on[h]] = "PENDING"]
    BY <1>2, <1>5 DEF CreateOrder, OrderSteps
  <2>2. \A g \in Handlers \ {h} : pc[g] = "create" => on[g] # on[h]
    BY <2>1 DEF OrderInv
  <2> QED
    BY <1>1, <1>2, <1>3, <1>5, <2>1, <2>2 DEF OrderInv, OthersSame, Confirming, OrderSteps
<1>6. CASE pc'[h] = "create" /\ UNCHANGED status /\ Fresh(on'[h]) /\ on'[h] \in Orders
  BY <1>1, <1>6 DEF OrderInv, OthersSame, Confirming, Fresh
<1>7. CASE /\ pc'[h] = "verify" /\ on'[h] = on[h]
           /\ status[on[h]] # "none" /\ UNCHANGED status
  BY <1>1, <1>7 DEF OrderInv, OthersSame, Confirming
<1>8. CASE /\ pc[h] \in Confirming /\ pc'[h] \in Confirming /\ on'[h] = on[h]
           /\ UNCHANGED status
  BY <1>1, <1>8 DEF OrderInv, OthersSame, Confirming
<1>9. CASE /\ pc[h] \in {"pay", "provision"} /\ pc'[h] = "activate" /\ on'[h] = on[h]
           /\ Pay(h)
  <2>1. on[h] \in Orders /\ status[on[h]] # "none" /\ status' = [status EXCEPT ![on[h]] = "PAID"]
    BY <1>2, <1>9 DEF OrderInv, Confirming, OrderSteps, Pay
  <2>2. \A g \in Handlers : pc[g] = "create" => on[g] # on[h]
    BY <2>1 DEF OrderInv
  <2> QED
    BY <1>1, <1>2, <1>3, <1>9, <2>1, <2>2 DEF OrderInv, OthersSame, Confirming, OrderSteps
<1> QED
  BY <1>4, <1>5, <1>6, <1>7, <1>8, <1>9, Moves

LEMMA OrderInvHolds == ASSUME BillingAssumption PROVE Spec => [](TypeInv /\ OrderInv)
<1>1. Init => TypeInv /\ OrderInv
  BY InitTypeInv DEF Init, OrderInv, Confirming
<1>2. TypeInv /\ OrderInv /\ [Next]_vars => (TypeInv /\ OrderInv)'
  <2> SUFFICES ASSUME TypeInv, OrderInv, [Next]_vars PROVE OrderInv'
    BY NextTypeInv
  <2>1. CASE OtherStep \/ UNCHANGED vars
    BY <2>1, OtherStepKeeps DEF OrderInv, locals
  <2> QED
    BY <2>1, NextSplit, OrderInvStep
<1> QED
  BY <1>1, <1>2, PTL DEF Spec

-----------------------------------------------------------------------------
(* The coupon                                                               *)

CouponInv ==
    /\ CouponWithinLimit
    /\ \A h \in Handlers :
          /\ pc[h] = "create" => saw[h] = coupon.limit \/ overruled
          /\ pc[h] = "limit" => saw[h] <= takes[h]

\* Only these steps of a handler touch the coupon or the orders' count.
LEMMA CouponSteps ==
    ASSUME TypeInv, OrderInv, NEW h \in Handlers, HandlerStep(h)
    PROVE  \/ CreateOrder(h)
           \/ SetLimit(h)
           \/ /\ UNCHANGED <<coupon, overruled>>
              /\ Redeemers' = Redeemers
              /\ pc'[h] = "create" => saw'[h] = coupon.limit
              /\ pc'[h] = "limit" => saw'[h] <= takes'[h]
<1> DEFINE Quiet == /\ UNCHANGED <<coupon, overruled>>
                    /\ Redeemers' = Redeemers
                    /\ pc'[h] = "create" => saw'[h] = coupon.limit
                    /\ pc'[h] = "limit" => saw'[h] <= takes'[h]
<1>1. ASSUME NEW o \in Orders, AskGateway(h, o) PROVE Quiet
  BY <1>1 DEF AskGateway, Begin, Goto, rows, history, Redeemers, TypeInv, LocalsTyped
<1>2. ASSUME NEW o \in Orders, NEW n \in Notices, Deliver(h, o, n) \/ DeliverUnlocked(h, o, n)
      PROVE  Quiet
  BY <1>2 DEF Deliver, DeliverUnlocked, Begin, Goto, rows, history, Redeemers, TypeInv, LocalsTyped
<1>3. ASSUME NEW x \in Supervised, BeginExtension(h, x) PROVE Quiet
  BY <1>3 DEF BeginExtension, Begin, Goto, rows, history, Redeemers, TypeInv, LocalsTyped
<1>4. ASSUME NEW n \in Limits, BeginLimit(h, n) PROVE Quiet
  BY <1>4 DEF BeginLimit, Begin, Goto, rows, history, Redeemers, TypeInv, LocalsTyped,
              RowsTyped, BillingAssumption
<1>5. CASE ReadOrder(h) \/ Verify(h) \/ BeginProvision(h)
  BY <1>5 DEF ReadOrder, Verify, BeginProvision, End, Goto, rows, history, Redeemers,
              TypeInv, LocalsTyped
<1>6. CASE PayCharge(h) \/ Provision(h)
  <2>1. /\ UNCHANGED <<coupon, overruled>> /\ Pay(h) /\ pc'[h] = "activate"
        /\ pc[h] \in Confirming
    BY <1>6 DEF PayCharge, Provision, Goto, Confirming, TypeInv, LocalsTyped
  <2>2. status[on[h]] # "none" /\ on[h] \in Orders
    BY <2>1 DEF OrderInv, TypeInv, LocalsTyped, PlacesOK, PlaceOK, OrderSteps
  <2>3. \A o \in Orders : status'[o] # "none" <=> status[o] # "none"
    BY <2>1, <2>2 DEF Pay, TypeInv, RowsTyped
  <2>4. Redeemers' = Redeemers
    BY <2>3, BillingAssumption DEF Redeemers, BillingAssumption
  <2> QED
    BY <2>1, <2>4, BillingAssumption
<1>7. CASE Activate(h) \/ ExtendTrial(h) \/ Abort(h)
  BY <1>7 DEF Activate, ExtendTrial, Abort, End, Goto, rows, Redeemers, TypeInv, LocalsTyped
<1> QED
  BY <1>1, <1>2, <1>3, <1>4, <1>5, <1>6, <1>7 DEF HandlerStep, Step

LEMMA CouponInvStep ==
    ASSUME BillingAssumption, TypeInv, OrderInv, CouponInv, NEW h \in Handlers, HandlerStep(h)
    PROVE  CouponInv'
<1>1. OthersSame(h)
  BY OthersKeep
<1>2. coupon.limit \in Nat /\ coupon.redeemed \in Nat /\ saw[h] \in Nat /\ takes[h] \in Nat
  BY DEF TypeInv, RowsTyped, LocalsTyped
<1>3. CASE CreateOrder(h)
  <2>1. /\ UNCHANGED overruled /\ pc'[h] = "idle" /\ pc[h] = "create" /\ coupon' = Redeem(h)
        /\ on[h] \in Orders /\ status[on[h]] = "none"
    BY <1>3 DEF CreateOrder, End, Goto, history, TypeInv, LocalsTyped, PlacesOK, PlaceOK,
                OrderSteps, OrderInv
  <2>2. coupon'.limit = coupon.limit
    BY <2>1 DEF Redeem, TypeInv, RowsTyped
  <2>3. \A g \in Handlers :
           /\ pc'[g] = "create" => saw'[g] = coupon'.limit \/ overruled'
           /\ pc'[g] = "limit" => saw'[g] <= takes'[g]
    BY <1>1, <2>1, <2>2 DEF CouponInv, OthersSame
  <2>4. CASE on[h] \in Discounted /\ coupon.redeemed < saw[h]
    <3>1. coupon'.redeemed = coupon.redeemed + 1
      BY <2>1, <2>4 DEF Redeem, TypeInv, RowsTyped
    <3>2. coupon' # coupon
      BY <1>2, <3>1
    <3>3. status' = [status EXCEPT ![on[h]] = "PENDING"]
      BY <1>3, <3>2 DEF CreateOrder
    <3>4. Redeemers' = Redeemers \cup {on[h]} /\ on[h] \notin Redeemers
      BY <2>1, <2>4, <3>3 DEF Redeemers, TypeInv, RowsTyped, BillingAssumption
    <3>5. IsFiniteSet(Redeemers)
      BY FS_Subset DEF Redeemers, BillingAssumption
    <3>6. Cardinality(Redeemers') = Cardinality(Redeemers) + 1
      BY <3>4, <3>5, FS_AddElement
    <3>7. coupon'.redeemed <= coupon'.limit \/ overruled'
      BY <1>2, <2>1, <2>2, <2>4, <3>1 DEF CouponInv
    <3> QED
      BY <2>3, <3>1, <3>6, <3>7 DEF CouponInv, CouponWithinLimit
  <2>5. CASE ~(on[h] \in Discounted /\ coupon.redeemed < saw[h])
    <3>1. coupon' = coupon
      BY <2>1, <2>5 DEF Redeem
    <3>2. Redeemers' = Redeemers
      <4>1. CASE on[h] \in Discounted
        BY <1>3, <3>1, <4>1 DEF CreateOrder, Redeemers
      <4>2. CASE on[h] \notin Discounted
        BY <1>3, <4>2 DEF CreateOrder, Redeemers, BillingAssumption, TypeInv, RowsTyped
      <4> QED
        BY <4>1, <4>2
    <3> QED
      BY <2>1, <2>3, <3>1, <3>2 DEF CouponInv, CouponWithinLimit
  <2> QED
    BY <2>4, <2>5
<1>4. CASE SetLimit(h)
  <2>1. /\ coupon'.limit = takes[h] /\ coupon'.redeemed = coupon.redeemed
        /\ Redeemers' = Redeemers /\ pc'[h] = "idle" /\ pc[h] = "limit"
    BY <1>4 DEF SetLimit, End, Goto, Redeemers, TypeInv, LocalsTyped, RowsTyped
  <2>2. /\ overruled => overruled'
        /\ coupon.redeemed # saw[h] => overruled'
        /\ \A g \in Handlers : pc[g] = "create" => overruled'
    BY <1>4 DEF SetLimit
  <2>3. saw[h] <= takes[h]
    BY <2>1 DEF CouponInv
  <2>4. coupon'.redeemed <= coupon'.limit \/ overruled'
    BY <1>2, <2>1, <2>2, <2>3
  <2>5. \A g \in Handlers :
           /\ pc'[g] = "create" => overruled'
           /\ pc'[g] = "limit" => saw'[g] <= takes'[g]
    BY <1>1, <2>1, <2>2 DEF CouponInv, OthersSame
  <2> QED
    BY <2>1, <2>4, <2>5 DEF CouponInv, CouponWithinLimit
<1>5. CASE /\ UNCHANGED <<coupon, overruled>>
           /\ Redeemers' = Redeemers
           /\ pc'[h] = "create" => saw'[h] = coupon.limit
           /\ pc'[h] = "limit" => saw'[h] <= takes'[h]
  BY <1>1, <1>5 DEF CouponInv, CouponWithinLimit, OthersSame
<1> QED
  BY <1>3, <1>4, <1>5, CouponSteps

\* The coupon's count is the number of orders that name it, and within its
\* limit unless an operator's edit overlapped a checkout or another edit:
\* the conditional update of reserveCouponRedemption is enough for any number
\* of checkouts at once.
THEOREM CouponCounts == Spec => []CouponWithinLimit
<1>1. ASSUME Init PROVE CouponInv
  <2>1. Redeemers = {}
    BY <1>1, BillingAssumption DEF Init, Redeemers, BillingAssumption
  <2>2. coupon.redeemed = 0 /\ coupon.limit \in Nat
    BY <1>1, BillingAssumption DEF Init, BillingAssumption
  <2> QED
    BY <1>1, <2>1, <2>2, FS_EmptySet DEF Init, CouponInv, CouponWithinLimit
<1>2. ASSUME TypeInv, OrderInv, CouponInv, [Next]_vars PROVE CouponInv'
  <2>1. CASE OtherStep \/ UNCHANGED vars
    BY <1>2, <2>1, OtherStepKeeps DEF CouponInv, CouponWithinLimit, Redeemers, locals
  <2> QED
    BY <1>2, <2>1, NextSplit, CouponInvStep, BillingAssumption
<1>3. CouponInv => CouponWithinLimit
  BY DEF CouponInv
<1> QED
  BY <1>1, <1>2, <1>3, OrderInvHolds, BillingAssumption, PTL DEF Spec

-----------------------------------------------------------------------------
(* Businesses                                                               *)

\* What is known of a provisioning order's business ...
BusinessKnown(o) ==
    /\ status[o] = "PAID" <=> link[o] # Nothing
    /\ link[o] # Nothing => link[o] \in created /\ link[o][1] = o
    /\ o \notin forked => \A x \in created : x[1] = o => x = link[o]

\* ... and what a transaction that has read the order goes by.
SnapshotOK(h) ==
    pc[h] = "provision" =>
        /\ org[h] = Nothing => on[h] \in forked \/ link[on[h]] = Nothing
        /\ org[h] # Nothing => org[h] \in created /\ org[h][1] = on[h]

BusinessInv ==
    /\ \A o \in Provisions : BusinessKnown(o)
    /\ \A h \in Handlers : SnapshotOK(h)

\* Only these steps write what BusinessInv is about.
LEMMA BusinessSteps ==
    ASSUME TypeInv, NEW h \in Handlers, HandlerStep(h)
    PROVE  \/ CreateOrder(h) \/ PayCharge(h) \/ BeginProvision(h) \/ Provision(h)
           \/ UNCHANGED <<created, status, link, forked>> /\ pc'[h] # "provision"
<1> USE DEF TypeInv, LocalsTyped
<1> DEFINE Quiet == UNCHANGED <<created, status, link, forked>> /\ pc'[h] # "provision"
<1>1. ASSUME NEW o \in Orders, AskGateway(h, o) PROVE Quiet
  BY <1>1 DEF AskGateway, Begin, Goto, rows, history
<1>2. ASSUME NEW o \in Orders, NEW n \in Notices, Deliver(h, o, n) \/ DeliverUnlocked(h, o, n)
      PROVE  Quiet
  BY <1>2 DEF Deliver, DeliverUnlocked, Begin, Goto, rows, history
<1>3. ASSUME NEW x \in Supervised, BeginExtension(h, x) PROVE Quiet
  BY <1>3 DEF BeginExtension, Begin, Goto, rows, history
<1>4. ASSUME NEW n \in Limits, BeginLimit(h, n) PROVE Quiet
  BY <1>4 DEF BeginLimit, Begin, Goto, rows, history
<1>5. CASE ReadOrder(h)
  BY <1>5 DEF ReadOrder, End, Goto, rows, history
<1>6. CASE Verify(h)
  <2>1. pc'[h] \in {"idle", "pay", "tx"}
    BY <1>6 DEF Verify, End, Goto
  <2> QED
    BY <1>6, <2>1 DEF Verify, rows, history
<1>7. CASE Activate(h) \/ ExtendTrial(h) \/ SetLimit(h) \/ Abort(h)
  BY <1>7 DEF Activate, ExtendTrial, SetLimit, Abort, End, Goto, rows
<1> QED
  BY <1>1, <1>2, <1>3, <1>4, <1>5, <1>6, <1>7 DEF HandlerStep, Step

LEMMA BusinessInvStep ==
    ASSUME BillingAssumption, TypeInv, OrderInv, BusinessInv, NEW h \in Handlers, HandlerStep(h)
    PROVE  BusinessInv'
<1>1. OthersSame(h)
  BY OthersKeep
<1>2. /\ status \in [Orders -> {"none", "PENDING", "PAID"}]
      /\ link \in [Provisions -> Businesses \cup {Nothing}]
      /\ created \subseteq Businesses
      /\ Provisions \subseteq Orders
      /\ Nothing \notin Businesses
  BY DEF TypeInv, RowsTyped, Orders, BillingAssumption, Orgs
<1>3. CASE CreateOrder(h)
  <2>1. /\ pc[h] = "create" /\ status[on[h]] = "none" /\ on[h] \in Orders
        /\ status' = status \/ status' = [status EXCEPT ![on[h]] = "PENDING"]
        /\ UNCHANGED <<created, link, forked>> /\ pc'[h] = "idle"
    BY <1>3 DEF CreateOrder, End, Goto, history, OrderInv, TypeInv, LocalsTyped, PlacesOK,
                PlaceOK, OrderSteps
  <2>2. \A o \in Provisions : status'[o] = "PAID" <=> status[o] = "PAID"
    BY <1>2, <2>1
  <2> QED
    BY <1>1, <2>1, <2>2 DEF BusinessInv, BusinessKnown, SnapshotOK, OthersSame
<1>4. CASE PayCharge(h)
  <2>1. /\ on[h] \in Charges /\ status' = [status EXCEPT ![on[h]] = "PAID"]
        /\ UNCHANGED <<created, link, forked>> /\ pc'[h] = "activate"
    BY <1>4 DEF PayCharge, Pay, Goto, TypeInv, LocalsTyped, PlacesOK, PlaceOK
  <2>2. \A o \in Provisions : status'[o] = status[o]
    BY <1>2, <2>1 DEF BillingAssumption, Orders
  <2> QED
    BY <1>1, <2>1, <2>2 DEF BusinessInv, BusinessKnown, SnapshotOK, OthersSame
<1>5. CASE BeginProvision(h)
  <2>1. /\ on[h] \in Provisions /\ on'[h] = on[h] /\ org'[h] = link[on[h]]
        /\ UNCHANGED <<created, status, link, forked>>
    BY <1>5 DEF BeginProvision, BusinessFound, rows, history, TypeInv, LocalsTyped,
                PlacesOK, PlaceOK
  <2> QED
    BY <1>1, <2>1 DEF BusinessInv, BusinessKnown, SnapshotOK, OthersSame
<1>6. CASE Provision(h)
  <2>1. /\ on[h] \in Provisions /\ org[h] \in Businesses \cup {Nothing}
        /\ status' = [status EXCEPT ![on[h]] = "PAID"]
        /\ pc[h] = "provision" /\ pc'[h] = "activate" /\ on' = on
    BY <1>6 DEF Provision, Pay, Goto, TypeInv, LocalsTyped, PlacesOK, PlaceOK
  <2>2. PICK b \in Businesses :
           /\ b[1] = on[h]
           /\ link' = [link EXCEPT ![on[h]] = b]
           /\ created' = created \cup {b}
           /\ forked \subseteq forked'
           /\ org[h] # Nothing => b = org[h]
           /\ org[h] = Nothing =>
                 \A g \in Handlers \ {h} :
                    pc[g] = "provision" /\ on[g] = on[h] /\ org[g] = Nothing => on[h] \in forked'
    <3>1. CASE org[h] = Nothing
      <4>1. <<on[h], h>> \in Businesses
        BY <2>1 DEF Businesses
      <4> QED
        BY <1>6, <3>1, <4>1 DEF Provision
    <3>2. CASE org[h] # Nothing
      <4>1. org[h] \in created /\ org[h][1] = on[h]
        BY <2>1, <3>2 DEF BusinessInv, SnapshotOK
      <4> QED
        BY <1>6, <2>1, <3>2, <4>1 DEF Provision
    <3> QED
      BY <3>1, <3>2
  <2>3. ASSUME NEW o \in Provisions PROVE BusinessKnown(o)'
    <3>1. BusinessKnown(o)
      BY DEF BusinessInv
    <3>2. CASE o # on[h]
      <4>1. status'[o] = status[o] /\ link'[o] = link[o]
        BY <1>2, <2>1, <2>2, <3>2
      <4> QED
        BY <2>2, <3>1, <3>2, <4>1 DEF BusinessKnown
    <3>3. CASE o = on[h]
      <4>1. status'[o] = "PAID" /\ link'[o] = b /\ b # Nothing
        BY <1>2, <2>1, <2>2, <3>3
      <4>2. ASSUME o \notin forked', NEW x \in created, x[1] = o PROVE x = b
        <5>1. x = link[o] /\ x # Nothing
          BY <1>2, <2>2, <3>1, <4>2 DEF BusinessKnown
        <5>2. org[h] # Nothing
          BY <2>1, <2>2, <3>3, <4>2, <5>1 DEF BusinessInv, SnapshotOK
        <5>3. org[h] \in created /\ org[h][1] = o
          BY <2>1, <3>3, <5>2 DEF BusinessInv, SnapshotOK
        <5> QED
          BY <2>2, <3>1, <4>2, <5>1, <5>2, <5>3 DEF BusinessKnown
      <4> QED
        BY <2>2, <3>3, <4>1, <4>2 DEF BusinessKnown
    <3> QED
      BY <3>2, <3>3
  <2>4. ASSUME NEW g \in Handlers PROVE SnapshotOK(g)'
    <3>1. CASE g = h
      BY <2>1, <3>1 DEF SnapshotOK
    <3>2. CASE g # h
      <4>1. SnapshotOK(g) /\ pc'[g] = pc[g] /\ on'[g] = on[g] /\ org'[g] = org[g]
        BY <1>1, <3>2 DEF BusinessInv, OthersSame
      <4>2. ASSUME pc[g] = "provision", org[g] = Nothing
            PROVE  on[g] \in forked' \/ link'[on[g]] = Nothing
        <5>1. on[g] \in Provisions
          BY <4>2 DEF TypeInv, LocalsTyped, PlacesOK, PlaceOK
        <5>2. on[g] \in forked \/ link[on[g]] = Nothing
          BY <4>1, <4>2 DEF SnapshotOK
        <5>3. CASE on[g] # on[h]
          BY <1>2, <2>2, <5>1, <5>2, <5>3
        <5>4. CASE on[g] = on[h] /\ org[h] = Nothing
          BY <2>2, <3>2, <4>2, <5>4
        <5>5. CASE on[g] = on[h] /\ org[h] # Nothing
          <6>1. org[h] \in created /\ org[h][1] = on[h]
            BY <2>1, <5>5 DEF BusinessInv, SnapshotOK
          <6>2. on[h] \in forked \/ link[on[h]] = org[h]
            BY <2>1, <6>1 DEF BusinessInv, BusinessKnown
          <6> QED
            BY <2>2, <5>2, <5>5, <6>2
        <5> QED
          BY <5>3, <5>4, <5>5
      <4> QED
        BY <2>2, <4>1, <4>2 DEF SnapshotOK
    <3> QED
      BY <3>1, <3>2
  <2> QED
    BY <2>3, <2>4 DEF BusinessInv
<1>7. CASE UNCHANGED <<created, status, link, forked>> /\ pc'[h] # "provision"
  BY <1>1, <1>7 DEF BusinessInv, BusinessKnown, SnapshotOK, OthersSame
<1> QED
  BY <1>3, <1>4, <1>5, <1>6, <1>7, BusinessSteps

BusinessIInv == TypeInv /\ OrderInv /\ BusinessInv

LEMMA BusinessInvHolds == ASSUME BillingAssumption PROVE Spec => []BusinessIInv
<1>1. ASSUME Init PROVE BusinessInv
  BY <1>1 DEF Init, BusinessInv, BusinessKnown, SnapshotOK, Orders
<1>2. ASSUME TypeInv, OrderInv, BusinessInv, [Next]_vars PROVE BusinessInv'
  <2>1. CASE OtherStep \/ UNCHANGED vars
    BY <1>2, <2>1, OtherStepKeeps DEF BusinessInv, BusinessKnown, SnapshotOK, locals
  <2> QED
    BY <1>2, <2>1, NextSplit, BusinessInvStep
<1>3. BusinessIInv <=> TypeInv /\ OrderInv /\ BusinessInv
  BY DEF BusinessIInv
<1> QED
  BY <1>1, <1>2, <1>3, OrderInvHolds, PTL DEF Spec

\* A provisioning order is paid exactly when it has its business, and has only
\* one unless two transactions overlapped: completeBusinessProvisioningOrder's
\* second look at createdOrgId is enough against repeats one after the other.
THEOREM OneBusiness == Spec => []OneBusinessPerOrder
<1>1. BusinessIInv => OneBusinessPerOrder
  BY DEF BusinessIInv, BusinessInv, BusinessKnown, OneBusinessPerOrder
<1> QED
  BY <1>1, BusinessInvHolds, BillingAssumption, PTL

-----------------------------------------------------------------------------
(* Access                                                                   *)

\* The subscription of an organization gives what it was granted or paid for.
Covered(x) ==
    /\ subs[x].status = "ACTIVE" =>
          \/ subs[x].periodEnd <= granted[x]
          \/ \E o \in OrdersOf(x) :
                /\ paidFrom[o] # 0
                /\ subs[x].periodEnd <= paidFrom[o] + Days[o] \/ o \in clashes
    /\ subs[x].status = "TRIALING" => subs[x].trialEnd + Grace <= granted[x]

\* Two webhooks confirm an order at once only if they clash.
ConfirmOK(h) ==
    /\ pc[h] \in {"verify", "pay", "tx", "provision"} /\ status[on[h]] = "PAID" => on[h] \in clashes
    /\ pc[h] = "activate" =>
          /\ status[on[h]] = "PAID" /\ on[h] \in OrdersOf(org[h])
          /\ paidFrom[on[h]] # 0 => on[h] \in clashes
    /\ pc[h] \in Confirming \ {"verify"} => takes[h] # 0

AccessInv ==
    /\ clock # 0
    /\ \A h \in Handlers : ConfirmOK(h)
    /\ \A g, h \in Handlers :
          pc[g] = "activate" /\ pc[h] = "activate" /\ on[g] = on[h] => g = h \/ on[h] \in clashes
    /\ \A o \in Orders : paidFrom[o] # 0 => status[o] = "PAID"
    /\ \A x \in Orgs : Covered(x)

\* What access depends on, but for the clock, the handlers and the clashes.
AccessRows == <<subs, paidFrom, granted>>

\* Where a webhook that goes on takes its handler.
LEMMA AccessSteps ==
    ASSUME TypeInv, OrderInv, BusinessInv, AccessInv, NEW h \in Handlers, HandlerStep(h)
    PROVE  \/ Activate(h) \/ ExtendTrial(h) \/ CreateOrder(h)
           \/ /\ UNCHANGED <<AccessRows, clock, status, clashes>>
              /\ pc'[h] \notin Confirming
           \/ /\ UNCHANGED <<AccessRows, clock, status, clashes>>
              /\ pc'[h] = "verify" /\ on'[h] = on[h] /\ status[on[h]] # "PAID"
           \/ /\ UNCHANGED <<AccessRows, clock, status, clashes>>
              /\ pc'[h] \in {"pay", "tx", "provision"} /\ on'[h] = on[h] /\ takes'[h] # 0
              /\ pc[h] \in {"verify", "tx"}
           \/ /\ UNCHANGED <<AccessRows, clock>>
              /\ Pay(h) /\ pc'[h] = "activate" /\ on'[h] = on[h] /\ takes'[h] = takes[h]
              /\ pc[h] \in {"pay", "provision"}
              /\ on[h] \in OrdersOf(org'[h])
<1> USE DEF TypeInv, LocalsTyped, AccessRows
<1>a. UNCHANGED rows => UNCHANGED <<subs, status>>
  BY DEF rows
<1>b. UNCHANGED world => UNCHANGED clock
  BY DEF world
<1>c. UNCHANGED history => UNCHANGED <<paidFrom, granted, clashes>>
  BY DEF history
<1> DEFINE Still == UNCHANGED <<subs, paidFrom, granted, clock, status, clashes>>
<1>1. ASSUME NEW o \in Orders, AskGateway(h, o) PROVE Still /\ pc'[h] \notin Confirming
  BY <1>1, <1>a, <1>b, <1>c DEF AskGateway, Begin, Goto, Confirming
<1>2. ASSUME NEW o \in Orders, NEW n \in Notices, Deliver(h, o, n) \/ DeliverUnlocked(h, o, n)
      PROVE  Still /\ pc'[h] \notin Confirming
  BY <1>2, <1>a, <1>c DEF Deliver, DeliverUnlocked, Begin, Goto, Confirming
<1>3. ASSUME NEW x \in Supervised, BeginExtension(h, x) PROVE Still /\ pc'[h] \notin Confirming
  BY <1>3, <1>a, <1>b, <1>c DEF BeginExtension, Begin, Goto, Confirming
<1>4. ASSUME NEW n \in Limits, BeginLimit(h, n) PROVE Still /\ pc'[h] \notin Confirming
  BY <1>4, <1>a, <1>b, <1>c DEF BeginLimit, Begin, Goto, Confirming
<1>5. CASE ReadOrder(h)
  <2>1. Still /\ (End(h) \/ (Goto(h, "verify") /\ on' = on /\ ~Done(on[h])))
    BY <1>5, <1>a, <1>b, <1>c DEF ReadOrder
  <2>2. ~Done(on[h]) => status[on[h]] # "PAID"
    <3>1. on[h] \in Orders
      BY <1>5 DEF ReadOrder, PlacesOK, PlaceOK, OrderSteps
    <3> QED
      BY <3>1 DEF Done, BusinessInv, BusinessKnown
  <2> QED
    BY <2>1, <2>2 DEF End, Goto, Confirming
<1>6. CASE Verify(h)
  <2>1. Still /\ pc[h] = "verify" /\ on[h] \in Orders
    BY <1>6, <1>a, <1>b, <1>c DEF Verify, PlacesOK, PlaceOK, OrderSteps, Confirming
  <2>2. CASE End(h)
    BY <2>1, <2>2 DEF End, Goto, Confirming
  <2>3. CASE ~End(h)
    <3>1. /\ settledAt[on[h]] # 0 /\ on' = on
          /\ Goto(h, IF on[h] \in Charges THEN "pay" ELSE "tx")
          /\ \E t \in {settledAt[on[h]], clock} : takes' = [takes EXCEPT ![h] = t]
      BY <1>6, <2>3 DEF Verify
    <3>2. pc'[h] \in {"pay", "tx"} /\ on'[h] = on[h] /\ takes'[h] # 0
      BY <3>1 DEF Goto, AccessInv
    <3> QED
      BY <2>1, <3>2
  <2> QED
    BY <2>2, <2>3
<1>7. CASE PayCharge(h)
  <2>1. /\ UNCHANGED <<subs, paidFrom, granted, clock>> /\ Pay(h) /\ pc[h] = "pay"
        /\ pc'[h] = "activate" /\ on'[h] = on[h] /\ takes'[h] = takes[h] /\ org'[h] = Home
    BY <1>7, <1>b DEF PayCharge, Goto
  <2>2. on[h] \in Charges
    BY <2>1 DEF PlacesOK, PlaceOK
  <2> QED
    BY <2>1, <2>2 DEF OrdersOf
<1>8. CASE BeginProvision(h)
  <2>1. /\ Still /\ pc[h] = "tx" /\ pc'[h] = "provision" /\ on'[h] = on[h]
        /\ takes'[h] = takes[h]
    BY <1>8, <1>a, <1>b, <1>c DEF BeginProvision, Goto
  <2>2. takes[h] # 0
    BY <2>1 DEF AccessInv, ConfirmOK, Confirming
  <2> QED
    BY <2>1, <2>2
<1>9. CASE Provision(h)
  <2>1. /\ UNCHANGED <<subs, paidFrom, granted, clock>> /\ Pay(h) /\ pc[h] = "provision"
        /\ pc'[h] = "activate" /\ on'[h] = on[h] /\ takes'[h] = takes[h]
    BY <1>9, <1>b DEF Provision, Goto
  <2>2. org'[h] \in Businesses /\ org'[h][1] = on[h]
    <3>1. CASE org[h] = Nothing
      <4>1. org'[h] = <<on[h], h>> /\ on[h] \in Provisions
        BY <1>9, <3>1 DEF Provision, PlacesOK, PlaceOK
      <4> QED
        BY <4>1 DEF Businesses
    <3>2. CASE org[h] # Nothing
      <4>1. org'[h] = org[h] /\ org[h] \in created /\ org[h][1] = on[h]
        BY <1>9, <2>1, <3>2 DEF Provision, BusinessInv, SnapshotOK
      <4> QED
        BY <4>1 DEF RowsTyped
    <3> QED
      BY <3>1, <3>2
  <2>3. org'[h] # Home
    BY <2>2, BillingAssumption DEF BillingAssumption
  <2> QED
    BY <2>1, <2>2, <2>3 DEF OrdersOf
<1>10. CASE SetLimit(h) \/ Abort(h)
  BY <1>10, <1>a, <1>b DEF SetLimit, Abort, End, Goto, Confirming
<1> QED
  BY <1>1, <1>2, <1>3, <1>4, <1>5, <1>6, <1>7, <1>8, <1>9, <1>10 DEF HandlerStep, Step

\* A webhook's orders are orders, those of an organization too.
LEMMA OrdersTyped ==
    ASSUME TypeInv, NEW h \in Handlers, pc[h] \in Confirming
    PROVE  on[h] \in Orders
BY DEF TypeInv, LocalsTyped, PlacesOK, PlaceOK, OrderSteps

LEMMA OrdersOfTyped ==
    ASSUME BillingAssumption, NEW x \in Orgs
    PROVE  OrdersOf(x) \subseteq Orders
BY DEF BillingAssumption, OrdersOf, Orgs, Businesses, Orders

LEMMA AccessInvStep ==
    ASSUME BillingAssumption, TypeInv, OrderInv, BusinessInv, AccessInv,
           NEW h \in Handlers, HandlerStep(h)
    PROVE  AccessInv'
<1>1. OthersSame(h)
  BY OthersKeep
<1>2. /\ status \in [Orders -> {"none", "PENDING", "PAID"}]
      /\ paidFrom \in [Orders -> Nat] /\ subs \in [Orgs -> Subscriptions]
      /\ granted \in [Orgs -> Nat] /\ takes \in [Handlers -> Nat] /\ Grace \in Nat
      /\ Days \in [Orders -> Nat \ {0}]
  BY DEF TypeInv, LocalsTyped, RowsTyped, HistoryTyped, BillingAssumption
<1>3. CASE Activate(h)
  <2>1. /\ pc[h] = "activate" /\ pc'[h] = "idle"
        /\ UNCHANGED <<status, clock, granted, clashes>>
        /\ on[h] \in Orders /\ org[h] \in Orgs
    BY <1>3, OrdersTyped DEF Activate, End, Goto, world, TypeInv, LocalsTyped, PlacesOK, PlaceOK,
                             Confirming
  <2>2. /\ paidFrom' = IF paidFrom[on[h]] = 0
                       THEN [paidFrom EXCEPT ![on[h]] = takes[h]] ELSE paidFrom
        /\ subs' = [subs EXCEPT ![org[h]] =
              Sub("ACTIVE", IF on[h] \in Provisions THEN takes[h] ELSE @.trialEnd,
                  takes[h] + Days[on[h]])]
    BY <1>3 DEF Activate, TermEnd
  <2>3. /\ status[on[h]] = "PAID" /\ on[h] \in OrdersOf(org[h]) /\ takes[h] # 0
        /\ paidFrom[on[h]] # 0 => on[h] \in clashes
    BY <2>1 DEF AccessInv, ConfirmOK, Confirming
  <2>4. \A o \in Orders : /\ paidFrom[o] # 0 => paidFrom'[o] = paidFrom[o]
                          /\ o # on[h] => paidFrom'[o] = paidFrom[o]
    BY <1>2, <2>1, <2>2
  <2>5. paidFrom'[on[h]] # 0 /\ (paidFrom'[on[h]] = takes[h] \/ on[h] \in clashes)
    BY <1>2, <2>1, <2>2, <2>3
  <2>6. ASSUME NEW g \in Handlers PROVE ConfirmOK(g)'
    <3>1. CASE g = h
      BY <2>1, <3>1 DEF ConfirmOK, Confirming
    <3>2. CASE g # h
      <4>1. /\ pc'[g] = pc[g] /\ on'[g] = on[g] /\ org'[g] = org[g] /\ takes'[g] = takes[g]
            /\ ConfirmOK(g)
        BY <1>1, <3>2 DEF OthersSame, AccessInv
      <4>2. pc[g] = "activate" /\ on[g] = on[h] => on[g] \in clashes
        BY <2>1, <3>2 DEF AccessInv
      <4>3. pc[g] = "activate" => on[g] \in Orders
        BY OrdersTyped DEF Confirming
      <4> QED
        BY <2>1, <2>4, <4>1, <4>2, <4>3 DEF ConfirmOK
    <3> QED
      BY <3>1, <3>2
  <2>7. ASSUME NEW x \in Orgs PROVE Covered(x)'
    <3>1. Covered(x) /\ OrdersOf(x) \subseteq Orders
      BY OrdersOfTyped DEF AccessInv
    <3>2. CASE x # org[h]
      <4>1. subs'[x] = subs[x] /\ granted' = granted /\ clashes' = clashes
        BY <1>2, <2>1, <2>2, <3>2
      <4> QED
        BY <2>4, <3>1, <4>1 DEF Covered
    <3>3. CASE x = org[h]
      <4>1. subs'[x].status = "ACTIVE" /\ subs'[x].periodEnd = takes[h] + Days[on[h]]
        BY <1>2, <2>1, <2>2, <3>3 DEF Sub
      <4>2. subs'[x].periodEnd <= paidFrom'[on[h]] + Days[on[h]] \/ on[h] \in clashes'
        BY <1>2, <2>1, <2>5, <4>1
      <4> QED
        BY <2>3, <2>5, <3>3, <4>1, <4>2 DEF Covered
    <3> QED
      BY <3>2, <3>3
  <2>8. \A g, k \in Handlers :
           pc'[g] = "activate" /\ pc'[k] = "activate" /\ on'[g] = on'[k] => g = k \/ on'[k] \in clashes'
    BY <1>1, <2>1 DEF AccessInv, OthersSame
  <2>9. \A o \in Orders : paidFrom'[o] # 0 => status'[o] = "PAID"
    BY <2>1, <2>3, <2>4 DEF AccessInv
  <2>10. clock' # 0
    BY <2>1 DEF AccessInv
  <2> QED
    BY <2>6, <2>7, <2>8, <2>9, <2>10 DEF AccessInv
<1>4. CASE ExtendTrial(h)
  <2>1. /\ pc[h] = "extend" /\ pc'[h] = "idle" /\ org[h] \in Orgs
        /\ UNCHANGED <<status, clock, clashes, paidFrom>>
    BY <1>4 DEF ExtendTrial, End, Goto, world, TypeInv, LocalsTyped, PlacesOK, PlaceOK
  <2>2. /\ subs' = [subs EXCEPT ![org[h]] = Sub("TRIALING", takes[h], @.periodEnd)]
        /\ granted' = [granted EXCEPT ![org[h]] = Later(@, takes[h] + Grace)]
    BY <1>4 DEF ExtendTrial
  <2>3. ASSUME NEW x \in Orgs PROVE Covered(x)'
    <3>1. Covered(x)
      BY DEF AccessInv
    <3>2. CASE x # org[h]
      <4>1. subs'[x] = subs[x] /\ granted'[x] = granted[x]
        BY <1>2, <2>2, <3>2
      <4> QED
        BY <2>1, <3>1, <4>1 DEF Covered
    <3>3. CASE x = org[h]
      <4>1. subs'[x].status = "TRIALING" /\ subs'[x].trialEnd = takes[h]
        BY <1>2, <2>1, <2>2, <3>3 DEF Sub
      <4>2. takes[h] + Grace <= granted'[x]
        BY <1>2, <2>1, <2>2, <3>3 DEF Later
      <4> QED
        BY <4>1, <4>2 DEF Covered
    <3> QED
      BY <3>2, <3>3
  <2>4. \A g \in Handlers : ConfirmOK(g)'
    BY <1>1, <2>1 DEF AccessInv, ConfirmOK, OthersSame, Confirming
  <2>5. \A g, k \in Handlers :
           pc'[g] = "activate" /\ pc'[k] = "activate" /\ on'[g] = on'[k] => g = k \/ on'[k] \in clashes'
    BY <1>1, <2>1 DEF AccessInv, OthersSame
  <2> QED
    BY <2>1, <2>3, <2>4, <2>5 DEF AccessInv
<1>5. CASE CreateOrder(h)
  <2>1. /\ pc[h] = "create" /\ status[on[h]] = "none" /\ on[h] \in Orders
        /\ status' = status \/ status' = [status EXCEPT ![on[h]] = "PENDING"]
        /\ UNCHANGED <<subs, clock, granted, paidFrom, clashes>> /\ pc'[h] = "idle"
    BY <1>5 DEF CreateOrder, End, Goto, history, world, OrderInv, TypeInv, LocalsTyped, PlacesOK,
                PlaceOK, OrderSteps
  <2>2. \A o \in Orders : status'[o] = "PAID" <=> status[o] = "PAID"
    BY <1>2, <2>1
  <2>3. ASSUME NEW g \in Handlers PROVE ConfirmOK(g)'
    <3>1. CASE g = h
      BY <2>1, <3>1 DEF ConfirmOK, Confirming
    <3>2. CASE g # h
      <4>1. /\ pc'[g] = pc[g] /\ on'[g] = on[g] /\ org'[g] = org[g] /\ takes'[g] = takes[g]
            /\ ConfirmOK(g)
        BY <1>1, <3>2 DEF OthersSame, AccessInv
      <4>2. pc[g] \in Confirming => on[g] \in Orders
        BY OrdersTyped
      <4> QED
        BY <2>1, <2>2, <4>1, <4>2 DEF ConfirmOK, Confirming
    <3> QED
      BY <3>1, <3>2
  <2>4. \A x \in Orgs : Covered(x)'
    BY <2>1 DEF AccessInv, Covered
  <2>5. \A g, k \in Handlers :
           pc'[g] = "activate" /\ pc'[k] = "activate" /\ on'[g] = on'[k] => g = k \/ on'[k] \in clashes'
    BY <1>1, <2>1 DEF AccessInv, OthersSame
  <2> QED
    BY <2>1, <2>2, <2>3, <2>4, <2>5 DEF AccessInv
<1>6. CASE /\ UNCHANGED <<AccessRows, clock, status, clashes>>
           /\ \/ pc'[h] \notin Confirming
              \/ pc'[h] = "verify" /\ on'[h] = on[h] /\ status[on[h]] # "PAID"
              \/ /\ pc'[h] \in {"pay", "tx", "provision"} /\ on'[h] = on[h] /\ takes'[h] # 0
                 /\ pc[h] \in {"verify", "tx"}
  <2>1. \A g \in Handlers : ConfirmOK(g)'
    BY <1>1, <1>6 DEF AccessInv, AccessRows, ConfirmOK, OthersSame, Confirming
  <2>2. \A x \in Orgs : Covered(x)'
    BY <1>6 DEF AccessInv, AccessRows, Covered
  <2>3. \A g, k \in Handlers :
           pc'[g] = "activate" /\ pc'[k] = "activate" /\ on'[g] = on'[k] => g = k \/ on'[k] \in clashes'
    BY <1>1, <1>6 DEF AccessInv, OthersSame, Confirming
  <2> QED
    BY <1>6, <2>1, <2>2, <2>3 DEF AccessInv, AccessRows
<1>7. CASE /\ UNCHANGED <<AccessRows, clock>>
           /\ Pay(h) /\ pc'[h] = "activate" /\ on'[h] = on[h] /\ takes'[h] = takes[h]
           /\ pc[h] \in {"pay", "provision"}
           /\ on[h] \in OrdersOf(org'[h])
  <2>1. /\ on[h] \in Orders /\ status' = [status EXCEPT ![on[h]] = "PAID"]
        /\ clashes \subseteq clashes'
        /\ Overlaps(h) => on[h] \in clashes'
        /\ UNCHANGED <<subs, paidFrom, granted, clock>>
    BY <1>7, OrdersTyped DEF Pay, Confirming, AccessRows
  <2>2. status[on[h]] = "PAID" => on[h] \in clashes
    BY <1>7 DEF AccessInv, ConfirmOK
  <2>3. ASSUME NEW g \in Handlers PROVE ConfirmOK(g)'
    <3>1. CASE g = h
      <4>1. paidFrom[on[h]] # 0 => on[h] \in clashes
        BY <2>1, <2>2 DEF AccessInv
      <4>2. takes[h] # 0
        BY <1>7 DEF AccessInv, ConfirmOK, Confirming
      <4> QED
        BY <1>2, <1>7, <2>1, <3>1, <4>1, <4>2 DEF ConfirmOK
    <3>2. CASE g # h
      <4>1. /\ pc'[g] = pc[g] /\ on'[g] = on[g] /\ org'[g] = org[g] /\ takes'[g] = takes[g]
            /\ ConfirmOK(g)
        BY <1>1, <3>2 DEF OthersSame, AccessInv
      <4>2. pc[g] \in Confirming => on[g] \in Orders
        BY OrdersTyped
      <4>3. pc[g] \in {"verify", "pay", "tx", "provision"} /\ on[g] = on[h] => on[g] \in clashes'
        BY <2>1, <3>2 DEF Overlaps
      <4> QED
        BY <1>2, <2>1, <4>1, <4>2, <4>3 DEF ConfirmOK, Confirming
    <3> QED
      BY <3>1, <3>2
  <2>4. \A x \in Orgs : Covered(x)'
    BY <2>1 DEF AccessInv, Covered
  <2>5. ASSUME NEW g \in Handlers, g # h, pc[g] = "activate", on[g] = on[h]
        PROVE  on[h] \in clashes
    BY <2>2, <2>5 DEF AccessInv, ConfirmOK
  <2>6. \A g, k \in Handlers :
           pc'[g] = "activate" /\ pc'[k] = "activate" /\ on'[g] = on'[k] => g = k \/ on'[k] \in clashes'
    BY <1>1, <1>7, <2>1, <2>5 DEF AccessInv, OthersSame
  <2>7. \A o \in Orders : paidFrom'[o] # 0 => status'[o] = "PAID"
    BY <1>2, <2>1 DEF AccessInv
  <2> QED
    BY <2>1, <2>3, <2>4, <2>6, <2>7 DEF AccessInv
<1> QED
  BY <1>3, <1>4, <1>5, <1>6, <1>7, AccessSteps

\* Operators' activations are grants, and locks cover nothing.
LEMMA AccessInvOther ==
    ASSUME BillingAssumption, TypeInv, AccessInv, OtherStep \/ UNCHANGED vars
    PROVE  AccessInv'
<1>1. /\ UNCHANGED <<status, locals, paidFrom, clashes>>
      /\ clock' # 0
  BY OtherStepKeeps DEF AccessInv, TypeInv, WorldTyped
<1>2. \A g \in Handlers : ConfirmOK(g)'
  BY <1>1 DEF AccessInv, ConfirmOK, locals
<1>3. ASSUME NEW x \in Orgs PROVE Covered(x)'
  <2>1. /\ Covered(x) /\ subs[x] \in Subscriptions /\ granted[x] \in Nat /\ clock \in Nat
        /\ OperatorDays \in Nat /\ subs \in [Orgs -> Subscriptions] /\ granted \in [Orgs -> Nat]
    BY DEF AccessInv, TypeInv, RowsTyped, HistoryTyped, WorldTyped, BillingAssumption
  <2>2. CASE subs'[x] = subs[x] /\ granted'[x] = granted[x]
    BY <1>1, <2>1, <2>2 DEF Covered
  <2>3. CASE subs'[x].status \in {"PAST_DUE", "CANCELED"}
    BY <2>3 DEF Covered
  <2>4. CASE subs'[x].status = "ACTIVE" /\ subs'[x].periodEnd <= granted'[x]
    BY <2>4 DEF Covered
  <2>5. ASSUME NEW y \in Supervised, MarkActive(y)
        PROVE  \/ subs'[x] = subs[x] /\ granted'[x] = granted[x]
               \/ subs'[x].status = "ACTIVE" /\ subs'[x].periodEnd <= granted'[x]
    <3>1. CASE x # y
      BY <2>1, <2>5, <3>1 DEF MarkActive
    <3>2. CASE x = y
      <4>1. /\ subs'[x] = Sub("ACTIVE", subs[x].trialEnd, clock + OperatorDays)
            /\ granted'[x] = Later(granted[x], clock + OperatorDays)
        BY <2>1, <2>5, <3>2 DEF MarkActive
      <4> QED
        BY <2>1, <4>1 DEF Sub, Later
    <3> QED
      BY <3>1, <3>2
  <2>6. ASSUME NEW y \in Supervised, NEW as \in {"PAST_DUE", "CANCELED"}, Lock(y, as)
        PROVE  \/ subs'[x] = subs[x] /\ granted'[x] = granted[x]
               \/ subs'[x].status \in {"PAST_DUE", "CANCELED"}
    <3>1. CASE x # y
      BY <2>1, <2>6, <3>1 DEF Lock, history
    <3>2. CASE x = y
      BY <2>1, <2>6, <3>2 DEF Lock, Sub
    <3> QED
      BY <3>1, <3>2
  <2>7. Tick \/ (\E o \in Orders : Settle(o)) \/ UNCHANGED vars
           => subs'[x] = subs[x] /\ granted'[x] = granted[x]
    BY DEF Tick, Settle, vars, rows, history
  <2> QED
    BY <2>2, <2>3, <2>4, <2>5, <2>6, <2>7 DEF OtherStep
<1>4. \A g, k \in Handlers :
         pc'[g] = "activate" /\ pc'[k] = "activate" /\ on'[g] = on'[k] => g = k \/ on'[k] \in clashes'
  BY <1>1 DEF AccessInv, locals
<1> QED
  BY <1>1, <1>2, <1>3, <1>4 DEF AccessInv

\* An organization that is not locked has its trial, an operator's grant or
\* time left of an order counted from when that was first applied: repeated
\* webhooks give nothing for free unless two of them overlapped.
THEOREM AccessPaidFor == Spec => []AccessIsPaidFor
<1>1. ASSUME Init PROVE AccessInv
  <2>1. \A x \in Orgs : Covered(x)
    BY <1>1, BillingAssumption DEF Init, Covered, Sub, NoSub, BillingAssumption
  <2> QED
    BY <1>1, <2>1 DEF Init, AccessInv, ConfirmOK, Confirming
<1>2. ASSUME BusinessIInv, AccessInv, [Next]_vars PROVE AccessInv'
  BY <1>2, NextSplit, AccessInvStep, AccessInvOther, BillingAssumption DEF BusinessIInv
<1>3. ASSUME BusinessIInv, AccessInv PROVE AccessIsPaidFor
  <2> SUFFICES ASSUME NEW x \in Orgs, ~Locked(x)
               PROVE  \/ clock <= granted[x]
                      \/ \E o \in OrdersOf(x) :
                            /\ paidFrom[o] # 0
                            /\ clock < paidFrom[o] + Days[o] \/ o \in clashes
    BY DEF AccessIsPaidFor
  <2>1. /\ Covered(x) /\ subs[x] \in Subscriptions /\ granted[x] \in Nat /\ clock \in Nat
        /\ OrdersOf(x) \subseteq Orders /\ Grace \in Nat
    BY <1>3, OrdersOfTyped, BillingAssumption
       DEF BusinessIInv, AccessInv, TypeInv, RowsTyped, HistoryTyped, WorldTyped, BillingAssumption
  <2>2. CASE subs[x].status = "ACTIVE"
    <3>1. clock < subs[x].periodEnd /\ subs[x].periodEnd \in Nat
      BY <2>1, <2>2 DEF Locked, Subscriptions
    <3>2. \A o \in Orders : paidFrom[o] + Days[o] \in Nat
      BY <1>3, BillingAssumption DEF BusinessIInv, TypeInv, HistoryTyped, BillingAssumption
    <3> QED
      BY <2>1, <2>2, <3>1, <3>2 DEF Covered
  <2>3. CASE subs[x].status = "TRIALING"
    BY <2>1, <2>3 DEF Locked, Covered, Subscriptions
  <2> QED
    BY <2>1, <2>2, <2>3 DEF Locked, Subscriptions
<1> QED
  BY <1>1, <1>2, <1>3, BusinessInvHolds, BillingAssumption, PTL DEF Spec

=============================================================================
