----------------------------- MODULE PlansProofs -----------------------------
(***************************************************************************)
(* Plans, quotas and subscriptions, proved for any number of users, plans, *)
(* customers, requests and events.                                         *)
(*                                                                         *)
(* The argument: the provider ends a subscription once, by its last event, *)
(* so what the latest event says is what the subscription is.  A user's    *)
(* record names a customer only through that customer's first event, so    *)
(* the customer is one of the user's own; and every other event about it   *)
(* leaves the plan alone but the last, which a live subscription has not.  *)
(***************************************************************************)
EXTENDS Plans, TLAPS

\* Every handler but the deletion of a plan is about a user.
RequestsFormed ==
    \A r \in Requests : req[r] # None /\ req[r].pc # "delete_plan" => req[r].user \in Users

\* An event is of a subscription that was opened; the latest says what the
\* subscription is, and only the latest can say that it ended.
EventsInv ==
    /\ \A c \in Customers :
          IF subs[c] = None THEN heard[c] = 0
          ELSE heard[c] <= subs[c].n /\ (subs[c].n = 1 => subs[c].status = "active")
    /\ \A e \in events :
          LET s == subs[e.customer]
          IN  /\ s # None /\ e.n <= s.n
              /\ e.n = s.n => e.status = s.status
              /\ e.status = "canceled" => s.status = "canceled" /\ e.n = s.n

\* A user's billing columns b against the customer's subscription s and the last
\* event h heard of it; chosen, when an operator chose the plan.
Reconciled(b, s, h, chosen) ==
    /\ h = s.n => b.status = s.status
    /\ ~chosen => /\ s.status # "canceled" => b.plan = s.plan
                  /\ s.status = "canceled" /\ h = s.n => b.plan = Free

Bound(u) ==
    LET c == users[u].customer
    IN  c # NoCustomer => /\ subs[c] # None /\ subs[c].user = u
                          /\ Reconciled(users[u], subs[c], heard[c], placed[u])

IInv ==
    /\ TypeOK
    /\ RequestsFormed
    /\ EventsInv
    /\ \A u \in Users : Bound(u)

----------------------------------------------------------------------------
(***************************************************************************)
(* Types                                                                   *)
(***************************************************************************)
LEMMA InvInit == Init => IInv
<1> SUFFICES ASSUME Init PROVE IInv
    OBVIOUS
<1>1. \A p \in {Free, Pro} : plans[p] \in PlanRow
  <2>1. (CHOOSE q \in Quotas : TRUE) \in Quotas
      BY QuotasAssumption
  <2> QED BY <2>1, NamesAssumption DEF Init, PlanRow
<1>2. TypeOK
  <2>1. plans \in [PlanNames -> PlanRow \cup {NoPlan}]
      BY <1>1 DEF Init
  <2>2. users \in [Users -> Billing]
      BY NamesAssumption DEF Init, Billing
  <2> QED BY <2>1, <2>2, BoundsAssumption DEF Init, TypeOK
<1>3. EventsInv
    BY DEF Init, EventsInv
<1>4. \A u \in Users : Bound(u)
    BY DEF Init, Bound
<1>5. RequestsFormed
    BY DEF Init, RequestsFormed
<1> QED BY <1>2, <1>3, <1>4, <1>5 DEF IInv

\* A handler that arrives, moves on or answers keeps the requests' types.
LEMMA RequestStep ==
    ASSUME IInv, NEW r \in Requests,
           \/ /\ req[r] # None
              /\ \/ Answer(r)
                 \/ \E pc \in Steps \ {"delete_plan"} :
                       Goto(r, pc) /\ req[r].pc # "delete_plan"
           \/ \E pc \in Steps, u \in Users \cup {None}, p \in PlanNames, q \in Quotas \cup {NoQuota} :
                 Arrive(r, pc, u, p, q) /\ (pc # "delete_plan" => u \in Users)
    PROVE  req' \in [Requests -> Request \cup {None}] /\ RequestsFormed'
<1> USE DEF IInv, TypeOK
<1>1. CASE Answer(r)
    BY <1>1 DEF Answer, RequestsFormed
<1>2. ASSUME NEW pc \in Steps \ {"delete_plan"}, Goto(r, pc), req[r] # None,
             req[r].pc # "delete_plan"
      PROVE  req' \in [Requests -> Request \cup {None}] /\ RequestsFormed'
  <2> DEFINE new == [req[r] EXCEPT !.pc = pc]
  <2>1. req[r] \in Request /\ req[r].user \in Users
      BY <1>2 DEF RequestsFormed
  <2>2. new \in Request /\ new.user \in Users
      BY <2>1 DEF Request
  <2>3. req' = [req EXCEPT ![r] = new]
      BY <1>2 DEF Goto
  <2> HIDE DEF new
  <2> QED BY <2>2, <2>3 DEF RequestsFormed
<1>3. ASSUME NEW pc \in Steps, NEW u \in Users \cup {None}, NEW p \in PlanNames,
             NEW q \in Quotas \cup {NoQuota}, Arrive(r, pc, u, p, q),
             pc # "delete_plan" => u \in Users
      PROVE  req' \in [Requests -> Request \cup {None}] /\ RequestsFormed'
    BY <1>3 DEF Arrive, Request, RequestsFormed
<1> QED BY <1>1, <1>2, <1>3

LEMMA TypeStep == IInv /\ [Next]_vars => TypeOK' /\ RequestsFormed'
<1> SUFFICES ASSUME IInv, [Next]_vars PROVE TypeOK' /\ RequestsFormed'
    OBVIOUS
<1>a. TypeOK /\ RequestsFormed
    BY DEF IInv
<1>1. ASSUME NEW r \in Requests, CountUsersOnPlan(r) PROVE TypeOK' /\ RequestsFormed'
  <2>1. req' \in [Requests -> Request \cup {None}] /\ RequestsFormed'
      BY <1>1, RequestStep DEF CountUsersOnPlan, Steps
  <2>2. left' \in 0..MaxRequests
      BY <1>a, <1>1, BoundsAssumption DEF CountUsersOnPlan, Arrive, TypeOK
  <2> QED BY <1>a, <1>1, <2>1, <2>2 DEF CountUsersOnPlan, provider, TypeOK
<1>2. ASSUME NEW r \in Requests, SetQuota(r) \/ Subscribe(r) PROVE TypeOK' /\ RequestsFormed'
  <2>1. req' \in [Requests -> Request \cup {None}] /\ RequestsFormed'
      BY <1>2, RequestStep DEF SetQuota, Subscribe, Steps
  <2>2. left' \in 0..MaxRequests
      BY <1>a, <1>2, BoundsAssumption DEF SetQuota, Subscribe, Arrive, TypeOK
  <2> QED BY <1>a, <1>2, <2>1, <2>2 DEF SetQuota, Subscribe, provider, TypeOK
<1>3. ASSUME NEW r \in Requests, DeletePlan(r) PROVE TypeOK' /\ RequestsFormed'
  <2>1. req' \in [Requests -> Request \cup {None}] /\ RequestsFormed'
      BY <1>3, RequestStep DEF DeletePlan, At
  <2>2. req[r].plan \in PlanNames
      BY <1>a, <1>3 DEF DeletePlan, At, TypeOK, Request
  <2> QED BY <1>a, <1>3, <2>1, <2>2 DEF DeletePlan, OnPlan, provider, TypeOK
<1>4. ASSUME NEW r \in Requests, SetPlan(r) PROVE TypeOK' /\ RequestsFormed'
  <2>1. req' \in [Requests -> Request \cup {None}] /\ RequestsFormed'
      BY <1>4, RequestStep DEF SetPlan, At, Steps
  <2>2. req[r].plan \in PlanNames
      BY <1>a, <1>4 DEF SetPlan, At, TypeOK, Request
  <2>3. users' \in [Users -> Billing]
    <3>1. users' = [users EXCEPT ![req[r].user].plan = req[r].plan] /\ users \in [Users -> Billing]
        BY <1>a, <1>4 DEF SetPlan, TypeOK
    <3> QED BY <2>2, <3>1 DEF Billing
  <2>4. UNCHANGED <<plans, left, provider>> /\ placed' \in [Users -> BOOLEAN]
      BY <1>a, <1>4 DEF SetPlan, TypeOK
  <2> QED BY <1>a, <2>1, <2>3, <2>4 DEF provider, TypeOK
<1>5. ASSUME NEW r \in Requests, WriteQuota(r) PROVE TypeOK' /\ RequestsFormed'
  <2>1. req' \in [Requests -> Request \cup {None}] /\ RequestsFormed'
      BY <1>5, RequestStep DEF WriteQuota, At
  <2>2. users' \in [Users -> Billing]
    <3>1. users' = [users EXCEPT ![req[r].user].quota = req[r].quota] /\ users \in [Users -> Billing]
        BY <1>a, <1>5 DEF WriteQuota, TypeOK
    <3>2. req[r].quota \in Quotas \cup {NoQuota}
        BY <1>a, <1>5 DEF WriteQuota, At, TypeOK, Request
    <3> QED BY <3>1, <3>2 DEF Billing
  <2>3. UNCHANGED <<plans, left, provider, placed>>
      BY <1>5 DEF WriteQuota
  <2> QED BY <1>a, <2>1, <2>2, <2>3 DEF provider, TypeOK
<1>6. ASSUME NEW r \in Requests, PlanPrice(r) PROVE TypeOK' /\ RequestsFormed'
  <2>1. req' \in [Requests -> Request \cup {None}] /\ RequestsFormed'
      BY <1>6, RequestStep DEF PlanPrice, At, Steps
  <2> QED BY <1>a, <1>6, <2>1 DEF PlanPrice, provider, TypeOK
<1>7. ASSUME NEW r \in Requests, CheckoutUrl(r) PROVE TypeOK' /\ RequestsFormed'
  <2>1. req' \in [Requests -> Request \cup {None}] /\ RequestsFormed'
      BY <1>7, RequestStep DEF CheckoutUrl, At
  <2>2. req[r].user \in Users /\ req[r].plan \in PlanNames
      BY <1>a, <1>7 DEF CheckoutUrl, At, TypeOK, Request, RequestsFormed
  <2> QED BY <1>a, <1>7, <2>1, <2>2 DEF CheckoutUrl, TypeOK
<1>8. ASSUME NEW r \in Requests, Fail(r) PROVE TypeOK' /\ RequestsFormed'
  <2>1. req' \in [Requests -> Request \cup {None}] /\ RequestsFormed'
      BY <1>8, RequestStep DEF Fail
  <2> QED BY <1>a, <1>8, <2>1 DEF Fail, provider, TypeOK
<1>9. CASE CreatePlan \/ UpdatePlan
    BY <1>a, <1>9, BoundsAssumption DEF CreatePlan, UpdatePlan, provider, TypeOK, RequestsFormed
<1>10. CASE Pay
  <2>1. PICK l \in links, c \in Customers :
          /\ subs' = [subs EXCEPT ![c] = [user |-> l[1], plan |-> l[2], status |-> "active", n |-> 1]]
          /\ events' = events \cup {[customer |-> c, n |-> 1, status |-> "active"]}
          /\ links' = links \ {l}
      BY <1>10 DEF Pay
  <2>2. l[1] \in Users /\ l[2] \in PlanNames
      BY <1>a DEF TypeOK
  <2>3. subs' \in [Customers -> Subscription \cup {None}] /\ events' \subseteq Event
      BY <1>a, <2>1, <2>2, BoundsAssumption DEF TypeOK, Subscription, Event, Statuses, Live
  <2> QED BY <1>a, <1>10, <2>1, <2>3 DEF Pay, TypeOK, RequestsFormed
<1>11. CASE Change
  <2>1. PICK c \in Customers, s \in Statuses :
          /\ subs[c] # None /\ subs[c].n < MaxEvents
          /\ subs' = [subs EXCEPT ![c].status = s, ![c].n = @ + 1]
          /\ events' = events \cup {[customer |-> c, n |-> subs[c].n + 1, status |-> s]}
      BY <1>11 DEF Change
  <2>2. subs[c] \in Subscription /\ subs[c].n + 1 \in 1..MaxEvents
      BY <1>a, <2>1, BoundsAssumption DEF TypeOK, Subscription
  <2>3. subs' \in [Customers -> Subscription \cup {None}] /\ events' \subseteq Event
      BY <1>a, <2>1, <2>2 DEF TypeOK, Subscription, Event
  <2> QED BY <1>a, <1>11, <2>3 DEF Change, TypeOK, RequestsFormed
<1>12. CASE Webhook
  <2>1. PICK e \in events :
          /\ ApplyEvent(e)
          /\ heard' = [heard EXCEPT ![e.customer] = e.n]
          /\ events' \in {events, events \ {e}}
      BY <1>12 DEF Webhook
  <2>2. e \in Event /\ e.customer \in Customers /\ e.status \in Statuses
        /\ e.n \in 1..MaxEvents
      BY <1>a, <2>1 DEF TypeOK, Event
  <2>3. subs[e.customer] \in Subscription
      BY <1>a, <2>2 DEF IInv, EventsInv, TypeOK
  <2>4. subs[e.customer].user \in Users /\ subs[e.customer].plan \in PlanNames /\ Free \in PlanNames
      BY <2>3, NamesAssumption DEF Subscription
  <2>5. users' \in [Users -> Billing] /\ placed' \in [Users -> BOOLEAN]
    <3>1. ASSUME NEW u \in Users, NEW p \in PlanNames, BindSubscription(u, e.customer, p)
          PROVE  users' \in [Users -> Billing] /\ placed' \in [Users -> BOOLEAN]
      <4> DEFINE b == [users[u] EXCEPT !.customer = e.customer, !.plan = p, !.status = "active"]
      <4>1. users' = [users EXCEPT ![u] = b]
          BY <1>a, <3>1 DEF BindSubscription, TypeOK
      <4>2. b \in Billing
        <5>1. users[u] \in Billing /\ "active" \in Statuses
            BY <1>a DEF TypeOK, Statuses, Live
        <5> QED BY <2>2, <3>1, <5>1 DEF Billing
      <4> HIDE DEF b
      <4>3. users' \in [Users -> Billing]
          BY <1>a, <4>1, <4>2 DEF TypeOK
      <4> QED BY <1>a, <3>1, <4>3 DEF BindSubscription, TypeOK
    <3>2. ASSUME NEW who, CancelSubscription(who)
          PROVE  users' \in [Users -> Billing] /\ placed' \in [Users -> BOOLEAN]
      <4>1. \A b \in Billing : Canceled(b) \in Billing
          BY NamesAssumption DEF Canceled, Billing, Statuses
      <4> QED BY <1>a, <2>4, <3>2, <4>1 DEF CancelSubscription, TypeOK
    <3>3. ASSUME NEW who, SetSubscriptionStatus(who, e.status)
          PROVE  /\ users' \in [Users -> Billing] /\ UNCHANGED placed
      <4>1. \A b \in Billing : [b EXCEPT !.status = e.status] \in Billing
          BY <2>2 DEF Billing
      <4> QED BY <1>a, <3>3, <4>1 DEF SetSubscriptionStatus, TypeOK
    <3> QED BY <1>a, <2>1, <2>4, <3>1, <3>2, <3>3 DEF ApplyEvent, TypeOK
  <2>7. heard' \in [Customers -> 0..MaxEvents] /\ events' \subseteq Event
      BY <1>a, <2>1, <2>2 DEF TypeOK
  <2> QED BY <1>a, <1>12, <2>5, <2>7 DEF Webhook, TypeOK, RequestsFormed
<1>13. CASE DropEvent
    BY <1>a, <1>13 DEF DropEvent, TypeOK, RequestsFormed
<1>14. CASE UNCHANGED vars
    BY <1>a, <1>14 DEF vars, TypeOK, RequestsFormed
<1> QED BY <1>1, <1>2, <1>3, <1>4, <1>5, <1>6, <1>7, <1>8, <1>9, <1>10, <1>11, <1>12, <1>13, <1>14
        DEF Next, Handle

----------------------------------------------------------------------------
(***************************************************************************)
(* The provider's events                                                   *)
(***************************************************************************)
\* What a step does to the provider and the webhook: nothing, or one of theirs.
LEMMA StepKinds ==
    ASSUME [Next]_vars
    PROVE  \/ UNCHANGED <<subs, events, heard>>
           \/ Pay \/ Change \/ Webhook \/ DropEvent
<1>1. ASSUME NEW r \in Requests, Handle(r) PROVE UNCHANGED <<subs, events, heard>>
    BY <1>1 DEF Handle, CountUsersOnPlan, DeletePlan, SetQuota, SetPlan, WriteQuota, Subscribe,
                PlanPrice, CheckoutUrl, Fail, provider
<1> QED BY <1>1 DEF Next, CreatePlan, UpdatePlan, provider, vars

LEMMA EventsStep == IInv /\ [Next]_vars => EventsInv'
<1> SUFFICES ASSUME IInv, [Next]_vars PROVE EventsInv'
    OBVIOUS
<1>a. /\ EventsInv /\ events \subseteq Event /\ heard \in [Customers -> 0..MaxEvents]
      /\ subs \in [Customers -> Subscription \cup {None}]
    BY DEF IInv, TypeOK
<1>b. \A c \in Customers : subs[c] # None => subs[c].n \in Nat /\ heard[c] \in Nat
    BY <1>a, BoundsAssumption DEF Subscription
<1>c. \A e \in events : e.customer \in Customers /\ e.n \in Nat
    BY <1>a, BoundsAssumption DEF Event
<1>1. CASE UNCHANGED <<subs, events, heard>>
    BY <1>a, <1>1 DEF EventsInv
<1>2. CASE Pay
  <2>1. PICK l \in links, c \in Customers :
          /\ subs[c] = None
          /\ subs' = [subs EXCEPT ![c] = [user |-> l[1], plan |-> l[2], status |-> "active", n |-> 1]]
          /\ events' = events \cup {[customer |-> c, n |-> 1, status |-> "active"]}
          /\ heard' = heard
      BY <1>2 DEF Pay
  <2>2. /\ subs'[c].status = "active" /\ subs'[c].n = 1
        /\ \A d \in Customers \ {c} : subs'[d] = subs[d]
      BY <1>a, <2>1
  <2>3. subs'[c] # None
    <3>1. subs'[c] = [user |-> l[1], plan |-> l[2], status |-> "active", n |-> 1]
        BY <1>a, <2>1
    <3>2. l[1] \in Users /\ l[2] \in PlanNames
        BY DEF IInv, TypeOK
    <3>3. subs'[c] \in Subscription
        BY <3>1, <3>2, BoundsAssumption DEF Subscription, Statuses, Live
    <3> QED BY <3>3, NullsAssumption
  <2>4. \A e \in events : e.customer # c
      BY <1>a, <2>1 DEF EventsInv
  <2> QED BY <1>a, <1>c, <2>1, <2>2, <2>3, <2>4 DEF EventsInv
<1>3. CASE Change
  <2>1. PICK c \in Customers, s \in Statuses :
          /\ subs[c] # None /\ subs[c].status \in Live /\ s # subs[c].status
          /\ subs[c].n < MaxEvents
          /\ subs' = [subs EXCEPT ![c].status = s, ![c].n = @ + 1]
          /\ events' = events \cup {[customer |-> c, n |-> subs[c].n + 1, status |-> s]}
          /\ heard' = heard
      BY <1>3 DEF Change
  <2>2. subs[c] \in Subscription /\ subs[c].n \in Nat \ {0} /\ subs[c].n + 1 \in 1..MaxEvents
      BY <1>a, <2>1, BoundsAssumption DEF Subscription
  <2>3. /\ subs'[c].status = s /\ subs'[c].n = subs[c].n + 1
        /\ subs'[c] # None
        /\ \A d \in Customers \ {c} : subs'[d] = subs[d]
    <3> DEFINE new == [subs[c] EXCEPT !.status = s, !.n = subs[c].n + 1]
    <3>1. subs' = [subs EXCEPT ![c] = new]
        BY <1>a, <2>1
    <3>2. new \in Subscription /\ new.status = s /\ new.n = subs[c].n + 1
        BY <2>2 DEF Subscription
    <3> HIDE DEF new
    <3> QED BY <1>a, <3>1, <3>2, NullsAssumption
  <2>4. heard[c] <= subs[c].n
      BY <1>a, <2>1 DEF EventsInv
  <2>5. \A e \in events : e.customer = c => e.n <= subs[c].n /\ e.status # "canceled"
      BY <1>a, <2>1 DEF EventsInv, Live
  <2>6. ASSUME NEW e \in events' PROVE /\ subs'[e.customer] # None /\ e.n <= subs'[e.customer].n
                                       /\ e.n = subs'[e.customer].n => e.status = subs'[e.customer].status
                                       /\ e.status = "canceled" => /\ subs'[e.customer].status = "canceled"
                                                                   /\ e.n = subs'[e.customer].n
    <3>1. CASE e = [customer |-> c, n |-> subs[c].n + 1, status |-> s]
        BY <2>2, <2>3, <3>1
    <3>2. CASE e \in events /\ e.customer = c
        BY <1>c, <2>2, <2>3, <2>5, <3>2
    <3>3. CASE e \in events /\ e.customer # c
        BY <1>a, <1>c, <2>3, <3>3 DEF EventsInv
    <3> QED BY <2>1, <2>6, <3>1, <3>2, <3>3
  <2>7. ASSUME NEW d \in Customers
        PROVE  IF subs'[d] = None THEN heard'[d] = 0
               ELSE heard'[d] <= subs'[d].n /\ (subs'[d].n = 1 => subs'[d].status = "active")
    <3>1. CASE d = c
        BY <1>b, <2>1, <2>2, <2>3, <2>4, <3>1
    <3>2. CASE d # c
        BY <1>a, <2>1, <2>3, <3>2 DEF EventsInv
    <3> QED BY <3>1, <3>2
  <2> QED BY <2>6, <2>7 DEF EventsInv
<1>4. CASE Webhook
  <2>1. PICK e \in events :
          /\ heard' = [heard EXCEPT ![e.customer] = e.n]
          /\ events' \in {events, events \ {e}} /\ subs' = subs
      BY <1>4 DEF Webhook
  <2>2. subs[e.customer] # None /\ e.n <= subs[e.customer].n
      BY <1>a DEF EventsInv
  <2>3. \A c \in Customers : IF subs[c] = None THEN heard'[c] = 0
                             ELSE heard'[c] <= subs[c].n
      BY <1>a, <1>c, <2>1, <2>2 DEF EventsInv
  <2> QED BY <1>a, <2>1, <2>3 DEF EventsInv
<1>5. CASE DropEvent
    BY <1>a, <1>5 DEF DropEvent, EventsInv
<1> QED BY <1>1, <1>2, <1>3, <1>4, <1>5, StepKinds

----------------------------------------------------------------------------
(***************************************************************************)
(* Users and subscriptions                                                 *)
(***************************************************************************)
\* A step that leaves a user's billing and subscription alone, or gives them a plan
\* of an operator's choice.
LEMMA BoundKept ==
    ASSUME NEW u \in Users, Bound(u),
           users'[u].customer = users[u].customer, users'[u].status = users[u].status,
           \/ users'[u].plan = users[u].plan /\ placed'[u] = placed[u]
           \/ placed'[u] = TRUE,
           LET c == users[u].customer
           IN  c # NoCustomer => subs'[c] = subs[c] /\ heard'[c] = heard[c]
    PROVE  Bound(u)'
BY DEF Bound, Reconciled

\* A handler leaves a user's billing alone, but for an operator who gives a plan.
LEMMA HandleBound ==
    ASSUME IInv, NEW r \in Requests, Handle(r), NEW u \in Users
    PROVE  Bound(u)'
<1>a. users \in [Users -> Billing] /\ placed \in [Users -> BOOLEAN] /\ Bound(u)
    BY DEF IInv, TypeOK
<1>1. UNCHANGED <<subs, heard>>
    BY DEF Handle, CountUsersOnPlan, DeletePlan, SetQuota, SetPlan, WriteQuota, Subscribe,
           PlanPrice, CheckoutUrl, Fail, provider
<1>2. CASE SetPlan(r)
  <2>1. users'[u].customer = users[u].customer /\ users'[u].status = users[u].status
        /\ (u # req[r].user => users'[u].plan = users[u].plan /\ placed'[u] = placed[u])
        /\ (u = req[r].user => placed'[u] = TRUE)
      BY <1>a, <1>2 DEF SetPlan, Billing
  <2> QED BY <1>a, <1>1, <2>1, BoundKept
<1>3. CASE WriteQuota(r)
  <2>1. users'[u].customer = users[u].customer /\ users'[u].status = users[u].status
        /\ users'[u].plan = users[u].plan /\ placed'[u] = placed[u]
      BY <1>a, <1>3 DEF WriteQuota, Billing
  <2> QED BY <1>a, <1>1, <2>1, BoundKept
<1>4. CASE UNCHANGED <<users, placed>>
    BY <1>a, <1>1, <1>4, BoundKept
<1> QED BY <1>2, <1>3, <1>4
        DEF Handle, CountUsersOnPlan, DeletePlan, SetQuota, Subscribe, PlanPrice, CheckoutUrl, Fail

\* An event about the customer on a user's record, or one that puts it there, leaves
\* the record as the subscription says, as far as the event is the latest.
LEMMA WebhookBound ==
    ASSUME IInv, Webhook, NEW u \in Users
    PROVE  Bound(u)'
<1>1. PICK e \in events :
         ApplyEvent(e) /\ heard' = [heard EXCEPT ![e.customer] = e.n] /\ subs' = subs
    BY DEF Webhook
<1> DEFINE c == e.customer
           s == subs[c]
<1>2. /\ c \in Customers /\ e.n \in Nat /\ s # None /\ s \in Subscription
      /\ e.n = s.n => e.status = s.status
      /\ e.status = "canceled" => s.status = "canceled" /\ e.n = s.n
      /\ s.n = 1 => s.status = "active"
    BY BoundsAssumption DEF IInv, TypeOK, Event, EventsInv
<1>3. /\ users \in [Users -> Billing] /\ placed \in [Users -> BOOLEAN]
      /\ heard \in [Customers -> 0..MaxEvents] /\ Bound(u) /\ users[u] \in Billing
    BY DEF IInv, TypeOK
<1>4. heard'[c] = e.n /\ \A d \in Customers \ {c} : heard'[d] = heard[d]
    BY <1>1, <1>2, <1>3
<1>5. ASSUME users'[u] = users[u], placed'[u] = placed[u], users[u].customer # c
      PROVE  Bound(u)'
    BY <1>1, <1>3, <1>4, <1>5, BoundKept DEF Billing
<1>6. CASE e.n = 1 /\ BindSubscription(s.user, c, s.plan)
  <2>1. CASE u = s.user
    <3>1. users'[u].customer = c /\ users'[u].plan = s.plan /\ users'[u].status = "active"
          /\ placed'[u] = FALSE
        BY <1>3, <1>6, <2>1 DEF BindSubscription, Billing
    <3> QED BY <1>1, <1>2, <1>4, <1>6, <2>1, <3>1 DEF Bound, Reconciled
  <2>2. CASE u # s.user
    <3>1. users'[u] = users[u] /\ placed'[u] = placed[u]
        BY <1>3, <1>6, <2>2 DEF BindSubscription
    <3>2. users[u].customer # c
        BY <1>2, <1>3, <2>2, CustomersAssumption DEF Bound
    <3> QED BY <1>5, <3>1, <3>2
  <2> QED BY <2>1, <2>2
<1>7. CASE e.n # 1 /\ e.status = "canceled" /\ CancelSubscription(ByCustomer(c))
  <2>1. CASE users[u].customer = c
    <3>1. users'[u] = Canceled(users[u])
        BY <1>3, <1>7, <2>1 DEF CancelSubscription, ByCustomer
    <3>2. users'[u].customer = c /\ users'[u].plan = Free /\ users'[u].status = "canceled"
        BY <1>3, <2>1, <3>1 DEF Canceled, Billing
    <3>3. subs'[c] # None /\ subs'[c].user = u /\ s.status = "canceled"
        BY <1>1, <1>2, <1>3, <1>7, <2>1, CustomersAssumption DEF Bound
    <3> QED BY <1>1, <3>2, <3>3 DEF Bound, Reconciled
  <2>2. CASE users[u].customer # c
    <3>1. users'[u] = users[u] /\ placed'[u] = placed[u]
        BY <1>3, <1>7, <2>2 DEF CancelSubscription, ByCustomer
    <3> QED BY <1>5, <2>2, <3>1
  <2> QED BY <2>1, <2>2
<1>8. CASE e.status # "canceled" /\ SetSubscriptionStatus(ByCustomer(c), e.status)
  <2>1. CASE users[u].customer = c
    <3>1. users'[u].customer = c /\ users'[u].plan = users[u].plan /\ users'[u].status = e.status
          /\ placed'[u] = placed[u]
        BY <1>3, <1>8, <2>1 DEF SetSubscriptionStatus, ByCustomer, Billing
    <3>2. s.user = u /\ Reconciled(users[u], s, heard[c], placed[u])
        BY <1>2, <1>3, <2>1, CustomersAssumption DEF Bound
    <3> QED BY <1>1, <1>2, <1>4, <1>8, <3>1, <3>2 DEF Bound, Reconciled
  <2>2. CASE users[u].customer # c
    <3>1. users'[u] = users[u] /\ placed'[u] = placed[u]
        BY <1>3, <1>8, <2>2 DEF SetSubscriptionStatus, ByCustomer
    <3> QED BY <1>5, <2>2, <3>1
  <2> QED BY <2>1, <2>2
<1> QED BY <1>1, <1>6, <1>7, <1>8 DEF ApplyEvent

LEMMA BoundStep ==
    ASSUME IInv, [Next]_vars, NEW u \in Users
    PROVE  Bound(u)'
<1>a. /\ users \in [Users -> Billing] /\ Bound(u) /\ EventsInv
      /\ subs \in [Customers -> Subscription \cup {None}]
      /\ heard \in [Customers -> 0..MaxEvents]
    BY DEF IInv, TypeOK
<1>1. ASSUME NEW r \in Requests, Handle(r) PROVE Bound(u)'
    BY <1>1, HandleBound
<1>2. CASE Pay
  <2>1. PICK c \in Customers :
          subs[c] = None /\ \A d \in Customers \ {c} : subs'[d] = subs[d]
      BY <1>a, <1>2 DEF Pay
  <2>2. users[u].customer # NoCustomer
           => subs'[users[u].customer] = subs[users[u].customer]
      BY <1>a, <2>1 DEF Bound, Billing
  <2> QED BY <1>a, <1>2, <2>2, BoundKept DEF Pay
<1>3. CASE Change
  <2>1. PICK c \in Customers, s \in Statuses :
          /\ subs[c] # None /\ subs[c].status \in Live /\ subs[c].n < MaxEvents
          /\ subs' = [subs EXCEPT ![c].status = s, ![c].n = @ + 1]
          /\ UNCHANGED <<users, heard, placed>>
      BY <1>3 DEF Change
  <2>2. CASE users[u].customer # c
    <3>1. users[u].customer # NoCustomer
             => subs'[users[u].customer] = subs[users[u].customer]
        BY <1>a, <2>1, <2>2 DEF Billing
    <3> QED BY <1>a, <2>1, <3>1, BoundKept
  <2>3. CASE users[u].customer = c
    <3> DEFINE new == [subs[c] EXCEPT !.status = s, !.n = subs[c].n + 1]
    <3>1. subs[c] \in Subscription /\ subs[c].n \in Nat /\ heard[c] \in Nat
          /\ subs[c].n + 1 \in 1..MaxEvents
        BY <1>a, <2>1, BoundsAssumption DEF Subscription
    <3>2. subs'[c] = new
        BY <1>a, <2>1
    <3>3. new \in Subscription
          /\ new.user = subs[c].user /\ new.plan = subs[c].plan /\ new.n = subs[c].n + 1
        BY <3>1 DEF Subscription
    <3>4. new # None
        BY <3>3, NullsAssumption
    <3>5. heard[c] <= subs[c].n
        BY <1>a, <2>1 DEF EventsInv
    <3>6. subs[c].user = u /\ Reconciled(users[u], subs[c], heard[c], placed[u])
        BY <1>a, <2>3, CustomersAssumption DEF Bound
    <3> HIDE DEF new
    <3> QED BY <2>1, <2>3, <3>1, <3>2, <3>3, <3>4, <3>5, <3>6 DEF Bound, Reconciled, Live
  <2> QED BY <2>2, <2>3
<1>4. CASE Webhook
    BY <1>4, WebhookBound
<1>5. CASE UNCHANGED <<users, placed, subs, heard>>
    BY <1>a, <1>5, BoundKept
<1> QED BY <1>1, <1>2, <1>3, <1>4, <1>5
        DEF Next, CreatePlan, UpdatePlan, DropEvent, provider, vars

LEMMA PlansInvariant == Spec => []IInv
<1>1. IInv /\ [Next]_vars => IInv'
    BY TypeStep, EventsStep, BoundStep DEF IInv
<1> QED BY <1>1, InvInit, PTL DEF Spec

----------------------------------------------------------------------------
\* Once the latest event about the customer on a user's record was applied, the status
\* on record is the provider's, whatever the order, the repetitions and the losses
\* stripe_webhook met before.
THEOREM StatusIsReconciled == Spec => []StatusReconciled
<1>1. IInv => StatusReconciled
    BY DEF IInv, Bound, Reconciled, StatusReconciled, UpToDate
<1> QED BY <1>1, PlansInvariant, PTL

\* ... and the plan is the one paid for while the subscription lives and the free one
\* afterwards, unless an operator gave another.
THEOREM PlanIsReconciled == Spec => []PlanReconciled
<1>1. IInv => PlanReconciled
    BY DEF IInv, Bound, Reconciled, PlanReconciled, UpToDate
<1> QED BY <1>1, PlansInvariant, PTL

=============================================================================
