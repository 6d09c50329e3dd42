-------------------------------- MODULE Plans --------------------------------
(***************************************************************************)
(* Plans, quotas and subscriptions of the sync server (admin/plans.rs,     *)
(* admin/actions.rs, admin/site.rs, billing.rs, store.rs).                 *)
(*                                                                         *)
(* A plan is a row that users name loosely.  The payment provider is       *)
(* external: it opens a customer per completed checkout, and tells the     *)
(* server about each change of a subscription by an event that may come    *)
(* late, out of order or twice.  The server answers an event with success  *)
(* whether or not its UPDATE succeeded, so a failed one never comes again. *)
(***************************************************************************)
EXTENDS Naturals, FiniteSets

CONSTANTS
    Users,
    PlanNames, Free, Pro,    \* names an operator may type; the two plans of the migration
    Quotas,                  \* sizes, in units
    Customers,               \* customers the provider may open, one per checkout
    Requests, MaxRequests,   \* handlers at once; bound on the requests of a behaviour
    MaxEvents,               \* bound on the events of one subscription
    NoPlan, NoQuota, NoCustomer, NoStatus, None

ASSUME NamesAssumption == Free \in PlanNames /\ Pro \in PlanNames /\ Free # Pro
ASSUME QuotasAssumption == Quotas \subseteq Nat /\ Quotas # {} /\ NoQuota \notin Quotas
ASSUME CustomersAssumption == NoCustomer \notin Customers
ASSUME BoundsAssumption == MaxRequests \in Nat /\ MaxEvents \in Nat \ {0}

Live     == {"active", "past_due"}
Statuses == Live \cup {"canceled"}

PlanRow == [quota : Quotas, sold : BOOLEAN]

\* The billing columns of a row of users.
Billing == [plan : PlanNames, quota : Quotas \cup {NoQuota},
            customer : Customers \cup {NoCustomer}, status : Statuses \cup {NoStatus}]

\* An event of the provider: the n-th of its customer.
Event == [customer : Customers, n : 1..MaxEvents, status : Statuses]

\* The provider's side of a checkout.
Subscription == [user : Users, plan : PlanNames, status : Statuses, n : 1..MaxEvents]

Steps == {"plan_quota", "quota", "delete_plan", "price", "checkout"}
Request == [pc : Steps, user : Users \cup {None}, plan : PlanNames, quota : Quotas \cup {NoQuota}]

ASSUME NullsAssumption == NoPlan \notin PlanRow /\ None \notin Subscription

VARIABLES
    plans,      \* name -> row, or NoPlan
    users,      \* user -> billing columns
    req, left,  \* the handlers in flight; requests still to come
    links,      \* checkout links that are out: <<user, plan>>
    subs,       \* the provider: customer -> subscription, or None
    events,     \* events under way
    heard,      \* history: customer -> number of the last event applied
    placed      \* history: the user's plan is what an operator chose, not what was paid for

vars == <<plans, users, req, left, links, subs, events, heard, placed>>
provider == <<links, subs, events, heard>>

TypeOK ==
    /\ plans \in [PlanNames -> PlanRow \cup {NoPlan}]
    /\ users \in [Users -> Billing]
    /\ req \in [Requests -> Request \cup {None}] /\ left \in 0..MaxRequests
    /\ links \subseteq Users \X PlanNames
    /\ subs \in [Customers -> Subscription \cup {None}]
    /\ events \subseteq Event
    /\ heard \in [Customers -> 0..MaxEvents]
    /\ placed \in [Users -> BOOLEAN]

\* The two plans of the migration, one of which an operator has since put on sale.
Init ==
    /\ plans = [p \in PlanNames |->
          IF p \in {Free, Pro} THEN [quota |-> CHOOSE q \in Quotas : TRUE, sold |-> p = Pro] ELSE NoPlan]
    /\ users = [u \in Users |->
          [plan |-> Free, quota |-> NoQuota, customer |-> NoCustomer, status |-> NoStatus]]
    /\ req = [r \in Requests |-> None] /\ left = MaxRequests
    /\ links = {} /\ subs = [c \in Customers |-> None] /\ events = {}
    /\ heard = [c \in Customers |-> 0]
    /\ placed = [u \in Users |-> FALSE]

Known(p) == plans[p] # NoPlan
OnPlan(p) == {u \in Users : users[u].plan = p}

At(r, pc) == req[r] # None /\ req[r].pc = pc
Goto(r, pc) == req' = [req EXCEPT ![r].pc = pc]
Answer(r) == req' = [req EXCEPT ![r] = None]

Arrive(r, pc, u, p, q) ==
    /\ req[r] = None /\ left > 0 /\ left' = left - 1
    /\ req' = [req EXCEPT ![r] = [pc |-> pc, user |-> u, plan |-> p, quota |-> q]]

----------------------------------------------------------------------------
(* Plans *)

\* create and update take one statement each; the name of a plan is its key.
CreatePlan ==
    /\ left > 0 /\ left' = left - 1
    /\ \E p \in PlanNames, row \in PlanRow :
          ~Known(p) /\ plans' = [plans EXCEPT ![p] = row]
    /\ UNCHANGED <<users, req, provider, placed>>

UpdatePlan ==
    /\ left > 0 /\ left' = left - 1
    /\ \E p \in PlanNames, row \in PlanRow :
          Known(p) /\ plans' = [plans EXCEPT ![p] = row]
    /\ UNCHANGED <<users, req, provider, placed>>

Unused(p) == OnPlan(p) = {}

\* delete counts the plan's users ...
CountUsersOnPlan(r) ==
    /\ \E p \in PlanNames : Unused(p) /\ Arrive(r, "delete_plan", None, p, NoQuota)
    /\ UNCHANGED <<plans, users, provider, placed>>

\* ... and deletes it, whoever has joined since.
DeletePlan(r) ==
    /\ At(r, "delete_plan")
    /\ plans' = [plans EXCEPT ![req[r].plan] = NoPlan]
    /\ Answer(r)
    /\ UNCHANGED <<users, left, provider, placed>>

----------------------------------------------------------------------------
(* An operator sets a user's plan and quota: two statements *)

SetQuota(r) ==
    /\ \E u \in Users, p \in PlanNames, q \in Quotas \cup {NoQuota} : Arrive(r, "plan_quota", u, p, q)
    /\ UNCHANGED <<plans, users, provider, placed>>

\* The name is not looked up.
SetPlan(r) ==
    /\ At(r, "plan_quota")
    /\ users' = [users EXCEPT ![req[r].user].plan = req[r].plan]
    /\ placed' = [placed EXCEPT ![req[r].user] = TRUE]
    /\ Goto(r, "quota")
    /\ UNCHANGED <<plans, left, provider>>

WriteQuota(r) ==
    /\ At(r, "quota")
    /\ users' = [users EXCEPT ![req[r].user].quota = req[r].quota]
    /\ Answer(r)
    /\ UNCHANGED <<plans, left, provider, placed>>

----------------------------------------------------------------------------
(* Checkout: by the user (site.rs) or by an operator for them (actions.rs) *)

\* user_billing: the account exists and has an address.
Subscribe(r) ==
    /\ \E u \in Users, p \in PlanNames : Arrive(r, "price", u, p, NoQuota)
    /\ UNCHANGED <<plans, users, provider, placed>>

Purchasable(p) == Known(p) /\ plans[p].sold

PlanPrice(r) ==
    /\ At(r, "price")
    /\ IF Purchasable(req[r].plan) THEN Goto(r, "checkout") ELSE Answer(r)
    /\ UNCHANGED <<plans, users, left, provider, placed>>

\* checkout_url: the price, the user and the plan's name travel with the link.
CheckoutUrl(r) ==
    /\ At(r, "checkout")
    /\ links' = links \cup {<<req[r].user, req[r].plan>>}
    /\ Answer(r)
    /\ UNCHANGED <<plans, users, left, subs, events, heard, placed>>

\* A statement, the provider's answer or the connection fails.
Fail(r) ==
    /\ req[r] # None
    /\ Answer(r)
    /\ UNCHANGED <<plans, users, left, provider, placed>>

----------------------------------------------------------------------------
(* The provider *)

\* A user pays: a new customer, the link's plan.
Pay == \E l \in links, c \in Customers :
    /\ subs[c] = None
    /\ subs' = [subs EXCEPT ![c] = [user |-> l[1], plan |-> l[2], status |-> "active", n |-> 1]]
    /\ events' = events \cup {[customer |-> c, n |-> 1, status |-> "active"]}
    /\ links' = links \ {l}
    /\ UNCHANGED <<plans, users, req, left, heard, placed>>

\* A payment fails or succeeds after all, or the subscription ends for good.
Change == \E c \in Customers, s \in Statuses :
    /\ subs[c] # None /\ subs[c].status \in Live /\ s # subs[c].status /\ subs[c].n < MaxEvents
    /\ subs' = [subs EXCEPT ![c].status = s, ![c].n = @ + 1]
    /\ events' = events \cup {[customer |-> c, n |-> subs[c].n + 1, status |-> s]}
    /\ UNCHANGED <<plans, users, req, left, links, heard, placed>>

----------------------------------------------------------------------------
(* The webhook *)

\* Mutant: events are matched by the user who pays, not by the customer on record.
ByCustomer_Payer(c) == {subs[c].user}

\* The rows an event about customer c updates.
ByCustomer(c) == {u \in Users : users[u].customer = c}

\* Mutant: a cancellation is only noted.
Canceled_KeepsPlan(b) == [b EXCEPT !.status = "canceled"]

Canceled(b) == [b EXCEPT !.plan = Free, !.status = "canceled"]

\* checkout.session.completed
BindSubscription(u, c, p) ==
    /\ users' = [users EXCEPT ![u].customer = c, ![u].plan = p, ![u].status = "active"]
    /\ placed' = [placed EXCEPT ![u] = FALSE]

\* customer.subscription.updated
SetSubscriptionStatus(who, status) ==
    /\ users' = [u \in Users |-> IF u \in who THEN [users[u] EXCEPT !.status = status] ELSE users[u]]
    /\ UNCHANGED placed

\* customer.subscription.deleted
CancelSubscription(who) ==
    /\ users' = [u \in Users |-> IF u \in who THEN Canceled(users[u]) ELSE users[u]]
    /\ placed' = [u \in Users |-> IF u \in who THEN FALSE ELSE placed[u]]

\* The first event of a customer completes the checkout.
ApplyEvent(e) ==
    IF e.n = 1 THEN BindSubscription(subs[e.customer].user, e.customer, subs[e.customer].plan)
    ELSE IF e.status = "canceled" THEN CancelSubscription(ByCustomer(e.customer))
    ELSE SetSubscriptionStatus(ByCustomer(e.customer), e.status)

\* The event may be sent again although it was answered.
Webhook == \E e \in events :
    /\ ApplyEvent(e)
    /\ heard' = [heard EXCEPT ![e.customer] = e.n]
    /\ events' \in {events, events \ {e}}
    /\ UNCHANGED <<plans, req, left, links, subs>>

\* The UPDATE fails; the answer is a success all the same.
DropEvent == \E e \in events :
    /\ events' = events \ {e}
    /\ UNCHANGED <<plans, users, req, left, links, subs, heard, placed>>

Handle(r) ==
    \/ CountUsersOnPlan(r) \/ DeletePlan(r)
    \/ SetQuota(r) \/ SetPlan(r) \/ WriteQuota(r)
    \/ Subscribe(r) \/ PlanPrice(r) \/ CheckoutUrl(r) \/ Fail(r)

Next ==
    \/ \E r \in Requests : Handle(r)
    \/ CreatePlan \/ UpdatePlan
    \/ Pay \/ Change \/ Webhook \/ DropEvent

Spec == Init /\ [][Next]_vars

----------------------------------------------------------------------------
(* Properties *)

\* The last event applied about the customer on a user's record is the last there is;
\* however late, out of order, twice or never the earlier ones arrived, and whatever
\* became of the user's other subscriptions' events.
UpToDate(u) ==
    LET c == users[u].customer
    IN  c # NoCustomer /\ heard[c] = subs[c].n

\* "It reconciles our copy of a user's plan/status with Stripe's subscription
\* events" (actions.rs, stripe_webhook): the status on record is the provider's.
StatusReconciled == \A u \in Users : UpToDate(u) => users[u].status = subs[users[u].customer].status

\* While the subscription lives the user has the plan they paid for, afterwards the
\* free one, unless an operator gave them another (store.rs, bind_subscription and
\* set_subscription_by_customer).
PlanReconciled == \A u \in Users : UpToDate(u) /\ ~placed[u] =>
    users[u].plan = IF subs[users[u].customer].status = "canceled" THEN Free
                    ELSE subs[users[u].customer].plan

==============================================================================
