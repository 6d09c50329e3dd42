--------------------------- MODULE AccountsProofs ---------------------------
(***************************************************************************)
(* What holds of Accounts for any number of requests, accounts, names and  *)
(* addresses: types, and the four properties that its run checks.          *)
(*                                                                         *)
(* Three of them need more than the types.  DeletedAsTyped: ids are handed *)
(* out in order, and a request before the delete was confirmed.  SpentOnce:*)
(* rows and requests bear distinct numbers, and a row that brought         *)
(* something about, or that one request holds, is used and stays so.       *)
(***************************************************************************)
EXTENDS Accounts, Integers, TLAPS

AccountOps == {"disable_user", "enable_user", "rename_user", "toggle_admin", "delete_user",
               "set_password", "set_email"}

AccountSteps == {"insert", "insert_reset", "password", "email", "disable", "enable", "rename",
                 "read_admin", "admin", "impact", "delete"}

NamingOps == {"create_user", "rename_user"}

NamingSteps == {"consume_invite", "create", "rename"}

\* What a request carries to a step: a step about an account has one, only a handler
\* behind an extractor stands before it, an operator's flag changes only for an
\* operator, and a name is given where one was typed.
Formed(q) ==
    /\ q.pc \in AccountSteps => q.id \in Ids
    /\ q.pc = "extract" => q.op \in PortalOps \cup OperatorOps
    /\ q.pc = "extract" /\ q.op \in AccountOps => q.id \in Ids
    /\ q.pc \in {"read_admin", "admin"} => q.asAdmin
    /\ q.pc = "extract" /\ q.op \in NamingOps => q.handle \in Typed
    /\ q.pc \in NamingSteps => q.handle \in Typed

RequestsFormed == \A r \in Requests : req[r] # None => Formed(req[r])

TypeInv == TypeOK /\ RequestsFormed

----------------------------------------------------------------------------
(***************************************************************************)
(* Types                                                                   *)
(***************************************************************************)
\* The first state is well formed.
LEMMA TypeInit == Init => TypeInv
<1> SUFFICES ASSUME Init PROVE TypeInv
    OBVIOUS
<1>1. (CHOOSE e \in Emails : TRUE) \in Emails
    BY EmailsAssumption
<1>2. users \in [Ids -> User \cup {NoUser}] /\ nextId \in 1..(MaxUsers + 1)
    BY <1>1, HandlesAssumption, BoundsAssumption DEF Init, Ids, User
<1>3. sessions \subseteq Credential /\ devices \subseteq Credential
  <2>1. ASSUME NEW u \in {1, 2}
        PROVE  [n |-> u - 1, user |-> u, cut |-> 0, raced |-> FALSE] \in Credential
      BY BoundsAssumption DEF Credential, Ids, Numbers
  <2>2. [n |-> 1, user |-> 2, cut |-> 0, raced |-> FALSE] \in Credential
      BY BoundsAssumption DEF Credential, Ids, Numbers
  <2> QED BY <2>1, <2>2 DEF Init
<1>4. resets \subseteq Token /\ invites \subseteq Token
    BY <1>1, BoundsAssumption DEF Init, Token, Ids, Numbers
<1>5. spent \in [Numbers -> [resets : Nat, invites : Nat]] /\ cuts \in [Ids -> Nat]
    BY DEF Init
<1>6. req \in [Requests -> Request \cup {None}] /\ left \in 0..MaxRequests /\ RequestsFormed
    BY BoundsAssumption DEF Init, RequestsFormed
<1> QED BY <1>2, <1>3, <1>4, <1>5, <1>6 DEF TypeInv, TypeOK

\* A step of one request changes that request only, and leaves it well formed.
LEMMA RequestStep ==
    ASSUME TypeInv, NEW r \in Requests, NEW q \in Request \cup {None},
           q # None => Formed(q),
           req' = [req EXCEPT ![r] = q]
    PROVE  req' \in [Requests -> Request \cup {None}] /\ RequestsFormed'
BY DEF TypeInv, TypeOK, RequestsFormed

\* An answer ends the request.
LEMMA AnswerStep ==
    ASSUME TypeInv, NEW r \in Requests, Answer(r)
    PROVE  req' \in [Requests -> Request \cup {None}] /\ RequestsFormed'
BY RequestStep DEF Answer

\* A request moves to a step that asks nothing more of it.
LEMMA GotoStep ==
    ASSUME TypeInv, NEW r \in Requests, NEW pc \in Steps, req[r] # None, Goto(r, pc),
           pc \in AccountSteps => req[r].id \in Ids, pc # "extract",
           pc \in {"read_admin", "admin"} => req[r].asAdmin, pc \notin NamingSteps
    PROVE  req' \in [Requests -> Request \cup {None}] /\ RequestsFormed'
<1> DEFINE q == [req[r] EXCEPT !.pc = pc]
<1>1. req[r] \in Request
    BY DEF TypeInv, TypeOK
<1>2. q \in Request /\ q.pc = pc /\ q.id = req[r].id /\ q.asAdmin = req[r].asAdmin
    BY <1>1 DEF Request
<1>3. req' = [req EXCEPT ![r] = q]
    BY DEF Goto
<1>4. Formed(q)
    BY <1>2 DEF Formed
<1> HIDE DEF q
<1> QED BY <1>2, <1>3, <1>4, RequestStep

\* A request that arrives takes the next number.
LEMMA ArriveStep ==
    ASSUME TypeInv, NEW r \in Requests, NEW q \in Request, Formed(q), Arrive(r, q)
    PROVE  TypeInv'
<1>1. req' \in [Requests -> Request \cup {None}] /\ RequestsFormed'
    BY RequestStep DEF Arrive
<1>2. left' \in 0..MaxRequests
    BY BoundsAssumption DEF Arrive, TypeInv, TypeOK
<1> QED BY <1>1, <1>2 DEF Arrive, tables, TypeInv, TypeOK

\* A request as it arrives, before what was typed is filled in.
LEMMA FreshTyped ==
    ASSUME TypeInv, left > 0, NEW op \in Ops, NEW pc \in Steps
    PROVE  Fresh(op, pc) \in Request
<1>1. MaxRequests - left + 2 \in Numbers /\ 0 \in Numbers
    BY BoundsAssumption DEF TypeInv, TypeOK, Numbers
<1> QED BY <1>1 DEF Fresh, Request

\* Every kind of request arrives well formed.
LEMMA ArrivalTyped == ASSUME TypeInv, NEW r \in Requests, Arrivals(r) PROVE TypeInv'
<1>1. ASSUME NEW op \in Ops, NEW pc \in Steps, left > 0
      PROVE  /\ Fresh(op, pc) \in Request /\ Fresh(op, pc).op = op /\ Fresh(op, pc).pc = pc
             /\ Fresh(op, pc).asAdmin = FALSE
    BY <1>1, FreshTyped DEF Fresh
<1>2. left > 0
    BY DEF Arrivals, SignIn, Forgot, Reset, Signup, Portal, Operate, OperateMore, Arrive
<1>3. \A s \in sessions : s.n \in Numbers
    BY DEF TypeInv, TypeOK, Credential
<1>4. \A d \in devices : d.n \in Nat
    BY DEF TypeInv, TypeOK, Credential, Numbers
<1>5. \A t \in resets \cup invites : t.n \in Nat
    BY DEF TypeInv, TypeOK, Token, Numbers
<1>6. Typed \subseteq Handles \cup {Blank, NoHandle}
    BY DEF Typed
<1>7. Ids \subseteq Nat
    BY DEF Ids
<1>8. CASE SignIn(r)
  <2> PICK op \in {"login", "issue_token"}, h \in Handles :
           Arrive(r, [Fresh(op, "account") EXCEPT !.handle = h])
      BY <1>8 DEF SignIn
  <2> DEFINE f == Fresh(op, "account")
             q == [f EXCEPT !.handle = h]
  <2>0. op \in Ops /\ "account" \in Steps
      BY DEF Ops, PublicOps, Steps
  <2>1. f \in Request /\ f.op = op /\ f.pc = "account" /\ f.asAdmin = FALSE
      BY <2>0, <1>1, <1>2
  <2> HIDE DEF f
  <2>2. /\ q \in Request /\ q.op = f.op /\ q.pc = f.pc /\ q.asAdmin = f.asAdmin
      BY <2>1, <1>6 DEF Request
  <2>3. Formed(q)
      BY <2>1, <2>2 DEF Formed, AccountSteps, NamingOps, NamingSteps
  <2>4. Arrive(r, q)
      BY DEF f
  <2> HIDE DEF q
  <2> QED BY <2>2, <2>3, <2>4, ArriveStep
<1>9. CASE Forgot(r)
  <2> PICK e \in Emails : Arrive(r, [Fresh("forgot", "find") EXCEPT !.email = e])
      BY <1>9 DEF Forgot
  <2> DEFINE f == Fresh("forgot", "find")
             q == [f EXCEPT !.email = e]
  <2>0. "forgot" \in Ops /\ "find" \in Steps
      BY DEF Ops, PublicOps, Steps
  <2>1. f \in Request /\ f.op = "forgot" /\ f.pc = "find" /\ f.asAdmin = FALSE
      BY <2>0, <1>1, <1>2
  <2> HIDE DEF f
  <2>2. /\ q \in Request /\ q.op = f.op /\ q.pc = f.pc /\ q.asAdmin = f.asAdmin
      BY <2>1, <1>6 DEF Request
  <2>3. Formed(q)
      BY <2>1, <2>2 DEF Formed, AccountSteps, NamingOps, NamingSteps
  <2>4. Arrive(r, q)
      BY DEF f
  <2> HIDE DEF q
  <2> QED BY <2>2, <2>3, <2>4, ArriveStep
<1>10. CASE Reset(r)
  <2> PICK t \in resets : Arrive(r, [Fresh("reset", "consume_reset") EXCEPT !.id = t.n])
      BY <1>10 DEF Reset
  <2> DEFINE f == Fresh("reset", "consume_reset")
             q == [f EXCEPT !.id = t.n]
  <2>0. "reset" \in Ops /\ "consume_reset" \in Steps
      BY DEF Ops, PublicOps, Steps
  <2>1. f \in Request /\ f.op = "reset" /\ f.pc = "consume_reset" /\ f.asAdmin = FALSE
      BY <2>0, <1>1, <1>2
  <2> HIDE DEF f
  <2>2. /\ q \in Request /\ q.op = f.op /\ q.pc = f.pc /\ q.asAdmin = f.asAdmin
      BY <2>1, <1>5 DEF Request
  <2>3. Formed(q)
      BY <2>1, <2>2 DEF Formed, AccountSteps, NamingOps, NamingSteps
  <2>4. Arrive(r, q)
      BY DEF f
  <2> HIDE DEF q
  <2> QED BY <2>2, <2>3, <2>4, ArriveStep
<1>11. ASSUME NEW h \in Typed, NEW t \in invites,
              Arrive(r, [Fresh("signup", "consume_invite") EXCEPT !.handle = h, !.id = t.n])
       PROVE  TypeInv'
  <2> DEFINE f == Fresh("signup", "consume_invite")
             q == [f EXCEPT !.handle = h, !.id = t.n]
  <2>0. "signup" \in Ops /\ "consume_invite" \in Steps
      BY <1>11 DEF Ops, PublicOps, Steps
  <2>1. f \in Request /\ f.op = "signup" /\ f.pc = "consume_invite" /\ f.asAdmin = FALSE
      BY <2>0, <1>1, <1>2
  <2> HIDE DEF f
  <2>2. /\ q \in Request /\ q.op = f.op /\ q.pc = f.pc /\ q.asAdmin = f.asAdmin /\ q.handle = h
      BY <2>1, <1>5, <1>6, <1>11 DEF Request
  <2>3. Formed(q)
      BY <2>1, <2>2, <1>11 DEF Formed, AccountSteps, NamingOps, NamingSteps
  <2>4. Arrive(r, q)
      BY <1>11 DEF f
  <2> HIDE DEF q
  <2> QED BY <2>2, <2>3, <2>4, ArriveStep
<1>12. ASSUME NEW h \in Typed, NEW e \in Emails \cup {NoEmail},
              Arrive(r, [Fresh("signup", "create") EXCEPT !.handle = h, !.email = e])
       PROVE  TypeInv'
  <2> DEFINE f == Fresh("signup", "create")
             q == [f EXCEPT !.handle = h, !.email = e]
  <2>0. "signup" \in Ops /\ "create" \in Steps
      BY <1>12 DEF Ops, PublicOps, Steps
  <2>1. f \in Request /\ f.op = "signup" /\ f.pc = "create" /\ f.asAdmin = FALSE
      BY <2>0, <1>1, <1>2
  <2> HIDE DEF f
  <2>2. /\ q \in Request /\ q.op = f.op /\ q.pc = f.pc /\ q.asAdmin = f.asAdmin /\ q.handle = h
      BY <2>1, <1>6, <1>12 DEF Request
  <2>3. Formed(q)
      BY <2>1, <2>2, <1>12 DEF Formed, AccountSteps, NamingOps, NamingSteps
  <2>4. Arrive(r, q)
      BY <1>12 DEF f
  <2> HIDE DEF q
  <2> QED BY <2>2, <2>3, <2>4, ArriveStep
<1>13. ASSUME NEW op \in {"own_password", "logout"}, NEW s \in sessions,
              Arrive(r, [Fresh(op, "extract") EXCEPT !.sess = s.n])
       PROVE  TypeInv'
  <2> DEFINE f == Fresh(op, "extract")
             q == [f EXCEPT !.sess = s.n]
  <2>0. op \in Ops /\ "extract" \in Steps
      BY <1>13 DEF Ops, PortalOps, Steps
  <2>1. f \in Request /\ f.op = op /\ f.pc = "extract" /\ f.asAdmin = FALSE
      BY <2>0, <1>1, <1>2
  <2> HIDE DEF f
  <2>2. /\ q \in Request /\ q.op = f.op /\ q.pc = f.pc /\ q.asAdmin = f.asAdmin
      BY <2>1, <1>3, <1>13 DEF Request
  <2>3. Formed(q)
      BY <2>1, <2>2, <1>13 DEF Formed, AccountSteps, AccountOps, PortalOps, NamingOps, NamingSteps
  <2>4. Arrive(r, q)
      BY <1>13 DEF f
  <2> HIDE DEF q
  <2> QED BY <2>2, <2>3, <2>4, ArriveStep
<1>14. ASSUME NEW e \in Emails \cup {Blank}, NEW s \in sessions,
              Arrive(r, [Fresh("own_email", "extract") EXCEPT !.sess = s.n, !.email = e])
       PROVE  TypeInv'
  <2> DEFINE f == Fresh("own_email", "extract")
             q == [f EXCEPT !.sess = s.n, !.email = e]
  <2>0. "own_email" \in Ops /\ "extract" \in Steps
      BY <1>14 DEF Ops, PortalOps, Steps
  <2>1. f \in Request /\ f.op = "own_email" /\ f.pc = "extract" /\ f.asAdmin = FALSE
      BY <2>0, <1>1, <1>2
  <2> HIDE DEF f
  <2>2. /\ q \in Request /\ q.op = f.op /\ q.pc = f.pc /\ q.asAdmin = f.asAdmin
      BY <2>1, <1>3, <1>14 DEF Request
  <2>3. Formed(q)
      BY <2>1, <2>2, <1>14 DEF Formed, AccountSteps, AccountOps, PortalOps, NamingOps, NamingSteps
  <2>4. Arrive(r, q)
      BY <1>14 DEF f
  <2> HIDE DEF q
  <2> QED BY <2>2, <2>3, <2>4, ArriveStep
<1>15. ASSUME NEW u \in Ids, NEW s \in sessions,
              NEW op \in {"toggle_admin", "disable_user", "enable_user", "set_password"},
              Arrive(r, [Fresh(op, "extract") EXCEPT !.sess = s.n, !.id = u])
       PROVE  TypeInv'
  <2> DEFINE f == Fresh(op, "extract")
             q == [f EXCEPT !.sess = s.n, !.id = u]
  <2>0. op \in Ops /\ "extract" \in Steps
      BY <1>15 DEF Ops, OperatorOps, Steps
  <2>1. f \in Request /\ f.op = op /\ f.pc = "extract" /\ f.asAdmin = FALSE
      BY <2>0, <1>1, <1>2
  <2> HIDE DEF f
  <2>2. /\ q \in Request /\ q.op = f.op /\ q.pc = f.pc /\ q.asAdmin = f.asAdmin
        /\ q.id \in Ids
      BY <2>1, <1>3, <1>7, <1>15 DEF Request
  <2>3. Formed(q)
      BY <2>1, <2>2, <1>15 DEF Formed, AccountSteps, OperatorOps, NamingOps, NamingSteps
  <2>4. Arrive(r, q)
      BY <1>15 DEF f
  <2> HIDE DEF q
  <2> QED BY <2>2, <2>3, <2>4, ArriveStep
<1>16. ASSUME NEW u \in Ids, NEW s \in sessions, NEW h \in Typed,
              NEW op \in {"delete_user", "rename_user"},
              Arrive(r, [Fresh(op, "extract") EXCEPT !.sess = s.n, !.id = u, !.handle = h])
       PROVE  TypeInv'
  <2> DEFINE f == Fresh(op, "extract")
             q == [f EXCEPT !.sess = s.n, !.id = u, !.handle = h]
  <2>0. op \in Ops /\ "extract" \in Steps
      BY <1>16 DEF Ops, OperatorOps, Steps
  <2>1. f \in Request /\ f.op = op /\ f.pc = "extract" /\ f.asAdmin = FALSE
      BY <2>0, <1>1, <1>2
  <2> HIDE DEF f
  <2>2. /\ q \in Request /\ q.op = f.op /\ q.pc = f.pc /\ q.asAdmin = f.asAdmin /\ q.handle = h
        /\ q.id \in Ids
      BY <2>1, <1>3, <1>6, <1>7, <1>16 DEF Request
  <2>3. Formed(q)
      BY <2>1, <2>2, <1>16 DEF Formed, AccountSteps, OperatorOps, NamingOps, NamingSteps
  <2>4. Arrive(r, q)
      BY <1>16 DEF f
  <2> HIDE DEF q
  <2> QED BY <2>2, <2>3, <2>4, ArriveStep
<1>17. ASSUME NEW u \in Ids, NEW s \in sessions, NEW e \in Emails \cup {Blank},
              Arrive(r, [Fresh("set_email", "extract") EXCEPT !.sess = s.n, !.id = u, !.email = e])
       PROVE  TypeInv'
  <2> DEFINE f == Fresh("set_email", "extract")
             q == [f EXCEPT !.sess = s.n, !.id = u, !.email = e]
  <2>0. "set_email" \in Ops /\ "extract" \in Steps
      BY <1>17 DEF Ops, OperatorOps, Steps
  <2>1. f \in Request /\ f.op = "set_email" /\ f.pc = "extract" /\ f.asAdmin = FALSE
      BY <2>0, <1>1, <1>2
  <2> HIDE DEF f
  <2>2. /\ q \in Request /\ q.op = f.op /\ q.pc = f.pc /\ q.asAdmin = f.asAdmin
        /\ q.id \in Ids
      BY <2>1, <1>3, <1>7, <1>17 DEF Request
  <2>3. Formed(q)
      BY <2>1, <2>2, <1>17 DEF Formed, AccountSteps, OperatorOps, NamingOps, NamingSteps
  <2>4. Arrive(r, q)
      BY <1>17 DEF f
  <2> HIDE DEF q
  <2> QED BY <2>2, <2>3, <2>4, ArriveStep
<1>18. ASSUME NEW s \in sessions, NEW h \in Typed, NEW e \in Emails \cup {NoEmail},
              Arrive(r, [Fresh("create_user", "extract") EXCEPT !.sess = s.n, !.handle = h, !.email = e])
       PROVE  TypeInv'
  <2> DEFINE f == Fresh("create_user", "extract")
             q == [f EXCEPT !.sess = s.n, !.handle = h, !.email = e]
  <2>0. "create_user" \in Ops /\ "extract" \in Steps
      BY <1>18 DEF Ops, OperatorOps, Steps
  <2>1. f \in Request /\ f.op = "create_user" /\ f.pc = "extract" /\ f.asAdmin = FALSE
      BY <2>0, <1>1, <1>2
  <2> HIDE DEF f
  <2>2. /\ q \in Request /\ q.op = f.op /\ q.pc = f.pc /\ q.asAdmin = f.asAdmin /\ q.handle = h
      BY <2>1, <1>3, <1>6, <1>18 DEF Request
  <2>3. Formed(q)
      BY <2>1, <2>2, <1>18 DEF Formed, AccountSteps, AccountOps, OperatorOps, NamingOps, NamingSteps
  <2>4. Arrive(r, q)
      BY <1>18 DEF f
  <2> HIDE DEF q
  <2> QED BY <2>2, <2>3, <2>4, ArriveStep
<1>19. ASSUME NEW s \in sessions, NEW e \in Emails,
              Arrive(r, [Fresh("send_invite", "extract") EXCEPT !.sess = s.n, !.email = e])
       PROVE  TypeInv'
  <2> DEFINE f == Fresh("send_invite", "extract")
             q == [f EXCEPT !.sess = s.n, !.email = e]
  <2>0. "send_invite" \in Ops /\ "extract" \in Steps
      BY <1>19 DEF Ops, OperatorOps, Steps
  <2>1. f \in Request /\ f.op = "send_invite" /\ f.pc = "extract" /\ f.asAdmin = FALSE
      BY <2>0, <1>1, <1>2
  <2> HIDE DEF f
  <2>2. /\ q \in Request /\ q.op = f.op /\ q.pc = f.pc /\ q.asAdmin = f.asAdmin
      BY <2>1, <1>3, <1>19 DEF Request
  <2>3. Formed(q)
      BY <2>1, <2>2, <1>19 DEF Formed, AccountSteps, AccountOps, OperatorOps, NamingOps, NamingSteps
  <2>4. Arrive(r, q)
      BY <1>19 DEF f
  <2> HIDE DEF q
  <2> QED BY <2>2, <2>3, <2>4, ArriveStep
<1>20. ASSUME NEW s \in sessions, NEW d \in devices, NEW op \in {"revoke_device", "delete_device"},
              Arrive(r, [Fresh(op, "extract") EXCEPT !.sess = s.n, !.id = d.n])
       PROVE  TypeInv'
  <2> DEFINE f == Fresh(op, "extract")
             q == [f EXCEPT !.sess = s.n, !.id = d.n]
  <2>0. op \in Ops /\ "extract" \in Steps
      BY <1>20 DEF Ops, OperatorOps, Steps
  <2>1. f \in Request /\ f.op = op /\ f.pc = "extract" /\ f.asAdmin = FALSE
      BY <2>0, <1>1, <1>2
  <2> HIDE DEF f
  <2>2. /\ q \in Request /\ q.op = f.op /\ q.pc = f.pc /\ q.asAdmin = f.asAdmin
      BY <2>1, <1>3, <1>4, <1>20 DEF Request
  <2>3. Formed(q)
      BY <2>1, <2>2, <1>20 DEF Formed, AccountSteps, AccountOps, OperatorOps, NamingOps, NamingSteps
  <2>4. Arrive(r, q)
      BY <1>20 DEF f
  <2> HIDE DEF q
  <2> QED BY <2>2, <2>3, <2>4, ArriveStep
<1>21. OperatorSessions \subseteq sessions /\ Handles \subseteq Typed
    BY DEF OperatorSessions, Typed
<1>22. CASE Signup(r)
    BY <1>11, <1>12, <1>22 DEF Signup
<1>23. CASE Portal(r)
    BY <1>13, <1>14, <1>23 DEF Portal
<1>24. CASE Operate(r)
  <2> PICK u \in Ids :
        \/ \E s \in sessions :
              Arrive(r, [Fresh("toggle_admin", "extract") EXCEPT !.sess = s.n, !.id = u])
        \/ \E s \in OperatorSessions, op \in {"disable_user", "enable_user", "set_password"} :
              Arrive(r, [Fresh(op, "extract") EXCEPT !.sess = s.n, !.id = u])
        \/ \E s \in OperatorSessions, h \in Handles :
              Arrive(r, [Fresh("delete_user", "extract") EXCEPT !.sess = s.n, !.id = u, !.handle = h])
        \/ \E s \in OperatorSessions, h \in Typed :
              Arrive(r, [Fresh("rename_user", "extract") EXCEPT !.sess = s.n, !.id = u, !.handle = h])
        \/ \E s \in OperatorSessions, e \in Emails \cup {Blank} :
              Arrive(r, [Fresh("set_email", "extract") EXCEPT !.sess = s.n, !.id = u, !.email = e])
      BY <1>24 DEF Operate
  <2> QED BY <1>15, <1>16, <1>17, <1>21
<1>25. CASE OperateMore(r)
    BY <1>18, <1>19, <1>20, <1>21, <1>25 DEF OperateMore
<1> QED BY <1>8, <1>9, <1>10, <1>22, <1>23, <1>24, <1>25 DEF Arrivals

\* What a request in flight is.
LEMMA InFlight ==
    ASSUME TypeInv, NEW r \in Requests, req[r] # None
    PROVE  /\ req[r] \in Request /\ Formed(req[r])
           /\ req[r].pc \in AccountSteps => req[r].id \in Ids /\ users[req[r].id] \in User \cup {NoUser}
BY DEF TypeInv, TypeOK, RequestsFormed, Formed

\* Steps that touch no table.
LEMMA TablesStep ==
    ASSUME TypeInv, req' \in [Requests -> Request \cup {None}], RequestsFormed',
           UNCHANGED <<tables, left, cuts, spent>>
    PROVE  TypeInv'
BY DEF TypeInv, TypeOK, tables

\* The extractor hands on a request that has what its first step needs.
LEMMA ExtractTyped == ASSUME TypeInv, NEW r \in Requests, Extract(r) PROVE TypeInv'
<1>1. UNCHANGED <<tables, left, cuts, spent>>
    BY DEF Extract
<1>2. CASE Answer(r)
    BY <1>1, <1>2, AnswerStep, TablesStep
<1>3. ASSUME NEW s \in Admitted(r),
             req' = [req EXCEPT
               ![r].pc = FirstStep[req[r].op],
               ![r].actor = s.user,
               ![r].asAdmin = users[s.user].admin,
               ![r].id = IF req[r].op \in PortalOps THEN s.user ELSE req[r].id]
      PROVE  TypeInv'
  <2> DEFINE f == req[r]
             q == [f EXCEPT !.pc = FirstStep[f.op], !.actor = s.user,
                            !.asAdmin = users[s.user].admin,
                            !.id = IF f.op \in PortalOps THEN s.user ELSE f.id]
  <2>1. f \in Request /\ f.pc = "extract" /\ f.op \in PortalOps \cup OperatorOps
        /\ (f.op \in AccountOps => f.id \in Ids) /\ f.id \in Nat
        /\ (f.op \in NamingOps => f.handle \in Typed)
      BY InFlight DEF Extract, At, Formed, Request
  <2>2. s.user \in Ids /\ users[s.user] \in User /\ (f.op \in OperatorOps => users[s.user].admin)
      BY DEF Admitted, WebSession, Exists, TypeInv, TypeOK, Credential
  <2>3. users[s.user].admin \in BOOLEAN /\ s.user \in Nat
      BY <2>2 DEF User, Ids
  <2>4. FirstStep[f.op] \in Steps
      BY <2>1 DEF FirstStep, PortalOps, OperatorOps, Steps
  <2>5. req' = [req EXCEPT ![r] = q]
      BY <1>3
  <2> HIDE DEF f
  <2>6. /\ q \in Request /\ q.op = f.op /\ q.pc = FirstStep[f.op]
        /\ q.asAdmin = users[s.user].admin /\ q.handle = f.handle
        /\ q.id = IF f.op \in PortalOps THEN s.user ELSE f.id
      BY <2>1, <2>2, <2>3, <2>4 DEF Request
  <2> HIDE DEF q
  <2>7. q.pc \in {"read_admin", "admin"} => f.op = "toggle_admin"
      BY <2>1, <2>6 DEF FirstStep, PortalOps, OperatorOps
  <2>8. q.pc \in AccountSteps => f.op \in PortalOps \cup AccountOps
      BY <2>1, <2>6 DEF FirstStep, PortalOps, OperatorOps, AccountSteps, AccountOps
  <2>9. q.pc # "extract"
      BY <2>1, <2>6 DEF FirstStep, PortalOps, OperatorOps
  <2>10. "toggle_admin" \in OperatorOps
      BY DEF OperatorOps
  <2>11. q.pc \in NamingSteps => f.op \in NamingOps
      BY <2>1, <2>6 DEF FirstStep, PortalOps, OperatorOps, NamingSteps, NamingOps
  <2>12. Formed(q)
      BY <2>1, <2>2, <2>6, <2>7, <2>8, <2>9, <2>10, <2>11 DEF Formed
  <2> QED BY <1>1, <2>5, <2>6, <2>12, RequestStep, TablesStep
<1> QED BY <1>2, <1>3 DEF Extract

\* Handlers that only read.
LEMMA ReadersTyped ==
    ASSUME TypeInv, NEW r \in Requests,
           CheckPassword(r) \/ FindByEmail(r) \/ ReadAdmin(r) \/ ReadImpact(r) \/ Fail(r)
    PROVE  TypeInv'
<1>1. UNCHANGED <<tables, left, cuts, spent>>
    BY DEF CheckPassword, FindByEmail, ReadAdmin, ReadImpact, Fail
<1>2. req[r] # None /\ req[r] \in Request /\ Formed(req[r])
    BY InFlight DEF CheckPassword, FindByEmail, ReadAdmin, ReadImpact, Fail, At
<1>3. CASE Answer(r)
    BY <1>1, <1>3, AnswerStep, TablesStep
<1>4. ASSUME NEW u \in Ids, req' = [req EXCEPT ![r].pc = "insert", ![r].id = u, ![r].cut = cuts[u]]
      PROVE  TypeInv'
  <2> DEFINE f == req[r]
             q == [f EXCEPT !.pc = "insert", !.id = u, !.cut = cuts[u]]
  <2>1. cuts[u] \in Nat /\ u \in Nat /\ "insert" \in Steps
      BY DEF TypeInv, TypeOK, Ids, Steps
  <2>2. req' = [req EXCEPT ![r] = q]
      BY <1>4
  <2>3. f \in Request
      BY <1>2
  <2> HIDE DEF f
  <2>4. q \in Request /\ q.pc = "insert" /\ q.id \in Ids
      BY <2>1, <2>3 DEF Request
  <2> HIDE DEF q
  <2> QED BY <1>1, <2>2, <2>4, RequestStep, TablesStep DEF Formed, NamingSteps
<1>5. ASSUME NEW u \in Ids, req' = [req EXCEPT ![r].pc = "insert_reset", ![r].id = u]
      PROVE  TypeInv'
  <2> DEFINE f == req[r]
             q == [f EXCEPT !.pc = "insert_reset", !.id = u]
  <2>1. u \in Nat /\ "insert_reset" \in Steps
      BY DEF Ids, Steps
  <2>2. req' = [req EXCEPT ![r] = q]
      BY <1>5
  <2>3. f \in Request
      BY <1>2
  <2> HIDE DEF f
  <2>4. q \in Request /\ q.pc = "insert_reset" /\ q.id \in Ids
      BY <2>1, <2>3 DEF Request
  <2> HIDE DEF q
  <2> QED BY <1>1, <2>2, <2>4, RequestStep, TablesStep DEF Formed, NamingSteps
<1>6. CASE ReadAdmin(r)
  <2> DEFINE f == req[r]
             known == Exists(f.id) /\ users[f.id].admin
  <2> PICK b \in {known, FALSE} : req' = [req EXCEPT ![r].pc = "admin", ![r].found = b]
      BY <1>6 DEF ReadAdmin
  <2> DEFINE q == [f EXCEPT !.pc = "admin", !.found = b]
  <2>1. req' = [req EXCEPT ![r] = q]
      OBVIOUS
  <2>2. f \in Request /\ f.asAdmin /\ f.id \in Ids /\ "admin" \in Steps
      BY <1>2, <1>6 DEF ReadAdmin, At, Formed, Steps, AccountSteps
  <2>3. b \in BOOLEAN
    <3>1. Exists(f.id) => users[f.id].admin \in BOOLEAN
        BY <2>2 DEF Exists, TypeInv, TypeOK, User
    <3>2. Exists(f.id) \in BOOLEAN
        BY DEF Exists
    <3>3. known \in BOOLEAN
        BY <3>1, <3>2
    <3> HIDE DEF known
    <3> QED BY <3>3
  <2> HIDE DEF f, known
  <2>4. q \in Request /\ q.pc = "admin" /\ q.id = f.id /\ q.asAdmin = f.asAdmin
      BY <2>2, <2>3 DEF Request
  <2> HIDE DEF q
  <2>5. Formed(q)
      BY <2>2, <2>4 DEF Formed, NamingSteps
  <2> QED BY <1>1, <2>1, <2>4, <2>5, RequestStep, TablesStep
<1>7. ASSUME ReadImpact(r), Goto(r, "delete") PROVE TypeInv'
  <2>1. req[r].id \in Ids
      BY <1>2, <1>7 DEF ReadImpact, At, Formed, AccountSteps
  <2> QED BY <1>1, <1>2, <1>7, <2>1, GotoStep, TablesStep DEF Steps, NamingSteps
<1> QED BY <1>3, <1>4, <1>5, <1>6, <1>7
        DEF CheckPassword, FindByEmail, ReadImpact, Fail, ByHandle, ByEmail

\* Sever, whoever uses it.
LEMMA SeverTyped ==
    ASSUME TypeInv, NEW u \in Ids, Sever(u)
    PROVE  sessions' \subseteq Credential /\ devices' \subseteq Credential /\ cuts' \in [Ids -> Nat]
BY DEF Sever, TypeInv, TypeOK

\* Sessions and devices.
LEMMA CredentialsTyped ==
    ASSUME TypeInv, NEW r \in Requests,
           InsertCredential(r) \/ EndSession(r) \/ EndDevice(r) \/ SetPassword(r)
    PROVE  TypeInv'
<1>1. req[r] # None /\ req[r] \in Request /\ Formed(req[r])
    BY InFlight DEF InsertCredential, EndSession, EndDevice, SetPassword, At
<1>2. CASE InsertCredential(r)
  <2> DEFINE row == [n |-> req[r].n, user |-> req[r].id, cut |-> req[r].cut,
                     raced |-> req[r].cut # cuts[req[r].id]]
  <2>1. row \in Credential
      BY <1>1, <1>2 DEF InsertCredential, At, Formed, AccountSteps, Request, Credential
  <2>2. sessions' \subseteq sessions \cup {row} /\ devices' \subseteq devices \cup {row}
      BY <1>2 DEF InsertCredential, CreateDevice, CreateAdminSession
  <2> HIDE DEF row
  <2>3. sessions' \subseteq Credential /\ devices' \subseteq Credential
      BY <2>1, <2>2 DEF TypeInv, TypeOK
  <2>4. req' \in [Requests -> Request \cup {None}] /\ RequestsFormed'
      BY <1>2, AnswerStep DEF InsertCredential
  <2> QED BY <1>2, <2>3, <2>4 DEF InsertCredential, TypeInv, TypeOK
<1>3. CASE EndSession(r) \/ EndDevice(r)
  <2>1. req' \in [Requests -> Request \cup {None}] /\ RequestsFormed'
      BY <1>3, AnswerStep DEF EndSession, EndDevice
  <2>2. sessions' \subseteq sessions /\ devices' \subseteq devices
        /\ UNCHANGED <<users, nextId, resets, invites, left, cuts, spent>>
      BY <1>3 DEF EndSession, EndDevice
  <2> QED BY <2>1, <2>2 DEF TypeInv, TypeOK
<1>4. CASE SetPassword(r)
  <2>1. req[r].id \in Ids /\ req[r].sess \in Numbers /\ cuts[req[r].id] + 1 \in Nat
      BY <1>1, <1>4 DEF SetPassword, At, Formed, AccountSteps, Request, TypeInv, TypeOK
  <2>2. sessions' \subseteq Credential /\ devices' \subseteq Credential /\ cuts' \in [Ids -> Nat]
      BY <1>4, <2>1, SeverTyped DEF SetPassword
  <2>3. req' \in [Requests -> Request \cup {None}] /\ RequestsFormed'
    <3>1. CASE Answer(r)
        BY <3>1, AnswerStep
    <3>2. CASE req' = [req EXCEPT ![r].pc = "insert", ![r].cut = cuts[req[r].id] + 1]
      <4> DEFINE f == req[r]
                 q == [f EXCEPT !.pc = "insert", !.cut = cuts[f.id] + 1]
      <4>1. req' = [req EXCEPT ![r] = q]
          BY <3>2
      <4>2. f \in Request /\ f.id \in Ids /\ cuts[f.id] + 1 \in Nat /\ "insert" \in Steps
          BY <1>1, <2>1 DEF Steps
      <4> HIDE DEF f
      <4>3. q \in Request /\ q.pc = "insert" /\ q.id = f.id
          BY <4>2 DEF Request
      <4> HIDE DEF q
      <4> QED BY <4>1, <4>2, <4>3, RequestStep DEF Formed, NamingSteps
    <3> QED BY <1>4, <3>1, <3>2 DEF SetPassword
  <2>4. spent' \in [Numbers -> [resets : Nat, invites : Nat]]
      BY <1>4, <2>1 DEF SetPassword, TypeInv, TypeOK
  <2> QED BY <1>4, <2>2, <2>3, <2>4 DEF SetPassword, TypeInv, TypeOK
<1> QED BY <1>2, <1>3, <1>4

\* Resets and invites.
LEMMA TokensTyped ==
    ASSUME TypeInv, NEW r \in Requests,
           InsertReset(r) \/ ConsumeReset(r) \/ InsertInvite(r) \/ ConsumeInvite(r)
    PROVE  TypeInv'
<1>1. req[r] # None /\ req[r] \in Request /\ Formed(req[r])
    BY InFlight DEF InsertReset, ConsumeReset, InsertInvite, ConsumeInvite, At
<1>2. ASSUME NEW table, table \subseteq Token, NEW n PROVE Used(table, n) \subseteq Token
  <2>1. \A t \in Token : [t EXCEPT !.live = FALSE] \in Token
      BY DEF Token
  <2> QED BY <1>2, <2>1 DEF Used
<1>3. CASE InsertReset(r)
  <2> DEFINE t == [n |-> req[r].n, owner |-> req[r].id, email |-> NoEmail, live |-> TRUE]
  <2>1. t \in Token
      BY <1>1, <1>3 DEF InsertReset, At, Formed, AccountSteps, Request, Token
  <2>2. resets' \subseteq resets \cup {t}
      BY <1>3 DEF InsertReset
  <2> HIDE DEF t
  <2>3. req' \in [Requests -> Request \cup {None}] /\ RequestsFormed'
      BY <1>3, AnswerStep DEF InsertReset
  <2> QED BY <1>3, <2>1, <2>2, <2>3 DEF InsertReset, TypeInv, TypeOK
<1>4. CASE InsertInvite(r)
  <2> DEFINE t == [n |-> req[r].n, owner |-> req[r].actor, email |-> req[r].email, live |-> TRUE]
  <2>1. Exists(req[r].actor) => t \in Token
      BY <1>1 DEF Exists, Request, Token
  <2>2. invites' = IF Exists(req[r].actor) THEN invites \cup {t} ELSE invites
      BY <1>4 DEF InsertInvite
  <2> HIDE DEF t
  <2>3. req' \in [Requests -> Request \cup {None}] /\ RequestsFormed'
      BY <1>4, AnswerStep DEF InsertInvite
  <2> QED BY <1>4, <2>1, <2>2, <2>3 DEF InsertInvite, TypeInv, TypeOK
<1>5. CASE ConsumeReset(r)
  <2>1. resets' \subseteq Token
    <3>1. resets \subseteq Token /\ Used(resets, req[r].id) \subseteq Token
        BY <1>2 DEF TypeInv, TypeOK
    <3>2. resets' = resets \/ resets' = Used(resets, req[r].id)
        BY <1>5 DEF ConsumeReset
    <3> QED BY <3>1, <3>2
  <2>2. req' \in [Requests -> Request \cup {None}] /\ RequestsFormed'
    <3>1. CASE Answer(r)
        BY <3>1, AnswerStep
    <3>2. ASSUME NEW t \in resets, req' = [req EXCEPT ![r].pc = "password", ![r].id = t.owner, ![r].sess = t.n]
          PROVE  req' \in [Requests -> Request \cup {None}] /\ RequestsFormed'
      <4> DEFINE f == req[r]
                 q == [f EXCEPT !.pc = "password", !.id = t.owner, !.sess = t.n]
      <4>1. req' = [req EXCEPT ![r] = q]
          BY <3>2
      <4>2. f \in Request /\ t.owner \in Ids /\ t.owner \in Nat /\ t.n \in Numbers /\ "password" \in Steps
          BY <1>1 DEF Steps, TypeInv, TypeOK, Token, Ids
      <4> HIDE DEF f
      <4>3. q \in Request /\ q.pc = "password" /\ q.id \in Ids
          BY <4>2 DEF Request
      <4> HIDE DEF q
      <4> QED BY <4>1, <4>3, RequestStep DEF Formed, NamingSteps
    <3> QED BY <1>5, <3>1, <3>2 DEF ConsumeReset, Redeemable
  <2> QED BY <1>5, <2>1, <2>2 DEF ConsumeReset, TypeInv, TypeOK
<1>6. CASE ConsumeInvite(r)
  <2>1. invites' \subseteq Token
    <3>1. invites \subseteq Token /\ Used(invites, req[r].id) \subseteq Token
        BY <1>2 DEF TypeInv, TypeOK
    <3>2. invites' = invites \/ invites' = Used(invites, req[r].id)
        BY <1>6 DEF ConsumeInvite
    <3> QED BY <3>1, <3>2
  <2>2. req' \in [Requests -> Request \cup {None}] /\ RequestsFormed'
    <3>1. CASE Answer(r)
        BY <3>1, AnswerStep
    <3>2. ASSUME NEW t \in invites, req' = [req EXCEPT ![r].pc = "create", ![r].email = t.email, ![r].sess = t.n]
          PROVE  req' \in [Requests -> Request \cup {None}] /\ RequestsFormed'
      <4> DEFINE f == req[r]
                 q == [f EXCEPT !.pc = "create", !.email = t.email, !.sess = t.n]
      <4>1. req' = [req EXCEPT ![r] = q]
          BY <3>2
      <4>2. /\ f \in Request /\ t.email \in Emails \cup {Blank, NoEmail} /\ t.n \in Numbers
            /\ "create" \in Steps /\ f.handle \in Typed
          BY <1>1, <1>6 DEF ConsumeInvite, At, Formed, NamingSteps, Steps, TypeInv, TypeOK, Token
      <4> HIDE DEF f
      <4>3. q \in Request /\ q.pc = "create" /\ q.handle = f.handle
          BY <4>2 DEF Request
      <4> HIDE DEF q
      <4> QED BY <4>1, <4>2, <4>3, RequestStep DEF Formed, AccountSteps
    <3> QED BY <1>6, <3>1, <3>2 DEF ConsumeInvite, Redeemable
  <2> QED BY <1>6, <2>1, <2>2 DEF ConsumeInvite, TypeInv, TypeOK
<1> QED BY <1>3, <1>4, <1>5, <1>6

\* Steps that change rows of users, and end the request.
LEMMA RowsStep ==
    ASSUME TypeInv, NEW r \in Requests, users' \in [Ids -> User \cup {NoUser}], Answer(r),
           UNCHANGED <<nextId, resets, invites, left, spent>>,
           sessions' \subseteq Credential, devices' \subseteq Credential, cuts' \in [Ids -> Nat]
    PROVE  TypeInv'
BY AnswerStep DEF TypeInv, TypeOK

\* Marking requests as overtaken by a rename leaves them well formed.
LEMMA RenamedTyped ==
    ASSUME TypeInv, DOMAIN req' = Requests, req' = [x \in Requests |-> req'[x]],
           \A x \in Requests :
              \/ req'[x] \in {None, req[x]}
              \/ req[x] # None /\ req'[x] = [req[x] EXCEPT !.renamed = TRUE]
    PROVE  req' \in [Requests -> Request \cup {None}] /\ RequestsFormed'
<1>1. ASSUME NEW q \in Request
      PROVE  [q EXCEPT !.renamed = TRUE] \in Request
    BY DEF Request
<1>2. ASSUME NEW q \in Request, Formed(q)
      PROVE  Formed([q EXCEPT !.renamed = TRUE])
    BY <1>2 DEF Request, Formed
<1>3. ASSUME NEW x \in Requests, req[x] # None
      PROVE  req'[x] \in Request \cup {None} /\ (req'[x] # None => Formed(req'[x]))
    BY <1>1, <1>2, <1>3, InFlight
<1>4. \A x \in Requests : req'[x] \in Request \cup {None} /\ (req'[x] # None => Formed(req'[x]))
    BY <1>3
<1> QED BY <1>4 DEF RequestsFormed

\* A row stays a row whichever column is written.
LEMMA RowEdits ==
    ASSUME TypeInv, NEW u \in Ids, Exists(u)
    PROVE  /\ \A e \in Emails \cup {Blank, NoEmail} : [users[u] EXCEPT !.email = e] \in User
           /\ \A b \in BOOLEAN : [users[u] EXCEPT !.disabled = b] \in User
           /\ \A b \in BOOLEAN : [users[u] EXCEPT !.admin = b] \in User
           /\ \A h \in Handles : [users[u] EXCEPT !.handle = h] \in User
<1>1. users[u] \in User
    BY DEF Exists, TypeInv, TypeOK
<1> QED BY <1>1 DEF User

\* Accounts.
LEMMA UsersTyped ==
    ASSUME TypeInv, NEW r \in Requests,
           CreateUser(r) \/ SetEmail(r) \/ Disable(r) \/ Enable(r) \/ Rename(r) \/ SetAdmin(r)
             \/ DeleteUser(r)
    PROVE  TypeInv'
<1>1. req[r] # None /\ req[r] \in Request /\ Formed(req[r])
    BY InFlight DEF CreateUser, SetEmail, Disable, Enable, Rename, SetAdmin, DeleteUser, At
<1>2. ASSUME NEW u \in Ids, Exists(u)
      PROVE  /\ \A e \in Emails \cup {Blank, NoEmail} : [users[u] EXCEPT !.email = e] \in User
             /\ \A b \in BOOLEAN : [users[u] EXCEPT !.disabled = b] \in User
             /\ \A b \in BOOLEAN : [users[u] EXCEPT !.admin = b] \in User
             /\ \A h \in Handles : [users[u] EXCEPT !.handle = h] \in User
    BY <1>2, RowEdits
<1>3. ASSUME NEW u \in Ids, NEW row \in User \cup {NoUser}
      PROVE  [users EXCEPT ![u] = row] \in [Ids -> User \cup {NoUser}]
    BY DEF TypeInv, TypeOK
<1>4. users \in [Ids -> User \cup {NoUser}] /\ sessions \subseteq Credential /\ devices \subseteq Credential
      /\ cuts \in [Ids -> Nat]
    BY DEF TypeInv, TypeOK
<1>5. CASE CreateUser(r)
  <2>1. CASE ~Acceptable(req[r].handle, nextId)
    <3>1. Answer(r) /\ UNCHANGED <<users, nextId, spent, sessions, devices, resets, invites, left, cuts>>
        BY <1>5, <2>1 DEF CreateUser
    <3> QED BY <3>1, <1>4, RowsStep
  <2>2. CASE Acceptable(req[r].handle, nextId)
    <3> DEFINE row == [handle |-> req[r].handle, email |-> NoEmail, admin |-> FALSE, disabled |-> FALSE]
    <3>1. users' = [users EXCEPT ![nextId] = row] /\ nextId' = nextId + 1 /\ nextId \in Ids
        BY <1>5, <2>2 DEF CreateUser
    <3>2. row \in User
        BY <1>1, <1>5, <2>2 DEF CreateUser, At, Formed, NamingSteps, Typed, Acceptable, User
    <3> HIDE DEF row
    <3>3. nextId' \in 1..(MaxUsers + 1) /\ users' \in [Ids -> User \cup {NoUser}]
      <4>1. nextId' \in 1..(MaxUsers + 1)
          BY <3>1, BoundsAssumption DEF Ids
      <4>2. users' \in [Ids -> User \cup {NoUser}]
          BY <3>1, <3>2, <1>3
      <4> QED BY <4>1, <4>2
    <3>4. req' \in [Requests -> Request \cup {None}] /\ RequestsFormed'
      <4>1. CASE Answer(r)
          BY <4>1, AnswerStep
      <4>2. ASSUME NEW pc \in {"email", "insert"},
                   req' = [req EXCEPT ![r].pc = pc, ![r].id = nextId, ![r].cut = cuts[nextId]]
            PROVE  req' \in [Requests -> Request \cup {None}] /\ RequestsFormed'
        <5> DEFINE f == req[r]
                   q == [f EXCEPT !.pc = pc, !.id = nextId, !.cut = cuts[nextId]]
        <5>1. req' = [req EXCEPT ![r] = q]
            BY <4>2
        <5>2. f \in Request /\ cuts[nextId] \in Nat /\ nextId \in Nat /\ pc \in Steps
            BY <1>1, <1>4, <3>1 DEF Ids, Steps
        <5> HIDE DEF f
        <5>3. q \in Request /\ q.pc = pc /\ q.id \in Ids
            BY <3>1, <5>2 DEF Request
        <5> HIDE DEF q
        <5>4. Formed(q)
            BY <5>3 DEF Formed, NamingSteps
        <5> QED BY <5>1, <5>3, <5>4, RequestStep
      <4>3. AfterCreate(req[r]) \in {"email", "insert", "answer"}
          BY DEF AfterCreate
      <4> QED BY <1>5, <2>2, <4>1, <4>2, <4>3 DEF CreateUser
    <3>5. spent' \in [Numbers -> [resets : Nat, invites : Nat]]
        BY <1>1, <1>5, <2>2 DEF CreateUser, Request, TypeInv, TypeOK
    <3> QED BY <1>4, <1>5, <3>3, <3>4, <3>5 DEF CreateUser, TypeInv, TypeOK
  <2> QED BY <2>1, <2>2
<1>6. CASE SetEmail(r)
  <2>1. req[r].id \in Ids /\ req[r].email \in Emails \cup {Blank, NoEmail}
      BY <1>1, <1>6 DEF SetEmail, At, Formed, AccountSteps, Request
  <2>2. users' = users
        \/ (Exists(req[r].id) /\ users' = [users EXCEPT ![req[r].id] = [users[req[r].id] EXCEPT !.email = req[r].email]])
      BY <1>6 DEF SetEmail
  <2>3. users' \in [Ids -> User \cup {NoUser}]
      BY <1>2, <1>3, <1>4, <2>1, <2>2
  <2>4. req' \in [Requests -> Request \cup {None}] /\ RequestsFormed'
    <3>1. CASE Goto(r, "insert")
        BY <1>1, <2>1, <3>1, GotoStep DEF Steps, NamingSteps
    <3>2. CASE Answer(r)
        BY <3>2, AnswerStep
    <3> QED BY <1>6, <3>1, <3>2 DEF SetEmail
  <2> QED BY <1>6, <2>3, <2>4 DEF SetEmail, TypeInv, TypeOK
<1>7. CASE Disable(r)
  <2>1. req[r].id \in Ids
      BY <1>1, <1>7 DEF Disable, At, Formed, AccountSteps
  <2>2. users' = users
        \/ (Exists(req[r].id) /\ users' = [users EXCEPT ![req[r].id] = [users[req[r].id] EXCEPT !.disabled = TRUE]])
      BY <1>7 DEF Disable
  <2>3. users' \in [Ids -> User \cup {NoUser}]
      BY <1>2, <1>3, <1>4, <2>1, <2>2
  <2> QED BY <1>7, <2>1, <2>3, SeverTyped, RowsStep DEF Disable
<1>8. CASE Enable(r)
  <2>1. req[r].id \in Ids
      BY <1>1, <1>8 DEF Enable, At, Formed, AccountSteps
  <2>2. users' = users
        \/ (Exists(req[r].id) /\ users' = [users EXCEPT ![req[r].id] = [users[req[r].id] EXCEPT !.disabled = FALSE]])
      BY <1>8 DEF Enable
  <2>3. users' \in [Ids -> User \cup {NoUser}]
      BY <1>2, <1>3, <1>4, <2>1, <2>2
  <2> QED BY <1>4, <1>8, <2>3, RowsStep DEF Enable
<1>9. CASE Rename(r)
  <2>1. req[r].id \in Ids
      BY <1>1, <1>9 DEF Rename, At, Formed, AccountSteps
  <2>2. users' = users
        \/ (/\ Exists(req[r].id) /\ req[r].handle # Blank /\ req[r].handle \in Handles \cup {Blank}
            /\ users' = [users EXCEPT ![req[r].id] = [users[req[r].id] EXCEPT !.handle = req[r].handle]])
      BY <1>1, <1>9 DEF Rename, Acceptable, At, Formed, NamingSteps, Typed
  <2>3. users' \in [Ids -> User \cup {NoUser}]
      BY <1>2, <1>3, <1>4, <2>1, <2>2
  <2>4. \A x \in Requests :
           \/ req'[x] \in {None, req[x]}
           \/ req[x] # None /\ req'[x] = [req[x] EXCEPT !.renamed = TRUE]
      BY <1>9 DEF Rename, At
  <2>5. req' \in [Requests -> Request \cup {None}] /\ RequestsFormed'
      BY <2>4, RenamedTyped, <1>9 DEF Rename
  <2> QED BY <1>9, <2>3, <2>5 DEF Rename, TypeInv, TypeOK
<1>10. CASE SetAdmin(r)
  <2>1. req[r].id \in Ids
      BY <1>1, <1>10 DEF SetAdmin, At, Formed, AccountSteps
  <2>2. users' = users
        \/ (Exists(req[r].id) /\ users' = [users EXCEPT ![req[r].id] = [users[req[r].id] EXCEPT !.admin = ~req[r].found]])
      BY <1>10 DEF SetAdmin
  <2>3. (~req[r].found) \in BOOLEAN
      OBVIOUS
  <2>4. Exists(req[r].id) => [users[req[r].id] EXCEPT !.admin = ~req[r].found] \in User
      BY <1>2, <2>1, <2>3
  <2>5. users' \in [Ids -> User \cup {NoUser}]
      BY <1>3, <1>4, <2>1, <2>2, <2>4
  <2> QED BY <1>4, <1>10, <2>5, RowsStep DEF SetAdmin
<1>11. CASE DeleteUser(r)
  <2>1. req[r].id \in Ids
      BY <1>1, <1>11 DEF DeleteUser, At, Formed, AccountSteps
  <2>2. users' = users \/ users' = [users EXCEPT ![req[r].id] = NoUser]
      BY <1>11 DEF DeleteUser
  <2>3. users' \in [Ids -> User \cup {NoUser}]
      BY <1>3, <1>4, <2>1, <2>2
  <2>4. sessions' \subseteq sessions /\ devices' \subseteq devices
      BY <1>11 DEF DeleteUser
  <2>5. sessions' \subseteq Credential /\ devices' \subseteq Credential /\ cuts' \in [Ids -> Nat]
      BY <1>4, <1>11, <2>4 DEF DeleteUser
  <2> QED BY <1>11, <2>3, <2>5, RowsStep DEF DeleteUser
<1> QED BY <1>5, <1>6, <1>7, <1>8, <1>9, <1>10, <1>11

\* The shell and time.
LEMMA WorldTyped == ASSUME TypeInv, GrantAdmin \/ ShellCreate \/ Expire PROVE TypeInv'
<1>1. UNCHANGED req /\ left' \in 0..MaxRequests
    BY BoundsAssumption DEF GrantAdmin, ShellCreate, Expire, TypeInv, TypeOK
<1>2. req' \in [Requests -> Request \cup {None}] /\ RequestsFormed'
    BY <1>1 DEF TypeInv, TypeOK, RequestsFormed
<1>3. CASE GrantAdmin
  <2> PICK u \in Ids : Exists(u) /\ users' = [users EXCEPT ![u].admin = TRUE]
      BY <1>3 DEF GrantAdmin, ByHandle
  <2>1. [users[u] EXCEPT !.admin = TRUE] \in User
      BY DEF Exists, TypeInv, TypeOK, User
  <2>2. users' \in [Ids -> User \cup {NoUser}]
      BY <2>1 DEF TypeInv, TypeOK
  <2> QED BY <1>1, <1>2, <1>3, <2>2 DEF GrantAdmin, TypeInv, TypeOK
<1>4. CASE ShellCreate
  <2> PICK h \in Handles : users' = [users EXCEPT ![nextId] =
             [handle |-> h, email |-> NoEmail, admin |-> FALSE, disabled |-> FALSE]]
      BY <1>4 DEF ShellCreate
  <2>1. [handle |-> h, email |-> NoEmail, admin |-> FALSE, disabled |-> FALSE] \in User
      BY DEF User
  <2>2. users' \in [Ids -> User \cup {NoUser}]
      BY <2>1 DEF TypeInv, TypeOK
  <2>3. nextId' \in 1..(MaxUsers + 1)
      BY <1>4, BoundsAssumption DEF ShellCreate, Ids
  <2> QED BY <1>1, <1>2, <1>4, <2>2, <2>3 DEF ShellCreate, TypeInv, TypeOK
<1>5. CASE Expire
  <2>1. ASSUME NEW table, table \subseteq Token, NEW n PROVE Used(table, n) \subseteq Token
    <3>1. \A t \in Token : [t EXCEPT !.live = FALSE] \in Token
        BY DEF Token
    <3> QED BY <2>1, <3>1 DEF Used
  <2>2. resets \subseteq Token /\ invites \subseteq Token
      BY DEF TypeInv, TypeOK
  <2>3. sessions' \subseteq sessions /\ resets' \subseteq Token /\ invites' \subseteq Token
      BY <1>5, <2>1, <2>2 DEF Expire
  <2> QED BY <1>1, <1>2, <1>5, <2>3 DEF Expire, TypeInv, TypeOK
<1> QED BY <1>3, <1>4, <1>5

\* Every step keeps the types.
LEMMA TypeStep == ASSUME TypeInv, [Next]_vars PROVE TypeInv'
<1>1. CASE UNCHANGED vars
    BY <1>1 DEF vars, TypeInv, TypeOK, RequestsFormed
<1>2. ASSUME NEW r \in Requests, Arrivals(r) PROVE TypeInv'
    BY <1>2, ArrivalTyped
<1>3. ASSUME NEW r \in Requests, Handle(r) PROVE TypeInv'
    BY <1>3, ExtractTyped, ReadersTyped, CredentialsTyped, TokensTyped, UsersTyped DEF Handle
<1> QED BY <1>1, <1>2, <1>3, WorldTyped DEF Next

\* Every state is well formed: a handler's step about an account has one, and only an
\* operator's request stands before the change of an operator's flag.
THEOREM TypeCorrect == Spec => []TypeInv
BY TypeInit, TypeStep, PTL DEF Spec

----------------------------------------------------------------------------
(***************************************************************************)
(* Live credentials are no older than the last new password                *)
(***************************************************************************)
\* A request that arrives touches no table.
LEMMA ArrivalsQuiet ==
    ASSUME NEW r \in Requests, Arrivals(r)
    PROVE  UNCHANGED <<users, nextId, sessions, devices, resets, invites, cuts, spent>>
BY DEF Arrivals, SignIn, Forgot, Reset, Signup, Portal, Operate, OperateMore, Arrive, tables

\* Rows may go as long as the counts of severings stand.
LEMMA CurrentKept ==
    ASSUME CredentialsCurrent, sessions' \subseteq sessions, devices' \subseteq devices, cuts' = cuts
    PROVE  CredentialsCurrent'
BY DEF CredentialsCurrent

\* Severing removes every row of the account whose count it raises.
LEMMA CurrentSevered ==
    ASSUME TypeInv, CredentialsCurrent, NEW u \in Ids, Sever(u)
    PROVE  CredentialsCurrent'
<1>1. ASSUME NEW c \in sessions' \cup devices' PROVE c.cut = cuts'[c.user] \/ c.raced
  <2>1. c \in sessions \cup devices /\ c.user # u /\ c.user \in Ids
      BY <1>1 DEF Sever, TypeInv, TypeOK, Credential
  <2>2. cuts'[c.user] = cuts[c.user]
      BY <2>1 DEF Sever, TypeInv, TypeOK
  <2> QED BY <2>1, <2>2 DEF CredentialsCurrent
<1> QED BY <1>1 DEF CredentialsCurrent

\* Every step keeps live credentials current.
LEMMA CurrentStep == ASSUME TypeInv, CredentialsCurrent, [Next]_vars PROVE CredentialsCurrent'
<1>1. CASE UNCHANGED vars
    BY <1>1, CurrentKept DEF vars
<1>2. ASSUME NEW r \in Requests, Arrivals(r) PROVE CredentialsCurrent'
    BY <1>2, ArrivalsQuiet, CurrentKept
<1>3. ASSUME NEW r \in Requests, Handle(r) PROVE CredentialsCurrent'
  <2>1. CASE Extract(r) \/ CheckPassword(r) \/ FindByEmail(r) \/ ReadAdmin(r) \/ ReadImpact(r) \/ Fail(r)
      BY <2>1, CurrentKept DEF Extract, CheckPassword, FindByEmail, ReadAdmin, ReadImpact, Fail, tables
  <2>2. CASE EndSession(r) \/ EndDevice(r) \/ InsertReset(r) \/ ConsumeReset(r) \/ InsertInvite(r) \/ ConsumeInvite(r)
      BY <2>2, CurrentKept DEF EndSession, EndDevice, InsertReset, ConsumeReset, InsertInvite, ConsumeInvite
  <2>3. CASE CreateUser(r) \/ SetEmail(r) \/ Enable(r) \/ Rename(r) \/ SetAdmin(r) \/ DeleteUser(r)
      BY <2>3, CurrentKept DEF CreateUser, SetEmail, Enable, Rename, SetAdmin, DeleteUser
  <2>4. CASE SetPassword(r) \/ Disable(r)
    <3>1. req[r].id \in Ids
        BY <2>4, InFlight DEF SetPassword, Disable, At, Formed, AccountSteps
    <3> QED BY <2>4, <3>1, CurrentSevered DEF SetPassword, Disable
  <2>5. CASE InsertCredential(r)
    <3> DEFINE row == [n |-> req[r].n, user |-> req[r].id, cut |-> req[r].cut,
                       raced |-> req[r].cut # cuts[req[r].id]]
    <3>1. row.cut = cuts[row.user] \/ row.raced
        OBVIOUS
    <3>2. sessions' \subseteq sessions \cup {row} /\ devices' \subseteq devices \cup {row} /\ cuts' = cuts
        BY <2>5 DEF InsertCredential, CreateDevice, CreateAdminSession
    <3> HIDE DEF row
    <3> QED BY <3>1, <3>2 DEF CredentialsCurrent
  <2> QED BY <1>3, <2>1, <2>2, <2>3, <2>4, <2>5 DEF Handle
<1>4. CASE GrantAdmin \/ ShellCreate \/ Expire
    BY <1>4, CurrentKept DEF GrantAdmin, ShellCreate, Expire
<1> QED BY <1>1, <1>2, <1>3, <1>4 DEF Next

\* After a new password, or a disabled account, no session and no token from before
\* is left, but for one whose own check had passed and whose row came after
\* (store.rs, set_password and disable_user).
THEOREM CredentialsStayCurrent == Spec => []CredentialsCurrent
<1>1. Init => CredentialsCurrent
  <2> SUFFICES ASSUME Init, NEW c \in sessions \cup devices PROVE c.cut = cuts[c.user]
      BY DEF CredentialsCurrent
  <2>1. c.cut = 0 /\ c.user \in {1, 2}
      BY DEF Init
  <2> QED BY <2>1, BoundsAssumption DEF Init, Ids
<1> QED BY <1>1, TypeCorrect, CurrentStep, PTL DEF Spec

----------------------------------------------------------------------------
(***************************************************************************)
(* Operators are made by operators                                         *)
(***************************************************************************)
\* Only one handler turns the flag on.
LEMMA AdminKept ==
    ASSUME TypeInv, NEW r \in Requests, Handle(r), ~SetAdmin(r), NEW u \in Ids
    PROVE  ~BecomesAdmin(u)
<1>1. users \in [Ids -> User \cup {NoUser}]
    BY DEF TypeInv, TypeOK
<1>2. \A row \in User : /\ \A e : [row EXCEPT !.email = e].admin = row.admin
                        /\ \A b : [row EXCEPT !.disabled = b].admin = row.admin
                        /\ \A h : [row EXCEPT !.handle = h].admin = row.admin
    BY DEF User
<1>3. CASE users' = users
    BY <1>3 DEF BecomesAdmin
<1>4. CASE CreateUser(r)
  <2>1. users' = users \/ \E h : users' = [users EXCEPT ![nextId] =
            [handle |-> h, email |-> NoEmail, admin |-> FALSE, disabled |-> FALSE]]
      BY <1>4 DEF CreateUser
  <2> QED BY <1>1, <2>1 DEF BecomesAdmin
<1>5. CASE SetEmail(r) \/ Disable(r) \/ Enable(r) \/ Rename(r)
  <2> DEFINE i == req[r].id
  <2>1. Exists(i) => i \in Ids /\ users[i] \in User
      BY <1>1 DEF Exists
  <2>2. users' = users
        \/ \E row : Exists(i) /\ row.admin = users[i].admin /\ users' = [users EXCEPT ![i] = row]
    <3>1. CASE SetEmail(r)
      <4>1. users' = users \/ \E e : Exists(i) /\ users' = [users EXCEPT ![i] = [users[i] EXCEPT !.email = e]]
          BY <3>1 DEF SetEmail
      <4> QED BY <1>2, <2>1, <4>1
    <3>2. CASE Disable(r) \/ Enable(r)
      <4>1. users' = users \/ \E b : Exists(i) /\ users' = [users EXCEPT ![i] = [users[i] EXCEPT !.disabled = b]]
          BY <3>2 DEF Disable, Enable
      <4> QED BY <1>2, <2>1, <4>1
    <3>3. CASE Rename(r)
      <4>1. users' = users \/ \E h : Exists(i) /\ users' = [users EXCEPT ![i] = [users[i] EXCEPT !.handle = h]]
          BY <3>3 DEF Rename
      <4> QED BY <1>2, <2>1, <4>1
    <3> QED BY <1>5, <3>1, <3>2, <3>3
  <2> QED BY <1>1, <2>1, <2>2 DEF BecomesAdmin
<1>6. CASE DeleteUser(r)
    BY <1>1, <1>6 DEF DeleteUser, BecomesAdmin
<1>7. CASE Extract(r) \/ CheckPassword(r) \/ FindByEmail(r) \/ ReadAdmin(r) \/ ReadImpact(r) \/ Fail(r)
             \/ InsertCredential(r) \/ EndSession(r) \/ EndDevice(r) \/ SetPassword(r)
             \/ InsertReset(r) \/ ConsumeReset(r) \/ InsertInvite(r) \/ ConsumeInvite(r)
  <2>1. users' = users
      BY <1>7 DEF Extract, CheckPassword, FindByEmail, ReadAdmin, ReadImpact, Fail, tables,
                  InsertCredential, EndSession, EndDevice, SetPassword, InsertReset, ConsumeReset,
                  InsertInvite, ConsumeInvite
  <2> QED BY <1>3, <2>1
<1> QED BY <1>4, <1>5, <1>6, <1>7 DEF Handle

\* Whoever becomes an operator does so by the shell or by a request whose session was
\* an operator's (admin/mod.rs, AdminSession; admin/actions.rs, toggle_admin).
THEOREM OperatorsByOperators == Spec => AdminsByAdmins
<1>1. ASSUME TypeInv, [Next]_vars, NEW u \in Ids, BecomesAdmin(u)
      PROVE  req' = req \/ \E r \in Requests : At(r, "admin") /\ req[r].id = u /\ req[r].asAdmin
  <2>1. CASE UNCHANGED vars
      BY <1>1, <2>1 DEF vars, BecomesAdmin
  <2>2. CASE GrantAdmin \/ ShellCreate \/ Expire
      BY <2>2 DEF GrantAdmin, ShellCreate, Expire
  <2>3. ASSUME NEW r \in Requests, Arrivals(r) PROVE FALSE
      BY <1>1, <2>3, ArrivalsQuiet DEF BecomesAdmin
  <2>4. ASSUME NEW r \in Requests, Handle(r)
        PROVE  At(r, "admin") /\ req[r].id = u /\ req[r].asAdmin
    <3>1. SetAdmin(r)
        BY <1>1, <2>4, AdminKept
    <3>2. At(r, "admin") /\ req[r].asAdmin
        BY <1>1, <3>1, InFlight DEF SetAdmin, At, Formed
    <3>3. req[r].id = u
        BY <1>1, <3>1 DEF SetAdmin, BecomesAdmin, TypeInv, TypeOK
    <3> QED BY <3>2, <3>3
  <2> QED BY <1>1, <2>1, <2>2, <2>3, <2>4 DEF Next
<1>2. TypeInv /\ [Next]_vars => [\A u \in Ids : BecomesAdmin(u) =>
          \/ req' = req
          \/ \E r \in Requests : At(r, "admin") /\ req[r].id = u /\ req[r].asAdmin]_vars
    BY <1>1
<1> QED BY <1>2, TypeCorrect, PTL DEF Spec, AdminsByAdmins

----------------------------------------------------------------------------
(***************************************************************************)
(* An account is deleted under the name that was typed                     *)
(***************************************************************************)
\* Ids are handed out in order.
UsersBelow == \A u \in Ids : users[u] # NoUser => u < nextId

\* A request that stands before the delete transaction has been confirmed, for an
\* account that existed then.
Confirmations == \A r \in Requests : At(r, "delete") =>
    /\ req[r].id < nextId
    /\ users[req[r].id] = NoUser \/ users[req[r].id].handle = req[r].handle \/ req[r].renamed

DeletionInv == UsersBelow /\ Confirmations

\* Rows may change in anything but the handle, and requests may end or move on to
\* anything but the delete.
LEMMA DeletionKept ==
    ASSUME TypeInv, DeletionInv, nextId' = nextId,
           \A u \in Ids : \/ users'[u] = users[u] \/ users'[u] = NoUser
                          \/ users[u] # NoUser /\ users'[u].handle = users[u].handle,
           \A x \in Requests : At(x, "delete")' => At(x, "delete") /\ req'[x] = req[x]
    PROVE  DeletionInv'
<1>1. UsersBelow'
    BY DEF DeletionInv, UsersBelow
<1>2. ASSUME NEW x \in Requests, At(x, "delete")'
      PROVE  /\ req'[x].id < nextId'
             /\ users'[req'[x].id] = NoUser \/ users'[req'[x].id].handle = req'[x].handle \/ req'[x].renamed
  <2>1. At(x, "delete") /\ req'[x] = req[x]
      BY <1>2
  <2>2. req[x].id \in Ids
      BY <2>1, InFlight DEF At, Formed, AccountSteps
  <2> QED BY <2>1, <2>2 DEF DeletionInv, Confirmations
<1> QED BY <1>1, <1>2 DEF DeletionInv, Confirmations

\* A new account takes an id that no request has confirmed.
LEMMA DeletionCreated ==
    ASSUME TypeInv, DeletionInv, nextId \in Ids, nextId' = nextId + 1,
           NEW row, users' = [users EXCEPT ![nextId] = row],
           \A x \in Requests : At(x, "delete")' => At(x, "delete") /\ req'[x] = req[x]
    PROVE  DeletionInv'
<1>1. UsersBelow'
    BY DEF DeletionInv, UsersBelow, TypeInv, TypeOK, Ids
<1>2. ASSUME NEW x \in Requests, At(x, "delete")'
      PROVE  /\ req'[x].id < nextId'
             /\ users'[req'[x].id] = NoUser \/ users'[req'[x].id].handle = req'[x].handle \/ req'[x].renamed
  <2>1. At(x, "delete") /\ req'[x] = req[x]
      BY <1>2
  <2>2. req[x].id \in Ids /\ req[x].id < nextId
      BY <2>1, InFlight DEF At, Formed, AccountSteps, DeletionInv, Confirmations
  <2>3. users'[req[x].id] = users[req[x].id]
      BY <2>2 DEF TypeInv, TypeOK, Ids
  <2>4. req[x].id < nextId + 1
      BY <2>2 DEF Ids
  <2> QED BY <2>1, <2>3, <2>4 DEF DeletionInv, Confirmations
<1> QED BY <1>1, <1>2 DEF DeletionInv, Confirmations

\* A request that ends, or moves on to a step other than the delete.
LEMMA NotToDelete ==
    ASSUME TypeInv, NEW r \in Requests,
           \/ Answer(r)
           \/ \E q : q.pc # "delete" /\ req' = [req EXCEPT ![r] = q]
    PROVE  \A x \in Requests : At(x, "delete")' => At(x, "delete") /\ req'[x] = req[x]
BY DEF Answer, At, TypeInv, TypeOK

\* No request arrives before the delete.
LEMMA ArrivalsNotToDelete ==
    ASSUME TypeInv, NEW r \in Requests, Arrivals(r)
    PROVE  \A x \in Requests : At(x, "delete")' => At(x, "delete") /\ req'[x] = req[x]
<1>1. \E q : q.pc # "delete" /\ req' = [req EXCEPT ![r] = q]
  <2>1. CASE SignIn(r)
      BY <2>1 DEF SignIn, Arrive, Fresh
  <2>2. CASE Forgot(r)
      BY <2>2 DEF Forgot, Arrive, Fresh
  <2>3. CASE Reset(r)
      BY <2>3 DEF Reset, Arrive, Fresh
  <2>4. CASE Signup(r)
      BY <2>4 DEF Signup, Arrive, Fresh
  <2>5. CASE Portal(r)
      BY <2>5 DEF Portal, Arrive, Fresh
  <2>6. CASE Operate(r)
      BY <2>6 DEF Operate, Arrive, Fresh
  <2>7. CASE OperateMore(r)
      BY <2>7 DEF OperateMore, Arrive, Fresh
  <2> QED BY <2>1, <2>2, <2>3, <2>4, <2>5, <2>6, <2>7 DEF Arrivals
<1> QED BY <1>1, NotToDelete

\* Holding what a reset or an invite was redeemed for.
Claiming(q) == (q.pc = "password" /\ q.op = "reset") \/ (q.pc = "create" /\ q.op = "signup")

\* The request ends, or goes on under its number and operation.
Moves(r) == \E q :
    /\ req' = [req EXCEPT ![r] = q]
    /\ q # None => /\ q.n = req[r].n /\ q.op = req[r].op
                   /\ q.pc = "delete" => ReadImpact(r)
                   /\ Claiming(q) => ConsumeReset(r) \/ ConsumeInvite(r)

\* A handler other than rename_user changes its own request alone.
LEMMA HandlerMoves ==
    ASSUME TypeInv, NEW r \in Requests, Handle(r), ~Rename(r)
    PROVE  Moves(r)
<1> DEFINE f == req[r]
<1>1. f # None /\ f \in Request /\ Formed(f)
  <2>1. f # None
      BY DEF Handle, At, Extract, CheckPassword, InsertCredential, EndSession, EndDevice, SetPassword,
             FindByEmail, InsertReset, ConsumeReset, InsertInvite, ConsumeInvite, CreateUser, SetEmail,
             Disable, Enable, Rename, ReadAdmin, SetAdmin, ReadImpact, DeleteUser, Fail
  <2> QED BY <2>1, InFlight
<1>2. CASE Answer(r)
    BY <1>2 DEF Answer, Moves
<1>3. ASSUME NEW q, req' = [req EXCEPT ![r] = q], q.n = f.n, q.op = f.op,
             q.pc \notin {"delete", "password", "create"}
      PROVE  Moves(r)
    BY <1>3 DEF Claiming, Moves
<1>4. CASE Extract(r)
  <2> SUFFICES ASSUME NEW s \in Admitted(r),
                      req' = [req EXCEPT
                        ![r].pc = FirstStep[f.op],
                        ![r].actor = s.user,
                        ![r].asAdmin = users[s.user].admin,
                        ![r].id = IF f.op \in PortalOps THEN s.user ELSE f.id]
               PROVE  Moves(r)
      BY <1>2, <1>4 DEF Extract
  <2> DEFINE q == [f EXCEPT !.pc = FirstStep[f.op], !.actor = s.user,
                            !.asAdmin = users[s.user].admin,
                            !.id = IF f.op \in PortalOps THEN s.user ELSE f.id]
  <2>1. req' = [req EXCEPT ![r] = q]
      OBVIOUS
  <2>2. f.op \in PortalOps \cup OperatorOps
      BY <1>1, <1>4 DEF Extract, At, Formed
  <2>3. FirstStep[f.op] # "delete" /\ f.op # "reset" /\ f.op # "signup"
      BY <2>2 DEF FirstStep, PortalOps, OperatorOps
  <2> HIDE DEF f
  <2>4. q.n = f.n /\ q.op = f.op /\ q.pc = FirstStep[f.op]
      BY <1>1 DEF Request
  <2> HIDE DEF q
  <2> QED BY <2>1, <2>3, <2>4 DEF Claiming, Moves, f
<1>5. CASE CheckPassword(r)
  <2> SUFFICES ASSUME NEW u, req' = [req EXCEPT ![r].pc = "insert", ![r].id = u, ![r].cut = cuts[u]]
               PROVE  Moves(r)
      BY <1>2, <1>5 DEF CheckPassword
  <2> DEFINE q == [f EXCEPT !.pc = "insert", !.id = u, !.cut = cuts[u]]
  <2>1. req' = [req EXCEPT ![r] = q]
      OBVIOUS
  <2>2. q.n = f.n /\ q.op = f.op /\ q.pc = "insert"
      BY <1>1 DEF Request
  <2> HIDE DEF q
  <2> QED BY <1>3, <2>1, <2>2
<1>6. CASE SetPassword(r)
  <2> SUFFICES ASSUME req' = [req EXCEPT ![r].pc = "insert", ![r].cut = cuts[f.id] + 1]
               PROVE  Moves(r)
      BY <1>2, <1>6 DEF SetPassword
  <2> DEFINE q == [f EXCEPT !.pc = "insert", !.cut = cuts[f.id] + 1]
  <2>1. req' = [req EXCEPT ![r] = q]
      OBVIOUS
  <2>2. q.n = f.n /\ q.op = f.op /\ q.pc = "insert"
      BY <1>1 DEF Request
  <2> HIDE DEF q
  <2> QED BY <1>3, <2>1, <2>2
<1>7. CASE FindByEmail(r)
  <2> SUFFICES ASSUME NEW u, req' = [req EXCEPT ![r].pc = "insert_reset", ![r].id = u]
               PROVE  Moves(r)
      BY <1>2, <1>7 DEF FindByEmail
  <2> DEFINE q == [f EXCEPT !.pc = "insert_reset", !.id = u]
  <2>1. req' = [req EXCEPT ![r] = q]
      OBVIOUS
  <2>2. q.n = f.n /\ q.op = f.op /\ q.pc = "insert_reset"
      BY <1>1 DEF Request
  <2> HIDE DEF q
  <2> QED BY <1>3, <2>1, <2>2
<1>8. CASE ConsumeReset(r)
  <2> SUFFICES ASSUME NEW t, req' = [req EXCEPT ![r].pc = "password", ![r].id = t.owner, ![r].sess = t.n]
               PROVE  Moves(r)
      BY <1>2, <1>8 DEF ConsumeReset
  <2> DEFINE q == [f EXCEPT !.pc = "password", !.id = t.owner, !.sess = t.n]
  <2>1. req' = [req EXCEPT ![r] = q]
      OBVIOUS
  <2>2. q.n = f.n /\ q.op = f.op /\ q.pc = "password"
      BY <1>1 DEF Request
  <2> HIDE DEF q
  <2> QED BY <1>8, <2>1, <2>2 DEF Moves
<1>9. CASE ConsumeInvite(r)
  <2> SUFFICES ASSUME NEW t, req' = [req EXCEPT ![r].pc = "create", ![r].email = t.email, ![r].sess = t.n]
               PROVE  Moves(r)
      BY <1>2, <1>9 DEF ConsumeInvite
  <2> DEFINE q == [f EXCEPT !.pc = "create", !.email = t.email, !.sess = t.n]
  <2>1. req' = [req EXCEPT ![r] = q]
      OBVIOUS
  <2>2. q.n = f.n /\ q.op = f.op /\ q.pc = "create"
      BY <1>1 DEF Request
  <2> HIDE DEF q
  <2> QED BY <1>9, <2>1, <2>2 DEF Moves
<1>10. CASE CreateUser(r)
  <2>1. AfterCreate(f) \in {"email", "insert", "answer"}
      BY DEF AfterCreate
  <2> SUFFICES ASSUME NEW pc \in {"email", "insert"},
                      req' = [req EXCEPT ![r].pc = pc, ![r].id = nextId, ![r].cut = cuts[nextId]]
               PROVE  Moves(r)
      BY <1>2, <1>10, <2>1 DEF CreateUser
  <2> DEFINE q == [f EXCEPT !.pc = pc, !.id = nextId, !.cut = cuts[nextId]]
  <2>2. req' = [req EXCEPT ![r] = q]
      OBVIOUS
  <2>3. q.n = f.n /\ q.op = f.op /\ q.pc = pc
      BY <1>1 DEF Request
  <2> HIDE DEF q
  <2> QED BY <1>3, <2>2, <2>3
<1>11. CASE SetEmail(r)
  <2> SUFFICES ASSUME Goto(r, "insert") PROVE Moves(r)
      BY <1>2, <1>11 DEF SetEmail
  <2> DEFINE q == [f EXCEPT !.pc = "insert"]
  <2>1. req' = [req EXCEPT ![r] = q]
      BY DEF Goto
  <2>2. q.n = f.n /\ q.op = f.op /\ q.pc = "insert"
      BY <1>1 DEF Request
  <2> HIDE DEF q
  <2> QED BY <1>3, <2>1, <2>2
<1>12. CASE ReadAdmin(r)
  <2> DEFINE known == Exists(f.id) /\ users[f.id].admin
  <2> PICK b \in {known, FALSE} : req' = [req EXCEPT ![r].pc = "admin", ![r].found = b]
      BY <1>12 DEF ReadAdmin
  <2> DEFINE q == [f EXCEPT !.pc = "admin", !.found = b]
  <2>1. req' = [req EXCEPT ![r] = q]
      OBVIOUS
  <2>2. q.n = f.n /\ q.op = f.op /\ q.pc = "admin"
      BY <1>1 DEF Request
  <2> HIDE DEF q
  <2> QED BY <1>3, <2>1, <2>2
<1>13. CASE ReadImpact(r)
  <2> SUFFICES ASSUME Goto(r, "delete") PROVE Moves(r)
      BY <1>2, <1>13 DEF ReadImpact
  <2> DEFINE q == [f EXCEPT !.pc = "delete"]
  <2>1. req' = [req EXCEPT ![r] = q]
      BY DEF Goto
  <2>2. q.n = f.n /\ q.op = f.op /\ q.pc = "delete"
      BY <1>1 DEF Request
  <2> HIDE DEF q
  <2> QED BY <1>13, <2>1, <2>2 DEF Claiming, Moves
<1>14. CASE \/ InsertCredential(r) \/ EndSession(r) \/ EndDevice(r) \/ InsertReset(r) \/ InsertInvite(r)
            \/ Disable(r) \/ Enable(r) \/ SetAdmin(r) \/ DeleteUser(r) \/ Fail(r)
  <2>1. Answer(r)
      BY <1>14 DEF InsertCredential, EndSession, EndDevice, InsertReset, InsertInvite, Disable,
                   Enable, SetAdmin, DeleteUser, Fail
  <2> QED BY <1>2, <2>1
<1> QED BY <1>4, <1>5, <1>6, <1>7, <1>8, <1>9, <1>10, <1>11, <1>12, <1>13, <1>14 DEF Handle

\* Every step keeps ids in order and requests before the delete confirmed.
LEMMA DeletionStep == ASSUME TypeInv, DeletionInv, [Next]_vars PROVE DeletionInv'
<1>1. CASE UNCHANGED vars
    BY <1>1 DEF vars, DeletionInv, UsersBelow, Confirmations, At
<1>2. ASSUME NEW r \in Requests, Arrivals(r) PROVE DeletionInv'
    BY <1>2, ArrivalsQuiet, ArrivalsNotToDelete, DeletionKept
<1>3. CASE GrantAdmin \/ Expire
  <2>1. \A x \in Requests : At(x, "delete")' => At(x, "delete") /\ req'[x] = req[x]
      BY <1>3 DEF GrantAdmin, Expire, At
  <2>2. \A row \in User : [row EXCEPT !.admin = TRUE].handle = row.handle
      BY DEF User
  <2>3. \A u \in Ids : users'[u] = users[u] \/ (users[u] # NoUser /\ users'[u].handle = users[u].handle)
    <3>1. users' = users
          \/ \E u \in Ids : users[u] # NoUser /\ users' = [users EXCEPT ![u] = [users[u] EXCEPT !.admin = TRUE]]
        BY <1>3 DEF GrantAdmin, Expire, ByHandle, Exists
    <3> QED BY <2>2, <3>1 DEF TypeInv, TypeOK
  <2> QED BY <1>3, <2>1, <2>3, DeletionKept DEF GrantAdmin, Expire
<1>4. CASE ShellCreate
  <2>1. \A x \in Requests : At(x, "delete")' => At(x, "delete") /\ req'[x] = req[x]
      BY <1>4 DEF ShellCreate, At
  <2> QED BY <1>4, <2>1, DeletionCreated DEF ShellCreate
<1>5. ASSUME NEW r \in Requests, Handle(r), ~Rename(r), ~ReadImpact(r) PROVE DeletionInv'
  <2>1. \A x \in Requests : At(x, "delete")' => At(x, "delete") /\ req'[x] = req[x]
      BY <1>5, HandlerMoves DEF Moves, At, TypeInv, TypeOK
  <2>2. CASE CreateUser(r)
    <3>1. CASE UNCHANGED <<users, nextId>>
        BY <2>1, <3>1, DeletionKept
    <3>2. CASE nextId' = nextId + 1
        BY <2>1, <2>2, <3>2, DeletionCreated DEF CreateUser, TypeInv, TypeOK
    <3> QED BY <2>2, <3>1, <3>2 DEF CreateUser
  <2>3. CASE SetEmail(r) \/ Disable(r) \/ Enable(r) \/ SetAdmin(r) \/ DeleteUser(r)
    <3> DEFINE i == req[r].id
    <3>1. \/ users' = users
          \/ users' = [users EXCEPT ![i] = NoUser]
          \/ \E e : Exists(i) /\ users' = [users EXCEPT ![i] = [users[i] EXCEPT !.email = e]]
          \/ \E b : Exists(i) /\ users' = [users EXCEPT ![i] = [users[i] EXCEPT !.disabled = b]]
          \/ \E b : Exists(i) /\ users' = [users EXCEPT ![i] = [users[i] EXCEPT !.admin = b]]
        BY <2>3 DEF SetEmail, Disable, Enable, SetAdmin, DeleteUser
    <3>2. Exists(i) => users[i] \in User /\ users[i] # NoUser
        BY DEF Exists, TypeInv, TypeOK
    <3>3. \A row \in User : /\ \A e : [row EXCEPT !.email = e].handle = row.handle
                            /\ \A b : [row EXCEPT !.disabled = b].handle = row.handle
                            /\ \A b : [row EXCEPT !.admin = b].handle = row.handle
        BY DEF User
    <3>4. \/ users' = users
          \/ users' = [users EXCEPT ![i] = NoUser]
          \/ \E row : users[i] # NoUser /\ row.handle = users[i].handle /\ users' = [users EXCEPT ![i] = row]
        BY <3>1, <3>2, <3>3
    <3>5. \A u \in Ids : \/ users'[u] = users[u] \/ users'[u] = NoUser
                         \/ users[u] # NoUser /\ users'[u].handle = users[u].handle
        BY <3>4 DEF TypeInv, TypeOK
    <3>6. nextId' = nextId
        BY <2>3 DEF SetEmail, Disable, Enable, SetAdmin, DeleteUser
    <3> QED BY <2>1, <3>5, <3>6, DeletionKept
  <2>4. CASE Extract(r) \/ CheckPassword(r) \/ FindByEmail(r) \/ ReadAdmin(r) \/ Fail(r)
             \/ InsertCredential(r) \/ EndSession(r) \/ EndDevice(r) \/ SetPassword(r)
             \/ InsertReset(r) \/ ConsumeReset(r) \/ InsertInvite(r) \/ ConsumeInvite(r)
    <3>1. UNCHANGED <<users, nextId>>
        BY <2>4 DEF Extract, CheckPassword, FindByEmail, ReadAdmin, Fail, tables,
                  InsertCredential, EndSession, EndDevice, SetPassword, InsertReset, ConsumeReset,
                  InsertInvite, ConsumeInvite
    <3> QED BY <2>1, <3>1, DeletionKept
  <2> QED BY <1>5, <2>2, <2>3, <2>4 DEF Handle
<1>6. ASSUME NEW r \in Requests, ReadImpact(r) PROVE DeletionInv'
  <2>1. UNCHANGED <<users, nextId>>
      BY <1>6 DEF ReadImpact, tables
  <2>2. CASE Answer(r)
      BY <2>1, <2>2, NotToDelete, DeletionKept
  <2>3. CASE Exists(req[r].id) /\ req[r].handle = users[req[r].id].handle /\ Goto(r, "delete")
    <3>1. req[r] \in Request /\ req[r].id \in Ids /\ req[r].id < nextId
        BY <1>6, <2>3, InFlight DEF ReadImpact, At, Formed, AccountSteps, Exists, DeletionInv, UsersBelow
    <3>2. req'[r].id = req[r].id /\ req'[r].handle = req[r].handle
        BY <2>3, <3>1 DEF Goto, TypeInv, TypeOK, Request
    <3>3. \A x \in Requests : x # r => req'[x] = req[x]
        BY <2>3 DEF Goto, TypeInv, TypeOK
    <3>4. Confirmations'
        BY <2>1, <2>3, <3>1, <3>2, <3>3 DEF DeletionInv, Confirmations, At
    <3> QED BY <2>1, <3>4 DEF DeletionInv, UsersBelow
  <2> QED BY <1>6, <2>2, <2>3 DEF ReadImpact, Confirmed
<1>7. ASSUME NEW r \in Requests, Rename(r) PROVE DeletionInv'
  <2> DEFINE free == Exists(req[r].id) /\ Acceptable(req[r].handle, req[r].id)
  <2>1. users' = IF free THEN [users EXCEPT ![req[r].id].handle = req[r].handle] ELSE users
      BY <1>7 DEF Rename
  <2>2. \A x \in Requests : req'[x] = IF x = r THEN None
              ELSE IF free /\ At(x, "delete") /\ req[x].id = req[r].id
              THEN [req[x] EXCEPT !.renamed = TRUE] ELSE req[x]
      BY <1>7 DEF Rename
  <2>3. nextId' = nextId
      BY <1>7 DEF Rename
  <2>4. free => Exists(req[r].id)
      OBVIOUS
  <2> HIDE DEF free
  <2>5. UsersBelow'
      BY <2>1, <2>3, <2>4 DEF DeletionInv, UsersBelow, Exists, TypeInv, TypeOK
  <2>6. ASSUME NEW x \in Requests, At(x, "delete")'
        PROVE  /\ req'[x].id < nextId'
               /\ users'[req'[x].id] = NoUser \/ users'[req'[x].id].handle = req'[x].handle \/ req'[x].renamed
    <3>1. x # r /\ req[x] # None
        BY <2>2, <2>6 DEF At
    <3>2. req[x] \in Request
        BY <3>1, InFlight
    <3>3. CASE free /\ At(x, "delete") /\ req[x].id = req[r].id
      <4>1. req'[x].renamed /\ req'[x].id = req[x].id
          BY <2>2, <3>1, <3>2, <3>3 DEF Request
      <4> QED BY <2>3, <3>3, <4>1 DEF DeletionInv, Confirmations
    <3>4. CASE ~(free /\ At(x, "delete") /\ req[x].id = req[r].id)
      <4>1. req'[x] = req[x] /\ At(x, "delete")
          BY <2>2, <2>6, <3>1, <3>4 DEF At
      <4>2. req[x].id \in Ids
          BY <4>1, InFlight DEF At, Formed, AccountSteps
      <4>3. users'[req[x].id] = users[req[x].id]
          BY <2>1, <3>4, <4>1, <4>2 DEF TypeInv, TypeOK
      <4> QED BY <2>3, <4>1, <4>3 DEF DeletionInv, Confirmations
    <3> QED BY <3>3, <3>4
  <2> QED BY <2>5, <2>6 DEF DeletionInv, Confirmations
<1>8. ASSUME NEW r \in Requests, Handle(r) PROVE DeletionInv'
    BY <1>5, <1>6, <1>7, <1>8
<1> QED BY <1>1, <1>2, <1>3, <1>4, <1>8 DEF Next

\* Only the delete transaction makes a row go.
LEMMA RowsStay ==
    ASSUME TypeInv, UsersBelow, NEW r \in Requests, Handle(r), ~DeleteUser(r),
           NEW u \in Ids, users[u] # NoUser
    PROVE  users'[u] # NoUser
<1> DEFINE i == req[r].id
<1>1. users \in [Ids -> User \cup {NoUser}] /\ nextId \notin {u}
    BY DEF TypeInv, TypeOK, UsersBelow, Ids
<1>2. ASSUME Exists(i), NEW row \in User, users' = [users EXCEPT ![i] = row]
      PROVE  users'[u] # NoUser
    BY <1>1, <1>2, NoUserAssumption
<1>3. CASE users' = users
    BY <1>3
<1>4. CASE CreateUser(r)
  <2>1. users' = users \/ \E row : users' = [users EXCEPT ![nextId] = row]
      BY <1>4 DEF CreateUser
  <2> QED BY <1>1, <2>1
<1>5. ASSUME SetEmail(r) \/ Disable(r) \/ Enable(r) \/ Rename(r) \/ SetAdmin(r)
      PROVE  req[r] \in Request /\ Formed(req[r]) /\ i \in Ids
    BY <1>5, InFlight DEF SetEmail, Disable, Enable, Rename, SetAdmin, At, Formed, AccountSteps
<1>6. CASE SetEmail(r)
  <2>1. req[r].email \in Emails \cup {Blank, NoEmail}
      BY <1>5, <1>6 DEF Request
  <2>2. users' = users
        \/ (Exists(i) /\ users' = [users EXCEPT ![i] = [users[i] EXCEPT !.email = req[r].email]])
      BY <1>6 DEF SetEmail
  <2> QED BY <1>2, <1>3, <1>5, <1>6, <2>1, <2>2, RowEdits
<1>7. CASE Disable(r) \/ Enable(r)
  <2>1. users' = users \/ \E b \in BOOLEAN :
            Exists(i) /\ users' = [users EXCEPT ![i] = [users[i] EXCEPT !.disabled = b]]
      BY <1>7 DEF Disable, Enable
  <2> QED BY <1>2, <1>3, <1>5, <1>7, <2>1, RowEdits
<1>8. CASE Rename(r)
  <2>1. users' = users \/
          (/\ Exists(i) /\ req[r].handle \in Handles
           /\ users' = [users EXCEPT ![i] = [users[i] EXCEPT !.handle = req[r].handle]])
      BY <1>5, <1>8 DEF Rename, Acceptable, At, Formed, NamingSteps, Typed
  <2> QED BY <1>2, <1>3, <1>5, <1>8, <2>1, RowEdits
<1>9. CASE SetAdmin(r)
  <2>1. users' = users \/ \E b \in BOOLEAN :
            Exists(i) /\ users' = [users EXCEPT ![i] = [users[i] EXCEPT !.admin = b]]
    <3>1. (~req[r].found) \in BOOLEAN
        OBVIOUS
    <3> QED BY <1>9, <3>1 DEF SetAdmin
  <2> QED BY <1>2, <1>3, <1>5, <1>9, <2>1, RowEdits
<1>10. CASE Extract(r) \/ CheckPassword(r) \/ FindByEmail(r) \/ ReadAdmin(r) \/ ReadImpact(r) \/ Fail(r)
             \/ InsertCredential(r) \/ EndSession(r) \/ EndDevice(r) \/ SetPassword(r)
             \/ InsertReset(r) \/ ConsumeReset(r) \/ InsertInvite(r) \/ ConsumeInvite(r)
  <2>1. users' = users
      BY <1>10 DEF Extract, CheckPassword, FindByEmail, ReadAdmin, ReadImpact, Fail, tables,
                  InsertCredential, EndSession, EndDevice, SetPassword, InsertReset, ConsumeReset,
                  InsertInvite, ConsumeInvite
  <2> QED BY <1>3, <2>1
<1> QED BY <1>4, <1>6, <1>7, <1>8, <1>9, <1>10 DEF Handle

\* The shell and time take no row away.
LEMMA RowsStayInWorld ==
    ASSUME TypeInv, UsersBelow, GrantAdmin \/ ShellCreate \/ Expire, NEW u \in Ids, users[u] # NoUser
    PROVE  users'[u] # NoUser
<1>1. users \in [Ids -> User \cup {NoUser}] /\ nextId # u
    BY DEF TypeInv, TypeOK, UsersBelow, Ids
<1>2. CASE GrantAdmin
  <2> PICK i \in Ids : Exists(i) /\ users' = [users EXCEPT ![i] = [users[i] EXCEPT !.admin = TRUE]]
      BY <1>2 DEF GrantAdmin, ByHandle
  <2>1. [users[i] EXCEPT !.admin = TRUE] # NoUser
      BY RowEdits, NoUserAssumption
  <2> QED BY <1>1, <2>1
<1>3. CASE ShellCreate
  <2>1. \E row : users' = [users EXCEPT ![nextId] = row]
      BY <1>3 DEF ShellCreate
  <2> QED BY <1>1, <2>1
<1> QED BY <1>2, <1>3 DEF Expire

\* An account goes only by a request that stands before the delete and whose typed
\* name is the account's, unless it was renamed after the name was compared
\* (admin/actions.rs, delete_user).
THEOREM DeletionsAsTyped == Spec => DeletedAsTyped
<1>1. Init => DeletionInv
  <2> SUFFICES ASSUME Init PROVE DeletionInv
      OBVIOUS
  <2>1. UsersBelow
      BY DEF Init, UsersBelow, Ids
  <2>2. Confirmations
      BY DEF Init, Confirmations, At
  <2> QED BY <2>1, <2>2 DEF DeletionInv
<1>2. ASSUME TypeInv, DeletionInv, [Next]_vars, NEW u \in Ids, users[u] # NoUser, users'[u] = NoUser
      PROVE  \E r \in Requests : /\ At(r, "delete") /\ req[r].id = u
                                 /\ req[r].handle = users[u].handle \/ req[r].renamed
  <2>1. UsersBelow
      BY <1>2 DEF DeletionInv
  <2>2. CASE UNCHANGED vars
      BY <1>2, <2>2 DEF vars
  <2>3. CASE GrantAdmin \/ ShellCreate \/ Expire
      BY <1>2, <2>1, <2>3, RowsStayInWorld
  <2>4. ASSUME NEW r \in Requests, Arrivals(r) PROVE FALSE
      BY <1>2, <2>4, ArrivalsQuiet
  <2>5. ASSUME NEW r \in Requests, Handle(r)
        PROVE  /\ At(r, "delete") /\ req[r].id = u
               /\ req[r].handle = users[u].handle \/ req[r].renamed
    <3>1. DeleteUser(r)
        BY <1>2, <2>1, <2>5, RowsStay
    <3>2. At(r, "delete") /\ req[r].id = u
        BY <1>2, <3>1 DEF DeleteUser, TypeInv, TypeOK
    <3> QED BY <1>2, <3>2 DEF DeletionInv, Confirmations
  <2> QED BY <1>2, <2>2, <2>3, <2>4, <2>5 DEF Next
<1>3. TypeInv /\ DeletionInv /\ [Next]_vars =>
        [\A u \in Ids : users[u] # NoUser /\ users'[u] = NoUser =>
            \E r \in Requests : /\ At(r, "delete") /\ req[r].id = u
                                /\ req[r].handle = users[u].handle \/ req[r].renamed]_vars
    BY <1>2
<1> QED BY <1>1, <1>3, TypeCorrect, DeletionStep, PTL DEF Spec, DeletedAsTyped

----------------------------------------------------------------------------
(***************************************************************************)
(* A reset sets one password, an invite makes one account                  *)
(***************************************************************************)
Kinds == {"resets", "invites"}

TokensOf(k) == IF k = "resets" THEN resets ELSE invites

\* The number of the last request that arrived.
Last == MaxRequests - left + 1

\* Rows of either table, and requests, bear numbers handed out so far; a request's is
\* its own, and no row has it yet.
NumbersFresh ==
    /\ \A t \in resets \cup invites : t.n <= Last
    /\ \A r \in Requests : req[r] # None =>
          /\ 1 < req[r].n /\ req[r].n <= Last
          /\ \A t \in resets \cup invites : t.n # req[r].n
    /\ \A r, s \in Requests : req[r] # None /\ req[s] # None /\ r # s => req[r].n # req[s].n

\* Request r has redeemed the row numbered n and not yet done what for.
Claims(r, k, n) ==
    /\ req[r] # None /\ req[r].sess = n
    /\ \/ k = "resets" /\ req[r].pc = "password" /\ req[r].op = "reset"
       \/ k = "invites" /\ req[r].pc = "create" /\ req[r].op = "signup" /\ n # 0

\* What a row was good for happened, or one request is about to bring it about; from
\* then on it is used.
OnceOnly(k, n) ==
    /\ spent[n][k] <= 1
    /\ spent[n][k] = 1 => \A r \in Requests : ~Claims(r, k, n)
    /\ \A r, s \in Requests : Claims(r, k, n) /\ Claims(s, k, n) => r = s
    /\ spent[n][k] = 1 \/ (\E r \in Requests : Claims(r, k, n)) =>
          /\ \E t \in TokensOf(k) : t.n = n
          /\ \A t \in TokensOf(k) : t.n = n => ~t.live

Once == \A k \in Kinds, n \in Numbers : OnceOnly(k, n)

SpentInv == NumbersFresh /\ Once

\* At first nothing is spent and nobody holds anything.
LEMMA SpentInit == Init => SpentInv
<1> SUFFICES ASSUME Init PROVE SpentInv
    OBVIOUS
<1>1. NumbersFresh
    BY BoundsAssumption DEF Init, NumbersFresh, Last
<1>2. ASSUME NEW k \in Kinds, NEW n \in Numbers PROVE OnceOnly(k, n)
  <2>1. spent[n][k] = 0 /\ \A r \in Requests : ~Claims(r, k, n)
      BY <1>2 DEF Init, Kinds, Claims
  <2> QED BY <2>1 DEF OnceOnly
<1> QED BY <1>1, <1>2 DEF SpentInv, Once

\* Nobody redeems anything new, and rows may only turn used.
Wanes(k) ==
    /\ \A n \in Numbers : spent'[n][k] = spent[n][k]
    /\ \A r \in Requests, n \in Numbers : Claims(r, k, n)' => Claims(r, k, n)
    /\ \A t \in TokensOf(k)' : \E x \in TokensOf(k) : x.n = t.n /\ (t.live => x.live)
    /\ \A x \in TokensOf(k) : \E t \in TokensOf(k)' : x.n = t.n

\* Then what was brought about once stays so.
LEMMA OnceWanes ==
    ASSUME NEW k \in Kinds, NEW n \in Numbers, OnceOnly(k, n), Wanes(k)
    PROVE  OnceOnly(k, n)'
BY DEF OnceOnly, Wanes

\* A row is added under the number of the request that adds it.
LEMMA OnceInserted ==
    ASSUME TypeInv, NumbersFresh, NEW k \in Kinds, NEW n \in Numbers, OnceOnly(k, n),
           NEW r \in Requests, req[r] # None, NEW t, t.n = req[r].n,
           TokensOf(k)' = TokensOf(k) \cup {t}, spent' = spent,
           \A s \in Requests : Claims(s, k, n)' => Claims(s, k, n)
    PROVE  OnceOnly(k, n)'
<1>1. \A x \in TokensOf(k) : x.n # t.n
    BY DEF NumbersFresh, TokensOf
<1>2. spent[n][k] = 1 \/ (\E s \in Requests : Claims(s, k, n)) => n # t.n
    BY <1>1 DEF OnceOnly
<1> QED BY <1>2 DEF OnceOnly

\* A row still live is redeemed.
LEMMA OnceConsumed ==
    ASSUME NEW k \in Kinds, NEW n \in Numbers, OnceOnly(k, n), NEW m, Redeemable(TokensOf(k), m) # {},
           spent[n][k] \in Nat,
           TokensOf(k)' = Used(TokensOf(k), m), spent' = spent, NEW r \in Requests,
           \A s \in Requests : Claims(s, k, n)' => Claims(s, k, n) \/ (s = r /\ n = m),
           \A x \in TokensOf(k) : [x EXCEPT !.live = FALSE].n = x.n /\ ~[x EXCEPT !.live = FALSE].live
    PROVE  OnceOnly(k, n)'
<1>1. PICK y \in TokensOf(k) : y.n = m /\ y.live
    BY DEF Redeemable
<1>2. \A t \in TokensOf(k)' : \E x \in TokensOf(k) :
          x.n = t.n /\ (t.live => x.live) /\ (t.n = m => ~t.live)
    BY DEF Used
<1>3. \A x \in TokensOf(k) : \E t \in TokensOf(k)' : x.n = t.n
    BY DEF Used
<1>4. CASE n # m
    BY <1>2, <1>3, <1>4 DEF OnceOnly
<1>5. CASE n = m
  <2>1. spent[n][k] # 1 /\ \A s \in Requests : ~Claims(s, k, n)
      BY <1>1, <1>5 DEF OnceOnly
  <2>2. \A s \in Requests : Claims(s, k, n)' => s = r
      BY <2>1
  <2>3. (\E t \in TokensOf(k)' : t.n = n) /\ \A t \in TokensOf(k)' : t.n = n => ~t.live
      BY <1>1, <1>2, <1>3, <1>5
  <2> QED BY <2>1, <2>2, <2>3 DEF OnceOnly
<1> QED BY <1>4, <1>5

\* What a request redeemed is brought about.
LEMMA OnceSpent ==
    ASSUME NEW k \in Kinds, NEW n \in Numbers, OnceOnly(k, n), spent[n][k] \in Nat,
           NEW r \in Requests, NEW m \in Numbers, Claims(r, k, m),
           spent'[n][k] = IF n = m THEN spent[n][k] + 1 ELSE spent[n][k],
           TokensOf(k)' = TokensOf(k),
           \A s \in Requests : Claims(s, k, n)' => Claims(s, k, n) /\ s # r
    PROVE  OnceOnly(k, n)'
<1>1. CASE n = m
  <2>1. spent[n][k] = 0
      BY <1>1 DEF OnceOnly
  <2>2. \A s \in Requests : ~Claims(s, k, n)'
      BY <1>1 DEF OnceOnly
  <2> QED BY <1>1, <2>1, <2>2 DEF OnceOnly
<1>2. CASE n # m
    BY <1>2 DEF OnceOnly
<1> QED BY <1>1, <1>2

\* The record of a request that arrives: the next number, and nothing redeemed.
Unclaimed(q) == q.n = MaxRequests - left + 2 /\ q.pc # "password" /\ (q.pc = "create" => q.sess = 0)

\* Requests without a session.
LEMMA FreshUnclaimed ==
    ASSUME NEW op, NEW pc, pc # "password", NEW h, NEW i, NEW e
    PROVE  /\ Unclaimed([Fresh(op, pc) EXCEPT !.handle = h])
           /\ Unclaimed([Fresh(op, pc) EXCEPT !.email = e])
           /\ Unclaimed([Fresh(op, pc) EXCEPT !.id = i])
           /\ Unclaimed([Fresh(op, pc) EXCEPT !.handle = h, !.id = i])
           /\ Unclaimed([Fresh(op, pc) EXCEPT !.handle = h, !.email = e])
BY DEF Unclaimed, Fresh

\* Requests that come with a session.
LEMMA FreshBySession ==
    ASSUME NEW op, NEW s, NEW h, NEW i, NEW e
    PROVE  /\ Unclaimed([Fresh(op, "extract") EXCEPT !.sess = s])
           /\ Unclaimed([Fresh(op, "extract") EXCEPT !.sess = s, !.email = e])
           /\ Unclaimed([Fresh(op, "extract") EXCEPT !.sess = s, !.id = i])
           /\ Unclaimed([Fresh(op, "extract") EXCEPT !.sess = s, !.id = i, !.handle = h])
           /\ Unclaimed([Fresh(op, "extract") EXCEPT !.sess = s, !.id = i, !.email = e])
           /\ Unclaimed([Fresh(op, "extract") EXCEPT !.sess = s, !.handle = h, !.email = e])
BY DEF Unclaimed, Fresh

\* A request that arrives bears the next number and has redeemed nothing.
LEMMA ArrivalNumbers ==
    ASSUME NEW r \in Requests, Arrivals(r)
    PROVE  /\ req[r] = None /\ left > 0 /\ left' = left - 1
           /\ \E q : req' = [req EXCEPT ![r] = q] /\ Unclaimed(q)
<1>1. \E q : Unclaimed(q) /\ Arrive(r, q)
  <2>1. CASE SignIn(r)
      BY <2>1, FreshUnclaimed DEF SignIn
  <2>2. CASE Forgot(r)
      BY <2>2, FreshUnclaimed DEF Forgot
  <2>3. CASE Reset(r)
      BY <2>3, FreshUnclaimed DEF Reset
  <2>4. CASE Signup(r)
      BY <2>4, FreshUnclaimed DEF Signup
  <2>5. CASE Portal(r)
      BY <2>5, FreshBySession DEF Portal
  <2>6. CASE Operate(r)
    <3> PICK u \in Ids :
             \/ \E s \in sessions : Arrive(r, [Fresh("toggle_admin", "extract") EXCEPT !.sess = s.n, !.id = u])
             \/ \E s \in OperatorSessions, op \in {"disable_user", "enable_user", "set_password"} :
                   Arrive(r, [Fresh(op, "extract") EXCEPT !.sess = s.n, !.id = u])
             \/ \E s \in OperatorSessions, h \in Handles :
                   Arrive(r, [Fresh("delete_user", "extract") EXCEPT !.sess = s.n, !.id = u, !.handle = h])
             \/ \E s \in OperatorSessions, h \in Typed :
                   Arrive(r, [Fresh("rename_user", "extract") EXCEPT !.sess = s.n, !.id = u, !.handle = h])
             \/ \E s \in OperatorSessions, e \in Emails \cup {Blank} :
                   Arrive(r, [Fresh("set_email", "extract") EXCEPT !.sess = s.n, !.id = u, !.email = e])
        BY <2>6 DEF Operate
    <3> QED BY FreshBySession
  <2>7. CASE OperateMore(r)
      BY <2>7, FreshBySession DEF OperateMore
  <2> QED BY <2>1, <2>2, <2>3, <2>4, <2>5, <2>6, <2>7 DEF Arrivals
<1>2. PICK q : Unclaimed(q) /\ Arrive(r, q)
    BY <1>1
<1>3. req[r] = None /\ left > 0 /\ left' = left - 1
    BY <1>2 DEF Arrive
<1>4. Unclaimed(q) /\ req' = [req EXCEPT ![r] = q]
    BY <1>2 DEF Arrive
<1> QED BY <1>3, <1>4

\* A handler leaves every request that goes on its number.
LEMMA HandlerNumbers ==
    ASSUME TypeInv, NEW r \in Requests, Handle(r)
    PROVE  /\ left' = left
           /\ \A x \in Requests : req'[x] # None => req[x] # None /\ req'[x].n = req[x].n
<1>1. left' = left
    BY DEF Handle, Extract, CheckPassword, InsertCredential, EndSession, EndDevice, SetPassword,
           FindByEmail, InsertReset, ConsumeReset, InsertInvite, ConsumeInvite, CreateUser, SetEmail,
           Disable, Enable, Rename, ReadAdmin, SetAdmin, ReadImpact, DeleteUser, Fail
<1>2. CASE Rename(r)
  <2>1. \A x \in Requests : \/ req'[x] \in {None, req[x]}
                            \/ req[x] # None /\ req'[x] = [req[x] EXCEPT !.renamed = TRUE]
      BY <1>2 DEF Rename, At
  <2>2. \A q \in Request : [q EXCEPT !.renamed = TRUE].n = q.n
      BY DEF Request
  <2>3. \A x \in Requests : req[x] # None => req[x] \in Request
      BY InFlight
  <2> QED BY <1>1, <2>1, <2>2, <2>3
<1>3. CASE ~Rename(r)
  <2>1. req[r] # None
      BY DEF Handle, At, Extract, CheckPassword, InsertCredential, EndSession, EndDevice, SetPassword,
             FindByEmail, InsertReset, ConsumeReset, InsertInvite, ConsumeInvite, CreateUser, SetEmail,
             Disable, Enable, Rename, ReadAdmin, SetAdmin, ReadImpact, DeleteUser, Fail
  <2>2. Moves(r)
      BY <1>3, HandlerMoves
  <2> QED BY <1>1, <2>1, <2>2 DEF Moves, TypeInv, TypeOK
<1> QED BY <1>2, <1>3

\* A handler that redeems nothing gives nobody a claim.
LEMMA HandlerClaims ==
    ASSUME TypeInv, NEW r \in Requests, Handle(r), ~ConsumeReset(r), ~ConsumeInvite(r)
    PROVE  \A x \in Requests : \A k, n : Claims(x, k, n)' => Claims(x, k, n) /\ x # r
<1>1. CASE Rename(r)
  <2>1. \A x \in Requests : \/ req'[x] = None
                            \/ req'[x] = req[x] /\ x # r
                            \/ req[x] # None /\ req'[x] = [req[x] EXCEPT !.renamed = TRUE] /\ x # r
      BY <1>1 DEF Rename, At
  <2>2. \A q \in Request : /\ [q EXCEPT !.renamed = TRUE].pc = q.pc
                           /\ [q EXCEPT !.renamed = TRUE].op = q.op
                           /\ [q EXCEPT !.renamed = TRUE].sess = q.sess
      BY DEF Request
  <2>3. \A x \in Requests : req[x] # None => req[x] \in Request
      BY InFlight
  <2>4. \A x \in Requests : req'[x] # None =>
           /\ req[x] # None /\ x # r
           /\ req'[x].pc = req[x].pc /\ req'[x].op = req[x].op /\ req'[x].sess = req[x].sess
      BY <2>1, <2>2, <2>3
  <2> QED BY <2>4 DEF Claims
<1>2. CASE ~Rename(r)
  <2>1. Moves(r)
      BY <1>2, HandlerMoves
  <2>2. \A x \in Requests : x # r => req'[x] = req[x]
      BY <2>1 DEF Moves, TypeInv, TypeOK
  <2>3. req'[r] # None => ~Claiming(req'[r])
      BY <2>1 DEF Moves, TypeInv, TypeOK
  <2> QED BY <2>2, <2>3 DEF Claims, Claiming
<1> QED BY <1>1, <1>2

\* The last number only grows.
LEMMA LastGrows ==
    ASSUME MaxRequests \in Nat, left \in Nat, left' \in Nat, left' <= left
    PROVE  Last <= Last'
<1> DEFINE a == left
           b == left'
<1>1. a \in Nat /\ b \in Nat /\ b <= a /\ MaxRequests \in Nat
    OBVIOUS
<1>2. Last = MaxRequests - a + 1 /\ Last' = MaxRequests - b + 1
    BY DEF Last
<1> HIDE DEF a, b
<1>3. MaxRequests - a + 1 <= MaxRequests - b + 1
    BY <1>1
<1> QED BY <1>2, <1>3

\* Numbers already given to rows and requests stay distinct.
LEMMA FreshKept ==
    ASSUME TypeInv, TypeInv', NumbersFresh, left' <= left,
           \A x \in Requests : req'[x] # None => req[x] # None /\ req'[x].n = req[x].n,
           \A t \in resets' \cup invites' : \E x \in resets \cup invites : x.n = t.n
    PROVE  NumbersFresh'
<1>1. left \in Nat /\ left' \in Nat /\ MaxRequests \in Nat
    BY BoundsAssumption DEF TypeInv, TypeOK
<1>2. Last \in Int /\ Last' \in Int /\ Last <= Last' /\ Numbers \subseteq Int
  <2>1. Last \in Int
    BY <1>1 DEF Last
  <2>2. Last' \in Int
    BY <1>1 DEF Last
  <2>3. Last <= Last'
    BY <1>1, LastGrows
  <2>4. Numbers \subseteq Int
    BY <1>1 DEF Numbers
  <2> QED BY <2>1, <2>2, <2>3, <2>4
<1>3. /\ \A t \in resets \cup invites : t.n \in Numbers
      /\ \A x \in Requests : req[x] # None => req[x].n \in Numbers
    BY DEF TypeInv, TypeOK, Token, Request
<1>4. \A n \in Numbers : n <= Last => n <= Last'
    BY <1>2
<1> HIDE DEF Last
<1> QED BY <1>3, <1>4 DEF NumbersFresh

\* A row that takes its request's number, as the request ends.
LEMMA FreshInserted ==
    ASSUME TypeInv, NumbersFresh, left' = left, NEW r \in Requests, req[r] # None, Answer(r),
           \A t \in resets' \cup invites' : t.n = req[r].n \/ \E x \in resets \cup invites : x.n = t.n
    PROVE  NumbersFresh'
<1>1. \A x \in Requests : req'[x] = None \/ (x # r /\ req'[x] = req[x])
    BY DEF Answer, TypeInv, TypeOK
<1>2. Last' = Last
    BY DEF Last
<1> QED BY <1>1, <1>2 DEF NumbersFresh

\* The number of a request that arrives is new.
LEMMA FreshArrival ==
    ASSUME TypeInv, NumbersFresh, NEW r \in Requests, Arrivals(r)
    PROVE  NumbersFresh'
<1> PICK q : /\ req' = [req EXCEPT ![r] = q] /\ q.n = MaxRequests - left + 2
             /\ req[r] = None /\ left > 0 /\ left' = left - 1
    BY ArrivalNumbers DEF Unclaimed
<1>1. left \in Nat /\ MaxRequests \in Nat /\ left <= MaxRequests
    BY BoundsAssumption DEF TypeInv, TypeOK
<1>2. q.n = Last' /\ Last' = Last + 1 /\ Last \in Nat /\ 1 < q.n
    BY <1>1 DEF Last
<1>3. resets' = resets /\ invites' = invites
    BY ArrivalsQuiet
<1>4. /\ \A t \in resets \cup invites : t.n \in Nat
      /\ \A x \in Requests : req[x] # None => req[x].n \in Nat
    BY DEF TypeInv, TypeOK, Token, Request, Numbers
<1>5. /\ \A t \in resets \cup invites : t.n <= Last' /\ t.n # q.n
      /\ \A x \in Requests : req[x] # None => req[x].n <= Last' /\ req[x].n # q.n
    BY <1>2, <1>4 DEF NumbersFresh
<1>6. \A x \in Requests : req'[x] = IF x = r THEN q ELSE req[x]
    BY DEF TypeInv, TypeOK
<1> HIDE DEF Last
<1>7. q.n <= Last'
    BY <1>2
<1> QED BY <1>2, <1>3, <1>5, <1>6, <1>7 DEF NumbersFresh

\* Used marks rows and removes none.
LEMMA UsedRows ==
    ASSUME NEW table, table \subseteq Token, NEW m
    PROVE  /\ \A t \in Used(table, m) : \E x \in table : x.n = t.n /\ (t.live => x.live)
           /\ \A x \in table : \E t \in Used(table, m) : x.n = t.n
           /\ \A x \in table : [x EXCEPT !.live = FALSE].n = x.n /\ ~[x EXCEPT !.live = FALSE].live
<1>1. \A x \in table : [x EXCEPT !.live = FALSE].n = x.n /\ ~[x EXCEPT !.live = FALSE].live
    BY DEF Token
<1> QED BY <1>1 DEF Used

\* Both tables as they were, or rows turned used, and no claim made.
LEMMA OnceQuiet ==
    ASSUME TypeInv, Once, UNCHANGED spent,
           \/ UNCHANGED <<resets, invites>>
           \/ UNCHANGED invites /\ \E m : resets' = Used(resets, m)
           \/ UNCHANGED resets /\ \E m : invites' = Used(invites, m),
           \A r \in Requests : \A k, n : Claims(r, k, n)' => Claims(r, k, n)
    PROVE  Once'
<1>1. resets \subseteq Token /\ invites \subseteq Token
    BY DEF TypeInv, TypeOK
<1>2. ASSUME NEW k \in Kinds PROVE Wanes(k)
  <2>1. TokensOf(k)' = TokensOf(k) \/ \E m : TokensOf(k)' = Used(TokensOf(k), m)
      BY DEF TokensOf
  <2>2. TokensOf(k) \subseteq Token
      BY <1>1 DEF TokensOf
  <2>3. /\ \A t \in TokensOf(k)' : \E x \in TokensOf(k) : x.n = t.n /\ (t.live => x.live)
        /\ \A x \in TokensOf(k) : \E t \in TokensOf(k)' : x.n = t.n
      BY <2>1, <2>2, UsedRows
  <2> QED BY <2>3 DEF Wanes
<1>3. \A k \in Kinds, n \in Numbers : OnceOnly(k, n)'
    BY <1>2, OnceWanes DEF Once
<1> QED BY <1>3 DEF Once

\* The other kind is not touched.
LEMMA OnceOther ==
    ASSUME NEW k \in Kinds, NEW n \in Numbers, OnceOnly(k, n), TokensOf(k)' = TokensOf(k),
           spent'[n][k] = spent[n][k], \A s \in Requests : Claims(s, k, n)' => Claims(s, k, n)
    PROVE  OnceOnly(k, n)'
BY DEF OnceOnly

\* Counts are numbers.
LEMMA SpentTyped ==
    ASSUME TypeInv, NEW k \in Kinds, NEW n \in Numbers
    PROVE  spent[n][k] \in Nat
BY DEF TypeInv, TypeOK, Kinds

\* The step that makes a reset or an invite.
LEMMA SpentInserts ==
    ASSUME TypeInv, SpentInv, NEW r \in Requests, InsertReset(r) \/ InsertInvite(r)
    PROVE  SpentInv'
<1>1. req[r] # None /\ Answer(r) /\ left' = left /\ spent' = spent
    BY DEF InsertReset, InsertInvite, At
<1>2. \A s \in Requests : \A k, n : Claims(s, k, n)' => Claims(s, k, n)
    BY HandlerClaims DEF Handle, InsertReset, InsertInvite, ConsumeReset, ConsumeInvite, At
<1>3. CASE UNCHANGED <<resets, invites>>
  <2>1. Once'
      BY <1>1, <1>2, <1>3, OnceQuiet DEF SpentInv
  <2>2. NumbersFresh'
      BY <1>1, <1>3, FreshInserted DEF SpentInv
  <2> QED BY <2>1, <2>2 DEF SpentInv
<1>4. ASSUME NEW k \in Kinds, NEW t, t.n = req[r].n, TokensOf(k)' = TokensOf(k) \cup {t},
             \A j \in Kinds : j # k => TokensOf(j)' = TokensOf(j)
      PROVE  SpentInv'
  <2>1. \A n \in Numbers : OnceOnly(k, n)'
      BY <1>1, <1>2, <1>4, OnceInserted DEF SpentInv, Once
  <2>2. \A j \in Kinds, n \in Numbers : j # k => OnceOnly(j, n)'
      BY <1>1, <1>2, <1>4, OnceOther DEF SpentInv, Once
  <2>3. resets' \cup invites' \subseteq resets \cup invites \cup {t}
    <3>1. TokensOf("resets")' \cup TokensOf("invites")' \subseteq TokensOf("resets") \cup TokensOf("invites") \cup {t}
        BY <1>4 DEF Kinds
    <3> QED BY <3>1 DEF TokensOf
  <2>4. NumbersFresh'
      BY <1>1, <1>4, <2>3, FreshInserted DEF SpentInv
  <2> QED BY <2>1, <2>2, <2>4 DEF SpentInv, Once
<1>5. CASE InsertReset(r)
  <2> DEFINE t == [n |-> req[r].n, owner |-> req[r].id, email |-> NoEmail, live |-> TRUE]
  <2>1. UNCHANGED <<resets, invites>> \/ (resets' = resets \cup {t} /\ invites' = invites)
      BY <1>5 DEF InsertReset
  <2>2. t.n = req[r].n
      OBVIOUS
  <2> HIDE DEF t
  <2>3. CASE resets' = resets \cup {t} /\ invites' = invites
      BY <1>4, <2>2, <2>3 DEF TokensOf, Kinds
  <2> QED BY <1>3, <2>1, <2>3
<1>6. CASE InsertInvite(r)
  <2> DEFINE t == [n |-> req[r].n, owner |-> req[r].actor, email |-> req[r].email, live |-> TRUE]
  <2>1. UNCHANGED <<resets, invites>> \/ (invites' = invites \cup {t} /\ resets' = resets)
      BY <1>6 DEF InsertInvite
  <2>2. t.n = req[r].n
      OBVIOUS
  <2> HIDE DEF t
  <2>3. CASE invites' = invites \cup {t} /\ resets' = resets
      BY <1>4, <2>2, <2>3 DEF TokensOf, Kinds
  <2> QED BY <1>3, <2>1, <2>3
<1> QED BY <1>5, <1>6

\* Redeeming: the row turns used and the request holds it.
LEMMA SpentConsumes ==
    ASSUME TypeInv, SpentInv, NEW r \in Requests, ConsumeReset(r) \/ ConsumeInvite(r)
    PROVE  Once'
<1>1. req[r] # None /\ req[r] \in Request /\ spent' = spent
    BY InFlight DEF ConsumeReset, ConsumeInvite, At
<1>2. \A k \in Kinds : TokensOf(k) \subseteq Token
    BY DEF TokensOf, TypeInv, TypeOK
<1>3. CASE Answer(r) /\ UNCHANGED <<resets, invites>>
  <2>1. \A s \in Requests : req'[s] = None \/ req'[s] = req[s]
      BY <1>3 DEF Answer, TypeInv, TypeOK
  <2>2. \A s \in Requests : \A k, n : Claims(s, k, n)' => Claims(s, k, n)
      BY <2>1 DEF Claims
  <2> QED BY <1>1, <1>3, <2>2, OnceQuiet DEF SpentInv
<1>4. ASSUME NEW k \in Kinds, NEW m, Redeemable(TokensOf(k), m) # {},
             TokensOf(k)' = Used(TokensOf(k), m),
             \A j \in Kinds : j # k => TokensOf(j)' = TokensOf(j),
             \A s \in Requests, j \in Kinds, n \in Numbers :
                 Claims(s, j, n)' => Claims(s, j, n) \/ (s = r /\ j = k /\ n = m)
      PROVE  Once'
  <2>1. ASSUME NEW n \in Numbers PROVE OnceOnly(k, n)'
    <3>1. OnceOnly(k, n) /\ spent[n][k] \in Nat
        BY <1>4, SpentTyped DEF SpentInv, Once
    <3>2. \A x \in TokensOf(k) : [x EXCEPT !.live = FALSE].n = x.n /\ ~[x EXCEPT !.live = FALSE].live
        BY <1>2, <1>4, UsedRows
    <3>3. \A s \in Requests : Claims(s, k, n)' => Claims(s, k, n) \/ (s = r /\ n = m)
        BY <1>4
    <3> QED BY <1>1, <1>4, <3>1, <3>2, <3>3, OnceConsumed
  <2>2. \A j \in Kinds, n \in Numbers : j # k => OnceOnly(j, n)'
      BY <1>1, <1>4, OnceOther DEF SpentInv, Once
  <2> QED BY <2>1, <2>2 DEF Once
<1>5. CASE ConsumeReset(r) /\ ~(Answer(r) /\ UNCHANGED <<resets, invites>>)
  <2> PICK t \in Redeemable(resets, req[r].id) :
           /\ resets' = Used(resets, req[r].id)
           /\ req' = [req EXCEPT ![r].pc = "password", ![r].id = t.owner, ![r].sess = t.n]
      BY <1>5 DEF ConsumeReset
  <2>1. invites' = invites
      BY <1>5 DEF ConsumeReset
  <2>2. req'[r].pc = "password" /\ req'[r].sess = req[r].id
      BY <1>1 DEF Redeemable, TypeInv, TypeOK, Request
  <2>3. \A s \in Requests : s # r => req'[s] = req[s]
      BY DEF TypeInv, TypeOK
  <2>4. \A s \in Requests, j \in Kinds, n \in Numbers :
            Claims(s, j, n)' => Claims(s, j, n) \/ (s = r /\ j = "resets" /\ n = req[r].id)
    <3>1. ASSUME NEW s \in Requests, s # r, NEW j \in Kinds, NEW n \in Numbers, Claims(s, j, n)'
          PROVE  Claims(s, j, n)
        BY <2>3, <3>1 DEF Claims
    <3>2. ASSUME NEW j \in Kinds, NEW n \in Numbers, Claims(r, j, n)'
          PROVE  j = "resets" /\ n = req[r].id
        BY <2>2, <3>2 DEF Claims, Kinds
    <3> QED BY <3>1, <3>2
  <2>5. /\ TokensOf("resets") = resets /\ TokensOf("resets")' = resets'
        /\ \A j \in Kinds : j # "resets" => TokensOf(j)' = TokensOf(j)
        /\ "resets" \in Kinds
      BY <2>1 DEF TokensOf, Kinds
  <2>6. Redeemable(TokensOf("resets"), req[r].id) # {}
        /\ TokensOf("resets")' = Used(TokensOf("resets"), req[r].id)
      BY <2>5
  <2> QED BY <1>4, <2>4, <2>5, <2>6
<1>6. CASE ConsumeInvite(r) /\ ~(Answer(r) /\ UNCHANGED <<resets, invites>>)
  <2> PICK t \in Redeemable(invites, req[r].id) :
           /\ invites' = Used(invites, req[r].id)
           /\ req' = [req EXCEPT ![r].pc = "create", ![r].email = t.email, ![r].sess = t.n]
      BY <1>6 DEF ConsumeInvite
  <2>1. resets' = resets
      BY <1>6 DEF ConsumeInvite
  <2>2. req'[r].pc = "create" /\ req'[r].sess = req[r].id
      BY <1>1 DEF Redeemable, TypeInv, TypeOK, Request
  <2>3. \A s \in Requests : s # r => req'[s] = req[s]
      BY DEF TypeInv, TypeOK
  <2>4. \A s \in Requests, j \in Kinds, n \in Numbers :
            Claims(s, j, n)' => Claims(s, j, n) \/ (s = r /\ j = "invites" /\ n = req[r].id)
    <3>1. ASSUME NEW s \in Requests, s # r, NEW j \in Kinds, NEW n \in Numbers, Claims(s, j, n)'
          PROVE  Claims(s, j, n)
        BY <2>3, <3>1 DEF Claims
    <3>2. ASSUME NEW j \in Kinds, NEW n \in Numbers, Claims(r, j, n)'
          PROVE  j = "invites" /\ n = req[r].id
        BY <2>2, <3>2 DEF Claims, Kinds
    <3> QED BY <3>1, <3>2
  <2>5. /\ TokensOf("invites") = invites /\ TokensOf("invites")' = invites'
        /\ \A j \in Kinds : j # "invites" => TokensOf(j)' = TokensOf(j)
        /\ "invites" \in Kinds
      BY <2>1 DEF TokensOf, Kinds
  <2>6. Redeemable(TokensOf("invites"), req[r].id) # {}
        /\ TokensOf("invites")' = Used(TokensOf("invites"), req[r].id)
      BY <2>5
  <2> QED BY <1>4, <2>4, <2>5, <2>6
<1> QED BY <1>3, <1>5, <1>6

\* The password is set, the account made: once for what was redeemed.
LEMMA SpentBrings ==
    ASSUME TypeInv, SpentInv, NEW r \in Requests, SetPassword(r) \/ CreateUser(r)
    PROVE  Once'
<1>1. req[r] # None /\ req[r] \in Request /\ req[r].sess \in Numbers
    BY InFlight DEF SetPassword, CreateUser, At, Request
<1>2. UNCHANGED <<resets, invites>>
    BY DEF SetPassword, CreateUser
<1>3. \A s \in Requests : \A k, n : Claims(s, k, n)' => Claims(s, k, n) /\ s # r
    BY HandlerClaims DEF Handle, SetPassword, CreateUser, ConsumeReset, ConsumeInvite, At
<1>4. CASE spent' = spent
    BY <1>2, <1>3, <1>4, OnceQuiet DEF SpentInv
<1>5. ASSUME NEW k \in Kinds, NEW m \in Numbers, Claims(r, k, m),
             \A j \in Kinds, n \in Numbers :
                 spent'[n][j] = IF j = k /\ n = m THEN spent[n][j] + 1 ELSE spent[n][j]
      PROVE  Once'
  <2>1. \A j \in Kinds : TokensOf(j)' = TokensOf(j)
      BY <1>2 DEF TokensOf
  <2>2. ASSUME NEW n \in Numbers PROVE OnceOnly(k, n)'
    <3>1. OnceOnly(k, n) /\ spent[n][k] \in Nat
        BY <1>5, SpentTyped DEF SpentInv, Once
    <3>2. spent'[n][k] = IF n = m THEN spent[n][k] + 1 ELSE spent[n][k]
        BY <1>5
    <3>3. \A s \in Requests : Claims(s, k, n)' => Claims(s, k, n) /\ s # r
        BY <1>3
    <3> QED BY <1>5, <2>1, <3>1, <3>2, <3>3, OnceSpent
  <2>3. ASSUME NEW j \in Kinds, NEW n \in Numbers, j # k PROVE OnceOnly(j, n)'
    <3>1. OnceOnly(j, n) /\ spent'[n][j] = spent[n][j]
        BY <1>5, <2>3 DEF SpentInv, Once
    <3>2. \A s \in Requests : Claims(s, j, n)' => Claims(s, j, n)
        BY <1>3
    <3> QED BY <2>1, <2>3, <3>1, <3>2, OnceOther
  <2> QED BY <2>2, <2>3 DEF Once
<1>6. CASE SetPassword(r) /\ req[r].op = "reset"
  <2> DEFINE m == req[r].sess
  <2>1. spent' = [spent EXCEPT ![m].resets = @ + 1]
      BY <1>6 DEF SetPassword
  <2>2. Claims(r, "resets", m)
      BY <1>1, <1>6 DEF SetPassword, At, Claims
  <2>3. m \in Numbers
      BY <1>1
  <2> HIDE DEF m
  <2>4. \A j \in Kinds, n \in Numbers :
            spent'[n][j] = IF j = "resets" /\ n = m THEN spent[n][j] + 1 ELSE spent[n][j]
      BY <2>1, <2>3 DEF Kinds, TypeInv, TypeOK
  <2> QED BY <1>5, <2>2, <2>3, <2>4 DEF Kinds
<1>7. CASE CreateUser(r) /\ req[r].op = "signup" /\ req[r].sess # 0 /\ spent' # spent
  <2> DEFINE m == req[r].sess
  <2>1. spent' = [spent EXCEPT ![m].invites = @ + 1]
      BY <1>7 DEF CreateUser
  <2>2. Claims(r, "invites", m)
      BY <1>1, <1>7 DEF CreateUser, At, Claims
  <2>3. m \in Numbers
      BY <1>1
  <2> HIDE DEF m
  <2>4. \A j \in Kinds, n \in Numbers :
            spent'[n][j] = IF j = "invites" /\ n = m THEN spent[n][j] + 1 ELSE spent[n][j]
      BY <2>1, <2>3 DEF Kinds, TypeInv, TypeOK
  <2> QED BY <1>5, <2>2, <2>3, <2>4 DEF Kinds
<1>8. spent' = spent \/ (SetPassword(r) /\ req[r].op = "reset")
      \/ (CreateUser(r) /\ req[r].op = "signup" /\ req[r].sess # 0)
    BY DEF SetPassword, CreateUser
<1> QED BY <1>4, <1>6, <1>7, <1>8

\* Handlers that add no row keep the numbers distinct.
LEMMA HandlerFresh ==
    ASSUME TypeInv, TypeInv', NumbersFresh, NEW r \in Requests, Handle(r),
           ~InsertReset(r), ~InsertInvite(r)
    PROVE  NumbersFresh'
<1>1. resets \subseteq Token /\ invites \subseteq Token
    BY DEF TypeInv, TypeOK
<1>2. /\ resets' = resets \/ \E m : resets' = Used(resets, m)
      /\ invites' = invites \/ \E m : invites' = Used(invites, m)
    BY DEF Handle, Extract, CheckPassword, InsertCredential, EndSession, EndDevice, SetPassword,
           FindByEmail, ConsumeReset, ConsumeInvite, CreateUser, SetEmail,
           Disable, Enable, Rename, ReadAdmin, SetAdmin, ReadImpact, DeleteUser, Fail, tables
<1>3. \A t \in resets' \cup invites' : \E x \in resets \cup invites : x.n = t.n
    BY <1>1, <1>2, UsedRows
<1>4. left' <= left
    BY HandlerNumbers DEF TypeInv, TypeOK
<1> QED BY <1>3, <1>4, HandlerNumbers, FreshKept

\* Every step keeps the numbers distinct and what was redeemed brought about once.
LEMMA SpentStep == ASSUME TypeInv, TypeInv', SpentInv, [Next]_vars PROVE SpentInv'
<1>1. CASE UNCHANGED vars
    BY <1>1 DEF vars, SpentInv, NumbersFresh, Last, Once, OnceOnly, Claims, TokensOf
<1>2. ASSUME NEW r \in Requests, Arrivals(r) PROVE SpentInv'
  <2>1. \A s \in Requests : \A k, n : Claims(s, k, n)' => Claims(s, k, n)
    <3> PICK q : req' = [req EXCEPT ![r] = q] /\ Unclaimed(q)
        BY <1>2, ArrivalNumbers
    <3>1. \A s \in Requests : req'[s] = IF s = r THEN q ELSE req[s]
        BY DEF TypeInv, TypeOK
    <3> QED BY <3>1 DEF Unclaimed, Claims
  <2>2. Once'
      BY <1>2, <2>1, ArrivalsQuiet, OnceQuiet DEF SpentInv
  <2>3. NumbersFresh'
      BY <1>2, FreshArrival DEF SpentInv
  <2> QED BY <2>2, <2>3 DEF SpentInv
<1>3. ASSUME NEW r \in Requests, Handle(r) PROVE SpentInv'
  <2>1. CASE InsertReset(r) \/ InsertInvite(r)
      BY <2>1, SpentInserts
  <2>2. CASE ~InsertReset(r) /\ ~InsertInvite(r)
    <3>1. NumbersFresh'
        BY <1>3, <2>2, HandlerFresh DEF SpentInv
    <3>2. CASE ConsumeReset(r) \/ ConsumeInvite(r) \/ SetPassword(r) \/ CreateUser(r)
        BY <3>1, <3>2, SpentConsumes, SpentBrings DEF SpentInv
    <3>3. CASE ~(ConsumeReset(r) \/ ConsumeInvite(r) \/ SetPassword(r) \/ CreateUser(r))
      <4>1. UNCHANGED <<resets, invites, spent>>
          BY <1>3, <2>2, <3>3 DEF Handle, Extract, CheckPassword, InsertCredential, EndSession, EndDevice,
             FindByEmail, SetEmail, Disable, Enable, Rename, ReadAdmin, SetAdmin, ReadImpact,
             DeleteUser, Fail, tables
      <4>2. \A s \in Requests : \A k, n : Claims(s, k, n)' => Claims(s, k, n)
          BY <1>3, <3>3, HandlerClaims
      <4>3. Once'
          BY <4>1, <4>2, OnceQuiet DEF SpentInv
      <4> QED BY <3>1, <4>3 DEF SpentInv
    <3> QED BY <3>2, <3>3
  <2> QED BY <2>1, <2>2
<1>4. CASE GrantAdmin \/ ShellCreate \/ Expire
  <2>1. /\ UNCHANGED <<req, spent>>
        /\ \/ UNCHANGED <<resets, invites>>
           \/ UNCHANGED invites /\ \E m : resets' = Used(resets, m)
           \/ UNCHANGED resets /\ \E m : invites' = Used(invites, m)
      BY <1>4 DEF GrantAdmin, ShellCreate, Expire
  <2>2. left' <= left
      BY <1>4 DEF GrantAdmin, ShellCreate, Expire, TypeInv, TypeOK
  <2>3. Once'
      BY <2>1, OnceQuiet DEF SpentInv, Claims
  <2>4. \A t \in resets' \cup invites' : \E x \in resets \cup invites : x.n = t.n
      BY <2>1, UsedRows DEF TypeInv, TypeOK
  <2>5. NumbersFresh'
      BY <2>1, <2>2, <2>4, FreshKept DEF SpentInv
  <2> QED BY <2>3, <2>5 DEF SpentInv
<1> QED BY <1>1, <1>2, <1>3, <1>4 DEF Next

\* A reset sets at most one password and an invite makes at most one account, however
\* many requests present it and whatever fails (store.rs, consume_password_reset and
\* consume_invite).
THEOREM TokensSpentOnce == Spec => []SpentOnce
<1>1. SpentInv => SpentOnce
    BY DEF SpentInv, Once, OnceOnly, SpentOnce, Kinds
<1> QED BY <1>1, SpentInit, TypeCorrect, SpentStep, PTL DEF Spec

=============================================================================
