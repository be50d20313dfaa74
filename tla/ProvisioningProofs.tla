------------------------- MODULE ProvisioningProofs -------------------------
(***************************************************************************)
(* For any number of orders, handlers and deliveries: an order is           *)
(* provisioned under one tenant id, one that is told fulfilled is complete, *)
(* the copies of a quota differ only for a reason, and a deleted tenant     *)
(* stays away.                                                              *)
(***************************************************************************)
EXTENDS Provisioning, TLAPS

\* The record a handler keeps of its request.
Requests == [pc : HandlerPcs, order : Orders \cup {"none"}, tenant : Nat,
             todo : SUBSET Creations, quota : Quotas \cup {0}]

\* What a handler that creates a tenant knows about it.
Linked(h) ==
  /\ At(h, "claim") => Order(h) \in Orders
  /\ handler[h].pc \in {"create", "stray"} =>
       /\ Tenant(h) \in TenantIds /\ Tenant(h) < nextTenant
       /\ Order(h) \in Orders
       /\ orders[Order(h)] = Tenant(h)
       /\ drawnFor[Tenant(h)] = Order(h)

\* The order rows and the tenant ids drawn for them belong together one to one.
Matching ==
  /\ orders \in [Orders -> Int]
  /\ drawnFor \in [TenantIds -> Orders \cup {"none"}]
  /\ handler \in [Handlers -> Requests]
  /\ nextTenant \in Nat \ {0}
  /\ ever \subseteq TenantIds
  /\ \A t \in ever : t < nextTenant /\ drawnFor[t] \in Orders /\ orders[drawnFor[t]] = t
  /\ deleting \subseteq TenantIds /\ \A t \in deleting : t < nextTenant
  /\ \A h \in Handlers : Linked(h)

\* No order and no handler: nothing to match.
LEMMA InitMatching == Init => Matching
<1> SUFFICES ASSUME Init PROVE Matching OBVIOUS
<1>1. Idle \in Requests BY DEF Requests, Idle, HandlerPcs, Creations
<1>2. handler \in [Handlers -> Requests] BY <1>1 DEF Init
<1>3. \A h \in Handlers : Linked(h) BY DEF Init, Linked, Idle, At
<1> QED BY <1>2, <1>3 DEF Init, Matching

\* One handler moves on to a record that is well-formed.
Moves(h) ==
  /\ handler' \in [Handlers -> Requests]
  /\ \A g \in Handlers \ {h} : handler'[g] = handler[g]

\* A handler that is given the record r.
LEMMA BeginMoves ==
  ASSUME Matching, NEW h \in Handlers, NEW r \in Requests, handler' = [handler EXCEPT ![h] = r]
  PROVE  Moves(h) /\ handler'[h] = r
BY DEF Matching, Moves

\* A handler that returns.
LEMMA ReturnMoves ==
  ASSUME Matching, NEW h \in Handlers, Return(h)
  PROVE  Moves(h) /\ handler'[h].pc = "idle"
<1>1. Idle \in Requests BY DEF Requests, Idle, HandlerPcs, Creations
<1>2. Moves(h) /\ handler'[h] = Idle BY <1>1, BeginMoves DEF Return
<1> QED BY <1>2 DEF Idle

\* A handler that goes to another step.
LEMMA GotoMoves ==
  ASSUME Matching, NEW h \in Handlers, NEW pc \in HandlerPcs, Goto(h, pc)
  PROVE  Moves(h) /\ handler'[h].pc = pc
<1> DEFINE r == [handler[h] EXCEPT !.pc = pc]
<1>1. handler[h] \in Requests BY DEF Matching
<1>2. r \in Requests /\ r.pc = pc BY <1>1 DEF Requests
<1>3. handler' = [handler EXCEPT ![h] = r] BY DEF Goto
<1> HIDE DEF r
<1> QED BY <1>2, <1>3, BeginMoves

\* A call that answers or raises: the handler keeps its tenant and its order.
LEMMA CallMoves ==
  ASSUME Matching, NEW h \in Handlers, NEW c, Calling(h, c), Answered(h, c) \/ Raised(h, c)
  PROVE  /\ Moves(h)
         /\ handler'[h].pc # "claim"
         /\ handler'[h].pc \in {"create", "stray"} =>
              handler'[h].tenant = Tenant(h) /\ handler'[h].order = Order(h)
<1> DEFINE left == handler[h].todo \ {c}
           fewer == [handler[h] EXCEPT !.todo = left]
           next(pc) == [handler[h] EXCEPT !.todo = left, !.pc = pc]
<1>1. handler[h].pc \in {"create", "stray"} /\ handler[h] \in Requests
  BY DEF Calling, Matching
<1>2. \/ handler' = [handler EXCEPT ![h] = fewer]
      \/ handler' = [handler EXCEPT ![h] = next("push")]
      \/ handler' = [handler EXCEPT ![h] = next("stray")]
      \/ Return(h)
  <2>1. h \in DOMAIN handler BY DEF Matching
  <2>2. CASE Answered(h, c)
    <3>1. left # {} \/ (left = {} /\ At(h, "create") /\ ~At(h, "stray"))
                    \/ (left = {} /\ At(h, "stray") /\ ~At(h, "create"))
      BY <1>1 DEF At
    <3>2. CASE left # {} BY <2>2, <3>2 DEF Answered
    <3>3. CASE left = {} /\ At(h, "create") /\ ~At(h, "stray")
      <4>1. handler' = [handler EXCEPT ![h].todo = left, ![h].pc = "push"]
        BY <2>2, <3>3, Zenon DEF Answered
      <4> HIDE DEF left
      <4> QED BY <2>1, <4>1
    <3>4. CASE left = {} /\ At(h, "stray") /\ ~At(h, "create")
      BY <2>2, <3>4, Zenon DEF Answered
    <3> QED BY <3>1, <3>2, <3>3, <3>4
  <2>3. CASE Raised(h, c)
    <3>1. Return(h) \/ handler' = [handler EXCEPT ![h].todo = left, ![h].pc = "stray"]
      BY <2>3, Zenon DEF Raised
    <3> HIDE DEF left
    <3> QED BY <2>1, <3>1
  <2> QED BY <2>2, <2>3
<1>3. /\ left \in SUBSET Creations
      /\ {"push", "stray"} \subseteq HandlerPcs
  BY <1>1 DEF Requests, HandlerPcs, QuotaPcs
<1> HIDE DEF left
<1>4. ASSUME NEW pc \in HandlerPcs
      PROVE  /\ fewer \in Requests /\ next(pc) \in Requests
             /\ fewer.pc = handler[h].pc /\ next(pc).pc = pc
             /\ fewer.tenant = Tenant(h) /\ next(pc).tenant = Tenant(h)
             /\ fewer.order = Order(h) /\ next(pc).order = Order(h)
  BY <1>1, <1>3 DEF Requests, Tenant, Order
<1> HIDE DEF fewer, next
<1>5. CASE handler' = [handler EXCEPT ![h] = fewer] BY <1>1, <1>3, <1>4, <1>5, BeginMoves
<1>6. CASE handler' = [handler EXCEPT ![h] = next("push")]
  <2>1. "push" \in HandlerPcs BY <1>3
  <2> QED BY <1>4, <1>6, <2>1, BeginMoves
<1>7. CASE handler' = [handler EXCEPT ![h] = next("stray")]
  <2>1. "stray" \in HandlerPcs BY <1>3
  <2> QED BY <1>4, <1>7, <2>1, BeginMoves
<1>8. CASE Return(h) BY <1>8, ReturnMoves
<1> QED BY <1>2, <1>5, <1>6, <1>7, <1>8

\* An action that claims no order creates tenants only for handlers that already
\* had one, and leaves the order rows alone.
OrdersKept(h) ==
  /\ Moves(h)
  /\ UNCHANGED <<orders, drawnFor, nextTenant>>
  /\ \A t \in ever' : t \in ever \/ (handler[h].pc \in {"create", "stray"} /\ t = Tenant(h))
  /\ \A t \in deleting' : t \in deleting \/ (t \in TenantIds /\ t < nextTenant)
  /\ handler'[h].pc \in {"create", "stray"} =>
       /\ handler[h].pc \in {"create", "stray"}
       /\ handler'[h].tenant = Tenant(h) /\ handler'[h].order = Order(h)
  /\ handler'[h].pc = "claim" => handler'[h].order \in Orders

\* An arriving request claims its order before it creates anything.
LEMMA ArriveKeeps ==
  ASSUME Matching, NEW h \in Handlers, Arrive(h)
  PROVE  OrdersKept(h)
<1> DEFINE claim(o, q) == [pc |-> "claim", order |-> o, tenant |-> 0, todo |-> Creations, quota |-> q]
           set(t, q) == [pc |-> "set", order |-> "none", tenant |-> t, todo |-> {}, quota |-> q]
           del(t) == [pc |-> "delete_answerer", order |-> "none", tenant |-> t, todo |-> {}, quota |-> 0]
<1>1. /\ \A o \in Orders, q \in Quotas : claim(o, q) \in Requests
      /\ \A t \in TenantIds, q \in Quotas : set(t, q) \in Requests
      /\ \A t \in TenantIds : del(t) \in Requests
  BY DEF Requests, HandlerPcs, QuotaPcs, TenantIds
<1>2. PlanQuota \in Quotas BY ProvisioningAssumption
<1>3. ASSUME NEW o \in Orders, NEW q \in Quotas, Begin(h, claim(o, q)),
             UNCHANGED <<vendor, nextTenant, history>>
      PROVE  OrdersKept(h)
  <2>1. Moves(h) /\ handler'[h] = claim(o, q) BY <1>1, <1>3, BeginMoves DEF Begin
  <2> QED BY <1>3, <2>1 DEF OrdersKept, vendor, history
<1>4. ASSUME NEW o \in LsOrders, Webhook(h, o) PROVE OrdersKept(h)
  BY <1>2, <1>3, <1>4 DEF Webhook, Orders
<1>5. ASSUME NEW o \in EnterpriseOrders, NEW q \in Quotas, CreateTenant(h, o, q)
      PROVE  OrdersKept(h)
  BY <1>3, <1>5 DEF CreateTenant, Orders
<1>6. ASSUME NEW t \in TenantIds, DeleteTenant(h, t) PROVE OrdersKept(h)
  <2>1. Moves(h) /\ handler'[h] = del(t) BY <1>1, <1>6, BeginMoves DEF DeleteTenant, Begin
  <2> QED BY <1>6, <2>1 DEF OrdersKept, DeleteTenant, vendor
<1>7. ASSUME NEW t \in TenantIds, NEW q \in Quotas, PaymentEvent(h, t, q) \/ SetQuota(h, t, q)
      PROVE  OrdersKept(h)
  <2>0. ChangeQuota(h, t, q) BY <1>7 DEF PaymentEvent, SetQuota
  <2>1. Moves(h) /\ handler'[h] = set(t, q) BY <1>1, <2>0, BeginMoves DEF ChangeQuota, Begin
  <2> QED BY <2>0, <2>1 DEF OrdersKept, ChangeQuota, vendor
<1> QED BY <1>4, <1>5, <1>6, <1>7 DEF Arrive

\* A creating call creates under the tenant id its handler has.
LEMMA CreationKeeps ==
  ASSUME Matching, NEW h \in Handlers,
         \/ CreateAnswererTenant(h) \/ CreateAdminUser(h) \/ AdminUserRefused(h)
         \/ \E c \in Creations : CreationFailed(h, c)
  PROVE  OrdersKept(h)
<1>1. PICK c \in Creations : Calling(h, c) /\ (Answered(h, c) \/ Raised(h, c))
  BY DEF CreateAnswererTenant, CreateAdminUser, AdminUserRefused, CreationFailed, Creations
<1>2. /\ Moves(h)
      /\ handler'[h].pc \in {"create", "stray"} =>
              handler'[h].tenant = Tenant(h) /\ handler'[h].order = Order(h)
      /\ handler'[h].pc # "claim"
  BY <1>1, CallMoves
<1>3. handler[h].pc \in {"create", "stray"} BY <1>1 DEF Calling
<1>4. /\ UNCHANGED <<orders, drawnFor, nextTenant, deleting>>
      /\ ever' = ever \/ ever' = ever \cup {Tenant(h)}
  BY DEF CreateAnswererTenant, CreateAdminUser, AdminUserRefused, CreationFailed, vendor
<1> QED BY <1>2, <1>3, <1>4 DEF OrdersKept

\* A handler that claims and creates nothing goes to a step that does neither.
LEMMA RestKeeps ==
  ASSUME Matching, NEW h \in Handlers,
         \/ PushQuota(h) \/ RecordQuota(h) \/ Change(h) \/ Delete(h)
         \/ HandlerFails(h) \/ PushSwallowed(h)
  PROVE  OrdersKept(h)
<1> DEFINE Later == {"record", "send", "delete_users", "delete_admin_quota", "delete_vendor_quota"}
<1>1. UNCHANGED <<orders, drawnFor, nextTenant, ever, deleting>>
  <2>1. CASE PushQuota(h) \/ RecordQuota(h)
    BY <2>1 DEF PushQuota, RecordQuota, vendor, history
  <2>2. CASE Change(h)
    BY <2>2 DEF Change, UpsertTenantQuota, PushToAdminConsole, vendor, history
  <2>3. CASE Delete(h)
    BY <2>3 DEF Delete, DeleteAnswererTenant, DeleteAdminUsers, DeleteAdminQuota,
                DeleteVendorQuota, vendor, history
  <2>4. CASE HandlerFails(h) \/ PushSwallowed(h)
    BY <2>4 DEF HandlerFails, PushSwallowed, vendor
  <2> QED BY <2>1, <2>2, <2>3, <2>4
<1>2. Return(h) \/ (\E pc \in Later : Goto(h, pc)) \/ (At(h, "create") /\ Goto(h, "stray"))
  <2>1. CASE PushQuota(h) \/ RecordQuota(h) BY <2>1 DEF PushQuota, RecordQuota
  <2>2. CASE Change(h) BY <2>2 DEF Change, UpsertTenantQuota, PushToAdminConsole
  <2>3. CASE Delete(h)
    BY <2>3 DEF Delete, DeleteAnswererTenant, DeleteAdminUsers, DeleteAdminQuota, DeleteVendorQuota
  <2>4. CASE HandlerFails(h) \/ PushSwallowed(h) BY <2>4 DEF HandlerFails, PushSwallowed
  <2> QED BY <2>1, <2>2, <2>3, <2>4
<1>3. CASE Return(h) \/ \E pc \in Later : Goto(h, pc)
  <2>1. Later \subseteq HandlerPcs BY DEF HandlerPcs, QuotaPcs
  <2>2. Moves(h) /\ handler'[h].pc \in Later \cup {"idle"}
    BY <1>3, <2>1, ReturnMoves, GotoMoves
  <2> QED BY <1>1, <2>2 DEF OrdersKept
<1>4. CASE At(h, "create") /\ Goto(h, "stray")
  <2>1. Moves(h) /\ handler'[h].pc = "stray" /\ handler[h].pc = "create"
    BY <1>4, GotoMoves DEF HandlerPcs, At
  <2>2. handler'[h].tenant = Tenant(h) /\ handler'[h].order = Order(h)
    <3>1. handler[h] \in Requests /\ h \in DOMAIN handler BY DEF Matching
    <3>2. handler'[h] = [handler[h] EXCEPT !.pc = "stray"] BY <1>4, <3>1 DEF Goto
    <3> QED BY <3>1, <3>2 DEF Requests, Tenant, Order
  <2> QED BY <1>1, <2>1, <2>2 DEF OrdersKept
<1> QED BY <1>2, <1>3, <1>4

\* Keeping the order rows keeps the matching.
LEMMA KeptMatching ==
  ASSUME Matching, NEW h \in Handlers, OrdersKept(h)
  PROVE  Matching'
<1>1. \A g \in Handlers : Linked(g)'
  <2> SUFFICES ASSUME NEW g \in Handlers PROVE Linked(g)' OBVIOUS
  <2>0. Linked(g) BY DEF Matching
  <2>1. CASE g # h BY <2>0, <2>1 DEF OrdersKept, Moves, Linked, At, Tenant, Order
  <2>2. CASE g = h BY <2>0, <2>2 DEF OrdersKept, Linked, At, Tenant, Order
  <2> QED BY <2>1, <2>2
<1>2. \A t \in ever' : t \in TenantIds /\ t < nextTenant /\ drawnFor[t] \in Orders
                       /\ orders[drawnFor[t]] = t
  <2>1. Linked(h) BY DEF Matching
  <2> QED BY <2>1 DEF Matching, OrdersKept, Linked
<1> QED BY <1>1, <1>2 DEF Matching, OrdersKept, Moves

\* The record of a handler whose INSERT went through.
Taken(h) == [handler[h] EXCEPT !.pc = "create", !.tenant = nextTenant]

\* It is a well-formed request for the tenant id just drawn.
LEMMA TakenRequest ==
  ASSUME Matching, NEW h \in Handlers
  PROVE  /\ Taken(h) \in Requests /\ Taken(h).pc = "create"
         /\ Taken(h).tenant = nextTenant /\ Taken(h).order = Order(h)
<1>1. handler[h] \in Requests /\ nextTenant \in Nat /\ "create" \in HandlerPcs
  BY DEF Matching, HandlerPcs
<1> QED BY <1>1 DEF Requests, Order, Taken

\* The primary key: an order that gets a tenant id had none.
LEMMA ClaimMatching ==
  ASSUME Matching, NEW h \in Handlers, ClaimOrder(h)
  PROVE  Matching'
<1>1. CASE orders[Order(h)] # 0
  <2>1. UNCHANGED <<orders, drawnFor, nextTenant, ever, deleting>> /\ Return(h)
    BY <1>1 DEF ClaimOrder
  <2>2. Moves(h) /\ handler'[h].pc = "idle" BY <2>1, ReturnMoves
  <2>3. OrdersKept(h) BY <2>1, <2>2 DEF OrdersKept
  <2> QED BY <2>3, KeptMatching
<1>2. CASE orders[Order(h)] = 0
  <2> DEFINE o == Order(h)
             r == Taken(h)
  <2>1. o \in Orders /\ nextTenant \in TenantIds
    BY <1>2 DEF ClaimOrder, Matching, Linked, TenantIds
  <2>2. /\ orders' = [orders EXCEPT ![o] = nextTenant]
        /\ nextTenant' = nextTenant + 1
        /\ drawnFor' = [drawnFor EXCEPT ![nextTenant] = o]
        /\ handler' = [handler EXCEPT ![h] = r]
        /\ UNCHANGED <<ever, deleting>>
    BY <1>2 DEF ClaimOrder, TakeOrder, Matching, Taken
  <2>3. r \in Requests /\ r.pc = "create" /\ r.tenant = nextTenant /\ r.order = o
    BY TakenRequest
  <2> HIDE DEF o, r
  <2>4. Moves(h) /\ handler'[h] = r BY <2>2, <2>3, BeginMoves
  <2>5. Linked(h)'
    BY <2>1, <2>2, <2>3, <2>4 DEF Linked, At, Tenant, Order, Matching
  <2>6. ASSUME NEW g \in Handlers \ {h} PROVE Linked(g)'
    <3>1. Linked(g) /\ handler'[g] = handler[g] BY <2>4 DEF Matching, Moves
    <3>2. ASSUME handler[g].pc \in {"create", "stray"}
          PROVE  Order(g) # o /\ Tenant(g) # nextTenant
      <4>1. Tenant(g) \in TenantIds /\ Tenant(g) < nextTenant /\ orders[Order(g)] = Tenant(g)
        BY <3>1, <3>2 DEF Linked
      <4> QED BY <1>2, <4>1 DEF o, TenantIds, Matching
    <3> QED BY <2>1, <2>2, <3>1, <3>2 DEF Linked, At, Tenant, Order, Matching, TenantIds
  <2>7. \A t \in ever : t < nextTenant' /\ drawnFor'[t] \in Orders /\ orders'[drawnFor'[t]] = t
    <3> SUFFICES ASSUME NEW t \in ever
                 PROVE  t < nextTenant' /\ drawnFor'[t] \in Orders /\ orders'[drawnFor'[t]] = t
      OBVIOUS
    <3>1. /\ t \in TenantIds /\ t < nextTenant
          /\ drawnFor[t] \in Orders /\ orders[drawnFor[t]] = t
      BY DEF Matching
    <3>2. drawnFor[t] # o /\ t # nextTenant BY <1>2, <3>1 DEF o, TenantIds
    <3>3. drawnFor'[t] = drawnFor[t] BY <2>2, <3>1, <3>2 DEF Matching
    <3>4. orders'[drawnFor[t]] = orders[drawnFor[t]] BY <2>2, <3>1, <3>2 DEF Matching
    <3> QED BY <2>2, <3>1, <3>3, <3>4 DEF Matching, TenantIds
  <2>8. \A t \in deleting : t < nextTenant'
    <3> SUFFICES ASSUME NEW t \in deleting PROVE t < nextTenant' OBVIOUS
    <3> QED BY <2>2 DEF Matching, TenantIds
  <2>9. /\ orders' \in [Orders -> Int] /\ drawnFor' \in [TenantIds -> Orders \cup {"none"}]
        /\ nextTenant' \in Nat \ {0}
    BY <2>1, <2>2 DEF Matching
  <2> QED BY <2>2, <2>4, <2>5, <2>6, <2>7, <2>8, <2>9 DEF Matching, Moves
<1> QED BY <1>1, <1>2

\* Every step keeps the matching.
LEMMA NextMatching == Matching /\ [Next]_vars => Matching'
<1> SUFFICES ASSUME Matching, [Next]_vars PROVE Matching' OBVIOUS
<1>1. CASE UNCHANGED vars
  BY <1>1 DEF vars, vendor, history, Matching, Linked, At, Tenant, Order
<1>2. CASE Next
  <2>1. PICK h \in Handlers :
          Arrive(h) \/ Provision(h) \/ Change(h) \/ Delete(h) \/ Trouble(h)
    BY <1>2 DEF Next
  <2>2. CASE ClaimOrder(h) BY <2>2, ClaimMatching
  <2>3. CASE ~ClaimOrder(h)
    <3>1. \/ Arrive(h)
          \/ (\/ CreateAnswererTenant(h) \/ CreateAdminUser(h) \/ AdminUserRefused(h)
              \/ \E c \in Creations : CreationFailed(h, c))
          \/ (\/ PushQuota(h) \/ RecordQuota(h) \/ Change(h) \/ Delete(h)
              \/ HandlerFails(h) \/ PushSwallowed(h))
      BY <2>1, <2>3 DEF Provision, Trouble
    <3>2. OrdersKept(h) BY <3>1, ArriveKeeps, CreationKeeps, RestKeeps
    <3> QED BY <3>2, KeptMatching
  <2> QED BY <2>2, <2>3
<1> QED BY <1>1, <1>2

\* However often and however concurrently an order is delivered, it is provisioned
\* under one tenant id (insert_order's primary key, provision_from_order).
THEOREM OrdersAreProvisionedOnce == Spec => []OneTenantPerOrder
<1>1. Matching => OneTenantPerOrder
  BY DEF Matching, OneTenantPerOrder
<1> QED BY <1>1, InitMatching, NextMatching, PTL DEF Spec

\* A step that is not a creation adds no row, and a creation is for a tenant that
\* is being provisioned.
LEMMA GoneStays ==
  ASSUME Matching, [Next]_vars, NEW t \in TenantIds, Gone(t), ~Provisioning(t)
  PROVE  (Gone(t) /\ ~Provisioning(t))'
<1>1. CASE UNCHANGED vars
  BY <1>1 DEF vars, vendor, admin, history, Gone, Provisioning, Tenant
<1>2. CASE Next
  <2>1. PICK h \in Handlers :
          Arrive(h) \/ Provision(h) \/ Change(h) \/ Delete(h) \/ Trouble(h)
    BY <1>2 DEF Next
  <2>2. handler[h].pc \in {"create", "stray"} => Tenant(h) # t BY DEF Provisioning
  <2>3. t \in deleting' /\ t \notin tenants' /\ \A u \in users' : u[2] # t
    <3>0. t \in deleting /\ t \notin tenants /\ \A u \in users : u[2] # t BY DEF Gone
    <3>1. CASE Arrive(h)
      BY <3>0, <3>1 DEF Arrive, Webhook, CreateTenant, DeleteTenant, PaymentEvent, SetQuota,
                        ChangeQuota, admin, history
    <3>2. CASE Provision(h)
      BY <2>2, <3>0, <3>2 DEF Provision, ClaimOrder, CreateAnswererTenant, CreateAdminUser,
         AdminUserRefused, PushQuota, RecordQuota, Calling, admin, history
    <3>3. CASE Change(h)
      BY <3>0, <3>3 DEF Change, UpsertTenantQuota, PushToAdminConsole, admin, history
    <3>4. CASE Delete(h)
      BY <3>0, <3>4 DEF Delete, DeleteAnswererTenant, DeleteAdminUsers, DeleteAdminQuota,
                        DeleteVendorQuota, admin, history
    <3>5. CASE Trouble(h)
      BY <3>0, <3>5 DEF Trouble, HandlerFails, PushSwallowed, CreationFailed, admin
    <3> QED BY <2>1, <3>1, <3>2, <3>3, <3>4, <3>5
  <2>4. Moves(h) /\ (handler'[h].pc \in {"create", "stray"} => handler'[h].tenant # t)
    <3>1. CASE ClaimOrder(h)
      <4>1. CASE orders[Order(h)] = 0
        <5>1. handler' = [handler EXCEPT ![h] = Taken(h)]
          BY <3>1, <4>1 DEF ClaimOrder, TakeOrder, Matching, Taken
        <5>2. Taken(h) \in Requests /\ Taken(h).tenant = nextTenant
          BY TakenRequest
        <5>3. t < nextTenant /\ nextTenant \in Nat /\ t \in Nat
          BY DEF Matching, Gone, TenantIds
        <5>4. Moves(h) /\ handler'[h] = Taken(h) BY <5>1, <5>2, BeginMoves
        <5>5. nextTenant # t BY <5>3
        <5> QED BY <5>2, <5>4, <5>5
      <4>2. CASE orders[Order(h)] # 0
        BY <3>1, <4>2, ReturnMoves DEF ClaimOrder
      <4> QED BY <4>1, <4>2
    <3>2. CASE ~ClaimOrder(h)
      <4>1. \/ Arrive(h)
            \/ (\/ CreateAnswererTenant(h) \/ CreateAdminUser(h) \/ AdminUserRefused(h)
                \/ \E c \in Creations : CreationFailed(h, c))
            \/ (\/ PushQuota(h) \/ RecordQuota(h) \/ Change(h) \/ Delete(h)
                \/ HandlerFails(h) \/ PushSwallowed(h))
        BY <2>1, <3>2 DEF Provision, Trouble
      <4>2. OrdersKept(h) BY <4>1, ArriveKeeps, CreationKeeps, RestKeeps
      <4> QED BY <2>2, <4>2 DEF OrdersKept
    <3> QED BY <3>1, <3>2
  <2> QED BY <2>3, <2>4 DEF Gone, Provisioning, Tenant, Moves
<1> QED BY <1>1, <1>2

\* A deleted tenant whose provisioning is over is never created again, whatever is
\* delivered later (the order row outlives the tenant).
THEOREM DeletedTenantsStayAway == Spec => DeletedStaysAway
<1>1. Matching /\ [Next]_vars =>
        [\A t \in TenantIds : Gone(t) /\ ~Provisioning(t) => (Gone(t) /\ ~Provisioning(t))']_vars
  <2> SUFFICES ASSUME Matching, [Next]_vars
               PROVE  \A t \in TenantIds :
                        Gone(t) /\ ~Provisioning(t) => (Gone(t) /\ ~Provisioning(t))'
    OBVIOUS
  <2> QED BY GoneStays
<1> QED BY <1>1, InitMatching, NextMatching, PTL DEF Spec, DeletedStaysAway

-----------------------------------------------------------------------------
(* Orders that are fulfilled are complete.                                   *)

Deletes == {"delete_answerer", "delete_users", "delete_admin_quota", "delete_vendor_quota"}
Builds  == {"create", "push", "record"}

\* What a handler has done so far for its tenant, and still stands unless
\* somebody deletes the tenant.
Pursues(h) ==
  /\ handler[h].pc \in {"idle", "claim"} => Tenant(h) = 0
  /\ At(h, "claim") => handler[h].todo = Creations
  /\ handler[h].pc \notin Deletes \cup {"idle"} => handler[h].quota \in Quotas
  /\ handler[h].pc \notin {"idle", "claim"} => Tenant(h) \in TenantIds /\ Tenant(h) < nextTenant
  /\ handler[h].pc \in Deletes => Tenant(h) \in deleting
  /\ handler[h].pc \in Builds => Order(h) \in Orders /\ orders[Order(h)] = Tenant(h)
  /\ handler[h].pc \in Builds /\ Tenant(h) \notin deleting =>
       /\ "tenant" \notin handler[h].todo => Tenant(h) \in tenants
       /\ "user" \notin handler[h].todo => <<EmailOf[Order(h)], Tenant(h)>> \in users
  /\ handler[h].pc \in {"push", "record"} => handler[h].todo = {}
  /\ At(h, "record") /\ Tenant(h) \notin deleting => adminQuota[Tenant(h)] # Absent

\* The parts of the type that Matching leaves open.
Stored ==
  /\ orders \in [Orders -> 0..MaxTenants]
  /\ vendorQuota \in [TenantIds -> Quotas \cup {Absent}]
  /\ tenants \subseteq TenantIds
  /\ users \subseteq {EmailOf[o] : o \in Orders} \X TenantIds
  /\ adminQuota \in [TenantIds -> Quotas \cup {Absent}]
  /\ nextTenant \in 1..(MaxTenants + 1)
  /\ calls \in Nat /\ faults \in Nat
  /\ fulfilled \subseteq Orders
  /\ doubt \subseteq TenantIds

\* An order that was taken to the end, with what it promises.
Complete(o) ==
  /\ orders[o] \in TenantIds
  /\ orders[o] \notin deleting =>
       /\ orders[o] \in tenants
       /\ <<EmailOf[o], orders[o]>> \in users
       /\ vendorQuota[orders[o]] # Absent /\ adminQuota[orders[o]] # Absent

\* The inductive invariant.
Pursuit ==
  /\ Matching
  /\ Stored
  /\ \A h \in Handlers : Pursues(h)
  /\ \A o \in fulfilled : Complete(o)

\* Nothing is taken from a tenant that nobody deletes.
Steady ==
  /\ \A o \in Orders : orders[o] # 0 => orders'[o] = orders[o]
  /\ nextTenant <= nextTenant'
  /\ deleting \subseteq deleting'
  /\ \A t \in TenantIds \ deleting' :
       /\ t \in tenants => t \in tenants'
       /\ \A e : <<e, t>> \in users => <<e, t>> \in users'
       /\ vendorQuota[t] # Absent => vendorQuota'[t] # Absent
       /\ adminQuota[t] # Absent => adminQuota'[t] # Absent

\* What each step of h has to show.
Progresses(h) ==
  /\ Moves(h)
  /\ Stored'
  /\ Steady
  /\ Pursues(h)'
  /\ \A o \in fulfilled' : o \in fulfilled \/ Complete(o)'

\* It is enough: the other handlers and the orders fulfilled before keep what they have.
LEMMA ProgressIsEnough ==
  ASSUME Pursuit, Matching', NEW h \in Handlers, Progresses(h)
  PROVE  Pursuit'
<1>1. \A g \in Handlers : Pursues(g)'
  <2> SUFFICES ASSUME NEW g \in Handlers, g # h PROVE Pursues(g)'
    BY DEF Progresses
  <2>1. Pursues(g) /\ handler'[g] = handler[g] BY DEF Pursuit, Progresses, Moves
  <2>2. handler[g].pc \in Builds => Order(g) \in Orders /\ orders'[Order(g)] = Tenant(g)
    <3>1. handler[g].pc \in Builds => Tenant(g) # 0
      BY <2>1 DEF Pursues, Builds, TenantIds
    <3> QED BY <2>1, <3>1 DEF Pursues, Progresses, Steady
  <2>3. nextTenant <= nextTenant' /\ nextTenant \in Nat /\ nextTenant' \in Nat
    BY DEF Pursuit, Matching, Progresses, Steady
  <2>4. handler[g].pc \notin {"idle", "claim"} => Tenant(g) \in TenantIds /\ Tenant(g) < nextTenant'
    BY <2>1, <2>3 DEF Pursues, TenantIds
  <2>5. handler[g].pc \in Builds \cup {"record"} => handler[g].pc \notin {"idle", "claim"}
    BY DEF Builds
  <2>6. \A t \in TenantIds : t \notin deleting' =>
          /\ t \notin deleting
          /\ t \in tenants => t \in tenants'
          /\ \A e : <<e, t>> \in users => <<e, t>> \in users'
          /\ adminQuota[t] # Absent => adminQuota'[t] # Absent
    BY DEF Progresses, Steady
  <2>7. handler[g].pc \in Deletes => Tenant(g) \in deleting'
    BY <2>1 DEF Pursues, Progresses, Steady
  <2> QED BY <2>1, <2>2, <2>4, <2>5, <2>6, <2>7 DEF Pursues, At, Tenant, Order
<1>2. \A o \in fulfilled' : Complete(o)'
  <2> SUFFICES ASSUME NEW o \in fulfilled PROVE Complete(o)' BY DEF Progresses
  <2>1. Complete(o) /\ o \in Orders BY DEF Pursuit, Stored
  <2>2. orders'[o] = orders[o] BY <2>1 DEF Complete, Progresses, Steady, TenantIds
  <2> QED BY <2>1, <2>2 DEF Complete, Progresses, Steady
<1> QED BY <1>1, <1>2 DEF Pursuit, Progresses

\* A step that leaves all stores alone is steady.
LEMMA QuietSteady ==
  ASSUME Pursuit, UNCHANGED <<vendor, tenants, admin, nextTenant>>, deleting \subseteq deleting'
  PROVE  Steady
<1>1. nextTenant \in Nat BY DEF Pursuit, Matching
<1> QED BY <1>1 DEF Steady, vendor, admin

\* A handler that returns pursues nothing.
LEMMA ReturnPursues ==
  ASSUME Pursuit, NEW h \in Handlers, Return(h)
  PROVE  Moves(h) /\ Pursues(h)' /\ handler'[h] = Idle
<1>1. h \in DOMAIN handler BY DEF Pursuit, Matching
<1>2. handler'[h] = Idle BY <1>1 DEF Return
<1>3. Moves(h) BY ReturnMoves DEF Pursuit
<1> QED BY <1>2, <1>3 DEF Pursues, Idle, At, Tenant, Deletes, Builds

\* A handler that goes on keeps everything but its step.
LEMMA GotoKeeps ==
  ASSUME Pursuit, NEW h \in Handlers, NEW pc \in HandlerPcs, Goto(h, pc)
  PROVE  /\ Moves(h)
         /\ handler'[h].pc = pc /\ handler'[h].tenant = Tenant(h) /\ handler'[h].order = Order(h)
         /\ handler'[h].todo = handler[h].todo /\ handler'[h].quota = handler[h].quota
<1> DEFINE r == [handler[h] EXCEPT !.pc = pc]
<1>1. handler[h] \in Requests /\ h \in DOMAIN handler BY DEF Pursuit, Matching
<1>2. handler'[h] = r BY <1>1 DEF Goto
<1>3. Moves(h) BY GotoMoves DEF Pursuit
<1> QED BY <1>1, <1>2, <1>3 DEF Requests, Tenant, Order

\* A creation that answers or raises: only answers bring the handler nearer to its end.
LEMMA CallGives ==
  ASSUME Pursuit, NEW h \in Handlers, NEW c \in Creations, Calling(h, c),
         Answered(h, c) \/ Raised(h, c)
  PROVE  /\ Moves(h)
         /\ handler'[h] = Idle \/ /\ handler'[h].pc \in {"create", "stray", "push"}
                                  /\ handler'[h].tenant = Tenant(h) /\ handler'[h].order = Order(h)
                                  /\ handler'[h].quota = handler[h].quota
         /\ handler'[h].pc \in Builds =>
              /\ At(h, "create") /\ handler'[h].pc \in {"create", "push"}
              /\ ~Raised(h, c)
              /\ handler'[h].todo = handler[h].todo \ {c}
         /\ handler'[h].pc = "push" => handler'[h].todo = {}
<1> DEFINE left == handler[h].todo \ {c}
           fewer == [handler[h] EXCEPT !.todo = left]
           next(pc) == [handler[h] EXCEPT !.todo = left, !.pc = pc]
<1>1. handler[h].pc \in {"create", "stray"} /\ handler[h] \in Requests /\ h \in DOMAIN handler
  BY DEF Calling, Pursuit, Matching
<1>2. Moves(h) BY CallMoves DEF Pursuit
<1>3. /\ fewer.pc = handler[h].pc /\ fewer.tenant = Tenant(h) /\ fewer.order = Order(h)
      /\ fewer.todo = left /\ fewer.quota = handler[h].quota
  BY <1>1 DEF Requests, Tenant, Order
<1>4. ASSUME NEW pc
      PROVE  /\ next(pc).pc = pc /\ next(pc).tenant = Tenant(h) /\ next(pc).order = Order(h)
             /\ next(pc).todo = left /\ next(pc).quota = handler[h].quota
  BY <1>1 DEF Requests, Tenant, Order
<1>5. \/ handler'[h] = fewer /\ Answered(h, c) /\ left # {}
      \/ handler'[h] = next("push") /\ Answered(h, c) /\ At(h, "create") /\ left = {}
      \/ handler'[h] = next("stray") /\ Raised(h, c)
      \/ handler'[h] = Idle
  <2>1. CASE Answered(h, c)
    <3>1. CASE left # {}
      <4>1. handler' = [handler EXCEPT ![h].todo = left] BY <2>1, <3>1, Zenon DEF Answered
      <4> HIDE DEF left
      <4> QED BY <1>1, <2>1, <3>1, <4>1
    <3>2. CASE left = {} /\ At(h, "create") /\ ~At(h, "stray")
      <4>1. handler' = [handler EXCEPT ![h].todo = left, ![h].pc = "push"]
        BY <2>1, <3>2, Zenon DEF Answered
      <4> HIDE DEF left
      <4> QED BY <1>1, <2>1, <3>2, <4>1
    <3>3. CASE left = {} /\ At(h, "stray") /\ ~At(h, "create")
      <4>1. Return(h) BY <2>1, <3>3, Zenon DEF Answered
      <4> QED BY <4>1, ReturnPursues
    <3> QED BY <1>1, <3>1, <3>2, <3>3 DEF At
  <2>2. CASE Raised(h, c)
    <3>1. CASE left = {} BY <2>2, <3>1, ReturnPursues DEF Raised
    <3>2. CASE left # {}
      <4>1. handler' = [handler EXCEPT ![h].todo = left, ![h].pc = "stray"]
        BY <2>2, <3>2, Zenon DEF Raised
      <4> HIDE DEF left
      <4> QED BY <1>1, <2>2, <4>1
    <3> QED BY <3>1, <3>2
  <2> QED BY <2>1, <2>2
<1>6. ASSUME left # {}, handler'[h] = fewer, Raised(h, c) PROVE handler'[h].pc = "stray"
  <2>1. handler' = [handler EXCEPT ![h].todo = left, ![h].pc = "stray"]
    BY <1>6, Zenon DEF Raised
  <2> HIDE DEF left
  <2>2. handler'[h] = next("stray") BY <1>1, <2>1
  <2> HIDE DEF next, fewer
  <2> QED BY <1>4, <2>2
<1>7. ASSUME left = {}, handler'[h] = next("push"), Raised(h, c) PROVE handler'[h] = Idle
  BY <1>7, ReturnPursues, Zenon DEF Raised
<1>8. Idle.pc = "idle" BY DEF Idle
<1> HIDE DEF fewer, next
<1>9. CASE handler'[h] = fewer /\ Answered(h, c) /\ left # {}
  <2>1. handler'[h].pc \in Builds => handler[h].pc = "create" /\ ~Raised(h, c)
    BY <1>1, <1>3, <1>6, <1>9 DEF Builds
  <2>2. handler'[h].pc \in {"create", "stray", "push"} /\ handler'[h].pc # "push"
    BY <1>1, <1>3, <1>9
  <2> QED BY <1>1, <1>2, <1>3, <1>9, <2>1, <2>2 DEF At
<1>10. CASE handler'[h] = next("push") /\ Answered(h, c) /\ At(h, "create") /\ left = {}
  <2>1. ~Raised(h, c) BY <1>4, <1>7, <1>8, <1>10
  <2> QED BY <1>2, <1>4, <1>10, <2>1
<1>11. CASE handler'[h] = next("stray") /\ Raised(h, c)
  BY <1>2, <1>4, <1>11 DEF Builds
<1>12. CASE handler'[h] = Idle
  BY <1>2, <1>8, <1>12 DEF Builds
<1> QED BY <1>5, <1>9, <1>10, <1>11, <1>12

\* An arriving request changes no store; it is told which tenant it is about.
LEMMA ArriveProgress ==
  ASSUME Pursuit, NEW h \in Handlers, Arrive(h)
  PROVE  Progresses(h)
<1> DEFINE claim(o, q) == [pc |-> "claim", order |-> o, tenant |-> 0, todo |-> Creations, quota |-> q]
           set(t, q) == [pc |-> "set", order |-> "none", tenant |-> t, todo |-> {}, quota |-> q]
           del(t) == [pc |-> "delete_answerer", order |-> "none", tenant |-> t, todo |-> {}, quota |-> 0]
<1>1. /\ \A o \in Orders, q \in Quotas : claim(o, q) \in Requests
      /\ \A t \in TenantIds, q \in Quotas : set(t, q) \in Requests
      /\ \A t \in TenantIds : del(t) \in Requests
  BY DEF Requests, HandlerPcs, QuotaPcs, TenantIds
<1>2. PlanQuota \in Quotas BY ProvisioningAssumption
<1>3. /\ Matching /\ Stored /\ calls \in Nat BY DEF Pursuit, Stored
<1>4. ASSUME NEW r \in Requests, Begin(h, r), UNCHANGED <<vendor, tenants, admin, nextTenant, faults, fulfilled>>,
             deleting \subseteq deleting', doubt' \in SUBSET TenantIds, Pursues(h)'
      PROVE  Progresses(h)
  <2>1. Moves(h) BY <1>3, <1>4, BeginMoves DEF Begin
  <2>2. Steady BY <1>4, QuietSteady
  <2>3. Stored' BY <1>3, <1>4 DEF Stored, Begin, vendor, admin
  <2> QED BY <1>4, <2>1, <2>2, <2>3 DEF Progresses
<1>5. ASSUME NEW r \in Requests, Begin(h, r) PROVE handler'[h] = r
  BY <1>3, <1>5, BeginMoves DEF Begin
<1>6. ASSUME NEW o \in Orders, NEW q \in Quotas, Begin(h, claim(o, q)),
             UNCHANGED <<vendor, tenants, admin, nextTenant, faults, history>>
      PROVE  Progresses(h)
  <2>1. claim(o, q) \in Requests BY <1>1
  <2>2. handler'[h] = claim(o, q) BY <1>5, <1>6, <2>1
  <2>3. Pursues(h)' BY <2>2 DEF Pursues, Tenant, At, Deletes, Builds
  <2>4. doubt' \in SUBSET TenantIds /\ deleting \subseteq deleting' /\ fulfilled' = fulfilled
    BY <1>3, <1>6 DEF Stored, history
  <2> HIDE DEF claim
  <2> QED BY <1>4, <1>6, <2>1, <2>3, <2>4
<1>7. ASSUME NEW o \in LsOrders, Webhook(h, o) PROVE Progresses(h)
  BY <1>2, <1>6, <1>7 DEF Webhook, Orders
<1>8. ASSUME NEW o \in EnterpriseOrders, NEW q \in Quotas, CreateTenant(h, o, q)
      PROVE  Progresses(h)
  BY <1>6, <1>8 DEF CreateTenant, Orders
<1>9. ASSUME NEW t \in TenantIds, DeleteTenant(h, t) PROVE Progresses(h)
  <2>1. del(t) \in Requests /\ Begin(h, del(t)) BY <1>1, <1>9 DEF DeleteTenant
  <2>2. handler'[h] = del(t) BY <1>5, <2>1
  <2>3. t < nextTenant' /\ t \in deleting' BY <1>9 DEF DeleteTenant
  <2>4. Pursues(h)' BY <2>2, <2>3 DEF Pursues, Tenant, At, Deletes, Builds
  <2>5. doubt' \in SUBSET TenantIds BY <1>3, <1>9 DEF Stored, DeleteTenant
  <2> HIDE DEF del
  <2> QED BY <1>4, <1>9, <2>1, <2>4, <2>5 DEF DeleteTenant
<1>10. ASSUME NEW t \in TenantIds, NEW q \in Quotas, PaymentEvent(h, t, q) \/ SetQuota(h, t, q)
      PROVE  Progresses(h)
  <2>0. ChangeQuota(h, t, q) BY <1>10 DEF PaymentEvent, SetQuota
  <2>1. set(t, q) \in Requests /\ Begin(h, set(t, q)) BY <1>1, <2>0 DEF ChangeQuota
  <2>2. handler'[h] = set(t, q) BY <1>5, <2>1
  <2>3. t < nextTenant' BY <2>0 DEF ChangeQuota
  <2>4. Pursues(h)' BY <2>2, <2>3 DEF Pursues, Tenant, At, Deletes, Builds
  <2>5. doubt' \in SUBSET TenantIds BY <1>3, <2>0 DEF Stored, ChangeQuota, DoubtIfOverlap
  <2> HIDE DEF set
  <2> QED BY <1>4, <2>0, <2>1, <2>4, <2>5 DEF ChangeQuota
<1> QED BY <1>7, <1>8, <1>9, <1>10 DEF Arrive

\* The INSERT: a fresh tenant id, for which nothing is there yet.
LEMMA ClaimProgress ==
  ASSUME Pursuit, NEW h \in Handlers, ClaimOrder(h)
  PROVE  Progresses(h)
<1>0. Matching /\ Stored /\ Pursues(h) /\ nextTenant \in Nat BY DEF Pursuit, Matching
<1>1. CASE orders[Order(h)] # 0
  <2>1. /\ UNCHANGED <<vendor, tenants, admin, nextTenant, bounds, history>> /\ Return(h)
    BY <1>1 DEF ClaimOrder, vendor, history
  <2>2. Steady BY <2>1, QuietSteady DEF history
  <2>3. Stored' BY <1>0, <2>1 DEF Stored, vendor, admin, bounds, history
  <2> QED BY <2>1, <2>2, <2>3, ReturnPursues DEF Progresses, history
<1>2. CASE orders[Order(h)] = 0
  <2>1. Order(h) \in Orders /\ At(h, "claim") BY <1>0 DEF ClaimOrder, Matching, Linked
  <2>2. nextTenant \in TenantIds BY <1>0, <1>2 DEF ClaimOrder, TenantIds, Stored
  <2>3. /\ orders' = [orders EXCEPT ![Order(h)] = nextTenant]
        /\ nextTenant' = nextTenant + 1
        /\ handler' = [handler EXCEPT ![h] = Taken(h)]
        /\ UNCHANGED <<vendorQuota, tenants, admin, bounds, fulfilled, deleting, doubt>>
    BY <1>0, <1>2 DEF ClaimOrder, TakeOrder, Matching, Taken
  <2>4. /\ Taken(h) \in Requests /\ Taken(h).pc = "create"
        /\ Taken(h).tenant = nextTenant /\ Taken(h).order = Order(h)
    BY <1>0, TakenRequest
  <2>5. Moves(h) /\ handler'[h] = Taken(h) BY <1>0, <2>3, <2>4, BeginMoves
  <2>6. Taken(h).todo = handler[h].todo /\ Taken(h).quota = handler[h].quota BY <1>0 DEF Taken, Matching, Requests
  <2>7. Pursues(h)'
    <3>1. handler[h].todo = Creations /\ handler[h].quota \in Quotas
      BY <1>0, <2>1 DEF Pursues, At, Deletes
    <3>2. orders'[Order(h)] = nextTenant BY <1>0, <2>1, <2>3 DEF Stored
    <3>3. nextTenant < nextTenant' BY <1>0, <2>3
    <3> QED BY <2>1, <2>2, <2>4, <2>5, <2>6, <3>1, <3>2, <3>3
        DEF Pursues, Tenant, Order, At, Deletes, Builds, Creations
  <2>8. Steady
    <3>1. \A o \in Orders : orders[o] # 0 => orders'[o] = orders[o]
      BY <1>0, <1>2, <2>3 DEF Stored
    <3>2. nextTenant <= nextTenant' BY <1>0, <2>3
    <3> QED BY <2>3, <3>1, <3>2 DEF Steady, admin
  <2>9. Stored'
    <3>1. orders' \in [Orders -> 0..MaxTenants] BY <1>0, <2>1, <2>2, <2>3 DEF Stored, TenantIds
    <3>2. nextTenant' \in 1..(MaxTenants + 1) BY <1>0, <2>2, <2>3, ProvisioningAssumption DEF TenantIds
    <3> QED BY <1>0, <2>3, <3>1, <3>2 DEF Stored, admin, bounds
  <2> QED BY <2>3, <2>5, <2>7, <2>8, <2>9 DEF Progresses
<1> QED BY <1>1, <1>2

\* A creation, answered or not: what is taken off the list of calls is there.
LEMMA CreationProgress ==
  ASSUME Pursuit, NEW h \in Handlers,
         \/ CreateAnswererTenant(h) \/ CreateAdminUser(h) \/ AdminUserRefused(h)
         \/ \E c \in Creations : CreationFailed(h, c)
  PROVE  Progresses(h)
<1>0. Matching /\ Stored /\ Pursues(h) /\ Linked(h) /\ nextTenant \in Nat
  BY DEF Pursuit, Matching
<1>1. PICK c \in Creations :
        /\ Calling(h, c)
        /\ Raised(h, c) \/ (Answered(h, c) /\ CreateAnswererTenant(h) /\ c = "tenant")
                        \/ (Answered(h, c) /\ CreateAdminUser(h) /\ c = "user")
  BY DEF CreateAnswererTenant, CreateAdminUser, AdminUserRefused, CreationFailed, Creations
<1>2. /\ Moves(h)
      /\ handler'[h] = Idle \/ /\ handler'[h].pc \in {"create", "stray", "push"}
                               /\ handler'[h].tenant = Tenant(h) /\ handler'[h].order = Order(h)
                               /\ handler'[h].quota = handler[h].quota
      /\ handler'[h].pc \in Builds =>
           /\ At(h, "create") /\ handler'[h].pc \in {"create", "push"}
           /\ ~Raised(h, c)
           /\ handler'[h].todo = handler[h].todo \ {c}
      /\ handler'[h].pc = "push" => handler'[h].todo = {}
  BY <1>1, CallGives
<1>3. /\ handler[h].pc \in {"create", "stray"}
      /\ Tenant(h) \in TenantIds /\ Tenant(h) < nextTenant
      /\ Order(h) \in Orders /\ orders[Order(h)] = Tenant(h)
      /\ handler[h].quota \in Quotas
  BY <1>0, <1>1 DEF Calling, Linked, Pursues, Deletes
<1>4. /\ UNCHANGED <<vendor, adminQuota, nextTenant, calls, fulfilled, deleting>>
      /\ tenants' = tenants \/ tenants' = tenants \cup {Tenant(h)}
      /\ users' = users \/ users' = users \cup {<<EmailOf[Order(h)], Tenant(h)>>}
      /\ faults' = faults \/ Fault
      /\ doubt' = doubt \/ doubt' = doubt \cup {Tenant(h)}
      /\ CreateAnswererTenant(h) => tenants' = tenants \cup {Tenant(h)}
      /\ CreateAdminUser(h) => users' = users \cup {<<EmailOf[Order(h)], Tenant(h)>>}
  BY DEF CreateAnswererTenant, CreateAdminUser, AdminUserRefused, CreationFailed, CreationDoubt,
         DoubtIfOverlap, vendor, admin, bounds
<1>5. Steady BY <1>0, <1>4 DEF Steady, vendor
<1>6. Stored'
  <2>1. faults' \in Nat BY <1>0, <1>4 DEF Stored, Fault
  <2>2. tenants' \subseteq TenantIds /\ doubt' \subseteq TenantIds BY <1>0, <1>3, <1>4 DEF Stored
  <2>3. users' \subseteq {EmailOf[o] : o \in Orders} \X TenantIds BY <1>0, <1>3, <1>4 DEF Stored
  <2> QED BY <1>0, <1>4, <2>1, <2>2, <2>3 DEF Stored, vendor
<1>7. Pursues(h)'
  <2>1. CASE handler'[h].pc \in Builds
    <3>1. /\ At(h, "create") /\ ~Raised(h, c)
          /\ handler'[h].pc \in {"create", "push"}
          /\ handler'[h].todo = handler[h].todo \ {c}
          /\ handler'[h].tenant = Tenant(h) /\ handler'[h].order = Order(h)
          /\ handler'[h].quota = handler[h].quota
      <4>1. Idle.pc \notin Builds BY DEF Idle, Builds
      <4> QED BY <1>2, <2>1, <4>1
    <3>2. \/ CreateAnswererTenant(h) /\ c = "tenant"
          \/ CreateAdminUser(h) /\ c = "user"
      BY <1>1, <3>1
    <3>3. Tenant(h) \notin deleting' =>
            /\ "tenant" \notin handler'[h].todo => Tenant(h) \in tenants'
            /\ "user" \notin handler'[h].todo => <<EmailOf[Order(h)], Tenant(h)>> \in users'
      <4>1. Tenant(h) \notin deleting =>
              /\ "tenant" \notin handler[h].todo => Tenant(h) \in tenants
              /\ "user" \notin handler[h].todo => <<EmailOf[Order(h)], Tenant(h)>> \in users
        BY <1>0, <3>1 DEF Pursues, Builds, At
      <4> QED BY <1>4, <3>1, <3>2, <4>1
    <3>4. /\ orders' = orders /\ nextTenant' = nextTenant BY <1>4 DEF vendor
    <3> QED BY <1>2, <1>3, <3>1, <3>3, <3>4 DEF Pursues, Tenant, Order, At, Deletes, Builds
  <2>2. CASE handler'[h] = Idle
    BY <2>2 DEF Pursues, Idle, At, Tenant, Deletes, Builds
  <2>3. CASE handler'[h].pc = "stray" /\ handler'[h].tenant = Tenant(h) /\ handler'[h].quota = handler[h].quota
    BY <1>3, <1>4, <2>3 DEF Pursues, At, Tenant, Deletes, Builds
  <2>4. handler'[h].pc \in Builds \/ handler'[h] = Idle
          \/ (/\ handler'[h].pc = "stray" /\ handler'[h].tenant = Tenant(h)
              /\ handler'[h].quota = handler[h].quota)
    BY <1>2 DEF Builds
  <2> QED BY <2>1, <2>2, <2>3, <2>4
<1> QED BY <1>2, <1>4, <1>5, <1>6, <1>7 DEF Progresses

\* A handler of the quota or of a delete, or one that ends, writes about its own tenant.
LEMMA RestProgress ==
  ASSUME Pursuit, NEW h \in Handlers,
         \/ PushQuota(h) \/ RecordQuota(h) \/ Change(h) \/ Delete(h)
         \/ HandlerFails(h) \/ PushSwallowed(h)
  PROVE  Progresses(h)
<1>0. /\ Matching /\ Stored /\ Pursues(h) /\ nextTenant \in Nat
      /\ \A q \in Quotas : q # Absent
      /\ {"record", "send", "delete_users", "delete_admin_quota", "delete_vendor_quota"} \subseteq HandlerPcs
  BY ProvisioningAssumption DEF Pursuit, Matching, Absent, HandlerPcs, QuotaPcs
<1>1. CASE PushQuota(h)
  <2>1. At(h, "push") /\ Goto(h, "record") BY <1>1 DEF PushQuota
  <2>2. /\ Moves(h) /\ handler'[h].pc = "record"
        /\ handler'[h].tenant = Tenant(h) /\ handler'[h].order = Order(h)
        /\ handler'[h].todo = handler[h].todo /\ handler'[h].quota = handler[h].quota
    BY <1>0, <2>1, GotoKeeps
  <2>3. /\ Tenant(h) \in TenantIds /\ handler[h].quota \in Quotas
        /\ Tenant(h) < nextTenant /\ Order(h) \in Orders /\ orders[Order(h)] = Tenant(h)
        /\ handler[h].todo = {}
        /\ Tenant(h) \notin deleting =>
             Tenant(h) \in tenants /\ <<EmailOf[Order(h)], Tenant(h)>> \in users
    BY <1>0, <2>1 DEF Pursues, At, Deletes, Builds
  <2>4. adminQuota' = [adminQuota EXCEPT ![Tenant(h)] = handler[h].quota]
        /\ UNCHANGED <<vendor, tenants, users, nextTenant, bounds, history>>
    BY <1>1 DEF PushQuota
  <2>5. adminQuota'[Tenant(h)] = handler[h].quota /\ adminQuota'[Tenant(h)] # Absent
    BY <1>0, <2>3, <2>4 DEF Stored
  <2>6. Stored' BY <1>0, <2>3, <2>4 DEF Stored, vendor, bounds, history
  <2>7. Steady BY <1>0, <2>3, <2>4, <2>5 DEF Steady, vendor, history, Stored
  <2>8. Pursues(h)' BY <2>2, <2>3, <2>4, <2>5 DEF Pursues, At, Tenant, Order, Deletes, Builds, vendor, history
  <2> QED BY <2>2, <2>4, <2>6, <2>7, <2>8 DEF Progresses, history
<1>2. CASE RecordQuota(h)
  <2>1. At(h, "record") /\ Return(h) BY <1>2 DEF RecordQuota
  <2>2. Moves(h) /\ Pursues(h)' BY <2>1, ReturnPursues
  <2>3. /\ Tenant(h) \in TenantIds /\ handler[h].quota \in Quotas
        /\ Order(h) \in Orders /\ orders[Order(h)] = Tenant(h)
        /\ Tenant(h) \notin deleting =>
             /\ Tenant(h) \in tenants /\ <<EmailOf[Order(h)], Tenant(h)>> \in users
             /\ adminQuota[Tenant(h)] # Absent
    BY <1>0, <2>1 DEF Pursues, At, Deletes, Builds
  <2>4. /\ vendorQuota' = [vendorQuota EXCEPT ![Tenant(h)] = handler[h].quota]
        /\ fulfilled' = fulfilled \cup {Order(h)}
        /\ UNCHANGED <<orders, tenants, admin, nextTenant, bounds, drawnFor, ever, deleting, doubt>>
    BY <1>2 DEF RecordQuota
  <2>5. vendorQuota'[Tenant(h)] = handler[h].quota /\ vendorQuota'[Tenant(h)] # Absent
    BY <1>0, <2>3, <2>4 DEF Stored
  <2>6. Stored' BY <1>0, <2>3, <2>4 DEF Stored, admin, bounds
  <2>7. Steady BY <1>0, <2>3, <2>4, <2>5 DEF Steady, admin, Stored
  <2>8. \A o \in fulfilled' : o \in fulfilled \/ o = Order(h) BY <2>4
  <2>9. \A o \in fulfilled' : o \in fulfilled \/ Complete(o)'
    BY <2>3, <2>4, <2>5, <2>8 DEF Complete, admin
  <2> QED BY <2>2, <2>6, <2>7, <2>9 DEF Progresses
<1>3. CASE UpsertTenantQuota(h)
  <2>1. At(h, "set") /\ Goto(h, "send") BY <1>3 DEF UpsertTenantQuota
  <2>2. /\ Moves(h) /\ handler'[h].pc = "send"
        /\ handler'[h].tenant = Tenant(h) /\ handler'[h].quota = handler[h].quota
    BY <1>0, <2>1, GotoKeeps
  <2>3. Tenant(h) \in TenantIds /\ handler[h].quota \in Quotas /\ Tenant(h) < nextTenant
    BY <1>0, <2>1 DEF Pursues, At, Deletes
  <2>4. vendorQuota' = [vendorQuota EXCEPT ![Tenant(h)] = handler[h].quota]
        /\ UNCHANGED <<orders, tenants, admin, nextTenant, bounds, history>>
    BY <1>3 DEF UpsertTenantQuota
  <2>5. Stored' BY <1>0, <2>3, <2>4 DEF Stored, admin, bounds, history
  <2>6. Steady BY <1>0, <2>3, <2>4 DEF Steady, admin, history, Stored
  <2>7. Pursues(h)' BY <2>2, <2>3, <2>4 DEF Pursues, At, Tenant, Deletes, Builds
  <2> QED BY <2>2, <2>4, <2>5, <2>6, <2>7 DEF Progresses, history
<1>4. CASE PushToAdminConsole(h)
  <2>1. At(h, "send") /\ Return(h) BY <1>4 DEF PushToAdminConsole
  <2>2. Moves(h) /\ Pursues(h)' BY <2>1, ReturnPursues
  <2>3. Tenant(h) \in TenantIds /\ handler[h].quota \in Quotas
    BY <1>0, <2>1 DEF Pursues, At, Deletes
  <2>4. adminQuota' = [adminQuota EXCEPT ![Tenant(h)] = handler[h].quota]
        /\ UNCHANGED <<vendor, tenants, users, nextTenant, bounds, history>>
    BY <1>4 DEF PushToAdminConsole
  <2>5. Stored' BY <1>0, <2>3, <2>4 DEF Stored, vendor, bounds, history
  <2>6. Steady BY <1>0, <2>3, <2>4 DEF Steady, vendor, history, Stored
  <2> QED BY <2>2, <2>4, <2>5, <2>6 DEF Progresses, history
<1>5. ASSUME Delete(h)
      PROVE  handler[h].pc \in Deletes /\ Tenant(h) \in TenantIds /\ Tenant(h) \in deleting
             /\ Tenant(h) < nextTenant
  <2>1. handler[h].pc \in Deletes
    BY <1>5 DEF Delete, DeleteAnswererTenant, DeleteAdminUsers, DeleteAdminQuota, DeleteVendorQuota, At, Deletes
  <2> QED BY <1>0, <2>1 DEF Pursues, Deletes
<1>6. ASSUME NEW pc \in Deletes, Goto(h, pc), Delete(h), UNCHANGED <<nextTenant, deleting>>
      PROVE  Moves(h) /\ Pursues(h)'
  <2>1. pc \in HandlerPcs /\ pc \notin Builds /\ pc \notin {"idle", "claim", "push", "record"}
    BY DEF Deletes, HandlerPcs, QuotaPcs, Builds
  <2>2. /\ Moves(h) /\ handler'[h].pc = pc /\ handler'[h].tenant = Tenant(h)
    BY <1>6, <2>1, GotoKeeps
  <2> QED BY <1>5, <1>6, <2>1, <2>2 DEF Pursues, At, Tenant
<1>7. CASE Delete(h)
  <2>1. \/ DeleteAnswererTenant(h) \/ DeleteAdminUsers(h) \/ DeleteAdminQuota(h) \/ DeleteVendorQuota(h)
    BY <1>7 DEF Delete
  <2>2. /\ UNCHANGED <<orders, nextTenant, bounds, fulfilled, deleting>>
        /\ tenants' = tenants \/ tenants' = tenants \ {Tenant(h)}
        /\ users' = users \/ users' = {u \in users : u[2] # Tenant(h)}
        /\ adminQuota' = adminQuota \/ adminQuota' = [adminQuota EXCEPT ![Tenant(h)] = Absent]
        /\ vendorQuota' = vendorQuota \/ vendorQuota' = [vendorQuota EXCEPT ![Tenant(h)] = Absent]
        /\ doubt' = doubt \/ doubt' = doubt \cup {Tenant(h)}
    BY <2>1 DEF DeleteAnswererTenant, DeleteAdminUsers, DeleteAdminQuota, DeleteVendorQuota,
       DoubtIfOverlap, vendor, admin, history
  <2>3. Moves(h) /\ Pursues(h)'
    <3>1. Return(h) \/ \E pc \in Deletes : Goto(h, pc)
      BY <2>1 DEF DeleteAnswererTenant, DeleteAdminUsers, DeleteAdminQuota, DeleteVendorQuota, Deletes
    <3> QED BY <1>6, <1>7, <2>2, <3>1, ReturnPursues
  <2>4. Stored'
    <3>1. users' \subseteq users BY <2>2
    <3>2. adminQuota' \in [TenantIds -> Quotas \cup {Absent}] BY <1>0, <2>2 DEF Stored
    <3>3. vendorQuota' \in [TenantIds -> Quotas \cup {Absent}] BY <1>0, <2>2 DEF Stored
    <3>4. tenants' \subseteq TenantIds /\ doubt' \subseteq TenantIds BY <1>0, <1>5, <1>7, <2>2 DEF Stored
    <3> QED BY <1>0, <2>2, <3>1, <3>2, <3>3, <3>4 DEF Stored, bounds
  <2>5. Steady
    <3> SUFFICES ASSUME NEW t \in TenantIds, t \notin deleting'
                 PROVE  /\ t \in tenants => t \in tenants'
                        /\ \A e : <<e, t>> \in users => <<e, t>> \in users'
                        /\ vendorQuota[t] # Absent => vendorQuota'[t] # Absent
                        /\ adminQuota[t] # Absent => adminQuota'[t] # Absent
      BY <1>0, <2>2 DEF Steady
    <3>1. t # Tenant(h) BY <1>5, <1>7, <2>2
    <3> QED BY <1>0, <2>2, <3>1 DEF Stored
  <2> QED BY <2>2, <2>3, <2>4, <2>5 DEF Progresses
<1>8. CASE HandlerFails(h) \/ PushSwallowed(h)
  <2>1. /\ Return(h) \/ (At(h, "create") /\ Goto(h, "stray"))
        /\ Fault
        /\ UNCHANGED <<vendor, tenants, admin, nextTenant, calls, fulfilled, deleting>>
        /\ doubt' = doubt \/ (handler[h].pc \in QuotaPcs /\ doubt' = doubt \cup {Tenant(h)})
    BY <1>8 DEF HandlerFails, PushSwallowed, At, QuotaPcs
  <2>2. doubt' \subseteq TenantIds
    BY <1>0, <2>1 DEF Stored, Pursues, QuotaPcs
  <2>3. faults' \in Nat BY <1>0, <2>1 DEF Stored, Fault
  <2>4. Stored' BY <1>0, <2>1, <2>2, <2>3 DEF Stored, vendor, admin
  <2>5. Steady BY <2>1, QuietSteady
  <2>6. Moves(h) /\ Pursues(h)'
    <3>1. CASE Return(h) BY <3>1, ReturnPursues
    <3>2. CASE At(h, "create") /\ Goto(h, "stray")
      <4>1. /\ Moves(h) /\ handler'[h].pc = "stray" /\ handler'[h].tenant = Tenant(h)
            /\ handler'[h].quota = handler[h].quota
        BY <3>2, GotoKeeps DEF HandlerPcs
      <4> QED BY <1>0, <2>1, <3>2, <4>1 DEF Pursues, At, Tenant, Deletes, Builds
    <3> QED BY <2>1, <3>1, <3>2
  <2> QED BY <2>1, <2>4, <2>5, <2>6 DEF Progresses
<1> QED BY <1>1, <1>2, <1>3, <1>4, <1>7, <1>8 DEF Change

\* Nothing was ordered, nothing was promised.
LEMMA InitPursuit == Init => Pursuit
<1> SUFFICES ASSUME Init PROVE Pursuit OBVIOUS
<1>1. Matching BY InitMatching
<1>2. Stored BY ProvisioningAssumption DEF Init, Stored
<1>3. \A h \in Handlers : Pursues(h) BY DEF Init, Pursues, Idle, At, Tenant, Deletes, Builds
<1> QED BY <1>1, <1>2, <1>3 DEF Pursuit, Init

\* Every step keeps it.
LEMMA NextPursuit == Pursuit /\ [Next]_vars => Pursuit'
<1> SUFFICES ASSUME Pursuit, [Next]_vars PROVE Pursuit' OBVIOUS
<1>1. Matching' BY NextMatching DEF Pursuit
<1>2. CASE UNCHANGED vars
  <2>1. UNCHANGED <<orders, vendorQuota, tenants, users, adminQuota, handler, nextTenant, calls,
                    faults, fulfilled, deleting, doubt>>
    BY <1>2 DEF vars, vendor, admin, bounds, history
  <2>2. Stored' BY <2>1 DEF Pursuit, Stored
  <2>3. \A h \in Handlers : Pursues(h)' BY <2>1 DEF Pursuit, Pursues, At, Tenant, Order
  <2>4. \A o \in fulfilled' : Complete(o)' BY <2>1 DEF Pursuit, Complete
  <2> QED BY <1>1, <2>2, <2>3, <2>4 DEF Pursuit
<1>3. CASE Next
  <2>1. PICK h \in Handlers :
          Arrive(h) \/ Provision(h) \/ Change(h) \/ Delete(h) \/ Trouble(h)
    BY <1>3 DEF Next
  <2>2. \/ Arrive(h) \/ ClaimOrder(h)
        \/ (\/ CreateAnswererTenant(h) \/ CreateAdminUser(h) \/ AdminUserRefused(h)
            \/ \E c \in Creations : CreationFailed(h, c))
        \/ (\/ PushQuota(h) \/ RecordQuota(h) \/ Change(h) \/ Delete(h)
            \/ HandlerFails(h) \/ PushSwallowed(h))
    BY <2>1 DEF Provision, Trouble
  <2>3. Progresses(h) BY <2>2, ArriveProgress, ClaimProgress, CreationProgress, RestProgress
  <2> QED BY <1>1, <2>3, ProgressIsEnough
<1> QED BY <1>2, <1>3

\* Every state of the three services has its type.
THEOREM TypeCorrect == Spec => []TypeOK
<1>1. Pursuit => TypeOK
  <2> SUFFICES ASSUME Pursuit PROVE TypeOK OBVIOUS
  <2>1. ASSUME NEW h \in Handlers PROVE Tenant(h) \in 0..MaxTenants
    <3>1. Pursues(h) /\ MaxTenants \in Nat BY ProvisioningAssumption DEF Pursuit
    <3>2. CASE handler[h].pc \in {"idle", "claim"} BY <3>1, <3>2 DEF Pursues
    <3>3. CASE handler[h].pc \notin {"idle", "claim"} BY <3>1, <3>3 DEF Pursues, TenantIds
    <3> QED BY <3>2, <3>3
  <2>2. handler \in [Handlers -> [pc : HandlerPcs, order : Orders \cup {"none"},
                                  tenant : 0..MaxTenants, todo : SUBSET Creations,
                                  quota : Quotas \cup {0}]]
    BY <2>1 DEF Pursuit, Matching, Requests, Tenant
  <2> QED BY <2>2 DEF Pursuit, Matching, Stored, TypeOK
<1> QED BY <1>1, InitPursuit, NextPursuit, PTL DEF Spec

\* An order that a handler took to the end (provision_from_order,
\* provision_enterprise) has its tenant, its login and both quotas, whatever other
\* handlers do or leave half-done, until somebody deletes the tenant.
THEOREM FulfilledOrdersAreComplete == Spec => []FulfilledIsComplete
<1>1. Pursuit => FulfilledIsComplete BY DEF Pursuit, Complete, FulfilledIsComplete
<1> QED BY <1>1, InitPursuit, NextPursuit, PTL DEF Spec

-----------------------------------------------------------------------------
(* The two copies of a quota.                                                *)

\* Half of the work on a quota is done: what the other half will make equal.
Half(h) ==
  /\ At(h, "record") => adminQuota[Tenant(h)] = handler[h].quota
  /\ At(h, "send") => vendorQuota[Tenant(h)] = handler[h].quota
  /\ At(h, "delete_vendor_quota") => adminQuota[Tenant(h)] = Absent

\* A tenant in no doubt has one handler at its quota, half-way, or equal copies.
Explained(t) ==
  \/ t \in doubt
  \/ /\ \A h, g \in Handlers : QuotaWork(h, t) /\ QuotaWork(g, t) => h = g
     /\ \A h \in Handlers : QuotaWork(h, t) => Half(h)
     /\ (\A h \in Handlers : ~QuotaWork(h, t)) => vendorQuota[t] = adminQuota[t]

\* The inductive invariant.
Accounted == Pursuit /\ \A t \in TenantIds : Explained(t)

\* A step that has nothing to do with the quota of t.
LEMMA Elsewhere ==
  ASSUME Pursuit, NEW h \in Handlers, Moves(h), NEW t \in TenantIds, Explained(t),
         doubt \subseteq doubt', ~QuotaWork(h, t), ~QuotaWork(h, t)',
         vendorQuota'[t] = vendorQuota[t], adminQuota'[t] = adminQuota[t]
  PROVE  Explained(t)'
<1>1. \A g \in Handlers : QuotaWork(g, t)' => g # h /\ QuotaWork(g, t) /\ handler'[g] = handler[g]
  BY DEF Moves, QuotaWork, Tenant
<1>2. \A g \in Handlers : QuotaWork(g, t) => QuotaWork(g, t)'
  BY DEF Moves, QuotaWork, Tenant
<1>3. ASSUME NEW g \in Handlers, QuotaWork(g, t)', Half(g) PROVE Half(g)'
  BY <1>1, <1>3 DEF Half, QuotaWork, At, Tenant
<1> QED BY <1>1, <1>2, <1>3 DEF Explained

\* A handler turns to the quota of t: it is alone there, or t is in doubt.
LEMMA Enters ==
  ASSUME Pursuit, NEW h \in Handlers, Moves(h), NEW t \in TenantIds, Explained(t),
         handler'[h].pc \in {"push", "set", "delete_admin_quota"}, handler'[h].tenant = t,
         DoubtIfOverlap(h, t), UNCHANGED <<vendorQuota, adminQuota>>
  PROVE  Explained(t)'
<1>1. ASSUME NEW g \in Handlers, g # h PROVE handler'[g] = handler[g] BY <1>1 DEF Moves
<1>2. CASE \E g \in Handlers \ {h} : QuotaWork(g, t)
  <2>1. t \in doubt' BY <1>2 DEF DoubtIfOverlap
  <2> QED BY <2>1 DEF Explained
<1>3. CASE \A g \in Handlers \ {h} : ~QuotaWork(g, t)
  <2>1. \A g \in Handlers \ {h} : ~QuotaWork(g, t)' BY <1>1, <1>3 DEF QuotaWork, Tenant
  <2>2. Half(h)' BY DEF Half, At
  <2>3. QuotaWork(h, t)' BY DEF QuotaWork, Tenant, QuotaPcs
  <2> QED BY <2>1, <2>2, <2>3 DEF Explained
<1> QED BY <1>2, <1>3

\* A handler goes on with the quota of t.
LEMMA GoesOn ==
  ASSUME Pursuit, NEW h \in Handlers, Moves(h), NEW t \in TenantIds, Explained(t),
         QuotaWork(h, t), QuotaWork(h, t)', Half(h)', doubt' = doubt
  PROVE  Explained(t)'
<1>1. \A g \in Handlers : QuotaWork(g, t)' => QuotaWork(g, t)
  BY DEF Moves, QuotaWork, Tenant
<1> QED BY <1>1 DEF Explained

\* A handler leaves the quota of t, with equal copies or in doubt.
LEMMA Departs ==
  ASSUME Pursuit, NEW h \in Handlers, Moves(h), NEW t \in TenantIds, Explained(t),
         QuotaWork(h, t), ~QuotaWork(h, t)', doubt \subseteq doubt',
         t \in doubt' \/ vendorQuota'[t] = adminQuota'[t]
  PROVE  Explained(t)'
<1>1. \A g \in Handlers : QuotaWork(g, t)' => QuotaWork(g, t) /\ g # h
  BY DEF Moves, QuotaWork, Tenant
<1> QED BY <1>1 DEF Explained

\* A request that arrives.
LEMMA ArriveExplained ==
  ASSUME Pursuit, NEW h \in Handlers, Arrive(h), NEW t \in TenantIds, Explained(t)
  PROVE  Explained(t)'
<1>0. Moves(h) BY ArriveProgress DEF Progresses
<1>1. ASSUME NEW r \in Requests, Begin(h, r) PROVE handler'[h] = r /\ ~QuotaWork(h, t)
  BY <1>1, BeginMoves DEF Pursuit, Begin, At, QuotaWork, QuotaPcs
<1>2. ASSUME NEW r \in Requests, Begin(h, r), r.pc \notin QuotaPcs,
             UNCHANGED <<vendorQuota, adminQuota, doubt>>
      PROVE  Explained(t)'
  <2>1. ~QuotaWork(h, t) /\ ~QuotaWork(h, t)' BY <1>1, <1>2 DEF QuotaWork
  <2> QED BY <1>0, <1>2, <2>1, Elsewhere
<1>3. /\ \A o \in Orders, q \in Quotas :
           [pc |-> "claim", order |-> o, tenant |-> 0, todo |-> Creations, quota |-> q] \in Requests
      /\ \A u \in TenantIds :
           [pc |-> "delete_answerer", order |-> "none", tenant |-> u, todo |-> {}, quota |-> 0] \in Requests
      /\ \A u \in TenantIds, q \in Quotas :
           [pc |-> "set", order |-> "none", tenant |-> u, todo |-> {}, quota |-> q] \in Requests
  BY DEF Requests, HandlerPcs, QuotaPcs, TenantIds
<1>4. PlanQuota \in Quotas /\ "claim" \notin QuotaPcs /\ "delete_answerer" \notin QuotaPcs
  BY ProvisioningAssumption DEF QuotaPcs
<1>5. ASSUME NEW o \in LsOrders, Webhook(h, o) PROVE Explained(t)'
  BY <1>2, <1>3, <1>4, <1>5 DEF Webhook, Orders, vendor, admin, history
<1>6. ASSUME NEW o \in EnterpriseOrders, NEW q \in Quotas, CreateTenant(h, o, q) PROVE Explained(t)'
  BY <1>2, <1>3, <1>4, <1>6 DEF CreateTenant, Orders, vendor, admin, history
<1>7. ASSUME NEW u \in TenantIds, DeleteTenant(h, u) PROVE Explained(t)'
  BY <1>2, <1>3, <1>4, <1>7 DEF DeleteTenant, vendor, admin
<1>8. ASSUME NEW u \in TenantIds, NEW q \in Quotas, PaymentEvent(h, u, q) \/ SetQuota(h, u, q)
      PROVE  Explained(t)'
  <2> DEFINE r == [pc |-> "set", order |-> "none", tenant |-> u, todo |-> {}, quota |-> q]
  <2>1. /\ Begin(h, r) /\ DoubtIfOverlap(h, u)
        /\ UNCHANGED <<vendorQuota, adminQuota>> /\ doubt \subseteq doubt'
    BY <1>8 DEF PaymentEvent, SetQuota, ChangeQuota, DoubtIfOverlap, vendor, admin
  <2>2. r \in Requests /\ r.pc = "set" /\ r.tenant = u BY <1>3
  <2> HIDE DEF r
  <2>3. handler'[h] = r /\ ~QuotaWork(h, t) BY <1>1, <2>1, <2>2
  <2>4. CASE u = t BY <1>0, <2>1, <2>2, <2>3, <2>4, Enters
  <2>5. CASE u # t
    <3>1. ~QuotaWork(h, t)' BY <2>2, <2>3, <2>5 DEF QuotaWork, Tenant
    <3> QED BY <1>0, <2>1, <2>3, <3>1, Elsewhere
  <2> QED BY <2>4, <2>5
<1> QED BY <1>5, <1>6, <1>7, <1>8 DEF Arrive

\* An order that is claimed, and the creations that follow.
LEMMA CreationExplained ==
  ASSUME Pursuit, NEW h \in Handlers, NEW t \in TenantIds, Explained(t),
         \/ ClaimOrder(h)
         \/ CreateAnswererTenant(h) \/ CreateAdminUser(h) \/ AdminUserRefused(h)
         \/ \E c \in Creations : CreationFailed(h, c)
  PROVE  Explained(t)'
<1>1. CASE ClaimOrder(h)
  <2>1. Moves(h) BY <1>1, ClaimProgress DEF Progresses
  <2>2. ~QuotaWork(h, t) /\ UNCHANGED <<vendorQuota, adminQuota, doubt>>
    BY <1>1 DEF ClaimOrder, At, QuotaWork, QuotaPcs, admin
  <2>3. handler'[h].pc \in {"create", "idle"}
    <3>1. CASE Return(h) BY <3>1, ReturnPursues DEF Idle
    <3>2. CASE TakeOrder(h)
      <4>1. handler' = [handler EXCEPT ![h] = Taken(h)] /\ Matching
        BY <3>2 DEF TakeOrder, Taken, Pursuit, Matching
      <4> QED BY <4>1, TakenRequest, BeginMoves
    <3> QED BY <1>1, <3>1, <3>2 DEF ClaimOrder
  <2>4. ~QuotaWork(h, t)' BY <2>3 DEF QuotaWork, QuotaPcs
  <2> QED BY <2>1, <2>2, <2>4, Elsewhere
<1>2. CASE \/ CreateAnswererTenant(h) \/ CreateAdminUser(h) \/ AdminUserRefused(h)
           \/ \E c \in Creations : CreationFailed(h, c)
  <2>1. Moves(h) BY <1>2, CreationProgress DEF Progresses
  <2>2. UNCHANGED <<vendorQuota, adminQuota>> /\ CreationDoubt(h)
    BY <1>2 DEF CreateAnswererTenant, CreateAdminUser, AdminUserRefused, CreationFailed, vendor, admin
  <2>3. PICK c \in Creations : Calling(h, c) /\ (Answered(h, c) \/ Raised(h, c))
    BY <1>2 DEF CreateAnswererTenant, CreateAdminUser, AdminUserRefused, CreationFailed, Creations
  <2>4. ~QuotaWork(h, t) BY <2>3 DEF Calling, QuotaWork, QuotaPcs
  <2>5. handler'[h] = Idle \/ /\ handler'[h].pc \in {"create", "stray", "push"}
                              /\ handler'[h].tenant = Tenant(h)
    BY <2>3, CallGives
  <2>6. CASE handler'[h].pc = "push" /\ handler'[h].tenant = t
    <3>1. Tenant(h) = t BY <2>5, <2>6 DEF Idle
    <3>2. DoubtIfOverlap(h, t) BY <2>2, <2>6, <3>1 DEF CreationDoubt
    <3> QED BY <2>1, <2>2, <2>6, <3>2, Enters
  <2>7. CASE ~(handler'[h].pc = "push" /\ handler'[h].tenant = t)
    <3>1. ~QuotaWork(h, t)' BY <2>5, <2>7 DEF QuotaWork, QuotaPcs, Tenant, Idle
    <3>2. doubt \subseteq doubt' BY <2>2 DEF CreationDoubt, DoubtIfOverlap
    <3> QED BY <2>1, <2>2, <2>4, <3>1, <3>2, Elsewhere
  <2> QED BY <2>6, <2>7
<1> QED BY <1>1, <1>2

\* The handlers of a quota and of a delete, and those that fail.
LEMMA RestExplained ==
  ASSUME Pursuit, NEW h \in Handlers, NEW t \in TenantIds, Explained(t),
         \/ PushQuota(h) \/ RecordQuota(h) \/ Change(h) \/ Delete(h)
         \/ HandlerFails(h) \/ PushSwallowed(h)
  PROVE  Explained(t)'
<1>0. /\ Moves(h) /\ Pursues(h) /\ Stored
      /\ {"record", "send", "delete_users", "delete_admin_quota", "delete_vendor_quota"} \subseteq HandlerPcs
      /\ Idle.pc = "idle"
  BY RestProgress DEF Progresses, Pursuit, HandlerPcs, QuotaPcs, Idle
<1>1. ASSUME NEW pc \in HandlerPcs, Goto(h, pc)
      PROVE  /\ handler'[h].pc = pc /\ handler'[h].tenant = Tenant(h)
             /\ handler'[h].quota = handler[h].quota
  BY <1>1, GotoKeeps
<1>2. ASSUME Return(h) PROVE handler'[h].pc = "idle"
  BY <1>0, <1>2, ReturnPursues
<1>3. ASSUME handler[h].pc \in QuotaPcs PROVE Tenant(h) \in TenantIds
  BY <1>0, <1>3 DEF Pursues, QuotaPcs
\* h moves on at the quota of its tenant, or leaves it; those of other tenants rest.
<1>4. ASSUME handler[h].pc \in QuotaPcs, handler'[h].pc \in QuotaPcs, handler'[h].tenant = Tenant(h),
             doubt' = doubt, Tenant(h) = t => Half(h)',
             Tenant(h) # t => vendorQuota'[t] = vendorQuota[t] /\ adminQuota'[t] = adminQuota[t]
      PROVE  Explained(t)'
  <2>1. CASE Tenant(h) = t
    <3>1. QuotaWork(h, t) /\ QuotaWork(h, t)' BY <1>4, <2>1 DEF QuotaWork, Tenant
    <3> QED BY <1>0, <1>4, <2>1, <3>1, GoesOn
  <2>2. CASE Tenant(h) # t
    <3>1. ~QuotaWork(h, t) /\ ~QuotaWork(h, t)' BY <1>4, <2>2 DEF QuotaWork, Tenant
    <3> QED BY <1>0, <1>4, <2>2, <3>1, Elsewhere
  <2> QED BY <2>1, <2>2
<1>5. ASSUME handler[h].pc \in QuotaPcs, Return(h), doubt \subseteq doubt',
             Tenant(h) = t => t \in doubt' \/ vendorQuota'[t] = adminQuota'[t],
             Tenant(h) # t => vendorQuota'[t] = vendorQuota[t] /\ adminQuota'[t] = adminQuota[t]
      PROVE  Explained(t)'
  <2>0. ~QuotaWork(h, t)' BY <1>2, <1>5 DEF QuotaWork, QuotaPcs
  <2>1. CASE Tenant(h) = t
    <3>1. QuotaWork(h, t) BY <1>5, <2>1 DEF QuotaWork
    <3> QED BY <1>0, <1>5, <2>0, <2>1, <3>1, Departs
  <2>2. CASE Tenant(h) # t
    <3>1. ~QuotaWork(h, t) BY <2>2 DEF QuotaWork
    <3> QED BY <1>0, <1>5, <2>0, <2>2, <3>1, Elsewhere
  <2> QED BY <2>1, <2>2
\* In no doubt, a handler at the quota of t is where Half says.
<1>6. ASSUME handler[h].pc \in QuotaPcs, Tenant(h) = t, t \notin doubt PROVE Half(h)
  BY <1>6 DEF Explained, QuotaWork
<1>7. CASE PushQuota(h)
  <2>1. /\ At(h, "push") /\ Goto(h, "record") /\ doubt' = doubt /\ vendorQuota' = vendorQuota
        /\ adminQuota' = [adminQuota EXCEPT ![Tenant(h)] = handler[h].quota]
    BY <1>7 DEF PushQuota, vendor, history
  <2>2. handler[h].pc \in QuotaPcs /\ Tenant(h) \in TenantIds BY <1>3, <2>1 DEF At, QuotaPcs
  <2>3. /\ handler'[h].pc = "record" /\ handler'[h].tenant = Tenant(h)
        /\ handler'[h].quota = handler[h].quota
    BY <1>0, <1>1, <2>1
  <2>4. adminQuota'[Tenant(h)] = handler[h].quota
        /\ (Tenant(h) # t => adminQuota'[t] = adminQuota[t])
    BY <1>0, <2>1, <2>2 DEF Stored
  <2>5. Half(h)' BY <2>3, <2>4 DEF Half, At, Tenant
  <2>6. handler'[h].pc \in QuotaPcs BY <2>3 DEF QuotaPcs
  <2> QED BY <1>4, <2>1, <2>2, <2>3, <2>4, <2>5, <2>6
<1>8. CASE RecordQuota(h)
  <2>1. /\ At(h, "record") /\ Return(h) /\ doubt' = doubt /\ adminQuota' = adminQuota
        /\ vendorQuota' = [vendorQuota EXCEPT ![Tenant(h)] = handler[h].quota]
    BY <1>8 DEF RecordQuota, admin
  <2>2. handler[h].pc \in QuotaPcs /\ Tenant(h) \in TenantIds BY <1>3, <2>1 DEF At, QuotaPcs
  <2>3. vendorQuota'[Tenant(h)] = handler[h].quota
        /\ (Tenant(h) # t => vendorQuota'[t] = vendorQuota[t])
    BY <1>0, <2>1, <2>2 DEF Stored
  <2>4. Tenant(h) = t => t \in doubt' \/ vendorQuota'[t] = adminQuota'[t]
    BY <1>6, <2>1, <2>2, <2>3 DEF Half
  <2> QED BY <1>5, <2>1, <2>2, <2>3, <2>4
<1>9. CASE UpsertTenantQuota(h)
  <2>1. /\ At(h, "set") /\ Goto(h, "send") /\ doubt' = doubt /\ adminQuota' = adminQuota
        /\ vendorQuota' = [vendorQuota EXCEPT ![Tenant(h)] = handler[h].quota]
    BY <1>9 DEF UpsertTenantQuota, admin, history
  <2>2. handler[h].pc \in QuotaPcs /\ Tenant(h) \in TenantIds BY <1>3, <2>1 DEF At, QuotaPcs
  <2>3. /\ handler'[h].pc = "send" /\ handler'[h].tenant = Tenant(h)
        /\ handler'[h].quota = handler[h].quota
    BY <1>0, <1>1, <2>1
  <2>4. vendorQuota'[Tenant(h)] = handler[h].quota
        /\ (Tenant(h) # t => vendorQuota'[t] = vendorQuota[t])
    BY <1>0, <2>1, <2>2 DEF Stored
  <2>5. Half(h)' BY <2>3, <2>4 DEF Half, At, Tenant
  <2>6. handler'[h].pc \in QuotaPcs BY <2>3 DEF QuotaPcs
  <2> QED BY <1>4, <2>1, <2>2, <2>3, <2>4, <2>5, <2>6
<1>10. CASE PushToAdminConsole(h)
  <2>1. /\ At(h, "send") /\ Return(h) /\ doubt' = doubt /\ vendorQuota' = vendorQuota
        /\ adminQuota' = [adminQuota EXCEPT ![Tenant(h)] = handler[h].quota]
    BY <1>10 DEF PushToAdminConsole, vendor, history
  <2>2. handler[h].pc \in QuotaPcs /\ Tenant(h) \in TenantIds BY <1>3, <2>1 DEF At, QuotaPcs
  <2>3. adminQuota'[Tenant(h)] = handler[h].quota
        /\ (Tenant(h) # t => adminQuota'[t] = adminQuota[t])
    BY <1>0, <2>1, <2>2 DEF Stored
  <2>4. Tenant(h) = t => t \in doubt' \/ vendorQuota'[t] = adminQuota'[t]
    BY <1>6, <2>1, <2>2, <2>3 DEF Half
  <2> QED BY <1>5, <2>1, <2>2, <2>3, <2>4
<1>11. CASE DeleteAnswererTenant(h)
  <2>1. /\ At(h, "delete_answerer") /\ Goto(h, "delete_users")
        /\ UNCHANGED <<doubt, vendorQuota, adminQuota>>
    BY <1>11 DEF DeleteAnswererTenant, vendor, admin, history
  <2>2. handler'[h].pc = "delete_users" BY <1>0, <1>1, <2>1
  <2>3. ~QuotaWork(h, t) /\ ~QuotaWork(h, t)' BY <2>1, <2>2 DEF QuotaWork, QuotaPcs, At
  <2> QED BY <1>0, <2>1, <2>3, Elsewhere
<1>12. CASE DeleteAdminUsers(h)
  <2>1. /\ At(h, "delete_users") /\ Goto(h, "delete_admin_quota") /\ DoubtIfOverlap(h, Tenant(h))
        /\ UNCHANGED <<vendorQuota, adminQuota>> /\ doubt \subseteq doubt'
    BY <1>12 DEF DeleteAdminUsers, vendor, DoubtIfOverlap
  <2>2. handler'[h].pc = "delete_admin_quota" /\ handler'[h].tenant = Tenant(h) BY <1>0, <1>1, <2>1
  <2>3. CASE Tenant(h) = t BY <1>0, <2>1, <2>2, <2>3, Enters
  <2>4. CASE Tenant(h) # t
    <3>1. ~QuotaWork(h, t) /\ ~QuotaWork(h, t)' BY <2>2, <2>4 DEF QuotaWork, Tenant
    <3> QED BY <1>0, <2>1, <3>1, Elsewhere
  <2> QED BY <2>3, <2>4
<1>13. CASE DeleteAdminQuota(h)
  <2>1. /\ At(h, "delete_admin_quota") /\ Goto(h, "delete_vendor_quota")
        /\ doubt' = doubt /\ vendorQuota' = vendorQuota
        /\ adminQuota' = [adminQuota EXCEPT ![Tenant(h)] = Absent]
    BY <1>13 DEF DeleteAdminQuota, vendor, history
  <2>2. handler[h].pc \in QuotaPcs /\ Tenant(h) \in TenantIds BY <1>3, <2>1 DEF At, QuotaPcs
  <2>3. handler'[h].pc = "delete_vendor_quota" /\ handler'[h].tenant = Tenant(h)
    BY <1>0, <1>1, <2>1
  <2>4. adminQuota'[Tenant(h)] = Absent /\ (Tenant(h) # t => adminQuota'[t] = adminQuota[t])
    BY <1>0, <2>1, <2>2 DEF Stored
  <2>5. Half(h)' BY <2>3, <2>4 DEF Half, At, Tenant, Absent
  <2>6. handler'[h].pc \in QuotaPcs BY <2>3 DEF QuotaPcs
  <2> QED BY <1>4, <2>1, <2>2, <2>3, <2>4, <2>5, <2>6
<1>14. CASE DeleteVendorQuota(h)
  <2>1. /\ At(h, "delete_vendor_quota") /\ Return(h) /\ doubt' = doubt /\ adminQuota' = adminQuota
        /\ vendorQuota' = [vendorQuota EXCEPT ![Tenant(h)] = Absent]
    BY <1>14 DEF DeleteVendorQuota, admin, history
  <2>2. handler[h].pc \in QuotaPcs /\ Tenant(h) \in TenantIds BY <1>3, <2>1 DEF At, QuotaPcs
  <2>3. vendorQuota'[Tenant(h)] = Absent /\ (Tenant(h) # t => vendorQuota'[t] = vendorQuota[t])
    BY <1>0, <2>1, <2>2 DEF Stored
  <2>4. Tenant(h) = t => t \in doubt' \/ vendorQuota'[t] = adminQuota'[t]
    BY <1>6, <2>1, <2>2, <2>3 DEF Half
  <2> QED BY <1>5, <2>1, <2>2, <2>3, <2>4
<1>15. CASE HandlerFails(h) \/ PushSwallowed(h)
  <2>1. /\ Return(h) \/ (At(h, "create") /\ Goto(h, "stray"))
        /\ UNCHANGED <<vendorQuota, adminQuota>> /\ doubt \subseteq doubt'
        /\ handler[h].pc \in QuotaPcs => Tenant(h) \in doubt'
    BY <1>15 DEF HandlerFails, PushSwallowed, vendor, admin
  <2>2. CASE handler[h].pc \in QuotaPcs
    <3>1. Return(h) BY <2>1, <2>2 DEF At, QuotaPcs
    <3> QED BY <1>5, <2>1, <2>2, <3>1
  <2>3. CASE handler[h].pc \notin QuotaPcs
    <3>0. handler'[h].pc \in {"idle", "stray"}
      <4>1. "stray" \in HandlerPcs BY DEF HandlerPcs
      <4> QED BY <1>1, <1>2, <2>1, <4>1
    <3>1. ~QuotaWork(h, t) /\ ~QuotaWork(h, t)' BY <2>3, <3>0 DEF QuotaWork, QuotaPcs
    <3> QED BY <1>0, <2>1, <3>1, Elsewhere
  <2> QED BY <2>2, <2>3
<1> QED BY <1>7, <1>8, <1>9, <1>10, <1>11, <1>12, <1>13, <1>14, <1>15 DEF Change, Delete

\* Every step keeps the accounts.
LEMMA NextAccounted == Accounted /\ [Next]_vars => Accounted'
<1> SUFFICES ASSUME Accounted, [Next]_vars PROVE Accounted' OBVIOUS
<1>1. Pursuit' BY NextPursuit DEF Accounted
<1>2. ASSUME NEW t \in TenantIds PROVE Explained(t)'
  <2>0. Explained(t) /\ Pursuit BY DEF Accounted
  <2>1. CASE UNCHANGED vars
    <3>1. UNCHANGED <<handler, vendorQuota, adminQuota, doubt>>
      BY <2>1 DEF vars, vendor, admin, history
    <3> QED BY <2>0, <3>1 DEF Explained, QuotaWork, Half, At, Tenant
  <2>2. CASE Next
    <3>1. PICK h \in Handlers :
            Arrive(h) \/ Provision(h) \/ Change(h) \/ Delete(h) \/ Trouble(h)
      BY <2>2 DEF Next
    <3>2. \/ Arrive(h)
          \/ (\/ ClaimOrder(h)
              \/ CreateAnswererTenant(h) \/ CreateAdminUser(h) \/ AdminUserRefused(h)
              \/ \E c \in Creations : CreationFailed(h, c))
          \/ (\/ PushQuota(h) \/ RecordQuota(h) \/ Change(h) \/ Delete(h)
              \/ HandlerFails(h) \/ PushSwallowed(h))
      BY <3>1 DEF Provision, Trouble
    <3> QED BY <2>0, <3>2, ArriveExplained, CreationExplained, RestExplained
  <2> QED BY <2>1, <2>2
<1> QED BY <1>1, <1>2 DEF Accounted

\* The consoles' copies of a quota (tenant_quotas, quotas) differ only while a
\* handler is between its two writes, or after handlers overlapped or failed.
THEOREM DivergenceHasAReason == Spec => []DivergenceIsExplained
<1>1. Init => Accounted
  <2>1. Init => \A t \in TenantIds : Explained(t)
    BY DEF Init, Explained, QuotaWork, Idle, QuotaPcs
  <2> QED BY <2>1, InitPursuit DEF Accounted
<1>2. Accounted => DivergenceIsExplained BY DEF Accounted, Explained, DivergenceIsExplained
<1> QED BY <1>1, <1>2, NextAccounted, PTL DEF Spec

=============================================================================
