---------------------------- MODULE Provisioning ----------------------------
(***************************************************************************)
(* A customer becomes a tenant, gets a quota and is deleted again, across   *)
(* three services that share no transaction: the vendor console (orders,    *)
(* tenant_quotas), the answerer (tenants) and the admin console             *)
(* (admin_users, quotas).  LemonSqueezy delivers an order any number of     *)
(* times; vendor handlers run side by side, and any of them may stop where  *)
(* it stands.  A call whose answer is lost is a call that took effect and a *)
(* handler that then failed; only a creation may take effect still later.   *)
(***************************************************************************)
EXTENDS Integers

CONSTANTS
  LsOrders,          \* ls_order_id values LemonSqueezy may deliver
  EnterpriseOrders,  \* ids drawn by provision_enterprise (fresh UUIDs)
  EmailOf,           \* the customer's address on each order
  Handlers,          \* vendor-console requests in flight at the same time
  Quotas,            \* values of questions_quota
  PlanQuota,         \* _plan_to_quota of a LemonSqueezy order
  MaxTenants,        \* bound: tenant ids ever drawn
  MaxCalls,          \* bound: requests ever made
  MaxFaults          \* bound: calls that fail and handlers that stop

Orders    == LsOrders \cup EnterpriseOrders
TenantIds == 1..MaxTenants
Absent    == -1

ASSUME ProvisioningAssumption ==
  /\ LsOrders \cap EnterpriseOrders = {}
  /\ DOMAIN EmailOf = Orders
  /\ Quotas \subseteq Nat
  /\ PlanQuota \in Quotas
  /\ MaxTenants \in Nat
  /\ MaxCalls \in Nat
  /\ MaxFaults \in Nat

VARIABLES
  orders,      \* vendor console: the tenant_id of each order row, 0 if none
  vendorQuota, \* vendor console: tenant_quotas.questions_quota
  tenants,     \* answerer: rows of tenants
  users,       \* admin console: rows of admin_users, <<email, tenant>>
  adminQuota,  \* admin console: quotas.questions_quota
  handler,     \* what each vendor handler does next
  nextTenant,  \* uuid4: an id never drawn before
  calls,       \* requests so far, to bound them
  faults,      \* faults so far, to bound them
  drawnFor,    \* history: the order each tenant id was drawn for
  ever,        \* history: tenant ids that were created in some service
  fulfilled,   \* history: orders a handler took to the end
  deleting,    \* history: tenants a delete was begun for
  doubt        \* history: tenants whose quota work overlapped or failed

vendor  == <<orders, vendorQuota>>
admin   == <<users, adminQuota>>
bounds  == <<calls, faults>>
history == <<drawnFor, ever, fulfilled, deleting, doubt>>
vars    == <<vendor, tenants, admin, handler, nextTenant, bounds, history>>

Creations == {"tenant", "user"}
QuotaPcs  == {"push", "record", "set", "send", "delete_admin_quota", "delete_vendor_quota"}
Idle      == [pc |-> "idle", order |-> "none", tenant |-> 0, todo |-> {}, quota |-> 0]

Init ==
  /\ orders = [o \in Orders |-> 0]
  /\ vendorQuota = [t \in TenantIds |-> Absent]
  /\ tenants = {}
  /\ users = {}
  /\ adminQuota = [t \in TenantIds |-> Absent]
  /\ handler = [h \in Handlers |-> Idle]
  /\ nextTenant = 1
  /\ calls = 0
  /\ faults = 0
  /\ drawnFor = [t \in TenantIds |-> "none"]
  /\ ever = {}
  /\ fulfilled = {}
  /\ deleting = {}
  /\ doubt = {}

At(h, pc)   == handler[h].pc = pc
Tenant(h)   == handler[h].tenant
Order(h)    == handler[h].order
Goto(h, pc) == handler' = [handler EXCEPT ![h].pc = pc]
Return(h)   == handler' = [handler EXCEPT ![h] = Idle]
Fault       == faults < MaxFaults /\ faults' = faults + 1

\* A request arrives and is known by its first state-changing statement.
Begin(h, r) ==
  /\ At(h, "idle") /\ calls < MaxCalls
  /\ calls' = calls + 1
  /\ handler' = [handler EXCEPT ![h] = r]

QuotaWork(h, t) == handler[h].pc \in QuotaPcs /\ Tenant(h) = t

\* h starts to work on the quota of t, perhaps while another handler does.
DoubtIfOverlap(h, t) ==
  doubt' = IF \E g \in Handlers \ {h} : QuotaWork(g, t) THEN doubt \cup {t} ELSE doubt

----------------------------------------------------------------------------
(* Provisioning: provision_from_order, provision_enterprise.                *)

\* Variant: a known order is provisioned again under the tenant id it has.
WebhookResumes(h, o) ==
  /\ Begin(h, [pc |-> IF orders[o] = 0 THEN "claim" ELSE "create", order |-> o,
               tenant |-> orders[o], todo |-> Creations, quota |-> PlanQuota])
  /\ UNCHANGED <<vendor, tenants, admin, nextTenant, faults, history>>

\* order_created, paid: a known order is answered 200 and nothing happens.
Webhook(h, o) ==
  /\ orders[o] = 0
  /\ Begin(h, [pc |-> "claim", order |-> o, tenant |-> 0, todo |-> Creations,
               quota |-> PlanQuota])
  /\ UNCHANGED <<vendor, tenants, admin, nextTenant, faults, history>>

CreateTenant(h, o, q) ==
  /\ orders[o] = 0 /\ \A g \in Handlers : Order(g) # o
  /\ Begin(h, [pc |-> "claim", order |-> o, tenant |-> 0, todo |-> Creations, quota |-> q])
  /\ UNCHANGED <<vendor, tenants, admin, nextTenant, faults, history>>

\* The INSERT and its new tenant id; nothing else of the handler has happened yet.
TakeOrder(h) ==
  /\ orders' = [orders EXCEPT ![Order(h)] = nextTenant]
  /\ nextTenant' = nextTenant + 1
  /\ drawnFor' = [drawnFor EXCEPT ![nextTenant] = Order(h)]
  /\ handler' = [handler EXCEPT ![h].pc = "create", ![h].tenant = nextTenant]

\* Variant: orders without its primary key.
ClaimOrderNoKey(h) ==
  /\ At(h, "claim") /\ nextTenant <= MaxTenants
  /\ TakeOrder(h)
  /\ UNCHANGED <<vendorQuota, tenants, admin, bounds, ever, fulfilled, deleting, doubt>>

\* insert_order: the primary key lets one of several deliveries through, the
\* others answer 500.
ClaimOrder(h) ==
  /\ At(h, "claim")
  /\ IF orders[Order(h)] = 0
       THEN nextTenant <= MaxTenants /\ TakeOrder(h)
       ELSE Return(h) /\ UNCHANGED <<orders, nextTenant, drawnFor>>
  /\ UNCHANGED <<vendorQuota, tenants, admin, bounds, ever, fulfilled, deleting, doubt>>

\* gather: both calls are out; when one raises the handler answers 500 at once
\* and the other goes on by itself.
Calling(h, c) == handler[h].pc \in {"create", "stray"} /\ c \in handler[h].todo

Answered(h, c) ==
  LET left == handler[h].todo \ {c} IN
  CASE left # {}                      -> handler' = [handler EXCEPT ![h].todo = left]
    [] left = {} /\ At(h, "create")   -> handler' = [handler EXCEPT ![h].todo = left, ![h].pc = "push"]
    [] left = {} /\ At(h, "stray")    -> Return(h)

\* Variant: gather(return_exceptions=True), with the results not looked at.
RaisedIgnored(h, c) == Answered(h, c)

Raised(h, c) ==
  LET left == handler[h].todo \ {c} IN
  IF left = {} THEN Return(h)
  ELSE handler' = [handler EXCEPT ![h].todo = left, ![h].pc = "stray"]

\* Entering the quota step counts as quota work on the tenant.
CreationDoubt(h) ==
  IF handler'[h].pc = "push" THEN DoubtIfOverlap(h, Tenant(h)) ELSE UNCHANGED doubt

CreateAnswererTenant(h) ==
  /\ Calling(h, "tenant")
  /\ tenants' = tenants \cup {Tenant(h)}
  /\ ever' = ever \cup {Tenant(h)}
  /\ \/ Answered(h, "tenant") /\ UNCHANGED faults
     \/ Raised(h, "tenant") /\ Fault
  /\ CreationDoubt(h)
  /\ UNCHANGED <<vendor, admin, nextTenant, calls, drawnFor, fulfilled, deleting>>

EmailTaken(e) == \E t \in TenantIds : <<e, t>> \in users

CreateAdminUser(h) ==
  /\ Calling(h, "user") /\ ~EmailTaken(EmailOf[Order(h)])
  /\ users' = users \cup {<<EmailOf[Order(h)], Tenant(h)>>}
  /\ ever' = ever \cup {Tenant(h)}
  /\ \/ Answered(h, "user") /\ UNCHANGED faults
     \/ Raised(h, "user") /\ Fault
  /\ CreationDoubt(h)
  /\ UNCHANGED <<vendor, tenants, adminQuota, nextTenant, calls, drawnFor, fulfilled, deleting>>

\* 409: the address has a user, whichever tenant's.
AdminUserRefused(h) ==
  /\ Calling(h, "user") /\ EmailTaken(EmailOf[Order(h)])
  /\ Raised(h, "user")
  /\ CreationDoubt(h)
  /\ UNCHANGED <<vendor, tenants, admin, nextTenant, bounds, drawnFor, ever, fulfilled, deleting>>

CreationFailed(h, c) ==
  /\ Fault
  /\ Calling(h, c)
  /\ Raised(h, c)
  /\ CreationDoubt(h)
  /\ UNCHANGED <<vendor, tenants, admin, nextTenant, calls, drawnFor, ever, fulfilled, deleting>>

\* _push_quota: the admin console first, then the vendor's own row.
PushQuota(h) ==
  /\ At(h, "push")
  /\ adminQuota' = [adminQuota EXCEPT ![Tenant(h)] = handler[h].quota]
  /\ Goto(h, "record")
  /\ UNCHANGED <<vendor, tenants, users, nextTenant, bounds, history>>

\* Variant: the plan's quota is recorded instead of the one that was asked for.
RecordQuotaOfPlan(h) ==
  /\ At(h, "record")
  /\ vendorQuota' = [vendorQuota EXCEPT ![Tenant(h)] = PlanQuota]
  /\ fulfilled' = fulfilled \cup {Order(h)}
  /\ Return(h)
  /\ UNCHANGED <<orders, tenants, admin, nextTenant, bounds, drawnFor, ever, deleting, doubt>>

RecordQuota(h) ==
  /\ At(h, "record")
  /\ vendorQuota' = [vendorQuota EXCEPT ![Tenant(h)] = handler[h].quota]
  /\ fulfilled' = fulfilled \cup {Order(h)}
  /\ Return(h)
  /\ UNCHANGED <<orders, tenants, admin, nextTenant, bounds, drawnFor, ever, deleting, doubt>>

----------------------------------------------------------------------------
(* Quota changes: handle_payment_event, set_quota.                          *)

ChangeQuota(h, t, q) ==
  /\ t < nextTenant
  /\ Begin(h, [pc |-> "set", order |-> "none", tenant |-> t, todo |-> {}, quota |-> q])
  /\ DoubtIfOverlap(h, t)
  /\ UNCHANGED <<vendor, tenants, admin, nextTenant, faults, drawnFor, ever, fulfilled, deleting>>

\* The upsert also binds the tenant's creation date, a string where the driver may
\* insist on a date and raise: the model has both outcomes.
PaymentEvent(h, t, q) == ChangeQuota(h, t, q)

\* set_quota reads a column get_tenant_quota does not select: with a row it raises.
SetQuota(h, t, q) ==
  /\ vendorQuota[t] = Absent
  /\ ChangeQuota(h, t, q)

UpsertTenantQuota(h) ==
  /\ At(h, "set")
  /\ vendorQuota' = [vendorQuota EXCEPT ![Tenant(h)] = handler[h].quota]
  /\ Goto(h, "send")
  /\ UNCHANGED <<orders, tenants, admin, nextTenant, bounds, history>>

PushToAdminConsole(h) ==
  /\ At(h, "send")
  /\ adminQuota' = [adminQuota EXCEPT ![Tenant(h)] = handler[h].quota]
  /\ Return(h)
  /\ UNCHANGED <<vendor, tenants, users, nextTenant, bounds, history>>

\* The push fails: a warning is logged, and the caller answers 204.
PushSwallowed(h) ==
  /\ Fault
  /\ At(h, "send")
  /\ Return(h)
  /\ doubt' = doubt \cup {Tenant(h)}
  /\ UNCHANGED <<vendor, tenants, admin, nextTenant, calls, drawnFor, ever, fulfilled, deleting>>

----------------------------------------------------------------------------
(* delete_tenant: answerer, admin console (two statements), vendor console. *)

DeleteTenant(h, t) ==
  /\ t < nextTenant
  /\ Begin(h, [pc |-> "delete_answerer", order |-> "none", tenant |-> t, todo |-> {}, quota |-> 0])
  /\ deleting' = deleting \cup {t}
  /\ UNCHANGED <<vendor, tenants, admin, nextTenant, faults, drawnFor, ever, fulfilled, doubt>>

DeleteAnswererTenant(h) ==
  /\ At(h, "delete_answerer")
  /\ tenants' = tenants \ {Tenant(h)}
  /\ Goto(h, "delete_users")
  /\ UNCHANGED <<vendor, admin, nextTenant, bounds, history>>

\* Variant: the users are detached from the tenant instead of deleted.
DeleteAdminUsersDetached(h) ==
  /\ At(h, "delete_users")
  /\ users' = {IF u[2] = Tenant(h) THEN <<u[1], 0>> ELSE u : u \in users}
  /\ Goto(h, "delete_admin_quota")
  /\ DoubtIfOverlap(h, Tenant(h))
  /\ UNCHANGED <<vendor, tenants, adminQuota, nextTenant, bounds, drawnFor, ever, fulfilled, deleting>>

DeleteAdminUsers(h) ==
  /\ At(h, "delete_users")
  /\ users' = {u \in users : u[2] # Tenant(h)}
  /\ Goto(h, "delete_admin_quota")
  /\ DoubtIfOverlap(h, Tenant(h))
  /\ UNCHANGED <<vendor, tenants, adminQuota, nextTenant, bounds, drawnFor, ever, fulfilled, deleting>>

DeleteAdminQuota(h) ==
  /\ At(h, "delete_admin_quota")
  /\ adminQuota' = [adminQuota EXCEPT ![Tenant(h)] = Absent]
  /\ Goto(h, "delete_vendor_quota")
  /\ UNCHANGED <<vendor, tenants, users, nextTenant, bounds, history>>

\* The order rows stay.
DeleteVendorQuota(h) ==
  /\ At(h, "delete_vendor_quota")
  /\ vendorQuota' = [vendorQuota EXCEPT ![Tenant(h)] = Absent]
  /\ Return(h)
  /\ UNCHANGED <<orders, tenants, admin, nextTenant, bounds, history>>

\* A call raises and the handler answers 500 or 502, or its instance goes away.
\* Creations it gave up waiting for may be executed all the same, later on.
HandlerFails(h) ==
  /\ Fault
  /\ ~At(h, "idle")
  /\ Return(h) \/ (At(h, "create") /\ Goto(h, "stray"))
  /\ doubt' = IF handler[h].pc \in QuotaPcs THEN doubt \cup {Tenant(h)} ELSE doubt
  /\ UNCHANGED <<vendor, tenants, admin, nextTenant, calls, drawnFor, ever, fulfilled, deleting>>

----------------------------------------------------------------------------
Arrive(h) ==
  \/ \E o \in LsOrders : Webhook(h, o)
  \/ \E o \in EnterpriseOrders, q \in Quotas : CreateTenant(h, o, q)
  \/ \E t \in TenantIds :
       \/ DeleteTenant(h, t)
       \/ \E q \in Quotas : PaymentEvent(h, t, q) \/ SetQuota(h, t, q)

Provision(h) ==
  \/ ClaimOrder(h)
  \/ CreateAnswererTenant(h)  \/ CreateAdminUser(h)  \/ AdminUserRefused(h)
  \/ PushQuota(h)             \/ RecordQuota(h)

Change(h) == UpsertTenantQuota(h) \/ PushToAdminConsole(h)

Delete(h) ==
  \/ DeleteAnswererTenant(h)  \/ DeleteAdminUsers(h)
  \/ DeleteAdminQuota(h)      \/ DeleteVendorQuota(h)

Trouble(h) ==
  HandlerFails(h) \/ PushSwallowed(h) \/ \E c \in Creations : CreationFailed(h, c)

Next == \E h \in Handlers : Arrive(h) \/ Provision(h) \/ Change(h) \/ Delete(h) \/ Trouble(h)

Spec == Init /\ [][Next]_vars

----------------------------------------------------------------------------
(* Properties.                                                              *)

HandlerPcs == {"idle", "claim", "create", "stray", "delete_answerer", "delete_users"} \cup QuotaPcs

\* The type of every variable.
TypeOK ==
  /\ orders \in [Orders -> 0..MaxTenants]
  /\ vendorQuota \in [TenantIds -> Quotas \cup {Absent}]
  /\ tenants \subseteq TenantIds
  /\ users \subseteq {EmailOf[o] : o \in Orders} \X TenantIds
  /\ adminQuota \in [TenantIds -> Quotas \cup {Absent}]
  /\ handler \in [Handlers -> [pc : HandlerPcs, order : Orders \cup {"none"},
                               tenant : 0..MaxTenants, todo : SUBSET Creations,
                               quota : Quotas \cup {0}]]
  /\ nextTenant \in 1..(MaxTenants + 1)
  /\ calls \in Nat
  /\ faults \in Nat
  /\ drawnFor \in [TenantIds -> Orders \cup {"none"}]
  /\ ever \subseteq TenantIds
  /\ fulfilled \subseteq Orders
  /\ deleting \subseteq TenantIds
  /\ doubt \subseteq TenantIds

\* However often and however concurrently an order is delivered, and whatever is
\* deleted in between, it is provisioned under one tenant id for ever.
OneTenantPerOrder ==
  \A t, u \in ever : drawnFor[t] = drawnFor[u] => t = u

\* An order whose handler reached the end has everything: the answerer's tenant,
\* a login of its own and a quota on both sides, until somebody deletes it.
FulfilledIsComplete ==
  \A o \in fulfilled : orders[o] \notin deleting =>
    /\ orders[o] \in tenants
    /\ <<EmailOf[o], orders[o]>> \in users
    /\ vendorQuota[orders[o]] # Absent /\ adminQuota[orders[o]] # Absent

Provisioning(t) == \E h \in Handlers : handler[h].pc \in {"create", "stray"} /\ Tenant(h) = t
Gone(t) == t \in deleting /\ t \notin tenants /\ \A u \in users : u[2] # t

\* Once a tenant is deleted and no provisioning of it is in flight, no creation
\* that timed out and is executed late among them, no later delivery of its order
\* starts one again: the tenant never comes back.
DeletedStaysAway ==
  [][\A t \in TenantIds : Gone(t) /\ ~Provisioning(t) => (Gone(t) /\ ~Provisioning(t))']_vars

\* The two consoles disagree on a quota only while a handler works on it, or after
\* handlers overlapped on it or one of them failed.
DivergenceIsExplained ==
  \A t \in TenantIds :
    \/ vendorQuota[t] = adminQuota[t]
    \/ t \in doubt
    \/ \E h \in Handlers : QuotaWork(h, t)

=============================================================================
