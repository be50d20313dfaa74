\* One LemonSqueezy order and one enterprise order of the same customer.
SPECIFICATION Spec
CONSTANTS
  o1 = o1
  e1 = e1
  h1 = h1
  h2 = h2
  LsOrders = {o1}
  EnterpriseOrders = {e1}
  EmailOf <- OneCustomer
  Handlers = {h1, h2}
  Quotas = {0, 1}
  PlanQuota = 1
  MaxTenants = 2
  MaxCalls = 4
  MaxFaults = 1
SYMMETRY Symmetry
INVARIANTS
  TypeOK
  OneTenantPerOrder
  FulfilledIsComplete
  DivergenceIsExplained
PROPERTIES
  DeletedStaysAway
CHECK_DEADLOCK FALSE
