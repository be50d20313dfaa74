SPECIFICATION Spec
CONSTANTS
  h1 = h1
  h2 = h2
  h3 = h3
  Emails = {"ann", "bob"}
  Tenants = {"a", "b"}
  Handlers <- HandlerSet
  MaxUsers = 3
  MaxTokens = 4
  MaxCalls = 7
  MaxFaults = 1
SYMMETRY Symmetry
INVARIANTS
  TypeOK
  OneTokenPerLogin
  EndedLoginsStayEnded
CHECK_DEADLOCK FALSE
