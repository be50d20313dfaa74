\* A guardrail of five seeds, disabled, beside one of a single seed.
SPECIFICATION Spec
CONSTANTS
  c1 = c1
  g1 = g1
  g2 = g2
  h1 = h1
  h2 = h2
  close = close
  distant = distant
  p1 = p1
  p2 = p2
  p3 = p3
  p4 = p4
  p5 = p5
  p6 = p6
  None = None
  Curateds = {c1}
  Guardrails = {g1, g2}
  Phrases = {p1, p2, p3, p4, p5, p6}
  Texts = {"t1"}
  SeedLists = {{p1, p2, p3, p4, p5}, {p6}}
  Near <- AllNear
  Admins = {h1}
  Asks = {"a1"}
  TopK = 5
  MaxCalls = 3
  MaxFailures = 0
PROPERTY
  EnabledGuardrailsAnswer
CHECK_DEADLOCK FALSE
