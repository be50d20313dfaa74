\* Two console requests at a time and one question.  The search returns four
\* points: all of two guardrails, and not all once copies or old ones are left.
SPECIFICATION Spec
CONSTANTS
  c1 = c1
  g1 = g1
  g2 = g2
  h1 = h1
  h2 = h2
  close = close
  distant = distant
  p1 = p1
  p2 = p2
  p3 = p3
  p4 = p4
  p5 = p5
  p6 = p6
  None = None
  Curateds = {c1}
  Guardrails = {g1, g2}
  Phrases = {close, distant}
  Texts = {"t1", "t2"}
  SeedLists = {{}, {close, distant}}
  Near <- OneNear
  Admins = {h1, h2}
  Asks = {"a1"}
  TopK = 4
  MaxCalls = 4
  MaxFailures = 1
SYMMETRY Symmetry
INVARIANTS
  TypeOK
  StoresAgree
  CountedOnce
  
PROPERTIES
  AnswersFollowRows
CHECK_DEADLOCK FALSE
