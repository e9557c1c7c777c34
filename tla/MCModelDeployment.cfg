CONSTANTS
  a = a
  b = b
  m1 = m1
  m2 = m2
  f1 = f1
  q1 = q1
  q2 = q2
  q3 = q3
  d1 = d1
  d2 = d2
  Orgs = {a, b}
  Names = {m1, m2}
  Functions = {f1}
  Slug <- OneSlug
  Requests = {q1, q2, q3}
  Rows = {d1, d2}
  None = None
  MaxLate = 1
  MaxDeaths = 1
  MaxSteps = 1
SPECIFICATION Spec
SYMMETRY Alike
INVARIANTS DeploymentIsSound OthersModelsStayHidden NoStaleReservation
PROPERTIES ImplementsOwners
CHECK_DEADLOCK FALSE
