CONSTANTS
  c1 = c1
  c2 = c2
  w1 = w1
  w2 = w2
  w3 = w3
  l1 = l1
  l2 = l2
  j1 = j1
  j2 = j2
  r1 = r1
  r2 = r2
  Null = Null
  Conns = {c1}
  Wafers = {w1, w2, w3}
  Lots = {l1, l2}
  Jobs = {j1, j2}
  Recipes = {r1, r2}
  Stagings <- Colliding
  ECWrites <- NoWrites
SPECIFICATION Spec
INVARIANTS
  JobsOwnTheirWafers
  CompletedJobsAreExposed
