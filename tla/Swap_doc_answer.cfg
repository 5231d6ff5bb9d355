CONSTANTS
  s1 = s1
  s2 = s2
  l1 = l1
  l2 = l2
  r0 = r0
  r1 = r1
  r2 = r2
  v1 = v1
  v2 = v2
  Scorers = {s1}
  Reloaders = {l1}
  Runners = {r0, r1}
  Versions = {v1, v2}
  Initial = r0
  Nil = Nil
  Main = Main
SPECIFICATION Spec
CHECK_DEADLOCK FALSE
INVARIANT AnsweredByScorer
