SPECIFICATION Spec
CONSTANTS
  Rule = {r1}
  Watcher = {w1}
  Child = {k1}
  Config = {c1}
  Nobody = Nobody
INVARIANT FailedApplyRestores
