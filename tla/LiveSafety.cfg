SPECIFICATION Spec
CONSTANTS
  Rule = {r1}
  Watcher = {w1, w2}
  Child = {k1, k2}
  Config = {c1, c2}
  Nobody = Nobody
SYMMETRY Symmetry
INVARIANTS OnlyRequestedRules ClearedStaysClear DesiredIsPersisted OneWriter OneConfig RestoredIsPrevious
PROPERTY ImplementsRegister
