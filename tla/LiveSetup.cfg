SPECIFICATION SetupSpec
CONSTANTS
  Rule = {r1}
  Watcher = {w1}
  Child = {k1}
  Config = {c1, c2}
  Nobody = Nobody
  Root = Root
SYMMETRY Symmetry
INVARIANTS SetupAlone SetupIsLoaded RestoredIsFound
PROPERTY SetupKeepsRules
