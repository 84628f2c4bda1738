SPECIFICATION Spec
CONSTANTS
  Tags = {t1, t2}
  Media = {m1, m2}
  Checks = {c1}
  Hours = {h1}
  RuleIds = {r1, r2}
  RuleSettings <- MCSettings
  Nil = Nil
PROPERTY KeepsItsMedia
