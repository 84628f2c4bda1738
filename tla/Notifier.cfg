SPECIFICATION Spec
CONSTANTS
  c1 = c1
  c2 = c2
  m1 = m1
  m2 = m2
  t1 = t1
  t2 = t2
  Checks = {c1, c2}
  Media = {m1, m2}
  Tags = {t1, t2}
  Hours <- MCHours
  RuleSet <- MCRuleSet
  TagsOf <- MCTagsOf
  Interval <- MCInterval
  Threshold <- MCThreshold
  Problems = {"critical"}
  MaxAnnounced = 4
  MaxQueue = 2
  MaxTime = 4
  MaxChanges = 1
  MaxCrashes = 1
  Nil = Nil
INVARIANTS
  TypeOK
  AlertableIsCurrent
  EndIsTold
  SummariesAreCurrent
PROPERTY RepeatsKeepInterval
CHECK_DEADLOCK FALSE
