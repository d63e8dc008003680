\* A create whose id is lost is not found again: a second rule is created.
SPECIFICATION Spec
CONSTANTS
  RuleIds = {r1, r2}
  NoId = NoId
  Vpcs = {v1}
  TagKeys = {t1}
  n1 = n1
  n2 = n2
  Names = {n1}
  NoName = NoName
  Configs <- OneConfig
  MaxInt32 = 3
  Endpoints = {e1}
  Domains = {d1}
  MaxFaults = 1
  MaxEdits = 0
  MaxDrift = 0
INVARIANT
  CreatedOnce
