\* One resource, two VPCs, two endpoints and a tag: two faults, an edit, a rule lost.
SPECIFICATION Spec
CONSTANTS
  RuleIds = {r1, r2, r3, r4}
  NoId = NoId
  Vpcs = {v1, v2}
  TagKeys = {t1}
  n1 = n1
  n2 = n2
  Names = {n1}
  NoName = NoName
  Configs <- OneConfig
  MaxInt32 = 3
  Endpoints = {e1, e2}
  Domains = {d1}
  MaxFaults = 2
  MaxEdits = 1
  MaxDrift = 1
SYMMETRY Symmetry
INVARIANTS
  TypeOK
  KnownRuleIsGuarded
  OrphansBoundedByFaults
  SyncedIsHonest
PROPERTIES
  StableBinding
  AddBeforeRemove
  RefinesManaged
