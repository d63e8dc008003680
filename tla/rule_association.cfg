\* A rule object and an association object for one VPC: an edit, and a fault or a drift.
SPECIFICATION MCSpec
CONSTANTS
  r1 = r1
  v1 = v1
  RuleIds = {r1, r2, r3}
  NoId = NoId
  Vpcs = {v1}
  TagKeys = {}
  n1 = n1
  m1 = m1
  Names = {n1}
  NoName = NoName
  Configs <- OneConfig
  MaxInt32 = 3
  Endpoints = {e1}
  Domains = {d1}
  MaxFaults = 1
  MaxEdits = 1
  MaxDrift = 1
  AssocIds = {a1, a2, a3, a4, a5}
  NoVpc = NoVpc
  ReferencedVpc = v1
  AssociationNames = {m1}
  AssociationSpecs <- SomeSpecs
INVARIANTS
  KnownRuleIsGuarded
  OrphansBoundedByFaults
  AssociationTypeOK
  KnownAssociationIsGuarded
  SyncedAssociationIsHonest
PROPERTIES
  StableBinding
  RemovedByRight
  AssociationDeletionCompletes
  AssociationComesBack
