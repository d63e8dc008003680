\* The rule's controller removes an association that an association object holds.
SPECIFICATION ASpec
CONSTANTS
  r1 = r1
  v1 = v1
  RuleIds = {r1}
  NoId = NoId
  Vpcs = {v1}
  TagKeys = {}
  n1 = n1
  m1 = m1
  Names = {n1}
  NoName = NoName
  Configs <- OneConfig
  MaxInt32 = 3
  Endpoints = {e1}
  Domains = {d1}
  MaxFaults = 0
  MaxEdits = 0
  MaxDrift = 0
  AssocIds = {a1, a2, a3}
  NoVpc = NoVpc
  ReferencedVpc = v1
  AssociationNames = {m1}
  AssociationSpecs <- ByReference
PROPERTY
  EachManagesItsOwn
