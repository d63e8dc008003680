SPECIFICATION MCSpec
CONSTANTS
  env = env
  controllerVersion = controllerVersion
  prod = prod
  test = test
  q1 = q1
  ConfigIds = {q1, q2, q3, q4}
  NoId = NoId
  UserKeys = {env}
  ControllerKeys = {controllerVersion}
  AwsKeys = {awsStack}
  NoKey = NoKey
  Values = {prod, test}
  EmptyValue = test
  ControllerValue = prod
  NoValue = NoValue
  Absent = Absent
  TagLists <- SomeTagLists
  MaxFaults = 1
  MaxEdits = 1
  MaxDrift = 1
  AssocIds = {a1, a2, a3, a4, a5, a6}
  Vpc = vpc
  NoVpc = NoVpc
  AssociationSpecs <- SomeSpecs
  MaxAssociationEdits = 1
INVARIANTS
  AssociationTypeOK
  KnownAssociationIsGuarded
  SyncedAssociationIsHonest
  SystemTagsUntouched
  SyncedConfigIsHonest
PROPERTIES
  WantedTagsStay
  TagCallsLead
  RefinesManaged
  TagsConverge
  GivenUpWhenRefused
  ConfigDeletionEnds
  AssociationGivenUpWhenRefused
  AssociationDeletionEnds
