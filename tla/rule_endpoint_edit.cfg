\* An edit of the endpoint alone is never sent.
SPECIFICATION FairSpec
CONSTANTS
  RuleIds = {r1}
  NoId = NoId
  Vpcs = {v1}
  TagKeys = {}
  n1 = n1
  n2 = n2
  Names = {n1}
  NoName = NoName
  Configs <- OneConfig
  MaxInt32 = 3
  Endpoints = {e1, e2}
  Domains = {d1}
  MaxFaults = 0
  MaxEdits = 1
  MaxDrift = 0
PROPERTY
  EndpointConverges
