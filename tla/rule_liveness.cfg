\* Two VPCs, names and targets, some of which no request can carry: one fault, one
\* edit, one rule lost.
SPECIFICATION FairSpec
CONSTANTS
  RuleIds = {r1, r2, r3}
  NoId = NoId
  Vpcs = {v1, v2}
  TagKeys = {}
  n1 = n1
  n2 = n2
  Names = {n1, n2}
  NoName = NoName
  Configs <- EverySort
  MaxInt32 = 3
  Endpoints = {e1}
  Domains = {d1}
  MaxFaults = 1
  MaxEdits = 1
  MaxDrift = 1
INVARIANT
  PortsAreAsWritten
PROPERTIES
  Converges
  DeletionCompletes
