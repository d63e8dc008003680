\* An address is exchanged for another one of its subnet, no call fails.
SPECIFICATION Spec
CONSTANTS
  s1 = s1
  s2 = s2
  s3 = s3
  ip1 = ip1
  ip2 = ip2
  EndpointIds = {e1}
  NoId = NoId
  Subnets = {s1, s2, s3}
  IPs = {ip1, ip2}
  AddressLists <- Exchange
  Names = {n1}
  NoName = NoName
  FixedFields = {f1}
  TagKeys = {}
  MinAddresses = 2
  MaxFaults = 0
  MaxEdits = 1
INVARIANT
  SyncedMeansAttached
