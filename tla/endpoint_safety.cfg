\* Every field edited, names that are nil, addresses moved from subnets to others
\* and AWS refusing at will while busy: one fault, one edit.
SPECIFICATION FairSpec
CONSTANTS
  s1 = s1
  s2 = s2
  s3 = s3
  ip1 = ip1
  ip2 = ip2
  EndpointIds = {e1, e2}
  NoId = NoId
  Subnets = {s1, s2, s3}
  IPs = {ip1, ip2}
  AddressLists <- Lists
  Names = {n1, n2}
  NoName = NoName
  FixedFields = {f1, f2}
  TagKeys = {t1}
  MinAddresses = 2
  MaxFaults = 1
  MaxEdits = 1
INVARIANTS
  TypeOK
  SyncedFieldsAgree
PROPERTIES
  AttachBeforeDetach
  RefinesManaged
  SubnetsConverge
