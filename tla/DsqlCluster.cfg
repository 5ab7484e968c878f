SPECIFICATION FairSpec
CONSTANTS
  Clusters = {c1, c2, c3}
  Commands = {p1}
  None = none
  Absent = absent
  Unread = unread
  MaxCuts = 2
INVARIANTS EndpointExists
PROPERTIES ImplementsPromise InSync
