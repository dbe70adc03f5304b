SPECIFICATION Spec
CONSTANTS
  MaxDate = 2
  Window = 1
  Values = {v1, v2}
  Assets = {a1}
  MaxSnapshots = 3
  None = None
PROPERTIES LatestIsCurrentPage
