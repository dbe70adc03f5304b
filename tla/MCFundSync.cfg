SPECIFICATION Spec
CONSTANTS
  MaxDate = 3
  Window = 1
  Values = {v1, v2}
  Assets = {a1, a2}
  MaxSnapshots = 3
  None = None
SYMMETRY Symmetry
INVARIANTS TypeOK FundIsDurable SnapshotAgreesUnlessReverted
PROPERTIES FixedHistoryKept
