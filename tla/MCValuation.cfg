CONSTANTS
  Instruments = {i1}
  Providers = {moex}
  InRoubles = {moex}
  Symbols = {s1, s2}
  Values = {v1}
  Rates = {r1}
  Callers = {c1, c2}
  MaxSnapshot = 2
  None = None
SPECIFICATION Spec
SYMMETRY Symmetry
INVARIANTS
  TypeOK
  StoredForSymbol
  BaselinesStoredUnlessDropped
  LiveCurrentUnlessOwed
