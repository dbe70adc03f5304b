CONSTANTS
  Instruments = {i1}
  Providers = {moex}
  InRoubles = {moex}
  Symbols = {s1, s2}
  Values = {v1}
  Rates = {r1}
  Callers = {c1, c2}
  MaxSnapshot = 1
  None = None
SPECIFICATION Spec
INVARIANTS
  LiveSurvivesRestart
