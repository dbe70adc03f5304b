CONSTANTS
  Instruments = {i1}
  Discoverable = {i1}
  Providers = {moex, yahoo}
  Pollable = {moex, yahoo}
  Synced = {moex}
  Discovered = {yahoo}
  Symbols = {s1, s2}
  Values = {v1, v2}
  MaxTime = 2
  None = None
SPECIFICATION Spec
INVARIANTS
  CacheIsDurableView
