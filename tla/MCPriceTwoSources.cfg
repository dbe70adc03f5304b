CONSTANTS
  Instruments = {i1}
  Discoverable = {i1}
  Providers = {moex, yahoo}
  Pollable = {moex, yahoo}
  Synced = {}
  Discovered = {moex, yahoo}
  Symbols = {s1, s2}
  Values = {v1}
  MaxTime = 1
  None = None
SPECIFICATION Spec
PROPERTIES
  DiscoverySkipsMapped
