CONSTANTS
  price = price
  rate = rate
  jobOfPrices = jobOfPrices
  admin = admin
  jobOfRates = jobOfRates
  Data = {price, rate}
  Prices = {price}
  Actors = {jobOfPrices, admin, jobOfRates}
  Target <- MCTarget
  Refetching = {admin}
  MaxVersion = 2
  Scheduled = {prices, history}
  Manual = {manual}
  Instruments = {i1}
  Discoverable = {i1}
  Providers = {moex, yahoo}
  Pollable = {moex, yahoo}
  Synced = {}
  Discovered = {moex, yahoo}
  Symbols = {s1}
  Values = {v1}
  MaxTime = 1
  Boards = {b1, b2}
  Quoting = {quotes}
  Daily = {}
  LastDay = 1
  Symbol = {s1, s2}
  Other = Other
  Proxy = {p1, p2}
  Invalid = Invalid
  Direct = Direct
  BatchSize = 1
  MaxItems = 1
  MaxList = 2
  MaxAsked = 2
  MaxAnswer = 0
  None = None
SPECIFICATION ProgressSpec
INVARIANTS
  DataShownUnlessOvertaken
  LiveShown
  ScheduledRunsEnd
PROPERTIES
  ChangesReachViewers
  WhatBeganEnds
  WriteLockReleased
CHECK_DEADLOCK FALSE
