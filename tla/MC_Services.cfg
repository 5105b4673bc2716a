SPECIFICATION ServicesSpec
CONSTANTS
  i1 = i1  i2 = i2  i3 = i3  r1 = r1  r2 = r2
  Readers = {r1, r2}
  PassIds = {i1, i2, i3}
  None = None
  MaxWritten = 2

  Rates = {3}
  MaxRate = 4
  Unit = 2
  CatalogRate = 1
  NoDate = NoDate
  Dates = {NoDate, 1}
  PriceTTL = 1
  MaxLoad = 1
  MaxPrices = 2
  MaxPriceTime = 3

  Runners = {x1, x2}
  LastFile = 2
  Outside = {2}
  Legacy = TRUE
  Directories <- MC_Directories

  Exchanges = {x1, x2}
  Answers <- MC_Answers

  Errors = {e1, e2, e3, e4}
  FlushAtEvents = 2
  MaxEventsPerMin = 3
INVARIANTS
  ServicesTypesOK
  FreshOrFlagged WaitsForLivePass
  ChargedInEffect SyncedAtOnce SyncRepeatsNothing
   
  CleanEndIsWhole WhatArrivedIsMetered
  ErrorsOnTheirWay
PROPERTIES EveryReaderAnswered
