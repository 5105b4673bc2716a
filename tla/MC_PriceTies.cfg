SPECIFICATION PricesSpec
CONSTANTS
  Rates = {3, 5}
  MaxRate = 6
  Unit = 2
  CatalogRate = 1
  NoDate = NoDate
  Dates = {1}
  PriceTTL = 1
  MaxLoad = 1
  MaxPrices = 2
  MaxPriceTime = 2
INVARIANTS ShownIsCharged
