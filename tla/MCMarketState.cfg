SPECIFICATION MarketSpec
CONSTANTS
  Traders = {t1, t2}
  MaxPrice = 1
  QtyMod = 3
  Symbols = {0, 1}
  AllSymbols = {0, 1, 9}
  MAX_INSTRUMENTS = 2
  Qtys = {1, 2}
  MaxOrders = 3
INVARIANTS IdsUnique RowsCurrent VolumeTwice LastTradeShown
PROPERTIES OwnersOnly
SYMMETRY TraderSymmetry
