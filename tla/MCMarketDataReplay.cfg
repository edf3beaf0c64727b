SPECIFICATION ReplaySpec
CONSTANTS
  Traders = {t1, t2}
  MaxPrice = 1
  QtyMod = 3
  Symbols = {0}
  AllSymbols = {0}
  Qtys = {1, 2}
  MaxOrders = 3
INVARIANTS TypeOK BooksConsistent MdReplayExact OwnerViewExact OpenWithinEntered
PROPERTIES NoQueueJump BestExecution RestsUncrossed MatchProgress TotalsKept
SYMMETRY TraderSymmetry
