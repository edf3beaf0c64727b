SPECIFICATION Spec
CONSTANTS
  Traders = {t1, t2}
  MaxPrice = 1
  QtyMod = 8
  Symbols = {0}
  AllSymbols = {0, 9}
  Qtys = {1, 2, 3}
  MaxOrders = 3
PROPERTY TradesKeepTotals
CHECK_DEADLOCK FALSE
