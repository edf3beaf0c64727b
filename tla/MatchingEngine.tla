--------------------------- MODULE MatchingEngine ---------------------------
(***************************************************************************)
(* The matching engine (matching/include/matching_engine.hpp,              *)
(* matching/src/matching_engine.cpp): one order book per listed symbol and *)
(* the counter of exchange order ids.  The engine is driven by the         *)
(* matching thread alone, one request at a time.  onCancel and onModify    *)
(* are one step each.  onOrder is a step that accepts the order, one step  *)
(* per iteration of matchAgainst, and a step that leaves the loop and      *)
(* rests what is left; no other call can start in between.                 *)
(***************************************************************************)
EXTENDS OrderBook

CONSTANTS
  Symbols,     \* the symbols the engine was initialized with
  AllSymbols,  \* the symbols a request can carry
  Qtys,        \* the quantities a request can carry
  MaxOrders    \* bound: new-order requests in a behaviour

ASSUME SymbolsAssumption == Symbols \subseteq AllSymbols
ASSUME QtysAssumption == Qtys \subseteq Quantity
ASSUME MaxOrdersAssumption == MaxOrders \in Nat

VARIABLES
  books,         \* the book of each listed symbol
  nextOrderId,
  call,          \* "idle", or "matching" inside addOrder
  incoming,      \* the order addOrder works on, <<>> outside
  remainingQty,  \* the remainingQty of addOrder
  confirmsOut,   \* what the current or last call reported
  mdOut

vars == <<books, nextOrderId, call, incoming, remainingQty, confirmsOut, mdOut>>

IncomingOrder ==
  [orderId : OrderId, traderId : Traders, symbolId : Symbols, side : Side,
   price : Prices, qty : Quantity]

(* Order ids a cancel or modify request can name: issued and not yet so.   *)
RequestIds == 1 .. MaxOrders

-----------------------------------------------------------------------------
Init ==
  /\ books = [s \in Symbols |-> EmptyBook]
  /\ nextOrderId = 1
  /\ call = "idle"
  /\ incoming = <<>>
  /\ remainingQty = 0
  /\ confirmsOut = <<>>
  /\ mdOut = <<>>

(* The outputs of a call that started with cleared vectors.                *)
Report(e) == confirmsOut' = e.confirms /\ mdOut' = e.mds

(* The call returns: its locals are gone.                                  *)
Return == call' = "idle" /\ incoming' = <<>> /\ remainingQty' = 0

onOrder_Unlisted(trader, sym) ==
  /\ sym \notin Symbols
  /\ Report(Effect(EmptyBook, 0, <<>>, <<>>))
  /\ UNCHANGED <<books, call, incoming, remainingQty>>

onOrder_Listed(trader, sym, side, price, qty) ==
  LET inc == [orderId |-> nextOrderId, traderId |-> trader, symbolId |-> sym,
              side |-> side, price |-> price, qty |-> qty]
      e   == addOrder_accept(books[sym], inc)
  IN  /\ sym \in Symbols
      /\ call' = "matching"
      /\ incoming' = inc
      /\ remainingQty' = e.remaining
      /\ Report(e)
      /\ UNCHANGED books

onOrder_KeepId(trader, sym, side, price, qty) ==
  /\ call = "idle"
  /\ nextOrderId <= MaxOrders
  /\ nextOrderId' = IF side = "Buy" THEN nextOrderId + 1 ELSE nextOrderId
  /\ \/ onOrder_Unlisted(trader, sym)
     \/ onOrder_Listed(trader, sym, side, price, qty)

onOrder(trader, sym, side, price, qty) ==
  /\ call = "idle"
  /\ nextOrderId <= MaxOrders
  /\ nextOrderId' = nextOrderId + 1
  /\ \/ onOrder_Unlisted(trader, sym)
     \/ onOrder_Listed(trader, sym, side, price, qty)

(* One iteration of the loops of matchAgainst.                             *)
matchAgainst ==
  LET b == books[incoming.symbolId]
      e == matchStep(b, incoming, remainingQty)
  IN  /\ call = "matching"
      /\ CanMatch(b, incoming, remainingQty)
      /\ books' = [books EXCEPT ![incoming.symbolId] = e.book]
      /\ remainingQty' = e.remaining
      /\ confirmsOut' = confirmsOut \o e.confirms
      /\ mdOut' = mdOut \o e.mds
      /\ UNCHANGED <<nextOrderId, call, incoming>>

(* The loops are left: rest what remains and return.                       *)
addOrder_return ==
  LET b == books[incoming.symbolId]
  IN  /\ call = "matching"
      /\ ~CanMatch(b, incoming, remainingQty)
      /\ books' = [books EXCEPT ![incoming.symbolId] = addOrder_rest(b, incoming, remainingQty)]
      /\ Return
      /\ UNCHANGED <<nextOrderId, confirmsOut, mdOut>>

onCancel(id, sym, trader) ==
  /\ call = "idle"
  /\ LET e == IF sym \in Symbols THEN cancelOrder(books[sym], id, trader)
                                 ELSE Effect(EmptyBook, 0, <<>>, <<>>)
     IN  /\ books' = IF sym \in Symbols THEN [books EXCEPT ![sym] = e.book] ELSE books
         /\ Report(e)
  /\ UNCHANGED <<nextOrderId, call, incoming, remainingQty>>

onModify(id, sym, trader, newPrice, newQty) ==
  /\ call = "idle"
  /\ LET e == IF sym \in Symbols THEN modifyOrder(books[sym], id, trader, newPrice, newQty)
                                 ELSE Effect(EmptyBook, 0, <<>>, <<>>)
     IN  /\ books' = IF sym \in Symbols THEN [books EXCEPT ![sym] = e.book] ELSE books
         /\ Report(e)
  /\ UNCHANGED <<nextOrderId, call, incoming, remainingQty>>

Next ==
  \/ \E t \in Traders, sym \in AllSymbols, side \in Side, p \in Prices, q \in Qtys :
       onOrder(t, sym, side, p, q)
  \/ matchAgainst
  \/ addOrder_return
  \/ \E id \in RequestIds, sym \in AllSymbols, t \in Traders : onCancel(id, sym, t)
  \/ \E id \in RequestIds, sym \in AllSymbols, t \in Traders, p \in Prices, q \in Qtys :
       onModify(id, sym, t, p, q)

Spec == Init /\ [][Next]_vars

-----------------------------------------------------------------------------
(* Invariants.                                                             *)

(* Every variable has its type.                                            *)
TypeOK ==
  /\ books = [s \in Symbols |-> books[s]]
  /\ \A s \in Symbols : BookTypeOK(books[s])
  /\ nextOrderId \in OrderId
  /\ call \in {"idle", "matching"}
  /\ call = "matching" => incoming \in IncomingOrder
  /\ remainingQty \in Quantity
  /\ confirmsOut \in Seq(Confirmation)
  /\ mdOut \in Seq(MarketUpdate)

(* At every point of every call, the levels, orderMap and orderDetails of  *)
(* each book agree, so that no operation meets a dangling pointer, an      *)
(* end() iterator or an empty best level.                                  *)
BooksConsistent == \A s \in Symbols : BookConsistent(books[s])

(* An exchange order id is in use in one book at most, and is one that the *)
(* counter has already passed; the order being matched is in no book yet.  *)
IdsUnique ==
  /\ \A s \in Symbols : \A id \in DOMAIN books[s].orderMap :
       /\ id < nextOrderId
       /\ call = "matching" => id # incoming.orderId
       /\ \A r \in Symbols \ {s} : id \notin DOMAIN books[r].orderMap
  /\ call = "matching" => incoming.orderId < nextOrderId

(* What orderDetails remembers of an order's quantity is never below its   *)
(* open quantity, although trades change only the latter: an order that    *)
(* modifyOrder leaves in place (order_book.cpp:211-216) never gets larger  *)
(* than it was when it last took its place.                                *)
OpenWithinEntered ==
  \A s \in Symbols : \A id \in DOMAIN books[s].orderMap :
    books[s].orderMap[id].m_quantity <= books[s].orderDetails[id].quantity

-----------------------------------------------------------------------------
(* Properties of the steps of the engine.                                  *)

(* Order a stands before order c in a level of book b.                     *)
Before(b, a, c) ==
  \E s \in Side : \E p \in DOMAIN b.levels[s] :
    \E i, j \in DOMAIN b.levels[s][p].mOrders :
      i < j /\ b.levels[s][p].mOrders[i] = a /\ b.levels[s][p].mOrders[j] = c

(* The confirmations acknowledge a modify of order id.                     *)
ModifyAcked(confirms, id) ==
  \E i \in DOMAIN confirms : confirms[i].type = "ModifyAck" /\ confirms[i].orderId = id

(* Time priority is never lost to another order: as long as two orders     *)
(* share a level, one can pass the other only in a step that modifies the  *)
(* one passed (PriceLevel::addOrder appends, price_level.hpp:16;           *)
(* matchAgainst and cancelOrder only take orders out).                     *)
NoQueueJump ==
  [][books' # books =>
       \A s \in Symbols : \A side \in Side : \A p \in DOMAIN books[s].levels[side] :
       LET line == books[s].levels[side][p].mOrders
       IN  \A i, j \in DOMAIN line :
             i < j /\ Before(books'[s], line[j], line[i]) => ModifyAcked(confirmsOut', line[i])]_vars

(* A buy at p and a sell at q (or the other way round) could trade.        *)
Crosses(side, p, q) == IF side = "Buy" THEN q <= p ELSE q >= p

(* The resting orders of one side of a book, by their details.             *)
Resting(b, s) == {id \in DOMAIN b.orderDetails : b.orderDetails[id].side = s}

(* The resting order id is one that the incoming order inc may trade with: *)
(* the other side, another trader, a price inside inc's limit, no better   *)
(* price on that side, and first in line at its price.                     *)
FairCounterparty(b, inc, id) ==
  LET s == oppositeSide(inc.side)
  IN  /\ id \in Resting(b, s)
      /\ b.orderMap[id].m_traderId # inc.traderId
      /\ Crosses(inc.side, inc.price, b.orderDetails[id].price)
      /\ \A o \in Resting(b, s) :
           /\ ~Better(s, b.orderDetails[o].price, b.orderDetails[id].price)
           /\ ~Before(b, o, id)

(* Every trade the engine reports, to either side, is at the limit price   *)
(* of the resting order with the best price and the longest standing,      *)
(* never between two orders of one trader, and never worse than the        *)
(* incoming limit (matchAgainst, order_book.cpp:34-110).                   *)
BestExecution ==
  [][\A i \in (Len(confirmsOut) + 1) .. Len(confirmsOut') :
       LET c == confirmsOut'[i]
           b == books[incoming.symbolId]
       IN  call = "matching" /\ c.type = "Trade" =>
             \E o \in DOMAIN b.orderDetails :
               /\ FairCounterparty(b, incoming, o) /\ c.price = b.orderDetails[o].price
               /\ \/ c.orderId = incoming.orderId /\ c.traderId = incoming.traderId
                  \/ c.orderId = o /\ c.traderId = b.orderMap[o].m_traderId]_vars

(* A new order is rested only once nothing on the other side of the book   *)
(* crosses it (addOrder, order_book.cpp:114-143).                          *)
RestsUncrossed ==
  [][\A s \in Symbols : call = "matching" /\ call' = "idle" =>
       \A new \in DOMAIN books'[s].orderMap \ DOMAIN books[s].orderMap :
         LET d == books'[s].orderDetails[new]
         IN  \A o \in Resting(books'[s], oppositeSide(d.side)) :
               ~Crosses(d.side, d.price, books'[s].orderDetails[o].price)]_vars

(* matchAgainst always makes progress, so its loops end: an iteration      *)
(* takes an order out of the book or uses up the incoming order.           *)
MatchProgress ==
  [][call = "matching" /\ call' = "matching" =>
       \/ remainingQty' = 0
       \/ \E id \in DOMAIN books[incoming.symbolId].orderMap :
            /\ id \notin DOMAIN books'[incoming.symbolId].orderMap
            /\ DOMAIN books'[incoming.symbolId].orderMap
                 \subseteq DOMAIN books[incoming.symbolId].orderMap]_vars

-----------------------------------------------------------------------------
(* How far the mTotalQty of a level is from the sum over its orders.       *)

LevelSum(b, lvl) ==
  LET sum[n \in 0 .. Len(lvl.mOrders)] ==
        IF n = 0 THEN 0 ELSE sum[n - 1] + b.orderMap[lvl.mOrders[n]].m_quantity
  IN  sum[Len(lvl.mOrders)]

Drift(b, s, p) ==
  IF p \in DOMAIN b.levels[s]
  THEN Minus(b.levels[s][p].mTotalQty, LevelSum(b, b.levels[s][p]))
  ELSE 0

(* The step puts the total of no level out of line.                        *)
KeepsTotals ==
  \A sym \in Symbols : \A s \in Side : \A p \in DOMAIN books'[sym].levels[s] :
    Drift(books'[sym], s, p) \in {0, Drift(books[sym], s, p)}

(* The last output of the step is a confirmation of this type.             *)
Confirms(type) ==
  confirmsOut' # <<>> /\ confirmsOut'[Len(confirmsOut')].type = type

(* The step modifies the order it confirms last, and leaves it in place.   *)
ModifiesInPlace(sym) ==
  LET id == confirmsOut'[Len(confirmsOut')].orderId
      d  == books'[sym].orderDetails[id]
  IN  /\ Confirms("ModifyAck") /\ id \in DOMAIN books[sym].orderMap
      /\ KeepsPriority(books[sym].orderDetails[id], d.price, d.quantity)

(* Resting a new order, cancelling one, on request or to prevent a         *)
(* self-trade, and moving one to another place change mTotalQty by exactly *)
(* what they add or take (price_level.hpp:16-29): only a trade and a       *)
(* modify in place (order_book.cpp:215) can put a total out of line, and   *)
(* erasing the level is all that mends it.                                 *)
TotalsKept ==
  [][/\ books' # books
     /\ ~\E sym \in Symbols : ModifiesInPlace(sym)
     /\ ~(call' = "matching" /\ Confirms("Trade"))
     => KeepsTotals]_vars

(* price_level.hpp:31 "Reduces the quantity of an order in the level": the *)
(* total of a level follows the fills of its orders.                       *)
TradesKeepTotals == [][call' = "matching" /\ Confirms("Trade") => KeepsTotals]_vars

=============================================================================
