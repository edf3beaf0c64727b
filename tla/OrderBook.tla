----------------------------- MODULE OrderBook -----------------------------
(***************************************************************************)
(* The limit order book of one instrument: the classes PriceLevel          *)
(* (core/include/price_level.hpp) and OrderBook                            *)
(* (matching/include/order_book.hpp, matching/src/order_book.cpp) as a     *)
(* record and the operators that map one book to the next.  The state      *)
(* machine that owns the books is MatchingEngine.                          *)
(*                                                                         *)
(* A BookElement* is represented by the id of its order: every element is  *)
(* allocated for exactly one order id, and ids are never reused.  An id    *)
(* that stands in a level but not in orderMap is thus a dangling pointer.  *)
(*                                                                         *)
(* matchAgainst is one operator per iteration of its inner loop            *)
(* (matchStep), so that no recursion is needed: MatchingEngine takes the   *)
(* iterations one by one.                                                  *)
(*                                                                         *)
(* An operator F_Fault is F with a plausible mistake; the runs show that   *)
(* the properties notice it.  No specification uses it.                    *)
(***************************************************************************)
EXTENDS Integers, Sequences, SequencesExt

CONSTANTS
  Traders,  \* trader ids a request can carry
  MaxPrice, \* the greatest value of the type Price (uint32_t)
  QtyMod    \* 2^w, the number of values of the type Quantity (uint32_t)

ASSUME MaxPriceAssumption == MaxPrice \in Nat
ASSUME QtyModAssumption == QtyMod \in Nat /\ QtyMod > 1

-----------------------------------------------------------------------------
(* Types.                                                                  *)

Side     == {"Buy", "Sell"}
Prices   == 0 .. MaxPrice
Quantity == 0 .. QtyMod - 1
OrderId  == Nat \ {0}

BookElement  == [m_traderId : Traders, m_quantity : Quantity]
OrderDetails == [side : Side, price : Prices, quantity : Quantity]
PriceLevel   == [mOrders : Seq(OrderId), mTotalQty : Quantity]

Confirmation ==
  [type : {"NewAck", "ModifyAck", "CancelAck", "Trade", "Reject"}, orderId : OrderId,
   traderId : Traders, price : Prices, qty : Quantity, reason : {"UnknownOrder", "SelfTrade"}]
MarketUpdate ==
  [orderId : OrderId, side : Side, price : Prices, qty : Quantity,
   updateType : {"New", "Modify", "Cancel", "Trade"}]

oppositeSide(s) == IF s = "Buy" THEN "Sell" ELSE "Buy"

(* std::map / std::unordered_map: m[k] = v, and m.erase(k).                *)
Put(m, k, v) == [x \in DOMAIN m \cup {k} |-> IF x = k THEN v ELSE m[x]]
Erase(m, k)  == Restrict(m, DOMAIN m \ {k})
EmptyMap     == [k \in {} |-> k]

(* Arithmetic on Quantity values wraps around.                             *)
Minus_Unbounded(a, b) == a - b
Minus(a, b) == (a - b) % QtyMod
Plus(a, b)  == (a + b) % QtyMod

(* A book: both level maps (bids and asks), the index of the resting       *)
(* orders and what is remembered of each of them.                          *)
EmptyBook ==
  [ levels       |-> [s \in Side |-> EmptyMap],
    orderMap     |-> EmptyMap,
    orderDetails |-> EmptyMap ]

-----------------------------------------------------------------------------
(* class PriceLevel.                                                       *)

NewLevel == [mOrders |-> <<>>, mTotalQty |-> 0]

PriceLevel_addOrder_Front(lvl, id, qty) ==
  [mOrders |-> <<id>> \o lvl.mOrders, mTotalQty |-> Plus(lvl.mTotalQty, qty)]

PriceLevel_addOrder(lvl, id, qty) ==
  [mOrders |-> Append(lvl.mOrders, id), mTotalQty |-> Plus(lvl.mTotalQty, qty)]

PriceLevel_removeOrder_KeepTotal(lvl, id, qty) ==
  [mOrders |-> RemoveFirst(lvl.mOrders, id), mTotalQty |-> lvl.mTotalQty]

(* qty is the quantity of the element at the time of the call.             *)
PriceLevel_removeOrder(lvl, id, qty) ==
  IF id \in ToSet(lvl.mOrders)
  THEN [mOrders |-> RemoveFirst(lvl.mOrders, id), mTotalQty |-> Minus(lvl.mTotalQty, qty)]
  ELSE lvl

PriceLevel_reduceQty(lvl, amt) ==
  [mOrders |-> lvl.mOrders, mTotalQty |-> Minus(lvl.mTotalQty, amt)]

-----------------------------------------------------------------------------
(* The private helpers of class OrderBook, on one level map.               *)

getOrCreateLevel(m, price) == IF price \in DOMAIN m THEN m[price] ELSE NewLevel

insertIntoLevel(m, id, qty, price) ==
  Put(m, price, PriceLevel_addOrder(getOrCreateLevel(m, price), id, qty))

(* Store a level back, or erase it when it has become empty.               *)
StoreLevel(m, price, lvl) ==
  IF lvl.mOrders = <<>> THEN Erase(m, price) ELSE Put(m, price, lvl)

removeFromLevel(m, id, qty, price) ==
  IF price \in DOMAIN m
  THEN StoreLevel(m, price, PriceLevel_removeOrder(m[price], id, qty))
  ELSE m

(* levels.begin(): the greatest bid, the smallest ask.                     *)
Better(s, p, q) == IF s = "Buy" THEN p > q ELSE p < q
BestPrice(s, m) == CHOOSE p \in DOMAIN m : \A q \in DOMAIN m : ~Better(s, q, p)

getBestPrice(b, s) == IF b.levels[s] = EmptyMap THEN 0 ELSE BestPrice(s, b.levels[s])
getBestQty(b, s) ==
  IF b.levels[s] = EmptyMap THEN 0 ELSE b.levels[s][BestPrice(s, b.levels[s])].mTotalQty

-----------------------------------------------------------------------------
(* What a call reports: private confirmations and market data.             *)

OrderConfirm(type, id, trader, price, qty, reason) ==
  [type |-> type, orderId |-> id, traderId |-> trader, price |-> price,
   qty |-> qty, reason |-> reason]

MdUpdate(id, side, price, qty, type) ==
  [orderId |-> id, side |-> side, price |-> price, qty |-> qty, updateType |-> type]

Reject(id, trader) == OrderConfirm("Reject", id, trader, 0, 0, "UnknownOrder")

Effect(b, rem, confirms, mds) ==
  [book |-> b, remaining |-> rem, confirms |-> confirms, mds |-> mds]

-----------------------------------------------------------------------------
(* matchAgainst: inc is the incoming order, rem its remaining quantity.    *)

canTrade_Any(inc, levelPrice) == TRUE

canTrade_Strict(inc, levelPrice) ==
  IF inc.side = "Buy" THEN levelPrice < inc.price ELSE levelPrice > inc.price

canTrade(inc, levelPrice) ==
  IF inc.side = "Buy" THEN levelPrice <= inc.price ELSE levelPrice >= inc.price

(* Both loop conditions: the loops go on while this holds.                 *)
CanMatch(b, inc, rem) ==
  LET passive == oppositeSide(inc.side)
  IN  /\ rem > 0
      /\ DOMAIN b.levels[passive] # {}
      /\ canTrade(inc, BestPrice(passive, b.levels[passive]))

(* The level at the head of the passive side, and the order first in line. *)
BestLevelPrice(b, inc) == BestPrice(oppositeSide(inc.side), b.levels[oppositeSide(inc.side)])
peekFirst(b, inc) ==
  Head(b.levels[oppositeSide(inc.side)][BestLevelPrice(b, inc)].mOrders)

(* The book once order id has been erased everywhere and its level, now    *)
(* lvl, has been stored back.                                              *)
DropOrder(b, s, price, lvl, id) ==
  [ levels       |-> [b.levels EXCEPT ![s] = StoreLevel(@, price, lvl)],
    orderMap     |-> Erase(b.orderMap, id),
    orderDetails |-> Erase(b.orderDetails, id) ]

selfTradeStep_Silent(b, inc, rem) ==
  LET passive == oppositeSide(inc.side)
      price   == BestLevelPrice(b, inc)
      id      == peekFirst(b, inc)
      qty     == b.orderMap[id].m_quantity
      lvl     == PriceLevel_removeOrder(b.levels[passive][price], id, qty)
  IN  Effect(DropOrder(b, passive, price, lvl, id), rem, <<>>,
             << MdUpdate(id, passive, price, qty, "Cancel") >>)

(* The resting order is the incoming trader's own: it is cancelled.        *)
selfTradeStep(b, inc, rem) ==
  LET passive == oppositeSide(inc.side)
      price   == BestLevelPrice(b, inc)
      id      == peekFirst(b, inc)
      elem    == b.orderMap[id]
      lvl     == PriceLevel_removeOrder(b.levels[passive][price], id, elem.m_quantity)
  IN  Effect(DropOrder(b, passive, price, lvl, id), rem,
             << OrderConfirm("CancelAck", id, elem.m_traderId, 0, elem.m_quantity, "SelfTrade") >>,
             << MdUpdate(id, passive, price, elem.m_quantity, "Cancel") >>)

TradeQty(b, inc, rem) ==
  LET q == b.orderMap[peekFirst(b, inc)].m_quantity IN IF rem <= q THEN rem ELSE q

(* The book after a trade of qty against the first order in line.  The     *)
(* element's quantity is reduced before removeOrder reads it, so a filled  *)
(* order leaves its level with quantity 0.                                 *)
BookAfterTrade_KeepFilled(b, inc, qty) ==
  LET passive == oppositeSide(inc.side)
      price   == BestLevelPrice(b, inc)
      id      == peekFirst(b, inc)
  IN  [b EXCEPT !.levels[passive][price] = PriceLevel_reduceQty(@, qty),
                !.orderMap[id].m_quantity = @ - qty]

BookAfterTrade_KeepIndex(b, inc, qty) ==
  LET passive == oppositeSide(inc.side)
      price   == BestLevelPrice(b, inc)
      id      == peekFirst(b, inc)
      lvl     == b.levels[passive][price]
      left    == b.orderMap[id].m_quantity - qty
  IN  IF left = 0
      THEN [DropOrder(b, passive, price, PriceLevel_removeOrder(lvl, id, left), id)
              EXCEPT !.orderDetails = b.orderDetails]
      ELSE [b EXCEPT !.levels[passive][price] = PriceLevel_reduceQty(@, qty),
                     !.orderMap[id].m_quantity = left]

BookAfterTrade(b, inc, qty) ==
  LET passive == oppositeSide(inc.side)
      price   == BestLevelPrice(b, inc)
      id      == peekFirst(b, inc)
      elem    == b.orderMap[id]
      lvl     == b.levels[passive][price]
      left    == elem.m_quantity - qty
  IN  IF left = 0
      THEN DropOrder(b, passive, price, PriceLevel_removeOrder(lvl, id, left), id)
      ELSE [ levels       |-> [b.levels EXCEPT ![passive] =
                                 Put(@, price, PriceLevel_reduceQty(lvl, qty))],
             orderMap     |-> Put(b.orderMap, id,
                                  [m_traderId |-> elem.m_traderId, m_quantity |-> left]),
             orderDetails |-> b.orderDetails ]

tradeStep_OneUpdate(b, inc, rem) ==
  LET price == BestLevelPrice(b, inc)
      id    == peekFirst(b, inc)
      qty   == TradeQty(b, inc, rem)
  IN  Effect(BookAfterTrade(b, inc, qty), rem - qty,
             << OrderConfirm("Trade", id, b.orderMap[id].m_traderId, price, qty, "UnknownOrder"),
                OrderConfirm("Trade", inc.orderId, inc.traderId, price, qty, "UnknownOrder") >>,
             << MdUpdate(id, oppositeSide(inc.side), price, qty, "Trade") >>)

tradeStep(b, inc, rem) ==
  LET passive == oppositeSide(inc.side)
      price   == BestLevelPrice(b, inc)
      id      == peekFirst(b, inc)
      qty     == TradeQty(b, inc, rem)
  IN  Effect(BookAfterTrade(b, inc, qty), rem - qty,
             << OrderConfirm("Trade", id, b.orderMap[id].m_traderId, price, qty, "UnknownOrder"),
                OrderConfirm("Trade", inc.orderId, inc.traderId, price, qty, "UnknownOrder") >>,
             << MdUpdate(id, passive, price, qty, "Trade"),
                MdUpdate(inc.orderId, inc.side, inc.price, qty, "Trade") >>)

(* One iteration of the inner loop of matchAgainst.                        *)
matchStep(b, inc, rem) ==
  IF b.orderMap[peekFirst(b, inc)].m_traderId = inc.traderId
  THEN selfTradeStep(b, inc, rem)
  ELSE tradeStep(b, inc, rem)

-----------------------------------------------------------------------------
(* addOrder before and after the call of matchAgainst.                     *)

addOrder_accept(b, inc) ==
  Effect(b, inc.qty,
         << OrderConfirm("NewAck", inc.orderId, inc.traderId, 0, 0, "UnknownOrder") >>,
         << MdUpdate(inc.orderId, inc.side, inc.price, inc.qty, "New") >>)

(* The book with a new element at the back of its level.                   *)
RestOrder(b, id, trader, side, price, qty) ==
  [ levels       |-> [b.levels EXCEPT ![side] = insertIntoLevel(@, id, qty, price)],
    orderMap     |-> Put(b.orderMap, id, [m_traderId |-> trader, m_quantity |-> qty]),
    orderDetails |-> Put(b.orderDetails, id,
                         [side |-> side, price |-> price, quantity |-> qty]) ]

addOrder_rest(b, inc, rem) ==
  IF rem = 0 THEN b
  ELSE RestOrder(b, inc.orderId, inc.traderId, inc.side, inc.price, rem)

-----------------------------------------------------------------------------
(* cancelOrder and modifyOrder.                                            *)

Owns_Any(b, id, trader) == id \in DOMAIN b.orderMap

(* The order exists and belongs to the trader; otherwise both calls answer *)
(* Reject and leave the book alone.                                        *)
Owns(b, id, trader) == id \in DOMAIN b.orderMap /\ b.orderMap[id].m_traderId = trader

cancelOrder(b, id, trader) ==
  IF ~Owns(b, id, trader) THEN Effect(b, 0, << Reject(id, trader) >>, <<>>)
  ELSE LET d   == b.orderDetails[id]
           qty == b.orderMap[id].m_quantity
       IN  Effect([ levels       |-> [b.levels EXCEPT ![d.side] =
                                        removeFromLevel(@, id, qty, d.price)],
                    orderMap     |-> Erase(b.orderMap, id),
                    orderDetails |-> Erase(b.orderDetails, id) ],
                  0,
                  << OrderConfirm("CancelAck", id, trader, 0, 0, "UnknownOrder") >>,
                  << MdUpdate(id, d.side, d.price, qty, "Cancel") >>)

(* Same price and less than the remembered quantity: changed in place.     *)
KeepsPriority(d, newPrice, newQty) == d.price = newPrice /\ newQty < d.quantity

(* The level maps after a modify: untouched when the order keeps its       *)
(* place, otherwise the order is removed and put at the back of the level  *)
(* of the new price.  There is no call of matchAgainst.                    *)
RelevelModified(b, id, newPrice, newQty) ==
  LET d == b.orderDetails[id]
  IN  IF KeepsPriority(d, newPrice, newQty) THEN b.levels
      ELSE [b.levels EXCEPT ![d.side] =
              insertIntoLevel(removeFromLevel(@, id, b.orderMap[id].m_quantity, d.price),
                              id, newQty, newPrice)]

modifyOrder_KeepEntered(b, id, trader, newPrice, newQty) ==
  IF ~Owns(b, id, trader) THEN Effect(b, 0, << Reject(id, trader) >>, <<>>)
  ELSE Effect([ levels       |-> RelevelModified(b, id, newPrice, newQty),
                orderMap     |-> [b.orderMap EXCEPT ![id].m_quantity = newQty],
                orderDetails |-> [b.orderDetails EXCEPT ![id].price = newPrice] ],
              0,
              << OrderConfirm("ModifyAck", id, trader, 0, 0, "UnknownOrder") >>,
              << MdUpdate(id, b.orderDetails[id].side, newPrice, newQty, "Modify") >>)

modifyOrder(b, id, trader, newPrice, newQty) ==
  IF ~Owns(b, id, trader) THEN Effect(b, 0, << Reject(id, trader) >>, <<>>)
  ELSE LET d == b.orderDetails[id]
       IN  Effect([ levels       |-> RelevelModified(b, id, newPrice, newQty),
                    orderMap     |-> Put(b.orderMap, id,
                                         [m_traderId |-> trader, m_quantity |-> newQty]),
                    orderDetails |-> Put(b.orderDetails, id,
                                         [side |-> d.side, price |-> newPrice, quantity |-> newQty]) ],
                  0,
                  << OrderConfirm("ModifyAck", id, trader, 0, 0, "UnknownOrder") >>,
                  << MdUpdate(id, d.side, newPrice, newQty, "Modify") >>)

-----------------------------------------------------------------------------
(* What makes a record a sound book.                                       *)

BookTypeOK(b) ==
  /\ \A s \in Side :
       /\ DOMAIN b.levels[s] \subseteq Prices
       /\ b.levels[s] \in [DOMAIN b.levels[s] -> PriceLevel]
  /\ b.levels = [s \in Side |-> b.levels[s]]
  /\ DOMAIN b.orderMap \subseteq OrderId
  /\ b.orderMap \in [DOMAIN b.orderMap -> BookElement]
  /\ DOMAIN b.orderDetails \subseteq OrderId
  /\ b.orderDetails \in [DOMAIN b.orderDetails -> OrderDetails]

(* The levels and the two indexes of a book describe the same orders.      *)
(* No level is empty (order_book.cpp:25 and 107 erase it).                 *)
NoEmptyLevel(b) ==
  \A s \in Side : \A p \in DOMAIN b.levels[s] : b.levels[s][p].mOrders # <<>>

(* Whatever stands in a level is a live order whose details name that      *)
(* level: no dangling BookElement*, and detailIt of cancelOrder and        *)
(* modifyOrder (order_book.cpp:166, 208) always finds its entry.           *)
LevelsIndexed(b) ==
  \A s \in Side : \A p \in DOMAIN b.levels[s] :
    \A i \in DOMAIN b.levels[s][p].mOrders :
      LET id == b.levels[s][p].mOrders[i]
      IN  /\ id \in DOMAIN b.orderMap
          /\ id \in DOMAIN b.orderDetails
          /\ b.orderDetails[id].side = s
          /\ b.orderDetails[id].price = p

(* No order stands twice in a level.                                       *)
NoDuplicates(b) ==
  \A s \in Side : \A p \in DOMAIN b.levels[s] :
    \A i, j \in DOMAIN b.levels[s][p].mOrders :
      b.levels[s][p].mOrders[i] = b.levels[s][p].mOrders[j] => i = j

(* Every indexed order stands in the level its details name.               *)
IndexedInLevels(b) ==
  /\ DOMAIN b.orderMap = DOMAIN b.orderDetails
  /\ \A id \in DOMAIN b.orderDetails :
       LET d == b.orderDetails[id]
       IN  /\ d.price \in DOMAIN b.levels[d.side]
           /\ \E i \in DOMAIN b.levels[d.side][d.price].mOrders :
                b.levels[d.side][d.price].mOrders[i] = id

BookConsistent(b) ==
  NoEmptyLevel(b) /\ LevelsIndexed(b) /\ NoDuplicates(b) /\ IndexedInLevels(b)

=============================================================================
