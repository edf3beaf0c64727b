-------------------------- MODULE MarketDataReplay --------------------------
(***************************************************************************)
(* What a participant can know of the books from the messages alone.  Two  *)
(* history variables follow the output of the matching engine:             *)
(*                                                                         *)
(*   mdView   a subscriber that has seen every MdUpdate and applies it to  *)
(*            its own copy of the book (MarketUpdateMsg, protocol.hpp:104) *)
(*   ownView  traders that track the open quantity of their own orders     *)
(*            from their requests and their private OrderConfirms          *)
(*                                                                         *)
(* Orders with no open quantity are left out of both views.                *)
(***************************************************************************)
EXTENDS MatchingEngine

VARIABLES mdView, ownView

replayVars == <<vars, mdView, ownView>>

-----------------------------------------------------------------------------
(* Keep an entry only while it has an open quantity.                       *)
SetOpen(v, id, entry) == IF entry.qty > 0 THEN Put(v, id, entry) ELSE Erase(v, id)

ApplyMd(v, m) ==
  CASE m.updateType \in {"New", "Modify"} ->
         SetOpen(v, m.orderId, [side |-> m.side, price |-> m.price, qty |-> m.qty])
    [] m.updateType = "Trade" /\ m.orderId \in DOMAIN v ->
         SetOpen(v, m.orderId, [v[m.orderId] EXCEPT !.qty = @ - m.qty])
    [] m.updateType = "Cancel" -> Erase(v, m.orderId)
    [] OTHER -> v

(* A confirmation reaches the trader it is addressed to and nobody else;   *)
(* asked is the quantity that trader last requested.                       *)
ApplyConfirm(v, c, asked) ==
  LET key == <<c.traderId, c.orderId>>
  IN  CASE c.type \in {"NewAck", "ModifyAck"} -> SetOpen(v, key, [qty |-> asked])
        [] c.type = "Trade" /\ key \in DOMAIN v ->
             SetOpen(v, key, [qty |-> v[key].qty - c.qty])
        [] c.type = "CancelAck" -> Erase(v, key)
        [] OTHER -> v

(* The views after a sequence of messages.                                 *)
ReplayMd(v, mds) ==
  LET after[n \in 0 .. Len(mds)] == IF n = 0 THEN v ELSE ApplyMd(after[n - 1], mds[n])
  IN  after[Len(mds)]

ReplayConfirms(v, confirms, asked) ==
  LET after[n \in 0 .. Len(confirms)] ==
        IF n = 0 THEN v ELSE ApplyConfirm(after[n - 1], confirms[n], asked)
  IN  after[Len(confirms)]

(* The messages a step appends: a call that starts clears the vectors.     *)
Fresh(old, new) == IF call = "idle" THEN new ELSE SubSeq(new, Len(old) + 1, Len(new))

ObserveStep(asked) ==
  /\ mdView'  = ReplayMd(mdView, Fresh(mdOut, mdOut'))
  /\ ownView' = ReplayConfirms(ownView, Fresh(confirmsOut, confirmsOut'), asked)

ReplayInit == Init /\ mdView = EmptyMap /\ ownView = EmptyMap

ReplayNext ==
  \/ \E t \in Traders, sym \in AllSymbols, side \in Side, p \in Prices, q \in Qtys :
       onOrder(t, sym, side, p, q) /\ ObserveStep(q)
  \/ matchAgainst /\ ObserveStep(0)
  \/ addOrder_return /\ ObserveStep(0)
  \/ \E id \in RequestIds, sym \in AllSymbols, t \in Traders :
       onCancel(id, sym, t) /\ ObserveStep(0)
  \/ \E id \in RequestIds, sym \in AllSymbols, t \in Traders, p \in Prices, q \in Qtys :
       onModify(id, sym, t, p, q) /\ ObserveStep(q)

ReplaySpec == ReplayInit /\ [][ReplayNext]_replayVars

-----------------------------------------------------------------------------
(* The open orders of all books, together with the one being matched.      *)

OpenIds(b) == {id \in DOMAIN b.orderMap : b.orderMap[id].m_quantity > 0}

IncomingOpen == call = "matching" /\ remainingQty > 0

(* Replaying the market data gives the books: the same open orders, each   *)
(* with its side, price and open quantity (the mdOut.push_back calls of    *)
(* order_book.cpp).                                                        *)
MdReplayExact ==
  /\ DOMAIN mdView = (UNION {OpenIds(books[s]) : s \in Symbols})
                       \cup (IF IncomingOpen THEN {incoming.orderId} ELSE {})
  /\ \A s \in Symbols : \A id \in OpenIds(books[s]) :
       mdView[id] = [side  |-> books[s].orderDetails[id].side,
                     price |-> books[s].orderDetails[id].price,
                     qty   |-> books[s].orderMap[id].m_quantity]
  /\ IncomingOpen => mdView[incoming.orderId] =
       [side |-> incoming.side, price |-> incoming.price, qty |-> remainingQty]

(* The private confirmations are enough for every trader to know the open  *)
(* quantity of each of its orders: each fill, cancel and modify is         *)
(* confirmed, once, to the owner (the confirmsOut.push_back calls of       *)
(* order_book.cpp).                                                        *)
OwnerViewExact ==
  /\ DOMAIN ownView =
       (UNION {{<<books[s].orderMap[id].m_traderId, id>> : id \in OpenIds(books[s])} : s \in Symbols})
         \cup (IF IncomingOpen THEN {<<incoming.traderId, incoming.orderId>>} ELSE {})
  /\ \A s \in Symbols : \A id \in OpenIds(books[s]) :
       ownView[<<books[s].orderMap[id].m_traderId, id>>].qty = books[s].orderMap[id].m_quantity
  /\ IncomingOpen => ownView[<<incoming.traderId, incoming.orderId>>].qty = remainingQty

=============================================================================
