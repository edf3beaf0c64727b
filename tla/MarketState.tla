---------------------------- MODULE MarketState ----------------------------
(***************************************************************************)
(* The market state the terminal shows (src/market_state.hpp) and the end  *)
(* of an iteration of the matching thread that refreshes it                *)
(* (thread_matching.cpp:130-150): one row per instrument, read, changed    *)
(* and written back after every request that reaches the engine.  get,     *)
(* update and snapshot hold the mutex, and the matching thread alone       *)
(* writes, so that the refresh is one step; the GUI thread may look at the *)
(* rows at any moment, also between the call of the engine and publish.    *)
(***************************************************************************)
EXTENDS MatchingEngine

CONSTANT MAX_INSTRUMENTS

ASSUME InstrumentsAssumption ==
  /\ MAX_INSTRUMENTS \in Nat /\ AllSymbols \subseteq Nat
  /\ \A s \in Symbols : s < MAX_INSTRUMENTS

VARIABLES
  instruments, \* a row per symbol below MAX_INSTRUMENTS
  pending,     \* {the symbol of the request whose publish is outstanding}
  traded       \* history: what has really been traded in each book

stateVars == <<instruments, pending, traded>>
marketVars == <<vars, stateVars>>

Rows == {s \in AllSymbols : s < MAX_INSTRUMENTS}

InstrumentState ==
  [bestBid |-> 0, bestAsk |-> 0, bidVolume |-> 0, askVolume |-> 0,
   lastTradePrice |-> 0, lastTradeQty |-> 0, totalTradedVolume |-> 0]

MarketInit ==
  /\ Init
  /\ instruments = [s \in Rows |-> InstrumentState]
  /\ pending = {}
  /\ traded = [s \in Symbols |-> [volume |-> 0, price |-> 0, qty |-> 0]]

-----------------------------------------------------------------------------
(* MarketState::get and update.                                            *)
get(sym) == IF sym < MAX_INSTRUMENTS THEN instruments[sym] ELSE InstrumentState

update(sym, row) ==
  instruments' = IF sym < MAX_INSTRUMENTS THEN [instruments EXCEPT ![sym] = row] ELSE instruments

(* The lookups of the engine, 0 for a symbol without a book.               *)
BestPriceOf(sym, side) == IF sym \in Symbols THEN getBestPrice(books[sym], side) ELSE 0
BestQtyOf(sym, side)   == IF sym \in Symbols THEN getBestQty(books[sym], side) ELSE 0

ApplyTrade_LastOnly(row, c) ==
  IF c.type # "Trade" THEN row
  ELSE [row EXCEPT !.lastTradePrice = c.price, !.lastTradeQty = c.qty, !.totalTradedVolume = c.qty]

ApplyTrade_Acks(row, c) ==
  IF c.type \in {"Reject", "ModifyAck"} THEN row
  ELSE [row EXCEPT !.lastTradePrice = c.price, !.lastTradeQty = c.qty,
                   !.totalTradedVolume = Plus(@, c.qty)]

ApplyTrade(row, c) ==
  IF c.type # "Trade" THEN row
  ELSE [row EXCEPT !.lastTradePrice = c.price, !.lastTradeQty = c.qty,
                   !.totalTradedVolume = Plus(@, c.qty)]

(* The row after the loop over the confirmations of the call.              *)
ApplyTrades(row, confirms) ==
  LET after[n \in 0 .. Len(confirms)] ==
        IF n = 0 THEN row ELSE ApplyTrade(after[n - 1], confirms[n])
  IN  after[Len(confirms)]

ApplyBest_TradesOnly(row, sym) ==
  IF \A i \in DOMAIN confirmsOut : confirmsOut[i].type = "CancelAck" THEN row
  ELSE [row EXCEPT !.bestBid = BestPriceOf(sym, "Buy"), !.bidVolume = BestQtyOf(sym, "Buy"),
                   !.bestAsk = BestPriceOf(sym, "Sell"), !.askVolume = BestQtyOf(sym, "Sell")]

ApplyBest(row, sym) ==
  [row EXCEPT !.bestBid = BestPriceOf(sym, "Buy"), !.bidVolume = BestQtyOf(sym, "Buy"),
              !.bestAsk = BestPriceOf(sym, "Sell"), !.askVolume = BestQtyOf(sym, "Sell")]

(* The vectors are cleared before the next request; nobody reads them in   *)
(* between, so that they are cleared here.                                 *)
publish ==
  /\ call = "idle"
  /\ \E sym \in pending :
       update(sym, ApplyBest(ApplyTrades(get(sym), confirmsOut), sym))
  /\ pending' = {}
  /\ confirmsOut' = <<>> /\ mdOut' = <<>>
  /\ UNCHANGED <<books, nextOrderId, call, incoming, remainingQty, traded>>

-----------------------------------------------------------------------------
(* The next request is popped only once the last one has been published.   *)
Request(sym) == pending = {} /\ pending' = {sym} /\ UNCHANGED <<instruments, traded>>

(* What an iteration of matchAgainst uses up of the incoming order has     *)
(* changed hands, at the price of the level it was taken from.  A resting  *)
(* order that was modified to quantity 0 trades nothing, and that counts   *)
(* as a trade; a self-trade does not.                                      *)
RecordTrade ==
  LET b   == books[incoming.symbolId]
      qty == remainingQty - remainingQty'
  IN  traded' = IF b.orderMap[peekFirst(b, incoming)].m_traderId = incoming.traderId THEN traded
                ELSE [traded EXCEPT ![incoming.symbolId] =
                        [volume |-> @.volume + qty, qty |-> qty,
                         price |-> BestLevelPrice(b, incoming)]]

(* The rest of an iteration of the matching thread.                        *)
Finish ==
  \/ matchAgainst /\ RecordTrade /\ UNCHANGED <<instruments, pending>>
  \/ addOrder_return /\ UNCHANGED stateVars
  \/ publish

MarketNext ==
  \/ \E t \in Traders, sym \in AllSymbols, side \in Side, p \in Prices, q \in Qtys :
       Request(sym) /\ onOrder(t, sym, side, p, q)
  \/ \E id \in RequestIds, sym \in AllSymbols, t \in Traders :
       Request(sym) /\ onCancel(id, sym, t)
  \/ \E id \in RequestIds, sym \in AllSymbols, t \in Traders, p \in Prices, q \in Qtys :
       Request(sym) /\ onModify(id, sym, t, p, q)
  \/ Finish

MarketSpec == MarketInit /\ [][MarketNext]_marketVars

-----------------------------------------------------------------------------
(* The best open price of side s of book b, from what is remembered of     *)
(* each order and not from the level maps; 0 when the side is empty.       *)
TrueBest(b, s) ==
  LET open == {b.orderDetails[id].price : id \in Resting(b, s)}
  IN  IF open = {} THEN 0 ELSE CHOOSE p \in open : \A q \in open : ~Better(s, q, p)

(* Between two requests the rows show the best prices of every book, also  *)
(* of a book whose best order was cancelled, filled, cancelled as a        *)
(* self-trade or moved to another price: the one row that publish          *)
(* refreshes is the only one that the request can have changed             *)
(* (thread_matching.cpp:131-149).                                          *)
RowsCurrent ==
  pending = {} =>
    \A s \in Symbols :
      /\ instruments[s].bestBid = TrueBest(books[s], "Buy")
      /\ instruments[s].bestAsk = TrueBest(books[s], "Sell")

(* The volume shown is twice what was traded, in the width of Quantity:    *)
(* each trade is confirmed to both of its sides and both confirmations are *)
(* added (thread_matching.cpp:135-139).                                    *)
VolumeTwice ==
  pending = {} =>
    \A s \in Symbols : instruments[s].totalTradedVolume = (2 * traded[s].volume) % QtyMod

(* The last trade shown is the last one made: of the trades of one call,   *)
(* the one in the last iteration (thread_matching.cpp:137-138).            *)
LastTradeShown ==
  pending = {} =>
    \A s \in Symbols :
      /\ instruments[s].lastTradePrice = traded[s].price
      /\ instruments[s].lastTradeQty = traded[s].qty

(* Nobody but its owner moves an order: a cancel or modify that changes a  *)
(* book is acknowledged, to the trader that had the order in that book     *)
(* before the request, and whatever is refused or not answered leaves      *)
(* every book alone (order_book.cpp:157, 200).                             *)
OwnersOnly ==
  [][pending = {} /\ pending' # {} /\ books' # books =>
       /\ confirmsOut' # <<>>
       /\ \A sym \in pending' : \A i \in DOMAIN confirmsOut' :
            LET c == confirmsOut'[i]
            IN  /\ c.type \in {"CancelAck", "ModifyAck"}
                /\ c.orderId \in DOMAIN books[sym].orderMap
                /\ books[sym].orderMap[c.orderId].m_traderId = c.traderId]_marketVars

=============================================================================
