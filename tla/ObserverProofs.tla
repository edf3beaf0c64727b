--------------------------- MODULE ObserverProofs ---------------------------
(***************************************************************************)
(* Proofs about what can be seen of the books from outside: the rows of    *)
(* the terminal (MarketState) and the messages of the engine               *)
(* (MarketDataReplay), for any number of traders, symbols, prices and      *)
(* orders and any width of Quantity.                                       *)
(***************************************************************************)
EXTENDS MarketState, MarketDataReplay, MatchingEngineProofs

-----------------------------------------------------------------------------
(* The loop over the confirmations (thread_matching.cpp:134-140).          *)

(* r holds the row before the loop and after each of n iterations.         *)
RunTo(r, n, row, s) ==
  r = [m \in 0 .. n |-> IF m = 0 THEN row ELSE ApplyTrade(r[m - 1], s[m])]

(* Every number of iterations has a run.                                   *)
LEMMA RunExists ==
  ASSUME NEW row, NEW s, NEW N \in Nat
  PROVE  \E r : RunTo(r, N, row, s)
<1> SUFFICES ASSUME ~ \E r : RunTo(r, N, row, s) PROVE FALSE
  OBVIOUS
<1> DEFINE T == {n \in Nat : ~ \E r : RunTo(r, n, row, s)}
<1>1. T \in SUBSET Nat /\ N \in T
  OBVIOUS
<1>2. PICK n \in T : \A k \in T : n <= k
  BY <1>1, NatMin, Zenon
<1>3. n \in Nat /\ ~ \E r : RunTo(r, n, row, s)
  BY <1>2
<1>4. n # 0
  <2>1. RunTo([m \in 0 .. 0 |-> row], 0, row, s)
    BY DEF RunTo
  <2> QED  BY <1>3, <2>1
<1>5. n - 1 \in Nat /\ n - 1 \notin T
  BY <1>2, <1>3, <1>4
<1>6. PICK r : RunTo(r, n - 1, row, s)
  BY <1>5
<1> DEFINE q == [m \in 0 .. n |-> IF m < n THEN r[m] ELSE ApplyTrade(r[n - 1], s[n])]
<1>7. \A m \in 0 .. n - 1 : r[m] = IF m = 0 THEN row ELSE ApplyTrade(r[m - 1], s[m])
  BY <1>6 DEF RunTo
<1>8. \A m \in 0 .. n : q[m] = IF m = 0 THEN row ELSE ApplyTrade(q[m - 1], s[m])
  BY <1>3, <1>4, <1>7
<1>9. RunTo(q, n, row, s)
  BY <1>8 DEF RunTo
<1> QED
  BY <1>3, <1>9

(* Two runs agree as far as both go, when they see the same messages.      *)
LEMMA RunUnique ==
  ASSUME NEW row, NEW s, NEW t, NEW N \in Nat, NEW M \in Nat, N <= M,
         \A m \in 1 .. N : s[m] = t[m],
         NEW r, RunTo(r, N, row, s), NEW q, RunTo(q, M, row, t)
  PROVE  r[N] = q[N]
<1> SUFFICES ASSUME r[N] # q[N] PROVE FALSE
  OBVIOUS
<1> DEFINE T == {n \in 0 .. N : r[n] # q[n]}
<1>1. T \in SUBSET Nat /\ N \in T
  OBVIOUS
<1>2. PICK n \in T : \A k \in T : n <= k
  BY <1>1, NatMin, Zenon
<1>3. n \in 0 .. N /\ r[n] # q[n]
  BY <1>2
<1>4. r[n] = IF n = 0 THEN row ELSE ApplyTrade(r[n - 1], s[n])
  BY <1>3 DEF RunTo
<1>5. q[n] = IF n = 0 THEN row ELSE ApplyTrade(q[n - 1], t[n])
  BY <1>3 DEF RunTo
<1>6. n # 0
  BY <1>3, <1>4, <1>5
<1>7. r[n - 1] = q[n - 1] /\ s[n] = t[n]
  BY <1>2, <1>3, <1>6
<1> QED
  BY <1>3, <1>4, <1>5, <1>6, <1>7

(* What the loop computes is where a run ends.                             *)
LEMMA ApplyTradesRun ==
  ASSUME NEW row, NEW s, Len(s) \in Nat
  PROVE  \E r : RunTo(r, Len(s), row, s) /\ ApplyTrades(row, s) = r[Len(s)]
<1> DEFINE a == CHOOSE a : a = [n \in 0 .. Len(s) |-> IF n = 0 THEN row ELSE ApplyTrade(a[n - 1], s[n])]
<1>1. ApplyTrades(row, s) = a[Len(s)]
  BY DEF ApplyTrades
<1>2. a = [n \in 0 .. Len(s) |-> IF n = 0 THEN row ELSE ApplyTrade(a[n - 1], s[n])]
  BY RunExists DEF RunTo
<1> HIDE DEF a
<1> QED
  BY <1>1, <1>2 DEF RunTo

(* The loop over one confirmation more is one iteration more.              *)
LEMMA ApplyTradesAppend ==
  ASSUME NEW row, NEW S, NEW s \in Seq(S), NEW c \in S
  PROVE  /\ ApplyTrades(row, <<>>) = row
         /\ ApplyTrades(row, Append(s, c)) = ApplyTrade(ApplyTrades(row, s), c)
<1> DEFINE t == Append(s, c)
           N == Len(s)
<1>1. /\ N \in Nat /\ Len(t) = N + 1 /\ t[N + 1] = c
      /\ \A m \in 1 .. N : s[m] = t[m]
  OBVIOUS
<1>2. PICK r : RunTo(r, N, row, s) /\ ApplyTrades(row, s) = r[N]
  BY <1>1, ApplyTradesRun
<1> HIDE DEF t, N
<1>3. PICK q : RunTo(q, N + 1, row, t) /\ ApplyTrades(row, t) = q[N + 1]
  BY <1>1, ApplyTradesRun
<1>4. r[N] = q[N]
  BY <1>1, <1>2, <1>3, RunUnique
<1>5. q[N + 1] = ApplyTrade(q[N], c)
  BY <1>1, <1>3 DEF RunTo
<1>6. ApplyTrades(row, <<>>) = row
  <2>1. PICK p : RunTo(p, Len(<<>>), row, <<>>) /\ ApplyTrades(row, <<>>) = p[Len(<<>>)]
    BY ApplyTradesRun
  <2>2. Len(<<>>) = 0
    OBVIOUS
  <2>3. p[0] = row
    BY <2>1, <2>2 DEF RunTo
  <2> QED  BY <2>1, <2>2, <2>3
<1> QED
  BY <1>2, <1>3, <1>4, <1>5, <1>6 DEF t

-----------------------------------------------------------------------------
(* The inductive invariant of the market state.                            *)

(* A row has the fields of InstrumentState.                                *)
IsRow(row) ==
  row = [bestBid |-> row.bestBid, bestAsk |-> row.bestAsk, bidVolume |-> row.bidVolume,
         askVolume |-> row.askVolume, lastTradePrice |-> row.lastTradePrice,
         lastTradeQty |-> row.lastTradeQty, totalTradedVolume |-> row.totalTradedVolume]

(* The row says of trades what VolumeTwice and LastTradeShown ask.         *)
TotalsShown(s, row) ==
  /\ row.totalTradedVolume = (2 * traded[s].volume) % QtyMod
  /\ row.lastTradePrice = traded[s].price
  /\ row.lastTradeQty = traded[s].qty

BestShown(s) ==
  /\ instruments[s].bestBid = TrueBest(books[s], "Buy")
  /\ instruments[s].bestAsk = TrueBest(books[s], "Sell")

RowsTyped ==
  /\ instruments = [s \in Rows |-> instruments[s]]
  /\ \A s \in Symbols : IsRow(instruments[s])
  /\ traded = [s \in Symbols |-> traded[s]]
  /\ \A s \in Symbols : traded[s].volume \in Nat

(* One request at a time; while it is matched it is the pending one.       *)
OnePending ==
  /\ \A x, y \in pending : x = y
  /\ call = "matching" => pending = {incoming.symbolId}

(* The rows of the books that no request is working on are up to date.     *)
Settled == \A s \in Symbols \ pending : BestShown(s) /\ TotalsShown(s, instruments[s])

(* The row of the book a request works on will be, once the confirmations  *)
(* there are by now have been applied to it.                               *)
Unsettled ==
  \A s \in Symbols \cap pending :
    IsRow(ApplyTrades(instruments[s], confirmsOut)) /\ TotalsShown(s, ApplyTrades(instruments[s], confirmsOut))

MInv == IInv /\ RowsTyped /\ OnePending /\ Settled /\ Unsettled

(* Every listed symbol has a row.                                          *)
LEMMA ListedRows == Symbols \subseteq Rows /\ \A s \in Symbols : s < MAX_INSTRUMENTS
BY InstrumentsAssumption, SymbolsAssumption DEF Rows, InstrumentsAssumption

(* What getBestPrice finds in the level maps is what the details say.      *)
LEMMA BestIsTrue ==
  ASSUME NEW b, BookInv(b), NEW s \in Side
  PROVE  getBestPrice(b, s) = TrueBest(b, s)
<1> DEFINE open == {b.orderDetails[id].price : id \in Resting(b, s)}
<1>1. open = DOMAIN b.levels[s]
  <2>1. ASSUME NEW p \in open PROVE p \in DOMAIN b.levels[s]
    <3>1. PICK id \in Resting(b, s) : p = b.orderDetails[id].price
      OBVIOUS
    <3>2. At(b, id, s, p)
      BY <3>1 DEF Resting, At
    <3> QED  BY <3>2, BookFacts DEF InLevel
  <2>2. ASSUME NEW p \in DOMAIN b.levels[s] PROVE p \in open
    <3> DEFINE q == b.levels[s][p].mOrders
    <3>1. q \in Seq(OrderId) /\ q # <<>> /\ \A i \in DOMAIN q : At(b, q[i], s, p)
      BY QueueFacts DEF Holds
    <3> HIDE DEF q
    <3>2. 1 \in DOMAIN q
      BY <3>1
    <3>3. At(b, q[1], s, p)
      BY <3>1, <3>2
    <3> QED  BY <3>3 DEF At, Resting
  <2> QED  BY <2>1, <2>2
<1>2. b.levels[s] = EmptyMap <=> DOMAIN b.levels[s] = {}
  BY DEF BookInv, BookTypeOK, EmptyMap
<1> DEFINE m == b.levels[s]
<1>3. TrueBest(b, s) = IF open = {} THEN 0 ELSE CHOOSE p \in open : \A q \in open : ~Better(s, q, p)
  BY DEF TrueBest
<1>4. getBestPrice(b, s) = IF m = EmptyMap THEN 0
                           ELSE CHOOSE p \in DOMAIN m : \A q \in DOMAIN m : ~Better(s, q, p)
  BY DEF getBestPrice, BestPrice
<1> HIDE DEF open
<1>5. CASE open = {}
  BY <1>1, <1>2, <1>3, <1>4, <1>5
<1>6. CASE open # {}
  <2>1. TrueBest(b, s) = CHOOSE p \in open : \A q \in open : ~Better(s, q, p)
    BY <1>3, <1>6
  <2>2. getBestPrice(b, s) = CHOOSE p \in DOMAIN m : \A q \in DOMAIN m : ~Better(s, q, p)
    BY <1>1, <1>2, <1>4, <1>6
  <2> QED  BY <1>1, <2>1, <2>2
<1> QED
  BY <1>5, <1>6

(* Applying one confirmation to a row.                                     *)
LEMMA ApplyTradeFacts ==
  ASSUME NEW row, IsRow(row), NEW c
  PROVE  /\ c.type # "Trade" => ApplyTrade(row, c) = row
         /\ IsRow(ApplyTrade(row, c))
         /\ c.type = "Trade" =>
              /\ ApplyTrade(row, c).lastTradePrice = c.price
              /\ ApplyTrade(row, c).lastTradeQty = c.qty
              /\ ApplyTrade(row, c).totalTradedVolume = Plus(row.totalTradedVolume, c.qty)
<1> DEFINE a == ApplyTrade(row, c)
<1>1. CASE c.type # "Trade"
  BY <1>1 DEF ApplyTrade
<1>2. CASE c.type = "Trade"
  <2>1. a = [bestBid |-> row.bestBid, bestAsk |-> row.bestAsk, bidVolume |-> row.bidVolume,
             askVolume |-> row.askVolume, lastTradePrice |-> c.price, lastTradeQty |-> c.qty,
             totalTradedVolume |-> Plus(row.totalTradedVolume, c.qty)]
    BY <1>2 DEF ApplyTrade, IsRow
  <2> HIDE DEF a
  <2>2. IsRow(a)
    BY <2>1 DEF IsRow
  <2> QED  BY <1>2, <2>1, <2>2 DEF a
<1> QED
  BY <1>1, <1>2

(* The best prices and volumes are written over, the rest is kept.         *)
LEMMA ApplyBestFacts ==
  ASSUME NEW row, IsRow(row), NEW sym
  PROVE  /\ IsRow(ApplyBest(row, sym))
         /\ ApplyBest(row, sym).bestBid = BestPriceOf(sym, "Buy")
         /\ ApplyBest(row, sym).bestAsk = BestPriceOf(sym, "Sell")
         /\ ApplyBest(row, sym).lastTradePrice = row.lastTradePrice
         /\ ApplyBest(row, sym).lastTradeQty = row.lastTradeQty
         /\ ApplyBest(row, sym).totalTradedVolume = row.totalTradedVolume
<1> DEFINE a == ApplyBest(row, sym)
<1>1. a = [bestBid |-> BestPriceOf(sym, "Buy"), bestAsk |-> BestPriceOf(sym, "Sell"),
           bidVolume |-> BestQtyOf(sym, "Buy"), askVolume |-> BestQtyOf(sym, "Sell"),
           lastTradePrice |-> row.lastTradePrice, lastTradeQty |-> row.lastTradeQty,
           totalTradedVolume |-> row.totalTradedVolume]
  <2> DEFINE bb == BestPriceOf(sym, "Buy")
             ba == BestPriceOf(sym, "Sell")
             bv == BestQtyOf(sym, "Buy")
             av == BestQtyOf(sym, "Sell")
  <2>1. a = [row EXCEPT !.bestBid = bb, !.bidVolume = bv, !.bestAsk = ba, !.askVolume = av]
    BY DEF ApplyBest
  <2> HIDE DEF a, bb, ba, bv, av
  <2>2. DOMAIN a = DOMAIN row
    BY <2>1
  <2>3. DOMAIN row = {"bestBid", "bestAsk", "bidVolume", "askVolume", "lastTradePrice", "lastTradeQty",
                      "totalTradedVolume"}
    BY DEF IsRow
  <2>4. /\ a.bestBid = bb /\ a.bestAsk = ba /\ a.bidVolume = bv /\ a.askVolume = av
        /\ a.lastTradePrice = row.lastTradePrice /\ a.lastTradeQty = row.lastTradeQty
        /\ a.totalTradedVolume = row.totalTradedVolume
    BY <2>1, <2>3
  <2>5. a = [f \in DOMAIN a |-> a[f]]
    BY <2>1
  <2>6. a = [bestBid |-> bb, bestAsk |-> ba, bidVolume |-> bv, askVolume |-> av,
             lastTradePrice |-> row.lastTradePrice, lastTradeQty |-> row.lastTradeQty,
             totalTradedVolume |-> row.totalTradedVolume]
    BY <2>2, <2>3, <2>4, <2>5
  <2> QED  BY <2>6 DEF bb, ba, bv, av
<1> HIDE DEF a
<1>2. IsRow(a)
  BY <1>1 DEF IsRow
<1> QED
  BY <1>1, <1>2 DEF a

(* The market state starts in the invariant.                               *)
LEMMA InitMInv == MarketInit => MInv
<1> SUFFICES ASSUME MarketInit PROVE MInv
  OBVIOUS
<1>1. IInv
  BY InitIInv DEF MarketInit
<1>2. /\ books = [s \in Symbols |-> EmptyBook] /\ call = "idle" /\ pending = {}
      /\ instruments = [s \in Rows |-> InstrumentState]
      /\ traded = [s \in Symbols |-> [volume |-> 0, price |-> 0, qty |-> 0]]
  BY DEF MarketInit, Init
<1>3. RowsTyped
  BY <1>2, ListedRows DEF RowsTyped, IsRow, InstrumentState
<1>4. Settled
  <2>1. \A s \in Side : TrueBest(EmptyBook, s) = 0
    BY DEF TrueBest, Resting, EmptyBook, EmptyMap
  <2>2. 0 % QtyMod = 0
    BY QtyModAssumption
  <2>3. ASSUME NEW s \in Symbols
        PROVE  BestShown(s) /\ TotalsShown(s, instruments[s])
    <3>1. /\ instruments[s] = InstrumentState /\ books[s] = EmptyBook
          /\ traded[s].volume = 0 /\ traded[s].price = 0 /\ traded[s].qty = 0
      BY <1>2, ListedRows
    <3>2. /\ InstrumentState.bestBid = 0 /\ InstrumentState.bestAsk = 0
          /\ InstrumentState.totalTradedVolume = 0
          /\ InstrumentState.lastTradePrice = 0 /\ InstrumentState.lastTradeQty = 0
      BY DEF InstrumentState
    <3> QED  BY <2>1, <2>2, <3>1, <3>2 DEF BestShown, TotalsShown, Side
  <2> QED  BY <2>3 DEF Settled
<1> QED
  BY <1>1, <1>2, <1>3, <1>4 DEF MInv, OnePending, Unsettled

(* At most one confirmation, and not of a trade.                           *)
Quiet(confirms) ==
  confirms = <<>> \/ \E c \in Confirmation : confirms = <<c>> /\ c.type # "Trade"

(* Such confirmations leave a row alone.                                   *)
LEMMA QuietTrades ==
  ASSUME NEW row, IsRow(row), NEW confirms, Quiet(confirms)
  PROVE  ApplyTrades(row, confirms) = row
<1>1. CASE confirms = <<>>
  <2>1. <<>> \in Seq({0})
    OBVIOUS
  <2>2. ApplyTrades(row, <<>>) = row
    BY <2>1, ApplyTradesAppend
  <2> QED  BY <1>1, <2>2
<1>2. ASSUME NEW c \in Confirmation, confirms = <<c>>, c.type # "Trade"
      PROVE  ApplyTrades(row, confirms) = row
  <2> DEFINE none == <<>>
  <2>1. none \in Seq(Confirmation) /\ <<c>> = Append(none, c)
    OBVIOUS
  <2>2. ApplyTrades(row, none) = row
    BY <2>1, ApplyTradesAppend
  <2> HIDE DEF none
  <2>3. ApplyTrades(row, Append(none, c)) = ApplyTrade(ApplyTrades(row, none), c)
    BY <2>1, ApplyTradesAppend
  <2>4. ApplyTrade(row, c) = row
    BY <1>2, ApplyTradeFacts
  <2>5. ApplyTrades(row, <<c>>) = row
    BY <2>1, <2>2, <2>3, <2>4
  <2> QED  BY <1>2, <2>5
<1> QED
  BY <1>1, <1>2 DEF Quiet

(* What the first step of a request does: one confirmation that is not of  *)
(* a trade, and a change of no book but its own.                           *)
LEMMA RequestFacts ==
  ASSUME IInv, NEW sym \in AllSymbols, NEW t \in Traders,
         \/ \E side \in Side, p \in Prices, q \in Qtys : onOrder(t, sym, side, p, q)
         \/ \E id \in RequestIds : onCancel(id, sym, t)
         \/ \E id \in RequestIds, p \in Prices, q \in Qtys : onModify(id, sym, t, p, q)
  PROVE  /\ Quiet(confirmsOut') /\ IInv'
         /\ \A s \in Symbols \ {sym} : books'[s] = books[s]
         /\ call = "idle" /\ (call' = "matching" => incoming'.symbolId = sym)
<1>0. DOMAIN books = Symbols
  BY DEF IInv, TypeOK
<1>1. ASSUME NEW side \in Side, NEW p \in Prices, NEW q \in Qtys, onOrder(t, sym, side, p, q)
      PROVE  /\ Quiet(confirmsOut') /\ UNCHANGED books /\ IInv'
             /\ call = "idle" /\ (call' = "matching" => incoming'.symbolId = sym)
  <2>0. IInv'
    BY <1>1, onOrderIInv
  <2>1. CASE onOrder_Unlisted(t, sym)
    BY <1>1, <2>0, <2>1 DEF onOrder, onOrder_Unlisted, Report, Effect, Quiet
  <2>2. CASE onOrder_Listed(t, sym, side, p, q)
    <3> DEFINE c == OrderConfirm("NewAck", nextOrderId, t, 0, 0, "UnknownOrder")
    <3>1. confirmsOut' = <<c>> /\ UNCHANGED books /\ incoming'.symbolId = sym
      BY <2>2 DEF onOrder_Listed, Report, addOrder_accept, Effect
    <3>2. c \in Confirmation /\ c.type # "Trade"
      BY MaxPriceAssumption, QtyModAssumption
      DEF IInv, TypeOK, OrderConfirm, Confirmation, Prices, Quantity
    <3> QED  BY <1>1, <2>0, <3>1, <3>2 DEF Quiet, onOrder
  <2> QED  BY <1>1, <2>1, <2>2 DEF onOrder
<1>2. ASSUME NEW id \in RequestIds
      PROVE  /\ id \in OrderId
             /\ \A type \in {"CancelAck", "ModifyAck"} :
                  Quiet(<<OrderConfirm(type, id, t, 0, 0, "UnknownOrder")>>)
             /\ Quiet(<<Reject(id, t)>>)
  <2>1. id \in OrderId
    BY MaxOrdersAssumption DEF RequestIds, OrderId
  <2>2. ASSUME NEW type \in {"CancelAck", "ModifyAck", "Reject"}, NEW c, c = OrderConfirm(type, id, t, 0, 0, "UnknownOrder")
        PROVE  Quiet(<<c>>)
    <3>1. c \in Confirmation /\ c.type # "Trade"
      BY <2>1, <2>2, MaxPriceAssumption, QtyModAssumption DEF OrderConfirm, Confirmation, Prices, Quantity
    <3> QED  BY <3>1 DEF Quiet
  <2> QED  BY <2>1, <2>2 DEF Reject
<1>3. ASSUME NEW id \in RequestIds, onCancel(id, sym, t)
      PROVE  /\ Quiet(confirmsOut') /\ IInv' /\ call = "idle" /\ call' = "idle"
             /\ \A s \in Symbols \ {sym} : books'[s] = books[s]
  <2>0. IInv'
    BY <1>3, onCancelIInv
  <2>1. /\ call = "idle" /\ call' = "idle"
        /\ \A s \in Symbols \ {sym} : books'[s] = books[s]
    BY <1>0, <1>3 DEF onCancel
  <2>2. CASE sym \in Symbols
    <3>1. confirmsOut' = cancelOrder(books[sym], id, t).confirms
      BY <1>3, <2>2 DEF onCancel, Report
    <3>2. \/ confirmsOut' = <<Reject(id, t)>>
          \/ confirmsOut' = <<OrderConfirm("CancelAck", id, t, 0, 0, "UnknownOrder")>>
      BY <3>1 DEF cancelOrder, Effect
    <3> QED  BY <1>2, <2>0, <2>1, <3>2
  <2>3. CASE sym \notin Symbols
    BY <1>3, <2>0, <2>1, <2>3 DEF onCancel, Report, Effect, Quiet
  <2> QED  BY <2>2, <2>3
<1>4. ASSUME NEW id \in RequestIds, NEW p \in Prices, NEW q \in Qtys, onModify(id, sym, t, p, q)
      PROVE  /\ Quiet(confirmsOut') /\ IInv' /\ call = "idle" /\ call' = "idle"
             /\ \A s \in Symbols \ {sym} : books'[s] = books[s]
  <2>0. IInv'
    BY <1>4, onModifyIInv
  <2>1. /\ call = "idle" /\ call' = "idle"
        /\ \A s \in Symbols \ {sym} : books'[s] = books[s]
    BY <1>0, <1>4 DEF onModify
  <2>2. CASE sym \in Symbols
    <3>1. confirmsOut' = modifyOrder(books[sym], id, t, p, q).confirms
      BY <1>4, <2>2 DEF onModify, Report
    <3>2. \/ confirmsOut' = <<Reject(id, t)>>
          \/ confirmsOut' = <<OrderConfirm("ModifyAck", id, t, 0, 0, "UnknownOrder")>>
      BY <3>1 DEF modifyOrder, Effect
    <3> QED  BY <1>2, <2>0, <2>1, <3>2
  <2>3. CASE sym \notin Symbols
    BY <1>4, <2>0, <2>1, <2>3 DEF onModify, Report, Effect, Quiet
  <2> QED  BY <2>2, <2>3
<1> QED
  BY <1>1, <1>3, <1>4

(* The first step of a request keeps the invariant.                        *)
LEMMA RequestKeeps ==
  ASSUME MInv, NEW sym \in AllSymbols, NEW t \in Traders, Request(sym),
         \/ \E side \in Side, p \in Prices, q \in Qtys : onOrder(t, sym, side, p, q)
         \/ \E id \in RequestIds : onCancel(id, sym, t)
         \/ \E id \in RequestIds, p \in Prices, q \in Qtys : onModify(id, sym, t, p, q)
  PROVE  MInv'
<1>1. /\ Quiet(confirmsOut') /\ IInv'
      /\ \A s \in Symbols \ {sym} : books'[s] = books[s]
      /\ call = "idle" /\ (call' = "matching" => incoming'.symbolId = sym)
  BY RequestFacts DEF MInv
<1>2. pending = {} /\ pending' = {sym} /\ UNCHANGED <<instruments, traded>>
  BY DEF Request
<1>3. RowsTyped'
  BY <1>2 DEF MInv, RowsTyped
<1>4. OnePending'
  BY <1>1, <1>2 DEF OnePending
<1>5. \A s \in Symbols : BestShown(s) /\ TotalsShown(s, instruments[s]) /\ IsRow(instruments[s])
  BY <1>2 DEF MInv, Settled, RowsTyped
<1>6. Settled'
  <2>1. ASSUME NEW s \in Symbols \ {sym} PROVE BestShown(s)' /\ TotalsShown(s, instruments[s])'
    <3>1. books'[s] = books[s] /\ UNCHANGED <<instruments, traded>>
      BY <1>1, <1>2, <2>1
    <3> QED  BY <1>5, <2>1, <3>1 DEF BestShown, TotalsShown
  <2> QED  BY <1>2, <2>1 DEF Settled
<1>7. Unsettled'
  <2>1. ASSUME NEW s \in Symbols
        PROVE  /\ IsRow(ApplyTrades(instruments'[s], confirmsOut'))
               /\ TotalsShown(s, ApplyTrades(instruments[s], confirmsOut))'
    <3>1. ApplyTrades(instruments'[s], confirmsOut') = instruments[s]
      BY <1>1, <1>2, <1>5, QuietTrades
    <3>2. TotalsShown(s, instruments[s])
      BY <1>5
    <3> QED  BY <1>2, <1>5, <3>1, <3>2 DEF TotalsShown
  <2> QED  BY <2>1 DEF Unsettled
<1> QED
  BY <1>1, <1>3, <1>4, <1>6, <1>7 DEF MInv

(* What an iteration of matchAgainst confirms, and what it uses up.        *)
LEMMA MatchConfirms ==
  ASSUME NEW b, BookInv(b), NEW inc, inc.side \in Side, inc.price \in Prices, inc.orderId \in OrderId,
         inc.traderId \in Traders, NEW rem \in Quantity, CanMatch(b, inc, rem),
         NEW e, e = matchStep(b, inc, rem)
  PROVE  IF b.orderMap[peekFirst(b, inc)].m_traderId = inc.traderId
         THEN e.remaining = rem /\ Quiet(e.confirms) /\ e.confirms # <<>>
         ELSE /\ rem - e.remaining \in Nat
              /\ \E c1, c2 \in Confirmation :
                   /\ e.confirms = <<c1, c2>>
                   /\ \A c \in {c1, c2} :
                        c.type = "Trade" /\ c.price = BestLevelPrice(b, inc) /\ c.qty = rem - e.remaining
<1> DEFINE s  == oppositeSide(inc.side)
           p  == BestLevelPrice(b, inc)
           id == peekFirst(b, inc)
           t  == b.orderMap[id].m_traderId
           q  == b.orderMap[id].m_quantity
           n  == TradeQty(b, inc, rem)
<1>1. s \in Side /\ p \in Prices /\ At(b, id, s, p) /\ b.orderMap[id] \in BookElement
  BY FirstInLine
<1>2. t \in Traders /\ q \in Quantity /\ id \in OrderId
  BY <1>1 DEF BookElement, At, BookInv, BookTypeOK
<1>3. n \in Quantity /\ n \in Nat
  BY <1>2, QtyModAssumption DEF TradeQty, Quantity
<1>4. CASE t = inc.traderId
  <2> DEFINE c == OrderConfirm("CancelAck", id, t, 0, q, "SelfTrade")
  <2>1. c \in Confirmation /\ c.type # "Trade"
    BY <1>2, MaxPriceAssumption DEF OrderConfirm, Confirmation, Prices
  <2>2. e.confirms = <<c>> /\ e.remaining = rem
    BY <1>4 DEF matchStep, selfTradeStep, Effect
  <2> HIDE DEF c
  <2>3. Quiet(e.confirms)
    BY <2>1, <2>2 DEF Quiet
  <2>4. <<c>> # <<>>
    OBVIOUS
  <2> QED  BY <1>4, <2>2, <2>3, <2>4
<1>5. CASE t # inc.traderId
  <2> DEFINE c1 == OrderConfirm("Trade", id, t, p, n, "UnknownOrder")
             c2 == OrderConfirm("Trade", inc.orderId, inc.traderId, p, n, "UnknownOrder")
  <2>1. c1 \in Confirmation /\ c2 \in Confirmation
    BY <1>1, <1>2, <1>3 DEF OrderConfirm, Confirmation
  <2>2. e.confirms = <<c1, c2>> /\ e.remaining = rem - n
    BY <1>5 DEF matchStep, tradeStep, Effect
  <2>3. /\ c1.type = "Trade" /\ c1.price = p /\ c1.qty = n
        /\ c2.type = "Trade" /\ c2.price = p /\ c2.qty = n
    BY DEF OrderConfirm
  <2> HIDE DEF c1, c2, p, n
  <2>4. rem - e.remaining = n
    BY <1>3, <2>2, QtyModAssumption DEF Quantity
  <2> QED  BY <1>3, <1>5, <2>1, <2>2, <2>3, <2>4 DEF p
<1> QED
  BY <1>4, <1>5

(* Applying the two confirmations of a trade of n.                         *)
LEMMA ApplyTradesTwo ==
  ASSUME NEW row, NEW s \in Seq(Confirmation), IsRow(ApplyTrades(row, s)),
         NEW c1 \in Confirmation, NEW c2 \in Confirmation, NEW p, NEW n \in Nat,
         \A c \in {c1, c2} : c.type = "Trade" /\ c.price = p /\ c.qty = n,
         NEW v \in Nat, ApplyTrades(row, s).totalTradedVolume = (2 * v) % QtyMod
  PROVE  LET a == ApplyTrades(row, s \o <<c1, c2>>)
         IN  /\ IsRow(a) /\ a.lastTradePrice = p /\ a.lastTradeQty = n
             /\ a.totalTradedVolume = (2 * (v + n)) % QtyMod
<1> DEFINE s1 == Append(s, c1)
           s2 == Append(s1, c2)
           r  == ApplyTrades(row, s)
           r1 == ApplyTrade(r, c1)
           r2 == ApplyTrade(r1, c2)
<1>1. s1 \in Seq(Confirmation) /\ s \o <<c1, c2>> = s2
  OBVIOUS
<1>2. ApplyTrades(row, s1) = r1
  BY ApplyTradesAppend
<1> HIDE DEF s1
<1>3. ApplyTrades(row, s2) = ApplyTrade(ApplyTrades(row, s1), c2)
  BY <1>1, ApplyTradesAppend
<1>4. ApplyTrades(row, s2) = r2
  BY <1>2, <1>3
<1> HIDE DEF s2, r
<1>5. IsRow(r) /\ r.totalTradedVolume = (2 * v) % QtyMod
  BY DEF r
<1>6. IsRow(r1) /\ r1.totalTradedVolume = Plus(r.totalTradedVolume, n)
  BY <1>5, ApplyTradeFacts
<1> HIDE DEF r1
<1>7. /\ IsRow(r2) /\ r2.totalTradedVolume = Plus(r1.totalTradedVolume, n)
      /\ r2.lastTradePrice = p /\ r2.lastTradeQty = n
  BY <1>6, ApplyTradeFacts
<1> HIDE DEF r2
<1>8. QtyMod \in Nat \ {0}
  BY QtyModAssumption
<1> DEFINE w == 2 * v
<1>9. w \in Int /\ w + n \in Int /\ n \in Int /\ (w + n) + n = 2 * (v + n)
  OBVIOUS
<1> HIDE DEF w
<1>10. r1.totalTradedVolume = (w + n) % QtyMod
  BY <1>5, <1>6, <1>8, <1>9, ModAdd DEF Plus, w
<1>11. r2.totalTradedVolume = ((w + n) + n) % QtyMod
  BY <1>7, <1>8, <1>9, <1>10, ModAdd DEF Plus
<1>12. r2.totalTradedVolume = (2 * (v + n)) % QtyMod
  BY <1>9, <1>11
<1> QED
  BY <1>1, <1>4, <1>7, <1>12

(* An iteration of matchAgainst keeps the invariant.                       *)
LEMMA MatchKeeps ==
  ASSUME MInv, matchAgainst, RecordTrade, UNCHANGED <<instruments, pending>>
  PROVE  MInv'
<1> DEFINE sym == incoming.symbolId
           b   == books[sym]
           e   == matchStep(b, incoming, remainingQty)
           own == b.orderMap[peekFirst(b, incoming)].m_traderId = incoming.traderId
           n   == remainingQty - remainingQty'
           p   == BestLevelPrice(b, incoming)
<1>1. /\ call = "matching" /\ CanMatch(b, incoming, remainingQty)
      /\ books' = [books EXCEPT ![sym] = e.book] /\ remainingQty' = e.remaining
      /\ confirmsOut' = confirmsOut \o e.confirms /\ UNCHANGED <<call, incoming>>
  BY DEF matchAgainst
<1>2. IInv /\ IInv' /\ RowsTyped /\ pending = {sym} /\ pending' = {sym}
  BY <1>1, matchAgainstIInv DEF MInv, OnePending
<1>3. /\ sym \in Symbols /\ incoming.side \in Side /\ incoming.price \in Prices
      /\ incoming.orderId \in OrderId /\ incoming.traderId \in Traders
      /\ remainingQty \in Quantity /\ DOMAIN books = Symbols /\ confirmsOut \in Seq(Confirmation)
  BY <1>1, <1>2 DEF IInv, TypeOK, IncomingOrder
<1>4. BookInv(b)
  BY <1>2, <1>3, SoundBooks DEF IInv
<1>5. traded' = IF own THEN traded
                ELSE [traded EXCEPT ![sym] = [volume |-> @.volume + n, qty |-> n, price |-> p]]
  BY DEF RecordTrade
<1>6. DOMAIN traded = Symbols /\ traded[sym].volume \in Nat
  BY <1>2, <1>3 DEF RowsTyped
<1>7. IF own THEN e.remaining = remainingQty /\ Quiet(e.confirms) /\ e.confirms # <<>>
      ELSE /\ remainingQty - e.remaining \in Nat
           /\ \E c1, c2 \in Confirmation :
                /\ e.confirms = <<c1, c2>>
                /\ \A c \in {c1, c2} :
                     c.type = "Trade" /\ c.price = p /\ c.qty = remainingQty - e.remaining
  BY <1>1, <1>3, <1>4, MatchConfirms
<1> HIDE DEF sym, b, e, own, p
<1>8. ~own => n \in Nat
  BY <1>1, <1>7
<1>9. \A s \in Symbols \ {sym} : books'[s] = books[s] /\ traded'[s] = traded[s]
  BY <1>1, <1>3, <1>5, <1>6
<1>10. RowsTyped'
  <2>1. DOMAIN traded' = Symbols /\ traded' = [s \in Symbols |-> traded'[s]]
    BY <1>2, <1>5 DEF RowsTyped
  <2>2. \A s \in Symbols : traded'[s].volume \in Nat
    <3>1. own => traded' = traded
      BY <1>5
    <3>2. ~own => traded'[sym].volume = traded[sym].volume + n
      BY <1>3, <1>5, <1>6
    <3>3. \A s \in Symbols : traded[s].volume \in Nat
      BY <1>2 DEF RowsTyped
    <3> QED  BY <1>3, <1>6, <1>8, <1>9, <3>1, <3>2, <3>3
  <2> QED  BY <1>2, <2>1, <2>2 DEF RowsTyped
<1>11. OnePending'
  BY <1>1, <1>2 DEF OnePending, sym
<1>12. Settled'
  <2>1. ASSUME NEW s \in Symbols \ {sym} PROVE BestShown(s)' /\ TotalsShown(s, instruments[s])'
    <3>1. BestShown(s) /\ TotalsShown(s, instruments[s])
      BY <1>2, <2>1 DEF MInv, Settled
    <3>2. books'[s] = books[s] /\ traded'[s] = traded[s] /\ UNCHANGED instruments
      BY <1>9, <2>1
    <3> QED  BY <3>1, <3>2 DEF BestShown, TotalsShown
  <2> QED  BY <1>2, <2>1 DEF Settled
<1>13. Unsettled'
  <2> DEFINE row == instruments[sym]
             r   == ApplyTrades(row, confirmsOut)
             r2  == ApplyTrades(row, confirmsOut')
  <2>1. IsRow(r) /\ TotalsShown(sym, r)
    BY <1>2, <1>3 DEF MInv, Unsettled
  <2>2. /\ IsRow(r2) /\ r2.totalTradedVolume = (2 * traded'[sym].volume) % QtyMod
        /\ r2.lastTradePrice = traded'[sym].price /\ r2.lastTradeQty = traded'[sym].qty
    <3>1. CASE own
      <4>1. PICK c \in Confirmation : e.confirms = <<c>> /\ c.type # "Trade"
        BY <1>7, <3>1 DEF Quiet
      <4>2. confirmsOut' = Append(confirmsOut, c)
        BY <1>1, <1>3, <4>1
      <4>3. r2 = ApplyTrade(r, c)
        BY <1>3, <4>2, ApplyTradesAppend
      <4> HIDE DEF r, r2
      <4>4. r2 = r
        BY <2>1, <4>1, <4>3, ApplyTradeFacts
      <4>5. UNCHANGED <<instruments, traded>>
        BY <1>5, <3>1
      <4> QED  BY <2>1, <4>4, <4>5 DEF TotalsShown
    <3>2. CASE ~own
      <4>1. PICK c1 \in Confirmation, c2 \in Confirmation :
              /\ e.confirms = <<c1, c2>>
              /\ \A c \in {c1, c2} : c.type = "Trade" /\ c.price = p /\ c.qty = n
        BY <1>1, <1>7, <3>2
      <4>2. confirmsOut' = confirmsOut \o <<c1, c2>>
        BY <1>1, <4>1
      <4> DEFINE v == traded[sym].volume
      <4>3. v \in Nat /\ r.totalTradedVolume = (2 * v) % QtyMod
        BY <1>6, <2>1 DEF TotalsShown
      <4>4. n \in Nat
        BY <1>8, <3>2
      <4> HIDE DEF row, v, n
      <4>5. /\ IsRow(r2) /\ r2.lastTradePrice = p /\ r2.lastTradeQty = n
            /\ r2.totalTradedVolume = (2 * (v + n)) % QtyMod
        BY <1>3, <2>1, <4>1, <4>2, <4>3, <4>4, ApplyTradesTwo
      <4>6. traded'[sym].volume = v + n /\ traded'[sym].price = p /\ traded'[sym].qty = n
        BY <1>3, <1>5, <1>6, <3>2 DEF v
      <4> HIDE DEF r, r2
      <4> QED  BY <4>5, <4>6
    <3> QED  BY <3>1, <3>2
  <2>3. ASSUME NEW s \in Symbols \cap pending'
        PROVE  /\ IsRow(ApplyTrades(instruments'[s], confirmsOut'))
               /\ TotalsShown(s, ApplyTrades(instruments[s], confirmsOut))'
    <3>1. s = sym /\ instruments'[s] = row
      BY <1>2, <2>3
    <3> QED  BY <2>2, <3>1 DEF TotalsShown
  <2> QED  BY <2>3 DEF Unsettled
<1> QED
  BY <1>2, <1>10, <1>11, <1>12, <1>13 DEF MInv

(* Resting what is left keeps the invariant: the row is still pending.     *)
LEMMA ReturnKeeps ==
  ASSUME MInv, addOrder_return, UNCHANGED stateVars
  PROVE  MInv'
<1> DEFINE sym == incoming.symbolId
<1>1. /\ call = "matching" /\ call' = "idle" /\ UNCHANGED confirmsOut
      /\ \E b : books' = [books EXCEPT ![sym] = b]
  BY DEF addOrder_return, Return
<1>2. UNCHANGED <<instruments, pending, traded>> /\ pending = {sym} /\ IInv'
  BY <1>1, addOrder_returnIInv DEF stateVars, MInv, OnePending
<1>3. DOMAIN books = Symbols
  BY DEF MInv, IInv, TypeOK
<1>4. Settled'
  <2>1. ASSUME NEW s \in Symbols \ {sym} PROVE BestShown(s)' /\ TotalsShown(s, instruments[s])'
    <3>1. BestShown(s) /\ TotalsShown(s, instruments[s])
      BY <1>2, <2>1 DEF MInv, Settled
    <3>2. books'[s] = books[s]
      BY <1>1, <1>3, <2>1
    <3> QED  BY <1>2, <3>1, <3>2 DEF BestShown, TotalsShown
  <2> HIDE DEF sym
  <2> QED  BY <1>2, <2>1 DEF Settled
<1>5. RowsTyped' /\ OnePending'
  BY <1>1, <1>2 DEF MInv, RowsTyped, OnePending
<1>6. Unsettled'
  BY <1>1, <1>2 DEF MInv, Unsettled, TotalsShown
<1> QED
  BY <1>2, <1>4, <1>5, <1>6 DEF MInv

(* The refresh of the row keeps the invariant.                             *)
LEMMA PublishKeeps ==
  ASSUME MInv, publish
  PROVE  MInv'
<1>1. PICK sym \in pending : update(sym, ApplyBest(ApplyTrades(get(sym), confirmsOut), sym))
  BY DEF publish
<1>2. /\ pending' = {} /\ confirmsOut' = <<>> /\ mdOut' = <<>> /\ call = "idle"
      /\ UNCHANGED <<books, nextOrderId, call, incoming, remainingQty, traded>>
  BY DEF publish
<1>3. pending = {sym}
  BY <1>1 DEF MInv, OnePending
<1>4. IInv'
  BY <1>2 DEF MInv, IInv, TypeOK, BooksConsistent, IdsUnique
<1>5. DOMAIN instruments = Rows
  BY DEF MInv, RowsTyped
<1> DEFINE row == ApplyTrades(get(sym), confirmsOut)
           new == ApplyBest(row, sym)
<1>6. \A s \in Symbols \ {sym} : instruments'[s] = instruments[s]
  BY <1>1, <1>5 DEF update
<1>7. ASSUME sym \in Symbols
      PROVE  /\ instruments'[sym] = new /\ IsRow(new) /\ TotalsShown(sym, new)
             /\ new.bestBid = TrueBest(books[sym], "Buy") /\ new.bestAsk = TrueBest(books[sym], "Sell")
  <2>1. sym < MAX_INSTRUMENTS /\ sym \in Rows
    BY <1>7, ListedRows
  <2>2. instruments'[sym] = new /\ row = ApplyTrades(instruments[sym], confirmsOut)
    BY <1>1, <1>5, <2>1 DEF update, get
  <2>3. IsRow(row) /\ TotalsShown(sym, row)
    BY <1>3, <1>7, <2>2 DEF MInv, Unsettled
  <2> HIDE DEF row
  <2>4. /\ IsRow(new) /\ new.bestBid = BestPriceOf(sym, "Buy") /\ new.bestAsk = BestPriceOf(sym, "Sell")
        /\ new.lastTradePrice = row.lastTradePrice /\ new.lastTradeQty = row.lastTradeQty
        /\ new.totalTradedVolume = row.totalTradedVolume
    BY <2>3, ApplyBestFacts
  <2>5. BookInv(books[sym])
    BY <1>7, SoundBooks DEF MInv, IInv
  <2>6. \A s \in Side : BestPriceOf(sym, s) = TrueBest(books[sym], s)
    BY <1>7, <2>5, BestIsTrue DEF BestPriceOf
  <2> HIDE DEF new
  <2> QED  BY <2>2, <2>3, <2>4, <2>6 DEF TotalsShown, Side
<1> HIDE DEF new
<1>8. RowsTyped'
  <2>1. instruments' = [s \in Rows |-> instruments'[s]]
    BY <1>1 DEF update, MInv, RowsTyped
  <2>2. \A s \in Symbols : IsRow(instruments'[s])
    <3>1. \A s \in Symbols : IsRow(instruments[s])
      BY DEF MInv, RowsTyped
    <3> QED  BY <1>6, <1>7, <3>1
  <2> QED  BY <1>2, <2>1, <2>2 DEF MInv, RowsTyped
<1>9. Settled'
  <2>1. ASSUME NEW s \in Symbols PROVE BestShown(s)' /\ TotalsShown(s, instruments[s])'
    <3>1. ASSUME s = sym PROVE BestShown(s)' /\ TotalsShown(s, instruments[s])'
      <4>1. /\ instruments'[s] = new /\ TotalsShown(s, new)
            /\ new.bestBid = TrueBest(books[s], "Buy") /\ new.bestAsk = TrueBest(books[s], "Sell")
        BY <1>7, <3>1
      <4> QED  BY <1>2, <4>1 DEF BestShown, TotalsShown
    <3>2. ASSUME s # sym PROVE BestShown(s)' /\ TotalsShown(s, instruments[s])'
      <4>1. BestShown(s) /\ TotalsShown(s, instruments[s])
        BY <1>3, <3>2 DEF MInv, Settled
      <4>2. instruments'[s] = instruments[s]
        BY <1>6, <3>2
      <4> QED  BY <1>2, <4>1, <4>2 DEF BestShown, TotalsShown
    <3> QED  BY <3>1, <3>2
  <2> QED  BY <2>1 DEF Settled
<1> QED
  BY <1>2, <1>4, <1>8, <1>9 DEF MInv, OnePending, Unsettled

(* Every step of the matching thread keeps the invariant.                  *)
LEMMA NextMInv == MInv /\ [MarketNext]_marketVars => MInv'
<1> SUFFICES ASSUME MInv, [MarketNext]_marketVars PROVE MInv'
  OBVIOUS
<1>1. ASSUME NEW t \in Traders, NEW sym \in AllSymbols, NEW side \in Side, NEW p \in Prices, NEW q \in Qtys,
             Request(sym), onOrder(t, sym, side, p, q)
      PROVE  MInv'
  BY <1>1, RequestKeeps
<1>2. ASSUME NEW id \in RequestIds, NEW sym \in AllSymbols, NEW t \in Traders,
             Request(sym), onCancel(id, sym, t)
      PROVE  MInv'
  BY <1>2, RequestKeeps
<1>3. ASSUME NEW id \in RequestIds, NEW sym \in AllSymbols, NEW t \in Traders, NEW p \in Prices, NEW q \in Qtys,
             Request(sym), onModify(id, sym, t, p, q)
      PROVE  MInv'
  BY <1>3, RequestKeeps
<1>4. CASE Finish
  BY <1>4, MatchKeeps, ReturnKeeps, PublishKeeps DEF Finish
<1>5. CASE UNCHANGED marketVars
  <2>1. UNCHANGED vars /\ UNCHANGED <<instruments, pending, traded>>
    BY <1>5 DEF marketVars, stateVars
  <2>2. IInv'
    BY <2>1, NextIInv DEF MInv
  <2>3. UNCHANGED <<books, call, incoming, confirmsOut>>
    BY <2>1 DEF vars
  <2> QED
    BY <2>1, <2>2, <2>3 DEF MInv, RowsTyped, OnePending, Settled, Unsettled, BestShown, TotalsShown
<1> QED
  BY <1>1, <1>2, <1>3, <1>4, <1>5 DEF MarketNext

(* The rows and the books are always in step, up to the confirmations not  *)
(* yet applied.                                                            *)
THEOREM MarketInvariant == MarketSpec => []MInv
BY InitMInv, NextMInv, PTL DEF MarketSpec

(* Between two requests the rows show the best prices of every book,       *)
(* whatever the last request did to it (thread_matching.cpp:131-149).      *)
THEOREM RowsStayCurrent == MarketSpec => []RowsCurrent
<1>1. MInv => RowsCurrent
  BY DEF MInv, Settled, RowsCurrent, BestShown
<1> QED
  BY <1>1, MarketInvariant, PTL

(* Between two requests the volume shown is twice what was traded, modulo  *)
(* the width of Quantity: for every width, and however many trades a       *)
(* request makes (thread_matching.cpp:135-139).                            *)
THEOREM VolumeIsDoubled == MarketSpec => []VolumeTwice
<1>1. MInv => VolumeTwice
  BY DEF MInv, Settled, VolumeTwice, TotalsShown
<1> QED
  BY <1>1, MarketInvariant, PTL

(* Between two requests the last trade shown is the last one made          *)
(* (thread_matching.cpp:137-138).                                          *)
THEOREM LastTradeIsShown == MarketSpec => []LastTradeShown
<1>1. MInv => LastTradeShown
  BY DEF MInv, Settled, LastTradeShown, TotalsShown
<1> QED
  BY <1>1, MarketInvariant, PTL

-----------------------------------------------------------------------------
(* OwnersOnly.                                                             *)

(* A cancel or modify that the trader may not make leaves the book alone;  *)
(* any other is acknowledged to the trader, and to nobody else.            *)
LEMMA OwnerAcked ==
  ASSUME NEW b, NEW id, NEW t, NEW p, NEW q
  PROVE  /\ LET e == cancelOrder(b, id, t)
            IN  e.book # b => /\ Owns(b, id, t)
                              /\ e.confirms = <<OrderConfirm("CancelAck", id, t, 0, 0, "UnknownOrder")>>
         /\ LET e == modifyOrder(b, id, t, p, q)
            IN  e.book # b => /\ Owns(b, id, t)
                              /\ e.confirms = <<OrderConfirm("ModifyAck", id, t, 0, 0, "UnknownOrder")>>
<1>1. CASE Owns(b, id, t)
  BY <1>1 DEF cancelOrder, modifyOrder, Effect
<1>2. CASE ~Owns(b, id, t)
  BY <1>2 DEF cancelOrder, modifyOrder, Effect
<1> QED
  BY <1>1, <1>2

(* The request that moves an order comes from its owner.                   *)
LEMMA OwnersOnlyStep ==
  ASSUME IInv, MarketNext, pending = {}, pending' # {}, books' # books,
         NEW s \in pending'
  PROVE  /\ confirmsOut' # <<>>
         /\ \A i \in DOMAIN confirmsOut' :
              LET c == confirmsOut'[i]
              IN  /\ c.type \in {"CancelAck", "ModifyAck"}
                  /\ c.orderId \in DOMAIN books[s].orderMap
                  /\ books[s].orderMap[c.orderId].m_traderId = c.traderId
<1> DEFINE Goal == /\ confirmsOut' # <<>>
                   /\ \A i \in DOMAIN confirmsOut' :
                        LET c == confirmsOut'[i]
                        IN  /\ c.type \in {"CancelAck", "ModifyAck"}
                            /\ c.orderId \in DOMAIN books[s].orderMap
                            /\ books[s].orderMap[c.orderId].m_traderId = c.traderId
<1>0. books = [r \in Symbols |-> books[r]]
  BY DEF IInv, TypeOK
<1>1. ASSUME NEW id, NEW t, NEW p, NEW q, NEW sym, NEW e,
             sym \in Symbols => e = cancelOrder(books[sym], id, t) \/ e = modifyOrder(books[sym], id, t, p, q),
             books' = IF sym \in Symbols THEN [books EXCEPT ![sym] = e.book] ELSE books,
             confirmsOut' = e.confirms, pending' = {sym}
      PROVE  Goal
  <2>1. s = sym /\ sym \in Symbols
    BY <1>1
  <2>2. e.book # books[sym]
    BY <1>0, <1>1, <2>1
  <2> DEFINE b == books[sym]
  <2>8. (e = cancelOrder(b, id, t) \/ e = modifyOrder(b, id, t, p, q)) /\ e.book # b
    BY <1>1, <2>1, <2>2
  <2> HIDE DEF b
  <2>3. PICK type \in {"CancelAck", "ModifyAck"} :
          Owns(b, id, t) /\ e.confirms = <<OrderConfirm(type, id, t, 0, 0, "UnknownOrder")>>
    <3>1. CASE e = cancelOrder(b, id, t)
      BY <2>8, <3>1, OwnerAcked
    <3>2. CASE e = modifyOrder(b, id, t, p, q)
      BY <2>8, <3>2, OwnerAcked
    <3> QED  BY <2>8, <3>1, <3>2
  <2> DEFINE c == OrderConfirm(type, id, t, 0, 0, "UnknownOrder")
  <2>4. c.type = type /\ c.orderId = id /\ c.traderId = t
    BY DEF OrderConfirm
  <2>5. confirmsOut' = <<c>>
    BY <1>1, <2>3
  <2> HIDE DEF c
  <2>6. confirmsOut' # <<>> /\ \A i \in DOMAIN confirmsOut' : confirmsOut'[i] = c
    BY <2>5
  <2> QED  BY <2>1, <2>3, <2>4, <2>6 DEF Owns, b
<1>2. ASSUME NEW t \in Traders, NEW sym \in AllSymbols, NEW side \in Side, NEW p \in Prices, NEW q \in Qtys,
             onOrder(t, sym, side, p, q)
      PROVE  FALSE
  BY <1>2 DEF onOrder, onOrder_Listed, onOrder_Unlisted
<1>3. ASSUME NEW id \in RequestIds, NEW sym \in AllSymbols, NEW t \in Traders,
             Request(sym), onCancel(id, sym, t)
      PROVE  Goal
  <2> DEFINE e == IF sym \in Symbols THEN cancelOrder(books[sym], id, t)
                                     ELSE Effect(EmptyBook, 0, <<>>, <<>>)
  <2>1. /\ books' = IF sym \in Symbols THEN [books EXCEPT ![sym] = e.book] ELSE books
        /\ confirmsOut' = e.confirms /\ pending' = {sym}
    BY <1>3 DEF onCancel, Report, Request
  <2>2. sym \in Symbols => e = cancelOrder(books[sym], id, t)
    OBVIOUS
  <2> HIDE DEF e, Goal
  <2> QED  BY <1>1, <2>1, <2>2
<1>4. ASSUME NEW id \in RequestIds, NEW sym \in AllSymbols, NEW t \in Traders, NEW p \in Prices, NEW q \in Qtys,
             Request(sym), onModify(id, sym, t, p, q)
      PROVE  Goal
  <2> DEFINE e == IF sym \in Symbols THEN modifyOrder(books[sym], id, t, p, q)
                                     ELSE Effect(EmptyBook, 0, <<>>, <<>>)
  <2>1. /\ books' = IF sym \in Symbols THEN [books EXCEPT ![sym] = e.book] ELSE books
        /\ confirmsOut' = e.confirms /\ pending' = {sym}
    BY <1>4 DEF onModify, Report, Request
  <2>2. sym \in Symbols => e = modifyOrder(books[sym], id, t, p, q)
    OBVIOUS
  <2> HIDE DEF e, Goal
  <2> QED  BY <1>1, <2>1, <2>2
<1>5. ~Finish
  BY DEF Finish, stateVars, publish
<1> HIDE DEF Goal
<1>6. Goal
  BY <1>2, <1>3, <1>4, <1>5 DEF MarketNext
<1> QED
  BY <1>6 DEF Goal

(* Nobody but its owner cancels or modifies an order: whatever else names  *)
(* the order is refused and leaves every book as it is                     *)
(* (order_book.cpp:157, 200).                                              *)
THEOREM OwnersAlone == MarketSpec => OwnersOnly
<1>1. ASSUME MInv, [MarketNext]_marketVars
      PROVE  [pending = {} /\ pending' # {} /\ books' # books =>
                /\ confirmsOut' # <<>>
                /\ \A sym \in pending' : \A i \in DOMAIN confirmsOut' :
                     LET c == confirmsOut'[i]
                     IN  /\ c.type \in {"CancelAck", "ModifyAck"}
                         /\ c.orderId \in DOMAIN books[sym].orderMap
                         /\ books[sym].orderMap[c.orderId].m_traderId = c.traderId]_marketVars
  <2> SUFFICES ASSUME MarketNext, pending = {}, pending' # {}, books' # books
               PROVE  /\ confirmsOut' # <<>>
                      /\ \A sym \in pending' : \A i \in DOMAIN confirmsOut' :
                           LET c == confirmsOut'[i]
                           IN  /\ c.type \in {"CancelAck", "ModifyAck"}
                               /\ c.orderId \in DOMAIN books[sym].orderMap
                               /\ books[sym].orderMap[c.orderId].m_traderId = c.traderId
    BY <1>1
  <2> QED  BY <1>1, OwnersOnlyStep DEF MInv
<1> QED
  BY <1>1, MarketInvariant, PTL DEF MarketSpec, OwnersOnly

-----------------------------------------------------------------------------
(* What the messages of the engine tell.                                   *)

(* A step appends two messages at most: the public ones.                   *)
LEMMA ReplayMdFew ==
  ASSUME NEW v, NEW s, Len(s) \in {0, 1, 2}
  PROVE  ReplayMd(v, s) = IF Len(s) = 0 THEN v
           ELSE IF Len(s) = 1 THEN ApplyMd(v, s[1]) ELSE ApplyMd(ApplyMd(v, s[1]), s[2])
<1> DEFINE N == Len(s)
           a == CHOOSE a : a = [n \in 0 .. N |-> IF n = 0 THEN v ELSE ApplyMd(a[n - 1], s[n])]
           w == [n \in 0 .. N |-> IF n = 0 THEN v ELSE IF n = 1 THEN ApplyMd(v, s[1])
                                  ELSE ApplyMd(ApplyMd(v, s[1]), s[2])]
<1>1. ReplayMd(v, s) = a[N]
  BY DEF ReplayMd
<1> HIDE DEF N
<1>2. N \in {0, 1, 2}
  BY DEF N
<1>3. w = [n \in 0 .. N |-> IF n = 0 THEN v ELSE ApplyMd(w[n - 1], s[n])]
  BY <1>2
<1>4. a = [n \in 0 .. N |-> IF n = 0 THEN v ELSE ApplyMd(a[n - 1], s[n])]
  BY <1>3
<1> HIDE DEF a
<1>5. a[0] = v /\ (N > 0 => a[1] = ApplyMd(a[0], s[1])) /\ (N > 1 => a[2] = ApplyMd(a[1], s[2]))
  BY <1>2, <1>4
<1>6. ReplayMd(v, s) = IF N = 0 THEN v ELSE IF N = 1 THEN ApplyMd(v, s[1]) ELSE ApplyMd(ApplyMd(v, s[1]), s[2])
  BY <1>1, <1>2, <1>5
<1> QED
  BY <1>6 DEF N

(* The same of the private ones.                                           *)
LEMMA ReplayConfirmsFew ==
  ASSUME NEW v, NEW s, Len(s) \in {0, 1, 2}, NEW asked
  PROVE  ReplayConfirms(v, s, asked) = IF Len(s) = 0 THEN v
           ELSE IF Len(s) = 1 THEN ApplyConfirm(v, s[1], asked) ELSE ApplyConfirm(ApplyConfirm(v, s[1], asked), s[2], asked)
<1> DEFINE N == Len(s)
           a == CHOOSE a : a = [n \in 0 .. N |-> IF n = 0 THEN v ELSE ApplyConfirm(a[n - 1], s[n], asked)]
           w == [n \in 0 .. N |-> IF n = 0 THEN v ELSE IF n = 1 THEN ApplyConfirm(v, s[1], asked)
                                  ELSE ApplyConfirm(ApplyConfirm(v, s[1], asked), s[2], asked)]
<1>1. ReplayConfirms(v, s, asked) = a[N]
  BY DEF ReplayConfirms
<1> HIDE DEF N
<1>2. N \in {0, 1, 2}
  BY DEF N
<1>3. w = [n \in 0 .. N |-> IF n = 0 THEN v ELSE ApplyConfirm(w[n - 1], s[n], asked)]
  BY <1>2
<1>4. a = [n \in 0 .. N |-> IF n = 0 THEN v ELSE ApplyConfirm(a[n - 1], s[n], asked)]
  BY <1>3
<1> HIDE DEF a
<1>5. a[0] = v /\ (N > 0 => a[1] = ApplyConfirm(a[0], s[1], asked)) /\ (N > 1 => a[2] = ApplyConfirm(a[1], s[2], asked))
  BY <1>2, <1>4
<1>6. ReplayConfirms(v, s, asked) = IF N = 0 THEN v ELSE IF N = 1 THEN ApplyConfirm(v, s[1], asked) ELSE ApplyConfirm(ApplyConfirm(v, s[1], asked), s[2], asked)
  BY <1>1, <1>2, <1>5
<1> QED
  BY <1>6 DEF N

(* The messages a step of matchAgainst appends are its own.                *)
LEMMA FreshTail ==
  ASSUME NEW S, NEW s \in Seq(S), NEW t \in Seq(S), call # "idle"
  PROVE  Fresh(s, s \o t) = t
BY DEF Fresh

(* An open order, as both views see it.                                    *)
Open(id, trader, side, price, qty) ==
  [id |-> id, trader |-> trader, side |-> side, price |-> price, qty |-> qty]

LiveIn(b) ==
  {Open(id, b.orderMap[id].m_traderId, b.orderDetails[id].side, b.orderDetails[id].price,
        b.orderMap[id].m_quantity) : id \in OpenIds(b)}

(* The open orders that rest in the books, and those together with the     *)
(* order being matched.                                                    *)
BooksLive == UNION {LiveIn(books[s]) : s \in Symbols}
Matching  == Open(incoming.orderId, incoming.traderId, incoming.side, incoming.price, remainingQty)
Live      == BooksLive \cup (IF IncomingOpen THEN {Matching} ELSE {})

(* Order id is gone; order o is new, or has taken the place of the one     *)
(* with its id.                                                            *)
Drop(L, id) == {o \in L : o.id # id}
Renew(L, o) == Drop(L, o.id) \cup (IF o.qty > 0 THEN {o} ELSE {})

(* A view shows exactly the orders of L.                                   *)
MdShows(v, L) ==
  /\ DOMAIN v = {o.id : o \in L}
  /\ \A o \in L : v[o.id] = [side |-> o.side, price |-> o.price, qty |-> o.qty]
OwnShows(v, L) ==
  /\ DOMAIN v = {<<o.trader, o.id>> : o \in L}
  /\ \A o \in L : v[<<o.trader, o.id>>].qty = o.qty

(* The fields of an open order.                                            *)
LEMMA OpenFields ==
  ASSUME NEW id, NEW t, NEW s, NEW p, NEW q
  PROVE  LET o == Open(id, t, s, p, q)
         IN  o.id = id /\ o.trader = t /\ o.side = s /\ o.price = p /\ o.qty = q
BY DEF Open

(* The two invariants in these terms.                                      *)
LEMMA ViewsMean ==
  /\ MdReplayExact <=> MdShows(mdView, Live)
  /\ OwnerViewExact <=> OwnShows(ownView, Live)
<1> DEFINE R(s, id) == Open(id, books[s].orderMap[id].m_traderId, books[s].orderDetails[id].side,
                            books[s].orderDetails[id].price, books[s].orderMap[id].m_quantity)
<1>1. \A o : o \in Live <=> \/ \E s \in Symbols : \E id \in OpenIds(books[s]) : o = R(s, id)
                            \/ IncomingOpen /\ o = Matching
  BY DEF Live, BooksLive, LiveIn
<1>2. \A s, id : /\ R(s, id).id = id /\ R(s, id).trader = books[s].orderMap[id].m_traderId
                 /\ R(s, id).side = books[s].orderDetails[id].side
                 /\ R(s, id).price = books[s].orderDetails[id].price
                 /\ R(s, id).qty = books[s].orderMap[id].m_quantity
  BY OpenFields
<1>3. /\ Matching.id = incoming.orderId /\ Matching.trader = incoming.traderId
      /\ Matching.side = incoming.side /\ Matching.price = incoming.price /\ Matching.qty = remainingQty
  BY OpenFields DEF Matching
<1> HIDE DEF R
<1>4. {o.id : o \in Live} = (UNION {OpenIds(books[s]) : s \in Symbols})
                              \cup (IF IncomingOpen THEN {incoming.orderId} ELSE {})
  <2> DEFINE A == {o.id : o \in Live}
             I == IF IncomingOpen THEN {incoming.orderId} ELSE {}
             B == UNION {OpenIds(books[s]) : s \in Symbols}
  <2>1. ASSUME NEW o \in Live PROVE o.id \in B \cup I
    <3>1. ASSUME NEW s \in Symbols, NEW id \in OpenIds(books[s]), o = R(s, id) PROVE o.id \in B
      BY <1>2, <3>1
    <3>2. ASSUME IncomingOpen, o = Matching PROVE o.id \in I
      BY <1>3, <3>2
    <3> HIDE DEF B, I
    <3> QED  BY <1>1, <3>1, <3>2
  <2>2. ASSUME NEW id \in B PROVE id \in A
    <3>1. PICK s \in Symbols : id \in OpenIds(books[s])
      OBVIOUS
    <3>2. R(s, id) \in Live /\ id = R(s, id).id
      BY <1>1, <1>2, <3>1
    <3> QED  BY <3>2
  <2>3. ASSUME NEW id \in I PROVE id \in A
    <3>1. IncomingOpen /\ id = Matching.id
      BY <1>3
    <3> HIDE DEF I
    <3>2. Matching \in Live
      BY <1>1, <3>1
    <3> QED  BY <3>1, <3>2
  <2> HIDE DEF B, I
  <2>4. A = B \cup I
    BY <2>1, <2>2, <2>3
  <2> QED  BY <2>4, Zenon DEF A, B, I
<1>5. {<<o.trader, o.id>> : o \in Live}
        = (UNION {{<<books[s].orderMap[id].m_traderId, id>> : id \in OpenIds(books[s])} : s \in Symbols})
            \cup (IF IncomingOpen THEN {<<incoming.traderId, incoming.orderId>>} ELSE {})
  <2> DEFINE A == {<<o.trader, o.id>> : o \in Live}
             I == IF IncomingOpen THEN {<<incoming.traderId, incoming.orderId>>} ELSE {}
             B == UNION {{<<books[s].orderMap[id].m_traderId, id>> : id \in OpenIds(books[s])} : s \in Symbols}
  <2>1. ASSUME NEW o \in Live PROVE <<o.trader, o.id>> \in B \cup I
    <3>1. ASSUME NEW s \in Symbols, NEW id \in OpenIds(books[s]), o = R(s, id) PROVE <<o.trader, o.id>> \in B
      <4>1. o.trader = books[s].orderMap[id].m_traderId /\ o.id = id
        BY <1>2, <3>1
      <4> QED  BY <4>1
    <3>2. ASSUME IncomingOpen, o = Matching PROVE <<o.trader, o.id>> \in I
      BY <1>3, <3>2
    <3> HIDE DEF B, I
    <3> QED  BY <1>1, <3>1, <3>2
  <2>2. ASSUME NEW k \in B PROVE k \in A
    <3>1. PICK s \in Symbols : \E id \in OpenIds(books[s]) : k = <<books[s].orderMap[id].m_traderId, id>>
      OBVIOUS
    <3>2. PICK id \in OpenIds(books[s]) : k = <<books[s].orderMap[id].m_traderId, id>>
      BY <3>1
    <3>3. R(s, id) \in Live /\ k = <<R(s, id).trader, R(s, id).id>>
      BY <1>1, <1>2, <3>2
    <3> QED  BY <3>3
  <2>3. ASSUME NEW k \in I PROVE k \in A
    <3>1. IncomingOpen /\ k = <<Matching.trader, Matching.id>>
      BY <1>3
    <3> HIDE DEF I
    <3>2. Matching \in Live
      BY <1>1, <3>1
    <3> QED  BY <3>1, <3>2
  <2> HIDE DEF B, I
  <2>4. A = B \cup I
    BY <2>1, <2>2, <2>3
  <2> QED  BY <2>4, Zenon DEF A, B, I
<1>6. MdReplayExact <=> MdShows(mdView, Live)
  <2>1. (\A o \in Live : mdView[o.id] = [side |-> o.side, price |-> o.price, qty |-> o.qty])
          <=> /\ \A s \in Symbols : \A id \in OpenIds(books[s]) :
                   mdView[id] = [side  |-> books[s].orderDetails[id].side,
                                 price |-> books[s].orderDetails[id].price,
                                 qty   |-> books[s].orderMap[id].m_quantity]
              /\ IncomingOpen => mdView[incoming.orderId] =
                   [side |-> incoming.side, price |-> incoming.price, qty |-> remainingQty]
    <3> DEFINE P(o) == mdView[o.id] = [side |-> o.side, price |-> o.price, qty |-> o.qty]
    <3>1. \A s, id : P(R(s, id)) <=>
            mdView[id] = [side  |-> books[s].orderDetails[id].side,
                          price |-> books[s].orderDetails[id].price,
                          qty   |-> books[s].orderMap[id].m_quantity]
      BY <1>2
    <3>2. P(Matching) <=> mdView[incoming.orderId] =
                            [side |-> incoming.side, price |-> incoming.price, qty |-> remainingQty]
      BY <1>3
    <3> HIDE DEF P
    <3>3. (\A o \in Live : P(o)) <=> /\ \A s \in Symbols : \A id \in OpenIds(books[s]) : P(R(s, id))
                                     /\ IncomingOpen => P(Matching)
      BY <1>1
    <3>4. (\A o \in Live : P(o)) <=> (\A o \in Live : mdView[o.id] = [side |-> o.side, price |-> o.price, qty |-> o.qty])
      BY DEF P
    <3> QED  BY <3>1, <3>2, <3>3, <3>4
  <2> QED  BY <1>4, <2>1 DEF MdReplayExact, MdShows
<1>7. OwnerViewExact <=> OwnShows(ownView, Live)
  <2>1. (\A o \in Live : ownView[<<o.trader, o.id>>].qty = o.qty)
          <=> /\ \A s \in Symbols : \A id \in OpenIds(books[s]) :
                   ownView[<<books[s].orderMap[id].m_traderId, id>>].qty = books[s].orderMap[id].m_quantity
              /\ IncomingOpen => ownView[<<incoming.traderId, incoming.orderId>>].qty = remainingQty
    BY <1>1, <1>2, <1>3
  <2> QED  BY <1>5, <2>1 DEF OwnerViewExact, OwnShows
<1> QED
  BY <1>6, <1>7

(* Erasing an order from the public view.                                  *)
LEMMA MdErase ==
  ASSUME NEW v, NEW L, MdShows(v, L), NEW id
  PROVE  MdShows(Erase(v, id), Drop(L, id))
<1> DEFINE w == Erase(v, id)
<1>1. DOMAIN w = DOMAIN v \ {id} /\ \A x \in DOMAIN v \ {id} : w[x] = v[x]
  BY EraseFacts
<1> HIDE DEF w
<1>2. DOMAIN w = {o.id : o \in Drop(L, id)}
  BY <1>1 DEF MdShows, Drop
<1>3. ASSUME NEW o \in Drop(L, id)
      PROVE  w[o.id] = [side |-> o.side, price |-> o.price, qty |-> o.qty]
  BY <1>1 DEF MdShows, Drop
<1>4. MdShows(w, Drop(L, id))
  BY <1>2, <1>3 DEF MdShows
<1> QED
  BY <1>4 DEF w

(* Setting one.                                                            *)
LEMMA MdSet ==
  ASSUME NEW v, NEW L, MdShows(v, L), NEW o, NEW id, id = o.id,
         NEW entry, entry = [side |-> o.side, price |-> o.price, qty |-> o.qty]
  PROVE  MdShows(SetOpen(v, id, entry), Renew(L, o))
<1>0. entry.qty = o.qty
  OBVIOUS
<1>1. CASE o.qty > 0
  <2> DEFINE w == Put(v, id, entry)
             K == Drop(L, id) \cup {o}
  <2>1. SetOpen(v, id, entry) = w /\ Renew(L, o) = K
    BY <1>0, <1>1 DEF SetOpen, Renew
  <2>2. DOMAIN w = DOMAIN v \cup {id} /\ w[id] = entry /\ \A x \in DOMAIN v \ {id} : w[x] = v[x]
    BY DEF Put
  <2> HIDE DEF w
  <2>3. DOMAIN w = {x.id : x \in K}
    <3>1. \A x \in K : x.id \in DOMAIN w
      BY <2>2 DEF MdShows, Drop
    <3>2. ASSUME NEW z \in DOMAIN w PROVE \E x \in K : z = x.id
      BY <2>2 DEF MdShows, Drop
    <3> QED  BY <3>1, <3>2
  <2>4. ASSUME NEW x \in K PROVE w[x.id] = [side |-> x.side, price |-> x.price, qty |-> x.qty]
    <3>1. CASE x = o
      BY <2>2, <3>1
    <3>2. CASE x \in Drop(L, id)
      BY <2>2, <3>2 DEF MdShows, Drop
    <3> QED  BY <3>1, <3>2
  <2> HIDE DEF K
  <2> QED  BY <2>1, <2>3, <2>4 DEF MdShows
<1>2. CASE ~(o.qty > 0)
  <2>1. SetOpen(v, id, entry) = Erase(v, id) /\ Renew(L, o) = Drop(L, id)
    BY <1>0, <1>2 DEF SetOpen, Renew
  <2> QED  BY <2>1, MdErase
<1> QED
  BY <1>1, <1>2

(* Erasing an order from the view of its owner.                            *)
LEMMA OwnErase ==
  ASSUME NEW v, NEW L, OwnShows(v, L), NEW id, NEW t, \A x \in L : x.id = id => x.trader = t
  PROVE  OwnShows(Erase(v, <<t, id>>), Drop(L, id))
<1> DEFINE k == <<t, id>>
           w == Erase(v, k)
<1>1. DOMAIN w = DOMAIN v \ {k} /\ \A x \in DOMAIN v \ {k} : w[x] = v[x]
  BY EraseFacts
<1>2. \A o \in L : o.id # id <=> <<o.trader, o.id>> # k
  OBVIOUS
<1> HIDE DEF w, k
<1>3. DOMAIN w = {<<o.trader, o.id>> : o \in Drop(L, id)}
  BY <1>1, <1>2 DEF OwnShows, Drop
<1>4. ASSUME NEW o \in Drop(L, id) PROVE w[<<o.trader, o.id>>].qty = o.qty
  BY <1>1, <1>2 DEF OwnShows, Drop
<1>5. OwnShows(w, Drop(L, id))
  BY <1>3, <1>4 DEF OwnShows
<1> QED
  BY <1>5 DEF w, k

(* Setting one.                                                            *)
LEMMA OwnSet ==
  ASSUME NEW v, NEW L, OwnShows(v, L), NEW o, \A x \in L : x.id = o.id => x.trader = o.trader,
         NEW k, k = <<o.trader, o.id>>
  PROVE  OwnShows(SetOpen(v, k, [qty |-> o.qty]), Renew(L, o))
<1> DEFINE entry == [qty |-> o.qty]
<1>0. entry.qty = o.qty
  OBVIOUS
<1> HIDE DEF entry
<1>1. CASE o.qty > 0
  <2> DEFINE w == Put(v, k, entry)
             K == Drop(L, o.id) \cup {o}
  <2>1. SetOpen(v, k, entry) = w /\ Renew(L, o) = K
    BY <1>0, <1>1 DEF SetOpen, Renew
  <2>2. DOMAIN w = DOMAIN v \cup {k} /\ w[k] = entry /\ \A x \in DOMAIN v \ {k} : w[x] = v[x]
    BY DEF Put
  <2> HIDE DEF w
  <2>3. \A x \in L : x.id # o.id <=> <<x.trader, x.id>> # k
    OBVIOUS
  <2>4. DOMAIN w = {<<x.trader, x.id>> : x \in K}
    <3>1. ASSUME NEW x \in K PROVE <<x.trader, x.id>> \in DOMAIN w
      <4>1. x = o \/ x \in L
        BY DEF Drop
      <4>2. x \in L => <<x.trader, x.id>> \in DOMAIN v
        BY DEF OwnShows
      <4> QED  BY <2>2, <4>1, <4>2
    <3>2. ASSUME NEW z \in DOMAIN w PROVE \E x \in K : z = <<x.trader, x.id>>
      <4>1. CASE z = k
        BY <4>1
      <4>2. CASE z # k
        <5>1. PICK x \in L : z = <<x.trader, x.id>>
          BY <2>2, <4>2 DEF OwnShows
        <5>2. x \in Drop(L, o.id)
          BY <2>3, <4>2, <5>1 DEF Drop
        <5> QED  BY <5>1, <5>2
      <4> QED  BY <4>1, <4>2
    <3> QED  BY <3>1, <3>2
  <2>5. ASSUME NEW x \in K PROVE w[<<x.trader, x.id>>].qty = x.qty
    <3>1. CASE x = o
      BY <1>0, <2>2, <3>1
    <3>2. CASE x \in Drop(L, o.id)
      <4>1. x \in L /\ <<x.trader, x.id>> # k
        BY <2>3, <3>2 DEF Drop
      <4>2. <<x.trader, x.id>> \in DOMAIN v /\ v[<<x.trader, x.id>>].qty = x.qty
        BY <4>1 DEF OwnShows
      <4> QED  BY <2>2, <4>1, <4>2
    <3> QED  BY <3>1, <3>2
  <2> HIDE DEF K
  <2>6. OwnShows(w, K)
    BY <2>4, <2>5 DEF OwnShows
  <2> QED  BY <2>1, <2>6 DEF entry
<1>2. CASE ~(o.qty > 0)
  <2>1. SetOpen(v, k, entry) = Erase(v, k) /\ Renew(L, o) = Drop(L, o.id)
    BY <1>0, <1>2 DEF SetOpen, Renew
  <2>2. OwnShows(Erase(v, k), Drop(L, o.id))
    BY OwnErase
  <2> QED  BY <2>1, <2>2 DEF entry
<1> QED
  BY <1>1, <1>2

-----------------------------------------------------------------------------
(* What the steps of the engine do to the open orders.                     *)

(* The open order of book b with id x.                                     *)
OpenOf(b, x) ==
  Open(x, b.orderMap[x].m_traderId, b.orderDetails[x].side, b.orderDetails[x].price, b.orderMap[x].m_quantity)

(* An order has left the book.                                             *)
LEMMA LiveInDrop ==
  ASSUME NEW b, DOMAIN b.orderMap = DOMAIN b.orderDetails, NEW c, NEW id,
         c.orderMap = Erase(b.orderMap, id), c.orderDetails = Erase(b.orderDetails, id)
  PROVE  LiveIn(c) = Drop(LiveIn(b), id)
<1>1. /\ DOMAIN c.orderMap = DOMAIN b.orderMap \ {id}
      /\ \A x \in DOMAIN c.orderMap : c.orderMap[x] = b.orderMap[x] /\ c.orderDetails[x] = b.orderDetails[x]
  BY DEF Erase, Restrict
<1>2. OpenIds(c) = OpenIds(b) \ {id} /\ \A x \in OpenIds(c) : OpenOf(c, x) = OpenOf(b, x)
  BY <1>1 DEF OpenIds, OpenOf
<1>3. \A x : OpenOf(b, x).id = x
  BY OpenFields DEF OpenOf
<1>4. LiveIn(b) = {OpenOf(b, x) : x \in OpenIds(b)} /\ LiveIn(c) = {OpenOf(c, x) : x \in OpenIds(c)}
  BY DEF LiveIn, OpenOf
<1> QED
  BY <1>2, <1>3, <1>4 DEF Drop

(* Book c is book b but for order id.                                      *)
OthersKept(b, c, id) ==
  /\ DOMAIN c.orderMap = DOMAIN b.orderMap \cup {id}
  /\ \A x \in DOMAIN b.orderMap \ {id} :
       c.orderMap[x] = b.orderMap[x] /\ c.orderDetails[x] = b.orderDetails[x]

(* An order has entered the book or has changed.                           *)
LEMMA LiveInPut ==
  ASSUME NEW b, NEW c, NEW id, OthersKept(b, c, id)
  PROVE  LiveIn(c) = Renew(LiveIn(b), OpenOf(c, id))
<1> DEFINE o == OpenOf(c, id)
           q == c.orderMap[id].m_quantity
<1>1. /\ DOMAIN c.orderMap = DOMAIN b.orderMap \cup {id}
      /\ \A x \in DOMAIN b.orderMap \ {id} :
           c.orderMap[x] = b.orderMap[x] /\ c.orderDetails[x] = b.orderDetails[x]
  BY DEF OthersKept
<1>2. /\ OpenIds(c) = (OpenIds(b) \ {id}) \cup (IF q > 0 THEN {id} ELSE {})
      /\ \A x \in OpenIds(b) \ {id} : OpenOf(c, x) = OpenOf(b, x)
  <2>1. OpenIds(c) = (OpenIds(b) \ {id}) \cup (IF q > 0 THEN {id} ELSE {})
    BY <1>1 DEF OpenIds
  <2>2. \A x \in OpenIds(b) \ {id} : OpenOf(c, x) = OpenOf(b, x)
    BY <1>1 DEF OpenIds, OpenOf
  <2> QED  BY <2>1, <2>2
<1>3. (\A x : OpenOf(b, x).id = x) /\ o.id = id /\ o.qty = q
  BY OpenFields DEF OpenOf
<1>4. LiveIn(b) = {OpenOf(b, x) : x \in OpenIds(b)} /\ LiveIn(c) = {OpenOf(c, x) : x \in OpenIds(c)}
  BY DEF LiveIn, OpenOf
<1>5. OpenOf(c, id) = o
  OBVIOUS
<1> HIDE DEF o, q
<1>6. ASSUME NEW z \in LiveIn(c) PROVE z \in Renew(LiveIn(b), o)
  <2>1. PICK x \in OpenIds(c) : z = OpenOf(c, x)
    BY <1>4
  <2> QED  BY <1>2, <1>3, <1>4, <1>5, <2>1 DEF Renew, Drop
<1>7. ASSUME NEW z \in Renew(LiveIn(b), o) PROVE z \in LiveIn(c)
  <2>1. CASE z \in Drop(LiveIn(b), id)
    <3>1. PICK x \in OpenIds(b) : z = OpenOf(b, x)
      BY <1>4, <2>1 DEF Drop
    <3>2. x # id
      BY <1>3, <2>1, <3>1 DEF Drop
    <3> QED  BY <1>2, <1>4, <3>1, <3>2
  <2>2. CASE z = o /\ q > 0
    BY <1>2, <1>4, <1>5, <2>2
  <2> QED  BY <1>3, <2>1, <2>2 DEF Renew
<1>8. LiveIn(c) = Renew(LiveIn(b), o)
  BY <1>6, <1>7
<1> QED
  BY <1>8 DEF o

(* The same of all books, when no other book has that id.                  *)
LEMMA BooksLiveStep ==
  ASSUME IInv, NEW sym \in Symbols, NEW c, books' = [books EXCEPT ![sym] = c],
         NEW id, \A r \in Symbols \ {sym} : id \notin DOMAIN books[r].orderMap
  PROVE  /\ LiveIn(c) = Drop(LiveIn(books[sym]), id) => BooksLive' = Drop(BooksLive, id)
         /\ \A o : o.id = id /\ LiveIn(c) = Renew(LiveIn(books[sym]), o) => BooksLive' = Renew(BooksLive, o)
<1>1. books'[sym] = c /\ \A r \in Symbols \ {sym} : books'[r] = books[r]
  BY DEF IInv, TypeOK
<1>2. \A r \in Symbols \ {sym} : \A o \in LiveIn(books[r]) : o.id # id
  <2>1. ASSUME NEW r \in Symbols \ {sym}, NEW o \in LiveIn(books[r]) PROVE o.id \in DOMAIN books[r].orderMap
    <3>1. PICK x \in OpenIds(books[r]) : o = OpenOf(books[r], x)
      BY DEF LiveIn, OpenOf
    <3>2. o.id = x
      BY <3>1, OpenFields DEF OpenOf
    <3> QED  BY <3>1, <3>2 DEF OpenIds
  <2> QED  BY <2>1
<1>3. \A o : o \in BooksLive <=> o \in LiveIn(books[sym]) \/ \E r \in Symbols \ {sym} : o \in LiveIn(books[r])
  BY DEF BooksLive
<1>4. \A o : o \in BooksLive' <=> o \in LiveIn(c) \/ \E r \in Symbols \ {sym} : o \in LiveIn(books[r])
  BY <1>1 DEF BooksLive
<1>5. ASSUME LiveIn(c) = Drop(LiveIn(books[sym]), id) PROVE BooksLive' = Drop(BooksLive, id)
  <2>1. \A o : o \in BooksLive' <=> o \in Drop(BooksLive, id)
    BY <1>2, <1>3, <1>4, <1>5 DEF Drop
  <2> QED  BY <2>1
<1>6. ASSUME NEW o, o.id = id, LiveIn(c) = Renew(LiveIn(books[sym]), o) PROVE BooksLive' = Renew(BooksLive, o)
  <2>1. \A x : x \in BooksLive' <=> x \in Renew(BooksLive, o)
    BY <1>2, <1>3, <1>4, <1>6 DEF Drop, Renew
  <2> QED  BY <2>1
<1> QED
  BY <1>5, <1>6

(* The id of an open order is the id of an order in a book, or of the one  *)
(* being matched; the owner of an open order is the one the book names.    *)
LEMMA LiveOwner ==
  ASSUME IInv
  PROVE  /\ \A o \in BooksLive : o.id < nextOrderId /\ (call = "matching" => o.id # incoming.orderId)
         /\ \A s \in Symbols : \A id \in DOMAIN books[s].orderMap : \A o \in Live :
              o.id = id => o = OpenOf(books[s], id) /\ books[s].orderMap[id].m_quantity > 0
         /\ \A s \in Symbols : \A id \in OpenIds(books[s]) : OpenOf(books[s], id) \in BooksLive
<1>1. \A s : LiveIn(books[s]) = {OpenOf(books[s], x) : x \in OpenIds(books[s])}
  BY DEF LiveIn, OpenOf
<1>2. \A s, x : OpenOf(books[s], x).id = x
  BY OpenFields DEF OpenOf
<1>3. \A o \in BooksLive : \E s \in Symbols :
        /\ o.id \in DOMAIN books[s].orderMap /\ o = OpenOf(books[s], o.id)
        /\ books[s].orderMap[o.id].m_quantity > 0
  <2>1. ASSUME NEW o \in BooksLive
        PROVE  \E s \in Symbols : /\ o.id \in DOMAIN books[s].orderMap /\ o = OpenOf(books[s], o.id)
                                  /\ books[s].orderMap[o.id].m_quantity > 0
    <3>1. PICK s \in Symbols : o \in LiveIn(books[s])
      BY DEF BooksLive
    <3>2. PICK x \in OpenIds(books[s]) : o = OpenOf(books[s], x)
      BY <1>1, <3>1
    <3>3. o.id = x /\ x \in DOMAIN books[s].orderMap /\ books[s].orderMap[x].m_quantity > 0
      BY <1>2, <3>2 DEF OpenIds
    <3> QED  BY <3>2, <3>3
  <2> QED  BY <2>1
<1>4. \A o \in BooksLive : o.id < nextOrderId /\ (call = "matching" => o.id # incoming.orderId)
  BY <1>3 DEF IInv, IdsUnique
<1>5. ASSUME NEW s \in Symbols, NEW id \in DOMAIN books[s].orderMap, NEW o \in Live, o.id = id
      PROVE  o = OpenOf(books[s], id) /\ books[s].orderMap[id].m_quantity > 0
  <2>1. o \in BooksLive
    <3>1. IncomingOpen => id # incoming.orderId
      BY DEF IInv, IdsUnique, IncomingOpen
    <3>2. Matching.id = incoming.orderId
      BY OpenFields DEF Matching
    <3> QED  BY <1>5, <3>1, <3>2 DEF Live
  <2>2. PICK r \in Symbols : /\ o.id \in DOMAIN books[r].orderMap /\ o = OpenOf(books[r], o.id)
                             /\ books[r].orderMap[o.id].m_quantity > 0
    BY <1>3, <2>1
  <2>3. r = s
    BY <1>5, <2>2 DEF IInv, IdsUnique
  <2> QED  BY <1>5, <2>2, <2>3
<1>6. \A s \in Symbols : \A id \in OpenIds(books[s]) : OpenOf(books[s], id) \in BooksLive
  BY <1>1 DEF BooksLive
<1> QED
  BY <1>4, <1>5, <1>6

-----------------------------------------------------------------------------
(* MdReplayExact and OwnerViewExact.                                       *)

(* A view after no message, after one and after two.                       *)
LEMMA ReplayCases ==
  /\ \A v :
       ReplayMd(v, <<>>) = v
  /\ \A v, x :
       ReplayMd(v, <<x>>) = ApplyMd(v, x)
  /\ \A v, x, y :
       ReplayMd(v, <<x, y>>) = ApplyMd(ApplyMd(v, x), y)
  /\ \A v, asked :
       ReplayConfirms(v, <<>>, asked) = v
  /\ \A v, x, asked :
       ReplayConfirms(v, <<x>>, asked) = ApplyConfirm(v, x, asked)
  /\ \A v, x, y, asked :
       ReplayConfirms(v, <<x, y>>, asked) = ApplyConfirm(ApplyConfirm(v, x, asked), y, asked)
<1>1. \A v :
        ReplayMd(v, <<>>) = v
  <2> TAKE v
  <2> DEFINE s == <<>>
  <2>1. Len(s) = 0
    OBVIOUS
  <2> HIDE DEF s
  <2>2. ReplayMd(v, s) = v
    BY <2>1, ReplayMdFew
  <2> QED  BY <2>2 DEF s
<1>2. \A v, x :
        ReplayMd(v, <<x>>) = ApplyMd(v, x)
  <2> TAKE v, x
  <2> DEFINE s == <<x>>
  <2>1. Len(s) = 1 /\ s[1] = x
    OBVIOUS
  <2> HIDE DEF s
  <2>2. ReplayMd(v, s) = ApplyMd(v, x)
    BY <2>1, ReplayMdFew
  <2> QED  BY <2>2 DEF s
<1>3. \A v, x, y :
        ReplayMd(v, <<x, y>>) = ApplyMd(ApplyMd(v, x), y)
  <2> TAKE v, x, y
  <2> DEFINE s == <<x, y>>
  <2>1. Len(s) = 2 /\ s[1] = x /\ s[2] = y
    OBVIOUS
  <2> HIDE DEF s
  <2>2. ReplayMd(v, s) = ApplyMd(ApplyMd(v, x), y)
    BY <2>1, ReplayMdFew
  <2> QED  BY <2>2 DEF s
<1>4. \A v, asked :
        ReplayConfirms(v, <<>>, asked) = v
  <2> TAKE v, asked
  <2> DEFINE s == <<>>
  <2>1. Len(s) = 0
    OBVIOUS
  <2> HIDE DEF s
  <2>2. ReplayConfirms(v, s, asked) = v
    BY <2>1, ReplayConfirmsFew
  <2> QED  BY <2>2 DEF s
<1>5. \A v, x, asked :
        ReplayConfirms(v, <<x>>, asked) = ApplyConfirm(v, x, asked)
  <2> TAKE v, x, asked
  <2> DEFINE s == <<x>>
  <2>1. Len(s) = 1 /\ s[1] = x
    OBVIOUS
  <2> HIDE DEF s
  <2>2. ReplayConfirms(v, s, asked) = ApplyConfirm(v, x, asked)
    BY <2>1, ReplayConfirmsFew
  <2> QED  BY <2>2 DEF s
<1>6. \A v, x, y, asked :
        ReplayConfirms(v, <<x, y>>, asked) = ApplyConfirm(ApplyConfirm(v, x, asked), y, asked)
  <2> TAKE v, x, y, asked
  <2> DEFINE s == <<x, y>>
  <2>1. Len(s) = 2 /\ s[1] = x /\ s[2] = y
    OBVIOUS
  <2> HIDE DEF s
  <2>2. ReplayConfirms(v, s, asked) = ApplyConfirm(ApplyConfirm(v, x, asked), y, asked)
    BY <2>1, ReplayConfirmsFew
  <2> QED  BY <2>2 DEF s
<1> QED
  BY <1>1, <1>2, <1>3, <1>4, <1>5, <1>6

(* What each kind of public message does to a view.                        *)
LEMMA MdCases ==
  /\ \A v, id, s, p, q :
       ApplyMd(v, MdUpdate(id, s, p, q, "New")) = SetOpen(v, id, [side |-> s, price |-> p, qty |-> q])
  /\ \A v, id, s, p, q :
       ApplyMd(v, MdUpdate(id, s, p, q, "Modify")) = SetOpen(v, id, [side |-> s, price |-> p, qty |-> q])
  /\ \A v, id, s, p, q :
       ApplyMd(v, MdUpdate(id, s, p, q, "Cancel")) = Erase(v, id)
  /\ \A v, id, s, p, q :
       ApplyMd(v, MdUpdate(id, s, p, q, "Trade")) =
         IF id \in DOMAIN v THEN SetOpen(v, id, [v[id] EXCEPT !.qty = @ - q]) ELSE v
<1>1. \A v, id, s, p, q :
        ApplyMd(v, MdUpdate(id, s, p, q, "New")) = SetOpen(v, id, [side |-> s, price |-> p, qty |-> q])
  <2> TAKE v, id, s, p, q
  <2> DEFINE m == MdUpdate(id, s, p, q, "New")
  <2>1. m.updateType = "New" /\ m.orderId = id /\ m.side = s /\ m.price = p /\ m.qty = q
    BY DEF MdUpdate
  <2> HIDE DEF m
  <2>2. ApplyMd(v, m) = SetOpen(v, id, [side |-> s, price |-> p, qty |-> q])
    BY <2>1 DEF ApplyMd
  <2> QED  BY <2>2 DEF m
<1>2. \A v, id, s, p, q :
        ApplyMd(v, MdUpdate(id, s, p, q, "Modify")) = SetOpen(v, id, [side |-> s, price |-> p, qty |-> q])
  <2> TAKE v, id, s, p, q
  <2> DEFINE m == MdUpdate(id, s, p, q, "Modify")
  <2>1. m.updateType = "Modify" /\ m.orderId = id /\ m.side = s /\ m.price = p /\ m.qty = q
    BY DEF MdUpdate
  <2> HIDE DEF m
  <2>2. ApplyMd(v, m) = SetOpen(v, id, [side |-> s, price |-> p, qty |-> q])
    BY <2>1 DEF ApplyMd
  <2> QED  BY <2>2 DEF m
<1>3. \A v, id, s, p, q :
        ApplyMd(v, MdUpdate(id, s, p, q, "Cancel")) = Erase(v, id)
  <2> TAKE v, id, s, p, q
  <2> DEFINE m == MdUpdate(id, s, p, q, "Cancel")
  <2>1. m.updateType = "Cancel" /\ m.orderId = id /\ m.side = s /\ m.price = p /\ m.qty = q
    BY DEF MdUpdate
  <2> HIDE DEF m
  <2>2. ApplyMd(v, m) = Erase(v, id)
    BY <2>1 DEF ApplyMd
  <2> QED  BY <2>2 DEF m
<1>4. \A v, id, s, p, q :
        ApplyMd(v, MdUpdate(id, s, p, q, "Trade")) =
         IF id \in DOMAIN v THEN SetOpen(v, id, [v[id] EXCEPT !.qty = @ - q]) ELSE v
  <2> TAKE v, id, s, p, q
  <2> DEFINE m == MdUpdate(id, s, p, q, "Trade")
  <2>1. m.updateType = "Trade" /\ m.orderId = id /\ m.side = s /\ m.price = p /\ m.qty = q
    BY DEF MdUpdate
  <2> HIDE DEF m
  <2>2. ApplyMd(v, m) = IF id \in DOMAIN v THEN SetOpen(v, id, [v[id] EXCEPT !.qty = @ - q]) ELSE v
    BY <2>1 DEF ApplyMd
  <2> QED  BY <2>2 DEF m
<1> QED
  BY <1>1, <1>2, <1>3, <1>4

(* What each kind of confirmation does to the view of its receiver.        *)
LEMMA ConfirmCases ==
  /\ \A v, id, t, p, n, r, asked :
       ApplyConfirm(v, OrderConfirm("NewAck", id, t, p, n, r), asked) = SetOpen(v, <<t, id>>, [qty |-> asked])
  /\ \A v, id, t, p, n, r, asked :
       ApplyConfirm(v, OrderConfirm("ModifyAck", id, t, p, n, r), asked) = SetOpen(v, <<t, id>>, [qty |-> asked])
  /\ \A v, id, t, p, n, r, asked :
       ApplyConfirm(v, OrderConfirm("CancelAck", id, t, p, n, r), asked) = Erase(v, <<t, id>>)
  /\ \A v, id, t, p, n, r, asked :
       ApplyConfirm(v, OrderConfirm("Reject", id, t, p, n, r), asked) = v
  /\ \A v, id, t, p, n, r, asked :
       ApplyConfirm(v, OrderConfirm("Trade", id, t, p, n, r), asked) =
         IF <<t, id>> \in DOMAIN v THEN SetOpen(v, <<t, id>>, [qty |-> v[<<t, id>>].qty - n]) ELSE v
<1>1. \A v, id, t, p, n, r, asked :
        ApplyConfirm(v, OrderConfirm("NewAck", id, t, p, n, r), asked) = SetOpen(v, <<t, id>>, [qty |-> asked])
  <2> TAKE v, id, t, p, n, r, asked
  <2> DEFINE c == OrderConfirm("NewAck", id, t, p, n, r)
  <2>1. c.type = "NewAck" /\ c.orderId = id /\ c.traderId = t /\ c.qty = n
    BY DEF OrderConfirm
  <2> HIDE DEF c
  <2>2. ApplyConfirm(v, c, asked) = SetOpen(v, <<t, id>>, [qty |-> asked])
    BY <2>1 DEF ApplyConfirm
  <2> QED  BY <2>2 DEF c
<1>2. \A v, id, t, p, n, r, asked :
        ApplyConfirm(v, OrderConfirm("ModifyAck", id, t, p, n, r), asked) = SetOpen(v, <<t, id>>, [qty |-> asked])
  <2> TAKE v, id, t, p, n, r, asked
  <2> DEFINE c == OrderConfirm("ModifyAck", id, t, p, n, r)
  <2>1. c.type = "ModifyAck" /\ c.orderId = id /\ c.traderId = t /\ c.qty = n
    BY DEF OrderConfirm
  <2> HIDE DEF c
  <2>2. ApplyConfirm(v, c, asked) = SetOpen(v, <<t, id>>, [qty |-> asked])
    BY <2>1 DEF ApplyConfirm
  <2> QED  BY <2>2 DEF c
<1>3. \A v, id, t, p, n, r, asked :
        ApplyConfirm(v, OrderConfirm("CancelAck", id, t, p, n, r), asked) = Erase(v, <<t, id>>)
  <2> TAKE v, id, t, p, n, r, asked
  <2> DEFINE c == OrderConfirm("CancelAck", id, t, p, n, r)
  <2>1. c.type = "CancelAck" /\ c.orderId = id /\ c.traderId = t /\ c.qty = n
    BY DEF OrderConfirm
  <2> HIDE DEF c
  <2>2. ApplyConfirm(v, c, asked) = Erase(v, <<t, id>>)
    BY <2>1 DEF ApplyConfirm
  <2> QED  BY <2>2 DEF c
<1>4. \A v, id, t, p, n, r, asked :
        ApplyConfirm(v, OrderConfirm("Reject", id, t, p, n, r), asked) = v
  <2> TAKE v, id, t, p, n, r, asked
  <2> DEFINE c == OrderConfirm("Reject", id, t, p, n, r)
  <2>1. c.type = "Reject" /\ c.orderId = id /\ c.traderId = t /\ c.qty = n
    BY DEF OrderConfirm
  <2> HIDE DEF c
  <2>2. ApplyConfirm(v, c, asked) = v
    BY <2>1 DEF ApplyConfirm
  <2> QED  BY <2>2 DEF c
<1>5. \A v, id, t, p, n, r, asked :
        ApplyConfirm(v, OrderConfirm("Trade", id, t, p, n, r), asked) =
         IF <<t, id>> \in DOMAIN v THEN SetOpen(v, <<t, id>>, [qty |-> v[<<t, id>>].qty - n]) ELSE v
  <2> TAKE v, id, t, p, n, r, asked
  <2> DEFINE c == OrderConfirm("Trade", id, t, p, n, r)
  <2>1. c.type = "Trade" /\ c.orderId = id /\ c.traderId = t /\ c.qty = n
    BY DEF OrderConfirm
  <2> HIDE DEF c
  <2>2. ApplyConfirm(v, c, asked) = IF <<t, id>> \in DOMAIN v THEN SetOpen(v, <<t, id>>, [qty |-> v[<<t, id>>].qty - n]) ELSE v
    BY <2>1 DEF ApplyConfirm
  <2> QED  BY <2>2 DEF c
<1> QED
  BY <1>1, <1>2, <1>3, <1>4, <1>5

(* Both views show the open orders.                                        *)
Exact == MdShows(mdView, Live) /\ OwnShows(ownView, Live)
VInv  == IInv /\ Exact

(* A step that reports nothing but rejections and changes no book.         *)
LEMMA SilentExact ==
  ASSUME VInv, call = "idle", call' = "idle", UNCHANGED books, NEW asked, ObserveStep(asked), mdOut' = <<>>,
         confirmsOut' = <<>> \/ \E id, t : confirmsOut' = <<Reject(id, t)>>
  PROVE  Exact'
<1>1. mdView' = mdView
  BY ReplayCases DEF ObserveStep, Fresh
<1>2. ownView' = ownView
  <2>1. ownView' = ReplayConfirms(ownView, confirmsOut', asked)
    BY DEF ObserveStep, Fresh
  <2>2. CASE confirmsOut' = <<>>
    BY <2>1, <2>2, ReplayCases
  <2>3. ASSUME NEW id, NEW t, confirmsOut' = <<Reject(id, t)>> PROVE ownView' = ownView
    <3>1. ownView' = ApplyConfirm(ownView, Reject(id, t), asked)
      BY <2>1, <2>3, ReplayCases
    <3> QED  BY <3>1, ConfirmCases DEF Reject
  <2> QED  BY <2>2, <2>3
<1>3. BooksLive' = BooksLive /\ ~IncomingOpen /\ ~IncomingOpen'
  BY DEF BooksLive, IncomingOpen
<1>4. Live' = Live
  BY <1>3 DEF Live
<1> QED
  BY <1>1, <1>2, <1>4 DEF VInv, Exact

(* onOrder: the new order is acknowledged and published as it was asked.   *)
LEMMA onOrderExact ==
  ASSUME VInv, NEW t \in Traders, NEW sym \in AllSymbols, NEW side \in Side,
         NEW p \in Prices, NEW q \in Qtys, onOrder(t, sym, side, p, q), ObserveStep(q)
  PROVE  Exact'
<1>1. call = "idle" /\ UNCHANGED books /\ nextOrderId \in Nat
  BY DEF onOrder, onOrder_Listed, onOrder_Unlisted, VInv, IInv, TypeOK, OrderId
<1>2. CASE onOrder_Unlisted(t, sym)
  <2>1. call' = "idle" /\ mdOut' = <<>> /\ confirmsOut' = <<>>
    BY <1>1, <1>2 DEF onOrder_Unlisted, Report, Effect
  <2> QED  BY <1>1, <2>1, SilentExact
<1>3. CASE onOrder_Listed(t, sym, side, p, q)
  <2> DEFINE o == Open(nextOrderId, t, side, p, q)
             m == MdUpdate(nextOrderId, side, p, q, "New")
             c == OrderConfirm("NewAck", nextOrderId, t, 0, 0, "UnknownOrder")
  <2>1. /\ call' = "matching" /\ mdOut' = <<m>> /\ confirmsOut' = <<c>> /\ remainingQty' = q
        /\ incoming'.orderId = nextOrderId /\ incoming'.traderId = t
        /\ incoming'.side = side /\ incoming'.price = p
    BY <1>3 DEF onOrder_Listed, Report, addOrder_accept, Effect
  <2>2. mdView' = ApplyMd(mdView, m) /\ ownView' = ApplyConfirm(ownView, c, q)
    <3> HIDE DEF m, c
    <3> QED  BY <1>1, <2>1, ReplayCases DEF ObserveStep, Fresh
  <2>3. /\ mdView' = SetOpen(mdView, nextOrderId, [side |-> side, price |-> p, qty |-> q])
        /\ ownView' = SetOpen(ownView, <<t, nextOrderId>>, [qty |-> q])
    BY <2>2, MdCases, ConfirmCases
  <2>4. o.id = nextOrderId /\ o.trader = t /\ o.side = side /\ o.price = p /\ o.qty = q
    BY OpenFields
  <2>5. Live' = BooksLive \cup (IF q > 0 THEN {o} ELSE {})
    <3>1. BooksLive' = BooksLive /\ (IncomingOpen' <=> q > 0) /\ Matching' = o
      BY <1>1, <2>1 DEF BooksLive, IncomingOpen, Matching
    <3> QED  BY <3>1 DEF Live
  <2> HIDE DEF o, m, c
  <2>6. Live = BooksLive /\ \A x \in Live : x.id # nextOrderId
    <3>1. Live = BooksLive
      BY <1>1 DEF Live, IncomingOpen
    <3> QED  BY <1>1, <3>1, LiveOwner DEF VInv
  <2>7. Live' = Renew(Live, o)
    BY <2>4, <2>5, <2>6 DEF Renew, Drop
  <2>8. MdShows(mdView', Renew(Live, o))
    BY <2>3, <2>4, MdSet DEF VInv, Exact
  <2>9. OwnShows(ownView', Renew(Live, o))
    BY <2>3, <2>4, <2>6, OwnSet DEF VInv, Exact
  <2> QED  BY <2>7, <2>8, <2>9 DEF Exact
<1> QED
  BY <1>2, <1>3 DEF onOrder

(* onCancel: the order disappears from both views.                         *)
LEMMA onCancelExact ==
  ASSUME VInv, NEW id \in RequestIds, NEW sym \in AllSymbols, NEW t \in Traders,
         onCancel(id, sym, t), ObserveStep(0)
  PROVE  Exact'
<1>1. call = "idle" /\ call' = "idle" /\ books = [s \in Symbols |-> books[s]]
  BY DEF onCancel, VInv, IInv, TypeOK
<1> DEFINE b == books[sym]
           e == cancelOrder(b, id, t)
           Allowed == sym \in Symbols /\ Owns(b, id, t)
<1>2. CASE ~Allowed
  <2>1. CASE sym \notin Symbols
    <3>1. UNCHANGED books /\ mdOut' = <<>> /\ confirmsOut' = <<>>
      BY <2>1 DEF onCancel, Report, Effect
    <3> QED  BY <1>1, <3>1, SilentExact
  <2>2. CASE sym \in Symbols
    <3>1. books' = [books EXCEPT ![sym] = e.book] /\ mdOut' = e.mds /\ confirmsOut' = e.confirms
      BY <2>2 DEF onCancel, Report
    <3>2. e.book = b /\ e.mds = <<>> /\ e.confirms = <<Reject(id, t)>>
      BY <1>2, <2>2 DEF cancelOrder, Effect
    <3>3. UNCHANGED books /\ mdOut' = <<>> /\ confirmsOut' = <<Reject(id, t)>>
      BY <1>1, <3>1, <3>2
    <3> QED  BY <1>1, <3>3, SilentExact
  <2> QED  BY <2>1, <2>2
<1>3. CASE Allowed
  <2> DEFINE d == b.orderDetails[id]
             m == MdUpdate(id, d.side, d.price, b.orderMap[id].m_quantity, "Cancel")
             c == OrderConfirm("CancelAck", id, t, 0, 0, "UnknownOrder")
  <2>1. books' = [books EXCEPT ![sym] = e.book] /\ mdOut' = e.mds /\ confirmsOut' = e.confirms
    BY <1>3 DEF onCancel, Report
  <2>2. /\ e.book.orderMap = Erase(b.orderMap, id) /\ e.book.orderDetails = Erase(b.orderDetails, id)
        /\ e.mds = <<m>> /\ e.confirms = <<c>>
    BY <1>3 DEF cancelOrder, Effect
  <2>3. mdView' = ApplyMd(mdView, m) /\ ownView' = ApplyConfirm(ownView, c, 0)
    <3> HIDE DEF m, c, e
    <3> QED  BY <1>1, <2>1, <2>2, ReplayCases DEF ObserveStep, Fresh
  <2>4. mdView' = Erase(mdView, id) /\ ownView' = Erase(ownView, <<t, id>>)
    BY <2>3, MdCases, ConfirmCases
  <2>5. BookInv(b) /\ id \in DOMAIN b.orderMap /\ b.orderMap[id].m_traderId = t /\ sym \in Symbols
    BY <1>3, SoundBooks DEF VInv, IInv, Owns
  <2>6. \A x \in Live : x.id = id => x.trader = t
    BY <2>5, LiveOwner, OpenFields DEF VInv, OpenOf
  <2> HIDE DEF e, m, c
  <2>7. LiveIn(e.book) = Drop(LiveIn(b), id)
    BY <2>2, <2>5, BookFacts, LiveInDrop
  <2>8. BooksLive' = Drop(BooksLive, id)
    <3>1. \A r \in Symbols \ {sym} : id \notin DOMAIN books[r].orderMap
      BY <2>5 DEF VInv, IInv, IdsUnique
    <3> QED  BY <2>1, <2>5, <2>7, <3>1, BooksLiveStep DEF VInv
  <2>9. Live = BooksLive /\ Live' = BooksLive'
    BY <1>1 DEF Live, IncomingOpen
  <2>10. MdShows(mdView', Drop(Live, id))
    BY <2>4, MdErase DEF VInv, Exact
  <2>11. OwnShows(ownView', Drop(Live, id))
    BY <2>4, <2>6, OwnErase DEF VInv, Exact
  <2> QED  BY <2>8, <2>9, <2>10, <2>11 DEF Exact
<1> QED
  BY <1>2, <1>3

(* onModify: both views take over the new price and quantity.              *)
LEMMA onModifyExact ==
  ASSUME VInv, NEW id \in RequestIds, NEW sym \in AllSymbols, NEW t \in Traders,
         NEW p \in Prices, NEW q \in Qtys, onModify(id, sym, t, p, q), ObserveStep(q)
  PROVE  Exact'
<1>1. call = "idle" /\ call' = "idle" /\ books = [s \in Symbols |-> books[s]]
  BY DEF onModify, VInv, IInv, TypeOK
<1> DEFINE b == books[sym]
           e == modifyOrder(b, id, t, p, q)
           Allowed == sym \in Symbols /\ Owns(b, id, t)
<1>2. CASE ~Allowed
  <2>1. CASE sym \notin Symbols
    <3>1. UNCHANGED books /\ mdOut' = <<>> /\ confirmsOut' = <<>>
      BY <2>1 DEF onModify, Report, Effect
    <3> QED  BY <1>1, <3>1, SilentExact
  <2>2. CASE sym \in Symbols
    <3>1. books' = [books EXCEPT ![sym] = e.book] /\ mdOut' = e.mds /\ confirmsOut' = e.confirms
      BY <2>2 DEF onModify, Report
    <3>2. e.book = b /\ e.mds = <<>> /\ e.confirms = <<Reject(id, t)>>
      BY <1>2, <2>2 DEF modifyOrder, Effect
    <3>3. UNCHANGED books /\ mdOut' = <<>> /\ confirmsOut' = <<Reject(id, t)>>
      BY <1>1, <3>1, <3>2
    <3> QED  BY <1>1, <3>3, SilentExact
  <2> QED  BY <2>1, <2>2
<1>3. CASE Allowed
  <2> DEFINE s == b.orderDetails[id].side
             m == MdUpdate(id, s, p, q, "Modify")
             c == OrderConfirm("ModifyAck", id, t, 0, 0, "UnknownOrder")
             o == Open(id, t, s, p, q)
  <2>1. books' = [books EXCEPT ![sym] = e.book] /\ mdOut' = e.mds /\ confirmsOut' = e.confirms
    BY <1>3 DEF onModify, Report
  <2>2. /\ e.book.orderMap = Put(b.orderMap, id, [m_traderId |-> t, m_quantity |-> q])
        /\ e.book.orderDetails = Put(b.orderDetails, id, [side |-> s, price |-> p, quantity |-> q])
        /\ e.mds = <<m>> /\ e.confirms = <<c>>
    BY <1>3 DEF modifyOrder, Effect
  <2>3. mdView' = ApplyMd(mdView, m) /\ ownView' = ApplyConfirm(ownView, c, q)
    <3> HIDE DEF m, c, e
    <3> QED  BY <1>1, <2>1, <2>2, ReplayCases DEF ObserveStep, Fresh
  <2>4. /\ mdView' = SetOpen(mdView, id, [side |-> s, price |-> p, qty |-> q])
        /\ ownView' = SetOpen(ownView, <<t, id>>, [qty |-> q])
    BY <2>3, MdCases, ConfirmCases
  <2>5. BookInv(b) /\ id \in DOMAIN b.orderMap /\ b.orderMap[id].m_traderId = t /\ sym \in Symbols
    BY <1>3, SoundBooks DEF VInv, IInv, Owns
  <2>6. \A x \in Live : x.id = id => x.trader = t
    BY <2>5, LiveOwner, OpenFields DEF VInv, OpenOf
  <2>7. o.id = id /\ o.trader = t /\ o.side = s /\ o.price = p /\ o.qty = q
    BY OpenFields
  <2> HIDE DEF e, m, c
  <2>8. LiveIn(e.book) = Renew(LiveIn(b), o)
    <3>1. DOMAIN b.orderDetails = DOMAIN b.orderMap
      BY <2>5, BookFacts
    <3>2. /\ e.book.orderDetails[id].side = s /\ e.book.orderDetails[id].price = p
          /\ e.book.orderMap[id].m_traderId = t /\ e.book.orderMap[id].m_quantity = q
      BY <2>2 DEF Put
    <3>3. OthersKept(b, e.book, id)
      BY <2>2, <3>1 DEF Put, OthersKept
    <3>4. OpenOf(e.book, id) = o
      BY <3>2 DEF OpenOf
    <3> QED  BY <3>3, <3>4, LiveInPut
  <2> HIDE DEF o, s
  <2>9. BooksLive' = Renew(BooksLive, o)
    <3>1. \A r \in Symbols \ {sym} : id \notin DOMAIN books[r].orderMap
      BY <2>5 DEF VInv, IInv, IdsUnique
    <3> QED  BY <2>1, <2>5, <2>7, <2>8, <3>1, BooksLiveStep DEF VInv
  <2>10. Live = BooksLive /\ Live' = BooksLive'
    BY <1>1 DEF Live, IncomingOpen
  <2>11. MdShows(mdView', Renew(Live, o))
    BY <2>4, <2>7, MdSet DEF VInv, Exact
  <2>12. OwnShows(ownView', Renew(Live, o))
    BY <2>4, <2>6, <2>7, OwnSet DEF VInv, Exact
  <2> QED  BY <2>9, <2>10, <2>11, <2>12 DEF Exact
<1> QED
  BY <1>2, <1>3

(* The public message of a trade of n reduces an order of q; an order with *)
(* nothing open is not in the view and stays out.                          *)
LEMMA MdTraded ==
  ASSUME NEW v, NEW L, MdShows(v, L), NEW id, NEW t, NEW s, NEW p, NEW q \in Nat, NEW n \in Nat, n <= q,
         q > 0 => Open(id, t, s, p, q) \in L, q = 0 => \A x \in L : x.id # id, NEW price, NEW side
  PROVE  MdShows(ApplyMd(v, MdUpdate(id, side, price, n, "Trade")), Renew(L, Open(id, t, s, p, q - n)))
<1> DEFINE o == Open(id, t, s, p, q)
           z == Open(id, t, s, p, q - n)
           w == ApplyMd(v, MdUpdate(id, side, price, n, "Trade"))
<1>1. o.id = id /\ o.side = s /\ o.price = p /\ o.qty = q
  BY OpenFields
<1>2. z.id = id /\ z.side = s /\ z.price = p /\ z.qty = q - n
  BY OpenFields
<1>3. w = IF id \in DOMAIN v THEN SetOpen(v, id, [v[id] EXCEPT !.qty = @ - n]) ELSE v
  BY MdCases
<1>4. q > 0 => o \in L
  OBVIOUS
<1> HIDE DEF o, z, w
<1>5. CASE q > 0
  <2>1. id \in DOMAIN v /\ v[id] = [side |-> s, price |-> p, qty |-> q]
    BY <1>1, <1>4, <1>5 DEF MdShows
  <2>2. [v[id] EXCEPT !.qty = @ - n] = [side |-> z.side, price |-> z.price, qty |-> z.qty]
    BY <1>2, <2>1
  <2>3. MdShows(SetOpen(v, id, [side |-> z.side, price |-> z.price, qty |-> z.qty]), Renew(L, z))
    BY <1>2, MdSet
  <2>4. MdShows(w, Renew(L, z))
    BY <1>3, <2>1, <2>2, <2>3
  <2> QED  BY <2>4 DEF w, z
<1>6. CASE q = 0
  <2>1. \A x \in L : x.id # id
    BY <1>6
  <2>2. id \notin DOMAIN v
    BY <2>1 DEF MdShows
  <2>3. Renew(L, z) = L
    BY <1>2, <1>6, <2>1 DEF Renew, Drop
  <2>4. MdShows(w, Renew(L, z))
    BY <1>3, <2>2, <2>3
  <2> QED  BY <2>4 DEF w, z
<1> QED
  BY <1>5, <1>6

(* The same of the confirmation to the owner.                              *)
LEMMA OwnTraded ==
  ASSUME NEW v, NEW L, OwnShows(v, L), NEW id, NEW t, NEW s, NEW p, NEW q \in Nat, NEW n \in Nat, n <= q,
         q > 0 => Open(id, t, s, p, q) \in L, q = 0 => \A x \in L : x.id # id,
         \A x \in L : x.id = id => x.trader = t, NEW price, NEW reason, NEW asked
  PROVE  OwnShows(ApplyConfirm(v, OrderConfirm("Trade", id, t, price, n, reason), asked),
                  Renew(L, Open(id, t, s, p, q - n)))
<1> DEFINE o == Open(id, t, s, p, q)
           z == Open(id, t, s, p, q - n)
           k == <<t, id>>
           w == ApplyConfirm(v, OrderConfirm("Trade", id, t, price, n, reason), asked)
<1>1. o.id = id /\ o.trader = t /\ o.qty = q
  BY OpenFields
<1>2. z.id = id /\ z.trader = t /\ z.qty = q - n
  BY OpenFields
<1>3. w = IF k \in DOMAIN v THEN SetOpen(v, k, [qty |-> v[k].qty - n]) ELSE v
  BY ConfirmCases
<1>4. q > 0 => o \in L
  OBVIOUS
<1> HIDE DEF o, z, w
<1>5. CASE q > 0
  <2>1. k \in DOMAIN v /\ v[k].qty = q
    BY <1>1, <1>4, <1>5 DEF OwnShows
  <2>2. v[k].qty - n = z.qty /\ k = <<z.trader, z.id>>
    BY <1>2, <2>1
  <2>3. OwnShows(SetOpen(v, k, [qty |-> z.qty]), Renew(L, z))
    BY <1>2, <2>2, OwnSet
  <2>4. OwnShows(w, Renew(L, z))
    BY <1>3, <2>1, <2>2, <2>3
  <2> QED  BY <2>4 DEF w, z
<1>6. CASE q = 0
  <2>1. \A x \in L : x.id # id
    BY <1>6
  <2>2. k \notin DOMAIN v
    BY <2>1 DEF OwnShows
  <2>3. Renew(L, z) = L
    BY <1>2, <1>6, <2>1 DEF Renew, Drop
  <2>4. OwnShows(w, Renew(L, z))
    BY <1>3, <2>2, <2>3
  <2> QED  BY <2>4 DEF w, z
<1> QED
  BY <1>5, <1>6

(* What an iteration of matchAgainst does to both indexes of the book.     *)
LEMMA MatchIndexes ==
  ASSUME NEW b, BookInv(b), NEW inc, inc.side \in Side, NEW rem \in Quantity, CanMatch(b, inc, rem),
         NEW id, id = peekFirst(b, inc), NEW n, n = TradeQty(b, inc, rem),
         NEW c, c = matchStep(b, inc, rem).book
  PROVE  /\ id \in DOMAIN b.orderMap /\ rem \in Nat /\ rem > 0
         /\ b.orderMap[id].m_quantity \in Nat /\ n \in Nat /\ n <= rem /\ n <= b.orderMap[id].m_quantity
         /\ b.orderMap[id].m_traderId = inc.traderId => LiveIn(c) = Drop(LiveIn(b), id)
         /\ b.orderMap[id].m_traderId # inc.traderId =>
              LiveIn(c) = Renew(LiveIn(b), Open(id, b.orderMap[id].m_traderId, b.orderDetails[id].side,
                                                b.orderDetails[id].price, b.orderMap[id].m_quantity - n))
<1> DEFINE elem == b.orderMap[id]
           d    == b.orderDetails[id]
           left == elem.m_quantity - n
           o    == Open(id, elem.m_traderId, d.side, d.price, left)
<1>1. id \in DOMAIN b.orderMap /\ elem \in BookElement /\ DOMAIN b.orderMap = DOMAIN b.orderDetails
  BY FirstInLine, BookFacts
<1>2. /\ rem \in Nat /\ rem > 0 /\ elem.m_quantity \in Nat /\ n \in Nat /\ n <= rem /\ n <= elem.m_quantity
  BY <1>1, QtyModAssumption DEF TradeQty, BookElement, Quantity, CanMatch
<1>3. ASSUME elem.m_traderId = inc.traderId PROVE LiveIn(c) = Drop(LiveIn(b), id)
  <2>1. c.orderMap = Erase(b.orderMap, id) /\ c.orderDetails = Erase(b.orderDetails, id)
    BY <1>3 DEF matchStep, selfTradeStep, DropOrder, Effect
  <2> QED  BY <1>1, <2>1, LiveInDrop
<1>4. ASSUME elem.m_traderId # inc.traderId PROVE LiveIn(c) = Renew(LiveIn(b), o)
  <2> DEFINE new == [m_traderId |-> elem.m_traderId, m_quantity |-> left]
  <2>1. c = BookAfterTrade(b, inc, n)
    BY <1>4 DEF matchStep, tradeStep, Effect
  <2>2. o.id = id /\ o.qty = left /\ left \in Nat
    BY <1>2, OpenFields
  <2>3. CASE left = 0
    <3>1. c.orderMap = Erase(b.orderMap, id) /\ c.orderDetails = Erase(b.orderDetails, id)
      BY <2>1, <2>3 DEF BookAfterTrade, DropOrder
    <3>2. LiveIn(c) = Drop(LiveIn(b), id)
      BY <1>1, <3>1, LiveInDrop
    <3> HIDE DEF o, left
    <3> QED  BY <2>2, <2>3, <3>2 DEF Renew
  <2>4. CASE left # 0
    <3>1. c.orderMap = Put(b.orderMap, id, new) /\ c.orderDetails = b.orderDetails
      BY <2>1, <2>4 DEF BookAfterTrade
    <3>2. OthersKept(b, c, id)
      BY <1>1, <3>1 DEF Put, OthersKept
    <3>3. /\ c.orderMap[id].m_traderId = elem.m_traderId /\ c.orderMap[id].m_quantity = left
          /\ c.orderDetails[id] = d
      BY <3>1 DEF Put
    <3>4. OpenOf(c, id) = o
      BY <3>3 DEF OpenOf
    <3> QED  BY <3>2, <3>4, LiveInPut
  <2> QED  BY <2>3, <2>4
<1> QED
  BY <1>1, <1>2, <1>3, <1>4

(* An iteration of matchAgainst: the two messages of a trade reduce both   *)
(* orders, those of a self-trade take the resting one away.                *)
LEMMA matchAgainstExact ==
  ASSUME VInv, matchAgainst, ObserveStep(0)
  PROVE  Exact'
<1> DEFINE sym == incoming.symbolId
           b   == books[sym]
           e   == matchStep(b, incoming, remainingQty)
           id  == peekFirst(b, incoming)
           t   == b.orderMap[id].m_traderId
           s   == b.orderDetails[id].side
           p   == b.orderDetails[id].price
           q   == b.orderMap[id].m_quantity
           n   == TradeQty(b, incoming, remainingQty)
           r   == remainingQty
           lp  == BestLevelPrice(b, incoming)
           ps  == oppositeSide(incoming.side)
<1>1. /\ call = "matching" /\ CanMatch(b, incoming, remainingQty) /\ books' = [books EXCEPT ![sym] = e.book]
      /\ remainingQty' = e.remaining /\ UNCHANGED <<call, incoming>>
      /\ confirmsOut' = confirmsOut \o e.confirms /\ mdOut' = mdOut \o e.mds
  BY DEF matchAgainst
<1>2. /\ sym \in Symbols /\ incoming.side \in Side /\ incoming.price \in Prices
      /\ incoming.orderId \in OrderId /\ incoming.traderId \in Traders
      /\ remainingQty \in Quantity /\ confirmsOut \in Seq(Confirmation) /\ mdOut \in Seq(MarketUpdate)
  BY <1>1 DEF VInv, IInv, TypeOK, IncomingOrder
<1>3. BookInv(b)
  BY <1>2, SoundBooks DEF VInv, IInv
<1>4. /\ id \in DOMAIN b.orderMap /\ r \in Nat /\ r > 0 /\ q \in Nat /\ n \in Nat /\ n <= r /\ n <= q
      /\ t = incoming.traderId => LiveIn(e.book) = Drop(LiveIn(b), id)
      /\ t # incoming.traderId => LiveIn(e.book) = Renew(LiveIn(b), Open(id, t, s, p, q - n))
  <2> DEFINE c == e.book
  <2>1. /\ id = peekFirst(b, incoming) /\ n = TradeQty(b, incoming, r)
        /\ c = matchStep(b, incoming, r).book /\ r \in Quantity /\ CanMatch(b, incoming, r)
    BY <1>1, <1>2
  <2> HIDE DEF id, n, c, b, sym, e, r
  <2>2. /\ id \in DOMAIN b.orderMap /\ r \in Nat /\ r > 0 /\ q \in Nat /\ n \in Nat /\ n <= r /\ n <= q
        /\ t = incoming.traderId => LiveIn(c) = Drop(LiveIn(b), id)
        /\ t # incoming.traderId => LiveIn(c) = Renew(LiveIn(b), Open(id, t, s, p, q - n))
    BY <1>2, <1>3, <2>1, MatchIndexes
  <2> QED  BY <2>2 DEF c
<1>5. e.confirms \in Seq(Confirmation) /\ e.mds \in Seq(MarketUpdate)
  BY <1>1, <1>2, <1>3, matchStepReports DEF Reports
<1>6. mdView' = ReplayMd(mdView, e.mds) /\ ownView' = ReplayConfirms(ownView, e.confirms, 0)
  <2> HIDE DEF e
  <2> QED  BY <1>1, <1>2, <1>5, FreshTail DEF ObserveStep
<1>7. /\ id # incoming.orderId /\ \A x \in Symbols \ {sym} : id \notin DOMAIN books[x].orderMap
  BY <1>1, <1>2, <1>4 DEF VInv, IInv, IdsUnique
<1>8. /\ \A x \in BooksLive : x.id # incoming.orderId
      /\ \A x \in Live : x.id = id => x = Open(id, t, s, p, q) /\ q > 0
      /\ q > 0 => Open(id, t, s, p, q) \in Live
  <2>1. \A x \in BooksLive : x.id # incoming.orderId
    BY <1>1, LiveOwner DEF VInv
  <2>2. \A x \in Live : x.id = id => x = Open(id, t, s, p, q) /\ q > 0
    BY <1>2, <1>4, LiveOwner DEF VInv, OpenOf
  <2>3. ASSUME q > 0 PROVE Open(id, t, s, p, q) \in Live
    <3>1. id \in OpenIds(books[sym])
      BY <1>4, <2>3 DEF OpenIds
    <3>2. OpenOf(books[sym], id) \in BooksLive
      BY <1>2, <3>1, LiveOwner DEF VInv
    <3> QED  BY <3>2 DEF OpenOf, Live
  <2> QED  BY <2>1, <2>2, <2>3
<1>9. Live = BooksLive \cup {Matching} /\ Matching.id = incoming.orderId /\ Matching.trader = incoming.traderId
  BY <1>1, <1>4, OpenFields DEF Live, IncomingOpen, Matching
<1>10. CASE t = incoming.traderId
  <2> DEFINE c == OrderConfirm("CancelAck", id, t, 0, q, "SelfTrade")
             m == MdUpdate(id, ps, lp, q, "Cancel")
  <2>1. e.remaining = remainingQty /\ e.confirms = <<c>> /\ e.mds = <<m>>
    BY <1>10 DEF matchStep, selfTradeStep, Effect
  <2>2. mdView' = ApplyMd(mdView, m) /\ ownView' = ApplyConfirm(ownView, c, 0)
    <3> HIDE DEF e, c, m
    <3> QED  BY <1>6, <2>1, ReplayCases
  <2> HIDE DEF e, id, t, s, p, q, n, lp, ps
  <2>3. mdView' = Erase(mdView, id) /\ ownView' = Erase(ownView, <<t, id>>)
    BY <2>2, MdCases, ConfirmCases
  <2> HIDE DEF b, sym, c, m
  <2>4. BooksLive' = Drop(BooksLive, id)
    BY <1>1, <1>2, <1>4, <1>7, <1>10, BooksLiveStep DEF VInv, b
  <2>5. Live' = BooksLive' \cup {Matching}
    <3>1. IncomingOpen' /\ Matching' = Matching
      BY <1>1, <1>4, <2>1 DEF IncomingOpen, Matching
    <3> QED  BY <3>1 DEF Live
  <2>6. Live' = Drop(Live, id)
    BY <1>7, <1>9, <2>4, <2>5 DEF Drop
  <2>7. \A x \in Live : x.id = id => x.trader = t
    BY <1>8, OpenFields
  <2>8. MdShows(mdView', Drop(Live, id))
    BY <2>3, MdErase DEF VInv, Exact
  <2>9. OwnShows(ownView', Drop(Live, id))
    BY <2>3, <2>7, OwnErase DEF VInv, Exact
  <2> QED  BY <2>6, <2>8, <2>9 DEF Exact
<1>11. CASE t # incoming.traderId
  <2> DEFINE io == incoming.orderId
             it == incoming.traderId
             is == incoming.side
             ip == incoming.price
             c1 == OrderConfirm("Trade", id, t, lp, n, "UnknownOrder")
             c2 == OrderConfirm("Trade", io, it, lp, n, "UnknownOrder")
             m1 == MdUpdate(id, ps, lp, n, "Trade")
             m2 == MdUpdate(io, is, ip, n, "Trade")
             o  == Open(id, t, s, p, q - n)
             z  == Open(io, it, is, ip, r - n)
             L1 == Renew(Live, o)
  <2>1. e.remaining = r - n /\ e.confirms = <<c1, c2>> /\ e.mds = <<m1, m2>>
    BY <1>11 DEF matchStep, tradeStep, Effect
  <2>2. /\ mdView' = ApplyMd(ApplyMd(mdView, m1), m2)
        /\ ownView' = ApplyConfirm(ApplyConfirm(ownView, c1, 0), c2, 0)
    <3> HIDE DEF e, c1, c2, m1, m2
    <3> QED  BY <1>6, <2>1, ReplayCases
  <2> HIDE DEF e, id, t, s, p, q, n, lp, ps
  <2>3. o.id = id /\ o.trader = t /\ o.qty = q - n /\ z.id = io /\ z.trader = it /\ z.qty = r - n
    BY OpenFields
  <2>4. \A x \in Live : x.id = id => x.trader = t /\ q # 0
    BY <1>4, <1>8, OpenFields
  <2>5. MdShows(ApplyMd(mdView, m1), L1)
    BY <1>4, <1>8, <2>4, MdTraded DEF VInv, Exact
  <2>6. OwnShows(ApplyConfirm(ownView, c1, 0), L1)
    BY <1>4, <1>8, <2>4, OwnTraded DEF VInv, Exact
  <2>7. Matching \in L1 /\ \A x \in L1 : x.id = io => x.trader = it
    <3> HIDE DEF o
    <3> QED  BY <1>7, <1>8, <1>9, <2>3 DEF Renew, Drop
  <2>8. Matching = Open(io, it, is, ip, r)
    BY DEF Matching
  <2> HIDE DEF L1, o, z, b, sym
  <2>9. MdShows(mdView', Renew(L1, z))
    <3> DEFINE v == ApplyMd(mdView, m1)
    <3>1. MdShows(v, L1) /\ mdView' = ApplyMd(v, m2) /\ Open(io, it, is, ip, r) \in L1
      BY <2>2, <2>5, <2>7, <2>8
    <3> HIDE DEF v, io, it, is, ip, r
    <3> QED  BY <1>4, <3>1, MdTraded DEF z
  <2>10. OwnShows(ownView', Renew(L1, z))
    <3> DEFINE v == ApplyConfirm(ownView, c1, 0)
    <3>1. OwnShows(v, L1) /\ ownView' = ApplyConfirm(v, c2, 0) /\ Open(io, it, is, ip, r) \in L1
      BY <2>2, <2>6, <2>7, <2>8
    <3> HIDE DEF v, io, it, is, ip, r
    <3> QED  BY <1>4, <2>7, <3>1, OwnTraded DEF z
  <2>11. BooksLive' = Renew(BooksLive, o)
    <3>1. LiveIn(e.book) = Renew(LiveIn(b), o)
      BY <1>4, <1>11 DEF o
    <3> QED  BY <1>1, <1>2, <1>7, <2>3, <3>1, BooksLiveStep DEF VInv, b
  <2>12. Live' = BooksLive' \cup (IF r - n > 0 THEN {z} ELSE {})
    <3>1. (IncomingOpen' <=> r - n > 0) /\ Matching' = z
      BY <1>1, <2>1 DEF IncomingOpen, Matching, z
    <3> QED  BY <3>1 DEF Live
  <2>13. Live' = Renew(L1, z)
    <3>1. L1 = Renew(BooksLive, o) \cup {Matching}
      BY <1>7, <1>9, <2>3 DEF L1, Renew, Drop
    <3>2. Drop(L1, io) = Renew(BooksLive, o)
      BY <1>7, <1>8, <1>9, <2>3, <3>1 DEF Renew, Drop
    <3> QED  BY <2>3, <2>11, <2>12, <3>2 DEF Renew
  <2> QED  BY <2>9, <2>10, <2>13 DEF Exact
<1> QED
  BY <1>10, <1>11

(* addOrder returns: no message is sent, and what is left of the order     *)
(* rests in the book as the views already show it.                         *)
LEMMA addOrder_returnExact ==
  ASSUME VInv, addOrder_return, ObserveStep(0)
  PROVE  Exact'
<1> DEFINE sym == incoming.symbolId
           b   == books[sym]
           c   == addOrder_rest(b, incoming, remainingQty)
           id  == incoming.orderId
<1>1. /\ call = "matching" /\ books' = [books EXCEPT ![sym] = c] /\ call' = "idle"
      /\ confirmsOut' = confirmsOut /\ mdOut' = mdOut
  BY DEF addOrder_return, Return
<1>2. /\ sym \in Symbols /\ remainingQty \in Nat /\ books = [s \in Symbols |-> books[s]]
      /\ confirmsOut \in Seq(Confirmation) /\ mdOut \in Seq(MarketUpdate)
  BY <1>1, QtyModAssumption DEF VInv, IInv, TypeOK, IncomingOrder, Quantity
<1>3. Fresh(mdOut, mdOut') = <<>> /\ Fresh(confirmsOut, confirmsOut') = <<>>
  <2>1. \A S : \A s \in Seq(S) : SubSeq(s, Len(s) + 1, Len(s)) = <<>>
    OBVIOUS
  <2> QED  BY <1>1, <1>2, <2>1 DEF Fresh
<1>4. mdView' = mdView /\ ownView' = ownView
  BY <1>3, ReplayCases DEF ObserveStep
<1>5. Live' = BooksLive'
  BY <1>1 DEF Live, IncomingOpen
<1>6. CASE remainingQty = 0
  <2>1. books' = books
    BY <1>1, <1>2, <1>6 DEF addOrder_rest
  <2>2. BooksLive' = BooksLive
    BY <2>1 DEF BooksLive
  <2>3. Live = BooksLive
    BY <1>6 DEF Live, IncomingOpen
  <2> QED  BY <1>4, <1>5, <2>2, <2>3 DEF VInv, Exact
<1>7. CASE remainingQty > 0
  <2>1. c = RestOrder(b, id, incoming.traderId, incoming.side, incoming.price, remainingQty)
    BY <1>2, <1>7 DEF addOrder_rest
  <2>2. /\ \A s \in Symbols : id \notin DOMAIN books[s].orderMap
        /\ DOMAIN b.orderMap = DOMAIN b.orderDetails
    <3>1. BookInv(b)
      BY <1>2, SoundBooks DEF VInv, IInv
    <3> QED  BY <1>1, <3>1, BookFacts DEF VInv, IInv, IdsUnique
  <2>3. OthersKept(b, c, id)
    BY <2>1, <2>2 DEF RestOrder, Put, OthersKept
  <2>4. /\ c.orderMap[id].m_traderId = incoming.traderId /\ c.orderMap[id].m_quantity = remainingQty
        /\ c.orderDetails[id].side = incoming.side /\ c.orderDetails[id].price = incoming.price
    BY <2>1 DEF RestOrder, Put
  <2>5. OpenOf(c, id) = Matching
    BY <2>4 DEF OpenOf, Matching
  <2> HIDE DEF c
  <2>6. LiveIn(c) = Renew(LiveIn(b), Matching)
    BY <2>3, <2>5, LiveInPut
  <2>7. Matching.id = id /\ Matching.qty = remainingQty
    BY OpenFields DEF Matching
  <2>8. BooksLive' = Renew(BooksLive, Matching)
    <3>1. IInv /\ sym \in Symbols /\ books' = [books EXCEPT ![sym] = c]
      BY <1>1, <1>2 DEF VInv
    <3>2. \A r \in Symbols \ {sym} : id \notin DOMAIN books[r].orderMap
      BY <2>2
    <3> HIDE DEF sym, id
    <3> QED  BY <2>6, <2>7, <3>1, <3>2, BooksLiveStep
  <2>9. Live = BooksLive \cup {Matching} /\ \A x \in BooksLive : x.id # id
    BY <1>1, <1>7, LiveOwner DEF VInv, Live, IncomingOpen
  <2>10. Live' = Live
    BY <1>5, <1>7, <2>7, <2>8, <2>9 DEF Renew, Drop
  <2> QED  BY <1>4, <2>10 DEF VInv, Exact
<1> QED
  BY <1>2, <1>6, <1>7

(* Before the first request there is no order and both views are empty.    *)
LEMMA InitVInv == ReplayInit => VInv
<1> SUFFICES ASSUME ReplayInit PROVE VInv
  OBVIOUS
<1>1. IInv
  BY InitIInv DEF ReplayInit
<1>2. \A s \in Symbols : books[s].orderMap = EmptyMap
  BY DEF ReplayInit, Init, EmptyBook
<1>3. \A s \in Symbols : LiveIn(books[s]) = {}
  BY <1>2 DEF LiveIn, OpenIds, EmptyMap
<1>4. Live = {}
  BY <1>3 DEF Live, BooksLive, IncomingOpen, ReplayInit, Init
<1>5. DOMAIN mdView = {} /\ DOMAIN ownView = {}
  BY DEF ReplayInit, EmptyMap
<1> QED
  BY <1>1, <1>4, <1>5 DEF VInv, Exact, MdShows, OwnShows

(* Every step of the engine keeps both views exact.                        *)
LEMMA NextVInv == VInv /\ [ReplayNext]_replayVars => VInv'
<1> SUFFICES ASSUME VInv, [ReplayNext]_replayVars PROVE VInv'
  OBVIOUS
<1>1. ASSUME NEW t \in Traders, NEW sym \in AllSymbols, NEW side \in Side, NEW p \in Prices,
             NEW q \in Qtys, onOrder(t, sym, side, p, q), ObserveStep(q)
      PROVE  VInv'
  BY <1>1, onOrderIInv, onOrderExact DEF VInv
<1>2. CASE matchAgainst /\ ObserveStep(0)
  BY <1>2, matchAgainstIInv, matchAgainstExact DEF VInv
<1>3. CASE addOrder_return /\ ObserveStep(0)
  BY <1>3, addOrder_returnIInv, addOrder_returnExact DEF VInv
<1>4. ASSUME NEW id \in RequestIds, NEW sym \in AllSymbols, NEW t \in Traders,
             onCancel(id, sym, t), ObserveStep(0)
      PROVE  VInv'
  BY <1>4, onCancelIInv, onCancelExact DEF VInv
<1>5. ASSUME NEW id \in RequestIds, NEW sym \in AllSymbols, NEW t \in Traders, NEW p \in Prices,
             NEW q \in Qtys, onModify(id, sym, t, p, q), ObserveStep(q)
      PROVE  VInv'
  BY <1>5, onModifyIInv, onModifyExact DEF VInv
<1>6. CASE UNCHANGED replayVars
  <2>1. UNCHANGED vars /\ UNCHANGED <<mdView, ownView>>
    BY <1>6 DEF replayVars
  <2>2. IInv'
    BY <2>1, NextIInv DEF VInv
  <2>3. UNCHANGED <<books, call, incoming, remainingQty>>
    BY <2>1 DEF vars
  <2>4. Live' = Live
    BY <2>3 DEF Live, BooksLive, Matching, IncomingOpen
  <2> QED  BY <2>1, <2>2, <2>4 DEF VInv, Exact
<1> QED
  BY <1>1, <1>2, <1>3, <1>4, <1>5, <1>6 DEF ReplayNext

(* Both views and the books always tell the same open orders, in the       *)
(* middle of a request too.                                                *)
THEOREM ReplayInvariant == ReplaySpec => []VInv
BY InitVInv, NextVInv, PTL DEF ReplaySpec

(* Whoever applies every MdUpdate to a copy of its own has the books: no   *)
(* order that trades, is cancelled, is modified or loses its place to the  *)
(* self-trade check leaves the stream and the book apart (the              *)
(* mdOut.push_back calls of order_book.cpp).                               *)
THEOREM MdReplayIsExact == ReplaySpec => []MdReplayExact
<1>1. VInv => MdReplayExact
  BY ViewsMean DEF VInv, Exact
<1> QED
  BY <1>1, ReplayInvariant, PTL

(* A trader's confirmations are enough to know the open quantity of every  *)
(* order of its own (the confirmsOut.push_back calls of order_book.cpp).   *)
THEOREM OwnerViewIsExact == ReplaySpec => []OwnerViewExact
<1>1. VInv => OwnerViewExact
  BY ViewsMean DEF VInv, Exact
<1> QED
  BY <1>1, ReplayInvariant, PTL

=============================================================================
