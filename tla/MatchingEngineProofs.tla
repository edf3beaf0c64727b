------------------------ MODULE MatchingEngineProofs ------------------------
(***************************************************************************)
(* Proofs about the matching engine, for any number of traders, symbols,   *)
(* prices and orders and for any width of Quantity.                        *)
(***************************************************************************)
EXTENDS MatchingEngine, OrderBookProofs

(* The inductive invariant.  The books are only consistent because ids are *)
(* fresh when they are rested, and the types of what is reported need the  *)
(* books to be consistent: neither part is inductive alone.                *)
IInv == TypeOK /\ BooksConsistent /\ IdsUnique

(* Under the invariant every book is sound in the sense of the lemmas of   *)
(* OrderBookProofs.                                                        *)
LEMMA SoundBooks ==
  ASSUME TypeOK, BooksConsistent, NEW s \in Symbols
  PROVE  BookInv(books[s])
BY DEF TypeOK, BooksConsistent, BookInv

(* The invariant holds of a new engine.                                    *)
LEMMA InitIInv == Init => IInv
<1> SUFFICES ASSUME Init PROVE IInv
  OBVIOUS
<1>1. \A s \in Symbols : BookInv(books[s]) /\ DOMAIN books[s].orderMap = {}
  BY EmptyBookInv DEF Init, EmptyBook, EmptyMap
<1>2. TypeOK
  BY <1>1, QtyModAssumption DEF Init, TypeOK, BookInv, OrderId, Quantity
<1>3. BooksConsistent
  BY <1>1 DEF BooksConsistent, BookInv
<1>4. IdsUnique
  BY <1>1 DEF Init, IdsUnique
<1> QED
  BY <1>2, <1>3, <1>4 DEF IInv

(* What a step that replaces the book of one symbol has to show.           *)
LEMMA ReplaceBook ==
  ASSUME IInv, NEW sym \in Symbols, NEW b, BookInv(b),
         books' = [books EXCEPT ![sym] = b]
  PROVE  /\ books' = [s \in Symbols |-> books'[s]]
         /\ \A s \in Symbols : BookTypeOK(books'[s])
         /\ BooksConsistent'
         /\ books'[sym] = b
         /\ \A s \in Symbols \ {sym} : books'[s] = books[s]
BY SoundBooks DEF IInv, TypeOK, BooksConsistent, BookInv

(* onOrder keeps the invariant: the id it gives out is fresh.              *)
LEMMA onOrderIInv ==
  ASSUME IInv, NEW t \in Traders, NEW sym \in AllSymbols, NEW side \in Side,
         NEW p \in Prices, NEW q \in Qtys, onOrder(t, sym, side, p, q)
  PROVE  IInv'
<1>1. UNCHANGED books /\ nextOrderId' = nextOrderId + 1 /\ nextOrderId \in OrderId
  BY DEF onOrder, onOrder_Unlisted, onOrder_Listed, IInv, TypeOK
<1>2. BooksConsistent'
  BY <1>1 DEF IInv, BooksConsistent
<1>3. \A s \in Symbols : \A id \in DOMAIN books[s].orderMap : id < nextOrderId /\ id < nextOrderId'
  <2>1. ASSUME NEW s \in Symbols, NEW id \in DOMAIN books[s].orderMap
        PROVE  id \in Nat /\ id < nextOrderId
    BY DEF IInv, TypeOK, BookTypeOK, IdsUnique, OrderId
  <2> QED  BY <1>1, <2>1 DEF OrderId
<1>4. CASE onOrder_Unlisted(t, sym)
  <2>1. UNCHANGED <<call, incoming, remainingQty>> /\ call = "idle"
        /\ confirmsOut' = <<>> /\ mdOut' = <<>>
    BY <1>4 DEF onOrder, onOrder_Unlisted, Report, Effect
  <2>2. TypeOK'
    BY <1>1, <2>1 DEF IInv, TypeOK, OrderId
  <2>3. IdsUnique'
    BY <1>1, <1>3, <2>1 DEF IInv, IdsUnique
  <2> QED  BY <1>2, <2>2, <2>3 DEF IInv
<1>5. CASE onOrder_Listed(t, sym, side, p, q)
  <2> DEFINE inc == [orderId |-> nextOrderId, traderId |-> t, symbolId |-> sym,
                     side |-> side, price |-> p, qty |-> q]
             e   == addOrder_accept(books[sym], inc)
  <2>1. /\ call' = "matching" /\ incoming' = inc /\ remainingQty' = e.remaining
        /\ confirmsOut' = e.confirms /\ mdOut' = e.mds /\ sym \in Symbols
    BY <1>5 DEF onOrder_Listed, Report
  <2>2. q \in Quantity
    BY QtysAssumption
  <2>3. inc \in IncomingOrder
    BY <1>1, <2>1, <2>2 DEF IncomingOrder
  <2>4. e.remaining = q
    BY DEF addOrder_accept, Effect
  <2>5. Reports(e)
    BY <1>1, <2>2, acceptReports
  <2> HIDE DEF e
  <2>6. TypeOK'
    BY <1>1, <2>1, <2>2, <2>3, <2>4, <2>5 DEF IInv, TypeOK, OrderId, Reports
  <2>7. IdsUnique'
    <3>1. inc.orderId = nextOrderId
      OBVIOUS
    <3>2. \A s \in Symbols : \A id \in DOMAIN books[s].orderMap : id # nextOrderId
      BY <1>1, <1>3 DEF OrderId
    <3>3. inc.orderId < nextOrderId'
      BY <1>1, <3>1 DEF OrderId
    <3> HIDE DEF inc
    <3> QED  BY <1>1, <1>3, <2>1, <3>1, <3>2, <3>3 DEF IInv, IdsUnique
  <2> QED  BY <1>2, <2>6, <2>7 DEF IInv
<1> QED
  BY <1>4, <1>5 DEF onOrder

(* An iteration of matchAgainst keeps the invariant.                       *)
LEMMA matchAgainstIInv ==
  ASSUME IInv, matchAgainst
  PROVE  IInv'
<1> DEFINE sym == incoming.symbolId
           b   == books[sym]
           e   == matchStep(b, incoming, remainingQty)
<1>1. /\ call = "matching" /\ CanMatch(b, incoming, remainingQty)
      /\ books' = [books EXCEPT ![sym] = e.book]
      /\ remainingQty' = e.remaining
      /\ confirmsOut' = confirmsOut \o e.confirms /\ mdOut' = mdOut \o e.mds
      /\ UNCHANGED <<nextOrderId, call, incoming>>
  BY DEF matchAgainst
<1>2. incoming \in IncomingOrder /\ remainingQty \in Quantity
  BY <1>1 DEF IInv, TypeOK
<1>3. /\ sym \in Symbols /\ incoming.side \in Side /\ incoming.price \in Prices
      /\ incoming.orderId \in OrderId /\ incoming.traderId \in Traders
  BY <1>2 DEF IncomingOrder
<1>4. BookInv(b)
  BY <1>3, SoundBooks DEF IInv
<1> HIDE DEF b
<1>5. /\ BookInv(e.book) /\ e.remaining \in Quantity
      /\ DOMAIN e.book.orderMap \subseteq DOMAIN b.orderMap
  BY <1>1, <1>2, <1>3, <1>4, matchStepInv
<1>6. Reports(e)
  BY <1>1, <1>2, <1>3, <1>4, matchStepReports
<1> HIDE DEF e, sym
<1>7. /\ books' = [s \in Symbols |-> books'[s]]
      /\ \A s \in Symbols : BookTypeOK(books'[s])
      /\ BooksConsistent'
      /\ books'[sym] = e.book
      /\ \A s \in Symbols \ {sym} : books'[s] = books[s]
  BY <1>1, <1>3, <1>5, ReplaceBook
<1>8. confirmsOut' \in Seq(Confirmation) /\ mdOut' \in Seq(MarketUpdate)
  BY <1>1, <1>6 DEF IInv, TypeOK, Reports
<1>9. TypeOK'
  BY <1>1, <1>2, <1>5, <1>7, <1>8 DEF IInv, TypeOK
<1>10. \A s \in Symbols : DOMAIN books'[s].orderMap \subseteq DOMAIN books[s].orderMap
  BY <1>3, <1>5, <1>7 DEF b
<1>11. IdsUnique'
  BY <1>1, <1>10 DEF IInv, IdsUnique
<1> QED
  BY <1>7, <1>9, <1>11 DEF IInv

(* Resting what is left keeps the invariant: the id is in no book yet.     *)
LEMMA addOrder_returnIInv ==
  ASSUME IInv, addOrder_return
  PROVE  IInv'
<1> DEFINE sym == incoming.symbolId
           b   == books[sym]
           c   == addOrder_rest(b, incoming, remainingQty)
           id  == incoming.orderId
<1>1. /\ call = "matching"
      /\ books' = [books EXCEPT ![sym] = c]
      /\ call' = "idle" /\ remainingQty' = 0
      /\ UNCHANGED <<nextOrderId, confirmsOut, mdOut>>
  BY DEF addOrder_return, Return
<1>2. incoming \in IncomingOrder /\ remainingQty \in Quantity
  BY <1>1 DEF IInv, TypeOK
<1>3. /\ sym \in Symbols /\ incoming.side \in Side /\ incoming.price \in Prices
      /\ id \in OrderId /\ incoming.traderId \in Traders
  BY <1>2 DEF IncomingOrder
<1>4. BookInv(b)
  BY <1>3, SoundBooks DEF IInv
<1>5. /\ id < nextOrderId
      /\ \A s \in Symbols : id \notin DOMAIN books[s].orderMap
  BY <1>1 DEF IInv, IdsUnique
<1> HIDE DEF id
<1>6. BookInv(c) /\ DOMAIN c.orderMap \subseteq DOMAIN b.orderMap \cup {id}
  <2>1. CASE remainingQty = 0
    BY <1>4, <2>1 DEF addOrder_rest
  <2>2. CASE remainingQty # 0
    <3>1. c = RestOrder(b, id, incoming.traderId, incoming.side, incoming.price, remainingQty)
      BY <2>2 DEF addOrder_rest, id
    <3>2. id \notin DOMAIN b.orderMap
      BY <1>3, <1>5
    <3> HIDE DEF b, c
    <3>3. BookInv(c)
      BY <1>2, <1>3, <1>4, <3>1, <3>2, RestOrderInv
    <3>4. DOMAIN c.orderMap = DOMAIN b.orderMap \cup {id}
      BY <3>1 DEF RestOrder, Put
    <3> QED  BY <3>3, <3>4
  <2> QED  BY <2>1, <2>2
<1> HIDE DEF c, sym
<1>7. /\ books' = [s \in Symbols |-> books'[s]]
      /\ \A s \in Symbols : BookTypeOK(books'[s])
      /\ BooksConsistent'
      /\ books'[sym] = c
      /\ \A s \in Symbols \ {sym} : books'[s] = books[s]
  BY <1>1, <1>3, <1>6, ReplaceBook
<1>8. TypeOK'
  BY <1>1, <1>7, QtyModAssumption DEF IInv, TypeOK, Quantity
<1>9. IdsUnique'
  <2>1. ASSUME NEW s \in Symbols, NEW x \in DOMAIN books'[s].orderMap
        PROVE  /\ x \in DOMAIN books[s].orderMap \/ (x = id /\ s = sym)
               /\ x < nextOrderId'
               /\ \A r \in Symbols \ {s} : x \notin DOMAIN books'[r].orderMap
    <3>1. x \in DOMAIN books[s].orderMap \/ (x = id /\ s = sym)
      BY <1>6, <1>7
    <3>2. x < nextOrderId'
      BY <1>1, <1>5, <3>1 DEF IInv, IdsUnique
    <3>3. ASSUME NEW r \in Symbols \ {s}, x \in DOMAIN books'[r].orderMap PROVE FALSE
      <4>1. x \in DOMAIN books[r].orderMap \/ (x = id /\ r = sym)
        BY <1>6, <1>7, <3>3
      <4> QED  BY <1>5, <3>1, <4>1 DEF IInv, IdsUnique
    <3> QED  BY <3>1, <3>2, <3>3
  <2> QED  BY <1>1, <2>1 DEF IdsUnique
<1> QED
  BY <1>7, <1>8, <1>9 DEF IInv

(* A step that reports e and replaces the book of a listed symbol.         *)
LEMMA CallIInv ==
  ASSUME IInv, NEW sym, NEW e, Reports(e),
         books' = IF sym \in Symbols THEN [books EXCEPT ![sym] = e.book] ELSE books,
         sym \in Symbols => /\ BookInv(e.book)
                            /\ DOMAIN e.book.orderMap \subseteq DOMAIN books[sym].orderMap,
         Report(e), UNCHANGED <<nextOrderId, call, incoming, remainingQty>>
  PROVE  IInv'
<1>1. confirmsOut' \in Seq(Confirmation) /\ mdOut' \in Seq(MarketUpdate)
  BY DEF Report, Reports
<1>2. /\ books' = [s \in Symbols |-> books'[s]]
      /\ \A s \in Symbols : BookTypeOK(books'[s])
      /\ BooksConsistent'
      /\ \A s \in Symbols : DOMAIN books'[s].orderMap \subseteq DOMAIN books[s].orderMap
  <2>1. CASE sym \in Symbols
    <3>1. /\ books' = [s \in Symbols |-> books'[s]]
          /\ \A s \in Symbols : BookTypeOK(books'[s])
          /\ BooksConsistent'
          /\ books'[sym] = e.book
          /\ \A s \in Symbols \ {sym} : books'[s] = books[s]
      BY <2>1, ReplaceBook
    <3> QED  BY <2>1, <3>1
  <2>2. CASE sym \notin Symbols
    BY <2>2 DEF IInv, TypeOK, BooksConsistent
  <2> QED  BY <2>1, <2>2
<1>3. TypeOK'
  BY <1>1, <1>2 DEF IInv, TypeOK
<1>4. IdsUnique'
  BY <1>2 DEF IInv, IdsUnique
<1> QED
  BY <1>2, <1>3, <1>4 DEF IInv

(* A call that reports nothing reports nothing ill-formed.                 *)
LEMMA SilentReports == Reports(Effect(EmptyBook, 0, <<>>, <<>>))
BY DEF Reports, Effect

(* onCancel keeps the invariant.                                           *)
LEMMA onCancelIInv ==
  ASSUME IInv, NEW id \in RequestIds, NEW sym \in AllSymbols, NEW t \in Traders,
         onCancel(id, sym, t)
  PROVE  IInv'
<1> DEFINE e == IF sym \in Symbols THEN cancelOrder(books[sym], id, t)
                                   ELSE Effect(EmptyBook, 0, <<>>, <<>>)
<1>1. /\ books' = IF sym \in Symbols THEN [books EXCEPT ![sym] = e.book] ELSE books
      /\ Report(e)
      /\ UNCHANGED <<nextOrderId, call, incoming, remainingQty>>
  BY DEF onCancel
<1>2. id \in OrderId
  BY MaxOrdersAssumption DEF RequestIds, OrderId
<1>3. Reports(e)
  BY <1>2, SoundBooks, SilentReports, cancelOrderReports DEF IInv
<1>4. sym \in Symbols => /\ BookInv(e.book)
                         /\ DOMAIN e.book.orderMap \subseteq DOMAIN books[sym].orderMap
  BY SoundBooks, cancelOrderInv DEF IInv
<1> HIDE DEF e
<1> QED
  BY <1>1, <1>3, <1>4, CallIInv

(* onModify keeps the invariant.                                           *)
LEMMA onModifyIInv ==
  ASSUME IInv, NEW id \in RequestIds, NEW sym \in AllSymbols, NEW t \in Traders,
         NEW p \in Prices, NEW q \in Qtys, onModify(id, sym, t, p, q)
  PROVE  IInv'
<1> DEFINE e == IF sym \in Symbols THEN modifyOrder(books[sym], id, t, p, q)
                                   ELSE Effect(EmptyBook, 0, <<>>, <<>>)
<1>1. /\ books' = IF sym \in Symbols THEN [books EXCEPT ![sym] = e.book] ELSE books
      /\ Report(e)
      /\ UNCHANGED <<nextOrderId, call, incoming, remainingQty>>
  BY DEF onModify
<1>2. id \in OrderId /\ q \in Quantity
  BY MaxOrdersAssumption, QtysAssumption DEF RequestIds, OrderId
<1>3. Reports(e)
  BY <1>2, SoundBooks, SilentReports, modifyOrderReports DEF IInv
<1>4. sym \in Symbols => /\ BookInv(e.book)
                         /\ DOMAIN e.book.orderMap \subseteq DOMAIN books[sym].orderMap
  BY <1>2, SoundBooks, modifyOrderInv DEF IInv
<1> HIDE DEF e
<1> QED
  BY <1>1, <1>3, <1>4, CallIInv

(* Every step keeps the invariant.                                         *)
LEMMA NextIInv == IInv /\ [Next]_vars => IInv'
<1> SUFFICES ASSUME IInv, [Next]_vars PROVE IInv'
  OBVIOUS
<1>1. ASSUME NEW t \in Traders, NEW sym \in AllSymbols, NEW side \in Side, NEW p \in Prices,
             NEW q \in Qtys, onOrder(t, sym, side, p, q)
      PROVE  IInv'
  BY <1>1, onOrderIInv
<1>2. CASE matchAgainst
  BY <1>2, matchAgainstIInv
<1>3. CASE addOrder_return
  BY <1>3, addOrder_returnIInv
<1>4. ASSUME NEW id \in RequestIds, NEW sym \in AllSymbols, NEW t \in Traders,
             onCancel(id, sym, t)
      PROVE  IInv'
  BY <1>4, onCancelIInv
<1>5. ASSUME NEW id \in RequestIds, NEW sym \in AllSymbols, NEW t \in Traders, NEW p \in Prices,
             NEW q \in Qtys, onModify(id, sym, t, p, q)
      PROVE  IInv'
  BY <1>5, onModifyIInv
<1>6. CASE UNCHANGED vars
  BY <1>6 DEF vars, IInv, TypeOK, BooksConsistent, IdsUnique
<1> QED
  BY <1>1, <1>2, <1>3, <1>4, <1>5, <1>6 DEF Next

(* At every point of every call the engine is well typed, its books are    *)
(* consistent and its order ids are unique.                                *)
THEOREM InductiveInvariant == Spec => []IInv
<1>1. Init => IInv
  BY InitIInv
<1>2. IInv /\ [Next]_vars => IInv'
  BY NextIInv
<1> QED
  BY <1>1, <1>2, PTL DEF Spec

(* Every variable of the engine always has its type.                       *)
THEOREM TypeCorrect == Spec => []TypeOK
<1>1. IInv => TypeOK
  BY DEF IInv
<1> QED
  BY <1>1, InductiveInvariant, PTL

(* The levels and indexes of every book always agree.                      *)
THEOREM Consistency == Spec => []BooksConsistent
<1>1. IInv => BooksConsistent
  BY DEF IInv
<1> QED
  BY <1>1, InductiveInvariant, PTL

(* Order ids are never shared between orders.                              *)
THEOREM UniqueIds == Spec => []IdsUnique
<1>1. IInv => IdsUnique
  BY DEF IInv
<1> QED
  BY <1>1, InductiveInvariant, PTL

-----------------------------------------------------------------------------
(* Action properties.                                                      *)

(* Which actions a step of the engine can be while a call is running.      *)
LEMMA RunningSteps ==
  ASSUME Next, call = "matching"
  PROVE  matchAgainst \/ addOrder_return
BY DEF Next, onOrder, onCancel, onModify

(* An iteration of matchAgainst takes an order out of the book or uses up  *)
(* the incoming order.                                                     *)
LEMMA MatchProgressStep ==
  ASSUME IInv, Next, call = "matching", call' = "matching"
  PROVE  \/ remainingQty' = 0
         \/ \E id \in DOMAIN books[incoming.symbolId].orderMap :
              /\ id \notin DOMAIN books'[incoming.symbolId].orderMap
              /\ DOMAIN books'[incoming.symbolId].orderMap
                   \subseteq DOMAIN books[incoming.symbolId].orderMap
<1> DEFINE sym == incoming.symbolId
           b   == books[sym]
           e   == matchStep(b, incoming, remainingQty)
           id  == peekFirst(b, incoming)
<1>1. matchAgainst
  BY RunningSteps DEF addOrder_return, Return
<1>2. /\ CanMatch(b, incoming, remainingQty)
      /\ books' = [books EXCEPT ![sym] = e.book] /\ remainingQty' = e.remaining
  BY <1>1 DEF matchAgainst
<1>3. incoming \in IncomingOrder /\ remainingQty \in Quantity /\ DOMAIN books = Symbols
  BY DEF IInv, TypeOK
<1>4. sym \in Symbols /\ incoming.side \in Side
  BY <1>3 DEF IncomingOrder
<1>5. BookInv(b)
  BY <1>4, SoundBooks DEF IInv
<1>6. books'[sym] = e.book
  BY <1>2, <1>3, <1>4
<1> HIDE DEF b
<1>7. \/ DOMAIN e.book.orderMap = DOMAIN b.orderMap \ {id}
      \/ e.remaining = 0
  BY <1>2, <1>3, <1>4, <1>5, matchStepInv
<1>8. id \in DOMAIN b.orderMap
  BY <1>2, <1>4, <1>5, FirstInLine
<1> HIDE DEF e, id
<1> QED
  BY <1>2, <1>6, <1>7, <1>8 DEF b

(* The loops of matchAgainst make progress in every iteration.             *)
THEOREM Progress == Spec => MatchProgress
<1>1. ASSUME IInv, [Next]_vars
      PROVE  [call = "matching" /\ call' = "matching" =>
                \/ remainingQty' = 0
                \/ \E id \in DOMAIN books[incoming.symbolId].orderMap :
                     /\ id \notin DOMAIN books'[incoming.symbolId].orderMap
                     /\ DOMAIN books'[incoming.symbolId].orderMap
                          \subseteq DOMAIN books[incoming.symbolId].orderMap]_vars
  BY <1>1, MatchProgressStep
<1> QED
  BY <1>1, InductiveInvariant, PTL DEF Spec, MatchProgress

(* Outside the limit of an order that cannot match there is nothing to     *)
(* trade with: the best price of the other side bounds all its orders.     *)
LEMMA NothingCrosses ==
  ASSUME NEW b, BookInv(b), NEW inc, inc.side \in Side, inc.price \in Prices,
         NEW rem \in Quantity, rem # 0, ~CanMatch(b, inc, rem),
         NEW o \in Resting(b, oppositeSide(inc.side))
  PROVE  ~Crosses(inc.side, inc.price, b.orderDetails[o].price)
<1> DEFINE s    == oppositeSide(inc.side)
           p    == b.orderDetails[o].price
           best == BestPrice(s, b.levels[s])
<1>1. s \in Side
  BY DEF oppositeSide, Side
<1>2. At(b, o, s, p)
  BY DEF Resting, At
<1>3. p \in DOMAIN b.levels[s] /\ DOMAIN b.levels[s] \subseteq Prices
  BY <1>1, <1>2, BookFacts DEF InLevel, BookInv, BookTypeOK
<1>4. best \in DOMAIN b.levels[s] /\ ~Better(s, p, best)
  BY <1>1, <1>3, BestPriceFacts
<1>5. ~canTrade(inc, best)
  BY <1>3, QtyModAssumption DEF CanMatch, Quantity
<1>6. p \in Nat /\ best \in Nat /\ inc.price \in Nat
  BY <1>3, <1>4, MaxPriceAssumption DEF Prices
<1> HIDE DEF p, best
<1>7. ~Crosses(inc.side, inc.price, p)
  BY <1>4, <1>5, <1>6 DEF canTrade, Crosses, Better, oppositeSide, Side, s
<1> QED
  BY <1>7 DEF p

(* When the loops of matchAgainst are left with a rest, nothing on the     *)
(* other side crosses it.                                                  *)
LEMMA RestsUncrossedStep ==
  ASSUME IInv, Next, call = "matching", call' = "idle", NEW s \in Symbols,
         NEW new \in DOMAIN books'[s].orderMap \ DOMAIN books[s].orderMap,
         NEW o \in Resting(books'[s], oppositeSide(books'[s].orderDetails[new].side))
  PROVE  ~Crosses(books'[s].orderDetails[new].side, books'[s].orderDetails[new].price,
                  books'[s].orderDetails[o].price)
<1> DEFINE sym == incoming.symbolId
           b   == books[sym]
           c   == addOrder_rest(b, incoming, remainingQty)
           id  == incoming.orderId
<1>1. addOrder_return
  BY RunningSteps DEF matchAgainst
<1>2. ~CanMatch(b, incoming, remainingQty) /\ books' = [books EXCEPT ![sym] = c]
  BY <1>1 DEF addOrder_return
<1>3. incoming \in IncomingOrder /\ remainingQty \in Quantity /\ DOMAIN books = Symbols
  BY DEF IInv, TypeOK
<1>4. sym \in Symbols /\ incoming.side \in Side /\ incoming.price \in Prices
  BY <1>3 DEF IncomingOrder
<1>5. BookInv(b)
  BY <1>4, SoundBooks DEF IInv
<1>6. s = sym /\ books'[s] = c
  BY <1>2, <1>3, <1>4
<1>7. remainingQty # 0
  BY <1>6 DEF addOrder_rest
<1>8. c = RestOrder(b, id, incoming.traderId, incoming.side, incoming.price, remainingQty)
  BY <1>7 DEF addOrder_rest
<1>9. /\ new = id
      /\ c.orderDetails[id].side = incoming.side
      /\ c.orderDetails[id].price = incoming.price
  BY <1>6, <1>8 DEF RestOrder, Put
<1>10. o \in Resting(b, oppositeSide(incoming.side)) /\ c.orderDetails[o] = b.orderDetails[o]
  <2>1. o \in DOMAIN c.orderDetails /\ c.orderDetails[o].side = oppositeSide(incoming.side)
    BY <1>6, <1>9 DEF Resting
  <2>2. o # id
    BY <1>4, <1>9, <2>1 DEF oppositeSide, Side
  <2> QED  BY <1>8, <2>1, <2>2 DEF RestOrder, Put, Resting
<1> HIDE DEF b, c
<1>11. ~Crosses(incoming.side, incoming.price, b.orderDetails[o].price)
  BY <1>2, <1>3, <1>4, <1>5, <1>7, <1>10, NothingCrosses
<1> QED
  BY <1>6, <1>9, <1>10, <1>11

(* A new order is rested only when nothing it could trade with is left.    *)
THEOREM NoMissedTrade == Spec => RestsUncrossed
<1>1. ASSUME IInv, [Next]_vars
      PROVE  [\A s \in Symbols : call = "matching" /\ call' = "idle" =>
                \A new \in DOMAIN books'[s].orderMap \ DOMAIN books[s].orderMap :
                  LET d == books'[s].orderDetails[new]
                  IN  \A o \in Resting(books'[s], oppositeSide(d.side)) :
                        ~Crosses(d.side, d.price, books'[s].orderDetails[o].price)]_vars
  BY <1>1, RestsUncrossedStep
<1> QED
  BY <1>1, InductiveInvariant, PTL DEF Spec, RestsUncrossed

-----------------------------------------------------------------------------
(* OpenWithinEntered.                                                      *)

(* The part of OpenWithinEntered that is about one book.                   *)
Within(b) == \A id \in DOMAIN b.orderMap : b.orderMap[id].m_quantity <= b.orderDetails[id].quantity

(* An iteration of matchAgainst remembers nothing new and makes no open    *)
(* quantity larger.                                                        *)
LEMMA matchStepWithin ==
  ASSUME NEW b, BookInv(b), Within(b), NEW inc, inc.side \in Side,
         NEW rem \in Quantity, CanMatch(b, inc, rem)
  PROVE  Within(matchStep(b, inc, rem).book)
<1> DEFINE s    == oppositeSide(inc.side)
           p    == BestLevelPrice(b, inc)
           id   == peekFirst(b, inc)
           elem == b.orderMap[id]
           qty  == TradeQty(b, inc, rem)
           left == elem.m_quantity - qty
           c    == matchStep(b, inc, rem).book
<1>1. id \in DOMAIN b.orderMap /\ elem \in BookElement /\ DOMAIN b.orderMap = DOMAIN b.orderDetails
  BY FirstInLine, BookFacts
<1>2. /\ left \in Nat /\ left <= elem.m_quantity /\ elem.m_quantity \in Nat
      /\ b.orderDetails[id].quantity \in Nat
  <2>1. b.orderDetails[id] \in OrderDetails
    BY <1>1 DEF BookInv, BookTypeOK
  <2> QED  BY <1>1, <2>1, QtyModAssumption DEF TradeQty, BookElement, OrderDetails, Quantity
<1>3. \/ c.orderMap = Erase(b.orderMap, id) /\ c.orderDetails = Erase(b.orderDetails, id)
      \/ /\ c.orderMap = Put(b.orderMap, id, [m_traderId |-> elem.m_traderId, m_quantity |-> left])
         /\ c.orderDetails = b.orderDetails
  BY DEF matchStep, selfTradeStep, tradeStep, BookAfterTrade, DropOrder, Effect
<1> HIDE DEF c, elem, left, id
<1>4. ASSUME c.orderMap = Erase(b.orderMap, id) /\ c.orderDetails = Erase(b.orderDetails, id)
      PROVE  Within(c)
  BY <1>1, <1>4 DEF Erase, Restrict, Within
<1>5. ASSUME /\ c.orderMap = Put(b.orderMap, id, [m_traderId |-> elem.m_traderId, m_quantity |-> left])
             /\ c.orderDetails = b.orderDetails
      PROVE  Within(c)
  <2>1. elem.m_quantity <= b.orderDetails[id].quantity
    BY <1>1 DEF Within, elem
  <2> QED  BY <1>1, <1>2, <1>5, <2>1 DEF Put, Within
<1>6. Within(c)
  BY <1>3, <1>4, <1>5
<1> QED
  BY <1>6 DEF c

(* Resting, cancelling and modifying: what is remembered of an order is    *)
(* written together with its quantity.                                     *)
LEMMA CallWithin ==
  ASSUME NEW b, BookInv(b), Within(b)
  PROVE  /\ \A inc, rem : rem \in Quantity => Within(addOrder_rest(b, inc, rem))
         /\ \A id, t : Within(cancelOrder(b, id, t).book)
         /\ \A id, t, np, nq : nq \in Quantity => Within(modifyOrder(b, id, t, np, nq).book)
<1>1. DOMAIN b.orderMap = DOMAIN b.orderDetails
  BY BookFacts
<1>2. ASSUME NEW m, NEW d, NEW id, NEW t, NEW s, NEW p, NEW q \in Quantity,
             m = Put(b.orderMap, id, [m_traderId |-> t, m_quantity |-> q]),
             d = Put(b.orderDetails, id, [side |-> s, price |-> p, quantity |-> q])
      PROVE  \A x \in DOMAIN m : m[x].m_quantity <= d[x].quantity
  BY <1>1, <1>2, QtyModAssumption DEF Put, Within, Quantity
<1>3. ASSUME NEW inc, NEW rem \in Quantity PROVE Within(addOrder_rest(b, inc, rem))
  BY <1>2 DEF addOrder_rest, RestOrder, Within
<1>4. ASSUME NEW id, NEW t PROVE Within(cancelOrder(b, id, t).book)
  BY <1>1 DEF cancelOrder, Effect, Within, Erase, Restrict
<1>5. ASSUME NEW id, NEW t, NEW np, NEW nq \in Quantity PROVE Within(modifyOrder(b, id, t, np, nq).book)
  BY <1>2 DEF modifyOrder, Effect, Within
<1> QED
  BY <1>3, <1>4, <1>5

(* Every step keeps OpenWithinEntered.                                     *)
LEMMA NextWithin ==
  ASSUME IInv, OpenWithinEntered, Next
  PROVE  OpenWithinEntered'
<1>1. \A s \in Symbols : Within(books[s]) /\ BookInv(books[s])
  BY SoundBooks DEF OpenWithinEntered, Within, IInv
<1>2. DOMAIN books = Symbols
  BY DEF IInv, TypeOK
<1>3. ASSUME NEW sym, NEW b, books' = [books EXCEPT ![sym] = b], sym \in Symbols => Within(b)
      PROVE  OpenWithinEntered'
  <2>1. \A s \in Symbols : Within(books'[s])
    BY <1>1, <1>2, <1>3
  <2> QED  BY <2>1 DEF OpenWithinEntered, Within
<1>4. CASE UNCHANGED books
  BY <1>4 DEF OpenWithinEntered
<1>5. CASE matchAgainst
  <2> DEFINE b == books[incoming.symbolId]
  <2>1. /\ call = "matching" /\ CanMatch(b, incoming, remainingQty)
        /\ books' = [books EXCEPT ![incoming.symbolId] = matchStep(b, incoming, remainingQty).book]
    BY <1>5 DEF matchAgainst
  <2>2. incoming.symbolId \in Symbols /\ incoming.side \in Side /\ remainingQty \in Quantity
    BY <2>1 DEF IInv, TypeOK, IncomingOrder
  <2>3. Within(b) /\ BookInv(b)
    BY <1>1, <2>2
  <2> HIDE DEF b
  <2>4. Within(matchStep(b, incoming, remainingQty).book)
    BY <2>1, <2>2, <2>3, matchStepWithin
  <2> QED  BY <1>3, <2>1, <2>4
<1>6. CASE addOrder_return
  <2> DEFINE b == books[incoming.symbolId]
  <2>1. /\ call = "matching"
        /\ books' = [books EXCEPT ![incoming.symbolId] = addOrder_rest(b, incoming, remainingQty)]
    BY <1>6 DEF addOrder_return
  <2>2. incoming.symbolId \in Symbols /\ remainingQty \in Quantity
    BY <2>1 DEF IInv, TypeOK, IncomingOrder
  <2>3. Within(b) /\ BookInv(b)
    BY <1>1, <2>2
  <2> HIDE DEF b
  <2>4. Within(addOrder_rest(b, incoming, remainingQty))
    BY <2>2, <2>3, CallWithin
  <2> QED  BY <1>3, <2>1, <2>4
<1>7. ASSUME NEW id \in RequestIds, NEW sym \in AllSymbols, NEW t \in Traders, onCancel(id, sym, t)
      PROVE  OpenWithinEntered'
  <2>1. CASE sym \in Symbols
    <3>1. books' = [books EXCEPT ![sym] = cancelOrder(books[sym], id, t).book]
      BY <1>7, <2>1 DEF onCancel
    <3>2. Within(cancelOrder(books[sym], id, t).book)
      BY <1>1, <2>1, CallWithin
    <3> QED  BY <1>3, <3>1, <3>2
  <2>2. CASE sym \notin Symbols
    BY <1>4, <1>7, <2>2 DEF onCancel
  <2> QED  BY <2>1, <2>2
<1>8. ASSUME NEW id \in RequestIds, NEW sym \in AllSymbols, NEW t \in Traders, NEW p \in Prices,
             NEW q \in Qtys, onModify(id, sym, t, p, q)
      PROVE  OpenWithinEntered'
  <2>1. CASE sym \in Symbols
    <3>1. books' = [books EXCEPT ![sym] = modifyOrder(books[sym], id, t, p, q).book]
      BY <1>8, <2>1 DEF onModify
    <3>2. q \in Quantity
      BY QtysAssumption
    <3>3. Within(modifyOrder(books[sym], id, t, p, q).book)
      BY <1>1, <2>1, <3>2, CallWithin
    <3> QED  BY <1>3, <3>1, <3>3
  <2>2. CASE sym \notin Symbols
    BY <1>4, <1>8, <2>2 DEF onModify
  <2> QED  BY <2>1, <2>2
<1>9. ASSUME NEW t \in Traders, NEW sym \in AllSymbols, NEW side \in Side, NEW p \in Prices,
             NEW q \in Qtys, onOrder(t, sym, side, p, q)
      PROVE  UNCHANGED books
  BY <1>9 DEF onOrder, onOrder_Unlisted, onOrder_Listed
<1> QED
  BY <1>4, <1>5, <1>6, <1>7, <1>8, <1>9 DEF Next

(* What orderDetails remembers of an order's quantity is never below its   *)
(* open quantity: a modify that keeps its place never makes an order       *)
(* larger than it was when it took that place (order_book.cpp:211-216).    *)
THEOREM NeverAboveEntered == Spec => []OpenWithinEntered
<1>1. Init => OpenWithinEntered
  BY DEF Init, OpenWithinEntered, EmptyBook, EmptyMap
<1>2. IInv /\ OpenWithinEntered /\ [Next]_vars => OpenWithinEntered'
  <2>1. OpenWithinEntered /\ UNCHANGED vars => OpenWithinEntered'
    BY DEF vars, OpenWithinEntered
  <2> QED  BY <2>1, NextWithin
<1> QED
  BY <1>1, <1>2, InductiveInvariant, PTL DEF Spec

-----------------------------------------------------------------------------
(* BestExecution.                                                          *)

(* Order x is the i-th and y the j-th at r, q.                             *)
Stand(b, r, q, i, j, x, y) ==
  /\ r \in Side /\ q \in DOMAIN b.levels[r]
  /\ i \in DOMAIN b.levels[r][q].mOrders /\ j \in DOMAIN b.levels[r][q].mOrders
  /\ i < j /\ b.levels[r][q].mOrders[i] = x /\ b.levels[r][q].mOrders[j] = y

(* The order matchAgainst takes is one the incoming order may trade with.  *)
LEMMA FirstIsFair ==
  ASSUME NEW b, BookInv(b), NEW inc, inc.side \in Side, inc.price \in Prices, NEW rem, CanMatch(b, inc, rem),
         NEW id, id = peekFirst(b, inc), b.orderMap[id].m_traderId # inc.traderId
  PROVE  FairCounterparty(b, inc, id) /\ b.orderDetails[id].price = BestLevelPrice(b, inc)
<1> DEFINE s == oppositeSide(inc.side)
           p == BestLevelPrice(b, inc)
           line == b.levels[s][p].mOrders
<1>1. /\ s \in Side /\ p \in DOMAIN b.levels[s] /\ At(b, id, s, p)
      /\ DOMAIN b.levels[s] \subseteq Prices /\ DOMAIN b.levels[s] # {}
  BY FirstInLine DEF BookInv, BookTypeOK
<1>2. id \in Resting(b, s) /\ b.orderDetails[id].price = p
  BY <1>1 DEF At, Resting
<1>3. p = BestPrice(s, b.levels[s]) /\ id = Head(line)
  BY DEF BestLevelPrice, peekFirst
<1>4. \A q \in DOMAIN b.levels[s] : ~Better(s, q, p)
  BY <1>1, <1>3, BestPriceFacts
<1>5. Crosses(inc.side, inc.price, p)
  <2>1. canTrade(inc, p)
    BY <1>3 DEF CanMatch
  <2> HIDE DEF p
  <2> QED  BY <2>1 DEF canTrade, Crosses
<1>6. \A o \in Resting(b, s) : b.orderDetails[o].price \in DOMAIN b.levels[s]
  BY BookFacts DEF Resting, At, InLevel
<1>7. line \in Seq(OrderId) /\ line # <<>> /\ \A i, j \in DOMAIN line : line[i] = line[j] => i = j
  BY <1>1, QueueFacts DEF Holds
<1>8. id = line[1] /\ 1 \in DOMAIN line /\ DOMAIN line \subseteq Nat \ {0}
  <2> HIDE DEF line
  <2> QED  BY <1>3, <1>7
<1>9. ASSUME NEW o, Before(b, o, id) PROVE FALSE
  <2>1. PICK r, q, i, j : Stand(b, r, q, i, j, o, id)
    BY <1>9 DEF Before, Stand
  <2>2. At(b, id, r, q)
    BY <2>1, BookFacts DEF Stand
  <2>3. r = s /\ q = p
    BY <1>1, <2>2 DEF At
  <2>4. j = 1
    BY <1>7, <1>8, <2>1, <2>3 DEF Stand
  <2>5. i \in Nat \ {0}
    BY <1>8, <2>1, <2>3 DEF Stand
  <2> QED  BY <2>1, <2>4, <2>5 DEF Stand
<1> QED
  BY <1>2, <1>4, <1>5, <1>6, <1>9 DEF FairCounterparty

(* The confirmations of a trade name the two orders of it.                 *)
LEMMA TradeConfirms ==
  ASSUME NEW b, NEW inc, NEW rem, NEW i \in DOMAIN matchStep(b, inc, rem).confirms,
         NEW c, c = matchStep(b, inc, rem).confirms[i], c.type = "Trade"
  PROVE  /\ b.orderMap[peekFirst(b, inc)].m_traderId # inc.traderId
         /\ c.price = BestLevelPrice(b, inc)
         /\ \/ c.orderId = inc.orderId /\ c.traderId = inc.traderId
            \/ c.orderId = peekFirst(b, inc) /\ c.traderId = b.orderMap[peekFirst(b, inc)].m_traderId
<1> DEFINE id == peekFirst(b, inc)
           t  == b.orderMap[id].m_traderId
           p  == BestLevelPrice(b, inc)
           n  == TradeQty(b, inc, rem)
           c0 == OrderConfirm("CancelAck", id, t, 0, b.orderMap[id].m_quantity, "SelfTrade")
           c1 == OrderConfirm("Trade", id, t, p, n, "UnknownOrder")
           c2 == OrderConfirm("Trade", inc.orderId, inc.traderId, p, n, "UnknownOrder")
           s  == matchStep(b, inc, rem).confirms
<1>1. c0.type = "CancelAck" /\ c1.orderId = id /\ c1.traderId = t /\ c1.price = p
      /\ c2.orderId = inc.orderId /\ c2.traderId = inc.traderId /\ c2.price = p
  BY DEF OrderConfirm
<1>2. s = IF t = inc.traderId THEN <<c0>> ELSE <<c1, c2>>
  BY DEF matchStep, selfTradeStep, tradeStep, Effect
<1> HIDE DEF c0, c1, c2, s
<1>3. c = s[i] /\ i \in DOMAIN s
  BY DEF s
<1>4. t # inc.traderId
  <2> SUFFICES ASSUME t = inc.traderId PROVE FALSE
    OBVIOUS
  <2>1. c = c0
    BY <1>2, <1>3
  <2> QED  BY <1>1, <2>1
<1>5. c = c1 \/ c = c2
  BY <1>2, <1>3, <1>4
<1> QED
  BY <1>1, <1>4, <1>5

(* What a step reports while an order is being matched.                    *)
LEMMA BestExecutionStep ==
  ASSUME IInv, Next, call = "matching", NEW i \in (Len(confirmsOut) + 1) .. Len(confirmsOut'),
         confirmsOut'[i].type = "Trade"
  PROVE  LET c == confirmsOut'[i]
             b == books[incoming.symbolId]
         IN  \E o \in DOMAIN b.orderDetails :
               /\ FairCounterparty(b, incoming, o) /\ c.price = b.orderDetails[o].price
               /\ \/ c.orderId = incoming.orderId /\ c.traderId = incoming.traderId
                  \/ c.orderId = o /\ c.traderId = b.orderMap[o].m_traderId
<1> DEFINE b == books[incoming.symbolId]
           e == matchStep(b, incoming, remainingQty)
           c == confirmsOut'[i]
<1>0. confirmsOut \in Seq(Confirmation) /\ Len(confirmsOut) \in Nat
  BY DEF IInv, TypeOK
<1>1. matchAgainst
  BY <1>0, RunningSteps DEF addOrder_return
<1>2. CanMatch(b, incoming, remainingQty) /\ confirmsOut' = confirmsOut \o e.confirms
  BY <1>1 DEF matchAgainst
<1>3. /\ incoming.symbolId \in Symbols /\ incoming.side \in Side /\ remainingQty \in Quantity
      /\ incoming.price \in Prices /\ incoming.orderId \in OrderId /\ incoming.traderId \in Traders
  BY DEF IInv, TypeOK, IncomingOrder
<1>4. BookInv(b)
  BY <1>3, SoundBooks DEF IInv
<1>5. e.confirms \in Seq(Confirmation)
  BY <1>2, <1>3, <1>4, matchStepReports DEF Reports
<1> DEFINE k == i - Len(confirmsOut)
<1> HIDE DEF b, e
<1>6. k \in DOMAIN e.confirms /\ c = e.confirms[k]
  BY <1>0, <1>2, <1>5
<1> HIDE DEF c, k
<1>7. c.type = "Trade"
  BY DEF c
<1>8. /\ b.orderMap[peekFirst(b, incoming)].m_traderId # incoming.traderId
      /\ c.price = BestLevelPrice(b, incoming)
      /\ \/ c.orderId = incoming.orderId /\ c.traderId = incoming.traderId
         \/ /\ c.orderId = peekFirst(b, incoming)
            /\ c.traderId = b.orderMap[peekFirst(b, incoming)].m_traderId
  BY <1>6, <1>7, TradeConfirms DEF e
<1>9. /\ FairCounterparty(b, incoming, peekFirst(b, incoming))
      /\ b.orderDetails[peekFirst(b, incoming)].price = BestLevelPrice(b, incoming)
  BY <1>2, <1>3, <1>4, <1>8, FirstIsFair
<1>10. peekFirst(b, incoming) \in DOMAIN b.orderDetails
  BY <1>9 DEF FairCounterparty, Resting
<1> QED
  BY <1>8, <1>9, <1>10 DEF b, c

(* Every trade is at the price of the best order that is first in line,    *)
(* inside the incoming limit and between two traders (matchAgainst,        *)
(* order_book.cpp:34-110).                                                 *)
THEOREM TradesAtBest == Spec => BestExecution
<1>1. ASSUME IInv, [Next]_vars
      PROVE  [\A i \in (Len(confirmsOut) + 1) .. Len(confirmsOut') :
                LET c == confirmsOut'[i]
                    b == books[incoming.symbolId]
                IN  call = "matching" /\ c.type = "Trade" =>
                      \E o \in DOMAIN b.orderDetails :
                        /\ FairCounterparty(b, incoming, o) /\ c.price = b.orderDetails[o].price
                        /\ \/ c.orderId = incoming.orderId /\ c.traderId = incoming.traderId
                           \/ c.orderId = o /\ c.traderId = b.orderMap[o].m_traderId]_vars
  BY <1>1, BestExecutionStep
<1> QED
  BY <1>1, InductiveInvariant, PTL DEF Spec, BestExecution

-----------------------------------------------------------------------------
(* NoQueueJump.                                                            *)

(* The queues of book c are those of b, but for the one at s, p.           *)
OtherQueuesKept(b, c, s, p) ==
  \A r \in Side : \A q \in DOMAIN c.levels[r] :
    r # s \/ q # p => q \in DOMAIN b.levels[r] /\ c.levels[r][q].mOrders = b.levels[r][q].mOrders

(* In a sound book no two orders stand before each other.                  *)
LEMMA BeforeAsym ==
  ASSUME NEW b, BookInv(b), NEW x, NEW y, Before(b, x, y), Before(b, y, x)
  PROVE  FALSE
<1>1. PICK r, q, i, j : Stand(b, r, q, i, j, x, y)
  BY DEF Before, Stand
<1>2. PICK s, p, k, l : Stand(b, s, p, k, l, y, x)
  BY DEF Before, Stand
<1>3. At(b, x, r, q) /\ At(b, x, s, p)
  BY <1>1, <1>2, BookFacts DEF Stand
<1>4. r = s /\ q = p
  BY <1>3 DEF At
<1>5. /\ b.levels[s][p].mOrders \in Seq(OrderId)
      /\ \A m, n \in DOMAIN b.levels[s][p].mOrders : b.levels[s][p].mOrders[m] = b.levels[s][p].mOrders[n] => m = n
  BY <1>2, QueueFacts DEF Holds, Stand
<1>6. i = l /\ j = k
  BY <1>1, <1>2, <1>4, <1>5 DEF Stand
<1>7. i \in Nat /\ j \in Nat
  BY <1>1, <1>4, <1>5 DEF Stand
<1> QED
  BY <1>1, <1>2, <1>6, <1>7 DEF Stand

(* Taking an order out puts no other two in another order.                 *)
LEMMA BeforeDrop ==
  ASSUME NEW b, BookInv(b), NEW s \in Side, NEW p \in Prices, NEW id, At(b, id, s, p),
         NEW lvl \in PriceLevel, lvl.mOrders = RemoveFirst(b.levels[s][p].mOrders, id),
         NEW c, c.levels = [b.levels EXCEPT ![s] = StoreLevel(@, p, lvl)],
         NEW x, NEW y, Before(c, x, y)
  PROVE  Before(b, x, y)
<1> DEFINE old == b.levels[s][p].mOrders
           new == lvl.mOrders
<1>0. /\ c.levels[s] = StoreLevel(b.levels[s], p, lvl)
      /\ \A r \in Side : r # s => c.levels[r] = b.levels[r]
  BY DEF BookInv, BookTypeOK
<1>1. OtherQueuesKept(b, c, s, p) /\ (p \in DOMAIN c.levels[s] => c.levels[s][p] = lvl)
  BY <1>0, StoreLevelFacts DEF OtherQueuesKept
<1>2. PICK r, q, i, j : Stand(c, r, q, i, j, x, y)
  BY DEF Before, Stand
<1>3. CASE r # s \/ q # p
  BY <1>1, <1>2, <1>3 DEF Before, OtherQueuesKept, Stand
<1>4. CASE r = s /\ q = p
  <2>1. p \in DOMAIN b.levels[s]
    BY BookFacts DEF InLevel
  <2>2. old \in Seq(OrderId) /\ \A m, n \in DOMAIN old : old[m] = old[n] => m = n
    BY <2>1, QueueFacts DEF Holds
  <2>3. PICK k \in DOMAIN old : old[k] = id
    BY <2>1, BookFacts DEF InLevel
  <2>4. i \in DOMAIN new /\ j \in DOMAIN new /\ new[i] = x /\ new[j] = y
    BY <1>1, <1>2, <1>4 DEF Stand
  <2>5. new = RemoveFirst(old, old[k])
    BY <2>3
  <2> HIDE DEF old, new
  <2>6. DOMAIN old = 1 .. Len(old) /\ Len(old) \in Nat
    BY <2>2
  <2>7. /\ new \in Seq(OrderId) /\ Len(new) = Len(old) - 1
        /\ \A m \in 1 .. Len(old) - 1 : new[m] = IF m < k THEN old[m] ELSE old[m + 1]
    <3>1. k \in 1 .. Len(old) /\ \A m, n \in 1 .. Len(old) : old[m] = old[n] => m = n
      BY <2>2, <2>3, <2>6
    <3>2. /\ RemoveFirst(old, old[k]) \in Seq(OrderId)
          /\ Len(RemoveFirst(old, old[k])) = Len(old) - 1
          /\ \A m \in 1 .. Len(old) - 1 :
               RemoveFirst(old, old[k])[m] = IF m < k THEN old[m] ELSE old[m + 1]
      <4>1. old \in Seq(OrderId)
        BY <2>2
      <4> QED  BY <3>1, <4>1, RemoveFirstFacts, Zenon
    <3> QED  BY <2>5, <3>2, Zenon
  <2>8. DOMAIN new = 1 .. Len(old) - 1
    BY <2>7
  <2> DEFINE f(m) == IF m < k THEN m ELSE m + 1
  <2>9. f(i) \in DOMAIN old /\ f(j) \in DOMAIN old /\ f(i) < f(j) /\ old[f(i)] = x /\ old[f(j)] = y
    BY <1>2, <2>3, <2>4, <2>6, <2>7, <2>8 DEF Stand
  <2> HIDE DEF f
  <2> QED  BY <2>1, <2>9 DEF Before, old
<1> QED
  BY <1>3, <1>4

(* An order put into a level stands behind the others there.               *)
LEMMA BeforeRest ==
  ASSUME NEW b, BookInv(b), NEW s \in Side, NEW p \in Prices, NEW id \in OrderId, NEW qty \in Quantity,
         NEW c, c.levels = [b.levels EXCEPT ![s] = insertIntoLevel(@, id, qty, p)],
         NEW x, NEW y, Before(c, x, y)
  PROVE  Before(b, x, y) \/ y = id
<1> DEFINE lvl == PriceLevel_addOrder(getOrCreateLevel(b.levels[s], p), id, qty)
           old == getOrCreateLevel(b.levels[s], p).mOrders
           new == lvl.mOrders
<1>0. old \in Seq(OrderId) /\ new = Append(old, id)
  BY LevelFacts DEF PriceLevel, PriceLevel_addOrder
<1>1. new # <<>>
  <2> HIDE DEF old, new
  <2> QED  BY <1>0
<1>2. /\ c.levels[s] = StoreLevel(b.levels[s], p, lvl)
      /\ \A r \in Side : r # s => c.levels[r] = b.levels[r]
  BY <1>1 DEF insertIntoLevel, StoreLevel, BookInv, BookTypeOK
<1>3. OtherQueuesKept(b, c, s, p) /\ (p \in DOMAIN c.levels[s] => c.levels[s][p] = lvl)
  <2> HIDE DEF lvl
  <2> QED  BY <1>2, StoreLevelFacts DEF OtherQueuesKept
<1>4. PICK r, q, i, j : Stand(c, r, q, i, j, x, y)
  BY DEF Before, Stand
<1>5. CASE r # s \/ q # p
  BY <1>3, <1>4, <1>5 DEF Before, OtherQueuesKept, Stand
<1>6. CASE r = s /\ q = p
  <2>1. i \in DOMAIN new /\ j \in DOMAIN new /\ new[i] = x /\ new[j] = y
    BY <1>3, <1>4, <1>6 DEF Stand
  <2>2. \/ y = id
        \/ i \in DOMAIN old /\ j \in DOMAIN old /\ old[i] = x /\ old[j] = y
    <3> HIDE DEF old, new
    <3>1. DOMAIN new = 1 .. Len(old) + 1 /\ DOMAIN old = 1 .. Len(old) /\ Len(old) \in Nat
      BY <1>0
    <3>2. new[Len(old) + 1] = id /\ \A m \in 1 .. Len(old) : new[m] = old[m]
      BY <1>0
    <3> QED  BY <1>4, <2>1, <3>1, <3>2 DEF Stand
  <2>3. CASE i \in DOMAIN old /\ j \in DOMAIN old /\ old[i] = x /\ old[j] = y
    <3>1. p \in DOMAIN b.levels[s]
      BY <2>3 DEF getOrCreateLevel, NewLevel
    <3>2. old = b.levels[s][p].mOrders
      BY <3>1 DEF getOrCreateLevel
    <3> QED  BY <1>4, <2>3, <3>1, <3>2 DEF Before, Stand
  <2> QED  BY <2>2, <2>3
<1> QED
  BY <1>5, <1>6

(* An iteration of matchAgainst takes an order out or leaves the queues.   *)
LEMMA matchStepBefore ==
  ASSUME NEW b, BookInv(b), NEW inc, inc.side \in Side, NEW rem \in Quantity, CanMatch(b, inc, rem),
         NEW x, NEW y, Before(matchStep(b, inc, rem).book, x, y)
  PROVE  Before(b, x, y)
<1> DEFINE s    == oppositeSide(inc.side)
           p    == BestLevelPrice(b, inc)
           id   == peekFirst(b, inc)
           elem == b.orderMap[id]
           qty  == TradeQty(b, inc, rem)
           left == elem.m_quantity - qty
           old  == b.levels[s][p]
           c    == matchStep(b, inc, rem).book
<1>1. /\ s \in Side /\ p \in DOMAIN b.levels[s] /\ p \in Prices /\ At(b, id, s, p)
      /\ elem \in BookElement
  BY FirstInLine
<1>2. elem.m_quantity \in Quantity /\ left \in Quantity
  BY <1>1, QtyModAssumption DEF TradeQty, BookElement, Quantity
<1>3. \/ \E q \in Quantity : c.levels = [b.levels EXCEPT ![s] = StoreLevel(@, p, PriceLevel_removeOrder(old, id, q))]
      \/ c.levels = [b.levels EXCEPT ![s] = Put(@, p, PriceLevel_reduceQty(old, qty))]
  BY <1>2 DEF matchStep, selfTradeStep, tradeStep, BookAfterTrade, DropOrder, Effect
<1>4. Before(c, x, y)
  OBVIOUS
<1> HIDE DEF c, elem, left, id, qty, s, p
<1>5. CASE \E q \in Quantity : c.levels = [b.levels EXCEPT ![s] = StoreLevel(@, p, PriceLevel_removeOrder(old, id, q))]
  <2>1. PICK q \in Quantity : c.levels = [b.levels EXCEPT ![s] = StoreLevel(@, p, PriceLevel_removeOrder(old, id, q))]
    BY <1>5
  <2> DEFINE lvl == PriceLevel_removeOrder(old, id, q)
  <2>2. lvl \in PriceLevel /\ lvl.mOrders = RemoveFirst(b.levels[s][p].mOrders, id)
    BY <1>1, RemoveOrderLevel
  <2> HIDE DEF lvl
  <2>3. c.levels = [b.levels EXCEPT ![s] = StoreLevel(@, p, lvl)]
    BY <2>1 DEF lvl
  <2> QED  BY <1>1, <1>4, <2>2, <2>3, BeforeDrop
<1>6. CASE c.levels = [b.levels EXCEPT ![s] = Put(@, p, PriceLevel_reduceQty(old, qty))]
  <2>1. \A r \in Side : DOMAIN c.levels[r] = DOMAIN b.levels[r]
    BY <1>1, <1>6 DEF Put, BookInv, BookTypeOK
  <2>2. \A r \in Side : \A q \in DOMAIN b.levels[r] : c.levels[r][q].mOrders = b.levels[r][q].mOrders
    BY <1>1, <1>6 DEF Put, BookInv, BookTypeOK, PriceLevel_reduceQty
  <2> QED  BY <1>4, <2>1, <2>2 DEF Before
<1> QED
  BY <1>3, <1>5, <1>6

(* cancelOrder takes an order out or leaves the book alone.                *)
LEMMA cancelOrderBefore ==
  ASSUME NEW b, BookInv(b), NEW id, NEW t, NEW x, NEW y, Before(cancelOrder(b, id, t).book, x, y)
  PROVE  Before(b, x, y)
<1>1. CASE ~Owns(b, id, t)
  BY <1>1 DEF cancelOrder, Effect
<1>2. CASE Owns(b, id, t)
  <2> DEFINE s   == b.orderDetails[id].side
             p   == b.orderDetails[id].price
             q   == b.orderMap[id].m_quantity
             lvl == PriceLevel_removeOrder(b.levels[s][p], id, q)
             c   == cancelOrder(b, id, t).book
  <2>1. /\ s \in Side /\ At(b, id, s, p) /\ q \in Quantity
    BY <1>2, DetailsOf DEF Owns, OrderDetails, BookElement
  <2>2. /\ p \in DOMAIN b.levels[s] /\ p \in Prices
        /\ lvl \in PriceLevel /\ lvl.mOrders = RemoveFirst(b.levels[s][p].mOrders, id)
    BY <2>1, RemoveOrderLevel
  <2>3. c.levels = [b.levels EXCEPT ![s] = StoreLevel(@, p, lvl)] /\ Before(c, x, y)
    BY <1>2, <2>2 DEF cancelOrder, Effect, removeFromLevel
  <2> HIDE DEF s, p, q, lvl, c
  <2> QED  BY <2>1, <2>2, <2>3, BeforeDrop
<1> QED
  BY <1>1, <1>2

(* modifyOrder leaves the queues, or moves the order it names to the back  *)
(* of one.                                                                 *)
LEMMA modifyOrderBefore ==
  ASSUME NEW b, BookInv(b), NEW id, NEW t, NEW np \in Prices, NEW nq \in Quantity,
         NEW x, NEW y, Before(modifyOrder(b, id, t, np, nq).book, x, y)
  PROVE  Before(b, x, y) \/ (Owns(b, id, t) /\ y = id)
<1>1. CASE ~Owns(b, id, t)
  BY <1>1 DEF modifyOrder, Effect
<1>2. CASE Owns(b, id, t)
  <2> DEFINE d == b.orderDetails[id]
             s == d.side
             p == d.price
             q == b.orderMap[id].m_quantity
             c == modifyOrder(b, id, t, np, nq).book
  <2>1. s \in Side /\ At(b, id, s, p) /\ q \in Quantity /\ id \in OrderId
    BY <1>2, DetailsOf DEF Owns, OrderDetails, BookElement
  <2>2. c.levels = RelevelModified(b, id, np, nq) /\ Before(c, x, y)
    BY <1>2 DEF modifyOrder, Effect
  <2>3. CASE KeepsPriority(d, np, nq)
    <3>1. c.levels = b.levels
      BY <2>2, <2>3 DEF RelevelModified
    <3> QED  BY <2>2, <3>1 DEF Before
  <2>4. CASE ~KeepsPriority(d, np, nq)
    <3> DEFINE lvl == PriceLevel_removeOrder(b.levels[s][p], id, q)
               m   == DropOrder(b, s, p, lvl, id)
    <3>1. /\ p \in DOMAIN b.levels[s] /\ p \in Prices
          /\ lvl \in PriceLevel /\ lvl.mOrders = RemoveFirst(b.levels[s][p].mOrders, id)
      BY <2>1, RemoveOrderLevel
    <3>2. m.levels = [b.levels EXCEPT ![s] = StoreLevel(@, p, lvl)]
      BY DEF DropOrder
    <3>3. c.levels = [m.levels EXCEPT ![s] = insertIntoLevel(@, id, nq, np)]
      BY <2>1, <2>2, <2>4, <3>1, <3>2 DEF RelevelModified, removeFromLevel, BookInv, BookTypeOK
    <3> HIDE DEF lvl, c, s, p, q
    <3>4. BookInv(m)
      BY <2>1, <3>1, DropOrderInv
    <3> HIDE DEF m
    <3>5. Before(m, x, y) \/ y = id
      BY <2>1, <2>2, <3>3, <3>4, BeforeRest
    <3>6. Before(m, x, y) => Before(b, x, y)
      BY <2>1, <3>1, <3>2, BeforeDrop
    <3> QED  BY <1>2, <3>5, <3>6
  <2> QED  BY <2>3, <2>4
<1> QED
  BY <1>1, <1>2

(* A step that lets one order pass another acknowledges a modify of the    *)
(* one passed.                                                             *)
LEMMA NoQueueJumpStep ==
  ASSUME IInv, Next, NEW s \in Symbols, NEW x, NEW y, Before(books[s], x, y), Before(books'[s], y, x)
  PROVE  ModifyAcked(confirmsOut', x)
<1>1. BookInv(books[s]) /\ DOMAIN books = Symbols
  BY SoundBooks DEF IInv, TypeOK
<1>2. ~Before(books[s], y, x)
  BY <1>1, BeforeAsym
<1>3. ASSUME NEW sym, NEW b, books' = [books EXCEPT ![sym] = b]
      PROVE  s = sym /\ Before(b, y, x)
  BY <1>1, <1>2, <1>3
<1>4. ASSUME UNCHANGED books PROVE FALSE
  BY <1>2, <1>4
<1>5. CASE matchAgainst
  <2> DEFINE sym == incoming.symbolId
             b   == matchStep(books[sym], incoming, remainingQty).book
  <2>1. /\ call = "matching" /\ CanMatch(books[sym], incoming, remainingQty)
        /\ books' = [books EXCEPT ![sym] = b]
    BY <1>5 DEF matchAgainst
  <2>2. incoming.side \in Side /\ remainingQty \in Quantity
    BY <2>1 DEF IInv, TypeOK, IncomingOrder
  <2>3. s = sym /\ Before(b, y, x)
    <3> HIDE DEF b
    <3> QED  BY <1>3, <2>1
  <2>4. Before(books[s], y, x)
    BY <1>1, <2>1, <2>2, <2>3, matchStepBefore
  <2> QED  BY <1>2, <2>4
<1>6. CASE addOrder_return
  <2> DEFINE sym == incoming.symbolId
             id  == incoming.orderId
             b   == addOrder_rest(books[sym], incoming, remainingQty)
  <2>1. call = "matching" /\ books' = [books EXCEPT ![sym] = b]
    BY <1>6 DEF addOrder_return
  <2>2. incoming.side \in Side /\ remainingQty \in Quantity /\ incoming.price \in Prices /\ id \in OrderId
    BY <2>1 DEF IInv, TypeOK, IncomingOrder
  <2>3. s = sym /\ Before(b, y, x)
    <3> HIDE DEF b
    <3> QED  BY <1>3, <2>1
  <2>4. x # id
    <3>1. x \in DOMAIN books[s].orderMap
      BY <1>1, BookFacts DEF Before, At
    <3> QED  BY <2>1, <3>1 DEF IInv, IdsUnique
  <2>5. CASE remainingQty = 0
    BY <1>2, <2>3, <2>5 DEF addOrder_rest
  <2>6. CASE remainingQty # 0
    <3>1. b.levels = [books[s].levels EXCEPT ![incoming.side] = insertIntoLevel(@, id, remainingQty, incoming.price)]
      BY <2>3, <2>6 DEF addOrder_rest, RestOrder
    <3> HIDE DEF b, id
    <3> QED  BY <1>1, <1>2, <2>2, <2>3, <2>4, <3>1, BeforeRest
  <2> QED  BY <2>5, <2>6
<1>7. ASSUME NEW id \in RequestIds, NEW sym \in AllSymbols, NEW t \in Traders, onCancel(id, sym, t)
      PROVE  FALSE
  <2>1. sym \in Symbols /\ books' = [books EXCEPT ![sym] = cancelOrder(books[sym], id, t).book]
    BY <1>4, <1>7 DEF onCancel
  <2>2. s = sym /\ Before(cancelOrder(books[sym], id, t).book, y, x)
    BY <1>3, <2>1
  <2> QED  BY <1>1, <1>2, <2>2, cancelOrderBefore
<1>8. ASSUME NEW id \in RequestIds, NEW sym \in AllSymbols, NEW t \in Traders, NEW p \in Prices,
             NEW q \in Qtys, onModify(id, sym, t, p, q)
      PROVE  ModifyAcked(confirmsOut', x)
  <2> DEFINE e == modifyOrder(books[sym], id, t, p, q)
             c == OrderConfirm("ModifyAck", id, t, 0, 0, "UnknownOrder")
  <2>1. sym \in Symbols /\ books' = [books EXCEPT ![sym] = e.book] /\ confirmsOut' = e.confirms
    BY <1>4, <1>8 DEF onModify, Report
  <2>2. s = sym /\ Before(e.book, y, x)
    <3> HIDE DEF e
    <3> QED  BY <1>3, <2>1
  <2>3. Owns(books[s], id, t) /\ x = id
    BY <1>1, <1>2, <2>2, QtysAssumption, modifyOrderBefore
  <2>4. confirmsOut' = <<c>>
    BY <2>1, <2>2, <2>3 DEF modifyOrder, Effect
  <2>5. c.type = "ModifyAck" /\ c.orderId = id
    BY DEF OrderConfirm
  <2> HIDE DEF c
  <2>6. 1 \in DOMAIN confirmsOut' /\ confirmsOut'[1] = c
    BY <2>4
  <2> QED  BY <2>3, <2>5, <2>6 DEF ModifyAcked
<1>9. ASSUME NEW t \in Traders, NEW sym \in AllSymbols, NEW side \in Side, NEW p \in Prices,
             NEW q \in Qtys, onOrder(t, sym, side, p, q)
      PROVE  UNCHANGED books
  BY <1>9 DEF onOrder, onOrder_Unlisted, onOrder_Listed
<1> QED
  BY <1>4, <1>5, <1>6, <1>7, <1>8, <1>9 DEF Next

(* Time priority is lost only by the owner's own modify.                   *)
THEOREM PriorityKept == Spec => NoQueueJump
<1>1. ASSUME IInv, [Next]_vars
      PROVE  [books' # books =>
                \A s \in Symbols : \A side \in Side : \A p \in DOMAIN books[s].levels[side] :
                LET line == books[s].levels[side][p].mOrders
                IN  \A i, j \in DOMAIN line :
                      i < j /\ Before(books'[s], line[j], line[i]) => ModifyAcked(confirmsOut', line[i])]_vars
  <2> SUFFICES ASSUME Next, NEW s \in Symbols, NEW side \in Side, NEW p \in DOMAIN books[s].levels[side],
                      NEW i \in DOMAIN books[s].levels[side][p].mOrders,
                      NEW j \in DOMAIN books[s].levels[side][p].mOrders, i < j,
                      Before(books'[s], books[s].levels[side][p].mOrders[j], books[s].levels[side][p].mOrders[i])
               PROVE  ModifyAcked(confirmsOut', books[s].levels[side][p].mOrders[i])
    BY <1>1
  <2>1. Before(books[s], books[s].levels[side][p].mOrders[i], books[s].levels[side][p].mOrders[j])
    BY DEF Before
  <2> QED  BY <1>1, <2>1, NoQueueJumpStep
<1> QED
  BY <1>1, InductiveInvariant, PTL DEF Spec, NoQueueJump

-----------------------------------------------------------------------------
(* Sums over the queue of a level.                                         *)

(* f holds the sums of the first 0, 1, .., n values of q.                  *)
SumTo(f, n, q) == f = [k \in 0 .. n |-> IF k = 0 THEN 0 ELSE f[k - 1] + q[k]]

(* The first n values of q are integers; they are those of r; r has them   *)
(* without value i.                                                        *)
IntValues(q, n)     == \A k \in 1 .. n : q[k] \in Int
Agree(q, r, n)      == \A k \in 1 .. n : r[k] = q[k]
Without(q, r, n, i) == \A k \in 1 .. n - 1 : r[k] = IF k < i THEN q[k] ELSE q[k + 1]

(* Any number of values has sums.                                          *)
LEMMA SumExists ==
  ASSUME NEW q, NEW N \in Nat
  PROVE  \E f : SumTo(f, N, q)
<1> SUFFICES ASSUME ~ \E f : SumTo(f, N, q) PROVE FALSE
  OBVIOUS
<1> DEFINE T == {n \in Nat : ~ \E f : SumTo(f, n, q)}
<1>1. T \in SUBSET Nat /\ N \in T
  OBVIOUS
<1>2. PICK n \in T : \A k \in T : n <= k
  BY <1>1, NatMin, Zenon
<1>3. n \in Nat /\ ~ \E f : SumTo(f, n, q)
  BY <1>2
<1>4. n # 0
  <2>1. SumTo([k \in 0 .. 0 |-> 0], 0, q)
    BY DEF SumTo
  <2> QED  BY <1>3, <2>1
<1>5. n - 1 \in Nat /\ n - 1 \notin T
  BY <1>2, <1>3, <1>4
<1>6. PICK f : SumTo(f, n - 1, q)
  BY <1>5
<1> DEFINE g == [k \in 0 .. n |-> IF k < n THEN f[k] ELSE f[n - 1] + q[n]]
<1>7. \A k \in 0 .. n - 1 : f[k] = IF k = 0 THEN 0 ELSE f[k - 1] + q[k]
  BY <1>6 DEF SumTo
<1>8. \A k \in 0 .. n : g[k] = IF k = 0 THEN 0 ELSE g[k - 1] + q[k]
  BY <1>3, <1>4, <1>7
<1>9. SumTo(g, n, q)
  BY <1>8 DEF SumTo
<1> QED
  BY <1>3, <1>9

(* They are integers when the values are, and the same for the same        *)
(* values.                                                                 *)
LEMMA SumUnique ==
  ASSUME NEW N \in Nat, NEW q, IntValues(q, N), NEW r, Agree(q, r, N),
         NEW f, SumTo(f, N, q), NEW g, SumTo(g, N, r)
  PROVE  \A k \in 0 .. N : f[k] \in Int /\ g[k] = f[k]
<1> SUFFICES ASSUME NEW m \in 0 .. N, ~(f[m] \in Int /\ g[m] = f[m]) PROVE FALSE
  OBVIOUS
<1> DEFINE T == {n \in 0 .. N : ~(f[n] \in Int /\ g[n] = f[n])}
<1>1. T \in SUBSET Nat /\ m \in T
  OBVIOUS
<1>2. PICK n \in T : \A k \in T : n <= k
  BY <1>1, NatMin, Zenon
<1>3. n \in 0 .. N /\ ~(f[n] \in Int /\ g[n] = f[n])
  BY <1>2
<1>4. f[n] = IF n = 0 THEN 0 ELSE f[n - 1] + q[n]
  BY <1>3 DEF SumTo
<1>5. g[n] = IF n = 0 THEN 0 ELSE g[n - 1] + r[n]
  BY <1>3 DEF SumTo
<1>6. n # 0
  BY <1>3, <1>4, <1>5
<1>7. n - 1 \in 0 .. N /\ n - 1 \notin T
  BY <1>2, <1>3, <1>6
<1>8. f[n - 1] \in Int /\ g[n - 1] = f[n - 1] /\ r[n] = q[n] /\ q[n] \in Int
  BY <1>3, <1>6, <1>7 DEF IntValues, Agree
<1> QED
  BY <1>3, <1>4, <1>5, <1>6, <1>8

(* With one value more, the sum grows by it.                               *)
LEMMA SumMore ==
  ASSUME NEW N \in Nat, NEW q, NEW r, Agree(q, r, N), NEW f, SumTo(f, N, q)
  PROVE  \E g : SumTo(g, N + 1, r) /\ g[N + 1] = f[N] + r[N + 1]
<1> DEFINE g == [k \in 0 .. N + 1 |-> IF k = N + 1 THEN f[N] + r[N + 1] ELSE f[k]]
<1>1. \A k \in 0 .. N : f[k] = IF k = 0 THEN 0 ELSE f[k - 1] + q[k]
  BY DEF SumTo
<1>2. \A k \in 0 .. N + 1 : g[k] = IF k = 0 THEN 0 ELSE g[k - 1] + r[k]
  BY <1>1 DEF Agree
<1>3. SumTo(g, N + 1, r)
  BY <1>2 DEF SumTo
<1>4. N + 1 \in 0 .. N + 1
  OBVIOUS
<1>5. g[N + 1] = f[N] + r[N + 1]
  BY <1>4
<1> QED
  BY <1>3, <1>5

(* Without value i, it is smaller by that.                                 *)
LEMMA SumWithout ==
  ASSUME NEW N \in Nat, NEW q, IntValues(q, N), NEW i \in 1 .. N, NEW r, Without(q, r, N, i),
         NEW f, SumTo(f, N, q)
  PROVE  \E g : SumTo(g, N - 1, r) /\ g[N - 1] = f[N] - q[i]
<1> DEFINE g == [k \in 0 .. N - 1 |-> IF k < i THEN f[k] ELSE f[k + 1] - q[i]]
<1>1. \A k \in 0 .. N : f[k] = IF k = 0 THEN 0 ELSE f[k - 1] + q[k]
  BY DEF SumTo
<1>2. \A k \in 0 .. N : f[k] \in Int
  <2>1. Agree(q, q, N)
    BY DEF Agree
  <2> QED  BY <2>1, SumUnique
<1>3. /\ \A k \in 1 .. N : q[k] \in Int
      /\ \A k \in 1 .. N - 1 : r[k] = IF k < i THEN q[k] ELSE q[k + 1]
  BY DEF IntValues, Without
<1>4. \A k \in 0 .. N - 1 : g[k] = IF k = 0 THEN 0 ELSE g[k - 1] + r[k]
  <2> SUFFICES ASSUME NEW k \in 0 .. N - 1 PROVE g[k] = IF k = 0 THEN 0 ELSE g[k - 1] + r[k]
    OBVIOUS
  <2>1. CASE k < i
    BY <1>1, <1>3, <2>1
  <2>2. CASE k = i
    <3>1. f[k + 1] = f[k] + q[k + 1] /\ f[k] = f[k - 1] + q[k]
      BY <1>1, <2>2
    <3>2. g[k] = f[k + 1] - q[k] /\ g[k - 1] = f[k - 1] /\ r[k] = q[k + 1] /\ k # 0
      BY <1>3, <2>2
    <3>3. f[k - 1] \in Int /\ q[k] \in Int /\ q[k + 1] \in Int
      BY <1>2, <1>3, <2>2
    <3> QED  BY <3>1, <3>2, <3>3
  <2>3. CASE k > i
    <3>1. f[k + 1] = f[k] + q[k + 1]
      BY <1>1, <2>3
    <3>2. g[k] = f[k + 1] - q[i] /\ g[k - 1] = f[k] - q[i] /\ r[k] = q[k + 1] /\ k # 0
      BY <1>3, <2>3
    <3>3. f[k] \in Int /\ q[i] \in Int /\ q[k + 1] \in Int
      BY <1>2, <1>3, <2>3
    <3> QED  BY <3>1, <3>2, <3>3
  <2> QED  BY <2>1, <2>2, <2>3
<1>5. g[N - 1] = f[N] - q[i]
  <2>1. N - 1 \in 0 .. N - 1 /\ N \in 0 .. N /\ N # 0 /\ (N - 1) + 1 = N
    OBVIOUS
  <2>2. f[N] = f[N - 1] + q[N] /\ f[N - 1] \in Int /\ q[N] \in Int
    BY <1>1, <1>2, <1>3, <2>1
  <2>3. CASE i = N
    BY <2>1, <2>2, <2>3
  <2>4. CASE i # N
    BY <2>1, <2>4
  <2> QED  BY <2>3, <2>4
<1>6. SumTo(g, N - 1, r)
  BY <1>4 DEF SumTo
<1> QED
  BY <1>5, <1>6

(* The open quantities of the orders of a queue.                           *)
OpenQtys(b, o) == [k \in 1 .. Len(o) |-> b.orderMap[o[k]].m_quantity]

(* LevelSum is the sum of the open quantities.                             *)
LEMMA LevelSumIs ==
  ASSUME NEW b, NEW lvl, NEW S, lvl.mOrders \in Seq(S)
  PROVE  \E f : /\ SumTo(f, Len(lvl.mOrders), OpenQtys(b, lvl.mOrders))
                /\ LevelSum(b, lvl) = f[Len(lvl.mOrders)]
<1> DEFINE o == lvl.mOrders
           N == Len(o)
           q == OpenQtys(b, o)
           sum == CHOOSE f : f = [n \in 0 .. N |-> IF n = 0 THEN 0 ELSE f[n - 1] + b.orderMap[o[n]].m_quantity]
<1>1. N \in Nat
  OBVIOUS
<1>2. LevelSum(b, lvl) = sum[N]
  BY DEF LevelSum
<1>3. PICK f : SumTo(f, N, q)
  BY <1>1, SumExists
<1>4. \A k \in 0 .. N : k # 0 => q[k] = b.orderMap[o[k]].m_quantity
  BY <1>1 DEF OpenQtys
<1>5. \A g : g = [n \in 0 .. N |-> IF n = 0 THEN 0 ELSE g[n - 1] + b.orderMap[o[n]].m_quantity] <=> SumTo(g, N, q)
  <2> HIDE DEF N, q, o
  <2> QED  BY <1>4 DEF SumTo
<1>6. SumTo(sum, N, q)
  BY <1>3, <1>5
<1> QED
  BY <1>2, <1>6

(* No order is in queue o twice.                                           *)
Distinct(o) == \A j, k \in 1 .. Len(o) : o[j] = o[k] => j = k

(* The orders of queue o, but for the one at position i, have the same     *)
(* quantities in both books.                                               *)
QtysKept(b, c, o, i) ==
  \A k \in 1 .. Len(o) : /\ b.orderMap[o[k]].m_quantity \in Int
                         /\ k # i => c.orderMap[o[k]].m_quantity = b.orderMap[o[k]].m_quantity

(* A level whose orders have open quantities has an integer sum, and the   *)
(* same one as long as its queue and those quantities are the same.        *)
LEMMA SumSame ==
  ASSUME NEW b, NEW lvl, NEW S, lvl.mOrders \in Seq(S), NEW c, NEW new, new.mOrders = lvl.mOrders,
         QtysKept(b, c, lvl.mOrders, 0)
  PROVE  LevelSum(b, lvl) \in Int /\ LevelSum(c, new) = LevelSum(b, lvl)
<1> DEFINE o == lvl.mOrders
           N == Len(o)
           q == OpenQtys(b, o)
           r == OpenQtys(c, o)
<1>1. N \in Nat /\ IntValues(q, N) /\ Agree(q, r, N)
  BY DEF OpenQtys, IntValues, Agree, QtysKept
<1>2. PICK f : SumTo(f, N, q) /\ LevelSum(b, lvl) = f[N]
  BY LevelSumIs
<1>3. PICK g : SumTo(g, N, r) /\ LevelSum(c, new) = g[N]
  BY LevelSumIs
<1> HIDE DEF N, q, r
<1>4. \A k \in 0 .. N : f[k] \in Int /\ g[k] = f[k]
  BY <1>1, <1>2, <1>3, SumUnique
<1> QED
  BY <1>1, <1>2, <1>3, <1>4

(* Level new of book c is level lvl of book b with order id at the back;   *)
(* it is that level without the order at position i.                       *)
Joined(b, lvl, c, new, id) ==
  /\ lvl.mOrders \in Seq(OrderId) /\ id \in OrderId /\ c.orderMap[id].m_quantity \in Int
  /\ new.mOrders = Append(lvl.mOrders, id) /\ QtysKept(b, c, lvl.mOrders, 0)
Parted(b, lvl, c, new, i) ==
  /\ lvl.mOrders \in Seq(OrderId) /\ i \in 1 .. Len(lvl.mOrders) /\ Distinct(lvl.mOrders)
  /\ new.mOrders = RemoveFirst(lvl.mOrders, lvl.mOrders[i]) /\ QtysKept(b, c, lvl.mOrders, i)

(* An order at the back of the queue adds its quantity (mOrders.push_back, *)
(* price_level.hpp:18).                                                    *)
LEMMA SumAppend ==
  ASSUME NEW b, NEW lvl, NEW c, NEW new, NEW id, Joined(b, lvl, c, new, id)
  PROVE  /\ LevelSum(b, lvl) \in Int
         /\ LevelSum(c, new) = LevelSum(b, lvl) + c.orderMap[id].m_quantity
<1> SUFFICES ASSUME lvl.mOrders \in Seq(OrderId), id \in OrderId, c.orderMap[id].m_quantity \in Int,
                    new.mOrders = Append(lvl.mOrders, id), QtysKept(b, c, lvl.mOrders, 0)
             PROVE  /\ LevelSum(b, lvl) \in Int
                    /\ LevelSum(c, new) = LevelSum(b, lvl) + c.orderMap[id].m_quantity
  BY DEF Joined
<1> DEFINE o == lvl.mOrders
           p == Append(o, id)
           N == Len(o)
           q == OpenQtys(b, o)
           r == OpenQtys(c, p)
           x == c.orderMap[id].m_quantity
<1>1. N \in Nat /\ Len(p) = N + 1 /\ p \in Seq(OrderId)
  OBVIOUS
<1>2. IntValues(q, N) /\ Agree(q, r, N) /\ Agree(q, q, N)
  BY DEF OpenQtys, IntValues, Agree, QtysKept
<1>3. r[N + 1] = x /\ IntValues(r, N + 1) /\ Agree(r, r, N + 1) /\ x \in Int
  <2>1. p[N + 1] = id /\ N + 1 \in 1 .. Len(p)
    BY <1>1
  <2>2. r[N + 1] = x
    BY <2>1 DEF OpenQtys
  <2> HIDE DEF r, q, x, N
  <2>3. IntValues(r, N + 1)
    <3>1. \A k \in 1 .. N + 1 : k \in 1 .. N \/ k = N + 1
      BY <1>1
    <3>2. x \in Int
      BY DEF x
    <3> QED  BY <1>2, <2>2, <3>1, <3>2 DEF IntValues, Agree
  <2> QED  BY <2>2, <2>3 DEF Agree, x
<1>4. PICK f : SumTo(f, N, q) /\ LevelSum(b, lvl) = f[N]
  BY LevelSumIs
<1>5. PICK g : SumTo(g, N + 1, r) /\ LevelSum(c, new) = g[N + 1]
  BY <1>1, LevelSumIs
<1> HIDE DEF N, p, q, r, x
<1>6. PICK h : SumTo(h, N + 1, r) /\ h[N + 1] = f[N] + r[N + 1]
  BY <1>1, <1>2, <1>4, SumMore
<1>7. h[N + 1] = g[N + 1]
  <2>1. N + 1 \in Nat
    BY <1>1
  <2>2. \A k \in 0 .. N + 1 : h[k] \in Int /\ g[k] = h[k]
    BY <1>3, <1>5, <1>6, <2>1, SumUnique
  <2> QED  BY <1>1, <2>2
<1>8. f[N] \in Int
  <2>1. \A k \in 0 .. N : f[k] \in Int /\ f[k] = f[k]
    BY <1>1, <1>2, <1>4, SumUnique
  <2> QED  BY <1>1, <2>1
<1> QED
  BY <1>3, <1>4, <1>5, <1>6, <1>7, <1>8 DEF x

(* An order taken out of the queue takes its quantity with it              *)
(* (mOrders.erase, price_level.hpp:27).                                    *)
LEMMA SumRemove ==
  ASSUME NEW b, NEW lvl, NEW c, NEW new, NEW i, Parted(b, lvl, c, new, i)
  PROVE  /\ LevelSum(b, lvl) \in Int
         /\ LevelSum(c, new) = LevelSum(b, lvl) - b.orderMap[lvl.mOrders[i]].m_quantity
<1> SUFFICES ASSUME lvl.mOrders \in Seq(OrderId), i \in 1 .. Len(lvl.mOrders), Distinct(lvl.mOrders),
                    new.mOrders = RemoveFirst(lvl.mOrders, lvl.mOrders[i]), QtysKept(b, c, lvl.mOrders, i)
             PROVE  /\ LevelSum(b, lvl) \in Int
                    /\ LevelSum(c, new) = LevelSum(b, lvl) - b.orderMap[lvl.mOrders[i]].m_quantity
  BY DEF Parted
<1> DEFINE o == lvl.mOrders
           p == RemoveFirst(o, o[i])
           N == Len(o)
           q == OpenQtys(b, o)
           r == OpenQtys(c, p)
<1>1. /\ N \in Nat /\ p \in Seq(OrderId) /\ Len(p) = N - 1
      /\ \A k \in 1 .. N - 1 : p[k] = IF k < i THEN o[k] ELSE o[k + 1]
  <2>1. o \in Seq(OrderId) /\ i \in 1 .. Len(o) /\ \A j, k \in 1 .. Len(o) : o[j] = o[k] => j = k
    BY DEF Distinct
  <2> HIDE DEF o
  <2> QED  BY <2>1, RemoveFirstFacts
<1> HIDE DEF p
<1>2. /\ \A k \in 1 .. N : q[k] = b.orderMap[o[k]].m_quantity
      /\ IntValues(q, N) /\ Agree(q, q, N) /\ q[i] \in Int
  BY DEF OpenQtys, IntValues, Agree, QtysKept
<1>3. Without(q, r, N, i)
  <2>1. \A k \in 1 .. N - 1 : r[k] = c.orderMap[p[k]].m_quantity
    BY <1>1 DEF OpenQtys
  <2> HIDE DEF r, q
  <2>2. ASSUME NEW k \in 1 .. N - 1 PROVE r[k] = IF k < i THEN q[k] ELSE q[k + 1]
    <3>1. CASE k < i
      <4>1. p[k] = o[k] /\ k \in 1 .. N /\ k # i
        BY <1>1, <3>1
      <4> QED  BY <1>2, <2>1, <3>1, <4>1 DEF QtysKept
    <3>2. CASE ~(k < i)
      <4>1. p[k] = o[k + 1] /\ k + 1 \in 1 .. N /\ k + 1 # i
        BY <1>1, <3>2
      <4> QED  BY <1>2, <2>1, <3>2, <4>1 DEF QtysKept
    <3> QED  BY <3>1, <3>2
  <2> QED  BY <2>2 DEF Without
<1>4. PICK f : SumTo(f, N, q) /\ LevelSum(b, lvl) = f[N]
  BY LevelSumIs
<1>5. PICK g : SumTo(g, N - 1, r) /\ LevelSum(c, new) = g[N - 1]
  <2>1. new.mOrders = p
    BY DEF p
  <2>2. new.mOrders \in Seq(OrderId)
    BY <1>1, <2>1
  <2>3. \E g : /\ SumTo(g, Len(new.mOrders), OpenQtys(c, new.mOrders))
               /\ LevelSum(c, new) = g[Len(new.mOrders)]
    BY <2>2, LevelSumIs, Zenon
  <2>4. Len(new.mOrders) = N - 1 /\ OpenQtys(c, new.mOrders) = r
    BY <1>1, <2>1
  <2> HIDE DEF r, N
  <2> QED  BY <2>3, <2>4
<1> HIDE DEF q, r
<1>6. PICK h : SumTo(h, N - 1, r) /\ h[N - 1] = f[N] - q[i]
  <2>1. N \in Nat /\ i \in 1 .. N
    BY <1>1
  <2> HIDE DEF N
  <2> QED  BY <1>2, <1>3, <1>4, <2>1, SumWithout
<1>7. h[N - 1] = g[N - 1]
  <2>1. N - 1 \in Nat /\ IntValues(r, N - 1) /\ Agree(r, r, N - 1)
    <3>1. N - 1 \in Nat /\ \A k \in 1 .. N - 1 : k \in 1 .. N /\ k + 1 \in 1 .. N
      BY <1>1
    <3> HIDE DEF N
    <3> QED  BY <1>2, <1>3, <3>1 DEF IntValues, Without, Agree
  <2> HIDE DEF N
  <2>2. \A k \in 0 .. N - 1 : h[k] \in Int /\ g[k] = h[k]
    BY <1>5, <1>6, <2>1, SumUnique
  <2> QED  BY <2>1, <2>2
<1>8. f[N] \in Int
  <2>1. \A k \in 0 .. N : f[k] \in Int /\ f[k] = f[k]
    BY <1>1, <1>2, <1>4, SumUnique
  <2> QED  BY <1>1, <2>1
<1> QED
  BY <1>2, <1>4, <1>5, <1>6, <1>7, <1>8

(* Both sides of a difference may move by the same amount.                 *)
LEMMA DriftMoves ==
  ASSUME NEW x \in Int, NEW y \in Int, NEW n \in Int
  PROVE  /\ Minus(Plus(x, n), y + n) = Minus(x, y)
         /\ Minus(Minus(x, n), y - n) = Minus(x, y)
         /\ Minus(0, 0) = 0
<1>1. QtyMod \in Nat \ {0}
  BY QtyModAssumption
<1> DEFINE u == (x + n) % QtyMod
           v == (x - n) % QtyMod
           d == -(y + n)
           e == -(y - n)
<1>2. d \in Int /\ e \in Int /\ x + n \in Int /\ x - n \in Int
  OBVIOUS
<1>3. u \in Int /\ v \in Int /\ 0 % QtyMod = 0
  BY <1>1
<1>4. (u + d) % QtyMod = ((x + n) + d) % QtyMod
  <2> HIDE DEF d
  <2> QED  BY <1>1, <1>2, ModAdd
<1>5. (v + e) % QtyMod = ((x - n) + e) % QtyMod
  <2> HIDE DEF e
  <2> QED  BY <1>1, <1>2, ModAdd
<1>6. Minus(Plus(x, n), y + n) = (u - (y + n)) % QtyMod /\ Minus(Minus(x, n), y - n) = (v - (y - n)) % QtyMod
  BY DEF Minus, Plus
<1> HIDE DEF u, v
<1>7. u - (y + n) = u + d /\ v - (y - n) = v + e
  BY <1>3
<1>8. (x + n) + d = x - y /\ (x - n) + e = x - y /\ 0 - 0 = 0
  OBVIOUS
<1> HIDE DEF d, e
<1> QED
  BY <1>3, <1>4, <1>5, <1>6, <1>7, <1>8 DEF Minus

(* An operation on one book that puts no total out of line.                *)
DriftKept(b, c) == \A s \in Side : \A p : Drift(c, s, p) \in {0, Drift(b, s, p)}

(* The orders of a level's queue, each once, with their quantities.        *)
Queued(b, s, p, lvl) ==
  /\ lvl.mOrders \in Seq(OrderId) /\ lvl.mTotalQty \in Int
  /\ Distinct(lvl.mOrders)
  /\ \A k \in 1 .. Len(lvl.mOrders) :
       /\ At(b, lvl.mOrders[k], s, p) /\ lvl.mOrders[k] \in DOMAIN b.orderMap
       /\ b.orderMap[lvl.mOrders[k]].m_quantity \in Int
  /\ \A x : At(b, x, s, p) => \E k \in 1 .. Len(lvl.mOrders) : lvl.mOrders[k] = x

(* The levels of a sound book are like that, the one that getOrCreateLevel *)
(* makes included.                                                         *)
LEMMA LevelQueued ==
  ASSUME NEW b, BookInv(b), NEW s \in Side, NEW p \in Prices
  PROVE  Queued(b, s, p, getOrCreateLevel(b.levels[s], p))
<1> DEFINE lvl == getOrCreateLevel(b.levels[s], p)
           o   == lvl.mOrders
<1>1. lvl \in PriceLevel /\ Holds(b, s, p, o)
  BY LevelFacts
<1> HIDE DEF lvl
<1>2. lvl.mTotalQty \in Int
  BY <1>1, QtyModAssumption DEF PriceLevel, Quantity
<1>3. o \in Seq(OrderId) /\ DOMAIN o = 1 .. Len(o)
  BY <1>1 DEF Holds
<1>4. /\ Distinct(o)
      /\ \A k \in 1 .. Len(o) : At(b, o[k], s, p)
      /\ \A x : At(b, x, s, p) => \E k \in 1 .. Len(o) : o[k] = x
  BY <1>1, <1>3 DEF Holds, Distinct
<1>5. \A x : At(b, x, s, p) => x \in DOMAIN b.orderMap /\ b.orderMap[x].m_quantity \in Int
  <2>1. ASSUME NEW x, At(b, x, s, p) PROVE x \in DOMAIN b.orderMap /\ b.orderMap[x].m_quantity \in Int
    <3>1. x \in DOMAIN b.orderMap
      BY <2>1, BookFacts DEF At
    <3>2. b.orderMap[x] \in BookElement
      BY <3>1, DetailsOf
    <3> QED  BY <3>1, <3>2, QtyModAssumption DEF BookElement, Quantity
  <2> QED  BY <2>1
<1>6. Queued(b, s, p, lvl)
  BY <1>2, <1>3, <1>4, <1>5 DEF Queued
<1> QED
  BY <1>6 DEF lvl

(* The drift of a level, whether it is in the map or has yet to be made.   *)
LEMMA DriftIs ==
  ASSUME NEW b, NEW s, NEW p
  PROVE  Drift(b, s, p) = LET lvl == getOrCreateLevel(b.levels[s], p)
                          IN  Minus(lvl.mTotalQty, LevelSum(b, lvl))
<1>1. CASE p \in DOMAIN b.levels[s]
  BY <1>1 DEF Drift, getOrCreateLevel
<1>2. CASE p \notin DOMAIN b.levels[s]
  <2>1. NewLevel.mOrders = <<>> /\ NewLevel.mTotalQty = 0 /\ <<>> \in Seq({}) /\ Len(<<>>) = 0
    BY DEF NewLevel
  <2>2. PICK f : SumTo(f, 0, OpenQtys(b, <<>>)) /\ LevelSum(b, NewLevel) = f[0]
    <3> HIDE DEF NewLevel
    <3>1. NewLevel.mOrders \in Seq({})
      BY <2>1
    <3>2. \E f : /\ SumTo(f, Len(NewLevel.mOrders), OpenQtys(b, NewLevel.mOrders))
                 /\ LevelSum(b, NewLevel) = f[Len(NewLevel.mOrders)]
      BY <3>1, LevelSumIs, Zenon
    <3> QED  BY <2>1, <3>2
  <2>3. f[0] = 0
    BY <2>2 DEF SumTo
  <2>4. Minus(0, 0) = 0
    BY DriftMoves
  <2> QED  BY <1>2, <2>1, <2>2, <2>3, <2>4 DEF Drift, getOrCreateLevel
<1> QED
  BY <1>1, <1>2

(* A level that an operation leaves alone keeps its drift, when the        *)
(* operation changes the quantity of an order of another level only.       *)
LEMMA OtherLevels ==
  ASSUME NEW b, BookInv(b), NEW c, NEW id, NEW s \in Side, NEW p \in Prices,
         \A x \in DOMAIN b.orderMap \ {id} : c.orderMap[x] = b.orderMap[x],
         ~At(b, id, s, p), getOrCreateLevel(c.levels[s], p) = getOrCreateLevel(b.levels[s], p)
  PROVE  Drift(c, s, p) = Drift(b, s, p)
<1> DEFINE lvl == getOrCreateLevel(b.levels[s], p)
<1>1. Queued(b, s, p, lvl)
  BY LevelQueued
<1>2. Drift(b, s, p) = Minus(lvl.mTotalQty, LevelSum(b, lvl)) /\ Drift(c, s, p) = Minus(lvl.mTotalQty, LevelSum(c, lvl))
  BY DriftIs
<1> HIDE DEF lvl
<1>3. lvl.mOrders \in Seq(OrderId) /\ QtysKept(b, c, lvl.mOrders, 0)
  <2>1. ASSUME NEW k \in 1 .. Len(lvl.mOrders)
        PROVE  /\ b.orderMap[lvl.mOrders[k]].m_quantity \in Int
               /\ c.orderMap[lvl.mOrders[k]].m_quantity = b.orderMap[lvl.mOrders[k]].m_quantity
    <3> DEFINE x == lvl.mOrders[k]
    <3>1. At(b, x, s, p) /\ x \in DOMAIN b.orderMap /\ b.orderMap[x].m_quantity \in Int
      BY <1>1 DEF Queued
    <3> HIDE DEF x
    <3>2. x # id
      BY <3>1
    <3>3. c.orderMap[x] = b.orderMap[x]
      BY <3>1, <3>2
    <3> QED  BY <3>1, <3>3 DEF x
  <2> QED  BY <1>1, <2>1 DEF Queued, QtysKept
<1>4. LevelSum(c, lvl) = LevelSum(b, lvl)
  BY <1>3, SumSame
<1> QED
  BY <1>2, <1>4

(* Taking an order out of its level and both indexes keeps every total in  *)
(* line, when removeOrder gets the quantity that is in the sum.            *)
LEMMA DropKeepsTotals ==
  ASSUME NEW b, BookInv(b), NEW s \in Side, NEW p \in Prices, NEW id, At(b, id, s, p)
  PROVE  DriftKept(b, DropOrder(b, s, p, PriceLevel_removeOrder(b.levels[s][p], id, b.orderMap[id].m_quantity), id))
<1> DEFINE old == b.levels[s][p]
           q   == b.orderMap[id].m_quantity
           lvl == PriceLevel_removeOrder(old, id, q)
           c   == DropOrder(b, s, p, lvl, id)
<1>1. p \in DOMAIN b.levels[s] /\ getOrCreateLevel(b.levels[s], p) = old
  BY BookFacts DEF InLevel, getOrCreateLevel
<1>2. Queued(b, s, p, old)
  BY <1>1, LevelQueued
<1> HIDE DEF old
<1>3. PICK i \in 1 .. Len(old.mOrders) : old.mOrders[i] = id
  BY <1>2 DEF Queued
<1>4. lvl.mOrders = RemoveFirst(old.mOrders, id) /\ lvl.mTotalQty = Minus(old.mTotalQty, q)
  <2>1. id \in ToSet(old.mOrders)
    BY <1>2, <1>3 DEF ToSet, Queued
  <2> QED  BY <2>1 DEF PriceLevel_removeOrder, old
<1> HIDE DEF lvl
<1>5. /\ c.levels = [b.levels EXCEPT ![s] = StoreLevel(@, p, lvl)]
      /\ \A x \in DOMAIN b.orderMap \ {id} : c.orderMap[x] = b.orderMap[x]
      /\ b.levels = [r \in Side |-> b.levels[r]]
  BY DEF DropOrder, Erase, Restrict, BookInv, BookTypeOK
<1> HIDE DEF c
<1>6. QtysKept(b, c, old.mOrders, i)
  <2>1. ASSUME NEW k \in 1 .. Len(old.mOrders), k # i
        PROVE  c.orderMap[old.mOrders[k]].m_quantity = b.orderMap[old.mOrders[k]].m_quantity
    <3> DEFINE x == old.mOrders[k]
    <3>1. x \in DOMAIN b.orderMap /\ x # id
      BY <1>2, <1>3, <2>1 DEF Queued, Distinct
    <3> HIDE DEF x
    <3>2. c.orderMap[x] = b.orderMap[x]
      BY <1>5, <3>1
    <3> QED  BY <3>2 DEF x
  <2> QED  BY <1>2, <2>1 DEF Queued, QtysKept
<1>7. LevelSum(b, old) \in Int /\ LevelSum(c, lvl) = LevelSum(b, old) - q
  <2>1. /\ old.mOrders \in Seq(OrderId) /\ Distinct(old.mOrders)
        /\ lvl.mOrders = RemoveFirst(old.mOrders, old.mOrders[i]) /\ q = b.orderMap[old.mOrders[i]].m_quantity
    BY <1>2, <1>3, <1>4 DEF Queued
  <2> HIDE DEF q
  <2>2. /\ LevelSum(b, old) \in Int
        /\ LevelSum(c, lvl) = LevelSum(b, old) - b.orderMap[old.mOrders[i]].m_quantity
    <3>1. Parted(b, old, c, lvl, i)
      BY <1>6, <2>1 DEF Parted
    <3> QED  BY <3>1, SumRemove
  <2> QED  BY <2>1, <2>2
<1>8. Drift(b, s, p) = Minus(old.mTotalQty, LevelSum(b, old))
  BY <1>1, DriftIs
<1>9. old.mTotalQty \in Int /\ q \in Int
  BY <1>2, <1>3 DEF Queued
<1> HIDE DEF q
<1>10. Drift(c, s, p) \in {0, Drift(b, s, p)}
  <2>1. CASE p \notin DOMAIN c.levels[s]
    BY <2>1 DEF Drift
  <2>2. CASE p \in DOMAIN c.levels[s]
    <3>1. c.levels[s][p] = lvl
      BY <1>5, <2>2, StoreLevelFacts
    <3>2. Drift(c, s, p) = Minus(Minus(old.mTotalQty, q), LevelSum(b, old) - q)
      BY <1>4, <1>7, <2>2, <3>1 DEF Drift
    <3> QED  BY <1>7, <1>8, <1>9, <3>2, DriftMoves
  <2> QED  BY <2>1, <2>2
<1>11. ASSUME NEW r \in Side, NEW x, ~(r = s /\ x = p) PROVE Drift(c, r, x) \in {0, Drift(b, r, x)}
  <2>1. /\ x \in DOMAIN c.levels[r] <=> x \in DOMAIN b.levels[r]
        /\ x \in DOMAIN b.levels[r] => c.levels[r][x] = b.levels[r][x]
    BY <1>5, <1>11, StoreLevelFacts
  <2>2. CASE x \notin DOMAIN b.levels[r]
    BY <2>1, <2>2 DEF Drift
  <2>3. CASE x \in DOMAIN b.levels[r]
    <3>1. ~At(b, id, r, x) /\ x \in Prices
      BY <1>11, <2>3, QueueFacts DEF At
    <3>2. getOrCreateLevel(c.levels[r], x) = getOrCreateLevel(b.levels[r], x)
      BY <2>1, <2>3 DEF getOrCreateLevel
    <3> QED  BY <1>5, <3>1, <3>2, OtherLevels
  <2> QED  BY <2>2, <2>3
<1> QED
  BY <1>10, <1>11 DEF DriftKept, c, lvl, q, old

(* So does putting a new one at the back of a level.                       *)
LEMMA RestKeepsTotals ==
  ASSUME NEW b, BookInv(b), NEW s \in Side, NEW p \in Prices, NEW id \in OrderId, id \notin DOMAIN b.orderMap,
         NEW t, NEW q \in Quantity
  PROVE  DriftKept(b, RestOrder(b, id, t, s, p, q))
<1> DEFINE c   == RestOrder(b, id, t, s, p, q)
           old == getOrCreateLevel(b.levels[s], p)
           lvl == PriceLevel_addOrder(old, id, q)
<1>1. Queued(b, s, p, old)
  BY LevelQueued
<1>2. Drift(b, s, p) = Minus(old.mTotalQty, LevelSum(b, old))
  BY DriftIs
<1>3. /\ c.levels = [b.levels EXCEPT ![s] = Put(@, p, lvl)]
      /\ c.orderMap[id].m_quantity = q
      /\ \A x \in DOMAIN b.orderMap \ {id} : c.orderMap[x] = b.orderMap[x]
      /\ b.levels = [r \in Side |-> b.levels[r]]
  BY DEF RestOrder, insertIntoLevel, Put, BookInv, BookTypeOK
<1> HIDE DEF old, c
<1>4. lvl.mOrders = Append(old.mOrders, id) /\ lvl.mTotalQty = Plus(old.mTotalQty, q)
  BY DEF PriceLevel_addOrder
<1> HIDE DEF lvl
<1>5. QtysKept(b, c, old.mOrders, 0)
  BY <1>1, <1>3 DEF Queued, QtysKept
<1>6. q \in Int /\ old.mTotalQty \in Int /\ old.mOrders \in Seq(OrderId)
  BY <1>1, QtyModAssumption DEF Queued, Quantity
<1>7. LevelSum(b, old) \in Int /\ LevelSum(c, lvl) = LevelSum(b, old) + q
  <2>1. c.orderMap[id].m_quantity \in Int
    BY <1>3, <1>6
  <2>2. LevelSum(b, old) \in Int /\ LevelSum(c, lvl) = LevelSum(b, old) + c.orderMap[id].m_quantity
    <3>1. Joined(b, old, c, lvl, id)
      BY <1>4, <1>5, <1>6, <2>1 DEF Joined
    <3> QED  BY <3>1, SumAppend
  <2> QED  BY <1>3, <2>2
<1>8. Drift(c, s, p) = Drift(b, s, p)
  <2>1. p \in DOMAIN c.levels[s] /\ c.levels[s][p] = lvl
    BY <1>3 DEF Put
  <2>2. Drift(c, s, p) = Minus(Plus(old.mTotalQty, q), LevelSum(b, old) + q)
    BY <1>4, <1>7, <2>1 DEF Drift
  <2> QED  BY <1>2, <1>6, <1>7, <2>2, DriftMoves
<1>9. ASSUME NEW r \in Side, NEW x, ~(r = s /\ x = p) PROVE Drift(c, r, x) \in {0, Drift(b, r, x)}
  <2>1. /\ x \in DOMAIN c.levels[r] <=> x \in DOMAIN b.levels[r]
        /\ x \in DOMAIN b.levels[r] => c.levels[r][x] = b.levels[r][x]
    BY <1>3, <1>9 DEF Put
  <2>2. CASE x \notin DOMAIN b.levels[r]
    BY <2>1, <2>2 DEF Drift
  <2>3. CASE x \in DOMAIN b.levels[r]
    <3>1. ~At(b, id, r, x) /\ x \in Prices
      BY <2>3, QueueFacts, BookFacts DEF At
    <3>2. getOrCreateLevel(c.levels[r], x) = getOrCreateLevel(b.levels[r], x)
      BY <2>1, <2>3 DEF getOrCreateLevel
    <3> QED  BY <1>3, <3>1, <3>2, OtherLevels
  <2> QED  BY <2>2, <2>3
<1> QED
  BY <1>8, <1>9 DEF DriftKept, c

(* DriftKept composes.                                                     *)
LEMMA DriftKeptTwice ==
  ASSUME NEW b, NEW c, NEW d, DriftKept(b, c), DriftKept(c, d)
  PROVE  DriftKept(b, d)
BY DEF DriftKept

(* The iteration that prevents a self-trade keeps the totals in line.      *)
LEMMA selfTradeTotals ==
  ASSUME NEW b, BookInv(b), NEW inc, inc.side \in Side, NEW rem, CanMatch(b, inc, rem)
  PROVE  DriftKept(b, selfTradeStep(b, inc, rem).book)
<1> DEFINE s  == oppositeSide(inc.side)
           p  == BestLevelPrice(b, inc)
           id == peekFirst(b, inc)
<1>1. s \in Side /\ p \in Prices /\ At(b, id, s, p)
  BY FirstInLine
<1>2. selfTradeStep(b, inc, rem).book
        = DropOrder(b, s, p, PriceLevel_removeOrder(b.levels[s][p], id, b.orderMap[id].m_quantity), id)
  BY DEF selfTradeStep, Effect
<1> HIDE DEF s, p, id
<1>3. DriftKept(b, DropOrder(b, s, p, PriceLevel_removeOrder(b.levels[s][p], id, b.orderMap[id].m_quantity), id))
  BY <1>1, DropKeepsTotals
<1> QED
  BY <1>2, <1>3

(* So does cancelOrder.                                                    *)
LEMMA cancelOrderTotals ==
  ASSUME NEW b, BookInv(b), NEW id, NEW t, Owns(b, id, t)
  PROVE  DriftKept(b, cancelOrder(b, id, t).book)
<1> DEFINE s   == b.orderDetails[id].side
           p   == b.orderDetails[id].price
           q   == b.orderMap[id].m_quantity
           lvl == PriceLevel_removeOrder(b.levels[s][p], id, q)
<1>1. s \in Side /\ At(b, id, s, p) /\ q \in Quantity
  BY DetailsOf DEF Owns, OrderDetails, BookElement
<1>2. p \in DOMAIN b.levels[s] /\ p \in Prices
  BY <1>1, RemoveOrderLevel
<1>3. cancelOrder(b, id, t).book = DropOrder(b, s, p, lvl, id)
  BY <1>2 DEF cancelOrder, Effect, removeFromLevel, DropOrder
<1> HIDE DEF s, p
<1>4. DriftKept(b, DropOrder(b, s, p, lvl, id))
  BY <1>1, <1>2, DropKeepsTotals
<1> QED
  BY <1>3, <1>4

(* So does modifyOrder when the order loses its place.                     *)
LEMMA modifyOrderTotals ==
  ASSUME NEW b, BookInv(b), NEW id, NEW t, Owns(b, id, t), NEW np \in Prices, NEW nq \in Quantity,
         ~KeepsPriority(b.orderDetails[id], np, nq)
  PROVE  DriftKept(b, modifyOrder(b, id, t, np, nq).book)
<1> DEFINE d   == b.orderDetails[id]
           s   == d.side
           p   == d.price
           q   == b.orderMap[id].m_quantity
           lvl == PriceLevel_removeOrder(b.levels[s][p], id, q)
           m   == DropOrder(b, s, p, lvl, id)
           c   == modifyOrder(b, id, t, np, nq).book
<1>1. s \in Side /\ At(b, id, s, p) /\ q \in Quantity /\ id \in OrderId
  BY DetailsOf DEF Owns, OrderDetails, BookElement
<1>2. /\ p \in DOMAIN b.levels[s] /\ p \in Prices
      /\ lvl \in PriceLevel /\ lvl.mOrders = RemoveFirst(b.levels[s][p].mOrders, id)
  BY <1>1, RemoveOrderLevel
<1>3. c = RestOrder(m, id, t, s, np, nq)
  <2>1. c.levels = RestOrder(m, id, t, s, np, nq).levels
    BY <1>1, <1>2 DEF modifyOrder, Effect, RelevelModified, removeFromLevel, RestOrder, DropOrder, BookInv, BookTypeOK
  <2>2. /\ c.orderMap = RestOrder(m, id, t, s, np, nq).orderMap
        /\ c.orderDetails = RestOrder(m, id, t, s, np, nq).orderDetails
    BY DEF modifyOrder, Effect, RestOrder, DropOrder, Put, Erase, Restrict
  <2> QED  BY <2>1, <2>2 DEF modifyOrder, Effect, RestOrder
<1>4. id \notin DOMAIN m.orderMap
  BY DEF DropOrder, Erase, Restrict
<1> HIDE DEF c, d
<1>5. DriftKept(b, m)
  BY <1>1, <1>2, DropKeepsTotals
<1> HIDE DEF lvl
<1>6. BookInv(m)
  BY <1>1, <1>2, DropOrderInv
<1> HIDE DEF m
<1>7. DriftKept(m, RestOrder(m, id, t, s, np, nq))
  BY <1>1, <1>4, <1>6, RestKeepsTotals
<1>8. DriftKept(b, c)
  BY <1>3, <1>5, <1>7, DriftKeptTwice
<1> QED
  BY <1>8 DEF c

(* What a step on the book of one symbol has to show.                      *)
LEMMA OneBookTotals ==
  ASSUME IInv, NEW sym \in Symbols, NEW c, DriftKept(books[sym], c), books' = [books EXCEPT ![sym] = c]
  PROVE  KeepsTotals
<1>1. ASSUME NEW r \in Symbols, NEW s \in Side, NEW p
      PROVE  Drift(books'[r], s, p) \in {0, Drift(books[r], s, p)}
  <2>1. CASE r = sym
    <3>1. books'[r] = c
      BY <2>1 DEF IInv, TypeOK
    <3> QED  BY <2>1, <3>1 DEF DriftKept
  <2>2. CASE r # sym
    <3>1. books'[r] = books[r]
      BY <2>2 DEF IInv, TypeOK
    <3> QED  BY <3>1
  <2> QED  BY <2>1, <2>2
<1> QED
  BY <1>1 DEF KeepsTotals

(* A step that changes a book, other than by a trade or a modify in place, *)
(* keeps every total in line.                                              *)
LEMMA TotalsKeptStep ==
  ASSUME IInv, Next, books' # books, ~\E sym \in Symbols : ModifiesInPlace(sym),
         ~(call' = "matching" /\ Confirms("Trade"))
  PROVE  KeepsTotals
<1>1. DOMAIN books = Symbols /\ books = [s \in Symbols |-> books[s]]
      /\ \A s \in Symbols : BookInv(books[s])
  BY SoundBooks DEF IInv, TypeOK
<1>2. ASSUME NEW sym \in Symbols, books' = [books EXCEPT ![sym] = books[sym]] PROVE FALSE
  BY <1>1, <1>2
<1>3. CASE matchAgainst
  <2> DEFINE sym == incoming.symbolId
             b   == books[sym]
             e   == matchStep(b, incoming, remainingQty)
  <2>1. /\ call = "matching" /\ call' = "matching" /\ CanMatch(b, incoming, remainingQty)
        /\ books' = [books EXCEPT ![sym] = e.book] /\ confirmsOut' = confirmsOut \o e.confirms
    BY <1>3 DEF matchAgainst
  <2>2. incoming.side \in Side /\ sym \in Symbols /\ confirmsOut \in Seq(Confirmation)
    BY <2>1 DEF IInv, TypeOK, IncomingOrder
  <2>3. b.orderMap[peekFirst(b, incoming)].m_traderId = incoming.traderId
    <3> SUFFICES ASSUME b.orderMap[peekFirst(b, incoming)].m_traderId # incoming.traderId PROVE Confirms("Trade")
      BY <2>1
    <3>1. e = tradeStep(b, incoming, remainingQty)
      BY DEF matchStep
    <3>2. \E x, y : e.confirms = <<x, y>> /\ y.type = "Trade"
      BY <3>1 DEF tradeStep, Effect, OrderConfirm
    <3> HIDE DEF e
    <3>3. PICK x, y : e.confirms = <<x, y>> /\ y.type = "Trade"
      BY <3>2
    <3>4. Len(confirmsOut') = Len(confirmsOut) + 2 /\ confirmsOut'[Len(confirmsOut) + 2] = y /\ confirmsOut' # <<>>
      BY <2>1, <2>2, <3>3
    <3> QED  BY <3>3, <3>4 DEF Confirms
  <2>4. e = selfTradeStep(b, incoming, remainingQty)
    BY <2>3 DEF matchStep
  <2>5. DriftKept(b, e.book)
    BY <1>1, <2>1, <2>2, <2>4, selfTradeTotals
  <2> HIDE DEF e, sym
  <2> QED  BY <2>1, <2>2, <2>5, OneBookTotals
<1>4. CASE addOrder_return
  <2> DEFINE sym == incoming.symbolId
             id  == incoming.orderId
             b   == books[sym]
             c   == addOrder_rest(b, incoming, remainingQty)
  <2>1. call = "matching" /\ books' = [books EXCEPT ![sym] = c]
    BY <1>4 DEF addOrder_return
  <2>2. /\ incoming.side \in Side /\ remainingQty \in Quantity /\ incoming.price \in Prices
        /\ id \in OrderId /\ sym \in Symbols
    BY <2>1 DEF IInv, TypeOK, IncomingOrder
  <2>3. id \notin DOMAIN b.orderMap
    BY <2>1, <2>2 DEF IInv, IdsUnique
  <2>4. remainingQty # 0
    BY <1>2, <2>1, <2>2 DEF addOrder_rest
  <2>5. c = RestOrder(b, id, incoming.traderId, incoming.side, incoming.price, remainingQty)
    BY <2>4 DEF addOrder_rest
  <2>6. BookInv(b)
    BY <1>1, <2>2
  <2> HIDE DEF c, sym, b, id
  <2>7. DriftKept(b, RestOrder(b, id, incoming.traderId, incoming.side, incoming.price, remainingQty))
    BY <2>2, <2>3, <2>6, RestKeepsTotals
  <2>8. DriftKept(books[sym], c)
    BY <2>5, <2>7 DEF b
  <2> QED  BY <2>1, <2>2, <2>8, OneBookTotals
<1>5. ASSUME NEW id \in RequestIds, NEW sym \in AllSymbols, NEW t \in Traders, onCancel(id, sym, t)
      PROVE  KeepsTotals
  <2> DEFINE c == cancelOrder(books[sym], id, t).book
  <2>1. sym \in Symbols /\ books' = [books EXCEPT ![sym] = c]
    BY <1>5 DEF onCancel
  <2>2. Owns(books[sym], id, t)
    BY <1>2, <2>1 DEF cancelOrder, Effect
  <2>3. DriftKept(books[sym], c)
    BY <1>1, <2>1, <2>2, cancelOrderTotals
  <2> HIDE DEF c
  <2> QED  BY <2>1, <2>3, OneBookTotals
<1>6. ASSUME NEW id \in RequestIds, NEW sym \in AllSymbols, NEW t \in Traders, NEW p \in Prices,
             NEW q \in Qtys, onModify(id, sym, t, p, q)
      PROVE  KeepsTotals
  <2> DEFINE b == books[sym]
             e == modifyOrder(b, id, t, p, q)
             c == OrderConfirm("ModifyAck", id, t, 0, 0, "UnknownOrder")
  <2>1. sym \in Symbols /\ books' = [books EXCEPT ![sym] = e.book] /\ confirmsOut' = e.confirms
    BY <1>6 DEF onModify, Report
  <2>2. Owns(b, id, t)
    BY <1>2, <2>1 DEF modifyOrder, Effect
  <2>3. confirmsOut' = <<c>> /\ c.type = "ModifyAck" /\ c.orderId = id
    BY <2>1, <2>2 DEF modifyOrder, Effect, OrderConfirm
  <2>4. id \in DOMAIN b.orderMap
    BY <2>2 DEF Owns
  <2>5. e.book.orderDetails[id].price = p /\ e.book.orderDetails[id].quantity = q
    BY <2>2 DEF modifyOrder, Effect, Put
  <2> HIDE DEF e, c
  <2>6. books'[sym] = e.book
    BY <1>1, <2>1
  <2>7. ~KeepsPriority(b.orderDetails[id], p, q)
    <3>1. confirmsOut'[Len(confirmsOut')] = c /\ confirmsOut' # <<>>
      BY <2>3
    <3> SUFFICES ASSUME KeepsPriority(b.orderDetails[id], p, q) PROVE ModifiesInPlace(sym)
      BY <2>1
    <3> QED  BY <2>3, <2>4, <2>5, <2>6, <3>1 DEF ModifiesInPlace, Confirms
  <2>8. BookInv(b) /\ q \in Quantity
    BY <1>1, <2>1, QtysAssumption
  <2> HIDE DEF b
  <2>9. DriftKept(b, e.book)
    BY <2>2, <2>7, <2>8, modifyOrderTotals DEF e
  <2>10. DriftKept(books[sym], e.book)
    BY <2>9 DEF b
  <2> QED  BY <2>1, <2>10, OneBookTotals
<1>7. ASSUME NEW t \in Traders, NEW sym \in AllSymbols, NEW side \in Side, NEW p \in Prices,
             NEW q \in Qtys, onOrder(t, sym, side, p, q)
      PROVE  FALSE
  BY <1>7 DEF onOrder, onOrder_Unlisted, onOrder_Listed
<1> QED
  BY <1>3, <1>4, <1>5, <1>6, <1>7 DEF Next

(* No step but a trade and a modify in place puts the total of a level out *)
(* of line with the orders in it.                                          *)
THEOREM TotalsStayKept == Spec => TotalsKept
<1>1. ASSUME IInv, [Next]_vars
      PROVE  [/\ books' # books
              /\ ~\E sym \in Symbols : ModifiesInPlace(sym)
              /\ ~(call' = "matching" /\ Confirms("Trade"))
              => KeepsTotals]_vars
  BY <1>1, TotalsKeptStep
<1> QED
  BY <1>1, InductiveInvariant, PTL DEF Spec, TotalsKept

=============================================================================
