-------------------------- MODULE OrderBookProofs --------------------------
(***************************************************************************)
(* Lemmas about the order book: every operation maps a sound book to a     *)
(* sound one, for any traders and prices and any width of Quantity.        *)
(***************************************************************************)
EXTENDS OrderBook, SequenceTheorems, WellFoundedInduction, TLAPS

(* m[k] = v sets entry k and keeps the others.                             *)
LEMMA PutFacts ==
  ASSUME NEW m, NEW k, NEW v
  PROVE  /\ DOMAIN Put(m, k, v) = DOMAIN m \cup {k}
         /\ Put(m, k, v)[k] = v
         /\ \A x \in DOMAIN m \ {k} : Put(m, k, v)[x] = m[x]
BY DEF Put

(* m.erase(k) drops entry k and keeps the others.                          *)
LEMMA EraseFacts ==
  ASSUME NEW m, NEW k
  PROVE  /\ DOMAIN Erase(m, k) = DOMAIN m \ {k}
         /\ \A x \in DOMAIN m \ {k} : Erase(m, k)[x] = m[x]
BY DEF Erase, Restrict

(* Taking element k out of a queue without duplicates (mOrders.erase,      *)
(* price_level.hpp:27) leaves the other elements, and none of them twice.  *)
LEMMA RemoveFirstFacts ==
  ASSUME NEW S, NEW s \in Seq(S), NEW i \in 1 .. Len(s),
         \A j, k \in 1 .. Len(s) : s[j] = s[k] => j = k
  PROVE  /\ RemoveFirst(s, s[i]) \in Seq(S)
         /\ Len(RemoveFirst(s, s[i])) = Len(s) - 1
         /\ \A j \in 1 .. Len(s) - 1 :
              RemoveFirst(s, s[i])[j] = IF j < i THEN s[j] ELSE s[j + 1]
<1>1. {j \in 1 .. Len(s) : s[j] = s[i]} = {i}
  OBVIOUS
<1>2. Min({i}) = i
  BY DEF Min
<1>3. SelectInSeq(s, LAMBDA v : v = s[i]) = i
  BY <1>1, <1>2 DEF SelectInSeq
<1>4. RemoveFirst(s, s[i]) = SubSeq(s, 1, i - 1) \o SubSeq(s, i + 1, Len(s))
  BY <1>3 DEF RemoveFirst, RemoveAt
<1> DEFINE a == SubSeq(s, 1, i - 1)
           b == SubSeq(s, i + 1, Len(s))
<1>5. /\ a \in Seq(S) /\ Len(a) = i - 1
      /\ \A j \in 1 .. i - 1 : a[j] = s[j]
  <2>1. \A j \in 1 .. i - 1 : s[j] \in S
    OBVIOUS
  <2> QED  BY <2>1, SubSeqProperties
<1>6. /\ b \in Seq(S) /\ Len(b) = Len(s) - i
      /\ \A j \in 1 .. Len(s) - i : b[j] = s[i + j]
  <2>1. \A j \in i + 1 .. Len(s) : s[j] \in S
    OBVIOUS
  <2> QED  BY <2>1, SubSeqProperties
<1> HIDE DEF a, b
<1>7. /\ a \o b \in Seq(S)
      /\ Len(a \o b) = Len(s) - 1
      /\ \A j \in 1 .. Len(s) - 1 : (a \o b)[j] = IF j < i THEN s[j] ELSE s[j + 1]
  <2>1. /\ a \o b \in Seq(S)
        /\ Len(a \o b) = Len(a) + Len(b)
        /\ \A j \in 1 .. Len(a) + Len(b) :
             (a \o b)[j] = IF j <= Len(a) THEN a[j] ELSE b[j - Len(a)]
    <3>1. a \in Seq(S) /\ b \in Seq(S)
      BY <1>5, <1>6
    <3> QED  BY <3>1, ConcatProperties, Zenon
  <2> DEFINE c == a \o b
  <2> HIDE DEF c
  <2>2. /\ Len(c) = Len(s) - 1
        /\ \A j \in 1 .. Len(s) - 1 : c[j] = IF j <= i - 1 THEN a[j] ELSE b[j - (i - 1)]
    BY <1>5, <1>6, <2>1 DEF c
  <2>3. ASSUME NEW j \in 1 .. Len(s) - 1 PROVE c[j] = IF j < i THEN s[j] ELSE s[j + 1]
    <3>1. CASE j < i
      BY <1>5, <2>2, <3>1
    <3>2. CASE ~(j < i)
      <4>1. c[j] = b[j - i + 1] /\ j - i + 1 \in 1 .. Len(s) - i
        BY <2>2, <3>2
      <4> QED  BY <1>6, <3>2, <4>1
    <3> QED  BY <3>1, <3>2
  <2> QED  BY <2>1, <2>2, <2>3 DEF c
<1> QED
  BY <1>4, <1>7 DEF a, b

(* A non-empty set of naturals has a least element.                        *)
LEMMA NatMin ==
  ASSUME NEW T \in SUBSET Nat, T # {}
  PROVE  \E x \in T : \A y \in T : x <= y
<1> DEFINE R == OpToRel(<, Nat)
<1>1. IsWellFoundedOn(R, Nat)
  BY NatLessThanWellFounded
<1>2. \A x, y \in Nat : y < x => <<y, x>> \in R
  BY DEF OpToRel
<1> HIDE DEF R
<1>3. PICK x \in T : \A y \in T : ~ (<<y, x>> \in R)
  BY <1>1, WFMin
<1>4. ASSUME NEW y \in T PROVE x <= y
  <2>1. x \in Nat /\ y \in Nat
    OBVIOUS
  <2>2. ~(y < x)
    BY <1>2, <1>3, <2>1
  <2> QED  BY <2>1, <2>2
<1> QED
  BY <1>4

(* levels.begin() of a non-empty side is one of its prices, and no price   *)
(* of that side is better.                                                 *)
LEMMA BestPriceFacts ==
  ASSUME NEW s \in Side, NEW m, DOMAIN m \subseteq Prices, DOMAIN m # {}
  PROVE  /\ BestPrice(s, m) \in DOMAIN m
         /\ \A q \in DOMAIN m : ~Better(s, q, BestPrice(s, m))
<1>1. \E p \in DOMAIN m : \A q \in DOMAIN m : ~Better(s, q, p)
  <2>1. CASE s = "Sell"
    <3>1. DOMAIN m \in SUBSET Nat
      BY MaxPriceAssumption DEF Prices
    <3>2. PICK p \in DOMAIN m : \A q \in DOMAIN m : p <= q
      BY <3>1, NatMin
    <3> QED  BY <2>1, <3>1, <3>2 DEF Better
  <2>2. CASE s = "Buy"
    <3> DEFINE T == {MaxPrice - p : p \in DOMAIN m}
    <3>1. T \in SUBSET Nat /\ T # {}
      BY MaxPriceAssumption DEF Prices
    <3>2. PICK x \in T : \A y \in T : x <= y
      BY <3>1, NatMin
    <3>3. PICK p \in DOMAIN m : x = MaxPrice - p
      BY <3>2
    <3>4. ASSUME NEW q \in DOMAIN m PROVE ~Better(s, q, p)
      <4>1. MaxPrice - p <= MaxPrice - q
        BY <3>2, <3>3
      <4> QED  BY <2>2, <4>1, MaxPriceAssumption DEF Better, Prices
    <3> QED  BY <3>4
  <2> QED  BY <2>1, <2>2 DEF Side
<1> QED
  BY <1>1 DEF BestPrice

(* Storing a level back changes the entry of its price only, and erases it *)
(* exactly when the level is empty.                                        *)
LEMMA StoreLevelFacts ==
  ASSUME NEW m, NEW p, NEW lvl
  PROVE  /\ \A q : q # p => /\ q \in DOMAIN StoreLevel(m, p, lvl) <=> q \in DOMAIN m
                            /\ q \in DOMAIN m => StoreLevel(m, p, lvl)[q] = m[q]
         /\ p \in DOMAIN StoreLevel(m, p, lvl) <=> lvl.mOrders # <<>>
         /\ lvl.mOrders # <<>> => StoreLevel(m, p, lvl)[p] = lvl
         /\ StoreLevel(m, p, lvl) = [q \in DOMAIN StoreLevel(m, p, lvl) |-> StoreLevel(m, p, lvl)[q]]
BY DEF StoreLevel, Put, Erase, Restrict

BookInv(b) == BookTypeOK(b) /\ BookConsistent(b)

At(b, id, s, p) ==
  /\ id \in DOMAIN b.orderDetails
  /\ b.orderDetails[id].side = s
  /\ b.orderDetails[id].price = p

InLevel(b, id, s, p) ==
  p \in DOMAIN b.levels[s] /\ \E i \in DOMAIN b.levels[s][p].mOrders : b.levels[s][p].mOrders[i] = id

(* LevelsIndexed in terms of At.                                           *)
LEMMA LevelsIndexedAt ==
  ASSUME NEW b, DOMAIN b.orderMap = DOMAIN b.orderDetails
  PROVE  LevelsIndexed(b) <=>
           \A s \in Side : \A p \in DOMAIN b.levels[s] :
             \A i \in DOMAIN b.levels[s][p].mOrders : At(b, b.levels[s][p].mOrders[i], s, p)
<1>1. ASSUME LevelsIndexed(b), NEW s \in Side, NEW p \in DOMAIN b.levels[s],
             NEW i \in DOMAIN b.levels[s][p].mOrders
      PROVE  At(b, b.levels[s][p].mOrders[i], s, p)
  BY <1>1 DEF LevelsIndexed, At
<1>2. ASSUME NEW s \in Side, NEW p \in DOMAIN b.levels[s], NEW i \in DOMAIN b.levels[s][p].mOrders,
             At(b, b.levels[s][p].mOrders[i], s, p)
      PROVE  LET id == b.levels[s][p].mOrders[i]
             IN  /\ id \in DOMAIN b.orderMap /\ id \in DOMAIN b.orderDetails
                 /\ b.orderDetails[id].side = s /\ b.orderDetails[id].price = p
  BY <1>2 DEF At
<1>3. ASSUME \A s \in Side : \A p \in DOMAIN b.levels[s] :
               \A i \in DOMAIN b.levels[s][p].mOrders : At(b, b.levels[s][p].mOrders[i], s, p)
      PROVE  LevelsIndexed(b)
  BY <1>2, <1>3 DEF LevelsIndexed
<1> QED
  BY <1>1, <1>3

(* IndexedInLevels in terms of At and InLevel.                             *)
LEMMA IndexedInLevelsAt ==
  ASSUME NEW b, DOMAIN b.orderMap = DOMAIN b.orderDetails
  PROVE  IndexedInLevels(b) <=> \A id, s, p : At(b, id, s, p) => InLevel(b, id, s, p)
<1>1. ASSUME IndexedInLevels(b), NEW id, NEW s, NEW p, At(b, id, s, p)
      PROVE  InLevel(b, id, s, p)
  BY <1>1 DEF IndexedInLevels, At, InLevel
<1>2. ASSUME \A id, s, p : At(b, id, s, p) => InLevel(b, id, s, p)
      PROVE  IndexedInLevels(b)
  <2> SUFFICES ASSUME NEW id \in DOMAIN b.orderDetails
               PROVE  InLevel(b, id, b.orderDetails[id].side, b.orderDetails[id].price)
    BY DEF IndexedInLevels, InLevel
  <2>1. At(b, id, b.orderDetails[id].side, b.orderDetails[id].price)
    BY DEF At
  <2> QED  BY <1>2, <2>1
<1> QED
  BY <1>1, <1>2

(* In a sound book both indexes have the same ids, and an order stands in  *)
(* a level exactly when its details place it there.                        *)
LEMMA BookFacts ==
  ASSUME NEW b, BookInv(b)
  PROVE  /\ DOMAIN b.orderMap = DOMAIN b.orderDetails
         /\ \A r \in Side : \A q \in DOMAIN b.levels[r] :
              \A i \in DOMAIN b.levels[r][q].mOrders : At(b, b.levels[r][q].mOrders[i], r, q)
         /\ \A id, r, q : At(b, id, r, q) => InLevel(b, id, r, q)
<1>1. DOMAIN b.orderMap = DOMAIN b.orderDetails /\ LevelsIndexed(b) /\ IndexedInLevels(b)
  BY DEF BookInv, BookConsistent, IndexedInLevels
<1> QED
  BY <1>1, LevelsIndexedAt, IndexedInLevelsAt

(* The queue q holds the orders that the details of b place at s, p.       *)
Holds(b, s, p, q) ==
  /\ q \in Seq(OrderId)
  /\ \A i \in DOMAIN q : At(b, q[i], s, p)
  /\ \A x : At(b, x, s, p) => \E i \in DOMAIN q : q[i] = x
  /\ \A i, j \in DOMAIN q : q[i] = q[j] => i = j

(* A level of a sound book is not empty and holds the orders placed at it, *)
(* each once.                                                              *)
LEMMA QueueFacts ==
  ASSUME NEW b, BookInv(b), NEW s \in Side, NEW p \in DOMAIN b.levels[s]
  PROVE  /\ p \in Prices
         /\ b.levels[s][p] \in PriceLevel
         /\ b.levels[s][p].mOrders # <<>>
         /\ Holds(b, s, p, b.levels[s][p].mOrders)
<1>1. /\ p \in Prices
      /\ b.levels[s][p] \in PriceLevel
      /\ b.levels[s][p].mOrders # <<>>
      /\ \A i, j \in DOMAIN b.levels[s][p].mOrders :
           b.levels[s][p].mOrders[i] = b.levels[s][p].mOrders[j] => i = j
  BY DEF BookInv, BookTypeOK, BookConsistent, NoEmptyLevel, NoDuplicates
<1>2. \A x : At(b, x, s, p) =>
        \E i \in DOMAIN b.levels[s][p].mOrders : b.levels[s][p].mOrders[i] = x
  BY BookFacts DEF InLevel
<1>3. \A i \in DOMAIN b.levels[s][p].mOrders : At(b, b.levels[s][p].mOrders[i], s, p)
  BY BookFacts
<1> QED
  BY <1>1, <1>2, <1>3 DEF Holds, PriceLevel

(* The same of the level that getOrCreateLevel returns.                    *)
LEMMA LevelFacts ==
  ASSUME NEW b, BookInv(b), NEW s \in Side, NEW p \in Prices
  PROVE  /\ getOrCreateLevel(b.levels[s], p) \in PriceLevel
         /\ Holds(b, s, p, getOrCreateLevel(b.levels[s], p).mOrders)
<1>1. CASE p \in DOMAIN b.levels[s]
  BY <1>1, QueueFacts DEF getOrCreateLevel
<1>2. CASE p \notin DOMAIN b.levels[s]
  <2>1. NewLevel \in PriceLevel /\ DOMAIN NewLevel.mOrders = {} /\ NewLevel.mOrders \in Seq(OrderId)
    BY QtyModAssumption DEF NewLevel, PriceLevel, Quantity
  <2>2. \A x : ~At(b, x, s, p)
    BY <1>2, BookFacts DEF InLevel
  <2>3. Holds(b, s, p, NewLevel.mOrders)
    BY <2>1, <2>2 DEF Holds
  <2> QED  BY <1>2, <2>1, <2>3 DEF getOrCreateLevel
<1> QED
  BY <1>1, <1>2

(* A book that differs from a sound one in a single level is sound when    *)
(* the new queue holds the orders that the new details place at that       *)
(* level.                                                                  *)
LEMMA StoreKeepsInv ==
  ASSUME NEW b, NEW c, BookInv(b),
         NEW s \in Side, NEW p \in Prices, NEW lvl \in PriceLevel,
         c.levels = [b.levels EXCEPT ![s] = StoreLevel(@, p, lvl)],
         DOMAIN c.orderMap = DOMAIN c.orderDetails,
         DOMAIN c.orderDetails \subseteq OrderId,
         c.orderMap \in [DOMAIN c.orderMap -> BookElement],
         c.orderDetails \in [DOMAIN c.orderDetails -> OrderDetails],
         Holds(c, s, p, lvl.mOrders),
         \A id, r, q : r # s \/ q # p => (At(b, id, r, q) <=> At(c, id, r, q))
  PROVE  BookInv(c)
<1> DEFINE m == StoreLevel(b.levels[s], p, lvl)
<1>0. /\ \A r \in Side : \A q \in DOMAIN b.levels[r] :
           \A i \in DOMAIN b.levels[r][q].mOrders : At(b, b.levels[r][q].mOrders[i], r, q)
      /\ \A id, r, q : At(b, id, r, q) => InLevel(b, id, r, q)
  BY BookFacts
<1>1. /\ c.levels = [r \in Side |-> c.levels[r]]
      /\ c.levels[s] = m
      /\ \A r \in Side : r # s => c.levels[r] = b.levels[r]
  BY DEF BookInv, BookTypeOK
<1>2. /\ \A q : q # p => /\ q \in DOMAIN m <=> q \in DOMAIN b.levels[s]
                         /\ q \in DOMAIN b.levels[s] => m[q] = b.levels[s][q]
      /\ p \in DOMAIN m <=> lvl.mOrders # <<>>
      /\ lvl.mOrders # <<>> => m[p] = lvl
      /\ m = [q \in DOMAIN m |-> m[q]]
  BY StoreLevelFacts
<1> HIDE DEF m
<1>3. ASSUME NEW r \in Side, NEW q \in DOMAIN c.levels[r]
      PROVE  \/ r = s /\ q = p /\ c.levels[r][q] = lvl /\ lvl.mOrders # <<>>
             \/ /\ r # s \/ q # p
                /\ q \in DOMAIN b.levels[r]
                /\ c.levels[r][q] = b.levels[r][q]
  BY <1>1, <1>2
<1>4. ASSUME NEW r \in Side, NEW q \in DOMAIN b.levels[r], r # s \/ q # p
      PROVE  q \in DOMAIN c.levels[r] /\ c.levels[r][q] = b.levels[r][q]
  BY <1>1, <1>2, <1>4
<1>5. BookTypeOK(c)
  <2>1. ASSUME NEW r \in Side
        PROVE  /\ DOMAIN c.levels[r] \subseteq Prices
               /\ c.levels[r] \in [DOMAIN c.levels[r] -> PriceLevel]
    <3>1. DOMAIN b.levels[r] \subseteq Prices /\ b.levels[r] \in [DOMAIN b.levels[r] -> PriceLevel]
      BY DEF BookInv, BookTypeOK
    <3>2. CASE r # s
      BY <1>1, <3>1, <3>2
    <3>3. CASE r = s
      <4>1. \A q \in DOMAIN m : q \in Prices /\ m[q] \in PriceLevel
        BY <1>2, <3>1, <3>3
      <4> QED  BY <1>1, <1>2, <3>3, <4>1
    <3> QED  BY <3>2, <3>3
  <2> QED  BY <1>1, <2>1 DEF BookTypeOK
<1>6. NoEmptyLevel(c)
  BY <1>3 DEF BookInv, BookConsistent, NoEmptyLevel
<1>7. LevelsIndexed(c)
  <2>1. ASSUME NEW r \in Side, NEW q \in DOMAIN c.levels[r],
               NEW i \in DOMAIN c.levels[r][q].mOrders
        PROVE  At(c, c.levels[r][q].mOrders[i], r, q)
    <3>1. CASE r = s /\ q = p
      BY <1>3, <3>1 DEF Holds
    <3>2. CASE r # s \/ q # p
      <4>1. q \in DOMAIN b.levels[r] /\ c.levels[r][q] = b.levels[r][q]
        BY <1>3, <3>2
      <4>2. At(b, b.levels[r][q].mOrders[i], r, q)
        BY <1>0, <4>1
      <4> QED  BY <3>2, <4>1, <4>2
    <3> QED  BY <3>1, <3>2
  <2> QED  BY <2>1, LevelsIndexedAt
<1>8. NoDuplicates(c)
  <2>1. ASSUME NEW r \in Side, NEW q \in DOMAIN c.levels[r]
        PROVE  \A i, j \in DOMAIN c.levels[r][q].mOrders :
                 c.levels[r][q].mOrders[i] = c.levels[r][q].mOrders[j] => i = j
    BY <1>3 DEF BookInv, BookConsistent, NoDuplicates, Holds
  <2> QED  BY <2>1 DEF NoDuplicates
<1>9. IndexedInLevels(c)
  <2>1. ASSUME NEW id, NEW r, NEW q, At(c, id, r, q)
        PROVE  InLevel(c, id, r, q)
    <3>1. r \in Side
      BY <2>1 DEF At, OrderDetails
    <3>2. CASE r = s /\ q = p
      <4>1. PICK i \in DOMAIN lvl.mOrders : lvl.mOrders[i] = id
        BY <2>1, <3>2 DEF Holds
      <4>2. lvl.mOrders # <<>>
        BY <4>1
      <4> QED  BY <1>1, <1>2, <3>2, <4>1, <4>2 DEF InLevel
    <3>3. CASE r # s \/ q # p
      <4>1. InLevel(b, id, r, q)
        BY <1>0, <2>1, <3>3
      <4> QED  BY <1>4, <3>1, <3>3, <4>1 DEF InLevel
    <3> QED  BY <3>2, <3>3
  <2> QED  BY <2>1, IndexedInLevelsAt
<1> QED
  BY <1>5, <1>6, <1>7, <1>8, <1>9 DEF BookInv, BookConsistent

(* Resting a new order (order_book.cpp:132-143) keeps a book sound.        *)
LEMMA RestOrderInv ==
  ASSUME NEW b, BookInv(b), NEW id \in OrderId, id \notin DOMAIN b.orderMap,
         NEW t \in Traders, NEW s \in Side, NEW p \in Prices, NEW q \in Quantity
  PROVE  BookInv(RestOrder(b, id, t, s, p, q))
<1> DEFINE c   == RestOrder(b, id, t, s, p, q)
           old == getOrCreateLevel(b.levels[s], p)
           lvl == PriceLevel_addOrder(old, id, q)
<1>1. old \in PriceLevel
  BY QtyModAssumption DEF BookInv, BookTypeOK, getOrCreateLevel, NewLevel, PriceLevel, Quantity
<1>2. /\ lvl \in PriceLevel
      /\ Len(lvl.mOrders) = Len(old.mOrders) + 1
      /\ DOMAIN lvl.mOrders = 1 .. Len(old.mOrders) + 1
      /\ lvl.mOrders[Len(old.mOrders) + 1] = id
      /\ \A i \in 1 .. Len(old.mOrders) : lvl.mOrders[i] = old.mOrders[i]
      /\ lvl.mOrders # <<>>
  <2>1. old.mOrders \in Seq(OrderId) /\ old.mTotalQty \in Int /\ q \in Int
    BY <1>1, QtyModAssumption DEF PriceLevel, Quantity
  <2>2. Plus(old.mTotalQty, q) \in Quantity
    BY <2>1, QtyModAssumption DEF Plus, Quantity
  <2> QED  BY <2>1, <2>2 DEF PriceLevel_addOrder, PriceLevel
<1>3. /\ c.levels = [b.levels EXCEPT ![s] = StoreLevel(@, p, lvl)]
      /\ c.orderMap = Put(b.orderMap, id, [m_traderId |-> t, m_quantity |-> q])
      /\ c.orderDetails = Put(b.orderDetails, id, [side |-> s, price |-> p, quantity |-> q])
  BY <1>2 DEF RestOrder, insertIntoLevel, StoreLevel
<1>4. DOMAIN b.orderMap = DOMAIN b.orderDetails
  BY BookFacts
<1>5. /\ \A i \in DOMAIN old.mOrders : At(b, old.mOrders[i], s, p)
      /\ \A x : At(b, x, s, p) => \E i \in DOMAIN old.mOrders : old.mOrders[i] = x
      /\ \A i, j \in DOMAIN old.mOrders : old.mOrders[i] = old.mOrders[j] => i = j
  <2>1. Holds(b, s, p, old.mOrders)
    BY LevelFacts
  <2> HIDE DEF old
  <2> QED  BY <2>1 DEF Holds
<1>6. DOMAIN old.mOrders = 1 .. Len(old.mOrders) /\ Len(old.mOrders) \in Nat
  BY <1>1 DEF PriceLevel
<1> HIDE DEF c, old, lvl
<1>7. \A x, r, k : At(c, x, r, k) <=> IF x = id THEN r = s /\ k = p ELSE At(b, x, r, k)
  BY <1>3, <1>4 DEF At, Put
<1>8. ASSUME NEW i \in DOMAIN old.mOrders PROVE old.mOrders[i] # id
  BY <1>4, <1>5 DEF At
<1>9. \A i, j \in DOMAIN lvl.mOrders : lvl.mOrders[i] = lvl.mOrders[j] => i = j
  <2> SUFFICES ASSUME NEW i \in DOMAIN lvl.mOrders, NEW j \in DOMAIN lvl.mOrders,
                      lvl.mOrders[i] = lvl.mOrders[j], i # j
               PROVE  FALSE
    OBVIOUS
  <2>1. CASE i \in DOMAIN old.mOrders /\ j \in DOMAIN old.mOrders
    BY <1>2, <1>5, <1>6, <2>1
  <2>2. CASE i \in DOMAIN old.mOrders /\ j = Len(old.mOrders) + 1
    BY <1>2, <1>6, <1>8, <2>2
  <2>3. CASE j \in DOMAIN old.mOrders /\ i = Len(old.mOrders) + 1
    BY <1>2, <1>6, <1>8, <2>3
  <2> QED  BY <1>2, <1>6, <2>1, <2>2, <2>3
<1>10. \A i \in DOMAIN lvl.mOrders : At(c, lvl.mOrders[i], s, p)
  BY <1>2, <1>5, <1>6, <1>7, <1>8
<1>11. \A x : At(c, x, s, p) => \E i \in DOMAIN lvl.mOrders : lvl.mOrders[i] = x
  BY <1>2, <1>5, <1>6, <1>7
<1>12. \A x, r, k : r # s \/ k # p => (At(b, x, r, k) <=> At(c, x, r, k))
  BY <1>4, <1>7 DEF At
<1>13. /\ DOMAIN c.orderMap = DOMAIN c.orderDetails
       /\ DOMAIN c.orderDetails \subseteq OrderId
       /\ c.orderMap \in [DOMAIN c.orderMap -> BookElement]
       /\ c.orderDetails \in [DOMAIN c.orderDetails -> OrderDetails]
  BY <1>3, <1>4 DEF Put, BookInv, BookTypeOK, BookElement, OrderDetails
<1>14. Holds(c, s, p, lvl.mOrders)
  BY <1>2, <1>9, <1>10, <1>11 DEF Holds, PriceLevel
<1>15. BookInv(c)
  BY <1>2, <1>3, <1>12, <1>13, <1>14, StoreKeepsInv
<1> QED
  BY <1>15 DEF c

(* Erasing an order from its level and from both indexes                   *)
(* (order_book.cpp:68-71, 97-100, 171-179) keeps a book sound.             *)
LEMMA DropOrderInv ==
  ASSUME NEW b, BookInv(b), NEW s \in Side, NEW p \in Prices, NEW id, At(b, id, s, p),
         NEW lvl \in PriceLevel, lvl.mOrders = RemoveFirst(b.levels[s][p].mOrders, id)
  PROVE  BookInv(DropOrder(b, s, p, lvl, id))
<1> DEFINE c   == DropOrder(b, s, p, lvl, id)
           old == b.levels[s][p].mOrders
           new == lvl.mOrders
<1>1. p \in DOMAIN b.levels[s]
  BY BookFacts DEF InLevel
<1>2. /\ old \in Seq(OrderId)
      /\ \A i \in DOMAIN old : At(b, old[i], s, p)
      /\ \A x : At(b, x, s, p) => \E i \in DOMAIN old : old[i] = x
      /\ \A i, j \in DOMAIN old : old[i] = old[j] => i = j
  BY <1>1, QueueFacts DEF Holds
<1>3. /\ c.levels = [b.levels EXCEPT ![s] = StoreLevel(@, p, lvl)]
      /\ c.orderMap = Erase(b.orderMap, id)
      /\ c.orderDetails = Erase(b.orderDetails, id)
  BY DEF DropOrder
<1>4. DOMAIN b.orderMap = DOMAIN b.orderDetails
  BY BookFacts
<1> HIDE DEF c, old
<1>5. PICK k \in DOMAIN old : old[k] = id
  BY <1>2
<1>6. DOMAIN old = 1 .. Len(old) /\ Len(old) \in Nat
  BY <1>2
<1>7. /\ new \in Seq(OrderId)
      /\ Len(new) = Len(old) - 1
      /\ \A j \in 1 .. Len(old) - 1 : new[j] = IF j < k THEN old[j] ELSE old[j + 1]
  <2>1. new = RemoveFirst(old, old[k])
    BY <1>5 DEF old
  <2>2. k \in 1 .. Len(old) /\ \A i, j \in 1 .. Len(old) : old[i] = old[j] => i = j
    BY <1>2, <1>6
  <2>3. old \in Seq(OrderId)
    BY <1>2
  <2>4. /\ RemoveFirst(old, old[k]) \in Seq(OrderId)
        /\ Len(RemoveFirst(old, old[k])) = Len(old) - 1
        /\ \A j \in 1 .. Len(old) - 1 :
             RemoveFirst(old, old[k])[j] = IF j < k THEN old[j] ELSE old[j + 1]
    BY <2>2, <2>3, RemoveFirstFacts, Zenon
  <2> QED  BY <2>1, <2>4, Zenon
<1> HIDE DEF new
<1>8. DOMAIN new = 1 .. Len(old) - 1
  BY <1>7
<1>9. \A x, r, q : At(c, x, r, q) <=> x # id /\ At(b, x, r, q)
  BY <1>3, <1>4 DEF At, Erase, Restrict
<1>10. \A i, j \in DOMAIN new : new[i] = new[j] => i = j
  <2> DEFINE f(j) == IF j < k THEN j ELSE j + 1
  <2>1. \A j \in DOMAIN new : f(j) \in DOMAIN old /\ new[j] = old[f(j)]
    BY <1>5, <1>6, <1>7, <1>8
  <2>2. ASSUME NEW i \in DOMAIN new, NEW j \in DOMAIN new, new[i] = new[j] PROVE i = j
    <3>1. f(i) = f(j)
      BY <1>2, <2>1, <2>2
    <3> QED  BY <1>5, <1>6, <1>8, <3>1
  <2> QED  BY <2>2
<1>11. ASSUME NEW i \in DOMAIN new PROVE At(c, new[i], s, p)
  <2>1. PICK j \in DOMAIN old : j # k /\ new[i] = old[j]
    BY <1>5, <1>6, <1>7, <1>8
  <2>2. old[j] # id
    BY <1>2, <1>5, <2>1
  <2> QED  BY <1>2, <1>9, <2>1, <2>2
<1>12. ASSUME NEW x, At(c, x, s, p) PROVE \E i \in DOMAIN new : new[i] = x
  <2>1. PICK j \in DOMAIN old : old[j] = x /\ j # k
    BY <1>2, <1>5, <1>9, <1>12
  <2>2. CASE j < k
    <3>1. j \in DOMAIN new /\ new[j] = old[j]
      BY <1>5, <1>6, <1>7, <1>8, <2>2
    <3> QED  BY <2>1, <3>1
  <2>3. CASE j > k
    <3>1. j - 1 \in DOMAIN new /\ new[j - 1] = old[j]
      BY <1>5, <1>6, <1>7, <1>8, <2>3
    <3> QED  BY <2>1, <3>1
  <2> QED  BY <1>5, <1>6, <2>1, <2>2, <2>3
<1>13. \A x, r, q : r # s \/ q # p => (At(b, x, r, q) <=> At(c, x, r, q))
  BY <1>9 DEF At
<1>14. /\ DOMAIN c.orderMap = DOMAIN c.orderDetails
       /\ DOMAIN c.orderDetails \subseteq OrderId
       /\ c.orderMap \in [DOMAIN c.orderMap -> BookElement]
       /\ c.orderDetails \in [DOMAIN c.orderDetails -> OrderDetails]
  BY <1>3, <1>4 DEF Erase, Restrict, BookInv, BookTypeOK
<1>15. Holds(c, s, p, lvl.mOrders)
  BY <1>7, <1>10, <1>11, <1>12 DEF Holds, new
<1>16. BookInv(c)
  BY <1>3, <1>13, <1>14, <1>15, StoreKeepsInv
<1> QED
  BY <1>16 DEF c

(* The level of an order keeps its queue and only quantities change.       *)
LEMMA RequantifyInv ==
  ASSUME NEW b, BookInv(b), NEW id, NEW s \in Side, NEW p \in Prices, At(b, id, s, p),
         NEW elem \in BookElement, NEW d \in OrderDetails, d.side = s, d.price = p,
         NEW total \in Quantity, NEW c,
         c.levels = [b.levels EXCEPT ![s] =
                       Put(@, p, [mOrders |-> b.levels[s][p].mOrders, mTotalQty |-> total])],
         c.orderMap = Put(b.orderMap, id, elem),
         c.orderDetails = Put(b.orderDetails, id, d)
  PROVE  BookInv(c)
<1> DEFINE lvl == [mOrders |-> b.levels[s][p].mOrders, mTotalQty |-> total]
<1>1. p \in DOMAIN b.levels[s]
  BY BookFacts DEF InLevel
<1>2. Holds(b, s, p, lvl.mOrders) /\ lvl.mOrders # <<>>
  BY <1>1, QueueFacts
<1>3. lvl \in PriceLevel /\ c.levels = [b.levels EXCEPT ![s] = StoreLevel(@, p, lvl)]
  BY <1>2 DEF StoreLevel, Holds, PriceLevel
<1>4. DOMAIN b.orderMap = DOMAIN b.orderDetails
  BY BookFacts
<1> HIDE DEF lvl
<1>5. \A x, r, q : At(c, x, r, q) <=> At(b, x, r, q)
  BY <1>4 DEF At, Put
<1>6. /\ DOMAIN c.orderMap = DOMAIN c.orderDetails
      /\ DOMAIN c.orderDetails \subseteq OrderId
      /\ c.orderMap \in [DOMAIN c.orderMap -> BookElement]
      /\ c.orderDetails \in [DOMAIN c.orderDetails -> OrderDetails]
  BY <1>4 DEF At, Put, BookInv, BookTypeOK
<1>7. Holds(c, s, p, lvl.mOrders)
  BY <1>2, <1>5 DEF Holds
<1> QED
  BY <1>3, <1>5, <1>6, <1>7, StoreKeepsInv

(* Quantity is closed under its wrapping arithmetic.                       *)
LEMMA ArithmeticType ==
  ASSUME NEW x \in Quantity, NEW y \in Quantity
  PROVE  Minus(x, y) \in Quantity /\ Plus(x, y) \in Quantity
BY QtyModAssumption DEF Minus, Plus, Quantity

(* removeOrder on the level of an order of a sound book finds the order    *)
(* and leaves a well-formed level.                                         *)
LEMMA RemoveOrderLevel ==
  ASSUME NEW b, BookInv(b), NEW s \in Side, NEW p, NEW id, At(b, id, s, p), NEW q \in Quantity
  PROVE  /\ p \in DOMAIN b.levels[s] /\ p \in Prices
         /\ PriceLevel_removeOrder(b.levels[s][p], id, q) \in PriceLevel
         /\ PriceLevel_removeOrder(b.levels[s][p], id, q).mOrders
              = RemoveFirst(b.levels[s][p].mOrders, id)
<1> DEFINE lvl == b.levels[s][p]
           old == lvl.mOrders
<1>1. p \in DOMAIN b.levels[s]
  BY BookFacts DEF InLevel
<1>2. p \in Prices /\ lvl \in PriceLevel /\ Holds(b, s, p, old)
  BY <1>1, QueueFacts
<1> HIDE DEF lvl
<1>3. PICK k \in DOMAIN old : old[k] = id
  BY <1>2 DEF Holds
<1>4. id \in ToSet(old)
  BY <1>3 DEF ToSet
<1>5. RemoveFirst(old, id) \in Seq(OrderId)
  <2> HIDE DEF old
  <2>1. old \in Seq(OrderId)
    BY <1>2 DEF Holds
  <2>2. k \in 1 .. Len(old) /\ \A i, j \in 1 .. Len(old) : old[i] = old[j] => i = j
    BY <1>2, <1>3, <2>1 DEF Holds
  <2>3. RemoveFirst(old, old[k]) \in Seq(OrderId)
    BY <2>1, <2>2, RemoveFirstFacts, Zenon
  <2> QED  BY <1>3, <2>3
<1>6. Minus(lvl.mTotalQty, q) \in Quantity
  BY <1>2, ArithmeticType DEF PriceLevel
<1> QED
  BY <1>1, <1>2, <1>4, <1>5, <1>6 DEF PriceLevel_removeOrder, PriceLevel, lvl

(* While the loops of matchAgainst go on, the best level of the passive    *)
(* side exists and peekFirst is a live order placed at it: no null pointer *)
(* is dereferenced (order_book.cpp:56).                                    *)
LEMMA FirstInLine ==
  ASSUME NEW b, BookInv(b), NEW inc, inc.side \in Side, NEW rem, CanMatch(b, inc, rem),
         NEW s, s = oppositeSide(inc.side),
         NEW p, p = BestLevelPrice(b, inc),
         NEW id, id = peekFirst(b, inc)
  PROVE  /\ s \in Side
         /\ p \in DOMAIN b.levels[s] /\ p \in Prices
         /\ b.levels[s][p] \in PriceLevel
         /\ At(b, id, s, p)
         /\ id \in DOMAIN b.orderMap
         /\ b.orderMap[id] \in BookElement
<1>1. s \in Side
  BY DEF oppositeSide, Side
<1>2. p \in DOMAIN b.levels[s]
  <2>1. DOMAIN b.levels[s] # {} /\ DOMAIN b.levels[s] \subseteq Prices
    BY <1>1 DEF CanMatch, BookInv, BookTypeOK
  <2> QED  BY <1>1, <2>1, BestPriceFacts DEF BestLevelPrice
<1>3. /\ p \in Prices /\ b.levels[s][p] \in PriceLevel
      /\ b.levels[s][p].mOrders # <<>>
      /\ Holds(b, s, p, b.levels[s][p].mOrders)
  BY <1>1, <1>2, QueueFacts
<1>4. id = Head(b.levels[s][p].mOrders)
  BY DEF peekFirst
<1>5. At(b, id, s, p)
  <2> DEFINE q == b.levels[s][p].mOrders
  <2>1. q \in Seq(OrderId) /\ q # <<>> /\ \A i \in DOMAIN q : At(b, q[i], s, p)
    BY <1>3 DEF Holds
  <2> HIDE DEF q
  <2>2. Head(q) = q[1] /\ 1 \in DOMAIN q
    BY <2>1
  <2> QED  BY <1>4, <2>1, <2>2 DEF q
<1>6. id \in DOMAIN b.orderMap
  BY <1>5, BookFacts DEF At
<1>7. b.orderMap[id] \in BookElement
  BY <1>6 DEF BookInv, BookTypeOK
<1> QED
  BY <1>1, <1>2, <1>3, <1>5, <1>6, <1>7

(* Cancelling the trader's own resting order keeps a book sound.           *)
LEMMA selfTradeStepInv ==
  ASSUME NEW b, BookInv(b), NEW inc, inc.side \in Side, NEW rem, CanMatch(b, inc, rem)
  PROVE  /\ BookInv(selfTradeStep(b, inc, rem).book)
         /\ DOMAIN selfTradeStep(b, inc, rem).book.orderMap
              = DOMAIN b.orderMap \ {peekFirst(b, inc)}
<1> DEFINE s   == oppositeSide(inc.side)
           p   == BestLevelPrice(b, inc)
           id  == peekFirst(b, inc)
           lvl == PriceLevel_removeOrder(b.levels[s][p], id, b.orderMap[id].m_quantity)
<1>1. s \in Side /\ At(b, id, s, p) /\ b.orderMap[id] \in BookElement
  BY FirstInLine
<1>2. b.orderMap[id].m_quantity \in Quantity
  BY <1>1 DEF BookElement
<1>3. selfTradeStep(b, inc, rem).book = DropOrder(b, s, p, lvl, id)
  BY DEF selfTradeStep, Effect
<1> HIDE DEF s, p, id
<1>4. p \in Prices /\ lvl \in PriceLevel /\ lvl.mOrders = RemoveFirst(b.levels[s][p].mOrders, id)
  BY <1>1, <1>2, RemoveOrderLevel
<1> HIDE DEF lvl
<1>5. BookInv(DropOrder(b, s, p, lvl, id))
  BY <1>1, <1>4, DropOrderInv
<1>6. DOMAIN DropOrder(b, s, p, lvl, id).orderMap = DOMAIN b.orderMap \ {id}
  BY EraseFacts DEF DropOrder
<1> QED
  BY <1>3, <1>5, <1>6 DEF id

(* A trade keeps a book sound, whether it fills the resting order or       *)
(* leaves part of it.                                                      *)
LEMMA tradeStepInv ==
  ASSUME NEW b, BookInv(b), NEW inc, inc.side \in Side,
         NEW rem \in Quantity, CanMatch(b, inc, rem)
  PROVE  /\ BookInv(tradeStep(b, inc, rem).book)
         /\ tradeStep(b, inc, rem).remaining \in Quantity
         /\ \/ DOMAIN tradeStep(b, inc, rem).book.orderMap
                 = DOMAIN b.orderMap \ {peekFirst(b, inc)}
            \/ /\ DOMAIN tradeStep(b, inc, rem).book.orderMap = DOMAIN b.orderMap
               /\ tradeStep(b, inc, rem).remaining = 0
<1> DEFINE s    == oppositeSide(inc.side)
           p    == BestLevelPrice(b, inc)
           id   == peekFirst(b, inc)
           elem == b.orderMap[id]
           qty  == TradeQty(b, inc, rem)
           left == elem.m_quantity - qty
           lvl  == b.levels[s][p]
<1>1. /\ s \in Side /\ p \in DOMAIN b.levels[s] /\ p \in Prices
      /\ lvl \in PriceLevel /\ At(b, id, s, p)
      /\ id \in DOMAIN b.orderMap /\ elem \in BookElement
  BY FirstInLine
<1>2. /\ qty \in Quantity /\ left \in Quantity /\ rem - qty \in Quantity
      /\ left # 0 => rem - qty = 0
  BY <1>1, QtyModAssumption DEF TradeQty, BookElement, Quantity
<1>3. /\ tradeStep(b, inc, rem).book = BookAfterTrade(b, inc, qty)
      /\ tradeStep(b, inc, rem).remaining = rem - qty
  BY DEF tradeStep, Effect
<1>4. CASE left = 0
  <2> DEFINE new == PriceLevel_removeOrder(lvl, id, left)
  <2>1. BookAfterTrade(b, inc, qty) = DropOrder(b, s, p, new, id)
    BY <1>4 DEF BookAfterTrade
  <2> HIDE DEF s, p, id, qty, left, elem
  <2>2. new \in PriceLevel /\ new.mOrders = RemoveFirst(lvl.mOrders, id)
    BY <1>1, <1>2, RemoveOrderLevel
  <2> HIDE DEF new
  <2>3. BookInv(DropOrder(b, s, p, new, id))
    BY <1>1, <2>2, DropOrderInv
  <2>4. DOMAIN DropOrder(b, s, p, new, id).orderMap = DOMAIN b.orderMap \ {id}
    BY EraseFacts DEF DropOrder
  <2> QED  BY <1>2, <1>3, <2>1, <2>3, <2>4 DEF id
<1>5. CASE left # 0
  <2> DEFINE c == BookAfterTrade(b, inc, qty)
             d == b.orderDetails[id]
             total == Minus(lvl.mTotalQty, qty)
             newElem == [m_traderId |-> elem.m_traderId, m_quantity |-> left]
  <2>1. /\ c.levels = [b.levels EXCEPT ![s] =
                         Put(@, p, [mOrders |-> lvl.mOrders, mTotalQty |-> total])]
        /\ c.orderMap = Put(b.orderMap, id, newElem)
        /\ c.orderDetails = b.orderDetails
    BY <1>5 DEF BookAfterTrade, PriceLevel_reduceQty
  <2> HIDE DEF s, p, id, qty, left, elem, c
  <2>2. total \in Quantity /\ newElem \in BookElement
    BY <1>1, <1>2, ArithmeticType DEF PriceLevel, BookElement
  <2>3. d \in OrderDetails /\ d.side = s /\ d.price = p
    BY <1>1 DEF At, BookInv, BookTypeOK
  <2>4. c.orderDetails = Put(b.orderDetails, id, d)
    BY <1>1, <2>1 DEF At, Put, BookInv, BookTypeOK
  <2> HIDE DEF newElem, total, d
  <2>5. BookInv(c)
    BY <1>1, <2>1, <2>2, <2>3, <2>4, RequantifyInv DEF lvl
  <2>6. DOMAIN c.orderMap = DOMAIN b.orderMap
    BY <1>1, <2>1 DEF Put
  <2> QED  BY <1>2, <1>3, <1>5, <2>5, <2>6 DEF c
<1> QED
  BY <1>4, <1>5

(* Every iteration of matchAgainst keeps a book sound.                     *)
LEMMA matchStepInv ==
  ASSUME NEW b, BookInv(b), NEW inc, inc.side \in Side,
         NEW rem \in Quantity, CanMatch(b, inc, rem)
  PROVE  /\ BookInv(matchStep(b, inc, rem).book)
         /\ matchStep(b, inc, rem).remaining \in Quantity
         /\ \/ DOMAIN matchStep(b, inc, rem).book.orderMap
                 = DOMAIN b.orderMap \ {peekFirst(b, inc)}
            \/ /\ DOMAIN matchStep(b, inc, rem).book.orderMap = DOMAIN b.orderMap
               /\ matchStep(b, inc, rem).remaining = 0
<1>1. CASE b.orderMap[peekFirst(b, inc)].m_traderId = inc.traderId
  <2>1. matchStep(b, inc, rem) = selfTradeStep(b, inc, rem)
    BY <1>1 DEF matchStep
  <2>2. selfTradeStep(b, inc, rem).remaining = rem
    BY DEF selfTradeStep, Effect
  <2> QED  BY <2>1, <2>2, selfTradeStepInv
<1>2. CASE b.orderMap[peekFirst(b, inc)].m_traderId # inc.traderId
  <2>1. matchStep(b, inc, rem) = tradeStep(b, inc, rem)
    BY <1>2 DEF matchStep
  <2> QED  BY <2>1, tradeStepInv
<1> QED
  BY <1>1, <1>2

(* detailIt of cancelOrder and modifyOrder always finds an entry           *)
(* (order_book.cpp:166, 208).                                              *)
LEMMA DetailsOf ==
  ASSUME NEW b, BookInv(b), NEW id \in DOMAIN b.orderMap
  PROVE  /\ id \in OrderId
         /\ b.orderDetails[id] \in OrderDetails
         /\ b.orderMap[id] \in BookElement
         /\ At(b, id, b.orderDetails[id].side, b.orderDetails[id].price)
BY BookFacts DEF At, BookInv, BookTypeOK

(* cancelOrder keeps a book sound.                                         *)
LEMMA cancelOrderInv ==
  ASSUME NEW b, BookInv(b), NEW id, NEW t
  PROVE  /\ BookInv(cancelOrder(b, id, t).book)
         /\ DOMAIN cancelOrder(b, id, t).book.orderMap \subseteq DOMAIN b.orderMap
<1>1. CASE ~Owns(b, id, t)
  BY <1>1 DEF cancelOrder, Effect
<1>2. CASE Owns(b, id, t)
  <2> DEFINE s   == b.orderDetails[id].side
             p   == b.orderDetails[id].price
             q   == b.orderMap[id].m_quantity
             lvl == PriceLevel_removeOrder(b.levels[s][p], id, q)
  <2>1. /\ s \in Side /\ At(b, id, s, p) /\ q \in Quantity
    BY <1>2, DetailsOf DEF Owns, OrderDetails, BookElement
  <2>2. /\ p \in DOMAIN b.levels[s] /\ p \in Prices
        /\ lvl \in PriceLevel /\ lvl.mOrders = RemoveFirst(b.levels[s][p].mOrders, id)
    BY <2>1, RemoveOrderLevel
  <2>3. cancelOrder(b, id, t).book = DropOrder(b, s, p, lvl, id)
    BY <1>2, <2>2 DEF cancelOrder, Effect, DropOrder, removeFromLevel
  <2> HIDE DEF s, p, q, lvl
  <2>4. BookInv(DropOrder(b, s, p, lvl, id))
    BY <2>1, <2>2, DropOrderInv
  <2>5. DOMAIN DropOrder(b, s, p, lvl, id).orderMap = DOMAIN b.orderMap \ {id}
    BY EraseFacts DEF DropOrder
  <2> QED  BY <2>3, <2>4, <2>5
<1> QED
  BY <1>1, <1>2

(* modifyOrder keeps a book sound, in place as well as with a new place in *)
(* a queue.                                                                *)
LEMMA modifyOrderInv ==
  ASSUME NEW b, BookInv(b), NEW id, NEW t, NEW np \in Prices, NEW nq \in Quantity
  PROVE  /\ BookInv(modifyOrder(b, id, t, np, nq).book)
         /\ DOMAIN modifyOrder(b, id, t, np, nq).book.orderMap = DOMAIN b.orderMap
<1>1. CASE ~Owns(b, id, t)
  BY <1>1 DEF modifyOrder, Effect
<1>2. CASE Owns(b, id, t)
  <2> DEFINE d    == b.orderDetails[id]
             s    == d.side
             p    == d.price
             q    == b.orderMap[id].m_quantity
             c    == modifyOrder(b, id, t, np, nq).book
             elem == [m_traderId |-> t, m_quantity |-> nq]
             nd   == [side |-> s, price |-> np, quantity |-> nq]
  <2>1. id \in DOMAIN b.orderMap /\ id \in OrderId
    BY <1>2, DetailsOf DEF Owns
  <2>2. s \in Side /\ At(b, id, s, p) /\ q \in Quantity /\ t \in Traders
    BY <1>2, DetailsOf DEF Owns, OrderDetails, BookElement
  <2>3. /\ c.levels = RelevelModified(b, id, np, nq)
        /\ c.orderMap = Put(b.orderMap, id, elem)
        /\ c.orderDetails = Put(b.orderDetails, id, nd)
    BY <1>2 DEF modifyOrder, Effect
  <2>4. elem \in BookElement /\ nd \in OrderDetails
    BY <2>2 DEF BookElement, OrderDetails
  <2>5. DOMAIN c.orderMap = DOMAIN b.orderMap
    BY <2>1, <2>3 DEF Put
  <2>6. CASE KeepsPriority(d, np, nq)
    <3>1. p = np
      BY <2>6 DEF KeepsPriority
    <3>2. p \in DOMAIN b.levels[s]
      BY <2>2, BookFacts DEF InLevel
    <3>3. b.levels[s][p] \in PriceLevel
      BY <2>2, <3>2, QueueFacts
    <3>4. b.levels[s][p] = [mOrders |-> b.levels[s][p].mOrders, mTotalQty |-> b.levels[s][p].mTotalQty]
      BY <3>3 DEF PriceLevel
    <3>5. c.levels = [b.levels EXCEPT ![s] = Put(@, p, b.levels[s][p])]
      <4>1. Put(b.levels[s], p, b.levels[s][p]) = b.levels[s]
        BY <2>2, <3>2 DEF Put, BookInv, BookTypeOK
      <4>2. c.levels = b.levels
        BY <2>3, <2>6 DEF RelevelModified
      <4> QED  BY <2>2, <4>1, <4>2 DEF BookInv, BookTypeOK
    <3> HIDE DEF c, d, elem, nd
    <3>6. nd.side = s /\ nd.price = p
      BY <3>1 DEF nd
    <3>7. b.levels[s][p].mTotalQty \in Quantity
      BY <3>3 DEF PriceLevel
    <3>8. BookInv(c)
      BY <2>2, <2>3, <2>4, <3>1, <3>4, <3>5, <3>6, <3>7, RequantifyInv
    <3> QED  BY <2>5, <3>8 DEF c
  <2>7. CASE ~KeepsPriority(d, np, nq)
    <3> DEFINE lvl == PriceLevel_removeOrder(b.levels[s][p], id, q)
               m   == DropOrder(b, s, p, lvl, id)
    <3>1. /\ p \in DOMAIN b.levels[s] /\ p \in Prices
          /\ lvl \in PriceLevel /\ lvl.mOrders = RemoveFirst(b.levels[s][p].mOrders, id)
      BY <2>2, RemoveOrderLevel
    <3>2. BookInv(m)
      <4> HIDE DEF d, lvl, q
      <4> QED  BY <2>2, <3>1, DropOrderInv
    <3>3. c = RestOrder(m, id, t, s, np, nq)
      <4>1. c.levels = RestOrder(m, id, t, s, np, nq).levels
        BY <2>2, <2>3, <2>7, <3>1
        DEF RelevelModified, removeFromLevel, RestOrder, DropOrder, BookInv, BookTypeOK
      <4>2. /\ c.orderMap = RestOrder(m, id, t, s, np, nq).orderMap
            /\ c.orderDetails = RestOrder(m, id, t, s, np, nq).orderDetails
        BY <2>3 DEF RestOrder, DropOrder, Put, Erase, Restrict
      <4> QED  BY <1>2, <4>1, <4>2 DEF modifyOrder, Effect, RestOrder
    <3>4. id \notin DOMAIN m.orderMap
      BY DEF DropOrder, Erase, Restrict
    <3> HIDE DEF m, c, d
    <3>5. BookInv(c)
      BY <2>1, <2>2, <3>2, <3>3, <3>4, RestOrderInv
    <3> QED  BY <2>5, <3>5 DEF c
  <2> QED  BY <2>6, <2>7
<1> QED
  BY <1>1, <1>2

(* A new book is sound.                                                    *)
LEMMA EmptyBookInv == BookInv(EmptyBook)
BY DEF EmptyBook, EmptyMap, BookInv, BookTypeOK, BookConsistent, NoEmptyLevel, LevelsIndexed,
       NoDuplicates, IndexedInLevels

-----------------------------------------------------------------------------
(* What the operations report is well formed.                              *)

Reports(e) == e.confirms \in Seq(Confirmation) /\ e.mds \in Seq(MarketUpdate)

(* The reports of an iteration of matchAgainst are well formed.            *)
LEMMA matchStepReports ==
  ASSUME NEW b, BookInv(b), NEW inc, inc.side \in Side, inc.price \in Prices,
         inc.orderId \in OrderId, inc.traderId \in Traders,
         NEW rem \in Quantity, CanMatch(b, inc, rem)
  PROVE  Reports(matchStep(b, inc, rem))
<1> DEFINE s  == oppositeSide(inc.side)
           p  == BestLevelPrice(b, inc)
           id == peekFirst(b, inc)
           t  == b.orderMap[id].m_traderId
           q  == b.orderMap[id].m_quantity
           n  == TradeQty(b, inc, rem)
<1>1. s \in Side /\ p \in Prices /\ At(b, id, s, p) /\ b.orderMap[id] \in BookElement
  BY FirstInLine
<1>2. t \in Traders /\ q \in Quantity /\ id \in OrderId
  BY <1>1 DEF BookElement, At, BookInv, BookTypeOK
<1>3. n \in Quantity
  BY <1>2 DEF TradeQty
<1>4. 0 \in Prices
  BY MaxPriceAssumption DEF Prices
<1>5. Reports(selfTradeStep(b, inc, rem))
  <2> DEFINE c == OrderConfirm("CancelAck", id, t, 0, q, "SelfTrade")
             m == MdUpdate(id, s, p, q, "Cancel")
  <2>1. c \in Confirmation /\ m \in MarketUpdate
    BY <1>1, <1>2, <1>4 DEF OrderConfirm, MdUpdate, Confirmation, MarketUpdate
  <2>2. selfTradeStep(b, inc, rem).confirms = << c >> /\ selfTradeStep(b, inc, rem).mds = << m >>
    BY DEF selfTradeStep, Effect
  <2> HIDE DEF c, m
  <2> QED  BY <2>1, <2>2 DEF Reports
<1>6. Reports(tradeStep(b, inc, rem))
  <2> DEFINE c1 == OrderConfirm("Trade", id, t, p, n, "UnknownOrder")
             c2 == OrderConfirm("Trade", inc.orderId, inc.traderId, p, n, "UnknownOrder")
             m1 == MdUpdate(id, s, p, n, "Trade")
             m2 == MdUpdate(inc.orderId, inc.side, inc.price, n, "Trade")
  <2>1. c1 \in Confirmation /\ c2 \in Confirmation /\ m1 \in MarketUpdate /\ m2 \in MarketUpdate
    BY <1>1, <1>2, <1>3 DEF OrderConfirm, MdUpdate, Confirmation, MarketUpdate
  <2>2. tradeStep(b, inc, rem).confirms = << c1, c2 >> /\ tradeStep(b, inc, rem).mds = << m1, m2 >>
    BY DEF tradeStep, Effect
  <2> HIDE DEF c1, c2, m1, m2
  <2> QED  BY <2>1, <2>2 DEF Reports
<1> QED
  BY <1>5, <1>6 DEF matchStep

(* The acknowledgement of a new order is well formed.                      *)
LEMMA acceptReports ==
  ASSUME NEW b, NEW inc, inc.side \in Side, inc.price \in Prices, inc.qty \in Quantity,
         inc.orderId \in OrderId, inc.traderId \in Traders
  PROVE  Reports(addOrder_accept(b, inc))
<1> DEFINE c == OrderConfirm("NewAck", inc.orderId, inc.traderId, 0, 0, "UnknownOrder")
           m == MdUpdate(inc.orderId, inc.side, inc.price, inc.qty, "New")
<1>1. c \in Confirmation /\ m \in MarketUpdate
  BY MaxPriceAssumption, QtyModAssumption
  DEF OrderConfirm, MdUpdate, Confirmation, MarketUpdate, Prices, Quantity
<1>2. addOrder_accept(b, inc).confirms = << c >> /\ addOrder_accept(b, inc).mds = << m >>
  BY DEF addOrder_accept, Effect
<1> HIDE DEF c, m
<1> QED
  BY <1>1, <1>2 DEF Reports

(* The reports of cancelOrder are well formed.                             *)
LEMMA cancelOrderReports ==
  ASSUME NEW b, BookInv(b), NEW id \in OrderId, NEW t \in Traders
  PROVE  Reports(cancelOrder(b, id, t))
<1> DEFINE e == cancelOrder(b, id, t)
           r == Reject(id, t)
           c == OrderConfirm("CancelAck", id, t, 0, 0, "UnknownOrder")
           d == b.orderDetails[id]
           m == MdUpdate(id, d.side, d.price, b.orderMap[id].m_quantity, "Cancel")
<1>1. r \in Confirmation /\ c \in Confirmation
  BY MaxPriceAssumption, QtyModAssumption DEF OrderConfirm, Reject, Confirmation, Prices, Quantity
<1>2. CASE ~Owns(b, id, t)
  <2>1. e.confirms = << r >> /\ e.mds = <<>>
    BY <1>2 DEF cancelOrder, Effect
  <2> HIDE DEF e, r
  <2> QED  BY <1>1, <2>1 DEF Reports, e
<1>3. CASE Owns(b, id, t)
  <2>1. m \in MarketUpdate
    BY <1>3, DetailsOf DEF Owns, OrderDetails, BookElement, MdUpdate, MarketUpdate
  <2>2. e.confirms = << c >> /\ e.mds = << m >>
    BY <1>3 DEF cancelOrder, Effect
  <2> HIDE DEF e, c, m
  <2> QED  BY <1>1, <2>1, <2>2 DEF Reports, e
<1> QED
  BY <1>2, <1>3

(* The reports of modifyOrder are well formed.                             *)
LEMMA modifyOrderReports ==
  ASSUME NEW b, BookInv(b), NEW id \in OrderId, NEW t \in Traders,
         NEW np \in Prices, NEW nq \in Quantity
  PROVE  Reports(modifyOrder(b, id, t, np, nq))
<1> DEFINE e == modifyOrder(b, id, t, np, nq)
           r == Reject(id, t)
           c == OrderConfirm("ModifyAck", id, t, 0, 0, "UnknownOrder")
           m == MdUpdate(id, b.orderDetails[id].side, np, nq, "Modify")
<1>1. r \in Confirmation /\ c \in Confirmation
  BY MaxPriceAssumption, QtyModAssumption DEF OrderConfirm, Reject, Confirmation, Prices, Quantity
<1>2. CASE ~Owns(b, id, t)
  <2>1. e.confirms = << r >> /\ e.mds = <<>>
    BY <1>2 DEF modifyOrder, Effect
  <2> HIDE DEF e, r
  <2> QED  BY <1>1, <2>1 DEF Reports, e
<1>3. CASE Owns(b, id, t)
  <2>1. m \in MarketUpdate
    BY <1>3, DetailsOf DEF Owns, OrderDetails, MdUpdate, MarketUpdate
  <2>2. e.confirms = << c >> /\ e.mds = << m >>
    BY <1>3 DEF modifyOrder, Effect
  <2> HIDE DEF e, c, m
  <2> QED  BY <1>1, <2>1, <2>2 DEF Reports, e
<1> QED
  BY <1>2, <1>3

-----------------------------------------------------------------------------
(* Arithmetic modulo a constant that is not known.                         *)

(* Division with remainder.                                                *)
LEMMA DivFacts ==
  ASSUME NEW M \in Nat \ {0}, NEW a \in Int
  PROVE  /\ a \div M \in Int /\ a % M \in 0 .. M - 1
         /\ a = M * (a \div M) + (a % M)
<1>1. a \div M \in Int
  OBVIOUS
<1>2. a % M \in 0 .. M - 1
  OBVIOUS
<1>3. a = M * (a \div M) + (a % M)
  OBVIOUS
<1> QED
  BY <1>1, <1>2, <1>3

(* 0 is the only multiple of M that is closer to 0 than M.                 *)
LEMMA SmallMultiple ==
  ASSUME NEW M \in Nat \ {0}, NEW k \in Int, -M < M * k, M * k < M
  PROVE  k = 0
<1>1. k >= 1 => M * k >= M
  OBVIOUS
<1>2. k <= -1 => M * k <= -M
  OBVIOUS
<1> QED
  BY <1>1, <1>2

(* A remainder is unique.                                                  *)
LEMMA ModUnique ==
  ASSUME NEW M \in Nat \ {0}, NEW x \in Int, NEW y \in Int, NEW p \in 0 .. M - 1, NEW q \in 0 .. M - 1,
         M * x + p = M * y + q
  PROVE  p = q
<1>1. M * (x - y) = (M * x) - (M * y)
  OBVIOUS
<1>2. M * (x - y) = q - p
  BY <1>1
<1> DEFINE d == x - y
<1>3. d \in Int
  OBVIOUS
<1> HIDE DEF d
<1>4. M * d = q - p
  BY <1>2 DEF d
<1>5. d = 0
  BY <1>3, <1>4, SmallMultiple
<1> QED
  BY <1>4, <1>5

(* Reducing before an addition does not change its result.                 *)
LEMMA ModAdd ==
  ASSUME NEW M \in Nat \ {0}, NEW a \in Int, NEW n \in Int
  PROVE  ((a % M) + n) % M = (a + n) % M
<1> DEFINE b == (a % M) + n
           c == a + n
           x == a \div M
           y == b \div M
           z == c \div M
<1>1. x \in Int /\ a % M \in Int /\ a = M * x + (a % M)
  BY DivFacts
<1>2. b \in Int /\ c \in Int
  BY <1>1
<1> HIDE DEF b, c
<1>3. y \in Int /\ b % M \in 0 .. M - 1 /\ b = M * y + (b % M)
  BY <1>2, DivFacts
<1>4. z \in Int /\ c % M \in 0 .. M - 1 /\ c = M * z + (c % M)
  BY <1>2, DivFacts
<1>5. c = M * x + b
  BY <1>1 DEF b, c
<1> HIDE DEF x, y, z
<1>6. M * (x + y) = M * x + M * y /\ x + y \in Int /\ M * x \in Int /\ M * y \in Int /\ M * z \in Int
  BY <1>1, <1>3, <1>4
<1>7. M * (x + y) + (b % M) = M * z + (c % M)
  BY <1>2, <1>3, <1>4, <1>5, <1>6
<1>8. b % M = c % M
  BY <1>3, <1>4, <1>6, <1>7, ModUnique
<1> QED
  BY <1>8 DEF b, c

=============================================================================
