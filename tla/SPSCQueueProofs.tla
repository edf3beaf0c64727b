-------------------------- MODULE SPSCQueueProofs --------------------------
(***************************************************************************)
(* Proofs about the ring buffer, for every Capacity of at least 2 and any  *)
(* set of values: no data race, and the implementation of a bounded FIFO.  *)
(***************************************************************************)
EXTENDS SPSCQueue, SequenceTheorems, TLAPS

-----------------------------------------------------------------------------
(* Arithmetic around the ring.                                             *)

(* Below the modulus, % changes nothing.                                   *)
LEMMA ModSmall == ASSUME NEW n \in Nat, n > 0, NEW x \in 0 .. n - 1 PROVE x % n = x
OBVIOUS

(* Up to twice the modulus, % subtracts it once.                           *)
LEMMA ModWrap == ASSUME NEW n \in Nat, n > 0, NEW x \in n .. 2 * n - 1 PROVE x % n = x - n
OBVIOUS

(* Down to minus the modulus, % adds it once.                              *)
LEMMA ModNegative == ASSUME NEW n \in Nat, n > 0, NEW x \in (0 - n) .. (0 - 1) PROVE x % n = x + n
OBVIOUS

(* (i + 1) & MASK wraps at the end of the buffer.                          *)
LEMMA SuccValue ==
  ASSUME NEW i \in Index
  PROVE  Succ(i) = (IF i + 1 = Capacity THEN 0 ELSE i + 1) /\ Succ(i) \in Index
<1>1. CASE i + 1 = Capacity
  <2>1. (i + 1) % Capacity = 0
    BY <1>1, CapacityAssumption, ModWrap
  <2> QED  BY <1>1, <2>1, CapacityAssumption DEF Succ, Index
<1>2. CASE i + 1 # Capacity
  <2>1. (i + 1) % Capacity = i + 1
    BY <1>2, CapacityAssumption, ModSmall DEF Index
  <2> QED  BY <1>2, <2>1, CapacityAssumption DEF Succ, Index
<1> QED
  BY <1>1, <1>2

(* The distance from a to b, going up and around.                          *)
LEMMA AheadValue ==
  ASSUME NEW a \in Index, NEW b \in Index
  PROVE  Ahead(a, b) = (IF b >= a THEN b - a ELSE b - a + Capacity) /\ Ahead(a, b) \in Index
<1>1. CASE b >= a
  <2>1. (b - a) % Capacity = b - a
    BY <1>1, CapacityAssumption, ModSmall DEF Index
  <2> QED  BY <1>1, <2>1, CapacityAssumption DEF Ahead, Index
<1>2. CASE b < a
  <2>1. (b - a) % Capacity = b - a + Capacity
    BY <1>2, CapacityAssumption, ModNegative DEF Index
  <2> QED  BY <1>2, <2>1, CapacityAssumption DEF Ahead, Index
<1> QED
  BY <1>1, <1>2 DEF Index

(* The slot n places after t.                                              *)
LEMMA SlotValue ==
  ASSUME NEW t \in Index, NEW n \in Index
  PROVE  /\ Slot(t, n) = (IF t + n < Capacity THEN t + n ELSE t + n - Capacity)
         /\ Slot(t, n) \in Index
<1>1. CASE t + n < Capacity
  <2>1. (t + n) % Capacity = t + n
    BY <1>1, CapacityAssumption, ModSmall DEF Index
  <2> QED  BY <1>1, <2>1, CapacityAssumption DEF Slot, Index
<1>2. CASE t + n >= Capacity
  <2>1. (t + n) % Capacity = t + n - Capacity
    BY <1>2, CapacityAssumption, ModWrap DEF Index
  <2> QED  BY <1>2, <2>1, CapacityAssumption DEF Slot, Index
<1> QED
  BY <1>1, <1>2, CapacityAssumption DEF Index

(* Slot and Ahead are inverses of each other, in one direction.            *)
LEMMA AheadOfSlot ==
  ASSUME NEW t \in Index, NEW n \in Index
  PROVE  Ahead(t, Slot(t, n)) = n
<1>1. /\ Slot(t, n) = (IF t + n < Capacity THEN t + n ELSE t + n - Capacity)
      /\ Slot(t, n) \in Index
  BY SlotValue
<1>2. Ahead(t, Slot(t, n)) = IF Slot(t, n) >= t THEN Slot(t, n) - t ELSE Slot(t, n) - t + Capacity
  BY <1>1, AheadValue
<1> QED
  BY <1>1, <1>2, CapacityAssumption DEF Index

(* And in the other direction.                                             *)
LEMMA SlotOfAhead ==
  ASSUME NEW t \in Index, NEW i \in Index
  PROVE  Slot(t, Ahead(t, i)) = i
<1>1. Ahead(t, i) = (IF i >= t THEN i - t ELSE i - t + Capacity) /\ Ahead(t, i) \in Index
  BY AheadValue
<1>2. Slot(t, Ahead(t, i)) = IF t + Ahead(t, i) < Capacity THEN t + Ahead(t, i)
                                                           ELSE t + Ahead(t, i) - Capacity
  BY <1>1, SlotValue
<1> QED
  BY <1>1, <1>2, CapacityAssumption DEF Index

(* Moving the start by one is the same as counting one further.            *)
LEMMA SlotSucc ==
  ASSUME NEW t \in Index, NEW n \in Index, n + 1 \in Index
  PROVE  Slot(Succ(t), n) = Slot(t, n + 1)
<1>1. Succ(t) = (IF t + 1 = Capacity THEN 0 ELSE t + 1) /\ Succ(t) \in Index
  BY SuccValue
<1>2. Slot(Succ(t), n) = IF Succ(t) + n < Capacity THEN Succ(t) + n ELSE Succ(t) + n - Capacity
  BY <1>1, SlotValue
<1>3. Slot(t, n + 1) = IF t + (n + 1) < Capacity THEN t + (n + 1) ELSE t + (n + 1) - Capacity
  BY SlotValue
<1> QED
  BY <1>1, <1>2, <1>3, CapacityAssumption DEF Index

(* How a distance changes when either of its ends moves by one.            *)
LEMMA AheadSucc ==
  ASSUME NEW a \in Index, NEW b \in Index
  PROVE  /\ Succ(b) # a => Ahead(a, Succ(b)) = Ahead(a, b) + 1
         /\ a # b => Ahead(Succ(a), b) = Ahead(a, b) - 1
         /\ Ahead(a, b) = 0 <=> a = b
         /\ Ahead(a, b) + 1 = Capacity <=> Succ(b) = a
<1>1. /\ Succ(a) = (IF a + 1 = Capacity THEN 0 ELSE a + 1) /\ Succ(a) \in Index
      /\ Succ(b) = (IF b + 1 = Capacity THEN 0 ELSE b + 1) /\ Succ(b) \in Index
  BY SuccValue
<1>2. Ahead(a, b) = IF b >= a THEN b - a ELSE b - a + Capacity
  BY AheadValue
<1>3. Ahead(a, Succ(b)) = IF Succ(b) >= a THEN Succ(b) - a ELSE Succ(b) - a + Capacity
  BY <1>1, AheadValue
<1>4. Ahead(Succ(a), b) = IF b >= Succ(a) THEN b - Succ(a) ELSE b - Succ(a) + Capacity
  BY <1>1, AheadValue
<1> QED
  BY <1>1, <1>2, <1>3, <1>4, CapacityAssumption DEF Index

-----------------------------------------------------------------------------
(* The invariant.                                                          *)

Behind == Ahead(tailSeen, tail_)
Unread == Ahead(tail_, headSeen)
Unseen == Ahead(headSeen, head_)

(* A producer past its test has room for its item, and a consumer past its *)
(* test has an item to take.                                               *)
Room == prod \in {"copy", "publish"} => Behind + Unread + Unseen < capacity
Item == cons \in {"copy", "release"} => tail_ # headSeen

(* A thread's local item is the one its slot holds.                        *)
Locals ==
  /\ prod # "idle" => pushing # <<>>
  /\ prod = "publish" => buffer_[head_] = pushing
  /\ cons = "release" => popping = buffer_[tail_]

(* The slots from tail_ up to head_ hold items.                            *)
Filled == \A n \in Index : n < size => buffer_[Slot(tail_, n)] # <<>>

QInv == TypeOK /\ ViewsOrdered /\ Room /\ Item /\ Locals /\ Filled

(* What ViewsOrdered says in numbers: the distances add up to the size.    *)
LEMMA Distances ==
  ASSUME TypeOK, ViewsOrdered
  PROVE  /\ Behind \in Index /\ Unread \in Index /\ Unseen \in Index
         /\ Behind + Unread + Unseen <= Capacity - 1
         /\ size = Unread + Unseen
         /\ size \in Index
         /\ Ahead(tailSeen, head_) = Behind + Unread + Unseen
<1>1. Behind = (IF tail_ >= tailSeen THEN tail_ - tailSeen ELSE tail_ - tailSeen + Capacity)
      /\ Behind \in Index
  BY AheadValue DEF TypeOK, Behind
<1>2. Unread = (IF headSeen >= tail_ THEN headSeen - tail_ ELSE headSeen - tail_ + Capacity)
      /\ Unread \in Index
  BY AheadValue DEF TypeOK, Unread
<1>3. Unseen = (IF head_ >= headSeen THEN head_ - headSeen ELSE head_ - headSeen + Capacity)
      /\ Unseen \in Index
  BY AheadValue DEF TypeOK, Unseen
<1>4. size = (IF head_ >= tail_ THEN head_ - tail_ ELSE head_ - tail_ + Capacity)
      /\ size \in Index
  <2>1. size = Ahead(tail_, head_)
    BY DEF size, Ahead
  <2> QED  BY <2>1, AheadValue DEF TypeOK
<1>5. Ahead(tailSeen, head_) = IF head_ >= tailSeen THEN head_ - tailSeen
                                                    ELSE head_ - tailSeen + Capacity
  BY AheadValue DEF TypeOK
<1>6. Behind + Unread + Unseen <= Capacity - 1
  BY DEF ViewsOrdered, capacity, Behind, Unread, Unseen
<1> QED
  BY <1>1, <1>2, <1>3, <1>4, <1>5, <1>6, CapacityAssumption DEF TypeOK, Index

(* The invariant holds of an empty queue.                                  *)
LEMMA InitInv == Init => QInv
<1> SUFFICES ASSUME Init PROVE QInv
  OBVIOUS
<1>1. 0 \in Index
  BY CapacityAssumption DEF Index
<1>2. TypeOK
  BY <1>1 DEF Init, TypeOK, Opt
<1>3. Ahead(0, 0) = 0
  BY <1>1, AheadSucc
<1>4. ViewsOrdered
  BY <1>3, CapacityAssumption DEF Init, ViewsOrdered, capacity
<1>5. size = 0
  BY <1>3 DEF Init, size, Ahead
<1>6. Filled
  BY <1>5, CapacityAssumption DEF Filled, Index
<1> QED
  BY <1>2, <1>4, <1>6 DEF Init, QInv, Room, Item, Locals

-----------------------------------------------------------------------------
(* Each step keeps the invariant, and is a step of the FIFO or none.       *)

(* A step that moves no index and writes no slot keeps the distances and   *)
(* the contents.                                                           *)
LEMMA IndicesKept ==
  ASSUME UNCHANGED <<head_, tail_, buffer_, tailSeen, headSeen>>
  PROVE  /\ Behind' = Behind /\ Unread' = Unread /\ Unseen' = Unseen
         /\ size' = size /\ Contents' = Contents
         /\ ViewsOrdered' = ViewsOrdered /\ Filled' = Filled
BY DEF Behind, Unread, Unseen, Ahead, size, Contents, Slot, ViewsOrdered, Filled, Index, capacity

(* push only sets the argument.                                            *)
LEMMA pushInv ==
  ASSUME QInv, NEW v \in Values, push(v)
  PROVE  QInv' /\ Contents' = Contents /\ popped' = popped
<1>1. UNCHANGED <<head_, tail_, buffer_, tailSeen, headSeen, cons, popping, popped>>
  BY DEF push
<1>2. TypeOK'
  BY <1>1 DEF QInv, TypeOK, push, Opt
<1>3. ViewsOrdered' /\ Filled' /\ Contents' = Contents
  BY <1>1, IndicesKept DEF QInv
<1>4. Room' /\ Item' /\ Locals'
  BY <1>1 DEF QInv, Room, Item, Locals, push
<1> QED
  BY <1>1, <1>2, <1>3, <1>4 DEF QInv

(* The test for room: a stale tail_ can only make the queue look fuller.   *)
LEMMA try_push_loadInv ==
  ASSUME QInv, try_push_load
  PROVE  QInv' /\ Contents' = Contents /\ popped' = popped
<1>1. UNCHANGED <<head_, tail_, buffer_, tailSeen, headSeen, pushing, cons, popping, popped>>
  BY DEF try_push_load
<1>2. TypeOK'
  BY <1>1 DEF QInv, TypeOK, try_push_load
<1>3. /\ ViewsOrdered' /\ Filled' /\ Contents' = Contents
      /\ Behind' = Behind /\ Unread' = Unread /\ Unseen' = Unseen
  BY <1>1, IndicesKept DEF QInv
<1>4. Item' /\ Locals'
  BY <1>1 DEF QInv, Item, Locals, try_push_load
<1>5. Room'
  <2>1. CASE Succ(head_) = tailSeen
    BY <2>1 DEF try_push_load, try_push_check, Room
  <2>2. CASE Succ(head_) # tailSeen
    <3>1. tailSeen \in Index /\ head_ \in Index
      BY DEF QInv, TypeOK
    <3>2. Ahead(tailSeen, head_) + 1 # Capacity
      BY <2>2, <3>1, AheadSucc
    <3>3. /\ Behind \in Index /\ Unread \in Index /\ Unseen \in Index
          /\ Behind + Unread + Unseen <= Capacity - 1
          /\ Ahead(tailSeen, head_) = Behind + Unread + Unseen
      BY Distances DEF QInv
    <3>4. Behind + Unread + Unseen < capacity
      BY <3>2, <3>3, CapacityAssumption DEF capacity, Index
    <3>5. capacity' = capacity
      BY DEF capacity
    <3> QED  BY <1>3, <3>4, <3>5 DEF Room
  <2> QED  BY <2>1, <2>2
<1> QED
  BY <1>1, <1>2, <1>3, <1>4, <1>5 DEF QInv

(* With room, the slot at head_ is outside the contents.                   *)
LEMMA HeadIsFree ==
  ASSUME QInv, NEW n \in Index, n < size
  PROVE  Slot(tail_, n) # head_ /\ Slot(tail_, n) \in Index
<1>1. head_ \in Index /\ tail_ \in Index
  BY DEF QInv, TypeOK
<1>2. Ahead(tail_, Slot(tail_, n)) = n /\ Slot(tail_, n) \in Index
  BY <1>1, AheadOfSlot, SlotValue
<1>3. Ahead(tail_, head_) = size
  BY DEF Ahead, size
<1>4. n # size
  BY <1>1, <1>3, AheadValue, CapacityAssumption DEF Index
<1> QED
  BY <1>2, <1>3, <1>4

(* Copying the item into the free slot leaves the contents alone.          *)
LEMMA try_push_copyInv ==
  ASSUME QInv, try_push_copy
  PROVE  QInv' /\ Contents' = Contents /\ popped' = popped
<1>1. UNCHANGED <<head_, tail_, tailSeen, headSeen, pushing, cons, popping, popped>>
      /\ prod = "copy" /\ prod' = "publish"
      /\ buffer_' = [buffer_ EXCEPT ![head_] = pushing]
  BY DEF try_push_copy
<1>2. TypeOK'
  BY <1>1 DEF QInv, TypeOK
<1>3. /\ Behind' = Behind /\ Unread' = Unread /\ Unseen' = Unseen
      /\ size' = size /\ ViewsOrdered' = ViewsOrdered /\ capacity' = capacity
  BY <1>1 DEF Behind, Unread, Unseen, Ahead, size, ViewsOrdered, capacity
<1>4. Room' /\ Item'
  BY <1>1, <1>3 DEF QInv, Room, Item
<1>5. \A n \in Index : n < size => buffer_'[Slot(tail_, n)] = buffer_[Slot(tail_, n)]
  BY <1>1, HeadIsFree DEF QInv, TypeOK
<1>6. Filled'
  BY <1>1, <1>3, <1>5 DEF QInv, Filled, Slot, Index
<1>7. size \in Index /\ size \in Nat
  BY Distances, CapacityAssumption DEF QInv, Index
<1>8. Contents' = Contents
  <2>1. \A i \in 1 .. size : i - 1 \in Index /\ i - 1 < size
    BY <1>7, CapacityAssumption DEF Index
  <2>2. \A i \in 1 .. size : buffer_'[Slot(tail_, i - 1)] = buffer_[Slot(tail_, i - 1)]
    BY <1>5, <2>1
  <2> QED  BY <1>1, <1>3, <2>2 DEF Contents, Slot
<1>9. Locals'
  <2>1. prod' # "idle" => pushing' # <<>>
    BY <1>1 DEF QInv, Locals
  <2>2. buffer_'[head_'] = pushing'
    BY <1>1 DEF QInv, TypeOK
  <2>3. cons' = "release" => popping' = buffer_'[tail_']
    <3> SUFFICES ASSUME cons = "release" PROVE popping = buffer_'[tail_]
      BY <1>1
    <3>0. tail_ \in Index /\ headSeen \in Index /\ 0 \in Index
      BY CapacityAssumption DEF QInv, TypeOK, Index
    <3>1. tail_ # headSeen
      BY DEF QInv, Item
    <3>2. Unread # 0
      BY <3>0, <3>1, AheadSucc DEF Unread
    <3>3. 0 < size
      <4>1. size = Unread + Unseen /\ Unread \in Index /\ Unseen \in Index
        BY Distances DEF QInv
      <4> QED  BY <3>2, <4>1 DEF Index
    <3>4. Slot(tail_, 0) = tail_
      BY <3>0, SlotValue, CapacityAssumption DEF Index
    <3>5. buffer_'[tail_] = buffer_[tail_]
      BY <1>5, <3>0, <3>3, <3>4
    <3> QED  BY <3>5 DEF QInv, Locals
  <2> QED  BY <2>1, <2>2, <2>3 DEF Locals
<1> QED
  BY <1>1, <1>2, <1>3, <1>4, <1>6, <1>8, <1>9 DEF QInv

(* The contents are a sequence of values, as long as size() says.          *)
LEMMA ContentsType ==
  ASSUME QInv
  PROVE  Contents \in Seq(Values) /\ Len(Contents) = size /\ size \in Nat
<1>1. size \in Index /\ size \in Nat
  BY Distances, CapacityAssumption DEF QInv, Index
<1>2. ASSUME NEW i \in 1 .. size
      PROVE  buffer_[Slot(tail_, i - 1)][1] \in Values
  <2>1. i - 1 \in Index /\ i - 1 < size
    BY <1>1, CapacityAssumption DEF Index
  <2>2. Slot(tail_, i - 1) \in Index
    BY <2>1, HeadIsFree
  <2>3. buffer_[Slot(tail_, i - 1)] \in Opt /\ buffer_[Slot(tail_, i - 1)] # <<>>
    BY <2>1, <2>2 DEF QInv, TypeOK, Filled
  <2> QED  BY <2>3 DEF Opt
<1> QED
  BY <1>1, <1>2, IsASeq DEF Contents

(* The store of head_ appends the item to the contents.                    *)
LEMMA try_push_publishInv ==
  ASSUME QInv, try_push_publish
  PROVE  /\ QInv' /\ popped' = popped
         /\ Len(Contents) < capacity
         /\ \E v \in Values : Contents' = Append(Contents, v)
<1>1. /\ UNCHANGED <<tail_, buffer_, tailSeen, headSeen, cons, popping, popped>>
      /\ prod = "publish" /\ prod' = "idle"
      /\ head_' = Succ(head_) /\ pushing' = <<>>
  BY DEF try_push_publish
<1>2. head_ \in Index /\ tail_ \in Index /\ headSeen \in Index /\ Succ(head_) \in Index
  BY SuccValue DEF QInv, TypeOK
<1>3. /\ Behind \in Index /\ Unread \in Index /\ Unseen \in Index
      /\ size = Unread + Unseen /\ size \in Index
  BY Distances DEF QInv
<1>4. Behind + Unread + Unseen < Capacity - 1
  BY <1>1 DEF QInv, Room, capacity
<1>5. TypeOK'
  BY <1>1, <1>2 DEF QInv, TypeOK, Opt
<1>6. Behind' = Behind /\ Unread' = Unread
  BY <1>1 DEF Behind, Unread, Ahead
<1>7. Unseen' = Unseen + 1
  <2>0. Unseen' = Ahead(headSeen, Succ(head_))
    BY <1>1 DEF Unseen, Ahead
  <2>1. Ahead(headSeen, head_) + 1 # Capacity
    BY <1>3, <1>4, CapacityAssumption DEF Unseen, Index
  <2>2. Succ(head_) # headSeen
    BY <1>2, <2>1, AheadSucc
  <2> QED  BY <1>2, <2>0, <2>2, AheadSucc DEF Unseen
<1>8. ViewsOrdered'
  BY <1>3, <1>4, <1>6, <1>7, CapacityAssumption
  DEF ViewsOrdered, capacity, Behind, Unread, Unseen, Index
<1>9. size' = size + 1
  <2>1. size' = Ahead(tail_, Succ(head_)) /\ size = Ahead(tail_, head_)
    BY <1>1 DEF size, Ahead
  <2>2. Ahead(tail_, head_) + 1 # Capacity
    BY <1>3, <1>4, <2>1, CapacityAssumption DEF Index
  <2>3. Succ(head_) # tail_
    BY <1>2, <2>2, AheadSucc
  <2> QED  BY <1>2, <2>1, <2>3, AheadSucc
<1>10. Slot(tail_, size) = head_
  BY <1>2, SlotOfAhead DEF size, Ahead
<1>11. buffer_[head_] = pushing /\ pushing # <<>>
  BY <1>1 DEF QInv, Locals
<1>12. Filled'
  <2> SUFFICES ASSUME NEW n \in Index, n < size + 1
               PROVE  buffer_[Slot(tail_, n)] # <<>>
    BY <1>1, <1>9 DEF Filled, Slot, Index
  <2>1. CASE n = size
    BY <2>1, <1>10, <1>11
  <2>2. CASE n # size
    BY <2>2, <1>3 DEF QInv, Filled, Index
  <2> QED  BY <2>1, <2>2
<1>13. Room' /\ Item'
  BY <1>1 DEF QInv, Room, Item
<1>14. Locals'
  BY <1>1 DEF QInv, Locals
<1>15. size \in Nat /\ size < capacity
  BY <1>3, <1>4, CapacityAssumption DEF Index, capacity
<1>16. Contents \in Seq(Values) /\ Len(Contents) = size
  BY ContentsType
<1>17. PICK v \in Values : pushing = <<v>>
  BY <1>11 DEF QInv, TypeOK, Opt
<1>18. Contents' = Append(Contents, v)
  <2>1. Contents' = [i \in 1 .. size + 1 |-> buffer_[Slot(tail_, i - 1)][1]]
    BY <1>1, <1>9 DEF Contents, Slot
  <2>2. Append(Contents, v) = [i \in 1 .. size + 1 |-> IF i = size + 1 THEN v ELSE Contents[i]]
    <3>1. /\ Append(Contents, v) \in Seq(Values)
          /\ Len(Append(Contents, v)) = size + 1
          /\ \A i \in 1 .. size : Append(Contents, v)[i] = Contents[i]
          /\ Append(Contents, v)[size + 1] = v
      BY <1>16, AppendProperties
    <3>2. Append(Contents, v) \in [1 .. size + 1 -> Values]
      BY <3>1, LenProperties
    <3>3. \A i \in 1 .. size + 1 :
             Append(Contents, v)[i] = IF i = size + 1 THEN v ELSE Contents[i]
      BY <1>15, <3>1
    <3> QED  BY <3>2, <3>3
  <2>3. \A i \in 1 .. size + 1 :
           buffer_[Slot(tail_, i - 1)][1] = IF i = size + 1 THEN v ELSE Contents[i]
    <3> SUFFICES ASSUME NEW i \in 1 .. size + 1
                 PROVE  buffer_[Slot(tail_, i - 1)][1] = IF i = size + 1 THEN v ELSE Contents[i]
      OBVIOUS
    <3>1. CASE i = size + 1
      <4>1. i - 1 = size
        BY <1>15, <3>1
      <4> QED  BY <1>10, <1>11, <1>17, <3>1, <4>1
    <3>2. CASE i # size + 1
      <4>1. i \in 1 .. size
        BY <1>15, <3>2
      <4> QED  BY <3>2, <4>1 DEF Contents
    <3> QED  BY <3>1, <3>2
  <2> QED  BY <2>1, <2>2, <2>3
<1> QED
  BY <1>1, <1>5, <1>8, <1>12, <1>13, <1>14, <1>15, <1>16, <1>18 DEF QInv

(* The test for an item: a stale head_ can only make the queue look        *)
(* emptier.                                                                *)
LEMMA try_pop_loadInv ==
  ASSUME QInv, try_pop_load
  PROVE  QInv' /\ Contents' = Contents /\ popped' = popped
<1>1. UNCHANGED <<head_, tail_, buffer_, tailSeen, headSeen, prod, pushing, popping, popped>>
  BY DEF try_pop_load
<1>2. TypeOK'
  BY <1>1 DEF QInv, TypeOK, try_pop_load
<1>3. /\ ViewsOrdered' /\ Filled' /\ Contents' = Contents
      /\ Behind' = Behind /\ Unread' = Unread /\ Unseen' = Unseen
  BY <1>1, IndicesKept DEF QInv
<1>4. Room'
  BY <1>1, <1>3 DEF QInv, Room, capacity
<1>5. Item' /\ Locals'
  BY <1>1 DEF QInv, Item, Locals, try_pop_load
<1> QED
  BY <1>1, <1>2, <1>3, <1>4, <1>5 DEF QInv

(* Copying the item out changes nothing shared.                            *)
LEMMA try_pop_copyInv ==
  ASSUME QInv, try_pop_copy
  PROVE  QInv' /\ Contents' = Contents /\ popped' = popped
<1>1. /\ UNCHANGED <<head_, tail_, buffer_, tailSeen, headSeen, prod, pushing, popped>>
      /\ cons = "copy" /\ cons' = "release" /\ popping' = buffer_[tail_]
  BY DEF try_pop_copy
<1>2. TypeOK'
  BY <1>1 DEF QInv, TypeOK
<1>3. /\ ViewsOrdered' /\ Filled' /\ Contents' = Contents
      /\ Behind' = Behind /\ Unread' = Unread /\ Unseen' = Unseen
  BY <1>1, IndicesKept DEF QInv
<1>4. Room' /\ Item' /\ Locals'
  BY <1>1, <1>3 DEF QInv, Room, capacity, Item, Locals
<1> QED
  BY <1>1, <1>2, <1>3, <1>4 DEF QInv

(* The store of tail_ takes the oldest item away.                          *)
LEMMA try_pop_releaseInv ==
  ASSUME QInv, try_pop_release
  PROVE  /\ QInv'
         /\ Contents # <<>>
         /\ popped' = <<Head(Contents)>>
         /\ Contents' = Tail(Contents)
<1>1. /\ UNCHANGED <<head_, buffer_, tailSeen, headSeen, prod, pushing>>
      /\ cons = "release" /\ cons' = "load"
      /\ tail_' = Succ(tail_) /\ popped' = popping /\ popping' = <<>>
  BY DEF try_pop_release
<1>2. /\ head_ \in Index /\ tail_ \in Index /\ headSeen \in Index
      /\ tailSeen \in Index /\ Succ(tail_) \in Index /\ 0 \in Index
  BY SuccValue, CapacityAssumption DEF QInv, TypeOK, Index
<1>3. /\ Behind \in Index /\ Unread \in Index /\ Unseen \in Index
      /\ Behind + Unread + Unseen <= Capacity - 1
      /\ size = Unread + Unseen /\ size \in Index
  BY Distances DEF QInv
<1>4. tail_ # headSeen /\ Unread # 0
  BY <1>1, <1>2, AheadSucc DEF QInv, Item, Unread
<1>5. TypeOK'
  BY <1>1, <1>2 DEF QInv, TypeOK, Opt
<1>6. Unseen' = Unseen /\ Unread' = Unread - 1 /\ Behind' = Behind + 1
  <2>1. /\ Unseen' = Unseen
        /\ Unread' = Ahead(Succ(tail_), headSeen)
        /\ Behind' = Ahead(tailSeen, Succ(tail_))
    BY <1>1 DEF Unseen, Unread, Behind, Ahead
  <2>2. Ahead(tailSeen, tail_) + 1 # Capacity
    BY <1>3, <1>4, CapacityAssumption DEF Behind, Index
  <2>3. Succ(tail_) # tailSeen
    BY <1>2, <2>2, AheadSucc
  <2> QED  BY <1>2, <1>4, <2>1, <2>3, AheadSucc DEF Unread, Behind
<1>7. ViewsOrdered'
  BY <1>3, <1>6, CapacityAssumption DEF ViewsOrdered, capacity, Behind, Unread, Unseen, Index
<1>8. Room'
  BY <1>1, <1>3, <1>6, CapacityAssumption DEF QInv, Room, capacity, Index
<1>9. Item'
  BY <1>1 DEF Item
<1>10. size \in Nat /\ 0 < size
  BY <1>3, <1>4, CapacityAssumption DEF Index
<1>11. size' = size - 1
  <2>1. size' = Ahead(Succ(tail_), head_) /\ size = Ahead(tail_, head_)
    BY <1>1 DEF size, Ahead
  <2>2. tail_ # head_
    BY <1>2, <1>10, <2>1, AheadSucc
  <2> QED  BY <1>2, <2>1, <2>2, AheadSucc
<1>12. \A n \in Index : n < size - 1 => n + 1 \in Index /\ n + 1 < size
                                        /\ Slot(Succ(tail_), n) = Slot(tail_, n + 1)
  <2> SUFFICES ASSUME NEW n \in Index, n < size - 1
               PROVE  n + 1 \in Index /\ n + 1 < size /\ Slot(Succ(tail_), n) = Slot(tail_, n + 1)
    OBVIOUS
  <2>1. n + 1 \in Index /\ n + 1 < size
    BY <1>3, CapacityAssumption DEF Index
  <2> QED  BY <1>2, <2>1, SlotSucc
<1>13. Filled'
  <2> SUFFICES ASSUME NEW n \in Index, n < size - 1
               PROVE  buffer_[Slot(Succ(tail_), n)] # <<>>
    BY <1>1, <1>11 DEF Filled, Slot, Index
  <2>1. n + 1 \in Index /\ n + 1 < size /\ Slot(Succ(tail_), n) = Slot(tail_, n + 1)
    BY <1>12
  <2> QED  BY <2>1 DEF QInv, Filled
<1>14. Locals'
  BY <1>1 DEF QInv, Locals
<1>15. Contents \in Seq(Values) /\ Len(Contents) = size
  BY ContentsType
<1>16. Contents # <<>>
  BY <1>10, <1>15
<1>17. popped' = <<Head(Contents)>>
  <2>1. Slot(tail_, 0) = tail_
    BY <1>2, SlotValue, CapacityAssumption DEF Index
  <2>2. popping = buffer_[tail_] /\ buffer_[tail_] # <<>> /\ buffer_[tail_] \in Opt
    BY <1>1, <1>2, <1>10, <2>1 DEF QInv, TypeOK, Locals, Filled
  <2>3. Contents[1] = buffer_[tail_][1]
    BY <1>10, <2>1 DEF Contents
  <2>4. Head(Contents) = Contents[1]
    BY <1>15, <1>16
  <2> QED  BY <1>1, <2>2, <2>3, <2>4 DEF Opt
<1>18. Contents' = Tail(Contents)
  <2>1. Contents' = [i \in 1 .. size - 1 |-> buffer_[Slot(Succ(tail_), i - 1)][1]]
    BY <1>1, <1>11 DEF Contents, Slot
  <2>2. /\ Tail(Contents) \in Seq(Values)
        /\ Len(Tail(Contents)) = size - 1
        /\ \A i \in 1 .. size - 1 : Tail(Contents)[i] = Contents[i + 1]
    BY <1>15, <1>16, HeadTailProperties
  <2>3. Tail(Contents) \in [1 .. size - 1 -> Values]
    BY <2>2, LenProperties
  <2>4. ASSUME NEW i \in 1 .. size - 1
        PROVE  Tail(Contents)[i] = buffer_[Slot(Succ(tail_), i - 1)][1]
    <3>1. i - 1 \in Index /\ i - 1 < size - 1
      BY <1>3, <1>10, CapacityAssumption DEF Index
    <3>2. Slot(Succ(tail_), i - 1) = Slot(tail_, (i - 1) + 1) /\ (i - 1) + 1 = (i + 1) - 1
      BY <1>10, <1>12, <3>1
    <3>3. i + 1 \in 1 .. size
      BY <1>10
    <3>4. Contents[i + 1] = buffer_[Slot(tail_, (i + 1) - 1)][1]
      BY <3>3 DEF Contents
    <3> QED  BY <2>2, <3>2, <3>4
  <2> QED  BY <2>1, <2>3, <2>4
<1> QED
  BY <1>5, <1>7, <1>8, <1>9, <1>13, <1>14, <1>16, <1>17, <1>18 DEF QInv

(* A published index reaches the other thread.                             *)
LEMMA head_arrivesInv ==
  ASSUME QInv, head_arrives
  PROVE  QInv' /\ Contents' = Contents /\ popped' = popped
<1>1. /\ UNCHANGED <<head_, tail_, buffer_, tailSeen, prod, pushing, cons, popping, popped>>
      /\ headSeen # head_ /\ headSeen' = Succ(headSeen)
  BY DEF head_arrives
<1>2. head_ \in Index /\ tail_ \in Index /\ headSeen \in Index /\ Succ(headSeen) \in Index
  BY SuccValue DEF QInv, TypeOK
<1>3. /\ Behind \in Index /\ Unread \in Index /\ Unseen \in Index
      /\ Behind + Unread + Unseen <= Capacity - 1
  BY Distances DEF QInv
<1>4. TypeOK'
  BY <1>1, <1>2 DEF QInv, TypeOK
<1>5. Unseen # 0
  BY <1>1, <1>2, AheadSucc DEF Unseen
<1>6. /\ Behind' = Behind /\ Unread' = Unread + 1 /\ Unseen' = Unseen - 1
      /\ Succ(headSeen) # tail_
  <2>1. /\ Behind' = Behind
        /\ Unread' = Ahead(tail_, Succ(headSeen))
        /\ Unseen' = Ahead(Succ(headSeen), head_)
    BY <1>1 DEF Unseen, Unread, Behind, Ahead
  <2>2. Ahead(tail_, headSeen) + 1 # Capacity
    BY <1>3, <1>5, CapacityAssumption DEF Unread, Index
  <2>3. Succ(headSeen) # tail_
    BY <1>2, <2>2, AheadSucc
  <2> QED  BY <1>1, <1>2, <2>1, <2>3, AheadSucc DEF Unread, Unseen
<1>7. ViewsOrdered'
  BY <1>3, <1>6, CapacityAssumption DEF QInv, ViewsOrdered, capacity, Behind, Unread, Unseen, Index
<1>8. Room'
  BY <1>1, <1>3, <1>6, CapacityAssumption DEF QInv, Room, capacity, Index
<1>9. Item' /\ Locals'
  BY <1>1, <1>6 DEF QInv, Item, Locals
<1>10. Filled' = Filled /\ Contents' = Contents
  BY <1>1 DEF Filled, Contents, size, Slot, Index
<1> QED
  BY <1>1, <1>4, <1>7, <1>8, <1>9, <1>10 DEF QInv

(* A store of tail_ reaches the producer.                                  *)
LEMMA tail_arrivesInv ==
  ASSUME QInv, tail_arrives
  PROVE  QInv' /\ Contents' = Contents /\ popped' = popped
<1>1. /\ UNCHANGED <<head_, tail_, buffer_, headSeen, prod, pushing, cons, popping, popped>>
      /\ tailSeen # tail_ /\ tailSeen' = Succ(tailSeen)
  BY DEF tail_arrives
<1>2. tail_ \in Index /\ tailSeen \in Index /\ Succ(tailSeen) \in Index
  BY SuccValue DEF QInv, TypeOK
<1>3. /\ Behind \in Index /\ Unread \in Index /\ Unseen \in Index
      /\ Behind + Unread + Unseen <= Capacity - 1
  BY Distances DEF QInv
<1>4. TypeOK'
  BY <1>1, <1>2 DEF QInv, TypeOK
<1>5. Behind' = Behind - 1 /\ Unread' = Unread /\ Unseen' = Unseen
  <2>1. /\ Behind' = Ahead(Succ(tailSeen), tail_)
        /\ Unread' = Unread /\ Unseen' = Unseen
    BY <1>1 DEF Unseen, Unread, Behind, Ahead
  <2> QED  BY <1>1, <1>2, <2>1, AheadSucc DEF Behind
<1>6. ViewsOrdered'
  BY <1>3, <1>5, CapacityAssumption DEF QInv, ViewsOrdered, capacity, Behind, Unread, Unseen, Index
<1>7. Room'
  BY <1>1, <1>3, <1>5, CapacityAssumption DEF QInv, Room, capacity, Index
<1>8. Item' /\ Locals'
  BY <1>1 DEF QInv, Item, Locals
<1>9. Filled' = Filled /\ Contents' = Contents
  BY <1>1 DEF Filled, Contents, size, Slot, Index
<1> QED
  BY <1>1, <1>4, <1>6, <1>7, <1>8, <1>9 DEF QInv

-----------------------------------------------------------------------------
(* Every step of the ring buffer keeps the invariant and is a Push, a Pop  *)
(* or no step of the FIFO.                                                 *)
LEMMA StepSimulation ==
  ASSUME QInv, [Next]_queueVars
  PROVE  QInv' /\ [Fifo!FifoNext]_(Fifo!fifoVars)
<1>0. CASE UNCHANGED queueVars
  <2>1. UNCHANGED <<head_, tail_, buffer_, tailSeen, headSeen, prod, pushing, cons, popping, popped>>
    BY <1>0 DEF queueVars
  <2>2. /\ Contents' = Contents /\ ViewsOrdered' /\ Filled'
        /\ Behind' = Behind /\ Unread' = Unread /\ Unseen' = Unseen
    BY <2>1, IndicesKept DEF QInv
  <2>3. TypeOK' /\ Room' /\ Item' /\ Locals'
    BY <2>1, <2>2 DEF QInv, TypeOK, Room, capacity, Item, Locals
  <2> QED  BY <2>1, <2>2, <2>3 DEF QInv, Fifo!fifoVars
<1>1. CASE \E v \in Values : push(v)
  BY <1>1, pushInv DEF Fifo!fifoVars
<1>2. CASE try_push_load
  BY <1>2, try_push_loadInv DEF Fifo!fifoVars
<1>3. CASE try_push_copy
  BY <1>3, try_push_copyInv DEF Fifo!fifoVars
<1>4. CASE try_push_publish
  BY <1>4, try_push_publishInv DEF Fifo!FifoNext, Fifo!Push
<1>5. CASE try_pop_load
  BY <1>5, try_pop_loadInv DEF Fifo!fifoVars
<1>6. CASE try_pop_copy
  BY <1>6, try_pop_copyInv DEF Fifo!fifoVars
<1>7. CASE try_pop_release
  BY <1>7, try_pop_releaseInv DEF Fifo!FifoNext, Fifo!Pop
<1>8. CASE head_arrives
  BY <1>8, head_arrivesInv DEF Fifo!fifoVars
<1>9. CASE tail_arrives
  BY <1>9, tail_arrivesInv DEF Fifo!fifoVars
<1> QED
  BY <1>0, <1>1, <1>2, <1>3, <1>4, <1>5, <1>6, <1>7, <1>8, <1>9 DEF Next

(* The invariant holds of every reachable state, whatever the capacity and *)
(* however stale the loads of head_ and tail_ are.                         *)
THEOREM QueueInvariant == Spec => []QInv
<1>1. QInv /\ [Next]_queueVars => QInv'
  BY StepSimulation
<1> QED
  BY InitInv, <1>1, PTL DEF Spec

(* The indices stay within the buffer, the copies hold values, and what a  *)
(* thread is about to do is a step of try_push or try_pop.                 *)
THEOREM QueueTypes == Spec => []TypeOK
<1>1. QInv => TypeOK
  BY DEF QInv
<1> QED
  BY QueueInvariant, <1>1, PTL

(* The two indices and the two views of them keep their order around the   *)
(* ring, so that neither thread ever acts on an index a lap old.           *)
THEOREM ViewsStayOrdered == Spec => []ViewsOrdered
<1>1. QInv => ViewsOrdered
  BY DEF QInv
<1> QED
  BY QueueInvariant, <1>1, PTL

(* try_push never writes the slot that try_pop is reading.                 *)
THEOREM RaceFree == Spec => []NoDataRace
<1>1. QInv => NoDataRace
  <2> SUFFICES ASSUME QInv, prod = "copy", cons = "copy", head_ = tail_ PROVE FALSE
    BY DEF NoDataRace
  <2>1. /\ Unread \in Index /\ Unseen \in Index /\ size = Unread + Unseen
    BY Distances DEF QInv
  <2>2. tail_ \in Index /\ headSeen \in Index /\ tail_ # headSeen
    BY DEF QInv, TypeOK, Item
  <2>3. Unread # 0
    BY <2>2, AheadSucc DEF Unread
  <2>4. size = 0
    BY <2>2, AheadSucc DEF size, Ahead
  <2> QED  BY <2>1, <2>3, <2>4 DEF Index
<1> QED
  BY QueueInvariant, <1>1, PTL

(* The ring buffer implements a FIFO of Capacity - 1 slots: what push puts *)
(* in, try_pop hands out once and in order.                                *)
THEOREM FifoImplemented == Spec => ImplementsFifo
<1>1. Init => Fifo!FifoInit
  <2> SUFFICES ASSUME Init PROVE Fifo!FifoInit
    OBVIOUS
  <2>1. 0 \in Index
    BY CapacityAssumption DEF Index
  <2>2. size = 0
    BY <2>1, AheadSucc DEF Init, size, Ahead
  <2>3. Contents = <<>>
    BY <2>2 DEF Contents
  <2> QED  BY <2>3 DEF Init, Fifo!FifoInit
<1>2. QInv /\ [Next]_queueVars => [Fifo!FifoNext]_(Fifo!fifoVars)
  BY StepSimulation
<1> QED
  BY QueueInvariant, <1>1, <1>2, PTL DEF Spec, ImplementsFifo, Fifo!FifoSpec

=============================================================================
