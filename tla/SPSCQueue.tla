----------------------------- MODULE SPSCQueue -----------------------------
(***************************************************************************)
(* The lock-free ring buffer between the epoll thread (producer) and the   *)
(* matching thread (consumer): containers/include/spsc_queue.hpp.          *)
(*                                                                         *)
(* Every access to shared memory is a step of its own.  An acquire load    *)
(* need not return the latest value of an atomic, only one that is not     *)
(* older than what the thread has seen: tailSeen is the value of tail_     *)
(* that has reached the producer, headSeen the value of head_ that has     *)
(* reached the consumer, and each follows its atomic store by store.       *)
(* What a thread wrote before a release store is visible to the thread     *)
(* that has seen the store; every other pair of accesses to one slot, one  *)
(* of them a write, is a data race (NoDataRace).                           *)
(*                                                                         *)
(* Capacity is a power of two, so that "& MASK" is "% Capacity".           *)
(* An operator F_Fault is F with a plausible mistake; no specification     *)
(* uses it.                                                                *)
(***************************************************************************)
EXTENDS Integers, Sequences

CONSTANTS Values, Capacity

ASSUME CapacityAssumption == Capacity \in Nat /\ Capacity >= 2
ASSUME ValuesAssumption == Values # {}

VARIABLES
  head_, tail_, buffer_,
  tailSeen,  \* tail_ as the producer sees it
  headSeen,  \* head_ as the consumer sees it
  prod,      \* where the producer is: "idle", "load", "copy" or "publish"
  pushing,   \* the argument of push, <<>> when idle
  cons,      \* where the consumer is: "load", "copy" or "release"
  popping,   \* the item of try_pop once copied, <<>> otherwise
  popped     \* the item of the last try_pop that returned true, <<>> before

queueVars == <<head_, tail_, buffer_, tailSeen, headSeen, prod, pushing, cons, popping, popped>>

Index == 0 .. Capacity - 1
Succ_NoMask(i) == i + 1
Succ(i) == (i + 1) % Capacity

Init ==
  /\ head_ = 0 /\ tail_ = 0
  /\ buffer_ = [i \in Index |-> <<>>]
  /\ tailSeen = 0 /\ headSeen = 0
  /\ prod = "idle" /\ pushing = <<>>
  /\ cons = "load" /\ popping = <<>>
  /\ popped = <<>>

-----------------------------------------------------------------------------
(* The producer: push spins on try_push.                                   *)

push(v) ==
  /\ prod = "idle"
  /\ prod' = "load"
  /\ pushing' = <<v>>
  /\ UNCHANGED <<head_, tail_, buffer_, tailSeen, headSeen, cons, popping, popped>>

try_push_check_Never(h, t) == FALSE
try_push_check_SameIndex(h, t) == h = t

(* next_head == tail_.load(acquire)                                        *)
try_push_check(h, t) == Succ(h) = t

(* The test for room.  When it fails, push calls try_push again.           *)
try_push_load ==
  /\ prod = "load"
  /\ prod' = IF try_push_check(head_, tailSeen) THEN "load" ELSE "copy"
  /\ UNCHANGED <<head_, tail_, buffer_, tailSeen, headSeen, pushing, cons, popping, popped>>

try_push_copy ==
  /\ prod = "copy"
  /\ prod' = "publish"
  /\ buffer_' = [buffer_ EXCEPT ![head_] = pushing]
  /\ UNCHANGED <<head_, tail_, tailSeen, headSeen, pushing, cons, popping, popped>>

try_push_publish ==
  /\ prod = "publish"
  /\ prod' = "idle"
  /\ head_' = Succ(head_)
  /\ pushing' = <<>>
  /\ UNCHANGED <<tail_, buffer_, tailSeen, headSeen, cons, popping, popped>>

-----------------------------------------------------------------------------
(* The consumer calls try_pop over and over.                               *)

(* The test for an item.  When it fails, try_pop returns false.            *)
try_pop_load ==
  /\ cons = "load"
  /\ cons' = IF tail_ = headSeen THEN "load" ELSE "copy"
  /\ UNCHANGED <<head_, tail_, buffer_, tailSeen, headSeen, prod, pushing, popping, popped>>

try_pop_copy ==
  /\ cons = "copy"
  /\ cons' = "release"
  /\ popping' = buffer_[tail_]
  /\ UNCHANGED <<head_, tail_, buffer_, tailSeen, headSeen, prod, pushing, popped>>

try_pop_release_Lost ==
  /\ cons = "release"
  /\ cons' = "load"
  /\ popped' = popping
  /\ popping' = <<>>
  /\ UNCHANGED <<head_, tail_, buffer_, tailSeen, headSeen, prod, pushing>>

try_pop_release ==
  /\ cons = "release"
  /\ cons' = "load"
  /\ tail_' = Succ(tail_)
  /\ popped' = popping
  /\ popping' = <<>>
  /\ UNCHANGED <<head_, buffer_, tailSeen, headSeen, prod, pushing>>

-----------------------------------------------------------------------------
(* A store of one thread reaches the other one.                            *)

head_arrives ==
  /\ headSeen # head_
  /\ headSeen' = Succ(headSeen)
  /\ UNCHANGED <<head_, tail_, buffer_, tailSeen, prod, pushing, cons, popping, popped>>

tail_arrives ==
  /\ tailSeen # tail_
  /\ tailSeen' = Succ(tailSeen)
  /\ UNCHANGED <<head_, tail_, buffer_, headSeen, prod, pushing, cons, popping, popped>>

Producer == try_push_load \/ try_push_copy \/ try_push_publish
Consumer == try_pop_load \/ try_pop_copy \/ try_pop_release

Next ==
  \/ \E v \in Values : push(v)
  \/ try_push_load \/ try_push_copy \/ try_push_publish
  \/ try_pop_load \/ try_pop_copy \/ try_pop_release
  \/ head_arrives \/ tail_arrives

Spec == Init /\ [][Next]_queueVars

(* Both threads run, and stores reach the other thread in finite time.     *)
(* Nothing obliges the epoll thread to call push.                          *)
FairSpec ==
  /\ Spec
  /\ WF_queueVars(Producer)
  /\ WF_queueVars(Consumer)
  /\ WF_queueVars(head_arrives)
  /\ WF_queueVars(tail_arrives)

-----------------------------------------------------------------------------
(* The observers of the class, on the current values.                      *)
size     == (head_ - tail_) % Capacity
capacity == Capacity - 1
empty    == head_ = tail_
full     == Succ(head_) = tail_

-----------------------------------------------------------------------------
Opt == {<<>>} \cup {<<v>> : v \in Values}

(* Every variable has its type.                                            *)
TypeOK ==
  /\ head_ \in Index /\ tail_ \in Index
  /\ tailSeen \in Index /\ headSeen \in Index
  /\ buffer_ \in [Index -> Opt]
  /\ prod \in {"idle", "load", "copy", "publish"}
  /\ cons \in {"load", "copy", "release"}
  /\ pushing \in Opt /\ popping \in Opt /\ popped \in Opt

(* How far index b is ahead of index a around the ring.                    *)
Ahead(a, b) == (b - a) % Capacity

(* The two views and the two atomics stay in their order around the ring,  *)
(* and together never go once around it.                                   *)
ViewsOrdered ==
  Ahead(tailSeen, tail_) + Ahead(tail_, headSeen) + Ahead(headSeen, head_) <= capacity

(* A slot being written is never one the consumer may read: it lies beyond *)
(* what the consumer has seen published (spsc_queue.hpp:36 and 49).        *)
NoDataRace ==
  prod = "copy" /\ cons = "copy" => head_ # tail_

-----------------------------------------------------------------------------
(* The queue implements a bounded FIFO: the stores of head_ and tail_ are  *)
(* its Push and Pop.                                                       *)

(* The slot n places after slot t.                                         *)
Slot(t, n) == (t + n) % Capacity

Contents == [i \in 1 .. size |-> buffer_[Slot(tail_, i - 1)][1]]

Fifo == INSTANCE BoundedFifo WITH items <- Contents, taken <- popped, Slots <- capacity

(* Items are delivered once each and in order, and the capacity is that of *)
(* capacity() (spsc_queue.hpp:81).                                         *)
ImplementsFifo == Fifo!FifoSpec

(* A push that spins on a full queue gets through: the consumer makes room *)
(* and the producer comes to see it.                                       *)
PushReturns == prod = "load" ~> prod = "idle"

(* A queue with something in it is popped from.                            *)
ItemsDelivered == \A i \in Index : head_ # i /\ tail_ = i ~> tail_ # i

=============================================================================
