---------------------------- MODULE BoundedFifo ----------------------------
(***************************************************************************)
(* What a bounded queue between one producer and one consumer promises:    *)
(* items come out once each, in the order in which they went in, and there *)
(* are never more than Slots of them inside.  A push or pop that finds the *)
(* queue full or empty leaves no trace.                                    *)
(***************************************************************************)
EXTENDS Naturals, Sequences

CONSTANTS Values, Slots

VARIABLES items,  \* what is inside, oldest first
          taken   \* the item of the last successful pop, <<>> before the first

fifoVars == <<items, taken>>

FifoInit == items = <<>> /\ taken = <<>>

Push(v) ==
  /\ Len(items) < Slots
  /\ items' = Append(items, v)
  /\ UNCHANGED taken

Pop ==
  /\ items # <<>>
  /\ taken' = <<Head(items)>>
  /\ items' = Tail(items)

FifoNext == Pop \/ \E v \in Values : Push(v)

FifoSpec == FifoInit /\ [][FifoNext]_fifoVars

=============================================================================
