------------------------------ MODULE Delivery ------------------------------
(***************************************************************************)
(* The gateway composed with the matching thread as a sender: it pops raw  *)
(* messages, lets the engine answer, looks up the descriptor of each       *)
(* confirmation's trader and sends to it, then sends every market update   *)
(* to all descriptors (thread_matching.cpp:20-128).                        *)
(*                                                                         *)
(* The lookup and the send are two steps: the epoll thread may close the   *)
(* descriptor, and accept may give it to someone else, in between.         *)
(* Which traders the engine answers is chosen freely; MatchingEngine.tla   *)
(* says what the answers are.                                              *)
(***************************************************************************)
EXTENDS Gateway

VARIABLES
  matchAt,  \* where the matching thread is
  confirms, \* the traders that confirmations are still to be sent to
  updates,  \* how many market updates are still to be sent
  out       \* the descriptors still to be sent to, each with the connection
            \* that had it at the lookup

matchVars == <<matchAt, confirms, updates, out>>
deliveryVars == <<gatewayVars, matchVars>>

GatewayButQueue == <<kernelVars, login, sessionVars, epollVars>>

DeliveryInit ==
  /\ Init
  /\ matchAt = "pop" /\ confirms = <<>> /\ updates = 0 /\ out = EmptyMap

(* A message the engine does not answer (too short, of an unknown type, on *)
(* an unlisted symbol), one it answers to the sender, or a trade that it   *)
(* also confirms to another trader.                                        *)
Answers(t) == {<<>>, <<t>>} \cup {<<t, u>> : u \in Traders \ {t}}

matching_pop ==
  /\ matchAt = "pop" /\ queue # <<>>
  /\ queue' = Tail(queue)
  /\ confirms' \in Answers(Head(queue).traderId)
  /\ updates' \in IF confirms' = <<>> THEN {0} ELSE {0, 1}
  /\ matchAt' = "confirm"
  /\ UNCHANGED <<GatewayButQueue, out>>

(* What a lookup answers, and whose the descriptors are at that moment.    *)
LookUp(fds) == out' = [fd \in fds |-> owner[fd]]

matching_getFd_Retry ==
  /\ matchAt = "confirm" /\ confirms # <<>>
  /\ getFd(Head(confirms)) # -1
  /\ LookUp({getFd(Head(confirms))})
  /\ matchAt' = "send"
  /\ UNCHANGED <<gatewayVars, confirms, updates>>

(* A trader without a descriptor is skipped.                               *)
matching_getFd ==
  /\ matchAt = "confirm" /\ confirms # <<>>
  /\ LET fd == getFd(Head(confirms)) IN
       IF fd = -1
       THEN confirms' = Tail(confirms) /\ UNCHANGED <<matchAt, out>>
       ELSE LookUp({fd}) /\ matchAt' = "send" /\ UNCHANGED confirms
  /\ UNCHANGED <<gatewayVars, updates>>

(* send reaches the connection that has the descriptor by now, or nobody;  *)
(* its result is ignored.                                                  *)
matching_send ==
  /\ matchAt = "send"
  /\ confirms' = Tail(confirms)
  /\ out' = EmptyMap
  /\ matchAt' = "confirm"
  /\ UNCHANGED <<gatewayVars, updates>>

matching_getAllFds ==
  /\ matchAt = "confirm" /\ confirms = <<>> /\ updates > 0
  /\ LookUp(getAllFds)
  /\ updates' = updates - 1
  /\ matchAt' = "multicast"
  /\ UNCHANGED <<gatewayVars, confirms>>

matching_multicast ==
  /\ matchAt = "multicast"
  /\ \/ \E fd \in DOMAIN out : out' = Erase(out, fd) /\ UNCHANGED matchAt
     \/ out = EmptyMap /\ matchAt' = "confirm" /\ UNCHANGED out
  /\ UNCHANGED <<gatewayVars, confirms, updates>>

matching_done ==
  /\ matchAt = "confirm" /\ confirms = <<>> /\ updates = 0
  /\ matchAt' = "pop"
  /\ UNCHANGED <<gatewayVars, confirms, updates, out>>

MatchingThread ==
  \/ matching_pop \/ matching_getFd \/ matching_send
  \/ matching_getAllFds \/ matching_multicast \/ matching_done

DeliveryNext ==
  \/ Next /\ UNCHANGED matchVars
  \/ MatchingThread

DeliverySpec == DeliveryInit /\ [][DeliveryNext]_deliveryVars

(* Every thread of the server runs; clients do what they like.             *)
DeliveryFairSpec ==
  /\ DeliverySpec
  /\ WF_deliveryVars(EpollThread /\ UNCHANGED matchVars)
  /\ WF_deliveryVars(MatchingThread)
  /\ \A c \in Conns : /\ WF_deliveryVars(accept(c) /\ UNCHANGED matchVars)
                       /\ WF_deliveryVars(Login(c) /\ UNCHANGED matchVars)

-----------------------------------------------------------------------------
(* As long as no descriptor that was looked up has changed hands, whoever  *)
(* has it is the right one to send to: a confirmation goes to a connection *)
(* of its trader, and nothing goes to a connection that was not yet sent   *)
(* its login response, which its client reads first                        *)
(* (thread_accept.cpp:35-40, client main.cpp:242).                         *)
LookupCurrent ==
  \A fd \in DOMAIN out :
    owner[fd] = out[fd] =>
      /\ out[fd] \in Conns /\ login[out[fd]] \in {"nonblock", "watch", "done", "unwatched"}
      /\ matchAt = "send" => trader[out[fd]] = Head(confirms)

(* A callback of the epoll thread that spins on a full queue gets through: *)
(* the matching thread never waits for a client, not even one that left    *)
(* (spsc_queue.hpp:54, thread_matching.cpp:90).                            *)
PushesReturn == epollAt = "frame" ~> epollAt # "frame"

(* "Private confirmation to send back to a specific trader" (order.hpp:31):*)
(* when a confirmation is sent, nobody but its trader has the descriptor.  *)
ConfirmsPrivate ==
  matchAt = "send" =>
    \A fd \in DOMAIN out : owner[fd] # None => trader[owner[fd]] = Head(confirms)

=============================================================================
