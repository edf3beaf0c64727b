-------------------------- MODULE DeliveryProofs ---------------------------
(***************************************************************************)
(* Proofs about the gateway composed with the matching thread: what is     *)
(* proved of the sessions still holds while the matching thread pops and   *)
(* looks descriptors up, and a lookup whose descriptor has not changed     *)
(* hands leads to the right connection.                                    *)
(***************************************************************************)
EXTENDS Delivery, GatewayProofs

(* Of what a lookup answered, whoever has the descriptor by now.           *)
LookedUp ==
  \A fd \in DOMAIN out :
    /\ out[fd] \in Conns /\ login[out[fd]] \in Registered
    /\ matchAt = "send" => trader[out[fd]] = Head(confirms)

DInv == SInv /\ LookedUp

-----------------------------------------------------------------------------
(* A connection that is registered stays so, under the same trader id.     *)
LEMMA RegisteredStays ==
  ASSUME SInv, Next
  PROVE  \A d \in Conns : login[d] \in Registered => login'[d] \in Registered /\ trader'[d] = trader[d]
<1>1. CASE EpollThread
  BY <1>1 DEF EpollThread, epoll_wait, epoll_next, recv_data, recv_again, recv_closed, epoll_forget,
     epoll_close, frame_push, frame_done, frame_freed, kernelVars
<1>2. ASSUME NEW c \in Conns, Clients(c) \/ accept(c) \/ Login(c)
      PROVE  \A d \in Conns : login[d] \in Registered => login'[d] \in Registered /\ trader'[d] = trader[d]
  BY <1>2 DEF Clients, client_connect, client_send, client_close, accept, Login, login_recv, login_drop,
     login_respond, login_add, login_nonblock, login_watch, login_watch_fails, LoginStep, LoginAfter, kernelVars, Registered,
     SInv, TypeOK
<1> QED
  BY <1>1, <1>2 DEF Next

(* The matching thread takes from the queue, and touches nothing else of   *)
(* the gateway.                                                            *)
LEMMA MatchingKeepsSInv == ASSUME SInv, MatchingThread PROVE SInv'
<1>1. UNCHANGED GatewayButQueue
  BY DEF MatchingThread, matching_pop, matching_getFd, matching_send, matching_getAllFds,
     matching_multicast, matching_done, gatewayVars, GatewayButQueue
<1>2. UNCHANGED <<link, trader, sent, read, owner, nonblocking, watched, edge, login, sessions,
                  traderToFd, events, epollAt, epollFd, freed>>
  BY <1>1 DEF GatewayButQueue, kernelVars, sessionVars, epollVars
<1>3. queue' \in Seq(RawMessages)
  <2>1. queue \in Seq(RawMessages)
    BY DEF SInv, Shapes
  <2>2. CASE matching_pop
    BY <2>1, <2>2 DEF matching_pop
  <2>3. CASE ~matching_pop
    BY <2>1, <2>3 DEF MatchingThread, matching_getFd, matching_send, matching_getAllFds,
       matching_multicast, matching_done, gatewayVars
  <2> QED  BY <2>2, <2>3
<1>4. \A i \in DOMAIN queue' : queue'[i].traderId \in Traders
  <2> TAKE i \in DOMAIN queue'
  <2>1. queue'[i] \in RawMessages
    BY <1>3
  <2> QED  BY <2>1 DEF RawMessages
<1>5. TypeOK' /\ Shapes'
  BY <1>2, <1>3, <1>4 DEF SInv, TypeOK, Shapes
<1>6. DescriptorsOwned' /\ TradersKnown' /\ SessionsRegistered' /\ SessionsCurrent'
  BY <1>2 DEF SInv, DescriptorsOwned, TradersKnown, SessionsRegistered, SessionsCurrent, getSession
<1>7. EventsCurrent' /\ CallbackFacts'
  BY <1>2 DEF SInv, EventsCurrent, CallbackFacts, InUse
<1> QED
  BY <1>5, <1>6, <1>7 DEF SInv

(* A lookup finds descriptors of registered connections, and getFd one of  *)
(* the trader it was asked for.                                            *)
LEMMA MatchingKeepsLookups == ASSUME DInv, MatchingThread PROVE LookedUp'
<1>1. UNCHANGED <<login, trader, owner>>
  BY DEF MatchingThread, matching_pop, matching_getFd, matching_send, matching_getAllFds,
     matching_multicast, matching_done, gatewayVars, GatewayButQueue, kernelVars
<1>2. \A f \in DOMAIN sessions :
        owner[f] \in Conns /\ login[owner[f]] \in Registered /\ trader[owner[f]] = sessions[f].traderId
  BY DEF DInv, SInv, SessionsRegistered, SessionsCurrent
<1>3. CASE matching_pop \/ matching_done
  BY <1>1, <1>3 DEF DInv, LookedUp, matching_pop, matching_done
<1>4. CASE matching_getFd
  <2>1. CASE getFd(Head(confirms)) = -1
    BY <1>1, <1>4, <2>1 DEF DInv, LookedUp, matching_getFd
  <2>2. CASE getFd(Head(confirms)) # -1
    <3> DEFINE fd == getFd(Head(confirms))
    <3>1. fd \in DOMAIN sessions /\ sessions[fd].traderId = Head(confirms)
      BY <2>2 DEF getFd, getSession, DInv, SInv, SessionsCurrent
    <3>2. DOMAIN out' = {fd} /\ out'[fd] = owner[fd] /\ confirms' = confirms
      BY <1>4, <2>2 DEF matching_getFd, LookUp
    <3> QED  BY <1>1, <1>2, <3>1, <3>2 DEF LookedUp
  <2> QED  BY <2>1, <2>2
<1>5. CASE matching_send
  <2>1. DOMAIN out' = {}
    BY <1>5 DEF matching_send, EmptyMap
  <2> QED  BY <2>1 DEF LookedUp
<1>6. CASE matching_getAllFds
  <2>1. DOMAIN out' = DOMAIN sessions /\ \A f \in DOMAIN sessions : out'[f] = owner[f]
    BY <1>6 DEF matching_getAllFds, LookUp, getAllFds
  <2>2. matchAt' = "multicast"
    BY <1>6 DEF matching_getAllFds
  <2> QED  BY <1>1, <1>2, <2>1, <2>2 DEF LookedUp
<1>7. CASE matching_multicast
  <2>1. /\ DOMAIN out' \subseteq DOMAIN out /\ \A f \in DOMAIN out' : out'[f] = out[f]
        /\ matchAt' # "send"
    BY <1>7 DEF matching_multicast, Erase
  <2> QED  BY <1>1, <2>1 DEF DInv, LookedUp
<1> QED
  BY <1>3, <1>4, <1>5, <1>6, <1>7 DEF MatchingThread

-----------------------------------------------------------------------------
(* The invariant holds in every reachable state of the composition.        *)
LEMMA DeliveryInvariance == DeliverySpec => []DInv
<1>1. DeliveryInit => DInv
  <2> SUFFICES ASSUME DeliveryInit PROVE DInv
    OBVIOUS
  <2>1. DOMAIN out = {}
    BY DEF DeliveryInit, EmptyMap
  <2> QED  BY <2>1, InitSInv DEF DeliveryInit, DInv, LookedUp
<1>2. ASSUME DInv, [DeliveryNext]_deliveryVars PROVE DInv'
  <2>1. CASE Next /\ UNCHANGED matchVars
    <3>1. SInv'
      BY <1>2, <2>1, NextKeepsSInv DEF DInv
    <3>2. LookedUp'
      BY <1>2, <2>1, RegisteredStays DEF DInv, LookedUp, matchVars
    <3> QED  BY <3>1, <3>2 DEF DInv
  <2>2. CASE MatchingThread
    BY <1>2, <2>2, MatchingKeepsSInv, MatchingKeepsLookups DEF DInv
  <2>3. CASE UNCHANGED deliveryVars
    <3>1. SInv'
      BY <1>2, <2>3, NextKeepsSInv DEF DInv, deliveryVars
    <3>2. LookedUp'
      BY <1>2, <2>3 DEF DInv, LookedUp, deliveryVars, gatewayVars, kernelVars, matchVars
    <3> QED  BY <3>1, <3>2 DEF DInv
  <2> QED  BY <1>2, <2>1, <2>2, <2>3 DEF DeliveryNext
<1> QED
  BY <1>1, <1>2, PTL DEF DeliverySpec

(* A confirmation whose descriptor has not changed hands between getFd and *)
(* send goes to a connection of its trader, and nothing is sent to one     *)
(* that still waits for its login response (thread_matching.cpp:85-128,    *)
(* thread_accept.cpp:35-40).                                               *)
THEOREM LookupsCurrent == DeliverySpec => []LookupCurrent
<1>1. DInv => LookupCurrent
  BY DEF DInv, LookedUp, LookupCurrent, Registered
<1> QED
  BY <1>1, DeliveryInvariance, PTL

(* The sessions stay current with the matching thread at work beside the   *)
(* gateway.                                                                *)
THEOREM ComposedSessionsCurrent == DeliverySpec => []SessionsCurrent
<1>1. DInv => SessionsCurrent
  BY DEF DInv, SInv
<1> QED
  BY <1>1, DeliveryInvariance, PTL

=============================================================================
