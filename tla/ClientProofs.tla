--------------------------- MODULE ClientProofs ----------------------------
(***************************************************************************)
(* Proofs about the interactive client, for any set of internal ids, any   *)
(* number of orders and any number of messages on their way: what the      *)
(* client resolves an internal id to is an id the exchange issued for it,  *)
(* to this client if no session of its trader was there before; and once   *)
(* everything has arrived it is the latest one.                            *)
(***************************************************************************)
EXTENDS Client, TLAPS

-----------------------------------------------------------------------------
(* The inductive invariant.                                                *)

Requests ==
  {NewOrderRequestMsg(i) : i \in InternalIds}
    \cup {ModifyOrderRequestMsg(x) : x \in Nat} \cup {CancelOrderRequestMsg(x) : x \in Nat}

OtherTypes == {"Trade", "ModifyAck", "CancelAck", "MarketUpdate"}
Confirms ==
  [type : {"NewAck"} \cup OtherTypes, orderId : Nat, clientOrderId : Nat, party : Parties \cup {"all"}]
Wire ==
  {Cut, LoginResponseMsg} \cup [type : {"NewOrderConfirm"}, clientOrderId : Nat, orderId : Nat]
    \cup [type : OtherTypes, orderId : Nat]

Types ==
  /\ msg \subseteq Requests /\ up \in Seq(Requests)
  /\ confirms \in Seq(Confirms) /\ down \in Seq(Wire)
  /\ nextOrderId \in Nat \ {0}
  /\ \A i \in DOMAIN internalToExchange : internalToExchange[i] \in Nat

(* No byte of what the server sent was dropped inside a message, and the   *)
(* connection has not ended inside one.                                    *)
Clean == link = "up" /\ damage # "cut"

(* The positions of new order confirmations, on their way and yet to send. *)
AcksDown == {k \in DOMAIN down : down[k].type = "NewOrderConfirm"}
AcksToSend == {k \in DOMAIN confirms : confirms[k].type = "NewAck"}

(* A session of the trader that is registered after the client takes the   *)
(* route over, and only a login of the client's would take it back.        *)
Routed ==
  /\ rival = "none" => ~older
  /\ ~older /\ rival # "none" => loginAt = "done" /\ route # "client"
  /\ \A e \in issued : e[3] = "rival" => rival # "none"

(* Every id is issued once, and an acknowledgement comes first of the      *)
(* confirmations of a request.                                             *)
IssuedOnce ==
  /\ \A e \in issued : e[2] \in 1 .. nextOrderId - 1
  /\ \A k \in AcksToSend :
       /\ k = 1 /\ confirms[k].party \in Parties
       /\ <<confirms[k].clientOrderId, confirms[k].orderId, confirms[k].party>> \in issued

(* Whatever acknowledgement the client is sent is of an order of its own.  *)
Alone == ~older /\ \A e \in issued : e[3] # "before"

(* The pairs of internal and exchange id the client may learn.             *)
Entered ==
  {p \in Nat \X Nat :
     /\ \E who \in Parties : <<p[1], p[2], who>> \in issued
     /\ Alone => <<p[1], p[2], "client">> \in issued}

(* On a clean stream an acknowledgement carries such a pair, and each id   *)
(* is above those acknowledged before it.                                  *)
StreamInOrder ==
  Clean =>
    /\ \A k \in DOMAIN down : down[k] # Cut
    /\ \A k \in AcksDown : <<down[k].clientOrderId, down[k].orderId>> \in Entered
    /\ \A j, k \in AcksDown : j < k => down[j].orderId < down[k].orderId
    /\ \A j \in AcksDown : \A k \in AcksToSend : down[j].orderId < confirms[k].orderId

(* What the client has entered is such a pair, of an id that was issued    *)
(* before what is still to come.                                           *)
MapBehind ==
  Clean =>
    \A i \in DOMAIN internalToExchange :
      /\ <<i, internalToExchange[i]>> \in Entered
      /\ \A k \in AcksDown : internalToExchange[i] < down[k].orderId
      /\ \A k \in AcksToSend : internalToExchange[i] < confirms[k].orderId

(* As long as nothing is lost, each order of the client can be resolved to *)
(* it or a later one, or will be when what is on its way has arrived.  A   *)
(* confirmation of the rival's that is yet to be sent may not arrive.      *)
Arriving(e) ==
  \/ exchId(e[1]) >= e[2]
  \/ \E k \in AcksDown : down[k].clientOrderId = e[1] /\ down[k].orderId >= e[2]
  \/ \E k \in AcksToSend :
       confirms[k].party = "client" /\ confirms[k].clientOrderId = e[1] /\ confirms[k].orderId >= e[2]

AllArriving ==
  link = "up" /\ damage = "none" => \A e \in issued : e[3] = "client" => Arriving(e)

CInv == Types /\ Routed /\ IssuedOnce /\ StreamInOrder /\ MapBehind /\ AllArriving

-----------------------------------------------------------------------------
(* Sequences and messages.                                                 *)

(* What is left after the first element.                                   *)
LEMMA TailFacts ==
  ASSUME NEW S, NEW s \in Seq(S), s # <<>>
  PROVE  /\ Tail(s) \in Seq(S) /\ Head(s) = s[1] /\ 1 \in DOMAIN s
         /\ \A k \in DOMAIN Tail(s) : k \in Nat /\ k + 1 \in DOMAIN s /\ Tail(s)[k] = s[k + 1]
         /\ \A k \in DOMAIN s : k # 1 => k - 1 \in DOMAIN Tail(s) /\ Tail(s)[k - 1] = s[k]
OBVIOUS

(* A message on the wire is one of the four kinds, told apart by type.     *)
LEMMA WireFields ==
  ASSUME NEW m \in Wire
  PROVE  /\ m.type = "NewOrderConfirm" => m.clientOrderId \in Nat /\ m.orderId \in Nat
         /\ m.type = "NewOrderConfirm" => m # Cut
BY DEF Wire, Cut, LoginResponseMsg, OtherTypes

(* The wire form of a confirmation: a NewOrderConfirm exactly when it is a *)
(* NewAck, with its two ids (protocol.hpp:164-171).                        *)
LEMMA ConfirmMsgFacts ==
  ASSUME NEW c \in Confirms
  PROVE  /\ toConfirmMsg(c) \in Wire /\ toConfirmMsg(c) # Cut
         /\ (toConfirmMsg(c).type = "NewOrderConfirm") <=> (c.type = "NewAck")
         /\ c.type = "NewAck" => /\ toConfirmMsg(c).clientOrderId = c.clientOrderId
                                 /\ toConfirmMsg(c).orderId = c.orderId
<1>1. CASE c.type = "NewAck"
  <2>1. toConfirmMsg(c) = [type |-> "NewOrderConfirm", clientOrderId |-> c.clientOrderId, orderId |-> c.orderId]
    BY <1>1 DEF toConfirmMsg
  <2>2. c.clientOrderId \in Nat /\ c.orderId \in Nat
    BY DEF Confirms
  <2>3. toConfirmMsg(c).type = "NewOrderConfirm" /\ Cut.type = "Cut"
    BY <2>1 DEF Cut
  <2> QED  BY <1>1, <2>1, <2>2, <2>3 DEF Wire
<1>2. CASE c.type # "NewAck"
  <2>1. toConfirmMsg(c) = [type |-> c.type, orderId |-> c.orderId]
    BY <1>2 DEF toConfirmMsg
  <2>2. c.type \in OtherTypes /\ c.orderId \in Nat
    BY <1>2 DEF Confirms
  <2>3. toConfirmMsg(c).type = c.type /\ Cut.type = "Cut"
    BY <2>1 DEF Cut
  <2> QED  BY <1>2, <2>1, <2>2, <2>3 DEF Wire, OtherTypes
<1> QED
  BY <1>1, <1>2

-----------------------------------------------------------------------------
(* One lemma per kind of step.                                             *)

(* A pair that the client may learn remains one, whatever is issued, as    *)
(* long as no session turns out to have been there before.                 *)
LEMMA EnteredKept ==
  ASSUME issued \subseteq issued', ~older' => ~older
  PROVE  Entered \subseteq Entered'
<1>1. Alone' => Alone
  BY DEF Alone
<1> QED
  BY <1>1 DEF Entered

(* Its id was issued.                                                      *)
LEMMA EnteredBelow ==
  ASSUME Types, IssuedOnce, NEW i, NEW x, <<i, x>> \in Entered
  PROVE  x \in Nat /\ x < nextOrderId
<1>1. PICK who \in Parties : <<i, x, who>> \in issued
  BY DEF Entered
<1>2. <<i, x, who>>[2] \in 1 .. nextOrderId - 1
  BY <1>1 DEF IssuedOnce
<1> QED
  BY <1>2 DEF Types

(* Initially no order was issued, or one that was entered before.          *)
LEMMA InitCInv == ClientInit => CInv
<1> SUFFICES ASSUME ClientInit PROVE CInv
  OBVIOUS
<1>1. DOMAIN down = {} /\ DOMAIN internalToExchange = {} /\ AcksDown = {}
  BY DEF ClientInit, AcksDown
<1>2. StreamInOrder /\ MapBehind
  BY <1>1 DEF StreamInOrder, MapBehind
<1>3. msg = {} /\ up = <<>> /\ down = <<>>
  BY DEF ClientInit
<1>4. CASE NothingUnderWay
  <2>1. DOMAIN confirms = {} /\ issued = {} /\ AcksToSend = {}
    BY <1>4 DEF NothingUnderWay, AcksToSend
  <2>2. Types
    BY <1>1, <1>3, <1>4 DEF NothingUnderWay, Types
  <2> QED  BY <1>2, <2>1, <2>2 DEF CInv, Routed, IssuedOnce, AllArriving, ClientInit
<1>5. CASE \E i \in InternalIds : StaleLookup(i)
  <2>1. PICK i \in InternalIds : StaleLookup(i)
    BY <1>5
  <2> DEFINE c == OrderConfirm("NewAck", 1, i, "before")
  <2>2. c \in Confirms /\ c.orderId = 1 /\ c.clientOrderId = i /\ c.party = "before" /\ "before" \in Parties
    BY ClientAssumption DEF ClientAssumption, OrderConfirm, Confirms, Parties
  <2> HIDE DEF c
  <2>3. nextOrderId = 2 /\ confirms = <<c>> /\ issued = {<<i, 1, "before">>}
    BY <2>1 DEF StaleLookup, c
  <2>4. DOMAIN confirms = {1} /\ confirms[1] = c
    BY <2>3
  <2>5. \A e \in issued : e[2] = 1 /\ e[3] = "before"
    BY <2>3
  <2>6. Types
    BY <1>1, <1>3, <2>2, <2>3 DEF Types
  <2>7. IssuedOnce
    BY <2>2, <2>3, <2>4, <2>5 DEF IssuedOnce, AcksToSend
  <2>8. Routed /\ AllArriving
    BY <2>5 DEF Routed, AllArriving, ClientInit
  <2> QED  BY <1>2, <2>6, <2>7, <2>8 DEF CInv
<1> QED
  BY <1>4, <1>5 DEF ClientInit

(* Steps that neither send nor receive a confirmation: the connection may  *)
(* end, and never comes back.                                              *)
LEMMA QuietKeeps ==
  ASSUME CInv, UNCHANGED <<internalToExchange, down, engineVars, damage>>, link' = "up" => link = "up",
         msg' \subseteq Requests, up' \in Seq(Requests), ~older' => ~older, Routed'
  PROVE  CInv'
<1>1. UNCHANGED <<internalToExchange, down, nextOrderId, confirms, damage, issued, AcksDown, AcksToSend>>
  BY DEF engineVars, AcksDown, AcksToSend
<1>2. Types' /\ IssuedOnce'
  BY <1>1 DEF CInv, Types, IssuedOnce
<1>3. Clean' => Clean
  BY <1>1 DEF Clean
<1>4. Entered \subseteq Entered'
  BY <1>1, EnteredKept
<1>5. StreamInOrder' /\ MapBehind'
  BY <1>1, <1>3, <1>4 DEF CInv, StreamInOrder, MapBehind
<1>6. AllArriving'
  BY <1>1 DEF CInv, AllArriving, Arriving, exchId
<1> QED
  BY <1>2, <1>5, <1>6 DEF CInv

(* Where a session is registered or removed.                               *)
LEMMA SessionKeeps ==
  ASSUME CInv, login_add \/ rival_login \/ rival_leave \/ server_close
  PROVE  CInv'
<1>1. UNCHANGED <<internalToExchange, down, engineVars, damage, msg>> /\ (link' = "up" => link = "up")
  BY DEF login_add, rival_login, rival_leave, server_close, mainVars
<1>2. UNCHANGED issued
  BY <1>1 DEF engineVars
<1>3. up' \in Seq(Requests) /\ msg' \subseteq Requests
  <2>1. up' = up \/ up' = <<>>
    BY DEF login_add, rival_login, rival_leave, server_close
  <2>2. <<>> \in Seq(Requests)
    OBVIOUS
  <2> QED  BY <1>1, <2>1, <2>2 DEF CInv, Types
<1>4. Routed' /\ (~older' => ~older)
  <2>1. CASE login_add
    BY <1>2, <2>1 DEF login_add, CInv, Routed
  <2>2. CASE rival_login
    BY <1>2, <2>2 DEF rival_login, CInv, Routed
  <2>3. CASE rival_leave
    BY <1>2, <2>3 DEF rival_leave, CInv, Routed
  <2>4. CASE server_close
    BY <1>2, <2>4 DEF server_close, CInv, Routed
  <2> QED  BY <2>1, <2>2, <2>3, <2>4
<1> QED
  BY <1>1, <1>3, <1>4, QuietKeeps

(* What the main thread puts together is a request.                        *)
LEMMA MainKeeps ==
  ASSUME CInv, main_connect \/ Terminal \/ MainThread \/ signalHandler \/ recv_test
  PROVE  CInv'
<1>1. UNCHANGED <<internalToExchange, down, serverVars>>
  BY DEF main_connect, Terminal, getline_new, getline_cancel, getline_modify, getline_ignored,
     getline_end, MainThread, main_test, main_send, main_shutdown, main_join, signalHandler, recv_test
<1>2. link' = "up" => link = "up"
  BY DEF main_connect, Terminal, getline_new, getline_cancel, getline_modify, getline_ignored,
     getline_end, MainThread, main_test, main_send, main_shutdown, main_join, signalHandler, recv_test
<1>3. msg' \subseteq Requests
  <2>1. ASSUME NEW i \in InternalIds, getline_new(i) \/ getline_cancel(i) \/ getline_modify(i)
        PROVE  msg' \subseteq Requests
    <3>1. CASE getline_new(i)
      BY <3>1 DEF getline_new, Requests
    <3>2. CASE getline_cancel(i) \/ getline_modify(i)
      <4>1. exchId(i) \in Nat
        BY <3>2 DEF getline_cancel, getline_modify, exchId, CInv, Types
      <4> QED  BY <3>2, <4>1 DEF getline_cancel, getline_modify, Requests
    <3> QED  BY <2>1, <3>1, <3>2
  <2>2. CASE ~ \E i \in InternalIds : getline_new(i) \/ getline_cancel(i) \/ getline_modify(i)
    BY <2>2 DEF main_connect, Terminal, getline_ignored, getline_end, MainThread, main_test,
       main_send, main_shutdown, main_join, signalHandler, recv_test, mainVars, CInv, Types
  <2> QED  BY <2>1, <2>2
<1>4. up' \in Seq(Requests)
  <2>1. CASE main_send
    BY <2>1 DEF main_send, CInv, Types
  <2>2. CASE ~main_send
    BY <2>2 DEF main_connect, Terminal, getline_new, getline_cancel, getline_modify,
       getline_ignored, getline_end, MainThread, main_test, main_shutdown, main_join, signalHandler,
       recv_test, CInv, Types
  <2> QED  BY <2>1, <2>2
<1>5. UNCHANGED <<engineVars, damage, sessionVars>>
  BY <1>1 DEF serverVars
<1>6. Routed' /\ (~older' => ~older)
  BY <1>5 DEF engineVars, sessionVars, CInv, Routed
<1> QED
  BY <1>1, <1>2, <1>3, <1>4, <1>5, <1>6, QuietKeeps

(* On a stream that has ended or was cut, the client may enter anything.   *)
LEMMA DirtyKeeps ==
  ASSUME CInv, ~Clean', UNCHANGED <<engineVars, sessionVars>>,
         msg' \subseteq Requests, up' \in Seq(Requests), down' \in Seq(Wire),
         \A i \in DOMAIN internalToExchange' : internalToExchange'[i] \in Nat
  PROVE  CInv'
<1>1. UNCHANGED <<nextOrderId, confirms, issued, rival, older, loginAt, route>>
  BY DEF engineVars, sessionVars
<1>2. Types'
  BY <1>1 DEF CInv, Types
<1>3. IssuedOnce' /\ Routed'
  BY <1>1 DEF CInv, IssuedOnce, Routed, AcksToSend
<1>4. ~(link' = "up" /\ damage' = "none")
  BY DEF Clean
<1> QED
  BY <1>2, <1>3, <1>4 DEF CInv, StreamInOrder, MapBehind, AllArriving

(* Whatever it enters is an id or the stray one.                           *)
LEMMA AnythingTyped ==
  ASSUME Types, EnterAnything
  PROVE  \A i \in DOMAIN internalToExchange' : internalToExchange'[i] \in Nat
<1>1. StrayId \in Nat
  BY ClientAssumption DEF ClientAssumption, StrayId
<1>2. CASE UNCHANGED internalToExchange
  BY <1>2 DEF Types
<1>3. CASE \E i \in InternalIds : internalToExchange' = Put(internalToExchange, i, StrayId)
  <2>1. PICK i \in InternalIds : internalToExchange' = Put(internalToExchange, i, StrayId)
    BY <1>3
  <2> QED  BY <1>1, <2>1 DEF Put, Types
<1> QED
  BY <1>2, <1>3 DEF EnterAnything

(* recv on a connection that has ended.                                    *)
LEMMA RecvEndKeeps == ASSUME CInv, recv_end PROVE CInv'
<1>1. ~Clean' /\ UNCHANGED <<engineVars, sessionVars>> /\ msg' \subseteq Requests /\ up' \in Seq(Requests)
  BY DEF recv_end, Clean, mainVars, serverVars, CInv, Types
<1>2. down' \in Seq(Wire)
  <2>1. down' = <<>> \/ down' = down
    BY DEF recv_end
  <2>2. <<>> \in Seq(Wire) /\ down \in Seq(Wire)
    BY DEF CInv, Types
  <2> QED  BY <2>1, <2>2
<1>3. \A i \in DOMAIN internalToExchange' : internalToExchange'[i] \in Nat
  BY AnythingTyped DEF recv_end, CInv, Types
<1> QED
  BY <1>1, <1>2, <1>3, DirtyKeeps

(* A message is taken off a clean stream.  When it is an acknowledgement,  *)
(* its id is above all entered before it and below all that follow.        *)
LEMMA TakenKeeps ==
  ASSUME CInv, Clean, UNCHANGED <<link, damage, engineVars, sessionVars>>,
         msg' \subseteq Requests, up' \in Seq(Requests),
         down # <<>>, down' = Tail(down), Enter(Head(down))
  PROVE  CInv'
<1>1. UNCHANGED <<link, damage, confirms, nextOrderId, issued, AcksToSend, Entered, rival, older, loginAt, route>>
  BY DEF engineVars, sessionVars, AcksToSend, Entered, Alone
<1>2. /\ down' \in Seq(Wire) /\ Head(down) = down[1] /\ 1 \in DOMAIN down
      /\ \A k \in DOMAIN down' : k \in Nat /\ k + 1 \in DOMAIN down /\ down'[k] = down[k + 1]
      /\ \A k \in DOMAIN down : k # 1 => k - 1 \in DOMAIN down' /\ down'[k - 1] = down[k]
      /\ DOMAIN down \subseteq Nat /\ \A k \in DOMAIN down : down[k] \in Wire
  BY TailFacts DEF CInv, Types
<1> DEFINE m == down[1]
           ack == m.type = "NewOrderConfirm"
<1>3. Enter(m)
  BY <1>2
<1>4. m \in Wire /\ (ack => m.clientOrderId \in Nat /\ m.orderId \in Nat)
  BY <1>2, WireFields
<1>5. \A k \in AcksDown' : k \in Nat /\ k + 1 \in AcksDown /\ 1 < k + 1 /\ down'[k] = down[k + 1]
  BY <1>2 DEF AcksDown
<1>6. 1 \in AcksDown <=> ack
  BY <1>2 DEF AcksDown
<1>7. \A i \in DOMAIN internalToExchange' :
        \/ i \in DOMAIN internalToExchange /\ internalToExchange'[i] = internalToExchange[i]
        \/ ack /\ i = m.clientOrderId /\ internalToExchange'[i] = m.orderId
  BY <1>3 DEF Enter, Put
<1>8. /\ ack => m.clientOrderId \in DOMAIN internalToExchange' /\ internalToExchange'[m.clientOrderId] = m.orderId
      /\ \A i \in DOMAIN internalToExchange :
           /\ i \in DOMAIN internalToExchange'
           /\ ~ack \/ i # m.clientOrderId => internalToExchange'[i] = internalToExchange[i]
  BY <1>3 DEF Enter, Put
<1> HIDE DEF m, ack
<1>9. Types'
  <2>1. \A i \in DOMAIN internalToExchange' : internalToExchange'[i] \in Nat
    BY <1>4, <1>7 DEF CInv, Types
  <2> QED  BY <1>1, <1>2, <2>1 DEF CInv, Types
<1>10. IssuedOnce' /\ Routed'
  BY <1>1 DEF CInv, IssuedOnce, Routed
<1>11. StreamInOrder'
  <2>1. \A k \in DOMAIN down' : down'[k] # Cut
    BY <1>2 DEF CInv, StreamInOrder
  <2>2. \A k \in AcksDown' : <<down'[k].clientOrderId, down'[k].orderId>> \in Entered
    BY <1>5 DEF CInv, StreamInOrder
  <2>3. ASSUME NEW j \in AcksDown', NEW k \in AcksDown', j < k
        PROVE  down'[j].orderId < down'[k].orderId
    <3>1. /\ j \in Nat /\ j + 1 \in AcksDown /\ down'[j] = down[j + 1]
          /\ k \in Nat /\ k + 1 \in AcksDown /\ down'[k] = down[k + 1]
      BY <1>5
    <3>2. j + 1 < k + 1
      BY <2>3, <3>1
    <3> QED  BY <3>1, <3>2 DEF CInv, StreamInOrder
  <2>4. \A j \in AcksDown' : \A k \in AcksToSend : down'[j].orderId < confirms[k].orderId
    BY <1>5 DEF CInv, StreamInOrder
  <2> QED  BY <1>1, <2>1, <2>2, <2>3, <2>4 DEF StreamInOrder
<1>12. MapBehind'
  <2> SUFFICES ASSUME NEW i \in DOMAIN internalToExchange'
               PROVE  /\ <<i, internalToExchange'[i]>> \in Entered
                      /\ \A k \in AcksDown' : internalToExchange'[i] < down'[k].orderId
                      /\ \A k \in AcksToSend : internalToExchange'[i] < confirms[k].orderId
    BY <1>1 DEF MapBehind
  <2>1. CASE i \in DOMAIN internalToExchange /\ internalToExchange'[i] = internalToExchange[i]
    BY <2>1, <1>5 DEF CInv, MapBehind
  <2>2. CASE ack /\ i = m.clientOrderId /\ internalToExchange'[i] = m.orderId
    <3>1. 1 \in AcksDown
      BY <2>2, <1>6
    <3>2. \A k \in AcksDown' : down[1].orderId < down'[k].orderId
      BY <3>1, <1>5 DEF CInv, StreamInOrder
    <3>3. /\ <<down[1].clientOrderId, down[1].orderId>> \in Entered
          /\ \A k \in AcksToSend : down[1].orderId < confirms[k].orderId
      BY <3>1 DEF CInv, StreamInOrder
    <3> QED  BY <2>2, <3>2, <3>3 DEF m
  <2> QED  BY <1>7, <2>1, <2>2
<1>13. AllArriving'
  <2> SUFFICES ASSUME NEW e \in issued, e[3] = "client", link = "up", damage = "none" PROVE Arriving(e)'
    BY <1>1 DEF AllArriving
  <2>1. Arriving(e) /\ e[2] \in Nat /\ e[2] > 0
    BY DEF CInv, AllArriving, IssuedOnce, Types
  <2>2. CASE exchId(e[1]) >= e[2]
    <3>1. e[1] \in DOMAIN internalToExchange /\ internalToExchange[e[1]] >= e[2]
      BY <2>1, <2>2 DEF exchId
    <3>2. CASE ack /\ e[1] = m.clientOrderId
      <4>1. internalToExchange[e[1]] < m.orderId
        BY <3>1, <3>2, <1>6 DEF CInv, MapBehind, m
      <4>2. internalToExchange'[e[1]] >= e[2] /\ e[1] \in DOMAIN internalToExchange'
        BY <2>1, <3>1, <3>2, <4>1, <1>4, <1>8 DEF CInv, Types
      <4> QED  BY <4>2 DEF Arriving, exchId
    <3>3. CASE ~(ack /\ e[1] = m.clientOrderId)
      <4>1. e[1] \in DOMAIN internalToExchange' /\ internalToExchange'[e[1]] = internalToExchange[e[1]]
        BY <3>1, <3>3, <1>8
      <4> QED  BY <3>1, <4>1 DEF Arriving, exchId
    <3> QED  BY <3>2, <3>3
  <2>3. CASE \E k \in AcksDown : down[k].clientOrderId = e[1] /\ down[k].orderId >= e[2]
    <3>1. PICK k \in AcksDown : down[k].clientOrderId = e[1] /\ down[k].orderId >= e[2]
      BY <2>3
    <3>2. CASE k = 1
      <4>1. ack /\ m.clientOrderId = e[1] /\ m.orderId >= e[2]
        BY <3>1, <3>2, <1>6 DEF m
      <4> QED  BY <4>1, <1>8 DEF Arriving, exchId
    <3>3. CASE k # 1
      <4>1. k - 1 \in AcksDown' /\ down'[k - 1] = down[k]
        BY <3>3, <1>2 DEF AcksDown
      <4> QED  BY <3>1, <4>1 DEF Arriving
    <3> QED  BY <3>2, <3>3
  <2>4. CASE \E k \in AcksToSend :
              confirms[k].party = "client" /\ confirms[k].clientOrderId = e[1] /\ confirms[k].orderId >= e[2]
    BY <2>4, <1>1 DEF Arriving
  <2> QED  BY <2>1, <2>2, <2>3, <2>4 DEF Arriving
<1> QED  BY <1>9, <1>10, <1>11, <1>12, <1>13 DEF CInv

(* The receive thread takes a message off the stream.                      *)
LEMMA RecvMsgKeeps == ASSUME CInv, recv_msg PROVE CInv'
<1>1. /\ UNCHANGED <<link, damage, engineVars, sessionVars>> /\ down # <<>> /\ down' = Tail(down)
      /\ msg' \subseteq Requests /\ up' \in Seq(Requests)
  BY DEF recv_msg, mainVars, serverVars, CInv, Types
<1>2. down' \in Seq(Wire) /\ Head(down) \in Wire /\ Head(down) = down[1] /\ 1 \in DOMAIN down
  BY <1>1, TailFacts DEF CInv, Types
<1>3. CASE ~Clean
  <2>1. \A i \in DOMAIN internalToExchange' : internalToExchange'[i] \in Nat
    <3>1. CASE EnterAnything
      BY <3>1, AnythingTyped DEF CInv
    <3>2. CASE Enter(Head(down))
      BY <3>2, <1>2, WireFields DEF Enter, Put, CInv, Types
    <3> QED  BY <3>1, <3>2 DEF recv_msg
  <2>2. ~Clean'
    BY <1>1, <1>3 DEF Clean
  <2> QED  BY <1>1, <1>2, <2>1, <2>2, DirtyKeeps
<1>4. CASE Clean
  <2>1. Enter(Head(down))
    BY <1>2, <1>4 DEF recv_msg, CInv, StreamInOrder
  <2> QED  BY <1>1, <1>4, <2>1, TakenKeeps
<1> QED
  BY <1>3, <1>4

(* The main thread takes the first message for the login response: if it   *)
(* is not, the stream is no longer clean.                                  *)
LEMMA LoginKeeps == ASSUME CInv, main_login PROVE CInv'
<1>1. /\ UNCHANGED <<internalToExchange, link, engineVars, sessionVars>>
      /\ msg' \subseteq Requests /\ up' \in Seq(Requests) /\ down \in Seq(Wire)
      /\ \A i \in DOMAIN internalToExchange' : internalToExchange'[i] \in Nat
  BY DEF main_login, CInv, Types
<1>2. CASE down # <<>> /\ Head(down) = LoginResponseMsg /\ down' = Tail(down) /\ UNCHANGED damage
  <2>1. Enter(Head(down))
    BY <1>1, <1>2 DEF Enter, LoginResponseMsg
  <2>2. down' \in Seq(Wire)
    BY <1>1, <1>2
  <2>3. CASE ~Clean
    BY <1>1, <1>2, <2>2, <2>3, DirtyKeeps DEF Clean
  <2> QED  BY <1>1, <1>2, <2>1, <2>3, TakenKeeps
<1>3. CASE down # <<>> /\ down' = [k \in DOMAIN Tail(down) |-> Cut] /\ damage' = "cut"
  <2>1. Tail(down) \in Seq(Wire) /\ Cut \in Wire
    BY <1>1, <1>3 DEF Wire
  <2> DEFINE t == Tail(down)
  <2>2. DOMAIN t = 1 .. Len(t) /\ Len(t) \in Nat
    BY <2>1
  <2> HIDE DEF t
  <2>3. down' \in Seq(Wire)
    BY <1>3, <2>1, <2>2 DEF t
  <2> QED  BY <1>1, <1>3, <2>3, DirtyKeeps DEF Clean
<1>4. CASE link # "up" /\ UNCHANGED <<down, damage>>
  BY <1>1, <1>4, DirtyKeeps DEF Clean
<1> QED
  BY <1>2, <1>3, <1>4 DEF main_login

(* The login response joins the stream.                                    *)
LEMMA RespondKeeps == ASSUME CInv, login_respond PROVE CInv'
<1> DEFINE w == OnWire(LoginResponseMsg)
           n == Len(down) + 1
<1>1. /\ UNCHANGED <<internalToExchange, link, damage, nextOrderId, confirms, issued, rival, older, route, msg, up>>
      /\ down' = Append(down, w) /\ loginAt = "respond"
  BY DEF login_respond, engineVars, mainVars
<1>2. w \in Wire /\ w.type # "NewOrderConfirm" /\ (Clean => w # Cut)
  BY DEF OnWire, Wire, Cut, LoginResponseMsg, Clean
<1> HIDE DEF w
<1>3. /\ down' \in Seq(Wire) /\ DOMAIN down' = DOMAIN down \cup {n} /\ down'[n] = w
      /\ \A k \in DOMAIN down : down'[k] = down[k]
  BY <1>1, <1>2 DEF CInv, Types
<1> HIDE DEF n
<1>4. AcksDown' = AcksDown /\ AcksToSend' = AcksToSend /\ Entered' = Entered /\ (Clean' <=> Clean)
  BY <1>1, <1>2, <1>3 DEF AcksDown, AcksToSend, Entered, Alone, Clean
<1>5. \A k \in AcksDown : down'[k] = down[k]
  BY <1>3 DEF AcksDown
<1>6. Types' /\ IssuedOnce' /\ Routed'
  BY <1>1, <1>3, <1>4 DEF CInv, Types, IssuedOnce, Routed
<1>7. StreamInOrder'
  BY <1>1, <1>2, <1>3, <1>4, <1>5 DEF CInv, StreamInOrder
<1>8. MapBehind'
  BY <1>1, <1>4, <1>5 DEF CInv, MapBehind
<1>9. AllArriving'
  BY <1>1, <1>4, <1>5 DEF CInv, AllArriving, Arriving, exchId
<1> QED
  BY <1>6, <1>7, <1>8, <1>9 DEF CInv

(* A request that issues no id, or whose order was not entered.            *)
LEMMA UnissuedKeeps ==
  ASSUME CInv, confirms = <<>>, UNCHANGED <<internalToExchange, msg, link, down, damage, issued, sessionVars>>,
         up' \in Seq(Requests), confirms' \in Seq(Confirms), AcksToSend' = {},
         nextOrderId' \in {nextOrderId, nextOrderId + 1}
  PROVE  CInv'
<1>1. AcksDown' = AcksDown /\ AcksToSend = {} /\ Entered' = Entered
  BY DEF AcksDown, AcksToSend, Entered, Alone, sessionVars
<1>2. Types' /\ Routed'
  BY DEF CInv, Types, Routed, sessionVars
<1>3. IssuedOnce'
  BY DEF CInv, Types, IssuedOnce
<1>4. StreamInOrder' /\ MapBehind'
  BY <1>1 DEF CInv, StreamInOrder, MapBehind, Clean
<1>5. AllArriving'
  BY <1>1 DEF CInv, AllArriving, Arriving, exchId
<1> QED
  BY <1>2, <1>3, <1>4, <1>5 DEF CInv

(* A new order is entered: its id is above every id issued before.         *)
LEMMA IssuedKeeps ==
  ASSUME NEW i \in Nat, NEW who \in Parties, who = "rival" => rival # "none",
         CInv, confirms = <<>>, UNCHANGED <<internalToExchange, msg, link, down, damage, sessionVars>>,
         up' \in Seq(Requests), confirms' \in Seq(Confirms), AcksToSend' = {1},
         confirms'[1].clientOrderId = i, confirms'[1].orderId = nextOrderId, confirms'[1].party = who,
         nextOrderId' = nextOrderId + 1, issued' = issued \cup {<<i, nextOrderId, who>>}
  PROVE  CInv'
<1>1. AcksDown' = AcksDown /\ AcksToSend = {} /\ Entered \subseteq Entered'
  BY EnteredKept DEF AcksDown, AcksToSend, sessionVars
<1>2. Types'
  BY DEF CInv, Types
<1>3. \A e \in issued' : e \in issued \/ (e[1] = i /\ e[2] = nextOrderId /\ e[3] = who)
  OBVIOUS
<1>4. IssuedOnce'
  <2>1. \A e \in issued' : e[2] \in 1 .. nextOrderId' - 1
    BY <1>3 DEF CInv, Types, IssuedOnce
  <2> QED  BY <2>1 DEF IssuedOnce
<1>5. Routed'
  BY <1>3 DEF CInv, Routed, sessionVars
<1>6. ASSUME Clean'
      PROVE  /\ \A k \in DOMAIN down : down[k] # Cut
             /\ \A k \in AcksDown : /\ <<down[k].clientOrderId, down[k].orderId>> \in Entered'
                                     /\ down[k].orderId < nextOrderId
             /\ \A j, k \in AcksDown : j < k => down[j].orderId < down[k].orderId
             /\ \A x \in DOMAIN internalToExchange :
                  /\ <<x, internalToExchange[x]>> \in Entered'
                  /\ internalToExchange[x] < nextOrderId
                  /\ \A k \in AcksDown : internalToExchange[x] < down[k].orderId
  BY <1>1, <1>6, EnteredBelow DEF CInv, StreamInOrder, MapBehind, Clean
<1>7. StreamInOrder'
  BY <1>1, <1>6 DEF StreamInOrder
<1>8. MapBehind'
  BY <1>1, <1>6 DEF MapBehind
<1>9. AllArriving'
  <2> SUFFICES ASSUME NEW e \in issued', e[3] = "client", link = "up", damage = "none" PROVE Arriving(e)'
    BY DEF AllArriving
  <2>1. CASE e \in issued
    <3>1. Arriving(e)
      BY <2>1 DEF CInv, AllArriving
    <3> QED  BY <3>1, <1>1 DEF Arriving, exchId
  <2>2. CASE e[1] = i /\ e[2] = nextOrderId /\ e[3] = who
    <3>1. confirms'[1].orderId >= e[2] /\ confirms'[1].clientOrderId = e[1] /\ confirms'[1].party = "client"
      BY <2>2 DEF CInv, Types
    <3> QED  BY <3>1 DEF Arriving
  <2> QED  BY <1>3, <2>1, <2>2
<1> QED
  BY <1>2, <1>4, <1>5, <1>7, <1>8, <1>9 DEF CInv

(* What a confirmation says of itself.                                     *)
LEMMA ConfirmFields ==
  ASSUME NEW t \in {"NewAck"} \cup OtherTypes, NEW x \in Nat, NEW i \in Nat, NEW p \in Parties \cup {"all"}
  PROVE  /\ OrderConfirm(t, x, i, p) \in Confirms /\ OrderConfirm(t, x, i, p).type = t
         /\ OrderConfirm(t, x, i, p).orderId = x /\ OrderConfirm(t, x, i, p).clientOrderId = i
         /\ OrderConfirm(t, x, i, p).party = p
BY DEF OrderConfirm, Confirms

(* The matching thread takes a request of the client.                      *)
LEMMA PopKeeps == ASSUME CInv, server_pop PROVE CInv'
<1> DEFINE r == Head(up)
           req == toOrderRequest(r)
<1>1. /\ confirms = <<>> /\ UNCHANGED <<internalToExchange, msg, link, down, damage, sessionVars>>
      /\ confirms' \in Answers(req)
      /\ req.requestType = "New" =>
           /\ nextOrderId' = nextOrderId + 1
           /\ issued' = IF confirms' = <<>> THEN issued
                         ELSE issued \cup {<<req.clientOrderId, nextOrderId, "client">>}
      /\ req.requestType # "New" => UNCHANGED <<nextOrderId, issued>>
  BY DEF server_pop, mainVars
<1>2. up' \in Seq(Requests) /\ r \in Requests
  BY TailFacts DEF server_pop, CInv, Types
<1>3. nextOrderId \in Nat
  BY DEF CInv, Types
<1>4. CASE \E i \in InternalIds : r = NewOrderRequestMsg(i)
  <2>1. PICK i \in InternalIds : r = NewOrderRequestMsg(i)
    BY <1>4
  <2>2. req = [requestType |-> "New", clientOrderId |-> i] /\ i \in Nat
    BY <2>1, ClientAssumption DEF toOrderRequest, NewOrderRequestMsg, ClientAssumption
  <2>3. req.requestType = "New" /\ req.clientOrderId = i
    BY <2>2
  <2> HIDE DEF req
  <2> DEFINE ack == OrderConfirm("NewAck", nextOrderId, i, "client")
             trade == OrderConfirm("Trade", nextOrderId, 0, "client")
  <2>4. confirms' \in {<<>>, <<ack>>, <<ack, trade>>}
    BY <1>1, <2>3 DEF Answers
  <2>5. /\ ack \in Confirms /\ ack.type = "NewAck" /\ ack.orderId = nextOrderId /\ ack.clientOrderId = i
        /\ ack.party = "client" /\ trade \in Confirms /\ trade.type = "Trade"
    BY <2>2, <1>3, ConfirmFields DEF OtherTypes, Parties
  <2> HIDE DEF ack, trade
  <2>6. CASE confirms' = <<>>
    <3>1. AcksToSend' = {} /\ confirms' \in Seq(Confirms)
      BY <2>6 DEF AcksToSend
    <3> QED  BY <1>1, <1>2, <2>3, <2>6, <3>1, UnissuedKeeps
  <2>7. CASE confirms' = <<ack>> \/ confirms' = <<ack, trade>>
    <3>1. AcksToSend' = {1} /\ confirms' \in Seq(Confirms) /\ confirms'[1] = ack /\ confirms' # <<>>
      <4>1. CASE confirms' = <<ack>>
        <5>1. DOMAIN confirms' = {1} /\ confirms'[1] = ack
          BY <4>1
        <5> QED  BY <2>5, <4>1, <5>1 DEF AcksToSend
      <4>2. CASE confirms' = <<ack, trade>>
        <5>1. DOMAIN confirms' = {1, 2} /\ confirms'[1] = ack /\ confirms'[2] = trade
          BY <4>2
        <5> QED  BY <2>5, <4>2, <5>1 DEF AcksToSend
      <4> QED  BY <2>7, <4>1, <4>2
    <3>2. issued' = issued \cup {<<i, nextOrderId, "client">>} /\ nextOrderId' = nextOrderId + 1
      BY <1>1, <2>3, <3>1
    <3> QED  BY <1>1, <1>2, <2>2, <2>5, <3>1, <3>2, IssuedKeeps DEF Parties
  <2> QED  BY <2>4, <2>6, <2>7
<1>5. CASE \E x \in Nat : r = ModifyOrderRequestMsg(x) \/ r = CancelOrderRequestMsg(x)
  <2>1. PICK x \in Nat : r = ModifyOrderRequestMsg(x) \/ r = CancelOrderRequestMsg(x)
    BY <1>5
  <2>2. \/ req = [requestType |-> "Modify", orderId |-> x]
        \/ req = [requestType |-> "Cancel", orderId |-> x]
    BY <2>1 DEF toOrderRequest, ModifyOrderRequestMsg, CancelOrderRequestMsg
  <2>3. req.requestType \in {"Modify", "Cancel"} /\ req.orderId = x
    BY <2>2
  <2> HIDE DEF req
  <2>4. PICK t \in {"ModifyAck", "CancelAck"} : confirms' \in {<<>>, <<OrderConfirm(t, x, 0, "client")>>}
    BY <1>1, <2>3 DEF Answers
  <2> DEFINE c == OrderConfirm(t, x, 0, "client")
  <2>5. c \in Confirms /\ c.type # "NewAck"
    BY ConfirmFields DEF OtherTypes, Parties
  <2> HIDE DEF c
  <2>6. AcksToSend' = {} /\ confirms' \in Seq(Confirms)
    <3>1. CASE confirms' = <<>>
      BY <3>1 DEF AcksToSend
    <3>2. CASE confirms' = <<c>>
      <4>1. DOMAIN confirms' = {1} /\ confirms'[1] = c
        BY <3>2
      <4> QED  BY <2>5, <3>2, <4>1 DEF AcksToSend
    <3> QED  BY <2>4, <3>1, <3>2 DEF c
  <2> QED  BY <1>1, <1>2, <2>3, <2>6, UnissuedKeeps
<1> QED
  BY <1>2, <1>4, <1>5 DEF Requests

(* Another trader's order.                                                 *)
LEMMA OtherKeeps == ASSUME CInv, server_other PROVE CInv'
<1> DEFINE c == OrderConfirm("MarketUpdate", nextOrderId, 0, "all")
<1>1. /\ confirms = <<>> /\ UNCHANGED <<internalToExchange, msg, link, up, down, damage, issued, sessionVars>>
      /\ nextOrderId' = nextOrderId + 1 /\ confirms' \in {<<>>, <<c>>}
  BY DEF server_other, mainVars
<1>2. c \in Confirms /\ c.type # "NewAck"
  BY ConfirmFields DEF OtherTypes, CInv, Types
<1> HIDE DEF c
<1>3. AcksToSend' = {} /\ confirms' \in Seq(Confirms)
  <2>1. CASE confirms' = <<>>
    BY <2>1 DEF AcksToSend
  <2>2. CASE confirms' = <<c>>
    <3>1. DOMAIN confirms' = {1} /\ confirms'[1] = c
      BY <2>2
    <3> QED  BY <1>2, <2>2, <3>1 DEF AcksToSend
  <2> QED  BY <1>1, <2>1, <2>2
<1>4. up' \in Seq(Requests)
  BY <1>1 DEF CInv, Types
<1> QED
  BY <1>1, <1>3, <1>4, UnissuedKeeps

(* An order of the rival's.                                                *)
LEMMA RivalKeeps == ASSUME CInv, NEW i \in InternalIds, server_rival(i) PROVE CInv'
<1> DEFINE c == OrderConfirm("NewAck", nextOrderId, i, "rival")
<1>1. /\ confirms = <<>> /\ UNCHANGED <<internalToExchange, msg, link, up, down, damage, sessionVars>>
      /\ nextOrderId' = nextOrderId + 1 /\ confirms' = <<c>> /\ rival # "none"
      /\ issued' = issued \cup {<<i, nextOrderId, "rival">>}
  BY DEF server_rival, mainVars
<1>2. i \in Nat /\ "rival" \in Parties /\ nextOrderId \in Nat /\ up' \in Seq(Requests)
  BY <1>1, ClientAssumption DEF ClientAssumption, Parties, CInv, Types
<1>3. /\ c \in Confirms /\ c.type = "NewAck" /\ c.orderId = nextOrderId /\ c.clientOrderId = i
      /\ c.party = "rival"
  BY <1>2, ConfirmFields
<1> HIDE DEF c
<1>4. DOMAIN confirms' = {1} /\ confirms'[1] = c
  BY <1>1
<1>5. AcksToSend' = {1} /\ confirms' \in Seq(Confirms)
  BY <1>1, <1>3, <1>4 DEF AcksToSend
<1> QED
  BY <1>1, <1>2, <1>3, <1>4, <1>5, IssuedKeeps

(* A confirmation is sent, cut short or lost: nothing but the first of     *)
(* those to send is an acknowledgement, and it joins the stream behind all *)
(* that were sent before.                                                  *)
LEMMA SendKeeps == ASSUME CInv, server_send PROVE CInv'
<1> DEFINE c == confirms[1]
           n == Len(down) + 1
<1>1. /\ confirms # <<>> /\ confirms' = Tail(confirms) /\ UNCHANGED <<internalToExchange, msg, link, up>>
      /\ UNCHANGED <<nextOrderId, issued, rival, older, loginAt, route, Entered>>
  BY DEF server_send, mainVars, sessionVars, Entered, Alone
<1>2. /\ confirms' \in Seq(Confirms) /\ Head(confirms) = c /\ c \in Confirms /\ 1 \in DOMAIN confirms
      /\ \A k \in DOMAIN confirms' : k \in Nat /\ k + 1 \in DOMAIN confirms /\ confirms'[k] = confirms[k + 1]
  BY <1>1, TailFacts DEF CInv, Types
<1>3. \A k \in DOMAIN confirms' : k # 0
  BY <1>2
<1>4. AcksToSend' = {}
  <2>1. \A k \in AcksToSend' : k \in Nat /\ k # 0 /\ k + 1 \in AcksToSend
    BY <1>2, <1>3 DEF AcksToSend
  <2>2. \A k \in AcksToSend : k = 1
    BY DEF CInv, IssuedOnce
  <2> QED  BY <2>1, <2>2
<1>5. down \in Seq(Wire) /\ n \in Nat
  BY DEF CInv, Types
<1>6. IssuedOnce' /\ Routed'
  BY <1>1, <1>4 DEF CInv, IssuedOnce, Routed
<1>7. CASE ToClient(c) /\ damage # "cut" /\ down' = Append(down, toConfirmMsg(c)) /\ UNCHANGED damage
  <2> DEFINE w == toConfirmMsg(c)
             ack == c.type = "NewAck"
  <2>1. /\ w \in Wire /\ w # Cut /\ (w.type = "NewOrderConfirm" <=> ack)
        /\ ack => w.clientOrderId = c.clientOrderId /\ w.orderId = c.orderId
    BY <1>2, ConfirmMsgFacts
  <2> HIDE DEF w
  <2>2. /\ down' \in Seq(Wire) /\ n \notin DOMAIN down /\ DOMAIN down' = DOMAIN down \cup {n} /\ down'[n] = w
        /\ \A k \in DOMAIN down : k \in Nat /\ k < n /\ down'[k] = down[k]
    BY <1>5, <1>7, <2>1 DEF w
  <2> HIDE DEF n
  <2>3. AcksDown' = AcksDown \cup (IF ack THEN {n} ELSE {})
    BY <2>1, <2>2 DEF AcksDown
  <2>4. ack => 1 \in AcksToSend
    BY <1>2 DEF AcksToSend
  <2>5. \A k \in AcksDown : k \in Nat /\ k < n /\ down'[k] = down[k]
    BY <2>2 DEF AcksDown
  <2>6. ack => <<c.clientOrderId, c.orderId>> \in Entered
    <3> SUFFICES ASSUME ack PROVE <<c.clientOrderId, c.orderId>> \in Entered
      OBVIOUS
    <3> DEFINE e == <<c.clientOrderId, c.orderId, c.party>>
    <3>1. c.party \in Parties /\ e \in issued /\ e[3] = c.party
      BY <2>4 DEF CInv, IssuedOnce
    <3>2. c.clientOrderId \in Nat /\ c.orderId \in Nat
      BY <1>2 DEF Confirms
    <3>3. ASSUME Alone PROVE c.party = "client"
      <4>1. c.party # "before"
        BY <3>1, <3>3 DEF Alone
      <4>2. c.party # "rival"
        BY <1>7, <3>1, <3>3 DEF ToClient, Alone, CInv, Routed
      <4> QED  BY <3>1, <4>1, <4>2 DEF Parties
    <3> HIDE DEF c
    <3> QED  BY <3>1, <3>2, <3>3 DEF Entered
  <2> HIDE DEF c, ack
  <2>7. Types'
    BY <1>1, <1>2, <2>2 DEF CInv, Types
  <2>8. StreamInOrder'
    <3> SUFFICES ASSUME Clean'
                 PROVE  /\ \A k \in DOMAIN down' : down'[k] # Cut
                        /\ \A k \in AcksDown' : <<down'[k].clientOrderId, down'[k].orderId>> \in Entered
                        /\ \A j, k \in AcksDown' : j < k => down'[j].orderId < down'[k].orderId
      BY <1>1, <1>4 DEF StreamInOrder
    <3>1. Clean
      BY <1>1, <1>7 DEF Clean
    <3>2. \A k \in DOMAIN down' : down'[k] # Cut
      BY <3>1, <2>1, <2>2 DEF CInv, StreamInOrder
    <3>3. \A k \in AcksDown' : <<down'[k].clientOrderId, down'[k].orderId>> \in Entered
      BY <3>1, <2>1, <2>2, <2>3, <2>5, <2>6 DEF CInv, StreamInOrder
    <3>4. ASSUME NEW j \in AcksDown', NEW k \in AcksDown', j < k
          PROVE  down'[j].orderId < down'[k].orderId
      <4>1. CASE j \in AcksDown /\ k \in AcksDown
        BY <4>1, <3>1, <3>4, <2>5 DEF CInv, StreamInOrder
      <4>2. CASE j \in AcksDown /\ ack /\ k = n
        BY <4>2, <3>1, <2>1, <2>2, <2>4, <2>5 DEF CInv, StreamInOrder, c
      <4>3. CASE j = n
        BY <4>3, <3>4, <2>3, <2>5, <1>5 DEF n
      <4> QED  BY <4>1, <4>2, <4>3, <2>3
    <3> QED  BY <3>2, <3>3, <3>4
  <2>9. MapBehind'
    <3> SUFFICES ASSUME Clean', NEW i \in DOMAIN internalToExchange
                 PROVE  /\ <<i, internalToExchange[i]>> \in Entered
                        /\ \A k \in AcksDown' : internalToExchange[i] < down'[k].orderId
      BY <1>1, <1>4 DEF MapBehind
    <3>1. Clean
      BY <1>1, <1>7 DEF Clean
    <3>2. <<i, internalToExchange[i]>> \in Entered
      BY <3>1 DEF CInv, MapBehind
    <3>3. \A k \in AcksDown : internalToExchange[i] < down'[k].orderId
      BY <3>1, <2>5 DEF CInv, MapBehind
    <3>4. ack => internalToExchange[i] < down'[n].orderId
      BY <3>1, <2>1, <2>2, <2>4 DEF CInv, MapBehind, c
    <3> QED  BY <3>2, <3>3, <3>4, <2>3
  <2>10. AllArriving'
    <3> SUFFICES ASSUME NEW e \in issued, e[3] = "client", link = "up", damage = "none" PROVE Arriving(e)'
      BY <1>1, <1>7 DEF AllArriving
    <3>1. Arriving(e)
      BY DEF CInv, AllArriving
    <3>2. CASE exchId(e[1]) >= e[2]
      BY <3>2, <1>1 DEF Arriving, exchId
    <3>3. CASE \E k \in AcksDown : down[k].clientOrderId = e[1] /\ down[k].orderId >= e[2]
      BY <3>3, <2>3, <2>5 DEF Arriving
    <3>4. CASE \E k \in AcksToSend :
                confirms[k].party = "client" /\ confirms[k].clientOrderId = e[1] /\ confirms[k].orderId >= e[2]
      <4>1. 1 \in AcksToSend /\ c.clientOrderId = e[1] /\ c.orderId >= e[2]
        BY <3>4 DEF CInv, IssuedOnce, c
      <4>2. ack
        BY <4>1 DEF AcksToSend, ack, c
      <4>3. n \in AcksDown' /\ down'[n].clientOrderId = e[1] /\ down'[n].orderId >= e[2]
        BY <4>1, <4>2, <2>1, <2>2, <2>3
      <4> QED  BY <4>3 DEF Arriving
    <3> QED  BY <3>1, <3>2, <3>3, <3>4 DEF Arriving
  <2> QED  BY <1>6, <2>7, <2>8, <2>9, <2>10 DEF CInv
<1>8. CASE down' = Append(down, Cut) /\ damage' = "cut"
  <2>1. Cut \in Wire
    BY DEF Wire
  <2>2. Types'
    BY <1>1, <1>2, <1>5, <1>8, <2>1 DEF CInv, Types
  <2> QED  BY <1>6, <1>8, <2>2 DEF CInv, StreamInOrder, MapBehind, AllArriving, Clean
<1>9. CASE UNCHANGED down /\ damage' = (IF damage = "none" /\ c.party = "client" THEN "lost" ELSE damage)
  <2>1. (Clean' => Clean) /\ AcksDown' = AcksDown /\ (damage' = "none" => damage = "none" /\ c.party # "client")
    BY <1>1, <1>9 DEF Clean, AcksDown
  <2>2. Types'
    BY <1>1, <1>2, <1>9 DEF CInv, Types
  <2>3. StreamInOrder' /\ MapBehind'
    BY <1>1, <1>4, <1>9, <2>1 DEF CInv, StreamInOrder, MapBehind
  <2>4. AllArriving'
    <3> SUFFICES ASSUME NEW e \in issued, e[3] = "client", link = "up", damage' = "none" PROVE Arriving(e)'
      BY <1>1 DEF AllArriving
    <3>1. Arriving(e)
      BY <2>1 DEF CInv, AllArriving
    <3>2. \A k \in AcksToSend : confirms[k].party # "client"
      BY <2>1 DEF CInv, IssuedOnce
    <3> QED  BY <3>1, <3>2, <1>1, <1>9, <2>1 DEF Arriving, exchId
  <2> QED  BY <1>6, <2>2, <2>3, <2>4 DEF CInv
<1>10. \/ ToClient(c) /\ down' = Append(down, OnWire(toConfirmMsg(c))) /\ UNCHANGED damage
       \/ down' = Append(down, Cut) /\ damage' = "cut"
       \/ UNCHANGED down /\ damage' = (IF damage = "none" /\ c.party = "client" THEN "lost" ELSE damage)
  BY <1>2 DEF server_send
<1> QED
  BY <1>7, <1>8, <1>9, <1>10 DEF OnWire

-----------------------------------------------------------------------------
(* The results.                                                            *)

(* The invariant holds in every behaviour of the client and its server.    *)
LEMMA Invariance == ClientSpec => []CInv
<1>1. ASSUME CInv, [ClientNext]_clientVars PROVE CInv'
  <2>1. CASE main_connect \/ Terminal \/ MainThread \/ signalHandler \/ recv_test
    BY <1>1, <2>1, MainKeeps
  <2>2. CASE recv_msg
    BY <1>1, <2>2, RecvMsgKeeps
  <2>3. CASE recv_end
    BY <1>1, <2>3, RecvEndKeeps
  <2>4. CASE server_pop
    BY <1>1, <2>4, PopKeeps
  <2>5. CASE server_other
    BY <1>1, <2>5, OtherKeeps
  <2>6. CASE server_send
    BY <1>1, <2>6, SendKeeps
  <2>7. CASE \E i \in InternalIds : server_rival(i)
    BY <1>1, <2>7, RivalKeeps
  <2>8. CASE main_login
    BY <1>1, <2>8, LoginKeeps
  <2>9. CASE login_respond
    BY <1>1, <2>9, RespondKeeps
  <2>10. CASE login_add \/ rival_login \/ rival_leave \/ server_close
    BY <1>1, <2>10, SessionKeeps
  <2>11. CASE UNCHANGED clientVars
    <3>1. UNCHANGED <<internalToExchange, down, engineVars, damage, sessionVars, link, msg, up>>
      BY <2>11 DEF clientVars, mainVars, serverVars
    <3>2. msg' \subseteq Requests /\ up' \in Seq(Requests) /\ Routed' /\ (~older' => ~older)
      BY <1>1, <3>1 DEF CInv, Types, Routed, engineVars, sessionVars
    <3> QED  BY <1>1, <3>1, <3>2, QuietKeeps
  <2> QED  BY <1>1, <2>1, <2>2, <2>3, <2>4, <2>5, <2>6, <2>7, <2>8, <2>9, <2>10, <2>11 DEF ClientNext, RecvThread
<1> QED
  BY <1>1, InitCInv, PTL DEF ClientSpec

(* As long as a request can still reach the server and no message was cut, *)
(* an internal id resolves only to an id the exchange issued for an order  *)
(* entered under it; and to an order of this client, unless a session of   *)
(* its trader was registered before it or a confirmation was under way to  *)
(* its descriptor when it got it, also when a session comes and goes after *)
(* it (client/src/main.cpp:136-137, 319-326; session_manager.hpp:22,       *)
(* thread_matching.cpp:89).                                                *)
THEOREM MapStaysOwned == ClientSpec => []MapOwned
<1>1. CInv => MapOwned
  BY DEF CInv, MapBehind, MapOwned, Clean, Entered, Alone
<1> QED
  BY <1>1, Invariance, PTL

(* When everything has arrived and nothing of the client's was lost or     *)
(* sent to the rival, every order it entered can be resolved, an internal  *)
(* id used twice to the later order or a later one of the rival's          *)
(* (client/src/main.cpp:136-137).                                          *)
THEOREM MapBecomesCurrent == ClientSpec => []MapCurrent
<1>1. CInv => MapCurrent
  <2> SUFFICES ASSUME CInv, damage = "none", link = "up", confirms = <<>>, down = <<>>, NEW e \in issued, e[3] = "client"
               PROVE  exchId(e[1]) >= e[2]
    BY DEF MapCurrent
  <2>1. AcksDown = {} /\ AcksToSend = {}
    BY DEF AcksDown, AcksToSend
  <2> QED  BY <2>1 DEF CInv, AllArriving, Arriving
<1> QED
  BY <1>1, Invariance, PTL

=============================================================================
