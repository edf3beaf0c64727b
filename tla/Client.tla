------------------------------- MODULE Client -------------------------------
(***************************************************************************)
(* The interactive client (client/src/main.cpp) and the server it talks    *)
(* to.  Its main thread reads lines from the terminal and sends requests;  *)
(* its receive thread prints what the server sends and enters the exchange *)
(* id of every confirmed order into internalToExchange, by which the main  *)
(* thread resolves the ids of later modifies and cancels.                  *)
(*                                                                         *)
(* The matching thread takes a request, issues an id when it is a new      *)
(* order, and sends the confirmations one by one (thread_matching.cpp:     *)
(* 20-119).  What it confirms is chosen freely here, MatchingEngine.tla    *)
(* has the rules.  A confirmation goes to the descriptor that traderToFd   *)
(* has for its trader, which is the session that logged in last and not    *)
(* the one the request came from: the rival is another session of the      *)
(* client's trader.  Requests of other traders come in between.  The send  *)
(* is not checked: a message may go out as a whole, be lost, or be cut     *)
(* short, after which the client reads its stream out of step.             *)
(*                                                                         *)
(* A behaviour starts when accept has given the client a descriptor.  The  *)
(* matching thread may then hold that number from a lookup it made for the *)
(* connection that had it before (Delivery.tla), and sends to the client   *)
(* what was meant for that one.                                            *)
(*                                                                         *)
(* Of the wire structs (net/include/protocol.hpp) the types and the ids    *)
(* are kept; the other fields are copied from one struct to the next.      *)
(***************************************************************************)
EXTENDS Integers, Sequences

CONSTANTS
  InternalIds,  \* the ids the user gives to orders
  MaxOrders,    \* bound: new orders in a behaviour, those of others included
  MaxInFlight   \* bound: messages on their way in one direction

ASSUME ClientAssumption ==
  InternalIds \subseteq Nat /\ MaxOrders \in Nat /\ MaxInFlight \in Nat \ {0}

VARIABLES
  gRunning,
  internalToExchange,
  mainAt,      \* "connect", "login", "test", "getline", "send", "shutdown", "join" or "exited"
  msg,         \* {the request about to be sent}
  recvAt,      \* "none", "test", "recv" or "done"
  link,        \* "up", "closed" by the server, or "shut" by the client
  up, down,    \* messages on their way
  nextOrderId,
  confirms,    \* confirmations that are yet to be sent, to the client or the rival
  damage,      \* what became of the client's: "none", "lost" or "cut"
  loginAt,     \* where the client's login thread is: "respond", "add" or "done"
  route,       \* whose descriptor traderToFd has for the trader: "client", "rival" or "none"
  rival,       \* the rival session: "none" yet, "on" or "left"
  older,       \* history: the rival was there before the client was registered
  issued       \* history: <<internal id, exchange id, who entered it>> of each order

mainVars    == <<mainAt, msg>>
sessionVars == <<loginAt, route, rival, older>>
engineVars  == <<nextOrderId, confirms, issued>>
serverVars  == <<engineVars, damage, sessionVars>>
clientVars  == <<gRunning, internalToExchange, mainVars, recvAt, link, up, down, serverVars>>

(* Who entered an order: the client, the rival, or the connection that had *)
(* the client's descriptor before.                                         *)
Parties == {"client", "rival", "before"}

(* An id that nobody was given.                                            *)
StrayId == MaxOrders + 1
Put(m, k, v) == [x \in DOMAIN m \cup {k} |-> IF x = k THEN v ELSE m[x]]

-----------------------------------------------------------------------------
(* The wire.                                                               *)

NewOrderRequestMsg(i)    == [type |-> "NewOrderRequest", clientOrderId |-> i]
ModifyOrderRequestMsg(x) == [type |-> "ModifyOrderRequest", orderId |-> x]
CancelOrderRequestMsg(x) == [type |-> "CancelOrderRequest", orderId |-> x]

(* The request the engine sees; the trader comes from the session.         *)
toOrderRequest(m) ==
  CASE m.type = "NewOrderRequest"    -> [requestType |-> "New", clientOrderId |-> m.clientOrderId]
    [] m.type = "ModifyOrderRequest" -> [requestType |-> "Modify", orderId |-> m.orderId]
    [] m.type = "CancelOrderRequest" -> [requestType |-> "Cancel", orderId |-> m.orderId]

(* An OrderConfirm of the engine; clientOrderId is 0 but for a NewAck.     *)
(* Instead of the trader it has the party whose order it is about, "all"   *)
(* for a market update.                                                    *)
OrderConfirm(type, id, clientOrderId, party) ==
  [type |-> type, orderId |-> id, clientOrderId |-> clientOrderId, party |-> party]

(* A NewAck carries both ids; the others the exchange id alone.            *)
toConfirmMsg(c) ==
  IF c.type = "NewAck"
  THEN [type |-> "NewOrderConfirm", clientOrderId |-> c.clientOrderId, orderId |-> c.orderId]
  ELSE [type |-> c.type, orderId |-> c.orderId]

LoginResponseMsg == [type |-> "LoginResponse"]

(* Bytes that are not read from the beginning of a message: the rest of    *)
(* one that was cut short, and all that follows it on the stream.          *)
Cut == [type |-> "Cut"]
OnWire(m) == IF damage = "cut" THEN Cut ELSE m

(* The matching thread is between two messages, or about to send one to    *)
(* the descriptor that the client has got in the meantime.                 *)
NothingUnderWay == nextOrderId = 1 /\ confirms = <<>> /\ issued = {}
StaleLookup(i) ==
  /\ nextOrderId = 2
  /\ confirms = <<OrderConfirm("NewAck", 1, i, "before")>>
  /\ issued = {<<i, 1, "before">>}

ClientInit ==
  /\ gRunning = TRUE /\ internalToExchange = [i \in {} |-> 0]
  /\ mainAt = "connect" /\ msg = {} /\ recvAt = "none"
  /\ link = "up" /\ up = <<>> /\ down = <<>> /\ damage = "none"
  /\ loginAt = "respond"
  /\ \/ rival = "none" /\ route = "none" /\ older = FALSE
     \/ rival = "on" /\ route = "rival" /\ older = TRUE
  /\ NothingUnderWay \/ \E i \in InternalIds : StaleLookup(i)

-----------------------------------------------------------------------------
(* The main thread.                                                        *)

main_connect ==
  /\ mainAt = "connect"
  /\ mainAt' \in {"login", "exited"}
  /\ UNCHANGED <<gRunning, internalToExchange, msg, recvAt, link, up, down, serverVars>>

(* The first bytes that come are taken for the login response.  If they    *)
(* are, the receive thread starts.  If not, the field accepted may have    *)
(* any value, and the stream is out of step from here on.  Without a       *)
(* connection: return 1.                                                   *)
main_login ==
  /\ mainAt = "login"
  /\ \/ /\ down # <<>> /\ Head(down) = LoginResponseMsg
        /\ down' = Tail(down) /\ UNCHANGED damage
        /\ mainAt' = "test" /\ recvAt' = "test"
     \/ /\ down # <<>> /\ Head(down) # LoginResponseMsg
        /\ down' = [k \in DOMAIN Tail(down) |-> Cut] /\ damage' = "cut"
        /\ \/ mainAt' = "test" /\ recvAt' = "test"
           \/ mainAt' = "exited" /\ UNCHANGED recvAt
     \/ /\ link # "up" /\ mainAt' = "exited"
        /\ UNCHANGED <<recvAt, down, damage>>
  /\ UNCHANGED <<gRunning, internalToExchange, msg, link, up, engineVars, sessionVars>>

main_test ==
  /\ mainAt = "test"
  /\ mainAt' = IF gRunning THEN "getline" ELSE "shutdown"
  /\ UNCHANGED <<gRunning, internalToExchange, msg, recvAt, link, up, down, serverVars>>

getline_new(i) ==
  /\ mainAt = "getline" /\ nextOrderId <= MaxOrders
  /\ msg' = {NewOrderRequestMsg(i)}
  /\ mainAt' = "send"
  /\ UNCHANGED <<gRunning, internalToExchange, recvAt, link, up, down, serverVars>>

(* The exchange id of an internal id, 0 when there is none.                *)
exchId(i) == IF i \in DOMAIN internalToExchange THEN internalToExchange[i] ELSE 0

getline_cancel(i) ==
  /\ mainAt = "getline" /\ exchId(i) # 0
  /\ msg' = {CancelOrderRequestMsg(exchId(i))}
  /\ mainAt' = "send"
  /\ UNCHANGED <<gRunning, internalToExchange, recvAt, link, up, down, serverVars>>

getline_modify(i) ==
  /\ mainAt = "getline" /\ exchId(i) # 0
  /\ msg' = {ModifyOrderRequestMsg(exchId(i))}
  /\ mainAt' = "send"
  /\ UNCHANGED <<gRunning, internalToExchange, recvAt, link, up, down, serverVars>>

(* A comment, a line that makes no sense, or an id that is not in the map. *)
getline_ignored ==
  /\ mainAt = "getline"
  /\ mainAt' = "test"
  /\ UNCHANGED <<gRunning, internalToExchange, msg, recvAt, link, up, down, serverVars>>

(* quit clears gRunning; the end of the input does not.                    *)
getline_end(quit) ==
  /\ mainAt = "getline"
  /\ gRunning' = (gRunning /\ ~quit)
  /\ mainAt' = "shutdown"
  /\ UNCHANGED <<internalToExchange, msg, recvAt, link, up, down, serverVars>>

(* send blocks while there is no room; on a closed connection it may still *)
(* succeed, to no effect.                                                  *)
main_send ==
  /\ mainAt = "send"
  /\ \/ /\ link = "up" /\ Len(up) < MaxInFlight
        /\ \E m \in msg : up' = Append(up, m)
        /\ mainAt' = "test" /\ UNCHANGED gRunning
     \/ /\ link # "up"
        /\ \/ mainAt' = "test" /\ UNCHANGED gRunning
           \/ mainAt' = "shutdown" /\ gRunning' = FALSE
        /\ UNCHANGED up
  /\ msg' = {}
  /\ UNCHANGED <<internalToExchange, recvAt, link, down, serverVars>>

main_shutdown_Missing ==
  /\ mainAt = "shutdown"
  /\ mainAt' = "join"
  /\ UNCHANGED <<gRunning, internalToExchange, msg, recvAt, link, up, down, serverVars>>

main_shutdown ==
  /\ mainAt = "shutdown"
  /\ link' = IF link = "up" THEN "shut" ELSE link
  /\ mainAt' = "join"
  /\ UNCHANGED <<gRunning, internalToExchange, msg, recvAt, up, down, serverVars>>

main_join ==
  /\ mainAt = "join" /\ recvAt = "done"
  /\ mainAt' = "exited"
  /\ UNCHANGED <<gRunning, internalToExchange, msg, recvAt, link, up, down, serverVars>>

signalHandler ==
  /\ gRunning
  /\ gRunning' = FALSE
  /\ UNCHANGED <<internalToExchange, mainVars, recvAt, link, up, down, serverVars>>

-----------------------------------------------------------------------------
(* The receive thread.                                                     *)

recv_test ==
  /\ recvAt = "test"
  /\ recvAt' = IF gRunning THEN "recv" ELSE "done"
  /\ UNCHANGED <<gRunning, internalToExchange, mainVars, link, up, down, serverVars>>

Enter_FirstOnly(m) ==
  internalToExchange' = IF m.type = "NewOrderConfirm" /\ m.clientOrderId \notin DOMAIN internalToExchange
                        THEN Put(internalToExchange, m.clientOrderId, m.orderId) ELSE internalToExchange

Enter(m) ==
  internalToExchange' = IF m.type = "NewOrderConfirm"
                        THEN Put(internalToExchange, m.clientOrderId, m.orderId) ELSE internalToExchange

(* What bytes that are no NewOrderConfirm would say: some id or other.     *)
EnterAnything ==
  \/ UNCHANGED internalToExchange
  \/ \E i \in InternalIds : internalToExchange' = Put(internalToExchange, i, StrayId)

recv_msg ==
  /\ recvAt = "recv" /\ down # <<>>
  /\ IF Head(down) = Cut THEN EnterAnything ELSE Enter(Head(down))
  /\ down' = Tail(down)
  /\ recvAt' = "test"
  /\ UNCHANGED <<gRunning, mainVars, link, up, serverVars>>

(* The connection ends between two messages, or in the body of one: then   *)
(* the body is used as if it were complete.                                *)
recv_end ==
  /\ recvAt = "recv" /\ link # "up"
  /\ \/ down = <<>> /\ recvAt' = "done" /\ UNCHANGED <<internalToExchange, down>>
     \/ /\ down # <<>> /\ down' = <<>>
        /\ EnterAnything /\ recvAt' = "test"
  /\ gRunning' = FALSE
  /\ UNCHANGED <<mainVars, link, up, serverVars>>

-----------------------------------------------------------------------------
(* The server.                                                             *)

(* The login thread answers, and then SessionManager::add registers the    *)
(* session and points the trader's route to it.                            *)
login_respond ==
  /\ loginAt = "respond" /\ link = "up" /\ Len(down) < MaxInFlight
  /\ down' = Append(down, OnWire(LoginResponseMsg))
  /\ loginAt' = "add"
  /\ UNCHANGED <<gRunning, internalToExchange, mainVars, recvAt, link, up, engineVars, damage, route, rival, older>>

login_add ==
  /\ loginAt = "add" /\ loginAt' = "done"
  /\ route' = "client"
  /\ UNCHANGED <<gRunning, internalToExchange, mainVars, recvAt, link, up, down, engineVars, damage, rival, older>>

rival_login_KeepRoute ==
  /\ rival = "none" /\ rival' = "on"
  /\ route' = IF route = "none" THEN "rival" ELSE route
  /\ older' = (loginAt # "done")
  /\ UNCHANGED <<gRunning, internalToExchange, mainVars, recvAt, link, up, down, engineVars, damage, loginAt>>

(* The rival logs in, with the same add, and leaves, with a remove that    *)
(* erases the trader's route, whichever session it leads to.               *)
rival_login ==
  /\ rival = "none" /\ rival' = "on"
  /\ route' = "rival"
  /\ older' = (loginAt # "done")
  /\ UNCHANGED <<gRunning, internalToExchange, mainVars, recvAt, link, up, down, engineVars, damage, loginAt>>

rival_leave ==
  /\ rival = "on" /\ rival' = "left"
  /\ route' = "none"
  /\ UNCHANGED <<gRunning, internalToExchange, mainVars, recvAt, link, up, down, engineVars, damage, loginAt, older>>

(* What the engine may confirm for a request of the trader: nothing on an  *)
(* unlisted symbol; a new order, also with a trade at once; and for a      *)
(* modify or cancel an acknowledgement or Reject, which the client treats  *)
(* alike.                                                                  *)
Answers(req) ==
  CASE req.requestType = "New" ->
         LET ack == OrderConfirm("NewAck", nextOrderId, req.clientOrderId, "client")
         IN  {<<>>, <<ack>>, <<ack, OrderConfirm("Trade", nextOrderId, 0, "client")>>}
    [] req.requestType = "Modify" -> {<<>>, <<OrderConfirm("ModifyAck", req.orderId, 0, "client")>>}
    [] req.requestType = "Cancel" -> {<<>>, <<OrderConfirm("CancelAck", req.orderId, 0, "client")>>}

server_pop ==
  /\ confirms = <<>> /\ up # <<>> /\ loginAt = "done"
  /\ LET req == toOrderRequest(Head(up))
     IN  /\ confirms' \in Answers(req)
         /\ IF req.requestType = "New"
            THEN /\ nextOrderId <= MaxOrders
                 /\ nextOrderId' = nextOrderId + 1
                 /\ issued' = IF confirms' = <<>> THEN issued
                              ELSE issued \cup {<<req.clientOrderId, nextOrderId, "client">>}
            ELSE UNCHANGED <<nextOrderId, issued>>
  /\ up' = Tail(up)
  /\ UNCHANGED <<gRunning, internalToExchange, mainVars, recvAt, link, down, damage, sessionVars>>

(* A new order that the rival entered, maybe before it left: internal ids  *)
(* are each session's own.                                                 *)
server_rival(i) ==
  /\ confirms = <<>> /\ rival # "none" /\ nextOrderId <= MaxOrders
  /\ nextOrderId' = nextOrderId + 1
  /\ confirms' = <<OrderConfirm("NewAck", nextOrderId, i, "rival")>>
  /\ issued' = issued \cup {<<i, nextOrderId, "rival">>}
  /\ UNCHANGED <<gRunning, internalToExchange, mainVars, recvAt, link, up, down, damage, sessionVars>>

(* Another trader's new order: a market update, which goes to all sessions *)
(* and is only printed, as is a confirmation of a trade with the client.   *)
server_other ==
  /\ confirms = <<>> /\ nextOrderId <= MaxOrders
  /\ nextOrderId' = nextOrderId + 1
  /\ confirms' \in {<<>>, <<OrderConfirm("MarketUpdate", nextOrderId, 0, "all")>>}
  /\ UNCHANGED <<gRunning, internalToExchange, mainVars, recvAt, link, up, down, damage, issued, sessionVars>>

(* What getFd and getAllFds lead to: the client is sent what its trader's  *)
(* route brings, every market update once it has a session, and what was   *)
(* looked up before.                                                       *)
ToClient(c) ==
  \/ c.party = "before"
  \/ c.party = "all" /\ loginAt = "done"
  \/ c.party \in {"client", "rival"} /\ route = "client"

(* A confirmation goes out as a whole, in part, or not at all.             *)
server_send ==
  /\ confirms # <<>> /\ confirms' = Tail(confirms)
  /\ \/ /\ ToClient(Head(confirms)) /\ link = "up" /\ Len(down) < MaxInFlight
        /\ \/ down' = Append(down, OnWire(toConfirmMsg(Head(confirms)))) /\ UNCHANGED damage
           \/ down' = Append(down, Cut) /\ damage' = "cut"
     \/ /\ damage' = IF damage = "none" /\ Head(confirms).party = "client" THEN "lost" ELSE damage
        /\ UNCHANGED down
  /\ UNCHANGED <<gRunning, internalToExchange, mainVars, recvAt, link, up, nextOrderId, issued, sessionVars>>

(* The server ends the connection: requests on their way are lost, and     *)
(* with the session goes the trader's route.                               *)
server_close ==
  /\ link = "up" /\ loginAt # "add" /\ link' = "closed" /\ up' = <<>>
  /\ route' = IF loginAt = "done" THEN "none" ELSE route
  /\ UNCHANGED <<gRunning, internalToExchange, mainVars, recvAt, down, engineVars, damage, loginAt, rival, older>>

-----------------------------------------------------------------------------
Terminal ==
  \/ \E i \in InternalIds : getline_new(i) \/ getline_cancel(i) \/ getline_modify(i)
  \/ getline_ignored
  \/ \E quit \in BOOLEAN : getline_end(quit)

MainThread == main_test \/ main_send \/ main_shutdown \/ main_join
RecvThread == recv_test \/ recv_msg \/ recv_end

ClientNext ==
  \/ main_connect \/ main_login \/ Terminal \/ MainThread \/ signalHandler
  \/ RecvThread
  \/ login_respond \/ login_add \/ rival_login \/ rival_leave
  \/ server_pop \/ (\E i \in InternalIds : server_rival(i)) \/ server_other
  \/ server_send \/ server_close

ClientSpec == ClientInit /\ [][ClientNext]_clientVars

(* Both threads of the client run, and the matching thread of the server.  *)
(* The user need not type anything.                                        *)
ClientFairSpec ==
  /\ ClientSpec
  /\ WF_clientVars(MainThread) /\ WF_clientVars(RecvThread)
  /\ WF_clientVars(server_pop \/ server_send)

-----------------------------------------------------------------------------
(* Unless a message was cut, and as long as a request can still reach the  *)
(* server, an id the client resolves is one the exchange issued for an     *)
(* order that was entered under that internal id, and this client entered  *)
(* it, unless another session of its trader was registered before it or a  *)
(* confirmation was under way to its descriptor when it got it: a session  *)
(* is never sent the acknowledgements of one that logs in later            *)
(* (main.cpp:136-137, 319-326; session_manager.hpp:22, thread_matching.cpp *)
(* :89; protocol.hpp:164-171).                                             *)
MapOwned ==
  link = "up" /\ damage # "cut" =>
    \A i \in DOMAIN internalToExchange :
      /\ \E who \in Parties : <<i, internalToExchange[i], who>> \in issued
      /\ ~older /\ (\A e \in issued : e[3] # "before")
           => <<i, internalToExchange[i], "client">> \in issued

(* When nothing is on its way and none of the client's messages was lost   *)
(* or sent to the rival, every order it entered can be resolved, and an    *)
(* internal id used twice names the later order, or a later one still that *)
(* the rival entered under it.                                             *)
MapCurrent ==
  gRunning /\ damage = "none" /\ link = "up" /\ up = <<>> /\ confirms = <<>> /\ down = <<>> =>
    \A e \in issued : e[3] = "client" => exchId(e[1]) >= e[2]

(* Once the main thread has left its loop, on quit, at the end of the      *)
(* input, after a signal or a failed send, the client exits: the receive   *)
(* thread cannot stay blocked in recv (main.cpp:385-390).                  *)
Exits == mainAt = "shutdown" ~> mainAt = "exited"

=============================================================================
