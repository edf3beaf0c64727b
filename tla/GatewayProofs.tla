-------------------------- MODULE GatewayProofs ----------------------------
(***************************************************************************)
(* Proofs about the gateway, for any number of connections, traders and    *)
(* descriptors and any length of the queue: a session always stands for    *)
(* the connection that has its descriptor now, and requests reach the      *)
(* queue in order, once, and under the trader id of their own login.       *)
(***************************************************************************)
EXTENDS Gateway, SequenceTheorems, WellFoundedInduction, TLAPS

-----------------------------------------------------------------------------
(* The inductive invariant about descriptors and sessions.                 *)

(* The login handler has registered the session.                           *)
Registered == {"nonblock", "watch", "done", "unwatched"}

(* A connection has one descriptor, and none before accept nor after the   *)
(* login handler has dropped it.                                           *)
DescriptorsOwned ==
  /\ \A f, g \in Fds : owner[f] = owner[g] /\ owner[f] # None => f = g
  /\ \A f \in Fds : owner[f] # None => login[owner[f]] \notin {"none", "dropped"}

(* Past the recv of its login handler, the trader of a connection is known.*)
TradersKnown ==
  \A c \in Conns : login[c] \in Registered \cup {"respond", "add"} => trader[c] \in Traders

(* A session is that of a connection whose login handler registered it.    *)
SessionsRegistered ==
  \A f \in DOMAIN sessions : owner[f] \in Conns /\ login[owner[f]] \in Registered

(* The login handler of the connection on f has returned.                  *)
InUse(f) == f \in Fds /\ owner[f] \in Conns /\ login[owner[f]] = "done"

(* Epoll watches and reports descriptors of connections that are logged    *)
(* in, and the one being handled has left the list of events: closing it   *)
(* makes no event stale.                                                   *)
EventsCurrent ==
  /\ \A f \in watched \cup DOMAIN events : InUse(f)
  /\ epollAt \notin {"wait", "next"} => epollFd \notin DOMAIN events

(* What each place in the callbacks may rely on.                           *)
CallbackFacts ==
  /\ epollAt \in {"recv", "forget", "close"} => InUse(epollFd)
  /\ epollAt = "recv" => freed = <<>>
  /\ epollAt = "recv" \/ (epollAt = "frame" /\ freed = <<>>) => epollFd \in DOMAIN sessions
  /\ epollAt = "close" => epollFd \notin DOMAIN sessions

Message == Conns \X (1 .. MaxMsgs)
RawMessages == [traderId : Traders, data : Message \cup {Garbage}]

Shapes ==
  /\ freed = <<>> \/ \E s \in ClientSession : freed = <<s>>
  /\ queue \in Seq(RawMessages)

SInv ==
  /\ TypeOK /\ Shapes
  /\ DescriptorsOwned /\ TradersKnown /\ SessionsRegistered /\ EventsCurrent /\ CallbackFacts
  /\ SessionsCurrent

-----------------------------------------------------------------------------
(* The inductive invariant about requests.                                 *)

(* Before its session is registered, nothing was read from a connection.   *)
NothingReadBefore ==
  \A c \in Conns : login[c] \notin Registered => read[c] = 0 /\ From(c) = {}

(* The first m requests of c are in the queue, and buf goes on from there. *)
Continues(c, buf, m) ==
  /\ \A k \in DOMAIN buf : buf[k] = <<c, m + k>>
  /\ \A i \in From(c) : queue[i].data[2] <= m
  /\ \A n \in 1 .. m : \E i \in From(c) : queue[i].data[2] = n

BuffersContinue ==
  \A f \in DOMAIN sessions :
    /\ Len(sessions[f].recvBuffer) <= read[owner[f]]
    /\ Continues(owner[f], sessions[f].recvBuffer, read[owner[f]] - Len(sessions[f].recvBuffer))

(* So does the buffer of the erased session while it is intact, and its    *)
(* connection has no session any more.                                     *)
FreedContinues ==
  freed # <<>> =>
    \/ epollAt = "forget" /\ epollFd \in DOMAIN sessions /\ freed[1] = sessions[epollFd]
    \/ /\ epollAt \in {"close", "frame"}
       /\ \E c \in Conns :
            /\ login[c] = "done" /\ trader[c] = freed[1].traderId
            /\ \E m \in 0 .. MaxMsgs : Continues(c, freed[1].recvBuffer, m)
            /\ \A f \in DOMAIN sessions : owner[f] # c

RInv == NothingReadBefore /\ BuffersContinue /\ FreedContinues /\ RequestsInOrder

-----------------------------------------------------------------------------
(* Sessions and descriptors.                                               *)

(* A session with another buffer is still a session of the same trader.    *)
LEMMA Rebuffered ==
  ASSUME NEW s \in ClientSession, NEW b \in Seq(Message), NEW r, r = [s EXCEPT !.recvBuffer = b]
  PROVE  r \in ClientSession /\ r.traderId = s.traderId /\ r.recvBuffer = b
BY DEF ClientSession, Message

(* The descriptor accept returns is free.                                  *)
LEMMA LowestIsFree ==
  ASSUME FdOf(None) # {}
  PROVE  Min(FdOf(None)) \in Fds /\ owner[Min(FdOf(None))] = None
<1>1. FdOf(None) \subseteq Nat
  BY GatewayAssumption DEF FdOf
<1> DEFINE R == OpToRel(<, Nat)
<1>2. IsWellFoundedOn(R, Nat)
  BY NatLessThanWellFounded
<1>3. \A x, y \in Nat : ~(<<y, x>> \in R) => x <= y
  BY DEF OpToRel
<1> HIDE DEF R
<1>4. \E x \in FdOf(None) : \A y \in FdOf(None) : x <= y
  <2>1. PICK x \in FdOf(None) : \A y \in FdOf(None) : ~(<<y, x>> \in R)
    BY <1>1, <1>2, WFMin
  <2>2. \A y \in FdOf(None) : x <= y
    BY <1>1, <1>3, <2>1
  <2> QED  BY <2>2
<1>5. Min(FdOf(None)) \in FdOf(None)
  BY <1>4 DEF Min
<1> QED
  BY <1>5 DEF FdOf

-----------------------------------------------------------------------------
(* Descriptors and sessions: one lemma per step.                           *)

(* Initially there are no connections.                                     *)
LEMMA InitSInv == Init => SInv
<1> SUFFICES ASSUME Init PROVE SInv
  OBVIOUS
<1>1. DOMAIN EmptyMap = {} /\ DOMAIN queue = {} /\ DOMAIN freed = {} /\ queue \in Seq(RawMessages)
  BY DEF Init, EmptyMap
<1>2. TypeOK
  BY <1>1, GatewayAssumption DEF Init, TypeOK
<1>3. Shapes /\ SessionsCurrent /\ SessionsRegistered
  BY <1>1 DEF Init, Shapes, SessionsCurrent, SessionsRegistered
<1>4. DescriptorsOwned /\ TradersKnown
  BY DEF Init, DescriptorsOwned, TradersKnown, Registered
<1>5. EventsCurrent /\ CallbackFacts
  BY <1>1 DEF Init, EventsCurrent, CallbackFacts
<1> QED
  BY <1>2, <1>3, <1>4, <1>5 DEF SInv

(* The client's steps change what arrives, and nothing the server keeps.   *)
LEMMA ClientsKeep == ASSUME SInv, NEW c \in Conns, Clients(c) PROVE SInv'
<1>1. /\ UNCHANGED <<trader, read, owner, nonblocking, watched, login, sessions, traderToFd,
                     events, epollAt, epollFd, freed, queue>>
  BY DEF Clients, client_connect, client_send, client_close, sessionVars, epollVars
<1>2. link' \in [Conns -> {"off", "open", "shut", "reset"}]
  BY DEF Clients, client_connect, client_send, client_close, SInv, TypeOK
<1>3. sent' \in [Conns -> 0 .. MaxMsgs]
  BY GatewayAssumption DEF Clients, client_connect, client_send, client_close, SInv, TypeOK
<1>4. edge' \subseteq watched
  BY DEF Clients, client_connect, client_send, client_close, Arrival, SInv, TypeOK
<1>5. TypeOK'
  BY <1>1, <1>2, <1>3, <1>4 DEF SInv, TypeOK
<1>6. Shapes' /\ SessionsCurrent' /\ SessionsRegistered'
  BY <1>1 DEF SInv, Shapes, SessionsCurrent, SessionsRegistered, getSession
<1>7. DescriptorsOwned' /\ TradersKnown' /\ EventsCurrent' /\ CallbackFacts'
  BY <1>1 DEF SInv, DescriptorsOwned, TradersKnown, EventsCurrent, CallbackFacts, InUse
<1> QED
  BY <1>5, <1>6, <1>7 DEF SInv

(* accept hands out a descriptor that nobody has, so that no session,      *)
(* event or callback is about.                                             *)
LEMMA AcceptKeeps == ASSUME SInv, NEW c \in Conns, accept(c) PROVE SInv'
<1> DEFINE fd == Min(FdOf(None))
<1>1. fd \in Fds /\ owner[fd] = None
  BY LowestIsFree DEF accept
<1>2. /\ owner' = [owner EXCEPT ![fd] = c] /\ login' = [login EXCEPT ![c] = "recv"]
      /\ UNCHANGED <<link, trader, sent, read, nonblocking, watched, edge, sessions, traderToFd,
                     events, epollAt, epollFd, freed, queue>>
      /\ login[c] = "none"
  BY DEF accept, sessionVars, epollVars
<1> HIDE DEF fd
<1>3. TypeOK'
  <2>1. owner' \in [Fds -> Conns \cup {None}]
    BY <1>1, <1>2 DEF SInv, TypeOK
  <2>2. login' \in [Conns -> {"none", "recv", "respond", "add", "nonblock", "watch", "done", "unwatched", "dropped"}]
    BY <1>2 DEF SInv, TypeOK
  <2> QED  BY <1>2, <2>1, <2>2 DEF SInv, TypeOK
<1>4. /\ owner'[fd] = c /\ \A f \in Fds \ {fd} : owner'[f] = owner[f] /\ owner[f] # c
      /\ login'[c] = "recv" /\ \A d \in Conns \ {c} : login'[d] = login[d]
      /\ c # None
  BY <1>1, <1>2, GatewayAssumption DEF SInv, TypeOK, DescriptorsOwned
<1>5. DescriptorsOwned'
  BY <1>2, <1>4 DEF SInv, TypeOK, DescriptorsOwned
<1>6. TradersKnown'
  BY <1>2, <1>4 DEF SInv, TradersKnown, Registered
<1>7. \A f \in Fds : owner[f] \in Conns => f # fd /\ owner'[f] = owner[f] /\ login'[owner[f]] = login[owner[f]]
  BY <1>1, <1>4, GatewayAssumption
<1>8. SessionsRegistered' /\ SessionsCurrent' /\ Shapes'
  BY <1>2, <1>7 DEF SInv, TypeOK, SessionsRegistered, SessionsCurrent, Shapes, getSession
<1>9. EventsCurrent' /\ CallbackFacts'
  BY <1>2, <1>7 DEF SInv, EventsCurrent, CallbackFacts, InUse
<1> QED
  BY <1>3, <1>5, <1>6, <1>8, <1>9 DEF SInv

(* The login handler leaves the callbacks of other connections alone.      *)
LEMMA LoginKeepsOthers ==
  ASSUME SInv, NEW c \in Conns, login[c] # "done", UNCHANGED <<owner, events, epollAt, epollFd, freed>>,
         \A d \in Conns \ {c} : login'[d] = login[d],
         DOMAIN sessions \subseteq DOMAIN sessions',
         \A f \in DOMAIN sessions' \ DOMAIN sessions : owner[f] = c,
         \A f \in watched' \ watched : InUse(f)'
  PROVE  EventsCurrent' /\ CallbackFacts'
<1>1. \A f : InUse(f) => InUse(f)'
  BY DEF InUse
<1>2. \A f \in DOMAIN sessions' \ DOMAIN sessions : ~InUse(f)
  BY DEF InUse
<1> QED
  BY <1>1, <1>2 DEF SInv, EventsCurrent, CallbackFacts

(* recv, answer and making the socket non-blocking touch no session.       *)
LEMMA LoginStepKeeps ==
  ASSUME SInv, NEW c \in Conns, login_recv(c) \/ login_respond(c) \/ login_nonblock(c)
  PROVE  SInv'
<1>1. /\ UNCHANGED <<link, sent, read, owner, watched, edge, sessions, traderToFd,
                     events, epollAt, epollFd, freed, queue>>
      /\ login' = [login EXCEPT ![c] = LoginAfter[login[c]]]
      /\ login[c] \in {"recv", "respond", "nonblock"}
      /\ nonblocking' \subseteq Conns
  BY DEF login_recv, login_respond, login_nonblock, LoginStep, sessionVars, epollVars, kernelVars, SInv, TypeOK
<1>2. /\ login[c] = "recv" => trader'[c] \in Traders
      /\ \A d \in Conns : login[d] # "recv" \/ d # c => trader'[d] = trader[d]
      /\ trader' \in [Conns -> Traders \cup {None}]
  BY DEF login_recv, login_respond, login_nonblock, kernelVars, SInv, TypeOK
<1>3. /\ LoginAfter["recv"] = "respond" /\ LoginAfter["respond"] = "add"
      /\ LoginAfter["nonblock"] = "watch"
  BY DEF LoginAfter
<1>4. /\ login' \in [Conns -> {"none", "recv", "respond", "add", "nonblock", "watch", "done", "unwatched", "dropped"}]
      /\ \A d \in Conns \ {c} : login'[d] = login[d]
      /\ login[c] = "recv" => login'[c] = "respond"
      /\ login[c] = "respond" => login'[c] = "add"
      /\ login[c] = "nonblock" => login'[c] = "watch"
  BY <1>1, <1>3 DEF SInv, TypeOK
<1>5. TypeOK'
  BY <1>1, <1>2, <1>4 DEF SInv, TypeOK
<1>6. DescriptorsOwned' /\ TradersKnown'
  BY <1>1, <1>2, <1>4 DEF SInv, TypeOK, DescriptorsOwned, TradersKnown, Registered
<1>7. SessionsRegistered' /\ SessionsCurrent' /\ Shapes'
  BY <1>1, <1>2, <1>4 DEF SInv, SessionsRegistered, SessionsCurrent, Shapes, getSession, Registered
<1>8. EventsCurrent' /\ CallbackFacts'
  BY <1>1, <1>4, LoginKeepsOthers
<1> QED
  BY <1>5, <1>6, <1>7, <1>8 DEF SInv

(* A dropped connection had no session, was not watched, and gives back    *)
(* its descriptor.                                                         *)
LEMMA LoginDropKeeps == ASSUME SInv, NEW c \in Conns, login_drop(c) PROVE SInv'
<1>1. PICK fd \in FdOf(c) : CloseFd(fd)
  BY DEF login_drop
<1>2. /\ UNCHANGED <<link, trader, sent, read, nonblocking, sessions, traderToFd,
                     events, epollAt, epollFd, freed, queue>>
      /\ login[c] = "recv" /\ login' = [login EXCEPT ![c] = "dropped"]
      /\ owner' = [owner EXCEPT ![fd] = None]
      /\ watched' = watched \ {fd} /\ edge' = edge \ {fd}
      /\ fd \in Fds /\ owner[fd] = c
  BY <1>1 DEF login_drop, CloseFd, FdOf, sessionVars, epollVars
<1>3. /\ owner'[fd] = None /\ \A f \in Fds \ {fd} : owner'[f] = owner[f] /\ owner[f] # c
      /\ login'[c] = "dropped" /\ \A d \in Conns \ {c} : login'[d] = login[d]
      /\ c # None
  BY <1>2, GatewayAssumption DEF SInv, TypeOK, DescriptorsOwned
<1>4. TypeOK'
  <2>1. owner' \in [Fds -> Conns \cup {None}]
    BY <1>2 DEF SInv, TypeOK
  <2>2. login' \in [Conns -> {"none", "recv", "respond", "add", "nonblock", "watch", "done", "unwatched", "dropped"}]
    BY <1>2 DEF SInv, TypeOK
  <2> QED  BY <1>2, <2>1, <2>2 DEF SInv, TypeOK
<1>5. DescriptorsOwned' /\ TradersKnown'
  BY <1>2, <1>3 DEF SInv, TypeOK, DescriptorsOwned, TradersKnown, Registered
<1>6. \A f \in Fds : owner[f] \in Conns /\ login[owner[f]] # "recv" =>
        owner'[f] = owner[f] /\ login'[owner[f]] = login[owner[f]]
  BY <1>2, <1>3
<1>7. SessionsRegistered' /\ SessionsCurrent' /\ Shapes'
  <2>1. \A f \in DOMAIN sessions : owner'[f] = owner[f] /\ login'[owner[f]] = login[owner[f]]
    BY <1>6 DEF SInv, TypeOK, SessionsRegistered, Registered
  <2> QED  BY <1>2, <2>1 DEF SInv, SessionsRegistered, SessionsCurrent, Shapes, getSession
<1>8. EventsCurrent' /\ CallbackFacts'
  <2>1. \A f : InUse(f) => InUse(f)'
    BY <1>6 DEF InUse
  <2> QED  BY <1>2, <2>1 DEF SInv, EventsCurrent, CallbackFacts
<1> QED
  BY <1>4, <1>5, <1>7, <1>8 DEF SInv

(* add enters the session of a connection that had none, and the route of  *)
(* its trader leads there, whoever had it before.                          *)
LEMMA LoginAddKeeps == ASSUME SInv, NEW c \in Conns, login_add(c) PROVE SInv'
<1>1. PICK fd \in FdOf(c) : add(fd, trader[c])
  BY DEF login_add
<1> DEFINE session == [traderId |-> trader[c], recvBuffer |-> <<>>]
<1>2. /\ UNCHANGED <<link, trader, sent, read, owner, nonblocking, watched, edge,
                     events, epollAt, epollFd, freed, queue>>
      /\ login[c] = "add" /\ login' = [login EXCEPT ![c] = LoginAfter["add"]]
      /\ sessions' = Put(sessions, fd, session)
      /\ traderToFd' = Put(traderToFd, trader[c], fd)
      /\ fd \in Fds /\ owner[fd] = c
  BY <1>1 DEF login_add, LoginStep, add, FdOf, kernelVars, epollVars
<1>3. session \in ClientSession /\ session.traderId = trader[c] /\ trader[c] \in Traders
  BY <1>2 DEF SInv, TradersKnown, Registered, ClientSession
<1> HIDE DEF session
<1>4. /\ DOMAIN sessions' = DOMAIN sessions \cup {fd} /\ sessions'[fd] = session
      /\ \A f \in DOMAIN sessions : f # fd => sessions'[f] = sessions[f]
  BY <1>2 DEF Put
<1>5. /\ DOMAIN traderToFd' = DOMAIN traderToFd \cup {trader[c]} /\ traderToFd'[trader[c]] = fd
      /\ \A t \in DOMAIN traderToFd : t # trader[c] => traderToFd'[t] = traderToFd[t]
  BY <1>2 DEF Put
<1>6. login'[c] = "nonblock" /\ \A d \in Conns \ {c} : login'[d] = login[d]
  BY <1>2 DEF SInv, TypeOK, LoginAfter
<1>7. fd \notin DOMAIN sessions
  BY <1>2 DEF SInv, SessionsRegistered, Registered
<1>8. TypeOK'
  <2>1. login' \in [Conns -> {"none", "recv", "respond", "add", "nonblock", "watch", "done", "unwatched", "dropped"}]
    BY <1>2 DEF SInv, TypeOK, LoginAfter
  <2>2. DOMAIN sessions' \subseteq Fds /\ \A f \in DOMAIN sessions' : sessions'[f] \in ClientSession
    BY <1>2, <1>3, <1>4 DEF SInv, TypeOK
  <2>3. DOMAIN traderToFd' \subseteq Traders /\ \A t \in DOMAIN traderToFd' : traderToFd'[t] \in Fds
    BY <1>2, <1>3, <1>5 DEF SInv, TypeOK
  <2> QED  BY <1>2, <2>1, <2>2, <2>3 DEF SInv, TypeOK
<1>9. DescriptorsOwned' /\ TradersKnown' /\ Shapes'
  BY <1>2, <1>3, <1>6 DEF SInv, TypeOK, DescriptorsOwned, TradersKnown, Shapes
<1>10. SessionsRegistered'
  BY <1>2, <1>4, <1>6 DEF SInv, SessionsRegistered, Registered
<1>11. SessionsCurrent'
  <2>1. \A f \in DOMAIN sessions' : owner[f] # None /\ sessions'[f].traderId = trader[owner[f]]
    BY <1>2, <1>3, <1>4, GatewayAssumption DEF SInv, SessionsCurrent
  <2>2. ASSUME NEW t \in DOMAIN traderToFd'
        PROVE  traderToFd'[t] \in DOMAIN sessions' /\ sessions'[traderToFd'[t]].traderId = t
    <3>1. CASE t = trader[c]
      BY <3>1, <1>3, <1>4, <1>5
    <3>2. CASE t # trader[c]
      <4>1. t \in DOMAIN traderToFd /\ traderToFd'[t] = traderToFd[t]
        BY <3>2, <1>5
      <4> QED  BY <4>1, <1>4, <1>7 DEF SInv, SessionsCurrent, getSession
    <3> QED  BY <3>1, <3>2
  <2> QED  BY <1>2, <2>1, <2>2 DEF SessionsCurrent, getSession
<1>12. EventsCurrent' /\ CallbackFacts'
  BY <1>2, <1>4, <1>6, LoginKeepsOthers
<1> QED
  BY <1>8, <1>9, <1>10, <1>11, <1>12 DEF SInv

(* Watching is the last step of the login handler.                         *)
LEMMA LoginWatchKeeps == ASSUME SInv, NEW c \in Conns, login_watch(c) PROVE SInv'
<1>1. /\ UNCHANGED <<link, trader, sent, read, owner, nonblocking, sessions, traderToFd,
                     events, epollAt, epollFd, freed, queue>>
      /\ login[c] = "watch" /\ login' = [login EXCEPT ![c] = LoginAfter["watch"]]
      /\ watched' = watched \cup FdOf(c) /\ edge' \subseteq edge \cup FdOf(c)
  BY DEF login_watch, LoginStep, sessionVars, epollVars
<1>2. login'[c] = "done" /\ \A d \in Conns \ {c} : login'[d] = login[d]
  BY <1>1 DEF SInv, TypeOK, LoginAfter
<1>3. TypeOK'
  <2>1. login' \in [Conns -> {"none", "recv", "respond", "add", "nonblock", "watch", "done", "unwatched", "dropped"}]
    BY <1>1 DEF SInv, TypeOK, LoginAfter
  <2>2. watched' \subseteq Fds /\ edge' \subseteq watched'
    BY <1>1 DEF SInv, TypeOK, FdOf
  <2> QED  BY <1>1, <2>1, <2>2 DEF SInv, TypeOK
<1>4. DescriptorsOwned' /\ TradersKnown' /\ Shapes'
  BY <1>1, <1>2 DEF SInv, TypeOK, DescriptorsOwned, TradersKnown, Shapes, Registered
<1>5. SessionsRegistered' /\ SessionsCurrent'
  BY <1>1, <1>2 DEF SInv, SessionsRegistered, SessionsCurrent, getSession, Registered
<1>6. \A f \in watched' \ watched : InUse(f)'
  BY <1>1, <1>2 DEF InUse, FdOf
<1>7. EventsCurrent' /\ CallbackFacts'
  BY <1>1, <1>2, <1>6, LoginKeepsOthers
<1> QED
  BY <1>3, <1>4, <1>5, <1>7 DEF SInv

(* Nor does it disturb anything when epoll refuses.                        *)
LEMMA LoginWatchFailsKeeps == ASSUME SInv, NEW c \in Conns, login_watch_fails(c) PROVE SInv'
<1>1. /\ UNCHANGED <<link, trader, sent, read, owner, nonblocking, watched, edge, sessions, traderToFd,
                     events, epollAt, epollFd, freed, queue>>
      /\ login[c] = "watch" /\ login' = [login EXCEPT ![c] = "unwatched"]
  BY DEF login_watch_fails, kernelVars, sessionVars, epollVars
<1>2. login'[c] = "unwatched" /\ \A d \in Conns \ {c} : login'[d] = login[d]
  BY <1>1 DEF SInv, TypeOK
<1>3. TypeOK'
  <2>1. login' \in [Conns -> {"none", "recv", "respond", "add", "nonblock", "watch", "done", "unwatched", "dropped"}]
    BY <1>1 DEF SInv, TypeOK
  <2> QED  BY <1>1, <2>1 DEF SInv, TypeOK
<1>4. DescriptorsOwned' /\ TradersKnown' /\ Shapes'
  BY <1>1, <1>2 DEF SInv, TypeOK, DescriptorsOwned, TradersKnown, Shapes, Registered
<1>5. SessionsRegistered' /\ SessionsCurrent'
  BY <1>1, <1>2 DEF SInv, SessionsRegistered, SessionsCurrent, getSession, Registered
<1>6. EventsCurrent' /\ CallbackFacts'
  BY <1>1, <1>2, LoginKeepsOthers
<1> QED
  BY <1>3, <1>4, <1>5, <1>6 DEF SInv

(* epoll_wait reports watched descriptors.                                 *)
LEMMA EpollWaitKeeps == ASSUME SInv, epoll_wait PROVE SInv'
<1>1. /\ UNCHANGED <<link, trader, sent, read, owner, nonblocking, watched, login, sessions, traderToFd,
                     epollFd, freed, queue>>
      /\ edge' = {} /\ epollAt' = "next"
      /\ DOMAIN events' = edge /\ \A f \in edge : events'[f] \in {"in", "hup"}
  BY DEF epoll_wait, sessionVars
<1>2. TypeOK'
  BY <1>1 DEF SInv, TypeOK
<1>3. DescriptorsOwned' /\ TradersKnown' /\ Shapes'
  BY <1>1 DEF SInv, DescriptorsOwned, TradersKnown, Shapes
<1>4. SessionsRegistered' /\ SessionsCurrent'
  BY <1>1 DEF SInv, SessionsRegistered, SessionsCurrent, getSession
<1>5. EventsCurrent' /\ CallbackFacts'
  BY <1>1 DEF SInv, TypeOK, EventsCurrent, CallbackFacts, InUse
<1> QED
  BY <1>2, <1>3, <1>4, <1>5 DEF SInv

(* The next event is taken off the list.                                   *)
LEMMA EpollNextKeeps == ASSUME SInv, epoll_next PROVE SInv'
<1>1. /\ UNCHANGED <<link, trader, sent, read, owner, nonblocking, watched, edge, login, sessions,
                     traderToFd, queue>>
      /\ freed' = <<>>
  BY DEF epoll_next, kernelVars, sessionVars
<1>2. \/ events' = events /\ epollAt' = "wait" /\ epollFd' = None
      \/ /\ epollFd' \in DOMAIN events
         /\ DOMAIN events' = DOMAIN events \ {epollFd'}
         /\ \A f \in DOMAIN events' : events'[f] = events[f]
         /\ epollAt' \in {"forget", "recv", "next"}
         /\ epollAt' = "recv" => epollFd' \in DOMAIN sessions
  BY DEF epoll_next, getSession, Erase
<1>3. TypeOK'
  <2>1. DOMAIN events' \subseteq Fds /\ \A f \in DOMAIN events' : events'[f] \in {"in", "hup"}
    BY <1>2 DEF SInv, TypeOK
  <2>2. epollAt' \in {"wait", "next", "recv", "forget", "close", "frame"} /\ epollFd' \in Fds \cup {None}
    BY <1>2 DEF SInv, TypeOK
  <2>3. DOMAIN freed' = {}
    BY <1>1
  <2> QED  BY <1>1, <2>1, <2>2, <2>3 DEF SInv, TypeOK
<1>4. DescriptorsOwned' /\ TradersKnown' /\ Shapes'
  BY <1>1 DEF SInv, DescriptorsOwned, TradersKnown, Shapes
<1>5. SessionsRegistered' /\ SessionsCurrent'
  BY <1>1 DEF SInv, SessionsRegistered, SessionsCurrent, getSession
<1>6. EventsCurrent' /\ CallbackFacts'
  BY <1>1, <1>2 DEF SInv, EventsCurrent, CallbackFacts, InUse
<1> QED
  BY <1>3, <1>4, <1>5, <1>6 DEF SInv

(* Reading appends to the buffer of the session of the callback.           *)
LEMMA RecvDataKeeps == ASSUME SInv, recv_data PROVE SInv'
<1>1. /\ UNCHANGED <<link, trader, sent, owner, nonblocking, watched, edge, login, traderToFd,
                     events, epollAt, epollFd, freed, queue>>
      /\ epollAt = "recv" /\ read[Conn] < sent[Conn]
      /\ read' = [read EXCEPT ![Conn] = read[Conn] + 1]
      /\ sessions' = [sessions EXCEPT ![epollFd].recvBuffer =
                                        Append(sessions[epollFd].recvBuffer, <<Conn, read[Conn] + 1>>)]
  BY DEF recv_data, epollVars
<1>2. Conn \in Conns /\ epollFd \in DOMAIN sessions /\ sessions[epollFd] \in ClientSession
  BY <1>1 DEF SInv, CallbackFacts, InUse, Conn, TypeOK
<1>3. read[Conn] + 1 \in 1 .. MaxMsgs
  BY <1>1, <1>2, GatewayAssumption DEF SInv, TypeOK
<1>4. /\ DOMAIN sessions' = DOMAIN sessions
      /\ \A f \in DOMAIN sessions : f # epollFd => sessions'[f] = sessions[f]
      /\ sessions'[epollFd] = [sessions[epollFd] EXCEPT !.recvBuffer =
                                        Append(sessions[epollFd].recvBuffer, <<Conn, read[Conn] + 1>>)]
  BY <1>1, <1>2
<1>5. sessions'[epollFd] \in ClientSession /\ sessions'[epollFd].traderId = sessions[epollFd].traderId
  <2> DEFINE b == Append(sessions[epollFd].recvBuffer, <<Conn, read[Conn] + 1>>)
  <2>1. b \in Seq(Message) /\ sessions'[epollFd] = [sessions[epollFd] EXCEPT !.recvBuffer = b]
    BY <1>2, <1>3, <1>4 DEF ClientSession, Message
  <2> HIDE DEF b
  <2> QED  BY <1>2, <2>1, Rebuffered
<1>6. \A f \in DOMAIN sessions' : sessions'[f].traderId = sessions[f].traderId
  BY <1>4, <1>5
<1>7. TypeOK'
  <2>1. read' \in [Conns -> 0 .. MaxMsgs]
    BY <1>1, <1>2, <1>3 DEF SInv, TypeOK
  <2>2. \A f \in DOMAIN sessions' : sessions'[f] \in ClientSession
    BY <1>4, <1>5 DEF SInv, TypeOK
  <2> QED  BY <1>1, <1>4, <2>1, <2>2 DEF SInv, TypeOK
<1>8. DescriptorsOwned' /\ TradersKnown' /\ Shapes'
  BY <1>1 DEF SInv, DescriptorsOwned, TradersKnown, Shapes
<1>9. SessionsRegistered' /\ SessionsCurrent'
  BY <1>1, <1>4, <1>6 DEF SInv, SessionsRegistered, SessionsCurrent, getSession
<1>10. EventsCurrent' /\ CallbackFacts'
  BY <1>1, <1>4 DEF SInv, EventsCurrent, CallbackFacts, InUse
<1> QED
  BY <1>7, <1>8, <1>9, <1>10 DEF SInv

(* Leaving the recv loop, to the framing or to the disconnect, and leaving *)
(* the framing.                                                            *)
LEMMA LeaveLoopKeeps == ASSUME SInv, recv_again \/ recv_closed \/ frame_done PROVE SInv'
<1>1. /\ UNCHANGED <<link, trader, sent, read, owner, nonblocking, login, sessions, traderToFd,
                     events, epollFd, queue>>
      /\ watched' \subseteq watched /\ edge' \subseteq watched'
  BY DEF recv_again, recv_closed, frame_done, kernelVars, sessionVars, SInv, TypeOK
<1>2. \/ epollAt = "recv" /\ epollAt' = "frame" /\ freed' = freed
      \/ epollAt = "recv" /\ epollAt' = "forget" /\ freed' = <<sessions[epollFd]>>
      \/ epollAt = "frame" /\ epollAt' = "next" /\ freed' = freed /\ freed = <<>>
  BY DEF recv_again, recv_closed, frame_done
<1>3. epollAt = "recv" => sessions[epollFd] \in ClientSession
  BY DEF SInv, CallbackFacts, TypeOK
<1>4. Shapes'
  BY <1>1, <1>2, <1>3 DEF SInv, Shapes
<1>5. TypeOK'
  <2>1. \A i \in DOMAIN freed' : freed'[i] \in ClientSession
    BY <1>2, <1>3 DEF SInv, TypeOK
  <2> QED  BY <1>1, <1>2, <2>1 DEF SInv, TypeOK
<1>6. DescriptorsOwned' /\ TradersKnown'
  BY <1>1 DEF SInv, DescriptorsOwned, TradersKnown
<1>7. SessionsRegistered' /\ SessionsCurrent'
  BY <1>1 DEF SInv, SessionsRegistered, SessionsCurrent, getSession
<1>8. EventsCurrent' /\ CallbackFacts'
  BY <1>1, <1>2 DEF SInv, EventsCurrent, CallbackFacts, InUse
<1> QED
  BY <1>4, <1>5, <1>6, <1>7, <1>8 DEF SInv

(* remove erases the session and the route of its trader.                  *)
LEMMA EpollForgetKeeps == ASSUME SInv, epoll_forget PROVE SInv'
<1>1. /\ UNCHANGED <<link, trader, sent, read, owner, nonblocking, watched, edge, login,
                     events, epollFd, freed, queue>>
      /\ epollAt = "forget" /\ epollAt' = "close" /\ remove(epollFd)
  BY DEF epoll_forget, kernelVars
<1>2. /\ DOMAIN sessions' = DOMAIN sessions \ {epollFd}
      /\ \A f \in DOMAIN sessions' : sessions'[f] = sessions[f]
  BY <1>1 DEF remove, Erase, sessionVars
<1>3. /\ DOMAIN traderToFd' \subseteq DOMAIN traderToFd
      /\ \A t \in DOMAIN traderToFd' : traderToFd'[t] = traderToFd[t]
      /\ epollFd \in DOMAIN sessions => sessions[epollFd].traderId \notin DOMAIN traderToFd'
  BY <1>1 DEF remove, Erase, sessionVars
<1>4. TypeOK'
  BY <1>1, <1>2, <1>3 DEF SInv, TypeOK
<1>5. DescriptorsOwned' /\ TradersKnown' /\ Shapes'
  BY <1>1 DEF SInv, DescriptorsOwned, TradersKnown, Shapes
<1>6. SessionsRegistered'
  BY <1>1, <1>2 DEF SInv, SessionsRegistered
<1>7. SessionsCurrent'
  <2>1. ASSUME NEW t \in DOMAIN traderToFd'
        PROVE  traderToFd'[t] \in DOMAIN sessions' /\ sessions'[traderToFd'[t]].traderId = t
    <3>1. traderToFd'[t] \in DOMAIN sessions /\ sessions[traderToFd'[t]].traderId = t
      BY <2>1, <1>3 DEF SInv, SessionsCurrent, getSession
    <3> QED  BY <2>1, <3>1, <1>2, <1>3
  <2> QED  BY <1>1, <1>2, <2>1 DEF SInv, SessionsCurrent, getSession
<1>8. EventsCurrent' /\ CallbackFacts'
  BY <1>1, <1>2 DEF SInv, EventsCurrent, CallbackFacts, InUse
<1> QED
  BY <1>4, <1>5, <1>6, <1>7, <1>8 DEF SInv

(* close comes after remove: nobody has the descriptor, and no session is  *)
(* left on it for whoever gets it next.                                    *)
LEMMA EpollCloseKeeps == ASSUME SInv, epoll_close PROVE SInv'
<1>1. /\ UNCHANGED <<link, trader, sent, read, nonblocking, login, sessions, traderToFd,
                     events, epollFd, freed, queue>>
      /\ epollAt = "close" /\ epollAt' = (IF freed = <<>> THEN "next" ELSE "frame")
      /\ owner' = [owner EXCEPT ![epollFd] = None]
      /\ watched' = watched \ {epollFd} /\ edge' = edge \ {epollFd}
  BY DEF epoll_close, CloseFd, sessionVars
<1>2. /\ epollFd \in Fds /\ epollFd \notin DOMAIN sessions /\ epollFd \notin DOMAIN events
  BY <1>1 DEF SInv, CallbackFacts, EventsCurrent, InUse
<1>3. owner'[epollFd] = None /\ \A f \in Fds \ {epollFd} : owner'[f] = owner[f]
  BY <1>1, <1>2 DEF SInv, TypeOK
<1>4. TypeOK'
  <2>1. owner' \in [Fds -> Conns \cup {None}]
    BY <1>1 DEF SInv, TypeOK
  <2> QED  BY <1>1, <2>1 DEF SInv, TypeOK
<1>5. DescriptorsOwned' /\ TradersKnown' /\ Shapes'
  BY <1>1, <1>2, <1>3 DEF SInv, DescriptorsOwned, TradersKnown, Shapes
<1>6. SessionsRegistered' /\ SessionsCurrent'
  BY <1>1, <1>2, <1>3 DEF SInv, TypeOK, SessionsRegistered, SessionsCurrent, getSession
<1>7. EventsCurrent'
  BY <1>1, <1>2, <1>3 DEF SInv, EventsCurrent, InUse
<1>8. CallbackFacts'
  BY <1>1 DEF SInv, CallbackFacts
<1> QED
  BY <1>4, <1>5, <1>6, <1>7, <1>8 DEF SInv

(* Pushing keeps the queue a queue of raw messages.                        *)
LEMMA PushShape ==
  ASSUME Shapes, NEW t \in Traders, NEW d \in Message \cup {Garbage}, rawQueue_push(RawMessage(t, d))
  PROVE  /\ queue' \in Seq(RawMessages) /\ \A i \in DOMAIN queue' : queue'[i].traderId \in Traders
         /\ DOMAIN queue = 1 .. Len(queue) /\ DOMAIN queue' = 1 .. Len(queue) + 1
         /\ \A i \in DOMAIN queue : queue'[i] = queue[i]
         /\ queue'[Len(queue) + 1] = RawMessage(t, d)
<1>1. RawMessage(t, d) \in RawMessages /\ queue \in Seq(RawMessages)
  BY DEF RawMessage, RawMessages, Shapes
<1>2. queue' \in Seq(RawMessages)
  BY <1>1 DEF rawQueue_push
<1>3. \A i \in DOMAIN queue' : queue'[i].traderId \in Traders
  <2> TAKE i \in DOMAIN queue'
  <2>1. queue'[i] \in RawMessages
    BY <1>2
  <2> QED  BY <2>1 DEF RawMessages
<1> QED
  BY <1>1, <1>2, <1>3 DEF rawQueue_push

(* A framed message goes to the queue and leaves the buffer.               *)
LEMMA FramePushKeeps == ASSUME SInv, frame_push PROVE SInv'
<1> DEFINE s == sessions[epollFd]
<1>1. /\ UNCHANGED <<link, trader, sent, read, owner, nonblocking, watched, edge, login, traderToFd,
                     events, epollAt, epollFd, freed>>
      /\ epollAt = "frame" /\ freed = <<>> /\ s.recvBuffer # <<>>
      /\ rawQueue_push(RawMessage(s.traderId, Head(s.recvBuffer)))
      /\ sessions' = [sessions EXCEPT ![epollFd].recvBuffer = Tail(s.recvBuffer)]
  BY DEF frame_push, kernelVars, epollVars
<1>2. epollFd \in DOMAIN sessions /\ s \in ClientSession
  BY <1>1 DEF SInv, CallbackFacts, TypeOK
<1>3. s.traderId \in Traders /\ Head(s.recvBuffer) \in Message /\ Tail(s.recvBuffer) \in Seq(Message)
  BY <1>1, <1>2 DEF ClientSession, Message
<1>4. /\ DOMAIN sessions' = DOMAIN sessions
      /\ \A f \in DOMAIN sessions : f # epollFd => sessions'[f] = sessions[f]
      /\ sessions'[epollFd] = [s EXCEPT !.recvBuffer = Tail(s.recvBuffer)]
  BY <1>1, <1>2
<1>5. sessions'[epollFd] \in ClientSession /\ sessions'[epollFd].traderId = s.traderId
  <2> DEFINE b == Tail(s.recvBuffer)
  <2>1. b \in Seq(Message) /\ sessions'[epollFd] = [s EXCEPT !.recvBuffer = b]
    BY <1>3, <1>4
  <2> HIDE DEF b, s
  <2> QED  BY <1>2, <2>1, Rebuffered
<1>6. queue' \in Seq(RawMessages) /\ \A i \in DOMAIN queue' : queue'[i].traderId \in Traders
  BY <1>1, <1>3, PushShape DEF SInv
<1>7. TypeOK'
  <2>1. \A f \in DOMAIN sessions' : sessions'[f] \in ClientSession
    BY <1>4, <1>5 DEF SInv, TypeOK
  <2> QED  BY <1>1, <1>4, <1>6, <2>1 DEF SInv, TypeOK
<1>8. DescriptorsOwned' /\ TradersKnown' /\ Shapes'
  BY <1>1, <1>6 DEF SInv, DescriptorsOwned, TradersKnown, Shapes
<1>9. \A f \in DOMAIN sessions' : sessions'[f].traderId = sessions[f].traderId
  BY <1>4, <1>5
<1>10. SessionsRegistered' /\ SessionsCurrent'
  BY <1>1, <1>4, <1>9 DEF SInv, SessionsRegistered, SessionsCurrent, getSession
<1>11. EventsCurrent' /\ CallbackFacts'
  BY <1>1, <1>4 DEF SInv, EventsCurrent, CallbackFacts, InUse
<1> QED
  BY <1>7, <1>8, <1>10, <1>11 DEF SInv

(* The erased session: its requests, bytes of no client, or nothing.       *)
LEMMA FrameFreedKeeps == ASSUME SInv, frame_freed PROVE SInv'
<1>1. /\ UNCHANGED <<link, trader, sent, read, owner, nonblocking, watched, edge, login, sessions,
                     traderToFd, events, epollFd>>
      /\ epollAt = "frame" /\ freed # <<>>
  BY DEF frame_freed, kernelVars, sessionVars
<1>2. PICK s \in ClientSession : freed = <<s>>
  BY <1>1 DEF SInv, Shapes
<1>3. /\ queue' \in Seq(RawMessages) /\ \A i \in DOMAIN queue' : queue'[i].traderId \in Traders
      /\ \/ epollAt' = "next" /\ freed' = <<>>
         \/ epollAt' = "frame" /\ \E r \in ClientSession : freed' = <<r>>
  <2>1. CASE /\ freed[1].recvBuffer # <<>>
             /\ rawQueue_push(RawMessage(freed[1].traderId, Head(freed[1].recvBuffer)))
             /\ freed' = <<[freed[1] EXCEPT !.recvBuffer = Tail(@)]>>
             /\ UNCHANGED epollAt
    <3>1. freed[1] = s /\ s.recvBuffer # <<>>
      BY <1>2, <2>1
    <3>2. s.traderId \in Traders /\ Head(s.recvBuffer) \in Message /\ Tail(s.recvBuffer) \in Seq(Message)
      BY <3>1 DEF ClientSession, Message
    <3>3. [s EXCEPT !.recvBuffer = Tail(s.recvBuffer)] \in ClientSession
      BY <3>2, Rebuffered
    <3>4. queue' \in Seq(RawMessages) /\ \A i \in DOMAIN queue' : queue'[i].traderId \in Traders
      BY <2>1, <3>1, <3>2, PushShape DEF SInv
    <3> QED  BY <1>1, <2>1, <3>1, <3>3, <3>4
  <2>2. CASE /\ \E t \in Traders : rawQueue_push(RawMessage(t, Garbage))
             /\ freed' = <<>> /\ epollAt' = "next"
    <3>1. PICK t \in Traders : rawQueue_push(RawMessage(t, Garbage))
      BY <2>2
    <3>2. queue' \in Seq(RawMessages) /\ \A i \in DOMAIN queue' : queue'[i].traderId \in Traders
      BY <3>1, PushShape DEF SInv
    <3> QED  BY <2>2, <3>2
  <2>3. CASE freed' = <<>> /\ epollAt' = "next" /\ UNCHANGED queue
    <3>1. queue' \in Seq(RawMessages) /\ \A i \in DOMAIN queue' : queue'[i].traderId \in Traders
      BY <2>3 DEF SInv, Shapes, TypeOK
    <3> QED  BY <2>3, <3>1
  <2> QED  BY <2>1, <2>2, <2>3 DEF frame_freed
<1>4. TypeOK'
  <2>1. \A i \in DOMAIN freed' : freed'[i] \in ClientSession
    BY <1>3
  <2> QED  BY <1>1, <1>3, <2>1 DEF SInv, TypeOK
<1>5. DescriptorsOwned' /\ TradersKnown' /\ Shapes'
  BY <1>1, <1>3 DEF SInv, DescriptorsOwned, TradersKnown, Shapes
<1>6. SessionsRegistered' /\ SessionsCurrent'
  BY <1>1 DEF SInv, SessionsRegistered, SessionsCurrent, getSession
<1>7. EventsCurrent' /\ CallbackFacts'
  <2>1. \A r \in ClientSession : <<r>> # <<>>
    OBVIOUS
  <2>2. epollAt' = "next" \/ (epollAt' = "frame" /\ freed' # <<>>)
    BY <1>3, <2>1, Zenon
  <2> QED  BY <1>1, <2>2 DEF SInv, EventsCurrent, CallbackFacts, InUse
<1> QED
  BY <1>4, <1>5, <1>6, <1>7 DEF SInv

(* Every step of the gateway keeps the invariant.                          *)
LEMMA NextKeepsSInv == ASSUME SInv, [Next]_gatewayVars PROVE SInv'
<1>1. CASE EpollThread
  BY <1>1, EpollWaitKeeps, EpollNextKeeps, RecvDataKeeps, LeaveLoopKeeps, EpollForgetKeeps,
     EpollCloseKeeps, FramePushKeeps, FrameFreedKeeps DEF EpollThread
<1>2. ASSUME NEW c \in Conns, Clients(c) \/ accept(c) \/ Login(c) PROVE SInv'
  BY <1>2, ClientsKeep, AcceptKeeps, LoginStepKeeps, LoginDropKeeps, LoginAddKeeps, LoginWatchKeeps,
     LoginWatchFailsKeeps
  DEF Login
<1>3. CASE UNCHANGED gatewayVars
  <2>1. UNCHANGED <<link, trader, sent, read, owner, nonblocking, watched, edge, login, sessions,
                    traderToFd, events, epollAt, epollFd, freed, queue>>
    BY <1>3 DEF gatewayVars, kernelVars, sessionVars, epollVars
  <2>2. TypeOK' /\ Shapes'
    BY <2>1 DEF SInv, TypeOK, Shapes
  <2>3. DescriptorsOwned' /\ TradersKnown' /\ SessionsRegistered' /\ SessionsCurrent'
    BY <2>1 DEF SInv, DescriptorsOwned, TradersKnown, SessionsRegistered, SessionsCurrent, getSession
  <2>4. EventsCurrent' /\ CallbackFacts'
    BY <2>1 DEF SInv, EventsCurrent, CallbackFacts, InUse
  <2> QED  BY <2>2, <2>3, <2>4 DEF SInv
<1> QED
  BY <1>1, <1>2, <1>3 DEF Next

(* The invariant about descriptors and sessions holds in every reachable   *)
(* state.                                                                  *)
LEMMA SessionInvariance == Spec => []SInv
BY InitSInv, NextKeepsSInv, PTL DEF Spec

-----------------------------------------------------------------------------
(* Requests: what they depend on, and one lemma per step that moves them.  *)

(* Initially nothing was sent.                                             *)
LEMMA InitRInv == Init => RInv
<1> SUFFICES ASSUME Init PROVE RInv
  OBVIOUS
<1>1. DOMAIN sessions = {} /\ DOMAIN queue = {} /\ freed = <<>>
  BY DEF Init, EmptyMap
<1>2. \A c \in Conns : From(c) = {} /\ read[c] = 0
  BY <1>1 DEF From, Init
<1> QED
  BY <1>1, <1>2 DEF RInv, NothingReadBefore, BuffersContinue, FreedContinues, RequestsInOrder

(* A step that leaves the queue alone leaves alone what is in it.          *)
LEMMA QueueKept ==
  ASSUME queue' = queue
  PROVE  /\ \A c : From(c)' = From(c)
         /\ \A c, buf, m : Continues(c, buf, m)' = Continues(c, buf, m)
BY DEF From, Continues

(* The clients, accept and the login handlers read nothing and push        *)
(* nothing; the session that add registers starts with nothing read.       *)
LEMMA OutsideKeepsRequests ==
  ASSUME SInv, RInv, NEW c \in Conns, Clients(c) \/ accept(c) \/ Login(c)
  PROVE  RInv'
<1>1. UNCHANGED <<read, events, epollAt, epollFd, freed, queue>>
  BY DEF Clients, client_connect, client_send, client_close, accept, Login, login_recv, login_drop,
     login_respond, login_add, login_nonblock, login_watch, login_watch_fails, epollVars, kernelVars
<1>2. /\ \A d \in Conns : login[d] \in Registered => login'[d] \in Registered /\ trader'[d] = trader[d]
      /\ \A d \in Conns : login[d] = "done" => login'[d] = "done"
  BY DEF Clients, client_connect, client_send, client_close, accept, Login, login_recv, login_drop,
     login_respond, login_add, login_nonblock, login_watch, login_watch_fails, LoginStep, LoginAfter,
     kernelVars, Registered, SInv, TypeOK
<1>3. \A f \in DOMAIN sessions : owner'[f] = owner[f]
  <2>1. CASE accept(c)
    <3>1. Min(FdOf(None)) \in Fds /\ owner[Min(FdOf(None))] = None /\ None \notin Conns
      BY <2>1, LowestIsFree, GatewayAssumption DEF accept
    <3> QED  BY <2>1, <3>1 DEF accept, SInv, TypeOK, SessionsRegistered
  <2>2. CASE login_drop(c)
    BY <2>2 DEF login_drop, CloseFd, FdOf, SInv, TypeOK, SessionsRegistered, Registered
  <2>3. CASE ~accept(c) /\ ~login_drop(c)
    BY <2>3 DEF Clients, client_connect, client_send, client_close, Login, login_recv,
       login_respond, login_add, login_nonblock, login_watch, login_watch_fails, kernelVars
  <2> QED  BY <2>1, <2>2, <2>3
<1>4. /\ DOMAIN sessions \subseteq DOMAIN sessions'
      /\ \A f \in DOMAIN sessions' :
           \/ f \in DOMAIN sessions /\ sessions'[f] = sessions[f]
           \/ /\ f \in Fds /\ owner[f] = c /\ login[c] = "add" /\ owner' = owner
              /\ sessions'[f].recvBuffer = <<>>
  <2>1. CASE login_add(c)
    <3>1. PICK fd \in FdOf(c) : add(fd, trader[c])
      BY <2>1 DEF login_add
    <3>2. /\ DOMAIN sessions' = DOMAIN sessions \cup {fd}
          /\ sessions'[fd] = [traderId |-> trader[c], recvBuffer |-> <<>>]
          /\ \A f \in DOMAIN sessions : f # fd => sessions'[f] = sessions[f]
      BY <3>1 DEF add, Put
    <3> QED  BY <2>1, <3>1, <3>2 DEF login_add, FdOf, kernelVars
  <2>2. CASE ~login_add(c)
    BY <2>2 DEF Clients, client_connect, client_send, client_close, accept, Login, login_recv, login_drop,
       login_respond, login_nonblock, login_watch, login_watch_fails, sessionVars
  <2> QED  BY <2>1, <2>2
<1>5. \A d : From(d)' = From(d)
  BY <1>1, QueueKept
<1>6. \A d \in Conns : login'[d] \notin Registered => login[d] \notin Registered
  BY <1>2
<1>7. NothingReadBefore'
  BY <1>1, <1>5, <1>6 DEF RInv, NothingReadBefore
<1>8. BuffersContinue'
  <2> SUFFICES ASSUME NEW f \in DOMAIN sessions'
               PROVE  /\ Len(sessions'[f].recvBuffer) <= read[owner'[f]]
                      /\ Continues(owner'[f], sessions'[f].recvBuffer,
                                   read[owner'[f]] - Len(sessions'[f].recvBuffer))
    BY <1>1, QueueKept DEF BuffersContinue
  <2>1. CASE f \in DOMAIN sessions /\ sessions'[f] = sessions[f]
    BY <2>1, <1>3 DEF RInv, BuffersContinue
  <2>2. CASE owner[f] = c /\ login[c] = "add" /\ owner' = owner /\ sessions'[f].recvBuffer = <<>>
    <3>1. read[c] = 0 /\ From(c) = {}
      BY <2>2 DEF RInv, NothingReadBefore, Registered
    <3>2. Len(sessions'[f].recvBuffer) = 0 /\ DOMAIN sessions'[f].recvBuffer = {} /\ owner'[f] = c
      BY <2>2
    <3> QED  BY <3>1, <3>2 DEF Continues
  <2> QED  BY <1>4, <2>1, <2>2
<1>9. FreedContinues'
  <2> SUFFICES ASSUME freed # <<>> PROVE FreedContinues'
    BY <1>1 DEF FreedContinues
  <2>1. CASE epollAt = "forget" /\ epollFd \in DOMAIN sessions /\ freed[1] = sessions[epollFd]
    <3>1. epollFd \in DOMAIN sessions' /\ sessions'[epollFd] = sessions[epollFd]
      BY <2>1, <1>4 DEF SInv, SessionsRegistered, Registered
    <3> QED  BY <2>1, <3>1, <1>1 DEF FreedContinues
  <2>2. CASE ~(epollAt = "forget" /\ epollFd \in DOMAIN sessions /\ freed[1] = sessions[epollFd])
    <3>1. PICK d \in Conns :
            /\ login[d] = "done" /\ trader[d] = freed[1].traderId
            /\ \E m \in 0 .. MaxMsgs : Continues(d, freed[1].recvBuffer, m)
            /\ \A f \in DOMAIN sessions : owner[f] # d
      BY <2>2 DEF RInv, FreedContinues
    <3>2. login'[d] = "done" /\ trader'[d] = freed[1].traderId
      BY <3>1, <1>2 DEF Registered
    <3>3. \A f \in DOMAIN sessions' : owner'[f] # d
      BY <3>1, <1>3, <1>4
    <3>4. \E m \in 0 .. MaxMsgs : Continues(d, freed[1].recvBuffer, m)'
      BY <3>1, <1>1, QueueKept
    <3>5. epollAt' \in {"close", "frame"}
      BY <2>2, <1>1 DEF RInv, FreedContinues
    <3> QED  BY <3>2, <3>3, <3>4, <3>5, <1>1 DEF FreedContinues
  <2> QED  BY <2>1, <2>2
<1>10. RequestsInOrder'
  <2> SUFFICES ASSUME NEW d \in Conns, NEW i \in From(d) PROVE queue[i].traderId = trader'[d]
    BY <1>1, <1>5 DEF RInv, RequestsInOrder
  <2>1. login[d] \in Registered
    BY DEF RInv, NothingReadBefore
  <2> QED  BY <2>1, <1>2 DEF RInv, RequestsInOrder
<1> QED
  BY <1>7, <1>8, <1>9, <1>10 DEF RInv

(* Steps of the epoll thread that move no request.                         *)
LEMMA QuietKeepsRequests ==
  ASSUME SInv, RInv, epoll_wait \/ epoll_next \/ recv_again \/ frame_done
  PROVE  RInv'
<1>1. UNCHANGED <<read, trader, owner, login, sessions, queue>>
  BY DEF epoll_wait, epoll_next, recv_again, frame_done, sessionVars, kernelVars
<1>2. freed' = <<>>
  BY DEF epoll_wait, epoll_next, recv_again, frame_done, RInv, FreedContinues
<1>3. NothingReadBefore' /\ RequestsInOrder'
  BY <1>1, QueueKept DEF RInv, NothingReadBefore, RequestsInOrder
<1>4. BuffersContinue'
  BY <1>1, QueueKept DEF RInv, BuffersContinue
<1>5. FreedContinues'
  BY <1>2 DEF FreedContinues
<1> QED
  BY <1>3, <1>4, <1>5 DEF RInv

(* The disconnect: the session is remembered, erased, and its descriptor   *)
(* closed; the requests stay where they are.                               *)
LEMMA DisconnectKeepsRequests ==
  ASSUME SInv, RInv, recv_closed \/ epoll_forget \/ epoll_close
  PROVE  RInv'
<1>1. UNCHANGED <<read, trader, login, queue>>
  BY DEF recv_closed, epoll_forget, epoll_close, kernelVars
<1>2. NothingReadBefore' /\ RequestsInOrder'
  BY <1>1, QueueKept DEF RInv, NothingReadBefore, RequestsInOrder
<1>3. /\ DOMAIN sessions' \subseteq DOMAIN sessions
      /\ \A f \in DOMAIN sessions' : sessions'[f] = sessions[f] /\ owner'[f] = owner[f]
  <2>1. CASE recv_closed
    BY <2>1 DEF recv_closed, sessionVars
  <2>2. CASE epoll_forget
    BY <2>2 DEF epoll_forget, remove, Erase, sessionVars, kernelVars
  <2>3. CASE epoll_close
    BY <2>3 DEF epoll_close, CloseFd, sessionVars, SInv, TypeOK, CallbackFacts
  <2> QED  BY <2>1, <2>2, <2>3
<1>4. BuffersContinue'
  BY <1>1, <1>3, QueueKept DEF RInv, BuffersContinue
<1>5. FreedContinues'
  <2>1. CASE recv_closed
    <3>1. epollAt' = "forget" /\ freed' = <<sessions[epollFd]>> /\ epollFd' = epollFd /\ sessions' = sessions
      BY <2>1 DEF recv_closed, sessionVars
    <3>2. epollFd \in DOMAIN sessions
      BY <2>1 DEF recv_closed, SInv, CallbackFacts
    <3>3. freed'[1] = sessions[epollFd]
      BY <3>1
    <3> QED  BY <3>1, <3>2, <3>3 DEF FreedContinues
  <2>2. CASE epoll_forget /\ freed # <<>>
    <3>1. /\ epollAt' = "close" /\ freed' = freed /\ epollFd' = epollFd /\ owner' = owner
          /\ epollAt = "forget" /\ DOMAIN sessions' = DOMAIN sessions \ {epollFd}
      BY <2>2 DEF epoll_forget, remove, Erase, sessionVars, kernelVars
    <3>2. epollFd \in DOMAIN sessions /\ freed[1] = sessions[epollFd] /\ sessions[epollFd] \in ClientSession
      BY <2>2, <3>1 DEF RInv, FreedContinues, SInv, TypeOK
    <3>3. PICK c \in Conns : c = owner[epollFd]
      BY <3>1 DEF SInv, CallbackFacts, InUse
    <3>4. login[c] = "done" /\ trader[c] = freed[1].traderId /\ c # None
      BY <3>1, <3>2, <3>3, GatewayAssumption DEF SInv, CallbackFacts, InUse, SessionsCurrent
    <3>5. \A f \in DOMAIN sessions' : owner'[f] # c
      BY <3>1, <3>2, <3>3, <3>4 DEF SInv, TypeOK, DescriptorsOwned
    <3> DEFINE b == freed[1].recvBuffer
    <3>6. Len(b) \in Nat /\ Len(b) <= read[c] /\ Continues(c, b, read[c] - Len(b))
      BY <3>2, <3>3 DEF RInv, BuffersContinue, ClientSession
    <3>7. read[c] - Len(b) \in 0 .. MaxMsgs
      BY <3>6, GatewayAssumption DEF SInv, TypeOK
    <3>8. \E m \in 0 .. MaxMsgs : Continues(c, b, m)'
      BY <1>1, <3>1, <3>6, <3>7, QueueKept
    <3> QED  BY <1>1, <3>1, <3>4, <3>5, <3>8 DEF FreedContinues
  <2>3. CASE epoll_close /\ freed # <<>>
    <3>1. epollAt' = "frame" /\ freed' = freed /\ epollAt = "close" /\ sessions' = sessions
      BY <2>3 DEF epoll_close, sessionVars
    <3>2. PICK d \in Conns :
            /\ login[d] = "done" /\ trader[d] = freed[1].traderId
            /\ \E m \in 0 .. MaxMsgs : Continues(d, freed[1].recvBuffer, m)
            /\ \A f \in DOMAIN sessions : owner[f] # d
      BY <2>3, <3>1 DEF RInv, FreedContinues
    <3>3. \E m \in 0 .. MaxMsgs : Continues(d, freed[1].recvBuffer, m)'
      BY <3>1, <3>2, <1>1, QueueKept
    <3> QED  BY <1>1, <1>3, <3>1, <3>2, <3>3 DEF FreedContinues
  <2>4. CASE freed = <<>> /\ ~recv_closed
    BY <2>4 DEF epoll_forget, epoll_close, FreedContinues
  <2> QED  BY <2>1, <2>2, <2>3, <2>4
<1> QED
  BY <1>2, <1>4, <1>5 DEF RInv

(* Reading takes the next request of the connection into the buffer.       *)
LEMMA RecvKeepsRequests == ASSUME SInv, RInv, recv_data PROVE RInv'
<1> DEFINE b == sessions[epollFd].recvBuffer
<1>1. /\ UNCHANGED <<trader, owner, login, epollAt, epollFd, freed, queue>>
      /\ epollAt = "recv"
      /\ read' = [read EXCEPT ![Conn] = read[Conn] + 1]
      /\ sessions' = [sessions EXCEPT ![epollFd].recvBuffer = Append(b, <<Conn, read[Conn] + 1>>)]
  BY DEF recv_data, epollVars
<1>2. /\ epollFd \in DOMAIN sessions /\ sessions[epollFd] \in ClientSession
      /\ Conn \in Conns /\ login[Conn] = "done" /\ Conn = owner[epollFd] /\ freed = <<>>
      /\ Conn # None
  BY <1>1, GatewayAssumption DEF SInv, CallbackFacts, InUse, Conn, TypeOK
<1>3. b \in Seq(Message) /\ Len(b) \in Nat /\ DOMAIN b = 1 .. Len(b)
  BY <1>2 DEF ClientSession, Message
<1>4. /\ read'[Conn] = read[Conn] + 1 /\ read[Conn] \in Nat
      /\ \A d \in Conns \ {Conn} : read'[d] = read[d]
  BY <1>1, <1>2 DEF SInv, TypeOK
<1>5. /\ DOMAIN sessions' = DOMAIN sessions
      /\ \A f \in DOMAIN sessions : f # epollFd => sessions'[f] = sessions[f]
      /\ sessions'[epollFd].recvBuffer = Append(b, <<Conn, read[Conn] + 1>>)
  BY <1>1, <1>2 DEF ClientSession
<1>6. /\ Len(b) <= read[Conn] /\ Continues(Conn, b, read[Conn] - Len(b))
  BY <1>2 DEF RInv, BuffersContinue
<1>7. NothingReadBefore'
  <2>1. Conn \in Conns /\ login'[Conn] \in Registered
    BY <1>1, <1>2 DEF Registered
  <2> QED  BY <1>1, <1>4, <2>1, QueueKept DEF RInv, NothingReadBefore
<1>8. BuffersContinue'
  <2> SUFFICES ASSUME NEW f \in DOMAIN sessions
               PROVE  /\ Len(sessions'[f].recvBuffer) <= read'[owner[f]]
                      /\ Continues(owner[f], sessions'[f].recvBuffer,
                                   read'[owner[f]] - Len(sessions'[f].recvBuffer))
    BY <1>1, <1>5, QueueKept DEF BuffersContinue
  <2>1. CASE f = epollFd
    <3> DEFINE nb == sessions'[epollFd].recvBuffer
    <3>1. /\ Len(nb) = Len(b) + 1 /\ DOMAIN nb = 1 .. Len(b) + 1
          /\ \A k \in 1 .. Len(b) : nb[k] = b[k]
          /\ nb[Len(b) + 1] = <<Conn, read[Conn] + 1>>
      BY <1>3, <1>5
    <3> HIDE DEF nb, b
    <3>2. read'[Conn] - Len(nb) = read[Conn] - Len(b)
      BY <1>3, <1>4, <3>1
    <3>3. \A k \in DOMAIN nb : nb[k] = <<Conn, (read[Conn] - Len(b)) + k>>
      BY <1>3, <1>4, <1>6, <3>1 DEF Continues
    <3>4. Continues(Conn, nb, read[Conn] - Len(b))
      BY <3>3, <1>6 DEF Continues
    <3>5. Len(nb) <= read'[Conn]
      BY <1>3, <1>4, <1>6, <3>1
    <3> QED  BY <2>1, <1>2, <3>2, <3>4, <3>5 DEF nb
  <2>2. CASE f # epollFd
    <3>1. owner[f] # Conn /\ owner[f] \in Conns
      BY <2>2, <1>2 DEF SInv, TypeOK, DescriptorsOwned, SessionsRegistered
    <3> QED  BY <2>2, <3>1, <1>4, <1>5 DEF RInv, BuffersContinue
  <2> QED  BY <2>1, <2>2
<1>9. FreedContinues'
  BY <1>1, <1>2 DEF FreedContinues
<1>10. RequestsInOrder'
  BY <1>1, QueueKept DEF RInv, RequestsInOrder
<1> QED
  BY <1>7, <1>8, <1>9, <1>10 DEF RInv

(* Pushing the request that follows those of c in the queue.               *)
LEMMA PushNext ==
  ASSUME SInv, RInv, NEW c \in Conns, NEW m \in 0 .. MaxMsgs, NEW b \in Seq(Message), b # <<>>,
         Continues(c, b, m), trader[c] \in Traders, UNCHANGED trader,
         rawQueue_push(RawMessage(trader[c], Head(b)))
  PROVE  /\ Continues(c, Tail(b), m + 1)' /\ m + 1 \in 0 .. MaxMsgs
         /\ \A d \in Conns \ {c} : From(d)' = From(d)
         /\ \A d \in Conns \ {c} : \A buf, n : Continues(d, buf, n) => Continues(d, buf, n)'
         /\ RequestsInOrder'
<1>1. /\ Len(b) \in Nat /\ DOMAIN b = 1 .. Len(b) /\ 1 \in DOMAIN b /\ Head(b) = b[1]
      /\ Head(b) \in Message /\ Tail(b) \in Seq(Message)
      /\ DOMAIN Tail(b) = 1 .. Len(b) - 1 /\ \A k \in 1 .. Len(b) - 1 : Tail(b)[k] = b[k + 1]
  OBVIOUS
<1>2. Head(b) = <<c, m + 1>>
  BY <1>1 DEF Continues
<1>3. m + 1 \in 1 .. MaxMsgs
  BY <1>1, <1>2 DEF Message
<1> DEFINE last == Len(queue) + 1
<1>4. /\ queue \in Seq(RawMessages) /\ Len(queue) \in Nat
      /\ DOMAIN queue = 1 .. Len(queue) /\ DOMAIN queue' = 1 .. last
      /\ \A i \in DOMAIN queue : queue'[i] = queue[i]
      /\ queue'[last] = [traderId |-> trader[c], data |-> <<c, m + 1>>]
  <2>1. Shapes /\ Head(b) \in Message \cup {Garbage}
    BY <1>1 DEF SInv
  <2>2. /\ queue' \in Seq(RawMessages)
        /\ DOMAIN queue = 1 .. Len(queue) /\ DOMAIN queue' = 1 .. Len(queue) + 1
        /\ \A i \in DOMAIN queue : queue'[i] = queue[i]
        /\ queue'[Len(queue) + 1] = RawMessage(trader[c], Head(b))
    BY <2>1, PushShape
  <2>3. queue \in Seq(RawMessages) /\ Len(queue) \in Nat
    BY DEF SInv, Shapes
  <2>4. RawMessage(trader[c], Head(b)) = [traderId |-> trader[c], data |-> <<c, m + 1>>]
    BY <1>2 DEF RawMessage
  <2> QED  BY <2>2, <2>3, <2>4
<1>5. /\ From(c)' = From(c) \cup {last}
      /\ \A d \in Conns \ {c} : From(d)' = From(d)
  BY <1>4 DEF From
<1>6. \A d : \A i \in From(d) : i \in 1 .. Len(queue) /\ queue'[i] = queue[i]
  BY <1>4 DEF From
<1>7. \A i \in From(c) : queue[i].data[2] \in Nat
  <2> TAKE i \in From(c)
  <2>1. queue[i] \in RawMessages /\ queue[i].data[1] = c
    BY <1>4 DEF From
  <2>2. queue[i].data \in Message
    BY <2>1, GatewayAssumption DEF RawMessages, Garbage
  <2> QED  BY <2>2 DEF Message
<1>8. queue'[last].data[2] = m + 1 /\ queue'[last].traderId = trader[c] /\ last \notin From(c)
  BY <1>4, <1>6
<1> HIDE DEF last
<1>9. Continues(c, Tail(b), m + 1)'
  <2>1. \A k \in DOMAIN Tail(b) : Tail(b)[k] = <<c, (m + 1) + k>>
    BY <1>1 DEF Continues
  <2>2. \A i \in From(c)' : queue'[i].data[2] <= m + 1
    BY <1>5, <1>6, <1>7, <1>8 DEF Continues
  <2>3. \A n \in 1 .. m + 1 : \E i \in From(c)' : queue'[i].data[2] = n
    <3> TAKE n \in 1 .. m + 1
    <3>1. CASE n = m + 1
      BY <3>1, <1>5, <1>8
    <3>2. CASE n # m + 1
      <4>1. n \in 1 .. m
        BY <3>2
      <4>2. PICK i \in From(c) : queue[i].data[2] = n
        BY <4>1 DEF Continues
      <4> QED  BY <4>2, <1>5, <1>6
    <3> QED  BY <3>1, <3>2
  <2> QED  BY <2>1, <2>2, <2>3 DEF Continues
<1>10. \A d \in Conns \ {c} : \A buf, n : Continues(d, buf, n) => Continues(d, buf, n)'
  <2> SUFFICES ASSUME NEW d \in Conns \ {c}, NEW buf, NEW n, Continues(d, buf, n)
               PROVE  Continues(d, buf, n)'
    OBVIOUS
  <2>1. From(d)' = From(d) /\ \A i \in From(d) : queue'[i].data[2] = queue[i].data[2]
    BY <1>5, <1>6
  <2> QED  BY <2>1 DEF Continues
<1>11. RequestsInOrder'
  <2> SUFFICES ASSUME NEW d \in Conns, NEW i \in From(d)'
               PROVE  /\ queue'[i].traderId = trader[d]
                      /\ \A j \in From(d)' : j < i => queue'[j].data[2] < queue'[i].data[2]
                      /\ \A n \in 1 .. queue'[i].data[2] - 1 :
                           \E j \in From(d)' : j < i /\ queue'[j].data[2] = n
    BY DEF RequestsInOrder
  <2>1. CASE i \in From(d)
    <3>1. \A j \in From(d)' : j < i => j \in From(d)
      BY <2>1, <1>4, <1>5, <1>6 DEF last
    <3>2. From(d) \subseteq From(d)'
      BY <1>5
    <3> QED  BY <2>1, <3>1, <3>2, <1>6 DEF RInv, RequestsInOrder
  <2>2. CASE i = last /\ d = c
    <3>1. \A j \in From(c)' : j < i => j \in From(c)
      BY <2>2, <1>4, <1>5, <1>6 DEF last
    <3>2. \A j \in From(c) : queue'[j].data[2] < m + 1
      BY <1>6, <1>7 DEF Continues
    <3>3. \A n \in 1 .. m : \E j \in From(c) : j < last /\ queue'[j].data[2] = n
      <4> TAKE n \in 1 .. m
      <4>1. PICK j \in From(c) : queue[j].data[2] = n
        BY DEF Continues
      <4>2. j < last
        BY <1>4, <1>6 DEF last
      <4> QED  BY <4>1, <4>2, <1>6
    <3> QED  BY <2>2, <3>1, <3>2, <3>3, <1>5, <1>8
  <2> QED  BY <2>1, <2>2, <1>5
<1> QED
  BY <1>3, <1>5, <1>9, <1>10, <1>11

(* Framing moves the first request of the buffer to the queue.             *)
LEMMA PushKeepsRequests == ASSUME SInv, RInv, frame_push PROVE RInv'
<1>1. /\ UNCHANGED <<read, trader, owner, login, epollAt, epollFd, freed>>
      /\ epollAt = "frame" /\ freed = <<>> /\ sessions[epollFd].recvBuffer # <<>>
      /\ rawQueue_push(RawMessage(sessions[epollFd].traderId, Head(sessions[epollFd].recvBuffer)))
      /\ sessions' = [sessions EXCEPT ![epollFd].recvBuffer = Tail(sessions[epollFd].recvBuffer)]
  BY DEF frame_push, epollVars, kernelVars
<1>2. epollFd \in DOMAIN sessions /\ sessions[epollFd] \in ClientSession
  BY <1>1 DEF SInv, CallbackFacts, TypeOK
<1>3. PICK c \in Conns : c = owner[epollFd]
  BY <1>2 DEF SInv, SessionsRegistered
<1>4. PICK b \in Seq(Message) : b = sessions[epollFd].recvBuffer
  BY <1>2 DEF ClientSession, Message
<1>5. /\ Len(b) \in Nat /\ read[c] \in 0 .. MaxMsgs /\ Len(b) <= read[c]
      /\ Continues(c, b, read[c] - Len(b)) /\ b # <<>> /\ Len(b) # 0
      /\ Len(Tail(b)) = Len(b) - 1
  BY <1>1, <1>2, <1>3, <1>4, GatewayAssumption DEF RInv, BuffersContinue, SInv, TypeOK
<1>6. PICK m \in 0 .. MaxMsgs : m = read[c] - Len(b)
  BY <1>5, GatewayAssumption
<1>7. /\ trader[c] = sessions[epollFd].traderId /\ trader[c] \in Traders
      /\ login[c] \in Registered /\ c # None
  BY <1>2, <1>3, GatewayAssumption DEF SInv, SessionsCurrent, ClientSession, SessionsRegistered
<1>8. /\ Continues(c, Tail(b), m + 1)'
      /\ \A d \in Conns \ {c} : From(d)' = From(d)
      /\ \A d \in Conns \ {c} : \A buf, n : Continues(d, buf, n) => Continues(d, buf, n)'
      /\ RequestsInOrder'
  BY <1>1, <1>4, <1>5, <1>6, <1>7, PushNext
<1>9. /\ DOMAIN sessions' = DOMAIN sessions
      /\ \A f \in DOMAIN sessions : f # epollFd => sessions'[f] = sessions[f]
      /\ sessions'[epollFd].recvBuffer = Tail(b)
  BY <1>1, <1>2, <1>4 DEF ClientSession
<1>10. NothingReadBefore'
  <2>1. \A d \in Conns : login'[d] \notin Registered => d # c
    BY <1>1, <1>7
  <2> QED  BY <1>1, <1>8, <2>1 DEF RInv, NothingReadBefore
<1>11. BuffersContinue'
  <2> SUFFICES ASSUME NEW f \in DOMAIN sessions
               PROVE  (/\ Len(sessions[f].recvBuffer) <= read[owner[f]]
                       /\ Continues(owner[f], sessions[f].recvBuffer,
                                    read[owner[f]] - Len(sessions[f].recvBuffer)))'
    BY <1>9 DEF BuffersContinue
  <2>1. CASE f = epollFd
    <3>1. owner'[f] = c /\ sessions'[f].recvBuffer = Tail(b) /\ read'[c] = read[c]
      BY <2>1, <1>1, <1>3, <1>9
    <3>2. read[c] - Len(Tail(b)) = m + 1 /\ Len(Tail(b)) <= read[c]
      BY <1>5, <1>6
    <3> QED  BY <3>1, <3>2, <1>8
  <2>2. CASE f # epollFd
    <3>1. owner[f] \in Conns \ {c}
      BY <2>2, <1>2, <1>3, <1>7 DEF SInv, TypeOK, DescriptorsOwned, SessionsRegistered
    <3>2. sessions'[f] = sessions[f] /\ owner' = owner /\ read' = read
      BY <2>2, <1>1, <1>9
    <3>3. /\ Len(sessions[f].recvBuffer) <= read[owner[f]]
          /\ Continues(owner[f], sessions[f].recvBuffer, read[owner[f]] - Len(sessions[f].recvBuffer))
      BY DEF RInv, BuffersContinue
    <3> QED  BY <3>1, <3>2, <3>3, <1>8
  <2> QED  BY <2>1, <2>2
<1>12. FreedContinues'
  BY <1>1 DEF FreedContinues
<1> QED
  BY <1>8, <1>10, <1>11, <1>12 DEF RInv

(* Pushing what no client sent adds to no connection's requests.           *)
LEMMA PushGarbage ==
  ASSUME SInv, RInv, NEW t \in Traders, rawQueue_push(RawMessage(t, Garbage)), UNCHANGED trader
  PROVE  /\ \A d \in Conns : From(d)' = From(d)
         /\ \A d \in Conns : \A buf, n : Continues(d, buf, n) => Continues(d, buf, n)'
         /\ RequestsInOrder'
<1>1. /\ DOMAIN queue = 1 .. Len(queue) /\ DOMAIN queue' = 1 .. Len(queue) + 1
      /\ \A i \in DOMAIN queue : queue'[i] = queue[i]
      /\ queue'[Len(queue) + 1] = RawMessage(t, Garbage) /\ Len(queue) \in Nat
  <2>1. queue \in Seq(RawMessages)
    BY DEF SInv, Shapes
  <2> QED  BY <2>1, PushShape DEF SInv
<1>2. queue'[Len(queue) + 1].data[1] = None /\ None \notin Conns
  BY <1>1, GatewayAssumption DEF RawMessage, Garbage
<1>3. \A d \in Conns : From(d)' = From(d) /\ \A i \in From(d) : queue'[i] = queue[i]
  BY <1>1, <1>2 DEF From
<1>4. ASSUME NEW d \in Conns, NEW buf, NEW n, Continues(d, buf, n) PROVE Continues(d, buf, n)'
  <2>1. From(d)' = From(d) /\ \A i \in From(d) : queue'[i].data[2] = queue[i].data[2]
    BY <1>3
  <2> QED  BY <1>4, <2>1 DEF Continues
<1>5. RequestsInOrder'
  <2> SUFFICES ASSUME NEW d \in Conns, NEW i \in From(d)
               PROVE  /\ queue'[i].traderId = trader[d]
                      /\ \A j \in From(d) : j < i => queue'[j].data[2] < queue'[i].data[2]
                      /\ \A n \in 1 .. queue'[i].data[2] - 1 :
                           \E j \in From(d) : j < i /\ queue'[j].data[2] = n
    BY <1>3 DEF RequestsInOrder
  <2> QED  BY <1>3 DEF RInv, RequestsInOrder
<1> QED
  BY <1>3, <1>4, <1>5

(* The erased session still yields its requests in order, or something     *)
(* that is no request, or nothing.                                         *)
LEMMA FreedKeepsRequests == ASSUME SInv, RInv, frame_freed PROVE RInv'
<1>1. /\ UNCHANGED <<read, trader, owner, login, sessions>>
      /\ epollAt = "frame" /\ freed # <<>>
  BY DEF frame_freed, kernelVars, sessionVars
<1>2. PICK s \in ClientSession : freed = <<s>>
  BY <1>1 DEF SInv, Shapes
<1>3. PICK c \in Conns, m \in 0 .. MaxMsgs :
        /\ login[c] = "done" /\ trader[c] = s.traderId /\ Continues(c, s.recvBuffer, m)
        /\ \A f \in DOMAIN sessions : owner[f] # c
  <2>1. freed[1] = s
    BY <1>2
  <2> QED  BY <1>1, <2>1 DEF RInv, FreedContinues
<1>4. s.traderId \in Traders /\ s.recvBuffer \in Seq(Message)
  BY DEF ClientSession, Message
<1>5. \A f \in DOMAIN sessions : owner[f] \in Conns \ {c}
  BY <1>3 DEF SInv, SessionsRegistered
<1>6. SUFFICES ASSUME /\ \A d \in Conns \ {c} : From(d)' = From(d)
                      /\ \A d \in Conns \ {c} : \A buf, n : Continues(d, buf, n) => Continues(d, buf, n)'
                      /\ RequestsInOrder' /\ FreedContinues'
               PROVE  RInv'
  <2>1. CASE /\ freed[1].recvBuffer # <<>>
             /\ rawQueue_push(RawMessage(freed[1].traderId, Head(freed[1].recvBuffer)))
             /\ freed' = <<[freed[1] EXCEPT !.recvBuffer = Tail(@)]>>
             /\ UNCHANGED epollAt
    <3>1. freed[1] = s
      BY <1>2
    <3>2. /\ Continues(c, Tail(s.recvBuffer), m + 1)' /\ m + 1 \in 0 .. MaxMsgs
          /\ \A d \in Conns \ {c} : From(d)' = From(d)
          /\ \A d \in Conns \ {c} : \A buf, n : Continues(d, buf, n) => Continues(d, buf, n)'
          /\ RequestsInOrder'
      BY <2>1, <3>1, <1>1, <1>3, <1>4, PushNext
    <3>3. freed'[1].traderId = s.traderId /\ freed'[1].recvBuffer = Tail(s.recvBuffer)
      BY <2>1, <3>1 DEF ClientSession
    <3>4. FreedContinues'
      BY <1>1, <1>3, <2>1, <3>2, <3>3 DEF FreedContinues
    <3> QED  BY <3>2, <3>4
  <2>2. CASE /\ \E t \in Traders : rawQueue_push(RawMessage(t, Garbage))
             /\ freed' = <<>> /\ epollAt' = "next"
    BY <2>2, <1>1, PushGarbage DEF FreedContinues
  <2>3. CASE freed' = <<>> /\ epollAt' = "next" /\ UNCHANGED queue
    BY <2>3, <1>1, QueueKept DEF FreedContinues, RequestsInOrder, RInv
  <2> QED  BY <2>1, <2>2, <2>3 DEF frame_freed
<1>7. NothingReadBefore'
  <2>1. \A d \in Conns : login'[d] \notin Registered => d # c
    BY <1>1, <1>3 DEF Registered
  <2> QED  BY <1>1, <1>6, <2>1 DEF RInv, NothingReadBefore
<1>8. BuffersContinue'
  <2> SUFFICES ASSUME NEW f \in DOMAIN sessions
               PROVE  (/\ Len(sessions[f].recvBuffer) <= read[owner[f]]
                       /\ Continues(owner[f], sessions[f].recvBuffer,
                                    read[owner[f]] - Len(sessions[f].recvBuffer)))'
    BY <1>1 DEF BuffersContinue
  <2>1. /\ Len(sessions[f].recvBuffer) <= read[owner[f]]
        /\ Continues(owner[f], sessions[f].recvBuffer, read[owner[f]] - Len(sessions[f].recvBuffer))
    BY DEF RInv, BuffersContinue
  <2> QED  BY <2>1, <1>1, <1>5, <1>6
<1> QED
  BY <1>6, <1>7, <1>8 DEF RInv

-----------------------------------------------------------------------------
(* The theorems.                                                           *)

(* Both invariants hold in every reachable state.                          *)
LEMMA RequestInvariance == Spec => [](SInv /\ RInv)
<1>1. ASSUME SInv, RInv, [Next]_gatewayVars PROVE RInv'
  <2>1. CASE EpollThread
    BY <1>1, <2>1, QuietKeepsRequests, DisconnectKeepsRequests, RecvKeepsRequests, PushKeepsRequests,
       FreedKeepsRequests DEF EpollThread
  <2>2. CASE \E c \in Conns : Clients(c) \/ accept(c) \/ Login(c)
    BY <1>1, <2>2, OutsideKeepsRequests
  <2>3. CASE UNCHANGED gatewayVars
    <3>1. UNCHANGED <<trader, read, owner, login, sessions, epollAt, epollFd, freed, queue>>
      BY <2>3 DEF gatewayVars, kernelVars, sessionVars, epollVars
    <3> QED  BY <1>1, <3>1 DEF RInv, NothingReadBefore, BuffersContinue, FreedContinues, RequestsInOrder,
                Continues, From
  <2> QED  BY <1>1, <2>1, <2>2, <2>3 DEF Next
<1> QED
  BY <1>1, InitSInv, InitRInv, NextKeepsSInv, PTL DEF Spec

(* Descriptors, sessions, events and messages keep their types.            *)
THEOREM GatewayTypes == Spec => []TypeOK
BY SessionInvariance, PTL DEF SInv

(* A session stands for the connection that has its descriptor now, and a  *)
(* trader is routed to a session of its own: closing erases the session    *)
(* before the descriptor, and accept reuses only closed ones               *)
(* (thread_epoll.cpp:29-38, thread_accept.cpp:40, session_manager.hpp).    *)
THEOREM SessionsStayCurrent == Spec => []SessionsCurrent
BY SessionInvariance, PTL DEF SInv

(* The queue holds the requests of a connection from the first one on, in  *)
(* order, each once, under the trader id of its own login, also while the  *)
(* data callback reads an erased session whose memory is intact; what it   *)
(* makes of other bytes counts as no client's (thread_epoll.cpp:42-70).    *)
THEOREM RequestsStayInOrder == Spec => []RequestsInOrder
BY RequestInvariance, PTL DEF RInv

(* While a connection has a session, what was read from it is in the queue *)
(* or in the session's buffer, and never in both (thread_epoll.cpp:20-70). *)
THEOREM NothingIsLost == Spec => []NothingLost
<1>1. ASSUME SInv, RInv PROVE NothingLost
  <2> SUFFICES ASSUME NEW f \in DOMAIN sessions, NEW n \in 1 .. read[owner[f]]
               PROVE  (\E i \in From(owner[f]) : queue[i].data[2] = n)
                        <=> ~ \E k \in DOMAIN sessions[f].recvBuffer :
                                  sessions[f].recvBuffer[k] = <<owner[f], n>>
    BY DEF NothingLost
  <2> DEFINE c == owner[f]
             b == sessions[f].recvBuffer
             m == read[c] - Len(b)
  <2>1. c \in Conns /\ read[c] \in Nat /\ b \in Seq(Message) /\ Len(b) \in Nat /\ Len(b) <= read[c]
        /\ Continues(c, b, m)
    <3>1. c \in Conns /\ sessions[f] \in ClientSession
      BY <1>1 DEF SInv, TypeOK, SessionsRegistered
    <3>2. read[c] \in Nat
      BY <1>1, <3>1 DEF SInv, TypeOK
    <3>3. b \in Seq(Message) /\ Len(b) \in Nat
      BY <3>1 DEF ClientSession, Message
    <3>4. Len(b) <= read[c] /\ Continues(c, b, m)
      BY <1>1 DEF RInv, BuffersContinue
    <3> QED  BY <3>1, <3>2, <3>3, <3>4
  <2>2. DOMAIN b = 1 .. Len(b) /\ m \in Nat /\ n \in 1 .. read[c] /\ read[c] = m + Len(b)
    BY <2>1
  <2> HIDE DEF b, c, m
  <2>3. CASE n <= m
    <3>1. \E i \in From(c) : queue[i].data[2] = n
      BY <2>1, <2>2, <2>3 DEF Continues
    <3>2. \A k \in DOMAIN b : b[k] # <<c, n>>
      <4> TAKE k \in DOMAIN b
      <4>1. b[k] = <<c, m + k>> /\ m + k # n
        BY <2>1, <2>2, <2>3 DEF Continues
      <4> QED  BY <4>1
    <3> QED  BY <3>1, <3>2 DEF b, c
  <2>4. CASE n > m
    <3>1. n - m \in DOMAIN b /\ m + (n - m) = n
      BY <2>1, <2>2, <2>4
    <3>2. b[n - m] = <<c, n>>
      BY <2>1, <3>1 DEF Continues
    <3>3. ~ \E i \in From(c) : queue[i].data[2] = n
      BY <2>1, <2>2, <2>4 DEF Continues
    <3> QED  BY <3>1, <3>2, <3>3 DEF b, c
  <2> QED  BY <2>2, <2>3, <2>4
<1> QED
  BY <1>1, RequestInvariance, PTL

=============================================================================
