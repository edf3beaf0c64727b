------------------------------ MODULE Gateway ------------------------------
(***************************************************************************)
(* How requests get into the server: the accept thread, one login thread   *)
(* per connection, the session manager they share with the epoll thread,   *)
(* and the epoll thread itself, up to the queue of the matching thread     *)
(* (thread_accept.cpp, thread_epoll.cpp, session_manager.hpp,              *)
(* epoll_mgr.cpp, tcp_server.cpp).                                         *)
(*                                                                         *)
(* Every system call and every section under the mutex of the session      *)
(* manager is a step of its own, since the threads interleave there.       *)
(* The kernel is external: it gives accept the lowest free descriptor,     *)
(* and reports a watched descriptor once per arrival (EPOLLET).            *)
(*                                                                         *)
(* A byte stream is abstracted to whole messages, message n of connection  *)
(* c being <<c, n>>.  After a disconnect the data callback goes on to read *)
(* the session it has just erased (thread_epoll.cpp:42): it finds the      *)
(* session as it was, or, once, bytes that count as nobody's.              *)
(*                                                                         *)
(* An operator F_Fault is F with a plausible mistake; no specification     *)
(* uses it.                                                                *)
(***************************************************************************)
EXTENDS Integers, Sequences, FiniteSetsExt, SequencesExt

CONSTANTS
  Conns,      \* connections, each of which connects at most once
  Traders,    \* the trader ids clients log in with
  Fds,        \* descriptors, numbers
  MaxMsgs,    \* bound: requests a client sends on one connection
  QueueSlots, \* capacity of the queue to the matching thread
  None        \* the owner of a free descriptor, a trader id not yet known

ASSUME GatewayAssumption ==
  /\ Fds \subseteq Nat /\ Fds # {}
  /\ MaxMsgs \in Nat /\ QueueSlots \in Nat \ {0}
  /\ None \notin Conns \cup Traders

VARIABLES
  link,        \* of a connection: "off", "open", "shut" (FIN) or "reset"
  trader,      \* the trader id of its login request, None before the server has read it
  sent, read,  \* how many requests its client sent, and the server received
  owner,       \* the descriptor table
  nonblocking, \* the connections whose socket does not block
  watched,     \* the descriptors registered with epoll
  edge,        \* those with an arrival that epoll_wait has not reported
  login,       \* where the login thread of a connection is
  sessions,    \* SessionManager::sessions: descriptor -> [traderId, recvBuffer]
  traderToFd,  \* SessionManager::traderToFd
  events,      \* what epoll_wait reported and is yet to be handled: fd -> "in" or "hup"
  epollAt,     \* where the epoll thread is
  epollFd,     \* the descriptor its callback is about
  freed,       \* the erased session the data callback still points to, <<>> if none
  queue        \* the raw messages pushed for the matching thread

kernelVars  == <<link, trader, sent, read, owner, nonblocking, watched, edge>>
sessionVars == <<sessions, traderToFd>>
epollVars   == <<events, epollAt, epollFd, freed>>
gatewayVars == <<kernelVars, login, sessionVars, epollVars, queue>>

ClientSession == [traderId : Traders, recvBuffer : Seq(Conns \X (1 .. MaxMsgs))]
(* What no client sent.                                                    *)
Garbage == <<None, 0>>

FdOf(c) == {f \in Fds : owner[f] = c}
EmptyMap == [f \in {} |-> None]
Put(map, key, value) == [k \in DOMAIN map \cup {key} |-> IF k = key THEN value ELSE map[k]]
Erase(map, key) == [k \in DOMAIN map \ {key} |-> map[k]]

Init ==
  /\ link = [c \in Conns |-> "off"]
  /\ trader = [c \in Conns |-> None]
  /\ sent = [c \in Conns |-> 0] /\ read = [c \in Conns |-> 0]
  /\ owner = [f \in Fds |-> None]
  /\ nonblocking = {} /\ watched = {} /\ edge = {}
  /\ login = [c \in Conns |-> "none"]
  /\ sessions = EmptyMap /\ traderToFd = EmptyMap
  /\ events = EmptyMap /\ epollAt = "wait" /\ epollFd = None /\ freed = <<>>
  /\ queue = <<>>

-----------------------------------------------------------------------------
(* The clients and the network.                                            *)

(* Something arrives on a connection: its descriptor, if watched, is ready.*)
Arrival(c) == edge' = edge \cup (FdOf(c) \cap watched)

client_connect(c) ==
  /\ link[c] = "off"
  /\ link' = [link EXCEPT ![c] = "open"]
  /\ UNCHANGED <<trader, sent, read, owner, nonblocking, watched, edge, login, sessionVars, epollVars, queue>>

client_send(c) ==
  /\ link[c] = "open" /\ sent[c] < MaxMsgs
  /\ sent' = [sent EXCEPT ![c] = @ + 1]
  /\ Arrival(c)
  /\ UNCHANGED <<link, trader, read, owner, nonblocking, watched, login, sessionVars, epollVars, queue>>

(* The client closes, in good order or with a reset.                       *)
client_close(c, how) ==
  /\ link[c] \in {"open", "shut"} \ {how}
  /\ link' = [link EXCEPT ![c] = how]
  /\ Arrival(c)
  /\ UNCHANGED <<trader, sent, read, owner, nonblocking, watched, login, sessionVars, epollVars, queue>>

-----------------------------------------------------------------------------
(* The session manager; each operation runs under its mutex.               *)

add_Swapped(fd, traderId) ==
  /\ sessions' = Put(sessions, fd, [traderId |-> traderId, recvBuffer |-> <<>>])
  /\ traderToFd' = Put(traderToFd, fd, traderId)

add(fd, traderId) ==
  /\ sessions' = Put(sessions, fd, [traderId |-> traderId, recvBuffer |-> <<>>])
  /\ traderToFd' = Put(traderToFd, traderId, fd)

remove_KeepRoute(fd) ==
  /\ sessions' = Erase(sessions, fd)
  /\ UNCHANGED traderToFd

remove(fd) ==
  IF fd \in DOMAIN sessions
  THEN /\ traderToFd' = Erase(traderToFd, sessions[fd].traderId)
       /\ sessions' = Erase(sessions, fd)
  ELSE UNCHANGED sessionVars

getSession(fd) == fd \in DOMAIN sessions
getFd(id) == IF id \in DOMAIN traderToFd THEN traderToFd[id] ELSE -1
getAllFds == DOMAIN sessions

-----------------------------------------------------------------------------
(* The accept thread and the login threads.                                *)

accept(c) ==
  /\ link[c] # "off" /\ login[c] = "none"
  /\ FdOf(None) # {}
  /\ owner' = [owner EXCEPT ![Min(FdOf(None))] = c]
  /\ login' = [login EXCEPT ![c] = "recv"]
  /\ UNCHANGED <<link, trader, sent, read, nonblocking, watched, edge, sessionVars, epollVars, queue>>

CloseFd(fd) ==
  /\ owner' = [owner EXCEPT ![fd] = None]
  /\ watched' = watched \ {fd}
  /\ edge' = edge \ {fd}

LoginAfter_WatchFirst ==
  [recv |-> "respond", respond |-> "watch", watch |-> "add", add |-> "nonblock", nonblock |-> "done"]

LoginAfter_AddFirst ==
  [recv |-> "add", add |-> "respond", respond |-> "nonblock", nonblock |-> "watch", watch |-> "done"]

(* The order of the login handler: answer, register the session, make the  *)
(* socket non-blocking, and only then let epoll watch it.                  *)
LoginAfter ==
  [recv |-> "respond", respond |-> "add", add |-> "nonblock", nonblock |-> "watch", watch |-> "done"]

LoginStep(c) == login' = [login EXCEPT ![c] = LoginAfter[@]]

(* recv returned a whole login request.                                    *)
login_recv(c) ==
  /\ login[c] = "recv" /\ link[c] # "reset"
  /\ \E t \in Traders : trader' = [trader EXCEPT ![c] = t]
  /\ LoginStep(c)
  /\ UNCHANGED <<link, sent, read, owner, nonblocking, watched, edge, sessionVars, epollVars, queue>>

(* recv failed, returned part of it, or it is no login request: the socket *)
(* is closed on destruction.                                               *)
login_drop(c) ==
  /\ login[c] = "recv"
  /\ login' = [login EXCEPT ![c] = "dropped"]
  /\ \E fd \in FdOf(c) : CloseFd(fd)
  /\ UNCHANGED <<link, trader, sent, read, nonblocking, sessionVars, epollVars, queue>>

(* The response is sent; the outcome of the send is ignored.               *)
login_respond(c) ==
  /\ login[c] = "respond"
  /\ LoginStep(c)
  /\ UNCHANGED <<kernelVars, sessionVars, epollVars, queue>>

login_add(c) ==
  /\ login[c] = "add"
  /\ LoginStep(c)
  /\ \E fd \in FdOf(c) : add(fd, trader[c])
  /\ UNCHANGED <<kernelVars, epollVars, queue>>

login_nonblock(c) ==
  /\ login[c] = "nonblock"
  /\ LoginStep(c)
  /\ nonblocking' = nonblocking \cup {c}
  /\ UNCHANGED <<link, trader, sent, read, owner, watched, edge, sessionVars, epollVars, queue>>

(* EpollMgr::add.  What has already arrived counts as an arrival.          *)
login_watch(c) ==
  /\ login[c] = "watch"
  /\ LoginStep(c)
  /\ watched' = watched \cup FdOf(c)
  /\ edge' = IF read[c] < sent[c] \/ link[c] # "open" THEN edge \cup FdOf(c) ELSE edge
  /\ UNCHANGED <<link, trader, sent, read, owner, nonblocking, sessionVars, epollVars, queue>>

(* EPOLL_CTL_ADD failed, which is only logged: the session stays, and      *)
(* nobody reads from its connection or notices that it ends.               *)
login_watch_fails(c) ==
  /\ login[c] = "watch"
  /\ login' = [login EXCEPT ![c] = "unwatched"]
  /\ UNCHANGED <<kernelVars, sessionVars, epollVars, queue>>

Login(c) ==
  \/ login_recv(c) \/ login_drop(c) \/ login_respond(c)
  \/ login_add(c) \/ login_nonblock(c) \/ login_watch(c) \/ login_watch_fails(c)

-----------------------------------------------------------------------------
(* The epoll thread: EpollMgr::run and the two callbacks.                  *)

epoll_wait ==
  /\ epollAt = "wait" /\ edge # {}
  /\ events' = [f \in edge |-> IF link[owner[f]] = "reset" THEN "hup" ELSE "in"]
  /\ edge' = {}
  /\ epollAt' = "next"
  /\ UNCHANGED <<link, trader, sent, read, owner, nonblocking, watched, login, sessionVars, epollFd, freed, queue>>

(* The next reported descriptor: to the disconnect callback on EPOLLHUP,   *)
(* to the data callback otherwise, which returns when there is no session. *)
epoll_next ==
  /\ epollAt = "next"
  /\ \/ /\ events = EmptyMap
        /\ epollAt' = "wait" /\ epollFd' = None /\ UNCHANGED events
     \/ \E fd \in DOMAIN events :
          /\ epollFd' = fd
          /\ events' = Erase(events, fd)
          /\ epollAt' = IF events[fd] = "hup" THEN "forget"
                        ELSE IF getSession(fd) THEN "recv" ELSE "next"
  /\ freed' = <<>>
  /\ UNCHANGED <<kernelVars, login, sessionVars, queue>>

(* The connection of the callback.                                         *)
Conn == owner[epollFd]

recv_data ==
  /\ epollAt = "recv"
  /\ read[Conn] < sent[Conn] /\ link[Conn] # "reset"
  /\ read' = [read EXCEPT ![Conn] = @ + 1]
  /\ sessions' = [sessions EXCEPT ![epollFd].recvBuffer = Append(@, <<Conn, read[Conn] + 1>>)]
  /\ UNCHANGED <<link, trader, sent, owner, nonblocking, watched, edge, login, traderToFd, epollVars, queue>>

(* EAGAIN; a blocking socket would keep the thread in recv.                *)
recv_again ==
  /\ epollAt = "recv"
  /\ read[Conn] = sent[Conn] /\ link[Conn] = "open" /\ Conn \in nonblocking
  /\ epollAt' = "frame"
  /\ UNCHANGED <<kernelVars, login, sessionVars, events, epollFd, freed, queue>>

(* End of stream or an error: EpollMgr::remove, then the session and the   *)
(* descriptor go, and the callback carries on with the erased session.     *)
recv_closed ==
  /\ epollAt = "recv"
  /\ link[Conn] = "reset" \/ (link[Conn] = "shut" /\ read[Conn] = sent[Conn])
  /\ watched' = watched \ {epollFd} /\ edge' = edge \ {epollFd}
  /\ freed' = <<sessions[epollFd]>>
  /\ epollAt' = "forget"
  /\ UNCHANGED <<link, trader, sent, read, owner, nonblocking, login, sessionVars, events, epollFd, queue>>

epoll_forget_Kept ==
  /\ epollAt = "forget"
  /\ epollAt' = "close"
  /\ UNCHANGED <<kernelVars, login, sessionVars, events, epollFd, freed, queue>>

epoll_forget ==
  /\ epollAt = "forget"
  /\ remove(epollFd)
  /\ epollAt' = "close"
  /\ UNCHANGED <<kernelVars, login, events, epollFd, freed, queue>>

epoll_close_Leak ==
  /\ epollAt = "close"
  /\ epollAt' = IF freed = <<>> THEN "next" ELSE "frame"
  /\ UNCHANGED <<kernelVars, login, sessionVars, events, epollFd, freed, queue>>

epoll_close ==
  /\ epollAt = "close"
  /\ CloseFd(epollFd)
  /\ epollAt' = IF freed = <<>> THEN "next" ELSE "frame"
  /\ UNCHANGED <<link, trader, sent, read, nonblocking, login, sessionVars, events, epollFd, freed, queue>>

RawMessage(traderId, data) == [traderId |-> traderId, data |-> data]

(* push spins while the queue is full.                                     *)
rawQueue_push(raw) == Len(queue) < QueueSlots /\ queue' = Append(queue, raw)

frame_push_Back ==
  /\ epollAt = "frame" /\ freed = <<>>
  /\ sessions[epollFd].recvBuffer # <<>>
  /\ rawQueue_push(RawMessage(sessions[epollFd].traderId, Last(sessions[epollFd].recvBuffer)))
  /\ sessions' = [sessions EXCEPT ![epollFd].recvBuffer = Front(@)]
  /\ UNCHANGED <<kernelVars, login, traderToFd, epollVars>>

frame_push_Clear ==
  /\ epollAt = "frame" /\ freed = <<>>
  /\ sessions[epollFd].recvBuffer # <<>>
  /\ rawQueue_push(RawMessage(sessions[epollFd].traderId, Head(sessions[epollFd].recvBuffer)))
  /\ sessions' = [sessions EXCEPT ![epollFd].recvBuffer = <<>>]
  /\ UNCHANGED <<kernelVars, login, traderToFd, epollVars>>

frame_push ==
  /\ epollAt = "frame" /\ freed = <<>>
  /\ sessions[epollFd].recvBuffer # <<>>
  /\ rawQueue_push(RawMessage(sessions[epollFd].traderId, Head(sessions[epollFd].recvBuffer)))
  /\ sessions' = [sessions EXCEPT ![epollFd].recvBuffer = Tail(@)]
  /\ UNCHANGED <<kernelVars, login, traderToFd, epollVars>>

frame_done ==
  /\ epollAt = "frame" /\ freed = <<>>
  /\ sessions[epollFd].recvBuffer = <<>>
  /\ epollAt' = "next"
  /\ UNCHANGED <<kernelVars, login, sessionVars, events, epollFd, freed, queue>>

(* The loop over an erased session.  While its memory is intact, it frames *)
(* what the session held.  Once it is not, the loop may push bytes of any  *)
(* kind under any trader id: one message stands for them, and it is told   *)
(* apart from all that clients sent, also where its bytes repeat or mix    *)
(* those of a client.  In the end the loop leaves.                         *)
frame_freed ==
  /\ epollAt = "frame" /\ freed # <<>>
  /\ \/ /\ freed[1].recvBuffer # <<>>
        /\ rawQueue_push(RawMessage(freed[1].traderId, Head(freed[1].recvBuffer)))
        /\ freed' = <<[freed[1] EXCEPT !.recvBuffer = Tail(@)]>>
        /\ UNCHANGED epollAt
     \/ /\ \E t \in Traders : rawQueue_push(RawMessage(t, Garbage))
        /\ freed' = <<>> /\ epollAt' = "next"
     \/ /\ freed' = <<>> /\ epollAt' = "next"
        /\ UNCHANGED queue
  /\ UNCHANGED <<kernelVars, login, sessionVars, events, epollFd>>

EpollThread ==
  \/ epoll_wait \/ epoll_next
  \/ recv_data \/ recv_again \/ recv_closed
  \/ epoll_forget \/ epoll_close
  \/ frame_push \/ frame_done \/ frame_freed

Clients(c) == client_connect(c) \/ client_send(c) \/ client_close(c, "shut") \/ client_close(c, "reset")

Next ==
  \/ EpollThread
  \/ \E c \in Conns : Clients(c) \/ accept(c) \/ Login(c)

Spec == Init /\ [][Next]_gatewayVars

-----------------------------------------------------------------------------
TypeOK ==
  /\ link \in [Conns -> {"off", "open", "shut", "reset"}]
  /\ trader \in [Conns -> Traders \cup {None}]
  /\ sent \in [Conns -> 0 .. MaxMsgs] /\ read \in [Conns -> 0 .. MaxMsgs]
  /\ owner \in [Fds -> Conns \cup {None}]
  /\ nonblocking \subseteq Conns /\ watched \subseteq Fds /\ edge \subseteq watched
  /\ login \in [Conns -> {"none", "recv", "respond", "add", "nonblock", "watch", "done", "unwatched", "dropped"}]
  /\ DOMAIN sessions \subseteq Fds
  /\ \A f \in DOMAIN sessions : sessions[f] \in ClientSession
  /\ DOMAIN traderToFd \subseteq Traders
  /\ \A t \in DOMAIN traderToFd : traderToFd[t] \in Fds
  /\ DOMAIN events \subseteq Fds
  /\ \A f \in DOMAIN events : events[f] \in {"in", "hup"}
  /\ epollAt \in {"wait", "next", "recv", "forget", "close", "frame"}
  /\ epollFd \in Fds \cup {None}
  /\ \A i \in DOMAIN freed : freed[i] \in ClientSession
  /\ \A i \in DOMAIN queue : queue[i].traderId \in Traders

(* The two maps of the session manager agree with the descriptor table:    *)
(* a session stands for the connection that has its descriptor now, never  *)
(* for an earlier one, and getFd leads to a session of that trader.        *)
SessionsCurrent ==
  /\ \A f \in DOMAIN sessions :
        owner[f] # None /\ sessions[f].traderId = trader[owner[f]]
  /\ \A t \in DOMAIN traderToFd :
        getSession(traderToFd[t]) /\ sessions[traderToFd[t]].traderId = t

(* Where in the queue the requests of a connection are.                    *)
From(c) == {i \in DOMAIN queue : queue[i].data[1] = c}

(* What reaches the queue from a connection are the requests its client    *)
(* sent, from the first one on, in order, none twice and none left out,    *)
(* under the trader id of its login (thread_epoll.cpp:42-70).              *)
RequestsInOrder ==
  \A c \in Conns : \A i \in From(c) :
     /\ queue[i].traderId = trader[c]
     /\ \A j \in From(c) : j < i => queue[j].data[2] < queue[i].data[2]
     /\ \A n \in 1 .. queue[i].data[2] - 1 : \E j \in From(c) : j < i /\ queue[j].data[2] = n

(* What the server has read from a connection with a session is in the     *)
(* queue or waits in that session's buffer, and not in both.               *)
NothingLost ==
  \A f \in DOMAIN sessions : \A n \in 1 .. read[owner[f]] :
     (\E i \in From(owner[f]) : queue[i].data[2] = n)
       <=> ~ \E k \in DOMAIN sessions[f].recvBuffer : sessions[f].recvBuffer[k] = <<owner[f], n>>

(* How many requests of c have left the receive buffer of its session.     *)
Framed(c) ==
  read[c] - MapThenSumSet(LAMBDA f : Len(sessions[f].recvBuffer), FdOf(c) \cap DOMAIN sessions)

(* A request on a connection that was accepted and stays up reaches the    *)
(* queue, although epoll reports each arrival only once: no wake-up is     *)
(* lost between login and epoll thread (thread_accept.cpp:40-46), unless   *)
(* epoll refused to watch it.                                              *)
RequestsArrive ==
  \A c \in Conns : \A n \in 1 .. MaxMsgs :
     (login[c] # "none" /\ sent[c] >= n)
       ~> (Framed(c) >= n \/ link[c] # "open" \/ login[c] \in {"dropped", "unwatched"})

(* The descriptor of a client that went away is closed: none leaks but     *)
(* that of a connection epoll refused to watch (epoll_mgr.cpp:27-29).      *)
DescriptorsReleased ==
  \A c \in Conns :
     (link[c] \in {"shut", "reset"} /\ FdOf(c) # {}) ~> (FdOf(c) = {} \/ login[c] = "unwatched")

-----------------------------------------------------------------------------
(* What the comments of the code say and the code does not do.             *)

(* "Get fd for a given traderId. Returns -1 if not found."                 *)
(* (session_manager.hpp:51): the trader of a live session is found.        *)
TraderReachable ==
  \A f \in DOMAIN sessions : getFd(sessions[f].traderId) # -1

(* "frame complete messages and push raw bytes to the queue"               *)
(* (thread_epoll.cpp:40): after the callback nothing received is missing.  *)
FramesPushed ==
  epollAt = "wait" =>
    \A c \in Conns : \A n \in 1 .. read[c] : \E i \in From(c) : queue[i].data[2] = n

=============================================================================
