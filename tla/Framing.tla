------------------------------ MODULE Framing ------------------------------
(***************************************************************************)
(* How the byte stream of one connection is cut into messages: the single  *)
(* recv of the login handler (thread_accept.cpp:16-21) and the data        *)
(* callback of the epoll thread, which appends what it reads to recvBuffer *)
(* and takes complete messages off its front (thread_epoll.cpp:20-70).     *)
(* Gateway.tla has the threads and descriptors around it, in units of      *)
(* whole messages; here the network may cut the stream anywhere.           *)
(*                                                                         *)
(* A byte is its offset in the stream.  A message is the interval between  *)
(* two consecutive members of ends, the first one the login request, and   *)
(* its header says its length.  recvBuffer holds the bytes from consumed   *)
(* to received.  The lengths of the wire structs are constants, so that a  *)
(* run can scale them down.                                                *)
(***************************************************************************)
EXTENDS Integers, Sequences

CONSTANTS
  HeaderSize,        \* sizeof(MsgHeader)
  LoginSize,         \* sizeof(LoginRequestMsg)
  Sizes,             \* the lengths of the requests a client sends
  MAX_RAW_MSG_SIZE,
  BufSize,           \* sizeof(buf), what one recv can return
  MaxMsgs            \* bound: requests in a behaviour

ASSUME FramingAssumption ==
  /\ HeaderSize \in Nat \ {0} /\ LoginSize \in Nat /\ LoginSize >= HeaderSize
  /\ Sizes \subseteq Nat /\ \A n \in Sizes : n >= HeaderSize
  /\ MAX_RAW_MSG_SIZE \in Nat /\ BufSize \in Nat \ {0} /\ MaxMsgs \in Nat

VARIABLES
  ends,     \* where the messages end that the client has sent
  arrived,  \* how much of the stream has reached the server's socket
  edge,     \* epoll_wait has an arrival to report
  login,    \* "wait", "done" or "dropped"
  epollAt,  \* "wait", or where the data callback is: "recv" or "frame"
  received, \* how much has been read from the socket
  consumed, \* how much of that has been taken off the buffer
  framed    \* the intervals pushed to the queue

framingVars == <<ends, arrived, edge, login, epollAt, received, consumed, framed>>

Total == ends[Len(ends)]
Least(a, b) == IF a <= b THEN a ELSE b

Init ==
  /\ ends = <<LoginSize>>
  /\ arrived = 0 /\ received = 0 /\ consumed = 0
  /\ edge = FALSE /\ login = "wait" /\ epollAt = "wait"
  /\ framed = <<>>

-----------------------------------------------------------------------------
(* The client and the network.                                             *)

client_send(size) ==
  /\ Len(ends) <= MaxMsgs
  /\ ends' = Append(ends, Total + size)
  /\ UNCHANGED <<arrived, edge, login, epollAt, received, consumed, framed>>

arrive ==
  /\ arrived < Total
  /\ arrived' \in (arrived + 1) .. Total
  /\ edge' = (login = "done")
  /\ UNCHANGED <<ends, login, epollAt, received, consumed, framed>>

-----------------------------------------------------------------------------
(* The login handler: one recv, and a request it does not get as a whole   *)
(* ends the connection.  What has arrived beyond it is reported to epoll   *)
(* when the descriptor is registered.                                      *)

login_recv_Greedy ==
  /\ login = "wait" /\ arrived > 0
  /\ received' = Least(arrived, BufSize) /\ consumed' = received'
  /\ login' = IF received' >= LoginSize THEN "done" ELSE "dropped"
  /\ edge' = (received' < arrived)
  /\ UNCHANGED <<ends, arrived, epollAt, framed>>

login_recv ==
  /\ login = "wait" /\ arrived > 0
  /\ received' = Least(arrived, LoginSize) /\ consumed' = received'
  /\ login' = IF received' = LoginSize THEN "done" ELSE "dropped"
  /\ edge' = (login' = "done" /\ received' < arrived)
  /\ UNCHANGED <<ends, arrived, epollAt, framed>>

-----------------------------------------------------------------------------
(* The data callback.                                                      *)

epoll_wait ==
  /\ epollAt = "wait" /\ edge
  /\ epollAt' = "recv" /\ edge' = FALSE
  /\ UNCHANGED <<ends, arrived, login, received, consumed, framed>>

recv_data_Once ==
  /\ epollAt = "recv" /\ received < arrived
  /\ received' = Least(arrived, received + BufSize)
  /\ epollAt' = "frame"
  /\ UNCHANGED <<ends, arrived, edge, login, consumed, framed>>

recv_data ==
  /\ epollAt = "recv" /\ received < arrived
  /\ received' = Least(arrived, received + BufSize)
  /\ UNCHANGED <<ends, arrived, edge, login, epollAt, consumed, framed>>

(* EAGAIN.                                                                 *)
recv_again ==
  /\ epollAt = "recv" /\ received = arrived
  /\ epollAt' = "frame"
  /\ UNCHANGED <<ends, arrived, edge, login, received, consumed, framed>>

Buffered == received - consumed

(* The length in the header at the front of the buffer; where no message   *)
(* starts, the bytes could say anything.                                   *)
HeaderLengths ==
  LET starts == {i \in 1 .. Len(ends) - 1 : ends[i] = consumed}
  IN  IF starts = {} THEN Sizes ELSE {ends[i + 1] - ends[i] : i \in starts}

Complete_Header(len) == Buffered >= HeaderSize

Complete(len) == Buffered >= HeaderSize /\ Buffered >= len

frame_wait ==
  /\ epollAt = "frame"
  /\ \/ Buffered < HeaderSize
     \/ \E len \in HeaderLengths : ~Complete(len)
  /\ epollAt' = "wait"
  /\ UNCHANGED <<ends, arrived, edge, login, received, consumed, framed>>

frame_drop ==
  /\ epollAt = "frame"
  /\ \E len \in HeaderLengths :
       /\ Complete(len) /\ len > MAX_RAW_MSG_SIZE
       /\ consumed' = consumed + len
  /\ UNCHANGED <<ends, arrived, edge, login, epollAt, received, framed>>

frame_push_Once ==
  /\ epollAt = "frame"
  /\ \E len \in HeaderLengths :
       /\ Complete(len) /\ len <= MAX_RAW_MSG_SIZE
       /\ framed' = Append(framed, <<consumed, consumed + len>>)
       /\ consumed' = consumed + len
  /\ epollAt' = "wait"
  /\ UNCHANGED <<ends, arrived, edge, login, received>>

frame_push ==
  /\ epollAt = "frame"
  /\ \E len \in HeaderLengths :
       /\ Complete(len) /\ len <= MAX_RAW_MSG_SIZE
       /\ framed' = Append(framed, <<consumed, consumed + len>>)
       /\ consumed' = consumed + len
  /\ UNCHANGED <<ends, arrived, edge, login, epollAt, received>>

EpollThread == epoll_wait \/ recv_data \/ recv_again \/ frame_wait \/ frame_drop \/ frame_push

Next ==
  \/ \E size \in Sizes : client_send(size)
  \/ arrive
  \/ login_recv
  \/ EpollThread

Spec == Init /\ [][Next]_framingVars

(* The network delivers what was sent, and the server's threads run.       *)
FairSpec ==
  Spec /\ WF_framingVars(arrive) /\ WF_framingVars(login_recv) /\ WF_framingVars(EpollThread)

-----------------------------------------------------------------------------
(* Nothing is taken off the buffer, read or delivered before its time.     *)
TypeOK ==
  /\ ends \in Seq(Nat) /\ ends # <<>>
  /\ arrived \in 0 .. Total /\ received \in 0 .. arrived /\ consumed \in 0 .. received
  /\ edge \in BOOLEAN
  /\ login \in {"wait", "done", "dropped"}
  /\ epollAt \in {"wait", "recv", "frame"}
  /\ framed \in Seq(Nat \X Nat)

(* Message i of the stream, the login request not counted.                 *)
Message(i) == <<ends[i], ends[i + 1]>>
Fits(i) == ends[i + 1] - ends[i] <= MAX_RAW_MSG_SIZE

(* However the stream is cut on its way, what is pushed are messages the   *)
(* client sent, in order, each whole, received to its last byte and once;  *)
(* and of what has left the buffer nothing is missing but the messages     *)
(* above MAX_RAW_MSG_SIZE (thread_epoll.cpp:42-70).                        *)
WholeMessages ==
  /\ \A j \in DOMAIN framed : \E i \in 1 .. Len(ends) - 1 : framed[j] = Message(i) /\ Fits(i)
  /\ \A j, k \in DOMAIN framed : j < k => framed[j][2] <= framed[k][1]
  /\ \A i \in 1 .. Len(ends) - 1 :
       login = "done" /\ ends[i + 1] <= consumed /\ Fits(i)
         => \E j \in DOMAIN framed : framed[j] = Message(i)

(* When the callback has returned, no complete message is left in the      *)
(* buffer: epoll would not report it again (thread_epoll.cpp:20-47).       *)
NoneHeldBack ==
  epollAt = "wait" /\ login = "done" =>
    \A i \in 1 .. Len(ends) - 1 : ends[i + 1] <= received => ends[i + 1] <= consumed

(* Every request leaves the buffer in the end, in whatever pieces and with *)
(* whatever pauses it arrives, unless the login request itself came in     *)
(* pieces (thread_accept.cpp:18).                                          *)
AllFramed ==
  \A i \in 1 .. MaxMsgs :
    Len(ends) > i ~> (login = "dropped" \/ (Len(ends) > i /\ consumed >= ends[i + 1]))

=============================================================================
