-------------------------- MODULE FramingProofs ----------------------------
(***************************************************************************)
(* Proofs about the framing of a connection's byte stream, for every size  *)
(* of header, login request, requests and receive buffer, however the      *)
(* network cuts the stream: what is pushed are whole messages, in order    *)
(* and once, and a callback that has returned left none in the buffer.     *)
(***************************************************************************)
EXTENDS Framing, TLAPS

-----------------------------------------------------------------------------
(* The inductive invariant.                                                *)

(* Every message is at least a header long, and the login request is first.*)
EndsApart ==
  /\ ends[1] = LoginSize
  /\ \A i, j \in DOMAIN ends : i < j => ends[i] + HeaderSize <= ends[j]

(* Until the login handler has succeeded, nothing is read or framed.       *)
LoginFirst ==
  /\ login = "wait" => received = 0
  /\ login # "done" => ~edge /\ epollAt = "wait" /\ framed = <<>>

(* The front of the buffer is where a message ends, never inside one.      *)
AtBoundary == login = "done" => \E k \in DOMAIN ends : ends[k] = consumed

(* What was pushed has left the buffer.                                    *)
FramedConsumed == \A j \in DOMAIN framed : framed[j][2] <= consumed

FInv ==
  /\ TypeOK /\ EndsApart /\ LoginFirst /\ AtBoundary /\ FramedConsumed
  /\ WholeMessages /\ NoneHeldBack

-----------------------------------------------------------------------------
(* The front of the buffer.                                                *)

(* At the start of message k, its own length is the one in the header      *)
(* (thread_epoll.cpp:44-45).                                               *)
LEMMA HeaderOfMessage ==
  ASSUME TypeOK, EndsApart, NEW k \in DOMAIN ends, ends[k] = consumed, k < Len(ends)
  PROVE  HeaderLengths = {ends[k + 1] - ends[k]}
<1>1. \A i, j \in DOMAIN ends : i < j => ends[i] # ends[j]
  BY FramingAssumption DEF TypeOK, EndsApart
<1>2. k \in 1 .. Len(ends) - 1 /\ DOMAIN ends = 1 .. Len(ends)
  BY DEF TypeOK
<1>3. {i \in 1 .. Len(ends) - 1 : ends[i] = consumed} = {k}
  <2> SUFFICES ASSUME NEW i \in 1 .. Len(ends) - 1, ends[i] = consumed
               PROVE  i = k
    BY <1>2
  <2>1. i \in DOMAIN ends /\ ~(i < k) /\ ~(k < i)
    BY <1>1, <1>2
  <2> QED  BY <2>1, <1>2
<1> QED
  BY <1>3 DEF HeaderLengths

(* A complete message is the next one the client sent: the loop never sees *)
(* a header where no message starts.                                       *)
LEMMA CompleteIsNext ==
  ASSUME TypeOK, EndsApart, AtBoundary, login = "done",
         NEW len \in HeaderLengths, Complete(len)
  PROVE  \E k \in 1 .. Len(ends) - 1 :
           /\ ends[k] = consumed /\ ends[k + 1] = consumed + len
           /\ ends[k + 1] <= received
<1>1. PICK k \in DOMAIN ends : ends[k] = consumed
  BY DEF AtBoundary
<1>2. DOMAIN ends = 1 .. Len(ends) /\ Len(ends) \in Nat
  BY DEF TypeOK
<1>3. k < Len(ends)
  <2> SUFFICES ASSUME k = Len(ends) PROVE FALSE
    BY <1>2
  <2>1. consumed = Total /\ received <= consumed
    BY <1>1 DEF TypeOK, Total
  <2> QED  BY <2>1, FramingAssumption DEF Complete, Buffered, TypeOK
<1>4. HeaderLengths = {ends[k + 1] - ends[k]}
  BY <1>1, <1>3, HeaderOfMessage
<1>5. ends[k] \in Nat /\ ends[k + 1] \in Nat
  BY <1>2, <1>3 DEF TypeOK
<1> QED
  BY <1>1, <1>2, <1>3, <1>4, <1>5 DEF Complete, Buffered, TypeOK

(* What ends no later than the message after k, and is not that message,   *)
(* ends no later than k.                                                   *)
LEMMA EndedBefore ==
  ASSUME TypeOK, EndsApart, NEW k \in 1 .. Len(ends) - 1, NEW i \in 1 .. Len(ends) - 1,
         i # k, ends[i + 1] <= ends[k + 1]
  PROVE  ends[i + 1] <= ends[k]
<1>1. /\ Len(ends) \in Nat /\ DOMAIN ends = 1 .. Len(ends)
      /\ \A n \in DOMAIN ends : ends[n] \in Nat
  BY DEF TypeOK
<1>2. k \in DOMAIN ends /\ k + 1 \in DOMAIN ends /\ i + 1 \in DOMAIN ends
  BY <1>1
<1>3. k + 1 < i + 1 => ends[k + 1] + HeaderSize <= ends[i + 1]
  BY <1>2 DEF EndsApart
<1>4. ~(k + 1 < i + 1)
  BY <1>1, <1>2, <1>3, FramingAssumption
<1>5. i + 1 = k \/ i + 1 < k
  BY <1>1, <1>2, <1>4
<1>6. i + 1 < k => ends[i + 1] + HeaderSize <= ends[k]
  BY <1>2 DEF EndsApart
<1> QED
  BY <1>1, <1>2, <1>5, <1>6, FramingAssumption

-----------------------------------------------------------------------------
(* One lemma per action.                                                   *)

(* Initially nothing has been sent but the login request.                  *)
LEMMA InitFInv == Init => FInv
<1> SUFFICES ASSUME Init PROVE FInv
  OBVIOUS
<1>1. /\ ends \in Seq(Nat) /\ Len(ends) = 1 /\ ends[1] = LoginSize /\ DOMAIN ends = {1}
      /\ framed \in Seq(Nat \X Nat) /\ DOMAIN framed = {} /\ Total = LoginSize
  BY FramingAssumption DEF Init, Total
<1>2. TypeOK
  <2>1. ends # <<>>
    BY DEF Init
  <2>2. /\ arrived \in 0 .. LoginSize /\ received \in 0 .. arrived /\ consumed \in 0 .. received
    BY FramingAssumption DEF Init
  <2>3. edge \in BOOLEAN /\ login \in {"wait", "done", "dropped"} /\ epollAt \in {"wait", "recv", "frame"}
    BY DEF Init
  <2> QED  BY <1>1, <2>1, <2>2, <2>3 DEF TypeOK
<1>3. EndsApart /\ LoginFirst /\ AtBoundary /\ FramedConsumed
  <2>1. EndsApart
    BY <1>1 DEF EndsApart
  <2>2. LoginFirst /\ AtBoundary
    BY DEF Init, LoginFirst, AtBoundary
  <2>3. FramedConsumed
    BY <1>1 DEF FramedConsumed
  <2> QED  BY <2>1, <2>2, <2>3
<1>4. WholeMessages /\ NoneHeldBack
  BY <1>1 DEF Init, WholeMessages, NoneHeldBack
<1> QED
  BY <1>2, <1>3, <1>4 DEF FInv

(* Sending appends an end beyond everything that has arrived.              *)
LEMMA SendKeeps ==
  ASSUME FInv, NEW size \in Sizes, client_send(size)
  PROVE  FInv'
<1>1. size \in Nat /\ size >= HeaderSize /\ HeaderSize \in Nat \ {0}
  BY FramingAssumption
<1>2. /\ ends \in Seq(Nat) /\ Len(ends) \in Nat \ {0} /\ Total \in Nat
      /\ DOMAIN ends = 1 .. Len(ends)
  BY DEF FInv, TypeOK, Total
<1>3. /\ ends' \in Seq(Nat) /\ Len(ends') = Len(ends) + 1 /\ ends' # <<>>
      /\ DOMAIN ends' = 1 .. Len(ends) + 1
      /\ \A i \in 1 .. Len(ends) : ends'[i] = ends[i]
      /\ ends'[Len(ends) + 1] = Total + size
  BY <1>1, <1>2 DEF client_send
<1>4. Total' = Total + size
  BY <1>3 DEF Total
<1>5. TypeOK'
  BY <1>1, <1>2, <1>3, <1>4 DEF FInv, TypeOK, client_send
<1>6. \A i \in 1 .. Len(ends) : ends[i] <= Total
  <2> TAKE i \in 1 .. Len(ends)
  <2>1. i < Len(ends) => ends[i] + HeaderSize <= ends[Len(ends)]
    BY <1>2 DEF FInv, EndsApart
  <2>2. ends[i] \in Nat /\ ends[Len(ends)] \in Nat
    BY <1>2
  <2> QED  BY <1>1, <1>2, <2>1, <2>2 DEF Total
<1>7. EndsApart'
  <2>1. ends'[1] = LoginSize
    BY <1>2, <1>3 DEF FInv, EndsApart
  <2>2. ASSUME NEW i \in DOMAIN ends', NEW j \in DOMAIN ends', i < j
        PROVE  ends'[i] + HeaderSize <= ends'[j]
    <3>1. CASE j = Len(ends) + 1
      <4>1. i \in 1 .. Len(ends) /\ ends[i] \in Nat
        BY <2>2, <3>1, <1>2, <1>3
      <4> QED  BY <4>1, <3>1, <1>1, <1>2, <1>3, <1>6
    <3>2. CASE j # Len(ends) + 1
      <4>1. i \in 1 .. Len(ends) /\ j \in 1 .. Len(ends)
        BY <2>2, <3>2, <1>2, <1>3
      <4> QED  BY <4>1, <2>2, <1>2, <1>3 DEF FInv, EndsApart
    <3> QED  BY <3>1, <3>2
  <2> QED  BY <2>1, <2>2 DEF EndsApart
<1>8. LoginFirst'
  BY DEF FInv, LoginFirst, client_send
<1>9. AtBoundary' /\ FramedConsumed'
  BY <1>2, <1>3 DEF FInv, AtBoundary, FramedConsumed, client_send
<1>10. \A i \in 1 .. Len(ends) : ~(ends'[i + 1] <= received) \/ i < Len(ends)
  BY <1>1, <1>2, <1>3 DEF FInv, TypeOK
<1>11. \A i \in 1 .. Len(ends) - 1 :
         /\ ends'[i] = ends[i] /\ ends'[i + 1] = ends[i + 1]
         /\ Message(i)' = Message(i) /\ Fits(i)' = Fits(i)
  BY <1>2, <1>3 DEF Message, Fits
<1>12. WholeMessages'
  <2>1. \A j \in DOMAIN framed' :
          \E i \in 1 .. Len(ends') - 1 : framed'[j] = Message(i)' /\ Fits(i)'
    BY <1>2, <1>3, <1>11 DEF FInv, WholeMessages, client_send
  <2>2. \A j, k \in DOMAIN framed' : j < k => framed'[j][2] <= framed'[k][1]
    BY DEF FInv, WholeMessages, client_send
  <2>3. ASSUME NEW i \in 1 .. Len(ends') - 1, login' = "done", ends'[i + 1] <= consumed', Fits(i)'
        PROVE  \E j \in DOMAIN framed' : framed'[j] = Message(i)'
    <3>1. i \in 1 .. Len(ends) /\ ends'[i + 1] \in Nat
      BY <1>2, <1>3
    <3>2. ends'[i + 1] <= received
      BY <2>3, <3>1 DEF FInv, TypeOK, client_send
    <3>3. i \in 1 .. Len(ends) - 1
      BY <3>1, <3>2, <1>2, <1>10
    <3> QED  BY <3>3, <2>3, <1>11 DEF FInv, WholeMessages, client_send
  <2> QED  BY <2>1, <2>2, <2>3 DEF WholeMessages
<1>13. NoneHeldBack'
  <2> SUFFICES ASSUME NEW i \in 1 .. Len(ends') - 1, epollAt' = "wait", login' = "done",
                      ends'[i + 1] <= received'
               PROVE  ends'[i + 1] <= consumed'
    BY DEF NoneHeldBack
  <2>1. i \in 1 .. Len(ends) - 1
    BY <1>2, <1>3, <1>10 DEF client_send
  <2> QED  BY <2>1, <1>11 DEF FInv, NoneHeldBack, client_send
<1> QED
  BY <1>5, <1>7, <1>8, <1>9, <1>12, <1>13 DEF FInv

(* A step that leaves the stream and the buffer's front alone keeps what   *)
(* is said of them.                                                        *)
LEMMA StreamKept ==
  ASSUME FInv, UNCHANGED <<ends, consumed, framed, login>>
  PROVE  EndsApart' /\ AtBoundary' /\ FramedConsumed' /\ WholeMessages'
BY DEF FInv, EndsApart, AtBoundary, FramedConsumed, WholeMessages, Message, Fits

(* Bytes arrive in the socket.                                             *)
LEMMA ArriveKeeps == ASSUME FInv, arrive PROVE FInv'
<1>1. TypeOK'
  BY DEF FInv, TypeOK, arrive, Total
<1>2. LoginFirst' /\ NoneHeldBack'
  BY DEF FInv, LoginFirst, NoneHeldBack, arrive
<1>3. EndsApart' /\ AtBoundary' /\ FramedConsumed' /\ WholeMessages'
  BY StreamKept DEF arrive
<1> QED
  BY <1>1, <1>2, <1>3 DEF FInv

(* The login handler reads at most the login request.                      *)
LEMMA LoginKeeps == ASSUME FInv, login_recv PROVE FInv'
<1>1. /\ received' = Least(arrived, LoginSize) /\ consumed' = received'
      /\ arrived' = arrived /\ ends' = ends /\ framed' = framed /\ epollAt' = epollAt
      /\ framed = <<>> /\ epollAt = "wait"
  BY DEF FInv, LoginFirst, login_recv
<1>2. received' \in Nat /\ received' <= arrived /\ received' <= LoginSize
  BY <1>1, FramingAssumption DEF Least, FInv, TypeOK
<1>3. TypeOK'
  BY <1>1, <1>2, FramingAssumption DEF FInv, TypeOK, login_recv, Total
<1>4. EndsApart' /\ LoginFirst' /\ FramedConsumed'
  <2>1. login' # "done" => ~edge'
    BY DEF login_recv
  <2>2. login' # "wait"
    BY DEF login_recv
  <2>3. DOMAIN framed' = {}
    BY <1>1
  <2> QED  BY <1>1, <2>1, <2>2, <2>3 DEF FInv, EndsApart, LoginFirst, FramedConsumed
<1>5. 1 \in DOMAIN ends /\ DOMAIN ends = 1 .. Len(ends) /\ ends \in Seq(Nat)
  BY DEF FInv, TypeOK
<1>6. AtBoundary'
  BY <1>1, <1>5 DEF AtBoundary, FInv, EndsApart, login_recv
<1>7. \A i \in 1 .. Len(ends) - 1 : ~(ends[i + 1] <= received')
  <2> TAKE i \in 1 .. Len(ends) - 1
  <2>1. i + 1 \in DOMAIN ends /\ 1 < i + 1
    BY <1>5
  <2>2. ends[1] + HeaderSize <= ends[i + 1] /\ ends[i + 1] \in Nat
    BY <1>5, <2>1 DEF FInv, EndsApart
  <2> QED  BY <1>2, <2>2, FramingAssumption DEF FInv, EndsApart
<1>8. WholeMessages' /\ NoneHeldBack'
  BY <1>1, <1>7 DEF WholeMessages, NoneHeldBack, Message, Fits
<1> QED
  BY <1>3, <1>4, <1>6, <1>8 DEF FInv

(* The callback is only entered after a login, so with a stream at a       *)
(* message boundary.                                                       *)
LEMMA CallbackLoggedIn ==
  ASSUME FInv, epollAt # "wait" \/ edge PROVE login = "done"
BY DEF FInv, LoginFirst

(* The steps of the callback that read.                                    *)
LEMMA RecvKeeps == ASSUME FInv, epoll_wait \/ recv_data \/ recv_again PROVE FInv'
<1>1. EndsApart' /\ AtBoundary' /\ FramedConsumed' /\ WholeMessages'
  BY StreamKept DEF epoll_wait, recv_data, recv_again
<1>2. login = "done" /\ login' = "done"
  BY CallbackLoggedIn DEF epoll_wait, recv_data, recv_again
<1>3. TypeOK'
  <2>1. CASE epoll_wait \/ recv_again
    BY <2>1 DEF FInv, TypeOK, epoll_wait, recv_again, Total
  <2>2. CASE recv_data
    BY <2>2, FramingAssumption DEF FInv, TypeOK, recv_data, Total, Least
  <2> QED  BY <2>1, <2>2
<1>4. LoginFirst'
  BY <1>2 DEF LoginFirst
<1>5. NoneHeldBack'
  BY DEF NoneHeldBack, epoll_wait, recv_data, recv_again
<1> QED
  BY <1>1, <1>3, <1>4, <1>5 DEF FInv

(* Leaving the callback: the message at the front, if there is one, is not *)
(* complete, and those behind it end later still.                          *)
LEMMA WaitKeeps == ASSUME FInv, frame_wait PROVE FInv'
<1>1. EndsApart' /\ AtBoundary' /\ FramedConsumed' /\ WholeMessages'
  BY StreamKept DEF frame_wait
<1>2. login = "done" /\ login' = "done"
  BY CallbackLoggedIn DEF frame_wait
<1>3. TypeOK' /\ LoginFirst'
  BY <1>2 DEF FInv, TypeOK, LoginFirst, frame_wait, Total
<1>4. DOMAIN ends = 1 .. Len(ends) /\ Len(ends) \in Nat /\ ends \in Seq(Nat)
  BY DEF FInv, TypeOK
<1>5. PICK k \in DOMAIN ends : ends[k] = consumed
  BY <1>2 DEF FInv, AtBoundary
<1>6. NoneHeldBack'
  <2> SUFFICES ASSUME NEW i \in 1 .. Len(ends) - 1, ends[i + 1] <= received
               PROVE  ends[i + 1] <= consumed
    BY DEF NoneHeldBack, frame_wait
  <2>1. i + 1 \in DOMAIN ends
    BY <1>4
  <2>2. CASE k = Len(ends)
    BY <2>2, <1>5, <2>1 DEF FInv, TypeOK, Total
  <2>3. CASE k < Len(ends)
    <3>1. HeaderLengths = {ends[k + 1] - ends[k]} /\ k + 1 \in DOMAIN ends
      BY <2>3, <1>4, <1>5, HeaderOfMessage DEF FInv
    <3>2. ends[k] + HeaderSize <= ends[k + 1]
      BY <3>1, <1>4 DEF FInv, EndsApart
    <3>3. received < ends[k + 1]
      BY <3>1, <3>2, <1>4, <1>5, FramingAssumption
      DEF frame_wait, Complete, Buffered, FInv, TypeOK
    <3>4. ends[i + 1] < ends[k + 1]
      BY <3>1, <3>3, <2>1, <1>4 DEF FInv, TypeOK
    <3>5. k \in 1 .. Len(ends) - 1 /\ ends[i + 1] \in Nat /\ ends[k + 1] \in Nat
      BY <2>1, <2>3, <3>1, <1>4
    <3>6. i # k /\ ends[i + 1] <= ends[k + 1]
      BY <3>4, <3>5
    <3> QED  BY <3>5, <3>6, <1>5, EndedBefore DEF FInv
  <2> QED  BY <2>2, <2>3, <1>4
<1> QED
  BY <1>1, <1>3, <1>6 DEF FInv

(* A message above MAX_RAW_MSG_SIZE is taken off the buffer unpushed.      *)
LEMMA DropKeeps == ASSUME FInv, frame_drop PROVE FInv'
<1>1. login = "done" /\ login' = "done"
  BY CallbackLoggedIn DEF frame_drop
<1>2. PICK len \in HeaderLengths :
        Complete(len) /\ len > MAX_RAW_MSG_SIZE /\ consumed' = consumed + len
  BY DEF frame_drop
<1>3. PICK k \in 1 .. Len(ends) - 1 :
        ends[k] = consumed /\ ends[k + 1] = consumed + len /\ ends[k + 1] <= received
  BY <1>1, <1>2, CompleteIsNext DEF FInv
<1>4. /\ DOMAIN ends = 1 .. Len(ends) /\ Len(ends) \in Nat /\ ends \in Seq(Nat)
      /\ k \in DOMAIN ends /\ k + 1 \in DOMAIN ends
  BY <1>3 DEF FInv, TypeOK
<1>5. ends[k] + HeaderSize <= ends[k + 1]
  BY <1>4 DEF FInv, EndsApart
<1>6. consumed' = ends[k + 1] /\ consumed < consumed' /\ len = ends[k + 1] - ends[k]
  BY <1>2, <1>3, <1>4, <1>5, FramingAssumption, SMTT(30) DEF FInv, TypeOK, HeaderLengths
<1>7. TypeOK'
  BY <1>3, <1>4, <1>6 DEF FInv, TypeOK, frame_drop, Total
<1>8. EndsApart' /\ LoginFirst' /\ AtBoundary' /\ NoneHeldBack'
  BY <1>1, <1>4, <1>6 DEF FInv, EndsApart, LoginFirst, AtBoundary, NoneHeldBack, frame_drop
<1>9. FramedConsumed'
  <2> SUFFICES ASSUME NEW j \in DOMAIN framed PROVE framed[j][2] <= consumed'
    BY DEF FramedConsumed, frame_drop
  <2>1. framed[j] \in Nat \X Nat
    BY DEF FInv, TypeOK
  <2>2. framed[j][2] \in Nat
    BY <2>1
  <2>3. framed[j][2] <= consumed
    BY DEF FInv, FramedConsumed
  <2>4. consumed \in Nat /\ consumed' \in Nat
    BY <1>4, <1>6, <1>7 DEF FInv, TypeOK
  <2> QED  BY <1>6, <2>2, <2>3, <2>4
<1>10. WholeMessages'
  <2>1. ASSUME NEW i \in 1 .. Len(ends) - 1, ends[i + 1] <= consumed', Fits(i)
        PROVE  \E j \in DOMAIN framed : framed[j] = Message(i)
    <3>1. i # k
      BY <2>1, <1>2, <1>6, FramingAssumption, <1>4 DEF Fits
    <3>2. ends[i + 1] <= consumed
      BY <2>1, <3>1, <1>3, <1>6, EndedBefore DEF FInv
    <3> QED  BY <3>2, <2>1, <1>1 DEF FInv, WholeMessages
  <2> QED  BY <2>1 DEF FInv, WholeMessages, frame_drop, Message, Fits
<1> QED
  BY <1>7, <1>8, <1>9, <1>10 DEF FInv

(* A message within the limit is pushed as it is taken off.                *)
LEMMA PushKeeps == ASSUME FInv, frame_push PROVE FInv'
<1>1. login = "done" /\ login' = "done"
  BY CallbackLoggedIn DEF frame_push
<1>2. PICK len \in HeaderLengths :
        /\ Complete(len) /\ len <= MAX_RAW_MSG_SIZE /\ consumed' = consumed + len
        /\ framed' = Append(framed, <<consumed, consumed + len>>)
  BY DEF frame_push
<1>3. PICK k \in 1 .. Len(ends) - 1 :
        ends[k] = consumed /\ ends[k + 1] = consumed + len /\ ends[k + 1] <= received
  BY <1>1, <1>2, CompleteIsNext DEF FInv
<1>4. /\ DOMAIN ends = 1 .. Len(ends) /\ Len(ends) \in Nat /\ ends \in Seq(Nat)
      /\ k \in DOMAIN ends /\ k + 1 \in DOMAIN ends
      /\ ends[k] \in Nat /\ ends[k + 1] \in Nat
  BY <1>3 DEF FInv, TypeOK
<1>5. ends[k] + HeaderSize <= ends[k + 1]
  BY <1>4 DEF FInv, EndsApart
<1>6. HeaderLengths = {ends[k + 1] - ends[k]}
  BY <1>3, <1>4, HeaderOfMessage DEF FInv
<1>7. /\ consumed' = ends[k + 1] /\ consumed < consumed' /\ Fits(k)
      /\ framed' = Append(framed, Message(k))
  <2>1. len = ends[k + 1] - ends[k]
    BY <1>2, <1>6
  <2>2. consumed' = ends[k + 1] /\ consumed < consumed'
    BY <1>2, <1>3, <1>4, <1>5, FramingAssumption
  <2> QED  BY <1>2, <1>3, <2>1, <2>2 DEF Fits, Message
<1>8. /\ framed \in Seq(Nat \X Nat) /\ framed' \in Seq(Nat \X Nat) /\ Len(framed) \in Nat
      /\ DOMAIN framed = 1 .. Len(framed)
      /\ DOMAIN framed' = 1 .. Len(framed) + 1
      /\ \A j \in DOMAIN framed : framed'[j] = framed[j] /\ j # Len(framed) + 1
      /\ framed'[Len(framed) + 1] = Message(k)
  <2>1. framed \in Seq(Nat \X Nat) /\ Message(k) \in Nat \X Nat
    BY <1>4 DEF FInv, TypeOK, Message
  <2> QED  BY <1>7, <2>1
<1>9. TypeOK'
  BY <1>3, <1>4, <1>7, <1>8 DEF FInv, TypeOK, frame_push, Total
<1>10. EndsApart' /\ LoginFirst' /\ AtBoundary' /\ NoneHeldBack'
  BY <1>1, <1>4, <1>7 DEF FInv, EndsApart, LoginFirst, AtBoundary, NoneHeldBack, frame_push
<1>11. \A j \in DOMAIN framed : framed[j][2] \in Nat /\ framed[j][2] <= consumed
  BY <1>8 DEF FInv, FramedConsumed
<1>12. \A j \in DOMAIN framed' : j \in DOMAIN framed \/ j = Len(framed) + 1
  BY <1>8
<1>13. FramedConsumed'
  <2> SUFFICES ASSUME NEW j \in DOMAIN framed' PROVE framed'[j][2] <= consumed'
    BY DEF FramedConsumed
  <2>1. CASE j \in DOMAIN framed
    <3>1. framed'[j][2] \in Nat /\ framed'[j][2] <= consumed
      BY <2>1, <1>8, <1>11
    <3> QED  BY <3>1, <1>3, <1>4, <1>7
  <2>2. CASE j = Len(framed) + 1
    BY <2>2, <1>8, <1>7, <1>4 DEF Message
  <2> QED  BY <2>1, <2>2, <1>12
<1>14. ends' = ends /\ login' = login
  BY DEF frame_push
<1>15. ASSUME NEW j \in DOMAIN framed'
       PROVE  \E i \in 1 .. Len(ends) - 1 : framed'[j] = Message(i) /\ Fits(i)
  BY <1>12, <1>8, <1>7, <1>3 DEF FInv, WholeMessages
<1>16. ASSUME NEW j \in DOMAIN framed', NEW m \in DOMAIN framed', j < m
       PROVE  framed'[j][2] <= framed'[m][1]
  <2>1. CASE m \in DOMAIN framed
    <3>1. j \in DOMAIN framed
      BY <2>1, <1>16, <1>8
    <3> QED  BY <3>1, <2>1, <1>16, <1>8 DEF FInv, WholeMessages
  <2>2. CASE m = Len(framed) + 1
    <3>1. j \in DOMAIN framed
      BY <2>2, <1>16, <1>8
    <3> QED  BY <3>1, <2>2, <1>8, <1>11, <1>3 DEF Message
  <2> QED  BY <2>1, <2>2, <1>12
<1>17. ASSUME NEW i \in 1 .. Len(ends) - 1, ends[i + 1] <= consumed', Fits(i)
       PROVE  \E j \in DOMAIN framed' : framed'[j] = Message(i)
  <2>1. CASE i = k
    <3>1. Len(framed) + 1 \in DOMAIN framed'
      BY <1>8
    <3> QED  BY <2>1, <3>1, <1>8
  <2>2. CASE i # k
    <3>1. ends[i + 1] <= consumed
      BY <1>17, <2>2, <1>3, <1>7, EndedBefore DEF FInv
    <3>2. \E j \in DOMAIN framed : framed[j] = Message(i)
      BY <3>1, <1>17, <1>1 DEF FInv, WholeMessages
    <3> QED  BY <3>2, <1>8
  <2> QED  BY <2>1, <2>2
<1>18. WholeMessages'
  BY <1>14, <1>15, <1>16, <1>17 DEF WholeMessages, Message, Fits
<1> QED
  BY <1>9, <1>10, <1>13, <1>18 DEF FInv

-----------------------------------------------------------------------------
(* The theorems.                                                           *)

(* The inductive invariant holds in every reachable state.                 *)
LEMMA Invariance == Spec => []FInv
<1>1. ASSUME FInv, [Next]_framingVars PROVE FInv'
  <2>1. CASE \E size \in Sizes : client_send(size)
    BY <1>1, <2>1, SendKeeps
  <2>2. CASE arrive
    BY <1>1, <2>2, ArriveKeeps
  <2>3. CASE login_recv
    BY <1>1, <2>3, LoginKeeps
  <2>4. CASE epoll_wait \/ recv_data \/ recv_again
    BY <1>1, <2>4, RecvKeeps
  <2>5. CASE frame_wait
    BY <1>1, <2>5, WaitKeeps
  <2>6. CASE frame_drop
    BY <1>1, <2>6, DropKeeps
  <2>7. CASE frame_push
    BY <1>1, <2>7, PushKeeps
  <2>8. CASE UNCHANGED framingVars
    BY <1>1, <2>8 DEF framingVars, FInv, TypeOK, EndsApart, LoginFirst, AtBoundary, FramedConsumed,
       WholeMessages, NoneHeldBack, Message, Fits, Total
  <2> QED  BY <1>1, <2>1, <2>2, <2>3, <2>4, <2>5, <2>6, <2>7, <2>8 DEF Next, EpollThread
<1> QED
  BY <1>1, InitFInv, PTL DEF Spec

(* The buffer's front never passes what was read, nor that what arrived,   *)
(* nor that what was sent.                                                 *)
THEOREM FramingTypes == Spec => []TypeOK
BY Invariance, PTL DEF FInv

(* However the stream is cut, what the framing loop pushes are messages    *)
(* the client sent, whole, in order and once, and none within the size     *)
(* limit is skipped (thread_epoll.cpp:42-70).                              *)
THEOREM WholeMessagesTheorem == Spec => []WholeMessages
BY Invariance, PTL DEF FInv

(* When the data callback has returned, no complete message is left in the *)
(* buffer for an edge that may never come (thread_epoll.cpp:20-47).        *)
THEOREM NoneHeldBackTheorem == Spec => []NoneHeldBack
BY Invariance, PTL DEF FInv

=============================================================================
