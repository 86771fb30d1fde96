----------------------------- MODULE Connection -----------------------------
(***************************************************************************)
(* One client connection end to end: the client's user thread             *)
(* (Client::submitOrder/cancelOrder/modifyOrder/disconnect), its receive  *)
(* thread (Client::receiveMessages), the server's per-connection thread   *)
(* (Server::handleClient and the handlers it calls), and the server's     *)
(* shutdown (signal handler -> Server::stop, main returning -> ~Server).  *)
(*                                                                         *)
(* The two TCP byte streams are sequences of 8-byte words.  A word stands *)
(* for the low 32 bits of its 8 bytes (what a 4-byte enum field read from *)
(* it would see), abstracted to 0..Big where Big stands for every value   *)
(* >= Big: ids, prices and quantities of real orders, and text.  Every    *)
(* struct of Message.h is a multiple of 8 bytes, so both streams stay     *)
(* word-aligned and a frame is a fixed sequence of words.                 *)
(*                                                                         *)
(* A socket end is "gone" once its descriptor is released: from then on   *)
(* the peer reads the rest of the stream and then end-of-file, and the    *)
(* peer's sends are answered by RST.                                      *)
(***************************************************************************)
EXTENDS Integers, Sequences, SequencesExt

CONSTANTS
    MaxRequests,    \* requests the user types before quitting
    OrderIds        \* order ids the user may cancel or modify

ASSUME MaxRequests \in Nat /\ OrderIds \subseteq Nat

\* A word's low 32 bits, with every value >= Big collapsed to Big.
Big == 8
Word == 0..Big
Low(n) == IF n < Big THEN n ELSE Big

\* enum class MessageType, OrderStatus and Side.
NEW_ORDER == 0
CANCEL_ORDER == 1
MODIFY_ORDER == 2
ORDER_ACK == 3
ORDER_REJECT == 4
EXECUTION_REPORT == 5
MARKET_DATA == 6
HEARTBEAT == 7
PENDING == 0
PARTIAL_FILL == 1
CANCELLED == 3
REJECTED == 4
BUY == 0
SELL == 1

\* sizeof(MessageHeader) and sizeof of each message struct, in words.
HeaderWords == 2
FrameWords == [t \in NEW_ORDER..HEARTBEAT |->
                 <<13, 7, 9, 21, 35, 11, 8, 3>>[t + 1]]

Zeros(n) == [i \in 1..n |-> 0]

\* NewOrderMessage as Client::submitOrder fills it: clientOrderId, symbol
\* (a short name: one word of text, one of NULs), side|orderType, price
\* (0 for market orders), quantity, stopPrice 0, clientId "Client".
NewOrderFrame(coid, side, price) ==
    <<NEW_ORDER, 0, Low(coid), Big, 0, side, price, Big, 0, Big, 0, 0, 0>>

\* CancelOrderMessage: orderId, clientId.
CancelFrame(oid) == <<CANCEL_ORDER, 0, Low(oid), Big, 0, 0, 0>>

\* ModifyOrderMessage: orderId, newPrice, newQuantity, clientId.
ModifyFrame(oid) == <<MODIFY_ORDER, 0, Low(oid), Big, Big, Big, 0, 0, 0>>

\* OrderAckMessage: clientOrderId, orderId, status, message[128].  Every
\* ack text fills two words except "Failed to modify order", which fills
\* three.
AckFrame(coid, oid, status, longText) ==
    <<ORDER_ACK, 0, coid, oid, status, Big, Big, IF longText THEN Big ELSE 0>>
        \o Zeros(13)

\* ExecutionReportMessage built by handleNewOrder from the order m asked
\* for: symbol, side and price as in the request, filled and remaining
\* quantity, status PARTIAL_FILL (the only non-PENDING status getOrder can
\* return for a new order), tradeId 0.
ExecFrame(oid, m) ==
    <<EXECUTION_REPORT, 0, oid, m[4], m[5], m[6], m[7], Big, Big, PARTIAL_FILL, 0>>

\* The message types each side's switch handles with a body read.
ServerBodyTypes == {NEW_ORDER, CANCEL_ORDER, MODIFY_ORDER, HEARTBEAT}
ClientBodyTypes == {ORDER_ACK, ORDER_REJECT, EXECUTION_REPORT, MARKET_DATA}

\* receiveMessage(buffer, n) loops on recv until n bytes are in: it can
\* return true only once n bytes have arrived; a recv returning 0 (the
\* peer closed and the stream is drained) or an error makes it false.
Arrived(stream, n) == Len(stream) >= n

VARIABLES
    c2s, s2c,          \* the bytes in flight, client to server and back
    sentKinds,         \* types of the frames the client sent, in order
    srvKinds,          \* types the server's switch dispatched on, in order
    coid,              \* Client::nextClientOrderId_
    srvNextId,         \* the engine's next order id
    cConn,             \* Client::connected_
    app,               \* the client's main thread
    fdClosed,          \* disconnect has called closesocket(socket_)
    closeWakes,        \* the platform: TRUE on Windows, where closesocket
                       \* wakes a blocked recv; FALSE on Linux, where it does not
    clientGone,        \* the client's socket is released
    cliRst,            \* the client has had a send answered by RST
    rPc, rType,        \* receive thread: program point, header.type
    running,           \* Server::running_
    sPc, sType,        \* handleClient: program point, header.type
    serverGone,        \* the server's end of the connection is closed
    srvRst,            \* the server has had a send answered by RST
    stopPc,            \* Server::stop in the signal handler
    srvEnd             \* how the server process ended

vars == <<c2s, s2c, sentKinds, srvKinds, coid, srvNextId, cConn, app,
          fdClosed, closeWakes, clientGone, cliRst, rPc, rType, running,
          sPc, sType, serverGone, srvRst, stopPc, srvEnd>>

\* The Client object (socket_, connected_, nextClientOrderId_) and its
\* user thread; the receive thread's locals are recvVars.
clientVars == <<sentKinds, coid, cConn, app, fdClosed, closeWakes, cliRst>>
recvVars == <<rPc, rType>>
\* The Server object (running_, the client thread) with the engine's id
\* counter, and the signal handler's progress in stop().
serverVars == <<srvKinds, srvNextId, running, sPc, sType, srvRst, stopPc, srvEnd>>

\* A send on a connection reset by the peer raises SIGPIPE on Linux (no
\* MSG_NOSIGNAL, no SIG_IGN) and fails with WSAECONNRESET on Windows.
RaisesSigpipe == ~closeWakes

\* signal() handlers: Windows runs the Ctrl+C handler on a new thread,
\* Linux delivers the process-directed SIGINT/SIGTERM to the main thread.
HandlerOnOwnThread == closeWakes

-----------------------------------------------------------------------------
(* Client user thread.                                                     *)

\* Client::sendMessage under sendMutex_.  Bytes sent to a closed server
\* end are lost and draw an RST; a send after an RST raises SIGPIPE,
\* which nobody ignores, and kills the client process (the RST may also
\* not have arrived yet, so the second send may still "succeed").
ClientSend(frame) ==
    IF serverGone
    THEN /\ c2s' = c2s
         /\ cliRst' = TRUE
         /\ app' \in IF cliRst /\ RaisesSigpipe THEN {app, "sigpipe"} ELSE {app}
    ELSE /\ c2s' = c2s \o frame
         /\ UNCHANGED <<cliRst, app>>

\* A request is sent only while connected_ holds; otherwise the call
\* returns at once and nothing changes.
Requesting ==
    /\ app = "run"
    /\ cConn
    /\ Len(sentKinds) < MaxRequests

SubmitOrder(side, price) ==
    /\ Requesting
    /\ ClientSend(NewOrderFrame(coid, side, price))
    /\ coid' = coid + 1
    /\ sentKinds' = Append(sentKinds, NEW_ORDER)
    /\ UNCHANGED <<s2c, srvNextId, cConn, fdClosed, closeWakes, clientGone>>
    /\ UNCHANGED <<recvVars, serverVars, serverGone>>

CancelOrder(oid) ==
    /\ Requesting
    /\ ClientSend(CancelFrame(oid))
    /\ sentKinds' = Append(sentKinds, CANCEL_ORDER)
    /\ UNCHANGED <<s2c, coid, srvNextId, cConn, fdClosed, closeWakes, clientGone>>
    /\ UNCHANGED <<recvVars, serverVars, serverGone>>

ModifyOrder(oid) ==
    /\ Requesting
    /\ ClientSend(ModifyFrame(oid))
    /\ sentKinds' = Append(sentKinds, MODIFY_ORDER)
    /\ UNCHANGED <<s2c, coid, srvNextId, cConn, fdClosed, closeWakes, clientGone>>
    /\ UNCHANGED <<recvVars, serverVars, serverGone>>

\* ~Client when main returns: disconnect() again (a no-op once connected_
\* is false), then the members' destructors; a receiveThread_ still
\* joinable calls std::terminate.
ClientDestroyed(joined) == IF joined THEN "done" ELSE "terminate"

\* "quit" (or end of input) calls disconnect(): if connected_ is already
\* false it returns at once, without joining the receive thread, and main
\* returns.
Disconnect ==
    /\ app = "run"
    /\ IF cConn
       THEN cConn' = FALSE /\ app' = "close"
       ELSE app' = ClientDestroyed(FALSE) /\ UNCHANGED cConn
    /\ UNCHANGED <<c2s, s2c, sentKinds, coid, srvNextId, fdClosed, closeWakes,
                   clientGone, cliRst, recvVars, serverVars, serverGone>>

\* closesocket(socket_).  Where it wakes a recv blocked in the receive
\* thread, or no recv is in progress, the descriptor is released now;
\* otherwise it is released when that recv returns.
CloseSocket ==
    /\ app = "close"
    /\ fdClosed' = TRUE
    /\ clientGone' = (clientGone \/ closeWakes \/ rPc \notin {"hdr", "body"})
    /\ app' = "join"
    /\ UNCHANGED <<c2s, s2c, sentKinds, coid, srvNextId, cConn, closeWakes,
                   cliRst, recvVars, serverVars, serverGone>>

\* receiveThread_.join(), then main returns and ~Client finds nothing to do.
JoinReceiver ==
    /\ app = "join"
    /\ rPc = "done"
    /\ app' = ClientDestroyed(TRUE)
    /\ UNCHANGED <<c2s, s2c, sentKinds, coid, srvNextId, cConn, fdClosed,
                   closeWakes, clientGone, cliRst, recvVars, serverVars, serverGone>>

-----------------------------------------------------------------------------
(* Client receive thread (Client::receiveMessages).  Each step is one     *)
(* receiveMessage call: it succeeds once enough words have arrived, and   *)
(* fails on end-of-file before that or on a released descriptor.          *)

\* A recv that returns after disconnect closed the descriptor releases it.
Released == clientGone' = (clientGone \/ fdClosed)

\* while (connected_)
RecvLoop ==
    /\ rPc = "loop"
    /\ rPc' = IF cConn THEN "hdr" ELSE "done"
    /\ UNCHANGED <<c2s, s2c, clientVars, clientGone, rType, serverVars, serverGone>>

\* receiveMessage(&header, sizeof(MessageHeader)) and the switch on its
\* type: the four reply types read a body, HEARTBEAT and unknown types
\* go straight back to the loop.
RecvHeader ==
    /\ rPc = "hdr"
    /\ ~clientGone
    /\ Arrived(s2c, HeaderWords)
    /\ rType' = s2c[1]
    /\ s2c' = SubSeq(s2c, HeaderWords + 1, Len(s2c))
    /\ rPc' = IF s2c[1] \in ClientBodyTypes THEN "body" ELSE "loop"
    /\ Released
    /\ UNCHANGED <<c2s, clientVars, serverVars, serverGone>>

\* A header read that is retried instead: the loop goes on with
\* connected_ still set.
RecvHeaderFailRetry ==
    /\ rPc = "hdr"
    /\ \/ clientGone
       \/ serverGone /\ ~Arrived(s2c, HeaderWords)
    /\ s2c' = <<>>
    /\ rPc' = "loop"
    /\ Released
    /\ UNCHANGED <<c2s, clientVars, rType, serverVars, serverGone>>

\* A failed header read clears connected_ and ends the thread.
RecvHeaderFail ==
    /\ rPc = "hdr"
    /\ \/ clientGone
       \/ serverGone /\ ~Arrived(s2c, HeaderWords)
    /\ s2c' = <<>>
    /\ cConn' = FALSE
    /\ rPc' = "done"
    /\ Released
    /\ UNCHANGED <<c2s, sentKinds, coid, app, fdClosed, closeWakes, cliRst,
                   rType, serverVars, serverGone>>

\* receiveMessage(&msg, sizeof(<type>Message)): the whole struct, header
\* included, is read after the header; the handler only prints.
RecvBody ==
    /\ rPc = "body"
    /\ ~clientGone
    /\ Arrived(s2c, FrameWords[rType])
    /\ s2c' = SubSeq(s2c, FrameWords[rType] + 1, Len(s2c))
    /\ rPc' = "loop"
    /\ Released
    /\ UNCHANGED <<c2s, clientVars, rType, serverVars, serverGone>>

\* A failed body read only leaves the switch.
RecvBodyFail ==
    /\ rPc = "body"
    /\ \/ clientGone
       \/ serverGone /\ ~Arrived(s2c, FrameWords[rType])
    /\ s2c' = <<>>
    /\ rPc' = "loop"
    /\ Released
    /\ UNCHANGED <<c2s, clientVars, rType, serverVars, serverGone>>

-----------------------------------------------------------------------------
(* Server connection thread (Server::handleClient).                       *)

Alive == srvEnd = "running"

\* Server::sendMessage of each frame in turn.  To a released client the
\* bytes are lost and draw an RST; a send after the RST arrived raises
\* SIGPIPE, which the server neither ignores nor suppresses
\* (MSG_NOSIGNAL), so the whole process dies and the kernel closes its
\* sockets.  Whether the RST has arrived by the second send is a race.
ServerSend(frames) ==
    IF clientGone
    THEN /\ s2c' = s2c
         /\ srvRst' = TRUE
         /\ srvEnd' \in IF (srvRst \/ Len(frames) > 1) /\ RaisesSigpipe
                        THEN {"running", "sigpipe"} ELSE {"running"}
         /\ serverGone' = (serverGone \/ srvEnd' = "sigpipe")
    ELSE /\ s2c' = s2c \o FlattenSeq(frames)
         /\ UNCHANGED <<srvRst, srvEnd, serverGone>>

\* handleNewOrder: submit to the engine (the next id), ack it, then send
\* an execution report if getOrder finds the order resting partly filled.
HandleNewOrder(m) ==
    \E partlyFilled \in BOOLEAN :
        /\ ServerSend(<<AckFrame(m[3], Low(srvNextId), PENDING, FALSE)>>
                      \o (IF partlyFilled THEN <<ExecFrame(Low(srvNextId), m)>>
                                          ELSE <<>>))
        /\ srvNextId' = srvNextId + 1

\* handleCancelOrder: the ack leaves clientOrderId 0.
HandleCancelOrder(m) ==
    \E success \in BOOLEAN :
        /\ ServerSend(<<AckFrame(0, m[3], IF success THEN CANCELLED ELSE REJECTED,
                                 FALSE)>>)
        /\ UNCHANGED srvNextId

\* handleModifyOrder: "Order modified" or "Failed to modify order".
HandleModifyOrder(m) ==
    \E success \in BOOLEAN :
        /\ ServerSend(<<AckFrame(0, m[3], IF success THEN PENDING ELSE REJECTED,
                                 ~success)>>)
        /\ UNCHANGED srvNextId

\* The HEARTBEAT case echoes the struct it read.
EchoHeartbeat(m) == ServerSend(<<m>>) /\ UNCHANGED srvNextId

Dispatch(m) ==
    CASE sType = NEW_ORDER    -> HandleNewOrder(m)
      [] sType = CANCEL_ORDER -> HandleCancelOrder(m)
      [] sType = MODIFY_ORDER -> HandleModifyOrder(m)
      [] sType = HEARTBEAT    -> EchoHeartbeat(m)

\* The end of handleClient: closesocket(clientSocket).
CloseClient == sPc' = "done" /\ serverGone' = TRUE

\* while (running_)
HandleLoop ==
    /\ sPc = "loop"
    /\ Alive
    /\ IF running THEN sPc' = "hdr" /\ UNCHANGED serverGone ELSE CloseClient
    /\ UNCHANGED <<c2s, s2c, clientVars, clientGone, recvVars, srvKinds,
                   srvNextId, running, sType, srvRst, stopPc, srvEnd>>

\* Header read and switch: an unknown type is reported and the loop goes on.
HandleHeader ==
    /\ sPc = "hdr"
    /\ Alive
    /\ Arrived(c2s, HeaderWords)
    /\ sType' = c2s[1]
    /\ srvKinds' = Append(srvKinds, c2s[1])
    /\ c2s' = SubSeq(c2s, HeaderWords + 1, Len(c2s))
    /\ sPc' = IF c2s[1] \in ServerBodyTypes THEN "body" ELSE "loop"
    /\ UNCHANGED <<s2c, clientVars, clientGone, recvVars, srvNextId, running,
                   serverGone, srvRst, stopPc, srvEnd>>

\* End-of-file on the header taken for an empty read: the loop goes on.
HandleHeaderFailRetry ==
    /\ sPc = "hdr"
    /\ Alive
    /\ clientGone
    /\ ~Arrived(c2s, HeaderWords)
    /\ c2s' = <<>>
    /\ sPc' = "loop"
    /\ UNCHANGED <<s2c, clientVars, clientGone, recvVars, srvKinds, srvNextId,
                   running, sType, serverGone, srvRst, stopPc, srvEnd>>

HandleHeaderFail ==
    /\ sPc = "hdr"
    /\ Alive
    /\ clientGone
    /\ ~Arrived(c2s, HeaderWords)
    /\ c2s' = <<>>
    /\ CloseClient
    /\ UNCHANGED <<s2c, clientVars, clientGone, recvVars, srvKinds, srvNextId,
                   running, sType, srvRst, stopPc, srvEnd>>

\* Body read of sizeof(<type>Message) words, header included, then the
\* handler.
HandleBody ==
    /\ sPc = "body"
    /\ Alive
    /\ Arrived(c2s, FrameWords[sType])
    /\ c2s' = SubSeq(c2s, FrameWords[sType] + 1, Len(c2s))
    /\ Dispatch(SubSeq(c2s, 1, FrameWords[sType]))
    /\ sPc' = "loop"
    /\ UNCHANGED <<clientVars, clientGone, recvVars, srvKinds, running, sType,
                   stopPc>>

\* End-of-file on the body only leaves the switch.
HandleBodyFail ==
    /\ sPc = "body"
    /\ Alive
    /\ clientGone
    /\ ~Arrived(c2s, FrameWords[sType])
    /\ c2s' = <<>>
    /\ sPc' = "loop"
    /\ UNCHANGED <<s2c, clientVars, clientGone, recvVars, srvKinds, srvNextId,
                   running, sType, serverGone, srvRst, stopPc, srvEnd>>

-----------------------------------------------------------------------------
(* Shutdown.  SIGINT/SIGTERM runs signalHandler, which calls              *)
(* Server::stop and then exit(0).  The main thread polls isRunning() and, *)
(* once running_ is false, joins the statistics thread (at most one more  *)
(* 10 s sleep) and returns; the exit-time destructor ~Server calls stop(),*)
(* which returns at once because running_ is false, and then destroys the *)
(* thread members.                                                        *)

\* stop() up to the client joins: running_ = false, close the listening
\* socket, join the accept thread (accept fails, the loop sees running_
\* false and ends).
StopBegin ==
    /\ Alive
    /\ running
    /\ stopPc = "idle"
    /\ running' = FALSE
    /\ stopPc' = "join"
    /\ UNCHANGED <<c2s, s2c, clientVars, clientGone, recvVars, srvKinds,
                   srvNextId, sPc, sType, serverGone, srvRst, srvEnd>>

\* thread.join() on the connection thread.
StopJoin ==
    /\ Alive
    /\ stopPc = "join"
    /\ sPc = "done"
    /\ stopPc' = "done"
    /\ UNCHANGED <<c2s, s2c, clientVars, clientGone, recvVars, srvKinds,
                   srvNextId, running, sPc, sType, serverGone, srvRst, srvEnd>>

\* exit(0) after stop returned.
HandlerExit ==
    /\ Alive
    /\ stopPc = "done"
    /\ srvEnd' = "exit"
    /\ serverGone' = TRUE
    /\ UNCHANGED <<c2s, s2c, clientVars, clientGone, recvVars, srvKinds,
                   srvNextId, running, sPc, sType, srvRst, stopPc>>

\* ~Server at exit: stop() returns at once (running_ is false), then the
\* members' destructors; a connection thread in clientThreads_ still
\* joinable calls std::terminate.
ServerDestroyed(joined) == IF joined THEN "exit" ELSE "terminate"

\* main returns once running_ is false; the connection thread has been
\* joined only if stop, in the signal handler, got that far.  Only where
\* the handler runs on a thread of its own (Windows: the C runtime starts
\* one for Ctrl+C); on Linux it runs on the main thread, which leaves the
\* handler only through exit(0).
MainReturn ==
    /\ Alive
    /\ ~running
    /\ HandlerOnOwnThread
    /\ srvEnd' = ServerDestroyed(stopPc = "done")
    /\ serverGone' = TRUE
    /\ UNCHANGED <<c2s, s2c, clientVars, clientGone, recvVars, srvKinds,
                   srvNextId, running, sPc, sType, srvRst, stopPc>>

-----------------------------------------------------------------------------

\* Server::start: listening, running_ set, accept thread started.
ServerStarted ==
    /\ running = TRUE
    /\ stopPc = "idle"
    /\ srvEnd = "running"
    /\ srvNextId = 1
    /\ srvRst = FALSE
    /\ srvKinds = <<>>

\* acceptClients has accepted the connection and started handleClient.
ClientAccepted ==
    /\ sPc = "loop"
    /\ sType = HEARTBEAT
    /\ serverGone = FALSE
    /\ c2s = <<>>
    /\ s2c = <<>>

\* Client::connect succeeded: connected_ set, receive thread started.
ClientConnected ==
    /\ cConn = TRUE
    /\ app = "run"
    /\ coid = 1
    /\ sentKinds = <<>>
    /\ fdClosed = FALSE
    /\ closeWakes \in BOOLEAN
    /\ clientGone = FALSE
    /\ cliRst = FALSE
    /\ rPc = "loop"
    /\ rType = HEARTBEAT

Init == ServerStarted /\ ClientAccepted /\ ClientConnected

\* The commands of runInteractiveMode: buy/sell (limit, a price) and
\* market-buy/market-sell (price 0), cancel, modify, quit.
ClientNext ==
    \/ \E side \in {BUY, SELL}, price \in {0, Big} : SubmitOrder(side, price)
    \/ \E oid \in OrderIds : CancelOrder(oid) \/ ModifyOrder(oid)
    \/ Disconnect
    \/ CloseSocket
    \/ JoinReceiver

ReceiverNext ==
    RecvLoop \/ RecvHeader \/ RecvHeaderFail \/ RecvBody \/ RecvBodyFail

HandlerNext ==
    HandleLoop \/ HandleHeader \/ HandleHeaderFail \/ HandleBody \/ HandleBodyFail

ShutdownNext == StopBegin \/ StopJoin \/ HandlerExit \/ MainReturn

Next == ClientNext \/ ReceiverNext \/ HandlerNext \/ ShutdownNext

\* Threads that have work keep running; the user (typing commands, quit)
\* and the signal are not obliged to act.  disconnect() runs on from
\* closing to joining, and main returns within a statistics sleep once
\* running_ is false.
Fairness ==
    /\ WF_vars(ReceiverNext)
    /\ WF_vars(HandlerNext)
    /\ WF_vars(CloseSocket)
    /\ WF_vars(JoinReceiver)
    /\ WF_vars(StopJoin)
    /\ WF_vars(HandlerExit)
    /\ WF_vars(MainReturn)

Spec == Init /\ [][Next]_vars /\ Fairness

-----------------------------------------------------------------------------
(* Properties.                                                             *)

\* Once the client's socket is released, handleClient reads end-of-file,
\* leaves its loop and closes its socket (unless the process has ended).
ClientCloseEndsHandler ==
    clientGone ~> (sPc = "done" \/ srvEnd # "running")

\* Once the server's end is closed, the client's receive thread drains
\* the stream, fails a header read and ends.
ServerCloseEndsReceiver ==
    serverGone ~> (rPc = "done")

FramesAligned == IsPrefix(srvKinds, sentKinds)

\* Spec 6 and 7: a signal shuts the server down gracefully, and a socket
\* error is local to its connection: the server process ends only by
\* exit(0), never by SIGPIPE or std::terminate.
ServerEndsCleanly == srvEnd \in {"running", "exit"}

\* Once the user's thread stops issuing commands, the client ends cleanly:
\* "quit" ("Disconnect and exit") closes the socket, joins the receive
\* thread and returns, and no send kills the process on the way.
ClientQuitEnds == (app # "run") ~> (app = "done")

=============================================================================
