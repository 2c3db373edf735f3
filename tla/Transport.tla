------------------------------ MODULE Transport ------------------------------
(***************************************************************************)
(* SocketCommunicator (src/mapreduce_lite/socket_communicator.cc): the     *)
(* all-to-all stream from NumMappers map workers to NumReducers reduce     *)
(* workers.  Each map worker has one outbound queue per reducer, filled by *)
(* its user thread and drained by a send-loop thread; each reduce worker   *)
(* has one inbound queue, filled by a receive-loop thread and drained by   *)
(* its user thread.  The queues are the abstract MessageQueue (their ring  *)
(* buffer is checked in SignalingQueue); the sockets are byte streams.     *)
(*                                                                         *)
(* Wire format: a 4-byte little-endian length, then the payload; length 0 *)
(* is the FINAL frame.  Every byte is a record [msg, off]: payload byte k *)
(* of message id is [msg |-> id, off |-> k], a length byte has msg <<>>   *)
(* and its numeric value in off.                                           *)
(*                                                                         *)
(* TCPSocket::SetBlocking(false) clears O_NONBLOCK (tcp_socket.cc), so the *)
(* sockets are blocking: a send returns once all its bytes are in the     *)
(* socket buffer, and a recv on a readable socket returns what is there.   *)
(* The event loops are libevent with level-triggered EV_PERSIST events: an *)
(* iteration polls, runs the callback of every ready socket, and exits at *)
(* its end if a callback called event_base_loopexit.                      *)
(***************************************************************************)
EXTENDS Integers, Sequences, FiniteSets, QueueOps

CONSTANTS
    NumMappers,       \* num_sender_
    NumReducers,      \* num_receiver_
    MapQueueSize,     \* map_queue_size_ (bytes of each outbound queue)
    ReduceQueueSize,  \* reduce_queue_size_ (bytes of the inbound queue)
    MsgSizes,         \* payload sizes MapOutput may send
    MaxMsgs,          \* map worker -> its number of MapOutput calls
    WireCap,          \* bytes a connection holds unread (socket buffers)
    SendLowat,        \* free bytes for a socket to poll as writable
    RecvSplits        \* TRUE: recv may return any prefix of the unread bytes

ASSUME /\ NumMappers \in Nat \ {0} /\ NumReducers \in Nat \ {0}
       /\ MsgSizes \subseteq 1 .. MapQueueSize
       /\ MsgSizes \subseteq 1 .. ReduceQueueSize
       /\ SendLowat \in 1 .. WireCap
       /\ RecvSplits \in BOOLEAN
       \* ReceiveLoop sizes cb_args and its clean-up loop by num_receiver_
       \* but has num_sender_ sockets: other shapes index past a vector.
       /\ NumMappers = NumReducers

Mappers == 0 .. NumMappers - 1
Reducers == 0 .. NumReducers - 1
Pairs == Mappers \X Reducers
None == -1
HeaderLen == 4                                  \* sizeof(uint32)
SX == INSTANCE SequencesExt

VARIABLES
    mUser,      \* map worker's user thread: "map", "finalize", "join", "done", "killed"
    outCount,   \* MapOutput calls made
    sigIdx,     \* the next queue FinalizeSender signals
    sendQ,      \* send_buffers_[r] of mapper m: its messages
    sendSig,    \* whether send_buffers_[r] of mapper m got Signal
    sentLog,    \* history: the messages added to each outbound queue
    sLoop,      \* send loop: "run", "exited", "killed"
    sCounter,   \* SendLoop's connection_counter
    sActive,    \* reducers whose callback is still due in this iteration
    sExit,      \* event_base_loopexit was called
    sCur,       \* the reducer whose blocking send is in progress, or None
    sFrame,     \* Connector message_ from bytes_count_ on (bytes unsent)
    sRet,       \* what Connector::Send returns once sFrame is out
    wire,       \* bytes sent on connection (m, r) and not yet received
    fin,        \* the sender shut the connection down (or died)
    closed,     \* the reducer closed its end
    rConn,      \* receiving Connector: [count, size, msg]
    rLoop,      \* receive loop: "run", "exited"
    rCounter,   \* ReceiveLoop's connection_counter
    rActive,    \* mappers whose callback is still due in this iteration
    rExit,      \* event_base_loopexit was called
    rCur,       \* the mapper whose received chunk is being parsed, or None
    rBuf,       \* unparsed rest of message_buf_
    rq,         \* receive_buffer_: payloads as records [data, size]
    rqSig,      \* receive_buffer_ got its Signal(0)
    rUser,      \* reduce worker's user thread: "recv", "join", "done"
    delivered   \* history: the payloads its Receive returned

mapperVars == <<mUser, outCount, sigIdx, sendQ, sendSig, sentLog>>
senderVars == <<sLoop, sCounter, sActive, sExit, sCur, sFrame, sRet>>
netVars == <<wire, fin, closed>>
receiverVars == <<rConn, rLoop, rCounter, rActive, rExit, rCur, rBuf>>
reducerVars == <<rq, rqSig, rUser, delivered>>
vars == <<mapperVars, senderVars, netVars, receiverVars, reducerVars>>

Byte(id, k) == [msg |-> id, off |-> k]
Payload(m) == [k \in 1 .. m.size |-> Byte(m.id, k - 1)]
(* The little-endian bytes of uint32 n.                                    *)
Header(n) == [i \in 1 .. HeaderLen |-> Byte(<<>>, (n \div 2^(8 * (i - 1))) % 256)]
Frame(m) == Header(m.size) \o Payload(m)
EmptyConn == [count |-> 0, size |-> 0, msg |-> <<>>]

Init ==
    /\ mUser = [m \in Mappers |-> "map"]
    /\ outCount = [m \in Mappers |-> 0]
    /\ sigIdx = [m \in Mappers |-> 0]
    /\ sendQ = [p \in Pairs |-> <<>>]
    /\ sendSig = [p \in Pairs |-> FALSE]
    /\ sentLog = [p \in Pairs |-> <<>>]
    /\ sLoop = [m \in Mappers |-> "run"]
    /\ sCounter = [m \in Mappers |-> NumReducers]
    /\ sActive = [m \in Mappers |-> {}]
    /\ sExit = [m \in Mappers |-> FALSE]
    /\ sCur = [m \in Mappers |-> None]
    /\ sFrame = [p \in Pairs |-> <<>>]
    /\ sRet = [m \in Mappers |-> 1]
    /\ wire = [p \in Pairs |-> <<>>]
    /\ fin = [p \in Pairs |-> FALSE]
    /\ closed = [p \in Pairs |-> FALSE]
    /\ rConn = [p \in Pairs |-> EmptyConn]
    /\ rLoop = [r \in Reducers |-> "run"]
    /\ rCounter = [r \in Reducers |-> NumMappers]
    /\ rActive = [r \in Reducers |-> {}]
    /\ rExit = [r \in Reducers |-> FALSE]
    /\ rCur = [r \in Reducers |-> None]
    /\ rBuf = [r \in Reducers |-> <<>>]
    /\ rq = [r \in Reducers |-> <<>>]
    /\ rqSig = [r \in Reducers |-> FALSE]
    /\ rUser = [r \in Reducers |-> "recv"]
    /\ delivered = [r \in Reducers |-> <<>>]
-----------------------------------------------------------------------------
(***************************************************************************)
(* Map worker, user thread: MapWork's MapOutput calls (Send, a blocking   *)
(* Add on send_buffers_[r]), then Finalize: FinalizeSender signals every  *)
(* outbound queue in index order and joins the send loop.                  *)
(***************************************************************************)
(* Faulty variant: Add does not wait for free space.                     *)
MapSendNoWait(m, r, s) ==
    LET msg == [id |-> <<m, outCount[m] + 1>>, size |-> s]
    IN /\ mUser[m] = "map"
       /\ outCount[m] < MaxMsgs[m]
       /\ sendQ' = [sendQ EXCEPT ![m, r] = Append(@, msg)]
       /\ sentLog' = [sentLog EXCEPT ![m, r] = Append(@, msg)]
       /\ outCount' = [outCount EXCEPT ![m] = @ + 1]
       /\ UNCHANGED <<mUser, sigIdx, sendSig, senderVars, netVars,
                      receiverVars, reducerVars>>

MapSend(m, r, s) ==
    LET msg == [id |-> <<m, outCount[m] + 1>>, size |-> s]
    IN /\ mUser[m] = "map"
       /\ outCount[m] < MaxMsgs[m]
       /\ s <= FreeBytes(MapQueueSize, sendQ[m, r])   \* Add waits for room
       /\ sendQ' = [sendQ EXCEPT ![m, r] = Append(@, msg)]
       /\ sentLog' = [sentLog EXCEPT ![m, r] = Append(@, msg)]
       /\ outCount' = [outCount EXCEPT ![m] = @ + 1]
       /\ UNCHANGED <<mUser, sigIdx, sendSig, senderVars, netVars,
                      receiverVars, reducerVars>>

MapEnd(m) ==
    /\ mUser[m] = "map"
    /\ outCount[m] = MaxMsgs[m]
    /\ mUser' = [mUser EXCEPT ![m] = "finalize"]
    /\ UNCHANGED <<outCount, sigIdx, sendQ, sendSig, sentLog, senderVars,
                   netVars, receiverVars, reducerVars>>

FinalizeSignal(m) ==
    /\ mUser[m] = "finalize"
    /\ sendSig' = [sendSig EXCEPT ![m, sigIdx[m]] = TRUE]
    /\ sigIdx' = [sigIdx EXCEPT ![m] = @ + 1]
    /\ mUser' = [mUser EXCEPT ![m] = IF sigIdx[m] + 1 = NumReducers
                                     THEN "join" ELSE "finalize"]
    /\ UNCHANGED <<outCount, sendQ, sentLog, senderVars, netVars,
                   receiverVars, reducerVars>>

JoinSender(m) ==
    /\ mUser[m] = "join"
    /\ sLoop[m] = "exited"
    /\ mUser' = [mUser EXCEPT ![m] = "done"]
    /\ UNCHANGED <<outCount, sigIdx, sendQ, sendSig, sentLog, senderVars,
                   netVars, receiverVars, reducerVars>>

-----------------------------------------------------------------------------
(***************************************************************************)
(* Map worker, SendLoop thread.                                            *)
(***************************************************************************)
(* Poll: with SendLowat free bytes a socket is writable; one whose peer   *)
(* closed is reported writable too (the send then fails).                *)
Writable(m, r) ==
    closed[m, r] \/ Len(wire[m, r]) + SendLowat <= WireCap

(* event_base_dispatch: one iteration starts with the ready sockets.      *)
SendPoll(m) ==
    LET ready == {r \in Reducers : Writable(m, r)}
    IN /\ sLoop[m] = "run" /\ ~sExit[m]
       /\ sActive[m] = {} /\ sCur[m] = None
       /\ ready # {}
       /\ sActive' = [sActive EXCEPT ![m] = ready]
       /\ UNCHANGED <<mapperVars, sLoop, sCounter, sExit, sCur, sFrame, sRet,
                      netVars, receiverVars, reducerVars>>

(* message_size_ = queue_->Remove(&message_, false), then the length is  *)
(* inserted in front of the payload.                                      *)
(* Faulty variant: the message is read without being removed.            *)
PeekMessage(m, r) ==
    /\ sFrame' = [sFrame EXCEPT ![m, r] = Frame(Head(sendQ[m, r]))]
    /\ UNCHANGED sendQ

NextMessage(m, r) ==
    /\ sendQ' = [sendQ EXCEPT ![m, r] = Tail(@)]
    /\ sFrame' = [sFrame EXCEPT ![m, r] = Frame(Head(sendQ[m, r]))]

(* SendCallback -> Connector::Send, up to its sock_->Send: take the next  *)
(* message (a non-blocking Remove) and frame it, or, on an empty queue   *)
(* with no more Add, start SendFinal; on an empty open queue return 1.    *)
(* A blocking send puts out all of message_, so message_ is empty at the *)
(* start of every callback and the "continue a partial message" path of  *)
(* Connector::Send is never taken.                                         *)
SendCallback(m, r) ==
    /\ sLoop[m] = "run" /\ sCur[m] = None
    /\ r \in sActive[m]
    /\ sActive' = [sActive EXCEPT ![m] = @ \ {r}]
    /\ \/ /\ sFrame[m, r] = <<>> /\ sendQ[m, r] # <<>>
          /\ NextMessage(m, r)
          /\ sCur' = [sCur EXCEPT ![m] = r]
          /\ sRet' = [sRet EXCEPT ![m] = 1]
       \/ /\ sFrame[m, r] = <<>> /\ sendQ[m, r] = <<>>
          /\ sendSig[m, r]                      \* EmptyAndNoMoreAdd()
          /\ sFrame' = [sFrame EXCEPT ![m, r] = Header(0)]
          /\ sCur' = [sCur EXCEPT ![m] = r]
          /\ sRet' = [sRet EXCEPT ![m] = 0]
          /\ UNCHANGED sendQ
       \/ /\ sFrame[m, r] = <<>> /\ sendQ[m, r] = <<>>
          /\ ~sendSig[m, r]                     \* return 1
          /\ UNCHANGED <<sendQ, sFrame, sCur, sRet>>
    /\ UNCHANGED <<mUser, outCount, sigIdx, sendSig, sentLog, sLoop, sCounter,
                   sExit, netVars, receiverVars, reducerVars>>
(* The rest of SendCallback once Send() returned sRet: count a FINAL and  *)
(* request loop exit when the counter reaches zero.                       *)
(* Faulty variant: every completed send is counted as a FINAL.           *)
SendDoneCountAll(m, r) ==
    /\ sFrame' = [sFrame EXCEPT ![m, r] = <<>>]
    /\ sCur' = [sCur EXCEPT ![m] = None]
    /\ sCounter' = [sCounter EXCEPT ![m] = @ - 1]
    /\ sExit' = [sExit EXCEPT ![m] = @ \/ sCounter[m] - 1 = 0]

SendDone(m, r) ==
    LET counter == IF sRet[m] = 0 THEN sCounter[m] - 1 ELSE sCounter[m]
    IN /\ sFrame' = [sFrame EXCEPT ![m, r] = <<>>]   \* Clear()
       /\ sCur' = [sCur EXCEPT ![m] = None]
       /\ sCounter' = [sCounter EXCEPT ![m] = counter]
       /\ sExit' = [sExit EXCEPT ![m] = @ \/ counter = 0]

(* SIGPIPE (not ignored anywhere) ends the map worker; the kernel closes  *)
(* its sockets.                                                             *)
Killed(m) ==
    /\ mUser' = [mUser EXCEPT ![m] = "killed"]
    /\ sLoop' = [sLoop EXCEPT ![m] = "killed"]
    /\ sCur' = [sCur EXCEPT ![m] = None]
    /\ sActive' = [sActive EXCEPT ![m] = {}]
    /\ fin' = [p \in Pairs |-> IF p[1] = m THEN TRUE ELSE fin[p]]

(* The blocking sock_->Send of the rest of message_ (or of the FINAL      *)
(* frame): it copies what fits into the socket buffer and returns once    *)
(* everything is copied.  To a reducer that closed, the first write may  *)
(* still be accepted (the reset is not back yet), a later one raises      *)
(* SIGPIPE.                                                                *)
SendProgress(m) ==
    LET r == sCur[m]
        room == WireCap - Len(wire[m, r])
        n == IF Len(sFrame[m, r]) < room THEN Len(sFrame[m, r]) ELSE room
    IN /\ sLoop[m] = "run" /\ r # None
       /\ \/ /\ ~closed[m, r] /\ room > 0 /\ n < Len(sFrame[m, r])
             /\ wire' = [wire EXCEPT ![m, r] = @ \o SubSeq(sFrame[m, r], 1, n)]
             /\ sFrame' = [sFrame EXCEPT ![m, r] = SubSeq(@, n + 1, Len(@))]
             /\ UNCHANGED <<sLoop, sCounter, sActive, sExit, sCur, sRet,
                            fin, mapperVars>>
          \/ /\ ~closed[m, r] /\ n = Len(sFrame[m, r])
             /\ wire' = [wire EXCEPT ![m, r] = @ \o sFrame[m, r]]
             /\ SendDone(m, r)
             /\ UNCHANGED <<sLoop, sActive, sRet, fin, mapperVars>>
          \/ /\ closed[m, r]
             /\ SendDone(m, r)
             /\ UNCHANGED <<sLoop, sActive, sRet, wire, fin, mapperVars>>
          \/ /\ closed[m, r]
             /\ Killed(m)
             /\ UNCHANGED <<outCount, sigIdx, sendQ, sendSig, sentLog,
                            sCounter, sExit, sFrame, sRet, wire>>
       /\ UNCHANGED <<closed, receiverVars, reducerVars>>

(* event_base_dispatch returns after the iteration in which loopexit was  *)
(* called; every socket is then shut down for writing.                    *)
SendLoopExit(m) ==
    /\ sLoop[m] = "run" /\ sExit[m]
    /\ sActive[m] = {} /\ sCur[m] = None
    /\ sLoop' = [sLoop EXCEPT ![m] = "exited"]
    /\ fin' = [p \in Pairs |-> IF p[1] = m THEN TRUE ELSE fin[p]]
    /\ UNCHANGED <<mapperVars, sCounter, sActive, sExit, sCur, sFrame, sRet,
                   wire, closed, receiverVars, reducerVars>>
-----------------------------------------------------------------------------
(***************************************************************************)
(* Reduce worker, ReceiveLoop thread.                                      *)
(***************************************************************************)
(* The frame parser of Connector::Receive, one byte at a time: a length   *)
(* byte is memcpy'd into message_size_ at offset bytes_count_, a payload  *)
(* byte is appended to message_.                                          *)
ConsumeByte(c, b) ==
    IF c.count < HeaderLen
    THEN [c EXCEPT !.size = @ + b.off * 2^(8 * c.count), !.count = @ + 1]
    ELSE [c EXCEPT !.msg = Append(@, b), !.count = @ + 1]

(* bytes_count_ >= sizeof(message_size_) && message_.size() == message_size_ *)
FrameDone(c) == c.count >= HeaderLen /\ Len(c.msg) = c.size

(* The while loop over message_buf_ up to the first complete frame:       *)
(* "msg" (to be Added), "final" (return 0), or "more" (buffer used up).   *)
RECURSIVE Parse(_, _)
Parse(c, buf) ==
    IF buf = <<>> THEN [conn |-> c, rest |-> <<>>, event |-> "more"]
    ELSE LET c2 == ConsumeByte(c, Head(buf))
         IN IF FrameDone(c2)
            THEN [conn |-> c2, rest |-> Tail(buf),
                  event |-> IF c2.size = 0 THEN "final" ELSE "msg"]
            ELSE Parse(c2, Tail(buf))

(* The early return of Connector::Receive once the FINAL frame is in.     *)
ConnFinished(c) == c.count >= HeaderLen /\ c.size = 0

(* ReceiveCallback after Receive() returned 0.                            *)
CountFinal(r) ==
    /\ rCounter' = [rCounter EXCEPT ![r] = @ - 1]
    /\ rExit' = [rExit EXCEPT ![r] = @ \/ rCounter[r] - 1 = 0]

(* What one recv on a connection with n unread bytes may return (less   *)
(* than 4096 bytes are ever unread here).                                 *)
RecvSizes(n) == IF RecvSplits THEN 1 .. n ELSE {n}

(* Poll: a socket is readable with unread bytes or at end of file.        *)
Readable(m, r) == wire[m, r] # <<>> \/ fin[m, r]

ReceivePoll(r) ==
    LET ready == {m \in Mappers : Readable(m, r)}
    IN /\ rLoop[r] = "run" /\ ~rExit[r]
       /\ rActive[r] = {} /\ rCur[r] = None
       /\ ready # {}
       /\ rActive' = [rActive EXCEPT ![r] = ready]
       /\ UNCHANGED <<mapperVars, senderVars, netVars, rConn, rLoop, rCounter,
                      rExit, rCur, rBuf, reducerVars>>

(* ReceiveCallback -> Connector::Receive, up to its parse loop: return 0  *)
(* at once for a finished connector; else recv, which returns any prefix  *)
(* of the unread bytes, or 0 at end of file (then the callback returns 1). *)
ReceiveCallback(r, m) ==
    /\ rLoop[r] = "run" /\ rCur[r] = None
    /\ m \in rActive[r]
    /\ rActive' = [rActive EXCEPT ![r] = @ \ {m}]
    /\ \/ /\ ConnFinished(rConn[m, r])
          /\ CountFinal(r)
          /\ UNCHANGED <<wire, rCur, rBuf>>
       \/ /\ ~ConnFinished(rConn[m, r]) /\ wire[m, r] # <<>>
          /\ \E k \in RecvSizes(Len(wire[m, r])) :
                /\ rBuf' = [rBuf EXCEPT ![r] = SubSeq(wire[m, r], 1, k)]
                /\ wire' = [wire EXCEPT ![m, r] = SubSeq(@, k + 1, Len(@))]
          /\ rCur' = [rCur EXCEPT ![r] = m]
          /\ UNCHANGED <<rCounter, rExit>>
       \/ /\ ~ConnFinished(rConn[m, r]) /\ wire[m, r] = <<>>
          /\ UNCHANGED <<wire, rCur, rBuf, rCounter, rExit>>
    /\ UNCHANGED <<mapperVars, senderVars, fin, closed, rConn, rLoop,
                   reducerVars>>

(* The parse loop up to its next exit: Add a complete message to          *)
(* receive_buffer_ (blocking while it does not fit) and Clear(); or       *)
(* return 0 on the FINAL frame, dropping the rest of the buffer; or       *)
(* return 1 with the buffer used up.                                      *)
ReceiveParse(r) ==
    LET m == rCur[r]
        res == Parse(rConn[m, r], rBuf[r])
        item == [data |-> res.conn.msg, size |-> res.conn.size]
    IN /\ rLoop[r] = "run" /\ m # None
       /\ \/ /\ res.event = "more"
             /\ rConn' = [rConn EXCEPT ![m, r] = res.conn]
             /\ rBuf' = [rBuf EXCEPT ![r] = <<>>]
             /\ rCur' = [rCur EXCEPT ![r] = None]
             /\ UNCHANGED <<rq, rCounter, rExit>>
          \/ /\ res.event = "msg"
             /\ item.size <= FreeBytes(ReduceQueueSize, rq[r])
             /\ rq' = [rq EXCEPT ![r] = Append(@, item)]
             /\ rConn' = [rConn EXCEPT ![m, r] = EmptyConn]
             /\ rBuf' = [rBuf EXCEPT ![r] = res.rest]
             /\ rCur' = [rCur EXCEPT ![r] = IF res.rest = <<>> THEN None ELSE m]
             /\ UNCHANGED <<rCounter, rExit>>
          \/ /\ res.event = "final"
             /\ rConn' = [rConn EXCEPT ![m, r] = res.conn]
             /\ rBuf' = [rBuf EXCEPT ![r] = <<>>]
             /\ rCur' = [rCur EXCEPT ![r] = None]
             /\ CountFinal(r)
             /\ UNCHANGED rq
       /\ UNCHANGED <<mapperVars, senderVars, netVars, rLoop, rActive, rqSig,
                      rUser, delivered>>

(* After dispatch returns: close the sockets (unread bytes are dropped),  *)
(* then receive_buffer_->Signal(0).                                       *)
(* Faulty variant: the inbound queue is never signaled.                  *)
ReceiveLoopExitNoSignal(r) ==
    /\ rLoop[r] = "run" /\ rExit[r]
    /\ rActive[r] = {} /\ rCur[r] = None
    /\ rLoop' = [rLoop EXCEPT ![r] = "exited"]
    /\ closed' = [p \in Pairs |-> IF p[2] = r THEN TRUE ELSE closed[p]]
    /\ wire' = [p \in Pairs |-> IF p[2] = r THEN <<>> ELSE wire[p]]
    /\ UNCHANGED <<mapperVars, senderVars, fin, rConn, rCounter, rActive,
                   rExit, rCur, rBuf, rq, rqSig, rUser, delivered>>

ReceiveLoopExit(r) ==
    /\ rLoop[r] = "run" /\ rExit[r]
    /\ rActive[r] = {} /\ rCur[r] = None
    /\ rLoop' = [rLoop EXCEPT ![r] = "exited"]
    /\ closed' = [p \in Pairs |-> IF p[2] = r THEN TRUE ELSE closed[p]]
    /\ wire' = [p \in Pairs |-> IF p[2] = r THEN <<>> ELSE wire[p]]
    /\ rqSig' = [rqSig EXCEPT ![r] = TRUE]
    /\ UNCHANGED <<mapperVars, senderVars, fin, rConn, rCounter, rActive,
                   rExit, rCur, rBuf, rq, rUser, delivered>>

-----------------------------------------------------------------------------
(* Reduce worker, user thread: ReduceWork's loop of blocking Receive      *)
(* until it returns 0.                                                     *)
(* Faulty variant: Remove returns 0 once closed, without draining.       *)
ReduceReceiveNoDrain(r) ==
    /\ rUser[r] = "recv"
    /\ \/ /\ rq[r] # <<>> /\ ~rqSig[r]
          /\ delivered' = [delivered EXCEPT ![r] = Append(@, Head(rq[r]).data)]
          /\ rq' = [rq EXCEPT ![r] = Tail(@)]
          /\ UNCHANGED rUser
       \/ /\ rqSig[r]
          /\ rUser' = [rUser EXCEPT ![r] = "join"]
          /\ UNCHANGED <<rq, delivered>>
    /\ UNCHANGED <<mapperVars, senderVars, netVars, receiverVars, rqSig>>

ReduceReceive(r) ==
    /\ rUser[r] = "recv"
    /\ \/ /\ rq[r] # <<>>
          /\ delivered' = [delivered EXCEPT ![r] = Append(@, Head(rq[r]).data)]
          /\ rq' = [rq EXCEPT ![r] = Tail(@)]
          /\ UNCHANGED rUser
       \/ /\ rq[r] = <<>> /\ rqSig[r]
          /\ rUser' = [rUser EXCEPT ![r] = "join"]
          /\ UNCHANGED <<rq, delivered>>
    /\ UNCHANGED <<mapperVars, senderVars, netVars, receiverVars, rqSig>>

(* After ReduceWork, Finalize: FinalizeReceiver joins the receive-loop    *)
(* thread, then deletes the sockets and the receive queue.                 *)
JoinReceiver(r) ==
    /\ rUser[r] = "join" /\ rLoop[r] = "exited"
    /\ rUser' = [rUser EXCEPT ![r] = "done"]
    /\ UNCHANGED <<mapperVars, senderVars, netVars, receiverVars, rq, rqSig, delivered>>

-----------------------------------------------------------------------------
MapperUser(m) ==
    \/ \E r \in Reducers, s \in MsgSizes : MapSend(m, r, s)
    \/ MapEnd(m) \/ FinalizeSignal(m) \/ JoinSender(m)

SendLoop(m) ==
    \/ SendPoll(m) \/ \E r \in Reducers : SendCallback(m, r)
    \/ SendProgress(m) \/ SendLoopExit(m)

ReceiveLoop(r) ==
    \/ ReceivePoll(r) \/ \E m \in Mappers : ReceiveCallback(r, m)
    \/ ReceiveParse(r) \/ ReceiveLoopExit(r)

ReducerUser(r) == ReduceReceive(r) \/ JoinReceiver(r)

(* Every worker has returned from Finalize (or was killed).               *)
Terminated ==
    /\ \A m \in Mappers : mUser[m] \in {"done", "killed"}
    /\ \A r \in Reducers : rUser[r] = "done" /\ rLoop[r] = "exited"
    /\ UNCHANGED vars

Next ==
    \/ \E m \in Mappers : MapperUser(m) \/ SendLoop(m)
    \/ \E r \in Reducers : ReceiveLoop(r) \/ ReducerUser(r)
    \/ Terminated

(* Every thread that can run eventually runs: the OS schedules the user   *)
(* and I/O threads of every worker.                                        *)
Fairness ==
    /\ \A m \in Mappers : WF_vars(MapperUser(m)) /\ WF_vars(SendLoop(m))
    /\ \A r \in Reducers : WF_vars(ReceiveLoop(r)) /\ WF_vars(ReducerUser(r))

Spec == Init /\ [][Next]_vars /\ Fairness
-----------------------------------------------------------------------------
TypeOK ==
    /\ mUser \in [Mappers -> {"map", "finalize", "join", "done", "killed"}]
    /\ \A m \in Mappers : outCount[m] \in 0 .. MaxMsgs[m]
    /\ sigIdx \in [Mappers -> 0 .. NumReducers]
    /\ sendSig \in [Pairs -> BOOLEAN] /\ fin \in [Pairs -> BOOLEAN]
    /\ closed \in [Pairs -> BOOLEAN]
    /\ sLoop \in [Mappers -> {"run", "exited", "killed"}]
    /\ sCounter \in [Mappers -> -NumReducers .. NumReducers]
    /\ sActive \in [Mappers -> SUBSET Reducers]
    /\ sCur \in [Mappers -> Reducers \cup {None}]
    /\ sRet \in [Mappers -> {0, 1}]
    /\ \A p \in Pairs : UsedBytes(sendQ[p]) <= MapQueueSize
    /\ \A p \in Pairs : Len(wire[p]) <= WireCap
    /\ rLoop \in [Reducers -> {"run", "exited"}]
    /\ rCounter \in [Reducers -> -NumMappers .. NumMappers]
    /\ rActive \in [Reducers -> SUBSET Mappers]
    /\ rCur \in [Reducers -> Mappers \cup {None}]
    /\ \A r \in Reducers : UsedBytes(rq[r]) <= ReduceQueueSize
    /\ rUser \in [Reducers -> {"recv", "join", "done"}]

(* The map worker a received payload starts with a byte of, if any.      *)
Origin(d) == IF d[1].msg = <<>> THEN None ELSE d[1].msg[1]
(* The payloads reduce worker r received from map worker m.               *)
FromMapper(seq, m) == SelectSeq(seq, LAMBDA d : Origin(d) = m)
Payloads(log) == [i \in DOMAIN log |-> Payload(log[i])]

(* FIFO per (sender, receiver), byte-exact: what a reducer's Receive has  *)
(* returned from mapper m is, in order and intact, a prefix of what m     *)
(* passed to Send for it, however the length-prefixed frames were split   *)
(* across send and recv calls and interleaved with other connections.     *)
PerPairFIFO ==
    \A m \in Mappers, r \in Reducers :
        SX!IsPrefix(FromMapper(delivered[r], m), Payloads(sentLog[m, r]))

(* End of stream only after all senders (spec, Transport invariants): a   *)
(* reducer's Receive returns 0 only once every map worker has declared   *)
(* end of stream to it and everything sent to it has been returned.       *)
StreamComplete ==
    \A r \in Reducers :
        rUser[r] # "recv" =>
            \A m \in Mappers :
                /\ sendSig[m, r]
                /\ FromMapper(delivered[r], m) = Payloads(sentLog[m, r])

(* The send loop exits only when every destination has sent its end of    *)
(* stream: each outbound queue is closed and drained, nothing half sent.  *)
SenderDrained ==
    \A m \in Mappers :
        sLoop[m] = "exited" =>
            \A r \in Reducers :
                sendSig[m, r] /\ sendQ[m, r] = <<>> /\ sFrame[m, r] = <<>>

(* Graceful termination, driven by end of stream: every map worker and    *)
(* every reduce worker eventually returns from Finalize.                  *)
Termination ==
    <>(/\ \A m \in Mappers : mUser[m] = "done"
       /\ \A r \in Reducers : rUser[r] = "done")
=============================================================================
