--------------------------- MODULE TcpConnection ---------------------------
(***************************************************************************)
(* framework/tcp_connection.{h,cpp} with packet_processor.h: an earlier    *)
(* tcp_data_handler, with its code but for these differences.  The         *)
(* callbacks are those of a packet_processor, whose on_error calls fini as *)
(* on_event does; on_read receives once; neither a write nor a packet has a*)
(* limit; send(data) tries a rest again; and a read that finds nothing is  *)
(* taken for an error, because the two comparisons of errno are joined by  *)
(* "or".                                                                   *)
(***************************************************************************)
EXTENDS TcpDataHandler

ConnInit == Fresh /\ readall = FALSE /\ request = 0

ConnConnect == Connect /\ readall' = FALSE /\ request' = 0

\* on_read, until it is in process.
ConnOnRead == OnRead \/ RecvData \/ RecvEnds \/ ParseBad \/ ParseWhole \/ ParsePartial

ConnProcess == ProcessReturns \/ ProcessFails

\* The reactor dispatches a descriptor that has nothing to read.
ConnSpurious ==
    /\ pc = "idle" /\ open /\ link = "up" /\ arrived = received
    /\ HandleError
    /\ UNCHANGED <<pc, received, packetVars, accepted, wire, peerVars>>

ConnOnWrite == OnWrite

ConnOnError == OnError

ConnFini == Close

\* send(data, size, delay_flag): what the socket does not take at once is queued, for which
\* the buffer grows by that much only, and without delay is tried again.
ConnSendData(size, delay) ==
    LET direct == DataSize(sbuf) = 0 /\ ~delay
        Queued(n) == PushData(Grown(size - n), SubSeq(Message(size), n + 1, size))
    IN  /\ CanSend
        /\ \/ direct /\ link = "reset" /\ UNCHANGED <<sendVars, open, interest, events, rbuf>>
           \/ /\ direct /\ link # "reset"
              /\ \E n \in 0 .. size : \E t \in n .. size :
                   /\ wire' = wire \o SubSeq(Message(size), 1, t)
                   /\ IF n = size THEN UNCHANGED <<sbuf, interest>>
                      ELSE /\ sbuf' = IF t = n THEN Queued(n) ELSE Adjust(PopData(Queued(n), t - n))
                           /\ interest' = Watch(sbuf')
              /\ accepted' = accepted + size
              /\ UNCHANGED <<open, events, rbuf>>
           \/ ~direct /\ ~delay /\ WriteFrom(Queued(0)) /\ accepted' = accepted + size
           \/ /\ delay
              /\ sbuf' = Queued(0) /\ interest' = {"READ", "WRITE"}
              /\ accepted' = accepted + size
              /\ UNCHANGED <<open, events, rbuf, wire>>
        /\ UNCHANGED <<pc, received, packetVars, peerVars>>

\* Both sends, which their callers must not call on a closed connection.
ConnSend ==
    \E size \in MsgSizes, delay \in BOOLEAN :
        /\ accepted + size <= MaxSent
        /\ ConnSendData(size, delay) \/ SendPacket(size, delay)

ConnPeer == PeerSends \/ PeerCloses

ConnNext ==
    \/ ConnConnect \/ ConnPeer
    \/ ConnOnRead \/ ConnProcess \/ ConnSpurious
    \/ ConnOnWrite \/ ConnOnError \/ ConnFini \/ ConnSend

ConnSpec == ConnInit /\ [][ConnNext]_vars
-----------------------------------------------------------------------------
\* Whatever the socket takes and gives at a time, whether the output is sent directly or
\* queued, and however small the buffers were at first: the socket gets the bytes that
\* send accepted, in order, and process gets the packets that the peer sent, whole and in
\* order (tcp_connection.cpp:93-247).
ConnIntact == OutputIntact /\ InputIntact
=============================================================================
