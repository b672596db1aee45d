--------------------------- MODULE TcpDataHandler ---------------------------
(***************************************************************************)
(* framework/tcp_data_handler.{h,cpp}: one connection, from init to fini,  *)
(* driven by the reactor.  on_read cuts the byte stream into packets and   *)
(* calls process_packet for each; send queues what the socket does not take*)
(* and asks the reactor for writability.  process_packet may itself send,  *)
(* and a failing send closes the connection under on_read, so on_read is   *)
(* modelled step by step.                                                  *)
(*                                                                         *)
(* The application is as in gate_server, which clears the readall flag and *)
(* may send from process_packet, or as in bench_client, which does neither:*)
(* get_packet_info asks for HeaderSize bytes and then returns the size the *)
(* header states, on_event calls fini.  gate_server also answers a request *)
(* for its policy file, a text without a header that may come once in the  *)
(* stream, and takes all the bytes that came with the text for part of it: *)
(* `skipped' records that it took more, or less, than the text.            *)
(*                                                                         *)
(* Bytes are numbered, so that loss, duplication and reordering show: the  *)
(* i-th byte of the peer is i, and so is the i-th byte the application     *)
(* sends.                                                                  *)
(***************************************************************************)
EXTENDS Integers, Sequences, Buffer

CONSTANTS Streams,      \* what peers may send: the sequences of the ends of their packets
          Requests,     \* which packet of a stream may be a policy request; 0 for none
          AnswerSize,   \* the size of the answer to it
          HeaderSize,   \* sizeof(cs_head)
          MaxPacket,    \* the largest packet on_read accepts (4194304)
          BufSize,      \* buf_size of init
          MaxWrite,     \* m_max_write_size
          MsgSizes,     \* sizes of what the application sends
          MaxSent       \* bound: bytes the application sends on a connection

ASSUME HandlerAssumption ==
    /\ HeaderSize \in Nat \ {0} /\ BufSize \in Nat \ {0} /\ MaxWrite \in Nat \ {0}
    /\ MaxPacket \in Nat /\ HeaderSize <= MaxPacket
    /\ MsgSizes \subseteq Nat \ {0} /\ AnswerSize \in Nat \ {0}
    /\ MaxSent \in Nat

\* A packet has at least one byte.
ASSUME StreamAssumption ==
    /\ Streams \subseteq Seq(Nat \ {0})
    /\ \A s \in Streams : \A i, j \in DOMAIN s : i < j => s[i] < s[j]
    /\ Requests \subseteq Nat /\ 0 \in Requests

VARIABLES open,        \* m_id.fd >= 0
          interest,    \* the events registered with the reactor for the fd
          readall,     \* m_readall_flag
          rbuf,        \* m_rbuf
          sbuf,        \* m_sbuf
          pc,          \* where on_read is: "idle", "recv", "parse", "process"
          events,      \* how often on_event was called for this connection
          stream,      \* external: where the packets of this peer end
          request,     \* external: which of them is a policy request; 0 if none
          arrived,     \* external: bytes of the peer that reached the socket
          received,    \* bytes recv has returned
          link,        \* external: "up", "closed" by the peer, or "reset"
          taking,      \* pi.size of the packet in process_packet, else 0
          policy,      \* m_policy_status: 0, or 2 once the request is answered
          skipped,     \* history: the request was not taken as what it is
          delivered,   \* the last packet handed to process_packet
          accepted,    \* bytes for which send returned 0
          wire         \* external: the bytes the socket took

vars == <<open, interest, readall, rbuf, sbuf, pc, events, stream, request, arrived, received,
          link, taking, policy, skipped, delivered, accepted, wire>>

\* What only Connect changes, or only the peer.
peerVars == <<readall, stream, request, arrived, link>>
policyVars == <<policy, skipped>>
packetVars == <<taking, policyVars, delivered>>
recvVars == <<rbuf, pc, received, packetVars>>
sendVars == <<sbuf, accepted, wire>>

\* The number of bytes of the first n packets.
Ends(n) == IF n = 0 THEN 0 ELSE stream[n]

SizeOf(n) == Ends(n) - Ends(n - 1)

Total == Ends(Len(stream))

\* Who asks gate_server for its policy file asks once; the peer of bench_client is a server.
MayRequest(n, s, all) == n = 0 \/ (n <= Len(s) /\ ~all)

\* A fresh connection: init after connect or accept.
Fresh ==
    /\ open = TRUE
    /\ interest = {"READ"}
    /\ readall \in BOOLEAN
    /\ rbuf = NewBuffer(BufSize)
    /\ sbuf = NewBuffer(BufSize)
    /\ pc = "idle"
    /\ events = 0
    /\ stream \in Streams
    /\ request \in Requests /\ MayRequest(request, stream, readall)
    /\ arrived = 0
    /\ received = 0
    /\ link = "up"
    /\ taking = 0 /\ policy = 0 /\ skipped = FALSE
    /\ delivered = 0
    /\ accepted = 0
    /\ wire = << >>

Init == Fresh

\* The handler object is used again for the next connection, by either init.  The one that
\* connects does not wait: until the peer answers nothing arrives and the socket takes
\* nothing, and a peer that refuses is one that resets the connection.
Connect ==
    /\ ~open
    /\ pc = "idle"
    /\ open' = TRUE
    /\ interest' = {"READ"}
    /\ readall' \in BOOLEAN
    /\ rbuf' = Resize(rbuf, BufSize)
    /\ sbuf' = Resize(sbuf, BufSize)
    /\ events' = 0
    /\ stream' \in Streams
    /\ request' \in Requests /\ MayRequest(request', stream', readall')
    /\ arrived' = 0
    /\ received' = 0
    /\ link' = "up"
    /\ policy' = 0 /\ skipped' = FALSE
    /\ delivered' = 0
    /\ accepted' = 0
    /\ wire' = << >>
    /\ UNCHANGED <<pc, taking>>

-----------------------------------------------------------------------------
\* The peer and the network.
PeerSends ==
    /\ open
    /\ link = "up"
    /\ \E k \in 1 .. Total - arrived : arrived' = arrived + k
    /\ UNCHANGED <<open, interest, events, readall, stream, request, link, recvVars, sendVars>>

PeerCloses ==
    /\ open
    /\ link = "up"
    /\ link' \in {"closed", "reset"}
    /\ UNCHANGED <<open, interest, events, readall, stream, request, arrived, recvVars, sendVars>>

-----------------------------------------------------------------------------
\* handle_error: on_event of the application, which calls fini.
Shut ==
    /\ open' = FALSE
    /\ interest' = {}
    /\ events' = events + 1

HandleError ==
    /\ Shut
    /\ rbuf' = Clear(rbuf)
    /\ sbuf' = Clear(sbuf)

\* The reactor dispatches EPOLLIN.
OnRead ==
    /\ pc = "idle"
    /\ open /\ "READ" \in interest
    /\ arrived > received \/ link # "up"
    /\ pc' = "recv"
    /\ UNCHANGED <<open, interest, events, rbuf, received, packetVars, peerVars, sendVars>>

RecvData ==
    /\ pc = "recv"
    /\ open /\ link # "reset"
    /\ \E k \in 1 .. arrived - received :
        /\ k <= SpaceSize(rbuf)
        /\ rbuf' = PushData(rbuf, [i \in 1 .. k |-> received + i])
        /\ received' = received + k
    /\ pc' = "parse"
    /\ UNCHANGED <<open, interest, events, packetVars, peerVars, sendVars>>

\* recv returns 0 at the end of the stream, and also when it is given no space;
\* it fails on a reset connection, and on a descriptor that fini has closed.
RecvEnds ==
    /\ pc = "recv"
    /\ \/ ~open
       \/ link = "reset"
       \/ link = "closed" /\ arrived = received
       \/ SpaceSize(rbuf) = 0
    /\ HandleError
    /\ pc' = "idle"
    /\ UNCHANGED <<received, packetVars, accepted, wire, peerVars>>

RecvAgain ==
    /\ pc = "recv"
    /\ open /\ link = "up" /\ arrived = received
    /\ pc' = "idle"
    /\ UNCHANGED <<open, interest, events, rbuf, received, packetVars, peerVars, sendVars>>

-----------------------------------------------------------------------------
\* get_packet_info and process_packet.
StartsWith(b, n) == b.bytes[1] = Ends(n - 1) + 1

\* The comparison with the text of the request.  It always compares the whole text: when
\* b ends before, old bytes of the block may complete it, or not.
MayMatch(b) == DataSize(b) > 0 /\ policy = 0 /\ request > 0 /\ StartsWith(b, request)

Matches(b) == MayMatch(b) /\ DataSize(b) >= SizeOf(request)

\* The sizes that the header of b may state: that of the packet b starts with; none that is
\* valid if this is the request, whose text makes no length; anything if it is none.
HeaderSizes(b) ==
    LET first == {n \in 1 .. Len(stream) : StartsWith(b, n)}
    IN  IF first = {} THEN 0 .. MaxPacket
        ELSE {IF n = request THEN 0 ELSE SizeOf(n) : n \in first}

\* What get_packet_info may find when the data is not a request.
PacketSizes(b) == IF DataSize(b) < HeaderSize THEN {HeaderSize} ELSE HeaderSizes(b)

ValidSize(size) == 1 <= size /\ size <= MaxPacket

Parses(size) ==
    /\ pc = "parse"
    /\ DataSize(rbuf) > 0
    /\ ~Matches(rbuf)
    /\ size \in PacketSizes(rbuf)

\* Where on_read goes when the buffer holds no further whole packet.
ReadOn == IF readall THEN "recv" ELSE "idle"

ParseBad ==
    /\ \E size \in PacketSizes(rbuf) : Parses(size) /\ ~ValidSize(size)
    /\ HandleError
    /\ pc' = "idle"
    /\ UNCHANGED <<received, packetVars, accepted, wire, peerVars>>

\* After a request that was not taken as what it is nobody can say which packet it was.
ParseWhole ==
    /\ \E size \in PacketSizes(rbuf) :
        /\ Parses(size) /\ ValidSize(size)
        /\ DataSize(rbuf) >= size
        /\ taking' = size
    /\ delivered' = IF skipped THEN delivered ELSE delivered + 1
    /\ pc' = "process"
    /\ UNCHANGED <<open, interest, events, rbuf, received, policyVars, peerVars, sendVars>>

\* Faults, each of which a property below must catch.
MakeRoomNot(b, size) == b

ProcessReturnsIdle ==
    /\ pc = "process"
    /\ rbuf' = PopData(rbuf, taking)
    /\ taking' = 0
    /\ pc' = "idle"
    /\ UNCHANGED <<open, interest, events, received, policyVars, delivered, peerVars, sendVars>>

WatchAlways(b) == {"READ", "WRITE"}

WatchNever(b) == {"READ"}

GrownNot(size) == sbuf

\* An incomplete packet: make room for the rest of it.
MakeRoom(b, size) ==
    IF SpaceSize(b) < size - DataSize(b) THEN Resize(b, b.cap + size) ELSE b

ParsePartial ==
    /\ \/ pc = "parse" /\ DataSize(rbuf) = 0 /\ rbuf' = Adjust(rbuf)
       \/ \E size \in PacketSizes(rbuf) :
            /\ Parses(size) /\ ValidSize(size)
            /\ DataSize(rbuf) < size
            /\ rbuf' = Adjust(MakeRoom(rbuf, size))
    /\ pc' = ReadOn
    /\ UNCHANGED <<open, interest, events, received, packetVars, peerVars, sendVars>>

\* process_packet returned 0.  on_read pops the packet by the size it took down
\* before the call, from a buffer the call may have cleared.
ProcessReturns ==
    /\ pc = "process"
    /\ rbuf' = PopData(rbuf, taking)
    /\ taking' = 0
    /\ pc' = "parse"
    /\ UNCHANGED <<open, interest, events, received, policyVars, delivered, peerVars, sendVars>>

\* No process_packet of the repository fails after a send of its own.
ProcessFails ==
    /\ pc = "process"
    /\ open
    /\ HandleError
    /\ taking' = 0
    /\ pc' = "idle"
    /\ UNCHANGED <<received, policyVars, delivered, accepted, wire, peerVars>>

-----------------------------------------------------------------------------
\* The events on_write leaves registered when b remains to be sent.
Watch(b) == IF DataSize(b) = 0 THEN {"READ"} ELSE {"READ", "WRITE"}

\* on_write on the send buffer b: the socket takes part of it, all of it, nothing
\* (EAGAIN), or fails.
WriteFrom(b) ==
    \/ /\ link # "reset"
       /\ \E n \in 0 .. DataSize(b) :
            /\ n <= MaxWrite
            /\ wire' = wire \o SubSeq(b.bytes, 1, n)
            /\ sbuf' = IF n = 0 THEN b ELSE Adjust(PopData(b, n))
       /\ interest' = Watch(sbuf')
       /\ UNCHANGED <<open, events, rbuf>>
    \/ /\ link = "reset"
       /\ HandleError
       /\ UNCHANGED wire

\* The reactor dispatches EPOLLOUT.
OnWrite ==
    /\ pc = "idle"
    /\ open /\ "WRITE" \in interest
    /\ WriteFrom(sbuf)
    /\ UNCHANGED <<pc, received, packetVars, accepted, peerVars>>

\* The reactor dispatches EPOLLERR or EPOLLHUP.
OnError ==
    /\ pc = "idle"
    /\ open
    /\ link = "reset"
    /\ HandleError
    /\ UNCHANGED <<pc, received, packetVars, accepted, wire, peerVars>>

\* The application closes the connection from a timer.
Close ==
    /\ pc = "idle"
    /\ open
    /\ HandleError
    /\ UNCHANGED <<pc, received, packetVars, accepted, wire, peerVars>>

CanSend == open /\ (pc = "idle" \/ (pc = "process" /\ ~readall))

\* The bytes of a message of the given size.
Message(size) == [i \in 1 .. size |-> accepted + i]

Grown(size) ==
    IF SpaceSize(sbuf) < size THEN Resize(sbuf, sbuf.cap + size) ELSE sbuf

\* send(data, size, delay_flag): straight to the socket if nothing is queued and
\* delay_flag is 0; the rest is queued.  On a reset connection the direct send
\* fails, send returns -1 and accepts nothing.
DirectOrQueued(size, delay) ==
    LET direct == DataSize(sbuf) = 0 /\ ~delay
    IN  IF direct /\ link = "reset"
        THEN sbuf' = Grown(size) /\ UNCHANGED <<interest, accepted, wire>>
        ELSE \E n \in 0 .. (IF direct THEN size ELSE 0) :
               /\ wire' = wire \o SubSeq(Message(size), 1, n)
               /\ sbuf' = PushData(Grown(size), SubSeq(Message(size), n + 1, size))
               /\ interest' = IF n = size THEN interest ELSE {"READ", "WRITE"}
               /\ accepted' = accepted + size

SendData(size, delay) ==
    /\ CanSend
    /\ DirectOrQueued(size, delay)
    /\ UNCHANGED <<open, events, recvVars, peerVars>>

\* get_packet_info finds the request and takes all the data for it; process_packet sends the
\* answer; on_read pops the data.  The status is 1 between the calls, in one step here: the
\* send closes nothing when it fails.
AnswerPolicy ==
    /\ pc = "parse"
    /\ MayMatch(rbuf)
    /\ DirectOrQueued(AnswerSize, FALSE)
    /\ rbuf' = PopData(rbuf, DataSize(rbuf))
    /\ policy' = 2
    /\ skipped' = (DataSize(rbuf) # SizeOf(request))
    /\ delivered' = request
    /\ UNCHANGED <<open, events, pc, received, taking, peerVars>>

\* send(packet, delay_flag): encoded into the send buffer, then on_write.
SendPacket(size, delay) ==
    LET queued == PushData(Grown(size), Message(size))
    IN  /\ CanSend
        /\ accepted' = accepted + size
        /\ IF delay
           THEN /\ sbuf' = queued
                /\ interest' = {"READ", "WRITE"}
                /\ UNCHANGED <<open, events, rbuf, wire>>
           ELSE WriteFrom(queued)
        /\ UNCHANGED <<pc, received, packetVars, peerVars>>

Send ==
    \E size \in MsgSizes, delay \in BOOLEAN :
        /\ accepted + size <= MaxSent
        /\ SendData(size, delay) \/ SendPacket(size, delay)

Next ==
    \/ Connect \/ PeerSends \/ PeerCloses
    \/ OnRead \/ RecvData \/ RecvEnds \/ RecvAgain
    \/ ParseBad \/ ParseWhole \/ ParsePartial \/ AnswerPolicy
    \/ ProcessReturns \/ ProcessFails
    \/ OnWrite \/ OnError \/ Close \/ Send

\* on_read runs to its end once dispatched; the reactor is level-triggered, so a
\* readable or failed descriptor is dispatched again and again; and a peer that
\* keeps the connection up keeps reading, so that sends make progress.
ReadStep == RecvData \/ RecvEnds \/ RecvAgain \/ ParseBad \/ ParseWhole
            \/ ParsePartial \/ AnswerPolicy \/ ProcessReturns \/ ProcessFails

SafetySpec == Init /\ [][Next]_vars

Spec ==
    /\ SafetySpec
    /\ WF_vars(OnRead)
    /\ WF_vars(ReadStep)
    /\ SF_vars(OnWrite /\ (wire' # wire \/ ~open'))
-----------------------------------------------------------------------------
IsBuffer(b) ==
    /\ b \in [cap : Nat \ {0}, off : Nat, bytes : Seq(Nat)]
    /\ SpaceSize(b) >= 0

\* The type of every variable.
TypeOK ==
    /\ open \in BOOLEAN
    /\ interest \subseteq {"READ", "WRITE"}
    /\ readall \in BOOLEAN
    /\ IsBuffer(rbuf)
    /\ IsBuffer(sbuf)
    /\ pc \in {"idle", "recv", "parse", "process"}
    /\ events \in Nat
    /\ stream \in Streams
    /\ request \in 0 .. Len(stream)
    /\ arrived \in 0 .. Total
    /\ received \in 0 .. arrived
    /\ link \in {"up", "closed", "reset"}
    /\ taking \in 0 .. MaxPacket
    /\ policy \in {0, 2}
    /\ skipped \in BOOLEAN
    /\ delivered \in 0 .. Len(stream)
    /\ accepted \in Nat
    /\ wire \in Seq(Nat)

UpTo(a, b) == [i \in 1 .. b - a |-> a + i]

\* Output: what the socket took followed by what is still queued is exactly what
\* send accepted, in order, whatever mix of direct, queued and partial writes led
\* there (tcp_data_handler.cpp:177-268).
OutputIntact == open => wire \o sbuf.bytes = UpTo(0, accepted)

\* How many bytes of the stream were taken from the receive buffer.
Taken == received - DataSize(rbuf)

\* Input: the receive buffer holds exactly the last bytes received, in order, across recv
\* boundaries, growth and compaction of the buffer; and it starts with the packet that is
\* due (tcp_data_handler.cpp:107-152), unless gate_server took more or less than a policy
\* request for it (client_connection.cpp:83-88).
InputIntact ==
    open => LET done == IF pc = "process" THEN delivered - 1 ELSE delivered
            IN  /\ rbuf.bytes = UpTo(Taken, received)
                /\ skipped \/ Taken = Ends(done)

\* The reactor watches for writability exactly while output is queued: queued
\* output is never forgotten, and an idle connection never spins the loop.
WatchesWrites == open => ("WRITE" \in interest <=> DataSize(sbuf) > 0)

\* recv is never called with no space: it would return 0, and the connection
\* would be taken for closed by the peer (cpp:107, 155-159).
SpaceToReceive == pc = "recv" /\ open => SpaceSize(rbuf) > 0

\* The application hears of the end of a connection at most once (both
\* applications release the object then).
OneEvent == events <= 1

\* A packet that has arrived in full is handed over, or the connection ends, also when it
\* comes behind a policy request, unless that was taken with other bytes than its own.
ArrivedIsDelivered ==
    \A n \in UNION {DOMAIN s : s \in Streams} :
        (open /\ n <= Len(stream) /\ arrived >= Ends(n)) ~> (delivered >= n \/ ~open \/ skipped)

\* Queued output leaves, or the connection ends.
QueuedIsSent == (open /\ DataSize(sbuf) > 0) ~> (DataSize(sbuf) = 0 \/ ~open)

\* What send(packet) accepted, by returning 0, is at that moment sent or queued
\* (tcp_data_handler.h:106: "@return 0 on success , -1 on failure").
SuccessIsQueued ==
    [][accepted' > accepted => Len(wire') + DataSize(sbuf') = accepted']_vars
=============================================================================
