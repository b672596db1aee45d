----------------------------- MODULE UdpChannel -----------------------------
(***************************************************************************)
(* framework/udp_data_handler.{h,cpp} and udp_server.{h,cpp}: a handler    *)
(* that sends packets to a server over a network that loses, repeats and   *)
(* reorders datagrams.  The sender queues packets and writes all it has    *)
(* queued in one datagram; the receiver puts datagrams behind each other   *)
(* and cuts them into packets as if they were a stream.  (The on_read of   *)
(* the handler is that of the server, see UdpOnRead.)                      *)
(*                                                                         *)
(* A byte names its packet and its place in it; get_packet_info reads the  *)
(* size from the first byte, and from data that start in the middle of a   *)
(* packet any size.                                                        *)
(***************************************************************************)
EXTENDS Integers, Sequences, SequencesExt, Buffer

CONSTANTS UdpSizes,       \* packet sizes
          UdpBufSize,     \* INIT_RECV_BUF_SIZE and INIT_SEND_BUF_SIZE
          MaxDatagram,    \* what a datagram can hold
          MaxUdpSent,     \* bound: packets that are sent
          MaxUdpNet,      \* bound: datagrams in the network
          MaxUdpGot       \* bound: packets that are processed

ASSUME UdpAssumption ==
    /\ UdpSizes \subseteq Nat \ {0}
    /\ UdpBufSize \in Nat \ {0} /\ MaxDatagram \in Nat \ {0}
    /\ MaxUdpSent \in Nat /\ MaxUdpNet \in Nat /\ MaxUdpGot \in Nat

VARIABLES udpOpen,     \* the sender's sock_fd >= 0
          udpOut,      \* the sender's m_sbuf
          udpWatch,    \* whether the sender is registered for writing
          udpSent,     \* history: the sizes of the packets for which send returned 0
          network,     \* external: datagrams under way
          serverOpen,  \* the server's m_fd >= 0
          udpIn,       \* the server's m_rbuf
          cutting,     \* the server's on_read is in its loop
          udpGot,      \* history: the packets given to process_packet
          lossless,    \* history: nothing was lost, repeated or reordered on the way
          misaligned   \* history: a datagram was cut off, or data stayed behind an error

senderVars == <<udpOpen, udpOut, udpWatch, udpSent>>
serverVars == <<serverOpen, udpIn, cutting, udpGot, misaligned>>
udpVars == <<senderVars, network, serverVars, lossless>>

UdpInit ==
    /\ udpOpen = TRUE /\ udpOut = NewBuffer(UdpBufSize) /\ udpWatch = FALSE /\ udpSent = << >>
    /\ network = << >>
    /\ serverOpen = TRUE /\ udpIn = NewBuffer(UdpBufSize) /\ cutting = FALSE
    /\ udpGot = << >>
    /\ lossless = TRUE /\ misaligned = FALSE

\* The bytes of the n-th packet, of the given size.
UdpPacket(n, size) == [i \in 1 .. size |-> [packet |-> n, place |-> i, size |-> size]]

-----------------------------------------------------------------------------
\* The sender.
UdpGrown(b, size) == IF SpaceSize(b) < size THEN Resize(b, b.cap + size) ELSE b

\* A fault in the code that the property must catch: send pushes without making room.
UdpQueuedUngrown(size) == PushData(udpOut, UdpPacket(Len(udpSent) + 1, size))

UdpQueued(size) == PushData(UdpGrown(udpOut, size), UdpPacket(Len(udpSent) + 1, size))

\* on_write on the send buffer b, with net on the way: all of b leaves in one datagram,
\* or nothing does, which is always so when b is larger than a datagram.
UdpWriteFrom(b, net) ==
    \/ /\ DataSize(b) \in 1 .. MaxDatagram
       /\ network' = Append(net, b.bytes)
       /\ udpOut' = Adjust(PopData(b, DataSize(b)))
       /\ udpWatch' = FALSE
    \/ network' = net /\ udpOut' = b /\ udpWatch' = TRUE

\* Both sends: send(packet, delay_flag), and send(data, size, delay_flag), which first,
\* with nothing queued and no delay, writes the 0 bytes that are queued.
UdpSend(size, delay, data) ==
    /\ udpOpen
    /\ Len(udpSent) < MaxUdpSent
    /\ udpSent' = Append(udpSent, size)
    /\ LET empty == IF data /\ ~delay /\ DataSize(udpOut) = 0 THEN {network, Append(network, << >>)}
                    ELSE {network}
       IN  \E net \in empty :
             IF delay THEN udpOut' = UdpQueued(size) /\ udpWatch' = TRUE /\ network' = net
             ELSE UdpWriteFrom(UdpQueued(size), net)
    /\ Len(network') <= MaxUdpNet
    /\ UNCHANGED <<udpOpen, serverVars, lossless>>

UdpOnWrite ==
    /\ udpOpen /\ udpWatch
    /\ UdpWriteFrom(udpOut, network)
    /\ Len(network') <= MaxUdpNet
    /\ UNCHANGED <<udpOpen, udpSent, serverVars, lossless>>

\* fini, which on_event of a concrete class calls: what is queued is gone.
UdpFini ==
    /\ udpOpen
    /\ udpOpen' = FALSE
    /\ lossless' = (lossless /\ DataSize(udpOut) = 0)
    /\ udpOut' = NewBuffer(UdpBufSize) /\ udpWatch' = FALSE
    /\ UNCHANGED <<udpSent, network, serverVars>>

UdpReopen ==
    /\ ~udpOpen
    /\ udpOpen' = TRUE
    /\ UNCHANGED <<udpOut, udpWatch, udpSent, network, serverVars, lossless>>

-----------------------------------------------------------------------------
\* The network.
Lose ==
    /\ network # << >>
    /\ \E i \in DOMAIN network : network' = RemoveAt(network, i)
    /\ lossless' = FALSE
    /\ UNCHANGED <<senderVars, serverVars>>

Repeat ==
    /\ \E i \in DOMAIN network : network' = Append(network, network[i])
    /\ Len(network') <= MaxUdpNet
    /\ lossless' = FALSE
    /\ UNCHANGED <<senderVars, serverVars>>

Reorder ==
    /\ \E i \in 1 .. Len(network) - 1 :
        network' = [network EXCEPT ![i] = network[i + 1], ![i + 1] = network[i]]
    /\ lossless' = FALSE
    /\ UNCHANGED <<senderVars, serverVars>>

-----------------------------------------------------------------------------
\* The server.  When its on_event is called it calls fini, which keeps the buffers.
ServerError ==
    /\ serverOpen' = FALSE
    /\ cutting' = FALSE
    /\ misaligned' = (misaligned \/ DataSize(udpIn) > 0)
    /\ UNCHANGED udpIn

\* init, again: the buffers are there.
ServerInit ==
    /\ ~serverOpen
    /\ serverOpen' = TRUE
    /\ UNCHANGED <<senderVars, network, udpIn, cutting, udpGot, misaligned, lossless>>

Least(a, b) == IF a < b THEN a ELSE b

\* recvfrom cuts off what finds no space.  A result of 0, for an empty datagram or for want
\* of space, is an error or none, as errno happens to be.
UdpOnRead ==
    /\ serverOpen /\ ~cutting
    /\ network # << >>
    /\ network' = Tail(network)
    /\ LET d == Head(network)
           n == Least(Len(d), SpaceSize(udpIn))
       IN  \/ /\ n > 0
              /\ udpIn' = PushData(udpIn, SubSeq(d, 1, n))
              /\ cutting' = TRUE
              /\ misaligned' = (misaligned \/ n < Len(d))
              /\ UNCHANGED serverOpen
           \/ n = 0 /\ ServerError
           \/ n = 0 /\ UNCHANGED <<serverOpen, udpIn, cutting>>
              /\ misaligned' = (misaligned \/ d # << >>)
    /\ UNCHANGED <<senderVars, udpGot, lossless>>

\* recvfrom fails: its result, kept in a size_t, is taken for a length, push_data refuses
\* it, and the loop looks at what is left from before.
UdpReadFails ==
    /\ serverOpen /\ ~cutting
    /\ cutting' = TRUE
    /\ UNCHANGED <<senderVars, network, serverOpen, udpIn, udpGot, misaligned, lossless>>

\* get_packet_info.
UdpPacketSizes == IF udpIn.bytes[1].place = 1 THEN {udpIn.bytes[1].size} ELSE UdpSizes \cup {0}

\* process_packet takes the packet or refuses it; refused, it stays in the buffer.
CutPacket ==
    /\ cutting /\ DataSize(udpIn) > 0
    /\ Len(udpGot) < MaxUdpGot
    /\ \E size \in UdpPacketSizes \ {0} :
        /\ size <= DataSize(udpIn)
        /\ udpGot' = Append(udpGot, SubSeq(udpIn.bytes, 1, size))
        /\ \/ udpIn' = PopData(udpIn, size) /\ UNCHANGED <<serverOpen, cutting, misaligned>>
           \/ ServerError
    /\ UNCHANGED <<senderVars, network, lossless>>

RoomFor(b, size) ==
    IF SpaceSize(b) < size - DataSize(b) THEN Resize(b, b.cap + size) ELSE b

CutEnds ==
    /\ cutting
    /\ \/ DataSize(udpIn) = 0 /\ udpIn' = Adjust(udpIn)
       \/ /\ DataSize(udpIn) > 0
          /\ \E size \in UdpPacketSizes :
                size > DataSize(udpIn) /\ udpIn' = Adjust(RoomFor(udpIn, size))
    /\ cutting' = FALSE
    /\ UNCHANGED <<senderVars, network, serverOpen, udpGot, misaligned, lossless>>

CutBad ==
    /\ cutting /\ DataSize(udpIn) > 0 /\ 0 \in UdpPacketSizes
    /\ ServerError
    /\ UNCHANGED <<senderVars, network, udpGot, lossless>>

UdpNext ==
    \/ \E size \in UdpSizes, delay \in BOOLEAN, data \in BOOLEAN : UdpSend(size, delay, data)
    \/ UdpOnWrite \/ UdpFini \/ UdpReopen
    \/ Lose \/ Repeat \/ Reorder
    \/ ServerInit \/ UdpOnRead \/ UdpReadFails \/ CutPacket \/ CutEnds \/ CutBad

UdpSpec == UdpInit /\ [][UdpNext]_udpVars
-----------------------------------------------------------------------------
\* What process_packet gets is a packet as it was sent, whatever the network does to the
\* datagrams, as long as they fit the receiver's buffer and no error leaves data in it; and
\* when the network does nothing to them, the packets come in order, with none left out
\* (udp_data_handler.cpp:152-237, udp_server.cpp:75-138).
UdpWhole ==
    ~misaligned =>
        /\ \A i \in DOMAIN udpGot :
              \E n \in DOMAIN udpSent : udpGot[i] = UdpPacket(n, udpSent[n])
        /\ lossless => \A i \in DOMAIN udpGot : udpGot[i][1].packet = i
=============================================================================
