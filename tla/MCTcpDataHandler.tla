-------------------------- MODULE MCTcpDataHandler --------------------------
(***************************************************************************)
(* TcpDataHandler on buffers of a few bytes, with packets that fit in them,*)
(* that do not, and that are refused.                                      *)
(***************************************************************************)
EXTENDS TcpDataHandler

\* A packet that makes the buffer grow after a short one, a policy request between short
\* ones (the third of four), and a packet above MaxPacket.
MCStreams == {<<2, 7>>, <<2, 4, 7, 9>>, <<2, 10>>}
=============================================================================
