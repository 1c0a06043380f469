----------------------------- MODULE TcpBuffers -----------------------------
(***************************************************************************)
(* The two buffers of a TCPCB: rcv_buf (RingBuffer) and snd_buf, with the  *)
(* network and the peer behind it (SendStream).  They share no state, so a *)
(* behaviour is about one of the two directions.                           *)
(***************************************************************************)
EXTENDS RingBuffer, SendStream

VARIABLE side    \* the direction this behaviour is about

buffersVars == <<side, vars, streamVars>>

BuffersInit == side \in {"rcv", "snd"} /\ Init /\ StreamInit

Receiving == side = "rcv" /\ Next /\ UNCHANGED <<side, streamVars>>
Sending == side = "snd" /\ StreamNext /\ UNCHANGED <<side, vars>>

BuffersSpec == BuffersInit /\ [][Receiving \/ Sending]_buffersVars
=============================================================================
