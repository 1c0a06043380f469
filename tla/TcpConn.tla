------------------------------- MODULE TcpConn -------------------------------
(***************************************************************************)
(* What the states of a TCP connection promise: two half-connections that  *)
(* open together and close one after the other, each in one direction.     *)
(* The states of tcp.py are the reachable pairs (CLOSING and LAST_ACK      *)
(* differ only in which half closed first).                                *)
(***************************************************************************)

VARIABLES
    local,    \* "closed", "opening", "open", "fin_sent", "fin_acked", "gone"
    peer      \* "closed", "open", "fin_received"

conn == <<local, peer>>

Init == local = "closed" /\ peer = "closed"

Connect ==
    /\ local = "closed"
    /\ local' = "opening" /\ UNCHANGED peer

Establish ==
    /\ local = "opening"
    /\ local' = "open" /\ peer' = "open"

\* Our FIN leaves
SendFin ==
    /\ local = "open"
    /\ local' = "fin_sent" /\ UNCHANGED peer

\* The peer acknowledges our FIN, perhaps in the segment that carries its own
FinAcked ==
    /\ local = "fin_sent"
    /\ local' = "fin_acked"
    /\ UNCHANGED peer \/ (peer = "open" /\ peer' = "fin_received")

\* The peer's FIN arrives
PeerFin ==
    /\ peer = "open"
    /\ peer' = "fin_received" /\ UNCHANGED local

\* The peer closed first and has now acknowledged our FIN
LastAck ==
    /\ local = "fin_sent" /\ peer = "fin_received"
    /\ local' = "gone" /\ peer' = "closed"

\* A RST sent or received ends both halves at once; nothing leaves "gone"
Abort ==
    /\ peer # "closed"
    /\ local' = "gone" /\ peer' = "closed"

Next == Connect \/ Establish \/ SendFin \/ FinAcked \/ PeerFin \/ LastAck \/ Abort

Spec == Init /\ [][Next]_conn
=============================================================================
