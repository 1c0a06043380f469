--------------------------- MODULE SocketTables -----------------------------
(***************************************************************************)
(* The table of TCP sockets and control blocks (components/sockets_table), *)
(* with the calls that register, the removal of a control block by the     *)
(* event loop or by the TIME_WAIT timer, and the look-up for a segment.    *)
(*                                                                         *)
(* Every socket is used by one thread.  Each test and each update of a     *)
(* table is a step: no lock covers two of them.  An address is a local     *)
(* port and a remote end; the local IP address is the same for all.        *)
(***************************************************************************)
EXTENDS Naturals

CONSTANTS
    Sockets,
    Ports,        \* ports an application may bind
    Ephemeral,    \* EPHEMERAL_PORTS; may share elements with Ports
    Remotes,      \* remote ends to connect to
    Cbs           \* TCPCB objects: a bound on connect() calls

NoPort == 0
NoRemote == 0
None == 0

ASSUME TablesAssumption ==
    /\ NoPort \notin Ports \cup Ephemeral
    /\ NoRemote \notin Remotes
    /\ None \notin Sockets \cup Cbs

Ids == (Ports \cup Ephemeral \cup {NoPort}) \X (Remotes \cup {NoRemote})

VARIABLES
    sockets, tcpcbs,   \* the two dictionaries, None where there is no entry
    bound,             \* bound_sockets
    free,              \* ephemeral_ports
    named,             \* sockets ever registered under an id (history)
    port, remote, id,  \* of a socket: local_port, the remote end and sock_id
    error,             \* so.error is set
    pc,                \* step of the socket's thread
    cid, cst,          \* of a TCPCB: socket_id, and how far it has come
    rx                 \* the segment in rx_tcp and what was found for it

tables == <<sockets, tcpcbs, bound, free, named>>
socketVars == <<port, remote, id, error, pc>>
cbVars == <<cid, cst>>
vars == <<tables, socketVars, cbVars, rx>>

RxIdle == [step |-> "idle", id |-> <<NoPort, NoRemote>>, cb |-> None]

Init ==
    /\ sockets = [i \in Ids |-> None] /\ tcpcbs = [i \in Ids |-> None]
    /\ bound = {} /\ free = Ephemeral /\ named = [i \in Ids |-> {}]
    /\ port = [s \in Sockets |-> NoPort] /\ remote = [s \in Sockets |-> NoRemote]
    /\ id = [s \in Sockets |-> <<NoPort, NoRemote>>]
    /\ error = [s \in Sockets |-> FALSE] /\ pc = [s \in Sockets |-> "idle"]
    /\ cid = [c \in Cbs |-> <<NoPort, NoRemote>>] /\ cst = [c \in Cbs |-> "new"]
    /\ rx = RxIdle

\* register_socket
RegisterSocket(i, s, table) ==
    /\ sockets' = [table EXCEPT ![i] = s]
    /\ named' = [named EXCEPT ![i] = @ \cup {s}]

-----------------------------------------------------------------------------
(* tcp_bind *)

\* A second bind() raises EINVAL; an address in use EADDRINUSE, after local_port was set.
\* The id has the remote end that a connect() which found no port has left.
Bind(s, p) ==
    /\ pc[s] = "idle" /\ ~ error[s]
    /\ LET again == port[s] # NoPort
           inUse == p \in bound
       IN /\ port' = [port EXCEPT ![s] = IF again THEN @ ELSE p]
          /\ error' = [error EXCEPT ![s] = again \/ inUse]
          /\ IF again \/ inUse
               THEN UNCHANGED <<id, pc>>
               ELSE id' = [id EXCEPT ![s] = <<p, remote[s]>>] /\ pc' = [pc EXCEPT ![s] = "bind"]
    /\ UNCHANGED <<tables, remote, cbVars, rx>>

BindSocket(s) ==
    /\ pc[s] = "bind"
    /\ RegisterSocket(id[s], s, sockets)
    /\ pc' = [pc EXCEPT ![s] = "bound"]
    /\ UNCHANGED <<tcpcbs, bound, free, port, remote, id, error, cbVars, rx>>

BindBound(s) ==
    /\ pc[s] = "bound"
    /\ bound' = bound \cup {port[s]}
    /\ pc' = [pc EXCEPT ![s] = "idle"]
    /\ UNCHANGED <<sockets, tcpcbs, free, named, port, remote, id, error, cbVars, rx>>

-----------------------------------------------------------------------------
(* tcp_connect, and tcp_close *)

\* A port is taken out of the set of ephemeral ports; nothing puts one back
ConnectEphemeral(s, r, p) ==
    /\ pc[s] \in {"idle", "closed"} /\ port[s] = NoPort /\ p \in free
    /\ free' = free \ {p}
    /\ port' = [port EXCEPT ![s] = p] /\ remote' = [remote EXCEPT ![s] = r]
    /\ id' = [id EXCEPT ![s] = <<p, r>>]
    /\ RegisterSocket(<<p, r>>, s, sockets)
    /\ pc' = [pc EXCEPT ![s] = "connect"]
    /\ UNCHANGED <<tcpcbs, bound, error, cbVars, rx>>

\* No port is left: pop() raises KeyError, after the remote end was set
ConnectNoPort(s, r) ==
    /\ pc[s] \in {"idle", "closed"} /\ port[s] = NoPort /\ free = {}
    /\ remote' = [remote EXCEPT ![s] = r]
    /\ UNCHANGED <<tables, port, id, error, pc, cbVars, rx>>

\* Mutant: every entry of the port is dropped, not only the unconnected one
ConnectBoundDropsPort(s, r) ==
    /\ pc[s] \in {"idle", "closed"} /\ port[s] # NoPort
    /\ remote' = [remote EXCEPT ![s] = r]
    /\ id' = [id EXCEPT ![s] = <<port[s], r>>]
    /\ RegisterSocket(<<port[s], r>>, s,
                      [i \in Ids |-> IF i[1] = port[s] THEN None ELSE sockets[i]])
    /\ pc' = [pc EXCEPT ![s] = "connect"]
    /\ UNCHANGED <<tcpcbs, bound, free, port, error, cbVars, rx>>

\* A socket with a port, also one whose bind() failed or that was closed, moves its entry
ConnectBound(s, r) ==
    /\ pc[s] \in {"idle", "closed"} /\ port[s] # NoPort
    /\ remote' = [remote EXCEPT ![s] = r]
    /\ id' = [id EXCEPT ![s] = <<port[s], r>>]
    /\ RegisterSocket(<<port[s], r>>, s, [sockets EXCEPT ![<<port[s], NoRemote>>] = None])
    /\ pc' = [pc EXCEPT ![s] = "connect"]
    /\ UNCHANGED <<tcpcbs, bound, free, port, error, cbVars, rx>>

RegisterTcpcb(s, c) ==
    /\ pc[s] = "connect" /\ cst[c] = "new"
    /\ cid' = [cid EXCEPT ![c] = id[s]] /\ cst' = [cst EXCEPT ![c] = "open"]
    /\ tcpcbs' = [tcpcbs EXCEPT ![id[s]] = c]
    /\ pc' = [pc EXCEPT ![s] = "connected"]
    /\ UNCHANGED <<sockets, bound, free, named, port, remote, id, error, rx>>

\* With a TCPCB the socket stays until the connection has ended
Close(s) ==
    /\ pc[s] \in {"idle", "connected"}
    /\ sockets' = IF tcpcbs[id[s]] = None THEN [sockets EXCEPT ![id[s]] = None] ELSE sockets
    /\ pc' = [pc EXCEPT ![s] = "closed"]
    /\ UNCHANGED <<tcpcbs, bound, free, named, port, remote, id, error, cbVars, rx>>

-----------------------------------------------------------------------------
(* The end of a connection: remove_tcpcb, at once or when TIME_WAIT is over *)

TimeWait(c) ==
    /\ cst[c] = "open"
    /\ cst' = [cst EXCEPT ![c] = "time_wait"]
    /\ UNCHANGED <<tables, socketVars, cid, rx>>

RemoveSocket(c) ==
    /\ cst[c] \in {"open", "time_wait"}
    /\ sockets' = [sockets EXCEPT ![cid[c]] = None]
    /\ cst' = [cst EXCEPT ![c] = "removing"]
    /\ UNCHANGED <<tcpcbs, bound, free, named, socketVars, cid, rx>>

\* Mutant: the TCPCB stays registered
RemoveTcpcbForgotten(c) ==
    /\ cst[c] = "removing"
    /\ cst' = [cst EXCEPT ![c] = "gone"]
    /\ UNCHANGED <<tcpcbs, sockets, bound, free, named, socketVars, cid, rx>>

\* The entry is removed, whichever TCPCB it holds
RemoveTcpcb(c) ==
    /\ cst[c] = "removing"
    /\ tcpcbs' = [tcpcbs EXCEPT ![cid[c]] = None]
    /\ cst' = [cst EXCEPT ![c] = "gone"]
    /\ UNCHANGED <<sockets, bound, free, named, socketVars, cid, rx>>

-----------------------------------------------------------------------------
(* rx_tcp *)

\* No socket: a RST is sent and nothing changes
RxFind(i) ==
    /\ rx.step = "idle" /\ i[2] # NoRemote /\ sockets[i] # None
    /\ rx' = [step |-> "found", id |-> i, cb |-> None]
    /\ UNCHANGED <<tables, socketVars, cbVars>>

RxGet ==
    /\ rx.step = "found"
    /\ rx' = [rx EXCEPT !.step = "event", !.cb = tcpcbs[rx.id]]
    /\ UNCHANGED <<tables, socketVars, cbVars>>

RxSchedule ==
    /\ rx.step = "event"
    /\ rx' = RxIdle
    /\ UNCHANGED <<tables, socketVars, cbVars>>

SocketNext(s) ==
    \/ \E p \in Ports : Bind(s, p)
    \/ BindSocket(s) \/ BindBound(s)
    \/ \E r \in Remotes :
           \/ ConnectBound(s, r) \/ ConnectNoPort(s, r)
           \/ \E p \in Ephemeral : ConnectEphemeral(s, r, p)
    \/ \E c \in Cbs : RegisterTcpcb(s, c)
    \/ Close(s)

CbNext(c) == TimeWait(c) \/ RemoveSocket(c) \/ RemoveTcpcb(c)

Next ==
    \/ \E s \in Sockets : SocketNext(s)
    \/ \E c \in Cbs : CbNext(c)
    \/ \E i \in Ids : RxFind(i)
    \/ RxGet \/ RxSchedule

Spec == Init /\ [][Next]_vars

-----------------------------------------------------------------------------
(* Properties *)

Live(c) == cst[c] \in {"open", "time_wait"}
Sole(c) ==
    /\ \A d \in Cbs : d # c /\ cst[d] # "new" => cid[d] # cid[c]
    /\ \A s, t \in named[cid[c]] : s = t

\* A segment of a live connection is resolved to this connection, in both dictionaries and
\* whatever other sockets do, as long as no other connection and no other socket was given
\* the same address (rx_tcp against tcp_bind, tcp_connect, tcp_close and remove_tcpcb).
DemuxOwn ==
    \A c \in Cbs : Live(c) /\ Sole(c) => tcpcbs[cid[c]] = c /\ sockets[cid[c]] # None

\* A control block that was removed is never resolved again (remove_tcpcb).
NoGhost == \A i \in Ids : tcpcbs[i] # None => cst[tcpcbs[i]] # "gone" /\ cid[tcpcbs[i]] = i

-----------------------------------------------------------------------------
(* Statements that the code does not keep *)

\* "delete the tcpcb": remove_tcpcb deletes the control block it is given and no other.
RemovesOwn ==
    [][\A c \in Cbs : cst[c] = "removing" /\ cst'[c] = "gone" =>
          \A d \in Cbs : d # c /\ tcpcbs[cid[c]] = d => tcpcbs'[cid[c]] = d]_vars

\* "Try to resolve the socket, schedule an RX event": the event names a control block.
EventHasTcpcb == rx.step = "event" => rx.cb # None

\* "Address already in use": one socket owns a bound address.
BoundOnce == \A s, t \in Sockets :
    s # t /\ pc[s] = "bound" /\ pc[t] = "bound" => port[s] # port[t]
=============================================================================
