---------------------------- MODULE SocketProofs ----------------------------
(***************************************************************************)
(* Proofs about the two sides of a TCP socket: SocketTables, for every set *)
(* of sockets, ports, remote ends and control blocks, and the blocking     *)
(* calls of TcpUsrReq, for every size of the buffers.                      *)
(***************************************************************************)
EXTENDS SocketTables, TcpUsrReq, SequenceTheorems, TLAPS

\* The provers, and their seconds, for a leaf that names none
USE SMTT(30), ZenonT(30)

AllPorts == Ports \cup Ephemeral \cup {NoPort}
Statuses == {"new", "open", "time_wait", "removing", "gone"}
Steps == {"idle", "bind", "bound", "connect", "connected", "closed"}

TypeOK ==
    /\ sockets \in [Ids -> Sockets \cup {None}] /\ tcpcbs \in [Ids -> Cbs \cup {None}]
    /\ free \subseteq Ephemeral /\ named \in [Ids -> SUBSET Sockets]
    /\ port \in [Sockets -> AllPorts] /\ remote \in [Sockets -> Remotes \cup {NoRemote}]
    /\ id \in [Sockets -> Ids] /\ pc \in [Sockets -> Steps]
    /\ cid \in [Cbs -> Ids] /\ cst \in [Cbs -> Statuses]

Used(i) == \E d \in Cbs : cst[d] # "new" /\ cid[d] = i

\* A socket with a remote end was registered under its address, unless bind() is about to
Named == \A s \in Sockets :
    pc[s] # "bind" /\ id[s][2] # NoRemote => s \in named[id[s]]

\* The entry of a socket that is about to register its TCPCB was taken away only if its
\* address was given to another connection or another socket
Opening == \A s \in Sockets :
    pc[s] = "connect" =>
        /\ id[s][2] # NoRemote
        /\ sockets[id[s]] # None \/ Used(id[s]) \/ \E t \in named[id[s]] : t # s

CbRemote == \A c \in Cbs : cst[c] # "new" => cid[c][2] # NoRemote

Registered == \A i \in Ids :
    tcpcbs[i] # None => cst[tcpcbs[i]] \notin {"new", "gone"} /\ cid[tcpcbs[i]] = i

IInv == TypeOK /\ Named /\ Opening /\ CbRemote /\ Registered /\ DemuxOwn

USE TablesAssumption DEF NoPort, NoRemote, None

\* The empty tables satisfy the invariant.
LEMMA InitIInv == Init => IInv
  BY DEF Init, IInv, TypeOK, Named, Opening, CbRemote, Registered, DemuxOwn, Used, Live, Sole,
         Ids, AllPorts, Statuses, Steps

\* Preserved by tcp_bind, up to its checks.
LEMMA BindIInv ==
  ASSUME IInv, NEW s \in Sockets, NEW p \in Ports, Bind(s, p)
  PROVE  IInv'
  <1>1. TypeOK'
    <2>1. port' \in [Sockets -> AllPorts]
      BY DEF IInv, TypeOK, Bind, AllPorts
    <2>2. <<p, remote[s]>> \in Ids
      BY DEF IInv, TypeOK, Ids
    <2>3. id' \in [Sockets -> Ids] /\ pc' \in [Sockets -> Steps]
      <3>1. CASE UNCHANGED <<id, pc>>
        BY <3>1 DEF IInv, TypeOK
      <3>2. CASE id' = [id EXCEPT ![s] = <<p, remote[s]>>] /\ pc' = [pc EXCEPT ![s] = "bind"]
        BY <3>2, <2>2 DEF IInv, TypeOK, Steps
      <3> QED BY <3>1, <3>2, Zenon DEF Bind
    <2> QED BY <2>1, <2>3 DEF IInv, TypeOK, Bind, tables, cbVars
  <1>2. Named'
    BY DEF IInv, Bind, tables, socketVars, cbVars, TypeOK, Named, Ids, AllPorts
  <1>3. Opening'
    BY DEF IInv, Bind, tables, socketVars, cbVars, TypeOK, Named, Opening, CbRemote, Used,
           Ids
  <1>4. CbRemote'
    BY DEF IInv, Bind, tables, socketVars, cbVars, TypeOK, CbRemote, Opening
  <1>5. Registered'
    BY DEF IInv, Bind, tables, socketVars, cbVars, TypeOK, Registered
  <1>6. DemuxOwn'
    BY DEF IInv, Bind, tables, socketVars, cbVars, TypeOK, DemuxOwn, Live, Sole, Named,
           Opening, CbRemote, Used, Registered, Ids
  <1> QED BY <1>1, <1>2, <1>3, <1>4, <1>5, <1>6 DEF IInv

\* Preserved by tcp_bind, register_socket.
LEMMA BindSocketIInv ==
  ASSUME IInv, NEW s \in Sockets, BindSocket(s)
  PROVE  IInv'
  <1>1. TypeOK'
    BY DEF IInv, BindSocket, RegisterSocket, tables, socketVars, cbVars, TypeOK, Ids,
           AllPorts, Statuses, Steps
  <1>2. Named'
    BY DEF IInv, BindSocket, RegisterSocket, tables, socketVars, cbVars, TypeOK, Named, Ids,
           AllPorts
  <1>3. Opening'
    BY DEF IInv, BindSocket, RegisterSocket, tables, socketVars, cbVars, TypeOK, Named,
           Opening, CbRemote, Used, Ids
  <1>4. CbRemote'
    BY DEF IInv, BindSocket, RegisterSocket, tables, socketVars, cbVars, TypeOK, CbRemote,
           Opening
  <1>5. Registered'
    BY DEF IInv, BindSocket, RegisterSocket, tables, socketVars, cbVars, TypeOK, Registered
  <1>6. DemuxOwn'
    BY DEF IInv, BindSocket, RegisterSocket, tables, socketVars, cbVars, TypeOK, DemuxOwn,
           Live, Sole, Named, Opening, CbRemote, Used, Registered, Ids
  <1> QED BY <1>1, <1>2, <1>3, <1>4, <1>5, <1>6 DEF IInv

\* Preserved by tcp_bind, register_bound_socket.
LEMMA BindBoundIInv ==
  ASSUME IInv, NEW s \in Sockets, BindBound(s)
  PROVE  IInv'
  <1>1. TypeOK'
    BY DEF IInv, BindBound, tables, socketVars, cbVars, TypeOK, Ids, AllPorts, Statuses,
           Steps
  <1>2. Named'
    BY DEF IInv, BindBound, tables, socketVars, cbVars, TypeOK, Named, Ids, AllPorts
  <1>3. Opening'
    BY DEF IInv, BindBound, tables, socketVars, cbVars, TypeOK, Named, Opening, CbRemote,
           Used, Ids
  <1>4. CbRemote'
    BY DEF IInv, BindBound, tables, socketVars, cbVars, TypeOK, CbRemote, Opening
  <1>5. Registered'
    BY DEF IInv, BindBound, tables, socketVars, cbVars, TypeOK, Registered
  <1>6. DemuxOwn'
    BY DEF IInv, BindBound, tables, socketVars, cbVars, TypeOK, DemuxOwn, Live, Sole, Named,
           Opening, CbRemote, Used, Registered, Ids
  <1> QED BY <1>1, <1>2, <1>3, <1>4, <1>5, <1>6 DEF IInv

\* What a connect() that has found its port leaves: the socket is registered under its
\* address, and no other address with a remote end is touched.
Connects(s, a) ==
    /\ sockets'[a] = s /\ \A i \in Ids : i[2] # NoRemote /\ i # a => sockets'[i] = sockets[i]
    /\ named'[a] = named[a] \cup {s} /\ \A i \in Ids : i # a => named'[i] = named[i]
    /\ pc'[s] = "connect" /\ id'[s] = a
    /\ \A t \in Sockets : t # s => pc'[t] = pc[t] /\ id'[t] = id[t]
    /\ UNCHANGED <<tcpcbs, cid, cst>>

\* Preserved by either way to connect.
LEMMA ConnectsIInv ==
  ASSUME IInv, TypeOK', NEW s \in Sockets, NEW a \in Ids, a[2] # NoRemote, Connects(s, a)
  PROVE  IInv'
  <1>1. \A i \in Ids : (Used(i)' <=> Used(i)) /\ named[i] \subseteq named'[i]
    BY DEF Connects, Used
  <1>2. Named'
    BY <1>1 DEF IInv, TypeOK, Named, Connects
  <1>3. Opening'
    <2> SUFFICES ASSUME NEW t \in Sockets, pc'[t] = "connect"
                 PROVE  /\ id'[t][2] # NoRemote
                        /\ sockets'[id'[t]] # None \/ Used(id[t])' \/ \E u \in named'[id'[t]] : u # t
      BY DEF Opening
    <2>1. CASE t = s
      BY <2>1 DEF Connects
    <2>2. CASE t # s
      <3>1. id'[t] = id[t] /\ pc[t] = "connect" /\ id[t] \in Ids
        BY <2>2 DEF IInv, TypeOK, Connects
      <3>2. id[t][2] # NoRemote /\ (sockets[id[t]] # None \/ Used(id[t]) \/ \E u \in named[id[t]] : u # t)
        BY <3>1 DEF IInv, Opening
      <3>3. sockets[id[t]] # None => sockets'[id[t]] # None
        BY <3>1, <3>2 DEF Connects
      <3>4. Used(id[t]) => Used(id[t])'
        BY <3>1 DEF Used, Connects
      <3> QED BY <1>1, <3>1, <3>2, <3>3, <3>4
    <2> QED BY <2>1, <2>2
  <1>4. CbRemote' /\ Registered'
    BY DEF IInv, CbRemote, Registered, Connects
  <1>5. DemuxOwn'
    <2> SUFFICES ASSUME NEW c \in Cbs, Live(c)', Sole(c)'
                 PROVE  tcpcbs'[cid'[c]] = c /\ sockets'[cid'[c]] # None
      BY DEF DemuxOwn
    <2>1. Live(c) /\ Sole(c) /\ cid'[c] = cid[c] /\ cid[c] \in Ids
      BY <1>1 DEF IInv, TypeOK, Connects, Live, Sole
    <2>2. tcpcbs[cid[c]] = c /\ sockets[cid[c]] # None /\ cid[c][2] # NoRemote
      BY <2>1 DEF IInv, DemuxOwn, CbRemote, Live
    <2> QED BY <2>1, <2>2 DEF Connects
  <1> QED BY <1>2, <1>3, <1>4, <1>5 DEF IInv

\* Preserved by tcp_connect with an ephemeral port.
LEMMA ConnectEphemeralIInv ==
  ASSUME IInv, NEW s \in Sockets, NEW r \in Remotes, NEW p \in Ephemeral, ConnectEphemeral(s, r, p)
  PROVE  IInv'
  <1>1. <<p, r>> \in Ids /\ <<p, r>>[2] # NoRemote
    BY DEF Ids
  <1>2. TypeOK'
    <2>1. /\ sockets' \in [Ids -> Sockets \cup {None}] /\ named' \in [Ids -> SUBSET Sockets]
          /\ id' \in [Sockets -> Ids] /\ UNCHANGED <<tcpcbs, cid, cst>>
      BY <1>1, Zenon DEF IInv, ConnectEphemeral, RegisterSocket, cbVars, TypeOK
    <2>2. /\ free' \subseteq Ephemeral /\ port' \in [Sockets -> AllPorts]
          /\ remote' \in [Sockets -> Remotes \cup {NoRemote}] /\ pc' \in [Sockets -> Steps]
      BY Zenon DEF IInv, ConnectEphemeral, TypeOK, AllPorts, Steps
    <2> QED BY <2>1, <2>2 DEF IInv, TypeOK
  <1>3. Connects(s, <<p, r>>)
    BY <1>1 DEF IInv, TypeOK, ConnectEphemeral, RegisterSocket, Connects, cbVars
  <1> QED BY <1>1, <1>2, <1>3, ConnectsIInv

\* Preserved by tcp_connect when no ephemeral port is left.
LEMMA ConnectNoPortIInv ==
  ASSUME IInv, NEW s \in Sockets, NEW r \in Remotes, ConnectNoPort(s, r)
  PROVE  IInv'
  <1>1. TypeOK'
    BY DEF IInv, ConnectNoPort, tables, socketVars, cbVars, TypeOK, Ids, AllPorts, Statuses,
           Steps
  <1>2. Named'
    BY DEF IInv, ConnectNoPort, tables, socketVars, cbVars, TypeOK, Named, Ids, AllPorts
  <1>3. Opening'
    BY DEF IInv, ConnectNoPort, tables, socketVars, cbVars, TypeOK, Named, Opening,
           CbRemote, Used, Ids
  <1>4. CbRemote'
    BY DEF IInv, ConnectNoPort, tables, socketVars, cbVars, TypeOK, CbRemote, Opening
  <1>5. Registered'
    BY DEF IInv, ConnectNoPort, tables, socketVars, cbVars, TypeOK, Registered
  <1>6. DemuxOwn'
    BY DEF IInv, ConnectNoPort, tables, socketVars, cbVars, TypeOK, DemuxOwn, Live, Sole,
           Named, Opening, CbRemote, Used, Registered, Ids
  <1> QED BY <1>1, <1>2, <1>3, <1>4, <1>5, <1>6 DEF IInv

\* Preserved by tcp_connect of a socket that has a port.
LEMMA ConnectBoundIInv ==
  ASSUME IInv, NEW s \in Sockets, NEW r \in Remotes, ConnectBound(s, r)
  PROVE  IInv'
  <1>1. TypeOK'
    BY Zenon DEF IInv, ConnectBound, RegisterSocket, cbVars, TypeOK, Ids, AllPorts, Steps
  <1>2. <<port[s], r>> \in Ids /\ <<port[s], r>>[2] # NoRemote /\ <<port[s], NoRemote>> \in Ids
    BY DEF IInv, TypeOK, Ids, AllPorts
  <1>3. Connects(s, <<port[s], r>>)
    BY <1>2 DEF IInv, TypeOK, ConnectBound, RegisterSocket, Connects, cbVars
  <1> QED BY <1>1, <1>2, <1>3, ConnectsIInv

\* Preserved by tcp_connect, register_tcpcb.
LEMMA RegisterTcpcbIInv ==
  ASSUME IInv, NEW s \in Sockets, NEW c \in Cbs, RegisterTcpcb(s, c)
  PROVE  IInv'
  <1>1. TypeOK'
    BY DEF IInv, RegisterTcpcb, tables, socketVars, cbVars, TypeOK, Ids, AllPorts, Statuses,
           Steps
  <1>2. Named'
    BY DEF IInv, RegisterTcpcb, tables, socketVars, cbVars, TypeOK, Named, Ids, AllPorts
  <1>3. Opening'
    BY DEF IInv, RegisterTcpcb, tables, socketVars, cbVars, TypeOK, Named, Opening,
           CbRemote, Used, Ids
  <1>4. CbRemote'
    BY DEF IInv, RegisterTcpcb, tables, socketVars, cbVars, TypeOK, CbRemote, Opening
  <1>5. Registered'
    BY DEF IInv, RegisterTcpcb, tables, socketVars, cbVars, TypeOK, Registered
  <1>6. DemuxOwn'
    <2> SUFFICES ASSUME NEW d \in Cbs, Live(d)', Sole(d)'
                 PROVE  tcpcbs'[cid'[d]] = d /\ sockets'[cid'[d]] # None
      BY DEF DemuxOwn
    <2>0. /\ pc[s] = "connect" /\ cst[c] = "new" /\ id[s] \in Ids /\ sockets' = sockets
          /\ cid'[c] = id[s] /\ cst'[c] = "open" /\ tcpcbs'[id[s]] = c /\ named' = named
          /\ \A e \in Cbs : e # c => cid'[e] = cid[e] /\ cst'[e] = cst[e] /\ cid[e] \in Ids
          /\ \A i \in Ids : i # id[s] => tcpcbs'[i] = tcpcbs[i]
      BY DEF IInv, TypeOK, RegisterTcpcb
    <2>1. CASE d = c
      <3>1. ~ Used(id[s])
        BY <2>0, <2>1 DEF Used, Sole
      <3>2. s \in named[id[s]] /\ \A t \in named[id[s]] : t = s
        BY <2>0, <2>1 DEF IInv, Named, Opening, Sole
      <3> QED BY <2>0, <2>1, <3>1, <3>2 DEF IInv, Opening
    <2>2. CASE d # c
      <3>1. cid[d] # id[s]
        BY <2>0, <2>2 DEF Sole
      <3>2. Live(d) /\ Sole(d)
        BY <2>0, <2>2 DEF Live, Sole
      <3> QED BY <2>0, <2>2, <3>1, <3>2 DEF IInv, DemuxOwn
    <2> QED BY <2>1, <2>2
  <1> QED BY <1>1, <1>2, <1>3, <1>4, <1>5, <1>6 DEF IInv

\* Preserved by tcp_close.
LEMMA CloseIInv ==
  ASSUME IInv, NEW s \in Sockets, Close(s)
  PROVE  IInv'
  <1>1. TypeOK'
    BY DEF IInv, Close, tables, socketVars, cbVars, TypeOK, Ids, AllPorts, Statuses, Steps
  <1>2. Named'
    BY DEF IInv, Close, tables, socketVars, cbVars, TypeOK, Named, Ids, AllPorts
  <1>3. Opening'
    BY DEF IInv, Close, tables, socketVars, cbVars, TypeOK, Named, Opening, CbRemote, Used,
           Ids
  <1>4. CbRemote'
    BY DEF IInv, Close, tables, socketVars, cbVars, TypeOK, CbRemote, Opening
  <1>5. Registered'
    BY DEF IInv, Close, tables, socketVars, cbVars, TypeOK, Registered
  <1>6. DemuxOwn'
    BY DEF IInv, Close, tables, socketVars, cbVars, TypeOK, DemuxOwn, Live, Sole, Named,
           Opening, CbRemote, Used, Registered, Ids
  <1> QED BY <1>1, <1>2, <1>3, <1>4, <1>5, <1>6 DEF IInv

\* Preserved by the start of TIME_WAIT.
LEMMA TimeWaitIInv ==
  ASSUME IInv, NEW c \in Cbs, TimeWait(c)
  PROVE  IInv'
  <1>1. TypeOK'
    BY DEF IInv, TimeWait, tables, socketVars, cbVars, TypeOK, Ids, AllPorts, Statuses,
           Steps
  <1>2. Named'
    BY DEF IInv, TimeWait, tables, socketVars, cbVars, TypeOK, Named, Ids, AllPorts
  <1>3. Opening'
    BY DEF IInv, TimeWait, tables, socketVars, cbVars, TypeOK, Named, Opening, CbRemote,
           Used, Ids
  <1>4. CbRemote'
    BY DEF IInv, TimeWait, tables, socketVars, cbVars, TypeOK, CbRemote, Opening
  <1>5. Registered'
    BY DEF IInv, TimeWait, tables, socketVars, cbVars, TypeOK, Registered
  <1>6. DemuxOwn'
    BY DEF IInv, TimeWait, tables, socketVars, cbVars, TypeOK, DemuxOwn, Live, Sole, Named,
           Opening, CbRemote, Used, Registered, Ids
  <1> QED BY <1>1, <1>2, <1>3, <1>4, <1>5, <1>6 DEF IInv

\* Preserved by remove_tcpcb, remove_socket.
LEMMA RemoveSocketIInv ==
  ASSUME IInv, NEW c \in Cbs, RemoveSocket(c)
  PROVE  IInv'
  <1>1. TypeOK'
    BY DEF IInv, RemoveSocket, tables, socketVars, cbVars, TypeOK, Ids, AllPorts, Statuses,
           Steps
  <1>2. Named'
    BY DEF IInv, RemoveSocket, tables, socketVars, cbVars, TypeOK, Named, Ids, AllPorts
  <1>3. Opening'
    BY DEF IInv, RemoveSocket, tables, socketVars, cbVars, TypeOK, Named, Opening, CbRemote,
           Used, Ids
  <1>4. CbRemote'
    BY DEF IInv, RemoveSocket, tables, socketVars, cbVars, TypeOK, CbRemote, Opening
  <1>5. Registered'
    BY DEF IInv, RemoveSocket, tables, socketVars, cbVars, TypeOK, Registered
  <1>6. DemuxOwn'
    BY DEF IInv, RemoveSocket, tables, socketVars, cbVars, TypeOK, DemuxOwn, Live, Sole,
           Named, Opening, CbRemote, Used, Registered, Ids
  <1> QED BY <1>1, <1>2, <1>3, <1>4, <1>5, <1>6 DEF IInv

\* Preserved by remove_tcpcb, the control block.
LEMMA RemoveTcpcbIInv ==
  ASSUME IInv, NEW c \in Cbs, RemoveTcpcb(c)
  PROVE  IInv'
  <1>1. TypeOK'
    BY DEF IInv, RemoveTcpcb, tables, socketVars, cbVars, TypeOK, Ids, AllPorts, Statuses,
           Steps
  <1>2. Named'
    BY DEF IInv, RemoveTcpcb, tables, socketVars, cbVars, TypeOK, Named, Ids, AllPorts
  <1>3. Opening'
    BY DEF IInv, RemoveTcpcb, tables, socketVars, cbVars, TypeOK, Named, Opening, CbRemote,
           Used, Ids
  <1>4. CbRemote'
    BY DEF IInv, RemoveTcpcb, tables, socketVars, cbVars, TypeOK, CbRemote, Opening
  <1>5. Registered'
    BY DEF IInv, RemoveTcpcb, tables, socketVars, cbVars, TypeOK, Registered
  <1>6. DemuxOwn'
    BY DEF IInv, RemoveTcpcb, tables, socketVars, cbVars, TypeOK, DemuxOwn, Live, Sole,
           Named, Opening, CbRemote, Used, Registered, Ids
  <1> QED BY <1>1, <1>2, <1>3, <1>4, <1>5, <1>6 DEF IInv

\* The invariant is inductive: every step preserves it.
LEMMA NextIInv == IInv /\ [Next]_vars => IInv'
  <1> SUFFICES ASSUME IInv, [Next]_vars PROVE IInv'
    OBVIOUS
  <1>1. ASSUME NEW s \in Sockets, SocketNext(s) PROVE IInv'
    BY <1>1, BindIInv, BindSocketIInv, BindBoundIInv, ConnectEphemeralIInv, ConnectNoPortIInv,
       ConnectBoundIInv, RegisterTcpcbIInv, CloseIInv DEF SocketNext
  <1>2. ASSUME NEW c \in Cbs, CbNext(c) PROVE IInv'
    BY <1>2, TimeWaitIInv, RemoveSocketIInv, RemoveTcpcbIInv DEF CbNext
  <1>3. CASE UNCHANGED <<tables, socketVars, cbVars>>
    BY <1>3 DEF tables, socketVars, cbVars, IInv, TypeOK, Named, Opening, CbRemote, Registered,
       DemuxOwn, Used, Live, Sole
  <1>4. CASE (\E i \in Ids : RxFind(i)) \/ RxGet \/ RxSchedule \/ UNCHANGED vars
    BY <1>3, <1>4 DEF RxFind, RxGet, RxSchedule, vars
  <1> QED BY <1>1, <1>2, <1>4 DEF Next

LEMMA Inductive == Spec => []IInv
  BY InitIInv, NextIInv, PTL DEF Spec

\* A live connection whose address no other connection or socket was given is resolved to
\* itself, for any number of sockets and whatever their threads, the event loop and the
\* timer do.
THEOREM SegmentsReachTheirConnection == Spec => []DemuxOwn
  BY Inductive, PTL DEF IInv

\* A removed control block is never found again, and an entry is found under its own address.
THEOREM RemovedStaysRemoved == Spec => []NoGhost
  <1>1. IInv => NoGhost
    BY DEF IInv, Registered, NoGhost
  <1> QED BY Inductive, <1>1, PTL

-----------------------------------------------------------------------------
(* The wake-ups of connect() and send() *)

\* The steps of a handler, but for those of a reset
PlainSteps ==
    {Notify(t) : t \in {"conn", "rd", "wr"}}
      \cup {Step("state", s) : s \in {"CLOSE_WAIT", "TIME_WAIT"}}
      \cup {Step("enqueue", n) : n \in Nat}

LoopSteps == PlainSteps \cup {Step("state", "CLOSED"), Step("state", "RESET")}

\* A reset sets so.error first: without an error none is in progress and none has happened.
ErrorFirst ==
    /\ loop \in Seq(LoopSteps)
    /\ so_error = "none" => loop \in Seq(PlainSteps) /\ state # "RESET"

\* connect() holds its lock from scheduling CONNECT to waiting, nobody calls recv() or
\* send() before it returns, and until it is woken either nothing is decided or the event
\* loop is about to wake it.
ConnectInv ==
    /\ lock = (conn = "scheduled")
    /\ conn # "done" => rd = "out" /\ wr = "out"
    /\ conn = "start" => state = "CLOSED" /\ ~ event /\ loop = <<>> /\ so_error = "none"
    /\ (conn \in {"scheduled", "wait"} /\ "conn" \notin woken) =>
           \/ loop = <<>> /\ state \in {"CLOSED", "SYN_SENT", "SYN_RECV"} /\ so_error = "none"
           \/ loop # <<>> /\ Head(loop) = Notify("conn")

\* Every handler queues steps of the event loop.
LEMMA HandlerSteps ==
  ASSUME NEW n \in Nat
  PROVE  /\ <<Notify("conn")>> \in Seq(PlainSteps) /\ <<Notify("rd")>> \in Seq(PlainSteps)
         /\ <<Notify("wr")>> \in Seq(PlainSteps) /\ <<>> \in Seq(PlainSteps)
         /\ <<Step("enqueue", n), Notify("rd")>> \in Seq(PlainSteps)
         /\ <<Step("state", "CLOSE_WAIT"), Notify("rd")>> \in Seq(PlainSteps)
         /\ <<Step("state", "TIME_WAIT")>> \in Seq(PlainSteps)
         /\ <<Step("state", "CLOSED"), Step("state", "RESET"), Notify("rd"), Notify("wr")>>
                \in Seq(LoopSteps)
         /\ Seq(PlainSteps) \subseteq Seq(LoopSteps)
  <1>1. /\ Notify("conn") \in PlainSteps /\ Notify("rd") \in PlainSteps
        /\ Notify("wr") \in PlainSteps /\ Step("enqueue", n) \in PlainSteps
        /\ Step("state", "CLOSE_WAIT") \in PlainSteps /\ Step("state", "TIME_WAIT") \in PlainSteps
    BY Zenon DEF PlainSteps
  <1>2. PlainSteps \subseteq LoopSteps
    BY DEF LoopSteps
  <1>3. Step("state", "CLOSED") \in LoopSteps /\ Step("state", "RESET") \in LoopSteps
    BY Zenon DEF LoopSteps
  <1> QED BY <1>1, <1>2, <1>3

\* What a segment or the event loop makes of so.error and of the steps to come
LEMMA ErrorFirstPeer ==
  ASSUME ErrorFirst, Peer
  PROVE  ErrorFirst'
  <1>1. CASE RxRefused
    BY <1>1, UsrReqAssumption, HandlerSteps, Zenon DEF RxRefused, ErrorFirst, tcpVars
  <1>2. CASE RxSyn
    BY <1>2 DEF RxSyn, ErrorFirst
  <1>3. CASE RxAck
    <2>1. loop' \in Seq(PlainSteps) /\ loop' \in Seq(LoopSteps)
      BY <1>3, HandlerSteps DEF RxAck
    <2> QED BY <1>3, <2>1, Zenon DEF RxAck, ErrorFirst, tcpVars
  <1>4. CASE RxRst
    BY <1>4, HandlerSteps DEF RxRst, ErrorFirst
  <1>5. ASSUME NEW n \in 0 .. MaxIn, RxEstab(n) PROVE ErrorFirst'
    <2>1. loop' = <<Notify("conn")>> \o (IF n > 0 THEN <<Notify("rd")>> ELSE <<>>)
      BY <1>5, Zenon DEF RxEstab
    <2>2. loop' \in Seq(PlainSteps)
      BY <2>1, HandlerSteps, ConcatProperties
    <2> QED BY <1>5, <2>2, HandlerSteps, Zenon DEF RxEstab, ErrorFirst
  <1>6. ASSUME NEW n \in 0 .. MaxIn, NEW fin \in BOOLEAN, RxData(n, fin) PROVE ErrorFirst'
    <2>1. PICK append : append = IF n > 0 THEN <<Step("enqueue", n), Notify("rd")>> ELSE <<>>
      BY Zenon
    <2>2. n \in Nat /\ append \in Seq(PlainSteps)
      BY <2>1, UsrReqAssumption, HandlerSteps
    <2>3. \/ loop' = append
          \/ loop' = append \o <<Step("state", "CLOSE_WAIT"), Notify("rd")>>
          \/ loop' = <<Step("state", "TIME_WAIT")>> \o append
      BY <1>6, <2>1 DEF RxData
    <2>4. loop' \in Seq(PlainSteps)
      <3>1. PICK a \in Seq(PlainSteps) : a = <<Step("state", "CLOSE_WAIT"), Notify("rd")>>
        BY <2>2, HandlerSteps, Zenon
      <3>2. PICK b \in Seq(PlainSteps) : b = <<Step("state", "TIME_WAIT")>>
        BY <2>2, HandlerSteps, Zenon
      <3>3. append \o a \in Seq(PlainSteps) /\ b \o append \in Seq(PlainSteps)
        BY <2>2, ConcatProperties, Zenon
      <3> QED BY <2>2, <2>3, <3>1, <3>2, <3>3, Zenon
    <2> QED BY <1>6, <2>2, <2>4, HandlerSteps, Zenon DEF RxData, ErrorFirst, tcpVars
  <1> QED BY <1>1, <1>2, <1>3, <1>4, <1>5, <1>6 DEF Peer

\* The order of a reset is kept by every step.
LEMMA ErrorFirstStep ==
  ASSUME ErrorFirst, [UsrNext]_usrVars
  PROVE  ErrorFirst'
  <1> USE DEF tcpVars
  <1>1. CASE \/ Connecting \/ RecvCall \/ RecvState \/ RecvIsEmpty \/ RecvWait \/ RecvWake
             \/ RecvDequeue \/ RecvTimeout \/ SendCall \/ SendEnqueue \/ SendWait \/ SendWake
             \/ LoopSend \/ UNCHANGED usrVars
    <2>1. UNCHANGED <<state, loop>> /\ (so_error' = so_error \/ so_error' = "ETIMEDOUT")
      BY <1>1, Zenon DEF Connecting, ConnectSchedule, ConnectWait, ConnectReturn, RecvCall,
         RecvState, RecvIsEmpty, RecvWait, RecvWake, RecvDequeue, RecvTimeout, SendCall,
         SendEnqueue, SendWait, SendWake, LoopSend, CallsUnchanged, usrVars
    <2> QED BY <2>1 DEF ErrorFirst
  <1>2. CASE RecvLookup \/ SendLookup
    <2>1. UNCHANGED <<state, loop>>
      BY <1>2, Zenon DEF RecvLookup, SendLookup
    <2>2. so_error' = "none" => so_error = "none"
      BY <1>2 DEF RecvLookup, SendLookup
    <2> QED BY <2>1, <2>2 DEF ErrorFirst
  <1>3. CASE LoopNotify \/ LoopState \/ LoopEnqueue
    <2>1. loop # <<>> /\ loop' = Tail(loop) /\ so_error' = so_error
      BY <1>3, Zenon DEF LoopNotify, LoopState, LoopEnqueue
    <2>2. /\ loop' \in Seq(LoopSteps)
          /\ loop \in Seq(PlainSteps) => loop' \in Seq(PlainSteps) /\ Head(loop) \in PlainSteps
      BY <2>1, HeadTailProperties DEF ErrorFirst
    <2>3. state' = state \/ (Head(loop).do = "state" /\ state' = Head(loop).arg)
      BY <1>3, Zenon DEF LoopNotify, LoopState, LoopEnqueue
    <2>4. Head(loop) \in PlainSteps /\ Head(loop).do = "state" => Head(loop).arg # "RESET"
      BY DEF PlainSteps, Notify, Step
    <2> QED BY <2>1, <2>2, <2>3, <2>4 DEF ErrorFirst
  <1>4. CASE LoopConnect \/ LoopShutdown
    BY <1>4 DEF LoopConnect, LoopShutdown, ErrorFirst
  <1> QED BY <1>1, <1>2, <1>3, <1>4, ErrorFirstPeer, Zenon DEF UsrNext, Receiving, Sending, Loop

\* A step that does not concern connect()
LEMMA ConnectQuiet ==
  ASSUME ConnectInv, conn = "done", conn' = "done", lock' = lock
  PROVE  ConnectInv'
  BY DEF ConnectInv

\* The calls of the application keep the connecting thread's invariant.
LEMMA ConnectInvCalls ==
  ASSUME ConnectInv, Connecting \/ Receiving \/ Sending \/ RecvCall \/ RecvTimeout \/ SendCall
  PROVE  ConnectInv'
  <1> USE DEF tcpVars
  <1>1. CASE ConnectSchedule
    BY <1>1, Zenon DEF ConnectSchedule, ConnectInv
  <1>2. CASE ConnectWait
    BY <1>2, Zenon DEF ConnectWait, ConnectInv
  <1>3. CASE ConnectReturn
    BY <1>3 DEF ConnectReturn, ConnectInv, Raise
  <1>4. CASE Receiving \/ Sending \/ RecvCall \/ RecvTimeout \/ SendCall
    <2>1. conn = "done"
      <3>1. conn = "done" \/ rd # "out" \/ wr # "out"
        BY <1>4, Zenon DEF Receiving, Sending, RecvCall, RecvTimeout, SendCall, RecvLookup, RecvState,
           RecvIsEmpty, RecvWait, RecvWake, RecvDequeue, SendLookup, SendEnqueue, SendWait, SendWake
      <3> QED BY <3>1 DEF ConnectInv
    <2>2. conn' = conn /\ lock' = lock
      BY <1>4, Zenon DEF Receiving, Sending, RecvCall, RecvTimeout, SendCall, RecvLookup, RecvState,
         RecvIsEmpty, RecvWait, RecvWake, RecvDequeue, SendLookup, SendEnqueue, SendWait, SendWake
    <2> QED BY <2>1, <2>2, ConnectQuiet
  <1> QED BY <1>1, <1>2, <1>3, <1>4, Zenon DEF Connecting

\* So do the steps of the event loop: the wake-up waits for the lock.
LEMMA ConnectInvLoop ==
  ASSUME ConnectInv, Loop \/ LoopShutdown
  PROVE  ConnectInv'
  <1> USE DEF tcpVars, CallsUnchanged
  <1>1. CASE LoopNotify
    <2>1. CASE conn \in {"scheduled", "wait"} /\ "conn" \notin woken
      <3>1. Head(loop) = Notify("conn") /\ loop # <<>>
        BY <1>1, <2>1, Zenon DEF ConnectInv, LoopNotify
      <3>2. ~ lock /\ woken' = IF Waits("conn") THEN woken \cup {"conn"} ELSE woken
        <4>1. Head(loop).arg = "conn"
          BY <3>1 DEF Notify, Step
        <4> QED BY <1>1, <4>1, Zenon DEF LoopNotify
      <3>3. conn = "wait"
        BY <2>1, <3>2, Zenon DEF ConnectInv
      <3>4. "conn" \in woken'
        BY <3>2, <3>3 DEF Waits
      <3> QED BY <1>1, <2>1, <3>4, Zenon DEF LoopNotify, ConnectInv
    <2>2. CASE "conn" \in woken
      <3>1. "conn" \in woken' /\ UNCHANGED <<lock, conn, rd, wr>> /\ loop # <<>>
        BY <1>1, <2>2, Zenon DEF LoopNotify
      <3> QED BY <3>1, Zenon DEF ConnectInv
    <2>3. CASE conn \notin {"scheduled", "wait"}
      <3>1. UNCHANGED <<lock, conn, rd, wr>> /\ loop # <<>>
        BY <1>1, Zenon DEF LoopNotify
      <3> QED BY <2>3, <3>1, Zenon DEF ConnectInv
    <2> QED BY <2>1, <2>2, <2>3
  <1>2. CASE LoopState \/ LoopEnqueue
    <2>1. /\ loop # <<>> /\ Head(loop).do # "notify" /\ UNCHANGED <<lock, woken, conn, rd, wr>>
      BY <1>2 DEF LoopState, LoopEnqueue
    <2>2. Head(loop) # Notify("conn")
      BY <2>1 DEF Notify, Step
    <2> QED BY <2>1, <2>2, Zenon DEF ConnectInv
  <1>3. CASE LoopConnect \/ LoopSend \/ LoopShutdown
    <2>1. /\ loop = <<>> /\ loop' = <<>> /\ UNCHANGED <<lock, woken, conn, rd, wr, so_error>>
          /\ (LoopConnect /\ event) \/ state \in {"ESTAB", "CLOSE_WAIT"}
      BY <1>3, Zenon DEF LoopConnect, LoopSend, LoopShutdown, LoopIdle
    <2>2. LoopConnect => state' = "SYN_SENT"
      BY DEF LoopConnect
    <2> QED BY <2>1, <2>2 DEF ConnectInv
  <1> QED BY <1>1, <1>2, <1>3, Zenon DEF Loop

\* And the segments: what decides the connection queues the wake-up.
LEMMA ConnectInvPeer ==
  ASSUME ConnectInv, Peer
  PROVE  ConnectInv'
  <1> USE DEF tcpVars, CallsUnchanged
  <1>1. CASE RxRefused
    BY <1>1 DEF RxRefused, ConnectInv
  <1>2. CASE RxSyn
    BY <1>2 DEF RxSyn, ConnectInv
  <1>3. ASSUME NEW n \in 0 .. MaxIn, RxEstab(n) PROVE ConnectInv'
    <2>1. /\ loop' = <<Notify("conn")>> \o (IF n > 0 THEN <<Notify("rd")>> ELSE <<>>)
          /\ state \in {"SYN_SENT", "SYN_RECV"}
          /\ UNCHANGED <<lock, woken, conn, rd, wr>>
      BY <1>3, Zenon DEF RxEstab
    <2>2. loop' # <<>> /\ Head(loop') = Notify("conn")
      BY <2>1
    <2> QED BY <2>1, <2>2 DEF ConnectInv
  <1>4. CASE RxAck \/ RxRst \/ \E n \in 0 .. MaxIn, fin \in BOOLEAN : RxData(n, fin)
    <2>1. /\ loop = <<>> /\ state \in {"ESTAB", "CLOSE_WAIT", "FIN_WAIT_2"}
          /\ UNCHANGED <<lock, woken, conn, rd, wr>>
      BY <1>4, ZenonT(30) DEF RxAck, RxRst, RxData, LoopIdle
    <2>2. conn # "start" /\ (conn \in {"scheduled", "wait"} => "conn" \in woken)
      BY <2>1 DEF ConnectInv
    <2> QED BY <2>1, <2>2, Zenon DEF ConnectInv
  <1> QED BY <1>1, <1>2, <1>3, <1>4, ZenonT(30) DEF Peer

\* The wake-up of connect() is never lost: when the peer has accepted or refused while the
\* call is on its way to wait or waits, it has been woken or the event loop is about to wake
\* it (the safety part of ConnectReturns).
THEOREM ConnectHearsVerdict ==
  UsrSpec => []((conn \in {"scheduled", "wait"} /\ (state = "ESTAB" \/ so_error = "ECONNREFUSED"))
                   => "conn" \in woken \/ Pending("conn"))
  <1>1. UsrInit => ConnectInv /\ ErrorFirst
    BY UsrReqAssumption, HandlerSteps, Zenon DEF UsrInit, ConnectInv, ErrorFirst
  <1>2. ConnectInv /\ [UsrNext]_usrVars => ConnectInv'
    <2>1. ConnectInv /\ UNCHANGED usrVars => ConnectInv'
      BY DEF usrVars, tcpVars, ConnectInv
    <2> QED BY <2>1, ConnectInvCalls, ConnectInvLoop, ConnectInvPeer DEF UsrNext
  <1>3. ErrorFirst /\ [UsrNext]_usrVars => ErrorFirst'
    BY ErrorFirstStep
  <1>4. ConnectInv /\ ErrorFirst =>
           ((conn \in {"scheduled", "wait"} /\ (state = "ESTAB" \/ so_error = "ECONNREFUSED"))
               => "conn" \in woken \/ Pending("conn"))
    <2> SUFFICES ASSUME ConnectInv, ErrorFirst, conn \in {"scheduled", "wait"}, "conn" \notin woken,
                        state = "ESTAB" \/ so_error = "ECONNREFUSED"
                 PROVE  Pending("conn")
      OBVIOUS
    <2>1. loop # <<>> /\ Head(loop) = Notify("conn")
      BY DEF ConnectInv
    <2>2. loop \in Seq(LoopSteps)
      BY DEF ErrorFirst
    <2>3. 1 \in DOMAIN loop /\ loop[1] = Notify("conn")
      BY <2>1, <2>2
    <2> QED BY <2>3, Zenon DEF Pending
  <1> QED BY <1>1, <1>2, <1>3, <1>4, PTL DEF UsrSpec

\* A send() that stops waiting after a reset raises, it never goes on with a connection
\* that was removed (the safety part of ResetEndsSend).
THEOREM ResetEndsWaiting ==
  UsrSpec => [][(state = "RESET" /\ wr = "wait" /\ wr' # "wait") => wr' = "raised"]_usrVars
  <1>1. UsrInit => ErrorFirst
    BY UsrReqAssumption, HandlerSteps DEF UsrInit, ErrorFirst
  <1>2. ErrorFirst /\ [UsrNext]_usrVars => ErrorFirst'
    BY ErrorFirstStep
  <1>3. ErrorFirst /\ [UsrNext]_usrVars
          => [(state = "RESET" /\ wr = "wait" /\ wr' # "wait") => wr' = "raised"]_usrVars
    <2> SUFFICES ASSUME ErrorFirst, UsrNext, state = "RESET", wr = "wait", wr' # "wait"
                 PROVE  wr' = "raised"
      OBVIOUS
    <2>1. SendWake
      <3>1. CASE Connecting \/ Receiving \/ RecvCall \/ RecvTimeout
        BY <3>1, ZenonT(30) DEF Connecting, Receiving, RecvCall, RecvTimeout, ConnectSchedule,
           ConnectWait, ConnectReturn, RecvLookup, RecvState, RecvIsEmpty, RecvWait, RecvWake,
           RecvDequeue
      <3>2. CASE Sending \/ SendCall
        BY <3>2 DEF Sending, SendCall, SendLookup, SendEnqueue, SendWait
      <3>3. CASE Loop \/ LoopShutdown
        BY <3>3, Zenon DEF Loop, LoopNotify, LoopState, LoopEnqueue, LoopConnect, LoopSend,
           LoopShutdown, CallsUnchanged
      <3>4. CASE Peer
        BY <3>4, Zenon DEF Peer, RxRefused, RxSyn, RxAck, RxRst, RxEstab, RxData, CallsUnchanged
      <3> QED BY <3>1, <3>2, <3>3, <3>4 DEF UsrNext
    <2>2. so_error # "none"
      BY DEF ErrorFirst
    <2> QED BY <2>1, <2>2 DEF SendWake, Raise
  <1> QED BY <1>1, <1>2, <1>3, PTL DEF UsrSpec
=============================================================================
