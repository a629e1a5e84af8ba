----------------------------- MODULE MeshProofs -----------------------------
(***************************************************************************)
(* Theorems about MeshChat, for any number of clients and every value of   *)
(* the constants: the connections, what they let through to the server,    *)
(* and that the two sides agree on it.                                     *)
(***************************************************************************)
EXTENDS MeshChat, ServerProofs

-----------------------------------------------------------------------------
(***************************************************************************)
(* The invariant.                                                          *)
(***************************************************************************)
\* What the screens send: every name in it is one.
Sendable ==
  {msg \in Requests : /\ msg.tag \in {"REGISTER", "LOGIN"} => msg.uname \in Users
                      /\ msg.tag \in {"CREATE_GROUP", "JOIN_GROUP", "LEAVE_GROUP"} => msg.gname \in Groups}

Up(ctx) == ctx.state \in {"CONNECTED", "LOGGED_IN"}

\* The context ctx of a client and its connection cn.
Matched(ctx, cn) ==
  /\ ctx.request # Nothing => ctx.request \in Sendable /\ Up(ctx)
  /\ ctx.state = "DISCONNECTED" => cn.closed /\ ~cn.reset /\ ~cn.hungup /\ cn.s2c = << >>
  /\ cn.closed => cn.fd = NoFd /\ cn.c2s = << >>
  /\ cn.reset => cn.closed
  /\ cn.hungup => cn.c2s = << >> /\ ~Up(ctx)
  /\ Len(cn.c2s) <= 1
  /\ Up(ctx) /\ ~cn.closed =>
       \/ ctx.request = Nothing /\ cn.c2s = << >> /\ cn.s2c = << >>
       \/ ctx.request # Nothing /\ cn.c2s = <<ctx.request>> /\ cn.s2c = << >>
       \/ ctx.request # Nothing /\ cn.c2s = << >> /\ Len(cn.s2c) = 1

MatchedPart ==
  /\ client \in [Clients -> ClientContext]
  /\ conn \in [Clients -> Connection]
  /\ \A c \in Clients : Matched(client[c], conn[c])

\* The server's ends are open descriptors, one for each connection.
EndsPart ==
  /\ \A c \in Clients : conn[c].fd # NoFd => conn[c].fd \in client_fds
  /\ \A c, d \in Clients : conn[c].fd = conn[d].fd /\ conn[c].fd # NoFd => c = d

OrphansPart == orphans \subseteq [addr : Addrs, cause : {"KILLED"} \cup {m.tag : m \in Requests}]

MeshInv == IInv /\ MatchedPart /\ EndsPart /\ OrphansPart /\ running \in BOOLEAN

-----------------------------------------------------------------------------
(***************************************************************************)
(* What is sent, and what an answer makes of the context.                  *)
(***************************************************************************)
LEMMA SendableIsRequest ==
  ASSUME NEW msg \in Sendable
  PROVE  msg \in Requests /\ msg # Nothing
BY NothingAssumption DEF Sendable

LEMMA SessionGroups ==
  ASSUME NEW sessions \in Sessions
  PROVE  /\ GroupsIn(sessions) \subseteq Groups
         /\ {s.addr : s \in ToSet(sessions)} \subseteq Addrs
<1>1. ToSet(sessions) \subseteq [group_name : Groups, addr : Addrs]
  <2>1. sessions \in Seq([group_name : Groups, addr : Addrs])
    BY DEF Sessions
  <2>2. \A i \in DOMAIN sessions : sessions[i] \in [group_name : Groups, addr : Addrs]
    BY <2>1, LenProperties, ElementOfSeq
  <2> QED
    BY <2>2 DEF ToSet
<1> QED
  BY <1>1 DEF GroupsIn

LEMMA MenuIsSendable ==
  ASSUME NEW c \in Clients, client[c] \in ClientContext, NEW msg \in Menu(c)
  PROVE  msg \in Sendable
<1>1. CASE msg \in Screen1
  BY <1>1 DEF Screen1, Sendable, Requests, AuthRequests, SimpleRequests
<1>2. CASE msg \in Screen2(client[c].active_groups)
  <2>1. GroupsIn(client[c].active_groups) \subseteq Groups
    BY SessionGroups DEF ClientContext
  <2>2. CASE msg \in [tag : {"LOGOUT"}]
    BY <2>2 DEF Sendable, Requests, SimpleRequests
  <2>3. CASE msg \in [tag : {"LEAVE_GROUP"}, gname : Groups]
    BY <2>3 DEF Sendable, Requests, GroupRequests
  <2>4. CASE msg \in [tag : {"CREATE_GROUP"}, gname : Groups]
    BY <2>4 DEF Sendable, Requests, GroupRequests
  <2>5. CASE msg \in [tag : {"JOIN_GROUP"}, gname : Groups]
    BY <2>5 DEF Sendable, Requests, GroupRequests
  <2> QED
    BY <1>2, <2>1, <2>2, <2>3, <2>4, <2>5 DEF Screen2
<1> QED
  BY <1>1, <1>2 DEF Menu

\* The shift of handle_leave_group takes at most one session out.
LEMMA WithoutIsRemoval ==
  ASSUME NEW sessions \in Sessions, NEW g
  PROVE  \/ Without(sessions, g) = sessions /\ g \notin GroupsIn(sessions)
         \/ \E i \in 1 .. Len(sessions) : /\ sessions[i].group_name = g
                                          /\ Without(sessions, g) = RemoveAt(sessions, i)
<1> DEFINE I == {i \in 1 .. Len(sessions) : sessions[i].group_name = g}
<1>0. DOMAIN sessions = 1 .. Len(sessions) /\ Len(sessions) \in Nat
  BY LenProperties DEF Sessions
<1>1. CASE I = {}
  <2>1. Without(sessions, g) = sessions
    BY <1>1 DEF Without, RemoveFirstMatch
  <2>2. g \notin GroupsIn(sessions)
    BY <1>0, <1>1 DEF GroupsIn, ToSet
  <2> QED
    BY <2>1, <2>2
<1>2. CASE I # {}
  <2>1. Without(sessions, g) = RemoveAt(sessions, Min(I))
    BY <1>2 DEF Without, RemoveFirstMatch, SelectInSeq
  <2>2. I \in SUBSET Nat
    BY <1>0
  <2> HIDE DEF I
  <2>3. Min(I) \in I
    BY <1>2, <2>2, SmallestIs
  <2> QED
    BY <2>1, <2>3 DEF I
<1> QED
  BY <1>1, <1>2

LEMMA WithoutType ==
  ASSUME NEW sessions \in Sessions, NEW g
  PROVE  Without(sessions, g) \in Sessions
<1> DEFINE Session == [group_name : Groups, addr : Addrs]
<1>1. sessions \in Seq(Session)
  BY DEF Sessions
<1> HIDE DEF Session
<1>2. \A i \in 1 .. Len(sessions) : RemoveAt(sessions, i) \in Seq(Session)
  BY <1>1, RemoveAtShifts
<1>3. Without(sessions, g) \in Seq(Session)
  BY <1>1, <1>2, WithoutIsRemoval
<1> QED
  BY <1>3 DEF Session, Sessions

LEMMA AnswerType ==
  ASSUME NEW ctx \in ClientContext, ctx.request \in Sendable, Up(ctx),
         NEW ok \in BOOLEAN, NEW addr \in Addrs \cup {0}
  PROVE  /\ AfterAnswer(ctx, ok, addr) \in ClientContext
         /\ AfterAnswer(ctx, ok, addr).request = Nothing
         /\ AfterAnswer(ctx, ok, addr).state # "DISCONNECTED"
<1> DEFINE out == Outcome(ctx, ok, addr)
<1>1. out \in ClientContext /\ out.state # "DISCONNECTED"
  <2>1. CASE ctx.request.tag = "LOGIN" /\ ok
    <3>1. out = [ctx EXCEPT !.state = "LOGGED_IN", !.username = ctx.request.uname]
      BY <2>1 DEF Outcome
    <3>2. ctx.request.uname \in Users
      BY <2>1 DEF Sendable
    <3> QED
      BY <3>1, <3>2 DEF ClientContext
  <2>2. CASE ctx.request.tag \in {"CREATE_GROUP", "JOIN_GROUP"} /\ addr # 0
    <3> DEFINE new == [group_name |-> ctx.request.gname, addr |-> addr]
    <3>1. out = [ctx EXCEPT !.active_groups = Append(@, new)]
      BY <2>2 DEF Outcome
    <3>2. new \in [group_name : Groups, addr : Addrs]
      BY <2>2 DEF Sendable
    <3>3. Append(ctx.active_groups, new) \in Sessions
      BY <3>2, AppendProperties DEF ClientContext, Sessions
    <3> HIDE DEF new
    <3> QED
      BY <3>1, <3>3 DEF ClientContext, Up
  <2>3. CASE ctx.request.tag = "LEAVE_GROUP" /\ ok
    <3>1. out = [ctx EXCEPT !.active_groups = Without(@, ctx.request.gname)]
      BY <2>3 DEF Outcome
    <3>2. Without(ctx.active_groups, ctx.request.gname) \in Sessions
      BY WithoutType DEF ClientContext
    <3> QED
      BY <3>1, <3>2 DEF ClientContext, Up
  <2>4. CASE ctx.request.tag \in {"LOGOUT", "EXIT"}
    <3>1. \E state \in {"CONNECTED", "GONE"} :
            out = [ctx EXCEPT !.state = state, !.username = Nothing, !.active_groups = << >>]
      BY <2>4 DEF Outcome
    <3>2. << >> \in Sessions
      BY DEF Sessions
    <3> QED
      BY <3>1, <3>2 DEF ClientContext
  <2>5. CASE /\ ~(ctx.request.tag = "LOGIN" /\ ok)
             /\ ~(ctx.request.tag \in {"CREATE_GROUP", "JOIN_GROUP"} /\ addr # 0)
             /\ ~(ctx.request.tag = "LEAVE_GROUP" /\ ok)
             /\ ctx.request.tag \notin {"LOGOUT", "EXIT"}
    <3>1. out = ctx
      BY <2>5 DEF Outcome
    <3> QED
      BY <3>1 DEF Up
  <2> QED
    BY <2>1, <2>2, <2>3, <2>4, <2>5
<1> HIDE DEF out
<1>2. AfterAnswer(ctx, ok, addr) = [out EXCEPT !.request = Nothing]
  BY DEF AfterAnswer, out
<1> QED
  BY <1>1, <1>2 DEF ClientContext

-----------------------------------------------------------------------------
(***************************************************************************)
(* Every step is one of the server, or none for it.                        *)
(***************************************************************************)
LEMMA DispatchEnds ==
  ASSUME NEW fd, NEW msg, dispatch_message(fd, msg)
  PROVE  client_fds' = IF msg.tag = "EXIT" THEN client_fds \ {fd} ELSE client_fds
BY DEF dispatch_message, handle_register, handle_login, handle_logout, handle_exit,
       handle_create_group, handle_join_group, handle_leave_group

LEMMA ReadsRequest ==
  ASSUME MeshInv, NEW c \in Clients, conn[c].c2s # << >>
  PROVE  /\ Head(conn[c].c2s) \in Requests
         /\ Tail(conn[c].c2s) = << >>
         /\ conn[c].c2s \in Seq(Requests) /\ Len(conn[c].c2s) = 1
         /\ ~conn[c].closed
<1>1. conn[c] \in Connection /\ Matched(client[c], conn[c])
  BY DEF MeshInv, MatchedPart
<1> DEFINE q == conn[c].c2s
<1>2. q \in Seq(Requests) /\ q # << >> /\ Len(q) <= 1
  BY <1>1 DEF Connection, Matched
<1>3. ~conn[c].closed
  BY <1>1 DEF Matched
<1> HIDE DEF q
<1>4. Head(q) \in Requests /\ Tail(q) \in Seq(Requests) /\ Len(q) \in Nat /\ Len(q) # 0 /\ Len(Tail(q)) = Len(q) - 1
  BY <1>2, HeadTailProperties, EmptySeq, LenProperties
<1>5. Len(q) = 1 /\ Tail(q) = << >>
  BY <1>2, <1>4, EmptySeq
<1> QED
  BY <1>2, <1>3, <1>4, <1>5 DEF q

LEMMA MeshStepIsServerStep ==
  ASSUME MeshInv, [MeshNext]_meshvars
  PROVE  [Next]_vars
<1>1. ASSUME NEW c \in Clients,
             net_connect(c) \/ Request(c) \/ net_recv(c) \/ net_recv_fails(c) \/ Killed(c)
      PROVE  UNCHANGED vars
  BY <1>1 DEF net_connect, Request, net_send, net_recv, net_recv_fails, Killed
<1>2. ASSUME NEW c \in Clients, accept(c)
      PROVE  Connect
  BY <1>2 DEF accept, Connect
<1>3. ASSUME NEW c \in Clients, read_and_dispatch(c)
      PROVE  Serve
  <2>1. conn[c].fd \in client_fds
    BY <1>3 DEF read_and_dispatch, MeshInv, EndsPart
  <2>2. Head(conn[c].c2s) \in Requests
    BY <1>3, ReadsRequest DEF read_and_dispatch
  <2> QED
    BY <1>3, <2>1, <2>2 DEF read_and_dispatch, Serve
<1>4. ASSUME NEW c \in Clients, read_eof(c)
      PROVE  Disconnect
  BY <1>4 DEF read_eof, hangup, Disconnect, MeshInv, EndsPart
<1>5. CASE shutdown
  BY <1>5 DEF shutdown
<1>6. CASE UNCHANGED meshvars
  BY <1>6 DEF meshvars
<1> QED
  BY <1>1, <1>2, <1>3, <1>4, <1>5, <1>6 DEF MeshNext, Next

-----------------------------------------------------------------------------
(***************************************************************************)
(* One client's step, and what it leaves alone.                            *)
(***************************************************************************)
LEMMA OneMatched ==
  ASSUME MatchedPart, NEW c \in Clients, NEW ctx \in ClientContext, NEW cn \in Connection,
         client' = [client EXCEPT ![c] = ctx], conn' = [conn EXCEPT ![c] = cn], Matched(ctx, cn)
  PROVE  MatchedPart'
<1>1. client' \in [Clients -> ClientContext] /\ conn' \in [Clients -> Connection]
  BY DEF MatchedPart
<1>2. \A d \in Clients : client'[d] = (IF d = c THEN ctx ELSE client[d])
                         /\ conn'[d] = (IF d = c THEN cn ELSE conn[d])
  BY DEF MatchedPart
<1>3. \A d \in Clients : Matched(client'[d], conn'[d])
  BY <1>2 DEF MatchedPart
<1> QED
  BY <1>1, <1>3 DEF MatchedPart

\* A connection keeps its end, loses it, or gets a free descriptor.
LEMMA OneEnd ==
  ASSUME MatchedPart, EndsPart, NEW c \in Clients, NEW cn, conn' = [conn EXCEPT ![c] = cn],
         \/ cn.fd = conn[c].fd
         \/ cn.fd = NoFd
         \/ cn.fd \notin client_fds,
         cn.fd # NoFd => cn.fd \in client_fds',
         client_fds \ {conn[c].fd} \subseteq client_fds'
  PROVE  EndsPart'
<1>1. \A d \in Clients : conn'[d] = IF d = c THEN cn ELSE conn[d]
  BY DEF MatchedPart
<1>2. \A d \in Clients : conn'[d].fd # NoFd => conn'[d].fd \in client_fds'
  BY <1>1 DEF EndsPart
<1>3. ASSUME NEW d \in Clients, NEW e \in Clients,
             conn'[d].fd = conn'[e].fd, conn'[d].fd # NoFd
      PROVE  d = e
  BY <1>1, <1>3 DEF EndsPart
<1> QED
  BY <1>2, <1>3 DEF EndsPart

\* What a client does on its own is nothing to the server.
LEMMA ClientStep ==
  ASSUME MeshInv, NEW c \in Clients, UNCHANGED <<vars, running>>,
         NEW ctx \in ClientContext, NEW cn \in Connection, cn.fd = conn[c].fd,
         client' = [client EXCEPT ![c] = ctx], conn' = [conn EXCEPT ![c] = cn], Matched(ctx, cn),
         OrphansPart'
  PROVE  MeshInv'
<1>1. MatchedPart'
  BY OneMatched DEF MeshInv
<1>2. client_fds' = client_fds
  BY DEF vars
<1>3. EndsPart'
  BY <1>2, OneEnd DEF MeshInv, EndsPart
<1>4. IInv'
  BY NextIInv DEF MeshInv
<1> QED
  BY <1>1, <1>3, <1>4 DEF MeshInv

LEMMA OrphansKept ==
  ASSUME MeshInv, UNCHANGED orphans
  PROVE  OrphansPart'
BY DEF MeshInv, OrphansPart, Addrs

LEMMA GoneKeeps ==
  ASSUME MeshInv, NEW c \in Clients, Alive(c), NEW cause \in {"KILLED"} \cup {m.tag : m \in Requests},
         Gone(c, cause), UNCHANGED <<vars, running>>
  PROVE  MeshInv'
<1> DEFINE ctx == [state |-> "GONE", username |-> Nothing, active_groups |-> << >>, request |-> Nothing]
           cn == [conn[c] EXCEPT !.hungup = @ \/ conn[c].s2c # << >>]
<1>1. client' = [client EXCEPT ![c] = ctx] /\ conn' = [conn EXCEPT ![c] = cn]
  BY DEF Gone
<1>2. conn[c] \in Connection /\ client[c] \in ClientContext /\ Matched(client[c], conn[c])
  BY DEF MeshInv, MatchedPart
<1>3. ctx \in ClientContext
  BY DEF ClientContext, Sessions
<1>4. cn \in Connection /\ cn.fd = conn[c].fd
  BY <1>2 DEF Connection
<1>5. conn[c].s2c # << >> => conn[c].c2s = << >>
  <2>2. Up(client[c])
    BY DEF Alive, Up
  <2>3. CASE ~conn[c].closed
    BY <1>2, <2>2, <2>3 DEF Matched
  <2> QED
    BY <1>2, <2>3 DEF Matched
<1>6. Matched(ctx, cn)
  BY <1>2, <1>5 DEF Matched, Up, Connection
<1>7. OrphansPart'
  <2>1. {s.addr : s \in ToSet(client[c].active_groups)} \subseteq Addrs
    BY <1>2, SessionGroups DEF ClientContext
  <2>2. WindowsOf(c, cause) \subseteq [addr : Addrs, cause : {"KILLED"} \cup {m.tag : m \in Requests}]
    BY <2>1 DEF WindowsOf
  <2> QED
    BY <2>2 DEF Gone, MeshInv, OrphansPart, Addrs
<1> HIDE DEF ctx, cn
<1> QED
  BY <1>1, <1>3, <1>4, <1>6, <1>7, ClientStep

LEMMA Channels ==
  ASSUME MeshInv, NEW c \in Clients
  PROVE  /\ client[c] \in ClientContext /\ conn[c] \in Connection /\ Matched(client[c], conn[c])
         /\ Alive(c) <=> Up(client[c])
BY DEF MeshInv, MatchedPart, Alive, Up

LEMMA ConnectMesh ==
  ASSUME MeshInv, NEW c \in Clients, net_connect(c)
  PROVE  MeshInv'
<1>1. /\ client[c] \in ClientContext /\ conn[c] \in Connection /\ Matched(client[c], conn[c])
      /\ client[c].state = "DISCONNECTED" /\ client[c].request = Nothing
  BY Channels DEF net_connect, Matched, Up
<1>2. OrphansPart'
  BY OrphansKept DEF net_connect
<1>3. CASE /\ client' = [client EXCEPT ![c].state = "CONNECTED"]
           /\ conn' = [conn EXCEPT ![c].closed = FALSE]
  <2> DEFINE ctx == [client[c] EXCEPT !.state = "CONNECTED"]
             cn == [conn[c] EXCEPT !.closed = FALSE]
  <2>1. client' = [client EXCEPT ![c] = ctx] /\ conn' = [conn EXCEPT ![c] = cn]
    BY <1>3
  <2>2. ctx \in ClientContext /\ cn \in Connection /\ cn.fd = conn[c].fd
    BY <1>1 DEF ClientContext, Connection
  <2>3. /\ ctx.request = Nothing /\ ctx.state = "CONNECTED" /\ ~cn.closed
        /\ ~cn.reset /\ ~cn.hungup /\ cn.c2s = << >> /\ cn.s2c = << >>
    BY <1>1 DEF Matched, ClientContext, Connection
  <2> HIDE DEF ctx, cn
  <2>5. Matched(ctx, cn)
    BY <2>3 DEF Matched
  <2> QED
    BY <1>2, <2>1, <2>2, <2>5, ClientStep DEF net_connect
<1>4. CASE client' = [client EXCEPT ![c].state = "GONE"] /\ UNCHANGED conn
  <2> DEFINE ctx == [client[c] EXCEPT !.state = "GONE"]
  <2>1. client' = [client EXCEPT ![c] = ctx] /\ conn' = [conn EXCEPT ![c] = conn[c]]
    BY <1>4 DEF MeshInv, MatchedPart
  <2>2. ctx \in ClientContext /\ ctx.state = "GONE" /\ ctx.request = Nothing
    BY <1>1 DEF ClientContext
  <2> HIDE DEF ctx
  <2>3. Matched(ctx, conn[c])
    BY <1>1, <2>2 DEF Matched, Up
  <2> QED
    BY <1>1, <1>2, <2>1, <2>2, <2>3, ClientStep DEF net_connect
<1> QED
  BY <1>3, <1>4 DEF net_connect

LEMMA SendMesh ==
  ASSUME MeshInv, NEW c \in Clients, Request(c)
  PROVE  MeshInv'
<1>1. PICK msg \in Menu(c) : net_send(c, msg)
  BY DEF Request
<1>2. /\ client[c] \in ClientContext /\ conn[c] \in Connection /\ Matched(client[c], conn[c])
      /\ Up(client[c]) /\ client[c].request = Nothing
  BY <1>1, Channels DEF net_send, Waits, Idle
<1>3. msg \in Sendable /\ msg \in Requests /\ msg # Nothing
  BY <1>2, MenuIsSendable, SendableIsRequest
<1>4. CASE conn[c].reset /\ Gone(c, msg.tag)
  BY <1>1, <1>3, <1>4, GoneKeeps DEF net_send, Request
<1>5. CASE /\ client' = [client EXCEPT ![c].request = msg]
           /\ conn' = IF conn[c].closed THEN [conn EXCEPT ![c].reset = TRUE]
                                        ELSE [conn EXCEPT ![c].c2s = Append(@, msg)]
           /\ UNCHANGED orphans
  <2> DEFINE ctx == [client[c] EXCEPT !.request = msg]
  <2>1. /\ client' = [client EXCEPT ![c] = ctx]
        /\ ctx \in ClientContext /\ ctx.request = msg /\ Up(ctx)
        /\ ctx.state = client[c].state
    BY <1>2, <1>3, <1>5 DEF ClientContext, Up
  <2> HIDE DEF ctx
  <2>2. OrphansPart'
    BY <1>5, OrphansKept
  <2>3. CASE conn[c].closed
    <3> DEFINE cn == [conn[c] EXCEPT !.reset = TRUE]
    <3>1. conn' = [conn EXCEPT ![c] = cn] /\ cn \in Connection /\ cn.fd = conn[c].fd
      BY <1>2, <1>5, <2>3 DEF Connection
    <3>2. cn.closed /\ cn.c2s = conn[c].c2s /\ cn.hungup = conn[c].hungup
      BY <1>2, <2>3 DEF Connection
    <3> HIDE DEF cn
    <3>3. Matched(ctx, cn)
      BY <1>2, <1>3, <2>1, <2>3, <3>1, <3>2 DEF Matched, Up
    <3> QED
      BY <1>1, <2>1, <2>2, <3>1, <3>3, ClientStep DEF net_send
  <2>4. CASE ~conn[c].closed
    <3> DEFINE cn == [conn[c] EXCEPT !.c2s = Append(@, msg)]
    <3>1. conn[c].c2s = << >> /\ conn[c].s2c = << >>
      BY <1>2, <2>4 DEF Matched
    <3>2. Append(conn[c].c2s, msg) = <<msg>> /\ <<msg>> \in Seq(Requests)
      BY <1>3, <3>1
    <3>3. conn' = [conn EXCEPT ![c] = cn] /\ cn \in Connection /\ cn.fd = conn[c].fd
      BY <1>2, <1>5, <2>4, <3>2 DEF Connection
    <3>4. /\ cn.c2s = <<msg>> /\ cn.s2c = << >> /\ ~cn.closed /\ Len(<<msg>>) = 1
          /\ cn.hungup = conn[c].hungup /\ cn.reset = conn[c].reset
      BY <1>2, <2>4, <3>1, <3>2 DEF Connection
    <3> HIDE DEF cn
    <3>5. Matched(ctx, cn)
      BY <1>2, <1>3, <2>1, <2>4, <3>4 DEF Matched, Up
    <3> QED
      BY <1>1, <2>1, <2>2, <3>3, <3>5, ClientStep DEF net_send
  <2> QED
    BY <2>3, <2>4
<1> QED
  BY <1>1, <1>4, <1>5 DEF net_send

LEMMA AnswerMesh ==
  ASSUME MeshInv, NEW c \in Clients, net_recv(c) \/ net_recv_fails(c)
  PROVE  MeshInv'
<1>1. /\ client[c] \in ClientContext /\ conn[c] \in Connection /\ Matched(client[c], conn[c])
  BY Channels
<1>2. client[c].request # Nothing /\ client[c].request \in Sendable /\ Up(client[c])
  BY <1>1 DEF net_recv, net_recv_fails, Matched
<1>3. OrphansPart'
  BY OrphansKept DEF net_recv, net_recv_fails
<1>4. ~conn[c].hungup
  BY <1>1, <1>2 DEF Matched
<1>5. CASE net_recv(c)
  <2> DEFINE rep == Head(conn[c].s2c)
             ctx == AfterAnswer(client[c], rep.tag = "SUCCESS", rep.addr)
             cn == [conn[c] EXCEPT !.s2c = Tail(@)]
  <2>1. conn[c].s2c \in Seq(Reply) /\ conn[c].s2c # << >>
    BY <1>1, <1>5 DEF net_recv, Connection
  <2>2. rep \in Reply /\ Tail(conn[c].s2c) \in Seq(Reply) /\ Len(Tail(conn[c].s2c)) = Len(conn[c].s2c) - 1
    BY <2>1, HeadTailProperties
  <2>3. ctx \in ClientContext /\ ctx.request = Nothing /\ ctx.state # "DISCONNECTED"
    <3>1. rep.addr \in Addrs \cup {0} /\ (rep.tag = "SUCCESS") \in BOOLEAN
      BY <2>2 DEF Reply
    <3> HIDE DEF rep
    <3> QED
      BY <1>1, <1>2, <3>1, AnswerType
  <2>4. client' = [client EXCEPT ![c] = ctx] /\ conn' = [conn EXCEPT ![c] = cn]
    BY <1>5 DEF net_recv, Answer
  <2>5. /\ cn \in Connection /\ cn.fd = conn[c].fd /\ cn.c2s = conn[c].c2s /\ cn.closed = conn[c].closed
        /\ cn.reset = conn[c].reset /\ cn.hungup = conn[c].hungup
        /\ cn.s2c = Tail(conn[c].s2c)
    BY <1>1, <2>2 DEF Connection
  <2> HIDE DEF rep, ctx, cn
  <2>6. ~cn.closed => cn.c2s = << >> /\ cn.s2c = << >>
    <3> SUFFICES ASSUME ~cn.closed PROVE cn.c2s = << >> /\ cn.s2c = << >>
      OBVIOUS
    <3>1. conn[c].c2s = << >> /\ Len(conn[c].s2c) = 1
      BY <1>1, <1>2, <2>1, <2>5 DEF Matched
    <3>2. Tail(conn[c].s2c) = << >>
      <4> DEFINE rest == Tail(conn[c].s2c)
      <4>1. rest \in Seq(Reply) /\ Len(rest) = 1 - 1
        BY <2>2, <3>1
      <4> HIDE DEF rest
      <4>2. rest = << >>
        BY <4>1, EmptySeq
      <4> QED
        BY <4>2 DEF rest
    <3> QED
      BY <2>5, <3>1, <3>2
  <2>7. Matched(ctx, cn)
    BY <1>1, <1>4, <2>3, <2>5, <2>6 DEF Matched
  <2> QED
    BY <1>3, <1>5, <2>3, <2>4, <2>5, <2>7, ClientStep DEF net_recv
<1>6. CASE net_recv_fails(c)
  <2> DEFINE ctx == AfterAnswer(client[c], FALSE, 0)
  <2>1. ctx \in ClientContext /\ ctx.request = Nothing /\ ctx.state # "DISCONNECTED"
    BY <1>1, <1>2, AnswerType
  <2>2. client' = [client EXCEPT ![c] = ctx] /\ conn' = [conn EXCEPT ![c] = conn[c]]
    BY <1>6 DEF net_recv_fails, Answer, MeshInv, MatchedPart
  <2> HIDE DEF ctx
  <2>3. Matched(ctx, conn[c])
    BY <1>1, <1>4, <1>6, <2>1 DEF Matched, net_recv_fails
  <2> QED
    BY <1>1, <1>3, <1>6, <2>1, <2>2, <2>3, ClientStep DEF net_recv_fails
<1> QED
  BY <1>5, <1>6

LEMMA KilledMesh ==
  ASSUME MeshInv, NEW c \in Clients, Killed(c)
  PROVE  MeshInv'
BY GoneKeeps DEF Killed

-----------------------------------------------------------------------------
(***************************************************************************)
(* The steps of the server.                                                *)
(***************************************************************************)
\* A step of the loop for connection c that makes cn of it.
LEMMA LoopStep ==
  ASSUME MeshInv, MeshNext, NEW c \in Clients, UNCHANGED <<client, running, orphans>>,
         NEW cn \in Connection, conn' = [conn EXCEPT ![c] = cn], Matched(client[c], cn),
         \/ cn.fd = conn[c].fd
         \/ cn.fd = NoFd
         \/ cn.fd \notin client_fds,
         cn.fd # NoFd => cn.fd \in client_fds',
         client_fds \ {conn[c].fd} \subseteq client_fds'
  PROVE  MeshInv'
<1>1. MatchedPart'
  <2>1. client' = [client EXCEPT ![c] = client[c]] /\ client[c] \in ClientContext
    BY DEF MeshInv, MatchedPart
  <2> QED
    BY <2>1, OneMatched DEF MeshInv
<1>2. EndsPart'
  BY OneEnd DEF MeshInv
<1>3. IInv'
  BY MeshStepIsServerStep, NextIInv DEF MeshInv
<1> QED
  BY <1>1, <1>2, <1>3, OrphansKept DEF MeshInv

LEMMA ReplyIsReply ==
  ASSUME MeshInv, MeshNext
  PROVE  reply' \in Reply
BY MeshStepIsServerStep, NextIInv DEF MeshInv, IInv

LEMMA ClosedKeeps ==
  ASSUME NEW cn \in Connection, NEW ctx, Matched(ctx, cn), ~cn.closed
  PROVE  /\ Closed(cn) \in Connection /\ Closed(cn).fd = NoFd /\ Closed(cn).s2c = cn.s2c
         /\ Matched(ctx, Closed(cn))
<1> DEFINE k == Closed(cn)
<1>1. /\ k \in Connection /\ k.fd = NoFd /\ k.closed /\ k.c2s = << >> /\ k.s2c = cn.s2c
      /\ k.hungup = cn.hungup
  <2> DEFINE r == cn.reset \/ cn.c2s # << >>
  <2>1. r \in BOOLEAN /\ << >> \in Seq(Requests)
    OBVIOUS
  <2>2. k = [cn EXCEPT !.fd = NoFd, !.closed = TRUE, !.c2s = << >>, !.reset = r]
    BY DEF Closed
  <2> HIDE DEF r, k
  <2> QED
    BY <2>1, <2>2 DEF Connection
<1> HIDE DEF k
<1>2. Len(k.c2s) <= 1
  BY <1>1
<1>3. Matched(ctx, k)
  BY <1>1, <1>2 DEF Matched
<1> QED
  BY <1>1, <1>3 DEF k

LEMMA AcceptMesh ==
  ASSUME MeshInv, MeshNext, NEW c \in Clients, accept(c)
  PROVE  MeshInv'
<1>1. conn[c] \in Connection /\ Matched(client[c], conn[c]) /\ conn[c].fd = NoFd /\ ~conn[c].closed
  BY Channels DEF accept
<1>2. PICK fd \in Fds \ client_fds :
        \/ accept_client(fd) /\ conn' = [conn EXCEPT ![c].fd = fd]
        \/ reject_client(fd) /\ reject(c)
  BY DEF accept
<1>3. CASE accept_client(fd) /\ conn' = [conn EXCEPT ![c].fd = fd]
  <2> DEFINE cn == [conn[c] EXCEPT !.fd = fd]
  <2>1. /\ conn' = [conn EXCEPT ![c] = cn] /\ cn \in Connection
        /\ cn.fd = fd /\ cn.closed = conn[c].closed /\ cn.reset = conn[c].reset
        /\ cn.hungup = conn[c].hungup /\ cn.c2s = conn[c].c2s /\ cn.s2c = conn[c].s2c
    BY <1>1, <1>3 DEF Connection
  <2> HIDE DEF cn
  <2>2. Matched(client[c], cn)
    BY <1>1, <2>1 DEF Matched
  <2>3. client_fds' = client_fds \cup {fd}
    BY <1>3 DEF accept_client
  <2> QED
    BY <2>1, <2>2, <2>3, LoopStep DEF accept
<1>4. CASE reject_client(fd) /\ reject(c)
  <2> DEFINE k == Closed(conn[c])
             cn == [k EXCEPT !.s2c = <<reply'>>]
  <2>1. k \in Connection /\ k.fd = NoFd /\ Matched(client[c], k) /\ k.closed
    BY <1>1, ClosedKeeps DEF Closed, Connection
  <2>2. conn' = [conn EXCEPT ![c] = cn]
    BY <1>4 DEF reject
  <2> HIDE DEF k
  <2>3. /\ cn \in Connection /\ cn.fd = NoFd /\ cn.closed /\ cn.c2s = k.c2s
        /\ cn.reset = k.reset /\ cn.hungup = k.hungup
    <3>1. <<reply'>> \in Seq(Reply)
      BY ReplyIsReply
    <3> DEFINE s == <<reply'>>
    <3> HIDE DEF s
    <3>2. s \in Seq(Reply) /\ cn = [k EXCEPT !.s2c = s]
      BY <3>1 DEF s
    <3> HIDE DEF cn
    <3> QED
      BY <2>1, <3>2 DEF Connection
  <2>4. client[c].state # "DISCONNECTED"
    BY <1>1 DEF Matched
  <2> HIDE DEF cn
  <2>5. Matched(client[c], cn)
    BY <2>1, <2>3, <2>4 DEF Matched
  <2>6. client_fds' = client_fds
    BY <1>4 DEF reject_client
  <2> QED
    BY <2>2, <2>3, <2>5, <2>6, LoopStep DEF accept
<1> QED
  BY <1>2, <1>3, <1>4

LEMMA DispatchMesh ==
  ASSUME MeshInv, MeshNext, NEW c \in Clients, read_and_dispatch(c)
  PROVE  MeshInv'
<1> DEFINE msg == Head(conn[c].c2s)
           read == [conn[c] EXCEPT !.c2s = Tail(@), !.s2c = Append(@, reply'),
                                   !.hungup = @ \/ ~Alive(c)]
           cn == IF msg.tag = "EXIT" THEN Closed(read) ELSE read
<1>1. /\ conn[c] \in Connection /\ Matched(client[c], conn[c])
      /\ Alive(c) <=> Up(client[c])
      /\ conn[c].fd # NoFd /\ conn[c].c2s # << >>
  BY Channels DEF read_and_dispatch
<1>2. Tail(conn[c].c2s) = << >> /\ ~conn[c].closed
  BY <1>1, ReadsRequest
<1>3. conn' = [conn EXCEPT ![c] = cn]
  BY DEF read_and_dispatch
<1>4. Append(conn[c].s2c, reply') \in Seq(Reply)
      /\ (conn[c].s2c = << >> => Len(Append(conn[c].s2c, reply')) = 1)
  <2>1. conn[c].s2c \in Seq(Reply) /\ reply' \in Reply
    BY <1>1, ReplyIsReply DEF Connection
  <2> QED
    BY <2>1, AppendProperties
<1>5. /\ read \in Connection /\ read.fd = conn[c].fd /\ ~read.closed
      /\ read.c2s = << >> /\ read.s2c = Append(conn[c].s2c, reply')
      /\ read.reset = conn[c].reset /\ read.hungup = (conn[c].hungup \/ ~Alive(c))
  <2> DEFINE rest == Tail(conn[c].c2s)
             sent == Append(conn[c].s2c, reply')
             hung == conn[c].hungup \/ ~Alive(c)
  <2>0. hung \in BOOLEAN
    OBVIOUS
  <2>5. << >> \in Seq(Requests)
    OBVIOUS
  <2>1. rest = << >> /\ rest \in Seq(Requests) /\ sent \in Seq(Reply) /\ hung \in BOOLEAN
    BY <1>2, <1>4, <2>0, <2>5, Zenon
  <2>2. read = [conn[c] EXCEPT !.c2s = rest, !.s2c = sent, !.hungup = hung]
    OBVIOUS
  <2>3. sent = Append(conn[c].s2c, reply') /\ hung = (conn[c].hungup \/ ~Alive(c))
    OBVIOUS
  <2> HIDE DEF rest, sent, hung, read
  <2>4. /\ read \in Connection /\ read.fd = conn[c].fd /\ ~read.closed
        /\ read.c2s = rest /\ read.s2c = sent
        /\ read.reset = conn[c].reset /\ read.hungup = hung
    BY <1>1, <1>2, <2>1, <2>2 DEF Connection
  <2> QED
    BY <2>1, <2>3, <2>4
<1> HIDE DEF read
<1>6. Matched(client[c], read)
  <2>1. Len(read.c2s) <= 1
    BY <1>5
  <2>2. Up(client[c]) => client[c].request # Nothing /\ conn[c].s2c = << >>
    BY <1>1, <1>2 DEF Matched
  <2>3. client[c].state # "DISCONNECTED"
    BY <1>1, <1>2 DEF Matched
  <2> QED
    BY <1>1, <1>2, <1>4, <1>5, <2>1, <2>2, <2>3 DEF Matched
<1>7. cn \in Connection /\ Matched(client[c], cn) /\ cn.fd = IF msg.tag = "EXIT" THEN NoFd ELSE conn[c].fd
  BY <1>5, <1>6, ClosedKeeps
<1>8. /\ client_fds' = IF msg.tag = "EXIT" THEN client_fds \ {conn[c].fd} ELSE client_fds
      /\ conn[c].fd \in client_fds
  BY <1>1, DispatchEnds DEF read_and_dispatch, MeshInv, EndsPart
<1> HIDE DEF cn, msg
<1> QED
  BY <1>3, <1>7, <1>8, LoopStep DEF read_and_dispatch

LEMMA EofMesh ==
  ASSUME MeshInv, MeshNext, NEW c \in Clients, read_eof(c)
  PROVE  MeshInv'
<1> DEFINE cn == Closed(conn[c])
<1>1. conn[c] \in Connection /\ Matched(client[c], conn[c]) /\ conn[c].fd # NoFd
  BY Channels DEF read_eof
<1>2. ~conn[c].closed
  BY <1>1 DEF Matched
<1>3. cn \in Connection /\ cn.fd = NoFd /\ Matched(client[c], cn)
  BY <1>1, <1>2, ClosedKeeps
<1>4. conn' = [conn EXCEPT ![c] = cn] /\ client_fds' = client_fds \ {conn[c].fd}
  BY DEF read_eof, hangup, client_disconnected
<1> HIDE DEF cn
<1> QED
  BY <1>3, <1>4, LoopStep DEF read_eof

LEMMA ShutdownMesh ==
  ASSUME MeshInv, MeshNext, shutdown
  PROVE  MeshInv'
<1>1. ASSUME NEW c \in Clients
      PROVE  /\ conn'[c] \in Connection /\ Matched(client[c], conn'[c])
             /\ conn'[c].fd = NoFd
  <2>1. conn[c] \in Connection /\ Matched(client[c], conn[c])
    BY Channels
  <2>2. conn'[c] = IF conn[c].closed THEN conn[c] ELSE Closed(conn[c])
    BY DEF shutdown
  <2>3. CASE conn[c].closed
    BY <2>1, <2>2, <2>3 DEF Matched
  <2>4. CASE ~conn[c].closed
    BY <2>1, <2>2, <2>4, ClosedKeeps
  <2> QED
    BY <2>3, <2>4
<1>2. conn' \in [Clients -> Connection] /\ client' = client
  BY <1>1 DEF shutdown
<1>3. MatchedPart'
  BY <1>1, <1>2 DEF MeshInv, MatchedPart
<1>4. EndsPart'
  BY <1>1 DEF EndsPart
<1>5. IInv' /\ OrphansPart' /\ running' \in BOOLEAN
  BY MeshStepIsServerStep, NextIInv, OrphansKept DEF MeshInv, shutdown
<1> QED
  BY <1>3, <1>4, <1>5 DEF MeshInv

-----------------------------------------------------------------------------
(***************************************************************************)
(* The theorems.                                                           *)
(***************************************************************************)
LEMMA InitMesh == MeshInit => MeshInv
<1> SUFFICES ASSUME MeshInit PROVE MeshInv
  OBVIOUS
<1>1. IInv /\ client_fds = {}
  BY InitIInv DEF MeshInit, Init
<1>2. MatchedPart
  <2> SUFFICES /\ client \in [Clients -> ClientContext] /\ conn \in [Clients -> Connection]
               /\ \A c \in Clients : Matched(client[c], conn[c])
    BY DEF MatchedPart
  <2>1. << >> \in Seq(Requests) /\ << >> \in Seq(Reply) /\ << >> \in Sessions /\ Len(<< >>) = 0
    BY DEF Sessions
  <2>2. client \in [Clients -> ClientContext]
    BY <2>1 DEF MeshInit, ClientContext
  <2>3. conn \in [Clients -> Connection]
    BY <2>1 DEF MeshInit, Connection
  <2>4. ASSUME NEW c \in Clients
        PROVE  Matched(client[c], conn[c])
    BY <2>1 DEF MeshInit, Matched, Up
  <2> QED
    BY <2>2, <2>3, <2>4
<1>3. EndsPart /\ OrphansPart /\ running \in BOOLEAN
  BY DEF MeshInit, EndsPart, OrphansPart
<1> QED
  BY <1>1, <1>2, <1>3 DEF MeshInv

LEMMA MeshSteps == MeshInv /\ [MeshNext]_meshvars => MeshInv'
<1> SUFFICES ASSUME MeshInv, [MeshNext]_meshvars PROVE MeshInv'
  OBVIOUS
<1>1. CASE MeshNext
  BY <1>1, ConnectMesh, SendMesh, AnswerMesh, KilledMesh, AcceptMesh, DispatchMesh, EofMesh,
     ShutdownMesh DEF MeshNext
<1>2. CASE UNCHANGED meshvars
  <2>1. IInv'
    BY <1>2, MeshStepIsServerStep, NextIInv DEF MeshInv
  <2>2. UNCHANGED <<client_fds, client, conn, running, orphans>>
    BY <1>2 DEF meshvars, vars
  <2> QED
    BY <2>1, <2>2 DEF MeshInv, MatchedPart, EndsPart, OrphansPart, Addrs
<1> QED
  BY <1>1, <1>2

\* The clients talk to the server on connections of their own, at most one
\* message at a time, in every interleaving with its loop and their deaths.
THEOREM MeshInvariance == MeshSpec => []MeshInv
BY InitMesh, MeshSteps, PTL DEF MeshSpec

\* The server behaves among these clients as Server says (dispatch_message and
\* the loop), so what ServerProofs proves holds of it here.
THEOREM ServerAmongClients == MeshSpec => ServerSteps
<1>1. MeshInit => Init
  BY DEF MeshInit
<1>2. MeshInv /\ [MeshNext]_meshvars => [Next]_vars
  BY MeshStepIsServerStep
<1> QED
  BY <1>1, <1>2, MeshInvariance, PTL DEF MeshSpec, ServerSteps, Spec

\* The variables of clients and connections keep their shape: no answer of
\* the server makes a session without a group or without an address.
THEOREM MeshTypeCorrect == MeshSpec => []MeshTypeOK
<1>1. MeshInv => MeshTypeOK
  BY DEF MeshInv, IInv, GInv, GType, UInv, UType, TypeOK, MatchedPart, OrphansPart, MeshTypeOK
<1> QED
  BY <1>1, MeshInvariance, PTL

\* net_send_recv on one side and net_read_msg on the other never hold more
\* than the one request or its answer between them.
THEOREM OneMessageAtATime == MeshSpec => []Lockstep
<1>1. MeshInv => Lockstep
  <2> SUFFICES ASSUME MeshInv, NEW c \in Clients, Alive(c), conn[c].fd # NoFd
               PROVE  Len(conn[c].c2s) + Len(conn[c].s2c) = IF client[c].request = Nothing THEN 0 ELSE 1
    BY DEF Lockstep
  <2>1. Matched(client[c], conn[c]) /\ Up(client[c])
    BY Channels
  <2>2. Len(<< >>) = 0 /\ Len(<<client[c].request>>) = 1
    OBVIOUS
  <2>3. \/ client[c].request = Nothing /\ Len(conn[c].c2s) = 0 /\ Len(conn[c].s2c) = 0
        \/ client[c].request # Nothing /\ Len(conn[c].c2s) = 1 /\ Len(conn[c].s2c) = 0
        \/ client[c].request # Nothing /\ Len(conn[c].c2s) = 0 /\ Len(conn[c].s2c) = 1
    BY <2>1, <2>2 DEF Matched
  <2>4. \A m, n : m = 0 /\ n = 0 => m + n = 0
    OBVIOUS
  <2>5. \A m, n : (m = 0 /\ n = 1) \/ (m = 1 /\ n = 0) => m + n = 1
    OBVIOUS
  <2> QED
    BY <2>3, <2>4, <2>5
<1> QED
  BY <1>1, MeshInvariance, PTL

\* The server never writes to a connection that was reset (net_send_msg would
\* raise SIGPIPE, which nothing handles): what precedes the reset is all read.
THEOREM NeverWritesAfterReset == MeshSpec => []NoBrokenPipe
<1>1. MeshInv => NoBrokenPipe
  BY DEF MeshInv, MatchedPart, Matched, NoBrokenPipe
<1> QED
  BY <1>1, MeshInvariance, PTL
-----------------------------------------------------------------------------
(***************************************************************************)
(* Clients and server agree.  A client's context is compared with the      *)
(* server's tables as it will be when the answer on its way has been read. *)
(***************************************************************************)
-----------------------------------------------------------------------------
(***************************************************************************)
(* What a message changes: the users on its connection, its groups, and    *)
(* nothing of the other connections.                                       *)
(***************************************************************************)
Addresses == [g \in DOMAIN group_map |-> group_map[g].addr]

GroupsBecome(fd, mine) ==
  /\ GroupsOf(fd)' = mine
  /\ OthersUntouched(fd)
  /\ \A g \in DOMAIN group_map \cap DOMAIN group_map' : group_map'[g].addr = group_map[g].addr

UsersBecome(fd, mine) ==
  /\ find_user_by_fd(fd)' = mine
  /\ \A e \in Fds \ {fd} : find_user_by_fd(e)' = find_user_by_fd(e)

LEMMA GroupsStay ==
  ASSUME NEW fd, UNCHANGED group_map
  PROVE  GroupsBecome(fd, GroupsOf(fd))
BY DEF GroupsBecome, OthersUntouched, GroupsOf

LEMMA UsersStay ==
  ASSUME NEW fd, UNCHANGED user_map
  PROVE  UsersBecome(fd, find_user_by_fd(fd))
BY DEF UsersBecome, find_user_by_fd

LEMMA DepartureBecomes ==
  ASSUME IInv, NEW fd \in Fds, NEW S \in SUBSET GroupsOf(fd),
         close_empty_group(Departed(fd, S), Emptied(fd, S))
  PROVE  GroupsBecome(fd, GroupsOf(fd) \ S)
<1>1. /\ DOMAIN group_map' = DOMAIN group_map \ Emptied(fd, S)
      /\ \A g \in DOMAIN group_map' :
           /\ group_map'[g].addr = group_map[g].addr
           /\ ToSet(group_map'[g].members) =
                IF g \in S THEN ToSet(group_map[g].members) \ {fd} ELSE ToSet(group_map[g].members)
  BY DepartureEffect DEF IInv
<1>2. Emptied(fd, S) \subseteq S
  BY DEF Emptied
<1>3. GroupsOf(fd)' = GroupsOf(fd) \ S
  BY <1>1, <1>2 DEF GroupsOf
<1> QED
  BY <1>1, <1>3, DepartureIsOwn DEF GroupsBecome

LEMMA CleanupBecomes ==
  ASSUME IInv, NEW fd \in Fds, cleanup_client(fd)
  PROVE  GroupsBecome(fd, {})
<1>1. PICK closed \in Remembered(EmptiedBy(fd)) : close_empty_group(WithoutMember(fd), closed)
  BY DEF cleanup_client
<1>2. WithoutMember(fd) = Departed(fd, GroupsOf(fd)) /\ EmptiedBy(fd) = Emptied(fd, GroupsOf(fd))
  BY DEF WithoutMember, Departed, EmptiedBy, Emptied
<1>3. closed = EmptiedBy(fd)
  <2>1. EmptiedBy(fd) \in SUBSET DOMAIN group_map
    BY DEF EmptiedBy, GroupsOf
  <2>2. group_map \in [DOMAIN group_map -> GroupRecord] /\ OwnAddresses(group_map)
    BY DEF IInv, GInv, GType, NoSharedAddress, OwnAddresses
  <2> QED
    BY <1>1, <2>1, <2>2, GroupsAreFew, AllRemembered
<1> DEFINE S == GroupsOf(fd)
<1>4. S \in SUBSET GroupsOf(fd) /\ close_empty_group(Departed(fd, S), Emptied(fd, S))
  BY <1>1, <1>2, <1>3
<1>5. GroupsOf(fd) \ S = {}
  OBVIOUS
<1> HIDE DEF S
<1>6. GroupsBecome(fd, GroupsOf(fd) \ S)
  BY <1>4, DepartureBecomes
<1> QED
  BY <1>5, <1>6

\* The only user of a connection leaves with it.
LEMMA CleanupClears ==
  ASSUME UInv, NEW fd \in Fds, cleanup_client(fd), \A u, v \in find_user_by_fd(fd) : u = v
  PROVE  UsersBecome(fd, {})
<1>1. fd # NoFd
  BY FdsAssumption
<1>2. CASE find_user_by_fd(fd) = {} /\ UNCHANGED user_map
  BY <1>2, UsersStay
<1>3. ASSUME NEW u \in find_user_by_fd(fd),
             user_map' = [user_map EXCEPT ![u] =
               [password |-> @.password, logged_in |-> FALSE, socket_fd |-> NoFd]]
      PROVE  UsersBecome(fd, {})
  <2>1. u \in DOMAIN user_map /\ user_map[u].socket_fd = fd
    BY DEF find_user_by_fd
  <2>2. /\ DOMAIN user_map' = DOMAIN user_map
        /\ user_map'[u].socket_fd = NoFd
        /\ \A v \in DOMAIN user_map \ {u} : user_map'[v] = user_map[v]
    BY <1>3, <2>1
  <2>3. find_user_by_fd(fd)' = {}
    BY <1>1, <2>1, <2>2 DEF find_user_by_fd
  <2>4. ASSUME NEW e \in Fds \ {fd}
        PROVE  find_user_by_fd(e)' = find_user_by_fd(e)
    BY <2>1, <2>2, FdsAssumption DEF find_user_by_fd
  <2> QED
    BY <2>3, <2>4 DEF UsersBecome
<1> QED
  BY <1>2, <1>3 DEF cleanup_client, ClearSession

\* add_member, when nothing fails: a welcome and one more group, or neither.
LEMMA ArrivalBecomes ==
  ASSUME IInv, ~AllocMayFail, NEW fd \in Fds,
         NEW groups, groups \in [DOMAIN groups -> GroupRecord],
         NEW g \in DOMAIN groups, add_member(fd, groups, g),
         \A h \in DOMAIN group_map : h \in DOMAIN groups /\ groups[h] = group_map[h],
         \A h \in DOMAIN groups \ DOMAIN group_map : groups[h].members = << >>
  PROVE  \/ /\ GroupsBecome(fd, GroupsOf(fd) \cup {g})
            /\ g \in DOMAIN group_map' /\ reply'.addr = group_map'[g].addr /\ reply'.addr # 0
         \/ GroupsBecome(fd, GroupsOf(fd)) /\ reply'.addr = 0
<1>1. /\ DOMAIN group_map' = DOMAIN groups
      /\ \A h \in DOMAIN groups \ {g} : group_map'[h] = groups[h]
      /\ group_map'[g].addr = groups[g].addr
      /\ \/ ToSet(group_map'[g].members) = ToSet(groups[g].members) \cup {fd} /\ Welcome(fd, groups[g])
         \/ ToSet(group_map'[g].members) = ToSet(groups[g].members) /\ fd \notin ToSet(groups[g].members)
            /\ Refuse(fd, "GROUP_FULL")
  <2>1. CASE fd \in ToSet(groups[g].members)
    BY <2>1 DEF add_member
  <2>2. CASE fd \notin ToSet(groups[g].members) /\ group_map' = groups /\ Refuse(fd, "GROUP_FULL")
    BY <2>2
  <2>3. CASE fd \notin ToSet(groups[g].members) /\ groups[g].member_count < MaxMembers
             /\ Welcome(fd, groups[g])
             /\ \E pushed \in BOOLEAN :
                  /\ ~pushed => AllocMayFail
                  /\ group_map' = [groups EXCEPT ![g] = AddMember(@, fd, pushed)]
    <3>1. group_map' # groups
      <4>1. PICK pushed \in BOOLEAN : group_map' = [groups EXCEPT ![g] = AddMember(@, fd, pushed)]
        BY <2>3
      <4>2. group_map'[g].member_count = groups[g].member_count + 1 /\ groups[g].member_count \in Nat
        BY <4>1 DEF AddMember, GroupRecord
      <4> QED
        BY <4>2
    <3> QED
      BY <2>3, <3>1, ArrivalSets
  <2> QED
    BY <2>1, <2>2, <2>3 DEF add_member
<1>2. OthersUntouched(fd)
  BY ArrivalIsOwn
<1>3. \A h \in DOMAIN groups \ DOMAIN group_map : ToSet(groups[h].members) = {}
  BY DEF ToSet
<1>4. \A h \in DOMAIN group_map \cap DOMAIN group_map' : group_map'[h].addr = group_map[h].addr
  BY <1>1
<1>5. CASE ToSet(group_map'[g].members) = ToSet(groups[g].members) \cup {fd} /\ Welcome(fd, groups[g])
  <2>1. GroupsOf(fd)' = GroupsOf(fd) \cup {g}
    BY <1>1, <1>3, <1>5 DEF GroupsOf
  <2>2. reply'.addr = groups[g].addr
    BY <1>5 DEF Welcome, build_group_info_msg
  <2>3. groups[g].addr # 0
    BY DEF GroupRecord, Addrs
  <2> QED
    BY <1>1, <1>2, <1>4, <2>1, <2>2, <2>3 DEF GroupsBecome
<1>6. CASE /\ ToSet(group_map'[g].members) = ToSet(groups[g].members)
           /\ fd \notin ToSet(groups[g].members)
           /\ Refuse(fd, "GROUP_FULL")
  <2>1. GroupsOf(fd)' = GroupsOf(fd)
    BY <1>1, <1>3, <1>6 DEF GroupsOf
  <2>2. reply'.addr = 0
    BY <1>6 DEF Refuse, build_error_msg
  <2> QED
    BY <1>2, <1>4, <2>1, <2>2 DEF GroupsBecome
<1> QED
  BY <1>1, <1>5, <1>6

\* The groups of connection fd once msg has been answered, and the address told.
GroupsAfter(fd, msg) ==
  CASE msg.tag \in {"CREATE_GROUP", "JOIN_GROUP"} /\ reply'.addr # 0 -> GroupsOf(fd) \cup {msg.gname}
    [] msg.tag = "LEAVE_GROUP" /\ reply'.tag = "SUCCESS" -> GroupsOf(fd) \ {msg.gname}
    [] msg.tag \in {"LOGOUT", "EXIT"} -> {}
    [] OTHER -> GroupsOf(fd)

AddressTold(fd, msg) ==
  msg.tag \in {"CREATE_GROUP", "JOIN_GROUP"} /\ reply'.addr # 0 =>
    /\ msg.gname \in DOMAIN group_map' /\ group_map'[msg.gname].addr = reply'.addr
    /\ msg.tag = "CREATE_GROUP" => msg.gname \notin GroupsOf(fd)

LEMMA RefusalTells ==
  ASSUME NEW fd, NEW code, Refuse(fd, code)
  PROVE  reply'.addr = 0 /\ reply'.tag = "ERROR"
BY DEF Refuse, build_error_msg

LEMMA JoinBecomes ==
  ASSUME IInv, ~AllocMayFail, NEW fd \in Fds, NEW msg, msg.tag = "JOIN_GROUP", handle_join_group(fd, msg)
  PROVE  GroupsBecome(fd, GroupsAfter(fd, msg)) /\ AddressTold(fd, msg)
<1> DEFINE g == msg.gname
<1>1. CASE reply'.addr = 0 /\ UNCHANGED group_map
  BY <1>1, GroupsStay DEF GroupsAfter, AddressTold
<1>2. CASE g \in DOMAIN group_map /\ add_member(fd, group_map, g)
  <2>1. group_map \in [DOMAIN group_map -> GroupRecord]
    BY DEF IInv, GInv, GType
  <2>2. \/ /\ GroupsBecome(fd, GroupsOf(fd) \cup {g})
           /\ g \in DOMAIN group_map' /\ reply'.addr = group_map'[g].addr /\ reply'.addr # 0
        \/ GroupsBecome(fd, GroupsOf(fd)) /\ reply'.addr = 0
    BY <1>2, <2>1, ArrivalBecomes
  <2> QED
    BY <2>2 DEF GroupsAfter, AddressTold
<1> QED
  BY <1>1, <1>2, RefusalTells DEF handle_join_group

LEMMA CreateBecomes ==
  ASSUME IInv, ~AllocMayFail, NEW fd \in Fds, NEW msg, msg.tag = "CREATE_GROUP",
         handle_create_group(fd, msg)
  PROVE  GroupsBecome(fd, GroupsAfter(fd, msg)) /\ AddressTold(fd, msg)
<1> DEFINE g == msg.gname
           new == [addr |-> Head(mcast_queue), members |-> << >>, member_count |-> 0]
           groups == HashMap_Insert(group_map, g, new)
<1>1. CASE reply'.addr = 0 /\ UNCHANGED group_map
  BY <1>1, GroupsStay DEF GroupsAfter, AddressTold
<1>2. CASE g \in Groups \ DOMAIN group_map /\ mcast_queue # << >> /\ add_member(fd, groups, g)
  <2>1. mcast_queue \in Seq(Addrs) /\ Distinct(mcast_queue)
    BY DEF IInv, GInv, GType, NoSharedAddress, Distinct
  <2>2. new \in GroupRecord /\ new.members = << >>
    BY <1>2, <2>1, TailRemoves DEF GroupRecord
  <2>3. /\ DOMAIN groups = DOMAIN group_map \cup {g} /\ groups[g] = new
        /\ \A h \in DOMAIN group_map : groups[h] = group_map[h]
    BY <1>2 DEF HashMap_Insert
  <2>4. groups \in [DOMAIN groups -> GroupRecord]
    <3>1. \A h \in DOMAIN groups : groups[h] \in GroupRecord
      BY <2>2, <2>3 DEF IInv, GInv, GType
    <3>2. groups = [h \in DOMAIN groups |-> groups[h]]
      BY DEF HashMap_Insert
    <3> QED
      BY <3>1, <3>2
  <2>5. g \notin GroupsOf(fd)
    BY <1>2 DEF GroupsOf
  <2>6. add_member(fd, groups, g)
    BY <1>2
  <2> HIDE DEF groups, new
  <2>7. \/ /\ GroupsBecome(fd, GroupsOf(fd) \cup {g})
           /\ g \in DOMAIN group_map' /\ reply'.addr = group_map'[g].addr /\ reply'.addr # 0
        \/ GroupsBecome(fd, GroupsOf(fd)) /\ reply'.addr = 0
    BY <2>2, <2>3, <2>4, <2>6, ArrivalBecomes
  <2> QED
    BY <2>5, <2>7 DEF GroupsAfter, AddressTold
<1> QED
  BY <1>1, <1>2, RefusalTells DEF handle_create_group

LEMMA LeaveBecomes ==
  ASSUME IInv, NEW fd \in Fds, NEW msg, msg.tag = "LEAVE_GROUP", handle_leave_group(fd, msg)
  PROVE  GroupsBecome(fd, GroupsAfter(fd, msg)) /\ AddressTold(fd, msg)
<1> DEFINE g == msg.gname
<1>1. CASE reply'.tag = "ERROR" /\ UNCHANGED group_map
  BY <1>1, GroupsStay DEF GroupsAfter, AddressTold
<1>2. ASSUME g \in GroupsOf(fd), Confirm(fd),
             LET groups == [group_map EXCEPT ![g] = RemoveMember(@, fd)]
             IN  close_empty_group(groups, {h \in {g} : groups[h].member_count = 0})
      PROVE  GroupsBecome(fd, GroupsAfter(fd, msg)) /\ AddressTold(fd, msg)
  <2> DEFINE S == {g}
  <2>1. reply'.tag = "SUCCESS"
    BY <1>2 DEF Confirm, build_success_msg
  <2>2. GroupsAfter(fd, msg) = GroupsOf(fd) \ S
    BY <2>1 DEF GroupsAfter
  <2> HIDE DEF g
  <2>3. S \in SUBSET GroupsOf(fd) /\ close_empty_group(Departed(fd, S), Emptied(fd, S))
    BY <1>2, LeaveEffect
  <2> HIDE DEF S
  <2>4. GroupsBecome(fd, GroupsOf(fd) \ S)
    BY <2>3, DepartureBecomes
  <2> QED
    BY <2>2, <2>4 DEF AddressTold
<1> QED
  BY <1>1, <1>2, RefusalTells DEF handle_leave_group

\* dispatch_message and the groups.
LEMMA DispatchBecomes ==
  ASSUME IInv, ~AllocMayFail, NEW fd \in Fds, NEW msg, dispatch_message(fd, msg)
  PROVE  GroupsBecome(fd, GroupsAfter(fd, msg)) /\ AddressTold(fd, msg)
<1>1. CASE msg.tag \in {"REGISTER", "LOGIN", "UNKNOWN"} /\ UNCHANGED group_map
  BY <1>1, GroupsStay DEF GroupsAfter, AddressTold
<1>2. CASE msg.tag \in {"LOGOUT", "EXIT"} /\ cleanup_client(fd)
  BY <1>2, CleanupBecomes DEF GroupsAfter, AddressTold
<1> QED
  BY <1>1, <1>2, JoinBecomes, CreateBecomes, LeaveBecomes
     DEF dispatch_message, handle_register, handle_login, handle_logout, handle_exit

\* The users on connection fd once msg has been answered.
UsersAfter(fd, msg) ==
  CASE msg.tag = "LOGIN" /\ reply'.tag = "SUCCESS" -> find_user_by_fd(fd) \cup {msg.uname}
    [] msg.tag \in {"LOGOUT", "EXIT"} -> {}
    [] OTHER -> find_user_by_fd(fd)

\* dispatch_message and the users.
LEMMA DispatchUsers ==
  ASSUME UInv, NEW fd \in Fds, NEW msg, dispatch_message(fd, msg),
         \A u, v \in find_user_by_fd(fd) : u = v
  PROVE  UsersBecome(fd, UsersAfter(fd, msg))
<1>1. CASE /\ msg.tag \notin {"LOGOUT", "EXIT"} /\ UNCHANGED user_map
           /\ msg.tag = "LOGIN" => reply'.tag = "ERROR"
  BY <1>1, UsersStay DEF UsersAfter
<1>2. CASE msg.tag \in {"LOGOUT", "EXIT"} /\ cleanup_client(fd)
  BY <1>2, CleanupClears DEF UsersAfter
<1>3. CASE msg.tag = "REGISTER" /\ handle_register(fd, msg) /\ ~UNCHANGED user_map
  <2> DEFINE new == [password |-> msg.pass, logged_in |-> FALSE, socket_fd |-> NoFd]
  <2>1. user_map' = HashMap_Insert(user_map, msg.uname, new) /\ msg.uname \notin DOMAIN user_map
    BY <1>3 DEF handle_register
  <2>2. /\ DOMAIN user_map' = DOMAIN user_map \cup {msg.uname}
        /\ user_map'[msg.uname].socket_fd = NoFd
        /\ \A u \in DOMAIN user_map : user_map'[u] = user_map[u]
    BY <2>1 DEF HashMap_Insert
  <2>3. \A e \in Fds : find_user_by_fd(e)' = find_user_by_fd(e)
    BY <2>2, FdsAssumption DEF find_user_by_fd
  <2> QED
    BY <1>3, <2>3 DEF UsersBecome, UsersAfter
<1>4. ASSUME msg.tag = "LOGIN", msg.uname \in DOMAIN user_map, ~user_map[msg.uname].logged_in,
             Confirm(fd),
             user_map' = [user_map EXCEPT ![msg.uname] =
               [password |-> @.password, logged_in |-> TRUE, socket_fd |-> fd]]
      PROVE  UsersBecome(fd, UsersAfter(fd, msg))
  <2>1. /\ DOMAIN user_map' = DOMAIN user_map
        /\ user_map'[msg.uname].socket_fd = fd
        /\ \A u \in DOMAIN user_map \ {msg.uname} : user_map'[u] = user_map[u]
    BY <1>4
  <2>2. user_map[msg.uname].socket_fd = NoFd
    BY <1>4 DEF UInv, LoginConsistent
  <2>3. reply'.tag = "SUCCESS"
    BY <1>4 DEF Confirm, build_success_msg
  <2>4. find_user_by_fd(fd)' = find_user_by_fd(fd) \cup {msg.uname}
    BY <1>4, <2>1 DEF find_user_by_fd
  <2>5. \A e \in Fds \ {fd} : find_user_by_fd(e)' = find_user_by_fd(e)
    BY <2>1, <2>2, FdsAssumption DEF find_user_by_fd
  <2> QED
    BY <1>4, <2>3, <2>4, <2>5 DEF UsersBecome, UsersAfter
<1> QED
  BY <1>1, <1>2, <1>3, <1>4, RefusalTells
     DEF dispatch_message, handle_register, handle_login, handle_logout, handle_exit,
         handle_create_group, handle_join_group, handle_leave_group

-----------------------------------------------------------------------------
(***************************************************************************)
(* Sessions that are those of the groups mine, at the addresses known.     *)
(***************************************************************************)
Holds(sessions, mine, known) ==
  /\ \A i, j \in DOMAIN sessions : sessions[i].group_name = sessions[j].group_name => i = j
  /\ GroupsIn(sessions) = mine
  /\ \A i \in DOMAIN sessions : sessions[i].addr = known[sessions[i].group_name]

LEMMA HoldsSame ==
  ASSUME NEW sessions, NEW mine, NEW known, NEW now, Holds(sessions, mine, known),
         \A g \in mine : now[g] = known[g]
  PROVE  Holds(sessions, mine, now)
<1>1. \A i \in DOMAIN sessions : sessions[i].group_name \in mine
  BY DEF Holds, GroupsIn, ToSet
<1> QED
  BY <1>1 DEF Holds

LEMMA HoldsNothing ==
  ASSUME NEW known
  PROVE  Holds(<< >>, {}, known)
BY DEF Holds, GroupsIn, ToSet

\* The entry that handle_create_group or handle_join_group appends.
LEMMA HoldsOneMore ==
  ASSUME NEW sessions \in Sessions, NEW mine, NEW known, Holds(sessions, mine, known),
         NEW g \in Groups, g \notin mine, NEW addr \in Addrs, known[g] = addr
  PROVE  Holds(Append(sessions, [group_name |-> g, addr |-> addr]), mine \cup {g}, known)
<1> DEFINE new == [group_name |-> g, addr |-> addr]
           more == Append(sessions, new)
           n == Len(sessions)
<1>1. sessions \in Seq([group_name : Groups, addr : Addrs]) /\ new \in [group_name : Groups, addr : Addrs]
  BY DEF Sessions
<1>2. /\ DOMAIN sessions = 1 .. n /\ n \in Nat /\ DOMAIN more = 1 .. n + 1
      /\ \A i \in 1 .. n : more[i] = sessions[i]
      /\ more[n + 1] = new
  BY <1>1, AppendProperties, LenProperties
<1>3. new.group_name = g /\ new.addr = addr
  OBVIOUS
<1> HIDE DEF new, more, n
<1>4. \A i \in 1 .. n : sessions[i].group_name \in mine
  BY <1>2 DEF Holds, GroupsIn, ToSet
<1>5. GroupsIn(more) = mine \cup {g}
  <2>1. GroupsIn(more) = {more[i].group_name : i \in 1 .. n + 1}
    BY <1>2 DEF GroupsIn, ToSet
  <2>2. mine = {sessions[i].group_name : i \in 1 .. n}
    BY <1>2 DEF Holds, GroupsIn, ToSet
  <2>3. \A i \in 1 .. n + 1 : i \in 1 .. n \/ i = n + 1
    BY <1>2
  <2>4. \A i \in 1 .. n : i \in 1 .. n + 1
    BY <1>2
  <2>5. n + 1 \in 1 .. n + 1
    BY <1>2
  <2> QED
    BY <1>2, <1>3, <2>1, <2>2, <2>3, <2>4, <2>5
<1>6. \A i, j \in DOMAIN more : more[i].group_name = more[j].group_name => i = j
  <2> SUFFICES ASSUME NEW i \in 1 .. n + 1, NEW j \in 1 .. n + 1, more[i].group_name = more[j].group_name
               PROVE  i = j
    BY <1>2
  <2>1. CASE i \in 1 .. n /\ j \in 1 .. n
    BY <1>2, <2>1 DEF Holds
  <2>2. CASE i = n + 1 \/ j = n + 1
    BY <1>2, <1>3, <1>4, <2>2
  <2> QED
    BY <1>2, <2>1, <2>2
<1>7. \A i \in DOMAIN more : more[i].addr = known[more[i].group_name]
  BY <1>2, <1>3 DEF Holds
<1> QED
  BY <1>5, <1>6, <1>7 DEF Holds, more, new

\* The shift of handle_leave_group takes one session out, the right one.
LEMMA HoldsOneLess ==
  ASSUME NEW sessions \in Sessions, NEW mine, NEW known, Holds(sessions, mine, known), NEW g
  PROVE  Holds(Without(sessions, g), mine \ {g}, known)
<1>1. CASE Without(sessions, g) = sessions /\ g \notin GroupsIn(sessions)
  BY <1>1 DEF Holds
<1>2. ASSUME NEW k \in 1 .. Len(sessions), sessions[k].group_name = g,
             Without(sessions, g) = RemoveAt(sessions, k)
      PROVE  Holds(Without(sessions, g), mine \ {g}, known)
  <2> DEFINE less == Without(sessions, g)
             n == Len(sessions)
             old(j) == IF j < k THEN j ELSE j + 1
  <2>1. sessions \in Seq([group_name : Groups, addr : Addrs])
    BY DEF Sessions
  <2>2. DOMAIN sessions = 1 .. n /\ n \in Nat /\ k \in 1 .. n
    BY <2>1, LenProperties
  <2>3. /\ less \in Seq([group_name : Groups, addr : Addrs]) /\ Len(less) = n - 1
        /\ \A j \in 1 .. n - 1 : less[j] = IF j < k THEN sessions[j] ELSE sessions[j + 1]
    BY <1>2, <2>1, RemoveAtShifts
  <2>4. DOMAIN less = 1 .. n - 1
    BY <2>3, LenProperties
  <2> HIDE DEF n, less
  <2>5. \A j \in 1 .. n - 1 : old(j) \in 1 .. n /\ old(j) # k
    BY <2>2
  <2>6. \A i \in 1 .. n : i # k => \E j \in 1 .. n - 1 : old(j) = i
    <3> SUFFICES ASSUME NEW i \in 1 .. n, i # k
                 PROVE  \E j \in 1 .. n - 1 : old(j) = i
      OBVIOUS
    <3>1. CASE i < k
      BY <2>2, <3>1
    <3>2. CASE k < i
      <4>1. i - 1 \in 1 .. n - 1 /\ ~(i - 1 < k) /\ i - 1 + 1 = i
        BY <2>2, <3>2
      <4> QED
        BY <4>1
    <3> QED
      BY <2>2, <3>1, <3>2
  <2>7. \A i, j \in 1 .. n - 1 : old(i) = old(j) => i = j
    BY <2>2
  <2>8. \A j \in 1 .. n - 1 : less[j] = sessions[old(j)]
    BY <2>3
  <2> HIDE DEF old
  <2>9. \A i, j \in DOMAIN less : less[i].group_name = less[j].group_name => i = j
    BY <2>2, <2>4, <2>5, <2>7, <2>8 DEF Holds
  <2>10. \A i \in DOMAIN less : less[i].addr = known[less[i].group_name]
    BY <2>2, <2>4, <2>5, <2>8 DEF Holds
  <2>11. GroupsIn(less) = mine \ {g}
    <3>1. GroupsIn(less) = {less[j].group_name : j \in 1 .. n - 1}
      BY <2>4 DEF GroupsIn, ToSet
    <3>2. mine = {sessions[i].group_name : i \in 1 .. n}
      BY <2>2 DEF Holds, GroupsIn, ToSet
    <3>3. \A i \in 1 .. n : sessions[i].group_name = g <=> i = k
      BY <1>2, <2>2 DEF Holds
    <3>4. GroupsIn(less) = {sessions[old(j)].group_name : j \in 1 .. n - 1}
      BY <2>8, <3>1
    <3>5. \A x \in GroupsIn(less) : x \in mine \ {g}
      BY <2>5, <3>2, <3>3, <3>4
    <3>6. \A x \in mine \ {g} : x \in GroupsIn(less)
      BY <2>6, <3>2, <3>3, <3>4
    <3> QED
      BY <3>5, <3>6
  <2> QED
    BY <2>9, <2>10, <2>11 DEF Holds, less
<1> QED
  BY <1>1, <1>2, WithoutIsRemoval

\* A session for each group, and none twice: as many.
LEMMA HoldsCounts ==
  ASSUME NEW sessions \in Sessions, NEW mine, NEW known, Holds(sessions, mine, known)
  PROVE  Len(sessions) = Cardinality(mine)
<1> DEFINE n == Len(sessions)
           f == [i \in 1 .. n |-> sessions[i].group_name]
<1>1. DOMAIN sessions = 1 .. n /\ n \in Nat
  BY LenProperties DEF Sessions
<1>2. mine = {sessions[i].group_name : i \in 1 .. n}
  BY <1>1 DEF Holds, GroupsIn, ToSet
<1>3. f \in [1 .. n -> mine]
  BY <1>2
<1>4. \A i, j \in 1 .. n : f[i] = f[j] => i = j
  BY <1>1 DEF Holds
<1>5. \A g \in mine : \E i \in 1 .. n : f[i] = g
  BY <1>2
<1> HIDE DEF f, n
<1>6. f \in Injection(1 .. n, mine) /\ f \in Surjection(1 .. n, mine)
  BY <1>3, <1>4, <1>5, Fun_IsInj, Fun_IsSurj
<1>7. ExistsBijection(1 .. n, mine)
  BY <1>6 DEF ExistsBijection, Bijection
<1>8. IsFiniteSet(1 .. n) /\ Cardinality(1 .. n) = n
  BY <1>1, FS_CountingElements, FS_Interval
<1> QED
  BY <1>7, <1>8, FS_Bijection DEF n

-----------------------------------------------------------------------------
(***************************************************************************)
(* The invariant.                                                          *)
(***************************************************************************)
MenuOf(ctx) == IF ctx.state = "CONNECTED" THEN Screen1 ELSE Screen2(ctx.active_groups)

\* The context once the answer on its way is read.
View(ctx, cn) ==
  IF cn.s2c = << >> THEN ctx ELSE AfterAnswer(ctx, Head(cn.s2c).tag = "SUCCESS", Head(cn.s2c).addr)

\* A client asks what its screen offers, and has nothing before it is accepted.
Polite(ctx, cn) ==
  /\ ctx.request # Nothing => ctx.request \in MenuOf(ctx)
  /\ ctx.state = "DISCONNECTED" \/ (Up(ctx) /\ ~cn.closed /\ cn.fd = NoFd) =>
       ctx.state # "LOGGED_IN" /\ ctx.active_groups = << >> /\ cn.s2c = << >>

OneAccount(cn, users) ==
  /\ \A u, v \in users : u = v
  /\ cn.c2s # << >> /\ Head(cn.c2s).tag = "LOGIN" => users = {}

Tells(ctx, users, mine, known) ==
  /\ users = IF ctx.state = "LOGGED_IN" THEN {ctx.username} ELSE {}
  /\ ~AllocMayFail => Holds(ctx.active_groups, mine, known)

Agreed(ctx, cn, users, mine, known) ==
  OneAccount(cn, users) /\ (Up(ctx) => Tells(View(ctx, cn), users, mine, known))

AgreePart ==
  \A c \in Clients :
    /\ Polite(client[c], conn[c])
    /\ \A f \in Fds : f = conn[c].fd =>
         Agreed(client[c], conn[c], find_user_by_fd(f), GroupsOf(f), Addresses)

AccountsOpen == \A e \in Fds : find_user_by_fd(e) # {} => e \in client_fds

AgreeInv == MeshInv /\ AgreePart /\ AccountsOpen

-----------------------------------------------------------------------------
(***************************************************************************)
(* One connection changes, and the others agree as before.                 *)
(***************************************************************************)
LEMMA OneAgrees ==
  ASSUME AgreeInv, MeshInv', NEW c \in Clients, NEW ctx, NEW cn,
         client' = [client EXCEPT ![c] = ctx], conn' = [conn EXCEPT ![c] = cn],
         Polite(ctx, cn),
         \A f \in Fds : f = cn.fd => Agreed(ctx, cn, find_user_by_fd(f)', GroupsOf(f)', Addresses'),
         \A e \in Fds : e # conn[c].fd /\ e # cn.fd =>
           /\ find_user_by_fd(e)' = find_user_by_fd(e)
           /\ ~AllocMayFail => GroupsOf(e)' = GroupsOf(e),
         ~AllocMayFail =>
           \A g \in DOMAIN group_map \cap DOMAIN group_map' : group_map'[g].addr = group_map[g].addr
  PROVE  AgreePart'
<1>1. \A d \in Clients : /\ client'[d] = IF d = c THEN ctx ELSE client[d]
                         /\ conn'[d] = IF d = c THEN cn ELSE conn[d]
  BY DEF AgreeInv, MeshInv, MatchedPart
<1>2. ASSUME NEW d \in Clients \ {c}, NEW f \in Fds, f = conn[d].fd
      PROVE  Agreed(client[d], conn[d], find_user_by_fd(f)', GroupsOf(f)', Addresses')
  <2>1. f # conn[c].fd
    BY <1>2, FdsAssumption DEF AgreeInv, MeshInv, EndsPart
  <2>2. f # cn.fd
    BY <1>1, <1>2, FdsAssumption DEF MeshInv, EndsPart
  <2>3. /\ find_user_by_fd(f)' = find_user_by_fd(f)
        /\ ~AllocMayFail => GroupsOf(f)' = GroupsOf(f)
    BY <2>1, <2>2
  <2>4. Agreed(client[d], conn[d], find_user_by_fd(f), GroupsOf(f), Addresses)
    BY <1>2 DEF AgreeInv, AgreePart
  <2>5. ~AllocMayFail => \A g \in GroupsOf(f) : Addresses'[g] = Addresses[g]
    <3> SUFFICES ASSUME ~AllocMayFail, NEW g \in GroupsOf(f)
                 PROVE  Addresses'[g] = Addresses[g]
      OBVIOUS
    <3>1. g \in DOMAIN group_map /\ g \in DOMAIN group_map'
      BY <2>3 DEF GroupsOf
    <3> QED
      BY <3>1 DEF Addresses
  <2>6. ASSUME NEW sessions, ~AllocMayFail, Holds(sessions, GroupsOf(f), Addresses)
        PROVE  Holds(sessions, GroupsOf(f)', Addresses')
    BY <2>3, <2>5, <2>6, HoldsSame
  <2> QED
    BY <2>3, <2>4, <2>6 DEF Agreed, Tells
<1>3. ASSUME NEW d \in Clients
      PROVE  /\ Polite(client'[d], conn'[d])
             /\ \A f \in Fds : f = conn'[d].fd =>
                  Agreed(client'[d], conn'[d], find_user_by_fd(f)', GroupsOf(f)', Addresses')
  <2>1. CASE d = c
    BY <1>1, <2>1
  <2>2. CASE d # c
    BY <1>1, <1>2, <2>2 DEF AgreeInv, AgreePart
  <2> QED
    BY <2>1, <2>2
<1> QED
  BY <1>3 DEF AgreePart

\* What a client does on its own.
LEMMA ClientAgrees ==
  ASSUME AgreeInv, MeshInv', NEW c \in Clients, UNCHANGED vars, NEW ctx, NEW cn,
         client' = [client EXCEPT ![c] = ctx], conn' = [conn EXCEPT ![c] = cn],
         cn.fd = conn[c].fd, Polite(ctx, cn),
         \A f \in Fds : f = cn.fd => Agreed(ctx, cn, find_user_by_fd(f), GroupsOf(f), Addresses)
  PROVE  AgreeInv'
<1>1. UNCHANGED <<client_fds, user_map, group_map>>
  BY DEF vars
<1>2. /\ Addresses' = Addresses
      /\ \A f \in Fds : find_user_by_fd(f)' = find_user_by_fd(f) /\ GroupsOf(f)' = GroupsOf(f)
  BY <1>1 DEF Addresses, find_user_by_fd, GroupsOf
<1>3. AgreePart'
  <2>1. \A f \in Fds : f = cn.fd => Agreed(ctx, cn, find_user_by_fd(f)', GroupsOf(f)', Addresses')
    BY <1>2
  <2> QED
    BY <1>1, <1>2, <2>1, OneAgrees
<1>4. AccountsOpen'
  BY <1>1, <1>2 DEF AgreeInv, AccountsOpen
<1> QED
  BY <1>3, <1>4 DEF AgreeInv

LEMMA AgreedNow ==
  ASSUME AgreeInv, NEW c \in Clients
  PROVE  /\ client[c] \in ClientContext /\ conn[c] \in Connection /\ Matched(client[c], conn[c])
         /\ Polite(client[c], conn[c])
         /\ \A f \in Fds : f = conn[c].fd =>
              Agreed(client[c], conn[c], find_user_by_fd(f), GroupsOf(f), Addresses)
         /\ Alive(c) <=> Up(client[c])
BY Channels DEF AgreeInv, AgreePart

-----------------------------------------------------------------------------
(***************************************************************************)
(* The steps of the clients.                                               *)
(***************************************************************************)
LEMMA ConnectAgrees ==
  ASSUME AgreeInv, MeshInv', NEW c \in Clients, net_connect(c)
  PROVE  AgreeInv'
<1>1. /\ client[c] \in ClientContext /\ conn[c] \in Connection
      /\ client[c].state = "DISCONNECTED" /\ client[c].request = Nothing
      /\ client[c].active_groups = << >> /\ conn[c].s2c = << >> /\ conn[c].fd = NoFd
  BY AgreedNow DEF net_connect, Matched, Polite, Up
<1>2. PICK ctx, cn : /\ client' = [client EXCEPT ![c] = ctx] /\ conn' = [conn EXCEPT ![c] = cn]
                     /\ ctx.request = Nothing /\ ctx.active_groups = << >>
                     /\ ctx.state \in {"CONNECTED", "GONE"}
                     /\ cn.fd = NoFd /\ cn.s2c = << >>
  <2>1. CASE /\ client' = [client EXCEPT ![c].state = "CONNECTED"]
             /\ conn' = [conn EXCEPT ![c].closed = FALSE]
    <3> DEFINE x == [client[c] EXCEPT !.state = "CONNECTED"]
               k == [conn[c] EXCEPT !.closed = FALSE]
    <3>1. client' = [client EXCEPT ![c] = x] /\ conn' = [conn EXCEPT ![c] = k]
      BY <2>1
    <3>2. x.request = Nothing /\ x.active_groups = << >> /\ x.state = "CONNECTED"
      BY <1>1 DEF ClientContext
    <3>3. k.fd = NoFd /\ k.s2c = << >>
      BY <1>1 DEF Connection
    <3> HIDE DEF x, k
    <3> QED
      BY <3>1, <3>2, <3>3
  <2>2. CASE client' = [client EXCEPT ![c].state = "GONE"] /\ UNCHANGED conn
    <3> DEFINE x == [client[c] EXCEPT !.state = "GONE"]
    <3>1. client' = [client EXCEPT ![c] = x] /\ conn' = [conn EXCEPT ![c] = conn[c]]
      BY <2>2 DEF AgreeInv, MeshInv, MatchedPart
    <3>2. x.request = Nothing /\ x.active_groups = << >> /\ x.state = "GONE"
      BY <1>1 DEF ClientContext
    <3> HIDE DEF x
    <3> QED
      BY <1>1, <3>1, <3>2
  <2> QED
    BY <2>1, <2>2 DEF net_connect
<1>3. Polite(ctx, cn)
  BY <1>2 DEF Polite
<1>4. \A f \in Fds : f # cn.fd
  BY <1>2, FdsAssumption
<1>5. UNCHANGED vars /\ cn.fd = conn[c].fd
  BY <1>1, <1>2 DEF net_connect
<1> QED
  BY <1>2, <1>3, <1>4, <1>5, ClientAgrees

LEMMA GoneAgrees ==
  ASSUME AgreeInv, MeshInv', NEW c \in Clients, NEW cause, Gone(c, cause), UNCHANGED vars
  PROVE  AgreeInv'
<1> DEFINE ctx == [state |-> "GONE", username |-> Nothing, active_groups |-> << >>, request |-> Nothing]
           cn == [conn[c] EXCEPT !.hungup = @ \/ conn[c].s2c # << >>]
<1>1. client' = [client EXCEPT ![c] = ctx] /\ conn' = [conn EXCEPT ![c] = cn]
  BY DEF Gone
<1>2. conn[c] \in Connection
  BY AgreedNow
<1>3. cn.fd = conn[c].fd /\ cn.c2s = conn[c].c2s
  BY <1>2 DEF Connection
<1>4. ctx.state = "GONE" /\ ctx.request = Nothing /\ ~Up(ctx)
  BY DEF Up
<1> HIDE DEF ctx, cn
<1>5. Polite(ctx, cn)
  BY <1>4 DEF Polite
<1>6. \A f \in Fds : f = cn.fd => Agreed(ctx, cn, find_user_by_fd(f), GroupsOf(f), Addresses)
  BY <1>3, <1>4, AgreedNow DEF Agreed, OneAccount
<1> QED
  BY <1>1, <1>3, <1>5, <1>6, ClientAgrees

LEMMA SendAgrees ==
  ASSUME AgreeInv, MeshInv', NEW c \in Clients, Request(c)
  PROVE  AgreeInv'
<1>1. PICK msg \in Menu(c) : net_send(c, msg)
  BY DEF Request
<1>2. /\ client[c] \in ClientContext /\ conn[c] \in Connection /\ Matched(client[c], conn[c])
      /\ Polite(client[c], conn[c])
      /\ \A f \in Fds : f = conn[c].fd =>
           Agreed(client[c], conn[c], find_user_by_fd(f), GroupsOf(f), Addresses)
      /\ Up(client[c]) /\ client[c].request = Nothing
  BY <1>1, AgreedNow DEF net_send, Waits, Idle
<1>3. msg \in MenuOf(client[c]) /\ msg # Nothing
  BY <1>2, MenuIsSendable, SendableIsRequest DEF Menu, MenuOf
<1>4. CASE conn[c].reset /\ Gone(c, msg.tag)
  BY <1>1, <1>4, GoneAgrees DEF net_send
<1>5. CASE /\ client' = [client EXCEPT ![c].request = msg]
           /\ conn' = IF conn[c].closed THEN [conn EXCEPT ![c].reset = TRUE]
                                        ELSE [conn EXCEPT ![c].c2s = Append(@, msg)]
  <2> DEFINE ctx == [client[c] EXCEPT !.request = msg]
  <2>1. /\ client' = [client EXCEPT ![c] = ctx]
        /\ ctx.request = msg /\ Up(ctx) /\ ctx.state = client[c].state
        /\ ctx.username = client[c].username /\ ctx.active_groups = client[c].active_groups
    BY <1>2, <1>5 DEF ClientContext, Up
  <2> HIDE DEF ctx
  <2>2. MenuOf(ctx) = MenuOf(client[c])
    BY <2>1 DEF MenuOf
  <2>3. CASE conn[c].closed
    <3> DEFINE cn == [conn[c] EXCEPT !.reset = TRUE]
    <3>1. /\ conn' = [conn EXCEPT ![c] = cn] /\ cn.fd = conn[c].fd /\ cn.closed
      BY <1>2, <1>5, <2>3 DEF Connection
    <3>2. cn.fd = NoFd
      BY <1>2, <2>3, <3>1 DEF Matched
    <3> HIDE DEF cn
    <3>3. Polite(ctx, cn)
      BY <1>3, <2>1, <2>2, <3>1 DEF Polite, Up
    <3> QED
      BY <1>1, <2>1, <3>1, <3>2, <3>3, FdsAssumption, ClientAgrees DEF net_send
  <2>4. CASE ~conn[c].closed
    <3> DEFINE cn == [conn[c] EXCEPT !.c2s = Append(@, msg)]
    <3>1. conn[c].c2s = << >> /\ conn[c].s2c = << >>
      BY <1>2, <2>4 DEF Matched
    <3>2. Append(conn[c].c2s, msg) = <<msg>>
      BY <3>1
    <3>3. /\ conn' = [conn EXCEPT ![c] = cn] /\ cn.fd = conn[c].fd
          /\ cn.c2s = <<msg>> /\ cn.s2c = << >> /\ ~cn.closed
      BY <1>2, <1>5, <2>4, <3>1, <3>2 DEF Connection
    <3> HIDE DEF cn
    <3>4. Polite(ctx, cn)
      BY <1>2, <1>3, <2>1, <2>2, <2>4, <3>3 DEF Polite, Up
    <3>5. ASSUME NEW f \in Fds, f = cn.fd
          PROVE  Agreed(ctx, cn, find_user_by_fd(f), GroupsOf(f), Addresses)
      <4>1. Agreed(client[c], conn[c], find_user_by_fd(f), GroupsOf(f), Addresses)
        BY <1>2, <3>3, <3>5
      <4>2. Tells(client[c], find_user_by_fd(f), GroupsOf(f), Addresses)
        BY <1>2, <3>1, <4>1 DEF Agreed, View
      <4>3. View(ctx, cn) = ctx
        BY <3>3 DEF View
      <4>4. Tells(ctx, find_user_by_fd(f), GroupsOf(f), Addresses)
        BY <2>1, <4>2 DEF Tells
      <4>5. msg.tag = "LOGIN" => client[c].state = "CONNECTED"
        BY <1>3 DEF MenuOf, Screen2
      <4>6. OneAccount(cn, find_user_by_fd(f))
        <5>1. Head(<<msg>>) = msg
          OBVIOUS
        <5>2. msg.tag = "LOGIN" => find_user_by_fd(f) = {}
          BY <4>2, <4>5 DEF Tells
        <5> QED
          BY <3>3, <4>1, <5>1, <5>2 DEF Agreed, OneAccount
      <4> QED
        BY <4>3, <4>4, <4>6 DEF Agreed
    <3> QED
      BY <1>1, <2>1, <3>3, <3>4, <3>5, ClientAgrees DEF net_send
  <2> QED
    BY <2>3, <2>4
<1> QED
  BY <1>1, <1>4, <1>5 DEF net_send

LEMMA AnswerAgrees ==
  ASSUME AgreeInv, MeshInv', NEW c \in Clients, net_recv(c) \/ net_recv_fails(c)
  PROVE  AgreeInv'
<1>1. /\ client[c] \in ClientContext /\ conn[c] \in Connection /\ Matched(client[c], conn[c])
      /\ Polite(client[c], conn[c])
      /\ \A f \in Fds : f = conn[c].fd =>
           Agreed(client[c], conn[c], find_user_by_fd(f), GroupsOf(f), Addresses)
  BY AgreedNow
<1>2. client[c].request # Nothing /\ client[c].request \in Sendable /\ Up(client[c])
  BY <1>1 DEF net_recv, net_recv_fails, Matched
<1>3. CASE net_recv(c)
  <2> DEFINE rep == Head(conn[c].s2c)
             ctx == AfterAnswer(client[c], rep.tag = "SUCCESS", rep.addr)
             cn == [conn[c] EXCEPT !.s2c = Tail(@)]
  <2>1. conn[c].s2c \in Seq(Reply) /\ conn[c].s2c # << >>
    BY <1>1, <1>3 DEF net_recv, Connection
  <2>2. rep \in Reply /\ Tail(conn[c].s2c) \in Seq(Reply) /\ Len(Tail(conn[c].s2c)) = Len(conn[c].s2c) - 1
    BY <2>1, HeadTailProperties
  <2>3. ctx.request = Nothing /\ ctx.state # "DISCONNECTED"
    <3>1. rep.addr \in Addrs \cup {0} /\ (rep.tag = "SUCCESS") \in BOOLEAN
      BY <2>2 DEF Reply
    <3> HIDE DEF rep
    <3> QED
      BY <1>1, <1>2, <3>1, AnswerType
  <2>4. client' = [client EXCEPT ![c] = ctx] /\ conn' = [conn EXCEPT ![c] = cn]
    BY <1>3 DEF net_recv, Answer
  <2>5. ctx = View(client[c], conn[c])
    BY <2>1 DEF View
  <2>6. /\ cn.fd = conn[c].fd /\ cn.c2s = conn[c].c2s /\ cn.closed = conn[c].closed
        /\ cn.s2c = Tail(conn[c].s2c)
    BY <1>1 DEF Connection
  <2> HIDE DEF rep, ctx, cn
  <2>7. Polite(ctx, cn)
    BY <1>1, <1>2, <2>1, <2>3, <2>6 DEF Polite
  <2>8. ASSUME NEW f \in Fds, f = cn.fd
        PROVE  Agreed(ctx, cn, find_user_by_fd(f), GroupsOf(f), Addresses)
    <3>1. Agreed(client[c], conn[c], find_user_by_fd(f), GroupsOf(f), Addresses)
      BY <1>1, <2>6, <2>8
    <3>2. ~conn[c].closed
      BY <1>1, <2>6, <2>8, FdsAssumption DEF Matched
    <3>3. Len(conn[c].s2c) = 1
      BY <1>1, <1>2, <2>1, <3>2 DEF Matched
    <3>4. cn.s2c = << >>
      <4> DEFINE rest == Tail(conn[c].s2c)
      <4>1. rest \in Seq(Reply) /\ Len(rest) = 1 - 1
        BY <2>2, <3>3
      <4>2. cn.s2c = rest
        BY <2>6
      <4> HIDE DEF rest
      <4> QED
        BY <4>1, <4>2, EmptySeq
    <3>5. View(ctx, cn) = View(client[c], conn[c])
      BY <2>5, <3>4 DEF View
    <3> QED
      BY <1>2, <2>6, <3>1, <3>5 DEF Agreed, OneAccount
  <2> QED
    BY <1>3, <2>4, <2>6, <2>7, <2>8, ClientAgrees DEF net_recv
<1>4. CASE net_recv_fails(c)
  <2> DEFINE ctx == AfterAnswer(client[c], FALSE, 0)
  <2>1. ctx.request = Nothing /\ ctx.state # "DISCONNECTED"
    BY <1>1, <1>2, AnswerType
  <2>2. client' = [client EXCEPT ![c] = ctx] /\ conn' = [conn EXCEPT ![c] = conn[c]]
    BY <1>4 DEF net_recv_fails, Answer, AgreeInv, MeshInv, MatchedPart
  <2> HIDE DEF ctx
  <2>3. conn[c].closed /\ conn[c].fd = NoFd
    BY <1>1, <1>4 DEF net_recv_fails, Matched
  <2>4. Polite(ctx, conn[c])
    BY <2>1, <2>3 DEF Polite
  <2>5. \A f \in Fds : f # conn[c].fd
    BY <2>3, FdsAssumption
  <2>6. UNCHANGED vars
    BY <1>4 DEF net_recv_fails
  <2> QED
    BY <2>2, <2>4, <2>5, <2>6, ClientAgrees
<1> QED
  BY <1>3, <1>4

-----------------------------------------------------------------------------
(***************************************************************************)
(* The steps of the loop.                                                  *)
(***************************************************************************)
LEMMA AcceptAgrees ==
  ASSUME AgreeInv, MeshInv', NEW c \in Clients, accept(c)
  PROVE  AgreeInv'
<1>1. /\ client[c] \in ClientContext /\ conn[c] \in Connection /\ Matched(client[c], conn[c])
      /\ Polite(client[c], conn[c])
      /\ conn[c].fd = NoFd /\ ~conn[c].closed /\ client[c].state # "DISCONNECTED"
  BY AgreedNow DEF accept, Matched
<1>2. PICK fd \in Fds \ client_fds :
        \/ accept_client(fd) /\ conn' = [conn EXCEPT ![c].fd = fd]
        \/ reject_client(fd) /\ reject(c)
  BY DEF accept
<1>3. UNCHANGED <<user_map, group_map>> /\ client_fds \subseteq client_fds'
  BY <1>2 DEF accept_client, reject_client
<1>4. /\ Addresses' = Addresses
      /\ \A e \in Fds : find_user_by_fd(e)' = find_user_by_fd(e) /\ GroupsOf(e)' = GroupsOf(e)
  BY <1>3 DEF Addresses, find_user_by_fd, GroupsOf
<1>5. AccountsOpen'
  BY <1>3, <1>4 DEF AgreeInv, AccountsOpen
<1>6. client' = [client EXCEPT ![c] = client[c]]
  BY DEF accept, AgreeInv, MeshInv, MatchedPart
<1>7. CASE accept_client(fd) /\ conn' = [conn EXCEPT ![c].fd = fd]
  <2> DEFINE cn == [conn[c] EXCEPT !.fd = fd]
  <2>1. /\ conn' = [conn EXCEPT ![c] = cn] /\ cn.fd = fd
        /\ cn.c2s = conn[c].c2s /\ cn.s2c = conn[c].s2c
    BY <1>1, <1>7 DEF Connection
  <2> HIDE DEF cn
  <2>2. Polite(client[c], cn)
    BY <1>1, <2>1, FdsAssumption DEF Polite
  <2>3. find_user_by_fd(fd) = {} /\ GroupsOf(fd) = {}
    BY DEF AgreeInv, AccountsOpen, MeshInv, IInv, MembersAuthenticated, GroupsOf
  <2>4. Agreed(client[c], cn, {}, {}, Addresses)
    <3>1. OneAccount(cn, {})
      BY DEF OneAccount
    <3>2. ASSUME Up(client[c])
          PROVE  Tells(View(client[c], cn), {}, {}, Addresses)
      <4>1. client[c].state # "LOGGED_IN" /\ client[c].active_groups = << >> /\ conn[c].s2c = << >>
        BY <1>1, <3>2 DEF Polite
      <4>2. View(client[c], cn) = client[c]
        BY <2>1, <4>1 DEF View
      <4> QED
        BY <4>1, <4>2, HoldsNothing DEF Tells
    <3> QED
      BY <3>1, <3>2 DEF Agreed
  <2>5. \A f \in Fds : f = cn.fd => Agreed(client[c], cn, find_user_by_fd(f)', GroupsOf(f)', Addresses')
    BY <1>4, <2>1, <2>3, <2>4
  <2>6. AgreePart'
    BY <1>3, <1>4, <1>6, <2>1, <2>2, <2>5, OneAgrees
  <2> QED
    BY <1>5, <2>6 DEF AgreeInv
<1>8. CASE reject_client(fd) /\ reject(c)
  <2> DEFINE k == Closed(conn[c])
             cn == [k EXCEPT !.s2c = <<reply'>>]
  <2>1. k.fd = NoFd /\ k.closed
    BY <1>1 DEF Closed, Connection
  <2>2. conn' = [conn EXCEPT ![c] = cn]
    BY <1>8 DEF reject
  <2>3. cn.fd = NoFd /\ cn.closed
    BY <1>1 DEF Closed, Connection
  <2> HIDE DEF cn, k
  <2>4. \E x : conn' = [conn EXCEPT ![c] = x] /\ x.fd = NoFd /\ x.closed
    BY <2>2, <2>3
  <2>5. PICK x : conn' = [conn EXCEPT ![c] = x] /\ x.fd = NoFd /\ x.closed
    BY <2>4
  <2>6. Polite(client[c], x)
    BY <1>1, <2>5 DEF Polite
  <2>7. \A f \in Fds : f = x.fd => Agreed(client[c], x, find_user_by_fd(f)', GroupsOf(f)', Addresses')
    BY <2>5, FdsAssumption
  <2>8. AgreePart'
    <3>1. \A e \in Fds : e # conn[c].fd /\ e # x.fd =>
            /\ find_user_by_fd(e)' = find_user_by_fd(e)
            /\ ~AllocMayFail => GroupsOf(e)' = GroupsOf(e)
      BY <1>4
    <3>2. ~AllocMayFail =>
            \A g \in DOMAIN group_map \cap DOMAIN group_map' : group_map'[g].addr = group_map[g].addr
      BY <1>3
    <3> QED
      BY <1>6, <2>5, <2>6, <2>7, <3>1, <3>2, OneAgrees
  <2> QED
    BY <1>5, <2>8 DEF AgreeInv
<1> QED
  BY <1>2, <1>7, <1>8

\* Closing a connection that is cleaned up, whatever the client is.
LEMMA CloseAgrees ==
  ASSUME AgreeInv, MeshInv', NEW c \in Clients, NEW f \in Fds, f = conn[c].fd, NEW cn,
         UNCHANGED client, conn' = [conn EXCEPT ![c] = cn], cn.fd = NoFd, cn.closed,
         cleanup_client(f), client_fds' = client_fds \ {f}
  PROVE  AgreeInv'
<1>1. /\ Matched(client[c], conn[c]) /\ Polite(client[c], conn[c])
      /\ \A u, v \in find_user_by_fd(f) : u = v
  BY AgreedNow DEF Agreed, OneAccount
<1>2. client[c].state # "DISCONNECTED"
  BY <1>1, FdsAssumption DEF Matched
<1>3. UsersBecome(f, {})
  BY <1>1, CleanupClears DEF AgreeInv, MeshInv, IInv
<1>4. GroupsBecome(f, {})
  BY CleanupBecomes DEF AgreeInv, MeshInv
<1>5. Polite(client[c], cn)
  BY <1>1, <1>2 DEF Polite
<1>6. client' = [client EXCEPT ![c] = client[c]]
  BY DEF AgreeInv, MeshInv, MatchedPart
<1>7. \A e \in Fds : e # f => find_user_by_fd(e)' = find_user_by_fd(e) /\ GroupsOf(e)' = GroupsOf(e)
  BY <1>3, <1>4 DEF UsersBecome, GroupsBecome, OthersUntouched
<1>8. \A e \in Fds : e # cn.fd
  BY FdsAssumption
<1>9. AgreePart'
  BY <1>4, <1>5, <1>6, <1>7, <1>8, OneAgrees DEF GroupsBecome
<1>10. AccountsOpen'
  BY <1>3, <1>7 DEF AgreeInv, AccountsOpen, UsersBecome
<1> QED
  BY <1>9, <1>10 DEF AgreeInv

LEMMA EofAgrees ==
  ASSUME AgreeInv, MeshInv', NEW c \in Clients, read_eof(c)
  PROVE  AgreeInv'
<1>1. conn[c] \in Connection /\ conn[c].fd # NoFd
  BY AgreedNow DEF read_eof
<1>2. PICK f \in Fds : f = conn[c].fd
  BY <1>1 DEF Connection
<1> DEFINE cn == Closed(conn[c])
<1>3. conn' = [conn EXCEPT ![c] = cn] /\ cn.fd = NoFd /\ cn.closed
  BY <1>1 DEF read_eof, Closed, Connection
<1> HIDE DEF cn
<1>4. cleanup_client(f) /\ client_fds' = client_fds \ {f} /\ UNCHANGED client
  BY <1>2 DEF read_eof, hangup, client_disconnected
<1> QED
  BY <1>2, <1>3, <1>4, CloseAgrees

LEMMA ShutdownAgrees ==
  ASSUME AgreeInv, MeshInv', shutdown
  PROVE  AgreeInv'
<1>1. ASSUME NEW c \in Clients
      PROVE  Polite(client'[c], conn'[c]) /\ \A f \in Fds : f # conn'[c].fd
  <2>1. conn[c] \in Connection /\ Matched(client[c], conn[c]) /\ Polite(client[c], conn[c])
    BY AgreedNow
  <2>2. client'[c] = client[c] /\ conn'[c] = IF conn[c].closed THEN conn[c] ELSE Closed(conn[c])
    BY DEF shutdown
  <2>3. CASE conn[c].closed
    BY <2>1, <2>2, <2>3, FdsAssumption DEF Matched
  <2>4. CASE ~conn[c].closed
    <3>1. client[c].state # "DISCONNECTED"
      BY <2>1, <2>4 DEF Matched
    <3>2. conn'[c].fd = NoFd /\ conn'[c].closed
      BY <2>1, <2>2, <2>4 DEF Closed, Connection
    <3> QED
      BY <2>1, <2>2, <3>1, <3>2, FdsAssumption DEF Polite
  <2> QED
    BY <2>3, <2>4
<1>2. AgreePart'
  BY <1>1 DEF AgreePart
<1>3. AccountsOpen'
  BY DEF shutdown, vars, AgreeInv, AccountsOpen, find_user_by_fd
<1> QED
  BY <1>2, <1>3 DEF AgreeInv

\* The users of a connection and its groups once msg has been answered, as the
\* answer tells them.
UsersTold(msg, ok, users) ==
  CASE msg.tag = "LOGIN" /\ ok -> users \cup {msg.uname}
    [] msg.tag \in {"LOGOUT", "EXIT"} -> {}
    [] OTHER -> users

GroupsTold(msg, ok, addr, mine) ==
  CASE msg.tag \in {"CREATE_GROUP", "JOIN_GROUP"} /\ addr # 0 -> mine \cup {msg.gname}
    [] msg.tag = "LEAVE_GROUP" /\ ok -> mine \ {msg.gname}
    [] msg.tag \in {"LOGOUT", "EXIT"} -> {}
    [] OTHER -> mine

\* A client that reads its answer knows what the server knows.
LEMMA AnswerTells ==
  ASSUME NEW ctx \in ClientContext, Up(ctx), ctx.request \in MenuOf(ctx), ctx.request \in Sendable,
         ctx.request.tag # "EXIT",
         NEW users, NEW mine, NEW known, Tells(ctx, users, mine, known),
         NEW ok \in BOOLEAN, NEW addr \in Addrs \cup {0}, NEW now,
         ~AllocMayFail =>
           /\ \A g \in mine : g \in GroupsTold(ctx.request, ok, addr, mine) => now[g] = known[g]
           /\ ctx.request.tag \in {"CREATE_GROUP", "JOIN_GROUP"} /\ addr # 0 =>
                /\ now[ctx.request.gname] = addr
                /\ ctx.request.tag = "CREATE_GROUP" => ctx.request.gname \notin mine
  PROVE  Tells(AfterAnswer(ctx, ok, addr), UsersTold(ctx.request, ok, users),
               GroupsTold(ctx.request, ok, addr, mine), now)
<1> DEFINE x == AfterAnswer(ctx, ok, addr)
           told == GroupsTold(ctx.request, ok, addr, mine)
<1>1. CASE ctx.request.tag = "LOGIN" /\ ok
  <2>1. x = [[ctx EXCEPT !.state = "LOGGED_IN", !.username = ctx.request.uname] EXCEPT !.request = Nothing]
    BY <1>1 DEF AfterAnswer, Outcome
  <2>2. x.state = "LOGGED_IN" /\ x.username = ctx.request.uname /\ x.active_groups = ctx.active_groups
    BY <2>1 DEF ClientContext
  <2>3. ctx.state = "CONNECTED"
    BY <1>1 DEF MenuOf, Screen2
  <2>4. users = {} /\ told = mine
    BY <1>1, <2>3 DEF Tells, GroupsTold
  <2> HIDE DEF x, told
  <2>5. UsersTold(ctx.request, ok, users) = {ctx.request.uname}
    BY <1>1, <2>4 DEF UsersTold
  <2>6. ~AllocMayFail => Holds(x.active_groups, told, now)
    BY <2>2, <2>4, HoldsSame DEF Tells, told
  <2> QED
    BY <2>2, <2>5, <2>6 DEF Tells, x, told
<1>2. CASE ctx.request.tag \in {"CREATE_GROUP", "JOIN_GROUP"} /\ addr # 0
  <2> DEFINE new == [group_name |-> ctx.request.gname, addr |-> addr]
  <2>1. x = [[ctx EXCEPT !.active_groups = Append(@, new)] EXCEPT !.request = Nothing]
    BY <1>2 DEF AfterAnswer, Outcome
  <2>2. /\ x.state = ctx.state /\ x.username = ctx.username
        /\ x.active_groups = Append(ctx.active_groups, new)
    BY <2>1 DEF ClientContext
  <2>3. UsersTold(ctx.request, ok, users) = users /\ told = mine \cup {ctx.request.gname}
    BY <1>2 DEF UsersTold, GroupsTold
  <2> HIDE DEF x
  <2>4. ASSUME ~AllocMayFail
        PROVE  Holds(x.active_groups, told, now)
    <3>1. ctx.request.gname \in Groups /\ addr \in Addrs /\ ctx.active_groups \in Sessions
      BY <1>2 DEF Sendable, ClientContext
    <3>2. ctx.request.gname \notin mine
      <4>1. CASE ctx.request.tag = "CREATE_GROUP"
        BY <1>2, <2>4, <4>1
      <4>2. CASE ctx.request.tag = "JOIN_GROUP"
        <5>1. ctx.request \in Screen2(ctx.active_groups)
          BY <4>2 DEF MenuOf, Screen1
        <5>2. ctx.request.gname \notin GroupsIn(ctx.active_groups)
          BY <4>2, <5>1 DEF Screen2
        <5> QED
          BY <2>4, <5>2 DEF Tells, Holds
      <4> QED
        BY <1>2, <4>1, <4>2
    <3>3. Holds(ctx.active_groups, mine, now)
      BY <2>3, <2>4, HoldsSame DEF Tells
    <3>4. now[ctx.request.gname] = addr
      BY <1>2, <2>4
    <3> QED
      BY <2>2, <2>3, <3>1, <3>2, <3>3, <3>4, HoldsOneMore
  <2> QED
    BY <2>2, <2>3, <2>4 DEF Tells, x
<1>3. CASE ctx.request.tag = "LEAVE_GROUP" /\ ok
  <2>1. x = [[ctx EXCEPT !.active_groups = Without(@, ctx.request.gname)] EXCEPT !.request = Nothing]
    BY <1>3 DEF AfterAnswer, Outcome
  <2>2. /\ x.state = ctx.state /\ x.username = ctx.username
        /\ x.active_groups = Without(ctx.active_groups, ctx.request.gname)
    BY <2>1 DEF ClientContext
  <2>3. UsersTold(ctx.request, ok, users) = users /\ told = mine \ {ctx.request.gname}
    BY <1>3 DEF UsersTold, GroupsTold
  <2> HIDE DEF x
  <2>4. ASSUME ~AllocMayFail
        PROVE  Holds(x.active_groups, told, now)
    <3>1. Holds(x.active_groups, told, known)
      BY <2>2, <2>3, <2>4, HoldsOneLess DEF Tells, ClientContext
    <3>2. \A g \in told : now[g] = known[g]
      BY <2>3, <2>4
    <3> QED
      BY <3>1, <3>2, HoldsSame
  <2> QED
    BY <2>2, <2>3, <2>4 DEF Tells, x
<1>4. CASE ctx.request.tag = "LOGOUT"
  <2>1. x = [[ctx EXCEPT !.state = "CONNECTED", !.username = Nothing, !.active_groups = << >>]
               EXCEPT !.request = Nothing]
    BY <1>4 DEF AfterAnswer, Outcome
  <2>2. x.state = "CONNECTED" /\ x.active_groups = << >>
    BY <2>1 DEF ClientContext
  <2>3. UsersTold(ctx.request, ok, users) = {} /\ told = {}
    BY <1>4 DEF UsersTold, GroupsTold
  <2> HIDE DEF x
  <2> QED
    BY <2>2, <2>3, HoldsNothing DEF Tells, x
<1>5. CASE /\ ~(ctx.request.tag = "LOGIN" /\ ok)
           /\ ~(ctx.request.tag \in {"CREATE_GROUP", "JOIN_GROUP"} /\ addr # 0)
           /\ ~(ctx.request.tag = "LEAVE_GROUP" /\ ok)
           /\ ctx.request.tag # "LOGOUT"
  <2>1. x = [ctx EXCEPT !.request = Nothing]
    BY <1>5 DEF AfterAnswer, Outcome
  <2>2. x.state = ctx.state /\ x.username = ctx.username /\ x.active_groups = ctx.active_groups
    BY <2>1 DEF ClientContext
  <2>3. UsersTold(ctx.request, ok, users) = users /\ told = mine
    BY <1>5 DEF UsersTold, GroupsTold
  <2> HIDE DEF x
  <2>4. ~AllocMayFail => Holds(x.active_groups, told, now)
    BY <2>2, <2>3, HoldsSame DEF Tells
  <2> QED
    BY <2>2, <2>3, <2>4 DEF Tells, x
<1> QED
  BY <1>1, <1>2, <1>3, <1>4, <1>5

LEMMA DispatchAgrees ==
  ASSUME AgreeInv, MeshInv', MeshNext, NEW c \in Clients, read_and_dispatch(c)
  PROVE  AgreeInv'
<1>1. /\ client[c] \in ClientContext /\ conn[c] \in Connection /\ Matched(client[c], conn[c])
      /\ Polite(client[c], conn[c])
      /\ conn[c].fd # NoFd /\ conn[c].c2s # << >> /\ ~conn[c].closed
  BY AgreedNow, ReadsRequest DEF read_and_dispatch, AgreeInv
<1>2. PICK f \in Fds : f = conn[c].fd
  BY <1>1 DEF Connection
<1>3. PICK msg \in Requests : msg = Head(conn[c].c2s)
  BY <1>1, ReadsRequest DEF AgreeInv
<1>4. dispatch_message(f, msg) /\ client' = client
  BY <1>2, <1>3 DEF read_and_dispatch
<1>5. Agreed(client[c], conn[c], find_user_by_fd(f), GroupsOf(f), Addresses)
  BY <1>2, AgreedNow
<1>6. client[c].state # "DISCONNECTED"
  BY <1>1 DEF Matched
<1> DEFINE read == [conn[c] EXCEPT !.c2s = Tail(@), !.s2c = Append(@, reply'),
                                   !.hungup = @ \/ ~Alive(c)]
<1>7. CASE msg.tag = "EXIT"
  <2> DEFINE cn == Closed(read)
  <2>1. conn' = [conn EXCEPT ![c] = cn]
    BY <1>3, <1>7 DEF read_and_dispatch
  <2>2. cn.fd = NoFd /\ cn.closed
    BY <1>1 DEF Closed, Connection
  <2>3. cleanup_client(f) /\ client_fds' = client_fds \ {f}
    BY <1>4, <1>7 DEF dispatch_message, handle_exit
  <2> HIDE DEF cn, read
  <2> QED
    BY <1>2, <1>4, <2>1, <2>2, <2>3, CloseAgrees
<1>8. CASE msg.tag # "EXIT"
  <2>1. conn' = [conn EXCEPT ![c] = read]
    BY <1>3, <1>8 DEF read_and_dispatch
  <2>2. Tail(conn[c].c2s) = << >>
    BY <1>1, ReadsRequest DEF AgreeInv
  <2>3. /\ read.fd = f /\ read.closed = conn[c].closed
        /\ read.c2s = << >> /\ read.s2c = Append(conn[c].s2c, reply')
    BY <1>1, <1>2, <2>2 DEF Connection
  <2> HIDE DEF read
  <2>4. PICK cn : /\ conn' = [conn EXCEPT ![c] = cn] /\ cn.fd = f /\ ~cn.closed
                  /\ cn.c2s = << >> /\ cn.s2c = Append(conn[c].s2c, reply')
    BY <1>1, <2>1, <2>3
  <2>5. UsersBecome(f, UsersAfter(f, msg))
    BY <1>4, <1>5, DispatchUsers DEF AgreeInv, MeshInv, IInv, Agreed, OneAccount
  <2>6. ~AllocMayFail => GroupsBecome(f, GroupsAfter(f, msg)) /\ AddressTold(f, msg)
    BY <1>4, DispatchBecomes DEF AgreeInv, MeshInv
  <2>7. Polite(client[c], cn)
    BY <1>1, <1>2, <1>6, <2>4 DEF Polite
  <2>8. Agreed(client[c], cn, find_user_by_fd(f)', GroupsOf(f)', Addresses')
    <3>1. OneAccount(cn, UsersAfter(f, msg))
      <4>1. msg.tag = "LOGIN" => find_user_by_fd(f) = {}
        BY <1>1, <1>3, <1>5 DEF Agreed, OneAccount
      <4> QED
        BY <1>5, <2>4, <4>1 DEF Agreed, OneAccount, UsersAfter
    <3>2. ASSUME Up(client[c])
          PROVE  Tells(View(client[c], cn), find_user_by_fd(f)', GroupsOf(f)', Addresses')
      <4>1. /\ client[c].request \in Sendable /\ client[c].request \in MenuOf(client[c])
            /\ conn[c].c2s = <<client[c].request>> /\ conn[c].s2c = << >>
        BY <1>1, <3>2 DEF Matched, Polite
      <4>2. msg = client[c].request
        BY <1>3, <4>1
      <4>3. Tells(client[c], find_user_by_fd(f), GroupsOf(f), Addresses)
        BY <1>5, <3>2, <4>1 DEF Agreed, View
      <4>4. PICK r \in Reply : r = reply'
        BY ReplyIsReply DEF AgreeInv
      <4>5. cn.s2c = <<r>>
        BY <2>4, <4>1, <4>4
      <4>6. View(client[c], cn) = AfterAnswer(client[c], r.tag = "SUCCESS", r.addr)
        BY <4>5 DEF View
      <4> DEFINE ok == r.tag = "SUCCESS"
                 mine == GroupsTold(msg, ok, r.addr, GroupsOf(f))
      <4>7. find_user_by_fd(f)' = UsersTold(msg, ok, find_user_by_fd(f))
        BY <2>5, <4>4 DEF UsersBecome, UsersAfter, UsersTold
      <4>8. ~AllocMayFail => GroupsOf(f)' = mine
        BY <2>6, <4>4 DEF GroupsBecome, GroupsAfter, GroupsTold
      <4>9. ok \in BOOLEAN /\ r.addr \in Addrs \cup {0}
        BY DEF Reply
      <4>10. ASSUME ~AllocMayFail
             PROVE  /\ \A g \in GroupsOf(f) : g \in mine => Addresses'[g] = Addresses[g]
                    /\ msg.tag \in {"CREATE_GROUP", "JOIN_GROUP"} /\ r.addr # 0 =>
                         /\ Addresses'[msg.gname] = r.addr
                         /\ msg.tag = "CREATE_GROUP" => msg.gname \notin GroupsOf(f)
        <5>1. ASSUME NEW g \in GroupsOf(f), g \in mine
              PROVE  Addresses'[g] = Addresses[g]
          <6>1. g \in DOMAIN group_map /\ g \in DOMAIN group_map'
            BY <4>8, <4>10, <5>1 DEF GroupsOf
          <6> QED
            BY <2>6, <4>10, <6>1 DEF GroupsBecome, Addresses
        <5>2. AddressTold(f, msg)
          BY <2>6, <4>10
        <5> QED
          BY <4>4, <5>1, <5>2 DEF AddressTold, Addresses
      <4> HIDE DEF ok, mine
      <4>11. \A now : now = Addresses' =>
               Tells(AfterAnswer(client[c], ok, r.addr), UsersTold(msg, ok, find_user_by_fd(f)), mine, now)
        BY <1>1, <1>8, <3>2, <4>1, <4>2, <4>3, <4>9, <4>10, AnswerTells DEF mine
      <4>12. Tells(View(client[c], cn), find_user_by_fd(f)', mine, Addresses')
        BY <4>6, <4>7, <4>11 DEF ok
      <4> QED
        BY <4>8, <4>12 DEF Tells
    <3> QED
      BY <2>5, <3>1, <3>2 DEF Agreed, UsersBecome
  <2>9. client_fds' = client_fds /\ f \in client_fds
    BY <1>1, <1>2, <1>4, <1>8, DispatchEnds DEF AgreeInv, MeshInv, EndsPart
  <2>10. AccountsOpen'
    BY <2>5, <2>9 DEF AgreeInv, AccountsOpen, UsersBecome
  <2>11. client' = [client EXCEPT ![c] = client[c]]
    BY <1>4 DEF AgreeInv, MeshInv, MatchedPart
  <2>12. \A e \in Fds : e # conn[c].fd /\ e # cn.fd =>
           /\ find_user_by_fd(e)' = find_user_by_fd(e)
           /\ ~AllocMayFail => GroupsOf(e)' = GroupsOf(e)
    BY <1>2, <2>5, <2>6 DEF UsersBecome, GroupsBecome, OthersUntouched
  <2>13. ~AllocMayFail =>
           \A g \in DOMAIN group_map \cap DOMAIN group_map' : group_map'[g].addr = group_map[g].addr
    BY <2>6 DEF GroupsBecome
  <2>14. \A e \in Fds : e = cn.fd =>
           Agreed(client[c], cn, find_user_by_fd(e)', GroupsOf(e)', Addresses')
    BY <2>4, <2>8
  <2>15. AgreePart'
    BY <2>4, <2>7, <2>11, <2>12, <2>13, <2>14, OneAgrees
  <2> QED
    BY <2>10, <2>15 DEF AgreeInv
<1> QED
  BY <1>7, <1>8

-----------------------------------------------------------------------------
(***************************************************************************)
(* The theorems.                                                           *)
(***************************************************************************)
LEMMA InitAgrees == MeshInit => AgreeInv
<1> SUFFICES ASSUME MeshInit PROVE AgreeInv
  OBVIOUS
<1>1. MeshInv
  BY InitMesh
<1>2. AgreePart
  <2> SUFFICES ASSUME NEW c \in Clients
               PROVE  Polite(client[c], conn[c]) /\ \A f \in Fds : f # conn[c].fd
    BY DEF AgreePart
  <2>1. /\ client[c].request = Nothing /\ client[c].state = "DISCONNECTED"
        /\ client[c].active_groups = << >> /\ conn[c].s2c = << >> /\ conn[c].fd = NoFd
    BY DEF MeshInit
  <2> QED
    BY <2>1, FdsAssumption DEF Polite
<1>3. AccountsOpen
  BY DEF MeshInit, Init, AccountsOpen, find_user_by_fd
<1> QED
  BY <1>1, <1>2, <1>3 DEF AgreeInv

LEMMA AgreeSteps == AgreeInv /\ [MeshNext]_meshvars => AgreeInv'
<1> SUFFICES ASSUME AgreeInv, [MeshNext]_meshvars PROVE AgreeInv'
  OBVIOUS
<1>1. MeshInv'
  BY MeshSteps DEF AgreeInv
<1>2. CASE MeshNext
  <2>1. ASSUME NEW c \in Clients, Killed(c)
        PROVE  AgreeInv'
    BY <1>1, <2>1, GoneAgrees DEF Killed
  <2> QED
    BY <1>1, <1>2, <2>1, ConnectAgrees, SendAgrees, AnswerAgrees, AcceptAgrees, DispatchAgrees, EofAgrees,
       ShutdownAgrees DEF MeshNext
<1>3. CASE UNCHANGED meshvars
  <2>1. UNCHANGED <<client_fds, user_map, group_map, client, conn>>
    BY <1>3 DEF meshvars, vars
  <2>2. Addresses' = Addresses
        /\ \A f \in Fds : find_user_by_fd(f)' = find_user_by_fd(f) /\ GroupsOf(f)' = GroupsOf(f)
    BY <2>1 DEF Addresses, find_user_by_fd, GroupsOf
  <2> QED
    BY <1>1, <2>1, <2>2 DEF AgreeInv, AgreePart, AccountsOpen
<1> QED
  BY <1>2, <1>3

\* What the server holds of a connection (user_map, group_map) is what its
\* client will know when the answer on its way is read.
THEOREM Agreement == MeshSpec => []AgreeInv
BY InitAgrees, AgreeSteps, PTL DEF MeshSpec

\* A client between two requests, and what its connection is in the tables.
LEMMA SettledAgrees ==
  ASSUME AgreeInv, NEW c \in Clients, Settled(c)
  PROVE  Tells(client[c], find_user_by_fd(conn[c].fd), GroupsOf(conn[c].fd), Addresses)
<1>1. /\ Matched(client[c], conn[c]) /\ Up(client[c]) /\ conn[c] \in Connection
      /\ client[c].request = Nothing /\ conn[c].fd # NoFd
  BY AgreedNow DEF Settled, Idle
<1>2. conn[c].s2c = << >>
  BY <1>1 DEF Matched
<1>3. PICK f \in Fds : f = conn[c].fd
  BY <1>1 DEF Connection
<1>4. Agreed(client[c], conn[c], find_user_by_fd(f), GroupsOf(f), Addresses)
  BY <1>3, AgreedNow
<1> QED
  BY <1>1, <1>2, <1>3, <1>4 DEF Agreed, View

\* handle_login and the first screen agree on who is logged in where: the menu
\* never asks for a second account on a connection, whatever answers are lost.
THEOREM LoginsAgree == MeshSpec => []LoginsMatch
<1>1. AgreeInv => LoginsMatch
  BY SettledAgrees DEF LoginsMatch, Tells
<1> QED
  BY <1>1, Agreement, PTL

\* With these clients cleanup_client's one user per descriptor is enough: no
\* account stays logged in on a connection that is closed (server.h:48).
THEOREM NoAccountLeftBehind == MeshSpec => []NoStaleSession
<1>1. AgreeInv => NoStaleSession
  <2> SUFFICES ASSUME AgreeInv, NEW u \in DOMAIN user_map, user_map[u].logged_in
               PROVE  user_map[u].socket_fd \in client_fds
    BY DEF NoStaleSession
  <2>1. user_map[u].socket_fd # NoFd /\ user_map[u] \in UserRecord
    BY DEF AgreeInv, MeshInv, IInv, UInv, UType, LoginConsistent
  <2>2. PICK f \in Fds : f = user_map[u].socket_fd
    BY <2>1 DEF UserRecord
  <2>3. u \in find_user_by_fd(f)
    BY <2>2 DEF find_user_by_fd
  <2> QED
    BY <2>2, <2>3 DEF AgreeInv, AccountsOpen
<1> QED
  BY <1>1, Agreement, PTL

LEMMA SessionsSettled ==
  ASSUME ~AllocMayFail, AgreeInv
  PROVE  SessionsMatch
<1> SUFFICES ASSUME NEW c \in Clients, Settled(c)
             PROVE  /\ {<<s.group_name, s.addr>> : s \in ToSet(client[c].active_groups)}
                         = {<<g, group_map[g].addr>> : g \in GroupsOf(conn[c].fd)}
                    /\ Len(client[c].active_groups) = Cardinality(GroupsOf(conn[c].fd))
  BY DEF SessionsMatch
<1> DEFINE sessions == client[c].active_groups
           mine == GroupsOf(conn[c].fd)
<1>1. Holds(sessions, mine, Addresses)
  BY SettledAgrees DEF Tells
<1>2. sessions \in Sessions
  BY AgreedNow DEF ClientContext
<1>3. \A g \in mine : Addresses[g] = group_map[g].addr
  BY DEF GroupsOf, Addresses
<1> HIDE DEF sessions, mine
<1>4. Len(sessions) = Cardinality(mine)
  BY <1>1, <1>2, HoldsCounts
<1>5. \A s \in ToSet(sessions) : s.group_name \in mine /\ s.addr = group_map[s.group_name].addr
  BY <1>1, <1>3 DEF Holds, GroupsIn, ToSet
<1>6. \A g \in mine : \E s \in ToSet(sessions) : s.group_name = g
  BY <1>1 DEF Holds, GroupsIn
<1>7. {<<s.group_name, s.addr>> : s \in ToSet(sessions)} = {<<g, group_map[g].addr>> : g \in mine}
  <2>1. \A s \in ToSet(sessions) :
          <<s.group_name, s.addr>> \in {<<g, group_map[g].addr>> : g \in mine}
    BY <1>5
  <2>2. \A g \in mine :
          <<g, group_map[g].addr>> \in {<<s.group_name, s.addr>> : s \in ToSet(sessions)}
    BY <1>5, <1>6
  <2> QED
    BY <2>1, <2>2
<1> QED
  BY <1>4, <1>7 DEF sessions, mine

\* While allocations succeed, a client at rest has exactly the sessions the
\* server's member lists say, on the addresses of those groups: the array of
\* client.h and group_map never drift apart, in any history of answers.
THEOREM SessionsAgree ==
  ASSUME ~AllocMayFail
  PROVE  MeshSpec => []SessionsMatch
<1>1. AgreeInv => SessionsMatch
  BY SessionsSettled
<1> QED
  BY <1>1, Agreement, PTL

\* While allocations succeed, the windows of two clients at rest are on one
\* address only for one group: a reused address has left every session first.
THEOREM WindowsApart ==
  ASSUME ~AllocMayFail
  PROVE  MeshSpec => []NoCrossTalk
<1>1. AgreeInv => NoCrossTalk
  <2> SUFFICES ASSUME AgreeInv, NEW c \in Clients, NEW d \in Clients, Settled(c), Settled(d),
                      NEW s \in ToSet(client[c].active_groups), NEW t \in ToSet(client[d].active_groups),
                      s.addr = t.addr
               PROVE  s.group_name = t.group_name
    BY DEF NoCrossTalk
  <2>1. ASSUME NEW b \in Clients, Settled(b), NEW r \in ToSet(client[b].active_groups)
        PROVE  r.group_name \in DOMAIN group_map /\ r.addr = group_map[r.group_name].addr
    <3>1. Holds(client[b].active_groups, GroupsOf(conn[b].fd), Addresses)
      BY <2>1, SettledAgrees DEF Tells
    <3>2. r.group_name \in GroupsOf(conn[b].fd) /\ r.addr = Addresses[r.group_name]
      BY <3>1 DEF Holds, GroupsIn, ToSet
    <3> QED
      BY <3>2 DEF GroupsOf, Addresses
  <2>2. NoSharedAddress
    BY DEF AgreeInv, MeshInv, IInv, GInv
  <2> QED
    BY <2>1, <2>2 DEF NoSharedAddress
<1> QED
  BY <1>1, Agreement, PTL
=============================================================================
