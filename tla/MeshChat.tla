------------------------------ MODULE MeshChat ------------------------------
(***************************************************************************)
(* The whole chat: client processes (client_ui.c, client_mng.c,            *)
(* client_net.c) that talk to the server of Server over one TCP connection *)
(* each.  A client sends one request and blocks until the answer is there  *)
(* (net_send_recv), so it is a request in flight, at most, and a reply.    *)
(*                                                                         *)
(* Client processes die, by Ctrl-C, by closing their terminal or by        *)
(* SIGPIPE, and the server is stopped.  The chat windows are processes of  *)
(* their own: they outlive a client that does not kill them.  A client     *)
(* process is started once; a restart is another member of Clients.        *)
(***************************************************************************)
EXTENDS Server

CONSTANTS
  Clients,     \* the client processes
  Nothing      \* no request, no user name

ASSUME NothingAssumption == Nothing \notin Requests \cup Users

VARIABLES
  client,   \* the ClientContext of each client, and the request it waits on
  conn,     \* the TCP connection of each client
  running,  \* the server's flag: FALSE once it has shut down
  orphans   \* windows whose client died: their address, and what it was doing

meshvars == <<vars, client, conn, running, orphans>>

Sessions == Seq([group_name : Groups, addr : Addrs])

\* username and active_groups are those of client.h; LOGGED_IN and CONNECTED too.
ClientContext ==
  [state : {"DISCONNECTED", "CONNECTED", "LOGGED_IN", "GONE"},
   username : Users \cup {Nothing}, active_groups : Sessions, request : Requests \cup {Nothing}]

\* fd is the server's end, NoFd before accept and after close; closed: the
\* server's end is closed or never was; reset and hungup: a RST has reached
\* the client, or the server, and the next write there raises SIGPIPE.
Connection ==
  [fd : Fds \cup {NoFd}, c2s : Seq(Requests), s2c : Seq(Reply),
   closed : BOOLEAN, reset : BOOLEAN, hungup : BOOLEAN]

Alive(c) == client[c].state \in {"CONNECTED", "LOGGED_IN"}
Idle(c) == Alive(c) /\ client[c].request = Nothing
GroupsIn(sessions) == {s.group_name : s \in ToSet(sessions)}
WindowsOf(c, cause) == [addr : {s.addr : s \in ToSet(client[c].active_groups)}, cause : {cause}]

-----------------------------------------------------------------------------
(***************************************************************************)
(* The client: one menu choice is a request sent and, later, its answer.   *)
(***************************************************************************)
\* With no server to connect to, main() returns.
net_connect(c) ==
  /\ client[c].state = "DISCONNECTED"
  /\ \/ /\ running
        /\ client' = [client EXCEPT ![c].state = "CONNECTED"]
        /\ conn' = [conn EXCEPT ![c].closed = FALSE]
     \/ /\ ~running
        /\ client' = [client EXCEPT ![c].state = "GONE"]
        /\ UNCHANGED conn
  /\ UNCHANGED <<vars, running, orphans>>

\* What the two screens let the user send.  The builders of protocol.c refuse
\* empty and overlong names, so nothing a client sends fails to parse.
Screen1 == [tag : {"REGISTER", "LOGIN"}, uname : Users, pass : Passwords] \cup [tag : {"EXIT"}]
Screen2(sessions) ==
  [tag : {"LOGOUT"}]
    \cup [tag : {"LEAVE_GROUP"}, gname : GroupsIn(sessions)]
    \cup (IF Len(sessions) < MaxGroups
          THEN [tag : {"CREATE_GROUP"}, gname : Groups]
                 \cup [tag : {"JOIN_GROUP"}, gname : Groups \ GroupsIn(sessions)]
          ELSE {})

\* Seeded fault: the first screen's choices are there on the second.
Menu_Both(c) == Screen1 \cup Screen2(client[c].active_groups)

Menu(c) ==
  IF client[c].state = "CONNECTED" THEN Screen1 ELSE Screen2(client[c].active_groups)

\* A process that is gone leaves its windows, and closing a socket with a
\* reply still unread resets the connection.
Gone(c, cause) ==
  /\ client' = [client EXCEPT ![c] =
       [state |-> "GONE", username |-> Nothing, active_groups |-> << >>, request |-> Nothing]]
  /\ orphans' = orphans \cup WindowsOf(c, cause)
  /\ conn' = [conn EXCEPT ![c].hungup = @ \/ conn[c].s2c # << >>]

\* Seeded fault: the answer to the last request is not waited for.
Waits_NotAtAll(c) == Alive(c) /\ Len(conn[c].c2s) < 2

\* A screen reads the next choice when the last one is dealt with.
Waits(c) == Idle(c)

\* The send half of net_send_recv.  A request to a closed socket brings a RST
\* (at once: SERVER_IP is the loopback), and a send after a RST kills.
net_send(c, msg) ==
  /\ Waits(c)
  /\ \/ /\ ~conn[c].reset
        /\ client' = [client EXCEPT ![c].request = msg]
        /\ conn' = IF conn[c].closed THEN [conn EXCEPT ![c].reset = TRUE]
                                     ELSE [conn EXCEPT ![c].c2s = Append(@, msg)]
        /\ UNCHANGED orphans
     \/ conn[c].reset /\ Gone(c, msg.tag)
  /\ UNCHANGED <<vars, running>>

\* Seeded fault: the last session goes, whichever was left.
Without_Last(sessions, g) == SubSeq(sessions, 1, Len(sessions) - 1)
\* Seeded fault: the session stays, and its windows with it.
Without_None(sessions, g) == sessions

\* The shift of handle_leave_group.
Without(sessions, g) == RemoveFirstMatch(sessions, LAMBDA s : s.group_name = g)

\* What the answer to the request makes of the context: ok for SUCCESS, addr not 0 for
\* GROUP_INFO, neither for an error or a lost connection.  Logout and exit
\* clear everything whatever the answer.  A session that goes takes its
\* windows along (client_close_group_session), one that comes opens them.
Outcome(ctx, ok, addr) ==
  CASE ctx.request.tag = "LOGIN" /\ ok ->
         [ctx EXCEPT !.state = "LOGGED_IN", !.username = ctx.request.uname]
    [] ctx.request.tag \in {"CREATE_GROUP", "JOIN_GROUP"} /\ addr # 0 ->
         [ctx EXCEPT !.active_groups =
            Append(@, [group_name |-> ctx.request.gname, addr |-> addr])]
    [] ctx.request.tag = "LEAVE_GROUP" /\ ok ->
         [ctx EXCEPT !.active_groups = Without(@, ctx.request.gname)]
    [] ctx.request.tag = "LOGOUT" ->
         [ctx EXCEPT !.state = "CONNECTED", !.username = Nothing, !.active_groups = << >>]
    [] ctx.request.tag = "EXIT" ->
         [ctx EXCEPT !.state = "GONE", !.username = Nothing, !.active_groups = << >>]
    [] OTHER -> ctx

\* Seeded fault: the tag of the reply is not looked at.
AfterAnswer_Trusting(ctx, ok, addr) == [Outcome(ctx, TRUE, addr) EXCEPT !.request = Nothing]

AfterAnswer(ctx, ok, addr) == [Outcome(ctx, ok, addr) EXCEPT !.request = Nothing]

Answer(c, ok, addr) == client' = [client EXCEPT ![c] = AfterAnswer(@, ok, addr)]

\* The receive half of net_send_recv, and what the caller makes of the reply.
net_recv(c) ==
  /\ client[c].request # Nothing
  /\ conn[c].s2c # << >>
  /\ LET rep == Head(conn[c].s2c) IN Answer(c, rep.tag = "SUCCESS", rep.addr)
  /\ conn' = [conn EXCEPT ![c].s2c = Tail(@)]
  /\ UNCHANGED <<vars, running, orphans>>

\* The connection ends before an answer.
net_recv_fails(c) ==
  /\ client[c].request # Nothing
  /\ conn[c].s2c = << >>
  /\ conn[c].closed
  /\ Answer(c, FALSE, 0)
  /\ UNCHANGED <<vars, conn, running, orphans>>

\* Ctrl-C, or the terminal is closed.
Killed(c) == Alive(c) /\ Gone(c, "KILLED") /\ UNCHANGED <<vars, running>>

-----------------------------------------------------------------------------
(***************************************************************************)
(* The server's side of a connection: the select() loop.                   *)
(***************************************************************************)
\* What a client sent and the server has not read is answered by a RST.
Closed(cn) ==
  [cn EXCEPT !.fd = NoFd, !.closed = TRUE, !.c2s = << >>, !.reset = @ \/ cn.c2s # << >>]

\* Seeded fault: the client that finds no room is not told.
reject_Silently(c) == conn' = [conn EXCEPT ![c].c2s = << >>]

reject(c) == conn' = [conn EXCEPT ![c] = [Closed(@) EXCEPT !.s2c = <<reply'>>]]

accept(c) ==
  /\ running
  /\ conn[c].fd = NoFd /\ ~conn[c].closed
  /\ \E fd \in Fds \ client_fds :
       \/ accept_client(fd) /\ conn' = [conn EXCEPT ![c].fd = fd]
       \/ reject_client(fd) /\ reject(c)
  /\ UNCHANGED <<client, running, orphans>>

\* net_read_msg, dispatch_message and, for EXIT, close.
read_and_dispatch(c) ==
  /\ running
  /\ conn[c].fd # NoFd
  /\ conn[c].c2s # << >>
  /\ dispatch_message(conn[c].fd, Head(conn[c].c2s))
  /\ LET read == [conn[c] EXCEPT !.c2s = Tail(@), !.s2c = Append(@, reply'),
                                 !.hungup = @ \/ ~Alive(c)]
     IN  conn' = [conn EXCEPT ![c] =
                    IF Head(conn[c].c2s).tag = "EXIT" THEN Closed(read) ELSE read]
  /\ UNCHANGED <<client, running, orphans>>

\* Seeded fault: the slot is freed, the client is not cleaned up.
hangup_NoCleanup(fd) ==
  /\ client_fds' = client_fds \ {fd}
  /\ reply' = Silence
  /\ UNCHANGED <<user_map, group_map, mcast_queue>>

hangup(fd) == client_disconnected(fd)

\* Seeded fault: a connection that was reset is not one that was closed.
EndOfStream_Graceful(c) == ~Alive(c) /\ ~conn[c].hungup

\* net_read_msg finds the end of the stream, after what was sent before it.
EndOfStream(c) == ~Alive(c)

read_eof(c) ==
  /\ running
  /\ conn[c].fd # NoFd
  /\ conn[c].c2s = << >>
  /\ EndOfStream(c)
  /\ hangup(conn[c].fd)
  /\ conn' = [conn EXCEPT ![c] = Closed(@)]
  /\ UNCHANGED <<client, running, orphans>>

\* SIGINT or SIGTERM between two messages: server_destroy closes every socket.
\* Its tables are freed, and nobody reads them again.
shutdown ==
  /\ running
  /\ running' = FALSE
  /\ conn' = [c \in Clients |-> IF conn[c].closed THEN conn[c] ELSE Closed(conn[c])]
  /\ UNCHANGED <<vars, client, orphans>>

-----------------------------------------------------------------------------
MeshInit ==
  /\ Init
  /\ client = [c \in Clients |-> [state |-> "DISCONNECTED", username |-> Nothing,
                                  active_groups |-> << >>, request |-> Nothing]]
  /\ conn = [c \in Clients |-> [fd |-> NoFd, c2s |-> << >>, s2c |-> << >>,
                                closed |-> TRUE, reset |-> FALSE, hungup |-> FALSE]]
  /\ running = TRUE
  /\ orphans = {}

Request(c) == Alive(c) /\ \E msg \in Menu(c) : net_send(c, msg)

MeshNext ==
  \/ \E c \in Clients :
       \/ net_connect(c) \/ Request(c) \/ net_recv(c) \/ net_recv_fails(c) \/ Killed(c)
       \/ accept(c) \/ read_and_dispatch(c) \/ read_eof(c)
  \/ shutdown

MeshSpec == MeshInit /\ [][MeshNext]_meshvars

\* The loop comes round to every connection that is ready, and a process whose
\* reply has come or cannot come goes on.  Nobody has to type, die or stop.
Fairness ==
  \A c \in Clients :
    /\ WF_meshvars(accept(c)) /\ WF_meshvars(read_and_dispatch(c)) /\ WF_meshvars(read_eof(c))
    /\ WF_meshvars(net_recv(c)) /\ WF_meshvars(net_recv_fails(c))

FairMeshSpec == MeshSpec /\ Fairness

-----------------------------------------------------------------------------
(***************************************************************************)
(* Properties.                                                             *)
(***************************************************************************)
\* The shape of the state.
MeshTypeOK ==
  /\ TypeOK
  /\ client \in [Clients -> ClientContext]
  /\ conn \in [Clients -> Connection]
  /\ running \in BOOLEAN
  /\ orphans \subseteq [addr : Addrs, cause : {"KILLED"} \cup {m.tag : m \in Requests}]

\* A connection both ends hold open, with nothing to wait for.
Settled(c) == running /\ Idle(c) /\ conn[c].fd # NoFd

\* Client and server agree, as soon as no request is pending, on the groups the
\* client is in and on their addresses: no answer is lost, taken for another
\* one or applied to the wrong session.
SessionsMatch ==
  \A c \in Clients : Settled(c) =>
    /\ {<<s.group_name, s.addr>> : s \in ToSet(client[c].active_groups)}
         = {<<g, group_map[g].addr>> : g \in GroupsOf(conn[c].fd)}
    /\ Len(client[c].active_groups) = Cardinality(GroupsOf(conn[c].fd))

\* They agree on who is logged in: exactly the client's user on its connection,
\* and nobody on that of a client at the first screen.
LoginsMatch ==
  \A c \in Clients : Settled(c) =>
    find_user_by_fd(conn[c].fd) =
      IF client[c].state = "LOGGED_IN" THEN {client[c].username} ELSE {}

\* Request and answer go in lockstep: on an accepted connection of a live client
\* exactly one of the two is on its way while the client waits, else none.
Lockstep ==
  \A c \in Clients : Alive(c) /\ conn[c].fd # NoFd =>
    Len(conn[c].c2s) + Len(conn[c].s2c) = (IF client[c].request = Nothing THEN 0 ELSE 1)

\* The server never writes to a connection that has been reset, which would
\* kill it (nobody ignores SIGPIPE): no message waits behind a RST.
NoBrokenPipe == \A c \in Clients : conn[c].hungup => conn[c].c2s = << >>

\* Two clients at rest whose windows are on one address are in one group.
NoCrossTalk ==
  \A c, d \in Clients : Settled(c) /\ Settled(d) =>
    \A s \in ToSet(client[c].active_groups), t \in ToSet(client[d].active_groups) :
      s.addr = t.addr => s.group_name = t.group_name

\* With these clients, the server does what Server says: the clients, their
\* deaths and the shutdown add no step of the tables.
ServerSteps == Spec

\* Every request is dealt with: answered, or given up with the connection.
RequestsEnd == \A c \in Clients : client[c].request # Nothing ~> client[c].request = Nothing

\* The server gives up every connection whose client is gone, and with it the
\* user and the memberships (MembersAuthenticated).
DeadAreForgotten == \A c \in Clients : client[c].state = "GONE" ~> conn[c].closed

\* "Continue teardown regardless" (client_mng.c:43), "Best-effort send - ignore
\* errors on exit path" (client_mng.c:77): no window outlives a logout or exit.
TeardownRegardless == \A o \in orphans : o.cause \notin {"LOGOUT", "EXIT"}
=============================================================================
