----------------------------- MODULE SelectLoop -----------------------------
(***************************************************************************)
(* The main loop of the server, step by step: server_run of server_net.c,  *)
(* with the accept and the reads it makes on the descriptors that select() *)
(* reported, the slots of client_fds and the shutdown signal.  What a      *)
(* message does to the tables is the business of Server; here it only      *)
(* matters whether it makes dispatch_message return -1.                    *)
(*                                                                         *)
(* Clients run at the same time: they connect, write, and go away, in the  *)
(* middle of a message too, between any two steps of the loop.             *)
(***************************************************************************)
EXTENDS Naturals, Sequences, FiniteSets, SequencesExt

CONSTANTS
  Peers,       \* client processes
  Fds,         \* descriptors the kernel may hand out
  NoFd,        \* -1
  MaxClients,  \* MAX_CLIENTS
  MaxUnread    \* bound: the bytes a socket buffers before its writer waits

ASSUME NoFdAssumption == NoFd \notin Fds
ASSUME SlotsAssumption == MaxClients \in Nat \ {0} /\ MaxUnread \in Nat \ {0}
\* There is a descriptor for the connection that finds no slot.
ASSUME SpareFdAssumption == IsFiniteSet(Fds) /\ Cardinality(Fds) > MaxClients

VARIABLES
  pc,          \* where the loop is
  i,           \* the slot the data loop looks at
  client_fds,  \* slot |-> descriptor
  read_fds,    \* the client descriptors select() left set
  listening,   \* whether it left listen_fd set
  running,     \* the flag the signal handler clears
  backlog,     \* connections that wait for accept, in their order
  sock         \* what the kernel knows of each client's connection

loopvars == <<pc, i, client_fds, read_fds, listening, running, backlog, sock>>

Slots == 1 .. MaxClients

\* A message is two bytes or more: one or more of its first ("part"), and its last,
\* told apart by what dispatch_message makes of the message.
Bytes == {"part", "last", "exit"}

\* fd: the server's end while it is open; unread: what the client wrote and the
\* server did not read; begun: the client is inside a message.
Socket ==
  [state : {"away", "queued", "open", "closed"}, fd : Fds \cup {NoFd}, unread : Seq(Bytes),
   begun : BOOLEAN, alive : BOOLEAN]
ClosedSocket ==
  [state |-> "closed", fd |-> NoFd, unread |-> << >>, begun |-> FALSE, alive |-> FALSE]

Open == {p \in Peers : sock[p].state = "open"}
OwnerOf(fd) == {p \in Open : sock[p].fd = fd}
FreeFds == Fds \ {sock[p].fd : p \in Open}

\* A read returns: there is a byte, or the end of the stream.
Readable(p) == sock[p].unread # << >> \/ ~sock[p].alive

HasByte(p, bytes) == sock[p].unread # << >> /\ Head(sock[p].unread) \in bytes
AtEnd(p) == sock[p].unread = << >> /\ ~sock[p].alive

-----------------------------------------------------------------------------
(***************************************************************************)
(* The clients.                                                            *)
(***************************************************************************)
connect(p) ==
  /\ sock[p].state = "away"
  /\ pc # "exited"
  /\ sock' = [sock EXCEPT ![p].state = "queued"]
  /\ backlog' = Append(backlog, p)
  /\ UNCHANGED <<pc, i, client_fds, read_fds, listening, running>>

write(p, byte) ==
  /\ sock[p].state \in {"queued", "open"}
  /\ sock[p].alive
  /\ Len(sock[p].unread) < MaxUnread
  /\ sock' = [sock EXCEPT ![p].unread = Append(@, byte), ![p].begun = (byte = "part")]
  /\ UNCHANGED <<pc, i, client_fds, read_fds, listening, running, backlog>>

begin_message(p) == ~sock[p].begun /\ write(p, "part")
end_message(p) == sock[p].begun /\ \E byte \in {"last", "exit"} : write(p, byte)

die(p) ==
  /\ sock[p].state \in {"queued", "open"}
  /\ sock[p].alive
  /\ sock' = [sock EXCEPT ![p].alive = FALSE, ![p].begun = FALSE]
  /\ UNCHANGED <<pc, i, client_fds, read_fds, listening, running, backlog>>

-----------------------------------------------------------------------------
(***************************************************************************)
(* The loop.                                                               *)
(***************************************************************************)
while_running ==
  /\ pc = "while"
  /\ pc' = IF running THEN "build" ELSE "done"
  /\ UNCHANGED <<i, client_fds, read_fds, listening, running, backlog, sock>>

\* FD_ZERO and FD_SET: the slots cannot change until select() has returned.
build_set ==
  /\ pc = "build"
  /\ pc' = "select"
  /\ UNCHANGED <<i, client_fds, read_fds, listening, running, backlog, sock>>

\* Seeded fault: no slot, no interest in new connections.
Watched_NoListenerWhenFull == \E s \in Slots : client_fds[s] = NoFd

\* listen_fd is in the set whether or not there is a slot.
ListenerWatched == TRUE

\* select() returns when something is ready.
select ==
  /\ pc = "select"
  /\ listening' = (ListenerWatched /\ backlog # << >>)
  /\ read_fds' = {client_fds[s] : s \in Slots}
                    \cap {sock[p].fd : p \in {q \in Open : Readable(q)}}
  /\ listening' \/ read_fds' # {}
  /\ pc' = "accept"
  /\ UNCHANGED <<i, client_fds, running, backlog, sock>>

FreeSlots == {s \in Slots : client_fds[s] = NoFd}
Lowest(S) == CHOOSE s \in S : \A t \in S : s <= t

\* Seeded fault: the first slot is taken, free or not.
SlotFor_First == 1

SlotFor == Lowest(FreeSlots)

\* One connection per round; without a slot it is told so and closed.
accept ==
  /\ pc = "accept"
  /\ \/ /\ ~listening
        /\ UNCHANGED <<client_fds, backlog, sock>>
     \/ /\ listening
        /\ FreeSlots # {}
        /\ \E fd \in FreeFds :
             /\ sock' = [sock EXCEPT ![Head(backlog)].state = "open", ![Head(backlog)].fd = fd]
             /\ client_fds' = [client_fds EXCEPT ![SlotFor] = fd]
        /\ backlog' = Tail(backlog)
     \/ /\ listening
        /\ FreeSlots = {}
        /\ sock' = [sock EXCEPT ![Head(backlog)] = ClosedSocket]
        /\ backlog' = Tail(backlog)
        /\ UNCHANGED client_fds
  /\ pc' = "data"
  /\ i' = 1
  /\ UNCHANGED <<read_fds, listening, running>>

\* Seeded fault: FD_ISSET is not asked.
IsSet_Always(fd) == fd # NoFd

IsSet(fd) == fd \in read_fds

\* Seeded fault: the last slot is not looked at.
LastSlot_OneShort == MaxClients - 1

LastSlot == MaxClients

\* The slots still to be looked at in this round whose descriptor is set.
Pending == {s \in Slots : i <= s /\ s <= LastSlot /\ IsSet(client_fds[s])}

\* The round's variables (block-scoped in the code) are cleared when it ends.
next_slot ==
  /\ pc = "data"
  /\ \/ /\ Pending # {}
        /\ i' = Lowest(Pending)
        /\ pc' = "read"
        /\ UNCHANGED <<read_fds, listening>>
     \/ /\ Pending = {}
        /\ i' = 1
        /\ pc' = "while"
        /\ read_fds' = {}
        /\ listening' = FALSE
  /\ UNCHANGED <<client_fds, running, backlog, sock>>

\* net_read_msg reads on until it has a whole message: with nothing to read and
\* the client alive it waits, and the loop with it.
read_part ==
  /\ pc \in {"read", "reading"}
  /\ \E p \in OwnerOf(client_fds[i]) :
       HasByte(p, {"part"}) /\ sock' = [sock EXCEPT ![p].unread = Tail(@)]
  /\ pc' = "reading"
  /\ UNCHANGED <<i, client_fds, read_fds, listening, running, backlog>>

\* dispatch_message returned 0.
read_last ==
  /\ pc \in {"read", "reading"}
  /\ \E p \in OwnerOf(client_fds[i]) :
       HasByte(p, {"last"}) /\ sock' = [sock EXCEPT ![p].unread = Tail(@)]
  /\ pc' = "data"
  /\ i' = i + 1
  /\ UNCHANGED <<client_fds, read_fds, listening, running, backlog>>

\* Seeded faults: a free slot is a 0; the descriptor is closed and stays in its slot.
FreeSlot_Zero(s) == [client_fds EXCEPT ![s] = 0]
FreeSlot_Forgotten(s) == client_fds

FreeSlot(s) == [client_fds EXCEPT ![s] = NoFd]

\* It returned -1, or there was no message: close, and the slot is free.
read_and_close ==
  /\ pc \in {"read", "reading"}
  /\ \E p \in OwnerOf(client_fds[i]) :
       /\ HasByte(p, {"exit"}) \/ AtEnd(p)
       /\ sock' = [sock EXCEPT ![p] = ClosedSocket]
  /\ client_fds' = FreeSlot(i)
  /\ pc' = "data"
  /\ i' = i + 1
  /\ UNCHANGED <<read_fds, listening, running, backlog>>

\* The loop is left; main destroys the context.
server_destroy ==
  /\ pc = "done"
  /\ pc' = "exited"
  /\ sock' = [p \in Peers |-> IF sock[p].state = "away" THEN sock[p] ELSE ClosedSocket]
  /\ client_fds' = [s \in Slots |-> NoFd]
  /\ backlog' = << >>
  /\ UNCHANGED <<i, read_fds, listening, running>>

\* The signal may come at any time.  It makes a waiting select() return (EINTR);
\* a read that waits is restarted, as signal() installs handlers with SA_RESTART.
handle_shutdown ==
  /\ running
  /\ pc # "exited"
  /\ running' = FALSE
  /\ pc' = IF pc = "select" THEN "while" ELSE pc
  /\ UNCHANGED <<i, client_fds, read_fds, listening, backlog, sock>>

-----------------------------------------------------------------------------
LoopInit ==
  /\ pc = "while"
  /\ i = 1
  /\ client_fds = [s \in Slots |-> NoFd]
  /\ read_fds = {}
  /\ listening = FALSE
  /\ running = TRUE
  /\ backlog = << >>
  /\ sock = [p \in Peers |-> [state |-> "away", fd |-> NoFd, unread |-> << >>,
                              begun |-> FALSE, alive |-> TRUE]]

net_read_msg == read_part \/ read_last \/ read_and_close

server_run ==
  while_running \/ build_set \/ select \/ accept \/ next_slot \/ net_read_msg \/ server_destroy

Client(p) == connect(p) \/ begin_message(p) \/ end_message(p) \/ die(p)

LoopNext == server_run \/ handle_shutdown \/ \E p \in Peers : Client(p)

LoopSpec == LoopInit /\ [][LoopNext]_loopvars

\* The server's thread goes on whenever it can, and a client that has begun a message
\* ends it or dies: send_all writes the whole of it without waiting for anything.
LoopFairness ==
  /\ WF_loopvars(server_run)
  /\ \A p \in Peers : WF_loopvars(end_message(p))

FairLoopSpec == LoopSpec /\ LoopFairness

-----------------------------------------------------------------------------
(***************************************************************************)
(* Properties.                                                             *)
(***************************************************************************)
\* The shape of the state.
LoopTypeOK ==
  /\ pc \in {"while", "build", "select", "accept", "data", "read", "reading", "done", "exited"}
  /\ i \in 1 .. MaxClients + 1
  /\ client_fds \in [Slots -> Fds \cup {NoFd}]
  /\ read_fds \subseteq Fds
  /\ listening \in BOOLEAN /\ running \in BOOLEAN
  /\ backlog \in Seq(Peers)
  /\ sock \in [Peers -> Socket]

\* The table and the kernel agree: every connection the server holds open is in
\* exactly one slot, and every slot in use holds an open one.  No accept, exit or
\* lost connection leaks a descriptor or leaves a closed one to be watched.
SlotsMatchSockets ==
  /\ \A p \in Open : \E s \in Slots : client_fds[s] = sock[p].fd
  /\ \A s \in Slots : client_fds[s] # NoFd => Cardinality(OwnerOf(client_fds[s])) = 1
  /\ \A s, t \in Slots : client_fds[s] = client_fds[t] /\ client_fds[s] # NoFd => s = t

\* The first read of a message never waits: although the descriptors of a round
\* are looked at after others were accepted and closed, and numbers are reused,
\* the one that is read is still the connection select() found ready.  A later read
\* waits only for a client that is alive and inside a message, so what holds up the
\* whole server is never a client that has nothing left to say.
ReadsWhatIsReady ==
  pc \in {"read", "reading"} =>
    \E p \in OwnerOf(client_fds[i]) : Readable(p) \/ (pc = "reading" /\ sock[p].begun)

\* The server takes the next byte of p.
Takes(p) == sock[p].unread # << >> /\ sock'[p].unread = Tail(sock[p].unread)

\* No client starves another: a connection that always has something to read is
\* read again and again, whatever the others send and however often they come and
\* go, as long as each finishes the messages it begins.
Served == \A p \in Peers :
  <>[](sock[p].state = "open" /\ sock[p].unread # << >>) => []<><<Takes(p)>>_loopvars

\* And every connection is accepted, or turned away: with all slots taken too.
Admitted == \A p \in Peers : sock[p].state = "queued" ~> sock[p].state # "queued"

\* "Blocks until running is set to 0 (e.g. by a SIGINT handler)" (server.h:110):
\* once the flag is cleared, the loop ends.
StopsOnSignal == ~running ~> pc = "exited"
=============================================================================
