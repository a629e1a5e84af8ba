# Verification of rt-embedded-mesh-chat

TLA+ specifications of the chat server, its clients, their helper processes and the
libraries below them, model-checked with TLC on small instances, and theorems about the
server, its loop, its clients, their windows, the bytes of their messages and
the containers, checked by TLAPS for every size. Paths below are those of the repository (`src/server_mng.c` is the server's handlers, `include/` the headers).

## 1. The system

| Component | State it keeps | Operations | Talks to |
|---|---|---|---|
| Server handlers, `src/server_mng.c` | `user_map` (name to record: password, `logged_in`, `socket_fd`), `group_map` (name to record: multicast address, member list, `member_count`), `mcast_queue` (free addresses) | `dispatch_message` and the seven `handle_*`, `client_disconnected`, `cleanup_client`, `close_empty_group`, `add_member` | called by the loop; replies over TCP; calls the containers |
| Server loop, `src/server_net.c`, `server_main.c` | `client_fds` slots, `running`, the `read_fds` of a round, `listen_fd` | `server_create`, `server_run`, `net_read_msg`, `net_send_msg`, `server_destroy`, the signal handler | kernel (select, accept, read, write, signals), handlers |
| Client, `src/client_main.c`, `client_ui.c`, `client_mng.c`, `client_net.c` | `ClientContext`: state, user name, `active_groups` (name, address, two PIDs), the socket | two menu screens, `net_connect`, `net_send_recv`, logout, exit, spawning and closing windows | server (TCP, one request and one reply at a time), windows (`system`, `kill`), the IPC queue |
| Chat windows, `src/sender.c`, `receiver.c` | their PID, a UDP socket | report the PID on the System V queue, send or print datagrams | IPC queue of the host, multicast |
| TLV protocol, `src/protocol.c`, `include/protocol.h` | none | builders, serialise, deserialise, `parse_group_info` | client and server |
| Containers, `src/ds/` | hash map of buckets, ring buffer, doubly linked list, vector (built, not used) | insert, remove, find, for-each | server |
| Limits, `include/limits.h` | constants | | all |

What makes it hard. The server is one thread and handles one message at a time, so the
handlers do not interleave; what interleaves is the *order* in which requests, closed
connections and killed clients arrive, the reuse of descriptors and addresses, and the
loop's own steps with whatever clients and signals do meanwhile. Clients are separate
processes which block on an answer without a timeout, can be killed at any moment and
leave their windows behind, and share one message queue per host. The hazards are listed
at their lines in `PROJECT.json`.

What makes each part correct:

- *handlers*: an address belongs to one group or to the pool, never to both or neither;
  a group exists as long as someone is in it; members are live, logged-in connections;
  the count says what the list says; one client's step leaves the others alone;
- *loop*: slots and open sockets agree; the loop reads only where select() found
  something; nobody starves; a signal ends it;
- *client*: it agrees with the server on login, groups and addresses whenever it is at
  rest; every request ends; nothing survives a logout;
- *windows*: a session holds the PIDs of its own windows and takes them along; a window
  shows what is said in its own group;
- *protocol*: what is typed arrives, in pieces of any size, as does the reply; a parser takes
  exactly what a builder makes and looks at nothing beyond it; nobody waits for a byte
  that does not come;
- *containers*: they are a map, a bounded queue, a list and an array, whatever memory they
  get, and leak none of it.

## 2. The modules

| Module | Models | Correspondence |
|---|---|---|
| `Server` | `server_mng.c` over abstract containers, with the accept/close of the loop | one action per handler, named as in the code; `msg` is a record of the request; a malformed value parses to `Unparsed`; `reply` is what the handler writes. Groups and users are partial functions (HashMap.c), the pool a sequence bounded by `PoolSize` (genqueue.c). A connection is its descriptor. |
| `Rooms` | what the server promises: rooms with an address and a non-empty set of members | abstract; `Server!RoomsRefinement` instantiates it with `rooms` = groups without count and order, `present` = open connections |
| `MeshChat` | clients, connections and the server together; EXTENDS `Server` | `client` is ClientContext plus the pending request, `conn` the TCP connection: two channels, closed by the server, reset towards either side. `net_send` and `net_recv` are the halves of `net_send_recv`; `Outcome` is what the callers in `client_ui.c`/`client_mng.c` do with the reply; `read_and_dispatch` is a read and a handler of `Server` |
| `ChatWindows` | `client_spawn_chat_windows`, `client_close_group_session`, the reports of the windows and the datagrams between them | `pc` is the place in the function, `mq` the queue, `windows` the processes; `Faults` says what goes wrong around it; `Reached` is what the kernel makes of the receivers' `bind` and `IP_ADD_MEMBERSHIP` |
| `SelectLoop` | `server_run` step by step: test, FD_SET, select, accept, slots, reads part by part, close, signal, destroy | `pc` is the place in the loop, `client_fds`, `read_fds`, `running` those of the code; a message is a first part and a last one |
| `Framing` | one exchange between client and server, byte by byte: `read_input`, the builders and `serialize_msg`, `send_all`/`net_send_msg`, `recv_all`/`net_read_msg`, the parsers of `server_mng.c`, the reply and `parse_group_info` | a string is its characters, a character a byte; `out`, `wire`, `got` are the bytes still to be written, on their way and read; the register and login requests have one form, as do create, join and leave, and logout and exit |
| `GenQueue` | `genqueue.c`: the ring, its indices, for-each and destroy one callback at a time | the variables are the fields of `struct Queue`; refines `Fifo`, what `genqueue.h` promises |
| `DList`, on `ListCells` | `gen_dlist.c`: nodes and their links, the two sentinels, an iterator held by the caller | `ListCells` has the pointer operations on cells (`InsertNodeBefore`, `RemoveNode`); refines `Deque`, which records the call with its result, so that each call does what `gen_dlist.h` promises of it: `ListPushHead` at the head, `ListItrBegin` to the first |
| `HashMap`, on `ListCells` | `HashMap.c`: buckets of lists of pairs, allocation of pair and node one after the other, removal, for-each | refines `Table`, a partial function |
| `Vector` | `vector.c`: growing, shrinking, failing reallocations | refines `Array`, a sequence with room. Where `vector.h` disagrees with the code or with itself about a result, `Array` allows both: the code of a removal whose reallocation fails, and the number of a stopped for-each (section 4) |
| `ListLemmas`, `ServerProofs`, `SelectLoopProofs`, `MeshProofs`, `WindowsProofs`, `FramingProofs`, `ContainerProofs`, `MapProofs` | the proofs | section 5 |
| `MCServer`, `MCMeshChat`, `MCSelectLoop`, `MCLibraries` | symmetry sets and instances; `MCLibraries` picks one of the five libraries, which share no state, and exercises it | |

Definitions under a comment "Seeded fault" are mutated forms of the definition below them:
with one put in its place the property it is paired with (`mutants` in `PROJECT.json`) fails.
No specification uses them.

`Server` treats its clients as arbitrary speakers of the protocol; `MeshChat` restricts
them to what `client_ui.c` can send, and its `ServerSteps` shows that the composition adds
no step to the tables. `SelectLoop` justifies what `Server` and `MeshChat` take for granted:
a handler runs to its end on a connection that is still the one found ready, and every
ready connection gets its turn. `Framing` does so for the messages, which `Server` and
`MeshChat` exchange whole and parsed, and the refinements of `Fifo`, `Deque` and `Table` for
the containers, which `Server` uses as a bounded sequence, a sequence and a partial function.

## 3. The runs

| Run | Instance | What it shows |
|---|---|---|
| `server` | 4 descriptors, 3 users, 3 groups, pool of 2, 3 connections, caps 2 | all invariants of the tables, the two step properties and the refinement of `Rooms` |
| `server_oom` | 3 descriptors, 2 users, 2 passwords, 2 groups, every malloc may fail | what survives allocation failures: exclusive addresses and a count that covers the list |
| `server_stale` | as `server` | violation: double LOGIN |
| `mesh` | 2 clients, 2 users, 2 groups, 2 addresses | agreement of clients and server under kills, resets and shutdown |
| `mesh_live` | 2 clients, 1 slot, no symmetry | every request ends; the dead are forgotten |
| `mesh_teardown` | 2 clients | violation: SIGPIPE before teardown |
| `windows` | 2 clients, 4 PIDs, 1 address, clients take turns; windows and the queue may fail, clients are killed | PIDs and windows belong together; only a missing report keeps an opening from ending |
| `windows_flush` | 2 addresses, no turns, no failures | violation: a live report is flushed |
| `windows_multicast` | 2 clients, 4 PIDs, 2 addresses | violation: a receiver shows the other group's lines |
| `loop` | 3 clients, 2 slots, 3 descriptors | no leak, no blind read, no starvation |
| `loop_signal` | the same, two bytes buffered | violation: lost signal |
| `libraries` | ring of 3; list of one element value in 3 cells; 3 keys, two of them in one bucket of 5; vector to 4 elements, steps to 2; names of up to 2 and passwords of up to 3 characters, pieces of any size | the four container refinements (of the vector the contents and the room), intact chains, no leak; requests and replies arrive, strict parsers, every exchange ends |

*Bounds.* Every table must be able to be empty, full and refused: more descriptors than
connections and more names than addresses, so that the server-full, pool-empty and group-full
replies all occur; two members per group so that a group survives one leaver; three groups
or descriptors where a third party has to be left alone. The unbounded data (a list's length,
the channels) is bounded by the code itself: a client has one request in flight. The only
artificial bound is `SelectLoop`'s `MaxUnread`, the size of a socket buffer.
In `libraries` the ring wraps several times around three slots; three cells let a list have a
first, a middle and a last node, and its allocator run dry; a bucket has a chain to be searched
and one to itself, and any allocation may fail at any time, so that an insertion fails halfway, with
its pair and without its node;
the vector grows twice and shrinks back to what it began with. The limits of `Framing` are scaled
down and keep their order, its bytes have eight bits, and 255 is among those that the other
client sends, so that every length is tried below, at and far above its bound; a longer message
is only more of the same bytes. `MaxLine`, `MaxRaw`, `MaxThings` and `MaxStep` bound what is
typed, sent or stored.
In `windows` four PIDs let the windows of a killed client live on while the next one opens two; which
address they are on makes a difference only in `windows_multicast`, which has two.
`Symmetric` permutes names only; addresses are ordered and are not permuted; runs with
liveness use none. `server`'s theorems do not depend on the bounds.

*Deadlock* is checked in the server, windows and library runs (a client that waits for ever can
still be killed, so `windows` does not stop). In the mesh and loop runs the system
may really stop: all clients are gone, or the server has shut down.

*Fairness.* In `MeshChat` weak fairness of the loop's accept, read and end-of-stream for each
client (select() is level-triggered and each round walks all slots, which `SelectLoop`
checks), and of a client that has its answer or can have none (it is blocked in recv and the
kernel wakes it). Nobody has to type, die or stop. In `SelectLoop` weak fairness of the
server's thread, and of the second half of a message: `send_all` writes all of it without
waiting for anybody. Without that last assumption one client that stops in the middle of a
message blocks the server, signal included, and `ReadsWhatIsReady` allows a read to wait for the
rest of a message; no document promises otherwise, so it is listed as a hazard that no property
covers. In `ChatWindows` the client's function and a started window's
report are fair. In `Framing` the two processes of an exchange are fair and TCP delivers;
nobody has to type.

## 4. What the code does not do as documented

1. `server_mng.c:183`: LOGIN on a connection that already has a user. Two records then carry
   one descriptor, cleanup clears one, and the other user is logged in for ever on a closed
   descriptor (`server_stale`). `mesh` shows that the shipped client cannot cause it.
2. `client_net.c:140`: the send of a LOGOUT or EXIT to a server that has gone may raise SIGPIPE,
   and "continue teardown regardless" is not reached (`mesh_teardown`).
3. `client_mng.c:132`: the flush of "previous runs" takes the reports of other clients
   (`windows_flush`); cross-wired PIDs (`client_mng.c:152`) are the same
   race, and are why `windows` assumes turns: its properties do not cover them.
4. `receiver.c:46`: every receiver binds `INADDR_ANY` and the one port of all groups, so once two
   groups have windows on a host, each shows the lines of both (`windows_multicast`), where
   `server_net.c:93` says that groups are distinguished by their address. All clients are on one
   host, the server's, since `SERVER_IP` is the loopback.
5. `server_net.c:250`: a SIGINT between the test of `running` and select() is lost
   (`loop_signal`).

Also seen while reading, with no run:

- `client_logout` looks at an uninitialised reply after a failed request (harmless: it goes on
  either way, as the model does); end of file on stdin makes the menus spin, and leaves the
  buffer of a field as it was;
- the README's "avoids runtime malloc" does not describe the handlers, which is why allocation
  failures are modelled;
- a user name of 31 characters, which both sides accept, cannot be entered: `fgets` leaves its
  newline for the password prompt, which is then empty (`read_input` in `Framing`); a NUL inside
  a name cuts it on the server;
- the wait for two reports (`client_mng.c:152`) does not look at whether anything was started: a
  window that fails leaves the client hanging, where `client.h:98` promises -1 (`OpeningEnds` makes
  exactly this exception); a user name with a space is one such failure, as it goes through the
  shell as two arguments and the windows exit;
- a window that comes up after its client was killed may report after the flush of the next client,
  which takes it for one of its own; and the PID of a window closed by hand is killed all the same,
  whoever has it by then (`client_mng.c:105`);
- `sender.c:104` trusts the length that `snprintf` would have needed;
- `genqueue.h:53` documents another code for a NULL `_item` of `QueueRemove` than the code returns;
  `HashMap_Rehash` is declared and not defined; `gen_dlist.h:62` and `:71` say that `ListPopHead`
  and `ListPopTail` return an iterator, where their `@details`, the code and the model give the data;
- `vector.h:12` describes `VECTOR_ALLOCATION_ERROR` as "realloc error on grow/shrink", while
  `VectorRemove` returns `VECTOR_SUCCESS` when the shrinking realloc fails (`vector.c:123-132`), with
  the element handed out and the room kept. `Vector` returns what the code does; `Array` allows both
  codes, so `VectorRefinement` claims neither;
- `vector.h:108` describes the result of a stopped `VectorForEach` in two ways that differ by one
  ("number of times the user functions was invoked", and the index in the loop it is said to be
  equivalent to). The code and `Vector` return the index; `Array` allows both;
- `server.h:166` says of MSG_JOIN_GROUP "join (or create-then-join)", while the handler refuses a
  group that does not exist; `Server` and `Rooms` refuse it, as the code does, and a client creates a
  group with MSG_CREATE_GROUP.

## 5. What is proved

For every value of the constants, from the named assumptions of `Server` (the descriptor -1 is
no descriptor, limits are naturals, a group may have a member, and
`PoolAssumption`: there are at most as many addresses as `MAX_GROUPS`; `limits.h` has 16 and 16):

- `ServerProofs`: the theorems `TypeCorrect`, `AddressesAreExclusive`, `PoolNeverLeaks`,
  `NobodyListedTwice`, `CountIsExact`, `CountIsSafe`, `OnlyUsersAreMembers`,
  `LoginsAreConsistent`, all from `Invariance`: `Spec => []IInv`; `OthersKeepTheirs`; when allocations succeed, `ServerImplementsRooms`, the
  refinement of `Rooms` (with failures it is false: a group may outlive its members), and
  `OldestIsReusedFirst` (a creation that fails puts the address it took back at the other end of
  the queue);
- `SelectLoopProofs`: `LoopTypeCorrect`, `NoDescriptorLeaks` and `NeverReadsBlindly`, from
  `LoopInvariance`, for any number of clients, slots and descriptors and any socket buffer
  (`NoFdAssumption`: -1 is no descriptor; `SlotsAssumption`: a slot is numbered);
- `MeshProofs`, for any number of clients: `ServerAmongClients` (`MeshSpec => Spec`, so everything
  proved of the server holds in the whole system), `MeshTypeCorrect`, `OneMessageAtATime` and
  `NeverWritesAfterReset`, from `MeshInvariance` (`NothingAssumption`: `Nothing` is no request and
  no user); then `LoginsAgree` and `NoAccountLeftBehind`, and when allocations succeed
  `SessionsAgree` and `WindowsApart`, from `Agreement`. `SessionsAgree` is false when they fail: a
  member that is counted and not listed (the `ListPushTail` of `add_member`) is a session the server
  does not know of. `WindowsApart` is then not proved, since it rests on it;
- `WindowsProofs`, for any number of clients, windows and groups (`PidsAssumption`): `WinTypeCorrect`
  whatever goes wrong around the windows, and when clients take turns, though windows and the
  queue may fail and clients may be killed, `SessionsNameTheirWindows`, `NoWindowOutlivesSession`,
  `QueueIsLeftEmpty` and `TurnsProtectTheFlush`, from `WinInvariance`. The last is the other side of
  `windows_flush`: two clients that open at once are all it takes, and the only thing;
- `FramingProofs`, for any characters, ports and bytes a speaker of the protocol sends, lines of
  any length, limits whose lengths fit in a byte (`BoundsAssumption`, which those of `limits.h` meet)
  and pieces of any size: `RequestsArrive`, `ParsersAcceptWhatIsBuilt` and
  `RepliesAreUnderstood`, from `FrameInvariance`;
- `ContainerProofs`: `RingInvariant`, and `QueueImplementsFifo`, the refinement of `Fifo`, for every
  size of the ring and every set of items (`SizeAssumption`: it has a slot; `QueueCreate` refuses
  0); `VectorImplementsArray`, the refinement of `Array`, for every capacity and step
  (contents and room; the two results of section 4 are left open);
  `ListInvariant`, and `ListImplementsDeque`, the refinement of `Deque`, for every set
  of data and of cells (`CellsAssumption`: NULL is no cell and no element, a cell from malloc is
  no sentinel);
- `MapProofs`: `ChainsAreSound`, `NothingIsLost` and `MapImplementsTable`, the refinement of `Table`,
  from `MapInvariant`, for every hash function, capacity, set of keys and of cells
  (`HashAssumption`: a hash and a capacity are naturals; `MapCellsAssumption` and
  `SentinelsAssumption`: NULL is no key, cell or pair, and a sentinel neither NULL nor a cell from
  malloc; `PrimeAssumption`: there is a prime up to twice the capacity, which is Bertrand's postulate).

*The inductive invariant* `IInv` is the conjunction of the parts, because none is inductive
alone. That an address is in one place needs that closing a group returns exactly the group's
own; that a group closes with its last member needs the exact count, and that needs members
listed once, since only the first occurrence is taken out; and for the pool to take back an
address without looking at the result of `QueueInsert` the queue must be duplicate-free and
disjoint from the groups' addresses (`AddressesFit`). `AllRemembered` shows that the array of
names in `cleanup_client` is always long enough: the groups have distinct addresses, so there
are at most `PoolSize` of them (`GroupsAreFew`), which is where `PoolAssumption` is used.
Membership by authenticated users is proved for any number of users on one descriptor: the
double LOGIN breaks `NoStaleSession`, not this.

*The argument.* Four effects cover every step: `CloseEffect` (groups close, addresses return),
`DepartureEffect` (a connection leaves some groups), `ArrivalEffect` (it enters one),
`GroupsUntouched`. Each handler has a lemma that reduces it to one of them, and `NextIInv` joins
them. The refinement reuses the effects and adds what they do to the sets of members.
`ListLemmas` has the facts about lists (`RemoveFirst` and `RemoveAt`, append, concatenation,
tail, sizes) they all rest on.

*The pool.* A closing group only appends (`Prefixed`), whatever happens to the tail of what is
appended, and a creation only takes the head: both keep the order of the others
(`GrowthKeepsOrder`, `TailKeepsOrder`), and every message does one of them or neither.

*The ring.* `RingOK` is inductive as it stands, with a part for the ring and one for the loops.
All arithmetic is in three facts about `Nth(h, k)`, the slot k after h: going on by one slot is
going on in k (`NthNext`), starting one slot later too (`NthShift`), and two slots less than a
round apart differ (`NthInjective`), so that an insertion overwrites nothing. `Window` is the
content of the ring as a sequence: it grows at its end when the tail is written and loses its head
when the head moves, and each action of the ring is then an action of the queue.

*The loop.* `LoopInv` has a part for the connections, one for the descriptors in the slots, one
for those that wait to be accepted and one for what select() has found. The last is why the
snapshot `read_fds` may be used while the tables change: an accepted descriptor was free, so it is
not in the snapshot, and two slots never hold one descriptor, so closing one leaves the others of
the snapshot as they were found. `Truthful` adds that the last byte a client wrote tells whether
it is inside a message, which is when the loop may wait for it. The lowest free slot exists because
< is well-founded.

*Clients and connections.* `MeshInv` is `IInv` and, for each client, `Matched`: what is on its
connection is determined by what it waits for, a closed connection carries no request, and a reset
one belongs to a client that is gone. `EndsPart` says that the server's ends are distinct open
descriptors, so `read_and_dispatch` is a step of `Server` on a connection it knows.

*Agreement.* The two sides never agree while an answer is on its way. `AgreeInv` therefore
compares the tables with `View`, the context as it will be once that answer is read: reading it
then changes nothing, and a handler has to be matched only with what its reply tells
(`AnswerTells`). It needs to know that a request was on the menu (`Polite`): a second LOGIN on a
connection or a JOIN of a group that the client is in would break the agreement, and only the menus
prevent them, not the server. At most one user per connection (`OneAccount`) is what makes
`cleanup_client` complete, and `AccountsOpen` that a reused descriptor starts without a user.
`DispatchUsers` and `DispatchBecomes` say what each message makes of the users and groups of its
connection, and that nothing changes for the others.

*The windows.* `WinInv` says that while a client opens, each window it started is announced once:
by a report still to come, by a message in the queue, or by the PID in the session; that nothing
else of a living client is in the queue; and that a window whose report is to come belongs to
the client that opens. The PIDs in the queue are all different (`Apart`), so receiving one cannot
fill a slot twice. Two clients that open at once break the second part first, which is the race of
`windows_flush`.

*The messages.* `FrameInv` says that the bytes the reader has, those on their way and those still
to be written are one message together, in this order, so that the pieces do not matter; and what
that message is: a request made of the fields, which are the typed lines cut to size, or a reply.
Two facts of arithmetic and two of the layout carry the rest: a length that fits in a byte
does not wrap, and a port is its two bytes; a value made of fields is accepted and gives the
fields back, and a value that is accepted is made of fields in exactly one way.

*The vector.* Reallocation keeps the first `m_size` slots (`ReallocKeeps`), since shrinking leaves
room for all of them, whichever realloc fails; so `Stored` changes at its end only.

*The list.* `ListInv` says that the memory is two sentinels and the cells of one sequence `s`,
all different, each linked to the next and back (`LinkedRow`), and that the iterator is at one of
them, at the tail or nowhere. `RowGrows` and `RowShrinks` are `InsertNodeBefore` and `RemoveNode` on
such a row, whatever else is in the memory. The loops of the code follow the links (`Rounds`, a
recursive function, and `Chain`): what it returns solves its recursive equation, and a solution
that left the row somewhere would have a first place where it does, so it is the row (`RoundsAre`,
`ChainIs`). With that, each operation is one of `Deque`, and the iterator keeps its element because
cells do not move.

*The hash map.* `MapInv` says that its memory is one row for each bucket that has a list, the rows
having no cell in common, and nothing else (`Rows`); that each pair has exactly one cell, in
the bucket of its key, and no two pairs one key (`Filled`), so that the table is one entry per pair
(`TabIs`); and where a loop is (`Walking`): a for-each is at a place of its bucket and has shown
the keys before it, no others; a destroy has emptied the buckets below its own. A row does
not see the others, so `RowsGrow` and `RowsShrink` follow from the list's lemmas, and `RowsOpen` and
`RowsClose` are a list made and freed. The part for the walk is needed because a
callback comes between two rounds of the loop, and that for the size does not hold during a destroy,
which never updates it. An insertion that fails after its list was made leaves an empty list, which is
a row like any other.

*Only model-checked*: the liveness properties `Served` and `Admitted` of `SelectLoop`,
`RequestsEnd` and `DeadAreForgotten` of `MeshChat`, `OpeningEnds` of `ChatWindows` and `Answered`
of `Framing`. `LoginConsistent` and `RingOK` are proved and in no
run, being parts of the inductive invariants; `RingOK` says nothing that `FifoRefinement` does
not show of the ring from outside.
Liveness under fairness is out of the prover's reach, as are ENABLED and the library's induction
theorems (the one recursion there is, `Rounds`, is dealt with by a smallest counterexample); no module uses a RECURSIVE operator.

## 6. What is not modelled

A client that is killed before the windows it asked for have come up (section 4 says what happens then),
the other processes of a host and the reuse of PIDs, writes that block on a full socket, failures of socket, bind, listen and accept (there is a spare descriptor,
`SpareFdAssumption`), the text of a chat line, the end of the terminal's input, what the
programs print, `HashMap_GetStatistics` (it only reads), the tests and the build files.
Allocation failures of the containers are modelled in their own modules; in `Server` they are
one choice for each call that allocates.

## 7. Plan

Done, in this order: `Server` with `Rooms`; their proofs; `MeshChat`; `ChatWindows`;
`SelectLoop`; `Framing`; the containers with what their headers promise; the multicast windows;
the proofs of the ring, of the loop, of the pool, of the clients, of the windows, of the messages,
of the vector, of the linked list and of the hash map.
With that every safety property and refinement of the passing runs is proved, and the liveness
properties are left to TLC.
