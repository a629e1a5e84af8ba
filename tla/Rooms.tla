-------------------------------- MODULE Rooms -------------------------------
(***************************************************************************)
(* What the server promises about its groups, with no users, no passwords, *)
(* no address pool and no counters: a room is a name with a multicast      *)
(* address of its own and the clients inside; it exists exactly as long as *)
(* someone is inside, and a client that is gone is in no room.             *)
(***************************************************************************)
EXTENDS Naturals, FiniteSets

CONSTANTS
  Clients,    \* what a client is known by (its connection)
  Names,      \* room names
  Addresses,  \* the multicast addresses
  Capacity    \* how many clients a room may hold

VARIABLES
  present,    \* the clients that are connected
  rooms       \* room name |-> [addr, members], for the rooms that exist

rvars == <<present, rooms>>

Room == [addr : Addresses, members : SUBSET Clients]

RoomsOf(c) == {n \in DOMAIN rooms : c \in rooms[n].members}

\* The rooms that are left once c has left those of S: the empty ones vanish.
After(c, S) ==
  [n \in {m \in DOMAIN rooms : m \in S => rooms[m].members # {c}} |->
     IF n \in S THEN [addr |-> rooms[n].addr, members |-> rooms[n].members \ {c}] ELSE rooms[n]]

Come(c) == present' = present \cup {c} /\ UNCHANGED rooms
Open(c, n, a) ==
  /\ c \in present
  /\ n \in Names \ DOMAIN rooms
  /\ \A m \in DOMAIN rooms : rooms[m].addr # a
  /\ rooms' = [m \in DOMAIN rooms \cup {n} |->
                 IF m = n THEN [addr |-> a, members |-> {c}] ELSE rooms[m]]
  /\ UNCHANGED present
Enter(c, n) ==
  /\ c \in present
  /\ n \in DOMAIN rooms
  /\ Cardinality(rooms[n].members) < Capacity
  /\ rooms' = [rooms EXCEPT ![n] = [addr |-> @.addr, members |-> @.members \cup {c}]]
  /\ UNCHANGED present
Leave(c, n) == n \in RoomsOf(c) /\ rooms' = After(c, {n}) /\ UNCHANGED present
LeaveAll(c) == rooms' = After(c, RoomsOf(c)) /\ UNCHANGED present
Go(c) == rooms' = After(c, RoomsOf(c)) /\ present' = present \ {c}

RoomsInit == present = {} /\ rooms = << >>
RoomsNext ==
  \E c \in Clients :
    \/ Come(c)
    \/ \E n \in Names, a \in Addresses : Open(c, n, a)
    \/ \E n \in Names : Enter(c, n) \/ Leave(c, n)
    \/ LeaveAll(c)
    \/ Go(c)

RoomsSpec == RoomsInit /\ [][RoomsNext]_rvars
=============================================================================
