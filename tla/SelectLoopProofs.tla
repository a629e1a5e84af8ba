-------------------------- MODULE SelectLoopProofs --------------------------
(***************************************************************************)
(* Theorems about the select() loop, for every number of clients, slots    *)
(* and descriptors and every length of a socket's buffer.                  *)
(*                                                                         *)
(* SockPart is about the connections, TablePart about the descriptors in   *)
(* the slots and in the kernel, QueuePart about those that wait to be      *)
(* accepted and ReadyPart about what select() has found.                   *)
(***************************************************************************)
EXTENDS SelectLoop, FiniteSetTheorems, SequenceTheorems, WellFoundedInduction, TLAPS

-----------------------------------------------------------------------------
(***************************************************************************)
(* The lowest slot: every set of slots but the empty one has it.           *)
(***************************************************************************)
Less == {p \in Nat \X Nat : p[1] < p[2]}

LEMMA LessWellFounded == IsWellFoundedOn(Less, Nat)
<1>1. Less = OpToRel(<, Nat)
  BY DEF OpToRel, Less
<1> QED
  BY <1>1, NatLessThanWellFounded

LEMMA LowestIs ==
  ASSUME NEW S \in SUBSET Slots, S # {}
  PROVE  Lowest(S) \in S /\ \A t \in S : Lowest(S) <= t
<1>1. S \subseteq Nat
  BY SlotsAssumption DEF Slots
<1>2. PICK s \in S : \A t \in S : ~(<<t, s>> \in Less)
  BY <1>1, LessWellFounded, WFMin
<1>3. ASSUME NEW t \in S
      PROVE  s <= t
  <2>1. s \in Nat /\ t \in Nat
    BY <1>1
  <2>2. ~(t < s)
    BY <1>2, <2>1 DEF Less
  <2> QED
    BY <2>1, <2>2
<1> QED
  BY <1>3 DEF Lowest

-----------------------------------------------------------------------------
(***************************************************************************)
(* The invariant.                                                          *)
(***************************************************************************)
\* The last byte a live client has written tells whether it is inside a message.
Truthful(k) ==
  k.alive /\ k.unread # << >> => (k.begun <=> k.unread[Len(k.unread)] = "part")

\* A connection has a descriptor while the server holds it open.
Sane(k) == (k.state = "open" <=> k.fd # NoFd) /\ Truthful(k)

SockPart ==
  /\ sock \in [Peers -> Socket]
  /\ \A p \in Peers : Sane(sock[p])

TablePart ==
  /\ client_fds \in [Slots -> Fds \cup {NoFd}]
  /\ \A p, q \in Open : sock[p].fd = sock[q].fd => p = q
  /\ \A p \in Open : \E s \in Slots : client_fds[s] = sock[p].fd
  /\ \A s \in Slots : client_fds[s] # NoFd => \E p \in Open : sock[p].fd = client_fds[s]
  /\ \A s, t \in Slots : client_fds[s] = client_fds[t] /\ client_fds[s] # NoFd => s = t

QueuePart ==
  /\ backlog \in Seq(Peers)
  /\ \A k \in 1 .. Len(backlog) : sock[backlog[k]].state = "queued"
  /\ \A j, k \in 1 .. Len(backlog) : backlog[j] = backlog[k] => j = k

\* A read of the connection on fd finds something.
Ready(fd) == \E p \in OwnerOf(fd) : Readable(p)

ReadyPart ==
  /\ pc = "accept" => \A fd \in read_fds : Ready(fd)
  /\ pc \in {"data", "read", "reading"} =>
       \A s \in Slots : (i < s \/ (pc = "data" /\ i = s)) /\ IsSet(client_fds[s]) => Ready(client_fds[s])
  /\ pc = "read" => Ready(client_fds[i])
  /\ ReadsWhatIsReady

PlacePart ==
  /\ pc \in {"while", "build", "select", "accept", "data", "read", "reading", "done", "exited"}
  /\ i \in 1 .. MaxClients + 1
  /\ pc \in {"read", "reading"} => i \in Slots
  /\ read_fds \subseteq Fds
  /\ listening \in BOOLEAN /\ running \in BOOLEAN
  /\ pc = "accept" /\ listening => backlog # << >>

LoopInv == PlacePart /\ SockPart /\ TablePart /\ QueuePart /\ ReadyPart

-----------------------------------------------------------------------------
(***************************************************************************)
(* One connection changes.                                                 *)
(***************************************************************************)
LEMMA OneSocket ==
  ASSUME SockPart, NEW p \in Peers, NEW r \in Socket, Sane(r), sock' = [sock EXCEPT ![p] = r]
  PROVE  /\ SockPart'
         /\ sock'[p] = r
         /\ \A q \in Peers : q # p => sock'[q] = sock[q]
<1>1. sock' \in [Peers -> Socket]
  BY DEF SockPart
<1>2. sock'[p] = r /\ \A q \in Peers : q # p => sock'[q] = sock[q]
  BY DEF SockPart
<1>3. \A q \in Peers : Sane(sock'[q])
  BY <1>2 DEF SockPart
<1> QED
  BY <1>1, <1>2, <1>3 DEF SockPart

\* As long as it keeps its descriptor, the table is not concerned.
LEMMA SameOwners ==
  ASSUME NEW p \in Peers, \A q \in Peers : q # p => sock'[q] = sock[q],
         sock'[p].fd = sock[p].fd, sock'[p].state = "open" <=> sock[p].state = "open"
  PROVE  /\ Open' = Open
         /\ \A q \in Peers : sock'[q].fd = sock[q].fd
         /\ \A fd : OwnerOf(fd)' = OwnerOf(fd)
<1>1. \A q \in Peers : sock'[q].fd = sock[q].fd /\ (sock'[q].state = "open" <=> sock[q].state = "open")
  OBVIOUS
<1>2. Open' = Open
  BY <1>1 DEF Open
<1>3. ASSUME NEW fd PROVE OwnerOf(fd)' = OwnerOf(fd)
  <2>1. Open \subseteq Peers
    BY DEF Open
  <2> QED
    BY <1>1, <1>2, <2>1 DEF OwnerOf
<1> QED
  BY <1>1, <1>2, <1>3

LEMMA TableKept ==
  ASSUME TablePart, Open' = Open, \A q \in Peers : sock'[q].fd = sock[q].fd,
         UNCHANGED client_fds
  PROVE  TablePart'
<1>1. Open \subseteq Peers
  BY DEF Open
<1> QED
  BY <1>1 DEF TablePart

\* What was ready stays ready while clients write or die, and one that is inside a
\* message is alive and will go on, or ready.
LEMMA ReadyKept ==
  ASSUME PlacePart, ReadyPart, UNCHANGED <<pc, i, client_fds, read_fds>>,
         \A fd : OwnerOf(fd)' = OwnerOf(fd),
         \A q \in Open : /\ Readable(q) => Readable(q)'
                         /\ sock[q].begun => sock'[q].begun \/ Readable(q)'
  PROVE  ReadyPart'
<1>1. ASSUME NEW fd, Ready(fd) PROVE Ready(fd)'
  BY <1>1 DEF Ready, OwnerOf
<1>2. ReadsWhatIsReady'
  BY DEF ReadsWhatIsReady, ReadyPart, OwnerOf
<1>3. (pc = "accept" => \A fd \in read_fds : Ready(fd))'
  BY <1>1 DEF ReadyPart
<1>4. (pc = "read" => Ready(client_fds[i]))'
  BY <1>1 DEF ReadyPart
<1>5. (pc \in {"data", "read", "reading"} =>
         \A s \in Slots : (i < s \/ (pc = "data" /\ i = s)) /\ IsSet(client_fds[s]) => Ready(client_fds[s]))'
  BY <1>1 DEF ReadyPart, IsSet
<1> QED
  BY <1>2, <1>3, <1>4, <1>5 DEF ReadyPart

LEMMA PlaceKept ==
  ASSUME PlacePart, UNCHANGED <<pc, i, read_fds, listening, running>>, backlog # << >> => backlog' # << >>
  PROVE  PlacePart'
BY DEF PlacePart

-----------------------------------------------------------------------------
(***************************************************************************)
(* The clients' steps.                                                     *)
(***************************************************************************)
LEMMA ConnectKeeps == ASSUME LoopInv, NEW p \in Peers, connect(p) PROVE LoopInv'
<1> DEFINE r == [sock[p] EXCEPT !.state = "queued"]
<1> USE DEF LoopInv
<1>1. /\ sock[p].state = "away" /\ sock' = [sock EXCEPT ![p] = r]
      /\ backlog' = Append(backlog, p)
      /\ UNCHANGED <<pc, i, client_fds, read_fds, listening, running>>
  BY DEF connect
<1>2. r \in Socket /\ Sane(r) /\ r.fd = sock[p].fd /\ r.state = "queued"
      /\ r.alive = sock[p].alive /\ r.unread = sock[p].unread /\ r.begun = sock[p].begun
  BY <1>1 DEF SockPart, Socket, Sane, Truthful
<1> HIDE DEF r
<1>3. SockPart' /\ sock'[p] = r /\ \A q \in Peers : q # p => sock'[q] = sock[q]
  BY <1>1, <1>2, OneSocket
<1>4. /\ Open' = Open
      /\ \A q \in Peers : sock'[q].fd = sock[q].fd
      /\ \A fd : OwnerOf(fd)' = OwnerOf(fd)
  BY <1>1, <1>2, <1>3, SameOwners
<1>5. TablePart'
  BY <1>1, <1>4, TableKept
<1>6. QueuePart'
  <2>1. /\ backlog' \in Seq(Peers) /\ Len(backlog') = Len(backlog) + 1 /\ Len(backlog) \in Nat
        /\ \A k \in 1 .. Len(backlog) : backlog'[k] = backlog[k] /\ backlog[k] \in Peers
        /\ backlog'[Len(backlog) + 1] = p
    BY <1>1, AppendProperties, LenProperties, ElementOfSeq DEF QueuePart
  <2>2. \A k \in 1 .. Len(backlog) : backlog[k] # p
    BY <1>1 DEF QueuePart
  <2>3. ASSUME NEW k \in 1 .. Len(backlog')
        PROVE  sock'[backlog'[k]].state = "queued"
    BY <1>2, <1>3, <2>1, <2>2 DEF QueuePart
  <2>4. ASSUME NEW j \in 1 .. Len(backlog'), NEW k \in 1 .. Len(backlog'), backlog'[j] = backlog'[k]
        PROVE  j = k
    BY <2>1, <2>2, <2>4 DEF QueuePart
  <2> QED
    BY <2>1, <2>3, <2>4 DEF QueuePart
<1>7. ReadyPart'
  BY <1>1, <1>2, <1>3, <1>4, ReadyKept DEF Readable, Open
<1>8. PlacePart'
  BY <1>1, PlaceKept, AppendProperties DEF QueuePart
<1> QED
  BY <1>3, <1>5, <1>6, <1>7, <1>8

\* A client that only speaks or goes away keeps its place.
LEMMA SpeakingKeeps ==
  ASSUME LoopInv, NEW p \in Peers, NEW r \in Socket, Sane(r), sock' = [sock EXCEPT ![p] = r],
         r.fd = sock[p].fd, r.state = sock[p].state, r.unread # << >> \/ ~r.alive,
         UNCHANGED <<pc, i, client_fds, read_fds, listening, running, backlog>>
  PROVE  LoopInv'
<1> USE DEF LoopInv
<1>1. SockPart' /\ sock'[p] = r /\ \A q \in Peers : q # p => sock'[q] = sock[q]
  BY OneSocket
<1>2. /\ Open' = Open
      /\ \A q \in Peers : sock'[q].fd = sock[q].fd
      /\ \A fd : OwnerOf(fd)' = OwnerOf(fd)
  BY <1>1, SameOwners
<1>3. TablePart'
  BY <1>2, TableKept
<1>4. QueuePart'
  BY <1>1, ElementOfSeq DEF QueuePart
<1>5. ReadyPart'
  BY <1>1, <1>2, ReadyKept DEF Readable, Open
<1>6. PlacePart'
  BY PlaceKept
<1> QED
  BY <1>1, <1>3, <1>4, <1>5, <1>6

LEMMA WriteKeeps ==
  ASSUME LoopInv, NEW p \in Peers, NEW byte \in Bytes, write(p, byte)
  PROVE  LoopInv'
<1> DEFINE r == [sock[p] EXCEPT !.unread = Append(@, byte), !.begun = (byte = "part")]
<1>1. sock' = [sock EXCEPT ![p] = r]
  BY DEF write
<1>2. /\ sock[p] \in Socket /\ (sock[p].state = "open" <=> sock[p].fd # NoFd)
      /\ sock[p].unread \in Seq(Bytes)
  BY DEF LoopInv, SockPart, Sane, Socket
<1>3. /\ Append(sock[p].unread, byte) \in Seq(Bytes)
      /\ Append(sock[p].unread, byte) # << >>
      /\ Append(sock[p].unread, byte)[Len(Append(sock[p].unread, byte))] = byte
  BY <1>2, AppendProperties
<1>4. /\ r \in Socket /\ r.fd = sock[p].fd /\ r.state = sock[p].state
      /\ r.unread = Append(sock[p].unread, byte) /\ r.begun = (byte = "part")
  BY <1>2, <1>3 DEF Socket
<1>5. Sane(r)
  BY <1>2, <1>3, <1>4 DEF Sane, Truthful
<1> HIDE DEF r
<1> QED
  BY <1>1, <1>3, <1>4, <1>5, SpeakingKeeps DEF write

LEMMA DieKeeps == ASSUME LoopInv, NEW p \in Peers, die(p) PROVE LoopInv'
<1> DEFINE r == [sock[p] EXCEPT !.alive = FALSE, !.begun = FALSE]
<1>1. sock' = [sock EXCEPT ![p] = r]
  BY DEF die
<1>2. sock[p] \in Socket /\ (sock[p].state = "open" <=> sock[p].fd # NoFd)
  BY DEF LoopInv, SockPart, Sane
<1>3. r \in Socket /\ r.fd = sock[p].fd /\ r.state = sock[p].state /\ ~r.alive
  BY <1>2 DEF Socket
<1>4. Sane(r)
  BY <1>2, <1>3 DEF Sane, Truthful
<1> HIDE DEF r
<1> QED
  BY <1>1, <1>3, <1>4, SpeakingKeeps DEF die

-----------------------------------------------------------------------------
(***************************************************************************)
(* The steps of the loop that leave the connections alone.                 *)
(***************************************************************************)
LEMMA WiresKept ==
  ASSUME LoopInv, UNCHANGED <<client_fds, backlog, sock>>
  PROVE  /\ SockPart' /\ TablePart' /\ QueuePart'
         /\ \A fd : Ready(fd)' <=> Ready(fd)
BY DEF LoopInv, SockPart, TablePart, QueuePart, Open, OwnerOf, Ready, Readable

\* Outside a round nothing is said to be ready.
LEMMA BetweenRounds ==
  ASSUME pc' \in {"while", "build", "select", "done", "exited"}
  PROVE  ReadyPart'
BY DEF ReadyPart, ReadsWhatIsReady

LEMMA TurnKeeps == ASSUME LoopInv, while_running \/ build_set PROVE LoopInv'
<1>1. /\ pc' \in {"build", "done", "select"}
      /\ UNCHANGED <<i, client_fds, read_fds, listening, running, backlog, sock>>
  BY DEF while_running, build_set
<1>2. PlacePart'
  BY <1>1 DEF LoopInv, PlacePart
<1> QED
  BY <1>1, <1>2, WiresKept, BetweenRounds DEF LoopInv

LEMMA ShutdownKeeps == ASSUME LoopInv, handle_shutdown PROVE LoopInv'
<1>1. UNCHANGED <<i, client_fds, read_fds, listening, backlog, sock>> /\ running' = FALSE
  BY DEF handle_shutdown
<1>2. SockPart' /\ TablePart' /\ QueuePart' /\ \A fd : Ready(fd)' <=> Ready(fd)
  BY <1>1, WiresKept
<1>3. CASE pc = "select"
  <2>1. pc' = "while"
    BY <1>3 DEF handle_shutdown
  <2>2. PlacePart'
    BY <1>1, <2>1 DEF LoopInv, PlacePart
  <2> QED
    BY <1>2, <2>1, <2>2, BetweenRounds DEF LoopInv
<1>4. CASE pc # "select"
  <2>1. pc' = pc
    BY <1>4 DEF handle_shutdown
  <2>2. PlacePart'
    BY <1>1, <2>1 DEF LoopInv, PlacePart
  <2>3. \A fd : OwnerOf(fd)' = OwnerOf(fd)
    BY <1>1 DEF OwnerOf, Open
  <2>4. ReadyPart'
    BY <1>1, <2>1, <2>3, ReadyKept DEF LoopInv, Readable
  <2> QED
    BY <1>2, <2>2, <2>4 DEF LoopInv
<1> QED
  BY <1>3, <1>4

\* select() sets only descriptors with something to read.
LEMMA SelectKeeps == ASSUME LoopInv, select PROVE LoopInv'
<1>1. /\ pc' = "accept" /\ UNCHANGED <<i, client_fds, running, backlog, sock>>
      /\ listening' = (ListenerWatched /\ backlog # << >>)
      /\ read_fds' = {client_fds[s] : s \in Slots}
                        \cap {sock[p].fd : p \in {q \in Open : Readable(q)}}
  BY DEF select
<1>2. SockPart' /\ TablePart' /\ QueuePart' /\ \A fd : Ready(fd)' <=> Ready(fd)
  BY <1>1, WiresKept
<1>3. ASSUME NEW fd \in read_fds'
      PROVE  Ready(fd) /\ fd \in Fds
  <2>1. PICK p \in Open : Readable(p) /\ sock[p].fd = fd
    BY <1>1
  <2>2. p \in Peers /\ sock[p].state = "open"
    BY <2>1 DEF Open
  <2>3. sock[p].fd \in Fds
    BY <2>2 DEF LoopInv, SockPart, Sane, Socket
  <2> QED
    BY <2>1, <2>3 DEF Ready, OwnerOf
<1>4. ReadyPart'
  BY <1>1, <1>2, <1>3 DEF ReadyPart, ReadsWhatIsReady
<1>5. PlacePart'
  BY <1>1, <1>3 DEF LoopInv, PlacePart
<1> QED
  BY <1>2, <1>4, <1>5 DEF LoopInv

LEMMA NextSlotKeeps == ASSUME LoopInv, next_slot PROVE LoopInv'
<1>1. pc = "data" /\ UNCHANGED <<client_fds, running, backlog, sock>>
  BY DEF next_slot
<1>2. SockPart' /\ TablePart' /\ QueuePart' /\ \A fd : Ready(fd)' <=> Ready(fd)
  BY <1>1, WiresKept
<1>3. CASE Pending # {}
  <2>1. i' = Lowest(Pending) /\ pc' = "read" /\ UNCHANGED <<read_fds, listening>>
    BY <1>3 DEF next_slot
  <2>2. i' \in Pending
    BY <1>3, <2>1, LowestIs DEF Pending
  <2>3. i' \in Slots /\ i <= i' /\ IsSet(client_fds[i'])
    BY <2>2 DEF Pending
  <2>4. i \in Nat /\ i' \in Nat /\ i' \in 1 .. MaxClients + 1
    BY <2>3, SlotsAssumption DEF LoopInv, PlacePart, Slots
  <2>5. \A s \in Slots : i <= s /\ IsSet(client_fds[s]) => Ready(client_fds[s])
    <3> SUFFICES ASSUME NEW s \in Slots, i <= s, IsSet(client_fds[s])
                 PROVE  Ready(client_fds[s])
      OBVIOUS
    <3>1. i < s \/ i = s
      BY <2>4, SlotsAssumption DEF Slots
    <3> QED
      BY <1>1, <3>1 DEF LoopInv, ReadyPart
  <2>6. Ready(client_fds[i])'
    BY <1>1, <1>2, <2>3, <2>5
  <2>7. \A s \in Slots : i' < s => i <= s
    BY <2>3, <2>4, SlotsAssumption DEF Slots
  <2>8. (\A s \in Slots : i < s /\ IsSet(client_fds[s]) => Ready(client_fds[s]))'
    BY <1>1, <1>2, <2>1, <2>5, <2>7 DEF IsSet
  <2>9. ReadyPart'
    BY <1>1, <2>1, <2>6, <2>8 DEF ReadyPart, ReadsWhatIsReady, Ready
  <2>10. PlacePart'
    BY <1>1, <2>1, <2>3, <2>4 DEF LoopInv, PlacePart
  <2> QED
    BY <1>2, <2>9, <2>10 DEF LoopInv
<1>4. CASE Pending = {}
  <2>1. pc' = "while" /\ i' = 1 /\ read_fds' = {} /\ listening' = FALSE
    BY <1>4 DEF next_slot
  <2>2. 1 \in 1 .. MaxClients + 1
    BY SlotsAssumption
  <2>3. PlacePart'
    BY <1>1, <2>1, <2>2 DEF LoopInv, PlacePart
  <2> QED
    BY <1>2, <2>1, <2>3, BetweenRounds DEF LoopInv
<1> QED
  BY <1>3, <1>4

-----------------------------------------------------------------------------
(***************************************************************************)
(* Accepting: the connection at the head of the queue gets a descriptor    *)
(* that nobody has and a slot that is free, or is turned away.             *)
(***************************************************************************)
LEMMA QueueShrinks ==
  ASSUME QueuePart, backlog # << >>, backlog' = Tail(backlog),
         \A q \in Peers : q # Head(backlog) => sock'[q] = sock[q]
  PROVE  QueuePart'
<1>1. /\ backlog \in Seq(Peers) /\ Len(backlog) \in Nat \ {0} /\ Head(backlog) = backlog[1]
  BY EmptySeq DEF QueuePart
<1>2. /\ backlog' \in Seq(Peers) /\ Len(backlog') = Len(backlog) - 1
      /\ \A k \in 1 .. Len(backlog') : backlog'[k] = backlog[k + 1]
  BY <1>1, HeadTailProperties
<1>3. ASSUME NEW k \in 1 .. Len(backlog')
      PROVE  /\ k + 1 \in 1 .. Len(backlog) /\ k + 1 # 1 /\ 1 \in 1 .. Len(backlog)
             /\ backlog[k + 1] \in Peers /\ backlog[k + 1] # Head(backlog)
  <2>1. k + 1 \in 1 .. Len(backlog) /\ k + 1 # 1 /\ 1 \in 1 .. Len(backlog)
    BY <1>1, <1>2
  <2>2. backlog[k + 1] \in Peers
    BY <1>1, <2>1, ElementOfSeq
  <2>3. backlog[k + 1] # backlog[1]
    BY <2>1 DEF QueuePart
  <2> QED
    BY <1>1, <2>1, <2>2, <2>3
<1>4. \A k \in 1 .. Len(backlog') : sock'[backlog'[k]].state = "queued"
  BY <1>2, <1>3 DEF QueuePart
<1>5. ASSUME NEW j \in 1 .. Len(backlog'), NEW k \in 1 .. Len(backlog'), backlog'[j] = backlog'[k]
      PROVE  j = k
  <2>1. j + 1 = k + 1
    BY <1>2, <1>3, <1>5 DEF QueuePart
  <2> QED
    BY <1>1, <1>2, <2>1
<1> QED
  BY <1>2, <1>4, <1>5 DEF QueuePart

LEMMA AcceptKeeps == ASSUME LoopInv, accept PROVE LoopInv'
<1> USE DEF LoopInv
<1>1. /\ pc = "accept" /\ pc' = "data" /\ i' = 1
      /\ UNCHANGED <<read_fds, listening, running>>
  BY DEF accept
<1>2. PlacePart'
  <2>1. 1 \in 1 .. MaxClients + 1
    BY SlotsAssumption
  <2> QED
    BY <1>1, <2>1 DEF PlacePart
<1>3. ASSUME \A s \in Slots : IsSet(client_fds'[s]) => Ready(client_fds[s])'
      PROVE  ReadyPart'
  BY <1>1, <1>3 DEF ReadyPart, ReadsWhatIsReady, IsSet
<1>4. CASE ~listening
  <2>1. UNCHANGED <<client_fds, backlog, sock>>
    BY <1>4 DEF accept
  <2>2. SockPart' /\ TablePart' /\ QueuePart' /\ \A fd : Ready(fd)' <=> Ready(fd)
    BY <2>1, WiresKept
  <2>3. ReadyPart'
    BY <1>1, <1>3, <2>1, <2>2 DEF ReadyPart, IsSet
  <2> QED
    BY <1>2, <2>2, <2>3
<1>5. CASE listening
  <2> DEFINE h == Head(backlog)
  <2>1. backlog # << >> /\ h \in Peers /\ sock[h].state = "queued" /\ sock[h] \in Socket
        /\ sock[h].fd = NoFd /\ backlog' = Tail(backlog) /\ Sane(sock[h])
    <3>1. backlog # << >> /\ backlog' = Tail(backlog)
      BY <1>1, <1>5 DEF PlacePart, accept
    <3>2. h = backlog[1] /\ 1 \in 1 .. Len(backlog) /\ h \in Peers
      BY <3>1, EmptySeq, HeadTailProperties DEF QueuePart
    <3>3. sock[h].state = "queued"
      BY <3>2 DEF QueuePart
    <3> QED
      BY <3>1, <3>2, <3>3 DEF SockPart, Sane
  <2>2. CASE FreeSlots # {}
    <3>1. PICK fd \in FreeFds :
            /\ sock' = [sock EXCEPT ![h].state = "open", ![h].fd = fd]
            /\ client_fds' = [client_fds EXCEPT ![SlotFor] = fd]
      BY <1>5, <2>2 DEF accept
    <3> DEFINE r == [sock[h] EXCEPT !.state = "open", !.fd = fd]
               t == SlotFor
    <3>2. fd \in Fds /\ fd # NoFd /\ \A p \in Open : sock[p].fd # fd
      BY NoFdAssumption DEF FreeFds
    <3>3. t \in Slots /\ client_fds[t] = NoFd
      BY <2>2, LowestIs DEF SlotFor, FreeSlots
    <3>4. r \in Socket /\ r.state = "open" /\ r.fd = fd /\ Sane(r)
      BY <2>1, <3>2 DEF Socket, Sane, Truthful
    <3>5. sock' = [sock EXCEPT ![h] = r]
      BY <2>1, <3>1 DEF SockPart
    <3>6. client_fds' = [client_fds EXCEPT ![t] = fd]
      BY <3>1
    <3> HIDE DEF h, r, t
    <3>7. SockPart' /\ sock'[h] = r /\ \A q \in Peers : q # h => sock'[q] = sock[q]
      BY <2>1, <3>4, <3>5, OneSocket
    <3>8. h \notin Open /\ Open \subseteq Peers /\ Open' = Open \cup {h}
      BY <2>1, <3>4, <3>7 DEF Open
    <3>9. /\ client_fds' \in [Slots -> Fds \cup {NoFd}] /\ client_fds'[t] = fd
          /\ \A s \in Slots : s # t => client_fds'[s] = client_fds[s]
      BY <3>2, <3>3, <3>6 DEF TablePart
    <3>10. TablePart'
      <4>1. \A p, q \in Open' : sock'[p].fd = sock'[q].fd => p = q
        BY <3>2, <3>4, <3>7, <3>8 DEF TablePart
      <4>2. \A p \in Open' : \E s \in Slots : client_fds'[s] = sock'[p].fd
        <5>1. ASSUME NEW p \in Open PROVE \E s \in Slots : client_fds'[s] = sock'[p].fd
          <6>1. PICK s \in Slots : client_fds[s] = sock[p].fd
            BY DEF TablePart
          <6>2. sock[p].fd # NoFd
            BY DEF Open, SockPart, Sane
          <6> QED
            BY <3>3, <3>7, <3>8, <3>9, <6>1, <6>2
        <5> QED
          BY <3>3, <3>4, <3>7, <3>8, <3>9, <5>1
      <4>3. \A s \in Slots : client_fds'[s] # NoFd => \E p \in Open' : sock'[p].fd = client_fds'[s]
        BY <3>3, <3>4, <3>7, <3>8, <3>9 DEF TablePart
      <4>4. ASSUME NEW s \in Slots, s # t PROVE client_fds[s] # fd
        BY <3>2 DEF TablePart
      <4>5. \A s, u \in Slots : client_fds'[s] = client_fds'[u] /\ client_fds'[s] # NoFd => s = u
        BY <3>3, <3>9, <4>4 DEF TablePart
      <4> QED
        BY <3>9, <4>1, <4>2, <4>3, <4>5 DEF TablePart
    <3>11. QueuePart'
      BY <2>1, <3>7, QueueShrinks DEF h
    <3>12. ASSUME NEW s \in Slots, IsSet(client_fds'[s])
           PROVE  Ready(client_fds[s])'
      <4>1. Ready(client_fds'[s])
        BY <1>1, <3>12 DEF ReadyPart, IsSet
      <4>2. PICK p \in Open : sock[p].fd = client_fds'[s] /\ Readable(p)
        BY <4>1 DEF Ready, OwnerOf
      <4>3. p \in Peers /\ sock'[p] = sock[p] /\ p \in Open'
        BY <3>7, <3>8, <4>2
      <4> QED
        BY <4>2, <4>3 DEF Ready, OwnerOf, Readable
    <3>13. ReadyPart'
      BY <1>3, <3>12
    <3> QED
      BY <1>2, <3>7, <3>10, <3>11, <3>13
  <2>3. CASE FreeSlots = {}
    <3>1. sock' = [sock EXCEPT ![h] = ClosedSocket] /\ UNCHANGED client_fds
      BY <1>5, <2>3 DEF accept
    <3>2. /\ ClosedSocket \in Socket /\ Sane(ClosedSocket)
          /\ ClosedSocket.fd = NoFd /\ ClosedSocket.state = "closed"
      BY DEF ClosedSocket, Socket, Sane, Truthful
    <3> HIDE DEF h
    <3>3. SockPart' /\ sock'[h] = ClosedSocket /\ \A q \in Peers : q # h => sock'[q] = sock[q]
      BY <2>1, <3>1, <3>2, OneSocket
    <3>4. /\ Open' = Open
          /\ \A q \in Peers : sock'[q].fd = sock[q].fd
          /\ \A fd : OwnerOf(fd)' = OwnerOf(fd)
      BY <2>1, <3>2, <3>3, SameOwners
    <3>5. TablePart'
      BY <3>1, <3>4, TableKept
    <3>6. QueuePart'
      BY <2>1, <3>3, QueueShrinks DEF h
    <3>7. h \notin Open /\ Open \subseteq Peers
      BY <2>1 DEF Open
    <3>8. \A p \in Open : Readable(p)' <=> Readable(p)
      BY <3>3, <3>7 DEF Readable
    <3>9. \A fd : Ready(fd) => Ready(fd)'
      BY <3>4, <3>8 DEF Ready, OwnerOf
    <3>10. ReadyPart'
      BY <1>1, <1>3, <3>1, <3>9 DEF ReadyPart, IsSet
    <3> QED
      BY <1>2, <3>3, <3>5, <3>6, <3>10
  <2> QED
    BY <2>2, <2>3
<1> QED
  BY <1>4, <1>5

-----------------------------------------------------------------------------
(***************************************************************************)
(* Reading: the slot is that of one connection, and the others stay as     *)
(* they are.                                                               *)
(***************************************************************************)
LEMMA OthersReady ==
  ASSUME LoopInv, pc \in {"read", "reading"}, NEW p \in OwnerOf(client_fds[i]),
         \A q \in Peers : q # p => sock'[q] = sock[q],
         \A s \in Slots : i < s => client_fds'[s] = client_fds[s],
         UNCHANGED read_fds,
         NEW s \in Slots, i < s, IsSet(client_fds'[s])
  PROVE  Ready(client_fds[s])'
<1>1. i \in Slots /\ i \in Nat /\ s # i
  BY SlotsAssumption DEF LoopInv, PlacePart, Slots
<1>2. p \in Open /\ sock[p].fd = client_fds[i] /\ client_fds[i] # NoFd
  BY DEF OwnerOf, Open, LoopInv, SockPart, Sane
<1>3. client_fds'[s] = client_fds[s]
  BY <1>1
<1>4. Ready(client_fds[s])
  BY <1>3 DEF LoopInv, ReadyPart, IsSet
<1>5. PICK q \in Open : sock[q].fd = client_fds[s] /\ Readable(q)
  BY <1>4 DEF Ready, OwnerOf
<1>6. q # p
  <2> SUFFICES ASSUME q = p PROVE FALSE
    OBVIOUS
  <2>1. client_fds[i] = client_fds[s]
    BY <1>2, <1>5
  <2>2. \A j, k \in Slots : client_fds[j] = client_fds[k] /\ client_fds[j] # NoFd => j = k
    BY DEF LoopInv, TablePart
  <2> QED
    BY <1>1, <1>2, <2>1, <2>2
<1>7. q \in Peers /\ sock'[q] = sock[q] /\ q \in Open'
  BY <1>5, <1>6 DEF Open
<1> QED
  BY <1>3, <1>5, <1>7 DEF Ready, OwnerOf, Readable

\* What a read takes off a connection leaves it in order, and a client that has
\* nothing more under way after the first part of a message is inside it.
LEMMA TakingOne ==
  ASSUME SockPart, NEW p \in Peers, sock[p].unread # << >>
  PROVE  LET r == [sock[p] EXCEPT !.unread = Tail(@)]
         IN  /\ r \in Socket /\ Sane(r) /\ r.fd = sock[p].fd /\ r.state = sock[p].state
             /\ r.alive = sock[p].alive /\ r.begun = sock[p].begun
             /\ Head(sock[p].unread) = "part" => r.unread # << >> \/ ~r.alive \/ r.begun
<1> DEFINE u == sock[p].unread
           v == Tail(u)
           r == [sock[p] EXCEPT !.unread = v]
<1>1. sock[p] \in Socket /\ Sane(sock[p]) /\ u \in Seq(Bytes) /\ u # << >>
  BY DEF SockPart, Socket
<1>2. /\ v \in Seq(Bytes) /\ Len(v) = Len(u) - 1 /\ Len(u) \in Nat \ {0} /\ Head(u) = u[1]
      /\ \A k \in 1 .. Len(v) : v[k] = u[k + 1]
  BY <1>1, HeadTailProperties, EmptySeq
<1>3. v # << >> => v[Len(v)] = u[Len(u)]
  <2>1. v # << >> => Len(v) \in Nat \ {0}
    BY <1>2, EmptySeq
  <2> QED
    BY <1>2, <2>1
<1>4. v = << >> => u[Len(u)] = Head(u)
  <2>1. v = << >> => Len(v) = 0
    BY EmptySeq
  <2>2. Len(v) = 0 => Len(u) = 1
    BY <1>2
  <2> QED
    BY <1>2, <2>1, <2>2
<1>5. /\ r \in Socket /\ r.fd = sock[p].fd /\ r.state = sock[p].state
      /\ r.alive = sock[p].alive /\ r.begun = sock[p].begun /\ r.unread = v
  BY <1>1, <1>2 DEF Socket
<1> HIDE DEF u, v, r
<1>6. sock[p].alive => (sock[p].begun <=> u[Len(u)] = "part")
  BY <1>1 DEF Sane, Truthful, u
<1>7. Sane(r)
  BY <1>1, <1>3, <1>5, <1>6 DEF Sane, Truthful
<1>8. Head(u) = "part" => v # << >> \/ ~sock[p].alive \/ sock[p].begun
  BY <1>4, <1>6
<1> QED
  BY <1>5, <1>7, <1>8 DEF r, u, v

LEMMA TakingKeeps ==
  ASSUME LoopInv, pc \in {"read", "reading"}, NEW p \in OwnerOf(client_fds[i]),
         NEW r \in Socket, Sane(r), sock' = [sock EXCEPT ![p] = r],
         r.fd = sock[p].fd, r.state = sock[p].state,
         UNCHANGED <<client_fds, read_fds, listening, running, backlog>>
  PROVE  /\ SockPart' /\ TablePart' /\ QueuePart'
         /\ sock'[p] = r /\ p \in Peers /\ \A fd : OwnerOf(fd)' = OwnerOf(fd)
         /\ \A s \in Slots : i < s /\ IsSet(client_fds'[s]) => Ready(client_fds[s])'
<1> USE DEF LoopInv
<1>1. p \in Peers
  BY DEF OwnerOf, Open
<1>2. SockPart' /\ sock'[p] = r /\ \A q \in Peers : q # p => sock'[q] = sock[q]
  BY <1>1, OneSocket
<1>3. /\ Open' = Open
      /\ \A q \in Peers : sock'[q].fd = sock[q].fd
      /\ \A fd : OwnerOf(fd)' = OwnerOf(fd)
  BY <1>1, <1>2, SameOwners
<1>4. TablePart'
  BY <1>3, TableKept
<1>5. QueuePart'
  BY <1>1, <1>2, ElementOfSeq DEF QueuePart
<1>6. ASSUME NEW s \in Slots, i < s, IsSet(client_fds'[s])
      PROVE  Ready(client_fds[s])'
  BY <1>2, <1>6, OthersReady
<1> QED
  BY <1>1, <1>2, <1>3, <1>4, <1>5, <1>6

LEMMA ReadPartKeeps == ASSUME LoopInv, read_part PROVE LoopInv'
<1>1. /\ pc \in {"read", "reading"} /\ pc' = "reading"
      /\ UNCHANGED <<i, client_fds, read_fds, listening, running, backlog>>
  BY DEF read_part
<1>2. PICK p \in OwnerOf(client_fds[i]) :
        HasByte(p, {"part"}) /\ sock' = [sock EXCEPT ![p].unread = Tail(@)]
  BY DEF read_part
<1> DEFINE r == [sock[p] EXCEPT !.unread = Tail(@)]
<1>3. p \in Peers /\ sock[p].unread # << >> /\ Head(sock[p].unread) = "part"
  BY <1>2 DEF OwnerOf, Open, HasByte
<1>4. /\ r \in Socket /\ Sane(r) /\ r.fd = sock[p].fd /\ r.state = sock[p].state
      /\ r.unread # << >> \/ ~r.alive \/ r.begun
  BY <1>3, TakingOne DEF LoopInv
<1>5. sock' = [sock EXCEPT ![p] = r]
  BY <1>2
<1> HIDE DEF r
<1>6. /\ SockPart' /\ TablePart' /\ QueuePart'
      /\ sock'[p] = r /\ \A fd : OwnerOf(fd)' = OwnerOf(fd)
      /\ \A s \in Slots : i < s /\ IsSet(client_fds'[s]) => Ready(client_fds[s])'
  BY <1>1, <1>4, <1>5, TakingKeeps
<1>7. ReadsWhatIsReady'
  BY <1>1, <1>2, <1>4, <1>6 DEF ReadsWhatIsReady, Readable
<1>8. ReadyPart'
  BY <1>1, <1>6, <1>7 DEF ReadyPart, IsSet
<1>9. PlacePart'
  BY <1>1 DEF LoopInv, PlacePart
<1> QED
  BY <1>6, <1>8, <1>9 DEF LoopInv

\* The next slot is not beyond the one after the last.
LEMMA OneOn ==
  ASSUME LoopInv, pc \in {"read", "reading"}
  PROVE  /\ i + 1 \in 1 .. MaxClients + 1
         /\ \A s \in Slots : i + 1 <= s => i < s
         /\ \A s \in Slots : i + 1 < s \/ i + 1 = s => i < s
<1>1. i \in 1 .. MaxClients /\ MaxClients \in Nat
  BY SlotsAssumption DEF LoopInv, PlacePart, Slots
<1> QED
  BY <1>1 DEF Slots

LEMMA ReadLastKeeps == ASSUME LoopInv, read_last PROVE LoopInv'
<1>1. /\ pc \in {"read", "reading"} /\ pc' = "data" /\ i' = i + 1
      /\ UNCHANGED <<client_fds, read_fds, listening, running, backlog>>
  BY DEF read_last
<1>2. PICK p \in OwnerOf(client_fds[i]) :
        HasByte(p, {"last"}) /\ sock' = [sock EXCEPT ![p].unread = Tail(@)]
  BY DEF read_last
<1> DEFINE r == [sock[p] EXCEPT !.unread = Tail(@)]
<1>3. p \in Peers /\ sock[p].unread # << >>
  BY <1>2 DEF OwnerOf, Open, HasByte
<1>4. r \in Socket /\ Sane(r) /\ r.fd = sock[p].fd /\ r.state = sock[p].state
  BY <1>3, TakingOne DEF LoopInv
<1>5. sock' = [sock EXCEPT ![p] = r]
  BY <1>2
<1> HIDE DEF r
<1>6. /\ SockPart' /\ TablePart' /\ QueuePart'
      /\ \A s \in Slots : i < s /\ IsSet(client_fds'[s]) => Ready(client_fds[s])'
  BY <1>1, <1>4, <1>5, TakingKeeps
<1>7. ReadyPart'
  BY <1>1, <1>6, OneOn DEF ReadyPart, ReadsWhatIsReady, IsSet
<1>8. PlacePart'
  BY <1>1, OneOn DEF LoopInv, PlacePart
<1> QED
  BY <1>6, <1>7, <1>8 DEF LoopInv

LEMMA CloseKeeps == ASSUME LoopInv, read_and_close PROVE LoopInv'
<1> USE DEF LoopInv
<1>1. /\ pc \in {"read", "reading"} /\ pc' = "data" /\ i' = i + 1
      /\ client_fds' = [client_fds EXCEPT ![i] = NoFd]
      /\ UNCHANGED <<read_fds, listening, running, backlog>>
  BY DEF read_and_close, FreeSlot
<1>2. PICK p \in OwnerOf(client_fds[i]) : sock' = [sock EXCEPT ![p] = ClosedSocket]
  BY DEF read_and_close
<1>3. p \in Open /\ p \in Peers /\ sock[p].fd = client_fds[i] /\ i \in Slots /\ i \in Nat
  BY <1>1, <1>2, SlotsAssumption DEF OwnerOf, Open, PlacePart, Slots
<1>4. /\ ClosedSocket \in Socket /\ Sane(ClosedSocket)
      /\ ClosedSocket.fd = NoFd /\ ClosedSocket.state = "closed"
  BY DEF ClosedSocket, Socket, Sane, Truthful
<1>5. SockPart' /\ sock'[p] = ClosedSocket /\ \A q \in Peers : q # p => sock'[q] = sock[q]
  BY <1>2, <1>3, <1>4, OneSocket
<1>6. Open' = Open \ {p} /\ Open \subseteq Peers
  BY <1>4, <1>5 DEF Open
<1>7. /\ client_fds' \in [Slots -> Fds \cup {NoFd}] /\ client_fds'[i] = NoFd
      /\ \A s \in Slots : s # i => client_fds'[s] = client_fds[s]
  BY <1>1, <1>3 DEF TablePart
<1>8. TablePart'
  <2>1. \A q, k \in Open' : sock'[q].fd = sock'[k].fd => q = k
    BY <1>5, <1>6 DEF TablePart
  <2>2. ASSUME NEW q \in Open' PROVE \E s \in Slots : client_fds'[s] = sock'[q].fd
    <3>1. q \in Open /\ q # p /\ q \in Peers /\ sock'[q] = sock[q]
      BY <1>5, <1>6
    <3>2. PICK s \in Slots : client_fds[s] = sock[q].fd
      BY <3>1 DEF TablePart
    <3>3. s # i
      BY <1>3, <3>1, <3>2 DEF TablePart
    <3> QED
      BY <1>7, <3>1, <3>2, <3>3
  <2>3. ASSUME NEW s \in Slots, client_fds'[s] # NoFd
        PROVE  \E q \in Open' : sock'[q].fd = client_fds'[s]
    <3>1. s # i /\ client_fds'[s] = client_fds[s]
      BY <1>7, <2>3
    <3>2. PICK q \in Open : sock[q].fd = client_fds[s]
      BY <2>3, <3>1 DEF TablePart
    <3>3. q # p
      BY <1>3, <2>3, <3>1, <3>2 DEF TablePart
    <3> QED
      BY <1>5, <1>6, <3>1, <3>2, <3>3
  <2>4. \A s, t \in Slots : client_fds'[s] = client_fds'[t] /\ client_fds'[s] # NoFd => s = t
    BY <1>7 DEF TablePart
  <2> QED
    BY <1>7, <2>1, <2>2, <2>3, <2>4 DEF TablePart
<1>9. QueuePart'
  <2>1. \A k \in 1 .. Len(backlog) : backlog[k] \in Peers /\ backlog[k] # p
    BY <1>3, ElementOfSeq DEF QueuePart, Open
  <2> QED
    BY <1>1, <1>5, <2>1 DEF QueuePart
<1>10. ASSUME NEW s \in Slots, i < s, IsSet(client_fds'[s])
       PROVE  Ready(client_fds[s])'
  <2>1. \A u \in Slots : i < u => client_fds'[u] = client_fds[u]
    BY <1>3, <1>7, SlotsAssumption DEF Slots
  <2> QED
    BY <1>1, <1>2, <1>5, <1>10, <2>1, OthersReady
<1>11. ReadyPart'
  BY <1>1, <1>10, OneOn DEF ReadyPart, ReadsWhatIsReady, IsSet
<1>12. PlacePart'
  BY <1>1, OneOn DEF PlacePart
<1> QED
  BY <1>5, <1>8, <1>9, <1>11, <1>12

-----------------------------------------------------------------------------
(***************************************************************************)
(* The end, the beginning, and the theorems.                               *)
(***************************************************************************)
LEMMA DestroyKeeps == ASSUME LoopInv, server_destroy PROVE LoopInv'
<1>1. /\ pc' = "exited" /\ UNCHANGED <<i, read_fds, listening, running>>
      /\ sock' = [p \in Peers |-> IF sock[p].state = "away" THEN sock[p] ELSE ClosedSocket]
      /\ client_fds' = [s \in Slots |-> NoFd]
      /\ backlog' = << >>
  BY DEF server_destroy
<1>2. /\ ClosedSocket \in Socket /\ Sane(ClosedSocket) /\ ClosedSocket.state = "closed"
  BY DEF ClosedSocket, Socket, Sane, Truthful
<1>3. ASSUME NEW p \in Peers
      PROVE  sock'[p] \in Socket /\ Sane(sock'[p]) /\ sock'[p].state # "open"
  <2>1. CASE sock[p].state = "away"
    BY <1>1, <2>1 DEF LoopInv, SockPart
  <2>2. CASE sock[p].state # "away"
    BY <1>1, <1>2, <2>2
  <2> QED
    BY <2>1, <2>2
<1>4. SockPart'
  <2>1. sock' \in [Peers -> Socket]
    BY <1>1, <1>3
  <2> QED
    BY <1>3, <2>1 DEF SockPart
<1>5. Open' = {}
  BY <1>3 DEF Open
<1>6. TablePart'
  BY <1>1, <1>5 DEF TablePart
<1>7. QueuePart'
  <2>1. backlog' \in Seq(Peers) /\ Len(backlog') = 0
    BY <1>1, EmptySeq
  <2> QED
    BY <2>1 DEF QueuePart
<1>8. PlacePart'
  BY <1>1 DEF LoopInv, PlacePart
<1> QED
  BY <1>1, <1>4, <1>6, <1>7, <1>8, BetweenRounds DEF LoopInv

LEMMA LoopStarts == LoopInit => LoopInv
<1> SUFFICES ASSUME LoopInit PROVE LoopInv
  OBVIOUS
<1> DEFINE r == [state |-> "away", fd |-> NoFd, unread |-> << >>, begun |-> FALSE, alive |-> TRUE]
<1>1. r \in Socket /\ Sane(r) /\ r.state # "open"
  BY EmptySeq DEF Socket, Sane, Truthful
<1>2. sock = [p \in Peers |-> r]
  BY DEF LoopInit
<1> HIDE DEF r
<1>3. SockPart
  BY <1>1, <1>2 DEF SockPart
<1>4. Open = {}
  BY <1>1, <1>2 DEF Open
<1>5. TablePart
  BY <1>4 DEF LoopInit, TablePart
<1>6. QueuePart
  <2>1. backlog \in Seq(Peers) /\ Len(backlog) = 0
    BY EmptySeq DEF LoopInit
  <2> QED
    BY <2>1 DEF QueuePart
<1>7. ReadyPart
  BY DEF LoopInit, ReadyPart, ReadsWhatIsReady
<1>8. PlacePart
  <2>1. 1 \in 1 .. MaxClients + 1
    BY SlotsAssumption
  <2> QED
    BY <2>1 DEF LoopInit, PlacePart
<1> QED
  BY <1>3, <1>5, <1>6, <1>7, <1>8 DEF LoopInv

LEMMA LoopSteps == LoopInv /\ [LoopNext]_loopvars => LoopInv'
<1> SUFFICES ASSUME LoopInv, [LoopNext]_loopvars PROVE LoopInv'
  OBVIOUS
<1>1. CASE server_run
  <2>1. CASE while_running \/ build_set
    BY <2>1, TurnKeeps
  <2>2. CASE select
    BY <2>2, SelectKeeps
  <2>3. CASE accept
    BY <2>3, AcceptKeeps
  <2>4. CASE next_slot
    BY <2>4, NextSlotKeeps
  <2>5. CASE net_read_msg
    BY <2>5, ReadPartKeeps, ReadLastKeeps, CloseKeeps DEF net_read_msg
  <2>6. CASE server_destroy
    BY <2>6, DestroyKeeps
  <2> QED
    BY <1>1, <2>1, <2>2, <2>3, <2>4, <2>5, <2>6 DEF server_run
<1>2. CASE handle_shutdown
  BY <1>2, ShutdownKeeps
<1>3. ASSUME NEW p \in Peers, Client(p)
      PROVE  LoopInv'
  <2>1. CASE connect(p)
    BY <2>1, ConnectKeeps
  <2>2. CASE begin_message(p) \/ end_message(p)
    BY <2>2, WriteKeeps DEF begin_message, end_message, Bytes
  <2>3. CASE die(p)
    BY <2>3, DieKeeps
  <2> QED
    BY <1>3, <2>1, <2>2, <2>3 DEF Client
<1>4. CASE UNCHANGED loopvars
  <2>1. UNCHANGED <<pc, i, client_fds, read_fds, listening, running, backlog, sock>>
    BY <1>4 DEF loopvars
  <2>2. SockPart' /\ TablePart' /\ QueuePart'
    BY <2>1, WiresKept
  <2>3. ReadyPart'
    BY <2>1, ReadyKept DEF LoopInv, OwnerOf, Open, Readable
  <2>4. PlacePart'
    BY <2>1 DEF LoopInv, PlacePart
  <2> QED
    BY <2>2, <2>3, <2>4 DEF LoopInv
<1> QED
  BY <1>1, <1>2, <1>3, <1>4 DEF LoopNext

(***************************************************************************)
(* The invariant holds whatever the clients do and in whatever order       *)
(* connections come and go: of server_run, for any MAX_CLIENTS.            *)
(***************************************************************************)
THEOREM LoopInvariance == LoopSpec => []LoopInv
<1>1. LoopInit => LoopInv
  BY LoopStarts
<1>2. LoopInv /\ [LoopNext]_loopvars => LoopInv'
  BY LoopSteps
<1> QED
  BY <1>1, <1>2, PTL DEF LoopSpec

(***************************************************************************)
(* The loop's variables keep their shape, and the data loop never looks    *)
(* beyond the last slot.                                                   *)
(***************************************************************************)
THEOREM LoopTypeCorrect == LoopSpec => []LoopTypeOK
<1>1. LoopInv => LoopTypeOK
  <2> SUFFICES ASSUME LoopInv PROVE LoopTypeOK
    OBVIOUS
  <2>1. sock \in [Peers -> Socket]
    BY DEF LoopInv, SockPart
  <2>2. client_fds \in [Slots -> Fds \cup {NoFd}] /\ backlog \in Seq(Peers)
    BY DEF LoopInv, TablePart, QueuePart
  <2>3. /\ pc \in {"while", "build", "select", "accept", "data", "read", "reading", "done", "exited"}
        /\ i \in 1 .. MaxClients + 1 /\ read_fds \subseteq Fds
        /\ listening \in BOOLEAN /\ running \in BOOLEAN
    BY DEF LoopInv, PlacePart
  <2> QED
    BY <2>1, <2>2, <2>3 DEF LoopTypeOK
<1> QED
  BY <1>1, LoopInvariance, PTL

(***************************************************************************)
(* No accept, exit or lost connection leaks a descriptor or leaves a       *)
(* closed one in client_fds: every open connection is in one slot, and     *)
(* every slot in use is that of one open connection.                       *)
(***************************************************************************)
THEOREM NoDescriptorLeaks == LoopSpec => []SlotsMatchSockets
<1>1. LoopInv => SlotsMatchSockets
  <2> SUFFICES ASSUME LoopInv PROVE SlotsMatchSockets
    OBVIOUS
  <2> USE DEF LoopInv, TablePart
  <2>1. ASSUME NEW s \in Slots, client_fds[s] # NoFd
        PROVE  Cardinality(OwnerOf(client_fds[s])) = 1
    <3>1. PICK p \in Open : sock[p].fd = client_fds[s]
      BY <2>1
    <3>2. OwnerOf(client_fds[s]) = {p}
      BY <3>1 DEF OwnerOf
    <3> QED
      BY <3>2, FS_Singleton
  <2> QED
    BY <2>1 DEF SlotsMatchSockets
<1> QED
  BY <1>1, LoopInvariance, PTL

(***************************************************************************)
(* server_run reads only connections that select() found ready, although   *)
(* descriptors are closed and reused while it works through its snapshot,  *)
(* and waits inside a message only for a live client that is inside one.   *)
(***************************************************************************)
THEOREM NeverReadsBlindly == LoopSpec => []ReadsWhatIsReady
<1>1. LoopInv => ReadsWhatIsReady
  BY DEF LoopInv, ReadyPart
<1> QED
  BY <1>1, LoopInvariance, PTL
=============================================================================
