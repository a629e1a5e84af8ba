------------------------------- MODULE Server -------------------------------
(***************************************************************************)
(* The chat server: the message handlers of server_mng.c over the three    *)
(* tables of server.h (users, groups, free multicast addresses) and the    *)
(* set of client connections that the select() loop of server_net.c keeps. *)
(*                                                                         *)
(* The server is one thread.  It serves one message of one connection at a *)
(* time, so a handler, from the parsing of its value to the reply it       *)
(* writes, is one action.  The clients of this module are arbitrary        *)
(* speakers of the protocol: every request may follow every other.         *)
(***************************************************************************)
EXTENDS Naturals, Sequences, FiniteSets, SequencesExt

CONSTANTS
  Fds,          \* the socket descriptors the kernel may hand out
  NoFd,         \* the -1 of server.h
  Users,        \* user names
  Passwords,
  Groups,       \* group names
  Unparsed,     \* what a malformed value parses to
  PoolSize,     \* MULTICAST_POOL_SIZE
  MaxClients,   \* MAX_CLIENTS
  MaxGroups,    \* MAX_GROUPS
  MaxMembers,   \* MAX_MEMBERS_PER_GROUP
  AllocMayFail  \* whether malloc may return NULL once the server runs

ASSUME FdsAssumption == NoFd \notin Fds
ASSUME NamesAssumption == Unparsed \notin Users \cup Groups
ASSUME LimitsAssumption ==
  /\ PoolSize \in Nat
  /\ MaxClients \in Nat
  /\ MaxMembers \in Nat \ {0}
  /\ MaxGroups \in Nat
\* limits.h gives both the value 16: there is never an address without room for its group.
ASSUME PoolAssumption == PoolSize <= MaxGroups
ASSUME AllocAssumption == AllocMayFail \in BOOLEAN

VARIABLES
  client_fds,   \* the connections in the table the select() loop watches
  user_map,     \* user name |-> UserRecord, for the registered names
  group_map,    \* group name |-> GroupRecord, for the live groups
  mcast_queue,  \* the free multicast addresses, oldest first
  reply         \* what the last step wrote, and on which connection

vars == <<client_fds, user_map, group_map, mcast_queue, reply>>

\* 224.0.0.1 + i for i < MULTICAST_POOL_SIZE, all on one port.
Addrs == 1 .. PoolSize

UserRecord == [password : Passwords, logged_in : BOOLEAN, socket_fd : Fds \cup {NoFd}]
GroupRecord == [addr : Addrs, members : Seq(Fds), member_count : Nat]

ErrorCodes == {"NONE", "USER_EXISTS", "USER_NOT_FOUND", "WRONG_PASSWORD",
               "ALREADY_LOGGED_IN", "GROUP_NOT_FOUND", "GROUP_FULL",
               "NOT_IN_GROUP", "SERVER_FULL"}

\* addr is 0 in every reply but a GROUP_INFO.
Reply == [to : Fds \cup {NoFd}, tag : {"SILENCE", "SUCCESS", "ERROR", "GROUP_INFO"},
          code : ErrorCodes, addr : Addrs \cup {0}]

(***************************************************************************)
(* The messages a connection may carry.                                    *)
(***************************************************************************)
AuthRequests ==
  [tag : {"REGISTER", "LOGIN"}, uname : Users \cup {Unparsed}, pass : Passwords]
GroupRequests ==
  [tag : {"CREATE_GROUP", "JOIN_GROUP", "LEAVE_GROUP"}, gname : Groups \cup {Unparsed}]
SimpleRequests == [tag : {"LOGOUT", "EXIT", "UNKNOWN"}]
Requests == AuthRequests \cup GroupRequests \cup SimpleRequests

Silence == [to |-> NoFd, tag |-> "SILENCE", code |-> "NONE", addr |-> 0]
build_success_msg(fd) == [to |-> fd, tag |-> "SUCCESS", code |-> "NONE", addr |-> 0]
build_error_msg(fd, code) == [to |-> fd, tag |-> "ERROR", code |-> code, addr |-> 0]
build_group_info_msg(fd, addr) == [to |-> fd, tag |-> "GROUP_INFO", code |-> "NONE", addr |-> addr]

(***************************************************************************)
(* The containers: HashMap.c as partial functions, genqueue.c as a         *)
(* sequence that holds at most PoolSize items.                             *)
(***************************************************************************)
HashMap_Insert(map, key, value) ==
  [k \in DOMAIN map \cup {key} |-> IF k = key THEN value ELSE map[k]]
HashMap_Remove(map, keys) == Restrict(map, DOMAIN map \ keys)

\* Seeded faults: a ring that keeps one slot free; a stack instead of a queue.
QueueInsert_OneSlotShort(queue, items) ==
  IF Len(queue \o items) < PoolSize THEN queue \o items
                                    ELSE SubSeq(queue \o items, 1, PoolSize - 1)
QueueInsert_AtHead(queue, items) == items \o queue

\* Items that find the queue full are refused, and server_mng.c does not look.
QueueInsert(queue, items) ==
  IF Len(queue \o items) <= PoolSize THEN queue \o items
                                     ELSE SubSeq(queue \o items, 1, PoolSize)

\* Seeded fault: the item is read and stays in the queue.
QueueRemove_Peek(queue) == queue

\* The item taken is Head(queue).
QueueRemove(queue) == Tail(queue)

(***************************************************************************)
(* Lookups.                                                                *)
(***************************************************************************)
\* The records whose socket_fd is fd.  The code takes the first in hash
\* order; the handlers below may take any.
find_user_by_fd(fd) == {u \in DOMAIN user_map : user_map[u].socket_fd = fd}

MayManageGroups(fd) == \E u \in find_user_by_fd(fd) : user_map[u].logged_in
MustLogInFirst(fd) ==
  \/ find_user_by_fd(fd) = {}
  \/ \E u \in find_user_by_fd(fd) : ~user_map[u].logged_in

GroupsOf(fd) == {g \in DOMAIN group_map : fd \in ToSet(group_map[g].members)}

\* Seeded fault: the count is forgotten.
RemoveMember_NoDecrement(grp, fd) == [grp EXCEPT !.members = RemoveFirst(@, fd)]

RemoveMember(grp, fd) ==
  [addr |-> grp.addr, members |-> RemoveFirst(grp.members, fd), member_count |-> grp.member_count - 1]

(***************************************************************************)
(* close_empty_group for each group of closed, in some order, out of the   *)
(* map groups.  An address whose pool entry cannot be allocated is lost.   *)
(***************************************************************************)
close_empty_group(groups, closed) ==
  /\ group_map' = HashMap_Remove(groups, closed)
  /\ \E saved \in SUBSET closed :
       /\ saved # closed => AllocMayFail
       /\ \E order \in SetToSeqs(saved) :
            mcast_queue' = QueueInsert(mcast_queue, [i \in DOMAIN order |-> groups[order[i]].addr])

\* Seeded fault: the count goes down whether or not fd was found.
WithoutMember_Unsearched(fd) == [g \in DOMAIN group_map |-> RemoveMember(group_map[g], fd)]

\* The groups as they are once fd is out of every member list.
WithoutMember(fd) ==
  [g \in DOMAIN group_map |->
     IF g \in GroupsOf(fd) THEN RemoveMember(group_map[g], fd) ELSE group_map[g]]

\* Seeded fault: closing one member too early.
EmptiedBy_OneLeft(fd) == {g \in GroupsOf(fd) : WithoutMember(fd)[g].member_count <= 1}

EmptiedBy(fd) == {g \in GroupsOf(fd) : WithoutMember(fd)[g].member_count = 0}

\* n_empty stops at MAX_GROUPS: an emptied group beyond it would stay in the map.
Remembered(emptied) ==
  {S \in SUBSET emptied :
     \/ S = emptied /\ Cardinality(emptied) <= MaxGroups
     \/ Cardinality(S) = MaxGroups}

\* Seeded fault: the record keeps its descriptor.
ClearSession_KeepsFd(fd) ==
  \/ find_user_by_fd(fd) = {} /\ UNCHANGED user_map
  \/ \E u \in find_user_by_fd(fd) : user_map' = [user_map EXCEPT ![u].logged_in = FALSE]

ClearSession(fd) ==
  \/ find_user_by_fd(fd) = {} /\ UNCHANGED user_map
  \/ \E u \in find_user_by_fd(fd) :
       user_map' = [user_map EXCEPT ![u] =
         [password |-> @.password, logged_in |-> FALSE, socket_fd |-> NoFd]]

\* Seeded fault: the user is cleared, the member lists are not.
cleanup_client_UserOnly(fd) == ClearSession(fd) /\ UNCHANGED <<group_map, mcast_queue>>

cleanup_client(fd) ==
  /\ \E closed \in Remembered(EmptiedBy(fd)) : close_empty_group(WithoutMember(fd), closed)
  /\ ClearSession(fd)

-----------------------------------------------------------------------------
(***************************************************************************)
(* The handlers.  Each is enabled on an open connection fd and a request   *)
(* msg, and writes one reply.                                              *)
(***************************************************************************)
Refuse(fd, code) == reply' = build_error_msg(fd, code)
Confirm(fd) == reply' = build_success_msg(fd)

handle_register(fd, msg) ==
  /\ \/ /\ msg.uname = Unparsed
        /\ Refuse(fd, "USER_NOT_FOUND")
        /\ UNCHANGED user_map
     \/ /\ msg.uname \in DOMAIN user_map
        /\ Refuse(fd, "USER_EXISTS")
        /\ UNCHANGED user_map
     \/ /\ msg.uname \in Users \ DOMAIN user_map
        /\ AllocMayFail
        /\ Refuse(fd, "SERVER_FULL")
        /\ UNCHANGED user_map
     \/ /\ msg.uname \in Users \ DOMAIN user_map
        /\ user_map' = HashMap_Insert(user_map, msg.uname,
             [password |-> msg.pass, logged_in |-> FALSE, socket_fd |-> NoFd])
        /\ Confirm(fd)
  /\ UNCHANGED <<client_fds, group_map, mcast_queue>>

\* A malformed value is answered like an unknown name: Unparsed is no key.
handle_login(fd, msg) ==
  /\ \/ /\ msg.uname \notin DOMAIN user_map
        /\ Refuse(fd, "USER_NOT_FOUND")
        /\ UNCHANGED user_map
     \/ /\ msg.uname \in DOMAIN user_map
        /\ user_map[msg.uname].password # msg.pass
        /\ Refuse(fd, "WRONG_PASSWORD")
        /\ UNCHANGED user_map
     \/ /\ msg.uname \in DOMAIN user_map
        /\ user_map[msg.uname].password = msg.pass
        /\ user_map[msg.uname].logged_in
        /\ Refuse(fd, "ALREADY_LOGGED_IN")
        /\ UNCHANGED user_map
     \/ /\ msg.uname \in DOMAIN user_map
        /\ user_map[msg.uname].password = msg.pass
        /\ ~user_map[msg.uname].logged_in
        /\ user_map' = [user_map EXCEPT ![msg.uname] =
             [password |-> @.password, logged_in |-> TRUE, socket_fd |-> fd]]
        /\ Confirm(fd)
  /\ UNCHANGED <<client_fds, group_map, mcast_queue>>

handle_logout(fd) ==
  /\ cleanup_client(fd)
  /\ Confirm(fd)
  /\ UNCHANGED client_fds

\* dispatch_message returns -1 and the loop closes the connection.
handle_exit(fd) ==
  /\ cleanup_client(fd)
  /\ Confirm(fd)
  /\ client_fds' = client_fds \ {fd}

\* ListPushTail's result is not looked at: the count may grow without the list.
AddMember(grp, fd, pushed) ==
  [addr |-> grp.addr,
   members |-> IF pushed THEN Append(grp.members, fd) ELSE grp.members,
   member_count |-> grp.member_count + 1]

Welcome(fd, grp) == reply' = build_group_info_msg(fd, grp.addr)

\* Seeded faults: no search for fd; a cap off by one.
add_member_Unsearched(fd, groups, g) ==
  \/ groups[g].member_count >= MaxMembers /\ group_map' = groups /\ Refuse(fd, "GROUP_FULL")
  \/ /\ groups[g].member_count < MaxMembers
     /\ group_map' = [groups EXCEPT ![g] = AddMember(@, fd, TRUE)]
     /\ Welcome(fd, groups[g])
add_member_OneTooMany(fd, groups, g) ==
  \/ /\ fd \in ToSet(groups[g].members) \/ groups[g].member_count > MaxMembers
     /\ group_map' = groups
     /\ Refuse(fd, "GROUP_FULL")
  \/ /\ fd \notin ToSet(groups[g].members)
     /\ groups[g].member_count <= MaxMembers
     /\ group_map' = [groups EXCEPT ![g] = AddMember(@, fd, TRUE)]
     /\ Welcome(fd, groups[g])

\* add_member into group g of groups, with the reply its two callers give
\* when it returns 0.  A member that asks again is told the address again.
add_member(fd, groups, g) ==
  \/ /\ fd \in ToSet(groups[g].members)
     /\ group_map' = groups
     /\ Welcome(fd, groups[g])
  \/ /\ fd \notin ToSet(groups[g].members)
     /\ groups[g].member_count >= MaxMembers
     /\ group_map' = groups
     /\ Refuse(fd, "GROUP_FULL")
  \/ /\ fd \notin ToSet(groups[g].members)
     /\ groups[g].member_count < MaxMembers
     /\ \E pushed \in BOOLEAN :
          /\ ~pushed => AllocMayFail
          /\ group_map' = [groups EXCEPT ![g] = AddMember(@, fd, pushed)]
     /\ Welcome(fd, groups[g])

handle_create_group(fd, msg) ==
  /\ \/ /\ MustLogInFirst(fd)
        /\ Refuse(fd, "USER_NOT_FOUND")
        /\ UNCHANGED <<group_map, mcast_queue>>
     \/ /\ MayManageGroups(fd)
        /\ msg.gname = Unparsed
        /\ Refuse(fd, "GROUP_NOT_FOUND")
        /\ UNCHANGED <<group_map, mcast_queue>>
     \/ /\ MayManageGroups(fd)
        /\ msg.gname \in DOMAIN group_map
        /\ Refuse(fd, "GROUP_FULL")    \* there is no ERR_GROUP_EXISTS
        /\ UNCHANGED <<group_map, mcast_queue>>
     \/ /\ MayManageGroups(fd)
        /\ msg.gname \in Groups \ DOMAIN group_map
        /\ mcast_queue = << >>
        /\ Refuse(fd, "SERVER_FULL")
        /\ UNCHANGED <<group_map, mcast_queue>>
     \/ \* the record, its list or its map entry cannot be allocated
        /\ MayManageGroups(fd)
        /\ msg.gname \in Groups \ DOMAIN group_map
        /\ mcast_queue # << >>
        /\ AllocMayFail
        /\ mcast_queue' = QueueInsert(QueueRemove(mcast_queue), <<Head(mcast_queue)>>)
        /\ Refuse(fd, "SERVER_FULL")
        /\ UNCHANGED group_map
     \/ /\ MayManageGroups(fd)
        /\ msg.gname \in Groups \ DOMAIN group_map
        /\ mcast_queue # << >>
        /\ mcast_queue' = QueueRemove(mcast_queue)
        /\ add_member(fd, HashMap_Insert(group_map, msg.gname,
             [addr |-> Head(mcast_queue), members |-> << >>, member_count |-> 0]), msg.gname)
  /\ UNCHANGED <<client_fds, user_map>>

handle_join_group(fd, msg) ==
  /\ \/ /\ MustLogInFirst(fd)
        /\ Refuse(fd, "USER_NOT_FOUND")
        /\ UNCHANGED group_map
     \/ /\ MayManageGroups(fd)
        /\ msg.gname \notin DOMAIN group_map    \* unknown, or malformed
        /\ Refuse(fd, "GROUP_NOT_FOUND")
        /\ UNCHANGED group_map
     \/ /\ MayManageGroups(fd)
        /\ msg.gname \in DOMAIN group_map
        /\ add_member(fd, group_map, msg.gname)
  /\ UNCHANGED <<client_fds, user_map, mcast_queue>>

\* Nobody asks who is logged in: membership is enough to leave.
handle_leave_group(fd, msg) ==
  /\ \/ /\ msg.gname \notin DOMAIN group_map
        /\ Refuse(fd, "GROUP_NOT_FOUND")
        /\ UNCHANGED <<group_map, mcast_queue>>
     \/ /\ msg.gname \in DOMAIN group_map \ GroupsOf(fd)
        /\ Refuse(fd, "NOT_IN_GROUP")
        /\ UNCHANGED <<group_map, mcast_queue>>
     \/ /\ msg.gname \in GroupsOf(fd)
        /\ LET groups == [group_map EXCEPT ![msg.gname] = RemoveMember(@, fd)]
           IN  close_empty_group(groups, {g \in {msg.gname} : groups[g].member_count = 0})
        /\ Confirm(fd)
  /\ UNCHANGED <<client_fds, user_map>>

dispatch_message(fd, msg) ==
  \/ msg.tag = "REGISTER" /\ handle_register(fd, msg)
  \/ msg.tag = "LOGIN" /\ handle_login(fd, msg)
  \/ msg.tag = "LOGOUT" /\ handle_logout(fd)
  \/ msg.tag = "EXIT" /\ handle_exit(fd)
  \/ msg.tag = "CREATE_GROUP" /\ handle_create_group(fd, msg)
  \/ msg.tag = "JOIN_GROUP" /\ handle_join_group(fd, msg)
  \/ msg.tag = "LEAVE_GROUP" /\ handle_leave_group(fd, msg)
  \/ /\ msg.tag = "UNKNOWN"
     /\ Refuse(fd, "NONE")
     /\ UNCHANGED <<client_fds, user_map, group_map, mcast_queue>>

(***************************************************************************)
(* What the select() loop does around the handlers.                        *)
(***************************************************************************)
accept_client(fd) ==
  /\ Cardinality(client_fds) < MaxClients
  /\ client_fds' = client_fds \cup {fd}
  /\ reply' = Silence
  /\ UNCHANGED <<user_map, group_map, mcast_queue>>

\* No slot is free: the connection gets an error and is closed at once.
reject_client(fd) ==
  /\ Cardinality(client_fds) >= MaxClients
  /\ Refuse(fd, "SERVER_FULL")
  /\ UNCHANGED <<client_fds, user_map, group_map, mcast_queue>>

client_disconnected(fd) ==
  /\ cleanup_client(fd)
  /\ client_fds' = client_fds \ {fd}
  /\ reply' = Silence

Init ==
  /\ client_fds = {}
  /\ user_map = << >>
  /\ group_map = << >>
  /\ mcast_queue = [i \in 1 .. PoolSize |-> i]
  /\ reply = Silence

Connect == \E fd \in Fds \ client_fds : accept_client(fd) \/ reject_client(fd)
Serve == \E fd \in client_fds, msg \in Requests : dispatch_message(fd, msg)
Disconnect == \E fd \in client_fds : client_disconnected(fd)

Next == Connect \/ Serve \/ Disconnect

Spec == Init /\ [][Next]_vars

-----------------------------------------------------------------------------
(***************************************************************************)
(* Properties.                                                             *)
(***************************************************************************)
\* The shape of the state.
TypeOK ==
  /\ client_fds \in SUBSET Fds
  /\ DOMAIN user_map \in SUBSET Users /\ user_map \in [DOMAIN user_map -> UserRecord]
  /\ DOMAIN group_map \in SUBSET Groups /\ group_map \in [DOMAIN group_map -> GroupRecord]
  /\ mcast_queue \in Seq(Addrs) /\ Len(mcast_queue) <= PoolSize
  /\ reply \in Reply

\* No multicast address is in two places: no two live groups share one, and
\* none of the free ones is in use or pooled twice (the groups are told apart
\* by their address alone, server_net.c:92-93).
NoSharedAddress ==
  /\ \A i, j \in DOMAIN mcast_queue : mcast_queue[i] = mcast_queue[j] => i = j
  /\ \A g, h \in DOMAIN group_map : group_map[g].addr = group_map[h].addr => g = h
  /\ \A g \in DOMAIN group_map : group_map[g].addr \notin ToSet(mcast_queue)

\* The pool never leaks while allocations succeed: every address is free or
\* held by a live group, however groups were opened, shared and abandoned.
AddressesConserved ==
  ~AllocMayFail =>
    Addrs \subseteq ToSet(mcast_queue) \cup {group_map[g].addr : g \in DOMAIN group_map}

\* A connection is in a member list at most once, so that taking its first
\* occurrence out (cleanup_group_action, handle_leave_group) takes it out.
MembersListedOnce ==
  \A g \in DOMAIN group_map : LET m == group_map[g].members
                             IN  \A i, j \in DOMAIN m : m[i] = m[j] => i = j

\* While allocations succeed member_count is the length of the list, between 1
\* and the cap: no live group is empty, so closing at 0 closes every group.
MemberCountExact ==
  ~AllocMayFail =>
    \A g \in DOMAIN group_map :
      /\ group_map[g].member_count = Len(group_map[g].members)
      /\ group_map[g].member_count \in 1 .. MaxMembers

\* What MemberCountExact keeps when allocations fail: a count may be too high
\* (the group then never closes) but is never too low, so it never goes below
\* zero and no group closes under a member.
CountCovers ==
  \A g \in DOMAIN group_map :
    /\ Len(group_map[g].members) <= group_map[g].member_count
    /\ group_map[g].member_count \in 1 .. MaxMembers

\* Every member of a live group is an open connection with a logged-in user on
\* it: no logout, exit or disconnection leaves a connection behind in a list,
\* and a reused descriptor inherits no membership.
MembersAuthenticated ==
  \A g \in DOMAIN group_map : \A fd \in ToSet(group_map[g].members) :
    fd \in client_fds /\ MayManageGroups(fd)

\* A record carries a descriptor exactly while its user is logged in
\* (server.h:48): handle_create_group's second test never decides.
LoginConsistent ==
  \A u \in DOMAIN user_map : user_map[u].logged_in <=> user_map[u].socket_fd # NoFd

\* One step changes the memberships of at most one connection: a leave, an exit
\* or a lost connection never takes a second member out, nor closes a group
\* somebody else is in.
OthersKeepTheirGroups ==
  [][\E c \in Fds : \A fd \in Fds \ {c} : GroupsOf(fd)' = GroupsOf(fd)]_vars

Before(queue, a, b) == \E i, j \in DOMAIN queue : i < j /\ queue[i] = a /\ queue[j] = b

\* The address a group was opened with stays its address, and the one free for
\* longest is reused first (windows of a closed group still listen on the recent
\* ones): the free addresses keep their order, those that come back line up
\* behind them, and a new group takes the first.
OldestAddressFirst ==
  [][/\ \A g \in DOMAIN group_map \cap DOMAIN group_map' : group_map'[g].addr = group_map[g].addr
     /\ \A a \in ToSet(mcast_queue) \cap ToSet(mcast_queue') : \A b \in ToSet(mcast_queue') \ {a} :
          ~Before(mcast_queue, b, a) => Before(mcast_queue', a, b)
     /\ \A g \in DOMAIN group_map' \ DOMAIN group_map : group_map'[g].addr = Head(mcast_queue)]_vars

\* "socket_fd is set on login and cleared (-1) on logout or disconnect"
\* (server.h:48): a user is logged in only on a connection that is open.
NoStaleSession ==
  \A u \in DOMAIN user_map : user_map[u].logged_in => user_map[u].socket_fd \in client_fds

(***************************************************************************)
(* The server implements the rooms of Rooms.                               *)
(***************************************************************************)
AbstractRooms ==
  [g \in DOMAIN group_map |->
     [addr |-> group_map[g].addr, members |-> ToSet(group_map[g].members)]]

R == INSTANCE Rooms WITH
       Clients <- Fds, Names <- Groups, Addresses <- Addrs, Capacity <- MaxMembers,
       present <- client_fds, rooms <- AbstractRooms

\* Every step of the server is a step of the abstract registry or changes
\* nothing in it: rooms open on an unused address, vanish with their last
\* member, never overfill, and a connection that is gone is in none of them.
RoomsRefinement == R!RoomsSpec
=============================================================================
