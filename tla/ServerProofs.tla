---------------------------- MODULE ServerProofs ----------------------------
(***************************************************************************)
(* Theorems about Server, for every value of its constants.                *)
(*                                                                         *)
(* The invariant is in two halves: GInv is about the groups and the pool,  *)
(* UInv about the users and the connections, and MembersAuthenticated ties *)
(* them.  Most steps leave one half alone.                                 *)
(***************************************************************************)
EXTENDS Server, ListLemmas

GType ==
  /\ DOMAIN group_map \in SUBSET Groups
  /\ group_map \in [DOMAIN group_map -> GroupRecord]
  /\ mcast_queue \in Seq(Addrs)
  /\ Len(mcast_queue) <= PoolSize

GInv ==
  /\ GType
  /\ NoSharedAddress
  /\ AddressesConserved
  /\ MembersListedOnce
  /\ CountCovers
  /\ MemberCountExact

UType ==
  /\ client_fds \in SUBSET Fds
  /\ DOMAIN user_map \in SUBSET Users
  /\ user_map \in [DOMAIN user_map -> UserRecord]

UInv == UType /\ LoginConsistent

IInv == GInv /\ UInv /\ MembersAuthenticated /\ reply \in Reply

-----------------------------------------------------------------------------
(***************************************************************************)
(* The address pool.                                                       *)
(***************************************************************************)
OwnAddresses(groups) ==
  \A g, h \in DOMAIN groups : groups[g].addr = groups[h].addr => g = h

\* There are no more live groups than addresses, hence no more than the
\* empty_names array of cleanup_client has room for.
LEMMA GroupsAreFew ==
  ASSUME NEW groups, groups \in [DOMAIN groups -> GroupRecord], OwnAddresses(groups),
         NEW D \in SUBSET DOMAIN groups
  PROVE  IsFiniteSet(D) /\ Cardinality(D) \in Nat /\ Cardinality(D) <= MaxGroups
<1> DEFINE a == [g \in D |-> groups[g].addr]
<1>1. a \in [D -> Addrs]
  BY DEF GroupRecord
<1>2. a \in Injection(D, Addrs)
  BY <1>1, Fun_IsInj DEF OwnAddresses
<1> HIDE DEF a
<1>3. IsFiniteSet(Addrs) /\ Cardinality(Addrs) = PoolSize
  <2>1. 1 \in Int /\ PoolSize \in Int
    BY LimitsAssumption
  <2>2. IsFiniteSet(1 .. PoolSize)
        /\ Cardinality(1 .. PoolSize) = IF 1 > PoolSize THEN 0 ELSE PoolSize - 1 + 1
    BY <2>1, FS_Interval
  <2> QED
    BY LimitsAssumption, <2>2 DEF Addrs
<1>4. IsFiniteSet(D) /\ Cardinality(D) <= PoolSize
  BY <1>2, <1>3, FS_Injection
<1>5. Cardinality(D) \in Nat
  BY <1>4, FS_CardinalityType
<1> QED
  BY <1>4, <1>5, LimitsAssumption, PoolAssumption

\* So the cap of empty_names never bites: every emptied group is closed.
LEMMA AllRemembered ==
  ASSUME NEW D, IsFiniteSet(D), Cardinality(D) \in Nat, Cardinality(D) <= MaxGroups,
         NEW S \in Remembered(D)
  PROVE  S = D
<1>1. CASE Cardinality(S) = MaxGroups
  <2>1. S \in SUBSET D
    BY DEF Remembered
  <2>2. Cardinality(S) <= Cardinality(D) /\ (Cardinality(D) = Cardinality(S) => D = S)
    BY <2>1, FS_Subset
  <2> QED
    BY <1>1, <2>2, LimitsAssumption
<1> QED
  BY <1>1 DEF Remembered

\* QueueInsert finds room for the addresses of closed groups, because all of
\* these and the free ones are different: its ignored result is a success.
LEMMA AddressesFit ==
  ASSUME NEW q \in Seq(Addrs), Distinct(q), NEW items \in Seq(Addrs), Distinct(items),
         ToSet(q) \cap ToSet(items) = {}
  PROVE  /\ QueueInsert(q, items) \in Seq(Addrs)
         /\ Len(QueueInsert(q, items)) <= PoolSize
         /\ Distinct(QueueInsert(q, items))
         /\ ToSet(QueueInsert(q, items)) = ToSet(q) \cup ToSet(items)
<1>1. /\ q \o items \in Seq(Addrs)
      /\ Distinct(q \o items)
      /\ ToSet(q \o items) = ToSet(q) \cup ToSet(items)
  BY ConcatDistinct
<1>2. Len(q \o items) <= PoolSize
  BY <1>1, LimitsAssumption, DistinctBound DEF Addrs
<1>3. QueueInsert(q, items) = q \o items
  BY <1>2 DEF QueueInsert
<1> QED
  BY <1>1, <1>2, <1>3

\* close_empty_group: the groups of closed leave the map and, unless an
\* allocation fails, their addresses join the pool.
LEMMA CloseEffect ==
  ASSUME NEW groups, groups \in [DOMAIN groups -> GroupRecord], OwnAddresses(groups),
         NEW closed \in SUBSET DOMAIN groups,
         mcast_queue \in Seq(Addrs), Distinct(mcast_queue),
         \A g \in DOMAIN groups : groups[g].addr \notin ToSet(mcast_queue),
         close_empty_group(groups, closed)
  PROVE  /\ group_map' = [g \in DOMAIN groups \ closed |-> groups[g]]
         /\ mcast_queue' \in Seq(Addrs)
         /\ Len(mcast_queue') <= PoolSize
         /\ Distinct(mcast_queue')
         /\ ToSet(mcast_queue) \subseteq ToSet(mcast_queue')
         /\ ToSet(mcast_queue') \subseteq ToSet(mcast_queue) \cup {groups[g].addr : g \in closed}
         /\ ~AllocMayFail => {groups[g].addr : g \in closed} \subseteq ToSet(mcast_queue')
<1>1. group_map' = [g \in DOMAIN groups \ closed |-> groups[g]]
  BY DEF close_empty_group, HashMap_Remove, Restrict
<1>2. PICK saved \in SUBSET closed :
        /\ saved # closed => AllocMayFail
        /\ \E order \in SetToSeqs(saved) :
             mcast_queue' = QueueInsert(mcast_queue, [i \in DOMAIN order |-> groups[order[i]].addr])
  BY DEF close_empty_group
<1>0. PICK order \in SetToSeqs(saved) :
        mcast_queue' = QueueInsert(mcast_queue, [i \in DOMAIN order |-> groups[order[i]].addr])
  BY <1>2
<1>3. IsFiniteSet(saved)
  BY GroupsAreFew
<1>4. order \in Seq(saved) /\ Distinct(order) /\ ToSet(order) = saved
  BY <1>3, OrderOfSet
<1> DEFINE items == [i \in DOMAIN order |-> groups[order[i]].addr]
<1>5. DOMAIN order = 1 .. Len(order) /\ Len(order) \in Nat /\ \A i \in DOMAIN order : order[i] \in saved
  BY <1>4, LenProperties DEF ToSet
<1>6. \A i \in DOMAIN order : items[i] \in Addrs
  BY <1>5 DEF GroupRecord
<1>7. items \in Seq(Addrs) /\ DOMAIN items = DOMAIN order
  <2>1. items \in [1 .. Len(order) -> Addrs]
    BY <1>5, <1>6
  <2> QED
    BY <1>5, <2>1, SeqDef
<1>8. Distinct(items)
  BY <1>4, <1>5, <1>7 DEF Distinct, OwnAddresses
<1>9. ToSet(items) = {groups[g].addr : g \in saved}
  <2>1. ToSet(items) \subseteq {groups[g].addr : g \in saved}
    BY <1>5, <1>7 DEF ToSet
  <2>2. ASSUME NEW g \in saved
        PROVE  groups[g].addr \in ToSet(items)
    <3>1. PICK i \in DOMAIN order : order[i] = g
      BY <1>4 DEF ToSet
    <3> QED
      BY <1>7, <3>1 DEF ToSet
  <2> QED
    BY <2>1, <2>2
<1>10. mcast_queue' = QueueInsert(mcast_queue, items)
  BY <1>0
<1> HIDE DEF items
<1>11. ToSet(mcast_queue) \cap ToSet(items) = {}
  BY <1>9
<1>12. /\ mcast_queue' \in Seq(Addrs)
       /\ Len(mcast_queue') <= PoolSize
       /\ Distinct(mcast_queue')
       /\ ToSet(mcast_queue') = ToSet(mcast_queue) \cup ToSet(items)
  BY <1>7, <1>8, <1>10, <1>11, AddressesFit
<1> QED
  BY <1>1, <1>2, <1>9, <1>12

-----------------------------------------------------------------------------
(***************************************************************************)
(* Leaving: handle_leave_group takes fd out of one group, cleanup_client   *)
(* out of all; the groups whose count falls to 0 are closed.               *)
(***************************************************************************)
Departed(fd, S) ==
  [g \in DOMAIN group_map |-> IF g \in S THEN RemoveMember(group_map[g], fd) ELSE group_map[g]]

Emptied(fd, S) == {g \in S : Departed(fd, S)[g].member_count = 0}

\* One member list, one departure.
LEMMA RemoveMemberEffect ==
  ASSUME GInv, NEW fd, NEW g \in GroupsOf(fd)
  PROVE  LET old == group_map[g]
             new == RemoveMember(old, fd)
         IN  /\ new \in GroupRecord
             /\ new.addr = old.addr
             /\ Distinct(new.members)
             /\ ToSet(new.members) = ToSet(old.members) \ {fd}
             /\ new.member_count = old.member_count - 1
             /\ Len(new.members) = Len(old.members) - 1
             /\ Len(new.members) <= new.member_count
<1> DEFINE old == group_map[g]
           new == RemoveMember(old, fd)
<1>1. /\ g \in DOMAIN group_map /\ fd \in ToSet(old.members)
      /\ old \in GroupRecord
      /\ Distinct(old.members)
      /\ Len(old.members) <= old.member_count
  BY DEF GInv, GType, GroupsOf, MembersListedOnce, CountCovers, Distinct
<1>2. /\ old.addr \in Addrs /\ old.members \in Seq(Fds) /\ old.member_count \in Nat
      /\ old = [addr |-> old.addr, members |-> old.members, member_count |-> old.member_count]
  BY <1>1 DEF GroupRecord
<1>3. /\ RemoveFirst(old.members, fd) \in Seq(Fds)
      /\ Len(RemoveFirst(old.members, fd)) = Len(old.members) - 1
      /\ Distinct(RemoveFirst(old.members, fd))
      /\ ToSet(RemoveFirst(old.members, fd)) = ToSet(old.members) \ {fd}
  BY <1>1, <1>2, RemoveFirstRemoves
<1>4. new = [addr |-> old.addr, members |-> RemoveFirst(old.members, fd),
             member_count |-> old.member_count - 1]
  BY DEF RemoveMember
<1>5. Len(old.members) \in Nat /\ Len(RemoveFirst(old.members, fd)) \in Nat
  BY <1>2, <1>3, LenProperties
<1>6. old.member_count - 1 \in Nat
  BY <1>1, <1>2, <1>3, <1>5
<1> HIDE DEF old, new
<1> QED
  <2>1. new \in GroupRecord
    BY <1>2, <1>3, <1>4, <1>6 DEF GroupRecord
  <2>2. Len(new.members) <= new.member_count
    BY <1>1, <1>2, <1>3, <1>4, <1>5
  <2> QED
    BY <1>3, <1>4, <2>1, <2>2 DEF old, new

\* fd leaves the groups of S: the half GInv survives, nobody else's membership
\* changes, and every group that is left keeps its address.
LEMMA DepartureEffect ==
  ASSUME GInv, NEW fd, NEW S \in SUBSET GroupsOf(fd),
         close_empty_group(Departed(fd, S), Emptied(fd, S))
  PROVE  /\ GInv'
         /\ DOMAIN group_map' = DOMAIN group_map \ Emptied(fd, S)
         /\ \A g \in DOMAIN group_map' :
              /\ group_map'[g].addr = group_map[g].addr
              /\ ToSet(group_map'[g].members) =
                   IF g \in S THEN ToSet(group_map[g].members) \ {fd} ELSE ToSet(group_map[g].members)
         /\ \A g \in Emptied(fd, S) : ToSet(group_map[g].members) = {fd}
<1> DEFINE groups == Departed(fd, S)
           closed == Emptied(fd, S)
<1>1. /\ DOMAIN groups = DOMAIN group_map
      /\ \A g \in DOMAIN groups \ S : groups[g] = group_map[g]
      /\ S \subseteq DOMAIN group_map
      /\ closed \subseteq S
  BY DEF Departed, Emptied, GroupsOf
<1>2. ASSUME NEW g \in S
      PROVE  /\ groups[g] \in GroupRecord
             /\ groups[g].addr = group_map[g].addr
             /\ Distinct(groups[g].members)
             /\ ToSet(groups[g].members) = ToSet(group_map[g].members) \ {fd}
             /\ groups[g].member_count = group_map[g].member_count - 1
             /\ Len(groups[g].members) = Len(group_map[g].members) - 1
             /\ Len(groups[g].members) <= groups[g].member_count
  <2>1. groups[g] = RemoveMember(group_map[g], fd)
    BY <1>1 DEF Departed
  <2>2. g \in GroupsOf(fd)
    OBVIOUS
  <2> QED
    BY <2>1, <2>2, RemoveMemberEffect
<1> HIDE DEF groups
<1>3. groups \in [DOMAIN groups -> GroupRecord]
  <2>1. \A g \in DOMAIN groups : groups[g] \in GroupRecord
    BY <1>1, <1>2 DEF GInv, GType
  <2>2. groups = [g \in DOMAIN groups |-> groups[g]]
    BY DEF groups, Departed
  <2> QED
    BY <2>1, <2>2
<1>4. \A g \in DOMAIN groups : groups[g].addr = group_map[g].addr
  BY <1>1, <1>2
<1>5. /\ OwnAddresses(groups)
      /\ mcast_queue \in Seq(Addrs) /\ Distinct(mcast_queue)
      /\ \A g \in DOMAIN groups : groups[g].addr \notin ToSet(mcast_queue)
  BY <1>1, <1>4 DEF OwnAddresses, GInv, GType, NoSharedAddress, Distinct
<1>6. close_empty_group(groups, closed)
  BY DEF groups
<1>7. /\ group_map' = [g \in DOMAIN groups \ closed |-> groups[g]]
      /\ mcast_queue' \in Seq(Addrs)
      /\ Len(mcast_queue') <= PoolSize
      /\ Distinct(mcast_queue')
      /\ ToSet(mcast_queue) \subseteq ToSet(mcast_queue')
      /\ ToSet(mcast_queue') \subseteq ToSet(mcast_queue) \cup {groups[g].addr : g \in closed}
      /\ ~AllocMayFail => {groups[g].addr : g \in closed} \subseteq ToSet(mcast_queue')
  <2>1. closed \in SUBSET DOMAIN groups
    BY <1>1
  <2> HIDE DEF closed
  <2> QED
    BY <1>3, <1>5, <1>6, <2>1, CloseEffect
<1>8. \A g \in closed : g \in S /\ groups[g].member_count = 0
  BY DEF Emptied, groups
<1>9. \A g \in S \ closed : groups[g].member_count # 0
  BY DEF Emptied, groups
<1> HIDE DEF closed
<1>10. /\ DOMAIN group_map' = DOMAIN group_map \ closed
       /\ \A g \in DOMAIN group_map' : group_map'[g] = groups[g]
  BY <1>1, <1>7
<1>11. GType'
  BY <1>1, <1>3, <1>7, <1>10 DEF GInv, GType, Addrs, GroupRecord
<1>12. NoSharedAddress'
  <2>1. \A g, h \in DOMAIN group_map' : group_map'[g].addr = group_map'[h].addr => g = h
    BY <1>1, <1>5, <1>10 DEF OwnAddresses
  <2>2. ASSUME NEW g \in DOMAIN group_map'
        PROVE  group_map'[g].addr \notin ToSet(mcast_queue')
    <3>1. group_map'[g].addr = groups[g].addr /\ g \in DOMAIN groups /\ g \notin closed
      BY <1>1, <1>10
    <3>2. groups[g].addr \notin ToSet(mcast_queue)
      BY <1>5, <3>1
    <3>3. groups[g].addr \notin {groups[h].addr : h \in closed}
      BY <1>1, <1>5, <1>8, <3>1 DEF OwnAddresses
    <3> QED
      BY <1>7, <3>1, <3>2, <3>3
  <2> QED
    BY <1>7, <2>1, <2>2 DEF NoSharedAddress, Distinct
<1>13. AddressesConserved'
  <2> SUFFICES ASSUME ~AllocMayFail, NEW x \in Addrs
               PROVE  \/ x \in ToSet(mcast_queue')
                      \/ \E g \in DOMAIN group_map' : x = group_map'[g].addr
    BY DEF AddressesConserved, Addrs
  <2>1. x \in ToSet(mcast_queue) \/ \E g \in DOMAIN group_map : x = group_map[g].addr
    BY DEF GInv, AddressesConserved
  <2>2. CASE x \in ToSet(mcast_queue)
    BY <1>7, <2>2
  <2>3. ASSUME NEW g \in DOMAIN group_map, x = group_map[g].addr
        PROVE  \/ x \in ToSet(mcast_queue')
               \/ \E h \in DOMAIN group_map' : x = group_map'[h].addr
    BY <1>1, <1>4, <1>7, <1>10, <2>3
  <2> QED
    BY <2>1, <2>2, <2>3
<1>14. ASSUME NEW g \in DOMAIN group_map'
       PROVE  /\ Distinct(group_map'[g].members)
              /\ Len(group_map'[g].members) <= group_map'[g].member_count
              /\ group_map'[g].member_count \in 1 .. MaxMembers
              /\ ~AllocMayFail => group_map'[g].member_count = Len(group_map'[g].members)
  <2>1. g \in DOMAIN group_map /\ g \notin closed /\ group_map'[g] = groups[g]
    BY <1>10
  <2>2. CASE g \in S
    <3>1. /\ group_map[g].member_count \in 1 .. MaxMembers
          /\ ~AllocMayFail => group_map[g].member_count = Len(group_map[g].members)
      BY <2>1 DEF GInv, CountCovers, MemberCountExact
    <3>2. groups[g].member_count # 0
      BY <1>9, <2>1, <2>2
    <3> QED
      BY <1>2, <2>1, <2>2, <3>1, <3>2, LimitsAssumption
  <2>3. CASE g \notin S
    BY <1>1, <2>1, <2>3 DEF GInv, CountCovers, MemberCountExact, MembersListedOnce, Distinct
  <2> QED
    BY <2>2, <2>3
<1>15. MembersListedOnce' /\ CountCovers'
  BY <1>14 DEF MembersListedOnce, CountCovers, Distinct
<1>16. MemberCountExact'
  BY <1>14 DEF MemberCountExact
<1>17. ASSUME NEW g \in closed
       PROVE  ToSet(group_map[g].members) = {fd}
  <2>1. /\ ToSet(groups[g].members) = ToSet(group_map[g].members) \ {fd}
        /\ Len(groups[g].members) <= 0 /\ groups[g].members \in Seq(Fds)
        /\ fd \in ToSet(group_map[g].members)
    BY <1>2, <1>8 DEF GroupsOf, GroupRecord
  <2>2. ToSet(groups[g].members) = {}
    BY <2>1, LenProperties DEF ToSet
  <2> QED
    BY <2>1, <2>2
<1>18. \A g \in DOMAIN group_map' :
         /\ group_map'[g].addr = group_map[g].addr
         /\ ToSet(group_map'[g].members) =
              IF g \in S THEN ToSet(group_map[g].members) \ {fd} ELSE ToSet(group_map[g].members)
  BY <1>1, <1>2, <1>4, <1>10
<1> QED
  BY <1>10, <1>11, <1>12, <1>13, <1>15, <1>16, <1>17, <1>18 DEF GInv, closed

-----------------------------------------------------------------------------
(***************************************************************************)
(* Arriving: add_member appends fd to the list of a group that is in the   *)
(* map already (join) or has just been put there (create).                 *)
(***************************************************************************)

\* A group with one more member, whether or not the list could be extended.
LEMMA AddMemberEffect ==
  ASSUME NEW grp \in GroupRecord, NEW fd \in Fds, NEW pushed \in BOOLEAN,
         Distinct(grp.members), fd \notin ToSet(grp.members),
         Len(grp.members) <= grp.member_count
  PROVE  LET new == AddMember(grp, fd, pushed)
         IN  /\ new \in GroupRecord
             /\ new.addr = grp.addr
             /\ Distinct(new.members)
             /\ ToSet(new.members) \subseteq ToSet(grp.members) \cup {fd}
             /\ pushed => ToSet(new.members) = ToSet(grp.members) \cup {fd}
             /\ ~pushed => ToSet(new.members) = ToSet(grp.members)
             /\ new.member_count = grp.member_count + 1
             /\ Len(new.members) <= new.member_count
             /\ pushed => Len(new.members) = Len(grp.members) + 1
<1> DEFINE new == AddMember(grp, fd, pushed)
<1>1. grp.addr \in Addrs /\ grp.members \in Seq(Fds) /\ grp.member_count \in Nat
  BY DEF GroupRecord
<1>2. /\ Append(grp.members, fd) \in Seq(Fds)
      /\ Len(Append(grp.members, fd)) = Len(grp.members) + 1
      /\ Distinct(Append(grp.members, fd))
      /\ ToSet(Append(grp.members, fd)) = ToSet(grp.members) \cup {fd}
  BY <1>1, AppendNew
<1>3. new = [addr |-> grp.addr,
             members |-> IF pushed THEN Append(grp.members, fd) ELSE grp.members,
             member_count |-> grp.member_count + 1]
  BY DEF AddMember
<1>4. Len(grp.members) \in Nat
  BY <1>1, LenProperties
<1> HIDE DEF new
<1>5. new \in GroupRecord
  BY <1>1, <1>2, <1>3 DEF GroupRecord
<1> QED
  BY <1>1, <1>2, <1>3, <1>4, <1>5 DEF new

\* add_member into the groups that join and create give it.  Group g may be new
\* and empty, its address just taken from the queue; all others are in order.
LEMMA ArrivalEffect ==
  ASSUME NEW groups, DOMAIN groups \in SUBSET Groups,
         groups \in [DOMAIN groups -> GroupRecord], OwnAddresses(groups),
         \A h \in DOMAIN groups :
           /\ Distinct(groups[h].members)
           /\ Len(groups[h].members) <= groups[h].member_count
           /\ groups[h].member_count <= MaxMembers
           /\ ~AllocMayFail => groups[h].member_count = Len(groups[h].members),
         NEW g \in DOMAIN groups, NEW fd \in Fds,
         \A h \in DOMAIN groups \ {g} : groups[h].member_count # 0,
         groups[g].member_count = 0 => groups[g].members = << >>,
         add_member(fd, groups, g)
  PROVE  /\ DOMAIN group_map' = DOMAIN groups
         /\ group_map' \in [DOMAIN groups -> GroupRecord]
         /\ \A h \in DOMAIN groups : group_map'[h].addr = groups[h].addr
         /\ \A h \in DOMAIN groups \ {g} : group_map'[h] = groups[h]
         /\ ToSet(group_map'[g].members) \subseteq ToSet(groups[g].members) \cup {fd}
         /\ \A h \in DOMAIN groups :
              /\ Distinct(group_map'[h].members)
              /\ Len(group_map'[h].members) <= group_map'[h].member_count
              /\ group_map'[h].member_count \in 1 .. MaxMembers
              /\ ~AllocMayFail => group_map'[h].member_count = Len(group_map'[h].members)
         /\ reply' \in Reply
<1>1. groups[g] \in GroupRecord /\ groups[g].addr \in Addrs
  BY DEF GroupRecord
<1>2. \A h \in DOMAIN groups : groups[h].member_count \in Nat
  BY DEF GroupRecord
<1>3. reply' \in Reply
  BY <1>1 DEF add_member, Welcome, Refuse, build_group_info_msg, build_error_msg, Reply, ErrorCodes
<1>4. CASE group_map' = groups /\ groups[g].member_count # 0
  <2>1. \A h \in DOMAIN groups : groups[h].member_count \in 1 .. MaxMembers
    BY <1>2, <1>4, LimitsAssumption
  <2> QED
    BY <1>3, <1>4, <2>1
<1>5. ASSUME fd \notin ToSet(groups[g].members), groups[g].member_count < MaxMembers,
             NEW pushed \in BOOLEAN, ~pushed => AllocMayFail,
             group_map' = [groups EXCEPT ![g] = AddMember(@, fd, pushed)]
      PROVE  /\ DOMAIN group_map' = DOMAIN groups
             /\ group_map' \in [DOMAIN groups -> GroupRecord]
             /\ \A h \in DOMAIN groups : group_map'[h].addr = groups[h].addr
             /\ \A h \in DOMAIN groups \ {g} : group_map'[h] = groups[h]
             /\ ToSet(group_map'[g].members) \subseteq ToSet(groups[g].members) \cup {fd}
             /\ \A h \in DOMAIN groups :
                  /\ Distinct(group_map'[h].members)
                  /\ Len(group_map'[h].members) <= group_map'[h].member_count
                  /\ group_map'[h].member_count \in 1 .. MaxMembers
                  /\ ~AllocMayFail => group_map'[h].member_count = Len(group_map'[h].members)
  <2> DEFINE new == AddMember(groups[g], fd, pushed)
  <2>1. /\ new \in GroupRecord
        /\ new.addr = groups[g].addr
        /\ Distinct(new.members)
        /\ ToSet(new.members) \subseteq ToSet(groups[g].members) \cup {fd}
        /\ new.member_count = groups[g].member_count + 1
        /\ Len(new.members) <= new.member_count
        /\ pushed => Len(new.members) = Len(groups[g].members) + 1
    BY <1>1, <1>5, AddMemberEffect
  <2>2. group_map' = [groups EXCEPT ![g] = new]
    BY <1>5
  <2> HIDE DEF new
  <2>3. group_map'[g] = new /\ \A h \in DOMAIN groups \ {g} : group_map'[h] = groups[h]
    BY <2>2
  <2>4. new.member_count \in 1 .. MaxMembers
    BY <1>2, <1>5, <2>1, LimitsAssumption
  <2>5. ~AllocMayFail => new.member_count = Len(new.members)
    BY <1>5, <2>1
  <2>6. \A h \in DOMAIN groups \ {g} : groups[h].member_count \in 1 .. MaxMembers
    BY <1>2, LimitsAssumption
  <2> QED
    BY <2>1, <2>2, <2>3, <2>4, <2>5, <2>6
<1>6. CASE fd \in ToSet(groups[g].members) /\ group_map' = groups
  <2>1. groups[g].members # << >>
    BY <1>6 DEF ToSet
  <2> QED
    BY <1>4, <1>6, <2>1
<1>7. CASE groups[g].member_count >= MaxMembers /\ group_map' = groups
  BY <1>4, <1>7, LimitsAssumption
<1> QED
  BY <1>3, <1>5, <1>6, <1>7 DEF add_member

-----------------------------------------------------------------------------
(***************************************************************************)
(* One lemma per handler: IInv survives it.                                *)
(***************************************************************************)

\* cleanup_client: fd is in no list any more, its user (one of them) is logged
\* out, and the users and memberships of the other connections are untouched.
LEMMA CleanupEffect ==
  ASSUME IInv, NEW fd \in Fds, cleanup_client(fd)
  PROVE  /\ GInv'
         /\ DOMAIN user_map' \in SUBSET Users
         /\ user_map' \in [DOMAIN user_map' -> UserRecord]
         /\ LoginConsistent'
         /\ \A g \in DOMAIN group_map' : \A c \in ToSet(group_map'[g].members) :
              c # fd /\ c \in client_fds /\ MayManageGroups(c)'
<1>1. PICK closed \in Remembered(EmptiedBy(fd)) : close_empty_group(WithoutMember(fd), closed)
  BY DEF cleanup_client
<1>2. WithoutMember(fd) = Departed(fd, GroupsOf(fd)) /\ EmptiedBy(fd) = Emptied(fd, GroupsOf(fd))
  BY DEF WithoutMember, Departed, EmptiedBy, Emptied
<1>3. closed = EmptiedBy(fd)
  <2>1. EmptiedBy(fd) \in SUBSET DOMAIN group_map
    BY DEF EmptiedBy, GroupsOf
  <2>2. group_map \in [DOMAIN group_map -> GroupRecord] /\ OwnAddresses(group_map)
    BY DEF IInv, GInv, GType, NoSharedAddress, OwnAddresses
  <2>3. /\ IsFiniteSet(EmptiedBy(fd)) /\ Cardinality(EmptiedBy(fd)) \in Nat
        /\ Cardinality(EmptiedBy(fd)) <= MaxGroups
    BY <2>1, <2>2, GroupsAreFew
  <2> QED
    BY <1>1, <2>3, AllRemembered
<1>4. /\ GInv'
      /\ DOMAIN group_map' \subseteq DOMAIN group_map
      /\ \A g \in DOMAIN group_map' :
           ToSet(group_map'[g].members) =
             IF g \in GroupsOf(fd) THEN ToSet(group_map[g].members) \ {fd} ELSE ToSet(group_map[g].members)
  <2>1. GroupsOf(fd) \in SUBSET GroupsOf(fd)
    OBVIOUS
  <2>2. close_empty_group(Departed(fd, GroupsOf(fd)), Emptied(fd, GroupsOf(fd)))
    BY <1>1, <1>2, <1>3
  <2>3. GInv
    BY DEF IInv
  <2> QED
    BY <2>1, <2>2, <2>3, DepartureEffect
<1>5. \/ find_user_by_fd(fd) = {} /\ user_map' = user_map
      \/ \E u \in find_user_by_fd(fd) : user_map' = [user_map EXCEPT ![u] =
           [password |-> @.password, logged_in |-> FALSE, socket_fd |-> NoFd]]
  BY DEF cleanup_client, ClearSession
<1>6. /\ DOMAIN user_map' \in SUBSET Users
      /\ user_map' \in [DOMAIN user_map' -> UserRecord]
      /\ LoginConsistent'
      /\ \A c \in Fds \ {fd} : MayManageGroups(c) => MayManageGroups(c)'
  <2>1. CASE user_map' = user_map
    BY <2>1 DEF IInv, UInv, UType, LoginConsistent, MayManageGroups, find_user_by_fd
  <2>2. ASSUME NEW u \in find_user_by_fd(fd),
               user_map' = [user_map EXCEPT ![u] =
                 [password |-> @.password, logged_in |-> FALSE, socket_fd |-> NoFd]]
        PROVE  <1>6!1 /\ <1>6!2 /\ <1>6!3 /\ <1>6!4
    <3>1. u \in DOMAIN user_map /\ user_map[u].socket_fd = fd
      BY DEF find_user_by_fd
    <3>2. /\ DOMAIN user_map' = DOMAIN user_map
          /\ user_map'[u] = [password |-> user_map[u].password, logged_in |-> FALSE, socket_fd |-> NoFd]
          /\ \A v \in DOMAIN user_map \ {u} : user_map'[v] = user_map[v]
      BY <2>2, <3>1
    <3>3. user_map'[u] \in UserRecord
      BY <3>1, <3>2 DEF IInv, UInv, UType, UserRecord
    <3>4. user_map' \in [DOMAIN user_map' -> UserRecord] /\ DOMAIN user_map' \in SUBSET Users
      BY <2>2, <3>2, <3>3 DEF IInv, UInv, UType
    <3>5. LoginConsistent'
      BY <3>2 DEF IInv, UInv, LoginConsistent
    <3>6. \A c \in Fds \ {fd} : MayManageGroups(c) => MayManageGroups(c)'
      BY <3>1, <3>2 DEF MayManageGroups, find_user_by_fd
    <3> QED
      BY <3>4, <3>5, <3>6
  <2> QED
    BY <1>5, <2>1, <2>2
<1>7. ASSUME NEW g \in DOMAIN group_map', NEW c \in ToSet(group_map'[g].members)
      PROVE  c # fd /\ c \in client_fds /\ MayManageGroups(c)'
  <2>1. c \in ToSet(group_map[g].members) /\ c # fd /\ g \in DOMAIN group_map
    BY <1>4 DEF GroupsOf
  <2>2. c \in client_fds /\ MayManageGroups(c)
    BY <2>1 DEF IInv, MembersAuthenticated
  <2> QED
    BY <1>6, <2>1, <2>2 DEF IInv, UInv, UType
<1> QED
  BY <1>4, <1>6, <1>7

LEMMA InitIInv == Init => IInv
<1> SUFFICES ASSUME Init PROVE IInv
  OBVIOUS
<1> USE DEF Init
<1>1. mcast_queue \in Seq(Addrs) /\ Len(mcast_queue) = PoolSize
  BY LimitsAssumption, SeqDef DEF Addrs
<1>2. DOMAIN mcast_queue = 1 .. PoolSize /\ ToSet(mcast_queue) = Addrs
  BY DEF ToSet, Addrs
<1>3. DOMAIN group_map = {} /\ group_map \in [{} -> GroupRecord]
  OBVIOUS
<1>4. DOMAIN user_map = {} /\ user_map \in [{} -> UserRecord]
  OBVIOUS
<1>5. GInv
  BY <1>1, <1>2, <1>3, LimitsAssumption
     DEF GInv, GType, NoSharedAddress, AddressesConserved, MembersListedOnce, CountCovers, MemberCountExact
<1>6. UInv /\ MembersAuthenticated
  BY <1>3, <1>4 DEF UInv, UType, LoginConsistent, MembersAuthenticated
<1>7. reply \in Reply
  BY DEF Silence, Reply, ErrorCodes
<1> QED
  BY <1>5, <1>6, <1>7 DEF IInv

\* What a step that leaves the groups, or the users, alone has to show.
LEMMA GroupsUntouched ==
  ASSUME IInv, UNCHANGED <<group_map, mcast_queue>>, UInv', reply' \in Reply,
         client_fds \subseteq client_fds',
         \A c \in Fds : MayManageGroups(c) => MayManageGroups(c)'
  PROVE  IInv'
<1>1. GInv'
  BY DEF IInv, GInv, GType, NoSharedAddress, AddressesConserved, MembersListedOnce,
         CountCovers, MemberCountExact, Addrs, GroupRecord
<1>2. MembersAuthenticated'
  <2> SUFFICES ASSUME NEW g \in DOMAIN group_map, NEW c \in ToSet(group_map[g].members)
               PROVE  c \in client_fds' /\ MayManageGroups(c)'
    BY DEF MembersAuthenticated
  <2>1. c \in client_fds /\ MayManageGroups(c)
    BY DEF IInv, MembersAuthenticated
  <2> QED
    BY <2>1 DEF IInv, UInv, UType
<1> QED
  BY <1>1, <1>2 DEF IInv

LEMMA UsersUntouched ==
  ASSUME IInv, UNCHANGED <<client_fds, user_map>>
  PROVE  UInv' /\ \A c : MayManageGroups(c)' = MayManageGroups(c)
BY DEF IInv, UInv, UType, LoginConsistent, MayManageGroups, find_user_by_fd, UserRecord

\* An error reply, with nothing else changed.
LEMMA RefusalKeepsIInv ==
  ASSUME IInv, NEW fd \in Fds, NEW code \in ErrorCodes, Refuse(fd, code),
         UNCHANGED <<client_fds, user_map, group_map, mcast_queue>>
  PROVE  IInv'
<1>1. reply' \in Reply
  BY DEF Refuse, build_error_msg, Reply
<1> QED
  BY <1>1, UsersUntouched, GroupsUntouched DEF IInv

LEMMA ConfirmIsReply ==
  ASSUME NEW fd \in Fds, Confirm(fd)
  PROVE  reply' \in Reply
BY DEF Confirm, build_success_msg, Reply, ErrorCodes

\* The record that handle_register adds is nobody's session yet.
LEMMA RegisterKeepsIInv ==
  ASSUME IInv, NEW fd \in client_fds, NEW msg \in AuthRequests, handle_register(fd, msg)
  PROVE  IInv'
<1>1. fd \in Fds /\ msg.pass \in Passwords
  BY DEF IInv, UInv, UType, AuthRequests
<1>2. CASE \E code \in ErrorCodes : Refuse(fd, code) /\ UNCHANGED user_map
  BY <1>1, <1>2, RefusalKeepsIInv DEF handle_register
<1>3. ASSUME msg.uname \in Users \ DOMAIN user_map, Confirm(fd),
             user_map' = HashMap_Insert(user_map, msg.uname,
               [password |-> msg.pass, logged_in |-> FALSE, socket_fd |-> NoFd])
      PROVE  IInv'
  <2> DEFINE rec == [password |-> msg.pass, logged_in |-> FALSE, socket_fd |-> NoFd]
  <2>1. /\ DOMAIN user_map' = DOMAIN user_map \cup {msg.uname}
        /\ user_map'[msg.uname] = rec
        /\ \A u \in DOMAIN user_map : user_map'[u] = user_map[u]
    BY <1>3 DEF HashMap_Insert
  <2>2. rec \in UserRecord
    BY <1>1 DEF UserRecord
  <2>3. user_map' \in [DOMAIN user_map' -> UserRecord]
    <3>1. \A u \in DOMAIN user_map' : user_map'[u] \in UserRecord
      BY <2>1, <2>2 DEF IInv, UInv, UType
    <3>2. user_map' = [u \in DOMAIN user_map' |-> user_map'[u]]
      BY <1>3 DEF HashMap_Insert
    <3> QED
      BY <3>1, <3>2
  <2>4. UInv'
    <3>1. UType'
      BY <1>3, <2>1, <2>3 DEF IInv, UInv, UType, handle_register
    <3>2. rec.logged_in = FALSE /\ rec.socket_fd = NoFd
      OBVIOUS
    <3>3. \A u \in DOMAIN user_map' :
            user_map'[u].logged_in <=> user_map'[u].socket_fd # NoFd
      BY <2>1, <3>2 DEF IInv, UInv, LoginConsistent
    <3> QED
      BY <3>1, <3>3 DEF UInv, LoginConsistent
  <2>5. \A c \in Fds : MayManageGroups(c) => MayManageGroups(c)'
    BY <2>1 DEF MayManageGroups, find_user_by_fd
  <2>6. reply' \in Reply
    BY <1>1, <1>3, ConfirmIsReply
  <2> QED
    BY <2>4, <2>5, <2>6, GroupsUntouched DEF handle_register
<1> QED
  BY <1>2, <1>3 DEF handle_register, ErrorCodes

\* The user that logs in had no descriptor, so no connection loses its user.
LEMMA LoginKeepsIInv ==
  ASSUME IInv, NEW fd \in client_fds, NEW msg \in AuthRequests, handle_login(fd, msg)
  PROVE  IInv'
<1>1. fd \in Fds
  BY DEF IInv, UInv, UType
<1>2. CASE \E code \in ErrorCodes : Refuse(fd, code) /\ UNCHANGED user_map
  BY <1>1, <1>2, RefusalKeepsIInv DEF handle_login
<1>3. ASSUME msg.uname \in DOMAIN user_map, ~user_map[msg.uname].logged_in, Confirm(fd),
             user_map' = [user_map EXCEPT ![msg.uname] =
               [password |-> @.password, logged_in |-> TRUE, socket_fd |-> fd]]
      PROVE  IInv'
  <2> DEFINE u == msg.uname
  <2>1. /\ DOMAIN user_map' = DOMAIN user_map
        /\ user_map'[u] = [password |-> user_map[u].password, logged_in |-> TRUE, socket_fd |-> fd]
        /\ \A v \in DOMAIN user_map \ {u} : user_map'[v] = user_map[v]
    BY <1>3
  <2>2. user_map'[u] \in UserRecord
    BY <1>1, <1>3, <2>1 DEF IInv, UInv, UType, UserRecord
  <2>3. user_map' \in [DOMAIN user_map' -> UserRecord]
    BY <1>3, <2>1, <2>2 DEF IInv, UInv, UType
  <2>4. UInv'
    BY <1>1, <1>3, <2>1, <2>3, FdsAssumption DEF IInv, UInv, UType, LoginConsistent, handle_login
  <2>5. \A c \in Fds : MayManageGroups(c) => MayManageGroups(c)'
    BY <1>3, <2>1 DEF MayManageGroups, find_user_by_fd
  <2>6. reply' \in Reply
    BY <1>1, <1>3, ConfirmIsReply
  <2> QED
    BY <2>4, <2>5, <2>6, GroupsUntouched DEF handle_login
<1> QED
  BY <1>2, <1>3 DEF handle_login, ErrorCodes

LEMMA LogoutKeepsIInv ==
  ASSUME IInv, NEW fd \in client_fds, handle_logout(fd)
  PROVE  IInv'
<1>1. fd \in Fds
  BY DEF IInv, UInv, UType
<1>2. reply' \in Reply
  BY <1>1, ConfirmIsReply DEF handle_logout
<1> QED
  BY <1>1, <1>2, CleanupEffect
     DEF handle_logout, IInv, UInv, UType, MembersAuthenticated

\* The connection that closes is in no list, so the lists stay inside client_fds.
LEMMA CloseKeepsIInv ==
  ASSUME IInv, NEW fd \in client_fds, cleanup_client(fd), client_fds' = client_fds \ {fd},
         reply' \in Reply
  PROVE  IInv'
<1>1. fd \in Fds
  BY DEF IInv, UInv, UType
<1> QED
  BY <1>1, CleanupEffect DEF IInv, UInv, UType, MembersAuthenticated

\* A membership that a step adds is that of fd, and a user is logged in on fd.
LEMMA ArrivalIsAuthenticated ==
  ASSUME IInv, UNCHANGED <<client_fds, user_map>>,
         NEW fd \in client_fds, MayManageGroups(fd), NEW g \in Groups,
         \A h \in DOMAIN group_map' \ {g} :
           h \in DOMAIN group_map /\ group_map'[h] = group_map[h],
         \A c \in ToSet(group_map'[g].members) :
           c = fd \/ (g \in DOMAIN group_map /\ c \in ToSet(group_map[g].members))
  PROVE  MembersAuthenticated'
<1> SUFFICES ASSUME NEW h \in DOMAIN group_map', NEW c \in ToSet(group_map'[h].members)
             PROVE  c \in client_fds' /\ MayManageGroups(c)'
  BY DEF MembersAuthenticated
<1>1. c = fd \/ (h \in DOMAIN group_map /\ c \in ToSet(group_map[h].members))
  OBVIOUS
<1>2. c \in client_fds /\ MayManageGroups(c)
  BY <1>1 DEF IInv, MembersAuthenticated
<1> QED
  BY <1>2, UsersUntouched

LEMMA JoinKeepsIInv ==
  ASSUME IInv, NEW fd \in client_fds, NEW msg \in GroupRequests, handle_join_group(fd, msg)
  PROVE  IInv'
<1>1. fd \in Fds /\ UNCHANGED <<client_fds, user_map, mcast_queue>>
  BY DEF IInv, UInv, UType, handle_join_group
<1>2. CASE \E code \in ErrorCodes : Refuse(fd, code) /\ UNCHANGED group_map
  BY <1>1, <1>2, RefusalKeepsIInv
<1>3. ASSUME MayManageGroups(fd), msg.gname \in DOMAIN group_map,
             add_member(fd, group_map, msg.gname)
      PROVE  IInv'
  <2> DEFINE g == msg.gname
  <2>1. /\ DOMAIN group_map \in SUBSET Groups
        /\ group_map \in [DOMAIN group_map -> GroupRecord]
        /\ OwnAddresses(group_map)
        /\ \A h \in DOMAIN group_map :
             /\ Distinct(group_map[h].members)
             /\ Len(group_map[h].members) <= group_map[h].member_count
             /\ group_map[h].member_count <= MaxMembers
             /\ group_map[h].member_count # 0
             /\ ~AllocMayFail => group_map[h].member_count = Len(group_map[h].members)
    BY LimitsAssumption DEF IInv, GInv, GType, NoSharedAddress, OwnAddresses, MembersListedOnce, Distinct,
           CountCovers, MemberCountExact
  <2>2. /\ DOMAIN group_map' = DOMAIN group_map
        /\ group_map' \in [DOMAIN group_map -> GroupRecord]
        /\ \A h \in DOMAIN group_map : group_map'[h].addr = group_map[h].addr
        /\ \A h \in DOMAIN group_map \ {g} : group_map'[h] = group_map[h]
        /\ ToSet(group_map'[g].members) \subseteq ToSet(group_map[g].members) \cup {fd}
        /\ \A h \in DOMAIN group_map :
             /\ Distinct(group_map'[h].members)
             /\ Len(group_map'[h].members) <= group_map'[h].member_count
             /\ group_map'[h].member_count \in 1 .. MaxMembers
             /\ ~AllocMayFail => group_map'[h].member_count = Len(group_map'[h].members)
        /\ reply' \in Reply
    BY <1>1, <1>3, <2>1, ArrivalEffect
  <2>3. GInv'
    <3>1. GType' /\ NoSharedAddress'
      BY <1>1, <2>1, <2>2 DEF IInv, GInv, GType, NoSharedAddress, Addrs, GroupRecord
    <3>2. AddressesConserved'
      BY <1>1, <2>2 DEF IInv, GInv, AddressesConserved, Addrs
    <3>3. MembersListedOnce' /\ CountCovers' /\ MemberCountExact'
      BY <2>2 DEF MembersListedOnce, CountCovers, MemberCountExact, Distinct
    <3> QED
      BY <3>1, <3>2, <3>3 DEF GInv
  <2>4. MembersAuthenticated'
    <3>1. g \in Groups
      BY <1>3 DEF IInv, GInv, GType
    <3>2. \A h \in DOMAIN group_map' \ {g} :
            h \in DOMAIN group_map /\ group_map'[h] = group_map[h]
      BY <2>2
    <3>3. \A c \in ToSet(group_map'[g].members) :
            c = fd \/ (g \in DOMAIN group_map /\ c \in ToSet(group_map[g].members))
      BY <1>3, <2>2
    <3> HIDE DEF g
    <3> QED
      BY <1>1, <1>3, <3>1, <3>2, <3>3, ArrivalIsAuthenticated
  <2> QED
    BY <1>1, <2>2, <2>3, <2>4, UsersUntouched DEF IInv
<1> QED
  BY <1>2, <1>3 DEF handle_join_group, ErrorCodes

\* The address of a new group was free, hence nobody's, and is free no longer.
LEMMA CreateKeepsIInv ==
  ASSUME IInv, NEW fd \in client_fds, NEW msg \in GroupRequests, handle_create_group(fd, msg)
  PROVE  IInv'
<1> DEFINE g == msg.gname
           q == mcast_queue
<1>1. fd \in Fds /\ UNCHANGED <<client_fds, user_map>>
  BY DEF IInv, UInv, UType, handle_create_group
<1>2. CASE \E code \in ErrorCodes : Refuse(fd, code) /\ UNCHANGED <<group_map, mcast_queue>>
  BY <1>1, <1>2, RefusalKeepsIInv
<1>3. ASSUME q # << >>
      PROVE  /\ q \in Seq(Addrs) /\ Distinct(q)
             /\ Head(q) \in Addrs /\ Head(q) \in ToSet(q)
             /\ QueueRemove(q) \in Seq(Addrs)
             /\ Len(QueueRemove(q)) <= PoolSize
             /\ Distinct(QueueRemove(q))
             /\ ToSet(QueueRemove(q)) = ToSet(q) \ {Head(q)}
  <2>1. q \in Seq(Addrs) /\ Distinct(q) /\ Len(q) <= PoolSize /\ Len(q) \in Nat
    BY LenProperties DEF IInv, GInv, GType, NoSharedAddress, Distinct
  <2>2. /\ Head(q) \in ToSet(q) /\ Head(q) \in Addrs
        /\ Tail(q) \in Seq(Addrs) /\ Len(Tail(q)) = Len(q) - 1
        /\ Distinct(Tail(q))
        /\ ToSet(Tail(q)) = ToSet(q) \ {Head(q)}
    BY <1>3, <2>1, TailRemoves
  <2> QED
    BY <2>1, <2>2, LimitsAssumption DEF QueueRemove
\* An allocation fails: the address goes back, to the other end of the queue.
<1>4. ASSUME q # << >>, mcast_queue' = QueueInsert(QueueRemove(q), <<Head(q)>>),
             Refuse(fd, "SERVER_FULL"), UNCHANGED group_map
      PROVE  IInv'
  <2> DEFINE one == <<Head(q)>>
  <2>1. one \in Seq(Addrs) /\ Distinct(one) /\ ToSet(one) = {Head(q)}
    BY <1>3, <1>4 DEF Distinct, ToSet
  <2> HIDE DEF one
  <2>2. /\ mcast_queue' \in Seq(Addrs) /\ Len(mcast_queue') <= PoolSize
        /\ Distinct(mcast_queue')
        /\ ToSet(mcast_queue') = ToSet(QueueRemove(q)) \cup ToSet(one)
    <3>1. QueueRemove(q) \in Seq(Addrs) /\ Distinct(QueueRemove(q))
          /\ ToSet(QueueRemove(q)) \cap ToSet(one) = {}
      BY <1>3, <1>4, <2>1
    <3>2. mcast_queue' = QueueInsert(QueueRemove(q), one)
      BY <1>4 DEF one
    <3> QED
      BY <2>1, <3>1, <3>2, AddressesFit
  <2>3. ToSet(mcast_queue') = ToSet(q)
    BY <1>3, <1>4, <2>1, <2>2
  <2>4. GInv'
    BY <1>4, <2>2, <2>3
       DEF IInv, GInv, GType, NoSharedAddress, AddressesConserved, MembersListedOnce,
           CountCovers, MemberCountExact, Addrs, GroupRecord, Distinct
  <2>5. reply' \in Reply
    BY <1>1, <1>4 DEF Refuse, build_error_msg, Reply, ErrorCodes
  <2>6. MembersAuthenticated'
    BY <1>1, <1>4, UsersUntouched DEF IInv, MembersAuthenticated
  <2> QED
    BY <1>1, <2>4, <2>5, <2>6, UsersUntouched DEF IInv
<1>5. ASSUME MayManageGroups(fd), g \in Groups \ DOMAIN group_map, q # << >>,
             mcast_queue' = QueueRemove(q),
             add_member(fd, HashMap_Insert(group_map, g,
               [addr |-> Head(q), members |-> << >>, member_count |-> 0]), g)
      PROVE  IInv'
  <2> DEFINE new == [addr |-> Head(q), members |-> << >>, member_count |-> 0]
             groups == HashMap_Insert(group_map, g, new)
  <2>1. /\ DOMAIN groups = DOMAIN group_map \cup {g}
        /\ groups[g] = new
        /\ \A h \in DOMAIN group_map : groups[h] = group_map[h]
    BY <1>5 DEF HashMap_Insert
  <2>2. /\ new.addr = Head(q) /\ new.members = << >> /\ new.member_count = 0
        /\ new \in GroupRecord
    BY <1>3, <1>5 DEF GroupRecord
  <2>3. groups \in [DOMAIN groups -> GroupRecord]
    <3>1. \A h \in DOMAIN groups : groups[h] \in GroupRecord
      BY <2>1, <2>2 DEF IInv, GInv, GType
    <3>2. groups = [h \in DOMAIN groups |-> groups[h]]
      BY DEF HashMap_Insert
    <3> QED
      BY <3>1, <3>2
  <2>4. add_member(fd, groups, g)
    BY <1>5
  <2> HIDE DEF groups, new
  <2>5. \A h \in DOMAIN group_map : groups[h].addr = group_map[h].addr /\ groups[h].addr # Head(q)
    BY <1>3, <1>5, <2>1 DEF IInv, GInv, NoSharedAddress
  <2>6. OwnAddresses(groups)
    BY <2>1, <2>2, <2>5 DEF OwnAddresses, IInv, GInv, NoSharedAddress
  <2>7. ASSUME NEW h \in DOMAIN groups
        PROVE  /\ Distinct(groups[h].members)
               /\ Len(groups[h].members) <= groups[h].member_count
               /\ groups[h].member_count <= MaxMembers
               /\ h # g => groups[h].member_count # 0
               /\ ~AllocMayFail => groups[h].member_count = Len(groups[h].members)
    <3>1. CASE h = g
      BY <2>1, <2>2, <3>1, LimitsAssumption DEF Distinct
    <3>2. CASE h \in DOMAIN group_map
      BY <2>1, <3>2, LimitsAssumption DEF IInv, GInv, MembersListedOnce, Distinct, CountCovers, MemberCountExact
    <3> QED
      BY <2>1, <3>1, <3>2
  <2>8. /\ DOMAIN group_map' = DOMAIN groups
        /\ group_map' \in [DOMAIN groups -> GroupRecord]
        /\ \A h \in DOMAIN groups : group_map'[h].addr = groups[h].addr
        /\ \A h \in DOMAIN groups \ {g} : group_map'[h] = groups[h]
        /\ ToSet(group_map'[g].members) \subseteq ToSet(groups[g].members) \cup {fd}
        /\ \A h \in DOMAIN groups :
             /\ Distinct(group_map'[h].members)
             /\ Len(group_map'[h].members) <= group_map'[h].member_count
             /\ group_map'[h].member_count \in 1 .. MaxMembers
             /\ ~AllocMayFail => group_map'[h].member_count = Len(group_map'[h].members)
        /\ reply' \in Reply
    <3>1. DOMAIN groups \in SUBSET Groups /\ g \in DOMAIN groups
      BY <1>5, <2>1 DEF IInv, GInv, GType
    <3>2. groups[g].member_count = 0 => groups[g].members = << >>
      BY <2>1, <2>2
    <3>3. \A h \in DOMAIN groups \ {g} : groups[h].member_count # 0
      BY <2>7
    <3>4. \A h \in DOMAIN groups :
            /\ Distinct(groups[h].members)
            /\ Len(groups[h].members) <= groups[h].member_count
            /\ groups[h].member_count <= MaxMembers
            /\ ~AllocMayFail => groups[h].member_count = Len(groups[h].members)
      BY <2>7
    <3> HIDE DEF g
    <3> QED
      BY <1>1, <2>3, <2>4, <2>6, <3>1, <3>2, <3>3, <3>4, ArrivalEffect
  <2>9. GInv'
    <3>1. GType'
      BY <1>3, <1>5, <2>1, <2>8 DEF IInv, GInv, GType, Addrs, GroupRecord
    <3>2. NoSharedAddress'
      <4>1. \A h, k \in DOMAIN group_map' : group_map'[h].addr = group_map'[k].addr => h = k
        BY <2>6, <2>8 DEF OwnAddresses
      <4>2. \A h \in DOMAIN group_map' : group_map'[h].addr \notin ToSet(mcast_queue')
        BY <1>3, <1>5, <2>1, <2>2, <2>5, <2>8 DEF IInv, GInv, NoSharedAddress
      <4> QED
        BY <1>3, <1>5, <4>1, <4>2 DEF NoSharedAddress, Distinct
    <3>3. AddressesConserved'
      <4> SUFFICES ASSUME ~AllocMayFail, NEW x \in Addrs
                   PROVE  \/ x \in ToSet(mcast_queue')
                          \/ \E h \in DOMAIN group_map' : x = group_map'[h].addr
        BY DEF AddressesConserved, Addrs
      <4>1. x \in ToSet(q) \/ \E h \in DOMAIN group_map : x = group_map[h].addr
        BY DEF IInv, GInv, AddressesConserved
      <4> QED
        BY <1>3, <1>5, <2>1, <2>2, <2>5, <2>8, <4>1
    <3>4. MembersListedOnce' /\ CountCovers' /\ MemberCountExact'
      BY <2>8 DEF MembersListedOnce, CountCovers, MemberCountExact, Distinct
    <3> QED
      BY <3>1, <3>2, <3>3, <3>4 DEF GInv
  <2>10. MembersAuthenticated'
    <3>1. ToSet(groups[g].members) = {}
      BY <2>1, <2>2 DEF ToSet
    <3>2. \A h \in DOMAIN group_map' \ {g} :
            h \in DOMAIN group_map /\ group_map'[h] = group_map[h]
      BY <2>1, <2>8
    <3>3. \A c \in ToSet(group_map'[g].members) :
            c = fd \/ (g \in DOMAIN group_map /\ c \in ToSet(group_map[g].members))
      BY <2>8, <3>1
    <3>4. g \in Groups
      BY <1>5
    <3> HIDE DEF g
    <3> QED
      BY <1>1, <1>5, <3>2, <3>3, <3>4, ArrivalIsAuthenticated
  <2> QED
    BY <1>1, <2>8, <2>9, <2>10, UsersUntouched DEF IInv
<1> QED
  BY <1>2, <1>4, <1>5 DEF handle_create_group, ErrorCodes

\* Leaving takes fd out of one list: a closed group had no other member.
LEMMA LeaveEffect ==
  ASSUME IInv, NEW fd \in Fds, NEW g \in GroupsOf(fd),
         LET groups == [group_map EXCEPT ![g] = RemoveMember(@, fd)]
         IN  close_empty_group(groups, {h \in {g} : groups[h].member_count = 0})
  PROVE  close_empty_group(Departed(fd, {g}), Emptied(fd, {g}))
<1> DEFINE groups == [group_map EXCEPT ![g] = RemoveMember(@, fd)]
<1>1. groups = Departed(fd, {g})
  BY DEF Departed, GroupsOf
<1>2. {h \in {g} : groups[h].member_count = 0} = Emptied(fd, {g})
  BY <1>1 DEF Emptied
<1> QED
  BY <1>1, <1>2

LEMMA LeaveKeepsIInv ==
  ASSUME IInv, NEW fd \in client_fds, NEW msg \in GroupRequests, handle_leave_group(fd, msg)
  PROVE  IInv'
<1>1. fd \in Fds /\ UNCHANGED <<client_fds, user_map>>
  BY DEF IInv, UInv, UType, handle_leave_group
<1>2. CASE \E code \in ErrorCodes : Refuse(fd, code) /\ UNCHANGED <<group_map, mcast_queue>>
  BY <1>1, <1>2, RefusalKeepsIInv
<1>3. ASSUME msg.gname \in GroupsOf(fd), Confirm(fd),
             LET groups == [group_map EXCEPT ![msg.gname] = RemoveMember(@, fd)]
             IN  close_empty_group(groups, {h \in {msg.gname} : groups[h].member_count = 0})
      PROVE  IInv'
  <2> DEFINE g == msg.gname
  <2> HIDE DEF g
  <2>1. g \in GroupsOf(fd) /\ {g} \in SUBSET GroupsOf(fd)
    BY <1>3 DEF g
  <2>2. close_empty_group(Departed(fd, {g}), Emptied(fd, {g}))
    BY <1>1, <1>3, LeaveEffect DEF g
  <2>3. /\ GInv'
        /\ DOMAIN group_map' \subseteq DOMAIN group_map
        /\ \A h \in DOMAIN group_map' : ToSet(group_map'[h].members) \subseteq ToSet(group_map[h].members)
    <3>1. GInv
      BY DEF IInv
    <3>2. /\ GInv'
          /\ DOMAIN group_map' = DOMAIN group_map \ Emptied(fd, {g})
          /\ \A h \in DOMAIN group_map' :
               ToSet(group_map'[h].members) =
                 IF h \in {g} THEN ToSet(group_map[h].members) \ {fd} ELSE ToSet(group_map[h].members)
      <4> DEFINE S == {g}
      <4> HIDE DEF S
      <4>1. S \in SUBSET GroupsOf(fd) /\ close_empty_group(Departed(fd, S), Emptied(fd, S))
        BY <2>1, <2>2 DEF S
      <4>2. /\ GInv'
            /\ DOMAIN group_map' = DOMAIN group_map \ Emptied(fd, S)
            /\ \A h \in DOMAIN group_map' :
                 ToSet(group_map'[h].members) =
                   IF h \in S THEN ToSet(group_map[h].members) \ {fd} ELSE ToSet(group_map[h].members)
        BY <1>1, <3>1, <4>1, DepartureEffect
      <4> QED
        BY <4>2 DEF S
    <3> QED
      BY <3>2
  <2>4. MembersAuthenticated'
    <3> SUFFICES ASSUME NEW h \in DOMAIN group_map', NEW c \in ToSet(group_map'[h].members)
                 PROVE  c \in client_fds' /\ MayManageGroups(c)'
      BY DEF MembersAuthenticated
    <3>1. c \in client_fds /\ MayManageGroups(c)
      BY <2>3 DEF IInv, MembersAuthenticated
    <3> QED
      BY <1>1, <3>1, UsersUntouched
  <2>5. reply' \in Reply
    BY <1>1, <1>3, ConfirmIsReply
  <2> QED
    BY <1>1, <2>3, <2>4, <2>5, UsersUntouched DEF IInv
<1> QED
  BY <1>2, <1>3 DEF handle_leave_group, ErrorCodes

LEMMA DispatchKeepsIInv ==
  ASSUME IInv, NEW fd \in client_fds, NEW msg \in Requests, dispatch_message(fd, msg)
  PROVE  IInv'
<1>1. fd \in Fds
  BY DEF IInv, UInv, UType
<1>2. msg.tag \in {"REGISTER", "LOGIN"} => msg \in AuthRequests
  BY DEF Requests, GroupRequests, SimpleRequests
<1>3. msg.tag \in {"CREATE_GROUP", "JOIN_GROUP", "LEAVE_GROUP"} => msg \in GroupRequests
  BY DEF Requests, AuthRequests, SimpleRequests
<1>4. CASE msg.tag = "REGISTER" /\ handle_register(fd, msg)
  BY <1>2, <1>4, RegisterKeepsIInv
<1>5. CASE msg.tag = "LOGIN" /\ handle_login(fd, msg)
  BY <1>2, <1>5, LoginKeepsIInv
<1>6. CASE msg.tag = "LOGOUT" /\ handle_logout(fd)
  BY <1>6, LogoutKeepsIInv
<1>7. CASE msg.tag = "EXIT" /\ handle_exit(fd)
  <2>1. reply' \in Reply
    BY <1>1, <1>7, ConfirmIsReply DEF handle_exit
  <2> QED
    BY <1>7, <2>1, CloseKeepsIInv DEF handle_exit
<1>8. CASE msg.tag = "CREATE_GROUP" /\ handle_create_group(fd, msg)
  BY <1>3, <1>8, CreateKeepsIInv
<1>9. CASE msg.tag = "JOIN_GROUP" /\ handle_join_group(fd, msg)
  BY <1>3, <1>9, JoinKeepsIInv
<1>10. CASE msg.tag = "LEAVE_GROUP" /\ handle_leave_group(fd, msg)
  BY <1>3, <1>10, LeaveKeepsIInv
<1>11. CASE /\ Refuse(fd, "NONE")
            /\ UNCHANGED <<client_fds, user_map, group_map, mcast_queue>>
  BY <1>1, <1>11, RefusalKeepsIInv DEF ErrorCodes
<1> QED
  BY <1>4, <1>5, <1>6, <1>7, <1>8, <1>9, <1>10, <1>11 DEF dispatch_message

LEMMA ConnectKeepsIInv ==
  ASSUME IInv, NEW fd \in Fds \ client_fds, accept_client(fd) \/ reject_client(fd)
  PROVE  IInv'
<1>1. CASE accept_client(fd)
  <2>1. UInv' /\ client_fds \subseteq client_fds' /\ reply' \in Reply
    BY <1>1 DEF accept_client, IInv, UInv, UType, LoginConsistent, UserRecord, Silence, Reply, ErrorCodes
  <2>2. \A c \in Fds : MayManageGroups(c) => MayManageGroups(c)'
    BY <1>1 DEF accept_client, MayManageGroups, find_user_by_fd
  <2> QED
    BY <1>1, <2>1, <2>2, GroupsUntouched DEF accept_client
<1>2. CASE reject_client(fd)
  BY <1>2, RefusalKeepsIInv DEF reject_client, ErrorCodes
<1> QED
  BY <1>1, <1>2

\* The inductive step.
LEMMA NextIInv == IInv /\ [Next]_vars => IInv'
<1> SUFFICES ASSUME IInv, [Next]_vars PROVE IInv'
  OBVIOUS
<1>1. CASE Connect
  BY <1>1, ConnectKeepsIInv DEF Connect
<1>2. CASE Serve
  BY <1>2, DispatchKeepsIInv DEF Serve
<1>3. CASE Disconnect
  <2>1. PICK fd \in client_fds : client_disconnected(fd)
    BY <1>3 DEF Disconnect
  <2>2. reply' \in Reply
    BY <2>1 DEF client_disconnected, Silence, Reply, ErrorCodes
  <2> QED
    BY <2>1, <2>2, CloseKeepsIInv DEF client_disconnected
<1>4. CASE UNCHANGED vars
  <2>1. UNCHANGED <<client_fds, user_map, group_map, mcast_queue>> /\ reply' = reply
    BY <1>4 DEF vars
  <2>2. UInv' /\ \A c : MayManageGroups(c)' = MayManageGroups(c)
    BY <2>1, UsersUntouched
  <2>3. reply' \in Reply
    BY <2>1 DEF IInv
  <2> QED
    BY <2>1, <2>2, <2>3, GroupsUntouched
<1> QED
  BY <1>1, <1>2, <1>3, <1>4 DEF Next

-----------------------------------------------------------------------------
(***************************************************************************)
(* The theorems.                                                           *)
(***************************************************************************)
\* IInv is an invariant of the server.
THEOREM Invariance == Spec => []IInv
BY InitIInv, NextIInv, PTL DEF Spec

\* The state has its shape; in particular no count goes below zero and the
\* free queue never holds more than the array of genqueue.c has room for.
THEOREM TypeCorrect == Spec => []TypeOK
<1>1. IInv => TypeOK
  BY DEF IInv, GInv, GType, UInv, UType, TypeOK
<1> QED
  BY <1>1, Invariance, PTL

\* No multicast address is ever in two places.
THEOREM AddressesAreExclusive == Spec => []NoSharedAddress
<1>1. IInv => NoSharedAddress
  BY DEF IInv, GInv
<1> QED
  BY <1>1, Invariance, PTL

\* While allocations succeed no address is ever lost: the QueueInsert whose
\* result close_empty_group ignores cannot be refused, and the empty_names
\* array of cleanup_client cannot overflow.
THEOREM PoolNeverLeaks == Spec => []AddressesConserved
<1>1. IInv => AddressesConserved
  BY DEF IInv, GInv
<1> QED
  BY <1>1, Invariance, PTL

\* A connection is in a member list at most once.
THEOREM NobodyListedTwice == Spec => []MembersListedOnce
<1>1. IInv => MembersListedOnce
  BY DEF IInv, GInv
<1> QED
  BY <1>1, Invariance, PTL

\* While allocations succeed member_count is the length of the list, and no
\* live group is empty.
THEOREM CountIsExact == Spec => []MemberCountExact
<1>1. IInv => MemberCountExact
  BY DEF IInv, GInv
<1> QED
  BY <1>1, Invariance, PTL

\* Even when allocations fail the count covers the list and stays positive.
THEOREM CountIsSafe == Spec => []CountCovers
<1>1. IInv => CountCovers
  BY DEF IInv, GInv
<1> QED
  BY <1>1, Invariance, PTL

\* Every member of a group is an open connection with a logged-in user.
THEOREM OnlyUsersAreMembers == Spec => []MembersAuthenticated
<1>1. IInv => MembersAuthenticated
  BY DEF IInv
<1> QED
  BY <1>1, Invariance, PTL

\* A user record carries a descriptor exactly while its user is logged in.
THEOREM LoginsAreConsistent == Spec => []LoginConsistent
<1>1. IInv => LoginConsistent
  BY DEF IInv, UInv
<1> QED
  BY <1>1, Invariance, PTL

-----------------------------------------------------------------------------
(***************************************************************************)
(* The server implements Rooms, leaves other connections' memberships      *)
(* alone and hands out the address that has been free for longest, for     *)
(* every value of the constants.                                           *)
(***************************************************************************)
\* An empty group could only be one whose creator did not fit in the list.
LEMMA OneMemberCountsOne ==
  ASSUME IInv, ~AllocMayFail, NEW g \in DOMAIN group_map, NEW fd,
         ToSet(group_map[g].members) = {fd}
  PROVE  group_map[g].member_count = 1
<1> DEFINE m == group_map[g].members
<1>1. /\ group_map[g].member_count = Len(m) /\ group_map[g].member_count # 0
      /\ m \in Seq(Fds) /\ \A i, j \in DOMAIN m : m[i] = m[j] => i = j
  BY DEF IInv, GInv, GType, GroupRecord, MemberCountExact, MembersListedOnce
<1>2. Len(m) \in Nat /\ DOMAIN m = 1 .. Len(m)
  BY <1>1, LenProperties
<1>3. \A i \in DOMAIN m : m[i] = fd
  BY DEF ToSet
<1> HIDE DEF m
<1>4. Len(m) <= 1
  <2> SUFFICES ASSUME Len(m) > 1 PROVE FALSE
    BY <1>2
  <2>1. 1 \in DOMAIN m /\ 2 \in DOMAIN m
    BY <1>2
  <2> QED
    BY <1>1, <1>3, <2>1
<1> QED
  BY <1>1, <1>2, <1>4

\* Taking fd out of the groups of S is After of Rooms.
LEMMA DepartureIsAfter ==
  ASSUME IInv, ~AllocMayFail, NEW fd \in Fds, NEW S \in SUBSET GroupsOf(fd),
         close_empty_group(Departed(fd, S), Emptied(fd, S))
  PROVE  AbstractRooms' = R!After(fd, S)
<1> DEFINE live == {g \in DOMAIN group_map : g \in S => ToSet(group_map[g].members) # {fd}}
<1>1. /\ DOMAIN group_map' = DOMAIN group_map \ Emptied(fd, S)
      /\ \A g \in DOMAIN group_map' :
           /\ group_map'[g].addr = group_map[g].addr
           /\ ToSet(group_map'[g].members) =
                IF g \in S THEN ToSet(group_map[g].members) \ {fd} ELSE ToSet(group_map[g].members)
      /\ \A g \in Emptied(fd, S) : ToSet(group_map[g].members) = {fd}
  BY DepartureEffect DEF IInv
<1>2. ASSUME NEW g \in S, ToSet(group_map[g].members) = {fd}
      PROVE  g \in Emptied(fd, S)
  <2>1. g \in DOMAIN group_map
    BY DEF GroupsOf
  <2>2. group_map[g].member_count = 1
    BY <1>2, <2>1, OneMemberCountsOne
  <2> QED
    BY <2>1, <2>2 DEF Emptied, Departed, RemoveMember
<1>3. DOMAIN group_map' = live
  BY <1>1, <1>2 DEF Emptied
<1>4. AbstractRooms' = [g \in live |->
        [addr |-> group_map'[g].addr, members |-> ToSet(group_map'[g].members)]]
  BY <1>3 DEF AbstractRooms
<1>5. R!After(fd, S) = [g \in live |->
        IF g \in S THEN [addr |-> group_map[g].addr, members |-> ToSet(group_map[g].members) \ {fd}]
                   ELSE [addr |-> group_map[g].addr, members |-> ToSet(group_map[g].members)]]
  BY DEF R!After, AbstractRooms
<1> HIDE DEF live
<1> QED
  BY <1>1, <1>3, <1>4, <1>5

\* cleanup_client takes fd out of every room it is in.
LEMMA CleanupIsLeaveAll ==
  ASSUME IInv, ~AllocMayFail, NEW fd \in Fds, cleanup_client(fd)
  PROVE  AbstractRooms' = R!After(fd, R!RoomsOf(fd))
<1>1. PICK closed \in Remembered(EmptiedBy(fd)) : close_empty_group(WithoutMember(fd), closed)
  BY DEF cleanup_client
<1>2. WithoutMember(fd) = Departed(fd, GroupsOf(fd)) /\ EmptiedBy(fd) = Emptied(fd, GroupsOf(fd))
  BY DEF WithoutMember, Departed, EmptiedBy, Emptied
<1>3. closed = EmptiedBy(fd)
  <2>1. EmptiedBy(fd) \in SUBSET DOMAIN group_map
    BY DEF EmptiedBy, GroupsOf
  <2>2. group_map \in [DOMAIN group_map -> GroupRecord] /\ OwnAddresses(group_map)
    BY DEF IInv, GInv, GType, NoSharedAddress, OwnAddresses
  <2> QED
    BY <1>1, <2>1, <2>2, GroupsAreFew, AllRemembered
<1>4. R!RoomsOf(fd) = GroupsOf(fd)
  BY DEF R!RoomsOf, GroupsOf, AbstractRooms
<1> DEFINE S == GroupsOf(fd)
<1>5. S \in SUBSET GroupsOf(fd) /\ close_empty_group(Departed(fd, S), Emptied(fd, S))
  BY <1>1, <1>2, <1>3
<1> HIDE DEF S
<1>6. AbstractRooms' = R!After(fd, S)
  BY <1>5, DepartureIsAfter
<1> QED
  BY <1>4, <1>6 DEF S

LEMMA LeaveIsLeave ==
  ASSUME IInv, ~AllocMayFail, NEW fd \in client_fds, NEW msg \in GroupRequests,
         handle_leave_group(fd, msg)
  PROVE  (\E n \in Groups : R!Leave(fd, n)) \/ UNCHANGED <<client_fds, AbstractRooms>>
<1>1. fd \in Fds /\ client_fds' = client_fds
  BY DEF IInv, UInv, UType, handle_leave_group
<1>2. CASE UNCHANGED group_map
  BY <1>1, <1>2 DEF AbstractRooms
<1>3. ASSUME msg.gname \in GroupsOf(fd),
             LET groups == [group_map EXCEPT ![msg.gname] = RemoveMember(@, fd)]
             IN  close_empty_group(groups, {h \in {msg.gname} : groups[h].member_count = 0})
      PROVE  \E n \in Groups : R!Leave(fd, n)
  <2> DEFINE g == msg.gname
             S == {g}
  <2>1. g \in Groups /\ S \in SUBSET GroupsOf(fd)
    BY <1>3 DEF GroupsOf, IInv, GInv, GType
  <2>2. close_empty_group(Departed(fd, S), Emptied(fd, S))
    <3> HIDE DEF g
    <3> QED
      BY <1>1, <1>3, LeaveEffect DEF g
  <2>3. g \in R!RoomsOf(fd)
    BY <1>3 DEF R!RoomsOf, GroupsOf, AbstractRooms
  <2> HIDE DEF g, S
  <2>4. AbstractRooms' = R!After(fd, S)
    BY <1>1, <2>1, <2>2, DepartureIsAfter
  <2> QED
    BY <1>1, <2>1, <2>3, <2>4 DEF R!Leave, S
<1> QED
  BY <1>2, <1>3 DEF handle_leave_group

\* What add_member does to the member set, when no allocation fails.
LEMMA ArrivalSets ==
  ASSUME NEW groups, groups \in [DOMAIN groups -> GroupRecord], NEW g \in DOMAIN groups,
         NEW fd \in Fds, add_member(fd, groups, g)
  PROVE  \/ group_map' = groups
         \/ /\ groups[g].member_count < MaxMembers
            /\ fd \notin ToSet(groups[g].members)
            /\ DOMAIN group_map' = DOMAIN groups
            /\ \A h \in DOMAIN groups \ {g} : group_map'[h] = groups[h]
            /\ group_map'[g].addr = groups[g].addr
            /\ \/ ToSet(group_map'[g].members) = ToSet(groups[g].members) \cup {fd}
               \/ AllocMayFail /\ ToSet(group_map'[g].members) = ToSet(groups[g].members)
<1>1. ASSUME fd \notin ToSet(groups[g].members), groups[g].member_count < MaxMembers,
             NEW pushed \in BOOLEAN, ~pushed => AllocMayFail,
             group_map' = [groups EXCEPT ![g] = AddMember(@, fd, pushed)]
      PROVE  /\ DOMAIN group_map' = DOMAIN groups
             /\ \A h \in DOMAIN groups \ {g} : group_map'[h] = groups[h]
             /\ group_map'[g].addr = groups[g].addr
             /\ \/ ToSet(group_map'[g].members) = ToSet(groups[g].members) \cup {fd}
                \/ AllocMayFail /\ ToSet(group_map'[g].members) = ToSet(groups[g].members)
  <2> DEFINE m == groups[g].members
  <2>1. /\ DOMAIN group_map' = DOMAIN groups
        /\ \A h \in DOMAIN groups \ {g} : group_map'[h] = groups[h]
        /\ group_map'[g] = AddMember(groups[g], fd, pushed)
    BY <1>1
  <2>2. /\ group_map'[g].addr = groups[g].addr
        /\ group_map'[g].members = IF pushed THEN Append(m, fd) ELSE m
    BY <2>1 DEF AddMember
  <2>3. m \in Seq(Fds)
    BY DEF GroupRecord
  <2>4. ToSet(Append(m, fd)) = ToSet(m) \cup {fd}
    <3>1. /\ DOMAIN m = 1 .. Len(m) /\ Len(m) \in Nat
          /\ DOMAIN Append(m, fd) = 1 .. Len(m) + 1
          /\ \A i \in 1 .. Len(m) : Append(m, fd)[i] = m[i]
          /\ Append(m, fd)[Len(m) + 1] = fd
      BY <2>3, AppendProperties, LenProperties
    <3> HIDE DEF m
    <3> QED
      BY <3>1 DEF ToSet
  <2> QED
    BY <1>1, <2>1, <2>2, <2>4
<1> QED
  BY <1>1 DEF add_member

\* The first member of an empty group is let in.
LEMMA AddMemberGrows ==
  ASSUME NEW groups, NEW g \in DOMAIN groups, NEW fd,
         groups[g].member_count = 0, ToSet(groups[g].members) = {},
         add_member(fd, groups, g)
  PROVE  group_map' # groups
<1>1. PICK pushed \in BOOLEAN : group_map' = [groups EXCEPT ![g] = AddMember(@, fd, pushed)]
  BY LimitsAssumption DEF add_member
<1>2. group_map'[g].member_count = 1
  BY <1>1 DEF AddMember
<1> QED
  BY <1>2

\* One more member in g: Enter, within the capacity.
LEMMA JoinIsEnter ==
  ASSUME IInv, ~AllocMayFail, NEW fd \in client_fds, NEW msg \in GroupRequests,
         handle_join_group(fd, msg)
  PROVE  (\E n \in Groups : R!Enter(fd, n)) \/ UNCHANGED <<client_fds, AbstractRooms>>
<1> DEFINE g == msg.gname
<1>1. fd \in Fds /\ client_fds' = client_fds
  BY DEF IInv, UInv, UType, handle_join_group
<1>2. CASE UNCHANGED group_map
  BY <1>1, <1>2 DEF AbstractRooms
<1>3. ASSUME g \in DOMAIN group_map, add_member(fd, group_map, g), group_map' # group_map
      PROVE  R!Enter(fd, g)
  <2>1. group_map \in [DOMAIN group_map -> GroupRecord]
    BY DEF IInv, GInv, GType
  <2>2. /\ group_map[g].member_count < MaxMembers
        /\ DOMAIN group_map' = DOMAIN group_map
        /\ \A h \in DOMAIN group_map \ {g} : group_map'[h] = group_map[h]
        /\ group_map'[g].addr = group_map[g].addr
        /\ ToSet(group_map'[g].members) = ToSet(group_map[g].members) \cup {fd}
    BY <1>1, <1>3, <2>1, ArrivalSets
  <2>3. AbstractRooms' = [AbstractRooms EXCEPT ![g] =
          [addr |-> @.addr, members |-> @.members \cup {fd}]]
    BY <1>3, <2>2 DEF AbstractRooms
  <2>4. Cardinality(AbstractRooms[g].members) < MaxMembers
    <3>1. /\ group_map[g].members \in Seq(Fds)
          /\ group_map[g].member_count \in Nat
          /\ Len(group_map[g].members) <= group_map[g].member_count
      BY <1>3, <2>1 DEF IInv, GInv, CountCovers, GroupRecord
    <3>2. Cardinality(ToSet(group_map[g].members)) \in Nat
          /\ Cardinality(ToSet(group_map[g].members)) <= Len(group_map[g].members)
          /\ Len(group_map[g].members) \in Nat
      BY <3>1, SizeOfList, LenProperties
    <3>3. AbstractRooms[g].members = ToSet(group_map[g].members)
      BY <1>3 DEF AbstractRooms
    <3> QED
      BY <2>2, <3>1, <3>2, <3>3, LimitsAssumption
  <2>5. g \in DOMAIN AbstractRooms
    BY <1>3 DEF AbstractRooms
  <2> QED
    BY <1>1, <2>3, <2>4, <2>5 DEF R!Enter, Cardinality, R!Cardinality
<1>4. g \in DOMAIN group_map => g \in Groups
  BY DEF IInv, GInv, GType
<1> QED
  BY <1>2, <1>3, <1>4 DEF handle_join_group

\* A group that is new has a free address and one member: Open.
LEMMA CreateIsOpen ==
  ASSUME IInv, ~AllocMayFail, NEW fd \in client_fds, NEW msg \in GroupRequests,
         handle_create_group(fd, msg)
  PROVE  \/ \E n \in Groups, a \in Addrs : R!Open(fd, n, a)
         \/ UNCHANGED <<client_fds, AbstractRooms>>
<1> DEFINE g == msg.gname
           a == Head(mcast_queue)
           new == [addr |-> a, members |-> << >>, member_count |-> 0]
           groups == HashMap_Insert(group_map, g, new)
<1>1. fd \in Fds /\ client_fds' = client_fds
  BY DEF IInv, UInv, UType, handle_create_group
<1>2. CASE UNCHANGED group_map
  BY <1>1, <1>2 DEF AbstractRooms
<1>3. ASSUME g \in Groups \ DOMAIN group_map, mcast_queue # << >>, add_member(fd, groups, g)
      PROVE  a \in Addrs /\ R!Open(fd, g, a)
  <2>1. a \in Addrs /\ a \in ToSet(mcast_queue)
    <3>1. mcast_queue \in Seq(Addrs) /\ Distinct(mcast_queue)
      BY DEF IInv, GInv, GType, NoSharedAddress, Distinct
    <3> QED
      BY <1>3, <3>1, TailRemoves
  <2>2. /\ DOMAIN groups = DOMAIN group_map \cup {g} /\ groups[g] = new
        /\ \A h \in DOMAIN group_map : groups[h] = group_map[h]
    BY <1>3 DEF HashMap_Insert
  <2>3. new.addr = a /\ new.members = << >> /\ new.member_count = 0 /\ new \in GroupRecord
    BY <2>1 DEF GroupRecord
  <2>4. groups \in [DOMAIN groups -> GroupRecord]
    <3>1. \A h \in DOMAIN groups : groups[h] \in GroupRecord
      BY <2>2, <2>3 DEF IInv, GInv, GType
    <3>2. groups = [h \in DOMAIN groups |-> groups[h]]
      BY DEF HashMap_Insert
    <3> QED
      BY <3>1, <3>2
  <2> HIDE DEF new, groups, g
  <2>5. ToSet(groups[g].members) = {}
    BY <2>2, <2>3 DEF ToSet
  <2>6. /\ DOMAIN group_map' = DOMAIN groups
        /\ \A h \in DOMAIN groups \ {g} : group_map'[h] = groups[h]
        /\ group_map'[g].addr = a
        /\ ToSet(group_map'[g].members) = {fd}
    <3>1. group_map' # groups
      BY <1>3, <2>2, <2>3, <2>5, LimitsAssumption, AddMemberGrows
    <3>2. g \in DOMAIN groups
      BY <2>2
    <3>3. /\ DOMAIN group_map' = DOMAIN groups
          /\ \A h \in DOMAIN groups \ {g} : group_map'[h] = groups[h]
          /\ group_map'[g].addr = groups[g].addr
          /\ ToSet(group_map'[g].members) = ToSet(groups[g].members) \cup {fd}
      BY <1>1, <1>3, <2>4, <3>1, <3>2, ArrivalSets
    <3> QED
      BY <2>2, <2>3, <2>5, <3>3
  <2>7. AbstractRooms' = [m \in DOMAIN AbstractRooms \cup {g} |->
          IF m = g THEN [addr |-> a, members |-> {fd}] ELSE AbstractRooms[m]]
    BY <1>3, <2>2, <2>6 DEF AbstractRooms
  <2>8. \A m \in DOMAIN AbstractRooms : AbstractRooms[m].addr # a
    BY <2>1 DEF AbstractRooms, IInv, GInv, NoSharedAddress
  <2>9. g \in Groups \ DOMAIN AbstractRooms
    BY <1>3 DEF AbstractRooms
  <2> QED
    BY <1>1, <2>1, <2>7, <2>8, <2>9 DEF R!Open
<1> QED
  BY <1>2, <1>3 DEF handle_create_group

\* Every step of the server is a step of Rooms or a stutter.
LEMMA StepRefines ==
  ASSUME IInv, ~AllocMayFail, [Next]_vars
  PROVE  [R!RoomsNext]_(R!rvars)
<1> SUFFICES R!RoomsNext \/ UNCHANGED <<client_fds, AbstractRooms>>
  BY DEF R!rvars
<1>1. CASE UNCHANGED <<client_fds, group_map>>
  BY <1>1 DEF AbstractRooms
<1>2. ASSUME NEW fd \in Fds \ client_fds, accept_client(fd) \/ reject_client(fd)
      PROVE  R!RoomsNext \/ UNCHANGED <<client_fds, AbstractRooms>>
  <2>1. CASE accept_client(fd)
    <3>1. R!Come(fd)
      BY <2>1 DEF accept_client, R!Come, AbstractRooms
    <3> QED
      BY <3>1 DEF R!RoomsNext
  <2>2. CASE reject_client(fd)
    BY <1>1, <2>2 DEF reject_client
  <2> QED
    BY <1>2, <2>1, <2>2
<1>3. ASSUME NEW fd \in client_fds, cleanup_client(fd), client_fds' = client_fds \ {fd}
      PROVE  R!RoomsNext
  <2>1. fd \in Fds
    BY DEF IInv, UInv, UType
  <2>2. R!Go(fd)
    BY <1>3, <2>1, CleanupIsLeaveAll DEF R!Go
  <2> QED
    BY <2>1, <2>2 DEF R!RoomsNext
<1>4. ASSUME NEW fd \in client_fds, NEW msg \in Requests, dispatch_message(fd, msg)
      PROVE  R!RoomsNext \/ UNCHANGED <<client_fds, AbstractRooms>>
  <2>1. fd \in Fds
    BY DEF IInv, UInv, UType
  <2>2. msg.tag \in {"CREATE_GROUP", "JOIN_GROUP", "LEAVE_GROUP"} => msg \in GroupRequests
    BY DEF Requests, AuthRequests, SimpleRequests
  <2>3. CASE handle_register(fd, msg) \/ handle_login(fd, msg)
    BY <1>1, <2>3 DEF handle_register, handle_login
  <2>4. CASE handle_logout(fd)
    <3>1. R!LeaveAll(fd)
      BY <2>1, <2>4, CleanupIsLeaveAll DEF handle_logout, R!LeaveAll
    <3> QED
      BY <2>1, <3>1 DEF R!RoomsNext
  <2>5. CASE handle_exit(fd)
    BY <1>3, <2>5 DEF handle_exit
  <2>6. CASE msg.tag = "CREATE_GROUP" /\ handle_create_group(fd, msg)
    <3>1. \/ \E n \in Groups, a \in Addrs : R!Open(fd, n, a)
          \/ UNCHANGED <<client_fds, AbstractRooms>>
      BY <2>2, <2>6, CreateIsOpen
    <3> QED
      BY <2>1, <3>1 DEF R!RoomsNext
  <2>7. CASE msg.tag = "JOIN_GROUP" /\ handle_join_group(fd, msg)
    <3>1. (\E n \in Groups : R!Enter(fd, n)) \/ UNCHANGED <<client_fds, AbstractRooms>>
      BY <2>2, <2>7, JoinIsEnter
    <3> QED
      BY <2>1, <3>1 DEF R!RoomsNext
  <2>8. CASE msg.tag = "LEAVE_GROUP" /\ handle_leave_group(fd, msg)
    <3>1. (\E n \in Groups : R!Leave(fd, n)) \/ UNCHANGED <<client_fds, AbstractRooms>>
      BY <2>2, <2>8, LeaveIsLeave
    <3> QED
      BY <2>1, <3>1 DEF R!RoomsNext
  <2>9. CASE UNCHANGED <<client_fds, user_map, group_map, mcast_queue>>
    BY <1>1, <2>9
  <2> QED
    BY <1>4, <2>3, <2>4, <2>5, <2>6, <2>7, <2>8, <2>9 DEF dispatch_message
<1>5. CASE UNCHANGED vars
  BY <1>1, <1>5 DEF vars
<1>6. CASE Connect
  BY <1>2, <1>6 DEF Connect
<1>7. CASE Serve
  BY <1>4, <1>7 DEF Serve
<1>8. CASE Disconnect
  BY <1>3, <1>8 DEF Disconnect, client_disconnected
<1> QED
  BY <1>5, <1>6, <1>7, <1>8 DEF Next

\* While allocations succeed the server implements Rooms: rooms open on an
\* address nobody uses, vanish with their last member, never overfill, and a
\* connection that is gone is in none of them.
THEOREM ServerImplementsRooms ==
  ASSUME ~AllocMayFail
  PROVE  Spec => RoomsRefinement
<1>1. Init => R!RoomsInit
  BY DEF Init, R!RoomsInit, AbstractRooms
<1>2. IInv /\ [Next]_vars => [R!RoomsNext]_(R!rvars)
  BY StepRefines
<1> QED
  BY <1>1, <1>2, Invariance, PTL DEF Spec, RoomsRefinement, R!RoomsSpec

-----------------------------------------------------------------------------
(***************************************************************************)
(* Other connections' memberships, whether or not allocations fail.        *)
(***************************************************************************)
OthersUntouched(fd) == \A c \in Fds \ {fd} : GroupsOf(c)' = GroupsOf(c)

LEMMA DepartureIsOwn ==
  ASSUME IInv, NEW fd \in Fds, NEW S \in SUBSET GroupsOf(fd),
         close_empty_group(Departed(fd, S), Emptied(fd, S))
  PROVE  OthersUntouched(fd)
<1>1. /\ DOMAIN group_map' = DOMAIN group_map \ Emptied(fd, S)
      /\ \A g \in DOMAIN group_map' :
           ToSet(group_map'[g].members) =
             IF g \in S THEN ToSet(group_map[g].members) \ {fd} ELSE ToSet(group_map[g].members)
      /\ \A g \in Emptied(fd, S) : ToSet(group_map[g].members) = {fd}
  BY DepartureEffect DEF IInv
<1> QED
  BY <1>1 DEF OthersUntouched, GroupsOf

LEMMA CleanupIsOwn ==
  ASSUME IInv, NEW fd \in Fds, cleanup_client(fd)
  PROVE  OthersUntouched(fd)
<1>1. PICK closed \in Remembered(EmptiedBy(fd)) : close_empty_group(WithoutMember(fd), closed)
  BY DEF cleanup_client
<1>2. WithoutMember(fd) = Departed(fd, GroupsOf(fd)) /\ EmptiedBy(fd) = Emptied(fd, GroupsOf(fd))
  BY DEF WithoutMember, Departed, EmptiedBy, Emptied
<1>3. closed = EmptiedBy(fd)
  <2>1. EmptiedBy(fd) \in SUBSET DOMAIN group_map
    BY DEF EmptiedBy, GroupsOf
  <2>2. group_map \in [DOMAIN group_map -> GroupRecord] /\ OwnAddresses(group_map)
    BY DEF IInv, GInv, GType, NoSharedAddress, OwnAddresses
  <2> QED
    BY <1>1, <2>1, <2>2, GroupsAreFew, AllRemembered
<1> DEFINE S == GroupsOf(fd)
<1>4. S \in SUBSET GroupsOf(fd) /\ close_empty_group(Departed(fd, S), Emptied(fd, S))
  BY <1>1, <1>2, <1>3
<1> HIDE DEF S
<1> QED
  BY <1>4, DepartureIsOwn

LEMMA ArrivalIsOwn ==
  ASSUME IInv, NEW fd \in Fds, NEW groups, groups \in [DOMAIN groups -> GroupRecord],
         NEW g \in DOMAIN groups, add_member(fd, groups, g),
         \A h \in DOMAIN group_map : h \in DOMAIN groups /\ groups[h] = group_map[h],
         \A h \in DOMAIN groups \ DOMAIN group_map : groups[h].members = << >>
  PROVE  OthersUntouched(fd)
<1>1. /\ DOMAIN group_map' = DOMAIN groups
      /\ \A h \in DOMAIN groups :
           ToSet(group_map'[h].members) \cup {fd} = ToSet(groups[h].members) \cup {fd}
  BY ArrivalSets
<1>2. \A h \in DOMAIN groups \ DOMAIN group_map : ToSet(groups[h].members) = {}
  BY DEF ToSet
<1> QED
  BY <1>1, <1>2 DEF OthersUntouched, GroupsOf

LEMMA DispatchIsOwn ==
  ASSUME IInv, NEW fd \in client_fds, NEW msg \in Requests, dispatch_message(fd, msg)
  PROVE  OthersUntouched(fd)
<1> DEFINE g == msg.gname
<1>1. fd \in Fds
  BY DEF IInv, UInv, UType
<1>2. CASE UNCHANGED group_map
  BY <1>2 DEF OthersUntouched, GroupsOf
<1>3. CASE cleanup_client(fd)
  BY <1>1, <1>3, CleanupIsOwn
<1>4. group_map \in [DOMAIN group_map -> GroupRecord]
  BY DEF IInv, GInv, GType
<1>5. CASE g \in DOMAIN group_map /\ add_member(fd, group_map, g)
  BY <1>1, <1>4, <1>5, ArrivalIsOwn
<1>6. ASSUME g \in Groups \ DOMAIN group_map, mcast_queue # << >>,
             add_member(fd, HashMap_Insert(group_map, g,
               [addr |-> Head(mcast_queue), members |-> << >>, member_count |-> 0]), g)
      PROVE  OthersUntouched(fd)
  <2> DEFINE new == [addr |-> Head(mcast_queue), members |-> << >>, member_count |-> 0]
             groups == HashMap_Insert(group_map, g, new)
  <2>1. mcast_queue \in Seq(Addrs) /\ Distinct(mcast_queue)
    BY DEF IInv, GInv, GType, NoSharedAddress, Distinct
  <2>2. new \in GroupRecord /\ new.members = << >>
    BY <1>6, <2>1, TailRemoves DEF GroupRecord
  <2>3. /\ DOMAIN groups = DOMAIN group_map \cup {g} /\ groups[g] = new
        /\ \A h \in DOMAIN group_map : groups[h] = group_map[h]
    BY <1>6 DEF HashMap_Insert
  <2>4. groups \in [DOMAIN groups -> GroupRecord]
    <3>1. \A h \in DOMAIN groups : groups[h] \in GroupRecord
      BY <1>4, <2>2, <2>3
    <3>2. groups = [h \in DOMAIN groups |-> groups[h]]
      BY DEF HashMap_Insert
    <3> QED
      BY <3>1, <3>2
  <2>5. add_member(fd, groups, g)
    BY <1>6
  <2> HIDE DEF groups, new
  <2> QED
    BY <1>1, <2>2, <2>3, <2>4, <2>5, ArrivalIsOwn
<1>7. ASSUME g \in GroupsOf(fd),
             LET groups == [group_map EXCEPT ![g] = RemoveMember(@, fd)]
             IN  close_empty_group(groups, {h \in {g} : groups[h].member_count = 0})
      PROVE  OthersUntouched(fd)
  <2> DEFINE S == {g}
  <2> HIDE DEF g
  <2>1. S \in SUBSET GroupsOf(fd)
    BY <1>7
  <2>2. close_empty_group(Departed(fd, S), Emptied(fd, S))
    BY <1>1, <1>7, LeaveEffect
  <2> HIDE DEF S
  <2> QED
    BY <1>1, <2>1, <2>2, DepartureIsOwn
<1> QED
  BY <1>2, <1>3, <1>5, <1>6, <1>7
     DEF dispatch_message, handle_register, handle_login, handle_logout, handle_exit,
         handle_create_group, handle_join_group, handle_leave_group

\* A step takes at most one connection in or out of a group: no leave, exit or
\* disconnection closes a group that somebody else is in.
THEOREM OthersKeepTheirs == Spec => OthersKeepTheirGroups
<1>1. ASSUME IInv, Next
      PROVE  \E fd \in Fds : OthersUntouched(fd)
  <2>1. CASE Connect
    BY <2>1 DEF Connect, accept_client, reject_client, OthersUntouched, GroupsOf
  <2>2. CASE Serve
    <3>1. PICK fd \in client_fds : \E msg \in Requests : dispatch_message(fd, msg)
      BY <2>2 DEF Serve
    <3> QED
      BY <1>1, <3>1, DispatchIsOwn DEF IInv, UInv, UType
  <2>3. CASE Disconnect
    <3>1. PICK fd \in client_fds : client_disconnected(fd)
      BY <2>3 DEF Disconnect
    <3>2. fd \in Fds
      BY <1>1 DEF IInv, UInv, UType
    <3> QED
      BY <1>1, <3>1, <3>2, CleanupIsOwn DEF client_disconnected
  <2> QED
    BY <1>1, <2>1, <2>2, <2>3 DEF Next
<1>2. IInv /\ [Next]_vars
        => [\E c \in Fds : \A fd \in Fds \ {c} : GroupsOf(fd)' = GroupsOf(fd)]_vars
  BY <1>1 DEF OthersUntouched
<1> QED
  BY <1>2, Invariance, PTL DEF Spec, OthersKeepTheirGroups

-----------------------------------------------------------------------------
(***************************************************************************)
(* The order of the pool.                                                  *)
(***************************************************************************)
\* What OldestAddressFirst says of the queue before and after a step.
Ordered(q, r) ==
  \A a \in ToSet(q) \cap ToSet(r) : \A b \in ToSet(r) \ {a} : ~Before(q, b, a) => Before(r, a, b)

Prefixed(q, r) ==
  /\ r \in Seq(Addrs)
  /\ Len(q) <= Len(r)
  /\ \A i \in 1 .. Len(q) : r[i] = q[i]

KeepAddresses == \A g \in DOMAIN group_map' : g \in DOMAIN group_map /\ group_map'[g].addr = group_map[g].addr

\* A queue that only grows at its end keeps its order.
LEMMA GrowthKeepsOrder ==
  ASSUME NEW q \in Seq(Addrs), NEW r, Prefixed(q, r)
  PROVE  Ordered(q, r)
<1>1. /\ DOMAIN q = 1 .. Len(q) /\ Len(q) \in Nat
      /\ DOMAIN r = 1 .. Len(r) /\ Len(r) \in Nat
  BY LenProperties DEF Prefixed
<1> SUFFICES ASSUME NEW i \in 1 .. Len(q), NEW j \in 1 .. Len(r), r[j] # q[i], ~Before(q, r[j], q[i])
             PROVE  Before(r, q[i], r[j])
  BY <1>1 DEF Ordered, ToSet
<1>2. i \in 1 .. Len(r) /\ r[i] = q[i]
  BY <1>1 DEF Prefixed
<1>3. i < j
  <2> SUFFICES ASSUME j < i PROVE FALSE
    BY <1>1, <1>2
  <2>1. j \in 1 .. Len(q) /\ q[j] = r[j]
    BY <1>1 DEF Prefixed
  <2> QED
    BY <1>1, <2>1 DEF Before
<1> QED
  BY <1>1, <1>2, <1>3 DEF Before

\* So does one that loses its head.
LEMMA TailKeepsOrder ==
  ASSUME NEW q \in Seq(Addrs), q # << >>
  PROVE  Ordered(q, Tail(q))
<1> DEFINE t == Tail(q)
<1>1. /\ Len(q) \in Nat /\ DOMAIN q = 1 .. Len(q)
      /\ DOMAIN t = 1 .. Len(q) - 1
      /\ \A i \in 1 .. Len(q) - 1 : t[i] = q[i + 1] /\ i + 1 \in 1 .. Len(q)
  BY HeadTailProperties, LenProperties
<1> HIDE DEF t
<1> SUFFICES ASSUME NEW a \in ToSet(q) \cap ToSet(t), NEW b \in ToSet(t) \ {a}, ~Before(q, b, a)
             PROVE  Before(t, a, b)
  BY DEF Ordered, t
<1>2. PICK i \in 1 .. Len(q) - 1 : t[i] = a
  BY <1>1 DEF ToSet
<1>3. PICK j \in 1 .. Len(q) - 1 : t[j] = b
  BY <1>1 DEF ToSet
<1>4. ~(j + 1 < i + 1)
  BY <1>1, <1>2, <1>3 DEF Before
<1>5. i < j
  BY <1>1, <1>2, <1>3, <1>4
<1> QED
  BY <1>1, <1>2, <1>3, <1>5 DEF Before

\* close_empty_group puts the addresses behind those that were free already, and the
\* groups that stay keep theirs.
LEMMA ClosingLinesUp ==
  ASSUME NEW groups, groups \in [DOMAIN group_map -> GroupRecord],
         \A g \in DOMAIN group_map : groups[g].addr = group_map[g].addr,
         NEW closed \in SUBSET DOMAIN group_map, IsFiniteSet(closed),
         mcast_queue \in Seq(Addrs), Len(mcast_queue) <= PoolSize,
         close_empty_group(groups, closed)
  PROVE  Prefixed(mcast_queue, mcast_queue') /\ KeepAddresses
<1>1. group_map' = [g \in DOMAIN groups \ closed |-> groups[g]]
  BY DEF close_empty_group, HashMap_Remove, Restrict
<1>2. KeepAddresses
  BY <1>1 DEF KeepAddresses
<1>3. PICK saved \in SUBSET closed : \E order \in SetToSeqs(saved) :
        mcast_queue' = QueueInsert(mcast_queue, [i \in DOMAIN order |-> groups[order[i]].addr])
  BY DEF close_empty_group
<1>4. PICK order \in SetToSeqs(saved) :
        mcast_queue' = QueueInsert(mcast_queue, [i \in DOMAIN order |-> groups[order[i]].addr])
  BY <1>3
<1>5. order \in Seq(saved) /\ ToSet(order) = saved
  BY FS_Subset, OrderOfSet
<1> DEFINE items == [i \in DOMAIN order |-> groups[order[i]].addr]
<1>6. items \in Seq(Addrs)
  <2>1. DOMAIN order = 1 .. Len(order) /\ Len(order) \in Nat
    BY <1>5, LenProperties
  <2>2. \A i \in DOMAIN order : order[i] \in DOMAIN group_map
    BY <1>5 DEF ToSet
  <2>3. \A i \in DOMAIN order : groups[order[i]].addr \in Addrs
    BY <2>2 DEF GroupRecord
  <2>4. items \in [1 .. Len(order) -> Addrs]
    BY <2>1, <2>3
  <2> QED
    BY <2>1, <2>4, SeqDef
<1>7. mcast_queue' = QueueInsert(mcast_queue, items)
  BY <1>4
<1> HIDE DEF items
<1> DEFINE c == mcast_queue \o items
<1>8. /\ c \in Seq(Addrs) /\ Len(c) = Len(mcast_queue) + Len(items)
      /\ \A i \in 1 .. Len(mcast_queue) : c[i] = mcast_queue[i]
      /\ Len(items) \in Nat /\ Len(mcast_queue) \in Nat
  BY <1>6, ConcatProperties, LenProperties
<1>9. Prefixed(mcast_queue, c)
  BY <1>8 DEF Prefixed
<1>10. Len(c) > PoolSize => Prefixed(mcast_queue, SubSeq(c, 1, PoolSize))
  <2> SUFFICES ASSUME Len(c) > PoolSize PROVE Prefixed(mcast_queue, SubSeq(c, 1, PoolSize))
    OBVIOUS
  <2> HIDE DEF c
  <2>1. Len(c) \in Nat /\ PoolSize \in Nat /\ \A i \in 1 .. PoolSize : c[i] \in Addrs
    BY <1>8, LimitsAssumption, LenProperties, ElementOfSeq
  <2>2. /\ SubSeq(c, 1, PoolSize) \in Seq(Addrs)
        /\ Len(SubSeq(c, 1, PoolSize)) = PoolSize
        /\ \A i \in 1 .. PoolSize : SubSeq(c, 1, PoolSize)[i] = c[i]
    <3>1. /\ SubSeq(c, 1, PoolSize) \in Seq(Addrs)
          /\ Len(SubSeq(c, 1, PoolSize)) = IF 1 <= PoolSize THEN PoolSize - 1 + 1 ELSE 0
      BY <2>1, SubSeqProperties
    <3>2. \A i \in 1 .. Len(SubSeq(c, 1, PoolSize)) : SubSeq(c, 1, PoolSize)[i] = c[1 + i - 1]
      BY <2>1, SubSeqProperties
    <3>3. Len(SubSeq(c, 1, PoolSize)) = PoolSize
      BY <2>1, <3>1
    <3>4. \A i \in 1 .. PoolSize : 1 + i - 1 = i
      BY <2>1
    <3> QED
      BY <3>1, <3>2, <3>3, <3>4
  <2>3. \A i \in 1 .. Len(mcast_queue) : i \in 1 .. PoolSize
    BY <1>8, <2>1
  <2> QED
    BY <1>8, <2>2, <2>3 DEF Prefixed
<1>11. Prefixed(mcast_queue, mcast_queue')
  <2> HIDE DEF c
  <2>1. ~(Len(c) <= PoolSize) => Len(c) > PoolSize
    BY <1>8, LimitsAssumption, LenProperties
  <2>2. mcast_queue' = IF Len(c) <= PoolSize THEN c ELSE SubSeq(c, 1, PoolSize)
    BY <1>7 DEF QueueInsert, c
  <2> QED
    BY <1>9, <1>10, <2>1, <2>2
<1> QED
  BY <1>2, <1>11

-----------------------------------------------------------------------------
(***************************************************************************)
(* One lemma for each way to change the groups.                            *)
(***************************************************************************)
\* The addresses of old groups stay, and those of new ones come from the head.
OldestFirst ==
  /\ \A g \in DOMAIN group_map \cap DOMAIN group_map' : group_map'[g].addr = group_map[g].addr
  /\ Ordered(mcast_queue, mcast_queue')
  /\ \A g \in DOMAIN group_map' \ DOMAIN group_map : group_map'[g].addr = Head(mcast_queue)

LEMMA ClosingIsOrderly ==
  ASSUME IInv, NEW groups, groups \in [DOMAIN group_map -> GroupRecord],
         \A g \in DOMAIN group_map : groups[g].addr = group_map[g].addr,
         NEW closed \in SUBSET DOMAIN group_map, close_empty_group(groups, closed)
  PROVE  OldestFirst
<1>1. /\ group_map \in [DOMAIN group_map -> GroupRecord] /\ OwnAddresses(group_map)
      /\ mcast_queue \in Seq(Addrs) /\ Len(mcast_queue) <= PoolSize
  BY DEF IInv, GInv, GType, NoSharedAddress, OwnAddresses
<1>2. IsFiniteSet(closed)
  BY <1>1, GroupsAreFew
<1>3. Prefixed(mcast_queue, mcast_queue') /\ KeepAddresses
  BY <1>1, <1>2, ClosingLinesUp
<1>4. Ordered(mcast_queue, mcast_queue')
  BY <1>1, <1>3, GrowthKeepsOrder
<1> QED
  BY <1>3, <1>4 DEF KeepAddresses, OldestFirst

\* Nothing happens to the pool, and no group comes or goes.
LEMMA StayingIsOrderly ==
  ASSUME IInv, mcast_queue' = mcast_queue, DOMAIN group_map' = DOMAIN group_map,
         \A g \in DOMAIN group_map : group_map'[g].addr = group_map[g].addr
  PROVE  OldestFirst
<1>1. mcast_queue \in Seq(Addrs) /\ Len(mcast_queue) \in Nat
  BY LenProperties DEF IInv, GInv, GType
<1>2. Prefixed(mcast_queue, mcast_queue)
  BY <1>1 DEF Prefixed
<1>3. Ordered(mcast_queue, mcast_queue')
  BY <1>1, <1>2, GrowthKeepsOrder
<1> QED
  BY <1>3 DEF OldestFirst

\* Without fd the records have the same addresses.
LEMMA DepartureIsOrderly ==
  ASSUME IInv, NEW fd, NEW S \in SUBSET GroupsOf(fd),
         NEW closed \in SUBSET S, close_empty_group(Departed(fd, S), closed)
  PROVE  OldestFirst
<1> DEFINE groups == Departed(fd, S)
<1>1. /\ S \subseteq DOMAIN group_map
      /\ DOMAIN groups = DOMAIN group_map
      /\ \A g \in S : groups[g] = RemoveMember(group_map[g], fd)
      /\ \A g \in DOMAIN group_map \ S : groups[g] = group_map[g]
  BY DEF Departed, GroupsOf
<1>2. \A g \in S : groups[g] \in GroupRecord /\ groups[g].addr = group_map[g].addr
  BY <1>1, RemoveMemberEffect DEF IInv
<1>3. \A g \in DOMAIN group_map :
        groups[g] \in GroupRecord /\ groups[g].addr = group_map[g].addr
  BY <1>1, <1>2 DEF IInv, GInv, GType
<1>4. groups = [g \in DOMAIN group_map |-> groups[g]]
  BY DEF Departed
<1>5. close_empty_group(groups, closed)
  OBVIOUS
<1> HIDE DEF groups
<1>6. groups \in [DOMAIN group_map -> GroupRecord]
  BY <1>3, <1>4
<1> QED
  BY <1>1, <1>3, <1>5, <1>6, ClosingIsOrderly

\* cleanup_client empties groups of fd only.
LEMMA CleanupIsOrderly ==
  ASSUME IInv, NEW fd \in Fds, cleanup_client(fd)
  PROVE  OldestFirst
<1>1. PICK closed \in Remembered(EmptiedBy(fd)) : close_empty_group(WithoutMember(fd), closed)
  BY DEF cleanup_client
<1> DEFINE S == GroupsOf(fd)
<1>2. WithoutMember(fd) = Departed(fd, S)
  BY DEF WithoutMember, Departed
<1>3. closed \in SUBSET S /\ S \in SUBSET GroupsOf(fd)
  BY DEF Remembered, EmptiedBy
<1> HIDE DEF S
<1> QED
  BY <1>1, <1>2, <1>3, DepartureIsOrderly

\* A handler that takes an address takes the first, and the others move up.
LEMMA CreationIsOrderly ==
  ASSUME IInv, NEW fd \in Fds, NEW g \in Groups \ DOMAIN group_map, mcast_queue # << >>,
         mcast_queue' = QueueRemove(mcast_queue),
         add_member(fd, HashMap_Insert(group_map, g,
           [addr |-> Head(mcast_queue), members |-> << >>, member_count |-> 0]), g)
  PROVE  OldestFirst
<1> DEFINE new == [addr |-> Head(mcast_queue), members |-> << >>, member_count |-> 0]
           groups == HashMap_Insert(group_map, g, new)
<1>1. mcast_queue \in Seq(Addrs) /\ Distinct(mcast_queue)
  BY DEF IInv, GInv, GType, NoSharedAddress, Distinct
<1>2. new \in GroupRecord /\ new.addr = Head(mcast_queue)
  BY <1>1, TailRemoves DEF GroupRecord
<1>3. /\ DOMAIN groups = DOMAIN group_map \cup {g} /\ groups[g] = new
      /\ \A h \in DOMAIN group_map : groups[h] = group_map[h]
  BY DEF HashMap_Insert
<1>4. groups \in [DOMAIN groups -> GroupRecord]
  <2>1. \A h \in DOMAIN groups : groups[h] \in GroupRecord
    BY <1>2, <1>3 DEF IInv, GInv, GType
  <2>2. groups = [h \in DOMAIN groups |-> groups[h]]
    BY DEF HashMap_Insert
  <2> QED
    BY <2>1, <2>2
<1>5. add_member(fd, groups, g)
  OBVIOUS
<1> HIDE DEF groups, new
<1>6. /\ DOMAIN group_map' = DOMAIN groups
      /\ \A h \in DOMAIN groups : group_map'[h].addr = groups[h].addr
  <2>1. g \in DOMAIN groups
    BY <1>3
  <2> QED
    BY <1>4, <1>5, <2>1, ArrivalSets
<1>7. Ordered(mcast_queue, mcast_queue')
  BY <1>1, TailKeepsOrder DEF QueueRemove
<1> QED
  BY <1>2, <1>3, <1>6, <1>7 DEF OldestFirst

\* Every message is one of these.
LEMMA DispatchIsOrderly ==
  ASSUME IInv, ~AllocMayFail, NEW fd \in client_fds, NEW msg \in Requests, dispatch_message(fd, msg)
  PROVE  OldestFirst
<1> DEFINE g == msg.gname
<1>1. fd \in Fds
  BY DEF IInv, UInv, UType
<1>2. CASE UNCHANGED <<group_map, mcast_queue>>
  BY <1>2, StayingIsOrderly
<1>3. CASE cleanup_client(fd)
  BY <1>1, <1>3, CleanupIsOrderly
<1>4. ASSUME g \in DOMAIN group_map, add_member(fd, group_map, g), UNCHANGED mcast_queue
      PROVE  OldestFirst
  <2>1. group_map \in [DOMAIN group_map -> GroupRecord]
    BY DEF IInv, GInv, GType
  <2>2. /\ DOMAIN group_map' = DOMAIN group_map
        /\ \A h \in DOMAIN group_map : group_map'[h].addr = group_map[h].addr
    <3> HIDE DEF g
    <3> QED
      BY <1>1, <1>4, <2>1, ArrivalSets
  <2> QED
    BY <1>4, <2>2, StayingIsOrderly
<1>5. ASSUME g \in Groups \ DOMAIN group_map, mcast_queue # << >>,
             mcast_queue' = QueueRemove(mcast_queue),
             add_member(fd, HashMap_Insert(group_map, g,
               [addr |-> Head(mcast_queue), members |-> << >>, member_count |-> 0]), g)
      PROVE  OldestFirst
  <2> HIDE DEF g
  <2> QED
    BY <1>1, <1>5, CreationIsOrderly
<1>6. ASSUME g \in GroupsOf(fd),
             LET groups == [group_map EXCEPT ![g] = RemoveMember(@, fd)]
             IN  close_empty_group(groups, {h \in {g} : groups[h].member_count = 0})
      PROVE  OldestFirst
  <2> DEFINE S == {g}
             closed == Emptied(fd, S)
  <2> HIDE DEF g
  <2>1. S \in SUBSET GroupsOf(fd) /\ closed \in SUBSET S
    BY <1>6 DEF Emptied
  <2>2. close_empty_group(Departed(fd, S), closed)
    BY <1>1, <1>6, LeaveEffect
  <2> HIDE DEF S, closed
  <2> QED
    BY <2>1, <2>2, DepartureIsOrderly
<1> QED
  BY <1>2, <1>3, <1>4, <1>5, <1>6
     DEF dispatch_message, handle_register, handle_login, handle_logout, handle_exit,
         handle_create_group, handle_join_group, handle_leave_group

\* While allocations succeed the pool is a queue: the address that has been free for longest
\* is reused first, by a new group and by no other, and the addresses of live groups stay.
\* (A creation that fails puts its address back at the other end.)
THEOREM OldestIsReusedFirst ==
  ASSUME ~AllocMayFail
  PROVE  Spec => OldestAddressFirst
<1>1. ASSUME IInv, Next
      PROVE  OldestFirst
  <2>1. CASE Connect
    BY <1>1, <2>1, StayingIsOrderly DEF Connect, accept_client, reject_client
  <2>2. CASE Serve
    BY <1>1, <2>2, DispatchIsOrderly DEF Serve
  <2>3. CASE Disconnect
    <3>1. PICK fd \in client_fds : client_disconnected(fd)
      BY <2>3 DEF Disconnect
    <3>2. fd \in Fds
      BY <1>1 DEF IInv, UInv, UType
    <3> QED
      BY <1>1, <3>1, <3>2, CleanupIsOrderly DEF client_disconnected
  <2> QED
    BY <1>1, <2>1, <2>2, <2>3 DEF Next
<1>2. IInv /\ [Next]_vars =>
        [/\ \A g \in DOMAIN group_map \cap DOMAIN group_map' : group_map'[g].addr = group_map[g].addr
         /\ \A a \in ToSet(mcast_queue) \cap ToSet(mcast_queue') : \A b \in ToSet(mcast_queue') \ {a} :
              ~Before(mcast_queue, b, a) => Before(mcast_queue', a, b)
         /\ \A g \in DOMAIN group_map' \ DOMAIN group_map : group_map'[g].addr = Head(mcast_queue)]_vars
  BY <1>1 DEF OldestFirst, Ordered
<1> QED
  BY <1>2, Invariance, PTL DEF Spec, OldestAddressFirst
=============================================================================
