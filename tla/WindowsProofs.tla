--------------------------- MODULE WindowsProofs ---------------------------
(***************************************************************************)
(* Theorems about the chat windows of clients that take turns: for any     *)
(* number of clients, windows and groups, whatever fails and whoever dies, *)
(* a session holds the PIDs of its own windows and takes them along.       *)
(*                                                                         *)
(* While a client is opening, a window it has started is announced once:   *)
(* by its report still to come, by a message in the queue, or by the PID   *)
(* in the session (AnnouncedPart).  Nothing else is in the queue then.     *)
(***************************************************************************)
EXTENDS ChatWindows, SequenceTheorems, TLAPS

\* Whether a PID that somebody noted still runs, and is then the window it was.
Theirs(p, c, k) == p \in DOMAIN windows => windows[p].owner = c /\ windows[p].kind = k

Filling(c) == pc[c] \in {"receiver", "sender", "wait"}

\* The kinds of windows that c has not started yet.
ToStart(c) == CASE pc[c] = "receiver" -> Kinds
                [] pc[c] = "sender" -> {"sender"}
                [] OTHER -> {}

TypePart ==
  WinTypeOK /\ \A c \in Clients : Opening(c) => received[c] <= 1 /\ session[c].addr \in Addrs

TurnPart == \A c, d \in Clients : Opening(c) /\ Opening(d) => c = d

\* Nobody owns a window who is not past the flush; a window that has not reported is
\* waited for; at the flush the queue is of no concern to anybody who lives.
OwnerPart ==
  /\ \A p \in DOMAIN windows : windows[p].owner \in Clients => pc[windows[p].owner] \notin {"idle", "flush"}
  /\ \A p \in DOMAIN windows : ~windows[p].reported => windows[p].owner \in Clients /\ Filling(windows[p].owner)
  /\ (\A c \in Clients : ~Filling(c)) =>
       \A i \in DOMAIN mq : mq[i].process_pid \in DOMAIN windows => windows[mq[i].process_pid].owner = NoClient

\* What is known of the windows of kind k that c has started.
Announced(c, k) ==
  /\ session[c][k] # NoPid => Theirs(session[c][k], c, k)
  /\ \A i \in DOMAIN mq : mq[i].kind = k =>
       /\ Theirs(mq[i].process_pid, c, k)
       /\ session[c][k] = NoPid
       /\ \A j \in DOMAIN mq : mq[j].kind = k => i = j
  /\ \A p \in DOMAIN windows : windows[p].owner = c /\ windows[p].kind = k =>
       /\ session[c][k] \in {NoPid, p}
       /\ \A i \in DOMAIN mq : mq[i].kind = k => mq[i].process_pid = p
       /\ ~windows[p].reported => session[c][k] = NoPid /\ \A i \in DOMAIN mq : mq[i].kind # k
       /\ \A q \in DOMAIN windows : windows[q].owner = c /\ windows[q].kind = k => q = p

Unannounced(c, k) ==
  /\ session[c][k] = NoPid
  /\ \A i \in DOMAIN mq : mq[i].kind # k
  /\ \A p \in DOMAIN windows : ~(windows[p].owner = c /\ windows[p].kind = k)

Noted(c, k) == IF session[c][k] = NoPid THEN 0 ELSE 1

AnnouncedPart ==
  \A c \in Clients :
    /\ pc[c] = "flush" => PidsOf(c) = {}
    /\ Opening(c) => received[c] = Noted(c, "receiver") + Noted(c, "sender")
    /\ Filling(c) => \A k \in Kinds : Announced(c, k)
    /\ \A k \in ToStart(c) : Unannounced(c, k)

WinInv == TypePart /\ TurnPart /\ OwnerPart /\ AnnouncedPart /\ LinkedToOwn /\ WindowsDieWithSession

-----------------------------------------------------------------------------
(***************************************************************************)
(* Types, whatever goes wrong.                                             *)
(***************************************************************************)
Places == {"idle", "flush", "receiver", "sender", "wait", "linked"}

LEMMA ClearedIs ==
  /\ Cleared \in Session
  /\ \A a \in Addrs : Opened(a) = [receiver |-> NoPid, sender |-> NoPid, addr |-> a] /\ Opened(a) \in Session
BY DEF Cleared, Opened, Session

\* The head of the queue, and what is left of it.
LEMMA QueueTail ==
  ASSUME NEW q \in Seq(IpcPidMessage), q # << >>
  PROVE  /\ 1 \in DOMAIN q /\ Head(q) = q[1] /\ Head(q) \in IpcPidMessage
         /\ Tail(q) \in Seq(IpcPidMessage)
         /\ DOMAIN Tail(q) = 1 .. Len(q) - 1
         /\ \A i \in DOMAIN Tail(q) : i + 1 \in DOMAIN q /\ i + 1 # 1 /\ Tail(q)[i] = q[i + 1]
<1>1. Len(q) \in Nat /\ DOMAIN q = 1 .. Len(q) /\ Len(q) # 0
  BY LenProperties, EmptySeq
<1>2. /\ Head(q) = q[1] /\ Tail(q) \in Seq(IpcPidMessage) /\ Len(Tail(q)) = Len(q) - 1
      /\ \A i \in 1 .. Len(Tail(q)) : Tail(q)[i] = q[i + 1]
  BY HeadTailProperties
<1>3. DOMAIN Tail(q) = 1 .. Len(q) - 1
  BY <1>2, LenProperties
<1>4. q[1] \in IpcPidMessage
  BY <1>1, ElementOfSeq
<1> QED
  BY <1>1, <1>2, <1>3, <1>4

LEMMA QueueAppend ==
  ASSUME NEW q \in Seq(IpcPidMessage), NEW m \in IpcPidMessage
  PROVE  /\ Append(q, m) \in Seq(IpcPidMessage)
         /\ DOMAIN Append(q, m) = DOMAIN q \cup {Len(q) + 1}
         /\ Len(q) + 1 \notin DOMAIN q
         /\ Append(q, m)[Len(q) + 1] = m
         /\ \A i \in DOMAIN q : Append(q, m)[i] = q[i]
<1>1. Len(q) \in Nat /\ DOMAIN q = 1 .. Len(q)
  BY LenProperties
<1>2. /\ Append(q, m) \in Seq(IpcPidMessage) /\ Len(Append(q, m)) = Len(q) + 1
      /\ \A i \in 1 .. Len(q) : Append(q, m)[i] = q[i]
      /\ Append(q, m)[Len(q) + 1] = m
  BY AppendProperties
<1>3. DOMAIN Append(q, m) = 1 .. Len(q) + 1
  BY <1>2, LenProperties
<1> QED
  BY <1>1, <1>2, <1>3

LEMMA TypesStart == WinInit => TypePart
<1> SUFFICES ASSUME WinInit PROVE TypePart
  OBVIOUS
<1>1. mq \in Seq(IpcPidMessage)
  BY EmptySeq DEF WinInit
<1>2. DOMAIN windows = {}
  BY DEF WinInit
<1> QED
  BY <1>1, <1>2, ClearedIs DEF WinInit, TypePart, WinTypeOK, Opening

LEMMA TypeSteps ==
  ASSUME TypePart, WinNext
  PROVE  TypePart'
<1> USE DEF TypePart, WinTypeOK, Opening
<1>1. ASSUME NEW c \in Clients, Begin(c)
      PROVE  TypePart'
  BY <1>1, ClearedIs DEF Begin, MayBegin
<1>2. ASSUME NEW c \in Clients, Flush(c)
      PROVE  TypePart'
  BY <1>2, QueueTail DEF Flush
<1>3. ASSUME NEW c \in Clients, NEW kind \in Kinds, NEW next \in {"sender", "wait"}, Spawn(c, kind, next)
      PROVE  TypePart'
  <2> DEFINE w == [owner |-> c, kind |-> kind, addr |-> session[c].addr, reported |-> FALSE, shown |-> NoAddr]
  <2>1. w \in Window
    BY <1>3 DEF Spawn, Window, Kinds
  <2>2. DOMAIN windows' \subseteq Pids /\ \A p \in DOMAIN windows' : windows'[p] \in Window
    <3> HIDE DEF w
    <3>1. CASE UNCHANGED windows
      BY <3>1
    <3>2. ASSUME NEW p \in FreePids,
                 windows' = [q \in DOMAIN windows \cup {p} |-> IF q = p THEN w ELSE windows[q]]
          PROVE  DOMAIN windows' \subseteq Pids /\ \A q \in DOMAIN windows' : windows'[q] \in Window
      BY <3>2, <2>1 DEF FreePids
    <3> QED
      BY <1>3, <3>1, <3>2 DEF Spawn, w
  <2> QED
    BY <1>3, <2>2 DEF Spawn, Kinds
<1>4. ASSUME NEW c \in Clients, Receive(c)
      PROVE  TypePart'
  <2>1. Head(mq) \in IpcPidMessage /\ Tail(mq) \in Seq(IpcPidMessage)
    BY <1>4, QueueTail DEF Receive
  <2>2. session' \in [Clients -> Session] /\ session'[c].addr = session[c].addr
    BY <1>4, <2>1 DEF Receive, Slot, Session, IpcPidMessage, Kinds
  <2>3. \A d \in Clients : d # c => session'[d] = session[d]
    BY <1>4 DEF Receive
  <2>4. received' \in [Clients -> 0 .. 2]
    BY <1>4 DEF Receive
  <2> QED
    BY <1>4, <2>1, <2>2, <2>3, <2>4 DEF Receive, Enough
<1>5. ASSUME NEW c \in Clients, Close(c)
      PROVE  TypePart'
  BY <1>5, ClearedIs DEF Close, Kill
<1>6. ASSUME NEW c \in Clients, Killed(c)
      PROVE  TypePart'
  BY <1>6, ClearedIs DEF Killed, Window
<1>7. ASSUME NEW p \in Pids, Report(p)
      PROVE  TypePart'
  <2>1. mq' \in Seq(IpcPidMessage)
    <3>1. [process_pid |-> p, kind |-> windows[p].kind] \in IpcPidMessage
      BY <1>7 DEF Report, IpcPidMessage, Window
    <3> QED
      BY <1>7, <3>1, QueueAppend DEF Report
  <2> QED
    BY <1>7, <2>1 DEF Report, Window
<1>8. ASSUME NEW p \in Pids, Exits(p)
      PROVE  TypePart'
  BY <1>8 DEF Exits
<1>9. ASSUME NEW p \in Pids, Send(p)
      PROVE  TypePart'
  BY <1>9 DEF Send, Window
<1> QED
  BY <1>1, <1>2, <1>3, <1>4, <1>5, <1>6, <1>7, <1>8, <1>9
  DEF WinNext, client_spawn_chat_windows, Kinds

-----------------------------------------------------------------------------
(***************************************************************************)
(* The client's steps.                                                     *)
(***************************************************************************)
\* What the parts say when nobody opens but c.
LEMMA OthersRest ==
  ASSUME WinInv, NEW c \in Clients, Opening(c)
  PROVE  \A d \in Clients : d # c => ~Opening(d) /\ ~Filling(d) /\ ToStart(d) = {}
BY DEF WinInv, TurnPart, Opening, Filling, ToStart

LEMMA BeginKeeps ==
  ASSUME "overlap" \notin Faults, WinInv, NEW c \in Clients, Begin(c)
  PROVE  TurnPart' /\ OwnerPart' /\ AnnouncedPart' /\ LinkedToOwn' /\ WindowsDieWithSession'
<1>1. PICK a \in Addrs : session' = [session EXCEPT ![c] = Opened(a)]
  BY DEF Begin
<1>2. /\ \A d \in Clients : ~Opening(d) /\ ~Filling(d) /\ ToStart(d) = {}
      /\ pc[c] = "idle" /\ mq' = mq /\ windows' = windows
      /\ pc \in [Clients -> Places] /\ session \in [Clients -> Session] /\ received \in [Clients -> 0 .. 2]
      /\ \/ pc' = [pc EXCEPT ![c] = "flush"]
         \/ pc' = [pc EXCEPT ![c] = "linked"] /\ "failure" \in Faults
  BY DEF Begin, MayBegin, MayFail, Opening, Filling, ToStart, WinInv, TypePart, WinTypeOK, Places
<1>3. session'[c].receiver = NoPid /\ session'[c].sender = NoPid
  BY <1>1, <1>2, ClearedIs
<1>4. \A d \in Clients : d # c => pc'[d] = pc[d] /\ session'[d] = session[d]
  BY <1>1, <1>2
<1>5. \A d \in Clients : ~Filling(d)' /\ ToStart(d)' = {}
  BY <1>2, <1>4 DEF Filling, ToStart
<1>6. TurnPart'
  BY <1>2, <1>4 DEF TurnPart, Opening
<1>7. OwnerPart'
  BY <1>2, <1>4, <1>5 DEF OwnerPart, WinInv, Filling, Opening
<1>8. AnnouncedPart'
  <2>1. pc'[c] = "flush" => received'[c] = 0
    BY <1>2 DEF Begin
  <2>2. PidsOf(c)' = {}
    BY <1>3 DEF PidsOf
  <2>3. \A d \in Clients : d # c => ~Opening(d)'
    BY <1>2, <1>4 DEF Opening
  <2>4. Opening(c)' => received'[c] = 0
    BY <1>2 DEF Opening, Begin
  <2>5. Noted(c, "receiver")' = 0 /\ Noted(c, "sender")' = 0
    BY <1>3 DEF Noted
  <2> QED
    BY <1>4, <1>5, <2>2, <2>3, <2>4, <2>5 DEF AnnouncedPart, Opening
<1>9. LinkedToOwn'
  <2>1. ASSUME NEW d \in Clients, d # c
        PROVE  PidsOf(d)' = PidsOf(d) /\ session'[d] = session[d] /\ pc'[d] = pc[d]
    BY <2>1, <1>4 DEF PidsOf
  <2>2. PidsOf(c)' = {}
    BY <1>3 DEF PidsOf
  <2> QED
    BY <1>2, <2>1, <2>2 DEF LinkedToOwn, WinInv
<1>10. WindowsDieWithSession'
  <2>1. \A p \in DOMAIN windows : windows[p].owner # c
    BY <1>2 DEF WinInv, OwnerPart
  <2>2. \A d \in Clients : d # c => PidsOf(d)' = PidsOf(d) /\ (Opening(d)' <=> Opening(d))
    BY <1>4 DEF PidsOf, Opening
  <2>3. \A p \in DOMAIN windows : windows[p].owner \in Clients \cup {NoClient}
    BY DEF WinInv, TypePart, WinTypeOK, Window
  <2> QED
    BY <1>2, <1>4, <2>1, <2>2, <2>3 DEF WinInv, WindowsDieWithSession
<1> QED
  BY <1>6, <1>7, <1>8, <1>9, <1>10

LEMMA FlushKeeps ==
  ASSUME WinInv, NEW c \in Clients, Flush(c)
  PROVE  TurnPart' /\ OwnerPart' /\ AnnouncedPart' /\ LinkedToOwn' /\ WindowsDieWithSession'
<1>1. /\ pc[c] = "flush" /\ session' = session /\ received' = received /\ windows' = windows
      /\ pc \in [Clients -> Places] /\ mq \in Seq(IpcPidMessage)
  BY DEF Flush, WinInv, TypePart, WinTypeOK, Places
<1>2. \A d \in Clients : PidsOf(d)' = PidsOf(d) /\ \A k \in Kinds : Noted(d, k)' = Noted(d, k)
  BY <1>1 DEF PidsOf, Noted
<1>3. \A d \in Clients : d # c => ~Opening(d) /\ ~Filling(d) /\ ToStart(d) = {}
  BY <1>1, OthersRest DEF Opening
<1>4. CASE mq = << >>
  <2>1. /\ pc' = [pc EXCEPT ![c] = "receiver"] /\ mq' = mq
        /\ pc'[c] = "receiver" /\ \A d \in Clients : d # c => pc'[d] = pc[d]
    BY <1>1, <1>4 DEF Flush
  <2>2. DOMAIN mq = {}
    BY <1>4
  <2>3. session[c].receiver = NoPid /\ session[c].sender = NoPid
    BY <1>1 DEF WinInv, AnnouncedPart, PidsOf
  <2>4. \A p \in DOMAIN windows : windows[p].owner # c
    BY <1>1 DEF WinInv, OwnerPart
  <2>5. TurnPart'
    BY <2>1, <1>3 DEF TurnPart, Opening
  <2>6. OwnerPart'
    BY <1>1, <2>1 DEF OwnerPart, WinInv, Filling
  <2>7. \A k \in Kinds : Announced(c, k)' /\ Unannounced(c, k)'
    BY <1>1, <2>1, <2>2, <2>3, <2>4 DEF Announced, Unannounced, Kinds
  <2>8. AnnouncedPart'
    <3>1. \A d \in Clients : d # c => ~Opening(d)' /\ ~Filling(d)' /\ ToStart(d)' = {}
      BY <1>3, <2>1 DEF Opening, Filling, ToStart
    <3>2. ToStart(c)' = Kinds
      BY <2>1 DEF ToStart
    <3>3. received'[c] = Noted(c, "receiver")' + Noted(c, "sender")'
      BY <1>1, <1>2 DEF WinInv, AnnouncedPart, Opening, Kinds
    <3> QED
      BY <1>3, <2>1, <2>7, <3>1, <3>2, <3>3 DEF AnnouncedPart, Opening
  <2>9. LinkedToOwn'
    BY <1>1, <1>2, <2>1 DEF LinkedToOwn, WinInv
  <2>10. WindowsDieWithSession'
    <3>1. \A d \in Clients : Opening(d) => Opening(d)'
      BY <1>1, <2>1 DEF Opening
    <3>2. \A p \in DOMAIN windows : windows[p].owner \in Clients \cup {NoClient}
      BY DEF WinInv, TypePart, WinTypeOK, Window
    <3> QED
      BY <1>1, <1>2, <2>1, <2>4, <3>1, <3>2 DEF WindowsDieWithSession, WinInv
  <2> QED
    BY <2>5, <2>6, <2>8, <2>9, <2>10
<1>5. CASE mq # << >>
  <2>1. /\ pc' = pc /\ mq' = Tail(mq)
        /\ \A i \in DOMAIN mq' : i + 1 \in DOMAIN mq /\ mq'[i] = mq[i + 1]
    BY <1>1, <1>5, QueueTail DEF Flush
  <2>2. \A d \in Clients : (Opening(d)' <=> Opening(d)) /\ (Filling(d)' <=> Filling(d)) /\ ToStart(d)' = ToStart(d)
    BY <2>1 DEF Opening, Filling, ToStart
  <2>3. \A d \in Clients : ~Filling(d) /\ ToStart(d) = {}
    BY <1>1, <1>3 DEF Filling, ToStart
  <2>4. TurnPart'
    BY <2>2 DEF TurnPart, WinInv
  <2>5. OwnerPart'
    <3>1. ASSUME NEW i \in DOMAIN mq', mq'[i].process_pid \in DOMAIN windows
          PROVE  windows[mq'[i].process_pid].owner = NoClient
      BY <2>1, <2>3, <3>1 DEF WinInv, OwnerPart
    <3> QED
      BY <1>1, <2>1, <2>2, <3>1 DEF OwnerPart, WinInv
  <2>6. AnnouncedPart'
    BY <1>1, <1>2, <2>1, <2>2, <2>3 DEF AnnouncedPart, WinInv, Kinds
  <2>7. LinkedToOwn'
    BY <1>1, <1>2, <2>1 DEF LinkedToOwn, WinInv
  <2>8. WindowsDieWithSession'
    BY <1>1, <1>2, <2>1, <2>2 DEF WindowsDieWithSession, WinInv, Opening, PidsOf
  <2> QED
    BY <2>4, <2>5, <2>6, <2>7, <2>8
<1> QED
  BY <1>4, <1>5

LEMMA SpawnKeeps ==
  ASSUME WinInv, NEW c \in Clients,
         NEW kind, NEW next, <<kind, next>> \in {<<"receiver", "sender">>, <<"sender", "wait">>},
         Spawn(c, kind, next)
  PROVE  TurnPart' /\ OwnerPart' /\ AnnouncedPart' /\ LinkedToOwn' /\ WindowsDieWithSession'
<1>1. /\ pc[c] = kind /\ kind \in Kinds /\ next \in {"sender", "wait"} /\ next # kind
      /\ session' = session /\ received' = received /\ mq' = mq
      /\ pc \in [Clients -> Places] /\ pc' = [pc EXCEPT ![c] = next]
      /\ Opening(c) /\ Filling(c) /\ kind \in ToStart(c)
  BY DEF Spawn, WinInv, TypePart, WinTypeOK, Places, Opening, Filling, ToStart, Kinds
<1>2. \A d \in Clients : PidsOf(d)' = PidsOf(d) /\ \A k \in Kinds : Noted(d, k)' = Noted(d, k)
  BY <1>1 DEF PidsOf, Noted
<1>3. \A d \in Clients : d # c => ~Opening(d) /\ ~Filling(d) /\ ToStart(d) = {}
  BY <1>1, OthersRest
<1>4. /\ pc'[c] = next /\ \A d \in Clients : d # c => pc'[d] = pc[d]
      /\ \A d \in Clients : (Opening(d)' <=> Opening(d)) /\ (Filling(d)' <=> Filling(d))
  BY <1>1 DEF Opening, Filling
<1>5. ToStart(c)' \subseteq ToStart(c) \ {kind} /\ \A d \in Clients : d # c => ToStart(d)' = {}
  BY <1>1, <1>3, <1>4 DEF ToStart, Kinds
<1>6. TurnPart'
  BY <1>4 DEF TurnPart, WinInv
<1>7. CASE UNCHANGED windows
  <2>1. OwnerPart'
    BY <1>1, <1>4, <1>7 DEF OwnerPart, WinInv
  <2>2. AnnouncedPart'
    <3>1. \A k \in Kinds : Announced(c, k)'
      BY <1>1, <1>7 DEF WinInv, AnnouncedPart, Announced, Theirs
    <3>2. \A k \in ToStart(c)' : Unannounced(c, k)'
      BY <1>1, <1>5, <1>7 DEF WinInv, AnnouncedPart, Unannounced
    <3> QED
      BY <1>1, <1>2, <1>3, <1>4, <1>5, <3>1, <3>2 DEF WinInv, AnnouncedPart, Kinds
  <2>3. LinkedToOwn'
    BY <1>1, <1>2, <1>4, <1>7 DEF LinkedToOwn, WinInv
  <2>4. WindowsDieWithSession'
    BY <1>1, <1>4, <1>7 DEF WindowsDieWithSession, WinInv, Opening, PidsOf
  <2> QED
    BY <1>6, <2>1, <2>2, <2>3, <2>4
<1>8. CASE windows' # windows
  <2> DEFINE w == [owner |-> c, kind |-> kind, addr |-> session[c].addr, reported |-> FALSE, shown |-> NoAddr]
  <2>1. PICK p \in FreePids :
          windows' = [q \in DOMAIN windows \cup {p} |-> IF q = p THEN w ELSE windows[q]]
    BY <1>8 DEF Spawn
  <2>2. /\ p \in Pids /\ p \notin DOMAIN windows /\ \A d \in Clients : p \notin PidsOf(d)
        /\ \A i \in DOMAIN mq : mq[i].process_pid # p
    BY DEF FreePids, Queued
  <2>3. /\ DOMAIN windows' = DOMAIN windows \cup {p}
        /\ windows'[p].owner = c /\ windows'[p].kind = kind /\ ~windows'[p].reported
        /\ \A q \in DOMAIN windows : windows'[q] = windows[q]
    BY <2>1, <2>2
  <2> HIDE DEF w
  <2>4. p # NoPid /\ \A d \in Clients : \A k \in Kinds : session[d][k] # p
    BY <2>2, PidsAssumption DEF PidsOf, Kinds
  <2>5. Unannounced(c, kind)
    BY <1>1 DEF WinInv, AnnouncedPart
  <2>6. OwnerPart'
    BY <1>1, <1>4, <2>3 DEF OwnerPart, WinInv, Filling
  <2>7. ASSUME NEW k \in Kinds
        PROVE  Announced(c, k)'
    <3>1. Announced(c, k)
      BY <1>1 DEF WinInv, AnnouncedPart
    <3>2. CASE k = kind
      BY <1>1, <2>3, <2>5, <3>2 DEF Announced, Unannounced
    <3>3. CASE k # kind
      BY <1>1, <2>2, <2>3, <2>4, <3>1, <3>3 DEF Announced, Theirs
    <3> QED
      BY <3>2, <3>3
  <2>8. AnnouncedPart'
    <3>1. ASSUME NEW k \in ToStart(c)'
          PROVE  Unannounced(c, k)'
      <4>1. Unannounced(c, k) /\ k # kind
        BY <1>1, <1>5 DEF WinInv, AnnouncedPart
      <4> QED
        BY <1>1, <2>3, <4>1 DEF Unannounced
    <3> QED
      BY <1>1, <1>2, <1>3, <1>4, <1>5, <2>7, <3>1 DEF WinInv, AnnouncedPart, Kinds
  <2>9. LinkedToOwn'
    BY <1>1, <1>2, <1>4, <2>3, <2>4 DEF LinkedToOwn, WinInv
  <2>10. WindowsDieWithSession'
    <3>1. \A q \in DOMAIN windows : windows[q].owner \in Clients \cup {NoClient}
      BY DEF WinInv, TypePart, WinTypeOK, Window
    <3> QED
      BY <1>1, <1>2, <1>3, <1>4, <2>3, <3>1 DEF WindowsDieWithSession, WinInv
  <2> QED
    BY <1>6, <2>6, <2>8, <2>9, <2>10
<1> QED
  BY <1>7, <1>8

LEMMA ReceiveKeeps ==
  ASSUME WinInv, NEW c \in Clients, Receive(c)
  PROVE  TurnPart' /\ OwnerPart' /\ AnnouncedPart' /\ LinkedToOwn' /\ WindowsDieWithSession'
<1>1. /\ pc[c] = "wait" /\ mq # << >> /\ windows' = windows
      /\ pc \in [Clients -> Places] /\ session \in [Clients -> Session] /\ received \in [Clients -> 0 .. 2]
      /\ Opening(c) /\ Filling(c)
  BY DEF Receive, WinInv, TypePart, WinTypeOK, Places, Opening, Filling
<1>2. PICK k0 \in Kinds, p0 \in Pids :
        /\ 1 \in DOMAIN mq /\ Head(mq) = mq[1] /\ mq[1].kind = k0 /\ mq[1].process_pid = p0
        /\ mq' = Tail(mq)
        /\ \A i \in DOMAIN mq' : i + 1 \in DOMAIN mq /\ i + 1 # 1 /\ mq'[i] = mq[i + 1]
  BY <1>1, QueueTail DEF Receive, WinInv, TypePart, WinTypeOK, IpcPidMessage
<1>3. \A d \in Clients : d # c => ~Opening(d) /\ ~Filling(d) /\ ToStart(d) = {}
  BY <1>1, OthersRest
<1>4. \A k \in Kinds : Announced(c, k)
  BY <1>1 DEF WinInv, AnnouncedPart
<1>5. /\ session'[c][k0] = p0 /\ \A k \in Kinds : k # k0 => session'[c][k] = session[c][k]
      /\ \A d \in Clients : d # c => session'[d] = session[d]
  BY <1>1, <1>2 DEF Receive, Slot, Session, Kinds
<1>6. /\ session[c][k0] = NoPid /\ Theirs(p0, c, k0) /\ p0 # NoPid
      /\ \A i \in DOMAIN mq' : mq'[i].kind # k0
  BY <1>2, <1>4, PidsAssumption DEF Announced
<1>7. /\ received'[c] = received[c] + 1 /\ \A d \in Clients : d # c => received'[d] = received[d]
      /\ pc'[c] = (IF received[c] + 1 >= 2 THEN "linked" ELSE "wait")
      /\ \A d \in Clients : d # c => pc'[d] = pc[d]
  BY <1>1 DEF Receive, Enough
<1>8. /\ received[c] = Noted(c, "receiver") + Noted(c, "sender")
      /\ received'[c] = Noted(c, "receiver")' + Noted(c, "sender")'
  <2>1. received[c] = Noted(c, "receiver") + Noted(c, "sender")
    BY <1>1 DEF WinInv, AnnouncedPart
  <2>2. Noted(c, k0) = 0 /\ Noted(c, k0)' = 1 /\ \A k \in Kinds : k # k0 => Noted(c, k)' = Noted(c, k)
    BY <1>5, <1>6 DEF Noted
  <2>3. \A k \in Kinds : Noted(c, k) \in {0, 1}
    BY DEF Noted
  <2> QED
    BY <1>2, <1>7, <2>1, <2>2, <2>3 DEF Kinds
<1>9. \A d \in Clients : d # c => /\ PidsOf(d)' = PidsOf(d) /\ ~Opening(d)' /\ ~Filling(d)' /\ ToStart(d)' = {}
  BY <1>3, <1>5, <1>7 DEF PidsOf, Opening, Filling, ToStart
<1>10. TurnPart'
  BY <1>9 DEF TurnPart
<1>11. ToStart(c)' = {}
  BY <1>7 DEF ToStart
<1>12. CASE received[c] + 1 < 2
  <2>1. pc'[c] = "wait" /\ Opening(c)' /\ Filling(c)'
    BY <1>1, <1>7, <1>12 DEF Opening, Filling
  <2>2. OwnerPart'
    BY <1>1, <1>7, <2>1, <1>9 DEF OwnerPart, WinInv, Filling
  <2>3. ASSUME NEW k \in Kinds
        PROVE  Announced(c, k)'
    <3>1. CASE k = k0
      BY <1>1, <1>2, <1>4, <1>5, <1>6, <3>1 DEF Announced, Theirs
    <3>2. CASE k # k0
      <4>1. Announced(c, k) /\ session'[c][k] = session[c][k]
        BY <1>4, <1>5, <3>2
      <4>2. \A i, j \in DOMAIN mq' : i + 1 = j + 1 => i = j
        <5>1. DOMAIN mq' \subseteq Nat
          BY <1>1, <1>2, QueueTail DEF WinInv, TypePart, WinTypeOK
        <5> QED
          BY <5>1
      <4> QED
        BY <1>1, <1>2, <4>1, <4>2 DEF Announced, Theirs
    <3> QED
      BY <3>1, <3>2
  <2>4. AnnouncedPart'
    BY <1>8, <1>9, <1>11, <2>1, <2>3 DEF AnnouncedPart, Opening
  <2>5. LinkedToOwn'
    BY <1>1, <1>5, <1>7, <1>9, <2>1 DEF LinkedToOwn, WinInv
  <2>6. WindowsDieWithSession'
    <3>1. \A p \in DOMAIN windows : windows[p].owner \in Clients \cup {NoClient}
      BY DEF WinInv, TypePart, WinTypeOK, Window
    <3> QED
      BY <1>1, <1>5, <1>7, <1>9, <2>1, <3>1 DEF WindowsDieWithSession, WinInv, Opening, PidsOf
  <2> QED
    BY <1>10, <2>2, <2>4, <2>5, <2>6
<1>13. CASE received[c] + 1 >= 2
  <2>1. pc'[c] = "linked" /\ ~Opening(c)' /\ ~Filling(c)'
    BY <1>7, <1>13 DEF Opening, Filling
  <2>2. \A k \in Kinds : k # k0 => session[c][k] # NoPid
    BY <1>2, <1>6, <1>8, <1>13 DEF Kinds, Noted
  <2>3. \A k \in Kinds : session'[c][k] # NoPid /\ Theirs(session'[c][k], c, k)
    BY <1>4, <1>5, <1>6, <2>2 DEF Announced
  <2>4. DOMAIN mq' = {}
    <3> SUFFICES ASSUME NEW i \in DOMAIN mq' PROVE FALSE
      OBVIOUS
    <3>1. mq'[i].kind \in Kinds \ {k0} /\ mq'[i] = mq[i + 1] /\ i + 1 \in DOMAIN mq
      <4>1. Tail(mq) \in Seq(IpcPidMessage)
        BY <1>1, QueueTail DEF WinInv, TypePart, WinTypeOK
      <4>2. Tail(mq)[i] \in IpcPidMessage
        BY <1>2, <4>1, LenProperties, ElementOfSeq
      <4> QED
        BY <1>2, <1>6, <4>2 DEF IpcPidMessage
    <3> QED
      BY <1>4, <2>2, <3>1 DEF Announced
  <2>5. ASSUME NEW p \in DOMAIN windows, windows[p].owner = c
        PROVE  windows[p].reported /\ session'[c][windows[p].kind] = p /\ windows[p].kind \in Kinds
    <3>1. windows[p].kind \in Kinds
      BY DEF WinInv, TypePart, WinTypeOK, Window
    <3>2. CASE windows[p].kind = k0
      BY <1>2, <1>4, <1>5, <2>5, <3>1, <3>2 DEF Announced
    <3>3. CASE windows[p].kind # k0
      BY <1>4, <1>5, <2>2, <2>5, <3>1, <3>3 DEF Announced
    <3> QED
      BY <3>1, <3>2, <3>3
  <2>6. OwnerPart'
    <3>1. \A p \in DOMAIN windows : windows[p].reported
      BY <1>3, <2>5 DEF WinInv, OwnerPart
    <3> QED
      BY <1>1, <1>7, <2>1, <2>4, <3>1 DEF OwnerPart, WinInv
  <2>7. AnnouncedPart'
    BY <1>9, <1>11, <2>1 DEF AnnouncedPart, Opening, Filling
  <2>8. LinkedToOwn'
    <3>1. PidsOf(c)' # {}
      BY <2>3 DEF PidsOf, Kinds
    <3> QED
      BY <1>1, <1>5, <1>7, <1>9, <2>1, <2>3, <3>1 DEF LinkedToOwn, WinInv, Theirs
  <2>9. WindowsDieWithSession'
    <3>1. \A p \in DOMAIN windows : windows[p].owner = c => p \in PidsOf(c)'
      BY <2>3, <2>5 DEF PidsOf, Kinds
    <3>2. \A p \in DOMAIN windows : windows[p].owner \in Clients \cup {NoClient}
      BY DEF WinInv, TypePart, WinTypeOK, Window
    <3> QED
      BY <1>1, <1>7, <1>9, <1>3, <2>1, <3>1, <3>2 DEF WindowsDieWithSession, WinInv
  <2> QED
    BY <1>10, <2>6, <2>7, <2>8, <2>9
<1> QED
  <2>1. received[c] \in Nat
    BY <1>1
  <2> QED
    BY <1>12, <1>13, <2>1

-----------------------------------------------------------------------------
(***************************************************************************)
(* The ends: of a session, of a client, of a window.  What is said of the  *)
(* windows that run stays true when some of them go.                       *)
(***************************************************************************)
\* f has windows of g only, each with its owner and kind, none of them back from its report.
Thinned(f, g) ==
  /\ DOMAIN f \subseteq DOMAIN g
  /\ \A p \in DOMAIN f : f[p].owner = g[p].owner /\ f[p].kind = g[p].kind /\ (g[p].reported => f[p].reported)

LEMMA ThinnedAnnounced ==
  ASSUME NEW c \in Clients, NEW k \in Kinds, Thinned(windows', windows),
         mq' = mq, session'[c] = session[c]
  PROVE  (Announced(c, k) => Announced(c, k)') /\ (Unannounced(c, k) => Unannounced(c, k)')
BY DEF Thinned, Announced, Unannounced, Theirs

LEMMA ThinnedKeeps ==
  ASSUME WinInv, Thinned(windows', windows), UNCHANGED <<pc, session, received, mq>>
  PROVE  TurnPart' /\ OwnerPart' /\ AnnouncedPart' /\ LinkedToOwn' /\ WindowsDieWithSession'
<1>1. \A c \in Clients : /\ PidsOf(c)' = PidsOf(c) /\ \A k \in Kinds : Noted(c, k)' = Noted(c, k)
                        /\ (Opening(c)' <=> Opening(c)) /\ (Filling(c)' <=> Filling(c)) /\ ToStart(c)' = ToStart(c)
  BY DEF PidsOf, Noted, Opening, Filling, ToStart
<1>2. TurnPart'
  BY <1>1 DEF TurnPart, WinInv
<1>3. OwnerPart'
  BY <1>1 DEF OwnerPart, WinInv, Thinned
<1>4. AnnouncedPart'
  <2>1. \A c \in Clients : ToStart(c) \subseteq Kinds
    BY DEF ToStart, Kinds
  <2> QED
    BY <1>1, <2>1, ThinnedAnnounced DEF AnnouncedPart, WinInv, Kinds
<1>5. LinkedToOwn'
  BY <1>1 DEF LinkedToOwn, WinInv, Thinned
<1>6. WindowsDieWithSession'
  <2>1. \A p \in DOMAIN windows : windows[p].owner \in Clients \cup {NoClient}
    BY DEF WinInv, TypePart, WinTypeOK, Window
  <2> QED
    BY <1>1, <2>1 DEF WindowsDieWithSession, WinInv, Thinned
<1> QED
  BY <1>2, <1>3, <1>4, <1>5, <1>6

LEMMA CloseKeeps ==
  ASSUME WinInv, NEW c \in Clients, Close(c)
  PROVE  TurnPart' /\ OwnerPart' /\ AnnouncedPart' /\ LinkedToOwn' /\ WindowsDieWithSession'
<1>1. /\ pc[c] = "linked" /\ pc'[c] = "idle" /\ \A d \in Clients : d # c => pc'[d] = pc[d] /\ session'[d] = session[d]
      /\ received' = received /\ mq' = mq
      /\ windows' = [p \in DOMAIN windows \ PidsOf(c) |-> windows[p]]
  BY DEF Close, Kill, WinInv, TypePart, WinTypeOK
<1>2. Thinned(windows', windows)
  BY <1>1 DEF Thinned
<1>3. \A d \in Clients : d # c =>
        /\ PidsOf(d)' = PidsOf(d) /\ \A k \in Kinds : Noted(d, k)' = Noted(d, k)
        /\ (Opening(d)' <=> Opening(d)) /\ (Filling(d)' <=> Filling(d)) /\ ToStart(d)' = ToStart(d)
  BY <1>1 DEF PidsOf, Noted, Opening, Filling, ToStart
<1>4. ~Opening(c) /\ ~Opening(c)' /\ ~Filling(c) /\ ~Filling(c)' /\ ToStart(c)' = {}
  BY <1>1 DEF Opening, Filling, ToStart
<1>5. \A p \in DOMAIN windows : windows[p].owner \in Clients \cup {NoClient}
  BY DEF WinInv, TypePart, WinTypeOK, Window
<1>6. \A p \in DOMAIN windows' : windows'[p].owner # c /\ windows'[p] = windows[p]
  BY <1>1, <1>4, PidsAssumption DEF WinInv, WindowsDieWithSession
<1>7. TurnPart'
  BY <1>3, <1>4 DEF TurnPart, WinInv
<1>8. OwnerPart'
  <2>1. \A p \in DOMAIN windows' : windows'[p].owner \in Clients => pc'[windows'[p].owner] \notin {"idle", "flush"}
    BY <1>1, <1>2, <1>6 DEF OwnerPart, WinInv, Thinned
  <2>2. \A p \in DOMAIN windows' : ~windows'[p].reported => /\ windows'[p].owner \in Clients
                                                             /\ pc'[windows'[p].owner] \in {"receiver", "sender", "wait"}
    BY <1>1, <1>2, <1>6 DEF OwnerPart, WinInv, Thinned, Filling
  <2>3. ASSUME \A d \in Clients : ~Filling(d)', NEW i \in DOMAIN mq, mq[i].process_pid \in DOMAIN windows'
        PROVE  windows'[mq[i].process_pid].owner = NoClient
    BY <1>2, <1>3, <1>4, <1>6, <2>3 DEF OwnerPart, WinInv, Thinned
  <2> QED
    BY <1>1, <2>1, <2>2, <2>3 DEF OwnerPart, Filling
<1>9. AnnouncedPart'
  <2>1. \A d \in Clients : ToStart(d) \subseteq Kinds
    BY DEF ToStart, Kinds
  <2>2. \A d \in Clients, k \in Kinds : d # c => (Announced(d, k) => Announced(d, k)') /\ (Unannounced(d, k) => Unannounced(d, k)')
    BY <1>1, <1>2, ThinnedAnnounced
  <2>3. pc'[c] # "flush"
    BY <1>1
  <2> QED
    BY <1>1, <1>3, <1>4, <2>1, <2>2, <2>3 DEF AnnouncedPart, WinInv, Kinds
<1>10. LinkedToOwn'
  <2> SUFFICES ASSUME NEW d \in Clients, pc'[d] = "linked"
               PROVE  /\ PidsOf(d)' = {} => "failure" \in Faults
                      /\ PidsOf(d)' # {} => \A k \in Kinds :
                           /\ session'[d][k] # NoPid
                           /\ session'[d][k] \in DOMAIN windows' =>
                                windows'[session'[d][k]].owner = d /\ windows'[session'[d][k]].kind = k
    BY DEF LinkedToOwn
  <2>1. d # c /\ pc[d] = "linked"
    BY <1>1
  <2> QED
    BY <1>1, <1>2, <1>3, <1>6, <2>1 DEF LinkedToOwn, WinInv, Thinned
<1>11. WindowsDieWithSession'
  BY <1>1, <1>2, <1>3, <1>5, <1>6 DEF WindowsDieWithSession, WinInv, Thinned
<1> QED
  BY <1>7, <1>8, <1>9, <1>10, <1>11

LEMMA KilledKeeps ==
  ASSUME WinInv, NEW c \in Clients, Killed(c)
  PROVE  TurnPart' /\ OwnerPart' /\ AnnouncedPart' /\ LinkedToOwn' /\ WindowsDieWithSession'
<1>1. /\ pc'[c] = "idle" /\ \A d \in Clients : d # c => pc'[d] = pc[d] /\ session'[d] = session[d]
      /\ received' = received /\ mq' = mq /\ ~Coming(c)
  BY DEF Killed, WinInv, TypePart, WinTypeOK
<1>2. \A p \in DOMAIN windows : windows[p] \in Window
  BY DEF WinInv, TypePart, WinTypeOK
<1>3. /\ DOMAIN windows' = DOMAIN windows
      /\ \A p \in DOMAIN windows :
           /\ windows[p].owner = c => windows'[p].owner = NoClient
           /\ windows[p].owner # c => windows'[p].owner = windows[p].owner
           /\ windows'[p].kind = windows[p].kind /\ windows'[p].reported = windows[p].reported
  BY <1>2 DEF Killed, Window
<1>4. \A p \in DOMAIN windows' : windows'[p].owner # c /\ windows'[p].owner \in Clients \cup {NoClient}
  BY <1>2, <1>3, PidsAssumption DEF Window
<1>5. \A d \in Clients : d # c =>
        /\ PidsOf(d)' = PidsOf(d) /\ \A k \in Kinds : Noted(d, k)' = Noted(d, k)
        /\ (Opening(d)' <=> Opening(d)) /\ (Filling(d)' <=> Filling(d)) /\ ToStart(d)' = ToStart(d)
  BY <1>1 DEF PidsOf, Noted, Opening, Filling, ToStart
<1>6. ~Opening(c)' /\ ~Filling(c)' /\ ToStart(c)' = {}
  BY <1>1 DEF Opening, Filling, ToStart
<1>7. TurnPart'
  BY <1>5, <1>6 DEF TurnPart, WinInv
<1>8. OwnerPart'
  <2>1. \A p \in DOMAIN windows' : windows'[p].owner \in Clients => pc'[windows'[p].owner] \notin {"idle", "flush"}
    BY <1>1, <1>3, <1>4, PidsAssumption DEF OwnerPart, WinInv
  <2>2. \A p \in DOMAIN windows' : ~windows'[p].reported => /\ windows'[p].owner \in Clients
                                                             /\ pc'[windows'[p].owner] \in {"receiver", "sender", "wait"}
    BY <1>1, <1>3 DEF OwnerPart, WinInv, Coming, Filling
  <2>3. ASSUME \A d \in Clients : ~Filling(d)', NEW i \in DOMAIN mq, mq[i].process_pid \in DOMAIN windows'
        PROVE  windows'[mq[i].process_pid].owner = NoClient
    <3>1. CASE Filling(c)
      <4>1. Announced(c, mq[i].kind)
        <5>1. mq[i].kind \in Kinds
          <6>1. mq \in Seq(IpcPidMessage)
            BY DEF WinInv, TypePart, WinTypeOK
          <6>2. mq[i] \in IpcPidMessage
            BY <6>1, LenProperties, ElementOfSeq
          <6> QED
            BY <6>2 DEF IpcPidMessage
        <5> QED
          BY <3>1, <5>1 DEF WinInv, AnnouncedPart
      <4> QED
        BY <1>3, <2>3, <4>1 DEF Announced, Theirs
    <3>2. CASE ~Filling(c)
      BY <1>3, <1>5, <2>3, <3>2 DEF OwnerPart, WinInv
    <3> QED
      BY <3>1, <3>2
  <2> QED
    BY <1>1, <2>1, <2>2, <2>3 DEF OwnerPart, Filling
<1>9. AnnouncedPart'
  <2>1. \A d \in Clients : ToStart(d) \subseteq Kinds
    BY DEF ToStart, Kinds
  <2>2. ASSUME NEW d \in Clients, NEW k \in Kinds, d # c
        PROVE  (Announced(d, k) => Announced(d, k)') /\ (Unannounced(d, k) => Unannounced(d, k)')
    <3>1. d # NoClient
      BY PidsAssumption
    <3> QED
      BY <1>1, <1>3, <2>2, <3>1 DEF Announced, Unannounced, Theirs
  <2>3. pc'[c] # "flush"
    BY <1>1
  <2> QED
    BY <1>1, <1>5, <1>6, <2>1, <2>2, <2>3 DEF AnnouncedPart, WinInv, Kinds
<1>10. LinkedToOwn'
  <2> SUFFICES ASSUME NEW d \in Clients, pc'[d] = "linked"
               PROVE  /\ PidsOf(d)' = {} => "failure" \in Faults
                      /\ PidsOf(d)' # {} => \A k \in Kinds :
                           /\ session'[d][k] # NoPid
                           /\ session'[d][k] \in DOMAIN windows' =>
                                windows'[session'[d][k]].owner = d /\ windows'[session'[d][k]].kind = k
    BY DEF LinkedToOwn
  <2>1. d # c /\ pc[d] = "linked" /\ d # NoClient
    BY <1>1, PidsAssumption
  <2> QED
    BY <1>1, <1>3, <1>5, <2>1 DEF LinkedToOwn, WinInv
<1>11. WindowsDieWithSession'
  BY <1>1, <1>3, <1>4, <1>5 DEF WindowsDieWithSession, WinInv
<1> QED
  BY <1>7, <1>8, <1>9, <1>10, <1>11

LEMMA ReportKeeps ==
  ASSUME WinInv, NEW p \in Pids, Report(p)
  PROVE  TurnPart' /\ OwnerPart' /\ AnnouncedPart' /\ LinkedToOwn' /\ WindowsDieWithSession'
<1>1. /\ p \in DOMAIN windows /\ ~windows[p].reported
      /\ pc' = pc /\ session' = session /\ received' = received
      /\ windows[p] \in Window /\ mq \in Seq(IpcPidMessage)
  BY DEF Report, WinInv, TypePart, WinTypeOK
<1>2. PICK c \in Clients, k \in Kinds : windows[p].owner = c /\ windows[p].kind = k /\ Filling(c)
  BY <1>1 DEF WinInv, OwnerPart, Window
<1>3. \A d \in Clients : d # c => ~Opening(d) /\ ~Filling(d) /\ ToStart(d) = {}
  BY <1>2, OthersRest DEF Filling, Opening
<1>4. /\ DOMAIN windows' = DOMAIN windows /\ windows'[p].reported
      /\ \A q \in DOMAIN windows :
           /\ windows'[q].owner = windows[q].owner /\ windows'[q].kind = windows[q].kind
           /\ q # p => windows'[q].reported = windows[q].reported
  BY <1>1 DEF Report, Window
<1>5. CASE mq' = mq
  BY <1>1, <1>4, <1>5, ThinnedKeeps DEF Thinned
<1>6. CASE mq' = Append(mq, [process_pid |-> p, kind |-> k])
  <2> DEFINE n == Len(mq) + 1
  <2>1. /\ DOMAIN mq' = DOMAIN mq \cup {n} /\ n \notin DOMAIN mq
        /\ mq'[n].kind = k /\ mq'[n].process_pid = p
        /\ \A i \in DOMAIN mq : mq'[i] = mq[i]
    <3>1. [process_pid |-> p, kind |-> k] \in IpcPidMessage
      BY DEF IpcPidMessage
    <3> QED
      BY <1>1, <1>6, <3>1, QueueAppend
  <2> HIDE DEF n
  <2>2. \A d \in Clients : /\ PidsOf(d)' = PidsOf(d) /\ \A l \in Kinds : Noted(d, l)' = Noted(d, l)
                          /\ (Opening(d)' <=> Opening(d)) /\ (Filling(d)' <=> Filling(d)) /\ ToStart(d)' = ToStart(d)
    BY <1>1 DEF PidsOf, Noted, Opening, Filling, ToStart
  <2>3. \A l \in Kinds : Announced(c, l)
    BY <1>2 DEF WinInv, AnnouncedPart
  <2>4. session[c][k] = NoPid /\ \A i \in DOMAIN mq : mq[i].kind # k
    BY <1>1, <1>2, <2>3 DEF Announced
  <2>5. TurnPart'
    BY <2>2 DEF TurnPart, WinInv
  <2>6. OwnerPart'
    BY <1>1, <1>2, <1>4, <2>2 DEF OwnerPart, WinInv
  <2>7. ASSUME NEW l \in Kinds
        PROVE  Announced(c, l)'
    <3>1. Announced(c, l)
      BY <2>3
    <3>2. CASE l = k
      BY <1>1, <1>2, <1>4, <2>1, <2>4, <3>1, <3>2 DEF Announced, Theirs
    <3>3. CASE l # k
      BY <1>1, <1>2, <1>4, <2>1, <3>1, <3>3 DEF Announced, Theirs
    <3> QED
      BY <3>2, <3>3
  <2>8. ASSUME NEW l \in ToStart(c)
        PROVE  Unannounced(c, l)'
    <3>1. Unannounced(c, l) /\ l # k
      BY <1>1, <1>2 DEF WinInv, AnnouncedPart, Unannounced
    <3> QED
      BY <1>1, <1>4, <2>1, <3>1 DEF Unannounced
  <2>9. AnnouncedPart'
    BY <1>1, <1>2, <1>3, <2>2, <2>7, <2>8 DEF AnnouncedPart, WinInv, Kinds
  <2>10. LinkedToOwn'
    BY <1>1, <1>4, <2>2 DEF LinkedToOwn, WinInv
  <2>11. WindowsDieWithSession'
    <3>1. \A q \in DOMAIN windows : windows[q].owner \in Clients \cup {NoClient}
      BY DEF WinInv, TypePart, WinTypeOK, Window
    <3> QED
      BY <1>1, <1>4, <2>2, <3>1 DEF WindowsDieWithSession, WinInv
  <2> QED
    BY <2>5, <2>6, <2>9, <2>10, <2>11
<1> QED
  BY <1>2, <1>5, <1>6 DEF Report

-----------------------------------------------------------------------------
(***************************************************************************)
(* The theorems.                                                           *)
(***************************************************************************)
LEMMA WinSteps ==
  ASSUME "overlap" \notin Faults, WinInv, [WinNext]_winvars
  PROVE  WinInv'
<1>1. CASE WinNext
  <2>1. TypePart'
    BY <1>1, TypeSteps DEF WinInv
  <2>2. TurnPart' /\ OwnerPart' /\ AnnouncedPart' /\ LinkedToOwn' /\ WindowsDieWithSession'
    <3>1. ASSUME NEW p \in Pids, Exits(p) \/ Send(p)
          PROVE  Thinned(windows', windows) /\ UNCHANGED <<pc, session, received, mq>>
      <4>1. \A q \in DOMAIN windows : windows[q] \in Window
        BY DEF WinInv, TypePart, WinTypeOK
      <4> QED
        BY <3>1, <4>1 DEF Exits, Send, Thinned, Window
    <3>2. ASSUME NEW c \in Clients, client_spawn_chat_windows(c)
          PROVE  TurnPart' /\ OwnerPart' /\ AnnouncedPart' /\ LinkedToOwn' /\ WindowsDieWithSession'
      BY <3>2, FlushKeeps, SpawnKeeps, ReceiveKeeps DEF client_spawn_chat_windows
    <3> QED
      BY <1>1, <3>1, <3>2, ThinnedKeeps, BeginKeeps, CloseKeeps, KilledKeeps, ReportKeeps DEF WinNext
  <2> QED
    BY <2>1, <2>2 DEF WinInv
<1>2. CASE UNCHANGED winvars
  <2>1. TypePart'
    BY <1>2 DEF winvars, WinInv, TypePart, WinTypeOK, Opening
  <2>2. Thinned(windows', windows)
    BY <1>2 DEF winvars, Thinned
  <2> QED
    BY <1>2, <2>1, <2>2, ThinnedKeeps DEF winvars, WinInv
<1> QED
  BY <1>1, <1>2

LEMMA WinStarts == WinInit => WinInv
<1> SUFFICES ASSUME WinInit PROVE WinInv
  OBVIOUS
<1>1. TypePart
  BY TypesStart
<1>2. DOMAIN windows = {} /\ DOMAIN mq = {}
  BY DEF WinInit
<1>3. \A c \in Clients : ~Opening(c) /\ ~Filling(c) /\ ToStart(c) = {} /\ pc[c] = "idle"
  BY DEF WinInit, Opening, Filling, ToStart
<1> QED
  BY <1>1, <1>2, <1>3 DEF WinInv, TurnPart, OwnerPart, AnnouncedPart, LinkedToOwn, WindowsDieWithSession

\* The processes, sessions, reports and windows keep their shape, whatever goes wrong:
\* in particular no client counts more than the two reports it waits for.
THEOREM WinTypeCorrect == WinSpec => []WinTypeOK
<1>1. TypePart /\ [WinNext]_winvars => TypePart'
  BY TypeSteps DEF winvars, TypePart, WinTypeOK, Opening
<1>2. TypePart => WinTypeOK
  BY DEF TypePart
<1> QED
  BY <1>1, <1>2, TypesStart, PTL DEF WinSpec

\* The invariant of clients that take turns: every window that is started is announced
\* once, and nothing else is in the queue meanwhile.
THEOREM WinInvariance ==
  ASSUME "overlap" \notin Faults
  PROVE  WinSpec => []WinInv
<1>1. WinInv /\ [WinNext]_winvars => WinInv'
  BY WinSteps
<1> QED
  BY <1>1, WinStarts, PTL DEF WinSpec

\* While clients take turns, a linked session of client_spawn_chat_windows names its own
\* two windows, each in its place, whatever failed and whoever was killed.
THEOREM SessionsNameTheirWindows ==
  ASSUME "overlap" \notin Faults
  PROVE  WinSpec => []LinkedToOwn
<1>1. WinInv => LinkedToOwn
  BY DEF WinInv
<1> QED
  BY <1>1, WinInvariance, PTL

\* While clients take turns, client_close_group_session leaves no window behind.
THEOREM NoWindowOutlivesSession ==
  ASSUME "overlap" \notin Faults
  PROVE  WinSpec => []WindowsDieWithSession
<1>1. WinInv => WindowsDieWithSession
  BY DEF WinInv
<1> QED
  BY <1>1, WinInvariance, PTL

\* While clients take turns, what is in the queue between two openings is from clients
\* that were killed.
THEOREM QueueIsLeftEmpty ==
  ASSUME "overlap" \notin Faults
  PROVE  WinSpec => []NothingLeftOver
<1>1. WinInv => NothingLeftOver
  BY DEF WinInv, OwnerPart, NothingLeftOver, Filling, Opening, Queued
<1> QED
  BY <1>1, WinInvariance, PTL

\* Taking turns is all that the flush of client_mng.c:130 needs: then what it throws
\* away is of nobody who waits.
THEOREM TurnsProtectTheFlush ==
  ASSUME "overlap" \notin Faults
  PROVE  WinSpec => FlushesOldReportsOnly
<1>1. ASSUME WinInv, NEW c \in Clients, pc[c] = "flush", Flush(c), mq # << >>,
             Head(mq).process_pid \in DOMAIN windows
      PROVE  windows[Head(mq).process_pid].owner = NoClient
  <2>1. \A d \in Clients : ~Filling(d)
    BY <1>1, OthersRest DEF Opening, Filling
  <2>2. 1 \in DOMAIN mq /\ Head(mq) = mq[1]
    BY <1>1, QueueTail DEF WinInv, TypePart, WinTypeOK
  <2> QED
    BY <1>1, <2>1, <2>2 DEF WinInv, OwnerPart
<1>2. WinInv => \A c \in Clients : pc[c] = "flush" /\ Flush(c) /\ mq # << >> =>
                  LET p == Head(mq).process_pid
                  IN  p \in DOMAIN windows /\ windows[p].owner \in Clients => ~Opening(windows[p].owner)
  BY <1>1, PidsAssumption
<1> QED
  BY <1>2, WinInvariance, PTL DEF FlushesOldReportsOnly
=============================================================================
