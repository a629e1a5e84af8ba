---------------------------- MODULE ChatWindows ----------------------------
(***************************************************************************)
(* How a client learns the PIDs of the two chat windows it opens for a     *)
(* group, and kills them when it leaves: client_spawn_chat_windows and     *)
(* client_close_group_session of client_mng.c, with the reports and the    *)
(* datagrams of sender.c and receiver.c.                                   *)
(*                                                                         *)
(* All the clients and windows of a host share one System V queue (the key *)
(* is a constant), and all clients are on the server's host (SERVER_IP is  *)
(* the loopback).  Each client has one session here: opening it again      *)
(* after it was closed stands for the next one.                            *)
(*                                                                         *)
(* Faults says what goes wrong around the clients:                         *)
(*   "overlap"  two of them open windows at a time (nothing prevents it);  *)
(*   "failure"  a terminal, a socket or the queue is not to be had;        *)
(*   "death"    a client is killed, and another one started.               *)
(***************************************************************************)
EXTENDS Naturals, Sequences, FiniteSets

CONSTANTS
  Clients,
  NoClient,  \* whose window it is once its client was killed
  Pids,      \* process ids for the windows
  NoPid,     \* the 0 of a cleared GroupSession
  Addrs,     \* the multicast addresses the server gives to groups
  NoAddr,    \* the empty string of a cleared GroupSession
  Faults     \* what goes wrong, as above

ASSUME PidsAssumption == NoPid \notin Pids /\ NoAddr \notin Addrs /\ NoClient \notin Clients
ASSUME FaultsAssumption == Faults \subseteq {"overlap", "failure", "death"}

VARIABLES
  pc,        \* where each client is in client_spawn_chat_windows
  session,   \* the address of each client's group and the PIDs it has noted
  received,  \* how many reports each client has taken while it waits
  mq,        \* the message queue
  windows    \* the window processes that run: PID |-> whose it is, its kind and address,
             \* whether it has reported, and to which address the line it showed last went

winvars == <<pc, session, received, mq, windows>>

Kinds == {"receiver", "sender"}
Session ==
  [receiver : Pids \cup {NoPid}, sender : Pids \cup {NoPid}, addr : Addrs \cup {NoAddr}]
Window == [owner : Clients \cup {NoClient}, kind : Kinds, addr : Addrs, reported : BOOLEAN,
           shown : Addrs \cup {NoAddr}]
IpcPidMessage == [process_pid : Pids, kind : Kinds]
Cleared == [receiver |-> NoPid, sender |-> NoPid, addr |-> NoAddr]
Opened(a) == [Cleared EXCEPT !.addr = a]

Opening(c) == pc[c] \notin {"idle", "linked"}
PidsOf(c) == {session[c].receiver, session[c].sender} \ {NoPid}
Queued == {mq[i].process_pid : i \in DOMAIN mq}

\* The PIDs that fork() may give: not one that somebody still mentions.
FreePids == Pids \ (DOMAIN windows \cup Queued \cup UNION {PidsOf(c) : c \in Clients})

MayFail == IF "failure" \in Faults THEN BOOLEAN ELSE {FALSE}
MayBegin(c) == pc[c] = "idle" /\ ("overlap" \in Faults \/ \A d \in Clients : ~Opening(d))

-----------------------------------------------------------------------------
(***************************************************************************)
(* The client.                                                             *)
(***************************************************************************)
\* Seeded fault: the count of the last opening is kept.
Begin_KeepsCount(c) ==
  /\ MayBegin(c)
  /\ \E a \in Addrs : session' = [session EXCEPT ![c] = Opened(a)]
  /\ \E failed \in MayFail : pc' = [pc EXCEPT ![c] = IF failed THEN "linked" ELSE "flush"]
  /\ UNCHANGED <<received, mq, windows>>

\* The caller clears the session, copies the address the server gave (any: a group
\* may have several members here, and there may be several groups) and does not look
\* at the -1 it gets when there is no queue.
Begin(c) ==
  /\ MayBegin(c)
  /\ \E a \in Addrs : session' = [session EXCEPT ![c] = Opened(a)]
  /\ received' = [received EXCEPT ![c] = 0]
  /\ \E failed \in MayFail : pc' = [pc EXCEPT ![c] = IF failed THEN "linked" ELSE "flush"]
  /\ UNCHANGED <<mq, windows>>

\* msgrcv with IPC_NOWAIT, again and again, until it finds nothing.
Flush(c) ==
  /\ pc[c] = "flush"
  /\ IF mq = << >> THEN pc' = [pc EXCEPT ![c] = "receiver"] /\ UNCHANGED mq
                   ELSE mq' = Tail(mq) /\ UNCHANGED pc
  /\ UNCHANGED <<session, received, windows>>

\* system() comes back as soon as gnome-terminal has been asked for a window, which may
\* not come up; a result of -1 is only printed.
Spawn(c, kind, next) ==
  /\ pc[c] = kind
  /\ \/ "failure" \in Faults /\ UNCHANGED windows
     \/ \E p \in FreePids :
          windows' = [q \in DOMAIN windows \cup {p} |->
                        IF q = p THEN [owner |-> c, kind |-> kind, addr |-> session[c].addr,
                                       reported |-> FALSE, shown |-> NoAddr]
                                 ELSE windows[q]]
  /\ pc' = [pc EXCEPT ![c] = next]
  /\ UNCHANGED <<session, received, mq>>

\* Seeded faults: one report is enough, or two are not; the flag of the report
\* is taken backwards.
Enough_One == 1
Enough_Three == 3
Enough == 2
Slot_Swapped(msg) == CHOOSE k \in Kinds : k # msg.kind
Slot(msg) == msg.kind

\* Two reports are counted, whoever sent them and whatever their kinds.
Receive(c) ==
  /\ pc[c] = "wait"
  /\ mq # << >>
  /\ session' = [session EXCEPT ![c] = [@ EXCEPT ![Slot(Head(mq))] = Head(mq).process_pid]]
  /\ mq' = Tail(mq)
  /\ received' = [received EXCEPT ![c] = @ + 1]
  /\ pc' = [pc EXCEPT ![c] = IF received[c] + 1 >= Enough THEN "linked" ELSE "wait"]
  /\ UNCHANGED windows

\* Seeded fault: only the sender is killed.
Kill_SenderOnly(c) == {session[c].sender}

Kill(c) == PidsOf(c)

\* client_close_group_session: SIGTERM to both, whoever they are by now.
Close(c) ==
  /\ pc[c] = "linked"
  /\ windows' = [p \in DOMAIN windows \ Kill(c) |-> windows[p]]
  /\ session' = [session EXCEPT ![c] = Cleared]
  /\ pc' = [pc EXCEPT ![c] = "idle"]
  /\ UNCHANGED <<received, mq>>

Coming(c) == \E p \in DOMAIN windows : windows[p].owner = c /\ ~windows[p].reported

\* Ctrl-C, for one when the wait does not end: not before the windows it has asked for
\* have come up.  They stay, its reports in the queue may stay too, and the next client
\* process is started.
Killed(c) ==
  /\ "death" \in Faults
  /\ ~Coming(c)
  /\ pc' = [pc EXCEPT ![c] = "idle"]
  /\ session' = [session EXCEPT ![c] = Cleared]
  /\ windows' = [p \in DOMAIN windows |->
                   IF windows[p].owner = c THEN [windows[p] EXCEPT !.owner = NoClient] ELSE windows[p]]
  /\ UNCHANGED <<received, mq>>

(***************************************************************************)
(* A window: it reports its PID when its socket is set up (or goes on      *)
(* without when it gets no queue), and may be closed by hand; then a       *)
(* sender sends what is typed and a receiver shows what arrives.           *)
(***************************************************************************)
Report(p) ==
  /\ p \in DOMAIN windows
  /\ ~windows[p].reported
  /\ \E failed \in MayFail :
       mq' = IF failed THEN mq ELSE Append(mq, [process_pid |-> p, kind |-> windows[p].kind])
  /\ windows' = [windows EXCEPT ![p].reported = TRUE]
  /\ UNCHANGED <<pc, session, received>>

\* Before its report it exits only when its arguments or its socket are no good.
Exits(p) ==
  /\ p \in DOMAIN windows
  /\ windows[p].reported \/ "failure" \in Faults
  /\ windows' = [q \in DOMAIN windows \ {p} |-> windows[q]]
  /\ UNCHANGED <<pc, session, received, mq>>

Receivers == {q \in DOMAIN windows : windows[q].kind = "receiver" /\ windows[q].reported}

\* The sockets a datagram may reach: every one is bound to INADDR_ANY and to the one
\* port of all groups, so once a process of the host has joined an address, its
\* datagrams are for all of them.
Reached(addr) ==
  IF \E q \in Receivers : windows[q].addr = addr THEN Receivers ELSE {}

\* sendto, and recvfrom in the receivers that get the datagram.  UDP may lose it on the
\* way to any of them; the sender waits for nobody.
Send(p) ==
  /\ p \in DOMAIN windows
  /\ windows[p].kind = "sender" /\ windows[p].reported
  /\ \E got \in SUBSET Reached(windows[p].addr) :
       windows' = [q \in DOMAIN windows |->
                     IF q \in got THEN [windows[q] EXCEPT !.shown = windows[p].addr]
                                  ELSE windows[q]]
  /\ UNCHANGED <<pc, session, received, mq>>

WinInit ==
  /\ pc = [c \in Clients |-> "idle"]
  /\ session = [c \in Clients |-> Cleared]
  /\ received = [c \in Clients |-> 0]
  /\ mq = << >>
  /\ windows = << >>

client_spawn_chat_windows(c) ==
  \/ Flush(c)
  \/ Spawn(c, "receiver", "sender")
  \/ Spawn(c, "sender", "wait")
  \/ Receive(c)

WinNext ==
  \/ \E c \in Clients : Begin(c) \/ client_spawn_chat_windows(c) \/ Close(c) \/ Killed(c)
  \/ \E p \in Pids : Report(p) \/ Exits(p) \/ Send(p)

\* A started window reports and a client that can go on goes on.
WinSpec ==
  /\ WinInit /\ [][WinNext]_winvars
  /\ \A c \in Clients : WF_winvars(client_spawn_chat_windows(c))
  /\ \A p \in Pids : WF_winvars(Report(p))

-----------------------------------------------------------------------------
(***************************************************************************)
(* Properties.                                                             *)
(***************************************************************************)
\* The shape of the state.
WinTypeOK ==
  /\ pc \in [Clients -> {"idle", "flush", "receiver", "sender", "wait", "linked"}]
  /\ session \in [Clients -> Session]
  /\ received \in [Clients -> 0 .. 2]
  /\ mq \in Seq(IpcPidMessage)
  /\ DOMAIN windows \subseteq Pids
  /\ \A p \in DOMAIN windows : windows[p] \in Window

\* As long as clients take turns, a linked session holds its own two windows, each in its
\* place, unless one has been closed; or none at all, when there was no queue.
LinkedToOwn ==
  \A c \in Clients : pc[c] = "linked" =>
    /\ PidsOf(c) = {} => "failure" \in Faults
    /\ PidsOf(c) # {} => \A k \in Kinds :
         /\ session[c][k] # NoPid
         /\ session[c][k] \in DOMAIN windows =>
              windows[session[c][k]].owner = c /\ windows[session[c][k]].kind = k

\* And no window outlives its session (README.md: "graceful remote teardown
\* using kill() upon leaving a group"), but those of a client that was killed.
WindowsDieWithSession ==
  \A p \in DOMAIN windows : LET c == windows[p].owner
                            IN  c = NoClient \/ Opening(c) \/ (pc[c] = "linked" /\ p \in PidsOf(c))

\* And between two openings the queue holds nothing from a client that lives: what
\* the next one flushes is from previous runs.
NothingLeftOver ==
  (\A c \in Clients : ~Opening(c)) =>
    \A p \in Queued \cap DOMAIN windows : windows[p].owner = NoClient

\* No more reports will come than the client still waits for, but one or none.
ReportsMissing(c) ==
  /\ pc[c] = "wait"
  /\ ~Coming(c)
  /\ received[c] + Len(mq) < 2

\* "@return 0 on success, -1 on failure" (client.h:98): client_spawn_chat_windows comes
\* back, but when a report is missing, for the wait has no timeout.
OpeningEnds == \A c \in Clients : Opening(c) ~> ~Opening(c) \/ ReportsMissing(c)

\* "Flush the queue from previous runs" (client_mng.c:130): what the flush
\* throws away is the report of no window that somebody is waiting for.
FlushesOldReportsOnly ==
  [][\A c \in Clients : pc[c] = "flush" /\ Flush(c) /\ mq # << >> =>
       LET p == Head(mq).process_pid
       IN  p \in DOMAIN windows /\ windows[p].owner \in Clients =>
             ~Opening(windows[p].owner)]_winvars

\* "Groups are distinguished by IP only — all share the same port" (server_net.c:93): a
\* window shows what is said in its own group.
OwnGroupOnly ==
  \A p \in DOMAIN windows : windows[p].shown \in {NoAddr, windows[p].addr}
=============================================================================
