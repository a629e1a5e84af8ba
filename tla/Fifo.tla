-------------------------------- MODULE Fifo --------------------------------
(***************************************************************************)
(* What genqueue.h promises: a bounded queue that hands items out in the   *)
(* order they came in.  No slots, no indices.                              *)
(***************************************************************************)
EXTENDS Naturals, Sequences

CONSTANTS Items, NoItem, Size

VARIABLES
  exists,   \* whether there is a queue
  items,    \* its items, the oldest first
  visiting, \* "no", or what goes through the items: "each" (for-each) or "all" (destroy)
  visited,  \* how many it has been given
  answer    \* what the caller was told, or its callback given, last

fifovars == <<exists, items, visiting, visited, answer>>

Says(code, item) == answer' = [code |-> code, item |-> item]
Result(code) == Says(code, NoItem)

FifoInit ==
  /\ exists = FALSE /\ items = << >>
  /\ visiting = "no" /\ visited = 0
  /\ answer = [code |-> "none", item |-> NoItem]

Idle == visiting = "no" /\ UNCHANGED <<visiting, visited>>

Create ==
  /\ Idle
  /\ ~exists
  /\ items' = << >>
  /\ \/ exists' = TRUE /\ Result("created")
     \/ exists' = FALSE /\ Result("NULL")

Put(x) ==
  /\ Idle
  /\ UNCHANGED exists
  /\ CASE ~exists -> Result("QUEUE_UNINITIALIZED_ERROR") /\ UNCHANGED items
       [] exists /\ x = NoItem -> Result("QUEUE_DATA_UNINITIALIZED_ERROR") /\ UNCHANGED items
       [] exists /\ x # NoItem /\ Len(items) = Size ->
            Result("QUEUE_OVERFLOW_ERROR") /\ UNCHANGED items
       [] OTHER -> Result("QUEUE_SUCCESS") /\ items' = Append(items, x)

Take ==
  /\ Idle
  /\ UNCHANGED exists
  /\ CASE ~exists -> Result("QUEUE_UNINITIALIZED_ERROR") /\ UNCHANGED items
       [] exists /\ items = << >> -> Result("QUEUE_DATA_NOT_FOUND_ERROR") /\ UNCHANGED items
       [] OTHER -> Says("QUEUE_SUCCESS", Head(items)) /\ items' = Tail(items)

AskEmpty ==
  /\ Idle
  /\ Result(IF ~exists \/ items = << >> THEN "empty" ELSE "not empty")
  /\ UNCHANGED <<exists, items>>

\* A traversal gives each item once, in order ...
Visit(how) ==
  /\ visiting = "no"
  /\ exists
  /\ visiting' = how
  /\ visited' = 0
  /\ UNCHANGED <<exists, items, answer>>

Give ==
  /\ visiting # "no"
  /\ visited < Len(items)
  /\ visited' = visited + 1
  /\ Says("given", items[visited + 1])
  /\ UNCHANGED <<exists, items, visiting>>

\* ... and tells how many it gave: all, or fewer when the callback stops it.
Leave ==
  /\ visiting = "each"
  /\ \/ visited = Len(items) /\ Says("visited", visited)
     \/ visited > 0 /\ Says("stopped", visited)
  /\ visiting' = "no"
  /\ visited' = 0
  /\ UNCHANGED <<exists, items>>

\* Nobody is left out when the queue goes.
Destroyed ==
  /\ visiting = "all"
  /\ visited = Len(items)
  /\ exists' = FALSE
  /\ items' = << >>
  /\ visiting' = "no"
  /\ visited' = 0
  /\ Result("destroyed")

FifoNext ==
  \/ Create \/ Take \/ AskEmpty
  \/ \E x \in Items \cup {NoItem} : Put(x)
  \/ \E how \in {"each", "all"} : Visit(how)
  \/ Give \/ Leave \/ Destroyed

FifoSpec == FifoInit /\ [][FifoNext]_fifovars
=============================================================================
