------------------------------ MODULE GenQueue ------------------------------
(***************************************************************************)
(* The bounded queue of genqueue.c, which holds the free multicast         *)
(* addresses: an array used as a ring, a head, a tail and a count.         *)
(*                                                                         *)
(* The array comes from malloc(): a slot holds Wild until it is written.   *)
(* QueueForEach and QueueDestroy call back for each item, so each round of *)
(* their loops is a step.                                                  *)
(***************************************************************************)
EXTENDS Naturals, Sequences

CONSTANTS
  Items,   \* what is put in
  NoItem,  \* a NULL item
  Wild,    \* what an unwritten slot holds
  Size     \* the _size of QueueCreate

\* QueueCreate refuses 0 (MULTICAST_POOL_SIZE is 16).
ASSUME SizeAssumption == Size \in Nat \ {0}
ASSUME ItemsAssumption == NoItem \notin Items /\ Wild \notin Items

VARIABLES
  created,   \* whether the queue exists (the caller's pointer is not NULL)
  m_items,   \* struct Queue
  m_head,
  m_tail,
  m_nItems,
  loop,      \* the loop under way: "no", "each" (QueueForEach) or "all" (QueueDestroy)
  i,         \* its counter
  curr,      \* its index into the array
  answer     \* what was returned, or given to the callback, last

queuevars == <<created, m_items, m_head, m_tail, m_nItems, loop, i, curr, answer>>
ring == <<created, m_items, m_head, m_tail, m_nItems>>
looping == <<loop, i, curr>>

Positions == 0 .. Size - 1

Says(code, item) == answer' = [code |-> code, item |-> item]
Result(code) == Says(code, NoItem)

GetNextIndex(current) == (current + 1) % Size

-----------------------------------------------------------------------------
\* Both allocations may fail; what was allocated is freed then.
QueueCreate ==
  /\ loop = "no"
  /\ ~created
  /\ \/ /\ created' = TRUE
        /\ m_items' = [k \in Positions |-> Wild]
        /\ m_head' = 0 /\ m_tail' = 0 /\ m_nItems' = 0
        /\ Result("created")
     \/ Result("NULL") /\ UNCHANGED ring
  /\ UNCHANGED looping

Full == m_nItems = Size

QueueInsert(item) ==
  /\ loop = "no"
  /\ CASE ~created -> Result("QUEUE_UNINITIALIZED_ERROR") /\ UNCHANGED ring
       [] created /\ item = NoItem -> Result("QUEUE_DATA_UNINITIALIZED_ERROR") /\ UNCHANGED ring
       [] created /\ item # NoItem /\ Full -> Result("QUEUE_OVERFLOW_ERROR") /\ UNCHANGED ring
       [] OTHER ->
            /\ m_items' = [m_items EXCEPT ![m_tail] = item]
            /\ m_tail' = GetNextIndex(m_tail)
            /\ m_nItems' = m_nItems + 1
            /\ Result("QUEUE_SUCCESS")
            /\ UNCHANGED <<created, m_head>>
  /\ UNCHANGED looping

QueueRemove ==
  /\ loop = "no"
  /\ CASE ~created -> Result("QUEUE_UNINITIALIZED_ERROR") /\ UNCHANGED ring
       [] created /\ m_nItems = 0 -> Result("QUEUE_DATA_NOT_FOUND_ERROR") /\ UNCHANGED ring
       [] OTHER ->
            /\ Says("QUEUE_SUCCESS", m_items[m_head])
            /\ m_head' = GetNextIndex(m_head)
            /\ m_nItems' = m_nItems - 1
            /\ UNCHANGED <<created, m_items, m_tail>>
  /\ UNCHANGED looping

QueueIsEmpty ==
  /\ loop = "no"
  /\ Result(IF ~created \/ m_nItems = 0 THEN "empty" ELSE "not empty")
  /\ UNCHANGED <<ring, looping>>

-----------------------------------------------------------------------------
\* Seeded fault: the walk starts at the start of the array.
WalkFrom_Zero == 0

WalkFrom == m_head

Walk(how) ==
  /\ loop = "no"
  /\ created
  /\ loop' = how
  /\ i' = 0
  /\ curr' = WalkFrom
  /\ UNCHANGED <<ring, answer>>

QueueForEach == Walk("each")
QueueDestroy == Walk("all")

\* One call of the action or of the destroyer.
CallBack ==
  /\ loop # "no"
  /\ i < m_nItems
  /\ Says("given", m_items[curr])
  /\ i' = i + 1
  /\ curr' = GetNextIndex(curr)
  /\ UNCHANGED <<ring, loop>>

EndLoop == loop' = "no" /\ i' = 0 /\ curr' = 0

\* All are done, or the action has returned 0.
QueueForEach_returns ==
  /\ loop = "each"
  /\ \/ i = m_nItems /\ Says("visited", i)
     \/ i > 0 /\ Says("stopped", i)
  /\ EndLoop
  /\ UNCHANGED ring

QueueDestroy_returns ==
  /\ loop = "all"
  /\ i = m_nItems
  /\ created' = FALSE
  /\ m_items' = [k \in Positions |-> Wild]
  /\ m_head' = 0 /\ m_tail' = 0 /\ m_nItems' = 0
  /\ Result("destroyed")
  /\ EndLoop

QueueInit ==
  /\ created = FALSE
  /\ m_items = [k \in Positions |-> Wild]
  /\ m_head = 0 /\ m_tail = 0 /\ m_nItems = 0
  /\ loop = "no" /\ i = 0 /\ curr = 0
  /\ answer = [code |-> "none", item |-> NoItem]

QueueNext ==
  \/ QueueCreate \/ QueueRemove \/ QueueIsEmpty
  \/ \E x \in Items \cup {NoItem} : QueueInsert(x)
  \/ QueueForEach \/ QueueDestroy
  \/ CallBack \/ QueueForEach_returns \/ QueueDestroy_returns

QueueSpec == QueueInit /\ [][QueueNext]_queuevars

-----------------------------------------------------------------------------
(***************************************************************************)
(* Properties.                                                             *)
(***************************************************************************)
\* The shape of the ring, which every operation keeps: tail is count slots after
\* head, the slots in between hold items, and a loop of QueueForEach or QueueDestroy
\* is at the slot its counter says, so no unwritten slot is ever handed out.
RingOK ==
  /\ created \in BOOLEAN
  /\ m_items \in [Positions -> Items \cup {Wild}]
  /\ m_head \in Positions /\ m_tail \in Positions
  /\ m_nItems \in 0 .. Size
  /\ m_tail = (m_head + m_nItems) % Size
  /\ \A k \in 0 .. m_nItems - 1 : m_items[(m_head + k) % Size] \in Items
  /\ loop \in {"no", "each", "all"}
  /\ ~created => m_nItems = 0
  /\ i \in 0 .. m_nItems
  /\ loop = "no" => i = 0 /\ curr = 0
  /\ loop # "no" => created /\ curr = (m_head + i) % Size

\* The items from head on, as many as are counted.
Queued == [k \in 1 .. m_nItems |-> m_items[(m_head + k - 1) % Size]]

\* The ring is a first-in first-out queue however often it has wrapped: what is
\* removed, visited and destroyed are the items, each once, the oldest first, and
\* the results are those of the header.
F == INSTANCE Fifo WITH exists <- created, items <- Queued, visiting <- loop, visited <- i
FifoRefinement == F!FifoSpec
=============================================================================
