------------------------------- MODULE DList -------------------------------
(***************************************************************************)
(* A list of gen_dlist.c and one caller, who holds an iterator.  The       *)
(* server keeps the members of a group and the pairs of a bucket in such   *)
(* lists.  Allocations may fail.                                           *)
(***************************************************************************)
EXTENDS ListCells, FiniteSetsExt

CONSTANTS
  Elements,  \* the data of cells, besides NULL
  Cells      \* what malloc may return

ASSUME CellsAssumption ==
  /\ NoCell \notin Cells \cup Elements \cup {"head", "tail"}
  /\ Cells \cap {"head", "tail"} = {}

VARIABLES
  list,     \* whether there is a list (the caller's pointer is not NULL)
  cells,    \* its memory
  itr,      \* the iterator of the caller; NoCell when it has none
  yielded   \* the last call and what it returned

listvars == <<list, cells, itr, yielded>>

Free == Cells \ DOMAIN cells
Yields(call, a) == yielded' = <<call, a>>

\* The caller does not use an iterator to a cell that is gone.
Forget(c) == itr' = IF itr = c THEN NoCell ELSE itr

ListCreate ==
  /\ ~list
  /\ \/ Yields("ListCreate", "ok") /\ list' = TRUE /\ cells' = NewList(<< >>, "head", "tail")
     \/ Yields("ListCreate", "failed") /\ UNCHANGED <<list, cells>>
  /\ UNCHANGED itr

Data == LET chain == Chain(cells, "head", "tail")
        IN  [k \in DOMAIN chain |-> cells[chain[k]].m_data]

\* The destroyer gets every element that is not NULL.
ListDestroy ==
  /\ list
  /\ Yields("ListDestroy", [k \in {j \in DOMAIN Data : Data[j] # NoCell} |-> Data[k]])
  /\ list' = FALSE /\ cells' = << >> /\ itr' = NoCell

\* Everything that inserts does it before some cell.
Insert(call, next, x) ==
  /\ \/ Yields(call, "failed") /\ UNCHANGED cells
     \/ \E new \in Free : Yields(call, "ok") /\ cells' = InsertNodeBefore(cells, next, new, x)
  /\ UNCHANGED list

NoList(call) == ~list /\ Yields(call, "failed") /\ UNCHANGED <<list, cells, itr>>

ListPushHead(x) ==
  \/ NoList("ListPushHead")
  \/ list /\ Insert("ListPushHead", cells["head"].m_next, x) /\ UNCHANGED itr

\* Seeded fault: before the last cell instead of the sentinel.
PushTailBefore_Last == cells["tail"].m_prev

PushTailBefore == "tail"

ListPushTail(x) ==
  \/ NoList("ListPushTail")
  \/ list /\ Insert("ListPushTail", PushTailBefore, x) /\ UNCHANGED itr

\* Taking out a cell that is not a sentinel.
TakeOut(call, c) ==
  /\ Yields(call, cells[c].m_data)
  /\ cells' = RemoveNode(cells, c)
  /\ Forget(c)
  /\ UNCHANGED list

Nothing(call) == Yields(call, NoCell) /\ UNCHANGED <<list, cells, itr>>

IsEmpty == IF list THEN cells["head"].m_next = "tail" ELSE TRUE

ListPopHead ==
  IF IsEmpty THEN Nothing("ListPopHead") ELSE TakeOut("ListPopHead", cells["head"].m_next)
ListPopTail ==
  IF IsEmpty THEN Nothing("ListPopTail") ELSE TakeOut("ListPopTail", cells["tail"].m_prev)

-----------------------------------------------------------------------------
\* The caller goes on with the iterator it is given.
Point(call, c) == itr' = c /\ Yields(call, "itr") /\ UNCHANGED <<list, cells>>
HasItr == itr # NoCell
AtEnd == cells[itr].m_next = NoCell

ListItrBegin == list /\ Point("ListItrBegin", cells["head"].m_next)
ListItrEnd == list /\ Point("ListItrEnd", "tail")
ListItrNext == HasItr /\ Point("ListItrNext", IF AtEnd THEN itr ELSE cells[itr].m_next)

AtBegin == cells[itr].m_prev = NoCell \/ cells[cells[itr].m_prev].m_prev = NoCell

ListItrPrev == HasItr /\ Point("ListItrPrev", IF AtBegin THEN itr ELSE cells[itr].m_prev)

Current == IF AtEnd THEN NoCell ELSE cells[itr].m_data
ListItrGet == HasItr /\ Yields("ListItrGet", Current) /\ UNCHANGED <<list, cells, itr>>

ListItrSet(x) ==
  /\ HasItr
  /\ Yields("ListItrSet", Current)
  /\ cells' = IF AtEnd THEN cells ELSE [cells EXCEPT ![itr].m_data = x]
  /\ UNCHANGED <<list, itr>>

\* On success the caller goes on with the iterator it is given.
ListItrInsertBefore(x) ==
  /\ HasItr
  /\ Insert("ListItrInsertBefore", itr, x)
  /\ itr' = IF yielded'[2] = "ok" THEN cells'[itr].m_prev ELSE itr

\* The sentinels stay.
ListItrRemove ==
  /\ HasItr
  /\ IF AtEnd \/ cells[itr].m_prev = NoCell THEN Nothing("ListItrRemove")
                                          ELSE TakeOut("ListItrRemove", itr)

\* From the beginning to the end, with an action that stops at the first x.
ListItrForEach(x) ==
  LET chain == Chain(cells, "head", "tail")
      hits == {k \in DOMAIN chain : cells[chain[k]].m_data = x}
  IN  list /\ Point("ListItrForEach", IF hits = {} THEN "tail" ELSE chain[Min(hits)])

ListSize ==
  Yields("ListSize", IF list THEN Len(Data) ELSE 0) /\ UNCHANGED <<list, cells, itr>>
ListIsEmpty == Yields("ListIsEmpty", IsEmpty) /\ UNCHANGED <<list, cells, itr>>

ListInit == list = FALSE /\ cells = << >> /\ itr = NoCell /\ yielded = <<"none">>

ListNext ==
  \/ ListCreate \/ ListDestroy \/ ListPopHead \/ ListPopTail
  \/ ListItrBegin \/ ListItrEnd \/ ListItrNext \/ ListItrPrev
  \/ ListItrGet \/ ListItrRemove \/ ListSize \/ ListIsEmpty
  \/ \E x \in Elements \cup {NoCell} :
       \/ ListPushHead(x) \/ ListPushTail(x)
       \/ ListItrSet(x) \/ ListItrInsertBefore(x) \/ ListItrForEach(x)

ListSpec == ListInit /\ [][ListNext]_listvars

-----------------------------------------------------------------------------
(***************************************************************************)
(* Properties.                                                             *)
(***************************************************************************)
\* The place of the iterator in the list.
Place ==
  IF itr = NoCell THEN 0
  ELSE LET chain == Chain(cells, "head", "tail")
       IN  IF itr = "tail" THEN Len(chain) + 1
           ELSE CHOOSE k \in DOMAIN chain : chain[k] = itr

\* The linked cells are a sequence: each call does to it what gen_dlist.h promises of
\* that very call, at the end or at the place it is for, whatever was pushed, popped,
\* inserted and removed before; the others keep their places, the iterator stays on
\* its element, and an insertion that gets no cell changes nothing.
D == INSTANCE Deque WITH
       Items <- Elements, Null <- NoCell, exists <- list,
       items <- IF list THEN Data ELSE << >>, at <- Place, answer <- yielded
ListRefinement == D!DequeSpec
=============================================================================
