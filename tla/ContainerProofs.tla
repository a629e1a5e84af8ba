-------------------------- MODULE ContainerProofs --------------------------
(***************************************************************************)
(* The containers keep what their headers promise, for every size.         *)
(*                                                                         *)
(* The ring buffer of genqueue.c is a first-in first-out queue, whatever   *)
(* the head, the count and the number of times the indices have wrapped:   *)
(* first the arithmetic of the slots, then the shape of the ring as an     *)
(* inductive invariant, then the items as a sequence (Window), and last    *)
(* one lemma for each action.                                              *)
(*                                                                         *)
(* The growing array of vector.c is a sequence, however often its memory   *)
(* moves: its invariant, what realloc keeps, and one lemma for each        *)
(* operation.                                                              *)
(*                                                                         *)
(* The linked list of gen_dlist.c is a sequence with a place in it.  A row *)
(* is what lies between two sentinels, and they themselves: cells that are *)
(* all different, each linked to the next and back (LinkedRow).  Inserting *)
(* and removing a cell make one row of another, whatever else is in the    *)
(* memory, and the loops along the links go through the row.               *)
(***************************************************************************)
EXTENDS GenQueue, Vector, DList, ListLemmas

-----------------------------------------------------------------------------
(***************************************************************************)
(* Indices that wrap.  None is ever as large as twice the size.            *)
(***************************************************************************)
LEMMA ModSmall ==
  ASSUME NEW N \in Nat \ {0}, NEW x \in 0 .. N - 1
  PROVE  x % N = x
OBVIOUS

LEMMA ModOnce ==
  ASSUME NEW N \in Nat \ {0}, NEW x \in N .. N + N - 1
  PROVE  x % N = x - N
OBVIOUS

\* The slot k after h.
Nth(h, k) == (h + k) % Size

\* It is h + k, or as much less as there are slots.
LEMMA NthIs ==
  ASSUME NEW h \in Positions, NEW k \in 0 .. Size
  PROVE  /\ Nth(h, k) = IF h + k < Size THEN h + k ELSE h + k - Size
         /\ Nth(h, k) \in Positions
<1>1. Size \in Nat \ {0} /\ h \in 0 .. Size - 1
  BY SizeAssumption DEF Positions
<1>2. CASE h + k < Size
  <2>1. h + k \in 0 .. Size - 1
    BY <1>1, <1>2
  <2>2. (h + k) % Size = h + k
    BY <1>1, <2>1, ModSmall
  <2> QED
    BY <1>2, <2>1, <2>2 DEF Nth, Positions
<1>3. CASE ~(h + k < Size)
  <2>1. h + k \in Size .. Size + Size - 1
    BY <1>1, <1>3
  <2>2. (h + k) % Size = h + k - Size
    BY <1>1, <2>1, ModOnce
  <2>3. h + k - Size \in 0 .. Size - 1
    BY <1>1, <1>3
  <2> QED
    BY <1>3, <2>2, <2>3 DEF Nth, Positions
<1> QED
  BY <1>2, <1>3

\* One slot on from the slot k after h is the slot k + 1 after h, ...
LEMMA NthNext ==
  ASSUME NEW h \in Positions, NEW k \in 0 .. Size - 1
  PROVE  GetNextIndex(Nth(h, k)) = Nth(h, k + 1)
<1>1. Size \in Nat \ {0} /\ h \in 0 .. Size - 1
  BY SizeAssumption DEF Positions
<1>2. k \in 0 .. Size /\ k + 1 \in 0 .. Size /\ 1 \in 0 .. Size
  BY <1>1
<1>3. /\ Nth(h, k) = IF h + k < Size THEN h + k ELSE h + k - Size
      /\ Nth(h, k) \in Positions
  BY <1>2, NthIs
<1>4. Nth(h, k + 1) = IF h + (k + 1) < Size THEN h + (k + 1) ELSE h + (k + 1) - Size
  BY <1>2, NthIs
<1>5. Nth(Nth(h, k), 1) = IF Nth(h, k) + 1 < Size THEN Nth(h, k) + 1 ELSE Nth(h, k) + 1 - Size
  BY <1>2, <1>3, NthIs
<1>6. GetNextIndex(Nth(h, k)) = Nth(Nth(h, k), 1)
  BY DEF GetNextIndex, Nth
<1> QED
  BY <1>1, <1>3, <1>4, <1>5, <1>6

\* ... and so is the slot k after the one after h.
LEMMA NthShift ==
  ASSUME NEW h \in Positions, NEW k \in 0 .. Size - 1
  PROVE  /\ Nth(GetNextIndex(h), k) = Nth(h, k + 1)
         /\ GetNextIndex(h) \in Positions
<1>1. Size \in Nat \ {0} /\ h \in 0 .. Size - 1
  BY SizeAssumption DEF Positions
<1>2. k \in 0 .. Size /\ k + 1 \in 0 .. Size /\ 1 \in 0 .. Size
  BY <1>1
<1>3. /\ Nth(h, 1) = IF h + 1 < Size THEN h + 1 ELSE h + 1 - Size
      /\ Nth(h, 1) \in Positions
  BY <1>2, NthIs
<1>4. Nth(h, k + 1) = IF h + (k + 1) < Size THEN h + (k + 1) ELSE h + (k + 1) - Size
  BY <1>2, NthIs
<1>5. Nth(Nth(h, 1), k) = IF Nth(h, 1) + k < Size THEN Nth(h, 1) + k ELSE Nth(h, 1) + k - Size
  BY <1>2, <1>3, NthIs
<1>6. GetNextIndex(h) = Nth(h, 1)
  BY DEF GetNextIndex, Nth
<1> QED
  BY <1>1, <1>3, <1>4, <1>5, <1>6

\* Different slots of a window as wide as the ring are different.
LEMMA NthInjective ==
  ASSUME NEW h \in Positions, NEW j \in 0 .. Size - 1, NEW k \in 0 .. Size - 1, j # k
  PROVE  Nth(h, j) # Nth(h, k)
<1>1. Size \in Nat \ {0} /\ h \in 0 .. Size - 1
  BY SizeAssumption DEF Positions
<1>2. j \in 0 .. Size /\ k \in 0 .. Size
  BY <1>1
<1>3. Nth(h, j) = IF h + j < Size THEN h + j ELSE h + j - Size
  BY <1>2, NthIs
<1>4. Nth(h, k) = IF h + k < Size THEN h + k ELSE h + k - Size
  BY <1>2, NthIs
<1> QED
  BY <1>1, <1>3, <1>4

-----------------------------------------------------------------------------
(***************************************************************************)
(* The invariant, in the part that the loops do not disturb and theirs.    *)
(***************************************************************************)
RingPart ==
  /\ created \in BOOLEAN
  /\ m_items \in [Positions -> Items \cup {Wild}]
  /\ m_head \in Positions /\ m_tail \in Positions
  /\ m_nItems \in 0 .. Size
  /\ m_tail = Nth(m_head, m_nItems)
  /\ \A k \in 0 .. m_nItems - 1 : m_items[Nth(m_head, k)] \in Items
  /\ ~created => m_nItems = 0

LoopPart ==
  /\ loop \in {"no", "each", "all"}
  /\ i \in 0 .. m_nItems
  /\ loop = "no" => i = 0 /\ curr = 0
  /\ loop # "no" => created /\ curr = Nth(m_head, i)

LEMMA Parts == RingOK <=> RingPart /\ LoopPart
BY DEF RingOK, RingPart, LoopPart, Nth

\* An empty ring at slot 0, as it is made.
LEMMA EmptyRing ==
  /\ [k \in Positions |-> Wild] \in [Positions -> Items \cup {Wild}]
  /\ 0 \in Positions /\ Nth(0, 0) = 0 /\ 0 \in 0 .. Size
  /\ ~ \E k \in 0 .. 0 - 1 : TRUE
<1>1. Size \in Nat \ {0}
  BY SizeAssumption
<1>2. 0 \in Positions /\ 0 \in 0 .. Size
  BY <1>1 DEF Positions
<1>3. Nth(0, 0) = IF 0 + 0 < Size THEN 0 + 0 ELSE 0 + 0 - Size
  BY <1>2, NthIs
<1> QED
  BY <1>1, <1>2, <1>3

LEMMA RingInit == QueueInit => RingOK
<1> SUFFICES ASSUME QueueInit PROVE RingPart /\ LoopPart
  BY Parts
<1>1. RingPart
  BY EmptyRing DEF QueueInit, RingPart
<1>2. LoopPart
  BY DEF QueueInit, LoopPart
<1> QED
  BY <1>1, <1>2

LEMMA InsertKeeps ==
  ASSUME RingPart, NEW item \in Items, created, ~Full,
         m_items' = [m_items EXCEPT ![m_tail] = item],
         m_tail' = GetNextIndex(m_tail), m_nItems' = m_nItems + 1,
         UNCHANGED <<created, m_head>>
  PROVE  RingPart'
<1>1. /\ Size \in Nat \ {0} /\ m_head \in Positions /\ m_nItems \in 0 .. Size - 1
      /\ m_tail = Nth(m_head, m_nItems) /\ m_tail \in Positions
  BY SizeAssumption DEF RingPart, Full
<1>2. m_tail' = Nth(m_head, m_nItems + 1) /\ m_tail' \in Positions
  BY <1>1, NthNext, NthIs
<1>3. ASSUME NEW k \in 0 .. m_nItems
      PROVE  m_items'[Nth(m_head, k)] \in Items
  <2>1. CASE k = m_nItems
    BY <1>1, <2>1 DEF RingPart
  <2>2. CASE k # m_nItems
    <3>1. k \in 0 .. m_nItems - 1 /\ k \in 0 .. Size - 1 /\ k \in 0 .. Size
      BY <1>1, <2>2
    <3>2. Nth(m_head, k) # m_tail /\ Nth(m_head, k) \in Positions
      BY <1>1, <2>2, <3>1, NthInjective, NthIs
    <3> QED
      BY <3>1, <3>2 DEF RingPart
  <2> QED
    BY <2>1, <2>2
<1>4. m_nItems' \in 0 .. Size /\ 0 .. m_nItems' - 1 = 0 .. m_nItems
  BY <1>1
<1>5. m_items' \in [Positions -> Items \cup {Wild}]
  BY DEF RingPart
<1> QED
  BY <1>1, <1>2, <1>3, <1>4, <1>5 DEF RingPart

LEMMA RemoveKeeps ==
  ASSUME RingPart, created, m_nItems # 0,
         m_head' = GetNextIndex(m_head), m_nItems' = m_nItems - 1,
         UNCHANGED <<created, m_items, m_tail>>
  PROVE  RingPart'
<1>1. Size \in Nat \ {0} /\ m_head \in Positions /\ m_nItems \in 1 .. Size
  BY SizeAssumption DEF RingPart
<1>2. m_head' \in Positions
  BY <1>1, NthShift
<1>3. \A k \in 0 .. Size - 1 : Nth(m_head', k) = Nth(m_head, k + 1)
  BY <1>1, NthShift
<1>4. m_tail' = Nth(m_head', m_nItems')
  <2>1. m_nItems' \in 0 .. Size - 1 /\ m_nItems' + 1 = m_nItems
    BY <1>1
  <2> QED
    BY <1>3, <2>1 DEF RingPart
<1>5. ASSUME NEW k \in 0 .. m_nItems' - 1
      PROVE  m_items'[Nth(m_head', k)] \in Items
  <2>1. k \in 0 .. Size - 1 /\ k + 1 \in 0 .. m_nItems - 1
    BY <1>1
  <2> QED
    BY <1>3, <2>1 DEF RingPart
<1>6. m_nItems' \in 0 .. Size
  BY <1>1
<1> QED
  BY <1>1, <1>2, <1>4, <1>5, <1>6 DEF RingPart

\* Where the ring is left alone, so is its part.
LEMMA RingKept == ASSUME RingPart, UNCHANGED ring PROVE RingPart'
BY DEF RingPart, ring, Nth

LEMMA RingStep == RingOK /\ [QueueNext]_queuevars => RingOK'
<1> SUFFICES ASSUME RingPart, LoopPart, [QueueNext]_queuevars
             PROVE  RingPart' /\ LoopPart'
  BY DEF RingOK, RingPart, LoopPart, Nth
<1>1. ASSUME UNCHANGED <<ring, looping>>
      PROVE  RingPart' /\ LoopPart'
  <2>1. RingPart'
    BY <1>1, RingKept
  <2>2. LoopPart'
    BY <1>1 DEF LoopPart, ring, looping, Nth
  <2> QED
    BY <2>1, <2>2
<1>2. CASE QueueCreate
  <2>1. CASE UNCHANGED ring
    BY <1>1, <1>2, <2>1 DEF QueueCreate
  <2>2. CASE ~UNCHANGED ring
    <3>1. /\ created' = TRUE /\ m_items' = [k \in Positions |-> Wild]
          /\ m_head' = 0 /\ m_tail' = 0 /\ m_nItems' = 0
          /\ loop = "no" /\ UNCHANGED looping
      BY <1>2, <2>2 DEF QueueCreate
    <3>2. RingPart'
      BY <3>1, EmptyRing DEF RingPart, Nth
    <3>3. LoopPart'
      BY <3>1 DEF LoopPart, looping
    <3> QED
      BY <3>2, <3>3
  <2> QED
    BY <2>1, <2>2
<1>3. ASSUME NEW x \in Items \cup {NoItem}, QueueInsert(x)
      PROVE  RingPart' /\ LoopPart'
  <2>1. CASE UNCHANGED ring
    BY <1>1, <1>3, <2>1 DEF QueueInsert
  <2>2. CASE ~UNCHANGED ring
    <3>1. /\ created /\ x \in Items /\ ~Full
          /\ m_items' = [m_items EXCEPT ![m_tail] = x]
          /\ m_tail' = GetNextIndex(m_tail)
          /\ m_nItems' = m_nItems + 1
          /\ UNCHANGED <<created, m_head>>
          /\ loop = "no" /\ UNCHANGED looping
      BY <1>3, <2>2 DEF QueueInsert
    <3>2. RingPart'
      BY <3>1, InsertKeeps
    <3>3. LoopPart'
      BY <3>1, <3>2 DEF LoopPart, RingPart, looping
    <3> QED
      BY <3>2, <3>3
  <2> QED
    BY <2>1, <2>2
<1>4. CASE QueueRemove
  <2>1. CASE UNCHANGED ring
    BY <1>1, <1>4, <2>1 DEF QueueRemove
  <2>2. CASE ~UNCHANGED ring
    <3>1. /\ created /\ m_nItems # 0
          /\ m_head' = GetNextIndex(m_head)
          /\ m_nItems' = m_nItems - 1
          /\ UNCHANGED <<created, m_items, m_tail>>
          /\ loop = "no" /\ UNCHANGED looping
      BY <1>4, <2>2 DEF QueueRemove
    <3>2. RingPart'
      BY <3>1, RemoveKeeps
    <3>3. LoopPart'
      BY <3>1, <3>2 DEF LoopPart, RingPart, looping
    <3> QED
      BY <3>2, <3>3
  <2> QED
    BY <2>1, <2>2
<1>5. CASE QueueIsEmpty
  BY <1>1, <1>5 DEF QueueIsEmpty
<1>6. ASSUME NEW how \in {"each", "all"}, Walk(how)
      PROVE  RingPart' /\ LoopPart'
  <2>1. RingPart'
    BY <1>6, RingKept DEF Walk
  <2>2. curr' = Nth(m_head, 0)
    BY <1>6, NthIs, SizeAssumption DEF Walk, WalkFrom, RingPart, Positions
  <2>3. LoopPart'
    BY <1>6, <2>1, <2>2 DEF Walk, ring, LoopPart, RingPart, Nth
  <2> QED
    BY <2>1, <2>3
<1>7. CASE CallBack
  <2>1. RingPart'
    BY <1>7, RingKept DEF CallBack
  <2>2. i \in 0 .. Size - 1 /\ m_head \in Positions /\ i' \in 0 .. m_nItems
    BY <1>7, SizeAssumption DEF CallBack, RingPart, LoopPart
  <2>3. curr' = Nth(m_head, i + 1)
    BY <1>7, <2>2, NthNext DEF CallBack, LoopPart
  <2>4. LoopPart'
    BY <1>7, <2>2, <2>3 DEF CallBack, ring, LoopPart, Nth
  <2> QED
    BY <2>1, <2>4
<1>8. CASE QueueForEach_returns
  <2>1. RingPart'
    BY <1>8, RingKept DEF QueueForEach_returns
  <2>2. LoopPart'
    BY <1>8, <2>1 DEF QueueForEach_returns, EndLoop, LoopPart, RingPart
  <2> QED
    BY <2>1, <2>2
<1>9. CASE QueueDestroy_returns
  <2>1. /\ created' = FALSE /\ m_items' = [k \in Positions |-> Wild]
        /\ m_head' = 0 /\ m_tail' = 0 /\ m_nItems' = 0
        /\ loop' = "no" /\ i' = 0 /\ curr' = 0
    BY <1>9 DEF QueueDestroy_returns, EndLoop
  <2>2. RingPart'
    BY <2>1, EmptyRing DEF RingPart, Nth
  <2>3. LoopPart'
    BY <2>1 DEF LoopPart
  <2> QED
    BY <2>2, <2>3
<1>10. CASE UNCHANGED queuevars
  BY <1>1, <1>10 DEF queuevars, ring, looping
<1> QED
  BY <1>2, <1>3, <1>4, <1>5, <1>6, <1>7, <1>8, <1>9, <1>10
  DEF QueueNext, QueueForEach, QueueDestroy

(***************************************************************************)
(* The ring keeps its shape, for every size of the array: the slots        *)
(* between head and tail hold items, as many as are counted, and the loops *)
(* of genqueue.c stand at the slot that their counter says.                *)
(***************************************************************************)
THEOREM RingInvariant == QueueSpec => []RingOK
<1>1. QueueInit => RingOK
  BY RingInit
<1>2. RingOK /\ [QueueNext]_queuevars => RingOK'
  BY RingStep
<1> QED
  BY <1>1, <1>2, PTL DEF QueueSpec

-----------------------------------------------------------------------------
(***************************************************************************)
(* The n items from slot h of m on, as a sequence.                         *)
(***************************************************************************)
Window(m, h, n) == [k \in 1 .. n |-> m[(h + k - 1) % Size]]

LEMMA QueuedIsWindow ==
  /\ Queued = Window(m_items, m_head, m_nItems)
  /\ Queued' = Window(m_items', m_head', m_nItems')
BY DEF Queued, Window

LEMMA WindowIs ==
  ASSUME NEW m, NEW h \in Positions, NEW n \in 0 .. Size,
         \A k \in 0 .. n - 1 : m[Nth(h, k)] \in Items
  PROVE  /\ Window(m, h, n) \in Seq(Items)
         /\ Len(Window(m, h, n)) = n
         /\ \A k \in 1 .. n : Window(m, h, n)[k] = m[Nth(h, k - 1)]
<1>1. n \in Nat /\ h \in Nat /\ Size \in Nat
  BY SizeAssumption DEF Positions
<1>2. ASSUME NEW k \in 1 .. n
      PROVE  m[(h + k - 1) % Size] = m[Nth(h, k - 1)] /\ k - 1 \in 0 .. n - 1
  <2>1. h + k - 1 = h + (k - 1)
    BY <1>1
  <2> QED
    BY <1>1, <2>1 DEF Nth
<1>3. Window(m, h, n) \in [1 .. n -> Items]
  BY <1>2 DEF Window
<1>4. Window(m, h, n) \in Seq(Items)
  BY <1>1, <1>3, SeqDef
<1>5. Len(Window(m, h, n)) = n
  BY <1>1, <1>4 DEF Window
<1> QED
  BY <1>2, <1>4, <1>5 DEF Window

\* What is put in at the tail comes last.
LEMMA WindowGrows ==
  ASSUME NEW m \in [Positions -> Items \cup {Wild}], NEW h \in Positions,
         NEW n \in 0 .. Size - 1, NEW x \in Items,
         \A k \in 0 .. n - 1 : m[Nth(h, k)] \in Items
  PROVE  Window([m EXCEPT ![Nth(h, n)] = x], h, n + 1) = Append(Window(m, h, n), x)
<1> DEFINE mm == [m EXCEPT ![Nth(h, n)] = x]
           old == Window(m, h, n)
           new == Window(mm, h, n + 1)
<1>1. Size \in Nat \ {0} /\ n \in 0 .. Size /\ n + 1 \in 0 .. Size
  BY SizeAssumption
<1>2. mm[Nth(h, n)] = x
  BY <1>1, NthIs
<1>3. ASSUME NEW k \in 0 .. n - 1
      PROVE  mm[Nth(h, k)] = m[Nth(h, k)]
  <2>1. k \in 0 .. Size - 1 /\ k \in 0 .. Size /\ k # n
    BY <1>1
  <2>2. Nth(h, k) # Nth(h, n) /\ Nth(h, k) \in Positions
    BY <2>1, NthInjective, NthIs
  <2> QED
    BY <2>2
<1>4. ASSUME NEW k \in 0 .. n + 1 - 1
      PROVE  mm[Nth(h, k)] \in Items
  <2>1. k = n \/ k \in 0 .. n - 1
    BY <1>1
  <2> QED
    BY <1>2, <1>3, <2>1
<1> HIDE DEF mm
<1>5. /\ old \in Seq(Items) /\ Len(old) = n
      /\ \A k \in 1 .. n : old[k] = m[Nth(h, k - 1)]
  BY <1>1, WindowIs
<1>6. /\ new \in Seq(Items) /\ Len(new) = n + 1
      /\ \A k \in 1 .. n + 1 : new[k] = mm[Nth(h, k - 1)]
  BY <1>1, <1>4, WindowIs
<1> HIDE DEF old, new
<1>7. /\ Append(old, x) \in Seq(Items) /\ Len(Append(old, x)) = n + 1
      /\ \A k \in 1 .. n : Append(old, x)[k] = old[k]
      /\ Append(old, x)[n + 1] = x
  BY <1>5, AppendProperties
<1>8. ASSUME NEW k \in 1 .. n + 1
      PROVE  new[k] = Append(old, x)[k]
  <2>1. CASE k = n + 1
    <3>1. k - 1 = n
      BY <1>1, <2>1
    <3> QED
      BY <1>2, <1>6, <1>7, <2>1, <3>1
  <2>2. CASE k # n + 1
    <3>1. k \in 1 .. n /\ k - 1 \in 0 .. n - 1
      BY <1>1, <2>2
    <3> QED
      BY <1>3, <1>5, <1>6, <1>7, <3>1
  <2> QED
    BY <2>1, <2>2
<1>9. new = Append(old, x)
  BY <1>6, <1>7, <1>8, SeqEqual
<1> QED
  BY <1>9 DEF new, old, mm

\* What is taken from the head came first.
LEMMA WindowShrinks ==
  ASSUME NEW m, NEW h \in Positions, NEW n \in 1 .. Size,
         \A k \in 0 .. n - 1 : m[Nth(h, k)] \in Items
  PROVE  /\ Window(m, h, n) # << >>
         /\ Head(Window(m, h, n)) = m[h]
         /\ Window(m, GetNextIndex(h), n - 1) = Tail(Window(m, h, n))
<1> DEFINE old == Window(m, h, n)
           new == Window(m, GetNextIndex(h), n - 1)
<1>1. /\ Size \in Nat \ {0} /\ n \in 0 .. Size /\ n - 1 \in 0 .. Size /\ 0 \in 0 .. Size
      /\ h \in 0 .. Size - 1 /\ 1 \in 1 .. n /\ 0 \in 0 .. Size - 1
  BY SizeAssumption DEF Positions
<1>2. GetNextIndex(h) \in Positions
  BY <1>1, NthShift
<1>3. ASSUME NEW k \in 0 .. n - 1 - 1
      PROVE  m[Nth(GetNextIndex(h), k)] = m[Nth(h, k + 1)] /\ k + 1 \in 0 .. n - 1
  <2>1. k \in 0 .. Size - 1 /\ k + 1 \in 0 .. n - 1
    BY <1>1
  <2> QED
    BY <2>1, NthShift
<1>4. ASSUME NEW k \in 0 .. n - 1 - 1
      PROVE  m[Nth(GetNextIndex(h), k)] \in Items
  BY <1>3
<1>5. /\ old \in Seq(Items) /\ Len(old) = n
      /\ \A k \in 1 .. n : old[k] = m[Nth(h, k - 1)]
  BY <1>1, WindowIs
<1>6. /\ new \in Seq(Items) /\ Len(new) = n - 1
      /\ \A k \in 1 .. n - 1 : new[k] = m[Nth(GetNextIndex(h), k - 1)]
  BY <1>1, <1>2, <1>4, WindowIs
<1> HIDE DEF old, new
<1>7. old # << >>
  BY <1>1, <1>5, EmptySeq
<1>8. /\ Tail(old) \in Seq(Items) /\ Len(Tail(old)) = n - 1
      /\ \A k \in 1 .. n - 1 : Tail(old)[k] = old[k + 1]
  BY <1>5, <1>7, HeadTailProperties
<1>9. ASSUME NEW k \in 1 .. n - 1
      PROVE  new[k] = Tail(old)[k]
  <2>1. k - 1 \in 0 .. n - 1 - 1 /\ k - 1 + 1 = k /\ k + 1 \in 1 .. n /\ k + 1 - 1 = k
    BY <1>1
  <2>2. new[k] = m[Nth(h, k)]
    BY <1>3, <1>6, <2>1
  <2>3. Tail(old)[k] = m[Nth(h, k)]
    BY <1>5, <1>8, <2>1
  <2> QED
    BY <2>2, <2>3
<1>10. new = Tail(old)
  BY <1>6, <1>8, <1>9, SeqEqual
<1>11. Head(old) = m[h]
  <2>1. Head(old) = old[1]
    BY <1>5, <1>7
  <2>2. Nth(h, 0) = h
    <3>1. Nth(h, 0) = IF h + 0 < Size THEN h + 0 ELSE h + 0 - Size
      BY <1>1, NthIs
    <3> QED
      BY <1>1, <3>1
  <2>3. old[1] = m[Nth(h, 1 - 1)] /\ 1 - 1 = 0
    BY <1>1, <1>5
  <2> QED
    BY <2>1, <2>2, <2>3
<1> QED
  BY <1>7, <1>10, <1>11 DEF old, new

\* What is counted is what is there.
LEMMA Counted ==
  ASSUME RingPart
  PROVE  /\ Queued \in Seq(Items)
         /\ Len(Queued) = m_nItems
         /\ m_nItems = 0 <=> Queued = << >>
         /\ Full <=> Len(Queued) = Size
         /\ \A k \in 1 .. m_nItems : Queued[k] = m_items[Nth(m_head, k - 1)]
<1>1. /\ Queued \in Seq(Items) /\ Len(Queued) = m_nItems
      /\ \A k \in 1 .. m_nItems : Queued[k] = m_items[Nth(m_head, k - 1)]
  BY WindowIs, QueuedIsWindow DEF RingPart
<1>2. m_nItems = 0 <=> Queued = << >>
  BY <1>1, EmptySeq
<1> QED
  BY <1>1, <1>2 DEF Full

LEMMA EmptyWindow ==
  ASSUME NEW m, NEW h
  PROVE  Window(m, h, 0) = << >>
BY DEF Window

-----------------------------------------------------------------------------
(***************************************************************************)
(* Each action of the ring is the action of the queue that it is named     *)
(* for.                                                                    *)
(***************************************************************************)
LEMMA SameAnswers ==
  ASSUME NEW code, NEW item
  PROVE  /\ Says(code, item) <=> F!Says(code, item)
         /\ Result(code) <=> F!Result(code)
BY DEF Says, Result, F!Says, F!Result

LEMMA RingUnchanged == UNCHANGED ring => UNCHANGED <<created, Queued>>
BY DEF ring, Queued

LEMMA CreateIsCreate ==
  ASSUME RingPart, LoopPart, QueueCreate
  PROVE  F!Create
<1>1. loop = "no" /\ ~created /\ UNCHANGED looping
  BY DEF QueueCreate
<1>2. F!Idle
  BY <1>1 DEF F!Idle, looping
<1>3. Queued = << >> /\ created = FALSE
  BY <1>1, Counted DEF RingPart
<1>4. CASE created' = TRUE /\ m_nItems' = 0 /\ Result("created")
  <2>1. Queued' = << >>
    BY <1>4, QueuedIsWindow, EmptyWindow
  <2> QED
    BY <1>1, <1>2, <1>4, <2>1, SameAnswers DEF F!Create
<1>5. CASE Result("NULL") /\ UNCHANGED ring
  BY <1>1, <1>2, <1>3, <1>5, RingUnchanged, SameAnswers DEF F!Create
<1> QED
  BY <1>4, <1>5 DEF QueueCreate

LEMMA InsertIsPut ==
  ASSUME RingPart, LoopPart, NEW x \in Items \cup {NoItem}, QueueInsert(x)
  PROVE  F!Put(x)
<1>1. F!Idle
  BY DEF QueueInsert, F!Idle, looping
<1>2. CASE ~created
  BY <1>1, <1>2, RingUnchanged, SameAnswers DEF QueueInsert, F!Put
<1>3. CASE created /\ x = NoItem
  BY <1>1, <1>3, RingUnchanged, SameAnswers DEF QueueInsert, F!Put
<1>4. CASE created /\ x # NoItem /\ Full
  <2>1. Len(Queued) = Size
    BY <1>4, Counted
  <2>2. Result("QUEUE_OVERFLOW_ERROR") /\ UNCHANGED ring
    BY <1>4 DEF QueueInsert
  <2> QED
    BY <1>1, <1>4, <2>1, <2>2, RingUnchanged, SameAnswers DEF F!Put
<1>5. CASE created /\ x # NoItem /\ ~Full
  <2>1. /\ m_items' = [m_items EXCEPT ![m_tail] = x]
        /\ m_nItems' = m_nItems + 1
        /\ Result("QUEUE_SUCCESS")
        /\ UNCHANGED <<created, m_head>>
    BY <1>5 DEF QueueInsert
  <2>2. m_nItems \in 0 .. Size - 1
    BY <1>5, SizeAssumption DEF RingPart, Full
  <2>3. Queued' = Append(Queued, x)
    BY <1>5, <2>1, <2>2, QueuedIsWindow, WindowGrows DEF RingPart
  <2>4. Len(Queued) # Size
    BY <1>5, Counted
  <2> QED
    BY <1>1, <1>5, <2>1, <2>3, <2>4, SameAnswers DEF F!Put
<1> QED
  BY <1>2, <1>3, <1>4, <1>5

LEMMA RemoveIsTake ==
  ASSUME RingPart, LoopPart, QueueRemove
  PROVE  F!Take
<1>1. F!Idle
  BY DEF QueueRemove, F!Idle, looping
<1>2. CASE ~created
  BY <1>1, <1>2, RingUnchanged, SameAnswers DEF QueueRemove, F!Take
<1>3. CASE created /\ m_nItems = 0
  BY <1>1, <1>3, RingUnchanged, SameAnswers, Counted DEF QueueRemove, F!Take
<1>4. CASE created /\ m_nItems # 0
  <2>1. /\ Says("QUEUE_SUCCESS", m_items[m_head])
        /\ m_head' = GetNextIndex(m_head)
        /\ m_nItems' = m_nItems - 1
        /\ UNCHANGED <<created, m_items>>
    BY <1>4 DEF QueueRemove
  <2>2. m_nItems \in 1 .. Size
    BY <1>4, SizeAssumption DEF RingPart
  <2>3. Queued # << >> /\ Head(Queued) = m_items[m_head] /\ Queued' = Tail(Queued)
    BY <2>1, <2>2, QueuedIsWindow, WindowShrinks DEF RingPart
  <2> QED
    BY <1>1, <1>4, <2>1, <2>3, SameAnswers DEF F!Take
<1> QED
  BY <1>2, <1>3, <1>4

LEMMA IsEmptyIsAskEmpty ==
  ASSUME RingPart, LoopPart, QueueIsEmpty
  PROVE  F!AskEmpty
BY RingUnchanged, SameAnswers, Counted DEF QueueIsEmpty, F!AskEmpty, F!Idle, looping

LEMMA WalkIsVisit ==
  ASSUME RingPart, LoopPart, NEW how, Walk(how)
  PROVE  F!Visit(how)
BY RingUnchanged DEF Walk, F!Visit

LEMMA CallBackIsGive ==
  ASSUME RingPart, LoopPart, CallBack
  PROVE  F!Give
<1>1. loop # "no" /\ i < m_nItems /\ Says("given", m_items[curr])
      /\ i' = i + 1 /\ UNCHANGED <<ring, loop>>
  BY DEF CallBack
<1>2. i + 1 \in 1 .. m_nItems /\ i + 1 - 1 = i /\ m_nItems \in Nat
  BY <1>1, SizeAssumption DEF LoopPart, RingPart
<1>3. Queued[i + 1] = m_items[curr]
  BY <1>1, <1>2, Counted DEF LoopPart
<1>4. i < Len(Queued)
  BY <1>1, Counted
<1> QED
  BY <1>1, <1>3, <1>4, RingUnchanged, SameAnswers DEF F!Give

LEMMA ReturnsIsLeave ==
  ASSUME RingPart, LoopPart, QueueForEach_returns
  PROVE  F!Leave
BY RingUnchanged, SameAnswers, Counted DEF QueueForEach_returns, EndLoop, F!Leave

LEMMA DestroyIsDestroyed ==
  ASSUME RingPart, LoopPart, QueueDestroy_returns
  PROVE  F!Destroyed
<1>1. Queued' = << >>
  BY QueuedIsWindow, EmptyWindow DEF QueueDestroy_returns
<1> QED
  BY <1>1, Counted, SameAnswers DEF QueueDestroy_returns, EndLoop, F!Destroyed

(***************************************************************************)
(* The ring of genqueue.c implements the queue of genqueue.h, for every    *)
(* size: what goes in comes out once, the oldest first, with the same      *)
(* answers, and traversals give each item once.                            *)
(***************************************************************************)
THEOREM QueueImplementsFifo == QueueSpec => FifoRefinement
<1>1. QueueInit => F!FifoInit
  <2> SUFFICES ASSUME QueueInit PROVE F!FifoInit
    OBVIOUS
  <2>1. Queued = << >>
    BY QueuedIsWindow, EmptyWindow DEF QueueInit
  <2> QED
    BY <2>1 DEF QueueInit, F!FifoInit
<1>2. RingOK /\ [QueueNext]_queuevars => [F!FifoNext]_(F!fifovars)
  <2> SUFFICES ASSUME RingPart, LoopPart, [QueueNext]_queuevars
               PROVE  [F!FifoNext]_(F!fifovars)
    BY Parts
  <2>1. CASE QueueCreate
    BY <2>1, CreateIsCreate DEF F!FifoNext
  <2>2. ASSUME NEW x \in Items \cup {NoItem}, QueueInsert(x)
        PROVE  F!FifoNext
    BY <2>2, InsertIsPut DEF F!FifoNext
  <2>3. CASE QueueRemove
    BY <2>3, RemoveIsTake DEF F!FifoNext
  <2>4. CASE QueueIsEmpty
    BY <2>4, IsEmptyIsAskEmpty DEF F!FifoNext
  <2>5. ASSUME NEW how \in {"each", "all"}, Walk(how)
        PROVE  F!FifoNext
    BY <2>5, WalkIsVisit DEF F!FifoNext
  <2>6. CASE CallBack
    BY <2>6, CallBackIsGive DEF F!FifoNext
  <2>7. CASE QueueForEach_returns
    BY <2>7, ReturnsIsLeave DEF F!FifoNext
  <2>8. CASE QueueDestroy_returns
    BY <2>8, DestroyIsDestroyed DEF F!FifoNext
  <2>9. CASE UNCHANGED queuevars
    BY <2>9 DEF queuevars, F!fifovars, Queued
  <2> QED
    BY <2>1, <2>2, <2>3, <2>4, <2>5, <2>6, <2>7, <2>8, <2>9
    DEF QueueNext, QueueForEach, QueueDestroy
<1> QED
  BY <1>1, <1>2, RingInvariant, PTL DEF QueueSpec, FifoRefinement, F!FifoSpec

-----------------------------------------------------------------------------
(***************************************************************************)
(* The growing array.                                                      *)
(***************************************************************************)
\* The elements are in allocated slots, and nothing is held without a vector.
VectorInv ==
  /\ vector \in BOOLEAN
  /\ m_size \in Nat /\ m_capacity \in Nat /\ m_originalCapacity \in Nat /\ m_blockSize \in Nat
  /\ m_size <= m_capacity
  /\ m_originalCapacity <= m_capacity
  /\ DOMAIN m_memory = 0 .. m_capacity - 1
  /\ \A k \in 0 .. m_size - 1 : m_memory[k] \in Things
  /\ ~vector => m_size = 0 /\ m_capacity = 0

\* The elements of a memory.
Elems(memory, n) == [k \in 1 .. n |-> memory[k - 1]]

LEMMA StoredIsElems == Stored = Elems(m_memory, m_size)
BY DEF Stored, Elems

LEMMA ElemsAre ==
  ASSUME NEW memory, NEW n \in Nat, \A k \in 0 .. n - 1 : memory[k] \in Things
  PROVE  /\ Elems(memory, n) \in Seq(Things)
         /\ Len(Elems(memory, n)) = n
         /\ \A k \in 1 .. n : Elems(memory, n)[k] = memory[k - 1]
<1>1. \A k \in 1 .. n : Elems(memory, n)[k] = memory[k - 1] /\ memory[k - 1] \in Things
  BY DEF Elems
<1>2. Elems(memory, n) \in [1 .. n -> Things]
  BY DEF Elems
<1>3. Elems(memory, n) \in Seq(Things)
  BY <1>2, SeqDef
<1>4. Len(Elems(memory, n)) = n
  BY <1>2, <1>3, LenProperties
<1> QED
  BY <1>1, <1>3, <1>4

LEMMA SameElems ==
  ASSUME NEW n \in Nat, NEW m1, NEW m2, \A k \in 0 .. n - 1 : m1[k] = m2[k]
  PROVE  Elems(m1, n) = Elems(m2, n)
BY DEF Elems

\* What realloc keeps.
LEMMA ReallocKeeps ==
  ASSUME VectorInv, NEW n \in Nat
  PROVE  /\ DOMAIN realloc(n) = 0 .. n - 1
         /\ \A k \in 0 .. n - 1 : k < m_capacity => realloc(n)[k] = m_memory[k]
BY DEF realloc, VectorInv

LEMMA NothingAllocated == DOMAIN Allocated(0) = 0 .. 0 - 1 /\ \A k \in 0 .. 0 - 1 : FALSE
<1>1. DOMAIN Allocated(0) = 0 .. 0 - 1
  BY DEF Allocated
<1>2. \A k \in 0 .. 0 - 1 : FALSE
  OBVIOUS
<1> QED
  BY <1>1, <1>2

LEMMA VectorStart == VectorInit => VectorInv
<1> SUFFICES ASSUME VectorInit
             PROVE  VectorInv
  OBVIOUS
<1>1. /\ vector = FALSE /\ m_originalCapacity = 0 /\ m_capacity = 0 /\ m_size = 0
      /\ m_blockSize = 0
  BY DEF VectorInit
<1>2. DOMAIN m_memory = 0 .. 0 - 1 /\ \A k \in 0 .. 0 - 1 : FALSE
  BY NothingAllocated DEF VectorInit
<1>3. DOMAIN m_memory = 0 .. m_capacity - 1 /\ \A k \in 0 .. m_size - 1 : m_memory[k] \in Things
  BY <1>1, <1>2
<1>4. /\ m_size <= m_capacity /\ m_originalCapacity <= m_capacity
      /\ m_size \in Nat /\ m_capacity \in Nat /\ m_originalCapacity \in Nat /\ m_blockSize \in Nat
  BY <1>1
<1>5. vector \in BOOLEAN
  BY <1>1, Zenon
<1> QED
  BY <1>1, <1>3, <1>4, <1>5 DEF VectorInv

LEMMA VectorUnchanged ==
  ASSUME VectorInv, UNCHANGED struct
  PROVE  VectorInv' /\ Stored' = Stored
BY DEF VectorInv, struct, Stored

LEMMA SameRefusal ==
  ASSUME NEW code, VectorInv, Fails(code)
  PROVE  A!Refuse(code) /\ VectorInv'
BY VectorUnchanged DEF Fails, Gives, A!Refuse, A!Answers, A!Keep, struct

LEMMA CreateIsMake ==
  ASSUME VectorInv, NEW n \in Nat, NEW k \in Nat, VectorCreate(n, k)
  PROVE  A!Make(n, k) /\ VectorInv'
<1>1. CASE Fails("NULL")
  BY <1>1, SameRefusal DEF VectorCreate, A!Make
<1>2. CASE ~Fails("NULL")
  <2>1. /\ ~vector /\ (n # 0 \/ k # 0) /\ vector' = TRUE /\ m_memory' = Allocated(n)
        /\ m_originalCapacity' = n /\ m_capacity' = n /\ m_size' = 0 /\ m_blockSize' = k
        /\ result' = <<"created">>
    BY <1>2 DEF VectorCreate, Gives
  <2>2. n + k > 0
    BY <2>1
  <2>3. Stored' = << >>
    BY <2>1 DEF Stored
  <2>4. VectorInv'
    BY <2>1 DEF VectorInv, Allocated
  <2> QED
    BY <2>1, <2>2, <2>3, <2>4 DEF A!Make, A!Answers
<1> QED
  BY <1>1, <1>2

LEMMA DestroyIsDrop ==
  ASSUME VectorInv, VectorDestroy
  PROVE  A!Drop /\ VectorInv'
<1>1. /\ vector /\ vector' = FALSE /\ m_memory' = Allocated(0)
      /\ m_originalCapacity' = 0 /\ m_capacity' = 0 /\ m_size' = 0 /\ m_blockSize' = 0
      /\ result' = <<"destroyed", Stored>>
  BY DEF VectorDestroy, Gives, Stored
<1>2. Stored' = << >>
  BY <1>1 DEF Stored
<1>3. VectorInv'
  <2>1. DOMAIN m_memory' = 0 .. 0 - 1 /\ \A k \in 0 .. 0 - 1 : FALSE
    BY <1>1, NothingAllocated
  <2>2. DOMAIN m_memory' = 0 .. m_capacity' - 1
        /\ \A k \in 0 .. m_size' - 1 : m_memory'[k] \in Things
    BY <1>1, <2>1
  <2>3. /\ m_size' <= m_capacity' /\ m_originalCapacity' <= m_capacity'
        /\ m_size' \in Nat /\ m_capacity' \in Nat /\ m_originalCapacity' \in Nat
        /\ m_blockSize' \in Nat
    BY <1>1
  <2>4. vector' \in BOOLEAN
    BY <1>1, Zenon
  <2> QED
    BY <1>1, <2>2, <2>3, <2>4 DEF VectorInv
<1> QED
  BY <1>1, <1>2, <1>3 DEF A!Drop, A!Answers

LEMMA StoreAppends ==
  ASSUME VectorInv, NEW memory, NEW n \in Nat, NEW x \in Things, Store(memory, x),
         m_size < n, DOMAIN memory = 0 .. n - 1, m_capacity' = n, m_capacity <= n, vector,
         \A k \in 0 .. m_size - 1 : memory[k] = m_memory[k]
  PROVE  VectorInv' /\ Stored' = Append(Stored, x)
<1>1. /\ m_memory' = [memory EXCEPT ![m_size] = x] /\ m_size' = m_size + 1
      /\ UNCHANGED <<vector, m_originalCapacity, m_blockSize>>
  BY DEF Store, sizes
<1>2. /\ m_size \in Nat /\ m_capacity \in Nat /\ m_originalCapacity \in Nat
      /\ m_originalCapacity <= m_capacity /\ \A k \in 0 .. m_size - 1 : m_memory[k] \in Things
  BY DEF VectorInv
<1>3. /\ DOMAIN m_memory' = 0 .. n - 1 /\ m_memory'[m_size] = x
      /\ \A k \in 0 .. m_size - 1 : m_memory'[k] = m_memory[k]
  BY <1>1, <1>2
<1>4. VectorInv'
  BY <1>1, <1>2, <1>3 DEF VectorInv
<1>5. /\ Stored \in Seq(Things) /\ Len(Stored) = m_size
      /\ \A k \in 1 .. m_size : Stored[k] = m_memory[k - 1]
  BY <1>2, ElemsAre, StoredIsElems
<1> DEFINE s == Elems(m_memory', m_size + 1)
<1>6. \A k \in 0 .. (m_size + 1) - 1 : m_memory'[k] \in Things
  BY <1>2, <1>3
<1>7. s \in Seq(Things) /\ Len(s) = m_size + 1
      /\ \A k \in 1 .. m_size + 1 : s[k] = m_memory'[k - 1]
  <2>1. m_size + 1 \in Nat
    BY <1>2
  <2> QED
    BY <1>6, <2>1, ElemsAre
<1>8. Stored' = s
  BY <1>1 DEF Stored, Elems
<1> HIDE DEF s
<1>9. /\ Append(Stored, x) \in Seq(Things) /\ Len(Append(Stored, x)) = Len(Stored) + 1
      /\ \A k \in 1 .. Len(Stored) : Append(Stored, x)[k] = Stored[k]
      /\ Append(Stored, x)[Len(Stored) + 1] = x
  BY <1>5, AppendProperties
<1>10. ASSUME NEW k \in 1 .. m_size + 1
       PROVE  s[k] = Append(Stored, x)[k]
  <2>1. CASE k = m_size + 1
    BY <1>2, <1>3, <1>5, <1>7, <1>9, <2>1
  <2>2. CASE k \in 1 .. m_size
    <3>1. k - 1 \in 0 .. m_size - 1
      BY <1>2, <2>2
    <3> QED
      BY <1>3, <1>5, <1>7, <1>9, <2>2, <3>1
  <2>3. k = m_size + 1 \/ k \in 1 .. m_size
    BY <1>2
  <2> QED
    BY <2>1, <2>2, <2>3
<1>11. s = Append(Stored, x)
  BY <1>5, <1>7, <1>9, <1>10, SeqEqual
<1> QED
  BY <1>4, <1>8, <1>11

LEMMA AppendIsPush ==
  ASSUME VectorInv, NEW x \in Things, VectorAppend(x)
  PROVE  (A!Push(x) \/ A!Without) /\ VectorInv'
<1>0. /\ m_size \in Nat /\ m_capacity \in Nat /\ m_blockSize \in Nat /\ m_size <= m_capacity
      /\ DOMAIN m_memory = 0 .. m_capacity - 1 /\ Len(Stored) = m_size
  BY ElemsAre, StoredIsElems DEF VectorInv
<1>1. CASE ~vector /\ Fails("VECTOR_UNITIALIZED_ERROR")
  BY <1>1, SameRefusal DEF A!Without
<1>2. CASE vector /\ m_size = m_capacity /\ Fails("VECTOR_ALLOCATION_ERROR")
  BY <1>0, <1>2, SameRefusal DEF A!Push
<1>3. CASE /\ vector /\ m_size = m_capacity /\ m_blockSize # 0
           /\ Store(realloc(m_capacity + m_blockSize), x)
           /\ m_capacity' = m_capacity + m_blockSize
  <2> DEFINE n == m_capacity + m_blockSize
  <2>1. n \in Nat /\ m_size < n /\ m_capacity <= n /\ m_capacity' = n
    BY <1>0, <1>3
  <2>2. DOMAIN realloc(n) = 0 .. n - 1 /\ \A k \in 0 .. m_size - 1 : realloc(n)[k] = m_memory[k]
    <3>1. DOMAIN realloc(n) = 0 .. n - 1
          /\ \A k \in 0 .. n - 1 : k < m_capacity => realloc(n)[k] = m_memory[k]
      BY <2>1, ReallocKeeps
    <3>2. \A k \in 0 .. m_size - 1 : k \in 0 .. n - 1 /\ k < m_capacity
      BY <1>0, <2>1
    <3> QED
      BY <3>1, <3>2
  <2>3. Store(realloc(n), x)
    BY <1>3
  <2> HIDE DEF n
  <2>4. VectorInv' /\ Stored' = Append(Stored, x)
    BY <1>3, <2>1, <2>2, <2>3, StoreAppends
  <2>5. /\ m_blockSize > 0 /\ Len(Stored) = m_capacity /\ result' = <<"VECTOR_SUCCESS">>
        /\ UNCHANGED <<vector, m_originalCapacity, m_blockSize>>
    BY <1>0, <1>3 DEF Store, Gives, sizes
  <2> QED
    BY <1>3, <2>4, <2>5 DEF A!Push, A!Answers
<1>4. CASE vector /\ m_size # m_capacity /\ Store(m_memory, x) /\ UNCHANGED m_capacity
  <2>1. m_size < m_capacity
    BY <1>0, <1>4
  <2>2. VectorInv' /\ Stored' = Append(Stored, x)
    BY <1>0, <1>4, <2>1, StoreAppends
  <2>3. /\ Len(Stored) < m_capacity /\ Len(Stored) # m_capacity /\ result' = <<"VECTOR_SUCCESS">>
        /\ UNCHANGED <<vector, m_originalCapacity, m_blockSize>>
    BY <1>0, <1>4, <2>1 DEF Store, Gives, sizes
  <2> QED
    BY <1>4, <2>2, <2>3 DEF A!Push, A!Answers
<1> QED
  BY <1>1, <1>2, <1>3, <1>4 DEF VectorAppend

LEMMA RemoveIsRemoveLast ==
  ASSUME VectorInv, VectorRemove
  PROVE  (A!RemoveLast \/ A!Without) /\ VectorInv'
<1>0. /\ m_size \in Nat /\ m_capacity \in Nat /\ m_blockSize \in Nat /\ m_originalCapacity \in Nat
      /\ m_size <= m_capacity /\ m_originalCapacity <= m_capacity
      /\ DOMAIN m_memory = 0 .. m_capacity - 1
      /\ \A k \in 0 .. m_size - 1 : m_memory[k] \in Things
      /\ Stored \in Seq(Things) /\ Len(Stored) = m_size
      /\ \A k \in 1 .. m_size : Stored[k] = m_memory[k - 1]
  BY ElemsAre, StoredIsElems DEF VectorInv
<1>1. CASE ~vector /\ Fails("VECTOR_UNITIALIZED_ERROR")
  BY <1>1, SameRefusal DEF A!Without
<1>2. CASE vector /\ m_size = 0 /\ Fails("VECTOR_INDEX_OUT_OF_BOUNDS_ERROR")
  <2>1. Stored = << >>
    BY <1>0, <1>2, EmptySeq
  <2> QED
    BY <1>2, <2>1, SameRefusal DEF A!RemoveLast
<1>3. CASE /\ vector /\ m_size # 0
           /\ Gives(<<"VECTOR_SUCCESS", m_memory[m_size - 1]>>)
           /\ m_size' = m_size - 1
           /\ \/ UNCHANGED <<m_memory, m_capacity>>
              \/ /\ Shrinks(m_size - 1)
                 /\ m_capacity' = Max({m_capacity - m_blockSize, m_originalCapacity})
                 /\ m_memory' = realloc(m_capacity')
           /\ UNCHANGED sizes
  <2> DEFINE n == m_size - 1
  <2>1. n \in Nat /\ n < m_size /\ m_size' = n /\ n < m_capacity /\ m_size \in 1 .. m_size /\ n + 1 = m_size
    BY <1>0, <1>3
  <2>2. Stored # << >> /\ Stored[m_size] = m_memory[n]
    BY <1>0, <2>1, EmptySeq
  <2>3. UNCHANGED <<vector, m_originalCapacity, m_blockSize>> /\ result' = <<"VECTOR_SUCCESS", Stored[m_size]>>
    BY <1>3, <2>2 DEF sizes, Gives
  <2>4. \/ m_capacity' = m_capacity /\ m_memory' = m_memory
        \/ /\ m_capacity' \in m_originalCapacity .. m_capacity - 1
           /\ m_capacity' - n >= m_blockSize /\ m_blockSize > 0
           /\ m_memory' = realloc(m_capacity')
    <3>1. CASE UNCHANGED <<m_memory, m_capacity>>
      BY <3>1
    <3>2. CASE /\ Shrinks(n)
               /\ m_capacity' = Max({m_capacity - m_blockSize, m_originalCapacity})
               /\ m_memory' = realloc(m_capacity')
      <4>1. m_blockSize > 0 /\ m_capacity > m_originalCapacity /\ m_capacity - n >= m_blockSize * 2
        BY <3>2 DEF Shrinks, ShrinkGap
      <4> DEFINE a == m_capacity - m_blockSize
                 b == m_originalCapacity
      <4>2. a \in Int /\ b \in Int
        BY <1>0
      <4>3. Max({a, b}) \in {a, b} /\ Max({a, b}) >= a /\ Max({a, b}) >= b
        <5> HIDE DEF a, b
        <5>1. \E m \in {a, b} : \A k \in {a, b} : m >= k
          BY <4>2
        <5> QED
          BY <5>1 DEF Max
      <4> DEFINE c == Max({a, b})
      <4>4. m_capacity' = c
        BY <3>2
      <4> HIDE DEF c
      <4>5. c \in {a, b} /\ c >= a /\ c >= b
        BY <4>3 DEF c
      <4>6. c \in b .. m_capacity - 1 /\ c - n >= m_blockSize
        BY <1>0, <2>1, <4>1, <4>2, <4>5
      <4> QED
        BY <3>2, <4>1, <4>4, <4>6
    <3> QED
      BY <1>3, <3>1, <3>2
  <2>5. /\ m_capacity' \in Nat /\ n <= m_capacity' /\ m_originalCapacity <= m_capacity'
        /\ DOMAIN m_memory' = 0 .. m_capacity' - 1
        /\ \A k \in 0 .. n - 1 : m_memory'[k] = m_memory[k]
    <3>1. CASE m_capacity' = m_capacity /\ m_memory' = m_memory
      BY <1>0, <2>1, <3>1
    <3>2. CASE /\ m_capacity' \in m_originalCapacity .. m_capacity - 1
               /\ m_capacity' - n >= m_blockSize
               /\ m_memory' = realloc(m_capacity')
      <4> DEFINE c == m_capacity'
      <4>1. c \in Nat /\ n <= c /\ m_originalCapacity <= c /\ c < m_capacity
        <5>1. n \in Nat /\ m_capacity \in Nat /\ m_originalCapacity \in Nat /\ m_blockSize \in Nat
          BY <1>0, <2>1
        <5>2. c \in m_originalCapacity .. m_capacity - 1 /\ c - n >= m_blockSize
          BY <3>2
        <5> HIDE DEF c, n
        <5> QED
          BY <5>1, <5>2
      <4>2. DOMAIN realloc(c) = 0 .. c - 1
            /\ \A k \in 0 .. c - 1 : k < m_capacity => realloc(c)[k] = m_memory[k]
        BY <4>1, ReallocKeeps
      <4>3. \A k \in 0 .. n - 1 : k \in 0 .. c - 1 /\ k < m_capacity
        <5>1. n \in Nat /\ m_capacity \in Nat
          BY <1>0, <2>1
        <5> HIDE DEF c, n
        <5> QED
          BY <4>1, <5>1
      <4> QED
        BY <3>2, <4>1, <4>2, <4>3
    <3> QED
      BY <2>4, <3>1, <3>2
  <2>6. \A k \in 0 .. n - 1 : k \in 0 .. m_size - 1
    BY <1>0, <2>1
  <2>7. VectorInv'
    BY <1>0, <1>3, <2>1, <2>3, <2>5, <2>6 DEF VectorInv
  <2> DEFINE s == Elems(m_memory', n)
  <2>8. s \in Seq(Things) /\ Len(s) = n /\ \A k \in 1 .. n : s[k] = m_memory'[k - 1]
    BY <1>0, <2>1, <2>5, <2>6, ElemsAre
  <2>9. Stored' = s
    BY <2>1 DEF Stored, Elems
  <2> DEFINE f == SubSeq(Stored, 1, n)
  <2>10. f \in Seq(Things) /\ Len(f) = n /\ \A k \in 1 .. n : f[k] = Stored[k]
    <3>1. 1 \in Int /\ n \in Int /\ \A k \in 1 .. n : Stored[k] \in Things
      <4>1. \A k \in 1 .. n : k \in 1 .. Len(Stored)
        BY <1>0, <2>1
      <4> QED
        BY <1>0, <2>1, <4>1, ElementOfSeq
    <3> HIDE DEF n
    <3>2. f \in Seq(Things) /\ Len(f) = (IF 1 <= n THEN n - 1 + 1 ELSE 0)
          /\ \A k \in 1 .. n - 1 + 1 : f[k] = Stored[1 + k - 1]
      BY <3>1, SubSeqProperties
    <3> HIDE DEF f
    <3>3. n - 1 + 1 = n /\ \A k \in 1 .. n : 1 + k - 1 = k
      BY <2>1
    <3>4. Len(f) = n
      BY <2>1, <3>2
    <3> QED
      BY <3>2, <3>3, <3>4
  <2>11. s = f
    <3> HIDE DEF s, f
    <3>1. \A k \in 1 .. n : s[k] = f[k]
      <4>1. \A k \in 1 .. n : k - 1 \in 0 .. n - 1 /\ k \in 1 .. m_size
        BY <1>0, <2>1
      <4> QED
        BY <1>0, <2>5, <2>8, <2>10, <4>1
    <3> QED
      BY <2>8, <2>10, <3>1, SeqEqual
  <2>12. Stored' = A!Front(Stored) /\ A!Last(Stored) = Stored[m_size]
    BY <1>0, <2>9, <2>11 DEF A!Front, A!Last
  <2>13. Len(Stored') = n
    BY <2>8, <2>9
  <2> HIDE DEF n
  <2>14. m_capacity' = m_capacity \/ (m_capacity' \in m_originalCapacity .. m_capacity - 1
           /\ m_capacity' - Len(Stored') >= m_blockSize /\ m_blockSize > 0)
    BY <2>4, <2>13
  <2>15. m_capacity' = m_capacity \/ m_capacity' \in A!Smaller(Len(Stored'))
    <3> DEFINE q == Len(Stored')
    <3> HIDE DEF q
    <3> QED
      BY <2>14 DEF A!Smaller, q
  <2>16. A!RemoveLast
    BY <1>3, <2>2, <2>3, <2>12, <2>15 DEF A!RemoveLast, A!Answers
  <2> QED
    BY <2>7, <2>16
<1> QED
  BY <1>1, <1>2, <1>3 DEF VectorRemove

LEMMA GetIsGet ==
  ASSUME VectorInv, NEW index \in Nat, VectorGet(index)
  PROVE  (A!Get(index) \/ A!Without) /\ VectorInv'
<1>0. /\ m_size \in Nat /\ Len(Stored) = m_size
      /\ \A k \in 1 .. m_size : Stored[k] = m_memory[k - 1]
  BY ElemsAre, StoredIsElems DEF VectorInv
<1>1. CASE ~vector /\ Fails("VECTOR_UNITIALIZED_ERROR")
  BY <1>1, SameRefusal DEF A!Without
<1>2. CASE vector /\ index >= m_size /\ Fails("VECTOR_INDEX_OUT_OF_BOUNDS_ERROR")
  <2>1. ~(index < Len(Stored))
    BY <1>0, <1>2
  <2> QED
    BY <1>2, <2>1, SameRefusal DEF A!Get, A!At, A!Refuse
<1>3. CASE vector /\ index < m_size /\ Gives(<<"VECTOR_SUCCESS", m_memory[index]>>) /\ UNCHANGED struct
  <2>1. index < Len(Stored) /\ Stored[index + 1] = m_memory[index]
    <3>1. index + 1 \in 1 .. m_size /\ index + 1 - 1 = index
      BY <1>0, <1>3
    <3> QED
      BY <1>0, <1>3, <3>1
  <2>2. VectorInv' /\ A!Keep
    BY <1>3, VectorUnchanged DEF A!Keep, struct
  <2> QED
    BY <1>3, <2>1, <2>2 DEF A!Get, A!At, A!Answers, Gives
<1> QED
  BY <1>1, <1>2, <1>3 DEF VectorGet

LEMMA SetIsSet ==
  ASSUME VectorInv, NEW index \in Nat, NEW x \in Things, VectorSet(index, x)
  PROVE  (A!Set(index, x) \/ A!Without) /\ VectorInv'
<1>0. /\ m_size \in Nat /\ m_capacity \in Nat /\ m_size <= m_capacity
      /\ DOMAIN m_memory = 0 .. m_capacity - 1
      /\ \A k \in 0 .. m_size - 1 : m_memory[k] \in Things
      /\ Stored \in Seq(Things) /\ Len(Stored) = m_size
      /\ \A k \in 1 .. m_size : Stored[k] = m_memory[k - 1]
  BY ElemsAre, StoredIsElems DEF VectorInv
<1>1. CASE ~vector /\ Fails("VECTOR_UNITIALIZED_ERROR")
  BY <1>1, SameRefusal DEF A!Without
<1>2. CASE vector /\ index >= m_size /\ Fails("VECTOR_INDEX_OUT_OF_BOUNDS_ERROR")
  <2>1. ~(index < Len(Stored))
    BY <1>0, <1>2
  <2> QED
    BY <1>2, <2>1, SameRefusal DEF A!Set, A!At, A!Refuse, A!Answers, A!Keep
<1>3. CASE /\ vector /\ index < m_size
           /\ m_memory' = [m_memory EXCEPT ![index] = x]
           /\ Gives(<<"VECTOR_SUCCESS">>)
           /\ UNCHANGED <<sizes, m_capacity, m_size>>
  <2>1. /\ index + 1 \in 1 .. m_size /\ index \in 0 .. m_capacity - 1 /\ index < Len(Stored)
    BY <1>0, <1>3
  <2>2. /\ UNCHANGED <<vector, m_originalCapacity, m_capacity, m_blockSize, m_size>>
        /\ result' = <<"VECTOR_SUCCESS">>
    BY <1>3 DEF sizes, Gives
  <2>3. /\ DOMAIN m_memory' = 0 .. m_capacity - 1
        /\ \A k \in 0 .. m_size - 1 : m_memory'[k] = IF k = index THEN x ELSE m_memory[k]
    BY <1>0, <1>3
  <2>4. \A k \in 0 .. m_size - 1 : m_memory'[k] \in Things
    BY <1>0, <2>3
  <2>5. VectorInv'
    BY <2>2, <2>3, <2>4 DEF VectorInv
  <2> DEFINE s == Elems(m_memory', m_size)
             e == [Stored EXCEPT ![index + 1] = x]
  <2>6. s \in Seq(Things) /\ Len(s) = m_size /\ \A k \in 1 .. m_size : s[k] = m_memory'[k - 1]
    BY <1>0, <2>4, ElemsAre
  <2>7. Stored' = s
    BY <2>2 DEF Stored, Elems
  <2>8. e \in Seq(Things) /\ Len(e) = m_size
        /\ \A k \in 1 .. m_size : e[k] = IF k = index + 1 THEN x ELSE Stored[k]
    BY <1>0, <2>1, ExceptSeq
  <2> HIDE DEF s, e
  <2>9. ASSUME NEW k \in 1 .. m_size
        PROVE  s[k] = e[k]
    <3>1. k - 1 \in 0 .. m_size - 1 /\ (k - 1 = index <=> k = index + 1)
      BY <1>0
    <3> QED
      BY <1>0, <2>3, <2>6, <2>8, <3>1
  <2>10. s = e
    BY <2>6, <2>8, <2>9, SeqEqual
  <2>11. A!At(index)[1] = "VECTOR_SUCCESS"
    BY <2>1 DEF A!At
  <2>12. Stored' = IF index < Len(Stored) THEN e ELSE Stored
    BY <2>1, <2>7, <2>10
  <2> QED
    BY <1>3, <2>2, <2>5, <2>11, <2>12 DEF A!Set, A!Answers, e
<1> QED
  BY <1>1, <1>2, <1>3 DEF VectorSet

LEMMA CountIsCount ==
  ASSUME VectorInv, VectorSize \/ VectorCapacity
  PROVE  (A!Count \/ A!Without) /\ VectorInv'
<1>1. /\ m_size \in Nat /\ Len(Stored) = m_size /\ vector \in BOOLEAN
      /\ ~vector => m_size = 0 /\ m_capacity = 0
  BY ElemsAre, StoredIsElems DEF VectorInv
<1>2. VectorInv' /\ A!Keep
  BY VectorUnchanged DEF VectorSize, VectorCapacity, A!Keep, struct
<1>3. result' = <<"count", m_size>> \/ result' = <<"count", m_capacity>>
  BY DEF VectorSize, VectorCapacity, Gives
<1>4. CASE vector
  BY <1>1, <1>2, <1>3, <1>4 DEF A!Count, A!Answers
<1>5. CASE ~vector
  BY <1>1, <1>2, <1>3, <1>5 DEF A!Without, A!Answers
<1> QED
  BY <1>4, <1>5

LEMMA ForEachIsStopAt ==
  ASSUME VectorInv, NEW x \in Things, VectorForEach(x)
  PROVE  (A!StopAt(x) \/ A!Without) /\ VectorInv'
<1>1. /\ m_size \in Nat /\ Len(Stored) = m_size /\ vector \in BOOLEAN
      /\ \A k \in 1 .. m_size : Stored[k] = m_memory[k - 1]
      /\ ~vector => m_size = 0
  BY ElemsAre, StoredIsElems DEF VectorInv
<1>2. VectorInv' /\ A!Keep
  BY VectorUnchanged DEF VectorForEach, A!Keep, struct
<1> DEFINE I == {k \in 0 .. m_size - 1 : m_memory[k] = x}
           J == {k \in 1 .. Len(Stored) : Stored[k] = x}
           m == Min(I \cup {m_size})
<1>3. result' = <<"count", m>>
  BY DEF VectorForEach, Gives
<1>4. m \in I \cup {m_size} /\ \A k \in I \cup {m_size} : m <= k
  <2> DEFINE U == I \cup {m_size}
  <2>1. U \in SUBSET Nat /\ U # {}
    BY <1>1
  <2> HIDE DEF U
  <2>2. Min(U) \in U /\ \A k \in U : Min(U) <= k
    BY <2>1, SmallestIs
  <2> QED
    BY <2>2 DEF U
<1> HIDE DEF m
<1>5. \A k \in Nat : k \in I <=> k + 1 \in J
  <2> TAKE k \in Nat
  <2>1. k \in 0 .. m_size - 1 <=> k + 1 \in 1 .. m_size
    BY <1>1
  <2>2. k + 1 - 1 = k
    OBVIOUS
  <2> QED
    BY <1>1, <2>1, <2>2
<1>6. CASE J = {}
  <2>1. I = {}
    <3>1. \A k \in I : k \in Nat
      BY <1>1
    <3> QED
      BY <1>5, <1>6, <3>1
  <2>2. m = m_size
    BY <1>4, <2>1
  <2> QED
    BY <1>1, <1>2, <1>3, <1>6, <2>2 DEF A!StopAt, A!Hits, A!Without, A!Answers
<1>7. CASE J # {}
  <2>2. Min(J) \in J /\ \A k \in J : Min(J) <= k
    <3>1. J \in SUBSET Nat
      BY <1>1
    <3> HIDE DEF J
    <3> QED
      BY <1>7, <3>1, SmallestIs
  <2>3. Min(J) = m + 1
    <3> DEFINE j == Min(J)
    <3>1. j \in Nat /\ j - 1 \in Nat /\ j - 1 \in I /\ j - 1 < m_size
      <4>1. j \in 1 .. m_size
        BY <1>1, <2>2
      <4> HIDE DEF j
      <4>2. j \in Nat /\ j - 1 \in Nat /\ (j - 1) + 1 = j /\ j - 1 < m_size
        BY <1>1, <4>1
      <4>3. j \in J
        BY <2>2 DEF j
      <4> QED
        BY <1>5, <4>2, <4>3
    <3>2. m <= j - 1 /\ m \in Nat
      <4>1. m <= j - 1
        BY <1>4, <3>1
      <4>2. m \in Nat
        BY <1>1, <1>4
      <4> QED
        BY <4>1, <4>2
    <3>3. m \in I
      <4>1. m # m_size
        BY <1>1, <3>1, <3>2
      <4> QED
        BY <1>4, <4>1
    <3>4. m + 1 \in J
      BY <1>5, <3>2, <3>3
    <3>5. j <= m + 1
      BY <2>2, <3>4
    <3> HIDE DEF j
    <3>6. j = m + 1
      BY <3>1, <3>2, <3>5
    <3> QED
      BY <3>6 DEF j
  <2>4. A!Hits(x) = J /\ A!Min(J) = Min(J)
    BY DEF A!Hits, A!Min, Min
  <2>5. m = Min(J) - 1
    BY <1>1, <1>4, <2>3
  <2>6. vector
    BY <1>1, <1>7
  <2> QED
    BY <1>2, <1>3, <1>7, <2>4, <2>5, <2>6 DEF A!StopAt, A!Answers
<1> QED
  BY <1>6, <1>7

LEMMA VectorStep ==
  ASSUME VectorInv, [VectorNext]_vectorvars
  PROVE  [A!ArrayNext]_(A!arrayvars) /\ VectorInv'
<1>0. 0 .. MaxStep \subseteq 0 .. MaxThings + MaxStep /\ 0 .. MaxThings \subseteq 0 .. MaxThings + MaxStep
      /\ 0 .. MaxThings \subseteq Nat /\ 0 .. MaxStep \subseteq Nat
  BY VectorBoundsAssumption
<1>1. ASSUME NEW n \in 0 .. MaxStep, NEW k \in 0 .. MaxStep, VectorCreate(n, k)
      PROVE  A!ArrayNext /\ VectorInv'
  BY <1>0, <1>1, CreateIsMake DEF A!ArrayNext
<1>2. CASE VectorDestroy
  BY <1>2, DestroyIsDrop DEF A!ArrayNext
<1>3. CASE VectorRemove
  BY <1>3, RemoveIsRemoveLast DEF A!ArrayNext
<1>4. CASE VectorSize \/ VectorCapacity
  BY <1>4, CountIsCount DEF A!ArrayNext
<1>5. ASSUME NEW x \in Things, VectorAppend(x)
      PROVE  A!ArrayNext /\ VectorInv'
  BY <1>5, AppendIsPush DEF A!ArrayNext
<1>6. ASSUME NEW x \in Things, VectorForEach(x)
      PROVE  A!ArrayNext /\ VectorInv'
  BY <1>6, ForEachIsStopAt DEF A!ArrayNext
<1>7. ASSUME NEW k \in 0 .. MaxThings, VectorGet(k)
      PROVE  A!ArrayNext /\ VectorInv'
  BY <1>0, <1>7, GetIsGet DEF A!ArrayNext
<1>8. ASSUME NEW k \in 0 .. MaxThings, NEW x \in Things, VectorSet(k, x)
      PROVE  A!ArrayNext /\ VectorInv'
  BY <1>0, <1>8, SetIsSet DEF A!ArrayNext
<1>9. CASE UNCHANGED vectorvars
  <2>1. UNCHANGED struct /\ result' = result
    BY <1>9 DEF vectorvars, struct
  <2> QED
    BY <2>1, VectorUnchanged DEF A!arrayvars, struct
<1> QED
  BY <1>1, <1>2, <1>3, <1>4, <1>5, <1>6, <1>7, <1>8, <1>9 DEF VectorNext

\* The growing array of vector.c implements the sequence of vector.h, whatever it is
\* made to grow and shrink by, however long it gets and whichever reallocation fails:
\* its contents and its room, not the code of a removal whose reallocation fails nor the
\* number of a stopped for-each, on which vector.h and the code differ.
THEOREM VectorImplementsArray == VectorSpec => VectorRefinement
<1>1. VectorInit => A!ArrayInit
  <2> SUFFICES ASSUME VectorInit
               PROVE  A!ArrayInit
    OBVIOUS
  <2>1. Stored = << >>
    BY DEF VectorInit, Stored
  <2> QED
    BY <2>1 DEF VectorInit, A!ArrayInit
<1>2. VectorSpec => []VectorInv
  BY VectorStart, VectorStep, PTL DEF VectorSpec
<1> QED
  BY <1>1, <1>2, VectorStep, PTL DEF VectorSpec, VectorRefinement, A!ArraySpec

-----------------------------------------------------------------------------
(***************************************************************************)
(* Rows of linked cells.                                                   *)
(***************************************************************************)
IsMemory(mem, X, P) ==
  mem \in [DOMAIN mem -> [m_data : X, m_next : P, m_prev : P]] /\ DOMAIN mem \subseteq P

\* A sequence with the sentinels around it.
Row(s, head, tail) ==
  [k \in 0 .. Len(s) + 1 |-> IF k = 0 THEN head ELSE IF k = Len(s) + 1 THEN tail ELSE s[k]]

LinkedRow(mem, e, n) ==
  /\ e \in [0 .. n + 1 -> DOMAIN mem]
  /\ \A j, k \in 0 .. n + 1 : e[j] = e[k] => j = k
  /\ \A k \in 0 .. n : mem[e[k]].m_next = e[k + 1] /\ mem[e[k + 1]].m_prev = e[k]

\* A row with a cell more before the place p, and without the one at p.
Grown(e, n, p, new) ==
  [k \in 0 .. n + 2 |-> IF k < p THEN e[k] ELSE IF k = p THEN new ELSE e[k - 1]]
Shrunk(e, n, p) == [k \in 0 .. n |-> IF k < p THEN e[k] ELSE e[k + 1]]

-----------------------------------------------------------------------------
(***************************************************************************)
(* The memory.                                                             *)
(***************************************************************************)
\* What InsertNodeBefore makes of the memory.
LEMMA InsertCells ==
  ASSUME NEW X, NEW P, NEW mem, IsMemory(mem, X, P),
         NEW next \in DOMAIN mem, mem[next].m_prev \in DOMAIN mem,
         NEW new \in P \ DOMAIN mem, NEW x \in X, NEW m, m = InsertNodeBefore(mem, next, new, x)
  PROVE  /\ IsMemory(m, X, P) /\ (\A c : c \in DOMAIN m <=> c \in DOMAIN mem \/ c = new)
         /\ m[new].m_data = x /\ m[new].m_next = next /\ m[new].m_prev = mem[next].m_prev
         /\ \A c \in DOMAIN mem :
              /\ m[c].m_data = mem[c].m_data
              /\ m[c].m_next = IF c = mem[next].m_prev THEN new ELSE mem[c].m_next
              /\ m[c].m_prev = IF c = next THEN new ELSE mem[c].m_prev
<1> DEFINE Q == DOMAIN mem
           N == [m_data : X, m_next : P, m_prev : P]
           prev == mem[next].m_prev
           m1 == [mem EXCEPT ![prev].m_next = new]
           m2 == [m1 EXCEPT ![next].m_prev = new]
           node == Node(x, next, prev)
<1>0. prev \in Q /\ next \in Q /\ new \in P /\ new \notin Q /\ prev \in P /\ next \in P
  BY DEF IsMemory
<1>1. mem \in [Q -> N] /\ Q \subseteq P
  BY DEF IsMemory
<1>2. node \in N /\ node = [m_data |-> x, m_next |-> next, m_prev |-> prev]
  BY <1>0 DEF Node
<1>3. m = With(m2, new, node)
  BY DEF InsertNodeBefore
<1> HIDE DEF prev, Q
<1>4. /\ m1 \in [Q -> N]
      /\ \A c \in Q : /\ m1[c].m_data = mem[c].m_data
                      /\ m1[c].m_next = IF c = prev THEN new ELSE mem[c].m_next
                      /\ m1[c].m_prev = mem[c].m_prev
  BY <1>0, <1>1
<1> HIDE DEF m1
<1>5. /\ m2 \in [Q -> N]
      /\ \A c \in Q : /\ m2[c].m_data = m1[c].m_data
                      /\ m2[c].m_next = m1[c].m_next
                      /\ m2[c].m_prev = IF c = next THEN new ELSE m1[c].m_prev
  BY <1>0, <1>4
<1> HIDE DEF m2, node
<1>6. /\ m \in [Q \cup {new} -> N] /\ m[new] = node
      /\ \A c \in Q : m[c] = m2[c]
  BY <1>0, <1>2, <1>3, <1>5 DEF With
<1>7. IsMemory(m, X, P) /\ DOMAIN m = Q \cup {new}
  BY <1>0, <1>1, <1>6 DEF IsMemory
<1>8. \A c \in Q :
        /\ m[c].m_data = mem[c].m_data
        /\ m[c].m_next = IF c = prev THEN new ELSE mem[c].m_next
        /\ m[c].m_prev = IF c = next THEN new ELSE mem[c].m_prev
  BY <1>4, <1>5, <1>6
<1> QED
  BY <1>2, <1>3, <1>6, <1>7, <1>8 DEF prev, Q

\* What RemoveNode makes of it.
LEMMA RemoveCells ==
  ASSUME NEW X, NEW P, NEW mem, IsMemory(mem, X, P), NEW node \in DOMAIN mem,
         mem[node].m_prev \in DOMAIN mem \ {node}, mem[node].m_next \in DOMAIN mem \ {node},
         NEW m, m = RemoveNode(mem, node)
  PROVE  /\ IsMemory(m, X, P) /\ (\A c : c \in DOMAIN m <=> c \in DOMAIN mem /\ c # node)
         /\ \A c \in DOMAIN mem \ {node} :
              /\ m[c].m_data = mem[c].m_data
              /\ m[c].m_next = IF c = mem[node].m_prev THEN mem[node].m_next ELSE mem[c].m_next
              /\ m[c].m_prev = IF c = mem[node].m_next THEN mem[node].m_prev ELSE mem[c].m_prev
<1> DEFINE Q == DOMAIN mem
           N == [m_data : X, m_next : P, m_prev : P]
           prev == mem[node].m_prev
           next == mem[node].m_next
           m1 == [mem EXCEPT ![prev].m_next = next]
           m2 == [m1 EXCEPT ![next].m_prev = prev]
<1>0. prev \in Q /\ next \in Q /\ prev \in P /\ next \in P /\ prev # node /\ next # node
  BY DEF IsMemory
<1>1. mem \in [Q -> N] /\ Q \subseteq P
  BY DEF IsMemory
<1>3. m = [c \in Q \ {node} |-> m2[c]]
  BY <1>1 DEF RemoveNode
<1> HIDE DEF prev, next, Q
<1>4. /\ m1 \in [Q -> N]
      /\ \A c \in Q : /\ m1[c].m_data = mem[c].m_data
                      /\ m1[c].m_next = IF c = prev THEN next ELSE mem[c].m_next
                      /\ m1[c].m_prev = mem[c].m_prev
  BY <1>0, <1>1
<1> HIDE DEF m1
<1>5. /\ m2 \in [Q -> N]
      /\ \A c \in Q : /\ m2[c].m_data = m1[c].m_data
                      /\ m2[c].m_next = m1[c].m_next
                      /\ m2[c].m_prev = IF c = next THEN prev ELSE m1[c].m_prev
  BY <1>0, <1>4
<1> HIDE DEF m2
<1>6. m \in [Q \ {node} -> N] /\ \A c \in Q \ {node} : m[c] = m2[c]
  BY <1>3, <1>5
<1>7. IsMemory(m, X, P) /\ DOMAIN m = Q \ {node}
  BY <1>0, <1>1, <1>6 DEF IsMemory
<1>8. \A c \in Q \ {node} :
        /\ m[c].m_data = mem[c].m_data
        /\ m[c].m_next = IF c = prev THEN next ELSE mem[c].m_next
        /\ m[c].m_prev = IF c = next THEN prev ELSE mem[c].m_prev
  BY <1>4, <1>5, <1>6
<1> QED
  BY <1>3, <1>7, <1>8 DEF prev, next, Q

\* What ListCreate makes of it.
LEMMA NewCells ==
  ASSUME NEW X, NEW P, NEW mem, IsMemory(mem, X, P),
         NEW head \in P \ DOMAIN mem, NEW tail \in P \ DOMAIN mem, head # tail, NoCell \in X \cap P,
         NEW m, m = NewList(mem, head, tail)
  PROVE  /\ IsMemory(m, X, P) /\ (\A c : c \in DOMAIN m <=> c \in DOMAIN mem \/ c = head \/ c = tail)
         /\ m[head].m_data = NoCell /\ m[head].m_next = tail /\ m[head].m_prev = NoCell
         /\ m[tail].m_data = NoCell /\ m[tail].m_next = NoCell /\ m[tail].m_prev = head
         /\ \A c \in DOMAIN mem : m[c] = mem[c]
<1> DEFINE Q == DOMAIN mem
           N == [m_data : X, m_next : P, m_prev : P]
           h == Node(NoCell, tail, NoCell)
           t == Node(NoCell, NoCell, head)
           m1 == With(mem, head, h)
<1>1. mem \in [Q -> N] /\ Q \subseteq P
  BY DEF IsMemory
<1>2. /\ h \in N /\ h.m_data = NoCell /\ h.m_next = tail /\ h.m_prev = NoCell
      /\ t \in N /\ t.m_data = NoCell /\ t.m_next = NoCell /\ t.m_prev = head
  BY DEF Node
<1>3. m = With(m1, tail, t)
  BY DEF NewList
<1>4. head \notin Q /\ tail \notin Q /\ head \in P /\ tail \in P /\ head # tail
  OBVIOUS
<1> HIDE DEF h, t, N, Q
<1>5. m1 \in [Q \cup {head} -> N] /\ m1[head] = h /\ \A c \in Q : m1[c] = mem[c]
  BY <1>1, <1>2, <1>4 DEF With
<1> HIDE DEF m1
<1>6. /\ m \in [Q \cup {head, tail} -> N] /\ m[tail] = t /\ m[head] = m1[head]
      /\ \A c \in Q : m[c] = m1[c]
  BY <1>2, <1>3, <1>4, <1>5 DEF With
<1>7. DOMAIN m = Q \cup {head, tail}
  BY <1>6
<1>8. IsMemory(m, X, P)
  BY <1>1, <1>4, <1>6, <1>7 DEF IsMemory, N
<1>9. \A c : c \in DOMAIN m <=> c \in Q \/ c = head \/ c = tail
  BY <1>7
<1>10. m[head] = h /\ m[tail] = t /\ \A c \in Q : m[c] = mem[c]
  BY <1>5, <1>6
<1> QED
  BY <1>2, <1>8, <1>9, <1>10 DEF Q

-----------------------------------------------------------------------------
(***************************************************************************)
(* Rows.                                                                   *)
(***************************************************************************)
\* A cell put in before the place p of a row.
LEMMA RowGrows ==
  ASSUME NEW X, NEW P, NEW mem, IsMemory(mem, X, P), NEW n \in Nat, NEW e, LinkedRow(mem, e, n),
         NEW p \in 1 .. n + 1, NEW new \in P \ DOMAIN mem, NEW x \in X,
         NEW m, m = InsertNodeBefore(mem, e[p], new, x)
  PROVE  /\ IsMemory(m, X, P) /\ (\A c : c \in DOMAIN m <=> c \in DOMAIN mem \/ c = new)
         /\ m[new].m_data = x
         /\ \A c \in DOMAIN mem : m[c].m_data = mem[c].m_data
         /\ \A c \in DOMAIN mem : c \notin {e[p - 1], e[p]} => m[c] = mem[c]
         /\ p # 1 => m[e[0]].m_next = mem[e[0]].m_next
         /\ m[e[0]].m_prev = mem[e[0]].m_prev
         /\ m[e[n + 1]].m_next = mem[e[n + 1]].m_next
         /\ LinkedRow(m, Grown(e, n, p, new), n + 1)
<1> DEFINE Q == DOMAIN mem
           f == [k \in 0 .. n + 2 |-> IF k < p THEN e[k] ELSE IF k = p THEN new ELSE e[k - 1]]
<1>1. /\ Q \subseteq P /\ e \in [0 .. n + 1 -> Q]
      /\ \A j, k \in 0 .. n + 1 : e[j] = e[k] => j = k
      /\ \A k \in 0 .. n : mem[e[k]].m_next = e[k + 1] /\ mem[e[k + 1]].m_prev = e[k]
  BY DEF LinkedRow, IsMemory
<1>2. p \in 0 .. n + 1 /\ p - 1 \in 0 .. n /\ p - 1 \in 0 .. n + 1 /\ (p - 1) + 1 = p
      /\ 0 \in 0 .. n + 1 /\ n + 1 \in 0 .. n + 1
  OBVIOUS
<1>3. e[p] \in Q /\ e[p - 1] \in Q /\ mem[e[p]].m_prev = e[p - 1]
  BY <1>1, <1>2
<1>4. /\ IsMemory(m, X, P) /\ DOMAIN m = Q \cup {new}
      /\ m[new].m_data = x /\ m[new].m_next = e[p] /\ m[new].m_prev = e[p - 1]
      /\ \A c \in Q :
           /\ m[c].m_data = mem[c].m_data
           /\ m[c].m_next = IF c = e[p - 1] THEN new ELSE mem[c].m_next
           /\ m[c].m_prev = IF c = e[p] THEN new ELSE mem[c].m_prev
  <2> DEFINE next == e[p]
  <2>1. next \in Q /\ mem[next].m_prev \in Q
    BY <1>3
  <2>2. m = InsertNodeBefore(mem, next, new, x)
    OBVIOUS
  <2> HIDE DEF next, Q
  <2>3. /\ IsMemory(m, X, P) /\ (\A c : c \in DOMAIN m <=> c \in DOMAIN mem \/ c = new)
        /\ m[new].m_data = x /\ m[new].m_next = next /\ m[new].m_prev = mem[next].m_prev
        /\ \A c \in DOMAIN mem :
             /\ m[c].m_data = mem[c].m_data
             /\ m[c].m_next = IF c = mem[next].m_prev THEN new ELSE mem[c].m_next
             /\ m[c].m_prev = IF c = next THEN new ELSE mem[c].m_prev
    BY <2>1, <2>2, InsertCells DEF Q
  <2>4. next = e[p] /\ mem[next].m_prev = e[p - 1]
    BY <1>3 DEF next
  <2>5. DOMAIN m = Q \cup {new}
    BY <2>3 DEF Q
  <2>6. /\ m[new].m_next = e[p] /\ m[new].m_prev = e[p - 1]
        /\ \A c \in Q : /\ m[c].m_next = IF c = e[p - 1] THEN new ELSE mem[c].m_next
                        /\ m[c].m_prev = IF c = e[p] THEN new ELSE mem[c].m_prev
    BY <2>3, <2>4 DEF Q
  <2> QED
    BY <2>3, <2>5, <2>6 DEF Q
<1> HIDE DEF Q
<1>5. DOMAIN m = Q \cup {new}
  BY <1>4 DEF IsMemory
<1>6. ASSUME NEW c \in Q, c \notin {e[p - 1], e[p]}
      PROVE  m[c] = mem[c]
  <2>1. m[c] \in [m_data : X, m_next : P, m_prev : P] /\ mem[c] \in [m_data : X, m_next : P, m_prev : P]
    BY <1>4 DEF IsMemory, Q
  <2> QED
    BY <1>4, <1>6, <2>1
<1>7. /\ \A k \in 0 .. n + 2 : k < p => k \in 0 .. n + 1 /\ f[k] = e[k]
      /\ f[p] = new
      /\ \A k \in 0 .. n + 2 : k > p => k - 1 \in 0 .. n + 1 /\ f[k] = e[k - 1]
  OBVIOUS
<1>8. f \in [0 .. n + 2 -> Q \cup {new}]
  BY <1>1
<1> HIDE DEF f
<1>9. ASSUME NEW j \in 0 .. n + 2, NEW k \in 0 .. n + 2, f[j] = f[k]
      PROVE  j = k
  <2>1. \A u \in 0 .. n + 1 : e[u] \in Q
    BY <1>1
  <2>2. j < p \/ j = p \/ j > p
    OBVIOUS
  <2>3. k < p \/ k = p \/ k > p
    OBVIOUS
  <2>4. CASE j = p \/ k = p
    BY <1>7, <1>9, <2>1, <2>2, <2>3, <2>4 DEF Q
  <2>5. CASE j < p /\ k < p
    BY <1>1, <1>7, <1>9, <2>5
  <2>6. CASE j > p /\ k > p
    <3>1. j - 1 = k - 1
      BY <1>1, <1>7, <1>9, <2>6
    <3> QED
      BY <3>1
  <2>7. CASE j < p /\ k > p
    <3>1. j = k - 1
      BY <1>1, <1>7, <1>9, <2>7
    <3> QED
      BY <3>1, <2>7
  <2>8. CASE j > p /\ k < p
    <3>1. j - 1 = k
      BY <1>1, <1>7, <1>9, <2>8
    <3> QED
      BY <3>1, <2>8
  <2> QED
    BY <2>2, <2>3, <2>4, <2>5, <2>6, <2>7, <2>8
<1>10. ASSUME NEW k \in 0 .. n + 1
       PROVE  m[f[k]].m_next = f[k + 1] /\ m[f[k + 1]].m_prev = f[k]
  <2>1. k \in 0 .. n + 2 /\ k + 1 \in 0 .. n + 2
    OBVIOUS
  <2>2. CASE k + 1 < p
    <3>1. f[k] = e[k] /\ f[k + 1] = e[k + 1] /\ k \in 0 .. n /\ k # p - 1 /\ k + 1 # p
          /\ k + 1 \in 0 .. n + 1 /\ k \in 0 .. n + 1
      BY <1>7, <2>1, <2>2
    <3>2. e[k] # e[p - 1] /\ e[k + 1] # e[p] /\ e[k] \in Q /\ e[k + 1] \in Q
      BY <1>1, <1>2, <3>1
    <3> QED
      BY <1>1, <1>4, <3>1, <3>2
  <2>3. CASE k + 1 = p
    <3>1. f[k] = e[p - 1] /\ f[k + 1] = new
      BY <1>7, <2>1, <2>3
    <3> QED
      BY <1>3, <1>4, <3>1
  <2>4. CASE k = p
    <3>1. f[k] = new /\ f[k + 1] = e[p]
      <4>1. k + 1 > p /\ (k + 1) - 1 = p
        BY <2>4
      <4> QED
        BY <1>7, <2>1, <2>4, <4>1
    <3> QED
      BY <1>3, <1>4, <3>1
  <2>5. CASE k > p
    <3>1. k - 1 \in 0 .. n /\ k \in 0 .. n + 1 /\ k - 1 # p - 1 /\ k # p /\ (k - 1) + 1 = k /\ (k + 1) - 1 = k
          /\ k - 1 \in 0 .. n + 1 /\ k + 1 > p
      BY <2>5
    <3>2. f[k] = e[k - 1] /\ f[k + 1] = e[k]
      BY <1>7, <2>1, <2>5, <3>1
    <3>3. e[k - 1] # e[p - 1] /\ e[k] # e[p] /\ e[k] \in Q /\ e[k - 1] \in Q
      BY <1>1, <1>2, <3>1
    <3>4. mem[e[k - 1]].m_next = e[k] /\ mem[e[k]].m_prev = e[k - 1]
      BY <1>1, <3>1
    <3> QED
      BY <1>4, <3>2, <3>3, <3>4
  <2> QED
    BY <2>2, <2>3, <2>4, <2>5
<1>11. (n + 1) + 1 = n + 2
  OBVIOUS
<1>12. LinkedRow(m, f, n + 1)
  BY <1>5, <1>8, <1>9, <1>10, <1>11 DEF LinkedRow
<1>13. /\ p # 1 => m[e[0]].m_next = mem[e[0]].m_next
       /\ m[e[0]].m_prev = mem[e[0]].m_prev
       /\ m[e[n + 1]].m_next = mem[e[n + 1]].m_next
  <2>1. e[0] \in Q /\ e[n + 1] \in Q
    BY <1>1, <1>2
  <2>2. p # 1 => p - 1 # 0
    OBVIOUS
  <2>3. p # 0 /\ n + 1 # p - 1
    OBVIOUS
  <2> QED
    BY <1>1, <1>2, <1>4, <2>1, <2>2, <2>3
<1>14. m[new].m_data = x /\ \A c \in Q : m[c].m_data = mem[c].m_data
  BY <1>4
<1> QED
  BY <1>4, <1>6, <1>12, <1>13, <1>14 DEF f, Q, Grown

\* The cell at the place p of a row taken out.
LEMMA RowShrinks ==
  ASSUME NEW X, NEW P, NEW mem, IsMemory(mem, X, P), NEW n \in Nat, NEW e, LinkedRow(mem, e, n),
         NEW p \in 1 .. n, NEW m, m = RemoveNode(mem, e[p])
  PROVE  /\ IsMemory(m, X, P) /\ (\A c : c \in DOMAIN m <=> c \in DOMAIN mem /\ c # e[p])
         /\ \A c \in DOMAIN mem \ {e[p]} : m[c].m_data = mem[c].m_data
         /\ \A c \in DOMAIN mem \ {e[p]} : c \notin {e[p - 1], e[p + 1]} => m[c] = mem[c]
         /\ m[e[0]].m_prev = mem[e[0]].m_prev
         /\ m[e[n + 1]].m_next = mem[e[n + 1]].m_next
         /\ LinkedRow(m, Shrunk(e, n, p), n - 1)
<1> DEFINE Q == DOMAIN mem
           f == [k \in 0 .. n |-> IF k < p THEN e[k] ELSE e[k + 1]]
<1>1. /\ Q \subseteq P /\ e \in [0 .. n + 1 -> Q]
      /\ \A j, k \in 0 .. n + 1 : e[j] = e[k] => j = k
      /\ \A k \in 0 .. n : mem[e[k]].m_next = e[k + 1] /\ mem[e[k + 1]].m_prev = e[k]
  BY DEF LinkedRow, IsMemory
<1>2. /\ p \in 0 .. n + 1 /\ p \in 0 .. n /\ p - 1 \in 0 .. n /\ p - 1 \in 0 .. n + 1 /\ (p - 1) + 1 = p
      /\ p + 1 \in 0 .. n + 1 /\ 0 \in 0 .. n + 1 /\ n + 1 \in 0 .. n + 1
      /\ p - 1 # p /\ p + 1 # p
  OBVIOUS
<1>3. /\ e[p] \in Q /\ e[p - 1] \in Q \ {e[p]} /\ e[p + 1] \in Q \ {e[p]}
      /\ mem[e[p]].m_prev = e[p - 1] /\ mem[e[p]].m_next = e[p + 1]
  BY <1>1, <1>2
<1>4. /\ IsMemory(m, X, P) /\ DOMAIN m = Q \ {e[p]}
      /\ \A c \in Q \ {e[p]} :
           /\ m[c].m_data = mem[c].m_data
           /\ m[c].m_next = IF c = e[p - 1] THEN e[p + 1] ELSE mem[c].m_next
           /\ m[c].m_prev = IF c = e[p + 1] THEN e[p - 1] ELSE mem[c].m_prev
  <2> DEFINE node == e[p]
  <2>1. node \in Q /\ mem[node].m_prev \in Q \ {node} /\ mem[node].m_next \in Q \ {node}
    BY <1>3
  <2>2. m = RemoveNode(mem, node)
    OBVIOUS
  <2> HIDE DEF node, Q
  <2>3. /\ IsMemory(m, X, P) /\ (\A c : c \in DOMAIN m <=> c \in DOMAIN mem /\ c # node)
        /\ \A c \in DOMAIN mem \ {node} :
             /\ m[c].m_data = mem[c].m_data
             /\ m[c].m_next = IF c = mem[node].m_prev THEN mem[node].m_next ELSE mem[c].m_next
             /\ m[c].m_prev = IF c = mem[node].m_next THEN mem[node].m_prev ELSE mem[c].m_prev
    BY <2>1, <2>2, RemoveCells DEF Q
  <2>4. node = e[p] /\ mem[node].m_prev = e[p - 1] /\ mem[node].m_next = e[p + 1]
    BY <1>3 DEF node
  <2>5. DOMAIN m = Q \ {e[p]}
    BY <2>3, <2>4 DEF Q
  <2>6. \A c \in Q \ {e[p]} :
           /\ m[c].m_next = IF c = e[p - 1] THEN e[p + 1] ELSE mem[c].m_next
           /\ m[c].m_prev = IF c = e[p + 1] THEN e[p - 1] ELSE mem[c].m_prev
    BY <2>3, <2>4 DEF Q
  <2> QED
    BY <2>3, <2>4, <2>5, <2>6 DEF Q
<1> HIDE DEF Q
<1>5. DOMAIN m = Q \ {e[p]}
  BY <1>4 DEF IsMemory
<1>6. ASSUME NEW c \in Q \ {e[p]}, c \notin {e[p - 1], e[p + 1]}
      PROVE  m[c] = mem[c]
  <2>1. m[c] \in [m_data : X, m_next : P, m_prev : P] /\ mem[c] \in [m_data : X, m_next : P, m_prev : P]
    BY <1>4 DEF IsMemory, Q
  <2> QED
    BY <1>4, <1>6, <2>1
<1>7. /\ \A k \in 0 .. n : k < p => k \in 0 .. n + 1 /\ f[k] = e[k]
      /\ \A k \in 0 .. n : k >= p => k + 1 \in 0 .. n + 1 /\ f[k] = e[k + 1]
  OBVIOUS
<1>8. f \in [0 .. n -> Q \ {e[p]}]
  <2>1. ASSUME NEW k \in 0 .. n
        PROVE  f[k] \in Q \ {e[p]}
    <3>1. CASE k < p
      <4>1. k \in 0 .. n + 1 /\ k # p
        BY <3>1
      <4> QED
        BY <1>1, <1>2, <1>7, <3>1, <4>1
    <3>2. CASE k >= p
      <4>1. k + 1 \in 0 .. n + 1 /\ k + 1 # p
        BY <3>2
      <4> QED
        BY <1>1, <1>2, <1>7, <3>2, <4>1
    <3> QED
      BY <3>1, <3>2
  <2> QED
    BY <2>1
<1> HIDE DEF f
<1>9. ASSUME NEW j \in 0 .. n, NEW k \in 0 .. n, f[j] = f[k]
      PROVE  j = k
  <2>5. CASE j < p /\ k < p
    BY <1>1, <1>7, <1>9, <2>5
  <2>6. CASE j >= p /\ k >= p
    <3>1. j + 1 = k + 1
      BY <1>1, <1>7, <1>9, <2>6
    <3> QED
      BY <3>1
  <2>7. CASE j < p /\ k >= p
    <3>1. j = k + 1
      BY <1>1, <1>7, <1>9, <2>7
    <3> QED
      BY <3>1, <2>7
  <2>8. CASE j >= p /\ k < p
    <3>1. j + 1 = k
      BY <1>1, <1>7, <1>9, <2>8
    <3> QED
      BY <3>1, <2>8
  <2> QED
    BY <2>5, <2>6, <2>7, <2>8
<1>10. ASSUME NEW k \in 0 .. n - 1
       PROVE  m[f[k]].m_next = f[k + 1] /\ m[f[k + 1]].m_prev = f[k]
  <2>1. k \in 0 .. n /\ k + 1 \in 0 .. n
    OBVIOUS
  <2>2. CASE k + 1 < p
    <3>1. f[k] = e[k] /\ f[k + 1] = e[k + 1] /\ k # p - 1 /\ k + 1 # p + 1 /\ k # p /\ k + 1 # p
          /\ k + 1 \in 0 .. n + 1 /\ k \in 0 .. n + 1
      BY <1>7, <2>1, <2>2
    <3>2. e[k] # e[p - 1] /\ e[k + 1] # e[p + 1] /\ e[k] \in Q \ {e[p]} /\ e[k + 1] \in Q \ {e[p]}
      BY <1>1, <1>2, <3>1
    <3>3. mem[e[k]].m_next = e[k + 1] /\ mem[e[k + 1]].m_prev = e[k]
      BY <1>1, <2>1
    <3> QED
      BY <1>4, <3>1, <3>2, <3>3
  <2>3. CASE k + 1 = p
    <3>1. f[k] = e[p - 1] /\ f[k + 1] = e[p + 1]
      BY <1>7, <2>1, <2>3
    <3> QED
      BY <1>3, <1>4, <3>1
  <2>4. CASE k >= p
    <3>1. k + 1 \in 0 .. n /\ (k + 1) + 1 \in 0 .. n + 1 /\ k + 1 # p - 1 /\ (k + 1) + 1 # p + 1
          /\ k + 1 # p /\ (k + 1) + 1 # p /\ k + 1 >= p /\ k + 1 \in 0 .. n + 1
      BY <2>4
    <3>2. f[k] = e[k + 1] /\ f[k + 1] = e[(k + 1) + 1]
      BY <1>7, <2>1, <2>4, <3>1
    <3>3. e[k + 1] # e[p - 1] /\ e[(k + 1) + 1] # e[p + 1]
          /\ e[k + 1] \in Q \ {e[p]} /\ e[(k + 1) + 1] \in Q \ {e[p]}
      BY <1>1, <1>2, <3>1
    <3>4. mem[e[k + 1]].m_next = e[(k + 1) + 1] /\ mem[e[(k + 1) + 1]].m_prev = e[k + 1]
      BY <1>1, <3>1
    <3> QED
      BY <1>4, <3>2, <3>3, <3>4
  <2> QED
    BY <2>2, <2>3, <2>4
<1>11. (n - 1) + 1 = n
  OBVIOUS
<1>12. LinkedRow(m, f, n - 1)
  BY <1>5, <1>8, <1>9, <1>10, <1>11 DEF LinkedRow
<1>13. m[e[0]].m_prev = mem[e[0]].m_prev /\ m[e[n + 1]].m_next = mem[e[n + 1]].m_next
  <2>1. 0 # p /\ 0 # p + 1 /\ n + 1 # p /\ n + 1 # p - 1
    OBVIOUS
  <2>2. e[0] \in Q \ {e[p]} /\ e[n + 1] \in Q \ {e[p]} /\ e[0] # e[p + 1] /\ e[n + 1] # e[p - 1]
    BY <1>1, <1>2, <2>1
  <2> QED
    BY <1>4, <2>2
<1> QED
  BY <1>4, <1>6, <1>12, <1>13 DEF f, Q, Shrunk

-----------------------------------------------------------------------------
(***************************************************************************)
(* The walk.  It is a recursive function: what it returns solves its       *)
(* equation, and a solution that differs from the row has a smallest place *)
(* where it does.                                                          *)
(***************************************************************************)
Solves(f, mem, head, tail) ==
  f = [k \in Nat |-> IF k = 0 THEN mem[head].m_next ELSE Onward(mem, tail, f[k - 1])]

\* After k rounds a loop from the first cell is at the cell after that, and in the
\* end it stays at the tail.
LEMMA RoundsAre ==
  ASSUME NEW mem, NEW n \in Nat, NEW e, LinkedRow(mem, e, n)
  PROVE  \A k \in Nat : Rounds(mem, e[0], e[n + 1])[k] = IF k <= n THEN e[k + 1] ELSE e[n + 1]
<1> DEFINE g == [k \in Nat |-> IF k <= n THEN e[k + 1] ELSE e[n + 1]]
           f == Rounds(mem, e[0], e[n + 1])
<1>1. /\ \A j, k \in 0 .. n + 1 : e[j] = e[k] => j = k
      /\ \A k \in 0 .. n : mem[e[k]].m_next = e[k + 1]
  BY DEF LinkedRow
<1>2. g[0] = mem[e[0]].m_next
  <2>1. 0 \in 0 .. n /\ 0 + 1 = 1
    OBVIOUS
  <2> QED
    BY <1>1, <2>1
<1>3. ASSUME NEW k \in Nat \ {0}
      PROVE  g[k] = Onward(mem, e[n + 1], g[k - 1])
  <2>1. k - 1 \in Nat /\ (k - 1) + 1 = k
    OBVIOUS
  <2>2. CASE k <= n
    <3>1. g[k] = e[k + 1] /\ g[k - 1] = e[k] /\ k \in 0 .. n /\ k # n + 1 /\ k \in 0 .. n + 1 /\ n + 1 \in 0 .. n + 1
      BY <2>1, <2>2
    <3>2. e[k] # e[n + 1] /\ mem[e[k]].m_next = e[k + 1]
      BY <1>1, <3>1
    <3> QED
      BY <3>1, <3>2 DEF Onward
  <2>3. CASE k > n
    <3>1. g[k] = e[n + 1] /\ g[k - 1] = e[n + 1]
      <4>1. k - 1 = n \/ k - 1 > n
        BY <2>3
      <4> QED
        BY <2>1, <2>3, <4>1
    <3> QED
      BY <3>1 DEF Onward
  <2> QED
    BY <2>2, <2>3
<1>4. Solves(g, mem, e[0], e[n + 1])
  <2> DEFINE h == [k \in Nat |-> IF k = 0 THEN mem[e[0]].m_next ELSE Onward(mem, e[n + 1], g[k - 1])]
  <2>1. \A k \in Nat : g[k] = h[k]
    <3> HIDE DEF g
    <3> QED
      BY <1>2, <1>3
  <2>2. g = [k \in Nat |-> g[k]] /\ h = [k \in Nat |-> h[k]]
    OBVIOUS
  <2>3. g = h
    <3> HIDE DEF g, h
    <3> QED
      BY <2>1, <2>2
  <2> QED
    BY <2>3 DEF Solves
<1>5. f = CHOOSE a : Solves(a, mem, e[0], e[n + 1])
  BY DEF Rounds, Solves
<1> HIDE DEF g, f
<1>6. Solves(f, mem, e[0], e[n + 1])
  BY <1>4, <1>5
<1>7. f[0] = g[0] /\ \A k \in Nat \ {0} : f[k] = Onward(mem, e[n + 1], f[k - 1])
  BY <1>2, <1>6 DEF Solves
<1>8. \A k \in Nat : f[k] = g[k]
  <2> DEFINE Bad == {k \in Nat : f[k] # g[k]}
  <2>1. SUFFICES ASSUME Bad # {}
                 PROVE  FALSE
    OBVIOUS
  <2>2. Min(Bad) \in Bad /\ \A j \in Bad : Min(Bad) <= j
    <3>1. Bad \in SUBSET Nat
      OBVIOUS
    <3> HIDE DEF Bad
    <3> QED
      BY <2>1, <3>1, SmallestIs
  <2>3. PICK k \in Nat : f[k] # g[k] /\ \A j \in Nat : f[j] # g[j] => k <= j
    BY <2>2
  <2>4. k # 0
    BY <1>7, <2>3
  <2>5. k - 1 \in Nat /\ ~(k <= k - 1)
    BY <2>4
  <2>6. f[k - 1] = g[k - 1]
    BY <2>3, <2>5
  <2> QED
    BY <1>3, <1>7, <2>3, <2>4, <2>6
<1> QED
  BY <1>8 DEF f, g

\* No row is longer than the memory.
LEMMA RowFits ==
  ASSUME NEW mem, IsFiniteSet(DOMAIN mem), NEW n \in Nat, NEW e, LinkedRow(mem, e, n)
  PROVE  n \in 0 .. Cardinality(DOMAIN mem)
<1> DEFINE f == [k \in 1 .. n |-> e[k]]
<1>1. f \in Injection(1 .. n, DOMAIN mem)
  <2>1. f \in [1 .. n -> DOMAIN mem] /\ \A j, k \in 1 .. n : f[j] = f[k] => j = k
    BY DEF LinkedRow
  <2> HIDE DEF f
  <2> QED
    BY <2>1, Fun_IsInj
<1>2. Cardinality(1 .. n) = n
  <2>1. Cardinality(1 .. n) = IF 1 > n THEN 0 ELSE n - 1 + 1
    BY FS_Interval
  <2> QED
    BY <2>1
<1>3. Cardinality(1 .. n) <= Cardinality(DOMAIN mem) /\ Cardinality(DOMAIN mem) \in Nat
  BY <1>1, FS_Injection, FS_CardinalityType
<1> QED
  BY <1>2, <1>3

\* The loops go through the row.
LEMMA ChainIs ==
  ASSUME NEW mem, IsFiniteSet(DOMAIN mem), NEW head, NEW tail, NEW C, NEW s \in Seq(C),
         LinkedRow(mem, Row(s, head, tail), Len(s))
  PROVE  Chain(mem, head, tail) = s
<1> DEFINE n == Len(s)
           e == Row(s, head, tail)
           at == Rounds(mem, head, tail)
           Ends(m) == at[m] = tail /\ \A k \in 0 .. m - 1 : at[k] # tail
<1>0. n \in Nat /\ DOMAIN s = 1 .. n /\ s = [k \in 1 .. n |-> s[k]]
  BY LenProperties
<1>1. e[0] = head /\ e[n + 1] = tail /\ \A k \in 1 .. n : e[k] = s[k]
  <2>1. 0 \in 0 .. n + 1 /\ n + 1 \in 0 .. n + 1 /\ n + 1 # 0
    BY <1>0
  <2>2. \A k \in 1 .. n : k \in 0 .. n + 1 /\ k # 0 /\ k # n + 1
    BY <1>0
  <2> HIDE DEF n
  <2> QED
    BY <2>1, <2>2 DEF Row, n
<1>2. LinkedRow(mem, e, n)
  OBVIOUS
<1> HIDE DEF n, e
<1>3. \A k \in Nat : at[k] = IF k <= n THEN e[k + 1] ELSE e[n + 1]
  BY <1>0, <1>1, <1>2, RoundsAre
<1>4. n \in 0 .. Cardinality(DOMAIN mem)
  BY <1>0, <1>2, RowFits
<1> HIDE DEF at
<1>5. Ends(n)
  <2>1. at[n] = tail
    BY <1>0, <1>1, <1>3
  <2>2. ASSUME NEW k \in 0 .. n - 1
        PROVE  at[k] # tail
    <3>1. k \in Nat /\ k <= n /\ k + 1 \in 0 .. n + 1 /\ k + 1 # n + 1 /\ n + 1 \in 0 .. n + 1
      BY <1>0
    <3>2. at[k] = e[k + 1]
      BY <1>3, <3>1
    <3>3. e[k + 1] # e[n + 1]
      BY <1>2, <3>1 DEF LinkedRow
    <3> QED
      BY <1>1, <3>2, <3>3
  <2> QED
    BY <2>1, <2>2
<1>6. ASSUME NEW m \in 0 .. Cardinality(DOMAIN mem), Ends(m)
      PROVE  m = n
  <2>0. Cardinality(DOMAIN mem) \in Nat /\ m \in Nat
    BY FS_CardinalityType
  <2>1. ~(m < n)
    <3>1. m < n => m \in 0 .. n - 1
      BY <1>0, <2>0
    <3> QED
      BY <1>5, <1>6, <3>1
  <2>2. ~(n < m)
    <3>1. n < m => n \in 0 .. m - 1
      BY <1>0, <2>0
    <3> QED
      BY <1>5, <1>6, <3>1
  <2> QED
    BY <1>0, <2>0, <2>1, <2>2
<1> DEFINE len == CHOOSE m \in 0 .. Cardinality(DOMAIN mem) : Ends(m)
<1>7. len = n
  <2> HIDE DEF Ends
  <2> QED
    BY <1>4, <1>5, <1>6
<1>8. Chain(mem, head, tail) = [k \in 1 .. len |-> at[k - 1]]
  BY DEF Chain, at
<1>9. ASSUME NEW k \in 1 .. n
      PROVE  at[k - 1] = s[k]
  <2>1. k - 1 \in Nat /\ k - 1 <= n /\ (k - 1) + 1 = k
    BY <1>0
  <2> QED
    BY <1>1, <1>3, <2>1
<1> HIDE DEF len
<1> QED
  BY <1>0, <1>7, <1>8, <1>9

-----------------------------------------------------------------------------
(***************************************************************************)
(* Sequences and rows.                                                     *)
(***************************************************************************)
\* With an element put in at p, a sequence keeps those below p, and those from p on
\* move up by one.
LEMMA InsertAtShifts ==
  ASSUME NEW S, NEW s \in Seq(S), NEW p \in 1 .. Len(s) + 1, NEW x \in S
  PROVE  /\ InsertAt(s, p, x) \in Seq(S)
         /\ Len(InsertAt(s, p, x)) = Len(s) + 1
         /\ \A k \in 1 .. Len(s) + 1 :
              InsertAt(s, p, x)[k] = IF k < p THEN s[k] ELSE IF k = p THEN x ELSE s[k - 1]
<1>1. Len(s) \in Nat /\ DOMAIN s = 1 .. Len(s) /\ p \in Nat
  BY LenProperties
<1> DEFINE a == SubSeq(s, 1, p - 1)
           b == SubSeq(s, p, Len(s))
           c == <<x>>
<1>2. a \in Seq(S) /\ Len(a) = p - 1 /\ \A k \in 1 .. p - 1 : a[k] = s[k]
  <2>1. \A k \in 1 .. p - 1 : s[k] \in S
    BY <1>1, ElementOfSeq
  <2> QED
    BY <1>1, <2>1, SubSeqProperties
<1>3. /\ b \in Seq(S) /\ Len(b) = Len(s) - (p - 1)
      /\ \A k \in 1 .. Len(s) - (p - 1) : b[k] = s[p + k - 1]
  <2>1. \A k \in p .. Len(s) : s[k] \in S
    BY <1>1, ElementOfSeq
  <2>2. /\ b \in Seq(S) /\ Len(b) = IF p <= Len(s) THEN Len(s) - p + 1 ELSE 0
        /\ \A k \in 1 .. Len(s) - p + 1 : b[k] = s[p + k - 1]
    BY <1>1, <2>1, SubSeqProperties
  <2> DEFINE n == Len(s)
  <2>3. n \in Nat /\ p \in 1 .. n + 1
    BY <1>1
  <2> HIDE DEF n
  <2>4. (IF p <= n THEN n - p + 1 ELSE 0) = n - (p - 1) /\ n - p + 1 = n - (p - 1)
    BY <2>3
  <2> HIDE DEF b
  <2> QED
    BY <2>2, <2>4 DEF n
<1>4. c \in Seq(S) /\ Len(c) = 1 /\ c[1] = x
  OBVIOUS
<1>5. InsertAt(s, p, x) = (a \o c) \o b
  BY DEF InsertAt
<1> HIDE DEF a, b, c
<1>6. /\ a \o c \in Seq(S) /\ Len(a \o c) = p
      /\ \A k \in 1 .. p : (a \o c)[k] = IF k < p THEN s[k] ELSE x
  <2>1. /\ a \o c \in Seq(S) /\ Len(a \o c) = Len(a) + Len(c)
        /\ \A k \in 1 .. Len(a) + Len(c) : (a \o c)[k] = IF k <= Len(a) THEN a[k] ELSE c[k - Len(a)]
    BY <1>2, <1>4, ConcatProperties
  <2>2. Len(a) + Len(c) = p
    BY <1>1, <1>2, <1>4
  <2>3. ASSUME NEW k \in 1 .. p
        PROVE  (a \o c)[k] = IF k < p THEN s[k] ELSE x
    <3>1. CASE k < p
      <4>1. k <= Len(a) /\ k \in 1 .. p - 1
        BY <1>1, <1>2, <3>1
      <4> QED
        BY <1>2, <2>1, <2>2, <3>1, <4>1
    <3>2. CASE ~(k < p)
      <4>1. k - Len(a) = 1 /\ ~(k <= Len(a))
        BY <1>1, <1>2, <3>2
      <4> QED
        BY <1>4, <2>1, <2>2, <3>2, <4>1
    <3> QED
      BY <3>1, <3>2
  <2> QED
    BY <2>1, <2>2, <2>3
<1> DEFINE d == a \o c
<1>7. d \in Seq(S) /\ Len(d) = p /\ \A k \in 1 .. p : d[k] = IF k < p THEN s[k] ELSE x
  BY <1>6
<1>8. InsertAt(s, p, x) = d \o b
  BY <1>5
<1> HIDE DEF d
<1>9. /\ d \o b \in Seq(S) /\ Len(d \o b) = Len(s) + 1
      /\ \A k \in 1 .. Len(s) + 1 : (d \o b)[k] = IF k <= p THEN d[k] ELSE b[k - p]
  <2>1. /\ d \o b \in Seq(S) /\ Len(d \o b) = Len(d) + Len(b)
        /\ \A k \in 1 .. Len(d) + Len(b) : (d \o b)[k] = IF k <= Len(d) THEN d[k] ELSE b[k - Len(d)]
    BY <1>3, <1>7, ConcatProperties
  <2>2. Len(d) + Len(b) = Len(s) + 1 /\ Len(d) = p
    BY <1>1, <1>3, <1>7
  <2> QED
    BY <2>1, <2>2
<1>10. ASSUME NEW k \in 1 .. Len(s) + 1
       PROVE  (d \o b)[k] = IF k < p THEN s[k] ELSE IF k = p THEN x ELSE s[k - 1]
  <2>1. CASE k <= p
    <3>1. k \in 1 .. p
      BY <1>1, <2>1
    <3> QED
      BY <1>1, <1>7, <1>9, <2>1, <3>1
  <2>2. CASE ~(k <= p)
    <3>1. k - p \in 1 .. Len(s) - (p - 1) /\ p + (k - p) - 1 = k - 1 /\ ~(k < p) /\ k # p
      BY <1>1, <2>2
    <3> QED
      BY <1>3, <1>9, <2>2, <3>1
  <2> QED
    BY <2>1, <2>2
<1> QED
  BY <1>8, <1>9, <1>10

\* At the ends this is what a push does.
LEMMA InsertAtEnds ==
  ASSUME NEW S, NEW s \in Seq(S), NEW x \in S
  PROVE  InsertAt(s, 1, x) = <<x>> \o s /\ InsertAt(s, Len(s) + 1, x) = Append(s, x)
<1>0. Len(s) \in Nat
  BY LenProperties
<1>1. InsertAt(s, 1, x) = <<x>> \o s
  <2> DEFINE a == InsertAt(s, 1, x)
             c == <<x>>
             b == c \o s
  <2>1. a \in Seq(S) /\ Len(a) = Len(s) + 1
        /\ \A k \in 1 .. Len(s) + 1 : a[k] = IF k < 1 THEN s[k] ELSE IF k = 1 THEN x ELSE s[k - 1]
    BY <1>0, InsertAtShifts
  <2>2. c \in Seq(S) /\ Len(c) = 1 /\ c[1] = x
    OBVIOUS
  <2> HIDE DEF c
  <2>3. b \in Seq(S) /\ Len(b) = 1 + Len(s)
        /\ \A k \in 1 .. 1 + Len(s) : b[k] = IF k <= 1 THEN c[k] ELSE s[k - 1]
    <3>1. /\ b \in Seq(S) /\ Len(b) = Len(c) + Len(s)
          /\ \A k \in 1 .. Len(c) + Len(s) : b[k] = IF k <= Len(c) THEN c[k] ELSE s[k - Len(c)]
      BY <2>2, ConcatProperties
    <3> HIDE DEF b
    <3> QED
      BY <2>2, <3>1
  <2> HIDE DEF a, b
  <2>4. \A k \in 1 .. Len(s) + 1 : a[k] = b[k]
    BY <1>0, <2>1, <2>2, <2>3
  <2>5. a = b
    BY <1>0, <2>1, <2>3, <2>4, SeqEqual
  <2> QED
    BY <2>5 DEF a, b, c
<1>2. InsertAt(s, Len(s) + 1, x) = Append(s, x)
  <2> DEFINE a == InsertAt(s, Len(s) + 1, x)
             b == Append(s, x)
  <2>0. Len(s) + 1 \in 1 .. Len(s) + 1
    BY <1>0
  <2>1. a \in Seq(S) /\ Len(a) = Len(s) + 1
        /\ \A k \in 1 .. Len(s) + 1 :
             a[k] = IF k < Len(s) + 1 THEN s[k] ELSE IF k = Len(s) + 1 THEN x ELSE s[k - 1]
    <3> DEFINE p == Len(s) + 1
    <3>1. p \in 1 .. Len(s) + 1 /\ a = InsertAt(s, p, x)
      BY <2>0
    <3> HIDE DEF p, a
    <3>2. a \in Seq(S) /\ Len(a) = Len(s) + 1
      BY <3>1, InsertAtShifts
    <3>3. ASSUME NEW k \in 1 .. Len(s) + 1
          PROVE  a[k] = IF k < p THEN s[k] ELSE IF k = p THEN x ELSE s[k - 1]
      <4>1. InsertAt(s, p, x)[k] = IF k < p THEN s[k] ELSE IF k = p THEN x ELSE s[k - 1]
        BY <3>1, InsertAtShifts, SMTT(30)
      <4> QED
        BY <3>1, <4>1
    <3> QED
      BY <3>2, <3>3 DEF p
  <2>2. b \in Seq(S) /\ Len(b) = Len(s) + 1 /\ b[Len(s) + 1] = x
        /\ \A k \in 1 .. Len(s) : b[k] = s[k]
    BY AppendProperties
  <2> HIDE DEF a, b
  <2>3. \A k \in 1 .. Len(s) + 1 : a[k] = b[k]
    BY <1>0, <2>1, <2>2
  <2>4. a = b
    BY <1>0, <2>1, <2>2, <2>3, SeqEqual
  <2> QED
    BY <2>4 DEF a, b
<1> QED
  BY <1>1, <1>2

\* What a row is made of.
LEMMA RowIs ==
  ASSUME NEW S, NEW s \in Seq(S), NEW head, NEW tail
  PROVE  /\ Len(s) \in Nat
         /\ DOMAIN Row(s, head, tail) = 0 .. Len(s) + 1
         /\ Row(s, head, tail)[0] = head /\ Row(s, head, tail)[Len(s) + 1] = tail
         /\ \A k \in 1 .. Len(s) : Row(s, head, tail)[k] = s[k] /\ s[k] \in S
<1> DEFINE n == Len(s)
<1>1. n \in Nat /\ \A k \in 1 .. n : s[k] \in S
  BY LenProperties, ElementOfSeq
<1>2. DOMAIN Row(s, head, tail) = 0 .. n + 1
      /\ \A k \in 0 .. n + 1 : Row(s, head, tail)[k] = IF k = 0 THEN head ELSE IF k = n + 1 THEN tail ELSE s[k]
  BY DEF Row
<1> HIDE DEF n
<1>3. /\ 0 \in 0 .. n + 1 /\ n + 1 \in 0 .. n + 1 /\ n + 1 # 0
      /\ \A k \in 1 .. n : k \in 0 .. n + 1 /\ k # 0 /\ k # n + 1
  BY <1>1
<1>4. Row(s, head, tail)[0] = head /\ Row(s, head, tail)[n + 1] = tail
      /\ \A k \in 1 .. n : Row(s, head, tail)[k] = s[k]
  BY <1>2, <1>3
<1> QED
  BY <1>1, <1>2, <1>4 DEF n

\* The sequence with an element more is the row with a cell more.
LEMMA RowOfInsert ==
  ASSUME NEW S, NEW s \in Seq(S), NEW head, NEW tail, NEW p \in 1 .. Len(s) + 1, NEW x \in S
  PROVE  Row(InsertAt(s, p, x), head, tail)
           = Grown(Row(s, head, tail), Len(s), p, x)
<1> DEFINE n == Len(s)
           t == InsertAt(s, p, x)
           e == Row(s, head, tail)
           f == Row(t, head, tail)
           g == [k \in 0 .. n + 2 |-> IF k < p THEN e[k] ELSE IF k = p THEN x ELSE e[k - 1]]
<1>1. /\ n \in Nat /\ p \in 1 .. n + 1
      /\ e[0] = head /\ e[n + 1] = tail /\ \A k \in 1 .. n : e[k] = s[k]
  BY RowIs
<1>2. /\ t \in Seq(S) /\ Len(t) = n + 1
      /\ \A k \in 1 .. n + 1 : t[k] = IF k < p THEN s[k] ELSE IF k = p THEN x ELSE s[k - 1]
  BY InsertAtShifts
<1> HIDE DEF t, e
<1>3. /\ DOMAIN f = 0 .. Len(t) + 1 /\ f[0] = head /\ f[Len(t) + 1] = tail
      /\ \A k \in 1 .. Len(t) : f[k] = t[k]
  BY <1>2, RowIs
<1>4. f = [k \in 0 .. Len(t) + 1 |-> f[k]]
  BY DEF Row
<1> HIDE DEF f, n
<1>5. (n + 1) + 1 = n + 2 /\ DOMAIN f = 0 .. n + 2
  BY <1>1, <1>2, <1>3
<1>6. ASSUME NEW k \in 0 .. n + 2
      PROVE  f[k] = g[k]
  <2>1. CASE k = 0
    <3>1. 0 < p
      BY <1>1
    <3> QED
      BY <1>1, <1>3, <2>1, <3>1
  <2>2. CASE k = n + 2
    <3>1. ~(k < p) /\ k # p /\ k - 1 = n + 1
      BY <1>1, <2>2
    <3> QED
      BY <1>1, <1>2, <1>3, <1>5, <2>2, <3>1
  <2>3. CASE k \in 1 .. n + 1
    <3>1. f[k] = t[k]
      BY <1>2, <1>3, <2>3
    <3>2. CASE k < p
      <4>1. k \in 1 .. n
        BY <1>1, <2>3, <3>2
      <4> QED
        BY <1>1, <1>2, <2>3, <3>1, <3>2, <4>1
    <3>3. CASE k = p
      BY <1>1, <1>2, <2>3, <3>1, <3>3
    <3>4. CASE k > p
      <4>1. k - 1 \in 1 .. n /\ ~(k < p) /\ k # p
        BY <1>1, <2>3, <3>4
      <4> QED
        BY <1>1, <1>2, <2>3, <3>1, <4>1
    <3> QED
      BY <1>1, <2>3, <3>2, <3>3, <3>4
  <2> QED
    BY <1>1, <2>1, <2>2, <2>3
<1>7. f = g
  <2>1. g = [k \in 0 .. n + 2 |-> g[k]] /\ f = [k \in 0 .. n + 2 |-> f[k]]
    BY <1>2, <1>4, <1>5
  <2> HIDE DEF g
  <2> QED
    BY <1>6, <2>1
<1> QED
  BY <1>7 DEF f, e, n, t, Grown

\* And the sequence without one is the row without it.
LEMMA RowOfRemove ==
  ASSUME NEW S, NEW s \in Seq(S), NEW head, NEW tail, NEW p \in 1 .. Len(s)
  PROVE  Row(RemoveAt(s, p), head, tail)
           = Shrunk(Row(s, head, tail), Len(s), p)
<1> DEFINE n == Len(s)
           t == RemoveAt(s, p)
           e == Row(s, head, tail)
           f == Row(t, head, tail)
           g == [k \in 0 .. n |-> IF k < p THEN e[k] ELSE e[k + 1]]
<1>1. /\ n \in Nat /\ p \in 1 .. n
      /\ e[0] = head /\ e[n + 1] = tail /\ \A k \in 1 .. n : e[k] = s[k]
  BY RowIs
<1>2. /\ t \in Seq(S) /\ Len(t) = n - 1
      /\ \A k \in 1 .. n - 1 : t[k] = IF k < p THEN s[k] ELSE s[k + 1]
  BY RemoveAtShifts
<1> HIDE DEF t, e
<1>3. /\ DOMAIN f = 0 .. Len(t) + 1 /\ f[0] = head /\ f[Len(t) + 1] = tail
      /\ \A k \in 1 .. Len(t) : f[k] = t[k]
  BY <1>2, RowIs
<1>4. f = [k \in 0 .. Len(t) + 1 |-> f[k]]
  BY DEF Row
<1> HIDE DEF f, n
<1>5. (n - 1) + 1 = n /\ DOMAIN f = 0 .. n /\ f[n] = tail
  BY <1>1, <1>2, <1>3
<1>6. ASSUME NEW k \in 0 .. n
      PROVE  f[k] = g[k]
  <2>1. CASE k = 0
    <3>1. 0 < p
      BY <1>1
    <3> QED
      BY <1>1, <1>3, <2>1, <3>1
  <2>2. CASE k = n
    <3>1. ~(k < p)
      BY <1>1, <2>2
    <3> QED
      BY <1>1, <1>5, <2>2, <3>1
  <2>3. CASE k \in 1 .. n - 1
    <3>1. f[k] = t[k] /\ k \in 1 .. n /\ k + 1 \in 1 .. n
      BY <1>1, <1>2, <1>3, <2>3
    <3> QED
      BY <1>1, <1>2, <2>3, <3>1
  <2> QED
    BY <1>1, <2>1, <2>2, <2>3
<1>7. f = g
  <2>1. g = [k \in 0 .. n |-> g[k]] /\ f = [k \in 0 .. n |-> f[k]]
    BY <1>2, <1>4, <1>5
  <2> HIDE DEF g
  <2> QED
    BY <1>6, <2>1
<1> QED
  BY <1>7 DEF f, e, n, t, Shrunk

-----------------------------------------------------------------------------
(***************************************************************************)
(* What a list and its iterator stand for.                                 *)
(***************************************************************************)
Pointers == Cells \cup {"head", "tail", NoCell}
Contents == Elements \cup {NoCell}

\* The memory holds the cells of s and nothing else, and i is where an iterator can be.
Holds(mem, s) ==
  /\ s \in Seq(Cells)
  /\ IsMemory(mem, Contents, Pointers) /\ DOMAIN mem = {"head", "tail"} \cup ToSet(s)
  /\ LinkedRow(mem, Row(s, "head", "tail"), Len(s))
  /\ mem["head"].m_prev = NoCell /\ mem["tail"].m_next = NoCell
Points(u, s) == u \in {NoCell, "tail"} \cup ToSet(s)

ListInv ==
  /\ list \in BOOLEAN
  /\ list => \E s : Holds(cells, s) /\ Points(itr, s)
  /\ ~list => cells = << >> /\ itr = NoCell

\* The cell at a place: the tail comes after the last.
CellAt(s, k) == Row(s, "head", "tail")[k]
DataOf(mem, s) == [k \in DOMAIN s |-> mem[s[k]].m_data]
PlaceIn(s, u) ==
  IF u = NoCell THEN 0 ELSE IF u = "tail" THEN Len(s) + 1 ELSE CHOOSE k \in DOMAIN s : s[k] = u

\* The sentinels are no cells, and NULL is neither.
LEMMA CellsAre ==
  /\ "head" \notin Cells /\ "tail" \notin Cells /\ "head" # "tail"
  /\ NoCell \notin Cells /\ NoCell # "head" /\ NoCell # "tail"
BY CellsAssumption

\* The row of a list.
LEMMA ListRow ==
  ASSUME NEW mem, NEW s, Holds(mem, s)
  PROVE  LET e == Row(s, "head", "tail")
             n == Len(s)
         IN  /\ s \in Seq(Cells) /\ n \in Nat /\ DOMAIN s = 1 .. n
             /\ DOMAIN mem = {"head", "tail"} \cup ToSet(s)
             /\ \A c \in DOMAIN mem : mem[c].m_data \in Contents
             /\ e[0] = "head" /\ e[n + 1] = "tail"
             /\ \A k \in 1 .. n : e[k] = s[k] /\ s[k] \in Cells
             /\ \A k \in 0 .. n + 1 : e[k] \in DOMAIN mem /\ e[k] # NoCell
             /\ \A j, k \in 0 .. n + 1 : e[j] = e[k] => j = k
             /\ \A k \in 0 .. n : mem[e[k]].m_next = e[k + 1] /\ mem[e[k + 1]].m_prev = e[k]
<1> DEFINE e == Row(s, "head", "tail")
           n == Len(s)
<1>1. s \in Seq(Cells) /\ LinkedRow(mem, e, n)
      /\ IsMemory(mem, Contents, Pointers) /\ DOMAIN mem = {"head", "tail"} \cup ToSet(s)
  BY DEF Holds
<1>2. n \in Nat /\ DOMAIN s = 1 .. n
  BY <1>1, LenProperties
<1>3. e[0] = "head" /\ e[n + 1] = "tail" /\ \A k \in 1 .. n : e[k] = s[k] /\ s[k] \in Cells
  BY <1>1, RowIs
<1>4. DOMAIN mem = {"head", "tail"} \cup ToSet(s) /\ \A c \in DOMAIN mem : mem[c].m_data \in Contents
  BY <1>1 DEF IsMemory
<1> HIDE DEF e, n
<1>5. /\ e \in [0 .. n + 1 -> DOMAIN mem]
      /\ \A j, k \in 0 .. n + 1 : e[j] = e[k] => j = k
      /\ \A k \in 0 .. n : mem[e[k]].m_next = e[k + 1] /\ mem[e[k + 1]].m_prev = e[k]
  BY <1>1 DEF LinkedRow
<1>6. \A k \in 0 .. n + 1 : e[k] \in DOMAIN mem /\ e[k] # NoCell
  <2>1. \A c \in ToSet(s) : c \in Cells
    BY <1>2, <1>3 DEF ToSet
  <2>2. NoCell \notin DOMAIN mem
    BY <1>4, <2>1, CellsAre
  <2> QED
    BY <1>5, <2>2
<1> QED
  BY <1>1, <1>2, <1>3, <1>4, <1>5, <1>6 DEF e, n

\* Its loops go through its cells.
LEMMA ListChain ==
  ASSUME NEW mem, NEW s, Holds(mem, s)
  PROVE  Chain(mem, "head", "tail") = s
<1>1. s \in Seq(Cells) /\ LinkedRow(mem, Row(s, "head", "tail"), Len(s))
  BY DEF Holds
<1>2. IsFiniteSet(DOMAIN mem)
  <2>1. IsFiniteSet(ToSet(s))
    BY <1>1, SizeOfList
  <2>2. DOMAIN mem = (ToSet(s) \cup {"head"}) \cup {"tail"}
    <3>1. DOMAIN mem = {"head", "tail"} \cup ToSet(s)
      BY DEF Holds
    <3> QED
      BY <3>1
  <2>3. IsFiniteSet(ToSet(s) \cup {"head"})
    BY <2>1, FS_AddElement
  <2>4. IsFiniteSet((ToSet(s) \cup {"head"}) \cup {"tail"})
    BY <2>3, FS_AddElement
  <2> QED
    BY <2>2, <2>4
<1> QED
  BY <1>1, <1>2, ChainIs

\* And an iterator has a place in it, which is the place of its cell.
LEMMA PlaceIs ==
  ASSUME NEW mem, NEW s, Holds(mem, s), NEW u, Points(u, s)
  PROVE  /\ u = NoCell => PlaceIn(s, u) = 0
         /\ u # NoCell => /\ PlaceIn(s, u) \in 1 .. Len(s) + 1
                          /\ CellAt(s, PlaceIn(s, u)) = u
<1> DEFINE n == Len(s)
           e == Row(s, "head", "tail")
<1>1. n \in Nat /\ DOMAIN s = 1 .. n /\ e[n + 1] = "tail" /\ \A k \in 1 .. n : e[k] = s[k] /\ s[k] \in Cells
  BY ListRow
<1> HIDE DEF n, e
<1>2. CASE u = NoCell
  BY <1>2 DEF PlaceIn
<1>3. CASE u = "tail"
  <2>1. PlaceIn(s, u) = n + 1
    BY <1>3, CellsAre DEF PlaceIn, n
  <2>2. PlaceIn(s, u) \in 1 .. n + 1 /\ e[PlaceIn(s, u)] = u /\ u # NoCell
    BY <1>1, <1>3, <2>1, CellsAre
  <2> QED
    BY <2>2 DEF n, e, CellAt
<1>4. CASE u \in ToSet(s)
  <2>1. PICK k \in 1 .. n : s[k] = u
    BY <1>1, <1>4 DEF ToSet
  <2>2. u # NoCell /\ u # "tail"
    BY <1>1, <2>1, CellsAre
  <2>3. PlaceIn(s, u) = CHOOSE j \in DOMAIN s : s[j] = u
    BY <2>2 DEF PlaceIn
  <2>4. PlaceIn(s, u) \in 1 .. n /\ s[PlaceIn(s, u)] = u
    BY <1>1, <2>1, <2>3
  <2> QED
    BY <1>1, <2>2, <2>4 DEF n, e, CellAt
<1> QED
  BY <1>2, <1>3, <1>4 DEF Points

\* The other way round: the cell at a place is where an iterator can be.
LEMMA PlaceOf ==
  ASSUME NEW mem, NEW s, Holds(mem, s), NEW k \in 1 .. Len(s) + 1
  PROVE  Points(CellAt(s, k), s) /\ PlaceIn(s, CellAt(s, k)) = k
<1> DEFINE n == Len(s)
           e == Row(s, "head", "tail")
           u == e[k]
<1>1. /\ n \in Nat /\ DOMAIN s = 1 .. n /\ e[n + 1] = "tail"
      /\ \A j \in 1 .. n : e[j] = s[j]
      /\ \A j, l \in 0 .. n + 1 : e[j] = e[l] => j = l
      /\ \A j \in 0 .. n + 1 : e[j] # NoCell
  BY ListRow
<1>2. Points(u, s)
  <2>1. CASE k = n + 1
    BY <1>1, <2>1 DEF Points
  <2>2. CASE k \in 1 .. n
    BY <1>1, <2>2 DEF Points, ToSet
  <2> QED
    BY <1>1, <2>1, <2>2
<1>3. PlaceIn(s, u) \in 1 .. n + 1 /\ e[PlaceIn(s, u)] = u
  <2>1. u # NoCell
    BY <1>1
  <2> HIDE DEF u
  <2> QED
    BY <1>2, <2>1, PlaceIs DEF CellAt
<1> HIDE DEF e
<1>4. PlaceIn(s, u) = k
  <2>1. PlaceIn(s, u) \in 0 .. n + 1 /\ k \in 0 .. n + 1
    BY <1>1, <1>3
  <2> QED
    BY <1>1, <1>3, <2>1
<1> QED
  BY <1>2, <1>4 DEF e, u, CellAt

\* Its data.
LEMMA DataIs ==
  ASSUME NEW mem, NEW s, Holds(mem, s)
  PROVE  /\ DataOf(mem, s) \in Seq(Contents) /\ Len(DataOf(mem, s)) = Len(s)
         /\ \A k \in 1 .. Len(s) : DataOf(mem, s)[k] = mem[s[k]].m_data
<1> DEFINE n == Len(s)
           d == DataOf(mem, s)
<1>1. n \in Nat /\ DOMAIN s = 1 .. n /\ \A c \in DOMAIN mem : mem[c].m_data \in Contents
  BY ListRow
<1>2. \A k \in 1 .. n : s[k] \in DOMAIN mem
  <2>1. DOMAIN mem = {"head", "tail"} \cup ToSet(s)
    BY DEF Holds
  <2> QED
    BY <1>1, <2>1 DEF ToSet
<1>3. d \in [1 .. n -> Contents]
  BY <1>1, <1>2 DEF DataOf, n
<1>4. \A k \in 1 .. n : d[k] = mem[s[k]].m_data
  BY <1>1 DEF DataOf
<1> HIDE DEF d, n
<1>5. d \in Seq(Contents)
  BY <1>1, <1>3, SeqDef
<1>6. Len(d) = n
  BY <1>1, <1>3, <1>5, LenProperties
<1> QED
  BY <1>4, <1>5, <1>6 DEF d, n

\* An element put in before the place p.
LEMMA ListGrows ==
  ASSUME NEW mem, NEW s, Holds(mem, s), NEW p \in 1 .. Len(s) + 1,
         NEW new \in Cells \ DOMAIN mem, NEW x \in Contents,
         NEW m, m = InsertNodeBefore(mem, CellAt(s, p), new, x)
  PROVE  LET t == InsertAt(s, p, new)
         IN  /\ Holds(m, t)
             /\ DataOf(m, t) = InsertAt(DataOf(mem, s), p, x)
             /\ m[CellAt(s, p)].m_prev = new
             /\ Points(new, t) /\ PlaceIn(t, new) = p
             /\ \A u : Points(u, s) =>
                  /\ Points(u, t)
                  /\ PlaceIn(t, u) = IF PlaceIn(s, u) >= p THEN PlaceIn(s, u) + 1 ELSE PlaceIn(s, u)
<1> DEFINE n == Len(s)
           e == Row(s, "head", "tail")
           Q == {"head", "tail"} \cup ToSet(s)
           t == InsertAt(s, p, new)
           f == Row(t, "head", "tail")
           g == Grown(e, n, p, new)
<1>1. /\ s \in Seq(Cells) /\ n \in Nat /\ DOMAIN s = 1 .. n /\ p \in 1 .. n + 1
      /\ DOMAIN mem = Q
      /\ e[0] = "head" /\ e[n + 1] = "tail"
      /\ \A k \in 1 .. n : e[k] = s[k] /\ s[k] \in Cells
      /\ \A k \in 0 .. n + 1 : e[k] \in Q /\ e[k] # NoCell
      /\ \A c \in Q : mem[c].m_data \in Contents
  BY ListRow
<1>2. /\ IsMemory(mem, Contents, Pointers) /\ LinkedRow(mem, e, n)
      /\ mem["head"].m_prev = NoCell /\ mem["tail"].m_next = NoCell
  BY DEF Holds
<1>3. Q \subseteq Pointers /\ new \in Pointers \ Q /\ new # NoCell /\ new # "tail" /\ new # "head"
  <2>1. \A c \in ToSet(s) : c \in Cells
    BY <1>1 DEF ToSet
  <2> QED
    BY <1>1, <2>1, CellsAre DEF Pointers
<1>4. /\ t \in Seq(Cells) /\ Len(t) = n + 1
      /\ \A k \in 1 .. n + 1 : t[k] = IF k < p THEN s[k] ELSE IF k = p THEN new ELSE s[k - 1]
  BY <1>1, InsertAtShifts
<1>5. f = g
  BY <1>1, RowOfInsert
<1> HIDE DEF n, e, Q, t, f
<1> HIDE DEF g
<1>6. /\ IsMemory(m, Contents, Pointers) /\ DOMAIN m = Q \cup {new}
      /\ m[new].m_data = x
      /\ \A c \in Q : m[c].m_data = mem[c].m_data
      /\ m[e[0]].m_prev = mem[e[0]].m_prev
      /\ m[e[n + 1]].m_next = mem[e[n + 1]].m_next
      /\ LinkedRow(m, g, n + 1)
  <2>1. n \in Nat /\ p \in 1 .. n + 1 /\ new \in Pointers \ DOMAIN mem /\ x \in Contents
    BY <1>1, <1>3
  <2>2. m = InsertNodeBefore(mem, e[p], new, x)
    BY DEF e, CellAt
  <2>3. IsMemory(mem, Contents, Pointers) /\ LinkedRow(mem, e, n)
    BY <1>2
  <2>4. /\ IsMemory(m, Contents, Pointers) /\ (\A c : c \in DOMAIN m <=> c \in DOMAIN mem \/ c = new)
        /\ m[new].m_data = x
        /\ \A c \in DOMAIN mem : m[c].m_data = mem[c].m_data
        /\ m[e[0]].m_prev = mem[e[0]].m_prev
        /\ m[e[n + 1]].m_next = mem[e[n + 1]].m_next
        /\ LinkedRow(m, Grown(e, n, p, new), n + 1)
    BY <2>1, <2>2, <2>3, RowGrows
  <2> QED
    BY <1>1, <2>4 DEF g
<1>7. Q \cup {new} = {"head", "tail"} \cup ToSet(t)
  <2>1. DOMAIN t = 1 .. n + 1
    BY <1>1, <1>4, LenProperties
  <2>2. ToSet(t) = ToSet(s) \cup {new}
    <3>1. ASSUME NEW k \in 1 .. n + 1
          PROVE  t[k] \in ToSet(s) \cup {new}
      <4>1. CASE k < p
        <5>1. k \in 1 .. n
          BY <1>1, <4>1
        <5> QED
          BY <1>1, <1>4, <4>1, <5>1 DEF ToSet
      <4>2. CASE k = p
        BY <1>4, <4>2
      <4>3. CASE k > p
        <5>1. k - 1 \in 1 .. n /\ ~(k < p) /\ k # p
          BY <1>1, <4>3
        <5> QED
          BY <1>1, <1>4, <5>1 DEF ToSet
      <4> QED
        BY <1>1, <4>1, <4>2, <4>3
    <3>2. ASSUME NEW k \in 1 .. n
          PROVE  s[k] \in ToSet(t)
      <4>1. CASE k < p
        <5>1. k \in 1 .. n + 1 /\ t[k] = s[k]
          BY <1>1, <1>4, <4>1
        <5> QED
          BY <2>1, <5>1 DEF ToSet
      <4>2. CASE k >= p
        <5>1. k + 1 \in 1 .. n + 1 /\ ~(k + 1 < p) /\ k + 1 # p /\ (k + 1) - 1 = k
          BY <1>1, <4>2
        <5>2. t[k + 1] = s[k]
          BY <1>4, <5>1
        <5> QED
          BY <2>1, <5>1, <5>2 DEF ToSet
      <4> QED
        BY <1>1, <4>1, <4>2
    <3>3. new \in ToSet(t)
      <4>1. p \in 1 .. n + 1 /\ t[p] = new
        BY <1>1, <1>4
      <4> QED
        BY <2>1, <4>1 DEF ToSet
    <3>4. ToSet(t) \subseteq ToSet(s) \cup {new}
      BY <2>1, <3>1 DEF ToSet
    <3>5. ToSet(s) \subseteq ToSet(t)
      BY <1>1, <3>2 DEF ToSet
    <3> QED
      BY <3>3, <3>4, <3>5
  <2> QED
    BY <2>2 DEF Q
<1>8. Holds(m, t)
  <2>1. m["head"].m_prev = NoCell /\ m["tail"].m_next = NoCell
    BY <1>1, <1>2, <1>6
  <2>2. LinkedRow(m, f, Len(t))
    BY <1>4, <1>5, <1>6
  <2> QED
    BY <1>4, <1>6, <1>7, <2>1, <2>2 DEF Holds, f
<1>9. DataOf(m, t) = InsertAt(DataOf(mem, s), p, x)
  <2> DEFINE d == DataOf(mem, s)
             b == InsertAt(d, p, x)
             a == DataOf(m, t)
  <2>1. d \in Seq(Contents) /\ Len(d) = n /\ \A k \in 1 .. n : d[k] = mem[s[k]].m_data /\ s[k] \in Q
    <3>1. \A k \in 1 .. n : s[k] \in Q
      BY <1>1 DEF Q, ToSet
    <3> QED
      BY <3>1, DataIs DEF n
  <2> HIDE DEF d
  <2>2. /\ b \in Seq(Contents) /\ Len(b) = n + 1
        /\ \A k \in 1 .. n + 1 : b[k] = IF k < p THEN d[k] ELSE IF k = p THEN x ELSE d[k - 1]
    <3>1. p \in 1 .. Len(d) + 1
      BY <1>1, <2>1
    <3>3. d \in Seq(Contents)
      BY <2>1
    <3>2. /\ b \in Seq(Contents) /\ Len(b) = Len(d) + 1
          /\ \A k \in 1 .. Len(d) + 1 : b[k] = IF k < p THEN d[k] ELSE IF k = p THEN x ELSE d[k - 1]
      <4>1. b \in Seq(Contents) /\ Len(b) = Len(d) + 1
        BY <3>1, <3>3, InsertAtShifts
      <4>2. ASSUME NEW k \in 1 .. Len(d) + 1
            PROVE  b[k] = IF k < p THEN d[k] ELSE IF k = p THEN x ELSE d[k - 1]
        BY <3>1, <3>3, InsertAtShifts
      <4> QED
        BY <4>1, <4>2
    <3> QED
      BY <2>1, <3>2
  <2> HIDE DEF b
  <2>3. a = [k \in 1 .. n + 1 |-> m[t[k]].m_data]
    <3>1. DOMAIN t = 1 .. n + 1
      BY <1>1, <1>4, LenProperties
    <3> QED
      BY <3>1 DEF DataOf
  <2>4. b = [k \in 1 .. n + 1 |-> b[k]]
    BY <1>1, <2>2, LenProperties
  <2>5. ASSUME NEW k \in 1 .. n + 1
        PROVE  m[t[k]].m_data = b[k]
    <3>1. CASE k < p
      <4>1. k \in 1 .. n /\ t[k] = s[k] /\ b[k] = d[k]
        BY <1>1, <1>4, <2>2, <3>1
      <4> QED
        BY <1>6, <2>1, <4>1
    <3>2. CASE k = p
      BY <1>1, <1>4, <1>6, <2>2, <3>2
    <3>3. CASE k > p
      <4>1. k - 1 \in 1 .. n /\ ~(k < p) /\ k # p
        BY <1>1, <3>3
      <4>2. t[k] = s[k - 1] /\ b[k] = d[k - 1]
        BY <1>4, <2>2, <4>1
      <4> QED
        BY <1>6, <2>1, <4>1, <4>2
    <3> QED
      BY <1>1, <3>1, <3>2, <3>3
  <2>6. a = b
    BY <2>3, <2>4, <2>5
  <2> QED
    BY <2>6 DEF b, d
<1>10. /\ \A k \in 0 .. n + 2 : k < p => f[k] = e[k]
       /\ f[p] = new
       /\ \A k \in 0 .. n + 2 : k > p => f[k] = e[k - 1]
  BY <1>1, <1>5 DEF g, Grown
<1>11. \A k \in 1 .. n + 2 : Points(f[k], t) /\ PlaceIn(t, f[k]) = k
  <2>1. \A k \in 1 .. Len(t) + 1 : Points(f[k], t) /\ PlaceIn(t, f[k]) = k
    BY <1>8, PlaceOf DEF f, CellAt
  <2>2. Len(t) + 1 = n + 2
    BY <1>1, <1>4
  <2> QED
    BY <2>1, <2>2
<1>12. Points(new, t) /\ PlaceIn(t, new) = p
  <2>1. p \in 1 .. n + 2
    BY <1>1
  <2> QED
    BY <1>10, <1>11, <2>1
<1>13. m[e[p]].m_prev = new
  <2>1. p \in 0 .. n + 1 /\ p + 1 \in 0 .. n + 2 /\ p + 1 > p /\ (p + 1) - 1 = p
    BY <1>1
  <2>2. m[f[p + 1]].m_prev = f[p]
    BY <1>5, <1>6, <2>1 DEF LinkedRow
  <2>3. f[p + 1] = e[p]
    BY <1>10, <2>1
  <2> QED
    BY <1>10, <2>2, <2>3
<1>14. ASSUME NEW u, Points(u, s)
       PROVE  /\ Points(u, t)
              /\ PlaceIn(t, u) = IF PlaceIn(s, u) >= p THEN PlaceIn(s, u) + 1 ELSE PlaceIn(s, u)
  <2>1. CASE u = NoCell
    <3>1. PlaceIn(s, u) = 0 /\ PlaceIn(t, u) = 0
      BY <2>1 DEF PlaceIn
    <3>2. Points(u, t)
      BY <2>1 DEF Points
    <3>3. ~(0 >= p)
      BY <1>1
    <3> QED
      BY <3>1, <3>2, <3>3
  <2>2. CASE u # NoCell
    <3> DEFINE k == PlaceIn(s, u)
    <3>1. k \in 1 .. n + 1 /\ e[k] = u
      BY <1>14, <2>2, PlaceIs DEF e, n, CellAt
    <3> HIDE DEF k
    <3>2. CASE k >= p
      <4>1. k + 1 \in 1 .. n + 2 /\ k + 1 \in 0 .. n + 2 /\ k + 1 > p /\ (k + 1) - 1 = k
        BY <1>1, <3>1, <3>2
      <4>2. f[k + 1] = u
        BY <1>10, <3>1, <4>1
      <4>3. Points(u, t) /\ PlaceIn(t, u) = k + 1
        BY <1>11, <4>1, <4>2
      <4> QED
        BY <3>2, <4>3 DEF k
    <3>3. CASE ~(k >= p)
      <4>1. k \in 1 .. n + 2 /\ k \in 0 .. n + 2 /\ k < p
        BY <1>1, <3>1, <3>3
      <4>2. f[k] = u
        BY <1>10, <3>1, <4>1
      <4>3. Points(u, t) /\ PlaceIn(t, u) = k
        BY <1>11, <4>1, <4>2
      <4> QED
        BY <3>3, <4>3 DEF k
    <3> QED
      BY <3>2, <3>3
  <2> QED
    BY <2>1, <2>2
<1> QED
  BY <1>8, <1>9, <1>12, <1>13, <1>14 DEF t, e, CellAt

\* The element at the place p taken out.
LEMMA ListShrinks ==
  ASSUME NEW mem, NEW s, Holds(mem, s), NEW p \in 1 .. Len(s),
         NEW m, m = RemoveNode(mem, CellAt(s, p))
  PROVE  LET t == RemoveAt(s, p)
         IN  /\ Holds(m, t)
             /\ DataOf(m, t) = RemoveAt(DataOf(mem, s), p)
             /\ \A u : Points(u, s) /\ u # CellAt(s, p) =>
                  /\ Points(u, t)
                  /\ PlaceIn(t, u) = IF PlaceIn(s, u) > p THEN PlaceIn(s, u) - 1 ELSE PlaceIn(s, u)
<1> DEFINE n == Len(s)
           e == Row(s, "head", "tail")
           Q == {"head", "tail"} \cup ToSet(s)
           t == RemoveAt(s, p)
           f == Row(t, "head", "tail")
           g == Shrunk(e, n, p)
<1>1. /\ s \in Seq(Cells) /\ n \in Nat /\ DOMAIN s = 1 .. n /\ p \in 1 .. n
      /\ DOMAIN mem = Q
      /\ e[0] = "head" /\ e[n + 1] = "tail"
      /\ \A k \in 1 .. n : e[k] = s[k] /\ s[k] \in Cells
      /\ \A k \in 0 .. n + 1 : e[k] \in Q /\ e[k] # NoCell
      /\ \A j, k \in 0 .. n + 1 : e[j] = e[k] => j = k
  BY ListRow
<1>2. /\ IsMemory(mem, Contents, Pointers) /\ LinkedRow(mem, e, n)
      /\ mem["head"].m_prev = NoCell /\ mem["tail"].m_next = NoCell
  BY DEF Holds
<1>3. e[p] = s[p] /\ e[p] # "head" /\ e[p] # "tail"
  BY <1>1, CellsAre
<1>4. /\ t \in Seq(Cells) /\ Len(t) = n - 1
      /\ \A k \in 1 .. n - 1 : t[k] = IF k < p THEN s[k] ELSE s[k + 1]
  BY <1>1, RemoveAtShifts
<1>5. f = g
  BY <1>1, RowOfRemove
<1> HIDE DEF n, e, Q, t, f, g
<1>6. /\ IsMemory(m, Contents, Pointers) /\ DOMAIN m = Q \ {e[p]}
      /\ \A c \in Q \ {e[p]} : m[c].m_data = mem[c].m_data
      /\ m[e[0]].m_prev = mem[e[0]].m_prev
      /\ m[e[n + 1]].m_next = mem[e[n + 1]].m_next
      /\ LinkedRow(m, g, n - 1)
  <2>1. n \in Nat /\ p \in 1 .. n
    BY <1>1
  <2>2. m = RemoveNode(mem, e[p])
    BY DEF e, CellAt
  <2>3. IsMemory(mem, Contents, Pointers) /\ LinkedRow(mem, e, n)
    BY <1>2
  <2>4. /\ IsMemory(m, Contents, Pointers) /\ (\A c : c \in DOMAIN m <=> c \in DOMAIN mem /\ c # e[p])
        /\ \A c \in DOMAIN mem \ {e[p]} : m[c].m_data = mem[c].m_data
        /\ m[e[0]].m_prev = mem[e[0]].m_prev
        /\ m[e[n + 1]].m_next = mem[e[n + 1]].m_next
        /\ LinkedRow(m, Shrunk(e, n, p), n - 1)
    BY <2>1, <2>2, <2>3, RowShrinks
  <2> QED
    BY <1>1, <2>4 DEF g
<1>7. Q \ {e[p]} = {"head", "tail"} \cup ToSet(t)
  <2>1. DOMAIN t = 1 .. n - 1
    BY <1>1, <1>4, LenProperties
  <2>2. ASSUME NEW k \in 1 .. n - 1
        PROVE  t[k] \in ToSet(s) /\ t[k] # e[p]
    <3>1. CASE k < p
      <4>1. k \in 1 .. n /\ k \in 0 .. n + 1 /\ p \in 0 .. n + 1 /\ k # p
        BY <1>1, <3>1
      <4>2. t[k] = s[k] /\ e[k] # e[p] /\ e[k] = s[k]
        BY <1>1, <1>4, <3>1, <4>1
      <4> QED
        BY <1>1, <4>1, <4>2 DEF ToSet
    <3>2. CASE ~(k < p)
      <4>1. k + 1 \in 1 .. n /\ k + 1 \in 0 .. n + 1 /\ p \in 0 .. n + 1 /\ k + 1 # p
        BY <1>1, <3>2
      <4>2. t[k] = s[k + 1] /\ e[k + 1] # e[p] /\ e[k + 1] = s[k + 1]
        BY <1>1, <1>4, <3>2, <4>1
      <4> QED
        BY <1>1, <4>1, <4>2 DEF ToSet
    <3> QED
      BY <3>1, <3>2
  <2>3. ASSUME NEW k \in 1 .. n, s[k] # e[p]
        PROVE  s[k] \in ToSet(t)
    <3>1. CASE k < p
      <4>1. k \in 1 .. n - 1
        BY <1>1, <3>1
      <4>2. t[k] = s[k]
        BY <1>4, <3>1, <4>1
      <4> QED
        BY <2>1, <4>1, <4>2 DEF ToSet
    <3>2. CASE k > p
      <4>1. k - 1 \in 1 .. n - 1 /\ ~(k - 1 < p) /\ (k - 1) + 1 = k
        BY <1>1, <3>2
      <4>2. t[k - 1] = s[k]
        BY <1>4, <4>1
      <4> QED
        BY <2>1, <4>1, <4>2 DEF ToSet
    <3>3. k # p
      BY <1>3, <2>3
    <3> QED
      BY <1>1, <3>1, <3>2, <3>3
  <2>4. ToSet(t) \subseteq ToSet(s) \ {e[p]}
    BY <2>1, <2>2 DEF ToSet
  <2>5. ToSet(s) \ {e[p]} \subseteq ToSet(t)
    BY <1>1, <2>3 DEF ToSet
  <2> QED
    BY <1>3, <2>4, <2>5 DEF Q
<1>8. Holds(m, t)
  <2>1. m["head"].m_prev = NoCell /\ m["tail"].m_next = NoCell
    BY <1>1, <1>2, <1>6
  <2>2. LinkedRow(m, f, Len(t))
    BY <1>4, <1>5, <1>6
  <2> QED
    BY <1>4, <1>6, <1>7, <2>1, <2>2 DEF Holds, f
<1>9. DataOf(m, t) = RemoveAt(DataOf(mem, s), p)
  <2> DEFINE d == DataOf(mem, s)
             b == RemoveAt(d, p)
             a == DataOf(m, t)
  <2>1. d \in Seq(Contents) /\ Len(d) = n /\ \A k \in 1 .. n : d[k] = mem[s[k]].m_data
    BY DataIs DEF n
  <2> HIDE DEF d
  <2>2. /\ b \in Seq(Contents) /\ Len(b) = n - 1
        /\ \A k \in 1 .. n - 1 : b[k] = IF k < p THEN d[k] ELSE d[k + 1]
    <3>1. p \in 1 .. Len(d) /\ d \in Seq(Contents)
      BY <1>1, <2>1
    <3>2. /\ b \in Seq(Contents) /\ Len(b) = Len(d) - 1
          /\ \A k \in 1 .. Len(d) - 1 : b[k] = IF k < p THEN d[k] ELSE d[k + 1]
      BY <3>1, RemoveAtShifts
    <3> QED
      BY <2>1, <3>2
  <2> HIDE DEF b
  <2>3. a = [k \in 1 .. n - 1 |-> m[t[k]].m_data]
    <3>1. DOMAIN t = 1 .. n - 1
      BY <1>1, <1>4, LenProperties
    <3> QED
      BY <3>1 DEF DataOf
  <2>4. b = [k \in 1 .. n - 1 |-> b[k]]
    BY <1>1, <2>2, LenProperties
  <2>5. ASSUME NEW k \in 1 .. n - 1
        PROVE  m[t[k]].m_data = b[k]
    <3>1. DOMAIN t = 1 .. n - 1
      BY <1>1, <1>4, LenProperties
    <3>2. t[k] \in Q \ {e[p]}
      BY <1>7, <3>1 DEF ToSet
    <3>3. m[t[k]].m_data = mem[t[k]].m_data
      BY <1>6, <3>2
    <3>4. CASE k < p
      <4>1. k \in 1 .. n
        BY <1>1
      <4>2. t[k] = s[k] /\ b[k] = d[k]
        BY <1>4, <2>2, <3>4
      <4> QED
        BY <2>1, <3>3, <4>1, <4>2
    <3>5. CASE ~(k < p)
      <4>1. k + 1 \in 1 .. n
        BY <1>1
      <4>2. t[k] = s[k + 1] /\ b[k] = d[k + 1]
        BY <1>4, <2>2, <3>5
      <4> QED
        BY <2>1, <3>3, <4>1, <4>2
    <3> QED
      BY <3>4, <3>5
  <2>6. a = b
    BY <2>3, <2>4, <2>5
  <2> QED
    BY <2>6 DEF b, d
<1>10. /\ \A k \in 0 .. n : k < p => f[k] = e[k]
       /\ \A k \in 0 .. n : k >= p => f[k] = e[k + 1]
  BY <1>1, <1>5 DEF g, Shrunk
<1>11. \A k \in 1 .. n : Points(f[k], t) /\ PlaceIn(t, f[k]) = k
  <2>1. \A k \in 1 .. Len(t) + 1 : Points(f[k], t) /\ PlaceIn(t, f[k]) = k
    BY <1>8, PlaceOf DEF f, CellAt
  <2>2. Len(t) + 1 = n
    BY <1>1, <1>4
  <2> QED
    BY <2>1, <2>2
<1>12. ASSUME NEW u, Points(u, s), u # e[p]
       PROVE  /\ Points(u, t)
              /\ PlaceIn(t, u) = IF PlaceIn(s, u) > p THEN PlaceIn(s, u) - 1 ELSE PlaceIn(s, u)
  <2>1. CASE u = NoCell
    <3>1. PlaceIn(s, u) = 0 /\ PlaceIn(t, u) = 0
      BY <2>1 DEF PlaceIn
    <3>2. Points(u, t)
      BY <2>1 DEF Points
    <3>3. ~(0 > p)
      BY <1>1
    <3> QED
      BY <3>1, <3>2, <3>3
  <2>2. CASE u # NoCell
    <3> DEFINE k == PlaceIn(s, u)
    <3>1. k \in 1 .. n + 1 /\ e[k] = u
      BY <1>12, <2>2, PlaceIs DEF e, n, CellAt
    <3> HIDE DEF k
    <3>2. CASE k > p
      <4>1. k - 1 \in 1 .. n /\ k - 1 \in 0 .. n /\ k - 1 >= p /\ (k - 1) + 1 = k
        BY <1>1, <3>1, <3>2
      <4>2. f[k - 1] = u
        BY <1>10, <3>1, <4>1
      <4>3. Points(u, t) /\ PlaceIn(t, u) = k - 1
        BY <1>11, <4>1, <4>2
      <4> QED
        BY <3>2, <4>3 DEF k
    <3>3. CASE k < p
      <4>1. k \in 1 .. n /\ k \in 0 .. n /\ ~(k > p)
        BY <1>1, <3>1, <3>3
      <4>2. f[k] = u
        BY <1>10, <3>1, <3>3, <4>1
      <4>3. Points(u, t) /\ PlaceIn(t, u) = k
        BY <1>11, <4>1, <4>2
      <4> QED
        BY <4>1, <4>3 DEF k
    <3>4. k # p
      BY <1>12, <3>1
    <3> QED
      BY <1>1, <3>1, <3>2, <3>3, <3>4
  <2> QED
    BY <2>1, <2>2
<1> QED
  BY <1>8, <1>9, <1>12 DEF t, e, CellAt

-----------------------------------------------------------------------------
(***************************************************************************)
(* The state of the list.                                                  *)
(***************************************************************************)
\* The links by which the operations move.
LEMMA Links ==
  ASSUME NEW mem, NEW s, Holds(mem, s)
  PROVE  /\ Len(s) \in Nat /\ DOMAIN s = 1 .. Len(s)
         /\ mem["head"].m_next = CellAt(s, 1) /\ mem[CellAt(s, 1)].m_prev = "head"
         /\ CellAt(s, Len(s) + 1) = "tail" /\ mem["head"].m_prev = NoCell /\ mem["tail"].m_next = NoCell
         /\ \A k \in 1 .. Len(s) + 1 : CellAt(s, k) \in DOMAIN mem /\ CellAt(s, k) # NoCell
                                      /\ CellAt(s, k) # "head" /\ mem[CellAt(s, k)].m_prev # NoCell
         /\ \A k \in 1 .. Len(s) : CellAt(s, k) = s[k] /\ CellAt(s, k) # "tail"
                                 /\ mem[CellAt(s, k)].m_next = CellAt(s, k + 1)
         /\ \A k \in 2 .. Len(s) + 1 : mem[CellAt(s, k)].m_prev = CellAt(s, k - 1)
<1> DEFINE n == Len(s)
           e == Row(s, "head", "tail")
<1>0. \A k \in 0 .. n : mem[e[k]].m_next = e[k + 1] /\ mem[e[k + 1]].m_prev = e[k]
  BY DEF Holds, LinkedRow
<1>1. /\ n \in Nat /\ DOMAIN s = 1 .. n /\ e[0] = "head" /\ e[n + 1] = "tail"
      /\ \A k \in 1 .. n : e[k] = s[k] /\ s[k] \in Cells
      /\ \A k \in 0 .. n + 1 : e[k] \in DOMAIN mem /\ e[k] # NoCell
  BY ListRow
<1>2. mem["head"].m_prev = NoCell /\ mem["tail"].m_next = NoCell
  BY DEF Holds
<1>3. \A k : CellAt(s, k) = e[k]
  BY DEF CellAt
<1> HIDE DEF n, e
<1>4. mem["head"].m_next = e[1] /\ mem[e[1]].m_prev = "head"
  <2>1. 0 \in 0 .. n /\ 0 + 1 = 1
    BY <1>1
  <2> QED
    BY <1>0, <1>1, <2>1
<1>5. ASSUME NEW k \in 1 .. n + 1
      PROVE  /\ e[k] \in DOMAIN mem /\ e[k] # NoCell /\ e[k] # "head" /\ mem[e[k]].m_prev # NoCell
             /\ mem[e[k]].m_prev = e[k - 1]
  <2>1. k \in 0 .. n + 1 /\ k - 1 \in 0 .. n /\ k - 1 \in 0 .. n + 1 /\ (k - 1) + 1 = k
    BY <1>1
  <2>2. mem[e[k]].m_prev = e[k - 1] /\ e[k] \in DOMAIN mem /\ e[k] # NoCell /\ e[k - 1] # NoCell
    BY <1>0, <1>1, <2>1
  <2>3. k = n + 1 \/ k \in 1 .. n
    BY <1>1
  <2>4. e[k] # "head"
    BY <1>1, <2>3, CellsAre
  <2> QED
    BY <2>2, <2>4
<1>6. ASSUME NEW k \in 1 .. n
      PROVE  e[k] = s[k] /\ e[k] # "tail" /\ mem[e[k]].m_next = e[k + 1]
  <2>1. k \in 0 .. n
    BY <1>1
  <2> QED
    BY <1>0, <1>1, <2>1, CellsAre
<1>7. \A k \in 2 .. n + 1 : k \in 1 .. n + 1
  BY <1>1
<1> QED
  BY <1>1, <1>2, <1>3, <1>4, <1>5, <1>6, <1>7 DEF n

\* What the model's Data and Place are, before a step and after it.
LEMMA ShownNow ==
  ASSUME NEW s, Holds(cells, s)
  PROVE  Data = DataOf(cells, s) /\ Place = PlaceIn(s, itr)
<1> DEFINE c == Chain(cells, "head", "tail")
<1>1. c = s
  BY ListChain
<1>2. Data = DataOf(cells, c)
  BY DEF Data, DataOf
<1>3. Place = PlaceIn(c, itr)
  BY DEF Place, PlaceIn
<1> HIDE DEF c
<1> QED
  BY <1>1, <1>2, <1>3

\* The same after a step.
LEMMA ShownNext ==
  ASSUME NEW s, Holds(cells', s)
  PROVE  Data' = DataOf(cells', s) /\ Place' = PlaceIn(s, itr')
<1> DEFINE c == Chain(cells', "head", "tail")
<1>1. c = s
  BY ListChain
<1>2. Data' = DataOf(cells', c)
  BY DEF Data, DataOf
<1>3. Place' = PlaceIn(c, itr')
  BY DEF Place, PlaceIn
<1> HIDE DEF c
<1> QED
  BY <1>1, <1>2, <1>3

\* A step that leaves the memory alone shows the same.
LEMMA SameShown ==
  ASSUME UNCHANGED <<list, cells, itr>>
  PROVE  /\ list' = list /\ Data' = Data /\ Place' = Place
         /\ (IF list THEN Data ELSE << >>)' = IF list THEN Data ELSE << >>
         /\ ListInv => ListInv'
BY DEF Data, Place, ListInv

\* What a list shows: a sequence of data, and a place in it or after it.
LEMMA ShownIs ==
  ASSUME NEW s, Holds(cells, s), Points(itr, s)
  PROVE  /\ Data \in Seq(Contents) /\ Len(Data) = Len(s) /\ DOMAIN Data = 1 .. Len(s)
         /\ \A k \in 1 .. Len(s) : Data[k] = cells[CellAt(s, k)].m_data
         /\ Place \in 0 .. Len(s) + 1
         /\ itr = NoCell <=> Place = 0
         /\ itr # NoCell => CellAt(s, Place) = itr
         /\ \A k \in 1 .. Len(s) + 1 : itr = CellAt(s, k) <=> Place = k
<1> DEFINE n == Len(s)
<1>1. Data = DataOf(cells, s) /\ Place = PlaceIn(s, itr)
  BY ShownNow
<1>2. n \in Nat /\ \A k \in 1 .. n : CellAt(s, k) = s[k]
  BY Links
<1>3. /\ Data \in Seq(Contents) /\ Len(Data) = n
      /\ \A k \in 1 .. n : Data[k] = cells[s[k]].m_data
  BY <1>1, DataIs
<1>4. DOMAIN Data = 1 .. n
  BY <1>3, LenProperties
<1>5. itr = NoCell => Place = 0
  BY <1>1, PlaceIs
<1>6. itr # NoCell => Place \in 1 .. n + 1 /\ CellAt(s, Place) = itr
  BY <1>1, PlaceIs
<1>7. ASSUME NEW k \in 1 .. n + 1
      PROVE  itr = CellAt(s, k) <=> Place = k
  <2>1. PlaceIn(s, CellAt(s, k)) = k
    BY PlaceOf
  <2>2. itr = CellAt(s, k) => Place = k
    BY <1>1, <2>1
  <2>3. k # 0
    BY <1>2
  <2> QED
    BY <1>5, <1>6, <2>2, <2>3
<1> HIDE DEF n
<1>8. Place \in 0 .. n + 1 /\ (itr = NoCell <=> Place = 0)
  BY <1>2, <1>5, <1>6
<1> QED
  BY <1>2, <1>3, <1>4, <1>6, <1>7, <1>8 DEF n

\* What an insertion shows.
LEMMA InsertShows ==
  ASSUME NEW s, Holds(cells, s), Points(itr, s), NEW p \in 1 .. Len(s) + 1,
         NEW new \in Free, NEW x \in Contents, list' = TRUE,
         cells' = InsertNodeBefore(cells, CellAt(s, p), new, x), itr' = itr \/ itr' = new
  PROVE  /\ ListInv'
         /\ Data' = InsertAt(Data, p, x)
         /\ cells'[CellAt(s, p)].m_prev = new
         /\ itr' = itr => Place' = IF Place >= p THEN Place + 1 ELSE Place
         /\ itr' = new => Place' = p
<1> DEFINE t == InsertAt(s, p, new)
<1>1. new \in Cells \ DOMAIN cells
  BY DEF Free
<1>2. /\ Holds(cells', t)
      /\ DataOf(cells', t) = InsertAt(DataOf(cells, s), p, x)
      /\ cells'[CellAt(s, p)].m_prev = new
      /\ Points(new, t) /\ PlaceIn(t, new) = p
      /\ Points(itr, t)
      /\ PlaceIn(t, itr) = IF PlaceIn(s, itr) >= p THEN PlaceIn(s, itr) + 1 ELSE PlaceIn(s, itr)
  BY <1>1, ListGrows
<1> HIDE DEF t
<1>3. Data = DataOf(cells, s) /\ Place = PlaceIn(s, itr)
  BY ShownNow
<1>4. Data' = DataOf(cells', t) /\ Place' = PlaceIn(t, itr')
  BY <1>2, ShownNext
<1>5. ListInv'
  <2>1. list' \in BOOLEAN
    BY Zenon
  <2>2. Points(itr', t)
    BY <1>2
  <2> QED
    BY <1>2, <2>1, <2>2 DEF ListInv
<1> QED
  BY <1>2, <1>3, <1>4, <1>5

\* What a removal shows.
LEMMA RemoveShows ==
  ASSUME NEW s, Holds(cells, s), Points(itr, s), NEW p \in 1 .. Len(s), list' = TRUE,
         cells' = RemoveNode(cells, CellAt(s, p)), itr' = IF itr = CellAt(s, p) THEN NoCell ELSE itr
  PROVE  /\ ListInv'
         /\ Data' = RemoveAt(Data, p)
         /\ Place' = IF Place = p THEN 0 ELSE IF Place > p THEN Place - 1 ELSE Place
<1> DEFINE t == RemoveAt(s, p)
<1>1. /\ Holds(cells', t)
      /\ DataOf(cells', t) = RemoveAt(DataOf(cells, s), p)
      /\ itr # CellAt(s, p) =>
           /\ Points(itr, t)
           /\ PlaceIn(t, itr) = IF PlaceIn(s, itr) > p THEN PlaceIn(s, itr) - 1 ELSE PlaceIn(s, itr)
  BY ListShrinks
<1> HIDE DEF t
<1>2. Data = DataOf(cells, s) /\ Place = PlaceIn(s, itr)
  BY ShownNow
<1>3. Data' = DataOf(cells', t) /\ Place' = PlaceIn(t, itr')
  BY <1>1, ShownNext
<1>4. itr = CellAt(s, p) <=> Place = p
  <2>1. p \in 1 .. Len(s) + 1
    BY Links
  <2> QED
    BY <2>1, ShownIs
<1>5. Points(NoCell, t) /\ PlaceIn(t, NoCell) = 0
  BY DEF Points, PlaceIn
<1>6. ListInv'
  <2>1. list' \in BOOLEAN
    BY Zenon
  <2>2. Points(itr', t)
    BY <1>1, <1>5
  <2> QED
    BY <1>1, <2>1, <2>2 DEF ListInv
<1> QED
  BY <1>1, <1>2, <1>3, <1>4, <1>5, <1>6

\* Going to a place of the list changes nothing else.
LEMMA PointShows ==
  ASSUME NEW s, Holds(cells, s), NEW k \in 1 .. Len(s) + 1, list = TRUE, NEW call,
         Point(call, CellAt(s, k))
  PROVE  ListInv' /\ list' = TRUE /\ Data' = Data /\ Place' = k /\ yielded' = <<call, "itr">>
<1>1. itr' = CellAt(s, k) /\ list' = list /\ cells' = cells /\ yielded' = <<call, "itr">>
  BY DEF Point, Yields
<1>2. Points(itr', s) /\ PlaceIn(s, itr') = k
  BY <1>1, PlaceOf
<1>3. Holds(cells', s) /\ list' = TRUE
  BY <1>1
<1>4. Data' = DataOf(cells', s) /\ Place' = PlaceIn(s, itr') /\ Data = DataOf(cells, s)
  BY <1>3, ShownNow, ShownNext
<1>5. ListInv'
  <2>1. list' \in BOOLEAN
    BY <1>3, Zenon
  <2> QED
    BY <1>2, <1>3, <2>1 DEF ListInv
<1> QED
  BY <1>1, <1>2, <1>3, <1>4, <1>5

-----------------------------------------------------------------------------
(***************************************************************************)
(* Every operation is one of the sequence.                                 *)
(***************************************************************************)
\* The cells of the list, when there is one.
Showing(s) == list = TRUE /\ Holds(cells, s) /\ Points(itr, s)

\* When there is a list, its cells are a sequence.
LEMMA CellsAtHand ==
  ASSUME ListInv, list
  PROVE  \E s : Showing(s)
<1>1. list = TRUE
  BY Zenon DEF ListInv
<1> QED
  BY <1>1 DEF ListInv, Showing

\* And an iterator is into one.
LEMMA CellAtHand ==
  ASSUME ListInv, HasItr
  PROVE  \E s : Showing(s) /\ itr # NoCell
<1>1. itr # NoCell
  BY DEF HasItr
<1>2. list
  BY <1>1 DEF ListInv
<1> QED
  BY <1>1, <1>2, CellsAtHand

\* An operation that only answers, and one that fails.
LEMMA OnlyAnswers ==
  ASSUME ListInv, UNCHANGED <<list, cells, itr>>
  PROVE  ListInv' /\ D!Keep
BY SameShown DEF D!Keep

\* A push without a list fails.
LEMMA NoListFails ==
  ASSUME ListInv, NEW call, NoList(call)
  PROVE  ListInv' /\ D!Failed(call)
BY OnlyAnswers DEF NoList, Yields, D!Failed, D!Answers

\* ListPushHead inserts before the first place.
LEMMA PushHeadIs ==
  ASSUME ListInv, NEW x \in Contents, ListPushHead(x)
  PROVE  ListInv' /\ D!PushHead(x)
<1>1. CASE NoList("ListPushHead")
  BY <1>1, NoListFails DEF D!PushHead
<1>2. CASE list /\ Insert("ListPushHead", cells["head"].m_next, x) /\ UNCHANGED itr
  <2>1. PICK s : Showing(s)
    BY <1>2, CellsAtHand
  <2>2. CASE Yields("ListPushHead", "failed") /\ UNCHANGED cells
    BY <1>2, <2>2, OnlyAnswers DEF Insert, Yields, D!PushHead, D!Failed, D!Answers
  <2>3. CASE \E new \in Free : Yields("ListPushHead", "ok") /\ cells' = InsertNodeBefore(cells, cells["head"].m_next, new, x)
    <3>1. PICK new \in Free : Yields("ListPushHead", "ok") /\ cells' = InsertNodeBefore(cells, cells["head"].m_next, new, x)
      BY <2>3
    <3>2. /\ Holds(cells, s) /\ Points(itr, s) /\ list' = TRUE /\ list = TRUE /\ itr' = itr
          /\ cells["head"].m_next = CellAt(s, 1) /\ Len(s) \in Nat
      BY <1>2, <2>1, Links DEF Showing, Insert
    <3>3. 1 \in 1 .. Len(s) + 1
      BY <3>2
    <3>4. /\ ListInv' /\ Data' = InsertAt(Data, 1, x)
          /\ Place' = IF Place >= 1 THEN Place + 1 ELSE Place
      BY <3>1, <3>2, <3>3, InsertShows
    <3>5. Data \in Seq(Contents) /\ Place \in 0 .. Len(s) + 1
      BY <3>2, ShownIs
    <3>6. Data' = <<x>> \o Data
      BY <3>4, <3>5, InsertAtEnds
    <3>7. Place' = IF Place = 0 THEN 0 ELSE Place + 1
      BY <3>2, <3>4, <3>5
    <3> QED
      BY <3>1, <3>2, <3>4, <3>6, <3>7 DEF Yields, D!PushHead, D!Answers, D!Shift
  <2> QED
    BY <1>2, <2>2, <2>3 DEF Insert
<1> QED
  BY <1>1, <1>2 DEF ListPushHead

\* ListPushTail inserts before the tail, which is after the last element.
LEMMA PushTailIs ==
  ASSUME ListInv, NEW x \in Contents, ListPushTail(x)
  PROVE  ListInv' /\ D!PushTail(x)
<1>1. CASE NoList("ListPushTail")
  BY <1>1, NoListFails DEF D!PushTail
<1>2. CASE list /\ Insert("ListPushTail", "tail", x) /\ UNCHANGED itr
  <2>1. PICK s : Showing(s)
    BY <1>2, CellsAtHand
  <2>2. CASE Yields("ListPushTail", "failed") /\ UNCHANGED cells
    BY <1>2, <2>2, OnlyAnswers DEF Insert, Yields, D!PushTail, D!Failed, D!Answers
  <2>3. CASE \E new \in Free : Yields("ListPushTail", "ok") /\ cells' = InsertNodeBefore(cells, "tail", new, x)
    <3>1. PICK new \in Free : Yields("ListPushTail", "ok") /\ cells' = InsertNodeBefore(cells, "tail", new, x)
      BY <2>3
    <3>2. /\ Holds(cells, s) /\ Points(itr, s) /\ list' = TRUE /\ list = TRUE /\ itr' = itr
          /\ CellAt(s, Len(s) + 1) = "tail" /\ Len(s) \in Nat
      BY <1>2, <2>1, Links DEF Showing, Insert
    <3> DEFINE p == Len(s) + 1
    <3>3. p \in 1 .. Len(s) + 1 /\ CellAt(s, p) = "tail"
      BY <3>2
    <3>4. Data \in Seq(Contents) /\ Len(Data) + 1 = p /\ Place \in 0 .. p /\ p \in Nat \ {0}
      BY <3>2, ShownIs
    <3> HIDE DEF p
    <3>5. cells' = InsertNodeBefore(cells, CellAt(s, p), new, x)
      BY <3>1, <3>3
    <3>6. /\ ListInv' /\ Data' = InsertAt(Data, p, x)
          /\ Place' = IF Place >= p THEN Place + 1 ELSE Place
      BY <3>2, <3>3, <3>5, InsertShows
    <3>7. Data' = Append(Data, x)
      BY <3>4, <3>6, InsertAtEnds
    <3>8. Place' = IF Place = 0 THEN 0 ELSE Place + (IF Place = Len(Data) + 1 THEN 1 ELSE 0)
      BY <3>4, <3>6
    <3> QED
      BY <3>1, <3>2, <3>6, <3>7, <3>8 DEF Yields, D!PushTail, D!Answers, D!Shift, D!End
  <2> QED
    BY <1>2, <2>2, <2>3 DEF Insert
<1> QED
  BY <1>1, <1>2 DEF ListPushTail, PushTailBefore

\* ListItrInsertBefore inserts at the iterator and gives the new place.
LEMMA InsertBeforeIs ==
  ASSUME ListInv, NEW x \in Contents, ListItrInsertBefore(x)
  PROVE  ListInv' /\ D!InsertHere(x)
<1>1. HasItr /\ Insert("ListItrInsertBefore", itr, x)
      /\ itr' = IF yielded'[2] = "ok" THEN cells'[itr].m_prev ELSE itr
  BY DEF ListItrInsertBefore
<1>2. PICK s : Showing(s) /\ itr # NoCell
  BY <1>1, CellAtHand
<1>3. /\ Holds(cells, s) /\ Points(itr, s) /\ list = TRUE /\ list' = TRUE
      /\ Place \in 0 .. Len(s) + 1 /\ Place # 0 /\ CellAt(s, Place) = itr /\ Len(s) \in Nat
  BY <1>1, <1>2, ShownIs, Links DEF Showing, Insert
<1>4. CASE Yields("ListItrInsertBefore", "failed") /\ UNCHANGED cells
  <2>1. yielded' = <<"ListItrInsertBefore", "failed">> /\ itr' = itr
    BY <1>1, <1>4 DEF Yields
  <2>2. UNCHANGED <<list, cells, itr>>
    BY <1>3, <1>4, <2>1
  <2> QED
    BY <1>3, <2>1, <2>2, OnlyAnswers DEF D!InsertHere, D!Failed, D!Answers
<1>5. CASE \E new \in Free : Yields("ListItrInsertBefore", "ok") /\ cells' = InsertNodeBefore(cells, itr, new, x)
  <2>1. PICK new \in Free : Yields("ListItrInsertBefore", "ok") /\ cells' = InsertNodeBefore(cells, itr, new, x)
    BY <1>5
  <2> DEFINE p == Place
  <2>2. p \in 1 .. Len(s) + 1 /\ CellAt(s, p) = itr
    BY <1>3
  <2>3. cells' = InsertNodeBefore(cells, CellAt(s, p), new, x)
    BY <2>1, <2>2
  <2> HIDE DEF p
  <2>4. cells'[CellAt(s, p)].m_prev = new
    <3>1. new \in Cells \ DOMAIN cells
      BY DEF Free
    <3> QED
      BY <1>3, <2>2, <2>3, <3>1, ListGrows
  <2>5. itr' = new
    BY <1>1, <2>1, <2>2, <2>4 DEF Yields
  <2>6. ListInv' /\ Data' = InsertAt(Data, p, x) /\ Place' = p
    BY <1>3, <2>2, <2>3, <2>5, InsertShows
  <2> QED
    BY <1>3, <2>1, <2>6 DEF p, Yields, D!InsertHere, D!Answers, D!InsertAt, InsertAt
<1> QED
  BY <1>1, <1>4, <1>5 DEF Insert

\* Taking out the cell at the place p.
LEMMA TakeOutIs ==
  ASSUME NEW s, Showing(s), NEW p \in 1 .. Len(s), NEW call, TakeOut(call, CellAt(s, p))
  PROVE  ListInv' /\ D!Take(call, p)
<1>1. /\ yielded' = <<call, cells[CellAt(s, p)].m_data>>
      /\ cells' = RemoveNode(cells, CellAt(s, p))
      /\ itr' = IF itr = CellAt(s, p) THEN NoCell ELSE itr
      /\ list' = list
  BY DEF TakeOut, Yields, Forget
<1>2. list = TRUE /\ list' = TRUE /\ Holds(cells, s) /\ Points(itr, s)
  BY <1>1 DEF Showing
<1>3. /\ ListInv' /\ Data' = RemoveAt(Data, p)
      /\ Place' = IF Place = p THEN 0 ELSE IF Place > p THEN Place - 1 ELSE Place
  BY <1>1, <1>2, RemoveShows
<1>4. Data[p] = cells[CellAt(s, p)].m_data /\ p \in DOMAIN Data
  BY <1>2, ShownIs
<1> QED
  BY <1>1, <1>2, <1>3, <1>4 DEF D!Take, D!Leaves, D!Answers, D!RemoveAt, RemoveAt

\* A removal where there is nothing to remove.
LEMMA NothingIs ==
  ASSUME ListInv, NEW call, Nothing(call), NEW k, k \notin DOMAIN (IF list THEN Data ELSE << >>)
  PROVE  ListInv' /\ D!Take(call, k)
BY OnlyAnswers DEF Nothing, Yields, D!Take, D!Answers

\* ListPopHead takes the first.
LEMMA PopHeadIs ==
  ASSUME ListInv, ListPopHead
  PROVE  ListInv' /\ D!PopHead
<1>1. CASE ~list
  <2>1. Nothing("ListPopHead") /\ 1 \notin DOMAIN (IF list THEN Data ELSE << >>)
    BY <1>1 DEF ListPopHead, IsEmpty
  <2> QED
    BY <2>1, NothingIs DEF D!PopHead
<1>2. CASE list
  <2>1. PICK s : Showing(s)
    BY <1>2, CellsAtHand
  <2>2. /\ Holds(cells, s) /\ Points(itr, s) /\ Len(s) \in Nat
        /\ cells["head"].m_next = CellAt(s, 1) /\ CellAt(s, Len(s) + 1) = "tail"
        /\ \A k \in 1 .. Len(s) : CellAt(s, k) # "tail"
        /\ DOMAIN Data = 1 .. Len(s)
    BY <2>1, Links, ShownIs DEF Showing
  <2>3. CASE Len(s) = 0
    <3>1. IsEmpty /\ 1 \notin DOMAIN Data
      BY <1>2, <2>2, <2>3 DEF IsEmpty
    <3>2. Nothing("ListPopHead") /\ 1 \notin DOMAIN (IF list THEN Data ELSE << >>)
      BY <1>2, <3>1 DEF ListPopHead
    <3> QED
      BY <3>2, NothingIs DEF D!PopHead
  <2>4. CASE Len(s) # 0
    <3>1. 1 \in 1 .. Len(s)
      BY <2>2, <2>4
    <3>2. ~IsEmpty
      BY <1>2, <2>2, <3>1 DEF IsEmpty
    <3>3. TakeOut("ListPopHead", CellAt(s, 1))
      BY <2>2, <3>2 DEF ListPopHead
    <3> QED
      BY <2>1, <3>1, <3>3, TakeOutIs DEF D!PopHead
  <2> QED
    BY <2>3, <2>4
<1> QED
  BY <1>1, <1>2

\* ListPopTail takes the last.
LEMMA PopTailIs ==
  ASSUME ListInv, ListPopTail
  PROVE  ListInv' /\ D!PopTail
<1>1. CASE ~list
  <2>1. Nothing("ListPopTail") /\ Len(IF list THEN Data ELSE << >>) \notin DOMAIN (IF list THEN Data ELSE << >>)
    BY <1>1 DEF ListPopTail, IsEmpty
  <2> QED
    BY <2>1, NothingIs DEF D!PopTail
<1>2. CASE list
  <2>1. PICK s : Showing(s)
    BY <1>2, CellsAtHand
  <2> DEFINE n == Len(s)
  <2>2. /\ Holds(cells, s) /\ Points(itr, s) /\ n \in Nat
        /\ cells["head"].m_next = CellAt(s, 1) /\ CellAt(s, n + 1) = "tail"
        /\ \A k \in 1 .. n : CellAt(s, k) # "tail"
        /\ \A k \in 2 .. n + 1 : cells[CellAt(s, k)].m_prev = CellAt(s, k - 1)
        /\ DOMAIN Data = 1 .. n /\ Len(Data) = n
    BY <2>1, Links, ShownIs DEF Showing
  <2> HIDE DEF n
  <2>3. CASE n = 0
    <3>1. IsEmpty /\ Len(Data) \notin DOMAIN Data
      BY <1>2, <2>2, <2>3 DEF IsEmpty
    <3>2. Nothing("ListPopTail") /\ Len(IF list THEN Data ELSE << >>) \notin DOMAIN (IF list THEN Data ELSE << >>)
      BY <1>2, <3>1 DEF ListPopTail
    <3> QED
      BY <3>2, NothingIs DEF D!PopTail
  <2>4. CASE n # 0
    <3>1. 1 \in 1 .. n /\ n \in 1 .. n /\ n + 1 \in 2 .. n + 1 /\ (n + 1) - 1 = n
      BY <2>2, <2>4
    <3>2. ~IsEmpty
      BY <1>2, <2>2, <3>1 DEF IsEmpty
    <3>3. cells["tail"].m_prev = CellAt(s, n)
      BY <2>2, <3>1
    <3>4. TakeOut("ListPopTail", CellAt(s, n))
      BY <3>2, <3>3 DEF ListPopTail
    <3>5. ListInv' /\ D!Take("ListPopTail", n)
      BY <2>1, <3>1, <3>4, TakeOutIs DEF n
    <3> QED
      BY <1>2, <2>2, <3>5 DEF D!PopTail
  <2> QED
    BY <2>3, <2>4
<1> QED
  BY <1>1, <1>2

\* ListItrRemove takes the element at the iterator, and nothing at the end.
LEMMA ItrRemoveIs ==
  ASSUME ListInv, ListItrRemove
  PROVE  ListInv' /\ D!TakeHere
<1>1. HasItr /\ IF AtEnd \/ cells[itr].m_prev = NoCell THEN Nothing("ListItrRemove")
                                                  ELSE TakeOut("ListItrRemove", itr)
  BY DEF ListItrRemove
<1>2. PICK s : Showing(s) /\ itr # NoCell
  BY <1>1, CellAtHand
<1> DEFINE n == Len(s)
<1>3. /\ Holds(cells, s) /\ n \in Nat /\ list
      /\ Place \in 0 .. n + 1 /\ Place # 0 /\ CellAt(s, Place) = itr /\ DOMAIN Data = 1 .. n
  BY <1>2, ShownIs, Links DEF Showing
<1>4. /\ CellAt(s, n + 1) = "tail" /\ cells["tail"].m_next = NoCell
      /\ \A k \in 1 .. n + 1 : CellAt(s, k) # NoCell /\ cells[CellAt(s, k)].m_prev # NoCell
      /\ \A k \in 1 .. n : cells[CellAt(s, k)].m_next = CellAt(s, k + 1)
  BY <1>3, Links
<1> HIDE DEF n
<1>5. CASE Place = n + 1
  <2>1. AtEnd
    BY <1>3, <1>4, <1>5 DEF AtEnd
  <2>2. Nothing("ListItrRemove")
    BY <1>1, <2>1
  <2>3. Place \notin DOMAIN (IF list THEN Data ELSE << >>)
    BY <1>3, <1>5
  <2>4. ListInv' /\ D!Take("ListItrRemove", Place)
    BY <2>2, <2>3, NothingIs
  <2> QED
    BY <1>3, <2>4 DEF D!TakeHere
<1>6. CASE Place \in 1 .. n
  <2>1. Place \in 1 .. n + 1 /\ Place + 1 \in 1 .. n + 1
    BY <1>3, <1>6
  <2>2. ~AtEnd /\ cells[itr].m_prev # NoCell
    BY <1>3, <1>4, <1>6, <2>1 DEF AtEnd
  <2> DEFINE p == Place
  <2>3. p \in 1 .. n /\ TakeOut("ListItrRemove", CellAt(s, p))
    BY <1>1, <1>3, <1>6, <2>2
  <2> HIDE DEF p
  <2>4. ListInv' /\ D!Take("ListItrRemove", p)
    BY <1>2, <2>3, TakeOutIs DEF n
  <2> QED
    BY <1>3, <2>4 DEF D!TakeHere, p
<1> QED
  BY <1>3, <1>5, <1>6
\* What the iterator says of its place.
LEMMA ItrIs ==
  ASSUME NEW s, Showing(s), itr # NoCell
  PROVE  /\ Place \in 1 .. Len(s) + 1 /\ CellAt(s, Place) = itr
         /\ AtEnd <=> Place = Len(s) + 1
         /\ AtBegin <=> Place = 1
         /\ Place \in 1 .. Len(s) => Data[Place] = cells[itr].m_data
<1> DEFINE n == Len(s)
           p == Place
<1>1. /\ Holds(cells, s) /\ n \in Nat /\ p \in 0 .. n + 1 /\ p # 0 /\ CellAt(s, p) = itr
      /\ \A k \in 1 .. n : Data[k] = cells[CellAt(s, k)].m_data
  BY ShownIs, Links DEF Showing
<1>2. /\ CellAt(s, n + 1) = "tail" /\ cells["tail"].m_next = NoCell
      /\ cells["head"].m_prev = NoCell /\ cells[CellAt(s, 1)].m_prev = "head"
      /\ \A k \in 1 .. n + 1 : CellAt(s, k) # NoCell /\ cells[CellAt(s, k)].m_prev # NoCell
      /\ \A k \in 1 .. n : cells[CellAt(s, k)].m_next = CellAt(s, k + 1)
      /\ \A k \in 2 .. n + 1 : cells[CellAt(s, k)].m_prev = CellAt(s, k - 1)
  BY <1>1, Links
<1> HIDE DEF n, p
<1>3. p \in 1 .. n + 1
  BY <1>1
<1>4. AtEnd <=> p = n + 1
  <2>1. CASE p = n + 1
    BY <1>1, <1>2, <2>1 DEF AtEnd
  <2>2. CASE p \in 1 .. n
    <3>1. p + 1 \in 1 .. n + 1 /\ p # n + 1
      BY <1>1, <2>2
    <3> QED
      BY <1>1, <1>2, <2>2, <3>1 DEF AtEnd
  <2> QED
    BY <1>1, <1>3, <2>1, <2>2
<1>5. AtBegin <=> p = 1
  <2>1. CASE p = 1
    BY <1>1, <1>2, <2>1 DEF AtBegin
  <2>2. CASE p \in 2 .. n + 1
    <3>1. p - 1 \in 1 .. n + 1 /\ p # 1
      BY <1>1, <2>2
    <3> QED
      BY <1>1, <1>2, <1>3, <2>2, <3>1 DEF AtBegin
  <2> QED
    BY <1>1, <1>3, <2>1, <2>2
<1>6. p \in 1 .. n => Data[p] = cells[itr].m_data
  BY <1>1
<1> QED
  BY <1>1, <1>3, <1>4, <1>5, <1>6 DEF n, p

\* ListItrBegin goes to the first element, or to the tail.
LEMMA BeginIs ==
  ASSUME ListInv, ListItrBegin
  PROVE  ListInv' /\ D!GoBegin
<1>1. PICK s : Showing(s)
  BY CellsAtHand DEF ListItrBegin
<1>2. Holds(cells, s) /\ list = TRUE /\ Len(s) \in Nat /\ cells["head"].m_next = CellAt(s, 1)
  BY <1>1, Links DEF Showing
<1>3. 1 \in 1 .. Len(s) + 1 /\ Point("ListItrBegin", CellAt(s, 1))
  BY <1>2 DEF ListItrBegin
<1>4. ListInv' /\ list' = TRUE /\ Data' = Data /\ Place' = 1 /\ yielded' = <<"ListItrBegin", "itr">>
  BY <1>2, <1>3, PointShows
<1> QED
  BY <1>2, <1>4 DEF D!GoBegin, D!GoTo, D!Answers

\* ListItrEnd goes to the tail.
LEMMA EndIs ==
  ASSUME ListInv, ListItrEnd
  PROVE  ListInv' /\ D!GoEnd
<1>1. PICK s : Showing(s)
  BY CellsAtHand DEF ListItrEnd
<1>2. /\ Holds(cells, s) /\ list = TRUE /\ Len(s) \in Nat /\ CellAt(s, Len(s) + 1) = "tail"
      /\ Len(Data) = Len(s)
  BY <1>1, Links, ShownIs DEF Showing
<1> DEFINE p == Len(s) + 1
<1>3. p \in 1 .. Len(s) + 1 /\ Point("ListItrEnd", CellAt(s, p)) /\ p = Len(Data) + 1
  BY <1>2 DEF ListItrEnd
<1> HIDE DEF p
<1>4. ListInv' /\ list' = TRUE /\ Data' = Data /\ Place' = p /\ yielded' = <<"ListItrEnd", "itr">>
  BY <1>2, <1>3, PointShows
<1> QED
  BY <1>2, <1>3, <1>4 DEF D!GoEnd, D!GoTo, D!Answers, D!End

\* ListItrNext goes on by one, and stays at the end.
LEMMA NextIs ==
  ASSUME ListInv, ListItrNext
  PROVE  ListInv' /\ D!GoNext
<1>1. PICK s : Showing(s) /\ itr # NoCell
  BY CellAtHand DEF ListItrNext
<1> DEFINE q == IF Place = Len(s) + 1 THEN Place ELSE Place + 1
<1>2. /\ Holds(cells, s) /\ list = TRUE /\ Len(s) \in Nat /\ Len(Data) = Len(s)
      /\ \A k \in 1 .. Len(s) : cells[CellAt(s, k)].m_next = CellAt(s, k + 1)
  BY <1>1, Links, ShownIs DEF Showing
<1>3. Place \in 1 .. Len(s) + 1 /\ CellAt(s, Place) = itr /\ (AtEnd <=> Place = Len(s) + 1)
  BY <1>1, ItrIs
<1>4. q \in 1 .. Len(s) + 1
  BY <1>2, <1>3
<1>5. Point("ListItrNext", CellAt(s, q))
  <2>1. CASE Place = Len(s) + 1
    BY <1>3, <2>1 DEF ListItrNext
  <2>2. CASE Place \in 1 .. Len(s)
    <3>1. q = Place + 1 /\ ~AtEnd
      BY <1>2, <1>3, <2>2
    <3>2. cells[itr].m_next = CellAt(s, Place + 1)
      BY <1>2, <1>3, <2>2
    <3> QED
      BY <3>1, <3>2 DEF ListItrNext
  <2> QED
    BY <1>2, <1>3, <2>1, <2>2
<1>6. q = (IF Place = Len(Data) + 1 THEN Place ELSE Place + 1) /\ Place # 0
  BY <1>2, <1>3
<1> HIDE DEF q
<1>7. ListInv' /\ list' = TRUE /\ Data' = Data /\ Place' = q /\ yielded' = <<"ListItrNext", "itr">>
  BY <1>2, <1>4, <1>5, PointShows
<1> QED
  BY <1>2, <1>6, <1>7 DEF D!GoNext, D!GoTo, D!Answers, D!End

\* ListItrPrev goes back by one, and stays at the first.
LEMMA PrevIs ==
  ASSUME ListInv, ListItrPrev
  PROVE  ListInv' /\ D!GoPrev
<1>1. PICK s : Showing(s) /\ itr # NoCell
  BY CellAtHand DEF ListItrPrev
<1> DEFINE q == IF Place = 1 THEN Place ELSE Place - 1
<1>2. /\ Holds(cells, s) /\ list = TRUE /\ Len(s) \in Nat
      /\ \A k \in 2 .. Len(s) + 1 : cells[CellAt(s, k)].m_prev = CellAt(s, k - 1)
  BY <1>1, Links DEF Showing
<1>3. Place \in 1 .. Len(s) + 1 /\ CellAt(s, Place) = itr /\ (AtBegin <=> Place = 1)
  BY <1>1, ItrIs
<1>4. q \in 1 .. Len(s) + 1
  BY <1>2, <1>3
<1>5. Point("ListItrPrev", CellAt(s, q))
  <2>1. CASE Place = 1
    BY <1>3, <2>1 DEF ListItrPrev
  <2>2. CASE Place \in 2 .. Len(s) + 1
    <3>1. q = Place - 1 /\ ~AtBegin
      BY <1>2, <1>3, <2>2
    <3>2. cells[itr].m_prev = CellAt(s, Place - 1)
      BY <1>2, <1>3, <2>2
    <3> QED
      BY <3>1, <3>2 DEF ListItrPrev
  <2> QED
    BY <1>2, <1>3, <2>1, <2>2
<1>6. q = (IF Place > 1 THEN Place - 1 ELSE Place) /\ Place # 0
  BY <1>2, <1>3
<1> HIDE DEF q
<1>7. ListInv' /\ list' = TRUE /\ Data' = Data /\ Place' = q /\ yielded' = <<"ListItrPrev", "itr">>
  BY <1>2, <1>4, <1>5, PointShows
<1> QED
  BY <1>2, <1>6, <1>7 DEF D!GoPrev, D!GoTo, D!Answers
\* What the iterator gives.
LEMMA CurrentIs ==
  ASSUME NEW s, Showing(s), itr # NoCell
  PROVE  Current = D!Here
<1>1. /\ list = TRUE /\ DOMAIN Data = 1 .. Len(s) /\ Len(s) \in Nat
  BY ShownIs, Links DEF Showing
<1>2. /\ Place \in 1 .. Len(s) + 1 /\ (AtEnd <=> Place = Len(s) + 1)
      /\ Place \in 1 .. Len(s) => Data[Place] = cells[itr].m_data
  BY ItrIs
<1>3. CASE Place = Len(s) + 1
  <2>1. Place \notin DOMAIN Data
    BY <1>1, <1>3
  <2> QED
    BY <1>1, <1>2, <1>3, <2>1 DEF Current, D!Here
<1>4. CASE Place \in 1 .. Len(s)
  <2>1. Place \in DOMAIN Data /\ ~AtEnd
    BY <1>1, <1>2, <1>4
  <2> QED
    BY <1>1, <1>2, <1>4, <2>1 DEF Current, D!Here
<1> QED
  BY <1>1, <1>2, <1>3, <1>4

\* ListItrGet answers it.
LEMMA GetIs ==
  ASSUME ListInv, ListItrGet
  PROVE  ListInv' /\ D!Get
<1>1. PICK s : Showing(s) /\ itr # NoCell
  BY CellAtHand DEF ListItrGet
<1>2. Current = D!Here /\ Place # 0
  <2>1. Place \in 1 .. Len(s) + 1 /\ Len(s) \in Nat
    BY <1>1, ItrIs, Links DEF Showing
  <2> QED
    BY <1>1, <2>1, CurrentIs
<1>3. ListInv' /\ D!Keep
  BY OnlyAnswers DEF ListItrGet
<1> QED
  BY <1>2, <1>3 DEF ListItrGet, Yields, D!Get, D!Answers

\* A cell with other data.
Changed(mem, c, x) == [mem EXCEPT ![c].m_data = x]

\* Other data in the cell at the place p.
LEMMA DataChanges ==
  ASSUME NEW mem, NEW s, Holds(mem, s), NEW p \in 1 .. Len(s), NEW x \in Contents,
         NEW m, m = Changed(mem, CellAt(s, p), x)
  PROVE  Holds(m, s) /\ DataOf(m, s) = [DataOf(mem, s) EXCEPT ![p] = x]
<1> DEFINE n == Len(s)
           e == Row(s, "head", "tail")
           c == CellAt(s, p)
<1>0. /\ n \in Nat /\ DOMAIN s = 1 .. n /\ \A k \in 1 .. n : e[k] = s[k]
      /\ \A k \in 0 .. n + 1 : e[k] \in DOMAIN mem
      /\ \A j, k \in 0 .. n + 1 : e[j] = e[k] => j = k
  <2>0. s \in Seq(Cells)
    BY DEF Holds
  <2>1. n \in Nat /\ DOMAIN s = 1 .. n /\ \A k \in 1 .. n : e[k] = s[k]
    BY <2>0, LenProperties, RowIs
  <2>2. \A k \in 0 .. n + 1 : e[k] \in DOMAIN mem
    BY ListRow
  <2>3. \A j, k \in 0 .. n + 1 : e[j] = e[k] => j = k
    BY ListRow
  <2> QED
    BY <2>1, <2>2, <2>3
<1>1. s \in Seq(Cells) /\ n \in Nat /\ DOMAIN s = 1 .. n
  BY <1>0 DEF Holds
<1>2. /\ IsMemory(mem, Contents, Pointers) /\ LinkedRow(mem, e, n)
      /\ DOMAIN mem = {"head", "tail"} \cup ToSet(s)
      /\ mem["head"].m_prev = NoCell /\ mem["tail"].m_next = NoCell
  BY DEF Holds
<1>3. c = s[p] /\ c \in DOMAIN mem /\ \A k \in 1 .. n : s[k] = c => k = p
  <2>1. \A k \in 1 .. n : k \in 0 .. n + 1
    BY <1>1
  <2>2. c = e[p]
    BY DEF CellAt
  <2> HIDE DEF e, c
  <2>3. p \in 1 .. n
    OBVIOUS
  <2> QED
    BY <1>0, <2>1, <2>2, <2>3
<1> HIDE DEF n, e, c
<1> DEFINE N == [m_data : Contents, m_next : Pointers, m_prev : Pointers]
           Q == DOMAIN mem
           y == [mem[c] EXCEPT !.m_data = x]
<1>4. mem \in [Q -> N] /\ c \in Q /\ mem[c] \in N
  BY <1>2, <1>3 DEF IsMemory
<1>5. y \in N /\ y.m_data = x /\ y.m_next = mem[c].m_next /\ y.m_prev = mem[c].m_prev
  BY <1>4
<1>6. m = [mem EXCEPT ![c] = y]
  BY DEF Changed, c
<1> HIDE DEF N, Q, y
<1>7. m \in [Q -> N] /\ m[c] = y /\ \A d \in Q : d # c => m[d] = mem[d]
  BY <1>4, <1>5, <1>6
<1>8. \A d \in Q : m[d].m_next = mem[d].m_next /\ m[d].m_prev = mem[d].m_prev
  BY <1>5, <1>7
<1>9. m[c].m_data = x /\ \A d \in Q : d # c => m[d].m_data = mem[d].m_data
  BY <1>5, <1>7
<1>10. DOMAIN m = DOMAIN mem
  BY <1>7 DEF Q
<1>11. IsMemory(m, Contents, Pointers)
  BY <1>2, <1>7, <1>10 DEF IsMemory, N, Q
<1>12. LinkedRow(m, e, n)
  <2>1. \A k \in 0 .. n : k \in 0 .. n + 1 /\ k + 1 \in 0 .. n + 1
    BY <1>1
  <2>2. \A k \in 0 .. n : m[e[k]].m_next = mem[e[k]].m_next /\ m[e[k + 1]].m_prev = mem[e[k + 1]].m_prev
    BY <1>0, <1>8, <2>1 DEF Q
  <2> QED
    BY <1>2, <1>10, <2>2 DEF LinkedRow
<1>13. "head" \in DOMAIN mem /\ "tail" \in DOMAIN mem
  BY <1>2
<1>14. Holds(m, s)
  <2>1. m["head"].m_prev = NoCell /\ m["tail"].m_next = NoCell
    BY <1>2, <1>8, <1>13 DEF Q
  <2>2. DOMAIN m = {"head", "tail"} \cup ToSet(s)
    BY <1>2, <1>10
  <2> QED
    BY <1>1, <1>11, <1>12, <2>1, <2>2 DEF Holds, n, e
<1>15. DataOf(m, s) = [DataOf(mem, s) EXCEPT ![p] = x]
  <2>1. \A k \in 1 .. n : s[k] \in DOMAIN mem
    BY <1>1, <1>2 DEF ToSet
  <2>2. ASSUME NEW k \in 1 .. n
        PROVE  m[s[k]].m_data = IF k = p THEN x ELSE mem[s[k]].m_data
    <3>1. s[k] \in DOMAIN mem /\ (s[k] = c <=> k = p)
      BY <1>3, <2>1
    <3> QED
      BY <1>9, <3>1 DEF Q
  <2> QED
    BY <1>1, <2>2 DEF DataOf, n
<1> QED
  BY <1>14, <1>15

\* ListItrSet changes it, and answers what was there.
LEMMA SetIs ==
  ASSUME ListInv, NEW x \in Contents, ListItrSet(x)
  PROVE  ListInv' /\ D!Set(x)
<1>1. /\ HasItr /\ yielded' = <<"ListItrSet", Current>> /\ list' = list /\ itr' = itr
      /\ cells' = IF AtEnd THEN cells ELSE [cells EXCEPT ![itr].m_data = x]
  BY DEF ListItrSet, Yields
<1>2. PICK s : Showing(s) /\ itr # NoCell
  BY <1>1, CellAtHand
<1>3. /\ Holds(cells, s) /\ Points(itr, s) /\ list = TRUE /\ Len(s) \in Nat /\ Len(Data) = Len(s)
      /\ Place = PlaceIn(s, itr) /\ Data = DataOf(cells, s)
  BY <1>2, Links, ShownIs, ShownNow DEF Showing
<1>4. Place \in 1 .. Len(s) + 1 /\ CellAt(s, Place) = itr /\ (AtEnd <=> Place = Len(s) + 1)
  BY <1>2, ItrIs
<1>5. Current = D!Here
  BY <1>2, CurrentIs
<1>6. CASE Place = Len(s) + 1
  <2>1. UNCHANGED <<list, cells, itr>>
    BY <1>1, <1>4, <1>6
  <2>2. ListInv' /\ Data' = Data /\ Place' = Place
    BY <2>1, SameShown
  <2>3. Place # 0 /\ Place = Len(Data) + 1
    BY <1>3, <1>6
  <2> QED
    BY <1>1, <1>3, <1>5, <2>2, <2>3 DEF D!Set, D!Answers, D!End
<1>7. CASE Place \in 1 .. Len(s)
  <2> DEFINE p == Place
  <2>1. p \in 1 .. Len(s) /\ p # Len(Data) + 1 /\ p # 0 /\ ~AtEnd
    BY <1>3, <1>4, <1>7
  <2>2. cells' = Changed(cells, CellAt(s, p), x)
    BY <1>1, <1>4, <2>1 DEF Changed
  <2> HIDE DEF p
  <2>3. Holds(cells', s) /\ DataOf(cells', s) = [DataOf(cells, s) EXCEPT ![p] = x]
    BY <1>3, <2>1, <2>2, DataChanges
  <2>4. Data' = [Data EXCEPT ![p] = x] /\ Place' = Place
    <3>1. Data' = DataOf(cells', s) /\ Place' = PlaceIn(s, itr')
      BY <2>3, ShownNext
    <3> QED
      BY <1>1, <1>3, <2>3, <3>1
  <2>5. ListInv'
    <3>1. list' \in BOOLEAN /\ list' = TRUE
      BY <1>1, <1>3, Zenon DEF ListInv
    <3> QED
      BY <1>1, <1>3, <2>3, <3>1 DEF ListInv
  <2> QED
    BY <1>1, <1>3, <1>5, <2>1, <2>4, <2>5 DEF p, D!Set, D!Answers, D!End
<1> QED
  BY <1>3, <1>4, <1>6, <1>7

\* The walk of a for-each.
LEMMA ForEachIs ==
  ASSUME ListInv, NEW x \in Contents, ListItrForEach(x)
  PROVE  ListInv' /\ D!StopAt(x)
<1> DEFINE hits == {k \in DOMAIN Data : Data[k] = x}
<1>1. PICK s : Showing(s)
  BY CellsAtHand DEF ListItrForEach
<1>2. /\ Holds(cells, s) /\ list = TRUE /\ Len(s) \in Nat /\ DOMAIN s = 1 .. Len(s)
      /\ CellAt(s, Len(s) + 1) = "tail" /\ Len(Data) = Len(s) /\ DOMAIN Data = 1 .. Len(s)
      /\ \A k \in 1 .. Len(s) : CellAt(s, k) = s[k] /\ Data[k] = cells[CellAt(s, k)].m_data
  BY <1>1, Links, ShownIs DEF Showing
<1>3. hits = {k \in DOMAIN s : cells[s[k]].m_data = x}
  BY <1>2
<1>4. Point("ListItrForEach", IF hits = {} THEN "tail" ELSE s[Min(hits)])
  <2>1. Chain(cells, "head", "tail") = s
    BY <1>2, ListChain
  <2> QED
    BY <1>3, <2>1 DEF ListItrForEach
<1>5. hits = D!Hits(x)
  BY <1>2 DEF D!Hits
<1>6. hits # {} => Min(hits) \in 1 .. Len(s) /\ D!Min(hits) = Min(hits)
  <2>1. hits \subseteq Nat /\ hits \subseteq 1 .. Len(s)
    BY <1>2
  <2> HIDE DEF hits
  <2>2. hits # {} => Min(hits) \in hits
    BY <2>1, SmallestIs DEF Min
  <2>3. D!Min(hits) = Min(hits)
    BY DEF Min, D!Min
  <2> QED
    BY <2>1, <2>2, <2>3
<1> HIDE DEF hits
<1> DEFINE q == IF hits = {} THEN Len(s) + 1 ELSE Min(hits)
<1>7. q \in 1 .. Len(s) + 1 /\ q = IF D!Hits(x) = {} THEN Len(Data) + 1 ELSE D!Min(D!Hits(x))
  BY <1>2, <1>5, <1>6
<1>8. Point("ListItrForEach", CellAt(s, q))
  BY <1>2, <1>4, <1>6
<1>9. Holds(cells, s) /\ list = TRUE
  BY <1>2
<1>10. q \in 1 .. Len(s) + 1
  BY <1>7
<1> HIDE DEF q
<1>11. ListInv' /\ list' = TRUE /\ Data' = Data /\ Place' = q /\ yielded' = <<"ListItrForEach", "itr">>
  BY <1>8, <1>9, <1>10, PointShows
<1> QED
  BY <1>2, <1>7, <1>11 DEF D!StopAt, D!GoTo, D!Answers, D!End

\* ListSize counts the elements.
LEMMA SizeIs ==
  ASSUME ListInv, ListSize
  PROVE  ListInv' /\ D!Count
<1>1. ListInv' /\ D!Keep
  BY OnlyAnswers DEF ListSize
<1>2. (IF list THEN Len(Data) ELSE 0) = Len(IF list THEN Data ELSE << >>)
  OBVIOUS
<1> QED
  BY <1>1, <1>2 DEF ListSize, Yields, D!Count, D!Answers

\* There is no first element exactly when the first link leads to the tail.
LEMMA IsEmptyIs ==
  ASSUME ListInv, ListIsEmpty
  PROVE  ListInv' /\ D!AskEmpty
<1>1. ListInv' /\ D!Keep
  BY OnlyAnswers DEF ListIsEmpty
<1>2. IsEmpty <=> (IF list THEN Data ELSE << >>) = << >>
  <2>1. CASE ~list
    BY <2>1 DEF IsEmpty
  <2>2. CASE list
    <3>1. PICK s : Showing(s)
      BY <2>2, CellsAtHand
    <3>2. /\ Len(s) \in Nat /\ cells["head"].m_next = CellAt(s, 1) /\ CellAt(s, Len(s) + 1) = "tail"
          /\ \A k \in 1 .. Len(s) : CellAt(s, k) # "tail"
          /\ Data \in Seq(Contents) /\ Len(Data) = Len(s)
      BY <3>1, Links, ShownIs DEF Showing
    <3>3. CASE Len(s) = 0
      <4>1. CellAt(s, 1) = "tail"
        BY <3>2, <3>3
      <4>2. Data = << >>
        BY <3>2, <3>3
      <4> QED
        BY <2>2, <3>2, <4>1, <4>2 DEF IsEmpty
    <3>4. CASE Len(s) # 0
      <4>1. 1 \in 1 .. Len(s)
        BY <3>2, <3>4
      <4>2. Data # << >>
        BY <3>2, <3>4
      <4> QED
        BY <2>2, <3>2, <4>1, <4>2 DEF IsEmpty
    <3> QED
      BY <3>3, <3>4
  <2> QED
    BY <2>1, <2>2
<1> QED
  BY <1>1, <1>2 DEF ListIsEmpty, Yields, D!AskEmpty, D!Answers
\* A new list has no elements.
LEMMA NewHolds ==
  ASSUME NEW m, m = NewList(<< >>, "head", "tail")
  PROVE  Holds(m, << >>) /\ DataOf(m, << >>) = << >>
<1> DEFINE none == << >>
           e == Row(none, "head", "tail")
<1>1. IsMemory(none, Contents, Pointers) /\ DOMAIN none = {}
  BY DEF IsMemory
<1>2. /\ NoCell \in Contents \cap Pointers /\ "head" # "tail"
      /\ "head" \in Pointers \ DOMAIN none /\ "tail" \in Pointers \ DOMAIN none
  BY <1>1 DEF Contents, Pointers
<1>3. none \in Seq(Cells) /\ Len(none) = 0 /\ ToSet(none) = {} /\ DataOf(m, none) = none
  BY DEF ToSet, DataOf
<1> HIDE DEF none
<1>4. /\ IsMemory(m, Contents, Pointers) /\ (\A c : c \in DOMAIN m <=> c \in DOMAIN none \/ c = "head" \/ c = "tail")
      /\ m["head"].m_next = "tail" /\ m["head"].m_prev = NoCell
      /\ m["tail"].m_next = NoCell /\ m["tail"].m_prev = "head"
  <2>1. m = NewList(none, "head", "tail")
    BY DEF none
  <2> QED
    BY <1>1, <1>2, <2>1, NewCells
<1>5. DOMAIN m = {"head", "tail"} \cup ToSet(none)
  BY <1>1, <1>3, <1>4
<1>6. LinkedRow(m, e, 0)
  <2>1. e = [k \in 0 .. 1 |-> IF k = 0 THEN "head" ELSE "tail"]
    <3>1. \A k \in 0 .. 1 : k = 0 \/ k = 1
      OBVIOUS
    <3>2. e = [k \in 0 .. 1 |-> IF k = 0 THEN "head" ELSE IF k = 1 THEN "tail" ELSE none[k]]
      BY <1>3 DEF Row
    <3> QED
      BY <3>1, <3>2
  <2> HIDE DEF e
  <2>2. e \in [0 .. 1 -> DOMAIN m] /\ e[0] = "head" /\ e[1] = "tail"
    BY <1>5, <2>1
  <2>3. \A j, k \in 0 .. 1 : e[j] = e[k] => j = k
    BY <2>2
  <2>4. \A k \in 0 .. 0 : m[e[k]].m_next = e[k + 1] /\ m[e[k + 1]].m_prev = e[k]
    BY <1>4, <2>2
  <2> QED
    BY <2>2, <2>3, <2>4 DEF LinkedRow
<1>7. Holds(m, none)
  BY <1>3, <1>4, <1>5, <1>6 DEF Holds
<1> QED
  BY <1>3, <1>7 DEF none

\* ListCreate makes an empty list, or fails.
LEMMA CreateIs ==
  ASSUME ListInv, ListCreate
  PROVE  ListInv' /\ D!Make
<1>1. ~list /\ itr' = itr /\ itr = NoCell
  BY DEF ListCreate, ListInv
<1>2. CASE yielded' = <<"ListCreate", "failed">> /\ UNCHANGED <<list, cells>>
  <2>1. ListInv' /\ D!Keep
    BY <1>1, <1>2, OnlyAnswers
  <2>2. list' = FALSE
    BY <1>1, <1>2, Zenon DEF ListInv
  <2> QED
    BY <1>1, <1>2, <2>1, <2>2 DEF D!Make, D!Answers, D!Keep
<1>3. CASE yielded' = <<"ListCreate", "ok">> /\ list' = TRUE /\ cells' = NewList(<< >>, "head", "tail")
  <2> DEFINE none == << >>
  <2>1. Holds(cells', none) /\ DataOf(cells', none) = none
    BY <1>3, NewHolds
  <2>2. Data' = none /\ Place' = PlaceIn(none, itr')
    BY <2>1, ShownNext
  <2> HIDE DEF none
  <2>3. Place' = 0 /\ Place = 0 /\ Points(itr', none)
    BY <1>1, <2>2 DEF PlaceIn, Place, Points
  <2>4. list' \in BOOLEAN
    BY <1>3, Zenon
  <2>5. ListInv'
    BY <1>3, <2>1, <2>3, <2>4 DEF ListInv
  <2> QED
    BY <1>1, <1>3, <2>2, <2>3, <2>5 DEF D!Make, D!Answers, none
<1> QED
  BY <1>2, <1>3 DEF ListCreate, Yields

\* ListDestroy hands over every element and leaves nothing.
LEMMA DestroyIs ==
  ASSUME ListInv, ListDestroy
  PROVE  ListInv' /\ D!Drop
<1>1. /\ list /\ list' = FALSE /\ cells' = << >> /\ itr' = NoCell
      /\ yielded' = <<"ListDestroy", [k \in {j \in DOMAIN Data : Data[j] # NoCell} |-> Data[k]]>>
  BY DEF ListDestroy, Yields
<1>2. Place' = 0
  BY <1>1 DEF Place
<1>3. list' \in BOOLEAN
  BY <1>1, Zenon
<1>4. ListInv'
  BY <1>1, <1>3 DEF ListInv
<1> QED
  BY <1>1, <1>2, <1>4 DEF D!Drop, D!Answers

-----------------------------------------------------------------------------
(***************************************************************************)
(* The theorems.                                                           *)
(***************************************************************************)
\* Before there is a list.
LEMMA ListStart ==
  ASSUME ListInit
  PROVE  ListInv /\ D!DequeInit
<1>1. list \in BOOLEAN
  BY Zenon DEF ListInit
<1>2. ListInv /\ Place = 0
  BY <1>1 DEF ListInit, ListInv, Place
<1> QED
  BY <1>2 DEF ListInit, D!DequeInit

\* Every step keeps the invariant and is a step of the sequence, or none.
LEMMA ListStep ==
  ASSUME ListInv, [ListNext]_listvars
  PROVE  ListInv' /\ [D!DequeNext]_(D!dequevars)
<1>1. CASE ListCreate
  BY <1>1, CreateIs DEF D!DequeNext
<1>2. CASE ListDestroy
  BY <1>2, DestroyIs DEF D!DequeNext
<1>3. CASE ListPopHead
  BY <1>3, PopHeadIs DEF D!DequeNext
<1>4. CASE ListPopTail
  BY <1>4, PopTailIs DEF D!DequeNext
<1>5. CASE ListItrRemove
  BY <1>5, ItrRemoveIs DEF D!DequeNext
<1>6. CASE ListItrBegin \/ ListItrEnd \/ ListItrNext \/ ListItrPrev
  BY <1>6, BeginIs, EndIs, NextIs, PrevIs DEF D!DequeNext
<1>7. CASE ListItrGet \/ ListSize \/ ListIsEmpty
  BY <1>7, GetIs, SizeIs, IsEmptyIs DEF D!DequeNext
<1>8. ASSUME NEW x \in Contents, ListPushHead(x)
      PROVE  ListInv' /\ D!DequeNext
  BY <1>8, PushHeadIs DEF D!DequeNext, Contents
<1>9. ASSUME NEW x \in Contents, ListPushTail(x)
      PROVE  ListInv' /\ D!DequeNext
  BY <1>9, PushTailIs DEF D!DequeNext, Contents
<1>10. ASSUME NEW x \in Contents, ListItrSet(x)
       PROVE  ListInv' /\ D!DequeNext
  BY <1>10, SetIs DEF D!DequeNext, Contents
<1>11. ASSUME NEW x \in Contents, ListItrInsertBefore(x)
       PROVE  ListInv' /\ D!DequeNext
  BY <1>11, InsertBeforeIs DEF D!DequeNext, Contents
<1>12. ASSUME NEW x \in Contents, ListItrForEach(x)
       PROVE  ListInv' /\ D!DequeNext
  BY <1>12, ForEachIs DEF D!DequeNext, Contents
<1>13. CASE UNCHANGED listvars
  <2>1. UNCHANGED <<list, cells, itr>> /\ yielded' = yielded
    BY <1>13 DEF listvars
  <2> QED
    BY <2>1, SameShown DEF D!dequevars
<1> QED
  BY <1>1, <1>2, <1>3, <1>4, <1>5, <1>6, <1>7, <1>8, <1>9, <1>10, <1>11, <1>12, <1>13
  DEF ListNext, Contents

\* The cells of a list are a chain of different cells from the head to the tail, linked
\* both ways, nothing else is allocated for it, and the caller's iterator is in it or at
\* its end, however the list is filled, emptied and changed under the iterator.
THEOREM ListInvariant == ListSpec => []ListInv
BY ListStart, ListStep, PTL DEF ListSpec

\* The linked list of gen_dlist.c implements the sequence that gen_dlist.h promises, with
\* the iterator staying on its element, for every set of data and of cells.
THEOREM ListImplementsDeque == ListSpec => ListRefinement
BY ListStart, ListStep, PTL DEF ListSpec, ListRefinement, D!DequeSpec
=============================================================================
