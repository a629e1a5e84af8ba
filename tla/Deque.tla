------------------------------- MODULE Deque -------------------------------
(***************************************************************************)
(* What gen_dlist.h promises: a sequence that is filled and emptied at     *)
(* both ends, and an iterator that stays on its element whatever is pushed *)
(* or popped around it.  No cells, no links.                               *)
(***************************************************************************)
EXTENDS Naturals, Sequences, SequencesExt

CONSTANTS Items, Null

VARIABLES
  exists,  \* whether there is a list
  items,   \* its data
  at,      \* where the caller's iterator is: 0 nowhere, Len(items) + 1 at the end
  answer   \* the last call and what it returned

dequevars == <<exists, items, at, answer>>

End == Len(items) + 1
Answers(call, a) == answer' = <<call, a>>
Keep == UNCHANGED <<exists, items, at>>

\* The iterator follows its element; one that loses it is nowhere.
Shift(n) == at' = IF at = 0 THEN 0 ELSE at + n
Leaves(k) == at' = IF at = k THEN 0 ELSE IF at > k THEN at - 1 ELSE at

Make ==
  /\ ~exists
  /\ \/ exists' = TRUE /\ Answers("ListCreate", "ok")
     \/ exists' = FALSE /\ Answers("ListCreate", "failed")
  /\ UNCHANGED <<items, at>>

Drop ==
  /\ exists
  /\ Answers("ListDestroy", [k \in {j \in DOMAIN items : items[j] # Null} |-> items[k]])
  /\ exists' = FALSE /\ items' = << >> /\ at' = 0

\* Anything that needs a cell may fail, and then changes nothing.
Failed(call) == Answers(call, "failed") /\ Keep

PushHead(x) ==
  \/ Failed("ListPushHead")
  \/ /\ exists
     /\ Answers("ListPushHead", "ok")
     /\ items' = <<x>> \o items
     /\ Shift(1)
     /\ UNCHANGED exists
PushTail(x) ==
  \/ Failed("ListPushTail")
  \/ /\ exists
     /\ Answers("ListPushTail", "ok")
     /\ items' = Append(items, x)
     /\ Shift(IF at = End THEN 1 ELSE 0)
     /\ UNCHANGED exists

\* Taking the element at k, if there is one.
Take(call, k) ==
  \/ k \notin DOMAIN items /\ Answers(call, Null) /\ Keep
  \/ /\ k \in DOMAIN items
     /\ Answers(call, items[k])
     /\ items' = RemoveAt(items, k)
     /\ Leaves(k)
     /\ UNCHANGED exists

PopHead == Take("ListPopHead", 1)
PopTail == Take("ListPopTail", Len(items))
TakeHere == at # 0 /\ Take("ListItrRemove", at)

GoTo(call, k) == at' = k /\ Answers(call, "itr") /\ UNCHANGED <<exists, items>>

GoBegin == exists /\ GoTo("ListItrBegin", 1)
GoEnd == exists /\ GoTo("ListItrEnd", End)
GoNext == at # 0 /\ GoTo("ListItrNext", IF at = End THEN at ELSE at + 1)
GoPrev == at # 0 /\ GoTo("ListItrPrev", IF at > 1 THEN at - 1 ELSE at)

Here == IF at \in DOMAIN items THEN items[at] ELSE Null
Get == at # 0 /\ Answers("ListItrGet", Here) /\ Keep
Set(x) ==
  /\ at # 0
  /\ Answers("ListItrSet", Here)
  /\ items' = IF at = End THEN items ELSE [items EXCEPT ![at] = x]
  /\ UNCHANGED <<exists, at>>

InsertHere(x) ==
  /\ at # 0
  /\ \/ Failed("ListItrInsertBefore")
     \/ /\ Answers("ListItrInsertBefore", "ok")
        /\ items' = InsertAt(items, at, x)
        /\ UNCHANGED <<exists, at>>

Count == Answers("ListSize", Len(items)) /\ Keep
AskEmpty == Answers("ListIsEmpty", items = << >>) /\ Keep

\* A for-each from the beginning that stops at the first x.
Hits(x) == {k \in DOMAIN items : items[k] = x}
StopAt(x) ==
  exists /\ GoTo("ListItrForEach", IF Hits(x) = {} THEN End ELSE Min(Hits(x)))

DequeInit == exists = FALSE /\ items = << >> /\ at = 0 /\ answer = <<"none">>

DequeNext ==
  \/ Make \/ Drop \/ PopHead \/ PopTail \/ TakeHere
  \/ GoBegin \/ GoEnd \/ GoNext \/ GoPrev \/ Get \/ Count \/ AskEmpty
  \/ \E x \in Items \cup {Null} :
       PushHead(x) \/ PushTail(x) \/ Set(x) \/ InsertHere(x) \/ StopAt(x)

DequeSpec == DequeInit /\ [][DequeNext]_dequevars
=============================================================================
