-------------------------------- MODULE Array --------------------------------
(***************************************************************************)
(* What vector.h promises: a sequence that grows and shrinks at its back,  *)
(* in room that is enlarged and given back in steps.  No memory.           *)
(*                                                                         *)
(* Where the header and the code, or two sentences of the header, disagree *)
(* about a result, both are allowed and nothing is claimed of it: the code *)
(* of a removal that keeps its room (vector.h:12), and the number that a   *)
(* for-each returns when it is stopped (vector.h:108).                     *)
(***************************************************************************)
EXTENDS Naturals, Sequences, SequencesExt

CONSTANTS
  Items,
  Numbers  \* the sizes and indices of its callers, naturals

VARIABLES
  exists,  \* whether there is an array
  items,   \* its items
  room,    \* how many it has room for
  least,   \* the room it began with
  step,    \* by how much it grows; 0 when its size is fixed
  answer   \* what the last call returned

arrayvars == <<exists, items, room, least, step, answer>>

Answers(a) == answer' = a
Keep == UNCHANGED <<exists, items, room, least, step>>
Refuse(code) == Answers(<<code>>) /\ Keep

Make(n, k) ==
  /\ ~exists
  /\ \/ Refuse("NULL")
     \/ /\ n + k > 0
        /\ exists' = TRUE /\ items' = << >> /\ room' = n /\ least' = n /\ step' = k
        /\ Answers(<<"created">>)

Drop ==
  /\ exists
  /\ exists' = FALSE /\ items' = << >> /\ room' = 0 /\ least' = 0 /\ step' = 0
  /\ Answers(<<"destroyed", items>>)

\* An append fails only when there is no room, and then costs nothing.
Push(x) ==
  /\ exists
  /\ \/ Len(items) = room /\ Refuse("VECTOR_ALLOCATION_ERROR")
     \/ /\ Len(items) < room \/ step > 0
        /\ items' = Append(items, x)
        /\ room' = IF Len(items) = room THEN room + step ELSE room
        /\ Answers(<<"VECTOR_SUCCESS">>)
        /\ UNCHANGED <<exists, least, step>>

\* Room that is given back leaves the array no smaller than it began, and with a whole
\* step to spare: what is appended next does not ask for it again.
Smaller(n) == {r \in least .. room - 1 : step > 0 /\ r - n >= step}

\* The last item is handed out and gone in any case.  Room that could be given back may
\* be kept because a realloc failed: an error by vector.h:12 ("realloc error on
\* grow/shrink"), a success in the code.
RemoveLast ==
  /\ exists
  /\ \/ items = << >> /\ Refuse("VECTOR_INDEX_OUT_OF_BOUNDS_ERROR")
     \/ /\ items # << >>
        /\ items' = Front(items)
        /\ \/ room' = room /\ Answers(<<"VECTOR_SUCCESS", Last(items)>>)
           \/ room' \in Smaller(Len(items')) /\ Answers(<<"VECTOR_SUCCESS", Last(items)>>)
           \/ /\ room' = room /\ Smaller(Len(items')) # {}
              /\ Answers(<<"VECTOR_ALLOCATION_ERROR", Last(items)>>)
        /\ UNCHANGED <<exists, least, step>>

At(i) == IF i < Len(items) THEN <<"VECTOR_SUCCESS", items[i + 1]>>
                           ELSE <<"VECTOR_INDEX_OUT_OF_BOUNDS_ERROR">>
Get(i) == exists /\ Answers(At(i)) /\ Keep
Set(i, x) ==
  /\ exists
  /\ Answers(<<At(i)[1]>>)
  /\ items' = IF i < Len(items) THEN [items EXCEPT ![i + 1] = x] ELSE items
  /\ UNCHANGED <<exists, room, least, step>>

\* Calls without an array are told so, or find nothing.
Without == ~exists /\ (Refuse("VECTOR_UNITIALIZED_ERROR") \/ (Answers(<<"count", 0>>) /\ Keep))

Count == exists /\ (\E n \in {Len(items), room} : Answers(<<"count", n>>)) /\ Keep

\* A for-each that no item stops tells how many there are.  One that stops at the first
\* x tells how many it passed, or, by the other sentence, how many it was called for.
Hits(x) == {i \in 1 .. Len(items) : items[i] = x}
StopAt(x) ==
  /\ exists
  /\ \E n \in IF Hits(x) = {} THEN {Len(items)} ELSE {Min(Hits(x)) - 1, Min(Hits(x))} :
       Answers(<<"count", n>>)
  /\ Keep

ArrayInit ==
  /\ exists = FALSE /\ items = << >> /\ room = 0 /\ least = 0 /\ step = 0
  /\ answer = <<"none">>

ArrayNext ==
  \/ \E n, k \in Numbers : Make(n, k)
  \/ Drop \/ RemoveLast \/ Without \/ Count
  \/ \E i \in Numbers : Get(i) \/ \E x \in Items : Set(i, x)
  \/ \E x \in Items : Push(x) \/ StopAt(x)

ArraySpec == ArrayInit /\ [][ArrayNext]_arrayvars
=============================================================================
