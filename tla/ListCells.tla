----------------------------- MODULE ListCells -----------------------------
(***************************************************************************)
(* The doubly linked cells of gen_dlist.c and the helpers through which    *)
(* every operation on a list goes.  A list is two sentinel cells; the      *)
(* memory is a function from the allocated cells to their contents, so     *)
(* that a cell that was freed cannot be read.                              *)
(***************************************************************************)
EXTENDS Naturals, Sequences, FiniteSets

CONSTANT NoCell   \* NULL, as a pointer and as data

\* What the memory f is when x holds y, which is new or not.
With(f, x, y) == [z \in DOMAIN f \cup {x} |-> IF z = x THEN y ELSE f[z]]

Node(data, next, prev) == [m_data |-> data, m_next |-> next, m_prev |-> prev]

\* ListCreate, once malloc has succeeded.
NewList(mem, head, tail) ==
  With(With(mem, head, Node(NoCell, tail, NoCell)), tail, Node(NoCell, NoCell, head))

\* Seeded fault: the cell after the new one keeps its way back.
InsertNodeBefore_OneWay(mem, next, new, item) ==
  LET prev == mem[next].m_prev
  IN  With([mem EXCEPT ![prev].m_next = new], new, Node(item, next, prev))

InsertNodeBefore(mem, next, new, item) ==
  LET prev == mem[next].m_prev
  IN  With([mem EXCEPT ![prev].m_next = new, ![next].m_prev = new], new, Node(item, next, prev))

RemoveNode(mem, node) ==
  LET unlinked == [mem EXCEPT ![mem[node].m_prev].m_next = mem[node].m_next,
                              ![mem[node].m_next].m_prev = mem[node].m_prev]
  IN  [c \in DOMAIN mem \ {node} |-> unlinked[c]]

\* Where the loops from the first cell to the tail are after n rounds, and what they
\* go through.
Onward(mem, tail, c) == IF c = tail THEN tail ELSE mem[c].m_next
Rounds(mem, head, tail) ==
  LET At[n \in Nat] == IF n = 0 THEN mem[head].m_next ELSE Onward(mem, tail, At[n - 1])
  IN  At
Chain(mem, head, tail) ==
  LET at == Rounds(mem, head, tail)
      len == CHOOSE n \in 0 .. Cardinality(DOMAIN mem) :
               at[n] = tail /\ \A k \in 0 .. n - 1 : at[k] # tail
  IN  [k \in 1 .. len |-> at[k - 1]]

\* The links lead to allocated cells, and both ways between the same two.
Linked(mem) ==
  \A c \in DOMAIN mem :
    /\ mem[c].m_next # NoCell =>
         mem[c].m_next \in DOMAIN mem /\ mem[mem[c].m_next].m_prev = c
    /\ mem[c].m_prev # NoCell =>
         mem[c].m_prev \in DOMAIN mem /\ mem[mem[c].m_prev].m_next = c
=============================================================================
