------------------------------- MODULE Vector -------------------------------
(***************************************************************************)
(* The growing array of vector.c.  It is built with the server and used by *)
(* none of the programs yet.  malloc and realloc may fail; what they       *)
(* return holds Unset until it is written.                                 *)
(***************************************************************************)
EXTENDS Naturals, Sequences, FiniteSetsExt

CONSTANTS
  Things,     \* what is stored
  Unset,      \* what an unwritten slot holds
  MaxThings,  \* bound: the caller appends to no longer vector
  MaxStep     \* bound: the largest _initialCapacity and _blockSize of a caller

ASSUME ThingsAssumption == Unset \notin Things
ASSUME VectorBoundsAssumption == MaxThings \in Nat /\ MaxStep \in Nat

VARIABLES
  vector,    \* whether there is a vector (the caller's pointer is not NULL)
  m_memory,  \* struct Vector: the slots that are allocated (m_items),
  m_originalCapacity, m_capacity, m_size, m_blockSize,
  result     \* what the last call returned

vectorvars ==
  <<vector, m_memory, m_originalCapacity, m_capacity, m_size, m_blockSize, result>>
sizes == <<vector, m_originalCapacity, m_blockSize>>
struct == <<vector, m_memory, m_originalCapacity, m_capacity, m_size, m_blockSize>>

Gives(r) == result' = r
Fails(code) == Gives(<<code>>) /\ UNCHANGED struct

Allocated(n) == [k \in 0 .. n - 1 |-> Unset]
realloc(n) == [k \in 0 .. n - 1 |-> IF k \in DOMAIN m_memory THEN m_memory[k] ELSE Unset]

VectorCreate(initialCapacity, blockSize) ==
  /\ ~vector
  /\ \/ Fails("NULL")
     \/ /\ initialCapacity # 0 \/ blockSize # 0
        /\ vector' = TRUE
        /\ m_memory' = Allocated(initialCapacity)
        /\ m_originalCapacity' = initialCapacity
        /\ m_capacity' = initialCapacity
        /\ m_size' = 0
        /\ m_blockSize' = blockSize
        /\ Gives(<<"created">>)

\* The destroyer gets every element.
VectorDestroy ==
  /\ vector
  /\ Gives(<<"destroyed", [k \in 1 .. m_size |-> m_memory[k - 1]]>>)
  /\ vector' = FALSE /\ m_memory' = Allocated(0)
  /\ m_originalCapacity' = 0 /\ m_capacity' = 0 /\ m_size' = 0 /\ m_blockSize' = 0

\* m_items[m_size++]
Store(memory, item) ==
  /\ m_memory' = [memory EXCEPT ![m_size] = item]
  /\ m_size' = m_size + 1
  /\ Gives(<<"VECTOR_SUCCESS">>)
  /\ UNCHANGED sizes

VectorAppend(item) ==
  /\ m_size < MaxThings
  /\ \/ ~vector /\ Fails("VECTOR_UNITIALIZED_ERROR")
     \/ vector /\ m_size = m_capacity /\ Fails("VECTOR_ALLOCATION_ERROR")
     \/ /\ vector /\ m_size = m_capacity /\ m_blockSize # 0
        /\ Store(realloc(m_capacity + m_blockSize), item)
        /\ m_capacity' = m_capacity + m_blockSize
     \/ /\ vector /\ m_size # m_capacity
        /\ Store(m_memory, item)
        /\ UNCHANGED m_capacity

\* Seeded fault: a gap of one block is enough.
ShrinkGap_One == m_blockSize

\* "to avoid oscillations"
ShrinkGap == m_blockSize * 2

Shrinks(size) ==
  m_blockSize > 0 /\ m_capacity > m_originalCapacity /\ m_capacity - size >= ShrinkGap

VectorRemove ==
  \/ ~vector /\ Fails("VECTOR_UNITIALIZED_ERROR")
  \/ vector /\ m_size = 0 /\ Fails("VECTOR_INDEX_OUT_OF_BOUNDS_ERROR")
  \/ /\ vector /\ m_size # 0
     /\ Gives(<<"VECTOR_SUCCESS", m_memory[m_size - 1]>>)
     /\ m_size' = m_size - 1
     /\ \/ UNCHANGED <<m_memory, m_capacity>>  \* realloc may fail here too
        \/ /\ Shrinks(m_size - 1)
           /\ m_capacity' = Max({m_capacity - m_blockSize, m_originalCapacity})
           /\ m_memory' = realloc(m_capacity')
     /\ UNCHANGED sizes

VectorGet(index) ==
  \/ ~vector /\ Fails("VECTOR_UNITIALIZED_ERROR")
  \/ vector /\ index >= m_size /\ Fails("VECTOR_INDEX_OUT_OF_BOUNDS_ERROR")
  \/ /\ vector /\ index < m_size
     /\ Gives(<<"VECTOR_SUCCESS", m_memory[index]>>)
     /\ UNCHANGED struct

VectorSet(index, item) ==
  \/ ~vector /\ Fails("VECTOR_UNITIALIZED_ERROR")
  \/ vector /\ index >= m_size /\ Fails("VECTOR_INDEX_OUT_OF_BOUNDS_ERROR")
  \/ /\ vector /\ index < m_size
     /\ m_memory' = [m_memory EXCEPT ![index] = item]
     /\ Gives(<<"VECTOR_SUCCESS">>)
     /\ UNCHANGED <<sizes, m_capacity, m_size>>

VectorSize == Gives(<<"count", m_size>>) /\ UNCHANGED struct
VectorCapacity == Gives(<<"count", m_capacity>>) /\ UNCHANGED struct

\* With an action that returns 0 for x: the index where it stopped.
VectorForEach(x) ==
  /\ Gives(<<"count", Min({k \in 0 .. m_size - 1 : m_memory[k] = x} \cup {m_size})>>)
  /\ UNCHANGED struct

VectorInit ==
  /\ vector = FALSE /\ m_memory = Allocated(0)
  /\ m_originalCapacity = 0 /\ m_capacity = 0 /\ m_size = 0 /\ m_blockSize = 0
  /\ result = <<"none">>

VectorNext ==
  \/ \E n, k \in 0 .. MaxStep : VectorCreate(n, k)
  \/ VectorDestroy \/ VectorRemove \/ VectorSize \/ VectorCapacity
  \/ \E x \in Things : VectorAppend(x) \/ VectorForEach(x)
  \/ \E k \in 0 .. MaxThings : VectorGet(k) \/ \E x \in Things : VectorSet(k, x)

VectorSpec == VectorInit /\ [][VectorNext]_vectorvars

-----------------------------------------------------------------------------
(***************************************************************************)
(* Properties.                                                             *)
(***************************************************************************)
\* The elements are the first m_size of the allocated slots.
Stored == [k \in 1 .. m_size |-> m_memory[k - 1]]

\* The vector is a sequence whatever it is made to grow and shrink by and whichever
\* reallocation fails: no element is lost or made up when memory moves, and room that
\* was given back is not asked for again at once.  It is about contents and room: of the
\* code of a removal whose realloc fails (vector.c:123-132 succeeds, vector.h:12 has an
\* error) and of the number of a stopped for-each (vector.h:108) nothing is claimed.
A == INSTANCE Array WITH
       Items <- Things, Numbers <- 0 .. MaxThings + MaxStep,
       exists <- vector, items <- Stored, room <- m_capacity,
       least <- m_originalCapacity, step <- m_blockSize, answer <- result
VectorRefinement == A!ArraySpec
=============================================================================
