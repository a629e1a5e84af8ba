----------------------------- MODULE MapProofs -----------------------------
(***************************************************************************)
(* The hash map of HashMap.c is the table its header promises, for every   *)
(* hash function, capacity and set of keys and of cells.                   *)
(*                                                                         *)
(* Its buckets are rows of cells in one memory (Rows); making and dropping *)
(* a bucket, a cell put in and one taken out make such rows of such rows,  *)
(* since a row does not see the others.  Each pair has one cell, in the    *)
(* bucket of its key, and no two pairs have the same key (Filled), so that *)
(* the pairs are a partial function (Tab).  The loops of for-each and      *)
(* destroy are at a place of a bucket, and what they have called back for  *)
(* lies before it (Walking).  Then one lemma for each action.              *)
(***************************************************************************)
EXTENDS HashMap, ContainerProofs

-----------------------------------------------------------------------------
(***************************************************************************)
(* The memory of the buckets.                                              *)
(***************************************************************************)
MapCells ==
  NodeCells \cup {NoCell} \cup {HeadOf(b) : b \in Buckets} \cup {TailOf(b) : b \in Buckets}
MapData == PairCells \cup {NoCell}

SentinelOf(c, b) == c = HeadOf(b) \/ c = TailOf(b)

\* The cells of s between the sentinels of b.
BucketRow(mem, b, s) ==
  /\ s \in Seq(NodeCells)
  /\ LinkedRow(mem, Row(s, HeadOf(b), TailOf(b)), Len(s))
  /\ mem[HeadOf(b)].m_prev = NoCell /\ mem[TailOf(b)].m_next = NoCell

\* The memory is the rows S of the buckets ls and nothing else.
Rows(mem, ls, S) ==
  /\ ls \subseteq Buckets
  /\ IsMemory(mem, MapData, MapCells) /\ IsFiniteSet(DOMAIN mem)
  /\ \A b \in ls : BucketRow(mem, b, S[b])
  /\ \A c : c \in DOMAIN mem <=> \E b \in ls : SentinelOf(c, b) \/ c \in ToSet(S[b])
  /\ \A a, b \in ls : \A c \in ToSet(S[a]) : c \in ToSet(S[b]) => a = b

\* The sentinels of the buckets are all different, and no cells.
LEMMA SentinelsApart ==
  /\ \A a, b : HeadOf(a) # TailOf(b)
  /\ \A a, b : HeadOf(a) = HeadOf(b) => a = b
  /\ \A a, b : TailOf(a) = TailOf(b) => a = b
  /\ \A b \in Buckets : /\ HeadOf(b) \notin NodeCells /\ TailOf(b) \notin NodeCells
                        /\ HeadOf(b) # NoCell /\ TailOf(b) # NoCell
  /\ NoCell \notin NodeCells /\ NoCell \notin PairCells
<1>1. "head" # "tail"
  OBVIOUS
<1>2. \A a, b : HeadOf(a) # TailOf(b)
  BY <1>1 DEF HeadOf, TailOf
<1>3. /\ \A a, b : HeadOf(a) = HeadOf(b) => a = b
      /\ \A a, b : TailOf(a) = TailOf(b) => a = b
  BY DEF HeadOf, TailOf
<1>4. \A b \in Buckets : /\ HeadOf(b) \notin NodeCells /\ TailOf(b) \notin NodeCells
                         /\ HeadOf(b) # NoCell /\ TailOf(b) # NoCell
  BY SentinelsAssumption
<1>5. NoCell \notin NodeCells /\ NoCell \notin PairCells
  BY MapCellsAssumption
<1> QED
  BY <1>2, <1>3, <1>4, <1>5

\* The row of one bucket.
LEMMA BucketFacts ==
  ASSUME NEW mem, NEW ls, NEW S, Rows(mem, ls, S), NEW b \in ls
  PROVE  LET e == Row(S[b], HeadOf(b), TailOf(b))
             n == Len(S[b])
         IN  /\ b \in Buckets /\ S[b] \in Seq(NodeCells) /\ n \in Nat /\ DOMAIN S[b] = 1 .. n
             /\ LinkedRow(mem, e, n)
             /\ e[0] = HeadOf(b) /\ e[n + 1] = TailOf(b)
             /\ \A k \in 1 .. n : e[k] = S[b][k] /\ S[b][k] \in NodeCells /\ S[b][k] \in ToSet(S[b])
             /\ \A c \in ToSet(S[b]) : \E k \in 1 .. n : e[k] = c
             /\ \A k \in 0 .. n + 1 : e[k] \in DOMAIN mem /\ e[k] # NoCell
             /\ \A j, k \in 0 .. n + 1 : e[j] = e[k] => j = k
             /\ \A k \in 0 .. n : mem[e[k]].m_next = e[k + 1] /\ mem[e[k + 1]].m_prev = e[k]
             /\ mem[HeadOf(b)].m_prev = NoCell /\ mem[TailOf(b)].m_next = NoCell
<1> DEFINE s == S[b]
           e == Row(s, HeadOf(b), TailOf(b))
           n == Len(s)
<1>1. /\ b \in Buckets /\ s \in Seq(NodeCells) /\ LinkedRow(mem, e, n)
      /\ mem[HeadOf(b)].m_prev = NoCell /\ mem[TailOf(b)].m_next = NoCell
  BY DEF Rows, BucketRow
<1> HIDE DEF s
<1>2. n \in Nat /\ DOMAIN s = 1 .. n
  BY <1>1, LenProperties
<1>3. e[0] = HeadOf(b) /\ e[n + 1] = TailOf(b) /\ \A k \in 1 .. n : e[k] = s[k] /\ s[k] \in NodeCells
  BY <1>1, RowIs
<1>4. /\ \A k \in 1 .. n : s[k] \in ToSet(s)
      /\ \A c \in ToSet(s) : \E k \in 1 .. n : s[k] = c
  BY <1>2 DEF ToSet
<1> HIDE DEF e, n
<1>5. /\ e \in [0 .. n + 1 -> DOMAIN mem]
      /\ \A j, k \in 0 .. n + 1 : e[j] = e[k] => j = k
      /\ \A k \in 0 .. n : mem[e[k]].m_next = e[k + 1] /\ mem[e[k + 1]].m_prev = e[k]
  BY <1>1 DEF LinkedRow
<1>6. \A k \in 0 .. n + 1 : e[k] # NoCell
  <2>1. \A k \in 0 .. n + 1 : k = 0 \/ k = n + 1 \/ k \in 1 .. n
    BY <1>2
  <2> QED
    BY <1>1, <1>3, <2>1, SentinelsApart
<1>7. \A k \in 0 .. n + 1 : e[k] \in DOMAIN mem
  BY <1>5
<1>8. \A c \in ToSet(s) : \E k \in 1 .. n : e[k] = c
  BY <1>3, <1>4
<1> QED
  BY <1>1, <1>2, <1>3, <1>4, <1>5, <1>6, <1>7, <1>8 DEF s, e, n

\* The loops over a bucket go through its row.
LEMMA BucketChain ==
  ASSUME NEW mem, NEW ls, NEW S, Rows(mem, ls, S), NEW b \in ls
  PROVE  Chain(mem, HeadOf(b), TailOf(b)) = S[b]
<1>1. /\ S[b] \in Seq(NodeCells) /\ IsFiniteSet(DOMAIN mem)
      /\ LinkedRow(mem, Row(S[b], HeadOf(b), TailOf(b)), Len(S[b]))
  BY DEF Rows, BucketRow
<1> QED
  BY <1>1, ChainIs

\* Another bucket has other cells.
LEMMA RowsApart ==
  ASSUME NEW mem, NEW ls, NEW S, Rows(mem, ls, S), NEW a \in ls, NEW b \in ls, a # b,
         NEW j \in 0 .. Len(S[a]) + 1, NEW k \in 0 .. Len(S[b]) + 1
  PROVE  Row(S[a], HeadOf(a), TailOf(a))[j] # Row(S[b], HeadOf(b), TailOf(b))[k]
<1> DEFINE c == Row(S[a], HeadOf(a), TailOf(a))[j]
           d == Row(S[b], HeadOf(b), TailOf(b))[k]
<1>1. a \in Buckets /\ (SentinelOf(c, a) \/ (c \in ToSet(S[a]) /\ c \in NodeCells))
  <2>1. j = 0 \/ j = Len(S[a]) + 1 \/ j \in 1 .. Len(S[a])
    BY BucketFacts
  <2> QED
    BY <2>1, BucketFacts DEF SentinelOf
<1>2. b \in Buckets /\ (SentinelOf(d, b) \/ (d \in ToSet(S[b]) /\ d \in NodeCells))
  <2>1. k = 0 \/ k = Len(S[b]) + 1 \/ k \in 1 .. Len(S[b])
    BY BucketFacts
  <2> QED
    BY <2>1, BucketFacts DEF SentinelOf
<1> HIDE DEF c, d
<1>3. ASSUME c = d
      PROVE  FALSE
  <2>1. CASE SentinelOf(c, a) /\ SentinelOf(d, b)
    BY <1>3, <2>1, SentinelsApart DEF SentinelOf
  <2>2. CASE SentinelOf(c, a) /\ d \in NodeCells
    BY <1>1, <1>3, <2>2, SentinelsApart DEF SentinelOf
  <2>3. CASE c \in NodeCells /\ SentinelOf(d, b)
    BY <1>2, <1>3, <2>3, SentinelsApart DEF SentinelOf
  <2>4. CASE c \in ToSet(S[a]) /\ d \in ToSet(S[b])
    BY <1>3, <2>4 DEF Rows
  <2> QED
    BY <1>1, <1>2, <2>1, <2>2, <2>3, <2>4
<1> QED
  BY <1>3 DEF c, d
\* A row whose cells stay as they are.
LEMMA RowStays ==
  ASSUME NEW mem, NEW m, NEW n \in Nat, NEW e, LinkedRow(mem, e, n),
         \A k \in 0 .. n + 1 : e[k] \in DOMAIN m /\ m[e[k]] = mem[e[k]]
  PROVE  LinkedRow(m, e, n)
<1>1. /\ e \in [0 .. n + 1 -> DOMAIN mem]
      /\ \A j, k \in 0 .. n + 1 : e[j] = e[k] => j = k
      /\ \A k \in 0 .. n : mem[e[k]].m_next = e[k + 1] /\ mem[e[k + 1]].m_prev = e[k]
  BY DEF LinkedRow
<1>2. e \in [0 .. n + 1 -> DOMAIN m]
  BY <1>1
<1>3. \A k \in 0 .. n : m[e[k]].m_next = e[k + 1] /\ m[e[k + 1]].m_prev = e[k]
  <2>1. \A k \in 0 .. n : k \in 0 .. n + 1 /\ k + 1 \in 0 .. n + 1
    OBVIOUS
  <2> QED
    BY <1>1, <2>1
<1> QED
  BY <1>1, <1>2, <1>3 DEF LinkedRow

\* The memory m has the bucket b of mem as it was.
Kept(mem, S, b, m) ==
  \A k \in 0 .. Len(S[b]) + 1 :
    LET c == Row(S[b], HeadOf(b), TailOf(b))[k] IN c \in DOMAIN m /\ m[c] = mem[c]

\* And so a bucket none of whose cells are written.
LEMMA BucketStays ==
  ASSUME NEW mem, NEW ls, NEW S, Rows(mem, ls, S), NEW b \in ls, NEW m, Kept(mem, S, b, m)
  PROVE  BucketRow(m, b, S[b])
<1> DEFINE n == Len(S[b])
           e == Row(S[b], HeadOf(b), TailOf(b))
<1>1. /\ n \in Nat /\ LinkedRow(mem, e, n) /\ S[b] \in Seq(NodeCells)
      /\ e[0] = HeadOf(b) /\ e[n + 1] = TailOf(b)
      /\ mem[HeadOf(b)].m_prev = NoCell /\ mem[TailOf(b)].m_next = NoCell
  BY BucketFacts
<1>2. \A k \in 0 .. n + 1 : e[k] \in DOMAIN m /\ m[e[k]] = mem[e[k]]
  BY DEF Kept
<1> HIDE DEF n, e
<1>3. LinkedRow(m, e, n)
  BY <1>1, <1>2, RowStays
<1>4. m[HeadOf(b)].m_prev = NoCell /\ m[TailOf(b)].m_next = NoCell
  <2>1. 0 \in 0 .. n + 1 /\ n + 1 \in 0 .. n + 1
    BY <1>1
  <2> QED
    BY <1>1, <1>2, <2>1
<1> QED
  BY <1>1, <1>3, <1>4 DEF BucketRow, n, e

\* A cell put in at the front of a bucket.
Grew(mem, ls, S, b, new, x, m, S2) ==
  /\ m = InsertNodeBefore(mem, mem[HeadOf(b)].m_next, new, x)
  /\ S2[b] = InsertAt(S[b], 1, new) /\ \A a \in ls \ {b} : S2[a] = S[a]

\* A cell put into a bucket makes rows of the rows.
LEMMA RowsGrow ==
  ASSUME NEW mem, NEW ls, NEW S, Rows(mem, ls, S), NEW b \in ls,
         NEW new \in NodeCells \ DOMAIN mem, NEW x \in MapData,
         NEW m, NEW S2, Grew(mem, ls, S, b, new, x, m, S2)
  PROVE  /\ Rows(m, ls, S2)
         /\ \A c : c \in DOMAIN m <=> c \in DOMAIN mem \/ c = new
         /\ m[new].m_data = x
         /\ \A c \in DOMAIN mem : m[c].m_data = mem[c].m_data
         /\ \A c : c \in ToSet(S2[b]) <=> c \in ToSet(S[b]) \/ c = new
<1> DEFINE s == S[b]
           n == Len(s)
           e == Row(s, HeadOf(b), TailOf(b))
           t == InsertAt(s, 1, new)
           f == Row(t, HeadOf(b), TailOf(b))
           Q == DOMAIN mem
<1>0. /\ m = InsertNodeBefore(mem, mem[HeadOf(b)].m_next, new, x)
      /\ S2[b] = InsertAt(S[b], 1, new) /\ \A a \in ls \ {b} : S2[a] = S[a]
  BY DEF Grew
<1> USE <1>0
<1>1. /\ b \in Buckets /\ s \in Seq(NodeCells) /\ n \in Nat /\ DOMAIN s = 1 .. n
      /\ LinkedRow(mem, e, n)
      /\ e[0] = HeadOf(b) /\ e[n + 1] = TailOf(b)
      /\ mem[HeadOf(b)].m_prev = NoCell /\ mem[TailOf(b)].m_next = NoCell
  BY BucketFacts
<1>2. mem[HeadOf(b)].m_next = e[1]
  <2>1. \A k \in 0 .. n : mem[e[k]].m_next = e[k + 1]
    BY BucketFacts
  <2>2. 0 \in 0 .. n /\ 0 + 1 = 1
    BY <1>1
  <2> HIDE DEF e, n
  <2> QED
    BY <1>1, <2>1, <2>2
<1>3. /\ ls \subseteq Buckets /\ IsMemory(mem, MapData, MapCells) /\ IsFiniteSet(Q)
      /\ \A c : c \in Q <=> \E a \in ls : SentinelOf(c, a) \/ c \in ToSet(S[a])
      /\ \A a, d \in ls : \A c \in ToSet(S[a]) : c \in ToSet(S[d]) => a = d
  BY DEF Rows
<1>4. new \in MapCells \ Q /\ 1 \in 1 .. n + 1 /\ new \in NodeCells
  BY <1>1 DEF MapCells
<1> HIDE DEF s, e, n, t, f, Q
<1>5. m = InsertNodeBefore(mem, e[1], new, x)
  BY <1>2
<1>6. /\ IsMemory(m, MapData, MapCells) /\ (\A c : c \in DOMAIN m <=> c \in Q \/ c = new)
      /\ m[new].m_data = x
      /\ \A c \in Q : m[c].m_data = mem[c].m_data
      /\ \A c \in Q : c \notin {e[1 - 1], e[1]} => m[c] = mem[c]
      /\ m[e[0]].m_prev = mem[e[0]].m_prev
      /\ m[e[n + 1]].m_next = mem[e[n + 1]].m_next
      /\ LinkedRow(m, Grown(e, n, 1, new), n + 1)
  BY <1>1, <1>3, <1>4, <1>5, RowGrows DEF Q
<1>7. /\ t \in Seq(NodeCells) /\ Len(t) = n + 1 /\ f = Grown(e, n, 1, new)
      /\ \A k \in 1 .. n + 1 : t[k] = IF k < 1 THEN s[k] ELSE IF k = 1 THEN new ELSE s[k - 1]
  <2>1. s \in Seq(NodeCells) /\ 1 \in 1 .. Len(s) + 1 /\ new \in NodeCells
    BY <1>1, <1>4 DEF n
  <2>2. /\ t \in Seq(NodeCells) /\ Len(t) = Len(s) + 1
        /\ \A k \in 1 .. Len(s) + 1 : t[k] = IF k < 1 THEN s[k] ELSE IF k = 1 THEN new ELSE s[k - 1]
    BY <2>1, InsertAtShifts DEF t
  <2>3. f = Grown(e, n, 1, new)
    BY <2>1, RowOfInsert DEF f, e, t, n
  <2> QED
    BY <2>2, <2>3 DEF n
<1>8. BucketRow(m, b, t)
  BY <1>1, <1>6, <1>7 DEF BucketRow, f
<1>9. \A c : c \in ToSet(t) <=> c \in ToSet(s) \/ c = new
  <2>1. /\ \A k \in 1 .. n + 1 : t[k] = IF k < 1 THEN s[k] ELSE IF k = 1 THEN new ELSE s[k - 1]
        /\ DOMAIN t = 1 .. n + 1
    BY <1>7, LenProperties
  <2>2. t[1] = new /\ 1 \in DOMAIN t
    BY <1>1, <2>1
  <2>3. ASSUME NEW k \in 1 .. n
        PROVE  t[k + 1] = s[k] /\ k + 1 \in DOMAIN t
    <3>1. k + 1 \in 1 .. n + 1 /\ ~(k + 1 < 1) /\ k + 1 # 1 /\ (k + 1) - 1 = k
      BY <1>1
    <3> QED
      BY <2>1, <3>1
  <2>4. ASSUME NEW k \in DOMAIN t
        PROVE  t[k] = new \/ \E j \in DOMAIN s : t[k] = s[j]
    <3>1. k = 1 \/ (k - 1 \in 1 .. n /\ ~(k < 1))
      BY <1>1, <2>1
    <3> QED
      BY <1>1, <2>1, <3>1
  <2> QED
    BY <1>1, <2>2, <2>3, <2>4 DEF ToSet
<1>10. ASSUME NEW a \in ls \ {b}
       PROVE  BucketRow(m, a, S[a])
  <2>1. ASSUME NEW k \in 0 .. Len(S[a]) + 1
        PROVE  LET c == Row(S[a], HeadOf(a), TailOf(a))[k] IN c \in DOMAIN m /\ m[c] = mem[c]
    <3> DEFINE c == Row(S[a], HeadOf(a), TailOf(a))[k]
    <3>1. c \in Q
      BY BucketFacts DEF Q
    <3>2. 0 \in 0 .. n + 1 /\ 1 \in 0 .. n + 1
      BY <1>1
    <3>3. c # e[0] /\ c # e[1]
      BY <3>2, RowsApart DEF e, n, s
    <3> HIDE DEF c
    <3>4. c \in DOMAIN m /\ m[c] = mem[c]
      BY <1>6, <3>1, <3>3
    <3> QED
      BY <3>4 DEF c
  <2>2. Kept(mem, S, a, m)
    BY <2>1 DEF Kept
  <2>3. a \in ls
    OBVIOUS
  <2> QED
    BY <2>2, <2>3, BucketStays
<1>11. \A a \in ls : BucketRow(m, a, S2[a])
  BY <1>8, <1>10 DEF t, s
<1>12. IsFiniteSet(DOMAIN m)
  <2>1. DOMAIN m = Q \cup {new}
    BY <1>6
  <2> QED
    BY <1>3, <2>1, FS_AddElement
<1>13. \A a \in ls : \A c : c \in ToSet(S2[a]) <=> c \in ToSet(S[a]) \/ (a = b /\ c = new)
  BY <1>9 DEF t, s
<1>14. \A c : c \in DOMAIN m <=> \E a \in ls : SentinelOf(c, a) \/ c \in ToSet(S2[a])
  BY <1>3, <1>6, <1>13
<1>15. \A a, d \in ls : \A c \in ToSet(S2[a]) : c \in ToSet(S2[d]) => a = d
  <2>1. \A a \in ls : new \notin ToSet(S[a])
    BY <1>3, <1>4
  <2> QED
    BY <1>3, <1>13, <2>1
<1>16. Rows(m, ls, S2)
  BY <1>3, <1>6, <1>11, <1>12, <1>14, <1>15 DEF Rows
<1> QED
  BY <1>6, <1>9, <1>16 DEF Q, t, s
\* The cell at the place p of a bucket taken out.
Lost(mem, ls, S, b, p, m, S2) ==
  /\ m = RemoveNode(mem, S[b][p])
  /\ S2[b] = RemoveAt(S[b], p) /\ \A a \in ls \ {b} : S2[a] = S[a]

\* A cell taken out of its bucket does too.
LEMMA RowsShrink ==
  ASSUME NEW mem, NEW ls, NEW S, Rows(mem, ls, S), NEW b \in ls, NEW p \in 1 .. Len(S[b]),
         NEW m, NEW S2, Lost(mem, ls, S, b, p, m, S2)
  PROVE  /\ Rows(m, ls, S2)
         /\ \A c : c \in DOMAIN m <=> c \in DOMAIN mem /\ c # S[b][p]
         /\ \A c \in DOMAIN m : m[c].m_data = mem[c].m_data
         /\ \A c : c \in ToSet(S2[b]) <=> c \in ToSet(S[b]) /\ c # S[b][p]
<1> DEFINE s == S[b]
           n == Len(s)
           e == Row(s, HeadOf(b), TailOf(b))
           t == RemoveAt(s, p)
           f == Row(t, HeadOf(b), TailOf(b))
           Q == DOMAIN mem
           old == s[p]
<1>0. /\ m = RemoveNode(mem, S[b][p])
      /\ S2[b] = RemoveAt(S[b], p) /\ \A a \in ls \ {b} : S2[a] = S[a]
  BY DEF Lost
<1> USE <1>0
<1>1. /\ b \in Buckets /\ s \in Seq(NodeCells) /\ n \in Nat /\ DOMAIN s = 1 .. n
      /\ LinkedRow(mem, e, n)
      /\ e[0] = HeadOf(b) /\ e[n + 1] = TailOf(b)
      /\ mem[HeadOf(b)].m_prev = NoCell /\ mem[TailOf(b)].m_next = NoCell
  BY BucketFacts
<1>2. /\ \A k \in 1 .. n : e[k] = s[k] /\ s[k] \in ToSet(s)
      /\ \A j, k \in 0 .. n + 1 : e[j] = e[k] => j = k
  BY BucketFacts
<1>3. /\ ls \subseteq Buckets /\ IsMemory(mem, MapData, MapCells) /\ IsFiniteSet(Q)
      /\ \A c : c \in Q <=> \E a \in ls : SentinelOf(c, a) \/ c \in ToSet(S[a])
      /\ \A a, d \in ls : \A c \in ToSet(S[a]) : c \in ToSet(S[d]) => a = d
  BY DEF Rows
<1>4. p \in 1 .. n /\ p \in Nat /\ m = RemoveNode(mem, old)
  BY <1>1
<1> HIDE DEF s, e, n, t, f, Q, old
<1>5. old = e[p] /\ old \in ToSet(s)
  BY <1>2, <1>4 DEF old
<1>6. /\ IsMemory(m, MapData, MapCells) /\ (\A c : c \in DOMAIN m <=> c \in Q /\ c # e[p])
      /\ \A c \in Q \ {e[p]} : m[c].m_data = mem[c].m_data
      /\ \A c \in Q \ {e[p]} : c \notin {e[p - 1], e[p + 1]} => m[c] = mem[c]
      /\ m[e[0]].m_prev = mem[e[0]].m_prev
      /\ m[e[n + 1]].m_next = mem[e[n + 1]].m_next
      /\ LinkedRow(m, Shrunk(e, n, p), n - 1)
  <2>1. m = RemoveNode(mem, e[p])
    BY <1>4, <1>5
  <2> QED
    <3>1. /\ IsMemory(mem, MapData, MapCells) /\ n \in Nat /\ LinkedRow(mem, e, n) /\ p \in 1 .. n
          /\ m = RemoveNode(mem, e[p])
      BY <1>1, <1>3, <1>4, <2>1
    <3>2. IsMemory(m, MapData, MapCells)
      BY <3>1, RowShrinks
    <3>3. \A c : c \in DOMAIN m <=> c \in DOMAIN mem /\ c # e[p]
      BY <3>1, RowShrinks
    <3>4. \A c \in DOMAIN mem \ {e[p]} : m[c].m_data = mem[c].m_data
      BY <3>1, RowShrinks
    <3>5. \A c \in DOMAIN mem \ {e[p]} : c \notin {e[p - 1], e[p + 1]} => m[c] = mem[c]
      BY <3>1, RowShrinks
    <3>6. m[e[0]].m_prev = mem[e[0]].m_prev /\ m[e[n + 1]].m_next = mem[e[n + 1]].m_next
      BY <3>1, RowShrinks
    <3>7. LinkedRow(m, Shrunk(e, n, p), n - 1)
      BY <3>1, RowShrinks
    <3> QED
      BY <3>2, <3>3, <3>4, <3>5, <3>6, <3>7 DEF Q
<1>7. /\ t \in Seq(NodeCells) /\ Len(t) = n - 1 /\ f = Shrunk(e, n, p)
      /\ \A k \in 1 .. n - 1 : t[k] = IF k < p THEN s[k] ELSE s[k + 1]
  <2>1. s \in Seq(NodeCells) /\ p \in 1 .. Len(s)
    BY <1>1, <1>4 DEF n
  <2>2. /\ t \in Seq(NodeCells) /\ Len(t) = Len(s) - 1
        /\ \A k \in 1 .. Len(s) - 1 : t[k] = IF k < p THEN s[k] ELSE s[k + 1]
    BY <2>1, RemoveAtShifts DEF t
  <2>3. f = Shrunk(e, n, p)
    BY <2>1, RowOfRemove DEF f, e, t, n
  <2> QED
    BY <2>2, <2>3 DEF n
<1>8. BucketRow(m, b, t)
  BY <1>1, <1>6, <1>7 DEF BucketRow, f
<1>9. \A c : c \in ToSet(t) <=> c \in ToSet(s) /\ c # old
  <2>1. DOMAIN t = 1 .. n - 1
    BY <1>1, <1>7, LenProperties
  <2>2. ASSUME NEW k \in DOMAIN s, k # p
        PROVE  \E j \in DOMAIN t : t[j] = s[k]
    <3>1. CASE k < p
      <4>1. k \in 1 .. n - 1
        BY <1>1, <1>4, <3>1
      <4> QED
        BY <1>7, <2>1, <3>1, <4>1
    <3>2. CASE k > p
      <4>1. k - 1 \in 1 .. n - 1 /\ ~(k - 1 < p) /\ (k - 1) + 1 = k
        BY <1>1, <1>4, <3>2
      <4> QED
        BY <1>7, <2>1, <4>1
    <3> QED
      BY <1>1, <1>4, <2>2, <3>1, <3>2
  <2>3. ASSUME NEW k \in DOMAIN t
        PROVE  \E j \in DOMAIN s : j # p /\ t[k] = s[j]
    <3>1. (k < p /\ k \in 1 .. n /\ k # p) \/ (~(k < p) /\ k + 1 \in 1 .. n /\ k + 1 # p)
      BY <1>1, <1>4, <2>1
    <3> QED
      BY <1>1, <1>7, <2>1, <3>1
  <2>4. \A k \in DOMAIN s : s[k] = old <=> k = p
    <3>1. \A k \in 1 .. n : k \in 0 .. n + 1
      BY <1>1
    <3> QED
      BY <1>1, <1>2, <1>4, <1>5, <3>1
  <2> QED
    BY <2>2, <2>3, <2>4 DEF ToSet
<1>10. ASSUME NEW a \in ls \ {b}
       PROVE  BucketRow(m, a, S[a])
  <2>0. a \in ls
    OBVIOUS
  <2>1. ASSUME NEW k \in 0 .. Len(S[a]) + 1
        PROVE  LET c == Row(S[a], HeadOf(a), TailOf(a))[k] IN c \in DOMAIN m /\ m[c] = mem[c]
    <3> DEFINE c == Row(S[a], HeadOf(a), TailOf(a))[k]
    <3>1. c \in Q
      BY BucketFacts DEF Q
    <3>2. p - 1 \in 0 .. n + 1 /\ p \in 0 .. n + 1 /\ p + 1 \in 0 .. n + 1
      BY <1>1, <1>4
    <3>3. \A j \in 0 .. n + 1 : c # e[j]
      BY RowsApart DEF e, n, s
    <3> HIDE DEF c
    <3>4. c \in DOMAIN m /\ m[c] = mem[c]
      BY <1>6, <3>1, <3>2, <3>3
    <3> QED
      BY <3>4 DEF c
  <2>2. Kept(mem, S, a, m)
    BY <2>1 DEF Kept
  <2> QED
    BY <2>0, <2>2, BucketStays
<1>11. \A a \in ls : BucketRow(m, a, S2[a])
  BY <1>8, <1>10 DEF t, s
<1>12. IsFiniteSet(DOMAIN m)
  <2>1. DOMAIN m \subseteq Q
    BY <1>6
  <2> QED
    BY <1>3, <2>1, FS_Subset
<1>13. \A a \in ls : \A c : c \in ToSet(S2[a]) <=> c \in ToSet(S[a]) /\ c # old
  <2>1. \A a \in ls \ {b} : old \notin ToSet(S[a])
    BY <1>3, <1>5 DEF s
  <2> QED
    BY <1>9, <2>1 DEF t, s
<1>14. \A c : c \in DOMAIN m <=> \E a \in ls : SentinelOf(c, a) \/ c \in ToSet(S2[a])
  <2>1. \A a \in ls : ~SentinelOf(old, a)
    <3>1. old \in NodeCells
      BY <1>4, BucketFacts DEF old, s, n
    <3> QED
      BY <1>3, <3>1, SentinelsApart DEF SentinelOf
  <2>2. \A c : c \in DOMAIN m <=> c \in Q /\ c # old
    BY <1>5, <1>6
  <2>3. ASSUME NEW c \in DOMAIN m
        PROVE  \E a \in ls : SentinelOf(c, a) \/ c \in ToSet(S2[a])
    <3>1. c # old /\ \E a \in ls : SentinelOf(c, a) \/ c \in ToSet(S[a])
      BY <1>3, <2>2
    <3> QED
      BY <1>13, <3>1
  <2>4. ASSUME NEW c, NEW a \in ls, SentinelOf(c, a) \/ c \in ToSet(S2[a])
        PROVE  c \in DOMAIN m
    <3>1. c # old /\ (SentinelOf(c, a) \/ c \in ToSet(S[a]))
      BY <1>13, <2>1, <2>4
    <3> QED
      BY <1>3, <2>2, <3>1
  <2> QED
    BY <2>3, <2>4
<1>15. \A a, d \in ls : \A c \in ToSet(S2[a]) : c \in ToSet(S2[d]) => a = d
  BY <1>3, <1>13
<1>16. Rows(m, ls, S2)
  BY <1>3, <1>6, <1>11, <1>12, <1>14, <1>15 DEF Rows
<1>17. \A c \in DOMAIN m : m[c].m_data = mem[c].m_data
  BY <1>6
<1>18. \A c : c \in ToSet(S2[b]) <=> c \in ToSet(S[b]) /\ c # old
  BY <1>13
<1> QED
  BY <1>5, <1>6, <1>16, <1>17, <1>18 DEF Q, s, old

\* A list made for a bucket that had none.
Opened(mem, ls, S, b, m, ls2, S2) ==
  /\ m = NewList(mem, HeadOf(b), TailOf(b)) /\ ls2 = ls \cup {b}
  /\ S2[b] = << >> /\ \A a \in ls : S2[a] = S[a]

\* And so does the list made for a bucket that had none.
LEMMA RowsOpen ==
  ASSUME NEW mem, NEW ls, NEW S, Rows(mem, ls, S), NEW b \in Buckets \ ls,
         NEW m, NEW ls2, NEW S2, Opened(mem, ls, S, b, m, ls2, S2)
  PROVE  /\ Rows(m, ls2, S2)
         /\ \A c : c \in DOMAIN m <=> c \in DOMAIN mem \/ SentinelOf(c, b)
         /\ \A c \in DOMAIN mem : m[c] = mem[c]
<1> DEFINE head == HeadOf(b)
           tail == TailOf(b)
           Q == DOMAIN mem
           none == << >>
           e == Row(none, head, tail)
<1>0. /\ m = NewList(mem, HeadOf(b), TailOf(b)) /\ ls2 = ls \cup {b}
      /\ S2[b] = << >> /\ \A a \in ls : S2[a] = S[a]
  BY DEF Opened
<1> USE <1>0
<1>1. /\ ls \subseteq Buckets /\ IsMemory(mem, MapData, MapCells) /\ IsFiniteSet(Q)
      /\ \A c : c \in Q <=> \E a \in ls : SentinelOf(c, a) \/ c \in ToSet(S[a])
      /\ \A a, d \in ls : \A c \in ToSet(S[a]) : c \in ToSet(S[d]) => a = d
  BY DEF Rows
<1>2. head \in MapCells /\ tail \in MapCells /\ NoCell \in MapData \cap MapCells
  BY DEF MapCells, MapData
<1>3. head # tail
  BY SentinelsApart
<1>4. head \notin Q /\ tail \notin Q
  <2>1. \A a \in ls : \A c \in ToSet(S[a]) : c \in NodeCells
    <3> SUFFICES ASSUME NEW a \in ls, NEW c \in ToSet(S[a])
                 PROVE  c \in NodeCells
      OBVIOUS
    <3>1. S[a] \in Seq(NodeCells)
      BY DEF Rows, BucketRow
    <3> QED
      BY <3>1, LenProperties, ElementOfSeq DEF ToSet
  <2>2. \A a \in ls : a # b
    OBVIOUS
  <2>3. \A a \in ls : ~SentinelOf(head, a) /\ ~SentinelOf(tail, a)
    BY <2>2, SentinelsApart DEF SentinelOf
  <2>4. head \notin NodeCells /\ tail \notin NodeCells
    BY SentinelsApart
  <2> QED
    BY <1>1, <2>1, <2>3, <2>4
<1>5. none \in Seq(NodeCells) /\ Len(none) = 0 /\ ToSet(none) = {}
  BY DEF ToSet
<1> HIDE DEF head, tail, Q, none, e
<1>6. /\ IsMemory(m, MapData, MapCells) /\ (\A c : c \in DOMAIN m <=> c \in Q \/ c = head \/ c = tail)
      /\ m[head].m_next = tail /\ m[head].m_prev = NoCell
      /\ m[tail].m_next = NoCell /\ m[tail].m_prev = head
      /\ \A c \in Q : m[c] = mem[c]
  <2>1. m = NewList(mem, head, tail) /\ head \in MapCells \ DOMAIN mem /\ tail \in MapCells \ DOMAIN mem
    BY <1>2, <1>4 DEF head, tail, Q
  <2> QED
    BY <1>1, <1>2, <1>3, <2>1, NewCells DEF Q
<1>7. LinkedRow(m, e, 0)
  <2>1. e = [k \in 0 .. 1 |-> IF k = 0 THEN head ELSE tail]
    <3>1. \A k \in 0 .. 1 : k = 0 \/ k = 1
      OBVIOUS
    <3>2. e = [k \in 0 .. 1 |-> IF k = 0 THEN head ELSE IF k = 1 THEN tail ELSE none[k]]
      BY <1>5 DEF Row, e
    <3> QED
      BY <3>1, <3>2
  <2>2. e \in [0 .. 1 -> DOMAIN m] /\ e[0] = head /\ e[1] = tail
    BY <1>6, <2>1
  <2>3. \A j, k \in 0 .. 1 : e[j] = e[k] => j = k
    BY <1>3, <2>2
  <2>4. \A k \in 0 .. 0 : m[e[k]].m_next = e[k + 1] /\ m[e[k + 1]].m_prev = e[k]
    BY <1>6, <2>2
  <2> QED
    BY <2>2, <2>3, <2>4 DEF LinkedRow
<1>8. BucketRow(m, b, none)
  BY <1>5, <1>6, <1>7 DEF BucketRow, e, head, tail
<1>9. ASSUME NEW a \in ls
      PROVE  BucketRow(m, a, S[a])
  <2>1. ASSUME NEW k \in 0 .. Len(S[a]) + 1
        PROVE  LET c == Row(S[a], HeadOf(a), TailOf(a))[k] IN c \in DOMAIN m /\ m[c] = mem[c]
    <3> DEFINE c == Row(S[a], HeadOf(a), TailOf(a))[k]
    <3>1. c \in Q
      BY BucketFacts DEF Q
    <3> HIDE DEF c
    <3>2. c \in DOMAIN m /\ m[c] = mem[c]
      BY <1>6, <3>1
    <3> QED
      BY <3>2 DEF c
  <2>2. Kept(mem, S, a, m)
    BY <2>1 DEF Kept
  <2>3. a \in ls
    OBVIOUS
  <2> QED
    BY <2>2, <2>3, BucketStays
<1>10. S2[b] = none
  BY DEF none
<1>11. \A a \in ls2 : BucketRow(m, a, S2[a])
  BY <1>8, <1>9, <1>10
<1>12. IsFiniteSet(DOMAIN m)
  <2>1. DOMAIN m = (Q \cup {head}) \cup {tail}
    BY <1>6
  <2>2. IsFiniteSet(Q \cup {head})
    BY <1>1, FS_AddElement
  <2>3. IsFiniteSet((Q \cup {head}) \cup {tail})
    BY <2>2, FS_AddElement
  <2> QED
    BY <2>1, <2>3
<1>13. \A c : c \in DOMAIN m <=> c \in Q \/ SentinelOf(c, b)
  BY <1>6 DEF SentinelOf, head, tail
<1>14. \A c : c \in DOMAIN m <=> \E a \in ls2 : SentinelOf(c, a) \/ c \in ToSet(S2[a])
  <2>1. \A c : c \notin ToSet(S2[b])
    BY <1>5, <1>10
  <2> QED
    BY <1>1, <1>13, <2>1
<1>15. \A a, d \in ls2 : \A c \in ToSet(S2[a]) : c \in ToSet(S2[d]) => a = d
  BY <1>1, <1>5, <1>10
<1>16. ls2 \subseteq Buckets
  BY <1>1
<1>17. Rows(m, ls2, S2)
  BY <1>6, <1>11, <1>12, <1>14, <1>15, <1>16 DEF Rows
<1> QED
  BY <1>6, <1>13, <1>17 DEF Q

\* What is left when the list of a bucket is freed.
Freed(mem, b) == [c \in DOMAIN mem \ {HeadOf(b), TailOf(b)} |-> mem[c]]

\* The list of a bucket freed once it is empty.
LEMMA RowsClose ==
  ASSUME NEW mem, NEW ls, NEW S, Rows(mem, ls, S), NEW b \in ls, S[b] = << >>,
         NEW m, m = Freed(mem, b), NEW ls2, ls2 = ls \ {b}
  PROVE  /\ Rows(m, ls2, S)
         /\ \A c : c \in DOMAIN m <=> c \in DOMAIN mem /\ ~SentinelOf(c, b)
         /\ \A c \in DOMAIN m : m[c] = mem[c]
<1> DEFINE Q == DOMAIN mem
           N == [m_data : MapData, m_next : MapCells, m_prev : MapCells]
<1>1. /\ ls \subseteq Buckets /\ mem \in [Q -> N] /\ Q \subseteq MapCells /\ IsFiniteSet(Q)
      /\ \A c : c \in Q <=> \E a \in ls : SentinelOf(c, a) \/ c \in ToSet(S[a])
      /\ \A a, d \in ls : \A c \in ToSet(S[a]) : c \in ToSet(S[d]) => a = d
  BY DEF Rows, IsMemory
<1> HIDE DEF Q, N
<1>2. /\ DOMAIN m = Q \ {HeadOf(b), TailOf(b)} /\ \A c \in DOMAIN m : m[c] = mem[c]
      /\ m \in [DOMAIN m -> N]
  BY <1>1 DEF Freed, Q
<1>3. \A c : c \in DOMAIN m <=> c \in Q /\ ~SentinelOf(c, b)
  BY <1>2 DEF SentinelOf
<1>4. IsMemory(m, MapData, MapCells) /\ IsFiniteSet(DOMAIN m)
  <2>1. DOMAIN m \subseteq Q
    BY <1>2
  <2>2. IsFiniteSet(DOMAIN m)
    BY <1>1, <2>1, FS_Subset
  <2> QED
    BY <1>1, <1>2, <2>1, <2>2 DEF IsMemory, N
<1>5. ASSUME NEW a \in ls2
      PROVE  BucketRow(m, a, S[a])
  <2>1. ASSUME NEW k \in 0 .. Len(S[a]) + 1
        PROVE  LET c == Row(S[a], HeadOf(a), TailOf(a))[k] IN c \in DOMAIN m /\ m[c] = mem[c]
    <3> DEFINE c == Row(S[a], HeadOf(a), TailOf(a))[k]
    <3>1. c \in Q
      BY BucketFacts DEF Q
    <3>2. ~SentinelOf(c, b)
      <4> DEFINE e == Row(S[b], HeadOf(b), TailOf(b))
                 n == Len(S[b])
      <4>1. n \in Nat /\ e[0] = HeadOf(b) /\ e[n + 1] = TailOf(b)
        BY BucketFacts
      <4>2. \A j \in 0 .. n + 1 : c # e[j]
        BY RowsApart
      <4> HIDE DEF c, e, n
      <4>3. 0 \in 0 .. n + 1 /\ n + 1 \in 0 .. n + 1
        BY <4>1
      <4> QED
        BY <4>1, <4>2, <4>3 DEF SentinelOf
    <3> HIDE DEF c
    <3>3. c \in DOMAIN m /\ m[c] = mem[c]
      BY <1>2, <1>3, <3>1, <3>2
    <3> QED
      BY <3>3 DEF c
  <2>2. a \in ls
    OBVIOUS
  <2>3. Kept(mem, S, a, m)
    BY <2>1 DEF Kept
  <2> QED
    BY <2>2, <2>3, BucketStays
<1>6. \A c : c \in DOMAIN m <=> \E a \in ls2 : SentinelOf(c, a) \/ c \in ToSet(S[a])
  <2>1. \A c : c \notin ToSet(S[b])
    BY DEF ToSet
  <2>2. \A c : \A a \in ls2 : SentinelOf(c, a) => ~SentinelOf(c, b)
    BY SentinelsApart DEF SentinelOf
  <2>3. \A c : \A a \in ls2 : c \in ToSet(S[a]) => ~SentinelOf(c, b)
    <3> SUFFICES ASSUME NEW a \in ls2, NEW c \in ToSet(S[a])
                 PROVE  ~SentinelOf(c, b)
      OBVIOUS
    <3>1. S[a] \in Seq(NodeCells) /\ b \in Buckets
      BY DEF Rows, BucketRow
    <3>2. c \in NodeCells
      BY <3>1, LenProperties, ElementOfSeq DEF ToSet
    <3> QED
      BY <3>1, <3>2, SentinelsApart DEF SentinelOf
  <2> QED
    BY <1>1, <1>3, <2>1, <2>2, <2>3
<1>7. Rows(m, ls2, S)
  BY <1>1, <1>4, <1>5, <1>6 DEF Rows
<1> QED
  BY <1>2, <1>3, <1>7 DEF Q

-----------------------------------------------------------------------------
(***************************************************************************)
(* The pairs, and the table they are.                                      *)
(***************************************************************************)
CellsIn(mem) == DOMAIN mem \cap NodeCells
KeyAt(mem, ps, c) == ps[mem[c].m_data].key

PairsAre(ps) ==
  ps \in [DOMAIN ps -> [key : Keys, value : Values]] /\ IsFiniteSet(DOMAIN ps)
KeysDiffer(ps) == \A p, q \in DOMAIN ps : ps[p].key = ps[q].key => p = q

\* Each pair has one cell, and no two have a key in common.
Paired(mem, ps) ==
  /\ \A c \in CellsIn(mem) : mem[c].m_data \in DOMAIN ps
  /\ \A p \in DOMAIN ps : \E c \in CellsIn(mem) : mem[c].m_data = p
  /\ \A c, d \in CellsIn(mem) : KeyAt(mem, ps, c) = KeyAt(mem, ps, d) => c = d

Tab(ps) == [k \in {ps[p].key : p \in DOMAIN ps} |->
              ps[CHOOSE p \in DOMAIN ps : ps[p].key = k].value]

\* Since each pair has its cell, and no two cells have one key.
LEMMA PairsDiffer ==
  ASSUME NEW mem, NEW ps, Paired(mem, ps)
  PROVE  KeysDiffer(ps)
<1> SUFFICES ASSUME NEW p \in DOMAIN ps, NEW q \in DOMAIN ps, ps[p].key = ps[q].key
             PROVE  p = q
  BY DEF KeysDiffer
<1>1. PICK c \in CellsIn(mem) : mem[c].m_data = p
  BY DEF Paired
<1>2. PICK d \in CellsIn(mem) : mem[d].m_data = q
  BY DEF Paired
<1>3. KeyAt(mem, ps, c) = KeyAt(mem, ps, d)
  BY <1>1, <1>2 DEF KeyAt
<1>4. c = d
  BY <1>3 DEF Paired
<1> QED
  BY <1>1, <1>2, <1>4

\* Different keys make one entry of each pair.
LEMMA TabIs ==
  ASSUME NEW ps, KeysDiffer(ps), IsFiniteSet(DOMAIN ps)
  PROVE  /\ \A k : k \in DOMAIN Tab(ps) <=> \E p \in DOMAIN ps : ps[p].key = k
         /\ \A p \in DOMAIN ps : Tab(ps)[ps[p].key] = ps[p].value
         /\ IsFiniteSet(DOMAIN Tab(ps)) /\ Cardinality(DOMAIN Tab(ps)) = Cardinality(DOMAIN ps)
<1> DEFINE P == DOMAIN ps
           K == DOMAIN Tab(ps)
           f == [p \in P |-> ps[p].key]
<1>1. K = {ps[p].key : p \in P}
  BY DEF Tab
<1>2. ASSUME NEW p \in P
      PROVE  Tab(ps)[ps[p].key] = ps[p].value
  <2>1. \A q \in P : ps[q].key = ps[p].key <=> q = p
    BY DEF KeysDiffer
  <2>2. (CHOOSE q \in P : ps[q].key = ps[p].key) = p
    BY <2>1
  <2>3. ps[p].key \in {ps[q].key : q \in P}
    OBVIOUS
  <2> QED
    BY <2>2, <2>3 DEF Tab
<1> HIDE DEF K
<1>3. f \in [P -> K] /\ (\A p, q \in P : f[p] = f[q] => p = q) /\ (\A k \in K : \E p \in P : f[p] = k)
  BY <1>1 DEF KeysDiffer
<1> HIDE DEF f, P
<1>4. f \in Bijection(P, K)
  BY <1>3, Fun_IsBij
<1>5. ExistsBijection(P, K)
  BY <1>4 DEF ExistsBijection
<1>6. IsFiniteSet(K) /\ Cardinality(K) = Cardinality(P)
  BY <1>5, FS_Bijection DEF P
<1>7. \A k : k \in K <=> \E p \in P : ps[p].key = k
  BY <1>1
<1> QED
  BY <1>2, <1>6, <1>7 DEF P, K

PutIn(t, k, v) == [j \in DOMAIN t \cup {k} |-> IF j = k THEN v ELSE t[j]]
Out(t, k) == [j \in DOMAIN t \ {k} |-> t[j]]
NewPair(k, v) == [key |-> k, value |-> v]

\* A pair more is an entry more.
LEMMA TabGrows ==
  ASSUME NEW ps, KeysDiffer(ps), PairsAre(ps), NEW p, p \notin DOMAIN ps,
         NEW k \in Keys, NEW v \in Values, k \notin DOMAIN Tab(ps),
         NEW ps2, ps2 = With(ps, p, NewPair(k, v))
  PROVE  /\ KeysDiffer(ps2) /\ PairsAre(ps2)
         /\ Tab(ps2) = PutIn(Tab(ps), k, v)
         /\ \A q : q \in DOMAIN ps2 <=> q \in DOMAIN ps \/ q = p
         /\ ps2[p].key = k
         /\ \A q \in DOMAIN ps : ps2[q] = ps[q]
         /\ Cardinality(DOMAIN ps2) = Cardinality(DOMAIN ps) + 1
<1> DEFINE P == DOMAIN ps
           R == [key : Keys, value : Values]
<1>1. NewPair(k, v) \in R /\ NewPair(k, v).key = k /\ NewPair(k, v).value = v
  BY DEF NewPair
<1>2. DOMAIN ps2 = P \cup {p} /\ (\A q \in P : ps2[q] = ps[q]) /\ ps2[p] = NewPair(k, v)
  BY DEF With
<1> HIDE DEF P, R
<1>3. ps2 \in [DOMAIN ps2 -> R]
  <2>1. ps2 = [q \in P \cup {p} |-> IF q = p THEN NewPair(k, v) ELSE ps[q]]
    BY DEF With, P
  <2>2. \A q \in P : ps[q] \in R
    BY DEF PairsAre, P, R
  <2> QED
    BY <1>1, <1>2, <2>1, <2>2
<1>4. IsFiniteSet(P)
  BY DEF PairsAre, P
<1>5. IsFiniteSet(DOMAIN ps2) /\ Cardinality(DOMAIN ps2) = Cardinality(P) + 1
  <2>1. p \notin P
    BY DEF P
  <2> QED
    BY <1>2, <1>4, <2>1, FS_AddElement
<1>6. \A q \in P : ps[q].key # k
  BY <1>4, TabIs DEF P
<1>7. KeysDiffer(ps2)
  <2>1. \A q, r \in P : ps[q].key = ps[r].key => q = r
    BY DEF KeysDiffer, P
  <2> QED
    BY <1>1, <1>2, <1>6, <2>1 DEF KeysDiffer
<1>8. \A j : j \in DOMAIN Tab(ps2) <=> j \in DOMAIN Tab(ps) \/ j = k
  <2>1. \A j : j \in DOMAIN Tab(ps2) <=> \E q \in DOMAIN ps2 : ps2[q].key = j
    BY <1>5, <1>7, TabIs
  <2>2. \A j : j \in DOMAIN Tab(ps) <=> \E q \in P : ps[q].key = j
    BY <1>4, TabIs DEF P
  <2> QED
    BY <1>1, <1>2, <2>1, <2>2
<1>9. Tab(ps2)[k] = v
  <2>1. \A q \in DOMAIN ps2 : Tab(ps2)[ps2[q].key] = ps2[q].value
    BY <1>5, <1>7, TabIs
  <2>2. p \in DOMAIN ps2
    BY <1>2
  <2> QED
    BY <1>1, <1>2, <2>1, <2>2
<1>10. \A j \in DOMAIN Tab(ps) : Tab(ps2)[j] = Tab(ps)[j]
  <2> SUFFICES ASSUME NEW j \in DOMAIN Tab(ps)
               PROVE  Tab(ps2)[j] = Tab(ps)[j]
    OBVIOUS
  <2>1. PICK q \in P : ps[q].key = j
    BY <1>4, TabIs DEF P
  <2>2. Tab(ps)[ps[q].key] = ps[q].value
    BY <1>4, TabIs DEF P
  <2>3. q \in DOMAIN ps2 /\ ps2[q] = ps[q]
    BY <1>2
  <2>4. Tab(ps2)[ps2[q].key] = ps2[q].value
    BY <1>5, <1>7, <2>3, TabIs
  <2> QED
    BY <2>1, <2>2, <2>3, <2>4
<1>11. Tab(ps2) = PutIn(Tab(ps), k, v)
  <2>1. Tab(ps2) = [j \in DOMAIN Tab(ps2) |-> Tab(ps2)[j]]
    BY DEF Tab
  <2>2. DOMAIN Tab(ps2) = DOMAIN Tab(ps) \cup {k}
    BY <1>8
  <2>3. \A j \in DOMAIN Tab(ps2) : Tab(ps2)[j] = IF j = k THEN v ELSE Tab(ps)[j]
    BY <1>8, <1>9, <1>10
  <2> QED
    BY <2>1, <2>2, <2>3 DEF PutIn
<1>12. PairsAre(ps2)
  BY <1>3, <1>5 DEF PairsAre, R
<1> QED
  BY <1>1, <1>2, <1>5, <1>7, <1>11, <1>12 DEF P

\* A pair less is an entry less.
LEMMA TabShrinks ==
  ASSUME NEW ps, KeysDiffer(ps), PairsAre(ps), NEW p \in DOMAIN ps, NEW ps2, ps2 = Out(ps, p)
  PROVE  /\ KeysDiffer(ps2) /\ PairsAre(ps2)
         /\ Tab(ps2) = Out(Tab(ps), ps[p].key)
         /\ \A q : q \in DOMAIN ps2 <=> q \in DOMAIN ps /\ q # p
         /\ \A q \in DOMAIN ps2 : ps2[q] = ps[q]
         /\ Cardinality(DOMAIN ps2) = Cardinality(DOMAIN ps) - 1
<1> DEFINE P == DOMAIN ps
           k == ps[p].key
           R == [key : Keys, value : Values]
<1>1. DOMAIN ps2 = P \ {p} /\ \A q \in P \ {p} : ps2[q] = ps[q]
  BY DEF Out
<1> HIDE DEF P, R, k
<1>2. ps2 \in [DOMAIN ps2 -> R]
  <2>1. ps2 = [q \in P \ {p} |-> ps[q]]
    BY DEF Out, P
  <2>2. \A q \in P : ps[q] \in R
    BY DEF PairsAre, P, R
  <2> QED
    BY <1>1, <2>1, <2>2
<1>3. IsFiniteSet(P) /\ p \in P
  BY DEF PairsAre, P
<1>4. IsFiniteSet(DOMAIN ps2) /\ Cardinality(DOMAIN ps2) = Cardinality(P) - 1
  BY <1>1, <1>3, FS_RemoveElement
<1>5. \A q, r \in P : ps[q].key = ps[r].key => q = r
  BY DEF KeysDiffer, P
<1>6. KeysDiffer(ps2)
  BY <1>1, <1>5 DEF KeysDiffer
<1>7. \A j : j \in DOMAIN Tab(ps2) <=> j \in DOMAIN Tab(ps) /\ j # k
  <2>1. \A j : j \in DOMAIN Tab(ps2) <=> \E q \in DOMAIN ps2 : ps2[q].key = j
    BY <1>4, <1>6, TabIs
  <2>2. \A j : j \in DOMAIN Tab(ps) <=> \E q \in P : ps[q].key = j
    BY <1>3, TabIs DEF P
  <2>3. \A q \in P : ps[q].key = k <=> q = p
    BY <1>3, <1>5 DEF k
  <2> QED
    BY <1>1, <2>1, <2>2, <2>3
<1>8. \A j \in DOMAIN Tab(ps2) : Tab(ps2)[j] = Tab(ps)[j]
  <2> SUFFICES ASSUME NEW j \in DOMAIN Tab(ps2)
               PROVE  Tab(ps2)[j] = Tab(ps)[j]
    OBVIOUS
  <2>1. PICK q \in DOMAIN ps2 : ps2[q].key = j
    BY <1>4, <1>6, TabIs
  <2>2. q \in P /\ ps2[q] = ps[q]
    BY <1>1
  <2>3. Tab(ps)[ps[q].key] = ps[q].value
    BY <1>3, <2>2, TabIs DEF P
  <2>4. Tab(ps2)[ps2[q].key] = ps2[q].value
    BY <1>4, <1>6, TabIs
  <2> QED
    BY <2>1, <2>2, <2>3, <2>4
<1>9. Tab(ps2) = Out(Tab(ps), k)
  <2>1. Tab(ps2) = [j \in DOMAIN Tab(ps2) |-> Tab(ps2)[j]]
    BY DEF Tab
  <2>2. DOMAIN Tab(ps2) = DOMAIN Tab(ps) \ {k}
    BY <1>7
  <2> QED
    BY <1>8, <2>1, <2>2 DEF Out
<1>10. PairsAre(ps2)
  BY <1>2, <1>4 DEF PairsAre, R
<1> QED
  BY <1>1, <1>4, <1>6, <1>9, <1>10 DEF P, k

\* There are as many cells as pairs.
LEMMA CellsAsPairs ==
  ASSUME NEW mem, NEW ps, Paired(mem, ps), IsFiniteSet(CellsIn(mem))
  PROVE  /\ Cardinality(DOMAIN ps) = Cardinality(CellsIn(mem))
         /\ DOMAIN ps = {mem[c].m_data : c \in CellsIn(mem)}
<1> DEFINE C == CellsIn(mem)
           P == DOMAIN ps
           f == [c \in C |-> mem[c].m_data]
<1> HIDE DEF C, P
<1>1. /\ \A c \in C : mem[c].m_data \in P
      /\ \A p \in P : \E c \in C : mem[c].m_data = p
      /\ \A c, d \in C : mem[c].m_data = mem[d].m_data => c = d
  BY DEF Paired, KeyAt, C, P
<1>2. f \in [C -> P] /\ (\A c, d \in C : f[c] = f[d] => c = d) /\ (\A p \in P : \E c \in C : f[c] = p)
  BY <1>1
<1> HIDE DEF f
<1>3. f \in Bijection(C, P)
  BY <1>2, Fun_IsBij
<1>4. ExistsBijection(C, P)
  BY <1>3 DEF ExistsBijection
<1>5. Cardinality(P) = Cardinality(C)
  BY <1>4, FS_Bijection DEF C
<1>6. P = {mem[c].m_data : c \in C}
  BY <1>1
<1> QED
  BY <1>5, <1>6 DEF C, P

-----------------------------------------------------------------------------
(***************************************************************************)
(* The buckets with their pairs.                                           *)
(***************************************************************************)
\* There is a bucket for each key.
LEMMA BucketsAre ==
  /\ primeCapacity \in Nat \ {0}
  /\ \A k \in Keys : BucketIndex(k) \in Buckets
  /\ \A b \in Buckets : b \in Nat /\ b < primeCapacity
<1>1. Asked \in Nat /\ Asked >= 2
  BY HashAssumption DEF Asked, MIN_CAPACITY
<1> DEFINE I == {p \in Asked .. 2 * Asked : IsPrime(p)}
<1>2. I \subseteq Nat /\ I # {}
  BY <1>1, PrimeAssumption
<1>3. PICK p \in I : \A q \in I : p <= q
  BY <1>2, SmallestIs
<1>4. p \in Asked .. 2 * Asked /\ IsPrime(p) /\ \A q \in Asked .. p - 1 : ~IsPrime(q)
  <2>1. p \in Asked .. 2 * Asked /\ IsPrime(p)
    BY <1>3
  <2>2. ASSUME NEW q \in Asked .. p - 1
        PROVE  ~IsPrime(q)
    <3>1. q \in Asked .. 2 * Asked /\ ~(p <= q)
      BY <1>1, <2>1
    <3> QED
      BY <1>3, <3>1
  <2> QED
    BY <2>1, <2>2
<1>5. primeCapacity = CHOOSE r \in Asked .. 2 * Asked :
                        IsPrime(r) /\ \A q \in Asked .. r - 1 : ~IsPrime(q)
  <2>1. ~(Asked < 2)
    BY <1>1
  <2> QED
    BY <2>1 DEF primeCapacity, NextPrime
<1>6. primeCapacity \in Asked .. 2 * Asked
  BY <1>4, <1>5
<1>7. primeCapacity \in Nat \ {0}
  BY <1>1, <1>6
<1>8. \A k \in Keys : BucketIndex(k) \in Buckets
  <2> SUFFICES ASSUME NEW k \in Keys
               PROVE  BucketIndex(k) \in Buckets
    OBVIOUS
  <2>1. Hash[k] \in Nat
    BY HashAssumption
  <2>2. \A x \in Nat, n \in Nat \ {0} : x % n \in 0 .. n - 1
    OBVIOUS
  <2> QED
    BY <1>7, <2>1, <2>2 DEF BucketIndex, Buckets
<1> QED
  BY <1>7, <1>8 DEF Buckets

\* Each pair is in the bucket of its key.
Filled(mem, ps, ls, S) ==
  /\ Rows(mem, ls, S) /\ Paired(mem, ps) /\ PairsAre(ps)
  /\ \A b \in ls : \A c \in ToSet(S[b]) : BucketIndex(KeyAt(mem, ps, c)) = b

\* The cells of the memory are those of the buckets, finitely many.
LEMMA CellsOfRows ==
  ASSUME NEW mem, NEW ls, NEW S, Rows(mem, ls, S)
  PROVE  /\ \A c : c \in CellsIn(mem) <=> \E b \in ls : c \in ToSet(S[b])
         /\ IsFiniteSet(CellsIn(mem))
<1>1. \A c : c \in DOMAIN mem <=> \E b \in ls : SentinelOf(c, b) \/ c \in ToSet(S[b])
  BY DEF Rows
<1>2. ASSUME NEW b \in ls, NEW c \in ToSet(S[b])
      PROVE  c \in NodeCells
  <2>1. S[b] \in Seq(NodeCells)
    BY DEF Rows, BucketRow
  <2> QED
    BY <2>1, LenProperties, ElementOfSeq DEF ToSet
<1>3. \A b \in ls : \A c : SentinelOf(c, b) => c \notin NodeCells
  <2>1. ls \subseteq Buckets
    BY DEF Rows
  <2> QED
    BY <2>1, SentinelsApart DEF SentinelOf
<1>4. \A c : c \in CellsIn(mem) <=> \E b \in ls : c \in ToSet(S[b])
  BY <1>1, <1>2, <1>3 DEF CellsIn
<1>5. IsFiniteSet(CellsIn(mem))
  <2>1. IsFiniteSet(DOMAIN mem)
    BY DEF Rows
  <2>2. CellsIn(mem) \in SUBSET DOMAIN mem
    BY DEF CellsIn
  <2> QED
    BY <2>1, <2>2, FS_Subset
<1> QED
  BY <1>4, <1>5

\* The keys of the table are those of the cells.
LEMMA FilledKeys ==
  ASSUME NEW mem, NEW ps, NEW ls, NEW S, Filled(mem, ps, ls, S)
  PROVE  /\ KeysDiffer(ps) /\ IsFiniteSet(DOMAIN ps)
         /\ \A k : k \in DOMAIN Tab(ps) <=>
              \E b \in ls : \E u \in 1 .. Len(S[b]) : KeyAt(mem, ps, S[b][u]) = k
         /\ \A b \in ls : \A u \in 1 .. Len(S[b]) :
              LET c == S[b][u]
              IN  /\ c \in CellsIn(mem) /\ mem[c].m_data \in DOMAIN ps
                  /\ BucketIndex(KeyAt(mem, ps, c)) = b
                  /\ Tab(ps)[KeyAt(mem, ps, c)] = ps[mem[c].m_data].value
<1>1. Rows(mem, ls, S) /\ Paired(mem, ps) /\ KeysDiffer(ps) /\ IsFiniteSet(DOMAIN ps)
  BY PairsDiffer DEF Filled, PairsAre
<1>2. /\ \A k : k \in DOMAIN Tab(ps) <=> \E p \in DOMAIN ps : ps[p].key = k
      /\ \A p \in DOMAIN ps : Tab(ps)[ps[p].key] = ps[p].value
  BY <1>1, TabIs
<1>3. \A c : c \in CellsIn(mem) <=> \E b \in ls : c \in ToSet(S[b])
  BY <1>1, CellsOfRows
<1>4. \A b \in ls : \A c : c \in ToSet(S[b]) <=> \E u \in 1 .. Len(S[b]) : S[b][u] = c
  <2> SUFFICES ASSUME NEW b \in ls
               PROVE  \A c : c \in ToSet(S[b]) <=> \E u \in 1 .. Len(S[b]) : S[b][u] = c
    OBVIOUS
  <2>1. DOMAIN S[b] = 1 .. Len(S[b])
    BY <1>1, BucketFacts
  <2> QED
    BY <2>1 DEF ToSet
<1>5. \A k : k \in DOMAIN Tab(ps) <=> \E c \in CellsIn(mem) : KeyAt(mem, ps, c) = k
  BY <1>1, <1>2 DEF Paired, KeyAt
<1>6. \A k : k \in DOMAIN Tab(ps) <=>
         \E b \in ls : \E u \in 1 .. Len(S[b]) : KeyAt(mem, ps, S[b][u]) = k
  <2>1. ASSUME NEW k, k \in DOMAIN Tab(ps)
        PROVE  \E b \in ls : \E u \in 1 .. Len(S[b]) : KeyAt(mem, ps, S[b][u]) = k
    <3>1. PICK c \in CellsIn(mem) : KeyAt(mem, ps, c) = k
      BY <1>5, <2>1
    <3>2. PICK b \in ls : c \in ToSet(S[b])
      BY <1>3
    <3>3. PICK u \in 1 .. Len(S[b]) : S[b][u] = c
      BY <1>4, <3>2
    <3> QED
      BY <3>1, <3>3
  <2>2. ASSUME NEW k, NEW b \in ls, NEW u \in 1 .. Len(S[b]), KeyAt(mem, ps, S[b][u]) = k
        PROVE  k \in DOMAIN Tab(ps)
    <3>1. S[b][u] \in ToSet(S[b])
      BY <1>4
    <3>2. S[b][u] \in CellsIn(mem)
      BY <1>3, <3>1
    <3> QED
      BY <1>5, <2>2, <3>2
  <2> QED
    BY <2>1, <2>2
<1>7. ASSUME NEW b \in ls, NEW u \in 1 .. Len(S[b])
      PROVE  LET c == S[b][u]
             IN  /\ c \in CellsIn(mem) /\ mem[c].m_data \in DOMAIN ps
                 /\ BucketIndex(KeyAt(mem, ps, c)) = b
                 /\ Tab(ps)[KeyAt(mem, ps, c)] = ps[mem[c].m_data].value
  <2> DEFINE c == S[b][u]
  <2>1. c \in ToSet(S[b])
    BY <1>4
  <2>2. c \in CellsIn(mem) /\ BucketIndex(KeyAt(mem, ps, c)) = b
    BY <1>3, <2>1 DEF Filled
  <2>3. mem[c].m_data \in DOMAIN ps
    BY <1>1, <2>2 DEF Paired
  <2> QED
    BY <1>2, <2>2, <2>3 DEF KeyAt
<1> QED
  BY <1>1, <1>6, <1>7

\* The same cells with the same data.
LEMMA PairedStays ==
  ASSUME NEW mem, NEW ps, Paired(mem, ps), NEW m,
         \A c : c \in CellsIn(m) <=> c \in CellsIn(mem),
         \A c \in CellsIn(mem) : m[c].m_data = mem[c].m_data
  PROVE  Paired(m, ps) /\ \A c \in CellsIn(mem) : KeyAt(m, ps, c) = KeyAt(mem, ps, c)
BY DEF Paired, KeyAt

\* A new list has no cells, so the pairs stay in their buckets.
LEMMA FilledOpens ==
  ASSUME NEW mem, NEW ps, NEW ls, NEW S, Filled(mem, ps, ls, S), NEW b \in Buckets \ ls,
         NEW m, NEW ls2, NEW S2, Opened(mem, ls, S, b, m, ls2, S2)
  PROVE  Filled(m, ps, ls2, S2) /\ \A c : c \in CellsIn(m) <=> c \in CellsIn(mem)
<1>1. Rows(mem, ls, S) /\ Paired(mem, ps) /\ PairsAre(ps)
  BY DEF Filled
<1>2. /\ Rows(m, ls2, S2)
      /\ \A c : c \in DOMAIN m <=> c \in DOMAIN mem \/ SentinelOf(c, b)
      /\ \A c \in DOMAIN mem : m[c] = mem[c]
  BY <1>1, RowsOpen
<1>3. \A c : c \in CellsIn(m) <=> c \in CellsIn(mem)
  BY <1>2, SentinelsApart DEF CellsIn, SentinelOf
<1>4. \A c \in CellsIn(mem) : m[c].m_data = mem[c].m_data
  BY <1>2 DEF CellsIn
<1>5. Paired(m, ps) /\ \A c \in CellsIn(mem) : KeyAt(m, ps, c) = KeyAt(mem, ps, c)
  BY <1>1, <1>3, <1>4, PairedStays
<1>6. ASSUME NEW a \in ls2, NEW c \in ToSet(S2[a])
      PROVE  BucketIndex(KeyAt(m, ps, c)) = a
  <2>1. ls2 = ls \cup {b} /\ S2[b] = << >> /\ \A d \in ls : S2[d] = S[d]
    BY DEF Opened
  <2>2. a \in ls /\ S2[a] = S[a]
    BY <2>1 DEF ToSet
  <2>3. c \in ToSet(S[a]) /\ c \in CellsIn(mem)
    BY <1>1, <2>2, CellsOfRows
  <2> QED
    BY <1>5, <2>2, <2>3 DEF Filled
<1> QED
  BY <1>1, <1>2, <1>3, <1>5, <1>6 DEF Filled

\* Nor is one lost with a list that is empty.
LEMMA FilledCloses ==
  ASSUME NEW mem, NEW ps, NEW ls, NEW S, Filled(mem, ps, ls, S), NEW b \in ls, S[b] = << >>,
         NEW m, m = Freed(mem, b), NEW ls2, ls2 = ls \ {b}
  PROVE  Filled(m, ps, ls2, S)
<1>1. Rows(mem, ls, S) /\ Paired(mem, ps) /\ PairsAre(ps)
  BY DEF Filled
<1>2. /\ Rows(m, ls2, S)
      /\ \A c : c \in DOMAIN m <=> c \in DOMAIN mem /\ ~SentinelOf(c, b)
      /\ \A c \in DOMAIN m : m[c] = mem[c]
  <2>1. Rows(mem, ls, S)
    BY <1>1
  <2>2. Rows(m, ls2, S)
    BY <2>1, RowsClose
  <2>3. \A c : c \in DOMAIN m <=> c \in DOMAIN mem /\ ~SentinelOf(c, b)
    BY <2>1, RowsClose
  <2>4. ASSUME NEW c \in DOMAIN m
        PROVE  m[c] = mem[c]
    BY <2>1, RowsClose
  <2> QED
    BY <2>2, <2>3, <2>4
<1>3. \A c : c \in CellsIn(m) <=> c \in CellsIn(mem)
  <2>1. b \in Buckets
    BY <1>1 DEF Rows
  <2> QED
    BY <1>2, <2>1, SentinelsApart DEF CellsIn, SentinelOf
<1>4. \A c \in CellsIn(mem) : m[c].m_data = mem[c].m_data
  BY <1>2, <1>3 DEF CellsIn
<1>5. Paired(m, ps) /\ \A c \in CellsIn(mem) : KeyAt(m, ps, c) = KeyAt(mem, ps, c)
  BY <1>1, <1>3, <1>4, PairedStays
<1>6. ASSUME NEW a \in ls2, NEW c \in ToSet(S[a])
      PROVE  BucketIndex(KeyAt(m, ps, c)) = a
  <2>1. c \in CellsIn(mem)
    BY <1>1, CellsOfRows
  <2> QED
    BY <1>5, <2>1 DEF Filled
<1> QED
  BY <1>1, <1>2, <1>5, <1>6 DEF Filled

\* A pair with a new key and its cell, in the bucket of the key.
LEMMA FilledGrows ==
  ASSUME NEW mem, NEW ps, NEW ls, NEW S, Filled(mem, ps, ls, S),
         NEW k \in Keys, NEW v \in Values, k \notin DOMAIN Tab(ps), BucketIndex(k) \in ls,
         NEW new \in NodeCells \ DOMAIN mem, NEW p \in PairCells \ DOMAIN ps,
         NEW m, NEW S2, Grew(mem, ls, S, BucketIndex(k), new, p, m, S2),
         NEW ps2, ps2 = With(ps, p, NewPair(k, v))
  PROVE  Filled(m, ps2, ls, S2)
<1> DEFINE b == BucketIndex(k)
<1>1. Rows(mem, ls, S) /\ Paired(mem, ps) /\ PairsAre(ps) /\ KeysDiffer(ps) /\ b \in ls
  BY PairsDiffer DEF Filled
<1>2. p \in MapData
  BY DEF MapData
<1> HIDE DEF b
<1>3. /\ Rows(m, ls, S2)
      /\ \A c : c \in DOMAIN m <=> c \in DOMAIN mem \/ c = new
      /\ m[new].m_data = p
      /\ \A c \in DOMAIN mem : m[c].m_data = mem[c].m_data
      /\ \A c : c \in ToSet(S2[b]) <=> c \in ToSet(S[b]) \/ c = new
  <2>1. Grew(mem, ls, S, b, new, p, m, S2)
    BY DEF b
  <2> QED
    BY <1>1, <1>2, <2>1, RowsGrow
<1>4. /\ PairsAre(ps2)
      /\ \A q : q \in DOMAIN ps2 <=> q \in DOMAIN ps \/ q = p
      /\ ps2[p].key = k
      /\ \A q \in DOMAIN ps : ps2[q] = ps[q]
  BY <1>1, TabGrows
<1>5. /\ \A c : c \in CellsIn(m) <=> c \in CellsIn(mem) \/ c = new
      /\ new \notin CellsIn(mem)
      /\ \A c \in CellsIn(mem) : m[c].m_data = mem[c].m_data
  BY <1>3 DEF CellsIn
<1>6. \A c \in CellsIn(mem) : mem[c].m_data \in DOMAIN ps
  BY <1>1 DEF Paired
<1>7. KeyAt(m, ps2, new) = k /\ \A c \in CellsIn(mem) : KeyAt(m, ps2, c) = KeyAt(mem, ps, c)
  BY <1>3, <1>4, <1>5, <1>6 DEF KeyAt
<1>8. \A c \in CellsIn(mem) : KeyAt(mem, ps, c) # k
  <2>1. \A q \in DOMAIN ps : ps[q].key # k
    BY <1>1, TabIs DEF PairsAre
  <2> QED
    BY <1>6, <2>1 DEF KeyAt
<1>9. Paired(m, ps2)
  <2>1. \A c \in CellsIn(m) : m[c].m_data \in DOMAIN ps2
    BY <1>3, <1>4, <1>5, <1>6
  <2>2. ASSUME NEW q \in DOMAIN ps2
        PROVE  \E c \in CellsIn(m) : m[c].m_data = q
    <3>1. CASE q = p
      BY <1>3, <1>5, <3>1
    <3>2. CASE q \in DOMAIN ps
      <4>1. PICK c \in CellsIn(mem) : mem[c].m_data = q
        BY <1>1, <3>2 DEF Paired
      <4> QED
        BY <1>5, <4>1
    <3> QED
      BY <1>4, <3>1, <3>2
  <2>3. \A c, d \in CellsIn(mem) : KeyAt(mem, ps, c) = KeyAt(mem, ps, d) => c = d
    BY <1>1 DEF Paired
  <2>4. \A c, d \in CellsIn(m) : KeyAt(m, ps2, c) = KeyAt(m, ps2, d) => c = d
    BY <1>5, <1>7, <1>8, <2>3
  <2> QED
    BY <2>1, <2>2, <2>4 DEF Paired
<1>10. ASSUME NEW a \in ls, NEW c \in ToSet(S2[a])
       PROVE  BucketIndex(KeyAt(m, ps2, c)) = a
  <2>1. CASE a = b /\ c = new
    BY <1>7, <2>1 DEF b
  <2>2. CASE ~(a = b /\ c = new)
    <3>1. c \in ToSet(S[a])
      <4>1. CASE a = b
        BY <1>3, <2>2, <4>1
      <4>2. CASE a # b
        <5>1. S2[a] = S[a]
          BY <4>2 DEF b, Grew
        <5> QED
          BY <5>1
      <4> QED
        BY <4>1, <4>2
    <3>2. c \in CellsIn(mem)
      BY <1>1, <3>1, CellsOfRows
    <3> QED
      BY <1>7, <3>1, <3>2 DEF Filled
  <2> QED
    BY <2>1, <2>2
<1> QED
  BY <1>3, <1>4, <1>9, <1>10 DEF Filled

\* A cell goes, and its pair with it.
LEMMA FilledShrinks ==
  ASSUME NEW mem, NEW ps, NEW ls, NEW S, Filled(mem, ps, ls, S),
         NEW b \in ls, NEW u \in 1 .. Len(S[b]),
         NEW m, NEW S2, Lost(mem, ls, S, b, u, m, S2),
         NEW ps2, ps2 = Out(ps, mem[S[b][u]].m_data)
  PROVE  Filled(m, ps2, ls, S2)
<1> DEFINE old == S[b][u]
           p == mem[old].m_data
<1>1. Rows(mem, ls, S) /\ Paired(mem, ps) /\ PairsAre(ps) /\ KeysDiffer(ps)
  BY PairsDiffer DEF Filled
<1>2. /\ Rows(m, ls, S2)
      /\ \A c : c \in DOMAIN m <=> c \in DOMAIN mem /\ c # old
      /\ \A c \in DOMAIN m : m[c].m_data = mem[c].m_data
      /\ \A c : c \in ToSet(S2[b]) <=> c \in ToSet(S[b]) /\ c # old
  <2>1. Rows(mem, ls, S) /\ S[b][u] = old
    BY <1>1
  <2> HIDE DEF old
  <2>2. Rows(m, ls, S2)
    BY <2>1, RowsShrink
  <2>3. \A c : c \in DOMAIN m <=> c \in DOMAIN mem /\ c # S[b][u]
    BY <2>1, RowsShrink
  <2>4. \A c \in DOMAIN m : m[c].m_data = mem[c].m_data
    BY <2>1, RowsShrink
  <2>5. ASSUME NEW c
        PROVE  c \in ToSet(S2[b]) <=> c \in ToSet(S[b]) /\ c # S[b][u]
    BY <2>1, RowsShrink, SMTT(60)
  <2> QED
    BY <2>1, <2>2, <2>3, <2>4, <2>5
<1>3. old \in CellsIn(mem) /\ p \in DOMAIN ps
  BY FilledKeys
<1>4. ps2 = Out(ps, p)
  OBVIOUS
<1> HIDE DEF old, p
<1>5. /\ PairsAre(ps2)
      /\ \A q : q \in DOMAIN ps2 <=> q \in DOMAIN ps /\ q # p
      /\ \A q \in DOMAIN ps2 : ps2[q] = ps[q]
  BY <1>1, <1>3, <1>4, TabShrinks
<1>6. /\ \A c : c \in CellsIn(m) <=> c \in CellsIn(mem) /\ c # old
      /\ \A c \in CellsIn(m) : m[c].m_data = mem[c].m_data
  BY <1>2 DEF CellsIn
<1>7. \A c, d \in CellsIn(mem) : KeyAt(mem, ps, c) = KeyAt(mem, ps, d) => c = d
  BY <1>1 DEF Paired
<1>8. \A c \in CellsIn(mem) : mem[c].m_data = p => c = old
  BY <1>3, <1>7 DEF KeyAt, p
<1>9. \A c \in CellsIn(m) : m[c].m_data \in DOMAIN ps2
  BY <1>1, <1>5, <1>6, <1>8 DEF Paired
<1>10. \A c \in CellsIn(m) : KeyAt(m, ps2, c) = KeyAt(mem, ps, c)
  BY <1>5, <1>6, <1>9 DEF KeyAt
<1>11. Paired(m, ps2)
  <2>1. ASSUME NEW q \in DOMAIN ps2
        PROVE  \E c \in CellsIn(m) : m[c].m_data = q
    <3>1. PICK c \in CellsIn(mem) : mem[c].m_data = q
      BY <1>1, <1>5 DEF Paired
    <3>2. c # old
      BY <1>5, <3>1 DEF p
    <3> QED
      BY <1>6, <3>1, <3>2
  <2>2. \A c, d \in CellsIn(m) : KeyAt(m, ps2, c) = KeyAt(m, ps2, d) => c = d
    BY <1>6, <1>7, <1>10
  <2> QED
    BY <1>9, <2>1, <2>2 DEF Paired
<1>12. ASSUME NEW a \in ls, NEW c \in ToSet(S2[a])
       PROVE  BucketIndex(KeyAt(m, ps2, c)) = a
  <2>1. c \in ToSet(S[a])
    <3>1. CASE a = b
      BY <1>2, <3>1
    <3>2. CASE a # b
      <4>1. S2[a] = S[a]
        BY <3>2 DEF Lost
      <4> QED
        BY <4>1
    <3> QED
      BY <3>1, <3>2
  <2>2. c \in CellsIn(m)
    BY <1>2, CellsOfRows
  <2> QED
    BY <1>10, <2>1, <2>2 DEF Filled
<1> QED
  BY <1>2, <1>5, <1>11, <1>12 DEF Filled

-----------------------------------------------------------------------------
(***************************************************************************)
(* The invariant.                                                          *)
(***************************************************************************)
\* The for-each is past the buckets below its own and the places below p in it.
Past(b, u, p) == b < bucket \/ (b = bucket /\ u < p)

Walking(S, p) ==
  /\ walk # "each" => node = NoCell /\ invoked = 0 /\ seen = {}
  /\ walk # "no" => bucket \in lists \cup {primeCapacity}
  /\ walk = "all" => \A b \in lists : b >= bucket
  /\ walk = "each" =>
       /\ bucket \in lists => /\ p \in 1 .. Len(S[bucket]) + 1
                              /\ At = Row(S[bucket], HeadOf(bucket), TailOf(bucket))[p]
       /\ IsFiniteSet(seen) /\ invoked = Cardinality(seen)
       /\ \A k : k \in seen <=>
            \E b \in lists : \E u \in 1 .. Len(S[b]) :
              KeyAt(chains, pairs, S[b][u]) = k /\ Past(b, u, p)

MapInv ==
  /\ map \in BOOLEAN
  /\ map = FALSE => lists = {} /\ walk = "no"
  /\ walk \in {"no", "each", "all"}
  /\ walk # "all" => size = Cardinality(DOMAIN pairs)
  /\ \E S, p : Filled(chains, pairs, lists, S) /\ Walking(S, p)

\* The two ways to write the table are one.
LEMMA TheTableIs == TheTable = Tab(pairs)
BY DEF TheTable, Tab

\* Table has its own copies of two library operators.
LEMMA TableWords ==
  /\ \A X : T!Cardinality(X) = Cardinality(X)
  /\ \A t, k : T!Restrict(t, DOMAIN t \ {k}) = Out(t, k)
<1>1. \A X : T!Cardinality(X) = Cardinality(X)
  BY DEF T!Cardinality, Cardinality
<1>2. \A t, k : T!Restrict(t, DOMAIN t \ {k}) = Out(t, k)
  BY DEF T!Restrict, Out
<1> QED
  BY <1>1, <1>2

\* The keys of the table.
LEMMA TableKeys ==
  ASSUME NEW mem, NEW ps, NEW ls, NEW S, Filled(mem, ps, ls, S)
  PROVE  DOMAIN Tab(ps) \subseteq Keys
<1>1. KeysDiffer(ps) /\ PairsAre(ps) /\ IsFiniteSet(DOMAIN ps)
  BY PairsDiffer DEF Filled, PairsAre
<1>2. \A j : j \in DOMAIN Tab(ps) <=> \E q \in DOMAIN ps : ps[q].key = j
  BY <1>1, TabIs
<1> QED
  BY <1>1, <1>2 DEF PairsAre

\* What is not in a table is not taken out of it.
LEMMA OutNothing ==
  ASSUME NEW ps, NEW k, k \notin DOMAIN Tab(ps)
  PROVE  Out(Tab(ps), k) = Tab(ps)
<1>1. DOMAIN Tab(ps) \ {k} = DOMAIN Tab(ps)
  OBVIOUS
<1>2. Tab(ps) = [j \in DOMAIN Tab(ps) |-> Tab(ps)[j]]
  BY DEF Tab
<1> QED
  BY <1>1, <1>2 DEF Out

\* Without buckets there is nothing.
LEMMA NothingThere ==
  ASSUME NEW mem, NEW ps, NEW S, Filled(mem, ps, {}, S)
  PROVE  mem = << >> /\ ps = << >> /\ Tab(ps) = << >> /\ DOMAIN Tab(ps) = {} /\ Cardinality(DOMAIN ps) = 0
<1>1. Rows(mem, {}, S) /\ Paired(mem, ps) /\ PairsAre(ps)
  BY DEF Filled
<1>2. DOMAIN mem = {}
  BY <1>1 DEF Rows
<1>3. DOMAIN ps = {}
  BY <1>1, <1>2 DEF Paired, CellsIn
<1>4. mem = << >>
  <2>1. mem = [c \in DOMAIN mem |-> mem[c]]
    BY <1>1 DEF Rows, IsMemory
  <2> QED
    BY <1>2, <2>1
<1>5. ps = << >>
  <2>1. ps = [c \in DOMAIN ps |-> ps[c]]
    BY <1>1 DEF PairsAre
  <2> QED
    BY <1>3, <2>1
<1>6. DOMAIN Tab(ps) = {}
  BY <1>3 DEF Tab
<1>7. Tab(ps) = << >>
  <2>1. Tab(ps) = [c \in DOMAIN Tab(ps) |-> Tab(ps)[c]]
    BY DEF Tab
  <2> QED
    BY <1>6, <2>1
<1>8. Cardinality(DOMAIN ps) = 0
  BY <1>3, FS_EmptySet
<1> QED
  BY <1>2, <1>3, <1>4, <1>5, <1>6, <1>7, <1>8

\* The loop over a bucket finds the one cell with the key, if there is one.
LEMMA CellWithIs ==
  ASSUME NEW S, Filled(chains, pairs, lists, S), NEW k \in Keys
  PROVE  /\ CellWith(k) = NoCell <=> k \notin DOMAIN Tab(pairs)
         /\ CellWith(k) # NoCell =>
              /\ BucketIndex(k) \in lists
              /\ \E u \in 1 .. Len(S[BucketIndex(k)]) :
                   LET c == S[BucketIndex(k)][u]
                   IN  CellWith(k) = c /\ KeyAt(chains, pairs, c) = k
<1> DEFINE b == BucketIndex(k)
           chain == ChainOf(b)
           hits == {j \in DOMAIN chain : pairs[chains[chain[j]].m_data].key = k}
<1>1. CellWith(k) = IF hits = {} THEN NoCell ELSE chain[Min(hits)]
  BY DEF CellWith
<1>2. /\ \A a \in lists : \A u \in 1 .. Len(S[a]) :
           BucketIndex(KeyAt(chains, pairs, S[a][u])) = a
      /\ \A a \in lists : \A u \in 1 .. Len(S[a]) : S[a][u] \in CellsIn(chains)
  BY FilledKeys
<1>3. k \in DOMAIN Tab(pairs) <=>
        \E a \in lists : \E u \in 1 .. Len(S[a]) : KeyAt(chains, pairs, S[a][u]) = k
  BY FilledKeys
<1>4. k \in DOMAIN Tab(pairs) =>
        b \in lists /\ \E u \in 1 .. Len(S[b]) : KeyAt(chains, pairs, S[b][u]) = k
  BY <1>2, <1>3
<1> HIDE DEF hits, chain, b
<1>5. CASE b \notin lists
  <2>1. chain = << >>
    BY <1>5 DEF chain, ChainOf
  <2>2. hits = {}
    BY <2>1 DEF hits
  <2> QED
    BY <1>1, <1>4, <1>5, <2>2
<1>6. CASE b \in lists
  <2>1. /\ chain = S[b] /\ DOMAIN S[b] = 1 .. Len(S[b]) /\ Len(S[b]) \in Nat
        /\ \A u \in 1 .. Len(S[b]) : S[b][u] \in CellsIn(chains)
    <3>1. Rows(chains, lists, S)
      BY DEF Filled
    <3>2. chain = Chain(chains, HeadOf(b), TailOf(b))
      BY <1>6 DEF chain, ChainOf
    <3>3. Chain(chains, HeadOf(b), TailOf(b)) = S[b]
      BY <1>6, <3>1, BucketChain
    <3>4. DOMAIN S[b] = 1 .. Len(S[b]) /\ Len(S[b]) \in Nat
      BY <1>6, <3>1, BucketFacts
    <3> QED
      BY <1>2, <1>6, <3>2, <3>3, <3>4
  <2>2. \A j : j \in hits <=> j \in 1 .. Len(S[b]) /\ KeyAt(chains, pairs, S[b][j]) = k
    BY <2>1 DEF hits, KeyAt
  <2>3. CASE hits = {}
    <3>1. k \notin DOMAIN Tab(pairs)
      BY <1>4, <2>2, <2>3
    <3> QED
      BY <1>1, <2>3, <3>1
  <2>4. CASE hits # {}
    <3>1. Min(hits) \in hits
      <4>1. hits \subseteq Nat
        BY <2>1, <2>2
      <4> QED
        BY <2>4, <4>1, SmallestIs
    <3> DEFINE u == Min(hits)
    <3> HIDE DEF u
    <3>2. u \in 1 .. Len(S[b]) /\ KeyAt(chains, pairs, S[b][u]) = k
      BY <2>2, <3>1 DEF u
    <3>3. CellWith(k) = S[b][u]
      BY <1>1, <2>1, <2>4 DEF u
    <3>4. S[b][u] # NoCell
      BY <2>1, <3>2, SentinelsApart DEF CellsIn
    <3>5. k \in DOMAIN Tab(pairs)
      BY <1>3, <1>6, <3>2
    <3> QED
      BY <1>6, <3>2, <3>3, <3>4, <3>5 DEF b
  <2> QED
    BY <2>3, <2>4
<1> QED
  BY <1>5, <1>6

\* The next bucket with a list.
LEMMA NextListIs ==
  ASSUME NEW b \in Nat, lists \subseteq Buckets
  PROVE  LET n == NextList(b)
         IN  /\ n \in lists \cup {primeCapacity} /\ n \in Nat
             /\ b <= primeCapacity => n >= b
             /\ \A c \in lists : c >= b => c >= n
<1> DEFINE I == {c \in lists : c >= b} \cup {primeCapacity}
           n == NextList(b)
<1>1. I \subseteq Nat /\ I # {}
  BY BucketsAre
<1>2. n = Min(I)
  BY DEF NextList
<1> HIDE DEF I
<1>3. n \in I /\ \A c \in I : n <= c
  BY <1>1, <1>2, SmallestIs
<1>4. n \in Nat
  BY <1>1, <1>3
<1>5. n \in lists \cup {primeCapacity} /\ (n = primeCapacity \/ n >= b)
  BY <1>3 DEF I
<1>6. \A c \in lists : c >= b => c \in I /\ c \in Nat
  BY <1>1 DEF I
<1> QED
  BY <1>3, <1>4, <1>5, <1>6, BucketsAre

\* What there is between two calls.
LEMMA AtRest ==
  ASSUME NEW S, Filled(chains, pairs, lists, S)', walk' = "no", node' = NoCell,
         invoked' = 0, seen' = {}, map' \in BOOLEAN, map' = FALSE => lists' = {},
         size' = Cardinality(DOMAIN pairs')
  PROVE  MapInv'
<1>1. Walking(S, 1)'
  BY DEF Walking
<1> QED
  BY <1>1 DEF MapInv

\* A step that leaves all but the answer alone.
LEMMA SameMap ==
  ASSUME MapInv, UNCHANGED <<content, walking>>
  PROVE  MapInv' /\ TheTable' = TheTable /\ UNCHANGED <<map, walk, seen>>
<1>1. /\ map' = map /\ lists' = lists /\ chains' = chains /\ pairs' = pairs /\ size' = size
      /\ walk' = walk /\ bucket' = bucket /\ node' = node /\ invoked' = invoked /\ seen' = seen
  BY DEF content, walking
<1>2. PICK S, p : Filled(chains, pairs, lists, S) /\ Walking(S, p)
  BY DEF MapInv
<1>3. Filled(chains, pairs, lists, S)'
  BY <1>1, <1>2
<1>4. At' = At /\ \A b, u : Past(b, u, p)' <=> Past(b, u, p)
  BY <1>1 DEF At, Past
<1>5. Walking(S, p)'
  BY <1>1, <1>2, <1>4 DEF Walking
<1>6. map' \in BOOLEAN
  BY <1>1 DEF MapInv
<1>7. MapInv'
  BY <1>1, <1>3, <1>5, <1>6 DEF MapInv
<1>8. TheTable' = TheTable
  BY <1>1 DEF TheTable
<1> QED
  BY <1>1, <1>7, <1>8

-----------------------------------------------------------------------------
(***************************************************************************)
(* The calls.                                                              *)
(***************************************************************************)
\* HashMap_Create makes a map without buckets, or fails.
LEMMA MapCreateIs ==
  ASSUME MapInv, HashMap_Create
  PROVE  MapInv' /\ T!Create
<1>1. PICK S, p : Filled(chains, pairs, lists, S) /\ Walking(S, p)
  BY DEF MapInv
<1>2. /\ walk = "no" /\ map = FALSE /\ lists = {} /\ size = Cardinality(DOMAIN pairs)
      /\ UNCHANGED <<lists, chains, pairs, size>>
      /\ UNCHANGED <<walk, bucket, node, invoked, seen>>
  BY DEF HashMap_Create, MapInv, walking
<1>3. node = NoCell /\ invoked = 0 /\ seen = {}
  BY <1>1, <1>2 DEF Walking
<1>4. TheTable' = TheTable
  BY <1>2 DEF TheTable
<1>5. CASE returned' = <<"created">> /\ map' = TRUE
  <2>1. map' \in BOOLEAN
    BY <1>5
  <2>2. MapInv'
    BY <1>1, <1>2, <1>3, <1>5, <2>1, AtRest
  <2> QED
    BY <1>2, <1>4, <1>5, <2>2 DEF T!Create, T!Idle, T!Answers
<1>6. CASE returned' = <<"NULL">> /\ map' = map
  <2>1. MapInv'
    <3>1. UNCHANGED <<content, walking>>
      BY <1>2, <1>6 DEF content, walking
    <3> QED
      BY <3>1, SameMap
  <2> QED
    BY <1>2, <1>4, <1>6, <2>1 DEF T!Create, T!Idle, T!Answers
<1> QED
  BY <1>5, <1>6 DEF HashMap_Create, Returns

\* HashMap_Size tells the number of pairs.
LEMMA MapSizeIs ==
  ASSUME MapInv, HashMap_Size
  PROVE  MapInv' /\ T!Count
<1>1. PICK S, p : Filled(chains, pairs, lists, S) /\ Walking(S, p)
  BY DEF MapInv
<1>2. MapInv' /\ TheTable' = TheTable /\ UNCHANGED <<map, walk, seen>> /\ walk = "no"
  BY SameMap DEF HashMap_Size
<1>3. KeysDiffer(pairs) /\ IsFiniteSet(DOMAIN pairs)
  BY <1>1, FilledKeys
<1>4. Cardinality(DOMAIN TheTable) = Cardinality(DOMAIN pairs)
  BY <1>3, TabIs, TheTableIs
<1>5. (IF map THEN size ELSE 0) = Cardinality(DOMAIN TheTable)
  <2>1. CASE map = TRUE
    BY <1>2, <1>4, <2>1 DEF MapInv
  <2>2. CASE map = FALSE
    <3>1. lists = {}
      BY <2>2 DEF MapInv
    <3> QED
      BY <1>1, <1>4, <2>2, <3>1, NothingThere
  <2> QED
    BY <2>1, <2>2 DEF MapInv
<1>6. returned' = <<"size", Cardinality(DOMAIN TheTable)>>
  BY <1>5 DEF HashMap_Size, Returns
<1> QED
  BY <1>2, <1>6, TableWords DEF T!Count, T!Idle, T!Answers, T!Keep

\* The outcomes of a look-up are those of the table.
LEMMA LookUpIs ==
  ASSUME NEW S, Filled(chains, pairs, lists, S), map \in BOOLEAN, map = FALSE => lists = {},
         NEW k \in Keys \cup {NoCell}, LookUp(k)
  PROVE  /\ T!LookUp(k)
         /\ Has(k) <=> k \in DOMAIN Tab(pairs)
         /\ Has(k) => map = TRUE /\ k \in Keys
<1>1. NoCell \notin Keys
  BY MapCellsAssumption
<1>2. DOMAIN Tab(pairs) \subseteq Keys
  BY TableKeys
<1>3. CASE map = FALSE
  <2>1. DOMAIN Tab(pairs) = {}
    BY <1>3, NothingThere
  <2>2. returned' = <<"MAP_UNINITIALIZED_ERROR">>
    BY <1>3 DEF LookUp, Returns
  <2> QED
    BY <1>3, <2>1, <2>2 DEF T!LookUp, T!Answers, Has
<1>4. CASE map = TRUE /\ k = NoCell
  <2>1. returned' = <<"MAP_KEY_NULL_ERROR">>
    BY <1>4 DEF LookUp, Returns
  <2>2. k \notin DOMAIN Tab(pairs)
    BY <1>1, <1>2, <1>4
  <2>3. T!LookUp(k)
    BY <1>4, <2>1, <2>2, TheTableIs DEF T!LookUp, T!Answers
  <2>4. ~Has(k)
    BY <1>4 DEF Has
  <2> QED
    BY <2>2, <2>3, <2>4
<1>5. CASE map = TRUE /\ k # NoCell
  <2>1. k \in Keys /\ (Has(k) <=> CellWith(k) # NoCell)
    BY <1>5 DEF Has
  <2>2. CellWith(k) = NoCell <=> k \notin DOMAIN Tab(pairs)
    BY <2>1, CellWithIs
  <2>3. CASE CellWith(k) = NoCell
    <3>1. returned' = <<"MAP_KEY_NOT_FOUND_ERROR">>
      BY <1>5, <2>3 DEF LookUp, Returns
    <3>2. k \notin DOMAIN TheTable
      BY <2>2, <2>3, TheTableIs
    <3> QED
      BY <1>5, <2>1, <2>2, <2>3, <3>1, <3>2 DEF T!LookUp, T!Answers
  <2>4. CASE CellWith(k) # NoCell
    <3> DEFINE pair == pairs[chains[CellWith(k)].m_data]
    <3>1. returned' = <<"MAP_SUCCESS", pair.key, pair.value>>
      BY <1>5, <2>4 DEF LookUp, Returns
    <3>2. PICK u \in 1 .. Len(S[BucketIndex(k)]) :
            LET c == S[BucketIndex(k)][u]
            IN  CellWith(k) = c /\ KeyAt(chains, pairs, c) = k
      BY <2>1, <2>4, CellWithIs
    <3>3. BucketIndex(k) \in lists
      BY <2>1, <2>4, CellWithIs
    <3>4. pair.key = k
      BY <3>2 DEF KeyAt
    <3>5. pair.value = Tab(pairs)[k]
      <4>1. Tab(pairs)[KeyAt(chains, pairs, S[BucketIndex(k)][u])]
              = pairs[chains[S[BucketIndex(k)][u]].m_data].value
        BY <3>3, FilledKeys
      <4> QED
        BY <3>2, <4>1
    <3> HIDE DEF pair
    <3>6. returned' = <<"MAP_SUCCESS", k, TheTable[k]>> /\ k \in DOMAIN TheTable
      BY <2>2, <2>4, <3>1, <3>4, <3>5, TheTableIs
    <3> QED
      BY <1>5, <2>1, <2>2, <2>4, <3>6 DEF T!LookUp, T!Answers
  <2> QED
    BY <2>3, <2>4
<1> QED
  BY <1>3, <1>4, <1>5

\* HashMap_Find.
LEMMA MapFindIs ==
  ASSUME MapInv, NEW k \in Keys \cup {NoCell}, HashMap_Find(k)
  PROVE  MapInv' /\ T!Find(k)
<1>1. PICK S, p : Filled(chains, pairs, lists, S) /\ Walking(S, p)
  BY DEF MapInv
<1>2. MapInv' /\ TheTable' = TheTable /\ UNCHANGED <<map, walk, seen>> /\ walk = "no" /\ LookUp(k)
  BY SameMap DEF HashMap_Find
<1>3. map \in BOOLEAN /\ (map = FALSE => lists = {})
  BY DEF MapInv
<1>4. T!LookUp(k)
  BY <1>1, <1>2, <1>3, LookUpIs
<1> QED
  BY <1>2, <1>4 DEF T!Find, T!Idle, T!Keep

\* The bucket of a cell without the cell.
LEMMA TakenOut ==
  ASSUME NEW S, Filled(chains, pairs, lists, S), NEW b \in lists, NEW u \in 1 .. Len(S[b]),
         NEW c, c = S[b][u],
         chains' = RemoveNode(chains, c), pairs' = Out(pairs, chains[c].m_data),
         lists' = lists
  PROVE  /\ \E S2 : Filled(chains, pairs, lists, S2)'
         /\ TheTable' = Out(TheTable, KeyAt(chains, pairs, c))
         /\ KeyAt(chains, pairs, c) \in DOMAIN TheTable
         /\ Cardinality(DOMAIN pairs') = Cardinality(DOMAIN pairs) - 1
<1> DEFINE S2 == [a \in lists |-> IF a = b THEN RemoveAt(S[b], u) ELSE S[a]]
<1>1. Lost(chains, lists, S, b, u, chains', S2)
  BY DEF Lost
<1> HIDE DEF S2
<1>2. Filled(chains', pairs', lists, S2)
  BY <1>1, FilledShrinks
<1>3. KeysDiffer(pairs) /\ PairsAre(pairs) /\ IsFiniteSet(DOMAIN pairs)
  BY PairsDiffer DEF Filled, PairsAre
<1>4. chains[c].m_data \in DOMAIN pairs
  BY FilledKeys
<1>5. /\ Tab(pairs') = Out(Tab(pairs), KeyAt(chains, pairs, c))
      /\ Cardinality(DOMAIN pairs') = Cardinality(DOMAIN pairs) - 1
  BY <1>3, <1>4, TabShrinks DEF KeyAt
<1>6. TheTable' = Tab(pairs')
  BY DEF TheTable, Tab
<1>7. KeyAt(chains, pairs, c) \in DOMAIN TheTable
  BY <1>3, <1>4, TabIs, TheTableIs DEF KeyAt
<1>8. PICK R : Filled(chains', pairs', lists', R)
  BY <1>2
<1>9. Filled(chains, pairs, lists, R)'
  BY <1>8
<1> QED
  BY <1>5, <1>6, <1>7, <1>9, TheTableIs

\* HashMap_Remove.
LEMMA MapRemoveIs ==
  ASSUME MapInv, NEW k \in Keys \cup {NoCell}, HashMap_Remove(k)
  PROVE  MapInv' /\ T!Remove(k)
<1>1. PICK S, p : Filled(chains, pairs, lists, S) /\ Walking(S, p)
  BY DEF MapInv
<1>2. /\ walk = "no" /\ LookUp(k) /\ UNCHANGED <<walk, bucket, node, invoked, seen>>
      /\ map \in BOOLEAN /\ (map = FALSE => lists = {}) /\ size = Cardinality(DOMAIN pairs)
  BY DEF HashMap_Remove, MapInv, walking
<1>3. node = NoCell /\ invoked = 0 /\ seen = {}
  BY <1>1, <1>2 DEF Walking
<1>4. /\ T!LookUp(k)
      /\ Has(k) <=> k \in DOMAIN Tab(pairs)
      /\ Has(k) => map = TRUE /\ k \in Keys
  BY <1>1, <1>2, LookUpIs
<1>5. CASE ~Has(k)
  <2>1. UNCHANGED <<content, walking>>
    BY <1>5 DEF HashMap_Remove
  <2>2. MapInv' /\ TheTable' = TheTable /\ UNCHANGED <<map, walk, seen>>
    BY <2>1, SameMap
  <2>3. Out(TheTable, k) = TheTable
    BY <1>4, <1>5, OutNothing, TheTableIs
  <2>4. TheTable' = T!Restrict(TheTable, DOMAIN TheTable \ {k})
    BY <2>2, <2>3, TableWords
  <2> QED
    BY <1>2, <1>4, <2>2, <2>4 DEF T!Remove, T!Idle
<1>6. CASE Has(k)
  <2>1. /\ chains' = RemoveNode(chains, CellWith(k))
        /\ pairs' = Out(pairs, chains[CellWith(k)].m_data)
        /\ size' = size - 1 /\ map' = map /\ lists' = lists
    BY <1>6 DEF HashMap_Remove, Out
  <2>2. k \in Keys /\ map = TRUE /\ CellWith(k) # NoCell
    BY <1>4, <1>6 DEF Has
  <2>3. BucketIndex(k) \in lists
    BY <1>1, <2>2, CellWithIs
  <2>4. PICK u \in 1 .. Len(S[BucketIndex(k)]) :
          LET c == S[BucketIndex(k)][u]
          IN  CellWith(k) = c /\ KeyAt(chains, pairs, c) = k
    BY <1>1, <2>2, CellWithIs
  <2> DEFINE c == S[BucketIndex(k)][u]
  <2>5. CellWith(k) = c /\ KeyAt(chains, pairs, c) = k /\ c = S[BucketIndex(k)][u]
    BY <2>4
  <2> HIDE DEF c
  <2>6. chains' = RemoveNode(chains, c) /\ pairs' = Out(pairs, chains[c].m_data)
    BY <2>1, <2>5
  <2>7. /\ \E S2 : Filled(chains, pairs, lists, S2)'
        /\ TheTable' = Out(TheTable, k)
        /\ Cardinality(DOMAIN pairs') = Cardinality(DOMAIN pairs) - 1
    <3>1. /\ \E S2 : Filled(chains, pairs, lists, S2)'
          /\ TheTable' = Out(TheTable, KeyAt(chains, pairs, c))
          /\ Cardinality(DOMAIN pairs') = Cardinality(DOMAIN pairs) - 1
      BY <1>1, <2>1, <2>3, <2>5, <2>6, TakenOut
    <3> QED
      BY <2>5, <3>1
  <2>8. PICK S2 : Filled(chains, pairs, lists, S2)'
    BY <2>7
  <2>9. map' \in BOOLEAN /\ (map' = FALSE => lists' = {})
    BY <1>2, <2>1
  <2>10. size' = Cardinality(DOMAIN pairs')
    BY <1>2, <2>1, <2>7
  <2>11. MapInv'
    BY <1>2, <1>3, <2>8, <2>9, <2>10, AtRest
  <2>12. TheTable' = T!Restrict(TheTable, DOMAIN TheTable \ {k})
    BY <2>7, TableWords
  <2> QED
    BY <1>2, <1>4, <2>1, <2>11, <2>12 DEF T!Remove, T!Idle
<1> QED
  BY <1>5, <1>6

\* The list of a bucket made when it is not there.
LEMMA BucketMade ==
  ASSUME NEW S, Filled(chains, pairs, lists, S), NEW b \in Buckets
  PROVE  \E S2 : /\ Filled(WithList(b), pairs, lists \cup {b}, S2)
                 /\ \A c : c \in CellsIn(WithList(b)) <=> c \in CellsIn(chains)
<1>1. CASE b \in lists
  <2>1. WithList(b) = chains /\ lists \cup {b} = lists
    BY <1>1 DEF WithList
  <2> QED
    BY <2>1
<1>2. CASE b \notin lists
  <2> DEFINE m == NewList(chains, HeadOf(b), TailOf(b))
             ls == lists \cup {b}
             S2 == [a \in ls |-> IF a = b THEN << >> ELSE S[a]]
  <2>1. Opened(chains, lists, S, b, m, ls, S2)
    BY <1>2 DEF Opened
  <2>2. WithList(b) = m
    BY <1>2 DEF WithList
  <2> HIDE DEF m, S2, ls
  <2>3. Filled(m, pairs, ls, S2) /\ \A c : c \in CellsIn(m) <=> c \in CellsIn(chains)
    BY <1>2, <2>1, FilledOpens
  <2> QED
    BY <2>2, <2>3 DEF ls
<1> QED
  BY <1>1, <1>2

\* HashMap_Insert: a failure and a duplicate leave the table as it is, whether the
\* list of the bucket has been made or not.
LEMMA InsertPairIs ==
  ASSUME MapInv, walk = "no", map = TRUE, NEW k \in Keys, NEW v \in Values, InsertPair(k, v),
         UNCHANGED walking
  PROVE  /\ MapInv' /\ map' = TRUE
         /\ \/ /\ k \in DOMAIN TheTable /\ returned' = <<"MAP_KEY_DUPLICATE_ERROR">>
               /\ TheTable' = TheTable
            \/ /\ k \notin DOMAIN TheTable /\ returned' = <<"MAP_ALLOCATION_ERROR">>
               /\ TheTable' = TheTable
            \/ /\ k \notin DOMAIN TheTable /\ returned' = <<"MAP_SUCCESS">>
               /\ TheTable' = PutIn(TheTable, k, v)
<1> DEFINE b == BucketIndex(k)
           mem == WithList(b)
           ls == lists \cup {b}
<1>1. PICK S, p : Filled(chains, pairs, lists, S) /\ Walking(S, p)
  BY DEF MapInv
<1>2. /\ size = Cardinality(DOMAIN pairs)
      /\ walk' = "no" /\ node' = NoCell /\ invoked' = 0 /\ seen' = {}
  BY <1>1 DEF MapInv, Walking, walking
<1>3. k \in DOMAIN TheTable <=> Duplicate(k)
  BY <1>1, CellWithIs, TheTableIs DEF Duplicate
<1>4. b \in Buckets
  BY BucketsAre
<1> HIDE DEF b
<1>5. PICK S2 : /\ Filled(mem, pairs, ls, S2)
                /\ \A c : c \in CellsIn(mem) <=> c \in CellsIn(chains)
  BY <1>1, <1>4, BucketMade
<1> HIDE DEF mem, ls
<1>6. CASE b \notin lists /\ Returns(<<"MAP_ALLOCATION_ERROR">>) /\ UNCHANGED content
  <2>1. MapInv' /\ TheTable' = TheTable /\ map' = map
    BY <1>6, SameMap DEF content, walking
  <2>2. ~Duplicate(k)
    <3>1. BucketIndex(k) \notin lists
      BY <1>6 DEF b
    <3> QED
      BY <1>1, <3>1, CellWithIs DEF Duplicate
  <2> QED
    BY <1>3, <1>6, <2>1, <2>2 DEF Returns
<1>7. CASE /\ lists' = ls /\ chains' = mem /\ UNCHANGED <<map, pairs, size>>
           /\ \/ Duplicate(k) /\ Returns(<<"MAP_KEY_DUPLICATE_ERROR">>)
              \/ ~Duplicate(k) /\ Returns(<<"MAP_ALLOCATION_ERROR">>)
  <2>1. Filled(chains, pairs, lists, S2)'
    BY <1>5, <1>7
  <2>2. MapInv'
    <3>1. map' = TRUE /\ map' \in BOOLEAN /\ size' = Cardinality(DOMAIN pairs')
      BY <1>2, <1>7
    <3> QED
      BY <1>2, <2>1, <3>1, AtRest
  <2>3. TheTable' = TheTable /\ map' = TRUE
    BY <1>7 DEF TheTable
  <2>4. CASE Duplicate(k) /\ Returns(<<"MAP_KEY_DUPLICATE_ERROR">>)
    BY <1>3, <2>2, <2>3, <2>4 DEF Returns
  <2>5. CASE ~Duplicate(k) /\ Returns(<<"MAP_ALLOCATION_ERROR">>)
    BY <1>3, <2>2, <2>3, <2>5 DEF Returns
  <2> QED
    BY <1>7, <2>4, <2>5
<1>8. CASE /\ lists' = ls /\ ~Duplicate(k) /\ size' = size + 1 /\ map' = map
           /\ Returns(<<"MAP_SUCCESS">>)
           /\ \E pair \in FreePairs, new \in FreeNodes :
                /\ pairs' = With(pairs, pair, [key |-> k, value |-> v])
                /\ chains' = InsertNodeBefore(mem, mem[HeadOf(b)].m_next, new, pair)
  <2>1. PICK pair \in FreePairs, new \in FreeNodes :
          /\ pairs' = With(pairs, pair, [key |-> k, value |-> v])
          /\ chains' = InsertNodeBefore(mem, mem[HeadOf(b)].m_next, new, pair)
    BY <1>8
  <2>2. pair \in PairCells \ DOMAIN pairs /\ pairs' = With(pairs, pair, NewPair(k, v))
    BY <2>1 DEF FreePairs, NewPair
  <2>3. new \in NodeCells \ DOMAIN mem
    BY <1>5, <2>1 DEF FreeNodes, CellsIn
  <2> DEFINE S3 == [a \in ls |-> IF a = b THEN InsertAt(S2[b], 1, new) ELSE S2[a]]
  <2>4. Grew(mem, ls, S2, b, new, pair, chains', S3)
    BY <2>1 DEF Grew, ls
  <2>5. k \notin DOMAIN Tab(pairs)
    BY <1>3, <1>8, TheTableIs
  <2> HIDE DEF S3
  <2>6. Filled(chains', pairs', ls, S3)
    <3>1. Grew(mem, ls, S2, BucketIndex(k), new, pair, chains', S3) /\ BucketIndex(k) \in ls
      BY <2>4 DEF b, ls
    <3> QED
      BY <1>5, <2>2, <2>3, <2>5, <3>1, FilledGrows
  <2>7. PICK R : Filled(chains', pairs', ls, R)
    BY <2>6
  <2>8. Filled(chains, pairs, lists, R)'
    BY <1>8, <2>7
  <2>9. KeysDiffer(pairs) /\ PairsAre(pairs)
    BY <1>1, PairsDiffer DEF Filled
  <2>10. /\ Tab(pairs') = PutIn(Tab(pairs), k, v)
         /\ Cardinality(DOMAIN pairs') = Cardinality(DOMAIN pairs) + 1
    BY <2>2, <2>5, <2>9, TabGrows
  <2>11. TheTable' = PutIn(TheTable, k, v)
    <3>1. TheTable' = Tab(pairs')
      BY DEF TheTable, Tab
    <3> QED
      BY <2>10, <3>1, TheTableIs
  <2>12. MapInv'
    <3>1. map' = TRUE /\ map' \in BOOLEAN /\ size' = Cardinality(DOMAIN pairs')
      BY <1>2, <1>8, <2>10
    <3> QED
      BY <1>2, <2>8, <3>1, AtRest
  <2> QED
    BY <1>3, <1>8, <2>11, <2>12 DEF Returns
<1>9. \/ b \notin lists /\ Returns(<<"MAP_ALLOCATION_ERROR">>) /\ UNCHANGED content
      \/ /\ lists' = ls /\ chains' = mem /\ UNCHANGED <<map, pairs, size>>
         /\ \/ Duplicate(k) /\ Returns(<<"MAP_KEY_DUPLICATE_ERROR">>)
            \/ ~Duplicate(k) /\ Returns(<<"MAP_ALLOCATION_ERROR">>)
      \/ /\ lists' = ls /\ ~Duplicate(k) /\ size' = size + 1 /\ map' = map
         /\ Returns(<<"MAP_SUCCESS">>)
         /\ \E pair \in FreePairs, new \in FreeNodes :
              /\ pairs' = With(pairs, pair, [key |-> k, value |-> v])
              /\ chains' = InsertNodeBefore(mem, mem[HeadOf(b)].m_next, new, pair)
  BY DEF InsertPair, InsertFailed, b, mem, ls
<1> QED
  BY <1>6, <1>7, <1>8, <1>9

\* HashMap_Insert, whatever it finds and whichever allocation fails.
LEMMA MapInsertIs ==
  ASSUME MapInv, NEW k \in Keys \cup {NoCell}, NEW v \in Values, HashMap_Insert(k, v)
  PROVE  MapInv' /\ T!Insert(k, v)
<1>1. walk = "no" /\ UNCHANGED walking /\ walk' = walk /\ seen' = seen /\ map \in BOOLEAN
  BY DEF HashMap_Insert, MapInv, walking
<1>2. PICK S, p : Filled(chains, pairs, lists, S) /\ Walking(S, p)
  BY DEF MapInv
<1>3. NoCell \notin Keys
  BY MapCellsAssumption
<1>4. CASE map = FALSE
  <2>1. Returns(<<"MAP_UNINITIALIZED_ERROR">>) /\ UNCHANGED content
    BY <1>4 DEF HashMap_Insert
  <2>2. MapInv' /\ TheTable' = TheTable /\ map' = map
    BY <1>1, <2>1, SameMap
  <2> QED
    BY <1>1, <1>4, <2>1, <2>2 DEF T!Insert, T!Idle, T!Answers, Returns
<1>5. CASE map = TRUE /\ k = NoCell
  <2>1. Returns(<<"MAP_KEY_NULL_ERROR">>) /\ UNCHANGED content
    BY <1>5 DEF HashMap_Insert
  <2>2. MapInv' /\ TheTable' = TheTable /\ map' = map
    BY <1>1, <2>1, SameMap
  <2>3. k \notin DOMAIN TheTable
    BY <1>2, <1>3, <1>5, TableKeys, TheTableIs
  <2> QED
    BY <1>1, <1>5, <2>1, <2>2, <2>3 DEF T!Insert, T!Idle, T!Answers, Returns
<1>6. CASE map = TRUE /\ k # NoCell
  <2>1. InsertPair(k, v) /\ k \in Keys
    BY <1>6 DEF HashMap_Insert
  <2>2. /\ MapInv' /\ map' = TRUE
        /\ \/ /\ k \in DOMAIN TheTable /\ returned' = <<"MAP_KEY_DUPLICATE_ERROR">>
              /\ TheTable' = TheTable
           \/ /\ k \notin DOMAIN TheTable /\ returned' = <<"MAP_ALLOCATION_ERROR">>
              /\ TheTable' = TheTable
           \/ /\ k \notin DOMAIN TheTable /\ returned' = <<"MAP_SUCCESS">>
              /\ TheTable' = PutIn(TheTable, k, v)
    BY <1>1, <1>6, <2>1, InsertPairIs
  <2>3. PutIn(TheTable, k, v) = T!Put(k, v)
    BY DEF PutIn, T!Put
  <2> QED
    BY <1>1, <1>6, <2>2, <2>3 DEF T!Insert, T!Idle, T!Answers
<1> QED
  BY <1>1, <1>4, <1>5, <1>6

-----------------------------------------------------------------------------
(***************************************************************************)
(* The loops.                                                              *)
(***************************************************************************)
LEMMA BucketsOfLists ==
  ASSUME NEW S, Filled(chains, pairs, lists, S)
  PROVE  /\ Rows(chains, lists, S) /\ lists \subseteq Buckets
         /\ \A b \in lists : b \in Nat /\ b < primeCapacity
BY BucketsAre DEF Filled, Rows

\* The places of a bucket.
LEMMA Places ==
  ASSUME NEW S, Filled(chains, pairs, lists, S), NEW b \in lists
  PROVE  LET e == Row(S[b], HeadOf(b), TailOf(b))
             n == Len(S[b])
         IN  /\ n \in Nat /\ e[n + 1] = TailOf(b) /\ chains[HeadOf(b)].m_next = e[1]
             /\ \A k \in 1 .. n : e[k] = S[b][k]
             /\ \A k \in 1 .. n : chains[e[k]].m_next = e[k + 1] /\ e[k + 1] # NoCell
             /\ \A j, k \in 1 .. n : S[b][j] = S[b][k] => j = k
<1> DEFINE e == Row(S[b], HeadOf(b), TailOf(b))
           n == Len(S[b])
<1>1. Rows(chains, lists, S)
  BY BucketsOfLists
<1>2. /\ n \in Nat /\ e[0] = HeadOf(b) /\ e[n + 1] = TailOf(b)
      /\ \A k \in 1 .. n : e[k] = S[b][k]
      /\ \A k \in 0 .. n + 1 : e[k] # NoCell
      /\ \A j, k \in 0 .. n + 1 : e[j] = e[k] => j = k
      /\ \A k \in 0 .. n : chains[e[k]].m_next = e[k + 1]
  <2>1. n \in Nat /\ e[0] = HeadOf(b) /\ e[n + 1] = TailOf(b)
    BY <1>1, BucketFacts
  <2>2. \A k \in 1 .. n : e[k] = S[b][k]
    BY <1>1, BucketFacts
  <2>3. \A k \in 0 .. n + 1 : e[k] # NoCell
    BY <1>1, BucketFacts
  <2>4. \A j, k \in 0 .. n + 1 : e[j] = e[k] => j = k
    BY <1>1, BucketFacts
  <2>5. \A k \in 0 .. n : chains[e[k]].m_next = e[k + 1]
    BY <1>1, BucketFacts
  <2> QED
    BY <2>1, <2>2, <2>3, <2>4, <2>5
<1> HIDE DEF e, n
<1>3. chains[HeadOf(b)].m_next = e[1]
  <2>1. 0 \in 0 .. n /\ 0 + 1 = 1
    BY <1>2
  <2> QED
    BY <1>2, <2>1
<1>4. \A k \in 1 .. n : chains[e[k]].m_next = e[k + 1] /\ e[k + 1] # NoCell
  <2>1. \A k \in 1 .. n : k \in 0 .. n /\ k + 1 \in 0 .. n + 1
    BY <1>2
  <2> QED
    BY <1>2, <2>1
<1>5. \A j, k \in 1 .. n : S[b][j] = S[b][k] => j = k
  <2>1. \A k \in 1 .. n : k \in 0 .. n + 1
    BY <1>2
  <2> QED
    BY <1>2, <2>1
<1> QED
  BY <1>2, <1>3, <1>4, <1>5 DEF e, n

\* HashMap_ForEach and HashMap_Destroy begin at the first bucket that has a list.
LEMMA TraverseIs ==
  ASSUME MapInv, NEW how \in {"each", "all"}, Traverse(how)
  PROVE  MapInv' /\ T!Visit(how)
<1>1. PICK S, p : Filled(chains, pairs, lists, S) /\ Walking(S, p)
  BY DEF MapInv
<1>2. /\ walk = "no" /\ map = TRUE /\ size = Cardinality(DOMAIN pairs)
      /\ map' = map /\ lists' = lists /\ chains' = chains /\ pairs' = pairs /\ size' = size
      /\ node' = node /\ invoked' = invoked /\ seen' = seen /\ returned' = returned
      /\ walk' = how /\ bucket' = NextList(0)
  BY DEF Traverse, MapInv, content
<1>3. node = NoCell /\ invoked = 0 /\ seen = {}
  BY <1>1, <1>2 DEF Walking
<1>4. /\ bucket' \in lists \cup {primeCapacity} /\ bucket' \in Nat
      /\ \A c \in lists : c \in Nat /\ c >= bucket'
  BY <1>1, <1>2, BucketsOfLists, NextListIs
<1>5. Filled(chains, pairs, lists, S)'
  BY <1>1, <1>2
<1>6. bucket' \in lists =>
        /\ 1 \in 1 .. Len(S[bucket']) + 1
        /\ At' = Row(S[bucket'], HeadOf(bucket'), TailOf(bucket'))[1]
  <2> SUFFICES ASSUME NEW b \in lists, b = bucket'
               PROVE  /\ 1 \in 1 .. Len(S[b]) + 1
                      /\ At' = Row(S[b], HeadOf(b), TailOf(b))[1]
    OBVIOUS
  <2>1. /\ Len(S[b]) \in Nat
        /\ chains[HeadOf(b)].m_next = Row(S[b], HeadOf(b), TailOf(b))[1]
    BY <1>1, Places
  <2>2. At' = chains[HeadOf(b)].m_next
    BY <1>2, <1>3 DEF At
  <2> QED
    BY <2>1, <2>2
<1>7. \A b \in lists : \A u \in 1 .. Len(S[b]) : ~Past(b, u, 1)'
  <2> SUFFICES ASSUME NEW b \in lists, NEW u \in 1 .. Len(S[b])
               PROVE  ~Past(b, u, 1)'
    OBVIOUS
  <2>1. b \in Nat /\ b >= bucket' /\ u >= 1 /\ u \in Int
    BY <1>4
  <2> QED
    BY <1>4, <2>1 DEF Past
<1>8. IsFiniteSet(seen') /\ invoked' = Cardinality(seen')
  BY <1>2, <1>3, FS_EmptySet
<1>9. Walking(S, 1)'
  BY <1>2, <1>3, <1>4, <1>6, <1>7, <1>8 DEF Walking
<1>10. MapInv'
  <2>1. map' \in BOOLEAN
    BY <1>2
  <2> QED
    BY <1>2, <1>5, <1>9, <2>1 DEF MapInv
<1>11. TheTable' = TheTable
  BY <1>2 DEF TheTable
<1> QED
  BY <1>2, <1>3, <1>10, <1>11 DEF T!Visit

\* The loop of HashMap_ForEach shows a pair it has not shown.
LEMMA ForEachActionIs ==
  ASSUME MapInv, ForEachAction
  PROVE  MapInv' /\ T!Show
<1> DEFINE b == bucket
           pair == pairs[chains[At].m_data]
<1>1. PICK S, p : Filled(chains, pairs, lists, S) /\ Walking(S, p)
  BY DEF MapInv
<1>2. /\ walk = "each" /\ b \in lists /\ At # TailOf(b) /\ size = Cardinality(DOMAIN pairs)
      /\ map = TRUE
      /\ map' = map /\ lists' = lists /\ chains' = chains /\ pairs' = pairs /\ size' = size
      /\ walk' = walk /\ bucket' = b /\ node' = chains[At].m_next
      /\ invoked' = invoked + 1 /\ seen' = seen \cup {pair.key}
      /\ returned' = <<"pair", pair.key, pair.value>>
  BY DEF ForEachAction, MapInv, content, Returns, After
<1> HIDE DEF b
<1> DEFINE e == Row(S[b], HeadOf(b), TailOf(b))
           n == Len(S[b])
           k == KeyAt(chains, pairs, S[b][p])
<1>3. /\ p \in 1 .. n + 1 /\ At = e[p]
      /\ IsFiniteSet(seen) /\ invoked = Cardinality(seen)
      /\ \A j : j \in seen <=>
           \E a \in lists : \E u \in 1 .. Len(S[a]) :
             KeyAt(chains, pairs, S[a][u]) = j /\ Past(a, u, p)
  BY <1>1, <1>2 DEF Walking, b
<1>4. /\ n \in Nat /\ e[n + 1] = TailOf(b)
      /\ \A j \in 1 .. n : e[j] = S[b][j]
      /\ \A j \in 1 .. n : chains[e[j]].m_next = e[j + 1] /\ e[j + 1] # NoCell
      /\ \A u, j \in 1 .. n : S[b][u] = S[b][j] => u = j
  BY <1>1, <1>2, Places
<1> HIDE DEF e, n
<1>5. p \in 1 .. n /\ At = S[b][p]
  <2>1. p \in 1 .. n
    BY <1>2, <1>3, <1>4
  <2> QED
    BY <1>3, <1>4, <2>1
<1>6. pair.key = k /\ pair.value = Tab(pairs)[k] /\ k \in DOMAIN Tab(pairs) /\ BucketIndex(k) = b
  <2>1. p \in 1 .. Len(S[b])
    BY <1>5 DEF n
  <2>2. /\ Tab(pairs)[KeyAt(chains, pairs, S[b][p])] = pairs[chains[S[b][p]].m_data].value
        /\ BucketIndex(KeyAt(chains, pairs, S[b][p])) = b
    BY <1>1, <1>2, <2>1, FilledKeys
  <2>3. k \in DOMAIN Tab(pairs)
    BY <1>1, <1>2, <2>1, FilledKeys
  <2> QED
    BY <1>5, <2>2, <2>3 DEF KeyAt
<1> HIDE DEF pair
<1>7. ASSUME NEW a \in lists, NEW u \in 1 .. Len(S[a]), KeyAt(chains, pairs, S[a][u]) = k
      PROVE  a = b /\ u = p
  <2>1. BucketIndex(KeyAt(chains, pairs, S[a][u])) = a /\ S[a][u] \in CellsIn(chains)
    BY <1>1, FilledKeys
  <2>2. a = b
    BY <1>6, <1>7, <2>1
  <2>3. p \in 1 .. Len(S[b])
    BY <1>5 DEF n
  <2>4. S[b][p] \in CellsIn(chains)
    BY <1>1, <1>2, <2>3, FilledKeys
  <2>5. S[a][u] = S[b][p]
    BY <1>1, <1>7, <2>1, <2>4 DEF Filled, Paired
  <2> QED
    BY <1>4, <1>5, <2>2, <2>5 DEF n
<1> HIDE DEF k
<1>8. b \in Nat
  BY <1>1, <1>2, BucketsOfLists
<1>9. k \notin seen
  <2> SUFFICES ASSUME k \in seen
               PROVE  FALSE
    OBVIOUS
  <2>1. PICK a \in lists : \E u \in 1 .. Len(S[a]) : KeyAt(chains, pairs, S[a][u]) = k /\ Past(a, u, p)
    BY <1>3
  <2>2. PICK u \in 1 .. Len(S[a]) : KeyAt(chains, pairs, S[a][u]) = k /\ Past(a, u, p)
    BY <2>1
  <2>3. a = b /\ u = p
    BY <1>7, <2>2
  <2> QED
    BY <1>5, <1>8, <2>2, <2>3 DEF Past, b
<1>10. seen' = seen \cup {k} /\ IsFiniteSet(seen') /\ invoked' = Cardinality(seen')
  <2>1. seen' = seen \cup {k}
    BY <1>2, <1>6
  <2>2. IsFiniteSet(seen \cup {k}) /\ Cardinality(seen \cup {k}) = Cardinality(seen) + 1
    BY <1>3, <1>9, FS_AddElement
  <2> QED
    BY <1>2, <1>3, <2>1, <2>2
<1>11. \A a \in lists : \A u \in 1 .. Len(S[a]) :
         Past(a, u, p + 1)' <=> Past(a, u, p) \/ (a = b /\ u = p)
  <2> SUFFICES ASSUME NEW a \in lists, NEW u \in 1 .. Len(S[a])
               PROVE  Past(a, u, p + 1)' <=> Past(a, u, p) \/ (a = b /\ u = p)
    OBVIOUS
  <2>1. a \in Nat /\ u \in Int /\ p \in Int
    BY <1>1, <1>5, BucketsOfLists
  <2> QED
    BY <1>2, <1>8, <2>1 DEF Past, b
<1>12. \A j : j \in seen' <=>
         \E a \in lists : \E u \in 1 .. Len(S[a]) :
           KeyAt(chains, pairs, S[a][u]) = j /\ Past(a, u, p + 1)'
  <2>1. ASSUME NEW j, j \in seen'
        PROVE  \E a \in lists : \E u \in 1 .. Len(S[a]) :
                 KeyAt(chains, pairs, S[a][u]) = j /\ Past(a, u, p + 1)'
    <3>1. CASE j = k
      <4>1. p \in 1 .. Len(S[b]) /\ KeyAt(chains, pairs, S[b][p]) = k
        BY <1>5 DEF n, k
      <4> QED
        BY <1>2, <1>11, <3>1, <4>1
    <3>2. CASE j \in seen
      BY <1>3, <1>11, <3>2
    <3> QED
      BY <1>10, <2>1, <3>1, <3>2
  <2>2. ASSUME NEW j, NEW a \in lists, NEW u \in 1 .. Len(S[a]),
               KeyAt(chains, pairs, S[a][u]) = j, Past(a, u, p + 1)'
        PROVE  j \in seen'
    <3>1. Past(a, u, p) \/ (a = b /\ u = p)
      BY <1>11, <2>2
    <3> QED
      BY <1>3, <1>10, <2>2, <3>1 DEF k
  <2> QED
    BY <2>1, <2>2
<1>13. At' = e[p + 1] /\ p + 1 \in 1 .. n + 1
  <2>1. node' = e[p + 1] /\ e[p + 1] # NoCell
    BY <1>2, <1>3, <1>4, <1>5
  <2> QED
    BY <1>4, <1>5, <2>1 DEF At
<1>14. Walking(S, p + 1)'
  BY <1>2, <1>10, <1>12, <1>13 DEF Walking, e, n
<1>15. Filled(chains, pairs, lists, S)'
  BY <1>1, <1>2
<1>16. MapInv'
  <2>1. map' \in BOOLEAN
    BY <1>2
  <2> QED
    BY <1>2, <1>14, <1>15, <2>1 DEF MapInv
<1>17. TheTable' = TheTable
  BY <1>2 DEF TheTable
<1>18. k \in DOMAIN TheTable \ seen /\ returned' = <<"pair", k, TheTable[k]>>
  BY <1>2, <1>6, <1>9, TheTableIs
<1> QED
  BY <1>2, <1>10, <1>16, <1>17, <1>18 DEF T!Show, T!Answers

\* Going to the next bucket shows nothing.
LEMMA NextBucketIs ==
  ASSUME MapInv, ForEach_next_bucket
  PROVE  MapInv' /\ UNCHANGED T!tablevars
<1> DEFINE b == bucket
<1>1. PICK S, p : Filled(chains, pairs, lists, S) /\ Walking(S, p)
  BY DEF MapInv
<1>2. /\ walk = "each" /\ b \in lists /\ At = TailOf(b) /\ size = Cardinality(DOMAIN pairs)
      /\ map = TRUE
      /\ map' = map /\ lists' = lists /\ chains' = chains /\ pairs' = pairs /\ size' = size
      /\ walk' = walk /\ bucket' = NextList(b + 1) /\ node' = NoCell
      /\ invoked' = invoked /\ seen' = seen /\ returned' = returned
  BY DEF ForEach_next_bucket, MapInv, content
<1> HIDE DEF b
<1>3. /\ p \in 1 .. Len(S[b]) + 1 /\ At = Row(S[b], HeadOf(b), TailOf(b))[p]
      /\ IsFiniteSet(seen) /\ invoked = Cardinality(seen)
      /\ \A j : j \in seen <=>
           \E a \in lists : \E u \in 1 .. Len(S[a]) :
             KeyAt(chains, pairs, S[a][u]) = j /\ Past(a, u, p)
  BY <1>1, <1>2 DEF Walking, b
<1>4. p = Len(S[b]) + 1 /\ Len(S[b]) \in Nat
  <2> DEFINE e == Row(S[b], HeadOf(b), TailOf(b))
             n == Len(S[b])
  <2>1. n \in Nat /\ \A k \in 1 .. n : e[k] = S[b][k]
    BY <1>1, <1>2, Places
  <2>2. p \in 1 .. n + 1 /\ e[p] = TailOf(b)
    BY <1>2, <1>3
  <2>3. \A k \in 1 .. n : S[b][k] \in NodeCells
    BY <1>1, <1>2, FilledKeys DEF CellsIn
  <2>4. TailOf(b) \notin NodeCells
    BY <1>1, <1>2, BucketsOfLists, SentinelsApart
  <2> HIDE DEF e, n
  <2>5. p \notin 1 .. n
    BY <2>1, <2>2, <2>3, <2>4
  <2>6. p = n + 1
    BY <2>1, <2>2, <2>5
  <2> QED
    BY <2>1, <2>6 DEF n
<1>5. b \in Nat /\ b < primeCapacity /\ primeCapacity \in Nat
      /\ lists \subseteq Buckets /\ \A a \in lists : a \in Nat
  BY <1>1, <1>2, BucketsOfLists, BucketsAre
<1>6. /\ bucket' \in lists \cup {primeCapacity} /\ bucket' \in Nat /\ bucket' >= b + 1
      /\ \A c \in lists : c >= b + 1 => c >= bucket'
  <2>1. b + 1 \in Nat /\ b + 1 <= primeCapacity
    BY <1>5
  <2> DEFINE d == b + 1
  <2> HIDE DEF d
  <2>2. /\ NextList(d) \in lists \cup {primeCapacity} /\ NextList(d) \in Nat
        /\ NextList(d) >= d
        /\ \A c \in lists : c >= d => c >= NextList(d)
    BY <1>5, <2>1, NextListIs DEF d
  <2> QED
    BY <1>2, <2>2 DEF d
<1>7. \A a \in lists : \A u \in 1 .. Len(S[a]) : Past(a, u, 1)' <=> Past(a, u, p)
  <2> SUFFICES ASSUME NEW a \in lists, NEW u \in 1 .. Len(S[a])
               PROVE  Past(a, u, 1)' <=> Past(a, u, p)
    OBVIOUS
  <2>1. a \in Nat /\ u \in Int /\ u >= 1
    BY <1>5
  <2>2. Past(a, u, 1)' <=> a < bucket'
    BY <1>6, <2>1 DEF Past
  <2>3. a = b => u < p
    BY <1>4
  <2>4. Past(a, u, p) <=> a < b + 1
    BY <1>5, <2>1, <2>3 DEF Past, b
  <2>5. a < b + 1 <=> a < bucket'
    BY <1>5, <1>6, <2>1
  <2> QED
    BY <2>2, <2>4, <2>5
<1>8. bucket' \in lists =>
        /\ 1 \in 1 .. Len(S[bucket']) + 1
        /\ At' = Row(S[bucket'], HeadOf(bucket'), TailOf(bucket'))[1]
  <2> SUFFICES ASSUME NEW a \in lists, a = bucket'
               PROVE  /\ 1 \in 1 .. Len(S[a]) + 1
                      /\ At' = Row(S[a], HeadOf(a), TailOf(a))[1]
    OBVIOUS
  <2>1. /\ Len(S[a]) \in Nat
        /\ chains[HeadOf(a)].m_next = Row(S[a], HeadOf(a), TailOf(a))[1]
    BY <1>1, Places
  <2>2. At' = chains[HeadOf(a)].m_next
    BY <1>2 DEF At
  <2> QED
    BY <2>1, <2>2
<1>9. Walking(S, 1)'
  BY <1>2, <1>3, <1>6, <1>7, <1>8 DEF Walking
<1>10. Filled(chains, pairs, lists, S)'
  BY <1>1, <1>2
<1>11. MapInv'
  <2>1. map' \in BOOLEAN
    BY <1>2
  <2> QED
    BY <1>2, <1>9, <1>10, <2>1 DEF MapInv
<1>12. TheTable' = TheTable
  BY <1>2 DEF TheTable
<1> QED
  BY <1>2, <1>11, <1>12 DEF T!tablevars

\* HashMap_ForEach tells how many it has shown, all of them if it was not stopped.
LEMMA ForEachReturnsIs ==
  ASSUME MapInv, HashMap_ForEach_returns
  PROVE  MapInv' /\ T!Leave
<1>1. PICK S, p : Filled(chains, pairs, lists, S) /\ Walking(S, p)
  BY DEF MapInv
<1>2. /\ walk = "each" /\ size = Cardinality(DOMAIN pairs)
      /\ map = TRUE
      /\ map' = map /\ lists' = lists /\ chains' = chains /\ pairs' = pairs /\ size' = size
      /\ walk' = "no" /\ node' = NoCell /\ invoked' = 0 /\ seen' = {}
      /\ \/ bucket = primeCapacity /\ returned' = <<"size", invoked>>
         \/ invoked > 0 /\ returned' = <<"stopped", invoked>>
  BY DEF HashMap_ForEach_returns, MapInv, content, EndTraverse, Returns
<1>3. /\ IsFiniteSet(seen) /\ invoked = Cardinality(seen)
      /\ \A j : j \in seen <=>
           \E a \in lists : \E u \in 1 .. Len(S[a]) :
             KeyAt(chains, pairs, S[a][u]) = j /\ Past(a, u, p)
  BY <1>1, <1>2 DEF Walking
<1>4. MapInv'
  <2>1. map' \in BOOLEAN /\ (map' = FALSE => lists' = {})
    BY <1>2
  <2>2. Filled(chains, pairs, lists, S)'
    BY <1>1, <1>2
  <2> QED
    BY <1>2, <2>1, <2>2, AtRest
<1>5. TheTable' = TheTable
  BY <1>2 DEF TheTable
<1>6. T!Cardinality(seen) = invoked
  BY <1>3, TableWords
<1>7. CASE bucket = primeCapacity /\ returned' = <<"size", invoked>>
  <2>1. \A a \in lists : \A u \in 1 .. Len(S[a]) : Past(a, u, p)
    BY <1>1, <1>7, BucketsOfLists DEF Past
  <2>2. \A j : j \in DOMAIN Tab(pairs) <=>
          \E a \in lists : \E u \in 1 .. Len(S[a]) : KeyAt(chains, pairs, S[a][u]) = j
    BY <1>1, FilledKeys
  <2>3. \A j : j \in seen <=> j \in DOMAIN Tab(pairs)
    BY <1>3, <2>1, <2>2
  <2>4. seen = DOMAIN TheTable
    <3>1. \A j : j \in seen <=> j \in DOMAIN TheTable
      BY <2>3, TheTableIs
    <3> QED
      BY <3>1
  <2> QED
    BY <1>2, <1>4, <1>5, <1>6, <1>7, <2>4 DEF T!Leave, T!Answers, T!Keep
<1>8. CASE invoked > 0 /\ returned' = <<"stopped", invoked>>
  <2>1. seen # {}
    BY <1>3, <1>8, FS_EmptySet
  <2> QED
    BY <1>2, <1>4, <1>5, <1>6, <1>8, <2>1 DEF T!Leave, T!Answers, T!Keep
<1> QED
  BY <1>2, <1>7, <1>8

\* The loop of HashMap_Destroy hands over the first pair of the bucket.
LEMMA DestroyPairIs ==
  ASSUME MapInv, Destroy_pair
  PROVE  MapInv' /\ T!HandOver
<1> DEFINE b == bucket
           first == chains[HeadOf(b)].m_next
           pair == chains[first].m_data
<1>1. PICK S, p : Filled(chains, pairs, lists, S) /\ Walking(S, p)
  BY DEF MapInv
<1>2. /\ walk = "all" /\ map = TRUE /\ ChainOf(b) # << >>
      /\ map' = map /\ lists' = lists /\ size' = size
      /\ walk' = walk /\ bucket' = bucket /\ node' = node /\ invoked' = invoked /\ seen' = seen
      /\ returned' = <<"pair", pairs[pair].key, pairs[pair].value>>
      /\ chains' = RemoveNode(chains, first) /\ pairs' = Out(pairs, pair)
  BY DEF Destroy_pair, MapInv, walking, Returns, Out
<1> HIDE DEF b, first, pair
<1>3. b \in lists /\ S[b] # << >>
  <2>1. b \in lists
    BY <1>2 DEF ChainOf
  <2>2. ChainOf(b) = S[b]
    BY <1>1, <2>1, BucketsOfLists, BucketChain DEF ChainOf
  <2> QED
    BY <1>2, <2>1, <2>2
<1>4. first = S[b][1] /\ 1 \in 1 .. Len(S[b])
  <2>1. /\ Len(S[b]) \in Nat
        /\ chains[HeadOf(b)].m_next = Row(S[b], HeadOf(b), TailOf(b))[1]
        /\ \A k \in 1 .. Len(S[b]) : Row(S[b], HeadOf(b), TailOf(b))[k] = S[b][k]
    BY <1>1, <1>3, Places
  <2>2. S[b] \in Seq(NodeCells)
    BY <1>1, <1>3, BucketsOfLists, BucketFacts
  <2>3. Len(S[b]) # 0
    BY <1>3, <2>2, EmptySeq
  <2>4. 1 \in 1 .. Len(S[b])
    BY <2>1, <2>3
  <2> QED
    BY <2>1, <2>4 DEF first
<1> DEFINE k == KeyAt(chains, pairs, first)
<1>5. /\ \E S2 : Filled(chains, pairs, lists, S2)'
      /\ TheTable' = Out(TheTable, k) /\ k \in DOMAIN TheTable
  BY <1>1, <1>2, <1>3, <1>4, TakenOut DEF pair
<1>6. PICK S2 : Filled(chains, pairs, lists, S2)'
  BY <1>5
<1>7. pairs[pair].key = k /\ pairs[pair].value = TheTable[k]
  <2>1. Tab(pairs)[KeyAt(chains, pairs, S[b][1])] = pairs[chains[S[b][1]].m_data].value
    BY <1>1, <1>3, <1>4, FilledKeys
  <2> QED
    BY <1>4, <2>1, TheTableIs DEF pair, KeyAt
<1> HIDE DEF k
<1>8. Walking(S2, 1)'
  BY <1>1, <1>2 DEF Walking
<1>9. MapInv'
  <2>1. map' \in BOOLEAN
    BY <1>2
  <2> QED
    BY <1>2, <1>6, <1>8, <2>1 DEF MapInv
<1>10. TheTable' = T!Restrict(TheTable, DOMAIN TheTable \ {k})
  BY <1>5, TableWords
<1>11. returned' = <<"pair", k, TheTable[k]>>
  BY <1>2, <1>7
<1> QED
  BY <1>2, <1>5, <1>9, <1>10, <1>11 DEF T!HandOver, T!Answers

\* Freeing the list of an emptied bucket changes nothing of the table.
LEMMA DestroyListIs ==
  ASSUME MapInv, Destroy_list
  PROVE  MapInv' /\ UNCHANGED T!tablevars
<1> DEFINE b == bucket
<1>1. PICK S, p : Filled(chains, pairs, lists, S) /\ Walking(S, p)
  BY DEF MapInv
<1>2. /\ walk = "all" /\ map = TRUE /\ b \in lists /\ ChainOf(b) = << >>
      /\ map' = map /\ pairs' = pairs /\ walk' = walk /\ node' = node
      /\ invoked' = invoked /\ seen' = seen /\ returned' = returned
      /\ chains' = Freed(chains, b) /\ lists' = lists \ {b} /\ bucket' = NextList(b + 1)
  BY DEF Destroy_list, MapInv, Freed
<1>3. node = NoCell /\ invoked = 0 /\ seen = {} /\ \A a \in lists : a >= b
  BY <1>1, <1>2 DEF Walking
<1> HIDE DEF b
<1>4. S[b] = << >>
  <2>1. ChainOf(b) = S[b]
    BY <1>1, <1>2, BucketsOfLists, BucketChain DEF ChainOf
  <2> QED
    BY <1>2, <2>1
<1>5. Filled(chains', pairs, lists', S)
  BY <1>1, <1>2, <1>4, FilledCloses
<1>6. Filled(chains, pairs, lists, S)'
  BY <1>2, <1>5
<1>7. b \in Nat /\ b < primeCapacity /\ primeCapacity \in Nat
      /\ lists \subseteq Buckets /\ \A a \in lists : a \in Nat
  BY <1>1, <1>2, BucketsOfLists, BucketsAre
<1>8. /\ bucket' \in lists \cup {primeCapacity} /\ bucket' \in Nat /\ bucket' >= b + 1
      /\ \A c \in lists : c >= b + 1 => c >= bucket'
  <2>1. b + 1 \in Nat /\ b + 1 <= primeCapacity
    BY <1>7
  <2> DEFINE d == b + 1
  <2> HIDE DEF d
  <2>2. /\ NextList(d) \in lists \cup {primeCapacity} /\ NextList(d) \in Nat
        /\ NextList(d) >= d
        /\ \A c \in lists : c >= d => c >= NextList(d)
    BY <1>7, <2>1, NextListIs DEF d
  <2> QED
    BY <1>2, <2>2 DEF d
<1>9. bucket' \in lists' \cup {primeCapacity}
  BY <1>2, <1>7, <1>8
<1>10. \A a \in lists' : a >= bucket'
  <2> SUFFICES ASSUME NEW a \in lists'
               PROVE  a >= bucket'
    OBVIOUS
  <2>1. a \in lists /\ a # b
    BY <1>2
  <2>2. a >= b + 1
    BY <1>3, <1>7, <2>1
  <2> QED
    BY <1>8, <2>1, <2>2
<1>11. Walking(S, 1)'
  BY <1>2, <1>3, <1>9, <1>10 DEF Walking
<1>12. MapInv'
  <2>1. map' \in BOOLEAN
    BY <1>2
  <2> QED
    BY <1>2, <1>6, <1>11, <2>1 DEF MapInv
<1>13. TheTable' = TheTable
  BY <1>2 DEF TheTable
<1> QED
  BY <1>2, <1>12, <1>13 DEF T!tablevars

\* After the last bucket there is nothing left, and then there is no map.
LEMMA DestroyReturnsIs ==
  ASSUME MapInv, HashMap_Destroy_returns
  PROVE  MapInv' /\ T!Gone
<1>1. PICK S, p : Filled(chains, pairs, lists, S) /\ Walking(S, p)
  BY DEF MapInv
<1>2. /\ walk = "all" /\ bucket = primeCapacity
      /\ map' = FALSE /\ size' = 0 /\ returned' = <<"destroyed">>
      /\ lists' = lists /\ chains' = chains /\ pairs' = pairs
      /\ walk' = "no" /\ node' = NoCell /\ invoked' = 0 /\ seen' = {}
  BY DEF HashMap_Destroy_returns, EndTraverse, Returns
<1>3. seen = {} /\ \A a \in lists : a >= primeCapacity
  BY <1>1, <1>2 DEF Walking
<1>4. lists = {}
  BY <1>1, <1>3, BucketsOfLists, BucketsAre
<1>5. Tab(pairs) = << >> /\ Cardinality(DOMAIN pairs) = 0
  <2>1. Filled(chains, pairs, {}, S)
    BY <1>1, <1>4
  <2> QED
    BY <2>1, NothingThere
<1>6. MapInv'
  <2>1. map' \in BOOLEAN /\ (map' = FALSE => lists' = {}) /\ size' = Cardinality(DOMAIN pairs')
    BY <1>2, <1>4, <1>5
  <2>2. Filled(chains, pairs, lists, S)'
    BY <1>1, <1>2
  <2> QED
    BY <1>2, <2>1, <2>2, AtRest
<1>7. TheTable' = TheTable /\ TheTable = << >>
  <2>1. TheTable' = TheTable
    BY <1>2 DEF TheTable
  <2> QED
    BY <1>5, <2>1, TheTableIs
<1> QED
  BY <1>2, <1>3, <1>6, <1>7 DEF T!Gone, T!Answers

-----------------------------------------------------------------------------
(***************************************************************************)
(* The theorems.                                                           *)
(***************************************************************************)
LEMMA MapStart ==
  ASSUME MapInit
  PROVE  MapInv /\ T!TableInit
<1> DEFINE none == << >>
<1>1. DOMAIN none = {} /\ \A Y : none \in [{} -> Y]
  OBVIOUS
<1>2. IsFiniteSet(DOMAIN none) /\ Cardinality(DOMAIN none) = 0
  BY <1>1, FS_EmptySet
<1>3. chains = none /\ pairs = none /\ lists = {}
  BY DEF MapInit
<1> HIDE DEF none
<1>4. Rows(none, {}, none)
  BY <1>1, <1>2 DEF Rows, IsMemory
<1>5. Paired(none, none) /\ PairsAre(none)
  BY <1>1, <1>2 DEF Paired, PairsAre, CellsIn
<1>6. Filled(none, none, {}, none)
  BY <1>4, <1>5 DEF Filled
<1>7. Walking(none, 1)
  BY DEF Walking, MapInit
<1>8. map \in BOOLEAN
  <2>1. map = FALSE
    BY DEF MapInit
  <2> QED
    BY <2>1
<1>9. MapInv
  <2>1. lists = {} /\ walk = "no" /\ size = Cardinality(DOMAIN pairs)
    BY <1>2, <1>3 DEF MapInit
  <2>2. Filled(chains, pairs, lists, none)
    BY <1>3, <1>6
  <2> QED
    BY <1>7, <1>8, <2>1, <2>2 DEF MapInv
<1>10. TheTable = << >>
  BY <1>3, <1>6, NothingThere, TheTableIs
<1> QED
  BY <1>9, <1>10 DEF MapInit, T!TableInit

\* Every step keeps the invariant and is a step of the table, or none.
LEMMA MapStep ==
  ASSUME MapInv, [MapNext]_mapvars
  PROVE  MapInv' /\ [T!TableNext]_(T!tablevars)
<1>1. CASE HashMap_Create
  BY <1>1, MapCreateIs DEF T!TableNext
<1>2. CASE HashMap_Size
  BY <1>2, MapSizeIs DEF T!TableNext
<1>3. ASSUME NEW k \in Keys \cup {NoCell}, HashMap_Find(k)
      PROVE  MapInv' /\ T!TableNext
  BY <1>3, MapFindIs DEF T!TableNext
<1>4. ASSUME NEW k \in Keys \cup {NoCell}, HashMap_Remove(k)
      PROVE  MapInv' /\ T!TableNext
  BY <1>4, MapRemoveIs DEF T!TableNext
<1>5. ASSUME NEW k \in Keys \cup {NoCell}, NEW v \in Values, HashMap_Insert(k, v)
      PROVE  MapInv' /\ T!TableNext
  BY <1>5, MapInsertIs DEF T!TableNext
<1>6. CASE HashMap_ForEach
  BY <1>6, TraverseIs DEF T!TableNext, HashMap_ForEach
<1>7. CASE HashMap_Destroy
  BY <1>7, TraverseIs DEF T!TableNext, HashMap_Destroy
<1>8. CASE ForEachAction
  BY <1>8, ForEachActionIs DEF T!TableNext
<1>9. CASE ForEach_next_bucket
  BY <1>9, NextBucketIs
<1>10. CASE HashMap_ForEach_returns
  BY <1>10, ForEachReturnsIs DEF T!TableNext
<1>11. CASE Destroy_pair
  BY <1>11, DestroyPairIs DEF T!TableNext
<1>12. CASE Destroy_list
  BY <1>12, DestroyListIs
<1>13. CASE HashMap_Destroy_returns
  BY <1>13, DestroyReturnsIs DEF T!TableNext
<1>14. CASE UNCHANGED mapvars
  <2>1. UNCHANGED <<content, walking>> /\ returned' = returned
    BY <1>14 DEF mapvars, content, walking
  <2> QED
    BY <2>1, SameMap DEF T!tablevars
<1> QED
  BY <1>1, <1>2, <1>3, <1>4, <1>5, <1>6, <1>7, <1>8, <1>9, <1>10, <1>11, <1>12, <1>13, <1>14
  DEF MapNext

\* What the invariant says of the chains.
LEMMA ChainsAreRows ==
  ASSUME MapInv
  PROVE  ChainsOK
<1>1. PICK S, p : Filled(chains, pairs, lists, S) /\ Walking(S, p)
  BY DEF MapInv
<1>2. Rows(chains, lists, S)
  BY <1>1, BucketsOfLists
<1>3. ASSUME NEW c \in DOMAIN chains
      PROVE  /\ chains[c].m_next # NoCell =>
                  /\ chains[c].m_next \in DOMAIN chains
                  /\ chains[chains[c].m_next].m_prev = c
             /\ chains[c].m_prev # NoCell =>
                  /\ chains[c].m_prev \in DOMAIN chains
                  /\ chains[chains[c].m_prev].m_next = c
  <2>1. PICK b \in lists : SentinelOf(c, b) \/ c \in ToSet(S[b])
    BY <1>2 DEF Rows
  <2> DEFINE e == Row(S[b], HeadOf(b), TailOf(b))
             n == Len(S[b])
  <2>2. n \in Nat /\ e[0] = HeadOf(b) /\ e[n + 1] = TailOf(b)
    BY <1>2, BucketFacts
  <2>3. \A d \in ToSet(S[b]) : \E k \in 1 .. n : e[k] = d
    <3>1. DOMAIN S[b] = 1 .. n /\ \A k \in 1 .. n : e[k] = S[b][k]
      BY <1>2, BucketFacts
    <3> HIDE DEF e
    <3> QED
      BY <3>1 DEF ToSet
  <2>4. \A k \in 0 .. n + 1 : e[k] \in DOMAIN chains
    BY <1>2, BucketFacts
  <2>5. \A k \in 0 .. n : chains[e[k]].m_next = e[k + 1] /\ chains[e[k + 1]].m_prev = e[k]
    BY <1>2, BucketFacts
  <2>6. chains[HeadOf(b)].m_prev = NoCell /\ chains[TailOf(b)].m_next = NoCell
    BY <1>2, BucketFacts
  <2> HIDE DEF e, n
  <2>7. PICK j \in 0 .. n + 1 : e[j] = c
    <3>1. 0 \in 0 .. n + 1 /\ n + 1 \in 0 .. n + 1 /\ \A k \in 1 .. n : k \in 0 .. n + 1
      BY <2>2
    <3> QED
      BY <2>1, <2>2, <2>3, <3>1 DEF SentinelOf
  <2>8. ASSUME chains[c].m_next # NoCell
        PROVE  chains[c].m_next \in DOMAIN chains /\ chains[chains[c].m_next].m_prev = c
    <3>1. j \in 0 .. n /\ j + 1 \in 0 .. n + 1
      BY <2>2, <2>6, <2>7, <2>8
    <3> QED
      BY <2>4, <2>5, <2>7, <3>1
  <2>9. ASSUME chains[c].m_prev # NoCell
        PROVE  chains[c].m_prev \in DOMAIN chains /\ chains[chains[c].m_prev].m_next = c
    <3>1. j - 1 \in 0 .. n /\ (j - 1) + 1 = j /\ j - 1 \in 0 .. n + 1
      BY <2>2, <2>6, <2>7, <2>9
    <3>2. chains[e[j - 1]].m_next = e[j] /\ chains[e[j]].m_prev = e[j - 1]
      BY <2>5, <3>1
    <3> QED
      BY <2>4, <2>7, <3>1, <3>2
  <2> QED
    BY <2>8, <2>9
<1>4. ASSUME NEW b \in lists, NEW c \in Range(ChainOf(b))
      PROVE  chains[c].m_data \in DOMAIN pairs /\ BucketIndex(pairs[chains[c].m_data].key) = b
  <2>1. ChainOf(b) = S[b] /\ DOMAIN S[b] = 1 .. Len(S[b])
    BY <1>2, BucketChain, BucketFacts DEF ChainOf
  <2>2. PICK u \in 1 .. Len(S[b]) : S[b][u] = c
    BY <2>1 DEF Range
  <2>3. chains[S[b][u]].m_data \in DOMAIN pairs /\ BucketIndex(KeyAt(chains, pairs, S[b][u])) = b
    BY <1>1, FilledKeys
  <2> QED
    BY <2>2, <2>3 DEF KeyAt
<1>5. walk # "all" => size = Cardinality(DOMAIN pairs)
  BY DEF MapInv
<1> QED
  BY <1>3, <1>4, <1>5 DEF ChainsOK, Linked

\* And of what is allocated.
LEMMA AllHangs ==
  ASSUME MapInv
  PROVE  NothingLeaks
<1>1. PICK S, p : Filled(chains, pairs, lists, S) /\ Walking(S, p)
  BY DEF MapInv
<1>2. Rows(chains, lists, S) /\ Paired(chains, pairs)
  BY <1>1 DEF Filled
<1>3. DOMAIN chains = UNION {{HeadOf(b), TailOf(b)} \cup Range(ChainOf(b)) : b \in lists}
  <2>1. \A b \in lists : ChainOf(b) = S[b]
    BY <1>2, BucketChain DEF ChainOf
  <2>2. \A b \in lists : \A c : c \in Range(ChainOf(b)) <=> c \in ToSet(S[b])
    BY <2>1 DEF Range, ToSet
  <2>3. \A c : c \in DOMAIN chains <=> \E b \in lists : SentinelOf(c, b) \/ c \in ToSet(S[b])
    BY <1>2 DEF Rows
  <2>4. \A c : c \in DOMAIN chains <=>
          \E b \in lists : c \in {HeadOf(b), TailOf(b)} \cup Range(ChainOf(b))
    BY <2>2, <2>3 DEF SentinelOf
  <2> QED
    BY <2>4
<1>4. /\ Cardinality(DOMAIN pairs) = Cardinality(CellsIn(chains))
      /\ DOMAIN pairs = {chains[c].m_data : c \in CellsIn(chains)}
  BY <1>2, CellsOfRows, CellsAsPairs
<1>5. ~map => chains = << >> /\ pairs = << >>
  <2> SUFFICES ASSUME ~map
               PROVE  chains = << >> /\ pairs = << >>
    OBVIOUS
  <2>1. map = FALSE
    BY DEF MapInv
  <2>2. Filled(chains, pairs, {}, S)
    BY <1>1, <2>1 DEF MapInv
  <2> QED
    BY <2>2, NothingThere
<1> QED
  BY <1>3, <1>4, <1>5 DEF NothingLeaks, CellsIn

\* Whatever is inserted and removed, whatever collides and whichever allocation fails,
\* and in the middle of a for-each and of a destroy, the memory of the hash map is the
\* lists of its buckets, each pair is once in the bucket of its key, and the loop under
\* way is at a place of its bucket and has shown the pairs before it.
THEOREM MapInvariant == MapSpec => []MapInv
BY MapStart, MapStep, PTL DEF MapSpec

\* The chains of HashMap.c are linked both ways, its pairs are in their buckets and the
\* size it keeps is their number.
THEOREM ChainsAreSound == MapSpec => []ChainsOK
<1>1. MapInv => ChainsOK
  BY ChainsAreRows
<1> QED
  BY <1>1, MapInvariant, PTL

\* No cell, pair or list that HashMap.c has allocated is out of its reach.
THEOREM NothingIsLost == MapSpec => []NothingLeaks
<1>1. MapInv => NothingLeaks
  BY AllHangs
<1> QED
  BY <1>1, MapInvariant, PTL

\* The hash map of HashMap.c implements the table that HashMap.h promises, for every hash
\* function, capacity and set of keys.
THEOREM MapImplementsTable == MapSpec => MapRefinement
BY MapStart, MapStep, MapInvariant, PTL DEF MapSpec, MapRefinement, T!TableSpec
=============================================================================
