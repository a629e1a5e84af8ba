------------------------------ MODULE HashMap ------------------------------
(***************************************************************************)
(* The hash map of HashMap.c, in which the server keeps its users and its  *)
(* groups: an array of buckets, each a list of pairs that is allocated     *)
(* when it is first needed.  Any allocation may fail.                      *)
(*                                                                         *)
(* HashMap_ForEach and HashMap_Destroy call back for each pair, so each    *)
(* round of their loops is a step.                                         *)
(***************************************************************************)
EXTENDS ListCells, FiniteSetsExt

CONSTANTS
  Keys, Values,
  Hash,       \* hashFunc: what the user's function makes of each key
  Capacity,   \* the _capacity of HashMap_Create
  NodeCells,  \* what malloc may return for a cell of a list
  PairCells   \* and for a pair

ASSUME HashAssumption == Hash \in [Keys -> Nat] /\ Capacity \in Nat
ASSUME MapCellsAssumption == NoCell \notin Keys \cup NodeCells \cup PairCells

VARIABLES
  map,       \* whether there is a map (the caller's pointer is not NULL)
  lists,     \* the buckets that have a list
  chains,    \* the memory of the lists
  pairs,     \* pair |-> key and value
  size,
  walk,      \* the loop under way: "no", "each" or "all"
  bucket,    \* its bucket
  node,      \* where HashMap_ForEach is in it; NoCell before it has begun
  invoked,   \* invokeCount
  seen,      \* the keys it has shown (history only)
  returned   \* what the last call returned, or its callback was given

mapvars == <<map, lists, chains, pairs, size, walk, bucket, node, invoked, seen, returned>>
content == <<map, lists, chains, pairs, size>>
walking == <<walk, bucket, node, invoked, seen>>

Returns(r) == returned' = r

IsPrime(n) == n >= 2 /\ \A d \in 2 .. n - 1 : (d * d <= n /\ (d = 2 \/ d % 2 = 1)) => n % d # 0
NextPrime(n) ==
  LET from == IF n < 2 THEN 2 ELSE n
  IN  CHOOSE p \in from .. 2 * from : IsPrime(p) /\ \A q \in from .. p - 1 : ~IsPrime(q)

MIN_CAPACITY == 4
Asked == IF Capacity < MIN_CAPACITY THEN MIN_CAPACITY ELSE Capacity
primeCapacity == NextPrime(Asked)

\* Bertrand's postulate: nextPrime finds one.
ASSUME PrimeAssumption == \E p \in Asked .. 2 * Asked : IsPrime(p)

Buckets == 0 .. primeCapacity - 1
BucketIndex(k) == Hash[k] % primeCapacity

HeadOf(b) == <<"head", b>>
TailOf(b) == <<"tail", b>>

\* A sentinel is part of the list, not a cell of its own, and not NULL.
ASSUME SentinelsAssumption ==
  \A b \in Buckets : {HeadOf(b), TailOf(b)} \cap (NodeCells \cup {NoCell}) = {}

\* The cells and the pairs of a bucket, and the one with a key.
ChainOf(b) == IF b \in lists THEN Chain(chains, HeadOf(b), TailOf(b)) ELSE << >>
CellWith(k) == LET chain == ChainOf(BucketIndex(k))
                   hits == {j \in DOMAIN chain : pairs[chains[chain[j]].m_data].key = k}
               IN  IF hits = {} THEN NoCell ELSE chain[Min(hits)]

-----------------------------------------------------------------------------
HashMap_Create ==
  /\ walk = "no"
  /\ ~map
  /\ \/ Returns(<<"created">>) /\ map' = TRUE
     \/ Returns(<<"NULL">>) /\ UNCHANGED map
  /\ UNCHANGED <<lists, chains, pairs, size, walking>>

\* The list of the bucket is there, or is made and stays whatever comes next.
WithList(b) == IF b \in lists THEN chains ELSE NewList(chains, HeadOf(b), TailOf(b))

FreeNodes == NodeCells \ DOMAIN chains
FreePairs == PairCells \ DOMAIN pairs

\* Seeded fault: the pair of a failed insertion is not freed.
InsertFailed_PairKept(k, v) ==
  \E pair \in FreePairs : pairs' = With(pairs, pair, [key |-> k, value |-> v])

\* When the cell cannot be had, the pair is freed again.
InsertFailed(k, v) == UNCHANGED pairs

Duplicate(k) == CellWith(k) # NoCell

InsertPair(k, v) ==
  LET b == BucketIndex(k)
      mem == WithList(b)
  IN  \/ b \notin lists /\ Returns(<<"MAP_ALLOCATION_ERROR">>) /\ UNCHANGED content
      \/ /\ lists' = lists \cup {b}
         /\ \/ /\ Duplicate(k)
               /\ Returns(<<"MAP_KEY_DUPLICATE_ERROR">>)
               /\ chains' = mem
               /\ UNCHANGED <<pairs, size>>
            \/ /\ ~Duplicate(k)
               /\ Returns(<<"MAP_ALLOCATION_ERROR">>)
               /\ chains' = mem
               /\ InsertFailed(k, v)
               /\ UNCHANGED size
            \/ /\ ~Duplicate(k)
               /\ \E pair \in FreePairs, new \in FreeNodes :
                    /\ pairs' = With(pairs, pair, [key |-> k, value |-> v])
                    /\ chains' = InsertNodeBefore(mem, mem[HeadOf(b)].m_next, new, pair)
               /\ size' = size + 1
               /\ Returns(<<"MAP_SUCCESS">>)
         /\ UNCHANGED map

HashMap_Insert(k, v) ==
  /\ walk = "no"
  /\ CASE ~map -> Returns(<<"MAP_UNINITIALIZED_ERROR">>) /\ UNCHANGED content
       [] map /\ k = NoCell -> Returns(<<"MAP_KEY_NULL_ERROR">>) /\ UNCHANGED content
       [] OTHER -> InsertPair(k, v)
  /\ UNCHANGED walking

\* The outcomes HashMap_Remove and HashMap_Find share; MAP_SUCCESS passes out the
\* key and the value.
LookUp(k) ==
  CASE ~map -> Returns(<<"MAP_UNINITIALIZED_ERROR">>)
    [] map /\ k = NoCell -> Returns(<<"MAP_KEY_NULL_ERROR">>)
    [] map /\ k # NoCell /\ CellWith(k) = NoCell -> Returns(<<"MAP_KEY_NOT_FOUND_ERROR">>)
    [] OTHER -> LET pair == pairs[chains[CellWith(k)].m_data]
                IN  Returns(<<"MAP_SUCCESS", pair.key, pair.value>>)

Has(k) == IF map /\ k # NoCell THEN CellWith(k) # NoCell ELSE FALSE

HashMap_Find(k) ==
  walk = "no" /\ LookUp(k) /\ UNCHANGED <<content, walking>>

HashMap_Remove(k) ==
  /\ walk = "no"
  /\ LookUp(k)
  /\ IF Has(k)
     THEN /\ chains' = RemoveNode(chains, CellWith(k))
          /\ pairs' = [p \in DOMAIN pairs \ {chains[CellWith(k)].m_data} |-> pairs[p]]
          /\ size' = size - 1
          /\ UNCHANGED <<map, lists>>
     ELSE UNCHANGED content
  /\ UNCHANGED walking

HashMap_Size ==
  walk = "no" /\ Returns(<<"size", IF map THEN size ELSE 0>>) /\ UNCHANGED <<content, walking>>

-----------------------------------------------------------------------------
\* The next bucket with a list, from b on; primeCapacity when there is none.
NextList(b) == Min({c \in lists : c >= b} \cup {primeCapacity})

Traverse(how) ==
  /\ walk = "no"
  /\ map
  /\ walk' = how
  /\ bucket' = NextList(0)
  /\ UNCHANGED <<content, node, invoked, seen, returned>>

HashMap_ForEach == Traverse("each")
HashMap_Destroy == Traverse("all")

EndTraverse == walk' = "no" /\ bucket' = 0 /\ node' = NoCell /\ invoked' = 0 /\ seen' = {}

At == IF node = NoCell THEN chains[HeadOf(bucket)].m_next ELSE node

\* Seeded fault: the chain is left after its first pair.
After_Left == TailOf(bucket)

After == chains[At].m_next

ForEachAction ==
  /\ walk = "each"
  /\ bucket \in lists
  /\ At # TailOf(bucket)
  /\ LET pair == pairs[chains[At].m_data]
     IN  Returns(<<"pair", pair.key, pair.value>>) /\ seen' = seen \cup {pair.key}
  /\ invoked' = invoked + 1
  /\ node' = After
  /\ UNCHANGED <<content, walk, bucket>>

ForEach_next_bucket ==
  /\ walk = "each"
  /\ bucket \in lists
  /\ At = TailOf(bucket)
  /\ bucket' = NextList(bucket + 1)
  /\ node' = NoCell
  /\ UNCHANGED <<content, walk, invoked, seen, returned>>

\* There is no bucket left, or the action has returned 0.
HashMap_ForEach_returns ==
  /\ walk = "each"
  /\ \/ bucket = primeCapacity /\ Returns(<<"size", invoked>>)
     \/ invoked > 0 /\ Returns(<<"stopped", invoked>>)
  /\ EndTraverse
  /\ UNCHANGED content

\* ListPopHead, the destroyers, free.
Destroy_pair ==
  /\ walk = "all"
  /\ ChainOf(bucket) # << >>
  /\ LET first == chains[HeadOf(bucket)].m_next
         pair == chains[first].m_data
     IN  /\ Returns(<<"pair", pairs[pair].key, pairs[pair].value>>)
         /\ chains' = RemoveNode(chains, first)
         /\ pairs' = [p \in DOMAIN pairs \ {pair} |-> pairs[p]]
  /\ UNCHANGED <<map, lists, size, walking>>

Destroy_list ==
  /\ walk = "all"
  /\ bucket \in lists
  /\ ChainOf(bucket) = << >>
  /\ chains' = [c \in DOMAIN chains \ {HeadOf(bucket), TailOf(bucket)} |-> chains[c]]
  /\ lists' = lists \ {bucket}
  /\ bucket' = NextList(bucket + 1)
  /\ UNCHANGED <<map, pairs, size, walk, node, invoked, seen, returned>>

HashMap_Destroy_returns ==
  /\ walk = "all"
  /\ bucket = primeCapacity
  /\ map' = FALSE
  /\ size' = 0
  /\ Returns(<<"destroyed">>)
  /\ EndTraverse
  /\ UNCHANGED <<lists, chains, pairs>>

MapInit ==
  /\ map = FALSE /\ lists = {} /\ chains = << >> /\ pairs = << >> /\ size = 0
  /\ walk = "no" /\ bucket = 0 /\ node = NoCell /\ invoked = 0 /\ seen = {}
  /\ returned = <<"none">>

MapNext ==
  \/ HashMap_Create \/ HashMap_Size
  \/ \E k \in Keys \cup {NoCell} :
       HashMap_Find(k) \/ HashMap_Remove(k) \/ \E v \in Values : HashMap_Insert(k, v)
  \/ HashMap_ForEach \/ ForEachAction \/ ForEach_next_bucket \/ HashMap_ForEach_returns
  \/ HashMap_Destroy \/ Destroy_pair \/ Destroy_list \/ HashMap_Destroy_returns

MapSpec == MapInit /\ [][MapNext]_mapvars

-----------------------------------------------------------------------------
(***************************************************************************)
(* Properties.                                                             *)
(***************************************************************************)
\* The chains are linked both ways, each pair is in the bucket of its key, and the
\* size kept beside them is their number.
ChainsOK ==
  /\ Linked(chains)
  /\ \A b \in lists : \A c \in Range(ChainOf(b)) :
       chains[c].m_data \in DOMAIN pairs /\ BucketIndex(pairs[chains[c].m_data].key) = b
  /\ walk # "all" => size = Cardinality(DOMAIN pairs)

\* Whatever fails and whenever the map is destroyed, no cell, pair or list is lost:
\* all that is allocated hangs on a bucket, and each pair on one cell.
NothingLeaks ==
  /\ DOMAIN chains = UNION {{HeadOf(b), TailOf(b)} \cup Range(ChainOf(b)) : b \in lists}
  /\ DOMAIN pairs = {chains[c].m_data : c \in DOMAIN chains \cap NodeCells}
  /\ Cardinality(DOMAIN pairs) = Cardinality(DOMAIN chains \cap NodeCells)
  /\ ~map => chains = << >> /\ pairs = << >>

\* The buckets are a table: colliding keys do not shadow one another, a removed key
\* can come back, a for-each and a destroy give each pair once.
TheTable ==
  [k \in {pairs[p].key : p \in DOMAIN pairs} |->
     pairs[CHOOSE p \in DOMAIN pairs : pairs[p].key = k].value]
T == INSTANCE Table WITH
       Null <- NoCell, exists <- map, table <- TheTable, visiting <- walk,
       answer <- returned
MapRefinement == T!TableSpec
=============================================================================
