------------------------------- MODULE Table -------------------------------
(***************************************************************************)
(* What HashMap.h promises: a table from distinct keys to values.  No      *)
(* buckets, no chains, no hash function.                                   *)
(***************************************************************************)
EXTENDS Naturals, FiniteSets, Functions

CONSTANTS Keys, Values, Null

VARIABLES
  exists,   \* whether there is a table
  table,    \* key |-> value
  visiting, \* "no", "each" (for-each) or "all" (destroy)
  seen,     \* the keys whose pairs the for-each has shown
  answer    \* what the last call returned, or its callback was given

tablevars == <<exists, table, visiting, seen, answer>>

Answers(a) == answer' = a
Idle == visiting = "no" /\ UNCHANGED <<visiting, seen>>
Keep == UNCHANGED <<exists, table>>

Create ==
  /\ Idle
  /\ ~exists
  /\ \/ exists' = TRUE /\ Answers(<<"created">>)
     \/ exists' = FALSE /\ Answers(<<"NULL">>)
  /\ UNCHANGED table

Put(k, v) == [j \in DOMAIN table \cup {k} |-> IF j = k THEN v ELSE table[j]]

\* Errors are told in this order; a failed allocation changes nothing.
Insert(k, v) ==
  /\ Idle
  /\ UNCHANGED exists
  /\ CASE ~exists -> Answers(<<"MAP_UNINITIALIZED_ERROR">>) /\ UNCHANGED table
       [] exists /\ k = Null -> Answers(<<"MAP_KEY_NULL_ERROR">>) /\ UNCHANGED table
       [] exists /\ k \in DOMAIN table ->
            Answers(<<"MAP_KEY_DUPLICATE_ERROR">>) /\ UNCHANGED table
       [] OTHER -> \/ Answers(<<"MAP_SUCCESS">>) /\ table' = Put(k, v)
                   \/ Answers(<<"MAP_ALLOCATION_ERROR">>) /\ UNCHANGED table

LookUp(k) ==
  CASE ~exists -> Answers(<<"MAP_UNINITIALIZED_ERROR">>)
    [] exists /\ k = Null -> Answers(<<"MAP_KEY_NULL_ERROR">>)
    [] exists /\ k \in DOMAIN table -> Answers(<<"MAP_SUCCESS", k, table[k]>>)
    [] OTHER -> Answers(<<"MAP_KEY_NOT_FOUND_ERROR">>)

Find(k) == Idle /\ LookUp(k) /\ Keep
Remove(k) ==
  /\ Idle
  /\ LookUp(k)
  /\ table' = Restrict(table, DOMAIN table \ {k})
  /\ UNCHANGED exists

Count == Idle /\ Answers(<<"size", Cardinality(DOMAIN table)>>) /\ Keep

Visit(how) ==
  /\ visiting = "no"
  /\ exists
  /\ visiting' = how
  /\ seen' = {}
  /\ UNCHANGED <<exists, table, answer>>

\* A for-each shows every pair once, unless it is stopped; it tells how many.
Show ==
  /\ visiting = "each"
  /\ \E k \in DOMAIN table \ seen :
       seen' = seen \cup {k} /\ Answers(<<"pair", k, table[k]>>)
  /\ UNCHANGED <<exists, table, visiting>>
Leave ==
  /\ visiting = "each"
  /\ \/ seen = DOMAIN table /\ Answers(<<"size", Cardinality(seen)>>)
     \/ seen # {} /\ Answers(<<"stopped", Cardinality(seen)>>)
  /\ visiting' = "no"
  /\ seen' = {}
  /\ Keep

\* A destroy hands over every pair once, and then there is no table.
HandOver ==
  /\ visiting = "all"
  /\ \E k \in DOMAIN table :
       Answers(<<"pair", k, table[k]>>) /\ table' = Restrict(table, DOMAIN table \ {k})
  /\ UNCHANGED <<exists, visiting, seen>>
Gone ==
  /\ visiting = "all"
  /\ table = << >>
  /\ exists' = FALSE
  /\ visiting' = "no"
  /\ Answers(<<"destroyed">>)
  /\ UNCHANGED <<table, seen>>

TableInit ==
  exists = FALSE /\ table = << >> /\ visiting = "no" /\ seen = {} /\ answer = <<"none">>

TableNext ==
  \/ Create \/ Count \/ Show \/ Leave \/ HandOver \/ Gone
  \/ \E k \in Keys \cup {Null} : Find(k) \/ Remove(k) \/ \E v \in Values : Insert(k, v)
  \/ \E how \in {"each", "all"} : Visit(how)

TableSpec == TableInit /\ [][TableNext]_tablevars
=============================================================================
