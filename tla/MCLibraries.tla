---------------------------- MODULE MCLibraries ----------------------------
(***************************************************************************)
(* Small instances of the libraries below the server and the client, for   *)
(* one run of TLC.  They share no state: a behaviour picks one of them and *)
(* exercises it, and the others rest.                                      *)
(***************************************************************************)
EXTENDS GenQueue, DList, HashMap, Vector, Framing, TLC

VARIABLE subject

\* Two of three keys are in one bucket of five.
MCHash == 1 :> 1 @@ 2 :> 6 @@ 3 :> 2

LibInit ==
  /\ subject \in {"queue", "list", "map", "vector", "wire"}
  /\ QueueInit /\ ListInit /\ MapInit /\ VectorInit /\ WireInit

LibNext ==
  /\ UNCHANGED subject
  /\ \/ subject = "queue" /\ QueueNext
        /\ UNCHANGED <<listvars, mapvars, vectorvars, wirevars>>
     \/ subject = "list" /\ ListNext
        /\ UNCHANGED <<queuevars, mapvars, vectorvars, wirevars>>
     \/ subject = "map" /\ MapNext
        /\ UNCHANGED <<queuevars, listvars, vectorvars, wirevars>>
     \/ subject = "vector" /\ VectorNext
        /\ UNCHANGED <<queuevars, listvars, mapvars, wirevars>>
     \/ subject = "wire" /\ WireNext
        /\ UNCHANGED <<queuevars, listvars, mapvars, vectorvars>>

libvars == <<subject, queuevars, listvars, mapvars, vectorvars, wirevars>>

LibSpec == LibInit /\ [][LibNext]_libvars /\ WireFairness
=============================================================================
