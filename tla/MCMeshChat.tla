---------------------------- MODULE MCMeshChat -----------------------------
(***************************************************************************)
(* Small instances of MeshChat for TLC.                                    *)
(***************************************************************************)
EXTENDS MeshChat

\* Clients, descriptors and names are interchangeable.
MeshSymmetric ==
  Permutations(Clients) \cup Permutations(Fds) \cup Permutations(Users) \cup Permutations(Groups)
=============================================================================
