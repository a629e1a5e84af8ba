------------------------------ MODULE MCServer ------------------------------
(***************************************************************************)
(* Small instances of Server for TLC.                                      *)
(***************************************************************************)
EXTENDS Server

\* The names of users, groups and descriptors are interchangeable; so are
\* the passwords.  Addresses are not: the pool is loaded in their order.
Symmetric ==
  Permutations(Fds) \cup Permutations(Users) \cup Permutations(Groups) \cup Permutations(Passwords)
=============================================================================
