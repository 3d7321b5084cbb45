------------------------------ MODULE MCPages ------------------------------
(***************************************************************************)
(* Instances of Pages for TLC.                                             *)
(***************************************************************************)
EXTENDS Pages, TLC

\* Keys, users and servers are interchangeable.
Symmetry == Permutations(Key) \cup Permutations(User) \cup Permutations(Server)

=============================================================================
