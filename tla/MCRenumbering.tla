--------------------------- MODULE MCRenumbering ---------------------------
(***************************************************************************)
(* Instances of Renumbering for TLC.                                       *)
(***************************************************************************)
EXTENDS Renumbering, TLC

\* Networks of IP addresses.
Powers == [m \in 0 .. Bits |-> 2^(Bits - m)]

\* Rows are told apart by what is in them.
Symmetry == Permutations(Server) \cup Permutations(Client) \cup Permutations(Port)

=============================================================================
