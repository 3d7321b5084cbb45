-------------------------- MODULE MCServerNetworks --------------------------
(***************************************************************************)
(* Instances of ServerNetworks for TLC.                                    *)
(***************************************************************************)
EXTENDS ServerNetworks, TLC

\* Networks of IP addresses.
Powers == [m \in 0 .. Bits |-> 2^(Bits - m)]

\* Rows are told apart by what is in them.
Symmetry == Permutations(Server) \cup Permutations(Client) \cup Permutations(Port)

=============================================================================
