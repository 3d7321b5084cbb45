----------------------------- MODULE MCPeerStats ----------------------------
(***************************************************************************)
(* Instances of PeerStats for TLC.                                         *)
(***************************************************************************)
EXTENDS PeerStats

\* Every client on one server, whichever that is.
OneServer == [k \in Peer |-> CHOOSE s \in Server : TRUE]

\* One client transfers more than the others.
FirstMore == LET first == CHOOSE k \in Peer : TRUE
             IN  [k \in Peer |-> IF k = first THEN 2 ELSE 1]

=============================================================================
