------------------------------- MODULE MCWgWeb ------------------------------
(***************************************************************************)
(* Instances of WgWeb for TLC.                                             *)
(***************************************************************************)
EXTENDS WgWeb, TLC

\* Keys, threads, users and servers are interchangeable (safety runs only).
Symmetry ==
  Permutations(Key) \cup Permutations(Request) \cup Permutations(User)
    \cup Permutations(Server)

(* A populated start for the runs with several threads: every user verified and
   without clients, every server up with no peers.  The crash run reaches it by
   register, verify, newserver and toggle. *)
Populated ==
  /\ profile = [u \in User |-> [verified |-> TRUE, key_limit |-> DefaultKeyLimit,
                                key_count |-> 0]]
  /\ client = << >>
  /\ server = Server
  /\ wg = [s \in Server |-> << >>]
  /\ RequestsInit

PopulatedSpec == Populated /\ [][Next]_vars
FairPopulatedSpec == PopulatedSpec /\ Fairness

AllOperations == Operation

=============================================================================
