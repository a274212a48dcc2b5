------------------------ MODULE MCTCPStreamManager ------------------------
(* An instance of TCPStreamManager for TLC. *)
EXTENDS TCPStreamManager, TLC

Symmetry == Permutations(Handles) \cup Permutations(Fds)
=============================================================================
