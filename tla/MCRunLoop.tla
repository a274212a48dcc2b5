----------------------------- MODULE MCRunLoop -----------------------------
(* Instances of RunLoop for TLC. *)
EXTENDS RunLoop, TLC

\* Handles, descriptors and timers are only ever compared with each other.
Symmetry ==
  Permutations(Handles) \cup Permutations(Fds) \cup Permutations(TimerIds)
=============================================================================
