-------------------------- MODULE MCVideoLifecycle --------------------------
(* Small instances of VideoLifecycle for TLC. *)
EXTENDS VideoLifecycle, TLC

(* Requests and source files are interchangeable. *)
Symmetry == Permutations(Requests) \cup Permutations(Sources)
=============================================================================
