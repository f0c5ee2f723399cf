----------------------------- MODULE MCRegistration -----------------------------
(* Requests, tasks, transports and main sessions are interchangeable.      *)
EXTENDS Registration, TLC

Symmetry == Permutations(Requests) \cup Permutations(Managers)
            \cup Permutations(Transports) \cup Permutations(Mains)

=============================================================================
