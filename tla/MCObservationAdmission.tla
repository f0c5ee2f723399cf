------------------------ MODULE MCObservationAdmission ------------------------
(***************************************************************************)
(* Small instances of ObservationAdmission for TLC.                        *)
(***************************************************************************)
EXTENDS ObservationAdmission, TLC

OneLane == [o \in Observations |-> CHOOSE s \in Sessions : TRUE]

\* "x" is evidence about the second session of two.
TwoLanes == [o \in Observations |-> IF o = "x" THEN "s2" ELSE "s1"]

\* "a" and "b" are progress, everything else is durable evidence.
AThenB == [o \in Observations |->
              IF o \in {"a", "b"} THEN "Activity" ELSE "Durable"]

\* Producers are interchangeable.
CallerSymmetry == Permutations(Callers)

=============================================================================
