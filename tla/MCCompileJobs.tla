--------------------------- MODULE MCCompileJobs ---------------------------
(***************************************************************************)
(* Model-checking instance for two compile jobs.  A behaviour chooses      *)
(* which of two questions it explores:                                     *)
(*   "copies"  one job, two copies of its messages, two API processes;     *)
(*   "bundles" two jobs that compete for the one bundle the project keeps, *)
(*             one process, one copy, and a stream that forgets no id.     *)
(***************************************************************************)
EXTENDS CompileJobs, TLC

VARIABLE mode

MCSpec == Init /\ mode \in {"copies", "bundles"} /\ [][Next /\ UNCHANGED mode]_<<vars, mode>>

Started == {j \in Jobs : submit[j] # "new"}
Working == {r \in Replicas : segment[r] # NoSegment \/ duty[r] # Idle}

Bounds ==
    IF mode = "copies" THEN Cardinality(Started) <= 1
    ELSE /\ Cardinality(Working) <= 1
         /\ \A m \in requests \cup running \cup results : m.copy = 1
NoForgetting ==
    mode = "bundles" => window \subseteq window' /\ resultWindow \subseteq resultWindow'

Symmetry == Permutations(Replicas) \cup Permutations(Jobs)
=============================================================================
