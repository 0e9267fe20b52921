----------------------------- MODULE MCEventLog -----------------------------
(* Finite instances of EventLog.                                           *)
EXTENDS EventLog, TLC

CONSTANTS p1, p2, p3, v1, v2

\* The two trainers are interchangeable, and so are the contents.
TrainerSymmetry == Permutations({p1, p2}) \cup Permutations({v1, v2})

\* Two trainers under the lease_id the training loop uses; p3 is another component with a lease of its own.
TwoLeases == p1 :> "guard-trainer" @@ p2 :> "guard-trainer" @@ p3 :> "guard-trl"

TwoRoles == [artifact : {"x"}, role : {"producer", "consumer"}]
=============================================================================
