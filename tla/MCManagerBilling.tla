--------------------------- MODULE MCManagerBilling ---------------------------
(* Instances of ManagerBilling for TLC. *)
EXTENDS ManagerBilling, TLC

CONSTANTS l1, l2, k1

AnyMode == {"hard", "shadow"} \X {TRUE}

\* A deposit of one unit.
Deltas == [k \in Entries |-> 1]

RequestSymmetry == Permutations(Llm)
=============================================================================
