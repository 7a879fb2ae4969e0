---------------------------- MODULE MCBillingStore ----------------------------
(* Instances of BillingStore for TLC. *)
EXTENDS BillingStore, TLC

CONSTANTS l1, l2, t1, t2, k1, k2

AnyPolicy == {"hard", "shadow"} \X BOOLEAN

\* A deposit of two units, and a withdrawal of one.
Deltas == [k \in Entries |-> IF k = k1 THEN 2 ELSE -1]

\* Requests of one kind are interchangeable.
RequestSymmetry == Permutations(Llm) \cup Permutations(Tts)
=============================================================================
