--------------------------- MODULE MCAdmissionLock ---------------------------
(* Instances of AdmissionLock for TLC: three managers, one of which makes   *)
(* a second call.                                                           *)
EXTENDS AdmissionLock

CONSTANTS a, a2, b, c, A, B, C

TwoOfA == [x \in {a, a2, b, c} |->
             CASE x \in {a, a2} -> A [] x = b -> B [] x = c -> C]

Anywhere == Places \ {"dead"}
=============================================================================
