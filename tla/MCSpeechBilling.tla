--------------------------- MODULE MCSpeechBilling ---------------------------
(* Instances of SpeechBilling for TLC. *)
EXTENDS SpeechBilling

CONSTANTS t1, t2, k1

HardOnly == {<<"hard", TRUE>>}

\* A deposit of two units.
Deltas == [k \in Entries |-> 2]
=============================================================================
