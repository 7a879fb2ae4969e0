-------------------------------- MODULE Wallet --------------------------------
(***************************************************************************)
(* What the billing centre promises a customer in hard mode: a request is  *)
(* let in only against funds that no other request has reserved, and is    *)
(* paid for at most once.                                                  *)
(***************************************************************************)
EXTENDS Integers, FiniteSets

CONSTANTS Requests, Entries
VARIABLES funds,     \* balance of the wallet
          adjusted,  \* entries the administrator made
          reserved,  \* requests with a reservation of one unit
          paid       \* requests that were paid for

Init == funds = 0 /\ adjusted = {} /\ reserved = {} /\ paid = {}

Adjust(k) ==
  /\ k \notin adjusted /\ adjusted' = adjusted \cup {k}
  /\ funds' \in Int /\ UNCHANGED <<reserved, paid>>

Reserve(r) ==
  /\ Cardinality(reserved) + 1 <= funds /\ r \notin paid
  /\ reserved' = reserved \cup {r} /\ UNCHANGED <<funds, adjusted, paid>>

\* A late answer is paid for although its reservation was released.
Pay(r) ==
  /\ r \notin paid /\ paid' = paid \cup {r}
  /\ reserved' = reserved \ {r}
  /\ funds' \in Int /\ funds' <= funds /\ UNCHANGED adjusted

Release(r) == reserved' = reserved \ {r} /\ UNCHANGED <<funds, adjusted, paid>>

Next == \/ \E k \in Entries : Adjust(k)
        \/ \E r \in Requests : Reserve(r) \/ Pay(r) \/ Release(r)
Spec == Init /\ [][Next]_<<funds, adjusted, reserved, paid>>
=============================================================================
