-------------------------- MODULE MCGatewayRequests --------------------------
(* Instances of GatewayRequests for TLC: public requests of two keys and one *)
(* of the owner.                                                             *)
EXTENDS GatewayRequests, TLC

CONSTANTS a1, a2, a3, a4, b1, o, A, B

KeyOf == [r \in Requests |->
            CASE r \in {a1, a2, a3, a4} -> A [] r = b1 -> B [] r = o -> NoKey]

\* A client may leave at every place.
Anywhere == Places \ {"new", "gone"}

Symmetry == Permutations({a1, a2, a3, a4})
=============================================================================
