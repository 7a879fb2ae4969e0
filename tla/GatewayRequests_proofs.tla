----------------------- MODULE GatewayRequests_proofs -----------------------
(***************************************************************************)
(* Proofs about GatewayRequests.                                           *)
(***************************************************************************)
EXTENDS GatewayRequests, FiniteSetTheorems, TLAPS

USE GatewayAssumption

-----------------------------------------------------------------------------
(* Sequences without repetitions *)

\* The elements of a queue.
Elements(q) == First(q, Len(q))
Distinct(q) == \A i, j \in 1..Len(q) : q[i] = q[j] => i = j

LEMMA LenType == ASSUME NEW S, NEW q \in Seq(S) PROVE Len(q) \in Nat
OBVIOUS

LEMMA EmptyLen == ASSUME NEW S, NEW q \in Seq(S) PROVE q = <<>> <=> Len(q) = 0
OBVIOUS

LEMMA Numbers ==
  /\ KeyMax \in Nat \ {0} /\ ShareMax \in Nat \ {0}
  /\ KeyQueueMax \in Nat /\ OwnerShareMax \in Nat /\ ShareQueueMax \in Nat
BY DEF GatewayAssumption

LEMMA OneLess == ASSUME NEW m \in Nat, NEW n \in Nat, m <= n PROVE m - 1 <= n
OBVIOUS

\* A sequence is injective when its elements are distinct.
LEMMA DistinctIsInjective ==
  ASSUME NEW S, NEW q \in Seq(S)
  PROVE  IsInjective(q) <=> Distinct(q)
BY DEF IsInjective, Distinct

\* Without(q, r) removes r and keeps the order.
LEMMA WithoutLemma ==
  ASSUME NEW S, NEW q \in Seq(S), NEW r \in Elements(q), Distinct(q)
  PROVE  /\ Without(q, r) \in Seq(S) /\ Len(Without(q, r)) = Len(q) - 1
         /\ Distinct(Without(q, r))
         /\ Elements(Without(q, r)) = Elements(q) \ {r}
<1> DEFINE i == CHOOSE i \in 1..Len(q) : q[i] = r
           w == Without(q, r)
<1>1. i \in 1..Len(q) /\ q[i] = r
  BY DEF Elements, First
<1>2. w = [j \in 1..(Len(q) - 1) |-> IF j < i THEN q[j] ELSE q[j + 1]]
  BY DEF Without
<1> HIDE DEF i, w
<1>3. w \in Seq(S) /\ Len(w) = Len(q) - 1
  BY <1>1, <1>2
<1>4. Distinct(w)
  BY <1>1, <1>2, <1>3 DEF Distinct
<1>5. ASSUME NEW x \in Elements(w) PROVE x \in Elements(q) \ {r}
  BY <1>1, <1>2, <1>3, <1>5 DEF Distinct, Elements, First
<1>6. ASSUME NEW x \in Elements(q) \ {r} PROVE x \in Elements(w)
  <2>1. PICK j \in 1..Len(q) : q[j] = x
    BY <1>6 DEF Elements, First
  <2>2. CASE j < i
    <3>1. j \in 1..Len(w) /\ w[j] = x
      BY <2>1, <2>2, <1>1, <1>2, <1>3
    <3> QED BY <3>1 DEF Elements, First
  <2>3. CASE j > i
    <3>1. j - 1 \in 1..Len(w) /\ w[j - 1] = x
      BY <2>1, <2>3, <1>1, <1>2, <1>3
    <3> QED BY <3>1 DEF Elements, First
  <2>4. j # i
    BY <2>1, <1>1, <1>6
  <2> QED BY <1>1, <2>1, <2>2, <2>3, <2>4
<1> QED BY <1>3, <1>4, <1>5, <1>6 DEF w

\* What is left of a queue when its first n waiters were served.
LEMMA DropLemma ==
  ASSUME NEW S, NEW q \in Seq(S), NEW n \in 0..Len(q), Distinct(q)
  PROVE  LET d == SubSeq(q, n + 1, Len(q)) IN
         /\ d \in Seq(S) /\ Len(d) = Len(q) - n /\ Distinct(d)
         /\ First(q, n) \subseteq Elements(q)
         /\ Elements(d) = Elements(q) \ First(q, n)
<1> DEFINE d == SubSeq(q, n + 1, Len(q))
<1>1. d \in Seq(S) /\ Len(d) = Len(q) - n
  OBVIOUS
<1>2. \A i \in 1..Len(d) : d[i] = q[i + n]
  OBVIOUS
<1> HIDE DEF d
<1>3. Distinct(d)
  <2>1. \A i \in 1..Len(d) : i + n \in 1..Len(q)
    BY <1>1
  <2> SUFFICES ASSUME NEW i \in 1..Len(d), NEW j \in 1..Len(d), d[i] = d[j]
               PROVE  i = j
    BY DEF Distinct
  <2>2. i + n = j + n
    BY <1>2, <2>1 DEF Distinct
  <2> QED BY <2>2
<1>4. First(q, n) \subseteq Elements(q)
  BY DEF First, Elements
<1>5. ASSUME NEW x \in Elements(d) PROVE x \in Elements(q) \ First(q, n)
  <2>1. PICK j \in 1..Len(d) : x = q[j + n]
    BY <1>2 DEF Elements, First
  <2>2. j + n \in 1..Len(q) /\ j + n \notin 1..n
    BY <1>1
  <2> QED BY <2>1, <2>2 DEF Elements, First, Distinct
<1>6. ASSUME NEW x \in Elements(q) \ First(q, n) PROVE x \in Elements(d)
  <2>1. PICK j \in 1..Len(q) : x = q[j]
    BY <1>6 DEF Elements, First
  <2>2. j > n
    BY <1>6, <2>1 DEF First
  <2>3. j - n \in 1..Len(d) /\ d[j - n] = x
    BY <1>1, <1>2, <2>1, <2>2
  <2> QED BY <2>3 DEF Elements, First
<1> QED BY <1>1, <1>3, <1>4, <1>5, <1>6 DEF d

\* A new waiter at the end of a queue.
LEMMA AppendLemma ==
  ASSUME NEW S, NEW q \in Seq(S), NEW r \in S
  PROVE  /\ Append(q, r) \in Seq(S) /\ Len(Append(q, r)) = Len(q) + 1
         /\ Elements(Append(q, r)) = Elements(q) \cup {r}
         /\ Distinct(q) /\ r \notin Elements(q) => Distinct(Append(q, r))
<1> DEFINE a == Append(q, r)
<1>1. /\ a \in Seq(S) /\ Len(a) = Len(q) + 1 /\ a[Len(q) + 1] = r
      /\ \A i \in 1..Len(q) : a[i] = q[i]
  OBVIOUS
<1> HIDE DEF a
<1>2. ASSUME NEW x \in Elements(a) PROVE x \in Elements(q) \cup {r}
  BY <1>1 DEF Elements, First
<1>3. Elements(q) \subseteq Elements(a)
  BY <1>1 DEF Elements, First
<1>4. r \in Elements(a)
  BY <1>1 DEF Elements, First
<1>5. Distinct(q) /\ r \notin Elements(q) => Distinct(a)
  BY <1>1 DEF Distinct, Elements, First
<1> QED BY <1>1, <1>2, <1>3, <1>4, <1>5 DEF a

\* A queue without its head is a queue whose first waiter was served.
LEMMA TailLemma ==
  ASSUME NEW S, NEW q \in Seq(S), q # <<>>, Distinct(q)
  PROVE  /\ Tail(q) \in Seq(S) /\ Len(Tail(q)) = Len(q) - 1
         /\ Head(q) \in Elements(q) /\ Distinct(Tail(q))
         /\ Elements(Tail(q)) = Elements(q) \ {Head(q)}
<1>1. Len(q) \in Nat \ {0}
  OBVIOUS
<1>2. Tail(q) = SubSeq(q, 1 + 1, Len(q)) /\ 1 \in 0..Len(q)
  BY <1>1
<1>3. First(q, 1) = {Head(q)}
  BY <1>1 DEF First
<1>4. Head(q) \in Elements(q)
  BY <1>1 DEF Elements, First
<1>5. Tail(q) \in Seq(S) /\ Len(Tail(q)) = Len(q) - 1
  BY <1>1
<1> QED BY <1>2, <1>3, <1>4, <1>5, DropLemma

-----------------------------------------------------------------------------
(* Counting *)

\* A set of n waiters has at most n elements, and n when they are distinct.
LEMMA FirstCardinality ==
  ASSUME NEW S, NEW q \in Seq(S), NEW n \in 0..Len(q), Distinct(q)
  PROVE  IsFiniteSet(First(q, n)) /\ Cardinality(First(q, n)) = n
<1> DEFINE f == [i \in 1..n |-> q[i]]
<1>1. IsFiniteSet(1..n) /\ Cardinality(1..n) = n
  BY FS_Interval
<1>2. f \in Bijection(1..n, First(q, n))
  <2>1. f \in [1..n -> First(q, n)]
    BY DEF First
  <2>2. \A i, j \in 1..n : f[i] = f[j] => i = j
    BY DEF Distinct
  <2>3. \A x \in First(q, n) : \E i \in 1..n : f[i] = x
    BY DEF First
  <2>4. f \in Injection(1..n, First(q, n))
    <3> HIDE DEF f
    <3> QED BY <2>1, <2>2 DEF Injection, IsInjective
  <2>5. f \in Surjection(1..n, First(q, n))
    <3> HIDE DEF f
    <3> QED BY <2>1, <2>3 DEF Surjection
  <2> QED BY <2>4, <2>5 DEF Bijection
<1>3. ExistsBijection(1..n, First(q, n))
  BY <1>2 DEF ExistsBijection
<1>4. IsFiniteSet(First(q, n)) /\ Cardinality(First(q, n)) = Cardinality(1..n)
  BY <1>1, <1>3, FS_Bijection
<1> QED BY <1>1, <1>4

\* Sets of requests are finite and can be counted.
LEMMA Counting ==
  ASSUME NEW A, NEW B, A \subseteq Requests, B \subseteq Requests
  PROVE  /\ IsFiniteSet(A) /\ Cardinality(A) \in Nat
         /\ A \cap B = {} => Cardinality(A \cup B) = Cardinality(A) + Cardinality(B)
         /\ A \subseteq B => Cardinality(A) <= Cardinality(B)
<1>1. IsFiniteSet(A) /\ IsFiniteSet(B)
  BY FS_Subset
<1>2. Cardinality(A) \in Nat /\ Cardinality(B) \in Nat
  BY <1>1, FS_CardinalityType
<1>3. ASSUME A \cap B = {}
      PROVE  Cardinality(A \cup B) = Cardinality(A) + Cardinality(B)
  <2>1. Cardinality(A \cup B) = Cardinality(A) + Cardinality(B) - Cardinality(A \cap B)
    BY <1>1, FS_Union
  <2>2. Cardinality(A \cap B) = 0
    BY <1>3, FS_EmptySet
  <2> QED BY <1>2, <2>1, <2>2
<1>4. A \subseteq B => Cardinality(A) <= Cardinality(B)
  BY <1>1, FS_Subset
<1> QED BY <1>1, <1>2, <1>3, <1>4

-----------------------------------------------------------------------------
(* Queues and the requests that wait in them *)

\* The queues hold those who wait, in places `p`, once each.
Fits(p, kq, sq) ==
  /\ p \in [Requests -> Places]
  /\ kq \in [Keys -> Seq(Requests)] /\ sq \in Seq(Requests)
  /\ \A k \in Keys : Len(kq[k]) <= KeyQueueMax /\ Distinct(kq[k])
  /\ \A k \in Keys : Elements(kq[k]) = {r \in Requests : p[r] = "key queue" /\ Key[r] = k}
  /\ Len(sq) <= ShareQueueMax /\ Distinct(sq)
  /\ Elements(sq) = {r \in Requests : p[r] = "share queue"}
  /\ \A r \in Requests : p[r] = "key queue" => Key[r] \in Keys

Busy == Places \ {"key queue", "share queue"}

\* A request that does not wait goes from place to place.
LEMMA Moves ==
  ASSUME NEW p, NEW kq, NEW sq, Fits(p, kq, sq),
         NEW r \in Requests, p[r] \in Busy, NEW place \in Busy
  PROVE  Fits([p EXCEPT ![r] = place], kq, sq)
<1> DEFINE q == [p EXCEPT ![r] = place]
<1>1. q \in [Requests -> Places]
  BY DEF Fits, Busy, Places
<1>2. \A x \in Requests : /\ q[x] = "key queue" <=> p[x] = "key queue"
                          /\ q[x] = "share queue" <=> p[x] = "share queue"
  BY DEF Fits, Busy
<1> HIDE DEF q
<1>3. \A k \in Keys : {x \in Requests : q[x] = "key queue" /\ Key[x] = k}
                       = {x \in Requests : p[x] = "key queue" /\ Key[x] = k}
  BY <1>2
<1>4. {x \in Requests : q[x] = "share queue"} = {x \in Requests : p[x] = "share queue"}
  BY <1>2
<1> QED BY <1>1, <1>2, <1>3, <1>4 DEF Fits, q

\* A request leaves the queue of its key.
LEMMA LeavesKeyQueue ==
  ASSUME NEW p, NEW kq, NEW sq, Fits(p, kq, sq),
         NEW r \in Requests, p[r] = "key queue", NEW place \in Busy
  PROVE  Fits([p EXCEPT ![r] = place], [kq EXCEPT ![Key[r]] = Without(@, r)], sq)
<1> DEFINE q == [p EXCEPT ![r] = place]
           nq == [kq EXCEPT ![Key[r]] = Without(@, r)]
<1>1. /\ Key[r] \in Keys /\ r \in Elements(kq[Key[r]])
      /\ kq[Key[r]] \in Seq(Requests) /\ Distinct(kq[Key[r]])
      /\ Len(kq[Key[r]]) <= KeyQueueMax /\ Len(kq[Key[r]]) \in Nat
  <2>1. Key[r] \in Keys
    BY DEF Fits
  <2>2. kq[Key[r]] \in Seq(Requests) /\ Distinct(kq[Key[r]]) /\ Len(kq[Key[r]]) <= KeyQueueMax
    BY <2>1 DEF Fits
  <2>3. Elements(kq[Key[r]]) = {x \in Requests : p[x] = "key queue" /\ Key[x] = Key[r]}
    BY <2>1 DEF Fits
  <2>4. Len(kq[Key[r]]) \in Nat
    BY <2>2, LenType
  <2> QED BY <2>1, <2>2, <2>3, <2>4
<1>2. /\ Without(kq[Key[r]], r) \in Seq(Requests)
      /\ Len(Without(kq[Key[r]], r)) = Len(kq[Key[r]]) - 1
      /\ Distinct(Without(kq[Key[r]], r))
      /\ Elements(Without(kq[Key[r]], r)) = Elements(kq[Key[r]]) \ {r}
  BY <1>1, WithoutLemma
<1>3. q \in [Requests -> Places] /\ nq \in [Keys -> Seq(Requests)]
  BY <1>1, <1>2 DEF Fits, Busy, Places
<1>4. \A k \in Keys : Len(nq[k]) <= KeyQueueMax /\ Distinct(nq[k])
  <2> TAKE k \in Keys
  <2>1. nq[k] = IF k = Key[r] THEN Without(kq[Key[r]], r) ELSE kq[k]
    BY DEF Fits
  <2> HIDE DEF nq
  <2>2. Len(kq[k]) <= KeyQueueMax /\ Distinct(kq[k])
    BY DEF Fits
  <2>3. Len(kq[Key[r]]) - 1 <= KeyQueueMax
    BY <1>1, Numbers, OneLess
  <2> QED BY <1>2, <2>1, <2>2, <2>3
<1>5. \A x \in Requests : /\ q[x] = "key queue" <=> p[x] = "key queue" /\ x # r
                          /\ q[x] = "share queue" <=> p[x] = "share queue"
  BY DEF Fits, Busy
<1>6. ASSUME NEW k \in Keys
      PROVE  Elements(nq[k]) = {x \in Requests : q[x] = "key queue" /\ Key[x] = k}
  <2>1. Elements(kq[k]) = {x \in Requests : p[x] = "key queue" /\ Key[x] = k}
    BY DEF Fits
  <2>2. CASE k = Key[r]
    <3>1. Elements(nq[k]) = Elements(kq[k]) \ {r}
      BY <1>1, <1>2, <2>2 DEF Fits
    <3> HIDE DEF q, nq
    <3> QED BY <1>5, <2>1, <2>2, <3>1
  <2>3. CASE k # Key[r]
    <3>1. nq[k] = kq[k]
      BY <2>3 DEF Fits
    <3> HIDE DEF q, nq
    <3> QED BY <1>5, <2>1, <2>3, <3>1
  <2> QED BY <2>2, <2>3
<1>7. {x \in Requests : q[x] = "share queue"} = {x \in Requests : p[x] = "share queue"}
  BY <1>5
<1> HIDE DEF q, nq
<1> QED BY <1>3, <1>4, <1>5, <1>6, <1>7 DEF Fits, q, nq

\* A request leaves the share gate.
LEMMA LeavesShareQueue ==
  ASSUME NEW p, NEW kq, NEW sq, Fits(p, kq, sq),
         NEW r \in Requests, p[r] = "share queue", NEW place \in Busy
  PROVE  Fits([p EXCEPT ![r] = place], kq, Without(sq, r))
<1> DEFINE q == [p EXCEPT ![r] = place]
<1>1. /\ r \in Elements(sq) /\ sq \in Seq(Requests) /\ Distinct(sq)
      /\ Len(sq) <= ShareQueueMax /\ Len(sq) \in Nat
  <2>1. sq \in Seq(Requests) /\ Distinct(sq) /\ Len(sq) <= ShareQueueMax
    BY DEF Fits
  <2>2. Elements(sq) = {x \in Requests : p[x] = "share queue"}
    BY DEF Fits
  <2>3. Len(sq) \in Nat
    BY <2>1, LenType
  <2> QED BY <2>1, <2>2, <2>3
<1>2. /\ Without(sq, r) \in Seq(Requests) /\ Len(Without(sq, r)) = Len(sq) - 1
      /\ Distinct(Without(sq, r)) /\ Elements(Without(sq, r)) = Elements(sq) \ {r}
  BY <1>1, WithoutLemma
<1>3. q \in [Requests -> Places]
  BY DEF Fits, Busy, Places
<1>4. \A x \in Requests : /\ q[x] = "key queue" <=> p[x] = "key queue"
                          /\ q[x] = "share queue" <=> p[x] = "share queue" /\ x # r
  BY DEF Fits, Busy
<1> HIDE DEF q
<1>5. \A k \in Keys : {x \in Requests : q[x] = "key queue" /\ Key[x] = k}
                       = {x \in Requests : p[x] = "key queue" /\ Key[x] = k}
  BY <1>4
<1>6. Elements(Without(sq, r)) = {x \in Requests : q[x] = "share queue"}
  BY <1>2, <1>4 DEF Fits
<1>7. Len(Without(sq, r)) <= ShareQueueMax
  BY <1>1, <1>2, Numbers, OneLess
<1> QED BY <1>2, <1>3, <1>4, <1>5, <1>6, <1>7 DEF Fits, q

\* A request queues up for a slot of its key.
LEMMA EntersKeyQueue ==
  ASSUME NEW p, NEW kq, NEW sq, Fits(p, kq, sq), NEW r \in Requests,
         p[r] \in Busy, Key[r] \in Keys, Len(kq[Key[r]]) < KeyQueueMax
  PROVE  Fits([p EXCEPT ![r] = "key queue"], [kq EXCEPT ![Key[r]] = Append(@, r)], sq)
<1> DEFINE q == [p EXCEPT ![r] = "key queue"]
           nq == [kq EXCEPT ![Key[r]] = Append(@, r)]
           a == Append(kq[Key[r]], r)
<1>1. /\ kq[Key[r]] \in Seq(Requests) /\ Distinct(kq[Key[r]])
      /\ Elements(kq[Key[r]]) = {x \in Requests : p[x] = "key queue" /\ Key[x] = Key[r]}
  BY DEF Fits
<1>0. r \notin Elements(kq[Key[r]])
  BY <1>1 DEF Busy
<1>2. /\ a \in Seq(Requests) /\ Len(a) = Len(kq[Key[r]]) + 1
      /\ Distinct(a) /\ Elements(a) = Elements(kq[Key[r]]) \cup {r}
  BY <1>0, <1>1, AppendLemma, ZenonT(60)
<1> HIDE DEF a
<1>3. nq = [kq EXCEPT ![Key[r]] = a]
  BY DEF a
<1>4. q \in [Requests -> Places] /\ nq \in [Keys -> Seq(Requests)]
  BY <1>2, <1>3 DEF Fits, Places
<1>5. \A x \in Requests : /\ q[x] = "key queue" <=> p[x] = "key queue" \/ x = r
                          /\ q[x] = "share queue" <=> p[x] = "share queue"
  BY DEF Fits, Busy
<1>6. \A k \in Keys : nq[k] = IF k = Key[r] THEN a ELSE kq[k]
  BY <1>3 DEF Fits
<1> HIDE DEF q, nq
<1>7. \A k \in Keys : Len(nq[k]) <= KeyQueueMax /\ Distinct(nq[k])
  <2> TAKE k \in Keys
  <2>1. Len(kq[k]) <= KeyQueueMax /\ Distinct(kq[k])
    BY DEF Fits
  <2>2. Len(kq[Key[r]]) + 1 <= KeyQueueMax
    <3>1. Len(kq[Key[r]]) \in Nat
      BY <1>1, LenType
    <3> QED BY <3>1, Numbers
  <2> QED BY <1>2, <1>6, <2>1, <2>2
<1>8. ASSUME NEW k \in Keys
      PROVE  Elements(nq[k]) = {x \in Requests : q[x] = "key queue" /\ Key[x] = k}
  <2>1. Elements(kq[k]) = {x \in Requests : p[x] = "key queue" /\ Key[x] = k}
    BY DEF Fits
  <2>2. CASE k = Key[r]
    <3>1. Elements(nq[k]) = Elements(kq[k]) \cup {r}
      BY <1>2, <1>6, <2>2
    <3> QED BY <1>5, <2>1, <2>2, <3>1
  <2>3. CASE k # Key[r]
    <3>1. nq[k] = kq[k]
      BY <1>6, <2>3
    <3> QED BY <1>5, <2>1, <2>3, <3>1
  <2> QED BY <2>2, <2>3
<1>9. {x \in Requests : q[x] = "share queue"} = {x \in Requests : p[x] = "share queue"}
  BY <1>5
<1> QED BY <1>4, <1>5, <1>7, <1>8, <1>9 DEF Fits, q, nq

\* A request queues up for a slot of the share.
LEMMA EntersShareQueue ==
  ASSUME NEW p, NEW kq, NEW sq, Fits(p, kq, sq), NEW r \in Requests,
         p[r] \in Busy, Len(sq) < ShareQueueMax
  PROVE  Fits([p EXCEPT ![r] = "share queue"], kq, Append(sq, r))
<1> DEFINE q == [p EXCEPT ![r] = "share queue"]
           a == Append(sq, r)
<1>1. sq \in Seq(Requests) /\ Distinct(sq) /\ r \notin Elements(sq)
  BY DEF Fits, Busy
<1>2. /\ a \in Seq(Requests) /\ Len(a) = Len(sq) + 1
      /\ Distinct(a) /\ Elements(a) = Elements(sq) \cup {r}
  BY <1>1, AppendLemma
<1>3. q \in [Requests -> Places]
  BY DEF Fits, Places
<1>4. \A x \in Requests : /\ q[x] = "key queue" <=> p[x] = "key queue"
                          /\ q[x] = "share queue" <=> p[x] = "share queue" \/ x = r
  BY DEF Fits, Busy
<1> HIDE DEF q, a
<1>5. \A k \in Keys : {x \in Requests : q[x] = "key queue" /\ Key[x] = k}
                       = {x \in Requests : p[x] = "key queue" /\ Key[x] = k}
  BY <1>4
<1>6. Elements(a) = {x \in Requests : q[x] = "share queue"}
  BY <1>2, <1>4 DEF Fits
<1>7. Len(a) <= ShareQueueMax
  BY <1>1, <1>2
<1> QED BY <1>2, <1>3, <1>4, <1>5, <1>6, <1>7 DEF Fits, q, a
-----------------------------------------------------------------------------
(* What is given back, and who gets it *)

HeldType == held \in [Requests -> SUBSET Things]

After(r, things) == [held EXCEPT ![r] = @ \ things]
Number(r, things, sq) == IF Pumps(things) THEN Grants(After(r, things), sq) ELSE 0
Granted(r, things, sq) == First(sq, Number(r, things, sq))
Woken(r, things, kq) ==
  IF "key" \in things THEN NextWaiter(After(r, things), Key[r], kq[Key[r]]) ELSE {}

\* What giving back does.
GaveBack(r, things, p, kq, sq) ==
  LET granted == Granted(r, things, sq)
      woken == Woken(r, things, kq)
  IN  /\ \A x \in granted : x \in Requests /\ p[x] = "share queue"
      /\ \A x \in woken : x \in Requests /\ p[x] = "key queue" /\ Key[x] = Key[r]
      /\ \A x \in Requests :
           /\ held'[x] = After(r, things)[x]
                \cup (IF x \in granted THEN {"share"} ELSE {})
                \cup (IF x \in woken THEN {"key"} ELSE {})
           /\ pc'[x] = IF x \in granted THEN "trust"
                       ELSE IF x \in woken THEN "port" ELSE p[x]
      /\ Number(r, things, sq) \in 0..Len(sq)
      /\ Len(shareQueue') = Len(sq) - Number(r, things, sq)
      /\ keyQueue' = IF woken = {} THEN kq ELSE [kq EXCEPT ![Key[r]] = Tail(@)]

\* The share limit is a number, and not above ShareMax.
LEMMA ShareLimitType ==
  ASSUME NEW h PROVE ShareLimit(h) \in Nat /\ ShareLimit(h) <= ShareMax
BY Numbers DEF ShareLimit

LEMMA HoldersCounted ==
  ASSUME NEW h, NEW thing
  PROVE  Holders(h, thing) \subseteq Requests /\ Cardinality(Holders(h, thing)) \in Nat
<1>1. Holders(h, thing) \subseteq Requests
  BY DEF Holders
<1> QED BY <1>1, Counting

\* At most as many waiters are served as there are, and as there is room for.
LEMMA GrantsType ==
  ASSUME NEW h, NEW S, NEW q \in Seq(S)
  PROVE  LET n == Grants(h, q)
             used == Cardinality(Holders(h, "share"))
         IN  /\ n \in 0..Len(q)
             /\ n > 0 => used + n <= ShareLimit(h)
             /\ n < Len(q) => used + n >= ShareLimit(h)
<1> DEFINE used == Cardinality(Holders(h, "share"))
           limit == ShareLimit(h)
<1>1. used \in Nat /\ limit \in Nat /\ Len(q) \in Nat
  BY HoldersCounted, ShareLimitType, LenType
<1>2. Grants(h, q) = IF limit - used <= 0 THEN 0
                     ELSE IF Len(q) < limit - used THEN Len(q) ELSE limit - used
  BY DEF Grants
<1> HIDE DEF used, limit
<1>3. LET n == Grants(h, q) IN
      /\ n \in 0..Len(q)
      /\ n > 0 => used + n <= limit
      /\ n < Len(q) => used + n >= limit
  BY <1>1, <1>2
<1> QED BY <1>3 DEF used, limit

\* Who is served waited for it, and the queues fit again.
LEMMA GiveBackFits ==
  ASSUME HeldType, NEW p, NEW kq, NEW sq, Fits(p, kq, sq), NEW r \in Requests,
         NEW things \in SUBSET held[r], "key" \in things => Key[r] \in Keys,
         GiveBack(r, things, p, kq, sq)
  PROVE  /\ GaveBack(r, things, p, kq, sq)
         /\ HeldType' /\ Fits(pc', keyQueue', shareQueue')
<1> DEFINE n == Number(r, things, sq)
           granted == Granted(r, things, sq)
           woken == Woken(r, things, kq)
<1>1. /\ held' = [x \in Requests |->
           After(r, things)[x] \cup (IF x \in granted THEN {"share"} ELSE {})
                               \cup (IF x \in woken THEN {"key"} ELSE {})]
      /\ pc' = [x \in Requests |->
           IF x \in granted THEN "trust" ELSE IF x \in woken THEN "port" ELSE p[x]]
      /\ shareQueue' = SubSeq(sq, n + 1, Len(sq))
      /\ keyQueue' = IF woken = {} THEN kq ELSE [kq EXCEPT ![Key[r]] = Tail(@)]
  BY DEF GiveBack, After, Number, Granted, Woken
<1>2. sq \in Seq(Requests) /\ Distinct(sq) /\ Len(sq) <= ShareQueueMax
  BY DEF Fits
<1>3. n \in 0..Len(sq)
  BY <1>2, GrantsType, LenType DEF Number
<1>4. /\ shareQueue' \in Seq(Requests) /\ Len(shareQueue') = Len(sq) - n
      /\ Distinct(shareQueue') /\ granted \subseteq Elements(sq)
      /\ Elements(shareQueue') = Elements(sq) \ granted
  BY <1>1, <1>2, <1>3, DropLemma DEF Granted
<1>5. Elements(sq) = {x \in Requests : p[x] = "share queue"}
  BY DEF Fits
<1>6. \A x \in granted : x \in Requests /\ p[x] = "share queue"
  BY <1>4, <1>5
<1>7. /\ woken # {} => Key[r] \in Keys /\ kq[Key[r]] # <<>> /\ woken = {Head(kq[Key[r]])}
  BY DEF Woken, NextWaiter
<1>8. Key[r] \in Keys => /\ kq[Key[r]] \in Seq(Requests) /\ Distinct(kq[Key[r]])
                         /\ Len(kq[Key[r]]) <= KeyQueueMax
  BY DEF Fits
<1>9. Key[r] \in Keys =>
        Elements(kq[Key[r]]) = {x \in Requests : p[x] = "key queue" /\ Key[x] = Key[r]}
  BY DEF Fits
<1>10. woken # {} =>
         /\ Tail(kq[Key[r]]) \in Seq(Requests) /\ Len(Tail(kq[Key[r]])) = Len(kq[Key[r]]) - 1
         /\ Distinct(Tail(kq[Key[r]])) /\ woken \subseteq Elements(kq[Key[r]])
         /\ Elements(Tail(kq[Key[r]])) = Elements(kq[Key[r]]) \ woken
  BY <1>7, <1>8, TailLemma
<1>11. \A x \in woken : x \in Requests /\ p[x] = "key queue" /\ Key[x] = Key[r]
  BY <1>7, <1>9, <1>10
<1> HIDE DEF n, granted, woken
<1>12. pc' \in [Requests -> Places]
  BY <1>1 DEF Fits, Places
<1>13. HeldType'
  <2>1. After(r, things) \in [Requests -> SUBSET Things]
    BY DEF After, HeldType
  <2> QED BY <1>1, <2>1 DEF HeldType, Things
<1>14. \A x \in Requests :
         /\ pc'[x] = "share queue" <=> p[x] = "share queue" /\ x \notin granted
         /\ pc'[x] = "key queue" <=> p[x] = "key queue" /\ x \notin woken
  BY <1>1, <1>6, <1>11
<1>15. Elements(shareQueue') = {x \in Requests : pc'[x] = "share queue"}
  BY <1>4, <1>5, <1>14
<1>16. keyQueue' \in [Keys -> Seq(Requests)]
  BY <1>1, <1>7, <1>10 DEF Fits
<1>17. ASSUME NEW k \in Keys
       PROVE  /\ Len(keyQueue'[k]) <= KeyQueueMax /\ Distinct(keyQueue'[k])
              /\ Elements(keyQueue'[k]) = {x \in Requests : pc'[x] = "key queue" /\ Key[x] = k}
  <2>1. /\ Len(kq[k]) <= KeyQueueMax /\ Distinct(kq[k])
        /\ Elements(kq[k]) = {x \in Requests : p[x] = "key queue" /\ Key[x] = k}
    BY DEF Fits
  <2>2. CASE woken # {} /\ k = Key[r]
    <3>1. keyQueue'[k] = Tail(kq[k])
      BY <1>1, <2>2 DEF Fits
    <3>2. Len(kq[k]) \in Nat
      BY <1>8, <2>2, LenType
    <3>3. Len(kq[k]) - 1 <= KeyQueueMax
      BY <2>1, <3>2, Numbers, OneLess
    <3>4. Elements(kq[k]) \ woken = {x \in Requests : pc'[x] = "key queue" /\ Key[x] = k}
      BY <1>14, <2>1
    <3> QED BY <1>10, <2>2, <3>1, <3>3, <3>4
  <2>3. CASE woken = {} \/ k # Key[r]
    <3>1. keyQueue'[k] = kq[k]
      BY <1>1, <2>3 DEF Fits
    <3>2. {x \in Requests : pc'[x] = "key queue" /\ Key[x] = k}
            = {x \in Requests : p[x] = "key queue" /\ Key[x] = k}
      BY <1>11, <1>14, <2>3
    <3> QED BY <2>1, <3>1, <3>2
  <2> QED BY <2>2, <2>3
<1>18. Len(shareQueue') <= ShareQueueMax
  BY <1>2, <1>3, <1>4, LenType, Numbers
<1>19. \A x \in Requests : pc'[x] = "key queue" => Key[x] \in Keys
  BY <1>14 DEF Fits
<1>20. Fits(pc', keyQueue', shareQueue')
  BY <1>4, <1>12, <1>15, <1>16, <1>17, <1>18, <1>19 DEF Fits
<1> QED BY <1>1, <1>3, <1>4, <1>6, <1>11, <1>13, <1>20 DEF n, granted, woken, GaveBack
-----------------------------------------------------------------------------
(* The base invariant: queues fit, and slots are taken in order *)

Early == {"new", "access", "body", "route"}

\* A slot of a key is held by requests of that key which took it, a share slot
\* by requests that passed the gate.
InOrder == \A r \in Requests :
  /\ "key" \in held[r] => /\ Key[r] \in Keys
                          /\ pc[r] \notin Early \cup {"key queue"}
  /\ "share" \in held[r] => pc[r] \notin Early \cup {"key queue", "port", "share queue"}

Base ==
  /\ response \in [Requests -> {"open", "finished", "closed"}]
  /\ HeldType /\ Fits(pc, keyQueue, shareQueue) /\ InOrder

LEMMA InitBase == Init => Base
<1> SUFFICES ASSUME Init PROVE Base
  OBVIOUS
<1>1. /\ response \in [Requests -> {"open", "finished", "closed"}] /\ HeldType /\ InOrder
  BY DEF Init, HeldType, InOrder
<1>2. pc \in [Requests -> Places] /\ \A r \in Requests : pc[r] = "new"
  BY DEF Init, Places
<1>3. \A k \in Keys : /\ keyQueue[k] = <<>> /\ Len(keyQueue[k]) = 0
                      /\ Elements(keyQueue[k]) = {} /\ Distinct(keyQueue[k])
  BY DEF Init, Elements, First, Distinct
<1>4. /\ shareQueue = <<>> /\ Len(shareQueue) = 0
      /\ Elements(shareQueue) = {} /\ Distinct(shareQueue)
  BY DEF Init, Elements, First, Distinct
<1>5. keyQueue \in [Keys -> Seq(Requests)] /\ shareQueue \in Seq(Requests)
  BY DEF Init
<1>6. {r \in Requests : pc[r] = "share queue"} = {}
      /\ \A k \in Keys : {r \in Requests : pc[r] = "key queue" /\ Key[r] = k} = {}
  BY <1>2
<1>7. 0 <= KeyQueueMax /\ 0 <= ShareQueueMax
  BY Numbers
<1>8. Fits(pc, keyQueue, shareQueue)
  <2>1. \A k \in Keys : Len(keyQueue[k]) <= KeyQueueMax /\ Distinct(keyQueue[k])
    BY <1>3, <1>7
  <2>2. \A k \in Keys :
          Elements(keyQueue[k]) = {r \in Requests : pc[r] = "key queue" /\ Key[r] = k}
    BY <1>3, <1>6
  <2>3. \A r \in Requests : pc[r] = "key queue" => Key[r] \in Keys
    BY <1>2
  <2>4. /\ Len(shareQueue) <= ShareQueueMax
        /\ Elements(shareQueue) = {r \in Requests : pc[r] = "share queue"}
    BY <1>4, <1>6, <1>7
  <2> QED BY <1>2, <1>4, <1>5, <2>1, <2>2, <2>3, <2>4 DEF Fits
<1> QED BY <1>1, <1>8 DEF Base

\* What Finish and Close give back, and the places and queues before that.
GoneFirst(p) == \A x \in Requests : p[x] = pc[x] \/ p[x] = "gone"

LEMMA GiveBackBase ==
  ASSUME Base, NEW p, NEW kq, NEW sq, Fits(p, kq, sq), GoneFirst(p),
         NEW r \in Requests, NEW things \in SUBSET held[r],
         GiveBack(r, things, p, kq, sq)
  PROVE  HeldType' /\ Fits(pc', keyQueue', shareQueue') /\ InOrder'
<1>1. "key" \in things => Key[r] \in Keys
  BY DEF Base, InOrder
<1> DEFINE granted == Granted(r, things, sq)
           woken == Woken(r, things, kq)
<1>0. GaveBack(r, things, p, kq, sq) /\ HeldType' /\ Fits(pc', keyQueue', shareQueue')
  BY <1>1, GiveBackFits DEF Base
<1>2. /\ \A x \in granted : x \in Requests /\ p[x] = "share queue"
      /\ \A x \in woken : x \in Requests /\ p[x] = "key queue" /\ Key[x] = Key[r]
      /\ \A x \in Requests :
           /\ held'[x] = After(r, things)[x]
                \cup (IF x \in granted THEN {"share"} ELSE {})
                \cup (IF x \in woken THEN {"key"} ELSE {})
           /\ pc'[x] = IF x \in granted THEN "trust" ELSE IF x \in woken THEN "port" ELSE p[x]
  BY <1>0 DEF GaveBack
<1>3. \A x \in Requests : After(r, things)[x] \subseteq held[x]
  BY DEF After, Base, HeldType
<1> HIDE DEF granted, woken
<1>4. ASSUME NEW x \in Requests, "key" \in held'[x]
      PROVE  Key[x] \in Keys /\ pc'[x] \notin Early \cup {"key queue"}
  <2>1. CASE x \in woken
    BY <1>2, <2>1 DEF Early, Fits
  <2>2. CASE x \notin woken
    <3>1. "key" \in held[x]
      BY <1>2, <1>3, <1>4, <2>2, ZenonT(60)
    <3>2. Key[x] \in Keys /\ pc[x] \notin Early \cup {"key queue"}
      BY <3>1 DEF Base, InOrder
    <3> QED BY <1>2, <2>2, <3>2 DEF GoneFirst, Early
  <2> QED BY <2>1, <2>2
<1>5. ASSUME NEW x \in Requests, "share" \in held'[x]
      PROVE  pc'[x] \notin Early \cup {"key queue", "port", "share queue"}
  <2>1. CASE x \in granted
    BY <1>2, <2>1 DEF Early
  <2>2. CASE x \notin granted
    <3>1. "share" \in held[x]
      BY <1>2, <1>3, <1>5, <2>2, ZenonT(60)
    <3>2. pc[x] \notin Early \cup {"key queue", "port", "share queue"}
      BY <3>1 DEF Base, InOrder
    <3>3. x \notin woken
      BY <1>2, <3>2 DEF GoneFirst
    <3> QED BY <1>2, <2>2, <3>2, <3>3 DEF GoneFirst, Early
  <2> QED BY <2>1, <2>2
<1> QED BY <1>0, <1>4, <1>5 DEF InOrder

\* The queues fit when the request that leaves has left.
LEMMA CloseLeaves ==
  ASSUME Base, NEW r \in Requests
  PROVE  LET p == IF pc[r] \in EndedByClose THEN [pc EXCEPT ![r] = "gone"] ELSE pc
             kq == IF pc[r] = "key queue"
                   THEN [keyQueue EXCEPT ![Key[r]] = Without(@, r)] ELSE keyQueue
             sq == IF pc[r] = "share queue" THEN Without(shareQueue, r) ELSE shareQueue
         IN  Fits(p, kq, sq) /\ GoneFirst(p)
<1>1. Fits(pc, keyQueue, shareQueue) /\ "gone" \in Busy
  BY DEF Base, Busy, Places
<1> DEFINE gone == [pc EXCEPT ![r] = "gone"]
<1>6. GoneFirst(pc) /\ GoneFirst(gone)
  BY <1>1 DEF GoneFirst, Fits
<1>2. CASE pc[r] = "key queue"
  <2>1. Fits(gone, [keyQueue EXCEPT ![Key[r]] = Without(@, r)], shareQueue)
    BY <1>1, <1>2, LeavesKeyQueue
  <2> HIDE DEF gone
  <2> QED BY <1>2, <1>6, <2>1 DEF EndedByClose, gone
<1>3. CASE pc[r] = "share queue"
  <2>1. Fits(gone, keyQueue, Without(shareQueue, r))
    BY <1>1, <1>3, LeavesShareQueue
  <2> HIDE DEF gone
  <2> QED BY <1>3, <1>6, <2>1 DEF EndedByClose, gone
<1>4. CASE pc[r] \notin {"key queue", "share queue"} /\ pc[r] \in EndedByClose
  <2>1. pc[r] \in Places
    BY <1>1 DEF Fits
  <2>2. pc[r] \in Busy
    BY <1>4, <2>1 DEF Busy
  <2>3. Fits(gone, keyQueue, shareQueue)
    BY <1>1, <2>2, Moves
  <2> HIDE DEF gone
  <2> QED BY <1>4, <1>6, <2>3 DEF gone
<1>5. CASE pc[r] \notin EndedByClose
  BY <1>1, <1>5, <1>6 DEF EndedByClose
<1> QED BY <1>2, <1>3, <1>4, <1>5

\* A request that does not wait goes on; what it takes or gives back on the
\* way is in order.
LEMMA GoesOn ==
  ASSUME Base, NEW r \in Requests, pc[r] \in Busy, NEW place \in Busy,
         pc' = [pc EXCEPT ![r] = place],
         NEW mine \in SUBSET Things, held' = [held EXCEPT ![r] = mine],
         "key" \in mine => Key[r] \in Keys /\ place \notin Early,
         "share" \in mine => place \notin Early \cup {"port"},
         UNCHANGED <<keyQueue, shareQueue>>
  PROVE  HeldType' /\ Fits(pc, keyQueue, shareQueue)' /\ InOrder'
<1>1. HeldType'
  BY DEF Base, HeldType
<1>2. Fits(pc, keyQueue, shareQueue)'
  <2>1. Fits(pc, keyQueue, shareQueue)
    BY DEF Base
  <2>2. Fits([pc EXCEPT ![r] = place], keyQueue, shareQueue)
    BY <2>1, Moves
  <2> QED BY <2>2
<1>3. InOrder'
  <2> SUFFICES ASSUME NEW x \in Requests PROVE InOrder!(x)'
    BY DEF InOrder
  <2>1. CASE x = r
    BY <2>1 DEF Base, HeldType, Fits, InOrder, Busy
  <2>2. CASE x # r
    BY <2>2 DEF Base, HeldType, Fits, InOrder
  <2> QED BY <2>1, <2>2
<1> QED BY <1>1, <1>2, <1>3
\* The same for a request that takes nothing.
LEMMA OnlyGoesOn ==
  ASSUME Base, NEW r \in Requests, pc[r] \in Busy \ (Early \cup {"port"}),
         NEW place \in Busy \ (Early \cup {"port"}),
         Goto(r, place), UNCHANGED <<held, keyQueue, shareQueue>>
  PROVE  HeldType' /\ Fits(pc, keyQueue, shareQueue)' /\ InOrder'
<1>1. held[r] \in SUBSET Things /\ held' = [held EXCEPT ![r] = held[r]]
  BY DEF Base, HeldType
<1>2. "key" \in held[r] => Key[r] \in Keys
  BY DEF Base, InOrder
<1> QED BY <1>1, <1>2, GoesOn DEF Goto

\* Before the key queue a request holds no slot.
LEMMA EarlyHoldsNoSlot ==
  ASSUME Base, NEW r \in Requests
  PROVE  /\ pc[r] \in Early => held[r] \cap {"key", "share"} = {}
         /\ pc[r] = "port" => "share" \notin held[r]
         /\ held[r] \in SUBSET Things
         /\ "key" \in held[r] => Key[r] \in Keys
         /\ held = [held EXCEPT ![r] = held[r]]
BY DEF Base, HeldType, InOrder, Early

LEMMA BaseStep == Base /\ [Next]_vars => Base'
<1> SUFFICES ASSUME Base, [Next]_vars PROVE Base'
  OBVIOUS
<1> DEFINE Core == HeldType' /\ Fits(pc, keyQueue, shareQueue)' /\ InOrder'
<1>0. CASE UNCHANGED vars
  BY <1>0 DEF vars, Base, HeldType, Fits, InOrder
<1>1. SUFFICES ASSUME NEW r \in Requests,
                      \/ Arrive(r) \/ Step(r) \/ KeyTimeout(r) \/ ShareTimeout(r) \/ Close(r)
               PROVE  Base'
  BY <1>0 DEF Next
<1>2. held[r] \in SUBSET Things /\ held = [held EXCEPT ![r] = held[r]]
  BY EarlyHoldsNoSlot DEF Base, HeldType
<1>3. /\ pc[r] \in Early => held[r] \cap {"key", "share"} = {}
      /\ pc[r] = "port" => "share" \notin held[r]
      /\ "key" \in held[r] => Key[r] \in Keys
  BY EarlyHoldsNoSlot
<1>4. ASSUME pc[r] \in Busy, Refuse(r) PROVE Core
  <2>1. "answered" \in Busy /\ "answered" \notin Early \cup {"port"}
    BY DEF Busy, Places, Early
  <2> QED BY <1>2, <1>3, <1>4, <2>1, GoesOn DEF Refuse, Goto
<1>5. CASE Arrive(r)
  <2>1. {"new", "access"} \subseteq Busy /\ {"new", "access"} \subseteq Early
    BY DEF Busy, Places, Early
  <2>2. Core
    BY <1>2, <1>3, <1>5, <2>1, GoesOn DEF Arrive, Goto
  <2> QED BY <1>5, <2>2 DEF Arrive, Base
<1>6. CASE Authorized(r)
  <2>1. {"access", "body"} \subseteq Busy /\ {"access", "body"} \subseteq Early
    BY DEF Busy, Places, Early
  <2>2. CASE Refuse(r)
    BY <1>4, <1>6, <2>1, <2>2 DEF Authorized, Base
  <2>3. CASE ~Refuse(r)
    <3> DEFINE mine == held[r] \cup (IF r \in Owners THEN {"owner"} ELSE {})
    <3>1. mine \in SUBSET Things /\ mine \cap {"key", "share"} = {}
      BY <1>2, <1>3, <1>6, <2>1 DEF Authorized, Things
    <3>2. pc' = [pc EXCEPT ![r] = "body"] /\ held' = [held EXCEPT ![r] = mine]
          /\ UNCHANGED <<keyQueue, shareQueue>> /\ pc[r] = "access" /\ UNCHANGED response
      BY <1>6, <2>3 DEF Authorized, Goto, Take
    <3> HIDE DEF mine
    <3>3. Core
      BY <2>1, <3>1, <3>2, GoesOn
    <3> QED BY <3>2, <3>3 DEF Base
  <2> QED BY <2>2, <2>3
<1>7. CASE BodyRead(r)
  <2>1. {"body", "route"} \subseteq Busy /\ {"body", "route"} \subseteq Early
    BY DEF Busy, Places, Early
  <2>2. CASE Refuse(r)
    BY <1>4, <1>7, <2>1, <2>2 DEF BodyRead, Base
  <2>3. CASE ~Refuse(r)
    <3>1. Core
      BY <1>2, <1>3, <1>7, <2>1, <2>3, GoesOn DEF BodyRead, Goto
    <3> QED BY <1>7, <3>1 DEF BodyRead, Base
  <2> QED BY <2>2, <2>3
<1>8. CASE Routed(r)
  <2> DEFINE tokens == IF r \in Metered THEN {"tokens"} ELSE {}
             some == held[r] \cup tokens
             all == held[r] \cup (tokens \cup {"key"})
  <2>1. /\ {"route", "port", "answered"} \subseteq Busy /\ "route" \in Early
        /\ {"port", "answered"} \cap Early = {}
    BY DEF Busy, Places, Early
  <2>2. pc[r] = "route" /\ UNCHANGED <<response, shareQueue>>
    BY <1>8 DEF Routed
  <2>3. /\ some \in SUBSET Things /\ some \cap {"key", "share"} = {}
        /\ all \in SUBSET Things /\ "share" \notin all
    BY <1>2, <1>3, <2>1, <2>2 DEF Things
  <2>4. Key[r] # NoKey => Key[r] \in Keys
    BY DEF GatewayAssumption
  <2>5. \/ Refuse(r)
        \/ Goto(r, "port") /\ held' = [held EXCEPT ![r] = some] /\ UNCHANGED keyQueue
        \/ /\ Key[r] # NoKey
           /\ Goto(r, "port") /\ held' = [held EXCEPT ![r] = all] /\ UNCHANGED keyQueue
        \/ Goto(r, "answered") /\ held' = [held EXCEPT ![r] = some] /\ UNCHANGED keyQueue
        \/ /\ Key[r] # NoKey /\ ~KeyQueueFull(Key[r]) /\ Goto(r, "key queue")
           /\ held' = [held EXCEPT ![r] = some]
           /\ keyQueue' = [keyQueue EXCEPT ![Key[r]] = Append(@, r)]
    BY <1>8 DEF Routed, Take
  <2> HIDE DEF some, all
  <2>6. CASE Refuse(r)
    BY <1>4, <2>1, <2>2, <2>6 DEF Base
  <2>7. CASE Goto(r, "port") /\ held' = [held EXCEPT ![r] = some] /\ UNCHANGED keyQueue
    <3>1. Core
      BY <2>1, <2>2, <2>3, <2>7, GoesOn DEF Goto
    <3> QED BY <2>2, <3>1 DEF Base
  <2>8. CASE /\ Key[r] # NoKey
             /\ Goto(r, "port") /\ held' = [held EXCEPT ![r] = all] /\ UNCHANGED keyQueue
    <3>1. Core
      BY <2>1, <2>2, <2>3, <2>4, <2>8, GoesOn DEF Goto
    <3> QED BY <2>2, <3>1 DEF Base
  <2>9. CASE Goto(r, "answered") /\ held' = [held EXCEPT ![r] = some] /\ UNCHANGED keyQueue
    <3>1. Core
      BY <2>1, <2>2, <2>3, <2>9, GoesOn DEF Goto
    <3> QED BY <2>2, <3>1 DEF Base
  <2>10. CASE /\ Key[r] # NoKey /\ ~KeyQueueFull(Key[r]) /\ Goto(r, "key queue")
              /\ held' = [held EXCEPT ![r] = some]
              /\ keyQueue' = [keyQueue EXCEPT ![Key[r]] = Append(@, r)]
    <3>1. Key[r] \in Keys /\ Fits(pc, keyQueue, shareQueue)
      BY <2>4, <2>10 DEF Base
    <3>2. keyQueue[Key[r]] \in Seq(Requests)
      BY <3>1 DEF Fits
    <3>3. Len(keyQueue[Key[r]]) < KeyQueueMax
      <4>1. ~(Len(keyQueue[Key[r]]) >= KeyQueueMax)
        BY <2>10 DEF KeyQueueFull
      <4>2. Len(keyQueue[Key[r]]) \in Nat
        BY <3>2, LenType
      <4> QED BY <4>1, <4>2, Numbers
    <3>4. Fits([pc EXCEPT ![r] = "key queue"],
               [keyQueue EXCEPT ![Key[r]] = Append(@, r)], shareQueue)
      BY <2>1, <2>2, <3>1, <3>3, EntersKeyQueue
    <3>5. Fits(pc, keyQueue, shareQueue)'
      BY <2>2, <2>10, <3>4 DEF Goto
    <3>6. HeldType'
      BY <2>3, <2>10 DEF Base, HeldType
    <3>7. InOrder'
      <4> SUFFICES ASSUME NEW x \in Requests PROVE InOrder!(x)'
        BY DEF InOrder
      <4>1. CASE x = r
        BY <2>3, <2>10, <4>1 DEF Base, HeldType
      <4>2. CASE x # r
        BY <2>10, <4>2 DEF Base, HeldType, Fits, InOrder, Goto
      <4> QED BY <4>1, <4>2
    <3> QED BY <2>2, <3>5, <3>6, <3>7 DEF Base
  <2> QED BY <2>5, <2>6, <2>7, <2>8, <2>9, <2>10
<1>9. CASE PortChecked(r)
  <2>1. /\ {"port", "trust", "answered"} \subseteq Busy
        /\ {"port", "trust", "answered"} \cap Early = {}
    BY DEF Busy, Places, Early
  <2>2. pc[r] = "port" /\ UNCHANGED <<response, keyQueue>>
    BY <1>9 DEF PortChecked
  <2>3. \/ Refuse(r)
        \/ Goto(r, "trust") /\ UNCHANGED <<held, shareQueue>>
        \/ Goto(r, "trust") /\ Take(r, {"share"}) /\ UNCHANGED shareQueue
        \/ Goto(r, "answered") /\ UNCHANGED <<held, shareQueue>>
        \/ /\ Len(shareQueue) < ShareQueueMax /\ Goto(r, "share queue")
           /\ shareQueue' = Enqueue(r) /\ UNCHANGED held
    BY <1>9 DEF PortChecked
  <2>4. CASE Refuse(r)
    BY <1>4, <2>1, <2>2, <2>4 DEF Base
  <2>5. CASE \/ Goto(r, "trust") /\ UNCHANGED <<held, shareQueue>>
             \/ Goto(r, "answered") /\ UNCHANGED <<held, shareQueue>>
    <3>1. Core
      BY <1>2, <1>3, <2>1, <2>2, <2>5, GoesOn DEF Goto
    <3> QED BY <2>2, <3>1 DEF Base
  <2>6. CASE Goto(r, "trust") /\ Take(r, {"share"}) /\ UNCHANGED shareQueue
    <3>1. /\ held[r] \cup {"share"} \in SUBSET Things
          /\ held' = [held EXCEPT ![r] = held[r] \cup {"share"}]
          /\ "key" \in held[r] \cup {"share"} => Key[r] \in Keys
      BY <1>2, <1>3, <2>6 DEF Take, Things
    <3>2. Core
      BY <2>1, <2>2, <2>6, <3>1, GoesOn DEF Goto
    <3> QED BY <2>2, <3>2 DEF Base
  <2>7. CASE /\ Len(shareQueue) < ShareQueueMax /\ Goto(r, "share queue")
             /\ shareQueue' = Enqueue(r) /\ UNCHANGED held
    <3>1. Fits([pc EXCEPT ![r] = "share queue"], keyQueue, Append(shareQueue, r))
      BY <2>1, <2>2, <2>7, EntersShareQueue DEF Base
    <3>2. Fits(pc, keyQueue, shareQueue)'
      BY <2>2, <2>7, <3>1 DEF Goto, Enqueue
    <3>3. InOrder'
      <4> SUFFICES ASSUME NEW x \in Requests PROVE InOrder!(x)'
        BY DEF InOrder
      <4>1. CASE x = r
        BY <1>3, <2>2, <2>7, <4>1 DEF Base, Fits, Goto, Early
      <4>2. CASE x # r
        BY <2>7, <4>2 DEF Base, Fits, InOrder, Goto
      <4> QED BY <4>1, <4>2
    <3> QED BY <2>2, <2>7, <3>2, <3>3 DEF Base, HeldType
  <2> QED BY <2>3, <2>4, <2>5, <2>6, <2>7
<1>10. CASE Trusted(r) \/ Answered(r) \/ Streamed(r)
  <2>1. /\ {"trust", "upstream", "streaming", "answered"} \subseteq Busy
        /\ {"trust", "upstream", "streaming", "answered"} \cap (Early \cup {"port"}) = {}
    BY DEF Busy, Places, Early
  <2>2. /\ pc[r] \in {"trust", "upstream", "streaming"} /\ UNCHANGED <<response, keyQueue, shareQueue>>
        /\ \/ Goto(r, "upstream") \/ Goto(r, "streaming") \/ Goto(r, "answered")
        /\ UNCHANGED held \/ held' = [held EXCEPT ![r] = @ \ {"tokens"}]
    BY <1>10 DEF Trusted, Answered, Streamed, Refuse
  <2>3. CASE UNCHANGED held
    <3>1. Core
      BY <2>1, <2>2, <2>3, OnlyGoesOn
    <3> QED BY <2>2, <3>1 DEF Base
  <2>4. CASE held' = [held EXCEPT ![r] = @ \ {"tokens"}]
    <3> DEFINE mine == held[r] \ {"tokens"}
    <3>1. /\ mine \in SUBSET Things /\ held' = [held EXCEPT ![r] = mine]
          /\ "key" \in mine => Key[r] \in Keys
      BY <1>2, <1>3, <2>4
    <3> HIDE DEF mine
    <3>2. Core
      BY <2>1, <2>2, <3>1, GoesOn DEF Goto
    <3> QED BY <2>2, <3>2 DEF Base
  <2> QED BY <2>2, <2>3, <2>4
<1>11. CASE KeyTimeout(r)
  <2>1. "answered" \in Busy
    BY DEF Busy, Places
  <2>2. Fits([pc EXCEPT ![r] = "answered"],
             [keyQueue EXCEPT ![Key[r]] = Without(@, r)], shareQueue)
    BY <1>11, <2>1, LeavesKeyQueue DEF KeyTimeout, Base
  <2>3. Fits(pc, keyQueue, shareQueue)'
    BY <1>11, <2>2 DEF KeyTimeout, Goto
  <2>4. InOrder'
    BY <1>11 DEF KeyTimeout, Goto, Base, Fits, InOrder, Early
  <2> QED BY <1>11, <2>3, <2>4 DEF KeyTimeout, Base, HeldType
<1>12. CASE ShareTimeout(r)
  <2>1. "answered" \in Busy
    BY DEF Busy, Places
  <2>2. Fits([pc EXCEPT ![r] = "answered"], keyQueue, Without(shareQueue, r))
    BY <1>12, <2>1, LeavesShareQueue DEF ShareTimeout, Base
  <2>3. Fits(pc, keyQueue, shareQueue)'
    BY <1>12, <2>2 DEF ShareTimeout, Goto
  <2>4. InOrder'
    BY <1>12 DEF ShareTimeout, Goto, Base, Fits, InOrder, Early
  <2> QED BY <1>12, <2>3, <2>4 DEF ShareTimeout, Base, HeldType
<1>13. CASE Finish(r)
  <2>1. GoneFirst(pc) /\ held[r] \cap OnFinish \in SUBSET held[r]
        /\ GiveBack(r, held[r] \cap OnFinish, pc, keyQueue, shareQueue)
    BY <1>13 DEF GoneFirst, Finish
  <2>2. HeldType' /\ Fits(pc', keyQueue', shareQueue') /\ InOrder'
    BY <2>1, GiveBackBase DEF Base
  <2>3. response' \in [Requests -> {"open", "finished", "closed"}]
    BY <1>13 DEF Finish, Base
  <2> QED BY <2>2, <2>3 DEF Base
<1>14. CASE Close(r)
  <2> DEFINE p == IF pc[r] \in EndedByClose THEN [pc EXCEPT ![r] = "gone"] ELSE pc
             kq == IF pc[r] = "key queue"
                   THEN [keyQueue EXCEPT ![Key[r]] = Without(@, r)] ELSE keyQueue
             sq == IF pc[r] = "share queue" THEN Without(shareQueue, r) ELSE shareQueue
  <2>1. Fits(p, kq, sq) /\ GoneFirst(p)
    BY CloseLeaves
  <2>2. /\ response' = [response EXCEPT ![r] = "closed"]
        /\ GiveBack(r, held[r] \cap OnClose, p, kq, sq)
    BY <1>14 DEF Close
  <2> HIDE DEF p, kq, sq
  <2>3. HeldType' /\ Fits(pc', keyQueue', shareQueue') /\ InOrder'
    BY <2>1, <2>2, GiveBackBase
  <2>4. response' \in [Requests -> {"open", "finished", "closed"}]
    BY <2>2 DEF Base
  <2> QED BY <2>3, <2>4 DEF Base
<1> QED BY <1>1, <1>5, <1>6, <1>7, <1>8, <1>9, <1>10, <1>11, <1>12, <1>13, <1>14 DEF Step

THEOREM BaseHolds == Spec => []Base
BY InitBase, BaseStep, PTL DEF Spec

\* Only a client that leaves is not heard.
LEMMA OnlyLeavingIsUnheard ==
  ASSUME NEW r, Arrive(r) \/ Step(r) \/ KeyTimeout(r) \/ ShareTimeout(r)
  PROVE  UNCHANGED unheard
BY DEF Arrive, Step, Authorized, BodyRead, Routed, PortChecked, Trusted, Answered, Streamed,
       Finish, KeyTimeout, ShareTimeout

LEMMA UnheardType == Spec => [](unheard \subseteq Requests)
<1>1. Init => unheard \subseteq Requests
  BY DEF Init
<1>2. ASSUME unheard \subseteq Requests, [Next]_vars PROVE (unheard \subseteq Requests)'
  <2>1. CASE UNCHANGED vars
    BY <1>2, <2>1 DEF vars
  <2>2. ASSUME NEW r \in Requests,
               Arrive(r) \/ Step(r) \/ KeyTimeout(r) \/ ShareTimeout(r) \/ Close(r)
        PROVE  unheard' \subseteq Requests
    <3>1. CASE Close(r)
      <4>1. unheard' = unheard \cup {r} \/ unheard' = unheard
        BY <3>1 DEF Close
      <4> QED BY <1>2, <4>1
    <3>2. CASE Arrive(r) \/ Step(r) \/ KeyTimeout(r) \/ ShareTimeout(r)
      <4>1. unheard' = unheard
        BY <3>2, OnlyLeavingIsUnheard
      <4> QED BY <1>2, <4>1
    <3> QED BY <2>2, <3>1, <3>2
  <2>3. CASE Next
    BY <2>2, <2>3, Zenon DEF Next
  <2> QED BY <1>2, <2>1, <2>3
<1> QED BY <1>1, <1>2, PTL DEF Spec

LEMMA BaseMeans == Base /\ unheard \subseteq Requests => TypeOK /\ WaitersAreQueued
<1> SUFFICES ASSUME Base, unheard \subseteq Requests PROVE TypeOK /\ WaitersAreQueued
  OBVIOUS
<1>1. TypeOK
  BY DEF Base, Fits, HeldType, TypeOK
<1>2. WaitersAreQueued
  <2>1. \A k \in Keys : IsInjective(keyQueue[k])
    BY DistinctIsInjective DEF Base, Fits
  <2>2. IsInjective(shareQueue)
    BY DistinctIsInjective DEF Base, Fits
  <2> QED BY <2>1, <2>2 DEF Base, Fits, Elements, WaitersAreQueued
<1> QED BY <1>1, <1>2

\* The state has its types and the queues their bounds
\* (gateway-utils.js 1829-1842, limiter.js 507).
THEOREM TypeCorrect == Spec => []TypeOK
BY BaseHolds, UnheardType, BaseMeans, PTL

\* A waiting request is in its queue, once, and nobody else is: no slot goes
\* to a request that timed out or left (gateway-utils.js 1858-1880, limiter.js
\* 516-530).
THEOREM WaitersCorrect == Spec => []WaitersAreQueued
BY BaseHolds, UnheardType, BaseMeans, PTL
-----------------------------------------------------------------------------
(* Slots: never more than allowed, never one free beside a waiter *)

SlotInv == Limits /\ NoIdleSlot

LEMMA UsersCounted ==
  ASSUME NEW h, NEW k
  PROVE  KeyUsers(h, k) \subseteq Requests /\ Cardinality(KeyUsers(h, k)) \in Nat
<1>1. KeyUsers(h, k) \subseteq Requests
  BY DEF KeyUsers, Holders
<1> QED BY <1>1, Counting

LEMMA OneMore ==
  ASSUME NEW A, A \subseteq Requests, NEW x \in Requests, NEW m \in Nat
  PROVE  /\ Cardinality(A) < m => Cardinality(A \cup {x}) <= m
         /\ x \notin A => Cardinality(A \cup {x}) = Cardinality(A) + 1
         /\ Cardinality(A) <= Cardinality(A \ {x}) + 1
<1>1. IsFiniteSet(A) /\ Cardinality(A) \in Nat
  BY Counting
<1>2. Cardinality(A \cup {x}) = IF x \in A THEN Cardinality(A) ELSE Cardinality(A) + 1
  BY <1>1, FS_AddElement
<1>3. Cardinality(A \ {x}) = IF x \in A THEN Cardinality(A) - 1 ELSE Cardinality(A)
  BY <1>1, FS_RemoveElement
<1> QED BY <1>1, <1>2, <1>3

\* Where more is held there is less room.
LEMMA RoomShrinks ==
  ASSUME NEW g, NEW h,
         \A x \in Requests : g[x] \cap {"owner", "key", "share"} \subseteq h[x]
  PROVE  /\ \A k : ~KeyRoom(g, k) => ~KeyRoom(h, k)
         /\ ~ShareRoom(g) => ~ShareRoom(h)
<1>1. \A thing \in {"owner", "key", "share"} : Holders(g, thing) \subseteq Holders(h, thing)
  BY DEF Holders
<1>2. ASSUME NEW k, ~KeyRoom(g, k) PROVE ~KeyRoom(h, k)
  <2>1. KeyUsers(g, k) \subseteq KeyUsers(h, k)
    BY <1>1 DEF KeyUsers
  <2>2. Cardinality(KeyUsers(g, k)) <= Cardinality(KeyUsers(h, k))
    BY <2>1, UsersCounted, Counting
  <2> QED BY <1>2, <2>2, UsersCounted, Numbers DEF KeyRoom
<1>3. ASSUME ~ShareRoom(g) PROVE ~ShareRoom(h)
  <2>1. Cardinality(Holders(g, "share")) <= Cardinality(Holders(h, "share"))
    BY <1>1, HoldersCounted, Counting
  <2>2. ShareLimit(h) <= ShareLimit(g)
    BY <1>1, Numbers DEF ShareLimit
  <2> QED BY <1>3, <2>1, <2>2, HoldersCounted, ShareLimitType DEF ShareRoom
<1> QED BY <1>2, <1>3

\* What is given back reaches a waiter, or nobody waits who could have it.
LEMMA GiveBackSlots ==
  ASSUME Base, SlotInv, NEW p, NEW kq, NEW sq, Fits(p, kq, sq), GoneFirst(p),
         NEW r \in Requests, NEW things \in SUBSET held[r],
         GiveBack(r, things, p, kq, sq),
         \A k \in Keys : kq[k] # <<>> => keyQueue[k] # <<>>,
         sq # <<>> => shareQueue # <<>>
  PROVE  Limits' /\ NoIdleSlot'
<1> DEFINE granted == Granted(r, things, sq)
           woken == Woken(r, things, kq)
           n == Number(r, things, sq)
           h == After(r, things)
<1>1. "key" \in things => Key[r] \in Keys
  BY DEF Base, InOrder
<1>2. GaveBack(r, things, p, kq, sq) /\ Fits(pc', keyQueue', shareQueue')
  BY <1>1, GiveBackFits DEF Base
<1>3. /\ \A x \in granted : x \in Requests /\ p[x] = "share queue"
      /\ \A x \in woken : x \in Requests /\ p[x] = "key queue" /\ Key[x] = Key[r]
      /\ \A x \in Requests : held'[x] = h[x]
            \cup (IF x \in granted THEN {"share"} ELSE {})
            \cup (IF x \in woken THEN {"key"} ELSE {})
      /\ n \in 0..Len(sq) /\ Len(shareQueue') = Len(sq) - n
      /\ keyQueue' = IF woken = {} THEN kq ELSE [kq EXCEPT ![Key[r]] = Tail(@)]
  BY <1>2 DEF GaveBack
<1>21. \A x \in Requests : held'[x] = h[x]
            \cup (IF x \in granted THEN {"share"} ELSE {})
            \cup (IF x \in woken THEN {"key"} ELSE {})
  BY <1>3
<1>22. n \in 0..Len(sq) /\ Len(shareQueue') = Len(sq) - n
  BY <1>3
<1>23. \A x \in granted : x \in Requests
  BY <1>3
<1>4. \A x \in Requests : h[x] = IF x = r THEN held[x] \ things ELSE held[x]
  BY DEF After, Base, HeldType
<1>5. \A x \in granted : "share" \notin held[x]
  BY <1>3 DEF GoneFirst, Base, InOrder
<1>6. \A x \in woken : "key" \notin held[x]
  BY <1>3 DEF GoneFirst, Base, InOrder
<1>7. sq \in Seq(Requests) /\ Distinct(sq) /\ Len(sq) \in Nat
  BY LenType DEF Fits
<1>8. /\ Cardinality(granted) = n /\ granted \subseteq Requests
      /\ n > 0 => Cardinality(Holders(h, "share")) + n <= ShareLimit(h)
      /\ Pumps(things) /\ n < Len(sq) =>
           Cardinality(Holders(h, "share")) + n >= ShareLimit(h)
      /\ ~Pumps(things) => n = 0
  <2>1. Cardinality(granted) = n
    BY <1>3, <1>7, FirstCardinality DEF Granted
  <2>2. CASE Pumps(things)
    BY <1>3, <1>7, <2>1, <2>2, GrantsType DEF Number
  <2>3. CASE ~Pumps(things)
    <3>1. n = 0
      BY <2>3 DEF Number
    <3> HIDE DEF n, granted, woken, h
    <3> QED BY <1>23, <2>1, <2>3, <3>1
  <2> QED BY <2>2, <2>3
<1>9. woken # {} => /\ "key" \in things /\ KeyRoom(h, Key[r]) /\ kq[Key[r]] # <<>>
                    /\ woken = {Head(kq[Key[r]])}
  BY DEF Woken, NextWaiter
<1>10. "key" \in things /\ woken = {} => kq[Key[r]] = <<>> \/ ~KeyRoom(h, Key[r])
  BY DEF Woken, NextWaiter
<1> HIDE DEF granted, woken, n, h
<1>11. /\ Holders(held', "share") = Holders(h, "share") \cup granted
       /\ Holders(h, "share") \cap granted = {}
       /\ Holders(held', "owner") = Holders(h, "owner")
  <2>1. \A x \in Requests : "share" \in held'[x] <=> "share" \in h[x] \/ x \in granted
    BY <1>21
  <2>2. \A x \in Requests : "owner" \in held'[x] <=> "owner" \in h[x]
    BY <1>21
  <2>3. \A x \in granted : "share" \notin h[x]
    BY <1>3, <1>4, <1>5
  <2> QED BY <1>8, <2>1, <2>2, <2>3 DEF Holders
<1>20. /\ n \in Nat /\ ShareLimit(h) \in Nat /\ ShareLimit(h) <= ShareMax /\ ShareMax \in Nat
       /\ Cardinality(Holders(h, "share")) \in Nat
       /\ Cardinality(Holders(held, "share")) \in Nat
       /\ Cardinality(Holders(held', "share")) \in Nat
  BY <1>7, <1>22, HoldersCounted, ShareLimitType, Numbers
<1>12. Cardinality(Holders(held', "share")) = Cardinality(Holders(h, "share")) + n
  BY <1>8, <1>11, HoldersCounted, Counting
<1>13. ShareLimit(held') = ShareLimit(h)
  BY <1>11 DEF ShareLimit
<1>14. Cardinality(Holders(h, "share")) <= Cardinality(Holders(held, "share"))
  <2>1. Holders(h, "share") \subseteq Holders(held, "share")
    BY <1>4 DEF Holders
  <2> QED BY <2>1, HoldersCounted, Counting
<1>15. Cardinality(Holders(held', "share")) <= ShareMax
  <2>1. CASE n > 0
    BY <1>8, <1>12, <1>20, <2>1
  <2>2. CASE n = 0
    <3>1. Cardinality(Holders(held, "share")) <= ShareMax
      BY DEF SlotInv, Limits
    <3> QED BY <1>12, <1>14, <1>20, <2>2, <3>1
  <2> QED BY <1>20, <2>1, <2>2
<1>16. ASSUME shareQueue' # <<>> PROVE ~ShareRoom(held')
  <2>1. shareQueue' \in Seq(Requests)
    BY <1>2 DEF Fits
  <2>0. Len(shareQueue') # 0
    BY <1>16, <2>1, EmptyLen
  <2>2. n < Len(sq)
    BY <1>7, <1>22, <1>20, <2>0
  <2>3. CASE Pumps(things)
    <3>1. Cardinality(Holders(h, "share")) + n >= ShareLimit(h)
      BY <1>8, <2>2, <2>3
    <3> QED BY <1>12, <1>13, <1>20, <3>1 DEF ShareRoom
  <2>4. CASE ~Pumps(things)
    <3>1. n = 0 /\ sq # <<>>
      BY <1>7, <1>8, <2>2, <2>4, EmptyLen
    <3>2. ~ShareRoom(held)
      BY <3>1 DEF SlotInv, NoIdleSlot
    <3>3. Holders(h, "share") = Holders(held, "share") /\ Holders(h, "owner") = Holders(held, "owner")
      BY <1>4, <2>4 DEF Holders, Pumps
    <3>4. /\ Cardinality(Holders(held', "share")) = Cardinality(Holders(held, "share"))
          /\ ShareLimit(held') = ShareLimit(held)
      BY <1>12, <1>13, <3>1, <3>3, HoldersCounted DEF ShareLimit
    <3> QED BY <3>2, <3>4 DEF ShareRoom
  <2> QED BY <2>3, <2>4
<1>17. ASSUME NEW k \in Keys
       PROVE  /\ Cardinality(KeyUsers(held', k)) <= KeyMax
              /\ keyQueue'[k] # <<>> => ~KeyRoom(held', k)
  <2>1. KeyUsers(h, k) \subseteq KeyUsers(held, k)
    BY <1>4 DEF KeyUsers, Holders
  <2>2. Cardinality(KeyUsers(h, k)) <= Cardinality(KeyUsers(held, k))
    BY <2>1, UsersCounted, Counting
  <2>3. Cardinality(KeyUsers(held, k)) <= KeyMax
    BY DEF SlotInv, Limits
  <2>4. kq[k] # <<>> => Cardinality(KeyUsers(held, k)) >= KeyMax
    BY UsersCounted, Numbers DEF SlotInv, NoIdleSlot, KeyRoom
  <2>5. CASE woken # {} /\ k = Key[r]
    <3>1. PICK w \in Requests : woken = {w} /\ "key" \notin held[w] /\ Key[w] = k
      BY <1>3, <1>6, <1>9, <2>5
    <3>2. KeyUsers(held', k) = KeyUsers(h, k) \cup {w}
      <4>1. \A x \in Requests : "key" \in held'[x] <=> "key" \in h[x] \/ x = w
        BY <1>21, <3>1
      <4> QED BY <3>1, <4>1 DEF KeyUsers, Holders
    <3>3. w \notin KeyUsers(h, k)
      BY <1>4, <3>1 DEF KeyUsers, Holders
    <3>4. Cardinality(KeyUsers(held', k)) = Cardinality(KeyUsers(h, k)) + 1
      BY <3>2, <3>3, UsersCounted, OneMore, Numbers
    <3>5. Cardinality(KeyUsers(h, k)) < KeyMax /\ kq[k] # <<>>
      BY <1>9, <2>5 DEF KeyRoom
    <3>6. Cardinality(KeyUsers(held, k)) <= Cardinality(KeyUsers(h, k)) + 1
      <4>1. KeyUsers(h, k) = KeyUsers(held, k) \ {r}
        BY <1>4, <1>9, <2>5 DEF KeyUsers, Holders
      <4> QED BY <4>1, UsersCounted, OneMore, Numbers
    <3>7. Cardinality(KeyUsers(held', k)) >= KeyMax
      BY <2>4, <3>4, <3>5, <3>6, UsersCounted, Numbers
    <3> QED BY <3>4, <3>5, <3>7, UsersCounted, Numbers DEF KeyRoom
  <2>6. CASE woken = {} \/ k # Key[r]
    <3>1. KeyUsers(held', k) = KeyUsers(h, k)
      <4>1. \A x \in Requests : Key[x] = k => ("key" \in held'[x] <=> "key" \in h[x])
        <5>1. k # Key[r] => \A x \in Requests : Key[x] = k => x \notin woken
          BY <1>3
        <5> QED BY <1>21, <2>6, <5>1
      <4> QED BY <4>1 DEF KeyUsers, Holders
    <3>2. keyQueue'[k] = kq[k]
      BY <1>3, <2>6 DEF Fits
    <3>3. Cardinality(KeyUsers(held', k)) <= KeyMax
      BY <2>2, <2>3, <3>1, UsersCounted, Numbers
    <3>4. ASSUME keyQueue'[k] # <<>> PROVE ~KeyRoom(held', k)
      <4>1. CASE k = Key[r] /\ "key" \in things
        BY <1>10, <2>6, <3>1, <3>2, <3>4, <4>1 DEF KeyRoom
      <4>2. CASE k # Key[r] \/ "key" \notin things
        <5>1. KeyUsers(h, k) = KeyUsers(held, k)
          BY <1>4, <4>2 DEF KeyUsers, Holders
        <5> QED BY <2>4, <3>1, <3>2, <3>4, <5>1, UsersCounted, Numbers DEF KeyRoom
      <4> QED BY <4>1, <4>2
    <3> QED BY <3>3, <3>4
  <2> QED BY <2>5, <2>6
<1> QED BY <1>15, <1>16, <1>17 DEF Limits, NoIdleSlot
LEMMA InitSlots == Init => SlotInv
<1> SUFFICES ASSUME Init PROVE SlotInv
  OBVIOUS
<1>1. Holders(held, "share") = {} /\ \A k \in Keys : KeyUsers(held, k) = {}
  BY DEF Init, Holders, KeyUsers
<1>2. Limits
  BY <1>1, FS_EmptySet, Numbers DEF Limits
<1>3. NoIdleSlot
  BY DEF Init, NoIdleSlot
<1> QED BY <1>2, <1>3 DEF SlotInv

\* A step that gives nothing back, and lets nobody in without room, is fine.
LEMMA TakesWithRoom ==
  ASSUME Base, SlotInv, NEW r \in Requests, NEW mine \in SUBSET Things,
         held' = [held EXCEPT ![r] = mine],
         held[r] \cap {"owner", "key", "share"} \subseteq mine,
         "key" \in mine /\ "key" \notin held[r] => KeyRoom(held, Key[r]),
         "share" \in mine /\ "share" \notin held[r] => ShareRoom(held),
         \A k \in Keys : keyQueue'[k] # <<>> => keyQueue[k] # <<>> \/ ~KeyRoom(held, k),
         shareQueue' # <<>> => shareQueue # <<>> \/ ~ShareRoom(held)
  PROVE  SlotInv'
<1>1. \A x \in Requests : held'[x] = IF x = r THEN mine ELSE held[x]
  BY DEF Base, HeldType
<1>2. \A x \in Requests : held[x] \cap {"owner", "key", "share"} \subseteq held'[x]
  BY <1>1
<1>3. NoIdleSlot'
  BY <1>2, RoomShrinks DEF SlotInv, NoIdleSlot
<1>4. ASSUME NEW k \in Keys PROVE Cardinality(KeyUsers(held', k)) <= KeyMax
  <2>1. CASE "key" \in mine /\ "key" \notin held[r] /\ k = Key[r]
    <3>1. KeyUsers(held', k) = KeyUsers(held, k) \cup {r}
      BY <1>1, <2>1 DEF KeyUsers, Holders
    <3>2. Cardinality(KeyUsers(held, k)) < KeyMax
      BY <2>1 DEF KeyRoom
    <3> QED BY <3>1, <3>2, UsersCounted, OneMore, Numbers
  <2>2. CASE ~("key" \in mine /\ "key" \notin held[r] /\ k = Key[r])
    <3>1. KeyUsers(held', k) = KeyUsers(held, k)
      BY <1>1, <2>2 DEF KeyUsers, Holders
    <3> QED BY <3>1 DEF SlotInv, Limits
  <2> QED BY <2>1, <2>2
<1>5. Cardinality(Holders(held', "share")) <= ShareMax
  <2>1. CASE "share" \in mine /\ "share" \notin held[r]
    <3>1. Holders(held', "share") = Holders(held, "share") \cup {r}
      BY <1>1, <2>1 DEF Holders
    <3>2. Cardinality(Holders(held, "share")) < ShareMax
      BY <2>1, HoldersCounted, ShareLimitType, Numbers DEF ShareRoom
    <3> QED BY <3>1, <3>2, HoldersCounted, OneMore, Numbers
  <2>2. CASE ~("share" \in mine /\ "share" \notin held[r])
    <3>1. Holders(held', "share") = Holders(held, "share")
      BY <1>1, <2>2 DEF Holders
    <3> QED BY <3>1 DEF SlotInv, Limits
  <2> QED BY <2>1, <2>2
<1> QED BY <1>3, <1>4, <1>5 DEF SlotInv, Limits

\* The same for a step that leaves the queues alone, or only shortens them.
LEMMA TakesNothing ==
  ASSUME Base, SlotInv, UNCHANGED held,
         \A k \in Keys : keyQueue'[k] # <<>> => keyQueue[k] # <<>>,
         shareQueue' # <<>> => shareQueue # <<>>
  PROVE  SlotInv'
BY DEF SlotInv, Limits, NoIdleSlot, KeyRoom, ShareRoom, ShareLimit, KeyUsers, Holders

\* Whoever waits waits in a queue that is not empty.
LEMMA WaitsSomewhere ==
  ASSUME Base, NEW r \in Requests
  PROVE  /\ pc[r] = "key queue" => Key[r] \in Keys /\ keyQueue[Key[r]] # <<>>
         /\ pc[r] = "share queue" => shareQueue # <<>>
<1>1. ASSUME pc[r] = "key queue" PROVE Key[r] \in Keys /\ keyQueue[Key[r]] # <<>>
  <2>1. Key[r] \in Keys
    BY <1>1 DEF Base, Fits
  <2>2. r \in Elements(keyQueue[Key[r]])
    BY <1>1, <2>1 DEF Base, Fits
  <2> QED BY <2>1, <2>2 DEF Elements, First
<1>2. ASSUME pc[r] = "share queue" PROVE shareQueue # <<>>
  <2>1. r \in Elements(shareQueue)
    BY <1>2 DEF Base, Fits
  <2> QED BY <2>1 DEF Elements, First
<1> QED BY <1>1, <1>2

LEMMA SlotStep == Base /\ SlotInv /\ [Next]_vars => SlotInv'
<1> SUFFICES ASSUME Base, SlotInv, [Next]_vars PROVE SlotInv'
  OBVIOUS
<1>0. CASE UNCHANGED vars
  BY <1>0, TakesNothing DEF vars
<1>1. SUFFICES ASSUME NEW r \in Requests,
                      \/ Arrive(r) \/ Step(r) \/ KeyTimeout(r) \/ ShareTimeout(r) \/ Close(r)
               PROVE  SlotInv'
  BY <1>0 DEF Next
<1>2. held[r] \in SUBSET Things
  BY DEF Base, HeldType
<1>3. CASE UNCHANGED <<held, keyQueue, shareQueue>>
  BY <1>3, TakesNothing
<1>4. CASE Authorized(r) /\ ~UNCHANGED <<held, keyQueue, shareQueue>>
  <2> DEFINE mine == held[r] \cup (IF r \in Owners THEN {"owner"} ELSE {})
  <2>1. /\ held' = [held EXCEPT ![r] = mine] /\ UNCHANGED <<keyQueue, shareQueue>>
        /\ mine \in SUBSET Things /\ held[r] \subseteq mine
        /\ mine \cap {"key", "share"} \subseteq held[r]
    BY <1>2, <1>4 DEF Authorized, Refuse, Take, Things
  <2> HIDE DEF mine
  <2> QED BY <2>1, TakesWithRoom
<1>5. CASE Routed(r) /\ ~UNCHANGED <<held, keyQueue, shareQueue>>
  <2> DEFINE tokens == IF r \in Metered THEN {"tokens"} ELSE {}
             some == held[r] \cup tokens
             all == held[r] \cup (tokens \cup {"key"})
  <2>1. /\ {some, all} \subseteq SUBSET Things /\ held[r] \subseteq some /\ held[r] \subseteq all
        /\ some \cap {"key", "share"} \subseteq held[r]
        /\ all \cap {"share"} \subseteq held[r]
    BY <1>2 DEF Things
  <2>2. \/ held' = [held EXCEPT ![r] = some] /\ UNCHANGED <<keyQueue, shareQueue>>
        \/ /\ KeyRoom(held, Key[r])
           /\ held' = [held EXCEPT ![r] = all] /\ UNCHANGED <<keyQueue, shareQueue>>
        \/ /\ Key[r] # NoKey /\ ~KeyRoom(held, Key[r]) /\ UNCHANGED shareQueue
           /\ held' = [held EXCEPT ![r] = some]
           /\ keyQueue' = [keyQueue EXCEPT ![Key[r]] = Append(@, r)]
    BY <1>5 DEF Routed, Refuse, Take
  <2> HIDE DEF some, all
  <2>3. CASE held' = [held EXCEPT ![r] = some] /\ UNCHANGED <<keyQueue, shareQueue>>
    BY <2>1, <2>3, TakesWithRoom
  <2>4. CASE /\ KeyRoom(held, Key[r])
             /\ held' = [held EXCEPT ![r] = all] /\ UNCHANGED <<keyQueue, shareQueue>>
    BY <2>1, <2>4, TakesWithRoom
  <2>5. CASE /\ Key[r] # NoKey /\ ~KeyRoom(held, Key[r]) /\ UNCHANGED shareQueue
             /\ held' = [held EXCEPT ![r] = some]
             /\ keyQueue' = [keyQueue EXCEPT ![Key[r]] = Append(@, r)]
    <3>1. \A k \in Keys : keyQueue'[k] # <<>> => keyQueue[k] # <<>> \/ ~KeyRoom(held, k)
      BY <2>5 DEF Base, Fits
    <3> QED BY <2>1, <2>5, <3>1, TakesWithRoom
  <2> QED BY <2>2, <2>3, <2>4, <2>5
<1>6. CASE PortChecked(r) /\ ~UNCHANGED <<held, keyQueue, shareQueue>>
  <2> DEFINE mine == held[r] \cup {"share"}
  <2>1. \/ /\ ShareRoom(held) /\ held' = [held EXCEPT ![r] = mine]
           /\ UNCHANGED <<keyQueue, shareQueue>>
        \/ /\ shareQueue # <<>> \/ ~ShareRoom(held)
           /\ UNCHANGED <<held, keyQueue>>
    BY <1>6 DEF PortChecked, Refuse, Take
  <2>2. mine \in SUBSET Things /\ held[r] \subseteq mine /\ mine \cap {"key"} \subseteq held[r]
    BY <1>2 DEF Things
  <2> HIDE DEF mine
  <2>3. CASE /\ ShareRoom(held) /\ held' = [held EXCEPT ![r] = mine]
             /\ UNCHANGED <<keyQueue, shareQueue>>
    BY <2>2, <2>3, TakesWithRoom
  <2>4. CASE /\ shareQueue # <<>> \/ ~ShareRoom(held)
             /\ UNCHANGED <<held, keyQueue>>
    BY <2>4 DEF SlotInv, Limits, NoIdleSlot, KeyRoom, ShareRoom, ShareLimit, KeyUsers, Holders
  <2> QED BY <2>1, <2>3, <2>4
<1>7. CASE Streamed(r) /\ ~UNCHANGED <<held, keyQueue, shareQueue>>
  <2> DEFINE mine == held[r] \ {"tokens"}
  <2>1. /\ held' = [held EXCEPT ![r] = mine] /\ UNCHANGED <<keyQueue, shareQueue>>
        /\ mine \in SUBSET Things /\ held[r] \cap {"owner", "key", "share"} \subseteq mine
        /\ mine \subseteq held[r]
    BY <1>2, <1>7 DEF Streamed
  <2> HIDE DEF mine
  <2> QED BY <2>1, TakesWithRoom
<1>8. CASE KeyTimeout(r)
  <2>1. \A k \in Keys : keyQueue'[k] # <<>> => keyQueue[k] # <<>>
    BY <1>8, WaitsSomewhere DEF KeyTimeout, Base, Fits
  <2> QED BY <1>8, <2>1, TakesNothing DEF KeyTimeout
<1>9. CASE ShareTimeout(r)
  BY <1>9, WaitsSomewhere, TakesNothing DEF ShareTimeout
<1>10. CASE Finish(r)
  <2>1. GoneFirst(pc) /\ held[r] \cap OnFinish \in SUBSET held[r]
        /\ GiveBack(r, held[r] \cap OnFinish, pc, keyQueue, shareQueue)
    BY <1>10 DEF GoneFirst, Finish
  <2> QED BY <2>1, GiveBackSlots DEF Base, SlotInv
<1>11. CASE Close(r)
  <2> DEFINE p == IF pc[r] \in EndedByClose THEN [pc EXCEPT ![r] = "gone"] ELSE pc
             kq == IF pc[r] = "key queue"
                   THEN [keyQueue EXCEPT ![Key[r]] = Without(@, r)] ELSE keyQueue
             sq == IF pc[r] = "share queue" THEN Without(shareQueue, r) ELSE shareQueue
  <2>1. Fits(p, kq, sq) /\ GoneFirst(p)
    BY CloseLeaves
  <2>2. GiveBack(r, held[r] \cap OnClose, p, kq, sq)
    BY <1>11 DEF Close
  <2>3. \A k \in Keys : kq[k] # <<>> => keyQueue[k] # <<>>
    BY WaitsSomewhere DEF Base, Fits
  <2>4. sq # <<>> => shareQueue # <<>>
    BY WaitsSomewhere
  <2> HIDE DEF p, kq, sq
  <2> QED BY <2>1, <2>2, <2>3, <2>4, GiveBackSlots DEF SlotInv
<1>12. Arrive(r) \/ BodyRead(r) \/ Trusted(r) \/ Answered(r)
         => UNCHANGED <<held, keyQueue, shareQueue>>
  BY DEF Arrive, BodyRead, Trusted, Answered, Refuse
<1> QED BY <1>1, <1>3, <1>4, <1>5, <1>6, <1>7, <1>8, <1>9, <1>10, <1>11, <1>12 DEF Step

THEOREM SlotsHold == Spec => []SlotInv
BY InitBase, BaseStep, InitSlots, SlotStep, PTL DEF Spec

\* No more requests hold slots than a key and the public share allow, whatever
\* clients leave where (limiter.js 479-505, service-policy.js 782-796).
THEOREM LimitsHold == Spec => []Limits
BY SlotsHold, PTL DEF SlotInv

\* Nobody waits for a slot that is free (limiter.js 479-498 and 547-556,
\* gateway-utils.js 1812-1827).
THEOREM NoSlotIdles == Spec => []NoIdleSlot
BY SlotsHold, PTL DEF SlotInv
-----------------------------------------------------------------------------
(* When clients leave *)

\* Where a request may be whose client left at a guarded place.
Over == {"body", "answered", "gone", "trust", "upstream", "streaming"}

\* What a request holds from the moment it took it, unless its client left
\* unheard, and what is left of one whose response is over.
KeepInv == \A r \in Requests :
  /\ r \notin unheard /\ pc[r] \in {"port", "share queue", "trust", "upstream", "streaming"}
       => (Key[r] # NoKey => "key" \in held[r])
  /\ r \notin unheard /\ pc[r] \in {"trust", "upstream", "streaming"}
       => (r \notin Owners => "share" \in held[r])
  /\ response[r] = "finished" => pc[r] = "answered"
  /\ Disconnects \subseteq Guarded /\ response[r] = "closed" => held[r] = {} /\ pc[r] \in Over

LEMMA InitKeep == Init => KeepInv
BY DEF Init, KeepInv

\* A step of one request that gives nothing back.
LEMMA KeepsOthers ==
  ASSUME Base, KeepInv, NEW r \in Requests, NEW place, NEW mine,
         pc' = [pc EXCEPT ![r] = place], held' = [held EXCEPT ![r] = mine],
         UNCHANGED <<response, unheard>>,
         r \notin unheard /\ place \in {"port", "share queue", "trust", "upstream", "streaming"}
           => (Key[r] # NoKey => "key" \in mine),
         r \notin unheard /\ place \in {"trust", "upstream", "streaming"}
           => (r \notin Owners => "share" \in mine),
         response[r] = "finished" => place = "answered",
         Disconnects \subseteq Guarded /\ response[r] = "closed" => mine = {} /\ place \in Over
  PROVE  KeepInv'
<1> SUFFICES ASSUME NEW x \in Requests PROVE KeepInv!(x)'
  BY DEF KeepInv
<1>1. CASE x = r
  BY <1>1 DEF Base, HeldType, Fits
<1>2. CASE x # r
  BY <1>2 DEF Base, HeldType, Fits, KeepInv
<1> QED BY <1>1, <1>2

\* What r gives back helps others and takes nothing from them.
LEMMA GiveBackKeeps ==
  ASSUME Base, KeepInv, NEW p, NEW kq, NEW sq, Fits(p, kq, sq), GoneFirst(p),
         NEW r \in Requests, NEW things \in SUBSET held[r],
         GiveBack(r, things, p, kq, sq),
         \A x \in Requests : x # r => p[x] = pc[x],
         p[r] \notin {"key queue", "share queue"},
         \A x \in Requests : x # r => (x \in unheard' <=> x \in unheard),
         p[r] \in {"port", "trust", "upstream", "streaming"} => r \in unheard',
         NEW over, response' = [response EXCEPT ![r] = over],
         over = "finished" => p[r] = "answered",
         Disconnects \subseteq Guarded /\ over = "closed" => things = held[r] /\ p[r] \in Over
  PROVE  KeepInv'
<1> DEFINE granted == Granted(r, things, sq)
           woken == Woken(r, things, kq)
<1>1. "key" \in things => Key[r] \in Keys
  BY DEF Base, InOrder
<1>2. GaveBack(r, things, p, kq, sq)
  BY <1>1, GiveBackFits DEF Base
<1>3. /\ \A x \in granted : p[x] = "share queue"
      /\ \A x \in woken : p[x] = "key queue"
      /\ \A x \in Requests :
           /\ held'[x] = After(r, things)[x]
                \cup (IF x \in granted THEN {"share"} ELSE {})
                \cup (IF x \in woken THEN {"key"} ELSE {})
           /\ pc'[x] = IF x \in granted THEN "trust" ELSE IF x \in woken THEN "port" ELSE p[x]
  BY <1>2 DEF GaveBack
<1>4. \A x \in Requests : After(r, things)[x] = IF x = r THEN held[x] \ things ELSE held[x]
  BY DEF After, Base, HeldType
<1> HIDE DEF granted, woken
<1> SUFFICES ASSUME NEW x \in Requests PROVE KeepInv!(x)'
  BY DEF KeepInv
<1>5. CASE x = r
  <2>1. x \notin granted /\ x \notin woken
    BY <1>3, <1>5
  <2>2. pc'[x] = p[x] /\ held'[x] = held[x] \ things /\ response'[x] = over
    BY <1>3, <1>4, <1>5, <2>1 DEF Base
  <2> QED BY <1>5, <2>2
<1>6. CASE x # r
  <2>1. p[x] = pc[x] /\ response'[x] = response[x] /\ (x \in unheard' <=> x \in unheard)
    BY <1>6 DEF Base
  <2>2. CASE x \in granted
    <3>1. pc[x] = "share queue" /\ pc'[x] = "trust" /\ held[x] \subseteq held'[x]
          /\ "share" \in held'[x]
      BY <1>3, <1>4, <1>6, <2>1, <2>2
    <3> QED BY <2>1, <3>1 DEF KeepInv, Over
  <2>3. CASE x \notin granted /\ x \in woken
    <3>1. pc[x] = "key queue" /\ pc'[x] = "port" /\ "key" \in held'[x]
      BY <1>3, <2>1, <2>3
    <3> QED BY <2>1, <3>1 DEF KeepInv, Over
  <2>4. CASE x \notin granted /\ x \notin woken
    <3>1. pc'[x] = pc[x] /\ held'[x] = held[x]
      BY <1>3, <1>4, <1>6, <2>1, <2>4
    <3> QED BY <2>1, <3>1 DEF KeepInv
  <2> QED BY <2>2, <2>3, <2>4
<1> QED BY <1>5, <1>6

LEMMA KeepStep ==
  ASSUME Base, KeepInv, [Next]_vars
  PROVE  KeepInv'
<1>0. CASE UNCHANGED vars
  BY <1>0 DEF vars, KeepInv
<1>1. SUFFICES ASSUME NEW r \in Requests,
                      \/ Arrive(r) \/ Step(r) \/ KeyTimeout(r) \/ ShareTimeout(r) \/ Close(r)
               PROVE  KeepInv'
  BY <1>0 DEF Next
<1>2. held = [held EXCEPT ![r] = held[r]]
  BY DEF Base, HeldType
<1>3. /\ response[r] = "finished" => pc[r] = "answered"
      /\ Disconnects \subseteq Guarded /\ response[r] = "closed"
           => held[r] = {} /\ pc[r] \in {"body", "answered", "gone", "trust", "upstream", "streaming"}
      /\ r \notin unheard /\ pc[r] \in {"port", "share queue", "trust", "upstream", "streaming"}
           => (Key[r] # NoKey => "key" \in held[r])
      /\ r \notin unheard /\ pc[r] \in {"trust", "upstream", "streaming"}
           => (r \notin Owners => "share" \in held[r])
  BY DEF KeepInv, Over
<1>4. ASSUME Goto(r, "answered"), UNCHANGED <<response, held, unheard>> PROVE KeepInv'
  BY <1>2, <1>3, <1>4, KeepsOthers DEF Goto, Over
<1>5. CASE Arrive(r)
  BY <1>2, <1>3, <1>5, KeepsOthers DEF Over, Arrive, Goto
<1>6. CASE Authorized(r)
  <2>1. CASE Refuse(r)
    BY <1>4, <1>6, <2>1 DEF Refuse, Authorized
  <2>2. CASE ~Refuse(r)
    BY <1>3, <1>6, <2>2, KeepsOthers DEF Over, Authorized, Goto, Take
  <2> QED BY <2>1, <2>2
<1>7. CASE BodyRead(r)
  <2>1. CASE Refuse(r)
    BY <1>4, <1>7, <2>1 DEF Refuse, BodyRead
  <2>2. CASE ~Refuse(r)
    <3>1. /\ pc[r] = "body" /\ response[r] = "open" /\ UNCHANGED <<response, held, unheard>>
          /\ pc' = [pc EXCEPT ![r] = "route"] /\ held' = [held EXCEPT ![r] = held[r]]
      BY <1>2, <1>7, <2>2 DEF BodyRead, Goto
    <3> QED BY <1>3, <3>1, KeepsOthers
  <2> QED BY <2>1, <2>2
<1>8. CASE Routed(r)
  <2>1. CASE Refuse(r)
    BY <1>4, <1>8, <2>1 DEF Refuse, Routed
  <2>2. CASE ~Refuse(r)
    <3>1. PICK tokens \in {{"tokens"}, {}} :
            /\ pc[r] = "route" /\ UNCHANGED <<response, unheard>>
            /\ \/ Key[r] = NoKey /\ Goto(r, "port") /\ Take(r, tokens)
               \/ Goto(r, "port") /\ Take(r, tokens \cup {"key"})
               \/ Goto(r, "answered") /\ Take(r, tokens)
               \/ Goto(r, "key queue") /\ Take(r, tokens)
      BY <1>8, <2>2 DEF Routed
    <3>2. CASE Key[r] = NoKey /\ Goto(r, "port") /\ Take(r, tokens)
      BY <1>3, <3>1, <3>2, KeepsOthers DEF Over, Goto, Take
    <3>3. CASE Goto(r, "port") /\ Take(r, tokens \cup {"key"})
      BY <1>3, <3>1, <3>3, KeepsOthers DEF Over, Goto, Take
    <3>4. CASE Goto(r, "answered") /\ Take(r, tokens)
      BY <1>3, <3>1, <3>4, KeepsOthers DEF Over, Goto, Take
    <3>5. CASE Goto(r, "key queue") /\ Take(r, tokens)
      BY <1>3, <3>1, <3>5, KeepsOthers DEF Over, Goto, Take
    <3> QED BY <3>1, <3>2, <3>3, <3>4, <3>5
  <2> QED BY <2>1, <2>2
<1>9. CASE PortChecked(r)
  <2>1. pc[r] = "port" /\ UNCHANGED <<response, unheard>>
    BY <1>9 DEF PortChecked
  <2>2. \/ Goto(r, "answered") /\ UNCHANGED held
        \/ r \in Owners /\ Goto(r, "trust") /\ UNCHANGED held
        \/ Goto(r, "trust") /\ Take(r, {"share"})
        \/ Goto(r, "share queue") /\ UNCHANGED held
    BY <1>9 DEF PortChecked, Refuse
  <2>3. CASE Goto(r, "answered") /\ UNCHANGED held
    BY <1>4, <2>1, <2>3
  <2>4. CASE r \in Owners /\ Goto(r, "trust") /\ UNCHANGED held
    BY <1>2, <1>3, <2>1, <2>4, KeepsOthers DEF Over, Goto
  <2>5. CASE Goto(r, "trust") /\ Take(r, {"share"})
    BY <1>3, <2>1, <2>5, KeepsOthers DEF Over, Goto, Take
  <2>6. CASE Goto(r, "share queue") /\ UNCHANGED held
    BY <1>2, <1>3, <2>1, <2>6, KeepsOthers DEF Over, Goto
  <2> QED BY <2>2, <2>3, <2>4, <2>5, <2>6
<1>10. CASE Trusted(r)
  <2>1. CASE Refuse(r)
    BY <1>4, <1>10, <2>1 DEF Refuse, Trusted
  <2>2. CASE ~Refuse(r)
    BY <1>2, <1>3, <1>10, <2>2, KeepsOthers DEF Over, Trusted, Goto
  <2> QED BY <2>1, <2>2
<1>11. CASE Answered(r)
  <2>1. CASE Goto(r, "answered")
    BY <1>4, <1>11, <2>1 DEF Answered
  <2>2. CASE Goto(r, "streaming")
    BY <1>2, <1>3, <1>11, <2>2, KeepsOthers DEF Over, Answered, Goto
  <2> QED BY <1>11, <2>1, <2>2 DEF Answered
<1>12. CASE Streamed(r)
  <2>1. CASE UNCHANGED held
    BY <1>4, <1>12, <2>1 DEF Streamed
  <2>2. CASE held' = [held EXCEPT ![r] = @ \ {"tokens"}]
    BY <1>3, <1>12, <2>2, KeepsOthers DEF Over, Streamed, Goto
  <2> QED BY <1>12, <2>1, <2>2 DEF Streamed
<1>13. CASE KeyTimeout(r) \/ ShareTimeout(r)
  BY <1>4, <1>13 DEF KeyTimeout, ShareTimeout
<1>14. CASE Finish(r)
  <2>1. /\ GoneFirst(pc) /\ held[r] \cap OnFinish \in SUBSET held[r] /\ pc[r] = "answered"
        /\ GiveBack(r, held[r] \cap OnFinish, pc, keyQueue, shareQueue)
        /\ response' = [response EXCEPT ![r] = "finished"] /\ UNCHANGED unheard
    BY <1>14 DEF GoneFirst, Finish
  <2> QED BY <2>1, GiveBackKeeps DEF Base
<1>15. CASE Close(r)
  <2> DEFINE p == IF pc[r] \in EndedByClose THEN [pc EXCEPT ![r] = "gone"] ELSE pc
             kq == IF pc[r] = "key queue"
                   THEN [keyQueue EXCEPT ![Key[r]] = Without(@, r)] ELSE keyQueue
             sq == IF pc[r] = "share queue" THEN Without(shareQueue, r) ELSE shareQueue
  <2>1. Fits(p, kq, sq) /\ GoneFirst(p)
    BY CloseLeaves
  <2>3. held[r] \cap OnClose = held[r] /\ held[r] \in SUBSET held[r]
    BY DEF Base, HeldType, OnClose
  <2>2. /\ GiveBack(r, held[r], p, kq, sq)
        /\ response' = [response EXCEPT ![r] = "closed"]
        /\ unheard' = IF pc[r] \in Unheard THEN unheard \cup {r} ELSE unheard
    BY <1>15, <2>3 DEF Close
  <2>4. \A x \in Requests : x # r => p[x] = pc[x]
    BY DEF Base, Fits
  <2>5. /\ p[r] = IF pc[r] \in EndedByClose THEN "gone" ELSE pc[r]
        /\ p[r] \notin {"key queue", "share queue"}
    BY DEF EndedByClose, Base, Fits
  <2>6. p[r] \in {"port", "trust", "upstream", "streaming"} => r \in unheard'
    <3> HIDE DEF p, kq, sq
    <3>1. pc[r] \in Unheard => r \in unheard'
      BY <2>2
    <3>2. p[r] \in {"port", "trust", "upstream", "streaming"} => pc[r] \in {"port", "trust"}
      BY <2>5 DEF EndedByClose
    <3> QED BY <3>1, <3>2 DEF Unheard
  <2>7. Disconnects \subseteq Guarded => p[r] \in Over
    <3>1. Disconnects \subseteq Guarded => pc[r] \in Guarded
      BY <1>3, <1>15 DEF Close, Guarded
    <3> QED BY <2>5, <3>1 DEF Guarded, EndedByClose, Over
  <2>8. \A x \in Requests : x # r => (x \in unheard' <=> x \in unheard)
    BY <2>2
  <2>9. p[r] \notin {"key queue", "share queue"}
    BY <2>5
  <2>10. GiveBack(r, held[r], p, kq, sq) /\ response' = [response EXCEPT ![r] = "closed"]
    BY <2>2
  <2> HIDE DEF p, kq, sq
  <2>11. /\ "closed" = "finished" => p[r] = "answered"
         /\ Disconnects \subseteq Guarded /\ "closed" = "closed"
              => held[r] = held[r] /\ p[r] \in Over
    BY <2>7
  <2> QED BY <2>1, <2>3, <2>4, <2>6, <2>8, <2>9, <2>10, <2>11, GiveBackKeeps, Zenon
<1> QED BY <1>1, <1>5, <1>6, <1>7, <1>8, <1>9, <1>10, <1>11, <1>12, <1>13, <1>14, <1>15
        DEF Step

\* A response that is over holds nothing, as long as no client leaves before a
\* place where its request has registered its listeners (gateway-pipeline.js
\* 570-575, 674-679, 697 and 736-737).
THEOREM NothingIsKept ==
  ASSUME Disconnects \subseteq Guarded PROVE Spec => []NothingKept
<1>1. Base /\ KeepInv /\ [Next]_vars => KeepInv'
  BY KeepStep
<1>2. KeepInv => NothingKept
  BY DEF KeepInv, NothingKept
<1> QED BY InitBase, BaseStep, InitKeep, <1>1, <1>2, PTL DEF Spec

\* A manager works for requests that hold their slots only, wherever clients
\* leave, except for those whose client left while the port was probed or the
\* trust version fetched (gateway-pipeline.js 683-768).
THEOREM WorkIsCovered == Spec => []WorkHoldsSlots
<1>1. Base /\ KeepInv /\ [Next]_vars => KeepInv'
  BY KeepStep
<1>2. KeepInv => WorkHoldsSlots
  BY DEF KeepInv, WorkHoldsSlots
<1> QED BY InitBase, BaseStep, InitKeep, <1>1, <1>2, PTL DEF Spec
-----------------------------------------------------------------------------
(* The share of public traffic while the owner works *)

NoGrowth ==
  Holders(held, "owner") # {} /\ Holders(held', "owner") # {}
    /\ Cardinality(Holders(held', "share")) > OwnerShareMax
  => Holders(held', "share") \subseteq Holders(held, "share")

LEMMA OwnerLimit ==
  ASSUME NEW h, Holders(h, "owner") # {}
  PROVE  ShareLimit(h) <= OwnerShareMax
BY Numbers DEF ShareLimit

LEMMA GiveBackNoGrowth ==
  ASSUME Base, NEW p, NEW kq, NEW sq, Fits(p, kq, sq),
         NEW r \in Requests, NEW things \in SUBSET held[r],
         GiveBack(r, things, p, kq, sq)
  PROVE  NoGrowth
<1> DEFINE granted == Granted(r, things, sq)
           woken == Woken(r, things, kq)
           n == Number(r, things, sq)
           h == After(r, things)
<1>1. "key" \in things => Key[r] \in Keys
  BY DEF Base, InOrder
<1>2. GaveBack(r, things, p, kq, sq)
  BY <1>1, GiveBackFits DEF Base
<1>3. /\ \A x \in Requests : held'[x] = h[x]
            \cup (IF x \in granted THEN {"share"} ELSE {})
            \cup (IF x \in woken THEN {"key"} ELSE {})
      /\ n \in 0..Len(sq) /\ granted \subseteq Requests
  BY <1>2 DEF GaveBack
<1>4. \A x \in Requests : h[x] \subseteq held[x]
  BY DEF After, Base, HeldType
<1>5. sq \in Seq(Requests) /\ Distinct(sq) /\ Len(sq) \in Nat
  BY LenType DEF Fits
<1>6. Cardinality(granted) = n /\ (n = 0 => granted = {})
  <2>1. granted = First(sq, n)
    BY DEF Granted
  <2> HIDE DEF granted, woken, n, h
  <2>2. Cardinality(granted) = n
    BY <1>3, <1>5, <2>1, FirstCardinality
  <2> QED BY <2>1, <2>2 DEF First
<1>7. n > 0 => Cardinality(Holders(h, "share")) + n <= ShareLimit(h)
  <2>1. n = IF Pumps(things) THEN Grants(h, sq) ELSE 0
    BY DEF Number
  <2>2. Grants(h, sq) > 0 =>
          Cardinality(Holders(h, "share")) + Grants(h, sq) <= ShareLimit(h)
    BY <1>5, GrantsType
  <2> HIDE DEF n, h
  <2> QED BY <2>1, <2>2
<1> HIDE DEF granted, woken, n, h
<1>8. /\ Holders(held', "share") = Holders(h, "share") \cup granted
      /\ Holders(held', "owner") = Holders(h, "owner")
      /\ Holders(h, "share") \subseteq Holders(held, "share")
  <2>1. \A x \in Requests : "share" \in held'[x] <=> "share" \in h[x] \/ x \in granted
    BY <1>3
  <2>2. \A x \in Requests : "owner" \in held'[x] <=> "owner" \in h[x]
    BY <1>3
  <2> QED BY <1>3, <1>4, <2>1, <2>2 DEF Holders
<1>9. CASE n = 0
  BY <1>6, <1>8, <1>9 DEF NoGrowth
<1>10. CASE n > 0 /\ Holders(held', "owner") # {}
  <2>1. ShareLimit(h) <= OwnerShareMax
    BY <1>8, <1>10, OwnerLimit
  <2>2. Cardinality(Holders(h, "share") \cup granted)
          <= Cardinality(Holders(h, "share")) + Cardinality(granted)
    <3>1. /\ IsFiniteSet(Holders(h, "share")) /\ IsFiniteSet(granted)
          /\ Cardinality(Holders(h, "share")) \in Nat /\ Cardinality(granted) \in Nat
      BY <1>3, HoldersCounted, Counting
    <3>2. Cardinality(Holders(h, "share") \cup granted)
            = Cardinality(Holders(h, "share")) + Cardinality(granted)
              - Cardinality(Holders(h, "share") \cap granted)
      BY <3>1, FS_Union
    <3>3. Cardinality(Holders(h, "share") \cap granted) \in Nat
      <4>1. Holders(h, "share") \cap granted \subseteq Requests
        BY <1>3
      <4> QED BY <4>1, Counting
    <3> QED BY <3>1, <3>2, <3>3
  <2>3. Cardinality(Holders(held', "share")) <= OwnerShareMax
    <3>1. /\ n \in Nat /\ ShareLimit(h) \in Nat /\ OwnerShareMax \in Nat
          /\ Cardinality(Holders(h, "share")) \in Nat
          /\ Cardinality(Holders(held', "share")) \in Nat
      BY <1>3, <1>5, HoldersCounted, ShareLimitType, Numbers
    <3>2. /\ Cardinality(Holders(h, "share")) + n <= ShareLimit(h)
          /\ Cardinality(Holders(held', "share")) <= Cardinality(Holders(h, "share")) + n
      BY <1>6, <1>7, <1>8, <1>10, <2>2
    <3> QED BY <2>1, <3>1, <3>2
  <2> QED BY <2>3, HoldersCounted, Numbers DEF NoGrowth
<1> QED BY <1>3, <1>5, <1>9, <1>10 DEF NoGrowth

LEMMA OwnerStep == Base /\ [Next]_vars => NoGrowth
<1> SUFFICES ASSUME Base, [Next]_vars PROVE NoGrowth
  OBVIOUS
<1>0. ASSUME \A x \in Requests : "share" \in held'[x] => "share" \in held[x] PROVE NoGrowth
  BY <1>0 DEF NoGrowth, Holders
<1>1. CASE UNCHANGED vars
  BY <1>0, <1>1 DEF vars
<1>2. SUFFICES ASSUME NEW r \in Requests,
                      \/ Arrive(r) \/ Step(r) \/ KeyTimeout(r) \/ ShareTimeout(r) \/ Close(r)
               PROVE  NoGrowth
  BY <1>1 DEF Next
<1>3. CASE \/ Arrive(r) \/ Authorized(r) \/ BodyRead(r) \/ Routed(r) \/ Trusted(r)
           \/ Answered(r) \/ Streamed(r) \/ KeyTimeout(r) \/ ShareTimeout(r)
  <2>1. \/ UNCHANGED held
        \/ \E mine : /\ held' = [held EXCEPT ![r] = mine]
                     /\ "share" \in mine => "share" \in held[r]
    BY <1>3, ZenonT(60) DEF Arrive, Authorized, BodyRead, Routed, Trusted, Answered, Streamed,
                KeyTimeout, ShareTimeout, Refuse, Take
  <2> QED BY <1>0, <2>1 DEF Base, HeldType
<1>4. CASE PortChecked(r)
  <2>1. CASE UNCHANGED held
    BY <1>0, <2>1
  <2>2. CASE ShareRoom(held) /\ Take(r, {"share"})
    <3>1. Holders(held', "share") = Holders(held, "share") \cup {r}
      BY <2>2 DEF Take, Holders, Base, HeldType
    <3>2. CASE Holders(held, "owner") = {}
      BY <3>2 DEF NoGrowth
    <3>3. CASE Holders(held, "owner") # {}
      <4>1. Cardinality(Holders(held, "share")) < OwnerShareMax
        BY <2>2, <3>3, OwnerLimit, HoldersCounted, ShareLimitType, Numbers DEF ShareRoom
      <4>2. Cardinality(Holders(held', "share")) <= OwnerShareMax
        BY <3>1, <4>1, HoldersCounted, OneMore, Numbers
      <4> QED BY <4>2, HoldersCounted, Numbers DEF NoGrowth
    <3> QED BY <3>2, <3>3
  <2> QED BY <1>4, <2>1, <2>2 DEF PortChecked, Refuse
<1>5. CASE Finish(r)
  <2>1. /\ held[r] \cap OnFinish \in SUBSET held[r]
        /\ GiveBack(r, held[r] \cap OnFinish, pc, keyQueue, shareQueue)
    BY <1>5 DEF Finish
  <2> QED BY <2>1, GiveBackNoGrowth DEF Base
<1>6. CASE Close(r)
  <2> DEFINE p == IF pc[r] \in EndedByClose THEN [pc EXCEPT ![r] = "gone"] ELSE pc
             kq == IF pc[r] = "key queue"
                   THEN [keyQueue EXCEPT ![Key[r]] = Without(@, r)] ELSE keyQueue
             sq == IF pc[r] = "share queue" THEN Without(shareQueue, r) ELSE shareQueue
  <2>1. Fits(p, kq, sq)
    BY CloseLeaves
  <2>2. held[r] \cap OnClose \in SUBSET held[r] /\ GiveBack(r, held[r] \cap OnClose, p, kq, sq)
    BY <1>6 DEF Close
  <2> HIDE DEF p, kq, sq
  <2> QED BY <2>1, <2>2, GiveBackNoGrowth
<1> QED BY <1>2, <1>3, <1>4, <1>5, <1>6 DEF Step

\* While the owner works, public traffic does not grow beyond its smaller
\* share, for every limit, queue and client (limiter.js 475-505, 537-546).
THEOREM OwnerComesFirst == Spec => OwnerIsNotStarved
<1>1. Base /\ [Next]_vars =>
        [/\ Holders(held, "owner") # {} /\ Holders(held', "owner") # {}
         /\ Cardinality(Holders(held', "share")) > OwnerShareMax
         => Holders(held', "share") \subseteq Holders(held, "share")]_vars
  BY OwnerStep DEF NoGrowth
<1> QED BY InitBase, BaseStep, <1>1, PTL DEF Spec, OwnerIsNotStarved
-----------------------------------------------------------------------------
(* First come, first served *)

\* Who stands behind whom, and where the two are.
LEMMA BeforeMeans ==
  ASSUME NEW q \in Seq(Requests), NEW x, NEW y, Before(q, x, y)
  PROVE  x \in Elements(q) /\ x # y /\ q # <<>>
<1>1. PICK i \in 1..Len(q) : q[i] = x /\ \A j \in 1..i : q[j] # y
  BY DEF Before
<1>2. Len(q) \in Nat
  BY LenType
<1>3. i \in 1..i
  BY <1>1, <1>2
<1> QED BY <1>1, <1>2, <1>3 DEF Elements, First

\* A newcomer at the end stands before nobody.
LEMMA BeforeAppend ==
  ASSUME NEW q \in Seq(Requests), NEW r \in Requests, NEW x, NEW y, Before(q, x, y)
  PROVE  Before(Append(q, r), x, y)
<1>1. PICK i \in 1..Len(q) : q[i] = x /\ \A j \in 1..i : q[j] # y
  BY DEF Before
<1> DEFINE a == Append(q, r)
<1>2. Len(a) = Len(q) + 1 /\ \A j \in 1..Len(q) : a[j] = q[j]
  OBVIOUS
<1>3. Len(q) \in Nat
  BY LenType
<1> HIDE DEF a
<1>4. i \in 1..Len(a) /\ \A j \in 1..i : j \in 1..Len(q)
  BY <1>1, <1>2, <1>3
<1>5. a[i] = x /\ \A j \in 1..i : a[j] # y
  BY <1>1, <1>2, <1>4
<1>6. Before(a, x, y)
  BY <1>4, <1>5 DEF Before
<1> QED BY <1>6 DEF a

\* Who leaves a queue takes no place from the others.
LEMMA BeforeWithout ==
  ASSUME NEW q \in Seq(Requests), NEW r \in Elements(q), NEW x, NEW y, x # r,
         Before(q, x, y)
  PROVE  Before(Without(q, r), x, y)
<1>1. PICK i \in 1..Len(q) : q[i] = x /\ \A j \in 1..i : q[j] # y
  BY DEF Before
<1> DEFINE m == CHOOSE m \in 1..Len(q) : q[m] = r
           w == Without(q, r)
<1>2. m \in 1..Len(q) /\ q[m] = r
  BY DEF Elements, First
<1>3. w = [j \in 1..(Len(q) - 1) |-> IF j < m THEN q[j] ELSE q[j + 1]]
  BY DEF Without
<1> HIDE DEF m, w
<1>4. Len(q) \in Nat /\ Len(w) = Len(q) - 1
  BY <1>2, <1>3, LenType
<1>5. i # m
  BY <1>1, <1>2
<1>6. CASE i < m
  <2>1. i \in 1..Len(w) /\ \A j \in 1..i : j \in 1..(Len(q) - 1) /\ j < m
    BY <1>1, <1>2, <1>4, <1>6
  <2>2. w[i] = x /\ \A j \in 1..i : w[j] # y
    BY <1>1, <1>3, <2>1
  <2>3. Before(w, x, y)
    BY <2>1, <2>2 DEF Before
  <2> QED BY <2>3 DEF w
<1>7. CASE i > m
  <2>1. i - 1 \in 1..Len(w) /\ \A j \in 1..(i - 1) : j \in 1..(Len(q) - 1)
    BY <1>1, <1>2, <1>4, <1>7
  <2>2. w[i - 1] = x
    BY <1>1, <1>2, <1>3, <1>4, <1>7
  <2>3. ASSUME NEW j \in 1..(i - 1) PROVE w[j] # y
    <3>1. j \in 1..i /\ j + 1 \in 1..i
      BY <1>1, <1>4
    <3>2. w[j] = q[j] \/ w[j] = q[j + 1]
      BY <1>3, <2>1
    <3> QED BY <1>1, <3>1, <3>2
  <2>4. Before(w, x, y)
    BY <2>1, <2>2, <2>3 DEF Before
  <2> QED BY <2>4 DEF w
<1> QED BY <1>1, <1>2, <1>4, <1>5, <1>6, <1>7

\* Whoever is not among the first n to be served keeps its place, and nobody
\* behind it is among them.
LEMMA BeforeDrop ==
  ASSUME NEW q \in Seq(Requests), NEW n \in 0..Len(q), NEW x, NEW y,
         Before(q, x, y), x \notin First(q, n)
  PROVE  Before(SubSeq(q, n + 1, Len(q)), x, y) /\ y \notin First(q, n)
<1>1. PICK i \in 1..Len(q) : q[i] = x /\ \A j \in 1..i : q[j] # y
  BY DEF Before
<1>2. Len(q) \in Nat /\ n \in Nat
  BY LenType
<1>3. i > n
  BY <1>1, <1>2 DEF First
<1> DEFINE d == SubSeq(q, n + 1, Len(q))
<1>4. Len(d) = Len(q) - n /\ \A j \in 1..Len(d) : d[j] = q[j + n]
  OBVIOUS
<1> HIDE DEF d
<1>5. i - n \in 1..Len(d) /\ \A j \in 1..(i - n) : j \in 1..Len(d) /\ j + n \in 1..i
  BY <1>1, <1>2, <1>3, <1>4
<1>6. d[i - n] = x /\ \A j \in 1..(i - n) : d[j] # y
  <2>1. (i - n) + n = i
    BY <1>1, <1>2
  <2> QED BY <1>1, <1>4, <1>5, <2>1
<1>7. Before(d, x, y)
  BY <1>5, <1>6 DEF Before
<1>8. y \notin First(q, n)
  <2>1. \A j \in 1..n : j \in 1..i
    BY <1>1, <1>2, <1>3
  <2> QED BY <1>1, <2>1 DEF First
<1> QED BY <1>7, <1>8 DEF d

LEMMA BeforeTail ==
  ASSUME NEW q \in Seq(Requests), NEW x, NEW y, Before(q, x, y), x # Head(q)
  PROVE  Before(Tail(q), x, y) /\ y # Head(q)
<1>1. q # <<>> /\ Len(q) \in Nat
  BY BeforeMeans, LenType
<1>2. Len(q) > 0
  BY <1>1, EmptyLen
<1>3. First(q, 1) = {Head(q)}
  BY <1>1, <1>2 DEF First
<1>4. Tail(q) = SubSeq(q, 2, Len(q))
  BY <1>1
<1>5. 1 \in 0..Len(q) /\ 1 + 1 = 2
  BY <1>2, <1>1
<1>6. Before(SubSeq(q, 1 + 1, Len(q)), x, y) /\ y \notin First(q, 1)
  <2>1. x \notin First(q, 1)
    BY <1>3
  <2>2. 1 \in 0..Len(q)
    BY <1>5
  <2> QED BY <2>1, <2>2, BeforeDrop
<1> QED BY <1>3, <1>4, <1>5, <1>6

\* Who waits for a slot of its key is in the queue of that key.
LEMMA WaitsInQueue ==
  ASSUME Base, NEW r \in Requests, pc[r] = "key queue"
  PROVE  Key[r] \in Keys /\ r \in Elements(keyQueue[Key[r]])
<1>1. Key[r] \in Keys
  BY DEF Base, Fits
<1>2. Elements(keyQueue[Key[r]]) = {x \in Requests : pc[x] = "key queue" /\ Key[x] = Key[r]}
  BY <1>1 DEF Base, Fits
<1> QED BY <1>1, <1>2

\* The same for a waiter of the queues of the gateway that leaves.
LEMMA StaysBefore ==
  ASSUME Base, NEW r \in Requests, NEW x \in Requests, NEW y, x # r
  PROVE  /\ pc[r] = "share queue" /\ Before(shareQueue, x, y)
            => Before(Without(shareQueue, r), x, y)
         /\ pc[r] = "key queue" /\ Key[x] \in Keys /\ Before(keyQueue[Key[x]], x, y)
            => Before([keyQueue EXCEPT ![Key[r]] = Without(@, r)][Key[x]], x, y)
<1>1. ASSUME pc[r] = "share queue", Before(shareQueue, x, y)
      PROVE  Before(Without(shareQueue, r), x, y)
  <2>1. shareQueue \in Seq(Requests) /\ r \in Elements(shareQueue)
    BY <1>1 DEF Base, Fits
  <2> QED BY <1>1, <2>1, BeforeWithout
<1>2. ASSUME pc[r] = "key queue", Key[x] \in Keys, Before(keyQueue[Key[x]], x, y)
      PROVE  Before([keyQueue EXCEPT ![Key[r]] = Without(@, r)][Key[x]], x, y)
  <2>1. keyQueue \in [Keys -> Seq(Requests)] /\ Key[r] \in Keys
        /\ r \in Elements(keyQueue[Key[r]])
    BY <1>2, WaitsInQueue DEF Base, Fits
  <2>2. CASE Key[x] = Key[r]
    <3>1. keyQueue[Key[r]] \in Seq(Requests) /\ Before(keyQueue[Key[r]], x, y)
      BY <1>2, <2>1, <2>2
    <3>2. Before(Without(keyQueue[Key[r]], r), x, y)
      BY <2>1, <3>1, BeforeWithout
    <3> QED BY <2>1, <2>2, <3>2
  <2>3. CASE Key[x] # Key[r]
    BY <1>2, <2>1, <2>3
  <2> QED BY <2>2, <2>3
<1> QED BY <1>1, <1>2

\* What FirstComeFirstServed says of a waiter and one who came later.
ShareOrder(x, y) ==
  pc[x] = "share queue" /\ pc'[x] = "share queue" /\ Before(shareQueue, x, y)
  => "share" \notin held'[y] \ held[y] /\ Before(shareQueue', x, y)
KeyOrder(x, y) ==
  /\ pc[x] = "key queue" /\ pc'[x] = "key queue" /\ Key[x] = Key[y]
  /\ Before(keyQueue[Key[x]], x, y)
  => "key" \notin held'[y] \ held[y] /\ Before(keyQueue'[Key[x]], x, y)

\* What is given back goes to the front of a queue.
LEMMA GiveBackOrder ==
  ASSUME Base, NEW p, NEW kq, NEW sq, Fits(p, kq, sq), GoneFirst(p),
         NEW r \in Requests, NEW things \in SUBSET held[r],
         GiveBack(r, things, p, kq, sq), NEW x \in Requests, NEW y \in Requests,
         p[x] = "share queue" /\ Before(shareQueue, x, y) => Before(sq, x, y),
         p[x] = "key queue" /\ Before(keyQueue[Key[x]], x, y) => Before(kq[Key[x]], x, y)
  PROVE  ShareOrder(x, y) /\ KeyOrder(x, y)
<1> DEFINE granted == Granted(r, things, sq)
           woken == Woken(r, things, kq)
           n == Number(r, things, sq)
           h == After(r, things)
<1>1. "key" \in things => Key[r] \in Keys
  BY DEF Base, InOrder
<1>2. GaveBack(r, things, p, kq, sq)
  BY <1>1, GiveBackFits DEF Base
<1>3. /\ \A z \in woken : z \in Requests /\ p[z] = "key queue" /\ Key[z] = Key[r]
      /\ \A z \in Requests :
           /\ held'[z] = h[z]
                \cup (IF z \in granted THEN {"share"} ELSE {})
                \cup (IF z \in woken THEN {"key"} ELSE {})
           /\ pc'[z] = IF z \in granted THEN "trust"
                       ELSE IF z \in woken THEN "port" ELSE p[z]
      /\ n \in 0..Len(sq)
      /\ keyQueue' = IF woken = {} THEN kq ELSE [kq EXCEPT ![Key[r]] = Tail(@)]
  BY <1>2 DEF GaveBack
<1>4. h[y] \subseteq held[y]
  BY DEF After, Base, HeldType
<1>5. shareQueue' = SubSeq(sq, n + 1, Len(sq)) /\ granted = First(sq, n)
  BY DEF GiveBack, Number, Granted, After
<1>6. woken # {} => woken = {Head(kq[Key[r]])} /\ Key[r] \in Keys
  BY <1>1 DEF Woken, NextWaiter
<1>7. sq \in Seq(Requests) /\ kq \in [Keys -> Seq(Requests)]
  BY DEF Fits
<1>8. pc'[x] \in {"share queue", "key queue"} =>
        pc'[x] = p[x] /\ x \notin granted /\ x \notin woken
  BY <1>3
<1> HIDE DEF granted, woken, n, h
<1>9. y \notin granted => "share" \notin held'[y] \ held[y]
  <2>1. y \notin granted => held'[y] \subseteq h[y] \cup {"key"}
    BY <1>3
  <2> QED BY <1>4, <2>1
<1>10. y \notin woken => "key" \notin held'[y] \ held[y]
  <2>1. y \notin woken => held'[y] \subseteq h[y] \cup {"share"}
    BY <1>3
  <2> QED BY <1>4, <2>1
<1>11. ShareOrder(x, y)
  <2> SUFFICES ASSUME pc'[x] = "share queue", Before(shareQueue, x, y)
               PROVE  "share" \notin held'[y] \ held[y] /\ Before(shareQueue', x, y)
    BY DEF ShareOrder
  <2>1. Before(sq, x, y) /\ x \notin First(sq, n)
    BY <1>5, <1>8
  <2>2. Before(shareQueue', x, y) /\ y \notin granted
    BY <1>3, <1>5, <1>7, <2>1, BeforeDrop
  <2> QED BY <1>9, <2>2
<1>12. KeyOrder(x, y)
  <2> SUFFICES ASSUME pc'[x] = "key queue", Key[x] = Key[y],
                      Before(keyQueue[Key[x]], x, y)
               PROVE  "key" \notin held'[y] \ held[y] /\ Before(keyQueue'[Key[x]], x, y)
    BY DEF KeyOrder
  <2>1. Before(kq[Key[x]], x, y) /\ p[x] = "key queue" /\ Key[x] \in Keys /\ x \notin woken
    BY <1>8 DEF Fits
  <2>2. CASE woken = {} \/ Key[r] # Key[x]
    <3>1. y \notin woken
      BY <1>3, <2>2
    <3>2. keyQueue'[Key[x]] = kq[Key[x]]
      BY <1>3, <1>7, <2>1, <2>2
    <3> QED BY <1>10, <2>1, <3>1, <3>2
  <2>3. CASE woken # {} /\ Key[r] = Key[x]
    <3>1. x # Head(kq[Key[x]]) /\ kq[Key[x]] \in Seq(Requests)
      BY <1>6, <1>7, <2>1, <2>3
    <3>2. Before(Tail(kq[Key[x]]), x, y) /\ y # Head(kq[Key[x]])
      BY <2>1, <3>1, BeforeTail
    <3>3. keyQueue'[Key[x]] = Tail(kq[Key[x]])
      BY <1>3, <1>7, <2>1, <2>3
    <3>4. y \notin woken
      BY <1>6, <2>3, <3>2
    <3> QED BY <1>10, <3>2, <3>3, <3>4
  <2> QED BY <2>2, <2>3
<1> QED BY <1>11, <1>12

LEMMA OrderStep ==
  ASSUME Base, NoIdleSlot, [Next]_vars, NEW x \in Requests, NEW y \in Requests
  PROVE  ShareOrder(x, y) /\ KeyOrder(x, y)
<1>0. /\ shareQueue \in Seq(Requests) /\ keyQueue \in [Keys -> Seq(Requests)]
      /\ pc \in [Requests -> Places] /\ held \in [Requests -> SUBSET Things]
      /\ pc[x] = "key queue" => Key[x] \in Keys
  BY DEF Base, Fits, HeldType
\* The queues stay, and y takes a slot only if nobody waits for one.
<1>1. ASSUME UNCHANGED <<keyQueue, shareQueue>>,
             "share" \in held'[y] \ held[y] => shareQueue = <<>>,
             "key" \in held'[y] \ held[y] => Key[y] \in Keys /\ KeyRoom(held, Key[y])
      PROVE  ShareOrder(x, y) /\ KeyOrder(x, y)
  <2>1. ShareOrder(x, y)
    BY <1>0, <1>1, BeforeMeans DEF ShareOrder
  <2>2. ASSUME Key[x] = Key[y], pc[x] = "key queue", Before(keyQueue[Key[x]], x, y)
        PROVE  "key" \notin held'[y] \ held[y]
    <3>1. keyQueue[Key[x]] # <<>>
      BY <1>0, <2>2, BeforeMeans
    <3> QED BY <1>0, <1>1, <2>2, <3>1 DEF NoIdleSlot
  <2> QED BY <1>1, <2>1, <2>2 DEF KeyOrder
<1>2. ASSUME UNCHANGED <<held, keyQueue, shareQueue>>
      PROVE  ShareOrder(x, y) /\ KeyOrder(x, y)
  BY <1>1, <1>2
<1>3. CASE UNCHANGED vars
  BY <1>2, <1>3 DEF vars
<1>4. SUFFICES ASSUME NEW r \in Requests,
                      \/ Arrive(r) \/ Step(r) \/ KeyTimeout(r) \/ ShareTimeout(r) \/ Close(r)
               PROVE  ShareOrder(x, y) /\ KeyOrder(x, y)
  BY <1>3 DEF Next
<1>5. CASE Arrive(r) \/ BodyRead(r) \/ Trusted(r) \/ Answered(r)
  BY <1>2, <1>5 DEF Arrive, BodyRead, Trusted, Answered, Refuse
<1>6. CASE Authorized(r) \/ Streamed(r)
  <2>1. UNCHANGED <<keyQueue, shareQueue>>
    BY <1>6 DEF Authorized, Streamed, Refuse
  <2>2. held'[y] \ held[y] \subseteq {"owner"}
    <3>1. \/ UNCHANGED held
          \/ held' = [held EXCEPT ![r] = @ \cup (IF r \in Owners THEN {"owner"} ELSE {})]
          \/ held' = [held EXCEPT ![r] = @ \ {"tokens"}]
      BY <1>6 DEF Authorized, Streamed, Refuse, Take
    <3>2. ASSUME NEW mine \in SUBSET Things, held' = [held EXCEPT ![r] = mine],
                 mine \subseteq held[r] \cup {"owner"}
          PROVE  held'[y] \ held[y] \subseteq {"owner"}
      BY <1>0, <3>2
    <3>3. held[r] \in SUBSET Things /\ "owner" \in Things
      BY <1>0 DEF Things
    <3> QED BY <3>1, <3>2, <3>3
  <2> QED BY <1>1, <2>1, <2>2
<1>7. CASE Routed(r)
  <2> DEFINE tokens == IF r \in Metered THEN {"tokens"} ELSE {}
  <2>1. CASE UNCHANGED <<held, keyQueue, shareQueue>>
    BY <1>2, <2>1
  <2>2. CASE Take(r, tokens) /\ UNCHANGED <<keyQueue, shareQueue>>
    <3>1. held'[y] \ held[y] \subseteq {"tokens"}
      BY <1>0, <2>2 DEF Take
    <3> QED BY <1>1, <2>2, <3>1
  <2>3. CASE Take(r, tokens \cup {"key"}) /\ Key[r] # NoKey /\ KeyRoom(held, Key[r])
             /\ UNCHANGED <<keyQueue, shareQueue>>
    <3>1. held'[y] \ held[y] \subseteq {"tokens", "key"}
      BY <1>0, <2>3 DEF Take
    <3>2. "key" \in held'[y] \ held[y] => y = r
      BY <1>0, <2>3 DEF Take
    <3>3. Key[r] \in Keys
      BY <2>3 DEF GatewayAssumption
    <3> QED BY <1>1, <2>3, <3>1, <3>2, <3>3
  <2>4. CASE Take(r, tokens) /\ keyQueue' = [keyQueue EXCEPT ![Key[r]] = Append(@, r)]
             /\ UNCHANGED shareQueue
    <3>1. held'[y] \ held[y] \subseteq {"tokens"}
      BY <1>0, <2>4 DEF Take
    <3>2. ShareOrder(x, y)
      BY <2>4, <3>1 DEF ShareOrder
    <3>3. ASSUME pc[x] = "key queue", Before(keyQueue[Key[x]], x, y)
          PROVE  Before(keyQueue'[Key[x]], x, y)
      <4>1. /\ keyQueue[Key[x]] \in Seq(Requests)
            /\ \/ keyQueue'[Key[x]] = keyQueue[Key[x]]
               \/ keyQueue'[Key[x]] = Append(keyQueue[Key[x]], r)
        BY <1>0, <2>4, <3>3
      <4>2. Before(Append(keyQueue[Key[x]], r), x, y)
        BY <3>3, <4>1, BeforeAppend
      <4> QED BY <3>3, <4>1, <4>2
    <3> QED BY <3>1, <3>2, <3>3 DEF KeyOrder
  <2> QED BY <1>7, <2>1, <2>2, <2>3, <2>4 DEF Routed, Refuse
<1>8. CASE PortChecked(r)
  <2>1. CASE UNCHANGED <<held, keyQueue, shareQueue>>
    BY <1>2, <2>1
  <2>2. CASE shareQueue = <<>> /\ Take(r, {"share"}) /\ UNCHANGED <<keyQueue, shareQueue>>
    <3>1. held'[y] \ held[y] \subseteq {"share"}
      BY <1>0, <2>2 DEF Take
    <3> QED BY <1>1, <2>2, <3>1
  <2>3. CASE UNCHANGED <<held, keyQueue>> /\ shareQueue' = Append(shareQueue, r)
    <3>1. Before(shareQueue, x, y) => Before(shareQueue', x, y)
      BY <1>0, <2>3, BeforeAppend
    <3> QED BY <2>3, <3>1 DEF ShareOrder, KeyOrder
  <2> QED BY <1>8, <2>1, <2>2, <2>3 DEF PortChecked, Refuse, Enqueue
<1>9. CASE KeyTimeout(r)
  <2>1. /\ pc' = [pc EXCEPT ![r] = "answered"] /\ UNCHANGED <<held, shareQueue>>
        /\ keyQueue' = [keyQueue EXCEPT ![Key[r]] = Without(@, r)]
        /\ pc[r] = "key queue"
    BY <1>9 DEF KeyTimeout, Goto
  <2>2. ASSUME pc[x] = "key queue", pc'[x] = "key queue", Before(keyQueue[Key[x]], x, y)
        PROVE  Before(keyQueue'[Key[x]], x, y)
    BY <1>0, <2>1, <2>2, StaysBefore
  <2> QED BY <2>1, <2>2 DEF ShareOrder, KeyOrder
<1>10. CASE ShareTimeout(r)
  <2>1. /\ pc' = [pc EXCEPT ![r] = "answered"] /\ UNCHANGED <<held, keyQueue>>
        /\ shareQueue' = Without(shareQueue, r) /\ pc[r] = "share queue"
    BY <1>10 DEF ShareTimeout, Goto
  <2>2. ASSUME pc'[x] = "share queue", Before(shareQueue, x, y)
        PROVE  Before(shareQueue', x, y)
    BY <1>0, <2>1, <2>2, StaysBefore
  <2> QED BY <2>1, <2>2 DEF ShareOrder, KeyOrder
<1>11. CASE Finish(r)
  <2>1. /\ held[r] \cap OnFinish \in SUBSET held[r] /\ GoneFirst(pc)
        /\ GiveBack(r, held[r] \cap OnFinish, pc, keyQueue, shareQueue)
    BY <1>11 DEF Finish, GoneFirst
  <2> QED BY <2>1, GiveBackOrder DEF Base
<1>12. CASE Close(r)
  <2> DEFINE p == IF pc[r] \in EndedByClose THEN [pc EXCEPT ![r] = "gone"] ELSE pc
             kq == IF pc[r] = "key queue"
                   THEN [keyQueue EXCEPT ![Key[r]] = Without(@, r)] ELSE keyQueue
             sq == IF pc[r] = "share queue" THEN Without(shareQueue, r) ELSE shareQueue
  <2>1. Fits(p, kq, sq) /\ GoneFirst(p)
    BY CloseLeaves
  <2>2. held[r] \cap OnClose \in SUBSET held[r] /\ GiveBack(r, held[r] \cap OnClose, p, kq, sq)
    BY <1>12 DEF Close
  <2>3. ASSUME p[x] = "share queue", Before(shareQueue, x, y) PROVE Before(sq, x, y)
    BY <1>0, <2>3, StaysBefore DEF EndedByClose
  <2>4. ASSUME p[x] = "key queue", Before(keyQueue[Key[x]], x, y)
        PROVE  Before(kq[Key[x]], x, y)
    BY <1>0, <2>4, StaysBefore DEF EndedByClose
  <2> HIDE DEF p, kq, sq
  <2> QED BY <2>1, <2>2, <2>3, <2>4, GiveBackOrder
<1> QED BY <1>4, <1>5, <1>6, <1>7, <1>8, <1>9, <1>10, <1>11, <1>12 DEF Step

\* First come, first served, for every number of keys, slots and waiters: who
\* waits for a slot is not passed by anybody who came to wait later, whoever
\* else times out, leaves or arrives (gateway-utils.js 1807-1842, limiter.js
\* 475-530).
THEOREM NobodyIsPassed == Spec => FirstComeFirstServed
<1>1. Base /\ SlotInv /\ [Next]_vars =>
        [\A x, y \in Requests :
           /\ pc[x] = "share queue" /\ pc'[x] = "share queue" /\ Before(shareQueue, x, y)
              => "share" \notin held'[y] \ held[y] /\ Before(shareQueue', x, y)
           /\ pc[x] = "key queue" /\ pc'[x] = "key queue" /\ Key[x] = Key[y]
              /\ Before(keyQueue[Key[x]], x, y)
              => "key" \notin held'[y] \ held[y] /\ Before(keyQueue'[Key[x]], x, y)]_vars
  BY OrderStep DEF SlotInv, ShareOrder, KeyOrder
<1> QED BY BaseHolds, SlotsHold, <1>1, PTL DEF Spec, FirstComeFirstServed
-----------------------------------------------------------------------------
(* Nobody waits in a circle *)

\* The place of a request is one from which its own next step leads on: an
\* await that ends by itself, an answer that finishes, a response that closes.
Moving(r) ==
  \/ pc[r] \in {"access", "body", "route", "port", "trust", "upstream", "streaming"}
  \/ pc[r] = "answered" /\ response[r] = "open"
  \/ response[r] = "finished"

\* A slot of a key is held while its request waits for the share, and the
\* owner's mark, which shrinks the share, while the owner waits for a key: yet
\* whenever somebody waits, somebody else goes on.
NobodyStandsStill ==
  (\E r \in Requests : pc[r] \in {"key queue", "share queue"})
  => \E r \in Requests : Moving(r)

\* The class of a key is one of all requests that have its limit: limits hold
\* on the PUBLIC listener, where the class alone makes a request the owner's.
KeysHaveOneClass == \A x, y \in Requests :
  Key[x] # NoKey /\ Key[x] = Key[y] => (x \in Owners <=> y \in Owners)

\* Marks are the owner's, and the owner does not queue for the share.
Roles == \A r \in Requests :
  /\ "owner" \in held[r] => r \in Owners /\ pc[r] # "new"
  /\ pc[r] = "share queue" => r \notin Owners
  /\ pc[r] = "gone" => response[r] = "closed"

LEMMA RolesOthers ==
  ASSUME Base, Roles, NEW r \in Requests, NEW place \in Places \ {"new", "gone"},
         pc' = [pc EXCEPT ![r] = place],
         NEW mine \in SUBSET Things, held' = [held EXCEPT ![r] = mine],
         UNCHANGED response,
         "owner" \in mine => r \in Owners,
         place = "share queue" => r \notin Owners
  PROVE  Roles'
<1> SUFFICES ASSUME NEW x \in Requests PROVE Roles!(x)'
  BY DEF Roles
<1>1. CASE x = r
  BY <1>1 DEF Base, HeldType, Fits
<1>2. CASE x # r
  BY <1>2 DEF Base, HeldType, Fits, Roles
<1> QED BY <1>1, <1>2

LEMMA GiveBackRoles ==
  ASSUME Base, Roles, NEW p, NEW kq, NEW sq, Fits(p, kq, sq),
         NEW r \in Requests, NEW things \in SUBSET held[r],
         GiveBack(r, things, p, kq, sq),
         \A x \in Requests : p[x] = pc[x] \/ (x = r /\ p[x] = "gone"),
         NEW over, response' = [response EXCEPT ![r] = over],
         over # "closed" => p[r] = pc[r] /\ pc[r] # "gone",
         over = "closed" \/ response[r] # "closed"
  PROVE  Roles'
<1> SUFFICES ASSUME NEW x \in Requests PROVE Roles!(x)'
  BY DEF Roles
<1> DEFINE granted == Granted(r, things, sq)
           woken == Woken(r, things, kq)
           h == After(r, things)
<1>1. "key" \in things => Key[r] \in Keys
  BY DEF Base, InOrder
<1>2. GaveBack(r, things, p, kq, sq)
  BY <1>1, GiveBackFits DEF Base
<1>3. /\ held'[x] = h[x] \cup (IF x \in granted THEN {"share"} ELSE {})
                         \cup (IF x \in woken THEN {"key"} ELSE {})
      /\ pc'[x] = IF x \in granted THEN "trust" ELSE IF x \in woken THEN "port" ELSE p[x]
  BY <1>2 DEF GaveBack
<1>4. h[x] \subseteq held[x]
  BY DEF After, Base, HeldType
<1> HIDE DEF granted, woken, h
<1>5. "owner" \in held'[x] => "owner" \in held[x]
  <2>1. held'[x] \subseteq h[x] \cup {"share", "key"}
    BY <1>3
  <2> QED BY <1>4, <2>1
<1>6. pc'[x] \in {"trust", "port"} \/ pc'[x] = pc[x] \/ (x = r /\ pc'[x] = "gone")
  BY <1>3
<1>7. "owner" \in held'[x] => x \in Owners /\ pc'[x] # "new"
  BY <1>5, <1>6 DEF Roles
<1>8. pc'[x] = "share queue" => x \notin Owners
  BY <1>6 DEF Roles
<1>9. pc'[x] = "gone" => response'[x] = "closed"
  <2>1. CASE x = r
    BY <1>3, <2>1 DEF Base
  <2>2. CASE x # r
    BY <1>6, <2>2 DEF Roles, Base
  <2> QED BY <2>1, <2>2
<1> QED BY <1>7, <1>8, <1>9

LEMMA RolesStep == Base /\ KeepInv /\ Roles /\ [Next]_vars => Roles'
<1> SUFFICES ASSUME Base, KeepInv, Roles, [Next]_vars PROVE Roles'
  OBVIOUS
<1>0. CASE UNCHANGED vars
  BY <1>0 DEF vars, Roles
<1>1. SUFFICES ASSUME NEW r \in Requests,
                      \/ Arrive(r) \/ Step(r) \/ KeyTimeout(r) \/ ShareTimeout(r) \/ Close(r)
               PROVE  Roles'
  BY <1>0 DEF Next
<1>2. /\ held[r] \in SUBSET Things /\ held = [held EXCEPT ![r] = held[r]]
      /\ "owner" \in held[r] => r \in Owners
      /\ "owner" \in Things /\ "tokens" \in Things /\ "key" \in Things /\ "share" \in Things
  BY DEF Base, HeldType, Roles, Things
<1>3. ASSUME NEW place \in Places \ {"new", "gone", "share queue"}, Goto(r, place),
             UNCHANGED <<response, held>>
      PROVE  Roles'
  BY <1>2, <1>3, RolesOthers DEF Goto
<1>4. ASSUME NEW place \in Places \ {"new", "gone", "share queue"}, Goto(r, place),
             NEW mine \in SUBSET Things, "owner" \in mine => r \in Owners \/ "owner" \in held[r],
             held' = [held EXCEPT ![r] = mine], UNCHANGED response
      PROVE  Roles'
  BY <1>2, <1>4, RolesOthers DEF Goto
<1>5. \A place \in {"access", "body", "route", "key queue", "port", "trust", "upstream",
                    "streaming", "answered"} :
        place \in Places \ {"new", "gone", "share queue"}
  BY DEF Places
<1>6. CASE Arrive(r) \/ BodyRead(r) \/ Trusted(r) \/ Answered(r) \/ KeyTimeout(r) \/ ShareTimeout(r)
  BY <1>3, <1>5, <1>6
  DEF Arrive, BodyRead, Trusted, Answered, KeyTimeout, ShareTimeout, Refuse
<1>7. CASE Authorized(r)
  <2>1. CASE Refuse(r)
    BY <1>3, <1>5, <1>7, <2>1 DEF Refuse, Authorized
  <2>2. CASE Goto(r, "body") /\ Take(r, IF r \in Owners THEN {"owner"} ELSE {})
    <3> DEFINE mine == held[r] \cup (IF r \in Owners THEN {"owner"} ELSE {})
    <3>1. mine \in SUBSET Things /\ ("owner" \in mine => r \in Owners \/ "owner" \in held[r])
      BY <1>2
    <3>2. held' = [held EXCEPT ![r] = mine] /\ UNCHANGED response /\ Goto(r, "body")
      BY <1>7, <2>2 DEF Take, Authorized
    <3> HIDE DEF mine
    <3> QED BY <1>4, <1>5, <3>1, <3>2
  <2> QED BY <1>7, <2>1, <2>2 DEF Authorized
<1>8. CASE Routed(r)
  <2>1. UNCHANGED response
    BY <1>8 DEF Routed
  <2>2. CASE Refuse(r)
    BY <1>3, <1>5, <2>1, <2>2 DEF Refuse
  <2>3. CASE ~Refuse(r)
    <3>1. PICK place \in {"port", "answered", "key queue"}, tokens \in SUBSET {"tokens", "key"} :
            Goto(r, place) /\ Take(r, tokens)
      <4> DEFINE mine == IF r \in Metered THEN {"tokens"} ELSE {}
      <4>1. \/ Goto(r, "port") /\ Take(r, mine)
            \/ Goto(r, "port") /\ Take(r, mine \cup {"key"})
            \/ Goto(r, "answered") /\ Take(r, mine)
            \/ Goto(r, "key queue") /\ Take(r, mine)
        BY <1>8, <2>3 DEF Routed
      <4>2. mine \in SUBSET {"tokens", "key"} /\ mine \cup {"key"} \in SUBSET {"tokens", "key"}
        OBVIOUS
      <4> HIDE DEF mine
      <4> QED BY <4>1, <4>2
    <3>2. held' = [held EXCEPT ![r] = held[r] \cup tokens] /\ held[r] \cup tokens \in SUBSET Things
      BY <1>2, <3>1 DEF Take
    <3>3. "owner" \in held[r] \cup tokens => "owner" \in held[r]
      BY <3>1
    <3> QED BY <1>4, <1>5, <2>1, <3>1, <3>2, <3>3
  <2> QED BY <2>2, <2>3
<1>9. CASE PortChecked(r)
  <2>1. UNCHANGED response
    BY <1>9 DEF PortChecked
  <2>2. CASE UNCHANGED held /\ (Goto(r, "answered") \/ Goto(r, "trust"))
    BY <1>3, <1>5, <2>1, <2>2
  <2>3. CASE Take(r, {"share"}) /\ Goto(r, "trust")
    <3>1. held[r] \cup {"share"} \in SUBSET Things
          /\ ("owner" \in held[r] \cup {"share"} => "owner" \in held[r])
      BY <1>2
    <3> QED BY <1>4, <1>5, <2>1, <2>3, <3>1 DEF Take
  <2>4. CASE UNCHANGED held /\ Goto(r, "share queue") /\ r \notin Owners
    <3>1. "share queue" \in Places \ {"new", "gone"}
      BY DEF Places
    <3> QED BY <1>2, <2>1, <2>4, <3>1, RolesOthers DEF Goto
  <2> QED BY <1>9, <2>2, <2>3, <2>4 DEF PortChecked, Refuse
<1>10. CASE Streamed(r)
  <2>1. CASE UNCHANGED held
    BY <1>3, <1>5, <1>10, <2>1 DEF Streamed
  <2>2. CASE held' = [held EXCEPT ![r] = @ \ {"tokens"}]
    <3>1. held[r] \ {"tokens"} \in SUBSET Things
      BY <1>2
    <3> QED BY <1>4, <1>5, <1>10, <2>2, <3>1 DEF Streamed
  <2> QED BY <1>10, <2>1, <2>2 DEF Streamed
<1>11. CASE Finish(r)
  <2>1. /\ held[r] \cap OnFinish \in SUBSET held[r] /\ pc[r] = "answered"
        /\ GiveBack(r, held[r] \cap OnFinish, pc, keyQueue, shareQueue)
        /\ response' = [response EXCEPT ![r] = "finished"] /\ response[r] = "open"
    BY <1>11 DEF Finish
  <2> QED BY <2>1, GiveBackRoles DEF Base
<1>12. CASE Close(r)
  <2> DEFINE p == IF pc[r] \in EndedByClose THEN [pc EXCEPT ![r] = "gone"] ELSE pc
             kq == IF pc[r] = "key queue"
                   THEN [keyQueue EXCEPT ![Key[r]] = Without(@, r)] ELSE keyQueue
             sq == IF pc[r] = "share queue" THEN Without(shareQueue, r) ELSE shareQueue
  <2>1. Fits(p, kq, sq)
    BY CloseLeaves
  <2>2. /\ held[r] \cap OnClose \in SUBSET held[r] /\ GiveBack(r, held[r] \cap OnClose, p, kq, sq)
        /\ response' = [response EXCEPT ![r] = "closed"]
    BY <1>12 DEF Close
  <2>3. \A x \in Requests : p[x] = pc[x] \/ (x = r /\ p[x] = "gone")
    BY DEF Base, Fits
  <2> HIDE DEF p, kq, sq
  <2> QED BY <2>1, <2>2, <2>3, GiveBackRoles
<1> QED BY <1>1, <1>6, <1>7, <1>8, <1>9, <1>10, <1>11, <1>12 DEF Step

\* Who holds something that others wait for goes on, or waits itself.
LEMMA HolderGoesOn ==
  ASSUME Disconnects \subseteq Guarded, Base, KeepInv, Roles, NEW r \in Requests, held[r] # {}, pc[r] # "new"
  PROVE  Moving(r) \/ pc[r] \in {"key queue", "share queue"}
<1>1. response[r] \in {"open", "finished"} /\ pc[r] \in Places
  BY DEF Base, KeepInv, Fits
<1>2. pc[r] # "gone"
  BY <1>1 DEF Roles
<1> QED BY <1>1, <1>2 DEF Moving, Places

\* A full set of slots has somebody in it.
LEMMA SomebodyHolds ==
  ASSUME NEW A, A \subseteq Requests, NEW m \in Nat \ {0}, ~(Cardinality(A) < m)
  PROVE  \E x \in A : TRUE
<1>1. A # {}
  BY FS_EmptySet
<1> QED BY <1>1

\* An empty queue has nobody in it.
LEMMA NobodyInEmpty == ASSUME NEW q, q = <<>> PROVE Elements(q) = {}
<1>1. Len(q) = 0
  OBVIOUS
<1> QED BY <1>1 DEF Elements, First

\* Who waits for a slot of a key waits for requests that go on or wait for the
\* share.
LEMMA KeyWaiterWaitsFor ==
  ASSUME Disconnects \subseteq Guarded, Base, KeepInv, Roles, NoIdleSlot, NEW x \in Requests, pc[x] = "key queue"
  PROVE  \E y \in Requests : /\ Key[y] = Key[x] /\ Key[y] # NoKey
                             /\ Moving(y) \/ pc[y] = "share queue"
<1>1. Key[x] \in Keys /\ x \in Elements(keyQueue[Key[x]])
  BY WaitsInQueue
<1>2. keyQueue[Key[x]] # <<>>
  BY <1>1, NobodyInEmpty
<1>3. ~KeyRoom(held, Key[x])
  BY <1>1, <1>2 DEF NoIdleSlot
<1>4. PICK y \in KeyUsers(held, Key[x]) : TRUE
  BY <1>3, UsersCounted, SomebodyHolds, Numbers DEF KeyRoom
<1>5. y \in Requests /\ "key" \in held[y] /\ Key[y] = Key[x]
  BY <1>4 DEF KeyUsers, Holders
<1>6. pc[y] \notin {"new", "key queue"}
  BY <1>5 DEF Base, InOrder, Early
<1>7. Moving(y) \/ pc[y] = "share queue"
  BY <1>5, <1>6, HolderGoesOn
<1>8. Key[x] # NoKey
  BY <1>1 DEF GatewayAssumption
<1> QED BY <1>5, <1>7, <1>8

\* Who waits for the share waits for a request that goes on, or for an owner
\* that goes on or waits for its key.
LEMMA ShareWaiterWaitsFor ==
  ASSUME Disconnects \subseteq Guarded, Base, KeepInv, Roles, NoIdleSlot, NEW x \in Requests, pc[x] = "share queue"
  PROVE  \E y \in Requests : Moving(y) \/ (y \in Owners /\ pc[y] = "key queue")
<1>1. shareQueue # <<>>
  <2>1. x \in Elements(shareQueue)
    BY DEF Base, Fits
  <2> QED BY <2>1, NobodyInEmpty
<1>2. ~ShareRoom(held)
  BY <1>1 DEF NoIdleSlot
<1>3. CASE ShareLimit(held) # 0
  <2>1. PICK y \in Holders(held, "share") : TRUE
    BY <1>2, <1>3, HoldersCounted, SomebodyHolds, ShareLimitType DEF ShareRoom
  <2>2. y \in Requests /\ "share" \in held[y]
    BY <2>1 DEF Holders
  <2>3. pc[y] \notin {"new", "key queue", "share queue"}
    BY <2>2 DEF Base, InOrder, Early
  <2> QED BY <2>2, <2>3, HolderGoesOn
<1>4. CASE ShareLimit(held) = 0
  <2>1. Holders(held, "owner") # {}
    BY <1>4, Numbers DEF ShareLimit
  <2>2. PICK y \in Requests : "owner" \in held[y]
    BY <2>1 DEF Holders
  <2>3. y \in Owners /\ pc[y] \notin {"new", "share queue"}
    BY <2>2 DEF Roles
  <2> QED BY <2>2, <2>3, HolderGoesOn
<1> QED BY <1>3, <1>4

\* Waiting never goes round in a circle: a request that holds a slot of its key
\* while it waits for the share, and an owner that shrinks the share, to
\* nothing even, while it waits for its key, are never all there is.  Clients
\* may leave at guarded places (gateway-pipeline.js 570-575, 683-741, limiter.js
\* 475-505 and 728-732).
THEOREM NoCircularWait ==
  ASSUME Disconnects \subseteq Guarded, KeysHaveOneClass
  PROVE  Spec => []NobodyStandsStill
<1>1. Init => Roles
  BY DEF Init, Roles
<1>2. Base /\ KeepInv /\ [Next]_vars => KeepInv'
  BY KeepStep
<1>3. ASSUME Base, KeepInv, Roles, NoIdleSlot, NEW x \in Requests,
             pc[x] \in {"key queue", "share queue"}
      PROVE  \E y \in Requests : Moving(y)
  <2>1. ASSUME NEW y \in Requests, pc[y] = "key queue", y \in Owners
        PROVE  \E z \in Requests : Moving(z)
    <3>1. PICK z \in Requests : /\ Key[z] = Key[y] /\ Key[z] # NoKey
                                /\ Moving(z) \/ pc[z] = "share queue"
      BY <1>3, <2>1, KeyWaiterWaitsFor
    <3>2. z \in Owners
      BY <2>1, <3>1 DEF KeysHaveOneClass
    <3> QED BY <1>3, <3>1, <3>2 DEF Roles
  <2>2. ASSUME NEW y \in Requests, pc[y] = "share queue"
        PROVE  \E z \in Requests : Moving(z)
    BY <1>3, <2>1, <2>2, ShareWaiterWaitsFor
  <2>3. CASE pc[x] = "key queue"
    BY <1>3, <2>2, <2>3, KeyWaiterWaitsFor
  <2> QED BY <1>3, <2>2, <2>3
<1>4. Base /\ KeepInv /\ Roles /\ NoIdleSlot => NobodyStandsStill
  BY <1>3 DEF NobodyStandsStill
<1> QED BY BaseHolds, NoSlotIdles, InitKeep, <1>1, <1>2, <1>4, RolesStep, PTL DEF Spec
=============================================================================
