------------------------ MODULE ManagerBilling_proofs ------------------------
(***************************************************************************)
(* Managers keep the store's promises, serve nothing that was not granted  *)
(* or deferred, and keep what they deferred, for any requests and limits.  *)
(* The same invariant shows that none of their settlements is ever booked. *)
(***************************************************************************)
EXTENDS ManagerBilling, BillingStore_proofs

\* The store has granted the request.
Good(r) == status[r] \notin {"none", "denied"}

\* What the memo says of the mode is what the store has told, or an assumption
\* made in the grace.
TrueTo(k) ==
  /\ k.told \in Llm => Good(k.told) /\ (k.mode = "hard" <=> k.told \in hard)
  /\ k = Untold("shadow") => graced # {}

\* The request in whose name others may be served was let in.
Backed(kind, q) ==
  /\ pc[q] # "new"
  /\ \/ kind = "granted" /\ Good(q)
     \/ kind = "deferred" /\ (Permitted(q) \/ Assumed(q))

Grants ==
  /\ memo # NoMemo => Backed(memo.kind, memo.by)
  /\ TrueTo(memo.known)
  /\ \A r \in Llm : TrueTo(known[r])
  /\ \A r \in Llm : Served(r) => Backed(auth[r].kind, auth[r].by)

\* A manager that is down does nothing.
Down ==
  /\ disk = "saved" /\ flush = Idle /\ memo = NoMemo
  /\ items = <<>>
  /\ \A r \in Llm : pc[r] \notin {"asking", "serving", "ending"}

\* Every item of a pass is either still to come or kept.
Pass ==
  /\ Len(flush.rest) + Len(flush.remain) <= MaxItems
  /\ flush.took \subseteq Range(flush.rest) \cup Range(flush.remain)

ManagerInv ==
  /\ StoreInv /\ TypeOK /\ Len(file) <= MaxItems
  /\ Grants /\ Pass
  /\ ~up => Down
  /\ recorded = {}

-----------------------------------------------------------------------------
(* The store under the managers *)

\* A settlement of a manager has a field too many.
LEMMA Refused ==
  ASSUME NEW r, NEW billable, NEW cost,
         \/ Settle(r, FinalizerKeys, billable, cost)
         \/ Settle(r, DeferredKeys, billable, cost)
  PROVE  UNCHANGED store
<1>1. "stream" \in FinalizerKeys /\ "stream" \in DeferredKeys /\ "stream" \notin SettlementKeys
  BY DEF FinalizerKeys, DeferredKeys, SettlementKeys
<1> QED BY <1>1 DEF Settle

LEMMA DeferredRefused == \A r : ~Accepted(r, DeferredKeys)
<1>1. "stream" \in DeferredKeys /\ "stream" \notin SettlementKeys
  BY DEF FinalizerKeys, DeferredKeys, SettlementKeys
<1> QED BY <1>1 DEF Accepted

\* What a step of a manager does to the store.
StoreStep == UNCHANGED store \/ (\E q \in Llm : Authorize(q)) \/ Others

LEMMA StepOfStore == ASSUME TypeOK, [Next]_vars PROVE StoreStep
<1>1. \A r \in Llm : auth[r].by \in Llm
  BY DEF TypeOK
<1>2. ASSUME NEW r \in Llm,
             \/ Ask(r) \/ Authorized(r) \/ Unavailable(r) \/ Finalize(r) \/ Unsettled(r)
             \/ FlushAuthorizes(r)
      PROVE  StoreStep
  BY <1>1, <1>2 DEF StoreStep, Ask, Authorized, Unavailable, Finalize, Unsettled, FlushAuthorizes
<1>3. ASSUME NEW r \in Llm, NEW billable \in BOOLEAN, NEW cost \in 0..MaxCost,
             Settled(r, billable, cost) \/ FlushSettles(r, billable, cost)
      PROVE  StoreStep
  BY <1>3, Refused DEF StoreStep, Settled, FlushSettles
<1>4. ASSUME NEW r \in Llm, NEW billable \in BOOLEAN, NEW cost \in 0..MaxCost,
             FlushFails(r, billable, cost)
      PROVE  StoreStep
  BY <1>1, <1>4, Refused DEF StoreStep, FlushFails
<1>5. CASE FlushBegins \/ FlushEnds \/ (\E done \in BOOLEAN : Write(done))
           \/ MemoExpires \/ GraceEnds \/ Crash \/ Start
  BY <1>5 DEF StoreStep, FlushBegins, FlushEnds, Write, MemoExpires, GraceEnds, Crash, Start
<1>6. CASE Others
  BY <1>6 DEF StoreStep
<1>7. CASE UNCHANGED vars
  BY <1>7 DEF StoreStep, vars
<1> QED BY <1>2, <1>3, <1>4, <1>5, <1>6, <1>7 DEF Next

LEMMA StoreStepIsNext == StoreStep => [StoreNext]_store
  BY DEF StoreStep, StoreNext, OtherCalls, Others, LlmCall

\* No grant is taken back or changes its mode, and nothing is booked.
LEMMA StoreStepKeeps ==
  ASSUME StoreInv, StoreStep
  PROVE  /\ recorded' = recorded
         /\ \A r \in Llm : Good(r) => Good(r)' /\ (r \in hard <=> r \in hard')
<1>1. CASE UNCHANGED store
  BY <1>1 DEF store, Good
<1>2. ASSUME NEW q \in Llm, Authorize(q) PROVE \A r \in Llm : Good(r) => Good(r)' /\ (r \in hard <=> r \in hard')
  <2>1. \A r \in Requests : Swept[r] \in {"none", "denied"} => Swept[r] = status[r]
    BY DEF Swept
  <2>2. \A r \in Llm : r \in Requests
    BY DEF Requests
  <2> QED BY <1>2, <2>1, <2>2 DEF Authorize, InMode, Good, Swept
<1>3. ASSUME NEW q \in Llm, Authorize(q) PROVE recorded' = recorded
  BY <1>3 DEF Authorize
<1>4. CASE Others
  BY <1>4 DEF Others, Administer, SetPolicy, Adjust, Lapse, Good
<1> QED BY <1>1, <1>2, <1>3, <1>4 DEF StoreStep

-----------------------------------------------------------------------------
(* Types and the pass over the list *)

LEMMA LatestFact ==
  ASSUME NEW s \in Seq(Llm)
  PROVE  Latest(s) \in Seq(Llm) /\ Len(Latest(s)) <= MaxItems
<1>1. MaxItems \in Nat \ {0} /\ Len(s) \in Nat
  BY ManagerAssumption
<1>2. CASE Len(s) > MaxItems
  <2>1. /\ SubSeq(s, Len(s) - MaxItems + 1, Len(s)) \in Seq(Llm)
        /\ Len(SubSeq(s, Len(s) - MaxItems + 1, Len(s))) = MaxItems
    BY <1>1, <1>2
  <2> QED BY <1>1, <1>2, <2>1 DEF Latest
<1> QED BY <1>1, <1>2 DEF Latest

LEMMA TailFact ==
  ASSUME NEW s \in Seq(Llm), s # <<>>
  PROVE  /\ Tail(s) \in Seq(Llm) /\ Len(Tail(s)) = Len(s) - 1 /\ Head(s) \in Llm
         /\ Range(s) \subseteq Range(Tail(s)) \cup {Head(s)}
<1>1. Len(s) \in Nat \ {0} /\ DOMAIN s = 1..Len(s)
  OBVIOUS
<1>2. Tail(s) \in Seq(Llm) /\ Len(Tail(s)) = Len(s) - 1 /\ Head(s) \in Llm /\ Head(s) = s[1]
  BY <1>1
<1>3. ASSUME NEW x \in Range(s) PROVE x \in Range(Tail(s)) \cup {Head(s)}
  <2>1. PICK i \in 1..Len(s) : x = s[i]
    BY <1>1 DEF Range
  <2>2. CASE i = 1
    BY <1>2, <2>1, <2>2
  <2>3. CASE i # 1
    <3>1. i - 1 \in 1..Len(Tail(s)) /\ Tail(s)[i - 1] = s[i]
      BY <1>1, <1>2, <2>1, <2>3
    <3>2. DOMAIN Tail(s) = 1..Len(Tail(s))
      BY <1>2
    <3> QED BY <2>1, <3>1, <3>2 DEF Range
  <2> QED BY <2>2, <2>3
<1> QED BY <1>2, <1>3

LEMMA AppendFact ==
  ASSUME NEW s \in Seq(Llm), NEW x \in Llm
  PROVE  /\ Append(s, x) \in Seq(Llm) /\ Len(Append(s, x)) = Len(s) + 1
         /\ Range(Append(s, x)) = Range(s) \cup {x}
<1>1. /\ Len(s) \in Nat /\ DOMAIN s = 1..Len(s)
      /\ Append(s, x) \in Seq(Llm) /\ Len(Append(s, x)) = Len(s) + 1
  OBVIOUS
<1>2. DOMAIN Append(s, x) = 1..(Len(s) + 1)
  BY <1>1
<1>3. /\ \A i \in 1..Len(s) : Append(s, x)[i] = s[i]
      /\ Append(s, x)[Len(s) + 1] = x
  BY <1>1
<1>4. 1..(Len(s) + 1) = 1..Len(s) \cup {Len(s) + 1}
  BY <1>1
<1> QED BY <1>1, <1>2, <1>3, <1>4 DEF Range

\* What the finalizers and the process do to everything but the store.
Shape ==
  /\ pc \in [Llm -> {"new", "asking", "refused", "serving", "ending",
                     "answered", "lost", "deferred", "gone"}]
  /\ auth \in [Llm -> [kind : {"none", "granted", "deferred"}, by : Llm]]
  /\ known \in [Llm -> Known]
  /\ memo = NoMemo \/ memo \in [kind : {"granted", "deferred"}, by : Llm,
                                known : Known, fresh : BOOLEAN]
  /\ cold \in BOOLEAN /\ up \in BOOLEAN /\ graced \subseteq Llm
ListShape ==
  /\ items \in Seq(Llm) /\ Len(items) <= MaxItems /\ file \in Seq(Llm)
  /\ disk \in {"saved", "saving", "failed"}
  /\ flush \in [stage : {"idle", "running", "saving"}, rest : Seq(Llm),
                remain : Seq(Llm), took : SUBSET Llm, asked : BOOLEAN]
  /\ Len(file) <= MaxItems /\ Pass

LEMMA InvShape ==
  /\ ManagerInv => Shape /\ ListShape
  /\ Shape /\ ListShape /\ StoreTypeOK => TypeOK
  BY DEF ManagerInv, TypeOK, Shape, ListShape

LEMMA IdleShape ==
  /\ Idle \in [stage : {"idle", "running", "saving"}, rest : Seq(Llm),
               remain : Seq(Llm), took : SUBSET Llm, asked : BOOLEAN]
  /\ Len(Idle.rest) + Len(Idle.remain) = 0 /\ Idle.took = {}
<1>1. <<>> \in Seq(Llm) /\ Len(<<>>) = 0
  OBVIOUS
<1> QED BY <1>1 DEF Idle

LEMMA PassShrinks ==
  ASSUME ListShape, NEW r \in Llm, NEW b \in BOOLEAN, Item(r, b),
         flush' = Keep(r)
  PROVE  /\ flush' \in [stage : {"idle", "running", "saving"}, rest : Seq(Llm),
                        remain : Seq(Llm), took : SUBSET Llm, asked : BOOLEAN]
         /\ Pass'
<1> DEFINE t == Tail(flush.rest)
           m == Append(flush.remain, r)
<1>1. /\ flush.rest \in Seq(Llm) /\ flush.rest # <<>> /\ Head(flush.rest) = r
      /\ flush.remain \in Seq(Llm)
  BY DEF ListShape, Item
<1>2. t \in Seq(Llm) /\ Len(t) = Len(flush.rest) - 1 /\ Range(flush.rest) \subseteq Range(t) \cup {r}
  BY <1>1, TailFact
<1>3. m \in Seq(Llm) /\ Len(m) = Len(flush.remain) + 1 /\ Range(m) = Range(flush.remain) \cup {r}
  BY <1>1, AppendFact
<1>4. flush'.rest = t /\ flush'.remain = m /\ flush'.took = flush.took
  BY DEF Keep, Next1, ListShape
<1>5. flush' \in [stage : {"idle", "running", "saving"}, rest : Seq(Llm),
                  remain : Seq(Llm), took : SUBSET Llm, asked : BOOLEAN]
  <2>1. flush' = [flush EXCEPT !.rest = t, !.asked = FALSE, !.remain = m]
    BY DEF Keep, Next1, ListShape
  <2> HIDE DEF t, m
  <2> QED BY <1>2, <1>3, <2>1 DEF ListShape
<1>6. Pass'
  <2>1. Len(t) + Len(m) = Len(flush.rest) + Len(flush.remain)
    <3>1. /\ Len(flush.rest) \in Nat /\ Len(flush.remain) \in Nat
      BY <1>1
    <3>2. \A i, j \in Nat : (i - 1) + (j + 1) = i + j
      OBVIOUS
    <3>3. Len(t) = Len(flush.rest) - 1 /\ Len(m) = Len(flush.remain) + 1
      BY <1>2, <1>3
    <3> HIDE DEF t, m
    <3> QED BY <3>1, <3>2, <3>3
  <2> HIDE DEF t, m
  <2> QED BY <1>2, <1>3, <1>4, <2>1 DEF Pass, ListShape
<1> QED BY <1>5, <1>6

LEMMA ShapeStep == ASSUME ManagerInv, [Next]_vars PROVE Shape'
<1>0. Shape /\ (memo.fresh => memo.kind \in {"granted", "deferred"} /\ memo.by \in Llm)
           /\ memo.known \in Known
  BY InvShape DEF Shape, NoMemo, Known
<1>1. ASSUME NEW r \in Llm, NEW s \in {"refused", "ending", "answered", "lost", "deferred", "asking", "serving"},
             At(r, s)
      PROVE  pc' \in [Llm -> {"new", "asking", "refused", "serving", "ending",
                              "answered", "lost", "deferred", "gone"}]
  BY <1>0, <1>1 DEF At, Shape
<1>2. ASSUME NEW r \in Llm, NEW k \in {"granted", "deferred"}, NEW m \in Known,
             Admit(r, k, m), UNCHANGED <<known, cold, up>>, graced' \subseteq Llm
      PROVE  Shape'
  <2>1. auth' \in [Llm -> [kind : {"none", "granted", "deferred"}, by : Llm]]
    BY <1>0, <1>2 DEF Admit, Shape
  <2> QED BY <1>0, <1>1, <1>2, <2>1 DEF Admit, Shape
<1>3. ASSUME NEW r \in Llm, Ask(r) PROVE Shape'
  <2>1. /\ auth' \in [Llm -> [kind : {"none", "granted", "deferred"}, by : Llm]]
        /\ known' \in [Llm -> Known]
    BY <1>0, <1>3 DEF Ask, Shape
  <2> QED BY <1>0, <1>1, <1>3, <2>1 DEF Ask, Shape
<1>4. ASSUME NEW r \in Llm, Authorized(r) \/ Unavailable(r) PROVE Shape'
  <2>1. known[r] \in Known /\ Told(r, hard') \in Known /\ Untold("shadow") \in Known
    BY <1>0 DEF Shape, Known, Told
  <2>2. UNCHANGED <<known, cold, up>> /\ graced' \subseteq Llm
    BY <1>0, <1>4 DEF Authorized, Unavailable, Shape
  <2>3. CASE At(r, "refused") /\ UNCHANGED <<auth, memo>>
    BY <1>0, <1>1, <2>2, <2>3 DEF Shape
  <2>4. \/ At(r, "refused") /\ UNCHANGED <<auth, memo>>
        \/ \E k \in {"granted", "deferred"}, m \in Known : Admit(r, k, m)
    <3>1. CASE Authorized(r)
      BY <2>1, <3>1 DEF Authorized
    <3>2. CASE Unavailable(r)
      BY <2>1, <3>2 DEF Unavailable
    <3> QED BY <1>4, <3>1, <3>2
  <2> QED BY <1>2, <2>2, <2>3, <2>4
<1>5. ASSUME NEW r \in Llm, NEW billable, NEW cost,
             Finalize(r) \/ Unsettled(r) \/ Settled(r, billable, cost)
      PROVE  Shape'
  BY <1>0, <1>1, <1>5 DEF Finalize, Unsettled, Settled, Shape
<1>6. CASE Crash
  BY <1>0, <1>6 DEF Crash, Shape
<1>7. CASE Start \/ GraceEnds
  BY <1>0, <1>7 DEF Start, GraceEnds, Shape
<1>10. CASE MemoExpires
  <2>1. memo # NoMemo
    BY <1>10 DEF MemoExpires, NoMemo
  <2>2. memo' \in [kind : {"granted", "deferred"}, by : Llm, known : Known, fresh : BOOLEAN]
    BY <1>0, <1>10, <2>1 DEF MemoExpires, Shape
  <2> QED BY <1>0, <1>10, <2>2 DEF MemoExpires, Shape
<1>8. ASSUME NEW r \in Llm, NEW billable, NEW cost,
             FlushAuthorizes(r) \/ FlushSettles(r, billable, cost) \/ FlushFails(r, billable, cost)
      PROVE  Shape'
  BY <1>0, <1>8 DEF FlushAuthorizes, FlushSettles, FlushFails, Shape
<1>9. CASE FlushBegins \/ FlushEnds \/ (\E done \in BOOLEAN : Write(done)) \/ UNCHANGED local
  BY <1>0, <1>9 DEF FlushBegins, FlushEnds, Write, local, Shape
<1> QED BY <1>3, <1>4, <1>5, <1>6, <1>7, <1>8, <1>9, <1>10 DEF Next, vars

LEMMA ListStep == ASSUME ManagerInv, [Next]_vars PROVE ListShape'
<1>0. ListShape
  BY InvShape
<1>1. CASE UNCHANGED <<items, file, disk, flush>>
  BY <1>0, <1>1 DEF ListShape, Pass
<1>2. ASSUME NEW r \in Llm, Finalize(r) PROVE ListShape'
  <2>1. Append(items, r) \in Seq(Llm)
    BY <1>0 DEF ListShape
  <2>2. Latest(Append(items, r)) \in Seq(Llm) /\ Len(Latest(Append(items, r))) <= MaxItems
    BY <2>1, LatestFact
  <2>3. \/ items' = items /\ disk' = disk
        \/ items' = Latest(Append(items, r)) /\ disk' = "saving"
    BY <1>2 DEF Finalize
  <2> QED BY <1>0, <1>2, <2>2, <2>3 DEF Finalize, ListShape, Pass
<1>3. CASE FlushBegins
  <2>1. /\ flush'.rest = items /\ flush'.remain = <<>> /\ flush'.took = Range(items)
        /\ flush' \in [stage : {"idle", "running", "saving"}, rest : Seq(Llm),
                       remain : Seq(Llm), took : SUBSET Llm, asked : BOOLEAN]
    <3>1. Range(items) \subseteq Llm
      BY <1>0 DEF ListShape, Range
    <3>2. items \in Seq(Llm) /\ flush' = [Idle EXCEPT !.stage = "running", !.rest = items, !.took = Range(items)]
      BY <1>0, <1>3 DEF FlushBegins, ListShape
    <3>3. flush' \in [stage : {"idle", "running", "saving"}, rest : Seq(Llm),
                      remain : Seq(Llm), took : SUBSET Llm, asked : BOOLEAN]
      BY <3>1, <3>2, IdleShape
    <3>4. flush'.rest = items /\ flush'.remain = <<>> /\ flush'.took = Range(items)
      BY <3>2 DEF Idle
    <3> QED BY <3>3, <3>4
  <2>2. Len(items) + Len(<<>>) <= MaxItems
    BY <1>0, ManagerAssumption DEF ListShape
  <2>3. Pass'
    BY <2>1, <2>2 DEF Pass
  <2> QED BY <1>0, <1>3, <2>1, <2>3 DEF FlushBegins, ListShape
<1>4. ASSUME NEW r \in Llm, NEW b \in BOOLEAN, Item(r, b), flush' = Keep(r), UNCHANGED <<items, file, disk>>
      PROVE  ListShape'
  BY <1>0, <1>4, PassShrinks DEF ListShape
<1>5. ASSUME NEW r \in Llm, FlushAuthorizes(r) PROVE ListShape'
  <2>1. CASE flush' = Keep(r)
    BY <1>4, <1>5, <2>1 DEF FlushAuthorizes
  <2>2. CASE flush' = [flush EXCEPT !.asked = TRUE]
    BY <1>0, <1>5, <2>2 DEF FlushAuthorizes, ListShape, Pass
  <2> QED BY <1>5, <2>1, <2>2 DEF FlushAuthorizes
<1>6. ASSUME NEW r \in Llm, NEW billable, NEW cost,
             FlushSettles(r, billable, cost) \/ FlushFails(r, billable, cost)
      PROVE  ListShape'
  <2>1. flush' = Keep(r) /\ UNCHANGED <<items, file, disk>> /\ (Item(r, TRUE) \/ Item(r, FALSE))
    BY <1>6, DeferredRefused DEF FlushSettles, FlushFails
  <2> QED BY <1>4, <2>1
<1>7. CASE FlushEnds
  <2>1. /\ flush.remain \in Seq(Llm) /\ flush.rest = <<>>
        /\ Len(flush.rest) + Len(flush.remain) <= MaxItems
    BY <1>0, <1>7 DEF FlushEnds, ListShape, Pass
  <2>2. Len(flush.remain) <= MaxItems
    BY <2>1
  <2>3. /\ flush' \in [stage : {"idle", "running", "saving"}, rest : Seq(Llm),
                       remain : Seq(Llm), took : SUBSET Llm, asked : BOOLEAN]
        /\ Pass'
    <3>1. flush'.rest = <<>> /\ flush'.remain = <<>> /\ flush'.took = {}
      BY <1>7 DEF FlushEnds, Idle
    <3>2. Pass'
      BY <3>1, ManagerAssumption DEF Pass
    <3>3. flush' \in [stage : {"idle", "running", "saving"}, rest : Seq(Llm),
                      remain : Seq(Llm), took : SUBSET Llm, asked : BOOLEAN]
      BY <1>7, IdleShape DEF FlushEnds
    <3> QED BY <3>2, <3>3
  <2> QED BY <1>0, <1>7, <2>1, <2>2, <2>3 DEF FlushEnds, ListShape, Saving
<1>8. ASSUME NEW done \in BOOLEAN, Write(done) PROVE ListShape'
  <2>1. flush' = flush \/ flush' = Idle
    BY <1>8 DEF Write
  <2>2. Pass' /\ flush' \in [stage : {"idle", "running", "saving"}, rest : Seq(Llm),
                             remain : Seq(Llm), took : SUBSET Llm, asked : BOOLEAN]
    <3>1. CASE flush' = flush
      BY <1>0, <3>1 DEF ListShape, Pass
    <3>2. CASE flush' = Idle
      BY <3>2, IdleShape, ManagerAssumption DEF Pass
    <3> QED BY <2>1, <3>1, <3>2
  <2> QED BY <1>0, <1>8, <2>2 DEF Write, ListShape
<1>9. CASE Crash
  <2>1. Pass' /\ flush' \in [stage : {"idle", "running", "saving"}, rest : Seq(Llm),
                             remain : Seq(Llm), took : SUBSET Llm, asked : BOOLEAN]
    BY <1>9, IdleShape, ManagerAssumption DEF Crash, Pass
  <2>2. items' \in Seq(Llm) /\ Len(items') <= MaxItems
    BY <1>9, ManagerAssumption DEF Crash
  <2> QED BY <1>0, <1>9, <2>1, <2>2 DEF Crash, ListShape
<1>10. CASE Start
  BY <1>0, <1>10 DEF Start, ListShape, Pass
<1> QED BY <1>1, <1>2, <1>3, <1>5, <1>6, <1>7, <1>8, <1>9, <1>10
        DEF Next, vars, local, Ask, Authorized, Unavailable, Unsettled, Settled, MemoExpires, GraceEnds

LEMMA DownStep == ASSUME ManagerInv, [Next]_vars PROVE (~up => Down)'
<1> SUFFICES ASSUME ~up' PROVE Down'
  OBVIOUS
<1>1. CASE Crash
  BY <1>1, InvShape DEF Crash, Down, Shape
<1>2. CASE ~Crash
  <2>1. ~up
    BY <1>2, ZenonT(60) DEF Next, vars, local, Ask, Authorized, Unavailable,
       Finalize, Unsettled, Settled, FlushAuthorizes, FlushSettles, FlushFails, FlushBegins,
       FlushEnds, Write, MemoExpires, GraceEnds, Start
  <2>2. Down /\ flush.stage = "idle" /\ memo.fresh = FALSE
    BY <2>1 DEF ManagerInv, Down, Idle, NoMemo
  <2> QED BY <1>2, <2>1, <2>2, ZenonT(60) DEF Down, Next, vars, local, Ask, Authorized, Unavailable,
       Finalize, Unsettled, Settled, FlushAuthorizes, FlushSettles, FlushFails, Item, FlushBegins,
       FlushEnds, Write, MemoExpires, GraceEnds, Start
<1> QED BY <1>1, <1>2

\* What was let in once stays so: no grant is taken back, no mode is rewritten,
\* and what a request knew when it asked does not change.
LEMMA StaysTrue ==
  ASSUME ManagerInv, [Next]_vars
  PROVE  /\ \A k \in Known : TrueTo(k) => TrueTo(k)'
         /\ \A q \in Llm : \A kind : Backed(kind, q) => Backed(kind, q)'
<1>1. /\ Shape
      /\ \A r \in Llm : Good(r) => Good(r)' /\ (r \in hard <=> r \in hard')
  BY InvShape, StepOfStore, StoreStepKeeps DEF ManagerInv
<1>2. graced \subseteq graced'
  BY <1>1, ZenonT(60) DEF Next, vars, local, Ask, Authorized, Unavailable, Finalize, Unsettled,
     Settled, FlushAuthorizes, FlushSettles, FlushFails, FlushBegins, FlushEnds, Write,
     MemoExpires, GraceEnds, Crash, Start
<1>3. \A q \in Llm : pc[q] # "new" => known'[q] = known[q] /\ pc'[q] # "new"
  <2>1. ASSUME NEW r \in Llm, NEW s \in {"refused", "ending", "answered", "lost", "deferred", "asking", "serving"},
               At(r, s)
        PROVE  \A q \in Llm : pc[q] # "new" => pc'[q] # "new"
    BY <1>1, <2>1 DEF At, Shape
  <2>2. ASSUME NEW r \in Llm, Ask(r) PROVE \A q \in Llm : pc[q] # "new" => known'[q] = known[q] /\ pc'[q] # "new"
    <3>1. pc[r] = "new" /\ (At(r, "serving") \/ At(r, "asking"))
      BY <2>2 DEF Ask
    <3>2. \A q \in Llm \ {r} : known'[q] = known[q]
      BY <1>1, <2>2 DEF Ask, Shape
    <3> QED BY <2>1, <3>1, <3>2
  <2>3. ASSUME NEW r \in Llm, Authorized(r) \/ Unavailable(r)
        PROVE  known' = known /\ (At(r, "serving") \/ At(r, "refused"))
    BY <2>3 DEF Authorized, Unavailable, Admit
  <2>4. ASSUME NEW r \in Llm, NEW billable, NEW cost,
               Finalize(r) \/ Unsettled(r) \/ Settled(r, billable, cost)
        PROVE  known' = known /\ (At(r, "deferred") \/ At(r, "ending") \/ At(r, "answered") \/ At(r, "lost"))
    BY <2>4 DEF Finalize, Unsettled, Settled
  <2>5. CASE Crash
    BY <1>1, <2>5 DEF Crash, Shape
  <2>6. CASE UNCHANGED <<pc, known>>
    BY <2>6
  <2> QED BY <2>1, <2>2, <2>3, <2>4, <2>5, <2>6
          DEF Next, vars, local, FlushAuthorizes, FlushSettles, FlushFails, FlushBegins,
              FlushEnds, Write, MemoExpires, GraceEnds, Start
<1>4. ASSUME NEW k \in Known, TrueTo(k) PROVE TrueTo(k)'
  BY <1>1, <1>2, <1>4 DEF TrueTo
<1>5. ASSUME NEW q \in Llm, NEW kind, Backed(kind, q) PROVE Backed(kind, q)'
  <2>1. pc'[q] # "new" /\ known'[q] = known[q]
    BY <1>3, <1>5 DEF Backed
  <2>2. Good(q) => Good(q)'
    BY <1>1
  <2>3. Permitted(q) => Permitted(q)'
    <3>1. known[q].told \in Llm /\ status[known[q].told] \notin {"none", "denied"}
            /\ known[q].told \notin hard
            => status'[known[q].told] \notin {"none", "denied"} /\ known[q].told \notin hard'
      BY <1>1 DEF Good
    <3> QED BY <1>2, <2>1, <3>1 DEF Permitted
  <2>4. Assumed(q) => Assumed(q)'
    BY <1>2, <2>1 DEF Assumed
  <2> QED BY <1>5, <2>1, <2>2, <2>3, <2>4 DEF Backed
<1> QED BY <1>4, <1>5

\* Who is let in, and what is remembered, after a step.
LEMMA GrantStep == ASSUME ManagerInv, [Next]_vars PROVE Grants'
<1>1. /\ Shape /\ Grants
      /\ memo.known \in Known /\ \A r \in Llm : known[r] \in Known /\ auth[r].by \in Llm
      /\ memo # NoMemo => memo.by \in Llm
      /\ memo.fresh => memo # NoMemo
  BY InvShape DEF ManagerInv, Shape, NoMemo, Known
<1>0. /\ \A k \in Known : TrueTo(k) => TrueTo(k)'
      /\ \A q \in Llm : \A kind : Backed(kind, q) => Backed(kind, q)'
      /\ TrueTo(memo.known) /\ \A r \in Llm : TrueTo(known[r])
  BY StaysTrue, <1>1 DEF Grants
<1>20. ASSUME \A r \in Llm : known'[r] = known[r] \/ known'[r] = memo.known
       PROVE  \A r \in Llm : TrueTo(known[r])'
  <2>1. ASSUME NEW r \in Llm PROVE TrueTo(known[r])'
    <3>1. TrueTo(known[r]) /\ TrueTo(memo.known) /\ known[r] \in Known /\ memo.known \in Known
      BY <1>0, <1>1
    <3>2. /\ \A k \in Known : TrueTo(k) => TrueTo(k)'
          /\ known'[r] = known[r] \/ known'[r] = memo.known
      BY <1>0, <1>20
    <3>3. ASSUME NEW k \in Known, known'[r] = k, TrueTo(k)' PROVE TrueTo(known[r])'
      BY <3>3 DEF TrueTo
    <3> QED BY <3>1, <3>2, <3>3
  <2> QED BY <2>1
<1>21. ASSUME memo' = memo \/ memo' = NoMemo \/ memo' = [memo EXCEPT !.fresh = FALSE]
       PROVE  (memo # NoMemo => Backed(memo.kind, memo.by))' /\ TrueTo(memo.known)'
  <2>1. CASE memo' = NoMemo
    BY <2>1, ManagerAssumption DEF NoMemo, TrueTo, Untold
  <2>2. CASE memo' # NoMemo
    <3>1. /\ memo # NoMemo
          /\ memo'.kind = memo.kind /\ memo'.by = memo.by /\ memo'.known = memo.known
      BY <1>1, <1>21, <2>2 DEF Shape, NoMemo
    <3>2. Backed(memo.kind, memo.by) /\ TrueTo(memo.known)
      BY <1>1, <3>1 DEF Grants
    <3>3. ASSUME NEW k \in Known, NEW q \in Llm, NEW kind, TrueTo(k), Backed(kind, q)
          PROVE  TrueTo(k)' /\ Backed(kind, q)'
      BY <1>0, <3>3
    <3>4. ASSUME NEW k, NEW q, NEW kind, TrueTo(k)', Backed(kind, q)',
                 memo'.kind = kind, memo'.by = q, memo'.known = k
          PROVE  Backed(memo.kind, memo.by)' /\ TrueTo(memo.known)'
      BY <3>4 DEF Backed, TrueTo
    <3> QED BY <1>1, <3>1, <3>2, <3>3, <3>4
  <2> QED BY <2>1, <2>2
<1>22. ASSUME NEW r \in Llm, Served(r), auth'[r] = auth[r]
       PROVE  Backed(auth[r].kind, auth[r].by)'
  <2>1. Backed(auth[r].kind, auth[r].by) /\ auth[r].by \in Llm
    BY <1>1, <1>22 DEF Grants
  <2>2. ASSUME NEW q \in Llm, NEW kind, Backed(kind, q)', auth'[r].kind = kind, auth'[r].by = q
        PROVE  Backed(auth[r].kind, auth[r].by)'
    BY <2>2 DEF Backed
  <2> QED BY <1>0, <1>22, <2>1, <2>2
<1>2. CASE /\ UNCHANGED <<auth, known>>
           /\ memo' = memo \/ memo' = NoMemo \/ memo' = [memo EXCEPT !.fresh = FALSE]
           /\ \A r \in Llm : Served(r)' => Served(r)
  BY <1>2, <1>20, <1>21, <1>22 DEF Grants
<1>3. ASSUME NEW r \in Llm, Ask(r) PROVE Grants'
  <2>1. memo' = memo /\ \A q \in Llm : known'[q] = known[q] \/ known'[q] = memo.known
    BY <1>1, <1>3 DEF Ask, Shape
  <2>2. \A q \in Llm \ {r} : auth'[q] = auth[q] /\ pc'[q] = pc[q]
    BY <1>1, <1>3 DEF Ask, At, Shape
  <2>3. ASSUME Served(r)' PROVE Backed(auth[r].kind, auth[r].by)'
    <3>1. memo.fresh
      BY <1>1, <1>3, <2>3 DEF Ask, At, Shape, Served
    <3>2. auth'[r].kind = memo.kind /\ auth'[r].by = memo.by /\ memo # NoMemo
      BY <1>1, <1>3, <3>1 DEF Ask, Shape
    <3>3. (memo # NoMemo => Backed(memo.kind, memo.by))' /\ memo' = memo
      BY <1>21, <2>1
    <3> QED BY <3>2, <3>3 DEF Backed
  <2>4. ASSUME NEW q \in Llm, q # r, Served(q)' PROVE Backed(auth[q].kind, auth[q].by)'
    <3>1. Served(q)
      BY <2>2, <2>4 DEF Served
    <3> QED BY <1>22, <2>2, <2>4, <3>1
  <2> QED BY <1>20, <1>21, <2>1, <2>3, <2>4 DEF Grants
<1>4. ASSUME NEW r \in Llm, NEW k \in {"granted", "deferred"}, NEW m \in Known, Admit(r, k, m),
             known' = known, Backed(k, r)', TrueTo(m)'
      PROVE  Grants'
  <2>1. /\ auth'[r] = [kind |-> k, by |-> r] /\ memo'.kind = k /\ memo'.by = r /\ memo'.known = m
        /\ \A q \in Llm \ {r} : auth'[q] = auth[q] /\ pc'[q] = pc[q]
    BY <1>1, <1>4 DEF Admit, At, Shape
  <2>2. Backed(memo.kind, memo.by)' /\ TrueTo(memo.known)' /\ Backed(auth[r].kind, auth[r].by)'
    BY <1>4, <2>1 DEF Backed, TrueTo
  <2>3. ASSUME NEW q \in Llm, q # r, Served(q)' PROVE Backed(auth[q].kind, auth[q].by)'
    <3>1. Served(q)
      BY <2>1, <2>3 DEF Served
    <3> QED BY <1>22, <2>1, <2>3, <3>1
  <2> QED BY <1>4, <1>20, <2>2, <2>3 DEF Grants
<1>5. ASSUME NEW r \in Llm, At(r, "refused"), UNCHANGED <<auth, known, memo>> PROVE Grants'
  <2>1. pc'[r] = "refused" /\ \A q \in Llm \ {r} : pc'[q] = pc[q]
    BY <1>1, <1>5 DEF At, Shape
  <2> QED BY <1>2, <1>5, <2>1 DEF Served
<1>6. ASSUME NEW r \in Llm, Authorized(r) PROVE Grants'
  <2>1. CASE Granted(r) /\ Admit(r, "granted", Told(r, hard'))
    <3>1. r \in Requests /\ (status[r] = "none" => status'[r] # "none")
      BY <1>6 DEF Requests, Authorized, Authorize, Swept
    <3>2. status[r] # "none" => Swept[r] # "none" /\ status'[r] = Swept[r]
      BY <1>6, <3>1 DEF Authorized, Authorize, Swept
    <3>3. Good(r)'
      BY <2>1, <3>1, <3>2 DEF Good, Granted
    <3>4. pc'[r] = "serving"
      BY <1>1, <2>1 DEF Admit, At, Shape
    <3>5. Backed("granted", r)'
      BY <3>3, <3>4 DEF Backed
    <3>6. PICK m \in Known : m = Told(r, hard')
      BY DEF Told, Known
    <3>7. TrueTo(m)'
      BY <3>3, <3>6, ManagerAssumption DEF TrueTo, Told, Untold
    <3>8. known' = known /\ Admit(r, "granted", m)
      BY <1>6, <2>1, <3>6 DEF Authorized
    <3> QED BY <1>4, <3>5, <3>7, <3>8
  <2>2. CASE At(r, "refused") /\ UNCHANGED <<auth, memo>>
    BY <1>5, <1>6, <2>2 DEF Authorized
  <2> QED BY <1>6, <2>1, <2>2 DEF Authorized
<1>7. ASSUME NEW r \in Llm, Unavailable(r) PROVE Grants'
  <2>1. CASE MayDefer(r)
    <3>0. /\ TrueTo(known[r]) /\ known[r] \in Known
          /\ \A k \in Known : TrueTo(k) => TrueTo(k)'
      BY <1>0, <1>1
    <3>2. PICK m \in Known : m = IF known[r].mode = "none" THEN Untold("shadow") ELSE known[r]
      BY <3>0 DEF Known
    <3>1. /\ Admit(r, "deferred", m) /\ known' = known
          /\ graced' = IF cold THEN graced \cup {r} ELSE graced
      BY <1>7, <2>1, <3>2 DEF Unavailable
    <3>3. pc'[r] = "serving"
      BY <1>1, <3>1 DEF Admit, At, Shape
    <3>4. CASE cold
      <4>1. r \in graced'
        BY <3>1, <3>4
      <4>2. Backed("deferred", r)'
        BY <3>3, <4>1 DEF Backed, Permitted
      <4>3. TrueTo(m)'
        <5>1. CASE known[r].mode = "none"
          BY <3>2, <4>1, <5>1, ManagerAssumption DEF TrueTo, Untold
        <5>2. CASE known[r].mode # "none"
          BY <3>0, <3>2, <5>2
        <5> QED BY <5>1, <5>2
      <4> QED BY <1>4, <3>1, <4>2, <4>3
    <3>5. CASE ~cold
      <4>1. known[r].mode = "shadow" /\ m = known[r]
        BY <2>1, <3>2, <3>5 DEF MayDefer
      <4>2. TrueTo(m)' /\ known'[r] = m
        BY <3>0, <3>1, <4>1
      <4>3. Permitted(r)' \/ Assumed(r)'
        <5>1. CASE known[r].told \in Llm
          BY <4>1, <4>2, <5>1, ManagerAssumption DEF TrueTo, Good, Permitted
        <5>2. CASE known[r].told \notin Llm
          <6>1. known[r] = Untold("shadow")
            BY <3>0, <4>1, <5>2 DEF Known, Untold
          <6> QED BY <4>1, <4>2, <6>1 DEF TrueTo, Assumed
        <5> QED BY <5>1, <5>2
      <4>4. Backed("deferred", r)'
        BY <3>3, <4>3 DEF Backed
      <4> QED BY <1>4, <3>1, <4>2, <4>4
    <3> QED BY <3>4, <3>5
  <2>2. CASE ~MayDefer(r)
    BY <1>5, <1>7, <2>2 DEF Unavailable
  <2> QED BY <2>1, <2>2
<1>8. ASSUME NEW r \in Llm, NEW billable, NEW cost,
             Finalize(r) \/ Unsettled(r) \/ Settled(r, billable, cost)
      PROVE  Grants'
  <2>1. Served(r) /\ UNCHANGED <<auth, known, memo>> /\ \A q \in Llm \ {r} : pc'[q] = pc[q]
    BY <1>1, <1>8 DEF Finalize, Unsettled, Settled, At, Served, Shape
  <2> QED BY <1>2, <2>1 DEF Served
<1>9. CASE Crash
  <2>1. \A r \in Llm : Served(r)' => Served(r)
    BY <1>1, <1>9 DEF Crash, Served, Shape
  <2> QED BY <1>2, <1>9, <2>1 DEF Crash
<1>10. CASE MemoExpires
  BY <1>2, <1>10 DEF MemoExpires, Served
<1>11. CASE UNCHANGED <<pc, auth, known, memo>>
  BY <1>2, <1>11 DEF Served
<1> QED BY <1>3, <1>6, <1>7, <1>8, <1>9, <1>10, <1>11
        DEF Next, vars, local, FlushAuthorizes, FlushSettles, FlushFails, FlushBegins,
            FlushEnds, Write, GraceEnds, Start

LEMMA ManagerStep == ASSUME ManagerInv, [Next]_vars PROVE ManagerInv'
<1>1. StoreStep /\ StoreInv' /\ recorded' = recorded
  BY StepOfStore, StoreStepIsNext, NextInv, StoreStepKeeps DEF ManagerInv
<1>2. Shape' /\ ListShape' /\ (~up => Down)' /\ Grants'
  BY ShapeStep, ListStep, DownStep, GrantStep
<1>3. TypeOK'
  BY <1>1, <1>2 DEF StoreInv, TypeOK, Shape, ListShape
<1> QED BY <1>1, <1>2, <1>3 DEF ManagerInv, ListShape

LEMMA ManagerInit == Init => ManagerInv
<1> SUFFICES ASSUME Init PROVE ManagerInv
  OBVIOUS
<1>1. StoreInv /\ recorded = {}
  BY InitInv DEF Init, StoreInit
<1>2. ListShape
  <2>1. <<>> \in Seq(Llm) /\ Len(<<>>) = 0
    OBVIOUS
  <2>2. Pass
    BY IdleShape, ManagerAssumption DEF Init, Pass
  <2> QED BY <2>1, <2>2, IdleShape, ManagerAssumption DEF Init, ListShape
<1>3. Shape
  BY DEF Init, Shape, Known
<1>4. Grants /\ up
  BY ManagerAssumption DEF Init, Grants, NoMemo, Served, TrueTo, Untold
<1> QED BY <1>1, <1>2, <1>3, <1>4 DEF ManagerInv, StoreInv, TypeOK, Shape, ListShape

LEMMA ManagerInvariant == Spec => []ManagerInv
  BY ManagerInit, ManagerStep, PTL DEF Spec

-----------------------------------------------------------------------------

\* Managers do to the store only what its API allows, so the wallet covers
\* every reservation whatever is lost (Solvent).
THEOREM ManagersKeepTheStore == Spec => StoreSpec /\ []Solvent
<1>1. Init => StoreInit
  BY DEF Init
<1>2. ManagerInv /\ [Next]_vars => [StoreNext]_store
  BY StepOfStore, StoreStepIsNext DEF ManagerInv
<1>3. Spec => StoreSpec
  BY <1>1, <1>2, ManagerInvariant, PTL DEF Spec, StoreSpec
<1> QED BY <1>3, WalletCovers, PTL

\* No request of a manager is ever booked: each of its settlements has a field
\* that the store refuses (createOpenAiUsageFinalizer, normalizeSettlementInput).
THEOREM NothingIsBooked == Spec => [](recorded = {})
<1>1. ManagerInv => recorded = {}
  BY DEF ManagerInv
<1> QED BY <1>1, ManagerInvariant, PTL

\* The types, and the list of at most maxItems items (enqueue).
THEOREM ManagerTypes == Spec => []TypeOK
<1>1. ManagerInv => TypeOK
  BY DEF ManagerInv
<1> QED BY <1>1, ManagerInvariant, PTL

\* What a manager serves was granted or deferred, however answers are
\* remembered, lost or late (handleCompletionProxy, authorizeMemo).
THEOREM OnlyGrantedIsServed == Spec => []ServedIsGranted
<1>1. ManagerInv => ServedIsGranted
  BY DEF ManagerInv, Grants, Backed, ServedIsGranted, Good
<1> QED BY <1>1, ManagerInvariant, PTL

\* Once the last save has been written, the file is the list (save).
THEOREM FileKeepsTheList == Spec => []FileIsTheList
<1> DEFINE Inv == /\ up /\ disk = "saved" => file = items
                  /\ ~up => disk = "saved"
<1>1. Init => Inv
  BY DEF Init
<1>2. ManagerInv /\ Inv /\ [Next]_vars => Inv'
  <2> SUFFICES ASSUME ManagerInv, Inv, [Next]_vars PROVE Inv'
    OBVIOUS
  <2>1. ASSUME NEW r \in Llm, Finalize(r) PROVE Inv'
    <3>1. up
      BY <2>1 DEF Finalize, ManagerInv, Down
    <3> QED BY <2>1, <3>1 DEF Finalize
  <2>2. CASE FlushEnds
    <3>1. up
      BY <2>2 DEF FlushEnds, ManagerInv, Down, Idle
    <3> QED BY <2>2, <3>1 DEF FlushEnds, Saving
  <2>3. ASSUME NEW done \in BOOLEAN, Write(done) PROVE Inv'
    BY <2>3 DEF Write
  <2>4. CASE Crash \/ Start
    BY <2>4 DEF Crash, Start
  <2>5. CASE UNCHANGED <<up, items, file, disk>>
    BY <2>5
  <2> QED BY <2>1, <2>2, <2>3, <2>4, <2>5
          DEF Next, vars, local, Ask, Authorized, Unavailable, Unsettled, Settled, FlushAuthorizes,
              FlushSettles, FlushFails, FlushBegins, MemoExpires, GraceEnds
<1>3. Inv => FileIsTheList
  BY DEF FileIsTheList
<1> HIDE DEF Inv
<1> QED BY <1>1, <1>2, <1>3, ManagerInvariant, PTL DEF Spec

\* What was deferred stays on the list, except where the code drops it.
THEOREM DeferredIsKept == Spec => PendingKept
<1> DEFINE Leaves(r) ==
      \/ r \in recorded'
      \/ Len(items) = MaxItems /\ \E q \in Llm : pc[q] = "serving" /\ pc'[q] = "deferred"
      \/ flush.stage = "running" /\ r \notin flush.took
    Step == up' => \A r \in Range(items) \ Range(items') : Leaves(r)
<1>1. ManagerInv /\ [Next]_vars => Step \/ UNCHANGED vars
  <2> SUFFICES ASSUME ManagerInv, [Next]_vars PROVE Step \/ UNCHANGED vars
    OBVIOUS
  <2>0. ListShape /\ Shape /\ Pass
    BY InvShape DEF ManagerInv
  <2>1. ASSUME NEW r \in Llm, Finalize(r) PROVE Step
    <3>1. CASE items' = items
      BY <3>1
    <3>2. CASE items' = Latest(Append(items, r)) /\ At(r, "deferred")
      <4>1. pc[r] = "serving" /\ pc'[r] = "deferred"
        BY <2>0, <2>1, <3>2 DEF Finalize, At, Shape
      <4>2. CASE Len(items) = MaxItems
        BY <4>1, <4>2
      <4>3. CASE Len(items) # MaxItems
        <5>1. /\ Len(Append(items, r)) = Len(items) + 1 /\ Len(items) \in Nat
              /\ Range(items) \subseteq Range(Append(items, r))
          BY <2>0, AppendFact DEF ListShape
        <5>2. Len(items) <= MaxItems
          BY <2>0 DEF ListShape
        <5>3. Latest(Append(items, r)) = Append(items, r)
          BY <4>3, <5>1, <5>2, ManagerAssumption DEF Latest
        <5> QED BY <3>2, <5>1, <5>3
      <4> QED BY <4>2, <4>3
    <3> QED BY <2>1, <3>1, <3>2 DEF Finalize
  <2>2. CASE FlushEnds
    <3>1. flush.stage = "running" /\ flush.rest = <<>> /\ items' = flush.remain
      BY <2>2 DEF FlushEnds
    <3>2. Range(<<>>) = {}
      BY DEF Range
    <3>3. flush.took \subseteq Range(items')
      BY <2>0, <3>1, <3>2 DEF Pass
    <3> QED BY <3>1, <3>3
  <2>3. CASE Crash
    BY <2>3 DEF Crash
  <2>4. CASE Start
    <3>1. items = <<>>
      BY <2>4 DEF Start, ManagerInv, Down
    <3>2. Range(items) = {}
      BY <3>1 DEF Range
    <3> QED BY <3>2
  <2>5. CASE UNCHANGED items
    BY <2>5
  <2> QED BY <2>1, <2>2, <2>3, <2>4, <2>5, ZenonT(60)
          DEF Next, vars, local, Ask, Authorized, Unavailable, Unsettled, Settled, FlushAuthorizes,
              FlushSettles, FlushFails, FlushBegins, MemoExpires, GraceEnds, Write
<1> QED BY <1>1, ManagerInvariant, PTL DEF Spec, PendingKept
=============================================================================
