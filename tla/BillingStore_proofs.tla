------------------------- MODULE BillingStore_proofs -------------------------
(***************************************************************************)
(* The wallet covers the reservations (Solvent), the quota holds           *)
(* (QuotaHolds) and the store implements Wallet, for any requests, limits, *)
(* costs and amounts.  The invariant adds to the types that a request with *)
(* a usage event was authorized once, so that its id is never reserved     *)
(* again.                                                                  *)
(***************************************************************************)
EXTENDS BillingStore, FiniteSetTheorems, TLAPS

\* What is booked was authorized, and what counts was booked.
BookedOnce ==
  counted \subseteq recorded /\ \A r \in recorded \cup hard : status[r] # "none"

StoreInv == StoreTypeOK /\ BookedOnce

Quota == (((counted \cup Held) \cap Llm) \cap hard) \ late

-----------------------------------------------------------------------------
(* Types *)

LEMMA LeastFact ==
  ASSUME NEW a \in Int, NEW b \in Int
  PROVE  Least(a, b) \in Int /\ Least(a, b) <= a /\ Least(a, b) <= b
  BY DEF Least

\* The reservations that count are finitely many.
LEMMA HeldFinite == StoreTypeOK => IsFiniteSet(Held) /\ Cardinality(Held) \in Nat
<1> SUFFICES ASSUME StoreTypeOK PROVE IsFiniteSet(Held) /\ Cardinality(Held) \in Nat
  OBVIOUS
<1>1. Held \subseteq Requests
  BY DEF Held, StoreTypeOK
<1> QED BY <1>1, FS_Subset, FS_CardinalityType, StoreAssumption

LEMMA CapFact ==
  ASSUME StoreTypeOK, NEW r \in Requests
  PROVE  /\ Cap(r) \in Nat
         /\ Cap(r) = 0 \/ Cap(r) <= balance - Cardinality(Held) + (IF r \in Held THEN 1 ELSE 0)
  BY HeldFinite DEF Cap, Available, StoreTypeOK

\* The charge of a speech request.
LEMMA SpeechCharge ==
  ASSUME StoreTypeOK, NEW r \in Requests, NEW ok \in BOOLEAN, NEW cost \in 0..MaxCost,
         NEW c, c = IF ok /\ r \in hard THEN Least(cost, Cap(r)) ELSE 0
  PROVE  c \in 0..MaxCost /\ c <= Cap(r)
<1>1. Cap(r) \in Nat
  BY CapFact
<1>2. cost \in Nat /\ MaxCost \in Nat /\ cost <= MaxCost
  BY StoreAssumption
<1> QED BY <1>1, <1>2 DEF Least

\* Writing a usage event.
LEMMA BookType ==
  ASSUME StoreInv, NEW r \in Llm, NEW billable \in BOOLEAN, NEW cost \in 0..MaxCost,
         status[r] # "none", Book(r, billable, cost)
  PROVE  StoreInv'
<1> DEFINE c == IF billable /\ r \in hard THEN cost ELSE 0
<1>1. r \in Requests /\ c \in 0..MaxCost /\ c \in Nat /\ Beyond(r, c) \in Nat
  BY StoreAssumption DEF Requests, Beyond
<1>2. /\ balance' = balance - c /\ overrun' = overrun + Beyond(r, c)
      /\ charge' = [charge EXCEPT ![r] = c]
  BY DEF Book
<1>3. balance' \in Int /\ overrun' \in Nat /\ charge' \in [Requests -> 0..MaxCost]
  <2> HIDE DEF c
  <2> QED BY <1>1, <1>2 DEF StoreInv, StoreTypeOK
<1>4. StoreTypeOK'
  BY <1>1, <1>3 DEF StoreInv, StoreTypeOK, Book, Status
<1>5. BookedOnce'
  BY <1>1 DEF StoreInv, StoreTypeOK, BookedOnce, Book
<1> QED BY <1>4, <1>5 DEF StoreInv

LEMMA RecordType ==
  ASSUME StoreInv, NEW r \in Tts, NEW ok \in BOOLEAN, NEW cost \in 0..MaxCost,
         TtsRecord(r, ok, cost)
  PROVE  StoreInv'
<1> DEFINE c == IF ok /\ r \in hard THEN Least(cost, Cap(r)) ELSE 0
<1>1. r \in Requests
  BY DEF Requests
<1>2. c \in 0..MaxCost /\ c \in Int
  BY <1>1, SpeechCharge, StoreAssumption DEF StoreInv
<1>3. CASE r \in recorded
  BY <1>3 DEF TtsRecord, store, StoreInv, StoreTypeOK, BookedOnce
<1>4. CASE r \notin recorded
  <2>1. balance' = balance - c /\ charge' = [charge EXCEPT ![r] = c]
    BY <1>4 DEF TtsRecord
  <2>2. balance' \in Int /\ charge' \in [Requests -> 0..MaxCost]
    <3> HIDE DEF c
    <3> QED BY <1>1, <1>2, <2>1 DEF StoreInv, StoreTypeOK
  <2>3. StoreTypeOK'
    BY <1>1, <1>4, <2>2 DEF StoreInv, StoreTypeOK, TtsRecord, Status
  <2>4. BookedOnce'
    BY <1>1, <1>4 DEF StoreInv, StoreTypeOK, BookedOnce, TtsRecord
  <2> QED BY <2>3, <2>4 DEF StoreInv
<1> QED BY <1>3, <1>4

LEMMA InitInv == StoreInit => StoreInv
  BY StoreAssumption DEF StoreInit, StoreInv, StoreTypeOK, BookedOnce, Status

LEMMA AuthorizeInv ==
  ASSUME StoreInv, NEW r \in Llm, Authorize(r)
  PROVE  StoreInv'
<1>1. r \in Requests
  BY DEF Requests
<1>2. status' \in [Requests -> Status] /\ hard' \subseteq Requests
  BY <1>1 DEF StoreInv, StoreTypeOK, Authorize, Swept, InMode, Status
<1>3. \A q \in Requests : status[q] # "none" => status'[q] # "none"
  BY <1>1 DEF StoreInv, StoreTypeOK, Authorize, Swept
<1>4. status'[r] # "none" /\ hard' \subseteq hard \cup {r}
  BY <1>1 DEF StoreInv, StoreTypeOK, InMode, Authorize, Swept
<1> QED BY <1>2, <1>3, <1>4 DEF StoreInv, StoreTypeOK, BookedOnce, Authorize

LEMMA TtsAuthorizeInv ==
  ASSUME StoreInv, NEW r \in Tts, NEW dailyOk \in BOOLEAN, TtsAuthorize(r, dailyOk)
  PROVE  StoreInv'
<1>1. r \in Requests
  BY DEF Requests
<1>2. status' \in [Requests -> Status] /\ hard' \subseteq Requests
  BY <1>1 DEF StoreInv, StoreTypeOK, TtsAuthorize, InMode, Status
<1>3. \A q \in Requests : status[q] # "none" => status'[q] # "none"
  BY <1>1 DEF StoreInv, StoreTypeOK, TtsAuthorize
<1>4. status'[r] # "none" /\ hard' \subseteq hard \cup {r}
  BY <1>1 DEF StoreInv, StoreTypeOK, InMode, TtsAuthorize
<1> QED BY <1>2, <1>3, <1>4 DEF StoreInv, StoreTypeOK, BookedOnce, TtsAuthorize

LEMMA SettleInv ==
  ASSUME StoreInv, NEW r \in Llm, NEW keys, NEW billable \in BOOLEAN, NEW cost \in 0..MaxCost,
         Settle(r, keys, billable, cost)
  PROVE  StoreInv'
<1>1. CASE UNCHANGED store
  BY <1>1 DEF store, StoreInv, StoreTypeOK, BookedOnce
<1>2. CASE status[r] # "none" /\ Book(r, billable, cost)
  BY <1>2, BookType
<1> QED BY <1>1, <1>2 DEF Settle

LEMMA AdministerInv == ASSUME StoreInv, Administer PROVE StoreInv'
<1>1. CASE SetPolicy
  BY <1>1, StoreAssumption DEF SetPolicy, StoreInv, StoreTypeOK, BookedOnce
<1>2. ASSUME NEW k \in Entries, Adjust(k) PROVE StoreInv'
  <2>1. Delta[k] \in Int
    BY StoreAssumption
  <2> QED BY <1>2, <2>1 DEF Adjust, StoreInv, StoreTypeOK, BookedOnce
<1> QED BY <1>1, <1>2 DEF Administer

LEMMA LapseInv == ASSUME StoreInv, NEW r \in Llm, Lapse(r) PROVE StoreInv'
  BY DEF Lapse, StoreInv, StoreTypeOK, BookedOnce

LEMMA NextInv == ASSUME StoreInv, [StoreNext]_store PROVE StoreInv'
<1>1. CASE UNCHANGED store
  BY <1>1 DEF store, StoreInv, StoreTypeOK, BookedOnce
<1>2. ASSUME NEW r \in Llm, LlmCall(r) PROVE StoreInv'
  BY <1>2, AuthorizeInv, SettleInv, LapseInv DEF LlmCall
<1>3. ASSUME NEW r \in Tts, TtsCall(r) PROVE StoreInv'
  BY <1>3, TtsAuthorizeInv, RecordType DEF TtsCall
<1> QED BY <1>1, <1>2, <1>3, AdministerInv DEF StoreNext, OtherCalls

\* Every state of the store is well typed, and a request with a usage event was
\* authorized before (settleRequest's 404, recordTtsUsage).
THEOREM StoreInvariant == StoreSpec => []StoreInv
<1>1. StoreInit => StoreInv
  BY InitInv
<1>2. StoreInv /\ [StoreNext]_store => StoreInv'
  BY NextInv
<1> QED BY <1>1, <1>2, PTL DEF StoreSpec

\* The types of the store's tables (billing-store.js, migrate).
THEOREM StoreTypes == StoreSpec => []StoreTypeOK
<1>1. StoreInv => StoreTypeOK
  BY DEF StoreInv
<1> QED BY <1>1, StoreInvariant, PTL

-----------------------------------------------------------------------------
(* What each operation does to the reservations that count *)

\* Sweeping releases only what does not count any more.
LEMMA SweptHolds ==
  ASSUME StoreInv, NEW q \in Requests
  PROVE  /\ Swept[q] = "pending" <=> status[q] = "pending"
         /\ Swept[q] = "authorized" <=> (status[q] = "authorized" /\ q \notin lapsed)
  BY DEF Swept

\* A new reservation counts only when it was made in hard mode, within the limits.
LEMMA AuthorizeHeld ==
  ASSUME StoreInv, NEW r \in Llm, Authorize(r)
  PROVE  \/ Held' = Held
         \/ /\ Held' = Held \cup {r} /\ r \notin Held
            /\ status[r] = "none" /\ active /\ WithinLimits /\ mode = "hard"
<1>1. r \in Requests /\ lapsed' = lapsed
  BY DEF Requests, Authorize
<1>2. CASE status[r] # "none"
  <2>1. status' = Swept /\ hard' = hard
    BY <1>2 DEF Authorize
  <2> QED BY <1>1, <2>1, SweptHolds DEF Held, Live, StoreInv, StoreTypeOK
<1>3. CASE status[r] = "none"
  <2> DEFINE s == IF active /\ (mode = "shadow" \/ WithinLimits) THEN "authorized" ELSE "denied"
  <2>1. status' = [Swept EXCEPT ![r] = s] /\ hard' = IF mode = "hard" THEN hard \cup {r} ELSE hard
    BY <1>3 DEF Authorize, InMode
  <2>2. r \notin Held /\ ~Live(r)
    BY <1>3 DEF Held, Live
  <2>3. status'[r] = s /\ \A q \in Requests \ {r} : status'[q] = Swept[q]
    <3> HIDE DEF s
    <3> QED BY <1>1, <2>1 DEF Swept
  <2>4. \A q \in Requests \ {r} : Live(q)' <=> Live(q)
    BY <1>1, <2>3, SweptHolds DEF Live
  <2>5. Held' \ {r} = Held
    BY <1>1, <2>1, <2>2, <2>4 DEF Held, StoreInv, StoreTypeOK
  <2>6. CASE r \in Held'
    <3>1. s = "authorized" /\ r \in hard'
      BY <2>3, <2>6 DEF Held, Live
    <3>2. mode = "hard"
      BY <1>3, <2>1, <3>1 DEF StoreInv, BookedOnce
    <3>3. active /\ WithinLimits
      BY <3>1, <3>2
    <3> QED BY <2>2, <2>5, <2>6, <1>3, <3>2, <3>3
  <2>7. CASE r \notin Held'
    BY <2>5, <2>7
  <2> QED BY <2>6, <2>7
<1> QED BY <1>2, <1>3

LEMMA TtsAuthorizeHeld ==
  ASSUME StoreInv, NEW r \in Tts, NEW dailyOk \in BOOLEAN, TtsAuthorize(r, dailyOk)
  PROVE  \/ Held' = Held
         \/ /\ Held' = Held \cup {r} /\ r \notin Held
            /\ status[r] = "none" /\ Available >= 1
<1>1. r \in Requests /\ lapsed' = lapsed
  BY DEF Requests, TtsAuthorize
<1>2. CASE status[r] # "none"
  BY <1>1, <1>2 DEF TtsAuthorize, Held, Live
<1>3. CASE status[r] = "none"
  <2> DEFINE s == IF mode = "shadow" \/ (active /\ dailyOk /\ Available >= 1) THEN "pending" ELSE "denied"
  <2>1. status' = [status EXCEPT ![r] = s] /\ hard' = IF mode = "hard" THEN hard \cup {r} ELSE hard
    BY <1>3 DEF TtsAuthorize, InMode
  <2>2. r \notin Held /\ ~Live(r)
    BY <1>3 DEF Held, Live
  <2>3. status'[r] = s /\ \A q \in Requests \ {r} : status'[q] = status[q]
    <3> HIDE DEF s
    <3> QED BY <1>1, <2>1 DEF StoreInv, StoreTypeOK
  <2>4. \A q \in Requests \ {r} : Live(q)' <=> Live(q)
    BY <1>1, <2>3 DEF Live
  <2>5. Held' \ {r} = Held
    BY <1>1, <2>1, <2>2, <2>4 DEF Held, StoreInv, StoreTypeOK
  <2>6. CASE r \in Held'
    <3>1. s = "pending" /\ r \in hard'
      BY <2>3, <2>6 DEF Held, Live
    <3>2. mode = "hard"
      BY <1>3, <2>1, <3>1 DEF StoreInv, BookedOnce
    <3> QED BY <2>2, <2>5, <2>6, <1>3, <3>1, <3>2
  <2>7. CASE r \notin Held'
    BY <2>5, <2>7
  <2> QED BY <2>6, <2>7
<1> QED BY <1>2, <1>3

\* A usage event ends the reservation.
LEMMA BookHeld ==
  ASSUME StoreInv, NEW r \in Requests, hard' = hard, lapsed' = lapsed,
         NEW s \in {"settled", "released"}, status' = [status EXCEPT ![r] = s]
  PROVE  Held' = Held \ {r}
<1>1. status'[r] = s /\ \A q \in Requests \ {r} : status'[q] = status[q]
  BY DEF StoreInv, StoreTypeOK
<1> QED BY <1>1 DEF Held, Live, StoreInv, StoreTypeOK

LEMMA LapseHeld == ASSUME StoreInv, NEW r \in Llm, Lapse(r) PROVE Held' = Held \ {r}
<1>1. lapsed' = lapsed \cup {r} /\ status[r] = "authorized" /\ status' = status /\ hard' = hard
  BY DEF Lapse
<1> QED BY <1>1 DEF Held, Live

LEMMA OthersHeld ==
  ASSUME status' = status, hard' = hard, lapsed' = lapsed PROVE Held' = Held
  BY DEF Held, Live

-----------------------------------------------------------------------------
(* The wallet *)

\* One reservation more or less.
LEMMA HeldCount ==
  ASSUME StoreInv, NEW r \in Requests
  PROVE  /\ Cardinality(Held \cup {r}) <= Cardinality(Held) + 1
         /\ Cardinality(Held \ {r}) = Cardinality(Held) - (IF r \in Held THEN 1 ELSE 0)
<1>1. IsFiniteSet(Held) /\ Cardinality(Held) \in Nat
  BY HeldFinite DEF StoreInv
<1>2. Cardinality(Held \cup {r}) = IF r \in Held THEN Cardinality(Held) ELSE Cardinality(Held) + 1
  BY <1>1, FS_AddElement
<1>3. Cardinality(Held \ {r}) = IF r \in Held THEN Cardinality(Held) - 1 ELSE Cardinality(Held)
  BY <1>1, FS_RemoveElement
<1> QED BY <1>1, <1>2, <1>3

LEMMA BookSolvent ==
  ASSUME StoreInv, Solvent, NEW r \in Llm, NEW billable \in BOOLEAN, NEW cost \in 0..MaxCost,
         Book(r, billable, cost)
  PROVE  Solvent'
<1> DEFINE c == IF billable /\ r \in hard THEN cost ELSE 0
<1>1. r \in Requests /\ c \in Nat
  BY StoreAssumption DEF Requests
<1>2. balance' = balance - c /\ overrun' = overrun + Beyond(r, c)
  BY DEF Book
<1>3. Held' = Held \ {r}
  BY <1>1, BookHeld DEF Book
<1>4. Cardinality(Held') = Cardinality(Held) - (IF r \in Held THEN 1 ELSE 0)
  BY <1>1, <1>3, HeldCount
<1>5. balance \in Int /\ overrun \in Nat /\ Cardinality(Held) \in Nat
  BY HeldFinite DEF StoreInv, StoreTypeOK
<1> HIDE DEF c
<1> QED BY <1>1, <1>2, <1>4, <1>5 DEF Solvent, Beyond

LEMMA RecordSolvent ==
  ASSUME StoreInv, Solvent, NEW r \in Tts, NEW ok \in BOOLEAN, NEW cost \in 0..MaxCost,
         TtsRecord(r, ok, cost), r \notin recorded
  PROVE  Solvent'
<1> DEFINE c == IF ok /\ r \in hard THEN Least(cost, Cap(r)) ELSE 0
<1>1. r \in Requests
  BY DEF Requests
<1>2. c \in 0..MaxCost /\ c <= Cap(r)
  BY <1>1, SpeechCharge DEF StoreInv
<1>3. balance' = balance - c /\ overrun' = overrun
  BY DEF TtsRecord
<1>4. Held' = Held \ {r}
  BY <1>1, BookHeld DEF TtsRecord
<1>5. Cardinality(Held') = Cardinality(Held) - (IF r \in Held THEN 1 ELSE 0)
  BY <1>1, <1>4, HeldCount
<1>6. balance \in Int /\ overrun \in Nat /\ Cardinality(Held) \in Nat
  BY HeldFinite DEF StoreInv, StoreTypeOK
<1>7. /\ Cap(r) \in Nat
      /\ Cap(r) = 0 \/ Cap(r) <= balance - Cardinality(Held) + (IF r \in Held THEN 1 ELSE 0)
  BY <1>1, CapFact DEF StoreInv
<1>8. c \in Nat
  BY <1>2, StoreAssumption
<1> HIDE DEF c
<1> QED BY <1>2, <1>3, <1>5, <1>6, <1>7, <1>8 DEF Solvent

\* A new reservation needs free funds.
LEMMA ReserveSolvent ==
  ASSUME StoreInv, Solvent, NEW r \in Requests, UNCHANGED <<balance, overrun>>,
         \/ Held' = Held
         \/ Held' = Held \cup {r} /\ Available >= 1
  PROVE  Solvent'
<1>1. balance \in Int /\ overrun \in Nat /\ Cardinality(Held) \in Nat
  BY HeldFinite DEF StoreInv, StoreTypeOK
<1>2. CASE Held' = Held
  BY <1>2 DEF Solvent
<1>3. CASE Held' = Held \cup {r} /\ Available >= 1
  <2>1. Cardinality(Held') <= Cardinality(Held) + 1
    BY <1>3, HeldCount
  <2>2. Cardinality(Held') \in Nat
    BY <1>3, HeldFinite, FS_AddElement, <1>1 DEF StoreInv
  <2> QED BY <1>1, <1>3, <2>1, <2>2 DEF Solvent, Available
<1> QED BY <1>2, <1>3

LEMMA AdministerSolvent == ASSUME StoreInv, Solvent, Administer PROVE Solvent'
<1>1. balance \in Int /\ overrun \in Nat /\ Cardinality(Held) \in Nat
  BY HeldFinite DEF StoreInv, StoreTypeOK
<1>2. CASE SetPolicy
  BY <1>2, OthersHeld DEF SetPolicy, Solvent
<1>3. ASSUME NEW k \in Entries, Adjust(k) PROVE Solvent'
  <2>1. Delta[k] \in Int
    BY StoreAssumption
  <2>2. Held' = Held
    BY <1>3, OthersHeld DEF Adjust
  <2>3. balance' = balance + Delta[k] /\ overrun' = overrun + IF Delta[k] < 0 THEN -Delta[k] ELSE 0
    BY <1>3 DEF Adjust
  <2> QED BY <1>1, <2>1, <2>2, <2>3 DEF Solvent
<1> QED BY <1>2, <1>3 DEF Administer

LEMMA NextSolvent == ASSUME StoreInv, Solvent, [StoreNext]_store PROVE Solvent'
<1>1. CASE UNCHANGED store
  BY <1>1, OthersHeld DEF store, Solvent
<1>2. ASSUME NEW r \in Llm, Authorize(r) PROVE Solvent'
  <2>1. r \in Requests /\ UNCHANGED <<balance, overrun>>
    BY <1>2 DEF Requests, Authorize
  <2> QED BY <1>2, <2>1, AuthorizeHeld, ReserveSolvent DEF WithinLimits
<1>3. ASSUME NEW r \in Llm, Lapse(r) PROVE Solvent'
  <2>1. r \in Requests /\ Held' = Held \ {r} /\ UNCHANGED <<balance, overrun>>
    BY <1>3, LapseHeld DEF Requests, Lapse
  <2>2. /\ Cardinality(Held') = Cardinality(Held) - (IF r \in Held THEN 1 ELSE 0)
        /\ Cardinality(Held) \in Nat
    BY <2>1, HeldCount, HeldFinite DEF StoreInv
  <2> QED BY <2>1, <2>2 DEF Solvent, StoreInv, StoreTypeOK
<1>4. ASSUME NEW r \in Llm, NEW billable \in BOOLEAN, NEW cost \in 0..MaxCost,
             Settle(r, SettlementKeys, billable, cost)
      PROVE  Solvent'
  BY <1>1, <1>4, BookSolvent DEF Settle
<1>5. ASSUME NEW r \in Tts, NEW dailyOk \in BOOLEAN, TtsAuthorize(r, dailyOk) PROVE Solvent'
  <2>1. r \in Requests /\ UNCHANGED <<balance, overrun>>
    BY <1>5 DEF Requests, TtsAuthorize
  <2> QED BY <1>5, <2>1, TtsAuthorizeHeld, ReserveSolvent
<1>6. ASSUME NEW r \in Tts, NEW ok \in BOOLEAN, NEW cost \in 0..MaxCost, TtsRecord(r, ok, cost)
      PROVE  Solvent'
  <2>1. CASE r \in recorded
    BY <1>1, <1>6, <2>1 DEF TtsRecord
  <2> QED BY <1>6, <2>1, RecordSolvent
<1> QED BY <1>1, <1>2, <1>3, <1>4, <1>5, <1>6, AdministerSolvent
        DEF StoreNext, OtherCalls, LlmCall, TtsCall

LEMMA InitSolvent == StoreInit => Solvent
<1> SUFFICES ASSUME StoreInit PROVE Solvent
  OBVIOUS
<1>1. Held = {} /\ balance = 0 /\ overrun = 0
  BY DEF StoreInit, Held
<1> QED BY <1>1, FS_EmptySet DEF Solvent

\* The wallet covers every live reservation, whatever the prices and however
\* many requests there are (limitState, settleRequest, recordTtsUsage).
THEOREM WalletCovers == StoreSpec => []Solvent
<1>1. StoreInit => StoreInv /\ Solvent
  BY InitInv, InitSolvent
<1>2. StoreInv /\ Solvent /\ [StoreNext]_store => (StoreInv /\ Solvent)'
  BY NextInv, NextSolvent
<1> QED BY <1>1, <1>2, PTL DEF StoreSpec

-----------------------------------------------------------------------------
(* The quota *)

LEMMA QuotaShrinks ==
  ASSUME StoreInv, QuotaHolds, Quota' \subseteq Quota PROVE QuotaHolds'
<1>1. IsFiniteSet(Quota) /\ Quota \subseteq Requests
  <2>1. Quota \subseteq Requests
    BY DEF Quota, StoreInv, StoreTypeOK
  <2> QED BY <2>1, FS_Subset, StoreAssumption
<1>2. Cardinality(Quota') <= Cardinality(Quota) /\ Cardinality(Quota) \in Nat /\ Cardinality(Quota') \in Nat
  BY <1>1, FS_Subset, FS_CardinalityType
<1> QED BY <1>2, StoreAssumption DEF QuotaHolds, Quota

LEMMA AuthorizeQuota ==
  ASSUME StoreInv, QuotaHolds, NEW r \in Llm, Authorize(r) PROVE QuotaHolds'
<1>1. /\ counted' = counted /\ late' = late
      /\ r \in Requests
  BY DEF Authorize, Requests
<1>2. CASE Held' = Held
  <2>1. hard' \subseteq hard \cup {r}
    BY DEF Authorize, InMode
  <2>2. r \in counted => hard' = hard
    BY DEF Authorize, StoreInv, BookedOnce
  <2>3. r \in Held => r \in hard
    BY DEF Held
  <2>4. Quota' \subseteq Quota
    BY <1>1, <1>2, <2>1, <2>2, <2>3 DEF Quota
  <2> QED BY <2>4, QuotaShrinks
<1>3. CASE Held' = Held \cup {r} /\ WithinLimits
  <2> DEFINE U == (counted \cup Held) \cap Llm
  <2>1. U \subseteq Requests /\ IsFiniteSet(U) /\ Cardinality(U) \in Nat
    BY StoreAssumption, FS_Subset, FS_CardinalityType DEF Requests
  <2>2. Quota' \subseteq U \cup {r}
    BY <1>1, <1>3 DEF Quota
  <2>3. IsFiniteSet(U \cup {r}) /\ Cardinality(U \cup {r}) <= Cardinality(U) + 1 /\ Cardinality(U \cup {r}) \in Nat
    <3> HIDE DEF U
    <3>1. IsFiniteSet(U \cup {r})
      BY <2>1, FS_AddElement
    <3>2. Cardinality(U \cup {r}) = IF r \in U THEN Cardinality(U) ELSE Cardinality(U) + 1
      BY <2>1, FS_AddElement
    <3> QED BY <2>1, <3>1, <3>2
  <2>4. Cardinality(Quota') <= Cardinality(U \cup {r}) /\ Cardinality(Quota') \in Nat
    <3> DEFINE V == U \cup {r}
               W == Quota'
    <3> HIDE DEF U, V, W
    <3>1. W \subseteq V /\ IsFiniteSet(V)
      BY <2>2, <2>3 DEF V, W
    <3>2. Cardinality(W) <= Cardinality(V) /\ Cardinality(W) \in Nat
      BY <3>1, FS_Subset, FS_CardinalityType
    <3> QED BY <3>2 DEF V, W
  <2>5. Cardinality(U) + 1 <= RequestLimit
    BY <1>3 DEF WithinLimits
  <2> HIDE DEF U
  <2> QED BY <2>1, <2>3, <2>4, <2>5, StoreAssumption DEF QuotaHolds, Quota
<1> QED BY <1>2, <1>3, AuthorizeHeld

LEMMA BookQuota ==
  ASSUME StoreInv, QuotaHolds, NEW r \in Llm, NEW billable \in BOOLEAN, NEW cost \in 0..MaxCost,
         Book(r, billable, cost)
  PROVE  QuotaHolds'
<1>1. r \in Requests /\ hard' = hard
  BY DEF Requests, Book
<1>2. Held' = Held \ {r}
  BY <1>1, BookHeld DEF Book
<1>3. counted' \subseteq counted \cup {r} /\ late \subseteq late'
  BY DEF Book
<1>4. r \in hard /\ r \in counted' => r \in counted \/ r \in Held \/ r \in late'
  BY <1>1 DEF Book, Held
<1>5. Quota' \subseteq Quota
  BY <1>1, <1>2, <1>3, <1>4 DEF Quota
<1> QED BY <1>5, QuotaShrinks

LEMMA NextQuota == ASSUME StoreInv, QuotaHolds, [StoreNext]_store PROVE QuotaHolds'
<1>1. CASE UNCHANGED store
  <2>1. Quota' = Quota
    BY <1>1, OthersHeld DEF store, Quota
  <2> QED BY <2>1, QuotaShrinks
<1>2. ASSUME NEW r \in Llm, Lapse(r) PROVE QuotaHolds'
  <2>1. Quota' \subseteq Quota
    BY <1>2, LapseHeld DEF Lapse, Quota
  <2> QED BY <2>1, QuotaShrinks
<1>3. ASSUME NEW r \in Llm, NEW billable \in BOOLEAN, NEW cost \in 0..MaxCost,
             Settle(r, SettlementKeys, billable, cost)
      PROVE  QuotaHolds'
  BY <1>1, <1>3, BookQuota DEF Settle
<1>4. ASSUME NEW r \in Tts, NEW dailyOk \in BOOLEAN, TtsAuthorize(r, dailyOk) PROVE QuotaHolds'
  <2>1. r \notin Llm /\ counted' = counted /\ late' = late /\ hard' \subseteq hard \cup {r}
    BY <1>4, StoreAssumption DEF TtsAuthorize, InMode
  <2>2. Held' \subseteq Held \cup {r}
    BY <1>4, TtsAuthorizeHeld
  <2>3. Quota' \subseteq Quota
    BY <2>1, <2>2 DEF Quota
  <2> QED BY <2>3, QuotaShrinks
<1>5. ASSUME NEW r \in Tts, NEW ok \in BOOLEAN, NEW cost \in 0..MaxCost, TtsRecord(r, ok, cost)
      PROVE  QuotaHolds'
  <2>1. CASE r \in recorded
    BY <1>1, <1>5, <2>1 DEF TtsRecord
  <2>2. CASE r \notin recorded
    <3>1. r \in Requests /\ r \notin Llm
      BY StoreAssumption DEF Requests
    <3>2. counted' \subseteq counted \cup {r} /\ late' = late /\ hard' = hard
      BY <1>5, <2>2 DEF TtsRecord
    <3>3. Held' = Held \ {r}
      BY <1>5, <2>2, <3>1, BookHeld DEF TtsRecord
    <3>4. Quota' \subseteq Quota
      BY <3>1, <3>2, <3>3 DEF Quota
    <3> QED BY <3>4, QuotaShrinks
  <2> QED BY <2>1, <2>2
<1>6. ASSUME Administer PROVE QuotaHolds'
  <2>1. Held' = Held /\ counted' = counted /\ hard' = hard /\ late' = late
    BY <1>6, OthersHeld DEF Administer, SetPolicy, Adjust
  <2>2. Quota' \subseteq Quota
    BY <2>1 DEF Quota
  <2> QED BY <2>2, QuotaShrinks
<1> QED BY <1>1, <1>2, <1>3, <1>4, <1>5, <1>6, AuthorizeQuota
        DEF StoreNext, OtherCalls, LlmCall, TtsCall

LEMMA InitQuota == StoreInit => QuotaHolds
<1> SUFFICES ASSUME StoreInit PROVE QuotaHolds
  OBVIOUS
<1>1. Quota = {}
  BY DEF StoreInit, Quota, Held
<1> QED BY <1>1, FS_EmptySet, StoreAssumption DEF QuotaHolds, Quota

\* The limit of requests of a month holds for any number of requests, except
\* for those that were settled after their reservation had lapsed (limitState).
THEOREM QuotaIsKept == StoreSpec => []QuotaHolds
<1>1. StoreInit => StoreInv /\ QuotaHolds
  BY InitInv, InitQuota
<1>2. StoreInv /\ QuotaHolds /\ [StoreNext]_store => (StoreInv /\ QuotaHolds)'
  BY NextInv, NextQuota
<1> QED BY <1>1, <1>2, PTL DEF StoreSpec

-----------------------------------------------------------------------------
(* The store implements the wallet *)

LEMMA AbstractRelease ==
  ASSUME NEW r \in Requests, Held' = Held \ {r}, UNCHANGED <<balance, entries, recorded>>
  PROVE  Abstract!Next
  BY DEF Abstract!Next, Abstract!Release

LEMMA AbstractPay ==
  ASSUME StoreInv, NEW r \in Requests, r \notin recorded, recorded' = recorded \cup {r},
         Held' = Held \ {r}, NEW c \in Nat, balance' = balance - c, entries' = entries
  PROVE  Abstract!Next
<1>1. balance' \in Int /\ balance' <= balance
  BY DEF StoreInv, StoreTypeOK
<1> QED BY <1>1 DEF Abstract!Next, Abstract!Pay

LEMMA AbstractReserve ==
  ASSUME StoreInv, NEW r \in Requests, status[r] = "none", Available >= 1,
         Held' = Held \cup {r}, UNCHANGED <<balance, entries, recorded>>
  PROVE  Abstract!Next
<1>1. r \notin recorded
  BY DEF StoreInv, BookedOnce
<1>2. Cardinality(Held) \in Nat /\ balance \in Int
  BY HeldFinite DEF StoreInv, StoreTypeOK
<1>3. Cardinality(Held) + 1 <= balance
  BY <1>2 DEF Available
<1>4. Abstract!Cardinality(Held) = Cardinality(Held)
  BY DEF Abstract!Cardinality, Cardinality
<1>5. Abstract!Reserve(r)
  BY <1>1, <1>3, <1>4 DEF Abstract!Reserve
<1> QED BY <1>5 DEF Abstract!Next

LEMMA StepMaps ==
  ASSUME StoreInv, [StoreNext]_store
  PROVE  [Abstract!Next]_<<balance, entries, Held, recorded>>
<1> DEFINE Goal == [Abstract!Next]_<<balance, entries, Held, recorded>>
<1>1. CASE UNCHANGED store
  BY <1>1, OthersHeld DEF store
<1>2. ASSUME NEW r \in Llm, Authorize(r) PROVE Goal
  BY <1>2, AuthorizeHeld, AbstractReserve DEF Authorize, WithinLimits, Requests
<1>3. ASSUME NEW r \in Llm, Lapse(r) PROVE Goal
  BY <1>3, LapseHeld, AbstractRelease DEF Lapse, Requests
<1>4. ASSUME NEW r \in Llm, NEW billable \in BOOLEAN, NEW cost \in 0..MaxCost,
             Settle(r, SettlementKeys, billable, cost)
      PROVE  Goal
  <2>1. CASE r \notin recorded /\ Book(r, billable, cost)
    <3> DEFINE c == IF billable /\ r \in hard THEN cost ELSE 0
    <3>1. r \in Requests /\ c \in Nat
      BY StoreAssumption DEF Requests
    <3>2. balance' = balance - c
      BY <2>1 DEF Book
    <3>3. Held' = Held \ {r} /\ recorded' = recorded \cup {r} /\ entries' = entries
      BY <2>1, <3>1, BookHeld DEF Book
    <3> HIDE DEF c
    <3> QED BY <2>1, <3>1, <3>2, <3>3, AbstractPay
  <2> QED BY <1>1, <1>4, <2>1 DEF Settle, Booked
<1>5. ASSUME NEW r \in Tts, NEW dailyOk \in BOOLEAN, TtsAuthorize(r, dailyOk) PROVE Goal
  BY <1>5, TtsAuthorizeHeld, AbstractReserve DEF TtsAuthorize, Requests
<1>6. ASSUME NEW r \in Tts, NEW ok \in BOOLEAN, NEW cost \in 0..MaxCost, TtsRecord(r, ok, cost)
      PROVE  Goal
  <2>1. CASE r \notin recorded
    <3> DEFINE c == IF ok /\ r \in hard THEN Least(cost, Cap(r)) ELSE 0
    <3>1. r \in Requests
      BY DEF Requests
    <3>2. c \in Nat
      BY <3>1, SpeechCharge, StoreAssumption DEF StoreInv
    <3>3. balance' = balance - c
      BY <1>6, <2>1 DEF TtsRecord
    <3>4. Held' = Held \ {r} /\ recorded' = recorded \cup {r} /\ entries' = entries
      BY <1>6, <2>1, <3>1, BookHeld DEF TtsRecord
    <3> HIDE DEF c
    <3> QED BY <2>1, <3>1, <3>2, <3>3, <3>4, AbstractPay
  <2> QED BY <1>1, <1>6, <2>1 DEF TtsRecord
<1>7. ASSUME NEW k \in Entries, Adjust(k) PROVE Goal
  <2>1. Held' = Held
    BY <1>7, OthersHeld DEF Adjust
  <2>2. balance' \in Int
    BY <1>7, StoreAssumption DEF Adjust, StoreInv, StoreTypeOK
  <2> QED BY <1>7, <2>1, <2>2 DEF Adjust, Abstract!Next, Abstract!Adjust
<1>8. CASE SetPolicy
  BY <1>8, OthersHeld DEF SetPolicy
<1> QED BY <1>1, <1>2, <1>3, <1>4, <1>5, <1>6, <1>7, <1>8
        DEF StoreNext, OtherCalls, LlmCall, TtsCall, Administer

\* The store is a wallet to its customer: funds reserved by one request are
\* not promised to another, and no request is paid twice (authorizeRequest,
\* settleRequest, authorizeTtsRequest, recordTtsUsage).
THEOREM StoreIsAWallet == StoreSpec => ImplementsWallet
<1>1. StoreInit => Abstract!Init
  BY DEF StoreInit, Abstract!Init, Held
<1>2. StoreInv /\ [StoreNext]_store => [Abstract!Next]_<<balance, entries, Held, recorded>>
  BY StepMaps
<1> QED BY <1>1, <1>2, StoreInvariant, PTL DEF StoreSpec, ImplementsWallet, Abstract!Spec
=============================================================================
