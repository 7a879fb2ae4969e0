------------------------- MODULE SpeechBilling_proofs -------------------------
(***************************************************************************)
(* Speech billing keeps the store's promises, since each of its steps is a *)
(* step of the store or none of it, and the receipt decides what is billed *)
(* (ReceiptDecides), for any requests, page and engine names.  The         *)
(* invariant says what the reconciler may believe: a complete receipt      *)
(* stays what it is, and a receipt that is not there half an hour after    *)
(* the reservation never comes.  Last, no open reservation is left behind. *)
(***************************************************************************)
EXTENDS SpeechBilling, BillingStore_proofs

\* Its receipt is complete and bad, or will never be written.
Bad(r) == receipt[r] = "failed" \/ (receipt[r] = "none" /\ r \in aged)

NoSurprise(r) ==
  /\ call[r] = "new" => status[r] = "none"
  /\ r \in aged =>
       /\ call[r] \notin {"new", "held"} /\ r \notin wire
       /\ ~(handler[r] = "runs" /\ receipt[r] = "none")

Believed(r) ==
  /\ flush.reply[r] = "succeeded" => receipt[r] = "succeeded"
  /\ flush.reply[r] = "failed" => Bad(r)

Decided(r) ==
  /\ r \in counted => receipt[r] = "succeeded"
  /\ r \in recorded => r \in counted \cup refused \/ Bad(r)

SpeechInv == StoreInv /\ TypeOK /\ \A r \in Tts : NoSurprise(r) /\ Believed(r) /\ Decided(r)

-----------------------------------------------------------------------------
(* The store under speech billing *)

LEMMA RecordIsACall ==
  ASSUME NEW r \in Tts, NEW ok \in BOOLEAN, NEW cost \in 0..MaxCost, Record(r, ok, cost)
  PROVE  [StoreNext]_store
  BY DEF Record, StoreNext, TtsCall

LEMMA IsStoreStep == ASSUME [Next]_vars PROVE [StoreNext]_store
<1>1. 0 \in 0..MaxCost
  BY StoreAssumption
<1>2. ASSUME NEW r \in Tts, NEW dailyOk \in BOOLEAN, Reserve(r, dailyOk) PROVE [StoreNext]_store
  BY <1>2 DEF Reserve, StoreNext, TtsCall
<1>3. ASSUME NEW r \in Tts, NEW good \in BOOLEAN, Answer(r, good) PROVE [StoreNext]_store
  BY <1>1, <1>3, RecordIsACall DEF Answer
<1>4. ASSUME NEW r \in Tts, Entry(r) PROVE [StoreNext]_store
  BY <1>3, <1>4 DEF Entry, Send, GiveUp
<1>5. ASSUME NEW r \in Tts, Gateway(r) \/ Ages(r) PROVE [StoreNext]_store
  BY <1>5 DEF Gateway, Arrive, Begin, Finish, Ages
<1>6. ASSUME NEW r \in Tts, Looks(r) PROVE [StoreNext]_store
  BY <1>6, RecordIsACall DEF Looks, Read, ReadFails, Reconcile
<1>7. CASE FlushBegins \/ FlushEnds \/ EntryCrashes \/ EntryStarts \/ GatewayCrashes \/ GatewayStarts
  BY <1>7 DEF FlushBegins, FlushEnds, EntryCrashes, EntryStarts, GatewayCrashes, GatewayStarts
<1>8. CASE OtherCalls /\ UNCHANGED speech
  BY <1>8 DEF StoreNext
<1>9. CASE UNCHANGED vars
  BY <1>9 DEF vars
<1> QED BY <1>2, <1>4, <1>5, <1>6, <1>7, <1>8, <1>9 DEF Next

\* Speech billing does to the store only what its API allows, so the wallet
\* covers every reservation also while processes crash (Solvent).
THEOREM SpeechKeepsTheStore == Spec => StoreSpec /\ []Solvent
<1>1. Init => StoreInit
  BY DEF Init
<1>2. [Next]_vars => [StoreNext]_store
  BY IsStoreStep
<1>3. Spec => StoreSpec
  BY <1>1, <1>2, PTL DEF Spec, StoreSpec
<1> QED BY <1>3, WalletCovers, PTL

-----------------------------------------------------------------------------
(* Types *)

LEMMA TypeStep == ASSUME TypeOK, StoreTypeOK', [Next]_vars PROVE TypeOK'
<1> USE DEF TypeOK
<1>1. CASE UNCHANGED speech
  BY <1>1 DEF speech
<1>2. ASSUME NEW r \in Tts, NEW dailyOk \in BOOLEAN, Reserve(r, dailyOk) PROVE TypeOK'
  <2>1. line' \in Seq(Tts)
    BY <1>2 DEF Reserve
  <2>2. call' \in [Tts -> {"new", "held", "sent", "over"}]
    BY <1>2 DEF Reserve
  <2>3. UNCHANGED <<aged, wire, handler, tasks, receipt, flush, up, refused>>
    BY <1>2 DEF Reserve
  <2> QED BY <2>1, <2>2, <2>3
<1>3. ASSUME NEW r \in Tts, NEW good \in BOOLEAN, Answer(r, good) PROVE TypeOK'
  <2>1. call' \in [Tts -> {"new", "held", "sent", "over"}]
    <3>1. call' = call \/ call' = [call EXCEPT ![r] = "over"]
      BY <1>3, Zenon DEF Answer
    <3> QED BY <3>1
  <2>2. /\ handler' \in [Tts -> {"none", "runs", "answered"}]
        /\ receipt' \in [Tts -> {"none", "pending", "succeeded", "failed"}]
    <3>1. /\ handler' = [handler EXCEPT ![r] = "answered"]
          /\ receipt' = receipt \/ receipt' = [receipt EXCEPT ![r] = "failed"]
      BY <1>3, Zenon DEF Answer
    <3> QED BY <3>1
  <2>4. refused' \subseteq Tts
    <3>1. refused' = refused \/ refused' = refused \cup {r}
      BY <1>3, Zenon DEF Answer
    <3> QED BY <3>1
  <2>3. UNCHANGED <<line, aged, wire, tasks, flush, up>>
    BY <1>3 DEF Answer
  <2> QED BY <2>1, <2>2, <2>3, <2>4
<1>4. ASSUME NEW r \in Tts, Send(r) \/ GiveUp(r) \/ Gateway(r) \/ Ages(r) PROVE TypeOK'
  <2>1. CASE Send(r)
    BY <2>1 DEF Send
  <2>2. CASE GiveUp(r)
    BY <2>2 DEF GiveUp
  <2>3. CASE Arrive(r)
    BY <2>3 DEF Arrive
  <2>4. CASE Begin(r)
    BY <2>4 DEF Begin
  <2>5. ASSUME NEW x \in {"succeeded", "failed"}, Finish(r, x) PROVE TypeOK'
    BY <2>5 DEF Finish
  <2>6. CASE Ages(r)
    BY <2>6 DEF Ages
  <2> QED BY <1>4, <2>1, <2>2, <2>3, <2>4, <2>5, <2>6 DEF Gateway
<1>5. ASSUME NEW r \in Tts, Looks(r) PROVE TypeOK'
  <2>1. Drop(r) \in [active : BOOLEAN, reply : [Tts -> Reply]]
    BY DEF Drop, Reply
  <2>2. CASE Read(r)
    <3>1. flush' \in [active : BOOLEAN, reply : [Tts -> Reply]]
      BY <2>1, <2>2 DEF Read, Complete, Reply
    <3> QED BY <2>2, <3>1 DEF Read
  <2>3. CASE ReadFails(r)
    BY <2>1, <2>3 DEF ReadFails
  <2>4. ASSUME NEW cost \in 0..MaxCost, Reconcile(r, cost) PROVE TypeOK'
    BY <2>1, <2>4 DEF Reconcile
  <2> QED BY <1>5, <2>2, <2>3, <2>4 DEF Looks
<1>6. CASE FlushBegins
  BY <1>6 DEF FlushBegins, Reply
<1>7. CASE FlushEnds
  BY <1>7 DEF FlushEnds, NoFlush, Reply
<1>8. CASE EntryCrashes
  BY <1>8 DEF EntryCrashes, Down, NoFlush, Reply
<1>9. CASE GatewayCrashes
  BY <1>9 DEF GatewayCrashes, Down
<1>10. CASE EntryStarts \/ GatewayStarts
  BY <1>10 DEF EntryStarts, GatewayStarts, Restored, Hosts
<1> QED BY <1>1, <1>2, <1>3, <1>4, <1>5, <1>6, <1>7, <1>8, <1>9, <1>10 DEF Next, Entry, vars

-----------------------------------------------------------------------------
(* The receipt decides *)

\* Language requests, the administrator and time leave speech requests alone.
LEMMA OthersLeaveSpeech ==
  ASSUME StoreInv, OtherCalls, NEW r \in Tts
  PROVE  /\ status'[r] = status[r]
         /\ r \in recorded' <=> r \in recorded
         /\ r \in counted' <=> r \in counted
<1>1. r \in Requests /\ r \notin Llm
  BY StoreAssumption DEF Requests
<1> DEFINE Same == /\ status'[r] = status[r]
                   /\ r \in recorded' <=> r \in recorded
                   /\ r \in counted' <=> r \in counted
<1>2. CASE UNCHANGED store
  BY <1>2 DEF store
<1>3. ASSUME NEW q \in Llm, Authorize(q) PROVE Same
  <2>1. Swept[r] = status[r]
    BY <1>1 DEF Swept, StoreInv, StoreTypeOK
  <2>2. status'[r] = Swept[r]
    BY <1>1, <1>3 DEF Authorize, Swept
  <2> QED BY <2>1, <2>2, <1>3 DEF Authorize
<1>4. ASSUME NEW q \in Llm, NEW b \in BOOLEAN, NEW cost \in 0..MaxCost, Book(q, b, cost) PROVE Same
  BY <1>1, <1>4 DEF Book, StoreInv, StoreTypeOK
<1>5. ASSUME NEW q \in Llm, Lapse(q) PROVE Same
  BY <1>5 DEF Lapse
<1>6. CASE Administer
  BY <1>6 DEF Administer, SetPolicy, Adjust
<1> QED BY <1>2, <1>3, <1>4, <1>5, <1>6 DEF OtherCalls, LlmCall, Settle

\* What booking a request changes.
LEMMA RecordEffect ==
  ASSUME StoreInv, NEW r \in Tts, NEW ok \in BOOLEAN, NEW cost, Record(r, ok, cost),
         NEW q \in Tts
  PROVE  /\ status[q] = "none" => status'[q] = "none"
         /\ q \in recorded' \/ q \in recorded => q = r \/ (q \in recorded' /\ q \in recorded)
         /\ q \in counted => q \in counted'
         /\ q \in counted' => q \in counted \/ (q = r /\ ok)
         /\ r \in recorded' /\ ok => r \in recorded \/ r \in counted'
  BY DEF Record, TtsRecord, store, StoreInv, StoreTypeOK, Requests

LEMMA ReserveStep ==
  ASSUME SpeechInv, NEW r \in Tts, NEW dailyOk \in BOOLEAN, Reserve(r, dailyOk), NEW q \in Tts
  PROVE  NoSurprise(q)' /\ Believed(q)' /\ Decided(q)'
<1>1. q \in Requests /\ r \in Requests
  BY DEF Requests
<1>2. /\ call'[r] # "new" /\ \A p \in Tts \ {r} : call'[p] = call[p] /\ status'[p] = status[p]
      /\ r \notin aged
  BY <1>1 DEF Reserve, TtsAuthorize, SpeechInv, TypeOK, StoreTypeOK, NoSurprise, Requests
<1>3. UNCHANGED <<aged, wire, handler, receipt, flush, counted, recorded, refused>>
  BY DEF Reserve, TtsAuthorize
<1> QED BY <1>2, <1>3 DEF SpeechInv, NoSurprise, Believed, Decided, Bad

LEMMA AnswerStep ==
  ASSUME SpeechInv, NEW r \in Tts, NEW good \in BOOLEAN, Answer(r, good), NEW q \in Tts
  PROVE  NoSurprise(q)' /\ Believed(q)' /\ Decided(q)'
<1>1. /\ handler[r] = "runs" /\ handler'[r] = "answered"
      /\ \A p \in Tts \ {r} : handler'[p] = handler[p] /\ receipt'[p] = receipt[p] /\ call'[p] = call[p]
      /\ receipt'[r] = IF ~good /\ receipt[r] = "pending" THEN "failed" ELSE receipt[r]
      /\ call'[r] = call[r] \/ (call[r] = "sent" /\ call'[r] = "over")
      /\ UNCHANGED <<aged, wire, flush>>
  BY DEF Answer, SpeechInv, TypeOK
<1>2. CASE UNCHANGED store /\ refused' = refused
  BY <1>1, <1>2 DEF store, SpeechInv, NoSurprise, Believed, Decided, Bad
<1>3. CASE Record(r, FALSE, 0) /\ refused' = refused \cup {r}
  <2>1. /\ status[q] = "none" => status'[q] = "none"
        /\ q \in recorded' => q = r \/ q \in recorded
        /\ q \in counted <=> q \in counted'
    <3>1. FALSE \in BOOLEAN /\ StoreInv
      BY DEF SpeechInv
    <3> QED BY <1>3, <3>1, RecordEffect
  <2>2. NoSurprise(q)'
    BY <1>1, <2>1 DEF SpeechInv, NoSurprise
  <2>3. Believed(q)'
    BY <1>1 DEF SpeechInv, Believed, Bad
  <2>4. Decided(q)'
    BY <1>1, <1>3, <2>1 DEF SpeechInv, Decided, Bad
  <2> QED BY <2>2, <2>3, <2>4
<1> QED BY <1>2, <1>3 DEF Answer

LEMMA ReconcileStep ==
  ASSUME SpeechInv, NEW r \in Tts, NEW cost \in 0..MaxCost, Reconcile(r, cost), NEW q \in Tts
  PROVE  NoSurprise(q)' /\ Believed(q)' /\ Decided(q)'
<1>1. /\ flush'.reply[r] = "none" /\ \A p \in Tts \ {r} : flush'.reply[p] = flush.reply[p]
      /\ flush.reply[r] \in {"succeeded", "failed"}
      /\ UNCHANGED <<call, aged, wire, handler, receipt, refused>>
  BY DEF Reconcile, Drop, SpeechInv, TypeOK
<1>2. Record(r, flush.reply[r] = "succeeded", cost)
  BY DEF Reconcile
<1>3. /\ status[q] = "none" => status'[q] = "none"
      /\ q \in recorded' => q = r \/ q \in recorded
      /\ q \in counted => q \in counted'
      /\ q \in counted' => q \in counted \/ (q = r /\ flush.reply[r] = "succeeded")
      /\ r \in recorded' /\ flush.reply[r] = "succeeded" => r \in recorded \/ r \in counted'
  <2>1. (flush.reply[r] = "succeeded") \in BOOLEAN /\ StoreInv
    BY DEF SpeechInv
  <2> HIDE DEF SpeechInv
  <2> QED BY <1>2, <2>1, RecordEffect
<1>4. NoSurprise(q)'
  BY <1>1, <1>3 DEF SpeechInv, NoSurprise
<1>5. Believed(q)'
  BY <1>1 DEF SpeechInv, Believed, Bad
<1>6. Decided(q)'
  <2>1. Decided(q) /\ Believed(r) /\ (Bad(r)' <=> Bad(r)) /\ (Bad(q)' <=> Bad(q))
    BY <1>1 DEF SpeechInv, Bad
  <2>2. CASE flush.reply[r] = "succeeded"
    BY <1>1, <1>3, <2>1, <2>2 DEF Decided, Believed
  <2>3. CASE flush.reply[r] = "failed"
    BY <1>1, <1>3, <2>1, <2>3 DEF Decided, Believed
  <2> QED BY <1>1, <2>2, <2>3
<1> QED BY <1>4, <1>5, <1>6

LEMMA LookStep ==
  ASSUME SpeechInv, NEW r \in Tts, Read(r) \/ ReadFails(r), NEW q \in Tts
  PROVE  NoSurprise(q)' /\ Believed(q)' /\ Decided(q)'
<1>1. UNCHANGED <<store, call, aged, wire, handler, receipt, refused>>
  BY DEF Read, ReadFails
<1>2. \A p \in Tts \ {r} : flush'.reply[p] = flush.reply[p]
  BY DEF Read, ReadFails, Drop, SpeechInv, TypeOK
<1>3. \/ flush'.reply[r] = "none"
      \/ flush'.reply[r] = "failed" /\ Lost(r)
      \/ flush'.reply[r] = receipt[r] /\ Complete(r)
  BY DEF Read, ReadFails, Drop, SpeechInv, TypeOK
<1> QED BY <1>1, <1>2, <1>3 DEF store, SpeechInv, NoSurprise, Believed, Decided, Bad, Lost, Complete

LEMMA OtherSteps ==
  ASSUME SpeechInv, NEW q \in Tts,
         \/ \E r \in Tts : Send(r) \/ GiveUp(r) \/ Gateway(r) \/ Ages(r)
         \/ FlushBegins \/ FlushEnds
         \/ EntryCrashes \/ EntryStarts \/ GatewayCrashes \/ GatewayStarts
  PROVE  NoSurprise(q)' /\ Believed(q)' /\ Decided(q)'
<1> USE DEF store, SpeechInv, TypeOK, NoSurprise, Believed, Decided, Bad
<1>1. ASSUME NEW r \in Tts, Send(r) \/ GiveUp(r) PROVE NoSurprise(q)' /\ Believed(q)' /\ Decided(q)'
  BY <1>1 DEF Send, GiveUp
<1>2. ASSUME NEW r \in Tts, Arrive(r) PROVE NoSurprise(q)' /\ Believed(q)' /\ Decided(q)'
  BY <1>2 DEF Arrive
<1>3. ASSUME NEW r \in Tts, Begin(r) PROVE NoSurprise(q)' /\ Believed(q)' /\ Decided(q)'
  BY <1>3 DEF Begin
<1>4. ASSUME NEW r \in Tts, NEW x \in {"succeeded", "failed"}, Finish(r, x)
      PROVE  NoSurprise(q)' /\ Believed(q)' /\ Decided(q)'
  BY <1>4 DEF Finish
<1>5. ASSUME NEW r \in Tts, Ages(r) PROVE NoSurprise(q)' /\ Believed(q)' /\ Decided(q)'
  BY <1>5 DEF Ages
<1>6. CASE FlushBegins \/ FlushEnds
  BY <1>6 DEF FlushBegins, FlushEnds, NoFlush
<1>7. CASE EntryCrashes
  BY <1>7 DEF EntryCrashes, NoFlush
<1>8. CASE GatewayCrashes
  BY <1>8 DEF GatewayCrashes
<1>9. CASE EntryStarts
  BY <1>9 DEF EntryStarts
<1>10. CASE GatewayStarts
  BY <1>10 DEF GatewayStarts, Restored
<1> QED BY <1>1, <1>2, <1>3, <1>4, <1>5, <1>6, <1>7, <1>8, <1>9, <1>10 DEF Gateway

LEMMA SpeechStep == ASSUME SpeechInv, [Next]_vars PROVE SpeechInv'
<1>1. StoreInv'
  BY IsStoreStep, NextInv DEF SpeechInv
<1>2. TypeOK'
  BY <1>1, TypeStep DEF SpeechInv, StoreInv
<1>3. ASSUME NEW q \in Tts PROVE NoSurprise(q)' /\ Believed(q)' /\ Decided(q)'
  <2>1. CASE UNCHANGED vars
    BY <2>1 DEF vars, store, speech, SpeechInv, NoSurprise, Believed, Decided, Bad
  <2>2. CASE OtherCalls /\ UNCHANGED speech
    BY <2>2, OthersLeaveSpeech DEF speech, SpeechInv, NoSurprise, Believed, Decided, Bad
  <2> QED BY <2>1, <2>2, ReserveStep, AnswerStep, ReconcileStep, LookStep, OtherSteps
          DEF Next, Entry, Looks
<1> QED BY <1>1, <1>2, <1>3 DEF SpeechInv

LEMMA SpeechInit == Init => SpeechInv
<1> SUFFICES ASSUME Init PROVE SpeechInv
  OBVIOUS
<1>1. StoreInv
  BY InitInv DEF Init
<1>2. TypeOK
  BY <1>1 DEF Init, TypeOK, StoreInv, NoFlush, Reply, Hosts
<1>3. ASSUME NEW r \in Tts PROVE NoSurprise(r) /\ Believed(r) /\ Decided(r)
  BY StoreAssumption DEF Init, StoreInit, NoFlush, NoSurprise, Believed, Decided, Requests
<1> QED BY <1>1, <1>2, <1>3 DEF SpeechInv

LEMMA SpeechInvariant == Spec => []SpeechInv
  BY SpeechInit, SpeechStep, PTL DEF Spec

\* Every state of speech billing is well typed.
THEOREM SpeechTypes == Spec => []TypeOK
<1>1. SpeechInv => TypeOK
  BY DEF SpeechInv
<1> QED BY <1>1, SpeechInvariant, PTL

\* Only a synthesis that succeeded is billed, and one that succeeded is billed
\* unless its caller got an error, with any number of requests, crashes and
\* late receipts (createTtsReconciler, tts_receipts.py).
THEOREM ReceiptsDecide == Spec => []ReceiptDecides
<1>1. SpeechInv => ReceiptDecides
  BY DEF SpeechInv, Decided, Bad, ReceiptDecides
<1> QED BY <1>1, SpeechInvariant, PTL

-----------------------------------------------------------------------------
(* Open reservations are pursued *)
(*                                                                           *)
(* That they settle at last is checked by TLC (SpeechSettles).  What is      *)
(* proved is that the reconciler can find every one of them, and that no     *)
(* receipt it waits for has been left behind.                                *)

InLine(r) == \E i \in 1..Len(line) : line[i] = r
Pursued(r) ==
  /\ Open(r) => InLine(r)
  /\ "gateway" \in up /\ receipt[r] = "pending" => r \in tasks

\* Appending keeps what is in line and adds the newcomer.
LEMMA LineGrows ==
  ASSUME NEW s \in Seq(Tts), NEW r \in Tts, NEW q,
         q = r \/ \E i \in 1..Len(s) : s[i] = q
  PROVE  \E i \in 1..Len(Append(s, r)) : Append(s, r)[i] = q
<1>1. /\ Len(Append(s, r)) = Len(s) + 1 /\ Len(s) \in Nat
      /\ Append(s, r)[Len(s) + 1] = r
      /\ \A i \in 1..Len(s) : Append(s, r)[i] = s[i]
  OBVIOUS
<1> QED BY <1>1

\* Only Reserve opens a reservation.
LEMMA RecordOpensNone ==
  ASSUME SpeechInv, NEW r \in Tts, NEW ok, NEW cost, Record(r, ok, cost), NEW q \in Tts, Open(q)'
  PROVE  Open(q)
BY DEF Record, TtsRecord, store, Open, SpeechInv, StoreInv, StoreTypeOK, Requests

LEMMA LineStep ==
  ASSUME SpeechInv, [Next]_vars, NEW q \in Tts, Open(q) => InLine(q)
  PROVE  Open(q)' => InLine(q)'
<1>1. ASSUME NEW r \in Tts, NEW dailyOk \in BOOLEAN, Reserve(r, dailyOk)
      PROVE  Open(q)' => InLine(q)'
  <2> SUFFICES ASSUME Open(q)' PROVE InLine(q)'
    OBVIOUS
  <2>1. line \in Seq(Tts)
    BY DEF SpeechInv, TypeOK
  <2>2. Open(q) \/ q = r
    BY <1>1 DEF Reserve, TtsAuthorize, Open, SpeechInv, StoreInv, StoreTypeOK, Requests
  <2>3. line' = line \/ line' = Append(line, r)
    BY <1>1 DEF Reserve
  <2>4. q = r => Open(q) \/ line' = Append(line, r)
    BY <1>1 DEF Reserve, Open
  <2>5. CASE line' = Append(line, r)
    BY <2>1, <2>2, <2>5, LineGrows DEF InLine
  <2>6. CASE line' = line
    BY <2>2, <2>3, <2>4, <2>6 DEF InLine
  <2> QED BY <2>3, <2>5, <2>6
<1>2. CASE line' = line /\ (Open(q)' => Open(q))
  BY <1>2 DEF InLine
<1>3. ASSUME NEW r \in Tts, Looks(r) PROVE line' = line /\ (Open(q)' => Open(q))
  <2>1. CASE Read(r) \/ ReadFails(r)
    BY <2>1 DEF Read, ReadFails, store, Open
  <2>2. ASSUME NEW cost \in 0..MaxCost, Reconcile(r, cost)
        PROVE  line' = line /\ (Open(q)' => Open(q))
    BY <2>2, RecordOpensNone DEF Reconcile
  <2> QED BY <1>3, <2>1, <2>2 DEF Looks
<1>4. ASSUME NEW r \in Tts, NEW good \in BOOLEAN, Answer(r, good)
      PROVE  line' = line /\ (Open(q)' => Open(q))
  <2>1. CASE UNCHANGED store
    BY <1>4, <2>1 DEF Answer, store, Open
  <2>2. CASE Record(r, FALSE, 0)
    BY <1>4, <2>2, RecordOpensNone DEF Answer
  <2> QED BY <1>4, <2>1, <2>2 DEF Answer
<1>5. ASSUME NEW r \in Tts, Send(r) \/ GiveUp(r) \/ Gateway(r) \/ Ages(r)
      PROVE  line' = line /\ (Open(q)' => Open(q))
  BY <1>5 DEF Send, GiveUp, Gateway, Arrive, Begin, Finish, Ages, store, Open
<1>6. CASE FlushBegins \/ FlushEnds \/ EntryCrashes \/ EntryStarts \/ GatewayCrashes \/ GatewayStarts
  BY <1>2, <1>6 DEF FlushBegins, FlushEnds, EntryCrashes, EntryStarts, GatewayCrashes,
     GatewayStarts, store, Open
<1>7. CASE OtherCalls /\ UNCHANGED speech
  BY <1>2, <1>7, OthersLeaveSpeech DEF speech, Open, SpeechInv
<1>8. CASE UNCHANGED vars
  BY <1>2, <1>8 DEF vars, store, speech, Open
<1> QED BY <1>1, <1>2, <1>3, <1>4, <1>5, <1>6, <1>7, <1>8 DEF Next, Entry

LEMMA TaskStep ==
  ASSUME SpeechInv, [Next]_vars, NEW q \in Tts,
         "gateway" \in up /\ receipt[q] = "pending" => q \in tasks
  PROVE  "gateway" \in up' /\ receipt'[q] = "pending" => q \in tasks'
<1> USE DEF SpeechInv, TypeOK
<1>1. CASE UNCHANGED <<up, receipt, tasks>>
  BY <1>1
<1>2. ASSUME NEW r \in Tts, NEW good \in BOOLEAN, Answer(r, good)
      PROVE  UNCHANGED <<up, tasks>> /\ (receipt'[q] = "pending" => receipt[q] = "pending")
  BY <1>2 DEF Answer
<1>3. ASSUME NEW r \in Tts, Begin(r)
      PROVE  up' = up /\ tasks' = tasks \cup {r} /\ (q # r => receipt'[q] = receipt[q])
  BY <1>3 DEF Begin
<1>4. ASSUME NEW r \in Tts, NEW x \in {"succeeded", "failed"}, Finish(r, x)
      PROVE  /\ up' = up /\ tasks' = tasks \ {r} /\ receipt'[r] # "pending"
             /\ q # r => receipt'[q] = receipt[q]
  BY <1>4 DEF Finish
<1>5. ASSUME NEW r \in Tts,
             \/ \E dailyOk \in BOOLEAN : Reserve(r, dailyOk)
             \/ Send(r) \/ GiveUp(r) \/ Arrive(r) \/ Looks(r) \/ Ages(r)
      PROVE  UNCHANGED <<up, receipt, tasks>>
  BY <1>5 DEF Reserve, Send, GiveUp, Arrive, Looks, Read, ReadFails, Reconcile, Ages
<1>6. CASE EntryCrashes \/ EntryStarts
  BY <1>6 DEF EntryCrashes, EntryStarts, Down
<1>7. CASE GatewayCrashes
  BY <1>7 DEF GatewayCrashes, Down
<1>8. CASE GatewayStarts
  BY <1>8 DEF GatewayStarts, Restored
<1>9. CASE FlushBegins \/ FlushEnds \/ (OtherCalls /\ UNCHANGED speech) \/ UNCHANGED vars
  BY <1>1, <1>9 DEF FlushBegins, FlushEnds, speech, vars
<1> QED BY <1>1, <1>2, <1>3, <1>4, <1>5, <1>6, <1>7, <1>8, <1>9 DEF Next, Entry, Gateway

\* Every open reservation is a row the reconciler's page query can return, and
\* while the gateway runs a pending receipt has a task that will complete it:
\* neither a lost answer nor a crash of either process leaves one behind that
\* nobody works on (listPendingTtsRequests, the gateway's restart).
THEOREM OpenIsPursued == Spec => [](\A r \in Tts : Pursued(r))
<1>1. Init => \A r \in Tts : Pursued(r)
  BY DEF Init, StoreInit, Pursued, Open, Requests
<1>2. SpeechInv /\ (\A r \in Tts : Pursued(r)) /\ [Next]_vars => (\A r \in Tts : Pursued(r))'
  BY LineStep, TaskStep DEF Pursued
<1> QED BY SpeechInvariant, <1>1, <1>2, PTL DEF Spec
=============================================================================
