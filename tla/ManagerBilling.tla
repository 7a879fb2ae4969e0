---------------------------- MODULE ManagerBilling ----------------------------
(***************************************************************************)
(* How a manager bills the language requests of one client.  It asks the   *)
(* billing store for an authorization before the inference, unless an      *)
(* answer is remembered (authorizeMemo), and settles the request after it. *)
(* When the store cannot be asked and the client was in shadow mode, or    *)
(* the manager has just started, the request is served all the same and    *)
(* both calls wait in a list that is kept in a file and tried again        *)
(* (manager-core/gateway-utils.js, billing-client.js,                      *)
(* billing-pending-queue.js).  A call may be lost before or after the      *)
(* store has answered it, and the manager may crash at any step.           *)
(***************************************************************************)
EXTENDS BillingStore, Sequences, Functions

CONSTANT MaxItems  \* length of the list (maxItems)

ASSUME ManagerAssumption == Tts = {} /\ MaxItems \in Nat \ {0} /\ "nobody" \notin Llm

VARIABLES
  pc,     \* where the handler of each request is
  auth,   \* its billingAuthorization: what kind, and whose request it was for
  known,  \* the mode that the memo named when the store was asked, and the
          \* request in whose grant the store had told it (history)
  memo,   \* authorizeMemo of the client
  cold,   \* within the grace after the start of the process
  up,     \* the manager runs
  items,  \* the list of what is to be authorized and settled later
  file,   \* billing-pending.json
  disk,   \* what became of the last save
  flush,  \* the pass over the list
  graced  \* history: requests deferred within the grace

local == <<pc, auth, known, memo, cold, up, items, file, disk, flush, graced>>
vars == <<store, local>>

\* A mode and who was told it; the code itself may write "shadow".
Untold(mode1) == [mode |-> mode1, told |-> "nobody"]
Told(r, hard1) == [mode |-> IF r \in hard1 THEN "hard" ELSE "shadow", told |-> r]
Known == [mode : {"hard", "shadow"}, told : Llm] \cup {Untold("none"), Untold("shadow")}
NoMemo == [kind |-> "none", by |-> "nobody", known |-> Untold("none"), fresh |-> FALSE]
Idle == [stage |-> "idle", rest |-> <<>>, remain |-> <<>>, took |-> {}, asked |-> FALSE]

TypeOK ==
  /\ StoreTypeOK
  /\ pc \in [Llm -> {"new", "asking", "refused", "serving", "ending",
                     "answered", "lost", "deferred", "gone"}]
  /\ auth \in [Llm -> [kind : {"none", "granted", "deferred"}, by : Llm]]
  /\ known \in [Llm -> Known]
  /\ memo = NoMemo \/ memo \in [kind : {"granted", "deferred"}, by : Llm,
                                known : Known, fresh : BOOLEAN]
  /\ cold \in BOOLEAN /\ up \in BOOLEAN
  /\ items \in Seq(Llm) /\ Len(items) <= MaxItems /\ file \in Seq(Llm)
  /\ disk \in {"saved", "saving", "failed"}
  /\ flush \in [stage : {"idle", "running", "saving"}, rest : Seq(Llm),
                remain : Seq(Llm), took : SUBSET Llm, asked : BOOLEAN]
  /\ graced \subseteq Llm

Init ==
  /\ StoreInit
  /\ pc = [r \in Llm |-> "new"] /\ known = [r \in Llm |-> Untold("none")]
  /\ auth = [r \in Llm |-> [kind |-> "none", by |-> r]]
  /\ memo = NoMemo /\ cold = TRUE /\ up = TRUE
  /\ items = <<>> /\ file = <<>> /\ disk = "saved" /\ flush = Idle
  /\ graced = {}

-----------------------------------------------------------------------------
(* Before the inference *)

At(r, s) == pc' = [pc EXCEPT ![r] = s]

\* The request is let in under an authorization, which is remembered.
Admit(r, kind, known1) ==
  /\ At(r, "serving")
  /\ auth' = [auth EXCEPT ![r] = [kind |-> kind, by |-> r]]
  /\ memo' = [kind |-> kind, by |-> r, known |-> known1, fresh |-> TRUE]

\* A remembered answer is used again, and then as good as new.
Ask(r) ==
  /\ up /\ pc[r] = "new"
  /\ IF memo.fresh
     THEN /\ At(r, "serving") /\ UNCHANGED known
          /\ auth' = [auth EXCEPT ![r] = [kind |-> memo.kind, by |-> memo.by]]
     ELSE /\ At(r, "asking") /\ UNCHANGED auth
          /\ known' = [known EXCEPT ![r] = memo.known]
  /\ UNCHANGED <<store, memo, cold, up, items, file, disk, flush, graced>>

Authorized(r) ==
  /\ pc[r] = "asking" /\ Authorize(r)
  /\ IF Granted(r) THEN Admit(r, "granted", Told(r, hard'))
     ELSE At(r, "refused") /\ UNCHANGED <<auth, memo>>
  /\ UNCHANGED <<known, cold, up, items, file, disk, flush, graced>>

\* MUTANT: whoever is not served now is served later.
MayDefer_Always(r) == TRUE
MayDefer(r) == known[r].mode = "shadow" \/ cold

\* billing_unavailable: the call or its answer was lost.  A mode that nobody
\* was told is taken, and remembered, for shadow.
Unavailable(r) ==
  /\ pc[r] = "asking" /\ (Authorize(r) \/ UNCHANGED store)
  /\ IF MayDefer(r)
     THEN /\ Admit(r, "deferred", IF known[r].mode = "none" THEN Untold("shadow") ELSE known[r])
          /\ graced' = IF cold THEN graced \cup {r} ELSE graced
     ELSE At(r, "refused") /\ UNCHANGED <<auth, memo, graced>>
  /\ UNCHANGED <<known, cold, up, items, file, disk, flush>>

\* authorizeCacheTtlMs and billingColdStartGraceMs are over.
MemoExpires ==
  /\ memo.fresh /\ memo' = [memo EXCEPT !.fresh = FALSE]
  /\ UNCHANGED <<store, pc, auth, known, cold, up, items, file, disk, flush, graced>>
GraceEnds ==
  /\ cold /\ cold' = FALSE
  /\ UNCHANGED <<store, pc, auth, known, memo, up, items, file, disk, flush, graced>>

-----------------------------------------------------------------------------
(* After the inference: createOpenAiUsageFinalizer, once for each request *)

\* What a settlement is made of; that of a deferred request has more fields.
FinalizerKeys == {"requestId", "externalRequestId", "clientId", "managerId",
  "model", "status", "ok", "terminalState", "usageSource", "stream",
  "inputTokens", "outputTokens", "totalTokens", "cachedInputTokens"}
DeferredKeys == FinalizerKeys \cup {"deferred", "authorizeInput"}

\* MUTANT: the list grows.
Latest_All(s) == s
\* enqueue: the oldest item makes room, and the list is saved.
Latest(s) == IF Len(s) > MaxItems THEN SubSeq(s, Len(s) - MaxItems + 1, Len(s)) ELSE s
Finalize(r) ==
  /\ pc[r] = "serving"
  /\ IF auth[r].kind = "deferred"
     THEN At(r, "deferred") /\ items' = Latest(Append(items, r)) /\ disk' = "saving"
     ELSE At(r, "ending") /\ UNCHANGED <<items, disk>>
  /\ UNCHANGED <<store, auth, known, memo, cold, up, file, flush, graced>>

\* The first of three attempts that reaches the store decides, and the manager
\* hears of it or not; what it hears is only logged.
Settled(r, billable, cost) ==
  /\ pc[r] = "ending" /\ Settle(r, FinalizerKeys, billable, cost)
  /\ At(r, "answered") \/ At(r, "lost")
  /\ UNCHANGED <<auth, known, memo, cold, up, items, file, disk, flush, graced>>
Unsettled(r) ==
  /\ pc[r] = "ending" /\ At(r, "lost")
  /\ UNCHANGED <<store, auth, known, memo, cold, up, items, file, disk, flush, graced>>

-----------------------------------------------------------------------------
(* The list *)

\* The passes follow each other (flushQueued).
FlushBegins ==
  /\ up /\ flush.stage = "idle" /\ items # <<>>
  /\ flush' = [Idle EXCEPT !.stage = "running", !.rest = items, !.took = Range(items)]
  /\ UNCHANGED <<store, pc, auth, known, memo, cold, up, items, file, disk, graced>>

Next1 == [flush EXCEPT !.rest = Tail(@), !.asked = FALSE]
\* MUTANT: an item that failed is forgotten.
Keep_Not(r) == Next1
Keep(r) == [Next1 EXCEPT !.remain = Append(@, r)]
Item(r, asked) ==
  flush.stage = "running" /\ flush.rest # <<>> /\ Head(flush.rest) = r /\ flush.asked = asked

FlushAuthorizes(r) ==
  /\ Item(r, FALSE) /\ Authorize(auth[r].by)
  /\ flush' = IF Granted(auth[r].by) THEN [flush EXCEPT !.asked = TRUE] ELSE Keep(r)
  /\ UNCHANGED <<pc, auth, known, memo, cold, up, items, file, disk, graced>>

Accepted(r, keys) == keys \subseteq SettlementKeys /\ status[r] # "none"
FlushSettles(r, billable, cost) ==
  /\ Item(r, TRUE) /\ Settle(r, DeferredKeys, billable, cost)
  /\ flush' = IF Accepted(r, DeferredKeys) THEN Next1 ELSE Keep(r)
  /\ UNCHANGED <<pc, auth, known, memo, cold, up, items, file, disk, graced>>

\* The call or its answer is lost.
FlushFails(r, billable, cost) ==
  /\ \/ Item(r, FALSE) /\ (Authorize(auth[r].by) \/ UNCHANGED store)
     \/ Item(r, TRUE) /\ (Settle(r, DeferredKeys, billable, cost) \/ UNCHANGED store)
  /\ flush' = Keep(r)
  /\ UNCHANGED <<pc, auth, known, memo, cold, up, items, file, disk, graced>>

\* MUTANT: the new list is not saved.
Saving_Not == disk
Saving == "saving"
\* What remains of the pass is the list now, whatever was added meanwhile.
FlushEnds ==
  /\ flush.stage = "running" /\ flush.rest = <<>>
  /\ items' = flush.remain /\ disk' = Saving
  /\ flush' = [Idle EXCEPT !.stage = "saving"]
  /\ UNCHANGED <<store, pc, auth, known, memo, cold, up, file, graced>>

\* A write takes the list as it is then; what fails is not tried again.
Write(done) ==
  /\ disk = "saving" /\ disk' = IF done THEN "saved" ELSE "failed"
  /\ file' = IF done THEN items ELSE file
  /\ flush' = IF flush.stage = "saving" THEN Idle ELSE flush
  /\ UNCHANGED <<store, pc, auth, known, memo, cold, up, items, graced>>

-----------------------------------------------------------------------------
(* The process *)

Crash ==
  /\ up /\ up' = FALSE
  /\ pc' = [r \in Llm |-> IF pc[r] \in {"asking", "serving", "ending"} THEN "gone" ELSE pc[r]]
  /\ memo' = NoMemo /\ items' = <<>> /\ disk' = "saved" /\ flush' = Idle
  /\ UNCHANGED <<store, auth, known, cold, file, graced>>

Start ==
  /\ ~up /\ up' = TRUE /\ cold' = TRUE /\ items' = file
  /\ UNCHANGED <<store, pc, auth, known, memo, file, disk, flush, graced>>

Others == Administer \/ \E r \in Llm : Lapse(r)

Next ==
  \/ \E r \in Llm :
       \/ Ask(r) \/ Authorized(r) \/ Unavailable(r) \/ Finalize(r) \/ Unsettled(r)
       \/ FlushAuthorizes(r)
       \/ \E billable \in BOOLEAN, cost \in 0..MaxCost :
            \/ Settled(r, billable, cost)
            \/ FlushSettles(r, billable, cost) \/ FlushFails(r, billable, cost)
  \/ FlushBegins \/ FlushEnds \/ \E done \in BOOLEAN : Write(done)
  \/ MemoExpires \/ GraceEnds \/ Crash \/ Start
  \/ Others /\ UNCHANGED local

Spec == Init /\ [][Next]_vars

-----------------------------------------------------------------------------
(* Properties *)

Served(r) == pc[r] \in {"serving", "ending", "answered", "lost", "deferred"}
\* Mode and grace allow a deferral: it began in the grace, or the last mode the
\* store had told was shadow, in the answer to a request it did grant as such.
Permitted(r) ==
  \/ r \in graced
  \/ /\ known[r].mode = "shadow" /\ known[r].told \in Llm
     /\ status[known[r].told] \notin {"none", "denied"} /\ known[r].told \notin hard
\* The exception: a deferral of the grace made the memo say shadow, and while no
\* answer of the store corrects it the client is deferred after the grace too.
Assumed(r) == known[r] = Untold("shadow") /\ graced # {}

\* Whatever is remembered, lost or late, a request is served only under an
\* authorization that the store has granted to the client, or under a deferral
\* that mode and grace allowed or that the memo's assumed mode let pass
\* (handleCompletionProxy, authorizeMemo).
ServedIsGranted == \A r \in Llm : Served(r) =>
  \/ auth[r].kind = "granted" /\ status[auth[r].by] \notin {"none", "denied"}
  \/ auth[r].kind = "deferred" /\ (Permitted(auth[r].by) \/ Assumed(auth[r].by))

\* An item leaves the list only when it is settled, when another joins a full
\* list, in a crash, or at the end of a pass that began without it (flush).
PendingKept ==
  [][up' => \A r \in Range(items) \ Range(items') :
       \/ r \in recorded'
       \/ Len(items) = MaxItems /\ \E q \in Llm : pc[q] = "serving" /\ pc'[q] = "deferred"
       \/ flush.stage = "running" /\ r \notin flush.took]_vars

\* What the last save wrote is the list (save, enqueue, flush).
FileIsTheList == up /\ disk = "saved" => file = items

\* Expected: a settlement that was answered has booked the request, when the
\* request had its own authorization (createOpenAiUsageFinalizer).
AnsweredIsBooked == \A r \in Llm :
  pc[r] = "answered" /\ auth[r] = [kind |-> "granted", by |-> r] => r \in recorded
=============================================================================
