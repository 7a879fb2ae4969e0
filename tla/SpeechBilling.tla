---------------------------- MODULE SpeechBilling ----------------------------
(***************************************************************************)
(* How speech requests are billed.  The entry authorizes a request in its  *)
(* own database and calls the TTS gateway, which keeps a durable receipt   *)
(* of every synthesis.  The answer alone settles nothing unless it is an   *)
(* error: a reconciler asks for the receipts of the oldest open            *)
(* reservations, one flush at a time, until each is complete               *)
(* (service-entry/server.js, lib/tts-bridge.js, tts-platform/gateway).     *)
(* Both processes crash and restart at any step; what is on the wire then  *)
(* is lost or, when it had arrived, goes on.  Language requests share the  *)
(* wallet.                                                                 *)
(***************************************************************************)
EXTENDS BillingStore, Sequences

CONSTANTS
  Page,    \* reservations a flush looks at (LIMIT 100)
  Unnamed  \* requests whose engine name the store refuses to book

ASSUME SpeechAssumption ==
  Page \in Nat \ {0} /\ Unnamed \subseteq Tts

VARIABLES
  call,     \* the entry's part of a request
  line,     \* its reservations in the order of created_at
  aged,     \* reservations made more than half an hour ago
  wire,     \* requests on their way to the TTS gateway
  handler,  \* the gateway's part of a request
  tasks,    \* the syntheses it works on
  receipt,  \* synthesis_receipts
  flush,    \* the reconciler: what it still has to look at, and what it read
  up,       \* which of the two processes run
  refused   \* history: answered with an error

speech == <<call, line, aged, wire, handler, tasks, receipt, flush, up, refused>>
vars == <<store, speech>>

Hosts == {"entry", "gateway"}
Reply == {"none", "unread", "succeeded", "failed"}
NoFlush == [active |-> FALSE, reply |-> [r \in Tts |-> "none"]]

TypeOK ==
  /\ StoreTypeOK
  /\ call \in [Tts -> {"new", "held", "sent", "over"}]
  /\ line \in Seq(Tts) /\ aged \subseteq Tts /\ wire \subseteq Tts /\ refused \subseteq Tts
  /\ tasks \subseteq Tts
  /\ handler \in [Tts -> {"none", "runs", "answered"}]
  /\ receipt \in [Tts -> {"none", "pending", "succeeded", "failed"}]
  /\ flush \in [active : BOOLEAN, reply : [Tts -> Reply]]
  /\ up \subseteq Hosts

Init ==
  /\ StoreInit
  /\ call = [r \in Tts |-> "new"] /\ line = <<>>
  /\ aged = {} /\ wire = {} /\ refused = {} /\ tasks = {}
  /\ handler = [r \in Tts |-> "none"] /\ receipt = [r \in Tts |-> "none"]
  /\ flush = NoFlush
  /\ up = Hosts

-----------------------------------------------------------------------------
(* The entry handles a request *)

Reserve(r, dailyOk) ==
  /\ "entry" \in up /\ call[r] = "new"
  /\ TtsAuthorize(r, dailyOk)
  /\ LET allowed == status'[r] = "pending" IN
     /\ call' = [call EXCEPT ![r] = IF allowed THEN "held" ELSE "over"]
     /\ line' = IF allowed THEN Append(line, r) ELSE line
  /\ UNCHANGED <<aged, wire, handler, tasks, receipt, flush, up, refused>>

\* The request goes out, or no connection is made: then the reservation stays.
Send(r) ==
  /\ call[r] = "held"
  /\ IF "gateway" \in up
     THEN call' = [call EXCEPT ![r] = "sent"] /\ wire' = wire \cup {r}
     ELSE call' = [call EXCEPT ![r] = "over"] /\ UNCHANGED wire
  /\ UNCHANGED <<store, line, aged, handler, tasks, receipt, flush, up, refused>>

\* A timeout, a connection that breaks, a client that leaves.
GiveUp(r) ==
  /\ call[r] = "sent" /\ call' = [call EXCEPT ![r] = "over"]
  /\ UNCHANGED <<store, line, aged, wire, handler, tasks, receipt, flush, up, refused>>

\* recordTtsUsage: what it throws is logged, and the reservation stays open.
Record(r, ok, cost) ==
  IF r \in Unnamed THEN UNCHANGED store ELSE TtsRecord(r, ok, cost)

\* The handler answers; an error fails its pending receipts first.  If the
\* entry still waits, an error settles the request and a success does not.
Answer(r, good) ==
  /\ handler[r] = "runs" /\ (good => receipt[r] # "none")
  /\ handler' = [handler EXCEPT ![r] = "answered"]
  /\ receipt' = IF ~good /\ receipt[r] = "pending"
                THEN [receipt EXCEPT ![r] = "failed"] ELSE receipt
  /\ IF call[r] = "sent"
     THEN /\ call' = [call EXCEPT ![r] = "over"]
          /\ IF good THEN UNCHANGED <<store, refused>>
             ELSE Record(r, FALSE, 0) /\ refused' = refused \cup {r}
     ELSE UNCHANGED <<store, call, refused>>
  /\ UNCHANGED <<line, aged, wire, tasks, flush, up>>

-----------------------------------------------------------------------------
(* The TTS gateway *)

\* The handler writes the pending receipt before it waits for its turn.
Arrive(r) ==
  /\ "gateway" \in up /\ r \in wire
  /\ wire' = wire \ {r}
  /\ handler' = [handler EXCEPT ![r] = "runs"]
  /\ UNCHANGED <<store, call, line, aged, tasks, receipt, flush, up, refused>>

Begin(r) ==
  /\ handler[r] = "runs" /\ receipt[r] = "none"
  /\ receipt' = [receipt EXCEPT ![r] = "pending"]
  /\ tasks' = tasks \cup {r}
  /\ UNCHANGED <<store, call, line, aged, wire, handler, flush, up, refused>>

\* Synthesis ends, in the handler or in a job that outlives it, or is cancelled.
Finish(r, result) ==
  /\ r \in tasks /\ tasks' = tasks \ {r}
  /\ receipt' = [receipt EXCEPT ![r] = IF @ = "pending" THEN result ELSE @]
  /\ UNCHANGED <<store, call, line, aged, wire, handler, flush, up, refused>>

-----------------------------------------------------------------------------
(* The reconciler *)

Open(r) == status[r] = "pending"

\* listPendingTtsRequests
Oldest ==
  LET open == SelectSeq(line, Open)
  IN {open[i] : i \in {k \in 1..Len(open) : k <= Page}}

\* One flush at a time, after an answer and every five seconds.
FlushBegins ==
  /\ "entry" \in up /\ ~flush.active /\ Oldest # {}
  /\ flush' = [active |-> TRUE, reply |-> [r \in Tts |-> IF r \in Oldest THEN "unread" ELSE "none"]]
  /\ UNCHANGED <<store, call, line, aged, wire, handler, tasks, receipt, up, refused>>

Drop(r) == [flush EXCEPT !.reply[r] = "none"]

\* MUTANT: a receipt that is not there yet counts as a failure.
Lost_Young(r) == receipt[r] = "none"
\* No receipt half an hour after the reservation: the request never arrived.
Lost(r) == receipt[r] = "none" /\ r \in aged

\* MUTANT: a receipt is taken as it is.
Complete_Always(r) == TRUE
Complete(r) == receipt[r] \in {"succeeded", "failed"}

\* The receipt is read; when it is not complete, or the gateway does not
\* answer, the reservation waits for the next flush.
Read(r) ==
  /\ flush.reply[r] = "unread" /\ "gateway" \in up
  /\ flush' = IF Lost(r) THEN [flush EXCEPT !.reply[r] = "failed"]
              ELSE IF Complete(r)
              THEN [flush EXCEPT !.reply[r] = receipt[r]] ELSE Drop(r)
  /\ UNCHANGED <<store, call, line, aged, wire, handler, tasks, receipt, up, refused>>
ReadFails(r) ==
  /\ flush.reply[r] = "unread" /\ flush' = Drop(r)
  /\ UNCHANGED <<store, call, line, aged, wire, handler, tasks, receipt, up, refused>>

\* What was read is booked, though an error may have settled it meanwhile.
Reconcile(r, cost) ==
  /\ flush.reply[r] \in {"succeeded", "failed"}
  /\ Record(r, flush.reply[r] = "succeeded", cost)
  /\ flush' = Drop(r)
  /\ UNCHANGED <<call, line, aged, wire, handler, tasks, receipt, up, refused>>

FlushEnds ==
  /\ flush.active /\ \A r \in Tts : flush.reply[r] = "none"
  /\ flush' = NoFlush
  /\ UNCHANGED <<store, call, line, aged, wire, handler, tasks, receipt, up, refused>>

-----------------------------------------------------------------------------
(* Time, restarts *)

\* Half an hour is longer than a request is on its way.
Ages(r) ==
  /\ status[r] = "pending" /\ r \notin aged /\ aged' = aged \cup {r}
  /\ call[r] # "held" /\ r \notin wire /\ ~(handler[r] = "runs" /\ receipt[r] = "none")
  /\ UNCHANGED <<store, call, line, wire, handler, tasks, receipt, flush, up, refused>>

Down(h) == h \in up /\ up' = up \ {h}

\* The reservations are all that is left.
EntryCrashes ==
  /\ Down("entry")
  /\ call' = [r \in Tts |-> IF call[r] = "new" THEN "new" ELSE "over"]
  /\ flush' = NoFlush
  /\ UNCHANGED <<store, line, aged, wire, handler, tasks, receipt, refused>>

\* No handler and no job survives.
GatewayCrashes ==
  /\ Down("gateway")
  /\ wire' = {} /\ tasks' = {}
  /\ handler' = [r \in Tts |-> IF handler[r] = "runs" THEN "answered" ELSE handler[r]]
  /\ UNCHANGED <<store, call, line, aged, receipt, flush, refused>>

EntryStarts ==
  /\ "entry" \notin up /\ up' = up \cup {"entry"}
  /\ UNCHANGED <<store, call, line, aged, wire, handler, tasks, receipt, flush, refused>>

\* MUTANT: receipts of lost tasks stay as they are.
Restored_AsIs == receipt
\* A worker cannot resume a task after a restart.
Restored == [r \in Tts |-> IF receipt[r] = "pending" THEN "failed" ELSE receipt[r]]
GatewayStarts ==
  /\ "gateway" \notin up /\ up' = up \cup {"gateway"}
  /\ receipt' = Restored
  /\ UNCHANGED <<store, call, line, aged, wire, handler, tasks, flush, refused>>

-----------------------------------------------------------------------------

Entry(r) == Send(r) \/ GiveUp(r) \/ \E good \in BOOLEAN : Answer(r, good)
Gateway(r) == Arrive(r) \/ Begin(r) \/ \E x \in {"succeeded", "failed"} : Finish(r, x)
Looks(r) == Read(r) \/ ReadFails(r) \/ \E cost \in 0..MaxCost : Reconcile(r, cost)

Next ==
  \/ \E r \in Tts : \/ \E dailyOk \in BOOLEAN : Reserve(r, dailyOk)
                    \/ Entry(r) \/ Gateway(r) \/ Looks(r) \/ Ages(r)
  \/ FlushBegins \/ FlushEnds
  \/ EntryCrashes \/ EntryStarts \/ GatewayCrashes \/ GatewayStarts
  \/ OtherCalls /\ UNCHANGED speech

Spec == Init /\ [][Next]_vars

\* What runs goes on; time passes; a receipt that can be read again and again
\* is read in the end.
Fairness ==
  /\ \A r \in Tts : /\ WF_vars(Entry(r)) /\ WF_vars(Gateway(r))
                    /\ WF_vars(Looks(r)) /\ SF_vars(Read(r)) /\ WF_vars(Ages(r))
  /\ WF_vars(FlushBegins) /\ WF_vars(FlushEnds)
FairSpec == Spec /\ Fairness

-----------------------------------------------------------------------------
(* Properties *)

\* The receipt decides, whichever of the answer, the reconciler and half an
\* hour comes first and whatever was lost on the way: only a synthesis that
\* succeeded is billed, and one that succeeded is billed unless the caller got
\* an error instead of its audio (handleTtsGateway, createTtsReconciler).
ReceiptDecides == \A r \in Tts \cap recorded :
  /\ r \in counted => receipt[r] = "succeeded"
  /\ receipt[r] = "succeeded" => r \in counted \cup refused

\* No reservation stays open once both processes stay up: the rows are the
\* retry queue, also after a restart.
SpeechSettles ==
  <>[](up = Hosts) => \A r \in Tts \ Unnamed : Open(r) ~> ~Open(r)
=============================================================================
