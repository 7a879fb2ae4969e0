----------------------------- MODULE BillingStore -----------------------------
(***************************************************************************)
(* The billing centre's database, service-entry/lib/billing-store.js: the  *)
(* wallet of one customer, the reservations of its requests and the usage  *)
(* that was booked.  Every operation is one transaction (BEGIN IMMEDIATE), *)
(* so each is one step here.  Language requests are authorized and settled *)
(* by the managers over HTTP (ManagerBilling), speech requests by the entry *)
(* itself (SpeechBilling); Spec is the store under any calls of its API.   *)
(*                                                                         *)
(* Amounts are counted in reservations: each request reserves one unit,    *)
(* and costs 0..MaxCost units in the end, more than it reserved when the   *)
(* estimate was too low.  Credentials are bound, plans and prices are      *)
(* configured, and all of it happens within one month and one day.  The    *)
(* other limits (tokens, credits) are kept like the limit of requests.     *)
(***************************************************************************)
EXTENDS Integers, FiniteSets

CONSTANTS
  Llm, Tts,      \* ids of language requests and of speech requests
  RequestLimit,  \* language requests per month (monthly_request_limit)
  MaxCost,       \* BOUND: what one request may cost
  Policies,      \* BOUND: what the administrator chooses of mode and activity
  Entries,       \* BOUND: idempotency keys of adjustments by the administrator
  Delta          \* [Entries -> Int], the amount of each

Requests == Llm \cup Tts

ASSUME StoreAssumption ==
  /\ Llm \cap Tts = {} /\ IsFiniteSet(Requests)
  /\ RequestLimit \in Nat /\ MaxCost \in Nat
  /\ Policies \subseteq {"hard", "shadow"} \X BOOLEAN
  /\ Delta \in [Entries -> Int]

VARIABLES
  mode, active,  \* the customer's enforcement mode, and whether it is active
  balance,       \* sum of the wallet ledger
  entries,       \* adjustments in the ledger
  status,        \* of each request's reservation
  hard,          \* reservations made in hard mode
  lapsed,        \* reservations whose expires_at is over
  recorded,      \* requests with a usage event
  counted,       \* requests whose usage event counts for a quota
  charge,        \* what each usage event was charged
  late, overrun  \* history: counted without a live reservation; units taken
                 \* from the wallet that no live reservation covered

store == <<mode, active, balance, entries, status, hard, lapsed, recorded,
           counted, charge, late, overrun>>

Status == {"none", "authorized", "pending", "denied", "settled", "released"}

StoreTypeOK ==
  /\ mode \in {"hard", "shadow"} /\ active \in BOOLEAN
  /\ balance \in Int /\ overrun \in Nat /\ entries \subseteq Entries
  /\ status \in [Requests -> Status]
  /\ charge \in [Requests -> 0..MaxCost]
  /\ hard \subseteq Requests /\ recorded \subseteq Requests
  /\ lapsed \subseteq Llm /\ late \subseteq Llm /\ counted \subseteq Requests

StoreInit ==
  /\ mode = "hard" /\ active = TRUE
  /\ balance = 0 /\ overrun = 0 /\ entries = {}
  /\ status = [r \in Requests |-> "none"] /\ charge = [r \in Requests |-> 0]
  /\ hard = {} /\ lapsed = {} /\ recorded = {} /\ counted = {} /\ late = {}

-----------------------------------------------------------------------------
(* Limits *)

Live(r) == status[r] = "pending" \/ (status[r] = "authorized" /\ r \notin lapsed)
\* The reservations that walletState and limitState subtract.
Held == {r \in hard : Live(r)}
Available == balance - Cardinality(Held)

\* MUTANT: the balance alone decides.
WithinLimits_NotReserved == balance >= 1
\* limitState: the wallet covers one more reservation, the month one more request.
WithinLimits ==
  /\ Available >= 1
  /\ Cardinality((counted \cup Held) \cap Llm) + 1 <= RequestLimit

\* The first statement of every authorization.
Swept == [q \in Requests |->
            IF status[q] = "authorized" /\ q \in lapsed THEN "released" ELSE status[q]]

InMode(r) == hard' = IF mode = "hard" THEN hard \cup {r} ELSE hard

-----------------------------------------------------------------------------
(* Language requests *)

\* A request id that was seen before gets the old answer, whatever became of
\* its reservation.
Authorize(r) ==
  /\ IF status[r] # "none" THEN status' = Swept /\ UNCHANGED hard
     ELSE /\ status' = [Swept EXCEPT ![r] =
                IF active /\ (mode = "shadow" \/ WithinLimits)
                THEN "authorized" ELSE "denied"]
          /\ InMode(r)
  /\ UNCHANGED <<mode, active, balance, entries, lapsed, recorded, counted,
                 charge, late, overrun>>
\* MUTANT: any answer will do.
Granted_Any(r) == TRUE
Granted(r) == status'[r] # "denied"

\* What a charge takes beyond the reservation it replaces.
Beyond(r, c) == IF r \notin Held THEN c ELSE IF c > 0 THEN c - 1 ELSE 0

\* A usage event is written; only measured usage is billable, and only a hard
\* reservation is charged.
Book(r, billable, cost) ==
  LET c == IF billable /\ r \in hard THEN cost ELSE 0 IN
  /\ recorded' = recorded \cup {r}
  /\ counted' = IF billable THEN counted \cup {r} ELSE counted
  /\ late' = IF billable /\ ~Live(r) THEN late \cup {r} ELSE late
  /\ charge' = [charge EXCEPT ![r] = c]
  /\ balance' = balance - c
  /\ overrun' = overrun + Beyond(r, c)
  /\ status' = [status EXCEPT ![r] = IF billable THEN "settled" ELSE "released"]
  /\ UNCHANGED <<mode, active, entries, hard, lapsed>>

\* The fields a settlement may have; one more, and all of it is refused (400).
SettlementKeys == {"requestId", "externalRequestId", "managerId",
  "credentialManagerId", "clientId", "serviceClientId", "model", "status", "ok",
  "terminalState", "usageSource", "inputTokens", "outputTokens", "totalTokens",
  "cachedInputTokens"}

\* MUTANT: what was booked already is booked again.
Booked_Never(r) == FALSE
Booked(r) == r \in recorded
\* The settlement of a request that has no reservation is refused (404); one
\* that was booked or denied gets the same answer again.  A reservation that
\* is over is settled all the same.
Settle(r, keys, billable, cost) ==
  IF /\ keys \subseteq SettlementKeys
     /\ ~Booked(r) /\ status[r] \notin {"none", "denied"}
  THEN Book(r, billable, cost) ELSE UNCHANGED store

-----------------------------------------------------------------------------
(* Speech requests *)

\* Within the wallet and, by dailyOk, within the seconds of the day.
TtsAuthorize(r, dailyOk) ==
  /\ IF status[r] # "none" THEN UNCHANGED <<status, hard>>
     ELSE /\ status' = [status EXCEPT ![r] =
                IF mode = "shadow" \/ (active /\ dailyOk /\ Available >= 1)
                THEN "pending" ELSE "denied"]
          /\ InMode(r)
  /\ UNCHANGED <<mode, active, balance, entries, lapsed, recorded, counted,
                 charge, late, overrun>>

Least(a, b) == IF a <= b THEN a ELSE b
\* MUTANT: the cap forgets the reservations of other requests.
Cap_Balance(r) == IF balance > 0 THEN balance ELSE 0
\* MUTANT: an overdrawn wallet pays back.
Cap_Signed(r) == Available + IF r \in Held THEN 1 ELSE 0
\* What the wallet can bear: its own reservation and what nobody reserved.
Cap(r) == LET a == Available + IF r \in Held THEN 1 ELSE 0 IN IF a > 0 THEN a ELSE 0

\* recordTtsUsage of a request with a reservation: the charge is capped.
TtsRecord(r, ok, cost) ==
  LET c == IF ok /\ r \in hard THEN Least(cost, Cap(r)) ELSE 0 IN
  /\ status[r] \notin {"none", "denied"}
  /\ IF r \in recorded THEN UNCHANGED store
     ELSE /\ recorded' = recorded \cup {r}
          /\ counted' = IF ok THEN counted \cup {r} ELSE counted
          /\ charge' = [charge EXCEPT ![r] = c]
          /\ balance' = balance - c
          /\ status' = [status EXCEPT ![r] = "settled"]
          /\ UNCHANGED <<mode, active, entries, hard, lapsed, late, overrun>>

-----------------------------------------------------------------------------
(* The administrator, and time *)

\* adjustBalance, once per idempotency key.
Adjust(k) ==
  /\ k \notin entries /\ entries' = entries \cup {k}
  /\ balance' = balance + Delta[k]
  /\ overrun' = overrun + IF Delta[k] < 0 THEN -Delta[k] ELSE 0
  /\ UNCHANGED <<mode, active, status, hard, lapsed, recorded, counted, charge, late>>

\* updateCustomer
SetPolicy ==
  /\ \E p \in Policies : mode' = p[1] /\ active' = p[2]
  /\ UNCHANGED <<balance, entries, status, hard, lapsed, recorded, counted,
                 charge, late, overrun>>

Lapse(r) ==
  /\ status[r] = "authorized" /\ r \notin lapsed /\ lapsed' = lapsed \cup {r}
  /\ UNCHANGED <<mode, active, balance, entries, status, hard, recorded,
                 counted, charge, late, overrun>>

Administer == SetPolicy \/ \E k \in Entries : Adjust(k)

-----------------------------------------------------------------------------

\* What managers, the administrator and time do to the store.
LlmCall(r) ==
  \/ Authorize(r)
  \/ \E billable \in BOOLEAN, cost \in 0..MaxCost :
       Settle(r, SettlementKeys, billable, cost)
  \/ Lapse(r)

TtsCall(r) ==
  \/ \E dailyOk \in BOOLEAN : TtsAuthorize(r, dailyOk)
  \/ \E ok \in BOOLEAN, cost \in 0..MaxCost : TtsRecord(r, ok, cost)

OtherCalls == Administer \/ \E r \in Llm : LlmCall(r)
StoreNext == OtherCalls \/ \E r \in Tts : TtsCall(r)
StoreSpec == StoreInit /\ [][StoreNext]_store

-----------------------------------------------------------------------------
(* Properties *)

\* The wallet covers every live reservation, except for what was taken from it
\* without one: costs above the estimate, charges of reservations that had
\* lapsed, and withdrawals by the administrator (limitState, settleRequest,
\* recordTtsUsage's cap).
Solvent == Cardinality(Held) <= balance + overrun

\* The month's limit of requests is exceeded only by requests whose reservation
\* had lapsed when they were settled, and by what was let through in shadow mode.
QuotaHolds ==
  Cardinality((((counted \cup Held) \cap Llm) \cap hard) \ late) <= RequestLimit

\* However often a call is repeated or comes late, the customer sees a wallet:
\* a reservation needs free funds, and every request is paid at most once
\* (authorizeRequest, settleRequest, recordTtsUsage).
Abstract == INSTANCE Wallet WITH funds <- balance, adjusted <- entries,
                                 reserved <- Held, paid <- recorded
ImplementsWallet == Abstract!Spec
=============================================================================
