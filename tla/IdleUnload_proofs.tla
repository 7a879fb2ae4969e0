-------------------------- MODULE IdleUnload_proofs --------------------------
(***************************************************************************)
(* Proofs about IdleUnload, for any slots, callers, keys and ledger size:  *)
(* as long as no copy of the ledger is written over a newer file, records  *)
(* and wake keys belong together.  The invariant adds that no key is named *)
(* twice and that no key that is about to be removed is that of a record.  *)
(***************************************************************************)
EXTENDS IdleUnload, TLAPS

Holding == tick.at \in {"kept", "stopped", "held"}

KeysAreDistinct ==
  \A s, t \in Slots : ledger[s] \in Keys /\ ledger[s] = ledger[t] => s = t

TickHoldsItsKey ==
  /\ tick.at # "written" => tick.gone = {}
  /\ Holding /\ tick.key \in Keys =>
       /\ tick.key \in secrets \ KeysOf(ledger)
       /\ \A c \in Callers : tick.key # op[c].key /\ tick.key \notin op[c].gone

GoneIsUnnamed ==
  /\ tick.gone \cap KeysOf(ledger) = {}
  /\ \A c \in Callers :
       /\ op[c].gone \cap KeysOf(ledger) = {}
       /\ op[c].at # "written" => op[c].gone = {}
       /\ op[c].key \in Keys => \A t \in Slots : ledger[t] = op[c].key => t = op[c].slot

Together ==
  /\ RecordsHaveKeys /\ KeysHaveRecords
  /\ KeysAreDistinct /\ TickHoldsItsKey /\ GoneIsUnnamed

SleepInv == TypeOK /\ (stale \/ Together)

USE SleepAssumption

-----------------------------------------------------------------------------
(* Types *)

LEMMA Idle ==
  /\ NoLedger \in Ledger /\ Quiet \in Ticks /\ NoCall \in Calls
  /\ Quiet.at = "idle" /\ Quiet.key = NoKey /\ Quiet.gone = {}
  /\ NoCall.at = "idle" /\ NoCall.why = "forget"
  /\ NoCall.key = NoKey /\ NoCall.gone = {}
<1>1. (CHOOSE s \in Slots : TRUE) \in Slots
  OBVIOUS
<1>2. NoLedger \in Ledger
  BY DEF NoLedger, Ledger, Record
<1>3. QED BY <1>1, <1>2 DEF Quiet, NoCall, Ticks, Calls

LEMMA PutType ==
  ASSUME NEW copy \in Ledger, NEW s \in Slots, NEW key \in Keys \cup {NoKey},
         NEW file \in Put(copy, s, key)
  PROVE  file \in Ledger
BY DEF Put, Ledger, Record

LEMMA InitInv == Init => SleepInv
BY Idle DEF Init, SleepInv, TypeOK, Together, RecordsHaveKeys, KeysHaveRecords,
  KeysOf, Holders, KeysAreDistinct, TickHoldsItsKey, Holding, GoneIsUnnamed,
  NoLedger, Ledger, Record

LEMMA TickType == ASSUME TypeOK, Tick PROVE TypeOK'
<1>1. ASSUME NEW s \in Slots, TickKeeps(s) PROVE TypeOK'
  <2>1. PICK key \in Keys \cup {NoKey} :
          /\ tick' = [tick EXCEPT !.at = "kept", !.slot = s, !.key = key]
          /\ secrets' = secrets \cup ({key} \cap Keys)
    BY <1>1 DEF TickKeeps
  <2>2. UNCHANGED <<up, ledger, op, stale, stray>> BY <1>1 DEF TickKeeps
  <2>3. QED BY <2>1, <2>2 DEF TypeOK, Ticks
<1>2. CASE TickStops BY <1>2, Idle DEF TypeOK, Ticks, Calls, TickStops
<1>3. CASE TickStopFails BY <1>3, Idle DEF TypeOK, Ticks, Calls, TickStopFails, Release
<1>4. CASE TickReads BY <1>4, Idle DEF TypeOK, Ticks, Calls, TickReads
<1>5. CASE TickWrites
  <2>1. PICK file \in Put(tick.copy, tick.slot, tick.key) :
          /\ Write(tick.copy, file)
          /\ tick' = [Quiet EXCEPT !.at = "written", !.gone = KeysOf(tick.copy) \ KeysOf(file)]
    BY <1>5 DEF TickWrites
  <2>2. file \in Ledger BY PutType DEF TypeOK, Ticks
  <2>3. KeysOf(tick.copy) \ KeysOf(file) \in SUBSET Keys BY DEF KeysOf
  <2>4. tick' \in Ticks /\ tick'.at = "written" BY <2>1, <2>3, Idle DEF Ticks
  <2>5. UNCHANGED <<up, secrets, op, stray>> BY <1>5 DEF TickWrites
  <2>6. QED BY <2>1, <2>2, <2>4, <2>5 DEF TypeOK, Write
<1>6. CASE TickReleases BY <1>6, Idle DEF TypeOK, Ticks, Calls, TickReleases, Release
<1>7. CASE TickLosesRecord BY <1>7, Idle DEF TypeOK, TickLosesRecord
<1>8. QED BY <1>1, <1>2, <1>3, <1>4, <1>5, <1>6, <1>7 DEF Tick

LEMMA CallType == ASSUME TypeOK, NEW c \in Callers, Call(c) PROVE TypeOK'
<1>1. ASSUME NEW s \in Slots, WakeAsks(c, s) PROVE TypeOK'
  <2>1. ledger[s] \in Keys \cup {NoKey} BY <1>1 DEF WakeAsks, TypeOK
  <2>2. [NoCall EXCEPT !.at = "asked", !.why = "wake", !.slot = s, !.key = ledger[s]] \in Calls
    BY <2>1, Idle DEF Calls
  <2>3. QED BY <1>1, <2>2, Idle DEF TypeOK, Calls, WakeAsks
<1>2. ASSUME NEW s \in Slots, Forget(c, s) PROVE TypeOK'
  BY <1>2, Idle DEF TypeOK, Ticks, Calls, Forget
<1>3. ASSUME NEW yes \in BOOLEAN, WakeChecks(c, yes) PROVE TypeOK'
  BY <1>3, Idle DEF TypeOK, Ticks, Calls, WakeChecks
<1>4. ASSUME NEW yes \in BOOLEAN, WakeStarts(c, yes) PROVE TypeOK'
  <2> DEFINE why == IF yes THEN "wake" ELSE "failed"
             next == [op[c] EXCEPT !.at = "read", !.why = why]
  <2>1. op[c] \in Calls BY DEF TypeOK
  <2>2. next \in Calls /\ next.at = "read" BY <2>1 DEF Calls
  <2>3. op' = [op EXCEPT ![c] = next] BY <1>4, <2>1 DEF WakeStarts, TypeOK, Calls
  <2>4. UNCHANGED <<up, ledger, secrets, tick, stale, stray>> BY <1>4 DEF WakeStarts
  <2> HIDE DEF next
  <2>5. QED BY <2>2, <2>3, <2>4 DEF TypeOK
<1>5. CASE Reads(c)
  <2> DEFINE next == [op[c] EXCEPT !.at = "held", !.copy = ledger]
  <2>1. op[c] \in Calls /\ ledger \in Ledger BY DEF TypeOK
  <2>2. next \in Calls /\ next.at = "held" BY <2>1 DEF Calls
  <2>3. op' = [op EXCEPT ![c] = next] \/ op' = [op EXCEPT ![c] = NoCall]
    BY <1>5, <2>1 DEF Reads, TypeOK, Calls
  <2>4. UNCHANGED <<up, ledger, secrets, tick, stale, stray>> BY <1>5 DEF Reads
  <2> HIDE DEF next
  <2>5. QED BY <2>2, <2>3, <2>4, Idle DEF TypeOK
<1>6. CASE Writes(c)
  <2>. DEFINE me == op[c]
              cut == [me.copy EXCEPT ![me.slot] = Awake]
              next == [NoCall EXCEPT !.at = "written", !.why = me.why, !.slot = me.slot,
                                     !.gone = {me.key, me.copy[me.slot]} \cap Keys]
  <2>1. me \in Calls BY DEF TypeOK
  <2>2. cut \in Ledger BY <2>1 DEF Calls, Ledger, Record
  <2>3. next \in Calls /\ next.at = "written" BY <2>1, Idle DEF Calls
  <2>4. CASE me.why = "failed"
    BY <1>6, <2>1, <2>4, Idle DEF TypeOK, Calls, Writes, Write
  <2>5. CASE me.why # "failed"
    <3>1. ledger' = cut /\ stale' \in BOOLEAN /\ UNCHANGED <<up, secrets, tick, stray>>
      BY <1>6, <2>5 DEF Writes, Write
    <3>2. op' = [op EXCEPT ![c] = next] \/ op' = [[op EXCEPT ![c] = next] EXCEPT ![c] = next]
      BY <1>6, <2>5 DEF Writes
    <3>3. QED BY <2>2, <2>3, <3>1, <3>2 DEF TypeOK
  <2>6. QED BY <2>4, <2>5
<1>7. CASE Releases(c) BY <1>7, Idle DEF TypeOK, Ticks, Calls, Releases, Release
<1>8. CASE LedgerFails(c)
  <2>. DEFINE next == [op[c] EXCEPT !.at = "read", !.why = "failed", !.copy = NoLedger]
  <2>1. op[c] \in Calls BY DEF TypeOK
  <2>2. next \in Calls /\ next.at = "read" BY <2>1, Idle DEF Calls
  <2>3. op' = [op EXCEPT ![c] = next] \/ op' = [op EXCEPT ![c] = NoCall]
    BY <1>8 DEF LedgerFails
  <2>4. UNCHANGED <<up, ledger, secrets, tick, stale, stray>> BY <1>8 DEF LedgerFails
  <2>. HIDE DEF next
  <2>5. QED BY <2>2, <2>3, <2>4, Idle DEF TypeOK
<1>9. QED BY <1>1, <1>2, <1>3, <1>4, <1>5, <1>6, <1>7, <1>8 DEF Call

-----------------------------------------------------------------------------
(* Records and keys stay together *)

USE DEF Together, RecordsHaveKeys, KeysHaveRecords, KeysOf, Holders, Holding,
  KeysAreDistinct, TickHoldsItsKey, GoneIsUnnamed

LEMMA KeepsTogether ==
  ASSUME TypeOK, ~stale, Together, NEW s \in Slots, TickKeeps(s)
  PROVE  Together'
<1>1. PICK key \in Keys \cup {NoKey} :
        /\ key \in Keys => key \notin Used
        /\ tick' = [tick EXCEPT !.at = "kept", !.slot = s, !.key = key]
        /\ secrets' = secrets \cup ({key} \cap Keys)
  BY DEF TickKeeps
<1>2. UNCHANGED <<up, ledger, op, stale, stray>> /\ tick.at = "idle"
  BY DEF TickKeeps
<1>3. tick.gone = {} /\ tick'.gone = {} /\ tick'.at = "kept" /\ tick'.key = key
  BY <1>1, <1>2 DEF TypeOK, Ticks
<1>4. QED BY <1>1, <1>2, <1>3 DEF TypeOK, Used

LEMMA StopsTogether ==
  ASSUME TypeOK, ~stale, Together, TickStops \/ TickReads
  PROVE  Together'
<1>1. /\ tick'.at \in {"stopped", "held"} /\ tick.at \in {"kept", "stopped"}
      /\ tick'.key = tick.key /\ tick'.gone = tick.gone
      /\ UNCHANGED <<ledger, secrets, op, stale, stray>>
  <2>1. tick \in Ticks BY DEF TypeOK
  <2>2. CASE TickStops BY <2>1, <2>2 DEF Ticks, TickStops
  <2>3. CASE TickReads BY <2>1, <2>3 DEF Ticks, TickReads
  <2>4. QED BY <2>2, <2>3
<1>2. QED BY <1>1

LEMMA StopFailsTogether ==
  ASSUME TypeOK, ~stale, Together, TickStopFails
  PROVE  Together'
BY Idle DEF TypeOK, Ticks, TickStopFails, Release

LEMMA TickReleasesTogether ==
  ASSUME TypeOK, ~stale, Together, TickReleases
  PROVE  Together'
BY Idle DEF TypeOK, Ticks, TickReleases, Release

\* The key that is left without a record is a stray one.
LEMMA LosesRecordTogether ==
  ASSUME TypeOK, ~stale, Together, TickLosesRecord
  PROVE  Together'
BY Idle DEF TypeOK, Ticks, TickLosesRecord

LEMMA AsksTogether ==
  ASSUME TypeOK, ~stale, Together, NEW c \in Callers, NEW s \in Slots,
         WakeAsks(c, s) \/ Forget(c, s)
  PROVE  Together'
<1>1. CASE WakeAsks(c, s)
  <2>1. /\ op[c] = NoCall /\ ledger[s] \in secrets \cup {NoKey}
        /\ UNCHANGED <<ledger, secrets, tick, stale, stray>>
    BY <1>1 DEF TypeOK, WakeAsks
  <2>2. /\ op'[c].at = "asked" /\ op'[c].slot = s
        /\ op'[c].key = ledger[s] /\ op'[c].gone = {}
        /\ \A d \in Callers \ {c} : op'[d] = op[d]
    BY <1>1, Idle DEF TypeOK, Calls, WakeAsks
  <2>3. KeysAreDistinct' /\ TickHoldsItsKey'
    BY <2>1, <2>2
  <2>4. GoneIsUnnamed'
    BY <2>1, <2>2
  <2>5. UNCHANGED Holders
    BY <2>1, <2>2, Idle
  <2>6. QED BY <2>1, <2>3, <2>4, <2>5
<1>2. CASE Forget(c, s)
  BY <1>2, Idle DEF TypeOK, Calls, Forget
<1>3. QED BY <1>1, <1>2

LEMMA StartsTogether ==
  ASSUME TypeOK, ~stale, Together, NEW c \in Callers, NEW yes \in BOOLEAN,
         WakeChecks(c, yes) \/ WakeStarts(c, yes)
  PROVE  Together'
BY Idle DEF TypeOK, Calls, WakeChecks, WakeStarts

LEMMA ReadsTogether ==
  ASSUME TypeOK, ~stale, Together, NEW c \in Callers, Reads(c)
  PROVE  Together'
BY Idle DEF TypeOK, Calls, Reads

LEMMA LedgerFailsTogether ==
  ASSUME TypeOK, ~stale, Together, NEW c \in Callers, LedgerFails(c)
  PROVE  Together'
<1>1. op[c] \in Calls /\ op[c].at # "written" BY DEF TypeOK, LedgerFails
<1>2. /\ op'[c].gone = {} /\ op'[c].at # "written"
      /\ op'[c].key \in Keys => op'[c].key = op[c].key /\ op'[c].slot = op[c].slot
      /\ \A d \in Callers \ {c} : op'[d] = op[d]
      /\ UNCHANGED <<up, ledger, secrets, tick, stale, stray>>
  BY <1>1, Idle DEF TypeOK, Calls, LedgerFails
<1>3. QED BY <1>1, <1>2

LEMMA ReleasesTogether ==
  ASSUME TypeOK, ~stale, Together, NEW c \in Callers, Releases(c)
  PROVE  Together'
BY Idle DEF TypeOK, Calls, Releases, Release

\* Nothing is named twice after a record is put: the new key was nowhere.
LEMMA TickWritesTogether ==
  ASSUME TypeOK, ~stale, Together, TickWrites, ~stale'
  PROVE  Together'
<1>1. PICK file \in Put(tick.copy, tick.slot, tick.key) :
        /\ Write(tick.copy, file)
        /\ tick' = [Quiet EXCEPT !.at = "written", !.gone = KeysOf(tick.copy) \ KeysOf(file)]
  BY DEF TickWrites
<1>2. /\ tick.copy = ledger /\ ledger' = file /\ tick.at = "held"
      /\ UNCHANGED <<secrets, op, stray>>
  BY <1>1 DEF TickWrites, Write
<1>3. tick.slot \in Slots /\ tick.key \in Keys \cup {NoKey} /\ tick.gone = {}
  BY <1>2 DEF TypeOK, Ticks
<1>4. \A t \in Slots : \/ file[t] = ledger[t] /\ t # tick.slot
                       \/ file[t] = Awake /\ t # tick.slot
                       \/ file[t] = tick.key /\ t = tick.slot
  BY <1>2, <1>3 DEF Put, TypeOK, Ledger
<1>5. /\ tick'.at = "written"
      /\ tick'.gone = KeysOf(ledger) \ KeysOf(file)
  BY <1>1, <1>2, Idle DEF Ticks
<1>6. file[tick.slot] = tick.key
  BY <1>3, <1>4
<1>7. RecordsHaveKeys' /\ KeysAreDistinct' /\ TickHoldsItsKey'
  BY <1>2, <1>3, <1>4, <1>5
<1>8. GoneIsUnnamed'
  BY <1>2, <1>3, <1>4, <1>5
<1>9. KeysHaveRecords'
  BY <1>2, <1>3, <1>5, <1>6
<1>10. QED BY <1>7, <1>8, <1>9

LEMMA WritesTogether ==
  ASSUME TypeOK, ~stale, Together, NEW c \in Callers, Writes(c), ~stale'
  PROVE  Together'
<1>. DEFINE me == op[c]
<1>1. /\ me \in Calls /\ me.copy = ledger /\ me.at = "held" /\ me.gone = {}
      /\ UNCHANGED <<secrets, tick, stray>>
  BY DEF TypeOK, Writes, Write
<1>2. CASE me.why = "failed"
  <2>1. /\ ledger' = ledger /\ op'[c].gone = {} /\ op'[c].key = NoKey
        /\ \A d \in Callers \ {c} : op'[d] = op[d]
    BY <1>1, <1>2, Idle DEF TypeOK, Writes, Write
  <2>2. QED BY <1>1, <2>1
<1>3. CASE me.why # "failed"
  <2>. DEFINE next == [NoCall EXCEPT !.at = "written", !.why = me.why, !.slot = me.slot,
                                     !.gone = {me.key, me.copy[me.slot]} \cap Keys]
  <2>0. /\ ledger' = [ledger EXCEPT ![me.slot] = Awake]
        /\ op' = [op EXCEPT ![c] = next]
    BY <1>1, <1>3 DEF Writes, Write
  <2>a. /\ next.at = "written" /\ next.key = NoKey
        /\ next.gone = {me.key, ledger[me.slot]} \cap Keys
    BY <1>1, Idle DEF Calls
  <2>b. op'[c] = next /\ \A d \in Callers \ {c} : op'[d] = op[d]
    BY <2>0 DEF TypeOK
  <2>1. /\ ledger' = [ledger EXCEPT ![me.slot] = Awake]
        /\ op'[c].at = "written" /\ op'[c].key = NoKey
        /\ op'[c].gone = {me.key, ledger[me.slot]} \cap Keys
        /\ \A d \in Callers \ {c} : op'[d] = op[d]
    BY <2>0, <2>a, <2>b
  <2>2. me.slot \in Slots /\ ledger'[me.slot] = Awake
        /\ \A t \in Slots \ {me.slot} : ledger'[t] = ledger[t]
    BY <1>1, <2>1 DEF TypeOK, Calls, Ledger
  <2>3. RecordsHaveKeys' /\ KeysAreDistinct'
    BY <1>1, <2>2
  <2>4. TickHoldsItsKey'
    BY <1>1, <2>1, <2>2
  <2>5. GoneIsUnnamed'
    BY <1>1, <2>1, <2>2
  <2>6. KeysHaveRecords'
    BY <1>1, <2>1, <2>2
  <2>7. QED BY <2>3, <2>4, <2>5, <2>6
<1>4. QED BY <1>2, <1>3

LEMMA OthersTogether ==
  ASSUME TypeOK, ~stale, Together, NEW s \in Slots, Others(s)
  PROVE  Together'
BY DEF Others

LEMMA CrashTogether ==
  ASSUME TypeOK, ~stale, Together, Crash
  PROVE  Together'
BY Idle DEF TypeOK, Crash

LEMMA NextInv == ASSUME SleepInv, [Next]_vars PROVE SleepInv'
<1>. USE DEF SleepInv
<1>. HIDE DEF Together, RecordsHaveKeys, KeysHaveRecords, KeysOf, Holders,
  KeysAreDistinct, TickHoldsItsKey, GoneIsUnnamed
<1>1. CASE UNCHANGED vars
  <2>1. TypeOK' BY <1>1 DEF vars, TypeOK
  <2>2. Together' = Together
    BY <1>1 DEF vars, Together, RecordsHaveKeys, KeysHaveRecords, KeysOf, Holders,
      KeysAreDistinct, TickHoldsItsKey, GoneIsUnnamed
  <2>3. QED BY <1>1, <2>1, <2>2 DEF vars
<1>2. CASE Tick
  <2>1. TypeOK' BY <1>2, TickType
  <2>2. stale => stale'
    BY <1>2 DEF Tick, TickKeeps, TickStops, TickStopFails, TickReads, TickWrites,
      TickLosesRecord, TickReleases, Write
  <2>3. ASSUME ~stale' PROVE Together'
    BY <1>2, <2>2, <2>3, KeepsTogether, StopsTogether, StopFailsTogether,
      TickWritesTogether, LosesRecordTogether, TickReleasesTogether DEF Tick
  <2>4. QED BY <2>1, <2>3
<1>3. ASSUME NEW c \in Callers, Call(c) PROVE SleepInv'
  <2>1. TypeOK' BY <1>3, CallType
  <2>2. stale => stale'
    BY <1>3 DEF Call, WakeAsks, WakeChecks, WakeStarts, Forget, Reads, Writes,
      LedgerFails, Releases, Write
  <2>3. ASSUME ~stale' PROVE Together'
    BY <1>3, <2>2, <2>3, AsksTogether, StartsTogether, ReadsTogether,
      WritesTogether, LedgerFailsTogether, ReleasesTogether DEF Call
  <2>4. QED BY <2>1, <2>3
<1>4. ASSUME NEW s \in Slots, Others(s) PROVE SleepInv'
  <2>1. TypeOK' /\ stale' = stale BY <1>4 DEF Others, TypeOK
  <2>2. QED BY <1>4, <2>1, OthersTogether
<1>5. CASE Crash
  <2>1. TypeOK' /\ stale' = stale BY <1>5, Idle DEF Crash, TypeOK
  <2>2. QED BY <1>5, <2>1, CrashTogether
<1>6. QED BY <1>1, <1>2, <1>3, <1>4, <1>5 DEF Next

\* The invariant holds in every reachable state.
THEOREM SleepInvariant == Spec => []SleepInv
BY InitInv, NextInv, PTL DEF Spec

\* The variables stay in their sets.
THEOREM SleepTypes == Spec => []TypeOK
<1>1. SleepInv => TypeOK BY DEF SleepInv
<1>2. QED BY SleepInvariant, <1>1, PTL

\* A record that names a wake key finds it in the secret store, as long as no
\* copy of the ledger was written over a newer file (sleepInstance, wake,
\* forget, with crashes between any two of their steps).
THEOREM RecordsKeepTheirKeys == Spec => []RecordsHaveKeys
<1>1. SleepInv => RecordsHaveKeys BY DEF SleepInv
<1>2. QED BY SleepInvariant, <1>1, PTL

\* A wake key stays in the secret store only while a record names it or
\* someone is about to record or to remove it.  The exceptions are what `stale`
\* and `stray` name: a copy of the ledger written over a newer file, a removal
\* that failed, a crash, a ledger that fails after the stop (releaseSecretsFor).
THEOREM NoKeyIsLeftBehind == Spec => []KeysHaveRecords
<1>1. SleepInv => KeysHaveRecords BY DEF SleepInv
<1>2. QED BY SleepInvariant, <1>1, PTL
=============================================================================
