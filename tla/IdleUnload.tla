----------------------------- MODULE IdleUnload -----------------------------
(***************************************************************************)
(* Idle models are put to sleep and woken again (manager-core/             *)
(* idle-unload.js).  A minute tick copies the API key of an idle           *)
(* container, stops it and records how to start it again; a wake starts    *)
(* it and drops the record; a forget only drops the record.  Each of them  *)
(* reads the ledger file, changes its copy and writes the copy back, with  *)
(* an await after every step and no lock; reading or writing the file may  *)
(* fail, and the process may crash anywhere.  What a container runs is     *)
(* abstracted to the slot it occupies.                                     *)
(***************************************************************************)
EXTENDS Integers, FiniteSets

CONSTANTS
  Slots,    \* container slots; the id of a sleep record
  Keyed,    \* those whose model is started with an API key
  Callers,  \* requests to wake or to forget
  Keys,     \* references of wake keys in the secret store
  Cap,      \* records the ledger keeps (50)
  NoKey,    \* a record without a key
  Awake     \* no record

ASSUME SleepAssumption ==
  /\ Keyed \subseteq Slots /\ Slots # {} /\ Cap \in Nat \ {0}
  /\ NoKey \notin Keys /\ Awake \notin Keys /\ NoKey # Awake

VARIABLES
  up,       \* slots with a running container
  ledger,   \* the file: the record of each slot
  secrets,  \* wake keys in the secret store
  tick,     \* the minute tick
  op,       \* what each caller is doing
  stale,    \* history: a copy was written over a file that had changed
  stray     \* history: keys whose removal failed, whose record could not be
            \* written, or whose holder crashed

vars == <<up, ledger, secrets, tick, op, stale, stray>>

Record == Keys \cup {NoKey, Awake}
Ledger == [Slots -> Record]

NoLedger == [s \in Slots |-> Awake]

Ticks == [at : {"idle", "kept", "stopped", "held", "written"}, slot : Slots,
          key : Keys \cup {NoKey}, copy : Ledger, gone : SUBSET Keys]
Quiet == [at |-> "idle", slot |-> CHOOSE s \in Slots : TRUE,
          key |-> NoKey, copy |-> NoLedger, gone |-> {}]

Calls == [at : {"idle", "asked", "cleared", "read", "held", "written"},
          why : {"wake", "failed", "forget"}, slot : Slots,
          key : Keys \cup {NoKey}, copy : Ledger, gone : SUBSET Keys]
NoCall == [at |-> "idle", why |-> "forget", slot |-> CHOOSE s \in Slots : TRUE,
           key |-> NoKey, copy |-> NoLedger, gone |-> {}]

\* Every variable takes its values from the sets its comment names, and who
\* works on nothing keeps nothing.
TypeOK ==
  /\ up \subseteq Slots /\ ledger \in Ledger /\ secrets \subseteq Keys
  /\ tick \in Ticks /\ op \in [Callers -> Calls]
  /\ stale \in BOOLEAN /\ stray \subseteq Keys
  /\ tick.at = "idle" => tick = Quiet
  /\ \A c \in Callers : op[c].at = "idle" => op[c] = NoCall

Init ==
  /\ up = Slots /\ ledger = NoLedger /\ secrets = {}
  /\ tick = Quiet /\ op = [c \in Callers |-> NoCall]
  /\ stale = FALSE /\ stray = {}

-----------------------------------------------------------------------------
KeysOf(file) == {file[s] : s \in Slots} \cap Keys

\* Keys that somebody still has to record or to remove.
Holders ==
  (IF tick.at \in {"kept", "stopped", "held"} THEN {tick.key} \cap Keys ELSE {})
  \cup tick.gone \cup UNION {op[c].gone : c \in Callers}

Used == secrets \cup KeysOf(ledger) \cup Holders \cup {op[c].key : c \in Callers}

\* A removal that fails is logged and the key stays in the store.
Release(keys) ==
  \E left \in SUBSET (keys \cap secrets) :
     /\ secrets' = (secrets \ keys) \cup left
     /\ stray' = stray \cup left

Write(copy, file) ==
  /\ ledger' = file
  /\ stale' = (stale \/ copy # ledger)

\* The record of s goes in front of the others and the list is cut: the
\* oldest record falls out, here any of them.
Put(copy, s, key) ==
  LET all == [copy EXCEPT ![s] = key]
      size == Cardinality({t \in Slots : all[t] # Awake})
  IN IF size <= Cap THEN {all}
     ELSE {[all EXCEPT ![t] = Awake] : t \in {t \in Slots \ {s} : all[t] # Awake}}

-----------------------------------------------------------------------------
(* The minute tick *)

\* A tick lists the running instances and takes the idle ones one after the
\* other; ticks do not overlap.  When it comes to s the container may be gone.
\* The key of the container that is there now is copied under a new
\* reference.  An instance without a launch configuration, or with a key that
\* cannot be read, is left alone.
TickKeeps(s) ==
  /\ tick.at = "idle"
  /\ \E key \in IF s \in up \cap Keyed THEN Keys \ Used ELSE {NoKey} :
       /\ tick' = [tick EXCEPT !.at = "kept", !.slot = s, !.key = key]
       /\ secrets' = secrets \cup ({key} \cap Keys)
  /\ UNCHANGED <<up, ledger, op, stale, stray>>

TickStops ==
  /\ tick.at = "kept" /\ tick.slot \in up
  /\ up' = up \ {tick.slot}
  /\ tick' = [tick EXCEPT !.at = "stopped"]
  /\ UNCHANGED <<ledger, secrets, op, stale, stray>>

\* The container is gone, or Docker refuses: the copy of the key is removed.
TickStopFails ==
  /\ tick.at = "kept"
  /\ Release({tick.key})
  /\ tick' = Quiet
  /\ UNCHANGED <<up, ledger, op, stale>>

TickReads ==
  /\ tick.at = "stopped"
  /\ tick' = [tick EXCEPT !.at = "held", !.copy = ledger]
  /\ UNCHANGED <<up, ledger, secrets, op, stale, stray>>

\* MUTANT: the keys of the records that fall out are forgotten.
TickWrites_Drops ==
  /\ tick.at = "held"
  /\ \E file \in Put(tick.copy, tick.slot, tick.key) : Write(tick.copy, file)
  /\ tick' = [Quiet EXCEPT !.at = "written"]
  /\ UNCHANGED <<up, secrets, op, stray>>

TickWrites ==
  /\ tick.at = "held"
  /\ \E file \in Put(tick.copy, tick.slot, tick.key) :
       /\ Write(tick.copy, file)
       /\ tick' = [Quiet EXCEPT !.at = "written", !.gone = KeysOf(tick.copy) \ KeysOf(file)]
  /\ UNCHANGED <<up, secrets, op, stray>>

\* The ledger cannot be read or written after the stop: the tick goes on with
\* the next instance, without a record of this one and with its key in the store.
TickLosesRecord ==
  /\ tick.at \in {"stopped", "held"}
  /\ stray' = stray \cup ({tick.key} \cap Keys)
  /\ tick' = Quiet
  /\ UNCHANGED <<up, ledger, secrets, op, stale>>

TickReleases ==
  /\ tick.at = "written"
  /\ Release(tick.gone)
  /\ tick' = Quiet
  /\ UNCHANGED <<up, ledger, op, stale>>

-----------------------------------------------------------------------------
(* A request to wake or to forget *)

Waking(s) == \E c \in Callers :
  op[c].at # "idle" /\ op[c].why # "forget" /\ op[c].slot = s

\* MUTANT: a slot without a record is not refused.
WakeAsks_Any(c, s) ==
  /\ op[c].at = "idle" /\ ~Waking(s)
  /\ op' = [op EXCEPT ![c] = [NoCall EXCEPT !.at = "asked", !.why = "wake",
                                           !.slot = s, !.key = ledger[s]]]
  /\ UNCHANGED <<up, ledger, secrets, tick, stale, stray>>

\* Requests for one record share a wake.  A record whose key is gone from the
\* store is refused, and so is a slot without a record.
WakeAsks(c, s) ==
  /\ op[c].at = "idle" /\ ~Waking(s)
  /\ ledger[s] \in secrets \cup {NoKey}
  /\ op' = [op EXCEPT ![c] = [NoCall EXCEPT !.at = "asked", !.why = "wake",
                                           !.slot = s, !.key = ledger[s]]]
  /\ UNCHANGED <<up, ledger, secrets, tick, stale, stray>>

\* A running model is only replaced when the user confirmed it.
WakeChecks(c, confirmed) ==
  /\ op[c].at = "asked"
  /\ op' = IF op[c].slot \in up /\ ~confirmed THEN [op EXCEPT ![c] = NoCall]
           ELSE [op EXCEPT ![c].at = "cleared"]
  /\ UNCHANGED <<up, ledger, secrets, tick, stale, stray>>

\* startRuntime returns as soon as the start job exists, or throws.
WakeStarts(c, good) ==
  /\ op[c].at = "cleared"
  /\ op' = [op EXCEPT ![c].at = "read", ![c].why = IF good THEN "wake" ELSE "failed"]
  /\ UNCHANGED <<up, ledger, secrets, tick, stale, stray>>

Forget(c, s) ==
  /\ op[c].at = "idle"
  /\ op' = [op EXCEPT ![c] = [NoCall EXCEPT !.at = "read", !.slot = s]]
  /\ UNCHANGED <<up, ledger, secrets, tick, stale, stray>>

\* MUTANT: the key is removed before the record.
Reads_Releases(c) ==
  /\ op[c].at = "read"
  /\ op' = [op EXCEPT ![c].at = "held", ![c].copy = ledger]
  /\ secrets' = IF op[c].why = "failed" THEN secrets ELSE secrets \ {ledger[op[c].slot]}
  /\ UNCHANGED <<up, ledger, tick, stale, stray>>

Reads(c) ==
  /\ op[c].at = "read"
  /\ op' = IF op[c].why = "forget" /\ ledger[op[c].slot] = Awake
           THEN [op EXCEPT ![c] = NoCall]
           ELSE [op EXCEPT ![c].at = "held", ![c].copy = ledger]
  /\ UNCHANGED <<up, ledger, secrets, tick, stale, stray>>

\* A start that threw is only noted in the record; otherwise the record goes.
Writes(c) ==
  /\ op[c].at = "held"
  /\ LET me == op[c] IN
     IF me.why = "failed"
     THEN Write(me.copy, me.copy) /\ op' = [op EXCEPT ![c] = NoCall]
     ELSE /\ Write(me.copy, [me.copy EXCEPT ![me.slot] = Awake])
          /\ op' = [op EXCEPT ![c] = [NoCall EXCEPT !.at = "written", !.why = me.why,
                  !.slot = me.slot, !.gone = {me.key, me.copy[me.slot]} \cap Keys]]
  /\ UNCHANGED <<up, secrets, tick, stray>>

\* The ledger cannot be read or written.  A wake then tries to note that it
\* failed, although the start job exists; the others give up.
LedgerFails(c) ==
  /\ op[c].at \in {"read", "held"}
  /\ op' = IF op[c].why = "wake"
           THEN [op EXCEPT ![c] = [@ EXCEPT !.at = "read", !.why = "failed", !.copy = NoLedger]]
           ELSE [op EXCEPT ![c] = NoCall]
  /\ UNCHANGED <<up, ledger, secrets, tick, stale, stray>>

Releases(c) ==
  /\ op[c].at = "written"
  /\ Release(op[c].gone)
  /\ op' = [op EXCEPT ![c] = NoCall]
  /\ UNCHANGED <<up, ledger, tick, stale>>

-----------------------------------------------------------------------------
(* The rest of the manager *)

\* Users stop containers and start them; the job of a wake ends, long after
\* the wake, with a container or without.
Others(s) ==
  /\ up' = IF s \in up THEN up \ {s} ELSE up \cup {s}
  /\ UNCHANGED <<ledger, secrets, tick, op, stale, stray>>

Crash ==
  /\ tick' = Quiet /\ op' = [c \in Callers |-> NoCall]
  /\ stray' = stray \cup (Holders \cap secrets)
  /\ UNCHANGED <<up, ledger, secrets, stale>>

Tick ==
  \/ \E s \in Slots : TickKeeps(s)
  \/ TickStops \/ TickStopFails \/ TickReads \/ TickWrites \/ TickLosesRecord
  \/ TickReleases

Call(c) ==
  \/ \E s \in Slots : WakeAsks(c, s) \/ Forget(c, s)
  \/ \E yes \in BOOLEAN : WakeChecks(c, yes) \/ WakeStarts(c, yes)
  \/ Reads(c) \/ Writes(c) \/ LedgerFails(c) \/ Releases(c)

Next ==
  \/ Tick
  \/ \E c \in Callers : Call(c)
  \/ \E s \in Slots : Others(s)
  \/ Crash

Spec == Init /\ [][Next]_vars

-----------------------------------------------------------------------------
\* As long as no copy of the ledger was written over a newer file, a record
\* that names a wake key finds it in the secret store, whatever crashes: the
\* key is stored before the record and removed after it (sleepInstance, wake,
\* forget).  Such a record can always be woken.
RecordsHaveKeys ==
  stale \/ KeysOf(ledger) \subseteq secrets

\* Until then a key stays in the secret store only while a record names it or
\* a tick, a wake or a forget is about to record or to remove it.  The code
\* leaves a key behind in three ways (stray): its removal fails, the process
\* dies, or the ledger fails after the container was stopped.  It does not in
\* others: a replaced record, a record that falls out, a refused stop, a wake
\* whose ledger write fails.
KeysHaveRecords ==
  stale \/ secrets \subseteq KeysOf(ledger) \cup Holders \cup stray
=============================================================================
