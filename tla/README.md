# TLA+ models of the local AI deployment manager

This directory holds TLA+ specifications of the parts of the repository whose
behaviour depends on the order of events, the TLC configurations that check
them on small instances, and TLAPS proofs about them for every instance.
`PROJECT.json` maps every definition to the lines of code it stands for.

## 1. The system and its parts

The program runs local language-model servers. Separate processes: the
*service entry* (one HTTP process that also owns the model hub), the *llama*,
*vLLM* and *SGLang* managers, and the containers or native runtimes they start.
All processes are Node.js event loops: a handler runs to its next `await`
without interruption, and anything may run while it waits.

| part | state | operations | interacts with | what makes it correct |
|---|---|---|---|---|
| download queue (`model-hub/queue.js`) | jobs, runs, timers, one pass | enqueue, pause, resume, start-now, cancel, retry, reorder, remove; pass; run events; start/stop | transfer engine, verifier, library, disk and idle probes, store | slot limit, one writer per folder, user stops hold, no job forgotten, every job settles |
| transfer engine (`transfer.js`) | child processes | start, stop, find orphans | model-storage locks | a folder lock lives as long as its process |
| model storage, migration (`model-storage.js`, `model-migration.js`) | lock files, markers, plan | acquire, release, migrate | queue, managers | one operation per folder; a migration is all or nothing |
| library (`library.js`) | entries, scan chain | scan, register, delete, update | queue, managers | registered files exist; a scan does not lose an entry |
| hub store (`store.js`) | JSON documents | debounced write, flush | queue, library | what was acknowledged survives a crash |
| GPU admission (`gpu-admission.js`) | lock directory, VRAM leases | acquire, release, renew | all managers, GPU telemetry | mutual exclusion; no over-reservation |
| gateway concurrency (`gateway-utils.js`, `service-policy.js`) | active counts, waiter queues | enter, leave, time out | gateway pipeline | limits hold; a slot is released once; no waiter is forgotten |
| limiter (`lib/limiter.js`) | token buckets, bans, shares, quota cache | take, fail, release | pipeline | rates, bans and shares hold over time |
| gateway pipeline (`lib/gateway-pipeline.js`) | one request | check, forward, settle | limiter, keys, billing | every exit path releases what it took |
| billing store (`lib/billing-store.js`) | SQLite tables: wallet ledger, reservations, usage | authorize, settle, authorize and record speech, adjust, change policy | managers over HTTP, speech path | reservations are covered, limits hold, a request is charged once |
| manager billing (`gateway-utils.js`, `billing-client.js`, `billing-pending-queue.js`) | memo of the last answer, pending list and its file | authorize, defer, settle, flush | billing store, inference | nobody is served without a grant or a permitted deferral; what is deferred is kept |
| speech billing (`service-entry/server.js`, `lib/tts-bridge.js`, `tts_receipts.py`) | receipts, the reconciler's flush | authorize, forward, reconcile | billing store, TTS gateway | the receipt decides; every reservation is settled |
| keys, policies | stores of keys | issue, revoke | pipeline, managers | a revoked key is refused |
| sessions, request auth | sessions, failures | log in, check, revoke | server | a revoked session is refused |
| event hub, manager relay, sampler | subscribers, last snapshot | publish, reconnect | managers, browsers | no stale snapshot overwrites a newer one |
| runtime supervisor (`engines/`) | instances, readiness | start, stop, crash, adopt | docker/native hosts, GPU admission | one runtime per slot; a crash is noticed |
| container replacement | a replacement in progress | replace, roll back | docker | the old container is back after a failure |
| idle unload (`idle-unload.js`) | idle clocks, ledger of sleep records, wake keys | sleep, wake, forget | Docker, secret store, launch path | a record can be woken; no key is left behind |
| platform supervisor (`platform/`) | processes, restart counters | start, stop, health, back-off | all processes | dependencies first; no restart loop |
| telemetry: store worker, alerts, audit chain | SQLite batches, alert states, hash chain | ingest, evaluate, append | all processes | no record twice; alerts fire and clear; chain unbroken |
| inspector, recipes, launch plans, search, portals, TTS, scripts | none or request-local | pure translation | - | input/output correctness (unit-tested) |

Hard behaviour: handlers that act after an `await` on what they read before it;
processes that outlive their parent; locks and leases on disk that outlive
their owner; timers that race with calls; crash and restart between a state
change and its consequence. The list with lines is `hazards` in
`PROJECT.json`.

## 2. Plan

Order of work, most important first.

1. **done** `DownloadQueue`: the queue with passes, runs, calls, timers, crash
   and restart; proofs of all its safety properties.
2. **done** `AdmissionLock`, which implements the abstract `Mutex`; proofs of
   its invariants, of the refinement, and that every lock but a wreck can be
   freed.
3. **done** `GatewayRequests`: requests with the waiters of a key and the share
   gate; proofs of limits, hand-over, order, release and owner priority, and
   that waiting never closes a circle.
4. **done** Billing: `BillingStore`, which implements the abstract `Wallet`, and
   two modules that compose it with its clients, `SpeechBilling` (two crashing
   processes and a reconciler) and `ManagerBilling` (memo, deferral, pending
   list); proofs of all their safety properties.
5. **done** `IdleUnload`: the ledger and the wake keys; proofs.
6. Open: launch, that is the VRAM leases written under the admission lock,
   container replacement with roll-back and the stages of the runtime
   supervisor, above an external model of Docker. Abstract specifications: a
   budget that is never over-committed, an all-or-nothing replacement.
7. Open: model-storage locks with the migration transaction; the platform
   supervisor; token buckets and the managers' waiters of the gateway.

How the modules depend on each other: `AdmissionLock` refines `Mutex`;
`BillingStore` refines `Wallet`; `SpeechBilling` and `ManagerBilling` extend
`BillingStore`, call its operations as parts of their own steps, and inherit
its theorems. `DownloadQueue`, `GatewayRequests` and `IdleUnload` share no
state with other modules. Each `MC...` module instantiates one of them for TLC,
each `..._proofs` module holds its theorems.

## 3. The download queue

### Modules

| module | content |
|---|---|
| `DownloadQueue` | the queue: state, actions, properties, fairness |
| `DownloadQueue_proofs` | theorems and their lemmas |
| `MCDownloadQueue` | folder layouts and sets of calls for TLC |

### State and code

| variable | code (`model-hub/queue.js`) |
|---|---|
| `state` | `job.state`, joined with `job.waitReason` for "waiting"; "absent" is a job that is not in `jobs` |
| `autoResume`, `retries`, `bypass`, `forced` | `job.autoResume`, `job.retry.count`, `job.bypassIdleOnce`, `job.forceSlot` |
| `lost` | jobs for which `tokenMissing()` holds: the credential of the job was only in memory and is gone |
| `current` | the Map `runs`; a run is `<<job, slot>>`, so that a run the queue gave up can exist beside a newer one |
| `step`, `stop` | how far a run is (`engine` process, `verifyJob`, `completeJob`) and `run.stopReason` |
| `calls` | `pause` and `cancel` calls inside `await stopRun` |
| `entering` | `enqueue` calls between the duplicate check and `jobs.push` |
| `retryTimer`, `recheck`, `resumeTimer` | the timers of `armRetry`, `scheduleRecheck` and the delayed auto-resume of `start` |
| `pump` | the pass: its place, the candidates not yet looked at, the candidate under probe, `active`, the answer of the idle gate, whether a slot was refused, whether another pass was asked for |
| `phase`, `captured`, `orphans` | the owning process; what `start()` found in process; download processes whose parent died |

An action is one turn of the event loop: from an `await` (or an event) to the
next one. `Free` says that no turn is under way. The pass is therefore a chain
of actions: `PumpBegin` reads candidates and counts active jobs, `PumpProbe`
begins a wait for the idle probe or the disk probe, and `PumpGateBusy`,
`PumpDiskShort`, `PumpDiskSkip` and the `RunJob...` actions are what follows
the wait. `enqueue`, `pause` and `cancel` have two actions each, `start()` too.
A run goes engine, verify, register; each of the `Exit...`, `Verify...` and
`Registered` actions is one path through `onEngineExit`.

### Runs

| run | instance | what it shows |
|---|---|---|
| `queue_all` | 3 jobs for 1 slot, all calls, crash, shutdown and restart anywhere, an engine that refuses; stops end in time | `TypeOK`; `SlotLimit`: at most `maxConcurrent` jobs in process, plus one that was forced. `QueueInv`: the inductive invariant of the proof. `Supervised`: a job in process has a run or a call that will end it; `RetryIsArmed`: a retrying job has its timer, after a restart too |
| `queue_hazards` | 2 jobs on one folder, 2 slots; slow stops, slow probes, calls during `start()`, lost tokens, crash and shutdown | `OneWriterPerDir`: never two download processes in one folder, orphans of a dead parent included. `UserStopHolds`: what the user paused or cancelled is taken up again by a call, or by one of the three steps below, and by nothing else |
| `queue_live` | 2 jobs, enqueue, cancel, crash, idle gate, slow probes, fairness | `NoLostWakeup`: the queue never sleeps on a runnable job; `SlotLimit` holds although a pass counts once and then waits for probes while jobs end and start; `EverySettles`: if the process stays up at last, every job ends, is stopped or waits for its token |

`UserStopHolds` is asked where the code is weakest, and names what the code does
there against the user's stop:

| exception | step | code |
|---|---|---|
| `ProbeOverrules(j)` | the pass chose `j`, waits for the idle or the disk probe, `j` is stopped, the probe says no: `j` is set to waiting | `queue.js:902`, `:908` |
| `StartInterrupts(j)` | `start()` found `j` in process, waits for the orphan check, `j` is stopped, `start()` goes on: `j` is interrupted and resumes | `queue.js:1067` |
| `LateRun(j)` | a run of `j` that `stopRun` gave up after `stopWaitMs` ends, verifies or registers | `queue.js:670`, `:1398` |

Each of the three is reached in `queue_hazards`: without any one of them TLC
finds the counterexample. Every other step is refused, in particular the start
of a job that was stopped while its probe said yes (the second look at line
912), timers that fire late, and a restart that takes up jobs it did not find
in process.

*Bounds.* Three jobs for one slot are one in process, one forced above the
limit and one that waits: the limit and its overrun both happen and one more
job would exceed them. Two jobs suffice elsewhere: the other properties relate
a job to its own run, timer or calls, and a second job is what competes with it
for the slot and the pass. `MaxRetries` is 1 (a retry, then a failure) or 0.
`MaxRuns`, the number of runs of one job that exist at the same time, is 1:
only a stop that outlives `stopWaitMs` makes a second one (`SlowStop`), and
`queue_hazards` with two runs per job has more states than a run has time for;
the theorems about both its properties hold for every `MaxRuns`. `SlowProbes`
lets other events run while a probe is out; it is on in `queue_hazards` and
`queue_live`. `SlotLimit`, `Supervised` and `QueueInv` fail with `SlowStop` or
`EarlyCalls` (section 10) and are asked without. `ResumeOnStart` is the setting
`queue.resumeOnStart`; it is on in the runs, as by default, and arbitrary in the
proofs.
`queue_live` does not check deadlock: an empty queue stops.

*Fairness.* `FairSpec` assumes what a Node event loop gives: the turns of a
pass go on (weak fairness of `Pump`), pending events are served (a process
ends or the watchdog stops it, verifier and library answer, calls return,
timers fire), and a process that went down is started again. Strong fairness
is used for the events of a job, because an event is disabled during the turns
of a pass and enabled again after each. Two assumptions are about the world:
the idle probe answers "idle" and the start of a job succeeds again and again
(`SF` of `PumpGateIdle` and `RunJobStarts`). Without them a job waits for a
busy GPU or a full disk for ever, as it should. `EverySettles` has
`<>[](phase = "up")` as its premise: under endless crashes nothing settles.

### Proofs

`DownloadQueue_proofs` proves, for all jobs, folders, settings and operations:

- `TypeCorrect`: `Spec => []TypeOK`.
- `OneWriter`: `Spec => []OneWriterPerDir`. The invariant is inductive with
  `TypeOK`; the argument is that only `RunJobStarts` adds a writer and it needs
  an unlocked folder, and that a crash turns a writer into an orphan, which is
  a writer still (`WritersShrink`, `RunStartsWriters`). Slow stops and calls
  during `start()` are allowed.
- `QueueInvariant`, `SlotsHold`: `[]QueueInv` and `[]SlotLimit` under
  `ASSUME ~SlowStop, ~EarlyCalls`. `SlotLimit` is not inductive: a pass starts a job by its own
  count, `pump.active`, so one needs that the count is never too low
  (`PassFits`), that the candidate under probe is not started or captured by
  something else meanwhile, that a call waits for the run of its job
  (`CallsFit`), that a run at work is the one the queue knows
  (`NoZombieRun`), that `current` names a live run (`CurrentIsLive`), and that a
  process that is down has no runs (`MemoryIsEmpty`). `QueueInv` is their
  conjunction; three lemmas carry most of the work: a step that changes one
  job (`OneJobInv`), a step that changes none (`QuietInv`) and the end of a run
  (`FinishRunInv`). The two assumptions are necessary: see section 10.
- `OneRunPerJob`, a corollary: a job has one live run at most, and none while it
  may be started. Where it holds, the bound `MaxRuns` hides no behaviour.

The next three have the same two assumptions and rest on `QueueInv`.

- `RetriesAreArmed`: `[]RetryIsArmed`. A job enters "retrying" only with its
  timer, a timer goes only when it fires or when the process ends, and
  `StartEnds` arms those of the jobs it leaves in "retrying".
- `JobsAreSupervised`: `[]Supervised`. Two strengthenings. `Restarts` says what
  a crash leaves to the next start: a process that is up has no orphans, one
  that is down left orphans only of jobs in process, and `start()` has captured
  exactly those. `StopsHaveCalls` says that a run is told to pause or to cancel
  only while the call that said so waits for it, so that the end of the run
  wakes a call that will move the job on.
- `NoWakeupIsLost`: `[]NoLostWakeup`, with slow probes, under `~StartMayFail`
  besides. The strengthening `Wakes` says what the pass under way owes to each
  runnable job: the job is in its list or under its probe, or a timer is armed,
  or another pass was asked for, or the pass counted a job in process, and that
  job is in process still or its end asked for another pass. A refused start
  breaks the last part: it is counted, and its end asks for nothing
  (section 10). A start refused because the folder is locked does not, since
  another job in process is the one that locks it (`Restarts`).
- `UsersStopHolds`: `Spec => UserStopHolds`, without an assumption: slow stops,
  slow probes, calls during `start()`, any number of runs per job. It needs
  that a job which is not in `jobs` has no run and no call, and that no pass and
  no `start()` has it in hand (`AbsentIsUnused`), and then goes through the actions
  (`UserStep`): each of them looks at the state of its job before it changes
  it, is a call, or is one of the three named steps.
- `OnlyAProbeOverrules`: under `~SlowStop, ~EarlyCalls` two of the three
  exceptions cannot happen, and what is left is a call of the user or the
  answer of a probe about that very job.

Only model-checked: the liveness property `EverySettles` (the prover has no
rules for fairness).

### Abstractions and omissions

The order of the queue (a pass takes its candidates in any order; setPriority
and reorder only schedule a pass), bytes, progress, speed limits, logs and
notifications. "resolving" and "materializing" are part of "downloading". A
state change and its write to `downloads.json` are one step, so a crash
between them is not modelled. `stop()` is one step, after which the process is
gone. Not modelled: pauseAll and resumeAll (loops of pause and resume), the
deletion of partial files, Download & Run, and the catch around `onEngineExit`
(766-768): it would leave a job in process without a run, but the final sample,
the verifier, the library and the write that are awaited there each have a
catch of their own.
`Served` is what each operation asks first, `started` and not `stopping`; since
`start()` sets `started` before its awaits, calls during them are served with
`EarlyCalls`. The routes of the hub ask for `hub.jobs` besides, which does not
tell the difference.

## 4. The admission lock

### Modules

| module | content |
|---|---|
| `Mutex` | what the lock promises: one client inside; it passes on only after its holder left or died |
| `AdmissionLock` | `admission.lock` as managers make, read, age, claim, rename and remove it, one file operation per action |
| `AdmissionLock_proofs` | theorems |
| `MCAdmissionLock` | three managers, one of them with a second call |

### State and code

The lock (`gpu-admission.js`, lines 88-220) is a directory with a file
`owner.json`. `lock` is its content: absent, a token, or a directory without a
readable owner. `stale` says that its mtime is older than `staleMs`; `claims`
are the `retire-claim` directories; `pc`, `target` and `moved` are the local
state of each call, with one place per file operation. A client is a call of
`acquireAdmissionDirectoryLock`, which draws a fresh token each time, so it
acquires and releases once. `retireAdmissionLock` is shared by `release()`
(retires the caller's own token) and by a waiter that found a dead owner:
`MakeClaim` (mkdir of the claim), `CheckOwner` (second look), `Rename` (of
whatever is there), `Unclaim` (compare, delete, remove the claim).

`Crash` kills a process between any two file operations. `IoFaults` lets any
operation fail, in the way the code handles that failure; a write of
`owner.json` that fails may leave the file or not. `Timeouts` lets a waiter
reach its deadline.

### Runs

| run | instance | what it shows |
|---|---|---|
| `lock_faults` | 3 managers, 4 calls, timeouts, failing file operations and crashes anywhere, fairness | `MutualExclusion`; `RetiresWhatItClaimed`: a rename moves only the lock that was claimed, so that `GPU_ADMISSION_LOCK_IDENTITY_CHANGED` is unreachable; `LockInv`, the inductive invariant; `ImplementsMutex`: refinement of `Mutex`; `OnlyAWreckBlocks`: a call that waits for ever waits beside a wreck |

A *wreck* is a lock that the code itself keeps for ever rather than risk a
theft (comment at line 100): a directory whose maker died or failed before its
name was in it, the lock of a live holder whose release failed, or the lock of
a dead holder under the claim of another call that died. Everything else is
found and retired: that is what the property says, with all faults on.

*Bounds.* Stealing a lock wrongly takes a holder that died, one waiter that
found it dead, and another that frees the lock and makes a new one between two
steps of the first; the fourth call is a second call of one process, which
lives while its sibling holds. No counter is unbounded: a client is used once.
Deadlock is not checked, because the system stops when every call has ended.

*Fairness.* A call whose process runs takes its next step (the loop of
acquire awaits file operations and a pause of a fixed length), and a lock that
nobody touches ages. Crashes, failures and timeouts are not fair.

### Proofs

`AdmissionLock_proofs` proves for any number of managers and calls, crashes
anywhere, timeouts and failing files:

- `LockTypeCorrect`, `MutuallyExclusive`, `IdentityKept`: the invariants
  `TypeOK`, `MutualExclusion`, `RetiresWhatItClaimed`, from `LockInv`. The key
  conjuncts: `HolderOwns` (between acquire and release the directory carries
  the holder's token), `RetiresTheDead` (a call retires its own token or that
  of a dead process, which will never act again), `OneClaimant` (a claim has
  one owner), and `RenamesItsTarget` (between the second look and the rename
  the lock cannot change: its owner is dead or is the caller, and the claim
  keeps other waiters out).
- `LockInvariant`: `[]LockInv` itself.
- `LockRefinement`: `Spec => Abstract!Spec`, where the holder is the token in
  the directory and a client is inside while its `pc` is "held". Each step is
  an `Enter`, `Leave`, `Free`, `Die` or a stutter.

- `SomebodyCanFree`: in every state, a lock that is there is a `Wreck` or has a
  way out (`WayOut`): a maker that is about to write its name, a holder, a
  claimant, or a dead or releasing holder whose token nobody has claimed, so
  that the next claim succeeds. This is the safety half of `OnlyAWreckBlocks`.
  It needs two facts that `LockInv` does not have: no waiting call finds its own
  token in the lock (`NoLockOfItsOwn`), and a claim is only on the token of a
  call that is over or retires itself (`ClaimsHaveReason`).

The one assumption, `LockAssumption`, says that tokens are distinct from the
two marker values and that every call has a process. Only model-checked:
the liveness property `OnlyAWreckBlocks`, that is, that under fairness somebody
does take the way out.

*Abstractions.* A pid that was given to another process counts as alive, as in
the code; the lock then stays. `ReadOwner` is the stat (182), the read of
`owner.json` (186) and the look at the pid (191) in one step: a waiter that
sees the age of one lock and the owner of the next can retire the lock of a dead
holder before it is old, which `Mutex` allows, and no other, since the claim and
the second look (`CheckOwner`) are about the token that it read. The mtime is a flag. A heartbeat in flight while
the lock is retired is not modelled: utimes on an absent path fails without
effect, and on a successor's lock it makes that younger, which only delays a
retirement.

## 5. Requests through the gateway

### Modules

| module | content |
|---|---|
| `GatewayRequests` | many requests in `handle()` of `lib/gateway-pipeline.js`, with the waiter queue of each key (`gateway-utils.js`) and the share gate (`lib/limiter.js`) |
| `GatewayRequests_proofs` | theorems and their lemmas |
| `MCGatewayRequests` | requests of two keys and of the owner |

### State and code

| variable | code |
|---|---|
| `pc` | the `await` at which `handle()` is: catalogs ("access", for a route that names an engine), body, settings and catalogs, queue of the key, port probe, share gate, trust version, the fetch, the stream; "answered" when the response was ended, "gone" when the handler returned without one |
| `response` | whether "finish" and "close" of the response were emitted |
| `held` | what a request took and has not given back: the mark of owner traffic (`ownerBegin`), a token reservation (`inflight`), a slot of its key (`concurrencyBuckets`), a slot of the share (`active`) |
| `keyQueue`, `shareQueue` | `concurrencyQueues` and `queue` of `createShareGate` |

The counters of the code are the cardinalities of the sets in `held`: each
`release` has a flag of its own that makes it idempotent, as a set does. An
action is what runs between two awaits, or all listeners of one event of a
response. `GiveBack` is what those listeners do together: things are returned,
a key slot goes to the next waiter of the key, and a share slot or the end of
owner traffic lets `pump()` serve the share queue. `Close` also aborts waits
and the request to the manager (`EndedByClose`). "close" while an answer is
streamed stands for a client that leaves and for a connection to the manager
that breaks: both end in a destroyed response.

`Disconnects` names the places at which a client may leave. `Guarded` are
those after which nothing is taken that is not given back: reading the body
fails, the two queues listen for "close", and from the fetch of the trust version
on the request holds all it will ever hold. At the others, section 10 applies. A
client that leaves at `Unheard`, while the port is probed or the trust version
fetched, gives back its slots and is sent on without them: `unheard` remembers
those requests, and `WorkHoldsSlots` names them as its exception.

### Runs

| run | instance | what it shows |
|---|---|---|
| `gateway_limits` | 3 requests of one key, 1 of another, 1 of the owner; one slot per key and one place in its queue, one slot in the share, none while the owner works; clients leave at the guarded places, the trust version included | `WaitersAreQueued`: a request waits exactly while it is queued, once; `Limits`; `NoIdleSlot`: nobody waits beside a free slot; `WorkHoldsSlots`: a manager works only for requests that hold their slots, but for those whose client left unheard; `NothingKept`: a response that is over holds nothing; `OwnerIsNotStarved`: no public request comes in above the smaller share while the owner works; `FirstComeFirstServed` |
| `gateway_live` | 2 requests of one key, 1 of another, 1 of the owner | `EveryRequestEnds`: without the help of timeouts, every request is answered or gone at last, although requests wait for the share with the slot of their key in hand |
| `gateway_leak` | the same requests, clients leave anywhere | violation, section 10 |

*Bounds.* With one slot per key and one in the share, three requests of a key
are one that runs, one that waits and one that meets a full queue or waits next.
Two waiters in order, as `FirstComeFirstServed` needs them, meet in the queue of
the share; that two of one key keep their order is the theorem's. The
request of the other key competes for the share, the owner's request shrinks it
to nothing. A request is used once, so no counter grows. Requests of the first
key are interchangeable; the symmetry is used in `gateway_limits`, which has
safety properties only. `TypeOK` includes the bounds of the queues. Deadlock is
not checked: the system stops when all requests have ended.

*Fairness.* `FairSpec` assumes that awaits end (settings, catalogs and port
probes are bounded, the fetch and the stream have a timer of
`createUpstreamControl`), that an answered response finishes and that a
finished one closes. Arrivals, timeouts of waiters and clients that leave are
not fair: they may happen and need not.

### Proofs

`GatewayRequests_proofs` proves for all requests, keys and limits:

- `TypeCorrect`, `WaitersCorrect`: from `Base`, which is inductive: types,
  `Fits` (a queue holds exactly those who wait for it, without repetition and
  within its bound) and `InOrder` (what a request may hold at which place). The
  lemmas about `Without`, `Append`, `Tail` and `SubSeq` say what each queue
  operation leaves; `GiveBackFits` covers every hand-over.
- `LimitsHold`, `NoSlotIdles`: neither is inductive alone. A waiter is served
  only when `Grants` or `NextWaiter` sees room, which keeps `Limits`; they stop
  only for want of room or of waiters, which keeps `NoIdleSlot`
  (`GiveBackSlots`). Both hold wherever clients leave: a slot that leaks is
  taken, not over-committed.
- `WorkIsCovered`: `[]WorkHoldsSlots`, wherever clients leave. `KeepInv` says
  what a request holds from the moment it took it; only "close" takes it away,
  which ends the request (`EndedByClose`) or puts it into `unheard`.
- `NothingIsKept`: `[]NothingKept` under `ASSUME Disconnects \subseteq Guarded`,
  from the last part of `KeepInv`. The assumption is necessary: section 10.
- `OwnerComesFirst`: `OwnerIsNotStarved` as an action property, from
  `NoGrowth`: a step during which the owner works adds holders of the share
  only up to the smaller share.
- `NobodyIsPassed`: `FirstComeFirstServed` as an action property, without an
  assumption. `Before` is kept by each queue operation (`BeforeAppend`,
  `BeforeWithout`, `BeforeDrop`, `BeforeTail`); hand-overs serve a prefix of a
  queue (`GiveBackOrder`); and a newcomer that takes a slot without looking at
  the queue passes nobody, because a free slot means an empty queue
  (`NoIdleSlot`).
- `NoCircularWait`: in every state in which a request waits, some request is at
  a place its own next step leads on from (`NobodyStandsStill`). Requests wait
  for the share with a slot of their key in hand, and the owner shrinks the
  share, to nothing even, while it waits for its key. The argument follows the
  waits: a key's slots are full (`NoIdleSlot`), so its waiters wait for a holder,
  which goes on or queues for the share; the share is full or shrunk, so its
  waiters wait for a holder of the share, which goes on, or for an owner, which
  goes on or waits for a key held by owners (`Roles`); and owners never queue
  for the share. Two assumptions: `Disconnects \subseteq Guarded`, since a
  leaked slot is held by nobody (section 10), and `KeysHaveOneClass`: the
  requests that share a limited key are all the owner's or all the public's. The
  code has that because `limitsFor` limits concurrency on the PUBLIC listener
  only (`limiter.js:715`), where the class of the key alone decides whether
  `isOwnerTraffic` (`gateway-pipeline.js:483`). Without it TLC finds a standstill:
  an owner waits for the slot of a public request of the same key, and that one
  waits for the share that the owner shrank to nothing.

Only model-checked: the liveness property `EveryRequestEnds`.

### Abstractions and omissions

Which check refuses whom, rates and amounts of tokens, routing, headers and
bodies are choices or left out, as is the memory budget of bodies
(`body.release`). All keys have the same limits, and limits stay: the share gate reads its own
live (`limiter.js:464-475`), so an administrator who lowers them leaves more
holders than the new limit for a while, which the invariant `Limits` does not
speak of. The awaits of `authorize` are one step (`Authorized`), as are those of
`getCatalogs` (`Routed`): nothing is taken between them, and a client that
leaves at one of them is one that leaves at the place. The
managers' own middleware in `gateway-utils.js`, which uses the same waiters,
is not modelled; nor are token buckets, bans and quotas.

## 6. The billing store

### Modules

| module | content |
|---|---|
| `Wallet` | what a customer in hard mode is promised: a reservation needs free funds, a request is paid at most once |
| `BillingStore` | the tables of `lib/billing-store.js` and every call that changes reservations, usage and the ledger |
| `BillingStore_proofs` | theorems |
| `MCBillingStore` | two language requests, two speech requests, a deposit and a withdrawal |

### State and code

Every operation of the store is one SQLite transaction (`BEGIN IMMEDIATE`), so
each is one action.

| variable | code (`lib/billing-store.js`) |
|---|---|
| `mode`, `active` | the customer's `enforcement_mode` and `status` |
| `balance`, `entries` | sum of `billing_wallet_ledger`, and which adjustments are in it |
| `status`, `hard` | `status` and `enforcement_mode` of the rows of `billing_request_reservations` and `billing_tts_reservations` |
| `lapsed` | language reservations whose `expires_at` is over |
| `recorded`, `counted`, `charge` | the usage events, which of them count for a quota, and what each was charged |
| `late`, `overrun` | history, for the properties |

`Authorize` is `authorizeRequest` with its sweep of lapsed rows, `Settle` and
`Book` are `settleRequest`, `TtsAuthorize` and `TtsRecord` their counterparts
for speech, `Adjust` is `adjustBalance`, `SetPolicy` is `updateCustomer`. What
is live and subtracted (`Held`, `Available`) is what `walletState` selects.
Settlement looks neither at the expiry nor at the status "released": a late
answer is booked and charged. `Settle` takes the set of fields of its input,
because a settlement with an unknown field is refused as a whole.

### Run

| run | instance | what it shows |
|---|---|---|
| `billing_store` | 2 language and 2 speech requests, limit 1, costs 0 to 2, deposit of 2, withdrawal of 1, all modes | `Solvent`: live reservations stay within the balance, but for what was taken without one (`overrun`: costs above the estimate, charges of lapsed reservations, withdrawals); `QuotaHolds`: the month's limit is exceeded only by what had lapsed when it was settled and by shadow mode; `ImplementsWallet`: whatever is repeated, late or swept, the customer sees `Wallet` |

*Bounds.* An amount is counted in reservations of one unit. A cost of two is
above its reservation, a deposit of two covers two requests of four, and the
withdrawal makes the balance smaller than what is reserved. A limit of one with
two language requests is reached and would be exceeded by the other. Each
request id is used in every order with every call, which covers replays.

### Proofs

`BillingStore_proofs`, for any requests, limits, costs and amounts:
`StoreInvariant` (types, and that what is booked was authorized, so that an id
is never reserved again), `StoreTypes`, `WalletCovers`, `QuotaIsKept` and
`StoreIsAWallet`. `Solvent` is inductive with the invariant; its argument
compares, for each step, the change of the balance with that of the number of
live reservations (`Beyond` for a settlement, `Cap` for speech). The one
assumption, `StoreAssumption`, says that requests are finitely many and that
the constants have their types.

### Abstractions

One customer, bound, with an active plan and prices; one month and one day. All
reservations are worth one unit. Limits of tokens and credits are kept in the
same way as that of requests. The limit of a day's speech is a choice
(`dailyOk`). Identity checks (`assertReservationIdentity`) never fail here.
`recordTtsUsage` would also charge a speech request without a reservation, with
no cap (`billing-store.js:1378-1396`); `TtsRecord` asks for the reservation,
because both callers take the request from one.

## 7. Speech billing

### Modules, state and code

`SpeechBilling` extends `BillingStore`; `SpeechBilling_proofs` holds its
theorems, `MCSpeechBilling` the instance.

| variable | code |
|---|---|
| `call` | the entry's `handleTtsGateway`: reservation made ("held"), request out ("sent"), "over" |
| `line`, `aged` | `created_at` of the reservations: their order, and which are older than half an hour |
| `wire`, `handler`, `tasks` | requests under way to the TTS gateway, its handlers, its syntheses (a job outlives its handler) |
| `receipt` | `synthesis_receipts` (`tts_receipts.py`) |
| `flush` | `createTtsReconciler`: at most one flush, what it has to look at and what it has read |
| `up` | which of the two processes run |

The answer alone settles nothing but an error; the receipt does, through the
reconciler, after each answer and every five seconds. The entry crashes and
keeps the reservations; the gateway crashes and keeps the receipts, and fails
those of lost tasks when it starts.

### Run

| run | instance | what it shows |
|---|---|---|
| `speech` | 2 requests, one with an engine name the store refuses, deposit of 2; both processes crash anywhere | `ReceiptDecides`: only a synthesis that succeeded is billed, and one that succeeded is billed once the request is booked, unless the caller got an error instead of its audio; `SpeechSettles`: once both processes stay up, no reservation stays open |

*Bounds.* One request meets every order of its answer, its receipt, the
reconciler and two crashes; the second is the one the store cannot book, which
stays in the reconciler's page for ever. `Page = 2` gives both a place. No
language requests (`Llm = {}`): they share the wallet only, which section 6
covers.

*Fairness.* What runs goes on, the flush timer fires, a task ends, half an hour
passes. A receipt that can be read again and again is read at last (strong
fairness of `Read`), since a read may fail each time. `SpeechSettles` has
"both processes stay up at last" as its premise and leaves out requests with an
unbookable engine name (section 10).

### Proofs

`SpeechKeepsTheStore`: each step is a step of the store or leaves it, so
`Solvent` and the rest hold here as well. `SpeechTypes`, `ReceiptsDecide`: the
invariant says what the reconciler may believe. A complete receipt does not
change; a receipt that is absent half an hour after its reservation never
comes, because nothing is under way by then (`NoSurprise`, `Believed`,
`Decided`). That half an hour exceeds the time on the way is in the guard of
`Ages`; the code relies on it too.

`OpenIsPursued` is the safety half of `SpeechSettles`: every open reservation is
in the line that the reconciler's query pages through, and while the gateway
runs a pending receipt has a task that will complete it, since tasks are lost
only with the process, and the restart completes what they left
(`Restored`). Only model-checked: `SpeechSettles` itself, in particular that a
page reaches every reservation.

### Abstractions

`Answer` is the TTS gateway's answer and what the entry's handler does with it,
`recordTtsUsageSafely` included, in one step: in between the caller has nothing,
and a crash or a flush there is one before the answer. A request has one item;
a batch has several rows of one receipt that are
complete together. A retry of a failed job is a new request. Audio, durations
and characters are the choice of `cost`.

## 8. Billing in the managers

### Modules, state and code

`ManagerBilling` extends `BillingStore`; `ManagerBilling_proofs` holds its
theorems, `MCManagerBilling` the instance.

| variable | code |
|---|---|
| `pc`, `auth`, `known` | one request in `handleCompletionProxy`, its `billingAuthorization` (and whose request it was made for, since it may come from the memo), and the mode the memo had when the store was asked, with the request whose answer told it |
| `memo` | `authorizeMemo` of the client |
| `cold` | within `billingColdStartGraceMs` of the start |
| `items`, `file`, `disk` | the list of `createBillingPendingQueue`, its file, and the last save |
| `flush` | a pass: the rest of its snapshot, what remains, the item under way |
| `graced` | history: requests whose deferral began in the grace |

`Ask` is the memo or the call; `Authorized` and `Unavailable` are what follows
it. A lost call may have reached the store or not. `Finalize` is
`createOpenAiUsageFinalizer` up to its `await`; `Settled` and `Unsettled` are
the answer of the store. A pass takes a snapshot, authorizes and settles one
item after the other with an `await` each, and makes what remains the list. A
save writes the list as it is when the write begins (`withFileWriteQueue`).

### Runs

| run | instance | what it shows |
|---|---|---|
| `manager_billing` | 2 requests, list of 1, both modes, outages, failing writes, crashes | `ServedIsGranted`: a request is served only under a grant that the store has given this client, or under a deferral that began in the grace or by the mode shadow that the store told in its last answer to reach the manager (`Permitted`); the exception `Assumed` is the mode shadow that a deferral of the grace wrote into the memo; `PendingKept`: an item leaves the list when it is settled, when another joins a full list, in a crash, or at the end of a pass that began without it; `FileIsTheList`: after a save that nothing followed, the file is the list |
| `billing_unsettled` | the same | violation, section 10 |

*Bounds.* Two requests of one client are the one that is remembered and the
one served under that memory, and a list of one item is full with the first.
Expiry of the memo and of the grace are events. A `MayDefer` that always holds
breaks `ServedIsGranted`: a hard client is then deferred by the mode hard that
the store told. Passes follow each other
(`flushQueued`); the pass at the start of a manager, which goes beside the
queue, is taken as one of them. Clients without a billing account
(`bound: false`) are not modelled: the store reserves nothing for them and the
manager settles nothing (`gateway-utils.js:1257-1265`).

### Proofs

`ManagersKeepTheStore`, `ManagerTypes` (the list keeps its bound),
`OnlyGrantedIsServed`, `FileKeepsTheList`, `DeferredIsKept`, and
`NothingIsBooked`: in every state of the code as it is, no language request has
a usage event. The last one is a consequence of the defect of section 10, and
it also means that no state of this module shows a charge; those are covered
by `billing_store`, where settlements are well-formed.

## 9. Idle unload

### Modules, state and code

`IdleUnload`, `IdleUnload_proofs`, `MCIdleUnload`.

| variable | code (`manager-core/idle-unload.js`) |
|---|---|
| `up` | slots with a running container, seen through `getContainerStatus` and `stopInstance` |
| `ledger` | the file: for each slot no record, a record without a key, or with a wake key |
| `secrets` | wake keys in the runtime secret store |
| `tick` | `sleepInstance` of the minute tick: key copied, container stopped, ledger read, written |
| `op` | a `wake` or `forget`: asked, checked, ledger read, written |
| `stale`, `stray` | history: a copy was written over a newer file; keys whose removal failed, whose holder crashed, or whose record could not be written after the stop |

An action ends at an `await`. The tick runs one instance at a time and does not
overlap itself; wakes of one record share one promise (`Waking`); apart from
that nothing excludes anything. `Release` is `releaseSecretsFor`: a removal may
fail and is only logged. Reads and writes of the ledger may fail:
`TickLosesRecord` is such a failure after the container was stopped (315, 337),
which `tick` logs (370-373); `LedgerFails` is one in `wake` after the start, which
goes to the branch that notes the wake as failed (451-459), or in `forget`.

### Run

| run | instance | what it shows |
|---|---|---|
| `sleep` | 2 slots, one with a key; ledger of one record, 2 keys, 2 callers; crashes, failing reads and writes of the ledger and failing removals anywhere | as long as no copy was written over a newer file: `RecordsHaveKeys`: a record that names a wake key finds it, so that it can be woken; `KeysHaveRecords`: a key stays only while a record names it or a step under way accounts for it, unless it is stray |

*Bounds.* Two slots with room for one record make the second sleep push out the
first (`slice(0, 50)` in the code; here any record but the new one may fall
out). Two callers are two wakes, a wake beside a forget, and either beside the
tick. Two keys are that of the record and that of a new sleep. Callers and keys
are interchangeable. The premise "no stale write" and the three ways to a stray
key are needed: section 10.

### Proofs

`IdleUnload_proofs`, for any slots, callers, keys and ledger size:
`SleepInvariant`, `SleepTypes`, `RecordsKeepTheirKeys`, `NoKeyIsLeftBehind`.
The invariant adds that no two records name one key, that the key a tick holds
is in the store and known to nobody else, and that no key about to be removed
is named by a record (`KeysAreDistinct`, `TickHoldsItsKey`, `GoneIsUnnamed`).

### Abstractions

Which instance is idle is a choice. What a container runs is its slot, so a key
that is copied from a container which replaced the one that was planned is the
key of the slot. Containers come and go by themselves (`Others`); the start job
of a wake is among those. Reading a record and resolving its key are one step.

## 10. Where code and documentation differ

Two runs end with a counterexample.

- `gateway_leak`: what a request takes after an `await` it gives back in
  listeners for "finish" and "close" that it registers then. When the client
  left during that await, both are past or will never come. Owner traffic that
  is marked so (`Authorized`, after the wait for the catalogs of a named
  engine) keeps the public share reduced until the process restarts; tokens,
  key slots and share slots (`Routed`, `PortChecked`) leak in the same way.
  `handle()` never asks whether the response is destroyed.
- `billing_unsettled`: the managers send `stream` with every settlement
  (`gateway-utils.js:901`, and `:883` for a deferred one, with `deferred` and
  `authorizeInput` besides). `normalizeSettlementInput` does not know the field
  and refuses the settlement with a 400 that is only logged. A hard customer's
  reservation lapses, and no language request is ever charged. Each side is
  tested, with a fake of the other.

Other differences, found with the constants of the modules or while modelling;
no run is kept for them.

*Download queue.*

- `docs/overhaul/03-hub.md:327` calls cancelled terminal, and a pause is meant to
  last until the user resumes. Three steps take a job out of both by themselves;
  `queue_hazards` reaches each, and `UserStopHolds` names them as exceptions.
  `pumpOnce` waits for a probe and then sets the candidate to waiting without a
  second look (`queue.js:902`, `:908`): a job cancelled during that wait is back
  in the queue and is downloaded later. A job stopped while `start()` waits for
  the orphan check becomes interrupted and resumes (`:1067`). A run that outlives
  `stopWaitMs` ends late and sets the state of its job, whatever a call or a
  newer run made of it (`:670`).
- With `StartMayFail` in `queue_live`: when `engine.start` throws and the
  failure is not retried, the pass has already counted the job as active. The
  next candidate waits for a slot although every slot is free, and nothing
  starts another pass (`queue.js:917`): `NoLostWakeup` fails.
- `SlotLimit`, `Supervised` and `QueueInv` therefore fail with `SlowStop` and
  with `EarlyCalls`: a late run keeps the queue from knowing what is at work, and
  a job that was stopped, resumed and started while `start()` waited is marked
  interrupted under its run. The runs and theorems about these three are about
  stops that end in time and a `start()` that nobody calls into.
- `cancel` checks for "ready" before it waits but not afterwards
  (`CancelReturns`), so a job registered during the wait becomes cancelled.

*Admission lock.* A write of `owner.json` that fails after the file was created
leaves a directory that rmdir refuses to remove and no waiter may retire
(`gpu-admission.js:175`; a disjunct of `Wreck`). The title of
`gpu-admission.test.js:273` says the opposite.

*Gateway.* A client that leaves while the trust version is fetched (`gateway-
pipeline.js:744`) releases its slots, and the request is then sent to the manager
without them and without anybody to abort it. `gateway_limits` reaches this and
`WorkHoldsSlots` names it (`unheard`); without the exception TLC finds it. The
version is cached for a while, so this needs a cache miss.

*Billing.*

- Deferral in the grace after a start writes mode "shadow" into the memo
  (`gateway-utils.js:1354`, `:1372`), and a later outage reads it back: a hard
  client keeps being deferred after the grace, against the title of
  `gateway-usage.test.js:622`. `manager_billing` reaches this, and
  `ServedIsGranted` names it (`Assumed`); without the exception TLC finds it.
- A remembered answer is stored again with the time of its use, so that a busy
  client is never asked about again, and what is served under it has no
  reservation; its settlement names an id the store does not know.
  `docs/billing-guide.md:61` says that hard mode reserves before inference.
- `flush` makes its `remain` the list (`billing-pending-queue.js:74`): what was
  enqueued during the pass is lost. That is the last exception in
  `PendingKept`. A denied item stays in the list for ever.
- A lost answer to `authorize` leaves a reservation nobody settles, until it
  lapses. A charge is lost when the manager dies between the inference and the
  settlement or the save.
- A settlement after the expiry is charged although its funds were free for
  others meanwhile; `overrun` and `late` in the properties stand for it.
- A speech request without an engine name is authorized as "--" and can never
  be booked, since `identifier()` refuses that (`lib/tts-usage.js:39`,
  `billing-store.js:2122`): its reservation is open for ever (`Unnamed`). One
  hundred of them fill every flush (LIMIT 100), and no later request is
  settled.

*Idle unload.*

- A wake drops its record and its key as soon as the start job exists
  (`idle-unload.js:439-447`; the job runs on by itself,
  `launch-request.js:489`). A job that fails later, for want of memory on the
  GPU for example, leaves nothing to wake. The title of
  `idle-unload.test.js:131` says "a failed wake keeps the record so the
  configuration is not lost"; it lets `startRuntime` itself throw.
- Tick, wake and forget read, change and write the ledger without a lock. Two
  at once lose a record, bring back one whose key is gone, or leave a key
  behind; this is what `stale` excepts. The comment at line 224 claims that
  every path that drops a record releases its key.
- A crash between the stop of a container and the write of its record makes the
  release one-way; the comment at line 23 calls it reversible. So does a ledger
  that cannot be read or written after the stop (315, 337): `tick` logs it
  (370-373), the container is stopped without a record, and its wake key stays in
  the secret store without a record that names it. `sleep` reaches both;
  `KeysHaveRecords` names such keys (`stray`).
- A wake whose write of the ledger fails after the start is noted as failed
  (451-459) although its start job exists; the record stays, and a second wake
  starts the configuration again.
- `canWake` looks before the start; the job replaces whatever runs by then.
  `clearFor` is exported and never called.

## 11. What is not modelled

`PROJECT.json` lists every component with its status. Open are items 6 and 7 of
the plan: the launch path with its leases, container replacement and the
runtime supervisor (they depend on the states of Docker, which would be an
external model), the migration transaction, the platform supervisor, token
buckets and the managers' own waiters. Of the modelled components, the
operations left out are named in their notes and sections.

Not planned: search, recipes, launch plans and the model inspector (translation
of data without state), rendering and routing, operator scripts, the search
gateway and the MCP server (request-local), telemetry ingestion (data volume
rather than order), and the browser code.

Outside the reach of the prover, and therefore model-checked only: liveness
(`EverySettles`, `OnlyAWreckBlocks`, `EveryRequestEnds`, `SpeechSettles`). Every
invariant and action property that a passing run checks is stated by a theorem;
of the four liveness properties, theorems state what the argument rests on in
every state (`NoWakeupIsLost`, `JobsAreSupervised`, `RetriesAreArmed`;
`SomebodyCanFree`; `NoCircularWait`, `NoSlotIdles`; `OpenIsPursued`).
