---------------------------- MODULE DownloadQueue ----------------------------
(***************************************************************************)
(* The download queue of the model hub, manager-core/model-hub/queue.js:   *)
(* one queue of download jobs, a scheduling pass ("pump") that starts them *)
(* in free slots, the engine processes it supervises, the API calls that   *)
(* pause, resume, cancel and retry jobs, and crashes and restarts of the   *)
(* process that owns the queue.                                            *)
(*                                                                         *)
(* The code is one JavaScript event loop: a handler runs to its next       *)
(* `await` without interruption, and anything may run while it waits.      *)
(* Every action below is one such turn.  Handlers that wait are split at   *)
(* the wait: a pass waits for the idle probe ("gate") and for the disk     *)
(* probe ("disk"), `enqueue` for the library and the disk, `pause` and     *)
(* `cancel` for the run they stop, a run for its process, the verifier and *)
(* the library.                                                            *)
(*                                                                         *)
(* Abstracted: the order of the queue (users reorder it at will, so a pass *)
(* takes the candidates in any order), bytes, progress, logs and           *)
(* notifications.  "resolving" exists only inside one turn of runJob and   *)
(* "materializing" is a label of the downloading phase; both are           *)
(* "downloading" here.  A state transition and its write to downloads.json *)
(* are one step.                                                           *)
(***************************************************************************)
EXTENDS Integers, FiniteSets

CONSTANTS
  Jobs,           \* the download jobs of the instance
  NoJob,          \* "no candidate": not a job
  Dirs,           \* target folders
  Dir,            \* [Jobs -> Dirs], job.target.localDir
  TokenJobs,      \* jobs whose temporary token is kept in memory only
  MaxConcurrent,  \* setting transfer.maxConcurrent
  MaxRetries,     \* setting retry.maxAttempts
  IdleOnly,       \* setting queue.idleOnly
  MaxRuns,        \* BOUND: live runs of one job (more than one needs SlowStop)
  Operations,     \* the calls and faults the instance contains
  SlowProbes,     \* handlers run while a pass or an enqueue waits for a probe
  SlowStop,       \* a stopped run may outlive stopWaitMs
  EarlyCalls,     \* calls are served while start() waits for the orphan check
  StartMayFail,   \* engine.start may throw for a reason of its own
  ResumeOnStart   \* setting queue.resumeOnStart

Slots == 1..MaxRuns
Runs == Jobs \X Slots

ASSUME QueueAssumption ==
  /\ IsFiniteSet(Jobs) /\ NoJob \notin Jobs
  /\ Dir \in [Jobs -> Dirs] /\ TokenJobs \subseteq Jobs
  /\ MaxConcurrent \in Nat \ {0} /\ MaxRetries \in Nat /\ MaxRuns \in Nat \ {0}
  /\ {IdleOnly, SlowProbes, SlowStop, EarlyCalls, StartMayFail, ResumeOnStart}
       \subseteq BOOLEAN

VARIABLES
  phase,        \* the owning process: "down", "starting" (in start()), "up"
  state,        \* job.state, with the waitReason of "waiting"
  autoResume,   \* job.autoResume
  retries,      \* job.retry.count
  bypass,       \* jobs with job.bypassIdleOnce
  forced,       \* jobs with job.forceSlot
  lost,         \* jobs for which tokenMissing() holds
  step,         \* where each run is: its process, verification, registration
  stop,         \* run.stopReason
  current,      \* the Map `runs`: the run of a job, 0 if it has none
  calls,        \* pause and cancel calls waiting in stopRun
  entering,     \* enqueue calls past the duplicate check
  retryTimer,   \* armed retry timers
  recheck,      \* the recheck timer is armed
  resumeTimer,  \* the delayed auto-resume of start() is armed
  pump,         \* the scheduling pass
  captured,     \* start(): the jobs that were in process at the load
  orphans       \* jobs whose download process outlived the queue's process

jobVars  == <<state, autoResume, retries, bypass, forced, lost>>
runVars  == <<step, stop, current>>
timeVars == <<retryTimer, recheck, resumeTimer>>
lifeVars == <<phase, captured, orphans>>
vars == <<jobVars, runVars, calls, entering, timeVars, pump, lifeVars>>

-----------------------------------------------------------------------------
(* States *)

InProcess == {"downloading", "verifying"}
Runnable  == {"queued", "waiting/runtime-busy", "waiting/disk",
              "waiting/concurrency"}
Terminal  == {"ready", "failed", "cancelled"}
JobState  == InProcess \cup Runnable \cup Terminal \cup
             {"absent", "waiting/auth", "retrying", "paused", "interrupted"}

Steps == {"free", "engine", "verify", "register"}
Stops == {"none", "pause", "cancel", "stall"}
Calls == [op : {"pause", "cancel"}, job : Jobs, run : 0..MaxRuns]
Passes == [pc : {"idle", "wanted", "scan", "gate", "disk"},
           todo : SUBSET Jobs, cand : Jobs \cup {NoJob},
           active : Nat, idle : BOOLEAN, blocked : BOOLEAN, again : BOOLEAN]

TypeOK ==
  /\ phase \in {"down", "starting", "up"}
  /\ state \in [Jobs -> JobState]
  /\ autoResume \in [Jobs -> BOOLEAN]
  /\ retries \in [Jobs -> 0..MaxRetries]
  /\ bypass \subseteq Jobs /\ forced \subseteq Jobs /\ lost \subseteq TokenJobs
  /\ step \in [Runs -> Steps] /\ stop \in [Runs -> Stops]
  /\ current \in [Jobs -> 0..MaxRuns]
  /\ calls \subseteq Calls /\ entering \subseteq Jobs
  /\ retryTimer \subseteq Jobs /\ recheck \in BOOLEAN /\ resumeTimer \in BOOLEAN
  /\ pump \in Passes
  /\ captured \subseteq Jobs /\ orphans \subseteq Jobs

NoPass == [pc |-> "idle", todo |-> {}, cand |-> NoJob, active |-> 0,
           idle |-> FALSE, blocked |-> FALSE, again |-> FALSE]

Init ==
  /\ phase = "up" /\ captured = {} /\ orphans = {}
  /\ state = [j \in Jobs |-> "absent"]
  /\ autoResume = [j \in Jobs |-> TRUE]
  /\ retries = [j \in Jobs |-> 0]
  /\ bypass = {} /\ forced = {} /\ lost = {}
  /\ step = [x \in Runs |-> "free"] /\ stop = [x \in Runs |-> "none"]
  /\ current = [j \in Jobs |-> 0]
  /\ calls = {} /\ entering = {}
  /\ retryTimer = {} /\ recheck = FALSE /\ resumeTimer = FALSE
  /\ pump = NoPass

-----------------------------------------------------------------------------
(* Helpers *)

Active == {j \in Jobs : state[j] \in InProcess}

\* activeOnDir: another job that is not terminal targets the folder.
ActiveOnDir(j) ==
  \E k \in Jobs : k # j /\ Dir[k] = Dir[j] /\ state[k] \notin Terminal \cup {"absent"}

\* The processes that write to a folder.  Each holds the folder's
\* model-storage lock until it exits, beyond the death of its parent too.
Writers(d) == {x \in Runs : step[x] = "engine" /\ Dir[x[1]] = d}
              \cup {<<j, 0>> : j \in {k \in orphans : Dir[k] = d}}
\* MUTANT: the lock dies with the process that took it.
Locked_OwnRunsOnly(d) == \E x \in Runs : step[x] = "engine" /\ Dir[x[1]] = d
Locked(d) == Writers(d) # {}

Set(j, s) == state' = [state EXCEPT ![j] = s]
Schedule(p) == IF p.pc = "idle" THEN [NoPass EXCEPT !.pc = "wanted"]
                                ELSE [p EXCEPT !.again = TRUE]
SchedulePump == pump' = Schedule(pump)

\* finishRun: forget the run and wake the calls that wait for it.
FinishRun(j, r) ==
  /\ step' = [step EXCEPT ![<<j, r>>] = "free"]
  /\ stop' = [stop EXCEPT ![<<j, r>>] = "none"]
  /\ current' = [current EXCEPT ![j] = IF @ = r THEN 0 ELSE @]
  /\ calls' = {IF c.job = j /\ c.run = r THEN [c EXCEPT !.run = 0] ELSE c :
               c \in calls}

\* MUTANTS: the budget is not looked at; the retry timer is not armed.
HandleFailure_NoBudget(j, retryable) ==
  IF retryable
  THEN /\ Set(j, "retrying")
       /\ retries' = [retries EXCEPT ![j] = @ + 1]
       /\ retryTimer' = retryTimer \cup {j}
  ELSE Set(j, "failed") /\ UNCHANGED <<retries, retryTimer>>
HandleFailure_NoTimer(j, retryable) ==
  IF retryable /\ retries[j] < MaxRetries
  THEN /\ Set(j, "retrying")
       /\ retries' = [retries EXCEPT ![j] = @ + 1]
       /\ UNCHANGED retryTimer
  ELSE Set(j, "failed") /\ UNCHANGED <<retries, retryTimer>>

\* handleFailure: another try while the budget lasts, else failed.
HandleFailure(j, retryable) ==
  IF retryable /\ retries[j] < MaxRetries
  THEN /\ Set(j, "retrying")
       /\ retries' = [retries EXCEPT ![j] = @ + 1]
       /\ retryTimer' = retryTimer \cup {j}
  ELSE Set(j, "failed") /\ UNCHANGED <<retries, retryTimer>>

\* The event loop can run the next event: no handler is in the middle of a
\* turn, and the continuations of finished waits ran first.
Free ==
  /\ \A c \in calls : c.run # 0
  /\ pump.pc = "idle" \/ (SlowProbes /\ pump.pc \in {"gate", "disk"})
  /\ SlowProbes \/ entering = {}

Served(op) == op \in Operations /\ Free
              /\ (phase = "up" \/ (EarlyCalls /\ phase = "starting"))
-----------------------------------------------------------------------------
(* The scheduling pass: pumpOnce *)

\* A pass begins: auth waits whose token is back become runnable, and the
\* candidates and the number of active jobs are read.
\* BOUND: a job with MaxRuns live runs is no candidate.
PumpBegin ==
  /\ pump.pc = "wanted"
  /\ state' = [j \in Jobs |-> IF state[j] = "waiting/auth" /\ j \notin lost
                              THEN "queued" ELSE state[j]]
  /\ pump' = [NoPass EXCEPT !.pc = "scan", !.active = Cardinality(Active),
                !.todo = {j \in Jobs : state'[j] \in Runnable /\
                                       \E r \in Slots : step[<<j, r>>] = "free"}]
  /\ UNCHANGED <<autoResume, retries, bypass, forced, lost, runVars, calls,
                 entering, timeVars, lifeVars>>

PumpEnd ==
  /\ pump.pc = "scan" /\ pump.todo = {}
  /\ pump' = [NoPass EXCEPT !.pc = IF pump.again THEN "wanted" ELSE "idle"]
  /\ UNCHANGED <<jobVars, runVars, calls, entering, timeVars, lifeVars>>

\* MUTANT: a forced start ignores the limit.
SlotFree_Forced(j) == pump.active < MaxConcurrent \/ j \in forced

SlotFree(j) == \/ pump.active < MaxConcurrent
               \/ j \in forced /\ pump.active < MaxConcurrent + 1

\* The next candidate is not runnable any more.
PumpSkip(j) ==
  /\ pump.pc = "scan" /\ j \in pump.todo
  /\ state[j] \notin Runnable \cup {"waiting/auth"}
  /\ pump' = [pump EXCEPT !.todo = @ \ {j}]
  /\ UNCHANGED <<jobVars, runVars, calls, entering, timeVars, lifeVars>>

\* No slot: the first such candidate waits for one, the others stay queued.
PumpNoSlot(j) ==
  /\ pump.pc = "scan" /\ j \in pump.todo
  /\ state[j] \in Runnable \cup {"waiting/auth"}
  /\ ~SlotFree(j)
  /\ Set(j, IF ~pump.blocked THEN "waiting/concurrency"
            ELSE IF state[j] = "waiting/concurrency" THEN "queued" ELSE state[j])
  /\ pump' = [pump EXCEPT !.todo = @ \ {j}, !.blocked = TRUE]
  /\ UNCHANGED <<autoResume, retries, bypass, forced, lost, runVars, calls,
                 entering, timeVars, lifeVars>>

\* A slot is free: a lost token waits for the user; otherwise the idle gate
\* is asked (once per pass), then the disk.
PumpProbe(j) ==
  /\ pump.pc = "scan" /\ j \in pump.todo
  /\ state[j] \in Runnable \cup {"waiting/auth"}
  /\ SlotFree(j)
  /\ IF j \in lost
     THEN Set(j, "waiting/auth") /\ pump' = [pump EXCEPT !.todo = @ \ {j}]
     ELSE /\ pump' = [pump EXCEPT !.todo = @ \ {j}, !.cand = j,
                        !.pc = IF IdleOnly /\ j \notin bypass /\ ~pump.idle
                               THEN "gate" ELSE "disk"]
          /\ UNCHANGED state
  /\ UNCHANGED <<autoResume, retries, bypass, forced, lost, runVars, calls,
                 entering, timeVars, lifeVars>>

\* idleGate answered.  Busy: the candidate waits, whatever it became during
\* the wait, and the rest of the queue stays behind it.
PumpGateIdle ==
  /\ pump.pc = "gate"
  /\ pump' = [pump EXCEPT !.pc = "disk", !.idle = TRUE]
  /\ UNCHANGED <<jobVars, runVars, calls, entering, timeVars, lifeVars>>

PumpGateBusy ==
  /\ pump.pc = "gate"
  /\ Set(pump.cand, "waiting/runtime-busy")
  /\ recheck' = TRUE
  /\ pump' = [pump EXCEPT !.pc = "scan", !.todo = {}, !.cand = NoJob]
  /\ UNCHANGED <<autoResume, retries, bypass, forced, lost, runVars, calls,
                 entering, retryTimer, resumeTimer, lifeVars>>

\* diskAllows answered no: again the state is not looked at.
PumpDiskShort ==
  /\ pump.pc = "disk"
  /\ Set(pump.cand, "waiting/disk")
  /\ recheck' = TRUE
  /\ pump' = [pump EXCEPT !.pc = "scan", !.cand = NoJob]
  /\ UNCHANGED <<autoResume, retries, bypass, forced, lost, runVars, calls,
                 entering, retryTimer, resumeTimer, lifeVars>>

PumpDiskSkip ==
  /\ pump.pc = "disk" /\ state[pump.cand] \notin Runnable \cup {"waiting/auth"}
  /\ pump' = [pump EXCEPT !.pc = "scan", !.cand = NoJob]
  /\ UNCHANGED <<jobVars, runVars, calls, entering, timeVars, lifeVars>>

\* MUTANTS: the started job is not counted; the candidate is started without a
\* second look at its state.
RunJob_NotCounted(j) ==
  /\ pump.pc = "disk" /\ pump.cand = j
  /\ state[j] \in Runnable \cup {"waiting/auth"}
  /\ pump' = [pump EXCEPT !.pc = "scan", !.cand = NoJob]
  /\ autoResume' = [autoResume EXCEPT ![j] = TRUE]
  /\ bypass' = bypass \ {j} /\ forced' = forced \ {j}
  /\ UNCHANGED <<lost, calls, entering, recheck, resumeTimer, lifeVars>>
RunJob_NoSecondLook(j) ==
  /\ pump.pc = "disk" /\ pump.cand = j
  /\ pump' = [pump EXCEPT !.pc = "scan", !.cand = NoJob, !.active = @ + 1]
  /\ autoResume' = [autoResume EXCEPT ![j] = TRUE]
  /\ bypass' = bypass \ {j} /\ forced' = forced \ {j}
  /\ UNCHANGED <<lost, calls, entering, recheck, resumeTimer, lifeVars>>

\* diskAllows answered yes and the candidate is still runnable: runJob.  The
\* one-shot flags are used up whatever comes of it.
RunJob(j) ==
  /\ pump.pc = "disk" /\ pump.cand = j
  /\ state[j] \in Runnable \cup {"waiting/auth"}
  /\ pump' = [pump EXCEPT !.pc = "scan", !.cand = NoJob, !.active = @ + 1]
  /\ autoResume' = [autoResume EXCEPT ![j] = TRUE]
  /\ bypass' = bypass \ {j} /\ forced' = forced \ {j}
  /\ UNCHANGED <<lost, calls, entering, recheck, resumeTimer, lifeVars>>

RunJobStarts(j, r) ==
  /\ RunJob(j)
  /\ j \notin lost /\ ~Locked(Dir[j])
  /\ step[<<j, r>>] = "free" /\ \A q \in Slots : q < r => step[<<j, q>>] # "free"
  /\ step' = [step EXCEPT ![<<j, r>>] = "engine"]
  /\ current' = [current EXCEPT ![j] = r]
  /\ Set(j, "downloading")
  /\ UNCHANGED <<stop, retries, retryTimer>>

RunJobNeedsToken(j) ==
  /\ RunJob(j)
  /\ j \in lost
  /\ current' = [current EXCEPT ![j] = 0]
  /\ Set(j, "waiting/auth")
  /\ UNCHANGED <<step, stop, retries, retryTimer>>

\* engine.start throws: the folder is locked, or the engine refuses.  No new
\* pass is scheduled.
RunJobFails(j, retryable) ==
  /\ RunJob(j)
  /\ j \notin lost /\ (Locked(Dir[j]) \/ StartMayFail)
  /\ current' = [current EXCEPT ![j] = 0]
  /\ HandleFailure(j, retryable)
  /\ UNCHANGED <<step, stop>>

Pump == \/ PumpBegin \/ PumpEnd
        \/ \E j \in Jobs : PumpSkip(j) \/ PumpNoSlot(j) \/ PumpProbe(j)
        \/ PumpGateIdle \/ PumpGateBusy \/ PumpDiskShort \/ PumpDiskSkip
        \/ \E j \in Jobs, r \in Slots : RunJobStarts(j, r)
        \/ \E j \in Jobs : RunJobNeedsToken(j)
        \/ \E j \in Jobs, b \in BOOLEAN : RunJobFails(j, b)
-----------------------------------------------------------------------------
(* A run: the engine process, the verifier, the registration *)

\* MUTANT: the end of a run starts no pass.
RunEnds_NoPump(j, r) ==
  /\ FinishRun(j, r)
  /\ UNCHANGED <<pump, bypass, forced, entering, recheck, resumeTimer, lifeVars>>

\* The end of a run as every path of onEngineExit has it, and a pass after it.
\* The catch around onEngineExit is not modelled: what waits in it (the
\* verifier, the library, the write) has a catch of its own.
RunEnds(j, r) ==
  /\ FinishRun(j, r)
  /\ SchedulePump
  /\ UNCHANGED <<bypass, forced, entering, recheck, resumeTimer, lifeVars>>

\* The watchdog stops a silent attempt.
Stall(j, r) ==
  /\ Free /\ step[<<j, r>>] = "engine"
  /\ stop[<<j, r>>] = "none" /\ current[j] = r
  /\ stop' = [stop EXCEPT ![<<j, r>>] = "stall"]
  /\ UNCHANGED <<jobVars, step, current, calls, entering, timeVars, pump, lifeVars>>

\* onEngineExit after a stop for "cancel": the call that waits does the rest.
ExitCancelled(j, r) ==
  /\ Free /\ step[<<j, r>>] = "engine" /\ stop[<<j, r>>] = "cancel"
  /\ FinishRun(j, r)
  /\ UNCHANGED <<jobVars, entering, timeVars, pump, lifeVars>>

\* ... for "pause", of the process or of the verification.
StoppedForPause(j, r) ==
  /\ Free /\ step[<<j, r>>] \in {"engine", "verify"} /\ stop[<<j, r>>] = "pause"
  /\ Set(j, "paused")
  /\ autoResume' = [autoResume EXCEPT ![j] = FALSE]
  /\ RunEnds(j, r)
  /\ UNCHANGED <<retries, lost, retryTimer>>

ExitFailed(j, r, retryable) ==
  /\ Free /\ step[<<j, r>>] = "engine" /\ stop[<<j, r>>] \in {"none", "stall"}
  /\ HandleFailure(j, retryable)
  /\ RunEnds(j, r)
  /\ UNCHANGED <<autoResume, lost>>

ExitOk(j, r) ==
  /\ Free /\ step[<<j, r>>] = "engine" /\ stop[<<j, r>>] = "none"
  /\ step' = [step EXCEPT ![<<j, r>>] = "verify"]
  /\ Set(j, "verifying")
  /\ UNCHANGED <<autoResume, retries, bypass, forced, lost, stop, current,
                 calls, entering, timeVars, pump, lifeVars>>

VerifyCancelled(j, r) ==
  /\ Free /\ step[<<j, r>>] = "verify" /\ stop[<<j, r>>] = "cancel"
  /\ RunEnds(j, r)
  /\ UNCHANGED <<state, autoResume, retries, lost, retryTimer>>

VerifyFailed(j, r, retryable) ==
  /\ Free /\ step[<<j, r>>] = "verify" /\ stop[<<j, r>>] = "none"
  /\ HandleFailure(j, retryable)
  /\ RunEnds(j, r)
  /\ UNCHANGED <<autoResume, lost>>

VerifyOk(j, r) ==
  /\ Free /\ step[<<j, r>>] = "verify" /\ stop[<<j, r>>] = "none"
  /\ step' = [step EXCEPT ![<<j, r>>] = "register"]
  /\ UNCHANGED <<jobVars, stop, current, calls, entering, timeVars, pump, lifeVars>>

\* completeJob after the library answered: ready, whatever was asked of the
\* job meanwhile, and the token is released.
Registered(j, r) ==
  /\ Free /\ step[<<j, r>>] = "register"
  /\ Set(j, "ready")
  /\ lost' = lost \cup ({j} \cap TokenJobs)
  /\ RunEnds(j, r)
  /\ UNCHANGED <<autoResume, retries, retryTimer>>

RunStep(j, r) ==
  \/ Stall(j, r) \/ ExitCancelled(j, r) \/ StoppedForPause(j, r)
  \/ ExitOk(j, r) \/ VerifyCancelled(j, r) \/ VerifyOk(j, r) \/ Registered(j, r)
  \/ \E b \in BOOLEAN : ExitFailed(j, r, b) \/ VerifyFailed(j, r, b)
-----------------------------------------------------------------------------
(* API calls *)

\* enqueue up to its first wait: the duplicate check on the folder.
EnqueueCheck(j) ==
  /\ Served("enqueue")
  /\ state[j] = "absent" /\ j \notin entering
  /\ ~ActiveOnDir(j)
  /\ entering' = entering \cup {j}
  /\ UNCHANGED <<jobVars, runVars, calls, timeVars, pump, lifeVars>>

\* ... and after the library and the disk answered: refused, or queued.
EnqueueRefused(j) ==
  /\ j \in entering /\ pump.pc \in {"idle", "gate", "disk"}
  /\ entering' = entering \ {j}
  /\ UNCHANGED <<jobVars, runVars, calls, timeVars, pump, lifeVars>>

EnqueuePush(j) ==
  /\ j \in entering /\ pump.pc \in {"idle", "gate", "disk"}
  /\ entering' = entering \ {j}
  /\ Set(j, "queued")
  /\ autoResume' = [autoResume EXCEPT ![j] = TRUE]
  /\ retries' = [retries EXCEPT ![j] = 0]
  /\ bypass' = bypass \ {j} /\ forced' = forced \ {j} /\ lost' = lost \ {j}
  /\ SchedulePump
  /\ UNCHANGED <<runVars, calls, timeVars, lifeVars>>

\* stopRun up to its wait, for pause and cancel.
StopRun(j, reason) ==
  /\ stop' = [stop EXCEPT ![<<j, current[j]>>] = reason]
  /\ calls' = calls \cup {[op |-> reason, job |-> j, run |-> current[j]]}

Pause(j) ==
  /\ Served("pause")
  /\ state[j] \notin Terminal \cup {"paused", "absent"}
  /\ retryTimer' = retryTimer \ {j}
  /\ autoResume' = [autoResume EXCEPT ![j] = FALSE]
  /\ IF current[j] # 0
     THEN StopRun(j, "pause") /\ UNCHANGED <<state, pump>>
     ELSE Set(j, "paused") /\ SchedulePump /\ UNCHANGED <<stop, calls>>
  /\ UNCHANGED <<retries, bypass, forced, lost, step, current, entering,
                 recheck, resumeTimer, lifeVars>>

\* MUTANT: the call does not wait.
WaitOver_NoWait(c) == c \in calls /\ pump.pc \in {"idle", "gate", "disk"}

\* The wait of stopRun is over: the run ended, or stopWaitMs passed.
WaitOver(c) == /\ c \in calls /\ pump.pc \in {"idle", "gate", "disk"}
               /\ c.run = 0 \/ (SlowStop /\ Free)

PauseReturns(c) ==
  /\ WaitOver(c) /\ c.op = "pause"
  /\ calls' = calls \ {c}
  /\ IF state[c.job] \in Terminal THEN UNCHANGED state ELSE Set(c.job, "paused")
  /\ SchedulePump
  /\ UNCHANGED <<autoResume, retries, bypass, forced, lost, runVars, entering,
                 timeVars, lifeVars>>

\* cancel: refused for a ready job.
Cancel(j) ==
  /\ Served("cancel")
  /\ state[j] \notin {"ready", "absent"}
  /\ retryTimer' = retryTimer \ {j}
  /\ IF current[j] # 0
     THEN StopRun(j, "cancel") /\ UNCHANGED <<state, autoResume, lost, pump>>
     ELSE /\ Set(j, "cancelled")
          /\ autoResume' = [autoResume EXCEPT ![j] = FALSE]
          /\ lost' = lost \cup ({j} \cap TokenJobs)
          /\ SchedulePump /\ UNCHANGED <<stop, calls>>
  /\ UNCHANGED <<retries, bypass, forced, step, current, entering, recheck,
                 resumeTimer, lifeVars>>

CancelReturns(c) ==
  /\ WaitOver(c) /\ c.op = "cancel"
  /\ calls' = calls \ {c}
  /\ Set(c.job, "cancelled")
  /\ autoResume' = [autoResume EXCEPT ![c.job] = FALSE]
  /\ lost' = lost \cup ({c.job} \cap TokenJobs)
  /\ SchedulePump
  /\ UNCHANGED <<retries, bypass, forced, runVars, entering, timeVars, lifeVars>>

\* resume and startNow of a job that needs its token: 409, and the job waits.
AskForToken(j) ==
  /\ Set(j, "waiting/auth")
  /\ UNCHANGED <<autoResume, retries, bypass, forced, runVars, calls, entering,
                 timeVars, pump, lifeVars>>

\* The job goes back to the queue at the user's request.
Requeue(j) ==
  /\ retryTimer' = retryTimer \ {j}
  /\ autoResume' = [autoResume EXCEPT ![j] = TRUE]
  /\ Set(j, "queued")
  /\ SchedulePump
  /\ UNCHANGED <<runVars, calls, entering, recheck, resumeTimer, lifeVars>>

Resumable(j) == state[j] \notin Terminal \cup InProcess \cup {"absent"}

\* `cred`: the call carries the token again.
Resume(j, cred) ==
  /\ Served("resume") /\ Resumable(j)
  /\ lost' = IF cred THEN lost \ {j} ELSE lost
  /\ \/ j \in lost' /\ AskForToken(j)
     \/ j \notin lost' /\ Requeue(j) /\ UNCHANGED <<retries, bypass, forced>>

StartNow(j, force) ==
  /\ Served("startNow") /\ (force => "force" \in Operations) /\ Resumable(j)
  /\ UNCHANGED lost
  /\ \/ j \in lost /\ AskForToken(j)
     \/ /\ j \notin lost /\ Requeue(j)
        /\ bypass' = bypass \cup {j}
        /\ forced' = IF force THEN forced \cup {j} ELSE forced \ {j}
        /\ UNCHANGED retries

Retry(j) ==
  /\ Served("retry") /\ state[j] \in {"failed", "cancelled"}
  /\ retries' = [retries EXCEPT ![j] = 0]
  /\ autoResume' = [autoResume EXCEPT ![j] = TRUE]
  /\ Set(j, "queued")
  /\ SchedulePump
  /\ UNCHANGED <<bypass, forced, lost, runVars, calls, entering, timeVars, lifeVars>>

\* setPriority and reorder: the order is abstract, a pass follows.
Reprioritise ==
  /\ Served("reorder") /\ \E j \in Jobs : state[j] \in Runnable \cup {"waiting/auth"}
  /\ SchedulePump
  /\ UNCHANGED <<jobVars, runVars, calls, entering, timeVars, lifeVars>>

\* remove, and compact for the records beyond history.keepRecords.  A record
\* that a pass, a call or a run still refers to is not followed any further.
Remove(j) ==
  /\ Served("remove") /\ state[j] \in Terminal
  /\ \A r \in Slots : step[<<j, r>>] = "free"
  /\ \A c \in calls : c.job # j
  /\ j \notin pump.todo /\ pump.cand # j /\ j \notin captured
  /\ Set(j, "absent")
  /\ UNCHANGED <<autoResume, retries, bypass, forced, lost, runVars, calls,
                 entering, timeVars, pump, lifeVars>>

ApiCall == \/ Reprioritise
           \/ \E j \in Jobs :
                \/ EnqueueCheck(j) \/ EnqueueRefused(j) \/ EnqueuePush(j)
                \/ Pause(j) \/ Cancel(j) \/ Retry(j) \/ Remove(j)
                \/ \E b \in BOOLEAN : Resume(j, b) \/ StartNow(j, b)
           \/ \E c \in calls : PauseReturns(c) \/ CancelReturns(c)
-----------------------------------------------------------------------------
(* Timers *)

RetryFires(j) ==
  /\ Free /\ j \in retryTimer
  /\ retryTimer' = retryTimer \ {j}
  /\ IF state[j] = "retrying" THEN Set(j, "queued") /\ SchedulePump
                              ELSE UNCHANGED <<state, pump>>
  /\ UNCHANGED <<autoResume, retries, bypass, forced, lost, runVars, calls,
                 entering, recheck, resumeTimer, lifeVars>>

RecheckFires ==
  /\ Free /\ recheck
  /\ recheck' = FALSE
  /\ SchedulePump
  /\ UNCHANGED <<jobVars, runVars, calls, entering, retryTimer, resumeTimer, lifeVars>>

\* queue.resumeDelaySeconds after a start.
ResumeFires ==
  /\ Free /\ resumeTimer
  /\ resumeTimer' = FALSE
  /\ state' = [j \in Jobs |-> IF state[j] = "interrupted" /\ autoResume[j]
                              THEN "queued" ELSE state[j]]
  /\ SchedulePump
  /\ UNCHANGED <<autoResume, retries, bypass, forced, lost, runVars, calls,
                 entering, retryTimer, recheck, lifeVars>>

Timer == RecheckFires \/ ResumeFires \/ \E j \in Jobs : RetryFires(j)
-----------------------------------------------------------------------------
(* Crash, shutdown and restart of the owning process *)

\* Everything but the jobs is memory of the process.
MemoryLost ==
  /\ step' = [x \in Runs |-> "free"] /\ stop' = [x \in Runs |-> "none"]
  /\ current' = [j \in Jobs |-> 0]
  /\ calls' = {} /\ entering' = {}
  /\ retryTimer' = {} /\ recheck' = FALSE /\ resumeTimer' = FALSE
  /\ pump' = NoPass
  /\ phase' = "down" /\ captured' = {}

Downloading == {j \in Jobs : \E r \in Slots : step[<<j, r>>] = "engine"}

\* The process dies; its child processes go on.
Crash ==
  /\ "crash" \in Operations /\ phase # "down"
  /\ orphans' = orphans \cup Downloading
  /\ MemoryLost
  /\ UNCHANGED jobVars

\* stop(): runs are interrupted and their processes stopped, within
\* stopWaitMs or not; then the process exits.
Shutdown ==
  /\ "shutdown" \in Operations /\ phase = "up" /\ Free
  /\ LET inRun == {j \in Active : current[j] # 0} IN
     /\ state' = [j \in Jobs |-> IF j \in inRun THEN "interrupted" ELSE state[j]]
     /\ autoResume' = [j \in Jobs |-> j \in inRun \/ autoResume[j]]
  /\ \E left \in SUBSET Downloading :
       /\ ~SlowStop => left = {}
       /\ orphans' = orphans \cup left
  /\ MemoryLost
  /\ UNCHANGED <<retries, bypass, forced, lost>>

OrphanExits(j) ==
  /\ j \in orphans /\ orphans' = orphans \ {j}
  /\ UNCHANGED <<jobVars, runVars, calls, entering, timeVars, pump, phase, captured>>

\* MUTANT: the running jobs are overlooked.
StartBegins_None ==
  /\ phase = "down"
  /\ phase' = "starting" /\ captured' = {}
  /\ lost' = TokenJobs
  /\ UNCHANGED <<state, autoResume, retries, bypass, forced, runVars, calls,
                 entering, timeVars, pump, orphans>>

\* load() and the first half of start(): the jobs found in process are
\* captured, and the orphan check begins.
StartBegins ==
  /\ phase = "down"
  /\ phase' = "starting" /\ captured' = Active
  /\ lost' = TokenJobs
  /\ UNCHANGED <<state, autoResume, retries, bypass, forced, runVars, calls,
                 entering, timeVars, pump, orphans>>

\* MUTANT: retry timers are not armed again.
StartEnds_NoRetryTimers ==
  /\ phase = "starting" /\ Free
  /\ phase' = "up" /\ captured' = {}
  /\ state' = [j \in Jobs |->
       LET s == IF j \in captured THEN "interrupted" ELSE state[j] IN
       IF j \in lost /\ s \in Runnable \cup {"retrying", "interrupted"}
       THEN "waiting/auth" ELSE s]
  /\ autoResume' = [j \in Jobs |-> j \in captured \/ autoResume[j]]
  /\ orphans' = orphans \ captured
  /\ resumeTimer' = ResumeOnStart
  /\ SchedulePump
  /\ UNCHANGED <<retries, bypass, forced, lost, runVars, calls, entering,
                 retryTimer, recheck>>

\* The rest of start(): orphans of captured jobs are killed, captured jobs
\* become interrupted, lost tokens wait, retry timers are armed.
StartEnds ==
  /\ phase = "starting" /\ Free
  /\ phase' = "up" /\ captured' = {}
  /\ state' = [j \in Jobs |->
       LET s == IF j \in captured THEN "interrupted" ELSE state[j] IN
       IF j \in lost /\ s \in Runnable \cup {"retrying", "interrupted"}
       THEN "waiting/auth" ELSE s]
  /\ autoResume' = [j \in Jobs |-> j \in captured \/ autoResume[j]]
  /\ retryTimer' = (retryTimer \ {j \in Jobs : state'[j] = "waiting/auth"})
                   \cup {j \in Jobs : state'[j] = "retrying"}
  /\ \E killed \in SUBSET captured :
       /\ ~SlowStop => killed = captured
       /\ orphans' = orphans \ killed
  /\ resumeTimer' = ResumeOnStart
  /\ SchedulePump
  /\ UNCHANGED <<retries, bypass, forced, lost, runVars, calls, entering, recheck>>

Life == Crash \/ Shutdown \/ StartBegins \/ StartEnds
        \/ \E j \in Jobs : OrphanExits(j)
-----------------------------------------------------------------------------
Next == Pump \/ ApiCall \/ Timer \/ Life
        \/ \E j \in Jobs, r \in Slots : RunStep(j, r)

Spec == Init /\ [][Next]_vars
-----------------------------------------------------------------------------
(* Properties *)

\* The slots that forced starts may add.
ForceExtra == IF "force" \in Operations THEN 1 ELSE 0

\* At most transfer.maxConcurrent jobs are in process; one forced start may
\* exceed that by one (setting transfer.maxConcurrent, startNow).
SlotLimit ==
  Cardinality(Active) <= MaxConcurrent + ForceExtra

\* Two download processes never write to one folder, whatever calls, restarts
\* and slow stops do: engine.start takes the folder's lock and the lock lives
\* as long as the process, beyond the process that started it.
OneWriterPerDir == \A d \in Dirs : \A x, y \in Writers(d) : x = y

\* Once started, a job in process has a run that will end it, or a cancel call
\* that is about to: no job is left behind in "downloading" or "verifying".
Supervised ==
  phase = "up" =>
    \A j \in Active : current[j] # 0 \/ \E c \in calls : c.job = j

\* The queue never sleeps on work: with no job in process and no pass under
\* way, a job that may run has a timer or a waiting call that starts a pass.
NoLostWakeup ==
  phase = "up" /\ pump.pc = "idle" /\ Active = {} /\ calls = {}
    /\ (\E j \in Jobs : state[j] \in Runnable)
  => recheck \/ resumeTimer \/ retryTimer # {}

\* A retrying job always has the timer that takes it back to the queue.
RetryIsArmed ==
  phase = "up" => \A j \in Jobs : state[j] = "retrying" => j \in retryTimer

-----------------------------------------------------------------------------
(* Why SlotLimit holds when stops are never slow and no call arrives during   *)
(* start(): the parts of an inductive invariant.                              *)

\* A run that still works for a job is the one the queue knows, and the job
\* is in process.  (A run that outlives stopWaitMs breaks this: stopRun gives
\* up, the job goes on without it, and nothing tells the run.)
NoZombieRun ==
  \A j \in Jobs, r \in Slots :
    step[<<j, r>>] # "free" => current[j] = r /\ state[j] \in InProcess

CurrentIsLive == \A j \in Jobs : current[j] # 0 => step[<<j, current[j]>>] # "free"

\* A call waits for the run it stopped; once that run is over, the job has no
\* other and is not a candidate.
CallsFit ==
  \A c \in calls :
    IF c.run = 0
    THEN /\ current[c.job] = 0
         /\ state[c.job] \in InProcess \cup {"paused", "ready", "cancelled"}
    ELSE /\ current[c.job] = c.run
         /\ stop[<<c.job, c.run>>] \in {"pause", "cancel"}

\* While a pass waits for a probe its candidate does not start by another way,
\* and the pass never counts too few active jobs.
PassFits ==
  /\ pump.pc \in {"gate", "disk"} =>
       /\ pump.cand \in Jobs
       /\ state[pump.cand] \notin InProcess \cup {"absent"}
       /\ \A c \in calls : c.job # pump.cand
       /\ pump.active < MaxConcurrent + ForceExtra
  /\ pump.pc \in {"scan", "gate", "disk"} => Cardinality(Active) <= pump.active

EnteringIsAbsent == \A j \in entering : state[j] = "absent"

ForcedByCall == forced # {} => "force" \in Operations

MemoryIsEmpty ==
  phase # "up" =>
    /\ \A x \in Runs : step[x] = "free"
    /\ calls = {} /\ entering = {} /\ pump.pc = "idle"
    /\ retryTimer = {} /\ ~recheck /\ ~resumeTimer

\* What the code keeps true so that no job exceeds the limit and no run is
\* forgotten: calls, passes and runs agree about every job.
QueueInv ==
  /\ NoZombieRun /\ CurrentIsLive /\ CallsFit /\ PassFits
  /\ EnteringIsAbsent /\ ForcedByCall /\ MemoryIsEmpty
-----------------------------------------------------------------------------
(* Action properties *)

UserCall(j) == \/ Retry(j) \/ Remove(j) \/ Cancel(j)
               \/ \E b \in BOOLEAN : Resume(j, b) \/ StartNow(j, b)
               \/ \E c \in calls : c.job = j /\ (CancelReturns(c) \/ PauseReturns(c))

\* The steps that take a job out of "paused" or "cancelled" without the user:
\* the answer of a probe that was asked before the stop, the end of start() for
\* a job that was stopped while start() waited for the orphan check, and a run
\* that goes on although stopRun gave it up after stopWaitMs.
ProbeOverrules(j)  == pump.cand = j /\ (PumpGateBusy \/ PumpDiskShort)
StartInterrupts(j) == j \in captured /\ StartEnds
LateRun(j)         == \E r \in Slots : RunStep(j, r)

\* What the user stopped stays stopped, but for these three: no start by a pass
\* that chose the job before, no timer, no other restart, no other job's run
\* takes it out of "paused" or "cancelled" (pumpOnce, armRetry, start).
UserStopHolds ==
  [][\A j \in Jobs :
       state[j] \in {"paused", "cancelled"} /\ state'[j] # state[j] =>
         UserCall(j) \/ ProbeOverrules(j) \/ StartInterrupts(j) \/ LateRun(j)]_vars

-----------------------------------------------------------------------------
(* Fairness and liveness *)

\* The event loop serves every pending event at last: a process ends or the
\* watchdog stops it, the verifier and the library answer, timers fire, waits
\* end.  (Strong fairness: an event cannot run in the middle of a pass.)  The
\* probes are assumed to answer favourably again and again.
JobEvent(j) == \/ \E r \in Slots : RunStep(j, r) /\ step'[<<j, r>>] # step[<<j, r>>]
               \/ RetryFires(j) \/ EnqueueRefused(j) \/ EnqueuePush(j)
               \/ \E c \in calls : c.job = j /\ (PauseReturns(c) \/ CancelReturns(c))

Fairness ==
  /\ WF_vars(Pump) /\ SF_vars(PumpGateIdle)
  /\ \A j \in Jobs : /\ SF_vars(\E r \in Slots : RunJobStarts(j, r))
                     /\ SF_vars(JobEvent(j)) /\ WF_vars(OrphanExits(j))
  /\ SF_vars(RecheckFires) /\ SF_vars(ResumeFires)
  /\ WF_vars(StartBegins \/ StartEnds)

FairSpec == Spec /\ Fairness

\* If the process stays up from some time on, every job that waits, runs,
\* retries or was interrupted ends, is stopped, or waits for its token.
EverySettles ==
  <>[](phase = "up") =>
    \A j \in Jobs :
      state[j] \notin Terminal \cup {"absent", "paused", "waiting/auth"}
        ~> state[j] \in Terminal \cup {"absent", "paused", "waiting/auth"}
=============================================================================
