------------------------ MODULE DownloadQueue_proofs ------------------------
(***************************************************************************)
(* Theorems about DownloadQueue, for every set of jobs, every setting and  *)
(* every choice of operations.                                             *)
(***************************************************************************)
EXTENDS DownloadQueue, FiniteSetTheorems, TLAPS

-----------------------------------------------------------------------------
(* Lemmas *)

\* The jobs in process are finitely many.
LEMMA ActiveFinite == IsFiniteSet(Active) /\ Cardinality(Active) \in Nat
<1>1. IsFiniteSet(Active)
  BY FS_Subset, QueueAssumption DEF QueueAssumption, Active
<1> QED BY <1>1, FS_CardinalityType

\* Scheduling a pass turns a pass into a pass.
LEMMA ScheduleType == \A p \in Passes : Schedule(p) \in Passes
BY DEF Schedule, Passes, NoPass

LEMMA NoPassType == NoPass \in Passes
BY DEF NoPass, Passes

\* The end of a run keeps the types of what it changes.
LEMMA FinishRunType ==
  ASSUME TypeOK, NEW j \in Jobs, NEW r \in Slots, FinishRun(j, r)
  PROVE  /\ step' \in [Runs -> Steps] /\ stop' \in [Runs -> Stops]
         /\ current' \in [Jobs -> 0..MaxRuns] /\ calls' \subseteq Calls
<1>1. step' \in [Runs -> Steps] /\ stop' \in [Runs -> Stops]
  BY DEF TypeOK, FinishRun, Steps, Stops
<1>2. current' \in [Jobs -> 0..MaxRuns]
  BY QueueAssumption DEF TypeOK, FinishRun, QueueAssumption
<1>3. calls' \subseteq Calls
  BY QueueAssumption DEF TypeOK, FinishRun, Calls, QueueAssumption
<1> QED BY <1>1, <1>2, <1>3

\* A failure keeps the types of what it changes.
LEMMA HandleFailureType ==
  ASSUME TypeOK, NEW j \in Jobs, NEW b \in BOOLEAN, HandleFailure(j, b)
  PROVE  /\ state' \in [Jobs -> JobState] /\ retries' \in [Jobs -> 0..MaxRetries]
         /\ retryTimer' \subseteq Jobs
BY QueueAssumption DEF TypeOK, HandleFailure, Set, JobState, Terminal, QueueAssumption

\* The start of a job keeps the types of what it changes.
LEMMA RunJobType ==
  ASSUME TypeOK, NEW j \in Jobs, RunJob(j)
  PROVE  /\ pump' \in Passes /\ autoResume' \in [Jobs -> BOOLEAN]
         /\ bypass' \subseteq Jobs /\ forced' \subseteq Jobs
<1>1. pump.active \in Nat /\ pump \in Passes
  BY DEF TypeOK, Passes
<1>2. pump.active + 1 \in Nat
  BY <1>1
<1>3. pump' \in Passes
  BY <1>1, <1>2 DEF RunJob, Passes
<1> QED BY <1>3 DEF TypeOK, RunJob

\* Each turn of a pass keeps the types.
LEMMA PumpType ==
  ASSUME TypeOK, Pump PROVE TypeOK'
<1> USE DEF TypeOK
<1>1. CASE PumpBegin
  BY <1>1, ActiveFinite DEF PumpBegin, NoPass, Passes, JobState, Runnable,
     runVars, timeVars, lifeVars
<1>2. CASE PumpEnd
  BY <1>2 DEF PumpEnd, NoPass, Passes, jobVars, runVars, timeVars, lifeVars
<1>3. ASSUME NEW j \in Jobs, PumpSkip(j) PROVE TypeOK'
  BY <1>3 DEF PumpSkip, Passes, jobVars, runVars, timeVars, lifeVars
<1>4. ASSUME NEW j \in Jobs, PumpNoSlot(j) PROVE TypeOK'
  BY <1>4 DEF PumpNoSlot, Set, Passes, JobState, Runnable, runVars, timeVars, lifeVars
<1>5. ASSUME NEW j \in Jobs, PumpProbe(j) PROVE TypeOK'
  <2>1. pump' \in Passes
    <3>1. CASE j \in lost
      BY <1>5, <3>1 DEF PumpProbe, Passes
    <3>2. CASE j \notin lost
      <4>1. PICK q \in {"gate", "disk"} :
              pump' = [pump EXCEPT !.todo = @ \ {j}, !.cand = j, !.pc = q]
        BY <1>5, <3>2 DEF PumpProbe
      <4> QED BY <4>1 DEF Passes
    <3> QED BY <3>1, <3>2
  <2>2. state' \in [Jobs -> JobState]
    BY <1>5 DEF PumpProbe, Set, JobState
  <2> QED BY <1>5, <2>1, <2>2 DEF PumpProbe, runVars, timeVars, lifeVars
<1>6. CASE PumpGateIdle
  BY <1>6 DEF PumpGateIdle, Passes, jobVars, runVars, timeVars, lifeVars
<1>7. CASE PumpGateBusy
  BY <1>7 DEF PumpGateBusy, Set, Passes, JobState, Runnable, runVars, lifeVars
<1>8. CASE PumpDiskShort
  BY <1>8 DEF PumpDiskShort, Set, Passes, JobState, Runnable, runVars, lifeVars
<1>9. CASE PumpDiskSkip
  BY <1>9 DEF PumpDiskSkip, Passes, jobVars, runVars, timeVars, lifeVars
<1>10. ASSUME NEW j \in Jobs, NEW r \in Slots, RunJobStarts(j, r) PROVE TypeOK'
  <2>1. state' \in [Jobs -> JobState]
    BY <1>10 DEF RunJobStarts, Set, JobState, InProcess
  <2>2. step' \in [Runs -> Steps]
    BY <1>10 DEF RunJobStarts, Steps
  <2>3. current' \in [Jobs -> 0..MaxRuns]
    BY <1>10, QueueAssumption DEF RunJobStarts, Slots, QueueAssumption
  <2> QED BY <1>10, <2>1, <2>2, <2>3, RunJobType DEF RunJobStarts, RunJob, lifeVars
<1>11. ASSUME NEW j \in Jobs, RunJobNeedsToken(j) PROVE TypeOK'
  <2>1. state' \in [Jobs -> JobState] /\ current' \in [Jobs -> 0..MaxRuns]
    BY <1>11, QueueAssumption DEF RunJobNeedsToken, Set, JobState, QueueAssumption
  <2> QED BY <1>11, <2>1, RunJobType DEF RunJobNeedsToken, RunJob, lifeVars
<1>12. ASSUME NEW j \in Jobs, NEW b \in BOOLEAN, RunJobFails(j, b) PROVE TypeOK'
  <2>1. current' \in [Jobs -> 0..MaxRuns]
    BY <1>12, QueueAssumption DEF RunJobFails, QueueAssumption
  <2>2. /\ state' \in [Jobs -> JobState] /\ retries' \in [Jobs -> 0..MaxRetries]
        /\ retryTimer' \subseteq Jobs
    BY <1>12, HandleFailureType DEF RunJobFails
  <2> QED BY <1>12, <2>1, <2>2, RunJobType DEF RunJobFails, RunJob, lifeVars
<1> QED BY <1>1, <1>2, <1>3, <1>4, <1>5, <1>6, <1>7, <1>8, <1>9, <1>10, <1>11,
           <1>12 DEF Pump

\* Each step of a run keeps the types.
LEMMA RunStepType ==
  ASSUME TypeOK, NEW j \in Jobs, NEW r \in Slots, RunStep(j, r) PROVE TypeOK'
<1> USE DEF TypeOK
<1>1. CASE Stall(j, r)
  BY <1>1 DEF Stall, Stops, jobVars, timeVars, lifeVars
<1>2. CASE ExitCancelled(j, r)
  BY <1>2, FinishRunType DEF ExitCancelled, jobVars, timeVars, lifeVars
<1>3. CASE StoppedForPause(j, r)
  <2>1. state' \in [Jobs -> JobState]
    BY <1>3 DEF StoppedForPause, Set, JobState
  <2> QED BY <1>3, <2>1, FinishRunType, ScheduleType DEF StoppedForPause,
      RunEnds, SchedulePump, lifeVars
<1>4. CASE ExitOk(j, r)
  <2>1. state' \in [Jobs -> JobState] /\ step' \in [Runs -> Steps]
    BY <1>4 DEF ExitOk, Set, JobState, InProcess, Steps
  <2> QED BY <1>4, <2>1 DEF ExitOk, timeVars, lifeVars
<1>5. CASE VerifyCancelled(j, r)
  BY <1>5, FinishRunType, ScheduleType DEF VerifyCancelled, RunEnds,
     SchedulePump, lifeVars
<1>6. CASE VerifyOk(j, r)
  BY <1>6 DEF VerifyOk, Steps, jobVars, timeVars, lifeVars
<1>7. CASE Registered(j, r)
  <2>1. state' \in [Jobs -> JobState]
    BY <1>7 DEF Registered, Set, JobState, Terminal
  <2> QED BY <1>7, <2>1, FinishRunType, ScheduleType DEF Registered, RunEnds,
      SchedulePump, lifeVars
<1>8. ASSUME NEW b \in BOOLEAN, ExitFailed(j, r, b) PROVE TypeOK'
  BY <1>8, FinishRunType, HandleFailureType, ScheduleType DEF ExitFailed,
     RunEnds, SchedulePump, lifeVars
<1>9. ASSUME NEW b \in BOOLEAN, VerifyFailed(j, r, b) PROVE TypeOK'
  BY <1>9, FinishRunType, HandleFailureType, ScheduleType DEF VerifyFailed,
     RunEnds, SchedulePump, lifeVars
<1> QED BY <1>1, <1>2, <1>3, <1>4, <1>5, <1>6, <1>7, <1>8, <1>9 DEF RunStep

\* Each timer keeps the types.
LEMMA TimerType == ASSUME TypeOK, Timer PROVE TypeOK'
<1> USE DEF TypeOK
<1>1. CASE RecheckFires
  BY <1>1, ScheduleType DEF RecheckFires, SchedulePump, jobVars, runVars, lifeVars
<1>2. CASE ResumeFires
  BY <1>2, ScheduleType DEF ResumeFires, SchedulePump, JobState, Runnable,
     runVars, lifeVars
<1>3. ASSUME NEW j \in Jobs, RetryFires(j) PROVE TypeOK'
  <2>1. state' \in [Jobs -> JobState] /\ pump' \in Passes
    BY <1>3, ScheduleType DEF RetryFires, SchedulePump, Set, JobState, Runnable
  <2> QED BY <1>3, <2>1 DEF RetryFires, runVars, lifeVars
<1> QED BY <1>1, <1>2, <1>3 DEF Timer

\* Crash, shutdown and restart keep the types.
LEMMA MemoryLostType ==
  ASSUME TypeOK, MemoryLost
  PROVE  /\ step' \in [Runs -> Steps] /\ stop' \in [Runs -> Stops]
         /\ current' \in [Jobs -> 0..MaxRuns] /\ calls' \subseteq Calls
         /\ entering' \subseteq Jobs /\ retryTimer' \subseteq Jobs
         /\ recheck' \in BOOLEAN /\ resumeTimer' \in BOOLEAN /\ pump' \in Passes
         /\ phase' \in {"down", "starting", "up"} /\ captured' \subseteq Jobs
<1>1. current' \in [Jobs -> 0..MaxRuns]
  BY QueueAssumption DEF MemoryLost, QueueAssumption
<1> QED BY <1>1, NoPassType DEF MemoryLost, Steps, Stops

LEMMA LifeType == ASSUME TypeOK, Life PROVE TypeOK'
<1> USE DEF TypeOK
<1>1. CASE Crash
  BY <1>1, MemoryLostType DEF Crash, Downloading, jobVars
<1>2. CASE Shutdown
  <2>1. /\ state' \in [Jobs -> JobState] /\ autoResume' \in [Jobs -> BOOLEAN]
        /\ orphans' \subseteq Jobs
    BY <1>2 DEF Shutdown, JobState, Downloading
  <2> QED BY <1>2, <2>1, MemoryLostType DEF Shutdown
<1>3. CASE StartBegins
  BY <1>3 DEF StartBegins, Active, runVars, timeVars
<1>4. CASE StartEnds
  <2>1. state' \in [Jobs -> JobState]
    BY <1>4 DEF StartEnds, JobState
  <2>2. autoResume' \in [Jobs -> BOOLEAN]
    BY <1>4 DEF StartEnds
  <2>3. resumeTimer' \in BOOLEAN
    BY <1>4, QueueAssumption DEF StartEnds, QueueAssumption
  <2> QED BY <1>4, <2>1, <2>2, <2>3, ScheduleType DEF StartEnds, SchedulePump, runVars
<1>5. ASSUME NEW j \in Jobs, OrphanExits(j) PROVE TypeOK'
  BY <1>5 DEF OrphanExits, jobVars, runVars, timeVars
<1> QED BY <1>1, <1>2, <1>3, <1>4, <1>5 DEF Life

\* The API calls keep the types.
LEMMA StopRunType ==
  ASSUME TypeOK, NEW j \in Jobs, NEW reason \in {"pause", "cancel"},
         current[j] # 0, StopRun(j, reason)
  PROVE  stop' \in [Runs -> Stops] /\ calls' \subseteq Calls
<1>1. stop' \in [Runs -> Stops]
  BY DEF TypeOK, StopRun, Stops
<1>2. calls' \subseteq Calls
  BY DEF TypeOK, StopRun, Calls
<1> QED BY <1>1, <1>2

LEMMA RequeueType ==
  ASSUME TypeOK, NEW j \in Jobs, Requeue(j)
  PROVE  /\ state' \in [Jobs -> JobState] /\ autoResume' \in [Jobs -> BOOLEAN]
         /\ retryTimer' \subseteq Jobs /\ pump' \in Passes
BY ScheduleType DEF TypeOK, Requeue, Set, SchedulePump, JobState, Runnable

LEMMA AskForTokenType ==
  ASSUME TypeOK, NEW j \in Jobs, AskForToken(j)
  PROVE  state' \in [Jobs -> JobState]
BY DEF TypeOK, AskForToken, Set, JobState

LEMMA ApiCallType == ASSUME TypeOK, ApiCall PROVE TypeOK'
<1> USE DEF TypeOK
<1>1. CASE Reprioritise
  BY <1>1, ScheduleType DEF Reprioritise, SchedulePump, jobVars, runVars,
     timeVars, lifeVars
<1>2. ASSUME NEW j \in Jobs, EnqueueCheck(j) PROVE TypeOK'
  BY <1>2 DEF EnqueueCheck, jobVars, runVars, timeVars, lifeVars
<1>3. ASSUME NEW j \in Jobs, EnqueueRefused(j) PROVE TypeOK'
  BY <1>3 DEF EnqueueRefused, jobVars, runVars, timeVars, lifeVars
<1>4. ASSUME NEW j \in Jobs, EnqueuePush(j) PROVE TypeOK'
  <2>1. state' \in [Jobs -> JobState] /\ pump' \in Passes
    BY <1>4, ScheduleType DEF EnqueuePush, SchedulePump, Set, JobState, Runnable
  <2>2. retries' \in [Jobs -> 0..MaxRetries]
    BY <1>4, QueueAssumption DEF EnqueuePush, QueueAssumption
  <2> QED BY <1>4, <2>1, <2>2 DEF EnqueuePush, runVars, timeVars, lifeVars
<1>5. ASSUME NEW j \in Jobs, Pause(j) PROVE TypeOK'
  <2>1. CASE current[j] # 0
    BY <1>5, <2>1, StopRunType DEF Pause, lifeVars
  <2>2. CASE current[j] = 0
    <3>1. state' \in [Jobs -> JobState] /\ pump' \in Passes
      BY <1>5, <2>2, ScheduleType DEF Pause, SchedulePump, Set, JobState
    <3> QED BY <1>5, <2>2, <3>1 DEF Pause, lifeVars
  <2> QED BY <2>1, <2>2
<1>6. ASSUME NEW j \in Jobs, Cancel(j) PROVE TypeOK'
  <2>1. CASE current[j] # 0
    BY <1>6, <2>1, StopRunType DEF Cancel, lifeVars
  <2>2. CASE current[j] = 0
    <3>1. state' \in [Jobs -> JobState] /\ pump' \in Passes
      BY <1>6, <2>2, ScheduleType DEF Cancel, SchedulePump, Set, JobState, Terminal
    <3> QED BY <1>6, <2>2, <3>1 DEF Cancel, lifeVars
  <2> QED BY <2>1, <2>2
<1>7. ASSUME NEW j \in Jobs, Retry(j) PROVE TypeOK'
  <2>1. state' \in [Jobs -> JobState] /\ pump' \in Passes
    BY <1>7, ScheduleType DEF Retry, SchedulePump, Set, JobState, Runnable
  <2>2. retries' \in [Jobs -> 0..MaxRetries]
    BY <1>7, QueueAssumption DEF Retry, QueueAssumption
  <2> QED BY <1>7, <2>1, <2>2 DEF Retry, runVars, timeVars, lifeVars
<1>8. ASSUME NEW j \in Jobs, Remove(j) PROVE TypeOK'
  <2>1. state' \in [Jobs -> JobState]
    BY <1>8 DEF Remove, Set, JobState
  <2> QED BY <1>8, <2>1 DEF Remove, runVars, timeVars, lifeVars
<1>9. ASSUME NEW j \in Jobs, NEW b \in BOOLEAN, Resume(j, b) PROVE TypeOK'
  <2>1. lost' \subseteq TokenJobs
    BY <1>9 DEF Resume
  <2>2. CASE AskForToken(j)
    BY <2>1, <2>2, AskForTokenType DEF AskForToken, runVars, timeVars, lifeVars
  <2>3. CASE Requeue(j) /\ UNCHANGED <<retries, bypass, forced>>
    BY <2>1, <2>3, RequeueType DEF Requeue, runVars, lifeVars
  <2> QED BY <1>9, <2>2, <2>3 DEF Resume
<1>10. ASSUME NEW j \in Jobs, NEW b \in BOOLEAN, StartNow(j, b) PROVE TypeOK'
  <2>1. CASE AskForToken(j)
    BY <1>10, <2>1, AskForTokenType DEF StartNow, AskForToken, runVars, timeVars,
       lifeVars
  <2>2. CASE Requeue(j)
    <3>1. bypass' \subseteq Jobs /\ forced' \subseteq Jobs
             /\ UNCHANGED <<retries, lost>>
      BY <1>10, <2>2 DEF StartNow, AskForToken
    <3> QED BY <2>2, <3>1, RequeueType DEF Requeue, runVars, lifeVars
  <2> QED BY <1>10, <2>1, <2>2 DEF StartNow
<1>11. ASSUME NEW c \in calls, PauseReturns(c) PROVE TypeOK'
  <2>1. state' \in [Jobs -> JobState] /\ pump' \in Passes
    BY <1>11, ScheduleType DEF PauseReturns, SchedulePump, Set, JobState
  <2> QED BY <1>11, <2>1 DEF PauseReturns, runVars, timeVars, lifeVars
<1>12. ASSUME NEW c \in calls, CancelReturns(c) PROVE TypeOK'
  <2>1. state' \in [Jobs -> JobState] /\ pump' \in Passes
    BY <1>12, ScheduleType DEF CancelReturns, SchedulePump, Set, JobState, Terminal
  <2>2. autoResume' \in [Jobs -> BOOLEAN]
    BY <1>12 DEF CancelReturns
  <2> QED BY <1>12, <2>1, <2>2 DEF CancelReturns, runVars, timeVars, lifeVars
<1> QED BY <1>1, <1>2, <1>3, <1>4, <1>5, <1>6, <1>7, <1>8, <1>9, <1>10, <1>11,
           <1>12 DEF ApiCall

\* The variables of the queue always have their types (queue.js, all handlers).
THEOREM TypeCorrect == Spec => []TypeOK
<1>1. Init => TypeOK
  <2> SUFFICES ASSUME Init PROVE TypeOK
    OBVIOUS
  <2>1. /\ state \in [Jobs -> JobState] /\ autoResume \in [Jobs -> BOOLEAN]
        /\ step \in [Runs -> Steps] /\ stop \in [Runs -> Stops]
    BY DEF Init, JobState, Steps, Stops
  <2>2. retries \in [Jobs -> 0..MaxRetries] /\ current \in [Jobs -> 0..MaxRuns]
    BY QueueAssumption DEF Init, QueueAssumption
  <2> QED BY <2>1, <2>2, NoPassType DEF Init, TypeOK
<1>2. TypeOK /\ [Next]_vars => TypeOK'
  <2> SUFFICES ASSUME TypeOK, [Next]_vars PROVE TypeOK'
    OBVIOUS
  <2>1. CASE UNCHANGED vars
    BY <2>1 DEF TypeOK, vars, jobVars, runVars, timeVars, lifeVars
  <2>2. ASSUME NEW j \in Jobs, NEW r \in Slots, RunStep(j, r) PROVE TypeOK'
    BY <2>2, RunStepType
  <2> QED BY <2>1, <2>2, PumpType, ApiCallType, TimerType, LifeType DEF Next
<1> QED BY <1>1, <1>2, PTL DEF Spec
-----------------------------------------------------------------------------
(* One writer per folder *)

\* Who does not start an engine adds no writer to a folder.
LEMMA WritersShrink ==
  ASSUME OneWriterPerDir, orphans' \subseteq orphans,
         \A x \in Runs : step'[x] = "engine" => step[x] = "engine"
  PROVE  OneWriterPerDir'
<1>1. \A d \in Dirs : Writers(d)' \subseteq Writers(d)
  BY DEF Writers
<1> QED BY <1>1 DEF OneWriterPerDir

LEMMA FinishRunWriters ==
  ASSUME TypeOK, OneWriterPerDir, NEW j \in Jobs, NEW r \in Slots,
         FinishRun(j, r), UNCHANGED orphans
  PROVE  OneWriterPerDir'
<1>1. \A x \in Runs : step'[x] = "engine" => step[x] = "engine"
  BY DEF FinishRun, TypeOK
<1> QED BY <1>1, WritersShrink

\* A run starts in a folder that nobody writes to.
LEMMA RunStartsWriters ==
  ASSUME TypeOK, OneWriterPerDir, NEW j \in Jobs, NEW r \in Slots,
         RunJobStarts(j, r)
  PROVE  OneWriterPerDir'
<1>1. UNCHANGED orphans /\ Writers(Dir[j]) = {}
  BY DEF RunJobStarts, RunJob, lifeVars, Locked
<1>2. \A x \in Runs : step'[x] = "engine" => step[x] = "engine" \/ x = <<j, r>>
  BY DEF RunJobStarts, TypeOK
<1> SUFFICES ASSUME NEW d \in Dirs, NEW x \in Writers(d)', NEW y \in Writers(d)'
             PROVE  x = y
  BY DEF OneWriterPerDir
<1>3. Writers(d)' \subseteq Writers(d) \cup {<<j, r>>}
  BY <1>1, <1>2 DEF Writers
<1>4. CASE d = Dir[j]
  BY <1>1, <1>3, <1>4
<1>5. CASE d # Dir[j]
  <2>1. <<j, r>> \notin Writers(d)'
    BY <1>5 DEF Writers, Slots
  <2> QED BY <1>3, <2>1 DEF OneWriterPerDir
<1> QED BY <1>4, <1>5

\* When the process ends, the writers of a folder are orphans of its writers.
LEMMA ProcessEndWriters ==
  ASSUME TypeOK, OneWriterPerDir, MemoryLost,
         orphans' \subseteq orphans \cup Downloading
  PROVE  OneWriterPerDir'
<1> SUFFICES ASSUME NEW d \in Dirs, NEW x \in Writers(d)', NEW y \in Writers(d)'
             PROVE  x = y
  BY DEF OneWriterPerDir
<1>1. \A z \in Runs : step'[z] # "engine"
  BY DEF MemoryLost
<1>2. \A w \in Writers(d)' :
        \E j \in orphans \cup Downloading : Dir[j] = d /\ w = <<j, 0>>
  BY <1>1 DEF Writers
<1>3. \A j \in orphans \cup Downloading : Dir[j] = d =>
        \E w \in Writers(d) : w[1] = j
  <2> SUFFICES ASSUME NEW j \in orphans \cup Downloading, Dir[j] = d
               PROVE  \E w \in Writers(d) : w[1] = j
    OBVIOUS
  <2>1. CASE j \in orphans
    <3>1. <<j, 0>> \in Writers(d)
      BY <2>1 DEF Writers
    <3> QED BY <3>1
  <2>2. CASE j \in Downloading
    <3>1. PICK r \in Slots : step[<<j, r>>] = "engine"
      BY <2>2 DEF Downloading
    <3>2. <<j, r>> \in Writers(d)
      BY <2>2, <3>1 DEF Writers, Runs, Downloading
    <3> QED BY <3>2
  <2> QED BY <2>1, <2>2
<1> QED BY <1>2, <1>3 DEF OneWriterPerDir

LEMMA WritersStep ==
  ASSUME TypeOK, OneWriterPerDir, [Next]_vars PROVE OneWriterPerDir'
<1>1. CASE UNCHANGED vars
  BY <1>1, WritersShrink DEF vars, runVars, lifeVars
<1>2. CASE Pump
  <2>1. ASSUME NEW j \in Jobs, NEW r \in Slots, RunJobStarts(j, r)
        PROVE  OneWriterPerDir'
    BY <2>1, RunStartsWriters
  <2>2. ASSUME NEW j \in Jobs, RunJobNeedsToken(j) PROVE OneWriterPerDir'
    BY <2>2, WritersShrink DEF RunJobNeedsToken, RunJob, lifeVars
  <2>3. ASSUME NEW j \in Jobs, NEW b \in BOOLEAN, RunJobFails(j, b)
        PROVE  OneWriterPerDir'
    BY <2>3, WritersShrink DEF RunJobFails, RunJob, lifeVars
  <2>4. ASSUME UNCHANGED <<step, orphans>> PROVE OneWriterPerDir'
    BY <2>4, WritersShrink
  <2> QED BY <1>2, <2>1, <2>2, <2>3, <2>4 DEF Pump, PumpBegin, PumpEnd, PumpSkip,
      PumpNoSlot, PumpProbe, PumpGateIdle, PumpGateBusy, PumpDiskShort,
      PumpDiskSkip, runVars, lifeVars
<1>3. ASSUME NEW j \in Jobs, NEW r \in Slots, RunStep(j, r) PROVE OneWriterPerDir'
  <2>1. CASE Stall(j, r) \/ ExitOk(j, r) \/ VerifyOk(j, r)
    <3>1. UNCHANGED orphans
            /\ \A x \in Runs : step'[x] = "engine" => step[x] = "engine"
      BY <2>1 DEF TypeOK, Stall, ExitOk, VerifyOk, lifeVars
    <3> QED BY <3>1, WritersShrink
  <2>2. CASE FinishRun(j, r) /\ UNCHANGED orphans
    BY <2>2, FinishRunWriters
  <2> QED BY <1>3, <2>1, <2>2 DEF RunStep, ExitCancelled, StoppedForPause,
      VerifyCancelled, Registered, ExitFailed, VerifyFailed, RunEnds, lifeVars
<1>4. CASE ApiCall \/ Timer
  <2>1. UNCHANGED <<step, orphans>>
    BY <1>4 DEF ApiCall, Timer, Reprioritise, EnqueueCheck, EnqueueRefused,
       EnqueuePush, Pause, Cancel, Retry, Remove, Resume, StartNow, AskForToken,
       Requeue, PauseReturns, CancelReturns, RecheckFires, ResumeFires,
       RetryFires, runVars, lifeVars
  <2> QED BY <2>1, WritersShrink
<1>5. CASE Life
  <2>1. CASE Crash \/ Shutdown
    BY <2>1, ProcessEndWriters DEF Crash, Shutdown
  <2>2. CASE StartBegins \/ StartEnds \/ \E j \in Jobs : OrphanExits(j)
    <3>1. UNCHANGED step /\ orphans' \subseteq orphans
      BY <2>2 DEF StartBegins, StartEnds, OrphanExits, runVars
    <3> QED BY <3>1, WritersShrink
  <2> QED BY <1>5, <2>1, <2>2 DEF Life
<1> QED BY <1>1, <1>2, <1>3, <1>4, <1>5 DEF Next

\* Two downloads never write to one folder (transfer.js start takes the lock of
\* model-storage.js), whatever calls, crashes, restarts and slow stops do.
THEOREM OneWriter == Spec => []OneWriterPerDir
<1>1. Init => OneWriterPerDir
  BY DEF Init, OneWriterPerDir, Writers
<1>2. TypeOK /\ OneWriterPerDir /\ [Next]_vars => OneWriterPerDir'
  BY WritersStep
<1> QED BY <1>1, <1>2, TypeCorrect, PTL DEF Spec
-----------------------------------------------------------------------------
(* The slots *)

\* The number of active jobs grows only with the set of active jobs.
LEMMA ActiveShrinks ==
  ASSUME Active' \subseteq Active
  PROVE  /\ Cardinality(Active') <= Cardinality(Active)
         /\ Cardinality(Active') \in Nat /\ Cardinality(Active) \in Nat
<1>1. IsFiniteSet(Active') /\ Cardinality(Active') <= Cardinality(Active)
  BY ActiveFinite, FS_Subset
<1> QED BY <1>1, ActiveFinite, FS_CardinalityType

\* What holds of a pass that waits or scans goes on to hold while the pass, the
\* calls and the candidate stay and no job becomes active.
LEMMA PassKept ==
  ASSUME PassFits, UNCHANGED <<pump, calls>>, Active' \subseteq Active, TypeOK,
         pump.pc \in {"gate", "disk"} =>
           state'[pump.cand] = state[pump.cand]
  PROVE  PassFits'
BY ActiveShrinks DEF PassFits, TypeOK, Passes

\* A job with a run is in process; a call on a job that is not in process has
\* ended its wait.
LEMMA RunIsInProcess ==
  ASSUME TypeOK, QueueInv, NEW j \in Jobs, current[j] # 0
  PROVE  state[j] \in InProcess
<1>1. current[j] \in Slots
  BY QueueAssumption DEF TypeOK, Slots, QueueAssumption
<1>2. step[<<j, current[j]>>] # "free"
  BY DEF QueueInv, CurrentIsLive
<1> QED BY <1>1, <1>2 DEF QueueInv, NoZombieRun

LEMMA CallsOf ==
  ASSUME TypeOK, QueueInv, NEW c \in calls
  PROVE  /\ c.job \in Jobs /\ c.run \in 0..MaxRuns
         /\ state[c.job] \in InProcess \cup {"paused", "ready", "cancelled"}
<1>1. c.job \in Jobs /\ c.run \in 0..MaxRuns
  BY DEF TypeOK, Calls
<1> QED BY <1>1, RunIsInProcess DEF QueueInv, CallsFit

\* Turns of a pass that start no job.
LEMMA PumpInv ==
  ASSUME TypeOK, QueueInv, Pump,
         \A j \in Jobs, r \in Slots : ~RunJobStarts(j, r)
  PROVE  QueueInv' /\ Active' \subseteq Active
<1> USE DEF QueueInv
<1>0. phase = "up" /\ pump.pc # "idle"
  BY DEF Pump, PumpBegin, PumpEnd, PumpSkip, PumpNoSlot, PumpProbe, PumpGateIdle,
     PumpGateBusy, PumpDiskShort, PumpDiskSkip, RunJobNeedsToken, RunJobFails,
     RunJob, MemoryIsEmpty
<1> DEFINE Goal == QueueInv' /\ Active' \subseteq Active
<1>1. ASSUME UNCHANGED <<state, step, stop, current, calls, entering, phase>>,
             forced' \subseteq forced, PassFits'
      PROVE  Goal
  BY <1>0, <1>1 DEF NoZombieRun, CurrentIsLive, CallsFit, EnteringIsAbsent,
     ForcedByCall, MemoryIsEmpty, Active
<1>2. ASSUME NEW j \in Jobs, NEW s \in JobState \ (InProcess \cup {"absent"}),
             state[j] \notin InProcess \cup {"absent"},
             \A c \in calls : c.job # j,
             UNCHANGED <<step, stop, current, calls, entering, phase>>,
             forced' \subseteq forced,
             state' = [state EXCEPT ![j] = s],
             Active' \subseteq Active => PassFits'
      PROVE  Goal
  <2>1. Active' \subseteq Active
    BY <1>2 DEF TypeOK, Active
  <2>2. NoZombieRun' /\ CurrentIsLive'
    BY <1>2 DEF NoZombieRun, CurrentIsLive, TypeOK
  <2>3. CallsFit'
    BY <1>2 DEF CallsFit, TypeOK, Calls
  <2>4. EnteringIsAbsent' /\ ForcedByCall' /\ MemoryIsEmpty'
    BY <1>0, <1>2 DEF EnteringIsAbsent, ForcedByCall, MemoryIsEmpty, TypeOK
  <2> QED BY <1>2, <2>1, <2>2, <2>3, <2>4
<1>3. \A j \in Jobs : state[j] \in Runnable \cup {"waiting/auth"} =>
        /\ state[j] \notin InProcess \cup {"absent"}
        /\ \A c \in calls : c.job # j
  BY CallsOf DEF Runnable, InProcess
<1>4. CASE PumpBegin
  <2>1. Active' = Active
    BY <1>4 DEF PumpBegin, Active, InProcess, TypeOK
  <2>2. PassFits'
    BY <1>4, <2>1, ActiveFinite DEF PumpBegin, PassFits, NoPass
  <2>3. NoZombieRun' /\ CurrentIsLive'
    BY <1>4 DEF PumpBegin, NoZombieRun, CurrentIsLive, InProcess, TypeOK, runVars
  <2>4. CallsFit'
    BY <1>4 DEF PumpBegin, CallsFit, InProcess, TypeOK, Calls, runVars
  <2>5. EnteringIsAbsent' /\ ForcedByCall' /\ MemoryIsEmpty'
    BY <1>0, <1>4 DEF PumpBegin, EnteringIsAbsent, ForcedByCall, MemoryIsEmpty,
       TypeOK, lifeVars
  <2> QED BY <2>1, <2>2, <2>3, <2>4, <2>5
<1>5. CASE PumpEnd
  <2>1. PassFits'
    BY <1>5 DEF PumpEnd, PassFits, NoPass
  <2> QED BY <1>1, <1>5, <2>1 DEF PumpEnd, jobVars, runVars, lifeVars
<1>6. ASSUME NEW j \in Jobs, PumpSkip(j) PROVE Goal
  <2>1. PassFits'
    BY <1>6 DEF PumpSkip, PassFits, TypeOK, Passes, jobVars, Active
  <2> QED BY <1>1, <1>6, <2>1 DEF PumpSkip, jobVars, runVars, lifeVars
<1>7. ASSUME NEW j \in Jobs, PumpNoSlot(j) PROVE Goal
  <2> DEFINE s == IF ~pump.blocked THEN "waiting/concurrency"
                  ELSE IF state[j] = "waiting/concurrency" THEN "queued" ELSE state[j]
  <2>1. s \in JobState \ (InProcess \cup {"absent"})
    BY <1>7, <1>3 DEF PumpNoSlot, JobState, InProcess, Runnable
  <2>2. Active' \subseteq Active => PassFits'
    BY <1>7, ActiveShrinks DEF PumpNoSlot, PassFits, TypeOK, Passes
  <2> QED BY <1>2, <1>3, <1>7, <2>1, <2>2 DEF PumpNoSlot, Set, runVars, lifeVars
<1>8. ASSUME NEW j \in Jobs, PumpProbe(j) PROVE Goal
  <2>1. CASE j \in lost
    <3>1. Active' \subseteq Active => PassFits'
      BY <1>8, <2>1, ActiveShrinks DEF PumpProbe, PassFits, TypeOK, Passes
    <3> QED BY <1>2, <1>3, <1>8, <2>1, <3>1 DEF PumpProbe, Set, JobState, InProcess,
        runVars, lifeVars
  <2>2. CASE j \notin lost
    <3>1. PICK q \in {"gate", "disk"} :
            pump' = [pump EXCEPT !.todo = @ \ {j}, !.cand = j, !.pc = q]
      BY <1>8, <2>2 DEF PumpProbe
    <3>2. pump.active < MaxConcurrent + ForceExtra
      BY <1>8, QueueAssumption DEF PumpProbe, SlotFree, ForceExtra, ForcedByCall,
         QueueAssumption, TypeOK, Passes
    <3>3. UNCHANGED state
      BY <1>8, <2>2 DEF PumpProbe
    <3>4. PassFits'
      BY <1>3, <1>8, <3>1, <3>2, <3>3 DEF PumpProbe, PassFits, TypeOK, Passes, Active,
         ForceExtra
    <3> QED BY <1>1, <1>8, <3>3, <3>4 DEF PumpProbe, runVars, lifeVars
  <2> QED BY <2>1, <2>2
<1>9. CASE PumpGateIdle
  <2>1. PassFits'
    BY <1>9 DEF PumpGateIdle, PassFits, TypeOK, Passes, jobVars, Active, ForceExtra
  <2> QED BY <1>1, <1>9, <2>1 DEF PumpGateIdle, jobVars, runVars, lifeVars
<1>10. CASE PumpGateBusy
  <2>1. Active' \subseteq Active => PassFits'
    BY <1>10, ActiveShrinks DEF PumpGateBusy, PassFits, TypeOK, Passes
  <2> QED BY <1>2, <1>10, <2>1 DEF PumpGateBusy, PassFits, Set, JobState, Runnable,
      InProcess, runVars, lifeVars
<1>11. CASE PumpDiskShort
  <2>1. Active' \subseteq Active => PassFits'
    BY <1>11, ActiveShrinks DEF PumpDiskShort, PassFits, TypeOK, Passes
  <2> QED BY <1>2, <1>11, <2>1 DEF PumpDiskShort, PassFits, Set, JobState, Runnable,
      InProcess, runVars, lifeVars
<1>12. CASE PumpDiskSkip
  <2>1. PassFits'
    BY <1>12 DEF PumpDiskSkip, PassFits, TypeOK, Passes, jobVars, Active
  <2> QED BY <1>1, <1>12, <2>1 DEF PumpDiskSkip, jobVars, runVars, lifeVars
<1>13. ASSUME NEW j \in Jobs, RunJob(j), current' = [current EXCEPT ![j] = 0],
              UNCHANGED <<step, stop>>,
              NEW s \in JobState \ (InProcess \cup {"absent"}),
              state' = [state EXCEPT ![j] = s]
       PROVE  Goal
  <2>1. current[j] = 0
    BY <1>3, <1>13, RunIsInProcess DEF RunJob
  <2>2. UNCHANGED current
    BY <1>13, <2>1 DEF TypeOK
  <2>3. Active' \subseteq Active => PassFits'
    BY <1>13, ActiveShrinks DEF RunJob, PassFits, TypeOK, Passes
  <2> QED BY <1>2, <1>3, <1>13, <2>2, <2>3 DEF RunJob, lifeVars
<1>14. ASSUME NEW j \in Jobs, RunJobNeedsToken(j) PROVE Goal
  BY <1>13, <1>14 DEF RunJobNeedsToken, Set, JobState, InProcess
<1>15. ASSUME NEW j \in Jobs, NEW b \in BOOLEAN, RunJobFails(j, b) PROVE Goal
  BY <1>13, <1>15 DEF RunJobFails, HandleFailure, Set, JobState, InProcess, Terminal
<1> QED BY <1>4, <1>5, <1>6, <1>7, <1>8, <1>9, <1>10, <1>11, <1>12, <1>14, <1>15
        DEF Pump
\* The start of a job: the pass counted every active job, and it saw a slot.
LEMMA RunJobStartsInv ==
  ASSUME TypeOK, QueueInv, NEW j \in Jobs, NEW r \in Slots, RunJobStarts(j, r)
  PROVE  QueueInv' /\ SlotLimit'
<1> USE DEF QueueInv
<1>1. /\ pump.pc = "disk" /\ pump.cand = j /\ phase = "up"
      /\ state[j] \notin InProcess \cup {"absent"}
      /\ \A c \in calls : c.job # j
  BY DEF RunJobStarts, RunJob, PassFits, MemoryIsEmpty
<1>2. state' = [state EXCEPT ![j] = "downloading"]
      /\ step' = [step EXCEPT ![<<j, r>>] = "engine"]
      /\ current' = [current EXCEPT ![j] = r] /\ stop' = stop
      /\ UNCHANGED <<calls, entering, phase>> /\ forced' \subseteq forced
      /\ pump' = [pump EXCEPT !.pc = "scan", !.cand = NoJob, !.active = @ + 1]
  BY DEF RunJobStarts, RunJob, Set, lifeVars
<1>3. \A q \in Slots : step[<<j, q>>] = "free"
  BY <1>1 DEF NoZombieRun
<1>4. NoZombieRun' /\ CurrentIsLive'
  BY <1>2, <1>3 DEF NoZombieRun, CurrentIsLive, TypeOK, Runs, InProcess
<1>5. CallsFit'
  BY <1>1, <1>2, CallsOf DEF CallsFit, TypeOK
<1>6. EnteringIsAbsent' /\ ForcedByCall' /\ MemoryIsEmpty'
  BY <1>1, <1>2 DEF EnteringIsAbsent, ForcedByCall, MemoryIsEmpty, TypeOK
<1>7. Active' = Active \cup {j} /\ j \notin Active
  BY <1>1, <1>2 DEF Active, TypeOK, InProcess
<1>8. Cardinality(Active') = Cardinality(Active) + 1
  BY <1>7, ActiveFinite, FS_AddElement
<1>9. /\ Cardinality(Active) <= pump.active
      /\ pump.active < MaxConcurrent + ForceExtra
      /\ pump.active \in Nat /\ pump'.active = pump.active + 1 /\ pump'.pc = "scan"
  BY <1>1, <1>2 DEF PassFits, TypeOK, Passes
<1>10. PassFits'
  BY <1>8, <1>9, ActiveFinite DEF PassFits
<1>11. SlotLimit'
  BY <1>8, <1>9, ActiveFinite, QueueAssumption DEF SlotLimit, ForceExtra,
     QueueAssumption
<1> QED BY <1>4, <1>5, <1>6, <1>10, <1>11

\* A pass is not disturbed by what happens while it waits, when its candidate
\* does not become active.
LEMMA PassUndisturbed ==
  ASSUME TypeOK, QueueInv, pump' \in {pump, Schedule(pump)},
         Active' \subseteq Active,
         \A c \in calls' : (\E d \in calls : d.job = c.job) \/ state[c.job] \in InProcess,
         pump.pc \in {"gate", "disk"} =>
           state'[pump.cand] \notin InProcess \cup {"absent"}
  PROVE  PassFits'
<1>1. pump.pc \in {"gate", "disk"} => \A c \in calls' : c.job # pump.cand
  BY DEF QueueInv, PassFits
<1>2. CASE pump' = pump
  BY <1>1, <1>2, ActiveShrinks DEF QueueInv, PassFits, TypeOK, Passes
<1>3. CASE pump' = Schedule(pump) /\ pump.pc = "idle"
  BY <1>3 DEF Schedule, PassFits, NoPass
<1>4. CASE pump' = Schedule(pump) /\ pump.pc # "idle"
  <2>1. /\ pump'.pc = pump.pc /\ pump'.cand = pump.cand
        /\ pump'.active = pump.active /\ pump.active \in Nat
    BY <1>4 DEF Schedule, TypeOK, Passes
  <2> QED BY <1>1, <2>1, ActiveShrinks DEF QueueInv, PassFits
<1> QED BY <1>2, <1>3, <1>4

\* The end of a run.
LEMMA FinishRunInv ==
  ASSUME TypeOK, QueueInv, NEW j \in Jobs, NEW r \in Slots, FinishRun(j, r),
         step[<<j, r>>] # "free", NEW s \in JobState \ {"absent"},
         state' = [state EXCEPT ![j] = s],
         s \in InProcess \cup {"paused", "ready"} \/ stop[<<j, r>>] \in {"none", "stall"},
         pump' \in {pump, Schedule(pump)}, UNCHANGED <<forced, entering, phase>>
  PROVE  QueueInv' /\ Active' \subseteq Active
<1> USE DEF QueueInv
<1>1. /\ state[j] \in InProcess /\ current[j] = r /\ phase = "up"
      /\ \A q \in Slots : q # r => step[<<j, q>>] = "free"
  BY DEF NoZombieRun, MemoryIsEmpty, Runs
<1>2. Active' \subseteq Active
  BY <1>1 DEF Active, TypeOK
<1>3. /\ step' = [step EXCEPT ![<<j, r>>] = "free"]
      /\ stop' = [stop EXCEPT ![<<j, r>>] = "none"]
      /\ current' = [current EXCEPT ![j] = 0]
  BY <1>1 DEF FinishRun, TypeOK
<1>4. NoZombieRun' /\ CurrentIsLive'
  BY <1>1, <1>3 DEF NoZombieRun, CurrentIsLive, TypeOK, Runs
<1>5. \A c \in calls' : \E d \in calls :
        /\ d.job = c.job /\ c.run = IF d.job = j /\ d.run = r THEN 0 ELSE d.run
        /\ d.job \in Jobs /\ d.run \in 0..MaxRuns
  BY QueueAssumption DEF FinishRun, TypeOK, Calls, QueueAssumption
<1>6. CallsFit'
  <2> SUFFICES ASSUME NEW c \in calls'
               PROVE  IF c.run = 0
                      THEN /\ current'[c.job] = 0
                           /\ state'[c.job] \in InProcess \cup {"paused", "ready", "cancelled"}
                      ELSE /\ current'[c.job] = c.run
                           /\ stop'[<<c.job, c.run>>] \in {"pause", "cancel"}
    BY DEF CallsFit
  <2>1. PICK d \in calls :
          /\ d.job = c.job /\ c.run = IF d.job = j /\ d.run = r THEN 0 ELSE d.run
          /\ d.job \in Jobs /\ d.run \in 0..MaxRuns
    BY <1>5
  <2>2. CASE d.job = j
    <3>1. d.run = r /\ stop[<<j, r>>] \in {"pause", "cancel"}
      <4>1. r # 0
        BY QueueAssumption DEF Slots, QueueAssumption
      <4> QED BY <1>1, <2>1, <2>2, <4>1 DEF CallsFit
    <3>2. c.run = 0 /\ c.job = j
      BY <2>1, <2>2, <3>1
    <3> QED BY <1>3, <3>1, <3>2 DEF TypeOK
  <2>3. CASE d.job # j
    <3>1. c.run = d.run /\ state'[c.job] = state[d.job]
            /\ current'[c.job] = current[d.job]
      BY <1>3, <2>1, <2>3 DEF TypeOK
    <3>2. c.run # 0 => stop'[<<c.job, c.run>>] = stop[<<d.job, d.run>>]
      BY <1>3, <2>1, <2>3, <3>1 DEF TypeOK, Runs, Slots
    <3> QED BY <2>1, <3>1, <3>2 DEF CallsFit
  <2> QED BY <2>2, <2>3
<1>7. pump.pc \in {"gate", "disk"} =>
        state'[pump.cand] \notin InProcess \cup {"absent"}
  BY <1>1 DEF PassFits, TypeOK
<1>8. PassFits'
  BY <1>2, <1>5, <1>7, PassUndisturbed
<1>9. EnteringIsAbsent' /\ ForcedByCall' /\ MemoryIsEmpty'
  BY <1>1 DEF EnteringIsAbsent, ForcedByCall, MemoryIsEmpty, TypeOK, InProcess
<1> QED BY <1>2, <1>4, <1>6, <1>8, <1>9

LEMMA RunStepInv ==
  ASSUME TypeOK, QueueInv, NEW j \in Jobs, NEW r \in Slots, RunStep(j, r)
  PROVE  QueueInv' /\ Active' \subseteq Active
<1>1. step[<<j, r>>] # "free" /\ phase = "up"
  BY DEF RunStep, Stall, ExitCancelled, StoppedForPause, ExitFailed, ExitOk,
     VerifyCancelled, VerifyFailed, VerifyOk, Registered, QueueInv, MemoryIsEmpty, Runs
<1>2. state[j] \in InProcess /\ current[j] = r
  BY <1>1 DEF QueueInv, NoZombieRun
<1>3. ASSUME NEW s \in JobState \ {"absent"}, state' = [state EXCEPT ![j] = s],
             FinishRun(j, r), pump' \in {pump, Schedule(pump)},
             s \in InProcess \cup {"paused", "ready"}
               \/ stop[<<j, r>>] \in {"none", "stall"},
             UNCHANGED <<forced, entering, phase>>
      PROVE  QueueInv' /\ Active' \subseteq Active
  BY <1>1, <1>3, FinishRunInv
<1>4. CASE ExitCancelled(j, r) \/ VerifyCancelled(j, r)
  <2>1. state' = [state EXCEPT ![j] = state[j]]
    BY <1>4 DEF ExitCancelled, VerifyCancelled, TypeOK, jobVars
  <2>2. state[j] \in JobState \ {"absent"}
    BY <1>2 DEF JobState, InProcess
  <2>3. pump' \in {pump, Schedule(pump)} /\ FinishRun(j, r)
          /\ UNCHANGED <<forced, entering, phase>>
    BY <1>4 DEF ExitCancelled, VerifyCancelled, RunEnds, SchedulePump, jobVars, lifeVars
  <2> QED BY <1>2, <1>3, <2>1, <2>2, <2>3
<1>5. CASE StoppedForPause(j, r) \/ Registered(j, r)
  <2>1. PICK s \in {"paused", "ready"} : state' = [state EXCEPT ![j] = s]
    BY <1>5 DEF StoppedForPause, Registered, Set
  <2>2. s \in JobState \ {"absent"}
    BY DEF JobState, Terminal
  <2> QED BY <1>3, <1>5, <2>1, <2>2 DEF StoppedForPause, Registered, RunEnds,
      SchedulePump, lifeVars
<1>6. ASSUME NEW b \in BOOLEAN, ExitFailed(j, r, b) \/ VerifyFailed(j, r, b)
      PROVE  QueueInv' /\ Active' \subseteq Active
  <2>1. PICK s \in {"retrying", "failed"} : state' = [state EXCEPT ![j] = s]
    BY <1>6 DEF ExitFailed, VerifyFailed, HandleFailure, Set
  <2>2. s \in JobState \ {"absent"}
    BY DEF JobState, Terminal
  <2> QED BY <1>3, <1>6, <2>1, <2>2 DEF ExitFailed, VerifyFailed, RunEnds,
      SchedulePump, lifeVars
<1>7. CASE Stall(j, r) \/ ExitOk(j, r) \/ VerifyOk(j, r)
  <2>1. /\ UNCHANGED <<current, calls, entering, forced, pump, phase>>
        /\ \E s \in InProcess : state' = [state EXCEPT ![j] = s]
        /\ \E s \in Steps \ {"free"} : step' = [step EXCEPT ![<<j, r>>] = s]
        /\ stop' = stop \/ (stop[<<j, r>>] = "none" /\ stop' = [stop EXCEPT ![<<j, r>>] = "stall"])
    <3>1. CASE ExitOk(j, r)
      BY <3>1 DEF ExitOk, Set, InProcess, Steps, lifeVars
    <3>2. state = [state EXCEPT ![j] = state[j]]
            /\ step = [step EXCEPT ![<<j, r>>] = step[<<j, r>>]]
            /\ step[<<j, r>>] \in Steps \ {"free"}
      BY <1>1 DEF TypeOK, Runs
    <3>3. CASE Stall(j, r)
      BY <1>2, <3>2, <3>3 DEF Stall, jobVars, lifeVars
    <3>4. CASE VerifyOk(j, r)
      BY <1>2, <3>2, <3>4 DEF VerifyOk, jobVars, lifeVars, Steps
    <3> QED BY <1>7, <3>1, <3>3, <3>4
  <2>2. Active' = Active
    BY <1>2, <2>1 DEF Active, TypeOK
  <2>3. NoZombieRun' /\ CurrentIsLive'
    BY <1>1, <1>2, <2>1 DEF QueueInv, NoZombieRun, CurrentIsLive, TypeOK, Runs, InProcess
  <2>4. CallsFit'
    <3> SUFFICES ASSUME NEW c \in calls
                 PROVE  IF c.run = 0
                        THEN /\ current[c.job] = 0
                             /\ state'[c.job] \in InProcess \cup {"paused", "ready", "cancelled"}
                        ELSE /\ current[c.job] = c.run
                             /\ stop'[<<c.job, c.run>>] \in {"pause", "cancel"}
      BY <2>1 DEF CallsFit
    <3>1. state'[c.job] \in InProcess \cup {"paused", "ready", "cancelled"}
      BY <2>1, CallsOf DEF TypeOK
    <3>2. CASE c.run # 0 /\ c.job = j
      <4>1. stop[<<j, r>>] \in {"pause", "cancel"} /\ c.run = r
        BY <1>2, <3>2 DEF QueueInv, CallsFit
      <4> QED BY <1>2, <2>1, <3>2, <4>1
    <3>3. CASE c.run # 0 /\ c.job # j
      <4>1. stop[<<c.job, c.run>>] \in {"pause", "cancel"}
              /\ current[c.job] = c.run
        BY <3>3 DEF QueueInv, CallsFit
      <4>2. <<c.job, c.run>> \in Runs
        BY <3>3, CallsOf, QueueAssumption DEF Runs, Slots, QueueAssumption
      <4> QED BY <2>1, <3>3, <4>1, <4>2 DEF TypeOK
    <3> QED BY <3>1, <3>2, <3>3 DEF QueueInv, CallsFit
  <2>5. PassFits'
    <3>1. pump.pc \in {"gate", "disk"} =>
            state'[pump.cand] \notin InProcess \cup {"absent"}
      BY <1>2, <2>1 DEF QueueInv, PassFits, TypeOK
    <3> QED BY <2>1, <2>2, <3>1, PassUndisturbed
  <2>6. EnteringIsAbsent' /\ ForcedByCall' /\ MemoryIsEmpty'
    BY <1>1, <1>2, <2>1 DEF QueueInv, EnteringIsAbsent, ForcedByCall, MemoryIsEmpty,
       TypeOK, InProcess
  <2> QED BY <2>2, <2>3, <2>4, <2>5, <2>6 DEF QueueInv
<1> QED BY <1>4, <1>5, <1>6, <1>7 DEF RunStep
\* A call or a timer that changes one job without a run.
LEMMA OneJobInv ==
  ASSUME TypeOK, QueueInv, NEW j \in Jobs, NEW s \in JobState \ InProcess,
         state' = [state EXCEPT ![j] = s], current[j] = 0, phase = "up",
         UNCHANGED <<step, stop, current, phase>>,
         calls' \subseteq calls, entering' \subseteq entering, j \notin entering',
         s = "absent" => pump.cand # j,
         s \in {"paused", "ready", "cancelled"} \/ \A c \in calls' : c.job # j,
         pump' \in {pump, Schedule(pump)},
         forced' # {} => "force" \in Operations
  PROVE  QueueInv' /\ Active' \subseteq Active
<1> USE DEF QueueInv
<1>1. Active' \subseteq Active
  BY DEF Active, TypeOK
<1>2. NoZombieRun' /\ CurrentIsLive'
  <2>1. \A r \in Slots : step[<<j, r>>] = "free"
    <3>1. \A r \in Slots : r # 0
      BY QueueAssumption DEF Slots, QueueAssumption
    <3> QED BY <3>1 DEF NoZombieRun
  <2> QED BY <2>1 DEF NoZombieRun, CurrentIsLive, TypeOK
<1>3. CallsFit'
  BY CallsOf DEF CallsFit, TypeOK
<1>4. PassFits'
  <2>1. pump.pc \in {"gate", "disk"} =>
          state'[pump.cand] \notin InProcess \cup {"absent"}
    BY DEF PassFits, TypeOK
  <2> QED BY <1>1, <2>1, PassUndisturbed
<1>5. EnteringIsAbsent' /\ ForcedByCall' /\ MemoryIsEmpty'
  BY DEF EnteringIsAbsent, ForcedByCall, MemoryIsEmpty, TypeOK
<1> QED BY <1>1, <1>2, <1>3, <1>4, <1>5

\* A step that changes no job, no run and no candidate.
LEMMA QuietInv ==
  ASSUME TypeOK, QueueInv, UNCHANGED <<state, step, stop, current, phase, forced>>,
         phase = "up", calls' \subseteq calls, EnteringIsAbsent',
         pump' \in {pump, Schedule(pump)}
  PROVE  QueueInv' /\ Active' \subseteq Active
<1> USE DEF QueueInv
<1>1. Active' = Active
  BY DEF Active
<1>2. NoZombieRun' /\ CurrentIsLive' /\ CallsFit' /\ ForcedByCall' /\ MemoryIsEmpty'
  BY DEF NoZombieRun, CurrentIsLive, CallsFit, ForcedByCall, MemoryIsEmpty
<1>3. PassFits'
  <2>1. pump.pc \in {"gate", "disk"} =>
          state'[pump.cand] \notin InProcess \cup {"absent"}
    BY DEF PassFits
  <2> QED BY <1>1, <2>1, PassUndisturbed
<1> QED BY <1>1, <1>2, <1>3

\* pause and cancel of a job with a run.
LEMMA StopRunInv ==
  ASSUME TypeOK, QueueInv, NEW j \in Jobs, NEW reason \in {"pause", "cancel"},
         current[j] # 0, StopRun(j, reason), phase = "up",
         UNCHANGED <<state, step, current, phase, forced, entering, pump>>
  PROVE  QueueInv' /\ Active' \subseteq Active
<1> USE DEF QueueInv
<1>1. Active' = Active
  BY DEF Active
<1>2. <<j, current[j]>> \in Runs /\ state[j] \in InProcess
  BY RunIsInProcess, QueueAssumption DEF TypeOK, Runs, Slots, QueueAssumption
<1>3. NoZombieRun' /\ CurrentIsLive' /\ ForcedByCall' /\ MemoryIsEmpty'
        /\ EnteringIsAbsent'
  BY DEF NoZombieRun, CurrentIsLive, ForcedByCall, MemoryIsEmpty, EnteringIsAbsent
<1>4. CallsFit'
  <2> SUFFICES ASSUME NEW c \in calls'
               PROVE  IF c.run = 0
                      THEN /\ current[c.job] = 0
                           /\ state[c.job] \in InProcess \cup {"paused", "ready", "cancelled"}
                      ELSE /\ current[c.job] = c.run
                           /\ stop'[<<c.job, c.run>>] \in {"pause", "cancel"}
    BY DEF CallsFit
  <2>1. CASE c = [op |-> reason, job |-> j, run |-> current[j]]
    BY <1>2, <2>1 DEF StopRun, TypeOK
  <2>2. CASE c \in calls /\ c.run # 0
    <3>1. <<c.job, c.run>> \in Runs
      BY <2>2, CallsOf, QueueAssumption DEF Runs, Slots, QueueAssumption
    <3>2. current[c.job] = c.run /\ stop[<<c.job, c.run>>] \in {"pause", "cancel"}
      BY <2>2 DEF CallsFit
    <3> QED BY <2>2, <3>1, <3>2 DEF StopRun, TypeOK
  <2>3. CASE c \in calls /\ c.run = 0
    BY <2>3 DEF CallsFit
  <2> QED BY <2>1, <2>2, <2>3 DEF StopRun
<1>5. PassFits'
  <2>1. pump.pc \in {"gate", "disk"} =>
          state'[pump.cand] \notin InProcess \cup {"absent"}
    BY DEF PassFits
  <2>2. \A c \in calls' : (\E d \in calls : d.job = c.job) \/ state[c.job] \in InProcess
    BY <1>2 DEF StopRun
  <2> QED BY <1>1, <2>1, <2>2, PassUndisturbed
<1> QED BY <1>1, <1>3, <1>4, <1>5

LEMMA ApiCallInv ==
  ASSUME TypeOK, QueueInv, ApiCall, ~SlowStop, ~EarlyCalls
  PROVE  QueueInv' /\ Active' \subseteq Active
<1> DEFINE Goal == QueueInv' /\ Active' \subseteq Active
<1>1. \A op : Served(op) => phase = "up"
  BY DEF Served
<1>2. \A j \in entering : state[j] = "absent" /\ phase = "up"
  BY DEF QueueInv, EnteringIsAbsent, MemoryIsEmpty
<1>3. \A j \in Jobs : state[j] \notin InProcess => current[j] = 0
  BY RunIsInProcess
<1>4. \A j \in Jobs :
        state[j] \notin InProcess \cup {"paused", "ready", "cancelled"} =>
          \A c \in calls : c.job # j
  BY CallsOf
<1>5. \A c \in calls : WaitOver(c) => /\ c.run = 0 /\ current[c.job] = 0
                                      /\ phase = "up" /\ c.job \in Jobs
                                      /\ state[c.job] # "absent"
  BY CallsOf DEF WaitOver, QueueInv, CallsFit, MemoryIsEmpty, InProcess
<1>6. CASE Reprioritise
  <2>1. EnteringIsAbsent'
    BY <1>6 DEF Reprioritise, QueueInv, EnteringIsAbsent, jobVars
  <2> QED BY <1>1, <1>6, <2>1, QuietInv DEF Reprioritise, SchedulePump, jobVars,
      runVars, lifeVars
<1>7. ASSUME NEW j \in Jobs, EnqueueCheck(j) PROVE Goal
  <2>1. EnteringIsAbsent'
    BY <1>7 DEF EnqueueCheck, QueueInv, EnteringIsAbsent, jobVars
  <2>2. phase = "up"
    BY <1>7 DEF EnqueueCheck, Served
  <2> QED BY <1>7, <2>1, <2>2, QuietInv DEF EnqueueCheck, jobVars, runVars, lifeVars
<1>8. ASSUME NEW j \in Jobs, EnqueueRefused(j) PROVE Goal
  <2>1. EnteringIsAbsent'
    BY <1>8 DEF EnqueueRefused, QueueInv, EnteringIsAbsent, jobVars
  <2> QED BY <1>2, <1>8, <2>1, QuietInv DEF EnqueueRefused, jobVars, runVars, lifeVars
<1>9. ASSUME NEW j \in Jobs, EnqueuePush(j) PROVE Goal
  <2>1. /\ current[j] = 0 /\ phase = "up" /\ j \notin entering'
        /\ \A c \in calls : c.job # j
    BY <1>2, <1>3, <1>4, <1>9 DEF EnqueuePush, InProcess
  <2>2. forced' # {} => "force" \in Operations
    BY <1>9 DEF EnqueuePush, QueueInv, ForcedByCall
  <2>3. "queued" \in JobState \ InProcess
    BY DEF JobState, InProcess, Runnable
  <2> QED BY <1>9, <2>1, <2>2, <2>3, OneJobInv DEF EnqueuePush, Set, SchedulePump,
      runVars, lifeVars
<1>10. ASSUME NEW j \in Jobs, Pause(j) \/ Cancel(j) PROVE Goal
  <2>1. CASE current[j] # 0
    <3>1. PICK reason \in {"pause", "cancel"} : StopRun(j, reason)
      BY <1>10, <2>1 DEF Pause, Cancel
    <3> QED BY <1>1, <1>10, <2>1, <3>1, StopRunInv DEF Pause, Cancel, lifeVars
  <2>2. CASE current[j] = 0
    <3>1. PICK s \in {"paused", "cancelled"} : state' = [state EXCEPT ![j] = s]
      BY <1>10, <2>2 DEF Pause, Cancel, Set
    <3>2. s \in JobState \ InProcess
      BY DEF JobState, InProcess, Terminal
    <3>3. j \notin entering'
      BY <1>2, <1>10 DEF Pause, Cancel
    <3>4. forced' # {} => "force" \in Operations
      BY <1>10 DEF Pause, Cancel, QueueInv, ForcedByCall
    <3> QED BY <1>1, <1>10, <2>2, <3>1, <3>2, <3>3, <3>4, OneJobInv DEF Pause,
        Cancel, SchedulePump, lifeVars
  <2> QED BY <2>1, <2>2
<1>11. ASSUME NEW j \in Jobs, NEW s \in {"queued", "waiting/auth", "absent"},
              state[j] \notin InProcess \cup {"absent"}, phase = "up",
              Free \/ s = "absent",
              s = "absent" => pump.cand # j /\ \A c \in calls : c.job # j,
              state' = [state EXCEPT ![j] = s],
              UNCHANGED <<step, stop, current, calls, entering, phase>>,
              pump' \in {pump, Schedule(pump)}, forced' # {} => "force" \in Operations
       PROVE  Goal
  <2>1. \A c \in calls : c.job # j
    <3>1. \A c \in calls : c.run # 0 => state[c.job] \in InProcess
      BY CallsOf, RunIsInProcess DEF QueueInv, CallsFit
    <3> QED BY <1>11, <3>1 DEF Free
  <2>2. current[j] = 0 /\ j \notin entering'
    BY <1>2, <1>3, <1>11
  <2>3. s \in JobState \ InProcess
    BY DEF JobState, InProcess, Runnable
  <2> QED BY <1>11, <2>1, <2>2, <2>3, OneJobInv
<1>12. ForcedByCall
  BY DEF QueueInv
<1>13. ASSUME NEW j \in Jobs, Retry(j) PROVE Goal
  BY <1>1, <1>11, <1>12, <1>13 DEF Retry, Set, SchedulePump, ForcedByCall, Served,
     InProcess, runVars, lifeVars
<1>14. ASSUME NEW j \in Jobs, Remove(j) PROVE Goal
  BY <1>1, <1>11, <1>12, <1>14 DEF Remove, Set, ForcedByCall, InProcess, Terminal,
     runVars, lifeVars
<1>15. ASSUME NEW j \in Jobs, NEW b \in BOOLEAN, Resume(j, b) PROVE Goal
  BY <1>1, <1>11, <1>12, <1>15 DEF Resume, Resumable, AskForToken, Requeue, Set,
     SchedulePump, ForcedByCall, Served, runVars, lifeVars
<1>16. ASSUME NEW j \in Jobs, NEW b \in BOOLEAN, StartNow(j, b) PROVE Goal
  <2>1. forced' # {} => "force" \in Operations
    BY <1>12, <1>16 DEF StartNow, AskForToken, ForcedByCall
  <2> QED BY <1>1, <1>11, <1>16, <2>1 DEF StartNow, Resumable, AskForToken,
      Requeue, Set, SchedulePump, Served, runVars, lifeVars
<1>17. ASSUME NEW c \in calls, PauseReturns(c) \/ CancelReturns(c) PROVE Goal
  <2>1. /\ current[c.job] = 0 /\ phase = "up" /\ c.job \in Jobs
        /\ state[c.job] # "absent" /\ c.job \notin entering'
    BY <1>2, <1>5, <1>17 DEF PauseReturns, CancelReturns
  <2>2. /\ calls' \subseteq calls /\ pump' = Schedule(pump)
        /\ UNCHANGED <<step, stop, current, entering, phase, forced>>
    BY <1>17 DEF PauseReturns, CancelReturns, SchedulePump, runVars, lifeVars
  <2>3. CASE UNCHANGED state
    <3>1. EnteringIsAbsent'
      BY <2>2, <2>3 DEF QueueInv, EnteringIsAbsent
    <3> QED BY <2>1, <2>2, <2>3, <3>1, QuietInv
  <2>4. ASSUME NEW s \in {"paused", "cancelled"},
               state' = [state EXCEPT ![c.job] = s]
        PROVE  Goal
    <3>1. s \in JobState \ InProcess
      BY DEF JobState, InProcess, Terminal
    <3> QED BY <1>12, <2>1, <2>2, <2>4, <3>1, OneJobInv DEF ForcedByCall
  <2> QED BY <1>17, <2>3, <2>4 DEF PauseReturns, CancelReturns, Set
<1> QED BY <1>6, <1>7, <1>8, <1>9, <1>10, <1>13, <1>14, <1>15, <1>16, <1>17 DEF ApiCall

LEMMA TimerInv ==
  ASSUME TypeOK, QueueInv, Timer
  PROVE  QueueInv' /\ Active' \subseteq Active
<1> USE DEF QueueInv
<1>1. phase = "up"
  BY DEF Timer, RecheckFires, ResumeFires, RetryFires, MemoryIsEmpty
<1>2. CASE RecheckFires
  <2>1. EnteringIsAbsent'
    BY <1>2 DEF RecheckFires, EnteringIsAbsent, jobVars
  <2> QED BY <1>1, <1>2, <2>1, QuietInv DEF RecheckFires, SchedulePump, jobVars,
      runVars, lifeVars
<1>3. CASE ResumeFires
  <2>1. Active' = Active
    BY <1>3 DEF ResumeFires, Active, InProcess, TypeOK
  <2>2. NoZombieRun' /\ CurrentIsLive'
    BY <1>3 DEF ResumeFires, NoZombieRun, CurrentIsLive, InProcess, TypeOK, runVars
  <2>3. CallsFit'
    BY <1>3, CallsOf DEF ResumeFires, CallsFit, InProcess, TypeOK, runVars
  <2>4. EnteringIsAbsent' /\ ForcedByCall' /\ MemoryIsEmpty'
    BY <1>1, <1>3 DEF ResumeFires, EnteringIsAbsent, ForcedByCall, MemoryIsEmpty,
       TypeOK, lifeVars
  <2>5. PassFits'
    <3>1. pump.pc \in {"gate", "disk"} =>
            state'[pump.cand] \notin InProcess \cup {"absent"}
      BY <1>3 DEF ResumeFires, PassFits, TypeOK, InProcess
    <3> QED BY <1>3, <2>1, <3>1, PassUndisturbed DEF ResumeFires, SchedulePump
  <2> QED BY <2>1, <2>2, <2>3, <2>4, <2>5
<1>4. ASSUME NEW j \in Jobs, RetryFires(j)
      PROVE  QueueInv' /\ Active' \subseteq Active
  <2>1. CASE state[j] = "retrying"
    <3>1. current[j] = 0 /\ j \notin entering' /\ \A c \in calls : c.job # j
      BY <1>4, <2>1, RunIsInProcess, CallsOf DEF RetryFires, EnteringIsAbsent, InProcess
    <3>2. "queued" \in JobState \ InProcess
      BY DEF JobState, InProcess, Runnable
    <3> QED BY <1>1, <1>4, <2>1, <3>1, <3>2, OneJobInv DEF RetryFires, Set,
        SchedulePump, ForcedByCall, runVars, lifeVars
  <2>2. CASE state[j] # "retrying"
    <3>1. EnteringIsAbsent'
      BY <1>4, <2>2 DEF RetryFires, EnteringIsAbsent
    <3> QED BY <1>1, <1>4, <2>2, <3>1, QuietInv DEF RetryFires, runVars, lifeVars
  <2> QED BY <2>1, <2>2
<1> QED BY <1>2, <1>3, <1>4 DEF Timer

LEMMA LifeInv ==
  ASSUME TypeOK, QueueInv, Life
  PROVE  QueueInv' /\ Active' \subseteq Active
<1> USE DEF QueueInv
<1>1. CASE Crash \/ Shutdown
  <2>1. MemoryLost /\ UNCHANGED forced
    BY <1>1 DEF Crash, Shutdown, jobVars
  <2>2. Active' \subseteq Active
    BY <1>1 DEF Crash, Shutdown, Active, InProcess, jobVars
  <2> QED BY <2>1, <2>2 DEF MemoryLost, NoPass, NoZombieRun, CurrentIsLive, CallsFit,
      PassFits, EnteringIsAbsent, ForcedByCall, MemoryIsEmpty, Runs
<1>2. CASE StartBegins
  <2>1. Active' = Active
    BY <1>2 DEF StartBegins, Active
  <2> QED BY <1>2, <2>1 DEF StartBegins, NoZombieRun, CurrentIsLive, CallsFit,
      PassFits, EnteringIsAbsent, ForcedByCall, MemoryIsEmpty, runVars, timeVars,
      ForceExtra
<1>3. CASE StartEnds
  <2>1. /\ \A x \in Runs : step[x] = "free"
        /\ calls = {} /\ entering = {} /\ pump.pc = "idle"
    BY <1>3 DEF StartEnds, MemoryIsEmpty
  <2>2. Active' \subseteq Active
    BY <1>3 DEF StartEnds, Active, InProcess
  <2>3. PassFits'
    BY <1>3, <2>1 DEF StartEnds, SchedulePump, Schedule, NoPass, PassFits
  <2> QED BY <1>3, <2>1, <2>2, <2>3 DEF StartEnds, NoZombieRun, CurrentIsLive,
      CallsFit, EnteringIsAbsent, ForcedByCall, MemoryIsEmpty, runVars, Runs
<1>4. ASSUME NEW j \in Jobs, OrphanExits(j)
      PROVE  QueueInv' /\ Active' \subseteq Active
  <2>1. Active' = Active
    BY <1>4 DEF OrphanExits, Active, jobVars
  <2> QED BY <1>4, <2>1 DEF OrphanExits, NoZombieRun, CurrentIsLive, CallsFit,
      PassFits, EnteringIsAbsent, ForcedByCall, MemoryIsEmpty, jobVars, runVars,
      timeVars, ForceExtra
<1> QED BY <1>1, <1>2, <1>3, <1>4 DEF Life

\* Every step keeps the calls, the passes and the runs in agreement, and makes
\* a job active only where the pass saw a slot.
LEMMA QueueStep ==
  ASSUME TypeOK, QueueInv, SlotLimit, [Next]_vars, ~SlowStop, ~EarlyCalls
  PROVE  QueueInv' /\ SlotLimit'
<1>1. ASSUME Active' \subseteq Active PROVE SlotLimit'
  BY <1>1, ActiveShrinks, QueueAssumption DEF SlotLimit, ForceExtra, QueueAssumption
<1>2. CASE UNCHANGED vars
  <2>1. Active' = Active
    BY <1>2 DEF vars, jobVars, Active
  <2>2. QueueInv'
    BY <1>2, <2>1 DEF vars, jobVars, runVars, timeVars, lifeVars, QueueInv,
       NoZombieRun, CurrentIsLive, CallsFit, PassFits, EnteringIsAbsent,
       ForcedByCall, MemoryIsEmpty, ForceExtra
  <2> QED BY <1>1, <2>1, <2>2
<1>3. ASSUME NEW j \in Jobs, NEW r \in Slots, RunJobStarts(j, r)
      PROVE  QueueInv' /\ SlotLimit'
  BY <1>3, RunJobStartsInv
<1>4. CASE Pump /\ \A j \in Jobs, r \in Slots : ~RunJobStarts(j, r)
  BY <1>1, <1>4, PumpInv
<1>5. ASSUME NEW j \in Jobs, NEW r \in Slots, RunStep(j, r)
      PROVE  QueueInv' /\ SlotLimit'
  BY <1>1, <1>5, RunStepInv
<1>6. CASE ApiCall \/ Timer \/ Life
  BY <1>1, <1>6, ApiCallInv, TimerInv, LifeInv
<1> QED BY <1>2, <1>3, <1>4, <1>5, <1>6 DEF Next

\* While stops end within stopWaitMs and no call is served during start():
\* what the pass under way has counted, what every call waits for and what a
\* run works on fit together, and the slots hold.
THEOREM QueueInvariant ==
  ASSUME ~SlowStop, ~EarlyCalls
  PROVE  Spec => [](QueueInv /\ SlotLimit)
<1>1. Init => QueueInv /\ SlotLimit
  <2> SUFFICES ASSUME Init PROVE QueueInv /\ SlotLimit
    OBVIOUS
  <2>1. Active = {}
    BY DEF Init, Active, InProcess
  <2>2. SlotLimit
    BY <2>1, FS_EmptySet, QueueAssumption DEF SlotLimit, ForceExtra, QueueAssumption
  <2>3. QueueInv
    BY DEF Init, NoPass, QueueInv, NoZombieRun, CurrentIsLive, CallsFit, PassFits,
       EnteringIsAbsent, ForcedByCall, MemoryIsEmpty, Runs
  <2> QED BY <2>2, <2>3
<1>2. TypeOK /\ QueueInv /\ SlotLimit /\ [Next]_vars => QueueInv' /\ SlotLimit'
  BY QueueStep
<1> QED BY <1>1, <1>2, TypeCorrect, PTL DEF Spec

\* The number of jobs in process stays within transfer.maxConcurrent and one
\* forced start (pumpOnce and runJob).
THEOREM SlotsHold ==
  ASSUME ~SlowStop, ~EarlyCalls
  PROVE  Spec => []SlotLimit
BY QueueInvariant, PTL

\* A job has one run at most, and a job that may be started has none: the
\* processes of one job never meet (runJob, stopRun), and MaxRuns, the bound of
\* the instances, leaves no candidate out once it is one.
THEOREM OneRunPerJob ==
  ASSUME ~SlowStop, ~EarlyCalls
  PROVE  Spec => [](\A j \in Jobs :
                      /\ \A r, q \in Slots : step[<<j, r>>] # "free" /\ step[<<j, q>>] # "free"
                                           => r = q
                      /\ state[j] \in Runnable => \A r \in Slots : step[<<j, r>>] = "free")
<1>1. QueueInv => \A j \in Jobs :
        /\ \A r, q \in Slots : step[<<j, r>>] # "free" /\ step[<<j, q>>] # "free" => r = q
        /\ state[j] \in Runnable => \A r \in Slots : step[<<j, r>>] = "free"
  BY DEF QueueInv, NoZombieRun, InProcess, Runnable
<1> QED BY QueueInvariant, <1>1, PTL

-----------------------------------------------------------------------------
(* Nothing is forgotten: retries, restarts, runs under a call *)

\* Passes, calls, timers and runs belong to a process that is up, and do not
\* touch what a restart looks at.
LEMMA WorkIsUp ==
  ASSUME QueueInv, ~EarlyCalls,
         Pump \/ ApiCall \/ Timer \/ \E j \in Jobs, r \in Slots : RunStep(j, r)
  PROVE  phase = "up" /\ UNCHANGED lifeVars
<1> USE DEF QueueInv, MemoryIsEmpty, lifeVars
<1>1. CASE Pump
  BY <1>1 DEF Pump, PumpBegin, PumpEnd, PumpSkip, PumpNoSlot, PumpProbe, PumpGateIdle,
     PumpGateBusy, PumpDiskShort, PumpDiskSkip, RunJobStarts, RunJobNeedsToken,
     RunJobFails, RunJob
<1>2. CASE ApiCall
  <2>1. CASE Reprioritise
    BY <2>1 DEF Reprioritise, Served
  <2>2. ASSUME NEW j \in Jobs, EnqueueCheck(j) \/ EnqueueRefused(j) \/ EnqueuePush(j)
        PROVE  phase = "up" /\ UNCHANGED lifeVars
    BY <2>2 DEF EnqueueCheck, EnqueueRefused, EnqueuePush, Served
  <2>3. ASSUME NEW j \in Jobs, Pause(j) \/ Cancel(j) \/ Retry(j) \/ Remove(j)
        PROVE  phase = "up" /\ UNCHANGED lifeVars
    BY <2>3 DEF Pause, Cancel, Retry, Remove, Served
  <2>4. ASSUME NEW j \in Jobs, NEW b \in BOOLEAN, Resume(j, b) \/ StartNow(j, b)
        PROVE  phase = "up" /\ UNCHANGED lifeVars
    BY <2>4 DEF Resume, StartNow, AskForToken, Requeue, Served
  <2>5. ASSUME NEW c \in calls, PauseReturns(c) \/ CancelReturns(c)
        PROVE  phase = "up" /\ UNCHANGED lifeVars
    BY <2>5 DEF PauseReturns, CancelReturns
  <2> QED BY <1>2, <2>1, <2>2, <2>3, <2>4, <2>5 DEF ApiCall
<1>3. CASE Timer
  BY <1>3 DEF Timer, RecheckFires, ResumeFires, RetryFires
<1>4. ASSUME NEW j \in Jobs, NEW r \in Slots, RunStep(j, r)
      PROVE  phase = "up" /\ UNCHANGED lifeVars
  <2>1. step[<<j, r>>] # "free" /\ UNCHANGED lifeVars
    BY <1>4 DEF RunStep, Stall, ExitCancelled, StoppedForPause, ExitFailed, ExitOk,
       VerifyCancelled, VerifyFailed, VerifyOk, Registered, RunEnds
  <2> QED BY <2>1 DEF Runs
<1> QED BY <1>1, <1>2, <1>3, <1>4

\* A process that is up has no orphans; one that is down left orphans only of
\* jobs that its successor finds in process and captures.
Restarts ==
  /\ phase = "up" => orphans = {}
  /\ phase # "up" => orphans \subseteq Active
  /\ phase = "starting" => captured = Active

LEMMA RestartsStep ==
  ASSUME TypeOK, QueueInv, Restarts, [Next]_vars, ~SlowStop, ~EarlyCalls
  PROVE  Restarts'
<1>1. CASE UNCHANGED vars
  BY <1>1 DEF vars, jobVars, lifeVars, Restarts, Active
<1>2. CASE Pump \/ ApiCall \/ Timer \/ \E j \in Jobs, r \in Slots : RunStep(j, r)
  BY <1>2, WorkIsUp DEF Restarts, lifeVars
<1>3. CASE Crash
  <2>1. Downloading \subseteq Active
    BY DEF QueueInv, NoZombieRun, Downloading, Active
  <2>2. Active' = Active /\ phase' = "down" /\ orphans' = orphans \cup Downloading
    BY <1>3 DEF Crash, MemoryLost, jobVars, Active
  <2> QED BY <2>1, <2>2 DEF Restarts
<1>4. CASE Shutdown
  BY <1>4 DEF Shutdown, MemoryLost, Restarts
<1>5. CASE StartBegins
  <2>1. Active' = Active
    BY <1>5 DEF StartBegins, Active
  <2> QED BY <1>5, <2>1 DEF StartBegins, Restarts
<1>6. CASE StartEnds
  BY <1>6 DEF StartEnds, Restarts
<1>7. ASSUME NEW j \in Jobs, OrphanExits(j) PROVE Restarts'
  <2>1. Active' = Active
    BY <1>7 DEF OrphanExits, jobVars, Active
  <2> QED BY <1>7, <2>1 DEF OrphanExits, Restarts
<1> QED BY <1>1, <1>2, <1>3, <1>4, <1>5, <1>6, <1>7 DEF Next, Life

\* A job that retries keeps its timer, and a job that begins to retry gets one.
LEMMA RetryStep ==
  ASSUME TypeOK, QueueInv, RetryIsArmed, [Next]_vars, ~EarlyCalls
  PROVE  RetryIsArmed'
<1> USE DEF RetryIsArmed, Set
<1>1. CASE UNCHANGED vars
  BY <1>1 DEF vars, jobVars, timeVars, lifeVars
<1>2. CASE Pump
  <2>1. phase = "up"
    BY <1>2, WorkIsUp
  <2>2. CASE PumpBegin
    BY <2>1, <2>2 DEF PumpBegin, TypeOK, timeVars
  <2>3. CASE PumpEnd \/ PumpGateIdle \/ PumpDiskSkip
    BY <2>1, <2>3 DEF PumpEnd, PumpGateIdle, PumpDiskSkip, jobVars, timeVars
  <2>4. ASSUME NEW j \in Jobs, PumpSkip(j) PROVE RetryIsArmed'
    BY <2>1, <2>4 DEF PumpSkip, jobVars, timeVars
  <2>5. ASSUME NEW j \in Jobs, PumpNoSlot(j) PROVE RetryIsArmed'
    BY <2>1, <2>5 DEF PumpNoSlot, TypeOK, timeVars
  <2>6. ASSUME NEW j \in Jobs, PumpProbe(j) PROVE RetryIsArmed'
    BY <2>1, <2>6 DEF PumpProbe, TypeOK, timeVars
  <2>7. CASE PumpGateBusy \/ PumpDiskShort
    BY <2>1, <2>7 DEF PumpGateBusy, PumpDiskShort, TypeOK
  <2>8. ASSUME NEW j \in Jobs, NEW r \in Slots, RunJobStarts(j, r) PROVE RetryIsArmed'
    BY <2>1, <2>8 DEF RunJobStarts, TypeOK
  <2>9. ASSUME NEW j \in Jobs, RunJobNeedsToken(j) PROVE RetryIsArmed'
    BY <2>1, <2>9 DEF RunJobNeedsToken, TypeOK
  <2>10. ASSUME NEW j \in Jobs, NEW b \in BOOLEAN, RunJobFails(j, b) PROVE RetryIsArmed'
    BY <2>1, <2>10 DEF RunJobFails, HandleFailure, TypeOK
  <2> QED BY <1>2, <2>2, <2>3, <2>4, <2>5, <2>6, <2>7, <2>8, <2>9, <2>10 DEF Pump
<1>3. CASE ApiCall
  <2>1. phase = "up"
    BY <1>3, WorkIsUp
  <2>2. CASE Reprioritise
    BY <2>1, <2>2 DEF Reprioritise, jobVars, timeVars
  <2>3. ASSUME NEW j \in Jobs, EnqueueCheck(j) \/ EnqueueRefused(j) \/ EnqueuePush(j)
        PROVE  RetryIsArmed'
    BY <2>1, <2>3 DEF EnqueueCheck, EnqueueRefused, EnqueuePush, TypeOK, jobVars, timeVars
  <2>4. ASSUME NEW j \in Jobs, Pause(j) \/ Cancel(j) PROVE RetryIsArmed'
    \* A job with a run does not retry, so the timer that is dropped is not needed.
    <3>1. current[j] # 0 => state[j] # "retrying"
      BY RunIsInProcess DEF InProcess
    <3> QED BY <2>1, <2>4, <3>1 DEF Pause, Cancel, TypeOK
  <2>5. ASSUME NEW j \in Jobs, Retry(j) \/ Remove(j) PROVE RetryIsArmed'
    BY <2>1, <2>5 DEF Retry, Remove, TypeOK, timeVars
  <2>6. ASSUME NEW j \in Jobs, NEW b \in BOOLEAN, Resume(j, b) \/ StartNow(j, b)
        PROVE  RetryIsArmed'
    BY <2>1, <2>6 DEF Resume, StartNow, AskForToken, Requeue, TypeOK, timeVars
  <2>7. ASSUME NEW c \in calls, PauseReturns(c) \/ CancelReturns(c) PROVE RetryIsArmed'
    BY <2>1, <2>7 DEF PauseReturns, CancelReturns, TypeOK, timeVars
  <2> QED BY <1>3, <2>2, <2>3, <2>4, <2>5, <2>6, <2>7 DEF ApiCall
<1>4. CASE Timer
  <2>1. phase = "up"
    BY <1>4, WorkIsUp
  <2>2. CASE RecheckFires
    BY <2>1, <2>2 DEF RecheckFires, jobVars
  <2>3. CASE ResumeFires
    BY <2>1, <2>3 DEF ResumeFires, TypeOK
  <2>4. ASSUME NEW j \in Jobs, RetryFires(j) PROVE RetryIsArmed'
    BY <2>1, <2>4 DEF RetryFires, TypeOK
  <2> QED BY <1>4, <2>2, <2>3, <2>4 DEF Timer
<1>5. ASSUME NEW j \in Jobs, NEW r \in Slots, RunStep(j, r) PROVE RetryIsArmed'
  <2>1. phase = "up"
    BY <1>5, WorkIsUp
  <2>2. CASE Stall(j, r) \/ ExitCancelled(j, r) \/ VerifyCancelled(j, r) \/ VerifyOk(j, r)
    BY <2>1, <2>2 DEF Stall, ExitCancelled, VerifyCancelled, VerifyOk, RunEnds,
       jobVars, timeVars
  <2>3. CASE StoppedForPause(j, r) \/ ExitOk(j, r) \/ Registered(j, r)
    BY <2>1, <2>3 DEF StoppedForPause, ExitOk, Registered, RunEnds, TypeOK, timeVars
  <2>4. ASSUME NEW b \in BOOLEAN, ExitFailed(j, r, b) \/ VerifyFailed(j, r, b)
        PROVE  RetryIsArmed'
    BY <2>1, <2>4 DEF ExitFailed, VerifyFailed, HandleFailure, TypeOK
  <2> QED BY <1>5, <2>2, <2>3, <2>4 DEF RunStep
<1>6. CASE Crash \/ Shutdown \/ StartBegins
  BY <1>6 DEF Crash, Shutdown, StartBegins, MemoryLost
<1>7. CASE StartEnds
  BY <1>7 DEF StartEnds
<1>8. ASSUME NEW j \in Jobs, OrphanExits(j) PROVE RetryIsArmed'
  BY <1>8 DEF OrphanExits, jobVars, timeVars
<1> QED BY <1>1, <1>2, <1>3, <1>4, <1>5, <1>6, <1>7, <1>8 DEF Next, Life

\* A retrying job always has its timer, after a restart too, while stops end
\* within stopWaitMs and no call is served during start() (handleFailure,
\* armRetry, start).
THEOREM RetriesAreArmed ==
  ASSUME ~SlowStop, ~EarlyCalls
  PROVE  Spec => []RetryIsArmed
<1>1. Init => RetryIsArmed
  BY DEF Init, RetryIsArmed
<1>2. TypeOK /\ QueueInv /\ RetryIsArmed /\ [Next]_vars => RetryIsArmed'
  BY RetryStep
<1> QED BY <1>1, <1>2, TypeCorrect, QueueInvariant, PTL DEF Spec

\* A run that was stopped for a call is waited for by that call, and a run
\* that is over is not marked as stopped.
StopHasCall(j, r) ==
  /\ step[<<j, r>>] = "free" => stop[<<j, r>>] = "none"
  /\ stop[<<j, r>>] \in {"pause", "cancel"} => \E c \in calls : c.job = j /\ c.run = r
StopsHaveCalls == \A j \in Jobs, r \in Slots : StopHasCall(j, r)

\* The end of a run frees its calls, which stay calls of their jobs.
LEMMA FinishRunCalls ==
  ASSUME TypeOK, QueueInv, StopsHaveCalls, NEW j \in Jobs, NEW r \in Slots, FinishRun(j, r),
         step[<<j, r>>] # "free"
  PROVE  /\ StopsHaveCalls'
         /\ \A k \in Jobs : (\E c \in calls : c.job = k) => \E c \in calls' : c.job = k
         /\ \A k \in Jobs : current'[k] = IF k = j THEN 0 ELSE current[k]
<1>1. current[j] = r
  BY DEF QueueInv, NoZombieRun
<1>2. ASSUME NEW c \in calls
      PROVE  \/ c.job = j /\ c.run = r /\ \E d \in calls' : d.job = j
             \/ ~(c.job = j /\ c.run = r) /\ c \in calls'
  <2>1. c \in Calls
    BY DEF TypeOK
  <2>2. (IF c.job = j /\ c.run = r THEN [c EXCEPT !.run = 0] ELSE c) \in calls'
    BY DEF FinishRun
  <2>3. [c EXCEPT !.run = 0].job = c.job
    BY <2>1 DEF Calls
  <2> QED BY <2>2, <2>3
<1>3. \A x \in Runs : /\ step'[x] = IF x = <<j, r>> THEN "free" ELSE step[x]
                      /\ stop'[x] = IF x = <<j, r>> THEN "none" ELSE stop[x]
  BY DEF FinishRun, TypeOK
<1>4. StopsHaveCalls'
  <2> SUFFICES ASSUME NEW k \in Jobs, NEW q \in Slots PROVE StopHasCall(k, q)'
    BY DEF StopsHaveCalls
  <2>1. <<k, q>> \in Runs /\ StopHasCall(k, q)
    BY DEF StopsHaveCalls, Runs
  <2>2. CASE <<k, q>> = <<j, r>>
    BY <1>3, <2>1, <2>2 DEF StopHasCall
  <2>3. CASE <<k, q>> # <<j, r>>
    <3>1. step'[<<k, q>>] = step[<<k, q>>] /\ stop'[<<k, q>>] = stop[<<k, q>>]
      BY <1>3, <2>1, <2>3
    <3>2. ASSUME NEW c \in calls, c.job = k, c.run = q PROVE c \in calls'
      BY <1>2, <2>3, <3>2
    <3> QED BY <2>1, <3>1, <3>2 DEF StopHasCall
  <2> QED BY <2>2, <2>3
<1>5. \A k \in Jobs : current'[k] = IF k = j THEN 0 ELSE current[k]
  BY <1>1 DEF FinishRun, TypeOK
<1> QED BY <1>2, <1>4, <1>5

\* Every job in process keeps a run, or the call that stopped it.
LEMMA SupervisedStep ==
  ASSUME TypeOK, QueueInv, QueueInv', Restarts, StopsHaveCalls, Supervised, [Next]_vars,
         ~SlowStop, ~EarlyCalls
  PROVE  StopsHaveCalls' /\ Supervised'
<1> DEFINE Goal == StopsHaveCalls' /\ Supervised'
<1>1. ASSUME UNCHANGED <<step, stop, current, calls, phase>>, Active' \subseteq Active
      PROVE  Goal
  BY <1>1 DEF StopsHaveCalls, StopHasCall, Supervised
<1>2. CASE UNCHANGED vars
  BY <1>1, <1>2 DEF vars, jobVars, runVars, lifeVars, Active
<1>3. CASE Pump /\ \A j \in Jobs, r \in Slots : ~RunJobStarts(j, r)
  <2>1. Active' \subseteq Active /\ phase' = phase
    BY <1>3, PumpInv, WorkIsUp DEF lifeVars
  <2>2. UNCHANGED <<step, stop, calls>>
    BY <1>3 DEF Pump, PumpBegin, PumpEnd, PumpSkip, PumpNoSlot, PumpProbe, PumpGateIdle,
       PumpGateBusy, PumpDiskShort, PumpDiskSkip, RunJobNeedsToken, RunJobFails, RunJob,
       runVars
  <2>3. UNCHANGED current
    <3>1. ASSUME NEW j \in Jobs, RunJob(j), current' = [current EXCEPT ![j] = 0]
          PROVE  UNCHANGED current
      <4>1. current[j] = 0
        BY <3>1, RunIsInProcess DEF RunJob, Runnable, InProcess
      <4> QED BY <3>1, <4>1 DEF TypeOK
    <3> QED BY <1>3, <3>1 DEF Pump, PumpBegin, PumpEnd, PumpSkip, PumpNoSlot, PumpProbe,
        PumpGateIdle, PumpGateBusy, PumpDiskShort, PumpDiskSkip, RunJobNeedsToken,
        RunJobFails, runVars
  <2> QED BY <1>1, <2>1, <2>2, <2>3
<1>4. ASSUME NEW j \in Jobs, NEW r \in Slots, RunJobStarts(j, r) PROVE Goal
  <2>1. /\ state' = [state EXCEPT ![j] = "downloading"]
        /\ step' = [step EXCEPT ![<<j, r>>] = "engine"] /\ stop' = stop
        /\ current' = [current EXCEPT ![j] = r] /\ UNCHANGED <<calls, phase>>
    BY <1>4 DEF RunJobStarts, RunJob, Set, lifeVars
  <2>2. r # 0
    BY QueueAssumption DEF Slots, QueueAssumption
  <2>3. StopsHaveCalls'
    <3> SUFFICES ASSUME NEW i \in Jobs, NEW q \in Slots PROVE StopHasCall(i, q)'
      BY DEF StopsHaveCalls
    <3>1. StopHasCall(i, q)
      BY DEF StopsHaveCalls
    <3>2. step'[<<i, q>>] = "free" => step[<<i, q>>] = "free"
      BY <2>1 DEF TypeOK, Runs
    <3> QED BY <2>1, <3>1, <3>2 DEF StopHasCall
  <2>4. Supervised'
    BY <2>1, <2>2 DEF Supervised, Active, TypeOK
  <2> QED BY <2>3, <2>4
<1>5. ASSUME NEW j \in Jobs, NEW r \in Slots, RunStep(j, r) PROVE Goal
  <2>0. /\ step[<<j, r>>] # "free" /\ state[j] \in InProcess /\ current[j] = r /\ r # 0
        /\ phase = "up" /\ phase' = phase
    <3>1. step[<<j, r>>] # "free"
      BY <1>5 DEF RunStep, Stall, ExitCancelled, StoppedForPause, ExitFailed, ExitOk,
         VerifyCancelled, VerifyFailed, VerifyOk, Registered
    <3>2. r # 0
      BY QueueAssumption DEF Slots, QueueAssumption
    <3> QED BY <1>5, <3>1, <3>2, WorkIsUp DEF QueueInv, NoZombieRun, lifeVars
  <2>1. ASSUME FinishRun(j, r),
               state'[j] \in InProcess => stop[<<j, r>>] \in {"pause", "cancel"},
               \A k \in Jobs \ {j} : state'[k] = state[k]
        PROVE  Goal
    <3>1. /\ StopsHaveCalls'
          /\ \A k \in Jobs : (\E c \in calls : c.job = k) => \E c \in calls' : c.job = k
          /\ \A k \in Jobs : current'[k] = IF k = j THEN 0 ELSE current[k]
      BY <2>0, <2>1, FinishRunCalls
    <3>2. state'[j] \in InProcess => \E c \in calls' : c.job = j
      BY <2>1, <3>1 DEF StopsHaveCalls, StopHasCall
    <3> QED BY <2>0, <2>1, <3>1, <3>2 DEF Supervised, Active
  <2>2. CASE ExitCancelled(j, r) \/ VerifyCancelled(j, r)
    BY <2>1, <2>2 DEF ExitCancelled, VerifyCancelled, RunEnds, jobVars
  <2>3. CASE StoppedForPause(j, r) \/ Registered(j, r)
    BY <2>1, <2>3 DEF StoppedForPause, Registered, RunEnds, Set, InProcess, TypeOK
  <2>4. ASSUME NEW b \in BOOLEAN, ExitFailed(j, r, b) \/ VerifyFailed(j, r, b) PROVE Goal
    BY <2>1, <2>4 DEF ExitFailed, VerifyFailed, RunEnds, HandleFailure, Set, InProcess, TypeOK
  <2>5. CASE Stall(j, r) \/ ExitOk(j, r) \/ VerifyOk(j, r)
    <3>1. /\ UNCHANGED <<current, calls>>
          /\ \E s \in InProcess : state' = [state EXCEPT ![j] = s]
      <4>1. state = [state EXCEPT ![j] = state[j]]
        BY DEF TypeOK
      <4> QED BY <2>0, <2>5, <4>1 DEF Stall, ExitOk, VerifyOk, Set, InProcess, jobVars
    <3>2. Supervised'
      BY <2>0, <3>1 DEF Supervised, Active, TypeOK
    <3>3. StopsHaveCalls'
      <4> SUFFICES ASSUME NEW k \in Jobs, NEW q \in Slots PROVE StopHasCall(k, q)'
        BY DEF StopsHaveCalls
      <4>1. <<k, q>> \in Runs /\ <<j, r>> \in Runs /\ StopHasCall(k, q)
        BY DEF StopsHaveCalls, Runs
      <4>2. CASE Stall(j, r)
        <5>1. /\ step' = step
              /\ stop'[<<k, q>>] = IF <<k, q>> = <<j, r>> THEN "stall" ELSE stop[<<k, q>>]
          BY <4>1, <4>2 DEF Stall, TypeOK
        <5> QED BY <2>0, <3>1, <4>1, <5>1 DEF StopHasCall
      <4>3. CASE ExitOk(j, r) \/ VerifyOk(j, r)
        <5>1. stop' = stop /\ \E s \in {"verify", "register"} : step' = [step EXCEPT ![<<j, r>>] = s]
          BY <4>3 DEF ExitOk, VerifyOk
        <5>2. step'[<<k, q>>] = "free" => step[<<k, q>>] = "free"
          BY <4>1, <5>1 DEF TypeOK
        <5> QED BY <3>1, <4>1, <5>1, <5>2 DEF StopHasCall
      <4> QED BY <2>5, <4>2, <4>3
    <3> QED BY <3>2, <3>3
  <2> QED BY <1>5, <2>2, <2>3, <2>4, <2>5 DEF RunStep
<1>6. CASE ApiCall
  <2>0. phase = "up" /\ phase' = "up" /\ Active' \subseteq Active
    BY <1>6, WorkIsUp, ApiCallInv DEF lifeVars
  <2>1. ASSUME NEW j \in Jobs, Pause(j) \/ Cancel(j) PROVE Goal
    <3>1. CASE current[j] = 0
      BY <1>1, <2>0, <2>1, <3>1 DEF Pause, Cancel
    <3>2. CASE current[j] # 0
      <4>1. PICK reason \in {"pause", "cancel"} : StopRun(j, reason)
        BY <2>1, <3>2 DEF Pause, Cancel
      <4>2. UNCHANGED <<state, step, current>>
        BY <2>1, <3>2 DEF Pause, Cancel
      <4>3. current[j] \in Slots /\ step[<<j, current[j]>>] # "free"
        BY <3>2, QueueAssumption DEF TypeOK, Slots, QueueAssumption, QueueInv, CurrentIsLive
      <4>4. StopsHaveCalls'
        <5>1. /\ [op |-> reason, job |-> j, run |-> current[j]] \in calls'
              /\ calls \subseteq calls'
              /\ stop' = [stop EXCEPT ![<<j, current[j]>>] = reason]
          BY <4>1 DEF StopRun
        <5>2. \E c \in calls' : c.job = j /\ c.run = current[j]
          BY <5>1
        <5>3. ASSUME NEW k \in Jobs, NEW q \in Slots, <<k, q>> # <<j, current[j]>>
              PROVE  stop'[<<k, q>>] = stop[<<k, q>>]
          BY <5>1, <5>3 DEF TypeOK, Runs
        <5> SUFFICES ASSUME NEW k \in Jobs, NEW q \in Slots PROVE StopHasCall(k, q)'
          BY DEF StopsHaveCalls
        <5>4. StopHasCall(k, q) /\ step' = step
          BY <4>2 DEF StopsHaveCalls
        <5>5. CASE <<k, q>> = <<j, current[j]>>
          BY <4>3, <5>2, <5>4, <5>5 DEF StopHasCall
        <5>6. CASE <<k, q>> # <<j, current[j]>>
          BY <5>1, <5>3, <5>4, <5>6 DEF StopHasCall
        <5> QED BY <5>5, <5>6
      <4>5. Supervised'
        BY <2>0, <4>1, <4>2 DEF StopRun, Supervised, Active
      <4> QED BY <4>4, <4>5
    <3> QED BY <3>1, <3>2
  <2>2. ASSUME NEW c \in calls, PauseReturns(c) \/ CancelReturns(c) PROVE Goal
    <3>1. c.run = 0 /\ c.job \in Jobs /\ calls' = calls \ {c} /\ UNCHANGED <<step, stop, current>>
      BY <2>2, CallsOf DEF PauseReturns, CancelReturns, WaitOver, runVars
    <3>2. state'[c.job] \notin InProcess
      BY <2>2, <3>1 DEF PauseReturns, CancelReturns, Set, TypeOK, InProcess, Terminal
    <3>3. StopsHaveCalls'
      <4>1. \A r \in Slots : r # 0
        BY QueueAssumption DEF Slots, QueueAssumption
      <4> SUFFICES ASSUME NEW k \in Jobs, NEW q \in Slots PROVE StopHasCall(k, q)'
        BY DEF StopsHaveCalls
      <4>2. StopHasCall(k, q)
        BY DEF StopsHaveCalls
      <4>3. \A d \in calls : d.run = q => d \in calls'
        BY <3>1, <4>1
      <4> QED BY <3>1, <4>2, <4>3 DEF StopHasCall
    <3>4. Supervised'
      BY <2>0, <3>1, <3>2 DEF Supervised, Active
    <3> QED BY <3>3, <3>4
  <2>3. CASE Reprioritise
    BY <1>1, <2>0, <2>3 DEF Reprioritise, runVars
  <2>4. ASSUME NEW j \in Jobs, EnqueueCheck(j) \/ EnqueueRefused(j) \/ EnqueuePush(j)
        PROVE  Goal
    BY <1>1, <2>0, <2>4 DEF EnqueueCheck, EnqueueRefused, EnqueuePush, runVars
  <2>5. ASSUME NEW j \in Jobs, Retry(j) \/ Remove(j) PROVE Goal
    BY <1>1, <2>0, <2>5 DEF Retry, Remove, runVars
  <2>6. ASSUME NEW j \in Jobs, NEW b \in BOOLEAN, Resume(j, b) \/ StartNow(j, b) PROVE Goal
    BY <1>1, <2>0, <2>6 DEF Resume, StartNow, AskForToken, Requeue, runVars
  <2> QED BY <1>6, <2>1, <2>2, <2>3, <2>4, <2>5, <2>6 DEF ApiCall
<1>7. CASE Timer
  <2>1. UNCHANGED <<step, stop, current, calls>>
    BY <1>7 DEF Timer, RecheckFires, ResumeFires, RetryFires, runVars
  <2> QED BY <1>1, <1>7, <2>1, WorkIsUp, TimerInv DEF lifeVars
<1>8. CASE Crash \/ Shutdown
  BY <1>8 DEF Crash, Shutdown, MemoryLost, StopsHaveCalls, StopHasCall, Supervised, Runs
<1>9. CASE StartBegins
  BY <1>9 DEF StartBegins, StopsHaveCalls, StopHasCall, Supervised, runVars
<1>10. CASE StartEnds
  \* What was in process before the restart is captured, hence interrupted.
  <2>1. Active' = {}
    BY <1>10 DEF StartEnds, Restarts, Active, InProcess
  <2>2. UNCHANGED <<step, stop, calls>>
    BY <1>10 DEF StartEnds, runVars
  <2> QED BY <2>1, <2>2 DEF StopsHaveCalls, StopHasCall, Supervised
<1>11. ASSUME NEW j \in Jobs, OrphanExits(j) PROVE Goal
  <2>1. Active' = Active
    BY <1>11 DEF OrphanExits, jobVars, Active
  <2> QED BY <1>1, <1>11, <2>1 DEF OrphanExits, runVars
<1> QED BY <1>2, <1>3, <1>4, <1>5, <1>6, <1>7, <1>8, <1>9, <1>10, <1>11 DEF Next, Life

\* No job is left behind in process: it has a run, or a call that ends it, on
\* every path through start, exit, verification, pause and cancel
\* (runJob, onEngineExit, stopRun, start).
THEOREM JobsAreSupervised ==
  ASSUME ~SlowStop, ~EarlyCalls
  PROVE  Spec => []Supervised
<1>1. Init => Restarts /\ StopsHaveCalls /\ Supervised
  <2> SUFFICES ASSUME Init PROVE Restarts /\ StopsHaveCalls /\ Supervised
    OBVIOUS
  <2>1. Active = {}
    BY DEF Init, Active, InProcess
  <2> QED BY <2>1 DEF Init, Restarts, StopsHaveCalls, StopHasCall, Supervised, Runs
<1>2. TypeOK /\ QueueInv /\ QueueInv' /\ Restarts /\ StopsHaveCalls /\ Supervised /\ [Next]_vars
        => Restarts' /\ StopsHaveCalls' /\ Supervised'
  BY RestartsStep, SupervisedStep
<1> QED BY <1>1, <1>2, TypeCorrect, QueueInvariant, PTL DEF Spec

-----------------------------------------------------------------------------
(* No lost wakeup *)

\* Something will start a pass, or asks the pass under way for another one: a
\* timer, the end of a job in process, or the mark of scheduleRun.
Awake == recheck \/ resumeTimer \/ Active # {} \/ pump.pc = "wanted" \/ pump.again

\* The pass under way will still look at the job.
Awaited(j) ==
  pump.pc # "idle" /\ (j \in pump.todo \/ (pump.pc \in {"gate", "disk"} /\ j = pump.cand))

\* Why the queue cannot fall asleep on work: a pass gives up a runnable job
\* only when it arms a timer, or when it counted a job in process.  Such a job
\* is in process still, or its end asked for another pass; so did a call that
\* took the token of the candidate.
Wakes ==
  phase = "up" =>
    /\ pump.pc = "idle" => ~pump.again
    /\ Awake \/ \A j \in Jobs : state[j] \in Runnable => Awaited(j)
    /\ pump.pc \in {"scan", "gate", "disk"} /\ ~pump.again /\ pump.active > 0 => Active # {}
    /\ pump.pc \in {"gate", "disk"} /\ ~pump.again => pump.cand \notin lost

LEMMA ScheduleWakes == ASSUME TypeOK, SchedulePump PROVE Wakes'
<1>1. CASE pump.pc = "idle"
  <2>1. pump'.pc = "wanted"
    BY <1>1 DEF SchedulePump, Schedule, NoPass
  <2> QED BY <2>1 DEF Wakes, Awake
<1>2. CASE pump.pc # "idle"
  <2>1. pump'.pc = pump.pc /\ pump'.again
    BY <1>2 DEF SchedulePump, Schedule, TypeOK, Passes
  <2> QED BY <1>2, <2>1 DEF Wakes, Awake
<1> QED BY <1>1, <1>2

\* A step that leaves the pass and its timers alone, ends no job in process,
\* makes no job runnable and takes no token.
LEMMA QuietWakes ==
  ASSUME Wakes, UNCHANGED <<pump, recheck, resumeTimer, phase>>, Active \subseteq Active',
         lost' \subseteq lost,
         \A j \in Jobs : state'[j] \in Runnable => state[j] \in Runnable
  PROVE  Wakes'
BY DEF Wakes, Awake, Awaited

LEMMA PumpWakes ==
  ASSUME TypeOK, QueueInv, Restarts, Wakes, Pump, ~EarlyCalls, ~StartMayFail
  PROVE  Wakes'
<1>0. phase = "up" /\ phase' = phase /\ pump.active \in Nat
  BY WorkIsUp DEF lifeVars, TypeOK, Passes
<1>1. \A j \in Jobs : state[j] \in Runnable \cup {"waiting/auth"} => j \notin Active
  BY DEF Active, Runnable, InProcess
<1>2. CASE PumpBegin
  <2>1. pump'.pc = "scan" /\ pump'.active = Cardinality(Active)
        /\ pump'.todo = {j \in Jobs : state'[j] \in Runnable /\
                                      \E r \in Slots : step[<<j, r>>] = "free"}
    BY <1>2 DEF PumpBegin, NoPass
  <2>2. \A j \in Jobs : state'[j] \in Runnable => j \in pump'.todo
    <3> SUFFICES ASSUME NEW j \in Jobs, state'[j] \in Runnable PROVE j \in pump'.todo
      OBVIOUS
    <3>1. state[j] \in Runnable \cup {"waiting/auth"}
      BY <1>2 DEF PumpBegin
    <3>2. 1 \in Slots /\ step[<<j, 1>>] = "free"
      BY <1>1, <3>1, QueueAssumption DEF Slots, QueueAssumption, QueueInv, NoZombieRun, Active
    <3> QED BY <2>1, <3>2
  <2>3. Active' = Active
    BY <1>2 DEF PumpBegin, Active, InProcess
  <2>4. pump'.active > 0 => Active' # {}
    BY <2>1, <2>3, FS_EmptySet
  <2> QED BY <2>1, <2>2, <2>4 DEF Wakes, Awaited
<1>3. CASE PumpEnd
  <2>1. pump.pc = "scan" /\ pump.todo = {} /\ UNCHANGED <<state, recheck, resumeTimer, phase>>
    BY <1>3 DEF PumpEnd, jobVars, timeVars, lifeVars
  <2>2. /\ pump'.pc = IF pump.again THEN "wanted" ELSE "idle"
        /\ pump'.again = FALSE
    BY <1>3 DEF PumpEnd, NoPass
  <2>3. Active' = Active
    BY <2>1 DEF Active
  <2> QED BY <2>1, <2>2, <2>3 DEF Wakes, Awake, Awaited
<1>4. ASSUME NEW j \in Jobs, PumpSkip(j) PROVE Wakes'
  <2>1. /\ pump.pc = "scan" /\ state[j] \notin Runnable
        /\ UNCHANGED <<state, recheck, resumeTimer, phase>>
        /\ pump' = [pump EXCEPT !.todo = @ \ {j}]
    BY <1>4 DEF PumpSkip, jobVars, timeVars, lifeVars
  <2>2. /\ pump'.pc = pump.pc /\ pump'.again = pump.again /\ pump'.active = pump.active
        /\ pump'.todo = pump.todo \ {j} /\ Active' = Active
    BY <2>1 DEF TypeOK, Passes, Active
  <2> QED BY <2>1, <2>2 DEF Wakes, Awake, Awaited
<1>5. ASSUME NEW j \in Jobs, PumpNoSlot(j) PROVE Wakes'
  \* The pass saw no slot, so it counted a job in process.
  <2>1. /\ pump.pc = "scan" /\ pump.active > 0 /\ j \notin Active
        /\ pump'.pc = "scan" /\ pump'.again = pump.again /\ pump'.active = pump.active
    BY <1>0, <1>1, <1>5, QueueAssumption DEF PumpNoSlot, SlotFree, TypeOK, Passes,
       QueueAssumption
  <2>2. Active \subseteq Active'
    BY <1>5, <2>1 DEF PumpNoSlot, Set, Active, TypeOK
  <2> QED BY <1>0, <2>1, <2>2 DEF Wakes, Awake
<1>6. ASSUME NEW j \in Jobs, PumpProbe(j) PROVE Wakes'
  <2>1. /\ pump.pc = "scan" /\ j \notin Active
        /\ UNCHANGED <<recheck, resumeTimer, phase, lost>>
    BY <1>1, <1>6 DEF PumpProbe, timeVars, lifeVars
  <2>2. CASE j \in lost
    <3>1. /\ state' = [state EXCEPT ![j] = "waiting/auth"]
          /\ pump' = [pump EXCEPT !.todo = @ \ {j}]
      BY <1>6, <2>2 DEF PumpProbe, Set
    <3>2. /\ pump'.pc = "scan" /\ pump'.again = pump.again /\ pump'.active = pump.active
          /\ pump'.todo = pump.todo \ {j}
      BY <2>1, <3>1 DEF TypeOK, Passes
    <3>3. Active' = Active /\ \A k \in Jobs : state'[k] \in Runnable => k # j /\ state[k] \in Runnable
      BY <2>1, <3>1 DEF Active, TypeOK, InProcess, Runnable
    <3> QED BY <2>1, <3>2, <3>3 DEF Wakes, Awake, Awaited
  <2>3. CASE j \notin lost
    <3>1. PICK q \in {"gate", "disk"} :
            pump' = [pump EXCEPT !.todo = @ \ {j}, !.cand = j, !.pc = q]
      BY <1>6, <2>3 DEF PumpProbe
    <3>2. /\ pump'.pc = q /\ pump'.again = pump.again /\ pump'.active = pump.active
          /\ pump'.todo = pump.todo \ {j} /\ pump'.cand = j
      BY <3>1 DEF TypeOK, Passes
    <3>3. state' = state /\ Active' = Active
      BY <1>6, <2>3 DEF PumpProbe, Active
    <3> QED BY <2>1, <2>3, <3>2, <3>3 DEF Wakes, Awake, Awaited
  <2> QED BY <2>2, <2>3
<1>7. CASE PumpGateIdle
  <2>1. /\ pump.pc = "gate" /\ pump'.pc = "disk" /\ pump'.again = pump.again
        /\ pump'.active = pump.active /\ pump'.todo = pump.todo /\ pump'.cand = pump.cand
    BY <1>7 DEF PumpGateIdle, TypeOK, Passes
  <2>2. UNCHANGED <<state, recheck, resumeTimer, phase, lost>> /\ Active' = Active
    BY <1>7 DEF PumpGateIdle, jobVars, timeVars, lifeVars, Active
  <2> QED BY <2>1, <2>2 DEF Wakes, Awake, Awaited
<1>8. CASE PumpGateBusy \/ PumpDiskShort
  <2>1. /\ pump.pc \in {"gate", "disk"} /\ pump'.pc = "scan" /\ pump'.again = pump.again
        /\ pump'.active = pump.active /\ recheck'
    BY <1>8 DEF PumpGateBusy, PumpDiskShort, TypeOK, Passes
  <2>2. pump.cand \in Jobs /\ pump.cand \notin Active
    BY <2>1 DEF QueueInv, PassFits, Active
  <2>3. Active \subseteq Active'
    BY <1>8, <2>2 DEF PumpGateBusy, PumpDiskShort, Set, Active, TypeOK
  <2> QED BY <1>0, <2>1, <2>3 DEF Wakes, Awake
<1>9. CASE PumpDiskSkip
  <2>1. /\ pump.pc = "disk" /\ pump'.pc = "scan" /\ pump'.again = pump.again
        /\ pump'.active = pump.active /\ pump'.todo = pump.todo
        /\ state[pump.cand] \notin Runnable
    BY <1>9 DEF PumpDiskSkip, TypeOK, Passes
  <2>2. UNCHANGED <<state, recheck, resumeTimer, phase>> /\ Active' = Active
    BY <1>9 DEF PumpDiskSkip, jobVars, timeVars, lifeVars, Active
  <2> QED BY <2>1, <2>2 DEF Wakes, Awake, Awaited
<1>10. ASSUME NEW j \in Jobs, RunJob(j) PROVE pump'.pc = "scan" /\ pump'.again = pump.again
  BY <1>10 DEF RunJob, TypeOK, Passes
<1>11. ASSUME NEW j \in Jobs, NEW r \in Slots, RunJobStarts(j, r) PROVE Wakes'
  <2>1. Active' # {}
    BY <1>11 DEF RunJobStarts, Set, Active, InProcess, TypeOK
  <2> QED BY <1>10, <1>11, <2>1 DEF RunJobStarts, Wakes, Awake
<1>12. ASSUME NEW j \in Jobs, RunJobNeedsToken(j) PROVE Wakes'
  \* The token went after the pass had looked: the call asked for another pass.
  <2>1. pump.again
    BY <1>0, <1>12 DEF RunJobNeedsToken, RunJob, Wakes
  <2> QED BY <1>10, <1>12, <2>1 DEF RunJobNeedsToken, Wakes, Awake
<1>13. ASSUME NEW j \in Jobs, NEW b \in BOOLEAN, RunJobFails(j, b) PROVE Wakes'
  \* The folder is locked: another job is in process, and goes on to be.
  <2>1. Writers(Dir[j]) # {}
    BY <1>13 DEF RunJobFails, Locked
  <2>2. PICK x \in Runs : step[x] = "engine"
    BY <1>0, <2>1 DEF Writers, Restarts
  <2>3. PICK k \in Jobs, r \in Slots : x = <<k, r>>
    BY DEF Runs
  <2>4. k \in Active
    BY <2>2, <2>3 DEF QueueInv, NoZombieRun, Active
  <2>5. k # j
    BY <1>1, <1>13, <2>4 DEF RunJobFails, RunJob
  <2>6. k \in Active'
    BY <1>13, <2>4, <2>5 DEF RunJobFails, HandleFailure, Set, Active, TypeOK
  <2> QED BY <1>10, <1>13, <2>6 DEF RunJobFails, Wakes, Awake
<1> QED BY <1>2, <1>3, <1>4, <1>5, <1>6, <1>7, <1>8, <1>9, <1>11, <1>12, <1>13 DEF Pump

LEMMA WakesStep ==
  ASSUME TypeOK, QueueInv, Restarts, Wakes, [Next]_vars,
         ~SlowStop, ~EarlyCalls, ~StartMayFail
  PROVE  Wakes'
<1>1. CASE UNCHANGED vars
  BY <1>1, QuietWakes DEF vars, jobVars, timeVars, lifeVars, Active
<1>2. CASE Pump
  BY <1>2, PumpWakes
<1>3. ASSUME NEW j \in Jobs, NEW r \in Slots, RunStep(j, r) PROVE Wakes'
  <2>1. CASE \/ StoppedForPause(j, r) \/ VerifyCancelled(j, r) \/ Registered(j, r)
             \/ \E b \in BOOLEAN : ExitFailed(j, r, b) \/ VerifyFailed(j, r, b)
    BY <2>1, ScheduleWakes DEF StoppedForPause, VerifyCancelled, Registered, ExitFailed,
       VerifyFailed, RunEnds
  <2>2. CASE Stall(j, r) \/ ExitCancelled(j, r) \/ VerifyOk(j, r)
    BY <2>2, QuietWakes DEF Stall, ExitCancelled, VerifyOk, jobVars, timeVars, lifeVars, Active
  <2>3. CASE ExitOk(j, r)
    <3>1. Active \subseteq Active' /\ \A k \in Jobs : state'[k] \in Runnable => state[k] \in Runnable
      BY <2>3 DEF ExitOk, Set, Active, InProcess, Runnable, TypeOK
    <3> QED BY <2>3, <3>1, QuietWakes DEF ExitOk, timeVars, lifeVars
  <2> QED BY <1>3, <2>1, <2>2, <2>3 DEF RunStep
<1>4. CASE ApiCall
  <2>1. CASE Reprioritise
    BY <2>1, ScheduleWakes DEF Reprioritise
  <2>2. ASSUME NEW j \in Jobs, EnqueueCheck(j) \/ EnqueueRefused(j) PROVE Wakes'
    BY <2>2, QuietWakes DEF EnqueueCheck, EnqueueRefused, jobVars, timeVars, lifeVars, Active
  <2>3. ASSUME NEW j \in Jobs, EnqueuePush(j) \/ Retry(j) PROVE Wakes'
    BY <2>3, ScheduleWakes DEF EnqueuePush, Retry
  <2>4. ASSUME NEW j \in Jobs, Pause(j) \/ Cancel(j) PROVE Wakes'
    <3>1. CASE current[j] = 0
      BY <2>4, <3>1, ScheduleWakes DEF Pause, Cancel
    <3>2. CASE current[j] # 0
      BY <2>4, <3>2, QuietWakes DEF Pause, Cancel, lifeVars, Active
    <3> QED BY <3>1, <3>2
  <2>5. ASSUME NEW j \in Jobs, Remove(j) PROVE Wakes'
    <3>1. Active \subseteq Active' /\ \A k \in Jobs : state'[k] \in Runnable => state[k] \in Runnable
      BY <2>5 DEF Remove, Set, Active, InProcess, Runnable, Terminal, TypeOK
    <3> QED BY <2>5, <3>1, QuietWakes DEF Remove, timeVars, lifeVars
  <2>6. ASSUME NEW j \in Jobs, NEW b \in BOOLEAN, Resume(j, b) \/ StartNow(j, b) PROVE Wakes'
    <3>1. CASE Requeue(j)
      BY <3>1, ScheduleWakes DEF Requeue
    <3>2. CASE AskForToken(j)
      <4>1. Active \subseteq Active' /\ \A k \in Jobs : state'[k] \in Runnable => state[k] \in Runnable
        BY <2>6, <3>2 DEF Resume, StartNow, Resumable, AskForToken, Set, Active, InProcess,
           Runnable, TypeOK
      <4>2. lost' \subseteq lost
        BY <2>6 DEF Resume, StartNow
      <4> QED BY <3>2, <4>1, <4>2, QuietWakes DEF AskForToken, timeVars, lifeVars
    <3> QED BY <2>6, <3>1, <3>2 DEF Resume, StartNow
  <2>7. ASSUME NEW c \in calls, PauseReturns(c) \/ CancelReturns(c) PROVE Wakes'
    BY <2>7, ScheduleWakes DEF PauseReturns, CancelReturns
  <2> QED BY <1>4, <2>1, <2>2, <2>3, <2>4, <2>5, <2>6, <2>7 DEF ApiCall
<1>5. CASE RecheckFires \/ ResumeFires
  BY <1>5, ScheduleWakes DEF RecheckFires, ResumeFires
<1>6. ASSUME NEW j \in Jobs, RetryFires(j) PROVE Wakes'
  <2>1. CASE state[j] = "retrying"
    BY <1>6, <2>1, ScheduleWakes DEF RetryFires
  <2>2. CASE state[j] # "retrying"
    BY <1>6, <2>2, QuietWakes DEF RetryFires, lifeVars, Active
  <2> QED BY <2>1, <2>2
<1>7. CASE Crash \/ Shutdown \/ StartBegins
  BY <1>7 DEF Crash, Shutdown, StartBegins, MemoryLost, Wakes
<1>8. CASE StartEnds
  BY <1>8, ScheduleWakes DEF StartEnds
<1>9. ASSUME NEW j \in Jobs, OrphanExits(j) PROVE Wakes'
  BY <1>9, QuietWakes DEF OrphanExits, jobVars, timeVars, Active
<1> QED BY <1>1, <1>2, <1>3, <1>4, <1>5, <1>6, <1>7, <1>8, <1>9 DEF Next, Timer, Life

\* The queue never sleeps on a job that may run, whatever happens while a pass
\* waits for its probes, as long as engine.start refuses for locked folders
\* only (pumpOnce, scheduleRun).
THEOREM NoWakeupIsLost ==
  ASSUME ~SlowStop, ~EarlyCalls, ~StartMayFail
  PROVE  Spec => []NoLostWakeup
<1>1. Init => Restarts /\ Wakes
  <2> SUFFICES ASSUME Init PROVE Restarts /\ Wakes
    OBVIOUS
  <2>1. pump.pc = "idle" /\ pump.again = FALSE /\ \A j \in Jobs : state[j] \notin Runnable
    BY DEF Init, NoPass, Runnable
  <2> QED BY <2>1 DEF Init, Restarts, Wakes
<1>2. TypeOK /\ QueueInv /\ Restarts /\ Wakes /\ [Next]_vars => Restarts' /\ Wakes'
  BY RestartsStep, WakesStep
<1>3. Wakes => NoLostWakeup
  BY DEF Wakes, Awake, Awaited, NoLostWakeup
<1> QED BY <1>1, <1>2, <1>3, TypeCorrect, QueueInvariant, PTL DEF Spec

-----------------------------------------------------------------------------
(* The user's stop *)

\* A record that is not there is referred to by nothing that could bring it to
\* life, whatever is slow: an enqueue call that passed the duplicate check
\* appends a new record.
Unused(j) ==
  /\ \A r \in Slots : step[<<j, r>>] = "free"
  /\ \A c \in calls : c.job # j
  /\ j \notin pump.todo /\ pump.cand # j /\ j \notin captured
AbsentIsUnused == \A j \in Jobs : state[j] = "absent" => Unused(j)

\* Nothing but the append of an enqueue brings a record to life.
LEMMA AbsentStays ==
  ASSUME TypeOK, NEW j \in Jobs, state[j] = "absent", Unused(j), [Next]_vars
  PROVE  Unused(j)' /\ (state'[j] = "absent" \/ EnqueuePush(j))
<1> USE DEF Unused, Set, InProcess, Runnable, Terminal
<1>1. CASE Pump
  <2>1. CASE PumpBegin
    <3>1. state'[j] = "absent"
      BY <2>1 DEF PumpBegin, TypeOK
    <3>2. j \notin pump'.todo /\ pump'.cand = NoJob
      BY <2>1, <3>1 DEF PumpBegin, NoPass
    <3>3. UNCHANGED <<step, calls, captured>>
      BY <2>1 DEF PumpBegin, runVars, lifeVars
    <3> QED BY <3>1, <3>2, <3>3, QueueAssumption DEF QueueAssumption
  <2>2. CASE PumpEnd \/ PumpGateIdle \/ PumpDiskSkip
    <3>1. pump'.todo \subseteq pump.todo /\ pump'.cand \in {pump.cand, NoJob}
      <4>1. CASE PumpEnd
        BY <4>1 DEF PumpEnd, NoPass
      <4>2. CASE PumpGateIdle
        BY <4>2 DEF PumpGateIdle, TypeOK, Passes
      <4>3. CASE PumpDiskSkip
        BY <4>3 DEF PumpDiskSkip, TypeOK, Passes
      <4> QED BY <2>2, <4>1, <4>2, <4>3
    <3>2. UNCHANGED <<state, step, calls, captured>>
      BY <2>2 DEF PumpEnd, PumpGateIdle, PumpDiskSkip, jobVars, runVars, lifeVars
    <3> QED BY <3>1, <3>2, QueueAssumption DEF QueueAssumption
  <2>3. ASSUME NEW k \in Jobs, PumpSkip(k) \/ PumpNoSlot(k) \/ PumpProbe(k)
        PROVE  Unused(j)' /\ state'[j] = "absent"
    <3>1. k # j
      BY <2>3 DEF PumpSkip, PumpNoSlot, PumpProbe
    <3>2. state'[j] = state[j]
      BY <2>3, <3>1 DEF PumpSkip, PumpNoSlot, PumpProbe, jobVars, TypeOK
    <3>3. pump'.todo \subseteq pump.todo /\ pump'.cand \in {pump.cand, k}
      <4>1. CASE PumpSkip(k)
        BY <4>1 DEF PumpSkip, TypeOK, Passes
      <4>2. CASE PumpNoSlot(k)
        BY <4>2 DEF PumpNoSlot, TypeOK, Passes
      <4>3. CASE PumpProbe(k)
        <5> DEFINE pc == IF IdleOnly /\ k \notin bypass /\ ~pump.idle THEN "gate" ELSE "disk"
        <5>1. \/ pump' = [pump EXCEPT !.todo = @ \ {k}]
              \/ pump' = [pump EXCEPT !.todo = @ \ {k}, !.cand = k, !.pc = pc]
          BY <4>3 DEF PumpProbe
        <5> HIDE DEF pc
        <5>2. pump \in Passes
          BY DEF TypeOK
        <5>3. CASE pump' = [pump EXCEPT !.todo = @ \ {k}]
          BY <5>2, <5>3 DEF Passes
        <5>4. CASE pump' = [pump EXCEPT !.todo = @ \ {k}, !.cand = k, !.pc = pc]
          BY <5>2, <5>4 DEF Passes
        <5> QED BY <5>1, <5>3, <5>4
      <4> QED BY <2>3, <4>1, <4>2, <4>3
    <3> QED BY <2>3, <3>1, <3>2, <3>3
        DEF PumpSkip, PumpNoSlot, PumpProbe, runVars, lifeVars
  <2>4. CASE PumpGateBusy \/ PumpDiskShort
    <3>1. state'[j] = state[j]
      BY <2>4 DEF PumpGateBusy, PumpDiskShort, TypeOK
    <3>2. pump'.todo \subseteq pump.todo /\ pump'.cand = NoJob
      BY <2>4 DEF PumpGateBusy, PumpDiskShort, TypeOK, Passes
    <3> QED BY <2>4, <3>1, <3>2, QueueAssumption
        DEF PumpGateBusy, PumpDiskShort, runVars, lifeVars, QueueAssumption
  <2>5. ASSUME NEW k \in Jobs, RunJob(k), UNCHANGED stop,
               \/ Set(k, "downloading") \/ Set(k, "waiting/auth")
               \/ \E b \in BOOLEAN : HandleFailure(k, b),
               \A x \in Runs : x[1] # k => step'[x] = step[x]
        PROVE  Unused(j)' /\ state'[j] = "absent"
    <3>1. k # j
      BY <2>5 DEF RunJob
    <3>2. state'[j] = state[j] /\ \A r \in Slots : step'[<<j, r>>] = step[<<j, r>>]
      BY <2>5, <3>1 DEF HandleFailure, TypeOK, Runs
    <3>3. pump'.todo = pump.todo /\ pump'.cand = NoJob
      BY <2>5 DEF RunJob, TypeOK, Passes
    <3> QED BY <2>5, <3>2, <3>3, QueueAssumption DEF RunJob, lifeVars, QueueAssumption
  <2>6. ASSUME NEW k \in Jobs, NEW r \in Slots, RunJobStarts(k, r)
        PROVE  Unused(j)' /\ state'[j] = "absent"
    <3>1. \A x \in Runs : x[1] # k => step'[x] = step[x]
      BY <2>6 DEF RunJobStarts, TypeOK, Runs
    <3> QED BY <2>5, <2>6, <3>1 DEF RunJobStarts
  <2>7. ASSUME NEW k \in Jobs, RunJobNeedsToken(k) \/ \E b \in BOOLEAN : RunJobFails(k, b)
        PROVE  Unused(j)' /\ state'[j] = "absent"
    BY <2>5, <2>7 DEF RunJobNeedsToken, RunJobFails
  <2> QED BY <1>1, <2>1, <2>2, <2>3, <2>4, <2>6, <2>7 DEF Pump
<1>2. ASSUME pump' = pump \/ SchedulePump
      PROVE  (j \notin pump.todo /\ pump.cand # j)'
  BY <1>2, QueueAssumption DEF SchedulePump, Schedule, NoPass, TypeOK, Passes, QueueAssumption
<1>3. ASSUME NEW k \in Jobs, NEW r \in Slots, RunStep(k, r)
      PROVE  Unused(j)' /\ state'[j] = "absent"
  <2>1. step[<<k, r>>] # "free"
    BY <1>3 DEF RunStep, Stall, ExitCancelled, StoppedForPause, ExitFailed, ExitOk,
       VerifyCancelled, VerifyFailed, VerifyOk, Registered
  <2>2. k # j
    BY <2>1
  <2>3. pump' = pump \/ SchedulePump
    BY <1>3 DEF RunStep, Stall, ExitCancelled, StoppedForPause, ExitFailed, ExitOk,
       VerifyCancelled, VerifyFailed, VerifyOk, Registered, RunEnds
  <2>4. state'[j] = state[j] /\ captured' = captured
    BY <1>3, <2>2 DEF RunStep, Stall, ExitCancelled, StoppedForPause, ExitFailed, ExitOk,
       VerifyCancelled, VerifyFailed, VerifyOk, Registered, RunEnds, HandleFailure, jobVars,
       lifeVars, TypeOK
  <2>5. \A q \in Slots : step'[<<j, q>>] = step[<<j, q>>]
    BY <1>3, <2>2 DEF RunStep, Stall, ExitCancelled, StoppedForPause, ExitFailed, ExitOk,
       VerifyCancelled, VerifyFailed, VerifyOk, Registered, RunEnds, FinishRun, TypeOK, Runs
  <2>6. calls' = calls \/ FinishRun(k, r)
    BY <1>3 DEF RunStep, Stall, ExitCancelled, StoppedForPause, ExitFailed, ExitOk,
       VerifyCancelled, VerifyFailed, VerifyOk, Registered, RunEnds
  <2>7. \A c \in calls' : c.job # j
    BY <2>6 DEF FinishRun, TypeOK, Calls
  <2> QED BY <1>2, <2>3, <2>4, <2>5, <2>7
<1>4. CASE ApiCall
  <2>1. CASE Reprioritise
    BY <1>2, <2>1 DEF Reprioritise, jobVars, runVars, lifeVars
  <2>2. ASSUME NEW k \in Jobs, EnqueueCheck(k) \/ EnqueueRefused(k)
        PROVE  Unused(j)' /\ state'[j] = "absent"
    BY <2>2 DEF EnqueueCheck, EnqueueRefused, jobVars, runVars, lifeVars
  <2>3. ASSUME NEW k \in Jobs, EnqueuePush(k)
        PROVE  Unused(j)' /\ (state'[j] = "absent" \/ EnqueuePush(j))
    <3>1. k # j => state'[j] = "absent"
      BY <2>3 DEF EnqueuePush, TypeOK
    <3>2. Unused(j)'
      BY <1>2, <2>3 DEF EnqueuePush, runVars, lifeVars
    <3> QED BY <2>3, <3>1, <3>2
  <2>4. ASSUME NEW k \in Jobs, Pause(k) \/ Cancel(k)
        PROVE  Unused(j)' /\ state'[j] = "absent"
    <3>1. k # j
      BY <2>4 DEF Pause, Cancel
    <3>2. state'[j] = state[j] /\ UNCHANGED <<step, captured>>
          /\ (pump' = pump \/ SchedulePump)
      BY <2>4, <3>1 DEF Pause, Cancel, lifeVars, TypeOK
    <3>3. \A c \in calls' : c.job # j
      BY <2>4, <3>1 DEF Pause, Cancel, StopRun, TypeOK, Calls
    <3> QED BY <1>2, <3>2, <3>3
  <2>5. ASSUME NEW k \in Jobs, Retry(k) \/ Remove(k) \/ \E b \in BOOLEAN : Resume(k, b) \/ StartNow(k, b)
        PROVE  Unused(j)' /\ state'[j] = "absent"
    <3>1. k # j
      BY <2>5 DEF Retry, Remove, Resume, StartNow, Resumable
    <3>2. state'[j] = state[j] /\ (pump' = pump \/ SchedulePump)
      BY <2>5, <3>1 DEF Retry, Remove, Resume, StartNow, Requeue, AskForToken, TypeOK
    <3>3. UNCHANGED <<step, calls, captured>>
      BY <2>5 DEF Retry, Remove, Resume, StartNow, Requeue, AskForToken, runVars, lifeVars
    <3> QED BY <1>2, <3>2, <3>3
  <2>6. ASSUME NEW c \in calls, PauseReturns(c) \/ CancelReturns(c)
        PROVE  Unused(j)' /\ state'[j] = "absent"
    <3>1. state'[j] = state[j] /\ SchedulePump /\ UNCHANGED <<step, captured>>
          /\ calls' \subseteq calls
      BY <2>6 DEF PauseReturns, CancelReturns, runVars, lifeVars, TypeOK
    <3> QED BY <1>2, <3>1
  <2> QED BY <1>4, <2>1, <2>2, <2>3, <2>4, <2>5, <2>6 DEF ApiCall
<1>5. CASE Timer
  <2>1. (pump' = pump \/ SchedulePump) /\ state'[j] = state[j]
    BY <1>5 DEF Timer, RecheckFires, ResumeFires, RetryFires, jobVars, TypeOK
  <2>2. UNCHANGED <<step, calls, captured>>
    BY <1>5 DEF Timer, RecheckFires, ResumeFires, RetryFires, runVars, lifeVars
  <2> QED BY <1>2, <2>1, <2>2
<1>6. CASE Crash \/ Shutdown
  <2>1. Unused(j)'
    BY <1>6, QueueAssumption DEF Crash, Shutdown, MemoryLost, NoPass, Runs, QueueAssumption
  <2>2. state'[j] = state[j]
    BY <1>6 DEF Crash, Shutdown, jobVars, Active, TypeOK
  <2> QED BY <2>1, <2>2
<1>7. CASE StartBegins
  BY <1>7 DEF StartBegins, Active, runVars
<1>8. CASE StartEnds
  <2>1. state'[j] = state[j]
    BY <1>8 DEF StartEnds, TypeOK
  <2> QED BY <1>2, <1>8, <2>1 DEF StartEnds, runVars
<1>9. ASSUME NEW k \in Jobs, OrphanExits(k)
      PROVE  Unused(j)' /\ state'[j] = "absent"
  BY <1>9 DEF OrphanExits, jobVars, runVars
<1>10. CASE UNCHANGED vars
  BY <1>10 DEF vars, jobVars, runVars, lifeVars
<1> QED BY <1>1, <1>3, <1>4, <1>5, <1>6, <1>7, <1>8, <1>9, <1>10 DEF Next, Life

\* Only `remove` takes a record away.
LEMMA OnlyRemoveRemoves ==
  ASSUME TypeOK, EnteringIsAbsent, [Next]_vars,
         NEW j \in Jobs, state[j] # "absent", state'[j] = "absent"
  PROVE  Remove(j)
<1> USE DEF InProcess, Runnable, Set
<1>1. ~Pump
  <2>1. ~PumpBegin
    BY DEF PumpBegin, TypeOK
  <2>2. ~PumpEnd /\ ~PumpGateIdle /\ ~PumpDiskSkip
    BY DEF PumpEnd, PumpGateIdle, PumpDiskSkip, jobVars
  <2>3. ASSUME NEW k \in Jobs PROVE ~PumpSkip(k) /\ ~PumpNoSlot(k) /\ ~PumpProbe(k)
    BY DEF PumpSkip, PumpNoSlot, PumpProbe, jobVars, TypeOK
  <2>4. ~PumpGateBusy /\ ~PumpDiskShort
    BY DEF PumpGateBusy, PumpDiskShort, TypeOK
  <2>5. ASSUME NEW k \in Jobs,
               \/ Set(k, "downloading") \/ Set(k, "waiting/auth")
               \/ \E b \in BOOLEAN : HandleFailure(k, b)
        PROVE  FALSE
    BY <2>5 DEF HandleFailure, TypeOK
  <2> QED BY <2>1, <2>2, <2>3, <2>4, <2>5 DEF Pump, RunJobStarts, RunJobNeedsToken, RunJobFails
<1>2. ASSUME NEW k \in Jobs, NEW r \in Slots PROVE ~RunStep(k, r)
  BY DEF RunStep, Stall, ExitCancelled, StoppedForPause, ExitFailed,
     ExitOk, VerifyCancelled, VerifyFailed, VerifyOk, Registered, HandleFailure, jobVars, TypeOK
<1>3. CASE ApiCall
  <2>1. ~Reprioritise
    BY DEF Reprioritise, jobVars
  <2>2. ASSUME NEW k \in Jobs
        PROVE  /\ ~EnqueueCheck(k) /\ ~EnqueueRefused(k) /\ ~EnqueuePush(k)
               /\ ~Pause(k) /\ ~Cancel(k) /\ ~Retry(k)
               /\ \A b \in BOOLEAN : ~Resume(k, b) /\ ~StartNow(k, b)
    BY DEF EnqueueCheck, EnqueueRefused, EnqueuePush, Pause, Cancel, Retry, Resume, StartNow,
       Requeue, AskForToken, jobVars, TypeOK
  <2>3. ASSUME NEW c \in calls PROVE ~PauseReturns(c) /\ ~CancelReturns(c)
    BY DEF PauseReturns, CancelReturns, TypeOK
  <2>4. ASSUME NEW k \in Jobs, Remove(k) PROVE k = j
    BY <2>4 DEF Remove, TypeOK
  <2> QED BY <1>3, <2>1, <2>2, <2>3, <2>4 DEF ApiCall
<1>4. ~Timer
  BY DEF Timer, RecheckFires, ResumeFires, RetryFires, jobVars, TypeOK
<1>5. ~Life
  BY DEF Life, Crash, Shutdown, StartBegins, StartEnds, OrphanExits, jobVars, Active, TypeOK
<1>6. state' # state
  OBVIOUS
<1>7. Next
  BY <1>6 DEF vars, jobVars
<1> QED BY <1>1, <1>2, <1>3, <1>4, <1>5, <1>7 DEF Next

\* The calls past the duplicate check: one more by EnqueueCheck, one less once
\* the job is appended.
LEMMA EnteringStep ==
  ASSUME TypeOK, EnteringIsAbsent, [Next]_vars, NEW j \in entering'
  PROVE  j \in Jobs /\ state[j] = "absent" /\ ~EnqueuePush(j)
<1>1. CASE \E k \in Jobs : EnqueueCheck(k) \/ EnqueueRefused(k) \/ EnqueuePush(k)
  BY <1>1 DEF EnqueueCheck, EnqueueRefused, EnqueuePush, EnteringIsAbsent, jobVars, TypeOK
<1>2. CASE ~\E k \in Jobs : EnqueueCheck(k) \/ EnqueueRefused(k) \/ EnqueuePush(k)
  <2>1. Pump => entering' = entering
    BY DEF Pump, PumpBegin, PumpEnd, PumpSkip, PumpNoSlot, PumpProbe, PumpGateIdle,
       PumpGateBusy, PumpDiskShort, PumpDiskSkip, RunJobStarts, RunJobNeedsToken,
       RunJobFails, RunJob
  <2>2. ASSUME NEW k \in Jobs, NEW r \in Slots, RunStep(k, r) PROVE entering' = entering
    BY <2>2 DEF RunStep, Stall, ExitCancelled, StoppedForPause, ExitFailed, ExitOk,
       VerifyCancelled, VerifyFailed, VerifyOk, Registered, RunEnds
  <2>3. ApiCall => entering' = entering
    BY <1>2 DEF ApiCall, Reprioritise, Pause, Cancel, Retry, Remove, Resume, StartNow,
       Requeue, AskForToken, PauseReturns, CancelReturns
  <2>4. Timer => entering' = entering
    BY DEF Timer, RecheckFires, ResumeFires, RetryFires
  <2>5. Life => entering' \in {entering, {}}
    BY DEF Life, Crash, Shutdown, MemoryLost, StartBegins, StartEnds, OrphanExits
  <2>6. UNCHANGED vars => entering' = entering
    BY DEF vars
  <2>7. j \in entering
    BY <2>1, <2>2, <2>3, <2>4, <2>5, <2>6 DEF Next
  <2>8. j \in Jobs /\ state[j] = "absent"
    BY <2>7 DEF EnteringIsAbsent, TypeOK
  <2> QED BY <1>2, <2>8
<1> QED BY <1>1, <1>2

\* A job with a run, a call, a pass or a restart at work on it stays a record.
LEMMA AbsentStep ==
  ASSUME TypeOK, AbsentIsUnused, EnteringIsAbsent, [Next]_vars
  PROVE  AbsentIsUnused' /\ EnteringIsAbsent'
<1>1. ASSUME NEW j \in Jobs, state'[j] = "absent" PROVE Unused(j)'
  <2>1. CASE state[j] = "absent"
    BY <2>1, AbsentStays DEF AbsentIsUnused
  <2>2. CASE state[j] # "absent"
    BY <1>1, <2>2, OnlyRemoveRemoves DEF Remove, Unused, runVars, lifeVars
  <2> QED BY <2>1, <2>2
<1>2. ASSUME NEW j \in entering' PROVE state'[j] = "absent"
  <2>1. j \in Jobs /\ state[j] = "absent" /\ ~EnqueuePush(j)
    BY EnteringStep
  <2> QED BY <2>1, AbsentStays DEF AbsentIsUnused
<1> QED BY <1>1, <1>2 DEF AbsentIsUnused, EnteringIsAbsent

\* A step that takes a job out of "paused" or "cancelled" is the user's, or one
\* of the three that UserStopHolds names.
LEMMA UserStep ==
  ASSUME TypeOK, EnteringIsAbsent, [Next]_vars,
         NEW j \in Jobs, state[j] \in {"paused", "cancelled"}, state'[j] # state[j]
  PROVE  UserCall(j) \/ ProbeOverrules(j) \/ StartInterrupts(j) \/ LateRun(j)
<1> USE DEF InProcess, Runnable, Set
<1>1. CASE Pump
  <2>1. CASE PumpBegin
    BY <2>1 DEF PumpBegin, TypeOK
  <2>2. CASE PumpEnd \/ PumpGateIdle \/ PumpDiskSkip
    BY <2>2 DEF PumpEnd, PumpGateIdle, PumpDiskSkip, jobVars
  <2>3. ASSUME NEW k \in Jobs, PumpSkip(k) \/ PumpNoSlot(k) \/ PumpProbe(k) PROVE FALSE
    BY <2>3 DEF PumpSkip, PumpNoSlot, PumpProbe, jobVars, TypeOK
  <2>4. CASE PumpGateBusy \/ PumpDiskShort
    BY <2>4 DEF PumpGateBusy, PumpDiskShort, ProbeOverrules, TypeOK
  <2>5. ASSUME NEW k \in Jobs, RunJob(k),
               \/ Set(k, "downloading") \/ Set(k, "waiting/auth")
               \/ \E b \in BOOLEAN : HandleFailure(k, b)
        PROVE  FALSE
    BY <2>5 DEF RunJob, HandleFailure, TypeOK
  <2> QED BY <1>1, <2>1, <2>2, <2>3, <2>4, <2>5
      DEF Pump, RunJobStarts, RunJobNeedsToken, RunJobFails
<1>2. ASSUME NEW k \in Jobs, NEW r \in Slots, RunStep(k, r) PROVE LateRun(j)
  <2>1. CASE k = j
    BY <1>2, <2>1 DEF LateRun
  <2>2. CASE k # j
    BY <1>2, <2>2 DEF RunStep, Stall, ExitCancelled, StoppedForPause, ExitFailed,
       ExitOk, VerifyCancelled, VerifyFailed, VerifyOk, Registered, HandleFailure,
       jobVars, TypeOK
  <2> QED BY <2>1, <2>2
<1>3. CASE ApiCall
  <2>1. CASE Reprioritise
    BY <2>1 DEF Reprioritise, jobVars
  <2>2. ASSUME NEW k \in Jobs, EnqueueCheck(k) \/ EnqueueRefused(k) \/ EnqueuePush(k)
        PROVE  FALSE
    BY <2>2 DEF EnqueueCheck, EnqueueRefused, EnqueuePush, jobVars,
       EnteringIsAbsent, TypeOK
  <2>3. ASSUME NEW k \in Jobs, Pause(k) \/ Cancel(k) \/ Retry(k) \/ Remove(k)
        PROVE  UserCall(j)
    <3>1. \A m \in Jobs \ {k} : state'[m] = state[m]
      BY <2>3 DEF Pause, Cancel, Retry, Remove, TypeOK
    <3>2. k = j
      BY <3>1
    <3>3. ~Pause(k)
      BY <3>2 DEF Pause, Terminal
    <3> QED BY <2>3, <3>2, <3>3 DEF UserCall
  <2>4. ASSUME NEW k \in Jobs, NEW b \in BOOLEAN, Resume(k, b) \/ StartNow(k, b)
        PROVE  UserCall(j)
    <3>1. \A m \in Jobs \ {k} : state'[m] = state[m]
      BY <2>4 DEF Resume, StartNow, Requeue, AskForToken, TypeOK
    <3> QED BY <2>4, <3>1 DEF UserCall
  <2>5. ASSUME NEW c \in calls, PauseReturns(c) \/ CancelReturns(c)
        PROVE  UserCall(j)
    <3>1. \A m \in Jobs \ {c.job} : state'[m] = state[m]
      BY <2>5 DEF PauseReturns, CancelReturns, TypeOK
    <3> QED BY <2>5, <3>1 DEF UserCall
  <2> QED BY <1>3, <2>1, <2>2, <2>3, <2>4, <2>5 DEF ApiCall
<1>4. CASE Timer
  BY <1>4 DEF Timer, RecheckFires, ResumeFires, RetryFires, jobVars, TypeOK
<1>5. CASE Life
  <2>1. CASE StartEnds
    BY <2>1 DEF StartEnds, StartInterrupts, TypeOK
  <2>2. CASE ~StartEnds
    BY <1>5, <2>2 DEF Life, Crash, Shutdown, StartBegins, OrphanExits, jobVars, Active, TypeOK
  <2> QED BY <2>1, <2>2
<1>6. CASE UNCHANGED vars
  BY <1>6 DEF vars, jobVars
<1> QED BY <1>1, <1>2, <1>3, <1>4, <1>5, <1>6 DEF Next

\* However slow probes and stops are, and whatever is called while start() still
\* waits: but for the answer of a probe asked before the stop, the end of a
\* start() that began before the stop, and a run that stopRun gave up, nothing
\* takes a job out of "paused" or "cancelled" without the user (pumpOnce,
\* onEngineExit, armRetry, start).
THEOREM UsersStopHolds == Spec => UserStopHolds
<1>1. Init => AbsentIsUnused /\ EnteringIsAbsent
  <2> SUFFICES ASSUME Init PROVE AbsentIsUnused /\ EnteringIsAbsent
    OBVIOUS
  <2> QED BY QueueAssumption
      DEF Init, NoPass, Runs, AbsentIsUnused, Unused, EnteringIsAbsent, QueueAssumption
<1>2. TypeOK /\ AbsentIsUnused /\ EnteringIsAbsent /\ [Next]_vars
      => AbsentIsUnused' /\ EnteringIsAbsent'
  BY AbsentStep
<1>3. TypeOK /\ EnteringIsAbsent /\ [Next]_vars
      => [\A j \in Jobs : state[j] \in {"paused", "cancelled"} /\ state'[j] # state[j]
            => UserCall(j) \/ ProbeOverrules(j) \/ StartInterrupts(j) \/ LateRun(j)]_vars
  BY UserStep
<1> QED BY <1>1, <1>2, <1>3, TypeCorrect, PTL DEF Spec, UserStopHolds

\* While stops end within stopWaitMs and no call is served during start(), the
\* answer of a probe is the only one of the three: no run is late, and start()
\* interrupts no job the user stopped (onEngineExit, start).
THEOREM OnlyAProbeOverrules ==
  ASSUME ~SlowStop, ~EarlyCalls
  PROVE  Spec => [][\A j \in Jobs :
                      state[j] \in {"paused", "cancelled"} /\ state'[j] # state[j]
                      => UserCall(j) \/ ProbeOverrules(j)]_vars
<1>1. Init => Restarts
  BY DEF Init, Restarts
<1>2. TypeOK /\ QueueInv /\ Restarts /\ [Next]_vars => Restarts'
  BY RestartsStep
<1>3. ASSUME TypeOK, QueueInv, Restarts, [Next]_vars,
             NEW j \in Jobs, state[j] \in {"paused", "cancelled"}, state'[j] # state[j]
      PROVE  UserCall(j) \/ ProbeOverrules(j)
  <2>1. ~LateRun(j)
    <3>1. \A r \in Slots : step[<<j, r>>] = "free"
      BY <1>3 DEF QueueInv, NoZombieRun, InProcess
    <3> QED BY <3>1 DEF LateRun, RunStep, Stall, ExitCancelled, StoppedForPause, ExitFailed,
        ExitOk, VerifyCancelled, VerifyFailed, VerifyOk, Registered
  <2>2. ~StartInterrupts(j)
    BY <1>3 DEF StartInterrupts, StartEnds, Restarts, Active, InProcess
  <2>3. EnteringIsAbsent
    BY <1>3 DEF QueueInv
  <2> QED BY <1>3, <2>1, <2>2, <2>3, UserStep
<1>4. TypeOK /\ QueueInv /\ Restarts /\ [Next]_vars
      => [\A j \in Jobs : state[j] \in {"paused", "cancelled"} /\ state'[j] # state[j]
            => UserCall(j) \/ ProbeOverrules(j)]_vars
  BY <1>3
<1> QED BY <1>1, <1>2, <1>4, TypeCorrect, QueueInvariant, PTL DEF Spec
=============================================================================
