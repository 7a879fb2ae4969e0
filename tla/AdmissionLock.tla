---------------------------- MODULE AdmissionLock ----------------------------
(***************************************************************************)
(* The host-wide lock of GPU admission, manager-core/gpu-admission.js:     *)
(* acquireAdmissionDirectoryLock and retireAdmissionLock.  The lock is a   *)
(* directory, admission.lock, with a file owner.json that names a token    *)
(* and a pid.  Managers are separate processes; they exclude each other    *)
(* with nothing but mkdir, rename and rmdir, one call after the other, and *)
(* any of them may die between two calls.                                  *)
(*                                                                         *)
(* Every call of acquire draws a fresh token, so a client of this module   *)
(* IS a token: it acquires and releases once.  A restarted manager is a    *)
(* new process with new clients.  A pid that the system gives to another   *)
(* process counts as alive, as in the code: the lock then stays.           *)
(*                                                                         *)
(* The lock directory is NoOne (absent), the token in its owner.json, or   *)
(* Ownerless: there without a readable owner.                              *)
(***************************************************************************)
EXTENDS FiniteSets

CONSTANTS
  Clients,     \* calls of acquireAdmissionDirectoryLock = their tokens
  Processes,   \* managers
  Proc,        \* [Clients -> Processes]
  NoOne, Ownerless,
  Timeouts,    \* a waiting call may reach its deadline
  IoFaults,    \* a file operation may fail (full disk, sharing violation)
  CrashPoints  \* BOUND: places of a call at which its process may die

ASSUME LockAssumption ==
  /\ Proc \in [Clients -> Processes]
  /\ NoOne \notin Clients /\ Ownerless \notin Clients /\ NoOne # Ownerless
  /\ {Timeouts, IoFaults} \subseteq BOOLEAN

VARIABLES
  lock,     \* the lock directory
  stale,    \* its mtime is older than staleMs
  claims,   \* tokens with a retire-claim directory
  pc,       \* where each call is: its next file operation
  target,   \* the token a call retires: its own when it releases
  moved,    \* what its rename moved away
  alive     \* the processes that run

vars == <<lock, stale, claims, pc, target, moved, alive>>

Places == {"idle", "mkdir", "write", "look", "held", "release",
           "claim", "check", "rename", "unclaim", "ended", "dead"}

TypeOK ==
  /\ lock \in Clients \cup {NoOne, Ownerless} /\ stale \in BOOLEAN
  /\ claims \subseteq Clients
  /\ pc \in [Clients -> Places]
  /\ target \in [Clients -> Clients \cup {NoOne}]
  /\ moved \in [Clients -> Clients \cup {NoOne, Ownerless}]
  /\ alive \subseteq Processes

Init ==
  /\ lock = NoOne /\ stale = FALSE /\ claims = {}
  /\ pc = [c \in Clients |-> "idle"]
  /\ target = [c \in Clients |-> NoOne] /\ moved = [c \in Clients |-> NoOne]
  /\ alive = Processes

-----------------------------------------------------------------------------
(* acquireAdmissionDirectoryLock *)

Goto(c, place) == pc' = [pc EXCEPT ![c] = place]

Call(c) ==
  /\ pc[c] = "idle" /\ Goto(c, "mkdir")
  /\ UNCHANGED <<lock, stale, claims, target, moved, alive>>

\* mkdir: one caller makes the directory, the others get EEXIST; any other
\* error ends the call.
MakeDir(c) ==
  /\ pc[c] = "mkdir"
  /\ \/ lock = NoOne /\ lock' = Ownerless /\ stale' = FALSE /\ Goto(c, "write")
     \/ lock # NoOne /\ UNCHANGED <<lock, stale>> /\ Goto(c, "look")
     \/ IoFaults /\ UNCHANGED <<lock, stale>> /\ Goto(c, "ended")
  /\ UNCHANGED <<claims, target, moved, alive>>

\* owner.json is written with flag "wx": never over another one.
WriteOwner(c) ==
  /\ pc[c] = "write" /\ lock = Ownerless
  /\ lock' = c /\ Goto(c, "held")
  /\ UNCHANGED <<stale, claims, target, moved, alive>>

\* The write fails and the call throws.  rmdir removes the directory unless
\* the failed write left a file in it.
WriteOwnerFails(c) ==
  /\ pc[c] = "write" /\ IoFaults
  /\ lock' \in {NoOne, Ownerless} /\ stale' = (stale /\ lock' # NoOne)
  /\ Goto(c, "ended")
  /\ UNCHANGED <<claims, target, moved, alive>>

\* A waiting call that did not free the lock pauses and tries again, or
\* reaches its deadline.
TryAgain(c) == \/ Goto(c, "mkdir")
               \/ Timeouts /\ Goto(c, "ended")

\* MUTANTS: age alone makes an orphan; the age is compared the wrong way; a
\* lock without an owner is an orphan too.
Orphaned_AnyOld == stale /\ lock \in Clients
Orphaned_Fresh == ~stale /\ lock \in Clients /\ Proc[lock] \notin alive
Orphaned_NoToken ==
  stale /\ lock # NoOne /\ (lock = Ownerless \/ Proc[lock] \notin alive)
\* The lock is an orphan: old, with a readable owner that does not run.
Orphaned == stale /\ lock \in Clients /\ Proc[lock] \notin alive

\* After EEXIST: look at the age, the owner and the owner's process.
ReadOwner(c) ==
  /\ pc[c] = "look"
  /\ \/ Orphaned /\ target' = [target EXCEPT ![c] = lock] /\ Goto(c, "claim")
     \/ ~Orphaned /\ UNCHANGED target /\ TryAgain(c)
     \/ IoFaults /\ UNCHANGED target /\ TryAgain(c)
  /\ UNCHANGED <<lock, stale, claims, moved, alive>>

\* The holder is done; release() reads owner.json and retires its own lock.
Leave(c) ==
  /\ pc[c] = "held" /\ Goto(c, "release")
  /\ UNCHANGED <<lock, stale, claims, target, moved, alive>>

Release(c) ==
  /\ pc[c] = "release"
  /\ \/ lock = c /\ target' = [target EXCEPT ![c] = c] /\ Goto(c, "claim")
     \/ (lock # c \/ IoFaults) /\ UNCHANGED target /\ Goto(c, "ended")
  /\ UNCHANGED <<lock, stale, claims, moved, alive>>

\* The holder's heartbeat touches the directory; without it the lock ages,
\* and so it does while the holder's event loop is busy.
Heartbeat(c) ==
  /\ pc[c] = "held" /\ lock = c /\ stale /\ stale' = FALSE
  /\ UNCHANGED <<lock, claims, pc, target, moved, alive>>

GoesStale ==
  /\ lock # NoOne /\ ~stale /\ stale' = TRUE
  /\ UNCHANGED <<lock, claims, pc, target, moved, alive>>

-----------------------------------------------------------------------------
(* retireAdmissionLock: claim the token, look again, rename, clean up *)

\* Back in the caller: release() is done, a waiting call tries again.
Return(c, retired) ==
  /\ target' = [target EXCEPT ![c] = NoOne]
  /\ moved' = [moved EXCEPT ![c] = NoOne]
  /\ \/ target[c] = c /\ Goto(c, "ended")
     \/ target[c] # c /\ retired /\ Goto(c, "mkdir")
     \/ target[c] # c /\ ~retired /\ TryAgain(c)

\* MUTANT: a claim that is already there counts as one's own.
MakeClaim_Shared(c) ==
  /\ pc[c] = "claim"
  /\ claims' = claims \cup {target[c]} /\ Goto(c, "check")
  /\ UNCHANGED <<lock, stale, target, moved, alive>>
\* One call at a time retires a token: the others get EEXIST.
MakeClaim(c) ==
  /\ pc[c] = "claim"
  /\ \/ /\ target[c] \notin claims
        /\ claims' = claims \cup {target[c]} /\ Goto(c, "check")
        /\ UNCHANGED <<target, moved>>
     \/ (target[c] \in claims \/ IoFaults) /\ UNCHANGED claims /\ Return(c, FALSE)
  /\ UNCHANGED <<lock, stale, alive>>

\* MUTANT: the owner read before the claim is trusted.
CheckOwner_Skipped(c) ==
  /\ pc[c] = "check" /\ Goto(c, "rename")
  /\ UNCHANGED <<lock, stale, claims, target, moved, alive>>
\* The owner is read again: only the claimed token goes on.
CheckOwner(c) ==
  /\ pc[c] = "check"
  /\ \/ lock = target[c] /\ Goto(c, "rename")
     \/ (lock # target[c] \/ IoFaults) /\ Goto(c, "unclaim")
  /\ UNCHANGED <<lock, stale, claims, target, moved, alive>>

\* rename moves whatever directory is there by now.
Rename(c) ==
  /\ pc[c] = "rename" /\ Goto(c, "unclaim")
  /\ \/ /\ lock # NoOne
        /\ moved' = [moved EXCEPT ![c] = lock] /\ lock' = NoOne /\ stale' = FALSE
     \/ (lock = NoOne \/ IoFaults) /\ UNCHANGED <<lock, stale, moved>>
  /\ UNCHANGED <<claims, target, alive>>

\* The moved owner is compared and deleted, the claim removed.
Unclaim(c) ==
  /\ pc[c] = "unclaim"
  /\ claims' = claims \ {target[c]} \/ (IoFaults /\ UNCHANGED claims)
  /\ Return(c, moved[c] = target[c]) \/ (IoFaults /\ Return(c, FALSE))
  /\ UNCHANGED <<lock, stale, alive>>

-----------------------------------------------------------------------------
\* A process dies: its directories stay.
Crash(p) ==
  /\ p \in alive /\ \A c \in Clients : Proc[c] = p => pc[c] \in CrashPoints
  /\ alive' = alive \ {p}
  /\ pc' = [c \in Clients |-> IF Proc[c] = p THEN "dead" ELSE pc[c]]
  /\ target' = [c \in Clients |-> IF Proc[c] = p THEN NoOne ELSE target[c]]
  /\ moved' = [c \in Clients |-> IF Proc[c] = p THEN NoOne ELSE moved[c]]
  /\ UNCHANGED <<lock, stale, claims>>

Step(c) ==
  \/ MakeDir(c) \/ WriteOwner(c) \/ WriteOwnerFails(c) \/ ReadOwner(c)
  \/ Leave(c) \/ Release(c)
  \/ MakeClaim(c) \/ CheckOwner(c) \/ Rename(c) \/ Unclaim(c)

Next == \/ \E c \in Clients : Call(c) \/ Step(c) \/ Heartbeat(c)
        \/ GoesStale
        \/ \E p \in Processes : Crash(p)

Spec == Init /\ [][Next]_vars

\* A call that runs takes its next step, an orphaned lock ages, and a file
\* operation that calls try again and again does not fail for ever.
Fairness ==
  /\ \A c \in Clients : WF_vars(Step(c))
  /\ WF_vars(GoesStale)
  /\ SF_vars(\E c \in Clients : ReadOwner(c) /\ pc'[c] = "claim")
  /\ SF_vars(\E c \in Clients : MakeClaim(c) /\ pc'[c] = "check")
  /\ SF_vars(\E c \in Clients : CheckOwner(c) /\ pc'[c] = "rename")
  /\ SF_vars(\E c \in Clients : Rename(c) /\ lock' = NoOne)
FairSpec == Spec /\ Fairness

-----------------------------------------------------------------------------
(* Properties *)

\* Two managers are never inside together: a lease is decided and written
\* under this lock, and a replacement stops its old container under it.
MutualExclusion ==
  \A c, d \in Clients : pc[c] = "held" /\ pc[d] = "held" => c = d

\* What a call moves away is the lock it claimed, never a successor's: the
\* error GPU_ADMISSION_LOCK_IDENTITY_CHANGED cannot occur, however many
\* managers noticed the same dead owner.
RetiresWhatItClaimed == \A c \in Clients : moved[c] \in {NoOne, target[c]}

\* Why: the inductive invariant behind the two.
Retiring == {"claim", "check", "rename", "unclaim"}
Claiming == {"check", "rename", "unclaim"}

\* A call is dead exactly if its process is.
CallsDieWithProcess == \A c \in Clients : pc[c] = "dead" <=> Proc[c] \notin alive
\* A half-made directory has one maker.
OneMaker == \A c \in Clients : pc[c] = "write" =>
              lock = Ownerless /\ \A d \in Clients : pc[d] = "write" => d = c
\* A holder owns the directory until it renames it.
HolderOwns == \A c \in Clients : pc[c] \in {"held", "release"} => lock = c
\* A token is retired by its own call or after its process died.
RetiresTheDead == \A c \in Clients :
  IF pc[c] \in Retiring
  THEN target[c] \in Clients /\ (target[c] = c \/ Proc[target[c]] \notin alive)
  ELSE target[c] = NoOne
\* A retire claim belongs to one call.
OneClaimant == \A c \in Clients : pc[c] \in Claiming =>
  /\ target[c] \in claims
  /\ \A d \in Clients : pc[d] \in Claiming /\ target[d] = target[c] => d = c
\* Between the second look and the rename nobody else can free the lock.
RenamesItsTarget == \A c \in Clients : pc[c] = "rename" => lock = target[c]
MovedItsTarget == \A c \in Clients :
  moved[c] # NoOne => pc[c] = "unclaim" /\ moved[c] = target[c]

LockInv ==
  /\ CallsDieWithProcess /\ OneMaker /\ HolderOwns /\ RetiresTheDead
  /\ OneClaimant /\ RenamesItsTarget /\ MovedItsTarget

\* The directories implement the mutex: the lock passes on only after its
\* holder left or died.
HolderOf == IF lock \in Clients THEN lock ELSE NoOne
Inside == {c \in Clients : pc[c] = "held"}
Abstract == INSTANCE Mutex WITH holder <- HolderOf, inside <- Inside, live <- alive
ImplementsMutex == Abstract!Spec

\* A lock nobody will ever retire: made by a call that died or failed before
\* its name was in it; of a holder that runs but could not release it; or of a
\* dead holder with the retire claim of another call that died.
Wreck ==
  \/ lock = Ownerless /\ \A c \in Clients : pc[c] # "write"
  \/ lock \in Clients /\ pc[lock] = "ended"
  \/ lock \in claims /\ \A c \in Clients : pc[c] \in Claiming => target[c] # lock

\* The call wants the lock and has neither got it nor given up.
Waits(c) == \/ pc[c] \in {"mkdir", "look"}
            \/ pc[c] \in Retiring /\ target[c] # c

\* Whoever dies while waiting, holding or about to retire the lock, and
\* whatever file operation fails: a call waits for ever only beside a wreck.
\* In every other case somebody finds and retires the orphan.
OnlyAWreckBlocks == \A c \in Clients : <>[]Waits(c) => <>[]Wreck
==============================================================================
