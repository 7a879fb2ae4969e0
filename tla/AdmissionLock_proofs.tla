------------------------- MODULE AdmissionLock_proofs -------------------------
(***************************************************************************)
(* Proofs about AdmissionLock, for any number of managers, calls, crashes  *)
(* and failing file operations: mutual exclusion, that the directories     *)
(* implement Mutex, and that beside a wreck every lock can be freed.       *)
(***************************************************************************)
EXTENDS AdmissionLock, TLAPS

IInv == TypeOK /\ LockInv

\* Every lemma below is about the conjuncts of IInv.
USE LockAssumption DEF IInv, TypeOK, Places, LockInv, CallsDieWithProcess,
  OneMaker, HolderOwns, RetiresTheDead, Retiring, OneClaimant, Claiming,
  RenamesItsTarget, MovedItsTarget

LEMMA InitInv == Init => IInv
BY DEF Init

LEMMA CallInv == ASSUME IInv, NEW c \in Clients, Call(c) PROVE IInv'
BY DEF Call, Goto

LEMMA MakeDirInv == ASSUME IInv, NEW c \in Clients, MakeDir(c) PROVE IInv'
<1>1. CASE lock' = lock
  BY <1>1 DEF MakeDir, Goto
<1>2. CASE lock' # lock
  <2>1. /\ lock' = Ownerless /\ stale' = FALSE /\ pc[c] = "mkdir"
        /\ pc' = [pc EXCEPT ![c] = "write"]
        /\ UNCHANGED <<claims, target, moved, alive>>
    BY <1>2 DEF MakeDir, Goto
  <2>. lock = NoOne BY <1>2 DEF MakeDir
  \* Nobody holds, makes or is about to rename an absent directory.
  <2>2. \A d \in Clients : pc[d] \notin {"write", "held", "release", "rename"}
    OBVIOUS
  <2>3. TypeOK' BY <2>1
  <2>4. LockInv' BY <2>1, <2>2
  <2>5. QED BY <2>3, <2>4
<1>3. QED BY <1>1, <1>2

LEMMA WriteOwnerInv == ASSUME IInv, NEW c \in Clients, WriteOwner(c) PROVE IInv'
BY DEF WriteOwner, Goto

LEMMA WriteOwnerFailsInv ==
  ASSUME IInv, NEW c \in Clients, WriteOwnerFails(c) PROVE IInv'
BY DEF WriteOwnerFails, Goto

LEMMA ReadOwnerInv == ASSUME IInv, NEW c \in Clients, ReadOwner(c) PROVE IInv'
BY DEF ReadOwner, Orphaned, TryAgain, Goto

LEMMA ReleaseInv == ASSUME IInv, NEW c \in Clients, Leave(c) \/ Release(c) PROVE IInv'
BY DEF Leave, Release, Goto

LEMMA MakeClaimInv == ASSUME IInv, NEW c \in Clients, MakeClaim(c) PROVE IInv'
BY DEF MakeClaim, Return, TryAgain, Goto

LEMMA CheckOwnerInv == ASSUME IInv, NEW c \in Clients, CheckOwner(c) PROVE IInv'
BY DEF CheckOwner, Goto

LEMMA RenameInv == ASSUME IInv, NEW c \in Clients, Rename(c) PROVE IInv'
<1>1. pc[c] = "rename" /\ lock = target[c] /\ target[c] \in Clients
  BY DEF Rename
<1>2. /\ pc' = [pc EXCEPT ![c] = "unclaim"]
      /\ UNCHANGED <<claims, target, alive>>
  BY DEF Rename, Goto
<1>3. CASE UNCHANGED <<lock, stale, moved>>
  BY <1>1, <1>2, <1>3
<1>4. CASE lock' = NoOne /\ stale' = FALSE /\ moved' = [moved EXCEPT ![c] = lock]
  \* The lock was claimed by this call alone and its owner is done with it.
  <2>1. \A d \in Clients : d # c => pc[d] # "rename"
    BY <1>1
  <2>2. \A d \in Clients : pc[d] \notin {"write", "held", "release"}
    BY <1>1
  <2>3. TypeOK' BY <1>1, <1>2, <1>4
  <2>4. LockInv' BY <1>1, <1>2, <1>4, <2>1, <2>2
  <2>5. QED BY <2>3, <2>4
<1>5. QED BY <1>3, <1>4 DEF Rename

LEMMA UnclaimInv == ASSUME IInv, NEW c \in Clients, Unclaim(c) PROVE IInv'
BY DEF Unclaim, Return, TryAgain, Goto

LEMMA AgeInv == ASSUME IInv, (\E c \in Clients : Heartbeat(c)) \/ GoesStale PROVE IInv'
BY ZenonT(60) DEF Heartbeat, GoesStale

LEMMA CrashInv == ASSUME IInv, NEW p \in Processes, Crash(p) PROVE IInv'
BY DEF Crash

\* The invariant holds in every state the managers can reach.
LEMMA Invariance == Spec => []IInv
<1>1. IInv /\ [Next]_vars => IInv'
  <2> SUFFICES ASSUME IInv, [Next]_vars PROVE IInv'
    OBVIOUS
  <2>1. CASE UNCHANGED vars
    BY <2>1 DEF vars
  <2>2. ASSUME NEW c \in Clients, Call(c) \/ Step(c) \/ Heartbeat(c) PROVE IInv'
    BY <2>2, CallInv, MakeDirInv, WriteOwnerInv, WriteOwnerFailsInv, ReadOwnerInv,
       ReleaseInv, MakeClaimInv, CheckOwnerInv, RenameInv, UnclaimInv, AgeInv, Zenon
       DEF Step
  <2>3. CASE GoesStale \/ \E p \in Processes : Crash(p)
    BY <2>3, AgeInv, CrashInv, Zenon
  <2>4. QED BY <2>1, <2>2, <2>3, Zenon DEF Next
<1>2. QED
  BY InitInv, <1>1, PTL DEF Spec

-----------------------------------------------------------------------------

\* Every variable keeps its type.
THEOREM LockTypeCorrect == Spec => []TypeOK
<1>1. IInv => TypeOK OBVIOUS
<1>2. QED BY Invariance, <1>1, PTL

\* What every retirement relies on, between any two file operations of any
\* call: a claim has one owner, and what it is about to rename is its target.
THEOREM LockInvariant == Spec => []LockInv
<1>1. IInv => LockInv OBVIOUS
<1>2. QED BY Invariance, <1>1, PTL

\* At most one call is inside, whoever crashes wherever, for any number of
\* managers: the holder owns the one directory.
THEOREM MutuallyExclusive == Spec => []MutualExclusion
<1>1. IInv => MutualExclusion BY DEF MutualExclusion
<1>2. QED BY Invariance, <1>1, PTL

\* The rename in retireAdmissionLock never moves a successor's lock: the
\* identity error is unreachable.
THEOREM IdentityKept == Spec => []RetiresWhatItClaimed
<1>1. IInv => RetiresWhatItClaimed BY DEF RetiresWhatItClaimed
<1>2. QED BY Invariance, <1>1, PTL

\* The directories implement the abstract lock: WriteOwner enters, Leave
\* leaves, the rename frees, a crash is a death, all else is invisible.
THEOREM LockRefinement == Spec => ImplementsMutex
<1> USE DEF HolderOf, Inside
<1>1. Init => Abstract!Init
  BY DEF Init, Abstract!Init
<1>2. IInv /\ [Next]_vars => [Abstract!Next]_<<HolderOf, Inside, alive>>
  <2> SUFFICES ASSUME IInv, [Next]_vars
               PROVE [Abstract!Next]_<<HolderOf, Inside, alive>>
    OBVIOUS
  <2> DEFINE Stutter == UNCHANGED <<HolderOf, Inside, alive>>
  <2>1. CASE UNCHANGED vars
    BY <2>1 DEF vars
  <2>2. ASSUME NEW c \in Clients, Call(c) \/ MakeDir(c) \/ WriteOwnerFails(c)
        PROVE Stutter
    BY <2>2 DEF Call, MakeDir, WriteOwnerFails, Goto
  <2>3. ASSUME NEW c \in Clients, WriteOwner(c) PROVE Abstract!Enter(c)
    BY <2>3 DEF WriteOwner, Goto, Abstract!Enter
  <2>4. ASSUME NEW c \in Clients, ReadOwner(c) \/ Release(c) PROVE Stutter
    BY <2>4 DEF ReadOwner, Release, TryAgain, Goto
  <2>5. ASSUME NEW c \in Clients, Leave(c) PROVE Abstract!Leave(c)
    BY <2>5 DEF Leave, Goto, Abstract!Leave
  <2>6. ASSUME NEW c \in Clients, MakeClaim(c) \/ CheckOwner(c) \/ Unclaim(c)
        PROVE Stutter
    BY <2>6 DEF MakeClaim, CheckOwner, Unclaim, Return, TryAgain, Goto
  <2>7. ASSUME NEW c \in Clients, Rename(c) PROVE Stutter \/ Abstract!Free
    BY <2>7 DEF Rename, Goto, Abstract!Free
  <2>8. ASSUME NEW c \in Clients, Heartbeat(c) PROVE Stutter
    BY <2>8 DEF Heartbeat
  <2>9. ASSUME NEW p \in Processes, Crash(p) PROVE Abstract!Die(p)
    BY <2>9 DEF Crash, Abstract!Die
  <2>10. CASE GoesStale
    BY <2>10 DEF GoesStale
  <2>11. QED
    BY <2>1, <2>2, <2>3, <2>4, <2>5, <2>6, <2>7, <2>8, <2>9, <2>10, Zenon
       DEF Next, Step, Abstract!Next
<1>3. QED
  BY <1>1, <1>2, Invariance, PTL DEF Spec, ImplementsMutex, Abstract!Spec
-----------------------------------------------------------------------------
(* Somebody can free the lock                                                *)
(*                                                                           *)
(* That waiting calls get in at last is checked by TLC (OnlyAWreckBlocks).   *)
(* What is proved is why they are able to: beside a wreck, every lock that   *)
(* is there has a call that can take it away.                                *)

\* A call whose token is in the lock holds it, gives it up, has ended or is
\* dead: no call waits for a lock of its own.
NoLockOfItsOwn == \A c \in Clients : lock = c =>
  \/ pc[c] \in {"held", "release", "ended", "dead"}
  \/ pc[c] \in Retiring /\ target[c] = c

\* A claimed token belongs to a call that is over or retires itself.
ClaimsHaveReason == \A c \in claims :
  pc[c] \in {"ended", "dead"} \/ (pc[c] \in Claiming /\ target[c] = c)

\* Whose next steps decide about the lock: its maker, which names it or gives
\* up; its holder; a call that has claimed its token, which renames it or takes
\* the claim back; any call at all, because the holder's process is dead and
\* nobody has claimed the token; or the holder, about to claim it.
WayOut ==
  \/ \E c \in Clients : pc[c] = "write"
  \/ \E c \in Clients : lock = c /\ pc[c] \in {"held", "release"}
  \/ \E c \in Clients : pc[c] \in Claiming /\ target[c] = lock
  \/ lock \in Clients \ claims /\ Proc[lock] \notin alive
  \/ lock \in Clients \ claims /\ pc[lock] = "claim" /\ target[lock] = lock

LInv == NoLockOfItsOwn /\ ClaimsHaveReason

LEMMA ClaimStep ==
  ASSUME IInv, LInv, NEW c \in Clients, MakeClaim(c) \/ Unclaim(c) PROVE LInv'
<1> USE DEF LInv, NoLockOfItsOwn, ClaimsHaveReason
<1>1. CASE MakeClaim(c)
  <2>1. CASE claims' = claims \cup {target[c]} /\ pc' = [pc EXCEPT ![c] = "check"]
             /\ UNCHANGED <<target, moved>>
    BY <1>1, <2>1 DEF MakeClaim
  <2>2. CASE UNCHANGED claims /\ Return(c, FALSE)
    BY <1>1, <2>2 DEF MakeClaim, Return, TryAgain, Goto
  <2>3. QED BY <1>1, <2>1, <2>2 DEF MakeClaim, Goto
<1>2. CASE Unclaim(c)
  BY <1>2 DEF Unclaim, Return, TryAgain, Goto
<1>3. QED BY <1>1, <1>2

LEMMA OtherStep ==
  ASSUME IInv, LInv, NEW c \in Clients,
         \/ Call(c) \/ MakeDir(c) \/ WriteOwner(c) \/ WriteOwnerFails(c)
         \/ ReadOwner(c) \/ Leave(c) \/ Release(c)
         \/ CheckOwner(c) \/ Rename(c) \/ Heartbeat(c)
  PROVE  LInv'
<1> USE DEF LInv, NoLockOfItsOwn, ClaimsHaveReason, Goto
<1>1. CASE Call(c) \/ MakeDir(c)
  BY <1>1 DEF Call, MakeDir
<1>2. CASE WriteOwner(c)
  BY <1>2 DEF WriteOwner
<1>3. CASE WriteOwnerFails(c)
  BY <1>3 DEF WriteOwnerFails
<1>4. CASE ReadOwner(c)
  BY <1>4 DEF ReadOwner, Orphaned, TryAgain
<1>5. CASE Leave(c) \/ Release(c)
  BY <1>5 DEF Leave, Release
<1>6. CASE CheckOwner(c) \/ Rename(c)
  BY <1>6 DEF CheckOwner, Rename
<1>7. CASE Heartbeat(c)
  BY <1>7 DEF Heartbeat
<1>8. QED BY <1>1, <1>2, <1>3, <1>4, <1>5, <1>6, <1>7, Zenon

LEMMA WayOutStep == IInv /\ LInv /\ [Next]_vars => LInv'
<1> SUFFICES ASSUME IInv, LInv, [Next]_vars PROVE LInv'
  OBVIOUS
<1> USE DEF LInv, NoLockOfItsOwn, ClaimsHaveReason
<1>1. CASE UNCHANGED vars
  BY <1>1 DEF vars
<1>2. ASSUME NEW c \in Clients, Call(c) \/ Step(c) \/ Heartbeat(c) PROVE LInv'
  BY <1>2, ClaimStep, OtherStep, Zenon DEF Step
<1>3. CASE GoesStale
  BY <1>3 DEF GoesStale
<1>4. ASSUME NEW p \in Processes, Crash(p) PROVE LInv'
  BY <1>4 DEF Crash
<1>5. QED BY <1>1, <1>2, <1>3, <1>4, Zenon DEF Next

\* A lock that is there is a wreck, or some call can take it away: its maker
\* writes or gives up, its holder releases, a claimant renames, and the lock of
\* a dead holder that nobody claims is any waiting call's as soon as it is old
\* (ReadOwner, MakeClaim).  There is no third case: no waiting call finds its
\* own token in the lock, and no claim is left on the token of a call that is
\* still inside.  For any number of calls, crashes and failures.
THEOREM SomebodyCanFree == Spec => [](lock # NoOne => Wreck \/ WayOut)
<1>1. Init => LInv
  BY DEF Init, LInv, NoLockOfItsOwn, ClaimsHaveReason
<1>2. IInv /\ LInv => (lock # NoOne => Wreck \/ WayOut)
  <2> SUFFICES ASSUME IInv, LInv, lock \in Clients, ~Wreck PROVE WayOut
    BY DEF Wreck, WayOut
  <2>1. CASE lock \in claims
    BY <2>1 DEF Wreck, WayOut
  <2>2. CASE lock \notin claims
    BY <2>2 DEF Wreck, WayOut, LInv, NoLockOfItsOwn
  <2>3. QED BY <2>1, <2>2
<1>3. QED BY Invariance, WayOutStep, <1>1, <1>2, PTL DEF Spec
=============================================================================
