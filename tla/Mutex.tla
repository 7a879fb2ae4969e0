-------------------------------- MODULE Mutex --------------------------------
(***************************************************************************)
(* What the admission lock promises to the managers that share a host:     *)
(* one client at a time is inside, and the lock passes on only after its   *)
(* holder left by itself or its process died.  AdmissionLock implements    *)
(* this with directories; nothing here knows of files.                     *)
(***************************************************************************)
CONSTANTS Clients, Processes, Proc, NoOne

VARIABLES
  holder,   \* the client the lock belongs to, or NoOne
  inside,   \* the clients between acquire and release, in live processes
  live      \* the processes that run

Init == holder = NoOne /\ inside = {} /\ live = Processes

Enter(c) ==
  /\ holder = NoOne /\ Proc[c] \in live
  /\ holder' = c /\ inside' = inside \cup {c} /\ UNCHANGED live

\* The client is done; the lock may take a while to be free.
Leave(c) ==
  /\ c \in inside
  /\ inside' = inside \ {c} /\ UNCHANGED <<holder, live>>

Free ==
  /\ holder # NoOne /\ holder \notin inside
  /\ holder' = NoOne /\ UNCHANGED <<inside, live>>

Die(p) ==
  /\ p \in live
  /\ live' = live \ {p} /\ inside' = {c \in inside : Proc[c] # p}
  /\ UNCHANGED holder

Next == \/ \E c \in Clients : Enter(c) \/ Leave(c)
        \/ Free
        \/ \E p \in Processes : Die(p)

Spec == Init /\ [][Next]_<<holder, inside, live>>
==============================================================================
