--------------------------- MODULE GatewayRequests ---------------------------
(***************************************************************************)
(* Requests on their way through the model gateway of the service entry:   *)
(* handle() of service-entry/lib/gateway-pipeline.js with the concurrency  *)
(* queue of each key (manager-core/gateway-utils.js) and the share gate,   *)
(* the FIFO semaphore of public traffic (service-entry/lib/limiter.js).    *)
(*                                                                         *)
(* Every handler runs on one JavaScript event loop.  A place is an `await` *)
(* of handle(); an action is what happens from one await to the next, or   *)
(* an event of a response: "finish" (all of it was handed over) and        *)
(* "close" (the connection is gone, or the response ended).  Node emits    *)
(* each at most once, and no "finish" after "close".                       *)
(*                                                                         *)
(* What a request takes -- the mark of owner traffic, a token reservation, *)
(* a slot of its key, a slot of the share -- it gives back in listeners    *)
(* for these events, which it registers in the turn in which it takes it.  *)
(*                                                                         *)
(* Abstracted: who is refused and why (any check may refuse), rate and     *)
(* token amounts, bodies and headers.  A key's limits do not change.       *)
(***************************************************************************)
EXTENDS Integers, Sequences, FiniteSets, Functions

CONSTANTS
  Requests,
  Keys, NoKey,
  Key,            \* [Requests -> Keys \cup {NoKey}]: the key with a limit
  Owners,         \* requests of owner traffic
  Metered,        \* requests whose key has a token limit or a cap
  KeyMax,         \* limits.maxConcurrent
  KeyQueueMax,    \* limits.maxQueued
  ShareMax,       \* share.maxConcurrent
  OwnerShareMax,  \* share.ownerActiveMaxConcurrent
  ShareQueueMax,  \* share.maxQueued
  Timeouts,       \* a waiting request may reach its deadline
  Disconnects     \* BOUND: places at which a client may leave

ASSUME GatewayAssumption ==
  /\ IsFiniteSet(Requests) /\ NoKey \notin Keys
  /\ Key \in [Requests -> Keys \cup {NoKey}]
  /\ Owners \subseteq Requests /\ Metered \subseteq Requests
  /\ KeyMax \in Nat \ {0} /\ ShareMax \in Nat \ {0}
  /\ KeyQueueMax \in Nat /\ OwnerShareMax \in Nat /\ ShareQueueMax \in Nat
  /\ Timeouts \in BOOLEAN

VARIABLES
  pc,          \* the place of each handler
  response,    \* "open", "finished" or "closed"
  held,        \* what each request took and did not give back
  keyQueue,    \* concurrencyQueues: the waiters of each key
  shareQueue,  \* the waiters of the share gate
  unheard      \* history: requests whose client left while they held slots
               \* and nothing would end them for it

vars == <<pc, response, held, keyQueue, shareQueue, unheard>>

Places == {"new", "access", "body", "route", "key queue", "port",
           "share queue", "trust", "upstream", "streaming", "answered", "gone"}
Things == {"owner", "tokens", "key", "share"}

TypeOK ==
  /\ pc \in [Requests -> Places]
  /\ response \in [Requests -> {"open", "finished", "closed"}]
  /\ held \in [Requests -> SUBSET Things]
  /\ keyQueue \in [Keys -> Seq(Requests)] /\ shareQueue \in Seq(Requests)
  /\ \A k \in Keys : Len(keyQueue[k]) <= KeyQueueMax
  /\ Len(shareQueue) <= ShareQueueMax
  /\ unheard \subseteq Requests

Init ==
  /\ pc = [r \in Requests |-> "new"]
  /\ response = [r \in Requests |-> "open"]
  /\ held = [r \in Requests |-> {}]
  /\ keyQueue = [k \in Keys |-> <<>>] /\ shareQueue = <<>>
  /\ unheard = {}

-----------------------------------------------------------------------------
(* Slots and queues *)

\* Who holds a thing, and the slots of a key in use, if `h` is held.
Holders(h, thing) == {r \in Requests : thing \in h[r]}
KeyUsers(h, k) == {r \in Holders(h, "key") : Key[r] = k}

\* MUTANT: the owner's traffic is not looked at.
ShareLimit_NoOwner(h) == ShareMax
\* effective(): fewer share slots while owner traffic is in flight.
ShareLimit(h) ==
  IF Holders(h, "owner") # {} /\ OwnerShareMax < ShareMax
  THEN OwnerShareMax ELSE ShareMax

KeyRoom(h, k) == Cardinality(KeyUsers(h, k)) < KeyMax
ShareRoom(h) == Cardinality(Holders(h, "share")) < ShareLimit(h)

\* indexOf and splice.
Without(q, r) ==
  LET i == CHOOSE i \in 1..Len(q) : q[i] = r
  IN  [j \in 1..(Len(q) - 1) |-> IF j < i THEN q[j] ELSE q[j + 1]]

\* MUTANT: pump() lets everybody in.
Grants_All(h, q) == Len(q)
\* pump(): how many waiters of queue `q` get a share slot.
Grants(h, q) ==
  LET room == ShareLimit(h) - Cardinality(Holders(h, "share"))
  IN  IF room <= 0 THEN 0 ELSE IF Len(q) < room THEN Len(q) ELSE room
First(q, n) == {q[i] : i \in 1..n}

\* MUTANT: a freed slot of a key wakes nobody.
NextWaiter_Nobody(h, k, q) == {}
\* resolveNextServiceGatewayWaiter: the next waiter of the key, if there is room.
NextWaiter(h, k, q) == IF q # <<>> /\ KeyRoom(h, k) THEN {Head(q)} ELSE {}

\* MUTANT: the end of owner traffic does not pump.
Pumps_ShareOnly(things) == "share" \in things
Pumps(things) == things \cap {"owner", "share"} # {}

\* Request r gives back `things`.  A key slot goes to the next waiter of the
\* key, a share slot and the end of owner traffic let the share gate pump; a
\* waiter that is served goes on to its next await.  `p`, `kq` and `sq` are
\* the places and queues before that.
GiveBack(r, things, p, kq, sq) ==
  LET h == [held EXCEPT ![r] = @ \ things]
      k == Key[r]
      n == IF Pumps(things) THEN Grants(h, sq) ELSE 0
      granted == First(sq, n)
      woken == IF "key" \in things THEN NextWaiter(h, k, kq[k]) ELSE {}
  IN  /\ held' = [x \in Requests |->
           h[x] \cup (IF x \in granted THEN {"share"} ELSE {})
                \cup (IF x \in woken THEN {"key"} ELSE {})]
      /\ pc' = [x \in Requests |->
           IF x \in granted THEN "trust" ELSE IF x \in woken THEN "port" ELSE p[x]]
      /\ shareQueue' = SubSeq(sq, n + 1, Len(sq))
      /\ keyQueue' = IF woken = {} THEN kq ELSE [kq EXCEPT ![k] = Tail(@)]
-----------------------------------------------------------------------------
(* handle(), one await after the other *)

Goto(r, place) == pc' = [pc EXCEPT ![r] = place]
Take(r, things) == held' = [held EXCEPT ![r] = @ \cup things]
Refuse(r) == Goto(r, "answered") /\ UNCHANGED <<held, keyQueue, shareQueue>>

\* A request arrives.  Ban and key are looked up at once; the catalogs, for a
\* route that names an engine, after a wait.
Arrive(r) ==
  /\ pc[r] = "new" /\ Goto(r, "access")
  /\ UNCHANGED <<response, held, keyQueue, shareQueue, unheard>>

\* Engine and rate are granted: owner traffic counts from here on.
Authorized(r) ==
  /\ pc[r] = "access"
  /\ \/ Refuse(r)
     \/ /\ Goto(r, "body") /\ Take(r, IF r \in Owners THEN {"owner"} ELSE {})
        /\ UNCHANGED <<keyQueue, shareQueue>>
  /\ UNCHANGED <<response, unheard>>

\* Reading the body fails when the client left.
BodyRead(r) ==
  /\ pc[r] = "body"
  /\ \/ Refuse(r)
     \/ /\ response[r] = "open" /\ Goto(r, "route")
        /\ UNCHANGED <<held, keyQueue, shareQueue>>
  /\ UNCHANGED <<response, unheard>>

\* MUTANT: the queue of a key takes one more.
KeyQueueFull_OneMore(k) == Len(keyQueue[k]) > KeyQueueMax
KeyQueueFull(k) == Len(keyQueue[k]) >= KeyQueueMax

\* Settings and catalogs are there and a model is chosen.  Tokens are
\* reserved, then the request takes a slot of its key, waits for one, or is
\* refused.
Routed(r) ==
  LET tokens == IF r \in Metered THEN {"tokens"} ELSE {}
      k == Key[r]
  IN
  /\ pc[r] = "route"
  /\ \/ Refuse(r)
     \/ /\ k = NoKey
        /\ Take(r, tokens) /\ Goto(r, "port") /\ UNCHANGED keyQueue
     \/ /\ k # NoKey /\ KeyRoom(held, k)
        /\ Take(r, tokens \cup {"key"}) /\ Goto(r, "port") /\ UNCHANGED keyQueue
     \/ /\ k # NoKey /\ ~KeyRoom(held, k) /\ KeyQueueFull(k)
        /\ Take(r, tokens) /\ Goto(r, "answered") /\ UNCHANGED keyQueue
     \/ /\ k # NoKey /\ ~KeyRoom(held, k) /\ ~KeyQueueFull(k)
        /\ Take(r, tokens) /\ Goto(r, "key queue")
        /\ keyQueue' = [keyQueue EXCEPT ![k] = Append(@, r)]
  /\ UNCHANGED <<response, shareQueue, unheard>>

\* MUTANT: the waiter stays in the queue.
KeyTimeout_Stays(r) ==
  /\ Timeouts /\ pc[r] = "key queue"
  /\ Goto(r, "answered") /\ UNCHANGED <<response, held, keyQueue, shareQueue, unheard>>

KeyTimeout(r) ==
  /\ Timeouts /\ pc[r] = "key queue"
  /\ keyQueue' = [keyQueue EXCEPT ![Key[r]] = Without(@, r)]
  /\ Goto(r, "answered") /\ UNCHANGED <<response, held, shareQueue, unheard>>

\* MUTANT: a waiter is put in front of the others.
Enqueue_First(r) == <<r>> \o shareQueue
Enqueue(r) == Append(shareQueue, r)

\* The manager's port was probed.  The owner goes on; others take a share
\* slot, queue up behind those who wait, or are refused.
PortChecked(r) ==
  /\ pc[r] = "port"
  /\ \/ Refuse(r)
     \/ r \in Owners /\ Goto(r, "trust") /\ UNCHANGED <<held, shareQueue>>
     \/ /\ r \notin Owners /\ shareQueue = <<>> /\ ShareRoom(held)
        /\ Take(r, {"share"}) /\ Goto(r, "trust") /\ UNCHANGED shareQueue
     \/ /\ r \notin Owners /\ (shareQueue # <<>> \/ ~ShareRoom(held))
        /\ \/ /\ Len(shareQueue) >= ShareQueueMax
              /\ Goto(r, "answered") /\ UNCHANGED shareQueue
           \/ /\ Len(shareQueue) < ShareQueueMax
              /\ Goto(r, "share queue") /\ shareQueue' = Enqueue(r)
        /\ UNCHANGED held
  /\ UNCHANGED <<response, keyQueue, unheard>>

ShareTimeout(r) ==
  /\ Timeouts /\ pc[r] = "share queue"
  /\ shareQueue' = Without(shareQueue, r)
  /\ Goto(r, "answered") /\ UNCHANGED <<response, held, keyQueue, unheard>>

\* The trust version of the manager is known: the request is sent on.
Trusted(r) ==
  /\ pc[r] = "trust"
  /\ \/ Refuse(r)
     \/ Goto(r, "upstream") /\ UNCHANGED <<held, keyQueue, shareQueue>>
  /\ UNCHANGED <<response, unheard>>

\* The manager answers, or fails.
Answered(r) ==
  /\ pc[r] = "upstream"
  /\ Goto(r, "streaming") \/ Goto(r, "answered")
  /\ UNCHANGED <<response, held, keyQueue, shareQueue, unheard>>

\* The answer was passed on.  The usage tap settles the tokens, if it could
\* be made.
Streamed(r) ==
  /\ pc[r] = "streaming" /\ Goto(r, "answered")
  /\ UNCHANGED held \/ held' = [held EXCEPT ![r] = @ \ {"tokens"}]
  /\ UNCHANGED <<response, keyQueue, shareQueue, unheard>>

-----------------------------------------------------------------------------
(* Events of a response *)

\* The slot of a key waits for "close".
OnFinish == {"owner", "tokens", "share"}
\* MUTANT: the share slot is given back when the response finishes only.
OnClose_NoShare == {"owner", "tokens", "key"}
OnClose == Things

Finish(r) ==
  /\ pc[r] = "answered" /\ response[r] = "open"
  /\ response' = [response EXCEPT ![r] = "finished"]
  /\ GiveBack(r, held[r] \cap OnFinish, pc, keyQueue, shareQueue)
  /\ UNCHANGED unheard

\* MUTANT: a client that leaves does not abort the request to the manager.
EndedByClose_Queues == {"key queue", "share queue"}
EndedByClose == {"key queue", "share queue", "upstream", "streaming"}

\* Places at which a request has slots, and "close" gives them back and does not
\* end it: nobody looks at res.destroyed after these awaits, and
\* createUpstreamControl registers its own listener after them, too late.
Unheard == {"port", "trust"}

\* "close" of a response that finished, or of a client that left.  A request
\* that waits leaves its queue, one that was sent on is aborted.
Close(r) ==
  /\ response[r] = "finished" \/ (response[r] = "open" /\ pc[r] \in Disconnects)
  /\ response' = [response EXCEPT ![r] = "closed"]
  /\ unheard' = IF pc[r] \in Unheard THEN unheard \cup {r} ELSE unheard
  /\ GiveBack(r, held[r] \cap OnClose,
       IF pc[r] \in EndedByClose THEN [pc EXCEPT ![r] = "gone"] ELSE pc,
       IF pc[r] = "key queue"
       THEN [keyQueue EXCEPT ![Key[r]] = Without(@, r)] ELSE keyQueue,
       IF pc[r] = "share queue" THEN Without(shareQueue, r) ELSE shareQueue)

-----------------------------------------------------------------------------
Step(r) ==
  \/ Authorized(r) \/ BodyRead(r) \/ Routed(r) \/ PortChecked(r)
  \/ Trusted(r) \/ Answered(r) \/ Streamed(r) \/ Finish(r)

Next == \E r \in Requests :
  Arrive(r) \/ Step(r) \/ KeyTimeout(r) \/ ShareTimeout(r) \/ Close(r)

Spec == Init /\ [][Next]_vars

\* Awaits end, what is answered finishes, what finished closes.
Fairness == \A r \in Requests :
  /\ WF_vars(Step(r))
  /\ WF_vars(response[r] = "finished" /\ Close(r))
FairSpec == Spec /\ Fairness

-----------------------------------------------------------------------------
(* Properties *)

\* Places at which the client may leave and all comes back: the request holds
\* what it will ever take, or its next step notices.
Guarded == {"body", "key queue", "share queue", "trust", "upstream", "streaming",
            "answered"}

\* No more requests run at once than a key and the public share allow
\* (limiter.acquireConcurrency, createShareGate).
Limits ==
  /\ \A k \in Keys : Cardinality(KeyUsers(held, k)) <= KeyMax
  /\ Cardinality(Holders(held, "share")) <= ShareMax

\* Nobody waits beside a free slot: every way a slot becomes free, or the
\* owner's traffic ends, wakes the queue; a timeout or a client that leaves
\* the queue need not.
NoIdleSlot ==
  /\ \A k \in Keys : keyQueue[k] # <<>> => ~KeyRoom(held, k)
  /\ shareQueue # <<>> => ~ShareRoom(held)

\* A waiting request is in the queue it waits in, once, and nobody else is:
\* a slot that went to one who is not there any more would be lost.
WaitersAreQueued ==
  /\ \A k \in Keys :
       /\ First(keyQueue[k], Len(keyQueue[k])) =
            {r \in Requests : pc[r] = "key queue" /\ Key[r] = k}
       /\ IsInjective(keyQueue[k])
  /\ First(shareQueue, Len(shareQueue)) = {r \in Requests : pc[r] = "share queue"}
  /\ IsInjective(shareQueue)

\* Work that a manager does for a request is covered by the slots the request
\* waited for, as long as it goes on.  The exception: the client left while the
\* manager's port was probed or its trust version was fetched; the slots came
\* back then, and the request is sent on all the same (createUpstreamControl).
WorkHoldsSlots == \A r \in Requests :
  pc[r] \in {"upstream", "streaming"} /\ r \notin unheard =>
    /\ Key[r] # NoKey => "key" \in held[r]
    /\ r \notin Owners => "share" \in held[r]

\* A response that is over holds nothing: no slot, reservation or mark of the
\* owner stays taken until the restart of the service.
NothingKept == \A r \in Requests : response[r] = "closed" => held[r] = {}

\* While the owner works, public traffic does not grow beyond
\* ownerActiveMaxConcurrent; what runs already may go on.
OwnerIsNotStarved ==
  [][/\ Holders(held, "owner") # {} /\ Holders(held', "owner") # {}
     /\ Cardinality(Holders(held', "share")) > OwnerShareMax
     => Holders(held', "share") \subseteq Holders(held, "share")]_vars

\* Request x is in queue q, and y is not in front of it.
Before(q, x, y) == \E i \in 1..Len(q) : q[i] = x /\ \A j \in 1..i : q[j] # y

\* First come, first served: as long as x waits for a slot, nobody who came
\* to wait for it later gets one or comes to stand in front of x.  The queue
\* of a key is not looked at by a newcomer; that it cannot overtake follows
\* from NoIdleSlot.
FirstComeFirstServed ==
  [][\A x, y \in Requests :
       /\ pc[x] = "share queue" /\ pc'[x] = "share queue" /\ Before(shareQueue, x, y)
          => "share" \notin held'[y] \ held[y] /\ Before(shareQueue', x, y)
       /\ pc[x] = "key queue" /\ pc'[x] = "key queue" /\ Key[x] = Key[y]
          /\ Before(keyQueue[Key[x]], x, y)
          => "key" \notin held'[y] \ held[y] /\ Before(keyQueue'[Key[x]], x, y)]_vars

\* Every request that arrived is answered or gone at last, without any
\* timeout: waiters are served, by key and share, while others hold slots of
\* keys and wait for the share.
EveryRequestEnds ==
  \A r \in Requests : pc[r] # "new" ~> pc[r] \in {"answered", "gone"}
=============================================================================
