------------------------------ MODULE EventBus ------------------------------
(***************************************************************************)
(* src/backend/src/runtime/event_bus.c over the ring it uses: a publisher  *)
(* pushes its event and then tries to become the one dispatcher; the       *)
(* thread that wins the draining flag delivers every event it finds, its   *)
(* own or another's.  The ring is RingQueue, which Ringbuf implements.     *)
(*                                                                         *)
(* The flag is cleared by a release store and the emptiness check after it *)
(* is made of acquire loads, which C11 lets a build reorder: with          *)
(* StoreBuffers the store may become visible after those loads.  A         *)
(* compare-exchange of the same thread waits for it.                       *)
(***************************************************************************)
EXTENDS RingQueue, Sequences, TLAPS

CONSTANTS
    Threads,       \* publishing threads
    Subscribers,
    MaxPublish,    \* bound: events published by one thread
    MaxDispatch,   \* max_dispatch of drain()
    StoreBuffers   \* may the store of draining be delayed

VARIABLES
    draining, buffered,        \* the flag; threads whose store of 0 is pending
    subs, since,               \* registered handlers; enq at registration
    pc, slot, dispatched, snap,\* per thread: place and locals
    published,
    delivered,                 \* per subscriber: positions its handler was given
    lost                       \* positions dropped by a failed snapshot

busVars    == <<draining, buffered>>
subVars    == <<subs, since>>
localVars  == <<slot, dispatched, snap>>
outVars    == <<published, delivered, lost>>
vars == <<ringVars, busVars, subVars, pc, localVars, outVars>>

Goto(t, place) == pc' = [pc EXCEPT ![t] = place]

Init ==
    /\ RingInit
    /\ draining = 0 /\ buffered = {}
    /\ subs = {} /\ since = [s \in Subscribers |-> 0]
    /\ pc = [t \in Threads |-> "idle"]
    /\ slot = [t \in Threads |-> 0] /\ dispatched = [t \in Threads |-> 0]
    /\ snap = [t \in Threads |-> {}]
    /\ published = [t \in Threads |-> 0]
    /\ delivered = [s \in Subscribers |-> <<>>] /\ lost = {}

\* event_bus_subscribe; there is no unsubscribe.
Subscribe(s) ==
    /\ s \notin subs
    /\ subs' = subs \cup {s}
    /\ since' = [since EXCEPT ![s] = enq]
    /\ UNCHANGED <<ringVars, busVars, pc, localVars, outVars>>

-----------------------------------------------------------------------------
\* event_bus_publish

Push(t) ==
    /\ pc[t] = "idle" /\ published[t] < MaxPublish /\ t \notin buffered
    /\ published' = [published EXCEPT ![t] = @ + 1]
    /\ Claim(t)
    /\ slot' = [slot EXCEPT ![t] = enq]
    /\ Goto(t, "claimed")
    /\ UNCHANGED <<busVars, subVars, dispatched, snap, delivered, lost>>

\* The ring is full: the event is counted and freed, nobody drains.
Drop(t) ==
    /\ pc[t] = "idle" /\ published[t] < MaxPublish
    /\ Full
    /\ published' = [published EXCEPT ![t] = @ + 1]
    /\ UNCHANGED <<ringVars, busVars, subVars, pc, localVars, delivered, lost>>

Pushed(t) ==
    /\ pc[t] = "claimed"
    /\ MakeReady(slot[t])
    /\ dispatched' = [dispatched EXCEPT ![t] = 0]
    /\ Goto(t, "drain")
    /\ UNCHANGED <<busVars, subVars, slot, snap, outVars>>

\* event_bus_flush
Flush(t) ==
    /\ pc[t] = "idle"
    /\ dispatched' = [dispatched EXCEPT ![t] = 0]
    /\ Goto(t, "drain")
    /\ UNCHANGED <<ringVars, busVars, subVars, slot, snap, outVars>>

-----------------------------------------------------------------------------
\* drain

\* Mutated form: the flag is not tested.
WinUntested(t) ==
    /\ pc[t] = "drain" /\ t \notin buffered
    /\ draining' = 1
    /\ Goto(t, "pop")
    /\ UNCHANGED <<ringVars, buffered, subVars, localVars, outVars>>

Win(t) ==
    /\ pc[t] = "drain" /\ t \notin buffered /\ draining = 0
    /\ draining' = 1
    /\ Goto(t, "pop")
    /\ UNCHANGED <<ringVars, buffered, subVars, localVars, outVars>>

\* Another thread is draining.
Lose(t) ==
    /\ pc[t] = "drain" /\ t \notin buffered /\ draining = 1
    /\ Goto(t, "idle")
    /\ UNCHANGED <<ringVars, busVars, subVars, localVars, outVars>>

PopTake(t) ==
    /\ pc[t] = "pop" /\ Take
    /\ slot' = [slot EXCEPT ![t] = deq]
    /\ Goto(t, "taken")
    /\ UNCHANGED <<busVars, subVars, dispatched, snap, outVars>>

PopNothing(t) ==
    /\ pc[t] = "pop" /\ deq \notin ready
    /\ Goto(t, "clear")
    /\ UNCHANGED <<ringVars, busVars, subVars, localVars, outVars>>

PopRead(t) ==
    /\ pc[t] = "taken" /\ Read(slot[t])
    /\ Goto(t, "read")
    /\ UNCHANGED <<busVars, subVars, localVars, outVars>>

PopDone(t) ==
    /\ pc[t] = "read" /\ GiveBack(slot[t])
    /\ Goto(t, "snapshot")
    /\ UNCHANGED <<busVars, subVars, localVars, outVars>>

\* dispatch_one copies the handlers under the lock; when the copy cannot be
\* allocated the event reaches nobody.
Snapshot(t) ==
    /\ pc[t] = "snapshot"
    /\ \/ /\ snap' = [snap EXCEPT ![t] = subs]
          /\ UNCHANGED lost
       \/ /\ snap' = [snap EXCEPT ![t] = {}]
          /\ lost' = lost \cup {slot[t]}
    /\ Goto(t, "deliver")
    /\ UNCHANGED <<ringVars, busVars, subVars, slot, dispatched, published, delivered>>

\* Mutated form: the bound is tested before the handlers are called.
DeliverBounded(t) ==
    /\ pc[t] = "deliver"
    /\ dispatched' = [dispatched EXCEPT ![t] = @ + 1]
    /\ IF dispatched'[t] >= MaxDispatch
         THEN UNCHANGED delivered
         ELSE delivered' = [s \in Subscribers |->
                 IF s \in snap[t] THEN Append(delivered[s], slot[t]) ELSE delivered[s]]
    /\ Goto(t, IF dispatched'[t] >= MaxDispatch THEN "clear" ELSE "pop")
    /\ UNCHANGED <<ringVars, busVars, subVars, slot, snap, published, lost>>

\* Mutated form: the bound is passed by one.
DeliverPastBound(t) ==
    /\ pc[t] = "deliver"
    /\ delivered' = [s \in Subscribers |->
          IF s \in snap[t] THEN Append(delivered[s], slot[t]) ELSE delivered[s]]
    /\ dispatched' = [dispatched EXCEPT ![t] = @ + 1]
    /\ Goto(t, IF dispatched'[t] > MaxDispatch THEN "clear" ELSE "pop")
    /\ UNCHANGED <<ringVars, busVars, subVars, slot, snap, published, lost>>

\* The handlers run without the lock; then the event is freed.
Deliver(t) ==
    /\ pc[t] = "deliver"
    /\ delivered' = [s \in Subscribers |->
          IF s \in snap[t] THEN Append(delivered[s], slot[t]) ELSE delivered[s]]
    /\ dispatched' = [dispatched EXCEPT ![t] = @ + 1]
    /\ Goto(t, IF dispatched'[t] >= MaxDispatch THEN "clear" ELSE "pop")
    /\ UNCHANGED <<ringVars, busVars, subVars, slot, snap, published, lost>>

\* After its bound the dispatcher leaves without another look at the ring.
Clear(t) ==
    /\ pc[t] = "clear"
    /\ \/ draining' = 0 /\ UNCHANGED buffered
       \/ StoreBuffers /\ buffered' = buffered \cup {t} /\ UNCHANGED draining
    /\ Goto(t, IF dispatched[t] >= MaxDispatch THEN "idle" ELSE "check")
    /\ UNCHANGED <<ringVars, subVars, localVars, outVars>>

StoreVisible(t) ==
    /\ t \in buffered
    /\ buffered' = buffered \ {t} /\ draining' = 0
    /\ UNCHANGED <<ringVars, subVars, pc, localVars, outVars>>

\* ringbuf_empty: load the position, then its slot.
CheckLoad(t) ==
    /\ pc[t] = "check"
    /\ slot' = [slot EXCEPT ![t] = deq]
    /\ Goto(t, "look")
    /\ UNCHANGED <<ringVars, busVars, subVars, dispatched, snap, outVars>>

\* Mutated form: the dispatcher leaves without the second look.
LeaveUnlooked(t) ==
    /\ pc[t] = "look"
    /\ Goto(t, "idle")
    /\ UNCHANGED <<ringVars, busVars, subVars, localVars, outVars>>

Look(t) ==
    /\ pc[t] = "look"
    /\ Goto(t, IF slot[t] >= deq /\ slot[t] \notin ready THEN "idle" ELSE "drain")
    /\ UNCHANGED <<ringVars, busVars, subVars, localVars, outVars>>

-----------------------------------------------------------------------------
Drain(t) ==
    \/ Win(t) \/ Lose(t) \/ PopTake(t) \/ PopNothing(t) \/ PopRead(t)
    \/ PopDone(t) \/ Snapshot(t) \/ Deliver(t) \/ Clear(t) \/ CheckLoad(t) \/ Look(t)

Next ==
    \/ \E s \in Subscribers : Subscribe(s)
    \/ \E t \in Threads :
          Push(t) \/ Drop(t) \/ Pushed(t) \/ Flush(t) \/ Drain(t) \/ StoreVisible(t)

Spec == Init /\ [][Next]_vars

\* A thread that has begun to publish is scheduled until it returns, and a
\* delayed store becomes visible.
FairSpec ==
    Spec /\ \A t \in Threads : WF_vars(Pushed(t) \/ Drain(t)) /\ WF_vars(StoreVisible(t))

-----------------------------------------------------------------------------
\* PROPERTIES

TypeOK ==
    /\ enq \in Nat /\ deq \in 0..enq
    /\ ready \subseteq deq..(enq - 1) /\ busy \subseteq 0..(deq - 1)
    /\ enq - deq <= Capacity
    /\ DOMAIN item = 0..(enq - 1) /\ DOMAIN got \subseteq 0..(deq - 1)
    /\ draining \in {0, 1} /\ buffered \subseteq Threads
    /\ subs \subseteq Subscribers /\ lost \subseteq 0..(deq - 1)
    /\ pc \in [Threads -> {"idle", "claimed", "drain", "pop", "taken", "read",
                           "snapshot", "deliver", "clear", "check", "look"}]
    /\ slot \in [Threads -> Nat] /\ dispatched \in [Threads -> 0..MaxDispatch]
    /\ snap \in [Threads -> SUBSET Subscribers]
    /\ published \in [Threads -> 0..MaxPublish]

\* Each handler sees events in the order in which they were pushed, hence one
\* publisher's in the order it published them, and none twice: handlers are
\* called without a lock, only the draining flag keeps two threads apart.
DeliveredInOrder ==
    \A s \in Subscribers : \A i, j \in DOMAIN delivered[s] :
        i < j => delivered[s][i] < delivered[s][j]

\* No event pushed after a handler was registered passes it by, whichever
\* thread dispatches it, unless the snapshot of the handlers failed.
SubscriberMissesNothing ==
    \A s \in subs : \A p \in since[s]..(deq - 1) :
        \/ p \in lost
        \/ \E i \in DOMAIN delivered[s] : delivered[s][i] = p
        \/ \E t \in Threads :
              pc[t] \in {"taken", "read", "snapshot", "deliver"} /\ slot[t] = p

\* Both of them: what the bus promises its handlers (event_bus.c:96-160).
BusSafe == DeliveredInOrder /\ SubscriberMissesNothing

\* drain's comment: "late producers re-check the flag so no event is
\* stranded".  Every accepted event is dispatched although its publisher may have lost
\* the flag and gone.
AcceptedIsDispatched ==
    \A p \in 0..(MaxPublish * Cardinality(Threads) - 1) : (enq > p) ~> (deq > p)
-----------------------------------------------------------------------------
(* For any number of publishers and handlers, any capacity, any bound of a *)
(* drain, and with the flag's store delayed or not, the bus gives every    *)
(* handler each event published after it was registered, once and in the   *)
(* order of the positions.  One thread at a time drains (OneDrains),       *)
(* counting one that has left but whose store of the flag is not yet       *)
(* visible.  So the event in its hands is the last one taken, and all that *)
(* was delivered is older (Hands).                                         *)

\* Where a thread has an event that it has taken and not yet delivered.
InHand  == {"taken", "read", "snapshot", "deliver"}
Working == {"pop", "clear"} \cup InHand

Types ==
    /\ enq \in Nat /\ deq \in Nat /\ deq <= enq
    /\ ready \subseteq deq..(enq - 1)
    /\ subs \subseteq Subscribers
    /\ pc \in [Threads -> Working \cup {"idle", "claimed", "drain", "check", "look"}]
    /\ slot \in [Threads -> Nat]
    /\ snap \in [Threads -> SUBSET Subscribers]
    /\ since \in [Subscribers -> Nat]
    /\ delivered \in [Subscribers -> Seq(Nat)]
    /\ buffered \subseteq Threads

OneDrains ==
    /\ \A t \in Threads : pc[t] \in Working \/ t \in buffered => draining = 1
    /\ \A t \in buffered : pc[t] \notin Working
    /\ \A t, u \in Threads :
          /\ pc[t] \in Working \/ t \in buffered
          /\ pc[u] \in Working \/ u \in buffered
          => t = u

Hands ==
    /\ \A s \in Subscribers : \A i \in DOMAIN delivered[s] : delivered[s][i] < deq
    /\ \A t \in Threads : pc[t] \in InHand =>
          /\ deq = slot[t] + 1
          /\ \A s \in Subscribers : \A i \in DOMAIN delivered[s] :
                delivered[s][i] < slot[t]

\* A copy of the handlers has everyone whom the event is for.
Copies ==
    /\ \A s \in Subscribers : since[s] <= enq
    /\ \A t \in Threads : pc[t] = "deliver" =>
          \A s \in subs : s \in snap[t] \/ slot[t] < since[s] \/ slot[t] \in lost

IInv == Types /\ OneDrains /\ Hands /\ Copies /\ DeliveredInOrder /\ SubscriberMissesNothing

-----------------------------------------------------------------------------
LEMMA Appended ==
    ASSUME NEW q \in Seq(Nat), NEW x \in Nat
    PROVE  /\ DOMAIN q = 1..Len(q) /\ DOMAIN Append(q, x) = 1..(Len(q) + 1)
           /\ Len(q) \in Nat /\ Append(q, x)[Len(q) + 1] = x
           /\ \A i \in 1..Len(q) : Append(q, x)[i] = q[i]
  OBVIOUS

LEMMA IInvInit == Init => IInv
<1> SUFFICES ASSUME Init PROVE IInv
  OBVIOUS
<1> USE DEF Init, RingInit
<1>1. Types
  BY DEF Types
<1>2. OneDrains /\ Hands /\ Copies
  BY DEF OneDrains, Hands, Copies, Working, InHand
<1>3. DeliveredInOrder /\ SubscriberMissesNothing
  BY DEF DeliveredInOrder, SubscriberMissesNothing
<1> QED BY <1>1, <1>2, <1>3 DEF IInv

\* Only the thread that drains has an event in hand, whatever the others do.
LEMMA SubscribeStep == ASSUME IInv, NEW s \in Subscribers, Subscribe(s) PROVE IInv'
<1> USE DEF Subscribe, ringVars, busVars, localVars, outVars, InHand
<1>1. Types'
  BY DEF IInv, Types
<1>2. since'[s] = enq /\ \A r \in Subscribers : r # s => since'[r] = since[r]
  BY DEF IInv, Types
<1>3. OneDrains' /\ Hands' /\ DeliveredInOrder'
  BY DEF IInv, OneDrains, Hands, DeliveredInOrder
<1>4. Copies'
  <2>1. \A t \in Threads : pc[t] = "deliver" => slot[t] < enq
    BY DEF IInv, Types, Hands
  <2> QED BY <1>2, <2>1 DEF IInv, Types, Copies
<1>5. SubscriberMissesNothing'
  BY <1>2, SMTT(30) DEF IInv, Types, SubscriberMissesNothing
<1> QED BY <1>1, <1>3, <1>4, <1>5 DEF IInv

\* The steps that neither take nor deliver: outside of the draining they leave
\* the hands empty, inside they keep what is there.
LEMMA QuietStep ==
    ASSUME IInv, NEW t \in Threads,
           UNCHANGED <<deq, subVars, snap, delivered, lost>>,
           enq' \in Nat, enq' >= enq, ready' \subseteq deq..(enq' - 1),
           slot' \in [Threads -> Nat],
           pc' \in [Threads -> Working \cup {"idle", "claimed", "drain", "check", "look"}],
           pc'[t] \in InHand => pc[t] \in InHand /\ slot'[t] = slot[t],
           pc[t] \in InHand => pc'[t] \in InHand,
           pc'[t] = "deliver" => pc[t] = "deliver",
           \A u \in Threads : u # t => pc'[u] = pc[u] /\ slot'[u] = slot[u],
           buffered' \subseteq Threads,
           OneDrains'
    PROVE  IInv'
<1> USE DEF subVars
<1>1. Types'
  <2>1. enq' \in Nat /\ deq' \in Nat /\ deq' <= enq' /\ ready' \subseteq deq'..(enq' - 1)
    <3>1. deq' = deq /\ deq \in Nat /\ enq \in Nat /\ deq <= enq
      BY DEF IInv, Types
    <3>2. enq' \in Nat /\ deq' \in Nat /\ deq' <= enq'
      BY <3>1
    <3>3. ready' \subseteq deq'..(enq' - 1)
      BY <3>1, Zenon
    <3> QED BY <3>2, <3>3
  <2>2. snap' \in [Threads -> SUBSET Subscribers] /\ since' \in [Subscribers -> Nat]
    BY DEF IInv, Types
  <2>3. delivered' \in [Subscribers -> Seq(Nat)] /\ subs' \subseteq Subscribers
    BY DEF IInv, Types
  <2> QED BY <2>1, <2>2, <2>3 DEF Types
<1>2. Hands'
  BY DEF IInv, Hands
<1>3. Copies'
  <2>1. \A s \in Subscribers : since[s] <= enq'
    BY DEF IInv, Types, Copies
  <2>2. \A u \in Threads : pc'[u] = "deliver" => pc[u] = "deliver" /\ slot'[u] = slot[u]
    BY DEF InHand
  <2> QED BY <2>1, <2>2 DEF IInv, Copies
<1>4. DeliveredInOrder'
  BY DEF IInv, DeliveredInOrder
<1>5. SubscriberMissesNothing'
  <2>1. \A u \in Threads : pc[u] \in InHand => pc'[u] \in InHand /\ slot'[u] = slot[u]
    OBVIOUS
  <2> QED BY <2>1 DEF IInv, SubscriberMissesNothing, InHand
<1> QED BY <1>1, <1>2, <1>3, <1>4, <1>5 DEF IInv

\* Outside of the draining.
LEMMA OutsideStep ==
    ASSUME IInv, NEW t \in Threads,
           \/ Push(t) \/ Drop(t) \/ Pushed(t) \/ Flush(t) \/ Lose(t)
           \/ CheckLoad(t) \/ Look(t)
    PROVE  IInv'
<1> USE DEF ringVars, busVars, subVars, localVars, outVars, Goto
<1>1. /\ Types /\ OneDrains /\ deq \in Nat /\ enq \in Nat /\ deq <= enq
      /\ ready \subseteq deq..(enq - 1)
      /\ pc[t] \notin InHand /\ pc[t] \notin Working
  BY DEF IInv, Types, Push, Drop, Pushed, Flush, Lose, CheckLoad, Look, InHand, Working
<1>2. /\ UNCHANGED <<deq, subVars, snap, delivered, lost, busVars>>
      /\ enq' \in Nat /\ enq' >= enq /\ ready' \subseteq deq..(enq' - 1)
  <2>1. CASE Push(t)
    BY <1>1, <2>1 DEF Push, Claim
  <2>2. CASE Pushed(t)
    <3>1. /\ UNCHANGED <<deq, enq, subVars, snap, delivered, lost, busVars>>
          /\ ready' = ready \cup {slot[t]} /\ slot[t] \in deq..(enq - 1)
      BY <2>2 DEF Pushed, MakeReady
    <3>2. ready' \subseteq deq..(enq - 1)
      BY <1>1, <3>1, Zenon
    <3> QED BY <1>1, <3>1, <3>2
  <2>3. CASE Drop(t) \/ Flush(t) \/ Lose(t) \/ CheckLoad(t) \/ Look(t)
    <3>1. UNCHANGED <<deq, enq, ready, subVars, snap, delivered, lost, busVars>>
      BY <2>3 DEF Drop, Flush, Lose, CheckLoad, Look
    <3> QED BY <1>1, <3>1
  <2> QED BY <2>1, <2>2, <2>3
<1>3. /\ slot' \in [Threads -> Nat]
      /\ pc' \in [Threads -> Working \cup {"idle", "claimed", "drain", "check", "look"}]
      /\ \A u \in Threads : u # t => pc'[u] = pc[u] /\ slot'[u] = slot[u]
      /\ pc'[t] \notin Working
  BY <1>1, ZenonT(60) DEF Types, Push, Drop, Pushed, Flush, Lose, CheckLoad, Look, Working, InHand
<1>4. OneDrains'
  BY <1>1, <1>2, <1>3 DEF OneDrains, Types
<1>5. pc'[t] \notin InHand /\ pc'[t] # "deliver"
  BY <1>3 DEF Working, InHand
<1> QED BY <1>1, <1>2, <1>3, <1>4, <1>5, QuietStep DEF Types

\* drain's compare-exchange, and the store that ends the draining.
LEMMA FlagStep ==
    ASSUME IInv, NEW t \in Threads,
           Win(t) \/ PopNothing(t) \/ Clear(t) \/ StoreVisible(t)
    PROVE  IInv'
<1> USE DEF ringVars, busVars, subVars, localVars, outVars, Goto
<1>1. Types /\ OneDrains
  BY DEF IInv
<1>2. /\ UNCHANGED <<ringVars, subVars, localVars, outVars>>
      /\ pc[t] \notin InHand /\ pc'[t] \notin InHand
      /\ pc' \in [Threads -> Working \cup {"idle", "claimed", "drain", "check", "look"}]
      /\ \A u \in Threads : u # t => pc'[u] = pc[u]
  BY <1>1 DEF Types, OneDrains, Win, PopNothing, Clear, StoreVisible, Working, InHand
<1>3. buffered' \subseteq Threads
  BY <1>1 DEF Types, Win, PopNothing, Clear, StoreVisible
<1>4. OneDrains'
  <2>1. CASE Win(t)
    BY <1>1, <1>2, <2>1 DEF OneDrains, Types, Win
  <2>2. CASE PopNothing(t)
    BY <1>1, <1>2, <2>2 DEF OneDrains, Types, PopNothing, Working
  <2>3. CASE Clear(t)
    <3>1. pc[t] \in Working /\ pc'[t] \notin Working /\ t \notin buffered
      BY <1>1, <2>3 DEF OneDrains, Types, Clear, Working, InHand
    <3> QED BY <1>1, <1>2, <2>3, <3>1 DEF OneDrains, Types, Clear
  <2>4. CASE StoreVisible(t)
    BY <1>1, <1>2, <2>4 DEF OneDrains, Types, StoreVisible
  <2> QED BY <2>1, <2>2, <2>3, <2>4
<1>5. /\ pc'[t] # "deliver" /\ enq' \in Nat /\ enq' >= enq
      /\ ready' \subseteq deq..(enq' - 1) /\ slot' \in [Threads -> Nat] /\ slot' = slot
  BY <1>1, <1>2 DEF InHand, Types
<1> QED BY <1>2, <1>3, <1>4, <1>5, QuietStep

\* ringbuf_pop takes the oldest event: nobody else has one in hand.
LEMMA PopTakeStep == ASSUME IInv, NEW t \in Threads, PopTake(t) PROVE IInv'
<1> USE DEF busVars, subVars, outVars, Goto
<1>1. /\ deq' = deq + 1 /\ slot'[t] = deq /\ pc'[t] = "taken" /\ deq < enq
      /\ \A u \in Threads : u # t => pc'[u] = pc[u] /\ slot'[u] = slot[u]
      /\ \A u \in Threads : u # t => pc[u] \notin Working
  BY DEF IInv, Types, OneDrains, PopTake, Take, Working
<1>2. Types'
  BY <1>1 DEF IInv, Types, PopTake, Take, Working, InHand
<1>3. OneDrains'
  BY <1>1 DEF IInv, Types, OneDrains, PopTake, Take, Working, InHand
<1>4. Hands'
  <2>1. \A u \in Threads : pc'[u] \in InHand => u = t
    BY <1>1 DEF Working
  <2>2. \A s \in Subscribers : \A i \in DOMAIN delivered[s] :
           delivered[s][i] < deq /\ delivered[s][i] < deq + 1
    BY DEF IInv, Types, Hands
  <2> QED BY <1>1, <2>1, <2>2 DEF Hands, PopTake
<1>5. Copies'
  BY <1>1 DEF IInv, Copies, PopTake, Take, Working, InHand
<1>6. DeliveredInOrder'
  BY DEF IInv, DeliveredInOrder, PopTake
<1>7. SubscriberMissesNothing'
  <2> SUFFICES ASSUME NEW s \in subs, NEW p \in since[s]..deq
               PROVE  \/ p \in lost
                      \/ \E i \in DOMAIN delivered[s] : delivered[s][i] = p
                      \/ \E u \in Threads : pc'[u] \in InHand /\ slot'[u] = p
    BY <1>1 DEF IInv, Types, SubscriberMissesNothing, PopTake, Take, InHand
  <2>1. CASE p = deq
    BY <1>1, <2>1 DEF InHand
  <2>2. CASE p \in since[s]..(deq - 1)
    <3>1. \A u \in Threads : pc[u] \notin InHand
      BY <1>1 DEF PopTake, Working, InHand
    <3> QED BY <2>2, <3>1 DEF IInv, SubscriberMissesNothing, InHand
  <2> QED BY <2>1, <2>2 DEF IInv, Types
<1> QED BY <1>2, <1>3, <1>4, <1>5, <1>6, <1>7 DEF IInv

\* dispatch_one's copy of the handlers, made or failed.
LEMMA SnapshotStep == ASSUME IInv, NEW t \in Threads, Snapshot(t) PROVE IInv'
<1> USE DEF ringVars, busVars, subVars, Goto
<1>1. /\ UNCHANGED <<ringVars, busVars, subVars, slot, delivered>>
      /\ pc[t] = "snapshot" /\ pc'[t] = "deliver"
      /\ \A u \in Threads : u # t => pc'[u] = pc[u] /\ snap'[u] = snap[u]
      /\ snap'[t] = subs \/ slot[t] \in lost'
      /\ lost \subseteq lost'
  BY DEF IInv, Types, Snapshot
<1>2. \A u \in Threads : pc'[u] \in InHand <=> pc[u] \in InHand
  BY <1>1 DEF InHand
<1>3. Types'
  BY <1>1 DEF IInv, Types, Snapshot, Working, InHand
<1>4. OneDrains'
  <2>1. \A u \in Threads : pc'[u] \in Working <=> pc[u] \in Working
    BY <1>1 DEF Working, InHand
  <2> QED BY <1>1, <2>1 DEF IInv, OneDrains, Types
<1>5. Hands' /\ DeliveredInOrder'
  BY <1>1, <1>2 DEF IInv, Hands, DeliveredInOrder
<1>6. Copies'
  BY <1>1 DEF IInv, Copies
<1>7. SubscriberMissesNothing'
  BY <1>1, <1>2 DEF IInv, SubscriberMissesNothing, InHand
<1> QED BY <1>3, <1>4, <1>5, <1>6, <1>7 DEF IInv

LEMMA ReadStep ==
    ASSUME IInv, NEW t \in Threads, PopRead(t) \/ PopDone(t) PROVE IInv'
<1> USE DEF ringVars, busVars, subVars, localVars, outVars, Goto
<1>1. /\ UNCHANGED <<enq, deq, ready, busVars, subVars, localVars, outVars>>
      /\ pc[t] \in InHand /\ pc'[t] \in InHand /\ pc'[t] # "deliver"
      /\ pc' \in [Threads -> Working \cup {"idle", "claimed", "drain", "check", "look"}]
      /\ \A u \in Threads : u # t => pc'[u] = pc[u]
  BY DEF IInv, Types, PopRead, PopDone, Read, GiveBack, InHand, Working
<1>2. OneDrains'
  <2>1. \A u \in Threads : pc'[u] \in Working <=> pc[u] \in Working
    BY <1>1 DEF Working
  <2> QED BY <1>1, <2>1 DEF IInv, OneDrains, Types
<1>3. /\ enq' \in Nat /\ enq' >= enq /\ ready' \subseteq deq..(enq' - 1)
      /\ slot' \in [Threads -> Nat] /\ slot' = slot /\ buffered' \subseteq Threads
  BY <1>1 DEF IInv, Types
<1> QED BY <1>1, <1>2, <1>3, QuietStep

\* Each handler of the copy is given the event.
LEMMA DeliverStep == ASSUME IInv, NEW t \in Threads, Deliver(t) PROVE IInv'
<1> USE DEF ringVars, busVars, subVars, Goto
<1>1. /\ UNCHANGED <<ringVars, busVars, subVars, slot, snap, lost>>
      /\ pc[t] = "deliver" /\ pc'[t] \in {"pop", "clear"}
      /\ pc' \in [Threads -> Working \cup {"idle", "claimed", "drain", "check", "look"}]
      /\ \A u \in Threads : u # t => pc'[u] = pc[u]
      /\ slot[t] \in Nat /\ deq = slot[t] + 1
  BY DEF IInv, Types, Hands, Deliver, Working, InHand
<1>2. \A u \in Threads : pc'[u] \notin InHand
  BY <1>1 DEF IInv, OneDrains, Working, InHand
<1>3. \A s \in Subscribers :
         /\ delivered[s] \in Seq(Nat)
         /\ delivered'[s] = IF s \in snap[t] THEN Append(delivered[s], slot[t])
                                             ELSE delivered[s]
  BY DEF IInv, Types, Deliver
<1>4. Types'
  <2>1. delivered' \in [Subscribers -> Seq(Nat)]
    BY <1>1, <1>3 DEF Deliver
  <2> QED BY <1>1, <2>1 DEF IInv, Types
<1>5. OneDrains'
  <2>1. \A u \in Threads : pc'[u] \in Working <=> pc[u] \in Working
    BY <1>1 DEF Working, InHand
  <2> QED BY <1>1, <2>1 DEF IInv, OneDrains, Types
<1>6. Copies'
  BY <1>1, <1>2 DEF IInv, Copies, InHand
<1>7. \A s \in Subscribers :
         /\ DOMAIN delivered[s] \subseteq DOMAIN delivered'[s]
         /\ \A i \in DOMAIN delivered[s] : delivered'[s][i] = delivered[s][i]
         /\ \A i \in DOMAIN delivered'[s] \ DOMAIN delivered[s] :
               delivered'[s][i] = slot[t] /\ \A j \in DOMAIN delivered[s] : j < i
         /\ \A i, j \in DOMAIN delivered'[s] \ DOMAIN delivered[s] : i = j
         /\ s \in snap[t] => \E i \in DOMAIN delivered'[s] : delivered'[s][i] = slot[t]
  <2> TAKE s \in Subscribers
  <2>1. CASE s \notin snap[t]
    BY <1>3, <2>1
  <2>2. CASE s \in snap[t]
    <3> DEFINE n == Len(delivered[s])
    <3>1. /\ DOMAIN delivered[s] = 1..n /\ DOMAIN delivered'[s] = 1..(n + 1) /\ n \in Nat
          /\ \A i \in 1..n : delivered'[s][i] = delivered[s][i]
          /\ delivered'[s][n + 1] = slot[t]
      <4>1. /\ delivered[s] \in Seq(Nat) /\ slot[t] \in Nat
            /\ delivered'[s] = Append(delivered[s], slot[t])
        BY <1>1, <1>3, <2>2
      <4> QED BY <4>1, Appended
    <3> HIDE DEF n
    <3> QED BY <3>1
  <2> QED BY <2>1, <2>2
<1>8. \A s \in Subscribers : \A i \in DOMAIN delivered[s] :
         delivered[s][i] \in Nat /\ delivered[s][i] < slot[t] /\ i \in Nat
  BY <1>1, <1>3 DEF IInv, Hands, InHand
<1>9. Hands'
  <2>1. \A s \in Subscribers : \A i \in DOMAIN delivered'[s] : delivered'[s][i] < deq
    BY <1>1, <1>7, <1>8
  <2> QED BY <1>1, <1>2, <2>1 DEF Hands
<1>10. DeliveredInOrder'
  <2> SUFFICES ASSUME NEW s \in Subscribers, NEW i \in DOMAIN delivered'[s],
                      NEW j \in DOMAIN delivered'[s], i < j
               PROVE  delivered'[s][i] < delivered'[s][j]
    BY DEF DeliveredInOrder
  <2>1. i \in DOMAIN delivered[s]
    <3>1. i \in Nat /\ j \in Nat
      BY <1>4 DEF Types
    <3> QED BY <1>7, <1>8, <3>1
  <2>2. CASE j \in DOMAIN delivered[s]
    BY <1>7, <2>1, <2>2 DEF IInv, DeliveredInOrder
  <2>3. CASE j \notin DOMAIN delivered[s]
    BY <1>7, <1>8, <2>1, <2>3
  <2> QED BY <2>2, <2>3
<1>11. SubscriberMissesNothing'
  <2> SUFFICES ASSUME NEW s \in subs, NEW p \in since[s]..(deq - 1)
               PROVE  p \in lost \/ \E i \in DOMAIN delivered'[s] : delivered'[s][i] = p
    BY <1>1 DEF SubscriberMissesNothing
  <2>1. CASE \E i \in DOMAIN delivered[s] : delivered[s][i] = p
    BY <1>7, <2>1 DEF IInv, Types
  <2>2. CASE \E u \in Threads : pc[u] \in InHand /\ slot[u] = p
    <3>1. p = slot[t]
      BY <1>1, <2>2 DEF IInv, OneDrains, Working, InHand
    <3>2. s \in snap[t] \/ p \in lost
      BY <1>1, <3>1 DEF IInv, Types, Copies
    <3> QED BY <1>7, <3>1, <3>2 DEF IInv, Types
  <2> QED BY <2>1, <2>2 DEF IInv, SubscriberMissesNothing, InHand
<1> QED BY <1>4, <1>5, <1>6, <1>9, <1>10, <1>11 DEF IInv

LEMMA IInvStep == IInv /\ [Next]_vars => IInv'
<1> SUFFICES ASSUME IInv, [Next]_vars PROVE IInv'
  OBVIOUS
<1>1. CASE UNCHANGED vars
  BY <1>1 DEF vars, ringVars, busVars, subVars, localVars, outVars, IInv, Types, OneDrains,
              Hands, Copies, DeliveredInOrder, SubscriberMissesNothing
<1> QED BY <1>1, SubscribeStep, OutsideStep, FlagStep, PopTakeStep, SnapshotStep, ReadStep,
           DeliverStep DEF Next, Drain

\* Handlers are called one thread after the other, in the order of the events,
\* and none is passed by (event_bus.c:96-160), for any number of threads.
THEOREM BusKeepsItsPromise == Spec => []BusSafe
<1>1. IInv => BusSafe
  BY DEF IInv, BusSafe
<1> QED BY <1>1, IInvInit, IInvStep, PTL DEF Spec
=============================================================================
