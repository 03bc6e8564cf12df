------------------------------ MODULE Ringbuf ------------------------------
(***************************************************************************)
(* src/backend/src/infra/ringbuf.c, one action per atomic access: bounded  *)
(* multi-producer multi-consumer ring with a sequence number per slot.     *)
(* Producers push a bounded number of elements, consumers pop for ever.    *)
(* A failed compare-exchange reloads the position, as C11's does; the weak *)
(* form may also fail spuriously.                                          *)
(***************************************************************************)
EXTENDS Integers, FiniteSets

CONSTANTS
    Capacity,    \* a power of two, at least 2
    Producers, Consumers,
    MaxPush,     \* bound: pushes started by one producer
    Nil          \* an empty data cell, a register not yet loaded

ASSUME RingbufAssumption ==
    /\ Capacity \in Nat \ {0, 1}
    /\ MaxPush \in Nat /\ Producers \cap Consumers = {}

VARIABLES
    data, seq, enqueue_pos, dequeue_pos,   \* struct ringbuf
    pc, pos, seen, val,                    \* per thread: place and registers
    pushes,                                \* per producer: pushes started
    item, got                              \* history: claimed and read elements

shared == <<data, seq, enqueue_pos, dequeue_pos>>
vars   == <<shared, pc, pos, seen, val, pushes, item, got>>

Threads == Producers \cup Consumers
Cells   == 0..(Capacity - 1)
Cell(p) == p % Capacity
Items   == Producers \X (1..MaxPush)

Extended(f, p, v) == [q \in DOMAIN f \cup {p} |-> IF q = p THEN v ELSE f[q]]
Goto(t, place)    == pc' = [pc EXCEPT ![t] = place]

\* ringbuf_new.
Init ==
    /\ data = [c \in Cells |-> Nil] /\ seq = [c \in Cells |-> c]
    /\ enqueue_pos = 0 /\ dequeue_pos = 0
    /\ pc = [t \in Threads |-> "idle"]
    /\ pos = [t \in Threads |-> 0] /\ seen = [t \in Threads |-> 0]
    /\ val = [t \in Threads |-> Nil]
    /\ pushes = [t \in Producers |-> 0]
    /\ item = [p \in {} |-> Nil] /\ got = [p \in {} |-> Nil]

-----------------------------------------------------------------------------
\* ringbuf_push

PushStart(t) ==
    /\ pc[t] = "idle" /\ pushes[t] < MaxPush
    /\ pushes' = [pushes EXCEPT ![t] = @ + 1]
    /\ val' = [val EXCEPT ![t] = <<t, pushes'[t]>>]
    /\ pos' = [pos EXCEPT ![t] = enqueue_pos]
    /\ Goto(t, "load")
    /\ UNCHANGED <<shared, seen, item, got>>

PushLoadSeq(t) ==
    /\ pc[t] = "load"
    /\ seen' = [seen EXCEPT ![t] = seq[Cell(pos[t])]]
    /\ Goto(t, "decide")
    /\ UNCHANGED <<shared, pos, val, pushes, item, got>>

\* The slot still holds the element of a round earlier: full.
PushFull(t) ==
    /\ pc[t] = "decide" /\ seen[t] < pos[t]
    /\ Goto(t, "idle")
    /\ UNCHANGED <<shared, pos, seen, val, pushes, item, got>>

\* Another producer has been here: reload the position.  So does a failed
\* compare-exchange.
PushRetry(t) ==
    /\ pc[t] = "decide" /\ seen[t] >= pos[t]
    /\ pos' = [pos EXCEPT ![t] = enqueue_pos]
    /\ Goto(t, "load")
    /\ UNCHANGED <<shared, seen, val, pushes, item, got>>

\* Mutated form: the position is stored without a comparison.
PushClaimUncompared(t) ==
    /\ pc[t] = "decide" /\ seen[t] = pos[t]
    /\ enqueue_pos' = pos[t] + 1
    /\ item' = Extended(item, pos[t], val[t])
    /\ Goto(t, "store")
    /\ UNCHANGED <<data, seq, dequeue_pos, pos, seen, val, pushes, got>>

PushClaim(t) ==
    /\ pc[t] = "decide" /\ seen[t] = pos[t] /\ enqueue_pos = pos[t]
    /\ enqueue_pos' = pos[t] + 1
    /\ item' = Extended(item, pos[t], val[t])
    /\ Goto(t, "store")
    /\ UNCHANGED <<data, seq, dequeue_pos, pos, seen, val, pushes, got>>

PushStore(t) ==
    /\ pc[t] = "store"
    /\ data' = [data EXCEPT ![Cell(pos[t])] = val[t]]
    /\ Goto(t, "publish")
    /\ UNCHANGED <<seq, enqueue_pos, dequeue_pos, pos, seen, val, pushes, item, got>>

PushPublish(t) ==
    /\ pc[t] = "publish"
    /\ seq' = [seq EXCEPT ![Cell(pos[t])] = pos[t] + 1]
    /\ Goto(t, "idle")
    /\ UNCHANGED <<data, enqueue_pos, dequeue_pos, pos, seen, val, pushes, item, got>>

-----------------------------------------------------------------------------
\* ringbuf_pop

PopStart(t) ==
    /\ pc[t] = "idle"
    /\ pos' = [pos EXCEPT ![t] = dequeue_pos]
    /\ Goto(t, "load")
    /\ UNCHANGED <<shared, seen, val, pushes, item, got>>

PopLoadSeq(t) ==
    /\ pc[t] = "load"
    /\ seen' = [seen EXCEPT ![t] = seq[Cell(pos[t])]]
    /\ Goto(t, "decide")
    /\ UNCHANGED <<shared, pos, val, pushes, item, got>>

PopEmpty(t) ==
    /\ pc[t] = "decide" /\ seen[t] < pos[t] + 1
    /\ Goto(t, "idle")
    /\ UNCHANGED <<shared, pos, seen, val, pushes, item, got>>

PopRetry(t) ==
    /\ pc[t] = "decide" /\ seen[t] >= pos[t] + 1
    /\ pos' = [pos EXCEPT ![t] = dequeue_pos]
    /\ Goto(t, "load")
    /\ UNCHANGED <<shared, seen, val, pushes, item, got>>

\* Mutated form: the slot is given back before its element is read.
PopClaimReleased(t) ==
    /\ pc[t] = "decide" /\ seen[t] = pos[t] + 1 /\ dequeue_pos = pos[t]
    /\ dequeue_pos' = pos[t] + 1
    /\ seq' = [seq EXCEPT ![Cell(pos[t])] = pos[t] + Capacity]
    /\ Goto(t, "read")
    /\ UNCHANGED <<data, enqueue_pos, pos, seen, val, pushes, item, got>>

PopClaim(t) ==
    /\ pc[t] = "decide" /\ seen[t] = pos[t] + 1 /\ dequeue_pos = pos[t]
    /\ dequeue_pos' = pos[t] + 1
    /\ Goto(t, "read")
    /\ UNCHANGED <<data, seq, enqueue_pos, pos, seen, val, pushes, item, got>>

PopRead(t) ==
    /\ pc[t] = "read"
    /\ val' = [val EXCEPT ![t] = data[Cell(pos[t])]]
    /\ got' = Extended(got, pos[t], val'[t])
    /\ Goto(t, "release")
    /\ UNCHANGED <<shared, pos, seen, pushes, item>>

\* Mutated form: the mask is added, not the capacity.
PopReleaseMask(t) ==
    /\ pc[t] = "release"
    /\ seq' = [seq EXCEPT ![Cell(pos[t])] = pos[t] + Capacity - 1]
    /\ Goto(t, "idle")
    /\ UNCHANGED <<data, enqueue_pos, dequeue_pos, pos, seen, val, pushes, item, got>>

PopRelease(t) ==
    /\ pc[t] = "release"
    /\ seq' = [seq EXCEPT ![Cell(pos[t])] = pos[t] + Capacity]
    /\ Goto(t, "idle")
    /\ UNCHANGED <<data, enqueue_pos, dequeue_pos, pos, seen, val, pushes, item, got>>

-----------------------------------------------------------------------------
Push(t) ==
    \/ PushStart(t) \/ PushLoadSeq(t) \/ PushFull(t) \/ PushRetry(t)
    \/ PushClaim(t) \/ PushStore(t) \/ PushPublish(t)

Pop(t) ==
    \/ PopStart(t) \/ PopLoadSeq(t) \/ PopEmpty(t) \/ PopRetry(t)
    \/ PopClaim(t) \/ PopRead(t) \/ PopRelease(t)

Next == (\E t \in Producers : Push(t)) \/ (\E t \in Consumers : Pop(t))

Spec == Init /\ [][Next]_vars

-----------------------------------------------------------------------------
\* PROPERTIES

\* Two threads never touch the cell of one slot at once, and a reader finds
\* there what the producer of its position stored: the sequence numbers are
\* the only guard of the plain element pointers in the slots.
CellHasOneUser ==
    /\ \A t, u \in Threads :
          t # u /\ pc[t] \in {"store", "publish", "read", "release"}
                /\ pc[u] \in {"store", "publish", "read", "release"}
          => Cell(pos[t]) # Cell(pos[u])
    /\ \A p \in DOMAIN got : got[p] = item[p]

\* A refused push means that the slot it needs is occupied: its element of a
\* round earlier is still claimed, waiting, or being read.
Occupied(p) ==
    \/ p \in dequeue_pos..(enqueue_pos - 1)
    \/ \E t \in Consumers : pc[t] \in {"read", "release"} /\ pos[t] = p
FullIsFull ==
    [][\A t \in Producers :
          pc[t] = "load" /\ pc'[t] = "decide" /\ seen'[t] < pos[t]
             => pos[t] = enqueue_pos /\ Occupied(pos[t] - Capacity)]_vars

\* The ring implements the queue its users rely on.
Queue == INSTANCE RingQueue WITH
    enq   <- enqueue_pos,
    deq   <- dequeue_pos,
    ready <- {p \in dequeue_pos..(enqueue_pos - 1) : seq[Cell(p)] = p + 1},
    busy  <- {pos[t] : t \in {u \in Consumers : pc[u] \in {"read", "release"}}}

ImplementsQueue == Queue!RingSpec

\* Both of them: what the ring refuses and what it does (ringbuf.c:58-128).
RingIsQueue == FullIsFull /\ ImplementsQueue
=============================================================================
