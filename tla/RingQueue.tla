----------------------------- MODULE RingQueue -----------------------------
(***************************************************************************)
(* What the lock-free ring of include/infra/ringbuf.h promises its users:  *)
(* a bounded queue whose elements are taken at most once, in the order in  *)
(* which their positions were claimed.  A push has two visible effects: it *)
(* claims a position, later its element is ready.  A pop takes the oldest  *)
(* element if that one is ready, reads it and only then gives its place    *)
(* back, so a push may be refused, and a pop find nothing, although an     *)
(* exact count would say otherwise.                                        *)
(***************************************************************************)
EXTENDS Integers, FiniteSets

CONSTANTS
    Capacity,   \* at least 2
    Items

VARIABLES
    enq,    \* positions 0..enq-1 have been claimed
    deq,    \* positions 0..deq-1 have been taken
    item,   \* the element of each claimed position
    ready,  \* claimed positions whose element can be taken
    busy,   \* taken positions whose place has not been given back
    got     \* what the taker of a position read there

ringVars == <<enq, deq, item, ready, busy, got>>

\* The place a push needs is the one of position enq - Capacity.
Full == enq >= Capacity /\ (enq - Capacity >= deq \/ enq - Capacity \in busy)

RingInit ==
    /\ enq = 0 /\ deq = 0
    /\ item = [p \in {} |-> {}] /\ got = [p \in {} |-> {}]
    /\ ready = {} /\ busy = {}

Claim(i) ==
    /\ ~Full
    /\ enq' = enq + 1
    /\ item' = [p \in 0..enq |-> IF p = enq THEN i ELSE item[p]]
    /\ UNCHANGED <<deq, ready, busy, got>>

MakeReady(p) ==
    /\ p \in deq..(enq - 1) /\ p \notin ready
    /\ ready' = ready \cup {p}
    /\ UNCHANGED <<enq, deq, item, busy, got>>

Take ==
    /\ deq \in ready
    /\ deq' = deq + 1
    /\ ready' = ready \ {deq}
    /\ busy' = busy \cup {deq}
    /\ UNCHANGED <<enq, item, got>>

Read(p) ==
    /\ p \in busy
    /\ got' = [q \in DOMAIN got \cup {p} |-> IF q = p THEN item[p] ELSE got[q]]
    /\ UNCHANGED <<enq, deq, item, ready, busy>>

GiveBack(p) ==
    /\ p \in busy /\ p \in DOMAIN got
    /\ busy' = busy \ {p}
    /\ UNCHANGED <<enq, deq, item, ready, got>>

RingNext ==
    \/ \E i \in Items : Claim(i)
    \/ \E p \in 0..(enq - 1) : MakeReady(p)
    \/ Take
    \/ \E p \in busy : Read(p) \/ GiveBack(p)

RingSpec == RingInit /\ [][RingNext]_ringVars
=============================================================================
