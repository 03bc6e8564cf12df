--------------------------- MODULE RingbufProofs ---------------------------
(***************************************************************************)
(* For every capacity and any number of producers and consumers, the ring  *)
(* of Ringbuf keeps its cells to one user at a time, refuses a push only   *)
(* when it is full, and implements RingQueue.                              *)
(*                                                                         *)
(* The sequence numbers carry the whole argument.  Of the Capacity         *)
(* positions that will be claimed next, each finds its cell free, or with  *)
(* its occupant of a round earlier in one of the stages of its life        *)
(* (Window); who uses a cell finds there the number it claimed it with     *)
(* (Users); and the numbers only grow, so one that was loaded is a lower   *)
(* bound of what is there now (Loaded), which is all a claim needs.        *)
(***************************************************************************)
EXTENDS Ringbuf, TLAPS

Pushing == {"store", "publish"}
Popping == {"read", "release"}

Types ==
    /\ data \in [Cells -> Items \cup {Nil}]
    /\ seq \in [Cells -> Nat]
    /\ enqueue_pos \in Nat /\ dequeue_pos \in Nat
    /\ pc \in [Threads -> {"idle", "load", "decide"} \cup Pushing \cup Popping]
    /\ pos \in [Threads -> Nat] /\ seen \in [Threads -> Nat]
    /\ val \in [Threads -> Items \cup {Nil}]
    /\ pushes \in [Producers -> 0..MaxPush]
    /\ DOMAIN item = 0..(enqueue_pos - 1)
    /\ \A t \in Producers : pc[t] \notin Popping
    /\ \A t \in Consumers : pc[t] \notin Pushing

\* As many positions are claimed and not given back as there are cells.
Bounded == dequeue_pos <= enqueue_pos /\ enqueue_pos <= dequeue_pos + Capacity

\* The cell of a position that is still to be claimed: free, claimed by the
\* occupant of a round earlier, published, or being read.
Window ==
    \A p \in enqueue_pos..(enqueue_pos + Capacity - 1) :
        LET q == p - Capacity
        IN  \/ seq[Cell(p)] = p /\ q < dequeue_pos
            \/ seq[Cell(p)] = q /\ q >= dequeue_pos
            \/ seq[Cell(p)] = q + 1 /\ q >= dequeue_pos
            \/ /\ seq[Cell(p)] = q + 1 /\ q >= 0
               /\ \E t \in Consumers : pc[t] \in Popping /\ pos[t] = q

\* Who has claimed a position, and what the cell then says.
Users ==
    /\ \A t \in Producers : pc[t] \in Pushing =>
          /\ pos[t] \in dequeue_pos..(enqueue_pos - 1)
          /\ seq[Cell(pos[t])] = pos[t]
    /\ \A t \in Consumers : pc[t] \in Popping =>
          /\ pos[t] < dequeue_pos /\ pos[t] >= enqueue_pos - Capacity
          /\ seq[Cell(pos[t])] = pos[t] + 1
    /\ \A t, u \in Threads :
          t # u /\ pc[t] \in Pushing \cup Popping /\ pc[u] \in Pushing \cup Popping
          => pos[t] # pos[u]

\* What was loaded is not yet, or no longer, what is there.
Loaded ==
    /\ \A t \in Producers : pos[t] <= enqueue_pos
    /\ \A t \in Threads : pc[t] = "decide" => seen[t] <= seq[Cell(pos[t])]
    /\ \A p \in 0..(enqueue_pos - 1) : seq[Cell(p)] >= p

\* The element of a position on its way from its producer to its consumer.
Elements ==
    /\ \A t \in Producers : pc[t] \in {"load", "decide"} => val[t] \in Items
    /\ \A t \in Producers : pc[t] = "store" => item[pos[t]] = val[t]
    /\ \A t \in Producers : pc[t] = "publish" => item[pos[t]] = data[Cell(pos[t])]
    /\ \A p \in dequeue_pos..(enqueue_pos - 1) :
          seq[Cell(p)] = p + 1 => item[p] = data[Cell(p)]
    /\ \A t \in Consumers : pc[t] = "read" => item[pos[t]] = data[Cell(pos[t])]

\* What was taken.
Taken ==
    /\ DOMAIN got \subseteq 0..(dequeue_pos - 1)
    /\ \A p \in DOMAIN got : got[p] = item[p]
    /\ \A t \in Consumers : pc[t] = "release" => pos[t] \in DOMAIN got

IInv == Types /\ Bounded /\ Window /\ Users /\ Loaded /\ Elements /\ Taken

-----------------------------------------------------------------------------
\* The cell of a position (ringbuf.c's pos & mask).

LEMMA CellRange == \A p \in Int : Cell(p) \in Cells
  BY RingbufAssumption DEF Cell, Cells

\* Division by the capacity has one quotient and one remainder.
LEMMA OneQuotient ==
    ASSUME NEW k \in Int, NEW l \in Int, NEW a \in Cells, NEW b \in Cells,
           Capacity * k + a = Capacity * l + b
    PROVE  a = b
<1> USE RingbufAssumption DEF Cells
<1>1. CASE k < l
  <2>1. Capacity * (l - k) >= Capacity
    BY <1>1
  <2>2. Capacity * (l - k) = Capacity * l - Capacity * k
    OBVIOUS
  <2> QED BY <2>1, <2>2
<1>2. CASE l < k
  <2>1. Capacity * (k - l) >= Capacity
    BY <1>2
  <2>2. Capacity * (k - l) = Capacity * k - Capacity * l
    OBVIOUS
  <2> QED BY <2>1, <2>2
<1> QED BY <1>1, <1>2

LEMMA Quotient ==
    \A p \in Int : /\ p \div Capacity \in Int /\ Cell(p) \in Cells
                   /\ p = Capacity * (p \div Capacity) + Cell(p)
  BY RingbufAssumption DEF Cell, Cells

\* A round later the same cell is used again.
LEMMA CellNext == \A p \in Int : Cell(p + Capacity) = Cell(p)
<1> SUFFICES ASSUME NEW p \in Int PROVE Cell(p + Capacity) = Cell(p)
  OBVIOUS
<1> DEFINE k == p \div Capacity
           l == (p + Capacity) \div Capacity
<1>1. p + Capacity \in Int
  BY RingbufAssumption
<1>2. /\ p = Capacity * k + Cell(p) /\ k \in Int /\ Cell(p) \in Cells
      /\ p + Capacity = Capacity * l + Cell(p + Capacity)
      /\ l \in Int /\ Cell(p + Capacity) \in Cells
  BY <1>1, Quotient
<1> HIDE DEF k, l
<1>3. Capacity * (k + 1) = Capacity * k + Capacity
  BY <1>2, RingbufAssumption
<1>4. Capacity * (k + 1) + Cell(p) = Capacity * l + Cell(p + Capacity)
  BY <1>2, <1>3, RingbufAssumption DEF Cells
<1> QED BY <1>2, <1>4, OneQuotient

\* Within a round no cell is used twice.
LEMMA CellsApart ==
    ASSUME NEW p \in Int, NEW q \in Int, p # q, p < q + Capacity, q < p + Capacity
    PROVE  Cell(p) # Cell(q)
<1> SUFFICES ASSUME Cell(p) = Cell(q) PROVE FALSE
  OBVIOUS
<1> DEFINE k == p \div Capacity
           l == q \div Capacity
<1>1. /\ p = Capacity * k + Cell(p) /\ k \in Int /\ Cell(p) \in Cells
      /\ q = Capacity * l + Cell(q) /\ l \in Int
  BY Quotient
<1> HIDE DEF k, l
<1>2. Capacity * (l - k) = Capacity * l - Capacity * k
  BY <1>1, RingbufAssumption
<1>3. Capacity * (l - k) = q - p
  BY <1>1, <1>2, RingbufAssumption DEF Cells
<1>4. CASE l - k >= 1
  BY <1>1, <1>3, <1>4, RingbufAssumption
<1>5. CASE l - k <= -1
  <2>1. Capacity * (l - k) <= -Capacity
    BY <1>1, <1>5, RingbufAssumption
  <2> QED BY <1>3, <2>1, RingbufAssumption
<1>6. CASE l = k
  BY <1>1, <1>3, <1>6, RingbufAssumption
<1> QED BY <1>1, <1>4, <1>5, <1>6

-----------------------------------------------------------------------------
\* What the sequence numbers tell the threads.

\* The positions in use lie within one round.
LEMMA UsersApart ==
    ASSUME IInv, NEW t \in Threads, NEW u \in Threads, t # u,
           pc[t] \in Pushing \cup Popping, pc[u] \in Pushing \cup Popping
    PROVE  pos[t] # pos[u] /\ Cell(pos[t]) # Cell(pos[u])
<1> USE RingbufAssumption
<1>1. \A v \in {t, u} : /\ pos[v] \in Int /\ pos[v] < enqueue_pos
                        /\ pos[v] >= enqueue_pos - Capacity
  BY DEF IInv, Types, Bounded, Users, Threads, Pushing, Popping
<1>2. pos[t] # pos[u] /\ enqueue_pos \in Nat
  BY DEF IInv, Types, Users
<1> QED BY <1>1, <1>2, CellsApart

\* A number at least as large as the position: the cell is free.
LEMMA FreeWhenLarge ==
    ASSUME IInv, seq[Cell(enqueue_pos)] >= enqueue_pos
    PROVE  /\ seq[Cell(enqueue_pos)] = enqueue_pos
           /\ enqueue_pos - Capacity < dequeue_pos
           /\ \A t \in Consumers :
                 pc[t] \in Popping => pos[t] # enqueue_pos - Capacity
<1> USE RingbufAssumption
<1>1. enqueue_pos \in enqueue_pos..(enqueue_pos + Capacity - 1) /\ enqueue_pos \in Nat
  BY DEF IInv, Types
<1>2. seq[Cell(enqueue_pos)] \in Nat
  BY <1>1, CellRange DEF IInv, Types
<1>3. seq[Cell(enqueue_pos)] = enqueue_pos /\ enqueue_pos - Capacity < dequeue_pos
  BY <1>1, <1>2 DEF IInv, Window
<1>4. Cell(enqueue_pos - Capacity) = Cell(enqueue_pos)
  BY <1>1, CellNext
<1> QED BY <1>1, <1>3, <1>4 DEF IInv, Users

\* The number of a published element: it is there and has not been taken.
LEMMA PublishedWhenNext ==
    ASSUME IInv, seq[Cell(dequeue_pos)] >= dequeue_pos + 1
    PROVE  dequeue_pos < enqueue_pos /\ seq[Cell(dequeue_pos)] = dequeue_pos + 1
<1> USE RingbufAssumption
<1>1. /\ enqueue_pos \in Nat /\ dequeue_pos \in Nat
      /\ dequeue_pos <= enqueue_pos /\ enqueue_pos <= dequeue_pos + Capacity
  BY DEF IInv, Types, Bounded
<1>2. seq[Cell(dequeue_pos)] \in Nat
  BY <1>1, CellRange DEF IInv, Types
<1>3. dequeue_pos # enqueue_pos
  <2>1. enqueue_pos \in enqueue_pos..(enqueue_pos + Capacity - 1)
    BY <1>1
  <2> QED BY <1>1, <1>2, <2>1 DEF IInv, Window
<1> DEFINE p == dequeue_pos + Capacity
<1>4. p \in enqueue_pos..(enqueue_pos + Capacity - 1) /\ p - Capacity = dequeue_pos
  BY <1>1, <1>3
<1>5. Cell(p) = Cell(dequeue_pos)
  BY <1>1, CellNext
<1> HIDE DEF p
<1> QED BY <1>1, <1>2, <1>3, <1>4, <1>5 DEF IInv, Window
-----------------------------------------------------------------------------
\* The invariant is inductive: one lemma per action that touches the ring,
\* one for all those that only load, decide, or give up.

\* ringbuf_new.
LEMMA IInvInit == Init => IInv
<1> SUFFICES ASSUME Init PROVE IInv
  OBVIOUS
<1> USE RingbufAssumption
<1>1. Types
  BY DEF Init, Types, Cells, Threads, Pushing, Popping
<1>2. Window
  <2> SUFFICES ASSUME NEW p \in enqueue_pos..(enqueue_pos + Capacity - 1)
               PROVE  seq[Cell(p)] = p /\ p - Capacity < dequeue_pos
    BY DEF Window
  <2>1. p \in Cells /\ dequeue_pos = 0
    BY DEF Init, Cells
  <2>2. Cell(p) = p
    BY <2>1 DEF Cell, Cells
  <2> QED BY <2>1, <2>2 DEF Init, Cells
<1>3. Bounded /\ Users /\ Loaded /\ Elements /\ Taken
  BY DEF Init, Bounded, Users, Loaded, Elements, Taken, Threads, Pushing, Popping
<1> QED BY <1>1, <1>2, <1>3 DEF IInv

\* The steps of one thread outside of the stretch in which it uses a cell.
LEMMA OutsideStep ==
    ASSUME IInv, NEW t \in Threads,
           UNCHANGED <<shared, item, got>>,
           pc[t] \in {"idle", "load", "decide"}, pc'[t] \in {"idle", "load", "decide"},
           pc' \in [Threads -> {"idle", "load", "decide"} \cup Pushing \cup Popping],
           pos' \in [Threads -> Nat], seen' \in [Threads -> Nat],
           val' \in [Threads -> Items \cup {Nil}],
           pushes' \in [Producers -> 0..MaxPush],
           \A u \in Threads : u # t => /\ pc'[u] = pc[u] /\ pos'[u] = pos[u]
                                       /\ seen'[u] = seen[u] /\ val'[u] = val[u],
           t \in Producers => pos'[t] <= enqueue_pos,
           pc'[t] = "decide" => seen'[t] <= seq[Cell(pos'[t])],
           t \in Producers /\ pc'[t] \in {"load", "decide"} => val'[t] \in Items
    PROVE  IInv'
<1> USE DEF shared, Cell
<1>1. Types'
  BY DEF IInv, Types, Threads, Cells, Pushing, Popping, Items
<1>2. Bounded'
  BY DEF IInv, Bounded
<1>3. Window'
  <2>1. \A u \in Consumers : pc[u] \in Popping => pc'[u] = pc[u] /\ pos'[u] = pos[u]
    BY DEF Popping, Threads
  <2> QED BY <2>1 DEF IInv, Window
<1>4. Users'
  <2>1. \A u \in Threads : pc'[u] \in Pushing \cup Popping =>
           u # t /\ pc'[u] = pc[u] /\ pos'[u] = pos[u]
    BY DEF Pushing, Popping
  <2> QED BY <2>1 DEF IInv, Users, Threads
<1>5. Loaded'
  BY DEF IInv, Loaded, Threads
<1>6. Elements'
  BY DEF IInv, Elements, Threads
<1>7. Taken'
  BY DEF IInv, Taken, Threads
<1> QED BY <1>1, <1>2, <1>3, <1>4, <1>5, <1>6, <1>7 DEF IInv

LEMMA PushOutside ==
    ASSUME IInv, NEW t \in Producers,
           PushStart(t) \/ PushLoadSeq(t) \/ PushFull(t) \/ PushRetry(t)
    PROVE  IInv'
<1> USE RingbufAssumption DEF Goto
<1>1. t \in Threads /\ enqueue_pos \in Nat /\ dequeue_pos \in Nat /\ Types
  BY DEF IInv, Types, Threads
<1>2. pos[t] \in Nat /\ seq[Cell(pos[t])] \in Nat
  BY <1>1, CellRange DEF Types
<1>3. CASE PushStart(t)
  <2>1. pushes'[t] \in 1..MaxPush /\ pushes' \in [Producers -> 0..MaxPush]
    BY <1>1, <1>3 DEF Types, PushStart
  <2>2. <<t, pushes'[t]>> \in Items
    BY <2>1 DEF Items
  <2>3. /\ pc[t] = "idle" /\ pc'[t] = "load" /\ pos'[t] = enqueue_pos
        /\ val'[t] = <<t, pushes'[t]>>
        /\ UNCHANGED <<shared, item, got>> /\ seen' = seen
        /\ \A u \in Threads : u # t => /\ pc'[u] = pc[u] /\ pos'[u] = pos[u]
                                       /\ seen'[u] = seen[u] /\ val'[u] = val[u]
    BY <1>1, <1>3 DEF PushStart, Types
  <2>4. /\ pc' \in [Threads -> {"idle", "load", "decide"} \cup Pushing \cup Popping]
        /\ pos' \in [Threads -> Nat] /\ seen' \in [Threads -> Nat]
        /\ val' \in [Threads -> Items \cup {Nil}]
    BY <1>1, <1>3, <2>2 DEF PushStart, Types
  <2> QED BY <1>1, <2>1, <2>2, <2>3, <2>4, OutsideStep
<1>4. CASE PushLoadSeq(t)
  <2>1. pos[t] <= enqueue_pos /\ val[t] \in Items
    BY <1>4 DEF PushLoadSeq, IInv, Loaded, Elements
  <2>2. /\ pc[t] = "load" /\ pc'[t] = "decide" /\ pos' = pos /\ val' = val
        /\ seen'[t] = seq[Cell(pos[t])] /\ pushes' = pushes
        /\ UNCHANGED <<shared, item, got>>
        /\ \A u \in Threads : u # t => pc'[u] = pc[u] /\ seen'[u] = seen[u]
    BY <1>1, <1>4 DEF PushLoadSeq, Types
  <2>3. /\ pc' \in [Threads -> {"idle", "load", "decide"} \cup Pushing \cup Popping]
        /\ seen' \in [Threads -> Nat]
    BY <1>1, <1>2, <1>4 DEF PushLoadSeq, Types
  <2>4. /\ pos'[t] <= enqueue_pos /\ seen'[t] <= seq[Cell(pos'[t])] /\ val'[t] \in Items
        /\ pos' \in [Threads -> Nat] /\ val' \in [Threads -> Items \cup {Nil}]
        /\ pushes' \in [Producers -> 0..MaxPush]
    BY <1>1, <1>2, <2>1, <2>2 DEF Types
  <2> QED BY <1>1, <2>2, <2>3, <2>4, OutsideStep
<1>5. CASE PushFull(t)
  BY <1>1, <1>5, OutsideStep DEF PushFull, Types, IInv, Loaded
<1>6. CASE PushRetry(t)
  <2>1. /\ pc[t] = "decide" /\ pc'[t] = "load" /\ pos'[t] = enqueue_pos
        /\ seen' = seen /\ val' = val /\ pushes' = pushes
        /\ UNCHANGED <<shared, item, got>> /\ val[t] \in Items
        /\ \A u \in Threads : u # t => pc'[u] = pc[u] /\ pos'[u] = pos[u]
    BY <1>1, <1>6 DEF PushRetry, Types, IInv, Elements
  <2>2. /\ pc' \in [Threads -> {"idle", "load", "decide"} \cup Pushing \cup Popping]
        /\ pos' \in [Threads -> Nat]
    BY <1>1, <1>6 DEF PushRetry, Types
  <2>3. /\ pos'[t] <= enqueue_pos /\ val'[t] \in Items
        /\ seen' \in [Threads -> Nat] /\ val' \in [Threads -> Items \cup {Nil}]
        /\ pushes' \in [Producers -> 0..MaxPush]
    BY <1>1, <2>1 DEF Types
  <2> QED BY <1>1, <2>1, <2>2, <2>3, OutsideStep
<1> QED BY <1>3, <1>4, <1>5, <1>6

LEMMA PopOutside ==
    ASSUME IInv, NEW t \in Consumers,
           PopStart(t) \/ PopLoadSeq(t) \/ PopEmpty(t) \/ PopRetry(t)
    PROVE  IInv'
<1> USE RingbufAssumption DEF Goto
<1>1. t \in Threads /\ t \notin Producers /\ dequeue_pos \in Nat /\ Types
  BY DEF IInv, Types, Threads
<1>2. pos[t] \in Nat /\ seq[Cell(pos[t])] \in Nat
  BY <1>1, CellRange DEF Types
<1>3. CASE PopStart(t)
  BY <1>1, <1>3, OutsideStep DEF PopStart, Types
<1>4. CASE PopLoadSeq(t)
  <2>1. /\ pc[t] = "load" /\ pc'[t] = "decide" /\ pos' = pos /\ val' = val
        /\ seen'[t] = seq[Cell(pos[t])] /\ pushes' = pushes
        /\ UNCHANGED <<shared, item, got>>
        /\ \A u \in Threads : u # t => pc'[u] = pc[u] /\ seen'[u] = seen[u]
    BY <1>1, <1>4 DEF PopLoadSeq, Types
  <2>2. /\ pc' \in [Threads -> {"idle", "load", "decide"} \cup Pushing \cup Popping]
        /\ seen' \in [Threads -> Nat]
    BY <1>1, <1>2, <1>4 DEF PopLoadSeq, Types
  <2>3. /\ seen'[t] <= seq[Cell(pos'[t])] /\ pos' \in [Threads -> Nat]
        /\ val' \in [Threads -> Items \cup {Nil}]
        /\ pushes' \in [Producers -> 0..MaxPush]
    BY <1>1, <1>2, <2>1 DEF Types
  <2> QED BY <1>1, <2>1, <2>2, <2>3, OutsideStep
<1>5. CASE PopEmpty(t)
  BY <1>1, <1>5, OutsideStep DEF PopEmpty, Types
<1>6. CASE PopRetry(t)
  BY <1>1, <1>6, OutsideStep DEF PopRetry, Types
<1> QED BY <1>3, <1>4, <1>5, <1>6

\* The compare-exchange of ringbuf_push: the cell is free for its position.
LEMMA PushClaimStep ==
    ASSUME IInv, NEW t \in Producers, PushClaim(t) PROVE IInv'
<1> USE RingbufAssumption DEF Goto
<1> DEFINE e == enqueue_pos
<1>1. /\ t \in Threads /\ e \in Nat /\ dequeue_pos \in Nat /\ pos[t] = e
      /\ pos \in [Threads -> Nat] /\ seen \in [Threads -> Nat]
      /\ dequeue_pos <= e /\ seq \in [Cells -> Nat]
  BY DEF IInv, Types, Bounded, Threads, PushClaim
<1>2. seq[Cell(e)] >= e
  <2>1. seq[Cell(e)] \in Nat
    BY <1>1, CellRange
  <2> QED BY <1>1, <2>1 DEF IInv, Loaded, PushClaim
<1>3. /\ seq[Cell(e)] = e /\ e - Capacity < dequeue_pos
      /\ \A u \in Consumers : pc[u] \in Popping => pos[u] # e - Capacity
  BY <1>2, FreeWhenLarge
<1>4. /\ pc'[t] = "store" /\ \A u \in Threads : u # t => pc'[u] = pc[u]
      /\ \A u \in Consumers : u # t
  BY <1>1 DEF PushClaim, IInv, Types
<1>5. /\ item'[e] = val[t] /\ \A p \in 0..(e - 1) : item'[p] = item[p]
      /\ DOMAIN item' = 0..e
  BY <1>1 DEF PushClaim, IInv, Types, Extended
<1>6. Types'
  <2>1. /\ pc' \in [Threads -> {"idle", "load", "decide"} \cup Pushing \cup Popping]
        /\ \A u \in Producers : pc'[u] \notin Popping
        /\ \A u \in Consumers : pc'[u] \notin Pushing
    BY <1>1, <1>4 DEF PushClaim, IInv, Types, Pushing, Popping, Threads
  <2> QED BY <1>1, <1>5, <2>1 DEF PushClaim, IInv, Types
<1>7. Bounded'
  BY <1>1, <1>3 DEF PushClaim, IInv, Bounded
<1>8. Window'
  <2> SUFFICES ASSUME NEW p \in (e + 1)..(e + Capacity)
               PROVE  LET q == p - Capacity
                      IN  \/ seq[Cell(p)] = p /\ q < dequeue_pos
                          \/ seq[Cell(p)] = q /\ q >= dequeue_pos
                          \/ seq[Cell(p)] = q + 1 /\ q >= dequeue_pos
                          \/ /\ seq[Cell(p)] = q + 1 /\ q >= 0
                             /\ \E u \in Consumers : pc'[u] \in Popping /\ pos[u] = q
    BY <1>1 DEF PushClaim, Window, Cell
  <2>1. CASE p = e + Capacity
    BY <1>1, <1>3, <2>1, CellNext
  <2>2. CASE p \in e..(e + Capacity - 1)
    BY <1>4, <2>2 DEF IInv, Window, Threads
  <2> QED BY <1>1, <2>1, <2>2
<1>9. Users'
  <2>1. \A u \in Threads : pc'[u] \in Pushing \cup Popping /\ u # t =>
           pc[u] \in Pushing \cup Popping /\ pos[u] < e
    BY <1>1, <1>4 DEF IInv, Users, Threads, Types, Pushing, Popping
  <2>2. \A u \in Producers : pc'[u] \in Pushing =>
           pos[u] \in dequeue_pos..e /\ seq[Cell(pos[u])] = pos[u]
    BY <1>1, <1>3, <1>4 DEF IInv, Users, Threads
  <2>3. \A u \in Consumers : pc'[u] \in Popping =>
           /\ pos[u] < dequeue_pos /\ pos[u] >= e + 1 - Capacity
           /\ seq[Cell(pos[u])] = pos[u] + 1
    BY <1>1, <1>3, <1>4 DEF IInv, Users, Threads
  <2>4. \A u, v \in Threads :
           u # v /\ pc'[u] \in Pushing \cup Popping /\ pc'[v] \in Pushing \cup Popping
              => pos[u] # pos[v]
    BY <1>1, <2>1 DEF IInv, Users
  <2> QED BY <1>1, <2>2, <2>3, <2>4 DEF PushClaim, Users, Cell
<1>10. Loaded'
  <2>1. \A u \in Producers : pos[u] <= e + 1
    BY <1>1 DEF IInv, Loaded, Threads
  <2>2. \A u \in Threads : pc'[u] = "decide" => seen[u] <= seq[Cell(pos[u])]
    BY <1>4 DEF IInv, Loaded
  <2>3. \A p \in 0..e : seq[Cell(p)] >= p
    BY <1>1, <1>3 DEF IInv, Loaded
  <2>4. /\ enqueue_pos' = e + 1 /\ pos' = pos /\ seen' = seen /\ seq' = seq
        /\ (e + 1) - 1 = e
    BY <1>1 DEF PushClaim
  <2> QED BY <2>1, <2>2, <2>3, <2>4 DEF Loaded, Cell
<1>11. Elements'
  <2>1. \A u \in Producers : pc'[u] = "store" => item'[pos[u]] = val[u]
    BY <1>1, <1>4, <1>5, SMTT(30) DEF IInv, Elements, Users, Threads, Pushing
  <2>2. \A u \in Producers : pc'[u] = "publish" => item'[pos[u]] = data[Cell(pos[u])]
    BY <1>1, <1>4, <1>5 DEF IInv, Elements, Users, Threads, Pushing
  <2>3. \A p \in dequeue_pos..e : seq[Cell(p)] = p + 1 => item'[p] = data[Cell(p)]
    BY <1>1, <1>3, <1>5 DEF IInv, Elements
  <2>4. \A u \in Consumers : pc'[u] = "read" => item'[pos[u]] = data[Cell(pos[u])]
    BY <1>1, <1>4, <1>5 DEF IInv, Elements, Users, Threads, Popping
  <2> QED BY <1>1, <1>4, <2>1, <2>2, <2>3, <2>4
          DEF PushClaim, IInv, Elements, Cell, Threads
<1>12. Taken'
  <2>1. DOMAIN got \subseteq 0..(e - 1)
    BY <1>1 DEF IInv, Taken
  <2>2. \A p \in DOMAIN got : got[p] = item'[p]
    BY <1>5, <2>1 DEF IInv, Taken
  <2>3. \A u \in Consumers : pc'[u] = "release" => pos[u] \in DOMAIN got
    BY <1>4 DEF IInv, Taken, Threads
  <2>4. got' = got /\ pos' = pos /\ dequeue_pos' = dequeue_pos
    BY DEF PushClaim
  <2> QED BY <2>2, <2>3, <2>4 DEF IInv, Taken
<1> QED BY <1>6, <1>7, <1>8, <1>9, <1>10, <1>11, <1>12 DEF IInv

\* The cell of a push is no cell another thread reads, or will read.
LEMMA PushStoreStep ==
    ASSUME IInv, NEW t \in Producers, PushStore(t) PROVE IInv'
<1> USE RingbufAssumption DEF Goto
<1> DEFINE e == enqueue_pos
<1>1. /\ t \in Threads /\ e \in Nat /\ dequeue_pos \in Nat /\ pos \in [Threads -> Nat]
      /\ dequeue_pos <= e /\ e <= dequeue_pos + Capacity
      /\ pc[t] \in Pushing /\ val[t] \in Items \cup {Nil}
  BY DEF IInv, Types, Bounded, Threads, PushStore, Pushing
<1>2. /\ pc'[t] = "publish" /\ \A u \in Threads : u # t => pc'[u] = pc[u]
      /\ \A u \in Consumers : u # t
  BY <1>1 DEF PushStore, IInv, Types
<1>3. pos[t] \in dequeue_pos..(e - 1) /\ seq[Cell(pos[t])] = pos[t]
  BY <1>1 DEF IInv, Users
<1>4. /\ data' = [data EXCEPT ![Cell(pos[t])] = val[t]]
      /\ Cell(pos[t]) \in Cells /\ data \in [Cells -> Items \cup {Nil}]
  BY <1>1, CellRange DEF PushStore, IInv, Types
<1>5. \A u \in Threads : u # t /\ pc[u] \in Pushing \cup Popping
                            => data'[Cell(pos[u])] = data[Cell(pos[u])]
  <2> TAKE u \in Threads
  <2> HAVE u # t /\ pc[u] \in Pushing \cup Popping
  <2>1. Cell(pos[u]) # Cell(pos[t]) /\ Cell(pos[u]) \in Cells
    BY <1>1, UsersApart, CellRange
  <2> QED BY <1>4, <2>1
<1>6. Types'
  <2>1. data' \in [Cells -> Items \cup {Nil}]
    BY <1>1, <1>4
  <2>2. /\ pc' \in [Threads -> {"idle", "load", "decide"} \cup Pushing \cup Popping]
        /\ \A u \in Producers : pc'[u] \notin Popping
        /\ \A u \in Consumers : pc'[u] \notin Pushing
    BY <1>1, <1>2 DEF PushStore, IInv, Types, Pushing, Popping, Threads
  <2> QED BY <2>1, <2>2 DEF PushStore, IInv, Types
<1>7. Bounded' /\ Window'
  BY <1>2 DEF PushStore, IInv, Bounded, Window, Cell, Threads
<1>8. Users'
  <2>1. \A u \in Threads : pc'[u] \in Pushing \cup Popping => pc[u] \in Pushing \cup Popping
    BY <1>1, <1>2
  <2>2. \A u \in Producers : pc'[u] \in Pushing => pc[u] \in Pushing
    BY <1>1, <1>2 DEF Threads
  <2> QED BY <1>2, <2>1, <2>2 DEF PushStore, IInv, Users, Cell, Threads
<1>9. Loaded'
  BY <1>2 DEF PushStore, IInv, Loaded, Cell, Threads
<1>10. Elements'
  <2>1. \A u \in Producers : pc'[u] = "publish" => item[pos[u]] = data'[Cell(pos[u])]
    <3> SUFFICES ASSUME NEW u \in Producers, pc'[u] = "publish"
                 PROVE  item[pos[u]] = data'[Cell(pos[u])]
      OBVIOUS
    <3>1. CASE u = t
      BY <1>1, <1>4, <3>1 DEF PushStore, IInv, Elements
    <3>2. CASE u # t
      BY <1>2, <1>5, <3>2 DEF IInv, Elements, Threads, Pushing
    <3> QED BY <3>1, <3>2
  <2>2. \A p \in dequeue_pos..(e - 1) : seq[Cell(p)] = p + 1 => item[p] = data'[Cell(p)]
    <3> SUFFICES ASSUME NEW p \in dequeue_pos..(e - 1), seq[Cell(p)] = p + 1
                 PROVE  item[p] = data'[Cell(p)]
      OBVIOUS
    <3>1. p # pos[t]
      BY <1>1, <1>3
    <3>2. Cell(p) # Cell(pos[t]) /\ Cell(p) \in Cells
      BY <1>1, <1>3, <3>1, CellsApart, CellRange
    <3> QED BY <1>4, <3>2 DEF IInv, Elements
  <2>3. \A u \in Consumers : pc'[u] = "read" => item[pos[u]] = data'[Cell(pos[u])]
    BY <1>2, <1>5 DEF IInv, Elements, Threads, Popping
  <2> QED BY <1>2, <2>1, <2>2, <2>3 DEF PushStore, IInv, Elements, Cell, Threads
<1>11. Taken'
  BY <1>2 DEF PushStore, IInv, Taken, Threads
<1> QED BY <1>6, <1>7, <1>8, <1>9, <1>10, <1>11 DEF IInv

\* A published cell is the one of the position a round later.
LEMMA PushPublishStep ==
    ASSUME IInv, NEW t \in Producers, PushPublish(t) PROVE IInv'
<1> USE RingbufAssumption DEF Goto
<1> DEFINE e == enqueue_pos
           c == Cell(pos[t])
<1>1. /\ t \in Threads /\ e \in Nat /\ dequeue_pos \in Nat /\ pos \in [Threads -> Nat]
      /\ dequeue_pos <= e /\ e <= dequeue_pos + Capacity
      /\ pc[t] \in Pushing /\ seq \in [Cells -> Nat] /\ seen \in [Threads -> Nat]
  BY DEF IInv, Types, Bounded, Threads, PushPublish, Pushing
<1>2. /\ pc'[t] = "idle" /\ \A u \in Threads : u # t => pc'[u] = pc[u]
      /\ \A u \in Consumers : u # t
  BY <1>1 DEF PushPublish, IInv, Types
<1>3. pos[t] \in dequeue_pos..(e - 1) /\ seq[c] = pos[t] /\ c \in Cells
  BY <1>1, CellRange DEF IInv, Users
<1>4. seq' = [seq EXCEPT ![c] = pos[t] + 1]
  BY DEF PushPublish
<1> HIDE DEF c
<1>5. \A u \in Threads : u # t /\ pc[u] \in Pushing \cup Popping
                            => seq'[Cell(pos[u])] = seq[Cell(pos[u])]
  <2> TAKE u \in Threads
  <2> HAVE u # t /\ pc[u] \in Pushing \cup Popping
  <2>1. Cell(pos[u]) # c /\ Cell(pos[u]) \in Cells
    BY <1>1, UsersApart, CellRange DEF c
  <2> QED BY <1>1, <1>4, <2>1
<1>6. \A d \in Cells : seq'[d] >= seq[d] /\ seq'[d] \in Nat
  BY <1>1, <1>3, <1>4
<1>7. Types'
  <2>1. seq' \in [Cells -> Nat]
    BY <1>1, <1>3, <1>4
  <2>2. /\ pc' \in [Threads -> {"idle", "load", "decide"} \cup Pushing \cup Popping]
        /\ \A u \in Producers : pc'[u] \notin Popping
        /\ \A u \in Consumers : pc'[u] \notin Pushing
    BY <1>1, <1>2 DEF PushPublish, IInv, Types, Pushing, Popping, Threads
  <2> QED BY <2>1, <2>2 DEF PushPublish, IInv, Types
<1>8. Bounded'
  BY DEF PushPublish, IInv, Bounded
<1>9. Window'
  <2> SUFFICES ASSUME NEW p \in e..(e + Capacity - 1)
               PROVE  LET q == p - Capacity
                      IN  \/ seq'[Cell(p)] = p /\ q < dequeue_pos
                          \/ seq'[Cell(p)] = q /\ q >= dequeue_pos
                          \/ seq'[Cell(p)] = q + 1 /\ q >= dequeue_pos
                          \/ /\ seq'[Cell(p)] = q + 1 /\ q >= 0
                             /\ \E u \in Consumers : pc'[u] \in Popping /\ pos[u] = q
    BY DEF PushPublish, Window, Cell
  <2>1. CASE p = pos[t] + Capacity
    <3>1. Cell(p) = c
      BY <1>1, <2>1, CellNext DEF c
    <3> QED BY <1>1, <1>3, <1>4, <2>1, <3>1
  <2>2. CASE p # pos[t] + Capacity
    <3>1. Cell(p) # Cell(pos[t] + Capacity)
      BY <1>1, <1>3, <2>2, CellsApart
    <3>2. Cell(p) # c /\ Cell(p) \in Cells
      BY <1>1, <3>1, CellNext, CellRange DEF c
    <3>3. seq'[Cell(p)] = seq[Cell(p)]
      BY <1>1, <1>4, <3>2
    <3>4. \A u \in Consumers : pc[u] \in Popping => pc'[u] \in Popping
      BY <1>2 DEF Threads
    <3> QED BY <3>3, <3>4 DEF IInv, Window
  <2> QED BY <2>1, <2>2
<1>10. Users'
  <2>1. \A u \in Threads : pc'[u] \in Pushing \cup Popping =>
           u # t /\ pc[u] = pc'[u] /\ seq'[Cell(pos[u])] = seq[Cell(pos[u])]
    BY <1>1, <1>2, <1>5 DEF Pushing, Popping
  <2> QED BY <2>1 DEF PushPublish, IInv, Users, Cell, Threads
<1>11. Loaded'
  <2>1. \A u \in Threads : pc'[u] = "decide" => seen[u] <= seq'[Cell(pos[u])]
    <3> SUFFICES ASSUME NEW u \in Threads, pc'[u] = "decide"
                 PROVE  seen[u] <= seq'[Cell(pos[u])]
      OBVIOUS
    <3>1. Cell(pos[u]) \in Cells /\ seen[u] <= seq[Cell(pos[u])] /\ seen[u] \in Nat
      BY <1>1, <1>2, CellRange DEF IInv, Loaded
    <3>2. seq'[Cell(pos[u])] >= seq[Cell(pos[u])] /\ seq'[Cell(pos[u])] \in Nat
      BY <1>6, <3>1
    <3>3. seq[Cell(pos[u])] \in Nat
      BY <1>1, <3>1
    <3> QED BY <3>1, <3>2, <3>3
  <2>2. \A p \in 0..(e - 1) : seq'[Cell(p)] >= p
    <3> TAKE p \in 0..(e - 1)
    <3>1. Cell(p) \in Cells /\ seq[Cell(p)] >= p
      BY <1>1, CellRange DEF IInv, Loaded
    <3>2. /\ seq'[Cell(p)] >= seq[Cell(p)] /\ seq'[Cell(p)] \in Nat
          /\ seq[Cell(p)] \in Nat
      BY <1>1, <1>6, <3>1
    <3> QED BY <3>1, <3>2
  <2> QED BY <2>1, <2>2 DEF PushPublish, IInv, Loaded, Cell
<1>12. Elements'
  <2>1. \A p \in dequeue_pos..(e - 1) : seq'[Cell(p)] = p + 1 => item[p] = data[Cell(p)]
    <3> SUFFICES ASSUME NEW p \in dequeue_pos..(e - 1), seq'[Cell(p)] = p + 1
                 PROVE  item[p] = data[Cell(p)]
      OBVIOUS
    <3>1. CASE p = pos[t]
      BY <3>1 DEF PushPublish, IInv, Elements
    <3>2. CASE p # pos[t]
      <4>1. Cell(p) # c /\ Cell(p) \in Cells
        BY <1>1, <1>3, <3>2, CellsApart, CellRange DEF c
      <4>2. seq'[Cell(p)] = seq[Cell(p)]
        BY <1>1, <1>4, <4>1
      <4> QED BY <4>2 DEF IInv, Elements
    <3> QED BY <3>1, <3>2
  <2>2. \A u \in Threads : pc'[u] # "idle" => pc'[u] = pc[u]
    BY <1>2
  <2> QED BY <2>1, <2>2 DEF PushPublish, IInv, Elements, Cell, Threads
<1>13. Taken'
  BY <1>2 DEF PushPublish, IInv, Taken, Threads
<1> QED BY <1>7, <1>8, <1>9, <1>10, <1>11, <1>12, <1>13 DEF IInv

\* The compare-exchange of ringbuf_pop: the element of its position is there.
LEMMA PopClaimStep ==
    ASSUME IInv, NEW t \in Consumers, PopClaim(t) PROVE IInv'
<1> USE RingbufAssumption DEF Goto
<1> DEFINE e == enqueue_pos
           d == dequeue_pos
<1>1. /\ t \in Threads /\ e \in Nat /\ d \in Nat /\ pos[t] = d
      /\ pos \in [Threads -> Nat] /\ seen \in [Threads -> Nat]
      /\ d <= e /\ e <= d + Capacity /\ seq \in [Cells -> Nat]
  BY DEF IInv, Types, Bounded, Threads, PopClaim
<1>2. seq[Cell(d)] >= d + 1
  <2>1. seq[Cell(d)] \in Nat
    BY <1>1, CellRange
  <2> QED BY <1>1, <2>1 DEF IInv, Loaded, PopClaim
<1>3. d < e /\ seq[Cell(d)] = d + 1
  BY <1>2, PublishedWhenNext
<1>4. /\ pc'[t] = "read" /\ \A u \in Threads : u # t => pc'[u] = pc[u]
      /\ \A u \in Producers : u # t
  BY <1>1 DEF PopClaim, IInv, Types
<1>5. dequeue_pos' = d + 1
  BY <1>1 DEF PopClaim
<1>6. Types'
  <2>1. /\ pc' \in [Threads -> {"idle", "load", "decide"} \cup Pushing \cup Popping]
        /\ \A u \in Producers : pc'[u] \notin Popping
        /\ \A u \in Consumers : pc'[u] \notin Pushing
    BY <1>1, <1>4 DEF PopClaim, IInv, Types, Pushing, Popping, Threads
  <2> QED BY <1>1, <1>5, <2>1 DEF PopClaim, IInv, Types
<1>7. Bounded'
  BY <1>1, <1>3, <1>5 DEF PopClaim, IInv, Bounded
<1>8. Window'
  <2> SUFFICES ASSUME NEW p \in e..(e + Capacity - 1)
               PROVE  LET q == p - Capacity
                      IN  \/ seq[Cell(p)] = p /\ q < d + 1
                          \/ seq[Cell(p)] = q /\ q >= d + 1
                          \/ seq[Cell(p)] = q + 1 /\ q >= d + 1
                          \/ /\ seq[Cell(p)] = q + 1 /\ q >= 0
                             /\ \E u \in Consumers : pc'[u] \in Popping /\ pos[u] = q
    BY <1>5 DEF PopClaim, Window, Cell
  <2>1. CASE p = d + Capacity
    <3>1. seq[Cell(p)] = d + 1
      BY <1>1, <1>3, <2>1, CellNext
    <3> QED BY <1>1, <1>4, <2>1, <3>1 DEF Popping
  <2>2. CASE p # d + Capacity
    <3>1. \A u \in Consumers : pc[u] \in Popping => pc'[u] \in Popping
      BY <1>4 DEF Popping, Threads
    <3>2. LET q == p - Capacity
          IN  \/ seq[Cell(p)] = p /\ q < d
              \/ seq[Cell(p)] = q /\ q >= d
              \/ seq[Cell(p)] = q + 1 /\ q >= d
              \/ /\ seq[Cell(p)] = q + 1 /\ q >= 0
                 /\ \E u \in Consumers : pc[u] \in Popping /\ pos[u] = q
      BY DEF IInv, Window
    <3> QED BY <1>1, <2>2, <3>1, <3>2
  <2> QED BY <2>1, <2>2
<1>9. Users'
  <2>1. \A u \in Producers : pc'[u] \in Pushing =>
           pos[u] \in (d + 1)..(e - 1) /\ seq[Cell(pos[u])] = pos[u]
    <3> SUFFICES ASSUME NEW u \in Producers, pc'[u] \in Pushing
                 PROVE  pos[u] \in (d + 1)..(e - 1) /\ seq[Cell(pos[u])] = pos[u]
      OBVIOUS
    <3>1. pos[u] \in d..(e - 1) /\ seq[Cell(pos[u])] = pos[u]
      BY <1>4 DEF IInv, Users, Threads
    <3>2. pos[u] # d
      BY <1>1, <1>3, <3>1
    <3> QED BY <1>1, <3>1, <3>2
  <2>2. \A u \in Consumers : pc'[u] \in Popping =>
           /\ pos[u] < d + 1 /\ pos[u] >= e - Capacity
           /\ seq[Cell(pos[u])] = pos[u] + 1
    BY <1>1, <1>3, <1>4 DEF IInv, Users, Threads
  <2>3. \A u \in Threads : pc'[u] \in Pushing \cup Popping /\ u # t => pos[u] # d
    <3> SUFFICES ASSUME NEW u \in Threads, pc'[u] \in Pushing \cup Popping, u # t
                 PROVE  pos[u] # d
      OBVIOUS
    <3>1. CASE u \in Producers
      BY <1>1, <1>4, <2>1, <3>1 DEF IInv, Types
    <3>2. CASE u \in Consumers
      BY <1>1, <1>4, <3>2 DEF IInv, Types, Users
    <3> QED BY <3>1, <3>2 DEF Threads
  <2>4. \A u, v \in Threads :
           u # v /\ pc'[u] \in Pushing \cup Popping /\ pc'[v] \in Pushing \cup Popping
              => pos[u] # pos[v]
    <3>1. \A u, v \in Threads : u # t /\ v # t /\ u # v
             /\ pc'[u] \in Pushing \cup Popping /\ pc'[v] \in Pushing \cup Popping
              => pos[u] # pos[v]
      BY <1>4 DEF IInv, Users
    <3> QED BY <1>1, <2>3, <3>1
  <2> QED BY <1>5, <2>1, <2>2, <2>4 DEF PopClaim, Users, Cell
<1>10. Loaded'
  BY <1>4 DEF PopClaim, IInv, Loaded, Cell
<1>11. Elements'
  <2>1. \A u \in Consumers : pc'[u] = "read" => item[pos[u]] = data[Cell(pos[u])]
    BY <1>1, <1>3, <1>4 DEF IInv, Elements, Threads
  <2>2. \A p \in (d + 1)..(e - 1) : seq[Cell(p)] = p + 1 => item[p] = data[Cell(p)]
    BY <1>1 DEF IInv, Elements
  <2>3. \A u \in Producers : pc'[u] = pc[u]
    BY <1>4 DEF Threads
  <2> QED BY <1>5, <2>1, <2>2, <2>3 DEF PopClaim, IInv, Elements, Cell
<1>12. Taken'
  <2>1. DOMAIN got \subseteq 0..((d + 1) - 1)
    BY <1>1 DEF IInv, Taken
  <2>2. \A u \in Consumers : pc'[u] = "release" => pc[u] = "release"
    BY <1>4 DEF Threads
  <2> QED BY <1>5, <2>1, <2>2 DEF PopClaim, IInv, Taken
<1> QED BY <1>6, <1>7, <1>8, <1>9, <1>10, <1>11, <1>12 DEF IInv

\* The reader finds the element of its position.
LEMMA PopReadStep ==
    ASSUME IInv, NEW t \in Consumers, PopRead(t) PROVE IInv'
<1> USE RingbufAssumption DEF Goto, shared
<1>1. /\ t \in Threads /\ enqueue_pos \in Nat /\ dequeue_pos \in Nat
      /\ pos \in [Threads -> Nat] /\ pos[t] \in 0..(dequeue_pos - 1)
      /\ data[Cell(pos[t])] = item[pos[t]]
  BY DEF IInv, Types, Threads, PopRead, Users, Elements, Popping
<1>2. /\ pc'[t] = "release" /\ \A u \in Threads : u # t => pc'[u] = pc[u]
      /\ \A u \in Producers : u # t
  BY <1>1 DEF PopRead, IInv, Types
<1>3. val'[t] = item[pos[t]] /\ \A u \in Threads : u # t => val'[u] = val[u]
  BY <1>1 DEF PopRead, IInv, Types
<1>4. Types'
  <2>1. val' \in [Threads -> Items \cup {Nil}]
    BY <1>1, CellRange DEF PopRead, IInv, Types
  <2>2. /\ pc' \in [Threads -> {"idle", "load", "decide"} \cup Pushing \cup Popping]
        /\ \A u \in Producers : pc'[u] \notin Popping
        /\ \A u \in Consumers : pc'[u] \notin Pushing
    BY <1>1, <1>2 DEF PopRead, IInv, Types, Pushing, Popping, Threads
  <2> QED BY <2>1, <2>2 DEF PopRead, IInv, Types
<1>5. Bounded'
  BY DEF PopRead, IInv, Bounded
<1>6. \A u \in Threads : pc[u] \in Popping <=> pc'[u] \in Popping
  BY <1>2 DEF PopRead, Popping
<1>7. \A u \in Threads : pc[u] \in Pushing <=> pc'[u] \in Pushing
  BY <1>2 DEF PopRead, Pushing
<1>8. Window'
  <2>1. \A u \in Consumers : pc[u] \in Popping => pc'[u] \in Popping
    BY <1>6 DEF Threads
  <2> QED BY <2>1 DEF PopRead, IInv, Window, Cell
<1>9. Users'
  BY <1>6, <1>7 DEF PopRead, IInv, Users, Cell, Threads
<1>10. Loaded'
  BY <1>2 DEF PopRead, IInv, Loaded, Cell, Threads
<1>11. Elements'
  <2>1. \A u \in Producers : pc'[u] = pc[u] /\ val'[u] = val[u]
    BY <1>2, <1>3 DEF Threads
  <2>2. \A u \in Consumers : pc'[u] = "read" => pc[u] = "read"
    BY <1>2 DEF Threads
  <2> QED BY <2>1, <2>2 DEF PopRead, IInv, Elements, Cell
<1>12. Taken'
  <2>1. /\ DOMAIN got' = DOMAIN got \cup {pos[t]} /\ got'[pos[t]] = item[pos[t]]
        /\ \A p \in DOMAIN got : p # pos[t] => got'[p] = got[p]
    BY <1>3 DEF PopRead, Extended
  <2>2. \A u \in Consumers : pc'[u] = "release" => pos[u] \in DOMAIN got'
    BY <1>2, <2>1 DEF IInv, Taken, Threads
  <2>3. DOMAIN got' \subseteq 0..(dequeue_pos - 1)
    BY <1>1, <2>1 DEF IInv, Taken
  <2>4. \A p \in DOMAIN got' : got'[p] = item[p]
    BY <2>1 DEF IInv, Taken
  <2> QED BY <2>2, <2>3, <2>4 DEF PopRead, Taken
<1> QED BY <1>4, <1>5, <1>8, <1>9, <1>10, <1>11, <1>12 DEF IInv

\* A cell given back is free for the position of the next round.
LEMMA PopReleaseStep ==
    ASSUME IInv, NEW t \in Consumers, PopRelease(t) PROVE IInv'
<1> USE RingbufAssumption DEF Goto
<1> DEFINE e == enqueue_pos
           d == dequeue_pos
           c == Cell(pos[t])
<1>1. /\ t \in Threads /\ e \in Nat /\ d \in Nat /\ pos \in [Threads -> Nat]
      /\ d <= e /\ e <= d + Capacity
      /\ pc[t] \in Popping /\ seq \in [Cells -> Nat] /\ seen \in [Threads -> Nat]
  BY DEF IInv, Types, Bounded, Threads, PopRelease, Popping
<1>2. /\ pc'[t] = "idle" /\ \A u \in Threads : u # t => pc'[u] = pc[u]
      /\ \A u \in Producers : u # t
  BY <1>1 DEF PopRelease, IInv, Types
<1>3. /\ pos[t] < d /\ pos[t] >= e - Capacity /\ seq[c] = pos[t] + 1
      /\ c \in Cells /\ pos[t] \in Nat
  BY <1>1, CellRange DEF IInv, Users
<1>4. seq' = [seq EXCEPT ![c] = pos[t] + Capacity]
  BY DEF PopRelease
<1> HIDE DEF c
<1>5. \A u \in Threads : u # t /\ pc[u] \in Pushing \cup Popping
                            => seq'[Cell(pos[u])] = seq[Cell(pos[u])]
  <2> TAKE u \in Threads
  <2> HAVE u # t /\ pc[u] \in Pushing \cup Popping
  <2>1. Cell(pos[u]) # c /\ Cell(pos[u]) \in Cells
    BY <1>1, UsersApart, CellRange DEF c
  <2> QED BY <1>1, <1>4, <2>1
<1>6. \A x \in Cells : seq'[x] >= seq[x] /\ seq'[x] \in Nat
  BY <1>1, <1>3, <1>4
<1>7. Types'
  <2>1. seq' \in [Cells -> Nat]
    BY <1>1, <1>3, <1>4
  <2>2. /\ pc' \in [Threads -> {"idle", "load", "decide"} \cup Pushing \cup Popping]
        /\ \A u \in Producers : pc'[u] \notin Popping
        /\ \A u \in Consumers : pc'[u] \notin Pushing
    BY <1>1, <1>2 DEF PopRelease, IInv, Types, Pushing, Popping, Threads
  <2> QED BY <2>1, <2>2 DEF PopRelease, IInv, Types
<1>8. Bounded'
  BY DEF PopRelease, IInv, Bounded
<1>9. Window'
  <2> SUFFICES ASSUME NEW p \in e..(e + Capacity - 1)
               PROVE  LET q == p - Capacity
                      IN  \/ seq'[Cell(p)] = p /\ q < d
                          \/ seq'[Cell(p)] = q /\ q >= d
                          \/ seq'[Cell(p)] = q + 1 /\ q >= d
                          \/ /\ seq'[Cell(p)] = q + 1 /\ q >= 0
                             /\ \E u \in Consumers : pc'[u] \in Popping /\ pos[u] = q
    BY DEF PopRelease, Window, Cell
  <2>1. CASE p = pos[t] + Capacity
    <3>1. Cell(p) = c
      BY <1>1, <2>1, CellNext DEF c
    <3> QED BY <1>1, <1>3, <1>4, <2>1, <3>1
  <2>2. CASE p # pos[t] + Capacity
    <3>1. Cell(p) # Cell(pos[t] + Capacity)
      BY <1>1, <1>3, <2>2, CellsApart
    <3>2. Cell(p) # c /\ Cell(p) \in Cells
      BY <1>1, <3>1, CellNext, CellRange DEF c
    <3>3. seq'[Cell(p)] = seq[Cell(p)]
      BY <1>1, <1>4, <3>2
    <3>4. \A u \in Consumers : pos[u] = p - Capacity => u # t
      BY <1>1, <1>3, <2>2
    <3>5. \A u \in Consumers : pc[u] \in Popping /\ u # t => pc'[u] \in Popping
      BY <1>2 DEF Threads
    <3> QED BY <3>3, <3>4, <3>5 DEF IInv, Window
  <2> QED BY <2>1, <2>2
<1>10. Users'
  <2>1. \A u \in Threads : pc'[u] \in Pushing \cup Popping =>
           u # t /\ pc[u] = pc'[u] /\ seq'[Cell(pos[u])] = seq[Cell(pos[u])]
    BY <1>1, <1>2, <1>5 DEF Pushing, Popping
  <2> QED BY <2>1 DEF PopRelease, IInv, Users, Cell, Threads
<1>11. Loaded'
  <2>1. \A u \in Threads : pc'[u] = "decide" => seen[u] <= seq'[Cell(pos[u])]
    <3> SUFFICES ASSUME NEW u \in Threads, pc'[u] = "decide"
                 PROVE  seen[u] <= seq'[Cell(pos[u])]
      OBVIOUS
    <3>1. Cell(pos[u]) \in Cells /\ seen[u] <= seq[Cell(pos[u])] /\ seen[u] \in Nat
      BY <1>1, <1>2, CellRange DEF IInv, Loaded
    <3>2. seq'[Cell(pos[u])] >= seq[Cell(pos[u])] /\ seq'[Cell(pos[u])] \in Nat
      BY <1>6, <3>1
    <3>3. seq[Cell(pos[u])] \in Nat
      BY <1>1, <3>1
    <3> QED BY <3>1, <3>2, <3>3
  <2>2. \A p \in 0..(e - 1) : seq'[Cell(p)] >= p
    <3> TAKE p \in 0..(e - 1)
    <3>1. Cell(p) \in Cells /\ seq[Cell(p)] >= p
      BY <1>1, CellRange DEF IInv, Loaded
    <3>2. /\ seq'[Cell(p)] >= seq[Cell(p)] /\ seq'[Cell(p)] \in Nat
          /\ seq[Cell(p)] \in Nat
      BY <1>1, <1>6, <3>1
    <3> QED BY <3>1, <3>2
  <2> QED BY <2>1, <2>2 DEF PopRelease, IInv, Loaded, Cell
<1>12. Elements'
  <2>1. \A p \in d..(e - 1) : seq'[Cell(p)] = p + 1 => item[p] = data[Cell(p)]
    <3> SUFFICES ASSUME NEW p \in d..(e - 1), seq'[Cell(p)] = p + 1
                 PROVE  item[p] = data[Cell(p)]
      OBVIOUS
    <3>1. Cell(p) # c /\ Cell(p) \in Cells
      BY <1>1, <1>3, CellsApart, CellRange DEF c
    <3>2. seq'[Cell(p)] = seq[Cell(p)]
      BY <1>1, <1>4, <3>1
    <3> QED BY <3>2 DEF IInv, Elements
  <2>2. \A u \in Threads : pc'[u] # "idle" => pc'[u] = pc[u]
    BY <1>2
  <2> QED BY <2>1, <2>2 DEF PopRelease, IInv, Elements, Cell, Threads
<1>13. Taken'
  BY <1>2 DEF PopRelease, IInv, Taken, Threads
<1> QED BY <1>7, <1>8, <1>9, <1>10, <1>11, <1>12, <1>13 DEF IInv

LEMMA IInvStep == IInv /\ [Next]_vars => IInv'
<1> SUFFICES ASSUME IInv, [Next]_vars PROVE IInv'
  OBVIOUS
<1>1. ASSUME NEW t \in Producers, Push(t) PROVE IInv'
  BY <1>1, PushOutside, PushClaimStep, PushStoreStep, PushPublishStep DEF Push
<1>2. ASSUME NEW t \in Consumers, Pop(t) PROVE IInv'
  BY <1>2, PopOutside, PopClaimStep, PopReadStep, PopReleaseStep DEF Pop
<1>3. CASE UNCHANGED vars
  BY <1>3 DEF vars, shared, IInv, Types, Bounded, Window, Users, Loaded, Elements, Taken,
              Cell, Cells, Items, Threads
<1> QED BY <1>1, <1>2, <1>3 DEF Next

LEMMA RingInvariant == Spec => []IInv
BY IInvInit, IInvStep, PTL DEF Spec

\* No two of any number of threads touch one cell at once, and every pop gives
\* what the push of its position put in (ringbuf.c:58-128).
THEOREM OneUserPerCell == Spec => []CellHasOneUser
<1>1. IInv => CellHasOneUser
  BY UsersApart DEF CellHasOneUser, IInv, Taken, Pushing, Popping
<1> QED BY <1>1, RingInvariant, PTL

-----------------------------------------------------------------------------
\* A step of the ring is a step of RingQueue.

FullStep == \A t \in Producers :
    pc[t] = "load" /\ pc'[t] = "decide" /\ seen'[t] < pos[t]
       => pos[t] = enqueue_pos /\ Occupied(pos[t] - Capacity)

\* A number smaller than its position: the cell is still in use.
LEMMA FullWhenSmall == IInv /\ [Next]_vars => FullStep
<1> SUFFICES ASSUME IInv, [Next]_vars, NEW t \in Producers,
                    pc[t] = "load", pc'[t] = "decide", seen'[t] < pos[t]
             PROVE  pos[t] = enqueue_pos /\ Occupied(pos[t] - Capacity)
  BY DEF FullStep
<1> USE RingbufAssumption
<1>1. /\ t \in Threads /\ enqueue_pos \in Nat /\ dequeue_pos \in Nat
      /\ pc \in [Threads -> {"idle", "load", "decide"} \cup Pushing \cup Popping]
      /\ pos[t] \in Nat /\ pos[t] <= enqueue_pos /\ seen \in [Threads -> Nat]
      /\ seq[Cell(pos[t])] \in Nat
  <2>1. /\ t \in Threads /\ enqueue_pos \in Nat /\ dequeue_pos \in Nat
        /\ pc \in [Threads -> {"idle", "load", "decide"} \cup Pushing \cup Popping]
        /\ pos \in [Threads -> Nat] /\ seen \in [Threads -> Nat]
        /\ seq \in [Cells -> Nat]
    BY DEF IInv, Types, Threads
  <2>2. pos[t] \in Nat /\ pos[t] <= enqueue_pos
    BY <2>1 DEF IInv, Loaded
  <2>3. seq[Cell(pos[t])] \in Nat
    BY <2>1, <2>2, CellRange
  <2> QED BY <2>1, <2>2, <2>3
<1>2. PushLoadSeq(t)
  <2>1. ASSUME NEW u \in Threads, u # t, pc' = [pc EXCEPT ![u] = pc'[u]] PROVE FALSE
    BY <1>1, <2>1
  <2>2. ASSUME NEW u \in Producers, Push(u) PROVE u = t
    <3>1. pc' = [pc EXCEPT ![u] = pc'[u]] /\ u \in Threads
      BY <1>1, <2>2 DEF Push, PushStart, PushLoadSeq, PushFull, PushRetry, PushClaim,
                        PushStore, PushPublish, Goto, Threads
    <3> QED BY <2>1, <3>1
  <2>3. ASSUME NEW u \in Consumers, Pop(u) PROVE FALSE
    <3>1. pc' = [pc EXCEPT ![u] = pc'[u]] /\ u \in Threads /\ u # t
      BY <1>1, <2>3 DEF Pop, PopStart, PopLoadSeq, PopEmpty, PopRetry, PopClaim,
                        PopRead, PopRelease, Goto, Threads
    <3> QED BY <2>1, <3>1
  <2>4. Push(t)
    BY <1>1, <2>2, <2>3 DEF Next, vars
  <2> QED BY <1>1, <2>4 DEF Push, PushStart, PushFull, PushRetry, PushClaim,
                        PushStore, PushPublish, Goto
<1>3. seq[Cell(pos[t])] < pos[t]
  BY <1>1, <1>2 DEF PushLoadSeq
<1>4. pos[t] = enqueue_pos
  BY <1>1, <1>3 DEF IInv, Loaded
<1>5. enqueue_pos \in enqueue_pos..(enqueue_pos + Capacity - 1)
  BY <1>1
<1>6. \/ enqueue_pos - Capacity >= dequeue_pos
      \/ \E u \in Consumers : pc[u] \in Popping /\ pos[u] = enqueue_pos - Capacity
  BY <1>1, <1>3, <1>4, <1>5 DEF IInv, Window
<1> QED BY <1>1, <1>4, <1>6 DEF Occupied, Popping

Ready == {p \in dequeue_pos..(enqueue_pos - 1) : seq[Cell(p)] = p + 1}
Busy  == {pos[t] : t \in {u \in Consumers : pc[u] \in {"read", "release"}}}

\* ringbuf_push's steps outside of the ring, and the plain store, are not seen.
LEMMA UnseenStep ==
    ASSUME IInv, NEW t \in Threads,
           UNCHANGED <<seq, enqueue_pos, dequeue_pos, item, got>>,
           pc[t] \notin Popping, pc'[t] \notin Popping,
           \A u \in Threads : u # t => pc'[u] = pc[u] /\ pos'[u] = pos[u]
    PROVE  UNCHANGED <<enqueue_pos, dequeue_pos, item, Ready, Busy, got>>
<1>1. Ready' = Ready
  BY DEF Ready, Cell
<1>2. Busy' = Busy
  BY DEF Busy, Popping, Threads
<1> QED BY <1>1, <1>2

LEMMA PushRefines ==
    ASSUME IInv, NEW t \in Producers, Push(t)
    PROVE  [Queue!RingNext]_(Queue!ringVars)
<1> USE RingbufAssumption
<1> DEFINE e == enqueue_pos
           d == dequeue_pos
<1>1. /\ t \in Threads /\ e \in Nat /\ d \in Nat /\ pos \in [Threads -> Nat]
      /\ d <= e /\ e <= d + Capacity /\ seq \in [Cells -> Nat]
      /\ pc \in [Threads -> {"idle", "load", "decide"} \cup Pushing \cup Popping]
      /\ pc[t] \notin Popping /\ \A u \in Consumers : u # t
  BY DEF IInv, Types, Bounded, Threads
<1>2. CASE PushStart(t) \/ PushLoadSeq(t) \/ PushFull(t) \/ PushRetry(t) \/ PushStore(t)
  <2>1. /\ UNCHANGED <<seq, enqueue_pos, dequeue_pos, item, got>>
        /\ pc'[t] \notin Popping
        /\ \A u \in Threads : u # t => pc'[u] = pc[u] /\ pos'[u] = pos[u]
    BY <1>1, <1>2 DEF PushStart, PushLoadSeq, PushFull, PushRetry, PushStore, Goto,
                      shared, Popping
  <2> QED BY <1>1, <2>1, UnseenStep DEF Queue!ringVars, Ready, Busy
<1>3. CASE PushClaim(t)
  <2>1. /\ pos[t] = e /\ e' = e + 1 /\ d' = d /\ seq' = seq /\ pos' = pos /\ got' = got
        /\ pc'[t] = "store" /\ \A u \in Threads : u # t => pc'[u] = pc[u]
        /\ item' = Extended(item, e, val[t]) /\ val[t] \in Items
    BY <1>1, <1>3 DEF PushClaim, Goto, IInv, Elements
  <2>2. seq[Cell(e)] >= e
    <3>1. seq[Cell(e)] \in Nat
      BY <1>1, CellRange
    <3> QED BY <1>1, <1>3, <2>1, <3>1 DEF IInv, Loaded, Types, PushClaim
  <2>3. /\ seq[Cell(e)] = e /\ e - Capacity < d
        /\ \A u \in Consumers : pc[u] \in Popping => pos[u] # e - Capacity
    BY <2>2, FreeWhenLarge
  <2>4. Ready' = Ready
    BY <1>1, <2>1, <2>3 DEF Ready, Cell
  <2>5. Busy' = Busy
    BY <1>1, <2>1 DEF Busy, Threads
  <2>6. item' = [p \in 0..e |-> IF p = e THEN val[t] ELSE item[p]]
    <3>1. (DOMAIN item) \cup {e} = 0..e
      BY <1>1 DEF IInv, Types
    <3> QED BY <2>1, <3>1 DEF Extended
  <2>7. ~(e >= Capacity /\ (e - Capacity >= d \/ e - Capacity \in Busy))
    BY <1>1, <2>3 DEF Busy, Popping
  <2>8. Queue!Claim(val[t])
    BY <2>1, <2>4, <2>5, <2>6, <2>7 DEF Queue!Claim, Queue!Full, Ready, Busy
  <2> QED BY <2>1, <2>8 DEF Queue!RingNext
<1>4. CASE PushPublish(t)
  <2>1. /\ UNCHANGED <<enqueue_pos, dequeue_pos, item, got, pos>>
        /\ pc'[t] = "idle" /\ \A u \in Threads : u # t => pc'[u] = pc[u]
        /\ seq' = [seq EXCEPT ![Cell(pos[t])] = pos[t] + 1]
    BY <1>1, <1>4 DEF PushPublish, Goto
  <2>2. pos[t] \in d..(e - 1) /\ seq[Cell(pos[t])] = pos[t] /\ Cell(pos[t]) \in Cells
    BY <1>1, <1>4, CellRange DEF PushPublish, IInv, Users, Pushing
  <2>3. Busy' = Busy
    BY <1>1, <2>1 DEF Busy, Threads
  <2>4. \A p \in d..(e - 1) :
           seq'[Cell(p)] = IF p = pos[t] THEN p + 1 ELSE seq[Cell(p)]
    <3> TAKE p \in d..(e - 1)
    <3>1. CASE p = pos[t]
      BY <1>1, <2>1, <2>2, <3>1
    <3>2. CASE p # pos[t]
      <4>1. Cell(p) # Cell(pos[t]) /\ Cell(p) \in Cells
        BY <1>1, <2>2, <3>2, CellsApart, CellRange
      <4> QED BY <1>1, <2>1, <3>2, <4>1
    <3> QED BY <3>1, <3>2
  <2>5. pos[t] \notin Ready /\ Ready' = Ready \cup {pos[t]}
    <3>1. Ready' = {p \in d..(e - 1) : seq'[Cell(p)] = p + 1}
      BY <2>1 DEF Ready, Cell
    <3>2. pos[t] \notin Ready
      BY <1>1, <2>2 DEF Ready
    <3> QED BY <2>2, <2>4, <3>1, <3>2 DEF Ready
  <2>6. PICK p \in 0..(e - 1) : p = pos[t]
    BY <1>1, <2>2
  <2>7. Queue!MakeReady(p)
    BY <2>1, <2>2, <2>3, <2>5, <2>6 DEF Queue!MakeReady, Ready, Busy
  <2> QED BY <2>7 DEF Queue!RingNext
<1> QED BY <1>2, <1>3, <1>4 DEF Push

LEMMA PopRefines ==
    ASSUME IInv, NEW t \in Consumers, Pop(t)
    PROVE  [Queue!RingNext]_(Queue!ringVars)
<1> USE RingbufAssumption
<1> DEFINE e == enqueue_pos
           d == dequeue_pos
<1>1. /\ t \in Threads /\ e \in Nat /\ d \in Nat /\ pos \in [Threads -> Nat]
      /\ d <= e /\ e <= d + Capacity /\ seq \in [Cells -> Nat]
      /\ pc \in [Threads -> {"idle", "load", "decide"} \cup Pushing \cup Popping]
  BY DEF IInv, Types, Bounded, Threads
<1>2. CASE PopStart(t) \/ PopLoadSeq(t) \/ PopEmpty(t) \/ PopRetry(t)
  <2>1. /\ UNCHANGED <<seq, enqueue_pos, dequeue_pos, item, got>>
        /\ pc[t] \notin Popping /\ pc'[t] \notin Popping
        /\ \A u \in Threads : u # t => pc'[u] = pc[u] /\ pos'[u] = pos[u]
    BY <1>1, <1>2 DEF PopStart, PopLoadSeq, PopEmpty, PopRetry, Goto, shared, Popping
  <2> QED BY <1>1, <2>1, UnseenStep DEF Queue!ringVars, Ready, Busy
<1>3. CASE PopClaim(t)
  <2>1. /\ pos[t] = d /\ d' = d + 1 /\ e' = e /\ seq' = seq /\ pos' = pos
        /\ got' = got /\ item' = item
        /\ pc[t] = "decide" /\ pc'[t] = "read"
        /\ \A u \in Threads : u # t => pc'[u] = pc[u]
    BY <1>1, <1>3 DEF PopClaim, Goto
  <2>2. seq[Cell(d)] >= d + 1
    <3>1. seq[Cell(d)] \in Nat
      BY <1>1, CellRange
    <3> QED BY <1>1, <1>3, <2>1, <3>1 DEF IInv, Loaded, Types, PopClaim
  <2>3. d < e /\ seq[Cell(d)] = d + 1
    BY <2>2, PublishedWhenNext
  <2>4. d \in Ready /\ Ready' = Ready \ {d}
    <3>1. Ready' = {p \in (d + 1)..(e - 1) : seq[Cell(p)] = p + 1}
      BY <2>1 DEF Ready, Cell
    <3>2. d..(e - 1) = {d} \cup (d + 1)..(e - 1) /\ d \notin (d + 1)..(e - 1)
      BY <1>1, <2>3
    <3> QED BY <1>1, <2>3, <3>1, <3>2 DEF Ready
  <2>5. Busy' = Busy \cup {d}
    BY <1>1, <2>1 DEF Busy, Threads
  <2>6. Queue!Take
    BY <2>1, <2>4, <2>5 DEF Queue!Take, Ready, Busy
  <2> QED BY <2>6 DEF Queue!RingNext
<1>4. CASE PopRead(t)
  <2>1. /\ UNCHANGED <<seq, enqueue_pos, dequeue_pos, item, pos>>
        /\ pc[t] = "read" /\ pc'[t] = "release"
        /\ \A u \in Threads : u # t => pc'[u] = pc[u]
        /\ got' = Extended(got, pos[t], data[Cell(pos[t])])
    BY <1>1, <1>4 DEF PopRead, Goto, shared, IInv, Types
  <2>2. data[Cell(pos[t])] = item[pos[t]]
    BY <2>1 DEF IInv, Elements
  <2>3. Ready' = Ready
    BY <2>1 DEF Ready, Cell
  <2>4. pos[t] \in Busy /\ Busy' = Busy
    BY <1>1, <2>1 DEF Busy, Threads
  <2>5. PICK p \in Busy : p = pos[t]
    BY <2>4
  <2>6. Queue!Read(p)
    BY <2>1, <2>2, <2>3, <2>4, <2>5 DEF Queue!Read, Ready, Busy, Extended
  <2> QED BY <2>6 DEF Queue!RingNext, Busy
<1>5. CASE PopRelease(t)
  <2>1. /\ UNCHANGED <<enqueue_pos, dequeue_pos, item, got, pos>>
        /\ pc[t] = "release" /\ pc'[t] = "idle"
        /\ \A u \in Threads : u # t => pc'[u] = pc[u]
        /\ seq' = [seq EXCEPT ![Cell(pos[t])] = pos[t] + Capacity]
    BY <1>1, <1>5 DEF PopRelease, Goto
  <2>2. /\ pos[t] < d /\ pos[t] >= e - Capacity /\ Cell(pos[t]) \in Cells
        /\ pos[t] \in Nat /\ pos[t] \in DOMAIN got
    BY <1>1, <2>1, CellRange DEF IInv, Users, Popping, Taken
  <2>3. Ready' = Ready
    <3>1. \A p \in d..(e - 1) : seq'[Cell(p)] = seq[Cell(p)]
      <4> TAKE p \in d..(e - 1)
      <4>1. Cell(p) # Cell(pos[t]) /\ Cell(p) \in Cells
        BY <1>1, <2>2, CellsApart, CellRange
      <4> QED BY <1>1, <2>1, <4>1
    <3>2. Ready' = {p \in d..(e - 1) : seq'[Cell(p)] = p + 1}
      BY <2>1 DEF Ready, Cell
    <3> QED BY <3>1, <3>2 DEF Ready
  <2>4. pos[t] \in Busy /\ Busy' = Busy \ {pos[t]}
    <3>1. \A u \in Consumers : u # t /\ pc[u] \in {"read", "release"} => pos[u] # pos[t]
      BY <1>1, <2>1, UsersApart DEF Threads, Popping
    <3> QED BY <1>1, <2>1, <3>1 DEF Busy, Threads
  <2>5. PICK p \in Busy : p = pos[t]
    BY <2>4
  <2>6. Queue!GiveBack(p)
    BY <2>1, <2>2, <2>3, <2>4, <2>5 DEF Queue!GiveBack, Ready, Busy
  <2> QED BY <2>6 DEF Queue!RingNext, Busy
<1> QED BY <1>2, <1>3, <1>4, <1>5 DEF Pop

\* ringbuf.c is a bounded queue, taken in the order of the claims, that
\* refuses a push only when the place it needs is occupied, whatever the
\* capacity and however many threads push and pop.
THEOREM RingImplementsQueue == Spec => RingIsQueue
<1>1. Init => Queue!RingInit
  <2> SUFFICES ASSUME Init PROVE Queue!RingInit
    OBVIOUS
  <2>1. Ready = {}
    BY DEF Init, Ready
  <2>2. Busy = {}
    BY DEF Init, Busy, Threads
  <2> QED BY <2>1, <2>2 DEF Init, Queue!RingInit, Ready, Busy
<1>2. IInv /\ [Next]_vars => [Queue!RingNext]_(Queue!ringVars)
  <2> SUFFICES ASSUME IInv, [Next]_vars PROVE [Queue!RingNext]_(Queue!ringVars)
    OBVIOUS
  <2>1. CASE UNCHANGED vars
    BY <2>1 DEF vars, shared, Queue!ringVars, Cell
  <2> QED BY <2>1, PushRefines, PopRefines DEF Next
<1>3. Spec => ImplementsQueue
  BY <1>1, <1>2, RingInvariant, PTL DEF Spec, ImplementsQueue, Queue!RingSpec
<1>4. IInv /\ [Next]_vars => [FullStep]_vars
  BY FullWhenSmall
<1>5. Spec => [][FullStep]_vars
  BY <1>4, RingInvariant, PTL DEF Spec
<1>6. Spec => FullIsFull
  BY <1>5, PTL DEF FullIsFull, FullStep
<1> QED BY <1>3, <1>6, PTL DEF RingIsQueue
=============================================================================
