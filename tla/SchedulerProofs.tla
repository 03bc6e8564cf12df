-------------------------- MODULE SchedulerProofs --------------------------
(***************************************************************************)
(* Machine-checked proofs about Scheduler, for every number of tasks,      *)
(* workers and clients, every priority and every admission limit.          *)
(***************************************************************************)
EXTENDS Scheduler, FiniteSetTheorems, TLAPS

\* prune_history frees completed tasks that no reader holds, nothing else.
LEMMA PrunedOnlyFree ==
    ASSUME NEW comp, NEW refs, NEW borr, NEW limit
    PROVE  \A t \in Pruned(comp, refs, borr, limit) :
              t \in all /\ comp[t] /\ refs[t] = 0 /\ ~borr[t]
  BY DEF Pruned

\* The code's NULL and 0 are never a task id: scheduler_next_id starts at 1.
LEMMA NoneIsNoId == \A t \in Ids : t # None
  BY SchedulerAssumption DEF Ids, None

\* No worker thread is the marker of a task bound to no thread.
LEMMA NoneIsNoWorker == \A w \in Worker : w # None
  BY SchedulerAssumption DEF Worker, None

-----------------------------------------------------------------------------
\* The inductive invariant.  A worker has at most one task at a time: the one
\* in its hands or the only continuation of its slot.

Has(w, t) == yield_list[w] = <<t>> \/ cur[w] = t

\* A slot holds one continuation at most, and only while its worker is at the
\* head of its loop, about to resume it.
SlotShape ==
    \A w \in Worker :
        \/ yield_list[w] = <<>>
        \/ pc[w] = "loop" /\ \E t \in Ids : yield_list[w] = <<t>>

Placed ==
    /\ \A t \in Ids : (Born(t) /\ ~completed[t])
                         <=> (t \in queue \/ \E w \in Worker : Has(w, t))
    /\ \A t \in Ids, w \in Worker : t \in queue => ~Has(w, t)
    /\ \A t \in Ids : \A v, w \in Worker : Has(v, t) /\ Has(w, t) => v = w

\* Ids are given once: from next_id on none has been used.
Fresh == \A t \in Ids : t >= next_id => status[t] = "none"

\* A task that is not begun has no coroutine; one that a worker has, is begun.
Begun ==
    /\ \A t \in Ids : status[t] \in {"none", "QUEUED"} => run[t] = "new"
    /\ \A t \in Ids : t \in queue => status[t] = "QUEUED"
    /\ \A t \in Ids, w \in Worker : Has(w, t) => status[t] \notin {"none", "QUEUED"} /\ run[t] # "new"

Home ==
    \A w \in Worker, t \in Ids :
        \/ yield_list[w] = <<t>>
        \/ cur[w] = t /\ run[t] \in {"entry", "body"}
        => owner[t] = w

\* Only a coroutine that has ended is called back and completed.
OverWhenSettled ==
    /\ \A t \in Ids : completed[t] => Over(t)
    /\ \A w \in Worker : pc[w] = "callback" => Over(cur[w])

PlaceInv == SlotShape /\ Placed /\ Fresh /\ Begun /\ Home /\ OverWhenSettled
IndInv   == TypeOK /\ PlaceInv

-----------------------------------------------------------------------------
\* scheduler_new_limited leaves every variable in its type.
LEMMA TypeInit == Init => TypeOK
<1> SUFFICES ASSUME Init PROVE TypeOK
  OBVIOUS
<1>1. 0 \in 0..(MaxId + 1) /\ InitWorkers \in 1..MaxWorkers
  BY SchedulerAssumption
<1>2. <<>> \in Seq(Ids)
  OBVIOUS
<1>3. /\ pc \in [Worker -> {"none", "loop", "asleep", "run", "ran", "callback", "exited"}]
      /\ held \in [Clients -> Ids \cup {None}] /\ cur \in [Worker -> Ids \cup {None}]
      /\ yield_list \in [Worker -> Seq(Ids)] /\ owner \in [Ids -> Worker \cup {None}]
  BY <1>2 DEF Init
<1>4. /\ priority \in [Ids -> Int] /\ status \in [Ids -> Statuses]
      /\ references \in [Ids -> Nat]
  BY DEF Init, Statuses
<1>5. /\ \A w \in Worker : cur[w] # None <=> pc[w] \in {"run", "ran", "callback"}
      /\ \A w \in Worker : pc[w] = "none" <=> w > workers
  BY SchedulerAssumption DEF Init, Worker
<1>6. /\ queue \subseteq Ids /\ all \subseteq Ids
      /\ active \in Int /\ completing \in Int /\ exited \in Nat /\ rejected \in Nat
      /\ next_id \in 0..(MaxId + 1) /\ workers \in 1..MaxWorkers
      /\ history_count \in Nat
  BY <1>1 DEF Init
<1>9. /\ shutdown_flag \in BOOLEAN
      /\ closer \in {"open", "waiting", "timedout", "joined", "freed"}
  BY DEF Init
<1>7. /\ completed \in [Ids -> BOOLEAN] /\ borrowed \in [Ids -> BOOLEAN]
      /\ timed_out \in [Ids -> BOOLEAN] /\ execution_failed \in [Ids -> BOOLEAN]
      /\ asked \in [Clients -> BOOLEAN]
  BY DEF Init
<1>8. /\ cancel_flag \in [Ids -> {"no", "queued", "running", "late"}]
      /\ run \in [Ids -> {"new", "nocoro", "entry", "body", "aborted", "over"}]
  BY DEF Init
<1> QED BY <1>3, <1>4, <1>5, <1>6, <1>7, <1>8, <1>9 DEF TypeOK

\* No step of a worker, client or the shutdown thread leaves the types.
LEMMA TypeStep == TypeOK /\ [Next]_vars => TypeOK'
<1> SUFFICES ASSUME TypeOK, [Next]_vars PROVE TypeOK'
  OBVIOUS
<1> USE DEF TypeOK, Statuses, queueVars, countVars, keepVars, taskVars,
            workerVars, clientVars
<1>1. ASSUME NEW p \in Priorities, Submit(p) PROVE TypeOK'
  <2>1. /\ next_id \in Ids /\ next_id + 1 \in 0..(MaxId + 1)
        /\ active + 1 \in Int /\ p \in Int
    BY <1>1, SchedulerAssumption DEF Submit, Ids
  <2>2. workers' \in 1..MaxWorkers
    BY <1>1, SchedulerAssumption DEF Submit, Grown
  <2>3. pc' \in [Worker -> {"none", "loop", "asleep", "run", "ran", "callback", "exited"}]
    BY <1>1 DEF Submit, Started
  <2>4. /\ \A v \in Worker : cur'[v] # None <=> pc'[v] \in {"run", "ran", "callback"}
        /\ \A v \in Worker : pc'[v] = "none" <=> v > workers'
    <3>1. PICK n \in Grown, s \in SignalTargets :
             /\ workers' = n
             /\ pc' = [w \in Worker |->
                         IF w = s \/ w \in (workers + 1)..n THEN "loop" ELSE pc[w]]
      BY <1>1 DEF Submit, Started
    <3>2. n \in Int /\ n >= workers /\ workers \in Int
      BY SchedulerAssumption DEF Grown
    <3>3. \A v \in Worker : v = s => pc[v] = "asleep"
      BY NoneIsNoWorker DEF SignalTargets, Asleep
    <3>4. \A v \in Worker : v \in (workers + 1)..n <=> v > workers /\ v <= n
      BY <3>2, SchedulerAssumption DEF Worker
    <3>5. \A v \in Worker : cur'[v] # None <=> pc'[v] \in {"run", "ran", "callback"}
      <4> SUFFICES ASSUME NEW v \in Worker
                   PROVE cur'[v] # None <=> pc'[v] \in {"run", "ran", "callback"}
        OBVIOUS
      <4>1. CASE v = s BY <4>1, <3>1, <3>3, <1>1 DEF Submit
      <4>2. CASE v # s /\ v > workers /\ v <= n
        BY <4>2, <3>1, <3>4, <1>1 DEF Submit
      <4>3. CASE v # s /\ ~(v > workers /\ v <= n)
        BY <4>3, <3>1, <3>4, <1>1 DEF Submit
      <4> QED BY <4>1, <4>2, <4>3
    <3>6. \A v \in Worker : pc'[v] = "none" <=> v > n
      <4> SUFFICES ASSUME NEW v \in Worker PROVE pc'[v] = "none" <=> v > n
        OBVIOUS
      <4>0. v \in Int /\ (pc[v] = "none" <=> v > workers)
        BY SchedulerAssumption DEF Worker
      <4>1. CASE v = s
        <5>1. pc[v] = "asleep" /\ pc'[v] = "loop" BY <4>1, <3>1, <3>3
        <5>2. ~(v > workers) BY <5>1, <4>0
        <5> QED BY <5>1, <5>2, <4>0, <3>2
      <4>2. CASE v # s /\ v > workers /\ v <= n
        <5>1. pc'[v] = "loop" BY <4>2, <3>1, <3>4
        <5> QED BY <5>1, <4>2, <4>0, <3>2
      <4>3. CASE v # s /\ ~(v > workers /\ v <= n)
        <5>1. pc'[v] = pc[v] BY <4>3, <3>1, <3>4
        <5> QED BY <5>1, <4>3, <4>0, <3>2
      <4> QED BY <4>1, <4>2, <4>3
    <3>7. workers' = n BY <3>1
    <3> QED
      <4>1. \A v \in Worker : pc'[v] = "none" <=> v > workers'
        BY <3>6, <3>7
      <4> QED BY <3>5, <4>1
  <2> QED BY <1>1, <2>1, <2>2, <2>3, <2>4 DEF Submit
<1>2. CASE SubmitRejected
  BY <1>2 DEF SubmitRejected
<1>3. ASSUME NEW n \in JournalMarks, EnsureNextId(n) PROVE TypeOK'
  <2>1. n \in 0..(MaxId + 1)
    BY SchedulerAssumption
  <2> QED BY <1>3, <2>1 DEF EnsureNextId
<1>4. ASSUME NEW w \in Worker, Work(w) PROVE TypeOK'
  <2>1. CASE Sleep(w) BY <2>1 DEF Sleep
  <2>2. CASE Exit(w) BY <2>2 DEF Exit
  <2>3. CASE TakeYielded(w)
    <3>1. yield_list[w] \in Seq(Ids) /\ yield_list[w] # <<>>
      BY <2>3 DEF TakeYielded
    <3>2. Head(yield_list[w]) \in Ids /\ Tail(yield_list[w]) \in Seq(Ids)
      BY <3>1
    <3> QED BY <2>3, <3>2, NoneIsNoId DEF TakeYielded
  <2>4. ASSUME NEW t \in Ids, TakeQueued(w, t) PROVE TypeOK'
    <3>1. \/ /\ status' = [status EXCEPT ![t] = "RUNNING"]
             /\ run' = [run EXCEPT ![t] = "entry"]
             /\ owner' = [owner EXCEPT ![t] = w]
             /\ pc' = [pc EXCEPT ![w] = "run"]
          \/ /\ status' = [status EXCEPT ![t] = "FAILED"]
             /\ run' = [run EXCEPT ![t] = "nocoro"]
             /\ pc' = [pc EXCEPT ![w] = "ran"]
             /\ owner' = owner
      BY <2>4 DEF TakeQueued
    <3>2. /\ status' \in [Ids -> Statuses]
          /\ run' \in [Ids -> {"new", "nocoro", "entry", "body", "aborted", "over"}]
          /\ owner' \in [Ids -> Worker \cup {None}]
          /\ pc' \in [Worker -> {"none", "loop", "asleep", "run", "ran", "callback", "exited"}]
      <4>1. CASE /\ status' = [status EXCEPT ![t] = "RUNNING"]
                 /\ run' = [run EXCEPT ![t] = "entry"]
                 /\ owner' = [owner EXCEPT ![t] = w]
                 /\ pc' = [pc EXCEPT ![w] = "run"]
        <5>1. status' \in [Ids -> Statuses] BY <4>1
        <5>2. run' \in [Ids -> {"new", "nocoro", "entry", "body", "aborted", "over"}]
          BY <4>1
        <5>3. owner' \in [Ids -> Worker \cup {None}] BY <4>1
        <5>4. pc' \in [Worker -> {"none", "loop", "asleep", "run", "ran", "callback", "exited"}]
          BY <4>1
        <5> QED BY <5>1, <5>2, <5>3, <5>4
      <4>2. CASE /\ status' = [status EXCEPT ![t] = "FAILED"]
                 /\ run' = [run EXCEPT ![t] = "nocoro"]
                 /\ pc' = [pc EXCEPT ![w] = "ran"]
                 /\ owner' = owner
        <5>1. status' \in [Ids -> Statuses] BY <4>2
        <5>2. run' \in [Ids -> {"new", "nocoro", "entry", "body", "aborted", "over"}]
          BY <4>2
        <5>3. pc' \in [Worker -> {"none", "loop", "asleep", "run", "ran", "callback", "exited"}]
          BY <4>2
        <5> QED BY <4>2, <5>1, <5>2, <5>3
      <4> HIDE DEF TypeOK
      <4> QED BY <3>1, <4>1, <4>2
    <3>3. cur' \in [Worker -> Ids \cup {None}] /\ queue' \subseteq Ids
      BY <2>4 DEF TakeQueued
    <3>4. \A v \in Worker : cur'[v] # None <=> pc'[v] \in {"run", "ran", "callback"}
      BY <2>4, <3>1, NoneIsNoId DEF TakeQueued
    <3> QED BY <2>4, <3>2, <3>3, <3>4 DEF TakeQueued
  <2>5. CASE RunAbort(w) BY <2>5 DEF RunAbort
  <2>6. CASE RunEntry(w) BY <2>6 DEF RunEntry
  <2>7. CASE RunBody(w) BY <2>7 DEF RunBody
  <2>8. CASE SettleDone(w)
    <3>1. /\ status' \in [Ids -> Statuses]
      BY <2>8 DEF SettleDone, FinalStatus
    <3>2. active' \in Int /\ completing' \in Int
      BY <2>8 DEF SettleDone
    <3> QED BY <2>8, <3>1, <3>2 DEF SettleDone
  <2>9. CASE SettleYield(w)
    <3>1. cur[w] \in Ids /\ yield_list[w] \in Seq(Ids)
      BY <2>9 DEF SettleYield
    <3>2. Append(yield_list[w], cur[w]) \in Seq(Ids)
      BY <3>1
    <3> QED BY <2>9, <3>1, <3>2 DEF SettleYield
  <2>10. CASE Complete(w)
    <3>1. completing' \in Int /\ all' \subseteq Ids
      BY <2>10 DEF Complete
    <3> QED BY <2>10, <3>1 DEF Complete
  <2> QED
    BY <1>4, <2>1, <2>2, <2>3, <2>4, <2>5, <2>6, <2>7, <2>8, <2>9, <2>10
       DEF Work, Runner
<1>5. ASSUME NEW w \in Worker, SpuriousWake(w) PROVE TypeOK'
  BY <1>5 DEF SpuriousWake
<1>6. ASSUME NEW c \in Clients, Client(c) PROVE TypeOK'
  <2>1. ASSUME NEW t \in Ids, Acquire(c, t) PROVE TypeOK' BY <2>1 DEF Acquire
  <2>2. CASE CancelCheck(c) BY <2>2 DEF CancelCheck
  <2>3. CASE CancelStore(c) BY <2>3 DEF CancelStore
  <2>4. CASE Release(c)
    <3>1. \A i \in Nat : i > 0 => i - 1 \in Nat
      OBVIOUS
    <3> QED BY <2>4, <3>1 DEF Release
  <2> QED BY <1>6, <2>1, <2>2, <2>3, <2>4 DEF Client
<1>7. ASSUME NEW t \in Borrowable, Borrow(t) PROVE TypeOK'
  BY <1>7, SchedulerAssumption DEF Borrow, Ids
<1>8. ASSUME NEW n \in HistoryLimits, SetHistoryLimits(n) PROVE TypeOK'
  <2>1. n \in Nat BY SchedulerAssumption
  <2>2. all' \subseteq Ids BY <1>8 DEF SetHistoryLimits
  <2> QED BY <1>8, <2>1, <2>2 DEF SetHistoryLimits
<1>9. CASE Shutdown BY <1>9 DEF Shutdown, BroadcastNotEmpty
<1>10. CASE ShutdownTimeout BY <1>10 DEF ShutdownTimeout
<1>11. CASE ShutdownJoin BY <1>11 DEF ShutdownJoin
<1>12. CASE Free BY <1>12 DEF Free
<1>13. CASE Ended \/ UNCHANGED vars BY <1>13 DEF Ended, vars
<1> QED
  BY <1>1, <1>2, <1>3, <1>4, <1>5, <1>6, <1>7, <1>8, <1>9, <1>10, <1>11,
     <1>12, <1>13 DEF Next

\* Every variable keeps its type, whatever the workers, clients and the
\* shutdown thread of scheduler.c do.
THEOREM TypeCorrect == Spec => []TypeOK
  BY TypeInit, TypeStep, PTL DEF Spec

-----------------------------------------------------------------------------
\* A step that moves no task and runs none keeps them: it may wake a worker
\* or put it to sleep, consume ids, and touch what readers use.
LEMMA StillStep ==
    ASSUME PlaceInv,
           UNCHANGED <<queue, yield_list, cur, status, completed, run, owner>>,
           next_id \in Int, next_id' \in Int, next_id <= next_id',
           \A w \in Worker : pc[w] = "loop" /\ yield_list[w] # <<>> => pc'[w] = "loop",
           \A w \in Worker : pc'[w] = "callback" => pc[w] = "callback"
    PROVE  PlaceInv'
<1>1. SlotShape' BY DEF PlaceInv, SlotShape
<1>2. Placed' BY DEF PlaceInv, Placed, Has, Born
<1>3. Fresh'
  <2>1. \A t \in Ids : t \in Int BY SchedulerAssumption DEF Ids
  <2> QED BY <2>1 DEF PlaceInv, Fresh
<1>4. Begun' BY DEF PlaceInv, Begun, Has
<1>5. Home' BY DEF PlaceInv, Home
<1>6. OverWhenSettled' BY DEF PlaceInv, OverWhenSettled, Over
<1> QED BY <1>1, <1>2, <1>3, <1>4, <1>5, <1>6 DEF PlaceInv

\* A step of the coroutine a worker resumes, or the settling of its end, keeps
\* them: only that task's status and progress and its worker's place change.
LEMMA RunStep ==
    ASSUME TypeOK, PlaceInv,
           NEW w \in Worker, NEW t \in Ids, NEW s, NEW r, NEW x,
           cur[w] = t, pc[w] \in {"run", "ran"},
           UNCHANGED <<queue, yield_list, cur, completed, owner, next_id>>,
           status' = [status EXCEPT ![t] = s],
           run' = [run EXCEPT ![t] = r],
           pc' = [pc EXCEPT ![w] = x],
           s \notin {"none", "QUEUED"}, r # "new",
           r \in {"entry", "body"} => run[t] \in {"entry", "body"},
           x = "callback" => r \in {"nocoro", "aborted", "over"}
    PROVE  PlaceInv'
<1> USE DEF PlaceInv
<1>1. /\ status \in [Ids -> Statuses] /\ pc \in [Worker -> {"none", "loop", "asleep", "run", "ran", "callback", "exited"}]
      /\ run \in [Ids -> {"new", "nocoro", "entry", "body", "aborted", "over"}]
      /\ t # None
  BY NoneIsNoId DEF TypeOK
<1>2. Has(w, t) BY DEF Has
<1>3. /\ t \notin queue /\ ~completed[t] /\ Born(t)
      /\ \A v \in Worker : cur[v] = t => v = w
  BY <1>2 DEF Placed, Has
<1>4. SlotShape'
  <2>1. yield_list[w] = <<>> BY DEF SlotShape
  <2> QED BY <2>1, <1>1 DEF SlotShape
<1>5. Placed'
  <2>1. \A u \in Ids : Born(u)' <=> Born(u)
    BY <1>1, <1>3 DEF Born
  <2>2. \A u \in Ids, v \in Worker : Has(v, u)' <=> Has(v, u)
    BY DEF Has
  <2> QED BY <2>1, <2>2 DEF Placed
<1>6. Fresh'
  <2>1. ~(t >= next_id) BY <1>3 DEF Fresh, Born
  <2> QED BY <2>1, <1>1 DEF Fresh
<1>7. Begun' BY <1>1, <1>3 DEF Begun, Has
<1>8. Home' BY <1>1 DEF Home
<1>9. OverWhenSettled'
  <2>1. \A u \in Ids : completed'[u] => Over(u)'
    BY <1>1, <1>3 DEF OverWhenSettled, Over
  <2>2. ASSUME NEW v \in Worker, pc'[v] = "callback" PROVE Over(cur[v])'
    <3>1. CASE v = w BY <3>1, <2>2, <1>1 DEF Over
    <3>2. CASE v # w
      <4>1. pc[v] = "callback" /\ cur[v] # t BY <3>2, <2>2, <1>1, <1>3
      <4> QED BY <4>1, <1>1 DEF OverWhenSettled, Over
    <3> QED BY <3>1, <3>2
  <2> QED BY <2>1, <2>2 DEF OverWhenSettled
<1> QED BY <1>4, <1>5, <1>6, <1>7, <1>8, <1>9

\* A submission puts one task, never used before, in the heap.
LEMMA SubmitStep ==
    ASSUME TypeOK, PlaceInv, NEW p \in Priorities, Submit(p)
    PROVE  PlaceInv'
<1> USE DEF PlaceInv
<1> DEFINE t == next_id
<1>1. /\ status \in [Ids -> Statuses]
      /\ pc \in [Worker -> {"none", "loop", "asleep", "run", "ran", "callback", "exited"}]
      /\ t \in Ids /\ t \in Int
      /\ \A u \in Ids : u \in Int
  BY SchedulerAssumption DEF TypeOK, Ids, Submit
<1>2. /\ queue' = queue \cup {t} /\ status' = [status EXCEPT ![t] = "QUEUED"]
      /\ next_id' = t + 1
      /\ UNCHANGED <<yield_list, cur, completed, run, owner>>
  BY DEF Submit, clientVars
<1>3. status[t] = "none" /\ run[t] = "new"
  BY <1>1 DEF Fresh, Begun
<1>4. ~completed[t] BY <1>1, <1>3 DEF OverWhenSettled, Over
<1>5. t \notin queue /\ \A w \in Worker : ~Has(w, t)
  BY <1>1, <1>3 DEF Placed, Born
<1>6. PICK n \in Grown, s \in SignalTargets :
         pc' = [w \in Worker |->
                  IF w = s \/ w \in (workers + 1)..n THEN "loop" ELSE pc[w]]
  BY DEF Submit, Started
<1>7. \A w \in Worker : pc'[w] \in {"loop", pc[w]}
  BY <1>6
<1>8. \A u \in Ids, w \in Worker : Has(w, u)' <=> Has(w, u)
  BY <1>2 DEF Has
<1>9. SlotShape' BY <1>2, <1>7 DEF SlotShape
<1>10. Placed'
  <2>1. \A u \in Ids : Born(u)' <=> Born(u) \/ u = t
    BY <1>1, <1>2 DEF Born
  <2> QED BY <1>2, <1>4, <1>5, <1>8, <2>1 DEF Placed
<1>11. Fresh' BY <1>1, <1>2 DEF Fresh
<1>12. Begun' BY <1>1, <1>2, <1>3, <1>5, <1>8 DEF Begun
<1>13. Home' BY <1>2 DEF Home
<1>14. OverWhenSettled'
  <2>1. \A w \in Worker : pc'[w] = "callback" => pc[w] = "callback"
    BY <1>7
  <2> QED BY <1>2, <2>1 DEF OverWhenSettled, Over
<1> QED BY <1>9, <1>10, <1>11, <1>12, <1>13, <1>14

\* A worker resumes the only continuation of its slot: the task stays its own.
LEMMA TakeYieldedStep ==
    ASSUME TypeOK, PlaceInv, NEW w \in Worker, TakeYielded(w)
    PROVE  PlaceInv'
<1> USE DEF PlaceInv
<1>1. PICK t \in Ids : yield_list[w] = <<t>>
  BY DEF TakeYielded, SlotShape
<1>2. Head(<<t>>) = t /\ Tail(<<t>>) = <<>> /\ t # None /\ cur[w] = None
  <2>1. Head(<<t>>) = t /\ Tail(<<t>>) = <<>>
    OBVIOUS
  <2>2. pc[w] = "loop" /\ t # None BY NoneIsNoId DEF TakeYielded
  <2>3. cur[w] = None BY <2>2 DEF TypeOK
  <2> QED BY <2>1, <2>2, <2>3
<1>3. /\ cur' = [cur EXCEPT ![w] = t] /\ yield_list' = [yield_list EXCEPT ![w] = <<>>]
      /\ pc' = [pc EXCEPT ![w] = "run"]
      /\ UNCHANGED <<queue, completed, next_id, status, run, owner>>
  BY <1>1, <1>2 DEF TakeYielded, keepVars, taskVars
<1>4. /\ cur \in [Worker -> Ids \cup {None}] /\ yield_list \in [Worker -> Seq(Ids)]
      /\ pc \in [Worker -> {"none", "loop", "asleep", "run", "ran", "callback", "exited"}]
  BY DEF TypeOK
<1>5. \A u \in Ids, v \in Worker : Has(v, u)' <=> Has(v, u)
  <2> SUFFICES ASSUME NEW u \in Ids, NEW v \in Worker PROVE Has(v, u)' <=> Has(v, u)
    OBVIOUS
  <2>1. CASE v = w
    <3>1. Has(v, u) <=> u = t BY <1>1, <1>2, <2>1, NoneIsNoId DEF Has
    <3>2. Has(v, u)' <=> u = t BY <1>3, <1>4, <2>1 DEF Has
    <3> QED BY <3>1, <3>2
  <2>2. CASE v # w BY <1>3, <1>4, <2>2 DEF Has
  <2> QED BY <2>1, <2>2
<1>6. SlotShape' BY <1>3, <1>4 DEF SlotShape
<1>7. Placed' BY <1>3, <1>5 DEF Placed, Born
<1>8. Fresh' /\ Begun' BY <1>3, <1>5 DEF Fresh, Begun
<1>9. Home'
  <2>1. owner[t] = w BY <1>1 DEF Home
  <2> QED BY <1>3, <1>4, <2>1 DEF Home
<1>10. OverWhenSettled' BY <1>3, <1>4 DEF OverWhenSettled, Over
<1> QED BY <1>6, <1>7, <1>8, <1>9, <1>10

\* A worker pops the heap's first task: it leaves the heap for its hands.
LEMMA TakeQueuedStep ==
    ASSUME TypeOK, PlaceInv, NEW w \in Worker, NEW t \in Ids, TakeQueued(w, t)
    PROVE  PlaceInv'
<1> USE DEF PlaceInv
<1>1. t \in queue /\ yield_list[w] = <<>> /\ cur[w] = None /\ t # None
  BY NoneIsNoId DEF TakeQueued, QueueTop, TypeOK
<1> DEFINE Taken(s, r, x) ==
             /\ status' = [status EXCEPT ![t] = s] /\ run' = [run EXCEPT ![t] = r]
             /\ pc' = [pc EXCEPT ![w] = x]
             /\ \/ r = "entry" /\ owner' = [owner EXCEPT ![t] = w]
                \/ r = "nocoro" /\ owner' = owner
<1>2. PICK s \in {"RUNNING", "FAILED"}, r \in {"entry", "nocoro"}, x \in {"run", "ran"} :
         Taken(s, r, x)
  <2>1. Taken("RUNNING", "entry", "run") \/ Taken("FAILED", "nocoro", "ran")
    BY DEF TakeQueued
  <2> HIDE DEF Taken
  <2> QED BY <2>1
<1>3. /\ cur' = [cur EXCEPT ![w] = t] /\ queue' = queue \ {t}
      /\ UNCHANGED <<yield_list, completed, next_id>>
  BY DEF TakeQueued, keepVars
<1>4. /\ cur \in [Worker -> Ids \cup {None}] /\ status \in [Ids -> Statuses]
      /\ pc \in [Worker -> {"none", "loop", "asleep", "run", "ran", "callback", "exited"}]
      /\ run \in [Ids -> {"new", "nocoro", "entry", "body", "aborted", "over"}]
      /\ owner \in [Ids -> Worker \cup {None}]
  BY DEF TypeOK
<1>5. status[t] = "QUEUED" /\ run[t] = "new" /\ ~completed[t]
  BY <1>1 DEF Begun, Placed
<1>6. \A v \in Worker : ~Has(v, t)
  BY <1>1 DEF Placed
<1>7. \A u \in Ids, v \in Worker : Has(v, u)' <=> Has(v, u) \/ (v = w /\ u = t)
  <2> SUFFICES ASSUME NEW u \in Ids, NEW v \in Worker
               PROVE Has(v, u)' <=> Has(v, u) \/ (v = w /\ u = t)
    OBVIOUS
  <2>1. CASE v = w
    <3>1. ~Has(w, u) BY <1>1, NoneIsNoId DEF Has
    <3>2. yield_list'[w] = <<>> /\ cur'[w] = t BY <1>1, <1>3, <1>4
    <3>3. Has(w, u)' <=> u = t BY <3>2 DEF Has
    <3> QED BY <2>1, <3>1, <3>3
  <2>2. CASE v # w BY <1>3, <1>4, <2>2 DEF Has
  <2> QED BY <2>1, <2>2
<1>8. SlotShape'
  <2> SUFFICES ASSUME NEW v \in Worker
               PROVE \/ yield_list'[v] = <<>>
                     \/ pc'[v] = "loop" /\ \E u \in Ids : yield_list'[v] = <<u>>
    BY DEF SlotShape
  <2>1. CASE v = w BY <1>1, <1>3, <2>1
  <2>2. CASE v # w BY <1>2, <1>3, <1>4, <2>2 DEF SlotShape
  <2> QED BY <2>1, <2>2
<1>9. Placed'
  <2>1. \A u \in Ids : Born(u)' <=> Born(u)
    BY <1>2, <1>4, <1>5 DEF Born
  <2>2. ASSUME NEW u \in Ids
        PROVE (Born(u)' /\ ~completed'[u]) <=> (u \in queue' \/ \E v \in Worker : Has(v, u)')
    BY <1>1, <1>3, <1>5, <1>7, <2>1 DEF Placed, Born
  <2>3. \A u \in Ids, v \in Worker : u \in queue' => ~Has(v, u)'
    BY <1>3, <1>7 DEF Placed
  <2>4. \A u \in Ids : \A v, z \in Worker : Has(v, u)' /\ Has(z, u)' => v = z
    BY <1>6, <1>7 DEF Placed
  <2> QED BY <2>2, <2>3, <2>4 DEF Placed
<1>10. Fresh'
  <2>1. ~(t >= next_id) BY <1>5 DEF Fresh
  <2> QED BY <1>2, <1>3, <1>4, <2>1 DEF Fresh
<1>11. Begun' BY <1>2, <1>3, <1>4, <1>6, <1>7 DEF Begun
<1>12. Home'
  <2> SUFFICES ASSUME NEW v \in Worker, NEW u \in Ids,
                      yield_list'[v] = <<u>> \/ (cur'[v] = u /\ run'[u] \in {"entry", "body"})
               PROVE owner'[u] = v
    BY DEF Home
  <2>1. CASE u = t
    <3>1. v = w BY <1>3, <1>6, <1>4, <2>1 DEF Has
    <3>2. r = "entry"
      <4>1. yield_list'[v] # <<u>> BY <3>1, <1>1, <1>3
      <4> QED BY <4>1, <1>2, <1>4, <2>1
    <3> QED BY <2>1, <3>1, <3>2, <1>2, <1>4
  <2>2. CASE u # t
    <3>1. owner'[u] = owner[u] /\ run'[u] = run[u] BY <2>2, <1>2, <1>4
    <3>2. cur'[v] = u => cur[v] = u BY <2>2, <1>3, <1>4
    <3> QED BY <3>1, <3>2, <1>3 DEF Home
  <2> QED BY <2>1, <2>2
<1>13. OverWhenSettled'
  <2>1. \A u \in Ids : completed'[u] => Over(u)'
    BY <1>2, <1>3, <1>4, <1>5 DEF OverWhenSettled, Over
  <2>2. ASSUME NEW v \in Worker, pc'[v] = "callback" PROVE Over(cur[v])'
    <3>1. v # w /\ pc[v] = "callback" BY <2>2, <1>2, <1>4
    <3>2. cur'[v] = cur[v] /\ cur[v] # t BY <3>1, <1>3, <1>4, <1>6 DEF Has
    <3> QED BY <3>1, <3>2, <1>2, <1>4 DEF OverWhenSettled, Over
  <2> QED BY <2>1, <2>2 DEF OverWhenSettled, Over
<1> QED BY <1>8, <1>9, <1>10, <1>11, <1>12, <1>13

\* A yield moves the task from its worker's hands to that worker's slot.
LEMMA SettleYieldStep ==
    ASSUME TypeOK, PlaceInv, NEW w \in Worker, SettleYield(w)
    PROVE  PlaceInv'
<1> USE DEF PlaceInv
<1> DEFINE t == cur[w]
<1>1. pc[w] = "ran" /\ ~Over(t) /\ t \in Ids /\ yield_list[w] = <<>>
  <2>1. pc[w] = "ran" /\ ~Over(t) BY DEF SettleYield
  <2>2. t \in Ids BY <2>1 DEF TypeOK
  <2> QED BY <2>1, <2>2 DEF SlotShape
<1>2. Append(<<>>, t) = <<t>>
  OBVIOUS
<1>3. /\ cur' = [cur EXCEPT ![w] = None] /\ yield_list' = [yield_list EXCEPT ![w] = <<t>>]
      /\ pc' = [pc EXCEPT ![w] = "loop"]
      /\ UNCHANGED <<queue, completed, next_id, status, run, owner>>
  BY <1>1, <1>2 DEF SettleYield, keepVars, taskVars
<1>4. /\ cur \in [Worker -> Ids \cup {None}] /\ yield_list \in [Worker -> Seq(Ids)]
      /\ pc \in [Worker -> {"none", "loop", "asleep", "run", "ran", "callback", "exited"}]
      /\ run \in [Ids -> {"new", "nocoro", "entry", "body", "aborted", "over"}]
  BY DEF TypeOK
<1>5. \A u \in Ids, v \in Worker : Has(v, u)' <=> Has(v, u)
  <2> SUFFICES ASSUME NEW u \in Ids, NEW v \in Worker PROVE Has(v, u)' <=> Has(v, u)
    OBVIOUS
  <2>1. CASE v = w
    <3>0. yield_list[w] # <<u>> BY <1>1
    <3>1. Has(v, u) <=> u = t BY <3>0, <2>1 DEF Has
    <3>2. yield_list'[w] = <<t>> /\ cur'[w] = None BY <1>3, <1>4
    <3>3. <<t>> = <<u>> <=> u = t OBVIOUS
    <3>4. None # u BY NoneIsNoId
    <3>5. Has(w, u)' <=> u = t
      <4> HIDE DEF t
      <4> QED BY <3>2, <3>3, <3>4 DEF Has
    <3> QED BY <3>1, <3>5, <2>1
  <2>2. CASE v # w BY <1>3, <1>4, <2>2 DEF Has
  <2> QED BY <2>1, <2>2
<1>6. SlotShape' BY <1>1, <1>3, <1>4 DEF SlotShape
<1>7. Placed' BY <1>3, <1>5 DEF Placed, Born
<1>8. Fresh' /\ Begun' BY <1>3, <1>5 DEF Fresh, Begun
<1>9. Home'
  <2>1. owner[t] = w
    <3>1. run[t] # "new" BY <1>1 DEF Begun, Has
    <3>2. run[t] \in {"entry", "body"} BY <3>1, <1>1, <1>4 DEF Over
    <3> QED BY <3>2, <1>1 DEF Home
  <2> SUFFICES ASSUME NEW v \in Worker, NEW u \in Ids,
                      yield_list'[v] = <<u>> \/ (cur'[v] = u /\ run'[u] \in {"entry", "body"})
               PROVE owner'[u] = v
    BY DEF Home
  <2>2. CASE v = w
    <3>1. yield_list'[w] = <<t>> /\ cur'[w] = None BY <1>3, <1>4
    <3>2. u = t BY <3>1, <2>2, NoneIsNoId
    <3> QED BY <3>2, <2>1, <2>2, <1>3
  <2>3. CASE v # w BY <2>3, <1>3, <1>4 DEF Home
  <2> QED BY <2>2, <2>3
<1>10. OverWhenSettled' BY <1>3, <1>4 DEF OverWhenSettled, Over
<1> QED BY <1>6, <1>7, <1>8, <1>9, <1>10

\* After the callback the task is completed and in nobody's hands.
LEMMA CompleteStep ==
    ASSUME TypeOK, PlaceInv, NEW w \in Worker, Complete(w)
    PROVE  PlaceInv'
<1> USE DEF PlaceInv
<1> DEFINE t == cur[w]
<1>1. pc[w] = "callback" /\ t \in Ids /\ yield_list[w] = <<>> /\ Over(t)
  <2>1. pc[w] = "callback" BY DEF Complete
  <2>2. t \in Ids BY <2>1 DEF TypeOK
  <2> QED BY <2>1, <2>2 DEF SlotShape, OverWhenSettled
<1>2. /\ completed' = [completed EXCEPT ![t] = TRUE]
      /\ cur' = [cur EXCEPT ![w] = None]
      /\ pc' = [pc EXCEPT ![w] = "loop"]
      /\ UNCHANGED <<queue, yield_list, next_id, status, run, owner>>
  BY DEF Complete, queueVars, taskVars
<1>3. /\ cur \in [Worker -> Ids \cup {None}] /\ completed \in [Ids -> BOOLEAN]
      /\ pc \in [Worker -> {"none", "loop", "asleep", "run", "ran", "callback", "exited"}]
  BY DEF TypeOK
<1>4. \A u \in Ids, v \in Worker : Has(v, u)' <=> Has(v, u) /\ v # w
  <2> SUFFICES ASSUME NEW u \in Ids, NEW v \in Worker PROVE Has(v, u)' <=> Has(v, u) /\ v # w
    OBVIOUS
  <2>1. CASE v = w
    <3>1. yield_list'[w] # <<u>> /\ cur'[w] = None BY <1>1, <1>2, <1>3
    <3> QED BY <3>1, <2>1, NoneIsNoId DEF Has
  <2>2. CASE v # w BY <1>2, <1>3, <2>2 DEF Has
  <2> QED BY <2>1, <2>2
<1>5. Has(w, t) /\ \A u \in Ids : Has(w, u) => u = t
  BY <1>1 DEF Has
<1>6. t \notin queue /\ \A v \in Worker : Has(v, t) => v = w
  BY <1>1, <1>5 DEF Placed
<1>7. SlotShape'
  <2> SUFFICES ASSUME NEW v \in Worker
               PROVE \/ yield_list'[v] = <<>>
                     \/ pc'[v] = "loop" /\ \E u \in Ids : yield_list'[v] = <<u>>
    BY DEF SlotShape
  <2> QED BY <1>2, <1>3 DEF SlotShape
<1>8. Placed'
  <2>1. ASSUME NEW u \in Ids
        PROVE (Born(u)' /\ ~completed'[u]) <=> (u \in queue' \/ \E v \in Worker : Has(v, u)')
    <3>1. CASE u = t BY <3>1, <1>2, <1>3, <1>4, <1>6
    <3>2. CASE u # t
      <4>1. completed'[u] = completed[u] /\ (Born(u)' <=> Born(u)) BY <3>2, <1>2, <1>3 DEF Born
      <4>2. \A v \in Worker : Has(v, u)' <=> Has(v, u) BY <3>2, <1>4, <1>5
      <4> QED BY <4>1, <4>2, <1>2 DEF Placed
    <3> QED BY <3>1, <3>2
  <2>2. \A u \in Ids, v \in Worker : u \in queue' => ~Has(v, u)'
    BY <1>2, <1>4 DEF Placed
  <2>3. \A u \in Ids : \A v, z \in Worker : Has(v, u)' /\ Has(z, u)' => v = z
    BY <1>4 DEF Placed
  <2> QED BY <2>1, <2>2, <2>3 DEF Placed
<1>9. Fresh' /\ Begun' BY <1>2, <1>4 DEF Fresh, Begun
<1>10. Home' BY <1>2, <1>3, NoneIsNoId DEF Home
<1>11. OverWhenSettled' BY <1>1, <1>2, <1>3 DEF OverWhenSettled, Over
<1> QED BY <1>7, <1>8, <1>9, <1>10, <1>11

-----------------------------------------------------------------------------
\* scheduler_new_limited leaves every slot free and the heap empty, which is
\* the inductive invariant's base case.
LEMMA IndInit == Init => IndInv
<1> SUFFICES ASSUME Init PROVE IndInv
  OBVIOUS
<1>1. /\ \A w \in Worker : yield_list[w] = <<>> /\ cur[w] = None
      /\ \A t \in Ids : status[t] = "none" /\ run[t] = "new" /\ completed[t] = FALSE
      /\ \A w \in Worker : pc[w] # "callback"
      /\ queue = {}
  BY DEF Init
<1>2. \A t \in Ids, w \in Worker : ~Has(w, t)
  BY <1>1, NoneIsNoId DEF Has
<1>3. SlotShape /\ Fresh /\ Begun BY <1>1, <1>2 DEF SlotShape, Fresh, Begun
<1>4. Placed BY <1>1, <1>2 DEF Placed, Born
<1>5. Home
  <2>1. \A w \in Worker, t \in Ids : yield_list[w] # <<t>> BY <1>1
  <2> QED BY <1>1, <2>1 DEF Home
<1>6. OverWhenSettled BY <1>1 DEF OverWhenSettled
<1> QED BY TypeInit, <1>3, <1>4, <1>5, <1>6 DEF IndInv, PlaceInv

\* Every step of a client or of a worker keeps the inductive invariant: one
\* lemma per action that moves a task, StillStep or RunStep for the others.
LEMMA IndStep == IndInv /\ [Next]_vars => IndInv'
<1> SUFFICES ASSUME IndInv, [Next]_vars PROVE IndInv'
  OBVIOUS
<1>0. TypeOK /\ PlaceInv /\ TypeOK'
  BY TypeStep DEF IndInv
<1> SUFFICES PlaceInv'
  BY <1>0 DEF IndInv
<1> USE DEF queueVars, countVars, keepVars, taskVars, workerVars, clientVars
<1>a. /\ next_id \in Int /\ next_id' \in Int
      /\ \A n \in JournalMarks : n \in Int
      /\ pc \in [Worker -> {"none", "loop", "asleep", "run", "ran", "callback", "exited"}]
      /\ status \in [Ids -> Statuses]
      /\ run \in [Ids -> {"new", "nocoro", "entry", "body", "aborted", "over"}]
  BY <1>0, SchedulerAssumption DEF TypeOK
<1>1. ASSUME NEW p \in Priorities, Submit(p) PROVE PlaceInv'
  BY <1>0, <1>1, SubmitStep
<1>2. CASE SubmitRejected BY <1>0, <1>a, <1>2, StillStep DEF SubmitRejected
<1>3. ASSUME NEW n \in JournalMarks, EnsureNextId(n) PROVE PlaceInv'
  <2>1. next_id <= next_id' BY <1>3, <1>a DEF EnsureNextId
  <2>2. UNCHANGED <<queue, yield_list, cur, status, completed, run, owner, pc>>
    BY <1>3 DEF EnsureNextId
  <2> QED BY <1>0, <1>a, <2>1, <2>2, StillStep
<1>4. ASSUME NEW w \in Worker, Work(w) PROVE PlaceInv'
  <2>1. CASE Sleep(w)
    <3>1. UNCHANGED <<queue, yield_list, cur, status, completed, run, owner, next_id>>
      BY <2>1 DEF Sleep
    <3>2. yield_list[w] = <<>> /\ pc' = [pc EXCEPT ![w] = "asleep"] BY <2>1 DEF Sleep
    <3> QED BY <1>0, <1>a, <3>1, <3>2, StillStep
  <2>2. CASE Exit(w)
    <3>1. UNCHANGED <<queue, yield_list, cur, status, completed, run, owner, next_id>>
      BY <2>2 DEF Exit
    <3>2. yield_list[w] = <<>> /\ pc' = [pc EXCEPT ![w] = "exited"] BY <2>2 DEF Exit
    <3> QED BY <1>0, <1>a, <3>1, <3>2, StillStep
  <2>3. CASE TakeYielded(w) BY <1>0, <2>3, TakeYieldedStep
  <2>4. ASSUME NEW t \in Ids, TakeQueued(w, t) PROVE PlaceInv'
    BY <1>0, <2>4, TakeQueuedStep
  <2>5. ASSUME pc[w] \in {"run", "ran", "callback"}
        PROVE  LET t == cur[w]
               IN  t \in Ids /\ status[t] \notin {"none", "QUEUED"} /\ run[t] # "new"
    <3>1. cur[w] \in Ids BY <2>5, <1>0 DEF TypeOK
    <3> QED BY <3>1, <1>0 DEF PlaceInv, Begun, Has
  <2>6. CASE RunAbort(w)
    <3> DEFINE t == cur[w]
    <3>1. /\ pc[w] = "run"
          /\ UNCHANGED <<queue, yield_list, cur, completed, owner, next_id>>
          /\ status' = [status EXCEPT ![t] = "CANCELLED"]
          /\ run' = [run EXCEPT ![t] = "aborted"] /\ pc' = [pc EXCEPT ![w] = "ran"]
      BY <2>6 DEF RunAbort
    <3>2. t \in Ids BY <3>1, <2>5
    <3> HIDE DEF t
    <3>3. cur[w] = t BY DEF t
    <3>4. /\ "CANCELLED" \notin {"none", "QUEUED"} /\ "aborted" # "new"
          /\ "aborted" \notin {"entry", "body"} /\ "ran" # "callback"
          /\ pc[w] \in {"run", "ran"}
      BY <3>1
    <3> QED BY ONLY <1>0, <3>1, <3>2, <3>3, <3>4, RunStep
  <2>7. CASE RunEntry(w)
    <3> DEFINE t == cur[w]
    <3>1. /\ pc[w] = "run" /\ run[t] = "entry"
          /\ UNCHANGED <<queue, yield_list, cur, completed, owner, next_id>>
          /\ status' = status
          /\ run' = [run EXCEPT ![t] = "body"] /\ pc' = [pc EXCEPT ![w] = "ran"]
      BY <2>7 DEF RunEntry
    <3>2. t \in Ids /\ status[t] \notin {"none", "QUEUED"} BY <3>1, <2>5
    <3>3. status' = [status EXCEPT ![t] = status[t]] BY <3>1, <3>2, <1>a
    <3> HIDE DEF t
    <3>4. cur[w] = t BY DEF t
    <3> QED BY <1>0, <3>1, <3>2, <3>3, <3>4, RunStep
  <2>8. CASE RunBody(w)
    <3> DEFINE t == cur[w]
    <3>1. /\ pc[w] = "run"
          /\ UNCHANGED <<queue, yield_list, cur, completed, owner, next_id>>
          /\ status' = status
          /\ run' = [run EXCEPT ![t] = "over"] /\ pc' = [pc EXCEPT ![w] = "ran"]
      BY <2>8 DEF RunBody
    <3>2. t \in Ids /\ status[t] \notin {"none", "QUEUED"} BY <3>1, <2>5
    <3>3. status' = [status EXCEPT ![t] = status[t]] BY <3>1, <3>2, <1>a
    <3> HIDE DEF t
    <3>4. cur[w] = t BY DEF t
    <3> QED BY <1>0, <3>1, <3>2, <3>3, <3>4, RunStep
  <2>9. CASE SettleDone(w)
    <3> DEFINE t == cur[w]
    <3>1. /\ pc[w] = "ran" /\ Over(t)
          /\ UNCHANGED <<queue, yield_list, cur, completed, owner, next_id>>
          /\ status' = [status EXCEPT ![t] = FinalStatus(t)]
          /\ run' = run /\ pc' = [pc EXCEPT ![w] = "callback"]
      BY <2>9 DEF SettleDone
    <3>2. t \in Ids /\ status[t] \notin {"none", "QUEUED"} BY <3>1, <2>5
    <3>3. FinalStatus(t) \notin {"none", "QUEUED"} BY <3>2 DEF FinalStatus
    <3>4. run' = [run EXCEPT ![t] = run[t]] BY <3>1, <3>2, <1>a
    <3>5. run[t] \in {"nocoro", "aborted", "over"} BY <3>1 DEF Over
    <3> HIDE DEF t
    <3>6. cur[w] = t BY DEF t
    <3> QED BY <1>0, <3>1, <3>2, <3>3, <3>4, <3>5, <3>6, RunStep, ZenonT(60)
  <2>10. CASE SettleYield(w) BY <1>0, <2>10, SettleYieldStep
  <2>11. CASE Complete(w) BY <1>0, <2>11, CompleteStep
  <2> QED
    BY <1>4, <2>1, <2>2, <2>3, <2>4, <2>6, <2>7, <2>8, <2>9, <2>10, <2>11
       DEF Work, Runner
<1>5. ASSUME NEW w \in Worker, SpuriousWake(w) PROVE PlaceInv'
  <2>1. /\ UNCHANGED <<queue, yield_list, cur, status, completed, run, owner, next_id>>
        /\ pc[w] = "asleep" /\ pc' = [pc EXCEPT ![w] = "loop"]
    BY <1>5 DEF SpuriousWake
  <2> QED BY <1>0, <1>a, <2>1, StillStep
<1>6. ASSUME NEW c \in Clients, Client(c) PROVE PlaceInv'
  <2>1. UNCHANGED <<queue, yield_list, cur, status, completed, run, owner, next_id, pc>>
    BY <1>6 DEF Client, Acquire, CancelCheck, CancelStore, Release
  <2> QED BY <1>0, <1>a, <2>1, StillStep
<1>7. ASSUME NEW t \in Borrowable, Borrow(t) PROVE PlaceInv'
  <2>1. UNCHANGED <<queue, yield_list, cur, status, completed, run, owner, next_id, pc>>
    BY <1>7 DEF Borrow
  <2> QED BY <1>0, <1>a, <2>1, StillStep
<1>8. ASSUME NEW n \in HistoryLimits, SetHistoryLimits(n) PROVE PlaceInv'
  <2>1. UNCHANGED <<queue, yield_list, cur, status, completed, run, owner, next_id, pc>>
    BY <1>8 DEF SetHistoryLimits
  <2> QED BY <1>0, <1>a, <2>1, StillStep
<1>9. CASE Shutdown
  <2>1. /\ UNCHANGED <<queue, yield_list, cur, status, completed, run, owner, next_id>>
        /\ pc' = [w \in Worker |-> IF pc[w] = "asleep" THEN "loop" ELSE pc[w]]
    BY <1>9 DEF Shutdown, BroadcastNotEmpty
  <2> QED BY <1>0, <1>a, <2>1, StillStep
<1>10. CASE ShutdownTimeout \/ ShutdownJoin \/ Free \/ Ended \/ UNCHANGED vars
  <2>1. UNCHANGED <<queue, yield_list, cur, status, completed, run, owner, next_id, pc>>
    BY <1>10 DEF ShutdownTimeout, ShutdownJoin, Free, Ended, vars
  <2> QED BY <1>0, <1>a, <2>1, StillStep
<1> QED
  BY <1>1, <1>2, <1>3, <1>4, <1>5, <1>6, <1>7, <1>8, <1>9, <1>10 DEF Next

\* The inductive invariant holds in every state the scheduler reaches.
LEMMA IndCorrect == Spec => []IndInv
  BY IndInit, IndStep, PTL DEF Spec

\* In an invariant state a worker's slot has a task exactly when the task is
\* the one continuation of it.
LEMMA SlotIsHas ==
    ASSUME IndInv
    PROVE  \A w \in Worker, t \in Ids : InSlot(t, w) <=> yield_list[w] = <<t>>
<1> SUFFICES ASSUME NEW w \in Worker, NEW t \in Ids
             PROVE  InSlot(t, w) <=> yield_list[w] = <<t>>
  OBVIOUS
<1>1. CASE yield_list[w] = <<>> BY <1>1 DEF InSlot
<1>2. CASE \E u \in Ids : yield_list[w] = <<u>>
  <2>1. PICK u \in Ids : yield_list[w] = <<u>> BY <1>2
  <2>2. DOMAIN <<u>> = {1} /\ <<u>>[1] = u OBVIOUS
  <2>3. <<u>> = <<t>> <=> u = t OBVIOUS
  <2> QED BY <2>1, <2>2, <2>3 DEF InSlot
<1> QED BY <1>1, <1>2 DEF IndInv, PlaceInv, SlotShape

\* Whatever the workers interleave, an accepted task is in exactly one place
\* until it is completed: it is never lost, duplicated or run by two workers.
THEOREM EveryTaskInOnePlace == Spec => []OnePlace
<1>1. IndInv => OnePlace
  <2> SUFFICES ASSUME IndInv PROVE OnePlace
    OBVIOUS
  <2>1. \A w \in Worker, t \in Ids : Has(w, t) <=> InSlot(t, w) \/ cur[w] = t
    BY SlotIsHas DEF Has
  <2>2. \A w \in Worker, t \in Ids : InSlot(t, w) => cur[w] # t
    <3>1. \A w \in Worker, t \in Ids : yield_list[w] = <<t>> => yield_list[w] # <<>>
      OBVIOUS
    <3>2. \A w \in Worker : yield_list[w] # <<>> => cur[w] = None
      BY DEF IndInv, PlaceInv, SlotShape, TypeOK
    <3> QED BY <3>1, <3>2, SlotIsHas, NoneIsNoId
  <2>3. \A t \in Ids : (Born(t) /\ ~completed[t])
                          <=> (t \in queue \/ \E w \in Worker : InSlot(t, w) \/ cur[w] = t)
    BY <2>1 DEF IndInv, PlaceInv, Placed
  <2>4. \A t \in queue, w \in Worker : ~InSlot(t, w) /\ cur[w] # t
    <3>1. queue \subseteq Ids BY DEF IndInv, TypeOK
    <3> QED BY <2>1, <3>1 DEF IndInv, PlaceInv, Placed
  <2>5. \A v, w \in Worker : \A t \in Ids :
           /\ InSlot(t, v) => cur[w] # t
           /\ v # w => ~(InSlot(t, v) /\ InSlot(t, w)) /\ ~(cur[v] = t /\ cur[w] = t)
    BY <2>1, <2>2 DEF IndInv, PlaceInv, Placed
  <2> QED BY <2>3, <2>4, <2>5 DEF OnePlace
<1> QED BY <1>1, IndCorrect, PTL

\* A coroutine is only ever resumed on the thread that created it.
THEOREM CoroutineKeepsItsThread == Spec => []ContinuationStaysHome
<1>1. IndInv => ContinuationStaysHome
  BY SlotIsHas DEF ContinuationStaysHome, IndInv, PlaceInv, Home
<1> QED BY <1>1, IndCorrect, PTL

-----------------------------------------------------------------------------
(***************************************************************************)
(* What a task's status becomes and who may still change it:               *)
(* finalize_task, worker_main and h_task_cancel.                           *)
(***************************************************************************)
\* In worker w's hands, its callback under way.
CalledBack(w, t) == pc[w] = "callback" /\ cur[w] = t

\* A task whose result finalize_task has committed is out of the heap and of
\* every slot, and in the hands of its callback at most.
LEMMA SettledIsPut ==
    ASSUME IndInv, NEW t \in Ids, Settled(t)
    PROVE  /\ t \notin queue /\ status[t] \notin {"none", "QUEUED"} /\ t # next_id
           /\ \A w \in Worker : yield_list[w] # <<t>> /\ (cur[w] = t => pc[w] = "callback")
<1> USE DEF IndInv, PlaceInv
<1>1. t \notin queue /\ \A w \in Worker : yield_list[w] # <<t>> /\ (cur[w] = t => pc[w] = "callback")
  <2>1. CASE completed[t] BY <2>1 DEF Placed, Has
  <2>2. CASE \E v \in Worker : CalledBack(v, t)
    <3>1. PICK v \in Worker : CalledBack(v, t) BY <2>2
    <3>2. Has(v, t) BY <3>1 DEF Has, CalledBack
    <3>3. yield_list[v] = <<>> BY <3>1 DEF SlotShape, CalledBack
    <3>4. \A w \in Worker : Has(w, t) => w = v BY <3>2 DEF Placed
    <3>5. yield_list[v] # <<t>> BY <3>3
    <3> QED BY <3>1, <3>2, <3>4, <3>5 DEF Placed, Has, CalledBack
  <2> QED BY <2>1, <2>2 DEF Settled, CalledBack
<1>2. status[t] \notin {"none", "QUEUED"}
  <2>1. run[t] # "new"
    <3>1. CASE completed[t] BY <3>1 DEF OverWhenSettled, Over
    <3>2. CASE ~completed[t] BY <3>2 DEF Settled, OverWhenSettled, Over
    <3> QED BY <3>1, <3>2
  <2> QED BY <2>1 DEF Begun
<1>3. t # next_id
  <2>1. t >= t BY SchedulerAssumption DEF Ids
  <2> QED BY <2>1, <1>2 DEF Fresh
<1> QED BY <1>1, <1>2, <1>3

-----------------------------------------------------------------------------
\* A step that completes no task and starts or ends no callback settles
\* nothing.
LEMMA StillSettled ==
    ASSUME completed' = completed,
           \A w \in Worker, t \in Ids : CalledBack(w, t)' <=> CalledBack(w, t)
    PROVE  \A t \in Ids : Settled(t)' <=> Settled(t)
  BY DEF Settled, CalledBack

\* A worker's step settles the task of its hands if it is SettleDone, and no
\* task otherwise; nothing is unsettled.
LEMMA WorkSettles ==
    ASSUME IndInv, NEW w \in Worker, Work(w), NEW t \in Ids
    PROVE  Settled(t)' <=> Settled(t) \/ (SettleDone(w) /\ cur[w] = t)
<1>0. /\ pc \in [Worker -> {"none", "loop", "asleep", "run", "ran", "callback", "exited"}]
      /\ cur \in [Worker -> Ids \cup {None}] /\ completed \in [Ids -> BOOLEAN]
  BY DEF IndInv, TypeOK
<1> USE DEF keepVars
<1>1. ASSUME pc[w] # "callback", pc'[w] # "callback", completed' = completed,
             \A v \in Worker \ {w} : pc'[v] = pc[v] /\ cur'[v] = cur[v]
      PROVE  Settled(t)' <=> Settled(t)
  BY <1>1, StillSettled DEF CalledBack
<1>2. ASSUME SettleDone(w) PROVE Settled(t)' <=> Settled(t) \/ cur[w] = t
  <2>1. /\ completed' = completed /\ cur' = cur
        /\ pc' = [pc EXCEPT ![w] = "callback"] /\ pc[w] = "ran"
    BY <1>2 DEF SettleDone
  <2> QED BY <2>1, <1>0 DEF Settled
<1>3. ASSUME Complete(w) PROVE Settled(t)' <=> Settled(t)
  <2> DEFINE u == cur[w]
  <2>1. /\ completed' = [completed EXCEPT ![u] = TRUE]
        /\ cur' = [cur EXCEPT ![w] = None]
        /\ pc' = [pc EXCEPT ![w] = "loop"] /\ pc[w] = "callback"
    BY <1>3 DEF Complete
  <2>2. u \in Ids BY <2>1 DEF IndInv, TypeOK
  <2>3. CASE t = u BY <2>1, <2>2, <2>3, <1>0 DEF Settled
  <2>4. CASE t # u
    <3>1. completed'[t] = completed[t] BY <2>1, <2>4, <1>0
    <3>2. \A v \in Worker : CalledBack(v, t)' <=> CalledBack(v, t)
      BY <2>1, <2>4, <1>0, NoneIsNoId DEF CalledBack
    <3> QED BY <3>1, <3>2 DEF Settled, CalledBack
  <2> QED BY <2>3, <2>4
<1>4. CASE Sleep(w) \/ Exit(w)
  BY <1>4, <1>1, <1>0 DEF Sleep, Exit, SettleDone
<1>5. CASE TakeYielded(w) BY <1>5, <1>1, <1>0 DEF TakeYielded, SettleDone
<1>6. ASSUME NEW u \in Ids, TakeQueued(w, u)
      PROVE  Settled(t)' <=> Settled(t) \/ (SettleDone(w) /\ cur[w] = t)
  BY <1>6, <1>1, <1>0 DEF TakeQueued, SettleDone
<1>7. CASE Runner(w)
  BY <1>7, <1>1, <1>0 DEF Runner, RunAbort, RunEntry, RunBody, SettleDone
<1>8. CASE SettleYield(w) BY <1>8, <1>1, <1>0 DEF SettleYield, SettleDone
<1>9. CASE Complete(w) BY <1>9, <1>3 DEF SettleDone, Complete
<1> QED BY <1>2, <1>4, <1>5, <1>6, <1>7, <1>8, <1>9 DEF Work

\* A step that is no worker's settles no task and ends no callback.
LEMMA OthersSettleNothing ==
    ASSUME IndInv, [Next]_vars, ~ \E w \in Worker : Work(w), NEW t \in Ids
    PROVE  Settled(t)' <=> Settled(t)
<1>0. /\ pc \in [Worker -> {"none", "loop", "asleep", "run", "ran", "callback", "exited"}]
      /\ \A w \in Worker : pc[w] = "none" => w > workers
      /\ workers \in Int
  BY SchedulerAssumption DEF IndInv, TypeOK
<1> USE StillSettled DEF keepVars, workerVars, CalledBack
<1>1. ASSUME NEW p \in Priorities, Submit(p) PROVE Settled(t)' <=> Settled(t)
  <2>1. PICK n \in Grown, s \in SignalTargets : pc' = Started(n, s)
    BY <1>1 DEF Submit
  <2>2. \A w \in Worker : w \in (workers + 1)..n => pc[w] = "none"
    BY SchedulerAssumption DEF IndInv, TypeOK, Worker
  <2>3. \A w \in Worker : w = s => pc[w] = "asleep"
    BY NoneIsNoWorker DEF SignalTargets, Asleep
  <2>4. \A w \in Worker : pc'[w] = "callback" <=> pc[w] = "callback"
    BY <2>1, <2>2, <2>3 DEF Started
  <2>5. completed' = completed /\ cur' = cur BY <1>1 DEF Submit
  <2> QED BY <2>4, <2>5
<1>2. CASE SubmitRejected BY <1>2 DEF SubmitRejected
<1>3. ASSUME NEW n \in JournalMarks, EnsureNextId(n) PROVE Settled(t)' <=> Settled(t)
  BY <1>3 DEF EnsureNextId
<1>4. ASSUME NEW w \in Worker, SpuriousWake(w) PROVE Settled(t)' <=> Settled(t)
  BY <1>4, <1>0 DEF SpuriousWake
<1>5. ASSUME NEW c \in Clients, Client(c) PROVE Settled(t)' <=> Settled(t)
  BY <1>5 DEF Client, Acquire, CancelCheck, CancelStore, Release
<1>6. ASSUME NEW u \in Borrowable, Borrow(u) PROVE Settled(t)' <=> Settled(t)
  BY <1>6 DEF Borrow
<1>7. ASSUME NEW n \in HistoryLimits, SetHistoryLimits(n) PROVE Settled(t)' <=> Settled(t)
  BY <1>7 DEF SetHistoryLimits
<1>8. CASE Shutdown BY <1>8, <1>0 DEF Shutdown, BroadcastNotEmpty
<1>9. CASE ShutdownTimeout \/ ShutdownJoin \/ Free \/ Ended \/ UNCHANGED vars
  BY <1>9 DEF ShutdownTimeout, ShutdownJoin, Free, Ended, vars
<1> QED
  BY <1>1, <1>2, <1>3, <1>4, <1>5, <1>6, <1>7, <1>8, <1>9 DEF Next
-----------------------------------------------------------------------------
\* Nobody rewrites the status or the deadline flag of a settled task.
LEMMA SettledKeeps ==
    ASSUME IndInv, [Next]_vars, NEW t \in Ids, Settled(t)
    PROVE  status'[t] = status[t] /\ timed_out'[t] = timed_out[t]
<1>1. /\ t \notin queue /\ t # next_id
      /\ \A w \in Worker : cur[w] = t => pc[w] = "callback"
  BY SettledIsPut
<1>2. /\ status \in [Ids -> Statuses] /\ timed_out \in [Ids -> BOOLEAN]
      /\ \A w \in Worker : pc[w] \in {"run", "ran"} => cur[w] \in Ids /\ cur[w] # t
  BY <1>1 DEF IndInv, TypeOK
<1> USE DEF taskVars
<1>3. ASSUME NEW p \in Priorities, Submit(p)
      PROVE  status'[t] = status[t] /\ timed_out'[t] = timed_out[t]
  BY <1>1, <1>2, <1>3 DEF Submit
<1>4. ASSUME NEW w \in Worker, Work(w)
      PROVE  status'[t] = status[t] /\ timed_out'[t] = timed_out[t]
  <2>1. CASE Sleep(w) \/ Exit(w) \/ TakeYielded(w) \/ SettleYield(w) \/ Complete(w)
    BY <2>1 DEF Sleep, Exit, TakeYielded, SettleYield, Complete
  <2>2. ASSUME NEW u \in Ids, TakeQueued(w, u)
        PROVE  status'[t] = status[t] /\ timed_out'[t] = timed_out[t]
    <3>1. u # t BY <2>2, <1>1 DEF TakeQueued, QueueTop
    <3> QED BY <2>2, <3>1, <1>2 DEF TakeQueued
  <2>3. CASE Runner(w)
    BY <2>3, <1>2 DEF Runner, RunAbort, RunEntry, RunBody
  <2>4. CASE SettleDone(w) BY <2>4, <1>2 DEF SettleDone
  <2> QED BY <1>4, <2>1, <2>2, <2>3, <2>4 DEF Work
<1>5. CASE \/ SubmitRejected \/ (\E n \in JournalMarks : EnsureNextId(n))
           \/ (\E w \in Worker : SpuriousWake(w)) \/ (\E c \in Clients : Client(c))
  BY <1>5 DEF SubmitRejected, EnsureNextId, SpuriousWake, Client, Acquire,
              CancelCheck, CancelStore, Release
<1>6. CASE \/ (\E u \in Borrowable : Borrow(u))
           \/ (\E n \in HistoryLimits : SetHistoryLimits(n))
           \/ Shutdown \/ ShutdownTimeout \/ ShutdownJoin \/ Free \/ Ended \/ UNCHANGED vars
  BY <1>6 DEF Borrow, SetHistoryLimits, Shutdown, ShutdownTimeout, ShutdownJoin,
              Free, Ended, vars
<1> QED BY <1>3, <1>4, <1>5, <1>6 DEF Next

\* A task whose result is committed stays so, and its status with it: neither
\* a late cancel nor another worker rewrites what the API already showed.
THEOREM SettledStatusIsFinal == Spec => SettledIsFinal
<1>1. IndInv /\ [Next]_vars => \A t \in Ids : Settled(t) => status'[t] = status[t] /\ Settled(t)'
  <2> SUFFICES ASSUME IndInv, [Next]_vars, NEW t \in Ids, Settled(t)
               PROVE  status'[t] = status[t] /\ Settled(t)'
    OBVIOUS
  <2>1. Settled(t)'
    <3>1. CASE \E w \in Worker : Work(w) BY <3>1, WorkSettles
    <3>2. CASE ~ \E w \in Worker : Work(w) BY <3>2, OthersSettleNothing
    <3> QED BY <3>1, <3>2
  <2> QED BY <2>1, SettledKeeps
<1> QED BY <1>1, IndCorrect, PTL DEF Spec, SettledIsFinal

-----------------------------------------------------------------------------
\* A cancel flag changes when a client stores it, and only then.
LEMMA FlagIsStored ==
    ASSUME [Next]_vars, ~ \E c \in Clients : CancelStore(c)
    PROVE  cancel_flag' = cancel_flag
<1> USE DEF taskVars
<1>1. CASE \E p \in Priorities : Submit(p) BY <1>1 DEF Submit
<1>2. CASE \E w \in Worker : Work(w)
  BY <1>2 DEF Work, Runner, Sleep, Exit, TakeYielded, TakeQueued, RunAbort, RunEntry,
              RunBody, SettleDone, SettleYield, Complete
<1>3. CASE \/ SubmitRejected \/ (\E n \in JournalMarks : EnsureNextId(n))
           \/ (\E w \in Worker : SpuriousWake(w)) \/ (\E c \in Clients : Client(c))
  BY <1>3 DEF SubmitRejected, EnsureNextId, SpuriousWake, Client, Acquire,
              CancelCheck, Release
<1>4. CASE \/ (\E u \in Borrowable : Borrow(u))
           \/ (\E n \in HistoryLimits : SetHistoryLimits(n))
           \/ Shutdown \/ ShutdownTimeout \/ ShutdownJoin \/ Free \/ Ended \/ UNCHANGED vars
  BY <1>4 DEF Borrow, SetHistoryLimits, Shutdown, ShutdownTimeout, ShutdownJoin,
              Free, Ended, vars
<1> QED BY <1>1, <1>2, <1>3, <1>4 DEF Next

\* A client's store keeps a flag that is set; otherwise the flag says what the
\* task is doing, which nothing else of it changes.
LEMMA StoreTells ==
    ASSUME IndInv, NEW c \in Clients, CancelStore(c), NEW t \in Ids
    PROVE  /\ status' = status /\ run' = run /\ timed_out' = timed_out
           /\ \/ cancel_flag'[t] = cancel_flag[t]
              \/ status[t] = "QUEUED" /\ cancel_flag'[t] = "queued"
              \/ status[t] # "QUEUED" /\ ~Settled(t) /\ cancel_flag'[t] = "running"
              \/ Settled(t) /\ cancel_flag'[t] = "late"
<1>1. cancel_flag \in [Ids -> {"no", "queued", "running", "late"}]
  BY DEF IndInv, TypeOK
<1>2. CASE held[c] = t BY <1>1, <1>2 DEF CancelStore
<1>3. CASE held[c] # t BY <1>1, <1>3 DEF CancelStore
<1> QED BY <1>2, <1>3 DEF CancelStore

\* The runner reaches its work only from the entry check, which lets no
\* cancelled task pass.
LEMMA RunLeavesEntry ==
    ASSUME IndInv, [Next]_vars, NEW t \in Ids,
           run[t] \in {"new", "nocoro", "entry", "aborted"}
    PROVE  \/ run'[t] \in {"new", "nocoro", "entry", "aborted"}
           \/ cancel_flag[t] = "no" /\ cancel_flag'[t] = "no"
<1>1. run \in [Ids -> {"new", "nocoro", "entry", "body", "aborted", "over"}]
  BY DEF IndInv, TypeOK
<1> USE DEF taskVars
<1>2. ASSUME NEW w \in Worker, Work(w)
      PROVE  \/ run'[t] \in {"new", "nocoro", "entry", "aborted"}
             \/ cancel_flag[t] = "no" /\ cancel_flag'[t] = "no"
  <2>1. CASE \/ Sleep(w) \/ Exit(w) \/ TakeYielded(w) \/ SettleYield(w) \/ SettleDone(w)
             \/ Complete(w)
    BY <2>1 DEF Sleep, Exit, TakeYielded, SettleYield, SettleDone, Complete
  <2>2. CASE \E u \in Ids : TakeQueued(w, u) BY <2>2, <1>1 DEF TakeQueued
  <2>3. CASE RunAbort(w) BY <2>3, <1>1 DEF RunAbort
  <2>4. CASE RunEntry(w)
    <3>1. CASE cur[w] = t BY <3>1, <2>4 DEF RunEntry
    <3>2. CASE cur[w] # t BY <3>2, <2>4, <1>1 DEF RunEntry
    <3> QED BY <3>1, <3>2
  <2>5. CASE RunBody(w)
    <3>1. cur[w] # t BY <2>5 DEF RunBody
    <3> QED BY <3>1, <2>5, <1>1 DEF RunBody
  <2> QED BY <1>2, <2>1, <2>2, <2>3, <2>4, <2>5 DEF Work, Runner
<1>3. CASE \/ (\E p \in Priorities : Submit(p))
           \/ SubmitRejected \/ (\E n \in JournalMarks : EnsureNextId(n))
           \/ (\E w \in Worker : SpuriousWake(w)) \/ (\E c \in Clients : Client(c))
  BY <1>3 DEF Submit, SubmitRejected, EnsureNextId, SpuriousWake, Client, Acquire,
              CancelCheck, CancelStore, Release
<1>4. CASE \/ (\E u \in Borrowable : Borrow(u))
           \/ (\E n \in HistoryLimits : SetHistoryLimits(n))
           \/ Shutdown \/ ShutdownTimeout \/ ShutdownJoin \/ Free \/ Ended \/ UNCHANGED vars
  BY <1>4 DEF Borrow, SetHistoryLimits, Shutdown, ShutdownTimeout, ShutdownJoin,
              Free, Ended, vars
<1> QED BY <1>2, <1>3, <1>4 DEF Next

\* A task cancelled while it waits in the heap never reaches its work, however
\* its worker and the clients interleave.
THEOREM CancelledInHeapNeverWorks == Spec => []QueuedCancelNeverRuns
<1>1. Init => QueuedCancelNeverRuns
  BY DEF Init, QueuedCancelNeverRuns
<1>2. IndInv /\ QueuedCancelNeverRuns /\ [Next]_vars => QueuedCancelNeverRuns'
  <2> SUFFICES ASSUME IndInv, QueuedCancelNeverRuns, [Next]_vars,
                      NEW t \in Ids, cancel_flag'[t] = "queued"
               PROVE  run'[t] \in {"new", "nocoro", "entry", "aborted"}
    BY DEF QueuedCancelNeverRuns
  <2>1. CASE \E c \in Clients : CancelStore(c)
    <3>1. run'[t] = run[t] /\ (cancel_flag[t] = "queued" \/ status[t] = "QUEUED")
      BY <2>1, StoreTells
    <3> QED BY <3>1 DEF QueuedCancelNeverRuns, IndInv, PlaceInv, Begun
  <2>2. CASE ~ \E c \in Clients : CancelStore(c)
    <3>1. cancel_flag[t] = "queued" BY <2>2, FlagIsStored
    <3> QED BY <3>1, RunLeavesEntry DEF QueuedCancelNeverRuns
  <2> QED BY <2>1, <2>2
<1> QED BY <1>1, <1>2, IndCorrect, PTL DEF Spec

\* Whatever the runner reports, a cancel stored before finalize_task decides
\* the status; only a deadline the run noticed first outranks it.
THEOREM CancelInTimeWins == Spec => []CancelBeforeSettleWins
<1>1. Init => CancelBeforeSettleWins
  BY DEF Init, CancelBeforeSettleWins
<1>2. IndInv /\ CancelBeforeSettleWins /\ [Next]_vars => CancelBeforeSettleWins'
  <2> SUFFICES ASSUME IndInv, CancelBeforeSettleWins, [Next]_vars, NEW t \in Ids,
                      Settled(t)', cancel_flag'[t] \in {"queued", "running"}
               PROVE  \/ status'[t] = "CANCELLED"
                      \/ status'[t] = "TIMEOUT" /\ timed_out'[t]
    BY DEF CancelBeforeSettleWins
  <2>1. CASE Settled(t)
    <3>1. status'[t] = status[t] /\ timed_out'[t] = timed_out[t]
      BY <2>1, SettledKeeps
    <3>2. status[t] # "QUEUED" BY <2>1, SettledIsPut
    <3>3. cancel_flag[t] \in {"queued", "running"}
      BY <2>1, <3>2, StoreTells, FlagIsStored
    <3> QED BY <2>1, <3>1, <3>3 DEF CancelBeforeSettleWins
  <2>2. CASE ~Settled(t)
    <3>1. PICK w \in Worker : SettleDone(w) /\ cur[w] = t
      BY <2>2, WorkSettles, OthersSettleNothing
    <3>2. /\ status' = [status EXCEPT ![t] = FinalStatus(t)]
          /\ cancel_flag' = cancel_flag /\ timed_out' = timed_out
      BY <3>1 DEF SettleDone
    <3>3. status'[t] = FinalStatus(t) BY <3>2 DEF IndInv, TypeOK
    <3> QED BY <3>2, <3>3 DEF FinalStatus
  <2> QED BY <2>1, <2>2
<1> QED BY <1>1, <1>2, IndCorrect, PTL DEF Spec

-----------------------------------------------------------------------------
(***************************************************************************)
(* What the counters of struct scheduler count, and what an idle wait and  *)
(* a joined shutdown may conclude from them.                               *)
(***************************************************************************)
Exited      == {w \in Worker : pc[w] = "exited"}
CallingBack == {w \in Worker : pc[w] = "callback"}
Unsettled   == {t \in Ids : Born(t) /\ ~Settled(t)}

\* A worker leaves only when nothing is left for it, and shutdown_flag keeps
\* the heap empty from then on.
GoneForGood ==
    /\ closer # "open" => shutdown_flag
    /\ \A w \in Worker : pc[w] = "exited" =>
          shutdown_flag /\ queue = {} /\ yield_list[w] = <<>>

\* scheduler_shutdown joins when every created thread has left.
JoinedAll == closer \in {"joined", "freed"} => \A w \in Worker : pc[w] \in {"none", "exited"}

CountInv ==
    /\ exited = Cardinality(Exited)
    /\ completing = Cardinality(CallingBack)
    /\ active = Cardinality(Unsettled)
    /\ GoneForGood /\ JoinedAll

\* There are finitely many workers and tasks.
LEMMA CountedAreFinite ==
    /\ \A S \in SUBSET Worker : IsFiniteSet(S)
    /\ \A S \in SUBSET Ids : IsFiniteSet(S)
<1>1. IsFiniteSet(Worker) BY SchedulerAssumption, FS_Interval DEF Worker
<1>2. IsFiniteSet(Ids) BY SchedulerAssumption, FS_Interval DEF Ids
<1> QED BY <1>1, <1>2, FS_Subset

\* The signal and the growth of a submission touch sleeping workers and slots
\* without a thread.
LEMMA SubmitWakes ==
    ASSUME IndInv, NEW p \in Priorities, Submit(p), NEW w \in Worker
    PROVE  pc'[w] = pc[w] \/ (pc[w] \in {"none", "asleep"} /\ pc'[w] = "loop")
<1>1. PICK n \in Grown, s \in SignalTargets : pc' = Started(n, s)
  BY DEF Submit
<1>2. w \in (workers + 1)..n => pc[w] = "none"
  BY SchedulerAssumption DEF IndInv, TypeOK, Worker
<1>3. w = s => pc[w] = "asleep"
  BY NoneIsNoWorker DEF SignalTargets, Asleep
<1> QED BY <1>1, <1>2, <1>3 DEF Started

\* No step but a worker's own makes it leave, or begins or ends a callback.
LEMMA OthersOnlyWake ==
    ASSUME IndInv, [Next]_vars, ~ \E w \in Worker : Work(w), NEW w \in Worker
    PROVE  pc'[w] = pc[w] \/ (pc[w] \in {"none", "asleep"} /\ pc'[w] = "loop")
<1>0. pc \in [Worker -> {"none", "loop", "asleep", "run", "ran", "callback", "exited"}]
  BY DEF IndInv, TypeOK
<1> USE DEF workerVars
<1>1. CASE \E p \in Priorities : Submit(p) BY <1>1, SubmitWakes
<1>2. CASE \/ SubmitRejected \/ (\E n \in JournalMarks : EnsureNextId(n))
           \/ (\E c \in Clients : Client(c))
  BY <1>2 DEF SubmitRejected, EnsureNextId, Client, Acquire, CancelCheck, CancelStore, Release
<1>3. CASE \E v \in Worker : SpuriousWake(v) BY <1>0, <1>3 DEF SpuriousWake
<1>4. CASE Shutdown BY <1>0, <1>4 DEF Shutdown, BroadcastNotEmpty
<1>5. CASE \/ (\E u \in Borrowable : Borrow(u))
           \/ (\E n \in HistoryLimits : SetHistoryLimits(n))
           \/ ShutdownTimeout \/ ShutdownJoin \/ Free \/ Ended \/ UNCHANGED vars
  BY <1>5 DEF Borrow, SetHistoryLimits, ShutdownTimeout, ShutdownJoin, Free, Ended, vars
<1> QED BY <1>1, <1>2, <1>3, <1>4, <1>5 DEF Next

\* Such a step leaves the three counts to Submit.
LEMMA OthersCountSame ==
    ASSUME [Next]_vars, ~ \E w \in Worker : Work(w)
    PROVE  /\ exited' = exited /\ completing' = completing
           /\ (active' = active /\ status' = status) \/ \E p \in Priorities : Submit(p)
<1> USE DEF countVars, taskVars
<1>1. CASE \E p \in Priorities : Submit(p) BY <1>1 DEF Submit
<1>2. CASE \/ SubmitRejected \/ (\E n \in JournalMarks : EnsureNextId(n))
           \/ (\E w \in Worker : SpuriousWake(w)) \/ (\E c \in Clients : Client(c))
  BY <1>2 DEF SubmitRejected, EnsureNextId, SpuriousWake, Client, Acquire,
              CancelCheck, CancelStore, Release
<1>3. CASE \/ (\E u \in Borrowable : Borrow(u))
           \/ (\E n \in HistoryLimits : SetHistoryLimits(n))
           \/ Shutdown \/ ShutdownTimeout \/ ShutdownJoin \/ Free \/ Ended \/ UNCHANGED vars
  BY <1>3 DEF Borrow, SetHistoryLimits, Shutdown, ShutdownTimeout, ShutdownJoin,
              Free, Ended, vars
<1> QED BY <1>1, <1>2, <1>3 DEF Next

-----------------------------------------------------------------------------
\* exited counts the workers that have left their loop.
LEMMA ExitedCounts ==
    ASSUME IndInv, [Next]_vars, exited = Cardinality(Exited)
    PROVE  exited' = Cardinality(Exited')
<1>0. /\ pc \in [Worker -> {"none", "loop", "asleep", "run", "ran", "callback", "exited"}]
      /\ IsFiniteSet(Exited)
  BY CountedAreFinite DEF IndInv, TypeOK, Exited
<1>1. CASE ~ \E w \in Worker : Work(w)
  <2>1. Exited' = Exited BY <1>1, OthersOnlyWake DEF Exited
  <2> QED BY <1>1, <2>1, OthersCountSame
<1>2. ASSUME NEW w \in Worker, Work(w) PROVE exited' = Cardinality(Exited')
  <2>1. CASE Exit(w)
    <3>1. exited' = exited + 1 /\ w \notin Exited BY <2>1 DEF Exit, Exited
    <3>2. Exited' = Exited \cup {w} BY <2>1, <1>0 DEF Exit, Exited
    <3> QED BY <3>1, <3>2, <1>0, FS_AddElement
  <2>2. CASE ~Exit(w)
    <3>1. /\ exited' = exited /\ pc[w] \notin {"exited", "none"} /\ pc'[w] # "exited"
          /\ \A v \in Worker \ {w} : pc'[v] = pc[v]
      BY <1>2, <2>2, <1>0 DEF Work, Runner, Sleep, TakeYielded, TakeQueued, RunAbort, RunEntry,
         RunBody, SettleDone, SettleYield, Complete, countVars
    <3>2. Exited' = Exited BY <3>1 DEF Exited
    <3> QED BY <3>1, <3>2
  <2> QED BY <2>1, <2>2
<1> QED BY <1>1, <1>2

\* completing counts the callbacks under way.
LEMMA CompletingCounts ==
    ASSUME IndInv, [Next]_vars, completing = Cardinality(CallingBack)
    PROVE  completing' = Cardinality(CallingBack')
<1>0. /\ pc \in [Worker -> {"none", "loop", "asleep", "run", "ran", "callback", "exited"}]
      /\ IsFiniteSet(CallingBack)
  BY CountedAreFinite DEF IndInv, TypeOK, CallingBack
<1>1. CASE ~ \E w \in Worker : Work(w)
  <2>1. CallingBack' = CallingBack BY <1>1, OthersOnlyWake DEF CallingBack
  <2> QED BY <1>1, <2>1, OthersCountSame
<1>2. ASSUME NEW w \in Worker, Work(w) PROVE completing' = Cardinality(CallingBack')
  <2>1. CASE SettleDone(w)
    <3>1. completing' = completing + 1 /\ w \notin CallingBack
      BY <2>1 DEF SettleDone, CallingBack
    <3>2. CallingBack' = CallingBack \cup {w} BY <2>1, <1>0 DEF SettleDone, CallingBack
    <3> QED BY <3>1, <3>2, <1>0, FS_AddElement
  <2>2. CASE Complete(w)
    <3>1. completing' = completing - 1 /\ w \in CallingBack
      BY <2>2 DEF Complete, CallingBack
    <3>2. CallingBack' = CallingBack \ {w} BY <2>2, <1>0 DEF Complete, CallingBack
    <3> QED BY <3>1, <3>2, <1>0, FS_RemoveElement
  <2>3. CASE ~SettleDone(w) /\ ~Complete(w)
    <3>1. /\ completing' = completing /\ pc[w] # "callback" /\ pc'[w] # "callback"
          /\ \A v \in Worker \ {w} : pc'[v] = pc[v]
      BY <1>2, <2>3, <1>0 DEF Work, Runner, Sleep, Exit, TakeYielded, TakeQueued, RunAbort,
         RunEntry, RunBody, SettleYield, countVars
    <3>2. CallingBack' = CallingBack BY <3>1 DEF CallingBack
    <3> QED BY <3>1, <3>2
  <2> QED BY <2>1, <2>2, <2>3
<1> QED BY <1>1, <1>2

\* A worker accepts no task and makes none disappear.
LEMMA WorkBearsNone ==
    ASSUME IndInv, NEW w \in Worker, Work(w), NEW t \in Ids
    PROVE  Born(t)' <=> Born(t)
<1>0. status \in [Ids -> Statuses] BY DEF IndInv, TypeOK
<1>1. pc[w] \in {"run", "ran", "callback"} => cur[w] \in Ids /\ status[cur[w]] \notin {"none", "QUEUED"}
  <2>1. pc[w] \in {"run", "ran", "callback"} => cur[w] \in Ids BY DEF IndInv, TypeOK
  <2> QED BY <2>1 DEF IndInv, PlaceInv, Begun, Has
<1> USE DEF taskVars, Born
<1>2. CASE Sleep(w) \/ Exit(w) \/ TakeYielded(w) \/ SettleYield(w) \/ Complete(w)
  BY <1>2 DEF Sleep, Exit, TakeYielded, SettleYield, Complete
<1>3. ASSUME NEW u \in Ids, TakeQueued(w, u) PROVE Born(t)' <=> Born(t)
  <2>1. status[u] = "QUEUED"
    BY <1>3 DEF TakeQueued, QueueTop, IndInv, PlaceInv, Begun
  <2> QED BY <1>0, <1>3, <2>1 DEF TakeQueued
<1>4. CASE Runner(w) BY <1>0, <1>1, <1>4 DEF Runner, RunAbort, RunEntry, RunBody
<1>5. CASE SettleDone(w)
  <2>1. FinalStatus(cur[w]) # "none" BY <1>1, <1>5 DEF SettleDone, FinalStatus
  <2> QED BY <1>0, <1>1, <1>5, <2>1 DEF SettleDone
<1> QED BY <1>2, <1>3, <1>4, <1>5 DEF Work

\* active counts the accepted tasks whose result is not committed.
LEMMA ActiveCounts ==
    ASSUME IndInv, [Next]_vars, active = Cardinality(Unsettled)
    PROVE  active' = Cardinality(Unsettled')
<1>0. /\ status \in [Ids -> Statuses] /\ IsFiniteSet(Unsettled)
  BY CountedAreFinite DEF IndInv, TypeOK, Unsettled
<1>1. CASE ~ \E w \in Worker : Work(w)
  <2>1. \A t \in Ids : Settled(t)' <=> Settled(t) BY <1>1, OthersSettleNothing
  <2>2. CASE active' = active /\ status' = status
    <3>1. Unsettled' = Unsettled BY <2>1, <2>2 DEF Unsettled, Born
    <3> QED BY <2>2, <3>1
  <2>3. CASE \E p \in Priorities : Submit(p)
    <3>1. /\ next_id \in Ids /\ active' = active + 1
          /\ status' = [status EXCEPT ![next_id] = "QUEUED"]
      BY <2>3, SchedulerAssumption DEF Submit, Ids, IndInv, TypeOK
    <3>2. status[next_id] = "none"
      <4>1. next_id >= next_id BY SchedulerAssumption, <3>1 DEF Ids
      <4> QED BY <3>1, <4>1 DEF IndInv, PlaceInv, Fresh
    <3>3. ~Settled(next_id) BY <3>1, <3>2, SettledIsPut
    <3>4. next_id \notin Unsettled BY <3>2 DEF Unsettled, Born
    <3>5. Unsettled' = Unsettled \cup {next_id}
      BY <1>0, <2>1, <3>1, <3>2, <3>3 DEF Unsettled, Born
    <3> QED BY <1>0, <3>1, <3>4, <3>5, FS_AddElement
  <2> QED BY <1>1, <2>2, <2>3, OthersCountSame
<1>2. ASSUME NEW w \in Worker, Work(w) PROVE active' = Cardinality(Unsettled')
  <2>1. \A t \in Ids : Born(t)' <=> Born(t) BY <1>2, WorkBearsNone
  <2>2. CASE SettleDone(w)
    <3> DEFINE t == cur[w]
    <3>1. active' = active - 1 /\ pc[w] = "ran" BY <2>2 DEF SettleDone
    <3>2. t \in Ids /\ Born(t)
      <4>1. t \in Ids BY <3>1 DEF IndInv, TypeOK
      <4> QED BY <4>1 DEF IndInv, PlaceInv, Begun, Has, Born
    <3>3. ~Settled(t) BY <3>1, <3>2, SettledIsPut
    <3>4. \A u \in Ids : Settled(u)' <=> Settled(u) \/ u = t
      BY <1>2, <2>2, WorkSettles
    <3>5. t \in Unsettled BY <3>2, <3>3 DEF Unsettled
    <3>6. Unsettled' = Unsettled \ {t} BY <2>1, <3>4 DEF Unsettled
    <3> QED BY <1>0, <3>1, <3>5, <3>6, FS_RemoveElement
  <2>3. CASE ~SettleDone(w)
    <3>1. active' = active
      BY <1>2, <2>3 DEF Work, Runner, Sleep, Exit, TakeYielded, TakeQueued, RunAbort,
         RunEntry, RunBody, SettleYield, Complete, countVars
    <3>2. \A u \in Ids : Settled(u)' <=> Settled(u) BY <1>2, <2>3, WorkSettles
    <3>3. Unsettled' = Unsettled BY <2>1, <3>2 DEF Unsettled
    <3> QED BY <3>1, <3>3
  <2> QED BY <2>2, <2>3
<1> QED BY <1>1, <1>2

-----------------------------------------------------------------------------
\* The flag is never lowered, and once it is set nothing enters the heap and
\* no worker is created.
LEMMA FlagStays ==
    ASSUME [Next]_vars, shutdown_flag
    PROVE  shutdown_flag' /\ queue' \subseteq queue /\ workers' = workers
<1> USE DEF queueVars, countVars
<1>1. CASE \E p \in Priorities : Submit(p) BY <1>1 DEF Submit
<1>2. CASE \E w \in Worker : Work(w)
  BY <1>2 DEF Work, Runner, Sleep, Exit, TakeYielded, TakeQueued, RunAbort, RunEntry,
              RunBody, SettleDone, SettleYield, Complete
<1>3. CASE \/ SubmitRejected \/ (\E n \in JournalMarks : EnsureNextId(n))
           \/ (\E w \in Worker : SpuriousWake(w)) \/ (\E c \in Clients : Client(c))
  BY <1>3 DEF SubmitRejected, EnsureNextId, SpuriousWake, Client, Acquire,
              CancelCheck, CancelStore, Release
<1>4. CASE \/ (\E u \in Borrowable : Borrow(u))
           \/ (\E n \in HistoryLimits : SetHistoryLimits(n))
           \/ Shutdown \/ ShutdownTimeout \/ ShutdownJoin \/ Free \/ Ended \/ UNCHANGED vars
  BY <1>4 DEF Borrow, SetHistoryLimits, Shutdown, ShutdownTimeout, ShutdownJoin,
              Free, Ended, vars
<1> QED BY <1>1, <1>2, <1>3, <1>4 DEF Next

\* Only the thread that shuts down moves closer.
LEMMA CloserMoves ==
    ASSUME [Next]_vars
    PROVE  closer' = closer \/ Shutdown \/ ShutdownTimeout \/ ShutdownJoin \/ Free
<1>1. CASE \/ (\E p \in Priorities : Submit(p)) \/ SubmitRejected
           \/ (\E n \in JournalMarks : EnsureNextId(n))
           \/ (\E w \in Worker : SpuriousWake(w)) \/ (\E c \in Clients : Client(c))
  BY <1>1 DEF Submit, SubmitRejected, EnsureNextId, SpuriousWake, Client, Acquire,
              CancelCheck, CancelStore, Release
<1>2. CASE \E w \in Worker : Work(w)
  BY <1>2 DEF Work, Runner, Sleep, Exit, TakeYielded, TakeQueued, RunAbort, RunEntry,
              RunBody, SettleDone, SettleYield, Complete
<1>3. CASE \/ (\E u \in Borrowable : Borrow(u))
           \/ (\E n \in HistoryLimits : SetHistoryLimits(n))
           \/ Shutdown \/ ShutdownTimeout \/ ShutdownJoin \/ Free \/ Ended \/ UNCHANGED vars
  BY <1>3 DEF Borrow, SetHistoryLimits, Shutdown, ShutdownTimeout, ShutdownJoin,
              Free, Ended, vars
<1> QED BY <1>1, <1>2, <1>3 DEF Next

\* A worker that has left stays away with its slot empty.
LEMMA GoneStays ==
    ASSUME IndInv, [Next]_vars, NEW w \in Worker, yield_list[w] = <<>>,
           pc[w] \in {"none", "exited"}
    PROVE  yield_list'[w] = <<>> /\ (pc[w] = "exited" => pc'[w] = "exited")
<1>0. /\ pc \in [Worker -> {"none", "loop", "asleep", "run", "ran", "callback", "exited"}]
      /\ yield_list \in [Worker -> Seq(Ids)]
  BY DEF IndInv, TypeOK
<1> USE DEF queueVars
<1>1. CASE ~ \E v \in Worker : Work(v)
  <2>1. yield_list' = yield_list
    <3>1. CASE \/ (\E p \in Priorities : Submit(p)) \/ SubmitRejected
               \/ (\E n \in JournalMarks : EnsureNextId(n))
               \/ (\E v \in Worker : SpuriousWake(v)) \/ (\E c \in Clients : Client(c))
      BY <3>1 DEF Submit, SubmitRejected, EnsureNextId, SpuriousWake, Client, Acquire,
                  CancelCheck, CancelStore, Release
    <3>2. CASE \/ (\E u \in Borrowable : Borrow(u))
               \/ (\E n \in HistoryLimits : SetHistoryLimits(n))
               \/ Shutdown \/ ShutdownTimeout \/ ShutdownJoin \/ Free \/ Ended
               \/ UNCHANGED vars
      BY <3>2 DEF Borrow, SetHistoryLimits, Shutdown, ShutdownTimeout, ShutdownJoin,
                  Free, Ended, vars
    <3> QED BY <1>1, <3>1, <3>2 DEF Next
  <2> QED BY <1>1, <2>1, OthersOnlyWake
<1>2. ASSUME NEW v \in Worker, Work(v)
      PROVE  yield_list'[w] = <<>> /\ pc'[w] = pc[w]
  <2>1. v # w
    BY <1>2, <1>0 DEF Work, Runner, Sleep, Exit, TakeYielded, TakeQueued, RunAbort,
       RunEntry, RunBody, SettleDone, SettleYield, Complete
  <2> QED BY <1>2, <2>1, <1>0 DEF Work, Runner, Sleep, Exit, TakeYielded, TakeQueued,
             RunAbort, RunEntry, RunBody, SettleDone, SettleYield, Complete
<1> QED BY <1>1, <1>2

\* worker_main leaves only with the flag set and nothing in reach, and both
\* last.
LEMMA GoneForGoodStep ==
    ASSUME IndInv, [Next]_vars, GoneForGood
    PROVE  GoneForGood'
<1>1. closer' # "open" => shutdown_flag'
  BY CloserMoves, FlagStays DEF GoneForGood, Shutdown, ShutdownTimeout, ShutdownJoin, Free
<1>2. ASSUME NEW w \in Worker, pc'[w] = "exited"
      PROVE  shutdown_flag' /\ queue' = {} /\ yield_list'[w] = <<>>
  <2>1. CASE pc[w] = "exited"
    <3>1. shutdown_flag /\ queue = {} /\ yield_list[w] = <<>> BY <2>1 DEF GoneForGood
    <3>2. shutdown_flag' /\ queue' = {} BY <3>1, FlagStays
    <3> QED BY <2>1, <3>1, <3>2, GoneStays
  <2>2. CASE pc[w] # "exited"
    <3>1. PICK v \in Worker : Work(v) BY <1>2, <2>2, OthersOnlyWake
    <3>2. Exit(v) /\ v = w
      BY <3>1, <1>2, <2>2 DEF Work, Runner, Sleep, Exit, TakeYielded, TakeQueued, RunAbort,
         RunEntry, RunBody, SettleDone, SettleYield, Complete, IndInv, TypeOK
    <3> QED BY <3>2 DEF Exit, queueVars
  <2> QED BY <2>1, <2>2
<1> QED BY <1>1, <1>2 DEF GoneForGood

\* As many workers as were created have left only when all have.
LEMMA AllCountedHaveLeft ==
    ASSUME IndInv, exited = Cardinality(Exited), exited >= workers
    PROVE  \A w \in Worker : pc[w] \in {"none", "exited"}
<1>1. workers \in Nat /\ workers <= MaxWorkers /\ MaxWorkers \in Nat
  BY SchedulerAssumption DEF IndInv, TypeOK
<1>2. Exited \subseteq 1..workers
  BY <1>1, SchedulerAssumption DEF Exited, Worker, IndInv, TypeOK
<1>3. IsFiniteSet(1..workers) /\ Cardinality(1..workers) = workers
  BY <1>1, FS_Interval
<1>4. Cardinality(Exited) <= workers /\ Cardinality(Exited) \in Nat
  BY <1>2, <1>3, FS_Subset, FS_CardinalityType
<1>5. Exited = 1..workers
  <2>1. Cardinality(1..workers) = Cardinality(Exited) BY <1>1, <1>3, <1>4
  <2> QED BY <1>2, <1>3, <2>1, FS_Subset
<1> SUFFICES ASSUME NEW w \in Worker PROVE pc[w] \in {"none", "exited"}
  OBVIOUS
<1>6. CASE w > workers BY <1>6 DEF IndInv, TypeOK
<1>7. CASE ~(w > workers)
  <2>1. w \in 1..workers BY <1>1, <1>7 DEF Worker
  <2> QED BY <1>5, <2>1 DEF Exited
<1> QED BY <1>6, <1>7

\* The join waits for the count, and afterwards no worker comes back.
LEMMA JoinedAllStep ==
    ASSUME IndInv, IndInv', [Next]_vars, exited = Cardinality(Exited), GoneForGood, JoinedAll
    PROVE  JoinedAll'
<1> SUFFICES ASSUME closer' \in {"joined", "freed"}, NEW w \in Worker
             PROVE  pc'[w] \in {"none", "exited"}
  BY DEF JoinedAll
<1>1. CASE ShutdownJoin
  <2>1. pc' = pc /\ exited >= workers BY <1>1 DEF ShutdownJoin, workerVars
  <2> QED BY <2>1, AllCountedHaveLeft
<1>2. CASE ~ShutdownJoin
  <2>1. closer \in {"joined", "freed"}
    BY <1>2, CloserMoves DEF Shutdown, ShutdownTimeout, Free
  <2>2. pc[w] \in {"none", "exited"} /\ shutdown_flag
    BY <2>1 DEF JoinedAll, GoneForGood
  <2>3. CASE pc[w] = "none"
    <3>1. w > workers /\ workers' = workers BY <2>2, <2>3, FlagStays DEF IndInv, TypeOK
    <3> QED BY <3>1 DEF IndInv, TypeOK
  <2>4. CASE pc[w] = "exited"
    <3>1. yield_list[w] = <<>> BY <2>4 DEF GoneForGood
    <3> QED BY <2>4, <3>1, GoneStays
  <2> QED BY <2>2, <2>3, <2>4
<1> QED BY <1>1, <1>2

\* scheduler_new_limited starts with nothing to count.
LEMMA CountInit == Init => CountInv
<1> SUFFICES ASSUME Init PROVE CountInv
  OBVIOUS
<1>1. Exited = {} /\ CallingBack = {} /\ Unsettled = {}
  BY DEF Init, Exited, CallingBack, Unsettled, Born
<1>2. GoneForGood /\ JoinedAll BY DEF Init, GoneForGood, JoinedAll
<1> QED BY <1>1, <1>2, FS_EmptySet DEF Init, CountInv

\* In every state the counters count what their names say.
LEMMA CountCorrect == Spec => []CountInv
<1>1. IndInv /\ IndInv' /\ CountInv /\ [Next]_vars => CountInv'
  BY ExitedCounts, CompletingCounts, ActiveCounts, GoneForGoodStep, JoinedAllStep
     DEF CountInv
<1> QED BY <1>1, CountInit, IndCorrect, PTL DEF Spec

-----------------------------------------------------------------------------
\* What scheduler_wait_idle waits for means what its callers take it for: the
\* run, the callback and the accounting of every accepted task are over.
THEOREM IdleMeansQuiescent == Spec => []IdleIsQuiescent
<1>1. IndInv /\ CountInv => IdleIsQuiescent
  <2> SUFFICES ASSUME CountInv, active = 0, completing = 0, NEW t \in Ids, Born(t)
               PROVE  completed[t]
    BY DEF IdleIsQuiescent
  <2>1. Unsettled = {} /\ CallingBack = {}
    <3>1. IsFiniteSet(Unsettled) /\ IsFiniteSet(CallingBack)
      BY CountedAreFinite DEF Unsettled, CallingBack
    <3> QED BY <3>1, FS_EmptySet DEF CountInv
  <2>2. Settled(t) BY <2>1 DEF Unsettled
  <2> QED BY <2>1, <2>2 DEF Settled, CallingBack
<1> QED BY <1>1, IndCorrect, CountCorrect, PTL

\* A joined shutdown has abandoned nothing: all threads are gone and every
\* accepted task was run, called back and completed.
THEOREM JoinLeavesNothing == Spec => []ShutdownLeavesNothing
<1>1. IndInv /\ CountInv => ShutdownLeavesNothing
  <2> SUFFICES ASSUME IndInv, CountInv, closer \in {"joined", "freed"}
               PROVE  /\ \A w \in Worker : pc[w] \in {"none", "exited"}
                      /\ \A t \in Ids : Born(t) => completed[t]
    BY DEF ShutdownLeavesNothing
  <2>1. \A w \in Worker : pc[w] \in {"none", "exited"}
    BY DEF CountInv, JoinedAll
  <2>2. \A w \in Worker : yield_list[w] = <<>> /\ cur[w] = None
    BY <2>1 DEF IndInv, PlaceInv, SlotShape, TypeOK
  <2>3. queue = {}
    <3>1. 1 \in Worker /\ ~(1 > workers)
      BY SchedulerAssumption DEF Worker, IndInv, TypeOK
    <3>2. pc[1] # "none" BY <3>1 DEF IndInv, TypeOK
    <3> QED BY <2>1, <3>1, <3>2 DEF CountInv, GoneForGood
  <2>4. \A t \in Ids, w \in Worker : ~Has(w, t)
    <3>1. \A t \in Ids, w \in Worker : yield_list[w] # <<t>> BY <2>2
    <3> QED BY <2>2, <3>1, NoneIsNoId DEF Has
  <2> QED BY <2>1, <2>3, <2>4 DEF IndInv, PlaceInv, Placed
<1> QED BY <1>1, IndCorrect, CountCorrect, PTL

-----------------------------------------------------------------------------
\* Memory.  A task is in use while it waits, is in a worker's slot or hands,
\* is held by a client or was borrowed; its reference count counts holders.

Holders(t) == {c \in Clients : held[c] = t}
InUse(t) ==
    \/ t \in queue \/ borrowed[t]
    \/ \E w \in Worker : Has(w, t)
    \/ Holders(t) # {}

RefsCount == \A t \in Ids : references[t] = Cardinality(Holders(t))
KeptInUse == closer # "freed" => \A t \in Ids : InUse(t) => t \in all

\* Acquiring and releasing keep the count: a client holds one task at a time
\* and releases only what it holds.
LEMMA RefsCountStep ==
    ASSUME IndInv, [Next]_vars, RefsCount
    PROVE  RefsCount'
<1>0. /\ references \in [Ids -> Nat] /\ held \in [Clients -> Ids \cup {None}]
      /\ \A t \in Ids : IsFiniteSet(Holders(t))
  BY SchedulerAssumption, FS_Subset DEF IndInv, TypeOK, Holders
<1> SUFFICES ASSUME NEW t \in Ids PROVE references'[t] = Cardinality(Holders(t)')
  BY DEF RefsCount
<1>1. ASSUME references' = references, held' = held
      PROVE  references'[t] = Cardinality(Holders(t)')
  BY <1>1 DEF RefsCount, Holders
<1> USE DEF keepVars, clientVars
<1>2. ASSUME NEW c \in Clients, NEW u \in Ids, Acquire(c, u)
      PROVE  references'[t] = Cardinality(Holders(t)')
  <2>1. /\ held[c] = None /\ held' = [held EXCEPT ![c] = u]
        /\ references' = [references EXCEPT ![u] = @ + 1]
    BY <1>2 DEF Acquire
  <2>2. CASE t = u
    <3>1. Holders(t)' = Holders(t) \cup {c} /\ c \notin Holders(t)
      BY <1>0, <2>1, <2>2, NoneIsNoId DEF Holders
    <3>2. references'[t] = references[t] + 1 BY <1>0, <2>1, <2>2
    <3>3. Cardinality(Holders(t)') = Cardinality(Holders(t)) + 1
      BY <1>0, <3>1, FS_AddElement
    <3> QED BY <3>2, <3>3 DEF RefsCount
  <2>3. CASE t # u
    <3>1. Holders(t)' = Holders(t) BY <1>0, <2>1, <2>3, NoneIsNoId DEF Holders
    <3> QED BY <1>0, <2>1, <2>3, <3>1 DEF RefsCount
  <2> QED BY <2>2, <2>3
<1>3. ASSUME NEW c \in Clients, Release(c)
      PROVE  references'[t] = Cardinality(Holders(t)')
  <2> DEFINE u == held[c]
  <2>1. /\ u \in Ids /\ held' = [held EXCEPT ![c] = None]
        /\ references' = [references EXCEPT ![u] = IF @ > 0 THEN @ - 1 ELSE @]
    BY <1>0, <1>3 DEF Release
  <2>2. CASE t = u
    <3>1. Holders(t)' = Holders(t) \ {c} /\ c \in Holders(t)
      BY <1>0, <2>1, <2>2, NoneIsNoId DEF Holders
    <3>2. references[t] > 0
      BY <1>0, <3>1, FS_EmptySet, FS_CardinalityType DEF RefsCount
    <3>3. references'[t] = references[t] - 1 BY <1>0, <2>1, <2>2, <3>2
    <3> QED BY <1>0, <3>1, <3>3, FS_RemoveElement DEF RefsCount
  <2>3. CASE t # u
    <3>1. Holders(t)' = Holders(t) BY <1>0, <2>1, <2>3, NoneIsNoId DEF Holders
    <3> QED BY <1>0, <2>1, <2>3, <3>1 DEF RefsCount
  <2> QED BY <2>2, <2>3
<1>4. CASE \/ (\E p \in Priorities : Submit(p)) \/ SubmitRejected
           \/ (\E n \in JournalMarks : EnsureNextId(n))
           \/ (\E w \in Worker : SpuriousWake(w))
           \/ (\E c \in Clients : CancelCheck(c) \/ CancelStore(c))
  BY <1>1, <1>4 DEF Submit, SubmitRejected, EnsureNextId, SpuriousWake, CancelCheck,
                    CancelStore
<1>5. CASE \E w \in Worker : Work(w)
  BY <1>1, <1>5 DEF Work, Runner, Sleep, Exit, TakeYielded, TakeQueued, RunAbort, RunEntry,
                    RunBody, SettleDone, SettleYield, Complete
<1>6. CASE \/ (\E u \in Borrowable : Borrow(u))
           \/ (\E n \in HistoryLimits : SetHistoryLimits(n))
           \/ Shutdown \/ ShutdownTimeout \/ ShutdownJoin \/ Free \/ Ended \/ UNCHANGED vars
  BY <1>1, <1>6 DEF Borrow, SetHistoryLimits, Shutdown, ShutdownTimeout, ShutdownJoin,
                    Free, Ended, vars
<1> QED BY <1>2, <1>3, <1>4, <1>5, <1>6 DEF Next, Client

\* Pruning after a step passes over every task in use: one that waits or is
\* worked on is not completed, and one that a client holds is counted.
LEMMA InUseIsNotPruned ==
    ASSUME IndInv', RefsCount', NEW t \in Ids, InUse(t)', NEW n
    PROVE  t \notin Pruned(completed', references', borrowed', n)
<1>1. t \in queue' \/ (\E w \in Worker : Has(w, t)') => ~completed'[t]
  BY DEF IndInv, PlaceInv, Placed
<1>2. Holders(t)' # {} => references'[t] # 0
  <2>1. IsFiniteSet(Holders(t)') BY SchedulerAssumption, FS_Subset DEF Holders
  <2> QED BY <2>1, FS_EmptySet DEF RefsCount
<1> QED BY <1>1, <1>2 DEF Pruned, InUse

\* No step frees a task in use: one that comes into use was in memory, and
\* pruning looks at the counts after they have changed.
LEMMA KeptInUseStep ==
    ASSUME IndInv, IndInv', [Next]_vars, RefsCount', KeptInUse
    PROVE  KeptInUse'
<1> SUFFICES ASSUME closer' # "freed", NEW t \in Ids, InUse(t)'
             PROVE  t \in all'
  BY DEF KeptInUse
<1>1. \A n : t \notin Pruned(completed', references', borrowed', n)
  BY InUseIsNotPruned
<1>2. closer # "freed"
  BY CloserMoves DEF Shutdown, ShutdownTimeout, ShutdownJoin, Free
<1>3. (t \in queue \/ \E w \in Worker : Has(w, t)) <=> Born(t) /\ ~completed[t]
  BY DEF IndInv, PlaceInv, Placed
<1>4. (t \in queue' \/ \E w \in Worker : Has(w, t)') <=> Born(t)' /\ ~completed'[t]
  BY DEF IndInv, PlaceInv, Placed
<1>5. /\ status \in [Ids -> Statuses] /\ completed \in [Ids -> BOOLEAN]
      /\ borrowed \in [Ids -> BOOLEAN] /\ held \in [Clients -> Ids \cup {None}]
      /\ pc \in [Worker -> {"none", "loop", "asleep", "run", "ran", "callback", "exited"}]
      /\ cur \in [Worker -> Ids \cup {None}]
  BY DEF IndInv, TypeOK
<1>6. ASSUME Born(t)' /\ ~completed'[t] => Born(t) /\ ~completed[t],
             borrowed'[t] => borrowed[t], Holders(t)' # {} => Holders(t) # {}
      PROVE  t \in all
  BY <1>2, <1>3, <1>4, <1>6 DEF InUse, KeptInUse
<1> USE DEF keepVars, taskVars, clientVars
<1>7. ASSUME NEW p \in Priorities, Submit(p) PROVE t \in all'
  <2>1. all' = all \cup {next_id} /\ status' = [status EXCEPT ![next_id] = "QUEUED"]
    BY <1>7 DEF Submit
  <2>2. CASE t = next_id BY <2>1, <2>2
  <2>3. CASE t # next_id
    <3>1. (Born(t)' <=> Born(t)) /\ completed' = completed /\ borrowed' = borrowed
          /\ held' = held
      BY <1>7, <2>1, <2>3 DEF Submit, Born
    <3> QED BY <3>1, <2>1, <1>6 DEF Holders
  <2> QED BY <2>2, <2>3
<1>8. ASSUME NEW w \in Worker, Work(w) PROVE t \in all'
  <2>1. (Born(t)' <=> Born(t)) /\ borrowed' = borrowed /\ held' = held
    BY <1>8, WorkBearsNone DEF Work, Runner, Sleep, Exit, TakeYielded, TakeQueued, RunAbort,
       RunEntry, RunBody, SettleDone, SettleYield, Complete
  <2>2. CASE Complete(w)
    <3>1. completed' = [completed EXCEPT ![cur[w]] = TRUE]
          /\ all' = all \ Pruned(completed', references, borrowed, history_count)
          /\ references' = references
      BY <2>2 DEF Complete
    <3>2. t \in all BY <1>5, <1>6, <2>1, <3>1 DEF Holders
    <3> QED BY <1>1, <2>1, <3>1, <3>2
  <2>3. CASE ~Complete(w)
    <3>1. completed' = completed /\ all' = all
      BY <1>8, <2>3 DEF Work, Runner, Sleep, Exit, TakeYielded, TakeQueued, RunAbort,
         RunEntry, RunBody, SettleDone, SettleYield
    <3> QED BY <1>6, <2>1, <3>1 DEF Holders
  <2> QED BY <2>2, <2>3
<1>9. ASSUME NEW c \in Clients, NEW u \in Ids, Acquire(c, u) PROVE t \in all'
  <2>1. /\ u \in all /\ all' = all /\ held' = [held EXCEPT ![c] = u]
        /\ status' = status /\ completed' = completed /\ borrowed' = borrowed
    BY <1>9 DEF Acquire
  <2>2. CASE t = u BY <2>1, <2>2
  <2>3. CASE t # u
    <3>1. Holders(t)' # {} => Holders(t) # {} BY <1>5, <2>1, <2>3 DEF Holders
    <3> QED BY <1>6, <2>1, <3>1 DEF Born
  <2> QED BY <2>2, <2>3
<1>10. ASSUME NEW c \in Clients, Release(c) PROVE t \in all'
  <2>1. /\ held' = [held EXCEPT ![c] = None]
        /\ all' = all \ Pruned(completed, references', borrowed, history_count)
        /\ status' = status /\ completed' = completed /\ borrowed' = borrowed
    BY <1>10 DEF Release
  <2>2. Holders(t)' # {} => Holders(t) # {} BY <1>5, <2>1, NoneIsNoId DEF Holders
  <2>3. t \in all BY <1>6, <2>1, <2>2 DEF Born
  <2> QED BY <1>1, <2>1, <2>3
<1>11. ASSUME NEW u \in Borrowable, Borrow(u) PROVE t \in all'
  <2>1. /\ u \in all /\ all' = all /\ borrowed' = [borrowed EXCEPT ![u] = TRUE]
        /\ status' = status /\ completed' = completed /\ held' = held
    BY <1>11 DEF Borrow
  <2>2. CASE t = u BY <2>1, <2>2
  <2>3. CASE t # u
    <3>1. borrowed'[t] = borrowed[t] BY <1>5, <2>1, <2>3
    <3> QED BY <1>6, <2>1, <3>1 DEF Born, Holders
  <2> QED BY <2>2, <2>3
<1>12. ASSUME NEW n \in HistoryLimits, SetHistoryLimits(n) PROVE t \in all'
  <2>1. /\ all' = all \ Pruned(completed, references, borrowed, n)
        /\ status' = status /\ completed' = completed /\ held' = held
        /\ borrowed' = borrowed /\ references' = references
    BY <1>12 DEF SetHistoryLimits
  <2>2. t \in all BY <1>6, <2>1 DEF Born, Holders
  <2> QED BY <1>1, <2>1, <2>2
<1>13. CASE \/ SubmitRejected \/ (\E n \in JournalMarks : EnsureNextId(n))
            \/ (\E w \in Worker : SpuriousWake(w))
            \/ (\E c \in Clients : CancelCheck(c) \/ CancelStore(c))
            \/ Shutdown \/ ShutdownTimeout \/ ShutdownJoin \/ Free \/ Ended \/ UNCHANGED vars
  <2>1. /\ all' = all /\ status' = status /\ completed' = completed /\ held' = held
        /\ borrowed' = borrowed
    BY <1>13 DEF SubmitRejected, EnsureNextId, SpuriousWake, CancelCheck, CancelStore,
       Shutdown, ShutdownTimeout, ShutdownJoin, Free, Ended, vars
  <2> QED BY <1>6, <2>1 DEF Born, Holders
<1> QED
  BY <1>7, <1>8, <1>9, <1>10, <1>11, <1>12, <1>13 DEF Next, Client

\* No memory is reclaimed under a user, whatever the history limits: what is
\* queued, yielded, worked on, called back, held or borrowed stays allocated
\* until scheduler_free.
THEOREM NothingInUseIsFreed == Spec => []NoReclaimInUse
<1>1. Init => RefsCount /\ KeptInUse
  <2> SUFFICES ASSUME Init PROVE RefsCount /\ KeptInUse
    OBVIOUS
  <2>1. \A t \in Ids : Holders(t) = {} BY NoneIsNoId DEF Init, Holders
  <2>2. \A t \in Ids, w \in Worker : ~Has(w, t)
    <3>1. \A t \in Ids, w \in Worker : yield_list[w] # <<t>> BY DEF Init
    <3> QED BY <3>1, NoneIsNoId DEF Init, Has
  <2> QED BY <2>1, <2>2, FS_EmptySet DEF Init, RefsCount, KeptInUse, InUse
<1>2. IndInv /\ IndInv' /\ RefsCount /\ KeptInUse /\ [Next]_vars => (RefsCount /\ KeptInUse)'
  BY RefsCountStep, KeptInUseStep
<1>3. IndInv /\ KeptInUse => NoReclaimInUse
  BY SlotIsHas DEF KeptInUse, NoReclaimInUse, InUse, Has, Holders
<1> QED BY <1>1, <1>2, <1>3, IndCorrect, PTL DEF Spec

-----------------------------------------------------------------------------
\* Wakeups.  The workers that will look at the heap next.

Ready == {w \in Worker : pc[w] = "loop" /\ yield_list[w] = <<>>}

\* A submission with a sleeper wakes one: it adds one task and one worker
\* that will look for it.
LEMMA SubmitSignals ==
    ASSUME IndInv, SleepersNotNeeded, NEW p \in Priorities, Submit(p)
    PROVE  SleepersNotNeeded'
<1>0. IsFiniteSet(queue) /\ IsFiniteSet(Ready) /\ IsFiniteSet(Ready')
  BY CountedAreFinite DEF IndInv, TypeOK, Ready
<1>1. \A w \in Worker : pc'[w] = pc[w] \/ (pc[w] \in {"none", "asleep"} /\ pc'[w] = "loop")
  BY SubmitWakes
<1>2. queue' = queue \cup {next_id} /\ yield_list' = yield_list BY DEF Submit
<1>3. Ready \subseteq Ready' BY <1>1, <1>2 DEF Ready
<1> SUFFICES ASSUME Asleep' # {} PROVE Cardinality(queue') <= Cardinality(Ready')
  BY DEF SleepersNotNeeded, Ready
<1>4. Asleep # {} BY <1>1 DEF Asleep
<1>5. PICK s \in Asleep : pc'[s] = "loop"
  <2>1. SignalTargets = Asleep BY <1>4 DEF SignalTargets
  <2>2. PICK n \in Grown, s \in Asleep : pc' = Started(n, s) BY <2>1 DEF Submit
  <2>3. pc'[s] = "loop" BY <2>2 DEF Started, Asleep
  <2> QED BY <2>3
<1>6. s \in Worker /\ s \notin Ready /\ s \in Ready'
  BY <1>2, <1>5 DEF Asleep, Ready, IndInv, PlaceInv, SlotShape
<1>7. Cardinality(queue) <= Cardinality(Ready)
  BY <1>4 DEF SleepersNotNeeded, Ready
<1>8. Cardinality(queue') <= Cardinality(queue) + 1
  <2>1. Cardinality(queue) \in Nat BY <1>0, FS_CardinalityType
  <2>2. \/ Cardinality(queue') = Cardinality(queue) + 1
        \/ Cardinality(queue') = Cardinality(queue)
    BY <1>0, <1>2, FS_AddElement
  <2> QED BY <2>1, <2>2
<1>9. Cardinality(Ready) + 1 <= Cardinality(Ready')
  <2>1. Ready \cup {s} \subseteq Ready' BY <1>3, <1>6
  <2>2. Cardinality(Ready \cup {s}) = Cardinality(Ready) + 1 BY <1>0, <1>6, FS_AddElement
  <2> QED BY <1>0, <2>1, <2>2, FS_Subset
<1>10. /\ Cardinality(queue) \in Nat /\ Cardinality(queue') \in Nat
       /\ Cardinality(Ready) \in Nat /\ Cardinality(Ready') \in Nat
  BY <1>0, <1>2, FS_AddElement, FS_CardinalityType
<1> QED BY <1>7, <1>8, <1>9, <1>10

\* A step that queues nothing and keeps the ready workers needs no signal.
LEMMA NoSignalNeeded ==
    ASSUME IndInv, SleepersNotNeeded, queue' \subseteq queue, Ready \subseteq Ready',
           Asleep' # {} => Asleep # {}
    PROVE  SleepersNotNeeded'
<1>1. IsFiniteSet(queue) /\ IsFiniteSet(queue') /\ IsFiniteSet(Ready) /\ IsFiniteSet(Ready')
  BY CountedAreFinite DEF IndInv, TypeOK, Ready
<1>2. Cardinality(queue') <= Cardinality(queue) /\ Cardinality(Ready) <= Cardinality(Ready')
  BY <1>1, FS_Subset
<1>3. /\ Cardinality(queue) \in Nat /\ Cardinality(queue') \in Nat
      /\ Cardinality(Ready) \in Nat /\ Cardinality(Ready') \in Nat
  BY <1>1, FS_CardinalityType
<1> QED BY <1>2, <1>3 DEF SleepersNotNeeded, Ready

\* A worker sleeps or leaves only when the heap is empty, and takes one task
\* as it stops looking.
LEMMA WorkKeepsWakeups ==
    ASSUME IndInv, SleepersNotNeeded, NEW w \in Worker, Work(w)
    PROVE  SleepersNotNeeded'
<1>0. /\ pc \in [Worker -> {"none", "loop", "asleep", "run", "ran", "callback", "exited"}]
      /\ yield_list \in [Worker -> Seq(Ids)]
      /\ IsFiniteSet(queue) /\ IsFiniteSet(Ready)
  BY CountedAreFinite DEF IndInv, TypeOK, Ready
<1> USE DEF queueVars
<1>1. CASE Sleep(w) \/ Exit(w)
  <2>1. queue' = {} BY <1>1 DEF Sleep, Exit
  <2>2. IsFiniteSet(Ready') BY CountedAreFinite DEF Ready
  <2>3. Cardinality(queue') = 0 /\ Cardinality(Ready') \in Nat
    BY <2>1, <2>2, FS_EmptySet, FS_CardinalityType
  <2> QED BY <2>3 DEF SleepersNotNeeded, Ready
<1>2. ASSUME NEW t \in Ids, TakeQueued(w, t) PROVE SleepersNotNeeded'
  <2>1. /\ pc[w] = "loop" /\ yield_list[w] = <<>> /\ t \in queue /\ queue' = queue \ {t}
        /\ yield_list' = yield_list
        /\ pc' = [pc EXCEPT ![w] = "run"] \/ pc' = [pc EXCEPT ![w] = "ran"]
    BY <1>2 DEF TakeQueued, QueueTop
  <2>2. Ready' = Ready \ {w} /\ w \in Ready BY <1>0, <2>1 DEF Ready
  <2>3. Asleep' = Asleep BY <1>0, <2>1 DEF Asleep
  <2>4. Cardinality(queue') = Cardinality(queue) - 1 BY <1>0, <2>1, FS_RemoveElement
  <2>5. Cardinality(Ready') = Cardinality(Ready) - 1 BY <1>0, <2>2, FS_RemoveElement
  <2>6. Cardinality(queue) \in Nat /\ Cardinality(Ready) \in Nat
    BY <1>0, FS_CardinalityType
  <2>7. Asleep # {} => Cardinality(queue) <= Cardinality(Ready)
    BY DEF SleepersNotNeeded, Ready
  <2>8. Asleep' # {} => Cardinality(queue') <= Cardinality(Ready')
    BY <2>3, <2>4, <2>5, <2>6, <2>7
  <2> QED BY <2>8 DEF SleepersNotNeeded, Ready
<1>3. CASE \/ TakeYielded(w) \/ Runner(w) \/ SettleDone(w) \/ SettleYield(w)
           \/ Complete(w)
  <2>1. /\ queue' = queue
        /\ \A v \in Worker \ {w} : pc'[v] = pc[v] /\ yield_list'[v] = yield_list[v]
        /\ w \notin Ready /\ pc'[w] # "asleep"
    BY <1>0, <1>3 DEF TakeYielded, Runner, RunAbort, RunEntry, RunBody, SettleDone,
       SettleYield, Complete, Ready
  <2>2. Ready \subseteq Ready' /\ Asleep' \subseteq Asleep BY <2>1 DEF Ready, Asleep
  <2> QED BY <2>1, <2>2, NoSignalNeeded
<1> QED BY <1>1, <1>2, <1>3 DEF Work

\* One cond_signal per submission loses no wakeup: while a worker sleeps, each
\* queued task has an awake worker of its own that will look at the heap.
THEOREM NoWakeupIsLost == Spec => []SleepersNotNeeded
<1>1. Init => SleepersNotNeeded
  <2> SUFFICES ASSUME Init PROVE Asleep = {}
    BY DEF SleepersNotNeeded
  <2> QED BY DEF Init, Asleep
<1>2. IndInv /\ SleepersNotNeeded /\ [Next]_vars => SleepersNotNeeded'
  <2> SUFFICES ASSUME IndInv, SleepersNotNeeded, [Next]_vars PROVE SleepersNotNeeded'
    OBVIOUS
  <2>1. CASE \E p \in Priorities : Submit(p) BY <2>1, SubmitSignals
  <2>2. CASE \E w \in Worker : Work(w) BY <2>2, WorkKeepsWakeups
  <2>3. CASE ~ (\E p \in Priorities : Submit(p)) /\ ~ \E w \in Worker : Work(w)
    <3>1. queue' = queue /\ yield_list' = yield_list
      BY <2>3 DEF Next, SubmitRejected, EnsureNextId, SpuriousWake, Client, Acquire,
         CancelCheck, CancelStore, Release, Borrow, SetHistoryLimits, Shutdown,
         ShutdownTimeout, ShutdownJoin, Free, Ended, vars, queueVars
    <3>2. \A w \in Worker :
             pc'[w] = pc[w] \/ (pc[w] \in {"none", "asleep"} /\ pc'[w] = "loop")
      BY <2>3, OthersOnlyWake
    <3>3. Ready \subseteq Ready' /\ Asleep' \subseteq Asleep
      BY <3>1, <3>2 DEF Ready, Asleep
    <3> QED BY <3>1, <3>3, NoSignalNeeded
  <2> QED BY <2>1, <2>2, <2>3
<1> QED BY <1>1, <1>2, IndCorrect, PTL DEF Spec
=============================================================================
