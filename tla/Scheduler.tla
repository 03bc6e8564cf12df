----------------------------- MODULE Scheduler -----------------------------
(***************************************************************************)
(* The M:N task scheduler of src/backend/src/runtime/scheduler.c with the  *)
(* one runner the runtime installs, sched_trampoline of                    *)
(* src/backend/src/cognitive_os_agent.c, and the API handlers that look a  *)
(* task up, cancel it and drop it again (src/backend/src/api/api_rest.c).  *)
(*                                                                         *)
(* One action is one critical section of the scheduler's mutex, or one     *)
(* stretch of code a thread runs without it: a worker releases the mutex   *)
(* to resume a coroutine and to call the completion callback, so other     *)
(* threads interleave there.  Condition variables keep their waiters: a    *)
(* signal wakes one sleeping worker or nobody.                             *)
(***************************************************************************)
EXTENDS Integers, Sequences, FiniteSets

CONSTANTS
    MaxId,         \* bound: ids are 0..MaxId, so at most MaxId+1 submissions
    MaxWorkers,    \* max_workers of scheduler_new_limited
    InitWorkers,   \* workers of scheduler_new_limited
    MaxActive,     \* max_active, 0 is "no limit"
    MaxRejected,   \* bound on the counter of refused submissions
    Priorities,    \* priorities a submission may carry, the smallest runs first
    HistoryLimits, \* values scheduler_set_history_limits may be given
    JournalMarks,  \* values scheduler_ensure_next_id may be given
    Borrowable,    \* ids that scheduler_get may be asked for
    Clients        \* threads that acquire, cancel and release tasks

ASSUME SchedulerAssumption ==
    /\ MaxId \in Nat /\ MaxActive \in Nat /\ MaxRejected \in Nat
    /\ MaxWorkers \in Nat /\ InitWorkers \in 1..MaxWorkers
    /\ Priorities \subseteq Int /\ HistoryLimits \subseteq Nat
    /\ JournalMarks \subseteq 0..MaxId /\ Borrowable \subseteq 0..MaxId
    /\ IsFiniteSet(Clients)

Ids     == 0..MaxId
Worker  == 1..MaxWorkers
None    == -1

\* The fields of struct scheduler.
VARIABLES
    queue,          \* ready heap: a set, popped in (priority, id) order
    all,            \* ids of the tasks whose memory has not been freed
    yield_list,     \* per worker slot, the FIFO of its yielded coroutines
    workers,        \* threads created so far: slots 1..workers
    active, completing, exited, rejected, next_id, shutdown_flag, history_count

\* The fields of struct task that steer it.
VARIABLES
    priority, status, completed, references, borrowed, timed_out,
    execution_failed,
    cancel_flag,    \* "no", or when it was stored: "queued", "running", "late"
    run,            \* where the coroutine stands
    owner           \* the worker whose thread created the coroutine, or None

\* Threads: workers, API clients, and the thread that shuts down.
VARIABLES
    pc, cur,        \* per worker: its place in worker_main and its task
    held, asked,    \* per client: the acquired task; a cancel being stored
    closer          \* shutdown thread

queueVars  == <<queue, yield_list, workers, rejected, next_id, priority>>
countVars  == <<active, completing, exited, shutdown_flag>>
keepVars   == <<all, history_count, completed, references, borrowed>>
taskVars   == <<status, timed_out, execution_failed, cancel_flag, run, owner>>
workerVars == <<pc, cur>>
clientVars == <<held, asked>>
vars == <<queueVars, countVars, keepVars, taskVars, workerVars, clientVars, closer>>

Statuses == {"none", "QUEUED", "RUNNING", "DONE", "FAILED", "CANCELLED", "TIMEOUT"}

Born(t)    == status[t] # "none"
Asleep     == {w \in Worker : pc[w] = "asleep"}
\* finalize_task has committed the terminal status.
Settled(t) == completed[t] \/ \E w \in Worker : pc[w] = "callback" /\ cur[w] = t

-----------------------------------------------------------------------------
\* task_less and queue_pop: the heap yields the smallest (priority, id).
TaskLess(a, b) ==
    priority[a] < priority[b] \/ (priority[a] = priority[b] /\ a < b)
QueueTop(t) == t \in queue /\ \A u \in queue \ {t} : TaskLess(t, u)

\* Mutated form: readers are not looked at.
PrunedUnderReaders(comp, refs, borr, limit) ==
    LET done == {t \in all : comp[t]}
    IN  {t \in done : limit > 0 /\ Cardinality({u \in done : u < t}) < Cardinality(done) - limit}

\* The tasks prune_history frees, oldest first, until the completed ones fit
\* the limit; a task that is referenced or borrowed is skipped.
Pruned(comp, refs, borr, limit) ==
    LET done   == {t \in all : comp[t]}
        free   == {t \in done : refs[t] = 0 /\ ~borr[t]}
        excess == IF limit = 0 THEN 0 ELSE Cardinality(done) - limit
    IN  {t \in free : Cardinality({u \in free : u < t}) < excess}

\* Mutated form: the execution result outranks the cancel.
FailureFirst(t) ==
    IF timed_out[t] THEN "TIMEOUT"
    ELSE IF execution_failed[t] THEN "FAILED"
    ELSE IF cancel_flag[t] # "no" THEN "CANCELLED"
    ELSE IF status[t] = "RUNNING" THEN "DONE" ELSE status[t]

\* finalize_task: which terminal status the flags give.
FinalStatus(t) ==
    IF timed_out[t] THEN "TIMEOUT"
    ELSE IF cancel_flag[t] # "no" THEN "CANCELLED"
    ELSE IF execution_failed[t] THEN "FAILED"
    ELSE IF status[t] = "RUNNING" THEN "DONE" ELSE status[t]

\* Mutated forms: signal only an empty queue's first task; never signal.
SignalIfEmpty == IF Asleep = {} \/ queue # {} THEN {None} ELSE Asleep
NoSignal      == {None}

\* cond_signal(not_empty): one of the sleeping workers, or nobody.
SignalTargets == IF Asleep = {} THEN {None} ELSE Asleep

\* Mutated form: one signal.
SignalOnce ==
    IF Asleep = {} THEN pc ELSE [pc EXCEPT ![CHOOSE w \in Asleep : TRUE] = "loop"]

\* cond_broadcast(not_empty).
BroadcastNotEmpty == [w \in Worker |-> IF pc[w] = "asleep" THEN "loop" ELSE pc[w]]

-----------------------------------------------------------------------------
\* scheduler_new_limited succeeded: InitWorkers threads at the head of
\* worker_main.
Init ==
    /\ queue = {} /\ all = {}
    /\ yield_list = [w \in Worker |-> <<>>]
    /\ workers = InitWorkers
    /\ active = 0 /\ completing = 0 /\ exited = 0 /\ rejected = 0 /\ next_id = 0
    /\ shutdown_flag = FALSE /\ history_count = 0
    /\ priority = [t \in Ids |-> 0]
    /\ status = [t \in Ids |-> "none"]
    /\ completed = [t \in Ids |-> FALSE]
    /\ references = [t \in Ids |-> 0]
    /\ borrowed = [t \in Ids |-> FALSE]
    /\ timed_out = [t \in Ids |-> FALSE]
    /\ execution_failed = [t \in Ids |-> FALSE]
    /\ cancel_flag = [t \in Ids |-> "no"]
    /\ run = [t \in Ids |-> "new"]
    /\ owner = [t \in Ids |-> None]
    /\ pc = [w \in Worker |-> IF w <= InitWorkers THEN "loop" ELSE "none"]
    /\ cur = [w \in Worker |-> None]
    /\ held = [c \in Clients |-> None]
    /\ asked = [c \in Clients |-> FALSE]
    /\ closer = "open"

-----------------------------------------------------------------------------
\* Submitting (any thread).

AtLimit == MaxActive > 0 /\ active >= MaxActive

\* The thread counts the growth loop of a submission may end with: it stops
\* at the active count, at max_workers, or at a thread_create that fails.
Grown == {n \in workers..MaxWorkers : n = workers \/ n <= active + 1}

\* Mutated form: a slot is counted although its thread was not created.
StartedButLast(n, s) ==
    [w \in Worker |-> IF w = s \/ w \in (workers + 1)..(n - 1) THEN "loop" ELSE pc[w]]

\* New threads begin at the head of worker_main, where the signal sends s.
Started(n, s) ==
    [w \in Worker |-> IF w = s \/ w \in (workers + 1)..n THEN "loop" ELSE pc[w]]

Submit(p) ==
    /\ closer # "freed" /\ ~shutdown_flag /\ ~AtLimit
    /\ next_id <= MaxId
    /\ next_id' = next_id + 1
    /\ priority' = [priority EXCEPT ![next_id] = p]
    /\ status' = [status EXCEPT ![next_id] = "QUEUED"]
    /\ all' = all \cup {next_id}
    /\ queue' = queue \cup {next_id}
    /\ active' = active + 1
    /\ \E n \in Grown, s \in SignalTargets :
          /\ workers' = n
          /\ pc' = Started(n, s)
    /\ UNCHANGED <<yield_list, rejected, completing, exited, shutdown_flag,
                   history_count, completed, references, borrowed, timed_out,
                   execution_failed, cancel_flag, run, owner, cur, clientVars, closer>>

\* SCHEDULER_FULL: no id is consumed.
SubmitRejected ==
    /\ closer # "freed" /\ ~shutdown_flag /\ AtLimit
    /\ rejected < MaxRejected
    /\ rejected' = rejected + 1
    /\ UNCHANGED <<queue, yield_list, workers, next_id, priority, countVars,
                   keepVars, taskVars, workerVars, clientVars, closer>>

EnsureNextId(n) ==
    /\ closer # "freed" /\ next_id < n
    /\ next_id' = n
    /\ UNCHANGED <<queue, yield_list, workers, rejected, priority, countVars,
                   keepVars, taskVars, workerVars, clientVars, closer>>

-----------------------------------------------------------------------------
\* worker_main, under the mutex.

Sleep(w) ==
    /\ pc[w] = "loop"
    /\ ~shutdown_flag /\ queue = {} /\ yield_list[w] = <<>>
    /\ pc' = [pc EXCEPT ![w] = "asleep"]
    /\ UNCHANGED <<queueVars, countVars, keepVars, taskVars, cur, clientVars, closer>>

\* A condition wait may return without a signal.
SpuriousWake(w) ==
    /\ pc[w] = "asleep"
    /\ pc' = [pc EXCEPT ![w] = "loop"]
    /\ UNCHANGED <<queueVars, countVars, keepVars, taskVars, cur, clientVars, closer>>

\* Mutated form: shutdown is not held back by queued tasks.
ExitAtOnce(w) ==
    /\ pc[w] = "loop" /\ shutdown_flag
    /\ exited' = exited + 1
    /\ pc' = [pc EXCEPT ![w] = "exited"]
    /\ UNCHANGED <<queueVars, active, completing, shutdown_flag, keepVars,
                   taskVars, cur, clientVars, closer>>

Exit(w) ==
    /\ pc[w] = "loop"
    /\ shutdown_flag /\ queue = {} /\ yield_list[w] = <<>>
    /\ exited' = exited + 1
    /\ pc' = [pc EXCEPT ![w] = "exited"]
    /\ UNCHANGED <<queueVars, active, completing, shutdown_flag, keepVars,
                   taskVars, cur, clientVars, closer>>

\* Mutated form: the continuation is not unlinked.
TakeYieldedLinked(w) ==
    /\ pc[w] = "loop" /\ yield_list[w] # <<>>
    /\ cur' = [cur EXCEPT ![w] = Head(yield_list[w])]
    /\ pc' = [pc EXCEPT ![w] = "run"]
    /\ UNCHANGED <<queueVars, countVars, keepVars, taskVars, clientVars, closer>>

\* The worker's own continuations go before the shared queue.
TakeYielded(w) ==
    /\ pc[w] = "loop" /\ yield_list[w] # <<>>
    /\ cur' = [cur EXCEPT ![w] = Head(yield_list[w])]
    /\ yield_list' = [yield_list EXCEPT ![w] = Tail(@)]
    /\ pc' = [pc EXCEPT ![w] = "run"]
    /\ UNCHANGED <<queue, workers, rejected, next_id, priority, countVars,
                   keepVars, taskVars, clientVars, closer>>

\* A queued task has no coroutine yet: it is created here, and a failure of
\* coro_new leaves the task FAILED with nothing to resume.
TakeQueued(w, t) ==
    /\ pc[w] = "loop" /\ yield_list[w] = <<>> /\ QueueTop(t)
    /\ cur' = [cur EXCEPT ![w] = t]
    /\ queue' = queue \ {t}
    /\ \/ /\ status' = [status EXCEPT ![t] = "RUNNING"]
          /\ run' = [run EXCEPT ![t] = "entry"]
          /\ owner' = [owner EXCEPT ![t] = w]
          /\ pc' = [pc EXCEPT ![w] = "run"]
       \/ /\ status' = [status EXCEPT ![t] = "FAILED"]
          /\ run' = [run EXCEPT ![t] = "nocoro"]
          /\ pc' = [pc EXCEPT ![w] = "ran"]
          /\ UNCHANGED owner
    /\ UNCHANGED <<yield_list, workers, rejected, next_id, priority, countVars,
                   keepVars, timed_out, execution_failed, cancel_flag,
                   clientVars, closer>>

Over(t) == run[t] \in {"nocoro", "aborted", "over"}

\* Mutated form: completing is not raised together with the end of active.
SettleUncounted(w) ==
    LET t == cur[w]
    IN  /\ pc[w] = "ran" /\ Over(t)
        /\ active' = active - 1
        /\ status' = [status EXCEPT ![t] = FinalStatus(t)]
        /\ pc' = [pc EXCEPT ![w] = "callback"]
        /\ UNCHANGED <<queueVars, completing, exited, shutdown_flag, keepVars,
                       timed_out, execution_failed, cancel_flag, run, owner, cur,
                       clientVars, closer>>

SettleDone(w) ==
    LET t == cur[w]
    IN  /\ pc[w] = "ran" /\ Over(t)
        /\ completing' = completing + 1
        /\ active' = active - 1
        /\ status' = [status EXCEPT ![t] = FinalStatus(t)]
        /\ pc' = [pc EXCEPT ![w] = "callback"]
        /\ UNCHANGED <<queueVars, exited, shutdown_flag, keepVars, timed_out,
                       execution_failed, cancel_flag, run, owner, cur,
                       clientVars, closer>>

\* Mutated form: the continuation goes to the next worker's slot.
SettleElsewhere(w) ==
    /\ pc[w] = "ran" /\ ~Over(cur[w])
    /\ yield_list' = [yield_list EXCEPT ![(w % workers) + 1] = Append(@, cur[w])]
    /\ cur' = [cur EXCEPT ![w] = None]
    /\ pc' = [pc EXCEPT ![w] = "loop"]
    /\ UNCHANGED <<queue, workers, rejected, next_id, priority, countVars,
                   keepVars, taskVars, clientVars, closer>>

SettleYield(w) ==
    /\ pc[w] = "ran" /\ ~Over(cur[w])
    /\ yield_list' = [yield_list EXCEPT ![w] = Append(@, cur[w])]
    /\ cur' = [cur EXCEPT ![w] = None]
    /\ pc' = [pc EXCEPT ![w] = "loop"]
    /\ UNCHANGED <<queue, workers, rejected, next_id, priority, countVars,
                   keepVars, taskVars, clientVars, closer>>

\* The callback has returned: the task becomes reclaimable, and history is
\* pruned in the same critical section.
Complete(w) ==
    LET t == cur[w]
    IN  /\ pc[w] = "callback"
        /\ completed' = [completed EXCEPT ![t] = TRUE]
        /\ all' = all \ Pruned(completed', references, borrowed, history_count)
        /\ completing' = completing - 1
        /\ cur' = [cur EXCEPT ![w] = None]
        /\ pc' = [pc EXCEPT ![w] = "loop"]
        /\ UNCHANGED <<queueVars, active, exited, shutdown_flag, history_count,
                       references, borrowed, taskVars, clientVars, closer>>

-----------------------------------------------------------------------------
\* The coroutine, resumed without the mutex: sched_trampoline.

\* The entry check: cancelled, or its deadline already passed.
RunAbort(w) ==
    LET t == cur[w]
    IN  /\ pc[w] = "run" /\ run[t] = "entry"
        /\ run' = [run EXCEPT ![t] = "aborted"]
        /\ status' = [status EXCEPT ![t] = "CANCELLED"]
        /\ pc' = [pc EXCEPT ![w] = "ran"]
        /\ UNCHANGED <<queueVars, countVars, keepVars, timed_out, execution_failed,
                       cancel_flag, owner, cur, clientVars, closer>>

\* Mutated form: no check before the work.
RunEntryUnchecked(w) ==
    /\ pc[w] = "run" /\ run[cur[w]] = "entry"
    /\ run' = [run EXCEPT ![cur[w]] = "body"]
    /\ pc' = [pc EXCEPT ![w] = "ran"]
    /\ UNCHANGED <<queueVars, countVars, keepVars, status, timed_out,
                   execution_failed, cancel_flag, owner, cur, clientVars, closer>>

\* The check passes; the runner yields once before the work.
RunEntry(w) ==
    LET t == cur[w]
    IN  /\ pc[w] = "run" /\ run[t] = "entry" /\ cancel_flag[t] = "no"
        /\ run' = [run EXCEPT ![t] = "body"]
        /\ pc' = [pc EXCEPT ![w] = "ran"]
        /\ UNCHANGED <<queueVars, countVars, keepVars, status, timed_out,
                       execution_failed, cancel_flag, owner, cur, clientVars, closer>>

\* The work itself, reduced to how it ends.  A run notices its deadline only
\* when no cancel was stored first.
RunBody(w) ==
    LET t == cur[w]
    IN  /\ pc[w] = "run" /\ run[t] = "body"
        /\ \E end \in {"ok", "failed", "timeout"} :
              /\ end = "timeout" => cancel_flag[t] = "no"
              /\ timed_out' = [timed_out EXCEPT ![t] = (end = "timeout")]
              /\ execution_failed' = [execution_failed EXCEPT ![t] = (end = "failed")]
        /\ run' = [run EXCEPT ![t] = "over"]
        /\ pc' = [pc EXCEPT ![w] = "ran"]
        /\ UNCHANGED <<queueVars, countVars, keepVars, status, cancel_flag, owner,
                       cur, clientVars, closer>>

-----------------------------------------------------------------------------
\* API threads.

Acquire(c, t) ==
    /\ closer # "freed" /\ held[c] = None /\ t \in all
    /\ held' = [held EXCEPT ![c] = t]
    /\ references' = [references EXCEPT ![t] = @ + 1]
    /\ UNCHANGED <<queueVars, countVars, all, history_count, completed, borrowed,
                   taskVars, workerVars, asked, closer>>

\* h_task_cancel reads the status without a lock ...
CancelCheck(c) ==
    /\ held[c] # None /\ ~asked[c]
    /\ status[held[c]] \in {"RUNNING", "QUEUED"}
    /\ asked' = [asked EXCEPT ![c] = TRUE]
    /\ UNCHANGED <<queueVars, countVars, keepVars, taskVars, workerVars, held, closer>>

\* Mutated form: the handler writes the status itself.
CancelStatus(c) ==
    /\ asked[c]
    /\ asked' = [asked EXCEPT ![c] = FALSE]
    /\ status' = [status EXCEPT ![held[c]] = "CANCELLED"]
    /\ UNCHANGED <<queueVars, countVars, keepVars, timed_out, execution_failed,
                   cancel_flag, run, owner, workerVars, held, closer>>

\* ... and stores the flag, then answers CANCELLING.  The flag remembers what
\* the task was doing when it was first stored.
CancelStore(c) ==
    LET t == held[c]
    IN  /\ asked[c]
        /\ asked' = [asked EXCEPT ![c] = FALSE]
        /\ cancel_flag' = [cancel_flag EXCEPT ![t] =
              IF @ # "no" THEN @
              ELSE IF status[t] = "QUEUED" THEN "queued"
              ELSE IF Settled(t) THEN "late" ELSE "running"]
        /\ UNCHANGED <<queueVars, countVars, keepVars, status, timed_out,
                       execution_failed, run, owner, workerVars, held, closer>>

Release(c) ==
    LET t == held[c]
    IN  /\ t # None /\ ~asked[c]
        /\ held' = [held EXCEPT ![c] = None]
        /\ references' = [references EXCEPT ![t] = IF @ > 0 THEN @ - 1 ELSE @]
        /\ all' = all \ Pruned(completed, references', borrowed, history_count)
        /\ UNCHANGED <<queueVars, countVars, history_count, completed, borrowed,
                       taskVars, workerVars, asked, closer>>

\* scheduler_get: a borrowed task is kept until scheduler_free.
Borrow(t) ==
    /\ closer # "freed" /\ t \in all
    /\ borrowed' = [borrowed EXCEPT ![t] = TRUE]
    /\ UNCHANGED <<queueVars, countVars, all, history_count, completed, references,
                   taskVars, workerVars, clientVars, closer>>

SetHistoryLimits(n) ==
    /\ closer # "freed"
    /\ history_count' = n
    /\ all' = all \ Pruned(completed, references, borrowed, n)
    /\ UNCHANGED <<queueVars, countVars, completed, references, borrowed,
                   taskVars, workerVars, clientVars, closer>>

-----------------------------------------------------------------------------
\* Shutdown: flag, broadcast, wait with a deadline, join; it may be called
\* again after a timeout.  scheduler_free returns at once while a thread is
\* not joined.

Shutdown ==
    /\ closer \in {"open", "timedout"}
    /\ closer' = "waiting"
    /\ shutdown_flag' = TRUE
    /\ pc' = BroadcastNotEmpty
    /\ UNCHANGED <<queueVars, active, completing, exited, keepVars, taskVars, cur,
                   clientVars>>

ShutdownTimeout ==
    /\ closer = "waiting" /\ exited < workers
    /\ closer' = "timedout"
    /\ UNCHANGED <<queueVars, countVars, keepVars, taskVars, workerVars, clientVars>>

ShutdownJoin ==
    /\ closer = "waiting" /\ exited >= workers
    /\ closer' = "joined"
    /\ UNCHANGED <<queueVars, countVars, keepVars, taskVars, workerVars, clientVars>>

\* The HTTP server is stopped before (runtime_shutdown), so no client is
\* inside a handler.
Free ==
    /\ closer = "joined"
    /\ \A c \in Clients : held[c] = None
    /\ closer' = "freed"
    /\ all' = {}
    /\ UNCHANGED <<queueVars, countVars, history_count, completed, references,
                   borrowed, taskVars, workerVars, clientVars>>

\* Nothing is left to do once the scheduler is freed.
Ended == closer = "freed" /\ UNCHANGED vars

-----------------------------------------------------------------------------
Runner(w) == RunAbort(w) \/ RunEntry(w) \/ RunBody(w)
Work(w) ==
    \/ Sleep(w) \/ Exit(w) \/ TakeYielded(w) \/ \E t \in Ids : TakeQueued(w, t)
    \/ Runner(w)
    \/ SettleDone(w) \/ SettleYield(w) \/ Complete(w)

Client(c) ==
    \/ \E t \in Ids : Acquire(c, t)
    \/ CancelCheck(c) \/ CancelStore(c) \/ Release(c)

Next ==
    \/ \E p \in Priorities : Submit(p)
    \/ SubmitRejected
    \/ \E n \in JournalMarks : EnsureNextId(n)
    \/ \E w \in Worker : Work(w) \/ SpuriousWake(w)
    \/ \E c \in Clients : Client(c)
    \/ \E t \in Borrowable : Borrow(t)
    \/ \E n \in HistoryLimits : SetHistoryLimits(n)
    \/ Shutdown \/ ShutdownTimeout \/ ShutdownJoin \/ Free
    \/ Ended

Spec == Init /\ [][Next]_vars

\* Every worker thread is scheduled by the OS and its runner ends.
FairSpec == Spec /\ \A w \in Worker : WF_vars(Work(w))

-----------------------------------------------------------------------------
\* PROPERTIES

TypeOK ==
    /\ queue \subseteq Ids /\ all \subseteq Ids
    /\ yield_list \in [Worker -> Seq(Ids)]
    /\ workers \in 1..MaxWorkers
    /\ active \in Int /\ completing \in Int
    /\ exited \in Nat /\ rejected \in Nat /\ next_id \in 0..(MaxId + 1)
    /\ shutdown_flag \in BOOLEAN /\ history_count \in Nat
    /\ priority \in [Ids -> Int]
    /\ status \in [Ids -> Statuses]
    /\ completed \in [Ids -> BOOLEAN] /\ borrowed \in [Ids -> BOOLEAN]
    /\ timed_out \in [Ids -> BOOLEAN] /\ execution_failed \in [Ids -> BOOLEAN]
    /\ references \in [Ids -> Nat]
    /\ cancel_flag \in [Ids -> {"no", "queued", "running", "late"}]
    /\ run \in [Ids -> {"new", "nocoro", "entry", "body", "aborted", "over"}]
    /\ owner \in [Ids -> Worker \cup {None}]
    /\ pc \in [Worker -> {"none", "loop", "asleep", "run", "ran", "callback", "exited"}]
    /\ cur \in [Worker -> Ids \cup {None}]
    /\ \A w \in Worker : cur[w] # None <=> pc[w] \in {"run", "ran", "callback"}
    /\ \A w \in Worker : pc[w] = "none" <=> w > workers
    /\ held \in [Clients -> Ids \cup {None}] /\ asked \in [Clients -> BOOLEAN]
    /\ closer \in {"open", "waiting", "timedout", "joined", "freed"}

InSlot(t, w) == \E i \in DOMAIN yield_list[w] : yield_list[w][i] = t

\* Every accepted task that has not completed is in exactly one place - the
\* ready heap, one worker's yield list, one worker's hands - and a completed
\* one is in none: worker_main moves it between them in different critical
\* sections and never drops, duplicates or runs it twice.
OnePlace ==
    /\ \A t \in Ids :
          (Born(t) /\ ~completed[t]) <=>
              (t \in queue \/ \E w \in Worker : InSlot(t, w) \/ cur[w] = t)
    /\ \A t \in queue, w \in Worker : ~InSlot(t, w) /\ cur[w] # t
    /\ \A v, w \in Worker : \A t \in Ids :
          /\ InSlot(t, v) => cur[w] # t
          /\ v # w => ~(InSlot(t, v) /\ InSlot(t, w)) /\ ~(cur[v] = t /\ cur[w] = t)

\* No memory is reclaimed under a user: a task that is queued, yielded, in a
\* worker's hands (its callback included), acquired by a client or borrowed
\* has not been freed by prune_history or scheduler_free.
NoReclaimInUse ==
    closer # "freed" =>
        \A t \in Ids :
            \/ t \in queue \/ borrowed[t]
            \/ \E w \in Worker : InSlot(t, w) \/ cur[w] = t
            \/ \E c \in Clients : held[c] = t
            => t \in all

\* A coroutine is resumed only by the worker whose thread created it: fiber
\* and ucontext state is tied to that thread.
ContinuationStaysHome ==
    \A w \in Worker : \A t \in Ids :
        InSlot(t, w) \/ (cur[w] = t /\ run[t] \in {"entry", "body"}) => owner[t] = w

\* What scheduler_wait_idle returns 0 for, active = 0 and completing = 0, does
\* mean that every accepted task's run, callback and accounting are over.
IdleIsQuiescent ==
    active = 0 /\ completing = 0 => \A t \in Ids : Born(t) => completed[t]

\* No lost wakeup: while some worker sleeps, every queued task has a worker
\* of its own that is awake, at the head of its loop, and has no continuation
\* that would go first.  One cond_signal per submission must keep this up.
SleepersNotNeeded ==
    Asleep # {} =>
        Cardinality(queue) <= Cardinality({w \in Worker : pc[w] = "loop" /\ yield_list[w] = <<>>})

\* A cancel stored before finalize_task ran decides the terminal status: only
\* an earlier timeout outranks it, whatever the runner reported.
CancelBeforeSettleWins ==
    \A t \in Ids :
        Settled(t) /\ cancel_flag[t] \in {"queued", "running"} =>
            status[t] = "CANCELLED" \/ (status[t] = "TIMEOUT" /\ timed_out[t])

\* A task cancelled while it was still queued never reaches its work.
QueuedCancelNeverRuns ==
    \A t \in Ids : cancel_flag[t] = "queued" =>
        run[t] \in {"new", "nocoro", "entry", "aborted"}

\* When scheduler_shutdown has joined the workers nothing was abandoned, and
\* scheduler_free never releases the slots, mutex and tasks under a thread.
ShutdownLeavesNothing ==
    closer \in {"joined", "freed"} =>
        /\ \A w \in Worker : pc[w] \in {"none", "exited"}
        /\ \A t \in Ids : Born(t) => completed[t]

\* A settled task's status is final: neither a late cancel nor another worker
\* rewrites what the API already showed.
SettledIsFinal ==
    [][\A t \in Ids : Settled(t) => status'[t] = status[t] /\ Settled(t)']_vars

\* Every accepted task is run, called back and accounted for (submissions are
\* bounded, so a smaller priority cannot starve it for ever).
AcceptedCompletes == \A t \in Ids : Born(t) ~> completed[t]

\* Once shutdown is flagged all workers drain their work and leave, so a
\* shutdown without a deadline returns.
ShutdownDrains == shutdown_flag ~> (exited = workers)

\* backend/README.md, "The scheduler is M:N": a task yields "to let another
\* task run"; sched_trampoline's comment says the same.  A worker whose only
\* continuation has just yielded, with other tasks waiting in the ready heap,
\* does not resume that continuation next.
YieldLetsAnotherRun ==
    [][\A w \in Worker : \A t \in Ids :
          (yield_list[w] = <<t>> /\ queue # {} /\ cur[w] = None) => cur'[w] # t]_vars

\* test_all.c: "A cancellation accepted in this window must be the first
\* visible terminal outcome" - a cancel the API answered CANCELLING is never
\* followed by DONE or FAILED.
AcceptedCancelIsTerminal ==
    \A t \in Ids : completed[t] /\ cancel_flag[t] # "no" =>
        status[t] \in {"CANCELLED", "TIMEOUT"}
=============================================================================
