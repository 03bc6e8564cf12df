------------------------------- MODULE Summary -------------------------------
(***************************************************************************)
(* The memory summary a user asks for (memory/summary.c): one job at a     *)
(* time, run as a task, whose identity is kept in summary-job.json and     *)
(* whose results are appended to summaries.jsonl.  Clients ask, start and  *)
(* cancel; writes fail; the process dies and recovers.                     *)
(*                                                                         *)
(* Every handler holds summary_lock and is one action; memory_summary_start*)
(* takes the lock twice.  A write a crash cuts off, or that fails half     *)
(* way, leaves Torn.                                                       *)
(***************************************************************************)
EXTENDS Integers, Sequences, FiniteSets, SequencesExt

CONSTANTS
    Clients,
    None, Torn,
    LastId,         \* bound: task ids
    MaxFailures,    \* bound: writes that fail
    MaxCrashes      \* bound: crashes

Ids == 0 .. LastId

VARIABLES
    nextTask,       \* the scheduler's next id
    task,           \* what the scheduler keeps: id |-> task, or None
    journal,        \* newest record of each id in the task journal
    job, rows,      \* summary-job.json and summaries.jsonl
    starting,       \* clients between the two halves of a start
    failures, crashes,
    done, told,     \* ghost: jobs published as DONE; those GET showed as DONE
    unsaved,        \* ghost: jobs whose own append failed
    orphans         \* ghost: jobs the job file could not be written for

summaryVars == <<nextTask, task, journal, job, rows, starting, failures, crashes,
                 done, told, unsaved, orphans>>

Init ==
    /\ nextTask = 0 /\ task = [i \in Ids |-> None] /\ journal = [i \in Ids |-> None]
    /\ job = None /\ rows = <<>> /\ starting = {}
    /\ failures = 0 /\ crashes = 0
    /\ done = {} /\ told = {} /\ unsaved = {} /\ orphans = {}

Summary(i) == task[i] # None /\ task[i].tag = "summary"
Active(i) == Summary(i) /\ task[i].status \in {"QUEUED", "RUNNING"}

-----------------------------------------------------------------------------
\* Files

Complete == SelectSeq(rows, LAMBDA r : r # Torn)

\* read_latest: the last row that parses.
Latest == IF Complete = <<>> THEN None ELSE Last(Complete)

\* Each write begins a fresh line.
WithRow(i) == Append(rows, i)

\* fs_append_file, and what a failing one may leave.
AppendRow(i, fails) ==
    IF fails THEN /\ failures < MaxFailures /\ failures' = failures + 1
                  /\ rows' \in {rows, Append(rows, Torn)}
    ELSE rows' = WithRow(i) /\ UNCHANGED failures

\* job_status: the scheduler first, then the journal, and only for a task
\* that bears the tag of summaries.
StatusOf(i) ==
    IF task[i] # None THEN (IF Summary(i) THEN task[i].status ELSE None)
    ELSE IF journal[i] # None /\ journal[i].tag = "summary" THEN journal[i].status
    ELSE None

JobStatus == IF job \in {None, Torn} THEN None ELSE StatusOf(job)

-----------------------------------------------------------------------------
\* The handlers

\* memory_summary_get: a result that is not the latest row is appended.
Uncommitted == JobStatus = "DONE" /\ Latest # job

Get(fails) ==
    /\ IF Uncommitted THEN AppendRow(job, fails)
       ELSE ~fails /\ UNCHANGED <<rows, failures>>
    /\ told' = IF JobStatus = "DONE" /\ ~fails THEN told \cup {job} ELSE told
    /\ UNCHANGED <<nextTask, task, journal, job, crashes, done, unsaved, orphans>>

Ask(c) ==
    /\ c \notin starting /\ \E fails \in BOOLEAN : Get(fails)
    /\ UNCHANGED starting

\* memory_summary_start, first half: what the last job left is committed; an
\* error ends the start.
StartCommits(c) ==
    /\ c \notin starting
    /\ \/ Get(TRUE) /\ UNCHANGED starting
       \/ Get(FALSE) /\ starting' = starting \cup {c}

NoneActive == JobStatus \notin {"QUEUED", "RUNNING"}

\* Second half.  If the job file cannot be written the task is cancelled.
Start(c) ==
    /\ c \in starting /\ starting' = starting \ {c}
    /\ IF NoneActive /\ nextTask <= LastId
       THEN \E fails \in BOOLEAN :
            /\ fails => failures < MaxFailures
            /\ failures' = IF fails THEN failures + 1 ELSE failures
            /\ nextTask' = nextTask + 1
            /\ task' = [task EXCEPT ![nextTask] =
                    [tag |-> "summary", status |-> "QUEUED", at |-> "queued",
                     ok |-> FALSE, cancel |-> fails]]
            /\ job' = IF fails THEN Torn ELSE nextTask
            /\ orphans' = IF fails THEN orphans \cup {nextTask} ELSE orphans
       ELSE UNCHANGED <<nextTask, task, job, failures, orphans>>
    /\ UNCHANGED <<journal, rows, crashes, done, told, unsaved>>

\* memory_summary_cancel
Cancel ==
    /\ job \in Ids /\ Active(job)
    /\ task' = [task EXCEPT ![job].cancel = TRUE]
    /\ UNCHANGED <<nextTask, journal, job, rows, starting, failures, crashes,
                   done, told, unsaved, orphans>>

\* Some other task takes an id; it may come as far as the journal.
OtherTask ==
    /\ nextTask <= LastId
    /\ nextTask' = nextTask + 1
    /\ task' = [task EXCEPT ![nextTask] =
            [tag |-> "chat", status |-> "QUEUED", at |-> "over", ok |-> FALSE, cancel |-> FALSE]]
    /\ journal' \in {journal, [journal EXCEPT ![nextTask] = [tag |-> "chat", status |-> "DONE"]]}
    /\ UNCHANGED <<job, rows, starting, failures, crashes, done, told, unsaved, orphans>>

-----------------------------------------------------------------------------
\* sched_trampoline and memory_summary_run, on a worker

At(i, place) == Summary(i) /\ task[i].at = place
Becomes(i, place) == task' = [task EXCEPT ![i].at = place]
WorkerKeeps == UNCHANGED <<nextTask, job, starting, crashes, told, orphans>>

Record(i, status) == journal' = [journal EXCEPT ![i] = [tag |-> "summary", status |-> status]]

\* Cancelled before it could run: no record of a beginning.
Dropped(i) ==
    /\ At(i, "queued") /\ task[i].cancel
    /\ task' = [task EXCEPT ![i].status = "CANCELLED", ![i].at = "settled"]
    /\ UNCHANGED <<journal, rows, failures, done, unsaved>> /\ WorkerKeeps

Run(i) ==
    /\ At(i, "queued") /\ ~task[i].cancel
    /\ task' = [task EXCEPT ![i].status = "RUNNING", ![i].at = "asking"]
    /\ Record(i, "RUNNING")
    /\ UNCHANGED <<rows, failures, done, unsaved>> /\ WorkerKeeps

\* The model has answered; a task that was cancelled by then has no result.
Answer(i) ==
    /\ At(i, "asking")
    /\ \E ok \in {FALSE, ~task[i].cancel} :
          task' = [task EXCEPT ![i].ok = ok, ![i].at = IF ok THEN "saving" ELSE "ended"]
    /\ UNCHANGED <<journal, rows, failures, done, unsaved>> /\ WorkerKeeps

Save(i) ==
    /\ At(i, "saving") /\ Becomes(i, "ended")
    /\ \E fails \in BOOLEAN :
          /\ AppendRow(i, fails)
          /\ unsaved' = IF fails THEN unsaved \cup {i} ELSE unsaved
    /\ UNCHANGED <<journal, done>> /\ WorkerKeeps

\* The scheduler publishes the status: a cancellation, if there was one,
\* else the result.
Published(i) ==
    IF task[i].cancel THEN "CANCELLED" ELSE IF task[i].ok THEN "DONE" ELSE "FAILED"

\* Mutated form: the status is published before the result is written.
SettleEarly(i) ==
    /\ Summary(i) /\ task[i].at \in {"saving", "ended"}
    /\ task' = [task EXCEPT ![i].status = Published(i), ![i].at = "settled"]
    /\ done' = IF Published(i) = "DONE" THEN done \cup {i} ELSE done
    /\ UNCHANGED <<journal, rows, failures, unsaved>> /\ WorkerKeeps

Settle(i) ==
    /\ At(i, "ended")
    /\ task' = [task EXCEPT ![i].status = Published(i), ![i].at = "settled"]
    /\ done' = IF Published(i) = "DONE" THEN done \cup {i} ELSE done
    /\ UNCHANGED <<journal, rows, failures, unsaved>> /\ WorkerKeeps

Journal(i) ==
    /\ At(i, "settled") /\ Becomes(i, "over")
    /\ Record(i, task[i].status)
    /\ UNCHANGED <<rows, failures, done, unsaved>> /\ WorkerKeeps

\* A task of the past leaves the scheduler's history.
Forget(i) ==
    /\ task[i] # None /\ task[i].at = "over" /\ journal[i] # None
    /\ task' = [task EXCEPT ![i] = None]
    /\ UNCHANGED <<journal, rows, failures, done, unsaved>> /\ WorkerKeeps

-----------------------------------------------------------------------------
\* The process dies, perhaps within an append or within the write of the job
\* file, and starts again: tasks the journal knows as running are recorded as
\* interrupted, and ids go on behind those it knows.
Crash ==
    /\ crashes < MaxCrashes /\ crashes' = crashes + 1
    /\ rows' \in {rows} \cup
           (IF Uncommitted \/ \E i \in Ids : At(i, "saving") THEN {Append(rows, Torn)} ELSE {})
    /\ job' \in {job} \cup (IF starting # {} /\ NoneActive THEN {Torn} ELSE {})
    /\ journal' = [i \in Ids |->
           IF journal[i] # None /\ journal[i].status = "RUNNING"
           THEN [journal[i] EXCEPT !.status = "INTERRUPTED"] ELSE journal[i]]
    /\ nextTask' = LET known == {i \in Ids : journal[i] # None}
                   IN  IF known = {} THEN 0 ELSE Max(known) + 1
    /\ task' = [i \in Ids |-> None] /\ starting' = {}
    /\ UNCHANGED <<failures, done, told, unsaved, orphans>>

Next ==
    \/ \E c \in Clients : Ask(c) \/ StartCommits(c) \/ Start(c)
    \/ Cancel \/ OtherTask \/ Crash
    \/ \E i \in Ids :
          \/ Dropped(i) \/ Run(i) \/ Answer(i) \/ Save(i)
          \/ Settle(i) \/ Journal(i) \/ Forget(i)

Spec == Init /\ [][Next]_summaryVars
-----------------------------------------------------------------------------
RowIds == {rows[k] : k \in DOMAIN rows} \ {Torn}

\* memory_summary_run: "a client that saw DONE must be able to recover the
\* summary after a hard restart" - its row is there, unless the append failed;
\* and then whoever was told of the result by GET without an error finds it.
DoneIsDurable == (done \ unsaved) \cup told \subseteq RowIds

\* At most one job runs, of those that were not cancelled.
OneJob == Cardinality({i \in Ids : Active(i) /\ ~task[i].cancel}) <= 1

\* A result is written once, and never behind a later one: the latest summary
\* does not go back.  Jobs without a job file are cancelled, but may answer
\* first and write late.
InOrder ==
    orphans = {} => \A k \in 1 .. Len(Complete) - 1 : Complete[k] < Complete[k + 1]

SummarySafe == DoneIsDurable /\ OneJob /\ InOrder
=============================================================================
