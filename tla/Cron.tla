-------------------------------- MODULE Cron --------------------------------
(***************************************************************************)
(* Scheduled jobs (runtime/cron.c): a job runs every so many seconds or    *)
(* daily at a time.  A thread looks at the jobs from time to time and      *)
(* submits the ones that are due; the jobs are in a file, which is written *)
(* after every change and read at the start.  Time is counted in units of  *)
(* the shortest retry.                                                     *)
(***************************************************************************)
EXTENDS Integers, FiniteSets

CONSTANTS
    MaxJobs,        \* CRON_MAX_JOBS
    Intervals,      \* every_sec of the jobs added; 0 is a daily job
    Day, At,        \* the length of a day, and when the daily jobs are due
    LastTime,       \* bound of the clock
    MaxIds,         \* bound of the ids given out by one process
    MaxRestarts     \* bound of the restarts

Never == -1
Retry == 1

VARIABLES
    now,
    jobs,           \* function from the ids in use to the jobs
    file,           \* cron.json
    nextId,
    restarts,
    missed          \* history: ids of the jobs refused since they last ran

cronVars == <<now, jobs, file, nextId, restarts, missed>>

Put(f, k, v) == [x \in DOMAIN f \cup {k} |-> IF x = k THEN v ELSE f[x]]
Drop(f, k) == [x \in DOMAIN f \ {k} |-> f[x]]

\* daily_next_ms: strictly in the future.
DailyNext(t) == CHOOSE d \in t + 1 .. t + Day : d % Day = At

\* Mutated form: today's time again, until it has passed.
JobScheduleNextToday(every, t) ==
    IF every > 0 THEN t + every ELSE CHOOSE d \in t .. t + Day - 1 : d % Day = At

\* job_schedule_next
JobScheduleNext(every, t) == IF every > 0 THEN t + every ELSE DailyNext(t)

Init ==
    /\ now = 1 /\ jobs = <<>> /\ file = <<>> /\ nextId = 0
    /\ restarts = 0 /\ missed = {}

Clock ==
    /\ now < LastTime /\ now' = now + 1
    /\ UNCHANGED <<jobs, file, nextId, restarts, missed>>

\* cron_save_locked ends every operation that changes the jobs.  `ran' is a
\* history: last_run_ms is saved, but never read again.
Store(js) == jobs' = js /\ file' = js

\* cron_add, refused when the table is full.
Add(every) ==
    /\ Cardinality(DOMAIN jobs) < MaxJobs /\ nextId < MaxIds
    /\ Store(Put(jobs, nextId, [every |-> every, next |-> 0, enabled |-> TRUE, ran |-> Never]))
    /\ nextId' = nextId + 1
    /\ UNCHANGED <<now, restarts, missed>>

\* cron_remove
Remove(id) ==
    /\ Store(Drop(jobs, id)) /\ missed' = missed \ {id}
    /\ UNCHANGED <<now, nextId, restarts>>

\* cron_set_enabled: the next run stays as it was.
SetEnabled(id) ==
    /\ Store([jobs EXCEPT ![id].enabled = ~@])
    /\ UNCHANGED <<now, nextId, restarts, missed>>

\* cron_tick: one look at every job.  A job without a next run is scheduled
\* first.  The scheduler refuses some of the due jobs; these keep their
\* occurrence and are tried again.
First(j) == IF j.next = 0 THEN [j EXCEPT !.next = JobScheduleNext(j.every, now)] ELSE j
Due(j) == j.enabled /\ First(j).next <= now

\* Mutated form: a refused job waits for its next occurrence.
RefusedSkips(j) == [j EXCEPT !.next = JobScheduleNext(j.every, now)]

Refused(j) == [j EXCEPT !.next = now + Retry]

Submitted(j) == [j EXCEPT !.next = JobScheduleNext(j.every, now), !.ran = now]

Tick ==
    LET due == {id \in DOMAIN jobs : Due(jobs[id])}
    IN  \E refused \in SUBSET due :
           /\ Store([id \in DOMAIN jobs |->
                        IF id \in refused THEN Refused(jobs[id])
                        ELSE IF id \in due THEN Submitted(jobs[id])
                        ELSE IF jobs[id].enabled THEN First(jobs[id])
                        ELSE jobs[id]])
           /\ missed' = (missed \ due) \cup refused
           /\ UNCHANGED <<now, nextId, restarts>>

\* Mutated form: due at once, as the comment beside the code has it.
LoadDue(js) == [id \in DOMAIN js |-> [js[id] EXCEPT !.next = now]]

\* cron_load: the next runs are not taken over.
Load(js) == [id \in DOMAIN js |-> [js[id] EXCEPT !.next = 0]]

\* The process ends, now or while it writes the file, and starts again; ids
\* go on from the largest in the file.
Restart ==
    /\ restarts < MaxRestarts /\ restarts' = restarts + 1
    /\ missed' = {}
    /\ \E written \in {file, <<>>} :        \* "wb" cuts the file before it is written
          /\ file' = written
          /\ jobs' = Load(written)
          /\ nextId' = IF DOMAIN written = {} THEN 0
                       ELSE 1 + CHOOSE m \in DOMAIN written : \A k \in DOMAIN written : k <= m
    /\ UNCHANGED now

Next ==
    \/ Clock \/ Tick \/ Restart
    \/ \E every \in Intervals : Add(every)
    \/ \E id \in DOMAIN jobs : Remove(id) \/ SetEnabled(id)

Spec == Init /\ [][Next]_cronVars
-----------------------------------------------------------------------------
\* One occurrence is run once: the runs of a job are an interval apart, or a
\* due time lies between them, through refusals, switching off and on, and
\* restarts.
OncePerOccurrence ==
    \A id \in DOMAIN jobs \cap DOMAIN jobs' :
        LET r == jobs[id].ran   s == jobs'[id].ran
        IN  r # Never /\ s > r =>
                IF jobs[id].every > 0 THEN s >= r + jobs[id].every
                ELSE \E d \in r + 1 .. s : d % Day = At

\* "Admission failure is not execution: retain the due job and retry on a
\* later tick without consuming this occurrence": until the process ends, a
\* refused job is due again shortly.
RefusedStaysDue ==
    \A id \in missed \cap DOMAIN jobs : jobs[id].next <= now + Retry

CronKeepsTime == [][OncePerOccurrence /\ RefusedStaysDue']_cronVars
=============================================================================
