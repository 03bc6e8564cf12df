------------------------------- MODULE Runtime -------------------------------
(***************************************************************************)
(* The runtime as a whole (cognitive_os_agent.c): init builds the parts in *)
(* order, channels, the cron thread and HTTP handlers submit tasks, tasks  *)
(* run on chat lanes or beside them, a client changes the model while they *)
(* run, and runtime_shutdown stops and frees the parts.  The pointers of   *)
(* the context are the set `up'.                                           *)
(***************************************************************************)
EXTENDS Integers, Sequences, FiniteSets

CONSTANTS
    Lanes,          \* chat_lanes
    MaxTasks,       \* bound of the tasks
    MaxModels,      \* bound of the model instances
    Recovered       \* the next id the task journal of the last run asks for

Nobody == 0
Nil == 0            \* no model

VARIABLES
    main,           \* "booting", "serving", "stopping", "over", or "abandoned"
    step,           \* steps of init or runtime_shutdown done
    up,             \* parts that exist
    accepting,      \* the scheduler takes tasks
    nextTask,       \* its next_id
    task,           \* the tasks, in the order they were submitted
    poller, cron, api,  \* where the threads that submit are
    model,          \* ctx->llm
    destroyed,      \* model instances that were freed
    laneModel,      \* the instance each lane uses
    laneHolder,     \* who has locked each lane
    fresh           \* the instance set_llm has made, and
                    \* the lanes it has still to give it to

runtimeVars == <<main, step, up, accepting, nextTask, task, poller, cron, api, model,
                 destroyed, laneModel, laneHolder, fresh>>

\* Mutated form: the jobs are started before the ids are known.
BootCronEarly == <<"llm", "im", "poller", "lanes", "scheduler", "cron", "journal", "http">>

\* The steps of init.
Boot == <<"llm", "im", "poller", "lanes", "scheduler", "journal", "cron", "http">>

\* The steps of runtime_shutdown: each waits for what it stops, and frees it.
Shutdown == <<"cron", "drain", "http", "journal", "scheduler", "lanes", "llm", "im", "poller">>

Init ==
    /\ main = "booting" /\ step = 0 /\ up = {}
    /\ accepting = FALSE /\ nextTask = 0 /\ task = <<>>
    /\ poller = "idle" /\ cron = "idle" /\ api = "idle"
    /\ model = Nil /\ destroyed = {}
    /\ laneModel = [l \in Lanes |-> Nil] /\ laneHolder = [l \in Lanes |-> Nobody]
    /\ fresh = [model |-> Nil, lanes |-> {}]

threads == <<poller, cron, api>>
models == <<model, destroyed, laneModel, laneHolder, fresh>>

-----------------------------------------------------------------------------
\* init, one part after the other.
Start(part) ==
    /\ main = "booting" /\ step < Len(Boot) /\ part = Boot[step + 1]
    /\ step' = step + 1 /\ up' = up \cup {part}
    /\ main' = IF step' = Len(Boot) THEN "serving" ELSE main
    /\ model' = IF part = "llm" THEN 1 ELSE model
    /\ laneModel' = IF part = "lanes" THEN [l \in Lanes |-> model] ELSE laneModel
    /\ accepting' = (accepting \/ part = "scheduler")
    /\ nextTask' = IF part = "journal" /\ nextTask < Recovered THEN Recovered ELSE nextTask
    /\ UNCHANGED <<task, threads, destroyed, laneHolder, fresh>>

\* A part cannot be made, or the server is told to stop.
StopIt ==
    /\ \/ main = "serving"
       \/ main = "booting" /\ Boot[step + 1] \in {"llm", "lanes", "scheduler", "journal", "http"}
    /\ main' = "stopping" /\ step' = 0
    /\ UNCHANGED <<up, accepting, nextTask, task, threads, models>>

Over(t) == t.at = "over"
AllOver == \A i \in DOMAIN task : Over(task[i])

\* What runtime_shutdown waits for before it goes on with a part.
Quiet(part) ==
    CASE part = "cron" -> cron = "idle"
      [] part = "drain" -> AllOver
      [] part = "http" -> api = "idle"
      [] part = "poller" -> poller = "idle"
      [] OTHER -> TRUE

\* The scheduler refuses tasks from the moment its workers are told to leave.
Refuse ==
    /\ main = "stopping" /\ Shutdown[step + 1] = "drain" /\ accepting
    /\ accepting' = FALSE
    /\ UNCHANGED <<main, step, up, nextTask, task, threads, models>>

Stop(part) ==
    /\ main = "stopping" /\ step < Len(Shutdown) /\ part = Shutdown[step + 1] /\ Quiet(part)
    /\ part = "drain" => ~accepting
    /\ step' = step + 1 /\ up' = up \ {part}
    /\ main' = IF step' = Len(Shutdown) THEN "over" ELSE main
    /\ destroyed' = IF part = "llm" /\ model # Nil THEN destroyed \cup {model} ELSE destroyed
    /\ UNCHANGED <<accepting, nextTask, task, threads, model, laneModel, laneHolder, fresh>>

\* The workers do not leave in time: everything is kept for them.
Abandon ==
    /\ main = "stopping" /\ Shutdown[step + 1] = "drain" /\ ~accepting /\ ~AllOver
    /\ main' = "abandoned"
    /\ UNCHANGED <<step, up, accepting, nextTask, task, threads, models>>

-----------------------------------------------------------------------------
\* scheduler_submit_tag
Submit(by) ==
    IF accepting
    THEN /\ Len(task) < MaxTasks
         /\ nextTask' = nextTask + 1
         /\ task' = Append(task, [id |-> nextTask, by |-> by, at |-> "queued",
                                  lane |-> Nobody, model |-> Nil])
    ELSE UNCHANGED <<nextTask, task>>

\* channel_poller_loop: a message for a room; the pointers are looked at
\* first and used after.
Ingest ==
    /\ poller = "idle" /\ {"poller", "im"} \subseteq up /\ poller' = "ingesting"
    /\ UNCHANGED <<main, step, up, accepting, nextTask, task, cron, api, models>>

IngestDispatch ==
    /\ poller = "ingesting"
    /\ poller' = IF "scheduler" \in up THEN "submitting" ELSE "idle"
    /\ UNCHANGED <<main, step, up, accepting, nextTask, task, cron, api, models>>

PollerSubmits ==
    /\ poller = "submitting" /\ poller' = "idle" /\ Submit("channel")
    /\ UNCHANGED <<main, step, up, accepting, cron, api, models>>

\* cron_loop: a job is due.
Tick ==
    /\ cron = "idle" /\ "cron" \in up /\ cron' = "submitting"
    /\ UNCHANGED <<main, step, up, accepting, nextTask, task, poller, api, models>>

CronSubmits ==
    /\ cron = "submitting" /\ cron' = "idle" /\ Submit("cron")
    /\ UNCHANGED <<main, step, up, accepting, poller, api, models>>

\* A handler; handlers take turns, and none begins after the stop.
Request ==
    /\ api = "idle" /\ main = "serving" /\ api' = "handling"
    /\ UNCHANGED <<main, step, up, accepting, nextTask, task, poller, cron, models>>

ApiSubmits ==
    /\ api = "handling" /\ api' = "idle" /\ Submit("api")
    /\ UNCHANGED <<main, step, up, accepting, poller, cron, models>>

-----------------------------------------------------------------------------
\* set_llm, called by a handler: a new instance ...
SwitchBegins ==
    /\ api = "handling" /\ Cardinality(destroyed) + 1 < MaxModels
    /\ api' = "switching"
    /\ fresh' = [model |-> model + 1, lanes |-> Lanes]
    /\ UNCHANGED <<main, step, up, accepting, nextTask, task, poller, cron,
                   model, destroyed, laneModel, laneHolder>>

\* Mutated form: the lane is not locked.
SwitchUnlocked(l) ==
    /\ api = "switching" /\ l \in fresh.lanes
    /\ laneModel' = [laneModel EXCEPT ![l] = fresh.model]
    /\ fresh' = [fresh EXCEPT !.lanes = @ \ {l}]
    /\ UNCHANGED <<main, step, up, accepting, nextTask, task, threads, model, destroyed, laneHolder>>

\* ... for every lane, when nothing runs on it ...
SwitchLane(l) ==
    /\ api = "switching" /\ l \in fresh.lanes /\ laneHolder[l] = Nobody
    /\ laneModel' = [laneModel EXCEPT ![l] = fresh.model]
    /\ fresh' = [fresh EXCEPT !.lanes = @ \ {l}]
    /\ UNCHANGED <<main, step, up, accepting, nextTask, task, threads, model, destroyed, laneHolder>>

\* ... and the old one is destroyed.
SwitchEnds ==
    /\ api = "switching" /\ fresh.lanes = {} /\ api' = "idle"
    /\ model' = fresh.model /\ destroyed' = destroyed \cup {model}
    /\ fresh' = [fresh EXCEPT !.model = Nil]
    /\ UNCHANGED <<main, step, up, accepting, nextTask, task, poller, cron, laneModel, laneHolder>>

-----------------------------------------------------------------------------
Set(i, t) == task' = [task EXCEPT ![i] = t]

\* sched_trampoline: a chat, or a turn of a room, runs on a lane (modules Lanes
\* and Rooms) ...
RunOnLane(i, l) ==
    /\ task[i].at = "queued" /\ laneHolder[l] = Nobody
    /\ laneHolder' = [laneHolder EXCEPT ![l] = i]
    /\ Set(i, [task[i] EXCEPT !.at = "running", !.lane = l, !.model = laneModel[l]])
    /\ UNCHANGED <<main, step, up, accepting, nextTask, threads, model, destroyed, laneModel, fresh>>

\* ... a flow or an orchestration, which only clients submit, beside them and
\* with ctx->llm.
RunBeside(i) ==
    /\ task[i].at = "queued" /\ task[i].by = "api"
    /\ Set(i, [task[i] EXCEPT !.at = "running", !.model = model])
    /\ UNCHANGED <<main, step, up, accepting, nextTask, threads, models>>

\* The task is over, and written to the journal.
Finish(i) ==
    /\ task[i].at = "running"
    /\ Set(i, [task[i] EXCEPT !.at = "over", !.lane = Nobody])
    /\ laneHolder' = [l \in Lanes |-> IF laneHolder[l] = i THEN Nobody ELSE laneHolder[l]]
    /\ UNCHANGED <<main, step, up, accepting, nextTask, threads, model, destroyed, laneModel, fresh>>

Next ==
    \/ \E k \in DOMAIN Boot : Start(Boot[k])
    \/ \E k \in DOMAIN Shutdown : Stop(Shutdown[k])
    \/ StopIt \/ Refuse \/ Abandon
    \/ Ingest \/ IngestDispatch \/ PollerSubmits \/ Tick \/ CronSubmits
    \/ Request \/ ApiSubmits \/ SwitchBegins \/ SwitchEnds
    \/ \E l \in Lanes : SwitchLane(l)
    \/ \E i \in DOMAIN task : RunBeside(i) \/ Finish(i) \/ \E l \in Lanes : RunOnLane(i, l)

Spec == Init /\ [][Next]_runtimeVars
-----------------------------------------------------------------------------
\* Whatever handlers, jobs and tasks use is there, through a failed start, a
\* clean stop and one that is given up ("Stop submitters first", "preserving
\* resources for running workers").  The poller of the channels is not: it is
\* stopped last.
UsedIsThere ==
    /\ \A i \in DOMAIN task : ~Over(task[i]) => {"scheduler", "lanes", "llm", "im"} \subseteq up
    /\ api # "idle" => {"scheduler", "journal", "lanes", "llm", "im"} \subseteq up
    /\ cron # "idle" => {"scheduler", "journal"} \subseteq up

\* "Establish durable IDs/checkpoints before cron or API can submit work": no
\* task of theirs has the id of a task of the last run.  One of the poller,
\* which runs from the start, may.
IdsAreDurable ==
    \A i \in DOMAIN task : task[i].by \in {"cron", "api"} => task[i].id >= Recovered

\* "Each lane lock excludes in-flight runs on that lane": a run on a lane has
\* one instance of the model from beginning to end, and it is not destroyed.
LaneKeepsItsModel ==
    \A i \in DOMAIN task : task[i].at = "running" /\ task[i].lane # Nobody =>
        /\ laneHolder[task[i].lane] = i
        /\ laneModel[task[i].lane] = task[i].model
        /\ task[i].model \notin destroyed

RuntimeSafe == UsedIsThere /\ IdsAreDurable /\ LaneKeepsItsModel

\* "Lanes are the only runners": then no run would lose its model.
RunKeepsItsModel ==
    \A i \in DOMAIN task : task[i].at = "running" => task[i].model \notin destroyed
=============================================================================
