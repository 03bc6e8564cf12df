------------------------------ MODULE Recovery ------------------------------
(***************************************************************************)
(* What the runtime writes down about its tasks and what a restart makes   *)
(* of it: the task journal and the checkpoint files (tasklog.c), the       *)
(* registry of collaboration runs (flow_store.c), the places of the task   *)
(* runner and of the HTTP handlers that write them, and the order in which *)
(* runtime_init reads them back.  The process may die between any two      *)
(* writes and within each.                                                 *)
(*                                                                         *)
(* A write that fails, or that a crash cuts off, leaves Torn in its place: *)
(* a line of the journal that does not parse (the next append starts a     *)
(* line of its own), or a file that does not.                              *)
(***************************************************************************)
EXTENDS Integers, FiniteSets, Sequences, SequencesExt

CONSTANTS
    None, Torn,
    MaxRuns,        \* bound: tasks accepted in all
    MaxSeq,         \* bound: checkpoints of one run
    MaxCrashes,     \* bound: crashes
    MaxFailures     \* bound: writes that fail

Ids == 0 .. MaxRuns - 1

VARIABLES
    phase,      \* how far runtime_init is; see Phases
    nextTask,   \* the scheduler's next id
    cutOff,     \* the ids that are still to be recorded as interrupted
    tasks,      \* accepted by this process: id |-> what is kept of the task
    flows, nextFlow,        \* the registry in memory
    journal,    \* tasks.jsonl: records and torn lines
    slot,       \* the two checkpoint files of each id
    flowFile,   \* flows.json
    runs, crashes, unwritten,
    saved,      \* ghost: per id, the newest checkpoint completely written
    early,      \* ghost: ids dealt before they were raised above the journal's
    lost        \* ghost: ids whose RUNNING record was not written, or another
                \* one not whole

memory == <<nextTask, tasks, flows, nextFlow>>
disk   == <<journal, slot, flowFile>>
ghost  == <<saved, early, lost>>
bounds == <<runs, crashes, unwritten>>
vars   == <<phase, memory, cutOff, disk, bounds, ghost>>

\* The scheduler is there, with the poller of the channels that submits to it;
\* the journal was read; the ids are above it; completions are heard; the flows
\* were read and the API is open.
Phases == {"down", "starting", "recovering", "ready", "listening", "up"}

Ended == {"DONE"}       \* FAILED, CANCELLED and TIMEOUT are like DONE here
Empty == [i \in {} |-> None]
NoCheckpoint == [s \in {0, 1} |-> None]

Init ==
    /\ phase = "down" /\ nextTask = 0 /\ tasks = Empty /\ cutOff = {}
    /\ flows = <<>> /\ nextFlow = 0
    /\ journal = <<>> /\ slot = [i \in Ids |-> NoCheckpoint] /\ flowFile = None
    /\ runs = 0 /\ crashes = 0 /\ unwritten = 0
    /\ saved = [i \in Ids |-> None] /\ early = {} /\ lost = {}

-----------------------------------------------------------------------------
\* tasklog.c

\* The complete records of an id, by their places in the journal.
RecordsOf(i) ==
    {k \in DOMAIN journal : journal[k] # Torn /\ journal[k].id = i}
Journaled == {i \in Ids : RecordsOf(i) # {}}

\* tasklog_recover sorts by id and place and keeps the last of each id.
Newest(i) == journal[Max(RecordsOf(i))]

Unfinished == {i \in Journaled : Newest(i).status = "RUNNING"}

Fails == unwritten < MaxFailures /\ unwritten' = unwritten + 1

\* tasklog_record_access, which says nothing of it when the file cannot be
\* opened, or the line not be written.
Recorded(i, status, cp) ==
    /\ journal' = Append(journal, [id |-> i, status |-> status, cp |-> cp])
    /\ UNCHANGED <<lost, unwritten>>
RecordTorn(i) ==
    /\ journal' = Append(journal, Torn)
    /\ lost' = lost \cup {i} /\ Fails
NotRecorded(i, status) ==
    /\ UNCHANGED journal
    /\ lost' = IF status = "RUNNING" THEN lost \cup {i} ELSE lost
    /\ Fails

\* Mutated form: one checkpoint file, written over and over.
SlotOne(seq) == 0

\* tasklog_checkpoint writes the two files of a task in turn.
Slot(seq) == seq % 2

\* checkpoint_read
BestCheckpoint(i) ==
    LET whole == {slot[i][s] : s \in {0, 1}} \ {None, Torn}
    IN  IF whole = {} THEN None
        ELSE CHOOSE c \in whole : \A d \in whole : d.seq <= c.seq

-----------------------------------------------------------------------------
\* flow_store.c

Marked(rs, t, status) ==
    LET mine == {k \in DOMAIN rs : rs[k].task = t}
    IN  IF mine = {} THEN rs ELSE [rs EXCEPT ![Min(mine)].status = status]

\* save_locked: nobody learns that it failed.
FlowsSaved(rs) ==
    \/ flowFile' = rs /\ UNCHANGED unwritten
    \/ flowFile' \in {flowFile, Torn} /\ Fails

\* flow_store_mark changes the first record with the task id.
MarkFlow(t, status) ==
    /\ flows' = Marked(flows, t, status)
    /\ IF flows' # flows THEN FlowsSaved(flows') ELSE UNCHANGED <<flowFile, unwritten>>

\* What flow_store_init makes of the records of the last process.
Loaded(rs) ==
    [k \in DOMAIN rs |->
        IF rs[k].status = "RUNNING" THEN [rs[k] EXCEPT !.status = "INTERRUPTED"]
        ELSE rs[k]]

-----------------------------------------------------------------------------
\* runtime_init

\* The next id tasklog_recover reports to scheduler_ensure_next_id.
NextId == IF Journaled = {} THEN 0 ELSE Max(Journaled) + 1

\* The scheduler starts, with ids from 0; the poller of the channels runs already.
Boot ==
    /\ phase = "down" /\ phase' = "starting"
    /\ UNCHANGED <<memory, cutOff, disk, bounds, ghost>>

\* tasklog_recover reads the journal.  One of which nothing parses is not an
\* empty one: the runtime gives up (Crash stands for its end).
ReadJournal ==
    /\ phase = "starting" /\ (journal # <<>> => Journaled # {})
    /\ phase' = "recovering" /\ cutOff' = Unfinished
    /\ UNCHANGED <<memory, disk, bounds, ghost>>

\* One INTERRUPTED record; the checkpoint files are removed after it, unless the
\* journal could not be opened.
Interrupt(i) ==
    /\ phase = "recovering" /\ i \in cutOff /\ \A j \in cutOff : i <= j
    /\ cutOff' = cutOff \ {i}
    /\ \/ /\ Recorded(i, "INTERRUPTED", BestCheckpoint(i)) \/ RecordTorn(i)
          /\ slot' = [slot EXCEPT ![i] = NoCheckpoint]
       \/ /\ NotRecorded(i, "INTERRUPTED")
          /\ UNCHANGED slot
    /\ UNCHANGED <<phase, memory, flowFile, runs, crashes, saved, early>>

\* scheduler_ensure_next_id.  (What was journalled since the journal was read are
\* tasks of this process, whose ids are below nextTask anyway.)
EnsureNextId ==
    /\ phase = "recovering" /\ cutOff = {}
    /\ phase' = "ready" /\ nextTask' = Max({nextTask, NextId})
    /\ UNCHANGED <<tasks, flows, nextFlow, cutOff, disk, bounds, ghost>>

\* scheduler_set_completion_cb; then cron starts.
Listen ==
    /\ phase = "ready" /\ phase' = "listening"
    /\ UNCHANGED <<memory, cutOff, disk, bounds, ghost>>

\* The flow registry is read and saved, then the HTTP API opens.
Open ==
    /\ phase = "listening" /\ phase' = "up"
    /\ LET rs == IF flowFile \in {None, Torn} THEN <<>> ELSE Loaded(flowFile)
       IN  /\ flows' = rs
           /\ nextFlow' = IF rs = <<>> THEN 0 ELSE Max({rs[k].id : k \in DOMAIN rs}) + 1
           /\ IF flowFile \in {None, Torn} THEN UNCHANGED <<flowFile, unwritten>>
              ELSE FlowsSaved(rs)
    /\ UNCHANGED <<nextTask, tasks, cutOff, journal, slot, runs, crashes, ghost>>

-----------------------------------------------------------------------------
\* The poller of the channels, cron and the HTTP handlers

\* kind "flow": the handler registers the run once it is accepted.
Submit(kind) ==
    /\ phase # "down" /\ runs < MaxRuns /\ nextTask \in Ids
    /\ kind = "flow" => phase = "up"
    /\ runs' = runs + 1
    /\ tasks' = [j \in DOMAIN tasks \cup {nextTask} |->
                    IF j = nextTask
                    THEN [run |-> runs, at |-> "queued", status |-> "QUEUED", seq |-> 0,
                          reg |-> IF kind = "flow" THEN "add" ELSE "done"]
                    ELSE tasks[j]]
    /\ nextTask' = nextTask + 1
    /\ saved' = [saved EXCEPT ![nextTask] = None]
    /\ early' = IF phase \in {"starting", "recovering"} THEN early \cup {nextTask} ELSE early
    /\ UNCHANGED <<phase, flows, nextFlow, cutOff, disk, crashes, unwritten, lost>>

\* POST /v1/tasks/<id>/resume: what the journal knows as ended runs again.
ResumeTask(i) ==
    /\ phase = "up" /\ i \in Journaled /\ Newest(i).status # "RUNNING"
    /\ Submit("chat")

\* POST /v1/flows/<id>/resume
ResumeFlow(k) == k \in DOMAIN flows /\ Submit("flow")

\* flow_record_run, first half: the record is added.
Register(t) ==
    /\ phase = "up" /\ t \in DOMAIN tasks /\ tasks[t].reg = "add"
    /\ flows' = Append(flows, [id |-> nextFlow, task |-> t, status |-> "RUNNING",
                               run |-> tasks[t].run])
    /\ nextFlow' = nextFlow + 1
    /\ FlowsSaved(flows')
    /\ tasks' = [tasks EXCEPT ![t].reg = "check"]
    /\ UNCHANGED <<phase, nextTask, cutOff, journal, slot, runs, crashes, ghost>>

\* Second half: the task may have ended before it was registered.
Registered(t) ==
    /\ phase = "up" /\ t \in DOMAIN tasks /\ tasks[t].reg = "check"
    /\ IF tasks[t].status \in Ended THEN MarkFlow(t, tasks[t].status)
       ELSE UNCHANGED <<flows, flowFile, unwritten>>
    /\ tasks' = [tasks EXCEPT ![t].reg = "done"]
    /\ UNCHANGED <<phase, nextTask, nextFlow, cutOff, journal, slot, runs, crashes, ghost>>

\* PUT /v1/flows/<id> leaves a running record alone; of an ended one it
\* changes what nothing here looks at.

-----------------------------------------------------------------------------
\* sched_trampoline, checkpoint_progress and task_done, on a worker

At(t, place) == phase # "down" /\ t \in DOMAIN tasks /\ tasks[t].at = place

\* The scheduler publishes the status and looks for the callback, task_done.
AtEnd == IF phase \in {"listening", "up"} THEN "settled" ELSE "over"

\* Cancelled before it could start: no RUNNING record.
StartCancelled(t) ==
    /\ At(t, "queued")
    /\ tasks' = [tasks EXCEPT ![t].at = AtEnd, ![t].status = "DONE"]
    /\ UNCHANGED <<phase, nextTask, flows, nextFlow, cutOff, disk, bounds, ghost>>

Start(t) ==
    /\ At(t, "queued")
    /\ Recorded(t, "RUNNING", None) \/ RecordTorn(t) \/ NotRecorded(t, "RUNNING")
    /\ tasks' = [tasks EXCEPT ![t].at = "running", ![t].status = "RUNNING"]
    /\ UNCHANGED <<phase, nextTask, flows, nextFlow, cutOff, slot, flowFile, runs, crashes,
                   saved, early>>

Checkpoint(t) ==
    /\ At(t, "running") /\ tasks[t].seq < MaxSeq
    /\ LET c == [run |-> tasks[t].run, seq |-> tasks[t].seq + 1]
       IN  /\ slot' = [slot EXCEPT ![t][Slot(c.seq)] = c]
           /\ saved' = [saved EXCEPT ![t] = c]
    /\ tasks' = [tasks EXCEPT ![t].seq = @ + 1]
    /\ UNCHANGED <<phase, nextTask, flows, nextFlow, cutOff, journal, flowFile, bounds,
                   early, lost>>

\* The write fails half way; the next one goes to the same file.
CheckpointFails(t) ==
    /\ At(t, "running") /\ tasks[t].seq < MaxSeq /\ Fails
    /\ slot' = [slot EXCEPT ![t][Slot(tasks[t].seq + 1)] = Torn]
    /\ UNCHANGED <<phase, memory, cutOff, journal, flowFile, runs, crashes, ghost>>

Settle(t) ==
    /\ At(t, "running")
    /\ \E status \in Ended : tasks' = [tasks EXCEPT ![t].at = AtEnd, ![t].status = status]
    /\ UNCHANGED <<phase, nextTask, flows, nextFlow, cutOff, disk, bounds, ghost>>

\* The checkpoint files are not removed when the journal could not be opened.
Journal(t) ==
    /\ At(t, "settled")
    /\ \/ /\ Recorded(t, tasks[t].status, None) \/ RecordTorn(t)
          /\ tasks' = [tasks EXCEPT ![t].at = "journaled"]
       \/ /\ NotRecorded(t, tasks[t].status)
          /\ tasks' = [tasks EXCEPT ![t].at = "swept"]
    /\ UNCHANGED <<phase, nextTask, flows, nextFlow, cutOff, slot, flowFile, runs, crashes,
                   saved, early>>

Sweep(t) ==
    /\ At(t, "journaled")
    /\ slot' = [slot EXCEPT ![t] = NoCheckpoint]
    /\ tasks' = [tasks EXCEPT ![t].at = "swept"]
    /\ UNCHANGED <<phase, nextTask, flows, nextFlow, cutOff, journal, flowFile, bounds,
                   ghost>>

\* There are no flows before they are read.
Mirror(t) ==
    /\ At(t, "swept")
    /\ MarkFlow(t, tasks[t].status)
    /\ tasks' = [tasks EXCEPT ![t].at = "over"]
    /\ UNCHANGED <<phase, nextTask, nextFlow, cutOff, journal, slot, runs, crashes, ghost>>

-----------------------------------------------------------------------------
\* The process dies.  Any write under way may be cut off; an append to the
\* journal leaves a line, a file that is written anew is empty or cut.
TornJournal == Append(journal, Torn)
TornSlot(t) == [slot EXCEPT ![t][Slot(tasks[t].seq + 1)] = Torn]
SavingFlows ==
    \/ phase = "listening" /\ flowFile # None
    \/ /\ phase = "up"
       /\ \E t \in DOMAIN tasks : tasks[t].reg \in {"add", "check"} \/ tasks[t].at = "swept"
Appending ==
    \/ phase = "recovering" /\ cutOff # {}
    \/ \E t \in DOMAIN tasks : tasks[t].at \in {"queued", "settled"}

Crash ==
    /\ phase # "down" /\ crashes < MaxCrashes
    /\ journal' \in {journal} \cup (IF Appending THEN {TornJournal} ELSE {})
    /\ slot' \in {slot} \cup {TornSlot(t) : t \in {u \in DOMAIN tasks : tasks[u].at = "running"}}
    /\ flowFile' \in {flowFile} \cup (IF SavingFlows THEN {Torn} ELSE {})
    /\ phase' = "down" /\ crashes' = crashes + 1
    /\ nextTask' = 0 /\ tasks' = Empty /\ flows' = <<>> /\ nextFlow' = 0 /\ cutOff' = {}
    /\ UNCHANGED <<runs, unwritten, ghost>>

Next ==
    \/ Boot \/ ReadJournal \/ EnsureNextId \/ Listen \/ Open \/ Crash
    \/ Submit("chat") \/ Submit("flow")
    \/ \E k \in 1 .. MaxRuns : ResumeFlow(k)
    \/ \E t \in Ids :
          \/ Interrupt(t) \/ ResumeTask(t) \/ Register(t) \/ Registered(t)
          \/ StartCancelled(t) \/ Start(t) \/ Checkpoint(t) \/ CheckpointFails(t)
          \/ Settle(t) \/ Journal(t) \/ Sweep(t) \/ Mirror(t)

Spec == Init /\ [][Next]_vars

-----------------------------------------------------------------------------
\* The journal tells each id's life once: RUNNING at most once, one record of its
\* end at most, and nothing after that - whatever crashed or could not be written,
\* and although every process deals ids anew (tasklog_recover,
\* scheduler_ensure_next_id: "never reuse IDs").  An id that the poller of the
\* channels was dealt before scheduler_ensure_next_id may be that of an older task.
OneLifePerId ==
    \A i \in Journaled \ early :
        \A k, l \in RecordsOf(i) : k < l =>
            journal[k].status = "RUNNING" /\ journal[l].status # "RUNNING"

\* The INTERRUPTED record of a task carries the last checkpoint of that very
\* run that was completely written, also when the crash, or a full disk, cut
\* off a later one, or the end of an earlier recovery could not be recorded
\* (tasklog_checkpoint and checkpoint_read); but for such an early id, and one
\* whose journal was not written when its task began, or cut off.
NewestCheckpointSurvives ==
    [][\A i \in Ids \ (early \cup lost) :
          Interrupt(i) /\ journal' # journal /\ Last(journal') # Torn =>
              Last(journal').cp = saved[i]]_vars

\* A run listed as RUNNING is one of this process and has not ended; only
\* when ids were dealt twice, so that records share a task id, may the older
\* record have received the end of the newer run.
SharesTask(k) == \E l \in DOMAIN flows : l # k /\ flows[l].task = flows[k].task
Followed(k) ==
    flows[k].status = "RUNNING" =>
        \E t \in DOMAIN tasks :
            /\ flows[k].run = tasks[t].run
            /\ tasks[t].at # "over" \/ tasks[t].reg # "done"
FlowFollowsRun == phase = "up" => \A k \in DOMAIN flows : SharesTask(k) \/ Followed(k)

\* What the comments promise without that exception: "collaboration tasks:
\* mirror terminal status into the persistent registry".
EveryFlowFollowsRun == phase = "up" => \A k \in DOMAIN flows : Followed(k)
=============================================================================
