----------------------------- MODULE MCServices -----------------------------
(***************************************************************************)
(* Small instances of components that share no state, in one run: the      *)
(* variable part says which of them a behaviour is about, the others stay  *)
(* in their initial states.                                                *)
(***************************************************************************)
EXTENDS Integers, FiniteSets

CONSTANTS
    Missing, Torn, MaxRuns, MaxSeq, DiskCrashes, MaxFailures,          \* Recovery
    MaxJobs, Intervals, Day, DailyAt, LastTime, MaxIds, MaxRestarts,     \* Cron
    Rooms, RoomLocks, Rounds, LastMessage, MaxHuman,                \* Rooms
    N, MaxParallel,                                                 \* Flow
    Callers, MaxId, MaxProcess, MaxTests,                           \* Mcp
    Names, Twin, Original, Configs, Stdio, Offers, Local, Default,  \* McpServers
    Tasks, MaxChanges, MaxCalls, ServerCrashes,
    Lanes, MaxTasks, MaxModels, Recovered,                          \* Runtime
    Conns, MaxConn,                                                 \* Http
    Handlers, Starter, OldNames, MaxFiles, MaxCrashes               \* Attachments

\* A room of three seats, one agent listed twice.
Members == <<"ann", "bob", "ann">>

VARIABLES
    part,
    stage, newestTask, tasks, flows, nextFlow, cutOff, journal, slot, flowFile, runs,
    crashes, unwritten, saved, early, lost,
    now, jobs, file, nextId, restarts, missed,
    nextMessage, log, gone, talk, speaking, roomLock, stopped,
    phase, edges, indeg, queue, pending, layer, level, at, rc, engine,
    shown, attached, held, abort, verdict,
    process, alive, greeted, asked, buffer, initialized, tools, jsonrpcId,
    lock, call, test, tests, wrong, handed, twice,
    conns, registry, gens, owned, freed, mcpFile, request, manager, using, changes,
    calls, unsaved, restarted, wanted, deletedServers,
    main, step, up, accepting, nextTask, task, poller, cron, api, model,
    destroyed, laneModel, laneHolder, fresh,
    stopFlag, server, active, connections, place, thread, dispatch, reader,
    clients, closes,
    files, manifest, old, todo, index, nextFile, work, served, failures, deaths,
    stored, unwanted, deleted, imported, torn

Disk == INSTANCE Recovery WITH
    None <- Missing, phase <- stage, nextTask <- newestTask, MaxCrashes <- DiskCrashes
Cron == INSTANCE Cron WITH At <- DailyAt
Room == INSTANCE Rooms WITH active <- speaking
Flow == INSTANCE Flow
Mcp == INSTANCE Mcp
Servers == INSTANCE McpServers WITH
    file <- mcpFile, lock <- manager, call <- using, failures <- unsaved,
    crashes <- restarted, gone <- deletedServers, MaxCrashes <- ServerCrashes
Whole == INSTANCE Runtime
Http == INSTANCE Http
Upload == INSTANCE Attachments WITH
    Clients <- Handlers, None <- Missing, MaxIds <- MaxFiles, nextId <- nextFile,
    up <- served, crashes <- deaths

diskVars == <<stage, newestTask, tasks, flows, nextFlow, cutOff, journal, slot, flowFile,
              runs, crashes, unwritten, saved, early, lost>>
cronVars == <<now, jobs, file, nextId, restarts, missed>>
roomsVars == <<nextMessage, log, gone, talk, speaking, roomLock, stopped>>
flowVars == <<phase, edges, indeg, queue, pending, layer, level, at, rc, engine,
              shown, attached, held, abort, verdict>>
mcpVars == <<process, alive, greeted, asked, buffer, initialized, tools, jsonrpcId,
             lock, call, test, tests, wrong, handed, twice>>
serverVars == <<conns, registry, gens, owned, freed, mcpFile, request, manager, using,
                changes, calls, unsaved, restarted, wanted, deletedServers>>
runtimeVars == <<main, step, up, accepting, nextTask, task, poller, cron, api, model,
                 destroyed, laneModel, laneHolder, fresh>>
httpVars == <<stopFlag, server, active, connections, place, thread, dispatch, reader,
              clients, closes>>
uploadVars == <<files, manifest, old, todo, index, nextFile, work, served, failures,
                deaths, stored, unwanted, deleted, imported, torn>>
vars == <<part, diskVars, cronVars, roomsVars, flowVars, mcpVars, serverVars, runtimeVars,
          httpVars, uploadVars>>

Init ==
    /\ part \in {"disk", "cron", "rooms", "flow", "mcp", "servers", "whole", "http", "upload"}
    /\ Disk!Init /\ Cron!Init /\ Room!Init /\ Flow!Init /\ Mcp!Init
    /\ Servers!Init /\ Whole!Init /\ Http!Init /\ Upload!Init
    /\ part # "upload" => old = {}

Next ==
    /\ UNCHANGED part
    /\ \/ /\ part = "disk" /\ Disk!Next
          /\ UNCHANGED <<cronVars, roomsVars, flowVars, mcpVars, serverVars,
                         runtimeVars, httpVars, uploadVars>>
       \/ /\ part = "cron" /\ Cron!Next
          /\ UNCHANGED <<diskVars, roomsVars, flowVars, mcpVars, serverVars,
                         runtimeVars, httpVars, uploadVars>>
       \/ /\ part = "rooms" /\ Room!Next
          /\ UNCHANGED <<diskVars, cronVars, flowVars, mcpVars, serverVars,
                         runtimeVars, httpVars, uploadVars>>
       \/ /\ part = "flow" /\ Flow!Next
          /\ UNCHANGED <<diskVars, cronVars, roomsVars, mcpVars, serverVars,
                         runtimeVars, httpVars, uploadVars>>
       \/ /\ part = "mcp" /\ Mcp!Next
          /\ UNCHANGED <<diskVars, cronVars, roomsVars, flowVars, serverVars,
                         runtimeVars, httpVars, uploadVars>>
       \/ /\ part = "servers" /\ Servers!Next
          /\ UNCHANGED <<diskVars, cronVars, roomsVars, flowVars, mcpVars,
                         runtimeVars, httpVars, uploadVars>>
       \/ /\ part = "whole" /\ Whole!Next
          /\ UNCHANGED <<diskVars, cronVars, roomsVars, flowVars, mcpVars,
                         serverVars, httpVars, uploadVars>>
       \/ /\ part = "http" /\ Http!Next
          /\ UNCHANGED <<diskVars, cronVars, roomsVars, flowVars, mcpVars,
                         serverVars, runtimeVars, uploadVars>>
       \/ /\ part = "upload" /\ Upload!Next
          /\ UNCHANGED <<diskVars, cronVars, roomsVars, flowVars, mcpVars,
                         serverVars, runtimeVars, httpVars>>

Spec == Init /\ [][Next]_vars

\* A job runs every so many seconds or, with 0, daily at a time of the day.
ASSUME CronAssumption == Intervals \subseteq Nat /\ Day \in Nat \ {0} /\ DailyAt \in 0..(Day - 1)

\* The file has rooms at the start, finitely many; LastMessage is a number.
ASSUME RoomAssumption ==
    Rooms \in SUBSET Nat /\ (\E s \in Rooms : \A r \in Rooms : r <= s) /\ LastMessage \in Nat

\* A flow has N nodes, of which MaxParallel run at once.
ASSUME FlowAssumption == N \in Nat /\ MaxParallel \in Nat

\* What a crash leaves is neither a checkpoint nor a record, nor is what is not there.
Checkpoints == [run : Nat, seq : Nat \ {0}]
Record == [id : Disk!Ids, status : {"RUNNING", "INTERRUPTED", "DONE"},
           cp : Checkpoints \cup {Missing}]
ASSUME DiskAssumption ==
    MaxRuns \in Nat /\ Missing \notin Checkpoints /\ Torn \notin Checkpoints \cup Record

\* The files of the folder mcp/ name servers, finitely many, and hold one
\* configuration.
ASSUME ServersAssumption == Local \subseteq Names /\ IsFiniteSet(Local) /\ Default \in Configs

\* Finitely many connections, of which MaxConn are served at once.
ASSUME HttpAssumption == IsFiniteSet(Conns) /\ Http!None \notin Conns /\ MaxConn \in Nat

\* Recovered is the highest id in the journal.
ASSUME WholeAssumption == Recovered \in Nat

\* The starter is no handler, an old name is no id, and what a manifest can say
\* is not that there is none.
ASSUME UploadAssumption ==
    /\ MaxFiles \in Nat /\ Starter \notin Handlers /\ Missing \notin OldNames
    /\ OldNames \cap Upload!Ids = {}
    /\ Missing \notin [kind : Upload!Kinds, status : {"ready", "unsupported", "failed"}]
-----------------------------------------------------------------------------
\* A journalled id is given to one task, through every crash and restart, but for
\* what the poller of the channels submits while the runtime starts; the record
\* of a flow says what became of its run; and a crash, or a full disk, while a
\* checkpoint is written leaves the one before it, as long as the journal of its
\* task was written.
DiskSafe ==
    [](part = "disk" => Disk!OneLifePerId /\ Disk!FlowFollowsRun)
    /\ Disk!NewestCheckpointSurvives

\* A tick runs what is due, once, and no job is due forever.
CronKeepsTime == Cron!CronKeepsTime

\* A reply is written only to the room, and for the message, it was made for;
\* a discussion is given up for a later message only, and one that ended as
\* complete has the consent of all who can speak; the layers of a flow respect
\* its edges, a node runs with the results of all it depends on, the verdict
\* says what became of the nodes, and nobody uses the engine of a flow that is
\* over.
TeamsSafe ==
    /\ part = "rooms" => Room!RepliesFit /\ Room!OvertakenOnly /\ Room!EndsTogether
    /\ part = "flow" =>
          Flow!LayersFit /\ Flow!NodeHasInputs /\ Flow!VerdictFits /\ Flow!EngineLives

\* A call returns the answer to its own request, from the process it was
\* written to, and what is kept of a session belongs to the process that runs;
\* the registry leads to no tool that was freed or whose server was deleted, and
\* servers that were saved stay, or stay away, through restarts, unless a later
\* save is cut off.
McpSafe ==
    /\ part = "mcp" => Mcp!AnswersFit /\ Mcp!SessionFits
    /\ part = "servers" => Servers!McpServersSafe

\* Whatever handlers, jobs and tasks use exists, through start and shutdown,
\* no task of a job or a client has an id of the last run, and a run on a lane
\* has one model from beginning to end; the stop list holds the sockets the
\* server must wake and no other, requests take turns, and the server is freed
\* when all is quiet; an uploaded file is known when it is whole, answers stay
\* true through crashes, and what can be recalled is what there is.
ServingSafe ==
    /\ part = "whole" => Whole!UsedIsThere /\ Whole!IdsAreDurable /\ Whole!LaneKeepsItsModel
    /\ part = "http" => Http!StopListFits /\ Http!HandlersTakeTurns /\ Http!FreedWhenQuiet
    /\ part = "upload" => Upload!AttachmentsSafe
=============================================================================
