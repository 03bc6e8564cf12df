------------------------------ MODULE MCStores ------------------------------
(***************************************************************************)
(* Small instances of the ring and of the components that keep something   *)
(* for long - summaries, records, episodes, agents, plans, routes - in one *)
(* run: the variable part says which of them a behaviour is about, the     *)
(* others stay in one of their initial states.  Two modules are two parts  *)
(* each: "agents" has any hash function and no runs, "roster" runs and     *)
(* restarts of few agents; "routes" has listings, "policy" changes of it.  *)
(***************************************************************************)
EXTENDS Ringbuf

CONSTANTS
    None, Torn, MaxFailures, MaxCrashes,                        \* of several
    Clients, LastId,                                            \* Summary
    Sessions, Questions, Global, Cut, Overview, Budget, TopK, MaxLearns, \* Records
    Names, Experts, Hashes, FirstCap, Staff,                    \* AgentPool
    Agents, Unknown, MaxSteps, MaxChanges,                      \* Orchestrator
    Here, There, Model, RouteNames, MaxPicks,                   \* Router
    Lanes, Tasks, WorkingCap, EpisodesCap, Threshold, Interval, HalfLife,
    MinStrength, Fresh, MaxTime, MaxRuns                        \* Memory

\* One model at two endpoints; the catalog knows the first.
Targets == {<<Here, Model>>, <<There, Model>>}
Catalogued == {<<Here, Model>>}

VARIABLES
    part,
    nextTask, task, journal, job, rows, starting, failures, crashes, done, told,
    unsaved, orphans,
    memory, files, mirror, learns, lost, deaths, recalled, acked, unindexed, succeeded,
    agents, cap, slots, hash, models, roster, errand, posted, misses, reboots, unkept,
    phase, wanted, pool, scope, steps, at, how, resumes, changes, asked,
    routes, cursor, tie, policy, config, file, fetch, endpoint, listing, refused, stale,
    picks,
    clock, lane, working, number, mirrored, episodes, recallable, lastPass, passAt,
    saved, archive, runs, unwritten, restarts, adds, strays, forgotten, unarchived,
    written, kept, outlived

Job == INSTANCE Summary
Store == INSTANCE Records WITH Passworded <- {1, 2}, failures <- lost, crashes <- deaths
Pool == INSTANCE AgentPool WITH Models <- {Model}, failures <- misses, crashes <- reboots
Plan == INSTANCE Orchestrator WITH kind <- wanted, crashes <- resumes
Table == INSTANCE Router WITH Priced <- Catalogued, Capable <- Targets \ Catalogued,
                              phase <- fetch, asked <- endpoint, failures <- refused,
                              unsaved <- stale
Shared == INSTANCE Memory WITH ring <- working, seq <- number, file <- saved,
                               failures <- unwritten, crashes <- restarts,
                               orphans <- strays

summaryVars == <<nextTask, task, journal, job, rows, starting, failures, crashes, done,
                 told, unsaved, orphans>>
recordsVars == <<memory, files, mirror, learns, lost, deaths, recalled, acked,
                 unindexed, succeeded>>
poolVars == <<agents, cap, slots, hash, models, roster, errand, posted, misses,
              reboots, unkept>>
planVars == <<phase, wanted, pool, scope, steps, at, how, resumes, changes, asked>>
routerVars == <<routes, cursor, tie, policy, config, file, fetch, endpoint, listing,
                refused, stale, picks>>
memoryVars == <<clock, lane, working, number, mirrored, episodes, recallable, lastPass,
                passAt, saved, archive, runs, unwritten, restarts, adds, strays,
                forgotten, unarchived, written, kept, outlived>>
storesVars == <<part, vars, summaryVars, recordsVars, poolVars, planVars, routerVars,
                memoryVars>>

\* A part that is not looked at has one initial state.
StoresInit ==
    /\ Init /\ Job!Init /\ Store!Init /\ Pool!Init /\ Plan!Init /\ Table!Init
    /\ Shared!Init
    /\ part \in {"ring", "summary", "records", "agents", "roster", "plan", "routes", "policy", "memory"}
    /\ part # "records" => files = [id \in {} |-> Torn]
    /\ part # "agents" => \A n \in Names : hash[n] = 0
    /\ part # "plan" => pool = {}
    /\ policy = "cost"

StoresNext ==
    /\ UNCHANGED part
    /\ \/ /\ part = "ring" /\ Next
          /\ UNCHANGED <<summaryVars, recordsVars, poolVars, planVars, routerVars, memoryVars>>
       \/ /\ part = "summary" /\ Job!Next
          /\ UNCHANGED <<vars, recordsVars, poolVars, planVars, routerVars, memoryVars>>
       \/ /\ part = "records" /\ Store!Next
          /\ UNCHANGED <<vars, summaryVars, poolVars, planVars, routerVars, memoryVars>>
       \/ /\ part = "agents" /\ Pool!Next
          /\ UNCHANGED <<models, errand, posted, misses, reboots>>
          /\ UNCHANGED <<vars, summaryVars, recordsVars, planVars, routerVars, memoryVars>>
       \/ /\ part = "roster" /\ Pool!Next /\ \A i \in DOMAIN agents' : agents'[i] \in Staff
          /\ UNCHANGED <<vars, summaryVars, recordsVars, planVars, routerVars, memoryVars>>
       \/ /\ part = "plan" /\ Plan!Next
          /\ UNCHANGED <<vars, summaryVars, recordsVars, poolVars, routerVars, memoryVars>>
       \/ /\ part = "routes" /\ UNCHANGED <<policy, config>> /\ Table!Next
          /\ UNCHANGED <<vars, summaryVars, recordsVars, poolVars, planVars, memoryVars>>
       \/ /\ part = "policy" /\ UNCHANGED <<fetch, endpoint, listing>> /\ Table!Next
          /\ UNCHANGED <<vars, summaryVars, recordsVars, poolVars, planVars, memoryVars>>
       \/ /\ part = "memory" /\ Shared!Next
          /\ UNCHANGED <<vars, summaryVars, recordsVars, poolVars, planVars, routerVars>>

StoresSpec == StoresInit /\ [][StoresNext]_storesVars
-----------------------------------------------------------------------------
\* Of a part that is not looked at there is nothing to say.

\* What is known: a summary shown or published as done survives a crash, one job
\* runs at a time, and the latest summary does not go back; there is one record
\* for each origin, kept once acknowledged, indexed as it is, verified only when
\* earned, and recalled within scope and budget; working memory and episodes can
\* be recalled, passes are earned, what fades is archived, and the episodes of
\* runs that have ended survive.
KnowledgeSafe ==
    /\ [](part = "summary" => Job!SummarySafe)
    /\ [](part = "records" => Store!RecordsSafe)
    /\ Shared!MemorySafe

\* What is chosen from: the index of the agent pool finds every agent and no
\* other, the roster's file is what a restart would load, an expert's result names
\* a valid file; a plan is ordered, no agent outside the roster of a request runs,
\* and a preview runs nothing; a route's metadata is of its own target, configured
\* values and the policy stay, picks are shared.
PoolsSafe ==
    /\ [](part \in {"agents", "roster"} => Pool!PoolSafe)
    /\ [](part = "plan" => Plan!OrchestratorSafe)
    /\ Table!RouterSafe
=============================================================================
